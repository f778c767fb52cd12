--------------------------- MODULE APIExtraction ---------------------------
(***************************************************************************)
(* How get_api describes the API of a package.  The files are parsed one   *)
(* after the other, and a visitor enters and leaves the declarations in    *)
(* them: it keeps what it is in on a stack, hands a declaration to the     *)
(* one around it when it leaves it, and decides what is public by the      *)
(* names that __init__.py files have re-exported up to then.               *)
(*                                                                         *)
(* What the files hold grows as they are walked, so that every package is  *)
(* one.  A qualified name is the sequence of its segments.                 *)
(***************************************************************************)
EXTENDS Integers, FiniteSets, Sequences

CONSTANTS
  Files,         \* records of the module's qname, and whether it is an __init__ or a test file
  Orders,        \* the orders in which os.walk may list Files
  ClassNames, FunctionNames,
  Underscored,   \* the names that begin with an underscore
  Dunder,        \* of these, the names that end with two
  Accessors,     \* none, or what a decorator makes of a function: getter, setter, deleter
  Begins,        \* pairs of segments: the text of the second begins with that of the first
  Exportable,    \* the declarations __init__ files may re-export
  MaxNodes,      \* bound on the declarations in a package
  MaxExports     \* bound on the declarations an __init__ file re-exports

ASSUME PackageIsWellFormed ==
  /\ \A f \in Files : f.init \in BOOLEAN /\ f.test \in BOOLEAN /\ f.qname \in Seq(STRING)
  /\ \A o \in Orders : o \in Seq(Files)
  /\ Dunder \subseteq Underscored
  /\ MaxNodes \in Nat /\ MaxExports \in Nat

(* os.walk lists no file twice.  No package has the name of a module: the  *)
(* description of one would replace that of the other, as Python imports   *)
(* but one of them.                                                        *)
ASSUME ModulesHaveOneFile ==
  \A o \in Orders : \A i, j \in 1 .. Len(o) :
    i # j /\ ~o[i].test /\ ~o[j].test => o[i].qname # o[j].qname

VARIABLES
  files,              \* those that are not parsed yet
  path,               \* the nodes of the syntax tree that are entered and not left
  declaration_stack,
  reexported,         \* the modules that re-export a name
  api,
  nodes               \* all declarations entered so far

vars == <<files, path, declaration_stack, reexported, api, nodes>>
-----------------------------------------------------------------------------
Top(s) == s[Len(s)]
Parent(q) == SubSeq(q, 1, Len(q) - 1)
(* str.startswith compares the text: "a.b" is also a prefix of "a.bc".     *)
StartsWith(r, q) ==
  Len(q) <= Len(r) /\ Parent(q) = SubSeq(r, 1, Len(q) - 1) /\ <<Top(q), r[Len(q)]>> \in Begins
Segments(q) == {q[i] : i \in 1 .. Len(q)}

(* Mutant: leaves the files as os.walk lists them.                         *)
AsListed(order) == order

(* __move_init_files_to_front                                              *)
Selected(order, init) ==
  LET chosen[i \in 0 .. Len(order)] ==
        IF i = 0 THEN <<>>
        ELSE IF order[i].init = init THEN Append(chosen[i - 1], order[i]) ELSE chosen[i - 1]
  IN chosen[Len(order)]
InitFilesFirst(order) == Selected(order, TRUE) \o Selected(order, FALSE)

NothingYet == [x \in {} |-> x]
With(f, k, v) == [x \in DOMAIN f \cup {k} |-> IF x = k THEN v ELSE f[x]]

(* A declaration on the stack; the ids of its members are added to it.     *)
(* What re-exports it is the list of the map itself if there is one: it    *)
(* grows with the map, but a list that comes to be later is missed.        *)
Declaration(sort, id, qname, is_public, sharesList) ==
  [sort |-> sort, id |-> id, qname |-> qname, is_public |-> is_public,
   sharesList |-> sharesList, classes |-> {}, functions |-> {}]

(* An id has the names on the stack, and tells accessors apart.            *)
Id(stack, name, accessor) ==
  [module |-> stack[1].qname,
   names |-> [i \in 1 .. Len(stack) |-> IF i = Len(stack) THEN name ELSE Top(stack[i + 1].qname)],
   accessor |-> accessor]
ModuleId(qname) == [module |-> qname, names |-> <<>>, accessor |-> "none"]

(* Mutant: one id for the getter, the setter and the deleter of a property. *)
FunctionIdByName(stack, name, accessor) == Id(stack, name, "none")

FunctionId(stack, name, accessor) == Id(stack, name, accessor)

ReexportedBy(q) == IF q \in DOMAIN reexported THEN reexported[q] ELSE {}

IsPublicName(map, inClass, q) ==
  /\ Top(q) \notin Underscored \ Dunder
  /\ \/ q \in DOMAIN map
     \/ inClass /\ Parent(q) \in DOMAIN map
     \/ Segments(Parent(q)) \cap Underscored = {}

IsPublic(q) == IsPublicName(reexported, Top(declaration_stack).sort = "Class", q)
-----------------------------------------------------------------------------
Init ==
  /\ \E o \in Orders : files = InitFilesFirst(o)
  /\ path = <<>> /\ declaration_stack = <<>> /\ nodes = {}
  /\ reexported = NothingYet
  /\ api = [modules |-> NothingYet, classes |-> NothingYet, functions |-> NothingYet]

SkipTestFile ==
  /\ path = <<>> /\ files # <<>> /\ Head(files).test
  /\ files' = Tail(files)
  /\ UNCHANGED <<path, declaration_stack, reexported, api, nodes>>

(* What an __init__ file re-exports: some declarations of its own package, *)
(* if no part of the name of the package is private.                       *)
Exports(f) ==
  IF f.init /\ Segments(f.qname) \cap Underscored = {}
  THEN {q \in Exportable : StartsWith(q, f.qname)}
  ELSE {}

EnterModule ==
  /\ path = <<>> /\ files # <<>> /\ ~Head(files).test
  /\ LET f == Head(files)
     IN \E exports \in SUBSET Exports(f) :
          /\ Cardinality(exports) <= MaxExports
          /\ reexported' = [q \in DOMAIN reexported \cup exports |->
                              ReexportedBy(q) \cup (IF q \in exports THEN {ModuleId(f.qname)} ELSE {})]
          /\ path' = <<[kind |-> "module", qname |-> f.qname]>>
          /\ declaration_stack' =
               Append(declaration_stack, Declaration("Module", ModuleId(f.qname), f.qname, TRUE, FALSE))
  /\ files' = Tail(files)
  /\ UNCHANGED <<api, nodes>>

(* ASTWalker enters a child of the node it is in.  A name is declared once  *)
(* in its scope, the accessors of a property apart.                        *)
Walk(kind, name, accessor) ==
  /\ path # <<>> /\ Cardinality(nodes) < MaxNodes
  /\ \A n \in nodes : n.qname = Append(Top(path).qname, name) =>
       accessor # n.accessor /\ "none" \notin {accessor, n.accessor}
  /\ path' = Append(path, [kind |-> kind, qname |-> Append(Top(path).qname, name)])
  /\ nodes' = nodes \cup {[kind |-> kind, accessor |-> accessor, qname |-> Append(Top(path).qname, name),
                           around |-> [i \in 1 .. Len(path) |-> path[i].kind]]}

Declare(sort, id, name) ==
  LET q == Append(Top(path).qname, name)
  IN declaration_stack' = Append(declaration_stack, Declaration(sort, id, q, IsPublic(q), q \in DOMAIN reexported))

EnterClassDef ==
  /\ \E name \in ClassNames :
       Walk("class", name, "none") /\ Declare("Class", Id(declaration_stack, name, "none"), name)
  /\ UNCHANGED <<files, reexported, api>>

EnterFunctionDef ==
  /\ \E name \in FunctionNames, accessor \in Accessors :
       /\ Walk("function", name, accessor)
       /\ Declare("Function", FunctionId(declaration_stack, name, accessor), name)
  /\ UNCHANGED <<files, reexported, api>>

(* Mutant: enters it like a function, and has no handler for leaving it.   *)
EnteredLikeAFunction ==
  /\ \E name \in FunctionNames :
       /\ Walk("async", name, "none")
       /\ Declare("Function", FunctionId(declaration_stack, name, "none"), name)
  /\ UNCHANGED <<files, reexported, api>>

(* There is no handler for AsyncFunctionDef, its children are visited.     *)
EnterAsyncFunctionDef ==
  /\ \E name \in FunctionNames : Walk("async", name, "none")
  /\ UNCHANGED <<files, declaration_stack, reexported, api>>

Leaves(kind) == path # <<>> /\ Top(path).kind = kind
LeaveNode == path' = SubSeq(path, 1, Len(path) - 1)

(* A declaration is taken from the stack and added to the one below it.    *)
Below(stack) == SubSeq(stack, 1, Len(stack) - 1)
AddTo(stack, field, id) == [stack EXCEPT ![Len(stack)][field] = @ \cup {id}]
Entry(d) == [qname |-> d.qname, is_public |-> d.is_public, sharesList |-> d.sharesList,
             classes |-> d.classes, functions |-> d.functions]

LeaveModule ==
  /\ Leaves("module")
  /\ LET m == Top(declaration_stack)
     IN api' = [api EXCEPT !.modules = With(@, m.id, Entry(m))]
  /\ declaration_stack' = Below(declaration_stack)
  /\ LeaveNode
  /\ UNCHANGED <<files, reexported, nodes>>

(* Classes are kept if they are in a module.                               *)
LeaveClassDef ==
  /\ Leaves("class")
  /\ LET c == Top(declaration_stack)
         rest == Below(declaration_stack)
     IN IF rest # <<>> /\ Top(rest).sort = "Module"
        THEN /\ api' = [api EXCEPT !.classes = With(@, c.id, Entry(c))]
             /\ declaration_stack' = AddTo(rest, "classes", c.id)
        ELSE declaration_stack' = rest /\ UNCHANGED api
  /\ LeaveNode
  /\ UNCHANGED <<files, reexported, nodes>>

KeepsFunctions(d) == d.sort \in {"Module", "Class"}

(* Functions are kept if they are in a module or a class, of any depth.    *)
LeaveFunctionDef ==
  /\ Leaves("function")
  /\ LET f == Top(declaration_stack)
         rest == Below(declaration_stack)
     IN IF rest # <<>> /\ KeepsFunctions(Top(rest))
        THEN /\ api' = [api EXCEPT !.functions = With(@, f.id, Entry(f))]
             /\ declaration_stack' = AddTo(rest, "functions", f.id)
        ELSE declaration_stack' = rest /\ UNCHANGED api
  /\ LeaveNode
  /\ UNCHANGED <<files, reexported, nodes>>

LeaveAsyncFunctionDef ==
  /\ Leaves("async")
  /\ LeaveNode
  /\ UNCHANGED <<files, declaration_stack, reexported, api, nodes>>

Done == files = <<>> /\ path = <<>>
Terminated == Done /\ UNCHANGED vars

Next ==
  \/ SkipTestFile \/ EnterModule \/ LeaveModule
  \/ EnterClassDef \/ EnterFunctionDef \/ EnterAsyncFunctionDef
  \/ LeaveClassDef \/ LeaveFunctionDef \/ LeaveAsyncFunctionDef
  \/ Terminated

Spec == Init /\ [][Next]_vars
-----------------------------------------------------------------------------
SortOf(kind) == CASE kind = "module" -> "Module" [] kind = "class" -> "Class" [] OTHER -> "Function"

(* The declarations on a stack are those of the nodes of a walk that have  *)
(* handlers: at tells which one comes from which.                          *)
ComesFrom(at, stack, walk) ==
  /\ \A i, j \in 1 .. Len(stack) : i < j => at[i] < at[j]
  /\ \A k \in 1 .. Len(walk) : walk[k].kind # "async" <=> \E i \in 1 .. Len(stack) : at[i] = k
  /\ \A i \in 1 .. Len(stack) :
       stack[i].qname = walk[at[i]].qname /\ stack[i].sort = SortOf(walk[at[i]].kind)

Mirrors(stack, walk) ==
  \E at \in [1 .. Len(stack) -> 1 .. Len(walk)] : ComesFrom(at, stack, walk)

(* The declarations the stack holds are those of the classes and functions *)
(* the walk is in, in their order: what a handler takes from the stack is  *)
(* what it leaves ("Imbalanced push/pop on stack" is never raised), also   *)
(* around the async functions that have no handlers.                       *)
StackMirrorsPath == Mirrors(declaration_stack, path)

(* What is said about a class or a function does not depend on when its    *)
(* file is walked: it is public, and knows who re-exports it, as all the   *)
(* __init__ files of the package have it (is_public, reexported).          *)
PublicAsReexported ==
  Done => /\ \A id \in DOMAIN api.classes : LET c == api.classes[id]
                IN /\ c.is_public = IsPublicName(reexported, FALSE, c.qname)
                   /\ c.sharesList = (c.qname \in DOMAIN reexported)
          /\ \A id \in DOMAIN api.functions : LET f == api.functions[id]
                IN /\ f.is_public = IsPublicName(reexported, Len(id.names) > 1, f.qname)
                   /\ f.sharesList = (f.qname \in DOMAIN reexported)

(* No __init__ file re-exports what that of a package listed before it     *)
(* declares: it does if the name of a class or a function is that of a     *)
(* sub-package, or its text begins with it.                                *)
DeclaredIn(q, module) ==
  /\ Len(module) < Len(q) /\ \A i \in 1 .. Len(module) : q[i] = module[i]
  /\ q[Len(module) + 1] \in ClassNames \cup FunctionNames
DeclaresNone(f, exports) == \A q \in exports : ~DeclaredIn(q, f.qname)
ExportsComeFirst ==
  \A o \in Orders : \A i, j \in 1 .. Len(o) :
    i < j /\ o[i].init /\ o[j].init /\ ~o[i].test /\ ~o[j].test => DeclaresNone(o[i], Exports(o[j]))

(* A class of a module, and a function of a module or in classes, is in    *)
(* the API under its own id, an accessor of a property apart from the      *)
(* others; its module or class lists it, and what is listed is there       *)
(* (leave_classdef, leave_functiondef).  Functions in async functions have *)
(* the ids of others, which may be lost.                                   *)
IsAsync(n) == \E i \in DOMAIN n.around : n.around[i] = "async"
IsPlain(n) ==
  CASE n.kind = "class" -> n.around = <<"module">>
    [] n.kind = "function" -> \A i \in 2 .. Len(n.around) : n.around[i] = "class"
    [] OTHER -> FALSE
ModuleName(n) == SubSeq(n.qname, 1, Len(n.qname) - Len(n.around))
NamesIn(n) == SubSeq(n.qname, Len(n.qname) - Len(n.around) + 1, Len(n.qname))
IdOf(n) == [module |-> ModuleName(n), names |-> NamesIn(n), accessor |-> n.accessor]
OwnerId(n) == [module |-> ModuleName(n), names |-> Parent(NamesIn(n)), accessor |-> "none"]
DeclarationsAreComplete ==
  Done /\ (\A n \in nodes : ~IsAsync(n)) =>
    /\ \A n \in nodes : IsPlain(n) =>
         LET id == IdOf(n)
             kept == IF n.kind = "class" THEN api.classes ELSE api.functions
             owners == IF Len(n.around) = 1 THEN api.modules ELSE api.classes
             Lists(o) == id \in IF n.kind = "class" THEN o.classes ELSE o.functions
         IN /\ id \in DOMAIN kept /\ kept[id].qname = n.qname
            /\ OwnerId(n) \in DOMAIN owners => Lists(owners[OwnerId(n)])
            /\ Len(n.around) <= 2 => OwnerId(n) \in DOMAIN owners
    /\ \A owner \in {api.modules[id] : id \in DOMAIN api.modules} \cup {api.classes[id] : id \in DOMAIN api.classes} :
         owner.classes \subseteq DOMAIN api.classes /\ owner.functions \subseteq DOMAIN api.functions
=============================================================================
