--------------------------- MODULE ModuleSymbols ---------------------------
(***************************************************************************)
(* What get_module_data collects about the names of a module, as far as    *)
(* the resolver of references looks at it: the symbols of classes and      *)
(* functions, and of every function its parameters, targets, values,       *)
(* calls and the global variables it uses.  (How the references get to     *)
(* their functions is ModuleDataBuilder.)                                  *)
(*                                                                         *)
(* A module p is a record.  globals are the names assigned at module       *)
(* level; a class has bases and the variables of its body; a function has  *)
(* an owner (the module, a class or a function), parameters and a body of  *)
(* one statement per line; imports gives what astroid infers for whatever  *)
(* is reached through an imported name.                                    *)
(***************************************************************************)
EXTENDS Integers, FiniteSets, SequencesExt

Module == "<module>"

Functions(p) == DOMAIN p.functions
Classes(p) == DOMAIN p.classes
Imports(p) == DOMAIN p.imports
Name(p, f) == p.functions[f].name
Owner(p, f) == p.functions[f].owner
Body(p, f) == p.functions[f].body

(* The lines of f with a statement of one of the kinds ops.                *)
Lines(p, f, ops) == {k \in DOMAIN Body(p, f) : Body(p, f)[k].op \in ops}
Named(p, f, ops) == {Body(p, f)[k].name : k \in Lines(p, f, ops)}

Methods(p, c) == {f \in Functions(p) : Owner(p, f) = c}
Parameters(p, f) == {p.functions[f].params[i].name : i \in DOMAIN p.functions[f].params}
Bases(p, c) == p.classes[c].bases \cap Classes(p)

(* node says what the symbol stands for, as far as anybody asks; at is the *)
(* place of its definition: a line of a function, or a declaration.        *)
Declaration == <<>>
Symbol(sort, name, of, at, node) ==
  [sort |-> sort, name |-> name, of |-> of, at |-> at, node |-> node]
-----------------------------------------------------------------------------
(* The dictionaries of astroid: what is local to a function, and what a    *)
(* module holds, which includes what functions declare as global.          *)
Locals(p, f) ==
  (Parameters(p, f) \cup Named(p, f, {"assign"}) \cup {Name(p, g) : g \in Methods(p, f)})
    \ Named(p, f, {"global"})
RootGlobals(p) ==
  p.globals \cup Classes(p) \cup Imports(p) \cup {Name(p, f) : f \in Methods(p, Module)}
    \cup UNION {Named(p, f, {"assign"}) \cap Named(p, f, {"global"}) : f \in Functions(p)}

(* get_symbol for a name that is assigned in a function.                   *)
SymbolOf(p, f, x, at) ==
  IF x \in Parameters(p, f) THEN Symbol("Parameter", x, f, at, "variable")
  ELSE IF x \in RootGlobals(p) \ Locals(p, f) THEN Symbol("Global", x, Module, at, "variable")
  ELSE Symbol("Local", x, f, at, "variable")

FunctionSymbol(p, f) ==
  Symbol(IF Owner(p, f) = Module THEN "Global" ELSE IF Owner(p, f) \in Classes(p) THEN "Class" ELSE "Local",
         Name(p, f), Owner(p, f), <<f>>, "function")
ClassSymbol(c) == Symbol("Global", c, Module, Declaration, "class")
ParameterSymbol(f, x) == Symbol("Parameter", x, f, Declaration, "variable")
ImportSymbol(i, member) == Symbol("Import", i, member, Declaration, "import")
BuiltinSymbol(x) == Symbol("Builtin", x, Module, Declaration, "function")

(* check_if_global finds the assignments at module level; they are used by *)
(* f where get_symbol takes the name for a global variable.                *)
GlobalDefinition(p, f, x) ==
  {s \in {SymbolOf(p, f, x, Declaration)} : x \in p.globals /\ s.sort = "Global"}

(* Mutant: overlooks names that are the receiver of a member.              *)
NamesReadAlone(p, f) == Named(p, f, {"read"})

(* enter_name looks at names that are read, receivers among them;          *)
(* enter_global at what is declared.                                       *)
NamesRead(p, f) == Named(p, f, {"read", "getattr", "callattr"})

GlobalsRead(p, f, x) == UNION {GlobalDefinition(p, f, y) : y \in NamesRead(p, f) \cap {x}}
GlobalsDeclared(p, f, x) == UNION {GlobalDefinition(p, f, y) : y \in Named(p, f, {"global"}) \cap {x}}
GlobalsUsed(p, f, x) == GlobalsRead(p, f, x) \cup GlobalsDeclared(p, f, x)
-----------------------------------------------------------------------------
(* A reference to a name, or to the member of a receiver, at a line of a   *)
(* function.  Line 0 is the head of the function.                          *)
Reference(path, k) == [path |-> path, line |-> k]
IsMemberAccess(r) == Len(r.path) = 2
Receiver(r) == r.path[1]
Member(r) == Last(r.path)

(* target_symbols: parameters, assigned names, and symbols that are not    *)
(* refined any further for the member access and the receiver of r.m = 1.  *)
TargetsAt(p, f, k) ==
  LET s == Body(p, f)[k]
      plain(path) == [symbol |-> Symbol("Plain", Last(path), f, <<f, k>>, "variable"),
                      reference |-> Reference(path, k)]
  IN CASE s.op = "assign" -> <<[symbol |-> SymbolOf(p, f, s.name, <<f, k>>),
                               reference |-> Reference(<<s.name>>, k)]>>
       [] s.op = "setattr" -> <<plain(<<s.name, s.member>>), plain(<<s.name>>)>>
       [] OTHER -> <<>>
Targets(p, f) ==
  [i \in DOMAIN p.functions[f].params |->
     LET x == p.functions[f].params[i].name
     IN [symbol |-> ParameterSymbol(f, x), reference |-> Reference(<<x>>, 0)]]
  \o FlattenSeq([k \in DOMAIN Body(p, f) |-> TargetsAt(p, f, k)])

(* value_references: of r.m, called or not, the member access and r.       *)
ValuesAt(p, f, k) ==
  LET s == Body(p, f)[k]
  IN CASE s.op = "read" -> <<Reference(<<s.name>>, k)>>
       [] s.op \in {"getattr", "callattr"} ->
            <<Reference(<<s.name, s.member>>, k), Reference(<<s.name>>, k)>>
       [] OTHER -> <<>>
Values(p, f) == FlattenSeq([k \in DOMAIN Body(p, f) |-> ValuesAt(p, f, k)])

(* call_references: a call of r.m goes by the name m.                      *)
CalledName(s) == IF s.op = "callattr" THEN s.member ELSE s.name
CallsAt(p, f, k) == IF Body(p, f)[k].op \in {"call", "callattr"} THEN <<k>> ELSE <<>>
Calls(p, f) == FlattenSeq([k \in DOMAIN Body(p, f) |-> CallsAt(p, f, k)])
CallNames(p, f) == {CalledName(Body(p, f)[k]) : k \in Lines(p, f, {"call", "callattr"})}
-----------------------------------------------------------------------------
(* The class_variables of a class are those of its body and its methods.   *)
ClassVariables(p, c, m) ==
  {Symbol("Class", m, c, Declaration, "variable") : x \in p.classes[c].vars \cap {m}}
    \cup {FunctionSymbol(p, f) : f \in {g \in Methods(p, c) : Name(p, g) = m}}

(* The instance_variables are what __init__ assigns to members, of any     *)
(* receiver, and the properties.                                           *)
Assigned(p, c, m) ==
  UNION {{f} \X {k \in Lines(p, f, {"setattr"}) : Body(p, f)[k].member = m} :
           f \in {g \in Methods(p, c) : Name(p, g) = "__init__"}}
InstanceVariables(p, c, m) ==
  {Symbol("Instance", m, c, at, "variable") : at \in Assigned(p, c, m)}
    \cup {Symbol("Instance", m, c, <<f>>, "property") :
            f \in {g \in Methods(p, c) : p.functions[g].property /\ Name(p, g) = m}}

ClassMembers(p, c) == p.classes[c].vars \cup {Name(p, f) : f \in Methods(p, c)}
-----------------------------------------------------------------------------
(* What Python requires of a module: functions and classes are apart, and  *)
(* functions nested; no two parameters have one name, none is declared as  *)
(* global; a call has finitely many arguments.                             *)
WellFormed(p) ==
  /\ Module \notin Functions(p) \cup Classes(p) /\ Functions(p) \cap Classes(p) = {}
  /\ IsFiniteSet(Functions(p))
  /\ \A f \in Functions(p) : Owner(p, f) \in Functions(p) \cup Classes(p) \cup {Module}
  /\ \E depth \in [Functions(p) -> 0 .. Cardinality(Functions(p))] :
       \A f \in Functions(p) : Owner(p, f) \in Functions(p) => depth[Owner(p, f)] < depth[f]
  /\ \A f \in Functions(p) :
       LET params == p.functions[f].params
       IN /\ params \in Seq(Range(params)) /\ Body(p, f) \in Seq(Range(Body(p, f)))
          /\ \A i, j \in DOMAIN params : params[i].name = params[j].name => i = j
          /\ Named(p, f, {"global"}) \cap Parameters(p, f) = {}
          /\ \A k \in DOMAIN Body(p, f) :
               Body(p, f)[k].n \in Nat /\ IsFiniteSet(Body(p, f)[k].keywords)

(* What everybody sticks to: the receiver of a method is called self or    *)
(* cls and nothing else is, and __init__ is a method.  (Static methods,    *)
(* which have no receiver, are left out.)                                  *)
Conventional(p) ==
  /\ "self" \notin Classes(p)
  /\ \A f \in Methods(p, Module) : Name(p, f) # "__init__"
  /\ \A c \in Classes(p) : \A f \in Methods(p, c) :
       LET params == p.functions[f].params
       IN \A i \in DOMAIN params :
            IF i = 1 THEN params[i].name \in {"self", "cls"} /\ params[i].kind \in {"positional", "either"}
                     ELSE params[i].name \notin {"self", "cls"}
=============================================================================
