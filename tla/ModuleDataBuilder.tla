------------------------- MODULE ModuleDataBuilder -------------------------
(***************************************************************************)
(* How get_module_data collects what the functions of a module refer to.   *)
(* An ASTWalker enters and leaves the nodes of the syntax tree; the        *)
(* builder keeps the scopes that are open on a stack, what it finds in     *)
(* lists of pending references, and hands these lists to a function when   *)
(* the walker leaves it.                                                   *)
(*                                                                         *)
(* The tree grows as it is walked: any program is a possible one.  A node  *)
(* is its number in preorder.  Names are told apart as far as the builder  *)
(* looks at them: the name of a global variable, the name that lambdas     *)
(* have for a parameter, and others.                                       *)
(***************************************************************************)
EXTENDS Integers, FiniteSets, SequencesExt

CONSTANT Programs  \* which kinds of nodes a program has, and how many

Try == {"try", "finally"}            \* TryExcept and TryFinally
Lambda ==
  {"assigned lambda",  \* double = lambda x: 2 * x
   "called lambda",    \* an argument, the callee of a call, or a statement
   "lambda"}           \* any other, such as key=lambda x: x
FunctionNode == {"function", "overload"} \cup Lambda
Scope == FunctionNode \cup Try \cup {"class", "comprehension"}
Name == {"name", "parameter", "global"}
Call == {"call", "result call"}      \* f() or a.f(), and f()()
AssignName == {"target", "global target"}
Attribute ==
  {"attribute",   \* a value
   "subscripted", \* the a.b of a.b[0], and of a.b.c = 1
   "member",      \* a.b = 1
   "receiver"}    \* the a of a.b = 1
Ignored ==
  {"ignored name",       \* in a decorator or type hint, right of x: int = 1,
                         \* or an argument with the name of what is called
   "ignored attribute",  \* in a type hint, or right of x: int = 1
   "other call"}         \* of something else, such as f[0]()
Target == AssignName \cup {"subscripted", "member", "receiver"}
Kind == Scope \cup Name \cup Call \cup AssignName \cup Attribute \cup Ignored

ASSUME ProgramsAreBounded ==
  \A p \in Programs :
    /\ p.kinds \subseteq Kind /\ p.size \in Nat
    /\ "global" \in p.kinds => "global target" \in p.kinds

VARIABLES
  program,
  ast,           \* the nodes entered so far: kind and the nodes around them
  path,          \* the nodes entered and not left yet
  scopes,        \* the Scope objects: parent and children
  references,    \* target_symbols, value_references, call_references
  functions,     \* ModuleData.functions
  current_node_stack, current_function_def,
  children,      \* scopes whose parent has not been left
  found,         \* the pending targets, values and calls
  global_variables

vars == <<program, ast, path, scopes, references, functions,
          current_node_stack, current_function_def, children, found, global_variables>>
-----------------------------------------------------------------------------
KindOf(n) == ast[n].kind
In(n) == Max(ast[n].within)

(* find_first_parent_function; numbers grow towards the inside.            *)
Innermost(nodes) == Max({m \in nodes : KindOf(m) \in FunctionNode \cup {"module"}})
Owner(n) == Innermost(ast[n].within)

Top == Last(current_node_stack)
Current == Last(current_function_def)
IsFunctionScope(n) == KindOf(n) \in FunctionNode
InOwnFunction ==
  current_function_def # <<>> /\ Innermost(ToSet(path)) = Current

Nothing == [targets |-> {}, values |-> {}, calls |-> {}]
Plus(r, s) == [field \in DOMAIN r |-> r[field] \cup s[field]]
Found(field, n) == [found EXCEPT ![field] = @ \cup {n}]
FoundIf(condition, field, n) == IF condition THEN Found(field, n) ELSE found
Credit(f, r) == [references EXCEPT ![f] = Plus(@, r)]

NewScope == [parent |-> Top, children |-> <<>>]
-----------------------------------------------------------------------------
(* The walker.  A global variable has an assignment in the module.         *)
GlobalMissing ==
  /\ \E n \in DOMAIN ast : KindOf(n) \in {"global", "global target"}
  /\ ~\E n \in DOMAIN ast : KindOf(n) = "global target" /\ Owner(n) = 1

Fits(kind) ==
  LET inside == KindOf(Last(path))
  IN  /\ inside \in Lambda \cup {"comprehension"} =>
           kind \notin {"class", "function", "overload", "assigned lambda",
                        "global target", "member"} \cup Try
      /\ kind = "receiver" => KindOf(Len(ast)) = "member"

Node(kind) == [kind |-> kind, within |-> ToSet(path)]
New == Len(ast) + 1

(* Walks to a node that is not left again before it is time to.            *)
Visit(kind) ==
  /\ path # <<>> /\ kind \in program.kinds /\ Fits(kind)
  /\ Len(ast) < program.size \/ (kind = "global target" /\ GlobalMissing /\ path = <<1>>)
  /\ ast' = Append(ast, Node(kind))
  /\ UNCHANGED program
Enter(kind) == Visit(kind) /\ path' = Append(path, New)
Pass(kind) == Visit(kind) /\ UNCHANGED path
Leave(n) ==
  /\ path # <<>> /\ n = Last(path)
  /\ path' = Front(path)
  /\ UNCHANGED <<program, ast>>

Init ==
  /\ program \in Programs
  /\ ast = <<[kind |-> "module", within |-> {}]>>
  /\ path = <<1>>
  /\ scopes = (1 :> [parent |-> 0, children |-> <<>>])
  /\ references = <<>>
  /\ functions = {}
  /\ current_node_stack = <<1>>
  /\ current_function_def = <<>>
  /\ children = <<>>
  /\ found = Nothing
  /\ global_variables = {}
-----------------------------------------------------------------------------
(* Entering a scope.                                                       *)
Push ==
  /\ scopes' = scopes @@ (New :> NewScope)
  /\ current_node_stack' = Append(current_node_stack, New)
  /\ UNCHANGED <<functions, children, found, global_variables>>

PushFunction ==
  /\ Push
  /\ references' = [f \in DOMAIN references \cup {New} |->
                      IF f = New THEN Nothing ELSE references[f]]
  /\ current_function_def' = Append(current_function_def, New)

EnterScope(kind) ==
  /\ kind \in Try \cup {"class", "comprehension"}
  /\ Enter(kind) /\ Push /\ UNCHANGED <<references, current_function_def>>
EnterFunctionDef == Enter("function") /\ PushFunction
EnterLambda(kind) == kind \in Lambda /\ Enter(kind) /\ PushFunction

Unseen == UNCHANGED <<scopes, references, functions, current_node_stack,
                      current_function_def, children, found, global_variables>>
EnterOverload == Enter("overload") /\ Unseen
LeaveOverload(n) == KindOf(n) = "overload" /\ Leave(n) /\ Unseen
-----------------------------------------------------------------------------
(* What is found inside a scope.                                           *)
(* Mutant: calls in try statements are lost, as those of results are.      *)
KeptInComprehensions(kind) == {"comprehension"}

KeptAnyway(kind) ==
  {"comprehension"} \cup (IF kind = "call" THEN Try ELSE {})

(* A call outside of functions is not recorded.                            *)
EnterCall(kind) ==
  /\ kind \in Call /\ Pass(kind)
  /\ found' = FoundIf(IsFunctionScope(Top), "calls", New)
  /\ references' =
       IF KindOf(Top) \in KeptAnyway(kind) /\ current_function_def # <<>>
         THEN Credit(Current, [Nothing EXCEPT !.calls = {New}]) ELSE references
  /\ UNCHANGED <<scopes, functions, current_node_stack, current_function_def,
                 children, global_variables>>

EnterName(kind) ==
  /\ kind \in Name /\ Pass(kind)
  /\ LET kept == KindOf(Top) = "comprehension" =>
                   kind = "global" /\ global_variables # {}
     IN  found' = FoundIf(InOwnFunction /\ kept, "values", New)
  /\ UNCHANGED <<scopes, references, functions, current_node_stack,
                 current_function_def, children, global_variables>>

EnterAttribute(kind) ==
  /\ kind \in {"attribute", "subscripted"} /\ Pass(kind)
  /\ found' = IF kind = "attribute" THEN Found("values", New)
              ELSE FoundIf(IsFunctionScope(Top), "targets", New)
  /\ UNCHANGED <<scopes, references, functions, current_node_stack,
                 current_function_def, children, global_variables>>

(* What enter_name, enter_attribute and enter_call pass over.              *)
EnterIgnored(kind) == kind \in Ignored /\ Pass(kind) /\ Unseen

(* enter_name, for the name an attribute is assigned to.                   *)
EnterReceiver ==
  /\ Pass("receiver") /\ found' = Found("targets", New)
  /\ UNCHANGED <<scopes, references, functions, current_node_stack,
                 current_function_def, children, global_variables>>

NewChild ==
  /\ scopes' = scopes @@ (New :> NewScope)
  /\ children' = Append(children, New)
  /\ UNCHANGED <<references, functions, current_node_stack, current_function_def>>

EnterAssignName(kind) ==
  /\ kind \in AssignName /\ Pass(kind) /\ NewChild
  /\ LET kept == IsFunctionScope(Top) \/ (KindOf(Top) \in Try /\ InOwnFunction)
     IN  found' = FoundIf(kept, "targets", New)
  /\ global_variables' =
       IF kind = "global target" THEN global_variables \cup {New} ELSE global_variables

EnterAssignAttr ==
  /\ Pass("member") /\ NewChild
  /\ found' = FoundIf(IsFunctionScope(Top), "targets", New)
  /\ UNCHANGED global_variables
-----------------------------------------------------------------------------
(* _detect_scope: the children of a node that is left.                     *)
Taken(n, c) ==
  IF KindOf(n) = "finally" /\ KindOf(c) = "try" THEN scopes[c].children
  ELSE IF scopes[c].parent = n THEN <<c>> ELSE <<>>
Inner(n) ==
  IF n = 1 THEN children
  ELSE FlattenSeq([i \in DOMAIN children |-> Taken(n, children[i])])
Outer(n) ==
  IF n = 1 THEN <<>> ELSE SelectSeq(children, LAMBDA c : scopes[c].parent # n)

DetectScope(n) ==
  /\ scopes' = [scopes EXCEPT ![n].children = Inner(n)]
  /\ children' = Append(Outer(n), n)
  /\ current_node_stack' = Front(current_node_stack)
  /\ UNCHANGED global_variables

LeaveScope(n) ==
  /\ KindOf(n) \in Try \cup {"module", "class", "comprehension"}
  /\ n = 1 => ~GlobalMissing
  /\ Leave(n) /\ DetectScope(n)
  /\ UNCHANGED <<references, functions, current_function_def, found>>

Own(f, nodes) == {n \in nodes : Owner(n) = f}

(* Mutant: calls are attributed as values are.                             *)
CollectedOwn(f) ==
  [targets |-> Own(f, found.targets), values |-> Own(f, found.values),
   calls |-> Own(f, found.calls)]

Collected(f) ==
  [targets |-> Own(f, found.targets), values |-> Own(f, found.values),
   calls |-> found.calls]

(* Mutant: targets are reset as values are.                                *)
NothingPending(f) == Nothing

StillPending(f) == [Nothing EXCEPT !.targets = found.targets \ Own(f, found.targets)]

(* _analyze_function                                                       *)
LeaveFunctionDef(f) ==
  /\ KindOf(f) = "function" /\ Leave(f) /\ DetectScope(f)
  /\ functions' = functions \cup {f}
  /\ references' = Credit(f, Collected(f))
  /\ found' = StillPending(f)
  /\ current_function_def' = Front(current_function_def)

(* _analyze_lambda, by what the lambda is used for.                        *)
LeaveLambda(l) ==
  /\ KindOf(l) \in Lambda /\ Leave(l) /\ DetectScope(l)
  /\ current_function_def' = Front(current_function_def)

LeaveAssignedLambda(l) ==
  /\ KindOf(l) = "assigned lambda" /\ LeaveLambda(l)
  /\ functions' = functions \cup {l}
  /\ references' = Credit(l, found)
  /\ found' = Nothing

(* What a called lambda has in common with the function around it.  What   *)
(* has the name of a parameter of the lambda is left out, also where it    *)
(* means a variable of the function around it.                             *)
NamedAsParameter == {v \in found.values : KindOf(v) = "parameter"}
Before(s) == s[Len(s) - 1]
Shared ==
  [Nothing EXCEPT
     !.values = IF IsFunctionScope(Before(current_node_stack))
                  THEN found.values \ NamedAsParameter ELSE {},
     !.calls = found.calls]

LeaveCalledLambda(l) ==
  /\ KindOf(l) = "called lambda" /\ LeaveLambda(l)
  /\ references' =
       IF Len(current_function_def) = 1 THEN Credit(l, found)
       ELSE [Credit(l, found) EXCEPT
               ![Before(current_function_def)] = Plus(@, Shared)]
  /\ found' = Nothing /\ UNCHANGED functions

LeaveOtherLambda(l) ==
  /\ KindOf(l) = "lambda" /\ LeaveLambda(l)
  /\ UNCHANGED <<references, functions, found>>

Done == path = <<>>
Terminated == Done /\ UNCHANGED vars

Next ==
  \/ \E kind \in Kind :
       \/ EnterScope(kind) \/ EnterLambda(kind)
       \/ EnterCall(kind) \/ EnterName(kind) \/ EnterAssignName(kind)
       \/ EnterAttribute(kind) \/ EnterIgnored(kind)
  \/ EnterFunctionDef \/ EnterOverload \/ EnterAssignAttr \/ EnterReceiver
  \/ \E n \in DOMAIN ast :
       \/ LeaveScope(n) \/ LeaveFunctionDef(n) \/ LeaveOverload(n)
       \/ LeaveAssignedLambda(n) \/ LeaveCalledLambda(n) \/ LeaveOtherLambda(n)
  \/ Terminated

Spec == Init /\ [][Next]_vars
-----------------------------------------------------------------------------
Inside(n, m) == m \in ast[n].within
Defs == {f \in DOMAIN ast : KindOf(f) = "function"}
FunctionNodes == {f \in DOMAIN ast : IsFunctionScope(f)}

Field(kind) ==
  CASE kind \in Call -> "calls"
    [] kind \in Target -> "targets"
    [] OTHER -> "values"

(* A function that has no function in it is complete, whatever surrounds   *)
(* it and comes before it: of what is not passed over it has all that is   *)
(* in its body, all calls and targets in the try statements and            *)
(* comprehensions of its body, and there also the global variables, if the *)
(* walk has met them ("Except the name node is a global variable", 913).   *)
Plain(f) == ~\E g \in FunctionNodes : Inside(g, f)
GlobalMet(n) == \E m \in DOMAIN ast : m < n /\ KindOf(m) = "global target"
Kept(n) ==
  /\ KindOf(n) \notin Ignored
  /\ \/ In(n) = Owner(n)
     \/ KindOf(n) = "call" /\ KindOf(In(n)) # "class"
     \/ KindOf(n) \in AssignName \cup {"receiver"} /\ KindOf(In(n)) \in Try
     \/ KindOf(n) = "global" /\ KindOf(In(n)) = "comprehension" /\ GlobalMet(n)

PlainFunctionsAreComplete ==
  Done => \A f \in Defs : Plain(f) =>
    \A n \in DOMAIN ast \ {1} :
      Owner(n) = f /\ KindOf(n) \notin Scope /\ Kept(n) =>
        n \in references[f][Field(KindOf(n))]

(* What a function assigns to is among its targets, whatever else is       *)
(* defined in it before or after, unless a lambda that takes all pending   *)
(* targets follows.                                                        *)
TargetsReachTheirFunction ==
  Done => \A f \in Defs : \A n \in DOMAIN ast \ {1} :
    /\ Owner(n) = f /\ KindOf(n) \in AssignName \cup {"receiver"}
    /\ KindOf(In(n)) \in Try \cup {"function"}
    /\ ~\E l \in FunctionNodes :
          l > n /\ Inside(l, f) /\ KindOf(l) \in {"assigned lambda", "called lambda"}
    => n \in references[f].targets

(* No call is forgotten: a call anywhere in a function, also in a lambda,  *)
(* is a call of this function or of one that is defined in it and can be   *)
(* called.  This is said of functions in which no lambda is in a lambda.   *)
NoCallForgotten ==
  Done => \A n \in DOMAIN ast : \A f \in Defs :
    /\ KindOf(n) = "call" /\ Inside(n, f)
    /\ KindOf(In(n)) \in Lambda \cup {"function"}
    /\ ~\E k, l \in FunctionNodes :
          /\ Inside(k, l) /\ Inside(l, f) /\ {KindOf(k), KindOf(l)} \subseteq Lambda
    => \E g \in functions :
         (g = f \/ Inside(g, f)) /\ n \in references[g].calls
=============================================================================
