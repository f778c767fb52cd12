------------------------- MODULE ReferenceResolver -------------------------
(***************************************************************************)
(* How ReferenceResolver turns the data of a module into raw_reasons: what *)
(* every function reads, writes and calls.  It looks names up by name,     *)
(* over all functions and classes of the module at once, and leaves out    *)
(* what it takes to be out of reach.  One step resolves one reference.     *)
(***************************************************************************)
EXTENDS ModuleSymbols

CONSTANTS
  Programs,  \* the modules to resolve, as records of ModuleSymbols
  Order,     \* a function's place in ModuleData.functions
  Builtins   \* the names of builtin and open-like functions

VARIABLES
  program,
  functions,                \* functions that are not resolved yet
  current,                  \* the function that is being resolved
  calls, values, targets,   \* its references that are not resolved yet
  raw_reasons

vars == <<program, functions, current, calls, values, targets, raw_reasons>>

NoFunction == ""

ASSUME FunctionsAreOrdered ==
  \A p \in Programs : \A f, g \in Functions(p) :
    Order[f] \in Nat /\ (f # g => Order[f] # Order[g])
ASSUME ProgramsAreWellFormed == \A p \in Programs : WellFormed(p) /\ Conventional(p)
-----------------------------------------------------------------------------
(* The first class around a function, or the module; is_function_of_class. *)
EnclosingClass(p, f) ==
  LET of[g \in Functions(p)] == IF Owner(p, g) \in Functions(p) THEN of[Owner(p, g)] ELSE Owner(p, g)
  IN of[f]

(* Mutant: forgets that arguments with defaults may be left out.           *)
CompareParametersStrictly(p, g, s) ==
  LET params == p.functions[g].params
      receiver == IF Owner(p, g) \in Classes(p) THEN {"self", "cls"} ELSE {}
      plain == {i \in DOMAIN params : params[i].kind # "*" /\ params[i].name \notin receiver}
  IN params # <<>> => s.n + Cardinality(s.keywords) = Cardinality(plain)

OfKind(params, kinds) == {i \in DOMAIN params : params[i].kind \in kinds}

CompareParameters(p, g, s) ==
  LET params == p.functions[g].params
      receiver == IF Owner(p, g) \in Classes(p) THEN {"self", "cls"} ELSE {}
      positional == {i \in OfKind(params, {"positional", "either"}) : params[i].name \notin receiver}
      keyword == OfKind(params, {"keyword", "**"})
      places == Cardinality(positional) + Cardinality(keyword)
      given == s.n + Cardinality(s.keywords)
      optional == \E i \in OfKind(params, {"positional", "either"}) : params[i].default
      numberFits == given <= places /\ (optional \/ given >= places)
      namesFit == s.keywords \subseteq Parameters(p, g)
  IN params # <<>> =>
       /\ OfKind(params, {"*", "**"}) = {} => numberFits
       /\ keyword = {} => namesFit

(* The superclasses of the class around f.                                 *)
Supers(p, f) ==
  UNION {Bases(p, c) : c \in Classes(p) \cap {EnclosingClass(p, f)}}

(* Functions called x; in a class with superclasses, what those have of    *)
(* this name.                                                              *)
Candidates(p, f, s, x) ==
  LET named == {g \in Functions(p) : Name(p, g) = x}
  IN CASE named = {} -> {ClassSymbol(c) : c \in Classes(p) \cap {x}}
       [] named # {} /\ Supers(p, f) # {} -> UNION {ClassVariables(p, c, x) : c \in Supers(p, f)}
       [] OTHER -> {FunctionSymbol(p, g) : g \in {h \in named : CompareParameters(p, h, s)}}

(* What is called is a function or class, as far as astroid infers it: for *)
(* r.m() it goes by r, also where the name m is imported by itself.        *)
InfersCallable(p, s) == \E i \in Imports(p) \cap {s.name} : p.imports[i] \in {"function", "class"}

(* _find_call_references                                                   *)
FindCall(p, f, k) ==
  LET s == Body(p, f)[k]
      x == CalledName(s)
  IN Candidates(p, f, s, x)
       \cup {BuiltinSymbol(b) : b \in Builtins \cap {x}}
       \cup {ParameterSymbol(f, q) : q \in Parameters(p, f) \cap {x}}
       \cup {ImportSymbol(i, "") : i \in {j \in Imports(p) \cap {x} : InfersCallable(p, s)}}
-----------------------------------------------------------------------------
(* What an earlier assignment to the same name or member says of a value.  *)
Refined(p, t) ==
  IF t.symbol.sort # "Plain" THEN {t.symbol}
  ELSE LET m == Member(t.reference)
       IN {s \in {Symbol(sort, m, c, t.symbol.at, "variable") :
                    sort \in {"Class", "Instance"}, c \in Classes(p)} :
             /\ IsMemberAccess(t.reference)
             /\ s.sort = "Class" => m \in ClassMembers(p, s.of)
             /\ s.sort = "Instance" => InstanceVariables(p, s.of, m) # {}}

LocalValues(p, f, r) ==
  IF ~IsMemberAccess(r) /\ r.path[1] \in Parameters(p, f) THEN {}
  ELSE UNION {Refined(p, t) : t \in {u \in ToSet(Targets(p, f)) :
                u.reference.path = r.path /\ u.reference.line <= r.line}}

NamedValues(p, f, x) ==
  {ParameterSymbol(f, q) : q \in Parameters(p, f) \cap {x}}
    \cup GlobalsUsed(p, f, x)
    \cup {FunctionSymbol(p, g) : g \in {h \in Functions(p) : Name(p, h) = x}}
    \cup {ClassSymbol(c) : c \in Classes(p) \cap {x}}
    \cup {ImportSymbol(i, "") : i \in {j \in Imports(p) \cap {x} : p.imports[j] # "nothing"}}

(* A member that is called in the same function is not a value of a class. *)
ClassValues(p, f, m) ==
  IF m \in CallNames(p, f) THEN {}
  ELSE UNION {ClassVariables(p, c, m) \cup InstanceVariables(p, c, m) : c \in Classes(p)}

MemberOfImport(p, i, m) ==
  IF p.package /\ i \in Classes(p) /\ m \in ClassMembers(p, i)
  THEN ClassVariables(p, i, m)
  ELSE {ImportSymbol(i, m) : j \in {i} \cap {k \in Imports(p) : p.imports[k] # "nothing"}}

(* _find_value_references                                                  *)
FindValue(p, f, r) ==
  LocalValues(p, f, r)
    \cup (IF IsMemberAccess(r)
          THEN ClassValues(p, f, Member(r))
                 \cup UNION {MemberOfImport(p, i, Member(r)) : i \in Imports(p) \cap {Receiver(r)}}
          ELSE NamedValues(p, f, Receiver(r)))
-----------------------------------------------------------------------------
(* Mutant: knows all variables a class has for those of the method at work. *)
OutOfReachByName(p, f, r, c) == Name(p, f) \notin ClassMembers(p, c) /\ Owner(p, f) # Module

(* Variables of other classes are left out, except for functions of the    *)
(* module and for methods that c inherits.                                 *)
OutOfReach(p, f, r, c) ==
  LET inherited == {Name(p, g) : g \in UNION {Methods(p, b) : b \in Bases(p, c)}} \ ClassMembers(p, c)
  IN \/ Owner(p, f) # c /\ (Name(p, f) = "__init__" \/ Receiver(r) = "self")
     \/ /\ Name(p, f) \notin ClassMembers(p, c) \/ EnclosingClass(p, f) # c
        /\ FunctionSymbol(p, f).sort # "Global" /\ Name(p, f) \notin inherited

FirstAssignment(p, c, m) ==
  CHOOSE at \in Assigned(p, c, m) : \A other \in Assigned(p, c, m) : at[2] <= other[2]

(* Mutant: takes every assignment in __init__ for the first one.           *)
ClassTargetsButInit(p, f, r, c) ==
  LET m == Member(r)
  IN IF m \in ClassMembers(p, c) /\ OutOfReach(p, f, r, c) THEN {}
     ELSE ClassVariables(p, c, m) \cup {s \in InstanceVariables(p, c, m) : Name(p, f) # "__init__"}

(* The loop over classes goes on to the next class, instance variables and *)
(* all, if the class has a variable of this name that is out of reach.     *)
ClassTargets(p, f, r, c) ==
  LET m == Member(r)
  IN IF m \in ClassMembers(p, c) /\ OutOfReach(p, f, r, c) THEN {}
     ELSE ClassVariables(p, c, m)
            \cup {s \in InstanceVariables(p, c, m) :
                    Assigned(p, c, m) # {} => <<f, r.line>> # FirstAssignment(p, c, m)}

MemberTargets(p, f, r) == UNION {ClassTargets(p, f, r, c) : c \in Classes(p)}
ImportTargets(p, r) == {ImportSymbol(i, Member(r)) : i \in Imports(p) \cap {Receiver(r)}}
NamedTargets(p, f, x) ==
  GlobalsUsed(p, f, x) \cup {ClassSymbol(c) : c \in Classes(p) \cap {x}}

(* _find_target_references, for the i-th target of f                       *)
FindTarget(p, f, i) ==
  LET r == Targets(p, f)[i].reference
      before == {t.symbol : t \in {Targets(p, f)[j] : j \in {h \in 1 .. (i - 1) :
                                     Targets(p, f)[h].reference.path = r.path}}}
  IN before \cup (IF IsMemberAccess(r)
                  THEN MemberTargets(p, f, r) \cup ImportTargets(p, r)
                  ELSE NamedTargets(p, f, Receiver(r)))
-----------------------------------------------------------------------------
NothingFound == [calls |-> {}, unknown_calls |-> {}, reads_from |-> {}, writes_to |-> {}]

Init ==
  /\ program \in Programs
  /\ functions = Functions(program)
  /\ current = NoFunction
  /\ calls = <<>> /\ values = <<>> /\ targets = <<>>
  /\ raw_reasons = [f \in {} |-> NothingFound]

(* The next function: its references are looked up in turn.                *)
NextFunction ==
  /\ calls = <<>> /\ values = <<>> /\ targets = <<>> /\ functions # {}
  /\ LET f == CHOOSE g \in functions : \A h \in functions : Order[g] <= Order[h]
     IN /\ current' = f /\ functions' = functions \ {f}
        /\ calls' = Calls(program, f)
        /\ values' = Values(program, f)
        /\ targets' = [i \in DOMAIN Targets(program, f) |-> i]
        /\ raw_reasons' = [g \in DOMAIN raw_reasons \cup {f} |->
                             IF g = f THEN NothingFound ELSE raw_reasons[g]]
  /\ UNCHANGED program

ResolveCall ==
  /\ calls # <<>>
  /\ LET found == FindCall(program, current, Head(calls))
     IN raw_reasons' =
          [raw_reasons EXCEPT ![current].calls = @ \cup found,
                              ![current].unknown_calls = @ \cup {k \in {Head(calls)} : found = {}}]
  /\ calls' = Tail(calls)
  /\ UNCHANGED <<program, functions, current, values, targets>>

Shared == {"Global", "Class", "Instance"}
IsCallable(p, s) == s.sort = "Import" /\ p.imports[s.name] \in {"function", "class"}

(* Functions and classes are no variables, properties are; of what is      *)
(* imported, functions and classes are called.                             *)
ResolveValue ==
  /\ calls = <<>> /\ values # <<>>
  /\ LET found == FindValue(program, current, Head(values))
         read == {s \in found : \/ s.sort \in Shared /\ s.node \notin {"class", "function"}
                                \/ s.sort = "Import" /\ ~IsCallable(program, s)}
     IN raw_reasons' =
          [raw_reasons EXCEPT ![current].reads_from = @ \cup read,
                              ![current].calls = @ \cup {s \in found : IsCallable(program, s)}]
  /\ values' = Tail(values)
  /\ UNCHANGED <<program, functions, current, calls, targets>>

ResolveTarget ==
  /\ calls = <<>> /\ values = <<>> /\ targets # <<>>
  /\ LET found == FindTarget(program, current, Head(targets))
         written == {s \in found : /\ s.sort \in Shared \cup {"Import"}
                                   /\ s.node \notin {"class", "function", "property"}}
     IN raw_reasons' = [raw_reasons EXCEPT ![current].writes_to = @ \cup written]
  /\ targets' = Tail(targets)
  /\ UNCHANGED <<program, functions, current, calls, values>>

Done == functions = {} /\ calls = <<>> /\ values = <<>> /\ targets = <<>>
Terminated == Done /\ UNCHANGED vars

Next == NextFunction \/ ResolveCall \/ ResolveValue \/ ResolveTarget \/ Terminated

Spec == Init /\ [][Next]_vars
-----------------------------------------------------------------------------
(* What Python makes of the same module.                                   *)

(* The symbols that assigning and reading in f has to show.  self is an    *)
(* object of the class of a method, or of one derived from it.             *)
Family(p, c) == {c} \cup Bases(p, c)
VariableOf(p, c, m) == m \in p.classes[c].vars \/ Assigned(p, c, m) # {}

(* The assignment at line k of f is one to variable m of class c.          *)
WritesMember(p, f, k, c, m) ==
  LET r == Body(p, f)[k].name
  IN /\ Body(p, f)[k].member = m /\ VariableOf(p, c, m)
     /\ Assigned(p, c, m) = {} \/ <<f, k>> # FirstAssignment(p, c, m)
     /\ \/ r = "self" /\ c = Owner(p, f)
        \/ r = c /\ Owner(p, f) \in {c, Module} /\ m \in p.classes[c].vars
        \/ r \in Parameters(p, f) \ {"self"} /\ m \notin ClassMembers(p, c)

Writes(p, f) ==
  {<<Module, x>> : x \in p.globals \cap Named(p, f, {"assign"}) \cap Named(p, f, {"global"})}
    \cup {v \in Classes(p) \X {Body(p, f)[k].member : k \in Lines(p, f, {"setattr"})} :
            \E k \in Lines(p, f, {"setattr"}) : WritesMember(p, f, k, v[1], v[2])}

(* The read at line k of f is one of variable m of class c.                *)
ReadsMember(p, f, k, c, m) ==
  LET r == Body(p, f)[k].name
  IN /\ Body(p, f)[k].member = m /\ VariableOf(p, c, m) /\ m \notin CallNames(p, f)
     /\ \/ r = "self" /\ \E d \in Classes(p) \cap {Owner(p, f)} : c \in Family(p, d)
        \/ \E d \in Classes(p) \cap {r} : c \in Family(p, d)
        \/ r \in Parameters(p, f) \ {"self"}

Reads(p, f) ==
  {<<Module, x>> : x \in (p.globals \cap Named(p, f, {"read", "getattr", "callattr"})) \ Locals(p, f)}
    \cup {v \in Classes(p) \X {Body(p, f)[k].member : k \in Lines(p, f, {"getattr"})} :
            \E k \in Lines(p, f, {"getattr"}) : ReadsMember(p, f, k, v[1], v[2])}

Shown(symbols) == {<<s.of, s.name>> : s \in {t \in symbols : t.sort \in Shared}}

(* A global variable that is assigned under a global declaration, and a    *)
(* variable of a class that is assigned by its methods, by a function of   *)
(* the module, or through a parameter, are writes of the function          *)
(* (_resolve_references.py 575-695); the first assignment in __init__      *)
(* makes the variable and is none.  Beyond lambdas and nested functions,   *)
(* nothing that outlives a call may go unnoticed here.                     *)
NoWriteLost ==
  Done => \A f \in Functions(program) : Writes(program, f) \subseteq Shown(raw_reasons[f].writes_to)

(* Whatever a function reads of global variables, and of variables that    *)
(* belong to the class of its receiver or to the superclasses of that, is  *)
(* among its reads (375-573), unless it calls something of the same name.  *)
NoReadLost ==
  Done => \A f \in Functions(program) : Reads(program, f) \subseteq Shown(raw_reasons[f].reads_from)

(* No function is blamed for a global variable when the name is its own    *)
(* parameter or local variable, nor for a class variable of a class it     *)
(* does not belong to when all it assigns to is self: "Do not add class    *)
(* variables from other classes" (632).                                    *)
BlameIsDeserved ==
  Done => \A f \in Functions(program) :
    /\ \A s \in raw_reasons[f].reads_from \cup raw_reasons[f].writes_to :
         s.sort = "Global" => s.name \notin Locals(program, f)
    /\ \A s \in raw_reasons[f].writes_to :
         s.sort = "Class" /\ Named(program, f, {"setattr"}) \subseteq {"self"} => s.of = Owner(program, f)
-----------------------------------------------------------------------------
(* Python's binding of arguments to parameters.                            *)
Binds(params, s) ==
  LET byPosition == OfKind(params, {"positional", "either"})
      filled == {i \in byPosition : Cardinality({j \in byPosition : j < i}) < s.n}
      byName == {i \in OfKind(params, {"either", "keyword"}) : params[i].name \in s.keywords}
  IN /\ s.n <= Cardinality(byPosition) \/ OfKind(params, {"*"}) # {}
     /\ s.keywords \subseteq {params[i].name : i \in byName} \/ OfKind(params, {"**"}) # {}
     /\ filled \cap byName = {}
     /\ \A i \in OfKind(params, {"positional", "either", "keyword"}) : i \in filled \cup byName \/ params[i].default

(* The functions a call runs: functions of the module by their name, and   *)
(* methods of self.                                                        *)
Runs(p, f, s) ==
  {g \in Functions(p) :
     \/ /\ s.op = "call" /\ Name(p, g) = s.name /\ Binds(p.functions[g].params, s)
        /\ \/ Owner(p, g) = f /\ s.name \notin Parameters(p, f) \cup Named(p, f, {"assign"})
           \/ Owner(p, g) = Module /\ s.name \notin Locals(p, f)
     \/ /\ s.op = "callattr" /\ s.name = "self" /\ Name(p, g) = s.member
        /\ Owner(p, g) = Owner(p, f) /\ Owner(p, f) \in Classes(p)
        /\ Binds(Tail(p.functions[g].params), s)}

KeywordWithDefault(param) == param.kind = "keyword" /\ param.default

(* compare_parameters (172-241) drops no function that the call runs,      *)
(* unless it has keyword-only parameters with defaults: those do not count *)
(* among the defaults of astroid.  Methods of classes with superclasses    *)
(* are the business of OverridingMethodsAreFound.                          *)
CallsFindTheirFunctions ==
  Done => \A f \in Functions(program) : \A k \in Lines(program, f, {"call", "callattr"}) :
    \A g \in Runs(program, f, Body(program, f)[k]) :
      /\ \A i \in DOMAIN program.functions[g].params : ~KeywordWithDefault(program.functions[g].params[i])
      /\ Supers(program, f) = {}
      => FunctionSymbol(program, g) \in raw_reasons[f].calls

(* "This function finds all referenced Symbols for a call reference" (250) *)
(* or, where it finds none, the call is unknown: no method that a call of  *)
(* self runs goes unnoticed.                                               *)
OverridingMethodsAreFound ==
  Done => \A f \in Functions(program) : \A k \in Lines(program, f, {"callattr"}) :
    \A g \in Runs(program, f, Body(program, f)[k]) :
      FunctionSymbol(program, g) \in raw_reasons[f].calls \/ k \in raw_reasons[f].unknown_calls
=============================================================================
