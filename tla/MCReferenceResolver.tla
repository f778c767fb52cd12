------------------------ MODULE MCReferenceResolver ------------------------
(* Families of modules, one for each kind of question.                     *)
EXTENDS ReferenceResolver

MCOrder == [f \in {"init", "m", "f", "g", "h", "h2"} |->
              CASE f = "init" -> 1 [] f = "m" -> 2 [] f = "g" -> 3 [] f = "h" -> 4 [] f = "h2" -> 5 [] f = "f" -> 6]

Do(op, name, member) == [op |-> op, name |-> name, member |-> member, n |-> 0, keywords |-> {}]
CallWith(op, name, member, n, keywords) ==
  [op |-> op, name |-> name, member |-> member, n |-> n, keywords |-> keywords]
Param(name, kind, default) == [name |-> name, kind |-> kind, default |-> default]
Plain(name) == Param(name, "either", FALSE)
Function(name, owner, params, body) ==
  [name |-> name, owner |-> owner, params |-> params, body |-> body, property |-> FALSE]
Class(bases, variables) == [bases |-> bases, vars |-> variables]
Empty == [x \in {} |-> x]
Program(globals, classes, defs, imports, package) ==
  [globals |-> globals, classes |-> classes, functions |-> defs, imports |-> imports, package |-> package]

(* A global variable x that is shadowed, declared, assigned and used, also *)
(* by a function in the function.                                          *)
Using == {Do("assign", "x", ""), Do("read", "x", ""), Do("getattr", "x", "m"), Do("setattr", "x", "m")}
Bodies == BoundedSeq(Using, 3) \cup {<<Do("global", "x", "")>> \o b : b \in BoundedSeq(Using, 2)}
ShortBodies == BoundedSeq(Using, 1) \cup {<<Do("global", "x", "")>> \o b : b \in BoundedSeq(Using, 1)}
Variables ==
  {Program(globals, Empty, [f |-> Function("f", Module, <<>>, b)], Empty, FALSE) : globals \in SUBSET {"x"}, b \in Bodies}
    \cup {Program({"x"}, Empty, [f |-> Function("f", Module, <<Plain("x")>>, b)], Empty, FALSE) : b \in BoundedSeq(Using, 3)}
    \cup {Program({"x"}, Empty, [f |-> Function("f", Module, <<>>, b), g |-> Function("g", "f", <<>>, c)], Empty, FALSE) :
            b \in ShortBodies, c \in ShortBodies}

(* Two classes, one of which may be derived from the other, with class and *)
(* instance variables and a property, used by a method or a function.      *)
Members ==
  {Do(op, r, "m") : op \in {"getattr", "setattr"}, r \in {"self", "A", "o"}} \cup {CallWith("callattr", "o", "m", 0, {})}
Inits == {<<>>, <<Do("setattr", "self", "m")>>, <<Do("setattr", "self", "m"), Do("setattr", "self", "m")>>,
          <<Do("setattr", "self", "n"), Do("setattr", "o", "m")>>}
Users(b) ==
  {Function("f", Module, <<Plain("o")>>, b)}
    \cup {Function(n, c, <<Plain("self"), Plain("o")>>, b) : n \in {"f", "__init__"}, c \in {"B"}}
    \cup {Function("f", "A", <<Plain("self"), Plain("o")>>, b)}
Members_(va, vb, bases, i, u, prop) ==
  Program({}, [A |-> Class({}, va), B |-> Class(bases, vb)],
          [init |-> Function("__init__", "A", <<Plain("self"), Plain("o")>>, i), f |-> u]
            @@ [g \in {"m"} \cap prop |-> [Function("m", "A", <<Plain("self")>>, <<>>) EXCEPT !.property = TRUE]],
          Empty, FALSE)
ClassesAndMembers ==
  UNION {{Members_(va, vb, bases, i, u, {}) : u \in Users(b)} :
           va \in SUBSET {"m"}, vb \in SUBSET {"m"}, bases \in {{}, {"A"}}, i \in Inits, b \in BoundedSeq(Members, 2)}
    \cup UNION {{Members_({}, vb, {}, <<>>, u, {"m"}) : u \in Users(b)} : vb \in SUBSET {"m"}, b \in BoundedSeq(Members, 1)}

(* Calls of a function or method with any parameters.                      *)
ParamLists ==
  {<<>>} \cup {<<Param("a", kind, d)>> : kind \in {"positional", "either", "keyword"}, d \in BOOLEAN}
    \cup {<<Param("a", kind, FALSE)>> : kind \in {"*", "**"}}
    \cup {<<Param("a", kind, d), Param("b", other, d \/ e)>> :
            kind \in {"positional", "either"}, other \in {"either", "keyword"}, d \in BOOLEAN, e \in BOOLEAN}
    \cup {<<Plain("a"), Param("b", kind, FALSE)>> : kind \in {"*", "**"}}
    \cup {<<Param("a", "*", FALSE), Param("b", "keyword", d)>> : d \in BOOLEAN}
Arguments(op, r, m) == {<<CallWith(op, r, m, n, k)>> : n \in 0 .. 2, k \in SUBSET {"a", "b"}}
OneClass == [A |-> Class({}, {})]
CalledFunctions ==
  {Program({}, OneClass, [h |-> Function("h", Module, ps, <<>>), f |-> Function("f", owner, <<>>, b)], Empty, FALSE) :
     ps \in ParamLists, owner \in {Module, "A"}, b \in Arguments("call", "h", "")}
    \cup {Program({}, OneClass, [h |-> Function("h", "A", <<Plain("self")>> \o ps, <<>>),
                                f |-> Function("f", "A", <<Plain("self")>>, b)], Empty, FALSE) :
            ps \in ParamLists, b \in Arguments("callattr", "self", "h")}

(* Names that mean several things: functions, parameters, classes,         *)
(* builtins and functions in functions; methods of superclasses.           *)
Ambiguous ==
  {Program({}, [A |-> Class({}, {}), B |-> Class(bases, {})],
           [h |-> Function(n, "A", <<Plain("self")>>, <<>>), h2 |-> Function(n, owner, <<Plain("self")>>, <<>>),
            f |-> Function("f", c, <<Plain("self"), Plain(q)>>, <<s>>)], Empty, FALSE) :
     n \in {"h", "open"}, owner \in {"B", Module}, bases \in {{}, {"A"}}, c \in {"B", Module}, q \in {"h", "o"},
     s \in {CallWith("call", x, "", k, {}) : x \in {"h", "A", "open"}, k \in 0 .. 1}
             \cup {CallWith("callattr", "self", x, 0, {}) : x \in {"h", "open"}}}

(* Whatever is done with an imported name, which may be a class of the     *)
(* package, and with a member that has the name of another import.         *)
Imported ==
  {Program({}, [c \in {k \in {"C"} : package} |-> Class({}, {"m"})], [f |-> Function("f", Module, <<>>, b)],
           [i \in {"C"} |-> kind], package) :
     kind \in {"function", "class", "value", "nothing"}, package \in BOOLEAN,
     b \in BoundedSeq({CallWith("call", "C", "", 0, {}), CallWith("callattr", "C", "m", 0, {}),
                       Do("read", "C", ""), Do("getattr", "C", "m"), Do("setattr", "C", "m")}, 2)}
    \cup {Program({}, Empty, [f |-> Function("f", Module, <<Plain("o")>>, <<s>>)],
                  [i \in {"C", "m"} |-> IF i = "C" THEN kind ELSE other], FALSE) :
            kind \in {"function", "class", "value", "nothing"}, other \in {"function", "class", "value", "nothing"},
            s \in {CallWith("call", "m", "", 0, {}), CallWith("callattr", "C", "m", 0, {}),
                   CallWith("callattr", "o", "m", 0, {})}}

MCPrograms == Variables \cup ClassesAndMembers \cup CalledFunctions \cup Ambiguous \cup Imported
=============================================================================
