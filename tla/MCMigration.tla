---------------------------- MODULE MCMigration ----------------------------
(* Three families of inputs: three parameters that become one or two, with *)
(* value annotations; two parameters that become one, with any others; two *)
(* methods that become one or two, or are moved.                           *)
EXTENDS Migration

CONSTANTS A1, f1, g1, p1, q1, r1, A2, f2, g2, p2, q2, x, y

MCKind ==
  [e \in V1 \cup V2 |-> CASE e \in {A1, A2}         -> "class"
                          [] e \in {f1, g1, f2, g2} -> "function"
                          [] OTHER                  -> "parameter"]
MCParent ==
  [e \in V1 \cup V2 |-> CASE e \in {f1, g1} -> A1 [] e \in {f2, g2} -> A2
                          [] e \in {p1, q1, r1} -> f1 [] e \in {p2, q2} -> f2
                          [] OTHER -> NoParent]

Order == <<"boundary", "calledAfter", "description", "enum", "expert", "group",
           "move", "rename", "remove", "todo", "value">>
Position(a) == CHOOSE i \in DOMAIN Order : Order[i] = ListOf(a.class)
InOrder(S) == SetToSortSeq(S, LAMBDA a, b : Position(a) < Position(b))

Absent == [kind |-> "absent", content |-> 0]
Default(kind, content) == [kind |-> kind, content |-> content]
Annotation(class, target, value, review) ==
  [class |-> class, target |-> target, value |-> value, review |-> review]
Mapping(from, to, similarity) ==
  [from |-> from, to |-> to, similarity |-> similarity]

Plain == [name |-> x, module |-> x, type |-> <<>>, default |-> Absent, doc |-> x]
DataWith(changes) == changes @@ [e \in V1 \cup V2 |-> Plain]
Parameter(type, default) == [Plain EXCEPT !.type = type, !.default = default]

(* Value annotations.                                                      *)
Values(p) ==
  {Annotation(c, p, v, "CORRECT") : c \in {"constant", "optional"}, v \in {x, y}}
  \cup {Annotation(c, p, x, "CORRECT") : c \in {"omitted", "required"}}
Ints == {Parameter(<<"int">>, Default("number", 1)),
         Parameter(<<"str", "int">>, Default("number", 2))}
Strings == {Parameter(<<"str">>, Default("number", 1)), Parameter(<<"str">>, Absent)}
ValueInputs ==
  {[data |-> DataWith((p1 :> d) @@ (q1 :> e) @@ (r1 :> d) @@ (p2 :> two) @@ (q2 :> two)),
    mappings |-> {Mapping({p1, q1, r1}, m[1], m[2])},
    annotations |-> <<a, b, c>>] :
     a \in Values(p1), b \in Values(q1), c \in Values(r1),
     d \in Ints \cup Strings, e \in Ints, two \in {CHOOSE i \in Ints : i.type = <<"int">>},
     m \in {<<{p2}, 90>>, <<{p2}, 80>>, <<{p2}, 70>>, <<{p2, q2}, 90>>}}

(* Other annotations of parameters.                                        *)
Interval(discrete, lower, lowerType, upper, upperType) ==
  [discrete |-> discrete, lower |-> lower, lowerType |-> lowerType,
   upper |-> upper, upperType |-> upperType]
SomeIntervals ==
  {Interval(FALSE, 1, 0, 7, 1), Interval(FALSE, -3, 0, -1, 0), Interval(FALSE, -1, 1, 7, 2),
   Interval(TRUE, 2, 1, 8, 0)}
Others(p) ==
  {Annotation("boundary", p, i, IF i.discrete THEN "WRONG" ELSE "CORRECT") : i \in SomeIntervals}
  \cup {Annotation("enum", p, v, "CORRECT") : v \in {{1}, {1, 2}}}
  \cup {Annotation(c, p, v, "NONE") : c \in {"description", "rename", "todo"}, v \in {x, y}}
  \cup {Annotation("expert", p, x, "WRONG")}
Types == {<<>>, <<"int">>, <<"str", "float", "int">>, <<"str">>, <<"object">>,
          <<"list", "object">>}
OtherInputs ==
  {[data |-> DataWith((p1 :> Parameter(d, Absent)) @@
                      (p2 :> [Parameter(e, Default("string", 1)) EXCEPT !.doc = n, !.name = n])),
    mappings |-> {Mapping(IF b.target = r1 THEN {p1, r1} ELSE {p1}, {p2}, IF n = x THEN 90 ELSE 80)},
    annotations |-> InOrder({a, b})] :
     a \in Others(p1), b \in {Annotation("expert", q1, x, "NONE")} \cup Others(r1), d \in {<<>>, <<"str">>},
     e \in Types, n \in {x, y}}

(* Annotations of methods and classes.                                     *)
Callables(f) ==
  {Annotation("calledAfter", f, v, "CORRECT") : v \in {x, y}}
  \cup {Annotation("move", f, y, "CORRECT"), Annotation("remove", f, x, "CORRECT")}
Groups ==
  {Annotation("group", f1, [name |-> <<n>>, parameters |-> ps], "CORRECT") :
     n \in {x, y}, ps \in {<<p1, q1>>, <<p1, q1, r1>>}}
MethodMappings ==
  {{Mapping({f1}, {f2}, 90), Mapping({g1}, {g2}, 90)}, {Mapping({f1}, {f2, g2}, 90)},
   {Mapping({f1, g1}, {f2}, 80)}, {Mapping({f1, g1}, {f2, g2}, 90)}}
ParameterMappings ==
  {{Mapping({p1}, {p2}, 90), Mapping({q1}, {q2}, 90)}, {Mapping({p1, q1}, {p2}, 90)},
   {Mapping({p1}, {p2, q2}, 90)}, {}}
MethodInputs ==
  {[data |-> DataWith((g1 :> [Plain EXCEPT !.name = y]) @@
                      (A2 :> [Plain EXCEPT !.module = n]) @@
                      (g2 :> [Plain EXCEPT !.name = y])),
    mappings |-> ms \cup ps \cup {Mapping({A1}, {A2}, 90)},
    annotations |-> InOrder({a, b, c})] :
     a \in Callables(f1) \cup Groups, b \in Callables(g1), c \in {Annotation("move", A1, v, "NONE") : v \in {x, y}},
     n \in {x, y}, ms \in MethodMappings, ps \in ParameterMappings}

MCScenarios == {ValueInputs, OtherInputs, MethodInputs}
=============================================================================
