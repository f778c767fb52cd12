--------------------------- MODULE MCSimpleDiffer ---------------------------
(* Elements that differ in any two or three of the features compared.       *)
EXTENDS SimpleDiffer

Default(sort, value) == [sort |-> sort, value |-> value]

Paths == {<<"m">>, <<"m", "a">>, <<"m", "b", "a">>, <<"m", "a", "b", "C">>, <<"a", "m">>}
Name == <<"f">>
Docs == {<<>>, <<"one">>, <<"one", "two">>}
Types == {<<>>, <<"int">>, <<"str", "int">>}
Assignments ==
  {"IMPLICIT", "POSITION_ONLY", "POSITION_OR_NAME", "POSITIONAL_VARARG", "NAME_ONLY", "NAMED_VARARG"}
Defaults ==
  {Default("absent", 0), Default("None", 0), Default("int", 1), Default("int", 2), Default("float", 1),
   Default("bool", 0), Default("bool", 1), Default("str", 1), Default("str", 2), Default("other", 1)}

Parameter(name, type, assigned_by, default, doc, path) ==
  [name |-> name, type |-> type, assigned_by |-> assigned_by, default_value |-> default, docstring |-> doc, path |-> path]

Parameters ==
  {Parameter(Name, type, "POSITION_OR_NAME", default, doc, <<"m", "a">>) : type \in Types, default \in Defaults, doc \in Docs}
  \cup {Parameter(name, <<>>, assigned_by, Default("absent", 0), <<>>, path) :
         name \in {Name, <<"g", "f">>, <<"f", "g", "g">>}, assigned_by \in Assignments, path \in Paths}

Attributes == {[name |-> name, type |-> type, path |-> <<"m", "C">>] : name \in {Name, <<"g", "f">>}, type \in Types}
Results == {[name |-> name, path |-> <<"m", "f">>] : name \in {Name, <<"g", "f">>}}

p1 == Parameter(Name, <<>>, "NAME_ONLY", Default("absent", 0), <<>>, <<"m", "a">>)
p2 == Parameter(<<"g">>, <<>>, "NAME_ONLY", Default("absent", 0), <<>>, <<"m", "a">>)

Functions ==
  {[name |-> Name, code |-> code, parameters |-> parameters, docstring |-> doc, path |-> path] :
     code \in {<<"x">>, <<"x", "y">>}, parameters \in {<<>>, <<p1>>, <<p1, p2>>}, doc \in Docs, path \in {<<"m", "a">>, <<"m">>}}
Classes ==
  {[name |-> <<"C">>, code |-> code, instance_attributes |-> attributes, methods |-> methods, docstring |-> <<>>, path |-> path] :
     code \in {<<"x">>, <<"x", "y">>}, attributes \in {<<>>, <<"k">>}, methods \in {<<>>, <<"f">>, <<"f", "g">>},
     path \in {<<"m", "a">>, <<"m">>}}

Nothing == [parameters |-> {}, functions |-> {}, classes |-> {}, attributes |-> {}, results |-> {}]
Pairs(S, Version(_)) == {[v1 |-> Version(e), v2 |-> Version(f)] : e \in S, f \in S}

(* Two functions and a class, with any code.                               *)
Function(name, code) == [name |-> name, code |-> code, parameters |-> <<>>, docstring |-> <<>>, path |-> <<"m", "a">>]
Class(code) ==
  [name |-> <<"C">>, code |-> code, instance_attributes |-> <<>>, methods |-> <<>>, docstring |-> <<>>, path |-> <<"m", "a">>]
Codes == {<<"x">>, <<"x", "y">>}
Versions ==
  {[Nothing EXCEPT !.functions = {Function(Name, c), Function(<<"g">>, d)}, !.classes = {Class(e)}] :
     c \in Codes, d \in Codes, e \in Codes}

(* Two parameters of any types.                                            *)
Typed(name, type) == Parameter(name, type, "NAME_ONLY", Default("absent", 0), <<>>, <<"m", "a">>)
Signatures ==
  {[Nothing EXCEPT !.parameters = {Typed(Name, s), Typed(<<"g">>, t)}] : s \in {<<>>, <<"int">>}, t \in {<<>>, <<"int">>}}

MCInputs ==
  Pairs(Versions, LAMBDA version : version) \cup Pairs(Signatures, LAMBDA version : version)
  \cup Pairs(Parameters, LAMBDA p : [Nothing EXCEPT !.parameters = {p}])
  \cup Pairs(Functions, LAMBDA f : [Nothing EXCEPT !.functions = {f}])
  \cup Pairs(Classes, LAMBDA c : [Nothing EXCEPT !.classes = {c}])
  \cup Pairs(Attributes, LAMBDA a : [Nothing EXCEPT !.attributes = {a}])
  \cup Pairs(Results, LAMBDA r : [Nothing EXCEPT !.results = {r}])
=============================================================================
