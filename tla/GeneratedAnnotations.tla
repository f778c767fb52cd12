------------------------ MODULE GeneratedAnnotations ------------------------
(***************************************************************************)
(* What "annotations" makes of the counts: they are completed by what is   *)
(* not used at all and by the implicit usages of default values, and then  *)
(* the generators go over the API one after the other.                     *)
(*                                                                         *)
(* The API may lack functions and parameters that clients use.  Annotation *)
(* is reduced to what it says of its target; dependencies between          *)
(* parameters, which are taken from their descriptions, are left out.      *)
(***************************************************************************)
EXTENDS UsageCounts

CONSTANTS
  ApiFunction, ApiParameter,  \* the functions of the API and their parameters
  Default,                    \* parameter of the API |-> its default value
  NoDefault,
  Literal,                    \* values that are literals
  Variadic,                   \* *args and **kwargs
  EnumTyped, Bounded          \* parameters whose type is an enum or an interval

ASSUME ApiInputs ==
  /\ ApiFunction \subseteq Function /\ ApiParameter \subseteq Parameter
  /\ \A p \in ApiParameter : FunctionOf[p] \in ApiFunction
  /\ Default \in [ApiParameter -> Value \cup {NoDefault}] /\ NoDefault \notin Value
  /\ Literal \subseteq Value /\ Unprintable \notin Literal
  /\ Variadic \cup EnumTyped \cup Bounded \subseteq ApiParameter
  /\ Function \cap (Class \cup {NoClass}) = {}  \* ids tell them apart

VARIABLES
  usages,      \* what generate_annotations works with
  done,        \* the steps of it that are done
  annotations

allVars == <<vars, usages, done, annotations>>

Annotation(kind, target, value) == [kind |-> kind, target |-> target, value |-> value]
-----------------------------------------------------------------------------
(* _preprocess_usages                                                      *)
Known(c, S) == [k \in DOMAIN c \cup S |-> Count(c, k)]

WithUnused(s) ==
  [class     |-> Known(s.class, Class),
   function  |-> Known(s.function, ApiFunction),
   parameter |-> Known(s.parameter, ApiParameter),
   value     |-> s.value]

DefaultOf(p) == IF p \in ApiParameter THEN Default[p] ELSE NoDefault

WithDefaults(s) ==
  LET filled == {p \in DOMAIN s.parameter : DefaultOf(p) # NoDefault}
      implicit == [k \in {<<p, Default[p]>> : p \in filled} |->
                     Count(s.function, FunctionOf[k[1]]) - Count(s.parameter, k[1])]
  IN  [s EXCEPT !.value = PlusCounter(@, implicit)]
-----------------------------------------------------------------------------
(* The generators.                                                         *)
Times(s, p, v) == Count(s.value, <<p, v>>)
UsedValues(s, p) == {v \in Value : Times(s, p, v) > 0}

MostCommon(s, p, V) == CHOOSE v \in V : \A u \in V : Times(s, p, v) >= Times(s, p, u)

(* Whether m of m + n fair coin tosses are so many that it happens in 5%   *)
(* of all cases at most.                                                   *)
Significant(m, n) ==
  LET ways[i \in 0..(m + n)] ==
        IF i = 0 THEN 1 ELSE (ways[i - 1] * (m + n - i + 1)) \div i
  IN  40 * MapThenSumSet(LAMBDA i : ways[i], m..(m + n)) <= 2 ^ (m + n)

(* _generate_required_or_optional_annotation; a tie for the first place is *)
(* decided either way, and one for the second makes no difference.         *)
ValueByFrequency(s, p) ==
  LET first == MostCommon(s, p, UsedValues(s, p))
      second == MostCommon(s, p, UsedValues(s, p) \ {first})
  IN  IF /\ first \in Literal
         /\ Times(s, p, first) # Times(s, p, second)
         /\ Significant(Times(s, p, first), Times(s, p, second))
        THEN Annotation("optional", p, first)
        ELSE Annotation("required", p, NoDefault)

ConstantValue(p, v) ==
  IF v = Default[p] THEN Annotation("omitted", p, v)
  ELSE IF v \in Literal THEN Annotation("constant", p, v)
  ELSE Annotation("required", p, NoDefault)

(* Mutant: values that are used zero times are listed, too.                *)
ValueAnnotationsOfAll(s) ==
  LET Listed(p) == {v \in Value : <<p, v>> \in DOMAIN s.value}
      annotated == {p \in ApiParameter \ Variadic : Listed(p) # {}}
  IN  {IF Cardinality(Listed(p)) = 1
         THEN ConstantValue(p, CHOOSE v \in Listed(p) : TRUE)
         ELSE ValueByFrequency([s EXCEPT !.value = Known(@, {p} \X Value)], p) : p \in annotated}

ValueAnnotations(s) ==
  LET annotated == {p \in ApiParameter \ Variadic : UsedValues(s, p) # {}}
  IN  {IF Cardinality(UsedValues(s, p)) = 1
         THEN ConstantValue(p, CHOOSE v \in UsedValues(s, p) : TRUE)
         ELSE ValueByFrequency(s, p) : p \in annotated}

RemoveAnnotations(s) ==
  {Annotation("remove", c, NoDefault) : c \in {c \in Class : Count(s.class, c) = 0}}
  \cup {Annotation("remove", f, NoDefault) :
          f \in {f \in ApiFunction : Count(s.function, f) = 0}}

Constants == {a.target : a \in {a \in annotations : a.kind = "constant"}}
TypeAnnotations(kind, P) == {Annotation(kind, p, NoDefault) : p \in P \ Constants}
-----------------------------------------------------------------------------
AllInit == Init /\ usages = EmptyStore /\ done = <<>> /\ annotations = {}

CountUsages == Next /\ UNCHANGED <<usages, done, annotations>>

(* A step of generate_annotations.                                         *)
Step(name, before) ==
  /\ done = before /\ done' = Append(before, name)
  /\ UNCHANGED vars

ReadUsages ==
  /\ Finished /\ Step("read", <<>>)
  /\ usages' = total /\ UNCHANGED annotations
AddUnusedApiElements ==
  /\ Step("unused", <<"read">>)
  /\ usages' = WithUnused(usages) /\ UNCHANGED annotations
AddImplicitUsages ==
  /\ Step("implicit", <<"read", "unused">>)
  /\ usages' = WithDefaults(usages) /\ UNCHANGED annotations

Preprocessed == <<"read", "unused", "implicit">>
Generate(name, before, new) ==
  /\ Step(name, before)
  /\ annotations' = annotations \cup new /\ UNCHANGED usages

GenerateRemove == Generate("remove", Preprocessed, RemoveAnnotations(usages))
GenerateValue ==
  Generate("value", Preprocessed \o <<"remove">>, ValueAnnotations(usages))
GenerateEnum ==
  Generate("enum", Preprocessed \o <<"remove", "value">>,
           TypeAnnotations("enum", EnumTyped))
GenerateBoundary ==
  Generate("boundary", Preprocessed \o <<"remove", "value", "enum">>,
           TypeAnnotations("boundary", Bounded))

Generated == Len(done) = 7
Terminated == Generated /\ UNCHANGED allVars

AllNext ==
  \/ CountUsages \/ ReadUsages \/ AddUnusedApiElements \/ AddImplicitUsages
  \/ GenerateRemove \/ GenerateValue \/ GenerateEnum \/ GenerateBoundary
  \/ Terminated

AllSpec == AllInit /\ [][AllNext]_allVars
-----------------------------------------------------------------------------
(* What clients do: the analysed calls of a function, and the value that a *)
(* parameter has in a call.                                                *)
CallsOf(f) ==
  {ij \in Visited : input.files[ij[1]][ij[2]].function = f}
CallAt(ij) == input.files[ij[1]][ij[2]]
ValueIn(c, p) ==
  IF \E a \in Range(c.arguments) : a[1] = p
    THEN (CHOOSE a \in Range(c.arguments) : a[1] = p)[2] ELSE DefaultOf(p)
CallsWith(p, v) == {ij \in CallsOf(FunctionOf[p]) : ValueIn(CallAt(ij), p) = v}

(* No call gives a value to self, and a wrong one may lack others.         *)
CallsGiving(p) == CallsOf(FunctionOf[p]) \ CallsWith(p, NoDefault)

True(a) ==
  LET p == a.target
      calls == CallsGiving(p)
  IN  CASE a.kind = "remove" ->
             \A f \in Function : a.target \in {f, ClassOf[f]} => CallsOf(f) = {}
        [] a.kind \in {"omitted", "constant"} ->
             calls # {} /\ calls = CallsWith(p, a.value)
        [] a.kind = "optional" ->
             \A v \in Value \ {a.value} :
               Cardinality(CallsWith(p, v)) < Cardinality(CallsWith(p, a.value))
        [] a.kind = "required" ->
             ~\E v \in Literal \cup {Default[p]} : calls = CallsWith(p, v)
        [] OTHER -> ~\E b \in annotations : b.kind = "constant" /\ b.target = p

ValueKinds == {"omitted", "constant", "optional", "required"}

(* The calls that are cut off by an exception are said nothing of.         *)
CutOff(f) == \E ij \in CallsOf(f) : Fails(CallAt(ij))

(* What annotations claim is true of the calls that clients make: what is  *)
(* removed is not used, what is omitted or constant has one value in all   *)
(* calls, whether it is given or left out, and a default value is the one  *)
(* that is used most.  A parameter has one value annotation if calls give  *)
(* it a value, and none if they do not.                                    *)
AnnotationsTellTheTruth ==
  Generated =>
    /\ \A a \in annotations :
         (a.target \in Parameter => ~CutOff(FunctionOf[a.target])) => True(a)
    /\ \A p \in ApiParameter \ Variadic : ~CutOff(FunctionOf[p]) =>
         Cardinality({a \in annotations : a.target = p /\ a.kind \in ValueKinds}) =
           IF CallsGiving(p) = {} THEN 0 ELSE 1
=============================================================================
