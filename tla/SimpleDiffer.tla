---------------------------- MODULE SimpleDiffer ----------------------------
(***************************************************************************)
(* How SimpleDiffer compares an element of version 1 of an API with one of *)
(* version 2: a mean of the similarities of names, types, code and so on.  *)
(* What it computed for two parameters or functions it remembers by their  *)
(* ids, and the code of a class or function it formats only once.          *)
(*                                                                         *)
(* Names, types, descriptions and code are sequences of letters, types,    *)
(* words and lines.  An element has the path of the module and the         *)
(* declarations it is in, which together with its name is its id.          *)
(* Similarities are integers, One stands for 1.0.                          *)
(***************************************************************************)
EXTENDS Integers, FiniteSets, Sequences

CONSTANTS
  One,
  Inputs   \* pairs of versions

(* All fractions that come up for paths and lists of up to four are whole. *)
ASSUME OneIsDivisible == One \in Nat /\ One > 0 /\ One % 3600 = 0

Id(e) == Append(e.path, e.name)

(* Elements of an API are kept by their ids.                               *)
ASSUME IdsAreUnique ==
  \A in \in Inputs : \A version \in {in.v1, in.v2} :
    /\ \A p, q \in version.parameters : Id(p) = Id(q) => p = q
    /\ \A e, f \in version.functions \cup version.classes : Id(e) = Id(f) => e = f

(* What is compared are lists; paths are short enough for edits of all of  *)
(* them to be told apart.                                                  *)
IsList(s) == s \in Seq({s[i] : i \in DOMAIN s})
WithPath(version) == version.parameters \cup version.functions \cup version.classes
ASSUME ElementsAreComparable ==
  \A in \in Inputs :
    /\ \A version \in {in.v1, in.v2} :
         /\ \A e \in WithPath(version) : IsList(e.name) /\ IsList(e.docstring) /\ IsList(e.path)
         /\ \A e \in version.attributes \cup version.results : IsList(e.name)
         /\ \A e \in version.parameters \cup version.attributes : IsList(e.type)
         /\ \A e \in version.functions \cup version.classes : IsList(e.code)
         /\ \A f \in version.functions : IsList(f.parameters)
         /\ \A c \in version.classes : IsList(c.instance_attributes) /\ IsList(c.methods)
    /\ \A e \in WithPath(in.v1), f \in WithPath(in.v2) :
         LET n == Len(e.path) + Len(f.path) IN n * (n + 1) <= 2 * One

VARIABLES
  apiv1, apiv2,                   \* kind |-> the elements of this kind
  previous_parameter_similarity,  \* ids of two parameters |-> their similarity
  previous_function_similarity,
  formatted_code,                 \* version and id |-> lines
  answer                          \* what was computed last

api == <<apiv1, apiv2>>
differVars == <<api, previous_parameter_similarity, previous_function_similarity, formatted_code, answer>>
-----------------------------------------------------------------------------
LongerOf(m, n) == IF m > n THEN m ELSE n
LeastOf(S) == CHOOSE n \in S : \A k \in S : n <= k

(* distance of the Levenshtein library: letters that stay in their order   *)
(* are lined up, those that differ are replaced, the others are edits.     *)
Alignments(s, t) ==
  {A \in SUBSET ((DOMAIN s) \X (DOMAIN t)) :
     \A p, q \in A : p # q => p[1] # q[1] /\ p[2] # q[2] /\ (p[1] < q[1] <=> p[2] < q[2])}
Edits(s, t, A) == Len(s) + Len(t) - 2 * Cardinality(A) + Cardinality({p \in A : s[p[1]] # t[p[2]]})
distance(s, t) == IF s = t THEN 0 ELSE LeastOf({Edits(s, t, A) : A \in Alignments(s, t)})

(* 1 - distance / length of the longer one                                 *)
Similarity(s, t) == One - (One * distance(s, t)) \div LongerOf(LongerOf(Len(s), Len(t)), 1)

(* A similarity of what neither of both has.                               *)
Missing == -1

TypeSimilarity(s, t) ==
  IF s = <<>> \/ t = <<>> THEN (IF s = t THEN One ELSE 0) ELSE Similarity(s, t)

(* An attribute without a type has one that is None.                       *)
AttributeTypes(s) == IF s = <<>> THEN <<"None">> ELSE s

DocumentationSimilarity(s, t) ==
  LET words(d) == IF d = <<>> THEN <<"">> ELSE d
  IN  IF s = <<>> /\ t = <<>> THEN Missing ELSE Similarity(words(s), words(t))

(* assigned_by_look_up_similarity, in hundredths.                          *)
Vararg == {"NAMED_VARARG", "POSITIONAL_VARARG"}
AssignmentDistance(a, b) ==
  LET explicit == {a, b} \ {"IMPLICIT"}
      named == {a, b} \cap {"NAMED_VARARG", "NAME_ONLY"}
      positional == {a, b} \cap {"POSITIONAL_VARARG", "POSITION_ONLY"}
  IN  IF a = b THEN 0
      ELSE IF "IMPLICIT" \in {a, b}
      THEN 30 + (IF explicit \subseteq Vararg THEN 30 ELSE 0) + (IF "NAMED_VARARG" \in explicit THEN 30 ELSE 0)
      ELSE (IF Cardinality({a, b} \cap Vararg) = 1 THEN 30 ELSE 0)
           + (IF "POSITION_OR_NAME" \in {a, b} THEN 15 ELSE IF named # {} /\ positional # {} THEN 30 ELSE 0)
AssignmentSimilarity(a, b) == One - (One * AssignmentDistance(a, b)) \div 100

(* Of default values, only numbers and texts are compared; any text that   *)
(* is not empty is true, also that of False.                               *)
DefaultValueSimilarity(d, e) ==
  LET both(sorts) == {d.sort, e.sort} \subseteq sorts
      half == One \div 2
  IN CASE both({"absent"}) -> Missing
       [] ~both({"absent"}) /\ "absent" \in {d.sort, e.sort} -> 0
       [] both({"None"}) \/ both({"bool"}) -> One
       [] both({"int"}) \/ both({"str"}) -> IF d.value = e.value THEN One ELSE half
       [] both({"int", "float"}) /\ ~both({"int"}) -> IF d.value = e.value THEN One ELSE 0
       [] OTHER -> 0
-----------------------------------------------------------------------------
(* The ways from one path to another: each cell of the table has the edits *)
(* that lead to it, "=" for what stays; their number is what table holds.  *)
CostOf(edits) == Cardinality({i \in DOMAIN edits : edits[i] # "="})

(* Mutant: what differs is always deleted and inserted.                    *)
NextEditWithoutReplacing(above, left, corner) ==
  IF CostOf(above) <= CostOf(left) THEN Append(above, "+") ELSE Append(left, "-")

NextEdit(above, left, corner) ==
  LET least == LeastOf({CostOf(above), CostOf(left), CostOf(corner)})
  IN  IF CostOf(above) = least THEN Append(above, "+")
      ELSE IF CostOf(left) = least THEN Append(left, "-")
      ELSE Append(corner, "o")

(* Row i of the table, below the row that is given.                        *)
NextRow(above, i, s, t) ==
  LET row[j \in 0 .. Len(t)] ==
        IF j = 0 THEN [k \in 1 .. i |-> "-"]
        ELSE IF s[i] = t[j] THEN Append(above[j - 1], "=")
        ELSE NextEdit(above[j], row[j - 1], above[j - 1])
  IN  row
EditTable(s, t) ==
  LET table[i \in 0 .. Len(s)] ==
        IF i = 0 THEN [j \in 0 .. Len(t) |-> [k \in 1 .. j |-> "+"]]
        ELSE NextRow(table[i - 1], i, s, t)
  IN  table[Len(s)][Len(t)]

EditsBetween(s, t) == IF Len(s) > Len(t) THEN EditTable(t, s) ELSE EditTable(s, t)

(* Edits close to the root of a path cost more; together all would cost    *)
(* what they are divided by.                                               *)
IdSimilarity(s, t) ==
  IF s = t THEN One
  ELSE LET edits == EditsBetween(s, t)
           n == Len(edits)
           cost[i \in 0 .. n] == IF i = 0 THEN 0 ELSE cost[i - 1] + (IF edits[i] = "=" THEN 0 ELSE n - i + 1)
       IN  One - (One * cost[n]) \div ((n * (n + 1)) \div 2)
-----------------------------------------------------------------------------
(* What is missing on both sides is no part of the mean.                   *)
Mean(s) ==
  LET present == {i \in DOMAIN s : s[i] >= 0}
      total[i \in 0 .. Len(s)] == IF i = 0 THEN 0 ELSE total[i - 1] + (IF i \in present THEN s[i] ELSE 0)
  IN  total[Len(s)] \div Cardinality(present)

ParameterSimilarity(p, q) ==
  Mean(<<Similarity(p.name, q.name), TypeSimilarity(p.type, q.type),
         AssignmentSimilarity(p.assigned_by, q.assigned_by),
         DefaultValueSimilarity(p.default_value, q.default_value),
         DocumentationSimilarity(p.docstring, q.docstring), IdSimilarity(p.path, q.path)>>)

AttributeSimilarity(a, b) ==
  Mean(<<Similarity(a.name, b.name), Similarity(AttributeTypes(a.type), AttributeTypes(b.type))>>)

ResultSimilarity(r, s) == Similarity(r.name, s.name)

FunctionSimilarity(f, g, code, other) ==
  Mean(<<Similarity(code, other), Similarity(f.name, g.name), Similarity(f.parameters, g.parameters),
         IdSimilarity(f.path, g.path), DocumentationSimilarity(f.docstring, g.docstring)>>)

ClassSimilarity(c, d, code, other) ==
  Mean(<<Similarity(c.name, d.name), Similarity(c.instance_attributes, d.instance_attributes),
         Similarity(c.methods, d.methods), Similarity(code, other), IdSimilarity(c.path, d.path),
         DocumentationSimilarity(c.docstring, d.docstring)>>)
-----------------------------------------------------------------------------
NothingYet == [x \in {} |-> x]
With(f, k, v) == [x \in DOMAIN f \cup {k} |-> IF x = k THEN v ELSE f[x]]

DifferInit ==
  /\ \E in \in Inputs : apiv1 = in.v1 /\ apiv2 = in.v2
  /\ previous_parameter_similarity = NothingYet /\ previous_function_similarity = NothingYet
  /\ formatted_code = NothingYet
  /\ answer = [kind |-> "none"]

Answer(kind, e, f, value) == answer' = [kind |-> kind, v1 |-> e, v2 |-> f, value |-> value]

Remembers(known, e, f) == <<Id(e), Id(f)>> \in DOMAIN known
Remembered(known, e, f) == known[<<Id(e), Id(f)>>]

(* Mutant: both versions share the formatted code.                         *)
CodeKeyOfId(version, e) == <<"api", Id(e)>>

CodeKey(version, e) == <<version, Id(e)>>

(* _compute_code_similarity: lines are formatted when they are first       *)
(* needed, those of version 1 before those of version 2.                   *)
Formatted(known, version, e) ==
  IF CodeKey(version, e) \in DOMAIN known THEN known ELSE With(known, CodeKey(version, e), e.code)
FormattedBoth(e, f) == Formatted(Formatted(formatted_code, "apiv1", e), "apiv2", f)
CodeOf(known, version, e) == known[CodeKey(version, e)]

ComputeParameterSimilarity(p, q) ==
  LET known == previous_parameter_similarity
      value == IF Remembers(known, p, q) THEN Remembered(known, p, q) ELSE ParameterSimilarity(p, q)
  IN  /\ previous_parameter_similarity' = With(known, <<Id(p), Id(q)>>, value)
      /\ Answer("parameters", p, q, value)
  /\ UNCHANGED <<api, previous_function_similarity, formatted_code>>

RecallFunctionSimilarity(f, g) ==
  /\ Remembers(previous_function_similarity, f, g)
  /\ Answer("functions", f, g, Remembered(previous_function_similarity, f, g))
  /\ UNCHANGED <<api, previous_parameter_similarity, previous_function_similarity, formatted_code>>

ComputeFunctionSimilarity(f, g) ==
  /\ ~Remembers(previous_function_similarity, f, g)
  /\ formatted_code' = FormattedBoth(f, g)
  /\ LET value == FunctionSimilarity(f, g, CodeOf(formatted_code', "apiv1", f), CodeOf(formatted_code', "apiv2", g))
     IN  /\ previous_function_similarity' = With(previous_function_similarity, <<Id(f), Id(g)>>, value)
         /\ Answer("functions", f, g, value)
  /\ UNCHANGED <<api, previous_parameter_similarity>>

ComputeClassSimilarity(c, d) ==
  /\ formatted_code' = FormattedBoth(c, d)
  /\ Answer("classes", c, d,
            ClassSimilarity(c, d, CodeOf(formatted_code', "apiv1", c), CodeOf(formatted_code', "apiv2", d)))
  /\ UNCHANGED <<api, previous_parameter_similarity, previous_function_similarity>>

ComputeAttributeSimilarity(a, b) ==
  /\ Answer("attributes", a, b, AttributeSimilarity(a, b))
  /\ UNCHANGED <<api, previous_parameter_similarity, previous_function_similarity, formatted_code>>

ComputeResultSimilarity(r, s) ==
  /\ Answer("results", r, s, ResultSimilarity(r, s))
  /\ UNCHANGED <<api, previous_parameter_similarity, previous_function_similarity, formatted_code>>

DifferNext ==
  \/ \E p \in apiv1.parameters, q \in apiv2.parameters : ComputeParameterSimilarity(p, q)
  \/ \E f \in apiv1.functions, g \in apiv2.functions : RecallFunctionSimilarity(f, g) \/ ComputeFunctionSimilarity(f, g)
  \/ \E c \in apiv1.classes, d \in apiv2.classes : ComputeClassSimilarity(c, d)
  \/ \E a \in apiv1.attributes, b \in apiv2.attributes : ComputeAttributeSimilarity(a, b)
  \/ \E r \in apiv1.results, s \in apiv2.results : ComputeResultSimilarity(r, s)

DifferSpec == DifferInit /\ [][DifferNext]_differVars
-----------------------------------------------------------------------------
(* An answer is a "value between 0 and 1", also when documentation or      *)
(* default values are missing, and what the elements themselves have to    *)
(* say, whatever was asked before: what is remembered by an id, in the     *)
(* class of all differs, is that of this element in this version.          *)
Fresh(kind, e, f) ==
  CASE kind = "parameters" -> ParameterSimilarity(e, f)
    [] kind = "functions" -> FunctionSimilarity(e, f, e.code, f.code)
    [] kind = "classes" -> ClassSimilarity(e, f, e.code, f.code)
    [] kind = "attributes" -> AttributeSimilarity(e, f)
    [] kind = "results" -> ResultSimilarity(e, f)
AnswersAreFresh ==
  answer.kind # "none" =>
    answer.value \in 0 .. One /\ answer.value = Fresh(answer.kind, answer.v1, answer.v2)

(* The edits that _compute_id_similarity counts are a shortest way from    *)
(* one path to the other, and elements have the similarity One only if     *)
(* their paths are the same (distance_elements_with_cost_function).        *)
PathsAreComparedWell ==
  answer.kind \in {"parameters", "functions", "classes"} =>
    LET s == answer.v1.path
        t == answer.v2.path
    IN  /\ CostOf(EditsBetween(s, t)) = distance(s, t)
        /\ IdSimilarity(s, t) \in 0 .. One
        /\ IdSimilarity(s, t) = One <=> s = t
=============================================================================
