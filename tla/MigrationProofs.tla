-------------------------- MODULE MigrationProofs --------------------------
(***************************************************************************)
(* How SimpleDiffer compares elements: for any two versions of an API and  *)
(* any order of questions, what is remembered never stands for another     *)
(* element or another version, and all similarities are in 0..One.  Paths  *)
(* of any length are compared by a shortest way from one to the other:     *)
(* each cell of the table has one from the beginning of one path to that   *)
(* of the other (IsShortest), measured by the alignments of both.          *)
(*                                                                         *)
(* What becomes of annotations: for any elements, mappings, annotations    *)
(* and thresholds, none vanishes when annotations meet at one element, one *)
(* of each class is left, and contradictions are marked.  The mapping of   *)
(* an element decides in which store its annotations are, so that only one *)
(* of both lists has any (InTheirStore); what was migrated so far is in it *)
(* (AllThere); and removing all duplicates but one, which was marked       *)
(* before, leaves just that one.                                           *)
(***************************************************************************)
EXTENDS SimpleDiffer, Migration, SequenceTheorems, FiniteSetTheorems, WellFoundedInduction, TLAPS

-----------------------------------------------------------------------------
(* Numbers, and what is computed step by step.                             *)
LEMMA Least ==
  ASSUME NEW T \in SUBSET Nat, T # {}
  PROVE  \E x \in T : \A y \in T : x <= y
<1>1. PICK R : R = OpToRel(<, Nat)
  OBVIOUS
<1>2. IsWellFoundedOn(R, Nat)
  BY <1>1, NatLessThanWellFounded
<1>3. \A i, j \in Nat : i < j => <<i, j>> \in R
  BY <1>1 DEF OpToRel
<1>4. PICK x \in T : \A y \in T : <<y, x>> \notin R
  BY <1>2, WFMin
<1>5. \A y \in T : ~(y < x)
  BY <1>3, <1>4
<1> QED BY <1>5

LEMMA SetInduction ==
  ASSUME NEW S \in SUBSET Nat, 0 \in S, \A n \in S : n + 1 \in S
  PROVE  S = Nat
<1> SUFFICES ASSUME Nat \ S # {} PROVE FALSE
  OBVIOUS
<1>1. PICK x \in Nat \ S : \A y \in Nat \ S : x <= y
  BY Least
<1>2. x - 1 \in S
  BY <1>1
<1> QED BY <1>1, <1>2

LEMMA UpTo ==
  ASSUME NEW N \in Nat, NEW S, 0 \in S, \A i \in 1..N : i - 1 \in S => i \in S
  PROVE  \A i \in 0..N : i \in S
<1> DEFINE T == {n \in Nat : n <= N => n \in S}
<1>1. 0 \in T
  OBVIOUS
<1>2. ASSUME NEW n \in T PROVE n + 1 \in T
  <2>1. CASE n + 1 <= N
    <3>1. n + 1 \in 1..N /\ (n + 1) - 1 = n /\ n \in S
      BY <2>1
    <3> QED BY <3>1
  <2> QED BY <2>1
<1> HIDE DEF T
<1>3. T = Nat
  BY <1>1, <1>2, SetInduction DEF T
<1> QED BY <1>3 DEF T

(* What a recursive function stands for exists.                            *)
Iterates(h, first, F, N) == h[0] = first /\ \A i \in 1..N : h[i] = F[<<i, h[i - 1]>>]

LEMMA Iterated ==
  ASSUME NEW N \in Nat, NEW V, NEW first \in V, NEW F \in [(1..N) \X V -> V]
  PROVE  \E h \in [0..N -> V] : Iterates(h, first, F, N)
<1> DEFINE Some(n) == {h \in [0..n -> V] : Iterates(h, first, F, n)}
           S == {n \in Nat : Some(n) # {}}
<1>1. 0 \in S
  <2>1. PICK f : f = [i \in 0..0 |-> first]
    OBVIOUS
  <2>2. f \in [0..0 -> V] /\ Iterates(f, first, F, 0)
    BY <2>1 DEF Iterates
  <2> QED BY <2>2
<1>2. ASSUME NEW n \in 1..N, n - 1 \in S PROVE n \in S
  <2>1. n \in Nat /\ n - 1 \in Nat
    OBVIOUS
  <2>2. PICK f \in [0..n - 1 -> V] : Iterates(f, first, F, n - 1)
    BY <1>2
  <2>3. n - 1 \in 0..n - 1 /\ <<n, f[n - 1]>> \in (1..N) \X V
    BY <2>1, <2>2
  <2>4. PICK new \in V : new = F[<<n, f[n - 1]>>]
    BY <2>3
  <2>5. PICK g : g = [i \in 0..n |-> IF i = n THEN new ELSE f[i]]
    OBVIOUS
  <2>6. \A i \in 0..n : i = n \/ i \in 0..n - 1
    BY <2>1
  <2>7. g \in [0..n -> V]
    BY <2>2, <2>4, <2>5, <2>6
  <2>8. (\A i \in 0..n - 1 : g[i] = f[i]) /\ g[n] = new
    BY <2>1, <2>5
  <2>9. ASSUME NEW i \in 1..n PROVE g[i] = F[<<i, g[i - 1]>>]
    <3>1. CASE i = n
      BY <2>3, <2>4, <2>8, <3>1
    <3>2. CASE i # n
      <4>1. i \in 1..n - 1 /\ i \in 0..n - 1 /\ i - 1 \in 0..n - 1
        BY <2>1, <3>2
      <4> QED BY <2>2, <2>8, <4>1 DEF Iterates
    <3> QED BY <3>1, <3>2
  <2>10. g[0] = first
    <3>1. 0 \in 0..n - 1
      BY <2>1
    <3> QED BY <2>2, <2>8, <3>1 DEF Iterates
  <2>11. Iterates(g, first, F, n)
    BY <2>9, <2>10 DEF Iterates
  <2> QED BY <2>1, <2>7, <2>11
<1>3. N \in 0..N
  OBVIOUS
<1> HIDE DEF Some, S
<1>4. N \in S
  BY <1>1, <1>2, <1>3, UpTo
<1> QED BY <1>4 DEF S, Some

LEMMA Quotient ==
  ASSUME NEW a \in Nat, NEW c \in Nat \ {0}, NEW m \in Nat, a <= m * c
  PROVE  a \div c \in 0..m
<1>1. PICK q \in Int : q = a \div c
  OBVIOUS
<1>2. c * q <= a /\ a < c * (q + 1)
  BY <1>1
<1>3. q >= 0
  <2>1. CASE q + 1 <= 0
    <3>1. c * (q + 1) <= 0
      BY <2>1
    <3> QED BY <1>2, <3>1
  <2> QED BY <2>1
<1>4. q <= m
  <2>1. CASE q >= m + 1
    <3>1. c * q >= c * (m + 1)
      BY <2>1
    <3>2. c * (m + 1) = m * c + c
      OBVIOUS
    <3> QED BY <1>2, <3>1, <3>2
  <2> QED BY <2>1
<1> QED BY <1>1, <1>3, <1>4
-----------------------------------------------------------------------------
(* SimpleDiffer: what is remembered.                                       *)
(* An answer, remembered or not, is that of the elements asked about.      *)
AnswerIsOwn == answer.kind # "none" => answer.value = Fresh(answer.kind, answer.v1, answer.v2)

HasCode(version) == version.functions \cup version.classes

VersionsAreInputs == \E in \in Inputs : apiv1 = in.v1 /\ apiv2 = in.v2

ParametersAreOwn ==
  \A p \in apiv1.parameters, q \in apiv2.parameters : Remembers(previous_parameter_similarity, p, q) =>
    Remembered(previous_parameter_similarity, p, q) = ParameterSimilarity(p, q)

FunctionsAreOwn ==
  \A f \in apiv1.functions, g \in apiv2.functions : Remembers(previous_function_similarity, f, g) =>
    Remembered(previous_function_similarity, f, g) = FunctionSimilarity(f, g, f.code, g.code)

CodeIsOwn(known) ==
  /\ \A e \in HasCode(apiv1) : CodeKey("apiv1", e) \in DOMAIN known => CodeOf(known, "apiv1", e) = e.code
  /\ \A e \in HasCode(apiv2) : CodeKey("apiv2", e) \in DOMAIN known => CodeOf(known, "apiv2", e) = e.code

DifferIInv ==
  VersionsAreInputs /\ ParametersAreOwn /\ FunctionsAreOwn /\ CodeIsOwn(formatted_code) /\ AnswerIsOwn
-----------------------------------------------------------------------------
LEMMA Unique ==
  ASSUME VersionsAreInputs
  PROVE  /\ \A p, q \in apiv1.parameters : Id(p) = Id(q) => p = q
         /\ \A p, q \in apiv2.parameters : Id(p) = Id(q) => p = q
         /\ \A e, f \in HasCode(apiv1) : Id(e) = Id(f) => e = f
         /\ \A e, f \in HasCode(apiv2) : Id(e) = Id(f) => e = f
<1>1. PICK in \in Inputs : apiv1 = in.v1 /\ apiv2 = in.v2
  BY DEF VersionsAreInputs
<1>2. \A version \in {in.v1, in.v2} :
        /\ \A p, q \in version.parameters : Id(p) = Id(q) => p = q
        /\ \A e, f \in version.functions \cup version.classes : Id(e) = Id(f) => e = f
  BY IdsAreUnique
<1> QED
  BY <1>1, <1>2 DEF HasCode

(* Formatting the code of an element of one version.                       *)
LEMMA FormattedV1 ==
  ASSUME VersionsAreInputs, NEW known, CodeIsOwn(known), NEW e \in HasCode(apiv1)
  PROVE  LET after == Formatted(known, "apiv1", e)
         IN  /\ CodeIsOwn(after) /\ CodeKey("apiv1", e) \in DOMAIN after
             /\ DOMAIN known \subseteq DOMAIN after
<1> DEFINE key == CodeKey("apiv1", e)
           after == Formatted(known, "apiv1", e)
<1>1. CASE key \in DOMAIN known
  BY <1>1 DEF Formatted
<1>2. CASE key \notin DOMAIN known
  <2>1. after = With(known, key, e.code)
    BY <1>2 DEF Formatted
  <2>2. /\ DOMAIN after = DOMAIN known \cup {key} /\ after[key] = e.code
        /\ \A x \in DOMAIN known : x # key => after[x] = known[x]
    BY <2>1 DEF With
  <2>3. ASSUME NEW f \in HasCode(apiv1), CodeKey("apiv1", f) = key
        PROVE  f = e
    <3>1. Id(f) = Id(e)
      BY <2>3 DEF CodeKey
    <3> QED
      BY <3>1, Unique
  <2>4. \A f : CodeKey("apiv2", f) # key
    BY DEF CodeKey
  <2> HIDE DEF key, after
  <2>5. CodeIsOwn(after)
    BY <2>2, <2>3, <2>4 DEF CodeIsOwn, CodeOf
  <2> QED
    BY <2>2, <2>5 DEF key, after
<1> QED
  BY <1>1, <1>2

LEMMA FormattedV2 ==
  ASSUME VersionsAreInputs, NEW known, CodeIsOwn(known), NEW e \in HasCode(apiv2)
  PROVE  LET after == Formatted(known, "apiv2", e)
         IN  /\ CodeIsOwn(after) /\ CodeKey("apiv2", e) \in DOMAIN after
             /\ DOMAIN known \subseteq DOMAIN after
<1> DEFINE key == CodeKey("apiv2", e)
           after == Formatted(known, "apiv2", e)
<1>1. CASE key \in DOMAIN known
  BY <1>1 DEF Formatted
<1>2. CASE key \notin DOMAIN known
  <2>1. after = With(known, key, e.code)
    BY <1>2 DEF Formatted
  <2>2. /\ DOMAIN after = DOMAIN known \cup {key} /\ after[key] = e.code
        /\ \A x \in DOMAIN known : x # key => after[x] = known[x]
    BY <2>1 DEF With
  <2>3. ASSUME NEW f \in HasCode(apiv2), CodeKey("apiv2", f) = key
        PROVE  f = e
    <3>1. Id(f) = Id(e)
      BY <2>3 DEF CodeKey
    <3> QED
      BY <3>1, Unique
  <2>4. \A f : CodeKey("apiv1", f) # key
    BY DEF CodeKey
  <2> HIDE DEF key, after
  <2>5. CodeIsOwn(after)
    BY <2>2, <2>3, <2>4 DEF CodeIsOwn, CodeOf
  <2> QED
    BY <2>2, <2>5 DEF key, after
<1> QED
  BY <1>1, <1>2

LEMMA FormattedBothIsOwn ==
  ASSUME VersionsAreInputs, CodeIsOwn(formatted_code), NEW e \in HasCode(apiv1), NEW f \in HasCode(apiv2)
  PROVE  LET after == FormattedBoth(e, f)
         IN  CodeIsOwn(after) /\ CodeOf(after, "apiv1", e) = e.code /\ CodeOf(after, "apiv2", f) = f.code
<1> DEFINE half == Formatted(formatted_code, "apiv1", e)
           after == Formatted(half, "apiv2", f)
<1>1. CodeIsOwn(half) /\ CodeKey("apiv1", e) \in DOMAIN half
  BY FormattedV1
<1> HIDE DEF half
<1>2. CodeIsOwn(after) /\ CodeKey("apiv2", f) \in DOMAIN after /\ DOMAIN half \subseteq DOMAIN after
  BY <1>1, FormattedV2
<1> HIDE DEF after
<1>3. CodeOf(after, "apiv1", e) = e.code /\ CodeOf(after, "apiv2", f) = f.code
  BY <1>1, <1>2 DEF CodeIsOwn
<1> QED
  BY <1>2, <1>3 DEF FormattedBoth, half, after
-----------------------------------------------------------------------------
LEMMA DifferInitIInv ==
  ASSUME DifferInit
  PROVE  DifferIInv
<1>1. /\ VersionsAreInputs /\ answer.kind = "none"
      /\ DOMAIN previous_parameter_similarity = {} /\ DOMAIN previous_function_similarity = {}
      /\ DOMAIN formatted_code = {}
  BY DEF DifferInit, VersionsAreInputs, NothingYet
<1> QED
  BY <1>1 DEF DifferIInv, ParametersAreOwn, FunctionsAreOwn, CodeIsOwn, AnswerIsOwn, Remembers

LEMMA ParameterStep ==
  ASSUME DifferIInv, NEW p \in apiv1.parameters, NEW q \in apiv2.parameters, ComputeParameterSimilarity(p, q)
  PROVE  DifferIInv'
<1> DEFINE known == previous_parameter_similarity
           key == <<Id(p), Id(q)>>
           value == IF Remembers(known, p, q) THEN Remembered(known, p, q) ELSE ParameterSimilarity(p, q)
<1>1. /\ previous_parameter_similarity' = With(known, key, value) /\ Answer("parameters", p, q, value)
      /\ apiv1' = apiv1 /\ apiv2' = apiv2 /\ formatted_code' = formatted_code
      /\ previous_function_similarity' = previous_function_similarity
  BY DEF ComputeParameterSimilarity, api
<1>2. value = ParameterSimilarity(p, q)
  BY DEF DifferIInv, ParametersAreOwn
<1> HIDE DEF value, key
<1>3. LET after == previous_parameter_similarity'
      IN  /\ DOMAIN after = DOMAIN known \cup {key} /\ after[key] = value
          /\ \A x \in DOMAIN known : x # key => after[x] = known[x]
  BY <1>1 DEF With
<1>4. AnswerIsOwn'
  BY <1>1, <1>2 DEF Answer, AnswerIsOwn, Fresh
<1>5. ParametersAreOwn'
  <2> SUFFICES ASSUME NEW r \in apiv1.parameters, NEW t \in apiv2.parameters,
                      <<Id(r), Id(t)>> \in DOMAIN previous_parameter_similarity'
               PROVE  previous_parameter_similarity'[<<Id(r), Id(t)>>] = ParameterSimilarity(r, t)
    BY <1>1 DEF ParametersAreOwn, Remembers, Remembered
  <2> DEFINE other == <<Id(r), Id(t)>>
  <2>1. CASE other = key
    <3>1. Id(r) = Id(p) /\ Id(t) = Id(q)
      BY <2>1 DEF key
    <3>2. r = p /\ t = q
      BY <3>1, Unique DEF DifferIInv
    <3> QED
      BY <1>2, <1>3, <2>1, <3>2
  <2>2. CASE other # key
    <3>1. other \in DOMAIN known /\ previous_parameter_similarity'[other] = known[other]
      BY <1>3, <2>2
    <3> QED
      BY <3>1 DEF DifferIInv, ParametersAreOwn, Remembers, Remembered
  <2> QED
    BY <2>1, <2>2
<1> QED
  BY <1>1, <1>4, <1>5 DEF DifferIInv, VersionsAreInputs, FunctionsAreOwn, CodeIsOwn, HasCode

LEMMA RecallStep ==
  ASSUME DifferIInv, NEW f \in apiv1.functions, NEW g \in apiv2.functions, RecallFunctionSimilarity(f, g)
  PROVE  DifferIInv'
<1>1. /\ Answer("functions", f, g, Remembered(previous_function_similarity, f, g))
      /\ Remembers(previous_function_similarity, f, g)
      /\ apiv1' = apiv1 /\ apiv2' = apiv2 /\ formatted_code' = formatted_code
      /\ previous_function_similarity' = previous_function_similarity
      /\ previous_parameter_similarity' = previous_parameter_similarity
  BY DEF RecallFunctionSimilarity, api
<1>2. Remembered(previous_function_similarity, f, g) = FunctionSimilarity(f, g, f.code, g.code)
  BY <1>1 DEF DifferIInv, FunctionsAreOwn
<1>3. AnswerIsOwn'
  BY <1>1, <1>2 DEF Answer, AnswerIsOwn, Fresh
<1> QED
  BY <1>1, <1>3 DEF DifferIInv, VersionsAreInputs, ParametersAreOwn, FunctionsAreOwn, CodeIsOwn, HasCode

LEMMA FunctionStep ==
  ASSUME DifferIInv, NEW f \in apiv1.functions, NEW g \in apiv2.functions, ComputeFunctionSimilarity(f, g)
  PROVE  DifferIInv'
<1> DEFINE known == previous_function_similarity
           key == <<Id(f), Id(g)>>
           value == FunctionSimilarity(f, g, f.code, g.code)
<1>1. f \in HasCode(apiv1) /\ g \in HasCode(apiv2)
  BY DEF HasCode
<1>2. formatted_code' = FormattedBoth(f, g)
  BY DEF ComputeFunctionSimilarity
<1>3. /\ CodeIsOwn(formatted_code')
      /\ CodeOf(formatted_code', "apiv1", f) = f.code /\ CodeOf(formatted_code', "apiv2", g) = g.code
  BY <1>1, <1>2, FormattedBothIsOwn DEF DifferIInv
<1>4. /\ previous_function_similarity' = With(known, key, value) /\ Answer("functions", f, g, value)
      /\ apiv1' = apiv1 /\ apiv2' = apiv2
      /\ previous_parameter_similarity' = previous_parameter_similarity
  BY <1>3 DEF ComputeFunctionSimilarity, api
<1>5. AnswerIsOwn'
  BY <1>4 DEF Answer, AnswerIsOwn, Fresh
<1> HIDE DEF value, key
<1>6. LET after == previous_function_similarity'
      IN  /\ DOMAIN after = DOMAIN known \cup {key} /\ after[key] = value
          /\ \A x \in DOMAIN known : x # key => after[x] = known[x]
  BY <1>4 DEF With
<1>7. FunctionsAreOwn'
  <2> SUFFICES ASSUME NEW r \in apiv1.functions, NEW t \in apiv2.functions,
                      <<Id(r), Id(t)>> \in DOMAIN previous_function_similarity'
               PROVE  previous_function_similarity'[<<Id(r), Id(t)>>] = FunctionSimilarity(r, t, r.code, t.code)
    BY <1>4 DEF FunctionsAreOwn, Remembers, Remembered
  <2> DEFINE other == <<Id(r), Id(t)>>
  <2>1. CASE other = key
    <3>1. Id(r) = Id(f) /\ Id(t) = Id(g)
      BY <2>1 DEF key
    <3>2. r = f /\ t = g
      BY <1>1, <3>1, Unique DEF DifferIInv, HasCode
    <3> QED
      BY <1>6, <2>1, <3>2 DEF value
  <2>2. CASE other # key
    <3>1. other \in DOMAIN known /\ previous_function_similarity'[other] = known[other]
      BY <1>6, <2>2
    <3> QED
      BY <3>1 DEF DifferIInv, FunctionsAreOwn, Remembers, Remembered
  <2> QED
    BY <2>1, <2>2
<1> QED
  BY <1>3, <1>4, <1>5, <1>7 DEF DifferIInv, VersionsAreInputs, ParametersAreOwn, CodeIsOwn, HasCode

LEMMA ClassStep ==
  ASSUME DifferIInv, NEW c \in apiv1.classes, NEW d \in apiv2.classes, ComputeClassSimilarity(c, d)
  PROVE  DifferIInv'
<1>1. c \in HasCode(apiv1) /\ d \in HasCode(apiv2)
  BY DEF HasCode
<1>2. formatted_code' = FormattedBoth(c, d)
  BY DEF ComputeClassSimilarity
<1>3. /\ CodeIsOwn(formatted_code')
      /\ CodeOf(formatted_code', "apiv1", c) = c.code /\ CodeOf(formatted_code', "apiv2", d) = d.code
  BY <1>1, <1>2, FormattedBothIsOwn DEF DifferIInv
<1>4. /\ Answer("classes", c, d, ClassSimilarity(c, d, c.code, d.code))
      /\ apiv1' = apiv1 /\ apiv2' = apiv2
      /\ previous_parameter_similarity' = previous_parameter_similarity
      /\ previous_function_similarity' = previous_function_similarity
  BY <1>3 DEF ComputeClassSimilarity, api
<1>5. AnswerIsOwn'
  BY <1>4 DEF Answer, AnswerIsOwn, Fresh
<1> QED
  BY <1>3, <1>4, <1>5 DEF DifferIInv, VersionsAreInputs, ParametersAreOwn, FunctionsAreOwn, CodeIsOwn, HasCode

(* What is remembered plays no part for attributes and results.            *)
LEMMA OtherSteps ==
  ASSUME DifferIInv, UNCHANGED <<api, previous_parameter_similarity, previous_function_similarity, formatted_code>>,
         \/ UNCHANGED answer
         \/ \E a, b : Answer("attributes", a, b, AttributeSimilarity(a, b))
         \/ \E a, b : Answer("results", a, b, ResultSimilarity(a, b))
  PROVE  DifferIInv'
<1>1. AnswerIsOwn'
  <2>1. CASE UNCHANGED answer
    BY <2>1 DEF DifferIInv, AnswerIsOwn
  <2>2. ASSUME NEW a, NEW b, Answer("attributes", a, b, AttributeSimilarity(a, b))
        PROVE  AnswerIsOwn'
    BY <2>2 DEF Answer, AnswerIsOwn, Fresh
  <2>3. ASSUME NEW a, NEW b, Answer("results", a, b, ResultSimilarity(a, b))
        PROVE  AnswerIsOwn'
    BY <2>3 DEF Answer, AnswerIsOwn, Fresh
  <2> QED
    BY <2>1, <2>2, <2>3
<1> QED
  BY <1>1 DEF api, DifferIInv, VersionsAreInputs, ParametersAreOwn, FunctionsAreOwn, CodeIsOwn, HasCode

(* No question that is asked makes what is remembered wrong for others.    *)
THEOREM DifferStep == DifferIInv /\ [DifferNext]_differVars => DifferIInv'
<1> SUFFICES ASSUME DifferIInv, [DifferNext]_differVars PROVE DifferIInv'
  OBVIOUS
<1>1. ASSUME NEW p \in apiv1.parameters, NEW q \in apiv2.parameters, ComputeParameterSimilarity(p, q)
      PROVE  DifferIInv'
  BY <1>1, ParameterStep
<1>2. ASSUME NEW f \in apiv1.functions, NEW g \in apiv2.functions, RecallFunctionSimilarity(f, g)
      PROVE  DifferIInv'
  BY <1>2, RecallStep
<1>3. ASSUME NEW f \in apiv1.functions, NEW g \in apiv2.functions, ComputeFunctionSimilarity(f, g)
      PROVE  DifferIInv'
  BY <1>3, FunctionStep
<1>4. ASSUME NEW c \in apiv1.classes, NEW d \in apiv2.classes, ComputeClassSimilarity(c, d)
      PROVE  DifferIInv'
  BY <1>4, ClassStep
<1>5. ASSUME NEW a \in apiv1.attributes, NEW b \in apiv2.attributes, ComputeAttributeSimilarity(a, b)
      PROVE  DifferIInv'
  BY <1>5, OtherSteps DEF ComputeAttributeSimilarity
<1>6. ASSUME NEW r \in apiv1.results, NEW s \in apiv2.results, ComputeResultSimilarity(r, s)
      PROVE  DifferIInv'
  BY <1>6, OtherSteps DEF ComputeResultSimilarity
<1>7. CASE UNCHANGED differVars
  BY <1>7, OtherSteps DEF differVars
<1> QED
  BY <1>1, <1>2, <1>3, <1>4, <1>5, <1>6, <1>7 DEF DifferNext

(* Whatever was asked before, and in whatever order: the similarity that   *)
(* compute_..._similarity returns is the one of the two elements it is     *)
(* asked about, never one remembered for others (_differ.py 402 to 539).   *)
THEOREM AnswersAreOwn == DifferSpec => []AnswerIsOwn
<1>1. DifferInit => DifferIInv
  BY DifferInitIInv
<1>2. DifferIInv => AnswerIsOwn
  BY DEF DifferIInv
<1> QED
  BY <1>1, <1>2, DifferStep, PTL DEF DifferSpec
-----------------------------------------------------------------------------
(* Edits and their number.                                                 *)
Edit == {"+", "-", "o", "="}

LEMMA FiniteUpTo ==
  ASSUME NEW n \in Nat, NEW S \in SUBSET (1..n)
  PROVE  IsFiniteSet(S) /\ Cardinality(S) \in Nat
<1>1. IsFiniteSet(1..n)
  BY FS_Interval
<1>2. IsFiniteSet(S)
  BY <1>1, FS_Subset
<1> QED BY <1>2, FS_CardinalityType

LEMMA CostFacts ==
  ASSUME NEW e \in Seq(Edit)
  PROVE  CostOf(e) \in Nat /\ (CostOf(e) = 0 => \A i \in 1..Len(e) : e[i] = "=")
<1>1. PICK S : S = {i \in DOMAIN e : e[i] # "="}
  OBVIOUS
<1>2. Len(e) \in Nat /\ DOMAIN e = 1..Len(e) /\ S \subseteq 1..Len(e)
  BY <1>1
<1>3. IsFiniteSet(S) /\ Cardinality(S) \in Nat
  BY <1>2, FiniteUpTo
<1>4. Cardinality(S) \in Nat /\ (Cardinality(S) = 0 => S = {})
  BY <1>3, FS_EmptySet
<1>5. CostOf(e) = Cardinality(S)
  BY <1>1 DEF CostOf
<1> QED BY <1>1, <1>2, <1>4, <1>5

LEMMA CostOfMore ==
  ASSUME NEW e \in Seq(Edit), NEW x \in Edit
  PROVE  /\ Append(e, x) \in Seq(Edit) /\ Len(Append(e, x)) = Len(e) + 1
         /\ CostOf(Append(e, x)) = CostOf(e) + (IF x = "=" THEN 0 ELSE 1)
<1>1. PICK n \in Nat : n = Len(e)
  OBVIOUS
<1> DEFINE f == Append(e, x)
<1>2. f \in Seq(Edit)
  OBVIOUS
<1>3. /\ Len(f) = n + 1 /\ DOMAIN e = 1..n /\ DOMAIN f = 1..n + 1
      /\ (\A i \in 1..n : f[i] = e[i]) /\ f[n + 1] = x
  BY <1>1
<1> HIDE DEF f
<1>4. PICK S : S = {i \in DOMAIN e : e[i] # "="}
  OBVIOUS
<1>5. PICK T : T = {i \in DOMAIN f : f[i] # "="}
  OBVIOUS
<1>6. S \subseteq 1..n /\ n + 1 \notin S /\ IsFiniteSet(S)
  <2>1. S \subseteq 1..n
    BY <1>3, <1>4
  <2>2. IsFiniteSet(S)
    BY <1>1, <2>1, FiniteUpTo
  <2> QED BY <1>1, <2>1, <2>2
<1>7. CASE x = "="
  <2>1. T = S
    BY <1>3, <1>4, <1>5, <1>7
  <2>2. CostOf(f) = CostOf(e)
    BY <1>4, <1>5, <2>1, Zenon DEF CostOf
  <2> QED BY <1>1, <1>2, <1>3, <1>7, <2>2, CostFacts DEF f
<1>8. CASE x # "="
  <2>1. T = S \cup {n + 1}
    BY <1>3, <1>4, <1>5, <1>8
  <2>2. Cardinality(T) = Cardinality(S) + 1
    BY <1>6, <2>1, FS_AddElement
  <2>3. CostOf(f) = Cardinality(T) /\ CostOf(e) = Cardinality(S)
    BY <1>4, <1>5, Zenon DEF CostOf
  <2> QED BY <1>1, <1>2, <1>3, <1>8, <2>2, <2>3 DEF f
<1> QED BY <1>7, <1>8

(* The edges of the table.                                                 *)
LEMMA CostOfSame ==
  ASSUME NEW n \in Nat, NEW x \in Edit \ {"="}
  PROVE  /\ [k \in 1..n |-> x] \in Seq(Edit) /\ Len([k \in 1..n |-> x]) = n
         /\ CostOf([k \in 1..n |-> x]) = n
<1>1. PICK e : e = [k \in 1..n |-> x]
  OBVIOUS
<1>2. e \in Seq(Edit) /\ Len(e) = n /\ DOMAIN e = 1..n
  BY <1>1
<1>3. {i \in DOMAIN e : e[i] # "="} = 1..n
  BY <1>1, <1>2
<1>4. CostOf(e) = Cardinality(1..n)
  BY <1>3, Zenon DEF CostOf
<1>5. Cardinality(1..n) = n
  BY FS_Interval
<1> QED BY <1>1, <1>2, <1>4, <1>5

OneMore(e, above, left, corner) ==
  /\ e \in Seq(Edit) /\ CostOf(e) <= CostOf(above) + 1
  /\ CostOf(e) <= CostOf(left) + 1 /\ CostOf(e) <= CostOf(corner) + 1
  /\ \E old \in {above, left, corner} : CostOf(e) = CostOf(old) + 1 /\ Len(e) = Len(old) + 1

LEMMA NextEditFacts ==
  ASSUME NEW above \in Seq(Edit), NEW left \in Seq(Edit), NEW corner \in Seq(Edit),
         NEW e, e = NextEdit(above, left, corner)
  PROVE  OneMore(e, above, left, corner)
<1>1. PICK T : T = {CostOf(above), CostOf(left), CostOf(corner)}
  OBVIOUS
<1>2. T \in SUBSET Nat /\ T # {}
  BY <1>1, CostFacts
<1>3. \E x \in T : \A y \in T : x <= y
  BY <1>2, Least
<1>4. PICK least : least = LeastOf(T)
  OBVIOUS
<1>5. least \in T /\ \A y \in T : least <= y
  BY <1>3, <1>4 DEF LeastOf
<1>6. e = IF CostOf(above) = least THEN Append(above, "+")
          ELSE IF CostOf(left) = least THEN Append(left, "-")
          ELSE Append(corner, "o")
  BY <1>1, <1>4 DEF NextEdit
<1>7. \A old \in Seq(Edit), x \in {"+", "-", "o"} :
        /\ Append(old, x) \in Seq(Edit) /\ Len(Append(old, x)) = Len(old) + 1
        /\ CostOf(Append(old, x)) = CostOf(old) + 1
  BY CostOfMore DEF Edit
<1>8. CostOf(above) \in Nat /\ CostOf(left) \in Nat /\ CostOf(corner) \in Nat
  BY CostFacts
<1>9. least <= CostOf(above) /\ least <= CostOf(left) /\ least <= CostOf(corner)
  BY <1>1, <1>5
<1>10. CASE CostOf(above) = least
  BY <1>6, <1>7, <1>8, <1>9, <1>10 DEF OneMore
<1>11. CASE CostOf(above) # least /\ CostOf(left) = least
  BY <1>6, <1>7, <1>8, <1>9, <1>11 DEF OneMore
<1>12. CASE CostOf(above) # least /\ CostOf(left) # least
  <2>1. CostOf(corner) = least
    BY <1>1, <1>5, <1>12
  <2> QED BY <1>6, <1>7, <1>8, <1>9, <1>12, <2>1 DEF OneMore
<1> QED BY <1>10, <1>11, <1>12
-----------------------------------------------------------------------------
(* Alignments of the first i elements of s with the first j elements of t. *)
Lined(i, j) ==
  {A \in SUBSET ((1..i) \X (1..j)) :
     \A p, q \in A : p # q => p[1] # q[1] /\ p[2] # q[2] /\ (p[1] < q[1] <=> p[2] < q[2])}

Differing(s, t, A) == {p \in A : s[p[1]] # t[p[2]]}

Gap(s, t, A, i, j) == i + j - 2 * Cardinality(A) + Cardinality(Differing(s, t, A))

LEMMA LinedFacts ==
  ASSUME NEW i \in Nat, NEW j \in Nat, NEW A \in Lined(i, j), NEW s, NEW t
  PROVE  /\ IsFiniteSet(A) /\ Cardinality(A) \in Nat
         /\ IsFiniteSet(Differing(s, t, A)) /\ Cardinality(Differing(s, t, A)) \in Nat
         /\ Gap(s, t, A, i, j) \in Int
<1>1. IsFiniteSet(1..i) /\ IsFiniteSet(1..j)
  BY FS_Interval
<1>2. IsFiniteSet((1..i) \X (1..j))
  BY <1>1, FS_Product
<1>3. A \in SUBSET ((1..i) \X (1..j)) /\ Differing(s, t, A) \in SUBSET A
  BY DEF Lined, Differing
<1>4. IsFiniteSet(A)
  BY <1>2, <1>3, FS_Subset
<1>5. IsFiniteSet(Differing(s, t, A))
  BY <1>3, <1>4, FS_Subset
<1>6. Cardinality(A) \in Nat /\ Cardinality(Differing(s, t, A)) \in Nat
  BY <1>4, <1>5, FS_CardinalityType
<1>7. Gap(s, t, A, i, j) \in Int
  BY <1>6 DEF Gap
<1> QED BY <1>4, <1>5, <1>6, <1>7

(* A line more or less.                                                    *)
LEMMA OneLine ==
  ASSUME NEW i \in Nat, NEW j \in Nat, NEW A \in Lined(i, j), NEW s, NEW t,
         NEW p, p \notin A, NEW B, B = A \cup {p}
  PROVE  /\ Cardinality(B) = Cardinality(A) + 1
         /\ Cardinality(Differing(s, t, B)) =
              Cardinality(Differing(s, t, A)) + (IF s[p[1]] = t[p[2]] THEN 0 ELSE 1)
<1>1. /\ IsFiniteSet(A) /\ IsFiniteSet(Differing(s, t, A)) /\ Cardinality(Differing(s, t, A)) \in Nat
  BY LinedFacts
<1>2. Cardinality(B) = Cardinality(A) + 1
  BY <1>1, FS_AddElement
<1>3. PICK D : D = Differing(s, t, A)
  OBVIOUS
<1>4. p \notin D
  BY <1>3 DEF Differing
<1>5. CASE s[p[1]] = t[p[2]]
  <2>1. Differing(s, t, B) = D
    BY <1>3, <1>5 DEF Differing
  <2> QED BY <1>1, <1>2, <1>3, <1>5, <2>1
<1>6. CASE s[p[1]] # t[p[2]]
  <2>1. Differing(s, t, B) = D \cup {p}
    BY <1>3, <1>6 DEF Differing
  <2>2. Cardinality(D \cup {p}) = Cardinality(D) + 1
    BY <1>1, <1>3, <1>4, FS_AddElement
  <2> QED BY <1>2, <1>3, <1>6, <2>1, <2>2
<1> QED BY <1>5, <1>6

(* Larger and smaller tables.                                              *)
LEMMA NoLineAtEnd ==
  ASSUME NEW i \in Nat \ {0}, NEW j \in Nat, NEW A \in Lined(i, j), \A p \in A : p[1] # i, NEW s, NEW t
  PROVE  A \in Lined(i - 1, j) /\ Gap(s, t, A, i, j) = Gap(s, t, A, i - 1, j) + 1
<1>1. \A p \in A : p \in (1..i - 1) \X (1..j)
  BY DEF Lined
<1>2. A \in Lined(i - 1, j)
  BY <1>1 DEF Lined
<1>3. Cardinality(A) \in Nat /\ Cardinality(Differing(s, t, A)) \in Nat
  BY LinedFacts
<1> QED BY <1>2, <1>3 DEF Gap

LEMMA NoLineBelow ==
  ASSUME NEW i \in Nat, NEW j \in Nat \ {0}, NEW A \in Lined(i, j), \A p \in A : p[2] # j, NEW s, NEW t
  PROVE  A \in Lined(i, j - 1) /\ Gap(s, t, A, i, j) = Gap(s, t, A, i, j - 1) + 1
<1>1. \A p \in A : p \in (1..i) \X (1..j - 1)
  BY DEF Lined
<1>2. A \in Lined(i, j - 1)
  BY <1>1 DEF Lined
<1>3. Cardinality(A) \in Nat /\ Cardinality(Differing(s, t, A)) \in Nat
  BY LinedFacts
<1> QED BY <1>2, <1>3 DEF Gap

LEMMA Wider ==
  ASSUME NEW i \in Nat \ {0}, NEW j \in Nat, NEW A \in Lined(i - 1, j), NEW s, NEW t
  PROVE  A \in Lined(i, j) /\ Gap(s, t, A, i, j) = Gap(s, t, A, i - 1, j) + 1
<1>1. A \in Lined(i, j) /\ \A p \in A : p[1] # i
  BY DEF Lined
<1> QED BY <1>1, NoLineAtEnd

LEMMA Longer ==
  ASSUME NEW i \in Nat, NEW j \in Nat \ {0}, NEW A \in Lined(i, j - 1), NEW s, NEW t
  PROVE  A \in Lined(i, j) /\ Gap(s, t, A, i, j) = Gap(s, t, A, i, j - 1) + 1
<1>1. A \in Lined(i, j) /\ \A p \in A : p[2] # j
  BY DEF Lined
<1> QED BY <1>1, NoLineBelow
(* A line between the last ones.                                           *)
LEMMA LineMore ==
  ASSUME NEW i \in Nat \ {0}, NEW j \in Nat \ {0}, NEW A \in Lined(i - 1, j - 1), NEW s, NEW t
  PROVE  \E B \in Lined(i, j) :
           Gap(s, t, B, i, j) = Gap(s, t, A, i - 1, j - 1) + (IF s[i] = t[j] THEN 0 ELSE 1)
<1>1. PICK p : p = <<i, j>>
  OBVIOUS
<1>2. PICK B : B = A \cup {p}
  OBVIOUS
<1>3. p \notin A /\ p[1] = i /\ p[2] = j /\ i - 1 \in Nat /\ j - 1 \in Nat
  BY <1>1 DEF Lined
<1>4. B \in Lined(i, j)
  BY <1>1, <1>2 DEF Lined
<1>5. /\ Cardinality(B) = Cardinality(A) + 1
      /\ Cardinality(Differing(s, t, B)) =
           Cardinality(Differing(s, t, A)) + (IF s[p[1]] = t[p[2]] THEN 0 ELSE 1)
  BY <1>2, <1>3, OneLine
<1>6. Cardinality(A) \in Nat /\ Cardinality(Differing(s, t, A)) \in Nat
  BY <1>3, LinedFacts
<1>7. Gap(s, t, B, i, j) = Gap(s, t, A, i - 1, j - 1) + (IF s[i] = t[j] THEN 0 ELSE 1)
  BY <1>3, <1>5, <1>6 DEF Gap
<1> QED BY <1>4, <1>7

LEMMA LineLess ==
  ASSUME NEW i \in Nat \ {0}, NEW j \in Nat \ {0}, NEW A \in Lined(i, j), <<i, j>> \in A, NEW s, NEW t
  PROVE  \E B \in Lined(i - 1, j - 1) :
           Gap(s, t, A, i, j) = Gap(s, t, B, i - 1, j - 1) + (IF s[i] = t[j] THEN 0 ELSE 1)
<1>1. PICK p : p = <<i, j>>
  OBVIOUS
<1>2. PICK B : B = A \ {p}
  OBVIOUS
<1>3. p \notin B /\ p[1] = i /\ p[2] = j /\ A = B \cup {p} /\ i - 1 \in Nat /\ j - 1 \in Nat
  BY <1>1, <1>2
<1>4. \A q \in B : q[1] # i /\ q[2] # j
  BY <1>1, <1>2 DEF Lined
<1>5. \A q \in B : q \in (1..i - 1) \X (1..j - 1)
  BY <1>2, <1>4 DEF Lined
<1>6. B \in Lined(i - 1, j - 1)
  BY <1>2, <1>5 DEF Lined
<1>7. /\ Cardinality(A) = Cardinality(B) + 1
      /\ Cardinality(Differing(s, t, A)) =
           Cardinality(Differing(s, t, B)) + (IF s[p[1]] = t[p[2]] THEN 0 ELSE 1)
  BY <1>3, <1>6, OneLine
<1>8. Cardinality(B) \in Nat /\ Cardinality(Differing(s, t, B)) \in Nat
  BY <1>3, <1>6, LinedFacts
<1>9. Gap(s, t, A, i, j) = Gap(s, t, B, i - 1, j - 1) + (IF s[i] = t[j] THEN 0 ELSE 1)
  BY <1>3, <1>7, <1>8 DEF Gap
<1> QED BY <1>6, <1>9

(* Lines that end at the last elements do not cross.                       *)
LEMMA LastLine ==
  ASSUME NEW i \in Nat \ {0}, NEW j \in Nat \ {0}, NEW A \in Lined(i, j), <<i, j>> \notin A
  PROVE  (\A p \in A : p[1] # i) \/ (\A p \in A : p[2] # j)
<1> SUFFICES ASSUME NEW p \in A, p[1] = i, NEW q \in A, q[2] = j
             PROVE  FALSE
  OBVIOUS
<1>1. p \in (1..i) \X (1..j) /\ q \in (1..i) \X (1..j)
  BY DEF Lined
<1>2. p # q
  BY <1>1
<1>3. p[2] # q[2] /\ (p[1] < q[1] <=> p[2] < q[2])
  BY <1>2 DEF Lined
<1> QED BY <1>1, <1>3

(* One element less costs one edit at most.                                *)
LEMMA OneShorter ==
  ASSUME NEW i \in Nat \ {0}, NEW j \in Nat, NEW A \in Lined(i, j), NEW s, NEW t
  PROVE  \E B \in Lined(i - 1, j) : Gap(s, t, B, i - 1, j) <= Gap(s, t, A, i, j) + 1
<1>1. CASE \A p \in A : p[1] # i
  <2>1. A \in Lined(i - 1, j) /\ Gap(s, t, A, i, j) = Gap(s, t, A, i - 1, j) + 1
    BY <1>1, NoLineAtEnd
  <2>2. Gap(s, t, A, i - 1, j) \in Int
    BY <2>1, LinedFacts
  <2> QED BY <2>1, <2>2
<1>2. ASSUME NEW p \in A, p[1] = i
      PROVE  \E B \in Lined(i - 1, j) : Gap(s, t, B, i - 1, j) <= Gap(s, t, A, i, j) + 1
  <2>1. PICK B : B = A \ {p}
    OBVIOUS
  <2>2. p \notin B /\ B \cup {p} = A
    BY <2>1
  <2>3. \A q \in B : q[1] # i
    BY <1>2, <2>1 DEF Lined
  <2>4. \A q \in B : q \in (1..i - 1) \X (1..j)
    BY <2>1, <2>3 DEF Lined
  <2>5. B \in Lined(i - 1, j)
    BY <2>1, <2>4 DEF Lined
  <2>6. /\ Cardinality(A) = Cardinality(B) + 1
        /\ Cardinality(Differing(s, t, A)) =
           Cardinality(Differing(s, t, B)) + (IF s[p[1]] = t[p[2]] THEN 0 ELSE 1)
    BY <2>2, <2>5, OneLine
  <2>7. Cardinality(B) \in Nat /\ Cardinality(Differing(s, t, B)) \in Nat
    BY <2>5, LinedFacts
  <2>8. Gap(s, t, B, i - 1, j) <= Gap(s, t, A, i, j) + 1
    BY <2>6, <2>7 DEF Gap
  <2> QED BY <2>5, <2>8
<1> QED BY <1>1, <1>2

LEMMA OneLower ==
  ASSUME NEW i \in Nat, NEW j \in Nat \ {0}, NEW A \in Lined(i, j), NEW s, NEW t
  PROVE  \E B \in Lined(i, j - 1) : Gap(s, t, B, i, j - 1) <= Gap(s, t, A, i, j) + 1
<1>1. CASE \A p \in A : p[2] # j
  <2>1. A \in Lined(i, j - 1) /\ Gap(s, t, A, i, j) = Gap(s, t, A, i, j - 1) + 1
    BY <1>1, NoLineBelow
  <2>2. Gap(s, t, A, i, j - 1) \in Int
    BY <2>1, LinedFacts
  <2> QED BY <2>1, <2>2
<1>2. ASSUME NEW p \in A, p[2] = j
      PROVE  \E B \in Lined(i, j - 1) : Gap(s, t, B, i, j - 1) <= Gap(s, t, A, i, j) + 1
  <2>1. PICK B : B = A \ {p}
    OBVIOUS
  <2>2. p \notin B /\ B \cup {p} = A
    BY <2>1
  <2>3. \A q \in B : q[2] # j
    BY <1>2, <2>1 DEF Lined
  <2>4. \A q \in B : q \in (1..i) \X (1..j - 1)
    BY <2>1, <2>3 DEF Lined
  <2>5. B \in Lined(i, j - 1)
    BY <2>1, <2>4 DEF Lined
  <2>6. /\ Cardinality(A) = Cardinality(B) + 1
        /\ Cardinality(Differing(s, t, A)) =
           Cardinality(Differing(s, t, B)) + (IF s[p[1]] = t[p[2]] THEN 0 ELSE 1)
    BY <2>2, <2>5, OneLine
  <2>7. Cardinality(B) \in Nat /\ Cardinality(Differing(s, t, B)) \in Nat
    BY <2>5, LinedFacts
  <2>8. Gap(s, t, B, i, j - 1) <= Gap(s, t, A, i, j) + 1
    BY <2>6, <2>7 DEF Gap
  <2> QED BY <2>5, <2>8
<1> QED BY <1>1, <1>2
-----------------------------------------------------------------------------
(* A cell of the table has a way from the beginning of s to the beginning  *)
(* of t, of which there is none with fewer edits.                          *)
NoFewer(s, t, i, j, n) == \A A \in Lined(i, j) : n <= Gap(s, t, A, i, j)
Reached(s, t, i, j, n) == \E A \in Lined(i, j) : Gap(s, t, A, i, j) = n
Alike(s, t, i, j) == i = j /\ \A k \in 1..i : s[k] = t[k]

IsShortest(e, s, t, i, j) ==
  /\ e \in Seq(Edit) /\ Len(e) <= i + j
  /\ NoFewer(s, t, i, j, CostOf(e)) /\ Reached(s, t, i, j, CostOf(e))
  /\ CostOf(e) = 0 => Alike(s, t, i, j)

LEMMA EdgeIsShortest ==
  ASSUME NEW i \in Nat, NEW j \in Nat, i = 0 \/ j = 0, NEW x \in Edit \ {"="}, NEW s, NEW t
  PROVE  IsShortest([k \in 1..i + j |-> x], s, t, i, j)
<1>1. PICK e : e = [k \in 1..i + j |-> x]
  OBVIOUS
<1>2. e \in Seq(Edit) /\ Len(e) = i + j /\ CostOf(e) = i + j
  <2>1. PICK n \in Nat : n = i + j
    OBVIOUS
  <2>2. e = [k \in 1..n |-> x]
    BY <1>1, <2>1
  <2> QED BY <2>1, <2>2, CostOfSame
<1>3. Lined(i, j) = {{}}
  <2>1. (1..i) \X (1..j) = {}
    OBVIOUS
  <2> QED BY <2>1 DEF Lined
<1>4. Cardinality({}) = 0 /\ Cardinality(Differing(s, t, {})) = 0
  <2>1. Differing(s, t, {}) = {}
    BY DEF Differing
  <2> QED BY <2>1, FS_EmptySet
<1>5. Gap(s, t, {}, i, j) = i + j
  BY <1>4 DEF Gap
<1>6. CostOf(e) = 0 => Alike(s, t, i, j)
  <2> SUFFICES ASSUME CostOf(e) = 0 PROVE Alike(s, t, i, j)
    OBVIOUS
  <2>1. i = 0 /\ j = 0
    BY <1>2
  <2> QED BY <2>1 DEF Alike
<1>7. NoFewer(s, t, i, j, CostOf(e)) /\ Reached(s, t, i, j, CostOf(e))
  BY <1>2, <1>3, <1>5 DEF NoFewer, Reached
<1> QED BY <1>1, <1>2, <1>6, <1>7 DEF IsShortest

LEMMA SameIsShortest ==
  ASSUME NEW i \in Nat \ {0}, NEW j \in Nat \ {0}, NEW s, NEW t, s[i] = t[j],
         NEW corner, IsShortest(corner, s, t, i - 1, j - 1)
  PROVE  IsShortest(Append(corner, "="), s, t, i, j)
<1>1. corner \in Seq(Edit) /\ Len(corner) <= i - 1 + (j - 1) /\ i - 1 \in Nat /\ j - 1 \in Nat
  BY DEF IsShortest
<1>2. PICK n \in Nat : n = CostOf(corner)
  BY <1>1, CostFacts
<1>3. PICK e \in Seq(Edit) : e = Append(corner, "=")
  BY <1>1, CostOfMore DEF Edit
<1>4. Len(e) = Len(corner) + 1 /\ CostOf(e) = n
  BY <1>1, <1>2, <1>3, CostOfMore DEF Edit
<1>5. ASSUME NEW A \in Lined(i, j) PROVE n <= Gap(s, t, A, i, j)
  <2>1. \A B \in Lined(i - 1, j - 1) : n <= Gap(s, t, B, i - 1, j - 1) /\ Gap(s, t, B, i - 1, j - 1) \in Int
    BY <1>1, <1>2, LinedFacts DEF IsShortest, NoFewer
  <2>2. CASE <<i, j>> \in A
    <3>1. PICK B \in Lined(i - 1, j - 1) : Gap(s, t, A, i, j) = Gap(s, t, B, i - 1, j - 1) + 0
      BY <2>2, LineLess
    <3> QED BY <2>1, <3>1
  <2>3. CASE \A p \in A : p[1] # i
    <3>1. A \in Lined(i - 1, j) /\ Gap(s, t, A, i, j) = Gap(s, t, A, i - 1, j) + 1
      BY <2>3, NoLineAtEnd
    <3>2. PICK B \in Lined(i - 1, j - 1) : Gap(s, t, B, i - 1, j - 1) <= Gap(s, t, A, i - 1, j) + 1
      BY <1>1, <3>1, OneLower
    <3>3. Gap(s, t, A, i - 1, j) \in Int
      BY <1>1, <3>1, LinedFacts
    <3> QED BY <2>1, <3>1, <3>2, <3>3
  <2>4. CASE \A p \in A : p[2] # j
    <3>1. A \in Lined(i, j - 1) /\ Gap(s, t, A, i, j) = Gap(s, t, A, i, j - 1) + 1
      BY <1>1, <2>4, NoLineBelow
    <3>2. PICK B \in Lined(i - 1, j - 1) : Gap(s, t, B, i - 1, j - 1) <= Gap(s, t, A, i, j - 1) + 1
      BY <1>1, <3>1, OneShorter
    <3>3. Gap(s, t, A, i, j - 1) \in Int
      BY <1>1, <3>1, LinedFacts
    <3> QED BY <2>1, <3>1, <3>2, <3>3
  <2>5. <<i, j>> \notin A => (\A p \in A : p[1] # i) \/ (\A p \in A : p[2] # j)
    BY LastLine
  <2> QED BY <2>2, <2>3, <2>4, <2>5
<1>6. Reached(s, t, i, j, n)
  <2>1. PICK A \in Lined(i - 1, j - 1) : Gap(s, t, A, i - 1, j - 1) = n
    BY <1>2 DEF IsShortest, Reached
  <2>2. PICK B \in Lined(i, j) : Gap(s, t, B, i, j) = n + 0
    BY <2>1, LineMore
  <2> QED BY <2>2 DEF Reached
<1>7. n = 0 => Alike(s, t, i, j)
  <2> SUFFICES ASSUME n = 0 PROVE Alike(s, t, i, j)
    OBVIOUS
  <2>1. i - 1 = j - 1 /\ \A k \in 1..i - 1 : s[k] = t[k]
    BY <1>2 DEF IsShortest, Alike
  <2>2. i = j /\ \A k \in 1..i : k = i \/ k \in 1..i - 1
    BY <2>1
  <2> QED BY <2>1, <2>2 DEF Alike
<1>8. Len(e) <= i + j
  BY <1>1, <1>4
<1> QED BY <1>3, <1>4, <1>5, <1>6, <1>7, <1>8 DEF IsShortest, NoFewer

LEMMA NextIsShortest ==
  ASSUME NEW i \in Nat \ {0}, NEW j \in Nat \ {0}, NEW s, NEW t, s[i] # t[j],
         NEW above, IsShortest(above, s, t, i - 1, j),
         NEW left, IsShortest(left, s, t, i, j - 1),
         NEW corner, IsShortest(corner, s, t, i - 1, j - 1)
  PROVE  IsShortest(NextEdit(above, left, corner), s, t, i, j)
<1>1. /\ above \in Seq(Edit) /\ left \in Seq(Edit) /\ corner \in Seq(Edit)
      /\ Len(above) <= i - 1 + j /\ Len(left) <= i + (j - 1) /\ Len(corner) <= i - 1 + (j - 1)
      /\ i - 1 \in Nat /\ j - 1 \in Nat
  BY DEF IsShortest
<1>2. PICK a \in Nat, l \in Nat, c \in Nat : a = CostOf(above) /\ l = CostOf(left) /\ c = CostOf(corner)
  BY <1>1, CostFacts
<1>3. PICK e : e = NextEdit(above, left, corner)
  OBVIOUS
<1>4. /\ e \in Seq(Edit) /\ CostOf(e) \in Nat
      /\ CostOf(e) <= a + 1 /\ CostOf(e) <= l + 1 /\ CostOf(e) <= c + 1
      /\ \E old \in {above, left, corner} : CostOf(e) = CostOf(old) + 1 /\ Len(e) = Len(old) + 1
  <2>1. OneMore(e, above, left, corner)
    BY <1>1, <1>3, NextEditFacts
  <2> QED BY <1>2, <2>1, CostFacts DEF OneMore
<1>5. ASSUME NEW A \in Lined(i, j) PROVE CostOf(e) <= Gap(s, t, A, i, j)
  <2>1. CASE <<i, j>> \in A
    <3>1. PICK B \in Lined(i - 1, j - 1) : Gap(s, t, A, i, j) = Gap(s, t, B, i - 1, j - 1) + 1
      BY <2>1, LineLess
    <3>2. c <= Gap(s, t, B, i - 1, j - 1) /\ Gap(s, t, B, i - 1, j - 1) \in Int
      BY <1>1, <1>2, <3>1, LinedFacts DEF IsShortest, NoFewer
    <3> QED BY <1>4, <3>1, <3>2
  <2>2. CASE \A p \in A : p[1] # i
    <3>1. A \in Lined(i - 1, j) /\ Gap(s, t, A, i, j) = Gap(s, t, A, i - 1, j) + 1
      BY <2>2, NoLineAtEnd
    <3>2. a <= Gap(s, t, A, i - 1, j) /\ Gap(s, t, A, i - 1, j) \in Int
      BY <1>1, <1>2, <3>1, LinedFacts DEF IsShortest, NoFewer
    <3> QED BY <1>4, <3>1, <3>2
  <2>3. CASE \A p \in A : p[2] # j
    <3>1. A \in Lined(i, j - 1) /\ Gap(s, t, A, i, j) = Gap(s, t, A, i, j - 1) + 1
      BY <2>3, NoLineBelow
    <3>2. l <= Gap(s, t, A, i, j - 1) /\ Gap(s, t, A, i, j - 1) \in Int
      BY <1>1, <1>2, <3>1, LinedFacts DEF IsShortest, NoFewer
    <3> QED BY <1>4, <3>1, <3>2
  <2>4. <<i, j>> \notin A => (\A p \in A : p[1] # i) \/ (\A p \in A : p[2] # j)
    BY LastLine
  <2> QED BY <2>1, <2>2, <2>3, <2>4
<1>6. Reached(s, t, i, j, a + 1) /\ Reached(s, t, i, j, l + 1) /\ Reached(s, t, i, j, c + 1)
  <2>1. PICK A \in Lined(i - 1, j) : Gap(s, t, A, i - 1, j) = a
    BY <1>2 DEF IsShortest, Reached
  <2>2. A \in Lined(i, j) /\ Gap(s, t, A, i, j) = a + 1
    BY <2>1, Wider
  <2>3. PICK B \in Lined(i, j - 1) : Gap(s, t, B, i, j - 1) = l
    BY <1>2 DEF IsShortest, Reached
  <2>4. B \in Lined(i, j) /\ Gap(s, t, B, i, j) = l + 1
    BY <2>3, Longer
  <2>5. PICK C \in Lined(i - 1, j - 1) : Gap(s, t, C, i - 1, j - 1) = c
    BY <1>2 DEF IsShortest, Reached
  <2>6. PICK D \in Lined(i, j) : Gap(s, t, D, i, j) = c + 1
    BY <2>5, LineMore
  <2> QED BY <2>2, <2>4, <2>6 DEF Reached
<1>7. CostOf(e) \in {a + 1, l + 1, c + 1} /\ Len(e) <= i + j
  <2>1. PICK old \in {above, left, corner} : CostOf(e) = CostOf(old) + 1 /\ Len(e) = Len(old) + 1
    BY <1>4
  <2>2. Len(old) \in Nat /\ Len(old) + 1 <= i + j
    BY <1>1
  <2>3. CostOf(old) \in {a, l, c}
    BY <1>2
  <2> QED BY <2>1, <2>2, <2>3
<1>8. Reached(s, t, i, j, CostOf(e)) /\ CostOf(e) # 0
  BY <1>2, <1>6, <1>7
<1>9. NoFewer(s, t, i, j, CostOf(e))
  BY <1>5 DEF NoFewer
<1> QED BY <1>3, <1>4, <1>7, <1>8, <1>9 DEF IsShortest
-----------------------------------------------------------------------------
(* The rows of the table.                                                  *)
Cell(above, left, i, j, s, t) ==
  IF s[i] = t[j] THEN Append(above[j - 1], "=") ELSE NextEdit(above[j], left, above[j - 1])

RowOf(row, above, i, s, t) ==
  /\ row \in [0..Len(t) -> Seq(Edit)]
  /\ row[0] = [k \in 1..i |-> "-"]
  /\ \A j \in 1..Len(t) : row[j] = Cell(above, row[j - 1], i, j, s, t)

LEMMA CellIsEdits ==
  ASSUME NEW s, NEW t, NEW n \in Nat, NEW above \in [0..n -> Seq(Edit)], NEW left \in Seq(Edit),
         NEW i, NEW j \in 1..n
  PROVE  Cell(above, left, i, j, s, t) \in Seq(Edit)
<1>1. above[j - 1] \in Seq(Edit) /\ above[j] \in Seq(Edit)
  <2>1. j - 1 \in 0..n /\ j \in 0..n
    OBVIOUS
  <2> QED BY <2>1
<1>2. Append(above[j - 1], "=") \in Seq(Edit)
  BY <1>1, CostOfMore DEF Edit
<1>3. PICK e : e = NextEdit(above[j], left, above[j - 1])
  OBVIOUS
<1>4. OneMore(e, above[j], left, above[j - 1])
  BY <1>1, <1>3, NextEditFacts
<1> QED BY <1>2, <1>3, <1>4 DEF Cell, OneMore

LEMMA NextRowIsRow ==
  ASSUME NEW s, NEW t, Len(t) \in Nat, NEW i \in Nat, NEW above \in [0..Len(t) -> Seq(Edit)]
  PROVE  RowOf(NextRow(above, i, s, t), above, i, s, t)
<1>1. PICK n \in Nat : n = Len(t)
  OBVIOUS
<1>2. PICK V : V = Seq(Edit)
  OBVIOUS
<1>3. PICK first : first = [k \in 1..i |-> "-"]
  OBVIOUS
<1>4. first \in V
  BY <1>2, <1>3, CostOfSame DEF Edit
<1>5. PICK F : F = [x \in (1..n) \X V |-> Cell(above, x[2], i, x[1], s, t)]
  OBVIOUS
<1>6. F \in [(1..n) \X V -> V]
  <2>1. \A x \in (1..n) \X V : Cell(above, x[2], i, x[1], s, t) \in V
    BY <1>1, <1>2, CellIsEdits
  <2> QED BY <1>5, <2>1
<1>7. PICK h \in [0..n -> V] : Iterates(h, first, F, n)
  BY <1>4, <1>6, Iterated
<1> DEFINE Step(f) == [j \in 0..Len(t) |-> IF j = 0 THEN [k \in 1..i |-> "-"]
                                          ELSE IF s[i] = t[j] THEN Append(above[j - 1], "=")
                                          ELSE NextEdit(above[j], f[j - 1], above[j - 1])]
           row == CHOOSE f : f = Step(f)
<1>8. h = Step(h)
  <2>1. ASSUME NEW j \in 1..n PROVE h[j] = Cell(above, h[j - 1], i, j, s, t)
    <3>1. j - 1 \in 0..n
      OBVIOUS
    <3>2. <<j, h[j - 1]>> \in (1..n) \X V
      BY <1>7, <3>1
    <3> QED BY <1>5, <1>7, <3>2 DEF Iterates
  <2>2. h[0] = first
    BY <1>7 DEF Iterates
  <2>3. \A j \in 0..n : j = 0 \/ j \in 1..n
    OBVIOUS
  <2>4. ASSUME NEW j \in 0..n PROVE h[j] = Step(h)[j]
    <3>1. CASE j = 0
      BY <1>1, <1>3, <2>2, <3>1
    <3>2. CASE j # 0
      BY <1>1, <2>1, <2>3, <3>2 DEF Cell
    <3> QED BY <3>1, <3>2
  <2>5. h = [j \in 0..n |-> h[j]]
    BY <1>7
  <2>6. Step(h) = [j \in 0..n |-> Step(h)[j]]
    BY <1>1
  <2> HIDE DEF Step
  <2> QED BY <2>4, <2>5, <2>6
<1>9. row = Step(row)
  <2> HIDE DEF Step
  <2> QED BY <1>8
<1>10. NextRow(above, i, s, t) = row
  BY DEF NextRow
<1> HIDE DEF row
<1>11. /\ DOMAIN row = 0..n /\ row = [j \in 0..n |-> row[j]] /\ row[0] = first
       /\ \A j \in 1..n : row[j] = Cell(above, row[j - 1], i, j, s, t)
  <2>1. \A j \in 0..n : row[j] = Step(row)[j]
    <3> HIDE DEF Step
    <3> QED BY <1>9
  <2>2. 0 \in 0..n /\ \A j \in 1..n : j \in 0..n /\ j # 0
    OBVIOUS
  <2>3. DOMAIN row = 0..n /\ row = [j \in 0..n |-> row[j]]
    BY <1>1, <1>9
  <2>4. row[0] = first
    BY <1>1, <1>3, <2>1, <2>2
  <2>5. ASSUME NEW j \in 1..n PROVE row[j] = Cell(above, row[j - 1], i, j, s, t)
    BY <1>1, <2>1, <2>2 DEF Cell
  <2> QED BY <2>3, <2>4, <2>5
<1> HIDE DEF Step
<1>12. \A j \in 0..n : row[j] \in V
  <2>1. PICK S : S = {j \in 0..n : row[j] \in V}
    OBVIOUS
  <2>2. 0 \in S
    BY <1>4, <1>11, <2>1
  <2>3. ASSUME NEW j \in 1..n, j - 1 \in S PROVE j \in S
    <3>1. PICK left \in Seq(Edit) : left = row[j - 1]
      BY <1>2, <2>1, <2>3
    <3>2. Cell(above, left, i, j, s, t) \in Seq(Edit)
      BY <1>1, CellIsEdits
    <3>3. row[j] \in V
      BY <1>2, <1>11, <3>1, <3>2
    <3> QED BY <2>1, <3>3
  <2>4. \A j \in 0..n : j \in S
    BY <2>2, <2>3, UpTo
  <2> QED BY <2>1, <2>4
<1>13. row \in [0..n -> V]
  BY <1>11, <1>12
<1> QED BY <1>1, <1>2, <1>3, <1>10, <1>11, <1>13 DEF RowOf

(* A row of shortest ways follows another.                                 *)
ShortestRow(row, s, t, i) == \A j \in 0..Len(t) : IsShortest(row[j], s, t, i, j)

LEMMA RowsAreShortest ==
  ASSUME NEW s, NEW t, Len(t) \in Nat, NEW i \in Nat \ {0}, NEW above, ShortestRow(above, s, t, i - 1),
         NEW row, RowOf(row, above, i, s, t)
  PROVE  ShortestRow(row, s, t, i)
<1>1. PICK n \in Nat : n = Len(t)
  OBVIOUS
<1>2. PICK S : S = {j \in 0..n : IsShortest(row[j], s, t, i, j)}
  OBVIOUS
<1>3. 0 \in S
  <2>1. IsShortest([k \in 1..i + 0 |-> "-"], s, t, i, 0)
    BY EdgeIsShortest DEF Edit
  <2>2. i + 0 = i
    OBVIOUS
  <2> QED BY <1>2, <2>1, <2>2 DEF RowOf
<1>4. ASSUME NEW j \in 1..n, j - 1 \in S PROVE j \in S
  <2>1. IsShortest(row[j - 1], s, t, i, j - 1)
    BY <1>2, <1>4
  <2>2. IsShortest(above[j], s, t, i - 1, j) /\ IsShortest(above[j - 1], s, t, i - 1, j - 1)
    BY <1>1 DEF ShortestRow
  <2>3. row[j] = Cell(above, row[j - 1], i, j, s, t)
    BY <1>1 DEF RowOf
  <2>4. PICK up, left, corner : up = above[j] /\ left = row[j - 1] /\ corner = above[j - 1]
    OBVIOUS
  <2>5. /\ IsShortest(up, s, t, i - 1, j) /\ IsShortest(left, s, t, i, j - 1)
        /\ IsShortest(corner, s, t, i - 1, j - 1) /\ j \in Nat \ {0}
    BY <2>1, <2>2, <2>4
  <2>6. CASE s[i] = t[j]
    <3>1. IsShortest(Append(corner, "="), s, t, i, j)
      BY <2>5, <2>6, SameIsShortest
    <3>2. row[j] = Append(corner, "=")
      BY <2>3, <2>4, <2>6 DEF Cell
    <3>3. IsShortest(row[j], s, t, i, j)
      BY <3>1, <3>2, Zenon
    <3>4. j \in 0..n
      OBVIOUS
    <3> QED BY <1>2, <3>3, <3>4
  <2>7. CASE s[i] # t[j]
    <3>1. IsShortest(NextEdit(up, left, corner), s, t, i, j)
      BY <2>5, <2>7, NextIsShortest
    <3> QED BY <1>2, <2>3, <2>4, <2>7, <3>1 DEF Cell
  <2> QED BY <2>6, <2>7
<1>5. \A j \in 0..n : j \in S
  BY <1>3, <1>4, UpTo
<1> QED BY <1>1, <1>2, <1>5 DEF ShortestRow

LEMMA EdgeIsRow ==
  ASSUME NEW s, NEW t, Len(t) \in Nat, NEW row, row = [j \in 0..Len(t) |-> [k \in 1..j |-> "+"]]
  PROVE  ShortestRow(row, s, t, 0) /\ row \in [0..Len(t) -> Seq(Edit)]
<1>1. ASSUME NEW j \in 0..Len(t) PROVE row[j] \in Seq(Edit) /\ IsShortest(row[j], s, t, 0, j)
  <2>1. j \in Nat /\ 0 + j = j
    OBVIOUS
  <2>2. IsShortest([k \in 1..0 + j |-> "+"], s, t, 0, j)
    BY <2>1, EdgeIsShortest DEF Edit
  <2>3. row[j] = [k \in 1..j |-> "+"]
    OBVIOUS
  <2>4. row[j] \in Seq(Edit)
    BY <2>1, <2>3, CostOfSame DEF Edit
  <2> QED BY <2>1, <2>2, <2>3, <2>4
<1> QED BY <1>1 DEF ShortestRow

(* For any two lists: the last cell of the table that                      *)
(* distance_elements_with_cost_function fills (_differ.py 689 to 714) has  *)
(* a way from one to the other, of which there is none with fewer edits.   *)
THEOREM TableIsShortest ==
  ASSUME NEW s, NEW t, Len(s) \in Nat, Len(t) \in Nat
  PROVE  IsShortest(EditTable(s, t), s, t, Len(s), Len(t))
<1>1. PICK m \in Nat, n \in Nat : m = Len(s) /\ n = Len(t)
  OBVIOUS
<1>2. PICK V : V = [0..n -> Seq(Edit)]
  OBVIOUS
<1>3. PICK first : first = [j \in 0..Len(t) |-> [k \in 1..j |-> "+"]]
  OBVIOUS
<1>4. first \in V /\ ShortestRow(first, s, t, 0)
  BY <1>1, <1>2, <1>3, EdgeIsRow
<1>5. PICK F : F = [x \in (1..m) \X V |-> NextRow(x[2], x[1], s, t)]
  OBVIOUS
<1>6. ASSUME NEW i \in 1..m, NEW above \in V
      PROVE  RowOf(NextRow(above, i, s, t), above, i, s, t) /\ NextRow(above, i, s, t) \in V
  <2>1. above \in [0..Len(t) -> Seq(Edit)] /\ i \in Nat
    BY <1>1, <1>2, <1>6
  <2>2. RowOf(NextRow(above, i, s, t), above, i, s, t)
    BY <2>1, NextRowIsRow
  <2> QED BY <1>1, <1>2, <2>2 DEF RowOf
<1>7. F \in [(1..m) \X V -> V]
  <2>1. \A x \in (1..m) \X V : NextRow(x[2], x[1], s, t) \in V
    BY <1>6
  <2> QED BY <1>5, <2>1
<1>8. PICK h \in [0..m -> V] : Iterates(h, first, F, m)
  BY <1>4, <1>7, Iterated
<1> DEFINE Step(f) == [i \in 0..Len(s) |-> IF i = 0 THEN [j \in 0..Len(t) |-> [k \in 1..j |-> "+"]]
                                          ELSE NextRow(f[i - 1], i, s, t)]
           table == CHOOSE f : f = Step(f)
<1>9. h = Step(h)
  <2>1. ASSUME NEW i \in 1..m PROVE h[i] = NextRow(h[i - 1], i, s, t)
    <3>1. i - 1 \in 0..m
      OBVIOUS
    <3>2. <<i, h[i - 1]>> \in (1..m) \X V
      BY <1>8, <3>1
    <3> QED BY <1>5, <1>8, <3>2 DEF Iterates
  <2>2. h[0] = first
    BY <1>8 DEF Iterates
  <2>3. \A i \in 0..m : i = 0 \/ i \in 1..m
    OBVIOUS
  <2>4. ASSUME NEW i \in 0..m PROVE h[i] = Step(h)[i]
    <3>1. CASE i = 0
      BY <1>1, <1>3, <2>2, <3>1
    <3>2. CASE i # 0
      BY <1>1, <2>1, <2>3, <3>2
    <3> QED BY <3>1, <3>2
  <2>5. h = [i \in 0..m |-> h[i]]
    BY <1>8
  <2>6. Step(h) = [i \in 0..m |-> Step(h)[i]]
    BY <1>1
  <2> HIDE DEF Step
  <2> QED BY <2>4, <2>5, <2>6
<1>10. table = Step(table)
  <2> HIDE DEF Step
  <2> QED BY <1>9
<1>11. EditTable(s, t) = table[m][n]
  BY <1>1 DEF EditTable
<1> HIDE DEF table
<1>12. table[0] = first /\ \A i \in 1..m : table[i] = NextRow(table[i - 1], i, s, t)
  <2>1. \A i \in 0..m : table[i] = Step(table)[i]
    <3> HIDE DEF Step
    <3> QED BY <1>10
  <2>2. 0 \in 0..m /\ \A i \in 1..m : i \in 0..m /\ i # 0
    OBVIOUS
  <2> QED BY <1>1, <1>3, <2>1, <2>2
<1> HIDE DEF Step
<1>13. PICK S : S = {i \in 0..m : table[i] \in V /\ ShortestRow(table[i], s, t, i)}
  OBVIOUS
<1>14. 0 \in S
  BY <1>4, <1>12, <1>13
<1>15. ASSUME NEW i \in 1..m, i - 1 \in S PROVE i \in S
  <2>1. PICK above \in V : above = table[i - 1] /\ ShortestRow(above, s, t, i - 1)
    BY <1>13, <1>15
  <2>2. PICK row : row = NextRow(above, i, s, t)
    OBVIOUS
  <2>3. RowOf(row, above, i, s, t) /\ row \in V
    BY <1>6, <2>2
  <2>4. ShortestRow(row, s, t, i)
    BY <1>1, <2>1, <2>3, RowsAreShortest
  <2>5. table[i] = row /\ i \in 0..m
    BY <1>12, <2>1, <2>2
  <2> QED BY <1>13, <2>3, <2>4, <2>5
<1>16. \A i \in 0..m : i \in S
  BY <1>14, <1>15, UpTo
<1>17. ShortestRow(table[m], s, t, m)
  <2>1. m \in 0..m
    OBVIOUS
  <2> QED BY <1>13, <1>16, <2>1
<1>18. n \in 0..n
  OBVIOUS
<1> QED BY <1>1, <1>11, <1>17, <1>18 DEF ShortestRow
-----------------------------------------------------------------------------
(* Ways in the other direction have as many edits.                         *)
Flipped(P, i, j) == {q \in (1..j) \X (1..i) : <<q[2], q[1]>> \in P}

LEMMA FlippedSize ==
  ASSUME NEW i \in Nat, NEW j \in Nat, NEW P \in SUBSET ((1..i) \X (1..j)), IsFiniteSet(P)
  PROVE  Cardinality(Flipped(P, i, j)) = Cardinality(P)
<1>1. PICK Q : Q = Flipped(P, i, j)
  OBVIOUS
<1>2. PICK f : f = [p \in P |-> <<p[2], p[1]>>]
  OBVIOUS
<1>3. \A p \in P : p = <<p[1], p[2]>> /\ p[1] \in 1..i /\ p[2] \in 1..j
  OBVIOUS
<1>4. f \in [P -> Q]
  <2>1. \A p \in P : f[p] = <<p[2], p[1]>> /\ f[p] \in (1..j) \X (1..i) /\ <<f[p][2], f[p][1]>> = p
    BY <1>2, <1>3
  <2>2. \A p \in P : f[p] \in Q
    BY <1>1, <2>1 DEF Flipped
  <2> QED BY <1>2, <2>2
<1>5. \A p, q \in P : f[p] = f[q] => p = q
  BY <1>2, <1>3
<1>6. ASSUME NEW q \in Q PROVE \E p \in P : f[p] = q
  <2>1. q \in (1..j) \X (1..i) /\ <<q[2], q[1]>> \in P
    BY <1>1, <1>6 DEF Flipped
  <2>2. f[<<q[2], q[1]>>] = <<q[1], q[2]>>
    BY <1>2, <2>1
  <2> QED BY <2>1, <2>2
<1>7. f \in Bijection(P, Q)
  BY <1>4, <1>5, <1>6 DEF Bijection, Injection, Surjection, IsInjective
<1>8. ExistsBijection(P, Q)
  BY <1>7 DEF ExistsBijection
<1> QED BY <1>1, <1>8, FS_Bijection

LEMMA Mirrored ==
  ASSUME NEW i \in Nat, NEW j \in Nat, NEW s, NEW t, NEW A \in Lined(i, j)
  PROVE  \E B \in Lined(j, i) : Gap(t, s, B, j, i) = Gap(s, t, A, i, j)
<1>1. PICK D : D = Differing(s, t, A)
  OBVIOUS
<1>2. /\ IsFiniteSet(A) /\ IsFiniteSet(D) /\ Cardinality(A) \in Nat /\ Cardinality(D) \in Nat
      /\ A \in SUBSET ((1..i) \X (1..j)) /\ D \in SUBSET ((1..i) \X (1..j))
  BY <1>1, LinedFacts DEF Lined, Differing
<1>3. PICK B : B = Flipped(A, i, j)
  OBVIOUS
<1>4. B \in Lined(j, i)
  <2>1. ASSUME NEW p \in B, NEW q \in B, p # q
        PROVE  p[1] # q[1] /\ p[2] # q[2] /\ (p[1] < q[1] <=> p[2] < q[2])
    <3>1. /\ p \in (1..j) \X (1..i) /\ <<p[2], p[1]>> \in A
          /\ q \in (1..j) \X (1..i) /\ <<q[2], q[1]>> \in A
      BY <1>3 DEF Flipped
    <3>2. PICK a \in A, b \in A : a = <<p[2], p[1]>> /\ b = <<q[2], q[1]>>
      BY <3>1
    <3>3. a # b
      BY <2>1, <3>1, <3>2
    <3>4. a[1] # b[1] /\ a[2] # b[2] /\ (a[1] < b[1] <=> a[2] < b[2])
      BY <3>3 DEF Lined
    <3> QED BY <3>2, <3>4
  <2>2. B \in SUBSET ((1..j) \X (1..i))
    BY <1>3 DEF Flipped
  <2> QED BY <2>1, <2>2 DEF Lined
<1>5. Cardinality(B) = Cardinality(A)
  BY <1>2, <1>3, FlippedSize
<1>6. Differing(t, s, B) = Flipped(D, i, j)
  <2>1. ASSUME NEW q \in (1..j) \X (1..i)
        PROVE  q \in Differing(t, s, B) <=> q \in Flipped(D, i, j)
    <3>1. q \in Differing(t, s, B) <=> q \in B /\ t[q[1]] # s[q[2]]
      BY DEF Differing
    <3>2. q \in B <=> <<q[2], q[1]>> \in A
      BY <1>3 DEF Flipped
    <3>3. q \in Flipped(D, i, j) <=> <<q[2], q[1]>> \in D
      BY DEF Flipped
    <3>4. <<q[2], q[1]>> \in D <=> <<q[2], q[1]>> \in A /\ s[q[2]] # t[q[1]]
      BY <1>1 DEF Differing
    <3> QED BY <3>1, <3>2, <3>3, <3>4
  <2>2. Differing(t, s, B) \subseteq (1..j) \X (1..i) /\ Flipped(D, i, j) \subseteq (1..j) \X (1..i)
    BY <1>3 DEF Differing, Flipped
  <2> QED BY <2>1, <2>2
<1>7. Cardinality(Differing(t, s, B)) = Cardinality(D)
  BY <1>2, <1>6, FlippedSize
<1>8. Gap(t, s, B, j, i) = Gap(s, t, A, i, j)
  BY <1>1, <1>2, <1>5, <1>7 DEF Gap
<1> QED BY <1>4, <1>8

LEMMA ShortestBack ==
  ASSUME NEW i \in Nat, NEW j \in Nat, NEW s, NEW t, NEW e, IsShortest(e, s, t, i, j)
  PROVE  IsShortest(e, t, s, j, i)
<1>1. e \in Seq(Edit) /\ Len(e) <= j + i /\ CostOf(e) \in Nat
  BY CostFacts DEF IsShortest
<1>2. ASSUME NEW A \in Lined(j, i) PROVE CostOf(e) <= Gap(t, s, A, j, i)
  <2>1. PICK B \in Lined(i, j) : Gap(s, t, B, i, j) = Gap(t, s, A, j, i)
    BY Mirrored
  <2> QED BY <2>1 DEF IsShortest, NoFewer
<1>3. Reached(t, s, j, i, CostOf(e))
  <2>1. PICK A \in Lined(i, j) : Gap(s, t, A, i, j) = CostOf(e)
    BY DEF IsShortest, Reached
  <2>2. PICK B \in Lined(j, i) : Gap(t, s, B, j, i) = Gap(s, t, A, i, j)
    BY Mirrored
  <2> QED BY <2>1, <2>2 DEF Reached
<1>4. Alike(s, t, i, j) => Alike(t, s, j, i)
  BY DEF Alike
<1> QED BY <1>1, <1>2, <1>3, <1>4 DEF IsShortest, NoFewer

LEMMA BetweenIsShortest ==
  ASSUME NEW s, NEW t, Len(s) \in Nat, Len(t) \in Nat
  PROVE  IsShortest(EditsBetween(s, t), s, t, Len(s), Len(t))
<1>1. IsShortest(EditTable(s, t), s, t, Len(s), Len(t))
  BY TableIsShortest
<1>2. IsShortest(EditTable(t, s), t, s, Len(t), Len(s))
  BY TableIsShortest
<1>3. IsShortest(EditTable(t, s), s, t, Len(s), Len(t))
  BY <1>2, ShortestBack
<1> QED BY <1>1, <1>3 DEF EditsBetween

(* Where all elements are lined up one by one, there are not more edits    *)
(* than the longer one has elements, and none if they are the same.        *)
Near(s, t, i, j, n) == \E A \in Lined(i, j) : Gap(s, t, A, i, j) <= n

LEMMA DiagonalIsNear ==
  ASSUME NEW N \in Nat, NEW s, NEW t
  PROVE  Near(s, t, N, N, N) /\ ((\A k \in 1..N : s[k] = t[k]) => Near(s, t, N, N, 0))
<1>1. PICK S : S = {k \in 0..N : /\ Near(s, t, k, k, k)
                                 /\ (\A l \in 1..k : s[l] = t[l]) => Near(s, t, k, k, 0)}
  OBVIOUS
<1>2. 0 \in S
  <2>1. IsShortest([k \in 1..0 + 0 |-> "+"], s, t, 0, 0)
    BY EdgeIsShortest DEF Edit
  <2>2. CostOf([k \in 1..0 |-> "+"]) = 0
    BY CostOfSame DEF Edit
  <2>3. Reached(s, t, 0, 0, 0)
    BY <2>1, <2>2 DEF IsShortest
  <2>4. Near(s, t, 0, 0, 0)
    BY <2>3 DEF Reached, Near
  <2>5. 0 \in 0..N
    OBVIOUS
  <2> QED BY <1>1, <2>4, <2>5
<1>3. ASSUME NEW k \in 1..N, k - 1 \in S PROVE k \in S
  <2>1. k \in Nat \ {0} /\ k \in 0..N /\ k - 1 \in Nat
    OBVIOUS
  <2>2. ASSUME NEW n \in Nat, Near(s, t, k - 1, k - 1, n)
        PROVE  Near(s, t, k, k, n + (IF s[k] = t[k] THEN 0 ELSE 1))
    <3>1. PICK A \in Lined(k - 1, k - 1) : Gap(s, t, A, k - 1, k - 1) <= n
      BY <2>2 DEF Near
    <3>2. PICK B \in Lined(k, k) :
            Gap(s, t, B, k, k) = Gap(s, t, A, k - 1, k - 1) + (IF s[k] = t[k] THEN 0 ELSE 1)
      BY <2>1, <3>1, LineMore
    <3>3. Gap(s, t, A, k - 1, k - 1) \in Int
      BY <2>1, LinedFacts
    <3>4. Gap(s, t, B, k, k) <= n + (IF s[k] = t[k] THEN 0 ELSE 1)
      BY <3>1, <3>2, <3>3
    <3> QED BY <3>4 DEF Near
  <2>3. Near(s, t, k, k, k)
    <3>1. Near(s, t, k - 1, k - 1, k - 1)
      BY <1>1, <1>3
    <3>2. PICK A \in Lined(k, k) : Gap(s, t, A, k, k) <= k - 1 + (IF s[k] = t[k] THEN 0 ELSE 1)
      BY <2>1, <2>2, <3>1 DEF Near
    <3>3. Gap(s, t, A, k, k) \in Int
      BY <2>1, LinedFacts
    <3>4. Gap(s, t, A, k, k) <= k
      BY <2>1, <3>2, <3>3
    <3> QED BY <3>4 DEF Near
  <2>4. ASSUME \A l \in 1..k : s[l] = t[l] PROVE Near(s, t, k, k, 0)
    <3>1. s[k] = t[k] /\ \A l \in 1..k - 1 : s[l] = t[l]
      BY <2>1, <2>4
    <3>2. Near(s, t, k - 1, k - 1, 0)
      BY <1>1, <1>3, <3>1
    <3>3. Near(s, t, k, k, 0 + 0)
      BY <2>2, <3>1, <3>2
    <3> QED BY <3>3
  <2> QED BY <1>1, <2>1, <2>3, <2>4
<1>4. \A k \in 0..N : k \in S
  BY <1>2, <1>3, UpTo
<1>5. N \in 0..N
  OBVIOUS
<1> QED BY <1>1, <1>4, <1>5

LEMMA LongerIsNear ==
  ASSUME NEW N \in Nat, NEW d \in Nat, NEW s, NEW t
  PROVE  Near(s, t, N + d, N, N + d)
<1>1. PICK S : S = {k \in 0..d : Near(s, t, N + k, N, N + k)}
  OBVIOUS
<1>2. 0 \in S
  <2>1. Near(s, t, N, N, N) /\ N + 0 = N /\ 0 \in 0..d
    BY DiagonalIsNear
  <2> QED BY <1>1, <2>1
<1>3. ASSUME NEW k \in 1..d, k - 1 \in S PROVE k \in S
  <2>1. PICK i \in Nat \ {0} : i = N + k
    OBVIOUS
  <2>2. N + (k - 1) = i - 1 /\ i - 1 \in Nat /\ k \in 0..d
    BY <2>1
  <2>3. Near(s, t, i - 1, N, i - 1)
    BY <1>1, <1>3, <2>2
  <2>4. PICK A \in Lined(i - 1, N) : Gap(s, t, A, i - 1, N) <= i - 1
    BY <2>3 DEF Near
  <2>5. A \in Lined(i, N) /\ Gap(s, t, A, i, N) = Gap(s, t, A, i - 1, N) + 1
    BY <2>4, Wider
  <2>6. Gap(s, t, A, i - 1, N) \in Int
    BY <2>2, LinedFacts
  <2>7. Near(s, t, i, N, i)
    <3>1. Gap(s, t, A, i, N) <= i
      BY <2>1, <2>4, <2>5, <2>6
    <3> QED BY <2>5, <3>1 DEF Near
  <2> QED BY <1>1, <2>1, <2>2, <2>7
<1>4. \A k \in 0..d : k \in S
  BY <1>2, <1>3, UpTo
<1>5. d \in 0..d
  OBVIOUS
<1> QED BY <1>1, <1>4, <1>5
-----------------------------------------------------------------------------
(* The distance of lists.                                                  *)
LEMMA ListFacts ==
  ASSUME NEW s, IsList(s)
  PROVE  Len(s) \in Nat /\ DOMAIN s = 1..Len(s) /\ s = [i \in 1..Len(s) |-> s[i]]
<1>1. PICK T : s \in Seq(T)
  BY DEF IsList
<1> QED BY <1>1

EditsAreRight(e, s, t) ==
  /\ e \in Seq(Edit) /\ Len(e) <= Len(s) + Len(t)
  /\ CostOf(e) \in Nat /\ CostOf(e) = distance(s, t)
  /\ CostOf(e) = 0 <=> s = t
  /\ CostOf(e) <= LongerOf(Len(s), Len(t))

LEMMA EditsOfLists ==
  ASSUME NEW s, NEW t, IsList(s), IsList(t)
  PROVE  EditsAreRight(EditsBetween(s, t), s, t)
<1>1. PICK m \in Nat, n \in Nat : /\ m = Len(s) /\ DOMAIN s = 1..m /\ s = [i \in 1..m |-> s[i]]
                                  /\ n = Len(t) /\ DOMAIN t = 1..n /\ t = [i \in 1..n |-> t[i]]
  BY ListFacts
<1>2. PICK e : e = EditsBetween(s, t)
  OBVIOUS
<1>3. IsShortest(e, s, t, m, n)
  BY <1>1, <1>2, BetweenIsShortest
<1>4. PICK c \in Nat : c = CostOf(e)
  BY <1>3, CostFacts DEF IsShortest
<1>5. e \in Seq(Edit) /\ Len(e) <= m + n /\ (c = 0 => Alike(s, t, m, n))
  BY <1>3, <1>4 DEF IsShortest
<1>6. c = 0 => s = t
  BY <1>1, <1>5 DEF Alike
<1>7. \A A \in Lined(m, n) : c <= Gap(s, t, A, m, n)
  BY <1>3, <1>4 DEF IsShortest, NoFewer
<1>8. PICK C \in Lined(m, n) : Gap(s, t, C, m, n) = c
  BY <1>3, <1>4 DEF IsShortest, Reached
<1>9. ASSUME NEW k \in Nat, Near(s, t, m, n, k) PROVE c <= k
  <2>1. PICK A \in Lined(m, n) : Gap(s, t, A, m, n) <= k
    BY <1>9 DEF Near
  <2>2. Gap(s, t, A, m, n) \in Int
    BY LinedFacts
  <2> QED BY <1>7, <1>9, <2>1, <2>2
<1>10. s = t => c = 0
  <2> SUFFICES ASSUME s = t PROVE c = 0
    OBVIOUS
  <2>1. m = n /\ \A k \in 1..m : s[k] = t[k]
    BY <1>1
  <2>2. Near(s, t, m, n, 0)
    BY <2>1, DiagonalIsNear
  <2>3. c <= 0
    BY <1>9, <2>2
  <2> QED BY <2>3
<1>11. c <= LongerOf(m, n)
  <2>1. CASE m >= n
    <3>1. PICK d \in Nat : m = n + d
      <4>1. m - n \in Nat /\ m = n + (m - n)
        BY <2>1
      <4> QED BY <4>1
    <3>2. Near(s, t, m, n, m)
      BY <3>1, LongerIsNear
    <3> QED BY <1>9, <2>1, <3>2 DEF LongerOf
  <2>2. CASE m < n
    <3>1. PICK d \in Nat : n = m + d
      <4>1. n - m \in Nat /\ n = m + (n - m)
        BY <2>2
      <4> QED BY <4>1
    <3>2. Near(t, s, n, m, n)
      BY <3>1, LongerIsNear
    <3>3. PICK A \in Lined(n, m) : Gap(t, s, A, n, m) <= n
      BY <3>2 DEF Near
    <3>4. PICK B \in Lined(m, n) : Gap(s, t, B, m, n) = Gap(t, s, A, n, m)
      BY Mirrored
    <3>5. Near(s, t, m, n, n)
      BY <3>3, <3>4 DEF Near
    <3> QED BY <1>9, <2>2, <3>5 DEF LongerOf
  <2> QED BY <2>1, <2>2
<1>12. distance(s, t) = c
  <2>1. CASE s = t
    BY <1>10, <2>1 DEF distance
  <2>2. CASE s # t
    <3>1. Alignments(s, t) = Lined(m, n)
      BY <1>1 DEF Alignments, Lined
    <3>2. ASSUME NEW A PROVE Edits(s, t, A) = Gap(s, t, A, m, n)
      BY <1>1 DEF Edits, Gap, Differing
    <3>3. PICK X : X = {Edits(s, t, A) : A \in Alignments(s, t)}
      OBVIOUS
    <3>4. c \in X /\ \A x \in X : c <= x
      BY <1>7, <1>8, <3>1, <3>2, <3>3
    <3>5. X \subseteq Int
      BY <3>1, <3>2, <3>3, LinedFacts
    <3>6. PICK l : l = LeastOf(X)
      OBVIOUS
    <3>7. l \in X /\ \A x \in X : l <= x
      BY <3>4, <3>6 DEF LeastOf
    <3>8. l = c
      BY <3>4, <3>5, <3>7
    <3> QED BY <2>2, <3>3, <3>6, <3>8 DEF distance
  <2> QED BY <2>1, <2>2
<1> QED BY <1>1, <1>2, <1>4, <1>5, <1>6, <1>10, <1>11, <1>12 DEF EditsAreRight

LEMMA SimilarityBounds ==
  ASSUME NEW s, NEW t, IsList(s), IsList(t)
  PROVE  Similarity(s, t) \in 0..One
<1>1. EditsAreRight(EditsBetween(s, t), s, t)
  BY EditsOfLists
<1>2. PICK c \in Nat : c = distance(s, t) /\ c <= LongerOf(Len(s), Len(t))
  BY <1>1 DEF EditsAreRight
<1>3. Len(s) \in Nat /\ Len(t) \in Nat
  BY ListFacts
<1>4. PICK n \in Nat \ {0} : n = LongerOf(LongerOf(Len(s), Len(t)), 1) /\ c <= n
  BY <1>2, <1>3 DEF LongerOf
<1>5. One \in Nat
  BY OneIsDivisible
<1>6. One * c <= One * n
  <2>1. PICK d \in Nat : n = c + d
    <3>1. n - c \in Nat /\ n = c + (n - c)
      BY <1>4
    <3> QED BY <3>1
  <2>2. One * (c + d) = One * c + One * d /\ One * d \in Nat /\ One * c \in Nat
    BY <1>5
  <2> QED BY <2>1, <2>2
<1>7. PICK a \in Nat : a = One * c
  BY <1>5
<1>8. a \div n \in 0..One
  BY <1>5, <1>6, <1>7, Quotient
<1> QED BY <1>2, <1>4, <1>5, <1>7, <1>8 DEF Similarity
-----------------------------------------------------------------------------
(* Sums, and means of similarities.                                        *)
SumsOf(h, w, N) == h[0] = 0 /\ \A i \in 1..N : h[i] = h[i - 1] + w[i]

LEMMA SumsExist ==
  ASSUME NEW N \in Nat, NEW w \in [1..N -> Nat]
  PROVE  \E h \in [0..N -> Nat] : SumsOf(h, w, N)
<1>1. PICK F : F = [x \in (1..N) \X Nat |-> x[2] + w[x[1]]]
  OBVIOUS
<1>2. F \in [(1..N) \X Nat -> Nat]
  <2>1. \A x \in (1..N) \X Nat : x[2] + w[x[1]] \in Nat
    OBVIOUS
  <2> QED BY <1>1, <2>1
<1>3. PICK h \in [0..N -> Nat] : Iterates(h, 0, F, N)
  BY <1>2, Iterated
<1>4. ASSUME NEW i \in 1..N PROVE h[i] = h[i - 1] + w[i]
  <2>1. i - 1 \in 0..N
    OBVIOUS
  <2>2. <<i, h[i - 1]>> \in (1..N) \X Nat
    BY <1>3, <2>1
  <2> QED BY <1>1, <1>3, <2>2 DEF Iterates
<1> QED BY <1>3, <1>4 DEF Iterates, SumsOf

LEMMA MeanBounds ==
  ASSUME NEW s \in Seq({Missing} \cup 0..One), NEW known \in 1..Len(s), s[known] >= 0
  PROVE  Mean(s) \in 0..One
<1> USE DEF Missing
<1>1. PICK n \in Nat : n = Len(s) /\ DOMAIN s = 1..n
  OBVIOUS
<1>2. \A i \in 1..n : s[i] \in Int /\ (s[i] >= 0 => s[i] \in 0..One)
  BY <1>1, OneIsDivisible
<1>3. PICK present : present = {i \in DOMAIN s : s[i] >= 0}
  OBVIOUS
<1>4. PICK w : w = [i \in 1..n |-> IF i \in present THEN s[i] ELSE 0]
  OBVIOUS
<1>5. w \in [1..n -> Nat]
  BY <1>1, <1>2, <1>3, <1>4
<1>6. PICK h \in [0..n -> Nat] : SumsOf(h, w, n)
  BY <1>5, SumsExist
<1> DEFINE Step(f) == [i \in 0..Len(s) |-> IF i = 0 THEN 0
                         ELSE f[i - 1] + (IF i \in {k \in DOMAIN s : s[k] >= 0} THEN s[i] ELSE 0)]
           total == CHOOSE f : f = Step(f)
<1>7. h = Step(h)
  <2>1. ASSUME NEW i \in 0..n PROVE h[i] = Step(h)[i]
    <3>1. CASE i = 0
      BY <1>1, <1>6, <3>1 DEF SumsOf
    <3>2. CASE i # 0
      <4>1. i \in 1..n
        BY <3>2
      <4> QED BY <1>1, <1>3, <1>4, <1>6, <3>2, <4>1 DEF SumsOf
    <3> QED BY <3>1, <3>2
  <2>2. h = [i \in 0..n |-> h[i]]
    BY <1>6
  <2>3. Step(h) = [i \in 0..n |-> Step(h)[i]]
    BY <1>1
  <2> HIDE DEF Step
  <2> QED BY <2>1, <2>2, <2>3
<1>8. total = Step(total)
  <2> HIDE DEF Step
  <2> QED BY <1>7
<1>9. Mean(s) = total[n] \div Cardinality(present)
  BY <1>1, <1>3 DEF Mean
<1> HIDE DEF total
<1>10. total[0] = 0 /\ \A i \in 1..n : total[i] = total[i - 1] + w[i]
  <2>1. \A i \in 0..n : total[i] = Step(total)[i]
    <3> HIDE DEF Step
    <3> QED BY <1>8
  <2>2. 0 \in 0..n /\ \A i \in 1..n : i \in 0..n /\ i # 0
    OBVIOUS
  <2> QED BY <1>1, <1>3, <1>4, <2>1, <2>2
<1> HIDE DEF Step
<1> DEFINE Within(i) == present \cap (1..i)
<1>11. ASSUME NEW i \in 0..n PROVE IsFiniteSet(Within(i)) /\ Cardinality(Within(i)) \in Nat
  <2>1. Within(i) \in SUBSET (1..n)
    BY <1>1, <1>3
  <2> HIDE DEF Within
  <2> QED BY <2>1, FiniteUpTo
<1>12. PICK S : S = {i \in 0..n : total[i] \in Nat /\ total[i] <= One * Cardinality(Within(i))}
  OBVIOUS
<1>13. 0 \in S
  <2>1. 0 \in 0..n
    OBVIOUS
  <2>2. PICK c \in Nat : c = Cardinality(Within(0))
    BY <1>11, <2>1
  <2> HIDE DEF Within
  <2>3. One * c \in Nat
    BY OneIsDivisible
  <2> QED BY <1>10, <1>12, <2>1, <2>2, <2>3
<1>14. ASSUME NEW i \in 1..n, i - 1 \in S PROVE i \in S
  <2>1. i \in 0..n /\ i - 1 \in 0..n
    OBVIOUS
  <2>2. PICK c \in Nat : c = Cardinality(Within(i - 1))
    BY <1>11, <2>1
  <2>3. total[i - 1] \in Nat /\ total[i - 1] <= One * c
    BY <1>12, <1>14, <2>2
  <2>4. total[i] = total[i - 1] + w[i] /\ w[i] \in Nat
    BY <1>5, <1>10
  <2>5. CASE i \in present
    <3>1. Within(i) = Within(i - 1) \cup {i} /\ i \notin Within(i - 1)
      BY <2>5
    <3>2. IsFiniteSet(Within(i - 1))
      BY <1>11, <2>1
    <3> HIDE DEF Within
    <3>3. Cardinality(Within(i)) = c + 1
      BY <2>2, <3>1, <3>2, FS_AddElement
    <3>4. w[i] <= One
      BY <1>1, <1>2, <1>3, <1>4, <2>5
    <3>5. One * (c + 1) = One * c + One /\ One * c \in Nat /\ One \in Nat
      BY OneIsDivisible
    <3> QED BY <1>12, <2>1, <2>3, <2>4, <3>3, <3>4, <3>5
  <2>6. CASE i \notin present
    <3>1. Within(i) = Within(i - 1) /\ w[i] = 0
      BY <1>4, <2>6
    <3> HIDE DEF Within
    <3> QED BY <1>12, <2>1, <2>2, <2>3, <2>4, <3>1
  <2> QED BY <2>5, <2>6
<1>15. \A i \in 0..n : i \in S
  BY <1>13, <1>14, UpTo
<1>16. n \in 0..n /\ Within(n) = present
  BY <1>1, <1>3
<1>17. Cardinality(present) \in Nat /\ IsFiniteSet(present)
  BY <1>11, <1>16
<1>18. total[n] \in Nat /\ total[n] <= One * Cardinality(present)
  BY <1>12, <1>15, <1>16
<1>19. known \in present
  BY <1>1, <1>3
<1>20. Cardinality(present) # 0
  BY <1>17, <1>19, FS_EmptySet
<1>21. PICK a \in Nat, c \in Nat \ {0} : a = total[n] /\ c = Cardinality(present)
  BY <1>17, <1>18, <1>20
<1>22. a <= One * c /\ One \in Nat
  BY <1>18, <1>21, OneIsDivisible
<1>23. a \div c \in 0..One
  BY <1>22, Quotient
<1> QED BY <1>9, <1>21, <1>23
-----------------------------------------------------------------------------
(* The similarity of paths.                                                *)
ShortEnough(n) == n * (n + 1) <= 2 * One

LEMMA FewerAreShort ==
  ASSUME NEW n \in Nat, NEW N \in Nat, n <= N, ShortEnough(N)
  PROVE  n * (n + 1) <= 2 * One
<1>1. PICK d \in Nat : N = n + d
  <2>1. N - n \in Nat /\ N = n + (N - n)
    OBVIOUS
  <2> QED BY <2>1
<1>2. (n + d) * ((n + d) + 1) = n * (n + 1) + d * (2 * n + d + 1)
  OBVIOUS
<1>3. d * (2 * n + d + 1) \in Nat /\ n * (n + 1) \in Nat /\ One \in Nat
  BY OneIsDivisible
<1>4. N * (N + 1) = n * (n + 1) + d * (2 * n + d + 1)
  BY <1>1, <1>2
<1>5. PICK x \in Nat, y \in Nat, z \in Int : x = n * (n + 1) /\ y = d * (2 * n + d + 1) /\ z = N * (N + 1)
  BY <1>3
<1>6. z <= 2 * One
  BY <1>5 DEF ShortEnough
<1> QED BY <1>3, <1>4, <1>5, <1>6

(* What an edit may cost, and all before it.                               *)
LEMMA NextCost ==
  ASSUME NEW n \in Nat, NEW i \in 1..n, NEW c \in Nat, 2 * c <= (i - 1) * (2 * n - (i - 1) + 1),
         NEW w \in Nat, w <= n - i + 1
  PROVE  2 * (c + w) <= i * (2 * n - i + 1)
<1>1. (i - 1) * (2 * n - (i - 1) + 1) + 2 * (n - i + 1) = i * (2 * n - i + 1)
  OBVIOUS
<1>2. PICK x \in Int, y \in Int : x = (i - 1) * (2 * n - (i - 1) + 1) /\ y = i * (2 * n - i + 1)
  OBVIOUS
<1>3. 2 * c <= x /\ x + 2 * (n - i + 1) = y
  BY <1>1, <1>2
<1>4. 2 * (c + w) <= y
  BY <1>3
<1> QED BY <1>2, <1>4

LEMMA CostShare ==
  ASSUME NEW n \in Nat \ {0}, n * (n + 1) <= 2 * One, NEW c \in Nat \ {0}, 2 * c <= n * (n + 1)
  PROVE  (One * c) \div ((n * (n + 1)) \div 2) \in 1..One
<1>1. PICK x \in Nat : x = n * (n + 1)
  OBVIOUS
<1>2. x <= 2 * One /\ 2 * c <= x /\ One \in Nat
  BY <1>1, OneIsDivisible
<1>3. PICK total \in Nat \ {0} : total = x \div 2 /\ c <= total /\ total <= One
  BY <1>2
<1>4. PICK d \in Nat : total = c + d
  <2>1. total - c \in Nat /\ total = c + (total - c)
    BY <1>3
  <2> QED BY <2>1
<1>5. One * (c + d) = One * c + One * d /\ One * c \in Nat /\ One * d \in Nat
  BY <1>2
<1>6. PICK a \in Nat : a = One * c
  BY <1>5
<1>7. a <= One * total
  BY <1>4, <1>5, <1>6
<1>8. PICK q \in Int : q = a \div total
  OBVIOUS
<1>9. q \in 0..One
  BY <1>2, <1>7, <1>8, Quotient
<1>10. One <= a
  <2>1. PICK b \in Nat : c = b + 1
    <3>1. c - 1 \in Nat /\ c = (c - 1) + 1
      OBVIOUS
    <3> QED BY <3>1
  <2>2. One * (b + 1) = One * b + One /\ One * b \in Nat
    BY <1>2
  <2> QED BY <1>2, <1>6, <2>1, <2>2
<1>11. q # 0
  <2> SUFFICES ASSUME q = 0 PROVE FALSE
    OBVIOUS
  <2>1. a < total * (q + 1)
    BY <1>8
  <2>2. total * (0 + 1) = total
    OBVIOUS
  <2> QED BY <1>2, <1>3, <1>10, <2>1, <2>2
<1>12. q \in 1..One
  BY <1>9, <1>11
<1> QED BY <1>1, <1>3, <1>6, <1>8, <1>12

LEMMA IdSimilarityBounds ==
  ASSUME NEW s, NEW t, IsList(s), IsList(t), ShortEnough(Len(s) + Len(t))
  PROVE  IdSimilarity(s, t) \in 0..One /\ (IdSimilarity(s, t) = One <=> s = t)
<1>1. CASE s = t
  BY <1>1, OneIsDivisible DEF IdSimilarity
<1>2. CASE s # t
  <2>1. PICK e : e = EditsBetween(s, t)
    OBVIOUS
  <2>2. EditsAreRight(e, s, t)
    BY <2>1, EditsOfLists
  <2>3. PICK n \in Nat : n = Len(e) /\ DOMAIN e = 1..n /\ n <= Len(s) + Len(t)
    BY <2>2 DEF EditsAreRight
  <2>4. PICK k \in 1..n : e[k] # "="
    <3>1. CASE {i \in DOMAIN e : e[i] # "="} = {}
      <4>1. CostOf(e) = Cardinality({})
        BY <3>1, Zenon DEF CostOf
      <4>2. CostOf(e) = 0
        BY <4>1, FS_EmptySet
      <4> QED BY <1>2, <2>2, <4>2 DEF EditsAreRight
    <3>2. CASE {i \in DOMAIN e : e[i] # "="} # {}
      BY <2>3, <3>2
    <3> QED BY <3>1, <3>2
  <2>5. Len(s) + Len(t) \in Nat
    BY ListFacts
  <2>6. n * (n + 1) <= 2 * One /\ n # 0
    BY <2>3, <2>4, <2>5, FewerAreShort
  <2>7. PICK w : w = [i \in 1..n |-> IF e[i] = "=" THEN 0 ELSE n - i + 1]
    OBVIOUS
  <2>8. w \in [1..n -> Nat] /\ w[k] >= 1 /\ \A i \in 1..n : w[i] <= n - i + 1
    BY <2>4, <2>7
  <2>9. PICK h \in [0..n -> Nat] : SumsOf(h, w, n)
    BY <2>8, SumsExist
  <2> DEFINE m == Len(EditsBetween(s, t))
             Step(f) == [i \in 0..m |-> IF i = 0 THEN 0
                           ELSE f[i - 1] + (IF EditsBetween(s, t)[i] = "=" THEN 0 ELSE m - i + 1)]
             cost == CHOOSE f : f = Step(f)
  <2>10. h = Step(h)
    <3>1. ASSUME NEW i \in 0..n PROVE h[i] = Step(h)[i]
      <4>1. CASE i = 0
        BY <2>1, <2>3, <2>9, <4>1 DEF SumsOf
      <4>2. CASE i # 0
        <5>1. i \in 1..n
          BY <4>2
        <5> QED BY <2>1, <2>3, <2>7, <2>9, <4>2, <5>1 DEF SumsOf
      <4> QED BY <4>1, <4>2
    <3>2. h = [i \in 0..n |-> h[i]]
      BY <2>9
    <3>3. Step(h) = [i \in 0..n |-> Step(h)[i]]
      BY <2>1, <2>3
    <3> HIDE DEF Step
    <3> QED BY <3>1, <3>2, <3>3
  <2>11. cost = Step(cost)
    <3> HIDE DEF Step
    <3> QED BY <2>10
  <2>12. IdSimilarity(s, t) = One - (One * cost[m]) \div ((m * (m + 1)) \div 2)
    BY <1>2, Zenon DEF IdSimilarity
  <2> HIDE DEF cost
  <2>13. cost[0] = 0 /\ \A i \in 1..n : cost[i] = cost[i - 1] + w[i]
    <3>1. \A i \in 0..n : cost[i] = Step(cost)[i]
      <4> HIDE DEF Step
      <4> QED BY <2>11
    <3>2. 0 \in 0..n /\ \A i \in 1..n : i \in 0..n /\ i # 0
      OBVIOUS
    <3> QED BY <2>1, <2>3, <2>7, <3>1, <3>2
  <2> HIDE DEF Step
  <2>14. PICK S : S = {i \in 0..n : /\ cost[i] \in Nat /\ 2 * cost[i] <= i * (2 * n - i + 1)
                                    /\ i >= k => cost[i] # 0}
    OBVIOUS
  <2>15. 0 \in S
    <3>1. 0 \in 0..n /\ ~(0 >= k) /\ 0 * (2 * n - 0 + 1) = 0
      OBVIOUS
    <3> QED BY <2>13, <2>14, <3>1
  <2>16. ASSUME NEW i \in 1..n, i - 1 \in S PROVE i \in S
    <3>1. PICK c \in Nat : /\ c = cost[i - 1] /\ 2 * c <= (i - 1) * (2 * n - (i - 1) + 1)
                           /\ i - 1 >= k => c # 0
      BY <2>14, <2>16
    <3>2. PICK x \in Nat : x = w[i] /\ x <= n - i + 1
      BY <2>8
    <3>3. 2 * (c + x) <= i * (2 * n - i + 1)
      BY <3>1, <3>2, NextCost
    <3>4. cost[i] = c + x
      BY <2>13, <3>1, <3>2
    <3>5. i >= k => c + x # 0
      <4>1. CASE i = k
        BY <2>8, <3>2, <4>1
      <4>2. CASE i # k
        BY <3>1, <3>2, <4>2
      <4> QED BY <4>1, <4>2
    <3>6. i \in 0..n /\ c + x \in Nat
      OBVIOUS
    <3> QED BY <2>14, <3>3, <3>4, <3>5, <3>6
  <2>17. \A i \in 0..n : i \in S
    BY <2>15, <2>16, UpTo
  <2>18. PICK c \in Nat \ {0} : c = cost[n] /\ 2 * c <= n * (n + 1)
    <3>1. n \in S
      BY <2>17
    <3>2. n * (2 * n - n + 1) = n * (n + 1) /\ n >= k
      OBVIOUS
    <3> QED BY <2>14, <3>1, <3>2
  <2>19. PICK q : q = (One * c) \div ((n * (n + 1)) \div 2)
    OBVIOUS
  <2>20. q \in 1..One
    BY <2>6, <2>18, <2>19, CostShare
  <2>21. IdSimilarity(s, t) = One - q
    BY <2>1, <2>3, <2>12, <2>18, <2>19
  <2>22. One - q \in 0..One /\ One - q # One
    BY <2>20, OneIsDivisible
  <2> QED BY <1>2, <2>21, <2>22
<1> QED BY <1>1, <1>2
-----------------------------------------------------------------------------
(* What is compared of elements.                                           *)
LEMMA OneWordIsList ==
  ASSUME NEW x
  PROVE  IsList(<<x>>)
<1>1. <<x>>[1] = x /\ DOMAIN <<x>> = 1..1
  OBVIOUS
<1>2. {<<x>>[i] : i \in DOMAIN <<x>>} = {x}
  BY <1>1
<1>3. <<x>> \in Seq({x})
  OBVIOUS
<1> QED BY <1>2, <1>3 DEF IsList

LEMMA TypeBounds ==
  ASSUME NEW s, NEW t, IsList(s), IsList(t)
  PROVE  /\ TypeSimilarity(s, t) \in 0..One
         /\ Similarity(AttributeTypes(s), AttributeTypes(t)) \in 0..One
<1>1. TypeSimilarity(s, t) \in 0..One
  BY SimilarityBounds, OneIsDivisible DEF TypeSimilarity
<1>2. IsList(AttributeTypes(s)) /\ IsList(AttributeTypes(t))
  BY OneWordIsList DEF AttributeTypes
<1>3. Similarity(AttributeTypes(s), AttributeTypes(t)) \in 0..One
  BY <1>2, SimilarityBounds
<1> QED BY <1>1, <1>3

LEMMA DocumentationBounds ==
  ASSUME NEW s, NEW t, IsList(s), IsList(t)
  PROVE  DocumentationSimilarity(s, t) \in {Missing} \cup 0..One
<1>1. PICK u, v : u = (IF s = <<>> THEN <<"">> ELSE s) /\ v = (IF t = <<>> THEN <<"">> ELSE t)
  OBVIOUS
<1>2. IsList(u) /\ IsList(v)
  BY <1>1, OneWordIsList
<1>3. Similarity(u, v) \in 0..One
  BY <1>2, SimilarityBounds
<1> QED BY <1>1, <1>3 DEF DocumentationSimilarity

LEMMA PartOfOne ==
  ASSUME NEW n \in 0..100
  PROVE  One - (One * n) \div 100 \in 0..One
<1>1. One \in Nat
  BY OneIsDivisible
<1>2. PICK a \in Nat : a = One * n
  BY <1>1
<1>3. a <= One * 100
  <2>1. PICK d \in Nat : 100 = n + d
    <3>1. 100 - n \in Nat /\ 100 = n + (100 - n)
      OBVIOUS
    <3> QED BY <3>1
  <2>2. One * (n + d) = One * n + One * d /\ One * d \in Nat
    BY <1>1
  <2> QED BY <1>1, <1>2, <2>1, <2>2
<1>4. a \div 100 \in 0..One
  BY <1>1, <1>3, Quotient
<1> QED BY <1>1, <1>2, <1>4

LEMMA AssignmentBounds ==
  ASSUME NEW a, NEW b
  PROVE  AssignmentSimilarity(a, b) \in 0..One
<1>1. AssignmentDistance(a, b) \in 0..100
  BY DEF AssignmentDistance
<1> QED BY <1>1, PartOfOne DEF AssignmentSimilarity

LEMMA DefaultValueBounds ==
  ASSUME NEW d, NEW e
  PROVE  DefaultValueSimilarity(d, e) \in {Missing} \cup 0..One
<1>1. One \in Nat /\ One \div 2 \in 0..One
  BY OneIsDivisible
<1> QED BY <1>1 DEF DefaultValueSimilarity
-----------------------------------------------------------------------------
(* What is compared can be compared.                                       *)
LEMMA Comparable ==
  ASSUME VersionsAreInputs
  PROVE  /\ \A version \in {apiv1, apiv2} :
              /\ \A e \in WithPath(version) : IsList(e.name) /\ IsList(e.docstring) /\ IsList(e.path)
              /\ \A e \in version.attributes \cup version.results : IsList(e.name)
              /\ \A e \in version.parameters \cup version.attributes : IsList(e.type)
              /\ \A e \in version.functions \cup version.classes : IsList(e.code)
              /\ \A f \in version.functions : IsList(f.parameters)
              /\ \A c \in version.classes : IsList(c.instance_attributes) /\ IsList(c.methods)
         /\ \A e \in WithPath(apiv1), f \in WithPath(apiv2) : ShortEnough(Len(e.path) + Len(f.path))
<1>1. PICK in \in Inputs : apiv1 = in.v1 /\ apiv2 = in.v2
  BY DEF VersionsAreInputs
<1>2. \A version \in {in.v1, in.v2} :
        /\ \A e \in WithPath(version) : IsList(e.name) /\ IsList(e.docstring) /\ IsList(e.path)
        /\ \A e \in version.attributes \cup version.results : IsList(e.name)
        /\ \A e \in version.parameters \cup version.attributes : IsList(e.type)
        /\ \A e \in version.functions \cup version.classes : IsList(e.code)
        /\ \A f \in version.functions : IsList(f.parameters)
        /\ \A c \in version.classes : IsList(c.instance_attributes) /\ IsList(c.methods)
  BY ElementsAreComparable
<1>3. \A e \in WithPath(in.v1), f \in WithPath(in.v2) : ShortEnough(Len(e.path) + Len(f.path))
  BY ElementsAreComparable DEF ShortEnough
<1> QED BY <1>1, <1>2, <1>3

LEMMA ParametersAreBetween ==
  ASSUME VersionsAreInputs, NEW p \in apiv1.parameters, NEW q \in apiv2.parameters
  PROVE  ParameterSimilarity(p, q) \in 0..One
<1>1. /\ IsList(p.name) /\ IsList(p.docstring) /\ IsList(p.path) /\ IsList(p.type)
      /\ IsList(q.name) /\ IsList(q.docstring) /\ IsList(q.path) /\ IsList(q.type)
      /\ ShortEnough(Len(p.path) + Len(q.path))
  BY Comparable DEF WithPath
<1>2. PICK s1, s2, s3, s4, s5, s6 :
        /\ s1 = Similarity(p.name, q.name) /\ s2 = TypeSimilarity(p.type, q.type)
        /\ s3 = AssignmentSimilarity(p.assigned_by, q.assigned_by)
        /\ s4 = DefaultValueSimilarity(p.default_value, q.default_value)
        /\ s5 = DocumentationSimilarity(p.docstring, q.docstring) /\ s6 = IdSimilarity(p.path, q.path)
  OBVIOUS
<1>3. s1 \in 0..One
  BY <1>1, <1>2, SimilarityBounds
<1>4. s2 \in 0..One /\ s3 \in 0..One
  BY <1>1, <1>2, TypeBounds, AssignmentBounds
<1>5. s4 \in {Missing} \cup 0..One /\ s5 \in {Missing} \cup 0..One
  BY <1>1, <1>2, DefaultValueBounds, DocumentationBounds
<1>6. s6 \in 0..One
  BY <1>1, <1>2, IdSimilarityBounds
<1>7. PICK s : s = <<s1, s2, s3, s4, s5, s6>>
  OBVIOUS
<1>8. s \in Seq({Missing} \cup 0..One) /\ 1 \in 1..Len(s) /\ s[1] >= 0
  BY <1>3, <1>4, <1>5, <1>6, <1>7
<1>9. Mean(s) \in 0..One
  BY <1>8, MeanBounds
<1> QED BY <1>2, <1>7, <1>9 DEF ParameterSimilarity

LEMMA FunctionsAreBetween ==
  ASSUME VersionsAreInputs, NEW f \in apiv1.functions, NEW g \in apiv2.functions
  PROVE  FunctionSimilarity(f, g, f.code, g.code) \in 0..One
<1>1. /\ IsList(f.name) /\ IsList(f.docstring) /\ IsList(f.path) /\ IsList(f.code) /\ IsList(f.parameters)
      /\ IsList(g.name) /\ IsList(g.docstring) /\ IsList(g.path) /\ IsList(g.code) /\ IsList(g.parameters)
      /\ ShortEnough(Len(f.path) + Len(g.path))
  BY Comparable DEF WithPath
<1>2. PICK s1, s2, s3, s4, s5 :
        /\ s1 = Similarity(f.code, g.code) /\ s2 = Similarity(f.name, g.name)
        /\ s3 = Similarity(f.parameters, g.parameters) /\ s4 = IdSimilarity(f.path, g.path)
        /\ s5 = DocumentationSimilarity(f.docstring, g.docstring)
  OBVIOUS
<1>3. s1 \in 0..One /\ s2 \in 0..One /\ s3 \in 0..One
  BY <1>1, <1>2, SimilarityBounds
<1>4. s4 \in 0..One
  BY <1>1, <1>2, IdSimilarityBounds
<1>5. s5 \in {Missing} \cup 0..One
  BY <1>1, <1>2, DocumentationBounds
<1>6. PICK s : s = <<s1, s2, s3, s4, s5>>
  OBVIOUS
<1>7. s \in Seq({Missing} \cup 0..One) /\ 1 \in 1..Len(s) /\ s[1] >= 0
  BY <1>3, <1>4, <1>5, <1>6
<1>8. Mean(s) \in 0..One
  BY <1>7, MeanBounds
<1> QED BY <1>2, <1>6, <1>8 DEF FunctionSimilarity

LEMMA ClassesAreBetween ==
  ASSUME VersionsAreInputs, NEW c \in apiv1.classes, NEW d \in apiv2.classes
  PROVE  ClassSimilarity(c, d, c.code, d.code) \in 0..One
<1>1. /\ IsList(c.name) /\ IsList(c.docstring) /\ IsList(c.path) /\ IsList(c.code)
      /\ IsList(d.name) /\ IsList(d.docstring) /\ IsList(d.path) /\ IsList(d.code)
      /\ IsList(c.instance_attributes) /\ IsList(c.methods)
      /\ IsList(d.instance_attributes) /\ IsList(d.methods)
      /\ ShortEnough(Len(c.path) + Len(d.path))
  BY Comparable DEF WithPath
<1>2. PICK s1, s2, s3, s4, s5, s6 :
        /\ s1 = Similarity(c.name, d.name)
        /\ s2 = Similarity(c.instance_attributes, d.instance_attributes)
        /\ s3 = Similarity(c.methods, d.methods) /\ s4 = Similarity(c.code, d.code)
        /\ s5 = IdSimilarity(c.path, d.path) /\ s6 = DocumentationSimilarity(c.docstring, d.docstring)
  OBVIOUS
<1>3. s1 \in 0..One /\ s2 \in 0..One /\ s3 \in 0..One /\ s4 \in 0..One
  BY <1>1, <1>2, SimilarityBounds
<1>4. s5 \in 0..One
  BY <1>1, <1>2, IdSimilarityBounds
<1>5. s6 \in {Missing} \cup 0..One
  BY <1>1, <1>2, DocumentationBounds
<1>6. PICK s : s = <<s1, s2, s3, s4, s5, s6>>
  OBVIOUS
<1>7. s \in Seq({Missing} \cup 0..One) /\ 1 \in 1..Len(s) /\ s[1] >= 0
  BY <1>3, <1>4, <1>5, <1>6
<1>8. Mean(s) \in 0..One
  BY <1>7, MeanBounds
<1> QED BY <1>2, <1>6, <1>8 DEF ClassSimilarity

LEMMA AttributesAreBetween ==
  ASSUME VersionsAreInputs, NEW a \in apiv1.attributes, NEW b \in apiv2.attributes
  PROVE  AttributeSimilarity(a, b) \in 0..One
<1>1. IsList(a.name) /\ IsList(b.name) /\ IsList(a.type) /\ IsList(b.type)
  BY Comparable
<1>2. PICK s1, s2 : /\ s1 = Similarity(a.name, b.name)
                    /\ s2 = Similarity(AttributeTypes(a.type), AttributeTypes(b.type))
  OBVIOUS
<1>3. s1 \in 0..One /\ s2 \in 0..One
  BY <1>1, <1>2, SimilarityBounds, TypeBounds
<1>4. PICK s : s = <<s1, s2>>
  OBVIOUS
<1>5. s \in Seq({Missing} \cup 0..One) /\ 1 \in 1..Len(s) /\ s[1] >= 0
  BY <1>3, <1>4
<1>6. Mean(s) \in 0..One
  BY <1>5, MeanBounds
<1> QED BY <1>2, <1>4, <1>6 DEF AttributeSimilarity

LEMMA ResultsAreBetween ==
  ASSUME VersionsAreInputs, NEW r \in apiv1.results, NEW s \in apiv2.results
  PROVE  ResultSimilarity(r, s) \in 0..One
<1>1. IsList(r.name) /\ IsList(s.name)
  BY Comparable
<1> QED BY <1>1, SimilarityBounds DEF ResultSimilarity
-----------------------------------------------------------------------------
(* An answer is about elements of both versions.                           *)
AsksAboutElements ==
  /\ answer.kind \in {"none", "parameters", "functions", "classes", "attributes", "results"}
  /\ answer.kind = "parameters" => answer.v1 \in apiv1.parameters /\ answer.v2 \in apiv2.parameters
  /\ answer.kind = "functions" => answer.v1 \in apiv1.functions /\ answer.v2 \in apiv2.functions
  /\ answer.kind = "classes" => answer.v1 \in apiv1.classes /\ answer.v2 \in apiv2.classes
  /\ answer.kind = "attributes" => answer.v1 \in apiv1.attributes /\ answer.v2 \in apiv2.attributes
  /\ answer.kind = "results" => answer.v1 \in apiv1.results /\ answer.v2 \in apiv2.results

AskedIInv == DifferIInv /\ AsksAboutElements

LEMMA AskedStep ==
  ASSUME AskedIInv, [DifferNext]_differVars
  PROVE  AskedIInv'
<1>1. DifferIInv'
  BY DifferStep DEF AskedIInv
<1>2. apiv1' = apiv1 /\ apiv2' = apiv2
  BY DEF DifferNext, ComputeParameterSimilarity, RecallFunctionSimilarity, ComputeFunctionSimilarity,
         ComputeClassSimilarity, ComputeAttributeSimilarity, ComputeResultSimilarity, differVars, api
<1>3. ASSUME NEW p \in apiv1.parameters, NEW q \in apiv2.parameters, ComputeParameterSimilarity(p, q)
      PROVE  AsksAboutElements'
  <2>1. answer'.kind = "parameters" /\ answer'.v1 = p /\ answer'.v2 = q
    BY <1>3 DEF ComputeParameterSimilarity, Answer
  <2> QED BY <1>2, <2>1 DEF AsksAboutElements
<1>4. ASSUME NEW f \in apiv1.functions, NEW g \in apiv2.functions,
             RecallFunctionSimilarity(f, g) \/ ComputeFunctionSimilarity(f, g)
      PROVE  AsksAboutElements'
  <2>1. answer'.kind = "functions" /\ answer'.v1 = f /\ answer'.v2 = g
    BY <1>4 DEF RecallFunctionSimilarity, ComputeFunctionSimilarity, Answer
  <2> QED BY <1>2, <2>1 DEF AsksAboutElements
<1>5. ASSUME NEW c \in apiv1.classes, NEW d \in apiv2.classes, ComputeClassSimilarity(c, d)
      PROVE  AsksAboutElements'
  <2>1. answer'.kind = "classes" /\ answer'.v1 = c /\ answer'.v2 = d
    BY <1>5 DEF ComputeClassSimilarity, Answer
  <2> QED BY <1>2, <2>1 DEF AsksAboutElements
<1>6. ASSUME NEW a \in apiv1.attributes, NEW b \in apiv2.attributes, ComputeAttributeSimilarity(a, b)
      PROVE  AsksAboutElements'
  <2>1. answer'.kind = "attributes" /\ answer'.v1 = a /\ answer'.v2 = b
    BY <1>6 DEF ComputeAttributeSimilarity, Answer
  <2> QED BY <1>2, <2>1 DEF AsksAboutElements
<1>7. ASSUME NEW r \in apiv1.results, NEW s \in apiv2.results, ComputeResultSimilarity(r, s)
      PROVE  AsksAboutElements'
  <2>1. answer'.kind = "results" /\ answer'.v1 = r /\ answer'.v2 = s
    BY <1>7 DEF ComputeResultSimilarity, Answer
  <2> QED BY <1>2, <2>1 DEF AsksAboutElements
<1>8. ASSUME UNCHANGED differVars PROVE AsksAboutElements'
  <2>1. answer' = answer
    BY <1>8 DEF differVars
  <2> QED BY <1>2, <2>1 DEF AskedIInv, AsksAboutElements
<1>9. AsksAboutElements'
  <2>1. CASE DifferNext
    BY <1>3, <1>4, <1>5, <1>6, <1>7, <2>1 DEF DifferNext
  <2> QED BY <1>8, <2>1
<1> QED BY <1>1, <1>9 DEF AskedIInv

THEOREM DifferIsAsked == DifferSpec => []AskedIInv
<1>1. DifferInit => AskedIInv
  <2> SUFFICES ASSUME DifferInit PROVE AskedIInv
    OBVIOUS
  <2>1. answer.kind = "none"
    BY DEF DifferInit
  <2> QED BY <2>1, DifferInitIInv DEF AskedIInv, AsksAboutElements
<1>2. AskedIInv /\ [DifferNext]_differVars => AskedIInv'
  BY AskedStep
<1> QED BY <1>1, <1>2, PTL DEF DifferSpec

(* For any elements and any order of questions: compute_..._similarity     *)
(* answers with a "value between 0 and 1", also when documentation or      *)
(* default values are missing, and with what the two elements themselves   *)
(* have to say (_differ.py 402 to 713).                                    *)
THEOREM AnswersStayFresh == DifferSpec => []AnswersAreFresh
<1>1. AskedIInv => AnswersAreFresh
  <2> SUFFICES ASSUME AskedIInv, answer.kind # "none"
               PROVE  answer.value \in 0..One /\ answer.value = Fresh(answer.kind, answer.v1, answer.v2)
    BY DEF AnswersAreFresh
  <2>1. VersionsAreInputs /\ answer.value = Fresh(answer.kind, answer.v1, answer.v2) /\ AsksAboutElements
    BY DEF AskedIInv, DifferIInv, AnswerIsOwn
  <2>2. CASE answer.kind = "parameters"
    BY <2>1, <2>2, ParametersAreBetween DEF Fresh, AsksAboutElements
  <2>3. CASE answer.kind = "functions"
    BY <2>1, <2>3, FunctionsAreBetween DEF Fresh, AsksAboutElements
  <2>4. CASE answer.kind = "classes"
    BY <2>1, <2>4, ClassesAreBetween DEF Fresh, AsksAboutElements
  <2>5. CASE answer.kind = "attributes"
    BY <2>1, <2>5, AttributesAreBetween DEF Fresh, AsksAboutElements
  <2>6. CASE answer.kind = "results"
    BY <2>1, <2>6, ResultsAreBetween DEF Fresh, AsksAboutElements
  <2> QED BY <2>1, <2>2, <2>3, <2>4, <2>5, <2>6 DEF AsksAboutElements
<1> QED BY <1>1, DifferIsAsked, PTL

(* The table of distance_elements_with_cost_function finds a shortest way  *)
(* from one path to the other, of as many edits as their distance, and the *)
(* edits cost so much that elements have the similarity One only if their  *)
(* paths are the same: for paths of any length and any names in them.      *)
THEOREM PathsStayComparedWell == DifferSpec => []PathsAreComparedWell
<1>1. AskedIInv => PathsAreComparedWell
  <2> SUFFICES ASSUME AskedIInv, answer.kind \in {"parameters", "functions", "classes"}
               PROVE  LET s == answer.v1.path
                          t == answer.v2.path
                      IN  /\ CostOf(EditsBetween(s, t)) = distance(s, t)
                          /\ IdSimilarity(s, t) \in 0..One
                          /\ IdSimilarity(s, t) = One <=> s = t
    BY DEF PathsAreComparedWell
  <2>1. VersionsAreInputs /\ AsksAboutElements
    BY DEF AskedIInv, DifferIInv
  <2>2. answer.v1 \in WithPath(apiv1) /\ answer.v2 \in WithPath(apiv2)
    BY <2>1 DEF AsksAboutElements, WithPath
  <2>3. PICK s, t : s = answer.v1.path /\ t = answer.v2.path
    OBVIOUS
  <2>4. IsList(s) /\ IsList(t) /\ ShortEnough(Len(s) + Len(t))
    BY <2>1, <2>2, <2>3, Comparable
  <2>5. EditsAreRight(EditsBetween(s, t), s, t)
    BY <2>4, EditsOfLists
  <2>6. IdSimilarity(s, t) \in 0..One /\ (IdSimilarity(s, t) = One <=> s = t)
    BY <2>4, IdSimilarityBounds
  <2> QED BY <2>3, <2>5, <2>6 DEF EditsAreRight
<1> QED BY <1>1, DifferIsAsked, PTL
-----------------------------------------------------------------------------
(* Migration.                                                              *)

(* What can be in the lists of an element: what annotations become there,  *)
(* with some review result.                                                *)
Possible(k) ==
  {[class |-> x.class, value |-> x.value, review |-> r, mentions |-> {}] :
     x \in Expected(k), r \in Reviews}

Doubtful(m) == ManyToMany(m) \/ m.similarity < UnsureSimilarity

(* The mapping of an element decides in which store its annotations are.   *)
InTheirStore(k) ==
  /\ reliable[k] # <<>> => \E m \in input.mappings : k[2] \in m.to /\ ~Doubtful(m)
  /\ unsure[k] # <<>> => \E m \in input.mappings : k[2] \in m.to /\ Doubtful(m)

(* Nothing that an annotation so far has become is missing.                *)
AllThere(k) ==
  \A n \in 1..next - 1 : Mapped(input.annotations[n].target, k[2]) =>
    \A x \in Migrated(input.annotations[n], k[2]) : At(x.class, k[2]) = k =>
      \E y \in Range(reliable[k]) \cup Range(unsure[k]) : Content(y) = Content(x)

StoresAreRight(k) ==
  /\ reliable[k] \in Seq(Possible(k)) /\ unsure[k] \in Seq(Possible(k))
  /\ InTheirStore(k) /\ AllThere(k)

IInv ==
  /\ \E S \in Scenarios : input \in S
  /\ next \in 1..Count + 2
  /\ next <= Count + 1 => \A k \in Key : StoresAreRight(k)
  /\ NothingVanishes /\ ConflictsAreMarked /\ OneOfEachClass
-----------------------------------------------------------------------------
(* Numbers and what is computed step by step.                              *)
LEMMA FirstFacts ==
  ASSUME NEW T \in SUBSET Nat, T # {}
  PROVE  First(T) \in T /\ \A j \in T : First(T) <= j
<1>1. \E i \in T : \A j \in T : i <= j
  BY Least
<1> QED BY <1>1 DEF First

-----------------------------------------------------------------------------
(* list.remove takes the first of the equal ones away: the value occurs    *)
(* once less, all others as often as before.                               *)
Occurrences(s, w) == Cardinality({i \in DOMAIN s : s[i] = w})

LEMMA OccurrencesFacts ==
  ASSUME NEW T, NEW s \in Seq(T), NEW w
  PROVE  /\ IsFiniteSet({i \in DOMAIN s : s[i] = w})
         /\ Occurrences(s, w) \in Nat
         /\ Occurrences(s, w) = 0 <=> w \notin Range(s)
<1>1. Len(s) \in Nat /\ DOMAIN s = 1..Len(s)
  OBVIOUS
<1>2. IsFiniteSet(1..Len(s))
  BY <1>1, FS_Interval
<1>3. IsFiniteSet({i \in DOMAIN s : s[i] = w})
  BY <1>1, <1>2, FS_Subset
<1>4. Occurrences(s, w) \in Nat
  BY <1>3, FS_CardinalityType DEF Occurrences
<1>5. Occurrences(s, w) = 0 <=> {i \in DOMAIN s : s[i] = w} = {}
  BY <1>3, FS_EmptySet DEF Occurrences
<1>6. w \in Range(s) <=> {i \in DOMAIN s : s[i] = w} # {}
  BY DEF Range
<1> QED BY <1>3, <1>4, <1>5, <1>6

LEMMA FirstOccurrence ==
  ASSUME NEW T, NEW s \in Seq(T), NEW x, x \in Range(s)
  PROVE  \E i \in 1..Len(s) : /\ s[i] = x
                              /\ RemoveFirst(s, x) = SubSeq(s, 1, i - 1) \o SubSeq(s, i + 1, Len(s))
<1>1. Len(s) \in Nat /\ DOMAIN s = 1..Len(s)
  OBVIOUS
<1> DEFINE I == {i \in 1..Len(s) : s[i] = x}
<1>2. I # {} /\ \E i \in 1..Len(s) : s[i] = x
  BY <1>1 DEF Range
<1>3. RemoveFirst(s, x) = RemoveAt(s, Min(I))
  BY <1>2 DEF RemoveFirst, SelectInSeq
<1>4. Min(I) \in I
  <2>1. I \in SUBSET Nat
    BY <1>1
  <2> HIDE DEF I
  <2>2. \E i \in I : \A j \in I : i <= j
    BY <1>2, <2>1, Least
  <2> QED BY <2>2 DEF Min
<1> QED BY <1>3, <1>4 DEF RemoveAt

LEMMA WithoutOne ==
  ASSUME NEW T, NEW s \in Seq(T), NEW i \in 1..Len(s), NEW t,
         t = SubSeq(s, 1, i - 1) \o SubSeq(s, i + 1, Len(s))
  PROVE  /\ t \in Seq(T) /\ Len(t) = Len(s) - 1
         /\ \A m \in 1..Len(s) - 1 : t[m] = IF m < i THEN s[m] ELSE s[m + 1]
<1>1. Len(s) \in Nat /\ i \in Nat /\ 1 <= i /\ i <= Len(s)
  OBVIOUS
<1>2. PICK u : u = SubSeq(s, 1, i - 1)
  OBVIOUS
<1>3. PICK v : v = SubSeq(s, i + 1, Len(s))
  OBVIOUS
<1>4. u \in Seq(T) /\ Len(u) = i - 1 /\ \A m \in 1..i - 1 : u[m] = s[m]
  BY <1>1, <1>2
<1>5. v \in Seq(T) /\ Len(v) = Len(s) - i /\ \A m \in 1..Len(s) - i : v[m] = s[m + i]
  BY <1>1, <1>3
<1>6. t = u \o v
  BY <1>2, <1>3
<1>7. /\ u \o v \in Seq(T) /\ Len(u \o v) = Len(u) + Len(v)
      /\ \A m \in 1..Len(u) + Len(v) : (u \o v)[m] = IF m <= Len(u) THEN u[m] ELSE v[m - Len(u)]
  BY <1>4, <1>5, ConcatProperties
<1>8. Len(u) + Len(v) = Len(s) - 1
  <2>1. \A n \in Nat : (i - 1) + (n - i) = n - 1
    BY <1>1
  <2>2. Len(u) = i - 1 /\ Len(v) = Len(s) - i
    BY <1>4, <1>5
  <2> QED BY <1>1, <2>1, <2>2
<1>9. ASSUME NEW m \in 1..Len(s) - 1 PROVE t[m] = IF m < i THEN s[m] ELSE s[m + 1]
  <2>1. t[m] = IF m <= i - 1 THEN u[m] ELSE v[m - (i - 1)]
    BY <1>4, <1>6, <1>7, <1>8
  <2>2. CASE m < i
    <3>1. m \in 1..i - 1
      BY <1>1, <2>2
    <3>2. m <= i - 1
      BY <1>1, <3>1
    <3> QED BY <1>4, <2>1, <2>2, <3>1, <3>2
  <2>3. CASE ~(m < i)
    <3>1. m - (i - 1) \in 1..Len(s) - i /\ (m - (i - 1)) + i = m + 1 /\ ~(m <= i - 1)
      <4>1. m \in Nat /\ m <= Len(s) - 1
        BY <1>1
      <4>4. i <= m
        BY <1>1, <2>3, <4>1
      <4>2. \A n \in Nat : m <= n - 1 => m - (i - 1) \in 1..n - i
        BY <1>1, <4>1, <4>4
      <4>3. (m - (i - 1)) + i = m + 1 /\ ~(m <= i - 1)
        BY <1>1, <4>1, <4>4
      <4> QED BY <1>1, <4>1, <4>2, <4>3
    <3>2. v[m - (i - 1)] = s[(m - (i - 1)) + i]
      BY <1>5, <3>1
    <3> QED BY <2>1, <2>3, <3>1, <3>2
  <2> QED BY <2>2, <2>3
<1> QED BY <1>6, <1>7, <1>8, <1>9

LEMMA OneLess ==
  ASSUME NEW T, NEW s \in Seq(T), NEW t \in Seq(T), NEW i \in 1..Len(s), NEW w,
         Len(t) = Len(s) - 1,
         \A m \in 1..Len(s) - 1 : t[m] = IF m < i THEN s[m] ELSE s[m + 1]
  PROVE  Occurrences(t, w) = IF s[i] = w THEN Occurrences(s, w) - 1 ELSE Occurrences(s, w)
<1> DEFINE A == {m \in DOMAIN s : s[m] = w}
           B == {m \in DOMAIN t : t[m] = w}
<1>1. /\ Len(s) \in Nat /\ i \in Nat /\ 1 <= i /\ i <= Len(s)
      /\ DOMAIN s = 1..Len(s) /\ DOMAIN t = 1..Len(s) - 1
  OBVIOUS
<1>2. IsFiniteSet(A) /\ IsFiniteSet(B)
  BY OccurrencesFacts
<1>3. PICK g : g = [m \in B |-> IF m < i THEN m ELSE m + 1]
  OBVIOUS
<1>4. ASSUME NEW m \in B PROVE g[m] \in A \ {i}
  <2>1. m \in 1..Len(s) - 1 /\ t[m] = w
    BY <1>1
  <2>2. CASE m < i
    BY <1>1, <1>3, <2>1, <2>2
  <2>3. CASE ~(m < i)
    BY <1>1, <1>3, <2>1, <2>3
  <2> QED BY <2>2, <2>3
<1>5. ASSUME NEW m \in B, NEW n \in B, g[m] = g[n] PROVE m = n
  BY <1>1, <1>3, <1>5
<1>6. ASSUME NEW n \in A \ {i} PROVE \E m \in B : g[m] = n
  <2>1. n \in 1..Len(s) /\ n # i /\ s[n] = w
    BY <1>1
  <2>2. CASE n < i
    <3>1. n \in 1..Len(s) - 1 /\ t[n] = w
      BY <1>1, <2>1, <2>2
    <3> QED BY <1>1, <1>3, <2>2, <3>1
  <2>3. CASE n > i
    <3>1. n - 1 \in 1..Len(s) - 1 /\ ~(n - 1 < i) /\ (n - 1) + 1 = n
      BY <1>1, <2>1, <2>3
    <3>2. t[n - 1] = w
      BY <2>1, <3>1
    <3> QED BY <1>1, <1>3, <3>1, <3>2
  <2> QED BY <1>1, <2>1, <2>2, <2>3
<1>7. g \in Bijection(B, A \ {i})
  <2> HIDE DEF A, B
  <2>1. g \in [B -> A \ {i}]
    BY <1>3, <1>4
  <2>2. \A m, n \in B : g[m] = g[n] => m = n
    BY <1>5
  <2>3. \A n \in A \ {i} : \E m \in B : g[m] = n
    BY <1>6
  <2> QED BY <2>1, <2>2, <2>3, Zenon DEF Bijection, Injection, Surjection, IsInjective
<1>8. Cardinality(A \ {i}) = Cardinality(B)
  <2> HIDE DEF A, B
  <2>1. ExistsBijection(B, A \ {i})
    BY <1>7 DEF ExistsBijection
  <2> QED BY <1>2, <2>1, FS_Bijection
<1>9. Cardinality(A \ {i}) = IF i \in A THEN Cardinality(A) - 1 ELSE Cardinality(A)
  <2> HIDE DEF A
  <2> QED BY <1>2, FS_RemoveElement
<1>10. i \in A <=> s[i] = w
  BY <1>1
<1>11. Occurrences(t, w) = Cardinality(B) /\ Occurrences(s, w) = Cardinality(A)
  BY DEF Occurrences
<1> HIDE DEF A, B
<1> QED BY <1>8, <1>9, <1>10, <1>11

LEMMA RemoveFirstFacts ==
  ASSUME NEW T, NEW s \in Seq(T), NEW x
  PROVE  /\ RemoveFirst(s, x) \in Seq(T)
         /\ \A w : Occurrences(RemoveFirst(s, x), w) =
                     IF w = x /\ x \in Range(s) THEN Occurrences(s, w) - 1 ELSE Occurrences(s, w)
<1>1. CASE x \notin Range(s)
  <2>1. RemoveFirst(s, x) = s
    BY <1>1 DEF RemoveFirst, Range
  <2> QED BY <1>1, <2>1
<1>2. CASE x \in Range(s)
  <2>1. PICK i \in 1..Len(s) :
          s[i] = x /\ RemoveFirst(s, x) = SubSeq(s, 1, i - 1) \o SubSeq(s, i + 1, Len(s))
    BY <1>2, FirstOccurrence
  <2>2. PICK t : t = RemoveFirst(s, x)
    OBVIOUS
  <2>3. t \in Seq(T) /\ Len(t) = Len(s) - 1
         /\ \A m \in 1..Len(s) - 1 : t[m] = IF m < i THEN s[m] ELSE s[m + 1]
    BY <2>1, <2>2, WithoutOne
  <2>4. ASSUME NEW w PROVE Occurrences(t, w) = IF s[i] = w THEN Occurrences(s, w) - 1 ELSE Occurrences(s, w)
    BY <2>3, OneLess
  <2> QED BY <1>2, <2>1, <2>2, <2>3, <2>4
<1> QED BY <1>1, <1>2

(* The loop that removes the others, step by step.                         *)
Remaining(h, list, s, n) ==
  /\ h[0] = list
  /\ \A i \in 1..n : h[i] = IF Duplicates(s)[i] = Survivor(s) THEN h[i - 1]
                            ELSE RemoveFirst(h[i - 1], MarkConflict(s)[Duplicates(s)[i]])

LEMMA RemoveOthersSteps ==
  ASSUME NEW T, NEW list \in Seq(T), NEW s, Len(Duplicates(s)) \in Nat
  PROVE  \E h \in [0..Len(Duplicates(s)) -> Seq(T)] :
           Remaining(h, list, s, Len(Duplicates(s))) /\ RemoveOthers(list, s) = h[Len(Duplicates(s))]
<1> DEFINE N == Len(Duplicates(s))
           After(i, x) == IF Duplicates(s)[i] = Survivor(s) THEN x
                          ELSE RemoveFirst(x, MarkConflict(s)[Duplicates(s)[i]])
<1>1. N \in Nat
  OBVIOUS
<1>2. ASSUME NEW x \in Seq(T), NEW i PROVE After(i, x) \in Seq(T)
  BY RemoveFirstFacts
<1>3. \A h, n : Remaining(h, list, s, n) <=> h[0] = list /\ \A i \in 1..n : h[i] = After(i, h[i - 1])
  BY DEF Remaining
<1> HIDE DEF N, After
<1>4. PICK F : F = [x \in (1..N) \X Seq(T) |-> After(x[1], x[2])]
  OBVIOUS
<1>5. F \in [(1..N) \X Seq(T) -> Seq(T)]
  <2>1. \A x \in (1..N) \X Seq(T) : After(x[1], x[2]) \in Seq(T)
    BY <1>2
  <2> QED BY <1>4, <2>1
<1>6. PICK f \in [0..N -> Seq(T)] : Remaining(f, list, s, N)
  <2>1. PICK f \in [0..N -> Seq(T)] : Iterates(f, list, F, N)
    BY <1>1, <1>5, Iterated
  <2>2. ASSUME NEW i \in 1..N PROVE f[i] = After(i, f[i - 1])
    <3>1. i - 1 \in 0..N
      BY <1>1
    <3>2. <<i, f[i - 1]>> \in (1..N) \X Seq(T)
      BY <2>1, <3>1
    <3> QED BY <1>4, <2>1, <3>2 DEF Iterates
  <2> QED BY <1>3, <2>1, <2>2 DEF Iterates
<1> DEFINE Step(g) == [i \in 0..N |-> IF i = 0 THEN list ELSE After(i, g[i - 1])]
           rest == CHOOSE g : g = Step(g)
<1>7. f = Step(f)
  <2>1. ASSUME NEW i \in 0..N PROVE f[i] = Step(f)[i]
    <3>1. i = 0 \/ i \in 1..N
      BY <1>1
    <3> QED BY <1>1, <1>3, <1>6, <3>1
  <2> QED BY <2>1
<1>8. rest = Step(rest)
  <2> HIDE DEF Step
  <2> QED BY <1>7
<1>9. RemoveOthers(list, s) = rest[N]
  BY DEF RemoveOthers, N, After
<1> HIDE DEF rest
<1>10. rest[0] = list /\ DOMAIN rest = 0..N /\ \A i \in 1..N : rest[i] = After(i, rest[i - 1])
  <2>1. 0 \in 0..N /\ \A i \in 1..N : i \in 0..N /\ i # 0
    BY <1>1
  <2> QED BY <1>8, <2>1
<1> HIDE DEF Step
<1>11. ASSUME NEW i \in 0..N PROVE rest[i] \in Seq(T)
  <2>1. PICK R : R = {n \in 0..N : rest[n] \in Seq(T)}
    OBVIOUS
  <2>2. 0 \in R
    BY <1>1, <1>10, <2>1
  <2>3. ASSUME NEW n \in 1..N, n - 1 \in R PROVE n \in R
    <3>1. rest[n - 1] \in Seq(T) /\ n \in 0..N
      BY <1>1, <2>1, <2>3
    <3>2. rest[n] = After(n, rest[n - 1])
      BY <1>10
    <3> QED BY <1>2, <2>1, <3>1, <3>2
  <2>4. \A n \in 0..N : n \in R
    BY <1>1, <2>2, <2>3, UpTo
  <2> QED BY <2>1, <2>4
<1>12. rest \in [0..N -> Seq(T)]
  <2>1. \A i \in 0..N : rest[i] \in Seq(T)
    BY <1>1, <1>11
  <2>2. rest = [i \in 0..N |-> rest[i]]
    BY <1>8 DEF Step
  <2> QED BY <2>1, <2>2
<1>13. Remaining(rest, list, s, N)
  BY <1>3, <1>10
<1> QED BY <1>9, <1>12, <1>13 DEF N
-----------------------------------------------------------------------------
(* The list of duplicates: i is the first annotation that has a twin, j    *)
(* its first twin; all from i on are in the list, j once more.             *)
DuplicatesFrom(s, i, j) ==
  /\ i < j /\ s[j].class = s[i].class
  /\ Duplicates(s) \in Seq(i..Len(s)) /\ Len(Duplicates(s)) = (Len(s) - i) + 2
  /\ Duplicates(s)[1] = j
  /\ \A m \in 2..(Len(s) - i) + 2 : Duplicates(s)[m] = i + m - 2
  /\ \A p \in 1..i - 1 : Twins(s, p) = {}

LEMMA DuplicatesFacts ==
  ASSUME NEW T, NEW s \in Seq(T), HasTwins(s)
  PROVE  \E i, j \in 1..Len(s) : DuplicatesFrom(s, i, j)
<1>1. PICK n \in Nat : n = Len(s)
  OBVIOUS
<1>2. DOMAIN s = 1..n
  BY <1>1
<1>3. PICK A : A = {i \in DOMAIN s : Twins(s, i) # {}}
  OBVIOUS
<1>4. A \in SUBSET Nat /\ A # {}
  BY <1>2, <1>3 DEF HasTwins
<1>5. PICK i : i = First(A)
  OBVIOUS
<1>6. i \in A /\ \A p \in A : i <= p
  BY <1>4, <1>5, FirstFacts
<1>7. i \in 1..n /\ \A p \in 1..i - 1 : Twins(s, p) = {}
  <2>1. i \in 1..n
    BY <1>2, <1>3, <1>6
  <2>2. ASSUME NEW p \in 1..i - 1, Twins(s, p) # {} PROVE FALSE
    <3>1. p \in 1..n /\ ~(i <= p)
      BY <2>1
    <3> QED BY <1>2, <1>3, <1>6, <2>2, <3>1
  <2> QED BY <2>1, <2>2
<1>8. PICK j : j = First(Twins(s, i))
  OBVIOUS
<1>9. j \in Twins(s, i)
  <2>1. Twins(s, i) \in SUBSET Nat /\ Twins(s, i) # {}
    BY <1>2, <1>3, <1>6 DEF Twins
  <2> QED BY <1>8, <2>1, FirstFacts
<1>10. j \in 1..n /\ j # i /\ s[j].class = s[i].class
  BY <1>2, <1>9 DEF Twins
<1>11. i < j
  <2>1. i \in Twins(s, j)
    BY <1>2, <1>7, <1>10 DEF Twins
  <2>2. j \in A
    BY <1>2, <1>3, <1>10, <2>1
  <2> QED BY <1>6, <1>7, <1>10, <2>2
<1>12. PICK rest : rest = [k \in 1..(n - i) |-> i + k]
  OBVIOUS
<1>13. rest \in Seq(i..n) /\ Len(rest) = n - i /\ \A k \in 1..(n - i) : rest[k] = i + k
  <2>1. n - i \in Nat
    BY <1>7
  <2>2. \A k \in 1..(n - i) : i + k \in i..n
    BY <1>7
  <2>3. PICK S : S = i..n
    OBVIOUS
  <2>4. PICK m \in Nat : m = n - i
    BY <2>1
  <2>5. rest \in [1..m -> S]
    BY <1>12, <2>2, <2>3, <2>4
  <2>6. rest \in Seq(S) /\ Len(rest) = m
    BY <2>4, <2>5, SeqDef, LenProperties
  <2> QED BY <1>12, <2>3, <2>4, <2>6
<1>14. <<j, i>> \in Seq(i..n) /\ Len(<<j, i>>) = 2 /\ <<j, i>>[1] = j /\ <<j, i>>[2] = i
  <2>1. j \in i..n /\ i \in i..n
    BY <1>7, <1>10, <1>11
  <2>2. PICK S : S = i..n
    OBVIOUS
  <2>3. \A x, y \in S : <<x, y>> \in Seq(S) /\ Len(<<x, y>>) = 2 /\ <<x, y>>[1] = x /\ <<x, y>>[2] = y
    OBVIOUS
  <2> QED BY <2>1, <2>2, <2>3
<1>15. Duplicates(s) = <<j, i>> \o rest
  BY <1>1, <1>3, <1>5, <1>8, <1>12 DEF Duplicates
<1>16. PICK front : front = <<j, i>>
  OBVIOUS
<1>17. front \in Seq(i..n) /\ Len(front) = 2 /\ front[1] = j /\ front[2] = i
  BY <1>14, <1>16
<1>18. /\ Duplicates(s) \in Seq(i..n) /\ Len(Duplicates(s)) = 2 + (n - i)
       /\ \A m \in 1..2 + (n - i) : Duplicates(s)[m] = IF m <= 2 THEN front[m] ELSE rest[m - 2]
  <2>1. Duplicates(s) = front \o rest
    BY <1>15, <1>16
  <2>2. PICK S : S = i..n
    OBVIOUS
  <2>3. front \in Seq(S) /\ rest \in Seq(S)
    BY <1>13, <1>17, <2>2
  <2>4. /\ front \o rest \in Seq(S) /\ Len(front \o rest) = Len(front) + Len(rest)
        /\ \A m \in 1..Len(front) + Len(rest) :
             (front \o rest)[m] = IF m <= Len(front) THEN front[m] ELSE rest[m - Len(front)]
    BY <2>3, ConcatProperties
  <2> QED BY <1>13, <1>17, <2>1, <2>2, <2>4
<1>19. 2 + (n - i) = (n - i) + 2 /\ 1 \in 1..2 + (n - i)
  BY <1>7
<1>20. ASSUME NEW m \in 2..(n - i) + 2 PROVE Duplicates(s)[m] = i + m - 2
  <2>1. m \in 1..2 + (n - i)
    BY <1>7
  <2>2. CASE m = 2
    <3>1. i + 2 - 2 = i
      BY <1>7
    <3> QED BY <1>17, <1>18, <2>1, <2>2, <3>1
  <2>3. CASE m # 2
    <3>1. m - 2 \in 1..(n - i) /\ ~(m <= 2) /\ i + (m - 2) = i + m - 2
      BY <1>7, <2>3
    <3> QED BY <1>13, <1>18, <2>1, <3>1
  <2> QED BY <2>2, <2>3
<1>21. Duplicates(s)[1] = j
  BY <1>17, <1>18, <1>19
<1>22. Len(Duplicates(s)) = (n - i) + 2
  BY <1>18, <1>19
<1>23. DuplicatesFrom(s, i, j)
  BY <1>1, <1>7, <1>10, <1>11, <1>18, <1>20, <1>21, <1>22 DEF DuplicatesFrom
<1> QED BY <1>1, <1>7, <1>10, <1>23

(* The one that stays is in the list; it is the first of the list if that  *)
(* has the same review result, let alone if it is equal.                   *)
LEMMA SurvivorFacts ==
  ASSUME NEW T, \A x \in T : x.review \in Reviews, NEW s \in Seq(T),
         NEW i \in 1..Len(s), NEW j \in 1..Len(s), DuplicatesFrom(s, i, j)
  PROVE  /\ Survivor(s) \in i..Len(s)
         /\ s[j].review = s[Survivor(s)].review => Survivor(s) = j
<1>1. PICK dup : dup = Duplicates(s)
  OBVIOUS
<1>2. PICK n \in Nat : n = Len(s)
  OBVIOUS
<1>3. i \in 1..n /\ DOMAIN s = 1..n /\ \A p \in 1..n : s[p].review \in Reviews
  BY <1>2
<1>4. PICK N \in Nat : N = (n - i) + 2
  BY <1>3
<1>5. dup \in Seq(i..n) /\ Len(dup) = N /\ DOMAIN dup = 1..N /\ dup[1] = j /\ 1 \in 1..N
  BY <1>1, <1>2, <1>3, <1>4 DEF DuplicatesFrom
<1>6. \A k \in 1..N : dup[k] \in i..n /\ dup[k] \in 1..n
  <2>1. \A k \in 1..N : dup[k] \in i..n
    BY <1>5
  <2>2. \A p \in i..n : p \in 1..n
    BY <1>3
  <2> QED BY <2>1, <2>2
<1>7. \A r \in Reviews : Rank[r] \in Nat
  BY DEF Reviews, Rank
<1>8. PICK rank : rank = [k \in 1..N |-> Rank[s[dup[k]].review]]
  OBVIOUS
<1>9. \A k \in 1..N : rank[k] = Rank[s[dup[k]].review] /\ rank[k] \in Nat
  BY <1>3, <1>6, <1>7, <1>8
<1>10. PICK B : B = {k \in 1..N : \A l \in 1..N : ~(rank[l] < rank[k])}
  OBVIOUS
<1>11. B # {}
  <2>1. PICK V : V = {rank[k] : k \in 1..N}
    OBVIOUS
  <2>2. V \in SUBSET Nat /\ V # {}
    BY <1>5, <1>9, <2>1
  <2>3. PICK x \in V : \A y \in V : x <= y
    BY <2>2, Least
  <2>4. PICK k \in 1..N : rank[k] = x
    BY <2>1
  <2>5. \A l \in 1..N : rank[k] <= rank[l] /\ rank[l] \in Nat
    BY <1>9, <2>1, <2>3, <2>4
  <2>6. rank[k] \in Nat
    BY <1>9
  <2>7. \A l \in 1..N : ~(rank[l] < rank[k])
    BY <2>5, <2>6
  <2> QED BY <1>10, <2>7
<1>12. First(B) \in B /\ \A k \in B : First(B) <= k
  <2>1. B \in SUBSET Nat
    BY <1>10
  <2> QED BY <1>11, <2>1, FirstFacts
<1>13. B = {k \in DOMAIN dup : \A l \in DOMAIN dup :
                ~(Rank[s[dup[l]].review] < Rank[s[dup[k]].review])}
  BY <1>5, <1>9, <1>10
<1>14. Survivor(s) = dup[First(B)]
  BY <1>1, <1>13 DEF Survivor
<1>15. ASSUME s[j].review = s[dup[First(B)]].review PROVE dup[First(B)] = j
  <2>1. First(B) \in 1..N
    BY <1>10, <1>12
  <2>2. rank[1] = rank[First(B)]
    BY <1>5, <1>9, <1>15, <2>1
  <2>3. 1 \in B
    BY <1>5, <1>10, <1>12, <2>2
  <2>4. First(B) = 1
    BY <1>12, <2>1, <2>3
  <2> QED BY <1>5, <2>4
<1>16. dup[First(B)] \in i..n
  BY <1>6, <1>10, <1>12
<1> QED BY <1>2, <1>14, <1>15, <1>16

(* An annotation before conflicts are marked.                              *)
Unmarked(x) ==
  /\ x = [class |-> x.class, value |-> x.value, review |-> x.review, mentions |-> {}]
  /\ x.review \in Reviews

ContentsFrom(s, i) == {Content(s[p]) : p \in i..Len(s)}

(* The one that stays mentions all that it is in conflict with; it is none *)
(* of the others in disguise, except that they may be equal to it.         *)
Stays(s, i, j, v) ==
  /\ Content(v) = Content(s[Survivor(s)])
  /\ \A c \in ContentsFrom(s, i) : c = Content(v) \/ c \in v.mentions
  /\ (\E c \in ContentsFrom(s, i) : c # Content(v)) => v.review = "UNSURE"
  /\ v = s[j] => Survivor(s) = j

LEMMA NowUnsure ==
  ASSUME NEW x, NEW a, NEW b, NEW r, NEW m, x = [class |-> a, value |-> b, review |-> r, mentions |-> m],
         NEW y, y = [x EXCEPT !.review = "UNSURE"]
  PROVE  y = [class |-> a, value |-> b, review |-> "UNSURE", mentions |-> m]
  OBVIOUS

LEMMA NowMentions ==
  ASSUME NEW x, NEW a, NEW b, NEW r, NEW m, x = [class |-> a, value |-> b, review |-> r, mentions |-> m],
         NEW o, NEW y, y = [x EXCEPT !.mentions = o]
  PROVE  y = [class |-> a, value |-> b, review |-> r, mentions |-> o]
  OBVIOUS

LEMMA DuplicatesRange ==
  ASSUME NEW s, NEW i \in Nat, NEW j, Len(s) \in Nat, i <= Len(s), DuplicatesFrom(s, i, j)
  PROVE  Range(Duplicates(s)) = i..Len(s)
<1>1. PICK n \in Nat : n = Len(s)
  OBVIOUS
<1>2. PICK dup : dup = Duplicates(s)
  OBVIOUS
<1>3. dup \in Seq(i..n) /\ Len(dup) = (n - i) + 2 /\ \A m \in 2..(n - i) + 2 : dup[m] = i + m - 2
  BY <1>1, <1>2 DEF DuplicatesFrom
<1>4. PICK N \in Nat : N = (n - i) + 2
  BY <1>1
<1>5. DOMAIN dup = 1..N /\ \A k \in 1..N : dup[k] \in i..n
  BY <1>3, <1>4
<1>6. ASSUME NEW p \in i..n PROVE \E k \in 1..N : dup[k] = p
  <2>1. (p - i) + 2 \in 2..(n - i) + 2 /\ (p - i) + 2 \in 1..N /\ i + ((p - i) + 2) - 2 = p
    BY <1>4
  <2> QED BY <1>3, <2>1
<1>7. Range(dup) = i..n
  BY <1>5, <1>6 DEF Range
<1> QED BY <1>1, <1>2, <1>7

LEMMA SurvivorStays ==
  ASSUME NEW T, \A x \in T : Unmarked(x), NEW s \in Seq(T),
         NEW i \in 1..Len(s), NEW j \in 1..Len(s), DuplicatesFrom(s, i, j)
  PROVE  /\ Len(MarkConflict(s)) = Len(s)
         /\ MarkConflict(s) \in Seq(T \cup {MarkConflict(s)[Survivor(s)]})
         /\ \A p \in 1..Len(s) : p # Survivor(s) => MarkConflict(s)[p] = s[p]
         /\ Stays(s, i, j, MarkConflict(s)[Survivor(s)])
<1>1. PICK n \in Nat : n = Len(s)
  OBVIOUS
<1>2. i \in 1..n /\ DOMAIN s = 1..n /\ \A p \in 1..n : s[p] \in T
  BY <1>1
<1>3. PICK first : first = Survivor(s)
  OBVIOUS
<1>4. first \in i..n /\ first \in 1..n /\ (s[j].review = s[first].review => first = j)
  <2>1. \A x \in T : x.review \in Reviews
    BY DEF Unmarked
  <2>2. first \in i..n /\ (s[j].review = s[first].review => first = j)
    BY <1>1, <1>3, <2>1, SurvivorFacts
  <2> QED BY <1>2, <2>2
<1>5. PICK contents : contents = ContentsFrom(s, i)
  OBVIOUS
<1>6. {Content(s[p]) : p \in Range(Duplicates(s))} = contents
  <2>1. Range(Duplicates(s)) = i..Len(s)
    BY <1>1, <1>2, DuplicatesRange
  <2> QED BY <1>5, <2>1 DEF ContentsFrom
<1>7. MarkConflict(s) = IF Cardinality(contents) = 1 THEN s
                        ELSE [s EXCEPT ![first].review = "UNSURE",
                                       ![first].mentions = @ \cup (contents \ {Content(s[first])})]
  BY <1>3, <1>6 DEF MarkConflict
<1>8. Content(s[first]) \in contents
  BY <1>1, <1>4, <1>5 DEF ContentsFrom
<1>9. CASE Cardinality(contents) = 1
  <2>1. contents = {Content(s[first])}
    <3>1. IsFiniteSet(contents)
      <4>1. IsFiniteSet(i..n)
        BY <1>2, FS_Interval
      <4>2. PICK f : f = [p \in i..n |-> Content(s[p])]
        OBVIOUS
      <4>3. f \in Surjection(i..n, contents)
        BY <1>1, <1>5, <4>2 DEF Surjection, ContentsFrom
      <4> QED BY <4>1, <4>3, FS_Surjection
    <3>2. \E c : contents = {c}
      BY <1>9, <3>1, FS_Singleton
    <3> QED BY <1>8, <3>2
  <2>2. MarkConflict(s) = s
    BY <1>7, <1>9
  <2>3. Stays(s, i, j, s[first])
    BY <1>3, <1>4, <1>5, <2>1 DEF Stays
  <2>4. s \in Seq(T \cup {s[first]})
    OBVIOUS
  <2> QED BY <1>3, <2>2, <2>3, <2>4
<1>10. CASE Cardinality(contents) # 1
  <2>1. PICK x : x = s[first]
    OBVIOUS
  <2>2. PICK v : v = [class |-> x.class, value |-> x.value, review |-> "UNSURE",
                      mentions |-> contents \ {Content(x)}]
    OBVIOUS
  <2>3. x = [class |-> x.class, value |-> x.value, review |-> x.review, mentions |-> {}]
    BY <1>2, <1>4, <2>1 DEF Unmarked
  <2>4. MarkConflict(s) = [s EXCEPT ![first] = v]
    <3>1. [s EXCEPT ![first].review = "UNSURE",
                    ![first].mentions = @ \cup (contents \ {Content(s[first])})]
          = [s EXCEPT ![first] = v]
      <4>1. PICK y : y = [x EXCEPT !.review = "UNSURE"]
        OBVIOUS
      <4>2. y = [class |-> x.class, value |-> x.value, review |-> "UNSURE", mentions |-> {}]
        <5>1. PICK a, b, r : a = x.class /\ b = x.value /\ r = x.review
          OBVIOUS
        <5>2. x = [class |-> a, value |-> b, review |-> r, mentions |-> {}]
          BY <2>3, <5>1
        <5>3. y = [class |-> a, value |-> b, review |-> "UNSURE", mentions |-> {}]
          BY <4>1, <5>2, NowUnsure
        <5> QED BY <5>1, <5>3
      <4>3. [y EXCEPT !.mentions = {} \cup (contents \ {Content(x)})] = v
        <5>1. PICK D : D = {} \cup (contents \ {Content(x)})
          OBVIOUS
        <5>2. v = [class |-> x.class, value |-> x.value, review |-> "UNSURE", mentions |-> D]
          BY <2>2, <5>1
        <5>3. PICK u : u = [y EXCEPT !.mentions = D]
          OBVIOUS
        <5>4. u = v
          BY <4>2, <5>2, <5>3, NowMentions
        <5> QED BY <5>1, <5>3, <5>4
      <4>4. PICK t : t = [s EXCEPT ![first].review = "UNSURE"]
        OBVIOUS
      <4>5. t = [s EXCEPT ![first] = y]
        BY <2>1, <4>1, <4>4
      <4>6. DOMAIN t = DOMAIN s /\ t[first] = y /\ t[first].mentions = {}
        BY <1>2, <1>4, <4>2, <4>5
      <4>7. [t EXCEPT ![first].mentions = @ \cup (contents \ {Content(s[first])})] = [t EXCEPT ![first] = v]
        BY <2>1, <4>3, <4>6
      <4>8. [t EXCEPT ![first] = v] = [s EXCEPT ![first] = v]
        BY <4>5, <4>6
      <4> QED BY <4>4, <4>7, <4>8
    <3> QED BY <1>7, <1>10, <3>1
  <2>5. /\ MarkConflict(s) \in Seq(T \cup {v}) /\ Len(MarkConflict(s)) = n
        /\ MarkConflict(s)[first] = v
        /\ \A p \in 1..n : p # first => MarkConflict(s)[p] = s[p]
    <3>1. s \in Seq(T \cup {v})
      OBVIOUS
    <3> QED BY <1>1, <1>4, <2>4, <3>1, ExceptSeq
  <2>6. Content(v) = Content(x)
    BY <2>2 DEF Content
  <2>7. contents # {Content(x)}
    BY <1>10, FS_Singleton
  <2>8. v.mentions # {}
    BY <1>8, <2>1, <2>2, <2>7
  <2>9. v # s[j]
    <3>1. s[j].mentions = {}
      <4>1. s[j] \in T
        BY <1>1, <1>2
      <4> QED BY <4>1 DEF Unmarked
    <3> QED BY <2>8, <3>1
  <2>10. \A c \in contents : c = Content(v) \/ c \in v.mentions
    BY <2>2, <2>6
  <2>11. v.review = "UNSURE"
    BY <2>2
  <2>12. Stays(s, i, j, v)
    BY <1>3, <1>5, <2>1, <2>6, <2>9, <2>10, <2>11 DEF Stays
  <2> QED BY <1>1, <1>3, <2>5, <2>12
<1> QED BY <1>9, <1>10

CountFrom(t, p, w) == Cardinality({q \in p..Len(t) : t[q] = w})

LEMMA CountFromFacts ==
  ASSUME NEW T, NEW t \in Seq(T), NEW p \in Nat, NEW w
  PROVE  /\ CountFrom(t, p, w) \in Nat
         /\ p <= Len(t) => CountFrom(t, p, w) = CountFrom(t, p + 1, w) + (IF t[p] = w THEN 1 ELSE 0)
         /\ p > Len(t) => CountFrom(t, p, w) = 0
<1>1. PICK n \in Nat : n = Len(t)
  OBVIOUS
<1>2. PICK A : A = {q \in p..n : t[q] = w}
  OBVIOUS
<1>3. PICK B : B = {q \in p + 1..n : t[q] = w}
  OBVIOUS
<1>4. IsFiniteSet(A) /\ IsFiniteSet(B)
  <2>1. IsFiniteSet(p..n) /\ IsFiniteSet(p + 1..n)
    BY FS_Interval
  <2>2. A \in SUBSET (p..n) /\ B \in SUBSET (p + 1..n)
    BY <1>2, <1>3
  <2> QED BY <2>1, <2>2, FS_Subset
<1>5. Cardinality(A) \in Nat /\ Cardinality(B) \in Nat
  BY <1>4, FS_CardinalityType
<1>6. CountFrom(t, p, w) = Cardinality(A) /\ CountFrom(t, p + 1, w) = Cardinality(B)
  BY <1>1, <1>2, <1>3 DEF CountFrom
<1>7. ASSUME p <= n PROVE Cardinality(A) = Cardinality(B) + (IF t[p] = w THEN 1 ELSE 0)
  <2>1. p \notin B
    BY <1>3
  <2>2. CASE t[p] = w
    <3>1. A = B \cup {p}
      BY <1>2, <1>3, <1>7, <2>2
    <3>2. Cardinality(B \cup {p}) = Cardinality(B) + 1
      BY <1>4, <2>1, FS_AddElement
    <3> QED BY <2>2, <3>1, <3>2
  <2>3. CASE t[p] # w
    <3>1. A = B
      BY <1>2, <1>3, <1>7, <2>3
    <3> QED BY <1>5, <2>3, <3>1
  <2> QED BY <2>2, <2>3
<1>8. ASSUME p > n PROVE Cardinality(A) = 0
  <2>1. A = {}
    BY <1>2, <1>8
  <2> QED BY <2>1, FS_EmptySet
<1> QED BY <1>1, <1>5, <1>6, <1>7, <1>8

(* Of the annotations from i on, only the one that stays is left, once; of *)
(* those before i, which have no twins, none is there twice.               *)
OnlyOneLeft(s, i, l) ==
  LET v == MarkConflict(s)[Survivor(s)]
  IN  /\ Occurrences(l, v) = 1
      /\ \A w \in Range(l) : /\ Occurrences(l, w) = 1
                             /\ w = v \/ \E q \in 1..i - 1 : w = s[q]

LEMMA OthersRemoved ==
  ASSUME NEW T, \A x \in T : Unmarked(x), NEW s \in Seq(T),
         NEW i \in 1..Len(s), NEW j \in 1..Len(s), DuplicatesFrom(s, i, j)
  PROVE  /\ RemoveOthers(MarkConflict(s), s) \in Seq(T \cup {MarkConflict(s)[Survivor(s)]})
         /\ OnlyOneLeft(s, i, RemoveOthers(MarkConflict(s), s))
<1>1. PICK n \in Nat : n = Len(s)
  OBVIOUS
<1>2. PICK M : M = MarkConflict(s)
  OBVIOUS
<1>3. PICK surv : surv = Survivor(s)
  OBVIOUS
<1>4. PICK v : v = M[surv]
  OBVIOUS
<1>5. PICK V : V = T \cup {v}
  OBVIOUS
<1>6. i \in 1..n /\ j \in 1..n /\ i \in Nat /\ DOMAIN s = 1..n /\ \A p \in 1..n : s[p] \in T
  BY <1>1
<1>7. surv \in i..n /\ surv \in 1..n
  <2>1. \A x \in T : x.review \in Reviews
    BY DEF Unmarked
  <2>2. surv \in i..n
    BY <1>1, <1>3, <2>1, SurvivorFacts
  <2> QED BY <1>6, <2>2
<1>8. M \in Seq(V) /\ Len(M) = n /\ DOMAIN M = 1..n /\ \A p \in 1..n : p # surv => M[p] = s[p]
  <2>1. MarkConflict(s) \in Seq(T \cup {MarkConflict(s)[Survivor(s)]}) /\ Len(MarkConflict(s)) = Len(s)
    BY SurvivorStays
  <2>2. \A p \in 1..Len(s) : p # Survivor(s) => MarkConflict(s)[p] = s[p]
    BY SurvivorStays
  <2>3. M \in Seq(V) /\ Len(M) = n
    BY <1>1, <1>2, <1>3, <1>4, <1>5, <2>1
  <2> QED BY <1>1, <1>2, <1>3, <2>2, <2>3
<1>9. Stays(s, i, j, v)
  <2>1. Stays(s, i, j, MarkConflict(s)[Survivor(s)])
    BY SurvivorStays
  <2> QED BY <1>2, <1>3, <1>4, <2>1
<1>10. \A p \in 1..n : M[p].class = s[p].class
  <2>1. v.class = s[surv].class
    BY <1>3, <1>9 DEF Stays, Content
  <2> QED BY <1>4, <1>7, <1>8, <2>1
<1>11. \A q \in 1..i - 1, p \in 1..n : p # q => M[p] # M[q]
  <2> SUFFICES ASSUME NEW q \in 1..i - 1, NEW p \in 1..n, p # q PROVE M[p] # M[q]
    OBVIOUS
  <2>1. Twins(s, q) = {} /\ q \in 1..n
    BY <1>6 DEF DuplicatesFrom
  <2>2. s[p].class # s[q].class
    BY <1>6, <2>1 DEF Twins
  <2> QED BY <1>10, <2>1, <2>2
<1>12. PICK N \in Nat : N = (n - i) + 2
  BY <1>6
<1>13. PICK dup : dup = Duplicates(s)
  OBVIOUS
<1>14. Len(dup) = N /\ dup[1] = j /\ \A m \in 2..N : dup[m] = i + m - 2
  BY <1>1, <1>12, <1>13 DEF DuplicatesFrom
<1>15. PICK h \in [0..N -> Seq(V)] : Remaining(h, M, s, N) /\ RemoveOthers(M, s) = h[N]
  <2>1. M \in Seq(V) /\ Len(Duplicates(s)) \in Nat
    BY <1>8, <1>13, <1>14
  <2>2. \E h \in [0..Len(Duplicates(s)) -> Seq(V)] :
          Remaining(h, M, s, Len(Duplicates(s))) /\ RemoveOthers(M, s) = h[Len(Duplicates(s))]
    BY <2>1, RemoveOthersSteps
  <2> QED BY <1>13, <1>14, <2>2
<1>16. /\ h[0] = M
       /\ \A m \in 1..N : h[m] = IF dup[m] = surv THEN h[m - 1] ELSE RemoveFirst(h[m - 1], M[dup[m]])
  BY <1>2, <1>3, <1>13, <1>15 DEF Remaining
<1>17. \A m \in 0..N : h[m] \in Seq(V)
  BY <1>15
<1>18. \A m \in 0..N : \A w : Occurrences(h[m], w) \in Nat
  BY <1>17, OccurrencesFacts
<1>19. \A m \in 0..N : \A w, x :
         Occurrences(RemoveFirst(h[m], x), w) =
           IF w = x /\ x \in Range(h[m]) THEN Occurrences(h[m], w) - 1 ELSE Occurrences(h[m], w)
  BY <1>17, RemoveFirstFacts
<1>20. \A m \in 0..N : \A w : w \in Range(h[m]) <=> Occurrences(h[m], w) # 0
  BY <1>17, OccurrencesFacts
<1>21. \A p \in Nat : \A w : CountFrom(M, p, w) \in Nat
  BY <1>8, CountFromFacts
<1>22. \A p \in Nat : \A w : p <= n =>
         CountFrom(M, p, w) = CountFrom(M, p + 1, w) + (IF M[p] = w THEN 1 ELSE 0)
  <2> SUFFICES ASSUME NEW p \in Nat, NEW w, p <= n
               PROVE  CountFrom(M, p, w) = CountFrom(M, p + 1, w) + (IF M[p] = w THEN 1 ELSE 0)
    OBVIOUS
  <2>1. M \in Seq(V) /\ p <= Len(M)
    BY <1>8
  <2> QED BY <2>1, CountFromFacts
<1>23. \A w : CountFrom(M, n + 1, w) = 0
  <2>1. n + 1 \in Nat /\ n + 1 > n
    OBVIOUS
  <2> QED BY <1>8, <2>1, CountFromFacts
(* Nothing comes back.                                                     *)
<1>24. \A w : \A m \in 0..N : Occurrences(h[m], w) <= Occurrences(M, w)
  <2> SUFFICES ASSUME NEW w PROVE \A m \in 0..N : Occurrences(h[m], w) <= Occurrences(M, w)
    OBVIOUS
  <2>1. PICK S : S = {m \in Nat : m <= N => Occurrences(h[m], w) <= Occurrences(M, w)}
    OBVIOUS
  <2>2. 0 \in S
    <3>1. Occurrences(M, w) \in Nat
      BY <1>8, OccurrencesFacts
    <3> QED BY <1>16, <2>1, <3>1
  <2>3. ASSUME NEW m \in S PROVE m + 1 \in S
    <3> SUFFICES ASSUME m + 1 <= N PROVE Occurrences(h[m + 1], w) <= Occurrences(M, w)
      BY <2>1
    <3>1. m \in 0..N /\ m + 1 \in 1..N /\ (m + 1) - 1 = m /\ Occurrences(h[m], w) <= Occurrences(M, w)
      BY <2>1
    <3>2. h[m + 1] = IF dup[m + 1] = surv THEN h[m] ELSE RemoveFirst(h[m], M[dup[m + 1]])
      BY <1>16, <3>1
    <3>3. Occurrences(h[m + 1], w) \in {Occurrences(h[m], w), Occurrences(h[m], w) - 1}
      BY <1>19, <3>1, <3>2
    <3>4. Occurrences(h[m], w) \in Nat /\ Occurrences(M, w) \in Nat
      BY <1>8, <1>18, <3>1, OccurrencesFacts
    <3> QED BY <3>1, <3>3, <3>4
  <2>4. S = Nat
    BY <2>1, <2>2, <2>3, SetInduction
  <2>5. ASSUME NEW m \in 0..N PROVE Occurrences(h[m], w) <= Occurrences(M, w)
    <3>1. m \in S /\ m <= N
      BY <2>4
    <3> QED BY <2>1, <3>1
  <2> QED BY <2>5
(* Each value from i on has gone when the list of duplicates ends, only    *)
(* that of the one that stays is there once.                               *)
<1> DEFINE Passed(k) == IF surv < i + k THEN 1 ELSE 0
           Less(k) == \A p \in i..n : M[p] # v =>
                        Occurrences(h[k + 1], M[p]) <= CountFrom(M, i + k, M[p])
           Once(k) == Occurrences(h[k + 1], v) = CountFrom(M, i + k, v) + Passed(k)
           K == {k \in Nat : k + 1 <= N => Less(k) /\ Once(k)}
<1>25. \A p \in i..n : Occurrences(M, M[p]) = CountFrom(M, i, M[p])
  <2> SUFFICES ASSUME NEW p \in i..n PROVE Occurrences(M, M[p]) = CountFrom(M, i, M[p])
    OBVIOUS
  <2>1. \A q \in 1..n : M[q] = M[p] => q \in i..n
    <3> SUFFICES ASSUME NEW q \in 1..n, M[q] = M[p], q \notin i..n PROVE FALSE
      OBVIOUS
    <3>1. q \in 1..i - 1 /\ p \in 1..n /\ p # q
      BY <1>6
    <3> QED BY <1>11, <3>1
  <2>2. {q \in 1..n : M[q] = M[p]} = {q \in i..n : M[q] = M[p]}
    BY <1>6, <2>1
  <2> QED BY <1>8, <2>2 DEF Occurrences, CountFrom
<1>26. 0 \in K
  <2> SUFFICES ASSUME 0 + 1 <= N PROVE Less(0) /\ Once(0)
    OBVIOUS
  <2>1. 0 + 1 = 1 /\ 1 \in 1..N /\ 1 - 1 = 0 /\ 0 \in 0..N /\ 1 \in 0..N /\ i + 0 = i
    BY <1>6
  <2>2. h[1] = IF j = surv THEN h[0] ELSE RemoveFirst(h[0], M[j])
    BY <1>14, <1>16, <2>1
  <2>3. j # surv => M[j] # v
    <3> SUFFICES ASSUME j # surv, M[j] = v PROVE FALSE
      OBVIOUS
    <3>1. s[j] = v
      BY <1>6, <1>8
    <3> QED BY <1>3, <1>9, <3>1 DEF Stays
  <2>4. Occurrences(h[1], v) = Occurrences(M, v)
    BY <1>16, <1>19, <2>1, <2>2, <2>3
  <2>5. Occurrences(M, v) = CountFrom(M, i, v)
    BY <1>4, <1>7, <1>25
  <2>6. ~(surv < i)
    BY <1>6, <1>7
  <2>7. CountFrom(M, i, v) \in Nat
    BY <1>6, <1>21
  <2>8. Once(0)
    BY <2>1, <2>4, <2>5, <2>6, <2>7
  <2>9. Less(0)
    <3> SUFFICES ASSUME NEW p \in i..n PROVE Occurrences(h[0 + 1], M[p]) <= CountFrom(M, i + 0, M[p])
      OBVIOUS
    <3>1. Occurrences(h[1], M[p]) <= Occurrences(M, M[p])
      BY <1>24, <2>1
    <3> QED BY <1>25, <2>1, <3>1
  <2> QED BY <2>8, <2>9
<1>27. ASSUME NEW k \in K PROVE k + 1 \in K
  <2> SUFFICES ASSUME (k + 1) + 1 <= N PROVE Less(k + 1) /\ Once(k + 1)
    OBVIOUS
  <2>1. PICK p \in Nat : p = i + k
    BY <1>6
  <2>2. /\ k \in Nat /\ k + 1 <= N /\ k + 1 \in 0..N /\ k + 2 \in 1..N /\ (k + 2) - 1 = k + 1
        /\ k + 2 \in 2..N /\ k + 2 \in 0..N /\ (k + 1) + 1 = k + 2
    OBVIOUS
  <2>3. p \in i..n /\ p \in 1..n /\ p <= n /\ i + (k + 2) - 2 = p /\ i + (k + 1) = p + 1
    BY <1>6, <1>12, <2>1, <2>2
  <2>4. Less(k) /\ Once(k)
    BY <2>2
  <2>5. dup[k + 2] = p
    BY <1>14, <2>2, <2>3
  <2>6. h[k + 2] = IF p = surv THEN h[k + 1] ELSE RemoveFirst(h[k + 1], M[p])
    BY <1>16, <2>2, <2>5
  <2>7. \A w : /\ Occurrences(h[k + 1], w) \in Nat
               /\ CountFrom(M, p, w) \in Nat /\ CountFrom(M, p + 1, w) \in Nat
               /\ CountFrom(M, p, w) = CountFrom(M, p + 1, w) + (IF M[p] = w THEN 1 ELSE 0)
    <3> SUFFICES ASSUME NEW w
                 PROVE  /\ Occurrences(h[k + 1], w) \in Nat
                        /\ CountFrom(M, p, w) \in Nat /\ CountFrom(M, p + 1, w) \in Nat
                        /\ CountFrom(M, p, w) = CountFrom(M, p + 1, w) + (IF M[p] = w THEN 1 ELSE 0)
      OBVIOUS
    <3>1. Occurrences(h[k + 1], w) \in Nat
      BY <1>18, <2>2
    <3>2. CountFrom(M, p, w) \in Nat /\ CountFrom(M, p + 1, w) \in Nat
      BY <1>21
    <3>3. CountFrom(M, p, w) = CountFrom(M, p + 1, w) + (IF M[p] = w THEN 1 ELSE 0)
      BY <1>22, <2>3
    <3> QED BY <3>1, <3>2, <3>3
  <2>8. \A w : Occurrences(RemoveFirst(h[k + 1], M[p]), w) =
                 IF w = M[p] /\ Occurrences(h[k + 1], w) # 0 THEN Occurrences(h[k + 1], w) - 1
                                                             ELSE Occurrences(h[k + 1], w)
    <3> SUFFICES ASSUME NEW w
                 PROVE  Occurrences(RemoveFirst(h[k + 1], M[p]), w) =
                          IF w = M[p] /\ Occurrences(h[k + 1], w) # 0 THEN Occurrences(h[k + 1], w) - 1
                                                                      ELSE Occurrences(h[k + 1], w)
      OBVIOUS
    <3>1. M[p] \in Range(h[k + 1]) <=> Occurrences(h[k + 1], M[p]) # 0
      BY <1>20, <2>2
    <3> QED BY <1>19, <2>2, <3>1
  <2>9. Less(k + 1)
    <3> SUFFICES ASSUME NEW q \in i..n, M[q] # v
                 PROVE  Occurrences(h[k + 2], M[q]) <= CountFrom(M, p + 1, M[q])
      BY <2>2, <2>3
    <3>1. PICK w : w = M[q]
      OBVIOUS
    <3>2. Occurrences(h[k + 1], w) <= CountFrom(M, p, w) /\ w # v
      BY <2>1, <2>4, <3>1
    <3>3. CASE M[p] = w
      <4>1. p # surv
        BY <1>4, <3>2, <3>3
      <4>2. Occurrences(h[k + 2], w) = IF Occurrences(h[k + 1], w) # 0 THEN Occurrences(h[k + 1], w) - 1 ELSE 0
        BY <2>6, <2>8, <3>3, <4>1
      <4>3. CountFrom(M, p, w) = CountFrom(M, p + 1, w) + 1
        BY <2>7, <3>3
      <4>4. Occurrences(h[k + 1], w) \in Nat /\ CountFrom(M, p + 1, w) \in Nat
        BY <2>7
      <4> QED BY <3>1, <3>2, <4>2, <4>3, <4>4
    <3>4. CASE M[p] # w
      <4>1. Occurrences(h[k + 2], w) = Occurrences(h[k + 1], w)
        BY <2>6, <2>8, <3>4
      <4>2. CountFrom(M, p, w) = CountFrom(M, p + 1, w) + 0
        BY <2>7, <3>4
      <4>3. CountFrom(M, p + 1, w) \in Nat
        BY <2>7
      <4> QED BY <3>1, <3>2, <4>1, <4>2, <4>3
    <3> QED BY <3>3, <3>4
  <2>10. Once(k + 1)
    <3>1. Occurrences(h[k + 1], v) = CountFrom(M, p, v) + Passed(k)
      BY <2>1, <2>4
    <3>2. Occurrences(h[k + 1], v) \in Nat /\ CountFrom(M, p, v) \in Nat /\ CountFrom(M, p + 1, v) \in Nat
      BY <2>7
    <3>3. Occurrences(h[k + 2], v) = CountFrom(M, p + 1, v) + (IF surv < p + 1 THEN 1 ELSE 0)
      <4>1. CASE p = surv
        <5>1. Occurrences(h[k + 2], v) = Occurrences(h[k + 1], v) /\ ~(surv < p) /\ surv < p + 1
          BY <2>6, <4>1
        <5>2. CountFrom(M, p, v) = CountFrom(M, p + 1, v) + 1
          BY <1>4, <2>7, <4>1
        <5> QED BY <2>1, <3>1, <3>2, <5>1, <5>2
      <4>2. CASE p # surv /\ M[p] = v
        <5>1. CountFrom(M, p, v) = CountFrom(M, p + 1, v) + 1
          BY <2>7, <4>2
        <5>2. surv < p + 1 <=> surv < p
          BY <1>7, <4>2
        <5>3. Occurrences(h[k + 1], v) # 0
          BY <2>1, <3>1, <3>2, <5>1
        <5>4. Occurrences(h[k + 2], v) = Occurrences(h[k + 1], v) - 1
          BY <2>6, <2>8, <4>2, <5>3
        <5> QED BY <2>1, <3>1, <3>2, <5>1, <5>2, <5>4
      <4>3. CASE p # surv /\ M[p] # v
        <5>1. CountFrom(M, p, v) = CountFrom(M, p + 1, v) + 0
          BY <2>7, <4>3
        <5>2. surv < p + 1 <=> surv < p
          BY <1>7, <4>3
        <5>3. Occurrences(h[k + 2], v) = Occurrences(h[k + 1], v)
          BY <2>6, <2>8, <4>3
        <5> QED BY <2>1, <3>1, <3>2, <5>1, <5>2, <5>3
      <4> QED BY <4>1, <4>2, <4>3
    <3> QED BY <2>2, <2>3, <3>3
  <2> QED BY <2>9, <2>10
<1>28. (\A p \in i..n : M[p] # v => Occurrences(h[N], M[p]) = 0) /\ Occurrences(h[N], v) = 1
  <2>1. PICK k \in Nat : k = (n - i) + 1
    BY <1>6
  <2>2. k + 1 = N /\ k + 1 <= N /\ i + k = n + 1 /\ N \in 0..N
    BY <1>6, <1>12, <2>1
  <2>3. K = Nat
    <3>1. K \in SUBSET Nat
      OBVIOUS
    <3> HIDE DEF K
    <3> QED BY <1>26, <1>27, <3>1, SetInduction
  <2>4. Less(k) /\ Once(k)
    BY <2>2, <2>3
  <2>5. surv < i + k
    BY <1>7, <2>2
  <2>6. Occurrences(h[N], v) = 1
    <3>1. Occurrences(h[k + 1], v) = CountFrom(M, i + k, v) + 1
      BY <2>4, <2>5
    <3>2. CountFrom(M, i + k, v) = 0
      BY <1>23, <2>2
    <3> QED BY <2>2, <3>1, <3>2
  <2>7. ASSUME NEW p \in i..n, M[p] # v PROVE Occurrences(h[N], M[p]) = 0
    <3>1. Occurrences(h[N], M[p]) <= 0
      BY <1>23, <2>2, <2>4, <2>7
    <3>2. Occurrences(h[N], M[p]) \in Nat
      BY <1>18, <2>2
    <3> QED BY <3>1, <3>2
  <2> QED BY <2>6, <2>7
<1> HIDE DEF Passed, Less, Once, K
<1>29. ASSUME NEW w \in Range(h[N])
       PROVE  Occurrences(h[N], w) = 1 /\ (w = v \/ \E q \in 1..i - 1 : w = s[q])
  <2>1. N \in 0..N
    OBVIOUS
  <2>2. Occurrences(h[N], w) \in Nat /\ Occurrences(h[N], w) # 0
    BY <1>18, <1>20, <2>1
  <2>3. Occurrences(h[N], w) <= Occurrences(M, w) /\ Occurrences(M, w) \in Nat
    BY <1>8, <1>24, <2>1, OccurrencesFacts
  <2>4. Occurrences(M, w) # 0
    BY <2>2, <2>3
  <2>5. w \in Range(M)
    BY <1>8, <2>4, OccurrencesFacts
  <2>6. PICK p \in 1..n : M[p] = w
    BY <1>8, <2>5 DEF Range
  <2>7. CASE p \in i..n
    <3>1. w = v
      BY <1>28, <2>2, <2>6, <2>7
    <3> QED BY <1>28, <3>1
  <2>8. CASE p \notin i..n
    <3>1. p \in 1..i - 1 /\ p # surv
      BY <1>6, <1>7, <2>8
    <3>2. w = s[p]
      BY <1>8, <2>6, <3>1
    <3>3. {q \in DOMAIN M : M[q] = w} = {p}
      BY <1>8, <1>11, <2>6, <3>1
    <3>4. Occurrences(M, w) = 1
      BY <3>3, FS_Singleton DEF Occurrences
    <3>5. Occurrences(h[N], w) = 1
      BY <2>2, <2>3, <3>4
    <3> QED BY <3>1, <3>2, <3>5
  <2> QED BY <2>7, <2>8
<1>30. PICK l : l = RemoveOthers(M, s)
  OBVIOUS
<1>31. l = h[N] /\ l \in Seq(V)
  BY <1>15, <1>17, <1>30
<1>32. OnlyOneLeft(s, i, l)
  <2>1. Occurrences(l, v) = 1
    BY <1>28, <1>31
  <2>2. \A w \in Range(l) : Occurrences(l, w) = 1 /\ (w = v \/ \E q \in 1..i - 1 : w = s[q])
    BY <1>29, <1>31
  <2>3. v = MarkConflict(s)[Survivor(s)]
    BY <1>2, <1>3, <1>4
  <2> QED BY <2>1, <2>2, <2>3 DEF OnlyOneLeft
<1>33. V = T \cup {MarkConflict(s)[Survivor(s)]}
  BY <1>2, <1>3, <1>4, <1>5
<1> QED BY <1>2, <1>30, <1>31, <1>32, <1>33

(* So no two annotations that are left have the same class, and if all had *)
(* the same before, the one that stays is alone.                           *)
LEMMA NoTwinsLeft ==
  ASSUME NEW T, \A x \in T : Unmarked(x), NEW s \in Seq(T), HasTwins(s),
         NEW l, l = RemoveOthers(MarkConflict(s), s)
  PROVE  /\ ~HasTwins(l)
         /\ (\A x, y \in T : x.class = y.class) =>
              \E v : l = <<v>> /\ \E j \in 1..Len(s) : DuplicatesFrom(s, 1, j) /\ Stays(s, 1, j, v)
<1>1. PICK i \in 1..Len(s), j \in 1..Len(s) : DuplicatesFrom(s, i, j)
  BY DuplicatesFacts
<1>2. PICK v : v = MarkConflict(s)[Survivor(s)]
  OBVIOUS
<1>3. l \in Seq(T \cup {v}) /\ OnlyOneLeft(s, i, l)
  <2>1. /\ RemoveOthers(MarkConflict(s), s) \in Seq(T \cup {MarkConflict(s)[Survivor(s)]})
        /\ OnlyOneLeft(s, i, RemoveOthers(MarkConflict(s), s))
    BY <1>1, OthersRemoved
  <2> QED BY <1>2, <2>1
<1>4. Occurrences(l, v) = 1
  BY <1>2, <1>3 DEF OnlyOneLeft
<1>5. \A w \in Range(l) : Occurrences(l, w) = 1 /\ (w = v \/ \E q \in 1..i - 1 : w = s[q])
  BY <1>2, <1>3 DEF OnlyOneLeft
<1>6. PICK n \in Nat : n = Len(s)
  OBVIOUS
<1>7. i \in 1..n /\ DOMAIN s = 1..n /\ \A p \in 1..n : s[p] \in T
  BY <1>6
<1>8. Stays(s, i, j, v)
  BY <1>1, <1>2, SurvivorStays
<1>9. Survivor(s) \in i..n /\ v.class = s[Survivor(s)].class
  <2>1. \A x \in T : x.review \in Reviews
    BY DEF Unmarked
  <2>2. Survivor(s) \in i..n
    BY <1>1, <1>6, <2>1, SurvivorFacts
  <2> QED BY <1>8, <2>2 DEF Stays, Content
<1>10. ASSUME NEW q \in 1..i - 1, NEW p \in 1..n, p # q PROVE s[p].class # s[q].class
  <2>1. Twins(s, q) = {} /\ q \in 1..n
    BY <1>1, <1>7 DEF DuplicatesFrom
  <2>2. p \in DOMAIN s \ {q}
    BY <1>7, <1>10
  <2>3. p \notin Twins(s, q)
    BY <2>1
  <2> QED BY <2>2, <2>3 DEF Twins
<1>11. ASSUME NEW x \in Range(l), NEW y \in Range(l), x.class = y.class PROVE x = y
  <2>1. ASSUME NEW q \in 1..i - 1 PROVE v.class # s[q].class
    <3>1. Survivor(s) \in 1..n /\ Survivor(s) # q
      BY <1>7, <1>9
    <3> QED BY <1>9, <1>10, <3>1
  <2>2. \A q, p \in 1..i - 1 : s[p].class = s[q].class => p = q
    <3>1. \A p \in 1..i - 1 : p \in 1..n
      BY <1>7
    <3> QED BY <1>10, <3>1
  <2> QED BY <1>5, <1>11, <2>1, <2>2
<1>12. Len(l) \in Nat /\ DOMAIN l = 1..Len(l)
  BY <1>3
<1>13. ASSUME NEW w \in Range(l), NEW a \in DOMAIN l, NEW b \in DOMAIN l, l[a] = w, l[b] = w PROVE a = b
  <2>1. IsFiniteSet({m \in DOMAIN l : l[m] = w})
    BY <1>3, OccurrencesFacts
  <2>2. Cardinality({m \in DOMAIN l : l[m] = w}) = 1
    BY <1>5 DEF Occurrences
  <2>3. \E m : {m0 \in DOMAIN l : l[m0] = w} = {m}
    BY <2>1, <2>2, FS_Singleton
  <2> QED BY <1>13, <2>3
<1>14. ~HasTwins(l)
  <2> SUFFICES ASSUME NEW a \in DOMAIN l, NEW b \in DOMAIN l \ {a}, l[b].class = l[a].class PROVE FALSE
    BY DEF HasTwins, Twins
  <2>1. l[a] \in Range(l) /\ l[b] \in Range(l)
    BY DEF Range
  <2>2. l[a] = l[b]
    BY <1>11, <2>1
  <2> QED BY <1>13, <2>1, <2>2
<1>15. ASSUME \A x, y \in T : x.class = y.class PROVE i = 1 /\ l = <<v>>
  <2>1. i = 1
    <3> SUFFICES ASSUME i # 1 PROVE FALSE
      OBVIOUS
    <3>1. 1 \in 1..i - 1 /\ i \in 1..n /\ 1 \in 1..n /\ i # 1
      BY <1>7
    <3>2. s[i].class # s[1].class
      BY <1>10, <3>1
    <3> QED BY <1>7, <1>15, <3>1, <3>2
  <2>2. \A w \in Range(l) : w = v
    BY <1>5, <2>1
  <2>3. v \in Range(l)
    <3>1. Occurrences(l, v) = 0 <=> v \notin Range(l)
      BY <1>3, OccurrencesFacts
    <3> QED BY <1>4, <3>1
  <2>4. \A a \in 1..Len(l) : l[a] = v
    BY <1>12, <2>2 DEF Range
  <2>5. \A a, b \in 1..Len(l) : a = b
    BY <1>12, <1>13, <2>3, <2>4
  <2>6. Len(l) # 0
    BY <1>12, <2>3 DEF Range
  <2>7. Len(l) = 1
    <3>1. 1 \in 1..Len(l) /\ Len(l) \in 1..Len(l)
      BY <1>12, <2>6
    <3> QED BY <2>5, <3>1
  <2>8. l = <<v>>
    BY <1>3, <2>4, <2>7
  <2> QED BY <2>1, <2>8
<1>16. ASSUME \A x, y \in T : x.class = y.class
       PROVE  \E y : l = <<y>> /\ \E k \in 1..Len(s) : DuplicatesFrom(s, 1, k) /\ Stays(s, 1, k, y)
  BY <1>1, <1>8, <1>15, <1>16
<1> QED BY <1>14, <1>16
-----------------------------------------------------------------------------
(* All annotations of an element are in one store, as one mapping brings   *)
(* them there; the other stays empty.                                      *)
LeftOf(s) == IF HasTwins(s) THEN RemoveOthers(MarkConflict(s), s) ELSE s

LEMMA NothingLeftOfNothing ==
  ASSUME NEW s, Len(Duplicates(s)) \in Nat
  PROVE  RemoveOthers(<<>>, s) = <<>>
<1>1. PICK T : T = {}
  OBVIOUS
<1>2. <<>> \in Seq(T)
  OBVIOUS
<1>3. PICK h \in [0..Len(Duplicates(s)) -> Seq(T)] : RemoveOthers(<<>>, s) = h[Len(Duplicates(s))]
  BY <1>2, RemoveOthersSteps
<1>4. RemoveOthers(<<>>, s) \in Seq(T)
  BY <1>3
<1>5. \A t \in Seq(T) : t = <<>>
  BY <1>1
<1> QED BY <1>4, <1>5

LEMMA HandledInOneStore ==
  ASSUME NEW T, \A x \in T : Unmarked(x), NEW k, NEW s \in Seq(T),
         \/ reliable[k] = s /\ unsure[k] = <<>>
         \/ reliable[k] = <<>> /\ unsure[k] = s
  PROVE  HandledIn(k) = <<LeftOf(s), <<>>>> \/ HandledIn(k) = <<<<>>, LeftOf(s)>>
<1>1. reliable[k] \o unsure[k] = s
  <2>1. s \o <<>> = s /\ <<>> \o s = s
    BY ConcatEmptySeq
  <2> QED BY <2>1
<1>2. CASE ~HasTwins(s)
  <2>1. HandledIn(k) = <<reliable[k], unsure[k]>>
    BY <1>1, <1>2 DEF HandledIn
  <2> QED BY <1>2, <2>1 DEF LeftOf
<1>3. CASE HasTwins(s)
  <2>1. PICK M : M = MarkConflict(s)
    OBVIOUS
  <2>2. PICK i \in 1..Len(s), j \in 1..Len(s) : DuplicatesFrom(s, i, j)
    BY <1>3, DuplicatesFacts
  <2>3. Len(Duplicates(s)) \in Nat
    BY <2>2 DEF DuplicatesFrom
  <2>4. PICK V : M \in Seq(V) /\ Len(M) = Len(s)
    <3>1. MarkConflict(s) \in Seq(T \cup {MarkConflict(s)[Survivor(s)]}) /\ Len(MarkConflict(s)) = Len(s)
      BY <2>2, SurvivorStays
    <3> QED BY <2>1, <3>1
  <2>5. PICK n \in Nat : n = Len(s)
    OBVIOUS
  <2>6. SubSeq(M, 1, n) = M /\ SubSeq(M, n + 1, n) = <<>> /\ SubSeq(M, 1, 0) = <<>>
    BY <2>4, <2>5
  <2>7. HandledIn(k) = <<RemoveOthers(SubSeq(M, 1, Len(reliable[k])), s),
                         RemoveOthers(SubSeq(M, Len(reliable[k]) + 1, n), s)>>
    BY <1>1, <1>3, <2>1, <2>5 DEF HandledIn
  <2>8. RemoveOthers(<<>>, s) = <<>> /\ RemoveOthers(M, s) = LeftOf(s)
    BY <1>3, <2>1, <2>3, NothingLeftOfNothing DEF LeftOf
  <2>9. CASE reliable[k] = s
    BY <2>5, <2>6, <2>7, <2>8, <2>9
  <2>10. CASE reliable[k] = <<>>
    <3>1. Len(reliable[k]) = 0 /\ 0 + 1 = 1
      BY <2>10
    <3> QED BY <2>6, <2>7, <2>8, <3>1
  <2> QED BY <2>9, <2>10
<1> QED BY <1>2, <1>3

(* What is saved of the annotations of one class.                          *)
LEMMA OneIsSaved ==
  ASSUME NEW T, \A x \in T : Unmarked(x), \A x, y \in T : x.class = y.class, NEW s \in Seq(T)
  PROVE  \/ s = <<>> /\ LeftOf(s) = <<>>
         \/ \E v : /\ LeftOf(s) = <<v>>
                   /\ \E p \in 1..Len(s) : Content(v) = Content(s[p])
                   /\ \A p \in 1..Len(s) : Content(s[p]) \in {Content(v)} \cup v.mentions
                   /\ \A p, q \in 1..Len(s) : Content(s[p]) # Content(s[q]) => v.review = "UNSURE"
<1>1. PICK n \in Nat : n = Len(s) /\ DOMAIN s = 1..n /\ \A p \in 1..n : s[p] \in T
  OBVIOUS
<1>2. CASE n = 0
  <2>1. s = <<>> /\ ~HasTwins(s)
    BY <1>1, <1>2 DEF HasTwins
  <2> QED BY <2>1 DEF LeftOf
<1>3. CASE n = 1
  <2>1. ~HasTwins(s)
    BY <1>1, <1>3 DEF HasTwins, Twins
  <2>2. LeftOf(s) = s /\ s = <<s[1]>>
    BY <1>1, <1>3, <2>1 DEF LeftOf
  <2>3. 1 \in 1..Len(s) /\ \A p \in 1..Len(s) : p = 1
    BY <1>1, <1>3
  <2> QED BY <2>2, <2>3
<1>4. CASE n > 1
  <2>1. HasTwins(s)
    <3>1. 1 \in DOMAIN s /\ 2 \in DOMAIN s \ {1} /\ s[2].class = s[1].class
      BY <1>1, <1>4
    <3> QED BY <3>1 DEF HasTwins, Twins
  <2>2. PICK v : LeftOf(s) = <<v>> /\ \E j \in 1..Len(s) : DuplicatesFrom(s, 1, j) /\ Stays(s, 1, j, v)
    BY <2>1, NoTwinsLeft DEF LeftOf
  <2>3. PICK j \in 1..Len(s) : DuplicatesFrom(s, 1, j) /\ Stays(s, 1, j, v)
    BY <2>2
  <2>4. ContentsFrom(s, 1) = {Content(s[p]) : p \in 1..n}
    BY <1>1 DEF ContentsFrom
  <2>5. Survivor(s) \in 1..n
    <3>1. \A x \in T : x.review \in Reviews
      BY DEF Unmarked
    <3>2. 1 \in 1..Len(s)
      BY <1>1, <1>4
    <3> QED BY <1>1, <2>3, <3>1, <3>2, SurvivorFacts
  <2>6. \E p \in 1..n : Content(v) = Content(s[p])
    BY <2>3, <2>5 DEF Stays
  <2>7. \A p \in 1..n : Content(s[p]) = Content(v) \/ Content(s[p]) \in v.mentions
    BY <2>3, <2>4 DEF Stays
  <2>8. ASSUME NEW p \in 1..n, NEW q \in 1..n, Content(s[p]) # Content(s[q]) PROVE v.review = "UNSURE"
    <3>1. Content(s[p]) # Content(v) \/ Content(s[q]) # Content(v)
      BY <2>8
    <3>2. \E c \in ContentsFrom(s, 1) : c # Content(v)
      BY <2>4, <3>1
    <3> QED BY <2>3, <3>2 DEF Stays
  <2> QED BY <1>1, <2>2, <2>6, <2>7, <2>8
<1> QED BY <1>1, <1>2, <1>3, <1>4
-----------------------------------------------------------------------------
(* What an annotation becomes at an element is one annotation or none.     *)
OneOrNone(S) == S = {} \/ \E x : S = {x} /\ Unmarked(x)

LEMMA BecomesOne ==
  ASSUME NEW class, NEW value, NEW review \in Reviews
  PROVE  OneOrNone(Become(class, value, review))
<1>1. PICK x : x = [class |-> class, value |-> value, review |-> review, mentions |-> {}]
  OBVIOUS
<1>2. Unmarked(x) /\ Become(class, value, review) = {x}
  BY <1>1 DEF Unmarked, Become
<1> QED BY <1>2 DEF OneOrNone

LEMMA KeepsOne ==
  ASSUME NEW a
  PROVE  /\ \A review \in Reviews : OneOrNone(Keep(a, review))
         /\ \A ok : OneOrNone(KeepIf(ok, a))
         /\ OneOrNone(AsTodo(a))
<1>1. \A review \in Reviews : OneOrNone(Keep(a, review))
  BY BecomesOne DEF Keep
<1>2. "NONE" \in Reviews /\ "UNSURE" \in Reviews
  BY DEF Reviews
<1>3. \A ok : OneOrNone(KeepIf(ok, a))
  BY <1>1, <1>2 DEF KeepIf
<1>4. OneOrNone(AsTodo(a))
  BY <1>2, BecomesOne DEF AsTodo
<1> QED BY <1>1, <1>3, <1>4

LEMMA MigratedIsOne ==
  ASSUME NEW a, a.review \in Reviews, NEW f
  PROVE  OneOrNone(Migrated(a, f))
<1>1. \A review \in Reviews : OneOrNone(Keep(a, review))
  BY KeepsOne
<1>2. \A ok : OneOrNone(KeepIf(ok, a))
  BY KeepsOne
<1>3. OneOrNone(AsTodo(a))
  BY KeepsOne
<1>4. \A c, v : \A review \in Reviews : OneOrNone(Become(c, v, review))
  BY BecomesOne
<1>5. "NONE" \in Reviews /\ "UNSURE" \in Reviews
  BY DEF Reviews
<1>6. OneOrNone({})
  BY DEF OneOrNone
<1>7. OneOrNone(MigrateFixed(a, f))
  BY <1>2, <1>3 DEF MigrateFixed
<1>8. OneOrNone(MigrateOptional(a, f))
  BY <1>2, <1>3 DEF MigrateOptional
<1>9. OneOrNone(MigrateRequired(a, f))
  BY <1>1, <1>3, <1>5 DEF MigrateRequired
<1>10. OneOrNone(MigrateBoundary(a, f))
  BY <1>1, <1>3, <1>4, <1>5 DEF MigrateBoundary
<1>11. OneOrNone(MigrateEnum(a, f))
  BY <1>1, <1>5, <1>6 DEF MigrateEnum
<1>12. OneOrNone(MigrateDescription(a, f))
  BY <1>2 DEF MigrateDescription
<1>13. OneOrNone(MigrateRename(a, f))
  BY <1>1, <1>5 DEF MigrateRename
<1>14. OneOrNone(MigrateMove(a, f))
  BY <1>2, <1>3 DEF MigrateMove
<1>15. OneOrNone(MigrateRemove(a, f))
  BY <1>1, <1>3, <1>5 DEF MigrateRemove
<1>16. OneOrNone(MigrateCalledAfter(a, f))
  BY <1>3, <1>4 DEF MigrateCalledAfter
<1>17. OneOrNone(MigrateGroup(a, f))
  BY <1>3, <1>4, <1>5 DEF MigrateGroup
<1> QED
  BY <1>1, <1>5, <1>7, <1>8, <1>9, <1>10, <1>11, <1>12, <1>13, <1>14, <1>15, <1>16, <1>17 DEF Migrated
-----------------------------------------------------------------------------
(* All this depends on the input only, which stays the same.               *)
LEMMA SameMigrated ==
  ASSUME input' = input, NEW a, NEW f
  PROVE  Migrated(a, f)' = Migrated(a, f)
<1>1. \A e : Data(e)' = Data(e)
  BY DEF Data
<1>2. \A e : MappingOf(e)' = MappingOf(e)
  BY DEF MappingOf
<1>3. \A e, g : Mapped(e, g)' = Mapped(e, g)
  BY <1>2 DEF Mapped
<1>4. MigrateFixed(a, f)' = MigrateFixed(a, f)
  BY <1>1 DEF MigrateFixed
<1>5. MigrateOptional(a, f)' = MigrateOptional(a, f)
  BY <1>1 DEF MigrateOptional
<1>6. MigrateRequired(a, f)' = MigrateRequired(a, f)
  BY <1>1 DEF MigrateRequired
<1>7. MigrateBoundary(a, f)' = MigrateBoundary(a, f)
  BY <1>1 DEF MigrateBoundary
<1>8. MigrateEnum(a, f)' = MigrateEnum(a, f)
  BY <1>1 DEF MigrateEnum
<1>9. MigrateDescription(a, f)' = MigrateDescription(a, f)
  BY <1>1 DEF MigrateDescription
<1>10. MigrateRename(a, f)' = MigrateRename(a, f)
  BY <1>1 DEF MigrateRename
<1>11. MigrateMove(a, f)' = MigrateMove(a, f)
  BY <1>1 DEF MigrateMove
<1>12. MigrateRemove(a, f)' = MigrateRemove(a, f)
  BY DEF MigrateRemove
<1>13. CalledBefore(a, f)' = CalledBefore(a, f)
  BY <1>1, <1>3 DEF CalledBefore
<1>14. MigrateCalledAfter(a, f)' = MigrateCalledAfter(a, f)
  BY <1>1, <1>13 DEF MigrateCalledAfter
<1>15. MigrateGroup(a, f)' = MigrateGroup(a, f)
  <2>1. \A p : Replacing(p, f)' = Replacing(p, f)
    BY <1>3 DEF Replacing
  <2>2. \A parameters : Replacements(parameters, f)' = Replacements(parameters, f)
    BY <2>1 DEF Replacements
  <2>3. \A parameters : Bits(parameters, f)' = Bits(parameters, f)
    <3>1. \A parameters, i : Place(parameters, i)' = Place(parameters, i)
      <4> SUFFICES ASSUME NEW parameters, NEW i
                   PROVE  Cardinality({j \in 1..i : MappingOf(parameters[j])' # {}}) =
                          Cardinality({j \in 1..i : MappingOf(parameters[j]) # {}})
        BY DEF Place
      <4>1. {j \in 1..i : MappingOf(parameters[j])' # {}} = {j \in 1..i : MappingOf(parameters[j]) # {}}
        BY <1>2
      <4> QED BY <4>1, Zenon
    <3> QED BY <2>1, <3>1 DEF Bits
  <2> QED BY <2>2, <2>3 DEF MigrateGroup
<1> QED
  BY <1>4, <1>5, <1>6, <1>7, <1>8, <1>9, <1>10, <1>11, <1>12, <1>14, <1>15 DEF Migrated

LEMMA SameExpected ==
  ASSUME input' = input, NEW k
  PROVE  Expected(k)' = Expected(k) /\ Possible(k)' = Possible(k)
<1>1. \A a, f : Migrated(a, f)' = Migrated(a, f)
  BY SameMigrated
<1>2. \A e, f : Mapped(e, f)' = Mapped(e, f)
  BY DEF Mapped, MappingOf
<1>3. Expected(k)' = Expected(k)
  BY <1>1, <1>2 DEF Expected
<1>4. Possible(k)' = Possible(k)
  BY <1>3 DEF Possible
<1> QED BY <1>3, <1>4
-----------------------------------------------------------------------------
(* The inputs, and the steps.                                              *)
LEMMA InputFacts ==
  ASSUME NEW S \in Scenarios, input \in S
  PROVE  /\ input.annotations \in Seq(Range(input.annotations)) /\ Count \in Nat
         /\ DOMAIN input.annotations = 1..Count
         /\ \A a \in Range(input.annotations) : a.review \in Reviews
         /\ \A m, n \in input.mappings : m # n => m.from \cap n.from = {} /\ m.to \cap n.to = {}
<1>1. input.annotations \in Seq(Range(input.annotations))
  BY MigrationInputs
<1>2. \A a \in Range(input.annotations) : a.review \in Reviews
  BY MigrationInputs
<1>3. \A m, n \in input.mappings : m # n => m.from \cap n.from = {} /\ m.to \cap n.to = {}
  BY MigrationInputs
<1>4. Count \in Nat /\ DOMAIN input.annotations = 1..Count
  BY <1>1 DEF Count
<1> QED BY <1>1, <1>2, <1>3, <1>4

LEMMA InitIInv == Init => IInv
<1> SUFFICES ASSUME Init PROVE IInv
  OBVIOUS
<1>1. PICK S \in Scenarios : input \in S
  BY DEF Init
<1>2. Count \in Nat
  BY <1>1, InputFacts
<1>3. next = 1 /\ \A k \in Key : reliable[k] = <<>> /\ unsure[k] = <<>>
  BY DEF Init
<1>4. ~Done
  BY <1>2, <1>3 DEF Done
<1>5. ASSUME NEW k \in Key PROVE StoresAreRight(k)
  <2>1. reliable[k] = <<>> /\ unsure[k] = <<>>
    BY <1>3
  <2>2. InTheirStore(k)
    BY <2>1 DEF InTheirStore
  <2>3. 1..next - 1 = {}
    BY <1>3
  <2>4. AllThere(k)
    BY <2>3 DEF AllThere
  <2> QED BY <2>1, <2>2, <2>4 DEF StoresAreRight
<1>6. next \in 1..Count + 2
  BY <1>2, <1>3
<1> QED BY <1>1, <1>4, <1>5, <1>6 DEF IInv, NothingVanishes, ConflictsAreMarked, OneOfEachClass

(* SetToSeq, of one annotation or none.                                    *)
LEMMA SequenceOfOne ==
  ASSUME NEW x
  PROVE  SetToSeq({x}) = <<x>>
<1>1. Cardinality({x}) = 1
  BY FS_Singleton
<1>2. PICK f : f = [i \in 1..1 |-> x]
  OBVIOUS
<1>3. f \in [1..1 -> {x}] /\ IsInjective(f)
  BY <1>2 DEF IsInjective
<1>4. SetToSeq({x}) \in [1..1 -> {x}]
  BY <1>1, <1>3 DEF SetToSeq
<1>5. \A g \in [1..1 -> {x}] : g = <<x>>
  OBVIOUS
<1> QED BY <1>4, <1>5

LEMMA SequenceOfNone == SetToSeq({}) = <<>>
<1>1. Cardinality({}) = 0
  BY FS_EmptySet
<1>2. PICK f : f = [i \in 1..0 |-> 0]
  OBVIOUS
<1>3. f \in [1..0 -> {}] /\ IsInjective(f)
  BY <1>2 DEF IsInjective
<1>4. SetToSeq({}) \in [1..0 -> {}]
  BY <1>1, <1>3 DEF SetToSeq
<1>5. \A g \in [1..0 -> {}] : g = <<>>
  OBVIOUS
<1> QED BY <1>4, <1>5

LEMMA AddedFacts ==
  ASSUME NEW P, NEW k \in Key, NEW store, store[k] \in Seq(P), NEW new, OneOrNone(new[k[2]]),
         \A x \in new[k[2]] : At(x.class, k[2]) = k => x \in P
  PROVE  /\ Added(store, new)[k] \in Seq(P)
         /\ \A x \in Range(store[k]) : x \in Range(Added(store, new)[k])
         /\ \A x \in new[k[2]] : At(x.class, k[2]) = k => x \in Range(Added(store, new)[k])
         /\ new[k[2]] = {} => Added(store, new)[k] = store[k]
<1>1. PICK S : S = {x \in new[k[2]] : At(x.class, k[2]) = k}
  OBVIOUS
<1>2. PICK s \in Seq(P) : s = store[k]
  OBVIOUS
<1>3. Added(store, new)[k] = s \o SetToSeq(S)
  BY <1>1, <1>2 DEF Added
<1>4. CASE S = {}
  <2>1. Added(store, new)[k] = s
    BY <1>3, <1>4, SequenceOfNone, ConcatEmptySeq
  <2> QED BY <1>1, <1>2, <1>4, <2>1
<1>5. CASE S # {}
  <2>1. PICK x : S = {x}
    BY <1>1, <1>5 DEF OneOrNone
  <2>2. x \in P
    BY <1>1, <2>1
  <2>3. Added(store, new)[k] = Append(s, x)
    BY <1>3, <2>1, <2>2, SequenceOfOne, AppendIsConcat
  <2>4. /\ Append(s, x) \in Seq(P) /\ Len(s) \in Nat /\ DOMAIN s = 1..Len(s)
        /\ DOMAIN Append(s, x) = 1..Len(s) + 1
        /\ (\A i \in 1..Len(s) : Append(s, x)[i] = s[i]) /\ Append(s, x)[Len(s) + 1] = x
    BY <2>2
  <2>5. \A y \in Range(s) : y \in Range(Append(s, x))
    BY <2>4 DEF Range
  <2>6. x \in Range(Append(s, x))
    BY <2>4 DEF Range
  <2>7. \A y \in new[k[2]] : At(y.class, k[2]) = k => y = x
    BY <1>1, <2>1
  <2>8. new[k[2]] # {}
    BY <1>1, <2>1
  <2> QED BY <1>2, <2>3, <2>4, <2>5, <2>6, <2>7, <2>8
<1> QED BY <1>4, <1>5

LEMMA SkipIInv ==
  ASSUME IInv, SkipUnmapped
  PROVE  IInv'
<1>1. PICK S \in Scenarios : input \in S
  BY DEF IInv
<1>2. Count \in Nat /\ next \in 1..Count + 2 /\ next <= Count /\ MappingOf(Current.target) = {}
  BY <1>1, InputFacts DEF IInv, SkipUnmapped
<1>3. next' = next + 1 /\ input' = input /\ reliable' = reliable /\ unsure' = unsure
  BY DEF SkipUnmapped
<1>4. Count' = Count
  BY <1>3 DEF Count
<1>5. ~Done'
  BY <1>2, <1>3, <1>4 DEF Done
<1>6. ASSUME NEW k \in Key PROVE StoresAreRight(k)'
  <2>1. StoresAreRight(k)
    BY <1>2 DEF IInv
  <2>2. Possible(k)' = Possible(k)
    BY <1>3, SameExpected
  <2>3. InTheirStore(k)'
    BY <1>3, <2>1 DEF StoresAreRight, InTheirStore, Doubtful
  <2>4. AllThere(k)'
    <3> SUFFICES ASSUME NEW n \in 1..next, Mapped(input.annotations[n].target, k[2]),
                        NEW x \in Migrated(input.annotations[n], k[2]), At(x.class, k[2]) = k
                 PROVE  \E y \in Range(reliable[k]) \cup Range(unsure[k]) : Content(y) = Content(x)
      <4>1. \A a, f : Migrated(a, f)' = Migrated(a, f)
        BY <1>3, SameMigrated
      <4>2. \A e, f : Mapped(e, f)' = Mapped(e, f)
        BY <1>3 DEF Mapped, MappingOf
      <4>3. next' - 1 = next
        BY <1>2, <1>3
      <4> QED BY <1>3, <4>1, <4>2, <4>3 DEF AllThere
    <3>1. n # next
      BY <1>2 DEF Current, Mapped
    <3>2. n \in 1..next - 1
      BY <1>2, <3>1
    <3> QED BY <2>1, <3>2 DEF StoresAreRight, AllThere
  <2> QED BY <1>3, <2>1, <2>2, <2>3, <2>4 DEF StoresAreRight
<1>7. next' \in 1..Count' + 2
  BY <1>2, <1>3, <1>4
<1> QED
  BY <1>1, <1>3, <1>5, <1>6, <1>7 DEF IInv, NothingVanishes, ConflictsAreMarked, OneOfEachClass

(* What is added for the next annotation to a store, as it is or marked as *)
(* unsure.                                                                 *)
IsVersionOf(new, f, m) ==
  \/ new[f] = IF f \in m.to THEN Migrated(Current, f) ELSE {}
  \/ new[f] = {[x EXCEPT !.review = "UNSURE"] : x \in IF f \in m.to THEN Migrated(Current, f) ELSE {}}

LEMMA VersionFacts ==
  ASSUME NEW S \in Scenarios, input \in S, next \in 1..Count, NEW m \in MappingOf(Current.target),
         NEW k \in Key, NEW new, IsVersionOf(new, k[2], m)
  PROVE  /\ OneOrNone(new[k[2]])
         /\ \A x \in new[k[2]] : At(x.class, k[2]) = k => x \in Possible(k)
         /\ k[2] \notin m.to => new[k[2]] = {}
         /\ k[2] \in m.to => \A x \in Migrated(Current, k[2]) :
                                \E y \in new[k[2]] : Content(y) = Content(x) /\ y.class = x.class
<1>1. PICK f : f = k[2]
  OBVIOUS
<1>2. CASE f \notin m.to
  <2>1. new[f] = {}
    BY <1>1, <1>2 DEF IsVersionOf
  <2> QED BY <1>1, <1>2, <2>1 DEF OneOrNone
<1>3. CASE f \in m.to
  <2>1. Current \in Range(input.annotations) /\ Current.review \in Reviews
    <3>1. DOMAIN input.annotations = 1..Count
      BY InputFacts
    <3>2. Current \in Range(input.annotations)
      BY <3>1 DEF Current, Range
    <3> QED BY <3>2, InputFacts
  <2>2. OneOrNone(Migrated(Current, f))
    BY <2>1, MigratedIsOne
  <2>3. CASE Migrated(Current, f) = {}
    <3>1. new[f] = {}
      BY <1>1, <1>3, <2>3 DEF IsVersionOf
    <3> QED BY <1>1, <1>3, <2>3, <3>1 DEF OneOrNone
  <2>4. CASE Migrated(Current, f) # {}
    <3>1. PICK x : Migrated(Current, f) = {x} /\ Unmarked(x)
      BY <2>2, <2>4 DEF OneOrNone
    <3>2. PICK z : z = [x EXCEPT !.review = "UNSURE"]
      OBVIOUS
    <3>3. new[f] = {x} \/ new[f] = {z}
      BY <1>1, <1>3, <3>1, <3>2 DEF IsVersionOf
    <3>4. Unmarked(z) /\ z.class = x.class /\ Content(z) = Content(x)
          /\ z = [class |-> x.class, value |-> x.value, review |-> "UNSURE", mentions |-> {}]
      <4>1. PICK a, b, r : a = x.class /\ b = x.value /\ r = x.review
        OBVIOUS
      <4>2. x = [class |-> a, value |-> b, review |-> r, mentions |-> {}]
        BY <3>1, <4>1 DEF Unmarked
      <4>3. z = [class |-> a, value |-> b, review |-> "UNSURE", mentions |-> {}]
        BY <3>2, <4>2, NowUnsure
      <4>4. z.class = a /\ z.value = b /\ z.review = "UNSURE" /\ z.mentions = {}
        BY <4>3
      <4>5. "UNSURE" \in Reviews
        BY DEF Reviews
      <4> QED BY <4>1, <4>3, <4>4, <4>5 DEF Unmarked, Content
    <3>5. PICK y : new[f] = {y} /\ Unmarked(y) /\ y.class = x.class /\ Content(y) = Content(x)
                   /\ y = [class |-> x.class, value |-> x.value, review |-> y.review, mentions |-> {}]
      <4>1. CASE new[f] = {x}
        BY <3>1, <4>1 DEF Unmarked
      <4>2. CASE new[f] = {z}
        <5>1. z.review = "UNSURE"
          BY <3>4
        <5> QED BY <3>4, <4>2, <5>1
      <4> QED BY <3>3, <4>1, <4>2
    <3>6. ASSUME At(y.class, f) = k PROVE y \in Possible(k)
      <4>1. x \in Expected(k)
        <5>1. Mapped(Current.target, f)
          BY <1>3 DEF Mapped
        <5>2. x \in Migrated(Current, f)
          BY <3>1
        <5>3. At(x.class, f) = k
          BY <3>5, <3>6
        <5> QED BY <1>1, <2>1, <5>1, <5>2, <5>3 DEF Expected
      <4>2. y.review \in Reviews
        BY <3>5 DEF Unmarked
      <4> QED BY <3>5, <4>1, <4>2 DEF Possible
    <3> QED BY <1>1, <1>3, <3>1, <3>5, <3>6 DEF OneOrNone
  <2> QED BY <2>3, <2>4
<1> QED BY <1>2, <1>3

LEMMA MigrateIInv ==
  ASSUME IInv, Migrate
  PROVE  IInv'
<1>1. PICK S \in Scenarios : input \in S
  BY DEF IInv
<1>2. Count \in Nat /\ next \in 1..Count
  BY <1>1, InputFacts DEF IInv, Migrate
<1>3. next' = next + 1 /\ input' = input
  BY DEF Migrate
<1>4. Count' = Count
  BY <1>3 DEF Count
<1>5. ~Done'
  BY <1>2, <1>3, <1>4 DEF Done
<1>6. PICK m \in MappingOf(Current.target) : MigrateTo(m)
  BY DEF Migrate
<1>7. m \in input.mappings /\ Current.target \in m.from
  BY DEF MappingOf
<1>8. PICK new, added, doubtful :
        /\ \A k \in Key : IsVersionOf(new, k[2], m)
        /\ doubtful = Doubtful(m)
        /\ added = Added(IF doubtful THEN unsure ELSE reliable, new)
        /\ reliable' = IF doubtful THEN reliable ELSE added
        /\ unsure' = IF doubtful THEN added ELSE unsure
  <2>1. PICK as : as = [f \in V2 |-> IF f \in m.to THEN Migrated(Current, f) ELSE {}]
    OBVIOUS
  <2>2. PICK doubted : doubted = [f \in V2 |-> {[x EXCEPT !.review = "UNSURE"] : x \in as[f]}]
    OBVIOUS
  <2>3. \A k \in Key : k[2] \in V2
    BY DEF Key
  <2>4. \A k \in Key : IsVersionOf(as, k[2], m)
    BY <2>1, <2>3 DEF IsVersionOf
  <2>5. \A k \in Key : IsVersionOf(doubted, k[2], m)
    BY <2>1, <2>2, <2>3 DEF IsVersionOf
  <2>6. IF Doubtful(m)
          THEN unsure' = Added(unsure, as) /\ reliable' = reliable
          ELSE /\ reliable' = Added(reliable, IF m.similarity >= ReliableSimilarity THEN as ELSE doubted)
               /\ unsure' = unsure
    BY <1>6, <2>1, <2>2 DEF MigrateTo, Doubtful
  <2>7. CASE Doubtful(m)
    BY <2>4, <2>6, <2>7
  <2>8. CASE ~Doubtful(m)
    <3>1. PICK new : new = IF m.similarity >= ReliableSimilarity THEN as ELSE doubted
      OBVIOUS
    <3>2. \A k \in Key : IsVersionOf(new, k[2], m)
      BY <2>4, <2>5, <3>1
    <3>3. reliable' = Added(reliable, new) /\ unsure' = unsure
      BY <2>6, <2>8, <3>1
    <3> QED BY <2>8, <3>2, <3>3
  <2> QED BY <2>7, <2>8
<1>9. ASSUME NEW k \in Key PROVE StoresAreRight(k)'
  <2>1. StoresAreRight(k)
    BY <1>2 DEF IInv
  <2>2. PICK P : P = Possible(k) /\ Possible(k)' = P
    BY <1>3, SameExpected
  <2>3. /\ OneOrNone(new[k[2]])
        /\ \A x \in new[k[2]] : At(x.class, k[2]) = k => x \in P
        /\ k[2] \notin m.to => new[k[2]] = {}
        /\ k[2] \in m.to => \A x \in Migrated(Current, k[2]) :
                               \E y \in new[k[2]] : Content(y) = Content(x) /\ y.class = x.class
    <3>1. IsVersionOf(new, k[2], m)
      BY <1>8
    <3> QED BY <1>1, <1>2, <2>2, <3>1, VersionFacts
  <2>4. PICK store : store = IF doubtful THEN unsure ELSE reliable
    OBVIOUS
  <2>5. store[k] \in Seq(P)
    BY <2>1, <2>2, <2>4 DEF StoresAreRight
  <2>6. /\ added[k] \in Seq(P)
        /\ \A x \in Range(store[k]) : x \in Range(added[k])
        /\ \A x \in new[k[2]] : At(x.class, k[2]) = k => x \in Range(added[k])
        /\ new[k[2]] = {} => added[k] = store[k]
    <3>1. added = Added(store, new)
      BY <1>8, <2>4
    <3>2. /\ Added(store, new)[k] \in Seq(P)
          /\ \A x \in Range(store[k]) : x \in Range(Added(store, new)[k])
          /\ \A x \in new[k[2]] : At(x.class, k[2]) = k => x \in Range(Added(store, new)[k])
          /\ new[k[2]] = {} => Added(store, new)[k] = store[k]
      BY <2>3, <2>5, AddedFacts
    <3> QED BY <3>1, <3>2
  <2>7. reliable'[k] \in Seq(P) /\ unsure'[k] \in Seq(P)
    BY <1>8, <2>1, <2>2, <2>6 DEF StoresAreRight
  <2>8. InTheirStore(k)'
    <3>1. \A n : Doubtful(n)' = Doubtful(n)
      BY DEF Doubtful, ManyToMany
    <3>2. CASE k[2] \notin m.to
      <4>1. reliable'[k] = reliable[k] /\ unsure'[k] = unsure[k]
        BY <1>8, <2>3, <2>4, <2>6, <3>2
      <4> QED BY <1>3, <2>1, <3>1, <4>1 DEF StoresAreRight, InTheirStore
    <3>3. CASE k[2] \in m.to /\ doubtful
      <4>1. reliable'[k] = reliable[k] /\ Doubtful(m)
        BY <1>8, <3>3
      <4> QED BY <1>3, <1>7, <2>1, <3>1, <3>3, <4>1 DEF StoresAreRight, InTheirStore
    <3>4. CASE k[2] \in m.to /\ ~doubtful
      <4>1. unsure'[k] = unsure[k] /\ ~Doubtful(m)
        BY <1>8, <3>4
      <4> QED BY <1>3, <1>7, <2>1, <3>1, <3>4, <4>1 DEF StoresAreRight, InTheirStore
    <3> QED BY <3>2, <3>3, <3>4
  <2>9. AllThere(k)'
    <3>1. \A y \in Range(reliable[k]) \cup Range(unsure[k]) : y \in Range(reliable'[k]) \cup Range(unsure'[k])
      BY <1>8, <2>4, <2>6
    <3>2. \A y \in new[k[2]] : At(y.class, k[2]) = k => y \in Range(reliable'[k]) \cup Range(unsure'[k])
      BY <1>8, <2>6
    <3> SUFFICES ASSUME NEW n \in 1..next, Mapped(input.annotations[n].target, k[2]),
                        NEW x \in Migrated(input.annotations[n], k[2]), At(x.class, k[2]) = k
                 PROVE  \E y \in Range(reliable'[k]) \cup Range(unsure'[k]) : Content(y) = Content(x)
      <4>1. \A a, f : Migrated(a, f)' = Migrated(a, f)
        BY <1>3, SameMigrated
      <4>2. \A e, f : Mapped(e, f)' = Mapped(e, f)
        BY <1>3 DEF Mapped, MappingOf
      <4>3. next' - 1 = next
        BY <1>2, <1>3
      <4> QED BY <1>3, <4>1, <4>2, <4>3 DEF AllThere
    <3>3. CASE n # next
      <4>1. n \in 1..next - 1
        BY <1>2, <3>3
      <4>2. \E y \in Range(reliable[k]) \cup Range(unsure[k]) : Content(y) = Content(x)
        BY <2>1, <4>1 DEF StoresAreRight, AllThere
      <4> QED BY <3>1, <4>2
    <3>4. CASE n = next
      <4>1. PICK o \in input.mappings : Current.target \in o.from /\ k[2] \in o.to
        BY <3>4 DEF Mapped, MappingOf, Current
      <4>2. o = m
        BY <1>1, <1>7, <4>1, InputFacts
      <4>3. x \in Migrated(Current, k[2])
        BY <3>4 DEF Current
      <4>4. PICK y \in new[k[2]] : Content(y) = Content(x) /\ y.class = x.class
        BY <2>3, <4>1, <4>2, <4>3
      <4> QED BY <3>2, <4>4
    <3> QED BY <3>3, <3>4
  <2> QED BY <2>2, <2>7, <2>8, <2>9 DEF StoresAreRight
<1>10. next' \in 1..Count' + 2
  BY <1>2, <1>3, <1>4
<1> QED
  BY <1>1, <1>3, <1>5, <1>9, <1>10 DEF IInv, NothingVanishes, ConflictsAreMarked, OneOfEachClass

(* The end: whatever is at an element is made one.                         *)
LEMMA HandledWell ==
  ASSUME IInv, next = Count + 1, NEW k \in Key
  PROVE  \E s \in Seq(Possible(k)) :
           /\ HandledIn(k) = <<LeftOf(s), <<>>>> \/ HandledIn(k) = <<<<>>, LeftOf(s)>>
           /\ \A x \in Expected(k) : \E p \in 1..Len(s) : Content(s[p]) = Content(x)
<1>1. PICK S \in Scenarios : input \in S
  BY DEF IInv
<1>2. Count \in Nat /\ DOMAIN input.annotations = 1..Count
  BY <1>1, InputFacts
<1>3. StoresAreRight(k)
  BY <1>2 DEF IInv
<1>4. reliable[k] = <<>> \/ unsure[k] = <<>>
  <2> SUFFICES ASSUME reliable[k] # <<>>, unsure[k] # <<>> PROVE FALSE
    OBVIOUS
  <2>1. PICK m \in input.mappings : k[2] \in m.to /\ ~Doubtful(m)
    BY <1>3 DEF StoresAreRight, InTheirStore
  <2>2. PICK o \in input.mappings : k[2] \in o.to /\ Doubtful(o)
    BY <1>3 DEF StoresAreRight, InTheirStore
  <2>3. m = o
    BY <1>1, <2>1, <2>2, InputFacts
  <2> QED BY <2>1, <2>2, <2>3
<1>5. PICK s \in Seq(Possible(k)) : \/ reliable[k] = s /\ unsure[k] = <<>>
                                    \/ reliable[k] = <<>> /\ unsure[k] = s
  BY <1>3, <1>4 DEF StoresAreRight
<1>6. \A x \in Possible(k) : Unmarked(x)
  BY DEF Possible, Unmarked
<1>7. HandledIn(k) = <<LeftOf(s), <<>>>> \/ HandledIn(k) = <<<<>>, LeftOf(s)>>
  BY <1>5, <1>6, HandledInOneStore
<1>8. ASSUME NEW x \in Expected(k) PROVE \E p \in 1..Len(s) : Content(s[p]) = Content(x)
  <2>1. PICK a \in Range(input.annotations) :
          Mapped(a.target, k[2]) /\ x \in Migrated(a, k[2]) /\ At(x.class, k[2]) = k
    BY DEF Expected
  <2>2. PICK n \in 1..next - 1 : input.annotations[n] = a
    <3>1. next - 1 = Count
      BY <1>2
    <3> QED BY <1>2, <2>1, <3>1 DEF Range
  <2>3. PICK y \in Range(reliable[k]) \cup Range(unsure[k]) : Content(y) = Content(x)
    BY <1>3, <2>1, <2>2 DEF StoresAreRight, AllThere
  <2>4. y \in Range(s)
    <3>1. \A y0 : y0 \notin Range(<<>>)
      BY DEF Range
    <3> QED BY <1>5, <3>1
  <2>5. DOMAIN s = 1..Len(s)
    OBVIOUS
  <2> QED BY <2>3, <2>4, <2>5 DEF Range
<1> QED BY <1>7, <1>8

SavedOf(r, u) == (IF r = <<>> THEN {} ELSE {Last(r)}) \cup (IF u = <<>> THEN {} ELSE {Last(u)})

LEMMA LeftHasNoTwins ==
  ASSUME NEW T, \A x \in T : Unmarked(x), NEW s \in Seq(T)
  PROVE  ~HasTwins(LeftOf(s))
<1>1. CASE HasTwins(s)
  BY <1>1, NoTwinsLeft DEF LeftOf
<1>2. CASE ~HasTwins(s)
  BY <1>2 DEF LeftOf
<1> QED BY <1>1, <1>2

LEMMA HandleIInv ==
  ASSUME IInv, HandleDuplicates
  PROVE  IInv'
<1>1. PICK S \in Scenarios : input \in S
  BY DEF IInv
<1>2. Count \in Nat /\ next = Count + 1
  BY <1>1, InputFacts DEF HandleDuplicates
<1>3. next' = Count + 2 /\ input' = input
  BY DEF HandleDuplicates
<1>4. Count' = Count
  BY <1>3 DEF Count
<1>5. \A k \in Key : reliable'[k] = HandledIn(k)[1] /\ unsure'[k] = HandledIn(k)[2]
  BY DEF HandleDuplicates
<1>6. \A k : Expected(k)' = Expected(k)
  BY <1>3, SameExpected
<1>7. ASSUME NEW k \in Key
      PROVE  /\ ~HasTwins(reliable'[k] \o unsure'[k])
             /\ OneVariant(k) =>
                  /\ \A x \in Expected(k) : \E y \in SavedOf(reliable'[k], unsure'[k]) :
                       Content(x) \in {Content(y)} \cup y.mentions
                  /\ \A y \in SavedOf(reliable'[k], unsure'[k]) :
                       \E x \in Expected(k) : Content(x) = Content(y)
                  /\ \A x, y \in Expected(k) : Content(x) # Content(y) =>
                       \A z \in SavedOf(reliable'[k], unsure'[k]) : z.review = "UNSURE"
  <2>1. PICK T : T = Possible(k)
    OBVIOUS
  <2>2. PICK s \in Seq(T) :
          /\ HandledIn(k) = <<LeftOf(s), <<>>>> \/ HandledIn(k) = <<<<>>, LeftOf(s)>>
          /\ \A x \in Expected(k) : \E p \in 1..Len(s) : Content(s[p]) = Content(x)
    BY <1>2, <2>1, HandledWell
  <2>3. \A x \in T : Unmarked(x)
    BY <2>1 DEF Possible, Unmarked
  <2>4. \/ reliable'[k] = LeftOf(s) /\ unsure'[k] = <<>>
        \/ reliable'[k] = <<>> /\ unsure'[k] = LeftOf(s)
    BY <1>5, <2>2
  <2>5. \A x \in T : \E y \in Expected(k) : Content(x) = Content(y) /\ x.class = y.class
    BY <2>1 DEF Possible, Content
  <2>6. ~HasTwins(reliable'[k] \o unsure'[k])
    <3>1. PICK l : l = LeftOf(s)
      OBVIOUS
    <3>2. ~HasTwins(l)
      BY <2>3, <3>1, LeftHasNoTwins
    <3>3. l \o <<>> = l /\ <<>> \o l = l
      <4>1. CASE HasTwins(s)
        <5>1. PICK i \in 1..Len(s), j \in 1..Len(s) : DuplicatesFrom(s, i, j)
          BY <4>1, DuplicatesFacts
        <5>2. l \in Seq(T \cup {MarkConflict(s)[Survivor(s)]})
          BY <2>3, <3>1, <4>1, <5>1, OthersRemoved DEF LeftOf
        <5> QED BY <5>2, ConcatEmptySeq
      <4>2. CASE ~HasTwins(s)
        BY <3>1, <4>2, ConcatEmptySeq DEF LeftOf
      <4> QED BY <4>1, <4>2
    <3> QED BY <2>4, <3>1, <3>2, <3>3
  <2>7. ASSUME OneVariant(k)
        PROVE  /\ \A x \in Expected(k) : \E y \in SavedOf(reliable'[k], unsure'[k]) :
                    Content(x) \in {Content(y)} \cup y.mentions
               /\ \A y \in SavedOf(reliable'[k], unsure'[k]) :
                    \E x \in Expected(k) : Content(x) = Content(y)
               /\ \A x, y \in Expected(k) : Content(x) # Content(y) =>
                    \A z \in SavedOf(reliable'[k], unsure'[k]) : z.review = "UNSURE"
    <3>1. \A x, y \in T : x.class = y.class
      BY <2>5, <2>7 DEF OneVariant
    <3>2. CASE s = <<>> /\ LeftOf(s) = <<>>
      <4>1. Expected(k) = {}
        BY <2>2, <3>2
      <4>2. SavedOf(reliable'[k], unsure'[k]) = {}
        BY <2>4, <3>2 DEF SavedOf
      <4> QED BY <4>1, <4>2
    <3>3. ASSUME NEW v, LeftOf(s) = <<v>>,
                 \E p \in 1..Len(s) : Content(v) = Content(s[p]),
                 \A p \in 1..Len(s) : Content(s[p]) \in {Content(v)} \cup v.mentions,
                 \A p, q \in 1..Len(s) : Content(s[p]) # Content(s[q]) => v.review = "UNSURE"
          PROVE  /\ \A x \in Expected(k) : \E y \in SavedOf(reliable'[k], unsure'[k]) :
                      Content(x) \in {Content(y)} \cup y.mentions
                 /\ \A y \in SavedOf(reliable'[k], unsure'[k]) :
                      \E x \in Expected(k) : Content(x) = Content(y)
                 /\ \A x, y \in Expected(k) : Content(x) # Content(y) =>
                      \A z \in SavedOf(reliable'[k], unsure'[k]) : z.review = "UNSURE"
      <4>1. SavedOf(reliable'[k], unsure'[k]) = {v}
        <5>1. <<v>> # <<>> /\ Last(<<v>>) = v
          BY DEF Last
        <5> QED BY <2>4, <3>3, <5>1 DEF SavedOf
      <4>2. \A p \in 1..Len(s) : s[p] \in T
        OBVIOUS
      <4>3. \E x \in Expected(k) : Content(x) = Content(v)
        BY <2>5, <3>3, <4>2
      <4>4. \A x \in Expected(k) : Content(x) \in {Content(v)} \cup v.mentions
        BY <2>2, <3>3
      <4>5. \A x, y \in Expected(k) : Content(x) # Content(y) => v.review = "UNSURE"
        BY <2>2, <3>3
      <4> QED BY <4>1, <4>3, <4>4, <4>5
    <3> QED BY <2>3, <3>1, <3>2, <3>3, OneIsSaved
  <2> QED BY <2>6, <2>7
<1>8. \A k : SavedAt(k)' = SavedOf(reliable'[k], unsure'[k]) /\ OneVariant(k)' = OneVariant(k)
  BY <1>6 DEF SavedAt, Saved, SavedOf, OneVariant
<1>9. NothingVanishes'
  BY <1>6, <1>7, <1>8 DEF NothingVanishes
<1>10. ConflictsAreMarked'
  BY <1>6, <1>7, <1>8 DEF ConflictsAreMarked
<1>11. OneOfEachClass'
  BY <1>7 DEF OneOfEachClass
<1>12. next' \in 1..Count' + 2 /\ ~(next' <= Count' + 1)
  BY <1>2, <1>3, <1>4
<1> QED
  BY <1>1, <1>3, <1>9, <1>10, <1>11, <1>12 DEF IInv

LEMMA StepIInv == IInv /\ [Next]_vars => IInv'
<1> SUFFICES ASSUME IInv, [Next]_vars PROVE IInv'
  OBVIOUS
<1>1. CASE SkipUnmapped
  BY <1>1, SkipIInv
<1>2. CASE Migrate
  BY <1>2, MigrateIInv
<1>3. CASE HandleDuplicates
  BY <1>3, HandleIInv
<1>4. CASE UNCHANGED vars
  <2>1. input' = input /\ next' = next /\ reliable' = reliable /\ unsure' = unsure
    BY <1>4 DEF vars
  <2>2. \A k : Expected(k)' = Expected(k) /\ Possible(k)' = Possible(k)
    BY <2>1, SameExpected
  <2>3. Count' = Count /\ Done' = Done
    BY <2>1 DEF Count, Done
  <2>4. \A k : SavedAt(k)' = SavedAt(k) /\ OneVariant(k)' = OneVariant(k)
    BY <2>1, <2>2 DEF SavedAt, Saved, OneVariant
  <2>5. \A a, f : Migrated(a, f)' = Migrated(a, f)
    BY <2>1, SameMigrated
  <2>6. \A k : StoresAreRight(k)' = StoresAreRight(k)
    <3>1. \A k : InTheirStore(k)' = InTheirStore(k)
      BY <2>1 DEF InTheirStore, Doubtful
    <3>2. \A k : AllThere(k)' = AllThere(k)
      BY <2>1, <2>5 DEF AllThere, Mapped, MappingOf
    <3> QED BY <2>1, <2>2, <3>1, <3>2 DEF StoresAreRight
  <2>7. NothingVanishes' /\ ConflictsAreMarked' /\ OneOfEachClass'
    BY <2>1, <2>2, <2>3, <2>4 DEF IInv, NothingVanishes, ConflictsAreMarked, OneOfEachClass
  <2> QED BY <2>1, <2>3, <2>6, <2>7 DEF IInv
<1> QED
  BY <1>1, <1>2, <1>3, <1>4 DEF Next, Terminated
LEMMA Inductive == Spec => []IInv
BY InitIInv, StepIInv, PTL DEF Spec

(* Whatever annotations of merged elements become: after                   *)
(* _handle_duplicates it is in one of the two saved files, or mentioned by *)
(* the annotation that is there, and there is nothing else.                *)
THEOREM NothingIsLost == Spec => []NothingVanishes
<1>1. IInv => NothingVanishes
  BY DEF IInv
<1> QED BY <1>1, Inductive, PTL

(* If annotations that meet contradict each other, _handle_duplicates      *)
(* leaves none of them as certain.                                         *)
THEOREM ContradictionsAreMarked == Spec => []ConflictsAreMarked
<1>1. IInv => ConflictsAreMarked
  BY DEF IInv
<1> QED BY <1>1, Inductive, PTL

(* _handle_duplicates leaves no element with two annotations of one class, *)
(* whichever of both stores they were in and however many there were.      *)
THEOREM OneIsLeft == Spec => []OneOfEachClass
<1>1. IInv => OneOfEachClass
  BY DEF IInv
<1> QED BY <1>1, Inductive, PTL
-----------------------------------------------------------------------------
(* Intervals.                                                              *)
LEMMA CutFacts ==
  ASSUME NEW l \in Int
  PROVE  /\ Truncated(l) \in Int
         /\ \A n \in Int : Truncated(l) # l =>
              /\ 2 * n > Truncated(l) + 2 => 2 * n > l
              /\ 2 * n < Truncated(l) => 2 * n < l
<1>1. CASE l >= 0
  <2>1. PICK h \in Int : h = l \div 2
    BY <1>1
  <2>2. l = 2 * h \/ l = 2 * h + 1
    BY <1>1, <2>1
  <2>3. Truncated(l) = 2 * h
    BY <1>1, <2>1 DEF Truncated
  <2> QED BY <2>2, <2>3
<1>2. CASE l < 0
  <2>1. PICK h \in Int : h = (-l) \div 2
    BY <1>2
  <2>2. -l = 2 * h \/ -l = 2 * h + 1
    BY <1>2, <2>1
  <2>3. Truncated(l) = -2 * h
    BY <1>2, <2>1 DEF Truncated
  <2>4. Truncated(l) = l \/ Truncated(l) = l + 1
    BY <2>2, <2>3
  <2>5. ASSUME NEW n \in Int, Truncated(l) # l, 2 * n < Truncated(l)
        PROVE  2 * n < l
    <3>1. 2 * n < -2 * h /\ l = -2 * h - 1
      BY <2>2, <2>3, <2>5
    <3>2. n < -h
      BY <3>1
    <3>3. n <= -h - 1
      BY <3>2
    <3> QED BY <3>1, <3>3
  <2> QED BY <2>3, <2>4, <2>5
<1> QED BY <1>1, <1>2

(* Limits that are not cut stay as they are, others are left out.          *)
LEMMA DiscreteAdmitsNoMore ==
  ASSUME NEW i \in Intervals, NEW n \in Int, Admits(Discrete(i), 2 * n)
  PROVE  Admits(i, 2 * n)
<1>1. i.lower \in Int /\ i.upper \in Int /\ i.lowerType \in 0..2 /\ i.upperType \in 0..2
  BY DEF Intervals
<1>2. PICK low \in Int, up \in Int : low = Truncated(i.lower) /\ up = Truncated(i.upper)
  BY <1>1, CutFacts
<1>3. Discrete(i) =
        [discrete  |-> TRUE,
         lower     |-> IF i.lowerType = 2 \/ low = i.lower THEN i.lower ELSE low + 2,
         upper     |-> IF i.upperType = 2 THEN i.upper ELSE up,
         lowerType |-> IF i.lowerType # 2 /\ low # i.lower THEN 1 ELSE i.lowerType,
         upperType |-> IF i.upperType # 2 /\ up # i.upper THEN 1 ELSE i.upperType]
  BY <1>2 DEF Discrete
<1>4. i.lowerType = 2 \/ 2 * n > i.lower \/ (2 * n = i.lower /\ i.lowerType = 0)
  <2>1. CASE i.lowerType # 2 /\ low # i.lower
    <3>1. Discrete(i).lower = low + 2 /\ Discrete(i).lowerType = 1
      BY <1>3, <2>1
    <3>2. 2 * n > low + 2
      BY <3>1 DEF Admits
    <3>3. 2 * n > low + 2 => 2 * n > i.lower
      BY <1>1, <1>2, <2>1, CutFacts
    <3> QED BY <3>2, <3>3
  <2>2. CASE low = i.lower
    <3>1. Discrete(i).lower = i.lower /\ Discrete(i).lowerType = i.lowerType
      BY <1>3, <2>2
    <3> QED BY <3>1 DEF Admits
  <2> QED BY <2>1, <2>2
<1>5. i.upperType = 2 \/ 2 * n < i.upper \/ (2 * n = i.upper /\ i.upperType = 0)
  <2>1. CASE i.upperType # 2 /\ up # i.upper
    <3>1. Discrete(i).upper = up /\ Discrete(i).upperType = 1
      BY <1>3, <2>1
    <3>2. 2 * n < up
      BY <3>1 DEF Admits
    <3>3. 2 * n < up => 2 * n < i.upper
      BY <1>1, <1>2, <2>1, CutFacts
    <3> QED BY <3>2, <3>3
  <2>2. CASE up = i.upper
    <3>1. Discrete(i).upper = i.upper /\ Discrete(i).upperType = i.upperType
      BY <1>3, <2>2
    <3> QED BY <3>1 DEF Admits
  <2> QED BY <2>1, <2>2
<1> QED BY <1>4, <1>5 DEF Admits

(* Whatever interval and type: migrate_interval_to_fit_parameter_type      *)
(* returns an interval that admits no integer the given one does not.      *)
THEOREM IntervalsAdmitNoMore ==
  ASSUME NEW i \in Intervals, NEW discrete, NEW n \in Int, Admits(Fit(i, discrete), 2 * n)
  PROVE  Admits(i, 2 * n)
<1>1. CASE i.discrete = discrete
  BY <1>1 DEF Fit
<1>2. CASE i.discrete # discrete /\ discrete
  <2>1. Fit(i, discrete) = Discrete(i)
    BY <1>2 DEF Fit
  <2> QED BY <2>1, DiscreteAdmitsNoMore
<1>3. CASE i.discrete # discrete /\ ~discrete
  <2>1. Fit(i, discrete) = [i EXCEPT !.discrete = FALSE]
    BY <1>3 DEF Fit
  <2>2. LET j == [i EXCEPT !.discrete = FALSE]
        IN  /\ j.lower = i.lower /\ j.upper = i.upper
            /\ j.lowerType = i.lowerType /\ j.upperType = i.upperType
    BY DEF Intervals
  <2> QED BY <2>1, <2>2 DEF Admits
<1> QED BY <1>1, <1>2, <1>3

LEMMA NoMoreAdmitted ==
  ASSUME NEW S \in Scenarios, input \in S
  PROVE  NothingNewAdmitted
<1> SUFFICES ASSUME NEW a \in Range(input.annotations), a.class = "boundary",
                    NEW f \in V2, NEW n \in -5..5, NEW x \in Migrated(a, f),
                    x.class = "boundary", Admits(x.value, 2 * n)
             PROVE  Admits(a.value, 2 * n)
  BY DEF NothingNewAdmitted
<1>1. a.value \in Intervals /\ n \in Int
  BY MigrationInputs
<1>2. x \in MigrateBoundary(a, f)
  BY DEF Migrated
<1>3. \/ x \in Keep(a, "UNSURE") \/ x \in Keep(a, a.review) \/ x \in AsTodo(a)
      \/ \E discrete : x \in Become(a.class, Fit(a.value, discrete), "UNSURE")
  BY <1>2 DEF MigrateBoundary
<1>4. CASE x \in Keep(a, "UNSURE") \/ x \in Keep(a, a.review)
  BY <1>4 DEF Keep, Become
<1>5. CASE x \in AsTodo(a)
  BY <1>5 DEF AsTodo, Become
<1>6. ASSUME NEW discrete, x \in Become(a.class, Fit(a.value, discrete), "UNSURE")
      PROVE  Admits(a.value, 2 * n)
  <2>1. x.value = Fit(a.value, discrete)
    BY <1>6 DEF Become
  <2> QED BY <1>1, <2>1, IntervalsAdmitNoMore
<1> QED BY <1>3, <1>4, <1>5, <1>6

(* An interval that migrate_interval_to_fit_parameter_type makes discrete  *)
(* or continuous admits no integer that it did not admit before.           *)
THEOREM NoNewIntegers == Spec => []NothingNewAdmitted
<1>1. IInv => NothingNewAdmitted
  BY NoMoreAdmitted DEF IInv
<1> QED BY <1>1, Inductive, PTL
=============================================================================
