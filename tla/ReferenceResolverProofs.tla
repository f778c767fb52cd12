---------------------- MODULE ReferenceResolverProofs ----------------------
(***************************************************************************)
(* Proofs that raw_reasons has everything that the references of a         *)
(* function are resolved to and nothing else, for any modules, and that    *)
(* this is what Python makes of them: no read, write or call is lost, and  *)
(* nobody is blamed falsely.                                               *)
(***************************************************************************)
EXTENDS ReferenceResolver, SequenceTheorems, FiniteSetTheorems, WellFoundedInduction, TLAPS

(* What a value and a target contribute.                                   *)
Read(p, f, r) ==
  {s \in FindValue(p, f, r) : \/ s.sort \in Shared /\ s.node \notin {"class", "function"}
                              \/ s.sort = "Import" /\ ~IsCallable(p, s)}
Written(p, f, i) ==
  {s \in FindTarget(p, f, i) : /\ s.sort \in Shared \cup {"Import"}
                               /\ s.node \notin {"class", "function", "property"}}

Reasons == {"calls", "unknown_calls", "reads_from", "writes_to"}

Shapes ==
  /\ program \in Programs /\ functions \subseteq Functions(program)
  /\ DOMAIN raw_reasons = Functions(program) \ functions
  /\ \A f \in DOMAIN raw_reasons : Reasons \subseteq DOMAIN raw_reasons[f]
  /\ \E S : calls \in Seq(S)
  /\ \E S : values \in Seq(S)
  /\ \E S : targets \in Seq(S)

(* The references that wait are those of the current function.             *)
Pending ==
  (calls # <<>> \/ values # <<>> \/ targets # <<>>) =>
    /\ current \in DOMAIN raw_reasons
    /\ ToSet(values) \subseteq ToSet(Values(program, current))
    /\ ToSet(targets) \subseteq DOMAIN Targets(program, current)

(* What is not among the reasons of a function yet is still to come.       *)
CallsFound ==
  \A f \in DOMAIN raw_reasons : \A k \in ToSet(Calls(program, f)) :
    FindCall(program, f, k) \subseteq raw_reasons[f].calls \/ (f = current /\ k \in ToSet(calls))
ReadsFound ==
  \A f \in DOMAIN raw_reasons : \A r \in ToSet(Values(program, f)) :
    Read(program, f, r) \subseteq raw_reasons[f].reads_from \/ (f = current /\ r \in ToSet(values))
WritesFound ==
  \A f \in DOMAIN raw_reasons : \A i \in DOMAIN Targets(program, f) :
    Written(program, f, i) \subseteq raw_reasons[f].writes_to \/ (f = current /\ i \in ToSet(targets))

(* Nothing else is.                                                        *)
ReadsDeserved ==
  \A f \in DOMAIN raw_reasons : \A s \in raw_reasons[f].reads_from :
    \E r \in ToSet(Values(program, f)) : s \in Read(program, f, r)
WritesDeserved ==
  \A f \in DOMAIN raw_reasons : \A s \in raw_reasons[f].writes_to :
    \E i \in DOMAIN Targets(program, f) : s \in Written(program, f, i)

IInv ==
  /\ Shapes /\ Pending
  /\ CallsFound /\ ReadsFound /\ WritesFound
  /\ ReadsDeserved /\ WritesDeserved
-----------------------------------------------------------------------------
(* Numbers and sequences.                                                  *)
LEMMA Least ==
  ASSUME NEW T \in SUBSET Nat, T # {}
  PROVE  \E x \in T : \A y \in T : x <= y
<1> DEFINE R == OpToRel(<, Nat)
<1>1. IsWellFoundedOn(R, Nat)
  BY NatLessThanWellFounded
<1>2. \A i, j \in Nat : i < j => <<i, j>> \in R
  BY DEF OpToRel
<1> HIDE DEF R
<1>3. PICK x \in T : \A y \in T : ~ (<<y, x>> \in R)
  BY <1>1, WFMin
<1>4. \A y \in T : ~(y < x)
  BY <1>2, <1>3
<1>5. \A y \in T : x <= y
  BY <1>4
<1> QED
  BY <1>5

LEMMA SetInduction ==
  ASSUME NEW S \in SUBSET Nat, 0 \in S, \A n \in S : n + 1 \in S
  PROVE  S = Nat
<1> SUFFICES ASSUME Nat \ S # {} PROVE FALSE
  OBVIOUS
<1>1. PICK x \in Nat \ S : \A y \in Nat \ S : x <= y
  BY Least
<1>2. x - 1 \in Nat /\ x - 1 \notin Nat \ S
  BY <1>1
<1> QED
  BY <1>1, <1>2

LEMMA HeadAndTail ==
  ASSUME NEW T, NEW s \in Seq(T), s # <<>>
  PROVE  Head(s) \in T /\ Tail(s) \in Seq(T) /\ ToSet(s) = {Head(s)} \cup ToSet(Tail(s))
<1> DEFINE t == Tail(s)
<1>1. /\ Len(s) \in Nat /\ Len(s) > 0 /\ DOMAIN s = 1 .. Len(s)
      /\ t \in Seq(T) /\ Len(t) = Len(s) - 1 /\ DOMAIN t = 1 .. Len(s) - 1
      /\ \A i \in 1 .. Len(s) - 1 : t[i] = s[i + 1]
      /\ Head(s) = s[1] /\ Head(s) \in T
  OBVIOUS
<1> HIDE DEF t
<1>2. \A i \in 1 .. Len(s) : i = 1 \/ i - 1 \in 1 .. Len(s) - 1
  BY <1>1
<1>3. \A i \in 1 .. Len(s) - 1 : i + 1 \in 1 .. Len(s)
  BY <1>1
<1>4. ASSUME NEW x \in ToSet(s) PROVE x \in {Head(s)} \cup ToSet(t)
  <2>1. PICK i \in 1 .. Len(s) : s[i] = x
    BY <1>1 DEF ToSet
  <2>2. CASE i = 1
    BY <1>1, <2>1, <2>2
  <2>3. CASE i # 1
    <3>1. i - 1 \in 1 .. Len(s) - 1 /\ (i - 1) + 1 = i
      BY <1>2, <2>3
    <3>2. t[i - 1] = x
      BY <1>1, <2>1, <3>1
    <3> QED BY <1>1, <3>1, <3>2 DEF ToSet
  <2> QED BY <2>2, <2>3
<1>5. ASSUME NEW x \in {Head(s)} \cup ToSet(t) PROVE x \in ToSet(s)
  <2>1. 1 \in 1 .. Len(s)
    BY <1>1
  <2> QED
    BY <1>1, <1>3, <1>5, <2>1 DEF ToSet
<1>6. ToSet(s) = {Head(s)} \cup ToSet(t)
  BY <1>4, <1>5
<1> QED
  BY <1>1, <1>6 DEF t

LEMMA Concatenated ==
  ASSUME NEW T, NEW s \in Seq(T), NEW t \in Seq(T)
  PROVE  s \o t \in Seq(T) /\ ToSet(s \o t) = ToSet(s) \cup ToSet(t)
<1> DEFINE u == s \o t
<1>1. /\ Len(s) \in Nat /\ Len(t) \in Nat /\ DOMAIN s = 1 .. Len(s) /\ DOMAIN t = 1 .. Len(t)
      /\ u \in Seq(T) /\ DOMAIN u = 1 .. Len(s) + Len(t)
      /\ \A i \in 1 .. Len(s) + Len(t) : u[i] = IF i <= Len(s) THEN s[i] ELSE t[i - Len(s)]
  BY ConcatProperties
<1> HIDE DEF u
<1>2. \A i \in 1 .. Len(s) : i \in 1 .. Len(s) + Len(t) /\ u[i] = s[i]
  BY <1>1
<1>3. ASSUME NEW i \in 1 .. Len(t)
      PROVE  i + Len(s) \in 1 .. Len(s) + Len(t) /\ u[i + Len(s)] = t[i]
  <2>1. i + Len(s) \in 1 .. Len(s) + Len(t) /\ ~(i + Len(s) <= Len(s)) /\ (i + Len(s)) - Len(s) = i
    BY <1>1
  <2> QED
    BY <1>1, <2>1
<1>4. \A i \in 1 .. Len(s) + Len(t) : i \in 1 .. Len(s) \/ i - Len(s) \in 1 .. Len(t)
  BY <1>1
<1>5. \A i \in 1 .. Len(s) + Len(t) : u[i] \in ToSet(s) \cup ToSet(t)
  BY <1>1, <1>4 DEF ToSet
<1>6. \A i \in 1 .. Len(s) : s[i] \in ToSet(u)
  BY <1>1, <1>2 DEF ToSet
<1>7. \A i \in 1 .. Len(t) : t[i] \in ToSet(u)
  BY <1>1, <1>3 DEF ToSet
<1>8. ToSet(s) \cup ToSet(t) \subseteq ToSet(u)
  BY <1>1, <1>6, <1>7 DEF ToSet
<1>9. ToSet(u) \subseteq ToSet(s) \cup ToSet(t)
  BY <1>1, <1>5 DEF ToSet
<1> QED
  BY <1>1, <1>8, <1>9 DEF u

(* FlattenSeq is defined by recursion: such a function exists.             *)
Accumulates(f, size, s) == f[0] = <<>> /\ \A i \in 1..size : f[i] = f[i - 1] \o s[i]

LEMMA Accumulated ==
  ASSUME NEW T, NEW size \in Nat, NEW s \in [1..size -> Seq(T)]
  PROVE  \E f \in [0..size -> Seq(T)] : Accumulates(f, size, s)
<1> DEFINE Upto(n) == {f \in [0..n -> Seq(T)] : f[0] = <<>> /\ \A i \in 1..n : f[i] = f[i - 1] \o s[i]}
           S == {n \in Nat : n <= size => Upto(n) # {}}
<1>1. 0 \in S
  <2> DEFINE f == [i \in 0..0 |-> <<>>]
  <2>1. f \in Upto(0)
    OBVIOUS
  <2> QED
    BY <2>1
<1>2. ASSUME NEW n \in S
      PROVE  n + 1 \in S
  <2> SUFFICES ASSUME n + 1 <= size
               PROVE  Upto(n + 1) # {}
    <3> HIDE DEF Upto
    <3> QED OBVIOUS
  <2>1. n \in Nat /\ n <= size /\ n + 1 \in 1..size /\ n \in 0..n
    OBVIOUS
  <2>2. PICK f : f \in Upto(n)
    BY <2>1
  <2> DEFINE g == [i \in 0..n + 1 |-> IF i = n + 1 THEN f[n] \o s[n + 1] ELSE f[i]]
  <2>3. f \in [0..n -> Seq(T)] /\ f[n] \in Seq(T) /\ f[0] = <<>>
    BY <2>1, <2>2
  <2>4. f[n] \o s[n + 1] \in Seq(T)
    BY <2>1, <2>3
  <2>5. \A i \in 0..n + 1 : i = n + 1 \/ i \in 0..n
    BY <2>1
  <2>6. g \in [0..n + 1 -> Seq(T)]
    BY <2>3, <2>4, <2>5
  <2>7. g[0] = <<>>
    BY <2>1, <2>3
  <2>8. ASSUME NEW i \in 1..n + 1
        PROVE  g[i] = g[i - 1] \o s[i]
    <3>1. CASE i = n + 1
      <4>1. i - 1 = n /\ n # n + 1 /\ n \in 0..n + 1 /\ i \in 0..n + 1
        BY <2>1, <3>1
      <4>2. g[i] = f[n] \o s[n + 1] /\ g[n] = f[n]
        BY <3>1, <4>1
      <4> QED
        BY <3>1, <4>1, <4>2
    <3>2. CASE i # n + 1
      <4>1. /\ i \in 1..n /\ i \in 0..n + 1 /\ i - 1 \in 0..n + 1 /\ i - 1 # n + 1
        BY <2>1, <3>2
      <4>2. g[i] = f[i] /\ g[i - 1] = f[i - 1]
        BY <3>2, <4>1
      <4>3. f[i] = f[i - 1] \o s[i]
        BY <2>2, <4>1
      <4> QED
        BY <4>2, <4>3
    <3> QED
      BY <3>1, <3>2
  <2> HIDE DEF g
  <2>9. g \in Upto(n + 1)
    BY <2>6, <2>7, <2>8
  <2> QED
    BY <2>9
<1>3. S = Nat
  <2>1. S \in SUBSET Nat
    OBVIOUS
  <2> HIDE DEF S
  <2> QED BY <1>1, <1>2, <2>1, SetInduction
<1>4. size \in S
  <2> HIDE DEF S
  <2> QED BY <1>3
<1>5. Upto(size) # {}
  <2>1. size <= size
    OBVIOUS
  <2> HIDE DEF Upto
  <2> QED BY <1>4, <2>1
<1> QED BY <1>5 DEF Accumulates

LEMMA Flattened ==
  ASSUME NEW T, NEW size \in Nat, NEW s \in [1..size -> Seq(T)]
  PROVE  /\ FlattenSeq(s) \in Seq(T)
         /\ \A x : x \in ToSet(FlattenSeq(s)) <=> \E i \in 1..size : x \in ToSet(s[i])
<1>1. s \in Seq(Seq(T)) /\ Len(s) = size /\ DOMAIN s = 1..size
  OBVIOUS
<1>2. CASE size = 0
  <2>1. FlattenSeq(s) = <<>>
    BY <1>1, <1>2 DEF FlattenSeq
  <2> QED
    BY <1>2, <2>1 DEF ToSet
<1>3. PICK f \in [0..size -> Seq(T)] : Accumulates(f, size, s)
  BY Accumulated
<1>4. f[0] = <<>> /\ \A i \in 1..size : f[i] = f[i - 1] \o s[i]
  BY <1>3 DEF Accumulates
<1>5. \A i \in 1..size : i \in 0..size /\ i - 1 \in 0..size /\ f[i] = f[i - 1] \o s[i]
  <2>1. \A i \in 1..size : i \in 0..size /\ i - 1 \in 0..size
    OBVIOUS
  <2> QED BY <1>4, <2>1
<1>6. CASE size # 0
  <2> DEFINE K(g) == [i \in 1..size |-> IF i = 1 THEN s[i] ELSE g[i - 1] \o s[i]]
             h == CHOOSE g : g = K(g)
             own == [i \in 1..size |-> f[i]]
  <2>1. own = K(own)
    <3>1. ASSUME NEW i \in 1..size PROVE own[i] = K(own)[i]
      <4>1. CASE i = 1
        <5>1. i - 1 = 0 /\ s[i] \in Seq(T) /\ f[i - 1] = <<>>
          BY <1>4, <4>1
        <5>2. <<>> \o s[i] = s[i]
          BY <5>1, ConcatEmptySeq
        <5> QED BY <1>5, <4>1, <5>1, <5>2
      <4>2. CASE i # 1
        <5>1. i - 1 \in 1..size
          BY <4>2
        <5> QED BY <1>5, <4>2, <5>1
      <4> QED BY <4>1, <4>2
    <3> QED BY <3>1
  <2>2. h = K(h)
    <3> HIDE DEF K, own
    <3> QED BY <2>1
  <2>3. FlattenSeq(s) = h[size]
    BY <1>1, <1>6 DEF FlattenSeq
  <2>4. \A i \in 1..size : h[i] = IF i = 1 THEN s[i] ELSE h[i - 1] \o s[i]
    <3> HIDE DEF h
    <3>1. \A i \in 1..size : h[i] = K(h)[i]
      BY <2>2
    <3> QED BY <3>1
  <2> HIDE DEF h, K
  <2> DEFINE S == {n \in Nat : n \in 1..size =>
                      /\ h[n] \in Seq(T)
                      /\ \A x : x \in ToSet(h[n]) <=> \E i \in 1..n : x \in ToSet(s[i])}
  <2>5. 0 \in S
    OBVIOUS
  <2>6. ASSUME NEW n \in S PROVE n + 1 \in S
    <3> SUFFICES ASSUME n + 1 \in 1..size
                 PROVE  /\ h[n + 1] \in Seq(T)
                        /\ \A x : x \in ToSet(h[n + 1]) <=> \E i \in 1 .. n + 1 : x \in ToSet(s[i])
      OBVIOUS
    <3>1. CASE n = 0
      <4>1. h[1] = s[1] /\ n + 1 = 1 /\ 1 .. 1 = {1} /\ 1 \in 1..size
        BY <2>4, <3>1
      <4> QED BY <4>1
    <3>2. CASE n # 0
      <4>1. n \in 1..size /\ n + 1 # 1 /\ (n + 1) - 1 = n /\ 1 .. n + 1 = (1 .. n) \cup {n + 1}
        BY <3>2
      <4>2. h[n + 1] = h[n] \o s[n + 1] /\ h[n] \in Seq(T) /\ s[n + 1] \in Seq(T)
        BY <2>4, <4>1
      <4>3. h[n + 1] \in Seq(T) /\ ToSet(h[n + 1]) = ToSet(h[n]) \cup ToSet(s[n + 1])
        BY <4>2, Concatenated
      <4>4. \A x : x \in ToSet(h[n]) <=> \E i \in 1..n : x \in ToSet(s[i])
        BY <4>1
      <4> QED BY <4>1, <4>3, <4>4
    <3> QED BY <3>1, <3>2
  <2>7. S = Nat
    <3>1. S \in SUBSET Nat
      OBVIOUS
    <3> HIDE DEF S
    <3> QED BY <2>5, <2>6, <3>1, SetInduction
  <2>8. size \in S /\ size \in 1..size
    <3> HIDE DEF S
    <3> QED BY <1>6, <2>7
  <2> QED BY <2>3, <2>8
<1> QED BY <1>2, <1>6
-----------------------------------------------------------------------------
(* The references of a function are those of its lines.                    *)
LEMMA LinesOfBody ==
  ASSUME NEW p, WellFormed(p), NEW f \in Functions(p)
  PROVE  \E n \in Nat : DOMAIN Body(p, f) = 1 .. n
<1>1. Body(p, f) \in Seq(Range(Body(p, f)))
  BY DEF WellFormed
<1>2. PICK b : b = Body(p, f)
  OBVIOUS
<1>3. DOMAIN b = 1 .. Len(b) /\ Len(b) \in Nat
  BY <1>1, <1>2
<1> QED BY <1>2, <1>3

LEMMA CallsOfLines ==
  ASSUME NEW p, WellFormed(p), NEW f \in Functions(p)
  PROVE  /\ Calls(p, f) \in Seq(Nat)
         /\ \A k : k \in ToSet(Calls(p, f)) <=> k \in Lines(p, f, {"call", "callattr"})
<1>1. PICK n \in Nat : DOMAIN Body(p, f) = 1 .. n
  BY LinesOfBody
<1> DEFINE s == [k \in 1 .. n |-> CallsAt(p, f, k)]
<1>2. s \in [1 .. n -> Seq(Nat)] /\ Calls(p, f) = FlattenSeq(s)
  BY <1>1 DEF CallsAt, Calls
<1>3. \A k \in 1 .. n : \A x : x \in ToSet(s[k]) <=> x = k /\ k \in Lines(p, f, {"call", "callattr"})
  BY <1>1 DEF CallsAt, Lines, ToSet
<1> HIDE DEF s
<1>4. FlattenSeq(s) \in Seq(Nat)
  BY <1>2, Flattened
<1>5. \A x : x \in ToSet(FlattenSeq(s)) <=> \E k \in 1 .. n : x \in ToSet(s[k])
  BY <1>2, Flattened
<1>6. Lines(p, f, {"call", "callattr"}) \subseteq 1 .. n
  BY <1>1 DEF Lines
<1> QED BY <1>2, <1>3, <1>4, <1>5, <1>6

LEMMA OverItsElements ==
  ASSUME NEW S, NEW s \in Seq(S), NEW T, ToSet(s) \subseteq T
  PROVE  s \in Seq(T)
<1>1. Len(s) \in Nat /\ DOMAIN s = 1 .. Len(s) /\ s = [i \in 1 .. Len(s) |-> s[i]]
  OBVIOUS
<1>2. \A i \in 1 .. Len(s) : s[i] \in T
  BY <1>1 DEF ToSet
<1>3. s \in [1 .. Len(s) -> T]
  BY <1>1, <1>2
<1> QED BY <1>1, <1>3

LEMMA PairFacts ==
  ASSUME NEW a, NEW b
  PROVE  /\ \A x : x \in ToSet(<<a>>) <=> x = a
         /\ \A x : x \in ToSet(<<a, b>>) <=> x = a \/ x = b
         /\ \A x : x \notin ToSet(<<>>)
         /\ <<a>> \in Seq(ToSet(<<a>>)) /\ <<a, b>> \in Seq(ToSet(<<a, b>>))
<1>1. /\ DOMAIN <<a>> = {1} /\ DOMAIN <<a, b>> = {1, 2} /\ DOMAIN <<>> = {}
      /\ <<a>>[1] = a /\ <<a, b>>[1] = a /\ <<a, b>>[2] = b
  OBVIOUS
<1>2. <<a>> \in Seq({a}) /\ <<a, b>> \in Seq({a, b})
  OBVIOUS
<1>3. ToSet(<<a>>) = {a} /\ ToSet(<<a, b>>) = {a, b} /\ ToSet(<<>>) = {}
  BY <1>1 DEF ToSet
<1> QED BY <1>2, <1>3

LEMMA ValuesOfLine ==
  ASSUME NEW p, NEW f, NEW k
  PROVE  /\ ValuesAt(p, f, k) \in Seq(ToSet(ValuesAt(p, f, k)))
         /\ \A r : r \in ToSet(ValuesAt(p, f, k)) <=>
              \/ /\ Body(p, f)[k].op \in {"read", "getattr", "callattr"}
                 /\ r = Reference(<<Body(p, f)[k].name>>, k)
              \/ /\ Body(p, f)[k].op \in {"getattr", "callattr"}
                 /\ r = Reference(<<Body(p, f)[k].name, Body(p, f)[k].member>>, k)
<1>1. PICK s : s = Body(p, f)[k]
  OBVIOUS
<1>2. CASE s.op = "read"
  <2>1. PICK r : r = Reference(<<s.name>>, k)
    OBVIOUS
  <2>2. ValuesAt(p, f, k) = <<r>>
    BY <1>1, <1>2, <2>1 DEF ValuesAt
  <2>3. <<r>> \in Seq(ToSet(<<r>>))
    BY PairFacts
  <2> QED BY <1>1, <1>2, <2>1, <2>2, <2>3, PairFacts
<1>3. CASE s.op \in {"getattr", "callattr"}
  <2>1. PICK r : r = Reference(<<s.name>>, k)
    OBVIOUS
  <2>2. PICK m : m = Reference(<<s.name, s.member>>, k)
    OBVIOUS
  <2>3. ValuesAt(p, f, k) = <<m, r>>
    BY <1>1, <1>3, <2>1, <2>2 DEF ValuesAt
  <2>4. <<m, r>> \in Seq(ToSet(<<m, r>>))
    BY PairFacts
  <2>5. \A x : x \in ToSet(<<m, r>>) <=> x = m \/ x = r
    BY PairFacts
  <2>6. s.op # "read" /\ s.op \in {"read", "getattr", "callattr"}
    BY <1>3
  <2> QED BY <1>1, <1>3, <2>1, <2>2, <2>3, <2>4, <2>5, <2>6
<1>4. CASE s.op \notin {"read", "getattr", "callattr"}
  <2>1. ValuesAt(p, f, k) = <<>>
    BY <1>1, <1>4 DEF ValuesAt
  <2> QED BY <1>1, <1>4, <2>1, PairFacts
<1> QED BY <1>2, <1>3, <1>4

IsValue(p, f, r) == \E k \in DOMAIN Body(p, f) : r \in ToSet(ValuesAt(p, f, k))

LEMMA ValuesOfLines ==
  ASSUME NEW p, WellFormed(p), NEW f \in Functions(p)
  PROVE  /\ Values(p, f) \in Seq(ToSet(Values(p, f)))
         /\ \A r : r \in ToSet(Values(p, f)) <=> IsValue(p, f, r)
<1>1. PICK n \in Nat : DOMAIN Body(p, f) = 1 .. n
  BY LinesOfBody
<1> DEFINE s == [k \in 1 .. n |-> ValuesAt(p, f, k)]
           T == UNION {ToSet(ValuesAt(p, f, k)) : k \in 1 .. n}
<1>2. \A k \in 1 .. n : ValuesAt(p, f, k) \in Seq(ToSet(ValuesAt(p, f, k)))
  BY ValuesOfLine
<1>3. \A k \in 1 .. n : ToSet(ValuesAt(p, f, k)) \subseteq T
  OBVIOUS
<1>4. ASSUME NEW k \in 1 .. n PROVE ValuesAt(p, f, k) \in Seq(T)
  <2>1. PICK v : v = ValuesAt(p, f, k)
    OBVIOUS
  <2> HIDE DEF T
  <2>2. v \in Seq(ToSet(v)) /\ ToSet(v) \subseteq T
    BY <1>2, <1>3, <2>1
  <2> QED BY <2>1, <2>2, OverItsElements
<1>5. s \in [1 .. n -> Seq(T)] /\ Values(p, f) = FlattenSeq(s)
  BY <1>1, <1>4 DEF Values
<1>6. \A k \in 1 .. n : s[k] = ValuesAt(p, f, k)
  OBVIOUS
<1> HIDE DEF s, T
<1>7. FlattenSeq(s) \in Seq(T)
  BY <1>5, Flattened
<1>8. \A x : x \in ToSet(FlattenSeq(s)) <=> \E k \in 1 .. n : x \in ToSet(s[k])
  BY <1>5, Flattened
<1>9. Values(p, f) \in Seq(ToSet(Values(p, f)))
  <2>1. PICK v : v = Values(p, f)
    OBVIOUS
  <2> QED BY <1>5, <1>7, <2>1, OverItsElements
<1> QED BY <1>1, <1>5, <1>6, <1>8, <1>9 DEF IsValue

(* A target of each kind.                                                  *)
OfParameter(f, x) == [symbol |-> ParameterSymbol(f, x), reference |-> Reference(<<x>>, 0)]
OfName(p, f, k) ==
  [symbol    |-> SymbolOf(p, f, Body(p, f)[k].name, <<f, k>>),
   reference |-> Reference(<<Body(p, f)[k].name>>, k)]
OfMember(p, f, k) ==
  [symbol    |-> Symbol("Plain", Body(p, f)[k].member, f, <<f, k>>, "variable"),
   reference |-> Reference(<<Body(p, f)[k].name, Body(p, f)[k].member>>, k)]
OfReceiver(p, f, k) ==
  [symbol    |-> Symbol("Plain", Body(p, f)[k].name, f, <<f, k>>, "variable"),
   reference |-> Reference(<<Body(p, f)[k].name>>, k)]

LEMMA TargetsOfLine ==
  ASSUME NEW p, NEW f, NEW k
  PROVE  /\ TargetsAt(p, f, k) \in Seq(ToSet(TargetsAt(p, f, k)))
         /\ \A t : t \in ToSet(TargetsAt(p, f, k)) <=>
              \/ Body(p, f)[k].op = "assign" /\ t = OfName(p, f, k)
              \/ Body(p, f)[k].op = "setattr" /\ t \in {OfMember(p, f, k), OfReceiver(p, f, k)}
<1>1. PICK op : op = Body(p, f)[k].op
  OBVIOUS
<1>2. CASE op = "assign"
  <2>1. PICK t : t = OfName(p, f, k)
    OBVIOUS
  <2>2. TargetsAt(p, f, k) = <<t>>
    BY <1>1, <1>2, <2>1 DEF TargetsAt, OfName
  <2> QED BY <1>1, <1>2, <2>1, <2>2, PairFacts
<1>3. CASE op = "setattr"
  <2>1. PICK m : m = OfMember(p, f, k)
    OBVIOUS
  <2>2. PICK r : r = OfReceiver(p, f, k)
    OBVIOUS
  <2>3. \A a, b : Last(<<a, b>>) = b /\ Last(<<a>>) = a
    BY DEF Last
  <2>4. TargetsAt(p, f, k) = <<m, r>>
    BY <1>1, <1>3, <2>1, <2>2, <2>3 DEF TargetsAt, OfMember, OfReceiver
  <2>5. \A x : x \in ToSet(<<m, r>>) <=> x = m \/ x = r
    BY PairFacts
  <2>6. <<m, r>> \in Seq(ToSet(<<m, r>>))
    BY PairFacts
  <2> QED BY <1>1, <1>3, <2>1, <2>2, <2>4, <2>5, <2>6
<1>4. CASE op \notin {"assign", "setattr"}
  <2>1. TargetsAt(p, f, k) = <<>>
    BY <1>1, <1>4 DEF TargetsAt
  <2>2. \A x : x \notin ToSet(<<>>)
    BY DEF ToSet
  <2>3. <<>> \in Seq(ToSet(<<>>)) /\ op # "assign" /\ op # "setattr"
    BY <1>4
  <2> QED BY <1>1, <2>1, <2>2, <2>3
<1>5. op = "assign" \/ op = "setattr" \/ op \notin {"assign", "setattr"}
  OBVIOUS
<1> QED BY <1>2, <1>3, <1>4, <1>5, Zenon

IsTarget(p, f, t) ==
  \/ \E x \in Parameters(p, f) : t = OfParameter(f, x)
  \/ \E k \in DOMAIN Body(p, f) : t \in ToSet(TargetsAt(p, f, k))

LEMMA TargetsOfFunction ==
  ASSUME NEW p, WellFormed(p), NEW f \in Functions(p)
  PROVE  /\ Targets(p, f) \in Seq(ToSet(Targets(p, f)))
         /\ \A t : t \in ToSet(Targets(p, f)) <=> IsTarget(p, f, t)
<1>1. PICK n \in Nat : DOMAIN Body(p, f) = 1 .. n
  BY LinesOfBody
<1>2. PICK params : params = p.functions[f].params
  OBVIOUS
<1>3. params \in Seq(Range(params))
  BY <1>2 DEF WellFormed
<1>4. Len(params) \in Nat /\ DOMAIN params = 1 .. Len(params)
  BY <1>3
<1> DEFINE s == [k \in 1 .. n |-> TargetsAt(p, f, k)]
           U == UNION {ToSet(TargetsAt(p, f, k)) : k \in 1 .. n}
           T == U \cup {OfParameter(f, x) : x \in Parameters(p, f)}
           q == [i \in 1 .. Len(params) |-> OfParameter(f, params[i].name)]
<1>5. ASSUME NEW k \in 1 .. n PROVE TargetsAt(p, f, k) \in Seq(T)
  <2>1. PICK v : v = TargetsAt(p, f, k)
    OBVIOUS
  <2>2. ToSet(v) \subseteq T
    BY <2>1
  <2> HIDE DEF T
  <2>3. v \in Seq(ToSet(v))
    BY <2>1, TargetsOfLine
  <2> QED BY <2>1, <2>2, <2>3, OverItsElements
<1>6. s \in [1 .. n -> Seq(T)]
  BY <1>5
<1>7. \A k \in 1 .. n : s[k] = TargetsAt(p, f, k)
  OBVIOUS
<1>8. \A i \in 1 .. Len(params) : q[i] = OfParameter(f, params[i].name) /\ params[i].name \in Parameters(p, f)
  BY <1>2, <1>4 DEF Parameters
<1>9. q \in Seq(T) /\ DOMAIN q = 1 .. Len(params)
  <2>1. \A i \in 1 .. Len(params) : OfParameter(f, params[i].name) \in T
    BY <1>8
  <2> HIDE DEF T
  <2> QED BY <1>4, <2>1
<1>10. \A x : x \in ToSet(q) <=> \E y \in Parameters(p, f) : x = OfParameter(f, y)
  BY <1>2, <1>4, <1>8, <1>9 DEF ToSet, Parameters
<1>11. Targets(p, f) = q \o FlattenSeq(s)
  BY <1>1, <1>2, <1>4 DEF Targets, OfParameter
<1> HIDE DEF s, T, U, q
<1>12. FlattenSeq(s) \in Seq(T)
  BY <1>6, Flattened
<1>13. \A x : x \in ToSet(FlattenSeq(s)) <=> \E k \in 1 .. n : x \in ToSet(s[k])
  BY <1>6, Flattened
<1>14. PICK v : v = q \o FlattenSeq(s)
  OBVIOUS
<1>15. v \in Seq(T) /\ ToSet(v) = ToSet(q) \cup ToSet(FlattenSeq(s))
  BY <1>9, <1>12, <1>14, Concatenated
<1>16. v \in Seq(ToSet(v))
  BY <1>15, OverItsElements
<1>17. \A x : x \in ToSet(v) <=> IsTarget(p, f, x)
  BY <1>1, <1>7, <1>10, <1>13, <1>15 DEF IsTarget
<1> QED BY <1>11, <1>14, <1>16, <1>17
-----------------------------------------------------------------------------
(* Resolving the references one by one.                                    *)
LEMMA InitInvariant == Init => IInv
<1> SUFFICES ASSUME Init PROVE IInv
  OBVIOUS
<1>1. DOMAIN raw_reasons = {}
  BY DEF Init
<1>2. calls = <<>> /\ values = <<>> /\ targets = <<>> /\ program \in Programs /\ functions = Functions(program)
  BY DEF Init
<1>3. <<>> \in Seq({})
  OBVIOUS
<1>4. Shapes
  BY <1>1, <1>2, <1>3 DEF Shapes
<1> QED
  BY <1>1, <1>2, <1>4 DEF IInv, Pending, CallsFound, ReadsFound, WritesFound, ReadsDeserved, WritesDeserved

LEMMA NextIsOne ==
  ASSUME NEW p \in Programs, NEW S \in SUBSET Functions(p), S # {}
  PROVE  (CHOOSE g \in S : \A h \in S : Order[g] <= Order[h]) \in S
<1> DEFINE T == {Order[g] : g \in S}
<1>1. T \in SUBSET Nat /\ T # {}
  <2>1. \A g \in S : Order[g] \in Nat
    BY FunctionsAreOrdered
  <2> QED BY <2>1
<1>2. PICK x \in T : \A y \in T : x <= y
  <2> HIDE DEF T
  <2> QED BY <1>1, Least
<1>3. \E g \in S : \A h \in S : Order[g] <= Order[h]
  BY <1>2
<1> QED
  BY <1>3

LEMMA NextFunctionKeeps ==
  ASSUME IInv, NextFunction PROVE IInv'
<1>1. /\ calls = <<>> /\ values = <<>> /\ targets = <<>> /\ functions # {} /\ program' = program
      /\ program \in Programs /\ functions \in SUBSET Functions(program)
  BY DEF NextFunction, IInv, Shapes
<1>2. PICK f : f = CHOOSE g \in functions : \A h \in functions : Order[g] <= Order[h]
  OBVIOUS
<1>3. f \in functions /\ f \in Functions(program)
  BY <1>1, <1>2, NextIsOne
<1>4. /\ current' = f /\ functions' = functions \ {f}
      /\ calls' = Calls(program, f) /\ values' = Values(program, f)
      /\ targets' = [i \in DOMAIN Targets(program, f) |-> i]
      /\ raw_reasons' = [g \in DOMAIN raw_reasons \cup {f} |-> IF g = f THEN NothingFound ELSE raw_reasons[g]]
  BY <1>2 DEF NextFunction
<1>5. WellFormed(program)
  BY <1>1, ProgramsAreWellFormed
<1>6. /\ f \notin DOMAIN raw_reasons /\ DOMAIN raw_reasons' = DOMAIN raw_reasons \cup {f}
      /\ DOMAIN raw_reasons' = Functions(program) \ functions'
      /\ raw_reasons'[f] = NothingFound
      /\ \A g \in DOMAIN raw_reasons : raw_reasons'[g] = raw_reasons[g] /\ g # f
  BY <1>3, <1>4 DEF IInv, Shapes
<1>7. /\ DOMAIN NothingFound = Reasons /\ NothingFound.reads_from = {} /\ NothingFound.writes_to = {}
  BY DEF NothingFound, Reasons
<1>8. calls' \in Seq(Nat) /\ values' \in Seq(ToSet(Values(program, f)))
  BY <1>3, <1>4, <1>5, CallsOfLines, ValuesOfLines
<1>9. targets' \in Seq(Nat) /\ ToSet(targets') = DOMAIN Targets(program, f)
  <2>1. PICK t : t = Targets(program, f)
    OBVIOUS
  <2>2. t \in Seq(ToSet(t))
    BY <1>3, <1>5, <2>1, TargetsOfFunction
  <2>3. Len(t) \in Nat /\ DOMAIN t = 1 .. Len(t)
    BY <2>2
  <2>4. targets' = [i \in 1 .. Len(t) |-> i]
    BY <1>4, <2>1, <2>3
  <2>5. DOMAIN targets' = 1 .. Len(t) /\ \A i \in 1 .. Len(t) : targets'[i] = i
    BY <2>4
  <2>6. targets' \in Seq(Nat)
    BY <2>3, <2>4
  <2> QED BY <2>1, <2>3, <2>5, <2>6 DEF ToSet
<1>10. Shapes'
  <2>1. \A g \in DOMAIN raw_reasons' : Reasons \subseteq DOMAIN raw_reasons'[g]
    BY <1>6, <1>7 DEF IInv, Shapes
  <2>2. (\E S : calls' \in Seq(S)) /\ (\E S : values' \in Seq(S)) /\ (\E S : targets' \in Seq(S))
    BY <1>8, <1>9
  <2>3. functions' \subseteq Functions(program)
    BY <1>1, <1>4
  <2> QED BY <1>1, <1>6, <2>1, <2>2, <2>3 DEF Shapes
<1>11. Pending'
  BY <1>1, <1>4, <1>6, <1>9 DEF Pending
<1>12. \A g \in DOMAIN raw_reasons : g \in DOMAIN raw_reasons' /\ ToSet(calls) = {} /\ ToSet(values) = {} /\ ToSet(targets) = {}
  BY <1>1, <1>6 DEF ToSet
<1>13. CallsFound'
  <2>1. ASSUME NEW g \in DOMAIN raw_reasons', NEW k \in ToSet(Calls(program, g)), g # f
        PROVE  FindCall(program, g, k) \subseteq raw_reasons'[g].calls
    BY <1>6, <1>12, <2>1 DEF IInv, CallsFound
  <2> QED BY <1>1, <1>4, <2>1 DEF CallsFound
<1>14. ReadsFound'
  <2>1. ASSUME NEW g \in DOMAIN raw_reasons', NEW r \in ToSet(Values(program, g)), g # f
        PROVE  Read(program, g, r) \subseteq raw_reasons'[g].reads_from
    BY <1>6, <1>12, <2>1 DEF IInv, ReadsFound
  <2> QED BY <1>1, <1>4, <2>1 DEF ReadsFound
<1>15. WritesFound'
  <2>1. ASSUME NEW g \in DOMAIN raw_reasons', NEW i \in DOMAIN Targets(program, g), g # f
        PROVE  Written(program, g, i) \subseteq raw_reasons'[g].writes_to
    BY <1>6, <1>12, <2>1 DEF IInv, WritesFound
  <2> QED BY <1>1, <1>4, <1>9, <2>1 DEF WritesFound
<1>16. ReadsDeserved' /\ WritesDeserved'
  BY <1>1, <1>6, <1>7 DEF IInv, ReadsDeserved, WritesDeserved
<1> QED
  BY <1>10, <1>11, <1>13, <1>14, <1>15, <1>16 DEF IInv

LEMMA ResolveCallKeeps ==
  ASSUME IInv, ResolveCall PROVE IInv'
<1>1. PICK found : found = FindCall(program, current, Head(calls))
  OBVIOUS
<1>2. /\ calls # <<>> /\ calls' = Tail(calls)
      /\ UNCHANGED <<program, functions, current, values, targets>>
      /\ raw_reasons' =
           [raw_reasons EXCEPT ![current].calls = @ \cup found,
                               ![current].unknown_calls = @ \cup {k \in {Head(calls)} : found = {}}]
  BY <1>1 DEF ResolveCall
<1>3. current \in DOMAIN raw_reasons /\ Reasons \subseteq DOMAIN raw_reasons[current]
  BY <1>2 DEF IInv, Pending, Shapes
<1>4. /\ DOMAIN raw_reasons' = DOMAIN raw_reasons
      /\ \A f \in DOMAIN raw_reasons : f # current => raw_reasons'[f] = raw_reasons[f]
      /\ DOMAIN raw_reasons'[current] = DOMAIN raw_reasons[current]
      /\ raw_reasons'[current].calls = raw_reasons[current].calls \cup found
      /\ raw_reasons'[current].reads_from = raw_reasons[current].reads_from
      /\ raw_reasons'[current].writes_to = raw_reasons[current].writes_to
  BY <1>2, <1>3 DEF Reasons
<1>5. PICK S : calls \in Seq(S)
  BY DEF IInv, Shapes
<1>6. calls' \in Seq(S) /\ ToSet(calls) = {Head(calls)} \cup ToSet(calls')
  BY <1>2, <1>5, HeadAndTail
<1>7. Shapes'
  BY <1>2, <1>3, <1>4, <1>6 DEF IInv, Shapes
<1>8. Pending'
  BY <1>2, <1>3, <1>4 DEF IInv, Pending
<1>9. CallsFound'
  <2>1. ASSUME NEW f \in DOMAIN raw_reasons, NEW k \in ToSet(Calls(program, f))
        PROVE  FindCall(program, f, k) \subseteq raw_reasons'[f].calls \/ (f = current /\ k \in ToSet(calls'))
    <3>1. CASE f = current /\ k = Head(calls)
      BY <1>1, <1>4, <3>1
    <3>2. CASE ~(f = current /\ k = Head(calls))
      <4>1. FindCall(program, f, k) \subseteq raw_reasons[f].calls \/ (f = current /\ k \in ToSet(calls'))
        BY <1>6, <3>2 DEF IInv, CallsFound
      <4>2. raw_reasons[f].calls \subseteq raw_reasons'[f].calls
        BY <1>4
      <4> QED BY <4>1, <4>2
    <3> QED BY <3>1, <3>2
  <2> QED BY <1>2, <1>4, <2>1 DEF CallsFound
<1>10. ReadsFound' /\ WritesFound'
  BY <1>2, <1>4 DEF IInv, ReadsFound, WritesFound
<1>11. ReadsDeserved' /\ WritesDeserved'
  BY <1>2, <1>4 DEF IInv, ReadsDeserved, WritesDeserved
<1> QED
  BY <1>7, <1>8, <1>9, <1>10, <1>11 DEF IInv

LEMMA ResolveValueKeeps ==
  ASSUME IInv, ResolveValue PROVE IInv'
<1>1. PICK found : found = FindValue(program, current, Head(values))
  OBVIOUS
<1>2. PICK read : read = Read(program, current, Head(values))
  OBVIOUS
<1>3. PICK called : called = {s \in found : IsCallable(program, s)}
  OBVIOUS
<1>4. /\ values # <<>> /\ values' = Tail(values)
      /\ UNCHANGED <<program, functions, current, calls, targets>>
      /\ raw_reasons' = [raw_reasons EXCEPT ![current].reads_from = @ \cup read,
                                            ![current].calls = @ \cup called]
  BY <1>1, <1>2, <1>3 DEF ResolveValue, Read
<1>5. /\ current \in DOMAIN raw_reasons /\ Reasons \subseteq DOMAIN raw_reasons[current]
      /\ ToSet(values) \subseteq ToSet(Values(program, current))
  BY <1>4 DEF IInv, Pending, Shapes
<1>6. /\ DOMAIN raw_reasons' = DOMAIN raw_reasons
      /\ \A f \in DOMAIN raw_reasons : f # current => raw_reasons'[f] = raw_reasons[f]
      /\ DOMAIN raw_reasons'[current] = DOMAIN raw_reasons[current]
      /\ raw_reasons'[current].calls = raw_reasons[current].calls \cup called
      /\ raw_reasons'[current].reads_from = raw_reasons[current].reads_from \cup read
      /\ raw_reasons'[current].writes_to = raw_reasons[current].writes_to
  BY <1>4, <1>5 DEF Reasons
<1>7. PICK S : values \in Seq(S)
  BY DEF IInv, Shapes
<1>8. values' \in Seq(S) /\ ToSet(values) = {Head(values)} \cup ToSet(values')
  BY <1>4, <1>7, HeadAndTail
<1>9. Shapes'
  BY <1>4, <1>5, <1>6, <1>8 DEF IInv, Shapes
<1>10. Pending'
  BY <1>4, <1>5, <1>6, <1>8 DEF IInv, Pending
<1>11. CallsFound'
  BY <1>4, <1>6 DEF IInv, CallsFound
<1>12. ReadsFound'
  <2>1. ASSUME NEW f \in DOMAIN raw_reasons, NEW r \in ToSet(Values(program, f))
        PROVE  Read(program, f, r) \subseteq raw_reasons'[f].reads_from \/ (f = current /\ r \in ToSet(values'))
    <3>1. CASE f = current /\ r = Head(values)
      BY <1>2, <1>6, <3>1
    <3>2. CASE ~(f = current /\ r = Head(values))
      <4>1. Read(program, f, r) \subseteq raw_reasons[f].reads_from \/ (f = current /\ r \in ToSet(values'))
        BY <1>8, <3>2 DEF IInv, ReadsFound
      <4>2. raw_reasons[f].reads_from \subseteq raw_reasons'[f].reads_from
        BY <1>6
      <4> QED BY <4>1, <4>2
    <3> QED BY <3>1, <3>2
  <2> QED BY <1>4, <1>6, <2>1 DEF ReadsFound
<1>13. WritesFound' /\ WritesDeserved'
  BY <1>4, <1>6 DEF IInv, WritesFound, WritesDeserved
<1>14. ReadsDeserved'
  <2>1. ASSUME NEW f \in DOMAIN raw_reasons, NEW s \in raw_reasons'[f].reads_from
        PROVE  \E r \in ToSet(Values(program, f)) : s \in Read(program, f, r)
    <3>1. CASE s \in raw_reasons[f].reads_from
      BY <3>1 DEF IInv, ReadsDeserved
    <3>2. CASE s \notin raw_reasons[f].reads_from
      <4>1. f = current /\ s \in read
        BY <1>6, <2>1, <3>2
      <4>2. Head(values) \in ToSet(Values(program, current))
        BY <1>5, <1>8
      <4> QED BY <1>2, <4>1, <4>2
    <3> QED BY <3>1, <3>2
  <2> QED BY <1>4, <1>6, <2>1 DEF ReadsDeserved
<1> QED
  BY <1>9, <1>10, <1>11, <1>12, <1>13, <1>14 DEF IInv

LEMMA ResolveTargetKeeps ==
  ASSUME IInv, ResolveTarget PROVE IInv'
<1>1. PICK written : written = Written(program, current, Head(targets))
  OBVIOUS
<1>2. /\ targets # <<>> /\ targets' = Tail(targets)
      /\ UNCHANGED <<program, functions, current, calls, values>>
      /\ raw_reasons' = [raw_reasons EXCEPT ![current].writes_to = @ \cup written]
  BY <1>1 DEF ResolveTarget, Written
<1>3. /\ current \in DOMAIN raw_reasons /\ Reasons \subseteq DOMAIN raw_reasons[current]
      /\ ToSet(targets) \subseteq DOMAIN Targets(program, current)
  BY <1>2 DEF IInv, Pending, Shapes
<1>4. /\ DOMAIN raw_reasons' = DOMAIN raw_reasons
      /\ \A f \in DOMAIN raw_reasons : f # current => raw_reasons'[f] = raw_reasons[f]
      /\ DOMAIN raw_reasons'[current] = DOMAIN raw_reasons[current]
      /\ raw_reasons'[current].calls = raw_reasons[current].calls
      /\ raw_reasons'[current].reads_from = raw_reasons[current].reads_from
      /\ raw_reasons'[current].writes_to = raw_reasons[current].writes_to \cup written
  BY <1>2, <1>3 DEF Reasons
<1>5. PICK S : targets \in Seq(S)
  BY DEF IInv, Shapes
<1>6. targets' \in Seq(S) /\ ToSet(targets) = {Head(targets)} \cup ToSet(targets')
  BY <1>2, <1>5, HeadAndTail
<1>7. Shapes'
  BY <1>2, <1>3, <1>4, <1>6 DEF IInv, Shapes
<1>8. Pending'
  BY <1>2, <1>3, <1>4, <1>6 DEF IInv, Pending
<1>9. CallsFound' /\ ReadsFound' /\ ReadsDeserved'
  BY <1>2, <1>4 DEF IInv, CallsFound, ReadsFound, ReadsDeserved
<1>10. WritesFound'
  <2>1. ASSUME NEW f \in DOMAIN raw_reasons, NEW i \in DOMAIN Targets(program, f)
        PROVE  Written(program, f, i) \subseteq raw_reasons'[f].writes_to \/ (f = current /\ i \in ToSet(targets'))
    <3>1. CASE f = current /\ i = Head(targets)
      BY <1>1, <1>4, <3>1
    <3>2. CASE ~(f = current /\ i = Head(targets))
      <4>1. Written(program, f, i) \subseteq raw_reasons[f].writes_to \/ (f = current /\ i \in ToSet(targets'))
        BY <1>6, <3>2 DEF IInv, WritesFound
      <4>2. raw_reasons[f].writes_to \subseteq raw_reasons'[f].writes_to
        BY <1>4
      <4> QED BY <4>1, <4>2
    <3> QED BY <3>1, <3>2
  <2> QED BY <1>2, <1>4, <2>1 DEF WritesFound
<1>11. WritesDeserved'
  <2>1. ASSUME NEW f \in DOMAIN raw_reasons, NEW s \in raw_reasons'[f].writes_to
        PROVE  \E i \in DOMAIN Targets(program, f) : s \in Written(program, f, i)
    <3>1. CASE s \in raw_reasons[f].writes_to
      BY <3>1 DEF IInv, WritesDeserved
    <3>2. CASE s \notin raw_reasons[f].writes_to
      <4>1. f = current /\ s \in written
        BY <1>4, <2>1, <3>2
      <4>2. Head(targets) \in DOMAIN Targets(program, current)
        BY <1>3, <1>6
      <4> QED BY <1>1, <4>1, <4>2
    <3> QED BY <3>1, <3>2
  <2> QED BY <1>2, <1>4, <2>1 DEF WritesDeserved
<1> QED
  BY <1>7, <1>8, <1>9, <1>10, <1>11 DEF IInv

(* raw_reasons has all that the references of a function are resolved to,  *)
(* once they have had their turn in _resolve_references, and nothing else. *)
THEOREM ResolvedAsFound == Spec => []IInv
<1>1. ASSUME IInv, [Next]_vars PROVE IInv'
  <2>1. CASE NextFunction
    BY <1>1, <2>1, NextFunctionKeeps
  <2>2. CASE ResolveCall
    BY <1>1, <2>2, ResolveCallKeeps
  <2>3. CASE ResolveValue
    BY <1>1, <2>3, ResolveValueKeeps
  <2>4. CASE ResolveTarget
    BY <1>1, <2>4, ResolveTargetKeeps
  <2>5. CASE UNCHANGED vars
    BY <1>1, <2>5
       DEF vars, IInv, Shapes, Pending, CallsFound, ReadsFound, WritesFound, ReadsDeserved, WritesDeserved
  <2> QED
    BY <1>1, <2>1, <2>2, <2>3, <2>4, <2>5 DEF Next, Terminated
<1> QED
  BY <1>1, InitInvariant, PTL DEF Spec
-----------------------------------------------------------------------------
(* The symbols that are found.                                             *)
LEMMA SymbolFacts ==
  ASSUME NEW sort, NEW name, NEW of, NEW at, NEW node
  PROVE  /\ Symbol(sort, name, of, at, node).sort = sort
         /\ Symbol(sort, name, of, at, node).name = name
         /\ Symbol(sort, name, of, at, node).of = of
         /\ Symbol(sort, name, of, at, node).node = node
  BY DEF Symbol

LEMMA NameReference ==
  ASSUME NEW x, NEW k
  PROVE  ~IsMemberAccess(Reference(<<x>>, k)) /\ Receiver(Reference(<<x>>, k)) = x
<1>1. Reference(<<x>>, k).path = <<x>> /\ Len(<<x>>) = 1 /\ <<x>>[1] = x
  BY DEF Reference
<1> QED
  BY <1>1 DEF IsMemberAccess, Receiver

LEMMA MemberReference ==
  ASSUME NEW x, NEW m, NEW k
  PROVE  /\ IsMemberAccess(Reference(<<x, m>>, k)) /\ Receiver(Reference(<<x, m>>, k)) = x
         /\ Member(Reference(<<x, m>>, k)) = m
         /\ Reference(<<x, m>>, k).line = k
<1>1. Len(<<x, m>>) = 2 /\ <<x, m>>[1] = x /\ <<x, m>>[2] = m
  OBVIOUS
<1>2. Reference(<<x, m>>, k).path = <<x, m>> /\ Reference(<<x, m>>, k).line = k
  BY DEF Reference
<1> QED
  BY <1>1, <1>2 DEF IsMemberAccess, Receiver, Member, Last

(* The name of a global variable that is no local one means that variable. *)
LEMMA GlobalIsDefined ==
  ASSUME NEW p, WellFormed(p), NEW f \in Functions(p), NEW x \in p.globals, x \notin Locals(p, f)
  PROVE  \E s \in GlobalDefinition(p, f, x) :
           s.sort = "Global" /\ s.name = x /\ s.of = Module /\ s.node = "variable"
<1>1. x \notin Parameters(p, f)
  BY DEF WellFormed, Locals
<1>2. x \in RootGlobals(p) \ Locals(p, f)
  BY DEF RootGlobals
<1>3. SymbolOf(p, f, x, Declaration) = Symbol("Global", x, Module, Declaration, "variable")
  BY <1>1, <1>2 DEF SymbolOf
<1> QED
  BY <1>3, SymbolFacts DEF GlobalDefinition

LEMMA GlobalReadIsFound ==
  ASSUME NEW p, WellFormed(p), NEW f \in Functions(p), NEW x \in p.globals, x \notin Locals(p, f),
         x \in Named(p, f, {"read", "getattr", "callattr"})
  PROVE  \E r \in ToSet(Values(p, f)) : \E s \in Read(p, f, r) :
           s.sort \in Shared /\ <<s.of, s.name>> = <<Module, x>>
<1>1. PICK k \in Lines(p, f, {"read", "getattr", "callattr"}) : Body(p, f)[k].name = x
  BY DEF Named
<1>2. PICK r : r = Reference(<<x>>, k)
  OBVIOUS
<1>3. r \in ToSet(ValuesAt(p, f, k)) /\ k \in DOMAIN Body(p, f)
  BY <1>1, <1>2, ValuesOfLine DEF Lines
<1>4. r \in ToSet(Values(p, f))
  BY <1>3, ValuesOfLines DEF IsValue
<1>5. PICK s \in GlobalDefinition(p, f, x) :
        s.sort = "Global" /\ s.name = x /\ s.of = Module /\ s.node = "variable"
  BY GlobalIsDefined
<1>6. s \in GlobalsUsed(p, f, x)
  BY <1>5 DEF GlobalsUsed, GlobalsRead, NamesRead
<1>7. ~IsMemberAccess(r) /\ Receiver(r) = x
  BY <1>2, NameReference
<1>8. s \in FindValue(p, f, r)
  BY <1>6, <1>7 DEF FindValue, NamedValues
<1>9. s \in Read(p, f, r)
  BY <1>5, <1>8 DEF Read, Shared
<1> QED
  BY <1>4, <1>5, <1>9 DEF Shared

(* A variable of a class has a symbol.                                     *)
LEMMA VariableHasSymbol ==
  ASSUME NEW p, NEW c, NEW m, VariableOf(p, c, m)
  PROVE  \E s \in ClassVariables(p, c, m) \cup InstanceVariables(p, c, m) :
           s.sort \in {"Class", "Instance"} /\ s.name = m /\ s.of = c /\ s.node = "variable"
<1>1. CASE m \in p.classes[c].vars
  BY <1>1, SymbolFacts DEF ClassVariables
<1>2. CASE Assigned(p, c, m) # {}
  <2>1. PICK at \in Assigned(p, c, m) : TRUE
    BY <1>2
  <2>2. Symbol("Instance", m, c, at, "variable") \in InstanceVariables(p, c, m)
    BY <2>1 DEF InstanceVariables
  <2> QED BY <2>2, SymbolFacts
<1> QED BY <1>1, <1>2 DEF VariableOf

LEMMA MemberReadIsFound ==
  ASSUME NEW p, WellFormed(p), NEW f \in Functions(p), NEW k \in Lines(p, f, {"getattr"}),
         NEW c \in Classes(p), NEW m, ReadsMember(p, f, k, c, m)
  PROVE  \E r \in ToSet(Values(p, f)) : \E s \in Read(p, f, r) :
           s.sort \in Shared /\ <<s.of, s.name>> = <<c, m>>
<1>1. PICK name : name = Body(p, f)[k].name
  OBVIOUS
<1>2. Body(p, f)[k].member = m /\ VariableOf(p, c, m) /\ m \notin CallNames(p, f)
  BY DEF ReadsMember
<1>3. PICK r : r = Reference(<<name, m>>, k)
  OBVIOUS
<1>4. r \in ToSet(ValuesAt(p, f, k)) /\ k \in DOMAIN Body(p, f)
  BY <1>1, <1>2, <1>3, ValuesOfLine DEF Lines
<1>5. r \in ToSet(Values(p, f))
  BY <1>4, ValuesOfLines DEF IsValue
<1>6. PICK s \in ClassVariables(p, c, m) \cup InstanceVariables(p, c, m) :
        s.sort \in {"Class", "Instance"} /\ s.name = m /\ s.of = c /\ s.node = "variable"
  BY <1>2, VariableHasSymbol
<1>7. s \in ClassValues(p, f, m)
  BY <1>2, <1>6 DEF ClassValues
<1>8. IsMemberAccess(r) /\ Member(r) = m
  BY <1>3, MemberReference
<1>9. s \in FindValue(p, f, r)
  BY <1>7, <1>8 DEF FindValue
<1>10. s \in Read(p, f, r)
  BY <1>6, <1>9 DEF Read, Shared
<1> QED
  BY <1>5, <1>6, <1>10 DEF Shared

LEMMA ReadsAreShown ==
  ASSUME NEW p, WellFormed(p), NEW f \in Functions(p), NEW reads,
         \A r \in ToSet(Values(p, f)) : Read(p, f, r) \subseteq reads
  PROVE  Reads(p, f) \subseteq Shown(reads)
<1>1. ASSUME NEW r \in ToSet(Values(p, f)), NEW s \in Read(p, f, r), s.sort \in Shared
      PROVE  <<s.of, s.name>> \in Shown(reads)
  BY <1>1 DEF Shown
<1>2. ASSUME NEW x \in (p.globals \cap Named(p, f, {"read", "getattr", "callattr"})) \ Locals(p, f)
      PROVE  <<Module, x>> \in Shown(reads)
  BY <1>1, GlobalReadIsFound
<1>3. ASSUME NEW v \in Classes(p) \X {Body(p, f)[k].member : k \in Lines(p, f, {"getattr"})},
             NEW k \in Lines(p, f, {"getattr"}), ReadsMember(p, f, k, v[1], v[2])
      PROVE  v \in Shown(reads)
  <2>1. v[1] \in Classes(p) /\ v = <<v[1], v[2]>>
    OBVIOUS
  <2>2. PICK c, m : c = v[1] /\ m = v[2]
    OBVIOUS
  <2>3. PICK r \in ToSet(Values(p, f)) : \E s \in Read(p, f, r) :
          s.sort \in Shared /\ <<s.of, s.name>> = <<c, m>>
    BY <1>3, <2>1, <2>2, MemberReadIsFound
  <2> QED BY <1>1, <2>1, <2>2, <2>3
<1> QED
  BY <1>2, <1>3 DEF Reads

(* When all is done, all has been found.                                   *)
LEMMA FoundWhenDone ==
  ASSUME IInv, Done, NEW f \in Functions(program)
  PROVE  /\ WellFormed(program) /\ Conventional(program) /\ f \in DOMAIN raw_reasons
         /\ \A k \in ToSet(Calls(program, f)) : FindCall(program, f, k) \subseteq raw_reasons[f].calls
         /\ \A r \in ToSet(Values(program, f)) : Read(program, f, r) \subseteq raw_reasons[f].reads_from
         /\ \A i \in DOMAIN Targets(program, f) : Written(program, f, i) \subseteq raw_reasons[f].writes_to
<1>1. program \in Programs /\ f \in DOMAIN raw_reasons
  BY DEF IInv, Shapes, Done
<1>2. WellFormed(program) /\ Conventional(program)
  BY <1>1, ProgramsAreWellFormed
<1>3. ToSet(calls) = {} /\ ToSet(values) = {} /\ ToSet(targets) = {}
  BY DEF Done, ToSet
<1>4. \A k \in ToSet(Calls(program, f)) : FindCall(program, f, k) \subseteq raw_reasons[f].calls
  BY <1>1, <1>3 DEF IInv, CallsFound
<1>5. \A r \in ToSet(Values(program, f)) : Read(program, f, r) \subseteq raw_reasons[f].reads_from
  BY <1>1, <1>3 DEF IInv, ReadsFound
<1>6. \A i \in DOMAIN Targets(program, f) : Written(program, f, i) \subseteq raw_reasons[f].writes_to
  BY <1>1, <1>3 DEF IInv, WritesFound
<1> QED BY <1>1, <1>2, <1>4, <1>5, <1>6

LEMMA ReadsKept == IInv => NoReadLost
<1> SUFFICES ASSUME IInv, Done, NEW f \in Functions(program)
             PROVE  Reads(program, f) \subseteq Shown(raw_reasons[f].reads_from)
  BY DEF NoReadLost
<1>1. WellFormed(program)
  BY FoundWhenDone
<1>2. \A r \in ToSet(Values(program, f)) : Read(program, f, r) \subseteq raw_reasons[f].reads_from
  BY FoundWhenDone
<1> QED BY <1>1, <1>2, ReadsAreShown

(* Every read of a global variable, of a variable of the receiver's class  *)
(* or of a superclass is among the reads: _find_value_references looks     *)
(* through all classes of the module, and a name that is no local one is   *)
(* in globals_used.                                                        *)
THEOREM EveryReadIsFound == Spec => []NoReadLost
  BY ResolvedAsFound, ReadsKept, PTL

(* The class around a method: EnclosingClass is defined by recursion over  *)
(* functions in functions, which end somewhere.                            *)
Around(p, h, g) == IF Owner(p, g) \in Functions(p) THEN h[Owner(p, g)] ELSE Owner(p, g)
IsAround(p, h) == h = [g \in Functions(p) |-> Around(p, h, g)]
AroundUpto(p, depth, n, h) ==
  /\ h = [g \in Functions(p) |-> h[g]]
  /\ \A g \in Functions(p) : depth[g] < n => h[g] = Around(p, h, g)

LEMMA AroundExists ==
  ASSUME NEW p, WellFormed(p)
  PROVE  \E h : IsAround(p, h)
<1>1. PICK N \in Nat : N = Cardinality(Functions(p))
  BY FS_CardinalityType DEF WellFormed
<1>2. PICK depth \in [Functions(p) -> 0 .. N] :
        \A f \in Functions(p) : Owner(p, f) \in Functions(p) => depth[Owner(p, f)] < depth[f]
  BY <1>1 DEF WellFormed
<1> DEFINE S == {n \in Nat : \E h : AroundUpto(p, depth, n, h)}
<1>3. 0 \in S
  <2> DEFINE h == [g \in Functions(p) |-> 0]
  <2>1. \A g \in Functions(p) : depth[g] \in Nat /\ ~(depth[g] < 0)
    BY <1>2
  <2>2. AroundUpto(p, depth, 0, h)
    BY <2>1 DEF AroundUpto
  <2> HIDE DEF h
  <2> QED BY <2>2
<1>4. ASSUME NEW n \in S PROVE n + 1 \in S
  <2>1. n \in Nat /\ n + 1 \in Nat
    OBVIOUS
  <2>2. PICK h : AroundUpto(p, depth, n, h)
    OBVIOUS
  <2>3. PICK k : k = [g \in Functions(p) |-> Around(p, h, g)]
    OBVIOUS
  <2>4. k = [g \in Functions(p) |-> k[g]]
    BY <2>3
  <2>5. ASSUME NEW g \in Functions(p), depth[g] < n + 1 PROVE k[g] = Around(p, k, g)
    <3>1. k[g] = Around(p, h, g)
      BY <2>3
    <3>2. CASE Owner(p, g) \in Functions(p)
      <4>1. PICK o \in Functions(p) : o = Owner(p, g)
        BY <3>2
      <4>2. depth[o] \in Nat /\ depth[g] \in Nat /\ depth[o] < depth[g]
        BY <1>2, <3>2, <4>1
      <4>3. depth[o] < n
        BY <2>1, <2>5, <4>2
      <4>4. h[o] = Around(p, h, o) /\ k[o] = Around(p, h, o)
        BY <2>2, <2>3, <4>3 DEF AroundUpto
      <4> QED BY <3>1, <3>2, <4>1, <4>4 DEF Around
    <3>3. CASE Owner(p, g) \notin Functions(p)
      BY <3>1, <3>3 DEF Around
    <3> QED BY <3>2, <3>3
  <2>6. AroundUpto(p, depth, n + 1, k)
    BY <2>4, <2>5 DEF AroundUpto
  <2> QED BY <2>1, <2>6
<1>5. S = Nat
  <2>1. S \in SUBSET Nat
    OBVIOUS
  <2> HIDE DEF S
  <2> QED BY <1>3, <1>4, <2>1, SetInduction
<1>6. PICK h : AroundUpto(p, depth, N + 1, h)
  <2>1. N + 1 \in Nat
    BY <1>1
  <2>2. N + 1 \in S
    <3> HIDE DEF S
    <3> QED BY <1>5, <2>1
  <2> QED BY <2>2
<1>7. \A g \in Functions(p) : depth[g] < N + 1
  BY <1>1, <1>2
<1>8. \A g \in Functions(p) : h[g] = Around(p, h, g)
  BY <1>6, <1>7 DEF AroundUpto
<1>9. h = [g \in Functions(p) |-> h[g]]
  BY <1>6 DEF AroundUpto
<1> QED
  BY <1>8, <1>9 DEF IsAround

LEMMA ClassAroundMethod ==
  ASSUME NEW p, WellFormed(p), NEW f \in Functions(p), Owner(p, f) \notin Functions(p)
  PROVE  EnclosingClass(p, f) = Owner(p, f)
<1>1. PICK of : of = CHOOSE h : h = [g \in Functions(p) |-> Around(p, h, g)]
  OBVIOUS
<1>2. EnclosingClass(p, f) = of[f]
  BY <1>1 DEF EnclosingClass, Around
<1>3. \E h : h = [g \in Functions(p) |-> Around(p, h, g)]
  BY AroundExists DEF IsAround
<1>4. of = [g \in Functions(p) |-> Around(p, of, g)]
  BY <1>1, <1>3
<1>5. of[f] = Around(p, of, f)
  BY <1>4
<1> QED
  BY <1>2, <1>5 DEF Around
-----------------------------------------------------------------------------
(* What a function assigns to.                                             *)
LEMMA TargetHasPlace ==
  ASSUME NEW p, WellFormed(p), NEW f \in Functions(p), NEW t, IsTarget(p, f, t)
  PROVE  \E i \in DOMAIN Targets(p, f) : Targets(p, f)[i] = t
<1>1. t \in ToSet(Targets(p, f))
  BY TargetsOfFunction
<1> QED
  BY <1>1 DEF ToSet

LEMMA GlobalWriteIsFound ==
  ASSUME NEW p, WellFormed(p), NEW f \in Functions(p),
         NEW x \in p.globals \cap Named(p, f, {"assign"}) \cap Named(p, f, {"global"})
  PROVE  \E i \in DOMAIN Targets(p, f) : \E s \in Written(p, f, i) :
           s.sort \in Shared /\ <<s.of, s.name>> = <<Module, x>>
<1>1. PICK k \in Lines(p, f, {"assign"}) : Body(p, f)[k].name = x
  BY DEF Named
<1>2. PICK t : t = OfName(p, f, k)
  OBVIOUS
<1>3. t \in ToSet(TargetsAt(p, f, k)) /\ k \in DOMAIN Body(p, f)
  BY <1>1, <1>2, TargetsOfLine DEF Lines
<1>4. PICK i \in DOMAIN Targets(p, f) : Targets(p, f)[i] = t
  BY <1>3, TargetHasPlace DEF IsTarget
<1>5. PICK r : r = Reference(<<x>>, k)
  OBVIOUS
<1>6. Targets(p, f)[i].reference = r
  BY <1>1, <1>2, <1>4, <1>5 DEF OfName
<1>7. x \notin Locals(p, f)
  BY DEF Locals
<1>8. PICK s \in GlobalDefinition(p, f, x) :
        s.sort = "Global" /\ s.name = x /\ s.of = Module /\ s.node = "variable"
  BY <1>7, GlobalIsDefined
<1>9. s \in GlobalsUsed(p, f, x)
  BY <1>8 DEF GlobalsUsed, GlobalsDeclared
<1>10. ~IsMemberAccess(r) /\ Receiver(r) = x
  BY <1>5, NameReference
<1>11. s \in FindTarget(p, f, i)
  BY <1>6, <1>9, <1>10 DEF FindTarget, MemberTargets, ImportTargets, NamedTargets
<1>12. s \in Written(p, f, i)
  BY <1>8, <1>11 DEF Written, Shared
<1> QED
  BY <1>8, <1>12 DEF Shared

(* A method that assigns to a variable of its own class is not out of      *)
(* reach, nor a function of the module that goes by the class.             *)
LEMMA OwnClassIsReached ==
  ASSUME NEW p, WellFormed(p), NEW f \in Functions(p), NEW c \in Classes(p), Owner(p, f) = c, NEW r
  PROVE  ~OutOfReach(p, f, r, c)
<1>1. f \in Methods(p, c) /\ Name(p, f) \in ClassMembers(p, c)
  BY DEF Methods, ClassMembers
<1>2. Owner(p, f) \notin Functions(p)
  BY DEF WellFormed
<1>3. EnclosingClass(p, f) = c
  BY <1>2, ClassAroundMethod
<1> QED
  BY <1>1, <1>3 DEF OutOfReach

LEMMA ModuleReaches ==
  ASSUME NEW p, Conventional(p), NEW f \in Functions(p), NEW c \in Classes(p),
         Owner(p, f) = Module, NEW r, Receiver(r) = c
  PROVE  ~OutOfReach(p, f, r, c)
<1>1. f \in Methods(p, Module)
  BY DEF Methods
<1>2. Name(p, f) # "__init__" /\ Receiver(r) # "self"
  BY <1>1 DEF Conventional
<1>3. FunctionSymbol(p, f).sort = "Global"
  BY SymbolFacts DEF FunctionSymbol
<1> QED
  BY <1>2, <1>3 DEF OutOfReach

LEMMA MemberWriteIsFound ==
  ASSUME NEW p, WellFormed(p), Conventional(p), NEW f \in Functions(p), NEW k \in Lines(p, f, {"setattr"}),
         NEW c \in Classes(p), NEW m, WritesMember(p, f, k, c, m)
  PROVE  \E i \in DOMAIN Targets(p, f) : \E s \in Written(p, f, i) :
           s.sort \in Shared /\ <<s.of, s.name>> = <<c, m>>
<1>1. PICK name : name = Body(p, f)[k].name
  OBVIOUS
<1>2. /\ Body(p, f)[k].member = m /\ VariableOf(p, c, m)
      /\ Assigned(p, c, m) = {} \/ <<f, k>> # FirstAssignment(p, c, m)
      /\ \/ name = "self" /\ c = Owner(p, f)
         \/ name = c /\ Owner(p, f) \in {c, Module} /\ m \in p.classes[c].vars
         \/ name \in Parameters(p, f) \ {"self"} /\ m \notin ClassMembers(p, c)
  BY <1>1 DEF WritesMember
<1>3. PICK t : t = OfMember(p, f, k)
  OBVIOUS
<1>4. t \in ToSet(TargetsAt(p, f, k)) /\ k \in DOMAIN Body(p, f)
  BY <1>3, TargetsOfLine DEF Lines
<1>5. PICK i \in DOMAIN Targets(p, f) : Targets(p, f)[i] = t
  BY <1>4, TargetHasPlace DEF IsTarget
<1>6. PICK r : r = Reference(<<name, m>>, k)
  OBVIOUS
<1>7. Targets(p, f)[i].reference = r
  BY <1>1, <1>2, <1>3, <1>5, <1>6 DEF OfMember
<1>8. IsMemberAccess(r) /\ Receiver(r) = name /\ Member(r) = m /\ r.line = k
  BY <1>6, MemberReference
<1>9. ~(m \in ClassMembers(p, c) /\ OutOfReach(p, f, r, c))
  BY <1>2, <1>8, OwnClassIsReached, ModuleReaches
<1>10. PICK s \in ClassVariables(p, c, m) \cup InstanceVariables(p, c, m) :
        s.sort \in {"Class", "Instance"} /\ s.name = m /\ s.of = c /\ s.node = "variable"
  BY <1>2, VariableHasSymbol
<1>11. s \in ClassTargets(p, f, r, c)
  BY <1>2, <1>8, <1>9, <1>10 DEF ClassTargets
<1>12. s \in FindTarget(p, f, i)
  BY <1>7, <1>8, <1>11 DEF FindTarget, MemberTargets, ImportTargets, NamedTargets
<1>13. s \in Written(p, f, i)
  BY <1>10, <1>12 DEF Written, Shared
<1> QED
  BY <1>10, <1>13 DEF Shared

LEMMA WritesAreShown ==
  ASSUME NEW p, WellFormed(p), Conventional(p), NEW f \in Functions(p), NEW writes,
         \A i \in DOMAIN Targets(p, f) : Written(p, f, i) \subseteq writes
  PROVE  Writes(p, f) \subseteq Shown(writes)
<1>1. ASSUME NEW i \in DOMAIN Targets(p, f), NEW s \in Written(p, f, i), s.sort \in Shared
      PROVE  <<s.of, s.name>> \in Shown(writes)
  BY <1>1 DEF Shown
<1>2. ASSUME NEW x \in p.globals \cap Named(p, f, {"assign"}) \cap Named(p, f, {"global"})
      PROVE  <<Module, x>> \in Shown(writes)
  BY <1>1, GlobalWriteIsFound
<1>3. ASSUME NEW v \in Classes(p) \X {Body(p, f)[k].member : k \in Lines(p, f, {"setattr"})},
             NEW k \in Lines(p, f, {"setattr"}), WritesMember(p, f, k, v[1], v[2])
      PROVE  v \in Shown(writes)
  <2>1. v[1] \in Classes(p) /\ v = <<v[1], v[2]>>
    OBVIOUS
  <2>2. PICK c, m : c = v[1] /\ m = v[2]
    OBVIOUS
  <2>3. PICK i \in DOMAIN Targets(p, f) : \E s \in Written(p, f, i) :
          s.sort \in Shared /\ <<s.of, s.name>> = <<c, m>>
    BY <1>3, <2>1, <2>2, MemberWriteIsFound
  <2> QED BY <1>1, <2>1, <2>2, <2>3
<1> QED
  BY <1>2, <1>3 DEF Writes

LEMMA WritesKept == IInv => NoWriteLost
<1> SUFFICES ASSUME IInv, Done, NEW f \in Functions(program)
             PROVE  Writes(program, f) \subseteq Shown(raw_reasons[f].writes_to)
  BY DEF NoWriteLost
<1>1. WellFormed(program) /\ Conventional(program)
  BY FoundWhenDone
<1>2. \A i \in DOMAIN Targets(program, f) : Written(program, f, i) \subseteq raw_reasons[f].writes_to
  BY FoundWhenDone
<1> QED BY <1>1, <1>2, WritesAreShown

(* Every write to a variable that outlives the call is among the writes:   *)
(* what _find_target_references leaves out as out of reach is no variable  *)
(* of the class that is assigned to.                                       *)
THEOREM EveryWriteIsFound == Spec => []NoWriteLost
  BY ResolvedAsFound, WritesKept, PTL
-----------------------------------------------------------------------------
(* Whom is blamed for what.                                                *)
LEMMA Definitions ==
  /\ \A p, f : FunctionSymbol(p, f).node = "function"
  /\ \A c : ClassSymbol(c).node = "class"
  BY SymbolFacts DEF FunctionSymbol, ClassSymbol

LEMMA OtherSymbols ==
  /\ \A f, x : ParameterSymbol(f, x).sort = "Parameter"
  /\ \A i, m : ImportSymbol(i, m).sort = "Import"
  BY SymbolFacts DEF ParameterSymbol, ImportSymbol

LEMMA VariablesOfClass ==
  ASSUME NEW p, NEW c, NEW m, NEW s \in ClassVariables(p, c, m) \cup InstanceVariables(p, c, m)
  PROVE  \/ s.node = "function"
         \/ s.sort = "Class" /\ s.of = c /\ m \in ClassMembers(p, c)
         \/ s.sort = "Instance"
<1>1. CASE s \in InstanceVariables(p, c, m)
  <2>1. \E at, node : s = Symbol("Instance", m, c, at, node)
    BY <1>1 DEF InstanceVariables
  <2> QED BY <2>1, SymbolFacts
<1>2. CASE s \in ClassVariables(p, c, m)
  BY <1>2, SymbolFacts, Definitions DEF ClassVariables, ClassMembers
<1> QED BY <1>1, <1>2

LEMMA GlobalIsNotLocal ==
  ASSUME NEW p, NEW f, NEW x, NEW at
  PROVE  /\ SymbolOf(p, f, x, at).sort \in {"Parameter", "Global", "Local"}
         /\ SymbolOf(p, f, x, at).name = x
         /\ SymbolOf(p, f, x, at).sort = "Global" => x \notin Locals(p, f)
<1>1. CASE x \in Parameters(p, f)
  BY <1>1, SymbolFacts DEF SymbolOf
<1>2. CASE x \notin Parameters(p, f) /\ x \in RootGlobals(p) \ Locals(p, f)
  BY <1>2, SymbolFacts DEF SymbolOf
<1>3. CASE x \notin Parameters(p, f) /\ x \notin RootGlobals(p) \ Locals(p, f)
  BY <1>3, SymbolFacts DEF SymbolOf
<1> QED BY <1>1, <1>2, <1>3

LEMMA UsedIsNotLocal ==
  ASSUME NEW p, NEW f, NEW x, NEW s \in GlobalsUsed(p, f, x)
  PROVE  s.sort = "Global" /\ s.name \notin Locals(p, f)
<1>1. PICK y : s \in GlobalDefinition(p, f, y)
  BY DEF GlobalsUsed, GlobalsRead, GlobalsDeclared
<1> QED
  BY <1>1, GlobalIsNotLocal DEF GlobalDefinition

LEMMA TargetSymbols ==
  ASSUME NEW p, NEW f, NEW t, IsTarget(p, f, t)
  PROVE  /\ t.symbol.sort \in {"Parameter", "Global", "Local", "Plain"}
         /\ t.symbol.sort = "Global" => t.symbol.name \notin Locals(p, f)
<1>1. CASE \E x \in Parameters(p, f) : t = OfParameter(f, x)
  <2>1. PICK x : t = OfParameter(f, x)
    BY <1>1
  <2> QED BY <2>1, SymbolFacts DEF OfParameter, ParameterSymbol
<1>2. CASE \E k \in DOMAIN Body(p, f) : t \in ToSet(TargetsAt(p, f, k))
  <2>1. PICK k \in DOMAIN Body(p, f) : t \in ToSet(TargetsAt(p, f, k))
    BY <1>2
  <2>2. t = OfName(p, f, k) \/ t = OfMember(p, f, k) \/ t = OfReceiver(p, f, k)
    BY <2>1, TargetsOfLine
  <2>3. CASE t = OfName(p, f, k)
    <3>1. t.symbol = SymbolOf(p, f, Body(p, f)[k].name, <<f, k>>)
      BY <2>3 DEF OfName
    <3> QED BY <3>1, GlobalIsNotLocal
  <2>4. CASE t = OfMember(p, f, k) \/ t = OfReceiver(p, f, k)
    <3>1. t.symbol.sort = "Plain"
      BY <2>4, SymbolFacts DEF OfMember, OfReceiver
    <3> QED BY <3>1
  <2> QED BY <2>2, <2>3, <2>4
<1> QED BY <1>1, <1>2 DEF IsTarget

LEMMA ReadIsDeserved ==
  ASSUME NEW p, WellFormed(p), NEW f \in Functions(p), NEW r, NEW s \in Read(p, f, r), s.sort = "Global"
  PROVE  s.name \notin Locals(p, f)
<1>1. s \in FindValue(p, f, r) /\ s.node \notin {"class", "function"}
  BY DEF Read
<1>2. CASE s \in LocalValues(p, f, r)
  <2>1. PICK t \in ToSet(Targets(p, f)) : s \in Refined(p, t)
    BY <1>2 DEF LocalValues
  <2>2. s = t.symbol \/ s.sort \in {"Class", "Instance"}
    BY <2>1, SymbolFacts DEF Refined
  <2>3. IsTarget(p, f, t)
    BY <2>1, TargetsOfFunction
  <2> QED BY <2>2, <2>3, TargetSymbols
<1>3. CASE s \in NamedValues(p, f, Receiver(r))
  <2>1. s \in GlobalsUsed(p, f, Receiver(r))
    BY <1>1, <1>3, Definitions, OtherSymbols DEF NamedValues
  <2> QED BY <2>1, UsedIsNotLocal
<1>4. CASE s \in ClassValues(p, f, Member(r))
  <2>1. PICK c : s \in ClassVariables(p, c, Member(r)) \cup InstanceVariables(p, c, Member(r))
    BY <1>4 DEF ClassValues
  <2> QED BY <1>1, <2>1, VariablesOfClass
<1>5. CASE \E i : s \in MemberOfImport(p, i, Member(r))
  <2>1. PICK i : s \in MemberOfImport(p, i, Member(r))
    BY <1>5
  <2>2. s \in ClassVariables(p, i, Member(r)) \/ s.sort = "Import"
    BY <2>1, OtherSymbols DEF MemberOfImport
  <2> QED BY <1>1, <2>2, VariablesOfClass
<1> QED
  BY <1>1, <1>2, <1>3, <1>4, <1>5 DEF FindValue

(* Where a symbol that is written to comes from.                           *)
LEMMA WhatIsWritten ==
  ASSUME NEW p, WellFormed(p), NEW f \in Functions(p), NEW i \in DOMAIN Targets(p, f), NEW s \in Written(p, f, i)
  PROVE  \/ \E t : IsTarget(p, f, t) /\ s = t.symbol
         \/ s.sort \in {"Import", "Instance"}
         \/ s.sort = "Global" /\ s.name \notin Locals(p, f)
         \/ \E r, c : /\ s.sort = "Class" /\ s.of = c /\ r = Targets(p, f)[i].reference /\ IsMemberAccess(r)
                      /\ ~OutOfReach(p, f, r, c)
<1>1. s \in FindTarget(p, f, i) /\ s.node \notin {"class", "function", "property"}
  BY DEF Written
<1>2. PICK r : r = Targets(p, f)[i].reference
  OBVIOUS
<1>3. PICK before :
        before = {t.symbol : t \in {Targets(p, f)[j] : j \in {h \in 1 .. (i - 1) :
                                     Targets(p, f)[h].reference.path = r.path}}}
  OBVIOUS
<1>4. CASE s \in before
  <2>1. PICK j \in 1 .. (i - 1) : s = Targets(p, f)[j].symbol
    BY <1>3, <1>4
  <2>2. PICK v : v = Targets(p, f)
    OBVIOUS
  <2>3. v \in Seq(ToSet(v))
    BY <2>2, TargetsOfFunction
  <2>4. j \in DOMAIN v
    BY <2>1, <2>2, <2>3
  <2>5. v[j] \in ToSet(v)
    BY <2>4 DEF ToSet
  <2>6. IsTarget(p, f, v[j])
    BY <2>2, <2>5, TargetsOfFunction
  <2> QED BY <2>1, <2>2, <2>6
<1>5. CASE \E c \in Classes(p) : s \in ClassTargets(p, f, r, c) /\ IsMemberAccess(r)
  <2>1. PICK c \in Classes(p) : s \in ClassTargets(p, f, r, c)
    BY <1>5
  <2>2. /\ ~(Member(r) \in ClassMembers(p, c) /\ OutOfReach(p, f, r, c))
        /\ s \in ClassVariables(p, c, Member(r)) \cup InstanceVariables(p, c, Member(r))
    BY <2>1 DEF ClassTargets
  <2> QED BY <1>1, <1>2, <1>5, <2>2, VariablesOfClass
<1>6. CASE \E j : s = ImportSymbol(j, Member(r))
  BY <1>6, OtherSymbols
<1>7. CASE s \in GlobalsUsed(p, f, Receiver(r))
  BY <1>7, UsedIsNotLocal
<1>8. ~\E c : s = ClassSymbol(c)
  BY <1>1, Definitions
<1>9. \/ s \in before
      \/ \E c \in Classes(p) : s \in ClassTargets(p, f, r, c) /\ IsMemberAccess(r)
      \/ \E j : s = ImportSymbol(j, Member(r))
      \/ s \in GlobalsUsed(p, f, Receiver(r))
      \/ \E c : s = ClassSymbol(c)
  <2>1. \/ s \in before
        \/ IsMemberAccess(r) /\ s \in MemberTargets(p, f, r)
        \/ s \in ImportTargets(p, r)
        \/ s \in NamedTargets(p, f, Receiver(r))
    BY <1>1, <1>2, <1>3 DEF FindTarget, IsMemberAccess
  <2>2. s \in MemberTargets(p, f, r) => \E c \in Classes(p) : s \in ClassTargets(p, f, r, c)
    BY DEF MemberTargets
  <2>3. s \in ImportTargets(p, r) => \E j : s = ImportSymbol(j, Member(r))
    BY DEF ImportTargets
  <2>4. s \in NamedTargets(p, f, Receiver(r))
          => s \in GlobalsUsed(p, f, Receiver(r)) \/ \E c : s = ClassSymbol(c)
    BY DEF NamedTargets
  <2> QED
    BY <2>1, <2>2, <2>3, <2>4
<1>10. CASE \E c \in Classes(p) : s \in ClassTargets(p, f, r, c) /\ IsMemberAccess(r)
  BY <1>5, <1>10, Zenon
<1>11. CASE s \in before
  BY <1>4, <1>11, Zenon
<1>12. CASE \E j : s = ImportSymbol(j, Member(r))
  BY <1>6, <1>12, Zenon
<1>13. CASE s \in GlobalsUsed(p, f, Receiver(r))
  BY <1>7, <1>13, Zenon
<1> QED
  BY <1>8, <1>9, <1>10, <1>11, <1>12, <1>13, Zenon

(* A method that assigns through self only reaches its own class.          *)
LEMMA SelfIsOwn ==
  ASSUME NEW p, WellFormed(p), NEW f \in Functions(p), NEW i \in DOMAIN Targets(p, f),
         Named(p, f, {"setattr"}) \subseteq {"self"},
         NEW c, IsMemberAccess(Targets(p, f)[i].reference),
         ~OutOfReach(p, f, Targets(p, f)[i].reference, c)
  PROVE  Owner(p, f) = c
<1>1. PICK t : t = Targets(p, f)[i]
  OBVIOUS
<1>2. IsTarget(p, f, t)
  <2>1. t \in ToSet(Targets(p, f))
    BY <1>1 DEF ToSet
  <2> QED BY <2>1, TargetsOfFunction
<1>3. IsMemberAccess(t.reference)
  BY <1>1
<1>4. ASSUME NEW x, t = OfParameter(f, x) PROVE FALSE
  <2>1. t.reference = Reference(<<x>>, 0)
    BY <1>4 DEF OfParameter
  <2> QED BY <1>3, <2>1, NameReference
<1>5. PICK k \in DOMAIN Body(p, f) : t \in ToSet(TargetsAt(p, f, k))
  BY <1>2, <1>4 DEF IsTarget
<1>6. t # OfName(p, f, k) /\ t # OfReceiver(p, f, k)
  BY <1>3, NameReference DEF OfName, OfReceiver
<1>7. Body(p, f)[k].op = "setattr" /\ t = OfMember(p, f, k)
  BY <1>5, <1>6, TargetsOfLine
<1>8. Body(p, f)[k].name = "self"
  BY <1>7 DEF Named, Lines
<1>9. Receiver(t.reference) = "self"
  <2>1. t.reference = Reference(<<"self", Body(p, f)[k].member>>, k)
    BY <1>7, <1>8 DEF OfMember
  <2> QED BY <2>1, MemberReference
<1> QED
  BY <1>1, <1>9 DEF OutOfReach

LEMMA BlameDeserved == IInv => BlameIsDeserved
<1> SUFFICES ASSUME IInv, Done, NEW f \in Functions(program)
             PROVE  /\ \A s \in raw_reasons[f].reads_from \cup raw_reasons[f].writes_to :
                         s.sort = "Global" => s.name \notin Locals(program, f)
                    /\ \A s \in raw_reasons[f].writes_to :
                         s.sort = "Class" /\ Named(program, f, {"setattr"}) \subseteq {"self"}
                           => s.of = Owner(program, f)
  BY DEF BlameIsDeserved
<1>1. WellFormed(program) /\ f \in DOMAIN raw_reasons
  BY FoundWhenDone
<1>2. ASSUME NEW s \in raw_reasons[f].reads_from, s.sort = "Global"
      PROVE  s.name \notin Locals(program, f)
  <2>1. PICK r : s \in Read(program, f, r)
    BY <1>1, <1>2 DEF IInv, ReadsDeserved
  <2> QED BY <1>1, <1>2, <2>1, ReadIsDeserved
<1>3. ASSUME NEW s \in raw_reasons[f].writes_to
      PROVE  \E i \in DOMAIN Targets(program, f) : s \in Written(program, f, i)
  BY <1>1, <1>3 DEF IInv, WritesDeserved
<1>4. ASSUME NEW s \in raw_reasons[f].writes_to, s.sort = "Global"
      PROVE  s.name \notin Locals(program, f)
  <2>1. PICK i \in DOMAIN Targets(program, f) : s \in Written(program, f, i)
    BY <1>3, <1>4
  <2>2. \/ \E t : IsTarget(program, f, t) /\ s = t.symbol
        \/ s.name \notin Locals(program, f)
    BY <1>1, <1>4, <2>1, WhatIsWritten
  <2> QED BY <1>4, <2>2, TargetSymbols
<1>5. ASSUME NEW s \in raw_reasons[f].writes_to, s.sort = "Class",
             Named(program, f, {"setattr"}) \subseteq {"self"}
      PROVE  s.of = Owner(program, f)
  <2>1. PICK i \in DOMAIN Targets(program, f) : s \in Written(program, f, i)
    BY <1>3, <1>5
  <2>2. \/ \E t : IsTarget(program, f, t) /\ s = t.symbol
        \/ \E c : /\ s.of = c /\ IsMemberAccess(Targets(program, f)[i].reference)
                  /\ ~OutOfReach(program, f, Targets(program, f)[i].reference, c)
    BY <1>1, <1>5, <2>1, WhatIsWritten
  <2> QED BY <1>1, <1>5, <2>1, <2>2, TargetSymbols, SelfIsOwn
<1> QED
  BY <1>2, <1>4, <1>5

(* No function is blamed for a global variable in place of a name of its   *)
(* own, nor for a class variable of another class when it only assigns to  *)
(* self (_find_target_references).                                         *)
THEOREM NobodyIsBlamedFalsely == Spec => []BlameIsDeserved
  BY ResolvedAsFound, BlameDeserved, PTL
-----------------------------------------------------------------------------
(* How many arguments a function takes.                                    *)
Below(P, i) == {j \in P : j < i}
First(P, n) == {i \in P : Cardinality(Below(P, i)) < n}

LEMMA Ranks ==
  ASSUME NEW P \in SUBSET Nat, IsFiniteSet(P), NEW i \in P
  PROVE  /\ IsFiniteSet(Below(P, i)) /\ Cardinality(Below(P, i)) \in Nat
         /\ \A j \in P : i < j => Cardinality(Below(P, i)) < Cardinality(Below(P, j))
<1>1. \A j \in P : Below(P, j) \in SUBSET P
  BY DEF Below
<1>2. \A j \in P : IsFiniteSet(Below(P, j)) /\ Cardinality(Below(P, j)) \in Nat
  BY <1>1, FS_Subset, FS_CardinalityType
<1>3. ASSUME NEW j \in P, i < j
      PROVE  Cardinality(Below(P, i)) < Cardinality(Below(P, j))
  <2>1. PICK B : B = Below(P, i)
    OBVIOUS
  <2>2. i \notin B /\ B \cup {i} \subseteq Below(P, j)
    <3>1. i \in Nat /\ j \in Nat /\ \A h \in P : h \in Nat
      OBVIOUS
    <3>2. \A h : h \in B <=> h \in P /\ h < i
      BY <2>1 DEF Below
    <3>3. \A h : h \in Below(P, j) <=> h \in P /\ h < j
      BY DEF Below
    <3>4. i \notin B
      BY <3>1, <3>2
    <3>5. i \in Below(P, j)
      BY <1>3, <3>3
    <3>6. ASSUME NEW h \in B PROVE h \in Below(P, j)
      <4>1. h \in P /\ h < i
        BY <3>2
      <4>2. h < j
        BY <1>3, <3>1, <4>1
      <4> QED BY <3>3, <4>1, <4>2
    <3> QED BY <3>4, <3>5, <3>6
  <2>3. IsFiniteSet(B) /\ Cardinality(B) \in Nat
    BY <1>2, <2>1
  <2>4. IsFiniteSet(B \cup {i}) /\ Cardinality(B \cup {i}) = Cardinality(B) + 1
    BY <2>2, <2>3, FS_AddElement
  <2>5. Cardinality(B \cup {i}) <= Cardinality(Below(P, j))
    BY <1>2, <2>2, FS_Subset
  <2> QED
    BY <1>2, <2>1, <2>3, <2>4, <2>5
<1> QED
  BY <1>2, <1>3

(* One more argument fills one more place.                                 *)
LEMMA OneMore ==
  ASSUME NEW P \in SUBSET Nat, IsFiniteSet(P), NEW n \in Nat,
         n < Cardinality(P), Cardinality(First(P, n)) = n
  PROVE  Cardinality(First(P, n + 1)) = n + 1
<1>1. PICK F : F = First(P, n)
  OBVIOUS
<1>2. F \in SUBSET P /\ Cardinality(F) = n
  BY <1>1 DEF First
<1>3. P \ F # {}
  <2>1. P # F
    BY <1>2
  <2> QED BY <1>2, <2>1
<1>4. PICK i \in P \ F : \A j \in P \ F : i <= j
  BY <1>3, Least
<1>5. \A j \in P : /\ Cardinality(Below(P, j)) \in Nat
                   /\ j \in F <=> Cardinality(Below(P, j)) < n
                   /\ \A h \in P : j < h => Cardinality(Below(P, j)) < Cardinality(Below(P, h))
  BY <1>1, Ranks DEF First
<1>6. Below(P, i) = F
  <2>1. ASSUME NEW j \in P, j < i PROVE j \in F
    BY <1>4, <2>1
  <2>2. ASSUME NEW j \in F PROVE j < i
    <3>1. j \in P /\ j # i /\ j \in Nat /\ i \in Nat
      BY <1>2, <1>4
    <3>2. ~(i < j)
      BY <1>4, <1>5, <3>1
    <3> QED BY <3>1, <3>2
  <2> QED BY <1>2, <2>1, <2>2 DEF Below
<1>7. Cardinality(Below(P, i)) = n
  BY <1>2, <1>6
<1>8. ASSUME NEW j \in P, Cardinality(Below(P, j)) < n + 1, j \notin F PROVE j = i
  <2>1. i <= j /\ i \in Nat /\ j \in Nat
    BY <1>4, <1>8
  <2>2. ~(i < j)
    BY <1>4, <1>5, <1>7, <1>8
  <2> QED BY <2>1, <2>2
<1>9. \A j \in F \cup {i} : j \in P /\ Cardinality(Below(P, j)) < n + 1
  BY <1>2, <1>4, <1>5, <1>7
<1>10. First(P, n + 1) = F \cup {i}
  BY <1>8, <1>9 DEF First
<1>11. IsFiniteSet(F) /\ i \notin F
  BY <1>2, <1>4, FS_Subset
<1> QED
  BY <1>2, <1>10, <1>11, FS_AddElement

LEMMA FirstOnes ==
  ASSUME NEW P \in SUBSET Nat, IsFiniteSet(P), NEW n \in Nat
  PROVE  /\ n <= Cardinality(P) => Cardinality(First(P, n)) = n
         /\ Cardinality(First(P, n)) <= n
<1> DEFINE S == {k \in Nat : k <= Cardinality(P) => Cardinality(First(P, k)) = k}
<1>1. Cardinality(P) \in Nat
  BY FS_CardinalityType
<1>2. \A j \in P : Cardinality(Below(P, j)) \in Nat
  BY Ranks
<1>3. First(P, 0) = {}
  <2>1. \A j \in P : ~(Cardinality(Below(P, j)) < 0)
    BY <1>2
  <2> QED BY <2>1 DEF First
<1>4. 0 \in S
  BY <1>3, FS_EmptySet
<1>5. ASSUME NEW k \in S PROVE k + 1 \in S
  <2>1. CASE k + 1 <= Cardinality(P)
    <3>1. k \in Nat /\ k < Cardinality(P) /\ Cardinality(First(P, k)) = k
      BY <1>1, <1>5, <2>1
    <3>2. Cardinality(First(P, k + 1)) = k + 1
      BY <3>1, OneMore
    <3> QED BY <3>1, <3>2
  <2> QED BY <2>1
<1> HIDE DEF S
<1>6. S \in SUBSET Nat
  BY DEF S
<1>7. n \in S
  BY <1>4, <1>5, <1>6, SetInduction
<1>8. First(P, n) \in SUBSET P
  BY DEF First
<1>9. Cardinality(First(P, n)) <= Cardinality(P) /\ Cardinality(First(P, n)) \in Nat
  BY <1>8, FS_Subset, FS_CardinalityType
<1> QED
  BY <1>1, <1>7, <1>9 DEF S

(* What a call that can be bound says of the numbers.                      *)
PlainParameters == {"positional", "either"}

LEMMA PlacesAreFinite ==
  ASSUME NEW T, NEW params \in Seq(T), NEW kinds
  PROVE  OfKind(params, kinds) \in SUBSET Nat /\ IsFiniteSet(OfKind(params, kinds))
<1>1. DOMAIN params = 1 .. Len(params) /\ Len(params) \in Nat
  OBVIOUS
<1>2. OfKind(params, kinds) \in SUBSET (1 .. Len(params))
  BY <1>1 DEF OfKind
<1>3. IsFiniteSet(1 .. Len(params))
  BY <1>1, FS_Interval
<1> QED
  BY <1>1, <1>2, <1>3, FS_Subset

(* Keywords find parameters of their own.                                  *)
LEMMA NamesAreCounted ==
  ASSUME NEW T, NEW params \in Seq(T), NEW names, IsFiniteSet(names),
         \A i, j \in DOMAIN params : params[i].name = params[j].name => i = j,
         NEW N \in SUBSET DOMAIN params
  PROVE  /\ {params[i].name : i \in N} \subseteq names => Cardinality(N) <= Cardinality(names)
         /\ names \subseteq {params[i].name : i \in N} => Cardinality(names) <= Cardinality(N)
<1>1. IsFiniteSet(N)
  <2>1. DOMAIN params = 1 .. Len(params) /\ Len(params) \in Nat
    OBVIOUS
  <2>2. IsFiniteSet(1 .. Len(params))
    BY <2>1, FS_Interval
  <2>3. N \in SUBSET (1 .. Len(params))
    BY <2>1
  <2> QED BY <2>2, <2>3, FS_Subset
<1> DEFINE h == [i \in N |-> params[i].name]
           M == {h[i] : i \in N}
<1>2. M = {params[i].name : i \in N}
  OBVIOUS
<1>3. h \in Surjection(N, M)
  BY DEF Surjection
<1>4. h \in Injection(N, M)
  BY DEF Injection, IsInjective
<1> HIDE DEF h, M
<1>5. IsFiniteSet(M) /\ Cardinality(M) <= Cardinality(N)
  BY <1>1, <1>3, FS_Surjection
<1>6. Cardinality(N) <= Cardinality(M)
  BY <1>4, <1>5, FS_Injection
<1>7. Cardinality(M) \in Nat /\ Cardinality(N) \in Nat /\ Cardinality(names) \in Nat
  BY <1>1, <1>5, FS_CardinalityType
<1>8. M \subseteq names => Cardinality(M) <= Cardinality(names)
  BY FS_Subset
<1>9. names \subseteq M => Cardinality(names) <= Cardinality(M)
  BY <1>5, FS_Subset
<1> QED
  BY <1>2, <1>5, <1>6, <1>7, <1>8, <1>9

LEMMA BoundInNumber ==
  ASSUME NEW T, NEW params \in Seq(T), NEW s, s.n \in Nat, IsFiniteSet(s.keywords),
         \A i, j \in DOMAIN params : params[i].name = params[j].name => i = j,
         OfKind(params, {"*", "**"}) = {}, Binds(params, s)
  PROVE  /\ s.n + Cardinality(s.keywords)
              <= Cardinality(OfKind(params, PlainParameters)) + Cardinality(OfKind(params, {"keyword"}))
         /\ (\A i \in OfKind(params, PlainParameters \cup {"keyword"}) : ~params[i].default)
              => s.n + Cardinality(s.keywords)
                   >= Cardinality(OfKind(params, PlainParameters)) + Cardinality(OfKind(params, {"keyword"}))
         /\ s.keywords \subseteq {params[i].name : i \in DOMAIN params}
<1>1. PICK P : P = OfKind(params, PlainParameters)
  OBVIOUS
<1>2. PICK K : K = OfKind(params, {"keyword"})
  OBVIOUS
<1>3. PICK filled : filled = First(P, s.n)
  OBVIOUS
<1>4. PICK byName : byName = {i \in OfKind(params, {"either", "keyword"}) : params[i].name \in s.keywords}
  OBVIOUS
<1>5. PICK n : n = s.n
  OBVIOUS
<1>6. PICK names : names = s.keywords
  OBVIOUS
<1>7. P \in SUBSET Nat /\ IsFiniteSet(P) /\ IsFiniteSet(K)
  BY <1>1, <1>2, PlacesAreFinite
<1>8. /\ n <= Cardinality(P) /\ names \subseteq {params[i].name : i \in byName}
      /\ filled \cap byName = {}
      /\ \A i \in OfKind(params, PlainParameters \cup {"keyword"}) : i \in filled \cup byName \/ params[i].default
  <2>1. OfKind(params, {"*"}) = {} /\ OfKind(params, {"**"}) = {}
    BY DEF OfKind
  <2> QED
    BY <1>1, <1>3, <1>4, <1>5, <1>6, <2>1 DEF Binds, OfKind, PlainParameters, First, Below
<1>9. P \cap K = {} /\ P \cup K = OfKind(params, PlainParameters \cup {"keyword"})
  BY <1>1, <1>2 DEF OfKind, PlainParameters
<1>10. filled \in SUBSET P /\ byName \in SUBSET (P \cup K) /\ byName \in SUBSET DOMAIN params
  BY <1>1, <1>2, <1>3, <1>4 DEF First, OfKind, PlainParameters
<1>11. {params[i].name : i \in byName} \subseteq names
  BY <1>4, <1>6
<1>12. Cardinality(byName) = Cardinality(names)
  <2>1. IsFiniteSet(names)
    BY <1>6
  <2>2. Cardinality(byName) <= Cardinality(names) /\ Cardinality(names) <= Cardinality(byName)
    BY <1>8, <1>10, <1>11, <2>1, NamesAreCounted
  <2>3. IsFiniteSet(P \cup K)
    BY <1>7, FS_Union
  <2>4. Cardinality(names) \in Nat /\ Cardinality(byName) \in Nat
    BY <1>10, <2>1, <2>3, FS_Subset, FS_CardinalityType
  <2> QED BY <2>2, <2>4
<1>13. Cardinality(filled) = n
  BY <1>3, <1>5, <1>7, <1>8, FirstOnes
<1>14. IsFiniteSet(P \cup K) /\ Cardinality(P \cup K) = Cardinality(P) + Cardinality(K)
  <2>1. Cardinality(P \cap K) = 0
    BY <1>9, FS_EmptySet
  <2>2. Cardinality(P) \in Nat /\ Cardinality(K) \in Nat
    BY <1>7, FS_CardinalityType
  <2>3. IsFiniteSet(P \cup K) /\ Cardinality(P \cup K) = Cardinality(P) + Cardinality(K) - Cardinality(P \cap K)
    BY <1>7, FS_Union
  <2> QED BY <2>1, <2>2, <2>3
<1>15. Cardinality(filled \cup byName) = n + Cardinality(names)
  <2>1. IsFiniteSet(filled) /\ IsFiniteSet(byName)
    BY <1>10, <1>14, <1>7, FS_Subset
  <2>2. Cardinality(filled \cap byName) = 0
    BY <1>8, FS_EmptySet
  <2>3. Cardinality(filled \cup byName)
          = Cardinality(filled) + Cardinality(byName) - Cardinality(filled \cap byName)
    BY <2>1, FS_Union
  <2>4. Cardinality(byName) \in Nat /\ n \in Nat
    BY <1>5, <2>1, FS_CardinalityType
  <2> QED BY <1>12, <1>13, <2>2, <2>3, <2>4
<1>16. filled \cup byName \in SUBSET (P \cup K)
  BY <1>10
<1>17. n + Cardinality(names) <= Cardinality(P) + Cardinality(K)
  <2>1. Cardinality(filled \cup byName) <= Cardinality(P \cup K)
    BY <1>14, <1>16, FS_Subset
  <2> QED BY <1>14, <1>15, <2>1
<1>18. ASSUME \A i \in OfKind(params, PlainParameters \cup {"keyword"}) : ~params[i].default
       PROVE  n + Cardinality(names) >= Cardinality(P) + Cardinality(K)
  <2>1. filled \cup byName = P \cup K
    BY <1>8, <1>9, <1>16, <1>18
  <2>2. Cardinality(P) \in Nat /\ Cardinality(K) \in Nat
    BY <1>7, FS_CardinalityType
  <2>3. Cardinality(filled \cup byName) = Cardinality(P \cup K)
    BY <2>1, Zenon
  <2> QED BY <1>14, <1>15, <2>2, <2>3
<1>19. names \subseteq {params[i].name : i \in DOMAIN params}
  BY <1>8, <1>10
<1> QED
  BY <1>1, <1>2, <1>5, <1>6, <1>17, <1>18, <1>19

LEMMA ShiftedPlaces ==
  ASSUME NEW T, NEW params \in Seq(T), params # <<>>, NEW kinds
  PROVE  Cardinality(OfKind(Tail(params), kinds)) = Cardinality(OfKind(params, kinds) \ {1})
<1> DEFINE A == OfKind(Tail(params), kinds)
           B == OfKind(params, kinds) \ {1}
           h == [i \in A |-> i + 1]
<1>1. PICK n \in Nat : /\ DOMAIN params = 1 .. n + 1 /\ DOMAIN Tail(params) = 1 .. n
                       /\ \A i \in 1 .. n : Tail(params)[i] = params[i + 1]
  <2>1. Len(params) \in Nat /\ Len(params) > 0 /\ DOMAIN params = 1 .. Len(params)
    OBVIOUS
  <2>2. Len(Tail(params)) = Len(params) - 1 /\ DOMAIN Tail(params) = 1 .. Len(params) - 1
    BY <2>1
  <2>3. \A i \in 1 .. Len(params) - 1 : Tail(params)[i] = params[i + 1]
    BY <2>1
  <2>4. Len(params) - 1 \in Nat /\ (Len(params) - 1) + 1 = Len(params)
    BY <2>1
  <2> QED BY <2>1, <2>2, <2>3, <2>4
<1>2. \A i \in A : i \in 1 .. n /\ i + 1 \in B
  BY <1>1 DEF OfKind
<1>3. \A j \in B : j \in Nat /\ j - 1 \in A
  <2>1. ASSUME NEW j \in B PROVE j \in Nat /\ j - 1 \in 1 .. n /\ (j - 1) + 1 = j /\ params[j].kind \in kinds
    BY <1>1 DEF OfKind
  <2>2. ASSUME NEW j \in B PROVE Tail(params)[j - 1] = params[j]
    BY <1>1, <2>1
  <2> QED BY <1>1, <2>1, <2>2 DEF OfKind
<1>4. IsFiniteSet(A)
  <2>1. Tail(params) \in Seq(T)
    OBVIOUS
  <2> QED BY <2>1, PlacesAreFinite
<1> HIDE DEF A, B
<1>5. h \in [A -> B] /\ \A i \in A : h[i] = i + 1
  BY <1>2
<1>6. \A i, j \in A : h[i] = h[j] => i = j
  BY <1>2, <1>5
<1>7. \A j \in B : \E i \in A : h[i] = j
  <2>1. ASSUME NEW j \in B PROVE h[j - 1] = j /\ j - 1 \in A
    BY <1>3, <1>5
  <2> QED BY <2>1
<1> HIDE DEF h
<1>8. h \in Bijection(A, B)
  BY <1>5, <1>6, <1>7 DEF Bijection, Injection, Surjection, IsInjective
<1>9. ExistsBijection(A, B)
  BY <1>8 DEF ExistsBijection
<1> QED
  BY <1>4, <1>9, FS_Bijection DEF A, B

LEMMA FunctionIsKept ==
  ASSUME NEW p, WellFormed(p), NEW g \in Functions(p), Owner(p, g) \notin Classes(p),
         NEW s, s.n \in Nat, IsFiniteSet(s.keywords), Binds(p.functions[g].params, s),
         \A i \in DOMAIN p.functions[g].params : ~KeywordWithDefault(p.functions[g].params[i])
  PROVE  CompareParameters(p, g, s)
<1>1. PICK params : params = p.functions[g].params
  OBVIOUS
<1>2. /\ params \in Seq(Range(params))
      /\ \A i, j \in DOMAIN params : params[i].name = params[j].name => i = j
  BY <1>1 DEF WellFormed
<1>3. Parameters(p, g) = {params[i].name : i \in DOMAIN params}
  BY <1>1 DEF Parameters
<1>4. PICK plain : plain = OfKind(params, PlainParameters)
  OBVIOUS
<1>5. PICK only : only = OfKind(params, {"keyword"})
  OBVIOUS
<1>6. OfKind(params, {"*", "**"}) = {} => OfKind(params, {"keyword", "**"}) = only
  BY <1>5 DEF OfKind
<1>7. ASSUME OfKind(params, {"*", "**"}) = {}
      PROVE  /\ s.n + Cardinality(s.keywords) <= Cardinality(plain) + Cardinality(only)
             /\ (\A i \in OfKind(params, PlainParameters \cup {"keyword"}) : ~params[i].default)
                  => s.n + Cardinality(s.keywords) >= Cardinality(plain) + Cardinality(only)
             /\ s.keywords \subseteq Parameters(p, g)
  <2>1. Binds(params, s)
    BY <1>1
  <2>2. /\ s.n + Cardinality(s.keywords)
              <= Cardinality(OfKind(params, PlainParameters)) + Cardinality(OfKind(params, {"keyword"}))
        /\ (\A i \in OfKind(params, PlainParameters \cup {"keyword"}) : ~params[i].default)
              => s.n + Cardinality(s.keywords)
                   >= Cardinality(OfKind(params, PlainParameters)) + Cardinality(OfKind(params, {"keyword"}))
        /\ s.keywords \subseteq {params[i].name : i \in DOMAIN params}
    BY <1>2, <1>7, <2>1, BoundInNumber
  <2> QED BY <1>3, <1>4, <1>5, <2>2
<1>8. \A i \in OfKind(params, {"keyword"}) : ~params[i].default
  BY <1>1 DEF OfKind, KeywordWithDefault
<1>9. \/ \E i \in OfKind(params, PlainParameters) : params[i].default
      \/ \A i \in OfKind(params, PlainParameters \cup {"keyword"}) : ~params[i].default
  BY <1>8 DEF OfKind, PlainParameters
<1>10. ASSUME OfKind(params, {"keyword", "**"}) = {} PROVE s.keywords \subseteq Parameters(p, g)
  <2>1. OfKind(params, {"**"}) = {}
    BY <1>10 DEF OfKind
  <2> QED BY <1>1, <1>3, <2>1 DEF Binds, OfKind
<1>11. {i \in OfKind(params, PlainParameters) : params[i].name \notin {}} = plain
  BY <1>4
<1> QED
  BY <1>1, <1>6, <1>7, <1>9, <1>10, <1>11 DEF CompareParameters, PlainParameters

LEMMA MethodIsKept ==
  ASSUME NEW p, WellFormed(p), Conventional(p), NEW g \in Functions(p), Owner(p, g) \in Classes(p),
         NEW s, s.n \in Nat, IsFiniteSet(s.keywords), Binds(Tail(p.functions[g].params), s),
         \A i \in DOMAIN p.functions[g].params : ~KeywordWithDefault(p.functions[g].params[i])
  PROVE  CompareParameters(p, g, s)
<1>1. PICK params : params = p.functions[g].params
  OBVIOUS
<1> SUFFICES ASSUME params # <<>> PROVE CompareParameters(p, g, s)
  BY <1>1 DEF CompareParameters
<1>2. /\ params \in Seq(Range(params))
      /\ \A i, j \in DOMAIN params : params[i].name = params[j].name => i = j
  BY <1>1 DEF WellFormed
<1>3. \A i \in DOMAIN params :
        IF i = 1 THEN params[i].name \in {"self", "cls"} /\ params[i].kind \in {"positional", "either"}
                 ELSE params[i].name \notin {"self", "cls"}
  BY <1>1 DEF Conventional, Methods
<1>4. PICK rest : rest = Tail(params)
  OBVIOUS
<1>5. /\ rest \in Seq(Range(params)) /\ Binds(rest, s)
      /\ \A i \in DOMAIN rest : i \in Nat /\ i + 1 \in DOMAIN params /\ rest[i] = params[i + 1]
  <2>1. Len(params) \in Nat /\ Len(params) > 0 /\ DOMAIN params = 1 .. Len(params)
    BY <1>2
  <2>2. /\ Tail(params) \in Seq(Range(params)) /\ DOMAIN Tail(params) = 1 .. Len(params) - 1
        /\ \A i \in 1 .. Len(params) - 1 : Tail(params)[i] = params[i + 1]
    BY <1>2, <2>1
  <2>3. \A i \in 1 .. Len(params) - 1 : i \in Nat /\ i + 1 \in 1 .. Len(params)
    BY <2>1
  <2> QED BY <1>1, <1>4, <2>1, <2>2, <2>3
<1>6. \A i, j \in DOMAIN rest : rest[i].name = rest[j].name => i = j
  <2>1. \A i, j \in DOMAIN rest : rest[i].name = rest[j].name => i + 1 = j + 1 /\ i \in Nat /\ j \in Nat
    BY <1>2, <1>5
  <2> QED BY <2>1
<1>7. {rest[i].name : i \in DOMAIN rest} \subseteq Parameters(p, g)
  BY <1>1, <1>5 DEF Parameters
<1>8. PICK plain : plain = OfKind(params, PlainParameters) \ {1}
  OBVIOUS
<1>9. PICK only : only = OfKind(params, {"keyword"})
  OBVIOUS
<1>10. only = OfKind(params, {"keyword"}) \ {1}
  BY <1>3, <1>9 DEF OfKind
<1>11. {i \in OfKind(params, PlainParameters) : params[i].name \notin {"self", "cls"}} = plain
  BY <1>3, <1>8 DEF OfKind
<1>12. /\ Cardinality(OfKind(rest, PlainParameters)) = Cardinality(plain)
       /\ Cardinality(OfKind(rest, {"keyword"})) = Cardinality(only)
  BY <1>2, <1>4, <1>8, <1>10, ShiftedPlaces
<1>13. \A kinds : OfKind(params, kinds) = {} => OfKind(rest, kinds) = {}
  BY <1>5 DEF OfKind
<1>14. ASSUME OfKind(params, {"*", "**"}) = {}
       PROVE  /\ s.n + Cardinality(s.keywords) <= Cardinality(plain) + Cardinality(only)
              /\ (\A i \in OfKind(rest, PlainParameters \cup {"keyword"}) : ~rest[i].default)
                   => s.n + Cardinality(s.keywords) >= Cardinality(plain) + Cardinality(only)
              /\ s.keywords \subseteq Parameters(p, g)
  <2>1. OfKind(rest, {"*", "**"}) = {}
    BY <1>13, <1>14
  <2>2. /\ s.n + Cardinality(s.keywords)
              <= Cardinality(OfKind(rest, PlainParameters)) + Cardinality(OfKind(rest, {"keyword"}))
        /\ (\A i \in OfKind(rest, PlainParameters \cup {"keyword"}) : ~rest[i].default)
              => s.n + Cardinality(s.keywords)
                   >= Cardinality(OfKind(rest, PlainParameters)) + Cardinality(OfKind(rest, {"keyword"}))
        /\ s.keywords \subseteq {rest[i].name : i \in DOMAIN rest}
    BY <1>5, <1>6, <2>1, BoundInNumber
  <2> QED BY <1>7, <1>12, <2>2
<1>15. OfKind(params, {"*", "**"}) = {} => OfKind(params, {"keyword", "**"}) = only
  BY <1>9 DEF OfKind
<1>16. \/ \E i \in OfKind(params, PlainParameters) : params[i].default
       \/ \A i \in OfKind(rest, PlainParameters \cup {"keyword"}) : ~rest[i].default
  BY <1>1, <1>5 DEF OfKind, PlainParameters, KeywordWithDefault
<1>17. ASSUME OfKind(params, {"keyword", "**"}) = {} PROVE s.keywords \subseteq Parameters(p, g)
  <2>1. OfKind(rest, {"**"}) = {}
    BY <1>5, <1>17 DEF OfKind
  <2>2. s.keywords \subseteq {rest[i].name : i \in DOMAIN rest}
    <3>1. Binds(rest, s)
      BY <1>5
    <3>2. s.keywords \subseteq
            {rest[i].name : i \in {j \in OfKind(rest, {"either", "keyword"}) : rest[j].name \in s.keywords}}
      BY <2>1, <3>1 DEF Binds
    <3>3. OfKind(rest, {"either", "keyword"}) \subseteq DOMAIN rest
      BY DEF OfKind
    <3> QED BY <3>2, <3>3
  <2> QED BY <1>7, <2>2
<1> QED
  BY <1>1, <1>11, <1>14, <1>15, <1>16, <1>17 DEF CompareParameters, PlainParameters

(* Who is called by name is found by it.                                   *)
LEMMA RunIsFound ==
  ASSUME NEW p, WellFormed(p), Conventional(p), NEW f \in Functions(p),
         NEW k \in Lines(p, f, {"call", "callattr"}), NEW g \in Runs(p, f, Body(p, f)[k]),
         \A i \in DOMAIN p.functions[g].params : ~KeywordWithDefault(p.functions[g].params[i]),
         Supers(p, f) = {}
  PROVE  FunctionSymbol(p, g) \in FindCall(p, f, k)
<1>1. PICK s : s = Body(p, f)[k]
  OBVIOUS
<1>2. s.n \in Nat /\ IsFiniteSet(s.keywords)
  BY <1>1 DEF WellFormed, Lines
<1>3. g \in Functions(p) /\ Name(p, g) = CalledName(s)
  BY <1>1 DEF Runs, CalledName
<1>4. CompareParameters(p, g, s)
  <2>1. CASE s.op = "call" /\ Owner(p, g) \in {f, Module} /\ Binds(p.functions[g].params, s)
    <3>1. Owner(p, g) \notin Classes(p)
      BY <2>1 DEF WellFormed
    <3> QED BY <1>2, <1>3, <2>1, <3>1, FunctionIsKept
  <2>2. CASE Owner(p, g) \in Classes(p) /\ Binds(Tail(p.functions[g].params), s)
    BY <1>2, <1>3, <2>2, MethodIsKept
  <2> QED BY <1>1, <2>1, <2>2 DEF Runs
<1>5. FunctionSymbol(p, g) \in Candidates(p, f, s, CalledName(s))
  BY <1>3, <1>4 DEF Candidates
<1> QED
  BY <1>1, <1>5 DEF FindCall

LEMMA RunsKept == IInv => CallsFindTheirFunctions
<1> SUFFICES ASSUME IInv, Done, NEW f \in Functions(program), NEW k \in Lines(program, f, {"call", "callattr"}),
                    NEW g \in Runs(program, f, Body(program, f)[k]),
                    \A i \in DOMAIN program.functions[g].params :
                      ~KeywordWithDefault(program.functions[g].params[i]),
                    Supers(program, f) = {}
             PROVE  FunctionSymbol(program, g) \in raw_reasons[f].calls
  BY DEF CallsFindTheirFunctions
<1>1. PICK p : p = program
  OBVIOUS
<1>2. WellFormed(p) /\ Conventional(p)
  BY <1>1, FoundWhenDone
<1>3. FunctionSymbol(p, g) \in FindCall(p, f, k)
  BY <1>1, <1>2, RunIsFound
<1>4. k \in ToSet(Calls(p, f))
  BY <1>1, <1>2, CallsOfLines
<1>5. FindCall(p, f, k) \subseteq raw_reasons[f].calls
  BY <1>1, <1>4, FoundWhenDone
<1> QED BY <1>1, <1>3, <1>5

(* compare_parameters drops no function that Python would run: for any     *)
(* parameters and any arguments that can be bound, the number of arguments *)
(* is within what it takes for the number of parameters.                   *)
THEOREM EveryCallIsFound == Spec => []CallsFindTheirFunctions
  BY ResolvedAsFound, RunsKept, PTL
=============================================================================
