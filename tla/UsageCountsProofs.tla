------------------------- MODULE UsageCountsProofs -------------------------
(* For any files, batches and processes the counts add up in every store,  *)
(* and the merged one counts every call visited once; what annotations say *)
(* of the counts is true of the calls.                                     *)
EXTENDS GeneratedAnnotations, FiniteSetTheorems, SequenceTheorems,
        WellFoundedInduction, TLAPS

Counter(S) == UNION {[T -> Nat] : T \in SUBSET S}
Store ==
  [class : Counter(Class), function : Counter(Function),
   parameter : Counter(Parameter), value : Counter(Parameter \X Value)]
GoodStore == {s \in Store : AddsUp(s)}
Batch == Seq(Seq(Call))
Worker == [files : Batch, usages : GoodStore]

(* What every state satisfies.                                             *)
IInv ==
  /\ input \in Inputs
  /\ batches \in Seq(Batch)
  /\ workers \in Seq(Worker)
  /\ total \in GoodStore
-----------------------------------------------------------------------------
(* Adding one to some keys of a counter.                                   *)
LEMMA PlusEachCounts ==
  ASSUME NEW S, NEW c \in Counter(S), NEW T \in SUBSET S
  PROVE  /\ PlusEach(c, T) \in Counter(S)
         /\ \A k : /\ Count(c, k) \in Nat
                   /\ Count(PlusEach(c, T), k) = Count(c, k) + (IF k \in T THEN 1 ELSE 0)
<1>1. PICK D \in SUBSET S : c \in [D -> Nat]
  BY DEF Counter
<1>2. \A k : Count(c, k) \in Nat
  BY <1>1 DEF Count
<1>3. PlusEach(c, T) \in [D \cup T -> Nat]
  BY <1>1, <1>2 DEF PlusEach
<1>4. PlusEach(c, T) \in Counter(S)
  BY <1>3 DEF Counter
<1>5. \A k : Count(PlusEach(c, T), k) = Count(c, k) + (IF k \in T THEN 1 ELSE 0)
  BY <1>1, <1>2 DEF PlusEach, Count
<1> QED
  BY <1>2, <1>4, <1>5

(* Adding two counters.                                                    *)
LEMMA PlusCounterCounts ==
  ASSUME NEW S, NEW c \in Counter(S), NEW d \in Counter(S)
  PROVE  /\ PlusCounter(c, d) \in Counter(S)
         /\ \A k : /\ Count(c, k) \in Nat /\ Count(d, k) \in Nat
                   /\ Count(PlusCounter(c, d), k) = Count(c, k) + Count(d, k)
<1>1. PICK D \in SUBSET S : c \in [D -> Nat]
  BY DEF Counter
<1>2. PICK E \in SUBSET S : d \in [E -> Nat]
  BY DEF Counter
<1>3. \A k : Count(c, k) \in Nat /\ Count(d, k) \in Nat
  BY <1>1, <1>2 DEF Count
<1>4. PlusCounter(c, d) \in [D \cup E -> Nat]
  BY <1>1, <1>2, <1>3 DEF PlusCounter
<1>5. PlusCounter(c, d) \in Counter(S)
  BY <1>4 DEF Counter
<1>6. \A k : Count(PlusCounter(c, d), k) = Count(c, k) + Count(d, k)
  BY <1>1, <1>2, <1>3 DEF PlusCounter, Count
<1> QED
  BY <1>3, <1>5, <1>6

LEMMA EmptyStoreAddsUp == EmptyStore \in GoodStore
<1>1. \A S : NoCounts \in Counter(S)
  <2> TAKE S
  <2>1. NoCounts \in [{} -> Nat]
    BY DEF NoCounts
  <2> QED
    BY <2>1 DEF Counter
<1>2. EmptyStore \in Store
  BY <1>1 DEF EmptyStore, Store
<1>3. \A k : Count(NoCounts, k) = 0
  BY DEF Count, NoCounts
<1>4. AddsUp(EmptyStore)
  BY <1>3 DEF AddsUp, EmptyStore
<1> QED
  BY <1>2, <1>4 DEF GoodStore

(* Merging two stores whose counts add up.                                 *)
LEMMA MergedAddsUp ==
  ASSUME NEW s \in GoodStore, NEW t \in GoodStore
  PROVE  Merged(s, t) \in GoodStore
<1> DEFINE m == Merged(s, t)
<1>1. /\ s \in Store /\ AddsUp(s) /\ t \in Store /\ AddsUp(t)
  BY DEF GoodStore
<1>2. /\ s.class \in Counter(Class) /\ t.class \in Counter(Class)
      /\ s.function \in Counter(Function) /\ t.function \in Counter(Function)
      /\ s.parameter \in Counter(Parameter) /\ t.parameter \in Counter(Parameter)
      /\ s.value \in Counter(Parameter \X Value) /\ t.value \in Counter(Parameter \X Value)
  BY <1>1 DEF Store
<1>3. /\ m.class = PlusCounter(s.class, t.class)
      /\ m.function = PlusCounter(s.function, t.function)
      /\ m.parameter = PlusCounter(s.parameter, t.parameter)
      /\ m.value = PlusCounter(s.value, t.value)
  BY DEF Merged
<1>4. m \in Store
  <2>1. /\ PlusCounter(s.class, t.class) \in Counter(Class)
        /\ PlusCounter(s.function, t.function) \in Counter(Function)
        /\ PlusCounter(s.parameter, t.parameter) \in Counter(Parameter)
        /\ PlusCounter(s.value, t.value) \in Counter(Parameter \X Value)
    BY <1>2, PlusCounterCounts
  <2> QED
    BY <2>1 DEF Merged, Store
<1>5. /\ \A k : Count(m.class, k) = Count(s.class, k) + Count(t.class, k)
      /\ \A k : Count(m.function, k) = Count(s.function, k) + Count(t.function, k)
      /\ \A k : Count(m.parameter, k) = Count(s.parameter, k) + Count(t.parameter, k)
      /\ \A k : Count(m.value, k) = Count(s.value, k) + Count(t.value, k)
  BY <1>2, <1>3, PlusCounterCounts
<1>6. \A k : /\ Count(s.class, k) \in Nat /\ Count(t.class, k) \in Nat
             /\ Count(s.function, k) \in Nat /\ Count(t.function, k) \in Nat
             /\ Count(s.parameter, k) \in Nat /\ Count(t.parameter, k) \in Nat
             /\ Count(s.value, k) \in Nat /\ Count(t.value, k) \in Nat
  BY <1>2, PlusCounterCounts
<1> HIDE DEF m
<1>7. ASSUME NEW p \in Parameter
      PROVE  Count(m.parameter, p) <= Count(m.function, FunctionOf[p])
  <2>1. /\ Count(s.parameter, p) <= Count(s.function, FunctionOf[p])
        /\ Count(t.parameter, p) <= Count(t.function, FunctionOf[p])
    BY <1>1 DEF AddsUp
  <2> QED
    BY <2>1, <1>5, <1>6
<1>8. ASSUME NEW k \in Parameter \X Value
      PROVE  Count(m.value, k) <= Count(m.parameter, k[1])
  <2>1. /\ Count(s.value, k) <= Count(s.parameter, k[1])
        /\ Count(t.value, k) <= Count(t.parameter, k[1])
    BY <1>1 DEF AddsUp
  <2> QED
    BY <2>1, <1>5, <1>6
<1>9. ASSUME NEW f \in Function, ClassOf[f] # NoClass
      PROVE  Count(m.function, f) <= Count(m.class, ClassOf[f])
  <2>1. /\ Count(s.function, f) <= Count(s.class, ClassOf[f])
        /\ Count(t.function, f) <= Count(t.class, ClassOf[f])
    BY <1>1, <1>9 DEF AddsUp
  <2> QED
    BY <2>1, <1>5, <1>6
<1>10. AddsUp(m)
  BY <1>7, <1>8, <1>9 DEF AddsUp
<1> QED
  BY <1>4, <1>10 DEF GoodStore, m

(* Counting a call, as far as its arguments can be printed.                *)
LEMMA CountedAddsUp ==
  ASSUME NEW s \in GoodStore, NEW c \in Call, c # Broken
  PROVE  Counted(s, c) \in GoodStore
<1> DEFINE m == Counted(s, c)
           ps == {c.arguments[i][1] : i \in Reached(c)}
           vs == {c.arguments[i] : i \in Reached(c) \ Failing(c)}
           cs == {ClassOf[c.function]} \ {NoClass}
<1>1. /\ c.function \in Function /\ c.arguments \in Seq(Parameter \X Value)
      /\ \A i \in DOMAIN c.arguments : FunctionOf[c.arguments[i][1]] = c.function
  BY DEF Call
<1>2. /\ s.class \in Counter(Class) /\ s.function \in Counter(Function)
      /\ s.parameter \in Counter(Parameter) /\ s.value \in Counter(Parameter \X Value)
      /\ AddsUp(s)
  BY DEF GoodStore, Store
<1>3. \A i \in DOMAIN c.arguments :
        /\ c.arguments[i] \in Parameter \X Value
        /\ c.arguments[i][1] \in Parameter
  BY <1>1
<1>4. Reached(c) \subseteq DOMAIN c.arguments
  BY DEF Reached
<1>5. /\ cs \subseteq Class /\ {c.function} \subseteq Function
      /\ ps \subseteq Parameter /\ vs \subseteq Parameter \X Value
  <2>1. cs \subseteq Class
    BY <1>1, UsageInputs
  <2>2. ps \subseteq Parameter
    BY <1>3, <1>4
  <2>3. vs \subseteq Parameter \X Value
    BY <1>3, <1>4
  <2> QED
    BY <1>1, <2>1, <2>2, <2>3
<1>6. \A p \in ps : FunctionOf[p] = c.function
  BY <1>1, <1>4
<1>7. \A k \in vs : k[1] \in ps
  OBVIOUS
<1>8. ClassOf[c.function] # NoClass => ClassOf[c.function] \in cs
  OBVIOUS
<1>9. /\ m.class = PlusEach(s.class, cs)
      /\ m.function = PlusEach(s.function, {c.function})
      /\ m.parameter = PlusEach(s.parameter, ps)
      /\ m.value = PlusEach(s.value, vs)
  BY DEF Counted
<1>10. m \in Store
  <2>1. /\ PlusEach(s.class, cs) \in Counter(Class)
        /\ PlusEach(s.function, {c.function}) \in Counter(Function)
    <3> HIDE DEF cs
    <3> QED
      BY <1>2, <1>5, PlusEachCounts
  <2>2. /\ PlusEach(s.parameter, ps) \in Counter(Parameter)
        /\ PlusEach(s.value, vs) \in Counter(Parameter \X Value)
    <3> HIDE DEF ps, vs
    <3> QED
      BY <1>2, <1>5, PlusEachCounts
  <2> QED
    BY <2>1, <2>2 DEF Counted, Store
<1> HIDE DEF cs, ps, vs
<1>11. /\ \A k : Count(m.class, k) = Count(s.class, k) + (IF k \in cs THEN 1 ELSE 0)
       /\ \A k : Count(m.function, k) =
                    Count(s.function, k) + (IF k \in {c.function} THEN 1 ELSE 0)
       /\ \A k : Count(m.parameter, k) = Count(s.parameter, k) + (IF k \in ps THEN 1 ELSE 0)
       /\ \A k : Count(m.value, k) = Count(s.value, k) + (IF k \in vs THEN 1 ELSE 0)
  BY <1>2, <1>5, <1>9, PlusEachCounts
<1>12. \A k : /\ Count(s.class, k) \in Nat /\ Count(s.function, k) \in Nat
              /\ Count(s.parameter, k) \in Nat /\ Count(s.value, k) \in Nat
  BY <1>2, PlusCounterCounts
<1> HIDE DEF m
<1>13. ASSUME NEW p \in Parameter
       PROVE  Count(m.parameter, p) <= Count(m.function, FunctionOf[p])
  <2>1. Count(s.parameter, p) <= Count(s.function, FunctionOf[p])
    BY <1>2 DEF AddsUp
  <2>2. p \in ps => FunctionOf[p] \in {c.function}
    BY <1>6
  <2> QED
    BY <2>1, <2>2, <1>11, <1>12
<1>14. ASSUME NEW k \in Parameter \X Value
       PROVE  Count(m.value, k) <= Count(m.parameter, k[1])
  <2>1. Count(s.value, k) <= Count(s.parameter, k[1])
    BY <1>2 DEF AddsUp
  <2> QED
    BY <2>1, <1>7, <1>11, <1>12
<1>15. ASSUME NEW f \in Function, ClassOf[f] # NoClass
       PROVE  Count(m.function, f) <= Count(m.class, ClassOf[f])
  <2>1. Count(s.function, f) <= Count(s.class, ClassOf[f])
    BY <1>2, <1>15 DEF AddsUp
  <2>2. f \in {c.function} => ClassOf[f] \in cs
    BY <1>8, <1>15
  <2> QED
    BY <2>1, <2>2, <1>11, <1>12
<1>16. AddsUp(m)
  BY <1>13, <1>14, <1>15 DEF AddsUp
<1> QED
  BY <1>10, <1>16 DEF GoodStore, m
-----------------------------------------------------------------------------
(* The steps.                                                              *)
LEMMA MinimumInRange ==
  ASSUME NEW k \in Nat, NEW n \in Nat
  PROVE  Minimum(k, n) \in 0..n
BY DEF Minimum

LEMMA InitGood == Init => IInv
<1> SUFFICES ASSUME Init PROVE IInv
  OBVIOUS
<1>1. /\ input.batchSize \in Nat \ {0} /\ input.files \in Batch
  BY UsageInputs DEF Init, Batch
<1> DEFINE size == input.batchSize
           n == (Len(input.files) + size - 1) \div size
<1>2. Len(input.files) + size - 1 \in Nat /\ size \in Nat \ {0}
  BY <1>1 DEF Batch
<1>3. n \in Nat
  <2>1. \A k \in Nat, l \in Nat \ {0} : k \div l \in Nat
    OBVIOUS
  <2> QED
    BY <1>2, <2>1
<1>4. ASSUME NEW i \in 1..n
      PROVE  SubSeq(input.files, (i - 1) * size + 1,
                    Minimum(i * size, Len(input.files))) \in Batch
  <2>1. /\ (i - 1) * size + 1 \in Nat \ {0} /\ i * size \in Nat
        /\ Len(input.files) \in Nat
    BY <1>1, <1>3 DEF Batch
  <2>2. Minimum(i * size, Len(input.files)) \in 0..Len(input.files)
    BY <2>1, MinimumInRange
  <2> QED
    BY <1>1, <2>1, <2>2, SubSeqProperties DEF Batch
<1>5. batches \in Seq(Batch)
  <2>1. batches = [i \in 1..n |-> SubSeq(input.files, (i - 1) * size + 1,
                                         Minimum(i * size, Len(input.files)))]
    BY DEF Init, SplitIntoBatches
  <2> HIDE DEF n
  <2> QED
    BY <1>3, <1>4, <2>1
<1> QED
  BY <1>5, EmptyStoreAddsUp DEF Init, IInv

LEMMA WorkerParts ==
  ASSUME IInv, NEW w \in DOMAIN workers
  PROVE  /\ Files(w) \in Batch /\ workers[w].usages \in GoodStore
         /\ workers[w] = [files |-> Files(w), usages |-> workers[w].usages]
<1>1. workers[w] \in Worker
  BY DEF IInv
<1> QED
  BY <1>1 DEF Worker, Files

LEMMA NextGood == IInv /\ [Next]_vars => IInv'
<1> SUFFICES ASSUME IInv, [Next]_vars PROVE IInv'
  OBVIOUS
<1> USE DEF IInv
<1>1. CASE StartSlice
  <2> DEFINE n == Minimum(input.processes, Len(batches))
  <2>1. /\ input.processes \in Nat /\ Len(batches) \in Nat
    BY UsageInputs
  <2>2. n \in 0..Len(batches)
    BY <2>1, MinimumInRange
  <2>3. \A i \in 1..n : [files |-> batches[i], usages |-> EmptyStore] \in Worker
    BY <2>2, EmptyStoreAddsUp DEF Worker
  <2>4. workers' \in Seq(Worker)
    <3>1. workers' = [i \in 1..n |-> [files |-> batches[i], usages |-> EmptyStore]]
      BY <1>1 DEF StartSlice
    <3>2. n \in Nat
      BY <2>2
    <3> HIDE DEF n
    <3> QED
      BY <2>3, <3>1, <3>2
  <2>5. batches' \in Seq(Batch)
    <3>1. batches' = SubSeq(batches, n + 1, Len(batches))
      BY <1>1 DEF StartSlice
    <3> HIDE DEF n, Batch
    <3> QED
      BY <2>1, <2>2, <3>1, SubSeqProperties
  <2> QED
    BY <1>1, <2>4, <2>5 DEF StartSlice
<1>2. ASSUME NEW w \in DOMAIN workers, CountCall(w)
      PROVE  IInv'
  <2> DEFINE call == Head(Head(Files(w)))
  <2>1. /\ Files(w) \in Batch /\ workers[w].usages \in GoodStore
        /\ workers[w] = [files |-> Files(w), usages |-> workers[w].usages]
    BY WorkerParts
  <2>2. Head(Files(w)) \in Seq(Call) /\ call \in Call /\ Tail(Head(Files(w))) \in Seq(Call)
    BY <1>2, <2>1 DEF CountCall, Batch
  <2>3. call # Broken
    BY <1>2 DEF CountCall, Fails
  <2>4. Counted(workers[w].usages, call) \in GoodStore
    BY <2>1, <2>2, <2>3, CountedAddsUp
  <2>5. [Files(w) EXCEPT ![1] = Tail(@)] \in Batch
    BY <1>2, <2>1, <2>2 DEF CountCall, Batch
  <2>6. workers' = [workers EXCEPT ![w] =
                      [files  |-> [Files(w) EXCEPT ![1] = Tail(@)],
                       usages |-> Counted(workers[w].usages, call)]]
    BY <1>2, <2>1 DEF CountCall, Files
  <2>7. workers' \in Seq(Worker)
    <3> DEFINE new == [files  |-> [Files(w) EXCEPT ![1] = Tail(@)],
                       usages |-> Counted(workers[w].usages, call)]
    <3>1. new \in Worker
      BY <2>4, <2>5 DEF Worker
    <3> HIDE DEF new
    <3>2. [workers EXCEPT ![w] = new] \in Seq(Worker)
      BY <3>1
    <3> QED
      BY <2>6, <3>2 DEF new
  <2> QED
    BY <1>2, <2>7 DEF CountCall
<1>3. ASSUME NEW w \in DOMAIN workers, FailAtCall(w)
      PROVE  IInv'
  <2> DEFINE call == Head(Head(Files(w)))
             counts == IF call = Broken THEN workers[w].usages
                                        ELSE Counted(workers[w].usages, call)
  <2>1. /\ Files(w) \in Batch /\ workers[w].usages \in GoodStore
        /\ workers[w] = [files |-> Files(w), usages |-> workers[w].usages]
    BY WorkerParts
  <2>2. call \in Call
    BY <1>3, <2>1 DEF FailAtCall, Batch
  <2>3. counts \in GoodStore
    BY <2>1, <2>2, CountedAddsUp
  <2>4. Tail(Files(w)) \in Batch
    BY <1>3, <2>1 DEF FailAtCall, Batch
  <2>5. workers' = [workers EXCEPT ![w] = [files |-> Tail(Files(w)), usages |-> counts]]
    BY <1>3, <2>1 DEF FailAtCall, Files
  <2>6. workers' \in Seq(Worker)
    <3>1. [files |-> Tail(Files(w)), usages |-> counts] \in Worker
      BY <2>3, <2>4 DEF Worker
    <3> HIDE DEF counts
    <3> QED
      BY <2>5, <3>1
  <2> QED
    BY <1>3, <2>6 DEF FailAtCall
<1>4. ASSUME NEW w \in DOMAIN workers, FinishFile(w)
      PROVE  IInv'
  <2>1. /\ Files(w) \in Batch /\ workers[w].usages \in GoodStore
        /\ workers[w] = [files |-> Files(w), usages |-> workers[w].usages]
    BY WorkerParts
  <2>2. Tail(Files(w)) \in Batch
    BY <1>4, <2>1 DEF FinishFile, Batch
  <2>3. workers' = [workers EXCEPT ![w] =
                      [files |-> Tail(Files(w)), usages |-> workers[w].usages]]
    BY <1>4, <2>1 DEF FinishFile, Files
  <2>4. workers' \in Seq(Worker)
    <3>1. [files |-> Tail(Files(w)), usages |-> workers[w].usages] \in Worker
      BY <2>1, <2>2 DEF Worker
    <3> QED
      BY <2>3, <3>1
  <2> QED
    BY <1>4, <2>4 DEF FinishFile
<1>5. CASE MergeBatch
  <2>1. Head(workers) \in Worker /\ Tail(workers) \in Seq(Worker)
    BY <1>5 DEF MergeBatch
  <2>2. total' \in GoodStore
    BY <1>5, <2>1, MergedAddsUp DEF MergeBatch, Worker
  <2> QED
    BY <1>5, <2>1, <2>2 DEF MergeBatch
<1>6. CASE UNCHANGED vars
  BY <1>6 DEF vars
<1> QED
  BY <1>1, <1>2, <1>3, <1>4, <1>5, <1>6 DEF Next

(* However files, batches and processes are arranged and whatever fails,   *)
(* the counts of every store add up (UsageCountStore, enter_call and       *)
(* merge_other_into_self).                                                 *)
THEOREM StoresAddUp == Spec => []CountsAddUp
<1>1. IInv => CountsAddUp
  <2> SUFFICES ASSUME IInv, NEW s \in Stores PROVE AddsUp(s)
    BY DEF CountsAddUp
  <2>1. \A w \in DOMAIN workers : workers[w].usages \in GoodStore
    BY WorkerParts
  <2>2. s \in GoodStore
    BY <2>1 DEF IInv, Stores
  <2> QED
    BY <2>2 DEF GoodStore
<1> QED
  BY InitGood, NextGood, <1>1, PTL DEF Spec
-----------------------------------------------------------------------------
(* What a store tells about a set of calls, each given by its position.    *)
CallOf(F, ij) == F[ij[1]][ij[2]]
IsCall(F, ij, call) == call = CallOf(F, ij)
UsesClass(c, k) == c # Broken /\ ClassOf[c.function] = k
UsesFunction(c, f) == c # Broken /\ c.function = f
SetsParameter(c, p) == c # Broken /\ \E a \in Arguments(c, Reached(c)) : a[1] = p
SetsValue(c, k) == c # Broken /\ k \in Arguments(c, Reached(c) \ Failing(c))

OfClass(F, P, k) == {ij \in P : UsesClass(CallOf(F, ij), k)}
OfFunction(F, P, f) == {ij \in P : UsesFunction(CallOf(F, ij), f)}
OfParameter(F, P, p) == {ij \in P : SetsParameter(CallOf(F, ij), p)}
OfValue(F, P, k) == {ij \in P : SetsValue(CallOf(F, ij), k)}

Tells(F, s, P) ==
  /\ \A k \in Class : Count(s.class, k) = Cardinality(OfClass(F, P, k))
  /\ \A f \in Function : Count(s.function, f) = Cardinality(OfFunction(F, P, f))
  /\ \A p \in Parameter : Count(s.parameter, p) = Cardinality(OfParameter(F, P, p))
  /\ \A k \in Parameter \X Value : Count(s.value, k) = Cardinality(OfValue(F, P, k))

VisitedIn(F) ==
  {ij \in UNION {{i} \X DOMAIN F[i] : i \in DOMAIN F} :
     \A k \in 1..(ij[2] - 1) : ~Fails(F[ij[1]][k])}

(* The calls visited are finitely many.                                    *)
LEMMA VisitedFinite ==
  ASSUME NEW F \in Batch PROVE IsFiniteSet(VisitedIn(F))
<1>1. PICK n \in Nat : n = Len(F) /\ DOMAIN F = 1..n
  BY DEF Batch
<1>2. ASSUME NEW i \in 1..n PROVE IsFiniteSet({i} \X DOMAIN F[i])
  <2>1. F[i] \in Seq(Call)
    BY <1>1, <1>2 DEF Batch
  <2>2. PICK m \in Nat : DOMAIN F[i] = 1..m
    BY <2>1
  <2>3. IsFiniteSet({i})
    BY FS_Singleton
  <2>4. IsFiniteSet(1..m)
    BY FS_Interval
  <2> QED BY <2>2, <2>3, <2>4, FS_Product
<1>3. IsFiniteSet({{i} \X DOMAIN F[i] : i \in 1..n})
  <2>1. IsFiniteSet(1..n)
    BY FS_Interval
  <2> DEFINE g == [i \in 1..n |-> {i} \X DOMAIN F[i]]
  <2>2. {{i} \X DOMAIN F[i] : i \in 1..n} = {g[i] : i \in 1..n}
    OBVIOUS
  <2>3. g \in [1..n -> {g[i] : i \in 1..n}]
    OBVIOUS
  <2>4. g \in Surjection(1..n, {g[i] : i \in 1..n})
    BY <2>3 DEF Surjection
  <2>5. IsFiniteSet({g[i] : i \in 1..n})
    <3> HIDE DEF g
    <3> QED BY <2>1, <2>4, FS_Surjection
  <2> QED BY <2>2, <2>5
<1>4. IsFiniteSet(UNION {{i} \X DOMAIN F[i] : i \in 1..n})
  BY <1>2, <1>3, FS_UNION
<1>5. VisitedIn(F) \in SUBSET UNION {{i} \X DOMAIN F[i] : i \in 1..n}
  BY <1>1 DEF VisitedIn
<1> QED BY <1>4, <1>5, FS_Subset

(* An empty store tells of no calls.                                       *)
LEMMA NoneTold ==
  ASSUME NEW F PROVE Tells(F, EmptyStore, {})
<1>1. \A k : Count(NoCounts, k) = 0
  BY DEF Count, NoCounts
<1>2. /\ \A k : OfClass(F, {}, k) = {} /\ OfFunction(F, {}, k) = {}
      /\ \A k : OfParameter(F, {}, k) = {} /\ OfValue(F, {}, k) = {}
  BY DEF OfClass, OfFunction, OfParameter, OfValue
<1> QED BY <1>1, <1>2, FS_EmptySet DEF Tells, EmptyStore

(* A set of calls and one more.                                            *)
LEMMA OneMore ==
  ASSUME NEW P, IsFiniteSet(P), NEW X, X \subseteq P, NEW Y, NEW x, x \notin P,
         NEW k, NEW K, Y = X \cup (IF k \in K THEN {x} ELSE {})
  PROVE  Cardinality(Y) = Cardinality(X) + (IF k \in K THEN 1 ELSE 0)
<1>1. IsFiniteSet(X) /\ Cardinality(X) \in Nat
  BY FS_Subset, FS_CardinalityType
<1>2. CASE k \in K
  <2>1. Cardinality(X \cup {x}) = Cardinality(X) + 1
    BY <1>1, FS_AddElement
  <2> QED BY <1>2, <2>1
<1>3. CASE k \notin K
  BY <1>1, <1>3
<1> QED BY <1>2, <1>3

(* A call counted is a call more told of.                                  *)
LEMMA OneMoreTold ==
  ASSUME NEW F, NEW s \in Store, NEW P, IsFiniteSet(P), Tells(F, s, P),
         NEW ij, ij \notin P, NEW c \in Call, c = CallOf(F, ij), c # Broken
  PROVE  Tells(F, Counted(s, c), P \cup {ij})
<1> DEFINE ps == {c.arguments[i][1] : i \in Reached(c)}
           vs == {c.arguments[i] : i \in Reached(c) \ Failing(c)}
           cs == {ClassOf[c.function]} \ {NoClass}
           fs == {c.function}
<1>1. /\ c.function \in Function /\ c.arguments \in Seq(Parameter \X Value)
  BY DEF Call
<1>2. /\ s.class \in Counter(Class) /\ s.function \in Counter(Function)
      /\ s.parameter \in Counter(Parameter) /\ s.value \in Counter(Parameter \X Value)
  BY DEF Store
<1>3. \A i \in DOMAIN c.arguments :
        /\ c.arguments[i] \in Parameter \X Value
        /\ c.arguments[i][1] \in Parameter
  BY <1>1
<1>4. Reached(c) \subseteq DOMAIN c.arguments
  BY DEF Reached
<1>5. /\ cs \subseteq Class /\ fs \subseteq Function
      /\ ps \subseteq Parameter /\ vs \subseteq Parameter \X Value
  <2>1. cs \subseteq Class
    BY <1>1, UsageInputs
  <2>2. ps \subseteq Parameter
    BY <1>3, <1>4
  <2>3. vs \subseteq Parameter \X Value
    BY <1>3, <1>4
  <2> QED
    BY <1>1, <2>1, <2>2, <2>3
<1>6. /\ Counted(s, c).class = PlusEach(s.class, cs)
      /\ Counted(s, c).function = PlusEach(s.function, fs)
      /\ Counted(s, c).parameter = PlusEach(s.parameter, ps)
      /\ Counted(s, c).value = PlusEach(s.value, vs)
  BY DEF Counted
<1>7. /\ \A k \in Class : UsesClass(c, k) <=> k \in cs
      /\ \A f \in Function : UsesFunction(c, f) <=> f \in fs
      /\ \A p \in Parameter : SetsParameter(c, p) <=> p \in ps
      /\ \A k \in Parameter \X Value : SetsValue(c, k) <=> k \in vs
  <2>1. \A k \in Class : UsesClass(c, k) <=> k \in cs
    BY UsageInputs DEF UsesClass
  <2>2. \A p \in Parameter : SetsParameter(c, p) <=> p \in ps
    BY DEF SetsParameter, Arguments
  <2> QED BY <2>1, <2>2 DEF UsesFunction, SetsValue, Arguments
<1> HIDE DEF cs, fs, ps, vs
<1>8. /\ \A k : Count(PlusEach(s.class, cs), k) = Count(s.class, k) + (IF k \in cs THEN 1 ELSE 0)
      /\ \A k : Count(PlusEach(s.function, fs), k) =
                   Count(s.function, k) + (IF k \in fs THEN 1 ELSE 0)
      /\ \A k : Count(PlusEach(s.parameter, ps), k) =
                   Count(s.parameter, k) + (IF k \in ps THEN 1 ELSE 0)
      /\ \A k : Count(PlusEach(s.value, vs), k) = Count(s.value, k) + (IF k \in vs THEN 1 ELSE 0)
  BY <1>2, <1>5, PlusEachCounts
<1>9. ASSUME NEW k \in Class
      PROVE  Count(Counted(s, c).class, k) = Cardinality(OfClass(F, P \cup {ij}, k))
  <2>0. PICK X, Y : X = OfClass(F, P, k) /\ Y = OfClass(F, P \cup {ij}, k)
    OBVIOUS
  <2>1. X \subseteq P /\ Y = X \cup (IF k \in cs THEN {ij} ELSE {})
    BY <1>7, <2>0 DEF OfClass
  <2>2. Cardinality(Y) = Cardinality(X) + (IF k \in cs THEN 1 ELSE 0)
    BY <2>1, OneMore
  <2>3. Count(s.class, k) = Cardinality(X)
    BY <2>0 DEF Tells
  <2> QED BY <1>6, <1>8, <2>0, <2>2, <2>3
<1>10. ASSUME NEW f \in Function
       PROVE  Count(Counted(s, c).function, f) = Cardinality(OfFunction(F, P \cup {ij}, f))
  <2>0. PICK X, Y : X = OfFunction(F, P, f) /\ Y = OfFunction(F, P \cup {ij}, f)
    OBVIOUS
  <2>1. X \subseteq P /\ Y = X \cup (IF f \in fs THEN {ij} ELSE {})
    BY <1>7, <2>0 DEF OfFunction
  <2>2. Cardinality(Y) = Cardinality(X) + (IF f \in fs THEN 1 ELSE 0)
    BY <2>1, OneMore
  <2>3. Count(s.function, f) = Cardinality(X)
    BY <2>0 DEF Tells
  <2> QED BY <1>6, <1>8, <2>0, <2>2, <2>3
<1>11. ASSUME NEW p \in Parameter
       PROVE  Count(Counted(s, c).parameter, p) = Cardinality(OfParameter(F, P \cup {ij}, p))
  <2>0. PICK X, Y : X = OfParameter(F, P, p) /\ Y = OfParameter(F, P \cup {ij}, p)
    OBVIOUS
  <2>1. X \subseteq P /\ Y = X \cup (IF p \in ps THEN {ij} ELSE {})
    BY <1>7, <2>0 DEF OfParameter
  <2>2. Cardinality(Y) = Cardinality(X) + (IF p \in ps THEN 1 ELSE 0)
    BY <2>1, OneMore
  <2>3. Count(s.parameter, p) = Cardinality(X)
    BY <2>0 DEF Tells
  <2> QED BY <1>6, <1>8, <2>0, <2>2, <2>3
<1>12. ASSUME NEW k \in Parameter \X Value
       PROVE  Count(Counted(s, c).value, k) = Cardinality(OfValue(F, P \cup {ij}, k))
  <2>0. PICK X, Y : X = OfValue(F, P, k) /\ Y = OfValue(F, P \cup {ij}, k)
    OBVIOUS
  <2>1. X \subseteq P /\ Y = X \cup (IF k \in vs THEN {ij} ELSE {})
    BY <1>7, <2>0 DEF OfValue
  <2>2. Cardinality(Y) = Cardinality(X) + (IF k \in vs THEN 1 ELSE 0)
    BY <2>1, OneMore
  <2>3. Count(s.value, k) = Cardinality(X)
    BY <2>0 DEF Tells
  <2> QED BY <1>6, <1>8, <2>0, <2>2, <2>3
<1> QED BY <1>9, <1>10, <1>11, <1>12 DEF Tells

LEMMA BrokenTold ==
  ASSUME NEW F, NEW s, NEW P, Tells(F, s, P), NEW ij, CallOf(F, ij) = Broken
  PROVE  Tells(F, s, P \cup {ij})
<1> DEFINE Q == P \cup {ij}
<1>1. \A k : /\ OfClass(F, Q, k) = OfClass(F, P, k)
             /\ OfFunction(F, Q, k) = OfFunction(F, P, k)
  BY DEF OfClass, OfFunction, UsesClass, UsesFunction
<1>2. \A k : /\ OfParameter(F, Q, k) = OfParameter(F, P, k)
             /\ OfValue(F, Q, k) = OfValue(F, P, k)
  BY DEF OfParameter, OfValue, SetsParameter, SetsValue
<1> HIDE DEF Q
<1>3. Tells(F, s, Q)
  BY <1>1, <1>2 DEF Tells
<1> QED BY <1>3 DEF Q

LEMMA TwoPlaces ==
  ASSUME NEW P, IsFiniteSet(P), NEW Q, IsFiniteSet(Q), P \cap Q = {},
         NEW X, X \subseteq P, NEW Y, Y \subseteq Q
  PROVE  Cardinality(X \cup Y) = Cardinality(X) + Cardinality(Y)
<1>1. /\ IsFiniteSet(X) /\ Cardinality(X) \in Nat
      /\ IsFiniteSet(Y) /\ Cardinality(Y) \in Nat
  BY FS_Subset, FS_CardinalityType
<1>2. Cardinality(X \cap Y) = 0
  <2>1. X \cap Y = {}
    OBVIOUS
  <2> QED BY <2>1, FS_EmptySet
<1>3. Cardinality(X \cup Y) = Cardinality(X) + Cardinality(Y) - Cardinality(X \cap Y)
  BY <1>1, FS_Union
<1> QED BY <1>1, <1>2, <1>3

LEMMA MergedTold ==
  ASSUME NEW F, NEW s \in Store, NEW t \in Store,
         NEW P, IsFiniteSet(P), Tells(F, s, P),
         NEW Q, IsFiniteSet(Q), Tells(F, t, Q), P \cap Q = {}
  PROVE  Tells(F, Merged(s, t), P \cup Q)
<1> DEFINE m == Merged(s, t)
<1>1. /\ s.class \in Counter(Class) /\ t.class \in Counter(Class)
      /\ s.function \in Counter(Function) /\ t.function \in Counter(Function)
      /\ s.parameter \in Counter(Parameter) /\ t.parameter \in Counter(Parameter)
      /\ s.value \in Counter(Parameter \X Value) /\ t.value \in Counter(Parameter \X Value)
  BY DEF Store
<1>2. /\ m.class = PlusCounter(s.class, t.class)
      /\ m.function = PlusCounter(s.function, t.function)
      /\ m.parameter = PlusCounter(s.parameter, t.parameter)
      /\ m.value = PlusCounter(s.value, t.value)
  BY DEF Merged
<1>3. /\ \A k : Count(m.class, k) = Count(s.class, k) + Count(t.class, k)
      /\ \A k : Count(m.function, k) = Count(s.function, k) + Count(t.function, k)
      /\ \A k : Count(m.parameter, k) = Count(s.parameter, k) + Count(t.parameter, k)
      /\ \A k : Count(m.value, k) = Count(s.value, k) + Count(t.value, k)
  BY <1>1, <1>2, PlusCounterCounts
<1> HIDE DEF m
<1>4. ASSUME NEW k \in Class
      PROVE  Count(m.class, k) = Cardinality(OfClass(F, P \cup Q, k))
  <2>0. PICK X, Y : X = OfClass(F, P, k) /\ Y = OfClass(F, Q, k)
    OBVIOUS
  <2>1. X \subseteq P /\ Y \subseteq Q /\ OfClass(F, P \cup Q, k) = X \cup Y
    BY <2>0 DEF OfClass
  <2>2. Cardinality(X \cup Y) = Cardinality(X) + Cardinality(Y)
    BY <2>1, TwoPlaces
  <2>3. Count(s.class, k) = Cardinality(X) /\ Count(t.class, k) = Cardinality(Y)
    BY <2>0 DEF Tells
  <2> QED BY <1>3, <2>1, <2>2, <2>3
<1>5. ASSUME NEW f \in Function
      PROVE  Count(m.function, f) = Cardinality(OfFunction(F, P \cup Q, f))
  <2>0. PICK X, Y : X = OfFunction(F, P, f) /\ Y = OfFunction(F, Q, f)
    OBVIOUS
  <2>1. X \subseteq P /\ Y \subseteq Q /\ OfFunction(F, P \cup Q, f) = X \cup Y
    BY <2>0 DEF OfFunction
  <2>2. Cardinality(X \cup Y) = Cardinality(X) + Cardinality(Y)
    BY <2>1, TwoPlaces
  <2>3. Count(s.function, f) = Cardinality(X) /\ Count(t.function, f) = Cardinality(Y)
    BY <2>0 DEF Tells
  <2> QED BY <1>3, <2>1, <2>2, <2>3
<1>6. ASSUME NEW p \in Parameter
      PROVE  Count(m.parameter, p) = Cardinality(OfParameter(F, P \cup Q, p))
  <2>0. PICK X, Y : X = OfParameter(F, P, p) /\ Y = OfParameter(F, Q, p)
    OBVIOUS
  <2>1. X \subseteq P /\ Y \subseteq Q /\ OfParameter(F, P \cup Q, p) = X \cup Y
    BY <2>0 DEF OfParameter
  <2>2. Cardinality(X \cup Y) = Cardinality(X) + Cardinality(Y)
    BY <2>1, TwoPlaces
  <2>3. Count(s.parameter, p) = Cardinality(X) /\ Count(t.parameter, p) = Cardinality(Y)
    BY <2>0 DEF Tells
  <2> QED BY <1>3, <2>1, <2>2, <2>3
<1>7. ASSUME NEW k \in Parameter \X Value
      PROVE  Count(m.value, k) = Cardinality(OfValue(F, P \cup Q, k))
  <2>0. PICK X, Y : X = OfValue(F, P, k) /\ Y = OfValue(F, Q, k)
    OBVIOUS
  <2>1. X \subseteq P /\ Y \subseteq Q /\ OfValue(F, P \cup Q, k) = X \cup Y
    BY <2>0 DEF OfValue
  <2>2. Cardinality(X \cup Y) = Cardinality(X) + Cardinality(Y)
    BY <2>1, TwoPlaces
  <2>3. Count(s.value, k) = Cardinality(X) /\ Count(t.value, k) = Cardinality(Y)
    BY <2>0 DEF Tells
  <2> QED BY <1>3, <2>1, <2>2, <2>3
<1> QED BY <1>4, <1>5, <1>6, <1>7 DEF Tells, m
-----------------------------------------------------------------------------
(* Where a batch ends: at its last file, or at the last of all.            *)
Bound(F, size, b) == Minimum(b * size, Len(F))

IsSplit(F, size, split) ==
  /\ Len(split) \in Nat /\ DOMAIN split = 1..Len(split)
  /\ Bound(F, size, 0) = 0 /\ Bound(F, size, Len(split)) = Len(F)
  /\ \A b \in Nat : Bound(F, size, b) \in 0..Len(F)
  /\ \A b \in Nat : Bound(F, size, b) <= Bound(F, size, b + 1)
  /\ \A b \in 1..Len(split) :
       /\ split[b] \in Batch
       /\ Len(split[b]) = Bound(F, size, b) - Bound(F, size, b - 1)
       /\ \A k \in 1..Len(split[b]) : split[b][k] = F[Bound(F, size, b - 1) + k]

LEMMA SplitFacts ==
  ASSUME NEW F \in Batch, NEW size \in Nat \ {0}
  PROVE  IsSplit(F, size, SplitIntoBatches(F, size))
<1>1. PICK l \in Nat : l = Len(F)
  BY DEF Batch
<1>2. PICK n \in Nat : n = (l + size - 1) \div size /\ l <= n * size
                       /\ \A b \in 1..n : (b - 1) * size < l
  <2> DEFINE q == (l + size - 1) \div size
  <2>1. q \in Nat
    <3>1. \A a \in Nat, b \in Nat \ {0} : a \div b \in Nat
      OBVIOUS
    <3>2. l + size - 1 \in Nat
      OBVIOUS
    <3> QED BY <3>1, <3>2
  <2>2. q * size <= l + size - 1 /\ l + size - 1 < q * size + size
    <3>1. \A a \in Int, b \in Nat \ {0} : (a \div b) * b <= a /\ a < (a \div b) * b + b
      OBVIOUS
    <3> QED BY <3>1
  <2> HIDE DEF q
  <2>3. q * size \in Nat
    BY <2>1
  <2>4. l <= q * size
    BY <2>2, <2>3
  <2>5. ASSUME NEW b \in 1..q PROVE (b - 1) * size < l
    <3>1. (b - 1) * size = b * size - size /\ b * size \in Nat
      BY <2>1
    <3>2. b * size <= q * size
      BY <2>1
    <3> QED BY <3>1, <3>2, <2>2, <2>3
  <2> QED BY <2>1, <2>4, <2>5 DEF q
<1>3. PICK split : split = SplitIntoBatches(F, size)
  OBVIOUS
<1>4. split = [b \in 1..n |-> SubSeq(F, (b - 1) * size + 1, Minimum(b * size, l))]
  BY <1>1, <1>2, <1>3 DEF SplitIntoBatches
<1>5. Len(split) = n /\ DOMAIN split = 1..n
  BY <1>4
<1>6. \A b \in Nat : b * size \in Nat /\ (b + 1) * size = b * size + size
  OBVIOUS
<1>7. Bound(F, size, 0) = 0 /\ Bound(F, size, n) = l
  <2>1. 0 * size = 0
    OBVIOUS
  <2> QED BY <1>1, <1>2, <1>6, <2>1 DEF Bound, Minimum
<1>8. \A b \in Nat : Bound(F, size, b) \in 0..l
  BY <1>1, <1>6 DEF Bound, Minimum
<1>9. ASSUME NEW b \in Nat PROVE Bound(F, size, b) <= Bound(F, size, b + 1)
  <2>1. PICK x \in Nat : x = b * size /\ (b + 1) * size = x + size
    BY <1>6
  <2> QED BY <1>1, <2>1 DEF Bound, Minimum
<1>10. ASSUME NEW b \in 1..n
       PROVE  /\ split[b] \in Batch
              /\ Len(split[b]) = Bound(F, size, b) - Bound(F, size, b - 1)
              /\ \A k \in 1..Len(split[b]) : split[b][k] = F[Bound(F, size, b - 1) + k]
  <2>1. PICK x \in Nat : x = (b - 1) * size /\ b * size = x + size /\ x < l
    <3>1. b - 1 \in Nat /\ (b - 1) + 1 = b
      OBVIOUS
    <3> QED BY <1>2, <1>6, <3>1
  <2>2. PICK y \in 0..l : y = Bound(F, size, b) /\ y = Minimum(x + size, l)
    BY <1>1, <1>8, <2>1 DEF Bound
  <2>3. Bound(F, size, b - 1) = x
    BY <1>1, <2>1 DEF Bound, Minimum
  <2>4. split[b] = SubSeq(F, x + 1, y)
    BY <1>4, <2>1, <2>2
  <2>5. x < y
    BY <2>1, <2>2 DEF Minimum
  <2>6. /\ SubSeq(F, x + 1, y) \in Batch
        /\ Len(SubSeq(F, x + 1, y)) = y - x
        /\ \A k \in 1..y - x : SubSeq(F, x + 1, y)[k] = F[x + k]
    <3>1. \A i \in x + 1..y : F[i] \in Seq(Call)
      BY <1>1, <2>2 DEF Batch
    <3>2. /\ SubSeq(F, x + 1, y) \in Seq(Seq(Call))
          /\ Len(SubSeq(F, x + 1, y)) = IF x + 1 <= y THEN y - (x + 1) + 1 ELSE 0
          /\ \A k \in 1..y - (x + 1) + 1 : SubSeq(F, x + 1, y)[k] = F[x + 1 + k - 1]
      <4>1. x + 1 \in Int /\ y \in Int
        OBVIOUS
      <4> QED BY <3>1, <4>1, SubSeqProperties
    <3> QED BY <2>5, <3>2 DEF Batch
  <2> QED BY <2>2, <2>3, <2>4, <2>6
<1> QED BY <1>1, <1>3, <1>5, <1>7, <1>8, <1>9, <1>10 DEF IsSplit
-----------------------------------------------------------------------------
(* The calls visited before the one at d + 1 of file i, from file lo on.   *)
VisitedTo(F, lo, i, d) ==
  {ij \in VisitedIn(F) : lo < ij[1] /\ (ij[1] < i \/ (ij[1] = i /\ ij[2] <= d))}

NoneFailed(F, i, d) == \A k \in 1..d : ~Fails(F[i][k])

(* What a worker has left of the files up to the one at hi: it has visited *)
(* d calls of file i, none of which failed.                                *)
IsAt(F, lo, hi, files, i, d) ==
  /\ lo \in Nat /\ hi \in 0..Len(F) /\ lo < i /\ i = hi - Len(files) + 1
  /\ \A k \in 2..Len(files) : files[k] = F[hi - Len(files) + k]
  /\ files = <<>> => d = 0
  /\ files # <<>> =>
       /\ Len(F[i]) = d + Len(files[1])
       /\ \A k \in 1..Len(files[1]) : files[1][k] = F[i][d + k]
       /\ NoneFailed(F, i, d)

(* The positions of the calls visited.                                     *)
LEMMA PositionsIn ==
  ASSUME NEW F \in Batch
  PROVE  /\ \A ij \in VisitedIn(F) :
              /\ ij[1] \in 1..Len(F) /\ ij[2] \in 1..Len(F[ij[1]]) /\ ij = <<ij[1], ij[2]>>
              /\ \A k \in 1..(ij[2] - 1) : ~Fails(F[ij[1]][k])
         /\ \A i \in 1..Len(F), j \in Nat :
              /\ Len(F[i]) \in Nat /\ F[i] \in Seq(Call)
              /\ j \in 1..Len(F[i]) /\ (\A k \in 1..j - 1 : ~Fails(F[i][k]))
                 => <<i, j>> \in VisitedIn(F)
<1>1. Len(F) \in Nat /\ DOMAIN F = 1..Len(F)
      /\ \A i \in 1..Len(F) : /\ F[i] \in Seq(Call) /\ Len(F[i]) \in Nat
                              /\ DOMAIN F[i] = 1..Len(F[i])
  BY DEF Batch
<1>2. ASSUME NEW ij \in VisitedIn(F)
      PROVE  /\ ij[1] \in 1..Len(F) /\ ij[2] \in 1..Len(F[ij[1]]) /\ ij = <<ij[1], ij[2]>>
             /\ \A k \in 1..(ij[2] - 1) : ~Fails(F[ij[1]][k])
  <2>1. PICK i \in DOMAIN F : ij \in {i} \X DOMAIN F[i]
    BY DEF VisitedIn
  <2>2. \A k \in 1..(ij[2] - 1) : ~Fails(F[ij[1]][k])
    BY DEF VisitedIn
  <2> QED BY <1>1, <2>1, <2>2
<1>3. ASSUME NEW i \in 1..Len(F), NEW j \in Nat, j \in 1..Len(F[i]),
             \A k \in 1..j - 1 : ~Fails(F[i][k])
      PROVE  <<i, j>> \in VisitedIn(F)
  <2>1. <<i, j>> \in {i} \X DOMAIN F[i] /\ i \in DOMAIN F
    BY <1>1, <1>3
  <2>2. <<i, j>> \in UNION {{x} \X DOMAIN F[x] : x \in DOMAIN F}
    BY <2>1
  <2> QED BY <1>3, <2>2 DEF VisitedIn
<1> QED BY <1>1, <1>2, <1>3

(* Visiting the next call, the last of its file if it fails.               *)
LEMMA VisitedOneMore ==
  ASSUME NEW F \in Batch, NEW lo \in Nat, NEW i \in 1..Len(F), NEW d \in Nat,
         lo < i, d < Len(F[i]), NoneFailed(F, i, d), NEW ij, ij = <<i, d + 1>>
  PROVE  /\ ij \in VisitedIn(F) \ VisitedTo(F, lo, i, d)
         /\ VisitedTo(F, lo, i, d + 1) = VisitedTo(F, lo, i, d) \cup {ij}
         /\ Fails(F[i][d + 1]) =>
              VisitedTo(F, lo, i + 1, 0) = VisitedTo(F, lo, i, d) \cup {ij}
<1>1. PICK n \in Nat : n = Len(F[i])
  BY PositionsIn
<1>2. ij = <<i, d + 1>> /\ ij[1] = i /\ ij[2] = d + 1
  OBVIOUS
<1>3. ij \in VisitedIn(F)
  <2>1. d + 1 \in 1..n /\ (d + 1) - 1 = d /\ d + 1 \in Nat
    BY <1>1
  <2> QED BY <1>1, <1>2, <2>1, PositionsIn DEF NoneFailed
<1>4. ij \notin VisitedTo(F, lo, i, d)
  BY <1>2 DEF VisitedTo
<1>5. ASSUME NEW x \in VisitedIn(F)
      PROVE  /\ x[1] \in 1..Len(F) /\ x[1] \in Int /\ x[2] \in Nat \ {0}
             /\ x[1] = i /\ x[2] = d + 1 => x = ij
             /\ x[1] = i => x[2] <= n
             /\ Fails(F[i][d + 1]) => (x[1] = i => x[2] <= d + 1)
  <2>1. /\ x[1] \in 1..Len(F) /\ x[2] \in 1..Len(F[x[1]]) /\ x = <<x[1], x[2]>>
        /\ \A k \in 1..(x[2] - 1) : ~Fails(F[x[1]][k])
    BY PositionsIn
  <2>2. Len(F[x[1]]) \in Nat /\ Len(F) \in Nat
    BY <2>1, PositionsIn DEF Batch
  <2>3. x[1] \in Int /\ x[2] \in Nat \ {0}
    BY <2>1, <2>2
  <2>4. Fails(F[i][d + 1]) /\ x[1] = i => x[2] <= d + 1
    <3> SUFFICES ASSUME x[1] = i, ~(x[2] <= d + 1) PROVE ~Fails(F[i][d + 1])
      OBVIOUS
    <3>1. d + 1 \in 1..(x[2] - 1)
      BY <2>3
    <3> QED BY <2>1, <3>1
  <2> QED BY <1>1, <1>2, <2>1, <2>2, <2>3, <2>4
<1>6. Len(F) \in Nat /\ i \in Int
  BY DEF Batch
<1>7. ASSUME NEW x \in VisitedIn(F)
      PROVE  x \in VisitedTo(F, lo, i, d + 1) <=> x \in VisitedTo(F, lo, i, d) \/ x = ij
  <2>1. PICK a \in Int, b \in Nat \ {0} : a = x[1] /\ b = x[2] /\ (a = i /\ b = d + 1 => x = ij)
    BY <1>5
  <2>2. lo < a /\ (a < i \/ (a = i /\ b <= d + 1))
          <=> (lo < a /\ (a < i \/ (a = i /\ b <= d))) \/ (a = i /\ b = d + 1)
    BY <1>6
  <2>3. x = ij => a = i /\ b = d + 1
    BY <1>2, <2>1
  <2>4. /\ x \in VisitedTo(F, lo, i, d + 1) <=> lo < a /\ (a < i \/ (a = i /\ b <= d + 1))
        /\ x \in VisitedTo(F, lo, i, d) <=> lo < a /\ (a < i \/ (a = i /\ b <= d))
    BY <2>1 DEF VisitedTo
  <2> QED BY <2>1, <2>2, <2>3, <2>4
<1>8. ASSUME Fails(F[i][d + 1]), NEW x \in VisitedIn(F)
      PROVE  x \in VisitedTo(F, lo, i + 1, 0) <=> x \in VisitedTo(F, lo, i, d) \/ x = ij
  <2>1. PICK a \in Int, b \in Nat \ {0} :
          /\ a = x[1] /\ b = x[2]
          /\ a = i /\ b = d + 1 => x = ij
          /\ a = i => b <= d + 1
    BY <1>5, <1>8
  <2>2. lo < a /\ (a < i + 1 \/ (a = i + 1 /\ b <= 0))
          <=> (lo < a /\ (a < i \/ (a = i /\ b <= d))) \/ (a = i /\ b = d + 1)
    BY <1>6, <2>1
  <2>3. x = ij => a = i /\ b = d + 1
    BY <1>2, <2>1
  <2>4. /\ x \in VisitedTo(F, lo, i + 1, 0) <=> lo < a /\ (a < i + 1 \/ (a = i + 1 /\ b <= 0))
        /\ x \in VisitedTo(F, lo, i, d) <=> lo < a /\ (a < i \/ (a = i /\ b <= d))
    BY <2>1 DEF VisitedTo
  <2> QED BY <2>1, <2>2, <2>3, <2>4
<1>9. /\ VisitedTo(F, lo, i, d + 1) \subseteq VisitedIn(F)
      /\ VisitedTo(F, lo, i, d) \subseteq VisitedIn(F)
      /\ VisitedTo(F, lo, i + 1, 0) \subseteq VisitedIn(F)
  BY DEF VisitedTo
<1> QED
  <2> HIDE DEF VisitedTo
  <2>1. VisitedTo(F, lo, i, d + 1) = VisitedTo(F, lo, i, d) \cup {ij}
    BY <1>3, <1>7, <1>9
  <2>2. Fails(F[i][d + 1]) => VisitedTo(F, lo, i + 1, 0) = VisitedTo(F, lo, i, d) \cup {ij}
    BY <1>3, <1>8, <1>9
  <2> QED BY <1>2, <1>3, <1>4, <2>1, <2>2

LEMMA VisitedWhole ==
  ASSUME NEW F \in Batch, NEW lo \in Nat, NEW i \in 1..Len(F), lo < i
  PROVE  VisitedTo(F, lo, i + 1, 0) = VisitedTo(F, lo, i, Len(F[i]))
<1>1. Len(F) \in Nat /\ i \in Int
  BY DEF Batch
<1>2. ASSUME NEW x \in VisitedIn(F)
      PROVE  x \in VisitedTo(F, lo, i + 1, 0) <=> x \in VisitedTo(F, lo, i, Len(F[i]))
  <2>1. x[1] \in 1..Len(F) /\ x[2] \in 1..Len(F[x[1]]) /\ Len(F[x[1]]) \in Nat
    BY PositionsIn
  <2>2. PICK a \in Int, b \in Nat \ {0} : a = x[1] /\ b = x[2] /\ (a = i => b <= Len(F[i]))
    BY <1>1, <2>1
  <2>3. lo < a /\ (a < i + 1 \/ (a = i + 1 /\ b <= 0))
          <=> lo < a /\ (a < i \/ (a = i /\ b <= Len(F[i])))
    BY <1>1, <2>2
  <2>4. /\ x \in VisitedTo(F, lo, i + 1, 0) <=> lo < a /\ (a < i + 1 \/ (a = i + 1 /\ b <= 0))
        /\ x \in VisitedTo(F, lo, i, Len(F[i])) <=>
             lo < a /\ (a < i \/ (a = i /\ b <= Len(F[i])))
    BY <2>2 DEF VisitedTo
  <2> QED BY <2>3, <2>4
<1> QED BY <1>2 DEF VisitedTo

(* The next call of a file.                                                *)
LEMMA AtCall ==
  ASSUME NEW F \in Batch, NEW lo, NEW hi, NEW files \in Batch,
         NEW i \in Int, NEW d \in Nat, IsAt(F, lo, hi, files, i, d),
         files # <<>>, files[1] # <<>>, NEW call, call = files[1][1],
         NEW ij, ij = <<i, d + 1>>
  PROVE  /\ lo \in Nat /\ lo < i /\ i \in 1..Len(F) /\ d < Len(F[i])
         /\ NoneFailed(F, i, d)
         /\ IsCall(F, ij, call)
<1>1. PICK l \in Nat \ {0} : l = Len(files) /\ DOMAIN files = 1..l
  BY EmptySeq, LenProperties DEF Batch
<1>2. Len(F) \in Nat
  BY DEF Batch
<1>3. lo \in Nat /\ hi \in 0..Len(F) /\ lo < i /\ i = hi - l + 1
  BY <1>1 DEF IsAt
<1>4. i \in 1..Len(F)
  BY <1>1, <1>2, <1>3
<1>5. files[1] \in Seq(Call)
  BY <1>1 DEF Batch
<1>6. PICK m \in Nat \ {0} : m = Len(files[1])
  BY <1>5, EmptySeq
<1>7. /\ Len(F[i]) = d + m
      /\ \A k \in 1..m : files[1][k] = F[i][d + k]
      /\ NoneFailed(F, i, d)
  BY <1>6 DEF IsAt
<1>8. IsCall(F, ij, call)
  BY <1>6, <1>7 DEF CallOf, IsCall
<1> QED BY <1>3, <1>4, <1>6, <1>7, <1>8

(* The call after it.                                                      *)
LEMMA AtNextCall ==
  ASSUME NEW F \in Batch, NEW lo, NEW hi, NEW files \in Batch,
         NEW i \in Int, NEW d \in Nat, IsAt(F, lo, hi, files, i, d),
         files # <<>>, files[1] # <<>>, ~Fails(files[1][1]),
         NEW next, next = [files EXCEPT ![1] = Tail(@)]
  PROVE  IsAt(F, lo, hi, next, i, d + 1)
<1>1. PICK l \in Nat \ {0} : l = Len(files) /\ DOMAIN files = 1..l
  BY EmptySeq, LenProperties DEF Batch
<1>2. Len(F) \in Nat
  BY DEF Batch
<1>3. /\ lo \in Nat /\ hi \in 0..Len(F) /\ lo < i /\ i = hi - l + 1
      /\ \A k \in 2..l : files[k] = F[hi - l + k]
  BY <1>1 DEF IsAt
<1>4. files[1] \in Seq(Call)
  BY <1>1 DEF Batch
<1>5. PICK m \in Nat \ {0} : m = Len(files[1])
  BY <1>4, EmptySeq
<1>6. /\ Len(F[i]) = d + m
      /\ \A k \in 1..m : files[1][k] = F[i][d + k]
      /\ NoneFailed(F, i, d)
  BY <1>5 DEF IsAt
<1>7. ~Fails(F[i][d + 1])
  BY <1>5, <1>6
<1>8. PICK tail : tail = Tail(files[1])
  OBVIOUS
<1>9. /\ tail \in Seq(Call) /\ Len(tail) = m - 1
      /\ \A k \in 1..m - 1 : tail[k] = files[1][k + 1]
  BY <1>4, <1>5, <1>8, HeadTailProperties
<1>10. next = [k \in 1..l |-> IF k = 1 THEN tail ELSE files[k]]
  BY <1>1, <1>8
<1>11. /\ next # <<>> /\ Len(next) = l /\ next[1] = tail
       /\ \A k \in 2..l : next[k] = files[k]
  <2>1. Len(next) = l
    BY <1>10
  <2>2. next # <<>>
    BY <2>1, EmptySeq
  <2> QED BY <1>10, <2>1, <2>2
<1>12. ASSUME NEW k \in 1..m - 1 PROVE tail[k] = F[i][(d + 1) + k]
  <2>1. PICK j \in 1..m : j = k + 1 /\ d + j = (d + 1) + k
    OBVIOUS
  <2>2. tail[k] = files[1][j]
    BY <1>9, <2>1
  <2>3. files[1][j] = F[i][(d + 1) + k]
    BY <1>6, <2>1
  <2> QED BY <2>2, <2>3
<1>13. NoneFailed(F, i, d + 1)
  <2>1. ASSUME NEW k \in 1..d + 1 PROVE ~Fails(F[i][k])
    <3>1. CASE k = d + 1
      BY <1>7, <3>1
    <3>2. CASE k # d + 1
      <4>1. k \in 1..d
        BY <3>2
      <4> QED BY <1>6, <4>1 DEF NoneFailed
    <3> QED BY <3>1, <3>2
  <2> QED BY <2>1 DEF NoneFailed
<1>14. Len(F[i]) = (d + 1) + Len(tail)
  BY <1>6, <1>9
<1> QED BY <1>3, <1>9, <1>11, <1>12, <1>13, <1>14, ZenonT(30) DEF IsAt

(* The next file.                                                          *)
LEMMA AtNextFile ==
  ASSUME NEW F \in Batch, NEW lo, NEW hi, NEW files \in Batch,
         NEW i \in Int, NEW d \in Nat, IsAt(F, lo, hi, files, i, d), files # <<>>
  PROVE  /\ lo \in Nat /\ lo < i /\ i \in 1..Len(F)
         /\ IsAt(F, lo, hi, Tail(files), i + 1, 0)
         /\ files[1] = <<>> => d = Len(F[i])
<1>1. PICK l \in Nat \ {0} : l = Len(files) /\ DOMAIN files = 1..l
  BY EmptySeq, LenProperties DEF Batch
<1>2. Len(F) \in Nat
  BY DEF Batch
<1>3. /\ lo \in Nat /\ hi \in 0..Len(F) /\ lo < i /\ i = hi - l + 1
      /\ \A k \in 2..l : files[k] = F[hi - l + k]
  BY <1>1 DEF IsAt
<1>4. i \in 1..Len(F)
  BY <1>1, <1>2, <1>3
<1>5. files[1] = <<>> => d = Len(F[i])
  BY EmptySeq DEF IsAt
<1>6. PICK rest : rest = Tail(files)
  OBVIOUS
<1>7. /\ rest \in Batch /\ Len(rest) = l - 1
      /\ \A k \in 1..l - 1 : rest[k] = files[k + 1]
  BY <1>1, <1>6, HeadTailProperties DEF Batch
<1>8. i + 1 = hi - Len(rest) + 1
  BY <1>3, <1>7
<1>9. ASSUME NEW k \in 1..l - 1 PROVE rest[k] = F[hi - Len(rest) + k]
  <2>1. k + 1 \in 2..l /\ hi - l + (k + 1) = hi - (l - 1) + k
    BY <1>3
  <2> QED BY <1>3, <1>7, <2>1
<1>10. rest # <<>> => /\ Len(F[i + 1]) = 0 + Len(rest[1])
                      /\ \A k \in 1..Len(rest[1]) : rest[1][k] = F[i + 1][0 + k]
  <2> HAVE rest # <<>>
  <2>1. 1 \in 1..l - 1
    BY <1>7, EmptySeq DEF Batch
  <2>2. rest[1] \in Seq(Call)
    BY <1>7, <2>1 DEF Batch
  <2>3. rest[1] = F[i + 1]
    BY <1>8, <1>9, <2>1
  <2> QED BY <2>2, <2>3
<1>11. IsAt(F, lo, hi, rest, i + 1, 0)
  <2>1. \A k \in 2..Len(rest) : rest[k] = F[hi - Len(rest) + k]
    BY <1>7, <1>9
  <2>2. lo < i + 1 /\ NoneFailed(F, i + 1, 0)
    BY <1>3 DEF NoneFailed
  <2> QED BY <1>3, <1>8, <1>10, <2>1, <2>2 DEF IsAt
<1> QED BY <1>3, <1>4, <1>5, <1>6, <1>11
-----------------------------------------------------------------------------
WorkerTells(F, lo, hi, worker) ==
  \E i \in Int, d \in Nat :
    /\ IsAt(F, lo, hi, worker.files, i, d)
    /\ Tells(F, worker.usages, VisitedTo(F, lo, i, d))

(* The first n batches have been merged, those that follow are with the    *)
(* workers, the rest waits; every store tells what has been visited.       *)
Divided(F, size, split, n) ==
  /\ n + Len(workers) + Len(batches) = Len(split)
  /\ \A b \in 1..Len(batches) : batches[b] = split[n + Len(workers) + b]
  /\ \A w \in DOMAIN workers :
       WorkerTells(F, Bound(F, size, n + w - 1), Bound(F, size, n + w), workers[w])
  /\ Tells(F, total, VisitedTo(F, 0, Bound(F, size, n) + 1, 0))

Tally ==
  \E n \in Nat :
    Divided(input.files, input.batchSize,
            SplitIntoBatches(input.files, input.batchSize), n)

(* Nothing of the files before the first is visited.                       *)
LEMMA NoneVisited ==
  ASSUME NEW F \in Batch, NEW lo \in Nat
  PROVE  VisitedTo(F, lo, lo + 1, 0) = {}
<1>1. ASSUME NEW x \in VisitedTo(F, lo, lo + 1, 0) PROVE FALSE
  <2>1. /\ x[1] \in 1..Len(F) /\ x[2] \in 1..Len(F[x[1]])
        /\ Len(F) \in Nat /\ Len(F[x[1]]) \in Nat
    BY PositionsIn DEF VisitedTo, Batch
  <2>2. PICK a \in Int, b \in Nat \ {0} : a = x[1] /\ b = x[2]
    BY <2>1
  <2> QED BY <2>2 DEF VisitedTo
<1> QED BY <1>1

(* All files together.                                                     *)
LEMMA AllVisited ==
  ASSUME NEW F \in Batch
  PROVE  VisitedTo(F, 0, Len(F) + 1, 0) = VisitedIn(F)
<1>1. ASSUME NEW x \in VisitedIn(F) PROVE x \in VisitedTo(F, 0, Len(F) + 1, 0)
  <2>1. x[1] \in 1..Len(F) /\ Len(F) \in Nat
    BY PositionsIn DEF Batch
  <2> QED BY <2>1 DEF VisitedTo
<1> QED BY <1>1 DEF VisitedTo

(* The files before a batch and those of the batch.                        *)
LEMMA VisitedNext ==
  ASSUME NEW F \in Batch, NEW lo \in Nat, NEW hi \in Nat, lo <= hi
  PROVE  /\ VisitedTo(F, 0, hi + 1, 0) =
              VisitedTo(F, 0, lo + 1, 0) \cup VisitedTo(F, lo, hi + 1, 0)
         /\ VisitedTo(F, 0, lo + 1, 0) \cap VisitedTo(F, lo, hi + 1, 0) = {}
<1>1. ASSUME NEW x \in VisitedIn(F)
      PROVE  /\ x \in VisitedTo(F, 0, lo + 1, 0) <=> x[1] <= lo
             /\ x \in VisitedTo(F, 0, hi + 1, 0) <=> x[1] <= hi
             /\ x \in VisitedTo(F, lo, hi + 1, 0) <=> lo < x[1] /\ x[1] <= hi
             /\ x[1] \in Int
  <2>1. /\ x[1] \in 1..Len(F) /\ x[2] \in 1..Len(F[x[1]])
        /\ Len(F) \in Nat /\ Len(F[x[1]]) \in Nat
    BY PositionsIn DEF Batch
  <2>2. PICK a \in Nat \ {0}, b \in Nat \ {0} : a = x[1] /\ b = x[2]
    BY <2>1
  <2> QED BY <2>2 DEF VisitedTo
<1>2. /\ VisitedTo(F, 0, hi + 1, 0) \subseteq VisitedIn(F)
      /\ VisitedTo(F, 0, lo + 1, 0) \subseteq VisitedIn(F)
      /\ VisitedTo(F, lo, hi + 1, 0) \subseteq VisitedIn(F)
  BY DEF VisitedTo
<1>3. ASSUME NEW x \in VisitedIn(F)
      PROVE  /\ x \in VisitedTo(F, 0, hi + 1, 0) <=>
                  x \in VisitedTo(F, 0, lo + 1, 0) \/ x \in VisitedTo(F, lo, hi + 1, 0)
             /\ ~(x \in VisitedTo(F, 0, lo + 1, 0) /\ x \in VisitedTo(F, lo, hi + 1, 0))
  <2>1. PICK a \in Int : a = x[1]
    BY <1>1
  <2> QED BY <1>1, <2>1
<1> QED BY <1>2, <1>3

(* What is asked for.                                                      *)
LEMMA InputFacts ==
  ASSUME IInv
  PROVE  \E F \in Batch, size \in Nat \ {0} :
           F = input.files /\ size = input.batchSize /\ Len(F) \in Nat
<1>1. input \in Inputs
  BY DEF IInv
<1>2. input.files \in Batch /\ input.batchSize \in Nat \ {0}
  BY <1>1, UsageInputs DEF Batch
<1>3. Len(input.files) \in Nat
  BY <1>2 DEF Batch
<1> QED BY <1>2, <1>3

(* Nothing is visited in the beginning.                                    *)
LEMMA InitTally == Init => Tally
<1> SUFFICES ASSUME Init PROVE Tally
  OBVIOUS
<1>0. PICK F \in Batch, size \in Nat \ {0} :
        F = input.files /\ size = input.batchSize /\ Len(F) \in Nat
  BY InitGood, InputFacts
<1>1. PICK split : split = SplitIntoBatches(F, size) /\ IsSplit(F, size, split)
  BY SplitFacts
<1>2. batches = split /\ workers = <<>> /\ total = EmptyStore
  BY <1>0, <1>1 DEF Init
<1>3. Bound(F, size, 0) = 0 /\ Len(split) \in Nat
  BY <1>1 DEF IsSplit
<1>4. Tells(F, total, VisitedTo(F, 0, Bound(F, size, 0) + 1, 0))
  <2>1. VisitedTo(F, 0, 0 + 1, 0) = {}
    BY NoneVisited
  <2> QED BY <1>2, <1>3, <2>1, NoneTold
<1>5. Len(workers) = 0 /\ DOMAIN workers = {}
  BY <1>2
<1>6. Divided(F, size, split, 0)
  BY <1>2, <1>3, <1>4, <1>5 DEF Divided
<1> QED BY <1>0, <1>1, <1>6 DEF Tally

(* New workers have visited nothing.                                       *)
LEMMA StartTally == ASSUME IInv, Tally, StartSlice PROVE Tally'
<1>0. PICK F \in Batch, size \in Nat \ {0} :
        F = input.files /\ size = input.batchSize /\ Len(F) \in Nat
  BY InputFacts
<1>1. PICK split : split = SplitIntoBatches(F, size) /\ IsSplit(F, size, split)
  BY SplitFacts
<1>2. PICK n \in Nat : Divided(F, size, split, n)
  BY <1>0, <1>1 DEF Tally
<1>3. PICK l \in Nat : l = Len(batches) /\ DOMAIN batches = 1..l
  BY DEF IInv
<1>4. PICK k \in 0..l : k = Minimum(input.processes, l)
  <2>1. input.processes \in Nat
    BY UsageInputs DEF IInv
  <2> QED BY <2>1, MinimumInRange
<1>5. Len(workers) = 0 /\ n + l = Len(split) /\ \A b \in 1..l : batches[b] = split[n + b]
  <2>1. Len(workers) = 0
    BY DEF StartSlice
  <2> QED BY <1>2, <1>3, <2>1 DEF Divided
<1>6. /\ Len(workers') = k /\ DOMAIN workers' = 1..k
      /\ \A w \in 1..k : workers'[w] = [files |-> split[n + w], usages |-> EmptyStore]
  <2>1. workers' = [w \in 1..k |-> [files |-> batches[w], usages |-> EmptyStore]]
    BY <1>3, <1>4 DEF StartSlice
  <2> QED BY <1>5, <2>1
<1>7. Len(batches') = l - k /\ \A b \in 1..l - k : batches'[b] = split[n + k + b]
  <2>1. batches' = SubSeq(batches, k + 1, l)
    BY <1>3, <1>4 DEF StartSlice
  <2>2. \A i \in k + 1..l : batches[i] \in Batch
    BY <1>3 DEF IInv
  <2>3. /\ Len(SubSeq(batches, k + 1, l)) = IF k + 1 <= l THEN l - (k + 1) + 1 ELSE 0
        /\ \A b \in 1..l - (k + 1) + 1 : SubSeq(batches, k + 1, l)[b] = batches[k + 1 + b - 1]
    <3>1. k + 1 \in Int /\ l \in Int
      OBVIOUS
    <3> QED BY <2>2, <3>1, SubSeqProperties
  <2>4. ASSUME NEW b \in 1..l - k PROVE batches'[b] = split[n + k + b]
    <3>1. b \in 1..l - (k + 1) + 1 /\ k + 1 + b - 1 = k + b /\ k + b \in 1..l
      OBVIOUS
    <3>2. n + (k + b) = n + k + b
      OBVIOUS
    <3> QED BY <1>5, <2>1, <2>3, <3>1, <3>2
  <2> QED BY <2>1, <2>3, <2>4
<1>8. ASSUME NEW w \in 1..k
      PROVE  WorkerTells(F, Bound(F, size, n + w - 1), Bound(F, size, n + w), workers'[w])
  <2>1. PICK b \in 1..Len(split) : b = n + w /\ b - 1 \in Nat /\ b \in Nat
    BY <1>5
  <2>2. PICK lo \in 0..Len(F), hi \in 0..Len(F) :
          lo = Bound(F, size, b - 1) /\ hi = Bound(F, size, b)
    BY <1>1, <2>1 DEF IsSplit
  <2>3. PICK files : files = split[b]
    OBVIOUS
  <2>4. /\ files \in Batch /\ Len(files) = hi - lo
        /\ \A j \in 1..Len(files) : files[j] = F[lo + j]
    BY <1>1, <2>2, <2>3 DEF IsSplit
  <2>5. Len(files) \in Nat /\ hi \in Int /\ lo \in Nat
    BY <1>0, <2>4 DEF Batch
  <2>6. IsAt(F, lo, hi, files, lo + 1, 0)
    <3>1. hi - Len(files) = lo
      BY <2>4, <2>5
    <3>2. \A j \in 2..Len(files) : files[j] = F[lo + j]
      BY <2>4
    <3>3. files # <<>> => /\ Len(F[lo + 1]) = 0 + Len(files[1])
                          /\ \A j \in 1..Len(files[1]) : files[1][j] = F[lo + 1][0 + j]
      <4> HAVE files # <<>>
      <4>1. 1 \in 1..Len(files)
        BY <2>5, EmptySeq DEF Batch
      <4>2. files[1] \in Seq(Call) /\ files[1] = F[lo + 1]
        BY <2>4, <2>5, <4>1 DEF Batch
      <4> QED BY <4>2
    <3> QED BY <2>5, <3>1, <3>2, <3>3 DEF IsAt, NoneFailed
  <2>7. VisitedTo(F, lo, lo + 1, 0) = {}
    BY <2>5, NoneVisited
  <2>8. WorkerTells(F, lo, hi, [files |-> files, usages |-> EmptyStore])
    BY <2>6, <2>7, NoneTold DEF WorkerTells
  <2> QED BY <1>6, <2>1, <2>2, <2>3, <2>8
<1>9. input' = input /\ total' = total
  BY DEF StartSlice
<1>10. Tells(F, total', VisitedTo(F, 0, Bound(F, size, n) + 1, 0))
  BY <1>2, <1>9 DEF Divided
<1>11. Divided(F, size, split, n)'
  <2>1. n + Len(workers') + Len(batches') = Len(split)
    BY <1>5, <1>6, <1>7
  <2> QED BY <1>6, <1>7, <1>8, <1>10, <2>1 DEF Divided
<1> QED BY <1>0, <1>1, <1>9, <1>11 DEF Tally

(* What a worker does concerns its own batch alone.                        *)
LEMMA WorkerTally ==
  ASSUME IInv, Tally, NEW w \in DOMAIN workers, NEW new,
         workers' = [workers EXCEPT ![w] = new], UNCHANGED <<input, batches, total>>,
         \A F \in Batch, lo \in Nat, hi \in Nat :
           F = input.files /\ WorkerTells(F, lo, hi, workers[w])
             => WorkerTells(F, lo, hi, new)
  PROVE  Tally'
<1>0. PICK F \in Batch, size \in Nat \ {0} :
        F = input.files /\ size = input.batchSize /\ Len(F) \in Nat
  BY InputFacts
<1>1. PICK split : split = SplitIntoBatches(F, size) /\ IsSplit(F, size, split)
  BY SplitFacts
<1>2. PICK n \in Nat : Divided(F, size, split, n)
  BY <1>0, <1>1 DEF Tally
<1>3. PICK l \in Nat : l = Len(workers) /\ DOMAIN workers = 1..l
  BY DEF IInv
<1>4. Len(workers') = l /\ DOMAIN workers' = 1..l
  BY <1>3 DEF IInv
<1>5. /\ input' = input /\ batches' = batches /\ total' = total
      /\ workers'[w] = new /\ \A v \in 1..l : v # w => workers'[v] = workers[v]
  BY <1>3
<1>6. ASSUME NEW v \in 1..l
      PROVE  WorkerTells(F, Bound(F, size, n + v - 1), Bound(F, size, n + v), workers'[v])
  <2>1. WorkerTells(F, Bound(F, size, n + v - 1), Bound(F, size, n + v), workers[v])
    BY <1>2, <1>3 DEF Divided
  <2>2. PICK lo \in Nat, hi \in Nat :
          lo = Bound(F, size, n + v - 1) /\ hi = Bound(F, size, n + v)
    <3>1. n + v - 1 \in Nat /\ n + v \in Nat
      OBVIOUS
    <3>2. Bound(F, size, n + v - 1) \in 0..Len(F) /\ Bound(F, size, n + v) \in 0..Len(F)
      BY <1>1, <3>1 DEF IsSplit
    <3> QED BY <1>0, <3>2
  <2>3. CASE v = w
    <3>1. WorkerTells(F, lo, hi, new)
      BY <1>0, <2>1, <2>2, <2>3
    <3> QED BY <1>5, <2>2, <2>3, <3>1
  <2>4. CASE v # w
    BY <1>5, <2>1, <2>4
  <2> QED BY <2>3, <2>4
<1>7. Tells(F, total', VisitedTo(F, 0, Bound(F, size, n) + 1, 0))
  BY <1>2, <1>5 DEF Divided
<1>8. /\ n + Len(workers') + Len(batches') = Len(split)
      /\ \A b \in 1..Len(batches') : batches'[b] = split[n + Len(workers') + b]
  BY <1>2, <1>3, <1>4, <1>5 DEF Divided
<1>9. Divided(F, size, split, n)'
  BY <1>4, <1>6, <1>7, <1>8 DEF Divided
<1> QED BY <1>0, <1>1, <1>5, <1>9 DEF Tally
-----------------------------------------------------------------------------
(* A call that does not fail moves its worker on by one.                   *)
LEMMA CallTally ==
  ASSUME IInv, Tally, NEW w \in DOMAIN workers, CountCall(w) PROVE Tally'
<1>1. PICK files \in Batch, counts \in GoodStore :
        files = Files(w) /\ counts = workers[w].usages
  BY WorkerParts
<1>2. PICK call : call = files[1][1]
  OBVIOUS
<1>3. /\ files # <<>> /\ files[1] # <<>> /\ ~Fails(call)
      /\ call = Head(Head(files))
  BY <1>1, <1>2 DEF CountCall
<1>4. PICK new : new = [files  |-> [files EXCEPT ![1] = Tail(@)],
                        usages |-> Counted(counts, call)]
  OBVIOUS
<1>5. workers' = [workers EXCEPT ![w] = new] /\ UNCHANGED <<input, batches, total>>
  BY <1>1, <1>3, <1>4 DEF CountCall
<1>6. ASSUME NEW F \in Batch, NEW lo \in Nat, NEW hi \in Nat,
             WorkerTells(F, lo, hi, workers[w])
      PROVE  WorkerTells(F, lo, hi, new)
  <2>1. PICK i \in Int, d \in Nat :
          /\ IsAt(F, lo, hi, files, i, d)
          /\ Tells(F, counts, VisitedTo(F, lo, i, d))
    BY <1>1, <1>6 DEF WorkerTells, Files
  <2>3. PICK ij : ij = <<i, d + 1>>
    OBVIOUS
  <2>0. /\ lo < i /\ i \in 1..Len(F) /\ d < Len(F[i])
        /\ NoneFailed(F, i, d) /\ call = F[i][d + 1]
    <3>1. files # <<>> /\ files[1] # <<>> /\ IsAt(F, lo, hi, files, i, d)
      BY <1>3, <2>1
    <3>2. lo < i
      BY <1>2, <2>3, <3>1, AtCall
    <3>3. i \in 1..Len(F)
      BY <1>2, <2>3, <3>1, AtCall
    <3>4. d < Len(F[i])
      BY <1>2, <2>3, <3>1, AtCall
    <3>5. NoneFailed(F, i, d)
      BY <1>2, <2>3, <3>1, AtCall
    <3>6. IsCall(F, ij, call)
      BY <1>2, <2>3, <3>1, AtCall
    <3> QED BY <2>3, <3>2, <3>3, <3>4, <3>5, <3>6 DEF IsCall, CallOf
  <2>2. /\ lo < i /\ i \in 1..Len(F) /\ d < Len(F[i])
        /\ call = F[i][d + 1]
    BY <2>0
  <2>4. /\ ij \notin VisitedTo(F, lo, i, d)
        /\ VisitedTo(F, lo, i, d + 1) = VisitedTo(F, lo, i, d) \cup {ij}
    BY <1>3, <2>0, <2>2, <2>3, VisitedOneMore
  <2>5. CallOf(F, ij) = call
    BY <2>2, <2>3 DEF CallOf
  <2>6. call \in Call /\ call # Broken
    <3>1. F[i] \in Seq(Call)
      BY <2>2 DEF Batch
    <3>2. d + 1 \in 1..Len(F[i])
      BY <2>2, <3>1
    <3> QED BY <1>3, <2>2, <3>1, <3>2 DEF Fails
  <2>7. IsFiniteSet(VisitedTo(F, lo, i, d))
    <3>1. VisitedTo(F, lo, i, d) \in SUBSET VisitedIn(F)
      BY DEF VisitedTo
    <3> QED BY <3>1, VisitedFinite, FS_Subset
  <2>8. Tells(F, Counted(counts, call), VisitedTo(F, lo, i, d + 1))
    <3>1. counts \in Store
      BY DEF GoodStore
    <3> QED BY <2>1, <2>4, <2>5, <2>6, <2>7, <3>1, OneMoreTold
  <2>9. IsAt(F, lo, hi, new.files, i, d + 1) /\ Tells(F, new.usages, VisitedTo(F, lo, i, d + 1))
    <3>1. ~Fails(files[1][1]) /\ new.files = [files EXCEPT ![1] = Tail(@)]
      BY <1>2, <1>3, <1>4
    <3> QED BY <1>3, <1>4, <2>1, <2>8, <3>1, AtNextCall
  <2>10. d + 1 \in Nat
    OBVIOUS
  <2> QED BY <2>9, <2>10 DEF WorkerTells
<1> QED BY <1>5, <1>6, WorkerTally

(* A call that fails moves its worker on to the next file.                 *)
LEMMA FailTally ==
  ASSUME IInv, Tally, NEW w \in DOMAIN workers, FailAtCall(w) PROVE Tally'
<1>1. PICK files \in Batch, counts \in GoodStore :
        files = Files(w) /\ counts = workers[w].usages
  BY WorkerParts
<1>2. PICK call : call = files[1][1]
  OBVIOUS
<1>3. /\ files # <<>> /\ files[1] # <<>> /\ Fails(call)
      /\ call = Head(Head(files))
  BY <1>1, <1>2 DEF FailAtCall
<1>4. PICK new : new = [files  |-> Tail(files),
                        usages |-> IF call = Broken THEN counts ELSE Counted(counts, call)]
  OBVIOUS
<1>5. workers' = [workers EXCEPT ![w] = new] /\ UNCHANGED <<input, batches, total>>
  BY <1>1, <1>3, <1>4 DEF FailAtCall
<1>6. ASSUME NEW F \in Batch, NEW lo \in Nat, NEW hi \in Nat,
             WorkerTells(F, lo, hi, workers[w])
      PROVE  WorkerTells(F, lo, hi, new)
  <2>1. PICK i \in Int, d \in Nat :
          /\ IsAt(F, lo, hi, files, i, d)
          /\ Tells(F, counts, VisitedTo(F, lo, i, d))
    BY <1>1, <1>6 DEF WorkerTells, Files
  <2>3. PICK ij : ij = <<i, d + 1>>
    OBVIOUS
  <2>0. /\ lo < i /\ i \in 1..Len(F) /\ d < Len(F[i])
        /\ NoneFailed(F, i, d) /\ call = F[i][d + 1]
    <3>1. files # <<>> /\ files[1] # <<>> /\ IsAt(F, lo, hi, files, i, d)
      BY <1>3, <2>1
    <3>2. lo < i
      BY <1>2, <2>3, <3>1, AtCall
    <3>3. i \in 1..Len(F)
      BY <1>2, <2>3, <3>1, AtCall
    <3>4. d < Len(F[i])
      BY <1>2, <2>3, <3>1, AtCall
    <3>5. NoneFailed(F, i, d)
      BY <1>2, <2>3, <3>1, AtCall
    <3>6. IsCall(F, ij, call)
      BY <1>2, <2>3, <3>1, AtCall
    <3> QED BY <2>3, <3>2, <3>3, <3>4, <3>5, <3>6 DEF IsCall, CallOf
  <2>2. lo < i /\ i \in 1..Len(F) /\ d < Len(F[i]) /\ call = F[i][d + 1]
    BY <2>0
  <2>4. /\ ij \notin VisitedTo(F, lo, i, d)
        /\ VisitedTo(F, lo, i + 1, 0) = VisitedTo(F, lo, i, d) \cup {ij}
    <3>1. Fails(F[i][d + 1])
      BY <1>3, <2>2
    <3>2. ij \notin VisitedTo(F, lo, i, d)
      BY <2>0, <2>3, VisitedOneMore
    <3>3. VisitedTo(F, lo, i + 1, 0) = VisitedTo(F, lo, i, d) \cup {ij}
      BY <2>0, <2>3, <3>1, VisitedOneMore
    <3> QED BY <3>2, <3>3
  <2>5. CallOf(F, ij) = call
    BY <2>2, <2>3 DEF CallOf
  <2>6. call \in Call
    <3>1. F[i] \in Seq(Call)
      BY <2>2 DEF Batch
    <3>2. d + 1 \in 1..Len(F[i])
      BY <2>2, <3>1
    <3> QED BY <2>2, <3>1, <3>2
  <2>7. IsFiniteSet(VisitedTo(F, lo, i, d))
    <3>1. VisitedTo(F, lo, i, d) \in SUBSET VisitedIn(F)
      BY DEF VisitedTo
    <3> QED BY <3>1, VisitedFinite, FS_Subset
  <2>8. Tells(F, new.usages, VisitedTo(F, lo, i + 1, 0))
    <3>1. counts \in Store
      BY DEF GoodStore
    <3>2. CASE call = Broken
      <4>1. Tells(F, counts, VisitedTo(F, lo, i, d) \cup {ij})
        BY <2>1, <2>5, <3>2, BrokenTold
      <4> QED BY <1>4, <2>4, <3>2, <4>1
    <3>3. CASE call # Broken
      <4>1. Tells(F, Counted(counts, call), VisitedTo(F, lo, i, d) \cup {ij})
        BY <2>1, <2>4, <2>5, <2>6, <2>7, <3>1, <3>3, OneMoreTold
      <4> QED BY <1>4, <2>4, <3>3, <4>1
    <3> QED BY <3>2, <3>3
  <2>9. IsAt(F, lo, hi, new.files, i + 1, 0)
    BY <1>3, <1>4, <2>1, AtNextFile
  <2>10. i + 1 \in Int /\ 0 \in Nat
    OBVIOUS
  <2> QED BY <2>8, <2>9, <2>10 DEF WorkerTells
<1> QED BY <1>5, <1>6, WorkerTally

(* So does the end of a file.                                              *)
LEMMA FinishTally ==
  ASSUME IInv, Tally, NEW w \in DOMAIN workers, FinishFile(w) PROVE Tally'
<1>1. PICK files \in Batch, counts \in GoodStore :
        files = Files(w) /\ counts = workers[w].usages
  BY WorkerParts
<1>2. files # <<>> /\ files[1] = <<>>
  BY <1>1 DEF FinishFile
<1>3. PICK new : new = [files |-> Tail(files), usages |-> counts]
  OBVIOUS
<1>4. workers' = [workers EXCEPT ![w] = new] /\ UNCHANGED <<input, batches, total>>
  BY <1>1, <1>3 DEF FinishFile
<1>5. ASSUME NEW F \in Batch, NEW lo \in Nat, NEW hi \in Nat,
             WorkerTells(F, lo, hi, workers[w])
      PROVE  WorkerTells(F, lo, hi, new)
  <2>1. PICK i \in Int, d \in Nat :
          /\ IsAt(F, lo, hi, files, i, d)
          /\ Tells(F, counts, VisitedTo(F, lo, i, d))
    BY <1>1, <1>5 DEF WorkerTells, Files
  <2>2. /\ lo < i /\ i \in 1..Len(F) /\ d = Len(F[i])
        /\ IsAt(F, lo, hi, Tail(files), i + 1, 0)
    BY <1>2, <2>1, AtNextFile
  <2>3. VisitedTo(F, lo, i + 1, 0) = VisitedTo(F, lo, i, d)
    BY <2>2, VisitedWhole
  <2>4. i + 1 \in Int /\ 0 \in Nat
    OBVIOUS
  <2> QED BY <1>3, <2>1, <2>2, <2>3, <2>4 DEF WorkerTells
<1> QED BY <1>4, <1>5, WorkerTally

(* The first of the workers is merged: n grows by one.                     *)
LEMMA MergeTally == ASSUME IInv, Tally, MergeBatch PROVE Tally'
<1>0. PICK F \in Batch, size \in Nat \ {0} :
        F = input.files /\ size = input.batchSize /\ Len(F) \in Nat
  BY InputFacts
<1>1. PICK split : split = SplitIntoBatches(F, size) /\ IsSplit(F, size, split)
  BY SplitFacts
<1>2. PICK n \in Nat : Divided(F, size, split, n)
  BY <1>0, <1>1 DEF Tally
<1>3. PICK l \in Nat \ {0} : l = Len(workers) /\ DOMAIN workers = 1..l
  BY EmptySeq, LenProperties DEF IInv, MergeBatch
<1>4. PICK lo \in Nat, hi \in Nat :
        lo = Bound(F, size, n) /\ hi = Bound(F, size, n + 1) /\ lo <= hi
  <2>1. Bound(F, size, n) \in 0..Len(F) /\ Bound(F, size, n + 1) \in 0..Len(F)
    <3>1. n + 1 \in Nat
      OBVIOUS
    <3> QED BY <1>1, <3>1 DEF IsSplit
  <2>2. Bound(F, size, n) <= Bound(F, size, n + 1)
    BY <1>1 DEF IsSplit
  <2> QED BY <1>0, <2>1, <2>2
<1>5. PICK counts : counts = workers[1].usages
  OBVIOUS
<1>6. Tells(F, counts, VisitedTo(F, lo, hi + 1, 0))
  <2>1. n + 1 - 1 = n /\ 1 \in DOMAIN workers
    BY <1>3
  <2>2. WorkerTells(F, lo, hi, workers[1])
    BY <1>2, <1>4, <2>1 DEF Divided
  <2>3. PICK i \in Int, d \in Nat :
          /\ IsAt(F, lo, hi, workers[1].files, i, d)
          /\ Tells(F, counts, VisitedTo(F, lo, i, d))
    BY <1>5, <2>2 DEF WorkerTells
  <2>4. workers[1].files = <<>>
    BY <2>1 DEF MergeBatch, Files
  <2>5. i = hi + 1 /\ d = 0
    <3>1. i = hi - Len(<<>>) + 1 /\ d = 0
      BY <2>3, <2>4 DEF IsAt
    <3>2. Len(<<>>) = 0
      BY EmptySeq
    <3> QED BY <3>1, <3>2
  <2> QED BY <2>3, <2>5
<1>7. Tells(F, Merged(total, counts), VisitedTo(F, 0, hi + 1, 0))
  <2>1. Tells(F, total, VisitedTo(F, 0, lo + 1, 0))
    BY <1>2, <1>4 DEF Divided
  <2>2. /\ VisitedTo(F, 0, lo + 1, 0) \in SUBSET VisitedIn(F)
        /\ VisitedTo(F, lo, hi + 1, 0) \in SUBSET VisitedIn(F)
    BY DEF VisitedTo
  <2>3. IsFiniteSet(VisitedTo(F, 0, lo + 1, 0)) /\ IsFiniteSet(VisitedTo(F, lo, hi + 1, 0))
    BY <2>2, VisitedFinite, FS_Subset
  <2>4. total \in Store /\ counts \in Store
    <3>1. 1 \in DOMAIN workers
      BY <1>3
    <3> QED BY <1>5, <3>1, WorkerParts DEF IInv, GoodStore
  <2>5. /\ VisitedTo(F, 0, hi + 1, 0) =
             VisitedTo(F, 0, lo + 1, 0) \cup VisitedTo(F, lo, hi + 1, 0)
        /\ VisitedTo(F, 0, lo + 1, 0) \cap VisitedTo(F, lo, hi + 1, 0) = {}
    BY <1>4, VisitedNext
  <2>6. Tells(F, Merged(total, counts),
              VisitedTo(F, 0, lo + 1, 0) \cup VisitedTo(F, lo, hi + 1, 0))
    BY <1>6, <2>1, <2>3, <2>4, <2>5, MergedTold
  <2> QED BY <2>5, <2>6
<1>8. total' = Merged(total, counts) /\ input' = input /\ batches' = batches
  BY <1>3, <1>5 DEF MergeBatch
<1>9. /\ Len(workers') = l - 1 /\ DOMAIN workers' = 1..l - 1
      /\ \A w \in 1..l - 1 : workers'[w] = workers[w + 1]
  <2>1. workers' = Tail(workers) /\ workers \in Seq(Worker) /\ workers # <<>>
    BY DEF MergeBatch, IInv
  <2>2. Tail(workers) \in Seq(Worker) /\ Len(Tail(workers)) = l - 1
        /\ \A w \in 1..l - 1 : Tail(workers)[w] = workers[w + 1]
    BY <1>3, <2>1, HeadTailProperties
  <2> QED BY <2>1, <2>2, LenProperties
<1>10. ASSUME NEW w \in 1..l - 1
       PROVE  WorkerTells(F, Bound(F, size, (n + 1) + w - 1), Bound(F, size, (n + 1) + w),
                          workers'[w])
  <2>1. w + 1 \in DOMAIN workers /\ n + (w + 1) - 1 = (n + 1) + w - 1 /\ n + (w + 1) = (n + 1) + w
    BY <1>3
  <2>2. WorkerTells(F, Bound(F, size, n + (w + 1) - 1), Bound(F, size, n + (w + 1)),
                    workers[w + 1])
    BY <1>2, <2>1 DEF Divided
  <2> QED BY <1>9, <2>1, <2>2
<1>11. /\ (n + 1) + Len(workers') + Len(batches') = Len(split)
       /\ \A b \in 1..Len(batches') : batches'[b] = split[(n + 1) + Len(workers') + b]
  <2>1. PICK m \in Nat : m = Len(batches)
    BY DEF IInv
  <2>2. n + l + m = Len(split) /\ \A b \in 1..m : batches[b] = split[n + l + b]
    BY <1>2, <1>3, <2>1 DEF Divided
  <2>3. (n + 1) + (l - 1) + m = n + l + m
    OBVIOUS
  <2>4. ASSUME NEW b \in 1..m PROVE batches[b] = split[(n + 1) + (l - 1) + b]
    <3>1. (n + 1) + (l - 1) + b = n + l + b
      OBVIOUS
    <3> QED BY <2>2, <3>1
  <2> QED BY <1>8, <1>9, <2>1, <2>2, <2>3, <2>4
<1>12. Tells(F, total', VisitedTo(F, 0, Bound(F, size, n + 1) + 1, 0))
  BY <1>4, <1>7, <1>8
<1>13. Divided(F, size, split, n + 1)'
  BY <1>9, <1>10, <1>11, <1>12 DEF Divided
<1> QED BY <1>0, <1>1, <1>8, <1>13 DEF Tally

(* Every step keeps the tally.                                             *)
LEMMA NextTally == IInv /\ Tally /\ [Next]_vars => Tally'
<1> SUFFICES ASSUME IInv, Tally, [Next]_vars PROVE Tally'
  OBVIOUS
<1>1. CASE StartSlice
  BY <1>1, StartTally
<1>2. CASE MergeBatch
  BY <1>2, MergeTally
<1>3. ASSUME NEW w \in DOMAIN workers, CountCall(w) \/ FailAtCall(w) \/ FinishFile(w)
      PROVE  Tally'
  BY <1>3, CallTally, FailTally, FinishTally
<1>4. CASE UNCHANGED vars
  BY <1>4 DEF vars, Tally, Divided
<1> QED BY <1>1, <1>2, <1>3, <1>4 DEF Next

(* In the end the total tells what has been visited.                       *)
LEMMA TotalTells ==
  ASSUME IInv, Tally, Finished
  PROVE  Tells(input.files, total, Visited)
<1>0. PICK F \in Batch, size \in Nat \ {0} :
        F = input.files /\ size = input.batchSize /\ Len(F) \in Nat
  BY InputFacts
<1>1. PICK split : split = SplitIntoBatches(F, size) /\ IsSplit(F, size, split)
  BY SplitFacts
<1>2. PICK n \in Nat : Divided(F, size, split, n)
  BY <1>0, <1>1 DEF Tally
<1>3. n = Len(split)
  <2>1. Len(workers) = 0 /\ Len(batches) = 0
    BY EmptySeq DEF Finished
  <2>2. n + Len(workers) + Len(batches) = Len(split)
    BY <1>2 DEF Divided
  <2> QED BY <2>1, <2>2
<1>4. Bound(F, size, n) = Len(F)
  BY <1>1, <1>3 DEF IsSplit
<1>5. Visited = VisitedIn(F)
  BY <1>0 DEF Visited, VisitedIn
<1>6. Tells(F, total, VisitedTo(F, 0, Len(F) + 1, 0))
  BY <1>2, <1>4 DEF Divided
<1> QED BY <1>0, <1>5, <1>6, AllVisited

(* However find_usages divides the files into batches and slices, whatever *)
(* fails on the way and in whatever order the processes get on, the merged *)
(* store (merge_other_into_self) counts each call visited exactly once:    *)
(* its class, its function, and every argument reached and understood.     *)
THEOREM CallsCountOnce == Spec => []BatchesMakeNoDifference
<1>1. IInv /\ Tally => BatchesMakeNoDifference
  <2> SUFFICES ASSUME IInv, Tally, Finished
               PROVE  BatchesMakeNoDifference
    BY DEF BatchesMakeNoDifference
  <2>1. Tells(input.files, total, Visited)
    BY TotalTells
  <2>2. \A c \in Class : Count(total.class, c) =
         VisitedCalls(LAMBDA call : ClassOf[call.function] = c)
    BY <2>1 DEF Tells, OfClass, UsesClass, CallOf, VisitedCalls
  <2>3. \A f \in Function : Count(total.function, f) =
         VisitedCalls(LAMBDA call : call.function = f)
    BY <2>1 DEF Tells, OfFunction, UsesFunction, CallOf, VisitedCalls
  <2>4. \A p \in Parameter : Count(total.parameter, p) =
         VisitedCalls(LAMBDA call : \E a \in Arguments(call, Reached(call)) : a[1] = p)
    BY <2>1 DEF Tells, OfParameter, SetsParameter, CallOf, VisitedCalls
  <2>5. \A k \in Parameter \X Value : Count(total.value, k) =
         VisitedCalls(LAMBDA call : k \in Arguments(call, Reached(call) \ Failing(call)))
    BY <2>1 DEF Tells, OfValue, SetsValue, CallOf, VisitedCalls
  <2> QED BY <2>2, <2>3, <2>4, <2>5 DEF BatchesMakeNoDifference
<1> QED BY InitGood, NextGood, InitTally, NextTally, <1>1, PTL DEF Spec
-----------------------------------------------------------------------------
(* What generate_annotations counts.                                       *)
Completed == WithDefaults(WithUnused(total))

(* The calls that set p, and those that set it to v.                       *)
Setting(p) == OfParameter(input.files, Visited, p)
SettingTo(p, v) == OfValue(input.files, Visited, <<p, v>>)

(* Completing the counts adds the calls that leave a parameter out.        *)
LEMMA CompletedCounts ==
  ASSUME IInv
  PROVE  /\ \A c \in Class : Count(Completed.class, c) = Count(total.class, c)
         /\ \A f \in Function : Count(Completed.function, f) = Count(total.function, f)
         /\ \A p \in ApiParameter, v \in Value :
              Count(Completed.value, <<p, v>>) =
                Count(total.value, <<p, v>>) +
                  (IF Default[p] = v
                     THEN Count(total.function, FunctionOf[p]) - Count(total.parameter, p)
                     ELSE 0)
<1> DEFINE s == WithUnused(total)
           filled == {p \in DOMAIN s.parameter : DefaultOf(p) # NoDefault}
           implicit == [k \in {<<p, Default[p]>> : p \in filled} |->
                          Count(s.function, FunctionOf[k[1]]) - Count(s.parameter, k[1])]
<1>1. \A c, S, k : Count(Known(c, S), k) = Count(c, k)
  BY DEF Count, Known
<1>2. total \in Store
  BY DEF IInv, GoodStore
<1>3. /\ s.class = Known(total.class, Class) /\ s.function = Known(total.function, ApiFunction)
      /\ s.parameter = Known(total.parameter, ApiParameter) /\ s.value = total.value
  BY DEF WithUnused
<1>4. Completed = [s EXCEPT !.value = PlusCounter(@, implicit)]
  BY DEF Completed, WithDefaults
<1>5. /\ Completed.class = s.class /\ Completed.function = s.function
      /\ Completed.value = PlusCounter(s.value, implicit)
  BY <1>4 DEF WithUnused
<1>6. ApiParameter \subseteq DOMAIN s.parameter
  BY <1>3 DEF Known
<1>7. ASSUME NEW p \in ApiParameter, NEW v \in Value
      PROVE  Count(implicit, <<p, v>>) =
               IF Default[p] = v
                 THEN Count(total.function, FunctionOf[p]) - Count(total.parameter, p)
                 ELSE 0
  <2> DEFINE D == {<<q, Default[q]>> : q \in filled}
  <2>1. v # NoDefault /\ DefaultOf(p) = Default[p]
    BY ApiInputs DEF DefaultOf
  <2>2. CASE Default[p] = v
    <3>1. p \in filled
      BY <1>6, <2>1, <2>2
    <3>2. <<p, v>> \in D
      BY <2>2, <3>1
    <3>3. implicit[<<p, v>>] =
            Count(s.function, FunctionOf[<<p, v>>[1]]) - Count(s.parameter, <<p, v>>[1])
      BY <3>2
    <3>4. implicit[<<p, v>>] = Count(s.function, FunctionOf[p]) - Count(s.parameter, p)
      BY <3>3
    <3>5. DOMAIN implicit = D
      OBVIOUS
    <3> HIDE DEF implicit, D, s
    <3> QED BY <1>1, <1>3, <2>2, <3>2, <3>4, <3>5 DEF Count
  <2>3. CASE Default[p] # v
    <3>1. <<p, v>> \notin D
      BY <2>3
    <3>5. DOMAIN implicit = D
      OBVIOUS
    <3> HIDE DEF implicit, D
    <3> QED BY <2>3, <3>1, <3>5 DEF Count
  <2> QED BY <2>2, <2>3
<1> HIDE DEF implicit, filled, s
<1>8. ASSUME NEW k \in Parameter \X Value
      PROVE  Count(PlusCounter(total.value, implicit), k) =
               Count(total.value, k) + Count(implicit, k)
  <2>1. Count(total.value, k) \in Nat
    <3>1. PICK D \in SUBSET (Parameter \X Value) : total.value \in [D -> Nat]
      BY <1>2 DEF Store, Counter
    <3> QED BY <3>1 DEF Count
  <2>2. CASE k \in DOMAIN total.value \cup DOMAIN implicit
    BY <2>2 DEF PlusCounter, Count
  <2>3. CASE k \notin DOMAIN total.value \cup DOMAIN implicit
    BY <2>3 DEF PlusCounter, Count
  <2> QED BY <2>2, <2>3
<1>9. ASSUME NEW p \in ApiParameter, NEW v \in Value
      PROVE  Count(Completed.value, <<p, v>>) =
                Count(total.value, <<p, v>>) +
                  (IF Default[p] = v
                     THEN Count(total.function, FunctionOf[p]) - Count(total.parameter, p)
                     ELSE 0)
  <2>1. <<p, v>> \in Parameter \X Value
    BY ApiInputs
  <2>2. Completed.value = PlusCounter(total.value, implicit)
    BY <1>3, <1>5
  <2> QED BY <1>7, <1>8, <2>1, <2>2
<1> QED BY <1>1, <1>3, <1>5, <1>9
-----------------------------------------------------------------------------
(* The value of a parameter in a call that does not fail.                  *)
LEMMA ValueGiven ==
  ASSUME NEW c \in Call, c # Broken, ~Fails(c), NEW p \in ApiParameter, NEW v
  PROVE  /\ c.function \in Function
         /\ SetsParameter(c, p) <=> \E a \in Range(c.arguments) : a[1] = p
         /\ SetsParameter(c, p) => c.function = FunctionOf[p]
         /\ v \in Value => (SetsValue(c, <<p, v>>) <=> <<p, v>> \in Range(c.arguments))
         /\ v \in Value /\ SetsValue(c, <<p, v>>) => SetsParameter(c, p)
         /\ SetsParameter(c, p) =>
              /\ ValueIn(c, p) \in Value
              /\ SetsValue(c, <<p, ValueIn(c, p)>>)
              /\ \A u \in Value : SetsValue(c, <<p, u>>) => u = ValueIn(c, p)
         /\ ~SetsParameter(c, p) => ValueIn(c, p) = Default[p]
<1>1. /\ c.function \in Function /\ c.arguments \in Seq(Parameter \X Value)
      /\ \A i, j \in DOMAIN c.arguments : c.arguments[i][1] = c.arguments[j][1] => i = j
      /\ \A i \in DOMAIN c.arguments : FunctionOf[c.arguments[i][1]] = c.function
  BY DEF Call
<1>2. PICK args : args = c.arguments
  OBVIOUS
<1>3. /\ \A i \in DOMAIN args : /\ args[i] \in Parameter \X Value
                                /\ FunctionOf[args[i][1]] = c.function
      /\ \A i, j \in DOMAIN args : args[i][1] = args[j][1] => i = j
  BY <1>1, <1>2
<1>4. /\ Failing(c) = {} /\ Reached(c) = DOMAIN args
  BY <1>2 DEF Fails, Failing, Reached
<1>5. Arguments(c, Reached(c)) = Range(args) /\ Arguments(c, Reached(c) \ Failing(c)) = Range(args)
  BY <1>2, <1>4 DEF Arguments, Range
<1>6. /\ SetsParameter(c, p) <=> \E a \in Range(args) : a[1] = p
      /\ \A k : SetsValue(c, k) <=> k \in Range(args)
  BY <1>5 DEF SetsParameter, SetsValue
<1>7. ASSUME NEW a \in Range(args), a[1] = p
      PROVE  /\ c.function = FunctionOf[p]
             /\ a = <<p, a[2]>> /\ a[2] \in Value
             /\ \A b \in Range(args) : b[1] = p => b = a
  BY <1>3, <1>7 DEF Range
<1>8. ASSUME SetsParameter(c, p)
      PROVE  /\ c.function = FunctionOf[p]
             /\ ValueIn(c, p) \in Value
             /\ <<p, ValueIn(c, p)>> \in Range(args)
             /\ \A u \in Value : <<p, u>> \in Range(args) => u = ValueIn(c, p)
  <2>1. \E a \in Range(args) : a[1] = p
    BY <1>6, <1>8
  <2>2. PICK a : a = CHOOSE x \in Range(args) : x[1] = p
    OBVIOUS
  <2>3. a \in Range(args) /\ a[1] = p
    BY <2>1, <2>2
  <2>4. ValueIn(c, p) = a[2]
    BY <1>2, <2>1, <2>2 DEF ValueIn
  <2>5. ASSUME NEW u \in Value, <<p, u>> \in Range(args) PROVE u = a[2]
    <3>1. <<p, u>> = a
      BY <1>7, <2>3, <2>5
    <3> QED BY <3>1
  <2>6. c.function = FunctionOf[p] /\ a = <<p, a[2]>> /\ a[2] \in Value
    BY <1>7, <2>3
  <2> QED BY <2>3, <2>4, <2>5, <2>6
<1>9. ASSUME ~SetsParameter(c, p) PROVE ValueIn(c, p) = Default[p]
  BY <1>2, <1>6, <1>9 DEF ValueIn, DefaultOf
<1>10. ASSUME v \in Value, SetsValue(c, <<p, v>>) PROVE SetsParameter(c, p)
  <2>1. <<p, v>> \in Range(args) /\ <<p, v>>[1] = p
    BY <1>6, <1>10
  <2> QED BY <1>6, <2>1
<1> QED BY <1>1, <1>2, <1>6, <1>8, <1>9, <1>10

(* The calls of a function that is never cut off.                          *)
LEMMA CallsGiven ==
  ASSUME IInv, NEW p \in ApiParameter, ~CutOff(FunctionOf[p]), NEW v \in Value
  PROVE  /\ IsFiniteSet(CallsOf(FunctionOf[p]))
         /\ CallsOf(FunctionOf[p]) = OfFunction(input.files, Visited, FunctionOf[p])
         /\ Setting(p) \subseteq CallsOf(FunctionOf[p])
         /\ SettingTo(p, v) \subseteq Setting(p)
         /\ CallsWith(p, v) =
              SettingTo(p, v) \cup
                (IF Default[p] = v THEN CallsOf(FunctionOf[p]) \ Setting(p) ELSE {})
<1>0. PICK F \in Batch, size \in Nat \ {0} :
        F = input.files /\ size = input.batchSize /\ Len(F) \in Nat
  BY InputFacts
<1>1. PICK f \in Function : f = FunctionOf[p]
  BY ApiInputs, UsageInputs
<1>2. Visited = VisitedIn(F)
  BY <1>0 DEF Visited, VisitedIn
<1>3. \A ij \in Visited : CallAt(ij) = CallOf(F, ij) /\ CallOf(F, ij) \in Call
  <2>1. ASSUME NEW ij \in Visited PROVE F[ij[1]][ij[2]] \in Call
    <3>1. ij[1] \in 1..Len(F) /\ ij[2] \in 1..Len(F[ij[1]])
      BY <1>2, PositionsIn
    <3>2. F[ij[1]] \in Seq(Call)
      BY <3>1 DEF Batch
    <3> QED BY <3>1, <3>2
  <2> QED BY <1>0, <2>1 DEF CallAt, CallOf
<1>4. Broken.function # f
  BY UsageInputs DEF Broken
<1>5. CallsOf(f) = {ij \in Visited : CallOf(F, ij).function = f}
  BY <1>0 DEF CallsOf, CallOf
<1>6. CallsOf(f) = OfFunction(F, Visited, f)
  BY <1>4, <1>5 DEF OfFunction, UsesFunction
<1>7. ASSUME NEW ij \in CallsOf(f)
      PROVE  /\ ij \in Visited /\ CallOf(F, ij) \in Call /\ CallOf(F, ij) # Broken
             /\ ~Fails(CallOf(F, ij))
  BY <1>1, <1>3, <1>4, <1>5 DEF CutOff
<1>8. IsFiniteSet(CallsOf(f))
  <2>1. CallsOf(f) \in SUBSET VisitedIn(F)
    BY <1>2, <1>5
  <2> QED BY <2>1, VisitedFinite, FS_Subset
<1>9. ASSUME NEW ij \in Setting(p) PROVE ij \in CallsOf(f)
  <2>1. PICK c \in Call : c = CallOf(F, ij)
    BY <1>0, <1>3 DEF Setting, OfParameter
  <2>2. ij \in Visited /\ c # Broken
    BY <1>0, <2>1 DEF Setting, OfParameter, SetsParameter
  <2>3. PICK i \in DOMAIN c.arguments : c.arguments[i][1] = p
    BY <1>0, <2>1 DEF Setting, OfParameter, SetsParameter, Arguments, Reached
  <2>4. c.function = f
    BY <1>1, <2>2, <2>3 DEF Call
  <2> QED BY <1>5, <2>1, <2>2, <2>4
<1>10. ASSUME NEW ij \in SettingTo(p, v) PROVE ij \in Setting(p)
  <2>1. ij \in Visited /\ SetsValue(CallOf(F, ij), <<p, v>>)
    BY <1>0 DEF SettingTo, OfValue
  <2>2. PICK c \in Call : c = CallOf(F, ij)
    BY <1>3, <2>1
  <2>3. PICK i \in Reached(c) : c.arguments[i] = <<p, v>>
    BY <2>1, <2>2 DEF SetsValue, Arguments
  <2>4. c # Broken
    BY <2>1, <2>2 DEF SetsValue
  <2>5. c.arguments[i] \in Arguments(c, Reached(c)) /\ c.arguments[i][1] = p
    BY <2>3 DEF Arguments
  <2>6. SetsParameter(c, p)
    BY <2>4, <2>5 DEF SetsParameter
  <2> QED BY <1>0, <2>1, <2>2, <2>6 DEF Setting, OfParameter
<1>11. ASSUME NEW ij \in CallsOf(f)
       PROVE  ij \in CallsWith(p, v) <=>
                \/ ij \in SettingTo(p, v)
                \/ Default[p] = v /\ ij \notin Setting(p)
  <2>1. PICK c \in Call : c = CallOf(F, ij) /\ c = CallAt(ij) /\ c # Broken /\ ~Fails(c)
    BY <1>3, <1>7
  <2>2. /\ ij \in Setting(p) <=> SetsParameter(c, p)
        /\ ij \in SettingTo(p, v) <=> SetsValue(c, <<p, v>>)
    BY <1>0, <1>7, <2>1 DEF Setting, SettingTo, OfParameter, OfValue
  <2>3. ij \in CallsWith(p, v) <=> ValueIn(c, p) = v
    BY <1>1, <2>1 DEF CallsWith
  <2>4. CASE SetsParameter(c, p)
    <3>1. ValueIn(c, p) \in Value /\ SetsValue(c, <<p, ValueIn(c, p)>>)
      BY <2>1, <2>4, ValueGiven
    <3>2. SetsValue(c, <<p, v>>) => v = ValueIn(c, p)
      BY <2>1, <2>4, ValueGiven
    <3> QED BY <2>2, <2>3, <2>4, <3>1, <3>2
  <2>5. CASE ~SetsParameter(c, p)
    <3>1. ValueIn(c, p) = Default[p]
      BY <2>1, <2>5, ValueGiven
    <3>2. ~SetsValue(c, <<p, v>>)
      BY <2>1, <2>5, ValueGiven
    <3> QED BY <2>2, <2>3, <2>5, <3>1, <3>2
  <2> QED BY <2>4, <2>5
<1>12. CallsWith(p, v) \subseteq CallsOf(f)
  BY <1>1 DEF CallsWith
<1>13. CallsWith(p, v) =
         SettingTo(p, v) \cup (IF Default[p] = v THEN CallsOf(f) \ Setting(p) ELSE {})
  BY <1>9, <1>10, <1>11, <1>12
<1> QED BY <1>0, <1>1, <1>6, <1>8, <1>9, <1>10, <1>13

(* What is counted for a value is how often it is given or left out.       *)
LEMMA TimesCalls ==
  ASSUME IInv, Tally, Finished, NEW p \in ApiParameter, NEW v \in Value,
         ~CutOff(FunctionOf[p])
  PROVE  Times(Completed, p, v) = Cardinality(CallsWith(p, v))
<1>1. PICK All : All = CallsOf(FunctionOf[p])
  OBVIOUS
<1>2. /\ IsFiniteSet(All) /\ Setting(p) \subseteq All /\ SettingTo(p, v) \subseteq Setting(p)
      /\ CallsWith(p, v) = SettingTo(p, v) \cup (IF Default[p] = v THEN All \ Setting(p) ELSE {})
  BY <1>1, CallsGiven
<1>3. /\ Count(total.function, FunctionOf[p]) = Cardinality(All)
      /\ Count(total.parameter, p) = Cardinality(Setting(p))
      /\ Count(total.value, <<p, v>>) = Cardinality(SettingTo(p, v))
  <2>1. Tells(input.files, total, Visited)
    BY TotalTells
  <2>2. FunctionOf[p] \in Function /\ p \in Parameter /\ <<p, v>> \in Parameter \X Value
    BY ApiInputs, UsageInputs
  <2>3. All = OfFunction(input.files, Visited, FunctionOf[p])
    BY <1>1, CallsGiven
  <2> QED BY <2>1, <2>2, <2>3 DEF Tells, Setting, SettingTo
<1>4. Times(Completed, p, v) =
        Cardinality(SettingTo(p, v)) +
          (IF Default[p] = v THEN Cardinality(All) - Cardinality(Setting(p)) ELSE 0)
  BY <1>3, CompletedCounts DEF Times
<1>5. PICK X, Y, Z : X = Setting(p) /\ Y = SettingTo(p, v) /\ Z = All \ X
  OBVIOUS
<1>6. /\ IsFiniteSet(X) /\ IsFiniteSet(Y) /\ IsFiniteSet(Z)
      /\ Cardinality(Y) \in Nat /\ Cardinality(Z) \in Nat
  BY <1>2, <1>5, FS_Subset, FS_Difference, FS_CardinalityType
<1>7. Cardinality(Z) = Cardinality(All) - Cardinality(X)
  <2>1. All \cap X = X
    BY <1>2, <1>5
  <2>2. Cardinality(All \ X) = Cardinality(All) - Cardinality(All \cap X)
    BY <1>2, FS_Difference
  <2> QED BY <1>5, <2>1, <2>2
<1>8. Cardinality(Y \cup Z) = Cardinality(Y) + Cardinality(Z)
  <2>1. PICK W : W = Y \cap Z
    OBVIOUS
  <2>2. W = {}
    BY <1>2, <1>5, <2>1
  <2>3. Cardinality(W) = 0
    BY <2>2, FS_EmptySet
  <2>4. Cardinality(Y \cup Z) = Cardinality(Y) + Cardinality(Z) - Cardinality(W)
    BY <1>6, <2>1, FS_Union
  <2> QED BY <1>6, <2>3, <2>4
<1>9. CASE Default[p] = v
  <2>1. CallsWith(p, v) = Y \cup Z
    BY <1>2, <1>5, <1>9
  <2> QED BY <1>4, <1>5, <1>7, <1>8, <1>9, <2>1
<1>10. CASE Default[p] # v
  <2>1. CallsWith(p, v) = Y
    BY <1>2, <1>5, <1>10
  <2> QED BY <1>4, <1>5, <1>6, <1>10, <2>1
<1> QED BY <1>9, <1>10
-----------------------------------------------------------------------------
(* A call gives a value to a parameter, or nobody does.                    *)
LEMMA ValuesOfCalls ==
  ASSUME IInv, NEW p \in ApiParameter, ~CutOff(FunctionOf[p])
  PROVE  /\ \A ij \in CallsOf(FunctionOf[p]) : ValueIn(CallAt(ij), p) \in Value \cup {NoDefault}
         /\ CallsGiving(p) =
              {ij \in CallsOf(FunctionOf[p]) : ValueIn(CallAt(ij), p) \in Value}
<1>0. PICK F \in Batch, size \in Nat \ {0} :
        F = input.files /\ size = input.batchSize /\ Len(F) \in Nat
  BY InputFacts
<1>1. PICK f \in Function : f = FunctionOf[p]
  BY ApiInputs, UsageInputs
<1>2. ASSUME NEW ij \in CallsOf(f)
      PROVE  ValueIn(CallAt(ij), p) \in Value \cup {NoDefault}
  <2>1. PICK c : c = CallAt(ij)
    OBVIOUS
  <2>2. c \in Call
    <3>1. Visited = VisitedIn(F)
      BY <1>0 DEF Visited, VisitedIn
    <3>2. ij[1] \in 1..Len(F) /\ ij[2] \in 1..Len(F[ij[1]])
      BY <3>1, PositionsIn DEF CallsOf
    <3>3. F[ij[1]] \in Seq(Call)
      BY <3>2 DEF Batch
    <3> QED BY <1>0, <2>1, <3>2, <3>3 DEF CallAt
  <2>3. c.function = f /\ ~Fails(c)
    BY <1>1, <2>1 DEF CallsOf, CallAt, CutOff
  <2>4. c # Broken
    BY <2>3, UsageInputs DEF Broken
  <2>5. SetsParameter(c, p) => ValueIn(c, p) \in Value
    BY <2>2, <2>3, <2>4, ValueGiven
  <2>6. ~SetsParameter(c, p) => ValueIn(c, p) = Default[p]
    BY <2>2, <2>3, <2>4, ValueGiven
  <2> QED BY <2>1, <2>5, <2>6, ApiInputs
<1> QED BY <1>1, <1>2, ApiInputs DEF CallsGiving, CallsWith

(* The values that the counts say are used are those that calls give.      *)
LEMMA UsedByCalls ==
  ASSUME IInv, Tally, Finished, NEW p \in ApiParameter, ~CutOff(FunctionOf[p])
  PROVE  /\ UsedValues(Completed, p) = {v \in Value : CallsWith(p, v) # {}}
         /\ UsedValues(Completed, p) = {} <=> CallsGiving(p) = {}
         /\ IsFiniteSet(UsedValues(Completed, p))
         /\ \E n \in Nat : \A v \in Value : Times(Completed, p, v) \in 0..n
<1>1. PICK All : All = CallsOf(FunctionOf[p]) /\ IsFiniteSet(All)
  <2>1. CASE Value = {}
    <3>1. CallsOf(FunctionOf[p]) \in SUBSET Visited
      BY DEF CallsOf
    <3>2. IsFiniteSet(Visited)
      <4>1. PICK F \in Batch, size \in Nat \ {0} :
              F = input.files /\ size = input.batchSize /\ Len(F) \in Nat
        BY InputFacts
      <4>2. Visited = VisitedIn(F)
        BY <4>1 DEF Visited, VisitedIn
      <4> QED BY <4>2, VisitedFinite
    <3> QED BY <3>1, <3>2, FS_Subset
  <2>2. CASE Value # {}
    BY <2>2, CallsGiven
  <2> QED BY <2>1, <2>2
<1>2. PICK n \in Nat : n = Cardinality(All)
  BY <1>1, FS_CardinalityType
<1>3. ASSUME NEW v \in Value
      PROVE  /\ Times(Completed, p, v) \in 0..n
             /\ Times(Completed, p, v) > 0 <=> CallsWith(p, v) # {}
  <2>1. PICK X : X = CallsWith(p, v)
    OBVIOUS
  <2>2. Times(Completed, p, v) = Cardinality(X)
    BY <2>1, TimesCalls
  <2>3. X \in SUBSET All
    BY <1>1, <2>1 DEF CallsWith
  <2>4. IsFiniteSet(X) /\ Cardinality(X) <= n
    BY <1>1, <1>2, <2>3, FS_Subset
  <2>5. Cardinality(X) \in Nat /\ (Cardinality(X) = 0 <=> X = {})
    BY <2>4, FS_CardinalityType, FS_EmptySet
  <2> QED BY <2>1, <2>2, <2>4, <2>5
<1>4. UsedValues(Completed, p) = {v \in Value : CallsWith(p, v) # {}}
  BY <1>3 DEF UsedValues
<1>5. PICK G : G = CallsGiving(p)
  OBVIOUS
<1>6. /\ G = {ij \in All : ValueIn(CallAt(ij), p) \in Value} /\ G \in SUBSET All
      /\ \A v \in Value : CallsWith(p, v) = {ij \in G : ValueIn(CallAt(ij), p) = v}
  <2>1. G = {ij \in All : ValueIn(CallAt(ij), p) \in Value}
    BY <1>1, <1>5, ValuesOfCalls
  <2> QED BY <1>1, <2>1 DEF CallsWith
<1>7. IsFiniteSet(G)
  BY <1>1, <1>6, FS_Subset
<1>8. IsFiniteSet(UsedValues(Completed, p))
  <2>1. PICK U : U = UsedValues(Completed, p)
    OBVIOUS
  <2> DEFINE g == [ij \in G |-> ValueIn(CallAt(ij), p)]
  <2>2. g \in [G -> U]
    BY <1>4, <1>6, <2>1
  <2>3. \A v \in U : \E ij \in G : g[ij] = v
    BY <1>4, <1>6, <2>1
  <2> HIDE DEF g
  <2>4. g \in Surjection(G, U)
    BY <2>2, <2>3 DEF Surjection
  <2> QED BY <1>7, <2>1, <2>4, FS_Surjection
<1>9. UsedValues(Completed, p) = {} <=> G = {}
  BY <1>4, <1>6
<1> QED BY <1>3, <1>4, <1>5, <1>8, <1>9

(* There is a most common value.                                           *)
LEMMA MostCommonIs ==
  ASSUME NEW s, NEW p, NEW V, V # {}, NEW n \in Nat, \A v \in V : Times(s, p, v) \in 0..n
  PROVE  /\ MostCommon(s, p, V) \in V
         /\ \A u \in V : Times(s, p, MostCommon(s, p, V)) >= Times(s, p, u)
<1> DEFINE R == OpToRel(<, Nat)
           T == {n - Times(s, p, v) : v \in V}
<1>1. IsWellFoundedOn(R, Nat)
  BY NatLessThanWellFounded
<1>2. T \subseteq Nat /\ T # {}
  OBVIOUS
<1>3. PICK x \in T : \A y \in T : ~(<<y, x>> \in R)
  BY <1>1, <1>2, WFMin
<1>4. PICK v \in V : x = n - Times(s, p, v)
  OBVIOUS
<1>5. ASSUME NEW u \in V PROVE Times(s, p, v) >= Times(s, p, u)
  <2>1. PICK y \in T : y = n - Times(s, p, u)
    OBVIOUS
  <2>2. x \in Nat /\ y \in Nat /\ ~(y < x)
    BY <1>2, <1>3 DEF OpToRel
  <2>3. PICK a \in 0..n, b \in 0..n : a = Times(s, p, v) /\ b = Times(s, p, u)
    OBVIOUS
  <2> QED BY <1>4, <2>1, <2>2, <2>3
<1> QED BY <1>5 DEF MostCommon
-----------------------------------------------------------------------------
(* The value annotation of a parameter that is used.                       *)
ValueAnnotationOf(s, p) ==
  IF Cardinality(UsedValues(s, p)) = 1
    THEN ConstantValue(p, CHOOSE v \in UsedValues(s, p) : TRUE)
    ELSE ValueByFrequency(s, p)

(* Each parameter that is used has one value annotation.                   *)
LEMMA ValueAnnotationsAre ==
  ASSUME NEW s
  PROVE  /\ ValueAnnotations(s) =
              {ValueAnnotationOf(s, p) :
                 p \in {q \in ApiParameter \ Variadic : UsedValues(s, q) # {}}}
         /\ \A p : ValueAnnotationOf(s, p).target = p /\ ValueAnnotationOf(s, p).kind \in ValueKinds
<1>1. ASSUME NEW p, NEW v
      PROVE  ConstantValue(p, v).target = p /\ ConstantValue(p, v).kind \in ValueKinds
  BY DEF ConstantValue, Annotation, ValueKinds
<1>2. ASSUME NEW p
      PROVE  ValueByFrequency(s, p).target = p /\ ValueByFrequency(s, p).kind \in ValueKinds
  BY DEF ValueByFrequency, Annotation, ValueKinds
<1>3. ASSUME NEW p
      PROVE  ValueAnnotationOf(s, p).target = p /\ ValueAnnotationOf(s, p).kind \in ValueKinds
  BY <1>1, <1>2 DEF ValueAnnotationOf
<1>4. ValueAnnotations(s) =
        {ValueAnnotationOf(s, p) : p \in {q \in ApiParameter \ Variadic : UsedValues(s, q) # {}}}
  BY DEF ValueAnnotations, ValueAnnotationOf
<1> QED BY <1>3, <1>4

(* One value in all calls.                                                 *)
LEMMA ConstantTrue ==
  ASSUME IInv, Tally, Finished, NEW p \in ApiParameter, ~CutOff(FunctionOf[p]),
         NEW v \in Value, UsedValues(Completed, p) = {v}
  PROVE  True(ConstantValue(p, v))
<1>1. PICK G : G = CallsGiving(p)
  OBVIOUS
<1>2. /\ G # {}
      /\ \A u \in Value : CallsWith(p, u) # {} <=> u = v
  BY <1>1, UsedByCalls
<1>3. /\ G = {ij \in CallsOf(FunctionOf[p]) : ValueIn(CallAt(ij), p) \in Value}
      /\ \A u : CallsWith(p, u) = {ij \in CallsOf(FunctionOf[p]) : ValueIn(CallAt(ij), p) = u}
  BY <1>1, ValuesOfCalls DEF CallsWith
<1>4. \A ij \in G : ValueIn(CallAt(ij), p) = v
  BY <1>2, <1>3
<1>5. G = CallsWith(p, v)
  BY <1>3, <1>4
<1>6. PICK a : a = ConstantValue(p, v)
  OBVIOUS
<1>7. CASE v = Default[p] \/ v \in Literal
  <2>1. a.target = p /\ a.value = v /\ a.kind \in {"omitted", "constant"} /\ a.kind # "remove"
    BY <1>6, <1>7 DEF ConstantValue, Annotation
  <2> QED BY <1>1, <1>2, <1>5, <1>6, <2>1 DEF True
<1>8. CASE v # Default[p] /\ v \notin Literal
  <2>1. a.target = p /\ a.kind = "required"
    BY <1>6, <1>8 DEF ConstantValue, Annotation
  <2>2. ASSUME NEW u \in Literal \cup {Default[p]}, G = CallsWith(p, u) PROVE FALSE
    BY <1>2, <1>3, <1>4, <1>8, <2>2
  <2> QED BY <1>1, <1>6, <2>1, <2>2 DEF True
<1> QED BY <1>7, <1>8

(* Several values.                                                         *)
LEMMA FrequencyTrue ==
  ASSUME IInv, Tally, Finished, NEW p \in ApiParameter, ~CutOff(FunctionOf[p]),
         UsedValues(Completed, p) # {}, Cardinality(UsedValues(Completed, p)) # 1
  PROVE  True(ValueByFrequency(Completed, p))
<1>1. PICK s, V : s = Completed /\ V = UsedValues(Completed, p)
  OBVIOUS
<1>2. PICK n \in Nat : \A v \in Value : Times(s, p, v) \in 0..n
  BY <1>1, UsedByCalls
<1>3. /\ V # {} /\ IsFiniteSet(V) /\ V \subseteq Value
      /\ \A v \in Value : v \in V <=> CallsWith(p, v) # {}
      /\ \A v \in Value : v \in V <=> Times(s, p, v) > 0
  BY <1>1, UsedByCalls DEF UsedValues
<1>4. PICK first : first = MostCommon(s, p, V)
  OBVIOUS
<1>5. first \in V /\ \A u \in V : Times(s, p, first) >= Times(s, p, u)
  BY <1>2, <1>3, <1>4, MostCommonIs
<1>6. PICK W : W = V \ {first}
  OBVIOUS
<1>7. W # {}
  <2>1. SUFFICES ASSUME W = {} PROVE FALSE
    OBVIOUS
  <2>2. V = {first}
    BY <1>5, <1>6, <2>1
  <2> QED BY <1>1, <2>2, FS_Singleton
<1>8. PICK second : second = MostCommon(s, p, W)
  OBVIOUS
<1>9. second \in W /\ \A u \in W : Times(s, p, second) >= Times(s, p, u)
  <2>1. \A v \in W : Times(s, p, v) \in 0..n
    BY <1>2, <1>3, <1>6
  <2> QED BY <1>7, <1>8, <2>1, MostCommonIs
<1>10. PICK a : a = ValueByFrequency(s, p)
  OBVIOUS
<1>11. \/ /\ a = Annotation("optional", p, first)
          /\ Times(s, p, first) # Times(s, p, second)
       \/ a = Annotation("required", p, NoDefault)
  BY <1>1, <1>4, <1>6, <1>8, <1>10 DEF ValueByFrequency
<1>12. CASE a = Annotation("required", p, NoDefault)
  <2>1. a.target = p /\ a.kind = "required"
    BY <1>12 DEF Annotation
  <2>2. ASSUME NEW u, CallsGiving(p) = CallsWith(p, u) PROVE FALSE
    <3>1. PICK i \in CallsWith(p, first), j \in CallsWith(p, second) : TRUE
      BY <1>3, <1>5, <1>6, <1>9
    <3>2. i \in CallsGiving(p) /\ j \in CallsGiving(p)
      BY <1>3, <1>5, <1>6, <1>9, <3>1, ValuesOfCalls DEF CallsWith
    <3> QED BY <1>6, <1>9, <2>2, <3>1, <3>2 DEF CallsWith
  <2> QED BY <1>1, <1>10, <2>1, <2>2 DEF True
<1>13. CASE a = Annotation("optional", p, first) /\ Times(s, p, first) # Times(s, p, second)
  <2>1. a.target = p /\ a.kind = "optional" /\ a.value = first
    BY <1>13 DEF Annotation
  <2>2. ASSUME NEW v \in Value \ {first} PROVE Times(s, p, v) < Times(s, p, first)
    <3>1. PICK x \in Nat, y \in Nat, z \in Nat :
            x = Times(s, p, first) /\ y = Times(s, p, second) /\ z = Times(s, p, v)
      BY <1>2, <1>3, <1>5, <1>6, <1>9
    <3>2. x > y
      BY <1>5, <1>6, <1>9, <1>13, <3>1
    <3>3. CASE v \in V
      BY <1>6, <1>9, <3>1, <3>2, <3>3
    <3>4. CASE v \notin V
      BY <1>3, <1>5, <3>1, <3>4
    <3> QED BY <3>3, <3>4
  <2>3. \A v \in Value : Times(s, p, v) = Cardinality(CallsWith(p, v))
    BY <1>1, TimesCalls
  <2>4. first \in Value
    BY <1>3, <1>5
  <2>5. \A v \in Value \ {a.value} :
          Cardinality(CallsWith(p, v)) < Cardinality(CallsWith(p, a.value))
    BY <2>1, <2>2, <2>3, <2>4
  <2> QED BY <1>1, <1>10, <2>1, <2>5 DEF True
<1> QED BY <1>11, <1>12, <1>13

(* One value or several.                                                   *)
LEMMA ValueAnnotationTrue ==
  ASSUME IInv, Tally, Finished, NEW p \in ApiParameter, ~CutOff(FunctionOf[p]),
         UsedValues(Completed, p) # {}
  PROVE  True(ValueAnnotationOf(Completed, p))
<1>1. PICK V : V = UsedValues(Completed, p)
  OBVIOUS
<1>2. CASE Cardinality(V) = 1
  <2>1. IsFiniteSet(V) /\ V \subseteq Value
    BY <1>1, UsedByCalls
  <2>2. PICK v : V = {v}
    BY <1>2, <2>1, FS_Singleton
  <2>3. v \in Value /\ (CHOOSE x \in V : TRUE) = v
    BY <2>1, <2>2
  <2>4. ValueAnnotationOf(Completed, p) = ConstantValue(p, v)
    BY <1>1, <1>2, <2>3 DEF ValueAnnotationOf
  <2> QED BY <1>1, <2>2, <2>3, <2>4, ConstantTrue
<1>3. CASE Cardinality(V) # 1
  BY <1>1, <1>3, FrequencyTrue DEF ValueAnnotationOf
<1> QED BY <1>2, <1>3
-----------------------------------------------------------------------------
StepName == {"read", "unused", "implicit", "remove", "value", "enum", "boundary"}

Removed == RemoveAnnotations(Completed)
Valued == ValueAnnotations(Completed)
MadeConstant == {a.target : a \in {b \in Valued : b.kind = "constant"}}
Typed(kind, P) == {Annotation(kind, p, NoDefault) : p \in P \ MadeConstant}

(* How far generate_annotations has got, and with what.                    *)
Progress ==
  /\ done \in Seq(StepName) /\ Len(done) \in 0..7
  /\ Len(done) > 0 => Finished
  /\ Len(done) = 1 => usages = total
  /\ Len(done) = 2 => usages = WithUnused(total)
  /\ Len(done) >= 3 => usages = Completed
  /\ Len(done) <= 3 => annotations = {}
  /\ Len(done) = 4 => annotations = Removed
  /\ Len(done) = 5 => annotations = Removed \cup Valued
  /\ Len(done) = 6 => annotations = Removed \cup Valued \cup Typed("enum", EnumTyped)
  /\ Len(done) = 7 => annotations = Removed \cup Valued \cup Typed("enum", EnumTyped)
                                      \cup Typed("boundary", Bounded)

(* Only the value generator makes constants.                               *)
LEMMA ConstantsAre ==
  ASSUME NEW E, \A a \in E : a.kind = "enum", annotations = Removed \cup Valued \cup E
  PROVE  Constants = MadeConstant
<1>1. \A a \in Removed : a.kind = "remove"
  BY DEF Removed, RemoveAnnotations, Annotation
<1>2. {a \in annotations : a.kind = "constant"} = {a \in Valued : a.kind = "constant"}
  BY <1>1
<1> QED BY <1>2 DEF Constants, MadeConstant

(* A step of generate_annotations is one more.                             *)
LEMMA StepCounts ==
  ASSUME NEW name \in StepName, NEW before \in Seq(StepName), NEW n \in Nat, Len(before) = n,
         Step(name, before)
  PROVE  /\ Len(done) = n /\ done' \in Seq(StepName) /\ Len(done') = n + 1
         /\ UNCHANGED vars
<1>1. done = before /\ done' = Append(before, name) /\ UNCHANGED vars
  BY DEF Step
<1>2. Append(before, name) \in Seq(StepName) /\ Len(Append(before, name)) = n + 1
  BY AppendProperties
<1> QED BY <1>1, <1>2

(* The steps before a step.                                                *)
LEMMA StepsBefore ==
  /\ <<>> \in Seq(StepName) /\ Len(<<>>) = 0
  /\ <<"read">> \in Seq(StepName) /\ Len(<<"read">>) = 1
  /\ <<"read", "unused">> \in Seq(StepName) /\ Len(<<"read", "unused">>) = 2
  /\ Preprocessed \in Seq(StepName) /\ Len(Preprocessed) = 3
  /\ Preprocessed \o <<"remove">> \in Seq(StepName) /\ Len(Preprocessed \o <<"remove">>) = 4
  /\ /\ Preprocessed \o <<"remove", "value">> \in Seq(StepName)
     /\ Len(Preprocessed \o <<"remove", "value">>) = 5
  /\ /\ Preprocessed \o <<"remove", "value", "enum">> \in Seq(StepName)
     /\ Len(Preprocessed \o <<"remove", "value", "enum">>) = 6
<1>1. PICK r, u, i, m, v, e :
        /\ r = "read" /\ u = "unused" /\ i = "implicit"
        /\ m = "remove" /\ v = "value" /\ e = "enum"
  OBVIOUS
<1>2. {r, u, i, m, v, e} \subseteq StepName
  BY <1>1 DEF StepName
<1>3. /\ <<r>> \in Seq(StepName) /\ Len(<<r>>) = 1
      /\ <<r, u>> \in Seq(StepName) /\ Len(<<r, u>>) = 2
      /\ <<r, u, i>> \in Seq(StepName) /\ Len(<<r, u, i>>) = 3
  BY <1>2
<1>4. /\ <<m>> \in Seq(StepName) /\ Len(<<m>>) = 1
      /\ <<m, v>> \in Seq(StepName) /\ Len(<<m, v>>) = 2
      /\ <<m, v, e>> \in Seq(StepName) /\ Len(<<m, v, e>>) = 3
  BY <1>2
<1>5. PICK p : p = Preprocessed
  OBVIOUS
<1>6. p = <<r, u, i>>
  BY <1>1, <1>5 DEF Preprocessed
<1>7. p \in Seq(StepName) /\ Len(p) = 3
  BY <1>3, <1>6
<1>9. p \o <<m>> \in Seq(StepName) /\ Len(p \o <<m>>) = 4
  <2>1. PICK t \in Seq(StepName) : t = <<m>> /\ Len(t) = 1
    BY <1>4
  <2>2. p \o t \in Seq(StepName)
    BY <1>7, ConcatProperties
  <2>3. Len(p \o t) = Len(p) + Len(t)
    BY <1>7, ConcatProperties
  <2>4. Len(p \o t) = 4
    BY <1>7, <2>1, <2>3
  <2> QED BY <2>1, <2>2, <2>4, Zenon
<1>10. p \o <<m, v>> \in Seq(StepName) /\ Len(p \o <<m, v>>) = 5
  <2>1. PICK t \in Seq(StepName) : t = <<m, v>> /\ Len(t) = 2
    BY <1>4
  <2>2. p \o t \in Seq(StepName)
    BY <1>7, ConcatProperties
  <2>3. Len(p \o t) = Len(p) + Len(t)
    BY <1>7, ConcatProperties
  <2>4. Len(p \o t) = 5
    BY <1>7, <2>1, <2>3
  <2> QED BY <2>1, <2>2, <2>4, Zenon
<1>11. p \o <<m, v, e>> \in Seq(StepName) /\ Len(p \o <<m, v, e>>) = 6
  <2>1. PICK t \in Seq(StepName) : t = <<m, v, e>> /\ Len(t) = 3
    BY <1>4
  <2>2. p \o t \in Seq(StepName)
    BY <1>7, ConcatProperties
  <2>3. Len(p \o t) = Len(p) + Len(t)
    BY <1>7, ConcatProperties
  <2>4. Len(p \o t) = 6
    BY <1>7, <2>1, <2>3
  <2> QED BY <2>1, <2>2, <2>4, Zenon
<1> QED BY <1>1, <1>3, <1>5, <1>7, <1>9, <1>10, <1>11, EmptySeq

(* What the generators would say of the counts stays the same.             *)
LEMMA CountsStay ==
  ASSUME UNCHANGED vars
  PROVE  /\ total' = total /\ Finished' = Finished
         /\ Completed' = Completed /\ Removed' = Removed /\ Valued' = Valued
         /\ MadeConstant' = MadeConstant
         /\ \A kind, P : Typed(kind, P)' = Typed(kind, P)
<1>1. total' = total /\ batches' = batches /\ workers' = workers
  BY DEF vars
<1>2. Finished' = Finished /\ Completed' = Completed
  BY <1>1 DEF Finished, Completed
<1>3. Removed' = Removed /\ Valued' = Valued
  BY <1>2 DEF Removed, Valued
<1>4. MadeConstant' = MadeConstant
  BY <1>3 DEF MadeConstant
<1>5. \A kind, P : Typed(kind, P)' = Typed(kind, P)
  BY <1>4 DEF Typed
<1> QED BY <1>1, <1>2, <1>3, <1>4, <1>5

(* Every step keeps the record of progress.                                *)
LEMMA ProgressKept == IInv /\ Progress /\ [AllNext]_allVars => Progress'
<1> SUFFICES ASSUME IInv, Progress, [AllNext]_allVars PROVE Progress'
  OBVIOUS
<1>1. PICK n \in 0..7 : n = Len(done)
  BY DEF Progress
<1>3. CASE CountUsages
  <2>1. CASE n = 0
    BY <1>1, <1>3, <2>1 DEF CountUsages, Progress
  <2>2. CASE n > 0
    <3>1. batches = <<>> /\ workers = <<>>
      BY <1>1, <2>2 DEF Progress, Finished
    <3>2. ~StartSlice /\ ~MergeBatch
      BY <3>1 DEF StartSlice, MergeBatch
    <3>3. DOMAIN workers = {}
      BY <3>1
    <3> QED BY <1>3, <3>2, <3>3 DEF CountUsages, Next
  <2> QED BY <2>1, <2>2
<1>4. CASE ReadUsages
  <2>1. PICK before : before = <<>>
    OBVIOUS
  <2>2. before \in Seq(StepName) /\ Len(before) = 0
    BY <2>1, StepsBefore
  <2>3. PICK name \in StepName : name = "read" /\ Step(name, before)
    BY <1>4, <2>1 DEF ReadUsages, StepName
  <2>4. Len(done) = 0 /\ done' \in Seq(StepName) /\ Len(done') = 1 /\ UNCHANGED vars
    <3>1. 0 \in Nat /\ 0 + 1 = 1
      OBVIOUS
    <3> QED BY <2>2, <2>3, <3>1, StepCounts
  <2>5. usages' = total' /\ annotations' = annotations /\ Finished'
    BY <1>4, <2>4, CountsStay DEF ReadUsages
  <2> QED BY <2>4, <2>5 DEF Progress
<1>5. CASE AddUnusedApiElements
  <2>1. PICK before : before = <<"read">>
    OBVIOUS
  <2>2. before \in Seq(StepName) /\ Len(before) = 1
    BY <2>1, StepsBefore
  <2>3. PICK name \in StepName : name = "unused" /\ Step(name, before)
    BY <1>5, <2>1 DEF AddUnusedApiElements, StepName
  <2>4. Len(done) = 1 /\ done' \in Seq(StepName) /\ Len(done') = 2 /\ UNCHANGED vars
    <3>1. 1 \in Nat /\ 1 + 1 = 2
      OBVIOUS
    <3> QED BY <2>2, <2>3, <3>1, StepCounts
  <2>5. usages' = WithUnused(total') /\ annotations' = annotations /\ Finished'
    BY <1>5, <2>4, CountsStay DEF AddUnusedApiElements, Progress
  <2> QED BY <2>4, <2>5 DEF Progress
<1>6. CASE AddImplicitUsages
  <2>1. PICK before : before = <<"read", "unused">>
    OBVIOUS
  <2>2. before \in Seq(StepName) /\ Len(before) = 2
    BY <2>1, StepsBefore
  <2>3. PICK name \in StepName : name = "implicit" /\ Step(name, before)
    BY <1>6, <2>1 DEF AddImplicitUsages, StepName
  <2>4. Len(done) = 2 /\ done' \in Seq(StepName) /\ Len(done') = 3 /\ UNCHANGED vars
    <3>1. 2 \in Nat /\ 2 + 1 = 3
      OBVIOUS
    <3> QED BY <2>2, <2>3, <3>1, StepCounts
  <2>5. usages' = Completed' /\ annotations' = annotations /\ Finished'
    BY <1>6, <2>4, CountsStay DEF AddImplicitUsages, Progress, Completed
  <2> QED BY <2>4, <2>5 DEF Progress
<1>7. CASE GenerateRemove
  <2>1. PICK before : before = Preprocessed
    OBVIOUS
  <2>2. before \in Seq(StepName) /\ Len(before) = 3
    BY <2>1, StepsBefore
  <2>3. PICK name \in StepName : name = "remove" /\ Step(name, before)
    BY <1>7, <2>1 DEF GenerateRemove, Generate, StepName
  <2>4. Len(done) = 3 /\ done' \in Seq(StepName) /\ Len(done') = 4 /\ UNCHANGED vars
    <3>1. 3 \in Nat /\ 3 + 1 = 4
      OBVIOUS
    <3> QED BY <2>2, <2>3, <3>1, StepCounts
  <2>5. usages = Completed /\ usages' = usages /\ annotations' = Removed
    BY <1>7, <2>4 DEF GenerateRemove, Generate, Removed, Progress
  <2> QED BY <2>4, <2>5, CountsStay DEF Progress
<1>8. CASE GenerateValue
  <2>1. PICK before : before = Preprocessed \o <<"remove">>
    OBVIOUS
  <2>2. before \in Seq(StepName) /\ Len(before) = 4
    BY <2>1, StepsBefore
  <2>3. PICK name \in StepName : name = "value" /\ Step(name, before)
    BY <1>8, <2>1 DEF GenerateValue, Generate, StepName
  <2>4. Len(done) = 4 /\ done' \in Seq(StepName) /\ Len(done') = 5 /\ UNCHANGED vars
    <3>1. 4 \in Nat /\ 4 + 1 = 5
      OBVIOUS
    <3> QED BY <2>2, <2>3, <3>1, StepCounts
  <2>5. usages = Completed /\ usages' = usages /\ annotations' = Removed \cup Valued
    BY <1>8, <2>4 DEF GenerateValue, Generate, Valued, Progress
  <2> QED BY <2>4, <2>5, CountsStay DEF Progress
<1>9. CASE GenerateEnum
  <2>1. PICK before : before = Preprocessed \o <<"remove", "value">>
    OBVIOUS
  <2>2. before \in Seq(StepName) /\ Len(before) = 5
    BY <2>1, StepsBefore
  <2>3. PICK name \in StepName : name = "enum" /\ Step(name, before)
    BY <1>9, <2>1 DEF GenerateEnum, Generate, StepName
  <2>4. Len(done) = 5 /\ done' \in Seq(StepName) /\ Len(done') = 6 /\ UNCHANGED vars
    <3>1. 5 \in Nat /\ 5 + 1 = 6
      OBVIOUS
    <3> QED BY <2>2, <2>3, <3>1, StepCounts
  <2>5. annotations = Removed \cup Valued
    BY <2>4 DEF Progress
  <2>6. Constants = MadeConstant
    <3>1. PICK E : E = {}
      OBVIOUS
    <3>2. annotations = Removed \cup Valued \cup E /\ \A a \in E : a.kind = "enum"
      BY <2>5, <3>1
    <3> QED BY <3>2, ConstantsAre
  <2>7. annotations' = Removed \cup Valued \cup Typed("enum", EnumTyped)
    BY <1>9, <2>5, <2>6 DEF GenerateEnum, Generate, TypeAnnotations, Typed
  <2>8. usages = Completed /\ usages' = usages
    BY <1>9, <2>4 DEF GenerateEnum, Generate, Progress
  <2> QED BY <2>4, <2>7, <2>8, CountsStay DEF Progress
<1>10. CASE GenerateBoundary
  <2>1. PICK before : before = Preprocessed \o <<"remove", "value", "enum">>
    OBVIOUS
  <2>2. before \in Seq(StepName) /\ Len(before) = 6
    BY <2>1, StepsBefore
  <2>3. PICK name \in StepName : name = "boundary" /\ Step(name, before)
    BY <1>10, <2>1 DEF GenerateBoundary, Generate, StepName
  <2>4. Len(done) = 6 /\ done' \in Seq(StepName) /\ Len(done') = 7 /\ UNCHANGED vars
    <3>1. 6 \in Nat /\ 6 + 1 = 7
      OBVIOUS
    <3> QED BY <2>2, <2>3, <3>1, StepCounts
  <2>5. annotations = Removed \cup Valued \cup Typed("enum", EnumTyped)
    BY <2>4 DEF Progress
  <2>6. Constants = MadeConstant
    <3>1. \A a \in Typed("enum", EnumTyped) : a.kind = "enum"
      BY DEF Typed, Annotation
    <3> QED BY <2>5, <3>1, ConstantsAre
  <2>7. annotations' = Removed \cup Valued \cup Typed("enum", EnumTyped)
                         \cup Typed("boundary", Bounded)
    BY <1>10, <2>5, <2>6 DEF GenerateBoundary, Generate, TypeAnnotations, Typed
  <2>8. usages = Completed /\ usages' = usages
    BY <1>10, <2>4 DEF GenerateBoundary, Generate, Progress
  <2> QED BY <2>4, <2>7, <2>8, CountsStay DEF Progress
<1>11. CASE UNCHANGED allVars
  <2>1. UNCHANGED vars /\ usages' = usages /\ done' = done /\ annotations' = annotations
    BY <1>11 DEF allVars
  <2> QED BY <2>1, CountsStay DEF Progress
<1> QED BY <1>3, <1>4, <1>5, <1>6, <1>7, <1>8, <1>9, <1>10, <1>11 DEF AllNext, Terminated

(* What is removed is not used.                                            *)
LEMMA RemovedTrue ==
  ASSUME IInv, Tally, Finished, NEW a \in Removed PROVE True(a)
<1>1. Tells(input.files, total, Visited)
  BY TotalTells
<1>2. IsFiniteSet(Visited)
  <2>1. PICK F \in Batch, size \in Nat \ {0} :
          F = input.files /\ size = input.batchSize /\ Len(F) \in Nat
    BY InputFacts
  <2>2. Visited = VisitedIn(F)
    BY <2>1 DEF Visited, VisitedIn
  <2> QED BY <2>2, VisitedFinite
<1>3. ASSUME NEW f \in Function
      PROVE  CallsOf(f) = OfFunction(input.files, Visited, f)
  BY UsageInputs DEF CallsOf, OfFunction, UsesFunction, CallOf, Broken
<1>4. ASSUME NEW f \in Function, ClassOf[f] \in Class
      PROVE  CallsOf(f) \subseteq OfClass(input.files, Visited, ClassOf[f])
  BY <1>3, <1>4 DEF OfFunction, UsesFunction, OfClass, UsesClass
<1>5. a.kind = "remove"
  BY DEF Removed, RemoveAnnotations, Annotation
<1>6. ASSUME NEW k \in Class, a.target = k, Count(Completed.class, k) = 0
      PROVE  True(a)
  <2>1. PICK X : X = OfClass(input.files, Visited, k)
    OBVIOUS
  <2>2. Cardinality(X) = 0
    BY <1>1, <1>6, <2>1, CompletedCounts DEF Tells
  <2>3. X \in SUBSET Visited
    BY <2>1 DEF OfClass
  <2>4. X = {}
    BY <1>2, <2>2, <2>3, FS_Subset, FS_EmptySet
  <2>5. ASSUME NEW f \in Function, a.target \in {f, ClassOf[f]} PROVE CallsOf(f) = {}
    <3>1. ClassOf[f] = k
      BY <1>6, <2>5, ApiInputs
    <3> QED BY <1>4, <2>1, <2>4, <3>1
  <2> QED BY <1>5, <2>5 DEF True
<1>7. ASSUME NEW g \in Function, a.target = g, Count(Completed.function, g) = 0
      PROVE  True(a)
  <2>1. PICK X : X = OfFunction(input.files, Visited, g)
    OBVIOUS
  <2>2. Cardinality(X) = 0
    BY <1>1, <1>7, <2>1, CompletedCounts DEF Tells
  <2>3. X \in SUBSET Visited
    BY <2>1 DEF OfFunction
  <2>4. X = {}
    BY <1>2, <2>2, <2>3, FS_Subset, FS_EmptySet
  <2>5. ASSUME NEW f \in Function, a.target \in {f, ClassOf[f]} PROVE CallsOf(f) = {}
    <3>1. ClassOf[f] \in Class \cup {NoClass}
      BY UsageInputs
    <3>2. f = g
      BY <1>7, <2>5, <3>1, ApiInputs
    <3> QED BY <1>3, <2>1, <2>4, <3>2
  <2> QED BY <1>5, <2>5 DEF True
<1>8. \/ \E k \in Class : a.target = k /\ Count(Completed.class, k) = 0
      \/ \E g \in ApiFunction : a.target = g /\ Count(Completed.function, g) = 0
  BY DEF Removed, RemoveAnnotations, Annotation
<1> QED BY <1>6, <1>7, <1>8, ApiInputs

(* What is constant has no type.                                           *)
LEMMA TypedTrue ==
  ASSUME NEW kind \in {"enum", "boundary"}, NEW P, NEW a \in Typed(kind, P),
         \A b \in annotations : b.kind = "constant" => b \in Valued
  PROVE  True(a)
<1>1. PICK p \in P \ MadeConstant : a = Annotation(kind, p, NoDefault)
  BY DEF Typed
<1>2. a.kind = kind /\ a.target = p
  BY <1>1 DEF Annotation
<1>3. ~\E b \in annotations : b.kind = "constant" /\ b.target = p
  BY <1>1 DEF MadeConstant
<1>4. CASE kind = "enum"
  BY <1>2, <1>3, <1>4 DEF True
<1>5. CASE kind = "boundary"
  BY <1>2, <1>3, <1>5 DEF True
<1> QED BY <1>4, <1>5

(* All annotations together.                                               *)
LEMMA GeneratedTrue == IInv /\ Tally /\ Progress => AnnotationsTellTheTruth
<1> SUFFICES ASSUME IInv, Tally, Progress, Generated PROVE AnnotationsTellTheTruth
  BY DEF AnnotationsTellTheTruth
<1>1. /\ Finished
      /\ annotations = Removed \cup Valued \cup Typed("enum", EnumTyped)
                         \cup Typed("boundary", Bounded)
  BY DEF Progress, Generated
<1>2. /\ \A a \in Removed : a.kind = "remove"
      /\ \A a \in Typed("enum", EnumTyped) : a.kind = "enum"
      /\ \A a \in Typed("boundary", Bounded) : a.kind = "boundary"
  BY DEF Removed, RemoveAnnotations, Typed, Annotation
<1>3. ASSUME NEW a \in Valued
      PROVE  \E p \in ApiParameter \ Variadic :
               /\ a = ValueAnnotationOf(Completed, p) /\ UsedValues(Completed, p) # {}
               /\ a.target = p /\ a.kind \in ValueKinds
  BY ValueAnnotationsAre DEF Valued
<1>4. ASSUME NEW p \in ApiParameter \ Variadic, UsedValues(Completed, p) # {}
      PROVE  ValueAnnotationOf(Completed, p) \in Valued
  BY <1>4, ValueAnnotationsAre DEF Valued
<1>5. ASSUME NEW a \in annotations, a.target \in Parameter => ~CutOff(FunctionOf[a.target])
      PROVE  True(a)
  <2>1. CASE a \in Removed
    BY <1>1, <2>1, RemovedTrue
  <2>2. CASE a \in Valued
    <3>1. PICK p \in ApiParameter :
            /\ a = ValueAnnotationOf(Completed, p) /\ UsedValues(Completed, p) # {}
            /\ a.target = p
      BY <1>3, <2>2
    <3>2. ~CutOff(FunctionOf[p])
      BY <1>5, <3>1, ApiInputs
    <3> QED BY <1>1, <3>1, <3>2, ValueAnnotationTrue
  <2>3. \A b \in annotations : b.kind = "constant" => b \in Valued
    BY <1>1, <1>2
  <2>4. CASE a \in Typed("enum", EnumTyped)
    BY <2>3, <2>4, TypedTrue
  <2>5. CASE a \in Typed("boundary", Bounded)
    BY <2>3, <2>5, TypedTrue
  <2> QED BY <1>1, <2>1, <2>2, <2>4, <2>5
<1>6. ASSUME NEW p \in ApiParameter \ Variadic, ~CutOff(FunctionOf[p])
      PROVE  Cardinality({a \in annotations : a.target = p /\ a.kind \in ValueKinds}) =
               IF CallsGiving(p) = {} THEN 0 ELSE 1
  <2>1. PICK X : X = {a \in annotations : a.target = p /\ a.kind \in ValueKinds}
    OBVIOUS
  <2>2. \A a \in X : a \in Valued /\ a.target = p
    BY <1>1, <1>2, <2>1 DEF ValueKinds
  <2>3. UsedValues(Completed, p) = {} <=> CallsGiving(p) = {}
    BY <1>1, <1>6, UsedByCalls
  <2>4. CASE UsedValues(Completed, p) = {}
    <3>1. X = {}
      BY <1>3, <2>2, <2>4
    <3> QED BY <2>1, <2>3, <2>4, <3>1, FS_EmptySet
  <2>5. CASE UsedValues(Completed, p) # {}
    <3>1. PICK v : v = ValueAnnotationOf(Completed, p)
      OBVIOUS
    <3>2. v \in X
      BY <1>1, <1>3, <1>4, <2>1, <2>5, <3>1, ValueAnnotationsAre
    <3>3. X = {v}
      BY <1>3, <2>2, <3>1, <3>2
    <3> QED BY <2>1, <2>3, <2>5, <3>3, FS_Singleton
  <2> QED BY <2>4, <2>5
<1> QED BY <1>5, <1>6 DEF AnnotationsTellTheTruth

(* generate_annotations reads the counts of find_usages from a file, when  *)
(* counting is over; the steps of it leave the variables of UsageCounts    *)
(* alone by construction.  So what is proved of these can be used here.    *)
LEMMA CountsAreGiven == AllSpec => Spec
<1>1. AllInit => Init
  BY DEF AllInit
<1>2. [AllNext]_allVars => [Next]_vars
  BY DEF AllNext, allVars, CountUsages, ReadUsages, AddUnusedApiElements, AddImplicitUsages,
         GenerateRemove, GenerateValue, GenerateEnum, GenerateBoundary, Generate, Step, Terminated
<1> QED BY <1>1, <1>2, PTL DEF AllSpec, Spec

(* What the generators of generate_annotations claim is true of all calls  *)
(* that find_usages visits, for any API, clients, batches and processes:   *)
(* what is removed is not used, omitted and constant parameters have one   *)
(* value in all calls, optional ones one that is used more than any other, *)
(* required ones no literal or default that would do, and each parameter   *)
(* that gets values has one value annotation.                              *)
THEOREM AnnotationsAreTrue == AllSpec => []AnnotationsTellTheTruth
<1>1. AllInit => Progress
  BY EmptySeq DEF AllInit, Progress
<1>2. AllSpec => [](IInv /\ Tally)
  BY CountsAreGiven, InitGood, NextGood, InitTally, NextTally, PTL DEF Spec
<1> QED BY <1>1, <1>2, ProgressKept, GeneratedTrue, PTL DEF AllSpec
=============================================================================
