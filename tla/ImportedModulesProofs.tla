----------------------- MODULE ImportedModulesProofs -----------------------
(***************************************************************************)
(* Proofs that nested analyses keep apart, and that a cached result stays  *)
(* what it is, for any modules and any imports.                            *)
(***************************************************************************)
EXTENDS ImportedModules, SequenceTheorems, TLAPS

(* The inductive invariant.                                                *)
RootWaits(a) == a.frames # <<>> => a.queue # <<>>

IInv ==
  /\ TypeOK /\ NestedAnalysesDiffer
  /\ \A i \in 1..Len(analyzers) : RootWaits(analyzers[i])

-----------------------------------------------------------------------------
LEMMA EmptyMap == <<>> \in ResultMap
<1>1. <<>> \in [{} -> SUBSET Reason]
  OBVIOUS
<1> QED
  BY <1>1 DEF ResultMap

LEMMA PutResult ==
  ASSUME NEW map \in ResultMap, NEW f \in Function, NEW res \in SUBSET Reason
  PROVE  Put(map, f, res) \in ResultMap
<1>1. PICK D \in SUBSET Function : map \in [D -> SUBSET Reason]
  BY DEF ResultMap
<1>2. DOMAIN map = D /\ D \cup {f} \in SUBSET Function
  BY <1>1
<1>3. Put(map, f, res) \in [D \cup {f} -> SUBSET Reason]
  BY <1>1, <1>2 DEF Put
<1> QED
  BY <1>2, <1>3 DEF ResultMap

LEMMA PutCache ==
  ASSUME NEW c \in UNION {[D -> ResultMap] : D \in SUBSET Module},
         NEW m \in Module, NEW r \in ResultMap
  PROVE  /\ Put(c, m, r) \in UNION {[D -> ResultMap] : D \in SUBSET Module}
         /\ DOMAIN Put(c, m, r) = DOMAIN c \cup {m}
         /\ \A k \in DOMAIN c : k # m => Put(c, m, r)[k] = c[k]
         /\ Put(c, m, r)[m] = r
<1>1. PICK D \in SUBSET Module : c \in [D -> ResultMap]
  OBVIOUS
<1>2. DOMAIN c = D /\ D \cup {m} \in SUBSET Module
  BY <1>1
<1>3. Put(c, m, r) \in [D \cup {m} -> ResultMap]
  BY <1>1, <1>2 DEF Put
<1>4. \A k \in DOMAIN c : k # m => Put(c, m, r)[k] = c[k]
  BY DEF Put
<1>5. Put(c, m, r)[m] = r /\ DOMAIN Put(c, m, r) = DOMAIN c \cup {m}
  BY DEF Put
<1> QED
  BY <1>2, <1>3, <1>4, <1>5

(* A cached result is a set of reasons.                                    *)
LEMMA CachedResult ==
  ASSUME NEW c \in UNION {[D -> ResultMap] : D \in SUBSET Module},
         NEW m \in DOMAIN c, NEW f \in DOMAIN c[m]
  PROVE  c[m][f] \in SUBSET Reason /\ m \in Module
<1>1. PICK D \in SUBSET Module : c \in [D -> ResultMap]
  OBVIOUS
<1>2. c[m] \in ResultMap /\ m \in Module
  BY <1>1
<1> QED
  BY <1>2 DEF ResultMap

LEMMA MapResult ==
  ASSUME NEW map \in ResultMap, NEW f \in DOMAIN map
  PROVE  map[f] \in SUBSET Reason
  BY DEF ResultMap
-----------------------------------------------------------------------------
(* The steps on one analyzer.                                              *)
LEMMA AdvanceState ==
  ASSUME NEW a \in AnalyzerState, NEW R \in SUBSET Reason
  PROVE  /\ Advance(a, R) \in AnalyzerState /\ Advance(a, R).module = a.module
         /\ RootWaits(a) => RootWaits(Advance(a, R))
<1> DEFINE n == Len(a.frames)
           fs == [a.frames EXCEPT ![n] = [fn |-> @.fn, next |-> @.next + 1,
                                          acc |-> @.acc \cup R]]
<1>1. a.frames \in Seq(FrameState)
  BY DEF AnalyzerState
<1>2. fs \in Seq(FrameState)
  <2>1. CASE n = 0
    <3>1. a.frames = <<>>
      BY <1>1, <2>1
    <3>2. fs = <<>>
      BY <3>1
    <3> HIDE DEF fs
    <3> QED
      BY <3>2
  <2>2. CASE n # 0
    <3>1. n \in 1..Len(a.frames) /\ a.frames[n] \in FrameState
      BY <1>1, <2>2
    <3> DEFINE f == [fn |-> a.frames[n].fn, next |-> a.frames[n].next + 1,
                     acc |-> a.frames[n].acc \cup R]
    <3>2. f \in FrameState /\ fs = [a.frames EXCEPT ![n] = f]
      BY <3>1 DEF FrameState
    <3> HIDE DEF f, fs
    <3> QED
      BY <1>1, <3>1, <3>2, ExceptSeq
  <2> QED
    BY <2>1, <2>2
<1>3. Advance(a, R) = [a EXCEPT !.frames = fs]
  BY DEF Advance, AnalyzerState
<1>4. a.frames = <<>> => fs = <<>>
  OBVIOUS
<1> HIDE DEF fs
<1> QED
  BY <1>2, <1>3, <1>4 DEF AnalyzerState, RootWaits

LEMMA EnterState ==
  ASSUME NEW a \in AnalyzerState, NEW f \in Function
  PROVE  /\ Enter(a, f) \in AnalyzerState /\ Enter(a, f).module = a.module
         /\ a.queue # <<>> => RootWaits(Enter(a, f))
<1> DEFINE new == [fn |-> f, next |-> 1, acc |-> {}]
<1>1. new \in FrameState
  BY DEF FrameState
<1>2. a.frames \in Seq(FrameState)
  BY DEF AnalyzerState
<1> HIDE DEF new
<1>3. Append(a.frames, new) \in Seq(FrameState)
  BY <1>1, <1>2
<1> QED
  BY <1>3 DEF Enter, AnalyzerState, new, RootWaits

LEMMA RecordState ==
  ASSUME NEW a \in AnalyzerState, NEW f \in Function,
         NEW R \in SUBSET Reason, a.queue # <<>>
  PROVE  /\ Record(a, f, R) \in AnalyzerState /\ Record(a, f, R).module = a.module
         /\ a.frames = <<>> => RootWaits(Record(a, f, R))
<1>1. Put(a.recorded, f, R) \in ResultMap
  BY PutResult DEF AnalyzerState
<1>2. Tail(a.queue) \in Seq(Function)
  BY DEF AnalyzerState
<1> QED
  BY <1>1, <1>2 DEF Record, AnalyzerState, RootWaits

LEMMA NewAnalyzer ==
  ASSUME TypeOK, NEW m \in Module
  PROVE  /\ Analyzer(m) \in AnalyzerState /\ Analyzer(m).module = m
         /\ RootWaits(Analyzer(m))
<1>1. <<>> \in ResultMap /\ forest[m] \in Seq(Function)
  BY EmptyMap DEF TypeOK
<1>2. <<>> \in Seq(FrameState)
  OBVIOUS
<1> QED
  BY <1>1, <1>2 DEF Analyzer, AnalyzerState, RootWaits

-----------------------------------------------------------------------------
LEMMA CurrentState ==
  ASSUME TypeOK, Working
  PROVE  /\ Len(analyzers) \in Nat \ {0} /\ Current = analyzers[Len(analyzers)]
         /\ Current \in AnalyzerState
         /\ IInv => RootWaits(Current)
<1>1. analyzers \in Seq(AnalyzerState) /\ analyzers # <<>>
  BY DEF TypeOK, Working
<1>2. Len(analyzers) \in Nat \ {0} /\ analyzers[Len(analyzers)] \in AnalyzerState
  <2> HIDE DEF AnalyzerState
  <2> QED
    BY <1>1
<1>3. Len(analyzers) \in 1..Len(analyzers)
  BY <1>2
<1> QED
  BY <1>2, <1>3 DEF Current, Last, IInv

(* The innermost activation.                                               *)
LEMMA FrameFacts ==
  ASSUME TypeOK, Working, Current.frames # <<>>
  PROVE  /\ Frame \in FrameState
         /\ AtCall => Callee \in Target
<1>1. Current \in AnalyzerState
  BY CurrentState
<1>2. Frame \in FrameState
  BY <1>1 DEF AnalyzerState, Frame, Last
<1>3. calls[Frame.fn] \in Seq(Target) /\ Frame.next \in Nat \ {0}
  BY <1>2 DEF TypeOK, FrameState
<1>4. ASSUME AtCall PROVE Callee \in Target
  BY <1>3, <1>4 DEF AtCall, Callee
<1> QED
  BY <1>2, <1>4

LEMMA AnswerType ==
  ASSUME TypeOK, Working, NEW f \in Function
  PROVE  Answer(f) \in SUBSET Reason
<1>1. Current.inferred \in ResultMap
  BY CurrentState DEF AnalyzerState
<1>2. CASE f \in DOMAIN Current.inferred
  BY <1>1, <1>2, MapResult DEF Answer
<1>3. CASE f \notin DOMAIN Current.inferred /\ Cached(ModuleOf[f], f)
  BY <1>3, CachedResult DEF Answer, Cached, TypeOK
<1>4. CASE f \notin DOMAIN Current.inferred /\ ~Cached(ModuleOf[f], f)
  BY <1>4 DEF Answer, Reason
<1> QED
  BY <1>2, <1>3, <1>4

LEMMA ImportAnswerType ==
  ASSUME TypeOK, NEW c \in Target
  PROVE  ImportAnswer(c) \in SUBSET Reason
<1>1. CASE c \in Opaque
  BY <1>1 DEF ImportAnswer, Reason
<1>2. CASE c \notin Opaque /\ Cached(ModuleOf[c], c)
  BY <1>2, CachedResult DEF ImportAnswer, Cached, TypeOK
<1>3. CASE c \notin Opaque /\ ~Cached(ModuleOf[c], c)
  BY <1>3 DEF ImportAnswer, Reason
<1> QED
  BY <1>1, <1>2, <1>3

-----------------------------------------------------------------------------
LEMMA InitIInv == Init => IInv
<1> SUFFICES ASSUME Init PROVE IInv
  OBVIOUS
<1>1. calls \in [Function -> Seq(Target)] /\ forest \in [Module -> Seq(Function)]
  <2>1. PICK in \in Inputs : calls = in.calls /\ forest = in.forest
    BY DEF Init
  <2> QED
    BY <2>1, ModuleInputs DEF WellFormed
<1>2. analyzers = <<Analyzer(Root)>> /\ cache = <<>> /\ returned = <<>>
  BY DEF Init
<1>3. <<>> \in ResultMap /\ Root \in Module
  BY EmptyMap, ModuleInputs
<1>4. Analyzer(Root) \in AnalyzerState /\ Analyzer(Root).module = Root
  <2>1. forest[Root] \in Seq(Function) /\ <<>> \in Seq(FrameState)
    BY <1>1, <1>3
  <2> QED
    BY <1>3, <2>1 DEF Analyzer, AnalyzerState
<1>5. analyzers \in Seq(AnalyzerState) /\ Len(analyzers) = 1
      /\ analyzers[1].module = Root /\ analyzers[1].frames = <<>>
  BY <1>2, <1>4 DEF Analyzer
<1>6. cache \in [{} -> ResultMap] /\ {} \in SUBSET Module
  BY <1>2
<1>7. TypeOK
  BY <1>1, <1>2, <1>3, <1>5, <1>6 DEF TypeOK
<1>8. NestedAnalysesDiffer
  BY <1>5 DEF NestedAnalysesDiffer, Working
<1> QED
  BY <1>5, <1>7, <1>8 DEF IInv, RootWaits

(* A step of the innermost analyzer that leaves the cache alone.           *)
LEMMA SameModules ==
  ASSUME IInv, Working, NEW a \in AnalyzerState, a.module = Current.module,
         RootWaits(a),
         analyzers' = WithCurrent(a), UNCHANGED <<program, cache, returned>>
  PROVE  IInv'
<1> DEFINE n == Len(analyzers)
<1>1. /\ analyzers \in Seq(AnalyzerState) /\ n \in Nat \ {0}
      /\ Current = analyzers[n]
  BY CurrentState DEF IInv, TypeOK
<1>2. /\ analyzers' \in Seq(AnalyzerState) /\ Len(analyzers') = n
      /\ \A i \in 1..n : analyzers'[i] = IF i = n THEN a ELSE analyzers[i]
  <2>1. analyzers' = [analyzers EXCEPT ![n] = a] /\ n \in 1..Len(analyzers)
    BY <1>1 DEF WithCurrent
  <2> HIDE DEF AnalyzerState
  <2> QED
    BY <1>1, <2>1, ExceptSeq
<1>3. \A i \in 1..n : analyzers'[i].module = analyzers[i].module
  BY <1>1, <1>2
<1>4. TypeOK'
  BY <1>2 DEF IInv, TypeOK, program
<1>5. NestedAnalysesDiffer'
  <2>1. 1 \in 1..n /\ 2..n \subseteq 1..n
    BY <1>1
  <2> QED
    BY <1>1, <1>2, <1>3, <2>1 DEF IInv, NestedAnalysesDiffer, Working
<1>6. \A i \in 1..n : RootWaits(analyzers'[i])
  BY <1>2 DEF IInv
<1> QED
  BY <1>2, <1>4, <1>5, <1>6 DEF IInv, RootWaits

LEMMA RootStep ==
  ASSUME IInv, RootKnown \/ EnterRoot
  PROVE  IInv'
<1> DEFINE f == Head(Current.queue)
<1>1. /\ TypeOK /\ Working /\ Current \in AnalyzerState
      /\ Current.queue # <<>> /\ Current.frames = <<>>
  BY CurrentState DEF IInv, RootKnown, EnterRoot, AtRoot
<1>2. f \in Function
  BY <1>1 DEF AnalyzerState
<1>3. CASE RootKnown
  <2>1. Answer(f) \in SUBSET Reason
    BY <1>1, <1>2, AnswerType
  <2> DEFINE a == Record(Current, f, Answer(f))
  <2>2. a \in AnalyzerState /\ a.module = Current.module /\ RootWaits(a)
    BY <1>1, <1>2, <2>1, RecordState
  <2>3. analyzers' = WithCurrent(a) /\ UNCHANGED <<program, cache, returned>>
    BY <1>3 DEF RootKnown
  <2> HIDE DEF a
  <2> QED
    BY <1>1, <2>2, <2>3, SameModules
<1>4. CASE EnterRoot
  <2> DEFINE a == Enter(Current, f)
  <2>1. a \in AnalyzerState /\ a.module = Current.module /\ RootWaits(a)
    BY <1>1, <1>2, EnterState
  <2>2. analyzers' = WithCurrent(a) /\ UNCHANGED <<program, cache, returned>>
    BY <1>4 DEF EnterRoot
  <2> HIDE DEF a
  <2> QED
    BY <1>1, <2>1, <2>2, SameModules
<1> QED
  BY <1>3, <1>4

LEMMA CallStep ==
  ASSUME IInv, CallKnown \/ EnterCall \/ ImportedKnown
  PROVE  IInv'
<1>1. /\ TypeOK /\ Working /\ Current \in AnalyzerState /\ AtCall
      /\ Current.frames # <<>> /\ RootWaits(Current) /\ Current.queue # <<>>
  BY CurrentState DEF IInv, CallKnown, EnterCall, ImportedKnown, AtCall, RootWaits
<1>2. Callee \in Target /\ Frame \in FrameState
  BY <1>1, FrameFacts
<1>3. ~Imported(Frame.fn, Callee) => Callee \in Function
  BY DEF Imported
<1>4. CASE CallKnown
  <2>1. Answer(Callee) \in SUBSET Reason
    BY <1>1, <1>3, <1>4, AnswerType DEF CallKnown
  <2> DEFINE a == Advance(Current, Answer(Callee))
  <2>2. a \in AnalyzerState /\ a.module = Current.module /\ RootWaits(a)
    BY <1>1, <2>1, AdvanceState
  <2>3. analyzers' = WithCurrent(a) /\ UNCHANGED <<program, cache, returned>>
    BY <1>4 DEF CallKnown
  <2> HIDE DEF a
  <2> QED
    BY <1>1, <2>2, <2>3, SameModules
<1>5. CASE EnterCall
  <2> DEFINE a == Enter(Current, Callee)
  <2>1. a \in AnalyzerState /\ a.module = Current.module /\ RootWaits(a)
    BY <1>1, <1>3, <1>5, EnterState DEF EnterCall
  <2>2. analyzers' = WithCurrent(a) /\ UNCHANGED <<program, cache, returned>>
    BY <1>5 DEF EnterCall
  <2> HIDE DEF a
  <2> QED
    BY <1>1, <2>1, <2>2, SameModules
<1>6. CASE ImportedKnown
  <2>1. ImportAnswer(Callee) \in SUBSET Reason
    BY <1>1, <1>2, ImportAnswerType
  <2> DEFINE a == Advance(Current, ImportAnswer(Callee))
  <2>2. a \in AnalyzerState /\ a.module = Current.module /\ RootWaits(a)
    BY <1>1, <2>1, AdvanceState
  <2>3. analyzers' = WithCurrent(a) /\ UNCHANGED <<program, cache, returned>>
    BY <1>6 DEF ImportedKnown
  <2> HIDE DEF a
  <2> QED
    BY <1>1, <2>2, <2>3, SameModules
<1> QED
  BY <1>4, <1>5, <1>6

LEMMA ReturnStep ==
  ASSUME IInv, Return
  PROVE  IInv'
<1> DEFINE f == Frame.fn
           res == {f} \cup Frame.acc
           left == [Current EXCEPT !.inferred = Put(@, f, res),
                                   !.frames = Front(@)]
           a == IF left.frames = <<>> THEN Record(left, f, res)
                                      ELSE Advance(left, res)
<1>1. /\ TypeOK /\ Working /\ Current \in AnalyzerState
      /\ Current.frames # <<>> /\ RootWaits(Current) /\ Current.queue # <<>>
  BY CurrentState DEF IInv, Return, RootWaits
<1>2. f \in Function /\ res \in SUBSET Reason
  BY <1>1, FrameFacts DEF FrameState, Reason, Target
<1>3. Put(Current.inferred, f, res) \in ResultMap
  <2>1. Current.inferred \in ResultMap
    BY <1>1 DEF AnalyzerState
  <2> HIDE DEF f, res
  <2> QED
    BY <1>2, <2>1, PutResult
<1>4. Front(Current.frames) \in Seq(FrameState)
  <2>1. Current.frames \in Seq(FrameState)
    BY <1>1 DEF AnalyzerState
  <2> HIDE DEF FrameState
  <2> QED
    BY <1>1, <2>1 DEF Front
<1>5. left \in AnalyzerState /\ left.module = Current.module
  <2> HIDE DEF f, res
  <2> QED
    BY <1>1, <1>3, <1>4 DEF AnalyzerState
<1>6. left.queue # <<>>
  BY <1>1 DEF AnalyzerState
<1>7. a \in AnalyzerState /\ a.module = Current.module /\ RootWaits(a)
  <2> HIDE DEF f, res, left
  <2> QED
    BY <1>2, <1>5, <1>6, RecordState, AdvanceState DEF RootWaits
<1>8. analyzers' = WithCurrent(a) /\ UNCHANGED <<program, cache, returned>>
  BY DEF Return
<1> HIDE DEF a
<1> QED
  BY <1>1, <1>7, <1>8, SameModules

(* The module that is entered was not marked, so it is on no level yet.    *)
LEMMA EnterModuleStep ==
  ASSUME IInv, ReadFails \/ EnterModule
  PROVE  IInv'
<1> DEFINE n == Len(analyzers)
           m == ModuleOf[Callee]
<1>1. /\ TypeOK /\ Working /\ Current \in AnalyzerState /\ AtCall
      /\ Current.frames # <<>> /\ RootWaits(Current)
  BY CurrentState DEF IInv, ReadFails, EnterModule, AtCall
<1>2. Callee \in Function /\ m \in Module /\ m \notin DOMAIN cache
  BY <1>1, FrameFacts, ModuleInputs
     DEF ReadFails, EnterModule, ImportKnown, Target
<1>3. /\ cache' = Put(cache, m, <<>>)
      /\ UNCHANGED <<calls, forest, returned>>
  BY DEF ReadFails, EnterModule, program
<1>4. /\ cache' \in UNION {[D -> ResultMap] : D \in SUBSET Module}
      /\ DOMAIN cache' = DOMAIN cache \cup {m}
      /\ \A k \in DOMAIN cache : cache'[k] = cache[k]
      /\ cache'[m] = <<>>
  <2>1. cache \in UNION {[D -> ResultMap] : D \in SUBSET Module}
    BY DEF IInv, TypeOK
  <2> DEFINE r == <<>>
  <2>2. m \in Module /\ r \in ResultMap /\ cache' = Put(cache, m, r)
    BY <1>2, <1>3, EmptyMap
  <2> HIDE DEF m, r
  <2>3. /\ cache' \in UNION {[D -> ResultMap] : D \in SUBSET Module}
        /\ DOMAIN cache' = DOMAIN cache \cup {m}
        /\ \A k \in DOMAIN cache : k # m => cache'[k] = cache[k]
        /\ cache'[m] = r
    BY <2>1, <2>2, PutCache
  <2> QED
    BY <1>2, <2>3 DEF r
<1>5. /\ analyzers \in Seq(AnalyzerState) /\ n \in Nat \ {0}
      /\ Current = analyzers[n]
  BY CurrentState, <1>1 DEF TypeOK
<1>6. /\ 1 \in 1..n /\ 2..n \subseteq 1..n
      /\ \A i \in 2..n : /\ analyzers[i].module \in DOMAIN cache
                         /\ cache[analyzers[i].module] = <<>>
                         /\ analyzers[i].module # m
      /\ \A i, j \in 2..n : analyzers[i].module = analyzers[j].module => i = j
      /\ analyzers[1].module = Root
  BY <1>1, <1>2, <1>5 DEF IInv, NestedAnalysesDiffer
<1>7. CASE ReadFails
  <2> DEFINE a == Advance(Current, {Unknown})
  <2>1. a \in AnalyzerState /\ a.module = Current.module /\ RootWaits(a)
    BY <1>1, AdvanceState DEF Reason
  <2>2. analyzers' = [analyzers EXCEPT ![n] = a]
    BY <1>7 DEF ReadFails, WithCurrent
  <2> HIDE DEF a, m
  <2>3. /\ analyzers' \in Seq(AnalyzerState) /\ Len(analyzers') = n
        /\ \A i \in 1..n : analyzers'[i] = IF i = n THEN a ELSE analyzers[i]
    <3> HIDE DEF AnalyzerState
    <3> QED
      BY <1>5, <2>1, <2>2, ExceptSeq
  <2>4. \A i \in 1..n : analyzers'[i].module = analyzers[i].module
    BY <1>5, <2>1, <2>3
  <2>5. TypeOK'
    BY <1>3, <1>4, <2>3 DEF IInv, TypeOK
  <2>6. NestedAnalysesDiffer'
    BY <1>4, <1>6, <2>3, <2>4 DEF NestedAnalysesDiffer
  <2>7. \A i \in 1..n : RootWaits(analyzers'[i])
    BY <2>1, <2>3 DEF IInv
  <2> QED
    BY <2>3, <2>5, <2>6, <2>7 DEF IInv, RootWaits
<1>8. CASE EnterModule
  <2> DEFINE a == Analyzer(m)
  <2>1. a \in AnalyzerState /\ a.module = m /\ RootWaits(a)
    BY <1>1, <1>2, NewAnalyzer
  <2>2. analyzers' = Append(analyzers, a)
    BY <1>8 DEF EnterModule
  <2> HIDE DEF a, m
  <2>3. /\ analyzers' \in Seq(AnalyzerState) /\ Len(analyzers') = n + 1
        /\ \A i \in 1..n : analyzers'[i] = analyzers[i]
        /\ analyzers'[n + 1] = a
    <3> HIDE DEF AnalyzerState
    <3> QED
      BY <1>5, <2>1, <2>2
  <2>4. \A i \in 2..n + 1 : i \in 2..n \/ i = n + 1
    BY <1>5
  <2>5. TypeOK'
    BY <1>3, <1>4, <2>3 DEF IInv, TypeOK
  <2>6. NestedAnalysesDiffer'
    BY <1>4, <1>6, <2>1, <2>3, <2>4 DEF NestedAnalysesDiffer
  <2>7. \A i \in 1..n + 1 : RootWaits(analyzers'[i])
    BY <1>5, <2>1, <2>3 DEF IInv
  <2> QED
    BY <2>3, <2>5, <2>6, <2>7 DEF IInv, RootWaits
<1> QED
  BY <1>7, <1>8

(* The analyzer that ends is the only one of its module.                   *)
LEMMA ModuleDoneStep ==
  ASSUME IInv, ModuleDone
  PROVE  /\ IInv'
         /\ cache[Current.module] = <<>>
<1> DEFINE n == Len(analyzers)
           m == Current.module
           below == analyzers[n - 1]
           callee == calls[Last(below.frames).fn][Last(below.frames).next]
           found == cache'[m]
           a == Advance(below, IF callee \in DOMAIN found THEN found[callee]
                                                          ELSE {Unknown})
           rest == SubSeq(analyzers, 1, n - 2)
<1>1. TypeOK /\ Working /\ analyzers \in Seq(AnalyzerState) /\ n \in Nat /\ n > 1
  <2>1. TypeOK /\ analyzers \in Seq(AnalyzerState)
    BY DEF IInv, TypeOK
  <2>2. Len(analyzers) \in Nat /\ Len(analyzers) > 1
    <3> HIDE DEF AnalyzerState
    <3> QED
      BY <2>1, SMTT(30) DEF ModuleDone
  <2> QED
    BY <2>1, <2>2 DEF Working
<1>2. /\ Current = analyzers[n] /\ Current \in AnalyzerState
      /\ below \in AnalyzerState /\ RootWaits(below)
      /\ \A i \in 1..n : analyzers[i] \in AnalyzerState /\ RootWaits(analyzers[i])
  <2> HIDE DEF AnalyzerState
  <2> QED
    BY <1>1, CurrentState DEF IInv
<1>3. /\ m \in Module /\ Current.recorded \in ResultMap
      /\ m \in DOMAIN cache /\ cache[m] = <<>>
      /\ \A i \in 2..n - 1 : /\ analyzers[i].module \in DOMAIN cache
                             /\ cache[analyzers[i].module] = <<>>
                             /\ analyzers[i].module # m
      /\ \A i, j \in 2..n - 1 : analyzers[i].module = analyzers[j].module => i = j
      /\ analyzers[1].module = Root
  <2>1. m \in Module /\ Current.recorded \in ResultMap
    BY <1>2 DEF AnalyzerState
  <2>2. NestedAnalysesDiffer /\ 2..n - 1 \subseteq 2..n /\ n \in 2..n
    BY <1>1 DEF IInv
  <2>3. \A i \in 2..n - 1 : i # n
    BY <1>1
  <2>4. analyzers[1].module = Root
    BY <1>1, <2>2 DEF NestedAnalysesDiffer
  <2> QED
    BY <1>2, <2>1, <2>2, <2>3, <2>4 DEF NestedAnalysesDiffer
<1>4. /\ cache' = Put(cache, m, Current.recorded)
      /\ analyzers' = Append(rest, a)
      /\ UNCHANGED <<calls, forest, returned>>
  BY DEF ModuleDone, CacheAfter, program
<1>5. /\ cache' \in UNION {[D -> ResultMap] : D \in SUBSET Module}
      /\ DOMAIN cache' = DOMAIN cache \cup {m}
      /\ \A k \in DOMAIN cache : k # m => cache'[k] = cache[k]
      /\ found \in ResultMap
  <2>1. cache \in UNION {[D -> ResultMap] : D \in SUBSET Module}
    BY <1>1 DEF TypeOK
  <2> DEFINE r == Current.recorded
  <2>2. m \in Module /\ r \in ResultMap /\ cache' = Put(cache, m, r)
    BY <1>3, <1>4
  <2> HIDE DEF m, r
  <2> QED
    BY <2>1, <2>2, PutCache
<1>6. a \in AnalyzerState /\ a.module = below.module /\ RootWaits(a)
  <2>1. (IF callee \in DOMAIN found THEN found[callee] ELSE {Unknown})
          \in SUBSET Reason
    <3> HIDE DEF found, callee
    <3> QED
      BY <1>5, MapResult DEF Reason
  <2> HIDE DEF found, callee, below
  <2> QED
    BY <1>2, <2>1, AdvanceState
<1>7. /\ analyzers' \in Seq(AnalyzerState) /\ Len(analyzers') = n - 1
      /\ \A i \in 1..n - 2 : analyzers'[i] = analyzers[i]
      /\ analyzers'[n - 1] = a
  <2> DEFINE k == n - 2
  <2>1. k \in Nat /\ k <= Len(analyzers) /\ n - 1 = k + 1
    BY <1>1
  <2>2. rest \in Seq(AnalyzerState) /\ Len(rest) = k
        /\ \A i \in 1..k : rest[i] = analyzers[i]
    <3>1. \A i \in 1..k : analyzers[i] \in AnalyzerState
      BY <1>1, <1>2
    <3>2. rest = SubSeq(analyzers, 1, k)
      OBVIOUS
    <3> HIDE DEF AnalyzerState, k, rest
    <3>3. /\ rest \in Seq(AnalyzerState)
          /\ Len(rest) = IF 1 <= k THEN k - 1 + 1 ELSE 0
          /\ \A i \in 1..k - 1 + 1 : rest[i] = analyzers[1 + i - 1]
      BY <1>1, <2>1, <3>1, <3>2, SubSeqProperties
    <3>4. /\ k \in Nat /\ k - 1 + 1 = k /\ (~(1 <= k) => k = 0)
          /\ \A i \in 1..k : 1 + i - 1 = i
      BY <2>1
    <3>5. Len(rest) = k
      BY <3>3, <3>4
    <3>6. \A i \in 1..k : rest[i] = analyzers[i]
      BY <3>3, <3>4
    <3> QED
      BY <3>3, <3>5, <3>6
  <2> HIDE DEF a, rest, k
  <2>3. /\ analyzers' \in Seq(AnalyzerState) /\ Len(analyzers') = k + 1
        /\ \A i \in 1..k : analyzers'[i] = rest[i]
        /\ analyzers'[k + 1] = a
    <3> HIDE DEF AnalyzerState
    <3> QED
      BY <1>4, <1>6, <2>1, <2>2
  <2> QED
    BY <2>1, <2>2, <2>3 DEF k
<1> HIDE DEF a, m, found, callee, rest
<1>8. /\ \A i \in 1..n - 1 : analyzers'[i].module = analyzers[i].module
      /\ \A i \in 1..n - 1 : RootWaits(analyzers'[i])
  BY <1>1, <1>2, <1>6, <1>7
<1>9. TypeOK'
  BY <1>1, <1>4, <1>5, <1>7 DEF TypeOK
<1>10. NestedAnalysesDiffer'
  <2>1. 1 \in 1..n - 1 /\ 2..n - 1 \subseteq 1..n - 1
    BY <1>1
  <2> QED
    BY <1>3, <1>5, <1>7, <1>8, <2>1 DEF NestedAnalysesDiffer
<1> QED
  BY <1>3, <1>7, <1>8, <1>9, <1>10 DEF IInv, RootWaits, m

LEMMA AllDoneStep ==
  ASSUME IInv, AllDone
  PROVE  IInv'
<1>1. TypeOK /\ Working /\ Current \in AnalyzerState
  <2>1. TypeOK /\ Working
    BY DEF IInv, AllDone, Working
  <2> QED
    BY <2>1, CurrentState
<1>2. /\ analyzers' = <<>> /\ returned' = Current.recorded
      /\ UNCHANGED <<calls, forest, cache>>
  BY DEF AllDone, program
<1>3. returned' \in ResultMap
  BY <1>1, <1>2 DEF AnalyzerState
<1>4. analyzers' \in Seq(AnalyzerState) /\ Len(analyzers') = 0
  BY <1>2
<1>5. TypeOK'
  BY <1>1, <1>2, <1>3, <1>4 DEF TypeOK
<1> QED
  BY <1>2, <1>4, <1>5 DEF IInv, NestedAnalysesDiffer, Working

LEMMA NextIInv == IInv /\ [Next]_vars => IInv'
<1> SUFFICES ASSUME IInv, [Next]_vars PROVE IInv'
  OBVIOUS
<1>1. CASE RootKnown \/ EnterRoot
  BY <1>1, RootStep
<1>2. CASE CallKnown \/ EnterCall \/ ImportedKnown
  BY <1>2, CallStep
<1>3. CASE Return
  BY <1>3, ReturnStep
<1>4. CASE ReadFails \/ EnterModule
  BY <1>4, EnterModuleStep
<1>5. CASE ModuleDone
  BY <1>5, ModuleDoneStep
<1>6. CASE AllDone
  BY <1>6, AllDoneStep
<1>7. CASE UNCHANGED vars
  BY <1>7 DEF vars, program, IInv, TypeOK, NestedAnalysesDiffer, Working,
              RootWaits
<1> QED
  BY <1>1, <1>2, <1>3, <1>4, <1>5, <1>6, <1>7 DEF Next, Terminated

LEMMA Inductive == Spec => []IInv
<1> QED
  BY InitIInv, NextIInv, PTL DEF Spec

-----------------------------------------------------------------------------
(* However modules import each other, nested analyses are of different     *)
(* modules, each marked in the cache until it ends.                        *)
THEOREM AnalysesDiffer == Spec => []NestedAnalysesDiffer
<1>1. IInv => NestedAnalysesDiffer
  BY DEF IInv
<1> QED
  BY <1>1, Inductive, PTL

Kept ==
  \A m \in DOMAIN cache : m \in DOMAIN cache' /\
    \A f \in DOMAIN cache[m] :
      f \in DOMAIN cache'[m] /\ cache'[m][f] = cache[m][f]

(* A result in cached_module_results is never taken back or changed, also  *)
(* when an analysis that ends replaces the entry of its module.            *)
THEOREM CachedResultsStay == Spec => CacheIsFinal
<1>1. IInv /\ [Next]_vars => [Kept]_vars
  <2> SUFFICES ASSUME IInv, Next PROVE Kept
    OBVIOUS
  <2>1. CASE UNCHANGED cache
    BY <2>1 DEF Kept
  <2>2. CASE ReadFails \/ EnterModule
    <3> DEFINE m == ModuleOf[Callee]
    <3>1. cache' = Put(cache, m, <<>>) /\ Callee \in Function /\ m \notin DOMAIN cache
      <4>1. TypeOK /\ Working /\ Current.frames # <<>> /\ AtCall
        BY <2>2 DEF IInv, ReadFails, EnterModule, AtCall
      <4> QED
        BY <2>2, <4>1, FrameFacts DEF ReadFails, EnterModule, ImportKnown, Target
    <3> HIDE DEF m
    <3> QED
      BY <3>1 DEF Kept, Put
  <2>3. CASE ModuleDone
    <3>1. cache[Current.module] = <<>>
      BY <2>3, ModuleDoneStep
    <3>2. cache' = Put(cache, Current.module, Current.recorded)
      BY <2>3 DEF ModuleDone, CacheAfter
    <3>3. DOMAIN cache[Current.module] = {}
      BY <3>1
    <3> QED
      BY <3>2, <3>3 DEF Kept, Put
  <2> QED
    BY <2>1, <2>2, <2>3 DEF Next, RootKnown, EnterRoot, CallKnown, EnterCall,
       Return, ImportedKnown, AllDone, Terminated, vars
<1>2. [][Kept]_vars <=> CacheIsFinal
  BY DEF Kept, CacheIsFinal
<1> QED
  BY <1>1, <1>2, Inductive, PTL DEF Spec

-----------------------------------------------------------------------------
(* What a result says is deserved: it names nothing the function cannot    *)
(* lead to, and is unknown only with an excuse.                            *)
Excused(X, f) ==
  \/ X \cap Lost # {}
  \/ \E C \in SUBSET (X \cap Function) : OwnCycle(C)
  \/ \A M \in SUBSET Module :
       ModuleOf[f] \in M /\ ClosedModules(M) =>
         \E C \in SUBSET M : ImportCycle(C)

Deserved(f, res) ==
  \A X \in SUBSET Target : Closed(X) /\ f \in X =>
    res \subseteq X \cup {Unknown} /\ (Unknown \in res => Excused(X, f))

(* A result is complete or says that it is not.                            *)
Complete(f, res) == Unknown \notin res => f \in res /\ Closed(res)

GoodMap(map) ==
  \A f \in DOMAIN map : Complete(f, map[f]) /\ Deserved(f, map[f])

AtChild(fr) == fr.next <= Len(calls[fr.fn])
ChildOf(fr) == calls[fr.fn][fr.next]

(* What an activation collects covers the children it has looked at.       *)
GoodFrame(fr) ==
  /\ Unknown \notin fr.acc =>
       /\ Closed(fr.acc)
       /\ \A k \in 1..fr.next - 1 :
            k \in 1..Len(calls[fr.fn]) => calls[fr.fn][k] \in fr.acc
  /\ Deserved(fr.fn, fr.acc)

(* The activations are a path of calls inside the module, that begins with *)
(* the function the forest is at; only functions on it are visited without *)
(* a result, and only functions from there on are not recorded.            *)
GoodAnalyzer(a) ==
  /\ GoodMap(a.inferred) /\ GoodMap(a.recorded)
  /\ \A f \in a.visited : f \in DOMAIN a.inferred
                          \/ \E k \in 1..Len(a.frames) : a.frames[k].fn = f
  /\ \A f \in Own(a.module) : f \in DOMAIN a.recorded \/ f \in ToSet(a.queue)
  /\ \A f \in ToSet(a.queue) : ModuleOf[f] = a.module
  /\ a.frames # <<>> => a.queue # <<>> /\ a.frames[1].fn = Head(a.queue)
  /\ \A k \in 1..Len(a.frames) :
       GoodFrame(a.frames[k]) /\ ModuleOf[a.frames[k].fn] = a.module
  /\ \A k \in 1..Len(a.frames) - 1 :
       AtChild(a.frames[k]) /\ ChildOf(a.frames[k]) = a.frames[k + 1].fn

(* An analyzer with another one above it is at a call into its module.     *)
Nested(a, b) ==
  /\ a.frames # <<>> /\ AtChild(Last(a.frames))
  /\ ChildOf(Last(a.frames)) \in Function
  /\ Imported(Last(a.frames).fn, ChildOf(Last(a.frames)))
  /\ ModuleOf[ChildOf(Last(a.frames))] = b.module

(* A module in the cache is unreadable, being analysed, or there as a      *)
(* whole.                                                                  *)
CacheCovers(as, c) ==
  \A m \in DOMAIN c :
    \/ m \in Unreadable
    \/ \E i \in 2..Len(as) : as[i].module = m
    \/ \A f \in Own(m) : f \in DOMAIN c[m]

Sound(as, c, r) ==
  /\ GoodMap(r)
  /\ \A m \in DOMAIN c : GoodMap(c[m])
  /\ \A i \in 1..Len(as) : GoodAnalyzer(as[i])
  /\ \A i \in 1..Len(as) - 1 : Nested(as[i], as[i + 1])
  /\ CacheCovers(as, c)

(* Every forest holds the functions of its module.                         *)
ForestIsOwn == \A m \in Module : ToSet(forest[m]) = Own(m)

AllSound == ForestIsOwn /\ Sound(analyzers, cache, returned)

-----------------------------------------------------------------------------
(* What is deserved by a function is deserved by those that call it.       *)
LEMMA CallerDeserves ==
  ASSUME NEW f \in Function, NEW c \in Function, c \in ToSet(calls[f]),
         ModuleOf \in [Function -> Module],
         NEW res, Deserved(c, res)
  PROVE  Deserved(f, res)
<1> SUFFICES ASSUME NEW X \in SUBSET Target, Closed(X), f \in X
             PROVE  /\ res \subseteq X \cup {Unknown}
                    /\ Unknown \in res => Excused(X, f)
  BY DEF Deserved
<1>1. c \in X
  BY DEF Closed
<1>2. res \subseteq X \cup {Unknown} /\ (Unknown \in res => Excused(X, c))
  BY <1>1 DEF Deserved
<1>3. ASSUME Excused(X, c)
      PROVE  Excused(X, f)
  <2>1. ASSUME NEW M \in SUBSET Module, ModuleOf[f] \in M, ClosedModules(M)
        PROVE  ModuleOf[c] \in M
    <3>1. CASE Imported(f, c)
      <4>1. Imports(ModuleOf[f], ModuleOf[c])
        BY <3>1 DEF Imports
      <4> QED
        BY <2>1, <4>1 DEF ClosedModules
    <3>2. CASE ~Imported(f, c)
      BY <2>1, <3>2 DEF Imported
    <3> QED
      BY <3>1, <3>2
  <2> QED
    BY <1>3, <2>1 DEF Excused
<1> QED
  BY <1>2, <1>3

(* Two results that are deserved are so together.                          *)
LEMMA BothDeserved ==
  ASSUME NEW f, NEW R, NEW S, Deserved(f, R), Deserved(f, S)
  PROVE  Deserved(f, R \cup S)
  BY DEF Deserved

LEMMA BothClosed ==
  ASSUME NEW R, NEW S, Closed(R), Closed(S)
  PROVE  Closed(R \cup S)
  BY DEF Closed

LEMMA SelfDeserved ==
  ASSUME NEW f \in Function, Unknown \notin Target
  PROVE  Deserved(f, {f})
<1>1. f # Unknown
  BY DEF Target
<1> QED
  BY <1>1 DEF Deserved

(* An opaque call is deserved by those that call it.                       *)
LEMMA OpaqueDeserved ==
  ASSUME NEW f \in Function, NEW c \in Target, c \in ToSet(calls[f]),
         Unknown \notin Target
  PROVE  Deserved(f, {c})
  BY DEF Deserved, Closed

(* So is "unknown" if the function called is lost.                         *)
LEMMA LostDeserved ==
  ASSUME NEW f \in Function, NEW c \in Lost, c \in ToSet(calls[f])
  PROVE  Deserved(f, {Unknown})
<1> SUFFICES ASSUME NEW X \in SUBSET Target, Closed(X), f \in X
             PROVE  Excused(X, f)
  BY DEF Deserved
<1>1. c \in X
  BY DEF Closed
<1> QED
  BY <1>1 DEF Excused

LEMMA GoodMapPut ==
  ASSUME NEW map \in ResultMap, GoodMap(map), NEW f, NEW res,
         Complete(f, res), Deserved(f, res)
  PROVE  GoodMap(Put(map, f, res))
  BY DEF GoodMap, Put

-----------------------------------------------------------------------------
(* The steps on one analyzer keep it sound.                                *)
LEMMA AdvanceSound ==
  ASSUME NEW a \in AnalyzerState, GoodAnalyzer(a), NEW res \in SUBSET Reason,
         calls \in [Function -> Seq(Target)],
         a.frames # <<>>, AtChild(Last(a.frames)),
         Complete(ChildOf(Last(a.frames)), res), Deserved(Last(a.frames).fn, res)
  PROVE  GoodAnalyzer(Advance(a, res))
<1> DEFINE n == Len(a.frames)
           old == a.frames[n]
           new == [fn |-> old.fn, next |-> old.next + 1, acc |-> old.acc \cup res]
           b == Advance(a, res)
<1>1. a.frames \in Seq(FrameState) /\ n \in Nat \ {0} /\ Last(a.frames) = old
  BY DEF AnalyzerState, Last
<1>2. /\ b.frames = [a.frames EXCEPT ![n] = new]
      /\ b.module = a.module /\ b.inferred = a.inferred /\ b.visited = a.visited
      /\ b.queue = a.queue /\ b.recorded = a.recorded
  BY DEF Advance, AnalyzerState
<1>3. old \in FrameState /\ n \in 1..n
  <2> HIDE DEF FrameState
  <2> QED
    BY <1>1
<1>4. old.next \in Nat /\ old.fn \in Function /\ calls[old.fn] \in Seq(Target)
  BY <1>3 DEF FrameState
<1>5. GoodFrame(new)
  <2>1. GoodFrame(old) /\ new.fn = old.fn /\ new.next = old.next + 1
        /\ new.acc = old.acc \cup res
    BY <1>3 DEF GoodAnalyzer
  <2> HIDE DEF new, old
  <2>2. Deserved(new.fn, new.acc)
    BY <1>1, <2>1, BothDeserved DEF GoodFrame
  <2>3. ASSUME Unknown \notin new.acc
        PROVE  /\ Closed(new.acc)
               /\ \A k \in 1..new.next - 1 :
                    k \in 1..Len(calls[new.fn]) => calls[new.fn][k] \in new.acc
    <3>1. Closed(res) /\ calls[old.fn][old.next] \in res
      BY <1>1, <2>1, <2>3 DEF Complete, ChildOf
    <3>2. /\ Closed(old.acc)
          /\ \A k \in 1..old.next - 1 :
               k \in 1..Len(calls[old.fn]) => calls[old.fn][k] \in old.acc
      BY <2>1, <2>3 DEF GoodFrame
    <3>3. Closed(new.acc)
      BY <2>1, <3>1, <3>2, BothClosed
    <3>4. \A k \in 1..new.next - 1 : k \in 1..old.next - 1 \/ k = old.next
      BY <1>4, <2>1
    <3> QED
      BY <2>1, <3>1, <3>2, <3>3, <3>4
  <2> QED
    BY <2>2, <2>3 DEF GoodFrame
<1>6. /\ Len(b.frames) = n
      /\ \A k \in 1..n : b.frames[k] = IF k = n THEN new ELSE a.frames[k]
  <2> HIDE DEF new, b, FrameState
  <2> QED
    BY <1>1, <1>2
<1>7. \A k \in 1..n : b.frames[k].fn = a.frames[k].fn
  <2>1. new.fn = old.fn
    OBVIOUS
  <2> HIDE DEF new, b
  <2> QED
    BY <1>6, <2>1
<1>8. \A k \in 1..n - 1 : b.frames[k] = a.frames[k] /\ k \in 1..n /\ k + 1 \in 1..n
  <2>1. \A k \in 1..n - 1 : k # n /\ k \in 1..n /\ k + 1 \in 1..n
    BY <1>1
  <2> HIDE DEF new, b, old, n
  <2> QED
    BY <1>6, <2>1
<1> HIDE DEF new, b, old
<1>9. \A k \in 1..n :
        GoodFrame(b.frames[k]) /\ ModuleOf[b.frames[k].fn] = b.module
  BY <1>2, <1>5, <1>6, <1>7 DEF GoodAnalyzer
<1>10. \A k \in 1..n - 1 :
         AtChild(b.frames[k]) /\ ChildOf(b.frames[k]) = b.frames[k + 1].fn
  BY <1>7, <1>8 DEF GoodAnalyzer
<1>11. b.frames # <<>> => b.queue # <<>> /\ b.frames[1].fn = Head(b.queue)
  <2>1. 1 \in 1..n
    BY <1>1
  <2> QED
    BY <1>2, <1>7, <2>1 DEF GoodAnalyzer
<1>12. \A f \in b.visited : f \in DOMAIN b.inferred
                            \/ \E k \in 1..n : b.frames[k].fn = f
  BY <1>2, <1>7 DEF GoodAnalyzer
<1>13. GoodAnalyzer(b)
  BY <1>2, <1>6, <1>9, <1>10, <1>11, <1>12 DEF GoodAnalyzer
<1> QED
  BY <1>13 DEF b

LEMMA EnterSound ==
  ASSUME NEW a \in AnalyzerState, GoodAnalyzer(a), NEW f \in Function,
         ModuleOf[f] = a.module, a.queue # <<>>,
         IF a.frames = <<>> THEN f = Head(a.queue)
         ELSE AtChild(Last(a.frames)) /\ f = ChildOf(Last(a.frames))
  PROVE  GoodAnalyzer(Enter(a, f))
<1> DEFINE n == Len(a.frames)
           new == [fn |-> f, next |-> 1, acc |-> {}]
           b == Enter(a, f)
<1>1. a.frames \in Seq(FrameState) /\ n \in Nat
  BY DEF AnalyzerState
<1>2. /\ b.frames = Append(a.frames, new)
      /\ b.module = a.module /\ b.inferred = a.inferred
      /\ b.visited = a.visited \cup {f}
      /\ b.queue = a.queue /\ b.recorded = a.recorded
  BY DEF Enter, AnalyzerState
<1>3. GoodFrame(new) /\ new.fn = f
  BY DEF GoodFrame, Deserved, Closed
<1> HIDE DEF new, b
<1>4. /\ Len(b.frames) = n + 1 /\ b.frames[n + 1] = new
      /\ \A k \in 1..n : b.frames[k] = a.frames[k]
  <2> HIDE DEF FrameState
  <2>1. new \in FrameState
    BY DEF new, FrameState
  <2> QED
    BY <1>1, <1>2, <2>1
<1>5. \A k \in 1..n + 1 : k \in 1..n \/ k = n + 1
  BY <1>1
<1>6. \A k \in 1..n + 1 :
        GoodFrame(b.frames[k]) /\ ModuleOf[b.frames[k].fn] = b.module
  BY <1>2, <1>3, <1>4, <1>5 DEF GoodAnalyzer
<1>7. \A k \in 1..n + 1 - 1 :
        AtChild(b.frames[k]) /\ ChildOf(b.frames[k]) = b.frames[k + 1].fn
  <2>1. \A k \in 1..n + 1 - 1 : k \in 1..n /\ (k \in 1..n - 1 \/ k = n)
    BY <1>1
  <2>2. \A k \in 1..n - 1 : k \in 1..n /\ k + 1 \in 1..n
    BY <1>1
  <2>3. \A k \in 1..n - 1 :
          AtChild(b.frames[k]) /\ ChildOf(b.frames[k]) = b.frames[k + 1].fn
    BY <1>4, <2>2 DEF GoodAnalyzer
  <2>4. n \in 1..n => AtChild(b.frames[n]) /\ ChildOf(b.frames[n]) = b.frames[n + 1].fn
    <3>1. n \in 1..n => a.frames # <<>>
      OBVIOUS
    <3> QED
      BY <1>3, <1>4, <3>1 DEF Last
  <2> QED
    BY <2>1, <2>3, <2>4
<1>8. b.frames # <<>> => b.queue # <<>> /\ b.frames[1].fn = Head(b.queue)
  <2>1. CASE n = 0
    <3>1. a.frames = <<>>
      BY <1>1, <2>1
    <3> QED
      BY <1>2, <1>3, <1>4, <2>1, <3>1
  <2>2. CASE n # 0
    <3>1. 1 \in 1..n /\ a.frames # <<>>
      BY <1>1, <2>2
    <3> QED
      BY <1>2, <1>4, <3>1 DEF GoodAnalyzer
  <2> QED
    BY <2>1, <2>2
<1>9. \A g \in b.visited : g \in DOMAIN b.inferred
                           \/ \E k \in 1..n + 1 : b.frames[k].fn = g
  <2>1. n + 1 \in 1..n + 1 /\ \A k \in 1..n : k \in 1..n + 1
    BY <1>1
  <2> QED
    BY <1>2, <1>3, <1>4, <2>1 DEF GoodAnalyzer
<1>10. GoodAnalyzer(b)
  BY <1>2, <1>4, <1>6, <1>7, <1>8, <1>9 DEF GoodAnalyzer
<1> QED
  BY <1>10 DEF b

LEMMA RecordSound ==
  ASSUME NEW a \in AnalyzerState, GoodAnalyzer(a), NEW f \in Function,
         NEW res \in SUBSET Reason, a.frames = <<>>, a.queue # <<>>,
         f = Head(a.queue), Complete(f, res), Deserved(f, res)
  PROVE  GoodAnalyzer(Record(a, f, res))
<1> DEFINE b == Record(a, f, res)
<1>1. /\ b.frames = <<>> /\ b.module = a.module /\ b.inferred = a.inferred
      /\ b.visited = a.visited /\ b.queue = Tail(a.queue)
      /\ b.recorded = Put(a.recorded, f, res)
  BY DEF Record, AnalyzerState
<1>2. a.queue \in Seq(Function) /\ a.recorded \in ResultMap
  BY DEF AnalyzerState
<1>3. GoodMap(b.recorded) /\ DOMAIN b.recorded = DOMAIN a.recorded \cup {f}
  <2>1. GoodMap(Put(a.recorded, f, res))
    BY <1>2, GoodMapPut DEF GoodAnalyzer
  <2> QED
    BY <1>1, <2>1 DEF Put
<1>4. /\ \A g \in ToSet(a.queue) : g = f \/ g \in ToSet(b.queue)
      /\ \A g \in ToSet(b.queue) : g \in ToSet(a.queue)
  <2> DEFINE q == a.queue
             t == Tail(a.queue)
  <2>1. /\ q \in Seq(Function) /\ q # <<>> /\ Len(q) \in Nat
        /\ Len(t) = Len(q) - 1 /\ \A i \in 1..Len(q) - 1 : t[i] = q[i + 1]
        /\ f = q[1] /\ DOMAIN q = 1..Len(q) /\ DOMAIN t = 1..Len(t)
    BY <1>2
  <2>2. \A i \in 1..Len(q) - 1 : i + 1 \in 1..Len(q)
    BY <2>1
  <2>3. \A i \in 1..Len(q) : i = 1 \/ (i - 1 \in 1..Len(q) - 1 /\ i = (i - 1) + 1)
    BY <2>1
  <2> HIDE DEF q, t
  <2>4. \A g \in ToSet(q) : g = f \/ g \in ToSet(t)
    <3> SUFFICES ASSUME NEW i \in 1..Len(q), i # 1
                 PROVE  q[i] \in ToSet(t)
      BY <2>1 DEF ToSet
    <3>1. i - 1 \in 1..Len(t) /\ t[i - 1] = q[i]
      BY <2>1, <2>3
    <3> QED
      BY <2>1, <3>1 DEF ToSet
  <2>5. \A g \in ToSet(t) : g \in ToSet(q)
    BY <2>1, <2>2 DEF ToSet
  <2> QED
    BY <1>1, <2>4, <2>5 DEF q, t
<1> HIDE DEF b
<1>5. Len(b.frames) = 0
  BY <1>1
<1>6. /\ \A g \in b.visited : g \in DOMAIN b.inferred
      /\ \A g \in Own(b.module) : g \in DOMAIN b.recorded \/ g \in ToSet(b.queue)
      /\ \A g \in ToSet(b.queue) : ModuleOf[g] = b.module
  <2>1. 1..Len(a.frames) = {}
    OBVIOUS
  <2> QED
    BY <1>1, <1>3, <1>4, <2>1 DEF GoodAnalyzer
<1>7. GoodMap(b.inferred)
  BY <1>1 DEF GoodAnalyzer
<1>8. GoodAnalyzer(b)
  BY <1>1, <1>3, <1>5, <1>6, <1>7 DEF GoodAnalyzer
<1> QED
  BY <1>8 DEF b

-----------------------------------------------------------------------------
(* What _process_node and _process_imported_node answer.                   *)
LEMMA InputFacts ==
  /\ ModuleOf \in [Function -> Module] /\ Unknown \notin Target
  /\ Opaque \cap Function = {} /\ Unlisted \subseteq Function
  BY ModuleInputs

LEMMA CachedGood ==
  ASSUME AllSound, NEW m, NEW f, Cached(m, f)
  PROVE  Complete(f, cache[m][f]) /\ Deserved(f, cache[m][f])
  BY DEF AllSound, Sound, GoodMap, Cached

(* The innermost analyzer, at a call.                                      *)
LEMMA AtCallFacts ==
  ASSUME IInv, AllSound, AtCall
  PROVE  /\ TypeOK /\ Working /\ Current \in AnalyzerState
         /\ Current.frames # <<>> /\ Current.queue # <<>>
         /\ GoodAnalyzer(Current) /\ Frame = Last(Current.frames)
         /\ AtChild(Frame) /\ Callee = ChildOf(Frame)
         /\ Frame.fn \in Function /\ ModuleOf[Frame.fn] = Current.module
         /\ Callee \in Target /\ Callee \in ToSet(calls[Frame.fn])
<1>1. /\ TypeOK /\ Working /\ Current \in AnalyzerState /\ RootWaits(Current)
      /\ Current.frames # <<>> /\ Frame.next <= Len(calls[Frame.fn])
  BY CurrentState DEF IInv, AtCall
<1>2. /\ Len(analyzers) \in 1..Len(analyzers) /\ Current = analyzers[Len(analyzers)]
  BY <1>1, CurrentState
<1>3. GoodAnalyzer(Current)
  BY <1>2 DEF AllSound, Sound
<1>4. Frame \in FrameState /\ Callee \in Target
  BY <1>1, FrameFacts DEF IInv
<1>5. Len(Current.frames) \in 1..Len(Current.frames)
      /\ Frame = Current.frames[Len(Current.frames)]
  BY <1>1 DEF AnalyzerState, Frame, Last
<1>6. Frame.fn \in Function /\ Frame.next \in Nat \ {0}
  BY <1>4 DEF FrameState
<1>7. calls[Frame.fn] \in Seq(Target)
  BY <1>1, <1>6 DEF TypeOK
<1>8. Frame.next \in DOMAIN calls[Frame.fn]
  BY <1>1, <1>6, <1>7
<1>9. Callee \in ToSet(calls[Frame.fn])
  BY <1>8 DEF Callee, ToSet
<1>10. ModuleOf[Frame.fn] = Current.module
  BY <1>3, <1>5 DEF GoodAnalyzer
<1> QED
  BY <1>1, <1>3, <1>4, <1>6, <1>9, <1>10
     DEF Frame, AtChild, Callee, ChildOf, RootWaits

(* A function that is being processed leads back to itself: the part of    *)
(* the path from it on is a cycle.                                         *)
LEMMA OpenCallDeserved ==
  ASSUME IInv, AllSound, AtCall, ~Imported(Frame.fn, Callee),
         Callee \in Current.visited, Callee \notin DOMAIN Current.inferred
  PROVE  Deserved(Frame.fn, {Unknown})
<1> SUFFICES ASSUME NEW X \in SUBSET Target, Closed(X), Frame.fn \in X
             PROVE  \E C \in SUBSET (X \cap Function) : OwnCycle(C)
  BY DEF Deserved, Excused
<1> DEFINE fs == Current.frames
           n == Len(fs)
<1>1. /\ GoodAnalyzer(Current) /\ fs \in Seq(FrameState) /\ fs # <<>>
      /\ Frame = fs[n] /\ n \in Nat \ {0}
      /\ Frame.fn \in Function /\ Callee \in ToSet(calls[Frame.fn])
      /\ Callee \in Function
  <2>1. fs \in Seq(FrameState) /\ fs # <<>> /\ Frame = Last(fs)
    BY AtCallFacts DEF AnalyzerState
  <2>2. n \in Nat \ {0}
    <3> HIDE DEF FrameState, fs
    <3> QED
      BY <2>1
  <2> QED
    BY <2>1, <2>2, AtCallFacts DEF Imported, Last
<1>2. PICK i \in 1..n : fs[i].fn = Callee
  BY <1>1 DEF GoodAnalyzer
<1>3. \A k \in 1..n : fs[k].fn \in Function /\ fs[k].next \in Nat \ {0}
                      /\ ModuleOf[fs[k].fn] = Current.module
  <2>1. \A k \in 1..n : fs[k] \in FrameState
    <3> HIDE DEF FrameState, fs
    <3> QED
      BY <1>1
  <2> QED
    BY <1>1, <2>1 DEF FrameState, GoodAnalyzer
<1>4. \A k \in 1..n - 1 : fs[k + 1].fn \in ToSet(calls[fs[k].fn])
  <2> SUFFICES ASSUME NEW k \in 1..n - 1
               PROVE  fs[k + 1].fn \in ToSet(calls[fs[k].fn])
    OBVIOUS
  <2>1. k \in 1..n
    BY <1>1
  <2>2. AtChild(fs[k]) /\ ChildOf(fs[k]) = fs[k + 1].fn
    BY <1>1 DEF GoodAnalyzer
  <2>3. calls[fs[k].fn] \in Seq(Target) /\ fs[k].next \in Nat \ {0}
    BY <1>3, <2>1, AtCallFacts DEF TypeOK
  <2>4. fs[k].next \in DOMAIN calls[fs[k].fn]
    BY <2>2, <2>3 DEF AtChild
  <2> QED
    BY <2>2, <2>4 DEF ChildOf, ToSet
<1> DEFINE C == {f \in X \cap Function : \E k \in i..n : fs[k].fn = f}
<1>5. Callee \in C
  <2>1. i \in i..n /\ Callee \in X
    BY <1>1 DEF Closed
  <2> QED
    BY <1>1, <1>2, <2>1
<1>6. ASSUME NEW f \in C
      PROVE  \E c \in ToSet(calls[f]) \cap C : ~Imported(f, c)
  <2>1. PICK k \in i..n : fs[k].fn = f
    OBVIOUS
  <2>2. k \in 1..n /\ (k # n => k \in 1..n - 1 /\ k + 1 \in i..n /\ k + 1 \in 1..n)
    BY <1>1
  <2>3. CASE k = n
    BY <1>1, <1>5, <2>1, <2>3
  <2>4. CASE k # n
    <3>1. fs[k + 1].fn \in ToSet(calls[f]) /\ fs[k + 1].fn \in X
      BY <1>4, <2>1, <2>2, <2>4 DEF Closed
    <3>2. fs[k + 1].fn \in C
      BY <1>3, <2>2, <2>4, <3>1
    <3>3. ~Imported(f, fs[k + 1].fn)
      BY <1>3, <2>1, <2>2, <2>4 DEF Imported
    <3> QED
      BY <3>1, <3>2, <3>3
  <2> QED
    BY <2>3, <2>4
<1> HIDE DEF C
<1>7. OwnCycle(C)
  BY <1>5, <1>6 DEF OwnCycle
<1>8. C \in SUBSET (X \cap Function)
  BY DEF C
<1> QED
  BY <1>7, <1>8

(* A module that is being analysed leads back to itself.                   *)
LEMMA OpenModuleDeserved ==
  ASSUME IInv, AllSound, AtCall, Callee \in Function,
         NEW i \in 1..Len(analyzers), analyzers[i].module = ModuleOf[Callee],
         Imported(Frame.fn, Callee)
  PROVE  Deserved(Frame.fn, {Unknown})
<1> SUFFICES ASSUME NEW M \in SUBSET Module, ModuleOf[Frame.fn] \in M,
                    ClosedModules(M)
             PROVE  \E C \in SUBSET M : ImportCycle(C)
  BY DEF Deserved, Excused
<1> DEFINE n == Len(analyzers)
<1>1. /\ n \in Nat \ {0} /\ analyzers[n].module = ModuleOf[Frame.fn]
      /\ ModuleOf \in [Function -> Module] /\ Frame.fn \in Function
      /\ Callee \in ToSet(calls[Frame.fn])
  BY AtCallFacts, CurrentState, InputFacts
<1>2. Imports(ModuleOf[Frame.fn], ModuleOf[Callee])
  BY <1>1 DEF Imports
<1>3. analyzers[i].module \in M
  BY <1>1, <1>2 DEF ClosedModules
<1>4. ASSUME NEW k \in 1..n - 1
      PROVE  Imports(analyzers[k].module, analyzers[k + 1].module)
  <2>1. Nested(analyzers[k], analyzers[k + 1]) /\ k \in 1..n
    BY <1>1 DEF AllSound, Sound
  <2>2. analyzers[k] \in AnalyzerState /\ GoodAnalyzer(analyzers[k])
    <3>1. analyzers \in Seq(AnalyzerState)
      BY DEF IInv, TypeOK
    <3>2. GoodAnalyzer(analyzers[k])
      BY <2>1 DEF AllSound, Sound
    <3> HIDE DEF AnalyzerState
    <3> QED
      BY <2>1, <3>1, <3>2
  <2> DEFINE a == analyzers[k]
             fr == Last(a.frames)
  <2>3. /\ fr \in FrameState /\ ModuleOf[fr.fn] = a.module
    <3>1. a.frames \in Seq(FrameState) /\ a.frames # <<>>
      BY <2>1, <2>2 DEF AnalyzerState, Nested
    <3>2. Len(a.frames) \in 1..Len(a.frames)
      BY <3>1
    <3> QED
      BY <2>2, <3>1, <3>2 DEF GoodAnalyzer, Last
  <2>4. /\ AtChild(fr) /\ ChildOf(fr) \in Function /\ Imported(fr.fn, ChildOf(fr))
        /\ ModuleOf[ChildOf(fr)] = analyzers[k + 1].module
    BY <2>1 DEF Nested
  <2> HIDE DEF fr
  <2>5. /\ fr.fn \in Function /\ fr.next \in Nat \ {0}
        /\ calls[fr.fn] \in Seq(Target)
    BY <2>3 DEF FrameState, IInv, TypeOK
  <2>6. fr.next \in DOMAIN calls[fr.fn]
    BY <2>4, <2>5 DEF AtChild
  <2>7. ChildOf(fr) \in ToSet(calls[fr.fn])
    BY <2>6 DEF ChildOf, ToSet
  <2> QED
    BY <2>3, <2>4, <2>5, <2>7 DEF Imports
<1> DEFINE C == {m \in M : \E k \in i..n : analyzers[k].module = m}
<1>5. analyzers[i].module \in C
  <2>1. i \in i..n
    BY <1>1
  <2> QED
    BY <1>3, <2>1
<1>6. ASSUME NEW m \in C
      PROVE  \E k \in C : Imports(m, k)
  <2>1. PICK k \in i..n : analyzers[k].module = m
    OBVIOUS
  <2>2. k \in 1..n /\ (k # n => k \in 1..n - 1 /\ k + 1 \in i..n /\ k + 1 \in 1..n)
    BY <1>1
  <2>3. CASE k = n
    BY <1>1, <1>2, <1>5, <2>1, <2>3
  <2>4. CASE k # n
    <3>1. Imports(m, analyzers[k + 1].module)
      BY <1>4, <2>1, <2>2, <2>4
    <3>2. analyzers[k + 1].module \in Module
      <4>1. analyzers \in Seq(AnalyzerState)
        BY DEF IInv, TypeOK
      <4>2. analyzers[k + 1] \in AnalyzerState
        <5> HIDE DEF AnalyzerState
        <5> QED
          BY <2>2, <2>4, <4>1
      <4> QED
        BY <4>2 DEF AnalyzerState
    <3>3. analyzers[k + 1].module \in M
      BY <3>1, <3>2 DEF ClosedModules
    <3> QED
      BY <2>2, <2>4, <3>1, <3>3
  <2> QED
    BY <2>3, <2>4
<1> HIDE DEF C
<1>7. ImportCycle(C)
  BY <1>5, <1>6 DEF ImportCycle
<1>8. C \in SUBSET M
  BY DEF C
<1> QED
  BY <1>7, <1>8

(* Every answer _process_node gives without processing the function.       *)
LEMMA AnswerSound ==
  ASSUME IInv, AllSound, AtCall, ~Imported(Frame.fn, Callee), Known(Callee)
  PROVE  Complete(Callee, Answer(Callee)) /\ Deserved(Frame.fn, Answer(Callee))
<1>1. /\ GoodAnalyzer(Current) /\ Frame.fn \in Function /\ Callee \in Function
      /\ Callee \in ToSet(calls[Frame.fn]) /\ ModuleOf \in [Function -> Module]
  BY AtCallFacts, InputFacts DEF Imported
<1>2. CASE Callee \in DOMAIN Current.inferred
  BY <1>1, <1>2, CallerDeserves DEF GoodAnalyzer, GoodMap, Answer
<1>3. CASE Callee \notin DOMAIN Current.inferred
           /\ Cached(ModuleOf[Callee], Callee)
  BY <1>1, <1>3, CallerDeserves, CachedGood DEF Answer
<1>4. CASE Callee \notin DOMAIN Current.inferred
           /\ ~Cached(ModuleOf[Callee], Callee)
  BY <1>4, OpenCallDeserved DEF Answer, Known, Complete
<1> QED
  BY <1>2, <1>3, <1>4

(* Every answer _process_imported_node gives without an analysis.          *)
LEMMA ImportAnswerSound ==
  ASSUME IInv, AllSound, AtCall, Imported(Frame.fn, Callee), ImportKnown(Callee)
  PROVE  /\ Complete(Callee, ImportAnswer(Callee))
         /\ Deserved(Frame.fn, ImportAnswer(Callee))
<1>1. /\ Frame.fn \in Function /\ Callee \in Target
      /\ Callee \in ToSet(calls[Frame.fn])
      /\ ModuleOf \in [Function -> Module] /\ Unknown \notin Target
      /\ Opaque \cap Function = {}
  BY AtCallFacts, InputFacts
<1>2. CASE Callee \in Opaque
  <2>1. ImportAnswer(Callee) = {Callee} /\ Callee \notin Function
    BY <1>1, <1>2 DEF ImportAnswer
  <2> QED
    BY <1>1, <2>1, OpaqueDeserved DEF Complete, Closed
<1>3. CASE Callee \notin Opaque /\ Cached(ModuleOf[Callee], Callee)
  BY <1>1, <1>3, CallerDeserves, CachedGood DEF ImportAnswer, Target
<1>4. CASE Callee \notin Opaque /\ ~Cached(ModuleOf[Callee], Callee)
  <2>1. ImportAnswer(Callee) = {Unknown} /\ Callee \in Function
    BY <1>1, <1>4 DEF ImportAnswer, Target
  <2> DEFINE m == ModuleOf[Callee]
  <2>2. m \in DOMAIN cache /\ Callee \notin DOMAIN cache[m]
    BY <1>4, <2>1 DEF ImportKnown, Cached
  <2>3. \/ m \in Unreadable
        \/ \E i \in 1..Len(analyzers) : analyzers[i].module = m
        \/ \A f \in Own(m) : f \in DOMAIN cache[m]
    <3>1. Len(analyzers) \in Nat
      BY AtCallFacts, CurrentState
    <3>2. \A i \in 2..Len(analyzers) : i \in 1..Len(analyzers)
      BY <3>1
    <3> QED
      BY <2>2, <3>2 DEF AllSound, Sound, CacheCovers
  <2>4. CASE \E i \in 1..Len(analyzers) : analyzers[i].module = m
    BY <2>1, <2>4, OpenModuleDeserved DEF Complete
  <2>5. CASE m \in Unreadable \/ \A f \in Own(m) : f \in DOMAIN cache[m]
    <3>1. Callee \in Lost
      BY <2>1, <2>2, <2>5 DEF Own, Lost
    <3> QED
      BY <1>1, <2>1, <3>1, LostDeserved DEF Complete
  <2> QED
    BY <2>3, <2>4, <2>5
<1> QED
  BY <1>2, <1>3, <1>4

-----------------------------------------------------------------------------
(* Nothing in AllSound but the variables it is about changes.              *)
LEMMA SoundNext ==
  ASSUME AllSound, UNCHANGED program, Sound(analyzers', cache', returned')
  PROVE  AllSound'
<1>1. calls' = calls
  BY DEF program
<1>2. ASSUME NEW X, NEW f
      PROVE  Excused(X, f)' <=> Excused(X, f)
  BY <1>1 DEF Excused, OwnCycle, ClosedModules, ImportCycle, Imports, Imported,
     Lost
<1>3. ASSUME GoodMap(returned')
      PROVE  GoodMap(returned)'
  BY <1>1, <1>2, <1>3 DEF GoodMap, Complete, Deserved, Closed, Target
<1>4. ASSUME NEW m \in DOMAIN cache', GoodMap(cache'[m])
      PROVE  GoodMap(cache[m])'
  BY <1>1, <1>2, <1>4 DEF GoodMap, Complete, Deserved, Closed, Target
<1>5. ASSUME NEW i \in 1..Len(analyzers'), GoodAnalyzer(analyzers'[i])
      PROVE  GoodAnalyzer(analyzers[i])'
  <2>1. GoodMap(analyzers[i].inferred)' /\ GoodMap(analyzers[i].recorded)'
    BY <1>1, <1>2, <1>5 DEF GoodAnalyzer, GoodMap, Complete, Deserved, Closed,
       Target
  <2>2. ASSUME NEW k \in 1..Len(analyzers'[i].frames)
        PROVE  GoodFrame(analyzers[i].frames[k])'
    <3>1. GoodFrame(analyzers'[i].frames[k])
      BY <1>5 DEF GoodAnalyzer
    <3> QED
      BY <1>1, <1>2, <3>1 DEF GoodFrame, Deserved, Closed, Target
  <2> QED
    BY <1>1, <1>5, <2>1, <2>2 DEF GoodAnalyzer, AtChild, ChildOf, Own
<1>6. ASSUME NEW i \in 1..Len(analyzers') - 1,
             Nested(analyzers'[i], analyzers'[i + 1])
      PROVE  Nested(analyzers[i], analyzers[i + 1])'
  BY <1>1, <1>6 DEF Nested, AtChild, ChildOf, Imported
<1>7. CacheCovers(analyzers', cache') => CacheCovers(analyzers, cache)'
  BY DEF CacheCovers, Own
<1>8. ForestIsOwn'
  BY DEF AllSound, ForestIsOwn, program, Own
<1> QED
  BY <1>3, <1>4, <1>5, <1>6, <1>7, <1>8 DEF AllSound, Sound

(* A step of the innermost analyzer that leaves the cache alone.           *)
LEMMA SameModulesSound ==
  ASSUME IInv, AllSound, Working, NEW a \in AnalyzerState,
         a.module = Current.module, GoodAnalyzer(a),
         analyzers' = WithCurrent(a), UNCHANGED <<program, cache, returned>>
  PROVE  AllSound'
<1> DEFINE n == Len(analyzers)
           as == analyzers'
<1>1. /\ analyzers \in Seq(AnalyzerState) /\ n \in Nat \ {0}
      /\ Current = analyzers[n]
  BY CurrentState DEF IInv, TypeOK
<1>2. /\ Len(as) = n
      /\ \A i \in 1..n : as[i] = IF i = n THEN a ELSE analyzers[i]
  <2>1. as = [analyzers EXCEPT ![n] = a] /\ n \in 1..Len(analyzers)
    BY <1>1 DEF WithCurrent
  <2> HIDE DEF AnalyzerState
  <2> QED
    BY <1>1, <2>1
<1>3. \A i \in 1..n : as[i].module = analyzers[i].module
  BY <1>1, <1>2
<1>4. \A i \in 1..n - 1 : as[i] = analyzers[i] /\ i \in 1..n /\ i + 1 \in 1..n
  <2>1. \A i \in 1..n - 1 : i # n /\ i \in 1..n /\ i + 1 \in 1..n
    BY <1>1
  <2> HIDE DEF n, as
  <2> QED
    BY <1>2, <2>1
<1> HIDE DEF as
<1>5. \A i \in 1..n : GoodAnalyzer(as[i])
  BY <1>2 DEF AllSound, Sound
<1>6. \A i \in 1..n - 1 : Nested(as[i], as[i + 1])
  BY <1>3, <1>4 DEF AllSound, Sound, Nested
<1>7. CacheCovers(as, cache)
  <2>1. \A i \in 2..n : i \in 1..n
    BY <1>1
  <2> QED
    BY <1>2, <1>3, <2>1 DEF AllSound, Sound, CacheCovers
<1>8. Sound(as, cache, returned)
  BY <1>2, <1>5, <1>6, <1>7 DEF AllSound, Sound
<1> QED
  BY <1>8, SoundNext DEF as

LEMMA InitSound == Init => AllSound
<1> SUFFICES ASSUME Init PROVE AllSound
  OBVIOUS
<1>1. PICK in \in Inputs : calls = in.calls /\ forest = in.forest
  BY DEF Init
<1>2. WellFormed(in) /\ Root \in Module
  BY <1>1, ModuleInputs
<1>3. /\ analyzers = <<Analyzer(Root)>> /\ cache = <<>> /\ returned = <<>>
      /\ ToSet(forest[Root]) = Own(Root)
  BY <1>1, <1>2 DEF Init, WellFormed
<1>4. \A m \in Module : ToSet(forest[m]) = Own(m)
  BY <1>1, <1>2 DEF WellFormed
<1>5. GoodAnalyzer(Analyzer(Root))
  BY <1>2, <1>4 DEF GoodAnalyzer, Analyzer, GoodMap, Own
<1>6. Len(analyzers) = 1 /\ analyzers[1] = Analyzer(Root)
  BY <1>3
<1>7. DOMAIN cache = {} /\ GoodMap(returned)
  BY <1>3 DEF GoodMap
<1> HIDE DEF Init
<1>8. \A i \in 1..Len(analyzers) : GoodAnalyzer(analyzers[i])
  BY <1>5, <1>6
<1>9. 1..Len(analyzers) - 1 = {}
  BY <1>6
<1> QED
  BY <1>4, <1>7, <1>8, <1>9 DEF AllSound, Sound, CacheCovers, ForestIsOwn

LEMMA RootSound ==
  ASSUME IInv, AllSound, RootKnown \/ EnterRoot
  PROVE  AllSound'
<1> DEFINE f == Head(Current.queue)
<1>1. /\ TypeOK /\ Working /\ Current \in AnalyzerState /\ AtRoot
      /\ Current.queue # <<>> /\ Current.frames = <<>>
  BY CurrentState DEF IInv, RootKnown, EnterRoot, AtRoot
<1>2. GoodAnalyzer(Current)
  <2>1. Len(analyzers) \in 1..Len(analyzers) /\ Current = analyzers[Len(analyzers)]
    BY <1>1, CurrentState
  <2> QED
    BY <2>1 DEF AllSound, Sound
<1>3. f \in Function /\ f \in ToSet(Current.queue)
  <2>1. Current.queue \in Seq(Function)
    BY <1>1 DEF AnalyzerState
  <2>2. 1 \in DOMAIN Current.queue /\ f = Current.queue[1]
    BY <1>1, <2>1
  <2> QED
    BY <2>1, <2>2 DEF ToSet
<1>4. ModuleOf[f] = Current.module
  BY <1>2, <1>3 DEF GoodAnalyzer
<1>5. CASE RootKnown
  <2> DEFINE a == Record(Current, f, Answer(f))
  <2>1. Answer(f) \in SUBSET Reason
    BY <1>1, <1>3, AnswerType
  <2>2. f \in DOMAIN Current.inferred \/ Cached(ModuleOf[f], f)
    <3>1. 1..Len(Current.frames) = {}
      BY <1>1
    <3> QED
      BY <1>2, <1>5, <3>1 DEF RootKnown, Known, GoodAnalyzer
  <2>3. Complete(f, Answer(f)) /\ Deserved(f, Answer(f))
    BY <1>2, <2>2, CachedGood DEF GoodAnalyzer, GoodMap, Answer
  <2>4. a \in AnalyzerState /\ a.module = Current.module
    BY <1>1, <1>3, <2>1, RecordState
  <2>5. GoodAnalyzer(a)
    BY <1>1, <1>2, <1>3, <2>1, <2>3, RecordSound
  <2>6. analyzers' = WithCurrent(a) /\ UNCHANGED <<program, cache, returned>>
    BY <1>5 DEF RootKnown
  <2> HIDE DEF a
  <2> QED
    BY <1>1, <2>4, <2>5, <2>6, SameModulesSound
<1>6. CASE EnterRoot
  <2> DEFINE a == Enter(Current, f)
  <2>1. a \in AnalyzerState /\ a.module = Current.module
    BY <1>1, <1>3, EnterState
  <2>2. GoodAnalyzer(a)
    BY <1>1, <1>2, <1>3, <1>4, EnterSound
  <2>3. analyzers' = WithCurrent(a) /\ UNCHANGED <<program, cache, returned>>
    BY <1>6 DEF EnterRoot
  <2> HIDE DEF a
  <2> QED
    BY <1>1, <2>1, <2>2, <2>3, SameModulesSound
<1> QED
  BY <1>5, <1>6

LEMMA CallSound ==
  ASSUME IInv, AllSound, CallKnown \/ EnterCall \/ ImportedKnown
  PROVE  AllSound'
<1>1. AtCall
  BY DEF CallKnown, EnterCall, ImportedKnown
<1>2. /\ TypeOK /\ Working /\ Current \in AnalyzerState
      /\ Current.frames # <<>> /\ Current.queue # <<>>
      /\ GoodAnalyzer(Current) /\ Frame = Last(Current.frames)
      /\ AtChild(Frame) /\ Callee = ChildOf(Frame)
      /\ ModuleOf[Frame.fn] = Current.module /\ Callee \in Target
      /\ calls \in [Function -> Seq(Target)]
  BY <1>1, AtCallFacts DEF TypeOK
<1>3. ~Imported(Frame.fn, Callee) =>
        Callee \in Function /\ ModuleOf[Callee] = Current.module
  BY <1>2 DEF Imported
<1>4. CASE CallKnown
  <2> DEFINE R == Answer(Callee)
             a == Advance(Current, R)
  <2>1. R \in SUBSET Reason
    BY <1>2, <1>3, <1>4, AnswerType DEF CallKnown
  <2>2. Complete(Callee, R) /\ Deserved(Frame.fn, R)
    BY <1>1, <1>4, AnswerSound DEF CallKnown
  <2> HIDE DEF R
  <2>3. a \in AnalyzerState /\ a.module = Current.module
    BY <1>2, <2>1, AdvanceState
  <2>4. GoodAnalyzer(a)
    BY <1>2, <2>1, <2>2, AdvanceSound
  <2>5. analyzers' = WithCurrent(a) /\ UNCHANGED <<program, cache, returned>>
    BY <1>4 DEF CallKnown, R
  <2> HIDE DEF a
  <2> QED
    BY <1>2, <2>3, <2>4, <2>5, SameModulesSound
<1>5. CASE EnterCall
  <2> DEFINE a == Enter(Current, Callee)
  <2>1. Callee \in Function /\ ModuleOf[Callee] = Current.module
    BY <1>3, <1>5 DEF EnterCall
  <2>2. a \in AnalyzerState /\ a.module = Current.module
    BY <1>2, <2>1, EnterState
  <2>3. GoodAnalyzer(a)
    BY <1>2, <2>1, EnterSound
  <2>4. analyzers' = WithCurrent(a) /\ UNCHANGED <<program, cache, returned>>
    BY <1>5 DEF EnterCall
  <2> HIDE DEF a
  <2> QED
    BY <1>2, <2>2, <2>3, <2>4, SameModulesSound
<1>6. CASE ImportedKnown
  <2> DEFINE R == ImportAnswer(Callee)
             a == Advance(Current, R)
  <2>1. R \in SUBSET Reason
    BY <1>2, ImportAnswerType
  <2>2. Complete(Callee, R) /\ Deserved(Frame.fn, R)
    BY <1>1, <1>6, ImportAnswerSound DEF ImportedKnown
  <2> HIDE DEF R
  <2>3. a \in AnalyzerState /\ a.module = Current.module
    BY <1>2, <2>1, AdvanceState
  <2>4. GoodAnalyzer(a)
    BY <1>2, <2>1, <2>2, AdvanceSound
  <2>5. analyzers' = WithCurrent(a) /\ UNCHANGED <<program, cache, returned>>
    BY <1>6 DEF ImportedKnown, R
  <2> HIDE DEF a
  <2> QED
    BY <1>2, <2>3, <2>4, <2>5, SameModulesSound
<1> QED
  BY <1>4, <1>5, <1>6

(* All children are looked at: what was collected, with the function, is   *)
(* its complete result.                                                    *)
LEMMA ReturnResult ==
  ASSUME NEW fr \in FrameState, GoodFrame(fr), ~AtChild(fr),
         calls \in [Function -> Seq(Target)], Unknown \notin Target
  PROVE  /\ Complete(fr.fn, {fr.fn} \cup fr.acc)
         /\ Deserved(fr.fn, {fr.fn} \cup fr.acc)
<1>1. fr.fn \in Function /\ fr.next \in Nat \ {0} /\ calls[fr.fn] \in Seq(Target)
  BY DEF FrameState
<1>2. Deserved(fr.fn, {fr.fn} \cup fr.acc)
  BY <1>1, SelfDeserved, BothDeserved DEF GoodFrame
<1>3. ASSUME Unknown \notin fr.acc
      PROVE  Closed({fr.fn} \cup fr.acc)
  <2>1. ToSet(calls[fr.fn]) \subseteq fr.acc
    <3> SUFFICES ASSUME NEW k \in DOMAIN calls[fr.fn]
                 PROVE  calls[fr.fn][k] \in fr.acc
      BY DEF ToSet
    <3>1. k \in 1..Len(calls[fr.fn]) /\ Len(calls[fr.fn]) < fr.next
      BY <1>1 DEF AtChild
    <3>2. k \in 1..fr.next - 1
      <4>1. Len(calls[fr.fn]) \in Nat
        BY <1>1
      <4> QED
        BY <1>1, <3>1, <4>1
    <3> QED
      BY <1>3, <3>1, <3>2 DEF GoodFrame
  <2>2. Closed(fr.acc)
    BY <1>3 DEF GoodFrame
  <2> QED
    BY <2>1, <2>2 DEF Closed
<1> QED
  BY <1>2, <1>3 DEF Complete

LEMMA FrontSeq ==
  ASSUME NEW S, NEW s \in Seq(S), s # <<>>
  PROVE  /\ Front(s) \in Seq(S) /\ Len(Front(s)) = Len(s) - 1
         /\ \A k \in 1..Len(s) - 1 : Front(s)[k] = s[k]
<1> DEFINE n == Len(s) - 1
<1>1. n \in Nat /\ \A i \in 1..n : s[i] \in S
  OBVIOUS
<1>2. Front(s) = SubSeq(s, 1, n)
  BY DEF Front
<1>3. 1 \in Int /\ n \in Int /\ n - 1 + 1 = n /\ \A i \in 1..n : 1 + i - 1 = i
  BY <1>1
<1> HIDE DEF n
<1>4. ~(1 <= n) => n = 0
  BY <1>1
<1>5. /\ SubSeq(s, 1, n) \in Seq(S)
      /\ Len(SubSeq(s, 1, n)) = IF 1 <= n THEN n - 1 + 1 ELSE 0
      /\ \A i \in 1..n - 1 + 1 : SubSeq(s, 1, n)[i] = s[1 + i - 1]
  BY <1>1, <1>3, SubSeqProperties
<1>6. Len(Front(s)) = n /\ \A i \in 1..n : Front(s)[i] = s[i]
  BY <1>2, <1>3, <1>4, <1>5
<1> QED
  BY <1>2, <1>5, <1>6 DEF n

LEMMA ReturnSound ==
  ASSUME IInv, AllSound, Return
  PROVE  AllSound'
<1> DEFINE fs == Current.frames
           n == Len(fs)
           f == Frame.fn
           res == {f} \cup Frame.acc
           left == [Current EXCEPT !.inferred = Put(@, f, res),
                                   !.frames = Front(@)]
           a == IF left.frames = <<>> THEN Record(left, f, res)
                                      ELSE Advance(left, res)
<1>1. /\ TypeOK /\ Working /\ Current \in AnalyzerState
      /\ fs # <<>> /\ RootWaits(Current) /\ Current.queue # <<>>
      /\ calls \in [Function -> Seq(Target)] /\ Unknown \notin Target
  BY CurrentState, InputFacts DEF IInv, Return, RootWaits, TypeOK
<1>2. GoodAnalyzer(Current)
  <2>1. Len(analyzers) \in 1..Len(analyzers) /\ Current = analyzers[Len(analyzers)]
    BY <1>1, CurrentState
  <2> QED
    BY <2>1 DEF AllSound, Sound
<1>3. f \in Function /\ res \in SUBSET Reason /\ Frame \in FrameState
  BY <1>1, FrameFacts DEF FrameState, Reason, Target
<1>4. fs \in Seq(FrameState) /\ n \in Nat \ {0} /\ Frame = fs[n]
  <2>1. fs \in Seq(FrameState)
    BY <1>1 DEF AnalyzerState
  <2> HIDE DEF FrameState
  <2> QED
    BY <1>1, <2>1 DEF Frame, Last
<1>5. Complete(f, res) /\ Deserved(f, res)
  <2>1. n \in 1..n
    BY <1>4
  <2>2. GoodFrame(Frame) /\ ~AtChild(Frame)
    BY <1>1, <1>2, <1>4, <2>1 DEF GoodAnalyzer, Return, AtCall, AtChild
  <2> QED
    BY <1>1, <1>3, <2>2, ReturnResult
<1>6. /\ Front(fs) \in Seq(FrameState) /\ Len(Front(fs)) = n - 1
      /\ \A k \in 1..n - 1 : Front(fs)[k] = fs[k]
  <2> HIDE DEF FrameState, fs
  <2> QED
    BY <1>1, <1>4, FrontSeq
<1>7. /\ left.frames = Front(fs) /\ left.module = Current.module
      /\ left.inferred = Put(Current.inferred, f, res)
      /\ left.visited = Current.visited /\ left.queue = Current.queue
      /\ left.recorded = Current.recorded
  <2> HIDE DEF f, res
  <2> QED
    BY <1>1 DEF AnalyzerState
<1>8. left \in AnalyzerState
  <2>1. Put(Current.inferred, f, res) \in ResultMap
    <3>1. Current.inferred \in ResultMap
      BY <1>1 DEF AnalyzerState
    <3> HIDE DEF f, res
    <3> QED
      BY <1>3, <3>1, PutResult
  <2> HIDE DEF f, res
  <2> QED
    BY <1>1, <1>6, <2>1 DEF AnalyzerState
<1> HIDE DEF left, f, res
<1>9. GoodMap(left.inferred) /\ DOMAIN left.inferred = DOMAIN Current.inferred \cup {f}
  <2>1. GoodMap(Current.inferred) /\ Current.inferred \in ResultMap
    BY <1>1, <1>2 DEF GoodAnalyzer, AnalyzerState
  <2>2. GoodMap(Put(Current.inferred, f, res))
    BY <1>5, <2>1, GoodMapPut
  <2> QED
    BY <1>7, <2>2 DEF Put
<1>10. /\ \A k \in 1..n - 1 : k \in 1..n
       /\ \A k \in 1..n : k \in 1..n - 1 \/ k = n
       /\ \A k \in 1..n - 1 - 1 : k \in 1..n - 1 /\ k + 1 \in 1..n - 1
  BY <1>4
<1>11. /\ \A g \in Current.visited : g \in DOMAIN Current.inferred
                                     \/ \E k \in 1..n : fs[k].fn = g
       /\ \A k \in 1..n : GoodFrame(fs[k]) /\ ModuleOf[fs[k].fn] = Current.module
       /\ \A k \in 1..n - 1 : AtChild(fs[k]) /\ ChildOf(fs[k]) = fs[k + 1].fn
  BY <1>2 DEF GoodAnalyzer
<1>12. \A g \in left.visited : g \in DOMAIN left.inferred
                               \/ \E k \in 1..n - 1 : left.frames[k].fn = g
  <2> SUFFICES ASSUME NEW g \in Current.visited, g \notin DOMAIN Current.inferred,
                      g # f
               PROVE  \E k \in 1..n - 1 : left.frames[k].fn = g
    BY <1>7, <1>9
  <2>1. PICK k \in 1..n : fs[k].fn = g
    BY <1>11
  <2>2. k # n
    BY <1>4, <2>1 DEF f
  <2> QED
    BY <1>6, <1>7, <1>10, <2>1, <2>2
<1>13. \A k \in 1..n - 1 :
         GoodFrame(left.frames[k]) /\ ModuleOf[left.frames[k].fn] = left.module
  <2> SUFFICES ASSUME NEW k \in 1..n - 1
               PROVE  GoodFrame(left.frames[k])
                      /\ ModuleOf[left.frames[k].fn] = left.module
    OBVIOUS
  <2>1. left.frames[k] = fs[k] /\ k \in 1..n
    BY <1>6, <1>7, <1>10
  <2> HIDE DEF fs, n
  <2> QED
    BY <1>7, <1>11, <2>1
<1>14. \A k \in 1..n - 1 - 1 :
         AtChild(left.frames[k]) /\ ChildOf(left.frames[k]) = left.frames[k + 1].fn
  <2> SUFFICES ASSUME NEW k \in 1..n - 1 - 1
               PROVE  AtChild(left.frames[k])
                      /\ ChildOf(left.frames[k]) = left.frames[k + 1].fn
    OBVIOUS
  <2>1. k \in 1..n - 1 /\ k + 1 \in 1..n - 1
    BY <1>10
  <2> HIDE DEF fs, n
  <2>2. left.frames[k] = fs[k] /\ left.frames[k + 1] = fs[k + 1]
    BY <1>6, <1>7, <2>1
  <2>3. AtChild(fs[k]) /\ ChildOf(fs[k]) = fs[k + 1].fn
    BY <1>11, <2>1
  <2> QED
    BY <2>2, <2>3
<1>15. left.frames # <<>> => left.queue # <<>> /\ left.frames[1].fn = Head(left.queue)
  <2>1. left.frames # <<>> => 1 \in 1..n - 1
    BY <1>4, <1>6, <1>7
  <2> QED
    BY <1>1, <1>2, <1>6, <1>7, <2>1 DEF GoodAnalyzer
<1>16. GoodAnalyzer(left)
  BY <1>2, <1>6, <1>7, <1>9, <1>12, <1>13, <1>14, <1>15 DEF GoodAnalyzer
<1>17. CASE left.frames = <<>>
  <2>1. n = 1
    BY <1>4, <1>6, <1>7, <1>17
  <2>2. f = Head(left.queue)
    BY <1>1, <1>2, <1>4, <1>7, <2>1 DEF GoodAnalyzer, f
  <2>3. GoodAnalyzer(Record(left, f, res))
    BY <1>1, <1>3, <1>5, <1>7, <1>8, <1>16, <1>17, <2>2, RecordSound
  <2>4. Record(left, f, res) \in AnalyzerState
        /\ Record(left, f, res).module = left.module
    BY <1>1, <1>3, <1>7, <1>8, RecordState
  <2>5. a = Record(left, f, res)
    BY <1>17
  <2>6. analyzers' = WithCurrent(a) /\ UNCHANGED <<program, cache, returned>>
    BY DEF Return, left, f, res
  <2> HIDE DEF a
  <2> QED
    BY <1>1, <1>7, <2>3, <2>4, <2>5, <2>6, SameModulesSound
<1>18. CASE left.frames # <<>>
  <2>1. n - 1 \in 1..n - 1 /\ Last(left.frames) = fs[n - 1]
    BY <1>4, <1>6, <1>7, <1>18 DEF Last
  <2>2. AtChild(fs[n - 1]) /\ ChildOf(fs[n - 1]) = fs[n - 1 + 1].fn
    <3>1. \A k \in 1..n - 1 : AtChild(fs[k]) /\ ChildOf(fs[k]) = fs[k + 1].fn
      BY <1>11
    <3> DEFINE k == n - 1
    <3>2. k \in 1..n - 1
      BY <2>1
    <3> HIDE DEF fs, n, k
    <3>3. AtChild(fs[k]) /\ ChildOf(fs[k]) = fs[k + 1].fn
      BY <3>1, <3>2
    <3> QED
      BY <3>3 DEF k
  <2>3. n - 1 + 1 = n /\ n - 1 \in 1..n
    BY <1>4, <2>1
  <2>4. ChildOf(fs[n - 1]) = f
    BY <1>4, <2>2, <2>3 DEF f
  <2>5. Deserved(fs[n - 1].fn, res)
    <3>1. fs[n - 1] \in FrameState
      <4> HIDE DEF FrameState, fs
      <4> QED
        BY <1>4, <2>3
    <3>2. /\ fs[n - 1].fn \in Function /\ fs[n - 1].next \in Nat \ {0}
          /\ calls[fs[n - 1].fn] \in Seq(Target)
      BY <1>1, <3>1 DEF FrameState
    <3>3. fs[n - 1].next \in DOMAIN calls[fs[n - 1].fn]
      BY <2>2, <3>2 DEF AtChild
    <3>4. f \in ToSet(calls[fs[n - 1].fn])
      BY <2>4, <3>3 DEF ChildOf, ToSet
    <3> QED
      BY <1>3, <1>5, <3>2, <3>4, CallerDeserves, InputFacts
  <2>6. GoodAnalyzer(Advance(left, res))
    BY <1>1, <1>3, <1>5, <1>8, <1>16, <1>18, <2>1, <2>2, <2>4, <2>5, AdvanceSound
  <2>7. Advance(left, res) \in AnalyzerState
        /\ Advance(left, res).module = left.module
    BY <1>3, <1>8, AdvanceState
  <2>8. a = Advance(left, res)
    BY <1>18
  <2>9. analyzers' = WithCurrent(a) /\ UNCHANGED <<program, cache, returned>>
    BY DEF Return, left, f, res
  <2> HIDE DEF a
  <2> QED
    BY <1>1, <1>7, <2>6, <2>7, <2>8, <2>9, SameModulesSound
<1> QED
  BY <1>17, <1>18

(* What is in the cache is not disturbed by a mark for a module that was   *)
(* not there.                                                              *)
LEMMA MarkFacts ==
  ASSUME IInv, AllSound, NEW m, m \notin DOMAIN cache,
         NEW c, c = Put(cache, m, <<>>)
  PROVE  /\ \A k \in DOMAIN c : GoodMap(c[k])
         /\ DOMAIN c = DOMAIN cache \cup {m}
         /\ \A k \in DOMAIN cache : c[k] = cache[k]
<1>1. /\ DOMAIN c = DOMAIN cache \cup {m} /\ c[m] = <<>>
      /\ \A k \in DOMAIN cache : c[k] = cache[k]
  BY DEF Put
<1>2. GoodMap(<<>>)
  BY DEF GoodMap
<1> QED
  BY <1>1, <1>2 DEF AllSound, Sound

LEMMA ReadFailsSound ==
  ASSUME IInv, AllSound, ReadFails
  PROVE  AllSound'
<1> DEFINE n == Len(analyzers)
           as == analyzers'
           c == cache'
           m == ModuleOf[Callee]
           a == Advance(Current, {Unknown})
<1>1. /\ AtCall /\ Imported(Frame.fn, Callee) /\ ~ImportKnown(Callee)
      /\ m \in Unreadable /\ c = Put(cache, m, <<>>) /\ as = WithCurrent(a)
      /\ UNCHANGED <<program, returned>>
  BY DEF ReadFails
<1>2. /\ Working /\ Current \in AnalyzerState /\ Current.frames # <<>>
      /\ GoodAnalyzer(Current) /\ Frame = Last(Current.frames)
      /\ AtChild(Frame) /\ Callee = ChildOf(Frame) /\ Frame.fn \in Function
      /\ Callee \in Function /\ Callee \in ToSet(calls[Frame.fn])
      /\ calls \in [Function -> Seq(Target)] /\ m \notin DOMAIN cache
  BY <1>1, AtCallFacts DEF TypeOK, ImportKnown
<1>3. Deserved(Frame.fn, {Unknown})
  <2>1. Callee \in Lost
    BY <1>1, <1>2 DEF Lost
  <2> QED
    BY <1>2, <2>1, LostDeserved
<1>4. GoodAnalyzer(a) /\ a \in AnalyzerState /\ a.module = Current.module
  <2> DEFINE R == {Unknown}
  <2>1. Complete(Callee, R) /\ R \in SUBSET Reason
    BY DEF Complete, Reason
  <2>2. Deserved(Frame.fn, R)
    BY <1>3
  <2> HIDE DEF R
  <2>3. GoodAnalyzer(Advance(Current, R))
    BY <1>2, <2>1, <2>2, AdvanceSound
  <2>4. /\ Advance(Current, R) \in AnalyzerState
        /\ Advance(Current, R).module = Current.module
    BY <1>2, <2>1, AdvanceState
  <2> QED
    BY <2>3, <2>4 DEF R
<1>5. /\ analyzers \in Seq(AnalyzerState) /\ n \in Nat \ {0}
      /\ Current = analyzers[n]
  BY <1>2, CurrentState DEF IInv, TypeOK
<1> HIDE DEF a, as, c, m
<1>6. /\ Len(as) = n
      /\ \A i \in 1..n : as[i] = IF i = n THEN a ELSE analyzers[i]
  <2>1. as = [analyzers EXCEPT ![n] = a] /\ n \in 1..Len(analyzers)
    BY <1>1, <1>5 DEF WithCurrent
  <2>2. analyzers \in Seq(AnalyzerState) /\ a \in AnalyzerState
        /\ n = Len(analyzers)
    BY <1>4, <1>5
  <2> HIDE DEF AnalyzerState, n
  <2>3. /\ Len([analyzers EXCEPT ![n] = a]) = n
        /\ \A i \in 1..n :
             [analyzers EXCEPT ![n] = a][i] = IF i = n THEN a ELSE analyzers[i]
    BY <2>1, <2>2, ExceptSeq
  <2> QED
    BY <2>1, <2>3
<1>7. \A i \in 1..n : as[i].module = analyzers[i].module
  BY <1>4, <1>5, <1>6
<1>8. \A i \in 1..n - 1 : as[i] = analyzers[i] /\ i \in 1..n /\ i + 1 \in 1..n
  <2>1. \A i \in 1..n - 1 : i # n /\ i \in 1..n /\ i + 1 \in 1..n
    BY <1>5
  <2> HIDE DEF n
  <2> QED
    BY <1>6, <2>1
<1>9. \A i \in 1..n : GoodAnalyzer(as[i])
  BY <1>4, <1>6 DEF AllSound, Sound
<1>10. \A i \in 1..n - 1 : Nested(as[i], as[i + 1])
  BY <1>7, <1>8 DEF AllSound, Sound, Nested
<1>11. /\ \A k \in DOMAIN c : GoodMap(c[k])
       /\ DOMAIN c = DOMAIN cache \cup {m}
       /\ \A k \in DOMAIN cache : c[k] = cache[k]
  BY <1>1, <1>2, MarkFacts
<1>12. CacheCovers(as, c)
  <2>1. \A i \in 2..n : i \in 1..n
    BY <1>5
  <2> QED
    BY <1>1, <1>6, <1>7, <1>11, <2>1 DEF AllSound, Sound, CacheCovers
<1>13. Sound(as, c, returned) /\ returned' = returned
  BY <1>1, <1>6, <1>9, <1>10, <1>11, <1>12 DEF AllSound, Sound
<1> QED
  BY <1>1, <1>13, SoundNext DEF as, c

(* The analyzer that begins is at the call it was started for.             *)
LEMMA EnterModuleSound ==
  ASSUME IInv, AllSound, EnterModule
  PROVE  AllSound'
<1> DEFINE n == Len(analyzers)
           as == analyzers'
           c == cache'
           m == ModuleOf[Callee]
           a == Analyzer(m)
<1>1. /\ AtCall /\ Imported(Frame.fn, Callee) /\ ~ImportKnown(Callee)
      /\ c = Put(cache, m, <<>>) /\ as = Append(analyzers, a)
      /\ UNCHANGED <<program, returned>>
  BY DEF EnterModule
<1>2. /\ TypeOK /\ Working /\ Current.frames # <<>>
      /\ Frame = Last(Current.frames) /\ AtChild(Frame) /\ Callee = ChildOf(Frame)
      /\ Callee \in Function /\ m \in Module /\ m \notin DOMAIN cache
  BY <1>1, AtCallFacts, InputFacts DEF ImportKnown
<1>3. /\ analyzers \in Seq(AnalyzerState) /\ n \in Nat \ {0}
      /\ Current = analyzers[n] /\ a \in AnalyzerState /\ a.module = m
  BY <1>2, CurrentState, NewAnalyzer DEF TypeOK
<1>4. ToSet(forest[m]) = Own(m)
  BY <1>2 DEF IInv, AllSound, ForestIsOwn
<1>5. GoodAnalyzer(a) /\ Nested(Current, a)
  <2>1. GoodAnalyzer(a)
    BY <1>4 DEF GoodAnalyzer, Analyzer, GoodMap, Own
  <2>2. Nested(Current, a)
    BY <1>1, <1>2, <1>3 DEF Nested
  <2> QED
    BY <2>1, <2>2
<1> HIDE DEF a, as, c, m
<1>6. /\ Len(as) = n + 1 /\ as[n + 1] = a
      /\ \A i \in 1..n : as[i] = analyzers[i]
  <2> HIDE DEF AnalyzerState
  <2> QED
    BY <1>1, <1>3
<1>7. /\ \A i \in 1..n + 1 : i \in 1..n \/ i = n + 1
      /\ \A i \in 1..n : i \in 1..n + 1
      /\ \A i \in 1..n + 1 - 1 : i \in 1..n /\ (i = n \/ i \in 1..n - 1)
      /\ \A i \in 1..n - 1 : i \in 1..n /\ i + 1 \in 1..n
      /\ n + 1 \in 2..n + 1 /\ \A i \in 2..n : i \in 1..n /\ i \in 2..n + 1
  BY <1>3
<1>8. \A i \in 1..n + 1 : GoodAnalyzer(as[i])
  BY <1>5, <1>6, <1>7 DEF AllSound, Sound
<1>9. \A i \in 1..n + 1 - 1 : Nested(as[i], as[i + 1])
  <2>1. \A i \in 1..n - 1 : Nested(as[i], as[i + 1])
    BY <1>6, <1>7 DEF AllSound, Sound
  <2>2. n \in 1..n => Nested(as[n], as[n + 1])
    BY <1>3, <1>5, <1>6
  <2> QED
    BY <1>7, <2>1, <2>2
<1>10. /\ \A k \in DOMAIN c : GoodMap(c[k])
       /\ DOMAIN c = DOMAIN cache \cup {m}
       /\ \A k \in DOMAIN cache : c[k] = cache[k]
  BY <1>1, <1>2, MarkFacts
<1>11. CacheCovers(as, c)
  BY <1>3, <1>6, <1>7, <1>10 DEF AllSound, Sound, CacheCovers
<1>12. Sound(as, c, returned) /\ returned' = returned
  BY <1>1, <1>6, <1>8, <1>9, <1>10, <1>11 DEF AllSound, Sound
<1> QED
  BY <1>1, <1>12, SoundNext DEF as, c

(* The results of a module are cached as they were recorded, and the call  *)
(* that led to the module gets its answer from them.                       *)
LEMMA ModuleDoneSound ==
  ASSUME IInv, AllSound, ModuleDone
  PROVE  AllSound'
<1> DEFINE n == Len(analyzers)
           as == analyzers'
           c == cache'
           m == Current.module
           below == analyzers[n - 1]
           at == Last(below.frames)
           callee == ChildOf(at)
           R == IF callee \in DOMAIN Current.recorded
                THEN Current.recorded[callee] ELSE {Unknown}
           a == Advance(below, R)
           rest == SubSeq(analyzers, 1, n - 2)
<1>1. TypeOK /\ Working /\ analyzers \in Seq(AnalyzerState) /\ n \in Nat /\ n > 1
  <2>1. TypeOK /\ analyzers \in Seq(AnalyzerState)
    BY DEF IInv, TypeOK
  <2>2. Len(analyzers) \in Nat /\ Len(analyzers) > 1
    <3> HIDE DEF AnalyzerState
    <3> QED
      BY <2>1 DEF ModuleDone
  <2> QED
    BY <2>1, <2>2 DEF Working
<1>2. /\ Current = analyzers[n] /\ Current \in AnalyzerState
      /\ below \in AnalyzerState
      /\ \A i \in 1..n : analyzers[i] \in AnalyzerState
  <2> HIDE DEF AnalyzerState
  <2> QED
    BY <1>1, CurrentState
<1>3. /\ GoodAnalyzer(Current) /\ GoodAnalyzer(below) /\ Nested(below, Current)
      /\ \A i \in 1..n : GoodAnalyzer(analyzers[i])
      /\ \A i \in 1..n - 1 : Nested(analyzers[i], analyzers[i + 1])
  <2>1. /\ \A i \in 1..n : GoodAnalyzer(analyzers[i])
        /\ \A i \in 1..n - 1 : Nested(analyzers[i], analyzers[i + 1])
    BY DEF AllSound, Sound
  <2>2. n \in 1..n /\ n - 1 \in 1..n /\ n - 1 \in 1..n - 1 /\ n - 1 + 1 = n
    BY <1>1
  <2>3. Nested(analyzers[n - 1], analyzers[n - 1 + 1])
    <3> DEFINE k == n - 1
    <3>1. k \in 1..n - 1
      BY <2>2
    <3> HIDE DEF k, n
    <3>2. Nested(analyzers[k], analyzers[k + 1])
      BY <2>1, <3>1
    <3> QED
      BY <3>2 DEF k
  <2> QED
    BY <1>2, <2>1, <2>2, <2>3
<1>4. /\ c = Put(cache, m, Current.recorded)
      /\ as = Append(rest, a)
      /\ UNCHANGED <<program, returned>>
      /\ Current.queue = <<>>
  <2>1. /\ c = Put(cache, m, Current.recorded) /\ Current.queue = <<>>
        /\ UNCHANGED <<program, returned>>
    BY DEF ModuleDone, CacheAfter
  <2>2. c[m] = Current.recorded
    BY <2>1 DEF Put
  <2>3. as = Append(rest, Advance(below, IF callee \in DOMAIN c[m] THEN c[m][callee]
                                         ELSE {Unknown}))
    BY DEF ModuleDone, ChildOf
  <2> QED
    BY <2>1, <2>2, <2>3
<1>5. /\ below.frames # <<>> /\ AtChild(at) /\ callee \in Function
      /\ Imported(at.fn, callee) /\ ModuleOf[callee] = m
  BY <1>3 DEF Nested
<1>6. /\ at.fn \in Function /\ callee \in ToSet(calls[at.fn])
      /\ calls \in [Function -> Seq(Target)] /\ ModuleOf \in [Function -> Module]
  <2>1. at \in FrameState
    <3>1. below.frames \in Seq(FrameState)
      BY <1>2 DEF AnalyzerState
    <3> HIDE DEF FrameState, below
    <3> QED
      BY <1>5, <3>1 DEF Last
  <2> HIDE DEF at
  <2>2. at.fn \in Function /\ at.next \in Nat \ {0} /\ calls[at.fn] \in Seq(Target)
    BY <1>1, <2>1 DEF FrameState, TypeOK
  <2>3. at.next \in DOMAIN calls[at.fn]
    BY <1>5, <2>2 DEF AtChild
  <2> QED
    BY <1>1, <2>2, <2>3, InputFacts DEF ChildOf, ToSet, TypeOK
<1>7. \A f \in Own(m) : f \in DOMAIN Current.recorded
  <2>1. ToSet(Current.queue) = {}
    BY <1>4 DEF ToSet
  <2> QED
    BY <1>3, <2>1 DEF GoodAnalyzer
<1>8. R \in SUBSET Reason /\ Complete(callee, R) /\ Deserved(at.fn, R)
  <2>1. GoodMap(Current.recorded) /\ Current.recorded \in ResultMap
    BY <1>2, <1>3 DEF GoodAnalyzer, AnalyzerState
  <2> HIDE DEF callee, at, m
  <2>2. CASE callee \in DOMAIN Current.recorded
    <3>1. Complete(callee, R) /\ Deserved(callee, R)
      BY <2>1, <2>2 DEF GoodMap
    <3>2. R \in SUBSET Reason
      BY <2>1, <2>2, MapResult
    <3> HIDE DEF R
    <3> QED
      BY <1>5, <1>6, <3>1, <3>2, CallerDeserves
  <2>3. CASE callee \notin DOMAIN Current.recorded
    <3>1. callee \in Lost
      BY <1>5, <1>7, <2>3 DEF Own, Lost
    <3>2. R = {Unknown} /\ Complete(callee, R)
      BY <2>3 DEF Complete
    <3> QED
      BY <1>6, <3>1, <3>2, LostDeserved DEF Reason
  <2> QED
    BY <2>2, <2>3
<1>9. GoodAnalyzer(a) /\ a.module = below.module
  <2> HIDE DEF R, below
  <2> QED
    BY <1>2, <1>3, <1>5, <1>6, <1>8, AdvanceSound, AdvanceState
<1>10. a \in AnalyzerState
  <2> HIDE DEF R, below
  <2> QED
    BY <1>2, <1>8, AdvanceState
<1> HIDE DEF a, R
<1>11. /\ Len(as) = n - 1
       /\ \A i \in 1..n - 2 : as[i] = analyzers[i]
       /\ as[n - 1] = a
  <2> DEFINE k == n - 2
  <2>1. k \in Nat /\ n - 1 = k + 1
    BY <1>1
  <2>2. rest \in Seq(AnalyzerState) /\ Len(rest) = k
        /\ \A i \in 1..k : rest[i] = analyzers[i]
    <3>1. \A i \in 1..k : analyzers[i] \in AnalyzerState
      BY <1>1, <1>2
    <3>2. rest = SubSeq(analyzers, 1, k)
      OBVIOUS
    <3> HIDE DEF AnalyzerState, k, rest
    <3>3. /\ rest \in Seq(AnalyzerState)
          /\ Len(rest) = IF 1 <= k THEN k - 1 + 1 ELSE 0
          /\ \A i \in 1..k - 1 + 1 : rest[i] = analyzers[1 + i - 1]
      BY <1>1, <2>1, <3>1, <3>2, SubSeqProperties
    <3>4. /\ k \in Nat /\ k - 1 + 1 = k /\ (~(1 <= k) => k = 0)
          /\ \A i \in 1..k : 1 + i - 1 = i
      BY <2>1
    <3>5. Len(rest) = k
      BY <3>3, <3>4
    <3>6. \A i \in 1..k : rest[i] = analyzers[i]
      BY <3>3, <3>4
    <3> QED
      BY <3>3, <3>5, <3>6
  <2> HIDE DEF rest, k, as
  <2>3. /\ Len(as) = k + 1
        /\ \A i \in 1..k : as[i] = rest[i]
        /\ as[k + 1] = a
    <3> HIDE DEF AnalyzerState
    <3> QED
      BY <1>4, <1>10, <2>1, <2>2
  <2> QED
    BY <2>1, <2>2, <2>3 DEF k
<1> HIDE DEF as, c, m, rest, below
<1>12. /\ \A i \in 1..n - 1 : i \in 1..n - 2 \/ i = n - 1
       /\ \A i \in 1..n - 1 : i \in 1..n
       /\ \A i \in 1..n - 2 : i \in 1..n /\ i \in 1..n - 1
       /\ \A i \in 1..n - 1 - 1 : i \in 1..n - 1 /\ i + 1 \in 1..n - 1 /\ i \in 1..n - 2
       /\ \A i \in 1..n : i \in 1..n - 1 \/ i = n
  BY <1>1
<1>13. \A i \in 1..n - 1 : as[i].module = analyzers[i].module
  BY <1>9, <1>11, <1>12 DEF below
<1>14. \A i \in 1..n - 1 : GoodAnalyzer(as[i])
  BY <1>3, <1>9, <1>11, <1>12
<1>15. \A i \in 1..n - 1 - 1 : Nested(as[i], as[i + 1])
  <2> SUFFICES ASSUME NEW i \in 1..n - 1 - 1
               PROVE  Nested(as[i], as[i + 1])
    OBVIOUS
  <2>1. /\ Nested(analyzers[i], analyzers[i + 1]) /\ as[i] = analyzers[i]
        /\ as[i + 1].module = analyzers[i + 1].module
    BY <1>3, <1>11, <1>12, <1>13
  <2> QED
    BY <2>1 DEF Nested
<1>16. /\ \A k \in DOMAIN c : GoodMap(c[k])
       /\ DOMAIN c = DOMAIN cache \cup {m}
       /\ \A k \in DOMAIN cache : k # m => c[k] = cache[k]
       /\ c[m] = Current.recorded
  BY <1>3, <1>4 DEF AllSound, Sound, Put, GoodAnalyzer
<1>17. CacheCovers(as, c)
  <2> SUFFICES ASSUME NEW k \in DOMAIN c, k # m, k \notin Unreadable,
                      ~(\A f \in Own(k) : f \in DOMAIN c[k])
               PROVE  \E i \in 2..Len(as) : as[i].module = k
    BY <1>7, <1>16 DEF CacheCovers
  <2>1. PICK i \in 2..n : analyzers[i].module = k
    BY <1>16 DEF AllSound, Sound, CacheCovers
  <2>2. i # n
    BY <1>2, <2>1 DEF m
  <2>3. i \in 1..n - 1 /\ i \in 2..n - 1
    BY <1>1, <2>2
  <2> QED
    BY <1>11, <1>13, <2>1, <2>3
<1>18. Sound(as, c, returned) /\ returned' = returned
  BY <1>4, <1>11, <1>14, <1>15, <1>16, <1>17 DEF AllSound, Sound
<1> QED
  BY <1>4, <1>18, SoundNext DEF as, c

LEMMA AllDoneSound ==
  ASSUME IInv, AllSound, AllDone
  PROVE  AllSound'
<1>1. /\ Len(analyzers) = 1 /\ Current.queue = <<>> /\ analyzers' = <<>>
      /\ returned' = Current.recorded /\ UNCHANGED <<program, cache>>
  BY DEF AllDone
<1>2. analyzers \in Seq(AnalyzerState) /\ analyzers # <<>>
  <2>1. analyzers = <<>> => Len(analyzers) = 0
    OBVIOUS
  <2> QED
    BY <1>1, <2>1 DEF IInv, TypeOK
<1>3. Current = analyzers[1] /\ Current \in AnalyzerState /\ GoodAnalyzer(Current)
  <2>1. Working /\ TypeOK
    BY <1>2 DEF Working, IInv
  <2> QED
    BY <1>1, <2>1, CurrentState DEF AllSound, Sound
<1>4. GoodMap(returned')
  BY <1>1, <1>3 DEF GoodAnalyzer
<1>5. CacheCovers(analyzers', cache)
  <2>1. 2..Len(analyzers) = {}
    BY <1>1
  <2> QED
    BY <2>1 DEF AllSound, Sound, CacheCovers
<1>6. Len(analyzers') = 0 /\ 1..0 = {} /\ 1..0 - 1 = {}
  BY <1>1
<1>7. Sound(analyzers', cache', returned')
  BY <1>1, <1>4, <1>5, <1>6 DEF AllSound, Sound
<1> QED
  BY <1>1, <1>7, SoundNext

LEMMA AllSoundInductive == Spec => []AllSound
<1>1. IInv /\ AllSound /\ [Next]_vars => AllSound'
  <2> SUFFICES ASSUME IInv, AllSound, [Next]_vars PROVE AllSound'
    OBVIOUS
  <2>1. CASE RootKnown \/ EnterRoot
    BY <2>1, RootSound
  <2>2. CASE CallKnown \/ EnterCall \/ ImportedKnown
    BY <2>2, CallSound
  <2>3. CASE Return
    BY <2>3, ReturnSound
  <2>4. CASE ReadFails
    BY <2>4, ReadFailsSound
  <2>5. CASE EnterModule
    BY <2>5, EnterModuleSound
  <2>6. CASE ModuleDone
    BY <2>6, ModuleDoneSound
  <2>7. CASE AllDone
    BY <2>7, AllDoneSound
  <2>8. CASE UNCHANGED vars
    <3>1. UNCHANGED program /\ Sound(analyzers', cache', returned')
      BY <2>8 DEF vars, AllSound
    <3> QED
      BY <3>1, SoundNext
  <2> QED
    BY <2>1, <2>2, <2>3, <2>4, <2>5, <2>6, <2>7, <2>8 DEF Next, Terminated
<1> QED
  BY <1>1, InitSound, Inductive, PTL DEF Spec

-----------------------------------------------------------------------------
(* Who holds a result.                                                     *)
LEMMA ResultsAreGood ==
  ASSUME IInv, AllSound, NEW r \in Results
  PROVE  Complete(r[1], r[2]) /\ Deserved(r[1], r[2])
<1>1. ASSUME NEW map, GoodMap(map), r \in Pairs(map)
      PROVE  Complete(r[1], r[2]) /\ Deserved(r[1], r[2])
  BY <1>1 DEF GoodMap, Pairs
<1>2. GoodMap(returned) /\ \A m \in DOMAIN cache : GoodMap(cache[m])
  BY DEF AllSound, Sound
<1>3. \A a \in ToSet(analyzers) : GoodMap(a.inferred) /\ GoodMap(a.recorded)
  <2>1. analyzers \in Seq(AnalyzerState)
    BY DEF IInv, TypeOK
  <2>2. DOMAIN analyzers = 1..Len(analyzers)
    <3> HIDE DEF AnalyzerState
    <3> QED
      BY <2>1
  <2> QED
    BY <2>2 DEF AllSound, Sound, GoodAnalyzer, ToSet
<1>4. CASE r \in Pairs(returned)
  BY <1>1, <1>2, <1>4
<1>5. CASE r \in UNION {Pairs(cache[m]) : m \in DOMAIN cache}
  <2>1. PICK m \in DOMAIN cache : r \in Pairs(cache[m])
    BY <1>5
  <2> QED
    BY <1>1, <1>2, <2>1
<1>6. CASE r \in UNION {Pairs(a.inferred) \cup Pairs(a.recorded) :
                           a \in ToSet(analyzers)}
  <2>1. PICK a \in ToSet(analyzers) :
               r \in Pairs(a.inferred) \cup Pairs(a.recorded)
    BY <1>6
  <2> QED
    BY <1>1, <1>3, <2>1
<1>7. \/ r \in Pairs(returned)
      \/ r \in UNION {Pairs(cache[m]) : m \in DOMAIN cache}
      \/ r \in UNION {Pairs(a.inferred) \cup Pairs(a.recorded) :
                         a \in ToSet(analyzers)}
  BY DEF Results
<1> QED
  BY <1>4, <1>5, <1>6, <1>7

(* Whatever a function can lead to, over any number of modules that import *)
(* each other in any way and are analysed inside each other, is named in   *)
(* each of its results, or the result says that something is unknown.      *)
THEOREM NothingHidden == Spec => []NothingHiddenAcrossModules
<1>1. IInv /\ AllSound => NothingHiddenAcrossModules
  BY ResultsAreGood DEF NothingHiddenAcrossModules, Complete
<1> QED
  BY <1>1, Inductive, AllSoundInductive, PTL

(* No result blames what its function cannot reach, and none says unknown  *)
(* without an excuse: a function without a result, a cycle of calls left   *)
(* inside a module, or modules that import each other.                     *)
THEOREM UnknownHasAnExcuse == Spec => []UnknownOnlyForImportCycles
<1>1. IInv /\ AllSound => UnknownOnlyForImportCycles
  BY ResultsAreGood DEF UnknownOnlyForImportCycles, Deserved, Excused
<1> QED
  BY <1>1, Inductive, AllSoundInductive, PTL
=============================================================================
