------------------------ MODULE APIExtractionProofs ------------------------
(***************************************************************************)
(* Proofs about the visitor that describes the API, for any files, names   *)
(* and re-exports, and for programs of any size:                           *)
(*   - its declaration stack is balanced: it holds what the walk is in;    *)
(*   - nothing is lost on the way into the API, if no function is in an    *)
(*     async function;                                                     *)
(*   - what is said of a declaration is true whatever the order of files,  *)
(*     if no __init__ file re-exports what one before it declares.         *)
(*                                                                         *)
(* Nothing is said about the values of ids and flags.  A sequence is       *)
(* therefore a function on 1 .. n here, whatever its elements are.         *)
(***************************************************************************)
EXTENDS APIExtraction, SequenceTheorems, WellFoundedInduction, TLAPS

Sequence(s) == \E n \in Nat : s = [i \in 1 .. n |-> s[i]]

(* The part of a declaration that is known to be there.                    *)
Named(stack) == \A i \in 1 .. Len(stack) : {"sort", "qname"} \subseteq DOMAIN stack[i]

Balanced ==
  /\ Sequence(path) /\ Sequence(declaration_stack)
  /\ Named(declaration_stack)
  /\ Mirrors(declaration_stack, path)
-----------------------------------------------------------------------------
(* Sequences of anything.                                                  *)
LEMMA SequenceIsSeq ==
  ASSUME NEW s, Sequence(s), NEW S, \A i \in DOMAIN s : s[i] \in S
  PROVE  s \in Seq(S)
<1>1. PICK n \in Nat : s = [i \in 1 .. n |-> s[i]]
  BY DEF Sequence
<1>2. \A i \in 1 .. n : s[i] \in S
  BY <1>1
<1>3. [i \in 1 .. n |-> s[i]] \in Seq(S)
  BY <1>2, IsASeq
<1> QED
  BY <1>1, <1>3

LEMMA SeqIsSequence ==
  ASSUME NEW S, NEW s \in Seq(S)
  PROVE  Sequence(s)
<1>1. Len(s) \in Nat /\ s = [i \in 1 .. Len(s) |-> s[i]]
  OBVIOUS
<1> QED
  BY <1>1 DEF Sequence

LEMMA LengthOfSequence ==
  ASSUME NEW s, Sequence(s)
  PROVE  Len(s) \in Nat /\ DOMAIN s = 1 .. Len(s)
<1> DEFINE S == {s[i] : i \in DOMAIN s}
<1>1. s \in Seq(S)
  BY SequenceIsSeq
<1> HIDE DEF S
<1> QED
  BY <1>1

LEMMA AppendToSequence ==
  ASSUME NEW s, Sequence(s), NEW e
  PROVE  /\ Sequence(Append(s, e)) /\ Len(Append(s, e)) = Len(s) + 1
         /\ \A i \in 1 .. Len(s) : Append(s, e)[i] = s[i]
         /\ Append(s, e)[Len(s) + 1] = e
<1> DEFINE S == {s[i] : i \in DOMAIN s} \cup {e}
<1>1. s \in Seq(S) /\ e \in S
  BY SequenceIsSeq
<1> HIDE DEF S
<1>2. Append(s, e) \in Seq(S)
  BY <1>1
<1>3. Sequence(Append(s, e))
  BY <1>2, SeqIsSequence
<1> QED
  BY <1>1, <1>2, <1>3

LEMMA FrontOfSequence ==
  ASSUME NEW s, Sequence(s), Len(s) # 0
  PROVE  LET front == SubSeq(s, 1, Len(s) - 1)
         IN  /\ Sequence(front) /\ Len(front) = Len(s) - 1
             /\ \A i \in 1 .. Len(s) - 1 : front[i] = s[i]
<1> DEFINE S == {s[i] : i \in DOMAIN s}
           k == Len(s) - 1
           front == SubSeq(s, 1, k)
<1>1. s \in Seq(S)
  BY SequenceIsSeq
<1> HIDE DEF S
<1>2. k \in Nat /\ Len(s) \in Nat /\ k <= Len(s) /\ \A i \in 1 .. k : s[i] \in S
  BY <1>1
<1>3. /\ front \in Seq(S) /\ Len(front) = IF 1 <= k THEN k - 1 + 1 ELSE 0
      /\ \A i \in 1 .. k - 1 + 1 : front[i] = s[1 + i - 1]
  <2> HIDE DEF k
  <2> QED
    BY <1>1, <1>2, SubSeqProperties
<1>4. Len(front) = k /\ \A i \in 1 .. k : front[i] = s[i]
  <2> HIDE DEF k, front
  <2> QED
    BY <1>2, <1>3
<1>5. Sequence(front)
  BY <1>3, SeqIsSequence
<1> QED
  BY <1>4, <1>5
-----------------------------------------------------------------------------
(* What entering and leaving nodes does to a stack that mirrors the walk.  *)
LEMMA EnterBoth ==
  ASSUME NEW stack, NEW walk, Sequence(stack), Sequence(walk), Mirrors(stack, walk),
         NEW d, NEW n, n.kind # "async", d.qname = n.qname, d.sort = SortOf(n.kind)
  PROVE  Mirrors(Append(stack, d), Append(walk, n))
<1> DEFINE L == Len(stack)
           K == Len(walk)
           longer == Append(stack, d)
           further == Append(walk, n)
<1>1. PICK at \in [1 .. L -> 1 .. K] :
        /\ \A i, j \in 1 .. L : i < j => at[i] < at[j]
        /\ \A k \in 1 .. K : walk[k].kind # "async" <=> \E i \in 1 .. L : at[i] = k
        /\ \A i \in 1 .. L : stack[i].qname = walk[at[i]].qname /\ stack[i].sort = SortOf(walk[at[i]].kind)
  BY DEF Mirrors, ComesFrom
<1>2. /\ L \in Nat /\ K \in Nat
      /\ Len(longer) = L + 1 /\ longer[L + 1] = d /\ \A i \in 1 .. L : longer[i] = stack[i]
      /\ Len(further) = K + 1 /\ further[K + 1] = n /\ \A i \in 1 .. K : further[i] = walk[i]
  BY AppendToSequence, LengthOfSequence
<1> DEFINE to == [i \in 1 .. L + 1 |-> IF i = L + 1 THEN K + 1 ELSE at[i]]
<1> HIDE DEF L, K, longer, further
<1>3. /\ to \in [1 .. L + 1 -> 1 .. K + 1] /\ to[L + 1] = K + 1
      /\ \A i \in 1 .. L : to[i] = at[i] /\ at[i] \in 1 .. K
  BY <1>1, <1>2
<1>4. \A i \in 1 .. L + 1 : i = L + 1 \/ i \in 1 .. L
  BY <1>2
<1> HIDE DEF to
<1>5. \A i, j \in 1 .. L + 1 : i < j => to[i] < to[j]
  BY <1>1, <1>2, <1>3, <1>4
<1>6. \A k \in 1 .. K + 1 : further[k].kind # "async" <=> \E i \in 1 .. L + 1 : to[i] = k
  <2> TAKE k \in 1 .. K + 1
  <2>1. CASE k = K + 1
    <3>1. L + 1 \in 1 .. L + 1
      BY <1>2
    <3> QED
      BY <1>2, <1>3, <2>1, <3>1
  <2>2. CASE k \in 1 .. K
    <3>1. 1 .. L \subseteq 1 .. L + 1 /\ k # K + 1
      BY <1>2, <2>2
    <3>2. (\E i \in 1 .. L + 1 : to[i] = k) <=> \E i \in 1 .. L : at[i] = k
      BY <1>3, <1>4, <3>1
    <3>3. further[k] = walk[k]
      BY <1>2, <2>2
    <3> QED
      BY <1>1, <2>2, <3>2, <3>3
  <2> QED
    BY <1>2, <2>1, <2>2
<1>7. \A i \in 1 .. L + 1 : /\ longer[i].qname = further[to[i]].qname
                            /\ longer[i].sort = SortOf(further[to[i]].kind)
  <2> TAKE i \in 1 .. L + 1
  <2>1. CASE i = L + 1
    BY <1>2, <1>3, <2>1
  <2>2. CASE i \in 1 .. L
    <3>1. longer[i] = stack[i] /\ to[i] = at[i] /\ further[at[i]] = walk[at[i]]
      BY <1>2, <1>3, <2>2
    <3> QED
      BY <1>1, <2>2, <3>1
  <2> QED
    BY <1>4, <2>1, <2>2
<1>8. ComesFrom(to, longer, further)
  BY <1>2, <1>5, <1>6, <1>7 DEF ComesFrom
<1>9. to \in [1 .. Len(longer) -> 1 .. Len(further)]
  BY <1>2, <1>3
<1> QED
  BY <1>8, <1>9 DEF Mirrors, longer, further

LEMMA EnterWithoutHandler ==
  ASSUME NEW stack, NEW walk, Sequence(stack), Sequence(walk), Mirrors(stack, walk),
         NEW n, n.kind = "async"
  PROVE  Mirrors(stack, Append(walk, n))
<1> DEFINE L == Len(stack)
           K == Len(walk)
           further == Append(walk, n)
<1>1. PICK at \in [1 .. L -> 1 .. K] :
        /\ \A i, j \in 1 .. L : i < j => at[i] < at[j]
        /\ \A k \in 1 .. K : walk[k].kind # "async" <=> \E i \in 1 .. L : at[i] = k
        /\ \A i \in 1 .. L : stack[i].qname = walk[at[i]].qname /\ stack[i].sort = SortOf(walk[at[i]].kind)
  BY DEF Mirrors, ComesFrom
<1>2. /\ L \in Nat /\ K \in Nat
      /\ Len(further) = K + 1 /\ further[K + 1] = n /\ \A i \in 1 .. K : further[i] = walk[i]
  BY AppendToSequence, LengthOfSequence
<1> HIDE DEF L, K, further
<1>3. at \in [1 .. L -> 1 .. K + 1] /\ \A i \in 1 .. L : at[i] \in 1 .. K /\ at[i] # K + 1
  BY <1>1, <1>2
<1>4. \A k \in 1 .. K + 1 : k = K + 1 \/ k \in 1 .. K
  BY <1>2
<1>5. \A k \in 1 .. K + 1 : further[k].kind # "async" <=> \E i \in 1 .. L : at[i] = k
  BY <1>1, <1>2, <1>3, <1>4
<1>6. \A i \in 1 .. L : stack[i].qname = further[at[i]].qname /\ stack[i].sort = SortOf(further[at[i]].kind)
  BY <1>1, <1>2, <1>3
<1>7. ComesFrom(at, stack, further)
  BY <1>1, <1>2, <1>5, <1>6 DEF ComesFrom, L
<1>8. at \in [1 .. Len(stack) -> 1 .. Len(further)]
  BY <1>2, <1>3 DEF L
<1> QED
  BY <1>7, <1>8 DEF Mirrors, further

(* The node that is left is the one the top of the stack was entered with. *)
LEMMA LeaveBoth ==
  ASSUME NEW stack, NEW walk, Sequence(stack), Sequence(walk), Mirrors(stack, walk),
         Len(walk) # 0, walk[Len(walk)].kind # "async"
  PROVE  /\ Len(stack) # 0
         /\ stack[Len(stack)].sort = SortOf(walk[Len(walk)].kind)
         /\ Mirrors(SubSeq(stack, 1, Len(stack) - 1), SubSeq(walk, 1, Len(walk) - 1))
<1> DEFINE L == Len(stack)
           K == Len(walk)
           below == SubSeq(stack, 1, L - 1)
           back == SubSeq(walk, 1, K - 1)
<1>1. PICK at \in [1 .. L -> 1 .. K] :
        /\ \A i, j \in 1 .. L : i < j => at[i] < at[j]
        /\ \A k \in 1 .. K : walk[k].kind # "async" <=> \E i \in 1 .. L : at[i] = k
        /\ \A i \in 1 .. L : stack[i].qname = walk[at[i]].qname /\ stack[i].sort = SortOf(walk[at[i]].kind)
  BY DEF Mirrors, ComesFrom
<1>2. L \in Nat /\ K \in Nat /\ K # 0 /\ K \in 1 .. K
  BY LengthOfSequence
<1>3. PICK t \in 1 .. L : at[t] = K
  BY <1>1, <1>2
<1>4. L # 0 /\ L \in 1 .. L
  BY <1>2, <1>3
<1>5. /\ Len(below) = L - 1 /\ \A i \in 1 .. L - 1 : below[i] = stack[i]
      /\ Len(back) = K - 1 /\ \A i \in 1 .. K - 1 : back[i] = walk[i]
  BY <1>2, <1>4, FrontOfSequence
<1> HIDE DEF L, K, below, back
<1>6. at[L] = K
  BY <1>1, <1>2, <1>3, <1>4, SMTT(30)
<1>7. \A i \in 1 .. L - 1 : i \in 1 .. L /\ i < L
  BY <1>2, <1>4
<1>8. \A i \in 1 .. L - 1 : at[i] \in 1 .. K /\ at[i] < K
  BY <1>1, <1>4, <1>6, <1>7
<1>9. \A i \in 1 .. L - 1 : at[i] \in 1 .. K - 1
  <2>1. \A k \in 1 .. K : k < K => k \in 1 .. K - 1
    BY <1>2
  <2> QED
    BY <1>8, <2>1
<1> DEFINE to == [i \in 1 .. L - 1 |-> at[i]]
<1>10. to \in [1 .. L - 1 -> 1 .. K - 1] /\ \A i \in 1 .. L - 1 : to[i] = at[i]
  BY <1>9
<1> HIDE DEF to
<1>11. \A i, j \in 1 .. L - 1 : i < j => to[i] < to[j]
  BY <1>1, <1>7, <1>10
<1>12. \A k \in 1 .. K - 1 : back[k].kind # "async" <=> \E i \in 1 .. L - 1 : to[i] = k
  <2> TAKE k \in 1 .. K - 1
  <2>1. k \in 1 .. K /\ k # K /\ \A i \in 1 .. L : i = L \/ i \in 1 .. L - 1
    BY <1>2, <1>4
  <2>2. (\E i \in 1 .. L - 1 : to[i] = k) <=> \E i \in 1 .. L : at[i] = k
    BY <1>6, <1>7, <1>10, <2>1
  <2>3. back[k] = walk[k]
    BY <1>5
  <2> QED
    BY <1>1, <2>1, <2>2, <2>3
<1>13. \A i \in 1 .. L - 1 : /\ below[i].qname = back[to[i]].qname
                             /\ below[i].sort = SortOf(back[to[i]].kind)
  <2> TAKE i \in 1 .. L - 1
  <2>1. below[i] = stack[i] /\ back[to[i]] = walk[at[i]]
    BY <1>5, <1>9, <1>10
  <2> QED
    BY <1>1, <1>7, <2>1
<1>14. Mirrors(below, back)
  <2>1. ComesFrom(to, below, back)
    BY <1>5, <1>11, <1>12, <1>13 DEF ComesFrom
  <2>2. to \in [1 .. Len(below) -> 1 .. Len(back)]
    BY <1>5, <1>10
  <2> QED
    BY <2>1, <2>2 DEF Mirrors
<1> QED
  BY <1>1, <1>4, <1>6, <1>14 DEF L, K, below, back

LEMMA LeaveWithoutHandler ==
  ASSUME NEW stack, NEW walk, Sequence(stack), Sequence(walk), Mirrors(stack, walk),
         Len(walk) # 0, walk[Len(walk)].kind = "async"
  PROVE  Mirrors(stack, SubSeq(walk, 1, Len(walk) - 1))
<1> DEFINE L == Len(stack)
           K == Len(walk)
           back == SubSeq(walk, 1, K - 1)
<1>1. PICK at \in [1 .. L -> 1 .. K] :
        /\ \A i, j \in 1 .. L : i < j => at[i] < at[j]
        /\ \A k \in 1 .. K : walk[k].kind # "async" <=> \E i \in 1 .. L : at[i] = k
        /\ \A i \in 1 .. L : stack[i].qname = walk[at[i]].qname /\ stack[i].sort = SortOf(walk[at[i]].kind)
  BY DEF Mirrors, ComesFrom
<1>2. /\ L \in Nat /\ K \in Nat /\ K # 0 /\ K \in 1 .. K
      /\ Len(back) = K - 1 /\ \A i \in 1 .. K - 1 : back[i] = walk[i]
  BY LengthOfSequence, FrontOfSequence
<1>3. walk[K].kind = "async"
  OBVIOUS
<1> HIDE DEF L, K, back
<1>4. \A i \in 1 .. L : at[i] \in 1 .. K /\ at[i] # K
  BY <1>1, <1>2, <1>3
<1>5. \A i \in 1 .. L : at[i] \in 1 .. K - 1
  BY <1>2, <1>4
<1>6. at \in [1 .. L -> 1 .. K - 1]
  BY <1>5
<1>7. \A k \in 1 .. K - 1 : k \in 1 .. K /\ back[k] = walk[k]
  BY <1>2
<1>8. \A i \in 1 .. L : stack[i].qname = back[at[i]].qname /\ stack[i].sort = SortOf(back[at[i]].kind)
  <2> TAKE i \in 1 .. L
  <2>1. back[at[i]] = walk[at[i]]
    BY <1>5, <1>7
  <2> QED
    BY <1>1, <2>1
<1>9. ComesFrom(at, stack, back)
  BY <1>1, <1>2, <1>7, <1>8 DEF ComesFrom, L
<1>10. at \in [1 .. Len(stack) -> 1 .. Len(back)]
  BY <1>2, <1>6 DEF L
<1> QED
  BY <1>9, <1>10 DEF Mirrors, back, K

LEMMA SameNames ==
  ASSUME NEW stack, NEW other, NEW walk, Mirrors(stack, walk), Len(other) = Len(stack),
         \A i \in 1 .. Len(stack) : other[i].qname = stack[i].qname /\ other[i].sort = stack[i].sort
  PROVE  Mirrors(other, walk)
<1>1. PICK at \in [1 .. Len(stack) -> 1 .. Len(walk)] : ComesFrom(at, stack, walk)
  BY DEF Mirrors
<1>2. ComesFrom(at, other, walk)
  BY <1>1 DEF ComesFrom
<1> QED
  BY <1>1, <1>2 DEF Mirrors
-----------------------------------------------------------------------------
(* Entering a declaration.                                                 *)
LEMMA Pushed ==
  ASSUME Balanced, NEW n, NEW d, n.kind # "async", d.qname = n.qname, d.sort = SortOf(n.kind),
         {"sort", "qname"} \subseteq DOMAIN d,
         path' = Append(path, n), declaration_stack' = Append(declaration_stack, d)
  PROVE  Balanced'
<1>1. Sequence(path') /\ Sequence(declaration_stack')
  BY AppendToSequence DEF Balanced
<1>2. Mirrors(declaration_stack', path')
  BY EnterBoth DEF Balanced
<1>3. Named(declaration_stack')
  <2>1. \A i \in 1 .. Len(declaration_stack) + 1 : i = Len(declaration_stack) + 1 \/ i \in 1 .. Len(declaration_stack)
    BY LengthOfSequence DEF Balanced
  <2> QED
    BY <2>1, AppendToSequence DEF Balanced, Named
<1> QED
  BY <1>1, <1>2, <1>3 DEF Balanced

(* A declaration that is told of a member keeps its name.                  *)
LEMMA ToldOfMember ==
  ASSUME NEW stack, Sequence(stack), Named(stack), Len(stack) # 0,
         NEW field \in {"classes", "functions"}, NEW id
  PROVE  LET told == AddTo(stack, field, id)
         IN  /\ Sequence(told) /\ Named(told) /\ Len(told) = Len(stack)
             /\ \A i \in 1 .. Len(stack) : told[i].qname = stack[i].qname /\ told[i].sort = stack[i].sort
<1> DEFINE n == Len(stack)
           top == [stack[n] EXCEPT ![field] = @ \cup {id}]
           told == AddTo(stack, field, id)
<1>1. n \in Nat /\ n \in 1 .. n /\ DOMAIN stack = 1 .. n
  BY LengthOfSequence
<1>2. told = [stack EXCEPT ![n] = top]
  BY DEF AddTo
<1>3. {"sort", "qname"} \subseteq DOMAIN stack[n]
  BY <1>1 DEF Named
<1>4. /\ {"sort", "qname"} \subseteq DOMAIN top
      /\ top.qname = stack[n].qname /\ top.sort = stack[n].sort
  BY <1>3
<1> HIDE DEF n, top, told
<1>5. DOMAIN told = 1 .. n /\ told = [i \in 1 .. n |-> told[i]]
  BY <1>1, <1>2
<1>6. Sequence(told)
  BY <1>1, <1>5 DEF Sequence
<1>7. Len(told) = n
  <2>1. Len(told) \in Nat /\ DOMAIN told = 1 .. Len(told)
    BY <1>6, LengthOfSequence
  <2> QED
    BY <1>1, <1>5, <2>1
<1>8. \A i \in 1 .. n : told[i] = IF i = n THEN top ELSE stack[i]
  BY <1>1, <1>2
<1>9. Named(told)
  BY <1>4, <1>7, <1>8 DEF Named, n
<1>10. \A i \in 1 .. n : told[i].qname = stack[i].qname /\ told[i].sort = stack[i].sort
  BY <1>4, <1>8
<1> QED
  BY <1>6, <1>7, <1>9, <1>10 DEF n, told

(* Leaving a declaration; the one below it may be told of it.              *)
LEMMA Popped ==
  ASSUME Balanced, path # <<>>, Top(path).kind # "async", LeaveNode,
         NEW field \in {"classes", "functions"}, NEW id,
         LET rest == Below(declaration_stack)
         IN  \/ declaration_stack' = rest
             \/ rest # <<>> /\ declaration_stack' = AddTo(rest, field, id)
  PROVE  Balanced'
<1> DEFINE rest == Below(declaration_stack)
<1>1. Len(path) # 0 /\ Len(path) \in Nat
  BY LengthOfSequence, EmptySeq DEF Balanced, Sequence
<1>2. Len(declaration_stack) # 0 /\ Mirrors(rest, path')
  BY <1>1, LeaveBoth DEF Balanced, Below, LeaveNode, Top
<1>3. Sequence(rest) /\ Sequence(path')
  BY <1>1, <1>2, FrontOfSequence DEF Balanced, Below, LeaveNode
<1>4. Named(rest)
  <2>1. Len(rest) = Len(declaration_stack) - 1 /\ \A i \in 1 .. Len(rest) : rest[i] = declaration_stack[i]
    BY <1>2, FrontOfSequence DEF Balanced, Below
  <2>2. Len(declaration_stack) \in Nat
    BY LengthOfSequence DEF Balanced
  <2>3. \A i \in 1 .. Len(rest) : i \in 1 .. Len(declaration_stack)
    BY <2>1, <2>2
  <2> QED
    BY <2>1, <2>3 DEF Balanced, Named
<1> HIDE DEF rest
<1>5. CASE declaration_stack' = rest
  BY <1>2, <1>3, <1>4, <1>5 DEF Balanced
<1>6. CASE rest # <<>> /\ declaration_stack' = AddTo(rest, field, id)
  <2>1. Len(rest) # 0
    BY <1>3, <1>6, LengthOfSequence, EmptySeq DEF Sequence
  <2>2. /\ Sequence(declaration_stack') /\ Named(declaration_stack')
        /\ Len(declaration_stack') = Len(rest)
        /\ \A i \in 1 .. Len(rest) : /\ declaration_stack'[i].qname = rest[i].qname
                                     /\ declaration_stack'[i].sort = rest[i].sort
    BY <1>3, <1>4, <1>6, <2>1, ToldOfMember
  <2>3. Mirrors(declaration_stack', path')
    BY <1>2, <2>2, SameNames
  <2> QED
    BY <1>3, <2>2, <2>3 DEF Balanced
<1> QED
  BY <1>5, <1>6 DEF rest

(* The handlers that change neither of both.                               *)
LEMMA Unchanged ==
  ASSUME Balanced, UNCHANGED <<path, declaration_stack>>
  PROVE  Balanced'
BY DEF Balanced, Named
-----------------------------------------------------------------------------
(* Before the first file both the walk and the stack of the visitor are   *)
(* empty.                                                                  *)
THEOREM InitiallyBalanced == Init => Balanced
<1> SUFFICES ASSUME Init PROVE Balanced
  OBVIOUS
<1>1. path = <<>> /\ declaration_stack = <<>>
  BY DEF Init
<1>2. Sequence(<<>>) /\ Len(<<>>) = 0
  <2>1. <<>> \in Seq({})
    OBVIOUS
  <2> QED
    BY <2>1, SeqIsSequence
<1>3. Mirrors(<<>>, <<>>)
  <2> DEFINE at == [i \in 1 .. 0 |-> i]
  <2>1. at \in [1 .. 0 -> 1 .. 0] /\ ComesFrom(at, <<>>, <<>>)
    BY <1>2 DEF ComesFrom
  <2> QED
    BY <1>2, <2>1 DEF Mirrors
<1> QED
  BY <1>1, <1>2, <1>3 DEF Balanced, Named

(* No handler of the visitor, entering or leaving any kind of node, leaves *)
(* the stack out of step with the walk.                                    *)
THEOREM StaysBalanced == Balanced /\ [Next]_vars => Balanced'
<1> SUFFICES ASSUME Balanced, [Next]_vars PROVE Balanced'
  OBVIOUS
<1>1. CASE SkipTestFile
  BY <1>1, Unchanged DEF SkipTestFile
<1>2. CASE EnterModule
  <2>1. PICK f : /\ path = <<>> /\ path' = <<[kind |-> "module", qname |-> f.qname]>>
                 /\ declaration_stack' =
                      Append(declaration_stack, Declaration("Module", ModuleId(f.qname), f.qname, TRUE, FALSE))
    BY <1>2 DEF EnterModule
  <2> DEFINE n == [kind |-> "module", qname |-> f.qname]
             d == Declaration("Module", ModuleId(f.qname), f.qname, TRUE, FALSE)
  <2>2. n.kind # "async" /\ d.qname = n.qname /\ d.sort = SortOf(n.kind) /\ {"sort", "qname"} \subseteq DOMAIN d
    BY DEF Declaration, SortOf
  <2> HIDE DEF n, d
  <2>3. path' = Append(path, n) /\ declaration_stack' = Append(declaration_stack, d)
    BY <2>1 DEF n, d
  <2> QED
    BY <2>2, <2>3, Pushed
<1>3. CASE EnterClassDef
  <2>1. PICK name : Walk("class", name, "none") /\ Declare("Class", Id(declaration_stack, name, "none"), name)
    BY <1>3 DEF EnterClassDef
  <2> DEFINE q == Append(Top(path).qname, name)
             n == [kind |-> "class", qname |-> q]
             d == Declaration("Class", Id(declaration_stack, name, "none"), q, IsPublic(q), q \in DOMAIN reexported)
  <2>2. path' = Append(path, n) /\ declaration_stack' = Append(declaration_stack, d)
    BY <2>1 DEF Walk, Declare
  <2>3. n.kind # "async" /\ d.qname = n.qname /\ d.sort = SortOf(n.kind) /\ {"sort", "qname"} \subseteq DOMAIN d
    BY DEF Declaration, SortOf
  <2> HIDE DEF n, d
  <2> QED
    BY <2>2, <2>3, Pushed
<1>4. CASE EnterFunctionDef
  <2>1. PICK name, accessor : /\ Walk("function", name, accessor)
                              /\ Declare("Function", FunctionId(declaration_stack, name, accessor), name)
    BY <1>4 DEF EnterFunctionDef
  <2> DEFINE q == Append(Top(path).qname, name)
             n == [kind |-> "function", qname |-> q]
             d == Declaration("Function", FunctionId(declaration_stack, name, accessor), q, IsPublic(q),
                              q \in DOMAIN reexported)
  <2>2. path' = Append(path, n) /\ declaration_stack' = Append(declaration_stack, d)
    BY <2>1 DEF Walk, Declare
  <2>3. n.kind # "async" /\ d.qname = n.qname /\ d.sort = SortOf(n.kind) /\ {"sort", "qname"} \subseteq DOMAIN d
    BY DEF Declaration, SortOf
  <2> HIDE DEF n, d
  <2> QED
    BY <2>2, <2>3, Pushed
<1>5. CASE EnterAsyncFunctionDef
  <2>1. PICK name : Walk("async", name, "none") /\ declaration_stack' = declaration_stack
    BY <1>5 DEF EnterAsyncFunctionDef
  <2> DEFINE n == [kind |-> "async", qname |-> Append(Top(path).qname, name)]
  <2>2. path' = Append(path, n) /\ n.kind = "async"
    BY <2>1 DEF Walk
  <2> HIDE DEF n
  <2>3. Sequence(path')
    BY <2>2, AppendToSequence DEF Balanced
  <2>4. Mirrors(declaration_stack', path')
    BY <2>1, <2>2, EnterWithoutHandler DEF Balanced
  <2> QED
    BY <2>1, <2>3, <2>4 DEF Balanced, Named
<1>6. CASE LeaveModule
  <2>1. path # <<>> /\ Top(path).kind # "async" /\ LeaveNode /\ declaration_stack' = Below(declaration_stack)
    BY <1>6 DEF LeaveModule, Leaves
  <2> QED
    BY <2>1, Popped
<1>7. CASE LeaveClassDef
  <2>1. path # <<>> /\ Top(path).kind # "async" /\ LeaveNode
    BY <1>7 DEF LeaveClassDef, Leaves
  <2>2. PICK id : \/ declaration_stack' = Below(declaration_stack)
                  \/ /\ Below(declaration_stack) # <<>>
                     /\ declaration_stack' = AddTo(Below(declaration_stack), "classes", id)
    BY <1>7 DEF LeaveClassDef
  <2> QED
    BY <2>1, <2>2, Popped
<1>8. CASE LeaveFunctionDef
  <2>1. path # <<>> /\ Top(path).kind # "async" /\ LeaveNode
    BY <1>8 DEF LeaveFunctionDef, Leaves
  <2>2. PICK id : \/ declaration_stack' = Below(declaration_stack)
                  \/ /\ Below(declaration_stack) # <<>>
                     /\ declaration_stack' = AddTo(Below(declaration_stack), "functions", id)
    BY <1>8 DEF LeaveFunctionDef
  <2> QED
    BY <2>1, <2>2, Popped
<1>9. CASE LeaveAsyncFunctionDef
  <2>1. /\ path # <<>> /\ Top(path).kind = "async" /\ LeaveNode
        /\ declaration_stack' = declaration_stack
    BY <1>9 DEF LeaveAsyncFunctionDef, Leaves
  <2>2. Len(path) # 0
    BY <2>1, LengthOfSequence, EmptySeq DEF Balanced, Sequence
  <2>3. Sequence(path')
    BY <2>1, <2>2, FrontOfSequence DEF Balanced, LeaveNode
  <2>4. Mirrors(declaration_stack', path')
    BY <2>1, <2>2, LeaveWithoutHandler DEF Balanced, LeaveNode, Top
  <2> QED
    BY <2>1, <2>3, <2>4 DEF Balanced, Named
<1>10. CASE Terminated \/ UNCHANGED vars
  BY <1>10, Unchanged DEF Terminated, vars
<1> QED
  BY <1>1, <1>2, <1>3, <1>4, <1>5, <1>6, <1>7, <1>8, <1>9, <1>10 DEF Next

(* Every declaration that is entered is left with what was entered: the    *)
(* stack of the visitor mirrors the walk of ASTWalker, whatever is nested  *)
(* in what.                                                                *)
THEOREM StackIsBalanced == Spec => []StackMirrorsPath
<1>1. Balanced => StackMirrorsPath
  BY DEF Balanced, StackMirrorsPath
<1> QED
  BY InitiallyBalanced, StaysBalanced, <1>1, PTL DEF Spec

(* A node of this kind that is left finds its own declaration on top.      *)
Pops(kind, sort) ==
  path # <<>> /\ Top(path).kind = kind =>
    declaration_stack # <<>> /\ Top(declaration_stack).sort = sort

(* What a handler takes from the stack is of the kind it expects: the      *)
(* AssertionErrors of leave_module, leave_classdef and leave_functiondef   *)
(* are never raised.                                                       *)
THEOREM PopsAreBalanced ==
  Spec => [](Pops("module", "Module") /\ Pops("class", "Class") /\ Pops("function", "Function"))
<1>1. ASSUME Balanced, NEW kind \in {"module", "class", "function"} PROVE Pops(kind, SortOf(kind))
  <2> SUFFICES ASSUME path # <<>>, Top(path).kind = kind
               PROVE  declaration_stack # <<>> /\ Top(declaration_stack).sort = SortOf(kind)
    BY DEF Pops
  <2>1. Len(path) # 0
    BY <1>1, LengthOfSequence, EmptySeq DEF Balanced, Sequence
  <2>2. Len(declaration_stack) # 0 /\ Top(declaration_stack).sort = SortOf(kind)
    BY <1>1, <2>1, LeaveBoth DEF Balanced, Top
  <2> QED
    BY <2>2
<1>2. Balanced => Pops("module", "Module") /\ Pops("class", "Class") /\ Pops("function", "Function")
  BY <1>1 DEF SortOf
<1> QED
  BY InitiallyBalanced, StaysBalanced, <1>2, PTL DEF Spec
-----------------------------------------------------------------------------
(* Numbers, and what is computed step by step.                             *)
LEMMA Least ==
  ASSUME NEW T \in SUBSET Nat, T # {}
  PROVE  \E x \in T : \A y \in T : x <= y
<1>1. PICK R : R = OpToRel(<, Nat)
  OBVIOUS
<1>2. IsWellFoundedOn(R, Nat)
  BY <1>1, NatLessThanWellFounded
<1>3. \A i, j \in Nat : i < j => <<i, j>> \in R
  BY <1>1 DEF OpToRel
<1>4. PICK x \in T : \A y \in T : <<y, x>> \notin R
  BY <1>2, WFMin
<1>5. \A y \in T : ~(y < x)
  BY <1>3, <1>4
<1> QED BY <1>5

LEMMA SetInduction ==
  ASSUME NEW S \in SUBSET Nat, 0 \in S, \A n \in S : n + 1 \in S
  PROVE  S = Nat
<1> SUFFICES ASSUME Nat \ S # {} PROVE FALSE
  OBVIOUS
<1>1. PICK x \in Nat \ S : \A y \in Nat \ S : x <= y
  BY Least
<1>2. x - 1 \in S
  BY <1>1
<1> QED BY <1>1, <1>2

LEMMA UpTo ==
  ASSUME NEW N \in Nat, NEW S, 0 \in S, \A i \in 1..N : i - 1 \in S => i \in S
  PROVE  \A i \in 0..N : i \in S
<1> DEFINE T == {n \in Nat : n <= N => n \in S}
<1>1. 0 \in T
  OBVIOUS
<1>2. ASSUME NEW n \in T PROVE n + 1 \in T
  <2>1. CASE n + 1 <= N
    <3>1. n + 1 \in 1..N /\ (n + 1) - 1 = n /\ n \in S
      BY <2>1
    <3> QED BY <3>1
  <2> QED BY <2>1
<1> HIDE DEF T
<1>3. T = Nat
  BY <1>1, <1>2, SetInduction DEF T
<1> QED BY <1>3 DEF T

(* What a recursive function stands for exists.                            *)
Iterates(h, first, F, N) == h[0] = first /\ \A i \in 1..N : h[i] = F[<<i, h[i - 1]>>]

LEMMA Iterated ==
  ASSUME NEW N \in Nat, NEW V, NEW first \in V, NEW F \in [(1..N) \X V -> V]
  PROVE  \E h \in [0..N -> V] : Iterates(h, first, F, N)
<1> DEFINE Some(n) == {h \in [0..n -> V] : Iterates(h, first, F, n)}
           S == {n \in Nat : Some(n) # {}}
<1>1. 0 \in S
  <2>1. PICK f : f = [i \in 0..0 |-> first]
    OBVIOUS
  <2>2. f \in [0..0 -> V] /\ Iterates(f, first, F, 0)
    BY <2>1 DEF Iterates
  <2> QED BY <2>2
<1>2. ASSUME NEW n \in 1..N, n - 1 \in S PROVE n \in S
  <2>1. n \in Nat /\ n - 1 \in Nat
    OBVIOUS
  <2>2. PICK f \in [0..n - 1 -> V] : Iterates(f, first, F, n - 1)
    BY <1>2
  <2>3. n - 1 \in 0..n - 1 /\ <<n, f[n - 1]>> \in (1..N) \X V
    BY <2>1, <2>2
  <2>4. PICK new \in V : new = F[<<n, f[n - 1]>>]
    BY <2>3
  <2>5. PICK g : g = [i \in 0..n |-> IF i = n THEN new ELSE f[i]]
    OBVIOUS
  <2>6. \A i \in 0..n : i = n \/ i \in 0..n - 1
    BY <2>1
  <2>7. g \in [0..n -> V]
    BY <2>2, <2>4, <2>5, <2>6
  <2>8. (\A i \in 0..n - 1 : g[i] = f[i]) /\ g[n] = new
    BY <2>1, <2>5
  <2>9. ASSUME NEW i \in 1..n PROVE g[i] = F[<<i, g[i - 1]>>]
    <3>1. CASE i = n
      BY <2>3, <2>4, <2>8, <3>1
    <3>2. CASE i # n
      <4>1. i \in 1..n - 1 /\ i \in 0..n - 1 /\ i - 1 \in 0..n - 1
        BY <2>1, <3>2
      <4> QED BY <2>2, <2>8, <4>1 DEF Iterates
    <3> QED BY <3>1, <3>2
  <2>10. g[0] = first
    <3>1. 0 \in 0..n - 1
      BY <2>1
    <3> QED BY <2>2, <2>8, <3>1 DEF Iterates
  <2>11. Iterates(g, first, F, n)
    BY <2>9, <2>10 DEF Iterates
  <2> QED BY <2>1, <2>7, <2>11
<1>3. N \in 0..N
  OBVIOUS
<1> HIDE DEF Some, S
<1>4. N \in S
  BY <1>1, <1>2, <1>3, UpTo
<1> QED BY <1>4 DEF S, Some

-----------------------------------------------------------------------------
(* The files.                                                              *)
Apart(fs) ==
  \A i, j \in 1 .. Len(fs) : i < j /\ ~fs[i].test /\ ~fs[j].test => fs[i].qname # fs[j].qname

OrderKept(c, o, i) ==
  \A a, b \in 1 .. Len(c) : a < b => \E j, k \in 1 .. i : j < k /\ c[a] = o[j] /\ c[b] = o[k]

(* Of the first i files of an order, those that are __init__ or not.       *)
Chosen(c, o, init, i) ==
  /\ c \in Seq(Files) /\ Apart(c)
  /\ \A a \in 1 .. Len(c) : \E j \in 1 .. i : o[j].init = init /\ c[a] = o[j]
  /\ OrderKept(c, o, i)

LEMMA SelectedFacts ==
  ASSUME NEW o \in Orders, NEW init \in BOOLEAN
  PROVE  Chosen(Selected(o, init), o, init, Len(o))
<1> DEFINE N == Len(o)
           After(i, c) == IF o[i].init = init THEN Append(c, o[i]) ELSE c
<1>1. o \in Seq(Files) /\ N \in Nat /\ \A i \in 1 .. N : o[i] \in Files
  BY PackageIsWellFormed
<1>2. \A i \in 1 .. N : \A c \in Seq(Files) : After(i, c) \in Seq(Files)
  BY <1>1
<1> HIDE DEF N, After
<1>3. PICK F : F = [x \in (1 .. N) \X Seq(Files) |-> After(x[1], x[2])]
  OBVIOUS
<1>4. F \in [(1 .. N) \X Seq(Files) -> Seq(Files)]
  <2>1. \A x \in (1 .. N) \X Seq(Files) : After(x[1], x[2]) \in Seq(Files)
    BY <1>2
  <2> QED BY <1>3, <2>1
<1>5. <<>> \in Seq(Files)
  OBVIOUS
<1>6. PICK f \in [0 .. N -> Seq(Files)] : Iterates(f, <<>>, F, N)
  BY <1>1, <1>4, <1>5, Iterated
<1>7. f[0] = <<>> /\ \A i \in 1 .. N : f[i] = After(i, f[i - 1])
  <2>1. ASSUME NEW i \in 1 .. N PROVE f[i] = After(i, f[i - 1])
    <3>1. i - 1 \in 0 .. N
      BY <1>1
    <3>2. <<i, f[i - 1]>> \in (1 .. N) \X Seq(Files)
      BY <1>6, <3>1
    <3> QED BY <1>3, <1>6, <3>2 DEF Iterates
  <2> QED BY <1>6, <2>1 DEF Iterates
<1> DEFINE Step(g) == [i \in 0 .. N |-> IF i = 0 THEN <<>> ELSE After(i, g[i - 1])]
           chosen == CHOOSE g : g = Step(g)
<1>8. f = Step(f)
  <2>1. ASSUME NEW i \in 0 .. N PROVE f[i] = Step(f)[i]
    <3>1. i = 0 \/ i \in 1 .. N
      BY <1>1
    <3> QED BY <1>1, <1>7, <3>1
  <2> QED BY <1>6, <2>1
<1>9. chosen = Step(chosen)
  <2> HIDE DEF Step
  <2> QED BY <1>8
<1>10. Selected(o, init) = chosen[N]
  BY DEF Selected, N, After
<1> HIDE DEF chosen
<1>11. chosen[0] = <<>> /\ \A i \in 1 .. N : chosen[i] = After(i, chosen[i - 1])
  <2>1. 0 \in 0 .. N /\ \A i \in 1 .. N : i \in 0 .. N /\ i # 0
    BY <1>1
  <2> QED BY <1>9, <2>1
<1> HIDE DEF Step
<1> DEFINE S == {i \in 0 .. N : Chosen(chosen[i], o, init, i)}
<1>12. 0 \in S
  <2>1. <<>> \in Seq(Files) /\ 0 \in 0 .. N /\ Len(<<>>) = 0
    BY <1>1
  <2>2. Chosen(<<>>, o, init, 0)
    BY <2>1 DEF Chosen, Apart, OrderKept
  <2> QED BY <1>11, <2>1, <2>2
<1>13. ASSUME NEW i \in 1 .. N, i - 1 \in S PROVE i \in S
  <2>1. PICK c : c = chosen[i - 1]
    OBVIOUS
  <2>2. Chosen(c, o, init, i - 1) /\ c \in Seq(Files) /\ Len(c) \in Nat /\ i \in 0 .. N
    <3>1. Chosen(c, o, init, i - 1)
      BY <1>13, <2>1
    <3>2. c \in Seq(Files)
      BY <3>1 DEF Chosen
    <3> QED BY <1>1, <3>1, <3>2
  <2>3. chosen[i] = After(i, c)
    BY <1>11, <2>1
  <2>4. \A j \in 1 .. i - 1 : j \in 1 .. i /\ j # i /\ j \in 1 .. N
    BY <1>1
  <2>5. CASE o[i].init # init
    <3>1. chosen[i] = c
      BY <2>3, <2>5 DEF After
    <3>2. OrderKept(c, o, i)
      <4>1. OrderKept(c, o, i - 1)
        BY <2>2 DEF Chosen
      <4>2. \A j \in 1 .. i - 1 : j \in 1 .. i
        BY <2>4
      <4> QED BY <4>1, <4>2, Zenon DEF OrderKept
    <3>3. Chosen(c, o, init, i)
      BY <2>2, <2>4, <3>2 DEF Chosen
    <3> QED BY <2>2, <3>1, <3>3
  <2>6. CASE o[i].init = init
    <3>1. PICK e : e = Append(c, o[i])
      OBVIOUS
    <3>2. /\ e \in Seq(Files) /\ Len(e) = Len(c) + 1 /\ e[Len(c) + 1] = o[i]
          /\ \A a \in 1 .. Len(c) : e[a] = c[a]
      BY <1>1, <2>2, <3>1
    <3>3. \A a \in 1 .. Len(e) : a = Len(c) + 1 \/ a \in 1 .. Len(c)
      BY <2>2, <3>2
    <3>4. \A a \in 1 .. Len(e) : \E j \in 1 .. i : o[j].init = init /\ e[a] = o[j]
      BY <2>2, <2>4, <2>6, <3>2, <3>3 DEF Chosen
    <3>5. ASSUME NEW a \in 1 .. Len(e), NEW b \in 1 .. Len(e), a < b, ~e[a].test, ~e[b].test
          PROVE  e[a].qname # e[b].qname
      <4>1. a \in 1 .. Len(c)
        BY <2>2, <3>2, <3>5
      <4>2. CASE b \in 1 .. Len(c)
        BY <2>2, <3>2, <3>5, <4>1, <4>2 DEF Chosen, Apart
      <4>3. CASE b = Len(c) + 1
        <5>1. PICK j \in 1 .. i - 1 : c[a] = o[j]
          BY <2>2, <4>1 DEF Chosen
        <5>2. e[a] = o[j] /\ e[b] = o[i] /\ j \in 1 .. Len(o) /\ i \in 1 .. Len(o) /\ j # i
          BY <2>4, <3>2, <4>1, <4>3, <5>1 DEF N
        <5> QED BY <3>5, <5>2, ModulesHaveOneFile
      <4> QED BY <3>3, <4>2, <4>3
    <3>6. ASSUME NEW a \in 1 .. Len(e), NEW b \in 1 .. Len(e), a < b
          PROVE  \E j, k \in 1 .. i : j < k /\ e[a] = o[j] /\ e[b] = o[k]
      <4>1. a \in 1 .. Len(c)
        BY <2>2, <3>2, <3>6
      <4>2. CASE b \in 1 .. Len(c)
        <5>1. PICK j \in 1 .. i - 1, k \in 1 .. i - 1 : j < k /\ c[a] = o[j] /\ c[b] = o[k]
          BY <2>2, <3>6, <4>1, <4>2 DEF Chosen, OrderKept
        <5> QED BY <2>4, <3>2, <4>1, <4>2, <5>1
      <4>3. CASE b = Len(c) + 1
        <5>1. PICK j \in 1 .. i - 1 : c[a] = o[j]
          BY <2>2, <4>1 DEF Chosen
        <5>2. j \in 1 .. i /\ i \in 1 .. i /\ j < i
          BY <1>1
        <5> QED BY <3>2, <4>1, <4>3, <5>1, <5>2
      <4> QED BY <3>3, <4>2, <4>3
    <3>7. Chosen(e, o, init, i)
      <4>1. OrderKept(e, o, i)
        BY <3>6 DEF OrderKept
      <4>2. Apart(e)
        BY <3>5 DEF Apart
      <4> QED BY <3>2, <3>4, <4>1, <4>2 DEF Chosen
    <3>8. chosen[i] = e
      BY <2>3, <2>6, <3>1 DEF After
    <3> QED BY <2>2, <3>7, <3>8
  <2> QED BY <2>5, <2>6
<1> HIDE DEF S
<1>14. \A i \in 0 .. N : i \in S
  BY <1>1, <1>12, <1>13, UpTo
<1>15. N \in 0 .. N
  BY <1>1
<1>16. Chosen(chosen[N], o, init, N)
  BY <1>14, <1>15 DEF S
<1> QED
  BY <1>10, <1>16 DEF N

(* The files of a package are those of different modules.                  *)
LEMMA FilesAreApart ==
  ASSUME NEW o \in Orders
  PROVE  InitFilesFirst(o) \in Seq(Files) /\ Apart(InitFilesFirst(o))
<1>1. PICK c : c = Selected(o, TRUE)
  OBVIOUS
<1>2. PICK d : d = Selected(o, FALSE)
  OBVIOUS
<1>3. PICK e : e = c \o d
  OBVIOUS
<1>4. Chosen(c, o, TRUE, Len(o)) /\ Chosen(d, o, FALSE, Len(o)) /\ InitFilesFirst(o) = e
  BY <1>1, <1>2, <1>3, SelectedFacts DEF InitFilesFirst
<1>5. c \in Seq(Files) /\ d \in Seq(Files) /\ Len(c) \in Nat /\ Len(d) \in Nat
  BY <1>4 DEF Chosen
<1>6. e \in Seq(Files) /\ Len(e) = Len(c) + Len(d)
  BY <1>3, <1>5
<1>7. ASSUME NEW a \in 1 .. Len(e)
      PROVE  \/ a \in 1 .. Len(c) /\ e[a] = c[a]
             \/ a - Len(c) \in 1 .. Len(d) /\ a > Len(c) /\ e[a] = d[a - Len(c)]
  BY <1>3, <1>5, <1>6, ConcatProperties
<1>8. ASSUME NEW a \in 1 .. Len(e), NEW b \in 1 .. Len(e), a < b, ~e[a].test, ~e[b].test
      PROVE  e[a].qname # e[b].qname
  <2>1. CASE a \in 1 .. Len(c) /\ b \in 1 .. Len(c) /\ e[a] = c[a] /\ e[b] = c[b]
    BY <1>4, <1>8, <2>1 DEF Chosen, Apart
  <2>2. CASE /\ a \in 1 .. Len(c) /\ e[a] = c[a]
             /\ b - Len(c) \in 1 .. Len(d) /\ e[b] = d[b - Len(c)]
    <3>1. PICK j \in 1 .. Len(o) : o[j].init = TRUE /\ c[a] = o[j]
      BY <1>4, <2>2 DEF Chosen
    <3>2. PICK k \in 1 .. Len(o) : o[k].init = FALSE /\ e[b] = o[k]
      <4>1. PICK y \in 1 .. Len(d) : e[b] = d[y]
        BY <2>2
      <4>2. \E k \in 1 .. Len(o) : o[k].init = FALSE /\ d[y] = o[k]
        BY <1>4, Zenon DEF Chosen
      <4> QED BY <4>1, <4>2
    <3>3. j # k /\ e[a] = o[j]
      BY <2>2, <3>1, <3>2, Zenon
    <3> QED BY <1>8, <3>2, <3>3, ModulesHaveOneFile
  <2>3. CASE /\ a - Len(c) \in 1 .. Len(d) /\ e[a] = d[a - Len(c)]
             /\ b - Len(c) \in 1 .. Len(d) /\ e[b] = d[b - Len(c)]
    <3>1. a - Len(c) < b - Len(c)
      BY <1>5, <1>8
    <3> QED BY <1>4, <1>8, <2>3, <3>1 DEF Chosen, Apart
  <2>4. \A x \in 1 .. Len(c) : ~(x > Len(c))
    BY <1>5
  <2>5. ~(a > Len(c) /\ b \in 1 .. Len(c))
    BY <1>5, <1>8
  <2> QED BY <1>7, <2>1, <2>2, <2>3, <2>5
<1>9. Apart(e)
  BY <1>8 DEF Apart
<1> QED BY <1>4, <1>6, <1>9
-----------------------------------------------------------------------------
(* What is kept of a package without functions in async functions.         *)

(* The stack is the walk, but for an async function the walk may be in at  *)
(* last.                                                                   *)
KindsAt(i) == IF i = 1 THEN {"module"} ELSE {"class", "function"}
Aligned(stack, walk) ==
  /\ \/ Len(walk) = Len(stack)
     \/ Len(walk) = Len(stack) + 1 /\ walk[Len(walk)].kind = "async"
  /\ \A i \in 1 .. Len(stack) :
       /\ walk[i].kind \in KindsAt(i)
       /\ stack[i].qname = walk[i].qname /\ stack[i].sort = SortOf(walk[i].kind)

(* A name goes on where that of the declaration around it ends.            *)
Nested(stack) ==
  /\ \A i \in 1 .. Len(stack) :
       Sequence(stack[i].qname) /\ Len(stack[i].qname) = Len(stack[1].qname) + i - 1
  /\ \A i, j \in 1 .. Len(stack) :
       j <= i => \A t \in 1 .. Len(stack[j].qname) : stack[j].qname[t] = stack[i].qname[t]

(* An id has the names on the stack.                                       *)
IdAt(stack, i, accessor) ==
  [module |-> stack[1].qname, names |-> [t \in 1 .. i - 1 |-> Top(stack[t + 1].qname)], accessor |-> accessor]
Identified(stack) ==
  \A i \in 1 .. Len(stack) : \E accessor :
    /\ stack[i].id = IdAt(stack, i, accessor)
    /\ stack[i].sort # "Function" => accessor = "none"

Fields == {"sort", "qname", "id", "classes", "functions", "is_public", "sharesList"}
Described(stack) == \A i \in 1 .. Len(stack) : Fields \subseteq DOMAIN stack[i]

Walked(stack, walk) ==
  /\ Sequence(stack) /\ Sequence(walk)
  /\ Described(stack) /\ Aligned(stack, walk) /\ Nested(stack) /\ Identified(stack)

(* Every class and every function is told from all others by its name and  *)
(* its accessor.                                                           *)
Apiece(ns) ==
  /\ \A n \in ns : /\ Sequence(n.qname) /\ Sequence(n.around)
                   /\ Len(n.around) \in 1 .. Len(n.qname)
  /\ \A m, n \in ns : m.qname = n.qname /\ m.accessor = n.accessor => m = n

(* The declarations on the stack are those of nodes.                       *)
Around(walk, i) == [t \in 1 .. i - 1 |-> walk[t].kind]
IsAt(n, stack, walk, i) ==
  /\ IdOf(n) = stack[i].id /\ n.qname = stack[i].qname
  /\ n.kind = walk[i].kind /\ n.around = Around(walk, i)
Open(stack, walk, ns) == \A i \in 2 .. Len(stack) : \E n \in ns : IsAt(n, stack, walk, i)

(* What is in the API is no more on the stack; only classes in a module    *)
(* are there.                                                              *)
NotYet(stack, a, ns) ==
  /\ \A id \in DOMAIN a.classes : (\E n \in ns : id = IdOf(n)) /\ Len(id.names) = 1
  /\ \A i \in 2 .. Len(stack) : stack[i].id \notin DOMAIN a.classes
  /\ Len(stack) # 0 => \A id \in DOMAIN a.modules : id.module # stack[1].qname

(* The files that are left are those of modules that were not seen yet.    *)
Left(fs, stack, a) ==
  /\ fs \in Seq(Files) /\ Apart(fs)
  /\ \A i \in 1 .. Len(fs) : ~fs[i].test =>
       /\ Len(stack) # 0 => stack[1].qname # fs[i].qname
       /\ \A id \in DOMAIN a.modules : id.module # fs[i].qname

(* What is listed is there.                                                *)
ListsOf(d, a) == d.classes \subseteq DOMAIN a.classes /\ d.functions \subseteq DOMAIN a.functions
Listed(stack, a) ==
  /\ \A i \in 1 .. Len(stack) : ListsOf(stack[i], a)
  /\ \A id \in DOMAIN a.modules : ListsOf(a.modules[id], a)
  /\ \A id \in DOMAIN a.classes : ListsOf(a.classes[id], a)

(* A class or a function that has been left is kept, and listed where it   *)
(* is, which may be left or not.                                           *)
KeptOf(n, a) == IF n.kind = "class" THEN a.classes ELSE a.functions
OwnersOf(n, a) == IF Len(n.around) = 1 THEN a.modules ELSE a.classes
ListOf(n, d) == IF n.kind = "class" THEN d.classes ELSE d.functions
OwnerSort(n) == IF Len(n.around) = 1 THEN "Module" ELSE "Class"
IsOwner(n, d) == d.id = OwnerId(n) /\ d.sort = OwnerSort(n) /\ IdOf(n) \in ListOf(n, d)
IsOwned(n, stack, a) ==
  \/ OwnerId(n) \in DOMAIN OwnersOf(n, a) /\ IdOf(n) \in ListOf(n, OwnersOf(n, a)[OwnerId(n)])
  \/ \E i \in 1 .. Len(stack) : IsOwner(n, stack[i])
IsKept(n, stack, a) ==
  /\ IdOf(n) \in DOMAIN KeptOf(n, a) /\ KeptOf(n, a)[IdOf(n)].qname = n.qname
  /\ Len(n.around) <= 2 => IsOwned(n, stack, a)
IsOpen(n, stack) == \E i \in 2 .. Len(stack) : stack[i].id = IdOf(n)
Accounted(stack, a, ns) == \A n \in ns : IsPlain(n) => IsOpen(n, stack) \/ IsKept(n, stack, a)

NoneInAsync == \A n \in nodes : ~IsAsync(n)

Complete ==
  /\ {"modules", "classes", "functions"} \subseteq DOMAIN api
  /\ Walked(declaration_stack, path)
  /\ Apiece(nodes) /\ Open(declaration_stack, path, nodes)
  /\ NotYet(declaration_stack, api, nodes) /\ Left(files, declaration_stack, api)
  /\ Listed(declaration_stack, api) /\ Accounted(declaration_stack, api, nodes)
CompleteButForAsync == NoneInAsync => Complete
-----------------------------------------------------------------------------
(* Names and ids.                                                          *)
LEMMA SameSequences ==
  ASSUME NEW s, NEW t, Sequence(s), Sequence(t), Len(s) = Len(t), \A i \in 1 .. Len(s) : s[i] = t[i]
  PROVE  s = t
<1>1. DOMAIN s = 1 .. Len(s) /\ DOMAIN t = 1 .. Len(t)
  BY LengthOfSequence
<1>2. s = [i \in DOMAIN s |-> s[i]] /\ t = [i \in DOMAIN t |-> t[i]]
  BY DEF Sequence
<1> QED
  BY <1>1, <1>2

LEMMA FunctionIsSequence ==
  ASSUME NEW n \in Nat, NEW s, s = [i \in 1 .. n |-> s[i]]
  PROVE  Sequence(s) /\ Len(s) = n
<1>1. Sequence(s)
  BY DEF Sequence
<1>2. Len(s) \in Nat /\ DOMAIN s = 1 .. Len(s)
  BY <1>1, LengthOfSequence
<1>3. DOMAIN s = 1 .. n
  OBVIOUS
<1> QED
  BY <1>1, <1>2, <1>3

LEMMA PartOfSequence ==
  ASSUME NEW s, Sequence(s), NEW a \in Nat, NEW b \in Nat, 1 <= a, a <= b + 1, b <= Len(s)
  PROVE  /\ Sequence(SubSeq(s, a, b)) /\ Len(SubSeq(s, a, b)) = b - a + 1
         /\ \A i \in 1 .. b - a + 1 : SubSeq(s, a, b)[i] = s[a + i - 1]
<1> DEFINE S == {s[i] : i \in DOMAIN s}
<1>1. s \in Seq(S) /\ Len(s) \in Nat
  BY SequenceIsSeq, LengthOfSequence
<1>2. \A i \in a .. b : s[i] \in S
  <2>1. \A i \in a .. b : i \in DOMAIN s
    BY <1>1, LengthOfSequence
  <2> QED BY <2>1
<1> HIDE DEF S
<1>3. PICK p : p = SubSeq(s, a, b)
  OBVIOUS
<1>4. /\ p \in Seq(S) /\ Len(p) = IF a <= b THEN b - a + 1 ELSE 0
      /\ \A i \in 1 .. b - a + 1 : p[i] = s[a + i - 1]
  BY <1>1, <1>2, <1>3, SubSeqProperties
<1>5. Sequence(p)
  BY <1>4, SeqIsSequence
<1>6. Len(p) = b - a + 1
  BY <1>4
<1> QED
  BY <1>3, <1>4, <1>5, <1>6

(* The id of a node and that of the one around it are made of its name.    *)
HasParts(n, k, l) ==
  /\ k \in Nat /\ l \in Nat /\ k <= l /\ 1 <= k /\ l - k \in Nat
  /\ Sequence(ModuleName(n)) /\ Len(ModuleName(n)) = l - k
  /\ \A t \in 1 .. l - k : ModuleName(n)[t] = n.qname[t]
  /\ Sequence(NamesIn(n)) /\ Len(NamesIn(n)) = k
  /\ \A t \in 1 .. k : NamesIn(n)[t] = n.qname[l - k + t]
  /\ Sequence(Parent(NamesIn(n))) /\ Len(Parent(NamesIn(n))) = k - 1
  /\ \A t \in 1 .. k - 1 : Parent(NamesIn(n))[t] = NamesIn(n)[t]

LEMMA PartsOfId ==
  ASSUME NEW n, Sequence(n.qname), Sequence(n.around), Len(n.around) \in 1 .. Len(n.qname)
  PROVE  HasParts(n, Len(n.around), Len(n.qname))
<1>1. PICK k : k = Len(n.around)
  OBVIOUS
<1>2. PICK l : l = Len(n.qname)
  OBVIOUS
<1>3. l \in Nat /\ k \in Nat /\ k \in 1 .. l
  BY <1>1, <1>2, LengthOfSequence
<1>4. PICK b \in Nat : b = l - k
  BY <1>3
<1>5. PICK a \in Nat : a = b + 1
  BY <1>4
<1>6. /\ b <= l /\ 1 <= b + 1 /\ b - 1 + 1 = b /\ \A t \in 1 .. b : 1 + t - 1 = t
      /\ 1 <= a /\ a <= l + 1 /\ l - a + 1 = k /\ \A t \in 1 .. k : a + t - 1 = b + t
      /\ l - k + 1 = a
  BY <1>3, <1>4, <1>5
<1>7. PICK q : q = n.qname
  OBVIOUS
<1>8. Sequence(q) /\ Len(q) = l
  BY <1>2, <1>7
<1>9. /\ Sequence(SubSeq(q, 1, b)) /\ Len(SubSeq(q, 1, b)) = b
      /\ \A t \in 1 .. b : SubSeq(q, 1, b)[t] = q[t]
  BY <1>6, <1>8, PartOfSequence
<1>10. /\ Sequence(SubSeq(q, a, l)) /\ Len(SubSeq(q, a, l)) = k
       /\ \A t \in 1 .. k : SubSeq(q, a, l)[t] = q[b + t]
  <2>1. /\ Sequence(SubSeq(q, a, l)) /\ Len(SubSeq(q, a, l)) = l - a + 1
        /\ \A t \in 1 .. l - a + 1 : SubSeq(q, a, l)[t] = q[a + t - 1]
    BY <1>3, <1>6, <1>8, PartOfSequence
  <2> QED BY <1>6, <2>1
<1>11. ModuleName(n) = SubSeq(q, 1, b) /\ NamesIn(n) = SubSeq(q, a, l)
  BY <1>1, <1>2, <1>4, <1>6, <1>7 DEF ModuleName, NamesIn
<1>12. PICK names : names = NamesIn(n)
  OBVIOUS
<1>13. Sequence(names) /\ Len(names) = k /\ Len(names) # 0 /\ Parent(names) = SubSeq(names, 1, Len(names) - 1)
  BY <1>3, <1>10, <1>11, <1>12 DEF Parent
<1>14. /\ Sequence(Parent(names)) /\ Len(Parent(names)) = k - 1
       /\ \A t \in 1 .. k - 1 : Parent(names)[t] = names[t]
  BY <1>13, FrontOfSequence
<1>15. HasParts(n, k, l)
  <2>1. \A t \in 1 .. k : names[t] = n.qname[l - k + t]
    BY <1>4, <1>7, <1>10, <1>11, <1>12
  <2>2. \A t \in 1 .. l - k : ModuleName(n)[t] = n.qname[t]
    BY <1>4, <1>7, <1>9, <1>11
  <2>3. Sequence(ModuleName(n)) /\ Len(ModuleName(n)) = l - k
    BY <1>4, <1>9, <1>11
  <2>4. k <= l /\ 1 <= k /\ l - k \in Nat
    BY <1>3
  <2> QED BY <1>3, <1>12, <1>13, <1>14, <2>1, <2>2, <2>3, <2>4 DEF HasParts
<1> QED
  BY <1>1, <1>2, <1>15

LEMMA SameIds ==
  ASSUME NEW ns, Apiece(ns), NEW m \in ns, NEW n \in ns, IdOf(m) = IdOf(n)
  PROVE  m = n
<1>1. HasParts(n, Len(n.around), Len(n.qname)) /\ HasParts(m, Len(m.around), Len(m.qname))
  BY PartsOfId DEF Apiece
<1>2. ModuleName(m) = ModuleName(n) /\ NamesIn(m) = NamesIn(n) /\ m.accessor = n.accessor
  BY DEF IdOf
<1>3. Len(m.around) = Len(n.around) /\ Len(m.qname) = Len(n.qname)
  BY <1>1, <1>2 DEF HasParts
<1>4. PICK k : k = Len(n.around)
  OBVIOUS
<1>5. PICK l : l = Len(n.qname)
  OBVIOUS
<1>6. /\ k \in Nat /\ l \in Nat /\ l - k \in Nat
      /\ \A t \in 1 .. l - k : n.qname[t] = m.qname[t]
      /\ \A t \in 1 .. k : n.qname[l - k + t] = m.qname[l - k + t]
  BY <1>1, <1>2, <1>3, <1>4, <1>5 DEF HasParts
<1>7. ASSUME NEW t \in 1 .. l PROVE m.qname[t] = n.qname[t]
  <2>1. CASE t \in 1 .. l - k
    BY <1>6, <2>1
  <2>2. CASE t > l - k
    <3>1. t - (l - k) \in 1 .. k /\ l - k + (t - (l - k)) = t
      BY <1>6, <2>2
    <3> QED BY <1>6, <3>1
  <2> QED BY <1>6, <2>1, <2>2
<1>8. m.qname = n.qname
  BY <1>3, <1>5, <1>7, SameSequences DEF Apiece
<1> QED
  BY <1>2, <1>8 DEF Apiece

(* The ids on the stack.                                                   *)
LEMMA IdsOnStack ==
  ASSUME NEW stack, NEW walk, Walked(stack, walk), NEW i \in 1 .. Len(stack)
  PROVE  /\ i \in Nat /\ stack[i].id.module = stack[1].qname
         /\ Sequence(stack[i].id.names) /\ Len(stack[i].id.names) = i - 1
         /\ \A t \in 1 .. i - 1 : stack[i].id.names[t] = Top(stack[t + 1].qname)
<1>1. i \in Nat /\ i - 1 \in Nat
  BY LengthOfSequence DEF Walked
<1>2. PICK accessor : stack[i].id = IdAt(stack, i, accessor)
  BY DEF Walked, Identified
<1>3. PICK names : names = [t \in 1 .. i - 1 |-> Top(stack[t + 1].qname)]
  OBVIOUS
<1>4. stack[i].id = [module |-> stack[1].qname, names |-> names, accessor |-> accessor]
  BY <1>2, <1>3 DEF IdAt
<1>5. stack[i].id.module = stack[1].qname /\ stack[i].id.names = names
  BY <1>4
<1>6. names = [t \in 1 .. i - 1 |-> names[t]] /\ \A t \in 1 .. i - 1 : names[t] = Top(stack[t + 1].qname)
  BY <1>3
<1>7. Sequence(names) /\ Len(names) = i - 1
  BY <1>1, <1>6, FunctionIsSequence
<1> QED
  BY <1>1, <1>5, <1>6, <1>7
-----------------------------------------------------------------------------
(* Entering a class or a function.                                         *)
IsWithin(n, stack, walk, name) ==
  /\ Sequence(n.qname) /\ Sequence(n.around) /\ Len(n.around) = Len(stack)
  /\ Len(n.qname) = Len(stack[1].qname) + Len(stack) /\ Len(n.around) \in 1 .. Len(n.qname)
  /\ \A i \in 1 .. Len(stack) : \A t \in 1 .. Len(stack[i].qname) : n.qname[t] = stack[i].qname[t]
  /\ Top(n.qname) = name

(* The name and the id of what is entered.                                 *)
LEMMA NameOfNew ==
  ASSUME NEW stack, NEW walk, Walked(stack, walk), Len(stack) # 0, NEW name, NEW n,
         n.qname = Append(stack[Len(stack)].qname, name),
         n.around = [i \in 1 .. Len(stack) |-> walk[i].kind]
  PROVE  IsWithin(n, stack, walk, name)
<1>1. PICK k : k = Len(stack)
  OBVIOUS
<1>2. PICK q : q = stack[k].qname
  OBVIOUS
<1>3. PICK m : m = Len(stack[1].qname)
  OBVIOUS
<1>4. k \in Nat /\ k # 0 /\ k \in 1 .. k /\ 1 \in 1 .. k
  BY <1>1, LengthOfSequence DEF Walked
<1>5. /\ Sequence(q) /\ Len(q) = m + k - 1 /\ m \in Nat
      /\ \A i \in 1 .. k : i <= k => \A t \in 1 .. Len(stack[i].qname) : stack[i].qname[t] = q[t]
      /\ \A i \in 1 .. k : Len(stack[i].qname) = m + i - 1
  BY <1>1, <1>2, <1>3, <1>4, LengthOfSequence DEF Walked, Nested
<1>6. /\ Sequence(n.qname) /\ Len(n.qname) = Len(q) + 1
      /\ \A t \in 1 .. Len(q) : n.qname[t] = q[t]
      /\ n.qname[Len(q) + 1] = name
  <2>1. n.qname = Append(q, name)
    BY <1>1, <1>2
  <2> QED BY <1>5, <2>1, AppendToSequence
<1>7. Len(n.qname) = m + k /\ Len(q) + 1 = m + k /\ k \in 1 .. m + k
  BY <1>4, <1>5, <1>6
<1>8. PICK around : around = n.around
  OBVIOUS
<1>9. Sequence(around) /\ Len(around) = k
  <2>1. around = [i \in 1 .. k |-> around[i]]
    BY <1>1, <1>8
  <2> QED BY <1>4, <2>1, FunctionIsSequence
<1>10. ASSUME NEW i \in 1 .. k, NEW t \in 1 .. Len(stack[i].qname)
       PROVE  n.qname[t] = stack[i].qname[t]
  <2>1. i <= k /\ Len(stack[i].qname) = m + i - 1
    BY <1>4, <1>5
  <2>2. t \in 1 .. Len(q)
    BY <1>4, <1>5, <2>1
  <2> QED BY <1>5, <1>6, <2>1, <2>2
<1>11. Top(n.qname) = name
  BY <1>6, <1>7 DEF Top
<1> QED
  BY <1>1, <1>3, <1>6, <1>7, <1>8, <1>9, <1>10, <1>11 DEF IsWithin

LEMMA IdOfNew ==
  ASSUME NEW stack, NEW walk, Walked(stack, walk), Len(stack) # 0, NEW name, NEW n,
         IsWithin(n, stack, walk, name)
  PROVE  IdOf(n) = Id(stack, name, n.accessor)
<1>1. PICK k : k = Len(stack)
  OBVIOUS
<1>2. PICK m : m = Len(stack[1].qname)
  OBVIOUS
<1>3. k \in Nat /\ k # 0 /\ 1 \in 1 .. k
  BY <1>1, LengthOfSequence DEF Walked
<1>4. Sequence(stack[1].qname) /\ m \in Nat
  BY <1>1, <1>2, <1>3, LengthOfSequence DEF Walked, Nested
<1>5. PICK l : l = m + k
  OBVIOUS
<1>6. HasParts(n, k, l) /\ l - k = m
  BY <1>1, <1>2, <1>3, <1>4, <1>5, PartsOfId DEF IsWithin
<1>7. ModuleName(n) = stack[1].qname
  <2>1. /\ Sequence(ModuleName(n)) /\ Len(ModuleName(n)) = m
        /\ \A t \in 1 .. m : ModuleName(n)[t] = n.qname[t]
    BY <1>6 DEF HasParts
  <2>2. \A t \in 1 .. m : n.qname[t] = stack[1].qname[t]
    BY <1>1, <1>2, <1>3 DEF IsWithin
  <2> QED BY <1>2, <1>4, <2>1, <2>2, SameSequences
<1>8. PICK names : names = [i \in 1 .. k |-> IF i = k THEN name ELSE Top(stack[i + 1].qname)]
  OBVIOUS
<1>9. NamesIn(n) = names
  <2>1. Sequence(names) /\ Len(names) = k
    <3>1. names = [i \in 1 .. k |-> names[i]]
      BY <1>8
    <3> QED BY <1>3, <3>1, FunctionIsSequence
  <2>2. Sequence(NamesIn(n)) /\ Len(NamesIn(n)) = k /\ \A t \in 1 .. k : NamesIn(n)[t] = n.qname[m + t]
    BY <1>6 DEF HasParts
  <2>3. ASSUME NEW t \in 1 .. k PROVE n.qname[m + t] = names[t]
    <3>1. CASE t = k
      BY <1>1, <1>2, <1>8, <3>1 DEF IsWithin, Top
    <3>2. CASE t # k
      <4>1. t + 1 \in 1 .. k /\ names[t] = Top(stack[t + 1].qname)
        BY <1>3, <1>8, <3>2
      <4>2. Len(stack[t + 1].qname) = m + (t + 1) - 1
        BY <1>1, <1>2, <4>1 DEF Walked, Nested
      <4>3. Len(stack[t + 1].qname) = m + t /\ m + t \in 1 .. m + t
        BY <1>3, <1>4, <4>2
      <4>4. names[t] = stack[t + 1].qname[m + t]
        BY <4>1, <4>3 DEF Top
      <4> QED BY <1>1, <4>1, <4>3, <4>4 DEF IsWithin
    <3> QED BY <3>1, <3>2
  <2> QED BY <2>1, <2>2, <2>3, SameSequences
<1>10. Id(stack, name, n.accessor) = [module |-> stack[1].qname, names |-> names, accessor |-> n.accessor]
  BY <1>1, <1>8 DEF Id
<1> QED
  BY <1>7, <1>9, <1>10 DEF IdOf
(* What entering does to the stack and the walk.                           *)
Extends(longer, s, e) ==
  /\ Sequence(longer) /\ Len(s) \in Nat /\ Len(longer) = Len(s) + 1
  /\ \A i \in 1 .. Len(s) : longer[i] = s[i] /\ i \in 1 .. Len(longer) /\ i # Len(longer)
  /\ longer[Len(longer)] = e /\ Len(longer) \in 1 .. Len(longer)
  /\ \A i \in 1 .. Len(longer) : i \in Nat /\ (i = Len(longer) \/ i \in 1 .. Len(s))

LEMMA AppendExtends ==
  ASSUME NEW s, Sequence(s), NEW e
  PROVE  Extends(Append(s, e), s, e)
<1>1. PICK longer : longer = Append(s, e)
  OBVIOUS
<1>2. /\ Sequence(longer) /\ Len(longer) = Len(s) + 1 /\ longer[Len(s) + 1] = e
      /\ \A i \in 1 .. Len(s) : longer[i] = s[i]
  BY <1>1, AppendToSequence
<1>3. Len(s) \in Nat
  BY LengthOfSequence
<1>4. Extends(longer, s, e)
  BY <1>2, <1>3 DEF Extends
<1> QED
  BY <1>1, <1>4

IsEntered(d, node, n) ==
  /\ Fields \subseteq DOMAIN d /\ d.id = IdOf(n) /\ d.qname = n.qname /\ d.sort = SortOf(n.kind)
  /\ d.classes = {} /\ d.functions = {}
  /\ node.kind = n.kind /\ node.qname = n.qname /\ n.kind \in {"class", "function"}
  /\ n.kind = "class" => n.accessor = "none"

LEMMA EnterWalked ==
  ASSUME NEW stack, NEW walk, Walked(stack, walk), Len(stack) = Len(walk), Len(stack) # 0,
         NEW name, NEW n, IsWithin(n, stack, walk, name),
         NEW d, NEW node, IsEntered(d, node, n),
         NEW longer, Extends(longer, stack, d), NEW further, Extends(further, walk, node)
  PROVE  Walked(longer, further)
<1>1. PICK k : k = Len(stack)
  OBVIOUS
<1>2. PICK m : m = Len(stack[1].qname)
  OBVIOUS
<1>3. PICK l : l = Len(longer)
  OBVIOUS
<1>4. /\ k \in Nat /\ k # 0 /\ l = k + 1 /\ l \in 1 .. l /\ 1 \in 1 .. k /\ l # 1 /\ Len(walk) = k /\ Len(further) = l
      /\ \A i \in 1 .. l : i = l \/ i \in 1 .. k
      /\ \A i \in 1 .. k : longer[i] = stack[i] /\ further[i] = walk[i] /\ i \in 1 .. l /\ i # l
      /\ longer[l] = d /\ further[l] = node
  BY <1>1, <1>3 DEF Extends
<1>5. Sequence(longer) /\ Sequence(further)
  BY DEF Extends
<1>6. Described(longer)
  BY <1>1, <1>3, <1>4 DEF Described, IsEntered, Walked
<1>7. Aligned(longer, further)
  <2>1. ASSUME NEW i \in 1 .. l
        PROVE  /\ further[i].kind \in KindsAt(i)
               /\ longer[i].qname = further[i].qname /\ longer[i].sort = SortOf(further[i].kind)
    <3>1. CASE i = l
      BY <1>4, <3>1 DEF IsEntered, KindsAt
    <3>2. CASE i \in 1 .. k
      BY <1>1, <1>4, <3>2 DEF Walked, Aligned
    <3> QED BY <1>4, <3>1, <3>2
  <2> QED BY <1>3, <1>4, <2>1 DEF Aligned
<1>8. /\ Sequence(n.qname) /\ Len(n.qname) = m + k /\ m \in Nat
      /\ \A i \in 1 .. k : Len(stack[i].qname) = m + i - 1
  BY <1>1, <1>2, <1>4, LengthOfSequence DEF IsWithin, Walked, Nested
<1>9. d.qname = n.qname /\ d.id = IdOf(n)
  BY DEF IsEntered
<1>10. Nested(longer)
  <2>1. ASSUME NEW i \in 1 .. l
        PROVE  Sequence(longer[i].qname) /\ Len(longer[i].qname) = Len(longer[1].qname) + i - 1
    <3>1. longer[1] = stack[1] /\ Len(longer[1].qname) = m
      BY <1>2, <1>4
    <3>2. CASE i = l
      BY <1>4, <1>8, <1>9, <3>1, <3>2
    <3>3. CASE i \in 1 .. k
      BY <1>1, <1>4, <3>1, <3>3 DEF Walked, Nested
    <3> QED BY <1>4, <3>2, <3>3
  <2>2. ASSUME NEW i \in 1 .. l, NEW j \in 1 .. l, j <= i, NEW t \in 1 .. Len(longer[j].qname)
        PROVE  longer[j].qname[t] = longer[i].qname[t]
    <3>1. CASE i = l /\ j \in 1 .. k
      BY <1>1, <1>4, <1>9, <2>2, <3>1 DEF IsWithin
    <3>2. CASE i \in 1 .. k /\ j \in 1 .. k
      <4>1. longer[i] = stack[i] /\ longer[j] = stack[j]
        BY <1>4, <3>2
      <4>2. \A u \in 1 .. Len(stack[j].qname) : stack[j].qname[u] = stack[i].qname[u]
        BY <1>1, <2>2, <3>2 DEF Walked, Nested
      <4> QED BY <2>2, <4>1, <4>2
    <3>3. i = j \/ j \in 1 .. k
      BY <1>4, <2>2
    <3> QED BY <1>4, <2>2, <3>1, <3>2, <3>3
  <2> QED BY <1>3, <2>1, <2>2 DEF Nested
<1>11. Identified(longer)
  <2>1. ASSUME NEW i \in 1 .. k, NEW accessor PROVE IdAt(longer, i, accessor) = IdAt(stack, i, accessor)
    <3>1. longer[1] = stack[1] /\ \A t \in 1 .. i - 1 : t + 1 \in 1 .. k
      BY <1>4
    <3>2. \A t \in 1 .. i - 1 : longer[t + 1] = stack[t + 1]
      BY <1>4, <3>1
    <3>3. [t \in 1 .. i - 1 |-> Top(longer[t + 1].qname)] = [t \in 1 .. i - 1 |-> Top(stack[t + 1].qname)]
      BY <3>2
    <3> QED BY <3>1, <3>3 DEF IdAt
  <2>2. IdAt(longer, l, n.accessor) = IdOf(n)
    <3>1. longer[1] = stack[1]
      BY <1>4
    <3>2. PICK f : f = [t \in 1 .. l - 1 |-> Top(longer[t + 1].qname)]
      OBVIOUS
    <3>3. PICK g : g = [t \in 1 .. k |-> IF t = k THEN name ELSE Top(stack[t + 1].qname)]
      OBVIOUS
    <3>4. l - 1 = k
      BY <1>4
    <3>5. ASSUME NEW t \in 1 .. k PROVE f[t] = g[t]
      <4>1. CASE t = k
        <5>1. Top(longer[t + 1].qname) = name
          BY <1>4, <1>9, <4>1 DEF IsWithin
        <5> QED BY <3>2, <3>3, <3>4, <4>1, <5>1
      <4>2. CASE t # k
        <5>1. t + 1 \in 1 .. k
          BY <1>4, <4>2
        <5>2. longer[t + 1] = stack[t + 1]
          BY <1>4, <5>1
        <5> QED BY <3>2, <3>3, <3>4, <4>2, <5>2
      <4> QED BY <4>1, <4>2
    <3>6. f = g
      BY <3>2, <3>3, <3>4, <3>5
    <3>7. IdAt(longer, l, n.accessor) = [module |-> stack[1].qname, names |-> f, accessor |-> n.accessor]
      BY <3>1, <3>2 DEF IdAt
    <3>8. Id(stack, name, n.accessor) = [module |-> stack[1].qname, names |-> g, accessor |-> n.accessor]
      BY <1>1, <3>3 DEF Id
    <3> QED BY <3>6, <3>7, <3>8, IdOfNew
  <2>3. ASSUME NEW i \in 1 .. l
        PROVE  \E accessor : /\ longer[i].id = IdAt(longer, i, accessor)
                             /\ longer[i].sort # "Function" => accessor = "none"
    <3>1. CASE i = l
      <4>1. longer[i].id = IdAt(longer, i, n.accessor)
        BY <1>4, <1>9, <2>2, <3>1
      <4>2. longer[i].sort # "Function" => n.accessor = "none"
        BY <1>4, <3>1 DEF IsEntered, SortOf
      <4> QED BY <4>1, <4>2
    <3>2. CASE i \in 1 .. k
      <4>1. PICK accessor : /\ stack[i].id = IdAt(stack, i, accessor)
                            /\ stack[i].sort # "Function" => accessor = "none"
        BY <1>1, <3>2 DEF Walked, Identified
      <4> QED BY <1>4, <2>1, <3>2, <4>1
    <3> QED BY <1>4, <3>1, <3>2
  <2> QED BY <1>3, <2>3 DEF Identified
<1> QED
  BY <1>5, <1>6, <1>7, <1>10, <1>11 DEF Walked
LEMMA EnterApiece ==
  ASSUME NEW ns, Apiece(ns), NEW n, Sequence(n.qname), Sequence(n.around), Len(n.around) \in 1 .. Len(n.qname),
         \A m \in ns : m.qname = n.qname => m.accessor # n.accessor
  PROVE  Apiece(ns \cup {n}) /\ n \notin ns
BY DEF Apiece

LEMMA EnterOpen ==
  ASSUME NEW stack, NEW walk, Len(stack) = Len(walk), Len(stack) # 0, NEW ns, Open(stack, walk, ns),
         NEW n, NEW d, NEW node, IsEntered(d, node, n), n.around = [i \in 1 .. Len(stack) |-> walk[i].kind],
         NEW longer, Extends(longer, stack, d), NEW further, Extends(further, walk, node)
  PROVE  Open(longer, further, ns \cup {n})
<1>1. PICK k : k = Len(stack)
  OBVIOUS
<1>2. PICK l : l = Len(longer)
  OBVIOUS
<1>3. /\ k \in Nat /\ l = k + 1 /\ l - 1 = k
      /\ \A i \in 1 .. k : longer[i] = stack[i] /\ further[i] = walk[i]
      /\ longer[l] = d /\ further[l] = node
      /\ \A i \in 1 .. l : i = l \/ i \in 1 .. k
  BY <1>1, <1>2 DEF Extends
<1>4. ASSUME NEW i \in 1 .. k PROVE Around(further, i) = Around(walk, i)
  <2>1. \A t \in 1 .. i - 1 : t \in 1 .. k
    BY <1>3
  <2> QED BY <1>3, <2>1 DEF Around
<1>5. Around(further, l) = n.around
  <2>1. Around(further, l) = [t \in 1 .. k |-> further[t].kind]
    BY <1>3 DEF Around
  <2>2. [t \in 1 .. k |-> further[t].kind] = [t \in 1 .. k |-> walk[t].kind]
    BY <1>3
  <2> QED BY <1>1, <2>1, <2>2
<1>6. ASSUME NEW i \in 2 .. l PROVE \E m \in ns \cup {n} : IsAt(m, longer, further, i)
  <2>1. CASE i = l
    <3>1. IsAt(n, longer, further, i)
      BY <1>3, <1>5, <2>1 DEF IsAt, IsEntered
    <3> QED BY <3>1
  <2>2. CASE i \in 1 .. k
    <3>1. i \in 2 .. k
      BY <1>3, <2>2
    <3>2. PICK m \in ns : IsAt(m, stack, walk, i)
      BY <1>1, <3>1 DEF Open
    <3>3. IsAt(m, longer, further, i)
      BY <1>3, <1>4, <2>2, <3>2 DEF IsAt
    <3> QED BY <3>3
  <2>3. i \in 1 .. l
    BY <1>3
  <2> QED BY <1>3, <2>1, <2>2, <2>3
<1> QED
  BY <1>2, <1>6 DEF Open

LEMMA EnterNotYet ==
  ASSUME NEW stack, Len(stack) # 0, NEW ns, NEW n, Apiece(ns \cup {n}), n \notin ns,
         NEW a, NotYet(stack, a, ns), NEW d, NEW node, IsEntered(d, node, n),
         NEW longer, Extends(longer, stack, d)
  PROVE  NotYet(longer, a, ns \cup {n})
<1>1. IdOf(n) \notin DOMAIN a.classes
  <2> SUFFICES ASSUME IdOf(n) \in DOMAIN a.classes PROVE FALSE
    OBVIOUS
  <2>1. PICK m \in ns : IdOf(n) = IdOf(m)
    BY DEF NotYet
  <2>2. m = n
    BY <2>1, SameIds
  <2> QED BY <2>2
<1>2. \A i \in 2 .. Len(longer) : i = Len(longer) \/ i \in 2 .. Len(stack)
  BY DEF Extends
<1>3. \A i \in 2 .. Len(longer) : longer[i].id \notin DOMAIN a.classes
  <2> SUFFICES ASSUME NEW i \in 2 .. Len(longer) PROVE longer[i].id \notin DOMAIN a.classes
    OBVIOUS
  <2>1. CASE i = Len(longer)
    BY <1>1, <2>1 DEF Extends, IsEntered
  <2>2. CASE i \in 2 .. Len(stack)
    <3>1. i \in 1 .. Len(stack)
      BY <2>2 DEF Extends
    <3> QED BY <2>2, <3>1 DEF Extends, NotYet
  <2> QED BY <1>2, <2>1, <2>2
<1>4. longer[1] = stack[1]
  BY DEF Extends
<1> QED
  BY <1>3, <1>4 DEF NotYet

LEMMA EnterRest ==
  ASSUME NEW stack, Len(stack) # 0, NEW ns, NEW n, NEW a, NEW d, NEW node, IsEntered(d, node, n),
         NEW longer, Extends(longer, stack, d), NEW fs,
         Left(fs, stack, a), Listed(stack, a), Accounted(stack, a, ns)
  PROVE  Left(fs, longer, a) /\ Listed(longer, a) /\ Accounted(longer, a, ns \cup {n})
<1>1. /\ longer[1] = stack[1] /\ Len(longer) \in 2 .. Len(longer)
      /\ \A i \in 1 .. Len(stack) : longer[i] = stack[i] /\ i \in 1 .. Len(longer)
      /\ \A i \in 2 .. Len(stack) : longer[i] = stack[i] /\ i \in 2 .. Len(longer)
      /\ \A i \in 1 .. Len(longer) : i = Len(longer) \/ i \in 1 .. Len(stack)
      /\ longer[Len(longer)] = d
  BY DEF Extends
<1>2. Left(fs, longer, a)
  BY <1>1 DEF Left
<1>3. ListsOf(d, a)
  BY DEF IsEntered, ListsOf
<1>4. Listed(longer, a)
  BY <1>1, <1>3 DEF Listed
<1>5. ASSUME NEW m \in ns \cup {n}, IsPlain(m) PROVE IsOpen(m, longer) \/ IsKept(m, longer, a)
  <2>1. CASE m = n
    BY <1>1, <2>1 DEF IsOpen, IsEntered
  <2>2. CASE m \in ns /\ IsOpen(m, stack)
    BY <1>1, <2>2 DEF IsOpen
  <2>3. CASE m \in ns /\ IsKept(m, stack, a)
    <3>1. IsOwned(m, stack, a) => IsOwned(m, longer, a)
      BY <1>1 DEF IsOwned
    <3> QED BY <2>3, <3>1 DEF IsKept
  <2> QED BY <1>5, <2>1, <2>2, <2>3 DEF Accounted
<1> QED
  BY <1>2, <1>4, <1>5 DEF Accounted
-----------------------------------------------------------------------------
(* Leaving.                                                                *)
Shortens(back, s) ==
  /\ Sequence(back) /\ Len(s) \in Nat /\ Len(s) # 0 /\ Len(back) = Len(s) - 1
  /\ \A i \in 1 .. Len(back) : back[i] = s[i] /\ i \in 1 .. Len(s) /\ i < Len(s)
  /\ \A i \in 1 .. Len(s) : i \in Nat /\ (i = Len(s) \/ i \in 1 .. Len(back))

LEMMA FrontShortens ==
  ASSUME NEW s, Sequence(s), Len(s) # 0
  PROVE  Shortens(SubSeq(s, 1, Len(s) - 1), s)
<1>1. PICK back : back = SubSeq(s, 1, Len(s) - 1)
  OBVIOUS
<1>2. Len(s) \in Nat
  BY LengthOfSequence
<1>3. Sequence(back) /\ Len(back) = Len(s) - 1 /\ \A i \in 1 .. Len(s) - 1 : back[i] = s[i]
  BY <1>1, FrontOfSequence
<1>4. Shortens(back, s)
  BY <1>2, <1>3 DEF Shortens
<1> QED
  BY <1>1, <1>4

(* What is left of the stack, the declaration at the end told of a member. *)
Lists == {"classes", "functions"}
Follows(rest, stack) ==
  /\ Sequence(rest) /\ Len(stack) \in Nat /\ Len(stack) # 0 /\ Len(rest) = Len(stack) - 1
  /\ Described(rest)
  /\ \A i \in 1 .. Len(rest) :
       /\ i \in 1 .. Len(stack) /\ i < Len(stack)
       /\ rest[i].qname = stack[i].qname /\ rest[i].sort = stack[i].sort /\ rest[i].id = stack[i].id
       /\ rest[i].is_public = stack[i].is_public /\ rest[i].sharesList = stack[i].sharesList
       /\ stack[i].classes \subseteq rest[i].classes /\ stack[i].functions \subseteq rest[i].functions
  /\ \A i \in 1 .. Len(stack) : i \in Nat /\ (i = Len(stack) \/ i \in 1 .. Len(rest))

LEMMA LeaveWalked ==
  ASSUME NEW stack, NEW walk, Walked(stack, walk), Len(walk) = Len(stack),
         NEW rest, Follows(rest, stack), NEW back, Shortens(back, walk)
  PROVE  Walked(rest, back)
<1>1. PICK k : k = Len(rest)
  OBVIOUS
<1>2. /\ k = Len(stack) - 1 /\ Len(stack) \in Nat /\ k \in Nat /\ Len(back) = k
      /\ \A i \in 1 .. k : /\ i \in 1 .. Len(stack) /\ back[i] = walk[i]
                           /\ rest[i].qname = stack[i].qname /\ rest[i].sort = stack[i].sort
                           /\ rest[i].id = stack[i].id
  BY <1>1 DEF Follows, Shortens
<1>3. Aligned(rest, back)
  BY <1>1, <1>2 DEF Aligned, Walked
<1>4. \A i \in 1 .. k : 1 \in 1 .. k
  BY <1>2
<1>5. Nested(rest)
  <2>1. ASSUME NEW i \in 1 .. k
        PROVE  Sequence(rest[i].qname) /\ Len(rest[i].qname) = Len(rest[1].qname) + i - 1
    BY <1>2, <1>4 DEF Nested, Walked
  <2>2. ASSUME NEW i \in 1 .. k, NEW j \in 1 .. k, j <= i, NEW t \in 1 .. Len(rest[j].qname)
        PROVE  rest[j].qname[t] = rest[i].qname[t]
    <3>1. \A u \in 1 .. Len(stack[j].qname) : stack[j].qname[u] = stack[i].qname[u]
      BY <1>2, <2>2 DEF Nested, Walked
    <3> QED BY <1>2, <3>1
  <2> QED BY <1>1, <2>1, <2>2 DEF Nested
<1>6. Identified(rest)
  <2>1. ASSUME NEW i \in 1 .. k, NEW accessor PROVE IdAt(rest, i, accessor) = IdAt(stack, i, accessor)
    <3>1. \A t \in 1 .. i - 1 : t + 1 \in 1 .. k
      BY <1>2
    <3>2. \A t \in 1 .. i - 1 : rest[t + 1].qname = stack[t + 1].qname
      BY <1>2, <3>1
    <3>3. [t \in 1 .. i - 1 |-> Top(rest[t + 1].qname)] = [t \in 1 .. i - 1 |-> Top(stack[t + 1].qname)]
      BY <3>2
    <3>4. rest[1].qname = stack[1].qname
      BY <1>2, <1>4
    <3> QED BY <3>3, <3>4 DEF IdAt
  <2>2. ASSUME NEW i \in 1 .. k
        PROVE  \E accessor : /\ rest[i].id = IdAt(rest, i, accessor)
                             /\ rest[i].sort # "Function" => accessor = "none"
    <3>1. PICK accessor : /\ stack[i].id = IdAt(stack, i, accessor)
                          /\ stack[i].sort # "Function" => accessor = "none"
      BY <1>2 DEF Walked, Identified
    <3> QED BY <1>2, <2>1, <3>1
  <2> QED BY <1>1, <2>2 DEF Identified
<1> QED
  BY <1>3, <1>5, <1>6 DEF Walked, Follows, Shortens

LEMMA LeaveOpen ==
  ASSUME NEW stack, NEW walk, NEW ns, Open(stack, walk, ns), Len(walk) = Len(stack),
         NEW rest, Follows(rest, stack), NEW back, Shortens(back, walk)
  PROVE  Open(rest, back, ns)
<1>1. ASSUME NEW i \in 2 .. Len(rest) PROVE \E n \in ns : IsAt(n, rest, back, i)
  <2>1. i \in 1 .. Len(rest) /\ i \in 2 .. Len(stack) /\ i \in 1 .. Len(back) /\ \A t \in 1 .. i - 1 : t \in 1 .. Len(back)
    BY DEF Follows, Shortens
  <2>2. PICK n \in ns : IsAt(n, stack, walk, i)
    BY <2>1 DEF Open
  <2>3. Around(back, i) = Around(walk, i)
    BY <2>1 DEF Around, Shortens
  <2>4. IsAt(n, rest, back, i)
    BY <2>1, <2>2, <2>3 DEF IsAt, Follows, Shortens
  <2> QED BY <2>4
<1> QED
  BY <1>1 DEF Open

(* What is left is told to be around it by its id.                         *)
LEMMA OwnerOnStack ==
  ASSUME NEW stack, NEW walk, Walked(stack, walk), NEW i \in 2 .. Len(stack),
         NEW ns, Apiece(ns), NEW n \in ns, IsAt(n, stack, walk, i),
         stack[i - 1].sort # "Function"
  PROVE  OwnerId(n) = stack[i - 1].id
<1>1. PICK j : j = i - 1
  OBVIOUS
<1>2. i \in 1 .. Len(stack) /\ j \in 1 .. Len(stack) /\ i \in Nat /\ j \in Nat
  BY <1>1, LengthOfSequence DEF Walked
<1>3. PICK accessor : stack[i].id = IdAt(stack, i, accessor)
  BY <1>2 DEF Walked, Identified
<1>4. stack[j].id = IdAt(stack, j, "none")
  BY <1>1, <1>2 DEF Walked, Identified
<1>5. PICK f : f = [t \in 1 .. i - 1 |-> Top(stack[t + 1].qname)]
  OBVIOUS
<1>6. PICK g : g = [t \in 1 .. j - 1 |-> Top(stack[t + 1].qname)]
  OBVIOUS
<1>7. stack[j].id = [module |-> stack[1].qname, names |-> g, accessor |-> "none"]
  BY <1>4, <1>6 DEF IdAt
<1>8. IdOf(n) = [module |-> stack[1].qname, names |-> f, accessor |-> accessor]
  BY <1>3, <1>5 DEF IdAt, IsAt
<1>9. ModuleName(n) = stack[1].qname /\ NamesIn(n) = f
  BY <1>8 DEF IdOf
<1>10. Sequence(f) /\ Len(f) = j
  <2>1. f = [t \in 1 .. j |-> f[t]]
    BY <1>1, <1>5
  <2> QED BY <1>2, <2>1, FunctionIsSequence
<1>11. Sequence(g) /\ Len(g) = j - 1
  <2>1. g = [t \in 1 .. j - 1 |-> g[t]] /\ j - 1 \in Nat
    BY <1>2, <1>6
  <2> QED BY <2>1, FunctionIsSequence
<1>12. Sequence(Parent(f)) /\ Len(Parent(f)) = j - 1 /\ \A t \in 1 .. j - 1 : Parent(f)[t] = f[t]
  <2>1. Len(f) # 0 /\ Len(f) - 1 = j - 1
    BY <1>2, <1>10
  <2>2. Parent(f) = SubSeq(f, 1, Len(f) - 1)
    BY DEF Parent
  <2>3. /\ Sequence(Parent(f)) /\ Len(Parent(f)) = Len(f) - 1
        /\ \A t \in 1 .. Len(f) - 1 : Parent(f)[t] = f[t]
    BY <1>10, <2>1, <2>2, FrontOfSequence
  <2> QED BY <2>1, <2>3
<1>13. \A t \in 1 .. j - 1 : f[t] = g[t]
  BY <1>1, <1>2, <1>5, <1>6
<1>14. Parent(f) = g
  BY <1>11, <1>12, <1>13, SameSequences
<1> QED
  BY <1>1, <1>7, <1>9, <1>14 DEF OwnerId
(* What is kept stays kept, if what is left is, and what it was around.    *)
StaysKept(n, a, b) ==
  IdOf(n) \in DOMAIN KeptOf(n, a) /\ KeptOf(n, a)[IdOf(n)].qname = n.qname =>
    IdOf(n) \in DOMAIN KeptOf(n, b) /\ KeptOf(n, b)[IdOf(n)].qname = n.qname
StaysOwned(n, a, b) ==
  OwnerId(n) \in DOMAIN OwnersOf(n, a) =>
    OwnerId(n) \in DOMAIN OwnersOf(n, b) /\ OwnersOf(n, b)[OwnerId(n)] = OwnersOf(n, a)[OwnerId(n)]
OwnerKept(n, d, b) ==
  IsOwner(n, d) /\ Len(n.around) <= 2 =>
    OwnerId(n) \in DOMAIN OwnersOf(n, b) /\ IdOf(n) \in ListOf(n, OwnersOf(n, b)[OwnerId(n)])

LEMMA LeaveAccounted ==
  ASSUME NEW stack, NEW walk, NEW ns, Apiece(ns), Open(stack, walk, ns), Len(walk) = Len(stack),
         NEW rest, Follows(rest, stack),
         NEW a, NEW b, Accounted(stack, a, ns),
         \A n \in ns : StaysKept(n, a, b) /\ StaysOwned(n, a, b) /\ OwnerKept(n, stack[Len(stack)], b),
         \A n \in ns : Len(stack) # 1 /\ IsPlain(n) /\ IsAt(n, stack, walk, Len(stack)) => IsKept(n, rest, b)
  PROVE  Accounted(rest, b, ns)
<1> SUFFICES ASSUME NEW n \in ns, IsPlain(n) PROVE IsOpen(n, rest) \/ IsKept(n, rest, b)
  BY DEF Accounted
<1>1. \A i \in 2 .. Len(stack) : i \in 1 .. Len(stack) /\ (i = Len(stack) \/ i \in 2 .. Len(rest)) /\ Len(stack) # 1
  BY DEF Follows
<1>2. \A i \in 2 .. Len(rest) : i \in 1 .. Len(rest)
  BY DEF Follows
<1>3. CASE IsOpen(n, stack)
  <2>1. PICK i \in 2 .. Len(stack) : stack[i].id = IdOf(n)
    BY <1>3 DEF IsOpen
  <2>2. CASE i = Len(stack)
    <3>1. PICK m \in ns : IsAt(m, stack, walk, i)
      BY DEF Open
    <3>2. m = n
      BY <2>1, <3>1, SameIds DEF IsAt
    <3> QED BY <1>1, <2>2, <3>1, <3>2
  <2>3. CASE i \in 2 .. Len(rest)
    <3>1. rest[i].id = stack[i].id
      BY <1>2, <2>3 DEF Follows
    <3> QED BY <2>1, <2>3, <3>1 DEF IsOpen
  <2> QED BY <1>1, <2>2, <2>3
<1>4. CASE IsKept(n, stack, a)
  <2>1. IdOf(n) \in DOMAIN KeptOf(n, b) /\ KeptOf(n, b)[IdOf(n)].qname = n.qname
    BY <1>4 DEF StaysKept, IsKept
  <2>2. ASSUME Len(n.around) <= 2 PROVE IsOwned(n, rest, b)
    <3>1. CASE OwnerId(n) \in DOMAIN OwnersOf(n, a) /\ IdOf(n) \in ListOf(n, OwnersOf(n, a)[OwnerId(n)])
      BY <3>1 DEF StaysOwned, IsOwned
    <3>2. CASE \E i \in 1 .. Len(stack) : IsOwner(n, stack[i])
      <4>1. PICK i \in 1 .. Len(stack) : IsOwner(n, stack[i])
        BY <3>2
      <4>2. CASE i = Len(stack)
        BY <2>2, <4>1, <4>2 DEF OwnerKept, IsOwned
      <4>3. CASE i \in 1 .. Len(rest)
        <5>1. IsOwner(n, rest[i])
          BY <4>1, <4>3 DEF IsOwner, ListOf, Follows
        <5> QED BY <4>3, <5>1 DEF IsOwned
      <4>4. i = Len(stack) \/ i \in 1 .. Len(rest)
        BY DEF Follows
      <4> QED BY <4>2, <4>3, <4>4
    <3>3. IsOwned(n, stack, a)
      BY <1>4, <2>2 DEF IsKept
    <3> QED BY <3>1, <3>2, <3>3 DEF IsOwned
  <2> QED BY <2>1, <2>2 DEF IsKept
<1> QED
  BY <1>3, <1>4 DEF Accounted

HasPut(g, f, k, v) ==
  /\ DOMAIN g = DOMAIN f \cup {k} /\ g[k] = v
  /\ \A x \in DOMAIN f : x # k => g[x] = f[x]

LEMMA WithFacts ==
  ASSUME NEW f, NEW k, NEW v
  PROVE  HasPut(With(f, k, v), f, k, v)
BY DEF With, HasPut

(* A new entry in one of the dictionaries of the API.                      *)
Puts(b, a, field, k, v) ==
  /\ {"modules", "classes", "functions"} \subseteq DOMAIN b
  /\ b.modules = IF field = "modules" THEN With(a.modules, k, v) ELSE a.modules
  /\ b.classes = IF field = "classes" THEN With(a.classes, k, v) ELSE a.classes
  /\ b.functions = IF field = "functions" THEN With(a.functions, k, v) ELSE a.functions

LEMMA PutInApi ==
  ASSUME NEW a, {"modules", "classes", "functions"} \subseteq DOMAIN a, NEW k, NEW v
  PROVE  /\ Puts([a EXCEPT !.modules = With(@, k, v)], a, "modules", k, v)
         /\ Puts([a EXCEPT !.classes = With(@, k, v)], a, "classes", k, v)
         /\ Puts([a EXCEPT !.functions = With(@, k, v)], a, "functions", k, v)
<1>1. PICK m : m = With(a.modules, k, v)
  OBVIOUS
<1>2. PICK c : c = With(a.classes, k, v)
  OBVIOUS
<1>3. PICK f : f = With(a.functions, k, v)
  OBVIOUS
<1>4. Puts([a EXCEPT !.modules = m], a, "modules", k, v)
  BY <1>1 DEF Puts
<1>5. Puts([a EXCEPT !.classes = c], a, "classes", k, v)
  BY <1>2 DEF Puts
<1>6. Puts([a EXCEPT !.functions = f], a, "functions", k, v)
  BY <1>3 DEF Puts
<1> QED
  BY <1>1, <1>2, <1>3, <1>4, <1>5, <1>6

(* What the declaration around it is told.                                 *)
Tells(rest, stack, cs, fns) ==
  \A i \in 1 .. Len(rest) :
    /\ rest[i].classes = IF i = Len(rest) THEN stack[i].classes \cup cs ELSE stack[i].classes
    /\ rest[i].functions = IF i = Len(rest) THEN stack[i].functions \cup fns ELSE stack[i].functions

LEMMA LeaveListed ==
  ASSUME NEW stack, NEW rest, Follows(rest, stack), NEW cs, NEW fns, Tells(rest, stack, cs, fns),
         NEW a, NEW b, Listed(stack, a),
         DOMAIN a.classes \cup cs \subseteq DOMAIN b.classes,
         DOMAIN a.functions \cup fns \subseteq DOMAIN b.functions,
         \A id \in DOMAIN b.modules : \/ id \in DOMAIN a.modules /\ b.modules[id] = a.modules[id]
                                     \/ ListsOf(b.modules[id], b),
         \A id \in DOMAIN b.classes : \/ id \in DOMAIN a.classes /\ b.classes[id] = a.classes[id]
                                     \/ ListsOf(b.classes[id], b)
  PROVE  Listed(rest, b)
<1>1. \A d : ListsOf(d, a) => ListsOf(d, b)
  BY DEF ListsOf
<1>2. \A i \in 1 .. Len(rest) : ListsOf(rest[i], b)
  BY DEF Listed, ListsOf, Tells, Follows
<1>3. \A id \in DOMAIN b.modules : ListsOf(b.modules[id], b)
  BY <1>1 DEF Listed
<1>4. \A id \in DOMAIN b.classes : ListsOf(b.classes[id], b)
  BY <1>1 DEF Listed
<1> QED
  BY <1>2, <1>3, <1>4 DEF Listed

(* Taking a declaration from the stack, and telling the one below it.      *)
LEMMA TakenFromStack ==
  ASSUME NEW stack, Sequence(stack), Described(stack), Len(stack) # 0
  PROVE  Follows(Below(stack), stack) /\ Tells(Below(stack), stack, {}, {})
<1>1. PICK rest : rest = Below(stack)
  OBVIOUS
<1>2. Shortens(rest, stack)
  BY <1>1, FrontShortens DEF Below
<1>3. Described(rest)
  BY <1>2 DEF Described, Shortens
<1>4. Follows(rest, stack)
  BY <1>2, <1>3 DEF Follows, Shortens
<1>5. Tells(rest, stack, {}, {})
  BY <1>2 DEF Tells, Shortens
<1> QED
  BY <1>1, <1>4, <1>5

LEMMA ToldOnStack ==
  ASSUME NEW stack, NEW rest, Follows(rest, stack), Tells(rest, stack, {}, {}), Len(rest) # 0, NEW id
  PROVE  /\ Follows(AddTo(rest, "classes", id), stack) /\ Tells(AddTo(rest, "classes", id), stack, {id}, {})
         /\ Follows(AddTo(rest, "functions", id), stack) /\ Tells(AddTo(rest, "functions", id), stack, {}, {id})
<1>1. PICK k : k = Len(rest)
  OBVIOUS
<1>2. PICK d : d = rest[k]
  OBVIOUS
<1>3. k \in Nat /\ k \in 1 .. k /\ DOMAIN rest = 1 .. k
  BY <1>1, LengthOfSequence DEF Follows
<1>4. Fields \subseteq DOMAIN d
  BY <1>1, <1>2, <1>3 DEF Follows, Described
<1>5. ASSUME NEW told, NEW top, told = [rest EXCEPT ![k] = top], Fields \subseteq DOMAIN top,
             NEW cs, NEW fns,
             top.qname = d.qname, top.sort = d.sort, top.id = d.id,
             top.is_public = d.is_public, top.sharesList = d.sharesList,
             top.classes = d.classes \cup cs, top.functions = d.functions \cup fns
      PROVE  Follows(told, stack) /\ Tells(told, stack, cs, fns)
  <2>1. DOMAIN told = 1 .. k /\ told = [i \in 1 .. k |-> told[i]]
    BY <1>3, <1>5
  <2>2. Sequence(told) /\ Len(told) = k
    BY <1>3, <2>1, FunctionIsSequence
  <2>3. \A i \in 1 .. k : told[i] = IF i = k THEN top ELSE rest[i]
    BY <1>3, <1>5
  <2>4. Described(told)
    BY <1>1, <1>5, <2>2, <2>3 DEF Described, Follows
  <2>5. Follows(told, stack)
    BY <1>1, <1>2, <1>5, <2>2, <2>3, <2>4 DEF Follows
  <2>6. \A i \in 1 .. k : rest[i].classes = stack[i].classes /\ rest[i].functions = stack[i].functions
    BY <1>1 DEF Tells
  <2>7. Tells(told, stack, cs, fns)
    BY <1>2, <1>3, <1>5, <2>2, <2>3, <2>6 DEF Tells
  <2> QED BY <2>5, <2>7
<1>6. PICK ids : ids = d.classes \cup {id}
  OBVIOUS
<1>7. PICK top : top = [d EXCEPT !.classes = ids]
  OBVIOUS
<1>8. PICK fids : fids = d.functions \cup {id}
  OBVIOUS
<1>9. PICK ftop : ftop = [d EXCEPT !.functions = fids]
  OBVIOUS
<1>10. /\ Fields \subseteq DOMAIN top
       /\ top.qname = d.qname /\ top.sort = d.sort /\ top.id = d.id
       /\ top.is_public = d.is_public /\ top.sharesList = d.sharesList
       /\ top.classes = d.classes \cup {id} /\ top.functions = d.functions \cup {}
  BY <1>4, <1>6, <1>7 DEF Fields
<1>11. /\ Fields \subseteq DOMAIN ftop
       /\ ftop.qname = d.qname /\ ftop.sort = d.sort /\ ftop.id = d.id
       /\ ftop.is_public = d.is_public /\ ftop.sharesList = d.sharesList
       /\ ftop.classes = d.classes \cup {} /\ ftop.functions = d.functions \cup {id}
  BY <1>4, <1>8, <1>9 DEF Fields
<1>12. AddTo(rest, "classes", id) = [rest EXCEPT ![k] = top]
  BY <1>1, <1>2, <1>3, <1>6, <1>7 DEF AddTo
<1>13. AddTo(rest, "functions", id) = [rest EXCEPT ![k] = ftop]
  BY <1>1, <1>2, <1>3, <1>8, <1>9 DEF AddTo
<1> QED
  BY <1>5, <1>10, <1>11, <1>12, <1>13
(* The handlers of what is left.                                           *)
LEMMA LeavesTop ==
  ASSUME NEW stack, NEW walk, Walked(stack, walk), walk # <<>>, Top(walk).kind # "async"
  PROVE  /\ Len(stack) = Len(walk) /\ Len(stack) # 0 /\ Len(stack) \in Nat
         /\ Len(stack) \in 1 .. Len(stack)
         /\ Top(walk).kind = walk[Len(stack)].kind
         /\ Top(walk).kind \in KindsAt(Len(stack))
         /\ stack[Len(stack)].sort = SortOf(Top(walk).kind)
<1>1. Len(walk) \in Nat /\ Len(stack) \in Nat
  BY LengthOfSequence DEF Walked
<1>2. Len(walk) # 0
  BY LengthOfSequence, EmptySeq DEF Walked, Sequence
<1>3. Len(stack) = Len(walk)
  BY DEF Walked, Aligned, Top
<1>4. Len(stack) \in 1 .. Len(stack)
  BY <1>1, <1>2, <1>3
<1> QED
  BY <1>1, <1>2, <1>3, <1>4 DEF Walked, Aligned, Top

(* Where a node is, and how long its id is.                                *)
LEMMA DepthOfNode ==
  ASSUME NEW stack, NEW walk, Walked(stack, walk), NEW i \in 1 .. Len(stack), NEW n,
         IsAt(n, stack, walk, i)
  PROVE  i \in Nat /\ Len(n.around) = i - 1 /\ Sequence(n.around) /\ n.around = Around(walk, i)
<1>1. i \in Nat /\ i - 1 \in Nat
  BY LengthOfSequence DEF Walked
<1>2. PICK s : s = n.around
  OBVIOUS
<1>3. s = [t \in 1 .. i - 1 |-> s[t]] /\ s = Around(walk, i)
  BY <1>2 DEF IsAt, Around
<1>4. Sequence(s) /\ Len(s) = i - 1
  BY <1>1, <1>3, FunctionIsSequence
<1> QED
  BY <1>1, <1>2, <1>3, <1>4

LEMMA LengthsOfIds ==
  ASSUME NEW ns, Apiece(ns), NEW n \in ns
  PROVE  /\ Len(n.around) \in Nat /\ Len(n.around) # 0
         /\ Len(IdOf(n).names) = Len(n.around) /\ Len(OwnerId(n).names) = Len(n.around) - 1
<1>1. HasParts(n, Len(n.around), Len(n.qname))
  BY PartsOfId DEF Apiece
<1>2. IdOf(n).names = NamesIn(n) /\ OwnerId(n).names = Parent(NamesIn(n))
  BY DEF IdOf, OwnerId
<1>3. Len(n.around) \in Nat /\ Len(n.around) # 0
  BY <1>1 DEF HasParts
<1> QED
  BY <1>1, <1>2, <1>3 DEF HasParts

(* What all handlers keep that take a declaration from the stack.          *)
LEMMA LeaveShape ==
  ASSUME Complete, path # <<>>, Top(path).kind # "async", LeaveNode, UNCHANGED <<files, nodes>>,
         Follows(declaration_stack', declaration_stack)
  PROVE  /\ Walked(declaration_stack', path') /\ Apiece(nodes') /\ Open(declaration_stack', path', nodes')
         /\ Len(declaration_stack) = Len(path) /\ Shortens(path', path)
<1>1. Len(declaration_stack) = Len(path) /\ Len(path) # 0
  BY LeavesTop DEF Complete
<1>2. Shortens(path', path)
  BY <1>1, FrontShortens DEF Complete, Walked, LeaveNode
<1>3. Walked(declaration_stack', path')
  BY <1>1, <1>2, LeaveWalked DEF Complete
<1>4. Open(declaration_stack', path', nodes)
  BY <1>1, <1>2, LeaveOpen DEF Complete
<1> QED
  BY <1>1, <1>2, <1>3, <1>4 DEF Complete

LEMMA LeaveModuleKeeps ==
  ASSUME Complete, LeaveModule
  PROVE  Complete'
<1>1. PICK stack : stack = declaration_stack
  OBVIOUS
<1>2. PICK m : m = Top(stack)
  OBVIOUS
<1>3. PICK a : a = api
  OBVIOUS
<1>4. PICK b : b = [a EXCEPT !.modules = With(@, m.id, Entry(m))]
  OBVIOUS
<1>5. PICK rest : rest = Below(stack)
  OBVIOUS
<1>6. /\ path # <<>> /\ Top(path).kind = "module" /\ LeaveNode /\ UNCHANGED <<files, nodes>>
      /\ declaration_stack' = rest /\ api' = b
  BY <1>1, <1>2, <1>3, <1>4, <1>5 DEF LeaveModule, Leaves
<1>7. /\ Walked(stack, path) /\ Apiece(nodes) /\ Open(stack, path, nodes)
      /\ NotYet(stack, a, nodes) /\ Left(files, stack, a)
      /\ Listed(stack, a) /\ Accounted(stack, a, nodes)
      /\ {"modules", "classes", "functions"} \subseteq DOMAIN a
  BY <1>1, <1>3 DEF Complete
<1>8. Len(stack) # 0 /\ Len(stack) \in Nat /\ "module" \in KindsAt(Len(stack)) /\ Len(stack) = Len(path)
  BY <1>6, <1>7, LeavesTop
<1>9. Len(stack) = 1 /\ m = stack[1]
  BY <1>2, <1>8 DEF KindsAt, Top
<1>10. Follows(rest, stack) /\ Tells(rest, stack, {}, {})
  BY <1>5, <1>7, <1>8, TakenFromStack DEF Walked
<1>11. Len(rest) = 0
  BY <1>9, <1>10 DEF Follows
<1>12. /\ Walked(rest, path') /\ Apiece(nodes') /\ Open(rest, path', nodes')
  BY <1>1, <1>6, <1>10, LeaveShape
<1>13. /\ {"modules", "classes", "functions"} \subseteq DOMAIN b
       /\ b.modules = With(a.modules, m.id, Entry(m)) /\ b.classes = a.classes /\ b.functions = a.functions
  BY <1>4, <1>7, PutInApi DEF Puts
<1>14. HasPut(b.modules, a.modules, m.id, Entry(m))
  BY <1>13, WithFacts
<1>15. m.id.module = stack[1].qname
  BY <1>7, <1>9, IdsOnStack
<1>16. m.id \notin DOMAIN a.modules
  BY <1>7, <1>8, <1>15 DEF NotYet
<1>17. NotYet(rest, b, nodes)
  BY <1>7, <1>11, <1>13 DEF NotYet
<1>18. Left(files, rest, b)
  BY <1>7, <1>8, <1>11, <1>14, <1>15 DEF Left, HasPut
<1>19. Entry(m).classes = m.classes /\ Entry(m).functions = m.functions
  BY DEF Entry
<1>20. Listed(rest, b)
  <2>1. ListsOf(Entry(m), b)
    BY <1>7, <1>9, <1>13, <1>19 DEF Listed, ListsOf
  <2>2. \A id \in DOMAIN b.modules : \/ id \in DOMAIN a.modules /\ b.modules[id] = a.modules[id]
                                     \/ ListsOf(b.modules[id], b)
    BY <1>14, <2>1 DEF HasPut
  <2>3. /\ DOMAIN a.classes \cup {} \subseteq DOMAIN b.classes /\ DOMAIN a.functions \cup {} \subseteq DOMAIN b.functions
        /\ \A id \in DOMAIN b.classes : \/ id \in DOMAIN a.classes /\ b.classes[id] = a.classes[id]
                                        \/ ListsOf(b.classes[id], b)
    BY <1>13
  <2> QED BY <1>7, <1>10, <2>2, <2>3, LeaveListed
<1>21. Accounted(rest, b, nodes)
  <2>1. ASSUME NEW n \in nodes
        PROVE  StaysKept(n, a, b) /\ StaysOwned(n, a, b) /\ OwnerKept(n, stack[Len(stack)], b)
    <3>1. StaysKept(n, a, b)
      BY <1>13 DEF StaysKept, KeptOf
    <3>2. StaysOwned(n, a, b)
      BY <1>13, <1>14, <1>16 DEF StaysOwned, OwnersOf, HasPut
    <3>3. OwnerKept(n, m, b)
      <4> SUFFICES ASSUME IsOwner(n, m)
                   PROVE  OwnerId(n) \in DOMAIN OwnersOf(n, b) /\ IdOf(n) \in ListOf(n, OwnersOf(n, b)[OwnerId(n)])
        BY DEF OwnerKept
      <4>1. m.sort = "Module"
        BY <1>6, <1>7, <1>9, LeavesTop DEF SortOf
      <4>2. OwnersOf(n, b) = b.modules /\ OwnerId(n) = m.id /\ IdOf(n) \in ListOf(n, m)
        BY <4>1 DEF IsOwner, OwnerSort, OwnersOf
      <4> QED BY <1>14, <1>19, <4>2 DEF ListOf, HasPut
    <3> QED BY <1>9, <3>1, <3>2, <3>3
  <2>2. \A n \in nodes : Len(stack) # 1 /\ IsPlain(n) /\ IsAt(n, stack, path, Len(stack)) => IsKept(n, rest, b)
    BY <1>9
  <2> QED BY <1>7, <1>8, <1>10, <2>1, <2>2, LeaveAccounted
<1> QED
  BY <1>6, <1>12, <1>13, <1>17, <1>18, <1>20, <1>21 DEF Complete
(* What is left is not the module.                                         *)
LEMMA LeavesMember ==
  ASSUME NEW stack, NEW walk, Walked(stack, walk), walk # <<>>, NEW kind \in {"class", "function"}, Top(walk).kind = kind
  PROVE  /\ Len(stack) = Len(walk) /\ Len(stack) \in Nat /\ Len(stack) \in 2 .. Len(stack)
         /\ Len(stack) \in 1 .. Len(stack) /\ Len(stack) - 1 \in 1 .. Len(stack) /\ Len(stack) - 1 \in Nat
         /\ stack[Len(stack)].sort = SortOf(kind) /\ walk[Len(stack)].kind = kind
<1>1. /\ Len(stack) = Len(walk) /\ Len(stack) # 0 /\ Len(stack) \in Nat
      /\ kind = walk[Len(stack)].kind
      /\ kind \in KindsAt(Len(stack)) /\ stack[Len(stack)].sort = SortOf(kind)
  BY LeavesTop
<1>2. Len(stack) # 1
  BY <1>1 DEF KindsAt
<1> QED
  BY <1>1, <1>2

LEMMA SortsOnStack ==
  ASSUME NEW stack, NEW walk, Walked(stack, walk), NEW i \in 1 .. Len(stack)
  PROVE  /\ stack[i].sort = SortOf(walk[i].kind) /\ walk[i].kind \in KindsAt(i)
         /\ stack[i].sort = "Module" <=> i = 1
         /\ stack[i].sort = "Class" <=> walk[i].kind = "class"
<1>1. stack[i].sort = SortOf(walk[i].kind) /\ walk[i].kind \in KindsAt(i)
  BY DEF Walked, Aligned
<1> QED
  BY <1>1 DEF KindsAt, SortOf

LEMMA LeaveClassKeeps ==
  ASSUME Complete, LeaveClassDef
  PROVE  Complete'
<1>1. PICK stack : stack = declaration_stack
  OBVIOUS
<1>2. PICK c : c = Top(stack)
  OBVIOUS
<1>3. PICK a : a = api
  OBVIOUS
<1>4. PICK b : b = api'
  OBVIOUS
<1>5. PICK below : below = Below(stack)
  OBVIOUS
<1>6. PICK rest : rest = declaration_stack'
  OBVIOUS
<1>7. PICK l : l = Len(stack)
  OBVIOUS
<1>8. /\ path # <<>> /\ Top(path).kind = "class" /\ LeaveNode /\ UNCHANGED <<files, nodes>>
      /\ IF below # <<>> /\ Top(below).sort = "Module"
         THEN b = [a EXCEPT !.classes = With(@, c.id, Entry(c))] /\ rest = AddTo(below, "classes", c.id)
         ELSE b = a /\ rest = below
  BY <1>1, <1>2, <1>3, <1>4, <1>5, <1>6 DEF LeaveClassDef, Leaves
<1>9. /\ Walked(stack, path) /\ Apiece(nodes) /\ Open(stack, path, nodes)
      /\ NotYet(stack, a, nodes) /\ Left(files, stack, a)
      /\ Listed(stack, a) /\ Accounted(stack, a, nodes)
      /\ {"modules", "classes", "functions"} \subseteq DOMAIN a
  BY <1>1, <1>3 DEF Complete
<1>10. /\ l = Len(path) /\ l \in Nat /\ l \in 2 .. l /\ l \in 1 .. l /\ l - 1 \in 1 .. l /\ l - 1 \in Nat
       /\ c = stack[l] /\ c.sort = "Class" /\ path[l].kind = "class"
  <2>1. SortOf("class") = "Class"
    BY DEF SortOf
  <2> QED BY <1>2, <1>7, <1>8, <1>9, <2>1, LeavesMember DEF Top
<1>11. Follows(below, stack) /\ Tells(below, stack, {}, {})
  <2>1. Len(stack) # 0
    BY <1>7, <1>10
  <2> QED BY <1>5, <1>9, <2>1, TakenFromStack DEF Walked
<1>12. Len(below) = l - 1 /\ Len(below) # 0 /\ below # <<>> /\ Top(below).sort = stack[l - 1].sort
  <2>1. Len(below) = l - 1 /\ Len(below) # 0
    BY <1>7, <1>10, <1>11 DEF Follows
  <2>2. l - 1 \in 1 .. Len(below)
    BY <1>10, <2>1
  <2> QED BY <1>11, <2>1, <2>2 DEF Follows, Top
<1>13. stack[l - 1].sort = "Module" <=> l - 1 = 1
  BY <1>7, <1>9, <1>10, SortsOnStack
<1>14. PICK m \in nodes : IsAt(m, stack, path, l)
  BY <1>7, <1>9, <1>10 DEF Open
<1>15. \A n \in nodes : /\ Len(n.around) \in Nat /\ Len(n.around) # 0
                        /\ Len(IdOf(n).names) = Len(n.around) /\ Len(OwnerId(n).names) = Len(n.around) - 1
  BY <1>9, LengthsOfIds
<1>16. ASSUME NEW n, IsAt(n, stack, path, l) PROVE Len(n.around) = l - 1 /\ n.around = Around(path, l)
  <2>1. l \in 1 .. Len(stack)
    BY <1>7, <1>10
  <2> QED BY <1>9, <1>16, <2>1, DepthOfNode
<1>17. c.id = IdOf(m) /\ Len(c.id.names) = l - 1
  BY <1>10, <1>14, <1>15, <1>16 DEF IsAt
<1>18. CASE l = 2
  <2>1. b = [a EXCEPT !.classes = With(@, c.id, Entry(c))] /\ rest = AddTo(below, "classes", c.id)
    BY <1>8, <1>12, <1>13, <1>18
  <2>2. Follows(rest, stack) /\ Tells(rest, stack, {c.id}, {})
    BY <1>11, <1>12, <2>1, ToldOnStack
  <2>3. Walked(rest, path') /\ Open(rest, path', nodes)
    BY <1>1, <1>6, <1>8, <2>2, LeaveShape
  <2>4. /\ {"modules", "classes", "functions"} \subseteq DOMAIN b
        /\ b.classes = With(a.classes, c.id, Entry(c)) /\ b.modules = a.modules /\ b.functions = a.functions
    BY <1>9, <2>1, PutInApi DEF Puts
  <2>5. HasPut(b.classes, a.classes, c.id, Entry(c))
    BY <2>4, WithFacts
  <2>6. c.id \notin DOMAIN a.classes
    BY <1>7, <1>9, <1>10 DEF NotYet
  <2>7. Len(rest) = 1 /\ 1 \in 1 .. Len(rest) /\ rest[1].qname = stack[1].qname
    <3>1. Len(rest) = 1
      <4>1. Len(stack) = 2 /\ Len(rest) = Len(stack) - 1
        BY <1>7, <1>18, <2>2 DEF Follows
      <4> QED BY <4>1
    <3>2. 1 \in 1 .. Len(rest)
      BY <3>1
    <3> QED BY <2>2, <3>1, <3>2 DEF Follows
  <2>8. NotYet(rest, b, nodes)
    <3>1. \A id \in DOMAIN b.classes : (\E n \in nodes : id = IdOf(n)) /\ Len(id.names) = 1
      BY <1>9, <1>14, <1>17, <1>18, <2>5 DEF NotYet, HasPut
    <3> QED BY <1>7, <1>9, <1>18, <2>4, <2>7, <3>1 DEF NotYet
  <2>9. Left(files, rest, b)
    BY <1>7, <1>9, <1>18, <2>4, <2>7 DEF Left
  <2>10. Entry(c).classes = c.classes /\ Entry(c).functions = c.functions /\ Entry(c).qname = c.qname
    BY DEF Entry
  <2>11. Listed(rest, b)
    <3>1. DOMAIN a.classes \cup {c.id} \subseteq DOMAIN b.classes /\ DOMAIN a.functions \cup {} \subseteq DOMAIN b.functions
      BY <2>4, <2>5 DEF HasPut
    <3>2. ListsOf(Entry(c), b)
      BY <1>7, <1>9, <1>10, <2>10, <3>1 DEF Listed, ListsOf
    <3>3. \A id \in DOMAIN b.classes : \/ id \in DOMAIN a.classes /\ b.classes[id] = a.classes[id]
                                       \/ ListsOf(b.classes[id], b)
      BY <2>5, <3>2 DEF HasPut
    <3>4. \A id \in DOMAIN b.modules : \/ id \in DOMAIN a.modules /\ b.modules[id] = a.modules[id]
                                       \/ ListsOf(b.modules[id], b)
      BY <2>4
    <3> QED BY <1>9, <2>2, <3>1, <3>3, <3>4, LeaveListed
  <2>12. Accounted(rest, b, nodes)
    <3>1. ASSUME NEW n \in nodes
          PROVE  StaysKept(n, a, b) /\ StaysOwned(n, a, b) /\ OwnerKept(n, c, b)
      <4>1. StaysKept(n, a, b)
        BY <2>4, <2>5, <2>6 DEF StaysKept, KeptOf, HasPut
      <4>2. StaysOwned(n, a, b)
        BY <2>4, <2>5, <2>6 DEF StaysOwned, OwnersOf, HasPut
      <4>3. OwnerKept(n, c, b)
        <5> SUFFICES ASSUME IsOwner(n, c)
                     PROVE  OwnerId(n) \in DOMAIN OwnersOf(n, b) /\ IdOf(n) \in ListOf(n, OwnersOf(n, b)[OwnerId(n)])
          BY DEF OwnerKept
        <5>1. OwnersOf(n, b) = b.classes /\ OwnerId(n) = c.id /\ IdOf(n) \in ListOf(n, c)
          BY <1>10 DEF IsOwner, OwnerSort, OwnersOf
        <5> QED BY <2>5, <2>10, <5>1 DEF ListOf, HasPut
      <4> QED BY <4>1, <4>2, <4>3
    <3>2. ASSUME NEW n \in nodes, IsAt(n, stack, path, l) PROVE IsKept(n, rest, b)
      <4>1. n.kind = "class" /\ IdOf(n) = c.id /\ n.qname = c.qname /\ Len(n.around) = 1
        BY <1>10, <1>16, <1>18, <3>2 DEF IsAt
      <4>2. IdOf(n) \in DOMAIN KeptOf(n, b) /\ KeptOf(n, b)[IdOf(n)].qname = n.qname
        BY <2>5, <2>10, <4>1 DEF KeptOf, HasPut
      <4>3. stack[1].sort = "Module" /\ OwnerId(n) = stack[1].id
        <5>1. stack[l - 1].sort = "Module" /\ l - 1 = 1 /\ l \in 2 .. Len(stack)
          BY <1>7, <1>10, <1>13, <1>18
        <5> QED BY <1>9, <3>2, <5>1, OwnerOnStack
      <4>4. IsOwner(n, rest[1])
        <5>1. rest[1].id = stack[1].id /\ rest[1].sort = "Module"
          BY <2>2, <2>7, <4>3 DEF Follows
        <5>2. IdOf(n) \in rest[1].classes
          BY <2>2, <2>7, <4>1 DEF Tells
        <5> QED BY <4>1, <4>3, <5>1, <5>2 DEF IsOwner, OwnerSort, ListOf
      <4>5. IsOwned(n, rest, b)
        BY <2>7, <4>4 DEF IsOwned
      <4> QED BY <4>2, <4>5 DEF IsKept
    <3> QED BY <1>7, <1>9, <1>10, <2>2, <3>1, <3>2, LeaveAccounted
  <2> QED BY <1>4, <1>6, <1>8, <1>9, <2>3, <2>4, <2>8, <2>9, <2>11, <2>12 DEF Complete
<1>19. CASE l # 2
  <2>1. b = a /\ rest = below
    BY <1>8, <1>10, <1>12, <1>13, <1>19
  <2>2. Follows(rest, stack) /\ Tells(rest, stack, {}, {})
    BY <1>11, <2>1
  <2>3. Walked(rest, path') /\ Open(rest, path', nodes)
    BY <1>1, <1>6, <1>8, <2>2, LeaveShape
  <2>4. /\ \A i \in 2 .. Len(rest) : i \in 2 .. Len(stack) /\ rest[i].id = stack[i].id
        /\ Len(stack) # 0 /\ rest[1].qname = stack[1].qname
    <3>1. \A i \in 2 .. Len(rest) : i \in 2 .. Len(stack) /\ i \in 1 .. Len(rest)
      BY <2>2 DEF Follows
    <3>2. 1 \in 1 .. Len(rest) /\ Len(stack) # 0
      BY <1>7, <1>10, <1>12, <2>1
    <3> QED BY <2>2, <3>1, <3>2 DEF Follows
  <2>5. NotYet(rest, b, nodes) /\ Left(files, rest, b)
    BY <1>9, <2>1, <2>4 DEF NotYet, Left
  <2>6. Listed(rest, b)
    <3>1. DOMAIN a.classes \cup {} \subseteq DOMAIN b.classes /\ DOMAIN a.functions \cup {} \subseteq DOMAIN b.functions
      BY <2>1
    <3> QED BY <1>9, <2>1, <2>2, <3>1, LeaveListed
  <2>7. Accounted(rest, b, nodes)
    <3>1. ASSUME NEW n \in nodes
          PROVE  StaysKept(n, a, b) /\ StaysOwned(n, a, b) /\ OwnerKept(n, c, b)
      <4>1. StaysKept(n, a, b) /\ StaysOwned(n, a, b)
        BY <2>1 DEF StaysKept, StaysOwned
      <4>2. OwnerKept(n, c, b)
        <5> SUFFICES ASSUME IsOwner(n, c), Len(n.around) <= 2 PROVE FALSE
          BY DEF OwnerKept
        <5>1. Len(n.around) - 1 = l - 1
          BY <1>15, <1>17 DEF IsOwner
        <5> QED BY <1>10, <1>15, <1>19, <5>1
      <4> QED BY <4>1, <4>2
    <3>2. ASSUME NEW n \in nodes, IsPlain(n), IsAt(n, stack, path, l) PROVE FALSE
      <4>1. n.kind = "class"
        BY <1>10, <3>2 DEF IsAt
      <4>2. n.around = <<"module">>
        BY <3>2, <4>1 DEF IsPlain
      <4>3. Len(n.around) = 1
        BY <4>2
      <4>4. Len(n.around) = l - 1
        BY <1>16, <3>2
      <4>5. l \in Nat /\ l - 1 = 1
        BY <1>10, <4>3, <4>4
      <4> QED BY <1>19, <4>5
    <3> QED BY <1>7, <1>9, <1>10, <2>2, <3>1, <3>2, LeaveAccounted
  <2> QED BY <1>4, <1>6, <1>8, <1>9, <2>1, <2>3, <2>5, <2>6, <2>7 DEF Complete
<1> QED
  BY <1>18, <1>19
LEMMA LeaveFunctionKeeps ==
  ASSUME Complete, LeaveFunctionDef
  PROVE  Complete'
<1>1. PICK stack : stack = declaration_stack
  OBVIOUS
<1>2. PICK f : f = Top(stack)
  OBVIOUS
<1>3. PICK a : a = api
  OBVIOUS
<1>4. PICK b : b = api'
  OBVIOUS
<1>5. PICK below : below = Below(stack)
  OBVIOUS
<1>6. PICK rest : rest = declaration_stack'
  OBVIOUS
<1>7. PICK l : l = Len(stack)
  OBVIOUS
<1>8. /\ path # <<>> /\ Top(path).kind = "function" /\ LeaveNode /\ UNCHANGED <<files, nodes>>
      /\ IF below # <<>> /\ KeepsFunctions(Top(below))
         THEN b = [a EXCEPT !.functions = With(@, f.id, Entry(f))] /\ rest = AddTo(below, "functions", f.id)
         ELSE b = a /\ rest = below
  BY <1>1, <1>2, <1>3, <1>4, <1>5, <1>6 DEF LeaveFunctionDef, Leaves
<1>9. /\ Walked(stack, path) /\ Apiece(nodes) /\ Open(stack, path, nodes)
      /\ NotYet(stack, a, nodes) /\ Left(files, stack, a)
      /\ Listed(stack, a) /\ Accounted(stack, a, nodes)
      /\ {"modules", "classes", "functions"} \subseteq DOMAIN a
  BY <1>1, <1>3 DEF Complete
<1>10. /\ l = Len(path) /\ l \in Nat /\ l \in 2 .. l /\ l \in 1 .. l /\ l - 1 \in 1 .. l /\ l - 1 \in Nat
       /\ f = stack[l] /\ f.sort = "Function" /\ path[l].kind = "function"
  <2>1. SortOf("function") = "Function"
    BY DEF SortOf
  <2> QED BY <1>2, <1>7, <1>8, <1>9, <2>1, LeavesMember DEF Top
<1>11. Follows(below, stack) /\ Tells(below, stack, {}, {})
  <2>1. Len(stack) # 0
    BY <1>7, <1>10
  <2> QED BY <1>5, <1>9, <2>1, TakenFromStack DEF Walked
<1>12. Len(below) = l - 1 /\ Len(below) # 0 /\ below # <<>> /\ Top(below).sort = stack[l - 1].sort
  <2>1. Len(below) = l - 1 /\ Len(below) # 0
    BY <1>7, <1>10, <1>11 DEF Follows
  <2>2. l - 1 \in 1 .. Len(below)
    BY <1>10, <2>1
  <2> QED BY <1>11, <2>1, <2>2 DEF Follows, Top
<1>13. PICK m \in nodes : IsAt(m, stack, path, l)
  BY <1>7, <1>9, <1>10 DEF Open
<1>14. ASSUME NEW n \in nodes, IdOf(n) = f.id PROVE n = m
  BY <1>9, <1>10, <1>13, <1>14, SameIds DEF IsAt
<1>15. ASSUME NEW n, IsAt(n, stack, path, l) PROVE Len(n.around) = l - 1 /\ n.around = Around(path, l)
  <2>1. l \in 1 .. Len(stack)
    BY <1>7, <1>10
  <2> QED BY <1>9, <1>15, <2>1, DepthOfNode
<1>16. /\ stack[l - 1].sort = "Module" <=> l - 1 = 1
       /\ stack[l - 1].sort = "Class" <=> path[l - 1].kind = "class"
  BY <1>7, <1>9, <1>10, SortsOnStack
(* Functions own nothing.                                                  *)
<1>17. \A n \in nodes : OwnerKept(n, f, b)
  BY <1>10 DEF OwnerKept, IsOwner, OwnerSort
<1>18. ASSUME Follows(rest, stack)
       PROVE  /\ Walked(rest, path') /\ Open(rest, path', nodes)
              /\ \A i \in 2 .. Len(rest) : i \in 2 .. Len(stack) /\ rest[i].id = stack[i].id
              /\ Len(stack) # 0 /\ rest[1].qname = stack[1].qname
  <2>1. \A i \in 2 .. Len(rest) : i \in 2 .. Len(stack) /\ i \in 1 .. Len(rest)
    BY <1>18 DEF Follows
  <2>2. 1 \in 1 .. Len(rest) /\ Len(stack) # 0
    <3>1. Len(rest) = l - 1
      BY <1>7, <1>18 DEF Follows
    <3> QED BY <1>7, <1>10, <3>1
  <2>3. Walked(rest, path') /\ Open(rest, path', nodes)
    BY <1>1, <1>6, <1>8, <1>18, LeaveShape
  <2> QED BY <1>18, <2>1, <2>2, <2>3 DEF Follows
<1>19. CASE KeepsFunctions(Top(below))
  <2>1. b = [a EXCEPT !.functions = With(@, f.id, Entry(f))] /\ rest = AddTo(below, "functions", f.id)
    BY <1>8, <1>12, <1>19
  <2>2. Follows(rest, stack) /\ Tells(rest, stack, {}, {f.id})
    BY <1>11, <1>12, <2>1, ToldOnStack
  <2>3. /\ {"modules", "classes", "functions"} \subseteq DOMAIN b
        /\ b.functions = With(a.functions, f.id, Entry(f)) /\ b.modules = a.modules /\ b.classes = a.classes
    BY <1>9, <2>1, PutInApi DEF Puts
  <2>4. HasPut(b.functions, a.functions, f.id, Entry(f))
    BY <2>3, WithFacts
  <2>5. Entry(f).qname = f.qname
    BY DEF Entry
  <2>6. NotYet(rest, b, nodes) /\ Left(files, rest, b)
    BY <1>9, <1>18, <2>2, <2>3 DEF NotYet, Left
  <2>7. Listed(rest, b)
    <3>1. DOMAIN a.classes \cup {} \subseteq DOMAIN b.classes /\ DOMAIN a.functions \cup {f.id} \subseteq DOMAIN b.functions
      BY <2>3, <2>4 DEF HasPut
    <3> QED BY <1>9, <2>2, <2>3, <3>1, LeaveListed
  <2>8. Accounted(rest, b, nodes)
    <3>1. ASSUME NEW n \in nodes PROVE StaysKept(n, a, b) /\ StaysOwned(n, a, b)
      <4>1. IdOf(n) = f.id => Entry(f).qname = n.qname
        BY <1>10, <1>13, <1>14, <2>5 DEF IsAt
      <4>2. StaysKept(n, a, b)
        BY <2>3, <2>4, <4>1 DEF StaysKept, KeptOf, HasPut
      <4> QED BY <2>3, <4>2 DEF StaysOwned, OwnersOf
    <3>2. ASSUME NEW n \in nodes, IsAt(n, stack, path, l) PROVE IsKept(n, rest, b)
      <4>1. n.kind = "function" /\ IdOf(n) = f.id /\ n.qname = f.qname
        BY <1>10, <3>2 DEF IsAt
      <4>2. Len(n.around) = l - 1
        BY <1>15, <3>2
      <4>3. IdOf(n) \in DOMAIN KeptOf(n, b) /\ KeptOf(n, b)[IdOf(n)].qname = n.qname
        BY <2>4, <2>5, <4>1 DEF KeptOf, HasPut
      <4>4. stack[l - 1].sort \in {"Module", "Class"}
        BY <1>12, <1>19 DEF KeepsFunctions
      <4>5. OwnerId(n) = stack[l - 1].id
        <5>1. l \in 2 .. Len(stack) /\ stack[l - 1].sort # "Function"
          BY <1>7, <1>10, <4>4
        <5> QED BY <1>9, <3>2, <5>1, OwnerOnStack
      <4>6. l - 1 \in 1 .. Len(rest) /\ l - 1 = Len(rest)
        <5>1. Len(rest) = l - 1
          BY <1>7, <2>2 DEF Follows
        <5> QED BY <1>10, <5>1
      <4>7. IsOwner(n, rest[l - 1])
        <5>1. rest[l - 1].id = stack[l - 1].id /\ rest[l - 1].sort = stack[l - 1].sort
          BY <2>2, <4>6 DEF Follows
        <5>2. IdOf(n) \in rest[l - 1].functions
          BY <2>2, <4>1, <4>6 DEF Tells
        <5>3. stack[l - 1].sort = OwnerSort(n)
          BY <1>16, <4>2, <4>4 DEF OwnerSort
        <5> QED BY <4>1, <4>5, <5>1, <5>2, <5>3 DEF IsOwner, ListOf
      <4>8. IsOwned(n, rest, b)
        BY <4>6, <4>7 DEF IsOwned
      <4> QED BY <4>3, <4>8 DEF IsKept
    <3> QED BY <1>7, <1>9, <1>10, <1>17, <2>2, <3>1, <3>2, LeaveAccounted
  <2> QED BY <1>4, <1>6, <1>8, <1>9, <1>18, <2>2, <2>3, <2>6, <2>7, <2>8 DEF Complete
<1>20. CASE ~KeepsFunctions(Top(below))
  <2>1. b = a /\ rest = below
    BY <1>8, <1>20
  <2>2. Follows(rest, stack) /\ Tells(rest, stack, {}, {})
    BY <1>11, <2>1
  <2>3. NotYet(rest, b, nodes) /\ Left(files, rest, b)
    BY <1>9, <1>18, <2>1, <2>2 DEF NotYet, Left
  <2>4. Listed(rest, b)
    <3>1. DOMAIN a.classes \cup {} \subseteq DOMAIN b.classes /\ DOMAIN a.functions \cup {} \subseteq DOMAIN b.functions
      BY <2>1
    <3> QED BY <1>9, <2>1, <2>2, <3>1, LeaveListed
  <2>5. Accounted(rest, b, nodes)
    <3>1. ASSUME NEW n \in nodes PROVE StaysKept(n, a, b) /\ StaysOwned(n, a, b)
      BY <2>1 DEF StaysKept, StaysOwned
    <3>2. ASSUME NEW n \in nodes, IsPlain(n), IsAt(n, stack, path, l) PROVE FALSE
      <4>1. n.kind = "function" /\ Len(n.around) = l - 1 /\ n.around = Around(path, l)
        BY <1>10, <1>15, <3>2 DEF IsAt
      <4>2. \A i \in 2 .. Len(n.around) : n.around[i] = "class"
        BY <3>2, <4>1 DEF IsPlain
      <4>3. l - 1 # 1 /\ path[l - 1].kind # "class"
        BY <1>12, <1>16, <1>20 DEF KeepsFunctions
      <4>4. l - 1 \in 2 .. Len(n.around) /\ l - 1 \in 1 .. l - 1
        BY <1>10, <4>1, <4>3
      <4>5. n.around[l - 1] = path[l - 1].kind
        BY <4>1, <4>4 DEF Around
      <4> QED BY <4>2, <4>3, <4>4, <4>5
    <3> QED BY <1>7, <1>9, <1>10, <1>17, <2>2, <3>1, <3>2, LeaveAccounted
  <2> QED BY <1>4, <1>6, <1>8, <1>9, <1>18, <2>1, <2>2, <2>3, <2>4, <2>5 DEF Complete
<1> QED
  BY <1>19, <1>20

LEMMA LeaveAsyncKeeps ==
  ASSUME Complete, LeaveAsyncFunctionDef
  PROVE  Complete'
<1>1. PICK walk : walk = path
  OBVIOUS
<1>2. PICK stack : stack = declaration_stack
  OBVIOUS
<1>3. PICK back : back = path'
  OBVIOUS
<1>4. /\ walk # <<>> /\ walk[Len(walk)].kind = "async" /\ back = SubSeq(walk, 1, Len(walk) - 1)
      /\ UNCHANGED <<files, declaration_stack, api, nodes>>
  BY <1>1, <1>3 DEF LeaveAsyncFunctionDef, Leaves, LeaveNode, Top
<1>5. Walked(stack, walk) /\ Open(stack, walk, nodes)
  BY <1>1, <1>2 DEF Complete
<1>6. Len(walk) # 0 /\ Len(walk) \in Nat /\ Len(stack) \in Nat
  BY <1>4, <1>5, LengthOfSequence, EmptySeq DEF Walked, Sequence
<1>7. Len(walk) = Len(stack) + 1
  <2>1. ASSUME Len(walk) = Len(stack) PROVE FALSE
    <3>1. Len(walk) \in 1 .. Len(stack)
      BY <1>6, <2>1
    <3>2. walk[Len(walk)].kind \in KindsAt(Len(walk))
      BY <1>5, <3>1 DEF Walked, Aligned
    <3> QED BY <1>4, <3>2 DEF KindsAt
  <2> QED BY <1>5, <2>1 DEF Walked, Aligned
<1>8. Shortens(back, walk)
  BY <1>4, <1>5, <1>6, FrontShortens DEF Walked
<1>9. Len(back) = Len(stack) /\ \A i \in 1 .. Len(stack) : back[i] = walk[i]
  BY <1>6, <1>7, <1>8 DEF Shortens
<1>10. Walked(stack, back)
  BY <1>5, <1>8, <1>9 DEF Walked, Aligned, Shortens
<1>11. ASSUME NEW i \in 2 .. Len(stack) PROVE \E n \in nodes : IsAt(n, stack, back, i)
  <2>1. i \in 1 .. Len(stack) /\ \A t \in 1 .. i - 1 : t \in 1 .. Len(stack)
    BY <1>6
  <2>2. Around(back, i) = Around(walk, i)
    BY <1>9, <2>1 DEF Around
  <2> QED BY <1>5, <1>9, <2>1, <2>2 DEF Open, IsAt
<1> QED
  BY <1>2, <1>3, <1>4, <1>10, <1>11 DEF Complete, Open
-----------------------------------------------------------------------------
(* The handlers of what is entered.                                        *)
LEMMA QnameIsSequence ==
  ASSUME NEW f \in Files
  PROVE  Sequence(f.qname)
<1>1. PICK S : S = STRING
  OBVIOUS
<1>2. f.qname \in Seq(S)
  BY <1>1, PackageIsWellFormed
<1> QED
  BY <1>2, SeqIsSequence

LEMMA EnterModuleKeeps ==
  ASSUME Complete, EnterModule
  PROVE  Complete'
<1>1. PICK f : f = Head(files)
  OBVIOUS
<1>2. PICK stack : stack = declaration_stack
  OBVIOUS
<1>3. PICK d : d = Declaration("Module", ModuleId(f.qname), f.qname, TRUE, FALSE)
  OBVIOUS
<1>4. PICK node : node = [kind |-> "module", qname |-> f.qname]
  OBVIOUS
<1>5. PICK longer : longer = declaration_stack'
  OBVIOUS
<1>6. PICK further : further = path'
  OBVIOUS
<1>7. PICK fs : fs = files'
  OBVIOUS
<1>8. /\ path = <<>> /\ files # <<>> /\ ~f.test /\ fs = Tail(files) /\ api' = api /\ nodes' = nodes
      /\ longer = Append(stack, d) /\ further = <<node>>
  BY <1>1, <1>2, <1>3, <1>4, <1>5, <1>6, <1>7 DEF EnterModule
<1>9. Walked(stack, path) /\ Left(files, stack, api)
  BY <1>2 DEF Complete
<1>10. Len(stack) = 0
  <2>1. Len(path) = 0 /\ Len(stack) \in Nat
    BY <1>8, <1>9, LengthOfSequence DEF Walked
  <2> QED BY <1>9, <2>1 DEF Walked, Aligned
<1>11. Extends(longer, stack, d)
  BY <1>8, <1>9, AppendExtends DEF Walked
<1>12. Sequence(longer) /\ Len(longer) = 1 /\ longer[1] = d /\ \A i \in 1 .. Len(longer) : i = 1
  BY <1>10, <1>11 DEF Extends
<1>13. Sequence(further) /\ Len(further) = 1 /\ further[1] = node
  <2>1. PICK S : S = {node}
    OBVIOUS
  <2>2. further \in Seq(S)
    BY <1>8, <2>1
  <2> QED BY <1>8, <2>2, SeqIsSequence
<1>14. /\ d.qname = f.qname /\ d.sort = "Module" /\ d.id = ModuleId(f.qname) /\ d.classes = {} /\ d.functions = {}
       /\ Fields \subseteq DOMAIN d /\ node.kind = "module" /\ node.qname = f.qname
  BY <1>3, <1>4 DEF Declaration, Fields
<1>15. files \in Seq(Files) /\ Len(files) \in Nat /\ Len(files) # 0 /\ f = files[1] /\ f \in Files /\ 1 \in 1 .. Len(files)
  BY <1>1, <1>8, <1>9 DEF Left
<1>16. Sequence(f.qname) /\ Len(f.qname) \in Nat
  BY <1>15, QnameIsSequence, LengthOfSequence
<1>17. Walked(longer, further)
  <2>1. Described(longer)
    BY <1>12, <1>14 DEF Described
  <2>2. Aligned(longer, further)
    BY <1>12, <1>13, <1>14 DEF Aligned, KindsAt, SortOf
  <2>3. Nested(longer)
    BY <1>12, <1>14, <1>16 DEF Nested
  <2>4. Identified(longer)
    <3>1. IdAt(longer, 1, "none") = ModuleId(f.qname)
      <4>1. [t \in 1 .. 1 - 1 |-> Top(longer[t + 1].qname)] = <<>>
        OBVIOUS
      <4> QED BY <1>12, <1>14, <4>1 DEF IdAt, ModuleId
    <3> QED BY <1>12, <1>14, <3>1 DEF Identified
  <2> QED BY <1>12, <1>13, <2>1, <2>2, <2>3, <2>4 DEF Walked
<1>18. Open(longer, further, nodes)
  BY <1>12 DEF Open
<1>19. NotYet(longer, api, nodes)
  <2>1. NotYet(stack, api, nodes)
    BY <1>2 DEF Complete
  <2>2. \A id \in DOMAIN api.modules : id.module # f.qname
    BY <1>8, <1>9, <1>15 DEF Left
  <2> QED BY <1>12, <1>14, <2>1, <2>2 DEF NotYet
<1>20. Left(fs, longer, api)
  <2>1. fs \in Seq(Files) /\ Len(fs) = Len(files) - 1
        /\ \A i \in 1 .. Len(fs) : fs[i] = files[i + 1] /\ i + 1 \in 1 .. Len(files) /\ 1 < i + 1
    BY <1>8, <1>15
  <2>2. Apart(fs)
    <3>1. \A i, j \in 1 .. Len(fs) : i < j => i + 1 < j + 1
      OBVIOUS
    <3> QED BY <1>9, <2>1, <3>1 DEF Apart, Left
  <2>3. \A i \in 1 .. Len(fs) : ~fs[i].test => f.qname # fs[i].qname
    BY <1>8, <1>9, <1>15, <2>1 DEF Left, Apart
  <2>4. \A i \in 1 .. Len(fs) : ~fs[i].test => \A id \in DOMAIN api.modules : id.module # fs[i].qname
    BY <1>9, <2>1 DEF Left
  <2> QED BY <1>12, <1>14, <2>1, <2>2, <2>3, <2>4 DEF Left
<1>21. Listed(longer, api)
  <2>1. Listed(stack, api)
    BY <1>2 DEF Complete
  <2> QED BY <1>12, <1>14, <2>1 DEF Listed, ListsOf
<1>22. Accounted(longer, api, nodes)
  <2>1. ASSUME NEW n \in nodes, IsPlain(n) PROVE IsKept(n, longer, api)
    <3>1. IsKept(n, stack, api)
      <4>1. IsOpen(n, stack) \/ IsKept(n, stack, api)
        BY <1>2, <2>1 DEF Complete, Accounted
      <4> QED BY <1>10, <4>1 DEF IsOpen
    <3>2. IsOwned(n, stack, api) => IsOwned(n, longer, api)
      BY <1>10 DEF IsOwned
    <3> QED BY <3>1, <3>2 DEF IsKept
  <2> QED BY <2>1 DEF Accounted
<1> QED
  BY <1>5, <1>6, <1>7, <1>8, <1>17, <1>18, <1>19, <1>20, <1>21, <1>22 DEF Complete

(* What may be entered while no function is in an async function.          *)
NodeIn(kind, accessor, q, walk) ==
  [kind |-> kind, accessor |-> accessor, qname |-> q, around |-> [i \in 1 .. Len(walk) |-> walk[i].kind]]

LEMMA NotInAsync ==
  ASSUME NEW stack, NEW walk, Walked(stack, walk), walk # <<>>, NEW n,
         n.around = [i \in 1 .. Len(walk) |-> walk[i].kind], ~IsAsync(n)
  PROVE  /\ Len(stack) = Len(walk) /\ Len(stack) # 0 /\ Top(walk).qname = stack[Len(stack)].qname
<1>1. Len(walk) \in Nat /\ Len(walk) # 0
  BY LengthOfSequence, EmptySeq DEF Walked, Sequence
<1>2. Len(walk) \in 1 .. Len(walk)
  BY <1>1
<1>3. walk[Len(walk)].kind # "async"
  BY <1>2 DEF IsAsync
<1>4. Len(stack) = Len(walk)
  BY <1>3 DEF Walked, Aligned
<1> QED
  BY <1>1, <1>2, <1>4 DEF Walked, Aligned, Top

LEMMA EnterMemberKeeps ==
  ASSUME Complete, NEW kind \in {"class", "function"}, NEW name, NEW accessor, Walk(kind, name, accessor),
         kind = "class" => accessor = "none",
         Declare(SortOf(kind), Id(declaration_stack, name, accessor), name),
         UNCHANGED <<files, api>>, NoneInAsync'
  PROVE  Complete'
<1>1. PICK stack : stack = declaration_stack
  OBVIOUS
<1>2. PICK walk : walk = path
  OBVIOUS
<1>3. PICK q : q = Append(Top(walk).qname, name)
  OBVIOUS
<1>4. PICK n : n = NodeIn(kind, accessor, q, walk)
  OBVIOUS
<1>5. PICK node : node = [kind |-> kind, qname |-> q]
  OBVIOUS
<1>6. PICK d : d = Declaration(SortOf(kind), Id(stack, name, accessor), q, IsPublic(q), q \in DOMAIN reexported)
  OBVIOUS
<1>7. PICK longer : longer = declaration_stack'
  OBVIOUS
<1>8. PICK further : further = path'
  OBVIOUS
<1>9. /\ walk # <<>> /\ \A m \in nodes : m.qname = q => accessor # m.accessor
      /\ longer = Append(stack, d) /\ further = Append(walk, node) /\ nodes' = nodes \cup {n}
  BY <1>1, <1>2, <1>3, <1>4, <1>5, <1>6, <1>7, <1>8 DEF Walk, Declare, NodeIn
<1>10. /\ n.kind = kind /\ n.accessor = accessor /\ n.qname = q
       /\ n.around = [i \in 1 .. Len(walk) |-> walk[i].kind]
  BY <1>4 DEF NodeIn
<1>11. ~IsAsync(n)
  BY <1>9 DEF NoneInAsync
<1>12. Walked(stack, walk) /\ Apiece(nodes) /\ Open(stack, walk, nodes)
  BY <1>1, <1>2 DEF Complete
<1>13. Len(stack) = Len(walk) /\ Len(stack) # 0 /\ Top(walk).qname = stack[Len(stack)].qname
  BY <1>9, <1>10, <1>11, <1>12, NotInAsync
<1>14. n.around = [i \in 1 .. Len(stack) |-> walk[i].kind] /\ n.qname = Append(stack[Len(stack)].qname, name)
  BY <1>3, <1>10, <1>13
<1>15. IsWithin(n, stack, walk, name)
  BY <1>12, <1>13, <1>14, NameOfNew
<1>16. IdOf(n) = Id(stack, name, accessor)
  BY <1>10, <1>12, <1>13, <1>15, IdOfNew
<1>17. IsEntered(d, node, n)
  BY <1>5, <1>6, <1>10, <1>16 DEF IsEntered, Declaration, Fields
<1>18. Extends(longer, stack, d) /\ Extends(further, walk, node)
  BY <1>9, <1>12, AppendExtends DEF Walked
<1>19. Walked(longer, further)
  BY <1>12, <1>13, <1>15, <1>17, <1>18, EnterWalked
<1>20. Apiece(nodes \cup {n}) /\ n \notin nodes
  <2>1. \A m \in nodes : m.qname = n.qname => m.accessor # n.accessor
    BY <1>9, <1>10
  <2>2. Sequence(n.qname) /\ Sequence(n.around) /\ Len(n.around) \in 1 .. Len(n.qname)
    BY <1>15 DEF IsWithin
  <2> QED BY <1>12, <2>1, <2>2, EnterApiece
<1>21. Open(longer, further, nodes \cup {n})
  BY <1>12, <1>13, <1>14, <1>17, <1>18, EnterOpen
<1>22. NotYet(longer, api, nodes \cup {n})
  <2>1. NotYet(stack, api, nodes)
    BY <1>1 DEF Complete
  <2> QED BY <1>13, <1>17, <1>18, <1>20, <2>1, EnterNotYet
<1>23. Left(files, longer, api) /\ Listed(longer, api) /\ Accounted(longer, api, nodes \cup {n})
  <2>1. Left(files, stack, api) /\ Listed(stack, api) /\ Accounted(stack, api, nodes)
    BY <1>1 DEF Complete
  <2> QED BY <1>13, <1>17, <1>18, <2>1, EnterRest
<1> QED
  BY <1>7, <1>8, <1>9, <1>19, <1>20, <1>21, <1>22, <1>23 DEF Complete

LEMMA EnterAsyncKeeps ==
  ASSUME Complete, EnterAsyncFunctionDef, NoneInAsync'
  PROVE  Complete'
<1>1. PICK name : Walk("async", name, "none")
  BY DEF EnterAsyncFunctionDef
<1>2. PICK stack : stack = declaration_stack
  OBVIOUS
<1>3. PICK walk : walk = path
  OBVIOUS
<1>4. PICK q : q = Append(Top(walk).qname, name)
  OBVIOUS
<1>5. PICK n : n = NodeIn("async", "none", q, walk)
  OBVIOUS
<1>6. PICK node : node = [kind |-> "async", qname |-> q]
  OBVIOUS
<1>7. PICK further : further = path'
  OBVIOUS
<1>8. /\ walk # <<>> /\ \A m \in nodes : m.qname = q => "none" # m.accessor
      /\ further = Append(walk, node) /\ nodes' = nodes \cup {n}
      /\ UNCHANGED <<files, declaration_stack, api>>
  BY <1>1, <1>3, <1>4, <1>5, <1>6, <1>7 DEF Walk, NodeIn, EnterAsyncFunctionDef
<1>9. /\ n.kind = "async" /\ n.accessor = "none" /\ n.qname = q
      /\ n.around = [i \in 1 .. Len(walk) |-> walk[i].kind] /\ node.kind = "async"
  BY <1>5, <1>6 DEF NodeIn
<1>10. ~IsAsync(n)
  BY <1>8 DEF NoneInAsync
<1>11. Walked(stack, walk) /\ Apiece(nodes) /\ Open(stack, walk, nodes)
  BY <1>2, <1>3 DEF Complete
<1>12. Len(stack) = Len(walk) /\ Len(stack) # 0 /\ Top(walk).qname = stack[Len(stack)].qname
  BY <1>8, <1>9, <1>10, <1>11, NotInAsync
<1>13. IsWithin(n, stack, walk, name)
  <2>1. n.around = [i \in 1 .. Len(stack) |-> walk[i].kind] /\ n.qname = Append(stack[Len(stack)].qname, name)
    BY <1>4, <1>9, <1>12
  <2> QED BY <1>11, <1>12, <2>1, NameOfNew
<1>14. Apiece(nodes \cup {n})
  <2>1. \A m \in nodes : m.qname = n.qname => m.accessor # n.accessor
    BY <1>8, <1>9
  <2>2. Sequence(n.qname) /\ Sequence(n.around) /\ Len(n.around) \in 1 .. Len(n.qname)
    BY <1>13 DEF IsWithin
  <2> QED BY <1>11, <2>1, <2>2, EnterApiece
<1>15. Extends(further, walk, node)
  BY <1>8, <1>11, AppendExtends DEF Walked
<1>16. /\ Len(further) = Len(stack) + 1 /\ further[Len(further)].kind = "async" /\ Sequence(further)
       /\ \A i \in 1 .. Len(stack) : further[i] = walk[i]
  BY <1>9, <1>12, <1>15 DEF Extends
<1>17. Walked(stack, further)
  BY <1>11, <1>16 DEF Walked, Aligned
<1>18. ASSUME NEW i \in 2 .. Len(stack) PROVE \E m \in nodes \cup {n} : IsAt(m, stack, further, i)
  <2>1. i \in 1 .. Len(stack) /\ \A t \in 1 .. i - 1 : t \in 1 .. Len(stack)
    BY <1>12, <1>15 DEF Extends
  <2>2. Around(further, i) = Around(walk, i)
    BY <1>16, <2>1 DEF Around
  <2> QED BY <1>11, <1>16, <2>1, <2>2 DEF Open, IsAt
<1>19. NotYet(stack, api, nodes \cup {n})
  BY <1>2 DEF Complete, NotYet
<1>20. Accounted(stack, api, nodes \cup {n})
  BY <1>2, <1>9 DEF Complete, Accounted, IsPlain
<1> QED
  BY <1>2, <1>7, <1>8, <1>14, <1>17, <1>18, <1>19, <1>20 DEF Complete, Open
-----------------------------------------------------------------------------
LEMMA SkipKeeps ==
  ASSUME Complete, SkipTestFile
  PROVE  Complete'
<1>1. PICK fs : fs = files'
  OBVIOUS
<1>2. fs = Tail(files) /\ files # <<>> /\ UNCHANGED <<path, declaration_stack, api, nodes>>
  BY <1>1 DEF SkipTestFile
<1>3. Left(files, declaration_stack, api)
  BY DEF Complete
<1>4. /\ fs \in Seq(Files) /\ Len(fs) = Len(files) - 1
      /\ \A i \in 1 .. Len(fs) : fs[i] = files[i + 1] /\ i + 1 \in 1 .. Len(files)
  BY <1>2, <1>3 DEF Left
<1>5. Apart(fs)
  <2>1. \A i, j \in 1 .. Len(fs) : i < j => i + 1 < j + 1
    OBVIOUS
  <2> QED BY <1>3, <1>4, <2>1 DEF Apart, Left
<1>6. Left(fs, declaration_stack, api)
  BY <1>3, <1>4, <1>5 DEF Left
<1> QED
  BY <1>1, <1>2, <1>6 DEF Complete

(* Before the first file nothing is there, and all files are.              *)
THEOREM InitiallyComplete == Init => CompleteButForAsync
<1> SUFFICES ASSUME Init PROVE Complete
  BY DEF CompleteButForAsync
<1>1. PICK o \in Orders : files = InitFilesFirst(o)
  BY DEF Init
<1>2. /\ path = <<>> /\ declaration_stack = <<>> /\ nodes = {}
      /\ api = [modules |-> NothingYet, classes |-> NothingYet, functions |-> NothingYet]
  BY DEF Init
<1>3. Sequence(<<>>) /\ Len(<<>>) = 0 /\ DOMAIN NothingYet = {}
  <2>1. <<>> \in Seq({})
    OBVIOUS
  <2> QED BY <2>1, SeqIsSequence DEF NothingYet
<1>4. /\ {"modules", "classes", "functions"} \subseteq DOMAIN api
      /\ DOMAIN api.modules = {} /\ DOMAIN api.classes = {}
  BY <1>2, <1>3
<1>5. Walked(<<>>, <<>>) /\ Open(<<>>, <<>>, {})
  BY <1>3 DEF Walked, Described, Aligned, Nested, Identified, Open
<1>6. Apiece({}) /\ NotYet(<<>>, api, {}) /\ Listed(<<>>, api) /\ Accounted(<<>>, api, {})
  BY <1>3, <1>4 DEF Apiece, NotYet, Listed, Accounted
<1>7. Left(files, <<>>, api)
  BY <1>1, <1>3, <1>4, FilesAreApart DEF Left
<1> QED
  BY <1>2, <1>4, <1>5, <1>6, <1>7 DEF Complete

(* Each handler of the visitor keeps the books of what is entered, left    *)
(* and listed, as long as nothing is nested in an async function.          *)
THEOREM StaysComplete == CompleteButForAsync /\ [Next]_vars => CompleteButForAsync'
<1> SUFFICES ASSUME CompleteButForAsync, [Next]_vars, NoneInAsync' PROVE Complete'
  BY DEF CompleteButForAsync
<1>1. nodes \subseteq nodes'
  BY DEF Next, vars, SkipTestFile, EnterModule, LeaveModule, EnterClassDef, EnterFunctionDef, EnterAsyncFunctionDef,
         LeaveClassDef, LeaveFunctionDef, LeaveAsyncFunctionDef, Terminated, Walk
<1>2. Complete
  BY <1>1 DEF CompleteButForAsync, NoneInAsync
<1>3. CASE SkipTestFile
  BY <1>2, <1>3, SkipKeeps
<1>4. CASE EnterModule
  BY <1>2, <1>4, EnterModuleKeeps
<1>5. CASE EnterClassDef
  <2>1. PICK name : Walk("class", name, "none") /\ Declare("Class", Id(declaration_stack, name, "none"), name)
    BY <1>5 DEF EnterClassDef
  <2>2. SortOf("class") = "Class" /\ UNCHANGED <<files, api>>
    BY <1>5 DEF SortOf, EnterClassDef
  <2> QED BY <1>2, <2>1, <2>2, EnterMemberKeeps
<1>6. CASE EnterFunctionDef
  <2>1. PICK name, accessor : /\ Walk("function", name, accessor)
                              /\ Declare("Function", FunctionId(declaration_stack, name, accessor), name)
    BY <1>6 DEF EnterFunctionDef
  <2>2. SortOf("function") = "Function" /\ UNCHANGED <<files, api>>
    BY <1>6 DEF SortOf, EnterFunctionDef
  <2> QED BY <1>2, <2>1, <2>2, EnterMemberKeeps DEF FunctionId
<1>7. CASE EnterAsyncFunctionDef
  BY <1>2, <1>7, EnterAsyncKeeps
<1>8. CASE LeaveModule
  BY <1>2, <1>8, LeaveModuleKeeps
<1>9. CASE LeaveClassDef
  BY <1>2, <1>9, LeaveClassKeeps
<1>10. CASE LeaveFunctionDef
  BY <1>2, <1>10, LeaveFunctionKeeps
<1>11. CASE LeaveAsyncFunctionDef
  BY <1>2, <1>11, LeaveAsyncKeeps
<1>12. CASE Terminated \/ UNCHANGED vars
  BY <1>2, <1>12 DEF Terminated, vars, Complete
<1> QED
  BY <1>3, <1>4, <1>5, <1>6, <1>7, <1>8, <1>9, <1>10, <1>11, <1>12 DEF Next

LEMMA CompleteAtTheEnd == CompleteButForAsync => DeclarationsAreComplete
<1> SUFFICES ASSUME CompleteButForAsync, Done, \A n \in nodes : ~IsAsync(n)
             PROVE  DeclarationsAreComplete
  BY DEF DeclarationsAreComplete
<1>1. PICK stack : stack = declaration_stack
  OBVIOUS
<1>2. /\ Walked(stack, path) /\ Apiece(nodes) /\ NotYet(stack, api, nodes)
      /\ Listed(stack, api) /\ Accounted(stack, api, nodes)
  BY <1>1 DEF CompleteButForAsync, NoneInAsync, Complete
<1>3. Len(stack) = 0
  <2>1. Len(path) = 0 /\ Len(stack) \in Nat
    BY <1>2, LengthOfSequence DEF Walked, Done
  <2> QED BY <1>2, <2>1 DEF Walked, Aligned
<1>4. ASSUME NEW n \in nodes, IsPlain(n)
      PROVE  /\ IdOf(n) \in DOMAIN KeptOf(n, api) /\ KeptOf(n, api)[IdOf(n)].qname = n.qname
             /\ OwnerId(n) \in DOMAIN OwnersOf(n, api) => IdOf(n) \in ListOf(n, OwnersOf(n, api)[OwnerId(n)])
             /\ Len(n.around) <= 2 => OwnerId(n) \in DOMAIN OwnersOf(n, api)
  <2>1. IsKept(n, stack, api)
    BY <1>2, <1>3, <1>4 DEF Accounted, IsOpen
  <2>2. Len(n.around) <= 2 => /\ OwnerId(n) \in DOMAIN OwnersOf(n, api)
                              /\ IdOf(n) \in ListOf(n, OwnersOf(n, api)[OwnerId(n)])
    BY <1>3, <2>1 DEF IsKept, IsOwned
  <2>3. ASSUME ~(Len(n.around) <= 2) PROVE OwnerId(n) \notin DOMAIN OwnersOf(n, api)
    <3>1. Len(n.around) \in Nat /\ Len(OwnerId(n).names) = Len(n.around) - 1
      BY <1>2, LengthsOfIds
    <3>2. Len(n.around) # 1 /\ Len(OwnerId(n).names) # 1
      <4>1. PICK k \in Nat : k = Len(n.around)
        BY <3>1
      <4>2. ~(k <= 2)
        BY <2>3, <4>1
      <4>3. k > 2
        BY <4>1, <4>2
      <4>4. Len(OwnerId(n).names) = k - 1
        BY <3>1, <4>1
      <4>5. k # 1 /\ k - 1 # 1
        <5>1. \A i \in Nat : i > 2 => i # 1 /\ i - 1 # 1
          OBVIOUS
        <5> QED BY <4>3, <5>1
      <4> QED BY <4>1, <4>4, <4>5
    <3> QED BY <1>2, <3>2 DEF OwnersOf, NotYet
  <2> QED BY <2>1, <2>2, <2>3 DEF IsKept
<1>5. \A owner \in {api.modules[id] : id \in DOMAIN api.modules} \cup {api.classes[id] : id \in DOMAIN api.classes} :
        owner.classes \subseteq DOMAIN api.classes /\ owner.functions \subseteq DOMAIN api.functions
  BY <1>2 DEF Listed, ListsOf
<1> QED
  BY <1>4, <1>5 DEF DeclarationsAreComplete, KeptOf, OwnersOf, ListOf

(* Nothing is lost on the way into the API: of a package of any size whose *)
(* functions are in no async function, each class of a module and each     *)
(* function of a module or a class is there under its own id, and listed   *)
(* where it is (leave_module, leave_classdef, leave_functiondef).          *)
THEOREM NothingIsMissing == Spec => []DeclarationsAreComplete
BY InitiallyComplete, StaysComplete, CompleteAtTheEnd, PTL DEF Spec
-----------------------------------------------------------------------------
(* What is said of a declaration, if no __init__ file re-exports what one  *)
(* before it declares.                                                     *)
NotExported(q, fs) == \A i \in 1 .. Len(fs) : ~fs[i].test => q \notin Exports(fs[i])

InOrder(fs) ==
  /\ fs \in Seq(Files)
  /\ \A i, j \in 1 .. Len(fs) : i < j /\ ~fs[i].test /\ ~fs[j].test => DeclaresNone(fs[i], Exports(fs[j]))

(* The walk is in a module, and what that declares is re-exported by now.  *)
InModule(walk, fs) ==
  Len(walk) # 0 =>
    /\ walk[1].kind = "module" /\ Sequence(walk[1].qname)
    /\ \A q : DeclaredIn(q, walk[1].qname) => NotExported(q, fs)
    /\ \A i \in 2 .. Len(walk) : /\ walk[i].kind # "module" /\ Sequence(walk[i].qname)
                                 /\ DeclaredIn(walk[i].qname, walk[1].qname)

(* What is said is true, and remains so.                                   *)
Fits(d, inClass, map, fs) ==
  /\ d.is_public = IsPublicName(map, inClass, d.qname) /\ d.sharesList = (d.qname \in DOMAIN map)
  /\ NotExported(d.qname, fs) /\ (inClass => NotExported(Parent(d.qname), fs))

InClass(stack, i) == stack[i - 1].sort = "Class"
Said(stack, map, fs) ==
  /\ Described(stack)
  /\ \A i \in 1 .. Len(stack) : /\ stack[i].sort = "Module" <=> i = 1
                                /\ Len(stack[i].id.names) = i - 1
  /\ \A i \in 2 .. Len(stack) : Fits(stack[i], InClass(stack, i), map, fs)

InAClass(id) == Len(id.names) > 1
SaidInApi(a, map, fs) ==
  /\ {"modules", "classes", "functions"} \subseteq DOMAIN a
  /\ \A id \in DOMAIN a.classes : Fits(a.classes[id], FALSE, map, fs)
  /\ \A id \in DOMAIN a.functions : Fits(a.functions[id], InAClass(id), map, fs)

Published ==
  /\ Balanced /\ InOrder(files) /\ InModule(path, files)
  /\ Said(declaration_stack, reexported, files) /\ SaidInApi(api, reexported, files)
-----------------------------------------------------------------------------
(* __init__ files come first, in the order they are listed in: none re-    *)
(* exports what a file before it declares, if none listed after it does.   *)
LEMMA ExportsStayFirst ==
  ASSUME NEW o \in Orders, ExportsComeFirst
  PROVE  InOrder(InitFilesFirst(o))
<1>1. PICK c : c = Selected(o, TRUE)
  OBVIOUS
<1>2. PICK d : d = Selected(o, FALSE)
  OBVIOUS
<1>3. PICK e : e = c \o d
  OBVIOUS
<1>4. Chosen(c, o, TRUE, Len(o)) /\ Chosen(d, o, FALSE, Len(o)) /\ InitFilesFirst(o) = e
  BY <1>1, <1>2, <1>3, SelectedFacts DEF InitFilesFirst
<1>5. c \in Seq(Files) /\ d \in Seq(Files) /\ Len(c) \in Nat /\ Len(d) \in Nat
  BY <1>4 DEF Chosen
<1>6. e \in Seq(Files) /\ Len(e) = Len(c) + Len(d)
  BY <1>3, <1>5
<1>7. ASSUME NEW a \in 1 .. Len(e)
      PROVE  \/ a \in 1 .. Len(c) /\ e[a] = c[a]
             \/ a > Len(c) /\ e[a].init = FALSE
  <2>1. \/ a \in 1 .. Len(c) /\ e[a] = c[a]
        \/ a - Len(c) \in 1 .. Len(d) /\ a > Len(c) /\ e[a] = d[a - Len(c)]
    BY <1>3, <1>5, <1>6, ConcatProperties
  <2>2. \A y \in 1 .. Len(d) : d[y].init = FALSE
    <3>1. ASSUME NEW y \in 1 .. Len(d) PROVE d[y].init = FALSE
      <4>1. \E k \in 1 .. Len(o) : o[k].init = FALSE /\ d[y] = o[k]
        BY <1>4, Zenon DEF Chosen
      <4> QED BY <4>1
    <3> QED BY <3>1
  <2> QED BY <2>1, <2>2
<1>8. ASSUME NEW a \in 1 .. Len(e), NEW b \in 1 .. Len(e), a < b, ~e[a].test, ~e[b].test
      PROVE  DeclaresNone(e[a], Exports(e[b]))
  <2>1. CASE e[b].init = FALSE
    <3>1. Exports(e[b]) = {}
      BY <2>1 DEF Exports
    <3> QED BY <3>1 DEF DeclaresNone
  <2>2. CASE b \in 1 .. Len(c) /\ e[b] = c[b]
    <3>1. a \in 1 .. Len(c) /\ e[a] = c[a]
      <4>1. ~(a > Len(c))
        BY <1>5, <1>8, <2>2
      <4> QED BY <1>7, <4>1
    <3>2. PICK j \in 1 .. Len(o), k \in 1 .. Len(o) : j < k /\ c[a] = o[j] /\ c[b] = o[k]
      BY <1>4, <1>8, <2>2, <3>1 DEF Chosen, OrderKept
    <3>3. c[a].init = TRUE /\ c[b].init = TRUE
      BY <1>4, <2>2, <3>1 DEF Chosen
    <3> QED BY <1>8, <2>2, <3>1, <3>2, <3>3 DEF ExportsComeFirst
  <2> QED BY <1>7, <2>1, <2>2
<1> QED
  BY <1>4, <1>6, <1>8 DEF InOrder

(* What a module declares is not re-exported by a file after it.           *)
LEMMA ExportsRemain ==
  ASSUME NEW fs, InOrder(fs), fs # <<>>, NEW rest, rest = Tail(fs)
  PROVE  /\ InOrder(rest) /\ fs[1] \in Files
         /\ \A q : NotExported(q, fs) => NotExported(q, rest)
         /\ ~fs[1].test => \A q : DeclaredIn(q, fs[1].qname) => NotExported(q, rest)
<1>1. /\ fs \in Seq(Files) /\ Len(fs) \in Nat /\ Len(fs) # 0 /\ 1 \in 1 .. Len(fs) /\ fs[1] \in Files
  BY DEF InOrder
<1>2. rest \in Seq(Files) /\ \A i \in 1 .. Len(rest) : rest[i] = fs[i + 1] /\ i + 1 \in 1 .. Len(fs) /\ 1 < i + 1
  BY <1>1
<1>3. \A i, j \in 1 .. Len(rest) : i < j => i + 1 < j + 1
  OBVIOUS
<1>4. InOrder(rest)
  BY <1>2, <1>3 DEF InOrder
<1>5. \A q : NotExported(q, fs) => NotExported(q, rest)
  BY <1>2 DEF NotExported
<1>6. ~fs[1].test => \A q : DeclaredIn(q, fs[1].qname) => NotExported(q, rest)
  BY <1>1, <1>2 DEF InOrder, NotExported, DeclaresNone
<1> QED
  BY <1>1, <1>4, <1>5, <1>6

(* More re-exports do not change what is said.                             *)
LEMMA RemainsTrue ==
  ASSUME NEW d, NEW inClass \in BOOLEAN, NEW map, NEW fs, Fits(d, inClass, map, fs),
         NEW more, NEW rest, NEW exports, DOMAIN more = DOMAIN map \cup exports,
         \A q : NotExported(q, fs) => NotExported(q, rest) /\ q \notin exports
  PROVE  Fits(d, inClass, more, rest)
<1>1. NotExported(d.qname, rest) /\ d.qname \notin exports
  BY DEF Fits
<1>2. inClass => NotExported(Parent(d.qname), rest) /\ Parent(d.qname) \notin exports
  BY DEF Fits
<1>3. d.qname \in DOMAIN more <=> d.qname \in DOMAIN map
  BY <1>1
<1>4. inClass => (Parent(d.qname) \in DOMAIN more <=> Parent(d.qname) \in DOMAIN map)
  BY <1>2
<1>5. IsPublicName(more, inClass, d.qname) <=> IsPublicName(map, inClass, d.qname)
  BY <1>3, <1>4 DEF IsPublicName
<1>6. /\ d.is_public = IsPublicName(map, inClass, d.qname) /\ d.sharesList = (d.qname \in DOMAIN map)
  BY DEF Fits
<1>7. IsPublicName(more, inClass, d.qname) = IsPublicName(map, inClass, d.qname)
  BY <1>5 DEF IsPublicName
<1>8. (d.qname \in DOMAIN more) = (d.qname \in DOMAIN map)
  BY <1>3
<1> QED
  BY <1>1, <1>2, <1>6, <1>7, <1>8 DEF Fits

LEMMA RemainsSaid ==
  ASSUME NEW stack, NEW a, NEW map, NEW fs, Said(stack, map, fs), SaidInApi(a, map, fs),
         NEW more, NEW rest, NEW exports, DOMAIN more = DOMAIN map \cup exports,
         \A q : NotExported(q, fs) => NotExported(q, rest) /\ q \notin exports
  PROVE  Said(stack, more, rest) /\ SaidInApi(a, more, rest)
<1>1. \A i \in 2 .. Len(stack) : Fits(stack[i], InClass(stack, i), more, rest)
  <2> SUFFICES ASSUME NEW i \in 2 .. Len(stack) PROVE Fits(stack[i], InClass(stack, i), more, rest)
    OBVIOUS
  <2>1. InClass(stack, i) \in BOOLEAN /\ Fits(stack[i], InClass(stack, i), map, fs)
    BY DEF Said, InClass
  <2> QED BY <2>1, RemainsTrue
<1>2. ASSUME NEW id \in DOMAIN a.classes PROVE Fits(a.classes[id], FALSE, more, rest)
  <2>1. Fits(a.classes[id], FALSE, map, fs)
    BY DEF SaidInApi
  <2> QED BY <2>1, RemainsTrue
<1>3. ASSUME NEW id \in DOMAIN a.functions PROVE Fits(a.functions[id], InAClass(id), more, rest)
  <2>1. InAClass(id) \in BOOLEAN
    BY DEF InAClass
  <2>2. Fits(a.functions[id], InAClass(id), map, fs)
    BY DEF SaidInApi
  <2> QED BY <2>1, <2>2, RemainsTrue
<1> QED
  BY <1>1, <1>2, <1>3 DEF Said, SaidInApi

(* A name goes on in its module.                                           *)
LEMMA DeclaredWithin ==
  ASSUME NEW walk, NEW fs, InModule(walk, fs), Sequence(walk), Len(walk) # 0,
         NEW name \in ClassNames \cup FunctionNames, NEW q, q = Append(Top(walk).qname, name)
  PROVE  /\ Sequence(q) /\ DeclaredIn(q, walk[1].qname) /\ NotExported(q, fs)
         /\ Len(walk) # 1 => NotExported(Parent(q), fs)
<1>1. PICK k : k = Len(walk)
  OBVIOUS
<1>2. PICK p : p = walk[1].qname
  OBVIOUS
<1>3. PICK s : s = walk[k].qname
  OBVIOUS
<1>4. k \in Nat /\ k # 0 /\ (k = 1 \/ k \in 2 .. k)
  BY <1>1, LengthOfSequence
<1>5. Sequence(p) /\ Sequence(s) /\ (k # 1 => DeclaredIn(s, p)) /\ (k = 1 => s = p) /\ q = Append(s, name)
  BY <1>1, <1>2, <1>3, <1>4 DEF InModule, Top
<1>6. Len(p) \in Nat /\ Len(s) \in Nat
  BY <1>5, LengthOfSequence
<1>7. Sequence(q) /\ Len(q) = Len(s) + 1 /\ (\A i \in 1 .. Len(s) : q[i] = s[i]) /\ q[Len(s) + 1] = name
  BY <1>5, AppendToSequence
<1>8. DeclaredIn(q, p)
  <2>1. CASE k = 1
    BY <1>5, <1>6, <1>7, <2>1 DEF DeclaredIn
  <2>2. CASE k # 1
    <3>1. Len(p) < Len(s) /\ (\A i \in 1 .. Len(p) : s[i] = p[i]) /\ s[Len(p) + 1] \in ClassNames \cup FunctionNames
      BY <1>5, <2>2 DEF DeclaredIn
    <3>2. Len(p) < Len(q) /\ Len(p) + 1 \in 1 .. Len(s) /\ \A i \in 1 .. Len(p) : i \in 1 .. Len(s)
      BY <1>6, <1>7, <3>1
    <3>3. q[Len(p) + 1] \in ClassNames \cup FunctionNames
      BY <1>7, <3>1, <3>2
    <3>4. \A i \in 1 .. Len(p) : q[i] = p[i]
      BY <1>7, <3>1, <3>2
    <3> QED BY <3>2, <3>3, <3>4 DEF DeclaredIn
  <2> QED BY <2>1, <2>2
<1>9. Parent(q) = s
  <2>1. Len(q) # 0 /\ Len(q) - 1 = Len(s)
    BY <1>6, <1>7
  <2>2. PICK front : front = SubSeq(q, 1, Len(q) - 1)
    OBVIOUS
  <2>3. Sequence(front) /\ Len(front) = Len(q) - 1 /\ \A i \in 1 .. Len(q) - 1 : front[i] = q[i]
    BY <1>7, <2>1, <2>2, FrontOfSequence
  <2>4. front = s
    BY <1>5, <1>7, <2>1, <2>3, SameSequences
  <2> QED BY <2>2, <2>4 DEF Parent
<1>10. \A r : DeclaredIn(r, p) => NotExported(r, fs)
  BY <1>1, <1>2 DEF InModule
<1> QED
  BY <1>1, <1>2, <1>5, <1>7, <1>8, <1>9, <1>10

(* The declaration on top is that of the walk, or of one it is in.         *)
LEMMA TopOfBoth ==
  ASSUME NEW stack, NEW walk, NEW fs, Sequence(stack), Sequence(walk), Mirrors(stack, walk),
         InModule(walk, fs), Len(walk) # 0
  PROVE  Len(stack) # 0 /\ (Top(stack).sort = "Class" => Len(walk) # 1)
<1>1. PICK at \in [1 .. Len(stack) -> 1 .. Len(walk)] : ComesFrom(at, stack, walk)
  BY DEF Mirrors
<1>2. Len(walk) \in Nat /\ 1 \in 1 .. Len(walk) /\ Len(stack) \in Nat
  BY LengthOfSequence
<1>3. walk[1].kind = "module"
  BY DEF InModule
<1>4. \E i \in 1 .. Len(stack) : at[i] = 1
  BY <1>1, <1>2, <1>3 DEF ComesFrom
<1>5. Len(stack) # 0 /\ Len(stack) \in 1 .. Len(stack)
  BY <1>2, <1>4
<1>6. ASSUME Top(stack).sort = "Class", Len(walk) = 1 PROVE FALSE
  <2>1. at[Len(stack)] = 1
    BY <1>1, <1>5, <1>6
  <2>2. stack[Len(stack)].sort = SortOf("module")
    BY <1>1, <1>3, <1>5, <2>1 DEF ComesFrom
  <2> QED BY <1>6, <2>2 DEF SortOf, Top
<1> QED
  BY <1>5, <1>6
-----------------------------------------------------------------------------
(* What entering and leaving do to what is said.                           *)
LEMMA EnterSaid ==
  ASSUME NEW stack, NEW map, NEW fs, Said(stack, map, fs), Len(stack) # 0,
         NEW d, Fields \subseteq DOMAIN d, d.sort # "Module", Len(d.id.names) = Len(stack),
         Fits(d, stack[Len(stack)].sort = "Class", map, fs),
         NEW longer, Extends(longer, stack, d)
  PROVE  Said(longer, map, fs)
<1>1. PICK l : l = Len(stack)
  OBVIOUS
<1>2. /\ l \in Nat /\ l # 0 /\ Len(longer) = l + 1 /\ longer[l + 1] = d
      /\ \A i \in 1 .. l : longer[i] = stack[i]
      /\ \A i \in 1 .. l + 1 : i \in Nat /\ (i = l + 1 \/ i \in 1 .. l)
  BY <1>1 DEF Extends
<1>3. /\ \A i \in 2 .. l + 1 : (i = l + 1 \/ i \in 2 .. l) /\ i - 1 \in 1 .. l
      /\ l + 1 # 1 /\ (l + 1) - 1 = l
  BY <1>2
<1>4. Described(longer)
  BY <1>1, <1>2 DEF Described, Said
<1>5. ASSUME NEW i \in 1 .. l + 1
      PROVE  (longer[i].sort = "Module" <=> i = 1) /\ Len(longer[i].id.names) = i - 1
  BY <1>1, <1>2, <1>3 DEF Said
<1>6. ASSUME NEW i \in 2 .. l + 1 PROVE Fits(longer[i], InClass(longer, i), map, fs)
  <2>1. CASE i = l + 1
    <3>1. InClass(longer, i) = (stack[l].sort = "Class")
      <4>1. longer[i - 1] = stack[l]
        BY <1>2, <1>3, <2>1
      <4> QED BY <4>1 DEF InClass
    <3> QED BY <1>1, <1>2, <2>1, <3>1
  <2>2. CASE i \in 2 .. l
    <3>1. longer[i - 1] = stack[i - 1] /\ longer[i] = stack[i]
      <4>1. i - 1 \in 1 .. l /\ i \in 1 .. l
        BY <1>2, <1>3, <2>2
      <4> QED BY <1>2, <4>1
    <3>2. InClass(longer, i) = InClass(stack, i)
      BY <3>1 DEF InClass
    <3>3. Fits(stack[i], InClass(stack, i), map, fs)
      BY <1>1, <2>2 DEF Said
    <3> QED BY <3>1, <3>2, <3>3
  <2> QED BY <1>3, <2>1, <2>2
<1> QED
  BY <1>2, <1>4, <1>5, <1>6 DEF Said

LEMMA LeaveSaid ==
  ASSUME NEW stack, NEW map, NEW fs, Said(stack, map, fs), NEW rest, Follows(rest, stack)
  PROVE  Said(rest, map, fs)
<1>1. ASSUME NEW i \in 2 .. Len(rest) PROVE Fits(rest[i], InClass(rest, i), map, fs)
  <2>1. i \in 1 .. Len(rest) /\ i - 1 \in 1 .. Len(rest) /\ i \in 2 .. Len(stack)
    BY DEF Follows
  <2>2. InClass(rest, i) = InClass(stack, i)
    BY <2>1 DEF InClass, Follows
  <2>3. Fits(stack[i], InClass(stack, i), map, fs)
    BY <2>1 DEF Said
  <2>4. rest[i].qname = stack[i].qname /\ rest[i].is_public = stack[i].is_public
        /\ rest[i].sharesList = stack[i].sharesList
    BY <2>1 DEF Follows
  <2> QED BY <2>2, <2>3, <2>4 DEF Fits
<1>2. Described(rest)
  BY DEF Follows
<1>3. \A i \in 1 .. Len(rest) : (rest[i].sort = "Module" <=> i = 1) /\ Len(rest[i].id.names) = i - 1
  BY DEF Said, Follows
<1> QED
  BY <1>1, <1>2, <1>3 DEF Said

LEMMA LeaveInModule ==
  ASSUME NEW walk, NEW fs, InModule(walk, fs), NEW back, Shortens(back, walk)
  PROVE  InModule(back, fs)
<1>1. \A i \in 2 .. Len(back) : i \in 2 .. Len(walk) /\ i \in 1 .. Len(back)
  BY DEF Shortens
<1>2. ASSUME Len(back) # 0 PROVE 1 \in 1 .. Len(back) /\ Len(walk) # 0
  BY <1>2, LengthOfSequence DEF Shortens
<1> QED
  BY <1>1, <1>2 DEF InModule, Shortens

LEMMA EnterInModule ==
  ASSUME NEW walk, NEW fs, InModule(walk, fs), Sequence(walk), Len(walk) # 0,
         NEW node, node.kind # "module", NEW name \in ClassNames \cup FunctionNames,
         node.qname = Append(Top(walk).qname, name)
  PROVE  InModule(Append(walk, node), fs)
<1>1. PICK further : further = Append(walk, node)
  OBVIOUS
<1>2. Extends(further, walk, node)
  BY <1>1, AppendExtends
<1>3. Sequence(node.qname) /\ DeclaredIn(node.qname, walk[1].qname)
  BY DeclaredWithin
<1>4. further[1] = walk[1]
  <2>1. 1 \in 1 .. Len(walk)
    BY LengthOfSequence
  <2> QED BY <1>2, <2>1 DEF Extends
<1>5. \A i \in 2 .. Len(further) : i \in 1 .. Len(further) /\ (i = Len(further) \/ i \in 2 .. Len(walk))
  BY <1>2 DEF Extends
<1>6. InModule(further, fs)
  BY <1>2, <1>3, <1>4, <1>5 DEF InModule, Extends
<1> QED
  BY <1>1, <1>6
-----------------------------------------------------------------------------
LEMMA SkipSays ==
  ASSUME Published, SkipTestFile, Balanced'
  PROVE  Published'
<1>1. PICK fs : fs = files'
  OBVIOUS
<1>2. files # <<>> /\ fs = Tail(files) /\ UNCHANGED <<path, declaration_stack, reexported, api>>
  BY <1>1 DEF SkipTestFile
<1>3. InOrder(fs) /\ \A q : NotExported(q, files) => NotExported(q, fs)
  BY <1>2, ExportsRemain DEF Published
<1>4. Said(declaration_stack, reexported, fs) /\ SaidInApi(api, reexported, fs)
  <2>1. DOMAIN reexported = DOMAIN reexported \cup {} /\ \A q : NotExported(q, files) => NotExported(q, fs) /\ q \notin {}
    BY <1>3
  <2> QED BY <2>1, RemainsSaid DEF Published
<1>5. InModule(path, fs)
  BY <1>3 DEF Published, InModule
<1> QED
  BY <1>1, <1>2, <1>3, <1>4, <1>5 DEF Published

LEMMA EnterModuleSays ==
  ASSUME Published, EnterModule, Balanced'
  PROVE  Published'
<1>1. PICK f : f = Head(files)
  OBVIOUS
<1>2. PICK exports \in SUBSET Exports(f) :
        reexported' = [q \in DOMAIN reexported \cup exports |->
                         ReexportedBy(q) \cup (IF q \in exports THEN {ModuleId(f.qname)} ELSE {})]
  BY <1>1 DEF EnterModule
<1>3. PICK d : d = Declaration("Module", ModuleId(f.qname), f.qname, TRUE, FALSE)
  OBVIOUS
<1>4. PICK node : node = [kind |-> "module", qname |-> f.qname]
  OBVIOUS
<1>5. PICK more : more = reexported'
  OBVIOUS
<1>6. PICK longer : longer = declaration_stack'
  OBVIOUS
<1>7. PICK further : further = path'
  OBVIOUS
<1>8. PICK fs : fs = files'
  OBVIOUS
<1>9. /\ path = <<>> /\ files # <<>> /\ ~f.test /\ fs = Tail(files) /\ api' = api
      /\ longer = Append(declaration_stack, d) /\ further = <<node>>
      /\ DOMAIN more = DOMAIN reexported \cup exports
  BY <1>1, <1>2, <1>3, <1>4, <1>5, <1>6, <1>7, <1>8 DEF EnterModule
<1>10. files \in Seq(Files) /\ Len(files) \in Nat /\ Len(files) # 0 /\ 1 \in 1 .. Len(files) /\ f = files[1]
  BY <1>1, <1>9 DEF Published, InOrder
<1>11. /\ InOrder(fs) /\ f \in Files /\ \A q : NotExported(q, files) => NotExported(q, fs)
       /\ \A q : DeclaredIn(q, f.qname) => NotExported(q, fs)
  BY <1>9, <1>10, ExportsRemain DEF Published
<1>12. \A q : NotExported(q, files) => NotExported(q, fs) /\ q \notin exports
  BY <1>2, <1>9, <1>10, <1>11 DEF NotExported
<1>13. Said(declaration_stack, more, fs) /\ SaidInApi(api, more, fs)
  BY <1>9, <1>12, RemainsSaid DEF Published
<1>14. Len(declaration_stack) = 0
  <2>1. Len(path) = 0 /\ Len(declaration_stack) \in Nat /\ Mirrors(declaration_stack, path)
    BY <1>9, LengthOfSequence DEF Published, Balanced
  <2>2. PICK at \in [1 .. Len(declaration_stack) -> 1 .. Len(path)] : ComesFrom(at, declaration_stack, path)
    BY <2>1 DEF Mirrors
  <2>3. \A i \in 1 .. Len(declaration_stack) : at[i] \in 1 .. 0
    BY <2>1, <2>2
  <2>4. \A i \in 1 .. Len(declaration_stack) : FALSE
    BY <2>3
  <2> QED BY <2>1, <2>4
<1>15. Extends(longer, declaration_stack, d)
  BY <1>9, AppendExtends DEF Published, Balanced
<1>16. Len(longer) = 1 /\ longer[1] = d /\ \A i \in 1 .. Len(longer) : i = 1
  BY <1>14, <1>15 DEF Extends
<1>17. d.sort = "Module" /\ Len(d.id.names) = 0 /\ Fields \subseteq DOMAIN d /\ node.kind = "module" /\ node.qname = f.qname
  BY <1>3, <1>4 DEF Declaration, ModuleId, Fields
<1>18. Said(longer, more, fs)
  BY <1>16, <1>17 DEF Said, Described
<1>19. InModule(further, fs)
  <2>1. Len(further) = 1 /\ further[1] = node
    BY <1>9
  <2>2. Sequence(f.qname)
    BY <1>11, QnameIsSequence
  <2> QED BY <1>11, <1>17, <2>1, <2>2 DEF InModule
<1> QED
  BY <1>5, <1>6, <1>7, <1>8, <1>9, <1>11, <1>13, <1>18, <1>19 DEF Published

LEMMA EnterMemberSays ==
  ASSUME Published, NEW kind \in {"class", "function"}, NEW name \in ClassNames \cup FunctionNames, NEW accessor,
         Walk(kind, name, accessor), Declare(SortOf(kind), Id(declaration_stack, name, accessor), name),
         UNCHANGED <<files, reexported, api>>, Balanced'
  PROVE  Published'
<1>1. PICK stack : stack = declaration_stack
  OBVIOUS
<1>2. PICK walk : walk = path
  OBVIOUS
<1>3. PICK q : q = Append(Top(walk).qname, name)
  OBVIOUS
<1>4. PICK node : node = [kind |-> kind, qname |-> q]
  OBVIOUS
<1>5. PICK d : d = Declaration(SortOf(kind), Id(stack, name, accessor), q, IsPublic(q), q \in DOMAIN reexported)
  OBVIOUS
<1>6. PICK longer : longer = declaration_stack'
  OBVIOUS
<1>7. PICK further : further = path'
  OBVIOUS
<1>8. walk # <<>> /\ longer = Append(stack, d) /\ further = Append(walk, node)
  BY <1>1, <1>2, <1>3, <1>4, <1>5, <1>6, <1>7 DEF Walk, Declare
<1>9. /\ Sequence(stack) /\ Sequence(walk) /\ Mirrors(stack, walk) /\ InModule(walk, files)
      /\ Said(stack, reexported, files)
  BY <1>1, <1>2 DEF Published, Balanced
<1>10. Len(walk) # 0
  BY <1>8, <1>9, LengthOfSequence, EmptySeq DEF Sequence
<1>11. Len(stack) # 0 /\ Len(stack) \in Nat /\ (Top(stack).sort = "Class" => Len(walk) # 1)
  BY <1>9, <1>10, TopOfBoth, LengthOfSequence
<1>12. NotExported(q, files) /\ (Len(walk) # 1 => NotExported(Parent(q), files))
  BY <1>3, <1>9, <1>10, DeclaredWithin
<1>13. /\ d.qname = q /\ d.sort = SortOf(kind) /\ d.id = Id(stack, name, accessor) /\ Fields \subseteq DOMAIN d
       /\ d.is_public = IsPublic(q) /\ d.sharesList = (q \in DOMAIN reexported)
       /\ node.kind = kind /\ node.qname = q
  BY <1>4, <1>5 DEF Declaration, Fields
<1>14. d.sort # "Module" /\ node.kind # "module"
  BY <1>13 DEF SortOf
<1>15. Fits(d, stack[Len(stack)].sort = "Class", reexported, files)
  <2>1. IsPublic(q) = IsPublicName(reexported, stack[Len(stack)].sort = "Class", q)
    BY <1>1 DEF IsPublic, Top
  <2> QED BY <1>11, <1>12, <1>13, <2>1 DEF Fits, Top
<1>16. Len(d.id.names) = Len(stack)
  <2>1. PICK names : names = [i \in 1 .. Len(stack) |-> IF i = Len(stack) THEN name ELSE Top(stack[i + 1].qname)]
    OBVIOUS
  <2>2. names = [i \in 1 .. Len(stack) |-> names[i]]
    BY <2>1
  <2>3. Len(names) = Len(stack)
    BY <1>11, <2>2, FunctionIsSequence
  <2> QED BY <1>13, <2>1, <2>3 DEF Id
<1>17. Said(longer, reexported, files)
  <2>1. Extends(longer, stack, d)
    BY <1>8, <1>9, AppendExtends
  <2> QED BY <1>9, <1>11, <1>13, <1>14, <1>15, <1>16, <2>1, EnterSaid
<1>18. InModule(further, files)
  BY <1>3, <1>8, <1>9, <1>10, <1>13, <1>14, EnterInModule
<1> QED
  BY <1>6, <1>7, <1>17, <1>18 DEF Published

LEMMA EnterAsyncSays ==
  ASSUME Published, EnterAsyncFunctionDef, Balanced'
  PROVE  Published'
<1>1. PICK name \in FunctionNames : Walk("async", name, "none")
  BY DEF EnterAsyncFunctionDef
<1>2. PICK node : node = [kind |-> "async", qname |-> Append(Top(path).qname, name)]
  OBVIOUS
<1>3. path # <<>> /\ path' = Append(path, node) /\ UNCHANGED <<files, declaration_stack, reexported, api>>
  BY <1>1, <1>2 DEF EnterAsyncFunctionDef, Walk
<1>4. Len(path) # 0
  BY <1>3, LengthOfSequence, EmptySeq DEF Published, Balanced, Sequence
<1>5. node.kind # "module" /\ node.qname = Append(Top(path).qname, name)
  BY <1>2
<1>6. InModule(path', files)
  BY <1>1, <1>3, <1>4, <1>5, EnterInModule DEF Published, Balanced
<1> QED
  BY <1>3, <1>6 DEF Published
-----------------------------------------------------------------------------
(* What the handlers of what is left find on the stack.                    *)
LEMMA TakenIsSaid ==
  ASSUME Published, path # <<>>
  PROVE  /\ Len(path) # 0 /\ Shortens(SubSeq(path, 1, Len(path) - 1), path)
         /\ Len(declaration_stack) # 0 /\ Len(declaration_stack) \in Nat
         /\ Follows(Below(declaration_stack), declaration_stack)
         /\ Tells(Below(declaration_stack), declaration_stack, {}, {})
<1>1. Sequence(path) /\ Sequence(declaration_stack) /\ Mirrors(declaration_stack, path) /\ Described(declaration_stack)
  BY DEF Published, Balanced, Said
<1>2. Len(path) # 0
  BY <1>1, LengthOfSequence, EmptySeq DEF Sequence
<1>3. Len(declaration_stack) # 0 /\ Len(declaration_stack) \in Nat
  BY <1>1, <1>2, TopOfBoth, LengthOfSequence DEF Published
<1> QED
  BY <1>1, <1>2, <1>3, TakenFromStack, FrontShortens

LEMMA LeaveSays ==
  ASSUME Published, path # <<>>, LeaveNode, UNCHANGED <<files, reexported>>,
         Follows(declaration_stack', declaration_stack), SaidInApi(api', reexported, files), Balanced'
  PROVE  Published'
<1>1. PICK rest : rest = declaration_stack'
  OBVIOUS
<1>2. PICK back : back = path'
  OBVIOUS
<1>3. Shortens(back, path)
  BY <1>2, TakenIsSaid DEF LeaveNode
<1>4. Said(rest, reexported, files) /\ InModule(back, files)
  BY <1>1, <1>3, LeaveSaid, LeaveInModule DEF Published
<1> QED
  BY <1>1, <1>2, <1>4 DEF Published

LEMMA LeaveModuleSays ==
  ASSUME Published, LeaveModule, Balanced'
  PROVE  Published'
<1>1. PICK m : m = Top(declaration_stack)
  OBVIOUS
<1>2. /\ path # <<>> /\ LeaveNode /\ UNCHANGED <<files, reexported>>
      /\ declaration_stack' = Below(declaration_stack)
      /\ api' = [api EXCEPT !.modules = With(@, m.id, Entry(m))]
  BY <1>1 DEF LeaveModule, Leaves
<1>3. Puts(api', api, "modules", m.id, Entry(m))
  BY <1>2, PutInApi DEF Published, SaidInApi
<1>4. SaidInApi(api', reexported, files)
  BY <1>3 DEF Puts, Published, SaidInApi
<1> QED
  BY <1>2, <1>4, TakenIsSaid, LeaveSays

(* What is taken from the stack and kept is said as it was.                *)
LEMMA KeptAsSaid ==
  ASSUME NEW d, NEW inClass, NEW map, NEW fs, Fits(d, inClass, map, fs)
  PROVE  Fits(Entry(d), inClass, map, fs)
BY DEF Fits, Entry

LEMMA LeaveClassSays ==
  ASSUME Published, LeaveClassDef, Balanced'
  PROVE  Published'
<1>1. PICK stack : stack = declaration_stack
  OBVIOUS
<1>2. PICK c : c = Top(stack)
  OBVIOUS
<1>3. PICK below : below = Below(stack)
  OBVIOUS
<1>4. PICK l : l = Len(stack)
  OBVIOUS
<1>5. /\ path # <<>> /\ LeaveNode /\ UNCHANGED <<files, reexported>>
      /\ IF below # <<>> /\ Top(below).sort = "Module"
         THEN /\ api' = [api EXCEPT !.classes = With(@, c.id, Entry(c))]
              /\ declaration_stack' = AddTo(below, "classes", c.id)
         ELSE declaration_stack' = below /\ api' = api
  BY <1>1, <1>2, <1>3 DEF LeaveClassDef, Leaves
<1>6. /\ l \in Nat /\ l # 0 /\ Len(below) = l - 1 /\ Sequence(below)
      /\ Follows(below, stack) /\ Tells(below, stack, {}, {})
  BY <1>1, <1>3, <1>4, <1>5, TakenIsSaid DEF Follows
<1>7. Said(stack, reexported, files) /\ SaidInApi(api, reexported, files)
  BY <1>1 DEF Published
<1>8. CASE ~(below # <<>> /\ Top(below).sort = "Module")
  <2>1. declaration_stack' = below /\ api' = api
    BY <1>5, <1>8
  <2> QED BY <1>1, <1>5, <1>6, <1>7, <2>1, LeaveSays
<1>9. CASE below # <<>> /\ Top(below).sort = "Module"
  <2>1. /\ api' = [api EXCEPT !.classes = With(@, c.id, Entry(c))]
        /\ declaration_stack' = AddTo(below, "classes", c.id)
    BY <1>5, <1>9
  <2>2. Len(below) # 0
    BY <1>6, <1>9, LengthOfSequence, EmptySeq DEF Sequence
  <2>3. l - 1 \in 1 .. Len(below) /\ l - 1 \in 1 .. Len(stack) /\ l \in 2 .. Len(stack)
    BY <1>4, <1>6, <2>2
  <2>4. stack[l - 1].sort = "Module"
    BY <1>6, <1>9, <2>3 DEF Follows, Top
  <2>5. InClass(stack, l) = FALSE
    BY <2>4 DEF InClass
  <2>6. Fits(c, FALSE, reexported, files)
    <3>1. Fits(stack[l], InClass(stack, l), reexported, files)
      BY <1>7, <2>3 DEF Said
    <3> QED BY <1>2, <1>4, <2>5, <3>1 DEF Top
  <2>7. Fits(Entry(c), FALSE, reexported, files)
    BY <2>6, KeptAsSaid
  <2>8. Puts(api', api, "classes", c.id, Entry(c))
    BY <1>7, <2>1, PutInApi DEF SaidInApi
  <2>9. HasPut(api'.classes, api.classes, c.id, Entry(c)) /\ api'.functions = api.functions
    BY <2>8, WithFacts DEF Puts
  <2>10. \A id \in DOMAIN api'.classes : Fits(api'.classes[id], FALSE, reexported, files)
    BY <1>7, <2>7, <2>9 DEF HasPut, SaidInApi
  <2>11. SaidInApi(api', reexported, files)
    BY <1>7, <2>8, <2>9, <2>10 DEF SaidInApi, Puts
  <2>12. Follows(declaration_stack', stack)
    BY <1>6, <2>1, <2>2, ToldOnStack
  <2> QED BY <1>1, <1>5, <2>11, <2>12, LeaveSays
<1> QED
  BY <1>8, <1>9

LEMMA LeaveFunctionSays ==
  ASSUME Published, LeaveFunctionDef, Balanced'
  PROVE  Published'
<1>1. PICK stack : stack = declaration_stack
  OBVIOUS
<1>2. PICK f : f = Top(stack)
  OBVIOUS
<1>3. PICK below : below = Below(stack)
  OBVIOUS
<1>4. PICK l : l = Len(stack)
  OBVIOUS
<1>5. /\ path # <<>> /\ LeaveNode /\ UNCHANGED <<files, reexported>>
      /\ IF below # <<>> /\ KeepsFunctions(Top(below))
         THEN /\ api' = [api EXCEPT !.functions = With(@, f.id, Entry(f))]
              /\ declaration_stack' = AddTo(below, "functions", f.id)
         ELSE declaration_stack' = below /\ api' = api
  BY <1>1, <1>2, <1>3 DEF LeaveFunctionDef, Leaves
<1>6. /\ l \in Nat /\ l # 0 /\ Len(below) = l - 1 /\ Sequence(below)
      /\ Follows(below, stack) /\ Tells(below, stack, {}, {})
  BY <1>1, <1>3, <1>4, <1>5, TakenIsSaid DEF Follows
<1>7. Said(stack, reexported, files) /\ SaidInApi(api, reexported, files)
  BY <1>1 DEF Published
<1>8. CASE ~(below # <<>> /\ KeepsFunctions(Top(below)))
  <2>1. declaration_stack' = below /\ api' = api
    BY <1>5, <1>8
  <2> QED BY <1>1, <1>5, <1>6, <1>7, <2>1, LeaveSays
<1>9. CASE below # <<>> /\ KeepsFunctions(Top(below))
  <2>1. /\ api' = [api EXCEPT !.functions = With(@, f.id, Entry(f))]
        /\ declaration_stack' = AddTo(below, "functions", f.id)
    BY <1>5, <1>9
  <2>2. Len(below) # 0
    BY <1>6, <1>9, LengthOfSequence, EmptySeq DEF Sequence
  <2>3. l - 1 \in 1 .. Len(below) /\ l - 1 \in 1 .. Len(stack) /\ l \in 2 .. Len(stack) /\ l \in 1 .. Len(stack)
    BY <1>4, <1>6, <2>2
  <2>4. stack[l - 1].sort \in {"Module", "Class"}
    BY <1>6, <1>9, <2>3 DEF Follows, Top, KeepsFunctions
  <2>5. stack[l - 1].sort = "Module" <=> l - 1 = 1
    BY <1>7, <2>3 DEF Said
  <2>6. Len(f.id.names) = l - 1
    BY <1>2, <1>4, <1>7, <2>3 DEF Said, Top
  <2>7. InAClass(f.id) <=> InClass(stack, l)
    <3>1. l - 1 > 1 <=> l - 1 # 1
      BY <1>4, <2>3
    <3> QED BY <2>4, <2>5, <2>6, <3>1 DEF InAClass, InClass
  <2>8. InAClass(f.id) = InClass(stack, l)
    BY <2>7 DEF InAClass, InClass
  <2>9. Fits(Entry(f), InAClass(f.id), reexported, files)
    <3>1. Fits(stack[l], InClass(stack, l), reexported, files)
      BY <1>7, <2>3 DEF Said
    <3>2. Fits(f, InAClass(f.id), reexported, files)
      BY <1>2, <1>4, <2>8, <3>1 DEF Top
    <3> QED BY <3>2, KeptAsSaid
  <2>10. Puts(api', api, "functions", f.id, Entry(f))
    BY <1>7, <2>1, PutInApi DEF SaidInApi
  <2>11. HasPut(api'.functions, api.functions, f.id, Entry(f)) /\ api'.classes = api.classes
    BY <2>10, WithFacts DEF Puts
  <2>12. \A id \in DOMAIN api'.functions : Fits(api'.functions[id], InAClass(id), reexported, files)
    BY <1>7, <2>9, <2>11 DEF HasPut, SaidInApi
  <2>13. SaidInApi(api', reexported, files)
    BY <1>7, <2>10, <2>11, <2>12 DEF SaidInApi, Puts
  <2>14. Follows(declaration_stack', stack)
    BY <1>6, <2>1, <2>2, ToldOnStack
  <2> QED BY <1>1, <1>5, <2>13, <2>14, LeaveSays
<1> QED
  BY <1>8, <1>9

LEMMA LeaveAsyncSays ==
  ASSUME Published, LeaveAsyncFunctionDef, Balanced'
  PROVE  Published'
<1>1. PICK back : back = path'
  OBVIOUS
<1>2. path # <<>> /\ back = SubSeq(path, 1, Len(path) - 1) /\ UNCHANGED <<files, declaration_stack, reexported, api>>
  BY <1>1 DEF LeaveAsyncFunctionDef, Leaves, LeaveNode
<1>3. InModule(back, files)
  BY <1>2, TakenIsSaid, LeaveInModule DEF Published
<1> QED
  BY <1>1, <1>2, <1>3 DEF Published
-----------------------------------------------------------------------------
(* Before the first file nothing is said.                                  *)
THEOREM InitiallyPublished == ExportsComeFirst /\ Init => Published
<1> SUFFICES ASSUME ExportsComeFirst, Init PROVE Published
  OBVIOUS
<1>1. PICK o \in Orders : files = InitFilesFirst(o)
  BY DEF Init
<1>2. /\ path = <<>> /\ declaration_stack = <<>>
      /\ api = [modules |-> NothingYet, classes |-> NothingYet, functions |-> NothingYet]
  BY DEF Init
<1>3. Len(<<>>) = 0 /\ DOMAIN NothingYet = {}
  BY DEF NothingYet
<1>4. InOrder(files)
  BY <1>1, ExportsStayFirst
<1>5. /\ {"modules", "classes", "functions"} \subseteq DOMAIN api
      /\ DOMAIN api.classes = {} /\ DOMAIN api.functions = {}
  BY <1>2, <1>3
<1>6. Said(<<>>, reexported, files) /\ InModule(<<>>, files)
  BY <1>3 DEF Said, Described, InModule
<1>7. SaidInApi(api, reexported, files)
  BY <1>5 DEF SaidInApi
<1>8. Balanced
  BY InitiallyBalanced
<1> QED
  BY <1>2, <1>4, <1>6, <1>7, <1>8 DEF Published

(* No handler says of a declaration what an __init__ file that is still to *)
(* be parsed would belie.                                                  *)
THEOREM StaysPublished == Published /\ [Next]_vars => Published'
<1> SUFFICES ASSUME Published, [Next]_vars PROVE Published'
  OBVIOUS
<1>1. Balanced'
  BY StaysBalanced DEF Published
<1>2. CASE SkipTestFile
  BY <1>1, <1>2, SkipSays
<1>3. CASE EnterModule
  BY <1>1, <1>3, EnterModuleSays
<1>4. CASE EnterClassDef
  <2>1. PICK name \in ClassNames : /\ Walk("class", name, "none")
                                   /\ Declare("Class", Id(declaration_stack, name, "none"), name)
    BY <1>4 DEF EnterClassDef
  <2>2. SortOf("class") = "Class" /\ UNCHANGED <<files, reexported, api>>
    BY <1>4 DEF SortOf, EnterClassDef
  <2> QED BY <1>1, <2>1, <2>2, EnterMemberSays
<1>5. CASE EnterFunctionDef
  <2>1. PICK name \in FunctionNames, accessor \in Accessors :
           /\ Walk("function", name, accessor)
           /\ Declare("Function", FunctionId(declaration_stack, name, accessor), name)
    BY <1>5 DEF EnterFunctionDef
  <2>2. SortOf("function") = "Function" /\ UNCHANGED <<files, reexported, api>>
    BY <1>5 DEF SortOf, EnterFunctionDef
  <2> QED BY <1>1, <2>1, <2>2, EnterMemberSays DEF FunctionId
<1>6. CASE EnterAsyncFunctionDef
  BY <1>1, <1>6, EnterAsyncSays
<1>7. CASE LeaveModule
  BY <1>1, <1>7, LeaveModuleSays
<1>8. CASE LeaveClassDef
  BY <1>1, <1>8, LeaveClassSays
<1>9. CASE LeaveFunctionDef
  BY <1>1, <1>9, LeaveFunctionSays
<1>10. CASE LeaveAsyncFunctionDef
  BY <1>1, <1>10, LeaveAsyncSays
<1>11. CASE Terminated \/ UNCHANGED vars
  BY <1>1, <1>11 DEF Terminated, vars, Published
<1> QED
  BY <1>2, <1>3, <1>4, <1>5, <1>6, <1>7, <1>8, <1>9, <1>10, <1>11 DEF Next

(* What the API says of a class or a function, is_public and who re-       *)
(* exports it, is as all __init__ files have it, in whatever order os.walk *)
(* lists the files: __move_init_files_to_front is enough, unless an        *)
(* __init__ file re-exports what one before it declares.                   *)
THEOREM PublicWhateverTheOrder == ExportsComeFirst => (Spec => []PublicAsReexported)
<1>1. Published => PublicAsReexported
  BY DEF Published, SaidInApi, Fits, InAClass, PublicAsReexported
<1>2. ExportsComeFirst /\ Spec => []PublicAsReexported
  BY InitiallyPublished, StaysPublished, <1>1, PTL DEF Spec
<1> QED
  BY <1>2
=============================================================================
