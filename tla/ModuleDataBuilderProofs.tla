---------------------- MODULE ModuleDataBuilderProofs ----------------------
(***************************************************************************)
(* Proofs that the references of a function get to it, for programs of any *)
(* size and any nesting of scopes.                                         *)
(***************************************************************************)
EXTENDS ModuleDataBuilder, SequenceTheorems, WellFoundedInduction, TLAPS

Open == ToSet(path)
FunctionScope == FunctionNode \ {"overload"}
OpenIn(kinds) == {n \in Open : KindOf(n) \in kinds}
Ascending(s) == \A i, j \in DOMAIN s : i < j => s[i] < s[j]
Stack(s, kinds) == s \in Seq(Nat) /\ Ascending(s) /\ ToSet(s) = OpenIn(kinds)

Nodes == [kind : Kind \cup {"module"}, within : SUBSET Nat]
Lists == [targets : SUBSET Nat, values : SUBSET Nat, calls : SUBSET Nat]

(* The walk: what is open when a node is entered is around it.             *)
WalkOK ==
  /\ ast \in Seq(Nodes) /\ 1 \in DOMAIN ast
  /\ \A n \in DOMAIN ast :
       /\ KindOf(n) = "module" <=> n = 1
       /\ ast[n].within \subseteq 1 .. n - 1
       /\ n # 1 => 1 \in ast[n].within
  /\ path \in Seq(Nat) /\ Ascending(path) /\ Open \subseteq DOMAIN ast
  /\ path # <<>> => 1 \in Open
  /\ \A n \in Open : KindOf(n) \in Scope \cup {"module"}
  /\ \A n \in DOMAIN ast, m \in Open : m < n => m \in ast[n].within

(* The builder's stacks follow the walk, but for overloads.                *)
StacksOK ==
  /\ Stack(current_node_stack, (Kind \cup {"module"}) \ {"overload"})
  /\ Stack(current_function_def, FunctionScope)
  /\ references \in [{n \in DOMAIN ast : KindOf(n) \in FunctionScope} -> Lists]
  /\ found \in Lists
  /\ \A f \in DOMAIN ast : KindOf(f) = "function" => f \in functions \/ f \in Open
-----------------------------------------------------------------------------
(* Sets of numbers, and sequences that ascend.                             *)
LEMMA MaxIs ==
  ASSUME NEW S \in SUBSET Nat, NEW m \in S, \A x \in S : x <= m
  PROVE  Max(S) = m
<1>1. \A x \in S : m >= x
  OBVIOUS
<1>2. Max(S) \in S /\ \A x \in S : Max(S) >= x
  BY <1>1 DEF Max
<1>3. Max(S) \in Nat /\ m \in Nat /\ m >= Max(S) /\ Max(S) >= m
  BY <1>1, <1>2
<1> QED
  BY <1>3

LEMMA MaxExists ==
  ASSUME NEW S \in SUBSET Nat, S # {}, NEW n \in Nat, \A x \in S : x <= n
  PROVE  Max(S) \in S /\ \A x \in S : x <= Max(S)
<1> DEFINE R == OpToRel(<, Nat)
           T == {n - x : x \in S}
<1>1. T \subseteq Nat /\ T # {}
  <2>1. \A x \in S : x \in Nat /\ x <= n
    OBVIOUS
  <2>2. \A x \in S : n - x \in Nat
    BY <2>1
  <2> QED BY <2>2
<1>2. PICK y \in T : \A z \in T : ~(<<z, y>> \in R)
  BY <1>1, NatLessThanWellFounded, WFMin
<1>3. PICK m \in S : y = n - m
  OBVIOUS
<1>4. ASSUME NEW x \in S PROVE x <= m
  <2>1. n - x \in Nat /\ y \in Nat /\ ~(n - x < y)
    BY <1>1, <1>2 DEF OpToRel
  <2> QED BY <1>3, <2>1
<1>5. Max(S) = m
  BY <1>4, MaxIs
<1> QED
  BY <1>4, <1>5

LEMMA NumbersAreOrdered ==
  \A a, b \in Nat : (a <= b /\ b <= a => a = b) /\ (a # b => a < b \/ b < a)
  OBVIOUS

LEMMA AppendAscending ==
  ASSUME NEW s \in Seq(Nat), Ascending(s), NEW n \in Nat, \A x \in ToSet(s) : x < n
  PROVE  /\ Append(s, n) \in Seq(Nat) /\ Append(s, n) # <<>>
         /\ Ascending(Append(s, n))
         /\ ToSet(Append(s, n)) = ToSet(s) \cup {n}
<1> DEFINE t == Append(s, n)
           l == Len(s)
<1>1. /\ t \in Seq(Nat) /\ l \in Nat /\ DOMAIN s = 1 .. l /\ Len(t) = l + 1
      /\ DOMAIN t = 1 .. l + 1 /\ t[l + 1] = n /\ \A i \in 1 .. l : t[i] = s[i]
  OBVIOUS
<1> HIDE DEF t, l
<1>2. \A i \in 1 .. l : s[i] \in ToSet(s) /\ s[i] < n
  BY <1>1 DEF ToSet
<1>3. \A i \in 1 .. l + 1 : i \in 1 .. l \/ i = l + 1
  BY <1>1
<1>4. ASSUME NEW i \in 1 .. l + 1, NEW j \in 1 .. l + 1, i < j PROVE t[i] < t[j]
  <2>1. i \in 1 .. l
    BY <1>1, <1>4
  <2>2. CASE j = l + 1
    BY <1>1, <1>2, <2>1, <2>2
  <2>3. CASE j \in 1 .. l
    BY <1>1, <1>4, <2>1, <2>3 DEF Ascending
  <2> QED BY <1>3, <2>2, <2>3
<1>5. Ascending(t)
  BY <1>1, <1>4 DEF Ascending
<1>6. ToSet(t) = ToSet(s) \cup {n}
  <2>1. ToSet(t) = {t[i] : i \in 1 .. l + 1} /\ ToSet(s) = {s[i] : i \in 1 .. l}
    BY <1>1 DEF ToSet
  <2>2. l + 1 \in 1 .. l + 1 /\ 1 .. l \subseteq 1 .. l + 1
    BY <1>1
  <2> QED BY <1>1, <1>3, <2>1, <2>2
<1>7. t # <<>>
  BY <1>1
<1> QED
  BY <1>1, <1>5, <1>6, <1>7 DEF t

LEMMA LastIsHighest ==
  ASSUME NEW s \in Seq(Nat), Ascending(s), s # <<>>
  PROVE  /\ Last(s) \in ToSet(s) /\ Last(s) \in Nat
         /\ \A x \in ToSet(s) : x \in Nat /\ x <= Last(s)
<1> DEFINE l == Len(s)
<1>1. l \in Nat /\ l # 0 /\ DOMAIN s = 1 .. l /\ \A i \in 1 .. l : s[i] \in Nat
  OBVIOUS
<1>2. Last(s) = s[l] /\ l \in 1 .. l
  BY <1>1 DEF Last
<1> HIDE DEF l
<1>3. \A i \in 1 .. l : s[i] <= s[l]
  <2> TAKE i \in 1 .. l
  <2>1. CASE i = l
    BY <1>1, <1>2, <2>1
  <2>2. CASE i < l
    BY <1>1, <1>2, <2>2 DEF Ascending
  <2> QED BY <1>1, <2>1, <2>2
<1> QED
  BY <1>1, <1>2, <1>3 DEF ToSet

LEMMA FrontAscending ==
  ASSUME NEW s \in Seq(Nat), Ascending(s), s # <<>>
  PROVE  /\ Front(s) \in Seq(Nat) /\ Ascending(Front(s))
         /\ ToSet(Front(s)) = ToSet(s) \ {Last(s)}
<1> DEFINE l == Len(s)
           t == Front(s)
<1>1. l \in Nat /\ l # 0 /\ DOMAIN s = 1 .. l /\ \A i \in 1 .. l : s[i] \in Nat
  OBVIOUS
<1>2. Last(s) = s[l] /\ l \in 1 .. l
  BY <1>1 DEF Last
<1>3. /\ t \in Seq(Nat) /\ Len(t) = l - 1 /\ DOMAIN t = 1 .. l - 1
      /\ \A i \in 1 .. l - 1 : t[i] = s[i]
  BY <1>1 DEF Front
<1> HIDE DEF l, t
<1>4. \A i \in 1 .. l - 1 : i \in 1 .. l /\ i < l /\ s[i] # s[l]
  BY <1>1, <1>2 DEF Ascending
<1>5. Ascending(t)
  BY <1>1, <1>3, <1>4 DEF Ascending
<1>6. ToSet(t) = ToSet(s) \ {Last(s)}
  <2>1. ToSet(t) = {t[i] : i \in 1 .. l - 1} /\ ToSet(s) = {s[i] : i \in 1 .. l}
    BY <1>1, <1>3 DEF ToSet
  <2>2. \A i \in 1 .. l : i = l \/ i \in 1 .. l - 1
    BY <1>1
  <2> QED BY <1>2, <1>3, <1>4, <2>1, <2>2
<1> QED
  BY <1>3, <1>5, <1>6 DEF t

(* The one below the last.                                                 *)
LEMMA BeforeIsNext ==
  ASSUME NEW s \in Seq(Nat), Ascending(s), NEW x \in ToSet(s), x # Last(s)
  PROVE  /\ Len(s) # 1 /\ Before(s) \in ToSet(s) /\ Before(s) # Last(s)
         /\ x <= Before(s)
<1> DEFINE l == Len(s)
<1>1. l \in Nat /\ DOMAIN s = 1 .. l /\ \A i \in 1 .. l : s[i] \in Nat
  OBVIOUS
<1>2. PICK i \in 1 .. l : x = s[i]
  BY <1>1 DEF ToSet
<1>3. Last(s) = s[l] /\ Before(s) = s[l - 1]
  BY DEF Last, Before
<1> HIDE DEF l
<1>4. i < l /\ l \in 1 .. l /\ l - 1 \in 1 .. l /\ l - 1 < l /\ i <= l - 1
  BY <1>1, <1>2, <1>3
<1>5. s[l - 1] < s[l]
  BY <1>1, <1>4 DEF Ascending
<1>6. s[i] <= s[l - 1]
  <2>1. CASE i = l - 1
    BY <1>1, <1>4, <2>1
  <2>2. CASE i < l - 1
    BY <1>1, <1>4, <2>2 DEF Ascending
  <2> QED BY <1>4, <2>1, <2>2
<1>7. s[l - 1] \in ToSet(s) /\ s[l - 1] # s[l] /\ l # 1
  BY <1>1, <1>4, <1>5 DEF ToSet
<1> QED
  BY <1>2, <1>3, <1>6, <1>7 DEF l
-----------------------------------------------------------------------------
(* The walk.                                                               *)
LEMMA NumbersOfNodes ==
  ASSUME WalkOK
  PROVE  /\ Len(ast) \in Nat /\ DOMAIN ast = 1 .. Len(ast) /\ New \in Nat
         /\ New \notin DOMAIN ast /\ \A n \in DOMAIN ast : n \in Nat /\ n < New
         /\ \A n \in DOMAIN ast : ast[n] \in Nodes
<1>1. ast \in Seq(Nodes)
  BY DEF WalkOK
<1>2. Len(ast) \in Nat /\ DOMAIN ast = 1 .. Len(ast) /\ \A n \in DOMAIN ast : ast[n] \in Nodes
  BY <1>1
<1> QED
  BY <1>2 DEF New

LEMMA VisitFacts ==
  ASSUME WalkOK, NEW kind \in Kind, Visit(kind)
  PROVE  /\ ast' \in Seq(Nodes) /\ DOMAIN ast' = DOMAIN ast \cup {New}
         /\ \A n \in DOMAIN ast : ast'[n] = ast[n]
         /\ ast'[New].kind = kind /\ ast'[New].within = Open
         /\ path # <<>> /\ 1 \in Open
<1> DEFINE x == Node(kind)
           l == Len(ast)
<1>1. Open \in SUBSET Nat
  BY NumbersOfNodes DEF WalkOK
<1>2. x \in Nodes /\ x.kind = kind /\ x.within = Open
  BY <1>1 DEF Node, Nodes, Open
<1>3. ast \in Seq(Nodes) /\ l \in Nat /\ DOMAIN ast = 1 .. l /\ New = l + 1
  BY NumbersOfNodes DEF WalkOK, New
<1>4. ast' = Append(ast, x)
  BY DEF Visit
<1> HIDE DEF x, l
<1>5. ast' \in Seq(Nodes) /\ ast'[New] = x /\ \A n \in DOMAIN ast : ast'[n] = ast[n]
  BY <1>2, <1>3, <1>4 DEF l
<1>6. DOMAIN ast' = 1 .. l + 1
  BY <1>2, <1>3, <1>4 DEF l
<1>7. DOMAIN ast' = DOMAIN ast \cup {New}
  BY <1>3, <1>6
<1>8. path # <<>> /\ 1 \in Open
  BY DEF Visit, WalkOK
<1> QED
  BY <1>2, <1>5, <1>7, <1>8

(* A node that is entered is after all others.                             *)
LEMMA TreeGrows ==
  ASSUME WalkOK, NEW kind \in Kind, Visit(kind), Open' \subseteq Open \cup {New}
  PROVE  /\ \A n \in DOMAIN ast' :
              /\ (KindOf(n) = "module")' <=> n = 1
              /\ ast'[n].within \subseteq 1 .. n - 1
              /\ n # 1 => 1 \in ast'[n].within
         /\ \A n \in DOMAIN ast', m \in Open' : m < n => m \in ast'[n].within
<1>1. /\ New \in Nat /\ New \notin DOMAIN ast /\ 1 \in DOMAIN ast
      /\ \A n \in DOMAIN ast : n \in Nat /\ n < New /\ n >= 1
  BY NumbersOfNodes DEF WalkOK
<1>2. kind # "module"
  BY DEF Kind, Scope, Name, Call, AssignName, Attribute, Ignored, FunctionNode, Lambda, Try
<1>3. /\ ast'[New].kind = kind /\ ast'[New].within = Open /\ 1 \in Open
      /\ DOMAIN ast' = DOMAIN ast \cup {New} /\ \A n \in DOMAIN ast : ast'[n] = ast[n]
  BY VisitFacts
<1>4. Open \subseteq DOMAIN ast
  BY DEF WalkOK
<1>5. ASSUME NEW n \in DOMAIN ast'
      PROVE  /\ ast'[n].kind = "module" <=> n = 1
             /\ ast'[n].within \subseteq 1 .. n - 1
             /\ n # 1 => 1 \in ast'[n].within
             /\ \A m \in Open' : m < n => m \in ast'[n].within
  <2>1. CASE n = New
    <3>1. \A m \in Open : m \in Nat /\ m >= 1 /\ m < New
      BY <1>1, <1>4
    <3>2. Open \subseteq 1 .. New - 1
      BY <1>1, <3>1
    <3>3. \A m \in Open' : m < n => m \in Open
      BY <1>1, <2>1
    <3>4. n # 1
      BY <1>1, <2>1
    <3> QED BY <1>2, <1>3, <2>1, <3>2, <3>3, <3>4
  <2>2. CASE n \in DOMAIN ast
    <3>1. ast'[n] = ast[n]
      BY <1>3, <2>2
    <3>2. \A m \in Open' : m < n => m \in Open
      BY <1>1, <2>2
    <3> QED BY <2>2, <3>1, <3>2 DEF WalkOK, KindOf
  <2> QED BY <1>3, <2>1, <2>2
<1> QED
  BY <1>5 DEF KindOf

LEMMA EnterWalk ==
  ASSUME WalkOK, NEW kind \in Scope, Enter(kind)
  PROVE  WalkOK' /\ Open' = Open \cup {New}
<1>1. kind \in Kind /\ Visit(kind) /\ path' = Append(path, New)
  BY DEF Enter, Kind
<1>2. /\ New \in Nat /\ New \notin DOMAIN ast /\ 1 \in DOMAIN ast
      /\ \A n \in DOMAIN ast : n \in Nat /\ n < New
      /\ path \in Seq(Nat) /\ Ascending(path) /\ Open \subseteq DOMAIN ast
  BY NumbersOfNodes DEF WalkOK
<1>3. \A x \in ToSet(path) : x < New
  BY <1>2 DEF Open
<1>4. path' \in Seq(Nat) /\ Ascending(path') /\ Open' = Open \cup {New}
  BY <1>1, <1>2, <1>3, AppendAscending DEF Open
<1>5. /\ ast' \in Seq(Nodes) /\ DOMAIN ast' = DOMAIN ast \cup {New}
      /\ \A n \in DOMAIN ast : ast'[n] = ast[n]
      /\ ast'[New].kind = kind /\ 1 \in Open
  BY <1>1, VisitFacts
<1>6. \A n \in Open' : KindOf(n)' \in Scope \cup {"module"}
  <2>1. \A n \in Open : ast'[n].kind = KindOf(n) /\ KindOf(n) \in Scope \cup {"module"}
    BY <1>2, <1>5 DEF WalkOK, KindOf
  <2> QED BY <1>4, <1>5, <2>1 DEF KindOf
<1>7. /\ \A n \in DOMAIN ast' :
           /\ (KindOf(n) = "module")' <=> n = 1
           /\ ast'[n].within \subseteq 1 .. n - 1
           /\ n # 1 => 1 \in ast'[n].within
      /\ \A n \in DOMAIN ast', m \in Open' : m < n => m \in ast'[n].within
  BY <1>1, <1>4, TreeGrows
<1>8. 1 \in DOMAIN ast' /\ Open' \subseteq DOMAIN ast' /\ 1 \in Open'
  BY <1>2, <1>4, <1>5
<1> QED
  BY <1>4, <1>5, <1>6, <1>7, <1>8 DEF WalkOK, Open, KindOf

LEMMA PassWalk ==
  ASSUME WalkOK, NEW kind \in Kind, Pass(kind)
  PROVE  WalkOK' /\ Open' = Open
<1>1. Visit(kind) /\ path' = path
  BY DEF Pass
<1>2. Open' = Open
  BY <1>1 DEF Open
<1>3. /\ ast' \in Seq(Nodes) /\ DOMAIN ast' = DOMAIN ast \cup {New}
      /\ \A n \in DOMAIN ast : ast'[n] = ast[n]
  BY <1>1, VisitFacts
<1>4. /\ path \in Seq(Nat) /\ Ascending(path) /\ Open \subseteq DOMAIN ast
      /\ 1 \in DOMAIN ast /\ (path # <<>> => 1 \in Open)
  BY DEF WalkOK
<1>5. \A n \in Open' : KindOf(n)' \in Scope \cup {"module"}
  <2>1. \A n \in Open : ast'[n].kind = KindOf(n) /\ KindOf(n) \in Scope \cup {"module"}
    BY <1>3 DEF WalkOK, KindOf
  <2> QED BY <1>2, <2>1 DEF KindOf
<1>6. /\ \A n \in DOMAIN ast' :
           /\ (KindOf(n) = "module")' <=> n = 1
           /\ ast'[n].within \subseteq 1 .. n - 1
           /\ n # 1 => 1 \in ast'[n].within
      /\ \A n \in DOMAIN ast', m \in Open' : m < n => m \in ast'[n].within
  BY <1>1, <1>2, TreeGrows
<1>7. path' \in Seq(Nat) /\ Ascending(path') /\ Open' \subseteq DOMAIN ast'
  BY <1>1, <1>2, <1>3, <1>4
<1> QED
  BY <1>1, <1>2, <1>3, <1>4, <1>5, <1>6, <1>7 DEF WalkOK, KindOf

LEMMA LeaveWalk ==
  ASSUME WalkOK, NEW n, Leave(n)
  PROVE  /\ WalkOK' /\ Open' = Open \ {n} /\ n \in Open
         /\ \A m \in Open : m \in Nat /\ m <= n
<1>1. path \in Seq(Nat) /\ Ascending(path) /\ path # <<>> /\ n = Last(path)
  BY DEF WalkOK, Leave
<1>2. n \in Open /\ n \in Nat /\ \A m \in Open : m \in Nat /\ m <= n
  BY <1>1, LastIsHighest DEF Open
<1>3. path' \in Seq(Nat) /\ Ascending(path') /\ Open' = Open \ {n}
  BY <1>1, FrontAscending DEF Leave, Open
<1>4. ast' = ast
  BY DEF Leave
<1>5. path' # <<>> => 1 \in Open'
  <2>1. SUFFICES ASSUME path' # <<>> PROVE 1 \in Open'
    OBVIOUS
  <2>2. PICK m \in Open' : TRUE
    BY <1>3, <2>1, LastIsHighest DEF Open
  <2>3. 1 \in Open /\ m \in DOMAIN ast /\ m <= n /\ m # n /\ m \in Nat /\ m >= 1
    BY <1>1, <1>2, <1>3, <2>2, NumbersOfNodes DEF WalkOK
  <2>4. n # 1
    BY <1>2, <2>3
  <2> QED BY <1>3, <2>3, <2>4
<1>6. WalkOK'
  <2>1. Open' \subseteq Open
    BY <1>3
  <2> QED BY <1>3, <1>4, <1>5, <2>1 DEF WalkOK, KindOf
<1> QED
  BY <1>2, <1>3, <1>6
-----------------------------------------------------------------------------
(* The stacks of the builder.                                              *)
LEMMA PushStack ==
  ASSUME WalkOK, NEW s, NEW kinds, Stack(s, kinds),
         NEW kind \in Scope, Enter(kind), kind \in kinds
  PROVE  /\ Append(s, New) \in Seq(Nat) /\ Ascending(Append(s, New))
         /\ ToSet(Append(s, New)) = OpenIn(kinds)'
<1>1. /\ s \in Seq(Nat) /\ Ascending(s) /\ ToSet(s) = OpenIn(kinds)
      /\ New \in Nat /\ \A n \in Open : n \in DOMAIN ast /\ n < New
  BY NumbersOfNodes DEF Stack, WalkOK
<1>2. \A x \in ToSet(s) : x < New
  BY <1>1 DEF OpenIn
<1>3. /\ Append(s, New) \in Seq(Nat) /\ Ascending(Append(s, New))
      /\ ToSet(Append(s, New)) = ToSet(s) \cup {New}
  BY <1>1, <1>2, AppendAscending
<1>4. kind \in Kind /\ Visit(kind)
  BY DEF Enter, Kind
<1>5. Open' = Open \cup {New} /\ ast'[New].kind = kind /\ \A n \in DOMAIN ast : ast'[n] = ast[n]
  BY <1>4, EnterWalk, VisitFacts
<1>6. OpenIn(kinds)' = OpenIn(kinds) \cup {New}
  BY <1>1, <1>5 DEF OpenIn, KindOf
<1> QED
  BY <1>1, <1>3, <1>6

LEMMA SameStack ==
  ASSUME WalkOK, NEW kinds, NEW kind \in Kind,
         Pass(kind) \/ (Enter(kind) /\ kind \in Scope \ kinds)
  PROVE  OpenIn(kinds)' = OpenIn(kinds)
<1>1. Visit(kind) /\ (Open' = Open \/ (Open' = Open \cup {New} /\ kind \notin kinds))
  BY EnterWalk, PassWalk DEF Enter, Pass
<1>2. ast'[New].kind = kind /\ \A n \in DOMAIN ast : ast'[n] = ast[n]
  BY <1>1, VisitFacts
<1>3. Open \subseteq DOMAIN ast /\ New \notin DOMAIN ast
  BY NumbersOfNodes DEF WalkOK
<1> QED
  BY <1>1, <1>2, <1>3 DEF OpenIn, KindOf

LEMMA PopStack ==
  ASSUME WalkOK, NEW s, NEW kinds, Stack(s, kinds), NEW n, Leave(n), KindOf(n) \in kinds
  PROVE  /\ Front(s) \in Seq(Nat) /\ Ascending(Front(s))
         /\ ToSet(Front(s)) = OpenIn(kinds)'
         /\ s # <<>> /\ Last(s) = n
<1>1. s \in Seq(Nat) /\ Ascending(s) /\ ToSet(s) = OpenIn(kinds)
  BY DEF Stack
<1>2. Open' = Open \ {n} /\ n \in Open /\ ast' = ast /\ \A m \in Open : m \in Nat /\ m <= n
  BY LeaveWalk DEF Leave
<1>3. n \in ToSet(s)
  BY <1>1, <1>2 DEF OpenIn
<1>4. s # <<>>
  BY <1>3 DEF ToSet
<1>5. Last(s) \in ToSet(s) /\ n <= Last(s) /\ Last(s) \in Nat
  BY <1>1, <1>3, <1>4, LastIsHighest
<1>6. Last(s) \in Open
  BY <1>1, <1>5 DEF OpenIn
<1>7. Last(s) = n
  BY <1>2, <1>5, <1>6
<1>8. OpenIn(kinds)' = OpenIn(kinds) \ {n}
  BY <1>2 DEF OpenIn, KindOf
<1>9. /\ Front(s) \in Seq(Nat) /\ Ascending(Front(s))
      /\ ToSet(Front(s)) = ToSet(s) \ {Last(s)}
  BY <1>1, <1>4, FrontAscending
<1> QED
  BY <1>1, <1>4, <1>7, <1>8, <1>9

LEMMA StackStays ==
  ASSUME WalkOK, NEW kinds, NEW n, Leave(n), KindOf(n) \notin kinds
  PROVE  OpenIn(kinds)' = OpenIn(kinds)
<1>1. Open' = Open \ {n} /\ ast' = ast
  BY LeaveWalk DEF Leave
<1> QED
  BY <1>1 DEF OpenIn, KindOf

(* References.                                                             *)
LEMMA PlusFacts ==
  ASSUME NEW r \in Lists, NEW s \in Lists
  PROVE  /\ Plus(r, s) \in Lists
         /\ Plus(r, s).targets = r.targets \cup s.targets
         /\ Plus(r, s).values = r.values \cup s.values
         /\ Plus(r, s).calls = r.calls \cup s.calls
  BY DEF Plus, Lists

LEMMA NothingFacts ==
  /\ Nothing \in Lists
  /\ Nothing.targets = {} /\ Nothing.values = {} /\ Nothing.calls = {}
  BY DEF Nothing, Lists

LEMMA FoundFacts ==
  ASSUME found \in Lists, NEW field \in {"targets", "values", "calls"}, NEW n \in Nat
  PROVE  /\ Found(field, n) \in Lists /\ n \in Found(field, n)[field]
         /\ found.targets \subseteq Found(field, n).targets
         /\ found.values \subseteq Found(field, n).values
         /\ found.calls \subseteq Found(field, n).calls
  BY DEF Found, Lists

(* Whether or not it is kept, nothing that was found is lost.              *)
LEMMA FoundIfFacts ==
  ASSUME found \in Lists, NEW field \in {"targets", "values", "calls"}, NEW n \in Nat, NEW condition
  PROVE  /\ FoundIf(condition, field, n) \in Lists
         /\ condition => n \in FoundIf(condition, field, n)[field]
         /\ found.targets \subseteq FoundIf(condition, field, n).targets
         /\ found.values \subseteq FoundIf(condition, field, n).values
         /\ found.calls \subseteq FoundIf(condition, field, n).calls
<1>1. CASE condition
  BY <1>1, FoundFacts DEF FoundIf
<1>2. CASE ~condition
  BY <1>2 DEF FoundIf
<1> QED BY <1>1, <1>2

LEMMA CreditFacts ==
  ASSUME NEW D, references \in [D -> Lists], NEW f \in D, NEW r \in Lists
  PROVE  /\ Credit(f, r) \in [D -> Lists]
         /\ Credit(f, r)[f] = Plus(references[f], r)
         /\ \A g \in D \ {f} : Credit(f, r)[g] = references[g]
  BY PlusFacts DEF Credit
-----------------------------------------------------------------------------
(* What surrounds a node.                                                  *)
HoldsNames(m) == KindOf(m) \in FunctionNode \cup {"module"}
Around(n) ==
  LET W == ast[n].within
  IN  /\ W \subseteq DOMAIN ast
      /\ In(n) \in W /\ \A m \in W : m <= In(n)
      /\ Owner(n) \in W /\ HoldsNames(Owner(n))
      /\ \A m \in W : HoldsNames(m) => m <= Owner(n)

AllAround == \A n \in DOMAIN ast \ {1} : Around(n)

LEMMA AroundFacts == WalkOK => AllAround
<1> USE DEF AllAround
<1> SUFFICES ASSUME WalkOK, NEW n \in DOMAIN ast \ {1} PROVE Around(n)
  OBVIOUS
<1> DEFINE W == ast[n].within
           H == {m \in W : HoldsNames(m)}
<1>1. /\ n \in Nat /\ n < New /\ New \in Nat /\ W \subseteq 1 .. n - 1 /\ 1 \in W
      /\ Len(ast) \in Nat /\ DOMAIN ast = 1 .. Len(ast)
  BY NumbersOfNodes DEF WalkOK
<1>2. W \subseteq DOMAIN ast
  <2> SUFFICES ASSUME NEW m \in 1 .. n - 1 PROVE m \in 1 .. Len(ast)
    BY <1>1
  <2>1. n \in 1 .. Len(ast)
    BY <1>1
  <2> QED BY <1>1, <2>1
<1>3. 1 \in H
  BY <1>1 DEF HoldsNames, WalkOK
<1>4. /\ W \in SUBSET Nat /\ W # {} /\ \A m \in W : m <= n
      /\ H \in SUBSET Nat /\ H # {} /\ \A m \in H : m <= n
  <2>1. \A m \in 1 .. n - 1 : m \in Nat /\ m <= n
    BY <1>1
  <2> QED BY <1>1, <1>3, <2>1
<1>5. In(n) = Max(W) /\ Owner(n) = Max(H)
  BY DEF In, Owner, Innermost, HoldsNames
<1> HIDE DEF W, H
<1>6. Max(W) \in W /\ \A m \in W : m <= Max(W)
  BY <1>1, <1>4, MaxExists
<1>7. Max(H) \in H /\ \A m \in H : m <= Max(H)
  BY <1>1, <1>4, MaxExists
<1>8. /\ W \subseteq DOMAIN ast /\ In(n) \in W /\ (\A m \in W : m <= In(n))
      /\ Owner(n) \in H /\ \A m \in H : m <= Owner(n)
  BY <1>2, <1>5, <1>6, <1>7
<1> QED
  BY <1>8 DEF Around, W, H

(* A node that was entered before stays where it is.                       *)
LEMMA OldNodes ==
  ASSUME WalkOK, NEW kind \in Kind, Visit(kind), NEW n \in DOMAIN ast
  PROVE  /\ KindOf(n)' = KindOf(n) /\ ast'[n].within = ast[n].within
         /\ n # 1 => In(n)' = In(n) /\ Owner(n)' = Owner(n)
                     /\ KindOf(In(n))' = KindOf(In(n))
         /\ \A m \in ast[n].within : m \in DOMAIN ast /\ KindOf(m)' = KindOf(m)
<1>1. \A m \in DOMAIN ast : ast'[m] = ast[m]
  BY VisitFacts
<1>2. n # 1 => Around(n)
  BY AroundFacts DEF AllAround
<1>3. \A m \in ast[n].within : m \in DOMAIN ast
  <2>1. CASE n = 1
    <3>1. ast[1].within \subseteq 1 .. 1 - 1
      BY DEF WalkOK
    <3> QED BY <2>1, <3>1
  <2>2. CASE n # 1
    BY <1>2, <2>2 DEF Around
  <2> QED BY <2>1, <2>2
<1>4. ASSUME n # 1 PROVE In(n)' = In(n) /\ Owner(n)' = Owner(n) /\ KindOf(In(n))' = KindOf(In(n))
  <2>1. In(n) \in DOMAIN ast
    BY <1>2, <1>3, <1>4 DEF Around
  <2>2. In(n)' = In(n)
    BY <1>1 DEF In
  <2>3. {m \in ast'[n].within : ast'[m].kind \in FunctionNode \cup {"module"}}
          = {m \in ast[n].within : ast[m].kind \in FunctionNode \cup {"module"}}
    BY <1>1, <1>3
  <2>4. Owner(n)' = Owner(n)
    BY <2>3 DEF Owner, Innermost, KindOf
  <2>5. KindOf(In(n))' = KindOf(In(n))
    BY <1>1, <2>1, <2>2 DEF KindOf
  <2> QED BY <2>2, <2>4, <2>5
<1> QED
  BY <1>1, <1>3, <1>4 DEF KindOf

(* The node that is entered.                                               *)
LEMMA NewNode ==
  ASSUME WalkOK, NEW kind \in Kind, Visit(kind), WalkOK', NEW n, n = New
  PROVE  /\ n # 1 /\ KindOf(n)' = kind /\ ast'[n].within = Open
         /\ path # <<>> /\ Last(path) \in Open /\ In(n)' = Last(path)
         /\ KindOf(In(n))' = KindOf(Last(path))
         /\ \A m \in Open : m \in Nat /\ m <= Last(path) /\ KindOf(m)' = KindOf(m)
         /\ Owner(n)' \in Open /\ HoldsNames(Owner(n)')
         /\ \A m \in Open : HoldsNames(m) => m <= Owner(n)'
<1>1. /\ DOMAIN ast' = DOMAIN ast \cup {n} /\ ast'[n].kind = kind /\ ast'[n].within = Open
      /\ path # <<>> /\ \A m \in DOMAIN ast : ast'[m] = ast[m]
  BY VisitFacts
<1>2. n # 1 /\ Open \subseteq DOMAIN ast /\ path \in Seq(Nat) /\ Ascending(path)
  BY NumbersOfNodes DEF WalkOK
<1>3. (WalkOK => AllAround)'
  BY AroundFacts, PTL
<1>4. \A m \in (DOMAIN ast)' \ {1} : Around(m)'
  BY <1>3 DEF AllAround
<1>5. Around(n)'
  BY <1>1, <1>2, <1>4
<1>6. /\ In(n)' \in Open /\ \A m \in Open : m <= In(n)'
      /\ Owner(n)' \in Open /\ HoldsNames(Owner(n))'
      /\ \A m \in Open : HoldsNames(m)' => m <= Owner(n)'
  BY <1>1, <1>5 DEF Around
<1>7. Last(path) \in Open /\ \A m \in Open : m \in Nat /\ m <= Last(path)
  BY <1>1, <1>2, LastIsHighest DEF Open
<1>8. In(n)' = Last(path)
  BY <1>6, <1>7
<1>9. \A m \in Open : KindOf(m)' = KindOf(m) /\ (HoldsNames(m)' <=> HoldsNames(m))
  BY <1>1, <1>2 DEF KindOf, HoldsNames
<1>10. KindOf(In(n))' = KindOf(Last(path))
  BY <1>7, <1>8, <1>9 DEF KindOf
<1>11. HoldsNames(Owner(n)')
  BY <1>6, <1>9 DEF HoldsNames, KindOf
<1> QED
  BY <1>1, <1>2, <1>6, <1>7, <1>8, <1>9, <1>10, <1>11 DEF KindOf

(* What the builder sees of it.                                            *)
LEMMA TopIsInnermost ==
  ASSUME WalkOK, StacksOK, path # <<>>, KindOf(Last(path)) # "overload"
  PROVE  Top = Last(path)
<1>1. /\ path \in Seq(Nat) /\ Ascending(path)
      /\ current_node_stack \in Seq(Nat) /\ Ascending(current_node_stack)
      /\ ToSet(current_node_stack) = OpenIn((Kind \cup {"module"}) \ {"overload"})
  BY DEF WalkOK, StacksOK, Stack
<1>2. Last(path) \in Open /\ \A m \in Open : m \in Nat /\ m <= Last(path)
  BY <1>1, LastIsHighest DEF Open
<1>3. KindOf(Last(path)) \in Kind \cup {"module"}
  BY <1>2 DEF WalkOK, Kind
<1>4. Last(path) \in ToSet(current_node_stack)
  BY <1>1, <1>2, <1>3 DEF OpenIn
<1>5. current_node_stack # <<>>
  BY <1>4 DEF ToSet
<1>6. Top \in ToSet(current_node_stack) /\ Last(path) <= Top
  BY <1>1, <1>4, <1>5, LastIsHighest DEF Top
<1>7. Top \in Open
  BY <1>1, <1>6 DEF OpenIn
<1> QED
  BY <1>2, <1>6, <1>7

LEMMA CurrentIsOwner ==
  ASSUME WalkOK, StacksOK, NEW f \in Open, KindOf(f) \in FunctionScope,
         \A m \in Open : HoldsNames(m) => m <= f
  PROVE  current_function_def # <<>> /\ Current = f /\ InOwnFunction
<1>1. /\ current_function_def \in Seq(Nat) /\ Ascending(current_function_def)
      /\ ToSet(current_function_def) = OpenIn(FunctionScope)
      /\ \A m \in Open : m \in DOMAIN ast /\ m \in Nat
  BY NumbersOfNodes DEF WalkOK, StacksOK, Stack
<1>2. f \in ToSet(current_function_def)
  BY <1>1 DEF OpenIn
<1>3. current_function_def # <<>>
  BY <1>2 DEF ToSet
<1>4. Current \in ToSet(current_function_def) /\ f <= Current
  BY <1>1, <1>2, <1>3, LastIsHighest DEF Current
<1>5. Current \in Open /\ HoldsNames(Current)
  BY <1>1, <1>4 DEF OpenIn, HoldsNames, FunctionScope
<1>6. Current = f
  BY <1>1, <1>4, <1>5
<1> DEFINE H == {m \in Open : KindOf(m) \in FunctionNode \cup {"module"}}
<1>7. H \in SUBSET Nat /\ f \in H /\ \A m \in H : m <= f
  BY <1>1 DEF HoldsNames, FunctionScope
<1> HIDE DEF H
<1>8. Max(H) = f
  BY <1>7, MaxIs
<1>9. Innermost(ToSet(path)) = Max(H)
  BY DEF H, Innermost, Open
<1> QED
  BY <1>3, <1>6, <1>8, <1>9 DEF InOwnFunction
-----------------------------------------------------------------------------
(* What has been referred to is pending as long as its function is open,   *)
(* or is recorded where the properties look for it.                        *)
NoLambdasNest(f) ==
  ~\E k, l \in FunctionNodes :
     /\ Inside(k, l) /\ Inside(l, f) /\ {KindOf(k), KindOf(l)} \subseteq Lambda
NoneTakesTargets(n, f) ==
  ~\E l \in FunctionNodes :
     l > n /\ Inside(l, f) /\ KindOf(l) \in {"assigned lambda", "called lambda"}

CallAtHand(n, f) ==
  \/ f \in Open /\ n \in found.calls
  \/ \E g \in DOMAIN references :
       /\ g = f \/ Inside(g, f)
       /\ n \in references[g].calls
       /\ KindOf(g) = "function" \/ g \in functions
CallSafe(n, f) ==
  KindOf(n) = "call" /\ Inside(n, f) /\ KindOf(In(n)) \in Lambda \cup {"function"}
    /\ NoLambdasNest(f)
  => CallAtHand(n, f)

TargetAtHand(n, f) == n \in references[f].targets \/ (f \in Open /\ n \in found.targets)
TargetSafe(n, f) ==
  Owner(n) = f /\ KindOf(n) \in AssignName \cup {"receiver"}
    /\ KindOf(In(n)) \in Try \cup {"function"} /\ NoneTakesTargets(n, f)
  => TargetAtHand(n, f)

AtHand(n, f, F) == n \in references[f][F] \/ (f \in Open /\ n \in found[F])
PlainSafe(n, f) ==
  Plain(f) /\ Owner(n) = f /\ KindOf(n) \notin Scope /\ Kept(n)
  => AtHand(n, f, Field(KindOf(n)))

IsSafe(n, f) == CallSafe(n, f) /\ TargetSafe(n, f) /\ PlainSafe(n, f)
Safe == \A f \in Defs : \A n \in DOMAIN ast \ {1} : IsSafe(n, f)

IInv == WalkOK /\ StacksOK /\ Safe

(* The builder knows of global variables when the walk has met one.        *)
SomeGlobalMet == \E m \in DOMAIN ast : KindOf(m) = "global target"
GlobalsKnown == SomeGlobalMet => global_variables # {}

(* A step that takes nothing away.                                         *)
ListsWithin(r, s) ==
  r.targets \subseteq s.targets /\ r.values \subseteq s.values /\ r.calls \subseteq s.calls
NothingTaken ==
  /\ \A g \in DOMAIN references : g \in DOMAIN references' /\ ListsWithin(references[g], references'[g])
  /\ ListsWithin(found, found')
  /\ functions \subseteq functions'

LEMMA FieldIsOne ==
  ASSUME NEW kind
  PROVE  Field(kind) \in {"targets", "values", "calls"}
  BY DEF Field

LEMMA FieldsOfKinds ==
  ASSUME NEW kind
  PROVE  /\ kind \in Call => Field(kind) = "calls" /\ kind \notin Target
         /\ kind \in Target => Field(kind) = "targets" /\ kind # "call"
         /\ kind \in Name \cup {"attribute"} =>
              Field(kind) = "values" /\ kind # "call" /\ kind \notin Target
<1>1. kind \in Call => kind \notin Target /\ kind \notin Name \cup {"attribute"}
  BY DEF Call, Target, AssignName, Name
<1>2. kind \in Name \cup {"attribute"} => kind \notin Target
  BY DEF Target, AssignName, Name
<1>3. kind # "call" <=> kind \notin {"call"}
  OBVIOUS
<1>4. "call" \in Call
  BY DEF Call
<1> QED
  BY <1>1, <1>2, <1>4 DEF Field

LEMMA OldStaySafe ==
  ASSUME WalkOK, StacksOK, NEW kind \in Kind, Visit(kind), Open \subseteq Open', NothingTaken,
         NEW f \in Defs, NEW n \in DOMAIN ast \ {1}, IsSafe(n, f)
  PROVE  IsSafe(n, f)'
<1>1. /\ \A m \in DOMAIN ast : ast'[m] = ast[m]
      /\ DOMAIN ast' = DOMAIN ast \cup {New}
  BY VisitFacts
<1>2. /\ KindOf(n)' = KindOf(n) /\ In(n)' = In(n) /\ Owner(n)' = Owner(n)
      /\ KindOf(In(n))' = KindOf(In(n))
      /\ f \in DOMAIN ast /\ KindOf(f) = "function" /\ KindOf(f)' = "function"
  BY <1>1, OldNodes DEF Defs, KindOf
<1>3. \A m \in DOMAIN ast : \A k : Inside(m, k)' <=> Inside(m, k)
  BY <1>1 DEF Inside
<1>4. \A m \in FunctionNodes : m \in DOMAIN ast /\ m \in FunctionNodes' /\ KindOf(m)' = KindOf(m)
  BY <1>1 DEF FunctionNodes, IsFunctionScope, KindOf
<1>5. DOMAIN references = {m \in DOMAIN ast : KindOf(m) \in FunctionScope}
  BY DEF StacksOK
<1>6. f \in DOMAIN references
  BY <1>2, <1>5 DEF FunctionScope, FunctionNode
<1>7. CallSafe(n, f)'
  <2>1. SUFFICES ASSUME KindOf(n) = "call", Inside(n, f), KindOf(In(n)) \in Lambda \cup {"function"},
                        NoLambdasNest(f)'
                 PROVE  CallAtHand(n, f)'
    BY <1>2, <1>3 DEF CallSafe
  <2>2. NoLambdasNest(f)
    BY <1>3, <1>4, <2>1 DEF NoLambdasNest
  <2>3. CallAtHand(n, f)
    BY <2>1, <2>2 DEF IsSafe, CallSafe
  <2>4. CASE f \in Open /\ n \in found.calls
    BY <2>4 DEF CallAtHand, NothingTaken, ListsWithin
  <2>5. CASE \E g \in DOMAIN references :
               /\ g = f \/ Inside(g, f)
               /\ n \in references[g].calls
               /\ KindOf(g) = "function" \/ g \in functions
    <3>1. PICK g \in DOMAIN references :
               /\ g = f \/ Inside(g, f)
               /\ n \in references[g].calls
               /\ KindOf(g) = "function" \/ g \in functions
      BY <2>5
    <3>2. g \in DOMAIN ast /\ KindOf(g)' = KindOf(g)
      BY <1>1, <1>5 DEF KindOf
    <3>3. g \in DOMAIN references' /\ n \in references'[g].calls /\ (g \in functions => g \in functions')
      BY <3>1 DEF NothingTaken, ListsWithin
    <3>4. g = f \/ Inside(g, f)'
      BY <1>3, <3>1, <3>2
    <3> QED BY <3>1, <3>2, <3>3, <3>4 DEF CallAtHand
  <2> QED BY <2>3, <2>4, <2>5 DEF CallAtHand
<1>8. TargetSafe(n, f)'
  <2>1. SUFFICES ASSUME Owner(n) = f, KindOf(n) \in AssignName \cup {"receiver"},
                        KindOf(In(n)) \in Try \cup {"function"}, NoneTakesTargets(n, f)'
                 PROVE  TargetAtHand(n, f)'
    BY <1>2 DEF TargetSafe
  <2>2. NoneTakesTargets(n, f)
    BY <1>3, <1>4, <2>1 DEF NoneTakesTargets
  <2>3. TargetAtHand(n, f)
    BY <2>1, <2>2 DEF IsSafe, TargetSafe
  <2> QED BY <1>6, <2>3 DEF TargetAtHand, NothingTaken, ListsWithin
<1>9. PlainSafe(n, f)'
  <2>1. Kept(n)' <=> Kept(n)
    <3>1. GlobalMet(n)' <=> GlobalMet(n)
      <4>1. n \in Nat /\ New \in Nat /\ n < New /\ ~(New < n)
        BY NumbersOfNodes
      <4>2. \A m \in DOMAIN ast : KindOf(m)' = KindOf(m)
        BY <1>1 DEF KindOf
      <4> QED BY <1>1, <4>1, <4>2 DEF GlobalMet
    <3> QED BY <1>2, <3>1 DEF Kept
  <2>2. SUFFICES ASSUME Plain(f)', Owner(n) = f, KindOf(n) \notin Scope, Kept(n)
                 PROVE  AtHand(n, f, Field(KindOf(n)))'
    BY <1>2, <2>1 DEF PlainSafe
  <2>3. Plain(f)
    BY <1>3, <1>4, <2>2 DEF Plain
  <2> DEFINE F == Field(KindOf(n))
  <2>4. AtHand(n, f, F)
    BY <2>2, <2>3 DEF IsSafe, PlainSafe
  <2>5. F \in {"targets", "values", "calls"} /\ F' = F
    BY <1>2, FieldIsOne
  <2> HIDE DEF F
  <2>6. references[f][F] \subseteq references'[f][F] /\ found[F] \subseteq found'[F]
    BY <1>6, <2>5 DEF NothingTaken, ListsWithin
  <2>7. n \in references'[f][F] \/ (f \in Open' /\ n \in found'[F])
    BY <2>4, <2>6 DEF AtHand
  <2> QED BY <2>5, <2>7 DEF AtHand, F
<1> QED
  BY <1>7, <1>8, <1>9 DEF IsSafe

(* It is enough to look at the node that is entered.                       *)
LEMMA EnterSafe ==
  ASSUME IInv, WalkOK', NEW kind \in Kind, Visit(kind), Open \subseteq Open', NothingTaken,
         NEW x, x = New, kind \notin Scope => \A f \in Defs : IsSafe(x, f)'
  PROVE  Safe'
<1>1. /\ \A m \in DOMAIN ast : ast'[m] = ast[m]
      /\ DOMAIN ast' = DOMAIN ast \cup {x} /\ x \notin DOMAIN ast
      /\ x \in Nat /\ \A m \in DOMAIN ast : m < x
  BY VisitFacts, NumbersOfNodes DEF IInv
<1>2. KindOf(x)' = kind /\ x # 1
  BY NewNode DEF IInv
<1>3. ASSUME NEW f \in Defs', NEW n \in DOMAIN ast' \ {1} PROVE IsSafe(n, f)'
  <2>1. f \in DOMAIN ast'
    BY DEF Defs
  <2>2. CASE f \in DOMAIN ast
    <3>1. f \in Defs
      BY <1>1, <2>2 DEF Defs, KindOf
    <3>2. CASE n \in DOMAIN ast
      <4>1. IsSafe(n, f)
        BY <3>1, <3>2 DEF IInv, Safe
      <4> QED BY <3>1, <3>2, <4>1, OldStaySafe DEF IInv
    <3>3. CASE n = x /\ kind \notin Scope
      BY <3>1, <3>3
    <3>4. CASE n = x /\ kind \in Scope
      <4>1. KindOf(n)' \in Scope
        BY <1>2, <3>4
      <4>2. KindOf(n)' # "call" /\ KindOf(n)' \notin AssignName \cup {"receiver"}
        BY <4>1 DEF Scope, FunctionNode, Lambda, Try, AssignName
      <4> QED BY <4>1, <4>2 DEF IsSafe, CallSafe, TargetSafe, PlainSafe
    <3> QED BY <1>1, <3>2, <3>3, <3>4
  <2>3. CASE f = x
    <3>1. \A k \in DOMAIN ast' : k \in Nat /\ k <= x
      BY <1>1, NumbersOfNodes DEF IInv
    <3>2. ast'[n].within \subseteq 1 .. n - 1
      BY DEF WalkOK
    <3>3. f \notin ast'[n].within
      BY <1>1, <2>3, <3>1, <3>2
    <3>4. (WalkOK => AllAround)'
      BY AroundFacts, PTL
    <3>5. Around(n)'
      BY <3>4 DEF AllAround
    <3>6. Owner(n)' # f /\ ~Inside(n, f)'
      BY <3>3, <3>5 DEF Around, Inside
    <3> QED BY <3>6 DEF IsSafe, CallSafe, TargetSafe, PlainSafe
  <2> QED BY <1>1, <2>1, <2>2, <2>3
<1> QED
  BY <1>3 DEF Safe

LEMMA PassStacks ==
  ASSUME WalkOK, StacksOK, NEW kind \in Kind \ Scope, Pass(kind),
         UNCHANGED <<functions, current_node_stack, current_function_def>>,
         references' \in [DOMAIN references -> Lists], found' \in Lists
  PROVE  StacksOK'
<1>1. Visit(kind) /\ Open' = Open
  BY PassWalk DEF Pass
<1>2. /\ \A m \in DOMAIN ast : ast'[m] = ast[m]
      /\ DOMAIN ast' = DOMAIN ast \cup {New} /\ ast'[New].kind = kind
  BY <1>1, VisitFacts
<1>3. OpenIn((Kind \cup {"module"}) \ {"overload"})' = OpenIn((Kind \cup {"module"}) \ {"overload"})
  BY SameStack
<1>4. OpenIn(FunctionScope)' = OpenIn(FunctionScope)
  BY SameStack
<1>5. kind \notin FunctionScope /\ kind # "function"
  BY DEF FunctionScope, Scope, FunctionNode
<1>6. {n \in DOMAIN ast : KindOf(n) \in FunctionScope}' = {n \in DOMAIN ast : KindOf(n) \in FunctionScope}
  BY <1>2, <1>5 DEF KindOf
<1>7. references' \in [{n \in DOMAIN ast : KindOf(n) \in FunctionScope}' -> Lists]
  BY <1>6 DEF StacksOK
<1>8. \A f \in DOMAIN ast' : KindOf(f)' = "function" => f \in functions' \/ f \in Open'
  BY <1>1, <1>2, <1>5 DEF StacksOK, KindOf
<1> QED
  BY <1>3, <1>4, <1>7, <1>8 DEF StacksOK, Stack

(* A node without children that is entered in a function.                  *)
Owns(f) == f \in Open /\ \A m \in Open : HoldsNames(m) => m <= f
IsTaken(x, f, kind) ==
  LET p == Last(path)  F == Field(kind)
  IN  /\ kind = "call" /\ KindOf(p) \in Lambda \cup {"function"} => x \in found'.calls
      /\ Owns(f) /\ kind \in AssignName \cup {"receiver"} /\ KindOf(p) \in Try \cup {"function"}
           => x \in found'.targets
      /\ Owns(f) /\ kind \notin Ignored
         /\ \/ p = f
            \/ kind = "call" /\ KindOf(p) \in Try \cup {"comprehension"}
            \/ kind \in AssignName \cup {"receiver"} /\ KindOf(p) \in Try
            \/ kind = "global" /\ KindOf(p) = "comprehension" /\ SomeGlobalMet
           => x \in references'[f][F] \/ x \in found'[F]

LEMMA PassKeeps ==
  ASSUME IInv, NEW kind \in Kind \ Scope, Pass(kind),
         UNCHANGED <<functions, current_node_stack, current_function_def>>,
         references' \in [DOMAIN references -> Lists], found' \in Lists, NothingTaken,
         NEW x, x = New, \A f \in Defs : IsTaken(x, f, kind)
  PROVE  IInv'
<1>1. WalkOK' /\ Open' = Open /\ Visit(kind)
  BY PassWalk DEF IInv, Pass
<1>2. StacksOK'
  BY PassStacks DEF IInv
<1> DEFINE p == Last(path)
<1>3. /\ x # 1 /\ KindOf(x)' = kind /\ ast'[x].within = Open
      /\ p \in Open /\ In(x)' = p /\ KindOf(In(x))' = KindOf(p)
      /\ \A m \in Open : m \in Nat /\ m <= p
      /\ Owner(x)' \in Open /\ HoldsNames(Owner(x)')
      /\ \A m \in Open : HoldsNames(m) => m <= Owner(x)'
  BY <1>1, NewNode DEF IInv
<1>4. ASSUME NEW f \in Defs PROVE IsSafe(x, f)'
  <2>1. Owner(x)' = f => Owns(f)
    BY <1>3 DEF Owns
  <2>2. Inside(x, f)' => f \in Open
    BY <1>3 DEF Inside
  <2>3. IsTaken(x, f, kind)
    OBVIOUS
  <2>4. CallSafe(x, f)'
    BY <1>1, <1>3, <2>2, <2>3 DEF CallSafe, CallAtHand, IsTaken
  <2>5. TargetSafe(x, f)'
    BY <1>1, <1>3, <2>1, <2>3 DEF TargetSafe, TargetAtHand, IsTaken, Owns
  <2>6. PlainSafe(x, f)'
    <3>1. SUFFICES ASSUME Owner(x)' = f, Kept(x)' PROVE AtHand(x, f, Field(KindOf(x)))'
      BY DEF PlainSafe
    <3>2. KindOf(p) \in Scope \cup {"module"}
      BY <1>3 DEF IInv, WalkOK
    <3>3. \/ p = f
          \/ kind = "call" /\ KindOf(p) # "class"
          \/ kind \in AssignName \cup {"receiver"} /\ KindOf(p) \in Try
          \/ kind = "global" /\ KindOf(p) = "comprehension" /\ GlobalMet(x)'
      BY <1>3, <3>1 DEF Kept
    <3>4. HoldsNames(p) => p = f
      BY <1>3, <2>1, <3>1 DEF Owns
    <3>5. \/ p = f
          \/ kind = "call" /\ KindOf(p) \in Try \cup {"comprehension"}
          \/ kind \in AssignName \cup {"receiver"} /\ KindOf(p) \in Try
          \/ kind = "global" /\ KindOf(p) = "comprehension" /\ SomeGlobalMet
      <4>1. GlobalMet(x)' => SomeGlobalMet
        <5>1. /\ DOMAIN ast' = DOMAIN ast \cup {x} /\ x \in Nat
              /\ \A m \in DOMAIN ast : KindOf(m)' = KindOf(m)
          BY <1>1, VisitFacts, NumbersOfNodes DEF KindOf, IInv
        <5>2. GlobalMet(x)' <=> \E m \in DOMAIN ast' : m < x /\ KindOf(m)' = "global target"
          BY DEF GlobalMet
        <5>3. ~(x < x)
          BY <5>1
        <5> QED BY <5>1, <5>2, <5>3 DEF SomeGlobalMet
      <4> QED BY <3>2, <3>3, <3>4, <4>1 DEF HoldsNames, Scope
    <3>9. kind \notin Ignored
      BY <1>3, <3>1 DEF Kept
    <3>6. x \in references'[f][Field(kind)] \/ x \in found'[Field(kind)]
      BY <2>1, <2>3, <3>1, <3>5, <3>9 DEF IsTaken
    <3>7. f \in Open' /\ Field(KindOf(x))' = Field(kind)
      BY <1>1, <1>3, <2>1, <3>1 DEF Owns, Field
    <3> QED BY <3>6, <3>7 DEF AtHand
  <2> QED BY <2>4, <2>5, <2>6 DEF IsSafe
<1>5. Safe'
  BY <1>1, <1>4, EnterSafe
<1> QED
  BY <1>1, <1>2, <1>5 DEF IInv

(* Where the innermost function or lambda is a function definition, the    *)
(* builder knows it, whatever scopes are open in it.                       *)
LEMMA OwnerIsCurrent ==
  ASSUME WalkOK, StacksOK, NEW f \in Defs, Owns(f)
  PROVE  /\ current_function_def # <<>> /\ Current = f /\ InOwnFunction
         /\ f \in DOMAIN references /\ KindOf(f) = "function"
<1>1. KindOf(f) = "function" /\ f \in Open /\ f \in DOMAIN ast
  BY DEF Defs, Owns
<1>2. KindOf(f) \in FunctionScope
  BY <1>1 DEF FunctionScope, FunctionNode
<1>3. f \in DOMAIN references
  BY <1>1, <1>2 DEF StacksOK
<1> QED
  BY <1>1, <1>2, <1>3, CurrentIsOwner DEF Owns

LEMMA TopIn ==
  ASSUME WalkOK, StacksOK, path # <<>>,
         KindOf(Last(path)) \in Lambda \cup {"function", "comprehension"} \cup Try
  PROVE  Top = Last(path) /\ KindOf(Top) = KindOf(Last(path))
         /\ (KindOf(Top) \in Lambda \cup {"function"} => IsFunctionScope(Top))
<1>1. KindOf(Last(path)) # "overload"
  BY DEF Lambda, Try
<1>2. Top = Last(path)
  BY <1>1, TopIsInnermost
<1> QED
  BY <1>2 DEF IsFunctionScope, FunctionNode

(* Found, whatever is credited to whom.                                    *)
LEMMA SameReferences ==
  ASSUME StacksOK, UNCHANGED <<references, functions>>,
         ListsWithin(found, found')
  PROVE  NothingTaken /\ references' \in [DOMAIN references -> Lists]
  BY DEF NothingTaken, ListsWithin, StacksOK

(* A call is found in a function, or credited to the function around it.   *)
LEMMA EnterCallKeeps ==
  ASSUME IInv, NEW kind, EnterCall(kind)
  PROVE  IInv'
<1>1. kind \in Call /\ kind \in Kind \ Scope /\ Pass(kind) /\ path # <<>>
  BY DEF EnterCall, Pass, Visit, Call, Kind, Scope, FunctionNode, Lambda, Try
<1>2. PICK x : x = New
  OBVIOUS
<1>3. x \in Nat /\ WalkOK /\ StacksOK
  BY <1>2, NumbersOfNodes DEF IInv
<1>4. found' = FoundIf(IsFunctionScope(Top), "calls", x)
  BY <1>2 DEF EnterCall
<1>5. /\ found' \in Lists /\ ListsWithin(found, found')
      /\ IsFunctionScope(Top) => x \in found'.calls
  BY <1>3, <1>4, FoundIfFacts DEF ListsWithin, StacksOK
<1> DEFINE new == [Nothing EXCEPT !.calls = {x}]
           credited == KindOf(Top) \in KeptAnyway(kind) /\ current_function_def # <<>>
           D == DOMAIN references
<1>6. new \in Lists /\ new.calls = {x}
  BY <1>3 DEF Nothing, Lists
<1>7. references' = IF credited THEN Credit(Current, new) ELSE references
  BY <1>2 DEF EnterCall
<1>8. credited => Current \in D
  <2>1. SUFFICES ASSUME current_function_def # <<>> PROVE Current \in D
    OBVIOUS
  <2>2. Current \in ToSet(current_function_def)
    BY <2>1, LastIsHighest DEF Current, IInv, StacksOK, Stack
  <2>3. Current \in OpenIn(FunctionScope)
    BY <2>2 DEF IInv, StacksOK, Stack
  <2> QED BY <2>3 DEF OpenIn, IInv, StacksOK, WalkOK
<1> HIDE DEF new, credited, D
<1>9. /\ references \in [D -> Lists] /\ references' \in [D -> Lists]
      /\ \A g \in D : ListsWithin(references[g], references'[g])
      /\ credited => x \in references'[Current].calls
  <2>1. references \in [D -> Lists]
    BY DEF IInv, StacksOK, D
  <2>2. CASE ~credited
    BY <1>7, <2>1, <2>2 DEF ListsWithin
  <2>3. CASE credited
    <3>1. Current \in D
      BY <1>8, <2>3
    <3>2. /\ references' \in [D -> Lists]
          /\ references'[Current] = Plus(references[Current], new)
          /\ \A g \in D \ {Current} : references'[g] = references[g]
      BY <1>6, <1>7, <2>1, <2>3, <3>1, CreditFacts
    <3>3. ListsWithin(references[Current], references'[Current]) /\ x \in references'[Current].calls
      BY <1>6, <2>1, <3>1, <3>2, PlusFacts DEF ListsWithin
    <3> QED BY <2>1, <3>2, <3>3 DEF ListsWithin
  <2> QED BY <2>2, <2>3
<1>10. NothingTaken
  BY <1>5, <1>9 DEF NothingTaken, D, EnterCall
<1>11. ASSUME NEW f \in Defs PROVE IsTaken(x, f, kind)
  <2> DEFINE p == Last(path)
  <2>1. Field(kind) = "calls" /\ kind \notin AssignName \cup {"receiver"} /\ kind # "global"
    BY <1>1, FieldsOfKinds DEF Target, Call
  <2>2. KindOf(p) \in Lambda \cup {"function"} => x \in found'.calls
    BY <1>1, <1>3, <1>5, TopIn
  <2>3. p = f => x \in found'.calls
    BY <2>2 DEF Defs
  <2>4. ASSUME Owns(f), kind = "call", KindOf(p) \in Try \cup {"comprehension"}
        PROVE  x \in references'[f].calls
    <3>1. credited
      BY <1>1, <1>3, <2>4, TopIn, OwnerIsCurrent DEF credited, KeptAnyway
    <3> QED BY <1>3, <1>9, <2>4, <3>1, OwnerIsCurrent
  <2> QED BY <2>1, <2>2, <2>3, <2>4 DEF IsTaken
<1>12. UNCHANGED <<functions, current_node_stack, current_function_def>>
  BY DEF EnterCall
<1> QED
  BY <1>1, <1>2, <1>5, <1>9, <1>10, <1>11, <1>12, PassKeeps DEF D

(* The other nodes without children leave what is recorded alone.          *)
LEMMA EnterFound ==
  ASSUME IInv, NEW kind \in Kind \ Scope, Pass(kind), kind # "call",
         UNCHANGED <<references, functions, current_node_stack, current_function_def>>,
         NEW field \in {"targets", "values", "calls"}, NEW condition,
         NEW x, x = New, found' = FoundIf(condition, field, x),
         \A f \in Defs : IsTaken(x, f, kind)
  PROVE  IInv'
<1>1. x \in Nat /\ WalkOK /\ StacksOK /\ found \in Lists
  BY NumbersOfNodes DEF IInv, StacksOK
<1>2. found' \in Lists /\ ListsWithin(found, found')
  BY <1>1, FoundIfFacts DEF ListsWithin
<1>3. NothingTaken /\ references' \in [DOMAIN references -> Lists]
  BY <1>1, <1>2, SameReferences
<1> QED
  BY <1>2, <1>3, PassKeeps

LEMMA EnterNameKeeps ==
  ASSUME IInv, GlobalsKnown, NEW kind, EnterName(kind)
  PROVE  IInv'
<1> DEFINE kept == KindOf(Top) = "comprehension" => kind = "global" /\ global_variables # {}
<1>1. /\ kind \in Name /\ kind \in Kind \ Scope /\ Pass(kind) /\ path # <<>>
      /\ kind # "call" /\ kind \notin AssignName \cup {"receiver"} /\ Field(kind) = "values"
  <2>1. kind \in Name
    BY DEF EnterName
  <2> QED BY <2>1, FieldsOfKinds DEF EnterName, Pass, Visit, Name, Kind, Scope, FunctionNode, Lambda, Try, Target
<1>2. PICK x : x = New
  OBVIOUS
<1>3. x \in Nat /\ WalkOK /\ StacksOK /\ found \in Lists
  BY <1>2, NumbersOfNodes DEF IInv, StacksOK
<1>4. found' = FoundIf(InOwnFunction /\ kept, "values", x)
  BY <1>2 DEF EnterName
<1> HIDE DEF kept
<1>5. InOwnFunction /\ kept => x \in found'.values
  BY <1>3, <1>4, FoundIfFacts
<1>6. ASSUME NEW f \in Defs PROVE IsTaken(x, f, kind)
  <2>1. ASSUME Owns(f), Last(path) = f PROVE x \in found'.values
    <3>1. KindOf(Last(path)) = "function"
      BY <2>1 DEF Defs
    <3>2. KindOf(Top) = "function"
      BY <1>1, <1>3, <3>1, TopIn
    <3>3. kept
      BY <3>2 DEF kept
    <3> QED BY <1>3, <1>5, <2>1, <3>3, OwnerIsCurrent
  <2>2. ASSUME Owns(f), kind = "global", SomeGlobalMet PROVE x \in found'.values
    <3>1. kept
      BY <2>2 DEF kept, GlobalsKnown
    <3> QED BY <1>3, <1>5, <2>2, <3>1, OwnerIsCurrent
  <2> QED BY <1>1, <2>1, <2>2 DEF IsTaken
<1> QED
  BY <1>1, <1>2, <1>4, <1>6, EnterFound DEF EnterName

(* What is passed over changes nothing.                                    *)
LEMMA EnterIgnoredKeeps ==
  ASSUME IInv, NEW kind, EnterIgnored(kind)
  PROVE  IInv'
<1>1. /\ kind \in Ignored /\ kind \in Kind \ Scope /\ Pass(kind)
      /\ kind # "call" /\ kind \notin AssignName \cup {"receiver"}
      /\ UNCHANGED <<references, functions, current_node_stack, current_function_def, found>>
  BY DEF EnterIgnored, Unseen, Ignored, Kind, Scope, FunctionNode, Lambda, Try, AssignName
<1>2. PICK x : x = New
  OBVIOUS
<1>3. StacksOK /\ found \in Lists
  BY DEF IInv, StacksOK
<1>4. NothingTaken /\ references' \in [DOMAIN references -> Lists] /\ found' \in Lists
  BY <1>1, <1>3, SameReferences DEF ListsWithin
<1>5. \A f \in Defs : IsTaken(x, f, kind)
  BY <1>1 DEF IsTaken
<1> QED
  BY <1>1, <1>2, <1>4, <1>5, PassKeeps

LEMMA EnterAttributeKeeps ==
  ASSUME IInv, NEW kind, EnterAttribute(kind)
  PROVE  IInv'
<1>1. /\ kind \in {"attribute", "subscripted"} /\ kind \in Kind \ Scope /\ Pass(kind) /\ path # <<>>
      /\ kind # "call" /\ kind \notin AssignName \cup {"receiver"}
      /\ UNCHANGED <<references, functions, current_node_stack, current_function_def>>
  BY DEF EnterAttribute, Pass, Visit, Attribute, Kind, Scope, FunctionNode, Lambda, Try, AssignName
<1> kind # "global"
  BY <1>1
<1>2. PICK x : x = New
  OBVIOUS
<1>3. x \in Nat /\ WalkOK /\ StacksOK /\ found \in Lists
  BY <1>2, NumbersOfNodes DEF IInv, StacksOK
<1>4. CASE kind = "attribute"
  <2>1. found' = FoundIf(TRUE, "values", x)
    BY <1>2, <1>4 DEF EnterAttribute, FoundIf
  <2>2. x \in found'.values
    BY <1>3, <2>1, FoundIfFacts
  <2>3. Field(kind) = "values"
    BY <1>4, FieldsOfKinds
  <2>4. \A f \in Defs : IsTaken(x, f, kind)
    BY <1>1, <2>2, <2>3 DEF IsTaken
  <2> QED BY <1>1, <1>2, <2>1, <2>4, EnterFound
<1>5. CASE kind = "subscripted"
  <2>1. found' = FoundIf(IsFunctionScope(Top), "targets", x)
    BY <1>2, <1>5 DEF EnterAttribute
  <2>2. IsFunctionScope(Top) => x \in found'.targets
    BY <1>3, <2>1, FoundIfFacts
  <2>3. Field(kind) = "targets"
    BY <1>5, FieldsOfKinds DEF Target
  <2>4. ASSUME NEW f \in Defs PROVE IsTaken(x, f, kind)
    <3>1. Last(path) = f => x \in found'.targets
      BY <1>1, <1>3, <2>2, TopIn DEF Defs
    <3> QED BY <1>1, <2>3, <3>1 DEF IsTaken
  <2> QED BY <1>1, <1>2, <2>1, <2>4, EnterFound
<1> QED
  BY <1>1, <1>4, <1>5

LEMMA EnterReceiverKeeps ==
  ASSUME IInv, EnterReceiver
  PROVE  IInv'
<1>1. /\ "receiver" \in Kind \ Scope /\ Pass("receiver")
      /\ UNCHANGED <<references, functions, current_node_stack, current_function_def>>
  BY DEF EnterReceiver, Attribute, Kind, Scope, FunctionNode, Lambda, Try
<1>2. PICK x : x = New
  OBVIOUS
<1>3. x \in Nat /\ WalkOK /\ StacksOK /\ found \in Lists
  BY <1>2, NumbersOfNodes DEF IInv, StacksOK
<1>4. found' = FoundIf(TRUE, "targets", x)
  BY <1>2 DEF EnterReceiver, FoundIf
<1>5. x \in found'.targets
  BY <1>3, <1>4, FoundIfFacts
<1>6. Field("receiver") = "targets"
  BY FieldsOfKinds DEF Target
<1>7. \A f \in Defs : IsTaken(x, f, "receiver")
  BY <1>5, <1>6 DEF IsTaken
<1> QED
  BY <1>1, <1>2, <1>4, <1>7, EnterFound

LEMMA EnterAssignNameKeeps ==
  ASSUME IInv, NEW kind, EnterAssignName(kind)
  PROVE  IInv'
<1> DEFINE kept == IsFunctionScope(Top) \/ (KindOf(Top) \in Try /\ InOwnFunction)
<1>1. /\ kind \in AssignName /\ kind \in Kind \ Scope /\ Pass(kind) /\ path # <<>>
      /\ kind # "call" /\ kind # "global"
      /\ UNCHANGED <<references, functions, current_node_stack, current_function_def>>
  BY DEF EnterAssignName, NewChild, Pass, Visit, Kind, Scope, FunctionNode, Lambda, Try, AssignName
<1>2. PICK x : x = New
  OBVIOUS
<1>3. x \in Nat /\ WalkOK /\ StacksOK /\ found \in Lists
  BY <1>2, NumbersOfNodes DEF IInv, StacksOK
<1>4. found' = FoundIf(kept, "targets", x)
  BY <1>2 DEF EnterAssignName
<1> HIDE DEF kept
<1>5. kept => x \in found'.targets
  BY <1>3, <1>4, FoundIfFacts
<1>6. Field(kind) = "targets"
  BY <1>1, FieldsOfKinds DEF Target
<1>7. ASSUME NEW f \in Defs PROVE IsTaken(x, f, kind)
  <2>1. ASSUME Owns(f), KindOf(Last(path)) \in Try \cup {"function"} PROVE x \in found'.targets
    <3>1. KindOf(Top) = KindOf(Last(path)) /\ (KindOf(Top) = "function" => IsFunctionScope(Top))
      BY <1>1, <1>3, <2>1, TopIn
    <3>2. InOwnFunction
      BY <1>3, <2>1, OwnerIsCurrent
    <3> QED BY <1>5, <2>1, <3>1, <3>2 DEF kept
  <2>2. Last(path) = f => KindOf(Last(path)) = "function"
    BY DEF Defs
  <2> QED BY <1>1, <1>6, <2>1, <2>2 DEF IsTaken
<1> QED
  BY <1>1, <1>2, <1>4, <1>7, EnterFound

LEMMA EnterAssignAttrKeeps ==
  ASSUME IInv, EnterAssignAttr
  PROVE  IInv'
<1>1. /\ "member" \in Kind \ Scope /\ Pass("member") /\ path # <<>>
      /\ "member" \notin AssignName \cup {"receiver"}
      /\ UNCHANGED <<references, functions, current_node_stack, current_function_def>>
  BY DEF EnterAssignAttr, NewChild, Pass, Visit, Attribute, Kind, Scope, FunctionNode, Lambda, Try, AssignName
<1>2. PICK x : x = New
  OBVIOUS
<1>3. x \in Nat /\ WalkOK /\ StacksOK /\ found \in Lists
  BY <1>2, NumbersOfNodes DEF IInv, StacksOK
<1>4. found' = FoundIf(IsFunctionScope(Top), "targets", x)
  BY <1>2 DEF EnterAssignAttr
<1>5. IsFunctionScope(Top) => x \in found'.targets
  BY <1>3, <1>4, FoundIfFacts
<1>6. Field("member") = "targets"
  BY FieldsOfKinds DEF Target
<1>7. ASSUME NEW f \in Defs PROVE IsTaken(x, f, "member")
  <2>1. Last(path) = f => x \in found'.targets
    BY <1>1, <1>3, <1>5, TopIn DEF Defs
  <2> QED BY <1>1, <1>6, <2>1 DEF IsTaken
<1> QED
  BY <1>1, <1>2, <1>4, <1>7, EnterFound
-----------------------------------------------------------------------------
(* Scopes are entered.                                                     *)
LEMMA EnterKeeps ==
  ASSUME IInv, NEW kind \in Scope, Enter(kind), UNCHANGED <<functions, found>>,
         kind # "overload" => current_node_stack' = Append(current_node_stack, New),
         kind = "overload" => UNCHANGED current_node_stack,
         kind \in FunctionScope =>
           /\ current_function_def' = Append(current_function_def, New)
           /\ references' = [f \in DOMAIN references \cup {New} |->
                              IF f = New THEN Nothing ELSE references[f]],
         kind \notin FunctionScope => UNCHANGED <<current_function_def, references>>
  PROVE  IInv'
<1> DEFINE kinds == (Kind \cup {"module"}) \ {"overload"}
           D == {n \in DOMAIN ast : KindOf(n) \in FunctionScope}
<1>1. kind \in Kind /\ Visit(kind) /\ (kind # "overload" => kind \in kinds)
  BY DEF Enter, Kind
<1>2. WalkOK /\ StacksOK /\ WalkOK' /\ Open' = Open \cup {New}
  BY EnterWalk DEF IInv
<1>3. /\ \A m \in DOMAIN ast : ast'[m] = ast[m]
      /\ DOMAIN ast' = DOMAIN ast \cup {New} /\ ast'[New].kind = kind
  BY <1>1, <1>2, VisitFacts
<1>4. New \notin DOMAIN ast
  BY <1>2, NumbersOfNodes
<1>5. /\ current_node_stack' \in Seq(Nat) /\ Ascending(current_node_stack')
      /\ ToSet(current_node_stack') = OpenIn(kinds)'
  <2>1. Stack(current_node_stack, kinds)
    BY <1>2 DEF StacksOK
  <2> HIDE DEF kinds
  <2>2. CASE kind = "overload"
    <3>1. kind \notin kinds
      BY <2>2 DEF kinds
    <3>2. OpenIn(kinds)' = OpenIn(kinds)
      BY <1>1, <1>2, <3>1, SameStack
    <3> QED BY <2>1, <2>2, <3>2 DEF Stack
  <2>3. CASE kind # "overload"
    BY <1>1, <1>2, <2>1, <2>3, PushStack
  <2> QED BY <2>2, <2>3
<1>6. /\ current_function_def' \in Seq(Nat) /\ Ascending(current_function_def')
      /\ ToSet(current_function_def') = OpenIn(FunctionScope)'
  <2>1. Stack(current_function_def, FunctionScope)
    BY <1>2 DEF StacksOK
  <2>2. CASE kind \in FunctionScope
    BY <1>2, <2>1, <2>2, PushStack
  <2>3. CASE kind \notin FunctionScope
    <3>1. OpenIn(FunctionScope)' = OpenIn(FunctionScope)
      BY <1>1, <1>2, <2>3, SameStack
    <3> QED BY <2>1, <2>3, <3>1 DEF Stack
  <2> QED BY <2>2, <2>3
<1>7. references \in [D -> Lists] /\ New \notin D
  BY <1>2, <1>4 DEF StacksOK
<1>8. /\ references' \in [{n \in DOMAIN ast : KindOf(n) \in FunctionScope}' -> Lists]
      /\ \A f \in D : f \in DOMAIN references' /\ references'[f] = references[f]
  <2>1. CASE kind \in FunctionScope
    <3>1. {n \in DOMAIN ast : KindOf(n) \in FunctionScope}' = D \cup {New}
      BY <1>3, <2>1 DEF KindOf
    <3> HIDE DEF D
    <3>2. references' \in [D \cup {New} -> Lists] /\ \A f \in D : references'[f] = references[f]
      BY <1>7, <2>1, NothingFacts
    <3> QED BY <3>1, <3>2
  <2>2. CASE kind \notin FunctionScope
    <3>1. {n \in DOMAIN ast : KindOf(n) \in FunctionScope}' = D
      BY <1>3, <2>2 DEF KindOf
    <3> QED BY <1>7, <2>2, <3>1
  <2> QED BY <2>1, <2>2
<1>9. \A f \in DOMAIN ast' : KindOf(f)' = "function" => f \in functions' \/ f \in Open'
  BY <1>2, <1>3 DEF StacksOK, KindOf
<1>10. StacksOK'
  BY <1>2, <1>5, <1>6, <1>8, <1>9 DEF StacksOK, Stack
<1>11. NothingTaken
  BY <1>7, <1>8 DEF NothingTaken, ListsWithin
<1>12. PICK x : x = New
  OBVIOUS
<1>13. Safe'
  BY <1>1, <1>2, <1>11, <1>12, EnterSafe
<1> QED
  BY <1>2, <1>10, <1>13 DEF IInv

LEMMA EnterScopeKeeps ==
  ASSUME IInv, NEW kind, EnterScope(kind)
  PROVE  IInv'
<1>1. kind \in Scope /\ kind # "overload" /\ kind \notin FunctionScope
  BY DEF EnterScope, Scope, FunctionScope, FunctionNode, Lambda, Try
<1>2. /\ Enter(kind) /\ UNCHANGED <<functions, found, references, current_function_def>>
      /\ current_node_stack' = Append(current_node_stack, New)
  BY DEF EnterScope, Push
<1> QED
  BY <1>1, <1>2, EnterKeeps

LEMMA PushFunctionKeeps ==
  ASSUME IInv, NEW kind \in Lambda \cup {"function"}, Enter(kind), PushFunction
  PROVE  IInv'
<1>1. kind \in Scope /\ kind # "overload" /\ kind \in FunctionScope
  BY DEF Scope, FunctionScope, FunctionNode, Lambda, Try
<1>2. /\ UNCHANGED <<functions, found>>
      /\ current_node_stack' = Append(current_node_stack, New)
      /\ current_function_def' = Append(current_function_def, New)
      /\ references' = [f \in DOMAIN references \cup {New} |->
                         IF f = New THEN Nothing ELSE references[f]]
  BY DEF PushFunction, Push
<1> QED
  BY <1>1, <1>2, EnterKeeps

LEMMA EnterOverloadKeeps ==
  ASSUME IInv, EnterOverload
  PROVE  IInv'
<1>1. "overload" \in Scope /\ "overload" \notin FunctionScope
  BY DEF Scope, FunctionScope, FunctionNode
<1>2. Enter("overload") /\ UNCHANGED <<functions, found, references, current_function_def, current_node_stack>>
  BY DEF EnterOverload, Unseen
<1> QED
  BY <1>1, <1>2, EnterKeeps
-----------------------------------------------------------------------------
(* Scopes are left.                                                        *)
LEMMA LeaveStacks ==
  ASSUME WalkOK, StacksOK, NEW n, Leave(n),
         KindOf(n) # "overload" => current_node_stack' = Front(current_node_stack),
         KindOf(n) = "overload" => UNCHANGED current_node_stack,
         KindOf(n) \in FunctionScope => current_function_def' = Front(current_function_def),
         KindOf(n) \notin FunctionScope => UNCHANGED current_function_def,
         references' \in [DOMAIN references -> Lists], found' \in Lists,
         functions \subseteq functions', KindOf(n) = "function" => n \in functions'
  PROVE  StacksOK'
<1> DEFINE kinds == (Kind \cup {"module"}) \ {"overload"}
<1>1. Open' = Open \ {n} /\ n \in Open /\ ast' = ast
  BY LeaveWalk DEF Leave
<1>2. KindOf(n) \in Kind \cup {"module"}
  BY <1>1 DEF WalkOK, Kind
<1>3. /\ current_node_stack' \in Seq(Nat) /\ Ascending(current_node_stack')
      /\ ToSet(current_node_stack') = OpenIn(kinds)'
  <2>1. Stack(current_node_stack, kinds) /\ (KindOf(n) # "overload" <=> KindOf(n) \in kinds)
    BY <1>2 DEF StacksOK
  <2> HIDE DEF kinds
  <2>2. CASE KindOf(n) \in kinds
    BY <2>1, <2>2, PopStack
  <2>3. CASE KindOf(n) \notin kinds
    <3>1. OpenIn(kinds)' = OpenIn(kinds)
      BY <2>3, StackStays
    <3> QED BY <2>1, <2>3, <3>1 DEF Stack
  <2> QED BY <2>2, <2>3
<1>4. /\ current_function_def' \in Seq(Nat) /\ Ascending(current_function_def')
      /\ ToSet(current_function_def') = OpenIn(FunctionScope)'
  <2>1. Stack(current_function_def, FunctionScope)
    BY DEF StacksOK
  <2>2. CASE KindOf(n) \in FunctionScope
    BY <2>1, <2>2, PopStack
  <2>3. CASE KindOf(n) \notin FunctionScope
    <3>1. OpenIn(FunctionScope)' = OpenIn(FunctionScope)
      BY <2>3, StackStays
    <3> QED BY <2>1, <2>3, <3>1 DEF Stack
  <2> QED BY <2>2, <2>3
<1>5. references' \in [{m \in DOMAIN ast : KindOf(m) \in FunctionScope}' -> Lists]
  BY <1>1 DEF StacksOK, KindOf
<1>6. \A f \in DOMAIN ast' : KindOf(f)' = "function" => f \in functions' \/ f \in Open'
  BY <1>1 DEF StacksOK, KindOf
<1> QED
  BY <1>3, <1>4, <1>5, <1>6 DEF StacksOK, Stack

(* What is below the node that is left.                                    *)
LEMMA LeftIsInside ==
  ASSUME WalkOK, NEW n, Leave(n), NEW f \in Open, f # n
  PROVE  Inside(n, f) /\ f \in Open'
<1>1. Open' = Open \ {n} /\ n \in Open /\ \A m \in Open : m \in Nat /\ m <= n
  BY LeaveWalk
<1>2. f < n /\ n \in DOMAIN ast
  BY <1>1 DEF WalkOK
<1> QED
  BY <1>1, <1>2 DEF WalkOK, Inside

(* It is enough to look at the functions that are open.                    *)
LEMMA LeaveSafe ==
  ASSUME IInv, NEW n, Leave(n), functions \subseteq functions',
         \A g \in DOMAIN references : g \in DOMAIN references' /\ ListsWithin(references[g], references'[g]),
         \A f \in Defs : \A m \in DOMAIN ast \ {1} : f \in Open =>
            /\ m \in found.calls /\ Inside(m, f) /\ NoLambdasNest(f) => CallAtHand(m, f)'
            /\ m # n /\ m \in found.targets /\ Owner(m) = f /\ NoneTakesTargets(m, f)
                 => TargetAtHand(m, f)'
            /\ m \in found[Field(KindOf(m))] /\ Owner(m) = f /\ Plain(f)
                 => AtHand(m, f, Field(KindOf(m)))'
  PROVE  Safe'
<1>1. ast' = ast
  BY DEF Leave
<1>2. DOMAIN references = {m \in DOMAIN ast : KindOf(m) \in FunctionScope}
  BY DEF IInv, StacksOK
<1>3. ASSUME NEW f \in Defs, NEW m \in DOMAIN ast \ {1} PROVE IsSafe(m, f)'
  <2>1. f \in DOMAIN references
    BY <1>2 DEF Defs, FunctionScope, FunctionNode
  <2>2. IsSafe(m, f)
    BY DEF IInv, Safe
  <2>3. CallSafe(m, f)'
    <3>1. SUFFICES ASSUME KindOf(m) = "call", Inside(m, f), KindOf(In(m)) \in Lambda \cup {"function"},
                          NoLambdasNest(f)
                   PROVE  CallAtHand(m, f)'
      BY <1>1 DEF CallSafe, NoLambdasNest, FunctionNodes, IsFunctionScope, KindOf, In, Inside
    <3>2. CallAtHand(m, f)
      BY <2>2, <3>1 DEF IsSafe, CallSafe
    <3>3. CASE f \in Open /\ m \in found.calls
      BY <3>1, <3>3
    <3>4. CASE \E g \in DOMAIN references :
                 /\ g = f \/ Inside(g, f)
                 /\ m \in references[g].calls
                 /\ KindOf(g) = "function" \/ g \in functions
      BY <1>1, <3>4 DEF CallAtHand, ListsWithin, KindOf, Inside
    <3> QED BY <3>2, <3>3, <3>4 DEF CallAtHand
  <2>4. TargetSafe(m, f)'
    <3>1. SUFFICES ASSUME Owner(m) = f, KindOf(m) \in AssignName \cup {"receiver"},
                          KindOf(In(m)) \in Try \cup {"function"}, NoneTakesTargets(m, f)
                   PROVE  TargetAtHand(m, f)'
      BY <1>1 DEF TargetSafe, NoneTakesTargets, FunctionNodes, IsFunctionScope, KindOf, In, Inside,
                  Owner, Innermost
    <3>2. TargetAtHand(m, f)
      BY <2>2, <3>1 DEF IsSafe, TargetSafe
    <3>3. n \in Open
      BY LeaveWalk DEF IInv
    <3>4. KindOf(n) \in Scope \cup {"module"}
      BY <3>3 DEF IInv, WalkOK
    <3>5. m # n
      BY <3>1, <3>4 DEF Scope, FunctionNode, Lambda, Try, AssignName
    <3> QED BY <2>1, <3>1, <3>2, <3>5 DEF TargetAtHand, ListsWithin
  <2>5. PlainSafe(m, f)'
    <3>1. SUFFICES ASSUME Plain(f), Owner(m) = f, KindOf(m) \notin Scope, Kept(m)
                   PROVE  AtHand(m, f, Field(KindOf(m)))'
      BY <1>1 DEF PlainSafe, Plain, Kept, GlobalMet, FunctionNodes, IsFunctionScope, KindOf, In, Inside,
                  Owner, Innermost
    <3> DEFINE F == Field(KindOf(m))
    <3>2. AtHand(m, f, F)
      BY <2>2, <3>1 DEF IsSafe, PlainSafe
    <3>3. F \in {"targets", "values", "calls"} /\ F' = F
      BY <1>1, FieldIsOne DEF KindOf, Field
    <3> HIDE DEF F
    <3>4. references[f][F] \subseteq references'[f][F]
      BY <2>1, <3>3 DEF ListsWithin
    <3>5. CASE m \in references[f][F]
      BY <3>3, <3>4, <3>5 DEF AtHand, F
    <3>6. CASE f \in Open /\ m \in found[F]
      BY <3>1, <3>6 DEF F
    <3> QED BY <3>2, <3>5, <3>6 DEF AtHand
  <2> QED BY <2>3, <2>4, <2>5 DEF IsSafe
<1>4. DOMAIN ast' = DOMAIN ast /\ Defs' = Defs
  BY <1>1 DEF Defs, KindOf
<1> QED
  BY <1>3, <1>4 DEF Safe

(* Nothing changes hands.                                                  *)
LEMMA QuietLeave ==
  ASSUME IInv, NEW n, Leave(n), KindOf(n) # "function", UNCHANGED <<references, found, functions>>
  PROVE  Safe'
<1>1. ASSUME NEW f \in Defs, f \in Open PROVE f \in Open'
  <2>1. f # n
    BY <1>1 DEF Defs
  <2> QED BY <1>1, <2>1, LeftIsInside DEF IInv
<1>2. ASSUME NEW f \in Defs, NEW m \in DOMAIN ast \ {1}, f \in Open
      PROVE  /\ m \in found.calls => CallAtHand(m, f)'
             /\ m \in found.targets => TargetAtHand(m, f)'
             /\ m \in found[Field(KindOf(m))] => AtHand(m, f, Field(KindOf(m)))'
  <2>1. f \in Open'
    BY <1>1, <1>2
  <2>2. Field(KindOf(m))' = Field(KindOf(m))
    BY DEF Leave, KindOf, Field
  <2> QED BY <2>1, <2>2 DEF CallAtHand, TargetAtHand, AtHand
<1> QED
  BY <1>2, LeaveSafe DEF ListsWithin

LEMMA LeaveScopeKeeps ==
  ASSUME IInv, NEW n, LeaveScope(n)
  PROVE  IInv'
<1>1. KindOf(n) \notin FunctionScope /\ KindOf(n) # "overload" /\ KindOf(n) # "function"
  BY DEF LeaveScope, FunctionScope, FunctionNode, Lambda, Try
<1>2. /\ Leave(n) /\ UNCHANGED <<references, functions, current_function_def, found>>
      /\ current_node_stack' = Front(current_node_stack)
  BY DEF LeaveScope, DetectScope
<1>3. references' \in [DOMAIN references -> Lists] /\ found' \in Lists
  BY <1>2 DEF IInv, StacksOK
<1>4. WalkOK'
  BY <1>2, LeaveWalk DEF IInv
<1>5. StacksOK'
  BY <1>1, <1>2, <1>3, LeaveStacks DEF IInv
<1>6. Safe'
  BY <1>1, <1>2, QuietLeave
<1> QED
  BY <1>4, <1>5, <1>6 DEF IInv

LEMMA LeaveOverloadKeeps ==
  ASSUME IInv, NEW n, LeaveOverload(n)
  PROVE  IInv'
<1>1. KindOf(n) = "overload" /\ KindOf(n) \notin FunctionScope
  BY DEF LeaveOverload, FunctionScope
<1>2. Leave(n) /\ UNCHANGED <<references, functions, current_function_def, found, current_node_stack>>
  BY DEF LeaveOverload, Unseen
<1>3. references' \in [DOMAIN references -> Lists] /\ found' \in Lists
  BY <1>2 DEF IInv, StacksOK
<1>4. WalkOK'
  BY <1>2, LeaveWalk DEF IInv
<1>5. StacksOK'
  BY <1>1, <1>2, <1>3, LeaveStacks DEF IInv
<1>6. Safe'
  BY <1>1, <1>2, QuietLeave
<1> QED
  BY <1>4, <1>5, <1>6 DEF IInv

LEMMA LeaveOtherLambdaKeeps ==
  ASSUME IInv, NEW n, LeaveOtherLambda(n)
  PROVE  IInv'
<1>1. KindOf(n) = "lambda" /\ KindOf(n) \in FunctionScope
  BY DEF LeaveOtherLambda, FunctionScope, FunctionNode, Lambda
<1>2. /\ Leave(n) /\ UNCHANGED <<references, functions, found>>
      /\ current_node_stack' = Front(current_node_stack)
      /\ current_function_def' = Front(current_function_def)
  BY DEF LeaveOtherLambda, LeaveLambda, DetectScope
<1>3. references' \in [DOMAIN references -> Lists] /\ found' \in Lists
  BY <1>2 DEF IInv, StacksOK
<1>4. WalkOK'
  BY <1>2, LeaveWalk DEF IInv
<1>5. StacksOK'
  BY <1>1, <1>2, <1>3, LeaveStacks DEF IInv
<1>6. Safe'
  BY <1>1, <1>2, QuietLeave
<1> QED
  BY <1>4, <1>5, <1>6 DEF IInv

(* A function takes its own targets and values, and all calls.             *)
LEMMA LeaveFunctionDefKeeps ==
  ASSUME IInv, NEW g, LeaveFunctionDef(g)
  PROVE  IInv'
<1> DEFINE D == DOMAIN references
           new == Collected(g)
<1>1. KindOf(g) = "function" /\ KindOf(g) \in FunctionScope /\ IsFunctionScope(g)
  BY DEF LeaveFunctionDef, FunctionScope, FunctionNode, IsFunctionScope
<1>2. /\ Leave(g) /\ functions' = functions \cup {g}
      /\ references' = Credit(g, new) /\ found' = StillPending(g)
      /\ current_node_stack' = Front(current_node_stack)
      /\ current_function_def' = Front(current_function_def)
  BY DEF LeaveFunctionDef, DetectScope
<1>3. WalkOK /\ StacksOK /\ WalkOK' /\ Open' = Open \ {g} /\ g \in Open /\ ast' = ast
  BY <1>2, LeaveWalk DEF IInv, Leave
<1>4. /\ found \in Lists /\ references \in [D -> Lists] /\ g \in D
      /\ D = {n \in DOMAIN ast : KindOf(n) \in FunctionScope}
  BY <1>1, <1>3 DEF StacksOK, WalkOK
<1>5. /\ new \in Lists /\ new.calls = found.calls
      /\ new.targets = Own(g, found.targets) /\ new.values = Own(g, found.values)
  BY <1>4 DEF Collected, Own, Lists
<1>6. found' \in Lists /\ found'.targets = found.targets \ Own(g, found.targets)
  BY <1>2, <1>4 DEF StillPending, Nothing, Lists
<1> HIDE DEF D, new
<1>7. /\ references' \in [D -> Lists] /\ references'[g] = Plus(references[g], new)
      /\ \A h \in D \ {g} : references'[h] = references[h]
  <2>1. references \in [D -> Lists] /\ g \in D /\ new \in Lists
    BY <1>4, <1>5
  <2>2. references' = Credit(g, new)
    BY <1>2
  <2> QED BY <2>1, <2>2, CreditFacts
<1>8. /\ references'[g].targets = references[g].targets \cup Own(g, found.targets)
      /\ references'[g].values = references[g].values \cup Own(g, found.values)
      /\ references'[g].calls = references[g].calls \cup found.calls
  BY <1>4, <1>5, <1>7, PlusFacts
<1>9. \A h \in D : h \in DOMAIN references' /\ ListsWithin(references[h], references'[h])
  BY <1>7, <1>8 DEF ListsWithin
<1>10. StacksOK'
  BY <1>1, <1>2, <1>3, <1>6, <1>7, LeaveStacks DEF D
<1>11. ASSUME NEW f \in Defs, NEW m \in DOMAIN ast \ {1}, f \in Open
       PROVE  /\ m \in found.calls /\ Inside(m, f) /\ NoLambdasNest(f) => CallAtHand(m, f)'
              /\ m \in found.targets /\ Owner(m) = f /\ NoneTakesTargets(m, f) => TargetAtHand(m, f)'
              /\ m \in found[Field(KindOf(m))] /\ Owner(m) = f /\ Plain(f)
                   => AtHand(m, f, Field(KindOf(m)))'
  <2>1. f # g => Inside(g, f) /\ f \in Open'
    BY <1>2, <1>3, <1>11, LeftIsInside
  <2>2. m \in found.calls => CallAtHand(m, f)'
    <3>1. g \in DOMAIN references' /\ KindOf(g)' = "function" /\ (g = f \/ Inside(g, f)')
      BY <1>1, <1>3, <1>4, <1>7, <2>1 DEF KindOf, Inside
    <3> QED BY <1>8, <3>1 DEF CallAtHand
  <2>3. m \in found.targets /\ Owner(m) = f => TargetAtHand(m, f)'
    BY <1>6, <1>8, <2>1 DEF TargetAtHand, Own
  <2>4. ASSUME m \in found[Field(KindOf(m))], Owner(m) = f, Plain(f)
        PROVE  AtHand(m, f, Field(KindOf(m)))'
    <3> DEFINE F == Field(KindOf(m))
    <3>1. f = g
      BY <1>1, <1>3, <2>1, <2>4 DEF Plain, FunctionNodes, WalkOK
    <3>2. F \in {"targets", "values", "calls"} /\ F' = F
      BY <1>3, FieldIsOne DEF KindOf, Field
    <3> HIDE DEF F
    <3>3. m \in references'[f][F]
      BY <1>8, <2>4, <3>1, <3>2 DEF F, Own
    <3> QED BY <3>2, <3>3 DEF AtHand, F
  <2> QED BY <2>2, <2>3, <2>4
<1>12. Safe'
  BY <1>2, <1>9, <1>11, LeaveSafe DEF D
<1> QED
  BY <1>3, <1>10, <1>12 DEF IInv

(* A lambda takes all that is pending.                                     *)
LEMMA LambdaTakesAll ==
  ASSUME WalkOK, NEW l, Leave(l), KindOf(l) \in {"assigned lambda", "called lambda"},
         NEW f \in Defs, f \in Open, NEW m \in DOMAIN ast \ {1}
  PROVE  /\ f # l /\ Inside(l, f) /\ l \in FunctionNodes /\ ~Plain(f)
         /\ m # l /\ Owner(m) = f => ~NoneTakesTargets(m, f)
<1>1. /\ l \in Open /\ l \in DOMAIN ast /\ l \in Nat /\ f \in Nat /\ m \in Nat
      /\ f <= l
  BY LeaveWalk, NumbersOfNodes DEF WalkOK
<1>2. f # l
  BY DEF Defs
<1>3. Inside(l, f)
  BY <1>2, LeftIsInside
<1>4. l \in FunctionNodes /\ HoldsNames(l)
  BY <1>1 DEF FunctionNodes, IsFunctionScope, FunctionNode, Lambda, HoldsNames
<1>5. ASSUME m # l, Owner(m) = f PROVE ~NoneTakesTargets(m, f)
  <2>1. CASE m < l
    BY <1>3, <1>4, <2>1 DEF NoneTakesTargets
  <2>2. CASE l < m
    <3>1. l \in ast[m].within
      BY <1>1, <2>2 DEF WalkOK
    <3>2. Around(m)
      BY AroundFacts DEF AllAround
    <3>3. l <= f
      BY <1>4, <1>5, <3>1, <3>2 DEF Around
    <3>4. l = f
      BY <1>1, <3>3, NumbersAreOrdered, Zenon
    <3> QED BY <1>2, <3>4
  <2>3. m < l \/ l < m
    BY <1>1, <1>5, NumbersAreOrdered, Zenon
  <2> QED BY <2>1, <2>2, <2>3
<1>6. ~Plain(f)
  BY <1>3, <1>4 DEF Plain
<1> QED
  BY <1>2, <1>3, <1>4, <1>5, <1>6

LEMMA LeaveAssignedLambdaKeeps ==
  ASSUME IInv, NEW l, LeaveAssignedLambda(l)
  PROVE  IInv'
<1> DEFINE D == DOMAIN references
<1>1. KindOf(l) = "assigned lambda" /\ KindOf(l) \in FunctionScope
  BY DEF LeaveAssignedLambda, FunctionScope, FunctionNode, Lambda
<1>2. /\ Leave(l) /\ functions' = functions \cup {l}
      /\ references' = Credit(l, found) /\ found' = Nothing
      /\ current_node_stack' = Front(current_node_stack)
      /\ current_function_def' = Front(current_function_def)
  BY DEF LeaveAssignedLambda, LeaveLambda, DetectScope
<1>3. WalkOK /\ StacksOK /\ WalkOK' /\ l \in Open /\ ast' = ast
  BY <1>2, LeaveWalk DEF IInv, Leave
<1>4. found \in Lists /\ references \in [D -> Lists] /\ l \in D
  BY <1>1, <1>3 DEF StacksOK, WalkOK
<1> HIDE DEF D
<1>5. /\ references' \in [D -> Lists] /\ references'[l] = Plus(references[l], found)
      /\ \A h \in D \ {l} : references'[h] = references[h]
  BY <1>2, <1>4, CreditFacts
<1>6. /\ ListsWithin(references[l], references'[l])
      /\ references'[l].calls = references[l].calls \cup found.calls
  BY <1>4, <1>5, PlusFacts DEF ListsWithin
<1>7. \A h \in D : h \in DOMAIN references' /\ ListsWithin(references[h], references'[h])
  BY <1>5, <1>6 DEF ListsWithin
<1>8. StacksOK'
  BY <1>1, <1>2, <1>3, <1>5, NothingFacts, LeaveStacks DEF D
<1>9. ASSUME NEW f \in Defs, NEW m \in DOMAIN ast \ {1}, f \in Open
      PROVE  /\ m \in found.calls /\ Inside(m, f) /\ NoLambdasNest(f) => CallAtHand(m, f)'
             /\ m # l /\ m \in found.targets /\ Owner(m) = f /\ NoneTakesTargets(m, f)
                  => TargetAtHand(m, f)'
             /\ m \in found[Field(KindOf(m))] /\ Owner(m) = f /\ Plain(f)
                  => AtHand(m, f, Field(KindOf(m)))'
  <2>1. /\ f # l /\ Inside(l, f) /\ l \in FunctionNodes /\ ~Plain(f)
        /\ m # l /\ Owner(m) = f => ~NoneTakesTargets(m, f)
    BY <1>1, <1>2, <1>3, <1>9, LambdaTakesAll
  <2>2. m \in found.calls => CallAtHand(m, f)'
    <3>1. l \in DOMAIN references' /\ l \in functions' /\ Inside(l, f)'
      BY <1>2, <1>3, <1>4, <1>5, <2>1 DEF Inside
    <3> QED BY <1>6, <3>1 DEF CallAtHand
  <2> QED BY <2>1, <2>2
<1>10. Safe'
  BY <1>2, <1>7, <1>9, LeaveSafe DEF D
<1> QED
  BY <1>3, <1>8, <1>10 DEF IInv

(* A called lambda shares its calls with the function around it.           *)
LEMMA LeaveCalledLambdaKeeps ==
  ASSUME IInv, NEW l, LeaveCalledLambda(l)
  PROVE  IInv'
<1> DEFINE D == DOMAIN references
           p == Before(current_function_def)
           alone == Len(current_function_def) = 1
           credited == Credit(l, found)
<1>1. KindOf(l) = "called lambda" /\ KindOf(l) \in FunctionScope /\ KindOf(l) \in Lambda
  BY DEF LeaveCalledLambda, FunctionScope, FunctionNode, Lambda
<1>2. /\ Leave(l) /\ functions' = functions /\ found' = Nothing
      /\ references' = IF alone THEN credited
                                ELSE [credited EXCEPT ![p] = Plus(@, Shared)]
      /\ current_node_stack' = Front(current_node_stack)
      /\ current_function_def' = Front(current_function_def)
  BY DEF LeaveCalledLambda, LeaveLambda, DetectScope
<1>3. WalkOK /\ StacksOK /\ WalkOK' /\ l \in Open /\ ast' = ast /\ Open' = Open \ {l}
  BY <1>2, LeaveWalk DEF IInv, Leave
<1>4. found \in Lists /\ references \in [D -> Lists] /\ l \in D
  BY <1>1, <1>3 DEF StacksOK, WalkOK
<1>5. D = {n \in DOMAIN ast : KindOf(n) \in FunctionScope}
  BY <1>3 DEF StacksOK
<1>6. Stack(current_function_def, FunctionScope) /\ Last(current_function_def) = l
      /\ current_function_def # <<>>
  BY <1>1, <1>2, <1>3, PopStack DEF StacksOK
<1> HIDE DEF D, credited
<1>7. credited \in [D -> Lists] /\ \A h \in D : ListsWithin(references[h], credited[h])
  <2>1. /\ credited \in [D -> Lists] /\ credited[l] = Plus(references[l], found)
        /\ \A h \in D \ {l} : credited[h] = references[h]
    BY <1>4, CreditFacts DEF credited
  <2>2. ListsWithin(references[l], credited[l])
    BY <1>4, <2>1, PlusFacts DEF ListsWithin
  <2> QED BY <2>1, <2>2 DEF ListsWithin
<1>8. Shared \in Lists /\ Shared.calls = found.calls
  BY <1>4 DEF Shared, Nothing, Lists
<1>9. ~alone => p \in D
  <2>1. SUFFICES ASSUME ~alone PROVE p \in D
    OBVIOUS
  <2> DEFINE k == Len(current_function_def)
  <2>2. /\ k \in Nat /\ k # 0 /\ k # 1 /\ DOMAIN current_function_def = 1 .. k
    BY <1>6, <2>1 DEF Stack
  <2> HIDE DEF k
  <2>3. k - 1 \in DOMAIN current_function_def
    BY <2>2
  <2> USE DEF k
  <2>4. p \in OpenIn(FunctionScope)
    BY <1>6, <2>3 DEF Before, Stack, ToSet
  <2> QED BY <1>3, <1>5, <2>4 DEF OpenIn, WalkOK
<1> HIDE DEF p, alone
<1>10. /\ references' \in [D -> Lists]
       /\ \A h \in D : ListsWithin(references[h], references'[h])
       /\ ~alone => found.calls \subseteq references'[p].calls
  <2>1. CASE alone
    BY <1>2, <1>7, <2>1
  <2>2. CASE ~alone
    <3>1. p \in D /\ credited[p] \in Lists
      BY <1>7, <1>9, <2>2
    <3>2. Plus(credited[p], Shared) \in Lists /\ ListsWithin(credited[p], Plus(credited[p], Shared))
          /\ Plus(credited[p], Shared).calls = credited[p].calls \cup found.calls
      BY <1>8, <3>1, PlusFacts DEF ListsWithin
    <3>3. /\ references' = [credited EXCEPT ![p] = Plus(credited[p], Shared)]
          /\ references'[p] = Plus(credited[p], Shared)
          /\ \A h \in D \ {p} : references'[h] = credited[h]
      BY <1>2, <1>7, <2>2, <3>1
    <3>4. references' \in [D -> Lists]
      BY <1>7, <3>2, <3>3
    <3>5. ListsWithin(references[p], references'[p])
      BY <1>7, <3>1, <3>2, <3>3 DEF ListsWithin
    <3> QED BY <1>7, <2>2, <3>2, <3>3, <3>4, <3>5
  <2> QED BY <2>1, <2>2
<1>11. StacksOK'
  <2>1. KindOf(l) # "function" /\ KindOf(l) # "overload"
    BY <1>1
  <2> QED BY <1>1, <1>2, <1>3, <1>10, <2>1, NothingFacts, LeaveStacks DEF D
<1>12. ASSUME NEW f \in Defs, NEW m \in DOMAIN ast \ {1}, f \in Open
       PROVE  /\ m \in found.calls /\ Inside(m, f) /\ NoLambdasNest(f) => CallAtHand(m, f)'
              /\ m # l /\ m \in found.targets /\ Owner(m) = f /\ NoneTakesTargets(m, f)
                   => TargetAtHand(m, f)'
              /\ m \in found[Field(KindOf(m))] /\ Owner(m) = f /\ Plain(f)
                   => AtHand(m, f, Field(KindOf(m)))'
  <2>1. /\ f # l /\ Inside(l, f) /\ l \in FunctionNodes /\ ~Plain(f)
        /\ m # l /\ Owner(m) = f => ~NoneTakesTargets(m, f)
    BY <1>1, <1>2, <1>3, <1>12, LambdaTakesAll
  <2>2. ASSUME m \in found.calls, NoLambdasNest(f) PROVE CallAtHand(m, f)'
    <3>1. KindOf(f) \in FunctionScope
      BY DEF Defs, FunctionScope, FunctionNode
    <3>2. f \in ToSet(current_function_def)
      BY <1>6, <1>12, <3>1 DEF Stack, OpenIn
    <3>3. ~alone /\ p \in ToSet(current_function_def) /\ p # l /\ f <= p
      BY <1>6, <2>1, <3>2, BeforeIsNext DEF Stack, alone, p
    <3>4. p \in Open /\ KindOf(p) \in FunctionScope /\ p \in DOMAIN ast
      BY <1>3, <1>6, <3>3 DEF Stack, OpenIn, WalkOK
    <3>5. f = p \/ Inside(p, f)
      <4>1. f \in Nat /\ p \in Nat
        BY <1>3, <1>12, <3>4, NumbersOfNodes DEF WalkOK
      <4> QED BY <1>3, <1>12, <3>3, <3>4, <4>1 DEF WalkOK, Inside
    <3>6. Inside(l, p)
      BY <1>2, <1>3, <3>3, <3>4, LeftIsInside
    <3>7. KindOf(p) = "function"
      <4>1. CASE f = p
        BY <4>1 DEF Defs
      <4>2. CASE Inside(p, f)
        <5>1. p \in FunctionNodes
          BY <3>4 DEF FunctionNodes, IsFunctionScope, FunctionScope
        <5>2. ~({KindOf(l), KindOf(p)} \subseteq Lambda)
          BY <2>1, <2>2, <3>6, <4>2, <5>1 DEF NoLambdasNest
        <5>3. KindOf(p) \notin Lambda
          BY <1>1, <5>2
        <5> QED BY <3>4, <5>3 DEF FunctionScope, FunctionNode
      <4> QED BY <3>5, <4>1, <4>2
    <3>8. PICK g : g = p
      OBVIOUS
    <3>9. g \in DOMAIN references' /\ KindOf(g)' = "function" /\ (g = f \/ Inside(g, f)')
      BY <1>3, <1>9, <1>10, <3>3, <3>5, <3>7, <3>8 DEF KindOf, Inside
    <3>10. m \in references'[g].calls
      BY <1>10, <2>2, <3>3, <3>8
    <3> QED BY <3>9, <3>10 DEF CallAtHand
  <2> QED BY <2>1, <2>2
<1>13. Safe'
  <2>1. \A h \in D : h \in DOMAIN references' /\ ListsWithin(references[h], references'[h])
    BY <1>10
  <2> QED BY <1>2, <1>12, <2>1, LeaveSafe DEF D
<1> QED
  BY <1>3, <1>11, <1>13 DEF IInv
-----------------------------------------------------------------------------
LEMMA InitIsOK == Init => IInv
<1> SUFFICES ASSUME Init PROVE IInv
  OBVIOUS
<1> DEFINE m == [kind |-> "module", within |-> {}]
<1>1. /\ ast = <<m>> /\ path = <<1>> /\ references = <<>> /\ found = Nothing
      /\ current_node_stack = <<1>> /\ current_function_def = <<>>
  BY DEF Init
<1>2. m \in Nodes /\ m.kind = "module" /\ m.within = {}
  BY DEF Nodes
<1> HIDE DEF m
<1>3. ast \in Seq(Nodes) /\ DOMAIN ast = {1} /\ ast[1] = m
  BY <1>1, <1>2
<1>4. path \in Seq(Nat) /\ Ascending(path) /\ Open = {1}
  BY <1>1 DEF Ascending, Open, ToSet
<1>5. WalkOK
  BY <1>2, <1>3, <1>4 DEF WalkOK, KindOf
<1>6. "module" \notin FunctionScope /\ "module" # "overload"
  BY DEF FunctionScope, FunctionNode, Lambda
<1>7. OpenIn((Kind \cup {"module"}) \ {"overload"}) = {1} /\ OpenIn(FunctionScope) = {}
  BY <1>2, <1>3, <1>4, <1>6 DEF OpenIn, KindOf
<1>8. {n \in DOMAIN ast : KindOf(n) \in FunctionScope} = {}
  BY <1>2, <1>3, <1>6 DEF KindOf
<1>9. references \in [{} -> Lists]
  BY <1>1
<1>10. StacksOK
  <2>1. Stack(current_node_stack, (Kind \cup {"module"}) \ {"overload"})
    <3>1. current_node_stack = path
      BY <1>1
    <3> QED BY <1>4, <1>7, <3>1 DEF Stack, Open
  <2>2. Stack(current_function_def, FunctionScope)
    BY <1>1, <1>7 DEF Stack, Ascending, ToSet
  <2>3. \A f \in DOMAIN ast : KindOf(f) # "function"
    BY <1>2, <1>3 DEF KindOf
  <2> QED BY <1>1, <1>8, <1>9, <2>1, <2>2, <2>3, NothingFacts DEF StacksOK
<1>11. Safe
  BY <1>3 DEF Safe
<1> QED
  BY <1>5, <1>10, <1>11 DEF IInv

LEMMA UnchangedKeeps ==
  ASSUME IInv, UNCHANGED vars
  PROVE  IInv'
<1>1. UNCHANGED <<ast, path, references, functions, current_node_stack, current_function_def, found>>
  BY DEF vars
<1>2. Open' = Open /\ \A n : KindOf(n)' = KindOf(n)
  BY <1>1 DEF Open, KindOf
<1>3. WalkOK'
  BY <1>1, <1>2 DEF IInv, WalkOK
<1>4. StacksOK'
  BY <1>1, <1>2 DEF IInv, StacksOK, Stack, OpenIn
<1>5. /\ Defs' = Defs /\ FunctionNodes' = FunctionNodes
      /\ \A n, m : Inside(n, m)' <=> Inside(n, m)
      /\ \A n : In(n)' = In(n) /\ Owner(n)' = Owner(n) /\ KindOf(In(n))' = KindOf(In(n))
                /\ Field(KindOf(n))' = Field(KindOf(n))
  BY <1>1 DEF Defs, FunctionNodes, IsFunctionScope, Inside, In, Owner, Innermost, KindOf, Field
<1>6. ASSUME NEW f \in Defs, NEW n \in DOMAIN ast \ {1} PROVE IsSafe(n, f)'
  <2>1. IsSafe(n, f)
    BY DEF IInv, Safe
  <2>2. CallSafe(n, f)'
    BY <1>1, <1>2, <1>5, <2>1 DEF IsSafe, CallSafe, CallAtHand, NoLambdasNest
  <2>3. TargetSafe(n, f)'
    BY <1>1, <1>2, <1>5, <2>1 DEF IsSafe, TargetSafe, TargetAtHand, NoneTakesTargets
  <2>4. PlainSafe(n, f)'
    BY <1>1, <1>2, <1>5, <2>1 DEF IsSafe, PlainSafe, AtHand, Plain, Kept, GlobalMet
  <2> QED BY <2>2, <2>3, <2>4 DEF IsSafe
<1>7. Safe'
  BY <1>1, <1>5, <1>6 DEF Safe
<1> QED
  BY <1>3, <1>4, <1>7 DEF IInv

(* A global variable that has been met is known: the builder remembers it, *)
(* in whatever scope it is assigned to, and never forgets one.             *)
LEMMA InitKnown == Init => GlobalsKnown
<1> SUFFICES ASSUME Init PROVE ~SomeGlobalMet
  BY DEF GlobalsKnown
<1> DEFINE root == [kind |-> "module", within |-> {}]
<1>1. ast = <<root>> /\ root.kind = "module"
  BY DEF Init
<1> HIDE DEF root
<1>2. \A m \in DOMAIN ast : KindOf(m) = "module"
  BY <1>1 DEF KindOf
<1> QED
  BY <1>2 DEF SomeGlobalMet

LEMMA VisitKnown ==
  ASSUME WalkOK, GlobalsKnown, NEW kind \in Kind, Visit(kind), global_variables \subseteq global_variables',
         kind = "global target" => global_variables' # {}
  PROVE  GlobalsKnown'
<1>1. PICK x : x = New
  OBVIOUS
<1>2. /\ \A m \in DOMAIN ast : KindOf(m)' = KindOf(m)
      /\ DOMAIN ast' = DOMAIN ast \cup {x} /\ KindOf(x)' = kind
  BY <1>1, VisitFacts DEF KindOf
<1>3. SomeGlobalMet' => SomeGlobalMet \/ kind = "global target"
  BY <1>2 DEF SomeGlobalMet
<1> QED
  BY <1>3 DEF GlobalsKnown

LEMMA KnownKept ==
  ASSUME WalkOK, GlobalsKnown, [Next]_vars
  PROVE  GlobalsKnown'
<1>1. ASSUME UNCHANGED <<ast, global_variables>> PROVE GlobalsKnown'
  BY <1>1 DEF GlobalsKnown, SomeGlobalMet, KindOf
<1>2. ASSUME NEW kind \in Kind, Visit(kind), UNCHANGED global_variables, kind # "global target"
      PROVE  GlobalsKnown'
  BY <1>2, VisitKnown
<1>3. ASSUME NEW kind \in Kind, EnterAssignName(kind) PROVE GlobalsKnown'
  <2>1. /\ Visit(kind)
        /\ global_variables' = IF kind = "global target" THEN global_variables \cup {New}
                               ELSE global_variables
    BY <1>3 DEF EnterAssignName, Pass
  <2> QED BY <2>1, VisitKnown
<1>4. ASSUME NEW kind \in Kind,
             \/ EnterScope(kind) \/ EnterLambda(kind) \/ EnterCall(kind) \/ EnterName(kind)
             \/ EnterAttribute(kind) \/ EnterIgnored(kind)
      PROVE  GlobalsKnown'
  <2>1. Visit(kind) /\ UNCHANGED global_variables
    BY <1>4 DEF EnterScope, EnterLambda, EnterCall, EnterName, EnterAttribute, EnterIgnored, Unseen,
                Enter, Pass, Push, PushFunction
  <2>2. kind # "global target"
    BY <1>4 DEF EnterScope, EnterLambda, EnterCall, EnterName, EnterAttribute, EnterIgnored,
                Try, Lambda, Call, Name, Ignored
  <2> QED BY <1>2, <2>1, <2>2
<1>5. CASE EnterFunctionDef \/ EnterOverload \/ EnterAssignAttr \/ EnterReceiver
  <2>1. PICK kind \in {"function", "overload", "member", "receiver"} :
           Visit(kind) /\ UNCHANGED global_variables
    BY <1>5 DEF EnterFunctionDef, EnterOverload, EnterAssignAttr, EnterReceiver, Unseen, Enter, Pass,
                Push, PushFunction
  <2>2. kind \in Kind /\ kind # "global target"
    BY DEF Kind, Scope, FunctionNode, Attribute
  <2> QED BY <1>2, <2>1, <2>2
<1>6. ASSUME NEW n \in DOMAIN ast,
             \/ LeaveScope(n) \/ LeaveFunctionDef(n) \/ LeaveOverload(n)
             \/ LeaveAssignedLambda(n) \/ LeaveCalledLambda(n) \/ LeaveOtherLambda(n)
      PROVE  GlobalsKnown'
  <2>1. UNCHANGED <<ast, global_variables>>
    BY <1>6 DEF LeaveScope, LeaveFunctionDef, LeaveOverload, LeaveAssignedLambda, LeaveCalledLambda,
                LeaveOtherLambda, LeaveLambda, Leave, DetectScope, Unseen
  <2> QED BY <1>1, <2>1
<1>7. CASE UNCHANGED vars
  BY <1>1, <1>7 DEF vars
<1> QED
  BY <1>3, <1>4, <1>5, <1>6, <1>7 DEF Next, Terminated

(* Every step of the builder keeps what makes it correct: its stacks       *)
(* mirror the open scopes, and a reference is pending or recorded.         *)
THEOREM StaysSafe == IInv /\ GlobalsKnown /\ [Next]_vars => IInv'
<1> SUFFICES ASSUME IInv, GlobalsKnown, [Next]_vars PROVE IInv'
  OBVIOUS
<1>1. ASSUME NEW kind \in Kind, EnterScope(kind) PROVE IInv'
  BY <1>1, EnterScopeKeeps
<1>2. ASSUME NEW kind \in Kind, EnterLambda(kind) PROVE IInv'
  BY <1>2, PushFunctionKeeps DEF EnterLambda
<1>3. ASSUME NEW kind \in Kind, EnterCall(kind) PROVE IInv'
  BY <1>3, EnterCallKeeps
<1>4. ASSUME NEW kind \in Kind, EnterName(kind) PROVE IInv'
  BY <1>4, EnterNameKeeps
<1>5. ASSUME NEW kind \in Kind, EnterAssignName(kind) PROVE IInv'
  BY <1>5, EnterAssignNameKeeps
<1>6. ASSUME NEW kind \in Kind, EnterAttribute(kind) PROVE IInv'
  BY <1>6, EnterAttributeKeeps
<1>7. CASE EnterFunctionDef
  BY <1>7, PushFunctionKeeps DEF EnterFunctionDef
<1>8. CASE EnterOverload
  BY <1>8, EnterOverloadKeeps
<1>9. CASE EnterAssignAttr
  BY <1>9, EnterAssignAttrKeeps
<1>10. CASE EnterReceiver
  BY <1>10, EnterReceiverKeeps
<1>11. ASSUME NEW n \in DOMAIN ast, LeaveScope(n) PROVE IInv'
  BY <1>11, LeaveScopeKeeps
<1>12. ASSUME NEW n \in DOMAIN ast, LeaveFunctionDef(n) PROVE IInv'
  BY <1>12, LeaveFunctionDefKeeps
<1>13. ASSUME NEW n \in DOMAIN ast, LeaveOverload(n) PROVE IInv'
  BY <1>13, LeaveOverloadKeeps
<1>14. ASSUME NEW n \in DOMAIN ast, LeaveAssignedLambda(n) PROVE IInv'
  BY <1>14, LeaveAssignedLambdaKeeps
<1>15. ASSUME NEW n \in DOMAIN ast, LeaveCalledLambda(n) PROVE IInv'
  BY <1>15, LeaveCalledLambdaKeeps
<1>16. ASSUME NEW n \in DOMAIN ast, LeaveOtherLambda(n) PROVE IInv'
  BY <1>16, LeaveOtherLambdaKeeps
<1>17. CASE UNCHANGED vars
  BY <1>17, UnchangedKeeps
<1>18. ASSUME NEW kind \in Kind, EnterIgnored(kind) PROVE IInv'
  BY <1>18, EnterIgnoredKeeps
<1> QED
  BY <1>1, <1>2, <1>3, <1>4, <1>5, <1>6, <1>7, <1>8, <1>9, <1>10, <1>11, <1>12, <1>13,
     <1>14, <1>15, <1>16, <1>17, <1>18 DEF Next, Terminated

(* So do all programs it walks through. The lists of targets, values and   *)
(* calls are sets here; nothing is assumed of the constants, so that       *)
(* scopes may nest to any depth.                                           *)
THEOREM InvariantHolds == Spec => []IInv
<1>1. Init => IInv /\ GlobalsKnown
  BY InitIsOK, InitKnown
<1>2. IInv /\ GlobalsKnown /\ [Next]_vars => IInv' /\ GlobalsKnown'
  BY StaysSafe, KnownKept DEF IInv
<1> QED
  BY <1>1, <1>2, PTL DEF Spec

LEMMA PlainComplete == IInv => PlainFunctionsAreComplete
<1> SUFFICES ASSUME IInv, Done, NEW f \in Defs, Plain(f), NEW n \in DOMAIN ast \ {1},
                    Owner(n) = f, KindOf(n) \notin Scope, Kept(n)
             PROVE  n \in references[f][Field(KindOf(n))]
  BY DEF PlainFunctionsAreComplete
<1>1. f \notin Open
  BY DEF Done, Open, ToSet
<1>2. PlainSafe(n, f)
  BY DEF IInv, Safe, IsSafe
<1> QED
  BY <1>1, <1>2 DEF PlainSafe, AtHand

LEMMA TargetsReached == IInv => TargetsReachTheirFunction
<1> SUFFICES ASSUME IInv, Done, NEW f \in Defs, NEW n \in DOMAIN ast \ {1},
                    Owner(n) = f, KindOf(n) \in AssignName \cup {"receiver"},
                    KindOf(In(n)) \in Try \cup {"function"}, NoneTakesTargets(n, f)
             PROVE  n \in references[f].targets
  BY DEF TargetsReachTheirFunction, NoneTakesTargets
<1>1. f \notin Open
  BY DEF Done, Open, ToSet
<1>2. TargetSafe(n, f)
  BY DEF IInv, Safe, IsSafe
<1> QED
  BY <1>1, <1>2 DEF TargetSafe, TargetAtHand

LEMMA CallsKept == IInv => NoCallForgotten
<1> SUFFICES ASSUME IInv, Done, NEW n \in DOMAIN ast, NEW f \in Defs,
                    KindOf(n) = "call", Inside(n, f), KindOf(In(n)) \in Lambda \cup {"function"},
                    NoLambdasNest(f)
             PROVE  \E g \in functions : (g = f \/ Inside(g, f)) /\ n \in references[g].calls
  BY DEF NoCallForgotten, NoLambdasNest
<1>1. Open = {}
  BY DEF Done, Open, ToSet
<1>2. n # 1
  BY DEF IInv, WalkOK
<1>3. CallSafe(n, f)
  BY <1>2 DEF IInv, Safe, IsSafe
<1>4. PICK g \in DOMAIN references : /\ g = f \/ Inside(g, f)
                                     /\ n \in references[g].calls
                                     /\ KindOf(g) = "function" \/ g \in functions
  BY <1>1, <1>3 DEF CallSafe, CallAtHand
<1>5. g \in functions
  BY <1>1, <1>4 DEF IInv, StacksOK
<1> QED
  BY <1>4, <1>5

(* After the walk a function that has only plain statements in it has      *)
(* every reference the builder keeps: what was pending when it was left is *)
(* in its lists, in the one for the kind of the reference.                 *)
THEOREM PlainFunctionsHaveAll == Spec => []PlainFunctionsAreComplete
  BY InvariantHolds, PlainComplete, PTL

(* Every name that is assigned to in a function or in a try statement of   *)
(* it, and every receiver there, is a target of that function when the     *)
(* walk is over, unless a lambda that takes all pending targets follows it *)
(* in the function.                                                        *)
THEOREM TargetsAreReached == Spec => []TargetsReachTheirFunction
  BY InvariantHolds, TargetsReached, PTL

(* A call in a function, or in the lambdas of it unless one is in another, *)
(* is recorded in one of the functions whose references are resolved: that *)
(* of the function, or that of a lambda or function in it that the data    *)
(* keeps.                                                                  *)
THEOREM CallsAreKept == Spec => []NoCallForgotten
  BY InvariantHolds, CallsKept, PTL
=============================================================================
