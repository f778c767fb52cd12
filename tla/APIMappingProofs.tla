-------------------------- MODULE APIMappingProofs --------------------------
(***************************************************************************)
(* Whatever the differs find similar: no element is ever in two mappings,  *)
(* mappings are connected by best matches, what has not changed is mapped  *)
(* to itself, and StrictDiffer leaves mappings of classes as they are.     *)
(***************************************************************************)
EXTENDS APIMapping, FiniteSetTheorems, SequenceTheorems, TLAPS

Groups == [from : SUBSET V1, to : SUBSET V2]

Apart(a, b) == a.from \cap b.from = {} /\ a.to \cap b.to = {}

(* What may still be mapped, and what will not be mapped again.            *)
Pending == related \cup (IF group = NoGroup THEN {} ELSE {group})
Settled == mappings \cup Additional \cup notified

Shapes ==
  /\ related \subseteq Groups
  /\ group # NoGroup => group \in Groups /\ group \notin related
  /\ \A m \in previous \cup mappings : m.from \subseteq V1 /\ m.to \subseteq V2

(* The mappings of a related mapping stay inside it.                       *)
Inside ==
  /\ group = NoGroup => todo = {} /\ fresh = {}
  /\ group # NoGroup =>
       /\ todo \subseteq group.from
       /\ \A m \in fresh :
            m.from \subseteq group.from \ todo /\ m.to \subseteq group.to
  /\ Disjoint(fresh)

PendingApart ==
  /\ Disjoint(Pending)
  /\ \A m \in Settled, g \in Pending : Apart(m, g)

AllDisjoint ==
  Disjoint(previous) /\ Disjoint(mappings \cup Additional) /\ Disjoint(notified)

UnchangedKept ==
  /\ differ = "simple" => previous = unchanged
  /\ differ = "strict" => unchanged \subseteq previous

IInv == Shapes /\ Inside /\ PendingApart /\ AllDisjoint /\ UnchangedKept

LEMMA InvImplies == IInv => ElementsMappedOnce
<1> SUFFICES ASSUME IInv PROVE ElementsMappedOnce
  OBVIOUS
<1>1. Disjoint(mappings)
  BY DEF IInv, AllDisjoint, Disjoint
<1>2. Disjoint(mappings \cup fresh)
  <2>1. CASE group = NoGroup
    BY <1>1, <2>1 DEF IInv, Inside
  <2>2. CASE group # NoGroup
    <3>1. \A m \in mappings, n \in fresh : Apart(m, n)
      BY <2>2 DEF IInv, Inside, PendingApart, Pending, Settled, Apart
    <3> QED BY <1>1, <3>1 DEF IInv, Inside, Disjoint, Apart
  <2> QED BY <2>1, <2>2
<1> QED BY <1>2 DEF IInv, AllDisjoint, ElementsMappedOnce

(* Elements of different kinds are different, so that what is unmapped     *)
(* falls into groups that share nothing.                                   *)
LEMMA UnmappedApart ==
  ASSUME NEW prev
  PROVE  /\ UnmappedGroups(prev) \subseteq Groups
         /\ Disjoint(UnmappedGroups(prev))
         /\ \A m \in prev, g \in UnmappedGroups(prev) : Apart(m, g)
<1>1. \A g \in UnmappedGroups(prev) :
        \E k : g = [from |-> {e \in V1 \ Froms(prev) : Kind[e] = k},
                    to |-> {f \in V2 \ Tos(prev) : Kind[f] = k}]
  BY DEF UnmappedGroups, Unmapped
<1>2. UnmappedGroups(prev) \subseteq Groups
  BY <1>1 DEF Groups
<1>3. \A m \in prev, g \in UnmappedGroups(prev) : Apart(m, g)
  BY <1>1 DEF Apart, Froms, Tos
<1>4. Disjoint(UnmappedGroups(prev))
  <2> SUFFICES ASSUME NEW g \in UnmappedGroups(prev), NEW h \in UnmappedGroups(prev),
                      g # h
               PROVE  Apart(g, h)
    BY DEF Disjoint, Apart
  <2>1. PICK k : g = [from |-> {e \in V1 \ Froms(prev) : Kind[e] = k},
                      to |-> {f \in V2 \ Tos(prev) : Kind[f] = k}]
    BY <1>1
  <2>2. PICK l : h = [from |-> {e \in V1 \ Froms(prev) : Kind[e] = l},
                      to |-> {f \in V2 \ Tos(prev) : Kind[f] = l}]
    BY <1>1
  <2>3. k # l
    BY <2>1, <2>2
  <2> QED BY <2>1, <2>2, <2>3 DEF Apart
<1> QED BY <1>2, <1>3, <1>4

LEMMA BestInside ==
  ASSUME NEW e
  PROVE  Best(e).from = {e} /\ Best(e).to \subseteq group.to
BY DEF Best, BestOf, SimilarEnough

LEMMA InitIInv == ASSUME MappingInputs, Init PROVE IInv
<1> USE DEF Init
<1>1. related \subseteq Groups
  BY DEF SameIdGroups, Groups, MappingInputs
<1>2. Shapes
  BY <1>1 DEF Shapes
<1>3. Inside
  BY DEF Inside, Disjoint
<1>4. Pending = related /\ Settled = {}
  BY DEF Pending, Settled, Additional
<1>5. Disjoint(related)
  <2> SUFFICES ASSUME NEW g \in related, NEW h \in related, g # h
               PROVE  Apart(g, h)
    BY DEF Disjoint, Apart
  <2>1. PICK p \in SameId : g = [from |-> {p[1]}, to |-> {p[2]}]
    BY DEF SameIdGroups
  <2>2. PICK q \in SameId : h = [from |-> {q[1]}, to |-> {q[2]}]
    BY DEF SameIdGroups
  <2>3. p # q
    BY <2>1, <2>2
  <2>4. p[1] # q[1] /\ p[2] # q[2]
    BY <2>3 DEF MappingInputs
  <2> QED BY <2>1, <2>2, <2>4 DEF Apart
<1>6. PendingApart
  BY <1>4, <1>5 DEF PendingApart
<1>7. AllDisjoint
  BY DEF AllDisjoint, Disjoint, Additional
<1> QED BY <1>2, <1>3, <1>6, <1>7 DEF IInv, UnchangedKept

LEMMA NextGroupKeeps == ASSUME MappingInputs, IInv, NextGroup PROVE IInv'
<1>1. PICK g \in related : group' = g /\ todo' = g.from /\ related' = related \ {g}
  BY DEF NextGroup
<1>2. group = NoGroup /\ fresh' = {} /\ UNCHANGED <<chain, notified, mappings>>
  BY DEF NextGroup, IInv, Inside
<1>3. g \in Groups /\ g # NoGroup
  BY DEF IInv, Shapes, MappingInputs, Groups
<1>4. Pending' = Pending /\ Settled' = Settled
  BY <1>1, <1>2, <1>3 DEF Pending, Settled, Additional, chain
<1>5. Shapes'
  BY <1>1, <1>2, <1>3 DEF IInv, Shapes, chain
<1>6. Inside'
  BY <1>1, <1>2, <1>3 DEF Inside, Disjoint
<1>7. PendingApart'
  BY <1>4 DEF IInv, PendingApart, Disjoint, Apart
<1>8. AllDisjoint' /\ UnchangedKept'
  BY <1>2 DEF IInv, AllDisjoint, UnchangedKept, Disjoint, Additional, chain
<1> QED BY <1>5, <1>6, <1>7, <1>8 DEF IInv

LEMMA ElementKeeps ==
  ASSUME IInv, NEW e \in todo, todo' = todo \ {e}, Inside',
         UNCHANGED <<chain, notified, related, group, mappings>>
  PROVE  IInv'
<1>1. Pending' = Pending /\ Settled' = Settled
  BY DEF Pending, Settled, Additional, chain
<1>2. Shapes'
  BY DEF IInv, Shapes, chain
<1>3. PendingApart'
  BY <1>1 DEF IInv, PendingApart, Disjoint, Apart
<1>4. AllDisjoint' /\ UnchangedKept'
  BY DEF IInv, AllDisjoint, UnchangedKept, Disjoint, Additional, chain
<1> QED BY <1>2, <1>3, <1>4 DEF IInv

LEMMA MapNothingKeeps == ASSUME IInv, MapNothing PROVE IInv'
<1>1. PICK e \in todo : todo' = todo \ {e}
  BY DEF MapNothing
<1>2. UNCHANGED <<chain, notified, related, group, fresh, mappings>>
  BY DEF MapNothing
<1>3. Inside'
  BY <1>1, <1>2 DEF IInv, Inside, Disjoint
<1> QED BY <1>1, <1>2, <1>3, ElementKeeps

(* The merged mapping takes with it everything that shares an element.     *)
LEMMA MapElementKeeps == ASSUME IInv, MapElement PROVE IInv'
<1>1. PICK e \in todo : \E order :
        /\ fresh' = (fresh \ Conflicts(Best(e))) \cup {Merge(Best(e), order)}
        /\ todo' = todo \ {e}
  BY DEF MapElement
<1>2. PICK order :
        fresh' = (fresh \ Conflicts(Best(e))) \cup {Merge(Best(e), order)}
  BY <1>1
<1>3. UNCHANGED <<chain, notified, related, group, mappings>> /\ todo' = todo \ {e}
  BY <1>1 DEF MapElement
<1> DEFINE m == Best(e)
           C == Conflicts(m)
           new == Merge(m, order)
<1>4. m.from = {e} /\ m.to \subseteq group.to
  BY BestInside
<1>5. new.from = {e} \cup Froms(C) /\ new.to = m.to \cup Tos(C)
  BY <1>4 DEF Merge
<1>6. C \subseteq fresh /\ \A n \in fresh \ C : n.to \cap m.to = {}
  BY DEF Conflicts
<1>7. fresh' = (fresh \ C) \cup {new}
  BY <1>2
<1> HIDE DEF m, C, new
<1>8. group # NoGroup
  BY DEF IInv, Inside
<1>9. \A n \in fresh : n.from \subseteq group.from \ todo /\ n.to \subseteq group.to
  BY <1>8 DEF IInv, Inside
<1>10. new.from \subseteq group.from \ todo' /\ new.to \subseteq group.to
  BY <1>3, <1>4, <1>5, <1>6, <1>8, <1>9 DEF IInv, Inside, Froms, Tos
<1>11. \A n \in fresh \ C : Apart(n, new)
  <2> SUFFICES ASSUME NEW n \in fresh \ C PROVE Apart(n, new)
    OBVIOUS
  <2>1. \A c \in C : Apart(n, c)
    BY <1>6 DEF IInv, Inside, Disjoint, Apart
  <2>2. e \notin n.from
    BY <1>9
  <2> QED BY <1>5, <1>6, <2>1, <2>2 DEF Apart, Froms, Tos
<1>12. Disjoint(fresh')
  BY <1>7, <1>11 DEF IInv, Inside, Disjoint, Apart
<1>13. Inside'
  BY <1>3, <1>7, <1>8, <1>9, <1>10, <1>12 DEF IInv, Inside, Disjoint
<1> QED BY <1>3, <1>13, ElementKeeps

LEMMA GroupDoneKeeps == ASSUME IInv, GroupDone PROVE IInv'
<1>1. /\ group # NoGroup /\ group' = NoGroup /\ fresh' = {} /\ todo' = {}
      /\ mappings' = mappings \cup fresh
      /\ notified' \subseteq notified \cup fresh
      /\ UNCHANGED <<chain, related>>
  BY DEF GroupDone
<1>2. \A n \in fresh : n.from \subseteq group.from /\ n.to \subseteq group.to
  BY <1>1 DEF IInv, Inside
<1>3. group \in Groups /\ group \notin related
  BY <1>1 DEF IInv, Shapes
<1>4. Pending = related \cup {group} /\ Pending' = related
  BY <1>1 DEF Pending
<1>5. \A s \in Settled, n \in fresh : Apart(s, n)
  BY <1>2, <1>4 DEF IInv, PendingApart, Apart
<1>6. \A g \in related, n \in fresh : Apart(n, g)
  BY <1>2, <1>3, <1>4 DEF IInv, PendingApart, Disjoint, Apart
<1>7. Additional' = Additional
  BY <1>1 DEF Additional, chain
<1>8. Settled' \subseteq Settled \cup fresh
  BY <1>1, <1>7 DEF Settled
<1>9. Shapes'
  BY <1>1, <1>2, <1>3 DEF IInv, Shapes, Groups, chain
<1>10. Inside'
  BY <1>1 DEF Inside, Disjoint
<1>11. PendingApart'
  <2>1. \A s \in Settled \cup fresh, g \in related : Apart(s, g)
    BY <1>4, <1>6 DEF IInv, PendingApart
  <2>2. Disjoint(related)
    BY <1>4 DEF IInv, PendingApart, Disjoint
  <2> QED BY <1>4, <1>8, <2>1, <2>2 DEF PendingApart, Disjoint, Apart
<1>12. AllDisjoint'
  <2>1. \A s \in (mappings \cup Additional) \cup notified, n \in fresh : Apart(s, n)
    BY <1>5 DEF Settled
  <2>2. Disjoint((mappings \cup Additional) \cup fresh)
    BY <2>1 DEF IInv, AllDisjoint, Inside, Disjoint, Apart
  <2>3. Disjoint(notified \cup fresh)
    BY <2>1 DEF IInv, AllDisjoint, Inside, Disjoint, Apart
  <2>4. Disjoint(previous)
    BY DEF IInv, AllDisjoint
  <2>5. (mappings \cup Additional)' = (mappings \cup Additional) \cup fresh
    BY <1>1, <1>7
  <2>6. Disjoint(mappings' \cup Additional')
    BY <2>2, <2>5
  <2>7. Disjoint(notified')
    BY <1>1, <2>3 DEF Disjoint
  <2> QED BY <1>1, <2>4, <2>6, <2>7 DEF AllDisjoint, Disjoint, chain
<1> QED BY <1>1, <1>9, <1>10, <1>11, <1>12 DEF IInv, UnchangedKept, chain

(* A differ that looks at what is unmapped takes over.                     *)
LEMMA UnmappedNext ==
  ASSUME IInv, NEW from, NEW to, DifferDone(from, to),
         related' = UnmappedGroups(previous'), notified' = {},
         Additional' = previous', UnchangedKept'
  PROVE  IInv'
<1>1. /\ group = NoGroup /\ group' = NoGroup /\ fresh' = fresh /\ todo' = todo
      /\ previous' = mappings \cup Additional /\ mappings' = {}
  BY DEF DifferDone
<1>2. Pending' = UnmappedGroups(previous') /\ Settled' = previous'
  BY <1>1 DEF Pending, Settled
<1>3. \A m \in previous' : m.from \subseteq V1 /\ m.to \subseteq V2
  BY <1>1, SMT DEF IInv, Shapes, Additional, UnchangedKept
<1> QED
  <2>1. Shapes'
    BY <1>1, <1>3, UnmappedApart DEF Shapes
  <2>2. Inside'
    BY <1>1 DEF IInv, Inside, Disjoint
  <2>3. PendingApart'
    BY <1>2, UnmappedApart DEF PendingApart, Disjoint, Apart
  <2>4. AllDisjoint'
    BY <1>1 DEF IInv, AllDisjoint, Disjoint
  <2> QED BY <2>1, <2>2, <2>3, <2>4 DEF IInv

LEMMA UnchangedDoneKeeps == ASSUME IInv, UnchangedDone PROVE IInv'
<1>1. DifferDone("unchanged", "simple") /\ unchanged' = previous' /\ differ' = "simple"
      /\ related' = UnmappedGroups(previous') /\ notified' = {}
  BY DEF UnchangedDone, DifferDone
<1>2. Additional' = previous' /\ UnchangedKept'
  BY <1>1 DEF Additional, UnchangedKept
<1> QED BY <1>1, <1>2, UnmappedNext

LEMMA StrictDoneKeeps == ASSUME IInv, StrictDone PROVE IInv'
<1>1. DifferDone("strict", "inheritance") /\ differ' = "inheritance"
      /\ related' = UnmappedGroups(previous') /\ notified' = {}
  BY DEF StrictDone, DifferDone
<1>2. Additional' = previous' /\ UnchangedKept'
  BY <1>1 DEF Additional, UnchangedKept
<1> QED BY <1>1, <1>2, UnmappedNext

LEMMA InheritanceDoneKeeps == ASSUME IInv, InheritanceDone PROVE IInv'
<1>1. /\ differ = "inheritance" /\ differ' = "done"
      /\ group = NoGroup /\ group' = NoGroup /\ fresh' = fresh /\ todo' = todo
      /\ previous' = mappings \cup previous /\ mappings' = {}
      /\ related' = {} /\ notified' = {}
  BY DEF InheritanceDone, DifferDone, Additional
<1>2. Additional' = previous' /\ Additional = previous
  BY <1>1 DEF Additional
<1>3. Disjoint(previous')
  BY <1>1, <1>2 DEF IInv, AllDisjoint
<1>4. Shapes' /\ Inside' /\ PendingApart'
  BY <1>1 DEF IInv, Shapes, Inside, PendingApart, Pending, Disjoint
<1>5. AllDisjoint' /\ UnchangedKept'
  BY <1>1, <1>2, <1>3 DEF AllDisjoint, UnchangedKept, Disjoint
<1> QED BY <1>4, <1>5 DEF IInv

(* StrictDiffer splits up ambiguous mappings; the others, and what has not *)
(* changed, are not touched by that.                                       *)
LEMMA SimpleDoneKeeps == ASSUME IInv, SimpleDone PROVE IInv'
<1>1. /\ differ = "simple" /\ differ' = "strict" /\ unchanged' = unchanged
      /\ group = NoGroup /\ group' = NoGroup /\ fresh' = fresh /\ todo' = todo
      /\ previous' = mappings \cup previous /\ mappings' = {}
      /\ related' = AmbiguousGroups(previous', unchanged)
      /\ notified' = KnownToStrict(previous', unchanged)
  BY DEF SimpleDone, DifferDone, Additional
<1>2. unchanged \subseteq previous' /\ Additional' = unchanged
  BY <1>1 DEF IInv, UnchangedKept, Additional
<1>3. Disjoint(previous')
  BY <1>1 DEF IInv, AllDisjoint, Additional
<1>4. \A m \in previous' : m.from \subseteq V1 /\ m.to \subseteq V2
  BY <1>1 DEF IInv, Shapes
<1>5. \A g \in related' : \E m \in previous' \ notified' :
        g = [from |-> m.from, to |-> m.to]
  BY <1>1, <1>2 DEF AmbiguousGroups, Ambiguous, KnownToStrict
<1>6. notified' \subseteq previous' /\ unchanged \subseteq notified'
  BY <1>1, <1>2 DEF KnownToStrict
<1>7. Pending' = related' /\ Settled' = notified'
  BY <1>1, <1>2, <1>6 DEF Pending, Settled
<1>8. Shapes'
  <2>1. related' \subseteq Groups
    BY <1>4, <1>5 DEF Groups
  <2> QED BY <1>1, <1>4, <2>1 DEF Shapes
<1>9. Inside'
  BY <1>1 DEF IInv, Inside, Disjoint
<1>10. PendingApart'
  <2>1. Disjoint(related')
    BY <1>3, <1>5 DEF Disjoint
  <2>2. \A m \in notified', g \in related' : Apart(m, g)
    BY <1>3, <1>5, <1>6 DEF Disjoint, Apart
  <2> QED BY <1>7, <2>1, <2>2 DEF PendingApart, Disjoint, Apart
<1>11. AllDisjoint'
  BY <1>1, <1>2, <1>3, <1>6 DEF AllDisjoint, Disjoint
<1>12. UnchangedKept'
  BY <1>1, <1>2 DEF UnchangedKept
<1> QED BY <1>8, <1>9, <1>10, <1>11, <1>12 DEF IInv

LEMMA StutterKeeps == ASSUME IInv, UNCHANGED vars PROVE IInv'
<1>1. Pending' = Pending /\ Settled' = Settled /\ Additional' = Additional
  BY DEF vars, chain, Pending, Settled, Additional
<1> QED BY <1>1 DEF IInv, Shapes, Inside, PendingApart, AllDisjoint,
                    UnchangedKept, Disjoint, Apart, vars, chain

LEMMA NextIInv == ASSUME MappingInputs, IInv, [Next]_vars PROVE IInv'
BY NextGroupKeeps, MapNothingKeeps, MapElementKeeps, GroupDoneKeeps,
   UnchangedDoneKeeps, SimpleDoneKeeps, StrictDoneKeeps, InheritanceDoneKeeps,
   StutterKeeps DEF Next, Terminated

-----------------------------------------------------------------------------
(* Mappings of a related mapping are connected components.                 *)

(* No part of a mapping can be told apart from the rest.                   *)
Connected(m) ==
  \A part \in (SUBSET m.from) \ {{}, m.from} :
    \E e \in part, f \in m.from \ part : Best(e).to \cap Best(f).to # {}

Mappable == {e \in group.from \ todo : Candidates(e) # {}}

Component(m) == m.to = UNION {Best(e).to : e \in m.from} /\ Connected(m)

Components ==
  group # NoGroup => Froms(fresh) = Mappable /\ \A m \in fresh : Component(m)

LEMMA ComponentsImply == Components => GroupsAreComponents
<1> SUFFICES ASSUME Components, group # NoGroup
             PROVE  LET best == [e \in Mappable |-> Best(e).to]
                    IN  /\ Froms(fresh) = Mappable
                        /\ \A m \in fresh :
                             /\ m.to = UNION {best[e] : e \in m.from}
                             /\ \A part \in (SUBSET m.from) \ {{}, m.from} :
                                  \E e \in part, f \in m.from \ part :
                                    best[e] \cap best[f] # {}
  BY DEF GroupsAreComponents, Mappable
<1> DEFINE best == [e \in Mappable |-> Best(e).to]
<1>1. \A m \in fresh : m.from \subseteq Mappable
  BY DEF Components, Froms
<1>2. \A m \in fresh : \A e \in m.from : best[e] = Best(e).to
  BY <1>1
<1> HIDE DEF best
<1>3. ASSUME NEW m \in fresh
      PROVE  /\ m.to = UNION {best[e] : e \in m.from}
             /\ \A part \in (SUBSET m.from) \ {{}, m.from} :
                  \E e \in part, f \in m.from \ part : best[e] \cap best[f] # {}
  <2>1. {best[e] : e \in m.from} = {Best(e).to : e \in m.from}
    BY <1>2
  <2>2. m.to = UNION {best[e] : e \in m.from}
    BY <2>1 DEF Components, Component
  <2>3. \A part \in (SUBSET m.from) \ {{}, m.from} :
          \E e \in part, f \in m.from \ part : best[e] \cap best[f] # {}
    BY <1>2 DEF Components, Component, Connected
  <2> QED BY <2>2, <2>3
<1> QED BY <1>3 DEF Components, best

(* What is similar does not change while a related mapping is looked at.   *)
LEMMA RowsStay ==
  ASSUME UNCHANGED <<chain, notified>>, NEW e
  PROVE  Row(e)' = Row(e)
<1>1. /\ UNCHANGED <<similarity, same, super>>
      /\ UNCHANGED <<differ, previous, unchanged, notified>>
  BY DEF chain, input
<1>2. \A f : Similarity(e, f)' = Similarity(e, f)
  BY <1>1 DEF Similarity, UnchangedSimilarity, SimpleSimilarity, StrictSimilarity,
              StrictAllows, InheritanceSimilarity, InheritanceAllows
<1> QED BY <1>2 DEF Row

LEMMA BestStays ==
  ASSUME UNCHANGED <<chain, notified, group>>
  PROVE  \A e : Best(e)' = Best(e) /\ Candidates(e)' = Candidates(e)
<1> SUFFICES ASSUME NEW e
             PROVE  Best(e)' = Best(e) /\ Candidates(e)' = Candidates(e)
  OBVIOUS
<1>1. Row(e)' = Row(e) /\ group' = group
  BY RowsStay
<1> QED BY <1>1 DEF Best, Candidates

(* A mapping merged with all that it shares an element with.               *)
LEMMA MergedIsComponent ==
  ASSUME NEW e, NEW C, NEW new,
         \A c \in C : Component(c) /\ c.to \cap Best(e).to # {},
         new.from = {e} \cup Froms(C), new.to = Best(e).to \cup Tos(C)
  PROVE  Component(new)
<1>1. new.to = UNION {Best(x).to : x \in new.from}
  BY DEF Component, Froms, Tos
<1>2. ASSUME NEW part \in (SUBSET new.from) \ {{}, new.from}
      PROVE  \E x \in part, y \in new.from \ part : Best(x).to \cap Best(y).to # {}
  <2>1. CASE \E c \in C : part \cap c.from \notin {{}, c.from}
    <3>1. PICK c \in C : part \cap c.from \notin {{}, c.from}
      BY <2>1
    <3>2. PICK own : own = part \cap c.from
      OBVIOUS
    <3>3. own \in (SUBSET c.from) \ {{}, c.from}
      BY <3>1, <3>2
    <3>4. PICK x \in own, y \in c.from \ own : Best(x).to \cap Best(y).to # {}
      BY <3>3 DEF Component, Connected
    <3>5. x \in part /\ y \in new.from \ part
      BY <3>2, <3>4 DEF Froms
    <3> QED BY <3>4, <3>5
  <2>2. CASE \A c \in C : part \cap c.from \in {{}, c.from}
    <3>1. \A c \in C : \E x \in c.from : Best(x).to \cap Best(e).to # {}
      BY DEF Component
    <3>2. CASE e \in part
      <4>1. PICK c \in C : c.from \ part # {}
        BY <3>2 DEF Froms
      <4>2. c.from \cap part = {}
        BY <2>2, <4>1
      <4>3. PICK x \in c.from : Best(x).to \cap Best(e).to # {}
        BY <3>1
      <4>4. x \in new.from \ part
        BY <4>2, <4>3 DEF Froms
      <4> QED BY <3>2, <4>3, <4>4
    <3>3. CASE e \notin part
      <4>1. PICK c \in C : c.from \cap part # {}
        BY <3>3 DEF Froms
      <4>2. c.from \subseteq part
        BY <2>2, <4>1
      <4>3. PICK x \in c.from : Best(x).to \cap Best(e).to # {}
        BY <3>1
      <4>4. x \in part /\ e \in new.from \ part
        BY <3>3, <4>2
      <4> QED BY <4>3, <4>4
    <3> QED BY <3>2, <3>3
  <2> QED BY <2>1, <2>2
<1> QED BY <1>1, <1>2 DEF Component, Connected

LEMMA ComponentStays ==
  ASSUME UNCHANGED <<chain, notified, group>>, NEW m, Component(m)
  PROVE  Component(m)'
<1>1. \A e : Best(e)' = Best(e)
  BY BestStays
<1> QED BY <1>1 DEF Component, Connected

LEMMA NothingKeepsComponents ==
  ASSUME IInv, Components, MapNothing
  PROVE  Components'
<1>1. PICK e \in todo : Candidates(e) = {} /\ todo' = todo \ {e}
  BY DEF MapNothing
<1>2. UNCHANGED <<chain, notified, group>> /\ group' = group /\ fresh' = fresh
  BY DEF MapNothing
<1>3. \A x : Candidates(x)' = Candidates(x)
  BY <1>2, BestStays
<1>4. Mappable' = Mappable
  BY <1>1, <1>2, <1>3 DEF Mappable
<1> QED BY <1>2, <1>4, ComponentStays DEF Components, Froms

LEMMA ElementKeepsComponents ==
  ASSUME IInv, Components, MapElement
  PROVE  Components'
<1>1. PICK e \in todo :
        /\ Candidates(e) # {}
        /\ \E order : fresh' = (fresh \ Conflicts(Best(e))) \cup {Merge(Best(e), order)}
        /\ todo' = todo \ {e}
  BY DEF MapElement
<1>2. PICK order :
        fresh' = (fresh \ Conflicts(Best(e))) \cup {Merge(Best(e), order)}
  BY <1>1
<1>3. UNCHANGED <<chain, notified, group>> /\ group' = group
  BY DEF MapElement
<1> DEFINE C == Conflicts(Best(e))
           new == Merge(Best(e), order)
<1>4. Best(e).from = {e}
  BY BestInside
<1>5. new.from = {e} \cup Froms(C) /\ new.to = Best(e).to \cup Tos(C)
  BY <1>4 DEF Merge
<1>6. C \subseteq fresh /\ \A c \in C : c.to \cap Best(e).to # {}
  BY DEF Conflicts
<1>7. fresh' = (fresh \ C) \cup {new}
  BY <1>2
<1> HIDE DEF C, new
<1>8. group # NoGroup /\ todo \subseteq group.from
  BY DEF IInv, Inside
<1>9. \A m \in fresh : Component(m)
  BY <1>8 DEF Components
<1>10. Component(new)
  BY <1>5, <1>6, <1>9, MergedIsComponent
<1>11. \A m \in fresh' : Component(m)'
  BY <1>3, <1>7, <1>9, <1>10, ComponentStays
<1>12. Mappable' = Mappable \cup {e}
  <2>1. \A x : Candidates(x)' = Candidates(x)
    BY <1>3, BestStays
  <2> QED BY <1>1, <1>3, <1>8, <2>1 DEF Mappable
<1>13. Froms(fresh') = Froms(fresh) \cup {e}
  BY <1>5, <1>6, <1>7 DEF Froms
<1> QED BY <1>8, <1>11, <1>12, <1>13 DEF Components

LEMMA OthersKeepComponents ==
  ASSUME IInv, Components,
         NextGroup \/ UNCHANGED vars \/ group' = NoGroup
  PROVE  Components'
<1>1. CASE NextGroup
  <2>1. fresh' = {} /\ todo' = group'.from
    BY <1>1 DEF NextGroup, IInv, Inside
  <2> QED BY <2>1 DEF Components, Mappable, Froms
<1>2. CASE UNCHANGED vars
  <2>1. /\ UNCHANGED <<chain, notified, group>>
        /\ group' = group /\ fresh' = fresh /\ todo' = todo
    BY <1>2 DEF vars
  <2>2. \A x : Candidates(x)' = Candidates(x)
    BY <2>1, BestStays
  <2>3. Mappable' = Mappable
    BY <2>1, <2>2 DEF Mappable
  <2> QED BY <2>1, <2>3, ComponentStays DEF Components, Froms
<1>3. CASE group' = NoGroup
  BY <1>3 DEF Components
<1> QED BY <1>1, <1>2, <1>3

LEMMA NextComponents ==
  ASSUME IInv, Components, [Next]_vars
  PROVE  Components'
<1>1. CASE MapNothing
  BY <1>1, NothingKeepsComponents
<1>2. CASE MapElement
  BY <1>2, ElementKeepsComponents
<1>3. CASE GroupDone
  BY <1>3, OthersKeepComponents DEF GroupDone
<1>4. CASE UnchangedDone \/ SimpleDone \/ StrictDone \/ InheritanceDone
  <2>1. group' = NoGroup
    BY <1>4 DEF UnchangedDone, SimpleDone, StrictDone, InheritanceDone, DifferDone
  <2> QED BY <2>1, OthersKeepComponents
<1>5. CASE NextGroup \/ UNCHANGED vars
  BY <1>5, OthersKeepComponents
<1> QED BY <1>1, <1>2, <1>3, <1>4, <1>5 DEF Next, Terminated

(* At any time, no element of either version is in two mappings, for any   *)
(* APIs and similarities: merging mappings that share an element keeps     *)
(* those of a differ apart, and what it looks at is apart from what it     *)
(* takes over from the differ before.                                      *)
THEOREM MappedOnce == Spec => []ElementsMappedOnce
<1>1. Init => IInv
  BY InitIInv, MappingInputs
<1>2. IInv /\ [Next]_vars => IInv'
  BY NextIInv, MappingInputs
<1> QED BY <1>1, <1>2, InvImplies, PTL DEF Spec

(* However the elements of a related mapping are ordered and merged, its   *)
(* mappings are the connected components of "is a best match of", for any  *)
(* APIs and similarities: a new mapping takes in all that it shares an     *)
(* element with, and nothing else.                                         *)
THEOREM ComponentsOnly == Spec => []GroupsAreComponents
<1>1. Init => IInv /\ Components
  BY InitIInv, MappingInputs DEF Init, Components
<1>2. IInv /\ Components /\ [Next]_vars => IInv' /\ Components'
  BY NextIInv, NextComponents, MappingInputs
<1> QED BY <1>1, <1>2, ComponentsImply, PTL DEF Spec
-----------------------------------------------------------------------------
(* Numbers and what is computed step by step.                              *)
LEMMA Least ==
  ASSUME NEW T \in SUBSET Nat, T # {}
  PROVE  \E x \in T : \A y \in T : x <= y
<1>1. PICK R : R = OpToRel(<, Nat)
  OBVIOUS
<1>2. IsWellFoundedOn(R, Nat)
  BY <1>1, NatLessThanWellFounded
<1>3. \A i, j \in Nat : i < j => <<i, j>> \in R
  BY <1>1 DEF OpToRel
<1>4. PICK x \in T : \A y \in T : <<y, x>> \notin R
  BY <1>2, WFMin
<1>5. \A y \in T : ~(y < x)
  BY <1>3, <1>4
<1> QED BY <1>5

LEMMA SetInduction ==
  ASSUME NEW S \in SUBSET Nat, 0 \in S, \A n \in S : n + 1 \in S
  PROVE  S = Nat
<1> SUFFICES ASSUME Nat \ S # {} PROVE FALSE
  OBVIOUS
<1>1. PICK x \in Nat \ S : \A y \in Nat \ S : x <= y
  BY Least
<1>2. x - 1 \in S
  BY <1>1
<1> QED BY <1>1, <1>2

(* merge_mappings halves the sum of two similarities.                      *)
LEMMA MeanSteps ==
  ASSUME NEW first \in Int, NEW rest \in Seq(Int)
  PROVE  /\ Mean(first, rest) \in [0..Len(rest) -> Int]
         /\ Mean(first, rest)[0] = first
         /\ \A i \in 1..Len(rest) :
              Mean(first, rest)[i] = (Mean(first, rest)[i - 1] + rest[i]) \div 2
<1> DEFINE N == Len(rest)
           Halves(f, n) == \A i \in 1..n : f[i] = (f[i - 1] + rest[i]) \div 2
           Upto(n) == {f \in [0..n -> Int] : f[0] = first /\ Halves(f, n)}
           S == {n \in Nat : n <= N => Upto(n) # {}}
<1>1. N \in Nat /\ \A i \in 1..N : rest[i] \in Int
  OBVIOUS
<1> HIDE DEF N
<1>2. 0 \in S
  <2>1. PICK f : f = [i \in 0..0 |-> first]
    OBVIOUS
  <2>2. f \in Upto(0)
    BY <2>1
  <2> QED BY <2>2
<1>3. ASSUME NEW n \in S PROVE n + 1 \in S
  <2> SUFFICES ASSUME n + 1 <= N
               PROVE  Upto(n + 1) # {}
    OBVIOUS
  <2>1. n \in Nat /\ n <= N
    BY <1>1
  <2>2. PICK f \in [0..n -> Int] : f[0] = first /\ Halves(f, n)
    BY <2>1
  <2>3. PICK new \in Int : new = (f[n] + rest[n + 1]) \div 2
    BY <1>1, <2>1, <2>2
  <2>4. PICK g : g = [i \in 0..n + 1 |-> IF i = n + 1 THEN new ELSE f[i]]
    OBVIOUS
  <2>5. \A i \in 0..n + 1 : i = n + 1 \/ i \in 0..n
    BY <2>1
  <2>6. g \in [0..n + 1 -> Int]
    BY <2>2, <2>3, <2>4, <2>5
  <2>7. (\A i \in 0..n : g[i] = f[i]) /\ g[n + 1] = new
    BY <2>1, <2>4
  <2>8. Halves(g, n + 1)
    <3> SUFFICES ASSUME NEW i \in 1..n + 1
                 PROVE  g[i] = (g[i - 1] + rest[i]) \div 2
      OBVIOUS
    <3>1. CASE i = n + 1
      <4>1. i - 1 = n /\ n \in 0..n
        BY <2>1, <3>1
      <4> QED BY <2>3, <2>7, <3>1, <4>1
    <3>2. CASE i # n + 1
      <4>1. i \in 1..n /\ i \in 0..n /\ i - 1 \in 0..n
        BY <2>1, <3>2
      <4> QED BY <2>2, <2>7, <4>1
    <3> QED BY <3>1, <3>2
  <2>9. g[0] = first
    BY <2>1, <2>2, <2>7
  <2> QED BY <2>6, <2>8, <2>9
<1>4. PICK f \in [0..N -> Int] : f[0] = first /\ Halves(f, N)
  <2> HIDE DEF Upto
  <2>1. S = Nat
    BY <1>2, <1>3, SetInduction
  <2>2. Upto(N) # {}
    BY <1>1, <2>1
  <2> QED BY <2>2 DEF Upto
<1> DEFINE Step(g) == [i \in 0..N |-> IF i = 0 THEN first
                                      ELSE (g[i - 1] + rest[i]) \div 2]
           mean == CHOOSE g : g = Step(g)
<1>5. f = Step(f)
  <2>1. ASSUME NEW i \in 0..N PROVE f[i] = Step(f)[i]
    <3>1. i = 0 \/ i \in 1..N
      BY <1>1
    <3> QED BY <1>1, <1>4, <3>1
  <2> QED BY <2>1
<1>6. mean = Step(mean)
  <2> HIDE DEF Step
  <2> QED BY <1>5
<1>7. Mean(first, rest) = mean
  BY DEF Mean, N
<1> HIDE DEF mean
<1>8. mean[0] = first /\ Halves(mean, N) /\ DOMAIN mean = 0..N
  <2>1. 0 \in 0..N /\ \A i \in 1..N : i \in 0..N /\ i # 0
    BY <1>1
  <2> QED BY <1>6, <2>1
<1> HIDE DEF Step
<1> DEFINE T == {n \in Nat : n <= N => mean[n] \in Int}
<1>9. T = Nat
  <2>1. 0 \in T
    BY <1>8
  <2>2. ASSUME NEW n \in T PROVE n + 1 \in T
    <3> SUFFICES ASSUME n + 1 <= N PROVE mean[n + 1] \in Int
      OBVIOUS
    <3>1. n + 1 \in 1..N /\ (n + 1) - 1 = n /\ mean[n] \in Int
      BY <1>1
    <3>2. mean[n + 1] = (mean[n] + rest[n + 1]) \div 2
      BY <1>8, <3>1
    <3> QED BY <1>1, <3>1, <3>2
  <2> HIDE DEF T
  <2> QED BY <2>1, <2>2, SetInduction DEF T
<1>10. mean \in [0..N -> Int]
  <2>1. \A i \in 0..N : mean[i] \in Int
    BY <1>1, <1>9
  <2>2. mean = [i \in 0..N |-> mean[i]]
    BY <1>6 DEF Step
  <2> QED BY <2>1, <2>2
<1> QED BY <1>7, <1>8, <1>10 DEF N
-----------------------------------------------------------------------------
(* The mappings of an element, sorted by decreasing similarity.            *)
LEMMA SortedFacts ==
  ASSUME NEW row, NEW to, IsFiniteSet(to), \A f \in to : row[f] \in Int,
         NEW C, C = SimilarEnough(row, to)
  PROVE  /\ IsFiniteSet(C) /\ Cardinality(C) \in Nat
         /\ Sorted(row, to) \in Bijection(1..Cardinality(C), C)
         /\ \A i, j \in 1..Cardinality(C) :
              i < j => row[Sorted(row, to)[i]] >= row[Sorted(row, to)[j]]
<1> DEFINE Falls(s, n) == \A i, j \in 1..n : i < j => row[s[i]] >= row[s[j]]
           Orders(S) == {s \in SetToSeqs(S) : Falls(s, Cardinality(S))}
           K == {n \in Nat : \A S \in SUBSET C : Cardinality(S) = n => Orders(S) # {}}
<1>1. C \subseteq to /\ (\A f \in C : row[f] \in Int /\ row[f] - Creation \in Nat)
  BY MappingInputs DEF SimilarEnough
<1>2. \A S \in SUBSET C : IsFiniteSet(S) /\ Cardinality(S) \in Nat
  BY <1>1, FS_Subset, FS_CardinalityType
<1>3. 0 \in K
  <2> SUFFICES ASSUME NEW S \in SUBSET C, Cardinality(S) = 0 PROVE Orders(S) # {}
    OBVIOUS
  <2>1. S = {}
    BY <1>2, FS_EmptySet
  <2>2. PICK s : s = [i \in 1..0 |-> 0]
    OBVIOUS
  <2>3. s \in SetToSeqs(S) /\ Falls(s, 0)
    BY <2>1, <2>2, FS_EmptySet DEF SetToSeqs
  <2> QED BY <2>3
<1>4. ASSUME NEW n \in K PROVE n + 1 \in K
  <2> SUFFICES ASSUME NEW S \in SUBSET C, Cardinality(S) = n + 1 PROVE Orders(S) # {}
    BY DEF K
  <2>1. S # {} /\ n \in Nat
    BY FS_EmptySet
  <2>2. PICK f \in S : \A g \in S : row[f] <= row[g]
    <3> DEFINE T == {row[g] - Creation : g \in S}
    <3>1. T \in SUBSET Nat /\ T # {}
      BY <1>1, <2>1
    <3>2. PICK x \in T : \A y \in T : x <= y
      <4> HIDE DEF T
      <4> QED BY <3>1, Least
    <3>3. PICK g \in S : x = row[g] - Creation
      BY <3>2
    <3>4. \A h \in S : row[g] - Creation <= row[h] - Creation
      BY <3>2, <3>3
    <3>5. Creation \in Int
      BY MappingInputs
    <3> QED BY <1>1, <3>4, <3>5
  <2>3. Cardinality(S \ {f}) = n /\ S \ {f} \in SUBSET C
    BY <1>2, <2>1, FS_RemoveElement
  <2>4. PICK s \in SetToSeqs(S \ {f}) : Falls(s, n)
    BY <2>3
  <2>5. s \in [1..n -> S \ {f}] /\ \A i, j \in 1..n : i # j => s[i] # s[j]
    BY <2>3, <2>4 DEF SetToSeqs
  <2>6. PICK t : t = [i \in 1..n + 1 |-> IF i = n + 1 THEN f ELSE s[i]]
    OBVIOUS
  <2>7. \A i \in 1..n + 1 : i = n + 1 \/ i \in 1..n
    BY <2>1
  <2>8. n + 1 \in 1..n + 1 /\ \A i \in 1..n : i \in 1..n + 1 /\ i # n + 1
    BY <2>1
  <2>9. t[n + 1] = f /\ (\A i \in 1..n : t[i] = s[i]) /\ t \in [1..n + 1 -> S]
    BY <2>5, <2>6, <2>7, <2>8
  <2>10. \A i, j \in 1..n + 1 : i # j => t[i] # t[j]
    BY <2>5, <2>7, <2>9
  <2>11. t \in SetToSeqs(S)
    BY <2>9, <2>10 DEF SetToSeqs
  <2>12. Falls(t, n + 1)
    <3> SUFFICES ASSUME NEW i \in 1..n + 1, NEW j \in 1..n + 1, i < j
                 PROVE  row[t[i]] >= row[t[j]]
      OBVIOUS
    <3>1. i \in 1..n /\ t[i] \in S /\ (j \in 1..n \/ j = n + 1)
      BY <2>1, <2>9
    <3>2. CASE j \in 1..n
      BY <2>4, <2>9, <3>1, <3>2
    <3>3. CASE j = n + 1
      BY <1>1, <2>2, <2>9, <3>1, <3>3
    <3> QED BY <3>1, <3>2, <3>3
  <2> QED BY <2>11, <2>12
<1>5. K = Nat
  <2> HIDE DEF K
  <2>1. K \in SUBSET Nat
    BY DEF K
  <2> QED BY <1>3, <1>4, <2>1, SetInduction
<1>6. PICK N \in Nat : N = Cardinality(C) /\ IsFiniteSet(C)
  BY <1>2
<1>7. Orders(C) # {}
  BY <1>5, <1>6
<1>8. PICK s : s = Sorted(row, to)
  OBVIOUS
<1>9. s \in SetToSeqs(C) /\ \A i, j \in DOMAIN s : i < j => row[s[i]] >= row[s[j]]
  <2>1. PICK t \in SetToSeqs(C) : Falls(t, N)
    BY <1>6, <1>7
  <2>2. DOMAIN t = 1..N
    BY <1>6, <2>1 DEF SetToSeqs
  <2>3. \A i, j \in DOMAIN t : i < j => row[t[i]] >= row[t[j]]
    BY <2>1, <2>2
  <2> QED BY <1>8, <2>1, <2>3 DEF Sorted
<1>10. s \in Injection(1..N, C) /\ DOMAIN s = 1..N
  BY <1>6, <1>9 DEF SetToSeqs, Injection, IsInjective
<1>11. Cardinality(1..N) = N
  BY FS_Interval
<1>12. s \in Surjection(1..N, C)
  BY <1>6, <1>10, <1>11, FS_Injection
<1> QED BY <1>6, <1>8, <1>9, <1>10, <1>12 DEF Bijection

Falling(s, row, C) ==
  /\ s \in Bijection(1..Cardinality(C), C)
  /\ \A i, j \in 1..Cardinality(C) : i < j => row[s[i]] >= row[s[j]]

AtLeast(row, C, w) == {f \in C : row[f] >= w}

(* What comes first is told by how many elements are at least as similar.  *)
LEMMA Ranks ==
  ASSUME NEW row, NEW C, IsFiniteSet(C), \A f \in C : row[f] \in Int,
         NEW s, Falling(s, row, C), NEW w \in Int, NEW i \in 1..Cardinality(C)
  PROVE  row[s[i]] >= w <=> i <= Cardinality(AtLeast(row, C, w))
<1>1. PICK N \in Nat : N = Cardinality(C)
  BY FS_CardinalityType
<1>2. PICK D : D = {j \in 1..N : row[s[j]] >= w}
  OBVIOUS
<1>3. PICK F : F = {f \in C : row[f] >= w} /\ F = AtLeast(row, C, w)
  BY DEF AtLeast
<1>4. /\ s \in [1..N -> C]
      /\ \A j, k \in 1..N : s[j] = s[k] => j = k
      /\ \A f \in C : \E j \in 1..N : s[j] = f
      /\ \A j, k \in 1..N : j < k => row[s[j]] >= row[s[k]]
  BY <1>1 DEF Falling, Bijection, Injection, Surjection, IsInjective
<1>5. \A j \in 1..N : row[s[j]] \in Int
  BY <1>4
<1>6. Cardinality(F) = Cardinality(D)
  <2>1. PICK t : t = [j \in D |-> s[j]]
    OBVIOUS
  <2>2. \A j \in D : j \in 1..N /\ t[j] = s[j] /\ s[j] \in F
    BY <1>2, <1>3, <1>4, <2>1
  <2>3. t \in [D -> F]
    BY <2>1, <2>2
  <2>4. \A f \in F : \E j \in D : t[j] = f
    BY <1>2, <1>3, <1>4, <2>2
  <2>5. t \in Bijection(D, F)
    <3>1. \A j, k \in D : t[j] = t[k] => j = k
      BY <1>4, <2>2
    <3>2. t \in Injection(D, F)
      BY <2>3, <3>1 DEF Injection, IsInjective
    <3>3. t \in Surjection(D, F)
      BY <2>3, <2>4 DEF Surjection
    <3> QED BY <3>2, <3>3 DEF Bijection
  <2>6. IsFiniteSet(D)
    <3>1. IsFiniteSet(1..N) /\ D \in SUBSET (1..N)
      BY <1>2, FS_Interval
    <3> QED BY <3>1, FS_Subset
  <2> QED BY <2>5, <2>6, FS_Bijection DEF ExistsBijection
<1>7. PICK m \in (1..N + 1) \ D : \A j \in (1..N + 1) \ D : m <= j
  <2>1. (1..N + 1) \ D \in SUBSET Nat
    OBVIOUS
  <2>2. N + 1 \in (1..N + 1) \ D
    BY <1>2
  <2> QED BY <2>1, <2>2, Least
<1>8. D = 1..m - 1
  <2>1. ASSUME NEW j \in D PROVE j \in 1..m - 1
    <3>1. j \in 1..N /\ j # m
      BY <1>2, <1>7
    <3>2. ~(m < j)
      <4> SUFFICES ASSUME m < j PROVE FALSE
        OBVIOUS
      <4>1. m \in 1..N /\ row[s[m]] >= row[s[j]]
        BY <1>4, <1>7, <3>1
      <4>2. row[s[j]] >= w
        BY <1>2
      <4>3. row[s[m]] >= w
        BY <1>5, <3>1, <4>1, <4>2
      <4> QED BY <1>2, <1>7, <4>1, <4>3
    <3> QED BY <1>7, <3>1, <3>2
  <2>2. ASSUME NEW j \in 1..m - 1 PROVE j \in D
    BY <1>7
  <2> QED BY <2>1, <2>2
<1>9. Cardinality(D) = m - 1
  BY <1>7, <1>8, FS_Interval
<1>10. i \in D <=> i <= m - 1
  BY <1>7, <1>8
<1> QED BY <1>1, <1>2, <1>3, <1>6, <1>9, <1>10


(* What is merged into the mapping of an element, as many as are close to  *)
(* the mean of those before them.                                          *)
LEMMA MeansFacts ==
  ASSUME NEW sims \in Seq(Int), sims # <<>>
  PROVE  /\ Len(sims) \in Nat \ {0}
         /\ \A i \in 1..Len(sims) : sims[i] \in Int
         /\ \A i \in 0..Len(sims) - 1 : Means(sims)[i] \in Int
         /\ Means(sims)[0] = sims[1]
         /\ \A i \in 1..Len(sims) - 1 :
              Means(sims)[i] = (Means(sims)[i - 1] + sims[i + 1]) \div 2
<1>1. PICK rest : rest = Tail(sims)
  OBVIOUS
<1>2. PICK N : N = Len(sims)
  OBVIOUS
<1>3. /\ N \in Nat \ {0} /\ \A i \in 1..N : sims[i] \in Int
      /\ Head(sims) = sims[1] /\ Head(sims) \in Int
  BY <1>2, EmptySeq, LenProperties
<1>4. rest \in Seq(Int) /\ Len(rest) = N - 1 /\ \A i \in 1..N - 1 : rest[i] = sims[i + 1]
  BY <1>1, <1>2, HeadTailProperties
<1>5. PICK first \in Int : first = Head(sims)
  BY <1>3
<1>9. PICK mean : mean = Mean(first, rest)
  OBVIOUS
<1>6. /\ mean \in [0..Len(rest) -> Int] /\ mean[0] = first
      /\ \A i \in 1..Len(rest) : mean[i] = (mean[i - 1] + rest[i]) \div 2
  BY <1>4, <1>9, MeanSteps
<1>7. Means(sims) = mean
  BY <1>1, <1>5, <1>9 DEF Means
<1>8. \A i \in 0..N - 1 : mean[i] \in Int
  BY <1>4, <1>6
<1> QED BY <1>2, <1>3, <1>4, <1>5, <1>6, <1>7, <1>8

IsMerged(sims, k) ==
  /\ \A i \in 0..(k - 1) : CloseToMean(sims, i)
  /\ k < Len(sims) - 1 => ~CloseToMean(sims, k)

LEMMA MergedFacts ==
  ASSUME NEW sims, Len(sims) \in Nat \ {0}
  PROVE  /\ Merged(sims) \in 0..Len(sims) - 1 /\ IsMerged(sims, Merged(sims))
         /\ \A k \in 0..Len(sims) - 1 : IsMerged(sims, k) => k = Merged(sims)
<1>1. PICK N \in Nat \ {0} : N = Len(sims)
  OBVIOUS
<1> DEFINE T == {k \in 0..N - 1 : k < N - 1 => ~CloseToMean(sims, k)}
<1>2. T \in SUBSET Nat /\ N - 1 \in T
  OBVIOUS
<1>3. PICK k \in T : \A j \in T : k <= j
  <2> HIDE DEF T
  <2> QED BY <1>2, Least
<1>4. \A i \in 0..k - 1 : i \notin T /\ i < N - 1 /\ i \in 0..N - 1
  BY <1>2, <1>3
<1>5. k \in 0..N - 1 /\ IsMerged(sims, k)
  BY <1>1, <1>3, <1>4 DEF IsMerged
<1>6. Merged(sims) \in 0..N - 1 /\ IsMerged(sims, Merged(sims))
  BY <1>1, <1>5 DEF Merged, IsMerged
<1>7. \A i, j \in 0..N - 1 : i < j => ~(IsMerged(sims, i) /\ IsMerged(sims, j))
  <2> SUFFICES ASSUME NEW i \in 0..N - 1, NEW j \in 0..N - 1, i < j,
                      IsMerged(sims, i), IsMerged(sims, j)
               PROVE  FALSE
    OBVIOUS
  <2>1. i \in 0..j - 1 /\ i < N - 1
    OBVIOUS
  <2> QED BY <1>1, <2>1 DEF IsMerged
<1> QED BY <1>1, <1>6, <1>7

(* Similarities that fall: what comes after the merged ones is less        *)
(* similar than all of them, so that it does not matter in which order     *)
(* equally similar elements are.                                           *)
LEMMA MergedApart ==
  ASSUME NEW sims \in Seq(Int), sims # <<>>,
         \A i, j \in 1..Len(sims) : i < j => sims[i] >= sims[j],
         NEW n, n = Merged(sims) + 1
  PROVE  /\ n \in 1..Len(sims)
         /\ \A i \in 1..Len(sims) : sims[i] >= sims[n] <=> i <= n
<1>1. PICK N \in Nat \ {0} : N = Len(sims)
  BY MeansFacts
<1>2. PICK mean : mean = Means(sims)
  OBVIOUS
<1>3. /\ \A i \in 1..N : sims[i] \in Int
      /\ \A i \in 0..N - 1 : mean[i] \in Int
      /\ mean[0] = sims[1]
      /\ \A i \in 1..N - 1 : mean[i] = (mean[i - 1] + sims[i + 1]) \div 2
  BY <1>1, <1>2, MeansFacts
<1>4. PICK k \in 0..N - 1 : n = k + 1 /\ IsMerged(sims, k)
  BY <1>1, MergedFacts
<1> DEFINE T == {i \in Nat : i <= N - 1 => mean[i] >= sims[i + 1]}
<1>5. T = Nat
  <2>1. 0 \in T
    BY <1>3
  <2>2. ASSUME NEW i \in T PROVE i + 1 \in T
    <3> SUFFICES ASSUME i + 1 <= N - 1 PROVE mean[i + 1] >= sims[(i + 1) + 1]
      OBVIOUS
    <3>1. i \in 0..N - 1 /\ i + 1 \in 1..N - 1 /\ i + 1 \in 1..N /\ (i + 1) + 1 \in 1..N
      BY <1>1
    <3>2. mean[i] >= sims[i + 1] /\ sims[i + 1] >= sims[(i + 1) + 1]
      BY <1>1, <3>1
    <3>3. mean[i + 1] = (mean[i] + sims[(i + 1) + 1]) \div 2
      BY <1>3, <3>1
    <3>4. mean[i] \in Int /\ sims[i + 1] \in Int /\ sims[(i + 1) + 1] \in Int
      BY <1>3, <3>1
    <3> QED BY <3>2, <3>3, <3>4
  <2> HIDE DEF T
  <2>3. T \in SUBSET Nat
    BY DEF T
  <2> QED BY <2>1, <2>2, <2>3, SetInduction
<1>6. ASSUME n < N PROVE sims[n + 1] < sims[n]
  <2>1. /\ n \in 1..N - 1 /\ n + 1 \in 1..N /\ n \in 1..N
        /\ k < N - 1 /\ n + 1 = k + 2
    BY <1>4, <1>6
  <2>2. PICK now \in Int, next \in Int, m \in Int, between \in Nat \ {0} :
          now = sims[n] /\ next = sims[n + 1] /\ m = mean[k] /\ between = Between
    <3>1. sims[n] \in Int /\ sims[n + 1] \in Int /\ mean[k] \in Int
      BY <1>3, <1>4, <2>1
    <3>2. Between \in Nat \ {0}
      BY MappingInputs
    <3> QED BY <3>1, <3>2, Zenon
  <2>3. m - next >= between
    <3>1. ~(mean[k] - sims[k + 2] < Between)
      BY <1>1, <1>2, <1>4, <2>1 DEF IsMerged, CloseToMean
    <3>2. ~(m - next < between)
      BY <2>1, <2>2, <3>1
    <3> QED BY <3>2
  <2>4. CASE k = 0
    <3>1. m = now
      BY <1>3, <1>4, <2>2, <2>4
    <3> QED BY <2>2, <2>3, <3>1
  <2>5. CASE k # 0
    <3>1. /\ k - 1 \in 0..k - 1 /\ (k - 1) + 2 = n /\ k - 1 \in 0..N - 1
          /\ k \in 1..N - 1 /\ k \in 1..N /\ k < n /\ k - 1 <= N - 1 /\ (k - 1) + 1 = k
      BY <1>4, <2>5
    <3>2. PICK before \in Int, earlier \in Int : before = mean[k - 1] /\ earlier = sims[k]
      BY <1>3, <3>1
    <3>3. before - now < between
      <4>1. mean[k - 1] - sims[(k - 1) + 2] < Between
        BY <1>2, <1>4, <3>1 DEF IsMerged, CloseToMean
      <4>2. before - now = mean[k - 1] - sims[(k - 1) + 2] /\ between = Between
        BY <2>2, <3>1, <3>2
      <4> QED BY <4>1, <4>2
    <3>4. m = (before + now) \div 2
      BY <1>3, <1>4, <2>2, <3>1, <3>2
    <3>5. earlier >= now
      BY <1>1, <2>1, <2>2, <3>1, <3>2
    <3>6. before >= earlier
      <4>1. k - 1 \in T
        BY <1>5, <3>1
      <4> QED BY <3>1, <3>2, <4>1
    <3>7. m <= before
      BY <3>4, <3>5, <3>6
    <3>8. next < now
      BY <2>3, <3>3, <3>7
    <3> QED BY <2>2, <3>8
  <2> QED BY <2>4, <2>5
<1>7. n \in 1..N
  BY <1>4
<1>8. ASSUME NEW i \in 1..N PROVE sims[i] >= sims[n] <=> i <= n
  <2>1. CASE i <= n
    BY <1>1, <1>3, <1>7, <2>1
  <2>2. CASE i > n
    <3>1. n < N /\ n + 1 \in 1..N /\ (i = n + 1 \/ n + 1 < i)
      BY <1>7, <2>2
    <3>2. sims[n + 1] < sims[n] /\ sims[n + 1] >= sims[i]
      BY <1>1, <1>3, <1>6, <3>1
    <3>3. sims[i] < sims[n]
      <4>1. sims[i] \in Int /\ sims[n] \in Int /\ sims[n + 1] \in Int
        BY <1>3, <1>7, <3>1
      <4> QED BY <3>2, <4>1
    <3>4. sims[i] \in Int /\ sims[n] \in Int
      BY <1>3, <1>7
    <3> QED BY <1>7, <2>2, <3>3, <3>4
  <2> QED BY <1>7, <2>1, <2>2
<1> QED BY <1>1, <1>7, <1>8

SimsOf(row, to) ==
  [i \in 1..Cardinality(SimilarEnough(row, to)) |-> row[Sorted(row, to)[i]]]

(* An element is mapped to all that are at least as similar as the last    *)
(* one that is merged.                                                     *)
MapsToBest(row, to, e, C, sims, n) ==
  /\ sims \in Seq(Int) /\ sims # <<>> /\ Len(sims) = Cardinality(C)
  /\ \A i, j \in 1..Len(sims) : i < j => sims[i] >= sims[j]
  /\ \A w \in Int : \A i \in 1..Len(sims) :
       sims[i] >= w <=> i <= Cardinality(AtLeast(row, C, w))
  /\ n \in 1..Len(sims)
  /\ BestOf(row, to, e).to = AtLeast(row, C, sims[n])
  /\ BestOf(row, to, e).sim = Means(sims)[n - 1]

LEMMA BestFacts ==
  ASSUME NEW row, NEW to, NEW e, IsFiniteSet(to), \A f \in to : row[f] \in Int,
         NEW C, C = SimilarEnough(row, to), C # {},
         NEW sims, sims = SimsOf(row, to), NEW n, n = Merged(sims) + 1
  PROVE  MapsToBest(row, to, e, C, sims, n)
<1>1. PICK s : s = Sorted(row, to)
  OBVIOUS
<1>2. PICK N : N = Cardinality(C)
  OBVIOUS
<1>3. IsFiniteSet(C) /\ Falling(s, row, C)
  BY <1>1, SortedFacts DEF Falling
<1>4. N \in Nat \ {0}
  BY <1>2, <1>3, FS_CardinalityType, FS_EmptySet
<1>5. \A f \in C : row[f] \in Int
  BY DEF SimilarEnough
<1>6. /\ s \in [1..N -> C] /\ DOMAIN s = 1..N
      /\ \A f \in C : \E i \in 1..N : s[i] = f
      /\ \A i, j \in 1..N : i < j => row[s[i]] >= row[s[j]]
  BY <1>2, <1>3 DEF Falling, Bijection, Injection, Surjection
<1>7. sims = [i \in 1..N |-> row[s[i]]]
  BY <1>1, <1>2 DEF SimsOf
<1>8. (\A i \in 1..N : sims[i] = row[s[i]]) /\ sims \in [1..N -> Int]
  BY <1>5, <1>6, <1>7
<1>9. sims \in Seq(Int) /\ Len(sims) = N /\ sims # <<>>
  <2>1. sims \in Seq(Int) /\ Len(sims) = N
    BY <1>4, <1>8, SeqDef, LenProperties
  <2> QED BY <1>4, <2>1, EmptySeq
<1>10. \A i, j \in 1..N : i < j => sims[i] >= sims[j]
  BY <1>6, <1>8
<1>11. ASSUME NEW w \in Int, NEW i \in 1..N
       PROVE  sims[i] >= w <=> i <= Cardinality(AtLeast(row, C, w))
  <2>1. sims[i] = row[s[i]] /\ i \in 1..Cardinality(C)
    BY <1>2, <1>8
  <2>2. row[s[i]] >= w <=> i <= Cardinality(AtLeast(row, C, w))
    BY <1>3, <1>5, <2>1, Ranks
  <2> QED BY <2>1, <2>2
<1>12. n \in 1..N /\ \A i \in 1..N : sims[i] >= sims[n] <=> i <= n
  BY <1>9, <1>10, MergedApart
<1>13. [i \in DOMAIN s |-> row[s[i]]] = sims
  BY <1>6, <1>7
<1>14. BestOf(row, to, e) = [from |-> {e},
                             to   |-> {f \in C : \E i \in 1..n : s[i] = f},
                             sim  |-> Means(sims)[Merged(sims)]]
  BY <1>1, <1>13 DEF BestOf
<1>15. {f \in C : \E i \in 1..n : s[i] = f} = AtLeast(row, C, sims[n])
  <2>1. ASSUME NEW f \in C PROVE (\E i \in 1..n : s[i] = f) <=> row[f] >= sims[n]
    <3>1. ASSUME NEW i \in 1..n PROVE row[s[i]] >= sims[n]
      <4>1. i \in 1..N /\ i <= n
        BY <1>4, <1>12
      <4> QED BY <1>8, <1>12, <4>1
    <3>2. ASSUME row[f] >= sims[n] PROVE \E i \in 1..n : s[i] = f
      <4>1. PICK i \in 1..N : s[i] = f
        BY <1>6
      <4>2. i <= n
        BY <1>8, <1>12, <3>2, <4>1
      <4> QED BY <1>12, <4>1, <4>2
    <3> QED BY <3>1, <3>2
  <2> QED BY <2>1 DEF AtLeast
<1>16. Merged(sims) = n - 1
  <2>1. Merged(sims) \in Nat
    BY <1>4, <1>9, MergedFacts
  <2> QED BY <2>1
<1> QED BY <1>2, <1>9, <1>10, <1>11, <1>12, <1>14, <1>15, <1>16 DEF MapsToBest

(* The best matches stay the best among fewer, if they are among them.     *)
LEMMA SameBest ==
  ASSUME NEW T, IsFiniteSet(T), NEW S \in SUBSET T, NEW many, NEW few, NEW e,
         \A f \in T : many[f] \in Int, \A f \in S : few[f] = many[f],
         SimilarEnough(many, T) # {}, BestOf(many, T, e).to \subseteq S
  PROVE  /\ SimilarEnough(few, S) # {}
         /\ BestOf(few, S, e).to = BestOf(many, T, e).to
<1>1. PICK C, c : C = SimilarEnough(many, T) /\ c = SimilarEnough(few, S)
  OBVIOUS
<1>2. PICK t, u : t = SimsOf(many, T) /\ u = SimsOf(few, S)
  OBVIOUS
<1>3. PICK n : n = Merged(t) + 1
  OBVIOUS
<1>4. /\ t \in Seq(Int) /\ t # <<>> /\ Len(t) = Cardinality(C)
      /\ \A i, j \in 1..Len(t) : i < j => t[i] >= t[j]
      /\ \A w \in Int : \A i \in 1..Len(t) :
           t[i] >= w <=> i <= Cardinality(AtLeast(many, C, w))
      /\ n \in 1..Len(t)
      /\ BestOf(many, T, e).to = AtLeast(many, C, t[n])
  <2>1. C # {}
    BY <1>1
  <2>2. MapsToBest(many, T, e, C, t, n)
    BY <1>1, <1>2, <1>3, <2>1, BestFacts
  <2> QED BY <2>2 DEF MapsToBest
<1>5. PICK N \in Nat \ {0}, v \in Int : N = Len(t) /\ v = t[n]
  BY <1>4, MeansFacts
<1>6. \A i \in 1..N : t[i] \in Int
  BY <1>4, <1>5, MeansFacts
<1>7. /\ c \subseteq C /\ c \subseteq S /\ C \subseteq T
      /\ \A f \in C : f \in S => f \in c
      /\ (\A f \in c : few[f] = many[f]) /\ \A f \in C : many[f] \in Int
  BY <1>1 DEF SimilarEnough
<1>8. IsFiniteSet(C) /\ IsFiniteSet(c)
  BY <1>7, FS_Subset
<1>9. AtLeast(many, C, v) \subseteq c
  BY <1>4, <1>5, <1>7 DEF AtLeast
<1>10. ASSUME NEW w \in Int
       PROVE  /\ AtLeast(few, c, w) \subseteq AtLeast(many, C, w)
              /\ w >= v => AtLeast(few, c, w) = AtLeast(many, C, w)
              /\ Cardinality(AtLeast(few, c, w)) \in Nat
              /\ Cardinality(AtLeast(many, C, w)) \in Nat
              /\ Cardinality(AtLeast(few, c, w)) <= Cardinality(AtLeast(many, C, w))
  <2>1. AtLeast(few, c, w) \subseteq AtLeast(many, C, w)
    BY <1>7 DEF AtLeast
  <2>2. ASSUME w >= v, NEW f \in AtLeast(many, C, w) PROVE f \in AtLeast(few, c, w)
    <3>1. f \in C /\ many[f] >= w /\ many[f] >= v
      BY <1>7, <2>2 DEF AtLeast
    <3>2. f \in c
      BY <1>9, <3>1 DEF AtLeast
    <3> QED BY <1>7, <3>1, <3>2 DEF AtLeast
  <2>3. IsFiniteSet(AtLeast(many, C, w)) /\ AtLeast(many, C, w) \subseteq C
    BY <1>8, FS_Subset DEF AtLeast
  <2>4. IsFiniteSet(AtLeast(few, c, w))
        /\ Cardinality(AtLeast(few, c, w)) <= Cardinality(AtLeast(many, C, w))
    BY <2>1, <2>3, FS_Subset
  <2> QED BY <2>1, <2>2, <2>3, <2>4, FS_CardinalityType
<1>11. /\ n \in 1..N /\ n <= Cardinality(AtLeast(few, c, v))
       /\ Cardinality(AtLeast(few, c, v)) \in Nat
  <2>1. t[n] >= v
    BY <1>5
  <2>2. n <= Cardinality(AtLeast(many, C, v))
    BY <1>4, <1>5, <2>1
  <2>3. AtLeast(few, c, v) = AtLeast(many, C, v)
    BY <1>10
  <2>4. Cardinality(AtLeast(few, c, v)) \in Nat
    BY <1>10
  <2> QED BY <1>4, <1>5, <2>2, <2>3, <2>4
<1>12. n <= Cardinality(c) /\ Cardinality(c) \in Nat /\ Cardinality(c) <= N /\ c # {}
  <2>1. AtLeast(few, c, v) \subseteq c
    BY DEF AtLeast
  <2>2. Cardinality(AtLeast(few, c, v)) <= Cardinality(c) /\ Cardinality(c) \in Nat
    BY <1>8, <2>1, FS_Subset, FS_CardinalityType
  <2>3. Cardinality(c) <= Cardinality(C)
    BY <1>7, <1>8, FS_Subset
  <2>4. n <= Cardinality(c)
    BY <1>11, <2>2
  <2>5. c # {}
    BY <1>11, <2>4, FS_EmptySet
  <2> QED BY <1>4, <1>5, <2>2, <2>3, <2>4, <2>5
<1>13. PICK m : m = Merged(u) + 1
  OBVIOUS
<1>14. /\ u \in Seq(Int) /\ u # <<>> /\ Len(u) = Cardinality(c)
       /\ \A w \in Int : \A i \in 1..Len(u) :
            u[i] >= w <=> i <= Cardinality(AtLeast(few, c, w))
       /\ BestOf(few, S, e).to = AtLeast(few, c, u[m])
  <2>1. IsFiniteSet(S) /\ \A f \in S : few[f] \in Int
    BY FS_Subset
  <2>2. MapsToBest(few, S, e, c, u, m)
    BY <1>1, <1>2, <1>12, <1>13, <2>1, BestFacts
  <2> QED BY <2>2 DEF MapsToBest
<1>15. PICK M \in Nat : M = Len(u) /\ n <= M /\ M <= N
  BY <1>12, <1>14
<1>16. \A i \in 1..M : u[i] \in Int
  BY <1>14, <1>15, MeansFacts
<1>17. ASSUME NEW i \in 1..M PROVE i \in 1..N /\ t[i] >= u[i]
  <2>1. PICK w \in Int : w = u[i]
    BY <1>16
  <2>2. i <= Cardinality(AtLeast(few, c, w))
    <3>1. u[i] >= w
      BY <2>1
    <3> QED BY <1>14, <1>15, <3>1
  <2>3. i <= Cardinality(AtLeast(many, C, w)) /\ i \in 1..N
    <3>1. /\ Cardinality(AtLeast(few, c, w)) \in Nat
          /\ Cardinality(AtLeast(many, C, w)) \in Nat
          /\ Cardinality(AtLeast(few, c, w)) <= Cardinality(AtLeast(many, C, w))
      BY <1>10
    <3> QED BY <1>15, <2>2, <3>1
  <2> QED BY <1>4, <1>5, <2>1, <2>3
<1>18. ASSUME NEW i \in 1..n PROVE u[i] = t[i]
  <2>1. i \in 1..N /\ i \in 1..M
    BY <1>11, <1>15
  <2>2. PICK w \in Int : w = t[i]
    BY <1>6, <2>1
  <2>3. w >= v
    BY <1>4, <1>5, <1>11, <2>1, <2>2
  <2>4. i <= Cardinality(AtLeast(many, C, w))
    <3>1. t[i] >= w
      BY <2>2
    <3> QED BY <1>4, <1>5, <2>1, <3>1
  <2>5. u[i] >= w
    BY <1>10, <1>14, <1>15, <2>1, <2>3, <2>4
  <2>6. u[i] <= t[i] /\ u[i] \in Int
    BY <1>16, <1>17, <2>1
  <2> QED BY <2>2, <2>5, <2>6
<1>19. /\ Means(t)[0] = t[1] /\ Means(u)[0] = u[1]
       /\ \A i \in 1..N - 1 : Means(t)[i] = (Means(t)[i - 1] + t[i + 1]) \div 2
       /\ \A i \in 1..M - 1 : Means(u)[i] = (Means(u)[i - 1] + u[i + 1]) \div 2
       /\ \A i \in 0..N - 1 : Means(t)[i] \in Int
  BY <1>4, <1>5, <1>14, <1>15, MeansFacts
<1> DEFINE K == {i \in Nat : i <= n - 1 => Means(u)[i] = Means(t)[i]}
<1>20. K = Nat
  <2>1. 0 \in K
    BY <1>11, <1>18, <1>19
  <2>2. ASSUME NEW i \in K PROVE i + 1 \in K
    <3> SUFFICES ASSUME i + 1 <= n - 1 PROVE Means(u)[i + 1] = Means(t)[i + 1]
      OBVIOUS
    <3>1. /\ i + 1 \in 1..N - 1 /\ i + 1 \in 1..M - 1 /\ (i + 1) + 1 \in 1..n
          /\ i <= n - 1 /\ (i + 1) - 1 = i
      BY <1>11, <1>15
    <3>2. Means(u)[i] = Means(t)[i] /\ u[(i + 1) + 1] = t[(i + 1) + 1]
      BY <1>18, <3>1
    <3>3. /\ Means(t)[i + 1] = (Means(t)[i] + t[(i + 1) + 1]) \div 2
          /\ Means(u)[i + 1] = (Means(u)[i] + u[(i + 1) + 1]) \div 2
      BY <1>19, <3>1
    <3> QED BY <3>2, <3>3
  <2> HIDE DEF K
  <2>3. K \in SUBSET Nat
    BY DEF K
  <2> QED BY <2>1, <2>2, <2>3, SetInduction
<1>21. IsMerged(t, n - 1)
  <2>1. Merged(t) \in 0..N - 1 /\ IsMerged(t, Merged(t))
    BY <1>5, MergedFacts
  <2> QED BY <1>3, <2>1
<1>22. IsMerged(u, n - 1)
  <2>1. ASSUME NEW i \in 0..(n - 1) - 1 PROVE CloseToMean(u, i)
    <3>1. i \in Nat /\ i <= n - 1 /\ i + 2 \in 1..n
      BY <1>11
    <3>2. Means(u)[i] = Means(t)[i] /\ u[i + 2] = t[i + 2]
      BY <1>18, <1>20, <3>1
    <3>3. CloseToMean(t, i)
      BY <1>21 DEF IsMerged
    <3> QED BY <3>2, <3>3 DEF CloseToMean
  <2>2. ASSUME n - 1 < Len(u) - 1 PROVE ~CloseToMean(u, n - 1)
    <3>1. n - 1 < N - 1 /\ n + 1 \in 1..M /\ (n - 1) + 2 = n + 1 /\ n - 1 \in 0..N - 1
      BY <1>11, <1>15, <2>2
    <3>2. Means(u)[n - 1] = Means(t)[n - 1]
      BY <1>11, <1>20
    <3>3. ~CloseToMean(t, n - 1)
      BY <1>5, <1>21, <3>1 DEF IsMerged
    <3>4. PICK x \in Int, y \in Int, z \in Int :
            x = Means(t)[n - 1] /\ y = t[n + 1] /\ z = u[n + 1]
      <4>1. Means(t)[n - 1] \in Int /\ t[n + 1] \in Int /\ u[n + 1] \in Int
        BY <1>6, <1>16, <1>17, <1>19, <3>1
      <4> QED BY <4>1
    <3>5. ~(x - y < Between) /\ y >= z
      BY <1>17, <3>1, <3>3, <3>4 DEF CloseToMean
    <3>6. ~(x - z < Between)
      BY <3>5, MappingInputs
    <3> QED BY <3>1, <3>2, <3>4, <3>6 DEF CloseToMean
  <2> QED BY <2>1, <2>2 DEF IsMerged
<1>23. n - 1 = Merged(u)
  <2>1. Len(u) \in Nat \ {0} /\ n - 1 \in 0..Len(u) - 1
    BY <1>11, <1>15
  <2> QED BY <1>22, <2>1, MergedFacts
<1>24. m = n
  BY <1>11, <1>13, <1>23
<1>25. u[m] = v
  BY <1>5, <1>11, <1>18, <1>24
<1>26. AtLeast(few, c, v) = AtLeast(many, C, v)
  BY <1>10
<1> QED BY <1>1, <1>4, <1>5, <1>12, <1>14, <1>25, <1>26
-----------------------------------------------------------------------------
(* What has not changed.                                                   *)
Exact(p) == [from |-> {p[1]}, to |-> {p[2]}, sim |-> One]
Asked(m) == [from |-> m.from, to |-> m.to]

(* As long as UnchangedDiffer is at work, pairs that did not change wait   *)
(* for their turn; later they are among the mappings that are handed on.   *)
PairsKept ==
  /\ same \subseteq SameId
  /\ differ = "unchanged" =>
       \A p \in same :
         \/ Asked(Exact(p)) \in related
         \/ group = Asked(Exact(p)) /\ (p[1] \in todo \/ Exact(p) \in fresh)
         \/ Exact(p) \in mappings
  /\ differ # "unchanged" =>
       \A p \in same : Exact(p) \in unchanged /\ Exact(p) \in previous

LEMMA PairsImply == PairsKept => UnchangedPairsStay
BY DEF PairsKept, UnchangedPairsStay, Exact

LEMMA OneIsBest ==
  ASSUME differ = "unchanged", NEW p \in same, same \subseteq SameId,
         group = Asked(Exact(p))
  PROVE  Candidates(p[1]) = {p[2]} /\ Best(p[1]) = Exact(p)
<1>1. PICK e, f : e = p[1] /\ f = p[2] /\ p = <<e, f>> /\ f \in V2 /\ e \in V1
  BY MappingInputs
<1>2. group = [from |-> {e}, to |-> {f}]
  BY <1>1 DEF Asked, Exact
<1>3. PICK row : row = Row(e)
  OBVIOUS
<1>4. row[f] = One
  <2>1. row[f] = Similarity(e, f)
    BY <1>1, <1>3 DEF Row
  <2>2. Similarity(e, f) = UnchangedSimilarity(e, f)
    BY DEF Similarity
  <2>3. UnchangedSimilarity(e, f) = One
    BY <1>1 DEF UnchangedSimilarity
  <2> QED BY <2>1, <2>2, <2>3
<1>5. PICK C : C = SimilarEnough(row, {f})
  OBVIOUS
<1>6. C = {f}
  BY <1>4, <1>5, MappingInputs DEF SimilarEnough
<1>7. PICK sims, n : sims = SimsOf(row, {f}) /\ n = Merged(sims) + 1
  OBVIOUS
<1>8. IsFiniteSet({f}) /\ Cardinality({f}) = 1 /\ row[f] \in Int
  <2>1. IsFiniteSet({f}) /\ Cardinality({f}) = 1
    BY FS_Singleton
  <2> QED BY <1>4, <2>1, MappingInputs
<1>9. MapsToBest(row, {f}, e, C, sims, n)
  BY <1>5, <1>6, <1>7, <1>8, BestFacts
<1>10. /\ Len(sims) = 1 /\ n = 1 /\ sims \in Seq(Int) /\ sims # <<>>
       /\ \A w \in Int : sims[1] >= w <=> 1 <= Cardinality(AtLeast(row, C, w))
       /\ BestOf(row, {f}, e).to = AtLeast(row, C, sims[1])
       /\ BestOf(row, {f}, e).sim = Means(sims)[0]
  <2>1. /\ Len(sims) = 1 /\ sims \in Seq(Int) /\ sims # <<>> /\ n \in 1..Len(sims)
        /\ BestOf(row, {f}, e).to = AtLeast(row, C, sims[n])
        /\ BestOf(row, {f}, e).sim = Means(sims)[n - 1]
    BY <1>6, <1>8, <1>9 DEF MapsToBest
  <2>2. n = 1 /\ n - 1 = 0 /\ 1 \in 1..Len(sims)
    BY <2>1
  <2>3. \A w \in Int : sims[1] >= w <=> 1 <= Cardinality(AtLeast(row, C, w))
    BY <1>9, <2>2 DEF MapsToBest
  <2> QED BY <2>1, <2>2, <2>3
<1>11. sims[1] \in Int /\ Means(sims)[0] = sims[1]
  BY <1>10, MeansFacts
<1>12. One \in Int /\ One + 1 \in Int
  BY MappingInputs
<1>13. AtLeast(row, C, One) = {f} /\ AtLeast(row, C, One + 1) = {}
  BY <1>4, <1>6, <1>12 DEF AtLeast
<1>14. sims[1] >= One /\ ~(sims[1] >= One + 1)
  <2>1. Cardinality(AtLeast(row, C, One)) = 1 /\ Cardinality(AtLeast(row, C, One + 1)) = 0
    BY <1>8, <1>13, FS_EmptySet
  <2> QED BY <1>10, <1>12, <2>1
<1>15. sims[1] = One
  BY <1>11, <1>12, <1>14
<1>16. BestOf(row, {f}, e) = [from |-> {e}, to |-> {f}, sim |-> One]
  <2>1. BestOf(row, {f}, e).to = {f} /\ BestOf(row, {f}, e).sim = One
    BY <1>10, <1>11, <1>13, <1>15
  <2>2. \E to, sim : BestOf(row, {f}, e) = [from |-> {e}, to |-> to, sim |-> sim]
    BY DEF BestOf
  <2> QED BY <2>1, <2>2
<1> QED BY <1>1, <1>2, <1>3, <1>5, <1>6, <1>16 DEF Candidates, Best, Exact

LEMMA PairsAtMapElement ==
  ASSUME IInv, Components, PairsKept, MapElement
  PROVE  PairsKept'
<1>1. PICK e \in todo : \E order \in SetToSeqs(Conflicts(Best(e))) :
        fresh' = (fresh \ Conflicts(Best(e))) \cup {Merge(Best(e), order)}
  BY DEF MapElement
<1>2. PICK order \in SetToSeqs(Conflicts(Best(e))) :
        fresh' = (fresh \ Conflicts(Best(e))) \cup {Merge(Best(e), order)}
  BY <1>1
<1>3. UNCHANGED <<same, differ, previous, unchanged, related, group, mappings>>
  BY DEF MapElement, chain, input
<1>4. ASSUME differ = "unchanged", NEW p \in same, group = Asked(Exact(p))
      PROVE  Exact(p) \in fresh'
  <2>1. group # NoGroup /\ todo \subseteq group.from
    BY DEF IInv, Inside
  <2>2. e = p[1] /\ group.from \ todo = {}
    BY <1>4, <2>1 DEF Asked, Exact
  <2>3. Best(e) = Exact(p)
    BY <1>4, <2>2, OneIsBest DEF PairsKept
  <2>4. \A m \in fresh : m.from = {} /\ m.to = {}
    <3>1. \A m \in fresh : m.from = {} /\ Component(m)
      BY <2>1, <2>2 DEF IInv, Inside, Components
    <3> QED BY <3>1 DEF Component
  <2>5. Conflicts(Best(e)) = {}
    BY <2>4 DEF Conflicts
  <2>6. order \in [1..0 -> {}]
    BY <1>2, <2>5, FS_EmptySet DEF SetToSeqs
  <2>7. PICK sims : sims = [i \in DOMAIN order |-> order[i].sim]
    OBVIOUS
  <2>8. Len(order) = 0 /\ sims \in Seq(Int) /\ Len(sims) = 0
    <3>1. sims \in [1..0 -> Int] /\ order \in [1..0 -> Int]
      BY <2>6, <2>7
    <3> QED BY <3>1, SeqDef, LenProperties
  <2>9. Mean(One, sims)[Len(order)] = One
    <3>1. One \in Int
      BY MappingInputs
    <3> QED BY <2>8, <3>1, MeanSteps
  <2>10. Merge(Best(e), order) = Exact(p)
    <3>1. Froms({}) = {} /\ Tos({}) = {}
      BY DEF Froms, Tos
    <3>2. PICK m : m = Exact(p)
      OBVIOUS
    <3>3. Merge(m, order) = [from |-> m.from, to |-> m.to, sim |-> Mean(m.sim, sims)[Len(order)]]
      BY <2>3, <2>5, <2>7, <3>1, <3>2 DEF Merge
    <3> QED BY <2>3, <2>9, <3>2, <3>3 DEF Exact
  <2> QED BY <1>2, <2>10
<1> QED BY <1>3, <1>4 DEF PairsKept, Exact, Asked

LEMMA PairsAtOthers ==
  ASSUME IInv, PairsKept,
         \/ NextGroup \/ MapNothing \/ GroupDone
         \/ UnchangedDone \/ SimpleDone \/ StrictDone \/ InheritanceDone \/ UNCHANGED vars
  PROVE  PairsKept'
<1>1. CASE NextGroup
  <2>1. UNCHANGED <<same, differ, previous, unchanged, mappings>>
    BY <1>1 DEF NextGroup, chain, input
  <2>2. PICK g \in related : group' = g /\ todo' = g.from /\ related' = related \ {g}
    BY <1>1 DEF NextGroup
  <2>3. group = NoGroup
    BY <1>1 DEF NextGroup
  <2>4. ASSUME NEW p \in same, group = Asked(Exact(p)) PROVE FALSE
    <3>1. p[1] \in V1 /\ p[2] \in V2
      BY MappingInputs DEF PairsKept
    <3>2. Asked(Exact(p)) \in Groups
      BY <3>1 DEF Asked, Exact, Groups
    <3> QED BY <2>3, <2>4, <3>2, MappingInputs DEF Groups
  <2>5. ASSUME NEW p \in same, g = Asked(Exact(p)) PROVE p[1] \in todo'
    BY <2>2, <2>5 DEF Asked, Exact
  <2> QED BY <2>1, <2>2, <2>4, <2>5 DEF PairsKept, Exact, Asked
<1>2. CASE MapNothing
  <2>1. UNCHANGED <<same, differ, previous, unchanged, mappings, related, group, fresh>>
    BY <1>2 DEF MapNothing, chain, input
  <2>2. PICK e \in todo : Candidates(e) = {} /\ todo' = todo \ {e}
    BY <1>2 DEF MapNothing
  <2>3. group # NoGroup /\ todo \subseteq group.from
    BY <2>2 DEF IInv, Inside
  <2>4. ASSUME differ = "unchanged", NEW p \in same, group = Asked(Exact(p)) PROVE FALSE
    <3>1. e = p[1]
      BY <2>3, <2>4 DEF Asked, Exact
    <3> QED BY <2>2, <2>4, <3>1, OneIsBest DEF PairsKept
  <2> QED BY <2>1, <2>4 DEF PairsKept, Exact, Asked
<1>3. CASE GroupDone
  <2>1. /\ UNCHANGED <<same, differ, previous, unchanged, related>>
        /\ todo = {} /\ mappings' = mappings \cup fresh
    BY <1>3 DEF GroupDone, chain, input
  <2> QED BY <2>1 DEF PairsKept, Exact, Asked
<1>4. CASE UnchangedDone
  <2>1. /\ differ = "unchanged" /\ group = NoGroup /\ related = {} /\ fresh = {}
        /\ differ' = "simple" /\ previous' = mappings \cup Additional
        /\ unchanged' = previous' /\ same' = same
    BY <1>4 DEF UnchangedDone, DifferDone, input, IInv, Inside
  <2>2. \A p \in same : Exact(p) \in mappings
    BY <2>1, <1>4 DEF PairsKept, IInv, Inside
  <2> QED BY <2>1, <2>2 DEF PairsKept, Exact, Asked
<1>5. CASE SimpleDone \/ StrictDone \/ InheritanceDone
  <2>1. /\ differ # "unchanged" /\ differ' # "unchanged"
        /\ unchanged' = unchanged /\ same' = same
        /\ previous' = mappings \cup Additional
    BY <1>5 DEF SimpleDone, StrictDone, InheritanceDone, DifferDone, input
  <2>2. Additional = unchanged \/ Additional = previous
    BY <2>1 DEF Additional
  <2> QED BY <2>1, <2>2 DEF PairsKept, Exact, Asked
<1>6. CASE UNCHANGED vars
  BY <1>6 DEF vars, chain, input, PairsKept, Exact, Asked
<1> QED BY <1>1, <1>2, <1>3, <1>4, <1>5, <1>6

LEMMA NextPairs ==
  ASSUME IInv, Components, PairsKept, [Next]_vars
  PROVE  PairsKept'
BY PairsAtMapElement, PairsAtOthers DEF Next, Terminated

(* What UnchangedDiffer finds unchanged is mapped to itself and to nothing *)
(* else by all differs after it, whatever they find similar: the threshold *)
(* for mappings lets 1.0 pass, and the mappings of UnchangedDiffer are     *)
(* handed on unmerged.                                                     *)
THEOREM UnchangedStay == Spec => []UnchangedPairsStay
<1>1. Init => IInv /\ Components /\ PairsKept
  <2> SUFFICES ASSUME Init PROVE IInv /\ Components /\ PairsKept
    OBVIOUS
  <2>1. IInv /\ Components
    BY InitIInv, MappingInputs DEF Init, Components
  <2>2. same \subseteq SameId
    BY MappingInputs DEF Init, WellFormed
  <2>3. \A p \in same : Asked(Exact(p)) \in related
    BY <2>2 DEF Init, SameIdGroups, Asked, Exact
  <2> QED BY <2>1, <2>2, <2>3 DEF PairsKept, Init
<1>2. IInv /\ Components /\ PairsKept /\ [Next]_vars
      => IInv' /\ Components' /\ PairsKept'
  BY NextIInv, NextComponents, NextPairs, MappingInputs
<1> QED BY <1>1, <1>2, PairsImply, PTL DEF Spec
-----------------------------------------------------------------------------
(* What StrictDiffer makes of mappings of classes.                         *)
SimpleRow(e) == [f \in V2 |-> SimpleSimilarity(e, f)]

(* The component that SimpleDiffer has found among some classes.           *)
FoundAmong(m, to) ==
  /\ \A e \in m.from : /\ Kind[e] = "class" /\ e \in V1
                       /\ SimilarEnough(SimpleRow(e), to) # {}
  /\ m.to = UNION {BestOf(SimpleRow(e), to, e).to : e \in m.from}
  /\ \A part \in (SUBSET m.from) \ {{}, m.from} :
       \E e \in part, f \in m.from \ part :
         BestOf(SimpleRow(e), to, e).to \cap BestOf(SimpleRow(f), to, f).to # {}
Found(m) == \E to \in SUBSET V2 : FoundAmong(m, to)

Again(m) == \E n \in mappings : n.from = m.from /\ n.to = m.to

ClassesFound ==
  /\ similarity \in [V1 \X V2 -> 0..One]
  /\ differ = "simple" =>
       /\ \A g \in Pending : OfKind(g, "class") => \A e \in g.from : Kind[e] = "class"
       /\ \A m \in mappings : OfKind(m, "class") => Found(m)
  /\ differ = "strict" =>
       \A m \in Ambiguous(previous, unchanged) : OfKind(m, "class") =>
         Found(m) /\ (Asked(m) \in related \/ group = Asked(m) \/ Again(m))

LEMMA RowFacts ==
  ASSUME ClassesFound, NEW e \in V1
  PROVE  \A f \in V2 : SimpleRow(e)[f] = SimpleSimilarity(e, f) /\ SimpleRow(e)[f] \in Int
<1>1. \A f \in V2 : similarity[<<e, f>>] \in 0..One
  BY DEF ClassesFound
<1>2. \A f \in V2 : similarity[<<e, f>>] \in Int
  BY <1>1, MappingInputs
<1> QED BY <1>2 DEF SimpleRow, SimpleSimilarity

(* The mappings of classes that SimpleDiffer finds.                        *)
LEMMA FreshIsFound ==
  ASSUME IInv, Components, ClassesFound, differ = "simple", group # NoGroup,
         NEW m \in fresh, OfKind(m, "class")
  PROVE  Found(m)
<1>1. group \in Pending /\ group \in Groups /\ m.from \subseteq group.from
  BY DEF Pending, IInv, Shapes, Inside
<1>2. \A e \in m.from : Kind[e] = "class" /\ e \in V1
  BY <1>1 DEF ClassesFound, OfKind, Groups
<1>3. \A e : Row(e) = SimpleRow(e)
  BY DEF Row, SimpleRow, Similarity
<1>4. \A e \in m.from : SimilarEnough(SimpleRow(e), group.to) # {}
  BY <1>3 DEF Components, Mappable, Froms, Candidates
<1>5. \A e : Best(e).to = BestOf(SimpleRow(e), group.to, e).to
  BY <1>3 DEF Best
<1>6. Component(m)
  BY DEF Components
<1>7. FoundAmong(m, group.to)
  BY <1>2, <1>4, <1>5, <1>6 DEF FoundAmong, Component, Connected
<1> QED BY <1>1, <1>7 DEF Found, Groups

(* Among the elements of such a mapping alone, StrictDiffer finds it again.*)
LEMMA FoundAgain ==
  ASSUME IInv, Components, ClassesFound, differ = "strict", group # NoGroup, todo = {},
         NEW m \in previous, OfKind(m, "class"), Found(m), group = Asked(m)
  PROVE  \E n \in fresh : n.from = m.from /\ n.to = m.to
<1>1. PICK to \in SUBSET V2 : FoundAmong(m, to)
  BY DEF Found
<1> DEFINE Was(e) == BestOf(SimpleRow(e), to, e).to
<1>2. group.from = m.from /\ group.to = m.to /\ m.to \subseteq to
  BY <1>1 DEF Asked, FoundAmong, BestOf, SimilarEnough
<1>3. ASSUME NEW e \in m.from
      PROVE  Candidates(e) # {} /\ Best(e).to = Was(e)
  <2>1. Kind[e] = "class" /\ e \in V1 /\ SimilarEnough(SimpleRow(e), to) # {}
        /\ Was(e) \subseteq m.to
    BY <1>1 DEF FoundAmong
  <2>2. ASSUME NEW f \in m.to PROVE Row(e)[f] = SimpleRow(e)[f]
    <3>1. f \in V2
      BY <1>1, <1>2
    <3>2. StrictAllows(e, f)
      BY <2>1 DEF StrictAllows, Together
    <3>3. Similarity(e, f) = SimpleSimilarity(e, f)
      BY <3>2 DEF Similarity, StrictSimilarity
    <3> QED BY <3>1, <3>3 DEF Row, SimpleRow
  <2>3. IsFiniteSet(to)
    <3>1. to \subseteq Element
      BY DEF Element
    <3> QED BY <3>1, MappingInputs, FS_Subset
  <2>4. \A f \in to : SimpleRow(e)[f] \in Int
    BY <2>1, RowFacts
  <2>5. /\ SimilarEnough(Row(e), m.to) # {}
        /\ BestOf(Row(e), m.to, e).to = BestOf(SimpleRow(e), to, e).to
    BY <1>2, <2>1, <2>2, <2>3, <2>4, SameBest
  <2> QED BY <1>2, <2>5 DEF Candidates, Best
<1>4. Froms(fresh) = m.from /\ \A n \in fresh : Component(n)
  <2>1. Mappable = m.from
    BY <1>2, <1>3 DEF Mappable
  <2> QED BY <2>1 DEF Components
<1>5. m.to = UNION {Best(e).to : e \in m.from}
  BY <1>1, <1>3 DEF FoundAmong
<1>6. \A part \in (SUBSET m.from) \ {{}, m.from} :
        \E e \in part, f \in m.from \ part : Best(e).to \cap Best(f).to # {}
  BY <1>1, <1>3 DEF FoundAmong
<1>7. PICK e \in m.from : TRUE
  BY DEF OfKind
<1>8. PICK n \in fresh : e \in n.from
  BY <1>4, <1>7 DEF Froms
<1>9. n.from = m.from
  <2> SUFFICES ASSUME n.from # m.from PROVE FALSE
    OBVIOUS
  <2>1. n.from \in (SUBSET m.from) \ {{}, m.from}
    BY <1>4, <1>8 DEF Froms
  <2>2. PICK x \in n.from, y \in m.from \ n.from : Best(x).to \cap Best(y).to # {}
    BY <1>6, <2>1
  <2>3. PICK o \in fresh : y \in o.from
    BY <1>4, <2>2 DEF Froms
  <2>4. Best(x).to \subseteq n.to /\ Best(y).to \subseteq o.to
    BY <1>4, <2>2, <2>3 DEF Component
  <2>5. n # o /\ n.to \cap o.to = {}
    BY <2>2, <2>3 DEF IInv, Inside, Disjoint
  <2> QED BY <2>2, <2>4, <2>5
<1> QED BY <1>4, <1>5, <1>9 DEF Component

LEMMA FoundStays ==
  ASSUME UNCHANGED similarity, NEW m, Found(m)
  PROVE  Found(m)'
<1>1. \A e : SimpleRow(e)' = SimpleRow(e)
  BY DEF SimpleRow, SimpleSimilarity
<1>2. PICK to \in SUBSET V2 : FoundAmong(m, to)
  BY DEF Found
<1>3. FoundAmong(m, to)'
  BY <1>1, <1>2 DEF FoundAmong
<1> QED BY <1>3 DEF Found

LEMMA ClassesAtGroups ==
  ASSUME IInv, Components, ClassesFound,
         NextGroup \/ MapNothing \/ MapElement \/ GroupDone \/ UNCHANGED vars
  PROVE  ClassesFound'
<1>1. UNCHANGED <<similarity, differ, previous, unchanged>>
  BY DEF NextGroup, MapNothing, MapElement, GroupDone, vars, chain, input
<1>2. \A m : Found(m) => Found(m)'
  BY <1>1, FoundStays
<1>3. Pending' \subseteq Pending /\ mappings \subseteq mappings'
      /\ mappings' \subseteq mappings \cup fresh
      /\ (mappings' # mappings => GroupDone /\ group # NoGroup)
  <2>1. CASE NextGroup
    BY <2>1 DEF NextGroup, Pending
  <2>2. CASE MapNothing \/ MapElement \/ UNCHANGED vars
    BY <2>2 DEF MapNothing, MapElement, vars, Pending
  <2>3. CASE GroupDone
    BY <2>3 DEF GroupDone, Pending
  <2> QED BY <2>1, <2>2, <2>3
<1>4. ASSUME differ = "strict", NEW m \in Ambiguous(previous, unchanged), OfKind(m, "class")
      PROVE  Asked(m) \in related' \/ group' = Asked(m) \/ Again(m)'
  <2>1. Found(m) /\ (Asked(m) \in related \/ group = Asked(m) \/ Again(m)) /\ m \in previous
    BY <1>4 DEF ClassesFound, Ambiguous
  <2>2. CASE Again(m)
    BY <1>3, <2>2 DEF Again
  <2>3. CASE Asked(m) \in related
    BY <2>3 DEF NextGroup, MapNothing, MapElement, GroupDone, vars
  <2>4. CASE group = Asked(m)
    <3>1. group # NoGroup
      BY <2>1, <2>4, MappingInputs DEF Asked, IInv, Shapes
    <3>2. CASE GroupDone
      <4>1. \E n \in fresh : n.from = m.from /\ n.to = m.to
        BY <1>4, <2>1, <2>4, <3>1, <3>2, FoundAgain DEF GroupDone
      <4> QED BY <3>2, <4>1 DEF GroupDone, Again
    <3>3. CASE ~GroupDone
      BY <2>4, <3>1, <3>3 DEF NextGroup, MapNothing, MapElement, vars
    <3> QED BY <3>2, <3>3
  <2> QED BY <2>1, <2>2, <2>3, <2>4
<1>5. ASSUME differ = "simple", NEW m \in mappings', OfKind(m, "class") PROVE Found(m)
  BY <1>3, <1>5, FreshIsFound DEF ClassesFound
<1>6. \A m, k : OfKind(m, k)' <=> OfKind(m, k)
  BY DEF OfKind
<1>7. Ambiguous(previous, unchanged)' = Ambiguous(previous, unchanged)
  BY <1>1 DEF Ambiguous
<1>8. \A m : Asked(m)' = Asked(m)
  BY DEF Asked
<1> QED BY <1>1, <1>2, <1>3, <1>4, <1>5, <1>7 DEF ClassesFound, OfKind, Asked

LEMMA ClassesAtDone ==
  ASSUME IInv, Components, ClassesFound,
         UnchangedDone \/ SimpleDone \/ StrictDone \/ InheritanceDone
  PROVE  ClassesFound'
<1>1. similarity' = similarity
  BY DEF UnchangedDone, SimpleDone, StrictDone, InheritanceDone, DifferDone, input
<1>2. \A m : Found(m) => Found(m)'
  BY <1>1, FoundStays
<1>3. CASE UnchangedDone
  <2>1. /\ differ' = "simple" /\ mappings' = {} /\ group' = NoGroup
        /\ related' = UnmappedGroups(previous')
    BY <1>3 DEF UnchangedDone, DifferDone
  <2>2. \A g \in Pending' : \E k : \A e \in g.from : Kind[e] = k
    BY <2>1 DEF Pending, UnmappedGroups, Unmapped
  <2>3. \A g \in Pending' : OfKind(g, "class") => \A e \in g.from : Kind[e] = "class"
    BY <2>2 DEF OfKind
  <2> QED BY <1>1, <2>1, <2>3 DEF ClassesFound, OfKind
<1>4. CASE SimpleDone
  <2>1. /\ differ = "simple" /\ differ' = "strict" /\ unchanged' = unchanged
        /\ previous' = mappings \cup previous
        /\ related' = AmbiguousGroups(previous', unchanged)
    BY <1>4 DEF SimpleDone, DifferDone, Additional
  <2>2. previous = unchanged
    BY <2>1 DEF IInv, UnchangedKept
  <2>3. ASSUME NEW m \in Ambiguous(previous', unchanged), OfKind(m, "class")
        PROVE  Found(m)' /\ Asked(m) \in related'
    <3>1. m \in mappings
      BY <2>1, <2>2 DEF Ambiguous
    <3>2. Asked(m) \in related'
      BY <2>1 DEF AmbiguousGroups, Asked
    <3> QED BY <1>2, <2>1, <2>3, <3>1, <3>2 DEF ClassesFound
  <2>4. Ambiguous(previous, unchanged)' = Ambiguous(previous', unchanged)
    BY <2>1 DEF Ambiguous
  <2> QED BY <1>1, <2>1, <2>3, <2>4 DEF ClassesFound, OfKind, Asked
<1>5. CASE StrictDone \/ InheritanceDone
  <2>1. differ' # "simple" /\ differ' # "strict"
    BY <1>5 DEF StrictDone, InheritanceDone, DifferDone
  <2> QED BY <1>1, <2>1 DEF ClassesFound
<1> QED BY <1>3, <1>4, <1>5

(* What the step that replaces StrictDiffer hands on.                      *)
LEMMA HandedOn ==
  ASSUME IInv, ClassesFound, [Next]_vars, differ = "strict", differ' # "strict",
         NEW m \in Ambiguous(previous, unchanged), OfKind(m, "class")
  PROVE  \E n \in previous' : n.from = m.from /\ n.to = m.to
<1>1. StrictDone
  BY DEF Next, Terminated, vars, chain, NextGroup, MapNothing, MapElement, GroupDone,
         UnchangedDone, SimpleDone, InheritanceDone, DifferDone
<1>2. related = {} /\ group = NoGroup /\ mappings \subseteq previous'
  BY <1>1 DEF StrictDone, DifferDone
<1>3. Asked(m) # NoGroup
  <2>1. m.from \subseteq V1 /\ m.to \subseteq V2
    BY DEF Ambiguous, IInv, Shapes
  <2> QED BY <2>1, MappingInputs DEF Asked
<1> QED BY <1>2, <1>3 DEF ClassesFound, Again

(* StrictDiffer looks at ambiguous mappings again, each by itself, but it  *)
(* finds those of classes as they are, for any APIs and similarities: for  *)
(* classes it allows what is mapped already, the best matches of a class   *)
(* are the same among fewer candidates, whichever of several equally       *)
(* similar ones comes first, and so the same mappings are connected.       *)
THEOREM ClassesKept == Spec => ClassesKeepTheirGroups
<1>1. Init => IInv /\ Components /\ ClassesFound
  <2> SUFFICES ASSUME Init PROVE IInv /\ Components /\ ClassesFound
    OBVIOUS
  <2>1. IInv /\ Components
    BY InitIInv, MappingInputs DEF Init, Components
  <2>2. similarity \in [V1 \X V2 -> 0..One]
    BY MappingInputs DEF Init, WellFormed
  <2> QED BY <2>1, <2>2 DEF ClassesFound, Init
<1>2. IInv /\ Components /\ ClassesFound /\ [Next]_vars
      => IInv' /\ Components' /\ ClassesFound'
  BY NextIInv, NextComponents, ClassesAtGroups, ClassesAtDone, MappingInputs
     DEF Next, Terminated
<1>3. IInv /\ ClassesFound /\ [Next]_vars
      => [differ = "strict" /\ differ' # "strict" =>
            \A m \in Ambiguous(previous, unchanged) : OfKind(m, "class") =>
              \E n \in previous' : n.from = m.from /\ n.to = m.to]_vars
  BY HandedOn
<1> QED BY <1>1, <1>2, <1>3, PTL DEF Spec, ClassesKeepTheirGroups
=============================================================================
