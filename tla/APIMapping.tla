----------------------------- MODULE APIMapping -----------------------------
(***************************************************************************)
(* How "migrate" finds out what became of the elements of an API: four     *)
(* differs in a row, each of which relates elements of version 1 and 2,    *)
(* maps those that are similar, and hands its mappings to the next.        *)
(*                                                                         *)
(* A mapping is a set of elements of version 1, a set of elements of       *)
(* version 2 and a similarity.  Lists of mappings are sets here: the       *)
(* mappings in them share no element (ElementsMappedOnce), so that only    *)
(* the similarity of several mappings that are merged at once can depend   *)
(* on their order, and any order is tried.  Attributes and results are     *)
(* left out: they are related as well, but map_api passes them over.       *)
(***************************************************************************)
EXTENDS Integers, FiniteSets, SequencesExt

CONSTANTS
  V1, V2,    \* the elements of both versions
  Kind,      \* element |-> "class", "function" or "parameter"
  Parent,    \* element |-> its class or function
  NoParent,  \* the parent of classes and global functions
  SameId,    \* pairs of elements of both versions that have one id
  One,       \* the integer that stands for the similarity 1.0
  Creation,  \* threshold_of_similarity_for_creation_of_mappings
  Between,   \* threshold_of_similarity_between_mappings
  NoGroup,
  Inputs     \* what the differs compute with

Element == V1 \cup V2

WellFormed(in) ==
  /\ in.similarity \in [V1 \X V2 -> 0..One]
  /\ in.same \subseteq SameId
  /\ in.super \subseteq V2 \X V2

ASSUME MappingInputs ==
  /\ V1 \cap V2 = {} /\ IsFiniteSet(Element)
  /\ Kind \in [Element -> {"class", "function", "parameter"}]
  /\ Parent \in [Element -> Element \cup {NoParent}]
  /\ SameId \subseteq V1 \X V2
  /\ \A p, q \in SameId : p[1] = q[1] \/ p[2] = q[2] => p = q
  /\ \A p \in SameId : Kind[p[1]] = Kind[p[2]]
  /\ NoGroup \notin [from : SUBSET V1, to : SUBSET V2]
  /\ One \in Nat /\ Creation \in 0..One /\ Between \in Nat \ {0}
  /\ \A in \in Inputs : WellFormed(in)

VARIABLES
  similarity,  \* what SimpleDiffer computes for two elements
  same,        \* pairs with one id that did not change
  super,       \* which class of version 2 names which as a superclass
  differ,      \* the differ at work
  previous,    \* previous_mappings
  unchanged,   \* unchanged_mappings, the result of UnchangedDiffer
  notified,    \* new_mappings of the differ
  related,     \* related mappings that map_api still has to look at
  group,       \* the related mapping it looks at
  todo,        \* api_elementv1_list, as far as it is not done
  fresh,       \* element_mappings
  mappings     \* the mappings that map_api has collected

input == <<similarity, same, super>>
chain == <<input, differ, previous, unchanged>>
vars == <<chain, notified, related, group, todo, fresh, mappings>>

Froms(S) == UNION {m.from : m \in S}
Tos(S) == UNION {m.to : m \in S}
OneToOne(m) == \E e \in V1, f \in V2 : m.from = {e} /\ m.to = {f}
OfKind(m, k) == \E e \in m.from : Kind[e] = k
-----------------------------------------------------------------------------
(* Related mappings.                                                       *)

(* Parameters are only related if they did not change.                     *)
SameIdGroups(unmodified) ==
  {[from |-> {p[1]}, to |-> {p[2]}] :
     p \in {p \in SameId : Kind[p[1]] = "parameter" => p \in unmodified}}

Unmapped(k, prev) ==
  [from |-> {e \in V1 \ Froms(prev) : Kind[e] = k},
   to   |-> {f \in V2 \ Tos(prev) : Kind[f] = k}]
UnmappedGroups(prev) ==
  {g \in {Unmapped(k, prev) : k \in {"class", "function", "parameter"}} :
     g.from # {} /\ g.to # {}}

(* What StrictDiffer looks at again.                                       *)
Ambiguous(prev, unmod) == {m \in prev \ unmod : ~OneToOne(m)}
AmbiguousGroups(prev, unmod) ==
  {[from |-> m.from, to |-> m.to] : m \in Ambiguous(prev, unmod)}

(* Mappings that a differ knows before map_api begins.                     *)
KnownToStrict(prev, unmod) == (prev \ Ambiguous(prev, unmod)) \cup unmod
-----------------------------------------------------------------------------
(* Similarities.                                                           *)
SimpleSimilarity(e, f) == similarity[<<e, f>>]
UnchangedSimilarity(e, f) == IF <<e, f>> \in same THEN One ELSE 0

Together(S, e, f) == \E m \in S : e \in m.from /\ f \in m.to

(* Mutant: classes must be mapped before, like the parents of the others.  *)
StrictAllowsKnown(e, f) ==
  \/ Parent[e] = NoParent /\ Parent[f] = NoParent /\ Together(notified, e, f)
  \/ /\ Parent[e] # NoParent /\ Parent[f] # NoParent
     /\ Together(notified, Parent[e], Parent[f])

(* The first mapping that has one of both decides; it is the only one.     *)
StrictAllows(e, f) ==
  \/ Kind[e] = "class" /\ Together(previous, e, f)
  \/ /\ Kind[e] = "function" /\ Parent[e] = NoParent /\ Parent[f] = NoParent
     /\ Together(previous, e, f)
  \/ /\ Parent[e] # NoParent /\ Parent[f] # NoParent
     /\ Together(notified, Parent[e], Parent[f])
StrictSimilarity(e, f) ==
  IF StrictAllows(e, f) THEN SimpleSimilarity(e, f) ELSE 0

(* inheritance: the classes of version 1 that are mapped to a class of     *)
(* version 2, or to one of its super- and subclasses.                      *)
Inheritance(c) ==
  Froms({m \in previous :
           OfKind(m, "class")
           /\ \E d \in m.to : d = c \/ <<c, d>> \in super \/ <<d, c>> \in super})

(* For classes the ids of version 2 are looked up among those of version 1.*)
InheritanceAllows(e, f) ==
  \/ /\ Kind[e] = "class"
     /\ \E p \in SameId : p[1] \in Inheritance(f) /\ p[2] \in Tos(previous)
  \/ /\ Kind[e] = "function" /\ Parent[e] # NoParent /\ Parent[f] # NoParent
     /\ Parent[e] \in Inheritance(Parent[f])
  \/ /\ Kind[e] = "parameter" /\ Parent[Parent[f]] # NoParent
     /\ Inheritance(Parent[Parent[f]]) # {}
     /\ Together(notified, Parent[e], Parent[f])
InheritanceSimilarity(e, f) ==
  IF InheritanceAllows(e, f) THEN (85 * SimpleSimilarity(e, f) + 15 * One) \div 100
                             ELSE 0

Similarity(e, f) ==
  CASE differ = "unchanged"   -> UnchangedSimilarity(e, f)
    [] differ = "simple"      -> SimpleSimilarity(e, f)
    [] differ = "strict"      -> StrictSimilarity(e, f)
    [] differ = "inheritance" -> InheritanceSimilarity(e, f)
-----------------------------------------------------------------------------
(* The mapping of one element: to the most similar one and those that are  *)
(* hardly less similar than all before them are on average.                *)
Row(e) == [f \in V2 |-> Similarity(e, f)]

SimilarEnough(row, to) == {f \in to : row[f] >= Creation}
Sorted(row, to) ==
  CHOOSE s \in SetToSeqs(SimilarEnough(row, to)) :
    \A i, j \in DOMAIN s : i < j => row[s[i]] >= row[s[j]]

(* The similarity after merging, one mapping after the other.              *)
Mean(first, rest) ==
  LET mean[i \in 0..Len(rest)] ==
        IF i = 0 THEN first ELSE (mean[i - 1] + rest[i]) \div 2
  IN  mean

Means(sims) == Mean(Head(sims), Tail(sims))
CloseToMean(sims, i) == Means(sims)[i] - sims[i + 2] < Between
Merged(sims) ==
  CHOOSE k \in 0..(Len(sims) - 1) :
    /\ \A i \in 0..(k - 1) : CloseToMean(sims, i)
    /\ k < Len(sims) - 1 => ~CloseToMean(sims, k)

BestOf(row, to, e) ==
  LET sorted == Sorted(row, to)
      sims == [i \in DOMAIN sorted |-> row[sorted[i]]]
  IN  [from |-> {e},
       to   |-> {f \in SimilarEnough(row, to) :
                   \E i \in 1..(Merged(sims) + 1) : sorted[i] = f},
       sim  |-> Means(sims)[Merged(sims)]]

Candidates(e) == SimilarEnough(Row(e), group.to)
Best(e) == BestOf(Row(e), group.to, e)

(* Mutant: mappings conflict if they share an element of version 1.        *)
ConflictsOfV1(m) == {n \in fresh : n.from \cap m.from # {}}

(* Mutant: the elements of version 1 of the others are forgotten.          *)
MergeTos(m, order) ==
  [from |-> m.from, to |-> m.to \cup UNION {order[i].to : i \in DOMAIN order},
   sim |-> m.sim]

(* Merged with all mappings that share an element with it, in some order.  *)
Conflicts(m) == {n \in fresh : n.to \cap m.to # {}}
Merge(m, order) ==
  [from |-> m.from \cup Froms(Conflicts(m)),
   to   |-> m.to \cup Tos(Conflicts(m)),
   sim  |-> Mean(m.sim, [i \in DOMAIN order |-> order[i].sim])[Len(order)]]
-----------------------------------------------------------------------------
(* map_api                                                                 *)
Init ==
  /\ \E in \in Inputs :
       similarity = in.similarity /\ same = in.same /\ super = in.super
  /\ differ = "unchanged"
  /\ previous = {} /\ unchanged = {} /\ notified = {}
  /\ related = SameIdGroups(same)
  /\ group = NoGroup /\ todo = {} /\ fresh = {} /\ mappings = {}

KindOrder == [class |-> 1, function |-> 2, parameter |-> 3]
Before(g, h) ==
  \E e \in g.from, f \in h.from : KindOrder[Kind[e]] < KindOrder[Kind[f]]

NextGroup ==
  /\ group = NoGroup
  /\ \E g \in related :
       /\ \A h \in related : ~Before(h, g)
       /\ group' = g /\ todo' = g.from
       /\ related' = related \ {g}
  /\ UNCHANGED <<chain, notified, fresh, mappings>>

MapNothing ==
  /\ \E e \in todo : Candidates(e) = {} /\ todo' = todo \ {e}
  /\ UNCHANGED <<chain, notified, related, group, fresh, mappings>>

MapElement ==
  /\ \E e \in todo :
       /\ Candidates(e) # {}
       /\ LET m == Best(e)
          IN  \E order \in SetToSeqs(Conflicts(m)) :
                fresh' = (fresh \ Conflicts(m)) \cup {Merge(m, order)}
       /\ todo' = todo \ {e}
  /\ UNCHANGED <<chain, notified, related, group, mappings>>

GroupDone ==
  /\ group # NoGroup /\ todo = {}
  /\ mappings' = mappings \cup fresh
  /\ notified' = IF differ \in {"strict", "inheritance"}
                   THEN notified \cup fresh ELSE notified
  /\ group' = NoGroup /\ fresh' = {}
  /\ UNCHANGED <<chain, related, todo>>

(* Mutant: StrictDiffer adds nothing.                                      *)
AdditionalUnlessStrict == IF differ = "simple" THEN previous ELSE {}

(* get_additional_mappings                                                 *)
Additional ==
  CASE differ = "unchanged" -> {}
    [] differ = "strict"    -> unchanged
    [] OTHER                -> previous

(* The next differ is created with the mappings of this one.               *)
DifferDone(from, to) ==
  /\ differ = from /\ group = NoGroup /\ related = {}
  /\ differ' = to
  /\ previous' = mappings \cup Additional
  /\ mappings' = {}
  /\ UNCHANGED <<input, group, todo, fresh>>

UnchangedDone ==
  /\ DifferDone("unchanged", "simple")
  /\ unchanged' = previous'
  /\ related' = UnmappedGroups(previous') /\ notified' = {}

SimpleDone ==
  /\ DifferDone("simple", "strict")
  /\ related' = AmbiguousGroups(previous', unchanged)
  /\ notified' = KnownToStrict(previous', unchanged)
  /\ UNCHANGED unchanged

StrictDone ==
  /\ DifferDone("strict", "inheritance")
  /\ related' = UnmappedGroups(previous') /\ notified' = {}
  /\ UNCHANGED unchanged

InheritanceDone ==
  /\ DifferDone("inheritance", "done")
  /\ related' = {} /\ notified' = {}
  /\ UNCHANGED unchanged

Terminated == differ = "done" /\ UNCHANGED vars

Next ==
  \/ NextGroup \/ MapNothing \/ MapElement \/ GroupDone
  \/ UnchangedDone \/ SimpleDone \/ StrictDone \/ InheritanceDone
  \/ Terminated

Spec == Init /\ [][Next]_vars
-----------------------------------------------------------------------------
Disjoint(S) ==
  \A m, n \in S : m # n => m.from \cap n.from = {} /\ m.to \cap n.to = {}

(* No element of either version is in two mappings: of those a differ      *)
(* hands on, of those it has collected, and of those it knows.             *)
ElementsMappedOnce ==
  Disjoint(previous) /\ Disjoint(mappings \cup fresh) /\ Disjoint(notified)

(* However the elements of a related mapping are ordered and merged, what  *)
(* comes out are the connected components: an element is mapped to all its *)
(* best matches, and elements are in one mapping only if a chain of best   *)
(* matches leads from one to the other.                                    *)
GroupsAreComponents ==
  group # NoGroup =>
    LET done == {e \in group.from \ todo : Candidates(e) # {}}
        best == [e \in done |-> Best(e).to]
    IN  /\ Froms(fresh) = done
        /\ \A m \in fresh :
             /\ m.to = UNION {best[e] : e \in m.from}
             /\ \A part \in (SUBSET m.from) \ {{}, m.from} :
                  \E e \in part, f \in m.from \ part : best[e] \cap best[f] # {}

(* StrictDiffer looks at ambiguous mappings of classes again, but it does  *)
(* not change them: members of classes are what it can tell apart.         *)
ClassesKeepTheirGroups ==
  [][differ = "strict" /\ differ' # "strict" =>
       \A m \in Ambiguous(previous, unchanged) : OfKind(m, "class") =>
         \E n \in previous' : n.from = m.from /\ n.to = m.to]_vars

(* What has not changed is mapped to itself and to nothing else, whatever  *)
(* the other differs find similar to it.                                   *)
UnchangedPairsStay ==
  differ # "unchanged" =>
    \A p \in same : [from |-> {p[1]}, to |-> {p[2]}, sim |-> One] \in previous
=============================================================================
