---------------------------- MODULE Condensation ----------------------------
(***************************************************************************)
(* What _handle_cycles promises about a call graph, whatever order it      *)
(* searches in: groups of functions that call each other may be merged,    *)
(* one cycle at a time, and the calls between groups follow.               *)
(***************************************************************************)
CONSTANT Vertex   \* functions and classes

VARIABLES
  built,   \* the calls between functions, as the call graph was built
  group,   \* the groups: functions that share one node
  calls    \* the calls between groups

vars == <<built, group, calls>>

Init ==
  /\ built \in SUBSET (Vertex \X Vertex)
  /\ group = {{v} : v \in Vertex}
  /\ calls = {<<{e[1]}, {e[2]}>> : e \in built}

(* From every part of S some call leads to the rest of S: all groups of S  *)
(* reach each other inside S.                                              *)
StronglyConnected(S) ==
  /\ S # {}
  /\ \A G \in S : S = {G} => <<G, G>> \in calls
  /\ \A T \in SUBSET S :
        T # {} /\ T # S => \E G \in T, H \in S \ T : <<G, H>> \in calls

(* What takes the place of the group G when the groups of S are merged.    *)
Image(S, G) == IF G \in S THEN UNION S ELSE G

GroupsAfter(S) == (group \ S) \cup {UNION S}

CallsAfter(S) ==
  {<<Image(S, e[1]), Image(S, e[2])>> : e \in calls} \ {<<UNION S, UNION S>>}

Merge(S) ==
  /\ group' = GroupsAfter(S)
  /\ calls' = CallsAfter(S)
  /\ UNCHANGED built

Next == \E S \in {T \in SUBSET group : StronglyConnected(T)} : Merge(S)

Spec == Init /\ [][Next]_vars
-----------------------------------------------------------------------------
TypeOK ==
  /\ built \subseteq Vertex \X Vertex
  /\ group \subseteq SUBSET Vertex
  /\ calls \subseteq group \X group

(* Every function is in one group and in no other.                         *)
Partition ==
  /\ UNION group = Vertex
  /\ \A G, H \in group : G = H \/ G \cap H = {}

(* A call is kept as a call between the groups, or ended up inside one.    *)
CallsKept ==
  \A e \in built : \A G, H \in group :
    e[1] \in G /\ e[2] \in H => G = H \/ <<G, H>> \in calls

(* A call between groups is the call of some member of a member.           *)
CallsReal ==
  \A e \in calls : \E f \in e[1], g \in e[2] : <<f, g>> \in built

(* Nothing called from inside X is outside X.                              *)
Closed(X) == \A e \in built : e[1] \in X => e[2] \in X

(* The functions of a group reach each other: a set that is closed under   *)
(* calls contains all of a group or nothing of it.  So everything that one *)
(* member of a group can cause, the others can cause as well.              *)
GroupsCallEachOther ==
  \A X \in SUBSET Vertex : Closed(X) =>
    \A G \in group : G \subseteq X \/ G \cap X = {}
=============================================================================
