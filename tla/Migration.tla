----------------------------- MODULE Migration -----------------------------
(***************************************************************************)
(* What "migrate" does with the annotations of version 1 once it knows     *)
(* what became of their elements: every annotation is carried over to all  *)
(* elements that its element is mapped to, unchanged, marked as unsure, or *)
(* as a todo; annotations that meet at one element are made one.           *)
(*                                                                         *)
(* An annotation has a class, which says in which list of a store it is,   *)
(* what it is about (value), a review result and the contents that a       *)
(* comment on conflicts mentions; authors, reviewers and other comments    *)
(* are left out.  The lists of a store are written to a file by target, so *)
(* a store is a sequence of annotations for every list and element.        *)
(***************************************************************************)
EXTENDS Integers, FiniteSets, SequencesExt

CONSTANTS
  V1, V2,             \* the elements of both versions
  Kind,               \* element |-> "class", "function" or "parameter"
  Parent,             \* element |-> its class or function
  NoParent,           \* the parent of classes and global functions
  ReliableSimilarity, \* reliable_similarity, in percent
  UnsureSimilarity,   \* unsure_similarity
  Scenarios           \* sets of inputs: APIs, mappings and annotations

ASSUME Thresholds ==
  /\ ReliableSimilarity \in 0..100 /\ UnsureSimilarity \in 0..ReliableSimilarity
  /\ V1 \cap V2 = {}

(* Mappings share no element, which APIMapping sees to, and relate only    *)
(* elements of one kind; an element has one annotation of a list at most,  *)
(* as the file they come from is keyed by target.  Limits of intervals are *)
(* counted in halves and have type 0, 1 or, if they are infinite, 2.       *)
Reviews == {"CORRECT", "NONE", "UNSURE", "WRONG"}
Intervals == [discrete : BOOLEAN, lower : Int, upper : Int, lowerType : 0..2, upperType : 0..2]
ASSUME MigrationInputs ==
  \A S \in Scenarios : \A in \in S :
    /\ \A m, n \in in.mappings :
         /\ m.from # {} /\ m.to # {}
         /\ m # n => m.from \cap n.from = {} /\ m.to \cap n.to = {}
         /\ \A e, f \in m.from \cup m.to : Kind[e] = Kind[f]
    /\ in.annotations \in Seq(Range(in.annotations))
    /\ \A a \in Range(in.annotations) :
         a.review \in Reviews /\ (a.class = "boundary" => a.value \in Intervals)
    /\ \A i, j \in DOMAIN in.annotations :
         LET a == in.annotations[i]  b == in.annotations[j]
         IN  a.class = b.class /\ a.target = b.target => i = j

VARIABLES
  input,     \* data of the elements, mappings and annotationsv1
  next,      \* position of the next annotation
  reliable,  \* migrated_annotation_store
  unsure     \* unsure_migrated_annotation_store

vars == <<input, next, reliable, unsure>>

Variants == {"constant", "omitted", "optional", "required"}
Lists == {"boundary", "calledAfter", "description", "enum", "expert", "group",
          "move", "remove", "rename", "todo", "value"}
ListOf(class) == IF class \in Variants THEN "value" ELSE class
Key == Lists \X V2
At(class, f) == <<ListOf(class), f>>

Data(e) == input.data[e]
MappingOf(e) == {m \in input.mappings : e \in m.from}
Mapped(e, f) == \E m \in MappingOf(e) : f \in m.to
-----------------------------------------------------------------------------
(* What an annotation becomes at an element of version 2: a set with at    *)
(* most one annotation.                                                    *)
Become(class, value, review) ==
  {[class |-> class, value |-> value, review |-> review, mentions |-> {}]}
Keep(a, review) == Become(a.class, a.value, review)
KeepIf(ok, a) == Keep(a, IF ok THEN "NONE" ELSE "UNSURE")
AsTodo(a) == Become("todo", <<a.class, a.target, a.value>>, "NONE")

(* A type is the sequence of the names in it, empty if there is none.      *)
SameType(d, e) ==
  \/ d.type = <<>> /\ e.type = <<>>
  \/ Range(d.type) \cap Range(e.type) \cap {"int", "float", "bool", "str"} # {}

HasDefault(d) == d.default.kind # "absent"
SameNumber(d, e) == d.default = e.default /\ d.default.kind = "number"

(* Booleans are all the same: bool("False") is true.                       *)
SameValue(d, e) ==
  /\ d.default.kind = e.default.kind
  /\ \/ d.default.kind \in {"absent", "None", "bool"}
     \/ d.default.kind \in {"number", "string"} /\ d.default = e.default

MigrateFixed(a, f) ==
  LET d == Data(a.target)  e == Data(f)
  IN  IF SameType(d, e) THEN KeepIf(SameValue(d, e), a) ELSE AsTodo(a)

MigrateOptional(a, f) ==
  LET d == Data(a.target)  e == Data(f)
  IN  IF SameType(d, e) \/ HasDefault(d) # HasDefault(e) \/ SameNumber(d, e)
        THEN KeepIf(SameType(d, e) /\ SameValue(d, e), a) ELSE AsTodo(a)

MigrateRequired(a, f) ==
  LET d == Data(a.target)  e == Data(f)
  IN  IF SameType(d, e) /\ HasDefault(d) = HasDefault(e)
        THEN Keep(a, "NONE") ELSE AsTodo(a)

(* int() cuts towards zero; a limit that is cut gets type 1.               *)
Truncated(limit) == IF limit >= 0 THEN 2 * (limit \div 2) ELSE -2 * ((-limit) \div 2)

(* Mutant: a lower limit is cut like an upper one and stays as it is.      *)
DiscreteCut(i) ==
  [i EXCEPT !.discrete = TRUE,
            !.lower = IF i.lowerType = 2 THEN @ ELSE Truncated(@),
            !.upper = IF i.upperType = 2 THEN @ ELSE Truncated(@)]

Discrete(i) ==
  LET lower == Truncated(i.lower)  upper == Truncated(i.upper)
      Type(limit, cut, type) == IF type # 2 /\ cut # limit THEN 1 ELSE type
  IN  [discrete  |-> TRUE,
       lower     |-> IF i.lowerType = 2 \/ lower = i.lower THEN i.lower
                                                           ELSE lower + 2,
       upper     |-> IF i.upperType = 2 THEN i.upper ELSE upper,
       lowerType |-> Type(i.lower, lower, i.lowerType),
       upperType |-> Type(i.upper, upper, i.upperType)]
Fit(i, discrete) ==
  IF i.discrete = discrete THEN i
  ELSE IF discrete THEN Discrete(i) ELSE [i EXCEPT !.discrete = FALSE]

(* The first number in a type decides.                                     *)
Numbers(type) == SelectSeq(type, LAMBDA name : name \in {"int", "float"})
MigrateBoundary(a, f) ==
  LET d == Data(a.target)  e == Data(f)
      numbers == Numbers(e.type)
      discrete == Head(numbers) = "int"
  IN  IF e.type = <<>>
        THEN Keep(a, IF d.type = <<>> THEN a.review ELSE "UNSURE")
      ELSE IF numbers = <<>> THEN AsTodo(a)
      ELSE IF a.value.discrete = discrete THEN Keep(a, a.review)
      ELSE Become(a.class, Fit(a.value, discrete), "UNSURE")

(* A parameter of another type is taken to have become an enum.            *)
MigrateEnum(a, f) ==
  LET d == Data(a.target)  e == Data(f)
      fits == ~HasDefault(e) \/ e.default.content \in a.value
      string == "str" \in Range(e.type)
  IN  IF (string /\ fits) \/ (d.type = <<>> /\ e.type = <<>>) THEN Keep(a, a.review)
      ELSE IF Len(e.type) = 1 /\ ~string THEN {}
      ELSE Keep(a, "UNSURE")

(* Of functions and classes, the docstring of version 2 is compared with   *)
(* itself.                                                                 *)
MigrateDescription(a, f) ==
  KeepIf(Kind[f] = "parameter" => Data(f).doc \in {Data(a.target).doc, a.value}, a)

MigrateRename(a, f) ==
  Keep(a, IF Data(f).name \in {a.value, Data(a.target).name} THEN a.review
                                                             ELSE "UNSURE")

MigrateMove(a, f) ==
  IF Kind[f] # "parameter" /\ Parent[f] = NoParent
    THEN KeepIf(Data(f).module \in {Data(a.target).module, a.value}, a)
    ELSE AsTodo(a)

MigrateRemove(a, f) ==
  IF Kind[f] = "parameter" THEN AsTodo(a) ELSE Keep(a, "NONE")

(* The functions of version 2 in the class of f, or below its module, that *)
(* the function to be called before is mapped to.                          *)
CalledBefore(a, f) ==
  {g \in V2 :
     /\ Kind[g] = "function"
     /\ IF Parent[f] = NoParent THEN Data(g).module = Data(f).module
                                ELSE Parent[g] = Parent[f]
     /\ \E e \in V1 : /\ Kind[e] = "function" /\ Parent[e] = Parent[a.target]
                      /\ Data(e).name = a.value
                      /\ Mapped(e, g)}
MigrateCalledAfter(a, f) ==
  IF \E g \in V2 \ {f} : CalledBefore(a, f) = {g}
    THEN Become(a.class, Data(CHOOSE g \in CalledBefore(a, f) : TRUE).name, a.review)
    ELSE AsTodo(a)

(* The number that is added to the name of a group has a bit for every     *)
(* parameter that is still mapped: whether one of f replaces it alone.     *)
Replacing(p, f) == {q \in V2 : Kind[q] = "parameter" /\ Parent[q] = f /\ Mapped(p, q)}
Replacements(parameters, f) == UNION {Replacing(p, f) : p \in Range(parameters)}
Place(parameters, i) == Cardinality({j \in 1..i : MappingOf(parameters[j]) # {}})
Bits(parameters, f) ==
  {Place(parameters, i) : i \in {i \in DOMAIN parameters : Cardinality(Replacing(parameters[i], f)) = 1}}
MigrateGroup(a, f) ==
  LET new == Replacements(a.value.parameters, f)
      bits == Bits(a.value.parameters, f)
      count == Len(a.value.parameters)
      Group(name) == [name |-> name, parameters |-> new]
  IN  IF Cardinality(new) < 2 /\ count >= 2 THEN AsTodo(a)
      ELSE IF Cardinality(new) # count
        THEN Become(a.class, Group(Append(a.value.name, bits)), "UNSURE")
      ELSE Become(a.class, Group(a.value.name), a.review)

Migrated(a, f) ==
  CASE a.class \in {"constant", "omitted"} -> MigrateFixed(a, f)
    [] a.class = "optional"    -> MigrateOptional(a, f)
    [] a.class = "required"    -> MigrateRequired(a, f)
    [] a.class = "boundary"    -> MigrateBoundary(a, f)
    [] a.class = "enum"        -> MigrateEnum(a, f)
    [] a.class = "description" -> MigrateDescription(a, f)
    [] a.class = "rename"      -> MigrateRename(a, f)
    [] a.class = "move"        -> MigrateMove(a, f)
    [] a.class = "remove"      -> MigrateRemove(a, f)
    [] a.class = "calledAfter" -> MigrateCalledAfter(a, f)
    [] a.class = "group"       -> MigrateGroup(a, f)
    [] OTHER                   -> Keep(a, "NONE")
-----------------------------------------------------------------------------
(* Annotations that meet.                                                  *)
Content(x) == <<x.class, x.value>>
Rank == [CORRECT |-> 1, NONE |-> 2, UNSURE |-> 3, WRONG |-> 4]

Twins(s, i) == {j \in DOMAIN s \ {i} : s[j].class = s[i].class}
HasTwins(s) == \E i \in DOMAIN s : Twins(s, i) # {}
First(S) == CHOOSE i \in S : \A j \in S : i <= j

(* Mutant: only those that follow are duplicates.                          *)
DuplicatesThatFollow(s) ==
  LET i == First({i \in DOMAIN s : Twins(s, i) # {}})
  IN  [k \in 1..(Len(s) - i) |-> i + k]

(* The list of duplicates, as positions: it begins with the first that has *)
(* a twin, which is put after its first twin; all that follow are added,   *)
(* the twin once more.                                                     *)
Duplicates(s) ==
  LET i == First({i \in DOMAIN s : Twins(s, i) # {}})
  IN  <<First(Twins(s, i)), i>> \o [k \in 1..(Len(s) - i) |-> i + k]

(* The one that stays: the first of those with the best review result.     *)
Survivor(s) ==
  LET dup == Duplicates(s)
      Better(k, l) == Rank[s[dup[k]].review] < Rank[s[dup[l]].review]
  IN  dup[First({k \in DOMAIN dup : \A l \in DOMAIN dup : ~Better(l, k)})]

(* Mutants: one that is unsure already is not marked again; the review     *)
(* result stays.                                                           *)
MarkConflictOfSure(s) ==
  LET contents == {Content(s[p]) : p \in Range(Duplicates(s))}
      first == Survivor(s)
  IN  IF Cardinality(contents) = 1 \/ s[first].review = "UNSURE" THEN s
      ELSE [s EXCEPT ![first].review = "UNSURE",
                     ![first].mentions = @ \cup (contents \ {Content(s[first])})]
MarkConflictByComment(s) ==
  LET contents == {Content(s[p]) : p \in Range(Duplicates(s))}
      first == Survivor(s)
  IN  [s EXCEPT ![first].mentions = @ \cup (contents \ {Content(s[first])})]

MarkConflict(s) ==
  LET contents == {Content(s[p]) : p \in Range(Duplicates(s))}
      first == Survivor(s)
  IN  IF Cardinality(contents) = 1 THEN s
      ELSE [s EXCEPT ![first].review = "UNSURE",
                     ![first].mentions = @ \cup (contents \ {Content(s[first])})]

(* Equal annotations are not told apart when the others are removed.       *)
RemoveOthers(list, s) ==
  LET dup == Duplicates(s)
      survivor == Survivor(s)
      marked == MarkConflict(s)
      rest[n \in 0 .. Len(dup)] ==
        IF n = 0 THEN list
        ELSE IF dup[n] = survivor THEN rest[n - 1]
        ELSE RemoveFirst(rest[n - 1], marked[dup[n]])
  IN  rest[Len(dup)]

HandledIn(k) ==
  LET s == reliable[k] \o unsure[k]
      marked == MarkConflict(s)
      n == Len(reliable[k])
  IN  IF HasTwins(s)
        THEN <<RemoveOthers(SubSeq(marked, 1, n), s),
               RemoveOthers(SubSeq(marked, n + 1, Len(s)), s)>>
        ELSE <<reliable[k], unsure[k]>>
-----------------------------------------------------------------------------
Count == Len(input.annotations)
Current == input.annotations[next]

Init ==
  /\ \E S \in Scenarios : input \in S
  /\ next = 1
  /\ reliable = [k \in Key |-> <<>>]
  /\ unsure = [k \in Key |-> <<>>]

SkipUnmapped ==
  /\ next <= Count /\ MappingOf(Current.target) = {}
  /\ next' = next + 1
  /\ UNCHANGED <<input, reliable, unsure>>

(* add_annotation                                                          *)
Added(store, new) ==
  [k \in Key |-> store[k] \o SetToSeq({x \in new[k[2]] : At(x.class, k[2]) = k})]

ManyToMany(m) == Cardinality(m.from) > 1 /\ Cardinality(m.to) > 1

(* add_annotations_based_on_similarity                                     *)
MigrateTo(m) ==
  LET new == [f \in V2 |-> IF f \in m.to THEN Migrated(Current, f) ELSE {}]
      doubted == [f \in V2 |-> {[x EXCEPT !.review = "UNSURE"] : x \in new[f]}]
  IN  IF ManyToMany(m) \/ m.similarity < UnsureSimilarity
        THEN unsure' = Added(unsure, new) /\ UNCHANGED reliable
        ELSE /\ reliable' = Added(reliable, IF m.similarity >= ReliableSimilarity
                                              THEN new ELSE doubted)
             /\ UNCHANGED unsure

Migrate ==
  /\ next <= Count
  /\ \E m \in MappingOf(Current.target) : MigrateTo(m)
  /\ next' = next + 1
  /\ UNCHANGED input

HandleDuplicates ==
  /\ next = Count + 1
  /\ reliable' = [k \in Key |-> HandledIn(k)[1]]
  /\ unsure' = [k \in Key |-> HandledIn(k)[2]]
  /\ next' = Count + 2
  /\ UNCHANGED input

Done == next = Count + 2
Terminated == Done /\ UNCHANGED vars

Next == SkipUnmapped \/ Migrate \/ HandleDuplicates \/ Terminated

Spec == Init /\ [][Next]_vars
-----------------------------------------------------------------------------
(* to_dict keeps the last annotation of a list and a target.               *)
Saved(store, k) == IF store[k] = <<>> THEN {} ELSE {Last(store[k])}
SavedAt(k) == Saved(reliable, k) \cup Saved(unsure, k)

(* All that the annotations of version 1 become at an element.             *)
Expected(k) ==
  {x \in UNION {Migrated(a, k[2]) : a \in {a \in Range(input.annotations) :
                                             Mapped(a.target, k[2])}} :
     At(x.class, k[2]) = k}
OneVariant(k) == \A x, y \in Expected(k) : x.class = y.class

(* Whatever annotations of merged elements become, it is in one of the     *)
(* saved files, or the annotation that is there instead mentions it, and   *)
(* nothing else is there.  Not so where different variants of value        *)
(* annotations meet: they are no duplicates.                               *)
NothingVanishes ==
  Done => \A k \in Key : OneVariant(k) =>
    /\ \A x \in Expected(k) : \E y \in SavedAt(k) :
         Content(x) \in {Content(y)} \cup y.mentions
    /\ \A y \in SavedAt(k) : \E x \in Expected(k) : Content(x) = Content(y)

(* Annotations that contradict each other are never left as certain.       *)
ConflictsAreMarked ==
  Done => \A k \in Key : OneVariant(k) =>
    \A x, y \in Expected(k) : Content(x) # Content(y) =>
      \A z \in SavedAt(k) : z.review = "UNSURE"

(* An element is not left with two annotations of one class, neither in    *)
(* one file nor in both.                                                   *)
OneOfEachClass ==
  Done => \A k \in Key : ~HasTwins(reliable[k] \o unsure[k])

(* Generated annotations have type 0 for limits that belong to the         *)
(* interval and 1 for those that do not.                                   *)
Admits(i, n) ==
  /\ i.lowerType = 2 \/ n > i.lower \/ (n = i.lower /\ i.lowerType = 0)
  /\ i.upperType = 2 \/ n < i.upper \/ (n = i.upper /\ i.upperType = 0)

(* An interval that is made discrete admits no integer that it did not     *)
(* admit before.                                                           *)
NothingNewAdmitted ==
  \A a \in Range(input.annotations) : a.class = "boundary" =>
    \A f \in V2, n \in -5..5 : Mapped(a.target, f) =>
      \A x \in Migrated(a, f) :
        x.class = "boundary" /\ Admits(x.value, 2 * n) => Admits(a.value, 2 * n)
=============================================================================
