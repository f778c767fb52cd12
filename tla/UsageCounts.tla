---------------------------- MODULE UsageCounts ----------------------------
(***************************************************************************)
(* How "usages" counts what client code uses of a package: the files are   *)
(* split into batches, a pool of processes counts a slice of the batches   *)
(* at a time, each batch in a store of its own, and the stores are merged. *)
(*                                                                         *)
(* A file is the sequence of the calls in it that concern the package, in  *)
(* the order they are visited; the analysis of a file may end with an      *)
(* exception at any of them.  A file that is irrelevant or cannot be read  *)
(* has no calls.  A value is the code of an argument.                      *)
(***************************************************************************)
EXTENDS Integers, FiniteSets, SequencesExt

CONSTANTS
  Class, Function, Parameter, Value,
  FunctionOf,  \* parameter |-> its function
  ClassOf,     \* function |-> the class that defines it
  NoClass,     \* the class of global functions
  Unprintable, \* as_string fails for this value, by RecursionError say
  Inputs       \* files, and how they are spread

Broken == [function |-> "none", arguments |-> <<>>] \* the analysis of a call fails

(* A parameter gets one value in a call: bound arguments are a dictionary. *)
Call ==
  {Broken} \cup
  {c \in [function : Function, arguments : Seq(Parameter \X Value)] :
     /\ \A i, j \in DOMAIN c.arguments : c.arguments[i][1] = c.arguments[j][1] => i = j
     /\ \A i \in DOMAIN c.arguments : FunctionOf[c.arguments[i][1]] = c.function}

ASSUME UsageInputs ==
  /\ FunctionOf \in [Parameter -> Function] /\ "none" \notin Function
  /\ ClassOf \in [Function -> Class \cup {NoClass}] /\ NoClass \notin Class
  /\ \A in \in Inputs :
       /\ in.processes \in Nat \ {0} /\ in.batchSize \in Nat \ {0}
       /\ in.files \in Seq(Seq(Call))

VARIABLES
  input,    \* python_files, n_processes and batch_size
  batches,  \* python_file_batches that no process has been given
  workers,  \* for each batch of the slice: the files left, and its usages
  total     \* aggregated_counts

vars == <<input, batches, workers, total>>
-----------------------------------------------------------------------------
(* Counters: a key that is missing counts zero.                            *)
Count(c, k) == IF k \in DOMAIN c THEN c[k] ELSE 0
PlusEach(c, S) ==
  [k \in DOMAIN c \cup S |-> Count(c, k) + (IF k \in S THEN 1 ELSE 0)]
PlusCounter(c, d) == [k \in DOMAIN c \cup DOMAIN d |-> Count(c, k) + Count(d, k)]

NoCounts == [k \in {} |-> 0]
EmptyStore ==
  [class |-> NoCounts, function |-> NoCounts, parameter |-> NoCounts, value |-> NoCounts]

(* merge_other_into_self                                                   *)
Merged(s, t) ==
  [class     |-> PlusCounter(s.class, t.class),
   function  |-> PlusCounter(s.function, t.function),
   parameter |-> PlusCounter(s.parameter, t.parameter),
   value     |-> PlusCounter(s.value, t.value)]
-----------------------------------------------------------------------------
(* One call.                                                               *)
Failing(c) == {i \in DOMAIN c.arguments : c.arguments[i][2] = Unprintable}
Reached(c) == {i \in DOMAIN c.arguments : \A j \in Failing(c) : i <= j}
Fails(c) == c = Broken \/ Failing(c) # {}

(* Mutant: the function is counted when all of its parameters are.         *)
CountedLate(s, c) ==
  [class     |-> PlusEach(s.class, {ClassOf[c.function]} \ {NoClass}),
   function  |-> IF Fails(c) THEN s.function ELSE PlusEach(s.function, {c.function}),
   parameter |-> PlusEach(s.parameter, {c.arguments[i][1] : i \in Reached(c)}),
   value     |-> PlusEach(s.value, {c.arguments[i] : i \in Reached(c) \ Failing(c)})]

(* enter_call; a parameter is counted before its value is printed.         *)
Counted(s, c) ==
  [class     |-> PlusEach(s.class, {ClassOf[c.function]} \ {NoClass}),
   function  |-> PlusEach(s.function, {c.function}),
   parameter |-> PlusEach(s.parameter, {c.arguments[i][1] : i \in Reached(c)}),
   value     |-> PlusEach(s.value, {c.arguments[i] : i \in Reached(c) \ Failing(c)})]
-----------------------------------------------------------------------------
(* find_usages                                                             *)
Minimum(m, n) == IF m <= n THEN m ELSE n

(* Mutant: the last batch is lost unless it is complete.                   *)
SplitIntoFullBatches(files, size) ==
  [i \in 1..(Len(files) \div size) |-> SubSeq(files, (i - 1) * size + 1, i * size)]

SplitIntoBatches(files, size) ==
  [i \in 1..((Len(files) + size - 1) \div size) |->
     SubSeq(files, (i - 1) * size + 1, Minimum(i * size, Len(files)))]

Init ==
  /\ input \in Inputs
  /\ batches = SplitIntoBatches(input.files, input.batchSize)
  /\ workers = <<>>
  /\ total = EmptyStore

StartSlice ==
  /\ workers = <<>> /\ batches # <<>>
  /\ LET n == Minimum(input.processes, Len(batches))
     IN  /\ workers' = [i \in 1..n |-> [files |-> batches[i], usages |-> EmptyStore]]
         /\ batches' = SubSeq(batches, n + 1, Len(batches))
  /\ UNCHANGED <<input, total>>

Files(w) == workers[w].files

CountCall(w) ==
  /\ Files(w) # <<>> /\ Head(Files(w)) # <<>>
  /\ LET call == Head(Head(Files(w)))
     IN  /\ ~Fails(call)
         /\ workers' = [workers EXCEPT ![w] =
                          [files  |-> [Files(w) EXCEPT ![1] = Tail(@)],
                           usages |-> Counted(workers[w].usages, call)]]
  /\ UNCHANGED <<input, batches, total>>

(* The rest of the file is skipped; what has been counted stays.           *)
FailAtCall(w) ==
  /\ Files(w) # <<>> /\ Head(Files(w)) # <<>>
  /\ LET call == Head(Head(Files(w)))
     IN  /\ Fails(call)
         /\ workers' = [workers EXCEPT ![w] =
                          [files  |-> Tail(Files(w)),
                           usages |-> IF call = Broken THEN workers[w].usages
                                      ELSE Counted(workers[w].usages, call)]]
  /\ UNCHANGED <<input, batches, total>>

FinishFile(w) ==
  /\ Files(w) # <<>> /\ Head(Files(w)) = <<>>
  /\ workers' = [workers EXCEPT ![w] =
                   [files |-> Tail(Files(w)), usages |-> workers[w].usages]]
  /\ UNCHANGED <<input, batches, total>>

(* The pool returns when all batches of the slice are done.                *)
MergeBatch ==
  /\ workers # <<>> /\ \A w \in DOMAIN workers : Files(w) = <<>>
  /\ total' = Merged(total, Head(workers).usages)
  /\ workers' = Tail(workers)
  /\ UNCHANGED <<input, batches>>

Finished == batches = <<>> /\ workers = <<>>

Next ==
  \/ StartSlice \/ MergeBatch
  \/ \E w \in DOMAIN workers : CountCall(w) \/ FailAtCall(w) \/ FinishFile(w)

Spec == Init /\ [][Next]_vars
-----------------------------------------------------------------------------
Stores == {total} \cup {workers[w].usages : w \in DOMAIN workers}

AddsUp(s) ==
  /\ \A p \in Parameter : Count(s.parameter, p) <= Count(s.function, FunctionOf[p])
  /\ \A k \in Parameter \X Value : Count(s.value, k) <= Count(s.parameter, k[1])
  /\ \A f \in Function : ClassOf[f] # NoClass =>
       Count(s.function, f) <= Count(s.class, ClassOf[f])

(* No parameter is set more often than its function is called, and no      *)
(* function is called more often than its class is used, at any time, in   *)
(* any store, and whatever fails: that the default value of a parameter is *)
(* used at least zero times is computed from that.                         *)
CountsAddUp == \A s \in Stores : AddsUp(s)

(* The calls that are analysed: up to the first of a file that fails.      *)
Visited ==
  {ij \in UNION {{i} \X DOMAIN input.files[i] : i \in DOMAIN input.files} :
     \A k \in 1..(ij[2] - 1) : ~Fails(input.files[ij[1]][k])}
VisitedCalls(P(_)) ==
  Cardinality({ij \in Visited : LET c == input.files[ij[1]][ij[2]] IN c # Broken /\ P(c)})
Arguments(c, S) == {c.arguments[i] : i \in S}

(* However the files are spread over batches and processes, every call     *)
(* that is analysed counts exactly once, and as far as its arguments are.  *)
BatchesMakeNoDifference ==
  Finished =>
    /\ \A c \in Class : Count(total.class, c) =
         VisitedCalls(LAMBDA call : ClassOf[call.function] = c)
    /\ \A f \in Function : Count(total.function, f) =
         VisitedCalls(LAMBDA call : call.function = f)
    /\ \A p \in Parameter : Count(total.parameter, p) =
         VisitedCalls(LAMBDA call : \E a \in Arguments(call, Reached(call)) : a[1] = p)
    /\ \A k \in Parameter \X Value : Count(total.value, k) =
         VisitedCalls(LAMBDA call : k \in Arguments(call, Reached(call) \ Failing(call)))
=============================================================================
