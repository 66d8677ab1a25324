----------------------------- MODULE MirrorQueue -----------------------------
(***************************************************************************)
(* The queue the execution plane keeps for one slave (QueueManager): the   *)
(* events mirrored from the master, each with its global event sequence    *)
(* number (GES), and the navigations of the recovery, which have none.     *)
(*                                                                         *)
(* An entry that is overwritten, coalesced or purged leaves a NOOP with    *)
(* its number, so that the slave's counter can still pass it. Only the     *)
(* purge before a navigation leaves its NOOPs where they were appended,    *)
(* behind entries with higher numbers. applyBackpressure is left out: its  *)
(* only caller, setBackpressure, has none.                                 *)
(***************************************************************************)
EXTENDS Naturals, Sequences, FiniteSets, SequencesExt

CONSTANT
    DiscreteLimit   \* commands the discrete bucket takes (100 in the code)

ASSUME DiscreteLimitAssumption == DiscreteLimit \in Nat \ {0}

Buckets == {"Critical", "Discrete", "Aggregated", "Continuous"}

(* What the master's page reports, and what ActionDispatcher and           *)
(* ClassificationPolicy make of it: a noop stands for a click the master   *)
(* makes while a run is executing there.                                   *)
Class(kind) ==
    CASE kind = "navigate"           -> "Critical"
      [] kind = "hover"              -> "Continuous"
      [] kind \in {"wheel", "scroll"} -> "Aggregated"
      [] OTHER                       -> "Discrete"

Navigation == [ges |-> 0, kind |-> "navigate"]   \* 0: it has no number

EmptyQueue == [b \in Buckets |-> <<>>]

IsEmpty(q) == \A b \in Buckets : q[b] = <<>>

Entries(q) == UNION {ToSet(q[b]) : b \in Buckets}

Fillers(dropped) ==
    [i \in 1..Len(dropped) |-> [ges |-> dropped[i].ges, kind |-> "noop"]]

(* The entries of s at the positions in the domain of before, each behind  *)
(* those at the positions before has for it: with sets, what SortSeq and   *)
(* SelectSeq are with recursion, which proofs cannot follow.               *)
Arranged(s, before) ==
    [n \in 1..Cardinality(DOMAIN before) |->
        s[CHOOSE i \in DOMAIN before : Cardinality(before[i]) = n - 1]]

ByGes(s) ==
    LET Precedes(j, i) == \/ s[j].ges < s[i].ges
                          \/ s[j].ges = s[i].ges /\ j < i
    IN  Arranged(s, [i \in DOMAIN s |-> {j \in DOMAIN s : Precedes(j, i)}])

Picked(s, I) == Arranged(s, [i \in I |-> {j \in I : j < i}])

-----------------------------------------------------------------------------
(* QueueManager.insert, after its limit: SchedulingPolicy.apply decides    *)
(* what is dropped, the NOOPs of what is dropped go to the discrete        *)
(* bucket, which is sorted.                                                *)

(* Mutant of Dropped: an overwritten entry leaves nothing.                 *)
DroppedSilently(q, e) == <<>>

(* The number of the entry, if there is one, that takes along the movement *)
(* of a wheel: it is added to the deltas of the scroll that waits already, *)
(* even if other events have come in between.                              *)
Carriers(q, e) ==
    IF e.kind = "wheel" THEN {q.Aggregated[i].ges : i \in DOMAIN q.Aggregated} ELSE {}

(* The entry of such a wheel is itself dropped; a hover or a scroll        *)
(* position replaces the one that waits.                                   *)
Dropped(q, e) ==
    LET b == Class(e.kind)
    IN  IF b \in {"Critical", "Discrete"} \/ q[b] = <<>> THEN <<>>
        ELSE IF e.kind = "wheel" THEN <<e>> ELSE q[b]

Insert(q, e) ==
    LET b       == Class(e.kind)
        dropped == Dropped(q, e)
        kept    == IF b \in {"Critical", "Discrete"} THEN Append(q[b], e)
                   ELSE IF dropped = <<e>> THEN q[b] ELSE <<e>>
        placed  == [q EXCEPT ![b] = kept]
    IN  IF dropped = <<>> THEN placed
        ELSE [placed EXCEPT !.Discrete = ByGes(@ \o Fillers(dropped))]

(* Mutant of Full: one more.                                               *)
FullOneMore(q) ==
    Cardinality({i \in DOMAIN q.Discrete : q.Discrete[i].kind # "noop"})
        > DiscreteLimit

Full(q) ==
    Cardinality({i \in DOMAIN q.Discrete : q.Discrete[i].kind # "noop"})
        >= DiscreteLimit

(* Mutant of NextBucket: the most urgent class first, whatever its number. *)
NextBucketByClass(q) ==
    LET order == <<"Critical", "Discrete", "Aggregated", "Continuous">>
    IN  order[Min({i \in 1..4 : q[order[i]] # <<>>})]

(* peekNext and dequeueNext: of the heads of the buckets, one without a    *)
(* number, else the one with the least.                                    *)
NextBucket(q) ==
    CHOOSE b \in Buckets :
        /\ q[b] # <<>>
        /\ \A c \in Buckets : q[c] # <<>> => Head(q[b]).ges <= Head(q[c]).ges

NextEntry(q) == Head(q[NextBucket(q)])

Dequeue(q) == [q EXCEPT ![NextBucket(q)] = Tail(@)]

(* handleNavigation: only clicks stay.                                     *)
PurgeForNavigation(q) ==
    LET stay == {i \in DOMAIN q.Discrete : q.Discrete[i].kind = "click"}
        gone == q.Continuous \o q.Aggregated
                    \o Picked(q.Discrete, DOMAIN q.Discrete \ stay)
    IN  [q EXCEPT !.Continuous = <<>>, !.Aggregated = <<>>,
                  !.Discrete = Picked(@, stay) \o Fillers(gone)]

(* Mutant of PurgeAggregated: the NOOPs stay at the end.                   *)
PurgeAggregatedUnsorted(q) ==
    [q EXCEPT !.Aggregated = <<>>, !.Discrete = @ \o Fillers(q.Aggregated)]

(* purgeAggregated: scrolls that wait while the master's final scroll      *)
(* position is imposed on the slaves.                                      *)
PurgeAggregated(q) ==
    IF q.Aggregated = <<>> THEN q
    ELSE [q EXCEPT !.Aggregated = <<>>,
                   !.Discrete = ByGes(@ \o Fillers(q.Aggregated))]

InOrder(q) ==
    \A i, j \in DOMAIN q.Discrete :
        i < j => q.Discrete[i].ges < q.Discrete[j].ges
=============================================================================
