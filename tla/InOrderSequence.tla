--------------------------- MODULE InOrderSequence ---------------------------
(***************************************************************************)
(* What sequencing promises ("Strict Late-Arrival Abort to guarantee       *)
(* invariant (Causal Consistency)"): of the events it takes, a set waits,  *)
(* and the rest is a sequence that never goes back in time. How the        *)
(* waiting events are kept, and when one is let through, is left open.     *)
(***************************************************************************)
EXTENDS Naturals, Sequences

CONSTANT Events    \* an id and a hybrid logical clock

Clocks == [physical : Nat, logical : Nat]

(* What an instance has to see to.                                         *)
EventsAreStamped == Events \subseteq [id : Nat, hlc : Clocks]

(* HybridLogicalClock.compare(a, b) < 0                                    *)
Earlier(a, b) ==
    \/ a.physical < b.physical
    \/ a.physical = b.physical /\ a.logical < b.logical

VARIABLES
    taken,      \* the ids of the events taken
    waiting,
    sequenced

vars == <<taken, waiting, sequenced>>

Init == taken = {} /\ waiting = {} /\ sequenced = <<>>

(* An event that is older than one let through is not taken.               *)
Take(e) ==
    /\ e.id \notin taken
    /\ sequenced # <<>> => ~Earlier(e.hlc, sequenced[Len(sequenced)].hlc)
    /\ taken' = taken \union {e.id}
    /\ waiting' = waiting \union {e}
    /\ UNCHANGED sequenced

(* None that waits is older.                                               *)
Sequence(e) ==
    /\ \A other \in waiting : ~Earlier(other.hlc, e.hlc)
    /\ waiting' = waiting \ {e}
    /\ sequenced' = Append(sequenced, e)
    /\ UNCHANGED taken

Next ==
    \/ \E e \in Events : Take(e)
    \/ \E e \in waiting : Sequence(e)

Spec == Init /\ [][Next]_vars

-----------------------------------------------------------------------------
TypeOK ==
    /\ taken \subseteq {e.id : e \in Events}
    /\ waiting \subseteq Events
    /\ sequenced \in Seq(Events)

(* The numbers that are given out follow the hybrid logical clocks.        *)
CausalOrder ==
    \A i, j \in DOMAIN sequenced :
        i < j => ~Earlier(sequenced[j].hlc, sequenced[i].hlc)

(* No event gets two numbers.                                              *)
OneNumberEach ==
    \A i, j \in DOMAIN sequenced : sequenced[i].id = sequenced[j].id => i = j
=============================================================================
