-------------------------- MODULE TemporalSequencer --------------------------
(***************************************************************************)
(* Hybrid logical clocks and the min-heap (EventMinHeap) in which          *)
(* TemporalSequencer lets the master's events wait for older ones. The     *)
(* heap is the code's array, from 1: the children of i are 2i and 2i + 1.  *)
(***************************************************************************)
EXTENDS Naturals, Sequences, SequencesExt

(* A page that has sent nothing: 0 is no time.                             *)
NoHlc == [physical |-> 0, logical |-> 0]

(* Mutant of Generated: equal readings give equal clocks.                  *)
GeneratedEqual(last, reading) ==
    IF reading > last.physical THEN [physical |-> reading, logical |-> 0]
    ELSE last

(* Mutant of Generated: the clock is believed when it goes back.           *)
GeneratedBack(last, reading) ==
    IF reading = last.physical THEN [last EXCEPT !.logical = @ + 1]
    ELSE [physical |-> reading, logical |-> 0]

(* HybridLogicalClock.generate                                             *)
Generated(last, reading) ==
    IF reading > last.physical THEN [physical |-> reading, logical |-> 0]
    ELSE [last EXCEPT !.logical = @ + 1]

Earlier(a, b) ==
    \/ a.physical < b.physical
    \/ a.physical = b.physical /\ a.logical < b.logical

(* EventMinHeap.compare: of equal clocks, the outer frame's goes first.    *)
Less(a, b) == Earlier(a.hlc, b.hlc) \/ (a.hlc = b.hlc /\ a.depth < b.depth)

Swapped(h, i, j) == [h EXCEPT ![i] = h[j], ![j] = h[i]]

(* Turn(s), with s evaluated once.                                         *)
Once(Turn(_), s) == CHOOSE t \in {Turn(u) : u \in {s}} : TRUE

(* heapifyUp and heapifyDown: of the n-th turn, the heap and the index. As *)
(* many turns as there are elements; those after the last swap do nothing. *)
Climb(s) ==
    IF s.at > 1 /\ Less(s.heap[s.at], s.heap[s.at \div 2])
    THEN [heap |-> Swapped(s.heap, s.at, s.at \div 2), at |-> s.at \div 2]
    ELSE s

Climbing(h) ==
    LET turn[n \in Nat] == IF n = 0 THEN [heap |-> h, at |-> Len(h)]
                                    ELSE Once(Climb, turn[n - 1])
    IN  turn

HeapifyUp(h) == Climbing(h)[Len(h)].heap

Smallest(h, i) ==
    LET l == IF 2 * i <= Len(h) /\ Less(h[2 * i], h[i]) THEN 2 * i ELSE i
    IN  IF 2 * i + 1 <= Len(h) /\ Less(h[2 * i + 1], h[l]) THEN 2 * i + 1 ELSE l

Sink(s) ==
    [heap |-> Swapped(s.heap, s.at, Smallest(s.heap, s.at)),
     at   |-> Smallest(s.heap, s.at)]

Sinking(h) ==
    LET turn[n \in Nat] == IF n = 0 THEN [heap |-> h, at |-> 1]
                                    ELSE Once(Sink, turn[n - 1])
    IN  turn

HeapifyDown(h) == Sinking(h)[Len(h)].heap

Push(h, e) == HeapifyUp(Append(h, e))

Pop(h) ==
    IF Len(h) = 1 THEN <<>> ELSE HeapifyDown([Front(h) EXCEPT ![1] = Last(h)])
=============================================================================
