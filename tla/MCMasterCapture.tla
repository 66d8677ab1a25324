--------------------------- MODULE MCMasterCapture ---------------------------
(* Instances of MasterCapture for TLC: the bounds are in the .cfg files.   *)
EXTENDS MasterCapture

(* What the user does in the main frame, and in the one inside it.         *)
MCUsedEvents ==
    [f \in Frames |-> IF f = Main THEN {"click", "wheel"}
                                  ELSE {"input"}]

-----------------------------------------------------------------------------
(* EventMinHeap: whatever is pushed, pops come back sorted by clock and    *)
(* depth, with nothing lost and nothing made up.                           *)
Stamps == [hlc : [physical : {1, 2}, logical : {0, 1}], depth : {0, 1}]

Heaped(s) == FoldLeft(Push, <<>>, s)

Popped(h) ==
    FoldLeft(LAMBDA s, i : [heap |-> Pop(s.heap), out |-> Append(s.out, s.heap[1])],
             [heap |-> h, out |-> <<>>], [i \in DOMAIN h |-> i]).out

HeapSorts ==
    \A s \in BoundedSeq(Stamps, 4) :
        LET out == Popped(Heaped(s))
        IN  /\ \A e \in Stamps :
                  Cardinality({i \in DOMAIN s : s[i] = e})
                      = Cardinality({i \in DOMAIN out : out[i] = e})
            /\ \A i, j \in DOMAIN out : i < j => ~Less(out[j], out[i])

ASSUME HeapSorts

(* InteractionRecognizer: the n-th event ends a drag exactly if a button   *)
(* went down, the pointer then left the place, and neither another gesture *)
(* began nor this one ended in between. A release that follows no movement *)
(* ends none.                                                              *)
Gestures == {"mousedown", "mousemove", "mousedrag", "mouseup", "menuup",
             "click", "dblclick"}

Recognized(t) ==
    FoldLeft(LAMBDA s, i : Append(s, Handle(Last(s).rec, t[i], i)),
             <<Result(NewRecognizer, <<>>)>>, [i \in DOMAIN t |-> i])

EndsDrag(t, n) ==
    \E b, d \in 1..(n - 1) :
        /\ b < d /\ t[b] = "mousedown" /\ t[d] = "mousedrag"
        /\ t[n] \in {"mouseup", "menuup"}
        /\ \A k \in (b + 1)..(d - 1) : t[k] \in {"mousemove", "mouseup"}
        /\ \A k \in (d + 1)..(n - 1) : t[k] \in {"mousemove", "mousedrag"}

DragsAreWhole ==
    \A t \in BoundedSeq(Gestures, 4) : \A n \in DOMAIN t :
        EndsDrag(t, n) <=> Interaction("DRAG", n) \in ToSet(Recognized(t)[n + 1].out)

ASSUME DragsAreWhole
=============================================================================
