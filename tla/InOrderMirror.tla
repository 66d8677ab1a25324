---------------------------- MODULE InOrderMirror ----------------------------
(***************************************************************************)
(* What mirroring promises of one slave, whatever happens to the slave:    *)
(* the master's events are numbered once, and the slave's page is given    *)
(* some of them, each at most once and in the order of their numbers; but  *)
(* an event may be made part of an earlier one that the page has yet to be *)
(* given, and then comes with that one or not at all.                      *)
(***************************************************************************)
EXTENDS Naturals

VARIABLES
    issued,    \* the last number an event of the master has got
    carried,   \* <<g, n>>: event n is now part of event g, an earlier one
    applied,   \* the last event the slave's page was given as itself; 0 if none
    given      \* the events it was given

vars == <<issued, carried, applied, given>>

Init == issued = 0 /\ carried = {} /\ applied = 0 /\ given = {}

Sequence ==
    /\ issued' = issued + 1
    /\ \/ UNCHANGED carried
       \/ \E g \in 1..issued : carried' = carried \union {<<g, issued'>>}
    /\ UNCHANGED <<applied, given>>

Parts == {n \in 1..issued : \E g \in 1..issued : <<g, n>> \in carried}

With(g) == {g} \union {n \in 1..issued : <<g, n>> \in carried}

Apply ==
    /\ applied' \in (applied + 1)..issued
    /\ applied' \notin Parts
    /\ With(applied') \intersect given = {}
    /\ given' = given \union With(applied')
    /\ UNCHANGED <<issued, carried>>

Next == Sequence \/ Apply

Spec == Init /\ [][Next]_vars

-----------------------------------------------------------------------------
(* Nothing twice: an event that comes as itself or as a part was not given *)
(* before, either way.                                                     *)
NothingTwice == [][applied' # applied => With(applied') \intersect given = {}]_vars

(* Nothing is given as itself after what the master did later, unless that *)
(* came as a part of something earlier.                                    *)
NeverBack ==
    [][\A n \in given' \ given :
           n \in Parts \/ \A m \in given : m \in Parts \/ m < n]_vars
=============================================================================
