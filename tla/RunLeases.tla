------------------------------ MODULE RunLeases ------------------------------
(***************************************************************************)
(* The lease table of RunOrchestrator (`activeRuns`) and the operations    *)
(* its methods perform on it, as pure operators.  A table maps the account *)
(* key the callers pass (a browser id) to the lease stored under it; an    *)
(* account that is not in the JavaScript Map holds NoRun here.             *)
(*                                                                         *)
(* Run ids are crypto.randomUUID() in the code and positive numbers here;  *)
(* 0 stands for "no run".  A cycle id is <<run, n>>, the n-th BetCycle of  *)
(* a run; NoCycle stands for the null cycleId of a sealed lease.           *)
(***************************************************************************)
EXTENDS Naturals

NoCycle == <<0, 0>>

LeaseStates == {"PASSIVE", "EXECUTING", "PROCESSING", "UNCERTAIN"}

Lease(r, c, s) == [runId |-> r, cycleId |-> c, state |-> s]

NoRun == Lease(0, NoCycle, "PASSIVE")

(* isExecuting: the account is in the table, whatever the state it is in.  *)
IsExecuting(t, a) == t[a].state # "PASSIVE"

(* acquireOwnership, once both of its gates have let the caller through.   *)
Granted(t, a, r) == [t EXCEPT ![a] = Lease(r, NoCycle, "EXECUTING")]

(* setActiveCycle finds the lease by its run id, not by its account, and   *)
(* leaves the table alone when no lease has that id.                       *)
CycleSet(t, r, c) ==
    [a \in DOMAIN t |-> IF IsExecuting(t, a) /\ t[a].runId = r
                          THEN [t[a] EXCEPT !.cycleId = c] ELSE t[a]]

(* clearActiveCycle: seals the transactional boundary of a run.            *)
CycleCleared(t, r) == CycleSet(t, r, NoCycle)

(* validateActiveCycle: a null cycle is never valid.                       *)
ValidCycle(t, c) ==
    /\ c # NoCycle
    /\ \E a \in DOMAIN t : IsExecuting(t, a) /\ t[a].cycleId = c

(* markProcessing, markUncertain: no effect on an account without a lease. *)
Marked(t, a, s) ==
    IF IsExecuting(t, a) THEN [t EXCEPT ![a].state = s] ELSE t

(* releaseOwnership: the entry is deleted whoever holds it.                *)
Released(t, a) == [t EXCEPT ![a] = NoRun]
=============================================================================
