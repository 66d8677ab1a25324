--------------------------- MODULE RunOrchestrator ---------------------------
(***************************************************************************)
(* RunOrchestrator, BettingAuthorizationRegistry and RunLedger across      *)
(* crashes of the execution process.                                       *)
(*                                                                         *)
(* `runs` is the lease table (RunLeases), `permissions` the authorization  *)
(* map and `ledger` the write-ahead log.  getUnresolvedRuns keeps the last *)
(* legible line of every run, so the log is a function from run ids to     *)
(* that line.  markProcessing, which would write its first one, has no     *)
(* caller in src/ and no action here.                                      *)
(*                                                                         *)
(* The holder of a lease is followed from the start of a run to its end    *)
(* through its calls (BetCycle, AutomationRun and WorkflowEngine, whose    *)
(* detail BetRun and WorkflowRuns give): `pc` is where it is.  A run of a  *)
(* triggered account (the master) begins with TriggerRouter's own call of  *)
(* acquireOwnership; on the others WorkflowEngine goes on under the lease  *)
(* it finds, and acquires one only if there is none.                       *)
(*                                                                         *)
(* `inFlight` has the submissions of an account of which no run has        *)
(* reported an outcome: the bookmaker may have accepted them, and a crash  *)
(* does not undo that.  Whether a reported outcome is the right one is a   *)
(* matter of BetRun and CashoutRun.                                        *)
(***************************************************************************)
EXTENDS RunLeases

CONSTANTS
    Accounts,     \* the keys callers acquire leases for
    Triggered,    \* those of them whose runs begin at TriggerRouter
    MaxRuns,      \* bound: runs that may be started
    MaxCycles,    \* bound: cycles of a run (1 + MaxRebetAttempts)
    MaxCrashes    \* bound: crashes of the process

ASSUME BoundsAssumption == MaxRuns \in Nat /\ MaxCycles \in Nat \ {0} /\ MaxCrashes \in Nat
ASSUME TriggeredAssumption == Triggered \subseteq Accounts

VARIABLES
    phase,        \* the process: "down", "starting" (ingress open) or "running"
    hydrated,     \* hydrateFromWal, started by the constructor, has finished
    permissions,  \* BettingAuthorizationRegistry.permissions
    runs,         \* RunOrchestrator.activeRuns
    ledger,       \* run_ledger.jsonl: the last legible line of each run
    started,      \* runs started so far
    crashes,
    pc,           \* where the holder of an account's lease is
    cycle,        \* its current cycle: which start of a run, which cycle of it
    inFlight      \* submissions of the account nobody has reported an outcome of

process == <<phase, hydrated, permissions, crashes>>
holder  == <<pc, cycle>>
vars    == <<process, holder, ledger, runs, started, inFlight>>

RunIds   == 1..MaxRuns
CycleIds == RunIds \X (1..MaxCycles)

HolderStates ==
    {"idle", "leased", "armed", "submitted", "resolved", "lost", "sealed", "sealedLost"}

NoLine == [accountId |-> "none", cycleId |-> NoCycle, state |-> "NONE"]

Leases ==
    [runId : RunIds \cup {0}, cycleId : CycleIds \cup {NoCycle}, state : LeaseStates]

Lines ==
    [accountId : Accounts, cycleId : CycleIds \cup {NoCycle},
     state : {"PROCESSING", "SETTLEMENT"}] \cup {NoLine}

(* A submission: under which lease, in which cycle, in which life of the   *)
(* process.                                                                *)
Submissions == [runId : RunIds, cycleId : CycleIds, life : 0..MaxCrashes]

TypeOK ==
    /\ phase \in {"down", "starting", "running"}
    /\ hydrated \in BOOLEAN
    /\ permissions \in [Accounts -> {"unknown", "enabled", "disabled"}]
    /\ runs \in [Accounts -> Leases]
    /\ ledger \in [RunIds -> Lines]
    /\ started \in 0..MaxRuns
    /\ crashes \in 0..MaxCrashes
    /\ pc \in [Accounts -> HolderStates]
    /\ cycle \in [Accounts -> CycleIds \cup {NoCycle}]
    /\ inFlight \in [Accounts -> SUBSET Submissions]

-----------------------------------------------------------------------------
(* The run an account's holder works on: the one it was given.             *)
Run(a) == runs[a].runId

Line(a, s) == [accountId |-> a, cycleId |-> runs[a].cycleId, state |-> s]

(* RunLedger.append.                                                       *)
LedgerAppend(r, line) == ledger' = [ledger EXCEPT ![r] = line]

(* RunLedger.getUnresolvedRuns, for one account.                           *)
Unresolved(a) ==
    {r \in RunIds : ledger[r].state = "PROCESSING" /\ ledger[r].accountId = a}

Init ==
    /\ phase = "down" /\ hydrated = FALSE
    /\ started = 0 /\ crashes = 0
    /\ permissions = [a \in Accounts |-> "unknown"]
    /\ runs = [a \in Accounts |-> NoRun]
    /\ ledger = [r \in RunIds |-> NoLine]
    /\ pc = [a \in Accounts |-> "idle"]
    /\ cycle = [a \in Accounts |-> NoCycle]
    /\ inFlight = [a \in Accounts |-> {}]

-----------------------------------------------------------------------------
(* The process.                                                            *)

(* The controller is constructed (an empty lease table; hydration is       *)
(* begun and not awaited), the ingress is opened and AutomationController  *)
(* .start enables every provisioned browser before it launches any.        *)
Boot ==
    /\ phase = "down"
    /\ phase' = "starting"
    /\ permissions' = [a \in Accounts |-> "enabled"]
    /\ UNCHANGED <<hydrated, crashes, holder, ledger, runs, started, inFlight>>

(* hydrateFromWal: an unresolved run becomes the account's UNCERTAIN lease *)
(* over whatever lease is there; of several, the last in the file wins.    *)
Hydrate ==
    /\ phase # "down" /\ ~hydrated
    /\ hydrated' = TRUE
    /\ \E found \in [Accounts -> RunIds \cup {0}] :
         /\ \A a \in Accounts : IF Unresolved(a) = {} THEN found[a] = 0
                                                      ELSE found[a] \in Unresolved(a)
         /\ runs' = [a \in Accounts |->
                       IF found[a] = 0 THEN runs[a]
                       ELSE Lease(found[a], ledger[found[a]].cycleId, "UNCERTAIN")]
    /\ UNCHANGED <<phase, permissions, crashes, holder, ledger, started, inFlight>>

(* The first browser is ready.  Nothing makes it wait for the hydration.   *)
Launch ==
    /\ phase = "starting"
    /\ phase' = "running"
    /\ UNCHANGED <<hydrated, permissions, crashes, holder, ledger, runs, started, inFlight>>

(* The process dies.  Everything but the log and what the bookmaker was    *)
(* sent is lost.                                                           *)
Crash ==
    /\ phase # "down" /\ crashes < MaxCrashes
    /\ crashes' = crashes + 1
    /\ phase' = "down" /\ hydrated' = FALSE
    /\ permissions' = [a \in Accounts |-> "unknown"]
    /\ runs' = [a \in Accounts |-> NoRun]
    /\ pc' = [a \in Accounts |-> "idle"]
    /\ cycle' = [a \in Accounts |-> NoCycle]
    /\ UNCHANGED <<ledger, started, inFlight>>

(* SET_BETTING_AUTHORIZATION from the control plane.                       *)
SetAuthorization(a) ==
    /\ phase # "down"
    /\ \E p \in {"enabled", "disabled"} : permissions' = [permissions EXCEPT ![a] = p]
    /\ UNCHANGED <<phase, hydrated, crashes, holder, ledger, runs, started, inFlight>>

-----------------------------------------------------------------------------
(* A run begins.  Each has a number, which is its lease's run id if it     *)
(* acquires one, and its cycles count from 1.                              *)

Begins(a) ==
    /\ pc' = [pc EXCEPT ![a] = "leased"]
    /\ cycle' = [cycle EXCEPT ![a] = <<started + 1, 1>>]

(* Mutant of Acquire: without the single-flight gate.                      *)
AcquireAnyway(a) ==
    /\ phase # "down" /\ started < MaxRuns
    /\ permissions[a] = "enabled"
    /\ started' = started + 1
    /\ runs' = Granted(runs, a, started + 1)
    /\ \/ phase = "running" /\ Begins(a)
       \/ a \in Triggered /\ UNCHANGED holder
    /\ UNCHANGED <<process, ledger, inFlight>>

(* acquireOwnership: the authorization gate, the single-flight gate, then  *)
(* a new lease, and the run it is for.  TriggerRouter acquires before the  *)
(* Workflow handler looks for targets: while no browser is up, or the      *)
(* browser is off the registry, the lease stays with nobody to give it up. *)
Acquire(a) ==
    /\ phase # "down" /\ started < MaxRuns
    /\ permissions[a] = "enabled"
    /\ ~IsExecuting(runs, a)
    /\ started' = started + 1
    /\ runs' = Granted(runs, a, started + 1)
    /\ \/ phase = "running" /\ Begins(a)
       \/ a \in Triggered /\ UNCHANGED holder
    /\ UNCHANGED <<process, ledger, inFlight>>

(* WorkflowEngine.execute on a target no trigger acquired a lease for: it  *)
(* finds one, and uses it without a gate, in whatever state it is.  (The   *)
(* routing takes a Ready browser, so no run is under way on it.)           *)
Reuse(a) ==
    /\ phase = "running" /\ started < MaxRuns
    /\ a \notin Triggered
    /\ IsExecuting(runs, a) /\ pc[a] = "idle"
    /\ started' = started + 1
    /\ Begins(a)
    /\ UNCHANGED <<process, ledger, runs, inFlight>>

-----------------------------------------------------------------------------
(* The holder of a lease.                                                  *)

(* A BetCycle prepares the slip and calls setActiveCycle.                  *)
Arm(a) ==
    /\ pc[a] = "leased"
    /\ pc' = [pc EXCEPT ![a] = "armed"]
    /\ runs' = CycleSet(runs, Run(a), cycle[a])
    /\ UNCHANGED <<process, cycle, ledger, started, inFlight>>

(* A BetCycle fails before setActiveCycle, or the simulator aborts before  *)
(* the click; either way the cycle is over and nothing was submitted.      *)
Abort(a) ==
    /\ pc[a] \in {"leased", "armed"}
    /\ pc' = [pc EXCEPT ![a] = "resolved"]
    /\ UNCHANGED <<process, cycle, ledger, runs, started, inFlight>>

Submission(a) == [runId |-> Run(a), cycleId |-> cycle[a], life |-> crashes]

(* The click that cannot be taken back.  The simulator's transactional     *)
(* guard refuses a command whose cycle is not active.                      *)
Submit(a) ==
    /\ pc[a] = "armed"
    /\ ValidCycle(runs, cycle[a])
    /\ pc' = [pc EXCEPT ![a] = "submitted"]
    /\ inFlight' = [inFlight EXCEPT ![a] = @ \cup {Submission(a)}]
    /\ UNCHANGED <<process, cycle, ledger, runs, started>>

(* The cycle reports an outcome ...                                        *)
Observe(a) ==
    /\ pc[a] = "submitted"
    /\ pc' = [pc EXCEPT ![a] = "resolved"]
    /\ inFlight' = [inFlight EXCEPT ![a] = @ \ {Submission(a)}]
    /\ UNCHANGED <<process, cycle, ledger, runs, started>>

(* ... or, once it is armed, that a timeout or a fault hides it.           *)
LoseTrack(a) ==
    /\ pc[a] \in {"armed", "submitted"}
    /\ pc' = [pc EXCEPT ![a] = "lost"]
    /\ UNCHANGED <<process, cycle, ledger, runs, started, inFlight>>

(* The finally block of BetCycle.execute calls clearActiveCycle.           *)
Seal(a) ==
    /\ pc[a] \in {"resolved", "lost"}
    /\ pc' = [pc EXCEPT ![a] = IF @ = "resolved" THEN "sealed" ELSE "sealedLost"]
    /\ runs' = CycleCleared(runs, Run(a))
    /\ UNCHANGED <<process, cycle, ledger, started, inFlight>>

CycleAfter(c) == <<c[1], c[2] + 1>>

(* Mutant of NextCycle: off by one.                                        *)
NextCycleTooMany(a) ==
    /\ pc[a] = "sealed" /\ cycle[a][2] <= MaxCycles
    /\ pc' = [pc EXCEPT ![a] = "leased"]
    /\ cycle' = [cycle EXCEPT ![a] = CycleAfter(@)]
    /\ UNCHANGED <<process, ledger, runs, started, inFlight>>

(* AutomationRun spawns another cycle under the same lease.                *)
NextCycle(a) ==
    /\ pc[a] = "sealed" /\ cycle[a][2] < MaxCycles
    /\ pc' = [pc EXCEPT ![a] = "leased"]
    /\ cycle' = [cycle EXCEPT ![a] = CycleAfter(@)]
    /\ UNCHANGED <<process, ledger, runs, started, inFlight>>

RunOver(a) ==
    /\ pc' = [pc EXCEPT ![a] = "idle"]
    /\ cycle' = [cycle EXCEPT ![a] = NoCycle]

(* releaseOwnership: a settled run is logged as such, and the entry goes,  *)
(* a frozen one that was reused like any other.                            *)
Release(a) ==
    /\ pc[a] = "sealed"
    /\ IF runs[a].state = "PROCESSING" THEN LedgerAppend(Run(a), Line(a, "SETTLEMENT"))
                                       ELSE UNCHANGED ledger
    /\ runs' = Released(runs, a)
    /\ RunOver(a)
    /\ UNCHANGED <<process, started, inFlight>>

(* Mutant of MarkUncertain: the lease is given back.                       *)
MarkUncertainReleases(a) ==
    /\ pc[a] = "sealedLost"
    /\ runs' = Released(runs, a)
    /\ RunOver(a)
    /\ UNCHANGED <<process, ledger, started, inFlight>>

(* Mutant of MarkUncertain: the outcome is reported, the lease untouched.  *)
MarkUncertainForgets(a) ==
    /\ pc[a] = "sealedLost"
    /\ RunOver(a)
    /\ UNCHANGED <<process, ledger, runs, started, inFlight>>

(* markUncertain: the lease stays, and with it the account is frozen.      *)
MarkUncertain(a) ==
    /\ pc[a] = "sealedLost"
    /\ runs' = Marked(runs, a, "UNCERTAIN")
    /\ RunOver(a)
    /\ UNCHANGED <<process, ledger, started, inFlight>>

Work(a) ==
    \/ Arm(a) \/ Abort(a) \/ Submit(a) \/ Observe(a) \/ LoseTrack(a)
    \/ Seal(a) \/ NextCycle(a) \/ Release(a) \/ MarkUncertain(a)

Next ==
    \/ Boot \/ Hydrate \/ Launch \/ Crash
    \/ \E a \in Accounts : SetAuthorization(a) \/ Acquire(a) \/ Reuse(a) \/ Work(a)

(* Every wait of a holder has a deadline (locator timeouts, the result     *)
(* timeout, the simulator's catch-all), and hydration is a file read: what *)
(* was begun goes on.  Nobody has to acquire, authorize or crash.          *)
Fairness == WF_vars(Hydrate) /\ \A a \in Accounts : WF_vars(Work(a))

Spec == Init /\ [][Next]_vars /\ Fairness

-----------------------------------------------------------------------------
(* While the process lives, a run that has lost track of a submission is   *)
(* the last to submit: no other cycle of it does (on any account), and on  *)
(* a triggered account no later run either, for its lease is frozen and    *)
(* triggers acquire theirs.  A slave's later run may (FrozenIsLocked of    *)
(* WorkflowRuns), and so may anyone after a crash (RestartFreezes).        *)
OneUnreported ==
    \A a \in Accounts : \A s, t \in inFlight[a] :
        s.life = t.life /\ (a \in Triggered \/ s.cycleId[1] = t.cycleId[1]) => s = t

(* What hydrateFromWal says of a restart: "Any run that reached PROCESSING *)
(* without SETTLEMENT is restored as UNCERTAIN, freezing the account", so  *)
(* a submission of an earlier life without a reported outcome is what the  *)
(* account is frozen with.                                                 *)
RestartFreezes ==
    \A a \in Accounts :
        hydrated /\ pc[a] = "idle" /\ (\E s \in inFlight[a] : s.life < crashes) =>
            /\ runs[a].state = "UNCERTAIN"
            /\ \E s \in inFlight[a] : s.runId = runs[a].runId

(* What thaws a frozen account: the death of the process, or, if its runs  *)
(* do not begin at TriggerRouter, the end of a later run that worked under *)
(* the frozen lease and knows its own outcome.  Nothing else does: not the *)
(* control plane, not hydration, not an acquisition, not another account.  *)
ThawedByItsRunOnly ==
    [][\A a \in Accounts :
         runs[a].state = "UNCERTAIN" /\ runs'[a].state # "UNCERTAIN" /\ phase' # "down" =>
            /\ a \notin Triggered
            /\ pc[a] = "sealed" /\ cycle[a][1] > runs[a].runId]_vars

(* A run that has begun gives its lease back or freezes it, unless the     *)
(* process dies first.                                                     *)
LeasesEnd ==
    \A a \in Accounts :
        pc[a] = "leased" ~> (pc[a] = "idle" /\ runs[a].state \in {"PASSIVE", "UNCERTAIN"})
=============================================================================
