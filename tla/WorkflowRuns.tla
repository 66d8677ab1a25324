----------------------------- MODULE WorkflowRuns -----------------------------
(***************************************************************************)
(* From a trigger to the runs it starts: TriggerRouter takes the master's  *)
(* lease, the Workflow handler of EventBusRegistrar picks the browsers,    *)
(* and WorkflowEngine starts one AutomationRun (or CashoutTransaction) on  *)
(* each, which ends in releaseOwnership or markUncertain.  BrowserState-   *)
(* Registry holds the states the routing reads; browsers die, are reloaded  *)
(* and are healed meanwhile (HealthMonitor, RecoveryManager, and the       *)
(* recovery commands of the synchronization layer).                        *)
(*                                                                         *)
(* A run is reduced to its last cycle: preparing, armed, submitted, over.  *)
(* Browsers are numbered as ClusterOrchestrator.start spawns them: 0 is    *)
(* the master, i the (i-1)th slave; browser i logs in with configured      *)
(* account i modulo their number, so several may share one account.        *)
(***************************************************************************)
EXTENDS RunLeases, FiniteSets

CONSTANTS
    Slaves,        \* number of slave browsers
    Accounts,      \* number of configured accounts
    Modes,         \* the execution modes triggers ask for
    Switched,      \* bound: browsers whose authorization the control plane sets
    MaxTriggers,   \* bound: triggers that get the master's lease
    MaxFaults      \* bound: faults, restarts and reloads of browsers

ASSUME SizesAssumption  == Slaves \in Nat /\ Accounts \in Nat \ {0}
ASSUME BoundsAssumption ==
    MaxTriggers \in Nat /\ MaxFaults \in Nat /\ Switched \subseteq 0..Slaves
ASSUME ModesAssumption  ==
    Modes \subseteq {"UNIQUE_ACCOUNTS_ONLY", "SLAVES_ONLY", "MASTER_ONLY", "ALL"}

Master   == 0
Browsers == 0..Slaves
User(b)  == b % Accounts

VARIABLES
    permissions,  \* browsers authorized to begin a transaction
    runs,         \* RunOrchestrator.activeRuns
    reg,          \* BrowserStateRegistry: state, "Gone" when not registered
    health,       \* "good", "dead" (unnoticed), "healing", "abandoned"
    jobs,         \* the runs WorkflowEngine has under way
    triggers,     \* triggers so far
    faults

vars == <<permissions, runs, reg, health, jobs, triggers, faults>>

(* randomUUID: distinct for distinct triggers and browsers.                *)
RunId(b, n) == n * (Slaves + 1) + b
RunIds == {RunId(b, n) : b \in Browsers, n \in 1..MaxTriggers}
CycleIds == RunIds \X (1..MaxTriggers)

Jobs ==
    [browser : Browsers, trigger : 1..MaxTriggers, runId : RunIds, alive : BOOLEAN,
     at : {"working", "armed", "submitted", "over", "unknown"}]

Cycle(j) == <<j.runId, j.trigger>>

TypeOK ==
    /\ permissions \subseteq Browsers
    /\ runs \in [Browsers -> [runId : RunIds \cup {0}, state : LeaseStates,
                              cycleId : CycleIds \cup {NoCycle}]]
    /\ reg \in [Browsers -> {"Ready", "Busy", "Error", "Recovering", "Initializing", "Gone"}]
    /\ health \in [Browsers -> {"good", "dead", "healing", "abandoned"}]
    /\ jobs \subseteq Jobs
    /\ triggers \in 0..MaxTriggers
    /\ faults \in 0..MaxFaults

(* The cluster is up.  AutomationController.start enables as many browsers *)
(* as there are accounts, so the ones that share an account start denied.  *)
Init ==
    /\ permissions = {b \in Browsers : b < Accounts}
    /\ runs = [b \in Browsers |-> NoRun]
    /\ reg = [b \in Browsers |-> "Ready"]
    /\ health = [b \in Browsers |-> "good"]
    /\ jobs = {}
    /\ triggers = 0
    /\ faults = 0

-----------------------------------------------------------------------------
(* The Workflow handler.                                                   *)

PresentMaster == {Master} \cap {b \in Browsers : reg[b] # "Gone"}
ReadySlaves   == {b \in Browsers \ {Master} : reg[b] = "Ready"}

(* Mutant of UserBusy: the busy accounts are not asked for.                *)
UserNeverBusy(u) == FALSE

UserBusy(u) == \E b \in Browsers : User(b) = u /\ reg[b] = "Busy"

(* One candidate for each account of which no browser is Busy: the master  *)
(* for its own, else the first in the order of the registry, which heals   *)
(* permute.                                                                *)
OnePerAccount(candidates) ==
    LET open == {b \in candidates : ~UserBusy(User(b))}
    IN  {T \in SUBSET open :
           /\ \A b \in open : Cardinality({c \in T : User(c) = User(b)}) = 1
           /\ open \cap {Master} \subseteq T}

(* The sets of browsers the handler may choose (several for the unknown    *)
(* order of the registry).  The AccountLockManager filter is left out:     *)
(* nothing in src/ that runs ever takes one of its locks.                  *)
Targets(mode) ==
    CASE mode = "UNIQUE_ACCOUNTS_ONLY" -> OnePerAccount(PresentMaster \cup ReadySlaves)
      [] mode = "SLAVES_ONLY"          -> {ReadySlaves}
      [] mode = "MASTER_ONLY"          -> {PresentMaster}
      [] mode = "ALL"                  -> {PresentMaster \cup ReadySlaves}

(* The engine works on a target under the lease it finds, in whatever      *)
(* state; without one it acquires one, and skips a target that is denied.  *)
Startable(table, T) == {b \in T : IsExecuting(table, b) \/ b \in permissions}

Leased(table, S, n) ==
    [b \in Browsers |-> IF b \in S /\ ~IsExecuting(table, b)
                          THEN Lease(RunId(b, n), NoCycle, "EXECUTING") ELSE table[b]]

(* Mutant of Trigger: without the single-flight gate of acquireOwnership.  *)
TriggerUngated(mode) ==
    /\ triggers < MaxTriggers
    /\ Master \in permissions
    /\ LET n == triggers + 1
           table == Granted(runs, Master, RunId(Master, n))
       IN  \E T \in Targets(mode) :
             LET S == Startable(table, T)
             IN  /\ runs' = Leased(table, S, n)
                 /\ reg' = [b \in Browsers |-> IF b \in S THEN "Busy" ELSE reg[b]]
                 /\ jobs' = jobs \cup
                      {[browser |-> b, trigger |-> n, runId |-> Leased(table, S, n)[b].runId,
                        alive |-> health[b] # "dead", at |-> "working"] : b \in S}
    /\ triggers' = triggers + 1
    /\ UNCHANGED <<permissions, health, faults>>

(* A trigger from the operator's click, a hotkey or the control plane: the *)
(* lease of the master, the routing and the start of the runs happen       *)
(* without yielding.  A trigger without that lease is dropped.             *)
Trigger(mode) ==
    /\ triggers < MaxTriggers
    /\ Master \in permissions
    /\ ~IsExecuting(runs, Master)
    /\ LET n == triggers + 1
           table == Granted(runs, Master, RunId(Master, n))
       IN  \E T \in Targets(mode) :
             LET S == Startable(table, T)
             IN  /\ runs' = Leased(table, S, n)
                 /\ reg' = [b \in Browsers |-> IF b \in S THEN "Busy" ELSE reg[b]]
                 /\ jobs' = jobs \cup
                      {[browser |-> b, trigger |-> n, runId |-> Leased(table, S, n)[b].runId,
                        alive |-> health[b] # "dead", at |-> "working"] : b \in S}
    /\ triggers' = triggers + 1
    /\ UNCHANGED <<permissions, health, faults>>

(* SET_BETTING_AUTHORIZATION from the control plane.                       *)
SetAuthorization(b) ==
    /\ b \in Switched
    /\ \E p \in {permissions \cup {b}, permissions \ {b}} : permissions' = p
    /\ UNCHANGED <<runs, reg, health, jobs, triggers, faults>>

-----------------------------------------------------------------------------
(* One run.                                                                *)

Move(j, step) == jobs' = (jobs \ {j}) \cup {[j EXCEPT !.at = step]}

(* setActiveCycle: no effect once the lease of this run is gone.           *)
Arm(j) ==
    /\ j.at = "working" /\ j.alive
    /\ Move(j, "armed")
    /\ runs' = CycleSet(runs, j.runId, Cycle(j))
    /\ UNCHANGED <<permissions, reg, health, triggers, faults>>

(* The click, let through by the transactional guard of ActionSimulator.   *)
Submit(j) ==
    /\ j.at = "armed" /\ j.alive
    /\ ValidCycle(runs, Cycle(j))
    /\ Move(j, "submitted")
    /\ UNCHANGED <<permissions, runs, reg, health, triggers, faults>>

(* The cycle ends, and its finally block seals the lease: with a result, a *)
(* refusal or a fault before the click ("over"), or, once it is armed, not *)
(* knowing the outcome ("unknown").  On a dead browser every call throws.  *)
EndCycle(j) ==
    /\ \/ j.at = "working" /\ Move(j, "over")
       \/ j.at \in {"armed", "submitted"} /\ j.alive /\ Move(j, "over")
       \/ j.at \in {"armed", "submitted"} /\ Move(j, "unknown")
    /\ runs' = CycleCleared(runs, j.runId)
    /\ UNCHANGED <<permissions, reg, health, triggers, faults>>

(* Mutant of Finish: a state the registry does not have.                  *)
FinishIdle(j) ==
    /\ j.at \in {"over", "unknown"}
    /\ runs' = IF j.at = "over" THEN Released(runs, j.browser)
                                ELSE Marked(runs, j.browser, "UNCERTAIN")
    /\ reg' = [reg EXCEPT ![j.browser] = "Idle"]
    /\ jobs' = jobs \ {j}
    /\ UNCHANGED <<permissions, health, triggers, faults>>

(* Mutant of Finish: only an unknown outcome is handled.                  *)
FinishKeepsLease(j) ==
    /\ j.at \in {"over", "unknown"}
    /\ runs' = IF j.at = "over" THEN runs ELSE Marked(runs, j.browser, "UNCERTAIN")
    /\ reg' = [reg EXCEPT ![j.browser] = IF @ = "Busy" THEN "Ready" ELSE @]
    /\ jobs' = jobs \ {j}
    /\ UNCHANGED <<permissions, health, triggers, faults>>

(* Mutant of Finish: an unknown outcome leaves the browser Busy.          *)
FinishStaysBusy(j) ==
    /\ j.at \in {"over", "unknown"}
    /\ runs' = IF j.at = "over" THEN Released(runs, j.browser)
                                ELSE Marked(runs, j.browser, "UNCERTAIN")
    /\ reg' = IF j.at = "over" THEN [reg EXCEPT ![j.browser] = IF @ = "Busy" THEN "Ready" ELSE @]
                              ELSE reg
    /\ jobs' = jobs \ {j}
    /\ UNCHANGED <<permissions, health, triggers, faults>>

(* WorkflowEngine after the run: COMPLETED and ABORTED release the lease   *)
(* under the browser's id, UNCERTAIN keeps it; Busy goes back to Ready.    *)
Finish(j) ==
    /\ j.at \in {"over", "unknown"}
    /\ runs' = IF j.at = "over" THEN Released(runs, j.browser)
                                ELSE Marked(runs, j.browser, "UNCERTAIN")
    /\ reg' = [reg EXCEPT ![j.browser] = IF @ = "Busy" THEN "Ready" ELSE @]
    /\ jobs' = jobs \ {j}
    /\ UNCHANGED <<permissions, health, triggers, faults>>

-----------------------------------------------------------------------------
(* Browsers fail, are reloaded and are healed.                             *)

Detached(b) == {IF j.browser = b THEN [j EXCEPT !.alive = FALSE] ELSE j : j \in jobs}

(* The listeners of BrowserLifecycleManager see the browser or its page go *)
(* (Error, which BrowserStateModel does not let a Ready browser become: it *)
(* goes on being chosen), or only its heartbeat falls silent.              *)
Failed(state) == IF state = "Ready" THEN "Ready" ELSE "Error"

Die(b) ==
    /\ health[b] = "good" /\ faults < MaxFaults
    /\ faults' = faults + 1
    /\ health' = [health EXCEPT ![b] = "dead"]
    /\ \E s \in {reg[b], Failed(reg[b])} : reg' = [reg EXCEPT ![b] = s]
    /\ jobs' = Detached(b)
    /\ UNCHANGED <<permissions, runs, triggers>>

(* HealthMonitor.checkBrowserHealth.                                       *)
Notice(b) ==
    /\ health[b] = "dead"
    /\ health' = [health EXCEPT ![b] = "healing"]
    /\ reg' = [reg EXCEPT ![b] = "Recovering"]
    /\ UNCHANGED <<permissions, runs, jobs, triggers, faults>>

(* BROWSER_RESTART, the last escalation of the synchronization's recovery: *)
(* a browser that lives is healed, Busy or not.                            *)
Restart(b) ==
    /\ health[b] = "good" /\ faults < MaxFaults
    /\ faults' = faults + 1
    /\ health' = [health EXCEPT ![b] = "healing"]
    /\ UNCHANGED <<permissions, runs, reg, jobs, triggers>>

(* PAGE_RELOAD, the escalation before: the browser is Ready when it is     *)
(* done, whoever is using it.                                              *)
Reload(b) ==
    /\ health[b] = "good" /\ faults < MaxFaults
    /\ faults' = faults + 1
    /\ reg' = [reg EXCEPT ![b] = "Ready"]
    /\ UNCHANGED <<permissions, runs, health, jobs, triggers>>

(* RecoveryManager.heal closes the browser, or what a failed attempt has   *)
(* left of it, and takes it off the registry ...                           *)
Unregister(b) ==
    /\ health[b] = "healing" /\ reg[b] # "Gone"
    /\ reg' = [reg EXCEPT ![b] = "Gone"]
    /\ jobs' = Detached(b)
    /\ UNCHANGED <<permissions, runs, health, triggers, faults>>

(* ... spawns another under the same id, which is on the registry before   *)
(* it is logged in ...                                                     *)
Register(b) ==
    /\ health[b] = "healing" /\ reg[b] = "Gone"
    /\ reg' = [reg EXCEPT ![b] = "Initializing"]
    /\ UNCHANGED <<permissions, runs, health, jobs, triggers, faults>>

(* ... logs it in and makes it Ready, or gives up.                         *)
HealEnds(b) ==
    /\ health[b] = "healing"
    /\ \/ /\ reg[b] \in {"Initializing", "Busy", "Ready"}
          /\ health' = [health EXCEPT ![b] = "good"]
          /\ reg' = [reg EXCEPT ![b] = "Ready"]
       \/ /\ reg[b] = "Gone"
          /\ health' = [health EXCEPT ![b] = "abandoned"]
          /\ UNCHANGED reg
    /\ UNCHANGED <<permissions, runs, jobs, triggers, faults>>

Step(j) == Arm(j) \/ Submit(j) \/ EndCycle(j) \/ Finish(j)

Next ==
    \/ \E mode \in Modes : Trigger(mode)
    \/ \E j \in jobs : Step(j)
    \/ \E b \in Browsers :
         \/ SetAuthorization(b) \/ Die(b) \/ Notice(b) \/ Restart(b) \/ Reload(b)
         \/ Unregister(b) \/ Register(b) \/ HealEnds(b)

(* Every await of a run has a deadline, so a run that has begun goes on.   *)
Fairness == \A b \in Browsers : WF_vars(\E j \in jobs : j.browser = b /\ Step(j))

Spec == Init /\ [][Next]_vars /\ Fairness

-----------------------------------------------------------------------------
(* The routing keeps one run per account: as long as no browser was lost,  *)
(* restarted or reloaded, UNIQUE_ACCOUNTS_ONLY never has two runs on       *)
(* browsers that are logged in to one account, although the leases are per *)
(* browser and a slow slave outlives the trigger that started it.          *)
AccountSingleFlight ==
    faults = 0 => \A j, k \in jobs : User(j.browser) = User(k.browser) => j = k

(* No lease is forgotten: behind an EXECUTING lease there is a run that    *)
(* will end it.  For a slave this survives faults and heals; the master's, *)
(* taken before the routing, is forgotten by a trigger that comes while    *)
(* the master is off the registry.                                         *)
LeasesAreBacked ==
    \A b \in Browsers :
        runs[b].state = "EXECUTING" /\ (b # Master \/ faults = 0) =>
            \E j \in jobs : j.browser = b

(* A master whose bet has an unknown outcome freezes the whole cluster: no *)
(* run ends that freeze and no trigger starts a run anywhere, whichever    *)
(* browsers die, are healed or finish meanwhile.                           *)
MasterFreezeHolds ==
    [][runs[Master].state = "UNCERTAIN" =>
         /\ runs'[Master].state = "UNCERTAIN"
         /\ {j.trigger : j \in jobs'} \subseteq {j.trigger : j \in jobs}]_vars

(* A browser taken out of the rotation as Busy is put back, and this does  *)
(* not depend on the outcome of its run or on a heal of that browser.      *)
BusyEnds == \A b \in Browsers : reg[b] = "Busy" ~> reg[b] # "Busy"

(* What WorkflowEngine and RunOrchestrator say of an UNCERTAIN run: "Do    *)
(* NOT release ownership. The account must remain locked." -- so nothing   *)
(* runs on a browser whose lease is UNCERTAIN.                             *)
FrozenIsLocked ==
    \A j \in jobs : runs[j.browser].state # "UNCERTAIN"
=============================================================================
