-------------------------- MODULE WorkflowRuns_proofs --------------------------
(***************************************************************************)
(* Theorems of WorkflowRuns, for any cluster and any number of triggers:   *)
(*   TypeCorrect   the types of the variables;                             *)
(*   Frozen        a master whose outcome is unknown freezes the cluster;  *)
(* and, for triggers that ask for UNIQUE_ACCOUNTS_ONLY or MASTER_ONLY:     *)
(*   Alone         the runs are on distinct accounts until the first fault;*)
(*   Backed        no lease is forgotten.                                  *)
(*                                                                         *)
(* What Frozen rests on is that a run on the master has the master's       *)
(* EXECUTING lease, whatever happens to the browsers; what the others rest *)
(* on is that, until the first fault, a browser is Busy exactly while it   *)
(* has a run, and that no run is on a slave that shares the master's       *)
(* account.                                                                *)
(***************************************************************************)
EXTENDS WorkflowRuns, FiniteSetTheorems, TLAPS

TypeInv ==
    /\ TypeOK
    /\ \A b \in Browsers : IsExecuting(runs, b) => runs[b].runId \in RunIds

(* A run on the master is the only one, and has its lease.                 *)
MasterInv ==
    /\ \A j, k \in jobs : j.browser = Master /\ k.browser = Master => j = k
    /\ \A j \in jobs : j.browser = Master => runs[Master].state = "EXECUTING"

-----------------------------------------------------------------------------
(* The lease table.                                                        *)
Runs == [Browsers -> [runId : RunIds \cup {0}, state : LeaseStates,
                      cycleId : CycleIds \cup {NoCycle}]]

LEMMA LeaseType ==
    ASSUME NEW r \in RunIds \cup {0}, NEW c \in CycleIds \cup {NoCycle},
           NEW s \in LeaseStates
    PROVE  Lease(r, c, s) \in [runId : RunIds \cup {0}, state : LeaseStates,
                               cycleId : CycleIds \cup {NoCycle}]
BY DEF Lease

LEMMA MasterIsABrowser == Master \in Browsers
BY SizesAssumption DEF Master, Browsers

(* setActiveCycle and clearActiveCycle change neither holder nor state.    *)
LEMMA CycleSetType ==
    ASSUME NEW t \in Runs, NEW r, NEW c \in CycleIds \cup {NoCycle}
    PROVE  /\ CycleSet(t, r, c) \in Runs
           /\ \A b \in Browsers : /\ CycleSet(t, r, c)[b].state = t[b].state
                                  /\ CycleSet(t, r, c)[b].runId = t[b].runId
<1> DEFINE f(a) == IF IsExecuting(t, a) /\ t[a].runId = r
                     THEN [t[a] EXCEPT !.cycleId = c] ELSE t[a]
<1>1. CycleSet(t, r, c) = [a \in Browsers |-> f(a)]
  BY DEF CycleSet, Runs
<1>2. ASSUME NEW a \in Browsers
      PROVE  /\ f(a) \in [runId : RunIds \cup {0}, state : LeaseStates,
                          cycleId : CycleIds \cup {NoCycle}]
             /\ f(a).state = t[a].state /\ f(a).runId = t[a].runId
  BY <1>2 DEF Runs
<1> HIDE DEF f
<1> QED
  BY <1>1, <1>2 DEF Runs

LEMMA MarkedType ==
    ASSUME NEW t \in Runs, NEW a \in Browsers
    PROVE  /\ Marked(t, a, "UNCERTAIN") \in Runs
           /\ \A b \in Browsers :
                /\ Marked(t, a, "UNCERTAIN")[b].runId = t[b].runId
                /\ b # a => Marked(t, a, "UNCERTAIN")[b] = t[b]
           /\ IsExecuting(t, a) => Marked(t, a, "UNCERTAIN")[a].state = "UNCERTAIN"
           /\ ~IsExecuting(t, a) => Marked(t, a, "UNCERTAIN") = t
BY DEF Marked, Runs, LeaseStates

LEMMA ReleasedType ==
    ASSUME NEW t \in Runs, NEW a \in Browsers
    PROVE  /\ Released(t, a) \in Runs
           /\ Released(t, a)[a].state = "PASSIVE"
           /\ \A b \in Browsers : b # a => Released(t, a)[b] = t[b]
<1>1. NoRun \in [runId : RunIds \cup {0}, state : LeaseStates,
                 cycleId : CycleIds \cup {NoCycle}] /\ NoRun.state = "PASSIVE"
  BY LeaseType DEF NoRun, Lease, LeaseStates
<1> QED
  BY <1>1 DEF Released, Runs

LEMMA GrantedType ==
    ASSUME NEW t \in Runs, NEW a \in Browsers, NEW r \in RunIds
    PROVE  /\ Granted(t, a, r) \in Runs
           /\ Granted(t, a, r)[a].state = "EXECUTING" /\ Granted(t, a, r)[a].runId = r
           /\ \A b \in Browsers : b # a => Granted(t, a, r)[b] = t[b]
<1> DEFINE lease == Lease(r, NoCycle, "EXECUTING")
<1>1. lease \in [runId : RunIds \cup {0}, state : LeaseStates,
                 cycleId : CycleIds \cup {NoCycle}]
      /\ lease.state = "EXECUTING" /\ lease.runId = r
  BY LeaseType DEF Lease, LeaseStates
<1>2. Granted(t, a, r) = [t EXCEPT ![a] = lease]
  BY DEF Granted
<1> HIDE DEF lease
<1> QED
  BY <1>1, <1>2 DEF Runs

LEMMA LeasedType ==
    ASSUME NEW t \in Runs, NEW S, NEW n \in 1..MaxTriggers
    PROVE  /\ Leased(t, S, n) \in Runs
           /\ \A b \in Browsers :
                IF b \in S /\ ~IsExecuting(t, b)
                  THEN Leased(t, S, n)[b].state = "EXECUTING"
                       /\ Leased(t, S, n)[b].runId \in RunIds
                  ELSE Leased(t, S, n)[b] = t[b]
<1> DEFINE lease(b) == Lease(RunId(b, n), NoCycle, "EXECUTING")
<1>1. ASSUME NEW b \in Browsers
      PROVE  /\ lease(b) \in [runId : RunIds \cup {0}, state : LeaseStates,
                              cycleId : CycleIds \cup {NoCycle}]
             /\ lease(b).state = "EXECUTING" /\ lease(b).runId \in RunIds
  <2>1. RunId(b, n) \in RunIds
    BY DEF RunIds
  <2> QED
    BY <2>1, LeaseType DEF Lease, LeaseStates
<1>2. Leased(t, S, n) =
        [b \in Browsers |-> IF b \in S /\ ~IsExecuting(t, b) THEN lease(b) ELSE t[b]]
  BY DEF Leased
<1> HIDE DEF lease
<1> QED
  BY <1>1, <1>2 DEF Runs

-----------------------------------------------------------------------------
(* What a trigger does, in terms of the browsers it starts a run on.       *)
NewJobs(S) ==
    {[browser |-> b, trigger |-> triggers + 1, runId |-> runs'[b].runId,
      alive |-> health[b] # "dead", at |-> "working"] : b \in S}

Starts(S, T) ==
    /\ S \subseteq T /\ T \subseteq Browsers
    /\ Master \in T => Master \in S
    /\ runs' \in Runs
    /\ runs'[Master].state = "EXECUTING"
    /\ \A b \in Browsers : IsExecuting(runs', b) => runs'[b].runId \in RunIds
    /\ \A b \in S : IsExecuting(runs', b)
    /\ \A b \in Browsers \ (S \cup {Master}) : runs'[b] = runs[b]
    /\ reg' = [b \in Browsers |-> IF b \in S THEN "Busy" ELSE reg[b]]
    /\ jobs' = jobs \cup NewJobs(S)
    /\ triggers' = triggers + 1 /\ triggers + 1 \in 1..MaxTriggers
    /\ UNCHANGED <<permissions, health, faults>>

LEMMA NewJobsOf ==
    ASSUME NEW S
    PROVE  /\ \A j \in NewJobs(S) : j.browser \in S
           /\ \A j, k \in NewJobs(S) : j.browser = k.browser => j = k
           /\ \A b \in S : \E j \in NewJobs(S) : j.browser = b
<1> DEFINE job(b) == [browser |-> b, trigger |-> triggers + 1, runId |-> runs'[b].runId,
                      alive |-> health[b] # "dead", at |-> "working"]
<1>1. NewJobs(S) = {job(b) : b \in S}
  BY DEF NewJobs
<1>2. \A b : job(b).browser = b
  OBVIOUS
<1> HIDE DEF job
<1> QED
  BY <1>1, <1>2

LEMMA TargetsType ==
    ASSUME NEW mode, NEW T \in Targets(mode), mode \in Modes
    PROVE  T \subseteq Browsers
<1>1. PresentMaster \subseteq Browsers /\ ReadySlaves \subseteq Browsers
  BY MasterIsABrowser DEF PresentMaster, ReadySlaves
<1>2. \A C : C \subseteq Browsers => \A U \in OnePerAccount(C) : U \subseteq Browsers
  BY DEF OnePerAccount
<1> QED
  BY <1>1, <1>2, ModesAssumption DEF Targets

LEMMA TriggerStarts ==
    ASSUME NEW mode \in Modes, TypeInv, Trigger(mode)
    PROVE  \E T \in Targets(mode) : \E S : Starts(S, T)
<1> DEFINE n == triggers + 1
           table == Granted(runs, Master, RunId(Master, n))
<1>1. n \in 1..MaxTriggers
  BY BoundsAssumption DEF Trigger, TypeInv, TypeOK
<1>2. runs \in Runs /\ Master \in Browsers /\ RunId(Master, n) \in RunIds
  BY <1>1, MasterIsABrowser DEF TypeInv, TypeOK, Runs, RunIds
<1>3. /\ table \in Runs
      /\ table[Master].state = "EXECUTING" /\ table[Master].runId \in RunIds
      /\ \A b \in Browsers : b # Master => table[b] = runs[b]
  BY <1>2, GrantedType
<1>4. PICK T \in Targets(mode) :
        LET S == Startable(table, T)
        IN  /\ runs' = Leased(table, S, n)
            /\ reg' = [b \in Browsers |-> IF b \in S THEN "Busy" ELSE reg[b]]
            /\ jobs' = jobs \cup
                 {[browser |-> b, trigger |-> n, runId |-> Leased(table, S, n)[b].runId,
                   alive |-> health[b] # "dead", at |-> "working"] : b \in S}
  BY Zenon DEF Trigger
<1> DEFINE S == Startable(table, T)
<1>5. T \subseteq Browsers
  BY TargetsType
<1>6. S \subseteq T /\ (Master \in T => Master \in S)
  BY <1>3 DEF Startable, IsExecuting
<1>7. triggers' = n /\ UNCHANGED <<permissions, health, faults>>
  BY DEF Trigger
<1>8. jobs' = jobs \cup NewJobs(S)
  BY <1>4 DEF NewJobs
<1>9. runs' = Leased(table, S, n)
  BY <1>4
<1>10. reg' = [b \in Browsers |-> IF b \in S THEN "Busy" ELSE reg[b]]
  BY <1>4
<1>11. /\ runs' \in Runs
       /\ \A b \in Browsers :
            IF b \in S /\ ~IsExecuting(table, b)
              THEN runs'[b].state = "EXECUTING" /\ runs'[b].runId \in RunIds
              ELSE runs'[b] = table[b]
  BY <1>1, <1>3, <1>9, LeasedType
<1> HIDE DEF table, S
<1>12. /\ runs'[Master].state = "EXECUTING"
       /\ \A b \in Browsers : IsExecuting(runs', b) => runs'[b].runId \in RunIds
       /\ \A b \in Browsers \ (S \cup {Master}) : runs'[b] = runs[b]
  BY <1>2, <1>3, <1>11 DEF IsExecuting, TypeInv
<1>13. \A b \in S : IsExecuting(runs', b)
  BY <1>5, <1>6, <1>11 DEF IsExecuting
<1>14. Starts(S, T)
  BY <1>1, <1>5, <1>6, <1>7, <1>8, <1>10, <1>11, <1>12, <1>13 DEF Starts
<1> QED
  BY <1>14

(* The other steps of a run move or remove its job, and may touch the      *)
(* lease of its browser.                                                   *)
Steps(j) ==
    /\ \/ \E step \in {"armed", "submitted", "over", "unknown"} :
            /\ jobs' = (jobs \ {j}) \cup {[j EXCEPT !.at = step]}
            /\ reg' = reg
            /\ runs' \in Runs
            /\ \A b \in Browsers : /\ runs'[b].state = runs[b].state
                                   /\ runs'[b].runId = runs[b].runId
       \/ /\ jobs' = jobs \ {j}
          /\ reg' = [reg EXCEPT ![j.browser] = IF @ = "Busy" THEN "Ready" ELSE @]
          /\ runs' \in Runs
          /\ runs'[j.browser].state # "EXECUTING"
          /\ runs'[j.browser].state = "PASSIVE" \/ runs'[j.browser].runId = runs[j.browser].runId
          /\ IsExecuting(runs', j.browser) => IsExecuting(runs, j.browser)
          /\ \A b \in Browsers : b # j.browser => runs'[b] = runs[b]
    /\ UNCHANGED <<permissions, health, triggers, faults>>

LEMMA StepSteps ==
    ASSUME TypeInv, NEW j \in jobs, Step(j)
    PROVE  Steps(j)
<1>t. runs \in Runs /\ j.browser \in Browsers /\ Cycle(j) \in CycleIds
  BY DEF TypeInv, TypeOK, Runs, Jobs, Cycle, CycleIds
<1>1. CASE Arm(j)
  <2>1. /\ CycleSet(runs, j.runId, Cycle(j)) \in Runs
        /\ \A b \in Browsers :
             /\ CycleSet(runs, j.runId, Cycle(j))[b].state = runs[b].state
             /\ CycleSet(runs, j.runId, Cycle(j))[b].runId = runs[b].runId
    BY <1>t, CycleSetType
  <2> QED
    BY <1>1, <2>1 DEF Arm, Steps, Move
<1>2. CASE Submit(j)
  BY <1>t, <1>2 DEF Submit, Steps, Move
<1>3. CASE EndCycle(j)
  <2>1. /\ CycleSet(runs, j.runId, NoCycle) \in Runs
        /\ \A b \in Browsers :
             /\ CycleSet(runs, j.runId, NoCycle)[b].state = runs[b].state
             /\ CycleSet(runs, j.runId, NoCycle)[b].runId = runs[b].runId
    BY <1>t, CycleSetType
  <2> QED
    BY <1>3, <2>1 DEF EndCycle, Steps, Move, CycleCleared
<1>4. CASE Finish(j)
  <2>1. /\ runs' \in Runs
        /\ \A b \in Browsers : b # j.browser => runs'[b] = runs[b]
        /\ \/ runs'[j.browser].state = "PASSIVE"
           \/ /\ runs'[j.browser].state = "UNCERTAIN"
              /\ runs'[j.browser].runId = runs[j.browser].runId
              /\ IsExecuting(runs, j.browser)
    BY <1>t, <1>4, ReleasedType, MarkedType DEF Finish, IsExecuting
  <2>2. /\ jobs' = jobs \ {j}
        /\ reg' = [reg EXCEPT ![j.browser] = IF @ = "Busy" THEN "Ready" ELSE @]
        /\ UNCHANGED <<permissions, health, triggers, faults>>
    BY <1>4 DEF Finish
  <2> QED
    BY <2>1, <2>2 DEF Steps, IsExecuting
<1> QED
  BY <1>1, <1>2, <1>3, <1>4 DEF Step

(* A browser fails, is reloaded or healed: no lease changes, no run begins *)
(* or ends, and without a fault nothing but the authorizations changes.    *)
Healthy == \A b \in Browsers : health[b] = "good" /\ reg[b] \in {"Ready", "Busy"}

Disturbs(b) ==
    /\ jobs' = jobs \/ jobs' = Detached(b)
    /\ faults' \in {faults, faults + 1} /\ faults' \in 0..MaxFaults
    /\ UNCHANGED <<runs, triggers>>
    /\ faults' = faults /\ Healthy => UNCHANGED <<reg, health, jobs>>

Disturb(b) ==
    \/ SetAuthorization(b) \/ Die(b) \/ Notice(b) \/ Restart(b) \/ Reload(b)
    \/ Unregister(b) \/ Register(b) \/ HealEnds(b)

LEMMA DisturbDisturbs ==
    ASSUME TypeInv, NEW b \in Browsers, Disturb(b)
    PROVE  Disturbs(b)
<1>t. faults \in 0..MaxFaults /\ MaxFaults \in Nat
  BY BoundsAssumption DEF TypeInv, TypeOK
<1> USE DEF Disturbs
<1>1. CASE SetAuthorization(b)
  BY <1>t, <1>1 DEF SetAuthorization
<1>2. CASE Die(b)
  BY <1>t, <1>2 DEF Die, Failed
<1>3. CASE Notice(b) \/ Unregister(b)
  BY <1>t, <1>3 DEF Notice, Unregister, Healthy
<1>4. CASE Restart(b) \/ Reload(b)
  BY <1>t, <1>4 DEF Restart, Reload
<1>5. CASE Register(b) \/ HealEnds(b)
  BY <1>t, <1>5 DEF Register, HealEnds, Healthy
<1> QED
  BY <1>1, <1>2, <1>3, <1>4, <1>5 DEF Disturb

LEMMA DetachedJobs ==
    ASSUME TypeInv, NEW b, jobs' = jobs \/ jobs' = Detached(b)
    PROVE  /\ jobs' \subseteq Jobs
           /\ \E f \in [jobs -> jobs'] :
                /\ \A j \in jobs : /\ f[j].browser = j.browser
                                   /\ f[j].trigger = j.trigger
                /\ \A k \in jobs' : \E j \in jobs : k = f[j]
<1>t. jobs \subseteq Jobs
  BY DEF TypeInv, TypeOK
<1>1. CASE jobs' = jobs
  <2> DEFINE f == [j \in jobs |-> j]
  <2>1. f \in [jobs -> jobs'] /\ \A j \in jobs : f[j] = j
    BY <1>1
  <2> QED
    BY <1>t, <1>1, <2>1
<1>2. CASE jobs' = Detached(b)
  <2> DEFINE d(j) == IF j.browser = b THEN [j EXCEPT !.alive = FALSE] ELSE j
             f == [j \in jobs |-> d(j)]
  <2>1. jobs' = {d(j) : j \in jobs}
    BY <1>2 DEF Detached
  <2>2. ASSUME NEW j \in jobs
        PROVE  d(j) \in Jobs /\ d(j).browser = j.browser /\ d(j).trigger = j.trigger
    BY <1>t DEF Jobs
  <2> HIDE DEF d
  <2>3. f \in [jobs -> jobs']
    BY <2>1
  <2> QED
    BY <2>1, <2>2, <2>3
<1> QED
  BY <1>1, <1>2

LEMMA NextCases ==
    ASSUME Next
    PROVE  \/ \E mode \in Modes : Trigger(mode)
           \/ \E j \in jobs : Step(j)
           \/ \E b \in Browsers : Disturb(b)
BY DEF Next, Disturb

-----------------------------------------------------------------------------
LEMMA TypeInit == Init => TypeInv
<1> SUFFICES ASSUME Init
             PROVE  TypeInv
    OBVIOUS
<1>1. NoRun.state = "PASSIVE" /\ NoRun.runId = 0 /\ NoRun \in
        [runId : RunIds \cup {0}, state : LeaseStates, cycleId : CycleIds \cup {NoCycle}]
  BY DEF NoRun, Lease, LeaseStates
<1>2. runs \in Runs /\ \A b \in Browsers : ~IsExecuting(runs, b)
  BY <1>1 DEF Init, Runs, IsExecuting
<1> QED
  BY <1>2, BoundsAssumption DEF Init, TypeInv, TypeOK, Runs

LEMMA TypeNext == TypeInv /\ [Next]_vars => TypeInv'
<1> SUFFICES ASSUME TypeInv, [Next]_vars
             PROVE  TypeInv'
    OBVIOUS
<1>t. /\ runs \in Runs /\ permissions \subseteq Browsers /\ jobs \subseteq Jobs
      /\ triggers \in 0..MaxTriggers /\ faults \in 0..MaxFaults
  BY DEF TypeInv, TypeOK, Runs
<1>1. ASSUME NEW mode \in Modes, Trigger(mode)
      PROVE  TypeInv'
  <2>1. PICK T \in Targets(mode) : \E S : Starts(S, T)
    BY <1>1, TriggerStarts
  <2>2. PICK S : Starts(S, T)
    BY <2>1
  <2>3. S \subseteq Browsers
    BY <2>2 DEF Starts
  <2>4. NewJobs(S) \subseteq Jobs
    <3> SUFFICES ASSUME NEW b \in S
                 PROVE  [browser |-> b, trigger |-> triggers + 1,
                         runId |-> runs'[b].runId, alive |-> health[b] # "dead",
                         at |-> "working"] \in Jobs
        BY DEF NewJobs
    <3>1. b \in Browsers /\ runs'[b].runId \in RunIds
      BY <2>2, <2>3 DEF Starts
    <3>2. triggers + 1 \in 1..MaxTriggers
      BY <2>2 DEF Starts
    <3> QED
      BY <3>1, <3>2 DEF Jobs
  <2>5. reg' \in [Browsers -> {"Ready", "Busy", "Error", "Recovering", "Initializing", "Gone"}]
    BY <2>2 DEF Starts, TypeInv, TypeOK
  <2>6. triggers' \in 0..MaxTriggers
    BY <2>2, BoundsAssumption DEF Starts
  <2> QED
    BY <2>2, <2>4, <2>5, <2>6 DEF TypeInv, TypeOK, Starts, Runs
<1>2. ASSUME NEW j \in jobs, Step(j)
      PROVE  TypeInv'
  <2>1. Steps(j)
    BY <1>2, StepSteps
  <2>2. jobs' \subseteq Jobs
    BY <1>t, <2>1 DEF Steps, Jobs
  <2>3. reg' \in [Browsers -> {"Ready", "Busy", "Error", "Recovering", "Initializing", "Gone"}]
    BY <2>1 DEF Steps, TypeInv, TypeOK
  <2>4. runs' \in Runs /\ \A b \in Browsers : IsExecuting(runs', b) => runs'[b].runId \in RunIds
    BY <2>1 DEF Steps, TypeInv, IsExecuting
  <2> QED
    BY <2>1, <2>2, <2>3, <2>4 DEF TypeInv, TypeOK, Steps, Runs
<1>3. ASSUME NEW b \in Browsers, Disturb(b)
      PROVE  TypeInv'
  <2>1. Disturbs(b)
    BY <1>3, DisturbDisturbs
  <2>2. jobs' \subseteq Jobs
    BY <2>1, DetachedJobs DEF Disturbs
  <2>3. /\ permissions' \subseteq Browsers
        /\ reg' \in [Browsers -> {"Ready", "Busy", "Error", "Recovering", "Initializing", "Gone"}]
        /\ health' \in [Browsers -> {"good", "dead", "healing", "abandoned"}]
    <3>1. CASE Die(b)
      <4>1. Failed(reg[b]) \in {"Ready", "Error"}
        BY DEF Failed
      <4> QED
        BY <3>1, <4>1 DEF TypeInv, TypeOK, Die
    <3>2. CASE ~Die(b)
      BY <1>3, <3>2 DEF TypeInv, TypeOK, Disturb, SetAuthorization, Notice, Restart,
                        Reload, Unregister, Register, HealEnds
    <3> QED
      BY <3>1, <3>2
  <2> QED
    BY <2>1, <2>2, <2>3 DEF TypeInv, TypeOK, Disturbs
<1>4. CASE UNCHANGED vars
  BY <1>4 DEF vars, TypeInv, TypeOK
<1> QED
  BY <1>1, <1>2, <1>3, <1>4, NextCases

-----------------------------------------------------------------------------
LEMMA MasterInit == Init => MasterInv
BY DEF Init, MasterInv

LEMMA MasterNext == TypeInv /\ MasterInv /\ [Next]_vars => MasterInv'
<1> SUFFICES ASSUME TypeInv, MasterInv, [Next]_vars
             PROVE  MasterInv'
    OBVIOUS
<1>t. Master \in Browsers
  BY MasterIsABrowser
<1>1. ASSUME NEW mode \in Modes, Trigger(mode)
      PROVE  MasterInv'
  <2>1. PICK T \in Targets(mode) : \E S : Starts(S, T)
    BY <1>1, TriggerStarts
  <2>2. PICK S : Starts(S, T)
    BY <2>1
  <2>3. \A j \in jobs : j.browser # Master
    BY <1>1 DEF Trigger, IsExecuting, MasterInv
  <2>4. \A j, k \in NewJobs(S) : j.browser = Master /\ k.browser = Master => j = k
    BY DEF NewJobs
  <2>5. runs'[Master].state = "EXECUTING" /\ jobs' = jobs \cup NewJobs(S)
    BY <2>2 DEF Starts
  <2> QED
    BY <2>3, <2>4, <2>5 DEF MasterInv
<1>2. ASSUME NEW j \in jobs, Step(j)
      PROVE  MasterInv'
  <2>1. Steps(j) /\ j \in Jobs
    BY <1>2, StepSteps DEF TypeInv, TypeOK
  <2>2. ASSUME NEW step, jobs' = (jobs \ {j}) \cup {[j EXCEPT !.at = step]},
               runs'[Master].state = runs[Master].state
        PROVE  MasterInv'
    <3>1. [j EXCEPT !.at = step].browser = j.browser
      BY <2>1 DEF Jobs
    <3> QED
      BY <2>2, <3>1 DEF MasterInv
  <2>3. ASSUME jobs' = jobs \ {j}, j.browser # Master => runs'[Master] = runs[Master]
        PROVE  MasterInv'
    BY <2>3 DEF MasterInv
  <2> QED
    BY <1>t, <2>1, <2>2, <2>3 DEF Steps
<1>3. ASSUME NEW b \in Browsers, Disturb(b)
      PROVE  MasterInv'
  <2>1. Disturbs(b)
    BY <1>3, DisturbDisturbs
  <2>2. PICK f \in [jobs -> jobs'] :
          /\ \A j \in jobs : f[j].browser = j.browser
          /\ \A k \in jobs' : \E j \in jobs : k = f[j]
    BY <2>1, DetachedJobs DEF Disturbs
  <2> QED
    BY <2>1, <2>2 DEF MasterInv, Disturbs
<1>4. CASE UNCHANGED vars
  BY <1>4 DEF vars, MasterInv
<1> QED
  BY <1>1, <1>2, <1>3, <1>4, NextCases

(* While the master is UNCERTAIN it has no run that could end that, and    *)
(* every trigger is dropped.                                               *)
Freeze ==
    runs[Master].state = "UNCERTAIN" =>
      /\ runs'[Master].state = "UNCERTAIN"
      /\ {j.trigger : j \in jobs'} \subseteq {j.trigger : j \in jobs}

LEMMA FreezeNext == TypeInv /\ MasterInv /\ [Next]_vars => [Freeze]_vars
<1> SUFFICES ASSUME TypeInv, MasterInv, [Next]_vars, runs[Master].state = "UNCERTAIN"
             PROVE  /\ runs'[Master].state = "UNCERTAIN"
                    /\ {j.trigger : j \in jobs'} \subseteq {j.trigger : j \in jobs}
    BY DEF Freeze
<1>t. Master \in Browsers
  BY MasterIsABrowser
<1>1. ASSUME NEW mode \in Modes, Trigger(mode)
      PROVE  FALSE
  BY <1>1 DEF Trigger, IsExecuting
<1>2. ASSUME NEW j \in jobs, Step(j)
      PROVE  /\ runs'[Master].state = "UNCERTAIN"
             /\ {k.trigger : k \in jobs'} \subseteq {k.trigger : k \in jobs}
  <2>1. Steps(j) /\ j \in Jobs /\ j.browser # Master
    BY <1>2, StepSteps DEF TypeInv, TypeOK, MasterInv
  <2>2. runs'[Master].state = "UNCERTAIN"
    BY <1>t, <2>1 DEF Steps
  <2>3. \A step : [j EXCEPT !.at = step].trigger = j.trigger
    BY <2>1 DEF Jobs
  <2>4. \A k \in jobs' : \E l \in jobs : k.trigger = l.trigger
    <3>1. ASSUME NEW step, jobs' = (jobs \ {j}) \cup {[j EXCEPT !.at = step]}
          PROVE  \A k \in jobs' : \E l \in jobs : k.trigger = l.trigger
      BY <2>3, <3>1
    <3>2. ASSUME jobs' = jobs \ {j}
          PROVE  \A k \in jobs' : \E l \in jobs : k.trigger = l.trigger
      BY <3>2
    <3> QED
      BY <2>1, <3>1, <3>2 DEF Steps
  <2> QED
    BY <2>2, <2>4
<1>3. ASSUME NEW b \in Browsers, Disturb(b)
      PROVE  /\ runs'[Master].state = "UNCERTAIN"
             /\ {k.trigger : k \in jobs'} \subseteq {k.trigger : k \in jobs}
  <2>1. Disturbs(b)
    BY <1>3, DisturbDisturbs
  <2>2. PICK f \in [jobs -> jobs'] :
          /\ \A j \in jobs : f[j].trigger = j.trigger
          /\ \A k \in jobs' : \E j \in jobs : k = f[j]
    BY <2>1, DetachedJobs DEF Disturbs
  <2> QED
    BY <2>1, <2>2 DEF Disturbs
<1>4. CASE UNCHANGED vars
  BY <1>4 DEF vars
<1> QED
  BY <1>1, <1>2, <1>3, <1>4, NextCases

-----------------------------------------------------------------------------
(* Until the first fault.                                                  *)
QuietInv ==
    faults = 0 =>
      /\ Healthy
      /\ \A j \in jobs : reg[j.browser] = "Busy"
      /\ \A b \in Browsers : reg[b] = "Busy" => \E j \in jobs : j.browser = b
      /\ \A j, k \in jobs : User(j.browser) = User(k.browser) => j = k
      /\ \A j \in jobs : User(j.browser) = User(Master) => j.browser = Master

OneRunPerAccount == Modes \subseteq {"UNIQUE_ACCOUNTS_ONLY", "MASTER_ONLY"}

LEMMA QuietInit == Init => QuietInv
BY DEF Init, QuietInv, Healthy

(* The browsers a trigger chooses before the first fault: the master, if   *)
(* its account is free, and one browser for each account that is free.     *)
LEMMA QuietTargets ==
    ASSUME OneRunPerAccount, TypeInv, MasterInv, QuietInv, faults = 0,
           NEW mode \in Modes, Trigger(mode), NEW T \in Targets(mode)
    PROVE  /\ Master \in T
           /\ \A b, c \in T : User(b) = User(c) => b = c
           /\ \A b \in T : \A j \in jobs : User(j.browser) # User(b)
<1>t. Master \in Browsers /\ IsFiniteSet(Browsers)
  BY MasterIsABrowser, SizesAssumption, FS_Interval DEF Browsers
<1>1. \A j \in jobs : User(j.browser) # User(Master)
  <2>1. \A j \in jobs : j.browser # Master
    BY DEF Trigger, IsExecuting, MasterInv
  <2> QED
    BY <2>1 DEF QuietInv
<1>2. PresentMaster = {Master}
  BY <1>t DEF PresentMaster, QuietInv, Healthy
<1>3. CASE mode = "MASTER_ONLY"
  <2>1. T = {Master}
    BY <1>2, <1>3 DEF Targets
  <2> QED
    BY <1>1, <2>1
<1>4. CASE mode = "UNIQUE_ACCOUNTS_ONLY"
  <2> DEFINE candidates == PresentMaster \cup ReadySlaves
             open == {b \in candidates : ~UserBusy(User(b))}
  <2>1. T \in OnePerAccount(candidates)
    BY <1>4 DEF Targets
  <2>2. /\ T \subseteq open
        /\ \A b \in open : Cardinality({c \in T : User(c) = User(b)}) = 1
        /\ open \cap {Master} \subseteq T
    BY <2>1 DEF OnePerAccount
  <2>3. ASSUME NEW j \in jobs
        PROVE  j.browser \in Browsers /\ UserBusy(User(j.browser))
    BY DEF UserBusy, QuietInv, TypeInv, TypeOK, Jobs
  <2>4. ~UserBusy(User(Master))
    <3>1. SUFFICES ASSUME NEW b \in Browsers, User(b) = User(Master), reg[b] = "Busy"
                   PROVE  FALSE
      BY DEF UserBusy
    <3>2. PICK j \in jobs : j.browser = b
      BY <3>1 DEF QuietInv
    <3> QED
      BY <1>1, <3>1, <3>2
  <2>5. Master \in T
    BY <1>2, <2>2, <2>4
  <2>6. \A b \in T : \A j \in jobs : User(j.browser) # User(b)
    BY <2>2, <2>3
  <2>7. open \subseteq Browsers
    BY <1>2, <1>t DEF ReadySlaves
  <2>8. ASSUME NEW b \in T, NEW c \in T, User(b) = User(c)
        PROVE  b = c
    <3> DEFINE same == {d \in T : User(d) = User(b)}
    <3>1. same \subseteq Browsers /\ Cardinality(same) = 1
      BY <2>2, <2>7
    <3>2. IsFiniteSet(same)
      BY <1>t, <3>1, FS_Subset
    <3>3. PICK d : same = {d}
      BY <3>1, <3>2, FS_Singleton
    <3> QED
      BY <2>8, <3>3
  <2> QED
    BY <2>5, <2>6, <2>8
<1> QED
  BY <1>3, <1>4 DEF OneRunPerAccount

LEMMA QuietNext ==
    ASSUME OneRunPerAccount
    PROVE  TypeInv /\ MasterInv /\ QuietInv /\ [Next]_vars => QuietInv'
<1> SUFFICES ASSUME TypeInv, MasterInv, QuietInv, [Next]_vars, faults' = 0
             PROVE  QuietInv'
    BY DEF QuietInv
<1>t. jobs \subseteq Jobs /\ faults \in Nat
  BY DEF TypeInv, TypeOK
<1>1. ASSUME NEW mode \in Modes, Trigger(mode)
      PROVE  QuietInv'
  <2>1. PICK T \in Targets(mode) : \E S : Starts(S, T)
    BY <1>1, TriggerStarts
  <2>2. PICK S : Starts(S, T)
    BY <2>1
  <2>3. /\ faults = 0 /\ S \subseteq T /\ S \subseteq Browsers
        /\ jobs' = jobs \cup NewJobs(S) /\ health' = health
        /\ reg' = [b \in Browsers |-> IF b \in S THEN "Busy" ELSE reg[b]]
    BY <2>2 DEF Starts
  <2>4. /\ Master \in T
        /\ \A b, c \in T : User(b) = User(c) => b = c
        /\ \A b \in T : \A j \in jobs : User(j.browser) # User(b)
    BY <1>1, <2>3, QuietTargets
  <2>5. /\ \A j \in NewJobs(S) : j.browser \in S
        /\ \A j, k \in NewJobs(S) : j.browser = k.browser => j = k
        /\ \A b \in S : \E j \in NewJobs(S) : j.browser = b
    BY NewJobsOf
  <2>6. Healthy'
    BY <2>3 DEF QuietInv, Healthy
  <2>7. \A j \in jobs' : reg'[j.browser] = "Busy"
    BY <1>t, <2>3, <2>5 DEF QuietInv, Jobs
  <2>8. \A b \in Browsers : reg'[b] = "Busy" => \E j \in jobs' : j.browser = b
    BY <2>3, <2>5 DEF QuietInv
  <2>9. \A j, k \in jobs' : User(j.browser) = User(k.browser) => j = k
    BY <2>3, <2>4, <2>5 DEF QuietInv
  <2>10. \A j \in jobs' : User(j.browser) = User(Master) => j.browser = Master
    BY <2>3, <2>4, <2>5 DEF QuietInv
  <2> QED
    BY <2>6, <2>7, <2>8, <2>9, <2>10 DEF QuietInv
<1>2. ASSUME NEW j \in jobs, Step(j)
      PROVE  QuietInv'
  <2>1. Steps(j) /\ j \in Jobs /\ faults = 0 /\ health' = health
    BY <1>t, <1>2, StepSteps DEF Steps
  <2>2. ASSUME NEW step, jobs' = (jobs \ {j}) \cup {[j EXCEPT !.at = step]}, reg' = reg
        PROVE  QuietInv'
    <3>1. [j EXCEPT !.at = step].browser = j.browser
      BY <2>1 DEF Jobs
    <3> DEFINE moved == [j EXCEPT !.at = step]
    <3> HIDE DEF moved
    <3>2. jobs' = (jobs \ {j}) \cup {moved} /\ moved.browser = j.browser
      BY <2>2, <3>1 DEF moved
    <3>3. \A k, l \in jobs' : User(k.browser) = User(l.browser) => k = l
      BY <2>1, <3>2 DEF QuietInv
    <3>4. \A b \in Browsers : reg'[b] = "Busy" => \E k \in jobs' : k.browser = b
      BY <2>1, <2>2, <3>2 DEF QuietInv
    <3> QED
      BY <2>1, <2>2, <3>2, <3>3, <3>4 DEF QuietInv, Healthy
  <2>3. ASSUME jobs' = jobs \ {j},
               reg' = [reg EXCEPT ![j.browser] = IF @ = "Busy" THEN "Ready" ELSE @]
        PROVE  QuietInv'
    <3>1. /\ j.browser \in Browsers /\ reg'[j.browser] = "Ready"
          /\ \A b \in Browsers : b # j.browser => reg'[b] = reg[b]
      BY <2>1, <2>3 DEF QuietInv, Jobs, TypeInv, TypeOK
    <3>2. \A k \in jobs' : k.browser # j.browser /\ k.browser \in Browsers
      BY <1>t, <2>1, <2>3 DEF QuietInv, Jobs
    <3>3. Healthy'
      BY <2>1, <3>1 DEF QuietInv, Healthy
    <3>4. \A b \in Browsers : reg'[b] = "Busy" => \E k \in jobs' : k.browser = b
      BY <2>1, <2>3, <3>1 DEF QuietInv
    <3> QED
      BY <2>1, <2>3, <3>1, <3>2, <3>3, <3>4 DEF QuietInv
  <2> QED
    BY <2>1, <2>2, <2>3 DEF Steps
<1>3. ASSUME NEW b \in Browsers, Disturb(b)
      PROVE  QuietInv'
  <2>1. Disturbs(b)
    BY <1>3, DisturbDisturbs
  <2>2. faults = 0
    BY <1>t, <2>1 DEF Disturbs
  <2>3. UNCHANGED <<reg, health, jobs>>
    BY <2>1, <2>2 DEF Disturbs, QuietInv
  <2> QED
    BY <2>2, <2>3 DEF QuietInv, Healthy
<1>4. CASE UNCHANGED vars
  BY <1>4 DEF vars, QuietInv, Healthy
<1> QED
  BY <1>1, <1>2, <1>3, <1>4, NextCases

-----------------------------------------------------------------------------
LEMMA BackedInit == Init => LeasesAreBacked
BY DEF Init, LeasesAreBacked, NoRun, Lease

LEMMA BackedNext ==
    ASSUME OneRunPerAccount
    PROVE  TypeInv /\ MasterInv /\ QuietInv /\ LeasesAreBacked /\ [Next]_vars
             => LeasesAreBacked'
<1> SUFFICES ASSUME TypeInv, MasterInv, QuietInv, LeasesAreBacked, [Next]_vars,
                    NEW b \in Browsers, runs'[b].state = "EXECUTING",
                    b # Master \/ faults' = 0
             PROVE  \E j \in jobs' : j.browser = b
    BY DEF LeasesAreBacked
<1>t. jobs \subseteq Jobs /\ faults \in Nat
  BY DEF TypeInv, TypeOK
<1>1. ASSUME NEW mode \in Modes, Trigger(mode)
      PROVE  \E j \in jobs' : j.browser = b
  <2>1. PICK T \in Targets(mode) : \E S : Starts(S, T)
    BY <1>1, TriggerStarts
  <2>2. PICK S : Starts(S, T)
    BY <2>1
  <2>3. b = Master => b \in S
    BY <1>1, <2>2, QuietTargets DEF Starts
  <2>4. CASE b \in S
    BY <2>2, <2>4, NewJobsOf DEF Starts
  <2>5. CASE b \notin S
    <3>1. runs'[b] = runs[b] /\ b # Master /\ jobs \subseteq jobs'
      BY <2>2, <2>3, <2>5 DEF Starts
    <3> QED
      BY <3>1 DEF LeasesAreBacked
  <2> QED
    BY <2>4, <2>5
<1>2. ASSUME NEW j \in jobs, Step(j)
      PROVE  \E k \in jobs' : k.browser = b
  <2>1. Steps(j) /\ j \in Jobs /\ faults' = faults
    BY <1>t, <1>2, StepSteps DEF Steps
  <2>2. ASSUME NEW step, jobs' = (jobs \ {j}) \cup {[j EXCEPT !.at = step]},
               runs'[b].state = runs[b].state
        PROVE  \E k \in jobs' : k.browser = b
    <3>1. [j EXCEPT !.at = step].browser = j.browser
      BY <2>1 DEF Jobs
    <3>2. PICK k \in jobs : k.browser = b
      BY <2>1, <2>2 DEF LeasesAreBacked
    <3> QED
      BY <2>2, <3>1, <3>2
  <2>3. ASSUME jobs' = jobs \ {j}, b # j.browser, runs'[b] = runs[b]
        PROVE  \E k \in jobs' : k.browser = b
    BY <2>1, <2>3 DEF LeasesAreBacked
  <2> QED
    BY <2>1, <2>2, <2>3 DEF Steps
<1>3. ASSUME NEW c \in Browsers, Disturb(c)
      PROVE  \E j \in jobs' : j.browser = b
  <2>1. Disturbs(c)
    BY <1>3, DisturbDisturbs
  <2>2. PICK f \in [jobs -> jobs'] : \A j \in jobs : f[j].browser = j.browser
    BY <2>1, DetachedJobs DEF Disturbs
  <2>3. runs' = runs /\ (faults' = 0 => faults = 0)
    BY <1>t, <2>1 DEF Disturbs
  <2>4. PICK j \in jobs : j.browser = b
    BY <2>3 DEF LeasesAreBacked
  <2> QED
    BY <2>2, <2>4
<1>4. CASE UNCHANGED vars
  BY <1>4 DEF vars, LeasesAreBacked
<1> QED
  BY <1>1, <1>2, <1>3, <1>4, NextCases

-----------------------------------------------------------------------------
LEMMA AlwaysTypeInv == Spec => []TypeInv
BY TypeInit, TypeNext, PTL DEF Spec

LEMMA AlwaysMasterInv == Spec => []MasterInv
BY AlwaysTypeInv, MasterInit, MasterNext, PTL DEF Spec

LEMMA AlwaysQuietInv ==
    ASSUME OneRunPerAccount
    PROVE  Spec => []QuietInv
<1>1. TypeInv /\ MasterInv /\ QuietInv /\ [Next]_vars => QuietInv'
  BY QuietNext
<1> QED
  BY <1>1, AlwaysTypeInv, AlwaysMasterInv, QuietInit, PTL DEF Spec

(* The variables keep their types, the counters their bounds.              *)
THEOREM TypeCorrect == Spec => []TypeOK
<1>1. TypeInv => TypeOK
  BY DEF TypeInv
<1> QED
  BY <1>1, AlwaysTypeInv, PTL

(* A master whose bet has an unknown outcome freezes the whole cluster.    *)
THEOREM Frozen == Spec => MasterFreezeHolds
<1>1. TypeInv /\ MasterInv /\ [Next]_vars => [Freeze]_vars
  BY FreezeNext
<1> QED
  BY <1>1, AlwaysTypeInv, AlwaysMasterInv, PTL DEF Spec, MasterFreezeHolds, Freeze

(* Until the first fault no account has two runs.                          *)
THEOREM Alone ==
    ASSUME OneRunPerAccount
    PROVE  Spec => []AccountSingleFlight
<1>1. QuietInv => AccountSingleFlight
  BY DEF QuietInv, AccountSingleFlight
<1>2. Spec => []QuietInv
  BY AlwaysQuietInv
<1> QED
  BY <1>1, <1>2, PTL

(* Behind an EXECUTING lease there is a run that will end it: a slave's    *)
(* always, the master's until the first fault.                             *)
THEOREM Backed ==
    ASSUME OneRunPerAccount
    PROVE  Spec => []LeasesAreBacked
<1>1. TypeInv /\ MasterInv /\ QuietInv /\ LeasesAreBacked /\ [Next]_vars
        => LeasesAreBacked'
  BY BackedNext
<1>2. Spec => []QuietInv
  BY AlwaysQuietInv
<1> QED
  BY <1>1, <1>2, AlwaysTypeInv, AlwaysMasterInv, BackedInit, PTL DEF Spec
=============================================================================
