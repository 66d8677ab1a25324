------------------------ MODULE RunOrchestrator_proofs ------------------------
(***************************************************************************)
(* Theorems of RunOrchestrator, for any accounts and any bounds:           *)
(*   TypeCorrect   the types of the variables;                             *)
(*   FrozenStays   what thaws a frozen account;                            *)
(*   Unreported    which submissions may be without a reported outcome at  *)
(*                 the same time.                                          *)
(***************************************************************************)
EXTENDS RunOrchestrator, TLAPS

(* The holder of a lease is there, in a process that is up.  The lease is  *)
(* the one the run acquired, or, on an account that is not triggered, an   *)
(* older one.                                                              *)
HoldersHaveLeases ==
    \A a \in Accounts :
        pc[a] # "idle" =>
            /\ phase = "running"
            /\ runs[a].runId \in RunIds
            /\ runs[a].state \in {"EXECUTING", "UNCERTAIN"}
            /\ cycle[a] \in CycleIds /\ cycle[a][1] <= started
            /\ runs[a].state = "UNCERTAIN" => a \notin Triggered /\ runs[a].runId < cycle[a][1]

(* The log is never written, for no run is marked, and a lease is of a run *)
(* that was started.                                                       *)
NothingLogged ==
    /\ \A r \in RunIds : ledger[r] = NoLine
    /\ \A a \in Accounts : runs[a].state # "PROCESSING" /\ runs[a].runId <= started
    /\ \A a \in Accounts : runs[a].state # "PASSIVE" => runs[a].runId \in RunIds

TypeInv == TypeOK /\ HoldersHaveLeases /\ NothingLogged

(* What accounts for a submission of this life: the run that made it is    *)
(* still there, in the cycle that made it, and has yet to report ...       *)
Pending(a, s) == pc[a] \in {"submitted", "lost", "sealedLost"} /\ s = Submission(a)

(* ... or is over, which on a triggered account left the lease frozen.     *)
Accounted(a, s) ==
    /\ pc[a] # "idle" /\ s.cycleId[1] = cycle[a][1] => Pending(a, s)
    /\ a \in Triggered => \/ Pending(a, s)
                          \/ pc[a] = "idle" /\ runs[a].state = "UNCERTAIN"
    /\ s.cycleId[1] <= started

AccountedFor(a) ==
    \A s \in inFlight[a] : s.life <= crashes /\ (s.life = crashes => Accounted(a, s))

UnreportedInv == OneUnreported /\ \A a \in Accounts : AccountedFor(a)

-----------------------------------------------------------------------------
(* The operations of the lease table: what they return, and leave alone.   *)

(* setActiveCycle and clearActiveCycle change no run id and no state.      *)
LEMMA CycleSetKeeps ==
    ASSUME NEW t \in [Accounts -> Leases], NEW r,
           NEW c \in CycleIds \cup {NoCycle}
    PROVE  /\ CycleSet(t, r, c) \in [Accounts -> Leases]
           /\ \A a \in Accounts : /\ CycleSet(t, r, c)[a].runId = t[a].runId
                                  /\ CycleSet(t, r, c)[a].state = t[a].state
BY DEF CycleSet, Leases

(* markUncertain and markProcessing change the state of one lease and      *)
(* nothing else.                                                           *)
LEMMA MarkedKeeps ==
    ASSUME NEW t \in [Accounts -> Leases], NEW a \in Accounts,
           NEW s \in LeaseStates, t[a].state # "PASSIVE"
    PROVE  /\ Marked(t, a, s) \in [Accounts -> Leases]
           /\ \A b \in Accounts :
                /\ Marked(t, a, s)[b].runId = t[b].runId
                /\ Marked(t, a, s)[b].state = IF b = a THEN s ELSE t[b].state
BY DEF Marked, IsExecuting, Leases

(* releaseOwnership takes one lease away and touches no other.             *)
LEMMA ReleasedKeeps ==
    ASSUME NEW t \in [Accounts -> Leases], NEW a \in Accounts
    PROVE  /\ Released(t, a) \in [Accounts -> Leases]
           /\ Released(t, a)[a].state = "PASSIVE"
           /\ \A b \in Accounts \ {a} : Released(t, a)[b] = t[b]
BY DEF Released, NoRun, Lease, Leases, LeaseStates

(* acquireOwnership writes one EXECUTING lease under the new run id.       *)
LEMMA GrantedKeeps ==
    ASSUME NEW t \in [Accounts -> Leases], NEW a \in Accounts, NEW r \in RunIds
    PROVE  /\ Granted(t, a, r) \in [Accounts -> Leases]
           /\ Granted(t, a, r)[a].runId = r
           /\ Granted(t, a, r)[a].state = "EXECUTING"
           /\ \A b \in Accounts \ {a} : Granted(t, a, r)[b] = t[b]
BY DEF Granted, Lease, Leases, LeaseStates

-----------------------------------------------------------------------------
(* The types, and what a holder can rely on.                               *)

(* Before the first boot there is no lease, no holder and no line.         *)
LEMMA TypeInvInit == Init => TypeInv
<1> SUFFICES ASSUME Init PROVE TypeInv
  OBVIOUS
<1>1. runs \in [Accounts -> Leases]
  BY DEF Init, NoRun, Lease, Leases, LeaseStates
<1>2. ledger \in [RunIds -> Lines]
  BY DEF Init, Lines
<1>3. started \in 0..MaxRuns /\ crashes \in 0..MaxCrashes
  BY BoundsAssumption DEF Init
<1>4. \A a \in Accounts : pc[a] = "idle"
  BY DEF Init
<1>5. NothingLogged
  BY DEF Init, NothingLogged, NoRun, Lease
<1> QED
  BY <1>1, <1>2, <1>3, <1>4, <1>5 DEF Init, TypeInv, TypeOK, HoldersHaveLeases, HolderStates

(* Hydration finds nothing.                                                *)
LEMMA HydrateIsIdle ==
    ASSUME TypeInv, Hydrate
    PROVE  runs' = runs
<1>1. PICK found \in [Accounts -> RunIds \cup {0}] :
        /\ \A a \in Accounts : IF Unresolved(a) = {} THEN found[a] = 0
                                                     ELSE found[a] \in Unresolved(a)
        /\ runs' = [a \in Accounts |->
                      IF found[a] = 0 THEN runs[a]
                      ELSE Lease(found[a], ledger[found[a]].cycleId, "UNCERTAIN")]
  BY DEF Hydrate
<1>2. \A a \in Accounts : Unresolved(a) = {}
  BY DEF TypeInv, NothingLogged, Unresolved, NoLine
<1>3. runs' = [a \in Accounts |-> runs[a]]
  BY <1>1, <1>2
<1> QED
  BY <1>3 DEF TypeInv, TypeOK

(* The steps of the process as a whole, and of the control plane.          *)
LEMMA ProcessKeepsTypeInv ==
    ASSUME TypeInv, Boot \/ Hydrate \/ Launch \/ Crash
           \/ \E a \in Accounts : SetAuthorization(a)
    PROVE  TypeInv'
<1> USE DEF TypeInv, TypeOK, HoldersHaveLeases, NothingLogged, process, holder
<1>1. CASE Boot
  BY <1>1 DEF Boot
<1>2. CASE Hydrate
  <2>1. runs' = runs
    BY <1>2, HydrateIsIdle
  <2> QED
    BY <1>2, <2>1 DEF Hydrate
<1>3. CASE Launch
  BY <1>3 DEF Launch
<1>4. CASE Crash
  <2>1. runs' \in [Accounts -> Leases] /\ \A a \in Accounts : runs'[a] = NoRun
    BY <1>4 DEF Crash, NoRun, Lease, Leases, LeaseStates
  <2>2. crashes' \in 0..MaxCrashes
    BY <1>4, BoundsAssumption DEF Crash
  <2>3. pc' = [b \in Accounts |-> "idle"] /\ cycle' = [b \in Accounts |-> NoCycle]
    BY <1>4 DEF Crash
  <2>4. NothingLogged'
    BY <1>4, <2>1 DEF Crash, NoRun, Lease
  <2> QED
    BY <1>4, <2>1, <2>2, <2>3, <2>4 DEF Crash, HolderStates
<1>5. ASSUME NEW a \in Accounts, SetAuthorization(a) PROVE TypeInv'
  BY <1>5 DEF SetAuthorization
<1> QED
  BY <1>1, <1>2, <1>3, <1>4, <1>5

(* A run that acquires a lease mints a run id within the bound, and gives  *)
(* the account a holder or leaves the lease to nobody.                     *)
LEMMA AcquireIsLocal ==
    ASSUME TypeInv, NEW a \in Accounts, Acquire(a)
    PROVE  /\ UNCHANGED <<process, ledger, inFlight>>
           /\ started + 1 \in RunIds /\ started' = started + 1
           /\ pc[a] = "idle" /\ runs[a].state = "PASSIVE"
           /\ runs' \in [Accounts -> Leases]
           /\ runs'[a].runId = started + 1 /\ runs'[a].state = "EXECUTING"
           /\ pc' \in [Accounts -> HolderStates] /\ cycle' \in [Accounts -> CycleIds \cup {NoCycle}]
           /\ \A b \in Accounts \ {a} : runs'[b] = runs[b] /\ pc'[b] = pc[b] /\ cycle'[b] = cycle[b]
           /\ pc'[a] # "idle" =>
                phase = "running" /\ pc'[a] = "leased" /\ cycle'[a] = <<started + 1, 1>>
<1>1. started + 1 \in RunIds /\ <<started + 1, 1>> \in CycleIds
  BY BoundsAssumption DEF TypeInv, TypeOK, Acquire, RunIds, CycleIds
<1>2. pc[a] = "idle" /\ runs[a].state = "PASSIVE"
  BY DEF TypeInv, HoldersHaveLeases, Acquire, IsExecuting
<1>3. runs \in [Accounts -> Leases] /\ runs' = Granted(runs, a, started + 1)
  BY DEF TypeInv, TypeOK, Acquire
<1>4. /\ runs' \in [Accounts -> Leases]
      /\ runs'[a].runId = started + 1 /\ runs'[a].state = "EXECUTING"
      /\ \A b \in Accounts \ {a} : runs'[b] = runs[b]
  BY <1>1, <1>3, GrantedKeeps
<1>5. /\ pc' \in [Accounts -> HolderStates] /\ cycle' \in [Accounts -> CycleIds \cup {NoCycle}]
      /\ \A b \in Accounts \ {a} : pc'[b] = pc[b] /\ cycle'[b] = cycle[b]
      /\ pc'[a] # "idle" =>
           phase = "running" /\ pc'[a] = "leased" /\ cycle'[a] = <<started + 1, 1>>
  BY <1>1, <1>2 DEF TypeInv, TypeOK, Acquire, Begins, holder, HolderStates
<1> QED
  BY <1>1, <1>2, <1>4, <1>5 DEF Acquire

(* A run that finds a lease gets a number beyond the one in the lease.     *)
LEMMA ReuseIsLocal ==
    ASSUME TypeInv, NEW a \in Accounts, Reuse(a)
    PROVE  /\ UNCHANGED <<process, ledger, runs, inFlight>>
           /\ started + 1 \in RunIds /\ started' = started + 1
           /\ phase = "running" /\ a \notin Triggered
           /\ pc[a] = "idle" /\ runs[a].state # "PASSIVE" /\ runs[a].runId \in RunIds
           /\ pc' \in [Accounts -> HolderStates] /\ cycle' \in [Accounts -> CycleIds \cup {NoCycle}]
           /\ \A b \in Accounts \ {a} : pc'[b] = pc[b] /\ cycle'[b] = cycle[b]
           /\ pc'[a] = "leased" /\ cycle'[a] = <<started + 1, 1>>
<1>1. started + 1 \in RunIds /\ <<started + 1, 1>> \in CycleIds
  BY BoundsAssumption DEF TypeInv, TypeOK, Reuse, RunIds, CycleIds
<1>2. runs[a].state # "PASSIVE" /\ runs[a].runId \in RunIds
  BY DEF TypeInv, NothingLogged, Reuse, IsExecuting
<1> QED
  BY <1>1, <1>2 DEF TypeInv, TypeOK, Reuse, Begins, HolderStates

(* A start of a run keeps the types.                                       *)
LEMMA StartKeepsTypeInv ==
    ASSUME TypeInv, NEW a \in Accounts, Acquire(a) \/ Reuse(a)
    PROVE  TypeInv'
<1>1. /\ started \in Nat /\ MaxRuns \in Nat /\ RunIds = 1..MaxRuns
      /\ \A b \in Accounts : runs[b].runId \in Nat /\ runs[b].runId <= started
      /\ \A b \in Accounts : cycle[b] \in CycleIds => cycle[b][1] \in Nat
  BY BoundsAssumption DEF TypeInv, TypeOK, NothingLogged, RunIds, CycleIds, Leases
<1>2. CASE Acquire(a)
  <2>1. started' \in 0..MaxRuns
    BY <1>1, <1>2, AcquireIsLocal
  <2>2. TypeOK'
    BY <1>2, <2>1, AcquireIsLocal DEF TypeInv, TypeOK, process
  <2>3. <<started + 1, 1>> \in CycleIds /\ <<started + 1, 1>>[1] = started + 1
    BY <1>2, AcquireIsLocal, BoundsAssumption DEF CycleIds
  <2>4. HoldersHaveLeases'
    BY <1>1, <1>2, <2>3, AcquireIsLocal DEF TypeInv, HoldersHaveLeases, process
  <2>5. NothingLogged'
    BY <1>1, <1>2, AcquireIsLocal DEF TypeInv, NothingLogged
  <2> QED
    BY <2>2, <2>4, <2>5 DEF TypeInv
<1>3. CASE Reuse(a)
  <2>1. started' \in 0..MaxRuns
    BY <1>1, <1>3, ReuseIsLocal
  <2>2. TypeOK'
    BY <1>3, <2>1, ReuseIsLocal DEF TypeInv, TypeOK, process
  <2>3. <<started + 1, 1>> \in CycleIds /\ <<started + 1, 1>>[1] = started + 1
    BY <1>3, ReuseIsLocal, BoundsAssumption DEF CycleIds
  <2>4. runs[a].state \in {"EXECUTING", "UNCERTAIN"}
    BY <1>3, ReuseIsLocal DEF TypeInv, TypeOK, NothingLogged, Leases, LeaseStates
  <2>5. HoldersHaveLeases'
    BY <1>1, <1>3, <2>3, <2>4, ReuseIsLocal DEF TypeInv, HoldersHaveLeases, process
  <2>6. NothingLogged'
    BY <1>1, <1>3, ReuseIsLocal DEF TypeInv, NothingLogged
  <2> QED
    BY <2>2, <2>5, <2>6 DEF TypeInv
<1> QED
  BY <1>2, <1>3

(* What a holder's step does to the other accounts, nothing, and to its    *)
(* own: the run id and the state of the lease change at the end only.      *)
LEMMA WorkIsLocal ==
    ASSUME TypeInv, NEW a \in Accounts, Work(a)
    PROVE  /\ UNCHANGED <<process, ledger, started>>
           /\ pc[a] # "idle"
           /\ runs' \in [Accounts -> Leases]
           /\ pc' \in [Accounts -> HolderStates] /\ cycle' \in [Accounts -> CycleIds \cup {NoCycle}]
           /\ \A b \in Accounts \ {a} :
                /\ runs'[b].runId = runs[b].runId /\ runs'[b].state = runs[b].state
                /\ pc'[b] = pc[b] /\ cycle'[b] = cycle[b] /\ inFlight'[b] = inFlight[b]
           /\ pc'[a] # "idle" =>
                /\ runs'[a].runId = runs[a].runId /\ runs'[a].state = runs[a].state
                /\ cycle'[a] \in CycleIds /\ cycle'[a][1] = cycle[a][1]
           /\ pc'[a] = "idle" =>
                \/ Release(a) /\ pc[a] = "sealed" /\ runs'[a] = NoRun
                \/ /\ MarkUncertain(a) /\ pc[a] = "sealedLost"
                   /\ runs'[a].runId = runs[a].runId /\ runs'[a].state = "UNCERTAIN"
<1>0. /\ runs \in [Accounts -> Leases] /\ ledger \in [RunIds -> Lines]
      /\ pc \in [Accounts -> HolderStates]
      /\ cycle \in [Accounts -> CycleIds \cup {NoCycle}]
      /\ inFlight \in [Accounts -> SUBSET Submissions]
      /\ pc[a] # "idle"
  BY DEF TypeInv, TypeOK, Work, Arm, Abort, Submit, Observe, LoseTrack, Seal, NextCycle,
         Release, MarkUncertain
<1>1. Run(a) \in RunIds /\ cycle[a] \in CycleIds /\ runs[a].state \in {"EXECUTING", "UNCERTAIN"}
  BY <1>0 DEF TypeInv, HoldersHaveLeases, Run
<1> USE DEF process
<1>2. CASE Arm(a)
  <2>1. /\ runs' \in [Accounts -> Leases]
        /\ \A b \in Accounts : runs'[b].runId = runs[b].runId /\ runs'[b].state = runs[b].state
    BY <1>0, <1>1, <1>2, CycleSetKeeps DEF Arm
  <2> QED
    BY <1>0, <1>1, <1>2, <2>1 DEF Arm, HolderStates
<1>3. CASE Abort(a) \/ Submit(a) \/ Observe(a) \/ LoseTrack(a)
  BY <1>0, <1>1, <1>3 DEF Abort, Submit, Observe, LoseTrack, HolderStates
<1>4. CASE Seal(a)
  <2>1. /\ runs' \in [Accounts -> Leases]
        /\ \A b \in Accounts : runs'[b].runId = runs[b].runId /\ runs'[b].state = runs[b].state
    BY <1>0, <1>4, CycleSetKeeps DEF Seal, CycleCleared
  <2> QED
    BY <1>0, <1>1, <1>4, <2>1 DEF Seal, HolderStates
<1>5. CASE NextCycle(a)
  <2>1. CycleAfter(cycle[a]) \in CycleIds /\ CycleAfter(cycle[a])[1] = cycle[a][1]
    BY <1>1, <1>5, BoundsAssumption DEF NextCycle, CycleAfter, CycleIds
  <2> QED
    BY <1>0, <1>1, <1>5, <2>1 DEF NextCycle, HolderStates
<1>6. CASE Release(a)
  <2>1. runs' \in [Accounts -> Leases] /\ runs'[a] = NoRun
        /\ \A b \in Accounts \ {a} : runs'[b] = runs[b]
    BY <1>0, <1>6, ReleasedKeeps DEF Release, Released
  <2>2. ledger' = ledger
    BY <1>1, <1>6 DEF Release
  <2> QED
    BY <1>0, <1>6, <2>1, <2>2 DEF Release, RunOver, HolderStates
<1>7. CASE MarkUncertain(a)
  <2>1. /\ runs' \in [Accounts -> Leases]
        /\ \A b \in Accounts :
             /\ runs'[b].runId = runs[b].runId
             /\ runs'[b].state = IF b = a THEN "UNCERTAIN" ELSE runs[b].state
    BY <1>0, <1>1, <1>7, MarkedKeeps DEF MarkUncertain, LeaseStates
  <2> QED
    BY <1>0, <1>7, <2>1 DEF MarkUncertain, RunOver, HolderStates
<1> QED
  BY <1>2, <1>3, <1>4, <1>5, <1>6, <1>7 DEF Work

(* A submission has a type, and goes when its outcome is reported.         *)
LEMMA WorkSubmits ==
    ASSUME TypeInv, NEW a \in Accounts, Work(a)
    PROVE  /\ inFlight' \in [Accounts -> SUBSET Submissions]
           /\ Submission(a) \in Submissions
           /\ Submit(a) => /\ pc[a] = "armed" /\ pc'[a] = "submitted" /\ cycle' = cycle
                           /\ runs' = runs
                           /\ inFlight'[a] = inFlight[a] \cup {Submission(a)}
           /\ Observe(a) => /\ pc[a] = "submitted" /\ pc'[a] = "resolved" /\ cycle' = cycle
                            /\ runs' = runs
                            /\ inFlight'[a] = inFlight[a] \ {Submission(a)}
           /\ ~Submit(a) /\ ~Observe(a) => inFlight' = inFlight
<1>1. /\ inFlight \in [Accounts -> SUBSET Submissions] /\ crashes \in 0..MaxCrashes
      /\ pc \in [Accounts -> HolderStates]
  BY DEF TypeInv, TypeOK
<1>2. pc[a] # "idle"
  BY WorkIsLocal
<1>3. Submission(a) \in Submissions
  BY <1>1, <1>2 DEF TypeInv, HoldersHaveLeases, Submission, Submissions, Run
<1>4. CASE Submit(a) \/ Observe(a)
  BY <1>1, <1>3, <1>4 DEF Submit, Observe
<1>5. CASE ~Submit(a) /\ ~Observe(a)
  BY <1>1, <1>3, <1>5 DEF Work, Arm, Abort, LoseTrack, Seal, NextCycle, Release, MarkUncertain
<1> QED
  BY <1>4, <1>5

(* The steps of a holder keep the types.                                   *)
LEMMA WorkKeepsTypeInv ==
    ASSUME TypeInv, NEW a \in Accounts, Work(a)
    PROVE  TypeInv'
<1>1. TypeOK'
  BY WorkIsLocal, WorkSubmits DEF TypeInv, TypeOK, process
<1>2. HoldersHaveLeases'
  <2>1. /\ phase = "running" /\ runs[a].runId \in RunIds
        /\ runs[a].state \in {"EXECUTING", "UNCERTAIN"} /\ cycle[a][1] <= started
        /\ runs[a].state = "UNCERTAIN" => a \notin Triggered /\ runs[a].runId < cycle[a][1]
    BY WorkIsLocal DEF TypeInv, HoldersHaveLeases
  <2> QED
    BY <2>1, WorkIsLocal DEF TypeInv, HoldersHaveLeases, process
<1>3. NothingLogged'
  <2>1. \/ runs'[a] = NoRun
        \/ runs'[a].runId = runs[a].runId /\ runs'[a].state \in {runs[a].state, "UNCERTAIN"}
    BY WorkIsLocal
  <2>2. /\ runs[a].runId \in RunIds
        /\ started \in Nat /\ NoRun.runId = 0 /\ NoRun.state = "PASSIVE"
    BY WorkIsLocal DEF TypeInv, TypeOK, HoldersHaveLeases, NoRun, Lease
  <2> QED
    BY <2>1, <2>2, WorkIsLocal DEF TypeInv, NothingLogged
<1> QED
  BY <1>1, <1>2, <1>3 DEF TypeInv

(* Together: every step keeps the type invariant.                          *)
LEMMA TypeInvStep == TypeInv /\ [Next]_vars => TypeInv'
<1> SUFFICES ASSUME TypeInv, [Next]_vars PROVE TypeInv'
  OBVIOUS
<1>1. CASE UNCHANGED vars
  BY <1>1 DEF TypeInv, TypeOK, HoldersHaveLeases, NothingLogged, vars, process, holder
<1>2. CASE Next
  BY <1>2, ProcessKeepsTypeInv, StartKeepsTypeInv, WorkKeepsTypeInv DEF Next
<1> QED
  BY <1>1, <1>2

(* The variables keep their types: run ids and cycles stay within what is  *)
(* started and allowed, and every line of the log is a legible one.        *)
THEOREM TypeCorrect == Spec => []TypeOK
<1>1. TypeInv => TypeOK
  BY DEF TypeInv
<1> QED
  BY <1>1, TypeInvInit, TypeInvStep, PTL DEF Spec

-----------------------------------------------------------------------------
(* What thaws a frozen account.                                            *)

LEMMA ThawStep ==
    ASSUME TypeInv, [Next]_vars, NEW a \in Accounts,
           runs[a].state = "UNCERTAIN", runs'[a].state # "UNCERTAIN", phase' # "down"
    PROVE  a \notin Triggered /\ pc[a] = "sealed" /\ cycle[a][1] > runs[a].runId
<1> USE DEF process, holder
<1>1. CASE UNCHANGED vars \/ Boot \/ Launch \/ \E b \in Accounts : SetAuthorization(b) \/ Reuse(b)
  BY <1>1 DEF vars, Boot, Launch, SetAuthorization, Reuse
<1>2. CASE Hydrate
  BY <1>2, HydrateIsIdle
<1>3. CASE Crash
  BY <1>3 DEF Crash
<1>4. ASSUME NEW b \in Accounts, Acquire(b) PROVE FALSE
  BY <1>4, AcquireIsLocal
<1>5. ASSUME NEW b \in Accounts, Work(b)
      PROVE  a \notin Triggered /\ pc[a] = "sealed" /\ cycle[a][1] > runs[a].runId
  <2>1. b = a
    BY <1>5, WorkIsLocal
  <2>2. pc[a] = "sealed"
    BY <1>5, <2>1, WorkIsLocal
  <2>3. a \notin Triggered /\ runs[a].runId < cycle[a][1]
    BY <2>2 DEF TypeInv, HoldersHaveLeases
  <2>4. runs[a].runId \in Nat /\ cycle[a][1] \in Nat
    BY <2>2, BoundsAssumption DEF TypeInv, HoldersHaveLeases, RunIds, CycleIds
  <2> QED
    BY <2>2, <2>3, <2>4
<1> QED
  BY <1>1, <1>2, <1>3, <1>4, <1>5 DEF Next

(* A frozen account stays frozen until the process dies, or, if its runs   *)
(* do not begin at TriggerRouter, until a later run that worked under the  *)
(* frozen lease ends with an outcome.                                      *)
THEOREM FrozenStays == Spec => ThawedByItsRunOnly
<1>1. TypeInv /\ [Next]_vars =>
        [\A a \in Accounts :
           runs[a].state = "UNCERTAIN" /\ runs'[a].state # "UNCERTAIN" /\ phase' # "down" =>
              /\ a \notin Triggered
              /\ pc[a] = "sealed" /\ cycle[a][1] > runs[a].runId]_vars
  BY ThawStep
<1> QED
  BY <1>1, TypeInvInit, TypeInvStep, PTL DEF Spec, ThawedByItsRunOnly

-----------------------------------------------------------------------------
(* Submissions without a reported outcome.                                 *)

(* The start of a run has a number no submission has, and on a triggered   *)
(* account it is refused while one of this life is unreported.             *)
LEMMA StartKeepsUnreportedInv ==
    ASSUME TypeInv, UnreportedInv, NEW a \in Accounts, Acquire(a) \/ Reuse(a)
    PROVE  UnreportedInv'
<1>1. /\ UNCHANGED <<crashes, inFlight>> /\ started' = started + 1
      /\ pc[a] = "idle"
      /\ pc'[a] # "idle" => cycle'[a][1] = started + 1
      /\ a \in Triggered => runs[a].state = "PASSIVE"
      /\ \A b \in Accounts \ {a} : runs'[b] = runs[b] /\ pc'[b] = pc[b] /\ cycle'[b] = cycle[b]
  <2>1. CASE Acquire(a)
    BY <2>1, AcquireIsLocal DEF process
  <2>2. CASE Reuse(a)
    BY <2>2, ReuseIsLocal DEF process
  <2> QED
    BY <2>1, <2>2
<1>2. started \in Nat /\ inFlight \in [Accounts -> SUBSET Submissions]
  BY DEF TypeInv, TypeOK
<1>3. \A b \in Accounts : \A s \in inFlight[b] : s.cycleId[1] \in Nat
  BY <1>2 DEF Submissions, CycleIds, RunIds
<1>4. OneUnreported'
  BY <1>1 DEF UnreportedInv, OneUnreported
<1>5. \A s \in inFlight[a] : s.life <= crashes /\ (s.life = crashes => Accounted(a, s)')
  <2> SUFFICES ASSUME NEW s \in inFlight[a], s.life = crashes PROVE Accounted(a, s)'
    BY DEF UnreportedInv, AccountedFor
  <2>1. Accounted(a, s)
    BY DEF UnreportedInv, AccountedFor
  <2>2. a \notin Triggered /\ s.cycleId[1] <= started
    BY <1>1, <2>1 DEF Accounted, Pending
  <2> QED
    BY <1>1, <1>2, <1>3, <2>2 DEF Accounted
<1>6. \A b \in Accounts \ {a} : \A s \in inFlight[b] :
        s.life <= crashes /\ (s.life = crashes => Accounted(b, s)')
  BY <1>1, <1>2, <1>3 DEF UnreportedInv, AccountedFor, Accounted, Pending, Submission, Run
<1>7. \A b \in Accounts : AccountedFor(b)'
  BY <1>1, <1>5, <1>6 DEF AccountedFor
<1> QED
  BY <1>4, <1>7 DEF UnreportedInv

(* A holder's step on its own account.                                     *)
LEMMA WorkAccounts ==
    ASSUME TypeInv, UnreportedInv, NEW a \in Accounts, Work(a)
    PROVE  AccountedFor(a)'
<1>1. /\ crashes' = crashes /\ started' = started /\ crashes \in Nat /\ started \in Nat
      /\ inFlight \in [Accounts -> SUBSET Submissions]
      /\ pc \in [Accounts -> HolderStates]
  BY WorkIsLocal DEF process, TypeInv, TypeOK
<1>2. cycle[a][1] <= started /\ pc[a] # "idle"
  BY WorkIsLocal DEF TypeInv, HoldersHaveLeases
<1>3. \A s \in inFlight[a] : s.life <= crashes /\ (s.life = crashes => Accounted(a, s))
  BY DEF UnreportedInv, AccountedFor
<1>4. Submission(a).life = crashes /\ Submission(a).cycleId = cycle[a]
  BY DEF Submission
<1>5. CASE Submit(a)
  <2>1. /\ pc'[a] = "submitted" /\ cycle' = cycle /\ runs' = runs /\ pc[a] = "armed"
        /\ inFlight'[a] = inFlight[a] \cup {Submission(a)}
    BY <1>5, WorkSubmits
  <2>2. Submission(a)' = Submission(a)
    BY <1>1, <2>1 DEF Submission, Run
  <2>3. ASSUME NEW s, s = Submission(a) PROVE Accounted(a, s)'
    BY <1>1, <1>2, <1>4, <2>1, <2>2, <2>3 DEF Accounted, Pending
  <2>4. \A s \in inFlight[a] : s.life = crashes => Accounted(a, s)'
    BY <1>1, <1>2, <1>3, <2>1 DEF Accounted, Pending
  <2> QED
    BY <1>1, <1>3, <1>4, <2>1, <2>3, <2>4 DEF AccountedFor
<1>6. CASE Observe(a)
  <2>1. /\ pc'[a] = "resolved" /\ cycle' = cycle /\ runs' = runs /\ pc[a] = "submitted"
        /\ inFlight'[a] = inFlight[a] \ {Submission(a)}
    BY <1>6, WorkSubmits
  <2>2. \A s \in inFlight'[a] : s.life = crashes => Accounted(a, s)'
    BY <1>1, <1>2, <1>3, <2>1 DEF Accounted, Pending
  <2> QED
    BY <1>1, <1>3, <2>1, <2>2 DEF AccountedFor
<1>7. CASE ~Submit(a) /\ ~Observe(a)
  <2>1. inFlight' = inFlight
    BY <1>7, WorkSubmits
  <2> SUFFICES ASSUME NEW s \in inFlight[a], s.life = crashes PROVE Accounted(a, s)'
    BY <1>1, <1>3, <2>1 DEF AccountedFor
  <2>2. Accounted(a, s)
    BY <1>3
  <2>3. CASE pc'[a] = "idle"
    <3>1. CASE Release(a)
      BY <1>1, <1>2, <2>2, <2>3, <3>1 DEF Accounted, Pending, Release
    <3>2. CASE runs'[a].state = "UNCERTAIN"
      BY <1>1, <2>2, <2>3, <3>2 DEF Accounted
    <3> QED
      BY <2>3, <3>1, <3>2, WorkIsLocal
  <2>4. CASE pc'[a] # "idle" /\ pc[a] \in {"submitted", "lost", "sealedLost"}
    <3>1. cycle' = cycle /\ pc'[a] \in {"submitted", "lost", "sealedLost"}
      BY <1>1, <1>7, <2>4 DEF Work, Arm, Abort, LoseTrack, Seal, NextCycle, Release,
                              MarkUncertain, RunOver
    <3>2. Submission(a)' = Submission(a)
      BY <1>1, <2>4, <3>1, WorkIsLocal DEF Submission, Run
    <3> QED
      BY <1>1, <1>2, <2>2, <2>4, <3>1, <3>2 DEF Accounted, Pending
  <2>5. CASE pc'[a] # "idle" /\ pc[a] \notin {"submitted", "lost", "sealedLost"}
    BY <1>1, <1>2, <2>2, <2>5, WorkIsLocal DEF Accounted, Pending
  <2> QED
    BY <2>3, <2>4, <2>5
<1> QED
  BY <1>5, <1>6, <1>7

(* ... and on all of them.                                                 *)
LEMMA WorkKeepsUnreportedInv ==
    ASSUME TypeInv, UnreportedInv, NEW a \in Accounts, Work(a)
    PROVE  UnreportedInv'
<1>1. /\ crashes' = crashes /\ started' = started
      /\ \A b \in Accounts \ {a} :
           /\ runs'[b].runId = runs[b].runId /\ runs'[b].state = runs[b].state
           /\ pc'[b] = pc[b] /\ cycle'[b] = cycle[b] /\ inFlight'[b] = inFlight[b]
  BY WorkIsLocal DEF process
<1>2. \A b \in Accounts \ {a} : AccountedFor(b)'
  BY <1>1 DEF UnreportedInv, AccountedFor, Accounted, Pending, Submission, Run
<1>3. \A s, t \in inFlight'[a] :
        s.life = t.life /\ (a \in Triggered \/ s.cycleId[1] = t.cycleId[1]) => s = t
  <2>1. CASE Submit(a)
    <3>1. inFlight'[a] = inFlight[a] \cup {Submission(a)} /\ pc[a] = "armed"
      BY <2>1, WorkSubmits
    <3>2. Submission(a).life = crashes /\ Submission(a).cycleId = cycle[a]
      BY DEF Submission
    <3>3. \A s \in inFlight[a] : s.life = crashes =>
            a \notin Triggered /\ s.cycleId[1] # cycle[a][1]
      BY <3>1 DEF UnreportedInv, AccountedFor, Accounted, Pending
    <3> QED
      BY <3>1, <3>2, <3>3 DEF UnreportedInv, OneUnreported
  <2>2. CASE ~Submit(a)
    <3>1. inFlight'[a] \subseteq inFlight[a]
      BY <2>2, WorkSubmits
    <3> QED
      BY <3>1 DEF UnreportedInv, OneUnreported
  <2> QED
    BY <2>1, <2>2
<1>4. OneUnreported'
  BY <1>1, <1>3 DEF UnreportedInv, OneUnreported
<1> QED
  BY <1>2, <1>4, WorkAccounts DEF UnreportedInv

(* Every step keeps it; a crash, because what it leaves behind belongs to  *)
(* another life.                                                           *)
LEMMA UnreportedInvStep == TypeInv /\ UnreportedInv /\ [Next]_vars => UnreportedInv'
<1> SUFFICES ASSUME TypeInv, UnreportedInv, [Next]_vars PROVE UnreportedInv'
  OBVIOUS
<1> USE DEF process, holder
<1>1. CASE UNCHANGED vars \/ Boot \/ Launch \/ \E b \in Accounts : SetAuthorization(b)
  <2>1. UNCHANGED <<runs, pc, cycle, inFlight, crashes, started>>
    BY <1>1 DEF vars, Boot, Launch, SetAuthorization
  <2> QED
    BY <2>1 DEF UnreportedInv, OneUnreported, AccountedFor, Accounted, Pending, Submission, Run
<1>2. CASE Hydrate
  <2>1. UNCHANGED <<runs, pc, cycle, inFlight, crashes, started>>
    BY <1>2, HydrateIsIdle DEF Hydrate
  <2> QED
    BY <2>1 DEF UnreportedInv, OneUnreported, AccountedFor, Accounted, Pending, Submission, Run
<1>3. CASE Crash
  <2>1. inFlight' = inFlight /\ crashes' = crashes + 1 /\ crashes \in Nat
    BY <1>3 DEF Crash, TypeInv, TypeOK
  <2>2. \A a \in Accounts : \A s \in inFlight[a] :
          s.life \in Nat /\ s.life <= crashes
    BY BoundsAssumption DEF TypeInv, TypeOK, Submissions, UnreportedInv, AccountedFor
  <2> QED
    BY <2>1, <2>2 DEF UnreportedInv, OneUnreported, AccountedFor
<1>4. CASE \E a \in Accounts : Acquire(a) \/ Reuse(a)
  BY <1>4, StartKeepsUnreportedInv
<1>5. CASE \E a \in Accounts : Work(a)
  BY <1>5, WorkKeepsUnreportedInv
<1> QED
  BY <1>1, <1>2, <1>3, <1>4, <1>5 DEF Next

(* In one life of the process a run that lost track of a submission makes  *)
(* no other, and on a triggered account it was the last to make one.       *)
THEOREM Unreported == Spec => []OneUnreported
<1>1. Init => UnreportedInv
  BY DEF Init, UnreportedInv, OneUnreported, AccountedFor
<1>2. UnreportedInv => OneUnreported
  BY DEF UnreportedInv
<1> QED
  BY <1>1, <1>2, TypeInvInit, TypeInvStep, UnreportedInvStep, PTL DEF Spec
=============================================================================
