# A formal model of bettingAutomation

TLA+ specifications of the program in `src/`, checked with TLC on small instances
and, their safety properties and refinements, proved with TLAPS for every
instance under stated assumptions. Paths below are relative to the repository; `browser/` stands for
`src/src/browser/`. `PROJECT.json` lists the components, the runs, the
line-by-line map from definitions to code, the hazards and the theorems.

## 1. The system

One *execution process* (Node, single-threaded, cooperative) drives a cluster of
browsers: one **master**, which an operator uses, and some **slaves** that mirror
it. A control plane sends messages to it (`src/src/worker`), and a bookmaker's web
site is on the other side of every page.

| Part | State it keeps | Operations | Talks to |
|---|---|---|---|
| `RunOrchestrator` | `activeRuns`: account key → lease (run, cycle, state) | acquire, set/clear/validate cycle, mark processing/uncertain, release, hydrate | `RunLedger`, authorization registry |
| `RunLedger` | `run_ledger.jsonl`, append-only | append, getUnresolvedRuns | disk |
| `BettingAuthorizationRegistry` | browser → enabled/disabled | setAuthorization, isAuthorized | control plane |
| `TriggerRouter`, Workflow handler of `EventBusRegistrar` | none of their own | hotkey / DOM / control-plane trigger → targets | orchestrator, registry, engine |
| `WorkflowEngine` | none; one promise per target | lease, Busy, run, release or mark uncertain, Ready | orchestrator, registry |
| `BrowserStateRegistry` | browser → state, page, counters | register, updateState, queries | everybody |
| `HealthMonitor`, `RecoveryManager`, `BrowserLifecycleManager`, `RecoveryActionExecutor` | heal in progress, back-off | detect, heal, respawn, restart, reload | registry |
| `AutomationRun`, `BetCycle` | run state, success and failure counters; cycle state | cycles, retries, rebets | simulator, adapter, constraint engine |
| `ActionSimulator` | circuit state per page | execute: guard, atomic place-bet, atomic cashout, error wrapping | page |
| `ResultResolver` | `window.__cmsTracker` in the page | observeResult | page |
| `CashoutTransaction`, `CashoutCycle` | attempt, state | attempts and their classification | simulator |
| `ConstraintEngine`, strategy policy | a policy snapshot per cycle | evaluate | — |
| the script in the master's frames, `ActionDispatcher` | recognizer, page clock, ring of unacknowledged events; per document | recognize, stamp, send, acknowledge | `TemporalSequencer` |
| `TemporalSequencer` | min-heap, last clock flushed, `currentGES` | receive, flush, number | router, slaves |
| `ExecutionScheduler`, its `QueueManager`, `SequenceGate` | per slave: four buckets, drain lock, watchdog; the slave's counter in the registry | enqueue, coalesce, purge, drain, expire, gate, skip | barrier, simulator, registry |
| `SynchronizationBarrier`, `RecoveryCoordinator`, `CDPMutex` | recoveries in a row per slave | wait, escalate: invalidate, reload, restart | recovery, scheduler |
| `ConvergenceEngine` | one expectation per slave, a timer | expect, observe, time out | controller (corrective navigation) |
| providers, locators, pricing, RKP, telemetry, launcher | see `PROJECT.json` | | |

What makes it hard:

- **A click cannot be taken back and its outcome can be lost**: the page navigates,
  the tracker disconnects, the answer times out, the process dies. The program's
  defence is a third outcome, UNCERTAIN, which keeps the lease and so freezes the
  account. Everything in sections 3 and 4 turns on that.
- **Leases are per browser, money is per account**: several browsers may be logged
  in to one account.
- **Awaits**: between reading odds, balance, authorization, registry state, lease
  and using them, other handlers run.
- **Browsers die, are reloaded and healed under a run.**
- **Restart**: memory is lost, the log is not, and hydration is not awaited.
- **Mirroring is lossy on purpose**: movement is coalesced, hovers and texts are
  debounced, old events expire. Every number that will not come must still be passed.

What makes each part correct: no submission after one whose outcome was lost,
as far as leases can see to it (orchestrator);
the log restores what a crash left unresolved (ledger); no lease and no Busy browser
forgotten, one run per account (engine and routing); accepted bets are counted and
never exceed the target (run); one intent, one sale (cashout); the stake is the one
the policy asks for at the odds of the click (constraint engine); what the operator
does in one document is numbered in the order it was done (capture, sequencer); each
slave's page is given the numbered events at most once and in order (movement that
was added to an earlier scroll comes with that one), whatever is lost, skipped, purged or
healed, and its queue does not stop for good (scheduler,
gate, barrier, convergence).

## 2. The modules

| Module | Models | Composition |
|---|---|---|
| `RunLeases` | the lease table and the methods on it, as operators | used by the two next |
| `RunOrchestrator` | leases, log, authorization, the holder of a lease, crash and restart | EXTENDS `RunLeases` |
| `RunOrchestrator_proofs` | inductive invariants and theorems | EXTENDS `RunOrchestrator`, `TLAPS` |
| `WorkflowRuns` | triggers, routing, engine, registry, faults and heals of browsers | EXTENDS `RunLeases` |
| `Transaction` | what a run under a lease promises (abstract) | instantiated by the two next |
| `BetRun` | one `AutomationRun` with cycles, click and observation | `Promise == INSTANCE Transaction WITH ...` |
| `CashoutRun` | one `CashoutTransaction` with cycles and the cashout script | `Promise == INSTANCE Transaction WITH ...` |
| `StakePolicy` | `ConstraintEngine.evaluate`, progression, odds and stake checks | |
| `BetRun_proofs`, `CashoutRun_proofs`, `WorkflowRuns_proofs`, `StakePolicy_proofs` | invariants and theorems about these four | each EXTENDS its specification, `TLAPS` |
| `InteractionRecognizer` | what the page's script makes of DOM events, as operators | |
| `TemporalSequencer` | hybrid logical clocks and the min-heap, as operators | |
| `MasterCapture` | frames and documents, rings, binding calls, acknowledgements, receive and flush | EXTENDS the two above; `Order == INSTANCE InOrderSequence WITH ...` |
| `InOrderSequence`, `InOrderSequence_proofs` | what sequencing promises (abstract), and what follows from it | |
| `MirrorQueue` | `QueueManager`: insertion, choice of the next, purges, as operators | |
| `SlaveMirror` | one slave: queue, drain, gate, watchdog, barrier, recovery, heals, convergence | EXTENDS `MirrorQueue`; `Mirror == INSTANCE InOrderMirror` |
| `InOrderMirror` | what mirroring promises of one slave (abstract) | |
| `SlaveMirror_proofs` | the queue's operations on queues of any length; invariants of `SlaveMirror`, and that it implements `InOrderMirror` | EXTENDS `SlaveMirror`, `TLAPS` |
| `MasterCapture_proofs` | the heap for any number of elements; invariants of `MasterCapture`, and that it implements `InOrderSequence` | EXTENDS `MasterCapture`, `TLAPS` |
| `MC...` | constants for TLC, one per specification | EXTENDS the specification |

`BetRun` and `CashoutRun` give the inside of what `RunOrchestrator` shows as the
steps of a holder and `WorkflowRuns` as the steps of a job. The join is
`Transaction`: a run that is *closed* (COMPLETED, ABORTED, FAILED; the lease is
released) has nothing undecided, and a run that lost track is *frozen* (UNCERTAIN;
the lease stays). `MasterCapture` and `SlaveMirror` join at the number: the event
`MasterCapture` sequences n-th is the one `SlaveMirror` issues as `ges = n`, and no
information flows back, so that any behaviour of the first is a possible
environment of the second (`Enqueue`, `Overflow`, `Miss`). A `MC` module has no
definition the specification depends on except the set of policies in
`MCStakePolicy` and the events a user makes in which frame in `MCMasterCapture`. Definitions called "Mutant of X"
are plausible bugs; none is used by a specification. Each shows that some property
would notice.

### How state and actions correspond to the code

- `RunOrchestrator.runs[a]` is `activeRuns.get(a)`; an account that is not in the
  Map holds `NoRun`. Runs are numbered in the order they start; a lease a run acquires
  carries its number, and a cycle id is the pair of the run's number and the cycle's
  index. On a *triggered* account (the master) every run begins with `TriggerRouter`'s
  `acquireOwnership` (`Acquire`). On the others `WorkflowEngine` works under whatever
  lease it finds, an UNCERTAIN one included (`Reuse`), and its end releases that lease
  (`Release`). `ledger` holds the last legible line of each run, which is all
  `getUnresolvedRuns` keeps. `pc` is where the holder (`BetCycle` → `AutomationRun` →
  `WorkflowEngine`) is. `inFlight` is history: submissions no run has reported an
  outcome of. It survives a crash, because the bookmaker does.
- `WorkflowRuns.Trigger` is one action, from the trigger to the start of all runs,
  because the code does not yield in between (`acquireOwnership`, the routing and
  the mapping to promises are synchronous up to the first await of each run).
  `Finish` is the code after a run's promise, up to the end of its `finally`.
  `Detached` marks the runs whose page is gone: every later call throws.
- `BetRun`: `at` is the place in `AutomationRun.start`/`BetCycle.execute`, and the
  actions are named after what happens there; `tracker` abstracts the log of
  `window.__cmsTracker` to what `observeResult` distinguishes.
- `CashoutRun`: `error` is what a catch block sees, with its `boundaryCrossed`;
  `Wrapped` is the rewrapping at the end of `ActionSimulator.execute`. `listed` and
  `simple` are what the page of open bets shows: a bet it does not list, or lists in
  the simple form, is never found by the test that infers a sale from its absence.
  `Resolved` is the script's search: an open confirmation, the named bet, or whichever
  listed bet the prefix, the recorded selector or the first button gives. `Stray` is a
  toast of an earlier transaction or of another's, which nothing clears.
- `StakePolicy`: amounts are whole coins, odds tenths, stakes before rounding exact
  ratios. The click that is checked is Place Bet, or Confirm if that screen is up;
  after Place Bet the script's observer presses Confirm at whatever odds the page shows
  by then (`ObserverConfirms`), so a bet has the odds of its click and those confirmed.
- `SlaveMirror`: `queue` has the code's four buckets; an entry is its number and its
  kind. `drain.at = "loop"` is the part of `_drain` between two awaits; everything
  else waits for it (`Quiet`), except time, which can expire an entry while the loop
  spins without a browser. `slave` is the model in the registry: *absent* when no
  model exists, a *ghost* when `getState` has made one for an id that was removed,
  *live* when it is registered with a page. The events up to number
  `aged` are past `ttlMs`. `heals[h]` is one call of `RecoveryManager.heal`; they overlap, because
  `CDPMutex` grants whatever it is asked for (`FLAG_ENABLE_CDP_MUTEX` is defined
  nowhere). `carried` has the wheels whose movement was added to a scroll that waited
  (`Carriers`), and the page is given them with that scroll. `Age` makes the oldest entry that
  is not expired expire. `FinishHeal` sets the counter to the master's `currentGes`, which no code
  increments: 0. `applied`, `given` and `open` are history.
- `MasterCapture`: the n-th DOM event of the user is the number n; an interaction
  carries the number of the last event that made it (`made`), the frame, the document
  and the clock. `wire[f]` holds the binding calls of one frame, which overtake no
  other of it. `ripe` is how many of the events received are older than `deltaMs`.
  Between `FlushStarts` and `FlushEnds` nothing is received: `_flush` does not yield.
  The recognizer and the heap are operators on records and sequences, translated from
  the code's state machine and array; loops are folds, so that no operator is
  recursive.

## 3. What TLC checks

| Run | Instance | What it shows |
|---|---|---|
| `orchestrator_live` | a triggered account and a slave's, 3 runs, 2 cycles, 1 crash | `OneUnreported`, `ThawedByItsRunOnly`, `LeasesEnd` |
| `orchestrator_wired` | the same, 2 runs | **violated** `RestartFreezes` |
| `workflows_unique` | 4 browsers on 2 accounts, 2 triggers, 1 fault | `AccountSingleFlight`, `LeasesAreBacked`, `MasterFreezeHolds`, `BusyEnds` |
| `workflows_frozen` | 3 browsers, 2 triggers, no fault | **violated** `FrozenIsLocked` |
| `bet_policy` | 2 rebets, 2 retries, 1 refused click | `BooksAgree`, `NeverMoreThanTarget`, `RevocationHolds`, `RunEnds`; implements `Transaction` (`KeepsPromise`) |
| `bet_refused` | same | **violated** `NoPhantomSuccess` |
| `cashout_sales` | 3 bets, any of them listed, 2 attempts, 1 refused command, 1 stray toast | `SalesAreSingle`, `CompletedIsSold`, `TransactionEnds` |
| `cashout_boundary` | 2 bets | **violated** `KeepsPromise` |
| `stake_rebets` | 512 policies, 3 balances, 4 odds, 3 rebets | `BaseIsBest`, `OvershootIsBounded`, `ProfitFloor` |
| `stake_limit` | same | **violated** `MaxStakeIsHard` |
| `mirror_order` | 3 events of 3 kinds, 2 navigations, 1 heal, a bucket of 1 | `NumbersKept`, `CounterWithinIssued`, `NothingGoesStale`, `OnlyFullIsStranded`, `QueueDrains`; implements `InOrderMirror` (`KeepsOrder`) |
| `capture_frames` | a frame inside the main one, 3 DOM events, 1 more document, rings of 2 | `Accounted`, `LateOnlyForOthers`, `ImmediateInOrder`, `RingIsUnderWay`, `OldestIsNumbered`; implements `InOrderSequence` (`SequencesInOrder`) |

Each of the passing runs also checks the type invariant of its module.

`MCMasterCapture` also has TLC evaluate two assumptions that check algorithms against
a definition of what they are for: `HeapSorts` (any four of eight stamps pushed into
the heap come back sorted, none lost, none made up) and `DragsAreWhole` (over all
sequences of up to four pointer events, the recognizer emits a drag exactly at the end
of a whole gesture).

### Five disagreements between the code and what it says

1. *Nothing writes the log.* `markProcessing` is called from nowhere in `src/`, so
   the log never holds a PROCESSING line, and a process that dies between a click
   and its outcome comes back with the account free. `OneUnreported` therefore speaks
   of one life of the process.
2. *An UNCERTAIN slave is not locked.* The engine makes it Ready, the next trigger
   picks it and uses the frozen lease it finds, and the end of that run releases it.
   `ThawedByItsRunOnly` says that this is the only way in one life of the process.
   A frozen **master** does hold (`MasterFreezeHolds`), because a trigger starts
   by acquiring its lease.
3. *A refused click is not noticed.* `BetCycle` ignores `false` from the simulator
   and reads the tracker of an earlier click. `BooksAgree` says how wrong the books
   can be: by one for each refusal, and never the other way round.
4. *`boundaryCrossed` is lost.* An error after a cashout's Confirm click comes out of
   the simulator without its mark and is retried. `SalesAreSingle` says how wrong
   this can go: one more sale for each such fault.
5. *MaxStake is not a hard limit.* The rebet increment is added after the engine has
   compared the stake with it. `OvershootIsBounded` says by how much a run can exceed it.

### What holds of mirroring, and what does not

The properties of `SlaveMirror` and `MasterCapture` are the strongest ones found that
the code has. Where they are weaker than one might expect, this is why:

- *Movement is given early.* A wheel is coalesced into the scroll that waits, even if a
  click with a number in between waits too, so that the page scrolls by the later
  movement before the earlier click. `InOrderMirror` says so: an event may become a part
  of an earlier one that has yet to be given. `KeepsOrder` promises that it then comes
  with that one, once, and that everything else keeps the master's order.
- *Order is kept by dropping.* A purge before a navigation appends its NOOPs behind
  entries with higher numbers and does not sort. The slave's counter then passes
  numbers early, and later events are thrown away as STALE. `CounterWithinIssued` and
  `NothingGoesStale` hold until the first purge that left the queue out of order
  (`shuffled`); `KeepsOrder` holds always.
- *A full queue can be stranded.* Overflow reports WORKER_BROKEN, which cancels the
  watchdog, and does not wake the drain. `OnlyFullIsStranded` says it is the only way.
- *A heal sets the counter to 0*, so what is queued afterwards waits for numbers that
  will never come, one watchdog timeout each, or until it expires (`QueueDrains`).
- *A watchdog outlives its entry* (expired, purged, cleared by a reload) and then
  skips a number nobody waits for. `CounterWithinIssued` says it is one that had been
  issued.
- *An expectation may be cleared by the timeout of its predecessor*: `handleTimeout`
  announces the divergence, on which a new navigation sets a new expectation, and
  deletes that one. `ConvergenceTimeout` models it. The Navigation handler of an
  expectation that is overwritten or deleted this way never returns; nothing of what is
  modelled waits for it.
- *A queued command's browser may be missing*: the drain looks at the entry again and
  again without an await until the time to live is over. `QueueDrains` rests on it.
- *A frame inside the main one falls silent* after as many events as its ring holds,
  because acknowledgements are evaluated in the main frame (`Ack`). `RingIsUnderWay`
  says that the main frame's ring has no such leak.
- *Older events can hold back younger ones* for as long as they keep coming: the flush
  looks at the oldest only. `OldestIsNumbered` says no more than that a heap that is not
  empty for good has its oldest event numbered, or replaced by an older one, again and
  again.
- *A text is numbered after the Enter or the click that submits it* if that follows
  within 500 ms. `ImmediateInOrder` says what the order of one document is worth:
  nothing but scrolling, hovers and texts may be overtaken.
- *Events of another document may come too late*: clocks are the pages' own.
  `LateOnlyForOthers` says no document makes its own events late.

### Bounds, and why they are enough

- Two accounts, one of each kind: the properties speak of one account at a time, and the
  second one is there for operations that search the whole table (`setActiveCycle` and
  `validateActiveCycle` look a lease up by run or cycle). Three runs: one that freezes
  its account, one that reuses the lease, and one on the other account or in the next
  life. Two cycles: the first and a rebet under the same lease. The theorems do without
  these bounds.
- Three slaves and two accounts put two browsers on each account. Two triggers: the
  second finds what the first left. One fault: nothing in the code counts faults
  across browsers. `Switched` is the two slaves that start denied because they share
  an account with a browser that starts authorized: the control plane may authorize
  and deny them at any time; `workflows_frozen` switches all browsers.
- Rebets and retries of two distinguish first, middle and last. Three open bets:
  two can be sold by mistake beside the one meant, in the two attempts
  `maxPreBoundaryRetries` allows. One stray toast: it decides one attempt. Any of the
  bets may be missing from the page, and all may be in the simple list.
- One slave: queues, counters, gates and expectations are per slave, and nothing one
  slave does reads another's. Three events put one in execution, one waiting and one
  missing; a click, a wheel movement and a hover are the three classes of insertion
  (`DiscreteLimit` 1 for 100: a click that waits for a missing number fills the bucket, so
  that the next overflows and strands the queue). `MaxGaps` 1 for 10, `ReloadAt`
  1 for 4 and `MaxTries` 1 for 2 reach each threshold in the first step past it; the
  code only compares these counters with their limits. The restart of the browser is
  one failure after the reload. Two navigations: a corrective one and the correction of
  the correction. One heal keeps the run under its time limit; overlapping
  heals are left to the theorems, which have any number of them.
- Three DOM events suffice for a hold-back (young, old, due), a late one and a text
  that is overtaken; clicks and scrolling in the main frame, texts in the inner one (a
  click after two wheels is two interactions of one event, each with its own reading of
  the clock). Rings of 2 for 128 fill. A clock of two
  readings stands still, advances and goes back. The recognizer's other events are
  covered by `DragsAreWhole`.
- The policies have amounts that are and are not multiples of the increment, and
  beyond balance and limits; the progression needs three rebets to be added twice.

### Assumptions

- A click the page took shows as submitting within the thirty seconds of
  `ResultTimeoutMs` (`SlowSubmission = FALSE`). Without it the retry of a "swallowed"
  click can bet twice; the code has no other evidence to go by.
- `CompletedIsSold` is about transactions whose named bet is in the detailed list and
  whose toasts are their own: otherwise the code has no evidence of the sale. All other
  cases are in the model, and `SalesAreSingle` and `TransactionEnds` hold in them.
- `ProfitFloor` is about odds that do not fall between the check and the observer's
  Confirm: the code does not compare them again.
- The log takes no torn line and no refused append: as the program is wired no line that
  matters is ever written.
- A page exposes the bindings before its user acts: interactions before that are dropped
  by the script (`ActionDispatcher.mjs:179`) and not modelled.
- Amounts are exact; the code computes with floating point.
- `AccountSingleFlight` is about histories without a fault: PAGE_RELOAD sets a Busy
  browser Ready, and the routing then believes its account free.
- A run's Busy slave is Ready in `SlaveMirror`; what a run does to the mirror is that
  an event may not be sent to it (`Miss`). Commands that were queued before are
  executed while it is Busy, as in the code.
- Events expire in the order of their capture (`aged` is a number): the code compares
  the time of capture, and events are numbered close to it.

### Fairness

Weak fairness only, and only for what is under way. Every await of a run has a
timeout (locators, the simulator's catch-all, `ResultTimeoutMs`, the script's
loops), so the holder of a lease (`Work(a)`), a job of a browser (`Step`) and a run's
`Program` go on when they can. Hydration is a read that ends. In `BetRun` the page
eventually shows that it submits what it has taken (`ShowProcessing`), which is the
`SlowSubmission` assumption as fairness. Nobody has to trigger, authorize, decide,
fail or heal: `LeasesEnd` and `RunEnds` do not depend on the bookmaker, and
`BusyEnds` does not depend on a heal.

In `SlaveMirror` the drain and the command it awaits go on (callbacks that are ready
run; the barrier, the simulator and the recovery have timeouts), time passes (`Age`)
and a timer that is set fires (`WatchdogFires`). Heals, reloads, convergence and the
master owe nothing. In `MasterCapture` the interval of the flush runs and time passes
(`Ripen`); no page need send or be acknowledged.

## 4. What is proved

For every value of the constants that the named `ASSUME`s of the modules allow (numbers
are natural, capacities positive, a page has finitely many frames), and under the
hypotheses in the third column.

| Module | Theorem | Statement | Argument |
|---|---|---|---|
| `RunOrchestrator_proofs` | `TypeCorrect` | `Spec => []TypeOK` | `TypeInv` adds that the log has no unresolved line and that a busy holder is in a process that is up and has a lease: its own or, on an account that is not triggered, an older one it reuses; one lemma for the process, one for the start of a run, one for the holder |
| | `FrozenStays` | `Spec => ThawedByItsRunOnly` | a holder changes the lease of its own account only; by `TypeInv` one that works under an UNCERTAIN lease began later than the run the lease is of, on an account that is not triggered; hydration finds nothing |
| | `Unreported` | `Spec => []OneUnreported` | `AccountedFor`: a submission of this life belongs to the run that is still there, in the very cycle that made it, or to one that is over, which on a triggered account left the lease frozen |
| `BetRun_proofs` | `TypeCorrect`, `Revoked` | `[]TypeOK`, `[]RevocationHolds` | `RevokedInv`: past the gate and no longer authorized, no click of this revocation has been made |
| | `Books`, `Targeted` | with `~SlowSubmission`: `[]BooksAgree`, `[]NeverMoreThanTarget` | `BooksInv` says at each place of the run what is undecided and what is yet to be counted: nothing before a click (`Settled`), one bet between the success and its counting (`Won`), at most one while it is observed (`Observed`) |
| | `Implements` | with `~SlowSubmission`: `Spec => KeepsPromise` | under `BooksInv` each action is a step of `Transaction` or a stutter: a run that closes has nothing pending |
| `CashoutRun_proofs` | `TypeCorrect` | `[]TypeOK` | `TypeInv` bounds attempts and faults by the place in the transaction |
| | `Single` | `[]SalesAreSingle` | `SalesInv` counts what was confirmed and not refused (`Submitted`) against the faults and stray toasts so far: one more while an attempt is under way, no more than those where another may begin |
| | `Sold` | `[]CompletedIsSold` | `SoldInv`: a bet that was on the detailed list and has left it is sold, and without strays a success on the screen is a sale |
| `WorkflowRuns_proofs` | `TypeCorrect`, `Frozen` | `[]TypeOK`, `MasterFreezeHolds` | `MasterInv`: a run on the master is the only one there and has its lease, so a frozen master has no run and every trigger is refused |
| | `Alone`, `Backed` | with `OneRunPerAccount` (no mode but UNIQUE_ACCOUNTS_ONLY and MASTER_ONLY): `[]AccountSingleFlight`, `[]LeasesAreBacked` | `QuietInv`: before the first fault, Busy browsers are exactly those with a run and no two runs share an account; a lemma says whom a trigger may choose then |
| `StakePolicy_proofs` | `TypeCorrect`, `Best`, `Bounded`, `Floor` | `[]TypeOK`, `[]BaseIsBest`, `[]OvershootIsBounded`, `[]ProfitFloor` | `DecidedInv`: what is typed and what was placed is the engine's decision plus the progression at the odds of the click, whatever was confirmed; the rest is arithmetic about rounding a ratio to a multiple |
| `SlaveMirror_proofs` | `TypeCorrect`, `NothingLostOrRepeated` | `[]TypeOK`, `[]NumbersKept` | `TypeInv`, `NumbersInv`: each number of an open event is in the queue once or with the command in flight, in a queue whose buckets share no number (`QueueOK`) |
| | `CounterStaysBehind`, `NoneIsStale` | `[]CounterWithinIssued`, `[]NothingGoesStale` | `CounterInv`: as long as no filler is out of place, the counter with the skip an armed watchdog owes is behind every open number, and a numbered command in flight is before all that waits |
| | `OnlyFullQueuesStrand` | `[]OnlyFullIsStranded` | inductive with the types: whatever puts the drain to sleep leaves a timer or a full bucket |
| | `MirrorsInOrder` | `Spec => KeepsOrder`, the refinement of `InOrderMirror` | `OrderInv`: what the page was given last is before everything that may still be given to it; `RideInv`: what was coalesced rides with one earlier entry and waits no more itself, and is given only after that one |
| | `GivenOnce`, `GivenInOrder` | `Mirror!NothingTwice`, `Mirror!NeverBack` | from `OrderInv`, `RideInv` and the types |
| `MasterCapture_proofs` | `TypeCorrect` | `[]TypeOK` | `TypeInv` and `CountInv`: each interaction, emitted or still to come from a timer, has a DOM event of its own, which bounds ids and clocks |
| | `AccountedFor` | `[]Accounted` | `PlacesInv`: the ids up to `emitted` are divided among the places, each once, and a turn of the heap is a permutation |
| | `NumberedInOrder`, `OnlyOthersMakeLate` | `[]ImmediateInOrder`, `[]LateOnlyForOthers` | `Behind`, `DocumentsInOrder`, `WiresInOrder`: of one document, clocks follow ids, a wire keeps its frame's order, and what came out of it was emitted before what is on it; `HeapInv`: nothing that waits is before what has been numbered |
| | `RingComesFree` | `[]RingIsUnderWay` | `RingSound`: what is unacknowledged in the main frame's ring is on its wire or on its way back, in the ring's order, so that each acknowledgement frees the oldest |
| | `ImplementsSequence` | `Spec => SequencesInOrder`, the refinement of `InOrderSequence` | by `HeapInv` the root is the oldest that waits (`RootIsOldest`) |
| | `SequencedInOrder`, `SequencedOnce` | `[]Order!CausalOrder`, `[]Order!OneNumberEach` | from `HeapInv` and `PlacesInv` |
| `InOrderSequence_proofs` | `SequencedInOrder`, `SequencedOnce` | the abstract `[]CausalOrder` (with `EventsAreStamped`), `[]OneNumberEach` | `OrderInv` adds that nothing that waits is older than the last one numbered; `OnceInv` that waiting and numbered events are disjoint and were taken |

None of the properties is inductive as it stands. `OneUnreported` speaks of `inFlight`
only, and what protects it is the place of the holder and, on a triggered account, the
table. `BooksAgree` speaks of two counters, and what keeps them together is the place
in the run. `SalesAreSingle` needs the count of faults at each place; and
`AccountSingleFlight` needs the registry, because that is where the routing looks. Each
invariant is preserved by each action in a lemma of its own, or in a case of one.
`KeepsOrder` depends on all of the queue, because a purge may move what waits behind
what is behind it; `ImmediateInOrder` depends on the whole way of an event, from the
clock of its page over its wire and the heap.

`SlaveMirror` and `MasterCapture` sort, select and sift sequences, and what a fold or a
recursive operator makes of every input would need an induction over data, which the
prover cannot instantiate. The models state these operations so that no such induction
is needed. `Arranged` and `Picked` of `MirrorQueue` enumerate positions by counting those
that come before (`OrderIsAnEnumeration`: a bijection between a linearly ordered finite
set and `1..N`). `Climbing` and `Sinking` of `TemporalSequencer` are functions of the
number of the turn; `Up` and `Down` say what holds after each turn, and `SetInduction`
carries it through all of them, from the fact that a set of numbers has a least one
(`LeastNumber`). `Sent` of `MasterCapture` is applied once or twice (`AllSent`), and
`Outputs` shows that the recognizer never hands over more than two interactions.

The hypotheses are the assumptions of section 3. `Books` needs clicks that show within the timeout. `Alone` needs the modes that
choose one browser per account; with ALL or SLAVES_ONLY two browsers of one account are
chosen on purpose.

Only model-checked: liveness (`LeasesEnd`, `BusyEnds`, `RunEnds`, `TransactionEnds`,
`QueueDrains`, `OldestIsNumbered`), because fairness is out of the prover's reach;
the assumptions `HeapSorts` and `DragsAreWhole` of `MCMasterCapture`, which TLC evaluates
for the operators on bounded inputs; and the findings, which are counterexamples. Every
safety property, action property and refinement of a passing run is a theorem.

## 5. Not modelled

`PROJECT.json` lists every part with its reason. In short:

- page I/O (sessions, locators, macros) and the adapter, by their outcomes only;
- geometry and encodings (capability providers, spatial addressing, SanRa), observation
  (RKP, telemetry, pricing), process start, real time: nondeterministic timeouts and
  refusals;
- of the capture: recording (`recordAction`, `scheduleSave`), navigation inside a page's
  own script, popups, overlays, coordinates and targets;
- parts that have no effect: `AccountLockManager` (no live caller),
  `ReconciliationDaemon` (its map is never filled), `CashoutWorkflow` (never started),
  back-pressure (`setBackpressure` has no caller), worker failover (no source),
  `TemporalSequencer.stop`, and the parking of capability updates under `CDPMutex`, whose
  flag is defined nowhere.

Of the 72 thousand lines the repository counts as implementation, more than half are
generated or vendored bundles of Playwright's injected script
(`src/playwright-injected/generated`), which are not this program's logic; locators,
macros, providers, telemetry and tooling make up most of the rest. The map covers the
control of the execution process, and its share of all lines stays small for that
reason.

## 6. Plan

Done: `RunLeases` and `RunOrchestrator`; `WorkflowRuns`; `Transaction`, `BetRun` and
`CashoutRun`; `StakePolicy`; `MirrorQueue`, `SlaveMirror` and `InOrderMirror`;
`InteractionRecognizer`, `TemporalSequencer`, `MasterCapture` and `InOrderSequence`; the
proofs of section 4.

Left, in order of what it would add:

1. The capability graph (`SynchronizationCoordinator`, `CapabilityRegistry`) with its
   dependencies, for the day the mutex is switched on: a parked update is applied or
   superseded, a dependent capability is never ready on a lost one.
2. `InOrderMirror` composed with `InOrderSequence`: a slave's page against the clocks of
   the master's page.
3. The runtime knowledge platform's write-ahead log, if it comes to decide anything.
