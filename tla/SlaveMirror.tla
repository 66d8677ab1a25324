----------------------------- MODULE SlaveMirror -----------------------------
(***************************************************************************)
(* One slave that mirrors the master: the events TemporalSequencer numbers *)
(* are queued for it (MirrorQueue) and drained by ExecutionScheduler, one  *)
(* at a time, in the order SequenceGate allows against the slave's own     *)
(* counter in the registry. Around the drain: the barrier with its         *)
(* escalating recovery, heals that unregister and respawn the browser, and *)
(* corrective navigations with their convergence (ConvergenceEngine).      *)
(*                                                                         *)
(* The process runs one callback at a time. From its wake-up to its next   *)
(* await the drain is such a callback: at = "loop". Nothing but the drain  *)
(* moves then, and time. CDPMutex grants every lock (its feature flag is   *)
(* defined nowhere), so heals of one browser overlap freely.               *)
(***************************************************************************)
EXTENDS MirrorQueue

CONSTANTS
    Kinds,        \* kinds of events the master's page reports
    MaxGaps,      \* consecutive skips the registry tolerates (10)
    MaxTries,     \* recoveries of one barrier wait (2)
    ReloadAt,     \* the failure in a row that reloads the page (4)
    MaxEvents,    \* bound: events the master makes
    MaxNavs,      \* bound: corrective navigations
    MaxHeals      \* bound: heals started

ASSUME KindsAssumption ==
    Kinds \subseteq {"click", "input", "wheel", "scroll", "hover", "noop"}
ASSUME EscalationAssumption == ReloadAt \in Nat \ {0}
ASSUME BoundAssumption ==
    {MaxGaps, MaxTries, MaxEvents, MaxNavs, MaxHeals} \subseteq Nat

VARIABLES
    issued,     \* TemporalSequencer.currentGES
    aged,       \* entries up to this number are past their time to live
    slave,      \* the slave's BrowserStateModel
    queue,
    drain,      \* _drain: where it is, the command it awaits, recoveries tried
    armed,      \* is the sequence watchdog running?
    heals,      \* the heals: phase, and did it know the browser's account?
    navs,       \* corrective navigations issued
    expecting,  \* does ConvergenceEngine expect the slave to converge?
    applied,    \* history: the number of the last command the page was given
    given,      \* history: the events it was given, whatever command had them
    carried,    \* <<g, n>>: the command of event g has the movement of n, too
    open,       \* history: events queued or executing, none of them settled
    shuffled    \* history: has a navigation left the queue out of order?

mirror      == <<issued, aged, applied, given, carried, open>>
convergence == <<navs, expecting>>
vars == <<mirror, slave, queue, drain, armed, heals, convergence, shuffled>>

Numbers(q) == {e.ges : e \in Entries(q)}

(* Out stands for Initializing, Error and Recovering. Busy, the state of a *)
(* slave on which a run executes, is Ready here: it only makes Miss happen.*)
Absent == [model |-> "absent", state |-> "Out", crashed |-> FALSE,
           ges |-> 0, gaps |-> 0, attempts |-> 0]

Commands == [ges : Nat, kind : Kinds \union {"navigate", "noop"}]

Idle == [at |-> "idle", cmd |-> Navigation, tries |-> 0]

TypeOK ==
    /\ issued \in 0..MaxEvents /\ aged \in 0..issued
    /\ slave \in [model : {"absent", "ghost", "live"},
                  state : {"Out", "Ready"},
                  crashed : BOOLEAN, ges : Nat, gaps : 0..MaxGaps,
                  attempts : 0..(ReloadAt + 1)]
    /\ \A b \in Buckets : queue[b] \in Seq(Commands)
    /\ \A b \in {"Aggregated", "Continuous"} : Len(queue[b]) <= 1
    /\ ~\E e \in Entries(queue) : e.ges > issued
    /\ Cardinality({i \in DOMAIN queue.Discrete :
                        queue.Discrete[i].kind # "noop"}) <= DiscreteLimit
    /\ drain \in [at : {"idle", "loop", "barrier", "execute"},
                  cmd : Commands, tries : 0..MaxTries]
    /\ armed \in BOOLEAN /\ shuffled \in BOOLEAN
    /\ heals \in [1..MaxHeals ->
                    [phase : {"unused", "closing", "spawning", "login",
                              "verify", "over"}, known : BOOLEAN]]
    /\ navs \in 0..MaxNavs /\ expecting \in BOOLEAN
    /\ applied \in 0..issued
    /\ given \subseteq 1..issued /\ open \subseteq 1..issued
    /\ carried \subseteq (1..issued) \X (1..issued)

Init ==
    /\ issued = 0 /\ aged = 0 /\ applied = 0
    /\ given = {} /\ carried = {} /\ open = {}
    /\ slave = [Absent EXCEPT !.model = "live", !.state = "Ready"]
    /\ queue = EmptyQueue /\ drain = Idle /\ armed = FALSE
    /\ heals = [h \in 1..MaxHeals |-> [phase |-> "unused", known |-> FALSE]]
    /\ navs = 0 /\ expecting = FALSE /\ shuffled = FALSE

-----------------------------------------------------------------------------
(* The registry. getState makes a model for an id it does not know: the    *)
(* counter of a removed browser comes back as a ghost, without a page.     *)
Touched(s) == IF s.model = "absent" THEN [s EXCEPT !.model = "ghost"] ELSE s

(* incrementSlaveGes, after a success and for a skipped number.            *)
Counted(s) == [Touched(s) EXCEPT !.ges = @ + 1, !.gaps = 0]

Skipped(s) ==
    [Touched(s) EXCEPT !.ges = @ + 1,
                       !.gaps = IF @ = MaxGaps THEN 0 ELSE @ + 1]

(* One skip too many: WORKER_BROKEN, on which the gate drops its watchdog. *)
Broken(s) == s.gaps = MaxGaps

(* A navigation has no number, and skips none.                             *)
SkippedIfNumbered(s, cmd) == IF cmd.ges = 0 THEN s ELSE Skipped(s)

ArmedAfterSkip(s, cmd) == armed /\ ~(cmd.ges # 0 /\ Broken(s))

Quiet == drain.at # "loop"

Woken == IF drain.at = "idle" THEN [drain EXCEPT !.at = "loop"] ELSE drain

-----------------------------------------------------------------------------
(* The master's side.                                                      *)

(* The slave is not sent the event: it is not Ready, a run keeps it Busy,  *)
(* or the command does not pass the ingress schema. The number is missing. *)
Miss ==
    /\ Quiet /\ issued < MaxEvents
    /\ issued' = issued + 1
    /\ UNCHANGED <<aged, applied, given, carried, open, slave, queue, drain, armed, heals,
                   convergence, shuffled>>

Routed == slave.model = "live" /\ slave.state = "Ready"

(* The bucket is full: the event is lost, and WORKER_BROKEN stops the      *)
(* watchdog. The drain is not woken.                                       *)
Overflow(kind) ==
    /\ Quiet /\ issued < MaxEvents /\ Routed
    /\ Class(kind) = "Discrete" /\ Full(queue)
    /\ issued' = issued + 1
    /\ armed' = FALSE
    /\ UNCHANGED <<aged, applied, given, carried, open, slave, queue, drain, heals,
                   convergence, shuffled>>

Enqueue(kind) ==
    LET e == [ges |-> issued + 1, kind |-> kind]
    IN  /\ Quiet /\ issued < MaxEvents /\ Routed
        /\ ~(Class(kind) = "Discrete" /\ Full(queue))
        /\ issued' = e.ges
        /\ queue' = Insert(queue, e)
        /\ carried' = carried \union (Carriers(queue, e) \X {e.ges})
        /\ open' = open \union {e.ges}
        /\ drain' = Woken
        /\ UNCHANGED <<aged, applied, given, slave, armed, heals, convergence, shuffled>>

(* The master has stopped scrolling: scrolls that wait are dropped.        *)
ScrollConverges ==
    /\ Quiet /\ Routed
    /\ queue.Aggregated # <<>>
    /\ queue' = PurgeAggregated(queue)
    /\ UNCHANGED <<mirror, slave, drain, armed, heals, convergence, shuffled>>

(* Time passes: the oldest entry that is not yet past its time to live is. *)
Age ==
    LET fresh == {n \in Numbers(queue) : n > aged}
    IN  /\ fresh # {}
        /\ aged' = Min(fresh)
        /\ UNCHANGED <<issued, applied, given, carried, open, slave, queue, drain,
                       armed, heals, convergence, shuffled>>

-----------------------------------------------------------------------------
(* ExecutionScheduler._drain.                                              *)

Looping == drain.at = "loop" /\ ~IsEmpty(queue)

Back == [drain EXCEPT !.at = "loop", !.cmd = Navigation, !.tries = 0]

Awaiting(cmd) == [at |-> "barrier", cmd |-> cmd, tries |-> 0]

(* A navigation was made at a time of its own.                             *)
MayBeExpired(e) == e.ges <= aged
MayBeFresh(e)   == e.ges = 0 \/ e.ges > aged

DrainEnds ==
    /\ drain.at = "loop" /\ IsEmpty(queue)
    /\ drain' = Idle
    /\ UNCHANGED <<mirror, slave, queue, armed, heals, convergence, shuffled>>

(* Mutant of Expire: it asks for the browser first.                        *)
ExpireIfLive ==
    /\ Looping /\ slave.model = "live" /\ MayBeExpired(NextEntry(queue))
    /\ queue' = Dequeue(queue)
    /\ open' = open \ {NextEntry(queue).ges}
    /\ slave' = SkippedIfNumbered(slave, NextEntry(queue))
    /\ armed' = ArmedAfterSkip(slave, NextEntry(queue))
    /\ UNCHANGED <<issued, aged, applied, given, carried, drain, heals, convergence, shuffled>>

(* The time to live is looked at before the browser and the gate are.      *)
Expire ==
    /\ Looping /\ MayBeExpired(NextEntry(queue))
    /\ queue' = Dequeue(queue)
    /\ open' = open \ {NextEntry(queue).ges}
    /\ slave' = SkippedIfNumbered(slave, NextEntry(queue))
    /\ armed' = ArmedAfterSkip(slave, NextEntry(queue))
    /\ UNCHANGED <<issued, aged, applied, given, carried, drain, heals, convergence, shuffled>>

(* Without a live browser the loop looks at the same entry again, without  *)
(* an await, until the entry expires.                                      *)
Dispatchable == Looping /\ MayBeFresh(NextEntry(queue)) /\ slave.model = "live"

StartNavigation ==
    /\ Dispatchable /\ NextEntry(queue) = Navigation
    /\ queue' = Dequeue(PurgeForNavigation(queue))
    /\ shuffled' = (shuffled \/ ~InOrder(queue'))
    /\ drain' = Awaiting(Navigation)
    /\ UNCHANGED <<mirror, slave, armed, heals, convergence>>

Numbered == Dispatchable /\ NextEntry(queue).ges # 0

(* SequenceGate.evaluate against the slave's counter.                      *)
RejectStale ==
    /\ Numbered /\ NextEntry(queue).ges <= slave.ges
    /\ queue' = Dequeue(queue)
    /\ open' = open \ {NextEntry(queue).ges}
    /\ UNCHANGED <<issued, aged, applied, given, carried, slave, drain, armed, heals,
                   convergence, shuffled>>

(* Mutant of AwaitPredecessor: the next event is relied upon.              *)
AwaitPredecessorUnwatched ==
    /\ Numbered /\ NextEntry(queue).ges > slave.ges + 1
    /\ drain' = Idle
    /\ UNCHANGED <<mirror, slave, queue, armed, heals, convergence, shuffled>>

AwaitPredecessor ==
    /\ Numbered /\ NextEntry(queue).ges > slave.ges + 1
    /\ armed' = TRUE
    /\ drain' = Idle
    /\ UNCHANGED <<mirror, slave, queue, heals, convergence, shuffled>>

Aligned == Numbered /\ NextEntry(queue).ges = slave.ges + 1

PassFiller ==
    /\ Aligned /\ NextEntry(queue).kind = "noop"
    /\ armed' = FALSE
    /\ queue' = Dequeue(queue)
    /\ open' = open \ {NextEntry(queue).ges}
    /\ slave' = Counted(slave)
    /\ UNCHANGED <<issued, aged, applied, given, carried, drain, heals, convergence, shuffled>>

Start ==
    /\ Aligned /\ NextEntry(queue).kind # "noop"
    /\ armed' = FALSE
    /\ queue' = Dequeue(queue)
    /\ drain' = Awaiting(NextEntry(queue))
    /\ UNCHANGED <<mirror, slave, heals, convergence, shuffled>>

(* Mutant of WatchdogFires: an interval, not a timeout.                    *)
WatchdogRepeats ==
    /\ Quiet /\ armed
    /\ slave' = Skipped(slave)
    /\ drain' = Woken
    /\ UNCHANGED <<mirror, queue, armed, heals, convergence, shuffled>>

(* SequenceGate's timeout: one missing number is given up. It may fire     *)
(* after its entry has expired, was purged, or was cleared.                *)
WatchdogFires ==
    /\ Quiet /\ armed
    /\ armed' = FALSE
    /\ slave' = Skipped(slave)
    /\ drain' = Woken
    /\ UNCHANGED <<mirror, queue, heals, convergence, shuffled>>

-----------------------------------------------------------------------------
(* SynchronizationBarrier.wait, RecoveryCoordinator, ActionSimulator.      *)

Settled == open' = open \ {drain.cmd.ges}

SkipCommand(s) ==
    /\ slave' = SkippedIfNumbered(s, drain.cmd)
    /\ armed' = ArmedAfterSkip(s, drain.cmd)
    /\ drain' = Back

(* The events whose movements the command of event g has.                  *)
Having(g) == {g} \union {n \in 1..issued : <<g, n>> \in carried}

(* The page is given the command; what the simulator makes of it is known  *)
(* later.                                                                  *)
PassBarrier ==
    /\ drain.at = "barrier"
    /\ slave' = [Touched(slave) EXCEPT !.attempts = 0]
    /\ drain' = [drain EXCEPT !.at = "execute"]
    /\ IF drain.cmd = Navigation THEN UNCHANGED <<applied, given>>
       ELSE applied' = drain.cmd.ges /\ given' = given \union Having(drain.cmd.ges)
    /\ UNCHANGED <<issued, aged, carried, open, queue, armed, heals, convergence, shuffled>>

(* Timeout, recoveries used up, consistency too low.                       *)
FailBarrier ==
    /\ drain.at = "barrier"
    /\ SkipCommand(Touched(slave))
    /\ Settled
    /\ UNCHANGED <<issued, aged, applied, given, carried, queue, heals, convergence, shuffled>>

(* heal: it forgets a browser it does not find; of a ghost it learns no    *)
(* account. Heals that find no unused h are beyond the bound.              *)
StartHeal(s) ==
    LET unused == {h \in 1..MaxHeals : heals[h].phase = "unused"}
    IN  IF s.model = "absent" \/ unused = {} THEN UNCHANGED heals
        ELSE heals' = [heals EXCEPT ![Min(unused)] =
                           [phase |-> "closing", known |-> s.model = "live"]]

(* RecoveryCoordinator.recover. All attempts beyond a reload are alike.    *)
Escalated(s) == [Touched(s) EXCEPT !.attempts = Min({@ + 1, ReloadAt + 1})]

Strategy(attempts, scroll) ==
    IF scroll \/ attempts < ReloadAt
    THEN "INVALIDATE"   \* SOFT_RESET, HARD_RESET, DEPENDENCY_CASCADE
    ELSE IF attempts = ReloadAt THEN "PAGE_RELOAD" ELSE "BROWSER_RESTART"

(* RecoveryActionExecutor, the handlers of what it emits, and the end of   *)
(* the command. A reload ends in the same step: its page is Ready, unless  *)
(* it failed.                                                              *)
CarryOut(strategy, s) ==
    LET reload == strategy = "PAGE_RELOAD" /\ s.model = "live"
        clears == reload \/ strategy = "BROWSER_RESTART"
    IN  /\ queue' = IF clears THEN EmptyQueue ELSE queue
        /\ open' = open \ ({drain.cmd.ges} \union
                               IF clears THEN Numbers(queue) ELSE {})
        /\ IF strategy = "BROWSER_RESTART" THEN StartHeal(s)
                                           ELSE UNCHANGED heals
        /\ \E t \in {s} \union (IF reload THEN {[s EXCEPT !.state = "Ready"]}
                                         ELSE {}) : SkipCommand(t)

(* The barrier's own recoveries: it waits again after the light ones.      *)
RetryBarrier(scroll) ==
    /\ drain.at = "barrier" /\ drain.tries < MaxTries
    /\ Strategy(Escalated(slave).attempts, scroll) = "INVALIDATE"
    /\ slave' = Escalated(slave)
    /\ drain' = [drain EXCEPT !.tries = @ + 1]
    /\ UNCHANGED <<mirror, queue, armed, heals, convergence, shuffled>>

ResetAtBarrier ==
    /\ drain.at = "barrier" /\ drain.tries < MaxTries
    /\ Escalated(slave).attempts >= ReloadAt
    /\ CarryOut(Strategy(Escalated(slave).attempts, FALSE), Escalated(slave))
    /\ UNCHANGED <<issued, aged, applied, given, carried, convergence, shuffled>>

(* The wait or the execution throws: the catch recovers for any reason     *)
(* but a scroll.                                                           *)
Throw ==
    /\ drain.at \in {"barrier", "execute"}
    /\ CarryOut(Strategy(Escalated(slave).attempts, FALSE), Escalated(slave))
    /\ UNCHANGED <<issued, aged, applied, given, carried, convergence, shuffled>>

Succeed ==
    /\ drain.at = "execute"
    /\ slave' = IF drain.cmd = Navigation THEN slave ELSE Counted(slave)
    /\ drain' = Back
    /\ Settled
    /\ UNCHANGED <<issued, aged, applied, given, carried, queue, armed, heals, convergence,
                   shuffled>>

(* simulator.execute returns false.                                        *)
Refuse ==
    /\ drain.at = "execute"
    /\ SkipCommand(slave)
    /\ Settled
    /\ UNCHANGED <<issued, aged, applied, given, carried, queue, heals, convergence, shuffled>>

-----------------------------------------------------------------------------
(* The browser dies. BrowserStateModel does not let a Ready slave become   *)
(* Error, a Busy one it does: until the crash is detected, events are      *)
(* queued for the dead slave and handed to its page.                       *)

Crash ==
    /\ Quiet /\ slave.model = "live" /\ ~slave.crashed
    /\ \E state \in {slave.state, "Out"} :
           slave' = [slave EXCEPT !.crashed = TRUE, !.state = state]
    /\ UNCHANGED <<mirror, queue, drain, armed, heals, convergence, shuffled>>

Clear == queue' = EmptyQueue /\ open' = open \ Numbers(queue)

(* HealthMonitor.checkBrowserHealth and the handler of HEAL_REQUESTED.     *)
DetectCrash ==
    /\ Quiet /\ slave.model = "live" /\ slave.crashed
    /\ slave' = [slave EXCEPT !.state = "Out"]
    /\ Clear
    /\ StartHeal(slave)
    /\ UNCHANGED <<issued, aged, applied, given, carried, drain, armed, convergence, shuffled>>

-----------------------------------------------------------------------------
(* RecoveryManager.heal, its h-th call.                                    *)

Heal(h, from, to) ==
    /\ Quiet /\ heals[h].phase = from
    /\ heals' = [heals EXCEPT ![h].phase = to]
    /\ UNCHANGED <<issued, aged, applied, given, carried, armed, shuffled>>

Unregister(h) ==
    /\ Heal(h, "closing", "spawning")
    /\ slave' = Absent
    /\ UNCHANGED <<open, queue, drain, convergence>>

(* register keeps the model it finds: the counter of a ghost, the crash    *)
(* mark another heal's browser left.                                       *)
Respawn(h) ==
    /\ Heal(h, "spawning", "login")
    /\ slave' = [slave EXCEPT !.model = "live", !.state = "Out"]
    /\ UNCHANGED <<open, queue, drain, convergence>>

LogIn(h) ==
    /\ Heal(h, "login", "verify")
    /\ heals[h].known /\ slave.model = "live"
    /\ slave' = [slave EXCEPT !.state = "Ready"]
    /\ UNCHANGED <<open, queue, drain, convergence>>

(* The healed slave is sent where the master is. Its counter is rebased to *)
(* the master's, which nothing in the program ever increments.             *)
MasterGes == 0

FinishHeal(h) ==
    /\ Heal(h, "verify", "over")
    /\ slave.model = "live" /\ navs < MaxNavs
    /\ slave' = [slave EXCEPT !.ges = MasterGes]
    /\ navs' = navs + 1
    /\ expecting' = TRUE
    /\ queue' = Insert(queue, Navigation)
    /\ drain' = Woken
    /\ UNCHANGED open

(* A failed attempt unregisters whatever is there; the last one gives up.  *)
FailAttempt(h) ==
    /\ \E from \in {"spawning", "login", "verify"} : Heal(h, from, "spawning")
    /\ slave' = Absent
    /\ UNCHANGED <<open, queue, drain, convergence>>

GiveUp(h) ==
    /\ \E from \in {"spawning", "login", "verify"} : Heal(h, from, "over")
    /\ slave' = Absent
    /\ Clear
    /\ UNCHANGED <<drain, convergence>>

-----------------------------------------------------------------------------
(* ConvergenceEngine, with the handler of Navigation commands. A new       *)
(* expectation of the slave takes the place of the one there is.           *)

Converge ==
    /\ Quiet /\ expecting
    /\ expecting' = FALSE
    /\ UNCHANGED <<mirror, slave, queue, drain, armed, heals, navs, shuffled>>

(* The controller sends a diverged slave there again, if it is registered. *)
Correctable == slave.model # "absent" /\ navs < MaxNavs

Correct ==
    IF Correctable
    THEN navs' = navs + 1 /\ queue' = Insert(queue, Navigation) /\ drain' = Woken
    ELSE UNCHANGED <<navs, queue, drain>>

ObserveDivergence ==
    /\ Quiet /\ expecting
    /\ Correct
    /\ expecting' = Correctable
    /\ UNCHANGED <<mirror, slave, armed, heals, shuffled>>

(* handleTimeout clears what is expected after it has announced the        *)
(* divergence: the expectation of the new navigation.                      *)
ConvergenceTimeout ==
    /\ Quiet /\ expecting
    /\ Correct
    /\ expecting' = FALSE
    /\ UNCHANGED <<mirror, slave, armed, heals, shuffled>>

-----------------------------------------------------------------------------
DrainStep ==
    \/ DrainEnds \/ Expire \/ StartNavigation \/ RejectStale
    \/ AwaitPredecessor \/ PassFiller \/ Start

CommandStep ==
    \/ PassBarrier \/ FailBarrier \/ ResetAtBarrier \/ Throw
    \/ \E scroll \in BOOLEAN : RetryBarrier(scroll)
    \/ Succeed \/ Refuse

MasterStep ==
    \/ Miss \/ ScrollConverges
    \/ \E kind \in Kinds : Overflow(kind) \/ Enqueue(kind)

HealStep(h) ==
    \/ Unregister(h) \/ Respawn(h) \/ LogIn(h)
    \/ FinishHeal(h) \/ FailAttempt(h) \/ GiveUp(h)

ConvergenceStep == Converge \/ ObserveDivergence \/ ConvergenceTimeout

Next ==
    \/ MasterStep \/ Age \/ DrainStep \/ CommandStep \/ WatchdogFires
    \/ Crash \/ DetectCrash
    \/ \E h \in 1..MaxHeals : HealStep(h)
    \/ ConvergenceStep

(* The event loop runs what is ready, time passes, every wait of a command *)
(* has a timeout. Heals, reloads and convergence may take for ever, and    *)
(* the master owes no event.                                               *)
Fairness ==
    WF_vars(DrainStep \/ CommandStep) /\ WF_vars(Age) /\ WF_vars(WatchdogFires)

Spec == Init /\ [][Next]_vars /\ Fairness

-----------------------------------------------------------------------------
(* An event taken for the slave is in the queue, as itself or as the NOOP  *)
(* that replaced it, or executing, until it is settled; and it is there    *)
(* once. Coalescing, overwriting and both purges lose and repeat nothing.  *)
InFlight ==
    IF drain.at \in {"barrier", "execute"} THEN {drain.cmd.ges} \ {0} ELSE {}

Length(q) == Len(q.Discrete) + Len(q.Aggregated) + Len(q.Continuous)

NumbersKept ==
    /\ open = (Numbers(queue) \ {0}) \union InFlight
    /\ Cardinality(open) = Length(queue) + Cardinality(InFlight)

(* Until a navigation leaves the queue out of order, the slave's counter,  *)
(* everything it has yet to pass and the skip the watchdog may still make  *)
(* never exceed the events there are: no event to come can be stale.       *)
CounterWithinIssued ==
    ~shuffled =>
        slave.ges + Cardinality(open) + (IF armed THEN 1 ELSE 0) <= issued

(* ... and none that waits is: the gate never throws away a queued event   *)
(* (ExecutionScheduler, STALE) because the counter went past it.           *)
NothingGoesStale ==
    ~shuffled => \A e \in Entries(queue) : e.ges # 0 => e.ges > slave.ges

(* A queue that holds events and nobody to look at it again, neither a     *)
(* drain nor the watchdog, is one that overflowed. Every other way to put  *)
(* the drain to sleep, or to stop the watchdog, leaves one of the two.     *)
Stranded == drain.at = "idle" /\ ~armed /\ ~IsEmpty(queue)

OnlyFullIsStranded == Stranded => Full(queue)

(* Whatever gaps, purges, reloads and heals, with the counter set back to  *)
(* 0 and to a ghost's, the page is given each event at most once and in    *)
(* the master's order; but for the wheel movements that were added to the  *)
(* command of an earlier one, which come with it, before whatever the      *)
(* master did in between.                                                  *)
Mirror == INSTANCE InOrderMirror

KeepsOrder == Mirror!Spec

(* A queue is emptied, by execution, expiry or recovery, unless it is      *)
(* stranded full: no gap, missing browser or recovery stops it for good.   *)
QueueDrains ==
    ~IsEmpty(queue) ~> (IsEmpty(queue) \/ (Stranded /\ Full(queue)))
=============================================================================
