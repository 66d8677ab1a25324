---------------------------- MODULE MasterCapture ----------------------------
(***************************************************************************)
(* From the master's frames to the global sequence: each frame's script    *)
(* recognizes interactions, stamps them with a hybrid logical clock, keeps *)
(* them in a ring until they are acknowledged and sends them to the        *)
(* process (ActionDispatcher), where TemporalSequencer lets each wait for  *)
(* older ones and numbers them: the event sequenced n-th has the GES n and *)
(* is issued to the slaves (SlaveMirror).                                  *)
(*                                                                         *)
(* A binding call of one frame overtakes no other of it; those of two      *)
(* frames race. Every document has a clock of its own (performance.        *)
(* timeOrigin), a new document starts script, clock and ring afresh. The   *)
(* acknowledgement is evaluated in the page's main frame, whatever frame   *)
(* the event came from.                                                    *)
(***************************************************************************)
EXTENDS InteractionRecognizer, TemporalSequencer, FiniteSets

CONSTANTS
    Children,     \* frames inside the main one
    Capacity,     \* of a ring (128)
    UsedEvents,   \* of each frame: DOM events the user makes there
    MaxActs,      \* bound: DOM events
    MaxReading,   \* bound: what a page's clock may show
    MaxDocs       \* bound: documents after the first

Main == "main"
Frames == {Main} \union Children

ASSUME FramesAssumption == Main \notin Children /\ IsFiniteSet(Children)
ASSUME CapacityAssumption == Capacity \in Nat \ {0}
ASSUME UsedAssumption == UsedEvents \in [Frames -> SUBSET DomEvents]
ASSUME CaptureBoundAssumption == {MaxActs, MaxReading, MaxDocs} \subseteq Nat

VARIABLES
    page,        \* of each frame: its document and the state of its script
    wire,        \* of each frame: binding calls under way
    acks,        \* acknowledgements under way
    heap,
    received,    \* events taken into the heap, ever
    ripe,        \* of those, how many have waited deltaMs
    last,        \* lastFlushedHLC
    flushing,    \* is a flush under way? now is read at its start
    sequenced,   \* the events numbered 1, 2, ...
    acts,        \* history: DOM events
    emitted,     \* history: interactions emitted
    overflowed,  \* history: of those, the ones a full ring dropped,
    ignored,     \* history: the ones of a detached frame, and
    refused      \* history: the late ones

sequencer == <<heap, received, ripe, last, flushing, sequenced>>
history   == <<ignored, refused>>
vars == <<page, wire, acks, sequencer, acts, emitted, overflowed, history>>

(* The path of a child has more dots: its own and its parent's URL.        *)
Depth(f) == IF f = Main THEN 0 ELSE 1

NewPage(doc) ==
    [doc |-> doc, rec |-> NewRecognizer, hlc |-> NoHlc, ring |-> <<>>]

Init ==
    /\ page = [f \in Frames |-> NewPage(0)]
    /\ wire = [f \in Frames |-> <<>>] /\ acks = <<>>
    /\ heap = <<>> /\ received = 0 /\ ripe = 0 /\ last = NoHlc
    /\ flushing = FALSE /\ sequenced = <<>>
    /\ acts = 0 /\ emitted = 0
    /\ overflowed = {} /\ ignored = {} /\ refused = {}

Event == [id : 1..emitted, frame : Frames, doc : 0..MaxDocs,
          kind : Interactions, made : 1..acts, depth : {0, 1},
          hlc : [physical : 1..MaxReading, logical : 0..emitted],
          arrival : 0..received]

TypeOK ==
    /\ acts \in 0..MaxActs /\ emitted \in 0..acts
    /\ \A f \in Frames :
           /\ page[f].doc \in 0..MaxDocs
           /\ page[f].rec.pointer \in {"IDLE", "POINTER_DOWN", "DRAGGING"}
           /\ {page[f].rec.hovered, page[f].rec.moved, page[f].rec.typed}
                  \subseteq 0..acts
           /\ page[f].ring \in Seq([id : 1..emitted, acked : BOOLEAN])
           /\ Len(page[f].ring) <= Capacity
           /\ wire[f] \in Seq(Event)
    /\ acks \in Seq(1..emitted)
    /\ heap \in Seq(Event) /\ sequenced \in Seq(Event)
    /\ ripe \in 0..received /\ flushing \in BOOLEAN
    /\ {overflowed, ignored} \subseteq SUBSET (1..emitted)
    /\ refused \subseteq Event

-----------------------------------------------------------------------------
(* The page.                                                               *)

(* Mutant of Full: one more.                                               *)
FullOneMore(p) == Len(p.ring) > Capacity

Full(p) == Len(p.ring) >= Capacity

(* sendExecution: the clock moves on even if the ring is full.             *)
Sent(f, s, interaction, reading) ==
    LET hlc   == Generated(s.page.hlc, reading)
        id    == s.emitted + 1
        event == [id |-> id, frame |-> f, doc |-> s.page.doc,
                  kind |-> interaction.kind, made |-> interaction.made,
                  depth |-> Depth(f), hlc |-> hlc, arrival |-> 0]
    IN  IF Full(s.page)
        THEN [s EXCEPT !.emitted = id, !.page.hlc = hlc,
                       !.overflowed = @ \union {id}]
        ELSE [s EXCEPT !.emitted = id,
                       !.page = [s.page EXCEPT
                           !.hlc = hlc,
                           !.ring = Append(@, [id |-> id, acked |-> FALSE])],
                       !.wire = Append(@, event)]

(* At most two interactions come together: a scroll and what ends it. Each *)
(* reads the clock.                                                        *)
AllSent(f, s, out, readings) ==
    LET first == Sent(f, s, out[1], readings[1])
    IN  CASE Len(out) = 0 -> s
          [] Len(out) = 1 -> first
          [] OTHER        -> Sent(f, first, out[2], readings[2])

(* The recognizer of f has come to result. The page's clock shows anything,*)
(* also less than before.                                                  *)
Emit(f, result) ==
    \E readings \in [1..2 -> 1..MaxReading] :
        LET start == [page |-> [page[f] EXCEPT !.rec = result.rec],
                      wire |-> wire[f], emitted |-> emitted,
                      overflowed |-> overflowed]
        IN  \E end \in {AllSent(f, start, result.out, readings)} :
                /\ page' = [page EXCEPT ![f] = end.page]
                /\ wire' = [wire EXCEPT ![f] = end.wire]
                /\ emitted' = end.emitted
                /\ overflowed' = end.overflowed
                /\ UNCHANGED <<acks, sequencer, history>>

UserActs(f, e) ==
    /\ acts < MaxActs
    /\ acts' = acts + 1
    /\ Emit(f, Handle(page[f].rec, e, acts'))

(* A hover, a text or the scroll interval comes due.                       *)
TimerFires(f) ==
    /\ \E result \in Timeouts(page[f].rec) : Emit(f, result)
    /\ UNCHANGED acts

Ids(events) == {events[i].id : i \in DOMAIN events}

(* A frame gets a new document. With the main frame's, the frames in it    *)
(* are others: what those of before have under way comes from a detached   *)
(* frame.                                                                  *)
Navigate(f) ==
    /\ LET doc == 1 + Max({page[g].doc : g \in Frames})
       IN /\ doc <= MaxDocs
          /\ IF f = Main
             THEN /\ page' = [g \in Frames |-> NewPage(doc)]
                  /\ wire' = [g \in Frames |-> IF g = Main THEN wire[g] ELSE <<>>]
                  /\ ignored' = ignored \union
                                    UNION {Ids(wire[g]) : g \in Children}
             ELSE /\ page' = [page EXCEPT ![f] = NewPage(doc)]
                  /\ UNCHANGED <<wire, ignored>>
    /\ UNCHANGED <<acks, sequencer, acts, emitted, overflowed, refused>>

(* ClientRingBuffer.ack, in the main frame. An id the ring does not hold   *)
(* changes nothing.                                                        *)
Freed(ring) ==
    LET pending == {i \in DOMAIN ring : ~ring[i].acked}
    IN  IF pending = {} THEN <<>> ELSE SubSeq(ring, Min(pending), Len(ring))

Acknowledged(ring, id) ==
    Freed([i \in DOMAIN ring |->
               [ring[i] EXCEPT !.acked = @ \/ ring[i].id = id]])

Ack ==
    /\ acks # <<>>
    /\ acks' = Tail(acks)
    /\ page' = [page EXCEPT ![Main].ring = Acknowledged(@, Head(acks))]
    /\ UNCHANGED <<wire, sequencer, acts, emitted, overflowed, history>>

-----------------------------------------------------------------------------
(* The process.                                                            *)

(* Mutant of Late: it looks at the physical part only.                     *)
LatePhysically(e) == last # NoHlc /\ e.hlc.physical < last.physical

Late(e) == last # NoHlc /\ Earlier(e.hlc, last)

(* Mutant of Receive: a late event is not acknowledged.                    *)
ReceiveUnacknowledged(f) ==
    /\ ~flushing /\ wire[f] # <<>>
    /\ wire' = [wire EXCEPT ![f] = Tail(@)]
    /\ LET e == Head(wire[f])
       IN IF Late(e)
          THEN /\ refused' = refused \union {e}
               /\ UNCHANGED <<heap, received, acks>>
          ELSE /\ received' = received + 1
               /\ heap' = Push(heap, [e EXCEPT !.arrival = received'])
               /\ acks' = Append(acks, e.id)
               /\ UNCHANGED refused
    /\ UNCHANGED <<page, ripe, last, flushing, sequenced, acts, emitted,
                   overflowed, ignored>>

(* Mutant of Receive: a late event is reported, and taken all the same.    *)
ReceiveLateToo(f) ==
    /\ ~flushing /\ wire[f] # <<>>
    /\ wire' = [wire EXCEPT ![f] = Tail(@)]
    /\ LET e == Head(wire[f])
       IN /\ acks' = Append(acks, e.id)
          /\ refused' = refused \union (IF Late(e) THEN {e} ELSE {})
          /\ received' = received + 1
          /\ heap' = Push(heap, [e EXCEPT !.arrival = received'])
    /\ UNCHANGED <<page, ripe, last, flushing, sequenced, acts, emitted,
                   overflowed, ignored>>

(* dispatchExecutionEvent, with TemporalSequencer.receive. Late or not, it *)
(* is acknowledged.                                                        *)
Receive(f) ==
    /\ ~flushing /\ wire[f] # <<>>
    /\ wire' = [wire EXCEPT ![f] = Tail(@)]
    /\ LET e == Head(wire[f])
       IN /\ acks' = Append(acks, e.id)
          /\ IF Late(e)
             THEN /\ refused' = refused \union {e}
                  /\ UNCHANGED <<heap, received>>
             ELSE /\ received' = received + 1
                  /\ heap' = Push(heap, [e EXCEPT !.arrival = received'])
                  /\ UNCHANGED refused
    /\ UNCHANGED <<page, ripe, last, flushing, sequenced, acts, emitted,
                   overflowed, ignored>>

(* Mutant of Due: the last event waits for company.                        *)
DueInCompany == Len(heap) > 1 /\ heap[1].arrival <= ripe

(* Only the oldest is looked at: while it is young, it holds back the rest.*)
Due == heap # <<>> /\ heap[1].arrival <= ripe

(* TemporalSequencer._flush, every deltaMs. A flush that finds nothing due *)
(* is left out.                                                            *)
FlushStarts ==
    /\ ~flushing /\ Due
    /\ flushing' = TRUE
    /\ UNCHANGED <<page, wire, acks, heap, received, ripe, last,
                   sequenced, acts, emitted, overflowed, history>>

FlushNext ==
    /\ flushing /\ Due
    /\ heap' = Pop(heap)
    /\ last' = heap[1].hlc
    /\ sequenced' = Append(sequenced, heap[1])
    /\ UNCHANGED <<page, wire, acks, received, ripe, flushing, acts,
                   emitted, overflowed, history>>

FlushEnds ==
    /\ flushing /\ ~Due
    /\ flushing' = FALSE
    /\ UNCHANGED <<page, wire, acks, heap, received, ripe, last,
                   sequenced, acts, emitted, overflowed, history>>

-----------------------------------------------------------------------------
(* Time, on the process's clock.                                           *)
Ripen ==
    /\ ~flushing /\ ripe < received
    /\ ripe' = ripe + 1
    /\ UNCHANGED <<page, wire, acks, heap, received, last, flushing,
                   sequenced, acts, emitted, overflowed, history>>

Flush == FlushStarts \/ FlushNext \/ FlushEnds

PageStep(f) ==
    \/ \E e \in UsedEvents[f] : UserActs(f, e)
    \/ TimerFires(f) \/ Navigate(f)

Next ==
    \/ \E f \in Frames : PageStep(f) \/ Receive(f)
    \/ Ack \/ Flush \/ Ripen

(* The process's event loop runs and its clock goes on. The user owes      *)
(* nothing, and no page need send or be acknowledged.                      *)
Fairness == WF_vars(Flush) /\ WF_vars(Ripen)

Spec == Init /\ [][Next]_vars /\ Fairness

-----------------------------------------------------------------------------
(* Every interaction emitted is in exactly one place: dropped at a full    *)
(* ring, under way, from a detached frame, refused as late, waiting or     *)
(* numbered. The heap neither loses nor repeats one.                       *)
OnTheWire == UNION {Ids(wire[f]) : f \in Frames}

Accounted ==
    /\ 1..emitted = overflowed \union ignored \union OnTheWire
                        \union {e.id : e \in refused}
                        \union Ids(heap) \union Ids(sequenced)
    /\ emitted = Cardinality(overflowed) + Cardinality(ignored)
                     + Cardinality(OnTheWire) + Cardinality(refused)
                     + Len(heap) + Len(sequenced)

(* Numbers follow the clocks: heap, flush and the late-arrival abort of    *)
(* TemporalSequencer implement the abstract sequencing.                    *)
Stamped(e) == [id |-> e.id, hlc |-> e.hlc]

Order == INSTANCE InOrderSequence WITH
             Events    <- [id : 1..MaxActs,
                           hlc : [physical : 1..MaxReading,
                                  logical : 0..MaxActs]],
             taken     <- Ids(heap) \union Ids(sequenced),
             waiting   <- {Stamped(heap[i]) : i \in DOMAIN heap},
             sequenced <- [i \in DOMAIN sequenced |-> Stamped(sequenced[i])]

ASSUME StampsAssumption == Order!EventsAreStamped

SequencesInOrder == Order!Spec

(* An event is only ever refused because of another document: the events   *)
(* of one, sent in order by a clock that never stands still, do not make   *)
(* each other late, whatever the document's clock does.                    *)
SameDocument(a, b) == a.frame = b.frame /\ a.doc = b.doc

LateOnlyForOthers ==
    \A e \in refused : \E i \in DOMAIN sequenced :
        /\ Earlier(e.hlc, sequenced[i].hlc)
        /\ ~SameDocument(e, sequenced[i])

(* From the user's hand to the numbers the slaves go by: of what one       *)
(* document saw, only scrolling, hovers and texts may be numbered after    *)
(* something the user did later.                                           *)
ImmediateInOrder ==
    \A i, j \in DOMAIN sequenced :
        /\ i < j
        /\ SameDocument(sequenced[i], sequenced[j])
        /\ sequenced[i].made > sequenced[j].made
        => sequenced[j].kind \in Delayed

(* What the main frame's ring holds is on its way to the process, or its   *)
(* acknowledgement is on its way back: no event occupies a place for good. *)
RingIsUnderWay ==
    \A i \in DOMAIN page[Main].ring :
        page[Main].ring[i].id \in Ids(wire[Main]) \union ToSet(acks)

(* The oldest event that waits is numbered at last, unless an older one    *)
(* comes. That older ones come for ever, from slower frames, and hold back *)
(* all the rest, the code does not exclude (TemporalSequencer._flush).     *)
OldestChanges == heap # <<>> /\ (heap' = <<>> \/ heap'[1].id # heap[1].id)

OldestIsNumbered == []<>(heap = <<>>) \/ []<><<OldestChanges>>_vars
=============================================================================
