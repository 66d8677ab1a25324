------------------------ MODULE InteractionRecognizer ------------------------
(***************************************************************************)
(* What the script in the master's page makes of DOM events                *)
(* (InteractionRecognizer, in ActionDispatcher's injected script). A       *)
(* click, a drag and a key are emitted at once, scrolling at most every    *)
(* 50 ms, a hover 100 ms and a text 500 ms after the event.                *)
(*                                                                         *)
(* The n-th DOM event of the user has the number n; an interaction is made *)
(* by the last of its events. 0 stands for nothing. Every operator returns *)
(* the recognizer and what it emits.                                       *)
(***************************************************************************)
EXTENDS Naturals, Sequences

DomEvents == {"mousedown", "mousemove", "mousedrag", "mouseup", "menuup",
              "click", "dblclick", "wheel", "input", "keydown"}

Interactions == {"CLICK", "DOUBLE_CLICK", "DRAG", "KEYBOARD",
                 "SCROLL", "HOVER", "INPUT"}

(* Emitted after a time.                                                   *)
Delayed == {"SCROLL", "HOVER", "INPUT"}

NewRecognizer == [pointer |-> "IDLE", hovered |-> 0,
                  scrolling |-> FALSE, moved |-> 0, typed |-> 0]

Result(r, out) == [rec |-> r, out |-> out]

Interaction(kind, n) == [kind |-> kind, made |-> n]

(* flushScroll, then _stopScrollThrottle                                   *)
Scrolled(r) ==
    IF r.moved = 0 THEN <<>> ELSE <<Interaction("SCROLL", r.moved)>>

Still(r) == [r EXCEPT !.scrolling = FALSE, !.moved = 0]

(* CLICK_PENDING is left in the callback that enters it. "mousedrag" is a  *)
(* movement of more than 10 pixels from where the button went down,        *)
(* "menuup" the right button's release.                                    *)
ProcessPointerEvent(r, e, n) ==
    CASE e = "mousedown" ->
           Result([Still(r) EXCEPT !.pointer = "POINTER_DOWN"], Scrolled(r))
      [] e \in {"mousemove", "mousedrag"} /\ r.pointer = "IDLE" ->
           Result([r EXCEPT !.hovered = IF @ = 0 THEN n ELSE @], <<>>)
      [] e = "mousedrag" /\ r.pointer = "POINTER_DOWN" ->
           Result([r EXCEPT !.pointer = "DRAGGING"], <<>>)
      [] e \in {"mouseup", "menuup"} /\ r.pointer = "DRAGGING" ->
           Result([r EXCEPT !.pointer = "IDLE"], <<Interaction("DRAG", n)>>)
      [] e = "menuup" /\ r.pointer = "POINTER_DOWN" ->
           Result([r EXCEPT !.pointer = "IDLE"], <<Interaction("CLICK", n)>>)
      [] e = "click" ->
           Result([Still(r) EXCEPT !.pointer = "IDLE"],
                  Append(Scrolled(r), Interaction("CLICK", n)))
      [] e = "dblclick" ->
           Result([Still(r) EXCEPT !.pointer = "IDLE"],
                  Append(Scrolled(r), Interaction("DOUBLE_CLICK", n)))
      [] OTHER -> Result(r, <<>>)

(* The first movement is emitted at once and starts the interval, movement *)
(* after it waits for the interval. Movements that cancel out are left out.*)
ProcessScrollEvent(r, n) ==
    IF r.scrolling THEN Result([r EXCEPT !.moved = n], <<>>)
    ELSE Result([r EXCEPT !.scrolling = TRUE], <<Interaction("SCROLL", n)>>)

(* Each input event starts the 500 ms again.                               *)
ProcessInputEvent(r, n) == Result([r EXCEPT !.typed = n], <<>>)

(* Of keys, the special ones and those with a modifier.                    *)
ProcessKeyboardEvent(r, n) == Result(r, <<Interaction("KEYBOARD", n)>>)

Handle(r, e, n) ==
    CASE e = "wheel"   -> ProcessScrollEvent(r, n)
      [] e = "input"   -> ProcessInputEvent(r, n)
      [] e = "keydown" -> ProcessKeyboardEvent(r, n)
      [] OTHER         -> ProcessPointerEvent(r, e, n)

(* The timers: those of a hover and of a text, and the scroll interval.    *)
HoverTimeout(r) ==
    Result([r EXCEPT !.hovered = 0], <<Interaction("HOVER", r.hovered)>>)

TypingTimeout(r) ==
    Result([r EXCEPT !.typed = 0], <<Interaction("INPUT", r.typed)>>)

ScrollInterval(r) ==
    IF r.moved = 0 THEN Result(Still(r), <<>>)
    ELSE Result([r EXCEPT !.moved = 0], Scrolled(r))

Timeouts(r) ==
    (IF r.hovered # 0 THEN {HoverTimeout(r)} ELSE {})
        \union (IF r.typed # 0 THEN {TypingTimeout(r)} ELSE {})
        \union (IF r.scrolling THEN {ScrollInterval(r)} ELSE {})
=============================================================================
