----------------------------- MODULE DoubleCtrl -----------------------------
(***************************************************************************)
(* The double-Control recognizer (crates/ruyiseek-platform/src/hotkey.rs). *)
(* It is fed one keyboard event at a time, with the time of the event and  *)
(* whether the session is locked or a fullscreen window blocks the         *)
(* gesture, and answers each with None or Triggered.                       *)
(*                                                                         *)
(* Nothing is assumed about the events: keys may be pressed twice without  *)
(* a release, released without a press, and times may go back.             *)
(***************************************************************************)
EXTENDS Integers, Sequences

CONSTANTS
    Time,             \* the times at which events can happen
    MaxHold,          \* DoubleCtrlConfig::max_hold
    MaxGap,           \* DoubleCtrlConfig::max_gap
    SidesEquivalent,  \* DoubleCtrlConfig::sides_equivalent
    MaxEvents         \* bound on the events of one behaviour

ASSUME RecognizerAssumption ==
    /\ Time \subseteq Nat
    /\ MaxHold \in Nat
    /\ MaxGap \in Nat
    /\ SidesEquivalent \in BOOLEAN
    /\ MaxEvents \in Nat

VARIABLES
    state,           \* DoubleCtrlRecognizer::state
    last_event_at,   \* DoubleCtrlRecognizer::last_event_at
    decision,        \* what handle answered last
    events,          \* how many events there were, up to MaxEvents
    heard            \* history: the Control events since the last interruption

vars == <<state, last_event_at, decision, events, heard>>

-----------------------------------------------------------------------------

Side == {"Left", "Right"}
Never == -1          \* last_event_at is None

Idle == [kind |-> "Idle"]

Pressed == [kind : {"Pressed"}, key : Side, at : Time,
            tap : {"First", "Second"}, chorded : BOOLEAN]

Armed == [kind : {"Armed"}, key : Side, at : Time]

PressOf(key, at, tap, chorded) ==
    [kind |-> "Pressed", key |-> key, at |-> at, tap |-> tap, chorded |-> chorded]

ArmedBy(key, at) == [kind |-> "Armed", key |-> key, at |-> at]

KeysMatch(left, right) == SidesEquivalent \/ left = right

\* Mutant: a gap of exactly max_gap is already too long.
Expired_AtMaxGap(s, now) ==
    IF s.kind = "Armed" /\ now - s.at >= MaxGap THEN Idle ELSE s

\* expire
Expired(s, now) ==
    IF s.kind = "Armed" /\ now - s.at > MaxGap THEN Idle ELSE s

\* Mutant: a press while one is held starts a new tap.
AfterPress_ForgetsHeld(s, key, at) ==
    IF s.kind = "Armed" /\ at - s.at <= MaxGap /\ KeysMatch(s.key, key)
    THEN PressOf(key, at, "Second", FALSE)
    ELSE PressOf(key, at, IF s.kind = "Pressed" THEN s.tap ELSE "First", FALSE)

\* Mutant: the second press does not start a tap of its own.
AfterPress_KeepsArmed(s, key, at) ==
    CASE s.kind = "Armed" -> [s EXCEPT !.kind = "Pressed"]
      [] OTHER -> PressOf(key, at, "First", FALSE)

\* on_control_pressed
AfterPress(s, key, at) ==
    CASE s.kind = "Armed" /\ at >= s.at /\ at - s.at <= MaxGap /\ KeysMatch(s.key, key)
           -> PressOf(key, at, "Second", FALSE)
      [] s.kind = "Pressed" -> [s EXCEPT !.chorded = TRUE]
      [] OTHER -> PressOf(key, at, "First", FALSE)

\* Mutant: a tap may last longer than max_hold.
EndsTap_AnyHold(s, key, at) ==
    s.kind = "Pressed" /\ KeysMatch(s.key, key) /\ at >= s.at /\ ~s.chorded

\* Whether a release at this moment ends a tap: the guards of
\* on_control_released.
EndsTap(s, key, at) ==
    /\ s.kind = "Pressed"
    /\ KeysMatch(s.key, key)
    /\ at >= s.at
    /\ at - s.at <= MaxHold
    /\ ~s.chorded

-----------------------------------------------------------------------------
(* handle, one action for each way through it. *)

Init ==
    /\ state = Idle
    /\ last_event_at = Never
    /\ decision = "None"
    /\ events = 0
    /\ heard = <<>>

Counted == events < MaxEvents /\ events' = events + 1

\* A new attempt starts after a trigger.
Attempt == IF decision = "Triggered" THEN <<>> ELSE heard

ControlEvent(key, pressed, at) == [key |-> key, pressed |-> pressed, at |-> at]

\* reset
Reset ==
    /\ state' = Idle
    /\ last_event_at' = Never
    /\ decision' = "None"
    /\ heard' = <<>>

\* An event in a locked session or under a fullscreen window, or a call of
\* reset.
Blocked == Counted /\ Reset

OutOfOrder(at) == Counted /\ at < last_event_at /\ Reset

InOrder(at) ==
    /\ Counted
    /\ at >= last_event_at
    /\ last_event_at' = at

\* An auto-repeated event of any key, or the press of a key that is no
\* modifier: whatever was begun is over.
Interrupted(at) ==
    /\ InOrder(at)
    /\ state' = Idle
    /\ decision' = "None"
    /\ heard' = <<>>

\* Any other event of a key that is not Control.
OtherKey(at) ==
    /\ InOrder(at)
    /\ state' = Expired(state, at)
    /\ decision' = "None"
    /\ heard' = Attempt

ControlPressed(key, at) ==
    /\ InOrder(at)
    /\ state' = AfterPress(Expired(state, at), key, at)
    /\ decision' = "None"
    /\ heard' = Append(Attempt, ControlEvent(key, TRUE, at))

ControlReleased(key, at) ==
    LET s == Expired(state, at)
    IN  /\ InOrder(at)
        /\ \/ /\ ~EndsTap(s, key, at)
              /\ state' = Idle
              /\ decision' = "None"
           \/ /\ EndsTap(s, key, at)
              /\ s.tap = "First"
              /\ state' = ArmedBy(key, at)
              /\ decision' = "None"
           \/ /\ EndsTap(s, key, at)
              /\ s.tap = "Second"
              /\ state' = Idle
              /\ decision' = "Triggered"
        /\ heard' = Append(Attempt, ControlEvent(key, FALSE, at))

Next ==
    \/ Blocked
    \/ \E at \in Time :
         \/ OutOfOrder(at) \/ Interrupted(at) \/ OtherKey(at)
         \/ \E key \in Side : ControlPressed(key, at) \/ ControlReleased(key, at)

Spec == Init /\ [][Next]_vars

-----------------------------------------------------------------------------
(* Properties. *)

\* The recognizer is in one of the three states of the enum State.
TypeOK ==
    /\ state \in {Idle} \cup Pressed \cup Armed
    /\ last_event_at \in Time \cup {Never}
    /\ decision \in {"None", "Triggered"}
    /\ events \in Nat
    /\ heard \in Seq([key : Side, pressed : BOOLEAN, at : Time])

\* A press and the release that ends it in time.
IsTap(press, release) ==
    /\ press.pressed /\ ~release.pressed
    /\ KeysMatch(press.key, release.key)
    /\ 0 <= release.at - press.at /\ release.at - press.at <= MaxHold

IsDoubleTap(press1, release1, press2, release2) ==
    /\ IsTap(press1, release1)
    /\ IsTap(press2, release2)
    /\ KeysMatch(release1.key, press2.key)
    /\ 0 <= press2.at - release1.at /\ press2.at - release1.at <= MaxGap

\* The last four Control events since the last interruption or trigger.
EndsInDoubleTap(h) ==
    /\ Len(h) >= 4
    /\ IsDoubleTap(h[Len(h) - 3], h[Len(h) - 2], h[Len(h) - 1], h[Len(h)])

\* The gesture is only recognized when the last four Control events are two
\* complete taps, each short enough and close enough to the other, and between
\* them nothing interrupted: no other key was pressed, nothing auto-repeated,
\* the session was not found locked nor a window fullscreen, time did not go
\* back, and no earlier trigger used any of them (DoubleCtrlRecognizer::handle).
TriggerNeedsDoubleTap == decision = "Triggered" => EndsInDoubleTap(heard)

\* And such a double tap is recognized, provided no Control key went down
\* before it and is still held as far as the recognizer was told: the taps that
\* went wrong before it, however many, do not count against it.
DoubleTapTriggers ==
    /\ EndsInDoubleTap(heard)
    /\ Len(heard) = 4 \/ ~heard[Len(heard) - 4].pressed
    => decision = "Triggered"
=============================================================================
