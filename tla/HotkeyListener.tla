--------------------------- MODULE HotkeyListener ---------------------------
(***************************************************************************)
(* The hotkey's two threads and what they share.  The X11 listener         *)
(* (x11_hotkey.rs) takes raw events from the connection's queue, stamps    *)
(* each with the time at which it gets to it, and feeds the double-Control *)
(* recognizer (DoubleCtrl).  The lock monitor (session_lock.rs) keeps a    *)
(* flag equal to logind's LockedHint.  The settings dialog changes two     *)
(* atomics, one after the other, while both threads run.                   *)
(*                                                                         *)
(* Around them the user types and locks the screen, windows go fullscreen, *)
(* and keyboard mappings change, at any moment.                            *)
(***************************************************************************)
EXTENDS Integers, Sequences

CONSTANTS
    Time, MaxHold, MaxGap, SidesEquivalent,
    MaxEvents,     \* bound on the events the recognizer is told of
    Code,          \* keycodes
    KeyMap,        \* keyboard mappings: what each keycode means
    MaxQueue,      \* bound on the events waiting in the X connection
    MaxChanges     \* bound on what happens around the keyboard

Side == {"Left", "Right"}
Key == Side \cup {"OtherModifier", "NonModifier"}

ASSUME ListenerAssumption ==
    /\ Time \subseteq Nat
    /\ MaxHold \in Nat /\ MaxGap \in Nat /\ MaxEvents \in Nat
    /\ SidesEquivalent \in BOOLEAN
    /\ KeyMap \subseteq [Code -> Key]
    /\ MaxQueue \in Nat /\ MaxChanges \in Nat

VARIABLES
    now, server, fullscreen, locked,    \* clock, mapping, active window, session
    down,                               \* the keys that are held down
    queue,                              \* raw events not yet taken
    enabled, suppress,                  \* DoubleCtrlControl
    saving,                             \* what update has still to store
    monitor, signals, flag,             \* the lock monitor and its flag
    listener, keymap,                   \* run_event_loop
    event, stamp,                       \* the key event in hand, if any, and its time
    fullscreen_blocked,
    state, last_event_at, decision, events, heard,    \* the recognizer
    real,      \* history: the Control events handled, as they were typed
    behind,    \* history: the listener was late, or has not the mapping in force
    missed,    \* history: the session changed between the monitor's get and match
    changes

R == INSTANCE DoubleCtrl

world == <<now, server, fullscreen, locked, down, changes>>
settings == <<enabled, suppress, saving>>
lock == <<monitor, signals, flag, missed>>
loop == <<listener, keymap, event, stamp, fullscreen_blocked>>
recognizer == <<state, last_event_at, decision, events, heard>>
history == <<real, behind>>
vars == <<world, queue, settings, lock, loop, recognizer, history>>

RawKey == [key : Key, code : Code, pressed : BOOLEAN, repeat : BOOLEAN, at : Time]
Mapping == [mapping |-> TRUE]        \* MappingNotify

Init ==
    /\ now \in Time /\ \A t \in Time : now <= t
    /\ server \in KeyMap
    /\ fullscreen = FALSE /\ locked \in BOOLEAN
    /\ down = {} /\ changes = 0
    /\ queue = <<>>
    /\ enabled \in BOOLEAN /\ suppress \in BOOLEAN /\ saving = {}
    /\ monitor = "get" /\ signals = <<>> /\ flag = FALSE /\ missed = FALSE
    /\ listener = "off"
    /\ keymap = server
    /\ event = Mapping /\ stamp = R!Never
    /\ fullscreen_blocked = FALSE
    /\ R!Init
    /\ real = <<>> /\ behind = FALSE

-----------------------------------------------------------------------------
(* The world around the threads. *)

Changed == changes < MaxChanges /\ changes' = changes + 1

Tick ==
    /\ now + 1 \in Time
    /\ now' = now + 1
    /\ UNCHANGED <<server, fullscreen, locked, down, changes, queue, settings, lock, loop,
                   recognizer, history>>

Subscribed == listener \notin {"off", "gone"}
InHand == IF listener \in {"query", "handle"} THEN 1 ELSE 0
Room == Len(queue) < MaxQueue /\ events + Len(queue) + InHand < MaxEvents

\* A key goes down, repeats, or comes up.
Type(code, pressed, repeat) ==
    /\ Subscribed /\ Room
    /\ repeat => pressed
    /\ (pressed /\ ~repeat) = (code \notin down)
    /\ down' = IF pressed THEN down \cup {code} ELSE down \ {code}
    /\ queue' = Append(queue, [key |-> server[code], code |-> code, pressed |-> pressed,
                               repeat |-> repeat, at |-> now])
    /\ UNCHANGED <<now, server, fullscreen, locked, changes, settings, lock, loop,
                   recognizer, history>>

MappingChanges(m) ==
    /\ Changed
    /\ Subscribed => Room
    /\ m # server
    /\ server' = m
    /\ queue' = IF Subscribed THEN Append(queue, Mapping) ELSE queue
    /\ UNCHANGED <<now, fullscreen, locked, down, settings, lock, loop, recognizer, history>>

FullscreenChanges ==
    /\ Changed
    /\ fullscreen' = ~fullscreen
    /\ UNCHANGED <<now, server, locked, down, queue, settings, lock, loop, recognizer, history>>

\* logind tells its subscribers the new value, or only that the old one is void.
LockChanges ==
    /\ Changed
    /\ locked' = ~locked
    /\ \E s \in {"void", IF locked' THEN "locked" ELSE "unlocked"} :
        signals' = IF monitor = "listen" THEN Append(signals, s) ELSE signals
    /\ missed' = (missed \/ monitor = "match")
    /\ UNCHANGED <<now, server, fullscreen, down, queue, settings, monitor, flag, loop,
                   recognizer, history>>

-----------------------------------------------------------------------------
(* DoubleCtrlControl::update, called by the settings dialog: two stores. *)

StoreSuppress(on, hidden) ==
    /\ Changed
    /\ saving = {}
    /\ suppress' = hidden
    /\ saving' = {on}
    /\ UNCHANGED <<now, server, fullscreen, locked, down, queue, enabled, lock, loop,
                   recognizer, history>>

StoreEnabled ==
    /\ saving # {}
    /\ enabled' \in saving
    /\ saving' = {}
    /\ UNCHANGED <<world, queue, suppress, lock, loop, recognizer, history>>

-----------------------------------------------------------------------------
(* session_lock::spawn and its thread. *)

\* LockedHint is read once.
GetLockedHint ==
    /\ monitor = "get"
    /\ flag' = locked
    /\ monitor' = "match"
    /\ UNCHANGED <<world, queue, settings, signals, missed, loop, recognizer, history>>

MatchSignal ==
    /\ monitor = "match"
    /\ monitor' = "listen"
    /\ UNCHANGED <<world, queue, settings, signals, flag, missed, loop, recognizer, history>>

\* No bus, no session, no answer: install_hotkey goes without the hotkey.
MonitorFails ==
    /\ monitor \in {"get", "match"}
    /\ monitor' = "none"
    /\ UNCHANGED <<world, queue, settings, signals, flag, missed, loop, recognizer, history>>

\* Mutant: when the value cannot be read again, the flag stays as it is.
Told_KeepsFlag(s) ==
    IF s = "void" THEN {locked, flag} ELSE {s = "locked"}

\* What the flag may be after a signal: its value, or what a second get says,
\* or TRUE when that fails.
Told(s) ==
    IF s = "void" THEN {locked, TRUE} ELSE {s = "locked"}

ReadSignal ==
    /\ monitor = "listen"
    /\ signals # <<>>
    /\ flag' \in Told(Head(signals))
    /\ signals' = Tail(signals)
    /\ UNCHANGED <<world, queue, settings, monitor, missed, loop, recognizer, history>>

\* connection.process fails: the thread ends.
BusLost ==
    /\ monitor = "listen"
    /\ monitor' = "failed"
    /\ flag' = TRUE
    /\ signals' = <<>>
    /\ UNCHANGED <<world, queue, settings, missed, loop, recognizer, history>>

-----------------------------------------------------------------------------
(* spawn_double_ctrl_listener and run_event_loop. *)

\* Mutant: the listener does not wait for the monitor.
Subscribe_Early ==
    /\ listener = "off"
    /\ listener' = "load"
    /\ UNCHANGED <<world, queue, settings, lock, keymap, event, stamp,
                   fullscreen_blocked, recognizer, history>>

\* The monitor is there first; then the raw events are selected.
Subscribe ==
    /\ listener = "off"
    /\ monitor \in {"listen", "failed"}
    /\ listener' = "load"
    /\ UNCHANGED <<world, queue, settings, lock, keymap, event, stamp,
                   fullscreen_blocked, recognizer, history>>

LoadKeyMap ==
    /\ listener = "load"
    /\ listener' = "wait"
    /\ keymap' = server
    /\ behind' = (queue # <<>>)
    /\ UNCHANGED <<world, queue, settings, lock, event, stamp, fullscreen_blocked,
                   recognizer, real>>

\* A request of the set-up fails, or the connection ends.
ListenerStops ==
    /\ listener \in {"load", "wait"}
    /\ listener' = "gone"
    /\ UNCHANGED <<world, queue, settings, lock, keymap, event, stamp,
                   fullscreen_blocked, recognizer, history>>

\* The event at the head is taken.  The listener keeps up if nothing waits
\* behind it.
Take ==
    /\ listener = "wait"
    /\ queue # <<>>
    /\ queue' = Tail(queue)

Late(e) == Len(queue) > 1 \/ now # e.at

\* A press when fullscreen windows do not matter.
TakePress ==
    /\ Take
    /\ Head(queue) # Mapping /\ Head(queue).pressed
    /\ ~suppress
    /\ fullscreen_blocked' = FALSE
    /\ listener' = "handle"
    /\ event' = Head(queue) /\ stamp' = now
    /\ behind' = (behind \/ Late(Head(queue)))
    /\ UNCHANGED <<world, settings, lock, keymap, recognizer, real>>

\* A press when they do: the X server is asked first.
TakePressAndAsk ==
    /\ Take
    /\ Head(queue) # Mapping /\ Head(queue).pressed
    /\ suppress
    /\ listener' = "query"
    /\ event' = Head(queue)
    /\ behind' = (behind \/ Late(Head(queue)))
    /\ UNCHANGED <<world, settings, lock, keymap, stamp, fullscreen_blocked,
                   recognizer, real>>

\* is_fullscreen, or FALSE when it cannot be told.  Only then the event gets its
\* time.
FullscreenAnswer ==
    /\ listener = "query"
    /\ fullscreen_blocked' \in {fullscreen, FALSE}
    /\ listener' = "handle"
    /\ stamp' = now
    /\ behind' = (behind \/ now # event.at)
    /\ UNCHANGED <<world, queue, settings, lock, keymap, event, recognizer, real>>

\* A release is judged by what the last press found.
TakeRelease ==
    /\ Take
    /\ Head(queue) # Mapping /\ ~Head(queue).pressed
    /\ listener' = "handle"
    /\ event' = Head(queue) /\ stamp' = now
    /\ behind' = (behind \/ Late(Head(queue)))
    /\ UNCHANGED <<world, settings, lock, keymap, fullscreen_blocked, recognizer, real>>

\* Mutant: a new mapping does not end the gesture.
TakeMapping_NoReset ==
    /\ Take
    /\ Head(queue) = Mapping
    /\ keymap' = server
    /\ real' = <<>>
    /\ behind' = (behind \/ Len(queue) > 1)
    /\ UNCHANGED <<world, settings, lock, listener, event, stamp, fullscreen_blocked,
                   recognizer>>

\* MappingNotify: the mapping in force is loaded and the recognizer reset.
TakeMapping ==
    /\ Take
    /\ Head(queue) = Mapping
    /\ keymap' = server
    /\ R!Blocked
    /\ real' = <<>>
    /\ behind' = (behind \/ Len(queue) > 1)
    /\ UNCHANGED <<world, settings, lock, listener, event, stamp, fullscreen_blocked>>

\* It cannot be loaded: the old one stays, and so does the gesture.
TakeMappingFails ==
    /\ Take
    /\ Head(queue) = Mapping
    /\ behind' = TRUE
    /\ UNCHANGED <<world, settings, lock, loop, recognizer, real>>

\* Which action of the recognizer an event is.
Recognize(key) ==
    \/ /\ event.repeat \/ (key = "NonModifier" /\ event.pressed)
       /\ R!Interrupted(stamp)
    \/ /\ ~event.repeat
       /\ key = "OtherModifier" \/ (key = "NonModifier" /\ ~event.pressed)
       /\ R!OtherKey(stamp)
    \/ /\ ~event.repeat /\ event.pressed /\ key \in Side
       /\ R!ControlPressed(key, stamp)
    \/ /\ ~event.pressed /\ key \in Side
       /\ R!ControlReleased(key, stamp)

\* What was typed: the Control events since anything else ended the gesture.
Typed(e, blocked) ==
    LET before == IF decision = "Triggered" THEN <<>> ELSE real
    IN  IF behind \/ blocked \/ e.repeat \/ (e.key = "NonModifier" /\ e.pressed)
        THEN <<>>
        ELSE IF e.key \notin Side THEN before
        ELSE Append(before, R!ControlEvent(e.key, e.pressed, e.at))

\* The event, in the context of this moment; a trigger is sent to the interface.
Handle ==
    /\ listener = "handle"
    /\ LET blocked == ~enabled \/ flag \/ fullscreen_blocked
       IN  /\ IF blocked THEN R!Blocked ELSE Recognize(keymap[event.code])
           /\ real' = Typed(event, blocked)
    /\ listener' = "wait"
    /\ event' = Mapping /\ stamp' = R!Never
    /\ UNCHANGED <<world, queue, settings, lock, keymap, fullscreen_blocked, behind>>

-----------------------------------------------------------------------------

Next ==
    \/ Tick
    \/ \E code \in Code, pressed, repeat \in BOOLEAN : Type(code, pressed, repeat)
    \/ \E m \in KeyMap : MappingChanges(m)
    \/ FullscreenChanges \/ LockChanges
    \/ \E on, hidden \in BOOLEAN : StoreSuppress(on, hidden)
    \/ StoreEnabled
    \/ GetLockedHint \/ MatchSignal \/ MonitorFails \/ ReadSignal \/ BusLost
    \/ Subscribe \/ LoadKeyMap \/ ListenerStops
    \/ TakePress \/ TakePressAndAsk \/ FullscreenAnswer \/ TakeRelease
    \/ TakeMapping \/ TakeMappingFails
    \/ Handle

Spec == Init /\ [][Next]_vars

-----------------------------------------------------------------------------
(* Properties. *)

\* The variables have their types; a listener only runs beside a monitor, and
\* has a key event in hand when it handles one.
TypeOK ==
    /\ now \in Time /\ server \in KeyMap /\ keymap \in KeyMap
    /\ fullscreen \in BOOLEAN /\ locked \in BOOLEAN
    /\ down \subseteq Code /\ changes \in 0..MaxChanges
    /\ queue \in Seq(RawKey \cup {Mapping})
    /\ enabled \in BOOLEAN /\ suppress \in BOOLEAN /\ saving \in {{}, {TRUE}, {FALSE}}
    /\ monitor \in {"get", "match", "listen", "failed", "none"}
    /\ signals \in Seq({"locked", "unlocked", "void"})
    /\ flag \in BOOLEAN /\ missed \in BOOLEAN /\ behind \in BOOLEAN
    /\ listener \in {"off", "load", "wait", "query", "handle", "gone"}
    /\ event \in RawKey \cup {Mapping} /\ stamp \in Time \cup {R!Never}
    /\ fullscreen_blocked \in BOOLEAN
    /\ R!TypeOK
    /\ listener # "off" => monitor \in {"listen", "failed"}
    /\ listener \in {"query", "handle"} => event # Mapping

Triggers == listener = "handle" /\ listener' = "wait" /\ decision' = "Triggered"

\* docs/implementation-status.md:42-43: no gesture is recognized in a locked
\* session, unless the monitor has not yet been told that it is locked: whatever
\* signals are lost, unreadable or many.  A change between the monitor's get and
\* its match is told to nobody (missed).
LockedSessionIsLeftAlone ==
    [][Triggers => ~locked \/ signals # <<>> \/ missed]_vars

\* A listener that keeps up recognizes the gesture only when the user has really
\* typed it: two taps of Control, by the mapping in force when each key moved,
\* within the limits by the time at which it moved, and with nothing between them
\* that ends a gesture, no lock and no fullscreen window among it
\* (x11_hotkey.rs:307-351).
TriggerNeedsRealDoubleTap ==
    decision = "Triggered" /\ ~behind => R!EndsInDoubleTap(real)

=============================================================================
