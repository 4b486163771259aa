------------------------ MODULE HotkeyListenerProofs ------------------------
(***************************************************************************)
(* A locked session is left alone, and a listener that keeps up recognizes *)
(* what was typed, for every keyboard, every clock and any number of       *)
(* events and changes.  What the recognizer does with the events it is fed *)
(* is proved in DoubleCtrlProofs and taken from there.                     *)
(***************************************************************************)
EXTENDS HotkeyListener, TLAPS

RP == INSTANCE DoubleCtrlProofs

Value == IF locked THEN "locked" ELSE "unlocked"

\* What the monitor knows of the session: the flag is safe when no signal waits,
\* and otherwise the last signal leads to the value in force.
MonitorInv ==
    /\ listener # "off" => monitor \in {"listen", "failed"}
    /\ monitor = "failed" => flag
    /\ signals \in Seq({"locked", "unlocked", "void"})
    /\ monitor \notin {"listen"} => signals = <<>>
    /\ locked \in BOOLEAN /\ flag \in BOOLEAN
    /\ signals # <<>> => signals[Len(signals)] \in {Value, "void"}
    /\ monitor \in {"match", "listen"} /\ signals = <<>> /\ ~missed => (locked => flag)


\* The invariant speaks of the session, the monitor and the listener's start only.
LEMMA OthersKeepMonitorInv ==
    ASSUME MonitorInv, UNCHANGED <<monitor, signals, flag, missed, locked>>,
           listener' = "off" => listener = "off",
           listener = "off" => listener' = "off" \/ monitor \in {"listen", "failed"}
    PROVE  MonitorInv'
BY DEF MonitorInv, Value

\* A change of the session is told to a monitor that listens, missed by one that is
\* between get and match, and of no interest to any other.
LEMMA LockChangeKeepsMonitorInv ==
    ASSUME MonitorInv, LockChanges
    PROVE  MonitorInv'
<1>1. PICK s \in {"void", IF locked' THEN "locked" ELSE "unlocked"} :
        signals' = IF monitor = "listen" THEN Append(signals, s) ELSE signals
  BY DEF LockChanges
<1>2. /\ locked' = ~locked /\ missed' = (missed \/ monitor = "match")
      /\ UNCHANGED <<monitor, flag, listener>>
  BY DEF LockChanges, loop
<1>3. s \in {"locked", "unlocked", "void"}
  OBVIOUS
<1>4. CASE monitor = "listen"
  <2>1. signals' = Append(signals, s)
    BY <1>1, <1>4
  <2>2. /\ signals' \in Seq({"locked", "unlocked", "void"})
        /\ signals' # <<>> /\ signals'[Len(signals')] = s
    BY <2>1, <1>3 DEF MonitorInv
  <2>. QED
    BY <1>2, <1>4, <2>2 DEF MonitorInv, Value
<1>5. CASE monitor # "listen"
  BY <1>1, <1>2, <1>5 DEF MonitorInv, Value
<1>. QED
  BY <1>4, <1>5

\* After a signal was read the flag is safe, if it was the last one.
LEMMA ReadSignalKeepsMonitorInv ==
    ASSUME MonitorInv, ReadSignal
    PROVE  MonitorInv'
<1>1. /\ monitor = "listen" /\ signals # <<>>
      /\ flag' \in Told(signals[1]) /\ signals' = Tail(signals)
      /\ UNCHANGED <<monitor, missed, locked, listener>>
  BY DEF ReadSignal, MonitorInv, world, loop
<1>2. signals \in Seq({"locked", "unlocked", "void"}) /\ locked \in BOOLEAN
  BY DEF MonitorInv
<1>3. Len(signals) \in Nat /\ Len(signals) > 0
  BY <1>1, <1>2
<1>4. signals' \in Seq({"locked", "unlocked", "void"})
  BY <1>1, <1>2
<1>5. flag' \in BOOLEAN
  BY <1>1, <1>2 DEF Told
<1>6. CASE Len(signals) = 1
  <2>1. signals' = <<>>
    BY <1>1, <1>2, <1>6
  <2>2. signals[1] \in {Value, "void"}
    BY <1>1, <1>6 DEF MonitorInv
  <2>3. locked => flag'
    BY <1>1, <2>2 DEF Told, Value
  <2>. QED
    BY <1>1, <1>4, <1>5, <2>1, <2>3 DEF MonitorInv, Value
<1>7. CASE Len(signals) > 1
  <2>1. signals' # <<>> /\ signals'[Len(signals')] = signals[Len(signals)]
    <3>1. Len(signals') = Len(signals) - 1
      BY <1>1, <1>2, <1>3
    <3>2. signals'[Len(signals) - 1] = signals[Len(signals)]
      BY <1>1, <1>2, <1>3, <1>7
    <3>. QED
      BY <1>7, <3>1, <3>2, <1>3
  <2>. QED
    BY <1>1, <1>4, <1>5, <2>1 DEF MonitorInv, Value
<1>8. Len(signals) = 1 \/ Len(signals) > 1
  <2>1. \A n \in Nat : n > 0 => n = 1 \/ n > 1
    OBVIOUS
  <2>. QED
    BY <1>3, <2>1
<1>. QED
  BY <1>6, <1>7, <1>8

\* MonitorInv holds initially.
LEMMA InitMonitor == Init => MonitorInv
<1>1. SUFFICES ASSUME Init PROVE MonitorInv
  OBVIOUS
<1>2. /\ listener = "off" /\ monitor = "get" /\ signals = <<>>
      /\ locked \in BOOLEAN /\ flag = FALSE
  BY <1>1 DEF Init
<1>3. <<>> \in Seq({"locked", "unlocked", "void"})
  OBVIOUS
<1>. QED
  BY <1>2, <1>3 DEF MonitorInv

\* And after every step.
LEMMA NextMonitor == MonitorInv /\ [Next]_vars => MonitorInv'
<1>1. SUFFICES ASSUME MonitorInv, [Next]_vars PROVE MonitorInv'
  OBVIOUS
<1>2. CASE \/ Tick \/ FullscreenChanges \/ StoreEnabled
           \/ \E code \in Code, pressed, repeat \in BOOLEAN : Type(code, pressed, repeat)
           \/ \E m \in KeyMap : MappingChanges(m)
           \/ \E on, hidden \in BOOLEAN : StoreSuppress(on, hidden)
  <2>1. UNCHANGED <<monitor, signals, flag, missed, locked, listener>>
    BY <1>2 DEF Tick, FullscreenChanges, StoreEnabled, Type, MappingChanges,
                StoreSuppress, world, lock, loop
  <2>. QED
    BY <1>1, <2>1, OthersKeepMonitorInv
<1>3. CASE LoadKeyMap \/ ListenerStops \/ TakePress \/ TakePressAndAsk
           \/ FullscreenAnswer \/ TakeRelease \/ TakeMapping \/ TakeMappingFails \/ Handle
  <2>1. /\ UNCHANGED <<monitor, signals, flag, missed, locked>>
        /\ listener # "off" /\ listener' # "off"
    BY <1>3 DEF LoadKeyMap, ListenerStops, TakePress, TakePressAndAsk, FullscreenAnswer,
                TakeRelease, TakeMapping, TakeMappingFails, Handle, Take, world, lock, loop
  <2>. QED
    BY <1>1, <2>1, OthersKeepMonitorInv
<1>4. CASE Subscribe
  <2>1. /\ UNCHANGED <<monitor, signals, flag, missed, locked>>
        /\ monitor \in {"listen", "failed"} /\ listener' = "load"
    BY <1>4 DEF Subscribe, world, lock
  <2>. QED
    BY <1>1, <2>1, OthersKeepMonitorInv
<1>5. CASE LockChanges
  BY <1>1, <1>5, LockChangeKeepsMonitorInv
<1>6. CASE ReadSignal
  BY <1>1, <1>6, ReadSignalKeepsMonitorInv
<1>7. CASE GetLockedHint \/ MatchSignal \/ MonitorFails
  BY <1>1, <1>7 DEF GetLockedHint, MatchSignal, MonitorFails, MonitorInv, Value, world, loop
<1>8. CASE BusLost
  BY <1>1, <1>8 DEF BusLost, MonitorInv, Value, world, loop
<1>9. CASE UNCHANGED vars
  BY <1>1, <1>9, OthersKeepMonitorInv DEF vars, world, lock, loop
<1>. QED
  BY <1>1, <1>2, <1>3, <1>4, <1>5, <1>6, <1>7, <1>8, <1>9 DEF Next

\* No gesture is recognized in a locked session of which the monitor has been
\* told, whatever signals, failures and changes there are.
THEOREM LockedSessionIsAlwaysLeftAlone == Spec => LockedSessionIsLeftAlone
<1>1. ASSUME MonitorInv, [Next]_vars, Triggers
      PROVE  ~locked \/ signals # <<>> \/ missed
  <2>1. Handle
    <3>1. listener = "handle" /\ listener' = "wait"
      BY <1>1 DEF Triggers
    <3>. QED
      BY <1>1, <3>1 DEF Next, vars, loop, Tick, FullscreenChanges, StoreEnabled, Type,
           MappingChanges, StoreSuppress, LoadKeyMap, ListenerStops, TakePress,
           TakePressAndAsk, FullscreenAnswer, TakeRelease, TakeMapping, TakeMappingFails,
           Take, Subscribe, LockChanges, ReadSignal, GetLockedHint, MatchSignal,
           MonitorFails, BusLost
  <2>2. SUFFICES ASSUME flag PROVE FALSE
    BY <1>1 DEF MonitorInv, Triggers
  <2>3. R!Blocked
    BY <2>1, <2>2 DEF Handle
  <2>. QED
    BY <1>1, <2>3 DEF Triggers, R!Blocked, R!Reset
<1>. QED
  BY <1>1, InitMonitor, NextMonitor, PTL DEF Spec, LockedSessionIsLeftAlone

-----------------------------------------------------------------------------
(* What the recognizer is fed. *)

\* A key event that is handled has a time; only presses repeat.
EventInv ==
    /\ \A i \in 1..Len(queue) : queue[i] # Mapping => (queue[i].repeat => queue[i].pressed)
    /\ event # Mapping => (event.repeat => event.pressed)
    /\ listener = "handle" => stamp \in Time

\* The types, with the recognizer's own invariant in place of its types.
WorldInv ==
    /\ now \in Time /\ server \in KeyMap /\ keymap \in KeyMap
    /\ fullscreen \in BOOLEAN /\ locked \in BOOLEAN
    /\ down \subseteq Code /\ changes \in 0..MaxChanges

SettingsInv ==
    /\ enabled \in BOOLEAN /\ suppress \in BOOLEAN /\ saving \in {{}, {TRUE}, {FALSE}}

LoopInv ==
    /\ queue \in Seq(RawKey \cup {Mapping})
    /\ listener \in {"off", "load", "wait", "query", "handle", "gone"}
    /\ event \in RawKey \cup {Mapping} /\ stamp \in Time \cup {R!Never}
    /\ fullscreen_blocked \in BOOLEAN
    /\ listener \in {"query", "handle"} => event # Mapping
    /\ behind \in BOOLEAN

LockInv ==
    /\ monitor \in {"get", "match", "listen", "failed", "none"}
    /\ missed \in BOOLEAN

TypeInv == WorldInv /\ SettingsInv /\ LoopInv /\ LockInv /\ EventInv

\* What the recognizer assumes of its constants is assumed of the listener's.
LEMMA RecognizerInstance == RP!RecognizerAssumption
BY ListenerAssumption DEF RP!RecognizerAssumption

\* The recognizer starts as in its own specification.
LEMMA RecognizerStarts == Init => RP!Init
BY DEF Init, R!Init, RP!Init, R!Idle, RP!Idle, R!Never, RP!Never

\* The key that is handled is one of the keyboard's.
LEMMA HandledKey ==
    ASSUME TypeInv, listener = "handle"
    PROVE  event \in RawKey /\ keymap[event.code] \in Key /\ stamp \in Time
BY ListenerAssumption DEF TypeInv, WorldInv, LoopInv, EventInv, RawKey

\* The recognizer's actions are those of its own specification.
LEMMA SameActions ==
    /\ R!Blocked => RP!Blocked
    /\ \A at \in Time : /\ R!Interrupted(at) => RP!Interrupted(at)
                        /\ R!OtherKey(at) => RP!OtherKey(at)
    /\ \A key \in Side, at \in Time :
         /\ R!ControlPressed(key, at) => RP!ControlPressed(key, at)
         /\ R!ControlReleased(key, at) => RP!ControlReleased(key, at)
<1>1. R!Blocked => RP!Blocked
  BY DEF R!Blocked, RP!Blocked, R!Counted, RP!Counted, R!Reset, RP!Reset, R!Idle, RP!Idle,
         R!Never, RP!Never
<1>2. ASSUME NEW at \in Time
      PROVE  /\ R!Interrupted(at) => RP!Interrupted(at)
             /\ R!OtherKey(at) => RP!OtherKey(at)
  BY DEF R!Interrupted, RP!Interrupted, R!InOrder, RP!InOrder, R!Counted, RP!Counted,
         R!Idle, RP!Idle, R!OtherKey, RP!OtherKey, R!Attempt, RP!Attempt, R!Expired, RP!Expired
<1>3. ASSUME NEW key \in Side, NEW at \in Time
      PROVE  /\ R!ControlPressed(key, at) => RP!ControlPressed(key, at)
             /\ R!ControlReleased(key, at) => RP!ControlReleased(key, at)
  <2>1. /\ R!InOrder(at) = RP!InOrder(at) /\ R!Attempt = RP!Attempt
        /\ \A p \in BOOLEAN : R!ControlEvent(key, p, at) = RP!ControlEvent(key, p, at)
    BY DEF R!InOrder, RP!InOrder, R!Counted, RP!Counted, R!Attempt, RP!Attempt,
           R!ControlEvent, RP!ControlEvent
  <2>2. R!Expired(state, at) = RP!Expired(state, at)
    BY DEF R!Expired, RP!Expired, R!Idle, RP!Idle
  <2>3. \A x : /\ R!AfterPress(x, key, at) = RP!AfterPress(x, key, at)
               /\ R!EndsTap(x, key, at) = RP!EndsTap(x, key, at)
    BY DEF R!AfterPress, RP!AfterPress, R!EndsTap, RP!EndsTap, R!PressOf, RP!PressOf,
           R!KeysMatch, RP!KeysMatch
  <2>4. R!ArmedBy(key, at) = RP!ArmedBy(key, at) /\ R!Idle = RP!Idle
    BY DEF R!ArmedBy, RP!ArmedBy, R!Idle, RP!Idle
  <2>5. R!ControlPressed(key, at) => RP!ControlPressed(key, at)
    BY <2>1, <2>2, <2>3 DEF R!ControlPressed, RP!ControlPressed
  <2>6. R!ControlReleased(key, at) => RP!ControlReleased(key, at)
    BY <2>1, <2>2, <2>3, <2>4 DEF R!ControlReleased, RP!ControlReleased
  <2>. QED
    BY <2>5, <2>6
<1>. QED
  BY <1>1, <1>2, <1>3

\* What the two specifications say of the recognizer's state is the same.
LEMMA SameProperties ==
    /\ RP!TypeOK => R!TypeOK
    /\ RP!EndsInDoubleTap(heard) => R!EndsInDoubleTap(heard)
<1>1. RP!TypeOK => R!TypeOK
  BY DEF RP!TypeOK, R!TypeOK, RP!Idle, R!Idle, RP!Pressed, R!Pressed, RP!Armed, R!Armed,
         RP!Never, R!Never, RP!Side, R!Side
<1>2. RP!EndsInDoubleTap(heard) => R!EndsInDoubleTap(heard)
  BY DEF RP!EndsInDoubleTap, R!EndsInDoubleTap, RP!IsDoubleTap, R!IsDoubleTap,
         RP!IsTap, R!IsTap, RP!KeysMatch, R!KeysMatch
<1>. QED
  BY <1>1, <1>2

\* Whatever the listener does is a step of the recognizer, or none.
LEMMA StepOfRecognizer ==
    ASSUME TypeInv, [Next]_vars
    PROVE  [RP!Next]_(RP!vars)
<1>1. CASE Handle
  <2>1. event \in RawKey /\ keymap[event.code] \in Key /\ stamp \in Time
    BY <1>1, HandledKey DEF Handle
  <2>2. CASE R!Blocked
    BY <2>2, SameActions DEF RP!Next
  <2>3. CASE Recognize(keymap[event.code])
    BY <2>1, <2>3, SameActions DEF Recognize, RP!Next, RP!Side, Side
  <2>. QED
    BY <1>1, <2>2, <2>3 DEF Handle
<1>2. CASE TakeMapping
  BY <1>2, SameActions DEF TakeMapping, RP!Next
<1>3. CASE UNCHANGED recognizer
  BY <1>3 DEF recognizer, RP!vars
<1>. QED
  BY <1>1, <1>2, <1>3
     DEF Next, vars, Tick, FullscreenChanges, StoreEnabled, Type, MappingChanges,
         StoreSuppress, LoadKeyMap, ListenerStops, TakePress, TakePressAndAsk,
         FullscreenAnswer, TakeRelease, TakeMappingFails, Subscribe, LockChanges,
         ReadSignal, GetLockedHint, MatchSignal, MonitorFails, BusLost

\* What update has still to store is a Boolean.
LEMMA StoredValues == \A S \in {{}, {TRUE}, {FALSE}} : \A on \in S : on \in BOOLEAN
<1>1. ASSUME NEW S, S = {}, NEW on \in S
      PROVE  on \in BOOLEAN
  BY <1>1
<1>2. ASSUME NEW S, S = {TRUE}, NEW on \in S
      PROVE  on \in BOOLEAN
  BY <1>2
<1>3. ASSUME NEW S, S = {FALSE}, NEW on \in S
      PROVE  on \in BOOLEAN
  BY <1>3
<1>. QED
  BY <1>1, <1>2, <1>3

\* The world and the settings keep their types.
LEMMA WorldKeepsTypes ==
    ASSUME TypeInv, [Next]_vars
    PROVE  WorldInv' /\ SettingsInv' /\ LockInv'
<1>1. WorldInv'
  <2>1. CASE UNCHANGED world /\ keymap' \in {keymap, server}
    BY <2>1 DEF TypeInv, WorldInv, world
  <2>2. CASE Tick
    BY <2>2 DEF Tick, TypeInv, WorldInv, loop
  <2>3. ASSUME NEW code \in Code, NEW pressed \in BOOLEAN, NEW repeat \in BOOLEAN,
               Type(code, pressed, repeat)
        PROVE  WorldInv'
    BY <2>3 DEF Type, TypeInv, WorldInv, loop
  <2>4. ASSUME NEW m \in KeyMap, MappingChanges(m)
        PROVE  WorldInv'
    BY <2>4, ListenerAssumption DEF MappingChanges, Changed, TypeInv, WorldInv, loop
  <2>5. CASE FullscreenChanges
    BY <2>5, ListenerAssumption DEF FullscreenChanges, Changed, TypeInv, WorldInv, loop
  <2>6. CASE LockChanges
    BY <2>6, ListenerAssumption DEF LockChanges, Changed, TypeInv, WorldInv, loop
  <2>7. ASSUME NEW on \in BOOLEAN, NEW hidden \in BOOLEAN, StoreSuppress(on, hidden)
        PROVE  WorldInv'
    BY <2>7, ListenerAssumption DEF StoreSuppress, Changed, TypeInv, WorldInv, loop
  <2>. QED
    BY <2>1, <2>2, <2>3, <2>4, <2>5, <2>6, <2>7
       DEF Next, vars, loop, StoreEnabled, LoadKeyMap, ListenerStops, TakePress, TakePressAndAsk,
           FullscreenAnswer, TakeRelease, TakeMapping, TakeMappingFails, Handle, Subscribe,
           ReadSignal, GetLockedHint, MatchSignal, MonitorFails, BusLost
<1>2. SettingsInv'
  <2>1. CASE UNCHANGED settings
    BY <2>1 DEF TypeInv, SettingsInv, settings
  <2>2. ASSUME NEW on \in BOOLEAN, NEW hidden \in BOOLEAN, StoreSuppress(on, hidden)
        PROVE  SettingsInv'
    BY <2>2 DEF StoreSuppress, TypeInv, SettingsInv
  <2>3. CASE StoreEnabled
    <3>1. saving \in {{}, {TRUE}, {FALSE}} /\ suppress \in BOOLEAN
      BY DEF TypeInv, SettingsInv
    <3>2. enabled' \in saving /\ saving' = {} /\ suppress' = suppress
      BY <2>3 DEF StoreEnabled
    <3>3. enabled' \in BOOLEAN
      BY <3>1, <3>2, StoredValues
    <3>. QED
      BY <3>1, <3>2, <3>3 DEF SettingsInv
  <2>. QED
    BY <2>1, <2>2, <2>3
       DEF Next, vars, Tick, Type, MappingChanges, FullscreenChanges, LockChanges, LoadKeyMap,
           ListenerStops, TakePress, TakePressAndAsk, FullscreenAnswer, TakeRelease, TakeMapping,
           TakeMappingFails, Handle, Subscribe, ReadSignal, GetLockedHint, MatchSignal,
           MonitorFails, BusLost
<1>3. LockInv'
  <2>1. CASE UNCHANGED <<monitor, missed>>
    BY <2>1 DEF TypeInv, LockInv
  <2>2. CASE LockChanges
    BY <2>2 DEF LockChanges, TypeInv, LockInv
  <2>3. CASE GetLockedHint \/ MatchSignal \/ MonitorFails \/ BusLost
    BY <2>3 DEF GetLockedHint, MatchSignal, MonitorFails, BusLost, TypeInv, LockInv
  <2>. QED
    BY <2>1, <2>2, <2>3
       DEF Next, vars, lock, Tick, Type, MappingChanges, FullscreenChanges, StoreSuppress,
           StoreEnabled, LoadKeyMap, ListenerStops, TakePress, TakePressAndAsk, FullscreenAnswer,
           TakeRelease, TakeMapping, TakeMappingFails, Handle, Subscribe, ReadSignal
<1>. QED
  BY <1>1, <1>2, <1>3

\* An event that is appended to the queue.
LEMMA QueuedLast ==
    ASSUME TypeInv, NEW e \in RawKey \cup {Mapping}, queue' = Append(queue, e)
    PROVE  /\ queue' \in Seq(RawKey \cup {Mapping})
           /\ Len(queue') = Len(queue) + 1 /\ Len(queue) \in Nat
           /\ queue'[Len(queue) + 1] = e
           /\ \A i \in 1..Len(queue) : queue'[i] = queue[i]
BY DEF TypeInv, LoopInv

\* The event at the head is taken, and the others move up.
LEMMA TakenFirst ==
    ASSUME TypeInv, Take
    PROVE  /\ Head(queue) = queue[1] /\ queue[1] \in RawKey \cup {Mapping}
           /\ 1 \in 1..Len(queue) /\ Len(queue) \in Nat
           /\ queue' \in Seq(RawKey \cup {Mapping})
           /\ Len(queue') = Len(queue) - 1 /\ Len(queue') \in Nat
           /\ \A i \in 1..Len(queue') : i + 1 \in 1..Len(queue) /\ queue'[i] = queue[i + 1]
<1>1. queue \in Seq(RawKey \cup {Mapping}) /\ queue # <<>> /\ queue' = Tail(queue)
  BY DEF TypeInv, LoopInv, Take
<1>2. Len(queue) \in Nat /\ Len(queue) > 0
  BY <1>1
<1>3. 1 \in 1..Len(queue)
  BY <1>2
<1>4. queue' \in Seq(RawKey \cup {Mapping}) /\ Len(queue') = Len(queue) - 1
  BY <1>1, <1>2
<1>5. \A i \in 1..Len(queue') : i + 1 \in 1..Len(queue) /\ queue'[i] = queue[i + 1]
  BY <1>1, <1>2, <1>4
<1>. QED
  BY <1>1, <1>2, <1>3, <1>4, <1>5

\* So do the queue, the event in hand and the listener.
LEMMA LoopKeepsTypes ==
    ASSUME TypeInv, [Next]_vars
    PROVE  LoopInv' /\ EventInv'
<1> DEFINE Repeats(e) == e # Mapping => (e.repeat => e.pressed)
<1>1. /\ Mapping \in RawKey \cup {Mapping} /\ R!Never \in Time \cup {R!Never}
      /\ now \in Time /\ fullscreen \in BOOLEAN
  BY DEF TypeInv, WorldInv
<1>2. ASSUME Take
      PROVE  /\ queue' \in Seq(RawKey \cup {Mapping})
             /\ \A i \in 1..Len(queue') : Repeats(queue'[i])
             /\ Head(queue) \in RawKey \cup {Mapping} /\ Repeats(Head(queue))
  <2>1. \A i \in 1..Len(queue) : Repeats(queue[i])
    BY DEF TypeInv, EventInv
  <2>. QED
    BY <1>2, <2>1, TakenFirst
<1>3. CASE UNCHANGED <<queue, loop, behind>>
  BY <1>3 DEF TypeInv, LoopInv, EventInv, loop
<1>4. ASSUME NEW e \in RawKey \cup {Mapping}, Repeats(e), queue' = Append(queue, e),
             UNCHANGED <<loop, behind>>
      PROVE  LoopInv' /\ EventInv'
  <2>1. \A i \in 1..Len(queue') : i \in 1..Len(queue) \/ i = Len(queue) + 1
    BY <1>4, QueuedLast
  <2>2. \A i \in 1..Len(queue') : Repeats(queue'[i])
    BY <1>4, <2>1, QueuedLast DEF TypeInv, EventInv
  <2>. QED
    BY <1>4, <2>2, QueuedLast DEF TypeInv, LoopInv, EventInv, loop
<1>5. ASSUME NEW code \in Code, NEW pressed \in BOOLEAN, NEW repeat \in BOOLEAN,
             Type(code, pressed, repeat)
      PROVE  LoopInv' /\ EventInv'
  <2> DEFINE e == [key |-> server[code], code |-> code, pressed |-> pressed,
                   repeat |-> repeat, at |-> now]
  <2>1. e \in RawKey
    BY <1>1, ListenerAssumption DEF TypeInv, WorldInv, RawKey
  <2>2. Repeats(e)
    BY <1>5 DEF Type
  <2>3. queue' = Append(queue, e) /\ UNCHANGED <<loop, behind>>
    BY <1>5 DEF Type, history
  <2>. QED
    BY <1>4, <2>1, <2>2, <2>3
<1>6. ASSUME NEW m \in KeyMap, MappingChanges(m)
      PROVE  LoopInv' /\ EventInv'
  <2>1. Repeats(Mapping)
    OBVIOUS
  <2>2. UNCHANGED <<loop, behind>> /\ (queue' = queue \/ queue' = Append(queue, Mapping))
    BY <1>6 DEF MappingChanges, history
  <2>. QED
    BY <1>3, <1>4, <2>1, <2>2
<1>7. CASE TakePress \/ TakeRelease
  <2>1. /\ Take /\ listener' = "handle" /\ event' = Head(queue) /\ Head(queue) # Mapping
        /\ stamp' = now /\ fullscreen_blocked' \in {FALSE, fullscreen_blocked}
        /\ behind' = (behind \/ Late(Head(queue)))
    BY <1>7 DEF TakePress, TakeRelease
  <2>2. behind' \in BOOLEAN /\ fullscreen_blocked' \in BOOLEAN
    BY <2>1, Zenon DEF TypeInv, LoopInv, Late
  <2>. QED
    BY <1>1, <1>2, <2>1, <2>2 DEF LoopInv, EventInv
<1>8. CASE TakePressAndAsk
  <2>1. /\ Take /\ listener' = "query" /\ event' = Head(queue) /\ Head(queue) # Mapping
        /\ UNCHANGED <<stamp, fullscreen_blocked>>
        /\ behind' = (behind \/ Late(Head(queue)))
    BY <1>8 DEF TakePressAndAsk
  <2>2. behind' \in BOOLEAN
    BY <2>1, Zenon DEF TypeInv, LoopInv, Late
  <2>. QED
    BY <1>2, <2>1, <2>2 DEF TypeInv, LoopInv, EventInv
<1>9. CASE FullscreenAnswer
  <2>1. behind' \in BOOLEAN
    BY <1>9 DEF FullscreenAnswer
  <2>. QED
    BY <1>1, <1>9, <2>1 DEF FullscreenAnswer, TypeInv, LoopInv, EventInv
<1>10. CASE TakeMapping \/ TakeMappingFails
  <2>1. /\ Take /\ listener = "wait" /\ UNCHANGED <<listener, event, stamp, fullscreen_blocked>>
        /\ behind' \in BOOLEAN
    BY <1>10 DEF TakeMapping, TakeMappingFails, Take, loop
  <2>. QED
    BY <1>2, <2>1 DEF TypeInv, LoopInv, EventInv
<1>11. CASE Handle \/ Subscribe \/ LoadKeyMap \/ ListenerStops
  <2>1. /\ queue' = queue /\ fullscreen_blocked' = fullscreen_blocked
        /\ listener' \in {"wait", "load", "gone"}
        /\ event' \in {Mapping, event} /\ stamp' \in {R!Never, stamp}
        /\ behind' \in BOOLEAN
    BY <1>11 DEF Handle, Subscribe, LoadKeyMap, ListenerStops, history, TypeInv, LoopInv
  <2>. QED
    BY <1>1, <2>1 DEF TypeInv, LoopInv, EventInv
<1>. QED
  BY <1>3, <1>5, <1>6, <1>7, <1>8, <1>9, <1>10, <1>11
     DEF Next, vars, history, Tick, FullscreenChanges, LockChanges, StoreSuppress, StoreEnabled,
         GetLockedHint, MatchSignal, MonitorFails, ReadSignal, BusLost

\* What the listener knows, as long as it keeps up: the events are those that were
\* typed, the key in hand had its meaning by the mapping the listener has, and that
\* is the one in force unless a change of it waits in the queue.
StartInv == listener \in {"off", "load"} => ~behind

InHandInv ==
    ~behind =>
        /\ real = heard
        /\ listener \in {"query", "handle"} => event.key = keymap[event.code]
        /\ listener = "handle" => stamp = event.at

MappingInv ==
    ~behind /\ listener \in {"wait", "query", "handle"} =>
        /\ queue = <<>> => keymap = server
        /\ Len(queue) = 1 /\ queue[1] # Mapping => keymap = server
        /\ queue # <<>> /\ queue[1] # Mapping => queue[1].key = keymap[queue[1].code]

KeepsUpInv == StartInv /\ InHandInv /\ MappingInv

ListenerInv == MonitorInv /\ TypeInv /\ RP!TapInv /\ KeepsUpInv

\* A listener that takes an event and keeps up had only that event to take, and had
\* the mapping in force.
LEMMA TakenInTime ==
    ASSUME TypeInv, KeepsUpInv, Take, Head(queue) # Mapping, ~behind,
           ~Late(Head(queue))
    PROVE  /\ queue' = <<>> /\ keymap = server /\ Head(queue) = queue[1]
           /\ queue[1].key = keymap[queue[1].code] /\ now = queue[1].at
<1>1. /\ Head(queue) = queue[1] /\ queue # <<>> /\ Len(queue) \in Nat /\ 1 \in 1..Len(queue)
      /\ Len(queue') = Len(queue) - 1 /\ queue' \in Seq(RawKey \cup {Mapping})
  BY TakenFirst DEF Take
<1>2. ~(Len(queue) > 1) /\ now = queue[1].at
  BY <1>1 DEF Late
<1>3. Len(queue) = 1
  BY <1>1, <1>2
<1>4. queue' = <<>>
  BY <1>1, <1>3
<1>. QED
  BY <1>1, <1>2, <1>3, <1>4 DEF KeepsUpInv, MappingInv, Take

\* What was typed is what the recognizer heard, when the event is handled in time.
LEMMA HandledIsTyped ==
    ASSUME TypeInv, KeepsUpInv, Handle, ~behind
    PROVE  real' = heard'
<1>1. /\ real = heard /\ event.key = keymap[event.code] /\ stamp = event.at
      /\ event # Mapping /\ (event.repeat => event.pressed)
      /\ event \in RawKey
  BY HandledKey DEF Handle, TypeInv, LoopInv, EventInv, KeepsUpInv, InHandInv
<1> DEFINE blocked == ~enabled \/ flag \/ fullscreen_blocked
<1>2. real' = Typed(event, blocked)
  BY DEF Handle
<1>3. CASE blocked
  BY <1>2, <1>3 DEF Handle, Typed, R!Blocked, R!Reset
<1>4. CASE ~blocked /\ (event.repeat \/ (event.key = "NonModifier" /\ event.pressed))
  <2>1. Recognize(event.key) /\ real' = <<>>
    BY <1>1, <1>2, <1>4 DEF Handle, Typed
  <2>2. R!Interrupted(stamp)
    BY <1>1, <1>4, <2>1 DEF Recognize, Side
  <2>. QED
    BY <2>1, <2>2 DEF R!Interrupted
<1>5. CASE /\ ~blocked /\ ~event.repeat /\ ~(event.key = "NonModifier" /\ event.pressed)
           /\ event.key \notin Side
  <2>1. Recognize(event.key) /\ real' = R!Attempt
    BY <1>1, <1>2, <1>5 DEF Handle, Typed, R!Attempt
  <2>2. R!OtherKey(stamp)
    BY <1>5, <2>1 DEF Recognize
  <2>. QED
    BY <2>1, <2>2 DEF R!OtherKey
<1>6. CASE ~blocked /\ ~event.repeat /\ event.key \in Side
  <2>1. /\ Recognize(event.key)
        /\ real' = Append(R!Attempt, R!ControlEvent(event.key, event.pressed, event.at))
    BY <1>1, <1>2, <1>6 DEF Handle, Typed, R!Attempt, Side
  <2>2. \/ event.pressed /\ R!ControlPressed(event.key, stamp)
        \/ ~event.pressed /\ R!ControlReleased(event.key, stamp)
    BY <1>6, <2>1 DEF Recognize, Side
  <2>3. event.pressed \in BOOLEAN
    BY <1>1 DEF RawKey
  <2>. QED
    BY <1>1, <2>1, <2>2, <2>3 DEF R!ControlPressed, R!ControlReleased
<1>. QED
  BY <1>3, <1>4, <1>5, <1>6

\* The listener knows it after every step.
LEMMA NextKeepsUp ==
    ASSUME TypeInv, KeepsUpInv, [Next]_vars
    PROVE  KeepsUpInv'
<1> USE DEF KeepsUpInv, StartInv, InHandInv, MappingInv
<1>1. CASE UNCHANGED <<server, queue, loop, recognizer, history>>
  BY <1>1 DEF loop, recognizer, history
<1>2. ASSUME NEW code \in Code, NEW pressed \in BOOLEAN, NEW repeat \in BOOLEAN,
             Type(code, pressed, repeat)
      PROVE  KeepsUpInv'
  <2> DEFINE e == [key |-> server[code], code |-> code, pressed |-> pressed,
                   repeat |-> repeat, at |-> now]
  <2>1. /\ queue' = Append(queue, e)
        /\ UNCHANGED <<server, loop, recognizer, history>>
    BY <1>2 DEF Type
  <2>2. e \in RawKey
    BY ListenerAssumption DEF TypeInv, WorldInv, RawKey
  <2>3. /\ Len(queue') = Len(queue) + 1 /\ Len(queue) \in Nat
        /\ queue'[Len(queue) + 1] = e
        /\ \A i \in 1..Len(queue) : queue'[i] = queue[i]
    BY <2>1, <2>2, QueuedLast
  <2>4. StartInv' /\ InHandInv'
    BY <2>1 DEF loop, recognizer, history
  <2>5. CASE queue = <<>>
    <3>1. queue' # <<>> /\ queue'[1] = e
      BY <2>3, <2>5
    <3>2. e.key = server[e.code]
      OBVIOUS
    <3>. QED
      BY <2>1, <2>4, <2>5, <3>1, <3>2 DEF loop, history
  <2>6. CASE queue # <<>>
    <3>1. Len(queue) >= 1
      BY <2>6 DEF TypeInv, LoopInv
    <3>2. queue' # <<>> /\ Len(queue') # 1 /\ queue'[1] = queue[1]
      BY <2>3, <3>1
    <3>. QED
      BY <2>1, <2>4, <2>6, <3>2 DEF loop, history
  <2>. QED
    BY <2>5, <2>6
<1>3. ASSUME NEW m \in KeyMap, MappingChanges(m)
      PROVE  KeepsUpInv'
  <2>1. UNCHANGED <<loop, recognizer, history>>
    BY <1>3 DEF MappingChanges
  <2>2. StartInv' /\ InHandInv'
    BY <2>1 DEF loop, recognizer, history
  <2>3. CASE ~Subscribed
    BY <2>1, <2>2, <2>3 DEF Subscribed, loop
  <2>4. CASE Subscribed
    <3>1. queue' = Append(queue, Mapping)
      BY <1>3, <2>4 DEF MappingChanges
    <3>2. /\ Len(queue') = Len(queue) + 1 /\ Len(queue) \in Nat
          /\ queue'[Len(queue) + 1] = Mapping
          /\ \A i \in 1..Len(queue) : queue'[i] = queue[i]
      BY <3>1, QueuedLast
    <3>3. CASE queue = <<>>
      <4>1. queue' # <<>> /\ queue'[1] = Mapping
        BY <3>2, <3>3
      <4>. QED
        BY <2>2, <4>1
    <3>4. CASE queue # <<>>
      <4>1. Len(queue) >= 1
        BY <3>4 DEF TypeInv, LoopInv
      <4>2. queue' # <<>> /\ Len(queue') # 1 /\ queue'[1] = queue[1]
        BY <3>2, <4>1
      <4>. QED
        BY <2>1, <2>2, <3>4, <4>2 DEF loop, history
    <3>. QED
      BY <3>3, <3>4
  <2>. QED
    BY <2>3, <2>4
<1>4. CASE TakePress \/ TakeRelease
  <2>1. /\ Take /\ Head(queue) # Mapping /\ listener = "wait" /\ listener' = "handle"
        /\ event' = Head(queue) /\ stamp' = now /\ behind' = (behind \/ Late(Head(queue)))
        /\ UNCHANGED <<server, keymap, recognizer, real>>
    BY <1>4 DEF TakePress, TakeRelease, Take, world
  <2>2. CASE behind'
    BY <2>1, <2>2
  <2>3. CASE ~behind'
    BY <2>1, <2>3, TakenInTime DEF recognizer
  <2>. QED
    BY <2>2, <2>3
<1>5. CASE TakePressAndAsk
  <2>1. /\ Take /\ Head(queue) # Mapping /\ listener = "wait" /\ listener' = "query"
        /\ event' = Head(queue) /\ behind' = (behind \/ Late(Head(queue)))
        /\ UNCHANGED <<server, keymap, recognizer, real>>
    BY <1>5 DEF TakePressAndAsk, Take, world
  <2>2. CASE behind'
    BY <2>1, <2>2
  <2>3. CASE ~behind'
    BY <2>1, <2>3, TakenInTime DEF recognizer
  <2>. QED
    BY <2>2, <2>3
<1>6. CASE FullscreenAnswer
  BY <1>6 DEF FullscreenAnswer, world, recognizer
<1>7. CASE TakeMapping
  <2>1. /\ Take /\ listener = "wait" /\ UNCHANGED <<server, listener>>
        /\ keymap' = server /\ real' = <<>> /\ heard' = <<>>
        /\ behind' = (behind \/ Len(queue) > 1)
    BY <1>7 DEF TakeMapping, Take, world, R!Blocked, R!Reset
  <2>2. CASE behind'
    BY <2>1, <2>2
  <2>3. CASE ~behind'
    <3>1. Len(queue') = Len(queue) - 1 /\ Len(queue) \in Nat /\ 1 \in 1..Len(queue)
          /\ queue' \in Seq(RawKey \cup {Mapping}) /\ ~(Len(queue) > 1)
      BY <2>1, <2>3, TakenFirst
    <3>2. queue' = <<>>
      BY <3>1
    <3>. QED
      BY <2>1, <3>2
  <2>. QED
    BY <2>2, <2>3
<1>8. CASE TakeMappingFails
  BY <1>8 DEF TakeMappingFails, Take, loop
<1>9. CASE Handle
  <2>1. /\ listener = "handle" /\ listener' = "wait"
        /\ UNCHANGED <<server, queue, keymap, behind>>
    BY <1>9 DEF Handle, world
  <2>2. ~behind => real' = heard'
    BY <1>9, HandledIsTyped
  <2>. QED
    BY <2>1, <2>2
<1>10. CASE LoadKeyMap
  <2>1. /\ listener = "load" /\ listener' = "wait" /\ keymap' = server
        /\ behind' = (queue # <<>>) /\ UNCHANGED <<server, queue, real, recognizer>>
    BY <1>10 DEF LoadKeyMap, world
  <2>. QED
    BY <2>1 DEF recognizer
<1>11. CASE Subscribe \/ ListenerStops
  BY <1>11 DEF Subscribe, ListenerStops, world, recognizer, history
<1>. QED
  BY <1>1, <1>2, <1>3, <1>4, <1>5, <1>6, <1>7, <1>8, <1>9, <1>10, <1>11
     DEF Next, vars, world, Tick, FullscreenChanges, LockChanges, StoreSuppress, StoreEnabled,
         GetLockedHint, MatchSignal, MonitorFails, ReadSignal, BusLost

\* All of it holds initially.
LEMMA InitListener == Init => ListenerInv
<1>1. SUFFICES ASSUME Init PROVE ListenerInv
  OBVIOUS
<1>2. MonitorInv
  BY <1>1, InitMonitor
<1>3. RP!TapInv
  BY <1>1, RecognizerStarts, RecognizerInstance, RP!InitTap
<1>4. WorldInv
  <2>1. /\ now \in Time /\ server \in KeyMap /\ keymap = server
        /\ fullscreen = FALSE /\ locked \in BOOLEAN /\ down = {} /\ changes = 0
    BY <1>1 DEF Init
  <2>2. 0 \in 0..MaxChanges
    BY ListenerAssumption
  <2>. QED
    BY <2>1, <2>2 DEF WorldInv
<1>5. <<>> \in Seq(RawKey \cup {Mapping}) /\ Len(<<>>) = 0
  OBVIOUS
<1>6. TypeInv
  <2>1. SettingsInv /\ LockInv
    BY <1>1 DEF Init, SettingsInv, LockInv
  <2>2. /\ queue = <<>> /\ listener = "off" /\ event = Mapping /\ stamp = R!Never
        /\ fullscreen_blocked = FALSE /\ behind = FALSE
    BY <1>1 DEF Init
  <2>3. LoopInv
    BY <1>5, <2>2 DEF LoopInv
  <2>4. EventInv
    BY <2>2 DEF EventInv
  <2>. QED
    BY <1>4, <2>1, <2>3, <2>4 DEF TypeInv
<1>7. KeepsUpInv
  BY <1>1 DEF Init, R!Init, KeepsUpInv, StartInv, InHandInv, MappingInv
<1>. QED
  BY <1>2, <1>3, <1>6, <1>7 DEF ListenerInv

\* And after every step.
LEMMA NextListener == ListenerInv /\ [Next]_vars => ListenerInv'
<1>1. SUFFICES ASSUME ListenerInv, [Next]_vars PROVE ListenerInv'
  OBVIOUS
<1>2. TypeInv'
  BY <1>1, WorldKeepsTypes, LoopKeepsTypes DEF ListenerInv, TypeInv
<1>3. RP!TapInv'
  BY <1>1, StepOfRecognizer, RecognizerInstance, RP!NextTap DEF ListenerInv
<1>. QED
  BY <1>1, <1>2, <1>3, NextMonitor, NextKeepsUp DEF ListenerInv

\* The variables have their types, and a listener runs beside a monitor only.
THEOREM TypeCorrect == Spec => []TypeOK
<1>1. ListenerInv => TypeOK
  <2>1. SUFFICES ASSUME ListenerInv PROVE TypeOK
    OBVIOUS
  <2>2. R!TypeOK
    BY <2>1, SameProperties DEF ListenerInv, RP!TapInv
  <2>. QED
    BY <2>1, <2>2 DEF ListenerInv, MonitorInv, TypeInv, WorldInv, SettingsInv, LoopInv,
                      LockInv, TypeOK
<1>. QED
  BY <1>1, InitListener, NextListener, PTL DEF Spec

\* A listener that keeps up recognizes the gesture only when the user has typed it,
\* whatever the keyboard, its mappings, their changes, the times and the settings.
THEOREM TriggersOnlyOnWhatWasTyped == Spec => []TriggerNeedsRealDoubleTap
<1>1. ListenerInv => TriggerNeedsRealDoubleTap
  <2>1. SUFFICES ASSUME ListenerInv, decision = "Triggered", ~behind
                 PROVE  R!EndsInDoubleTap(real)
    BY DEF TriggerNeedsRealDoubleTap
  <2>2. real = heard
    BY <2>1 DEF ListenerInv, KeepsUpInv, InHandInv
  <2>3. RP!EndsInDoubleTap(heard)
    BY <2>1 DEF ListenerInv, RP!TapInv, RP!TriggerNeedsDoubleTap
  <2>. QED
    BY <2>2, <2>3, SameProperties
<1>. QED
  BY <1>1, InitListener, NextListener, PTL DEF Spec

\* The listener only ever drives the recognizer as the recognizer's own specification
\* allows, with times and keys that specification knows: whatever is proved about
\* DoubleCtrlRecognizer holds inside run_event_loop, too.
THEOREM ListenerImplementsRecognizer == Spec => RP!Spec
<1>1. ListenerInv /\ [Next]_vars => [RP!Next]_(RP!vars)
  BY StepOfRecognizer DEF ListenerInv
<1>. QED
  BY <1>1, RecognizerStarts, InitListener, NextListener, PTL DEF Spec, RP!Spec

=============================================================================
