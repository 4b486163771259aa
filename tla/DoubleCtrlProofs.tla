-------------------------- MODULE DoubleCtrlProofs --------------------------
(***************************************************************************)
(* Proofs about the recognizer, for every hold, every gap, every set of    *)
(* times and any number of events.                                         *)
(***************************************************************************)
EXTENDS DoubleCtrl, TLAPS

ControlEvents == [key : Side, pressed : BOOLEAN, at : Time]

\* What the state remembers of the events: a press that is not part of a chord
\* is the last Control event; a second one follows a tap, and so does Armed.
PressRemembered ==
    state.kind = "Pressed" /\ ~state.chorded =>
        /\ Len(heard) >= 1
        /\ heard[Len(heard)] = ControlEvent(state.key, TRUE, state.at)

SecondFollowsTap ==
    state.kind = "Pressed" /\ ~state.chorded /\ state.tap = "Second" =>
        /\ Len(heard) >= 3
        /\ IsTap(heard[Len(heard) - 2], heard[Len(heard) - 1])
        /\ KeysMatch(heard[Len(heard) - 1].key, state.key)
        /\ 0 <= state.at - heard[Len(heard) - 1].at
        /\ state.at - heard[Len(heard) - 1].at <= MaxGap

ArmedByTap ==
    state.kind = "Armed" =>
        /\ Len(heard) >= 2
        /\ IsTap(heard[Len(heard) - 1], heard[Len(heard)])
        /\ heard[Len(heard)] = ControlEvent(state.key, FALSE, state.at)

IdleAfterTrigger == decision = "Triggered" => state.kind = "Idle"

TapInv == /\ TypeOK
          /\ PressRemembered
          /\ SecondFollowsTap
          /\ ArmedByTap
          /\ IdleAfterTrigger
          /\ TriggerNeedsDoubleTap

\* The shapes of the three states, field by field.
LEMMA StateFields ==
    ASSUME NEW s \in {Idle} \cup Pressed \cup Armed
    PROVE  /\ s.kind \in {"Idle", "Pressed", "Armed"}
           /\ s.kind = "Idle" => s = Idle
           /\ s.kind = "Pressed" => s \in Pressed
           /\ s.kind = "Armed" => s \in Armed
  BY DEF Idle, Pressed, Armed

\* expire leaves the state as it is or goes to Idle.
LEMMA ExpiredStates ==
    ASSUME NEW s \in {Idle} \cup Pressed \cup Armed, NEW now \in Time
    PROVE  Expired(s, now) = s \/ Expired(s, now) = Idle
  BY DEF Expired

\* on_control_pressed leads to Pressed: chorded, the second tap of an armed
\* state within the gap, or the first.
LEMMA PressedStates ==
    ASSUME NEW s \in {Idle} \cup Pressed \cup Armed,
           NEW key \in Side, NEW at \in Time
    PROVE  \/ /\ s.kind = "Armed" /\ at >= s.at /\ at - s.at <= MaxGap
              /\ KeysMatch(s.key, key)
              /\ AfterPress(s, key, at) = PressOf(key, at, "Second", FALSE)
           \/ /\ s.kind = "Pressed"
              /\ AfterPress(s, key, at) \in Pressed
              /\ AfterPress(s, key, at).chorded
           \/ AfterPress(s, key, at) = PressOf(key, at, "First", FALSE)
  <1>1. CASE s.kind = "Armed" /\ at >= s.at /\ at - s.at <= MaxGap /\ KeysMatch(s.key, key)
    BY <1>1 DEF AfterPress
  <1>2. CASE s.kind = "Pressed"
    <2>1. s \in Pressed
      BY <1>2, StateFields
    <2>2. AfterPress(s, key, at) = [s EXCEPT !.chorded = TRUE]
      BY <1>2 DEF AfterPress
    <2>3. QED
      BY <1>2, <2>1, <2>2 DEF Pressed
  <1>3. CASE /\ ~(s.kind = "Armed" /\ at >= s.at /\ at - s.at <= MaxGap /\ KeysMatch(s.key, key))
             /\ s.kind # "Pressed"
    BY <1>3 DEF AfterPress
  <1>4. QED
    BY <1>1, <1>2, <1>3

\* The recognizer starts idle, having heard nothing.
LEMMA InitTap == Init => TapInv
  BY RecognizerAssumption
     DEF Init, TapInv, TypeOK, PressRemembered, SecondFollowsTap, ArmedByTap,
         IdleAfterTrigger, TriggerNeedsDoubleTap, Idle, Never

\* Whatever ends in Idle and None keeps the invariant.
LEMMA IdleKeepsTap ==
    ASSUME state' = Idle, decision' = "None",
           last_event_at' \in Time \cup {Never},
           events' \in Nat,
           heard' \in Seq(ControlEvents)
    PROVE  TapInv'
  BY DEF TapInv, TypeOK, PressRemembered, SecondFollowsTap, ArmedByTap,
         IdleAfterTrigger, TriggerNeedsDoubleTap, Idle, ControlEvents

\* The history of the attempt in progress, and what is appended to it.
LEMMA HeardTypes ==
    ASSUME TapInv, NEW key \in Side, NEW pressed \in BOOLEAN, NEW at \in Time
    PROVE  LET e == ControlEvent(key, pressed, at)
           IN  /\ Attempt \in Seq(ControlEvents)
               /\ state.kind # "Idle" => Attempt = heard
               /\ e \in ControlEvents
               /\ Append(Attempt, e) \in Seq(ControlEvents)
               /\ Len(Append(Attempt, e)) = Len(Attempt) + 1
               /\ Len(Attempt) \in Nat
               /\ Append(Attempt, e)[Len(Attempt) + 1] = e
               /\ \A i \in 1..Len(Attempt) : Append(Attempt, e)[i] = Attempt[i]
  <1>1. Attempt \in Seq(ControlEvents)
    BY DEF TapInv, TypeOK, Attempt, ControlEvents
  <1>2. ControlEvent(key, pressed, at) \in ControlEvents
    BY DEF ControlEvent, ControlEvents
  <1>3. state.kind # "Idle" => Attempt = heard
    BY DEF TapInv, IdleAfterTrigger, Attempt
  <1>4. QED
    BY <1>1, <1>2, <1>3

\* Events that are not about Control.
LEMMA OtherKeyTap ==
    ASSUME TapInv, NEW at \in Time, OtherKey(at)
    PROVE  TapInv'
  <1>1. /\ state \in {Idle} \cup Pressed \cup Armed
        /\ last_event_at' \in Time \cup {Never}
        /\ events' \in Nat
        /\ decision' = "None"
    BY DEF TapInv, TypeOK, OtherKey, InOrder, Counted
  <1>2. heard' \in Seq(ControlEvents)
    BY DEF TapInv, TypeOK, OtherKey, Attempt, ControlEvents
  <1>3. CASE state' = Idle
    BY <1>1, <1>2, <1>3, IdleKeepsTap
  <1>4. CASE state' = state /\ state.kind # "Idle"
    <2>1. heard' = heard
      BY <1>4 DEF TapInv, IdleAfterTrigger, OtherKey, Attempt
    <2>2. QED
      BY <1>1, <1>2, <1>4, <2>1
         DEF TapInv, TypeOK, PressRemembered, SecondFollowsTap, ArmedByTap,
             IdleAfterTrigger, TriggerNeedsDoubleTap, ControlEvents
  <1>5. state' = Idle \/ state' = state
    BY <1>1, ExpiredStates DEF OtherKey
  <1>6. QED
    BY <1>1, <1>3, <1>4, <1>5, StateFields

\* A Control key goes down.
LEMMA ControlPressedTap ==
    ASSUME TapInv, NEW key \in Side, NEW at \in Time, ControlPressed(key, at)
    PROVE  TapInv'
  <1> DEFINE s == Expired(state, at)
  <1> DEFINE e == ControlEvent(key, TRUE, at)
  <1>1. /\ state \in {Idle} \cup Pressed \cup Armed
        /\ last_event_at' \in Time \cup {Never}
        /\ events' \in Nat
        /\ decision' = "None"
        /\ state' = AfterPress(s, key, at)
        /\ heard' = Append(Attempt, e)
    BY DEF TapInv, TypeOK, ControlPressed, InOrder, Counted
  <1>2. /\ heard' \in Seq(ControlEvents)
        /\ Len(heard') = Len(Attempt) + 1
        /\ Len(Attempt) \in Nat
        /\ heard'[Len(heard')] = e
        /\ \A i \in 1..Len(Attempt) : heard'[i] = Attempt[i]
    <2>1. Attempt \in Seq(ControlEvents) /\ e \in ControlEvents
      BY HeardTypes
    <2>2. heard' = Append(Attempt, e)
      BY <1>1
    <2> HIDE DEF e
    <2>3. QED
      BY <2>1, <2>2
  <1>3. s \in {Idle} \cup Pressed \cup Armed /\ (s = state \/ s = Idle)
    BY <1>1, ExpiredStates
  <1>4. IdleAfterTrigger' /\ TriggerNeedsDoubleTap'
    BY <1>1 DEF IdleAfterTrigger, TriggerNeedsDoubleTap
  <1>5. CASE /\ s.kind = "Armed" /\ at >= s.at /\ at - s.at <= MaxGap
             /\ KeysMatch(s.key, key)
             /\ state' = PressOf(key, at, "Second", FALSE)
    <2>1. /\ state' \in Pressed
          /\ state'.kind = "Pressed" /\ state'.key = key /\ state'.at = at
      BY <1>5 DEF PressOf, Pressed
    <2>2. s = state /\ state.kind = "Armed" /\ Attempt = heard
      <3>1. s = state /\ state.kind = "Armed"
        BY <1>3, <1>5 DEF Idle
      <3>2. QED
        BY <3>1 DEF TapInv, IdleAfterTrigger, Attempt
    <2>3. /\ Len(heard) >= 2
          /\ IsTap(heard[Len(heard) - 1], heard[Len(heard)])
          /\ heard[Len(heard)] = ControlEvent(state.key, FALSE, state.at)
      BY <2>2 DEF TapInv, ArmedByTap
    <2>4. /\ heard'[Len(heard') - 2] = heard[Len(heard) - 1]
          /\ heard'[Len(heard') - 1] = heard[Len(heard)]
      <3>1. Len(heard) \in 1..Len(heard) /\ Len(heard) - 1 \in 1..Len(heard)
        BY <1>2, <2>2, <2>3
      <3>2. Len(heard') - 2 = Len(heard) - 1 /\ Len(heard') - 1 = Len(heard)
        BY <1>2, <2>2
      <3>3. QED
        BY <1>2, <2>2, <3>1, <3>2
    <2>5. state \in Armed /\ at \in Nat /\ state.at \in Nat
      BY <1>1, <2>2, StateFields, RecognizerAssumption DEF Armed
    <2>6. SecondFollowsTap'
      <3>1. /\ heard[Len(heard)].key = state.key
            /\ heard[Len(heard)].at = state.at
        BY <2>3 DEF ControlEvent
      <3>2. 0 <= at - state.at /\ at - state.at <= MaxGap /\ KeysMatch(state.key, key)
        BY <1>5, <2>2, <2>5
      <3>3. IsTap(heard'[Len(heard') - 2], heard'[Len(heard') - 1])
        BY <2>3, <2>4
      <3>4. Len(heard') >= 3
        BY <1>2, <2>2, <2>3
      <3>5. QED
        BY <2>1, <2>4, <3>1, <3>2, <3>3, <3>4 DEF SecondFollowsTap, KeysMatch, IsTap
    <2>7. PressRemembered' /\ ArmedByTap'
      BY <1>2, <2>1 DEF PressRemembered, ArmedByTap
    <2>8. QED
      BY <1>1, <1>2, <1>4, <2>1, <2>6, <2>7 DEF TapInv, TypeOK, ControlEvents
  <1>6. CASE state' \in Pressed /\ state'.chorded
    BY <1>1, <1>2, <1>4, <1>6
       DEF TapInv, TypeOK, ControlEvents, Pressed, PressRemembered,
           SecondFollowsTap, ArmedByTap
  <1>7. CASE state' = PressOf(key, at, "First", FALSE)
    <2>1. /\ state' \in Pressed
          /\ state'.kind = "Pressed" /\ state'.key = key /\ state'.at = at
          /\ state'.tap = "First"
      BY <1>7 DEF PressOf, Pressed
    <2>2. PressRemembered' /\ SecondFollowsTap' /\ ArmedByTap'
      BY <1>2, <2>1 DEF PressRemembered, SecondFollowsTap, ArmedByTap
    <2>3. QED
      BY <1>1, <1>2, <1>4, <2>1, <2>2 DEF TapInv, TypeOK, ControlEvents
  <1>8. QED
    BY <1>1, <1>3, <1>5, <1>6, <1>7, PressedStates

\* A Control key goes up.
LEMMA ControlReleasedTap ==
    ASSUME TapInv, NEW key \in Side, NEW at \in Time, ControlReleased(key, at)
    PROVE  TapInv'
  <1> DEFINE s == Expired(state, at)
  <1> DEFINE e == ControlEvent(key, FALSE, at)
  <1>1. /\ state \in {Idle} \cup Pressed \cup Armed
        /\ last_event_at' \in Time \cup {Never}
        /\ events' \in Nat
        /\ heard' = Append(Attempt, e)
    BY DEF TapInv, TypeOK, ControlReleased, InOrder, Counted
  <1>2. /\ heard' \in Seq(ControlEvents)
        /\ Len(heard') = Len(Attempt) + 1
        /\ Len(Attempt) \in Nat
        /\ heard'[Len(heard')] = e
        /\ \A i \in 1..Len(Attempt) : heard'[i] = Attempt[i]
    <2>1. Attempt \in Seq(ControlEvents) /\ e \in ControlEvents
      BY HeardTypes
    <2>2. heard' = Append(Attempt, e)
      BY <1>1
    <2> HIDE DEF e
    <2>3. QED
      BY <2>1, <2>2
  <1>3. s \in {Idle} \cup Pressed \cup Armed /\ (s = state \/ s = Idle)
    BY <1>1, ExpiredStates
  <1>4. CASE state' = Idle /\ decision' = "None"
    BY <1>1, <1>2, <1>4, IdleKeepsTap
  <1>5. CASE EndsTap(s, key, at)
    <2>1. s.kind = "Pressed"
      BY <1>5 DEF EndsTap
    <2>2. s = state /\ Attempt = heard
      <3>1. s = state
        BY <1>3, <2>1 DEF Idle
      <3>2. QED
        BY <2>1, <3>1 DEF TapInv, IdleAfterTrigger, Attempt
    <2>3. /\ Len(heard) >= 1
          /\ heard[Len(heard)] = ControlEvent(state.key, TRUE, state.at)
      BY <1>5, <2>1, <2>2 DEF TapInv, PressRemembered, EndsTap
    <2>4. heard'[Len(heard') - 1] = ControlEvent(state.key, TRUE, state.at)
      <3>1. Len(heard') - 1 = Len(heard) /\ Len(heard) \in 1..Len(heard)
        BY <1>2, <2>2, <2>3
      <3>2. QED
        BY <1>2, <2>2, <2>3, <3>1
    <2>5. IsTap(heard'[Len(heard') - 1], heard'[Len(heard')])
      <3>1. state \in Pressed /\ at \in Nat /\ state.at \in Nat /\ MaxHold \in Nat
        BY <1>1, <2>1, <2>2, StateFields, RecognizerAssumption DEF Pressed
      <3>2. /\ 0 <= at - state.at /\ at - state.at <= MaxHold
            /\ KeysMatch(state.key, key)
        BY <1>5, <2>2, <3>1 DEF EndsTap
      <3>3. QED
        BY <1>2, <2>4, <3>2 DEF IsTap, ControlEvent
    <2>6. CASE s.tap = "First" /\ state' = ArmedBy(key, at) /\ decision' = "None"
      <3>1. /\ state' \in Armed /\ state'.kind = "Armed"
            /\ state'.key = key /\ state'.at = at
        BY <2>6 DEF ArmedBy, Armed
      <3>2. Len(heard') >= 2
        BY <1>2, <2>2, <2>3
      <3>3. ArmedByTap' /\ PressRemembered' /\ SecondFollowsTap'
        BY <1>2, <2>5, <3>1, <3>2
           DEF ArmedByTap, PressRemembered, SecondFollowsTap, KeysMatch, IsTap
      <3>4. QED
        BY <1>1, <1>2, <2>6, <3>1, <3>3
           DEF TapInv, TypeOK, ControlEvents, IdleAfterTrigger, TriggerNeedsDoubleTap
    <2>7. CASE s.tap = "Second" /\ state' = Idle /\ decision' = "Triggered"
      <3>1. /\ Len(heard) >= 3
            /\ IsTap(heard[Len(heard) - 2], heard[Len(heard) - 1])
            /\ KeysMatch(heard[Len(heard) - 1].key, state.key)
            /\ 0 <= state.at - heard[Len(heard) - 1].at
            /\ state.at - heard[Len(heard) - 1].at <= MaxGap
        BY <1>5, <2>1, <2>2, <2>7 DEF TapInv, SecondFollowsTap, EndsTap
      <3>2. /\ Len(heard') >= 4
            /\ heard'[Len(heard') - 3] = heard[Len(heard) - 2]
            /\ heard'[Len(heard') - 2] = heard[Len(heard) - 1]
        <4>1. /\ Len(heard') - 3 = Len(heard) - 2 /\ Len(heard) - 2 \in 1..Len(heard)
              /\ Len(heard') - 2 = Len(heard) - 1 /\ Len(heard) - 1 \in 1..Len(heard)
          BY <1>2, <2>2, <3>1
        <4>2. QED
          BY <1>2, <2>2, <3>1, <4>1
      <3>3. IsDoubleTap(heard'[Len(heard') - 3], heard'[Len(heard') - 2],
                        heard'[Len(heard') - 1], heard'[Len(heard')])
        <4>1. /\ heard'[Len(heard') - 1].key = state.key
              /\ heard'[Len(heard') - 1].at = state.at
          BY <2>4 DEF ControlEvent
        <4>2. QED
          BY <2>5, <3>1, <3>2, <4>1 DEF IsDoubleTap
      <3>4. TriggerNeedsDoubleTap'
        BY <3>2, <3>3 DEF TriggerNeedsDoubleTap, EndsInDoubleTap
      <3>5. QED
        BY <1>1, <1>2, <2>7, <3>4
           DEF TapInv, TypeOK, ControlEvents, Idle, PressRemembered,
               SecondFollowsTap, ArmedByTap, IdleAfterTrigger
    <2>8. QED
      BY <1>5, <2>6, <2>7 DEF ControlReleased
  <1>6. QED
    BY <1>4, <1>5 DEF ControlReleased

\* Every event keeps the invariant.
LEMMA NextTap == TapInv /\ [Next]_vars => TapInv'
  <1> SUFFICES ASSUME TapInv, [Next]_vars
               PROVE  TapInv'
    OBVIOUS
  <1>1. /\ events \in Nat /\ Never \in Time \cup {Never}
        /\ <<>> \in Seq(ControlEvents)
    BY DEF TapInv, TypeOK
  <1>2. CASE Blocked
    BY <1>1, <1>2, IdleKeepsTap DEF Blocked, Counted, Reset
  <1>3. ASSUME NEW at \in Time, OutOfOrder(at)
        PROVE  TapInv'
    BY <1>1, <1>3, IdleKeepsTap DEF OutOfOrder, Counted, Reset
  <1>4. ASSUME NEW at \in Time, Interrupted(at)
        PROVE  TapInv'
    BY <1>1, <1>4, IdleKeepsTap DEF Interrupted, InOrder, Counted
  <1>5. CASE UNCHANGED vars
    BY <1>5
       DEF vars, TapInv, TypeOK, PressRemembered, SecondFollowsTap, ArmedByTap,
           IdleAfterTrigger, TriggerNeedsDoubleTap, EndsInDoubleTap,
           IsDoubleTap, IsTap, KeysMatch
  <1>6. QED
    BY <1>2, <1>3, <1>4, <1>5, OtherKeyTap, ControlPressedTap, ControlReleasedTap
       DEF Next

\* The recognizer stays in one of its three states, whatever events it is fed.
THEOREM RecognizerTypeCorrect == Spec => []TypeOK
  <1>1. TapInv => TypeOK
    BY DEF TapInv
  <1>2. QED
    BY <1>1, InitTap, NextTap, PTL DEF Spec

\* The gesture is never recognized without a complete, uninterrupted double
\* tap, whatever the events, the times and the configuration.
THEOREM TriggerAlwaysNeedsDoubleTap == Spec => []TriggerNeedsDoubleTap
  <1>1. TapInv => TriggerNeedsDoubleTap
    BY DEF TapInv
  <1>2. QED
    BY <1>1, InitTap, NextTap, PTL DEF Spec

-----------------------------------------------------------------------------
(* Every double tap is recognized. *)

\* The press at i was made with no Control key held, as far as was told.
Fresh(h, i) == i = 1 \/ ~h[i - 1].pressed

\* The state follows the events of the attempt: it is Pressed after a press only,
\* and after each press that was fresh; it is armed after a tap until the gap is
\* over; and the press that follows in time is the second one.
HeldIsLast(h) == state.kind = "Pressed" => Len(h) >= 1 /\ h[Len(h)].pressed

PressTracked(h) ==
    Len(h) >= 1 /\ h[Len(h)].pressed /\ Fresh(h, Len(h)) =>
        /\ state.kind = "Pressed" /\ state.chorded = FALSE
        /\ state.key = h[Len(h)].key /\ state.at = h[Len(h)].at

TapTracked(h) ==
    Len(h) >= 2 /\ IsTap(h[Len(h) - 1], h[Len(h)]) /\ Fresh(h, Len(h) - 1) =>
        \/ state = ArmedBy(h[Len(h)].key, h[Len(h)].at)
        \/ last_event_at - h[Len(h)].at > MaxGap

SecondTracked(h) ==
    /\ Len(h) >= 3 /\ h[Len(h)].pressed
    /\ IsTap(h[Len(h) - 2], h[Len(h) - 1]) /\ Fresh(h, Len(h) - 2)
    /\ KeysMatch(h[Len(h) - 1].key, h[Len(h)].key)
    /\ 0 <= h[Len(h)].at - h[Len(h) - 1].at /\ h[Len(h)].at - h[Len(h) - 1].at <= MaxGap
    => state.kind = "Pressed" /\ state.tap = "Second"

Tracked(h) == HeldIsLast(h) /\ PressTracked(h) /\ TapTracked(h) /\ SecondTracked(h)

CompleteInv == TapInv /\ Tracked(Attempt) /\ DoubleTapTriggers

\* A new attempt is followed.
LEMMA NothingHeard ==
    ASSUME state' = Idle, Attempt' = <<>>
    PROVE  Tracked(Attempt)'
  BY DEF Tracked, HeldIsLast, PressTracked, TapTracked, SecondTracked, Idle

\* Whatever ends the attempt and answers None keeps the rest.
LEMMA ResetComplete ==
    ASSUME state' = Idle, decision' = "None", heard' = <<>>
    PROVE  Tracked(Attempt)' /\ DoubleTapTriggers'
  <1>1. Attempt' = <<>>
    BY DEF Attempt
  <1>2. QED
    BY <1>1, NothingHeard DEF DoubleTapTriggers, EndsInDoubleTap

\* An armed state expires after the gap only.
LEMMA ExpiredTooLate ==
    ASSUME NEW s, NEW at
    PROVE  /\ s.kind # "Armed" => Expired(s, at) = s
           /\ s.kind = "Armed" => \/ Expired(s, at) = s
                                  \/ Expired(s, at) = Idle /\ at - s.at > MaxGap
  BY DEF Expired

\* Times, limits and differences are numbers.
LEMMA TimesAreNumbers ==
    ASSUME TapInv
    PROVE  /\ \A e \in ControlEvents : e.at \in Nat
           /\ \A at \in Time : at \in Nat
           /\ MaxGap \in Nat /\ last_event_at \in Int
  <1>1. \A at \in Time : at \in Nat
    BY RecognizerAssumption
  <1>2. \A e \in ControlEvents : e.at \in Time
    BY DEF ControlEvents
  <1>3. last_event_at \in Time \cup {-1}
    BY DEF TapInv, TypeOK, Never
  <1>4. last_event_at \in Int
    BY <1>1, <1>3
  <1>5. MaxGap \in Nat
    BY RecognizerAssumption
  <1>6. QED
    BY <1>1, <1>2, <1>4, <1>5

\* Positions near the end of a sequence of n events.
LEMMA Positions ==
    \A n \in Nat :
        /\ n >= 1 => n \in 1..n /\ (n = 1 \/ n - 1 \in 1..n)
        /\ n >= 2 => n - 1 \in 1..n /\ (n - 1 = 1 \/ n - 1 - 1 \in 1..n)
        /\ n >= 3 => n - 2 \in 1..n /\ (n = 3 \/ n - 3 \in 1..n)
        /\ n + 1 - 1 = n /\ n + 1 - 2 = n - 1 /\ n + 1 - 3 = n - 2 /\ n + 1 - 4 = n - 3
        /\ n - 2 - 1 = n - 3
        /\ n + 1 >= 2 => n >= 1
        /\ n + 1 >= 3 => n >= 2
        /\ n + 1 >= 4 => n >= 3
        /\ n + 1 = 4 => n = 3
        /\ n >= 3 => n >= 2 /\ n >= 1
        /\ n >= 2 => n >= 1
  OBVIOUS

\* Events that are not about Control.
LEMMA OtherKeyComplete ==
    ASSUME CompleteInv, NEW at \in Time, OtherKey(at)
    PROVE  Tracked(Attempt)' /\ DoubleTapTriggers'
  <1> DEFINE a == Attempt
  <1>1. /\ Attempt' = a /\ heard' = a /\ decision' = "None"
        /\ state' = Expired(state, at)
        /\ at >= last_event_at /\ last_event_at' = at
    BY DEF OtherKey, InOrder, Attempt
  <1>2. a \in Seq(ControlEvents) /\ state \in {Idle} \cup Pressed \cup Armed
    BY DEF CompleteInv, TapInv, TypeOK, Attempt, ControlEvents
  <1>3. /\ state.kind # "Armed" => state' = state
        /\ state.kind = "Armed" => \/ state' = state
                                   \/ state' = Idle /\ at - state.at > MaxGap
    BY <1>1, ExpiredTooLate
  <1>4. Tracked(a)
    BY DEF CompleteInv
  <1> HIDE DEF a
  <1>5. HeldIsLast(a)' /\ PressTracked(a)' /\ SecondTracked(a)'
    <2>1. state.kind = "Pressed" => state' = state
      BY <1>3
    <2>2. state'.kind = "Pressed" => state.kind = "Pressed"
      BY <1>3 DEF Idle
    <2>3. a' = a
      BY <1>1 DEF a
    <2>4. HeldIsLast(a)'
      BY <1>4, <2>2, <2>3 DEF Tracked, HeldIsLast
    <2>5. PressTracked(a)'
      BY <1>4, <2>1, <2>3 DEF Tracked, PressTracked, Fresh
    <2>6. SecondTracked(a)'
      BY <1>4, <2>1, <2>3 DEF Tracked, SecondTracked, Fresh, IsTap, KeysMatch
    <2>7. QED
      BY <2>4, <2>5, <2>6
  <1>6. TapTracked(a)'
    <2>1. SUFFICES ASSUME Len(a) >= 2, IsTap(a[Len(a) - 1], a[Len(a)]), Fresh(a, Len(a) - 1)
                   PROVE  \/ state' = ArmedBy(a[Len(a)].key, a[Len(a)].at)
                          \/ at - a[Len(a)].at > MaxGap
      <3>1. a' = a
        BY <1>1 DEF a
      <3>2. QED
        BY <1>1, <3>1 DEF TapTracked, Fresh, IsTap, KeysMatch
    <2>2. a[Len(a)] \in ControlEvents
      BY <1>2, <2>1
    <2>3. /\ a[Len(a)].at \in Nat /\ at \in Nat /\ MaxGap \in Nat
          /\ last_event_at \in Int
      BY <2>2, TimesAreNumbers DEF CompleteInv
    <2>4. CASE last_event_at - a[Len(a)].at > MaxGap
      BY <1>1, <2>3, <2>4
    <2>5. CASE state = ArmedBy(a[Len(a)].key, a[Len(a)].at)
      BY <1>3, <2>5 DEF ArmedBy
    <2>6. QED
      BY <1>4, <2>1, <2>4, <2>5 DEF Tracked, TapTracked
  <1>7. DoubleTapTriggers'
    <2>1. CASE decision = "Triggered"
      BY <1>1, <2>1 DEF a, Attempt, DoubleTapTriggers, EndsInDoubleTap
    <2>2. CASE decision # "Triggered"
      <3>1. heard' = heard
        BY <1>1, <2>2 DEF a, Attempt
      <3>2. QED
        BY <2>2, <3>1
           DEF CompleteInv, DoubleTapTriggers, EndsInDoubleTap, IsDoubleTap, IsTap, KeysMatch
    <2>3. QED
      BY <2>1, <2>2
  <1>8. QED
    BY <1>5, <1>6, <1>7 DEF a, Tracked

\* A Control key goes down: the press is the second one if the tap before it was
\* followed and the gap is not over.
LEMMA ControlPressedComplete ==
    ASSUME CompleteInv, NEW key \in Side, NEW at \in Time, ControlPressed(key, at)
    PROVE  Tracked(Attempt)' /\ DoubleTapTriggers'
  <1> DEFINE a == Attempt
             e == ControlEvent(key, TRUE, at)
             s == Expired(state, at)
  <1>1. /\ Attempt' = heard' /\ heard' = Append(a, e) /\ decision' = "None"
        /\ state' = AfterPress(s, key, at)
        /\ at >= last_event_at
    BY DEF ControlPressed, InOrder, Attempt
  <1>2. /\ a \in Seq(ControlEvents) /\ Len(a) \in Nat
        /\ Len(heard') = Len(a) + 1 /\ heard'[Len(a) + 1] = e
        /\ \A i \in 1..Len(a) : heard'[i] = a[i]
        /\ e.pressed = TRUE /\ e.key = key /\ e.at = at
    <2>1. a \in Seq(ControlEvents) /\ e \in ControlEvents
      BY HeardTypes DEF CompleteInv
    <2>2. e.pressed = TRUE /\ e.key = key /\ e.at = at
      BY DEF ControlEvent
    <2>3. heard' = Append(a, e)
      BY <1>1
    <2> HIDE DEF a, e
    <2>4. QED
      BY <2>1, <2>2, <2>3
  <1>3. state \in {Idle} \cup Pressed \cup Armed /\ s \in {Idle} \cup Pressed \cup Armed
        /\ (s = state \/ s = Idle)
    BY ExpiredStates DEF CompleteInv, TapInv, TypeOK
  <1>4. Tracked(a)
    BY DEF CompleteInv
  <1> HIDE DEF a, e, s
  <1>5. HeldIsLast(heard)'
    BY <1>2 DEF HeldIsLast
  <1>6. PressTracked(heard)'
    <2>1. SUFFICES ASSUME Fresh(heard', Len(a) + 1)
                   PROVE  /\ state'.kind = "Pressed" /\ state'.chorded = FALSE
                          /\ state'.key = key /\ state'.at = at
      BY <1>2 DEF PressTracked, Fresh
    <2>2. Len(a) = 0 \/ ~a[Len(a)].pressed
      BY <1>2, <2>1 DEF Fresh
    <2>3. s.kind # "Pressed"
      BY <1>3, <1>4, <2>2 DEF Tracked, HeldIsLast, Idle
    <2>4. \E tap \in {"First", "Second"} : state' = PressOf(key, at, tap, FALSE)
      BY <1>1, <1>3, <2>3, PressedStates
    <2>5. QED
      BY <2>4 DEF PressOf
  <1>7. TapTracked(heard)'
    BY <1>2 DEF TapTracked, IsTap
  <1>8. SecondTracked(heard)'
    <2> DEFINE n == Len(a)
    <2>1. SUFFICES ASSUME n >= 2, IsTap(a[n - 1], a[n]), Fresh(a, n - 1),
                          KeysMatch(a[n].key, key), 0 <= at - a[n].at, at - a[n].at <= MaxGap
                   PROVE  state'.kind = "Pressed" /\ state'.tap = "Second"
      <3>1. Len(heard') >= 3 => n >= 2 /\ Len(heard') - 2 = n - 1 /\ Len(heard') - 1 = n
        BY <1>2, Positions
      <3>2. n >= 2 => n \in 1..n /\ n - 1 \in 1..n /\ (n - 1 = 1 \/ n - 1 - 1 \in 1..n)
        BY <1>2, Positions
      <3>3. n >= 2 => /\ heard'[n] = a[n] /\ heard'[n - 1] = a[n - 1]
                      /\ n - 1 = 1 \/ heard'[n - 1 - 1] = a[n - 1 - 1]
        BY <1>2, <3>2
      <3>4. Fresh(heard', n - 1) /\ n >= 2 => Fresh(a, n - 1)
        BY <3>3 DEF Fresh
      <3>5. heard'[Len(heard')] = e
        BY <1>2
      <3>6. SUFFICES ASSUME Len(heard') >= 3,
                            IsTap(heard'[Len(heard') - 2], heard'[Len(heard') - 1]),
                            Fresh(heard', Len(heard') - 2),
                            KeysMatch(heard'[Len(heard') - 1].key, key),
                            0 <= at - heard'[Len(heard') - 1].at,
                            at - heard'[Len(heard') - 1].at <= MaxGap
                     PROVE  state'.kind = "Pressed" /\ state'.tap = "Second"
        BY <1>2, <3>5 DEF SecondTracked, IsTap, Fresh, KeysMatch
      <3>7. QED
        BY <3>1, <3>3, <3>4, <3>6
    <2>2. a[n] \in ControlEvents
      BY <1>2, <2>1
    <2>3. a[n].at \in Nat /\ at \in Nat /\ MaxGap \in Nat /\ last_event_at \in Int
      BY <2>2, TimesAreNumbers DEF CompleteInv
    <2>4. state = ArmedBy(a[n].key, a[n].at)
      BY <1>1, <1>4, <2>1, <2>3 DEF Tracked, TapTracked
    <2>5. state.kind = "Armed" /\ state.key = a[n].key /\ state.at = a[n].at
      BY <2>4 DEF ArmedBy
    <2>6. s = state
      BY <2>1, <2>3, <2>5 DEF s, Expired
    <2>7. AfterPress(s, key, at) = PressOf(key, at, "Second", FALSE)
      <3>1. /\ s.kind = "Armed" /\ KeysMatch(s.key, key)
            /\ at >= s.at /\ at - s.at <= MaxGap
        BY <2>1, <2>3, <2>5, <2>6
      <3>2. QED
        BY <3>1 DEF AfterPress
    <2>8. QED
      BY <1>1, <2>7 DEF PressOf
  <1>9. DoubleTapTriggers'
    BY <1>2 DEF DoubleTapTriggers, EndsInDoubleTap, IsDoubleTap, IsTap
  <1>10. QED
    BY <1>1, <1>5, <1>6, <1>7, <1>8, <1>9 DEF Tracked

\* A Control key goes up: the release ends the tap that was followed.
LEMMA ControlReleasedComplete ==
    ASSUME CompleteInv, NEW key \in Side, NEW at \in Time, ControlReleased(key, at)
    PROVE  Tracked(Attempt)' /\ DoubleTapTriggers'
  <1> DEFINE a == Attempt
             e == ControlEvent(key, FALSE, at)
             s == Expired(state, at)
             n == Len(a)
  <1>1. heard' = Append(a, e) /\ InOrder(at)
    BY DEF ControlReleased
  <1>2. /\ a \in Seq(ControlEvents) /\ Len(a) \in Nat
        /\ Len(heard') = Len(a) + 1 /\ heard'[Len(a) + 1] = e
        /\ \A i \in 1..Len(a) : heard'[i] = a[i]
        /\ e.pressed = FALSE /\ e.key = key /\ e.at = at
    <2>1. a \in Seq(ControlEvents) /\ e \in ControlEvents
      BY HeardTypes DEF CompleteInv
    <2>2. e.pressed = FALSE /\ e.key = key /\ e.at = at
      BY DEF ControlEvent
    <2>3. heard' = Append(a, e)
      BY <1>1
    <2> HIDE DEF a, e
    <2>4. QED
      BY <2>1, <2>2, <2>3
  <1>3. state \in {Idle} \cup Pressed \cup Armed
    BY DEF CompleteInv, TapInv, TypeOK
  <1>4. Tracked(a)
    BY DEF CompleteInv
  <1>5. \/ state' = Idle /\ decision' = "None" /\ ~EndsTap(s, key, at)
        \/ EndsTap(s, key, at) /\ s.tap = "First" /\ state' = ArmedBy(key, at) /\ decision' = "None"
        \/ EndsTap(s, key, at) /\ s.tap = "Second" /\ state' = Idle /\ decision' = "Triggered"
    BY DEF ControlReleased
  <1> HIDE DEF a, e, s
  \* The tap at the end of what is heard now.
  <1>6. ASSUME n >= 1, IsTap(a[n], e), Fresh(a, n)
        PROVE  s = state /\ EndsTap(s, key, at)
    <2>1. /\ state.kind = "Pressed" /\ state.chorded = FALSE
          /\ state.key = a[n].key /\ state.at = a[n].at
      BY <1>4, <1>6 DEF Tracked, PressTracked, IsTap
    <2>2. s = state
      BY <2>1 DEF s, Expired
    <2>3. a[n] \in ControlEvents
      BY <1>2, <1>6
    <2>4. a[n].at \in Nat /\ at \in Nat /\ MaxHold \in Nat
      BY <2>3, TimesAreNumbers, RecognizerAssumption DEF CompleteInv
    <2>5. QED
      BY <1>2, <1>6, <2>1, <2>2, <2>4 DEF EndsTap, IsTap
  <1>7. Tracked(Attempt)'
    <2>1. CASE decision' = "Triggered"
      BY <1>5, <2>1, NothingHeard DEF Attempt
    <2>2. CASE decision' = "None"
      <3>1. Attempt' = heard'
        BY <2>2 DEF Attempt
      <3>2. HeldIsLast(heard)' /\ PressTracked(heard)' /\ SecondTracked(heard)'
        <4>1. state'.kind # "Pressed"
          BY <1>5 DEF Idle, ArmedBy
        <4>2. QED
          BY <1>2, <4>1 DEF HeldIsLast, PressTracked, SecondTracked
      <3>3. TapTracked(heard)'
        <4>1. SUFFICES ASSUME n >= 1, IsTap(a[n], e), Fresh(a, n)
                       PROVE  state' = ArmedBy(key, at)
          <5>1. Len(heard') >= 2 => n >= 1 /\ Len(heard') - 1 = n
            BY <1>2, Positions
          <5>2. n >= 1 => n \in 1..n /\ (n = 1 \/ n - 1 \in 1..n)
            BY <1>2, Positions
          <5>3. n >= 1 => heard'[n] = a[n] /\ (n = 1 \/ heard'[n - 1] = a[n - 1])
            BY <1>2, <5>2
          <5>4. Fresh(heard', n) /\ n >= 1 => Fresh(a, n)
            BY <5>3 DEF Fresh
          <5>5. heard'[Len(heard')] = e
            BY <1>2
          <5>6. SUFFICES ASSUME Len(heard') >= 2,
                                IsTap(heard'[Len(heard') - 1], e),
                                Fresh(heard', Len(heard') - 1)
                         PROVE  state' = ArmedBy(key, at)
            BY <1>2, <5>5 DEF TapTracked, IsTap, Fresh, KeysMatch
          <5>7. QED
            BY <5>1, <5>3, <5>4, <5>6
        <4>2. QED
          BY <1>5, <1>6, <2>2, <4>1
      <3>4. QED
        BY <3>1, <3>2, <3>3 DEF Tracked
    <2>3. QED
      BY <1>5, <2>1, <2>2
  <1>8. DoubleTapTriggers'
    <2>1. SUFFICES ASSUME n >= 3, IsDoubleTap(a[n - 2], a[n - 1], a[n], e), Fresh(a, n - 2)
                   PROVE  decision' = "Triggered"
      <3>1. Len(heard') >= 4 => /\ n >= 3 /\ Len(heard') - 3 = n - 2
                                /\ Len(heard') - 2 = n - 1 /\ Len(heard') - 1 = n
        BY <1>2, Positions
      <3>2. n >= 3 => /\ n - 2 \in 1..n /\ n - 1 \in 1..n /\ n \in 1..n
                      /\ n = 3 \/ n - 3 \in 1..n
        BY <1>2, Positions
      <3>3. n >= 3 => /\ heard'[n - 2] = a[n - 2] /\ heard'[n - 1] = a[n - 1]
                      /\ heard'[n] = a[n]
                      /\ n = 3 \/ heard'[n - 3] = a[n - 3]
        BY <1>2, <3>2
      <3>4. n - 2 - 1 = n - 3 /\ Len(heard') - 4 = n - 3 /\ (Len(heard') = 4 => n = 3)
        <4>1. PICK k \in Nat : k = n /\ Len(heard') = k + 1
          BY <1>2
        <4>2. k - 2 - 1 = k - 3 /\ k + 1 - 4 = k - 3 /\ (k + 1 = 4 => k = 3)
          OBVIOUS
        <4>3. QED
          BY <4>1, <4>2
      <3>5. n = 3 => n - 2 = 1
        OBVIOUS
      <3>6. n >= 3 /\ (Len(heard') = 4 \/ ~heard'[Len(heard') - 4].pressed) => Fresh(a, n - 2)
        BY <3>3, <3>4, <3>5 DEF Fresh
      <3>7. heard'[Len(heard')] = e
        BY <1>2
      <3>8. SUFFICES ASSUME Len(heard') >= 4,
                            IsDoubleTap(heard'[Len(heard') - 3], heard'[Len(heard') - 2],
                                        heard'[Len(heard') - 1], e),
                            Len(heard') = 4 \/ ~heard'[Len(heard') - 4].pressed
                     PROVE  decision' = "Triggered"
        BY <3>7 DEF DoubleTapTriggers, EndsInDoubleTap, IsDoubleTap, IsTap, KeysMatch
      <3>9. QED
        BY <3>1, <3>3, <3>6, <3>8
    <2>2. IsTap(a[n - 2], a[n - 1]) /\ IsTap(a[n], e)
      BY <2>1 DEF IsDoubleTap
    <2>3. Fresh(a, n) /\ a[n].pressed
      BY <2>2 DEF IsTap, Fresh
    <2>4. s = state /\ EndsTap(s, key, at)
      BY <1>2, <1>6, <2>1, <2>2, <2>3
    <2>5. state.tap = "Second"
      BY <1>4, <2>1, <2>2, <2>3 DEF Tracked, SecondTracked, IsDoubleTap
    <2>6. QED
      BY <1>5, <2>4, <2>5
  <1>9. QED
    BY <1>7, <1>8

\* Every double tap is recognized that was not begun with a Control key held: for
\* every hold, gap and set of times, after any events.
THEOREM DoubleTapAlwaysTriggers == Spec => []DoubleTapTriggers
  <1>1. Init => CompleteInv
    <2>1. Init => state = Idle /\ heard = <<>> /\ Attempt = <<>>
      BY DEF Init, Attempt
    <2>2. QED
      BY <2>1, InitTap
         DEF CompleteInv, Tracked, HeldIsLast, PressTracked, TapTracked, SecondTracked, Idle,
             DoubleTapTriggers, EndsInDoubleTap
  <1>2. CompleteInv /\ [Next]_vars => CompleteInv'
    <2>1. SUFFICES ASSUME CompleteInv, [Next]_vars
                   PROVE  Tracked(Attempt)' /\ DoubleTapTriggers'
      BY NextTap DEF CompleteInv
    <2>2. CASE Blocked
      BY <2>2, ResetComplete DEF Blocked, Reset
    <2>3. ASSUME NEW at \in Time, OutOfOrder(at)
          PROVE  Tracked(Attempt)' /\ DoubleTapTriggers'
      BY <2>3, ResetComplete DEF OutOfOrder, Reset
    <2>4. ASSUME NEW at \in Time, Interrupted(at)
          PROVE  Tracked(Attempt)' /\ DoubleTapTriggers'
      BY <2>4, ResetComplete DEF Interrupted
    <2>5. CASE UNCHANGED vars
      BY <2>1, <2>5
         DEF vars, CompleteInv, Tracked, HeldIsLast, PressTracked, TapTracked, SecondTracked,
             Attempt, Fresh, DoubleTapTriggers, EndsInDoubleTap, IsDoubleTap, IsTap, KeysMatch
    <2>6. QED
      BY <2>1, <2>2, <2>3, <2>4, <2>5, OtherKeyComplete, ControlPressedComplete,
         ControlReleasedComplete DEF Next
  <1>3. CompleteInv => DoubleTapTriggers
    BY DEF CompleteInv
  <1>4. QED
    BY <1>1, <1>2, <1>3, PTL DEF Spec
=============================================================================
