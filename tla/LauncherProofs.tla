--------------------------- MODULE LauncherProofs ---------------------------
(***************************************************************************)
(* Proofs about Launcher, for any texts, paths and answers, and any number *)
(* of edits and requests: its safety, and that it implements SearchView.   *)
(***************************************************************************)
EXTENDS Launcher, SequenceTheorems, TLAPS

-----------------------------------------------------------------------------
(* Channels are sequences: what is in one after something was taken or put *)

\* A sequence that is not empty has a length.
LEMMA SomeLength ==
    ASSUME NEW S, NEW s \in Seq(S), s # <<>>
    PROVE  Len(s) \in Nat /\ 0 < Len(s)
<1>1. Len(s) \in Nat /\ Len(s) # 0
  BY EmptySeq
<1>2. \A n \in Nat : n # 0 => 0 < n
  OBVIOUS
<1>. QED
  BY <1>1, <1>2

\* What is left when the first element is taken.
LEMMA TailElements ==
    ASSUME NEW S, NEW s \in Seq(S), s # <<>>
    PROVE  /\ Tail(s) \in Seq(S) /\ Head(s) \in S
           /\ 1 \in DOMAIN s /\ Head(s) = s[1]
           /\ \A i \in DOMAIN Tail(s) : i + 1 \in DOMAIN s /\ Tail(s)[i] = s[i + 1]
<1>1. Len(s) \in Nat /\ Len(s) > 0 /\ DOMAIN s = 1..Len(s)
  BY EmptySeq, LenProperties
<1>2. /\ Tail(s) \in Seq(S) /\ Head(s) \in S /\ Len(Tail(s)) = Len(s) - 1
      /\ \A i \in 1..Len(Tail(s)) : Tail(s)[i] = s[i + 1]
  BY HeadTailProperties
<1>3. DOMAIN Tail(s) = 1..Len(s) - 1
  BY <1>2, LenProperties
<1>4. Head(s) = s[1]
  OBVIOUS
<1>. QED
  BY <1>1, <1>2, <1>3, <1>4

\* What there is when one is appended.
LEMMA AppendElements ==
    ASSUME NEW S, NEW s \in Seq(S), NEW e \in S
    PROVE  /\ Append(s, e) \in Seq(S)
           /\ \A i \in DOMAIN Append(s, e) :
                IF i = Len(s) + 1 THEN Append(s, e)[i] = e
                ELSE i \in DOMAIN s /\ Append(s, e)[i] = s[i]
           /\ \A i \in DOMAIN s : i \in DOMAIN Append(s, e) /\ Append(s, e)[i] = s[i]
           /\ \E i \in DOMAIN Append(s, e) : Append(s, e)[i] = e
<1>1. /\ Append(s, e) \in Seq(S) /\ Len(Append(s, e)) = Len(s) + 1
      /\ \A i \in 1..Len(s) : Append(s, e)[i] = s[i]
      /\ Append(s, e)[Len(s) + 1] = e
  BY AppendProperties
<1>2. Len(s) \in Nat /\ DOMAIN s = 1..Len(s) /\ DOMAIN Append(s, e) = 1..Len(s) + 1
  BY <1>1, LenProperties
<1>. QED
  BY <1>1, <1>2

\* A sequence of one element.
LEMMA Singleton == \A x : \A i \in DOMAIN <<x>> : <<x>>[i] = x
OBVIOUS

\* A channel after nothing or its first element was taken.
Taken(s, t) ==
    \E d \in {0, 1} : \A i \in DOMAIN t : i \in Nat /\ i + d \in DOMAIN s /\ t[i] = s[i + d]

\* A channel after something was put in.
Put(s, t, e) ==
    \E n \in Nat : \A i \in DOMAIN t :
        i \in Nat /\ (IF i = n THEN t[i] = e ELSE i \in DOMAIN s /\ t[i] = s[i])

\* Nothing is taken from a channel that stays as it is.
LEMMA TakenNone == ASSUME NEW S, NEW s \in Seq(S) PROVE Taken(s, s)
<1>1. \A i \in DOMAIN s : i \in Nat /\ i + 0 \in DOMAIN s /\ s[i] = s[i + 0]
  BY LenProperties
<1>. QED
  BY <1>1 DEF Taken

\* The first element is taken.
LEMMA TakenHead ==
    ASSUME NEW S, NEW s \in Seq(S), s # <<>>
    PROVE  Taken(s, Tail(s))
<1>1. \A i \in DOMAIN Tail(s) : i + 1 \in DOMAIN s /\ Tail(s)[i] = s[i + 1]
  BY TailElements
<1>2. \A i \in DOMAIN Tail(s) : i \in Nat
  BY TailElements, LenProperties
<1>. QED
  BY <1>1, <1>2 DEF Taken

\* An element is appended.
LEMMA PutLast ==
    ASSUME NEW S, NEW s \in Seq(S), NEW e \in S
    PROVE  Put(s, Append(s, e), e)
<1>1. \A i \in DOMAIN Append(s, e) :
        IF i = Len(s) + 1 THEN Append(s, e)[i] = e ELSE i \in DOMAIN s /\ Append(s, e)[i] = s[i]
  BY AppendElements
<1>2. Len(s) + 1 \in Nat /\ \A i \in DOMAIN Append(s, e) : i \in Nat
  BY AppendElements, LenProperties
<1>. QED
  BY <1>1, <1>2 DEF Put

-----------------------------------------------------------------------------
\* The work on the text in the box: its command, until the worker has an answer,
\* and then its answer.
IsSearch(command) == command.kind = "Search"
IsAnswer(event) == event.kind \in {"Found", "Error"}

CurrentSearch(command) == IsSearch(command) /\ command.generation = generation
CurrentAnswer(event) == IsAnswer(event) /\ event.generation = generation

Busy == worker # Resting

\* Nothing in the channels is of a later text than the one in the box, and what is
\* of this one belongs to it: the text is not blank, it waits for its answer, and the
\* answer is one to it.
GoodCommand(command) ==
    IsSearch(command) =>
        /\ command.generation <= generation
        /\ command.generation = generation => awaiting /\ command.query = query

GoodEvent(event) ==
    /\ IsAnswer(event) =>
         /\ event.generation <= generation
         /\ event.generation = generation =>
              awaiting /\ (event.kind = "Found" => event.items \in Answers[query])
    /\ event = Stopped(TRUE) => daemon # "up"

ChannelInv ==
    /\ \A i \in DOMAIN to_worker : GoodCommand(to_worker[i])
    /\ Busy => GoodCommand(worker.command)
    /\ \A i \in DOMAIN to_ui : GoodEvent(to_ui[i])

\* The text is asked for once: one command or one answer of its generation at most.
AskedOnce ==
    /\ \A i, j \in DOMAIN to_worker :
         CurrentSearch(to_worker[i]) /\ CurrentSearch(to_worker[j]) => i = j
    /\ Busy /\ CurrentSearch(worker.command) =>
         \A i \in DOMAIN to_worker : ~CurrentSearch(to_worker[i])
    /\ \A i, j \in DOMAIN to_ui :
         CurrentAnswer(to_ui[i]) /\ CurrentAnswer(to_ui[j]) => i = j
    /\ \A i \in DOMAIN to_ui : CurrentAnswer(to_ui[i]) =>
         /\ Busy => ~CurrentSearch(worker.command)
         /\ \A j \in DOMAIN to_worker : ~CurrentSearch(to_worker[j])

TextInv == query = "" => results = <<>> /\ awaiting = FALSE

IInv ==
    /\ ChannelInv
    /\ AskedOnce
    /\ TextInv
    /\ SelectionInRange
    /\ QuitAllLeavesNoDaemon

-----------------------------------------------------------------------------
(* Type correctness. *)

\* A row the selection moves to is a natural number, as long as there are rows.
LEMMA MoveTypes ==
    ASSUME selected \in Nat, results \in Seq(Path), NEW step \in Nat
    PROVE  /\ results # <<>> => Len(results) \in Nat \ {0} /\ Down(step) \in Nat
           /\ Up(step) \in Nat
<1>1. Len(results) \in Nat /\ (results # <<>> => Len(results) \in Nat \ {0})
  BY EmptySeq, LenProperties
<1>. QED
  BY <1>1 DEF Down, Up

\* The commands and events the threads send have their types.
LEMMA MessageTypes ==
    /\ Status \in WorkerCommand /\ Shutdown \in WorkerCommand
    /\ \A n \in Nat, q \in Query : Search(n, q) \in WorkerCommand
    /\ Status \in UiEvent
    /\ \A n \in Nat, items \in Seq(Path) : Found(n, items) \in UiEvent
    /\ \A n \in Nat : NotFound(n) \in UiEvent
    /\ \A ok \in BOOLEAN : Stopped(ok) \in UiEvent
    /\ \A action \in DesktopAction : Desktop(action) \in UiEvent
    /\ \A down \in BOOLEAN : Arrow(down) \in UiEvent
BY DEF WorkerCommand, UiEvent, Status, Shutdown, Search, Found, NotFound, Stopped, Desktop, Arrow

\* The next number is a number, too.
LEMMA NextNat == \A n \in Nat : n + 1 \in Nat
OBVIOUS

\* The initial states have their types.
LEMMA InitTypes == Init => TypeOK
<1>. SUFFICES ASSUME Init PROVE TypeOK
  OBVIOUS
<1>1. to_worker \in Seq(WorkerCommand)
  <2>1. to_worker = <<Status>> /\ Status \in WorkerCommand
    BY MessageTypes DEF Init
  <2>. QED
    BY <2>1
<1>2. to_ui \in Seq(UiEvent)
  <2>1. ASSUME to_ui = <<>> PROVE to_ui \in Seq(UiEvent)
    BY <2>1, EmptySeq
  <2>2. ASSUME NEW mode \in {"Show", "Toggle", "Settings"}, to_ui = <<Desktop(mode)>>
        PROVE  to_ui \in Seq(UiEvent)
    <3>1. Desktop(mode) \in UiEvent
      BY MessageTypes DEF DesktopAction
    <3>. QED
      BY <2>2, <3>1
  <2>. QED
    BY <2>1, <2>2 DEF Init
<1>3. results \in Seq(Path)
  BY EmptySeq DEF Init
<1>. QED
  BY <1>1, <1>2, <1>3 DEF Init, TypeOK

\* show_launcher, show_settings and hide_launcher keep the types of what they change.
LEMMA WindowTypes ==
    ASSUME TypeOK, ShowLauncher \/ HideLauncher \/ ShowSettings
    PROVE  /\ query' \in Query \cup {""} /\ generation' \in Nat /\ awaiting' \in BOOLEAN
           /\ answered' \in Query \cup {""}
           /\ results' \in Seq(Path) /\ selected' \in Nat
           /\ visible' \in BOOLEAN /\ settings_mode' \in BOOLEAN
           /\ popup_index' \in Nat \cup {-1}
<1>1. CASE ShowLauncher
  <2>1. results' \in Seq(Path) /\ selected' \in Nat
    BY <1>1, EmptySeq DEF ShowLauncher
  <2>2. generation' \in Nat
    BY <1>1, NextNat DEF TypeOK, ShowLauncher
  <2>3. visible' \in BOOLEAN
    BY <1>1 DEF TypeOK, ShowLauncher, ShowWindow
  <2>. QED
    BY <1>1, <2>1, <2>2, <2>3 DEF ShowLauncher, CloseContextMenu
<1>2. CASE HideLauncher
  BY <1>2 DEF TypeOK, HideLauncher, CloseContextMenu, HideWindow, menu, text, list, rows
<1>3. CASE ShowSettings
  BY <1>3 DEF TypeOK, ShowSettings, CloseContextMenu, ShowWindow, text, list, rows
<1>. QED
  BY <1>1, <1>2, <1>3

\* An edit keeps the types.
LEMMA EditTypes ==
    ASSUME TypeOK, NEW q \in Query \cup {""}, QueryEdited(q), CloseContextMenu \/ UNCHANGED menu
    PROVE  TypeOK'
<1>1. to_worker' \in Seq(WorkerCommand)
  <2>1. CASE UNCHANGED to_worker
    BY <2>1 DEF TypeOK
  <2>2. CASE q # "" /\ to_worker' = Append(to_worker, Search(generation + 1, q))
    <3>1. generation + 1 \in Nat /\ q \in Query
      BY <2>2, NextNat DEF TypeOK
    <3>2. Search(generation + 1, q) \in WorkerCommand
      BY <3>1, MessageTypes
    <3>. QED
      BY <2>2, <3>2, AppendElements DEF TypeOK
  <2>. QED
    BY <2>1, <2>2 DEF QueryEdited
<1>2. /\ results' \in Seq(Path) /\ awaiting' \in BOOLEAN
      /\ answered' \in Query \cup {""}
  BY EmptySeq DEF TypeOK, QueryEdited, rows
<1>3. popup_index' \in Nat \cup {-1}
  BY DEF TypeOK, CloseContextMenu, menu
<1>4. /\ query' \in Query \cup {""} /\ generation' \in Nat /\ selected' \in Nat
      /\ edits' \in Nat
  BY NextNat DEF TypeOK, QueryEdited
<1>5. UNCHANGED <<visible, settings_mode, ended, worker, to_ui, daemon, requests, quit_asked>>
  BY DEF QueryEdited, window
<1>. QED
  BY <1>1, <1>2, <1>3, <1>4, <1>5 DEF TypeOK

\* What the user does keeps the types.
LEMMA UserTypes == TypeOK /\ UserStep => TypeOK'
<1>. SUFFICES ASSUME TypeOK, UserStep PROVE TypeOK'
  OBVIOUS
<1>1. ASSUME NEW q \in Query \cup {""}, Edit(q) PROVE TypeOK'
  BY <1>1, EditTypes DEF Edit
<1>2. CASE ClearByKey
  BY <1>2, EditTypes DEF ClearByKey
<1>3. ASSUME NEW step \in {1, 5}, MoveByKey(step) PROVE TypeOK'
  <2>1. selected' = Down(step) \/ selected' = Up(step)
    BY <1>3 DEF MoveByKey
  <2>2. selected' \in Nat
    <3>1. results # <<>> /\ step \in Nat
      BY <1>3 DEF MoveByKey
    <3>. QED
      BY <2>1, <3>1, MoveTypes DEF TypeOK
  <2>. QED
    BY ZenonT(60), <1>3, <2>2 DEF TypeOK, MoveByKey, text, rows, window, menu, channels, bounds
<1>4. CASE Enter
  BY ZenonT(60), <1>4 DEF TypeOK, Enter, OpenRow, HideWindow, text, list, rows, menu,
       channels, bounds
<1>5. ASSUME NEW index \in 0..Len(results) - 1, ClickRow(index) \/ RightClickRow(index)
      PROVE  TypeOK'
  <2>1. index \in Nat
    <3>1. Len(results) \in Nat
      BY LenProperties DEF TypeOK
    <3>. QED
      BY <3>1
  <2>2. CASE ClickRow(index)
    BY ZenonT(60), <2>1, <2>2 DEF TypeOK, ClickRow, OpenRow, HideWindow, CloseContextMenu,
         text, rows, menu,
         channels, bounds
  <2>3. CASE RightClickRow(index)
    BY ZenonT(60), <2>1, <2>3 DEF TypeOK, RightClickRow, CloseContextMenu, text, rows, window,
         channels, bounds
  <2>. QED
    BY <1>5, <2>2, <2>3
<1>6. CASE PickFromMenu \/ DismissMenu \/ Dismiss \/ CloseSettings
  BY ZenonT(60), <1>6 DEF TypeOK, PickFromMenu, DismissMenu, Dismiss, CloseSettings, OpenRow,
       HideWindow, CloseContextMenu, text, list, rows, window, menu, channels, bounds
<1>7. ASSUME NEW event \in UiEvent, SendEvent(event) PROVE TypeOK'
  <2>1. to_ui' \in Seq(UiEvent)
    BY <1>7, AppendElements DEF TypeOK, SendEvent
  <2>2. requests' \in Nat
    BY <1>7, NextNat DEF TypeOK, SendEvent
  <2>. QED
    BY ZenonT(60), <1>7, <2>1, <2>2 DEF TypeOK, SendEvent, text, list, rows, window, menu
<1>. QED
  BY <1>1, <1>2, <1>3, <1>4, <1>5, <1>6, <1>7, MessageTypes DEF UserStep

\* The event that is handled, and the events that are left.
LEMMA HandleTypes ==
    ASSUME TypeOK, NEW event, Handle(event)
    PROVE  /\ event \in UiEvent /\ event = Head(to_ui) /\ event = to_ui[1]
           /\ 1 \in DOMAIN to_ui /\ to_ui' \in Seq(UiEvent)
BY TailElements DEF TypeOK, Handle

\* What the event pump does keeps the types.
LEMMA PumpTypes == TypeOK /\ PumpStep => TypeOK'
<1>. SUFFICES ASSUME TypeOK, PumpStep PROVE TypeOK'
  OBVIOUS
<1>1. CASE HandleAnswer
  <2>. DEFINE event == Head(to_ui)
  <2>1. event \in UiEvent /\ to_ui' \in Seq(UiEvent)
    BY <1>1, HandleTypes DEF HandleAnswer
  <2>2. event.kind = "Found" => event.items \in Seq(Path)
    BY <2>1 DEF UiEvent, Status
  <2>3. /\ \/ results' = results \/ results' = <<>>
           \/ event.kind = "Found" /\ results' = event.items
        /\ selected' = selected \/ selected' = 0
        /\ awaiting' = awaiting \/ awaiting' = FALSE
    BY <1>1 DEF HandleAnswer, ApplySearchResults, list, rows
  <2>4. results \in Seq(Path) /\ selected \in Nat /\ awaiting \in BOOLEAN
    BY DEF TypeOK
  <2>5. results' \in Seq(Path)
    BY <2>2, <2>3, <2>4, EmptySeq
  <2>6. selected' \in Nat
    BY <2>3, <2>4
  <2>7. awaiting' \in BOOLEAN
    BY <2>3, <2>4
  <2>8. answered' \in Query \cup {""}
    BY <1>1 DEF TypeOK, HandleAnswer, list, rows
  <2>. QED
    BY ZenonT(60), <1>1, <2>1, <2>5, <2>6, <2>7, <2>8 DEF TypeOK, HandleAnswer, window, menu, bounds
<1>2. CASE HandleStatus
  <2>1. /\ to_ui' \in Seq(UiEvent)
        /\ UNCHANGED <<text, list, window, menu, ended, to_worker, worker, daemon, bounds,
                       quit_asked>>
    BY <1>2, HandleTypes, Zenon DEF HandleStatus
  <2>. QED
    BY ZenonT(60), <2>1 DEF TypeOK, text, list, rows, window, menu, bounds
<1>3. ASSUME NEW down \in BOOLEAN, HandleArrow(down) PROVE TypeOK'
  <2>1. to_ui' \in Seq(UiEvent)
    BY <1>3, HandleTypes DEF HandleArrow
  <2>2. selected' \in Nat
    BY ZenonT(60), <1>3, MoveTypes DEF TypeOK, HandleArrow
  <2>. QED
    BY ZenonT(60), <1>3, <2>1, <2>2 DEF TypeOK, HandleArrow, text, rows, window, menu, bounds
<1>4. ASSUME NEW action, HandleWindowAction(action) PROVE TypeOK'
  <2>1. to_ui' \in Seq(UiEvent)
    BY <1>4, HandleTypes DEF HandleWindowAction
  <2>2. ShowLauncher \/ HideLauncher \/ ShowSettings
    BY <1>4 DEF HandleWindowAction
  <2>. QED
    BY <1>4, <2>1, <2>2, WindowTypes DEF TypeOK, HandleWindowAction, bounds
<1>5. CASE HandleExitUi
  BY ZenonT(60), <1>5, HandleTypes DEF TypeOK, HandleExitUi, text, list, rows, window, menu, bounds
<1>6. CASE HandleQuitAll
  <2>1. to_ui' \in Seq(UiEvent)
    BY <1>6, HandleTypes DEF HandleQuitAll
  <2>2. to_worker' \in Seq(WorkerCommand)
    BY <1>6, MessageTypes, AppendElements DEF TypeOK, HandleQuitAll
  <2>. QED
    BY <1>6, <2>1, <2>2, WindowTypes DEF TypeOK, HandleQuitAll, bounds
<1>7. CASE HandleShutdown
  <2>1. to_ui' \in Seq(UiEvent)
    BY <1>7, HandleTypes DEF HandleShutdown
  <2>2. CASE ShowLauncher /\ UNCHANGED ended
    BY <1>7, <2>1, <2>2, WindowTypes DEF TypeOK, HandleShutdown, bounds
  <2>3. CASE ended' = "quit_all" /\ UNCHANGED <<text, list, window, menu>>
    BY <1>7, <2>1, <2>3 DEF TypeOK, HandleShutdown, text, list, rows, window, menu, bounds
  <2>. QED
    BY <1>7, <2>2, <2>3 DEF HandleShutdown
<1>. QED
  BY <1>1, <1>2, <1>3, <1>4, <1>5, <1>6, <1>7 DEF PumpStep

\* A worker that is not resting has a command.
LEMMA BusyTypes ==
    ASSUME TypeOK, worker.at # "recv"
    PROVE  Busy /\ worker \in [at : {"coalesce", "request"}, command : WorkerCommand]
<1>1. Resting.at = "recv"
  BY DEF Resting
<1>2. Busy
  BY <1>1 DEF Busy
<1>. QED
  BY <1>2 DEF TypeOK, Busy

\* The worker's steps keep the types.
LEMMA WorkerTypes == TypeOK /\ WorkerStep => TypeOK'
<1>. SUFFICES ASSUME TypeOK, WorkerStep PROVE TypeOK'
  OBVIOUS
<1>1. ASSUME to_worker' \in Seq(WorkerCommand), to_ui' \in Seq(UiEvent),
             worker' \in {Resting} \cup [at : {"coalesce", "request"}, command : WorkerCommand],
             daemon' \in {"up", "stopping", "gone", "stale"}, WorkerOnly
      PROVE  TypeOK'
  BY <1>1 DEF TypeOK, WorkerOnly, text, list, rows, window, menu, bounds
<1>2. CASE Receive
  <2>1. Head(to_worker) \in WorkerCommand /\ to_worker' \in Seq(WorkerCommand)
    BY <1>2, TailElements DEF TypeOK, Receive
  <2>2. worker' \in [at : {"coalesce", "request"}, command : WorkerCommand]
    BY <1>2, <2>1 DEF Receive
  <2>. QED
    BY <1>1, <1>2, <2>1, <2>2 DEF TypeOK, Receive
<1>3. CASE Coalesce
  <2>1. Head(to_worker) \in WorkerCommand /\ to_worker' \in Seq(WorkerCommand)
    BY <1>3, TailElements DEF TypeOK, Coalesce
  <2>2. worker' \in [at : {"coalesce", "request"}, command : WorkerCommand]
    BY <1>3, <2>1, BusyTypes DEF Coalesce, Latest
  <2>. QED
    BY <1>1, <1>3, <2>1, <2>2 DEF TypeOK, Coalesce
<1>4. CASE StopCoalescing
  <2>1. worker' \in [at : {"coalesce", "request"}, command : WorkerCommand]
    BY <1>4, BusyTypes DEF StopCoalescing
  <2>. QED
    BY <1>1, <1>4, <2>1 DEF TypeOK, StopCoalescing
<1>5. ASSUME NEW event \in UiEvent, Reply(event),
             daemon' \in {"up", "stopping", "gone", "stale"}
      PROVE  TypeOK'
  <2>1. to_ui' \in Seq(UiEvent)
    BY <1>5, AppendElements DEF TypeOK, Reply
  <2>. QED
    BY <1>1, <1>5, <2>1 DEF TypeOK, Reply
<1>6. CASE AskStatus
  BY <1>5, <1>6, MessageTypes DEF TypeOK, AskStatus
<1>7. CASE AskSearch
  <2>1. worker.command.generation \in Nat /\ worker.command.query \in Query
    BY <1>7, BusyTypes DEF AskSearch, WorkerCommand, Status, Shutdown
  <2>2. Answers[worker.command.query] \subseteq Seq(Path)
    BY <2>1, LauncherAssumption
  <2>3. PICK event \in UiEvent : Reply(event)
    BY <1>7, <2>1, <2>2, MessageTypes DEF AskSearch
  <2>. QED
    BY <1>5, <1>7, <2>3 DEF TypeOK, AskSearch
<1>8. CASE AskShutdown
  <2>1. PICK event \in UiEvent : Reply(event)
    BY <1>8, MessageTypes DEF AskShutdown
  <2>. QED
    BY <1>5, <1>8, <2>1 DEF TypeOK, AskShutdown
<1>. QED
  BY <1>2, <1>3, <1>4, <1>6, <1>7, <1>8 DEF WorkerStep

\* The types hold for any texts, paths, answers and any number of requests.
THEOREM TypeCorrect == Spec => []TypeOK
<1>1. ASSUME TypeOK, DaemonEnds PROVE TypeOK'
  BY ZenonT(60), <1>1 DEF TypeOK, DaemonEnds, WorkerOnly, text, list, rows, window, menu,
       channels, bounds
<1>2. ASSUME TypeOK, UNCHANGED vars PROVE TypeOK'
  BY ZenonT(60), <1>2 DEF TypeOK, vars, text, list, rows, window, menu, channels, bounds
<1>3. TypeOK /\ [Next]_vars => TypeOK'
  BY <1>1, <1>2, UserTypes, PumpTypes, WorkerTypes DEF Next
<1>. QED
  BY <1>3, InitTypes, PTL DEF Spec

-----------------------------------------------------------------------------
(* The channels. *)

\* Commands and answers carry numbers.
LEMMA GenerationTypes ==
    ASSUME TypeOK
    PROVE  /\ \A i \in DOMAIN to_worker :
                IsSearch(to_worker[i]) => to_worker[i].generation \in Nat
           /\ Busy /\ IsSearch(worker.command) => worker.command.generation \in Nat
           /\ \A i \in DOMAIN to_ui : IsAnswer(to_ui[i]) => to_ui[i].generation \in Nat
<1>1. /\ \A command \in WorkerCommand : IsSearch(command) => command.generation \in Nat
      /\ \A event \in UiEvent : IsAnswer(event) => event.generation \in Nat
  BY DEF WorkerCommand, UiEvent, Status, Shutdown, IsSearch, IsAnswer
<1>2. \A i \in DOMAIN to_worker : to_worker[i] \in WorkerCommand
  BY LenProperties, ElementOfSeq DEF TypeOK
<1>3. \A i \in DOMAIN to_ui : to_ui[i] \in UiEvent
  BY LenProperties, ElementOfSeq DEF TypeOK
<1>4. Busy => worker.command \in WorkerCommand
  BY DEF TypeOK, Busy
<1>. QED
  BY <1>1, <1>2, <1>3, <1>4

\* The text is the same, and nothing new is in the channels.
LEMMA NothingNew ==
    ASSUME ChannelInv, AskedOnce, UNCHANGED <<text, to_worker, worker>>,
           Taken(to_ui, to_ui'), daemon' = "up" => daemon = "up"
    PROVE  ChannelInv' /\ AskedOnce'
<1>1. PICK d \in {0, 1} : \A i \in DOMAIN to_ui' :
        i \in Nat /\ i + d \in DOMAIN to_ui /\ to_ui'[i] = to_ui[i + d]
  BY DEF Taken
<1>2. ChannelInv'
  BY <1>1 DEF ChannelInv, GoodCommand, GoodEvent, IsSearch, IsAnswer, Busy, text
<1>3. AskedOnce'
  BY <1>1 DEF AskedOnce, CurrentSearch, CurrentAnswer, IsSearch, IsAnswer, Busy, text
<1>. QED
  BY <1>2, <1>3

\* A new text outdates all that is in the channels; at most its own command is new.
LEMMA NewText ==
    ASSUME TypeOK, ChannelInv, generation' = generation + 1, UNCHANGED <<worker, daemon>>,
           Taken(to_ui, to_ui'),
           \/ UNCHANGED to_worker
           \/ awaiting' /\ Put(to_worker, to_worker', Search(generation + 1, query'))
    PROVE  ChannelInv' /\ AskedOnce'
<1>1. PICK d \in {0, 1} : \A i \in DOMAIN to_ui' :
        i \in Nat /\ i + d \in DOMAIN to_ui /\ to_ui'[i] = to_ui[i + d]
  BY DEF Taken
<1>2. generation \in Nat
  BY DEF TypeOK
<1>3. \A n \in Nat : n <= generation => n < generation' /\ n <= generation' /\ n # generation'
  BY <1>2
<1>4. Busy => (IsSearch(worker.command) =>
                 /\ worker.command.generation <= generation'
                 /\ worker.command.generation # generation')
  BY <1>3, GenerationTypes DEF ChannelInv, GoodCommand
<1>5. \A i \in DOMAIN to_ui :
        /\ IsAnswer(to_ui[i]) => /\ to_ui[i].generation <= generation'
                                 /\ to_ui[i].generation # generation'
        /\ to_ui[i] = Stopped(TRUE) => daemon # "up"
  BY <1>3, GenerationTypes DEF ChannelInv, GoodEvent
<1>6. \A i \in DOMAIN to_worker :
        IsSearch(to_worker[i]) => /\ to_worker[i].generation <= generation'
                                  /\ to_worker[i].generation # generation'
  BY <1>3, GenerationTypes DEF ChannelInv, GoodCommand
<1>7. \A i \in DOMAIN to_ui' : GoodEvent(to_ui[i])' /\ ~CurrentAnswer(to_ui[i])'
  BY <1>1, <1>5 DEF GoodEvent, CurrentAnswer, IsAnswer
<1>8. Busy' => GoodCommand(worker.command)' /\ ~CurrentSearch(worker.command)'
  BY <1>4 DEF GoodCommand, CurrentSearch, IsSearch, Busy
<1>9. CASE UNCHANGED to_worker
  <2>1. \A i \in DOMAIN to_worker' : GoodCommand(to_worker[i])' /\ ~CurrentSearch(to_worker[i])'
    BY <1>6, <1>9 DEF GoodCommand, CurrentSearch, IsSearch
  <2>. QED
    BY <1>7, <1>8, <2>1 DEF ChannelInv, AskedOnce
<1>10. CASE awaiting' /\ Put(to_worker, to_worker', Search(generation + 1, query'))
  <2>1. PICK n \in Nat : \A i \in DOMAIN to_worker' :
          IF i = n THEN to_worker'[i] = Search(generation + 1, query')
          ELSE i \in DOMAIN to_worker /\ to_worker'[i] = to_worker[i]
    BY <1>10 DEF Put
  <2>2. \A i \in DOMAIN to_worker' :
          GoodCommand(to_worker[i])' /\ (i # n => ~CurrentSearch(to_worker[i])')
    BY <1>2, <1>6, <1>10, <2>1 DEF GoodCommand, CurrentSearch, IsSearch, Search
  <2>. QED
    BY <1>7, <1>8, <2>2 DEF ChannelInv, AskedOnce
<1>. QED
  BY <1>9, <1>10

\* An answer to the text is taken, and nothing waits for one any more.
LEMMA TextAnswered ==
    ASSUME ChannelInv, AskedOnce, UNCHANGED <<query, generation, to_worker, worker, daemon>>,
           to_ui \in Seq(UiEvent), to_ui # <<>>, to_ui' = Tail(to_ui),
           CurrentAnswer(Head(to_ui))
    PROVE  ChannelInv' /\ AskedOnce'
<1>1. /\ \A i \in DOMAIN to_ui' : i + 1 \in DOMAIN to_ui /\ to_ui'[i] = to_ui[i + 1]
      /\ 1 \in DOMAIN to_ui /\ CurrentAnswer(to_ui[1])
  BY TailElements
<1>2. \A i \in DOMAIN to_ui' : i \in Nat /\ i # 0
  BY TailElements, LenProperties
<1>3. /\ \A i \in DOMAIN to_ui' : ~CurrentAnswer(to_ui'[i])
      /\ Busy => ~CurrentSearch(worker.command)
      /\ \A i \in DOMAIN to_worker : ~CurrentSearch(to_worker[i])
  BY <1>1, <1>2 DEF AskedOnce
<1>4. ChannelInv'
  BY <1>1, <1>3 DEF ChannelInv, GoodCommand, GoodEvent, CurrentSearch, CurrentAnswer,
       IsSearch, IsAnswer, Busy
<1>5. AskedOnce'
  BY <1>3 DEF AskedOnce, CurrentSearch, CurrentAnswer, IsSearch, IsAnswer, Busy
<1>. QED
  BY <1>4, <1>5

\* An event that is no answer is put into the channel to the interface.
LEMMA EventSent ==
    ASSUME ChannelInv, AskedOnce, UNCHANGED <<text, to_worker>>,
           NEW event, Put(to_ui, to_ui', event), ~IsAnswer(event),
           event = Stopped(TRUE) => daemon' # "up", daemon' = "up" => daemon = "up",
           UNCHANGED worker \/ ~Busy'
    PROVE  ChannelInv' /\ AskedOnce'
<1>1. PICK n \in Nat : \A i \in DOMAIN to_ui' :
        IF i = n THEN to_ui'[i] = event ELSE i \in DOMAIN to_ui /\ to_ui'[i] = to_ui[i]
  BY DEF Put
<1>2. ChannelInv'
  BY <1>1 DEF ChannelInv, GoodCommand, GoodEvent, IsSearch, IsAnswer, Busy, text
<1>3. \A i \in DOMAIN to_ui' : CurrentAnswer(to_ui[i])' =>
        i # n /\ i \in DOMAIN to_ui /\ CurrentAnswer(to_ui[i])
  BY <1>1 DEF CurrentAnswer, IsAnswer, text
<1>4. AskedOnce'
  BY <1>3 DEF AskedOnce, CurrentSearch, IsSearch, Busy, text
<1>. QED
  BY <1>2, <1>4

\* A shutdown is put into the channel to the worker.
LEMMA ShutdownSent ==
    ASSUME ChannelInv, AskedOnce, UNCHANGED <<text, worker, daemon>>,
           Taken(to_ui, to_ui'), Put(to_worker, to_worker', Shutdown)
    PROVE  ChannelInv' /\ AskedOnce'
<1>1. PICK d \in {0, 1} : \A i \in DOMAIN to_ui' :
        i \in Nat /\ i + d \in DOMAIN to_ui /\ to_ui'[i] = to_ui[i + d]
  BY DEF Taken
<1>2. PICK n \in Nat : \A i \in DOMAIN to_worker' :
        IF i = n THEN to_worker'[i] = Shutdown
        ELSE i \in DOMAIN to_worker /\ to_worker'[i] = to_worker[i]
  BY DEF Put
<1>3. ChannelInv'
  <2>1. \A i \in DOMAIN to_worker' : GoodCommand(to_worker[i])'
    <3>1. ~IsSearch(Shutdown)
      BY DEF IsSearch, Shutdown
    <3>. QED
      BY <1>2, <3>1 DEF ChannelInv, GoodCommand, IsSearch, text
  <2>2. \A i \in DOMAIN to_ui' : GoodEvent(to_ui[i])'
    BY <1>1 DEF ChannelInv, GoodEvent, IsAnswer, text
  <2>3. Busy' => GoodCommand(worker.command)'
    BY DEF ChannelInv, GoodCommand, IsSearch, Busy, text
  <2>. QED
    BY <2>1, <2>2, <2>3 DEF ChannelInv
<1>4. \A i \in DOMAIN to_worker' : CurrentSearch(to_worker[i])' =>
        i \in DOMAIN to_worker /\ CurrentSearch(to_worker[i])
  BY <1>2 DEF CurrentSearch, IsSearch, Shutdown, text
<1>5. \A i \in DOMAIN to_ui' : /\ i \in Nat /\ i + d \in DOMAIN to_ui
                               /\ CurrentAnswer(to_ui[i])' => CurrentAnswer(to_ui[i + d])
  BY <1>1 DEF CurrentAnswer, IsAnswer, text
<1>6. AskedOnce'
  BY <1>4, <1>5 DEF AskedOnce, CurrentSearch, IsSearch, Busy, text
<1>. QED
  BY <1>3, <1>6

\* The worker takes the first command; the one it had, if any, is forgotten.
LEMMA CommandTaken ==
    ASSUME ChannelInv, AskedOnce, UNCHANGED <<text, to_ui, daemon>>,
           to_worker \in Seq(WorkerCommand), to_worker # <<>>, to_worker' = Tail(to_worker),
           Busy' => worker'.command = Head(to_worker)
    PROVE  ChannelInv' /\ AskedOnce'
<1>1. /\ \A i \in DOMAIN to_worker' :
           i + 1 \in DOMAIN to_worker /\ to_worker'[i] = to_worker[i + 1]
      /\ 1 \in DOMAIN to_worker /\ (Busy' => worker'.command = to_worker[1])
  BY TailElements
<1>2. \A i \in DOMAIN to_worker' : i \in Nat /\ i # 0
  BY TailElements, LenProperties
<1>3. ChannelInv'
  BY <1>1 DEF ChannelInv, GoodCommand, GoodEvent, IsSearch, IsAnswer, text
<1>4. \A i \in DOMAIN to_worker' : CurrentSearch(to_worker[i])' <=> CurrentSearch(to_worker[i + 1])
  BY <1>1 DEF CurrentSearch, IsSearch, text
<1>5. Busy' => (CurrentSearch(worker.command)' <=> CurrentSearch(to_worker[1]))
  BY <1>1 DEF CurrentSearch, IsSearch, text
<1>6. \A i \in DOMAIN to_ui : CurrentAnswer(to_ui[i])' <=> CurrentAnswer(to_ui[i])
  BY DEF CurrentAnswer, IsAnswer, text
<1>7. AskedOnce'
  BY <1>1, <1>2, <1>4, <1>5, <1>6 DEF AskedOnce
<1>. QED
  BY <1>3, <1>7

\* The worker answers its search.
LEMMA SearchAnswered ==
    ASSUME ChannelInv, AskedOnce, UNCHANGED <<text, to_worker, daemon>>,
           Busy, IsSearch(worker.command), ~Busy',
           NEW event, Put(to_ui, to_ui', event), IsAnswer(event),
           event.generation = worker.command.generation,
           event.kind = "Found" => event.items \in Answers[worker.command.query]
    PROVE  ChannelInv' /\ AskedOnce'
<1>1. PICK n \in Nat : \A i \in DOMAIN to_ui' :
        IF i = n THEN to_ui'[i] = event ELSE i \in DOMAIN to_ui /\ to_ui'[i] = to_ui[i]
  BY DEF Put
<1>2. event # Stopped(TRUE)
  BY DEF IsAnswer, Stopped
<1>3. GoodEvent(event)
  BY <1>2 DEF ChannelInv, GoodCommand, GoodEvent, IsSearch
<1>4. ChannelInv'
  BY <1>1, <1>3 DEF ChannelInv, GoodCommand, GoodEvent, IsSearch, IsAnswer, Busy, text
<1>5. \A i \in DOMAIN to_ui' : CurrentAnswer(to_ui[i])' =>
        \/ i = n /\ CurrentSearch(worker.command)
        \/ i \in DOMAIN to_ui /\ CurrentAnswer(to_ui[i]) /\ i # n
  BY <1>1 DEF CurrentAnswer, CurrentSearch, IsAnswer, text
<1>6. \A i \in DOMAIN to_worker : CurrentSearch(to_worker[i])' <=> CurrentSearch(to_worker[i])
  BY DEF CurrentSearch, IsSearch, text
<1>7. AskedOnce'
  BY <1>5, <1>6 DEF AskedOnce
<1>. QED
  BY <1>4, <1>7

-----------------------------------------------------------------------------
(* The inductive invariant. *)

\* It holds initially.
LEMMA InitInv == Init => IInv
<1>. SUFFICES ASSUME Init PROVE IInv
  OBVIOUS
<1>1. ~IsSearch(Status) /\ ~Busy
  BY DEF Init, IsSearch, Status, Busy
<1>2. \A i \in DOMAIN to_worker : ~IsSearch(to_worker[i])
  <2>1. to_worker = <<Status>>
    BY DEF Init
  <2>. QED
    BY <1>1, <2>1, Singleton
<1>3. \A mode : ~IsAnswer(Desktop(mode)) /\ Desktop(mode) # Stopped(TRUE)
  BY DEF IsAnswer, Desktop, Stopped
<1>4. \A i \in DOMAIN to_ui : ~IsAnswer(to_ui[i]) /\ to_ui[i] # Stopped(TRUE)
  <2>1. CASE to_ui = <<>>
    BY <2>1
  <2>2. ASSUME NEW mode, to_ui = <<Desktop(mode)>>, NEW i \in DOMAIN to_ui
        PROVE  ~IsAnswer(to_ui[i]) /\ to_ui[i] # Stopped(TRUE)
    BY <1>3, <2>2, Singleton
  <2>. QED
    BY <2>1, <2>2 DEF Init
<1>. QED
  BY <1>1, <1>2, <1>4 DEF Init, IInv, ChannelInv, GoodCommand, GoodEvent, AskedOnce,
       CurrentSearch, CurrentAnswer, TextInv, SelectionInRange, QuitAllLeavesNoDaemon

\* Steps that leave the text, the rows, the channels and the daemon alone.
LEMMA RestKeepsInv ==
    ASSUME TypeOK, IInv, UNCHANGED <<text, results, channels, daemon>>,
           ended' = "quit_all" => ended = "quit_all",
           results # <<>> => selected' < Len(results)
    PROVE  IInv'
<1>1. Taken(to_ui, to_ui')
  BY TakenNone DEF TypeOK, channels
<1>2. ChannelInv' /\ AskedOnce'
  BY <1>1, NothingNew DEF IInv, channels
<1>. QED
  BY <1>2 DEF IInv, TextInv, SelectionInRange, QuitAllLeavesNoDaemon, text

\* The selection stays among the rows when it moves.
LEMMA MoveInRange ==
    ASSUME TypeOK, SelectionInRange, results # <<>>, NEW step \in Nat
    PROVE  Down(step) < Len(results) /\ Up(step) < Len(results)
<1>1. Len(results) \in Nat \ {0} /\ selected \in Nat
  BY EmptySeq, LenProperties DEF TypeOK
<1>. QED
  BY <1>1 DEF Down, Up, SelectionInRange

\* An edit keeps the invariant.
LEMMA EditKeepsInv ==
    ASSUME TypeOK, IInv, NEW q \in Query \cup {""}, QueryEdited(q)
    PROVE  IInv'
<1>1. Taken(to_ui, to_ui')
  BY TakenNone DEF TypeOK, QueryEdited
<1>2. \/ UNCHANGED to_worker
      \/ awaiting' /\ Put(to_worker, to_worker', Search(generation + 1, query'))
  <2>1. CASE q # ""
    <3>1. generation + 1 \in Nat /\ q \in Query
      BY <2>1, NextNat DEF TypeOK
    <3>2. Search(generation + 1, q) \in WorkerCommand
      BY <3>1, MessageTypes
    <3>3. /\ to_worker' = Append(to_worker, Search(generation + 1, q))
          /\ query' = q /\ awaiting'
      BY <2>1 DEF QueryEdited
    <3>. QED
      BY <3>2, <3>3, PutLast DEF TypeOK
  <2>2. CASE q = ""
    BY <2>2 DEF QueryEdited
  <2>. QED
    BY <2>1, <2>2
<1>3. ChannelInv' /\ AskedOnce'
  BY <1>1, <1>2, NewText DEF IInv, QueryEdited
<1>4. TextInv'
  BY DEF IInv, TextInv, QueryEdited
<1>5. SelectionInRange'
  <2>1. CASE results' = <<>>
    BY <2>1 DEF SelectionInRange
  <2>2. CASE results' = results /\ results # <<>>
    <3>1. results \in Seq(Path)
      BY DEF TypeOK
    <3>2. 0 < Len(results)
      BY <2>2, <3>1, SomeLength
    <3>3. selected' = 0
      BY DEF QueryEdited
    <3>. QED
      BY <2>2, <3>2, <3>3 DEF SelectionInRange
  <2>. QED
    BY <2>1, <2>2 DEF QueryEdited, rows
<1>. QED
  BY <1>3, <1>4, <1>5 DEF IInv, QuitAllLeavesNoDaemon, QueryEdited

\* What the user does keeps the invariant.
LEMMA UserKeepsInv == TypeOK /\ IInv /\ UserStep => IInv'
<1>. SUFFICES ASSUME TypeOK, IInv, UserStep PROVE IInv'
  OBVIOUS
<1>1. CASE (\E q \in Query \cup {""} : Edit(q)) \/ ClearByKey
  BY <1>1, EditKeepsInv DEF Edit, ClearByKey
<1>2. ASSUME NEW step \in {1, 5}, MoveByKey(step) PROVE IInv'
  <2>1. results # <<>> => selected' < Len(results)
    BY <1>2, MoveInRange DEF IInv, MoveByKey
  <2>. QED
    BY <1>2, <2>1, RestKeepsInv DEF MoveByKey, rows
<1>3. CASE Enter \/ PickFromMenu \/ DismissMenu \/ Dismiss \/ CloseSettings
  <2>1. UNCHANGED <<text, results, channels, daemon, ended, selected>>
    BY <1>3 DEF Enter, PickFromMenu, DismissMenu, Dismiss, CloseSettings, list, rows
  <2>. QED
    BY <2>1, RestKeepsInv DEF IInv, SelectionInRange
<1>4. ASSUME NEW index \in 0..Len(results) - 1, ClickRow(index) \/ RightClickRow(index)
      PROVE  IInv'
  <2>1. Len(results) \in Nat
    BY LenProperties DEF TypeOK
  <2>2. index < Len(results)
    BY <2>1
  <2>3. UNCHANGED <<text, results, channels, daemon, ended>> /\ selected' = index
    BY <1>4 DEF ClickRow, RightClickRow, rows
  <2>. QED
    BY <2>2, <2>3, RestKeepsInv
<1>5. ASSUME NEW event \in UiEvent, ~IsAnswer(event), event # Stopped(TRUE), SendEvent(event)
      PROVE  IInv'
  <2>1. Put(to_ui, to_ui', event)
    BY <1>5, PutLast DEF TypeOK, SendEvent
  <2>2. ChannelInv' /\ AskedOnce'
    BY <1>5, <2>1, EventSent DEF IInv, SendEvent
  <2>. QED
    BY <1>5, <2>2 DEF IInv, SendEvent, TextInv, SelectionInRange, QuitAllLeavesNoDaemon, text,
         list, rows
<1>6. \A action, down : /\ ~IsAnswer(Desktop(action)) /\ Desktop(action) # Stopped(TRUE)
                        /\ ~IsAnswer(Arrow(down)) /\ Arrow(down) # Stopped(TRUE)
  BY DEF IsAnswer, Desktop, Arrow, Stopped
<1>. QED
  BY <1>1, <1>2, <1>3, <1>4, <1>5, <1>6, MessageTypes DEF UserStep

\* An event that is handled is taken out of the channel.
LEMMA HandleTakes ==
    ASSUME TypeOK, NEW event, Handle(event)
    PROVE  /\ Taken(to_ui, to_ui') /\ to_ui # <<>> /\ to_ui' = Tail(to_ui)
           /\ event = to_ui[1] /\ 1 \in DOMAIN to_ui
BY TakenHead, HandleTypes DEF TypeOK, Handle

\* show_launcher keeps the invariant: nothing that is on its way counts any more.
LEMMA ShowKeepsInv ==
    ASSUME TypeOK, IInv, ShowLauncher, Taken(to_ui, to_ui'),
           UNCHANGED <<ended, to_worker, worker, daemon>>
    PROVE  IInv'
<1>1. ChannelInv' /\ AskedOnce'
  BY NewText DEF IInv, ShowLauncher
<1>. QED
  BY <1>1 DEF IInv, ShowLauncher, TextInv, SelectionInRange, QuitAllLeavesNoDaemon

\* The event pump keeps the invariant.
LEMMA PumpKeepsInv == TypeOK /\ IInv /\ PumpStep => IInv'
<1>. SUFFICES ASSUME TypeOK, IInv, PumpStep PROVE IInv'
  OBVIOUS
<1>1. ASSUME NEW event, Handle(event),
             UNCHANGED <<text, results, to_worker, worker, daemon, ended>>,
             results # <<>> => selected' < Len(results)
      PROVE  IInv'
  <2>1. ChannelInv' /\ AskedOnce'
    BY <1>1, HandleTakes, NothingNew DEF IInv
  <2>. QED
    BY <1>1, <2>1 DEF IInv, TextInv, SelectionInRange, QuitAllLeavesNoDaemon, text
<1>2. CASE HandleAnswer
  <2>. DEFINE event == Head(to_ui)
  <2>1. Handle(event) /\ event.kind \in {"Found", "Error"}
        /\ UNCHANGED <<query, generation, to_worker, worker, daemon, ended>>
    BY <1>2 DEF HandleAnswer
  <2>2. CASE ~IsCurrent(event)
    <3>1. UNCHANGED <<list, awaiting>>
      BY <1>2, <2>2 DEF HandleAnswer
    <3>. QED
      BY <1>1, <2>1, <3>1 DEF IInv, SelectionInRange, list, rows, text
  <2>3. CASE IsCurrent(event)
    <3>1. CurrentAnswer(event)
      BY <2>1, <2>3 DEF CurrentAnswer, IsAnswer, IsCurrent
    <3>2. ChannelInv' /\ AskedOnce'
      BY <2>1, <3>1, HandleTakes, TextAnswered DEF IInv, TypeOK
    <3>3. awaiting
      <4>1. event = to_ui[1] /\ 1 \in DOMAIN to_ui
        BY <2>1, HandleTakes
      <4>2. GoodEvent(event)
        BY <4>1 DEF IInv, ChannelInv
      <4>. QED
        BY <3>1, <4>2 DEF GoodEvent, CurrentAnswer
    <3>4. TextInv'
      BY <2>1, <3>3 DEF IInv, TextInv
    <3>5. results' = <<>> \/ (selected' = 0 /\ results' = event.items /\ event.kind = "Found")
      BY <1>2, <2>3 DEF HandleAnswer, ApplySearchResults
    <3>6. SelectionInRange'
      <4>1. results' \in Seq(Path)
        BY <1>2, PumpTypes DEF PumpStep, TypeOK
      <4>2. results' # <<>> => Len(results') > 0
        BY <4>1, EmptySeq
      <4>. QED
        BY <3>5, <4>2 DEF SelectionInRange
    <3>. QED
      BY <2>1, <3>2, <3>4, <3>6 DEF IInv, QuitAllLeavesNoDaemon
  <2>. QED
    BY <2>2, <2>3
<1>3. CASE HandleStatus
  BY <1>1, <1>3 DEF HandleStatus, IInv, SelectionInRange, list, rows
<1>4. ASSUME NEW down \in BOOLEAN, HandleArrow(down) PROVE IInv'
  <2>1. results # <<>> => selected' < Len(results)
    BY <1>4, MoveInRange DEF IInv, SelectionInRange, HandleArrow
  <2>. QED
    BY <1>1, <1>4, <2>1 DEF HandleArrow, rows
<1>5. ASSUME NEW action, HandleWindowAction(action) PROVE IInv'
  <2>1. CASE ShowLauncher
    BY <1>5, <2>1, HandleTakes, ShowKeepsInv DEF HandleWindowAction
  <2>2. CASE HideLauncher \/ ShowSettings
    <3>1. UNCHANGED <<text, list>>
      BY <2>2 DEF HideLauncher, ShowSettings
    <3>. QED
      BY <1>1, <1>5, <3>1 DEF HandleWindowAction, IInv, SelectionInRange, list, rows
  <2>. QED
    BY <1>5, <2>1, <2>2 DEF HandleWindowAction
<1>6. CASE HandleExitUi
  <2>1. ChannelInv' /\ AskedOnce'
    BY <1>6, HandleTakes, NothingNew DEF IInv, HandleExitUi
  <2>. QED
    BY <1>6, <2>1 DEF IInv, HandleExitUi, TextInv, SelectionInRange, QuitAllLeavesNoDaemon,
         text, list, rows
<1>7. CASE HandleQuitAll
  <2>1. Put(to_worker, to_worker', Shutdown)
    BY <1>7, MessageTypes, PutLast DEF TypeOK, HandleQuitAll
  <2>2. UNCHANGED <<text, list, worker, daemon, ended>>
    BY <1>7 DEF HandleQuitAll, HideLauncher
  <2>3. ChannelInv' /\ AskedOnce'
    BY <1>7, <2>1, <2>2, HandleTakes, ShutdownSent DEF IInv, HandleQuitAll
  <2>. QED
    BY <2>2, <2>3 DEF IInv, TextInv, SelectionInRange, QuitAllLeavesNoDaemon, text, list, rows
<1>8. CASE HandleShutdown
  <2>1. Taken(to_ui, to_ui') /\ UNCHANGED <<to_worker, worker, daemon>>
    BY <1>8, HandleTakes DEF HandleShutdown
  <2>2. CASE ShowLauncher /\ UNCHANGED ended
    BY <2>1, <2>2, ShowKeepsInv
  <2>3. CASE /\ QuitsOn(Head(to_ui).ok) /\ ended' = "quit_all"
             /\ UNCHANGED <<text, list, window, menu>>
    <3>1. daemon # "up"
      <4>1. /\ Head(to_ui) \in UiEvent /\ Head(to_ui) = to_ui[1] /\ 1 \in DOMAIN to_ui
            /\ Head(to_ui).kind = "Shutdown"
        BY <1>8, HandleTypes DEF HandleShutdown
      <4>2. Head(to_ui) = Stopped(TRUE)
        BY <2>3, <4>1 DEF UiEvent, Stopped, QuitsOn, Status
      <4>. QED
        BY <4>1, <4>2 DEF IInv, ChannelInv, GoodEvent
    <3>2. ChannelInv' /\ AskedOnce'
      BY <2>1, <2>3, NothingNew DEF IInv
    <3>. QED
      BY <2>1, <2>3, <3>1, <3>2 DEF IInv, TextInv, SelectionInRange, QuitAllLeavesNoDaemon,
           text, list, rows
  <2>. QED
    BY <1>8, <2>2, <2>3 DEF HandleShutdown
<1>. QED
  BY <1>2, <1>3, <1>4, <1>5, <1>6, <1>7, <1>8 DEF PumpStep

\* The worker keeps the invariant.
LEMMA WorkerKeepsInv == TypeOK /\ IInv /\ WorkerStep => IInv'
<1>. SUFFICES ASSUME TypeOK, IInv, WorkerStep PROVE IInv'
  OBVIOUS
<1>1. ASSUME ChannelInv', AskedOnce', WorkerOnly, daemon' = "up" => daemon = "up"
      PROVE  IInv'
  BY <1>1 DEF IInv, WorkerOnly, TextInv, SelectionInRange, QuitAllLeavesNoDaemon, text, list, rows
<1>2. UNCHANGED text
  BY DEF WorkerStep, Receive, Coalesce, StopCoalescing, AskStatus, AskSearch, AskShutdown,
     Reply, WorkerOnly
<1>3. ASSUME worker.at # "recv" PROVE Busy
  BY <1>3, BusyTypes
<1>4. CASE Receive \/ Coalesce
  <2>1. /\ to_worker # <<>> /\ to_worker' = Tail(to_worker) /\ UNCHANGED <<to_ui, daemon>>
        /\ worker'.command = Head(to_worker) /\ WorkerOnly
    BY <1>4, BusyTypes DEF Receive, Coalesce, Latest
  <2>. QED
    BY <1>1, <1>2, <2>1, CommandTaken DEF IInv, TypeOK
<1>5. CASE StopCoalescing
  <2>1. /\ UNCHANGED <<to_worker, to_ui, daemon>> /\ WorkerOnly /\ Busy
        /\ worker'.command = worker.command
    BY <1>3, <1>5, BusyTypes DEF StopCoalescing
  <2>2. ChannelInv' /\ AskedOnce'
    BY <1>2, <2>1 DEF IInv, ChannelInv, AskedOnce, GoodCommand, GoodEvent, CurrentSearch,
       CurrentAnswer, IsSearch, IsAnswer, text
  <2>. QED
    BY <1>1, <2>1, <2>2
<1>6. ASSUME NEW event \in UiEvent, Reply(event)
      PROVE  Put(to_ui, to_ui', event) /\ Busy /\ ~Busy' /\ UNCHANGED to_worker /\ WorkerOnly
  BY <1>3, <1>6, PutLast DEF TypeOK, Reply, Busy
<1>7. CASE AskStatus
  <2>1. ~IsAnswer(Status) /\ Status # Stopped(TRUE)
    BY DEF IsAnswer, Status, Stopped
  <2>. QED
    BY <1>1, <1>2, <1>6, <1>7, <2>1, MessageTypes, EventSent DEF IInv, AskStatus
<1>8. CASE AskSearch
  <2>. DEFINE command == worker.command
  <2>1. command.generation \in Nat /\ command.query \in Query /\ IsSearch(command)
    BY <1>8, BusyTypes DEF AskSearch, WorkerCommand, Status, Shutdown, IsSearch
  <2>2. Answers[command.query] \subseteq Seq(Path)
    BY <2>1, LauncherAssumption
  <2>3. PICK event \in UiEvent :
          /\ Reply(event) /\ IsAnswer(event) /\ event.generation = command.generation
          /\ event.kind = "Found" => event.items \in Answers[command.query]
    <3>1. ASSUME NEW items \in Answers[command.query]
          PROVE  LET event == Found(command.generation, items)
                 IN  /\ event \in UiEvent /\ IsAnswer(event)
                     /\ event.generation = command.generation /\ event.items = items
      BY <2>1, <2>2, MessageTypes DEF Found, IsAnswer
    <3>2. LET event == NotFound(command.generation)
          IN  /\ event \in UiEvent /\ IsAnswer(event) /\ event.kind # "Found"
              /\ event.generation = command.generation
      BY <2>1, MessageTypes DEF NotFound, IsAnswer
    <3>. QED
      BY <1>8, <3>1, <3>2 DEF AskSearch
  <2>4. ChannelInv' /\ AskedOnce'
    BY <1>2, <1>6, <1>8, <2>1, <2>3, SearchAnswered DEF IInv, AskSearch
  <2>. QED
    BY <1>1, <1>6, <1>8, <2>3, <2>4 DEF AskSearch
<1>9. CASE AskShutdown
  <2>1. \A ok \in BOOLEAN : ~IsAnswer(Stopped(ok)) /\ Stopped(ok) \in UiEvent
    BY MessageTypes DEF IsAnswer, Stopped
  <2>2. Stopped(FALSE) # Stopped(TRUE)
    BY DEF Stopped
  <2>3. PICK event \in UiEvent :
          /\ Reply(event) /\ ~IsAnswer(event) /\ (event = Stopped(TRUE) => daemon' # "up")
          /\ daemon' = "up" => daemon = "up"
    BY <1>9, <2>1, <2>2 DEF AskShutdown
  <2>4. ChannelInv' /\ AskedOnce'
    BY <1>2, <1>6, <2>3, EventSent DEF IInv
  <2>. QED
    BY <1>1, <1>6, <2>3, <2>4
<1>. QED
  BY <1>4, <1>5, <1>7, <1>8, <1>9 DEF WorkerStep

\* The end of the daemon keeps the invariant: it never comes back.
LEMMA DaemonKeepsInv == TypeOK /\ IInv /\ DaemonEnds => IInv'
<1>. SUFFICES ASSUME TypeOK, IInv, DaemonEnds PROVE IInv'
  OBVIOUS
<1>1. UNCHANGED <<text, list, ended, channels>> /\ daemon' # "up"
  BY DEF DaemonEnds, WorkerOnly
<1>2. Taken(to_ui, to_ui')
  BY <1>1, TakenNone DEF TypeOK, channels
<1>3. ChannelInv' /\ AskedOnce'
  BY <1>1, <1>2, NothingNew DEF IInv, channels
<1>. QED
  BY <1>1, <1>3 DEF IInv, TextInv, SelectionInRange, QuitAllLeavesNoDaemon, text, list, rows

\* The invariant, with the types, holds in every state.
THEOREM Inductive == Spec => [](TypeOK /\ IInv)
<1>1. ASSUME TypeOK, IInv, UNCHANGED vars PROVE IInv'
  <2>1. UNCHANGED <<text, results, selected, channels, daemon, ended>>
    BY <1>1 DEF vars, list, rows
  <2>. QED
    BY <1>1, <2>1, RestKeepsInv DEF IInv, SelectionInRange
<1>2. TypeOK /\ IInv /\ [Next]_vars => IInv'
  BY <1>1, UserKeepsInv, PumpKeepsInv, WorkerKeepsInv, DaemonKeepsInv DEF Next
<1>. QED
  BY <1>2, InitInv, TypeCorrect, PTL DEF Spec

\* The selection never points beyond the rows, in any order of answers, errors, keys
\* and raw arrow events.
THEOREM SelectionIsAlwaysInRange == Spec => []SelectionInRange
BY Inductive, PTL DEF IInv

\* An empty search box never shows rows, however many answers are on their way.
THEOREM BlankQueryAlwaysShowsNothing == Spec => []BlankQueryShowsNothing
<1>1. IInv => BlankQueryShowsNothing
  BY DEF IInv, TextInv, BlankQueryShowsNothing
<1>. QED
  BY <1>1, Inductive, PTL

\* QuitAll never ends the event loop while the daemon goes on.
THEOREM QuitAllNeverLeavesTheDaemon == Spec => []QuitAllLeavesNoDaemon
BY Inductive, PTL DEF IInv

-----------------------------------------------------------------------------
(* The launcher implements SearchView. *)

\* A step that leaves what the user looks at alone is a stutter.
LEMMA OthersStutter ==
    ASSUME UNCHANGED <<query, results, answered, awaiting, ended>>
    PROVE  UNCHANGED View!vars
BY DEF View!vars, Running

\* show_launcher clears the view.
LEMMA ShowClears ==
    ASSUME ShowLauncher, Running, UNCHANGED ended
    PROVE  View!Next
BY DEF ShowLauncher, Running, View!Next, View!Clear, View!Blank

\* An edit is Type or Clear.
LEMMA EditTypesOrClears ==
    ASSUME NEW q \in Query \cup {""}, QueryEdited(q), Running
    PROVE  View!Next
<1>1. UNCHANGED ended
  BY DEF QueryEdited
<1>2. CASE q = ""
  <2>1. View!Clear
    BY <1>2 DEF QueryEdited, View!Clear, View!Blank
  <2>. QED
    BY <1>1, <2>1 DEF View!Next, Running
<1>3. CASE q # ""
  <2>1. q \in Query /\ View!Type(q)
    BY <1>3 DEF QueryEdited, rows, View!Type
  <2>. QED
    BY <1>1, <2>1 DEF View!Next, Running
<1>. QED
  BY <1>2, <1>3

\* What the event pump does with an answer is Answer, or nothing for an old one.
LEMMA AnswersAnswer ==
    ASSUME TypeOK, IInv, HandleAnswer
    PROVE  [View!Next]_(View!vars)
<1>. DEFINE event == Head(to_ui)
<1>1. Handle(event) /\ event.kind \in {"Found", "Error"} /\ UNCHANGED <<query, generation, ended>>
  BY DEF HandleAnswer
<1>2. CASE ~IsCurrent(event)
  BY <1>1, <1>2, OthersStutter DEF HandleAnswer, list, rows
<1>3. CASE IsCurrent(event)
  <2>1. event = to_ui[1] /\ 1 \in DOMAIN to_ui
    BY <1>1, HandleTakes
  <2>2. GoodEvent(event)
    BY <2>1 DEF IInv, ChannelInv
  <2>3. awaiting /\ (event.kind = "Found" => event.items \in Answers[query])
    BY <1>1, <1>3, <2>2 DEF GoodEvent, IsAnswer, IsCurrent
  <2>4. awaiting' = FALSE /\ answered' = query /\ results' \in Answers[query] \cup {<<>>}
    BY <1>3, <2>3 DEF HandleAnswer, ApplySearchResults
  <2>5. View!Answer
    BY <1>1, <2>3, <2>4 DEF View!Answer
  <2>. QED
    BY <1>1, <2>5 DEF View!Next, Running, Handle
<1>. QED
  BY <1>2, <1>3

\* The launcher implements SearchView, for any answers of the daemon and any number
\* of texts: every step of it is a step of the view or none, so that rows are only
\* replaced by the answer to the text in the box, or emptied.
THEOREM LauncherImplementsSearchView == Spec => OutdatedAnswersAreDropped
<1>1. Init => View!Init
  BY DEF Init, View!Init, View!Blank, Running
<1>2. ASSUME TypeOK, IInv, [Next]_vars
      PROVE  [View!Next]_(View!vars)
  <2>1. CASE UserStep
    <3>1. CASE (\E q \in Query \cup {""} : Edit(q)) \/ ClearByKey
      BY <3>1, EditTypesOrClears DEF Edit, ClearByKey, Typing
    <3>2. CASE ~((\E q \in Query \cup {""} : Edit(q)) \/ ClearByKey)
      <4>1. UNCHANGED <<query, results, answered, awaiting, ended>>
        BY <2>1, <3>2 DEF UserStep, MoveByKey, Enter, ClickRow, RightClickRow, PickFromMenu,
             DismissMenu, Dismiss, CloseSettings, SendEvent, text, list, rows
      <4>. QED
        BY <4>1, OthersStutter
    <3>. QED
      BY <3>1, <3>2
  <2>2. CASE HandleAnswer
    BY <1>2, <2>2, AnswersAnswer
  <2>3. CASE HandleStatus \/ (\E down \in BOOLEAN : HandleArrow(down)) \/ HandleQuitAll
    <3>1. UNCHANGED <<query, results, answered, awaiting, ended>>
      BY <2>3 DEF HandleStatus, HandleArrow, HandleQuitAll, HideLauncher, text, list, rows
    <3>. QED
      BY <3>1, OthersStutter
  <2>4. ASSUME NEW action, HandleWindowAction(action) PROVE [View!Next]_(View!vars)
    <3>1. Running /\ UNCHANGED ended
      BY <2>4 DEF HandleWindowAction, Handle
    <3>2. CASE ShowLauncher
      BY <3>1, <3>2, ShowClears
    <3>3. CASE HideLauncher \/ ShowSettings
      BY <3>1, <3>3, OthersStutter DEF HideLauncher, ShowSettings, text, list, rows
    <3>. QED
      BY <2>4, <3>2, <3>3 DEF HandleWindowAction
  <2>5. CASE HandleExitUi
    BY <2>5 DEF HandleExitUi, Handle, Running, View!Next, View!Close, text, list, rows
  <2>6. CASE HandleShutdown
    <3>1. Running
      BY <2>6 DEF HandleShutdown, Handle
    <3>2. CASE ended' = "quit_all" /\ UNCHANGED <<text, list, window, menu>>
      BY <3>1, <3>2 DEF Running, View!Next, View!Close, text, list, rows
    <3>3. CASE ShowLauncher /\ UNCHANGED ended
      BY <3>1, <3>3, ShowClears
    <3>. QED
      BY <2>6, <3>2, <3>3 DEF HandleShutdown
  <2>7. CASE WorkerStep \/ DaemonEnds
    <3>1. UNCHANGED <<query, results, answered, awaiting, ended>>
      BY <2>7 DEF WorkerStep, Receive, Coalesce, StopCoalescing, AskStatus, AskSearch,
           AskShutdown, Reply, DaemonEnds, WorkerOnly, text, list, rows
    <3>. QED
      BY <3>1, OthersStutter
  <2>8. CASE UNCHANGED vars
    BY <2>8, OthersStutter DEF vars, text, list, rows
  <2>. QED
    BY <1>2, <2>1, <2>2, <2>3, <2>4, <2>5, <2>6, <2>7, <2>8 DEF Next, PumpStep
<1>. QED
  BY <1>1, <1>2, Inductive, PTL DEF Spec, OutdatedAnswersAreDropped, View!Spec

\* Rows of a text that is gone are never taken for the answer to another: what is
\* listed is an answer to the text that was answered last, and to the text in the
\* box as soon as this has been answered.
THEOREM RowsAlwaysAnswer == Spec => []View!RowsAnswer
<1>1. View!Init => View!RowsAnswer
  BY DEF View!Init, View!RowsAnswer
<1>2. View!RowsAnswer /\ [View!Next]_(View!vars) => View!RowsAnswer'
  <2>. SUFFICES ASSUME View!RowsAnswer, [View!Next]_(View!vars) PROVE View!RowsAnswer'
    OBVIOUS
  <2>1. ASSUME NEW q \in Query, View!Type(q) PROVE View!RowsAnswer'
    BY <2>1 DEF View!Type, View!RowsAnswer
  <2>2. CASE View!Clear
    BY <2>2 DEF View!Clear, View!RowsAnswer
  <2>3. CASE View!Answer
    BY <2>3 DEF View!Answer, View!RowsAnswer
  <2>4. CASE View!Close \/ UNCHANGED View!vars
    BY <2>4 DEF View!Close, View!vars, View!RowsAnswer
  <2>. QED
    BY <2>1, <2>2, <2>3, <2>4 DEF View!Next
<1>3. View!Spec => []View!RowsAnswer
  BY <1>1, <1>2, PTL DEF View!Spec
<1>. QED
  BY <1>3, LauncherImplementsSearchView DEF OutdatedAnswersAreDropped

=============================================================================
