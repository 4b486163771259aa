------------------------------ MODULE Launcher ------------------------------
(***************************************************************************)
(* The launcher of apps/ruyiseek-ui/src/main.rs and ui/launcher.slint.     *)
(*                                                                         *)
(* Two threads: the UI thread runs the callbacks of the windows and, on a  *)
(* timer, the handlers of the events other threads sent it; the search     *)
(* worker takes commands from a queue, asks the daemon, and sends back an  *)
(* event.  The tray, the session bus and the hotkey thread only send       *)
(* events.                                                                 *)
(*                                                                         *)
(* Left out: status texts, settings (show_settings only opens the panel    *)
(* here) and the clipboard.  The menu window is open exactly while         *)
(* popup_index is not -1; hiding it is taken to succeed.                   *)
(***************************************************************************)
EXTENDS Integers, Sequences

CONSTANTS
    Query,          \* texts that do not trim to nothing
    Path,           \* paths the daemon may answer with
    Answers,        \* the lists it may answer to each text
    WindowMayFail,  \* Slint may fail to show or to hide a window
    MaxEdits,       \* bound on the edits of the text
    MaxRequests     \* bound on what the tray, the bus and the hotkey send

ASSUME LauncherAssumption ==
    /\ "" \notin Query
    /\ Answers \in [Query -> SUBSET Seq(Path)]
    /\ WindowMayFail \in BOOLEAN
    /\ MaxEdits \in Nat
    /\ MaxRequests \in Nat

VARIABLES
    query,          \* launcher.query
    generation,     \* counts the texts
    results,        \* the rows: launcher.results and result_paths
    selected,       \* launcher.selected-index
    visible,        \* the cell of that name
    settings_mode,  \* launcher.settings-mode
    popup_index,    \* launcher.popup-index and menu.result-index
    ended,          \* the event loop: "no", or what ended it
    to_worker,      \* worker_sender -> worker_receiver
    worker,         \* the search worker
    to_ui,          \* ui_sender -> ui_receiver
    daemon,         \* ruyiseekd and its socket
    edits,          \* edits so far, up to MaxEdits
    requests,       \* requests from other threads so far, up to MaxRequests
    answered,       \* history: the text the rows answer
    awaiting,       \* history: the text has had no answer yet
    quit_asked      \* history: QuitAll was accepted and has had no outcome

text == <<query, generation, awaiting>>
rows == <<results, answered>>
list == <<rows, selected>>
window == <<visible, settings_mode>>
menu == <<popup_index>>
channels == <<to_worker, worker, to_ui>>
bounds == <<edits, requests>>
vars == <<text, list, window, menu, ended, channels, daemon, bounds, quit_asked>>

-----------------------------------------------------------------------------
(* WorkerCommand, UiEvent, DesktopAction. *)

Status == [kind |-> "Status"]
Shutdown == [kind |-> "Shutdown"]
Search(gen, q) == [kind |-> "Search", generation |-> gen, query |-> q]

WorkerCommand ==
    {Status, Shutdown} \cup [kind : {"Search"}, generation : Nat, query : Query]

Found(gen, items) == [kind |-> "Found", generation |-> gen, items |-> items]
NotFound(gen) == [kind |-> "Error", generation |-> gen]
Stopped(ok) == [kind |-> "Shutdown", ok |-> ok]
Desktop(action) == [kind |-> "Desktop", action |-> action]
Arrow(down) == [kind |-> "Arrow", down |-> down]

DesktopAction == {"Show", "Hide", "Toggle", "Settings", "ExitUi", "QuitAll"}

UiEvent ==
    {Status}
    \cup [kind : {"Found"}, generation : Nat, items : Seq(Path)]
    \cup [kind : {"Error"}, generation : Nat]
    \cup [kind : {"Shutdown"}, ok : BOOLEAN]
    \cup [kind : {"Desktop"}, action : DesktopAction]
    \cup [kind : {"Arrow"}, down : BOOLEAN]

Resting == [at |-> "recv"]

\* run_launcher: the first command is Status, and the action of the launch mode
\* is applied before anything else.
Init ==
    /\ query = "" /\ generation = 0 /\ awaiting = FALSE
    /\ results = <<>> /\ answered = "" /\ selected = 0
    /\ visible = FALSE /\ settings_mode = FALSE
    /\ popup_index = -1
    /\ ended = "no"
    /\ to_worker = <<Status>>
    /\ worker = Resting
    /\ to_ui \in {<<>>} \cup {<<Desktop(mode)>> : mode \in {"Show", "Toggle", "Settings"}}
    /\ daemon \in {"up", "gone"}
    /\ edits = 0 /\ requests = 0
    /\ quit_asked = FALSE

-----------------------------------------------------------------------------
(* Pieces of the UI thread. *)

Running == ended = "no"

CloseContextMenu == popup_index' = -1

ShowWindow == visible' = TRUE \/ (WindowMayFail /\ UNCHANGED visible)
HideWindow == visible' = FALSE \/ (WindowMayFail /\ UNCHANGED visible)

Row(index) == results[index + 1]

\* The row `step` further down or up, but never beyond the first or the last.
Down(step) == IF selected + step < Len(results) THEN selected + step ELSE Len(results) - 1

\* Mutant: the subtraction does not stop at the first row.
Up_NotSaturating(step) == selected - step

Up(step) == IF selected > step THEN selected - step ELSE 0

\* Mutant: the answers on their way still count, as before v0.1.0-9.
ShowLauncher_KeepsGeneration ==
    /\ settings_mode' = FALSE
    /\ CloseContextMenu
    /\ results' = <<>> /\ answered' = "" /\ selected' = 0
    /\ query' = "" /\ awaiting' = FALSE
    /\ UNCHANGED generation
    /\ ShowWindow

\* show_launcher: whatever was there is cleared, and answers on their way are
\* outdated by the new generation.
ShowLauncher ==
    /\ settings_mode' = FALSE
    /\ CloseContextMenu
    /\ results' = <<>> /\ answered' = "" /\ selected' = 0
    /\ query' = "" /\ awaiting' = FALSE
    /\ generation' = generation + 1
    /\ ShowWindow

\* hide_launcher
HideLauncher ==
    /\ IF visible THEN CloseContextMenu /\ HideWindow ELSE UNCHANGED <<menu, visible>>
    /\ UNCHANGED <<text, list, settings_mode>>

\* show_settings
ShowSettings ==
    /\ settings_mode' = TRUE
    /\ CloseContextMenu
    /\ ShowWindow
    /\ UNCHANGED <<text, list>>

\* on_activate_result and on_reveal_result: xdg-open is started for the path of
\* the row, if there is one, and then the launcher hides.  Without a row, or if
\* xdg-open cannot be started, it stays.
OpenRow(index) ==
    \/ UNCHANGED visible
    \/ index < Len(results) /\ HideWindow

-----------------------------------------------------------------------------
(* What the user does.  None of it is ever certain to happen. *)

\* on_query_edited
QueryEdited(q) ==
    /\ edits < MaxEdits
    /\ edits' = edits + 1
    /\ generation' = generation + 1
    /\ query' = q
    /\ selected' = 0
    /\ \/ /\ q = ""
          /\ results' = <<>> /\ answered' = "" /\ awaiting' = FALSE
          /\ UNCHANGED to_worker
       \/ /\ q # ""
          /\ to_worker' = Append(to_worker, Search(generation + 1, q))
          /\ awaiting' = TRUE
          /\ UNCHANGED rows
    /\ UNCHANGED <<window, ended, worker, to_ui, daemon, requests, quit_asked>>

Typing == Running /\ visible /\ ~settings_mode

Edit(q) == Typing /\ q # query /\ CloseContextMenu /\ QueryEdited(q)

\* Ctrl+L leaves the menu alone.
ClearByKey == Typing /\ query # "" /\ UNCHANGED menu /\ QueryEdited("")

\* PageUp, PageDown, Ctrl+P and Ctrl+N.
MoveByKey(step) ==
    /\ Typing
    /\ results # <<>>
    /\ selected' = Down(step) \/ selected' = Up(step)
    /\ UNCHANGED <<text, rows, window, menu, ended, channels, daemon, bounds, quit_asked>>

\* accepted: Enter opens the selected row.
Enter ==
    /\ Typing
    /\ results # <<>>
    /\ OpenRow(selected)
    /\ UNCHANGED <<text, list, settings_mode, menu, ended, channels, daemon, bounds, quit_asked>>

ClickRow(index) ==
    /\ Typing
    /\ CloseContextMenu
    /\ selected' = index
    /\ OpenRow(index)
    /\ UNCHANGED <<text, rows, settings_mode, ended, channels, daemon, bounds, quit_asked>>

\* A right click, and show_context_menu.
RightClickRow(index) ==
    /\ Typing
    /\ selected' = index
    /\ \/ popup_index' = index
       \/ WindowMayFail /\ CloseContextMenu
    /\ UNCHANGED <<text, rows, window, ended, channels, daemon, bounds, quit_asked>>

\* One of the menu's four entries: it closes the menu and acts on the row that
\* now has the index.
PickFromMenu ==
    /\ Running
    /\ popup_index # -1
    /\ CloseContextMenu
    /\ OpenRow(popup_index)
    /\ UNCHANGED <<text, list, settings_mode, ended, channels, daemon, bounds, quit_asked>>

DismissMenu ==
    /\ Running
    /\ popup_index # -1
    /\ CloseContextMenu
    /\ UNCHANGED <<text, list, window, ended, channels, daemon, bounds, quit_asked>>

\* on_dismiss: Escape, or a click beside the card.
Dismiss ==
    /\ Running
    /\ visible
    /\ CloseContextMenu
    /\ HideWindow
    /\ UNCHANGED <<text, list, settings_mode, ended, channels, daemon, bounds, quit_asked>>

\* on_close_settings
CloseSettings ==
    /\ Running
    /\ visible /\ settings_mode
    /\ settings_mode' = FALSE
    /\ visible' = TRUE
    /\ UNCHANGED <<text, list, menu, ended, channels, daemon, bounds, quit_asked>>

\* The tray, the session bus or the hotkey thread sends an event.
SendEvent(event) ==
    /\ Running
    /\ requests < MaxRequests
    /\ requests' = requests + 1
    /\ to_ui' = Append(to_ui, event)
    /\ UNCHANGED <<text, list, window, menu, ended, to_worker, worker, daemon, edits, quit_asked>>

UserStep ==
    \/ \E q \in Query \cup {""} : Edit(q)
    \/ ClearByKey
    \/ \E step \in {1, 5} : MoveByKey(step)
    \/ Enter
    \/ \E index \in 0..Len(results) - 1 : ClickRow(index) \/ RightClickRow(index)
    \/ PickFromMenu \/ DismissMenu \/ Dismiss \/ CloseSettings
    \/ \E action \in DesktopAction : SendEvent(Desktop(action))
    \/ \E down \in BOOLEAN : SendEvent(Arrow(down))

-----------------------------------------------------------------------------
(* install_ui_event_pump: one action for each kind of event. *)

Handle(event) ==
    /\ Running
    /\ to_ui # <<>>
    /\ Head(to_ui) = event
    /\ to_ui' = Tail(to_ui)

\* Mutant: whatever arrives is shown.
IsCurrent_Always(event) == TRUE

IsCurrent(event) == event.generation = generation

\* Mutant: the selection survives the new list.
ApplySearchResults_KeepsSelection(items) == results' = items /\ UNCHANGED selected

ApplySearchResults(items) == results' = items /\ selected' = 0

HandleAnswer ==
    /\ to_ui # <<>> /\ Head(to_ui).kind \in {"Found", "Error"}
    /\ LET event == Head(to_ui)
       IN  /\ Handle(event)
           /\ \/ ~IsCurrent(event) /\ UNCHANGED <<list, awaiting>>
              \/ /\ IsCurrent(event) /\ event.kind = "Found"
                 /\ ApplySearchResults(event.items)
                 /\ answered' = query /\ awaiting' = FALSE
              \/ /\ IsCurrent(event) /\ event.kind = "Error"
                 /\ results' = <<>>
                 /\ answered' = query /\ awaiting' = FALSE
                 /\ UNCHANGED selected
    /\ UNCHANGED <<query, generation, window, menu, ended, to_worker, worker,
                   daemon, bounds, quit_asked>>

\* Status and its text.
HandleStatus ==
    /\ Handle(Status)
    /\ UNCHANGED <<text, list, window, menu, ended, to_worker, worker, daemon, bounds, quit_asked>>

\* apply_arrow_to_selection, for a visible window only.
HandleArrow(down) ==
    /\ Handle(Arrow(down))
    /\ IF visible /\ results # <<>>
       THEN selected' = IF down THEN Down(1) ELSE Up(1)
       ELSE UNCHANGED selected
    /\ UNCHANGED <<text, rows, window, menu, ended, to_worker, worker,
                   daemon, bounds, quit_asked>>

\* apply_desktop_action, for the actions that only concern the windows.
HandleWindowAction(action) ==
    /\ Handle(Desktop(action))
    /\ \/ (action = "Show" \/ (action = "Toggle" /\ ~visible)) /\ ShowLauncher
       \/ (action = "Hide" \/ (action = "Toggle" /\ visible)) /\ HideLauncher
       \/ action = "Settings" /\ ShowSettings
    /\ UNCHANGED <<ended, to_worker, worker, daemon, bounds, quit_asked>>

HandleExitUi ==
    /\ Handle(Desktop("ExitUi"))
    /\ ended' = "exit_ui"
    /\ UNCHANGED <<text, list, window, menu, to_worker, worker, daemon, bounds, quit_asked>>

HandleQuitAll ==
    /\ Handle(Desktop("QuitAll"))
    /\ HideLauncher
    /\ to_worker' = Append(to_worker, Shutdown)
    /\ quit_asked' = TRUE
    /\ UNCHANGED <<ended, worker, daemon, bounds>>

\* Mutant: the event loop ends whatever became of the daemon.
QuitsOn_Any(ok) == TRUE

QuitsOn(ok) == ok

\* The outcome of stop_daemon: the event loop ends, or the launcher comes back
\* with the error.
HandleShutdown ==
    /\ to_ui # <<>> /\ Head(to_ui).kind = "Shutdown"
    /\ Handle(Head(to_ui))
    /\ quit_asked' = FALSE
    /\ \/ /\ QuitsOn(Head(to_ui).ok)
          /\ ended' = "quit_all"
          /\ UNCHANGED <<text, list, window, menu>>
       \/ ~QuitsOn(Head(to_ui).ok) /\ ShowLauncher /\ UNCHANGED ended
    /\ UNCHANGED <<to_worker, worker, daemon, bounds>>

PumpStep ==
    \/ HandleAnswer \/ HandleStatus
    \/ \E down \in BOOLEAN : HandleArrow(down)
    \/ \E action \in {"Show", "Hide", "Toggle", "Settings"} : HandleWindowAction(action)
    \/ HandleExitUi \/ HandleQuitAll \/ HandleShutdown

-----------------------------------------------------------------------------
(* The search worker. *)

WorkerOnly == UNCHANGED <<text, list, window, menu, ended, bounds, quit_asked>>

\* receiver.recv: a search looks for later commands first.
Receive ==
    /\ Running
    /\ worker = Resting
    /\ to_worker # <<>>
    /\ to_worker' = Tail(to_worker)
    /\ worker' = [at |-> IF Head(to_worker).kind = "Search" THEN "coalesce" ELSE "request",
                  command |-> Head(to_worker)]
    /\ UNCHANGED <<to_ui, daemon>>
    /\ WorkerOnly

\* Mutant: the command in hand is kept and the later one thrown away.
Latest_KeepsFirst(command, next) == command

Latest(command, next) == next

\* try_recv, for as long as it gives something: the last command wins, whatever
\* it is and whatever it replaces.
Coalesce ==
    /\ Running
    /\ worker.at = "coalesce"
    /\ to_worker # <<>>
    /\ to_worker' = Tail(to_worker)
    /\ worker' = [worker EXCEPT !.command = Latest(@, Head(to_worker))]
    /\ UNCHANGED <<to_ui, daemon>>
    /\ WorkerOnly

StopCoalescing ==
    /\ Running
    /\ worker.at = "coalesce"
    /\ to_worker = <<>>
    /\ worker' = [worker EXCEPT !.at = "request"]
    /\ UNCHANGED <<to_worker, to_ui, daemon>>
    /\ WorkerOnly

Reply(event) ==
    /\ Running
    /\ worker.at = "request"
    /\ worker' = Resting
    /\ to_ui' = Append(to_ui, event)
    /\ UNCHANGED to_worker
    /\ WorkerOnly

\* run_worker_command: the request ends with an answer, or with an error after
\* the timeout at the latest.
AskStatus == worker.at = "request" /\ worker.command = Status /\ Reply(Status) /\ UNCHANGED daemon

AskSearch ==
    /\ worker.at = "request" /\ worker.command.kind = "Search"
    /\ \/ daemon = "up" /\ \E items \in Answers[worker.command.query] :
                              Reply(Found(worker.command.generation, items))
       \/ Reply(NotFound(worker.command.generation))
    /\ UNCHANGED daemon

\* stop_daemon: without a socket there is nothing to stop.  The daemon may take
\* the request and the answer still come too late.
AskShutdown ==
    /\ worker.at = "request" /\ worker.command = Shutdown
    /\ \/ daemon = "gone" /\ Reply(Stopped(TRUE)) /\ UNCHANGED daemon
       \/ daemon = "up" /\ daemon' = "stopping" /\ \E ok \in BOOLEAN : Reply(Stopped(ok))
       \/ daemon # "gone" /\ Reply(Stopped(FALSE)) /\ UNCHANGED daemon

WorkerStep ==
    Receive \/ Coalesce \/ StopCoalescing \/ AskStatus \/ AskSearch \/ AskShutdown

\* The daemon finishes a shutdown and removes its socket; or it is stopped by
\* somebody else, or dies and leaves the socket behind.
DaemonEnds ==
    /\ Running
    /\ \/ daemon = "stopping" /\ daemon' = "gone"
       \/ daemon = "up" /\ daemon' \in {"gone", "stale"}
    /\ UNCHANGED <<channels>>
    /\ WorkerOnly

-----------------------------------------------------------------------------

Next == UserStep \/ PumpStep \/ WorkerStep \/ DaemonEnds

\* The timer of the event pump fires, the worker is scheduled, and a request
\* ends by its timeout.  Nobody has to type, click or quit.
FairSpec == Init /\ [][Next]_vars /\ WF_vars(PumpStep) /\ WF_vars(WorkerStep)
Spec == Init /\ [][Next]_vars

-----------------------------------------------------------------------------
(* Properties. *)

\* The variables of both threads, the two channels and the daemon have their
\* types; every list of rows is one of paths.
TypeOK ==
    /\ query \in Query \cup {""} /\ generation \in Nat /\ awaiting \in BOOLEAN
    /\ answered \in Query \cup {""}
    /\ results \in Seq(Path) /\ selected \in Nat
    /\ visible \in BOOLEAN /\ settings_mode \in BOOLEAN
    /\ popup_index \in Nat \cup {-1}
    /\ ended \in {"no", "exit_ui", "quit_all"}
    /\ to_worker \in Seq(WorkerCommand)
    /\ worker \in {Resting} \cup [at : {"coalesce", "request"}, command : WorkerCommand]
    /\ to_ui \in Seq(UiEvent)
    /\ daemon \in {"up", "stopping", "gone", "stale"}
    /\ edits \in Nat /\ requests \in Nat
    /\ quit_asked \in BOOLEAN

\* The selection never points beyond the rows, so that Enter opens what is
\* highlighted, through every order of answers, errors, keys and raw arrow
\* events (apply_search_results, apply_arrow_to_selection, key-pressed).
SelectionInRange == results # <<>> => selected < Len(results)

\* An empty search box shows no rows, however many searches are still on their
\* way when the text is cleared or the launcher is called up again
\* (docs/implementation-status.md:86, show_launcher, query_edited).
BlankQueryShowsNothing == query = "" => results = <<>>

\* The event loop only ends by QuitAll once the daemon has been asked to stop
\* and agreed, or is not there (UiEvent::Shutdown, stop_daemon).
QuitAllLeavesNoDaemon == ended = "quit_all" => daemon # "up"

\* The launcher implements SearchView: rows are only replaced by the answer to
\* the text in the box, or emptied; an answer to an earlier text, or to one from
\* before the launcher was called up, is dropped when it arrives, in every order
\* of edits, answers, errors and calls.  The rows of the text before stay below
\* the new one meanwhile, and Enter opens them (query_edited, IsCurrent).
View == INSTANCE SearchView WITH searching <- awaiting, open <- Running
OutdatedAnswersAreDropped == View!Spec

\* And every text is answered: coalescing never drops the last search for good.
SearchesSettle == View!Settles

\* README.md:114 says that QuitAll waits for the daemon to confirm that it has
\* stopped and then leaves the user interface: once accepted, it ends the event
\* loop or comes back with an error, unless the interface is closed meanwhile.
QuitAllConcludes == quit_asked ~> ~quit_asked \/ ~Running
=============================================================================
