----------------------------- MODULE SessionBus -----------------------------
(***************************************************************************)
(* The starts of the interface in one desktop session: run_launcher from   *)
(* the claim of the bus name (session_bus.rs) to the end of the process.   *)
(*                                                                         *)
(* The bus gives the name to one connection, and takes it back when that   *)
(* connection ends; a method call waits in the callee's connection until   *)
(* its service thread takes it.  Show stands for the modes that open a     *)
(* window: Show, Toggle and Settings.                                      *)
(***************************************************************************)
EXTENDS UiProcess

CONSTANTS
    Mode,           \* the modes they are started in
    BusMayFail,     \* may the bus, a call or the windows be out of reach?
    MaxStarts,      \* starts of all processes together
    MaxExits        \* times a user, or a Shutdown that went well, ends an interface

ASSUME SessionAssumption ==
    /\ "ExitUi" \in Mode /\ None \notin Mode
    /\ Mode \subseteq {"Show", "Background", "Hide", "ExitUi", "Quit"}
    /\ BusMayFail \in BOOLEAN
    /\ MaxStarts \in Nat /\ MaxExits \in Nat

VARIABLES
    stage,      \* where run_launcher is
    mode,       \* LaunchMode of the running process
    name,       \* who owns the bus name
    calls,      \* the method calls in the connection of each process
    callee,     \* the process a starter forwards to, None again once that has ended
    refused,    \* the call of a starter was answered with an error
    events,     \* UiEvents in the channel of each process
    quitting,   \* quit_event_loop was called
    unseen,     \* history: the start is to open a window, and its action was neither
                \* applied nor lost with the process that had it
    starts,
    exits

busVars == <<stage, mode, name, calls, callee, refused, events, quitting, unseen,
             starts, exits>>

-----------------------------------------------------------------------------

\* LaunchMode::action; a start in the background asks for nothing.
Forwards(m) == m # "Background"

\* The modes that go on as an interface when there is none.
Opens(m) == m \in {"Show", "Background"}

\* What a method call and a channel hold: the action and the start it comes from,
\* None for the tray and the worker.
Event == [action : Mode, from : Ui \cup {None}]

BusTypeOK ==
    /\ stage \in [Ui -> {"idle", "forward", "taken", "early", "run", "leave"}]
    /\ mode \in [Ui -> Mode \cup {None}]
    /\ name \in Ui \cup {None}
    /\ calls \in [Ui -> Seq(Event)]
    /\ callee \in [Ui -> Ui \cup {None}]
    /\ refused \in [Ui -> BOOLEAN]
    /\ events \in [Ui -> Seq(Event)]
    /\ quitting \in [Ui -> BOOLEAN]
    /\ unseen \in [Ui -> BOOLEAN]
    /\ starts \in Nat
    /\ exits \in Nat

BusInit ==
    /\ stage = [u \in Ui |-> "idle"]
    /\ mode = [u \in Ui |-> None]
    /\ name = None
    /\ calls = [u \in Ui |-> <<>>]
    /\ callee = [u \in Ui |-> None]
    /\ refused = [u \in Ui |-> FALSE]
    /\ events = [u \in Ui |-> <<>>]
    /\ quitting = [u \in Ui |-> FALSE]
    /\ unseen = [u \in Ui |-> FALSE]
    /\ starts = 0
    /\ exits = 0

From(s, u) == \E i \in DOMAIN s : s[i].from = u

At(u, point) == stage' = [stage EXCEPT ![u] = point]

-----------------------------------------------------------------------------

\* Err from claim_or_forward: without a name the modes that open a window go on,
\* Quit still stops the daemon, and the rest is over.
Unguarded(u, m, refusal) ==
    \/ /\ m \in {"Hide", "ExitUi"}
       /\ At(u, "idle")
       /\ mode' = [mode EXCEPT ![u] = None]
       /\ callee' = [callee EXCEPT ![u] = None]
       /\ UNCHANGED refused
    \/ /\ m \notin {"Hide", "ExitUi"}
       /\ At(u, "early")
       /\ mode' = [mode EXCEPT ![u] = m]
       /\ refused' = [refused EXCEPT ![u] = refusal]
       /\ UNCHANGED callee

\* A process is started, by the user, the session or the bus, and the first thing it
\* does is to ask for the name (request_name, do_not_queue).  Nothing is left of the
\* process that had its name here before.
Start(u, m) ==
    /\ stage[u] = "idle"
    /\ \A v \in Ui : ~From(calls[v], u) /\ ~From(events[v], u)
    /\ starts < MaxStarts
    /\ starts' = starts + 1
    /\ unseen' = [unseen EXCEPT ![u] = (m = "Show")]
    /\ UNCHANGED <<events, quitting, exits>>

\* It is the primary owner, and the service thread starts.
ClaimName(u, m) ==
    /\ Start(u, m)
    /\ name = None
    /\ name' = u
    /\ At(u, "early")
    /\ mode' = [mode EXCEPT ![u] = m]
    /\ UNCHANGED <<calls, callee, refused>>

\* The name is taken: the action goes to its owner, if there is one to forward, and
\* otherwise the process ends.
ForwardAction(u, m) ==
    /\ Start(u, m)
    /\ name # None
    /\ IF Forwards(m)
       THEN /\ calls' = [calls EXCEPT ![name] = Append(@, [action |-> m, from |-> u])]
            /\ callee' = [callee EXCEPT ![u] = name]
            /\ At(u, "forward")
            /\ mode' = [mode EXCEPT ![u] = m]
       ELSE UNCHANGED <<stage, mode, calls, callee>>
    /\ UNCHANGED <<name, refused>>

\* The bus cannot be reached.
FailClaim(u, m) ==
    /\ BusMayFail
    /\ Start(u, m)
    /\ Unguarded(u, m, FALSE)
    /\ UNCHANGED <<name, calls>>

StartUi(u, m) == ClaimName(u, m) \/ ForwardAction(u, m) \/ FailClaim(u, m)

\* Two seconds go by without an answer; the call stays where it is.
TimeOut(u) ==
    /\ BusMayFail
    /\ stage[u] \in {"forward", "taken"}
    /\ Unguarded(u, mode[u], FALSE)
    /\ UNCHANGED <<name, calls, events, quitting, unseen, starts, exits>>

GoOnRefused(u) == Unguarded(u, mode[u], TRUE)

\* The callee's process ended before it answered: the bus answers with an error.
LoseCallee(u) ==
    /\ stage[u] \in {"forward", "taken"}
    /\ callee[u] = None
    /\ GoOnRefused(u)
    /\ UNCHANGED <<name, calls, events, quitting, unseen, starts, exits>>

\* The answer arrives: the start is over.
Forwarded(u) ==
    /\ stage[u] = "taken"
    /\ callee[u] # None
    /\ At(u, "idle")
    /\ mode' = [mode EXCEPT ![u] = None]
    /\ callee' = [callee EXCEPT ![u] = None]
    /\ UNCHANGED <<name, calls, refused, events, quitting, unseen, starts, exits>>

-----------------------------------------------------------------------------
(* The service thread. *)

\* Mutant: actions are only taken once the event pump runs.
Receives_OnceItRuns(v) == stage[v] = "run"

\* The receiver of the channel lives until the event loop has ended: it is there
\* before the interface is.
Receives(v) == stage[v] \in {"early", "run"}

Awaits(u, v) == stage[u] = "forward" /\ callee[u] = v

\* A method is called: it puts the action into the channel, or fails with
\* "shutting down".
TakeCall(v) ==
    /\ calls[v] # <<>>
    /\ Receives(v)
    /\ LET u == Head(calls[v]).from
       IN  /\ events' = [events EXCEPT ![v] = Append(@, Head(calls[v]))]
           /\ stage' = IF Awaits(u, v) THEN [stage EXCEPT ![u] = "taken"] ELSE stage
    /\ calls' = [calls EXCEPT ![v] = Tail(@)]
    /\ UNCHANGED <<mode, name, callee, refused, quitting, unseen, starts, exits>>

RefuseCall(v) ==
    /\ calls[v] # <<>>
    /\ ~Receives(v)
    /\ LET u == Head(calls[v]).from
       IN  IF Awaits(u, v) THEN GoOnRefused(u) ELSE UNCHANGED <<stage, mode, callee, refused>>
    /\ calls' = [calls EXCEPT ![v] = Tail(@)]
    /\ UNCHANGED <<name, events, quitting, unseen, starts, exits>>

-----------------------------------------------------------------------------
(* The main thread. *)

\* Mutant: the action of the start itself is only ever forwarded.
OwnAction_Forgotten(u) == unseen

\* apply_desktop_action of the start's own action.
OwnAction(u) == [unseen EXCEPT ![u] = FALSE]

\* Configuration, daemon, windows and the event pump; then the action of this start.
RunUi(u) ==
    /\ stage[u] = "early"
    /\ Opens(mode[u])
    /\ At(u, "run")
    /\ unseen' = OwnAction(u)
    /\ UNCHANGED <<mode, name, calls, callee, refused, events, quitting, starts, exits>>

\* The pump takes an event.  What Quit leads to comes back as an event of the worker.
Pump(v) ==
    /\ stage[v] = "run"
    /\ events[v] # <<>>
    /\ LET event == Head(events[v])
       IN  /\ unseen' = [u \in Ui |-> unseen[u] /\ event.from # u]
           /\ quitting' = [quitting EXCEPT ![v] = @ \/ event.action = "ExitUi"]
    /\ events' = [events EXCEPT ![v] = Tail(@)]
    /\ UNCHANGED <<stage, mode, name, calls, callee, refused, starts, exits>>

\* Exit in the tray's menu, or the worker's news that the daemon has been stopped.
AskToExit(v) ==
    /\ stage[v] = "run"
    /\ exits < MaxExits
    /\ exits' = exits + 1
    /\ events' = [events EXCEPT ![v] = Append(@, [action |-> "ExitUi", from |-> None])]
    /\ UNCHANGED <<stage, mode, name, calls, callee, refused, quitting, unseen, starts>>

\* Actions that are still in the channel of v are lost.
Lost(v) == [u \in Ui |-> unseen[u] /\ ~From(events[v], u)]

\* The event loop has ended, and the timer is dropped with the receiver.
LeaveLoop(v) ==
    /\ stage[v] = "run"
    /\ quitting[v]
    /\ At(v, "leave")
    /\ unseen' = Lost(v)
    /\ events' = [events EXCEPT ![v] = <<>>]
    /\ UNCHANGED <<mode, name, calls, callee, refused, quitting, starts, exits>>

\* The process ends, and its connection with it.
EndProcess(v) ==
    /\ stage' = [stage EXCEPT ![v] = "idle"]
    /\ name' = IF name = v THEN None ELSE name
    /\ calls' = [calls EXCEPT ![v] = <<>>]
    /\ callee' = [u \in Ui |-> IF u = v \/ callee[u] = v THEN None ELSE callee[u]]
    /\ refused' = [refused EXCEPT ![v] = FALSE]
    /\ events' = [events EXCEPT ![v] = <<>>]
    /\ quitting' = [quitting EXCEPT ![v] = FALSE]
    /\ mode' = [mode EXCEPT ![v] = None]
    /\ UNCHANGED <<starts, exits>>

\* Hide and ExitUi need no interface, Quit only stops the daemon, and without a
\* window the start fails.
LeaveAtOnce(v) ==
    /\ stage[v] = "early"
    /\ ~Opens(mode[v]) \/ BusMayFail
    /\ EndProcess(v)
    /\ unseen' = [Lost(v) EXCEPT ![v] = FALSE]

EndUi(v) == stage[v] = "leave" /\ EndProcess(v) /\ unseen' = Lost(v)

-----------------------------------------------------------------------------
(* What a start promises. *)

IsUi(u) == stage[u] = "run" \/ (stage[u] = "early" /\ Opens(mode[u]))

\* A second interface beside the first one: only a bus that cannot be reached or
\* an answer that takes more than two seconds, or a process that has left its event
\* loop, makes a start go on although the name is taken (claim_or_forward, the
\* "shutting down" of register_action).
RivalOnlyOfLeaver ==
    \A u \in Ui : IsUi(u) /\ refused[u] =>
        callee[u] = None \/ stage[callee[u]] = "leave"

\* No start that asks for a window is left hanging: its action is applied, by the
\* process itself or by the interface it was forwarded to, or it ends with the process
\* that had it: one that accepted it and leaves before it reads it, or one whose
\* windows cannot be made.  Such a start concludes without its window.
EveryShowConcludes == \A u \in Ui : []<>~unseen[u]
=============================================================================
