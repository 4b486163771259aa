--------------------------- MODULE DaemonInstance ---------------------------
(***************************************************************************)
(* The single instance of ruyiseekd: daemons that claim the socket path    *)
(* (bind_single_instance), serve it and give it up (SocketGuard), a        *)
(* launcher that starts and looks for a daemon (ensure_daemon_running),    *)
(* and a user who stops the daemon (stop_daemon, or ruyi shutdown).        *)
(*                                                                         *)
(* The socket path is a directory entry: it can name nothing, the socket   *)
(* of a daemon, or a socket nobody listens on any more.  Every system call *)
(* on it is one step, for nothing makes two of them atomic.                *)
(***************************************************************************)
EXTENDS Naturals, Sequences, SequencesExt

CONSTANTS
    Daemon,        \* processes that may run ruyiseekd
    Child,         \* the one the launcher spawns; systemd starts the others
    None, Stale,   \* the path does not exist; it names a dead socket
    Gone,          \* a queued connection whose client has closed it
    MaxStarts,     \* bound on the starts by systemd
    MaxFaults,     \* bound on the daemons killed and the starts that fail
    MaxStops,      \* bound on the Shutdown requests
    MaxProbes      \* the probes of the five seconds of wait_for_daemon

Client == {"ui", "user"}

ASSUME InstanceAssumption ==
    /\ Child \in Daemon
    /\ None # Stale /\ None \notin Daemon /\ Stale \notin Daemon
    /\ Gone \notin Client
    /\ {MaxStarts, MaxFaults, MaxStops} \subseteq Nat /\ MaxProbes \in Nat \ {0}

VARIABLES
    pc,        \* [Daemon -> point reached in main]
    file,      \* what the socket path names
    backlog,   \* [Daemon -> connections not yet accepted]
    answer,    \* [Client -> state of its request]
    ui,        \* the launcher in ensure_daemon_running
    starts, faults, stops,
    raced,     \* history: a daemon started while another was still claiming
    met,       \* history: the daemons that had claimed when this one started
    host       \* history: the daemon at the path since the launcher's first probe

vars == <<pc, file, backlog, answer, ui, starts, faults, stops, raced, met, host>>
counts == <<starts, faults, stops>>
history == <<raced, met>>

Claiming == {"exists", "connect", "remove", "bind", "listen", "chmod"}
Claimed == {"scan", "serve", "join", "guard"}
Bound == {"listen", "chmod"} \cup Claimed
Points == {"off", "close"} \cup Claiming \cup Claimed

Listening(d) == pc[d] \in {"chmod", "close"} \cup Claimed

Init ==
    /\ pc = [d \in Daemon |-> "off"]
    /\ file \in {None, Stale}
    /\ backlog = [d \in Daemon |-> <<>>]
    /\ answer = [c \in Client |-> "idle"]
    /\ ui = [stage |-> "first", last |-> "Unavailable", probes |-> 0]
    /\ starts = 0 /\ faults = 0 /\ stops = 0
    /\ raced = FALSE
    /\ met = [d \in Daemon |-> {}]
    /\ host = None

-----------------------------------------------------------------------------
(* What the kernel does. *)

\* The path names f from now on.
SetFile(f) ==
    /\ file' = f
    /\ host' = IF f = host THEN host ELSE None

Keep == UNCHANGED <<file, host>>

\* connect(2) reaches whoever listens on the socket the path names.
Reached == {d \in Daemon : file = d /\ Listening(d)}

Goto(d, point) == pc' = [pc EXCEPT ![d] = point]

\* d's process ends: its listener closes, and the clients still queued see
\* their connections end.
Ended(d) ==
    /\ Goto(d, "off")
    /\ backlog' = [backlog EXCEPT ![d] = <<>>]
    /\ answer' = [c \in Client |->
                    IF c \in ToSet(backlog[d]) THEN "error" ELSE answer[c]]
    /\ SetFile(IF file = d THEN Stale ELSE file)
    /\ met' = [e \in Daemon |-> IF e = d THEN {} ELSE met[e] \ {d}]
    /\ UNCHANGED raced

-----------------------------------------------------------------------------
(* ruyiseekd: main and bind_single_instance. *)

\* A process begins; nothing is claimed yet.
Start(d) ==
    /\ pc[d] = "off"
    /\ Goto(d, "exists")
    /\ raced' = (raced \/ \E e \in Daemon : pc[e] \in Claiming)
    /\ met' = [met EXCEPT ![d] = {e \in Daemon : pc[e] \in Claimed}]

SystemdStarts(d) ==
    /\ d # Child
    /\ starts < MaxStarts
    /\ starts' = starts + 1
    /\ Start(d)
    /\ Keep
    /\ UNCHANGED <<backlog, answer, ui, faults, stops>>

\* if socket.exists()
Exists(d) ==
    /\ pc[d] = "exists"
    /\ Goto(d, IF file = None THEN "bind" ELSE "connect")
    /\ Keep
    /\ UNCHANGED <<backlog, answer, history>>

\* Mutant: the guard exists before the claim, and drops when it fails.
FindsAnother_GuardDrops(d) ==
    /\ pc[d] = "connect"
    /\ \E e \in Reached :
        backlog' = [backlog EXCEPT ![e] = Append(@, Gone)]
    /\ Goto(d, "off")
    /\ met' = [met EXCEPT ![d] = {}]
    /\ SetFile(None)
    /\ UNCHANGED <<answer, raced>>

\* UnixStream::connect(socket) succeeds: AddrInUse.  The connection is closed
\* at once, and stays in the other daemon's backlog.
FindsAnother(d) ==
    /\ pc[d] = "connect"
    /\ \E e \in Reached :
        backlog' = [backlog EXCEPT ![e] = Append(@, Gone)]
    /\ Goto(d, "off")
    /\ met' = [met EXCEPT ![d] = {}]
    /\ Keep
    /\ UNCHANGED <<answer, raced>>

\* Mutant: every error of connect is returned.
FindsRefusal_GivesUp(d) ==
    /\ pc[d] = "connect"
    /\ file # None /\ Reached = {}
    /\ Ended(d)

\* ConnectionRefused: a socket nobody listens on, or not yet.
FindsRefusal(d) ==
    /\ pc[d] = "connect"
    /\ file # None /\ Reached = {}
    /\ Goto(d, "remove")
    /\ Keep
    /\ UNCHANGED <<backlog, answer, history>>

\* connect or remove_file fails with NotFound: the path went since exists().
FindsNothing(d) ==
    /\ pc[d] \in {"connect", "remove"}
    /\ file = None
    /\ Ended(d)

RemoveStale(d) ==
    /\ pc[d] = "remove"
    /\ file # None
    /\ Goto(d, "bind")
    /\ SetFile(None)
    /\ UNCHANGED <<backlog, answer, history>>

\* UnixListener::bind, first half: bind(2) makes the path.
Bind(d) ==
    /\ pc[d] = "bind"
    /\ file = None
    /\ Goto(d, "listen")
    /\ SetFile(d)
    /\ UNCHANGED <<backlog, answer, history>>

\* bind(2) fails with AddrInUse: somebody else made the path.
BindFails(d) ==
    /\ pc[d] = "bind"
    /\ file # None
    /\ Ended(d)

\* UnixListener::bind, second half: listen(2).
Listen(d) ==
    /\ pc[d] = "listen"
    /\ Goto(d, "chmod")
    /\ Keep
    /\ UNCHANGED <<backlog, answer, history>>

\* set_permissions follows the path, whoever's socket it names now.
SetPermissions(d) ==
    /\ pc[d] = "chmod"
    /\ file # None
    /\ Goto(d, "scan")
    /\ Keep
    /\ UNCHANGED <<backlog, answer, history>>

\* It fails if the path is gone; the guard does not exist yet.
SetPermissionsFails(d) ==
    /\ pc[d] = "chmod"
    /\ file = None
    /\ Ended(d)

\* The index is built and the monitor spawned.
FinishScan(d) ==
    /\ pc[d] = "scan"
    /\ Goto(d, "serve")
    /\ Keep
    /\ UNCHANGED <<backlog, answer, history>>

\* One turn of the accept loop.  A client that has gone cannot be answered, and
\* a Shutdown that cannot be answered is not followed.  An answer that was
\* written may still come too late for its client.
Serve(d) ==
    /\ pc[d] = "serve"
    /\ backlog[d] # <<>>
    /\ LET c == Head(backlog[d])
       IN  /\ Goto(d, IF c = "user" THEN "join" ELSE "serve")
           /\ IF c = Gone
              THEN UNCHANGED answer
              ELSE \E a \in {"ok", "error"} : answer' = [answer EXCEPT ![c] = a]
    /\ backlog' = [backlog EXCEPT ![d] = Tail(@)]
    /\ Keep
    /\ UNCHANGED history

\* RefreshMonitor::drop waits for the monitor, which may be walking the disk.
JoinMonitor(d) ==
    /\ pc[d] = "join"
    /\ Goto(d, "guard")
    /\ Keep
    /\ UNCHANGED <<backlog, answer, history>>

\* SocketGuard::drop removes the path, whoever's socket it names now.
DropGuard(d) ==
    /\ pc[d] = "guard"
    /\ Goto(d, "close")
    /\ SetFile(None)
    /\ UNCHANGED <<backlog, answer, history>>

\* The listener was declared before the guard, so it is dropped after it.
CloseListener(d) ==
    /\ pc[d] = "close"
    /\ Ended(d)

DaemonStep(d) ==
    /\ \/ Exists(d) \/ FindsAnother(d) \/ FindsRefusal(d) \/ FindsNothing(d)
       \/ RemoveStale(d) \/ Bind(d) \/ BindFails(d) \/ Listen(d)
       \/ SetPermissions(d) \/ SetPermissionsFails(d)
       \/ FinishScan(d) \/ Serve(d) \/ JoinMonitor(d) \/ DropGuard(d)
       \/ CloseListener(d)
    /\ UNCHANGED <<ui, counts>>

Fault == faults < MaxFaults /\ faults' = faults + 1

\* SIGKILL or SIGTERM at any point: no destructor runs.
Crash(d) ==
    /\ pc[d] # "off"
    /\ Fault
    /\ Ended(d)
    /\ UNCHANGED <<ui, starts, stops>>

\* The monitor's thread cannot be spawned: main returns, and the guard drops.
NoMonitor(d) ==
    /\ pc[d] = "scan"
    /\ Fault
    /\ Goto(d, "guard")
    /\ Keep
    /\ UNCHANGED <<backlog, answer, history, ui, starts, stops>>

-----------------------------------------------------------------------------
(* request_daemon. *)

Connect(c) ==
    /\ IF Reached = {}
       THEN /\ answer' = [answer EXCEPT ![c] = "unreachable"]
            /\ UNCHANGED backlog
       ELSE /\ answer' = [answer EXCEPT ![c] = "pending"]
            /\ \E d \in Reached : backlog' = [backlog EXCEPT ![d] = Append(@, c)]
    /\ UNCHANGED <<pc, file, history>>

\* The read timeout: the client closes its connection, which stays queued.
TimesOut(c) ==
    /\ answer[c] = "pending"
    /\ answer' = [answer EXCEPT ![c] = "error"]
    /\ backlog' = [d \in Daemon |->
                     [i \in DOMAIN backlog[d] |->
                        IF backlog[d][i] = c THEN Gone ELSE backlog[d][i]]]
    /\ Keep
    /\ UNCHANGED <<pc, ui, counts, history>>

-----------------------------------------------------------------------------
(* The launcher: ensure_daemon_running. *)

\* Mutant: no answer in time counts as no daemon.
Verdict_SilenceIsAbsence(a) ==
    IF a = "ok" THEN "Ready" ELSE "Unavailable"

\* classify_daemon_probe
Verdict(a) ==
    CASE a = "ok"          -> "Ready"
      [] a = "error"       -> "Initializing"
      [] a = "unreachable" -> "Unavailable"

Probing == {"first", "wait", "confirm"}

\* Mutant: wait_for_daemon never looks at its deadline.
SendProbe_NoDeadline ==
    /\ ui.stage \in Probing
    /\ answer["ui"] = "idle"
    /\ Connect("ui")
    /\ ui' = [ui EXCEPT !.probes = @ + 1]
    /\ host' = IF ui.stage = "first" /\ Reached # {} THEN file ELSE host
    /\ UNCHANGED counts

SendProbe ==
    /\ ui.stage \in Probing
    /\ answer["ui"] = "idle"
    /\ ui.probes < MaxProbes
    /\ Connect("ui")
    /\ ui' = [ui EXCEPT !.probes = @ + 1]
    /\ host' = IF ui.stage = "first" /\ Reached # {} THEN file ELSE host
    /\ UNCHANGED counts

\* What follows the first probe (main.rs:864-886).
AfterFirst(v) ==
    CASE v = "Ready"        -> "done"
      [] v = "Initializing" -> "wait"
      [] v = "Unavailable"  -> "spawn"

\* What follows the wait after it.
AfterWait(v) == IF v = "Unavailable" THEN "spawn" ELSE "done"

GetVerdict ==
    /\ answer["ui"] \in {"ok", "error", "unreachable"}
    /\ LET v == Verdict(answer["ui"])
       IN  ui' = IF ui.stage = "first"
                 THEN [stage |-> AfterFirst(v), last |-> "Unavailable", probes |-> 0]
                 ELSE IF v = "Ready" THEN [ui EXCEPT !.stage = "done"]
                 ELSE [ui EXCEPT !.last = v]
    /\ answer' = [answer EXCEPT !["ui"] = "idle"]
    /\ Keep
    /\ UNCHANGED <<pc, backlog, counts, history>>

\* The five seconds of wait_for_daemon are over.
Deadline ==
    /\ ui.stage \in {"wait", "confirm"}
    /\ ui.probes = MaxProbes
    /\ answer["ui"] = "idle"
    /\ ui' = [ui EXCEPT !.stage =
                IF ui.stage = "wait" THEN AfterWait(ui.last) ELSE "done"]
    /\ Keep
    /\ UNCHANGED <<pc, backlog, answer, counts, history>>

\* locate_daemon_binary and spawn
SpawnDaemon ==
    /\ ui.stage = "spawn"
    /\ Start(Child)
    /\ ui' = [stage |-> "confirm", last |-> "Unavailable", probes |-> 0]
    /\ Keep
    /\ UNCHANGED <<backlog, answer, counts>>

\* There is no ruyiseekd to be found, or it cannot be started.
SpawnFails ==
    /\ ui.stage = "spawn"
    /\ Fault
    /\ ui' = [ui EXCEPT !.stage = "done"]
    /\ Keep
    /\ UNCHANGED <<pc, backlog, answer, starts, stops, history>>

LauncherStep == SendProbe \/ GetVerdict \/ Deadline \/ SpawnDaemon

-----------------------------------------------------------------------------
(* The user: stop_daemon, once the answer to an earlier request is there. *)

StopDaemon ==
    /\ stops < MaxStops
    /\ answer["user"] # "pending"
    /\ file # None
    /\ stops' = stops + 1
    /\ Connect("user")
    /\ UNCHANGED <<ui, host, starts, faults>>

-----------------------------------------------------------------------------

Next ==
    \/ \E d \in Daemon : SystemdStarts(d) \/ DaemonStep(d) \/ Crash(d) \/ NoMonitor(d)
    \/ \E c \in Client : TimesOut(c)
    \/ LauncherStep \/ SpawnFails
    \/ StopDaemon

Spec == Init /\ [][Next]_vars

\* Daemons and the launcher run on, walks end, and reads time out.
FairSpec ==
    /\ Spec
    /\ \A d \in Daemon : WF_vars(DaemonStep(d))
    /\ \A c \in Client : WF_vars(TimesOut(c))
    /\ WF_vars(LauncherStep)

-----------------------------------------------------------------------------
(* Properties. *)

\* The variables have their types, the path names no process that has ended,
\* and only a daemon that listens has connections waiting.
TypeOK ==
    /\ pc \in [Daemon -> Points]
    /\ file \in Daemon \cup {None, Stale}
    /\ backlog \in [Daemon -> Seq(Client \cup {Gone})]
    /\ answer \in [Client -> {"idle", "pending", "ok", "error", "unreachable"}]
    /\ ui \in [stage : Probing \cup {"spawn", "done"},
               last : {"Unavailable", "Initializing"}, probes : 0..MaxProbes]
    /\ starts \in 0..MaxStarts /\ faults \in 0..MaxFaults /\ stops \in 0..MaxStops
    /\ raced \in BOOLEAN
    /\ met \in [Daemon -> SUBSET Daemon]
    /\ host \in Daemon \cup {None}
    /\ \A d \in Daemon :
        /\ file = d => pc[d] \in Bound
        /\ backlog[d] # <<>> => Listening(d)

\* As long as no daemon starts while another one is still inside
\* bind_single_instance, at most one has claimed the path, and the path leads to
\* it: whatever crashes, stops, or is refused (main.rs:394-426, 498-511).
ClaimIsExclusive ==
    ~raced => \A d \in Daemon : pc[d] \in Claimed =>
                /\ file = d
                /\ \A e \in Daemon : pc[e] \in Claimed => e = d

\* What the comment at main.rs:50-53 says of starters: one that starts when a
\* daemon has already claimed the path does not become a second one.
LaterStarterFailsFast ==
    \A d \in Daemon : pc[d] \in Claimed =>
        \A e \in met[d] : pc[e] \notin {"scan", "serve"}

\* The launcher does not start a rival of a daemon that it found listening and
\* that has kept the path since, however long that daemon takes to answer.
SteadyDaemonGetsNoRival == ui.stage = "spawn" => host = None

Reachable == \E d \in Daemon : pc[d] = "serve" /\ file = d

\* When nobody stops or kills a daemon and nothing fails to start, a launcher
\* that has finished ensure_daemon_running gets a daemon that answers, whatever
\* daemons started at the same time did to each other's sockets.
LauncherFindsDaemon ==
    ui.stage = "done" ~> Reachable \/ stops > 0 \/ faults > 0

=============================================================================
