------------------------ MODULE DaemonInstanceProofs ------------------------
(***************************************************************************)
(* Proofs about DaemonInstance, for any number of daemons, starts, faults  *)
(* and Shutdown requests.                                                  *)
(***************************************************************************)
EXTENDS DaemonInstance, TLAPS

-----------------------------------------------------------------------------
(* Types. *)

\* The initial states have their types.
LEMMA InitType == Init => TypeOK
<1>. SUFFICES ASSUME Init PROVE TypeOK
  OBVIOUS
<1>1. backlog \in [Daemon -> Seq(Client \cup {Gone})]
  BY DEF Init
<1>2. ui \in [stage : Probing \cup {"spawn", "done"},
              last : {"Unavailable", "Initializing"}, probes : 0..MaxProbes]
  BY InstanceAssumption DEF Init, Probing
<1>3. starts \in 0..MaxStarts /\ faults \in 0..MaxFaults /\ stops \in 0..MaxStops
  BY InstanceAssumption DEF Init
<1>4. pc \in [Daemon -> Points]
  BY DEF Init, Points
<1>5. answer \in [Client -> {"idle", "pending", "ok", "error", "unreachable"}]
  BY DEF Init
<1>6. \A d \in Daemon : (file = d => pc[d] \in Bound)
                        /\ (backlog[d] # <<>> => Listening(d))
  BY InstanceAssumption DEF Init
<1>. QED  BY <1>1, <1>2, <1>3, <1>4, <1>5, <1>6 DEF Init, TypeOK

\* The parts of the type invariant that the processes share.
SocketType ==
    /\ pc \in [Daemon -> Points]
    /\ file \in Daemon \cup {None, Stale}
    /\ backlog \in [Daemon -> Seq(Client \cup {Gone})]
    /\ answer \in [Client -> {"idle", "pending", "ok", "error", "unreachable"}]
    /\ raced \in BOOLEAN
    /\ met \in [Daemon -> SUBSET Daemon]
    /\ host \in Daemon \cup {None}
    /\ \A d \in Daemon :
        /\ file = d => pc[d] \in Bound
        /\ backlog[d] # <<>> => Listening(d)

UiType == ui \in [stage : Probing \cup {"spawn", "done"},
                  last : {"Unavailable", "Initializing"}, probes : 0..MaxProbes]

CountType ==
    starts \in 0..MaxStarts /\ faults \in 0..MaxFaults /\ stops \in 0..MaxStops

\* The type invariant is the conjunction of these parts.
LEMMA TypeParts == TypeOK <=> SocketType /\ UiType /\ CountType
BY DEF TypeOK, SocketType, UiType, CountType

\* The end of a process, whichever way it comes, keeps the types.
LEMMA EndedType ==
    ASSUME SocketType, NEW d \in Daemon, Ended(d)
    PROVE  SocketType'
<1>1. pc' \in [Daemon -> Points] /\ pc'[d] = "off"
      /\ \A e \in Daemon \ {d} : pc'[e] = pc[e]
  BY DEF Ended, Goto, SocketType, Points
<1>2. backlog' \in [Daemon -> Seq(Client \cup {Gone})] /\ backlog'[d] = <<>>
      /\ \A e \in Daemon \ {d} : backlog'[e] = backlog[e]
  BY DEF Ended, SocketType
<1>3. answer' \in [Client -> {"idle", "pending", "ok", "error", "unreachable"}]
  BY DEF Ended, SocketType
<1>4. file' \in Daemon \cup {None, Stale} /\ file' # d
      /\ (file' = file \/ file' = Stale)
  BY InstanceAssumption DEF Ended, SetFile, SocketType
<1>5. host' \in Daemon \cup {None}
  BY DEF Ended, SetFile, SocketType
<1>6. met' \in [Daemon -> SUBSET Daemon] /\ raced' \in BOOLEAN
  BY DEF Ended, SocketType
<1>7. ASSUME NEW e \in Daemon
      PROVE  /\ file' = e => pc'[e] \in Bound
             /\ backlog'[e] # <<>> => Listening(e)'
  BY <1>1, <1>2, <1>4, InstanceAssumption DEF SocketType, Listening
<1>. QED  BY <1>1, <1>2, <1>3, <1>4, <1>5, <1>6, <1>7 DEF SocketType

\* A step that moves one daemon, and leaves path and connections alone, keeps
\* the types if the daemon does not lose its socket.
LEMMA MoveType ==
    ASSUME SocketType, NEW d \in Daemon, NEW point \in Points, Goto(d, point),
           file = d => point \in Bound, 
           Listening(d) => point \in {"chmod", "close"} \cup Claimed,
           Keep, UNCHANGED <<backlog, answer, history>>
    PROVE  SocketType'
<1>1. pc' \in [Daemon -> Points] /\ pc'[d] = point
      /\ \A e \in Daemon \ {d} : pc'[e] = pc[e]
  BY DEF Goto, SocketType
<1>2. UNCHANGED <<file, host, backlog, answer, raced, met>>
  BY DEF Keep, history
<1>. QED  BY <1>1, <1>2 DEF SocketType, Listening

\* A process that begins keeps the types.
LEMMA StartType ==
    ASSUME SocketType, NEW d \in Daemon, Start(d), Keep, UNCHANGED <<backlog, answer>>
    PROVE  SocketType'
<1>1. pc' \in [Daemon -> Points] /\ pc'[d] = "exists" /\ pc[d] = "off"
      /\ \A e \in Daemon \ {d} : pc'[e] = pc[e]
  BY DEF Start, Goto, SocketType, Points, Claiming
<1>2. UNCHANGED <<file, host, backlog, answer>>
  BY DEF Keep
<1>3. raced' \in BOOLEAN /\ met' \in [Daemon -> SUBSET Daemon]
  BY DEF Start, SocketType
<1>4. file # d /\ backlog[d] = <<>>
  BY <1>1 DEF SocketType, Bound, Claimed, Listening
<1>. QED  BY <1>1, <1>2, <1>3, <1>4 DEF SocketType, Listening

\* So does every step of a daemon.
LEMMA DaemonStepType ==
    ASSUME SocketType, NEW d \in Daemon, DaemonStep(d)
    PROVE  SocketType'
<1>1. CASE Exists(d)
  <2>1. \E point \in {"bind", "connect"} : Goto(d, point)
    BY <1>1 DEF Exists
  <2>2. file # d
    BY <1>1 DEF Exists, SocketType, Bound, Claimed
  <2>. QED  BY <1>1, <2>1, <2>2, MoveType DEF Exists, Points, Claiming, Listening, Claimed
<1>2. CASE FindsAnother(d)
  <2>1. PICK e \in Reached : backlog' = [backlog EXCEPT ![e] = Append(@, Gone)]
    BY <1>2 DEF FindsAnother
  <2>2. e \in Daemon /\ Listening(e) /\ e # d
    BY <1>2, <2>1 DEF Reached, FindsAnother, Listening, Claimed
  <2>3. pc' \in [Daemon -> Points] /\ pc'[d] = "off"
        /\ \A x \in Daemon \ {d} : pc'[x] = pc[x]
    BY <1>2 DEF FindsAnother, Goto, SocketType, Points
  <2>4. backlog' \in [Daemon -> Seq(Client \cup {Gone})]
        /\ \A x \in Daemon \ {e} : backlog'[x] = backlog[x]
    BY <2>1, <2>2 DEF SocketType
  <2>5. file # d /\ backlog[d] = <<>>
    BY <1>2 DEF FindsAnother, SocketType, Bound, Claimed, Listening
  <2>6. UNCHANGED <<file, host, answer, raced>> /\ met' \in [Daemon -> SUBSET Daemon]
    BY <1>2 DEF FindsAnother, Keep, SocketType
  <2>. QED  BY <2>2, <2>3, <2>4, <2>5, <2>6 DEF SocketType, Listening
<1>3. CASE FindsRefusal(d)
  <2>1. file # d
    BY <1>3 DEF FindsRefusal, SocketType, Bound, Claimed
  <2>. QED  BY <1>3, <2>1, MoveType DEF FindsRefusal, Points, Claiming, Listening, Claimed
<1>4. CASE FindsNothing(d) \/ BindFails(d) \/ SetPermissionsFails(d) \/ CloseListener(d)
  BY <1>4, EndedType DEF FindsNothing, BindFails, SetPermissionsFails, CloseListener
<1>5. CASE RemoveStale(d)
  <2>1. pc' \in [Daemon -> Points] /\ pc'[d] = "bind" /\ pc[d] = "remove"
        /\ \A e \in Daemon \ {d} : pc'[e] = pc[e]
    BY <1>5 DEF RemoveStale, Goto, SocketType, Points, Claiming
  <2>2. file' = None /\ host' \in Daemon \cup {None} /\ UNCHANGED <<backlog, answer, raced, met>>
    BY <1>5 DEF RemoveStale, SetFile, history, SocketType
  <2>. QED  BY <2>1, <2>2, InstanceAssumption DEF SocketType, Listening, Claimed
<1>6. CASE Bind(d)
  <2>1. pc' \in [Daemon -> Points] /\ pc'[d] = "listen" /\ pc[d] = "bind"
        /\ \A e \in Daemon \ {d} : pc'[e] = pc[e]
    BY <1>6 DEF Bind, Goto, SocketType, Points, Claiming
  <2>2. file' = d /\ host' \in Daemon \cup {None} /\ UNCHANGED <<backlog, answer, raced, met>>
    BY <1>6 DEF Bind, SetFile, history, SocketType
  <2>. QED  BY <2>1, <2>2 DEF SocketType, Listening, Claimed, Bound
<1>7. CASE Listen(d)
  BY <1>7, MoveType DEF Listen, Points, Claiming, Bound
<1>8. CASE SetPermissions(d)
  BY <1>8, MoveType DEF SetPermissions, Points, Claimed, Bound
<1>9. CASE FinishScan(d)
  BY <1>9, MoveType DEF FinishScan, Points, Claimed, Bound
<1>10. CASE Serve(d)
  <2>1. pc' \in [Daemon -> Points] /\ pc'[d] \in {"serve", "join"} /\ pc[d] = "serve"
        /\ \A e \in Daemon \ {d} : pc'[e] = pc[e]
    BY <1>10 DEF Serve, Goto, SocketType, Points, Claimed
  <2>2. backlog' \in [Daemon -> Seq(Client \cup {Gone})]
        /\ \A e \in Daemon \ {d} : backlog'[e] = backlog[e]
    BY <1>10 DEF Serve, SocketType
  <2>3. answer' \in [Client -> {"idle", "pending", "ok", "error", "unreachable"}]
    BY <1>10 DEF Serve, SocketType
  <2>4. UNCHANGED <<file, host, raced, met>>
    BY <1>10 DEF Serve, Keep, history
  <2>. QED  BY <2>1, <2>2, <2>3, <2>4 DEF SocketType, Listening, Claimed, Bound
<1>11. CASE JoinMonitor(d)
  BY <1>11, MoveType DEF JoinMonitor, Points, Claimed, Bound
<1>12. CASE DropGuard(d)
  <2>1. pc' \in [Daemon -> Points] /\ pc'[d] = "close" /\ pc[d] = "guard"
        /\ \A e \in Daemon \ {d} : pc'[e] = pc[e]
    BY <1>12 DEF DropGuard, Goto, SocketType, Points
  <2>2. file' = None /\ host' \in Daemon \cup {None} /\ UNCHANGED <<backlog, answer, raced, met>>
    BY <1>12 DEF DropGuard, SetFile, history, SocketType
  <2>. QED  BY <2>1, <2>2, InstanceAssumption DEF SocketType, Listening, Claimed
<1>. QED
  BY <1>1, <1>2, <1>3, <1>4, <1>5, <1>6, <1>7, <1>8, <1>9, <1>10, <1>11, <1>12
     DEF DaemonStep

\* A connect reaches a daemon that listens, or nobody.
LEMMA ConnectType ==
    ASSUME SocketType, NEW c \in Client, Connect(c)
    PROVE  /\ backlog' \in [Daemon -> Seq(Client \cup {Gone})]
           /\ answer' \in [Client -> {"idle", "pending", "ok", "error", "unreachable"}]
           /\ \A d \in Daemon : backlog'[d] # <<>> => Listening(d)
           /\ UNCHANGED <<pc, file, raced, met>>
<1>1. answer' \in [Client -> {"idle", "pending", "ok", "error", "unreachable"}]
  BY DEF Connect, SocketType
<1>2. CASE Reached = {}
  BY <1>1, <1>2 DEF Connect, SocketType, history
<1>3. CASE Reached # {}
  <2>1. PICK d \in Reached : backlog' = [backlog EXCEPT ![d] = Append(@, c)]
    BY <1>3 DEF Connect
  <2>2. d \in Daemon /\ Listening(d)
    BY DEF Reached
  <2>. QED  BY <1>1, <2>1, <2>2 DEF Connect, SocketType, history
<1>. QED  BY <1>2, <1>3

\* A read that times out leaves as many connections in every queue.
LEMMA TimesOutType ==
    ASSUME SocketType, NEW c \in Client, TimesOut(c)
    PROVE  SocketType'
<1>1. ASSUME NEW d \in Daemon
      PROVE  /\ backlog'[d] \in Seq(Client \cup {Gone})
             /\ backlog[d] = <<>> => backlog'[d] = <<>>
  <2>1. backlog[d] \in Seq(Client \cup {Gone})
    BY DEF SocketType
  <2>2. DOMAIN backlog[d] = 1..Len(backlog[d]) /\ Len(backlog[d]) \in Nat
    BY <2>1
  <2>3. backlog'[d] = [i \in 1..Len(backlog[d]) |->
                         IF backlog[d][i] = c THEN Gone ELSE backlog[d][i]]
    BY <2>2 DEF TimesOut
  <2>4. \A i \in 1..Len(backlog[d]) : backlog[d][i] \in Client \cup {Gone}
    BY <2>1
  <2>5. backlog'[d] \in [1..Len(backlog[d]) -> Client \cup {Gone}]
    BY <2>3, <2>4
  <2>6. backlog'[d] \in Seq(Client \cup {Gone})
    BY <2>2, <2>5
  <2>7. Len(backlog'[d]) = Len(backlog[d])
    BY <2>2, <2>5
  <2>. QED  BY <2>1, <2>6, <2>7
<1>2. backlog' \in [Daemon -> Seq(Client \cup {Gone})]
  BY <1>1 DEF TimesOut
<1>3. answer' \in [Client -> {"idle", "pending", "ok", "error", "unreachable"}]
  BY DEF TimesOut, SocketType
<1>4. UNCHANGED <<pc, file, host, raced, met>>
  BY DEF TimesOut, Keep, history
<1>. QED  BY <1>1, <1>2, <1>3, <1>4 DEF SocketType, Listening

\* The launcher's steps keep the types.
LEMMA LauncherType ==
    ASSUME SocketType, UiType, CountType, LauncherStep
    PROVE  SocketType' /\ UiType' /\ CountType'
<1>1. CASE SendProbe
  <2>1. host' \in Daemon \cup {None}
    BY <1>1 DEF SendProbe, SocketType, Reached
  <2>2. SocketType'
    BY <1>1, <2>1, ConnectType DEF SendProbe, SocketType, Listening, Client
  <2>3. UiType'
    BY <1>1, InstanceAssumption DEF SendProbe, UiType
  <2>. QED  BY <1>1, <2>2, <2>3 DEF SendProbe, CountType, counts
<1>2. CASE GetVerdict
  <2>1. SocketType'
    BY <1>2 DEF GetVerdict, SocketType, Keep, history, Listening
  <2>2. Verdict(answer["ui"]) \in {"Ready", "Initializing", "Unavailable"}
    BY <1>2 DEF GetVerdict, Verdict
  <2>3. AfterFirst(Verdict(answer["ui"])) \in {"done", "wait", "spawn"}
    BY <2>2 DEF AfterFirst
  <2>4. UiType'
    <3>1. CASE ui.stage = "first"
      BY <1>2, <2>3, <3>1, InstanceAssumption DEF GetVerdict, UiType, Probing
    <3>2. CASE ui.stage # "first" /\ Verdict(answer["ui"]) = "Ready"
      BY <1>2, <3>2 DEF GetVerdict, UiType
    <3>3. CASE ui.stage # "first" /\ Verdict(answer["ui"]) # "Ready"
      BY <1>2, <2>2, <3>3 DEF GetVerdict, UiType
    <3>. QED  BY <3>1, <3>2, <3>3
  <2>. QED  BY <1>2, <2>1, <2>4 DEF GetVerdict, CountType, counts
<1>3. CASE Deadline
  <2>1. SocketType'
    BY <1>3 DEF Deadline, SocketType, Keep, history, Listening
  <2>2. UiType'
    BY <1>3 DEF Deadline, UiType, AfterWait
  <2>. QED  BY <1>3, <2>1, <2>2 DEF Deadline, CountType, counts
<1>4. CASE SpawnDaemon
  <2>1. SocketType'
    BY <1>4, StartType, InstanceAssumption DEF SpawnDaemon
  <2>2. UiType'
    BY <1>4, InstanceAssumption DEF SpawnDaemon, UiType, Probing
  <2>. QED  BY <1>4, <2>1, <2>2 DEF SpawnDaemon, CountType, counts
<1>. QED  BY <1>1, <1>2, <1>3, <1>4 DEF LauncherStep

\* Every step keeps the types.
LEMMA NextType == TypeOK /\ [Next]_vars => TypeOK'
<1>. SUFFICES ASSUME SocketType, UiType, CountType, [Next]_vars
              PROVE  SocketType' /\ UiType' /\ CountType'
  BY TypeParts DEF TypeOK, SocketType, UiType, CountType, Listening
<1>1. ASSUME NEW d \in Daemon, SystemdStarts(d)
      PROVE  SocketType' /\ UiType' /\ CountType'
  <2>1. SocketType'
    BY <1>1, StartType DEF SystemdStarts
  <2>. QED  BY <1>1, <2>1, InstanceAssumption DEF SystemdStarts, UiType, CountType
<1>2. ASSUME NEW d \in Daemon, DaemonStep(d)
      PROVE  SocketType' /\ UiType' /\ CountType'
  <2>1. UNCHANGED <<ui, counts>>
    BY <1>2 DEF DaemonStep
  <2>. QED  BY <1>2, <2>1, DaemonStepType DEF UiType, CountType, counts
<1>3. ASSUME NEW d \in Daemon, Crash(d)
      PROVE  SocketType' /\ UiType' /\ CountType'
  <2>1. SocketType'
    BY <1>3, EndedType DEF Crash
  <2>. QED  BY <1>3, <2>1, InstanceAssumption DEF Crash, Fault, UiType, CountType
<1>4. ASSUME NEW c \in Client, TimesOut(c)
      PROVE  SocketType' /\ UiType' /\ CountType'
  BY <1>4, TimesOutType DEF TimesOut, UiType, CountType, counts
<1>5. CASE StopDaemon
  <2>1. SocketType'
    BY <1>5, ConnectType DEF StopDaemon, SocketType, Listening, Client
  <2>. QED  BY <1>5, <2>1, InstanceAssumption DEF StopDaemon, UiType, CountType
<1>6. ASSUME NEW d \in Daemon, NoMonitor(d)
      PROVE  SocketType' /\ UiType' /\ CountType'
  <2>1. SocketType'
    BY <1>6, MoveType DEF NoMonitor, Points, Claimed, Bound, history
  <2>. QED  BY <1>6, <2>1, InstanceAssumption DEF NoMonitor, Fault, UiType, CountType
<1>7. CASE SpawnFails
  <2>1. SocketType'
    BY <1>7 DEF SpawnFails, SocketType, Keep, history, Listening
  <2>2. UiType'
    BY <1>7 DEF SpawnFails, UiType
  <2>. QED  BY <1>7, <2>1, <2>2, InstanceAssumption DEF SpawnFails, Fault, CountType
<1>8. CASE UNCHANGED vars
  BY <1>8 DEF vars, SocketType, UiType, CountType, Listening
<1>. QED
  BY <1>1, <1>2, <1>3, <1>4, <1>5, <1>6, <1>7, <1>8, LauncherType DEF Next

\* Points, paths, queues and the launcher keep their types; the path never
\* names the socket of a process that has ended, and connections only wait at
\* daemons that listen.
THEOREM TypeCorrect == Spec => []TypeOK
BY InitType, NextType, PTL DEF Spec

-----------------------------------------------------------------------------
(* At most one daemon claims the path. *)

\* As long as starters come one after the other, a bound socket is the one the
\* path names, a socket about to be removed is nobody's, and the path about to
\* be bound is free.
ClaimInv ==
    ~raced =>
        /\ \A d, e \in Daemon : pc[d] \in Claiming /\ pc[e] \in Claiming => d = e
        /\ \A d \in Daemon : pc[d] \in Bound => file = d
        /\ \A d \in Daemon : pc[d] = "remove" => file \notin Daemon
        /\ \A d \in Daemon : pc[d] = "bind" => file = None

\* Nobody claims anything at first.
LEMMA InitClaim == Init => ClaimInv
BY DEF Init, ClaimInv, Claiming, Bound, Claimed

\* A daemon that ends leaves at most a socket that is nobody's.
LEMMA EndedClaim ==
    ASSUME SocketType, ClaimInv, NEW d \in Daemon, Ended(d)
    PROVE  ClaimInv'
<1>1. pc'[d] = "off" /\ \A e \in Daemon \ {d} : pc'[e] = pc[e]
  BY DEF Ended, Goto, SocketType
<1>2. file' = (IF file = d THEN Stale ELSE file) /\ raced' = raced
  BY DEF Ended, SetFile
<1>3. pc'[d] \notin Claiming /\ pc'[d] \notin Bound
  BY <1>1 DEF Claiming, Bound, Claimed
<1>. QED  BY <1>1, <1>2, <1>3, InstanceAssumption DEF ClaimInv

\* A starter that is not alone sets raced; one that is alone finds the rest as
\* it was.
LEMMA StartClaim ==
    ASSUME SocketType, ClaimInv, NEW d \in Daemon, Start(d), UNCHANGED file
    PROVE  ClaimInv'
<1>1. pc'[d] = "exists" /\ \A e \in Daemon \ {d} : pc'[e] = pc[e]
  BY DEF Start, Goto, SocketType
<1>2. raced' = (raced \/ \E e \in Daemon : pc[e] \in Claiming)
  BY DEF Start
<1>3. pc'[d] \notin Bound
  BY <1>1 DEF Bound, Claimed
<1>. QED  BY <1>1, <1>2, <1>3 DEF ClaimInv

\* The steps of a daemon keep the invariant.
LEMMA DaemonStepClaim ==
    ASSUME SocketType, ClaimInv, NEW d \in Daemon, DaemonStep(d)
    PROVE  ClaimInv'
<1>. SUFFICES ASSUME ~raced'
              PROVE  ClaimInv'
  BY DEF ClaimInv
<1>1. CASE Exists(d)
  <2>1. /\ pc[d] = "exists"
        /\ pc'[d] = (IF file = None THEN "bind" ELSE "connect")
        /\ \A e \in Daemon \ {d} : pc'[e] = pc[e]
        /\ file' = file /\ raced' = raced
    BY <1>1 DEF Exists, Goto, SocketType, Keep, history
  <2>2. pc[d] \in Claiming /\ pc'[d] \in Claiming /\ pc'[d] \notin Bound
    BY <2>1 DEF Claiming, Bound, Claimed
  <2>. QED  BY <2>1, <2>2 DEF ClaimInv
<1>2. CASE FindsAnother(d)
  <2>1. /\ pc'[d] = "off"
        /\ \A e \in Daemon \ {d} : pc'[e] = pc[e]
        /\ file' = file /\ raced' = raced
    BY <1>2 DEF FindsAnother, Goto, SocketType, Keep
  <2>2. pc'[d] \notin Claiming /\ pc'[d] \notin Bound
    BY <2>1 DEF Claiming, Bound, Claimed
  <2>. QED  BY <2>1, <2>2 DEF ClaimInv
<1>3. CASE FindsRefusal(d)
  <2>1. /\ pc[d] = "connect" /\ pc'[d] = "remove"
        /\ \A e \in Daemon \ {d} : pc'[e] = pc[e]
        /\ file' = file /\ raced' = raced
    BY <1>3 DEF FindsRefusal, Goto, SocketType, Keep, history
  <2>2. pc[d] \in Claiming /\ pc'[d] \in Claiming /\ pc'[d] \notin Bound
    BY <2>1 DEF Claiming, Bound, Claimed
  <2>3. file \notin Daemon
    <3>1. SUFFICES ASSUME file \in Daemon PROVE FALSE
      OBVIOUS
    <3>2. pc[file] \in Bound /\ ~Listening(file)
      BY <1>3, <3>1 DEF FindsRefusal, Reached, SocketType
    <3>3. pc[file] = "listen"
      BY <3>2 DEF Bound, Listening
    <3>4. file = d
      BY <2>1, <2>2, <3>1, <3>3 DEF ClaimInv, Claiming
    <3>. QED  BY <2>1, <3>3, <3>4
  <2>. QED  BY <2>1, <2>2, <2>3 DEF ClaimInv
<1>4. CASE FindsNothing(d) \/ BindFails(d) \/ SetPermissionsFails(d) \/ CloseListener(d)
  BY <1>4, EndedClaim DEF FindsNothing, BindFails, SetPermissionsFails, CloseListener
<1>5. CASE RemoveStale(d)
  <2>1. /\ pc[d] = "remove" /\ pc'[d] = "bind"
        /\ \A e \in Daemon \ {d} : pc'[e] = pc[e]
        /\ file' = None /\ raced' = raced
    BY <1>5 DEF RemoveStale, Goto, SocketType, SetFile, history
  <2>2. pc[d] \in Claiming /\ pc'[d] \in Claiming /\ pc'[d] \notin Bound
    BY <2>1 DEF Claiming, Bound, Claimed
  <2>3. \A e \in Daemon \ {d} : pc[e] \notin Bound
    BY <2>1 DEF ClaimInv
  <2>. QED  BY <2>1, <2>2, <2>3, InstanceAssumption DEF ClaimInv
<1>6. CASE Bind(d)
  <2>1. /\ pc[d] = "bind" /\ pc'[d] = "listen" /\ file = None
        /\ \A e \in Daemon \ {d} : pc'[e] = pc[e]
        /\ file' = d /\ raced' = raced
    BY <1>6 DEF Bind, Goto, SocketType, SetFile, history
  <2>2. pc[d] \in Claiming /\ pc'[d] \in Claiming
    BY <2>1 DEF Claiming
  <2>3. \A e \in Daemon \ {d} : pc[e] \notin Bound
    BY <2>1, InstanceAssumption DEF ClaimInv
  <2>4. \A e \in Daemon \ {d} : pc[e] # "remove" /\ pc[e] # "bind"
    BY <2>1, <2>2 DEF ClaimInv, Claiming
  <2>. QED  BY <2>1, <2>2, <2>3, <2>4 DEF ClaimInv
<1>7. CASE Listen(d)
  <2>1. /\ pc[d] = "listen" /\ pc'[d] = "chmod"
        /\ \A e \in Daemon \ {d} : pc'[e] = pc[e]
        /\ file' = file /\ raced' = raced
    BY <1>7 DEF Listen, Goto, SocketType, Keep, history
  <2>2. pc[d] \in Claiming /\ pc[d] \in Bound
    BY <2>1 DEF Claiming, Bound
  <2>. QED  BY <2>1, <2>2 DEF ClaimInv
<1>8. CASE SetPermissions(d) \/ FinishScan(d) \/ Serve(d) \/ JoinMonitor(d)
  <2>1. /\ pc[d] \in Bound /\ pc'[d] \in Claimed
        /\ \A e \in Daemon \ {d} : pc'[e] = pc[e]
        /\ file' = file /\ raced' = raced
    <3>1. CASE SetPermissions(d)
      BY <3>1 DEF SetPermissions, Goto, SocketType, Keep, history, Bound, Claimed
    <3>2. CASE FinishScan(d)
      BY <3>2 DEF FinishScan, Goto, SocketType, Keep, history, Bound, Claimed
    <3>3. CASE Serve(d)
      BY <3>3 DEF Serve, Goto, SocketType, Keep, history, Bound, Claimed
    <3>4. CASE JoinMonitor(d)
      BY <3>4 DEF JoinMonitor, Goto, SocketType, Keep, history, Bound, Claimed
    <3>. QED  BY <1>8, <3>1, <3>2, <3>3, <3>4
  <2>2. pc'[d] \notin Claiming /\ pc'[d] # "remove" /\ pc'[d] # "bind"
    BY <2>1 DEF Claiming, Claimed
  <2>. QED  BY <2>1, <2>2 DEF ClaimInv
<1>9. CASE DropGuard(d)
  <2>1. /\ pc[d] = "guard" /\ pc'[d] = "close"
        /\ \A e \in Daemon \ {d} : pc'[e] = pc[e]
        /\ file' = None /\ raced' = raced
    BY <1>9 DEF DropGuard, Goto, SocketType, SetFile, history
  <2>2. pc[d] \in Bound /\ pc'[d] \notin Claiming /\ pc'[d] \notin Bound
    BY <2>1 DEF Claiming, Bound, Claimed
  <2>3. \A e \in Daemon \ {d} : pc[e] \notin Bound
    BY <2>1, <2>2 DEF ClaimInv
  <2>. QED  BY <2>1, <2>2, <2>3, InstanceAssumption DEF ClaimInv
<1>. QED
  BY <1>1, <1>2, <1>3, <1>4, <1>5, <1>6, <1>7, <1>8, <1>9 DEF DaemonStep

\* Every step keeps the invariant: only starts and steps of daemons change what
\* it speaks of.
LEMMA NextClaim == TypeOK /\ ClaimInv /\ [Next]_vars => ClaimInv'
<1>. SUFFICES ASSUME SocketType, ClaimInv, [Next]_vars
              PROVE  ClaimInv'
  BY TypeParts
<1>1. ASSUME NEW d \in Daemon, SystemdStarts(d)
      PROVE  ClaimInv'
  BY <1>1, StartClaim DEF SystemdStarts, Keep
<1>2. ASSUME NEW d \in Daemon, DaemonStep(d)
      PROVE  ClaimInv'
  BY <1>2, DaemonStepClaim
<1>3. ASSUME NEW d \in Daemon, Crash(d)
      PROVE  ClaimInv'
  BY <1>3, EndedClaim DEF Crash
<1>4. CASE SpawnDaemon
  BY <1>4, StartClaim, InstanceAssumption DEF SpawnDaemon, Keep
<1>5. ASSUME UNCHANGED <<pc, file, raced>>
      PROVE  ClaimInv'
  BY <1>5 DEF ClaimInv
<1>6. ASSUME NEW c \in Client, TimesOut(c)
      PROVE  ClaimInv'
  BY <1>5, <1>6 DEF TimesOut, Keep, history
<1>7. CASE SendProbe \/ GetVerdict \/ Deadline \/ SpawnFails
  BY <1>5, <1>7 DEF SendProbe, GetVerdict, Deadline, SpawnFails, Connect, Keep, history
<1>8. CASE StopDaemon
  BY <1>5, <1>8 DEF StopDaemon, Connect, history
<1>9. ASSUME NEW d \in Daemon, NoMonitor(d)
      PROVE  ClaimInv'
  <2>1. /\ pc[d] \in Bound /\ pc'[d] = "guard"
        /\ \A e \in Daemon \ {d} : pc'[e] = pc[e]
        /\ file' = file /\ raced' = raced
    BY <1>9 DEF NoMonitor, Goto, SocketType, Keep, history, Bound, Claimed
  <2>2. pc'[d] \notin Claiming /\ pc'[d] # "remove" /\ pc'[d] # "bind"
    BY <2>1 DEF Claiming
  <2>. QED  BY <2>1, <2>2 DEF ClaimInv
<1>10. CASE UNCHANGED vars
  BY <1>5, <1>10 DEF vars
<1>. QED
  BY <1>1, <1>2, <1>3, <1>4, <1>6, <1>7, <1>8, <1>9, <1>10 DEF Next, LauncherStep

\* As long as starters come one after the other, one daemon at most has claimed
\* the path, and the path leads to it: for any number of daemons, whatever
\* crashes, is stopped or is refused.
THEOREM ClaimIsAlwaysExclusive == Spec => []ClaimIsExclusive
<1>1. ClaimInv => ClaimIsExclusive
  BY DEF ClaimInv, ClaimIsExclusive, Bound
<1>. QED  BY <1>1, InitType, NextType, InitClaim, NextClaim, PTL DEF Spec

-----------------------------------------------------------------------------
(* The launcher starts no rival of a daemon that it found listening. *)

\* A daemon that was listening at the path, and kept it, is reached by every probe:
\* so the launcher has seen no refusal, and none is on its way to it.
HostInv ==
    /\ host # None => file = host /\ Listening(host)
    /\ answer["ui"] = "unreachable" => host = None
    /\ ui.stage = "spawn" => host = None
    /\ ui.stage = "wait" /\ ui.probes # 0 /\ answer["ui"] = "idle" /\ ui.last = "Unavailable" =>
        host = None

\* What HostInv says of the launcher's state needs no more than that the host stays
\* or goes, and that what arrives for the launcher is an answer.
LEMMA HostKept ==
    ASSUME HostInv, host' \in {host, None},
           host' # None => file' = host /\ Listening(host)',
           ui' = ui,
           answer'["ui"] \in {answer["ui"], "ok", "error"}
    PROVE  HostInv'
<1>1. host' # None => file' = host' /\ Listening(host)'
  OBVIOUS
<1>2. host = None => host' = None
  OBVIOUS
<1>. QED
  BY <1>1, <1>2 DEF HostInv

\* Whatever the path names next, the host stays only if it is that.
LEMMA SetFileHost ==
    ASSUME NEW f, SetFile(f)
    PROVE  host' \in {host, None} /\ (host' # None => file' = host)
BY DEF SetFile

\* The end of a process leaves another host where it is.
LEMMA EndedHost ==
    ASSUME SocketType, HostInv, NEW d \in Daemon, Ended(d), ui' = ui
    PROVE  HostInv'
<1>1. host' \in {host, None} /\ (host' # None => file' = host)
  BY SetFileHost DEF Ended
<1>2. host' # None => host # d
  BY <1>1, InstanceAssumption DEF Ended, SetFile, HostInv
<1>3. host' # None => Listening(host)'
  BY <1>1, <1>2 DEF HostInv, Ended, Goto, Listening, SocketType
<1>4. answer'["ui"] \in {answer["ui"], "ok", "error"}
  BY DEF Ended, Client
<1>. QED
  BY <1>1, <1>3, <1>4, HostKept

\* A step of one daemon that leaves the path alone leaves it listening.
LEMMA MovedHost ==
    ASSUME SocketType, HostInv, NEW d \in Daemon, NEW point, Goto(d, point), Keep, ui' = ui,
           Listening(d) => point \in {"chmod", "close"} \cup Claimed,
           answer'["ui"] \in {answer["ui"], "ok", "error"}
    PROVE  HostInv'
<1>1. file' = file /\ host' = host
  BY DEF Keep
<1>2. host # None => Listening(host)'
  BY <1>1 DEF HostInv, Goto, Listening, SocketType
<1>. QED
  BY <1>1, <1>2, HostKept DEF HostInv

\* A daemon's steps.
LEMMA DaemonStepHost ==
    ASSUME SocketType, HostInv, NEW d \in Daemon, DaemonStep(d)
    PROVE  HostInv'
<1>. USE DEF Listening
<1>1. CASE Exists(d)
  <2>1. PICK point : Goto(d, point)
    BY <1>1 DEF Exists
  <2>. QED
    BY <1>1, <2>1, MovedHost DEF Exists, DaemonStep, Claimed
<1>2. CASE FindsAnother(d)
  BY <1>2, MovedHost DEF FindsAnother, DaemonStep, Claimed
<1>3. CASE FindsRefusal(d)
  BY <1>3, MovedHost DEF FindsRefusal, DaemonStep, Claimed
<1>4. CASE FindsNothing(d) \/ BindFails(d) \/ SetPermissionsFails(d) \/ CloseListener(d)
  BY <1>4, EndedHost
     DEF FindsNothing, BindFails, SetPermissionsFails, CloseListener, DaemonStep
<1>5. CASE RemoveStale(d) \/ Bind(d) \/ DropGuard(d)
  \* The path was nobody's or is now.
  <2>1. host' = None
    BY <1>5, InstanceAssumption DEF RemoveStale, Bind, DropGuard, SetFile, HostInv, SocketType
  <2>2. ui' = ui /\ answer' = answer
    BY <1>5 DEF RemoveStale, Bind, DropGuard, DaemonStep
  <2>. QED
    BY <2>1, <2>2, HostKept
<1>6. CASE Listen(d)
  BY <1>6, MovedHost DEF Listen, DaemonStep
<1>7. CASE SetPermissions(d)
  BY <1>7, MovedHost DEF SetPermissions, DaemonStep, Claimed
<1>8. CASE FinishScan(d)
  BY <1>8, MovedHost DEF FinishScan, DaemonStep, Claimed
<1>9. CASE Serve(d)
  <2>1. Goto(d, "join") \/ Goto(d, "serve")
    BY <1>9 DEF Serve
  <2>2. answer'["ui"] \in {answer["ui"], "ok", "error"}
    BY <1>9 DEF Serve, SocketType, Client
  <2>. QED
    BY <1>9, <2>1, <2>2, MovedHost DEF Serve, DaemonStep, Claimed
<1>10. CASE JoinMonitor(d)
  BY <1>10, MovedHost DEF JoinMonitor, DaemonStep, Claimed
<1>. QED
  BY <1>1, <1>2, <1>3, <1>4, <1>5, <1>6, <1>7, <1>8, <1>9, <1>10 DEF DaemonStep

\* A probe reaches the host as long as there is one.
LEMMA ProbeHost ==
    ASSUME SocketType, UiType, HostInv, SendProbe
    PROVE  HostInv'
<1>1. /\ ui.stage \in Probing /\ ui'.stage = ui.stage
      /\ UNCHANGED <<pc, file>>
  BY DEF SendProbe, UiType, Connect
<1>2. CASE Reached = {}
  <2>1. host = None /\ host' = host
    BY <1>2 DEF SendProbe, HostInv, Reached, SocketType
  <2>. QED
    BY <1>1, <2>1 DEF HostInv, Probing
<1>3. CASE Reached # {}
  <2>1. answer'["ui"] = "pending"
    BY <1>3 DEF SendProbe, Connect, SocketType, Client
  <2>2. file \in Daemon /\ Listening(file)
    BY <1>3 DEF Reached
  <2>3. host' \in {host, file}
    BY DEF SendProbe
  <2>. QED
    BY <1>1, <2>1, <2>2, <2>3 DEF HostInv, Listening, Probing
<1>. QED
  BY <1>2, <1>3

\* The launcher's steps: it is sent to spawn by a refusal only.
LEMMA LauncherHost ==
    ASSUME SocketType, UiType, HostInv, LauncherStep
    PROVE  HostInv'
<1>1. CASE GetVerdict
  <2>. DEFINE v == Verdict(answer["ui"])
  <2>1. UNCHANGED <<file, host, pc>> /\ answer'["ui"] = "idle"
    BY <1>1 DEF GetVerdict, Keep, SocketType, Client
  <2>2. v = "Unavailable" => host = None
    BY <1>1 DEF GetVerdict, Verdict, HostInv
  <2>3. v \in {"Ready", "Initializing", "Unavailable"}
    BY <1>1 DEF GetVerdict, Verdict
  <2>4. host' # None => file' = host' /\ Listening(host)'
    BY <2>1 DEF HostInv, Listening
  <2>5. CASE ui.stage = "first"
    <3>1. ui' = [stage |-> AfterFirst(v), last |-> "Unavailable", probes |-> 0]
      BY <1>1, <2>5 DEF GetVerdict
    <3>2. ui'.stage = AfterFirst(v) /\ ui'.probes = 0
      BY <3>1
    <3>3. ui'.stage = "spawn" => v = "Unavailable"
      BY <2>3, <3>2 DEF AfterFirst
    <3>. QED
      BY <2>1, <2>2, <2>4, <3>2, <3>3 DEF HostInv
  <2>6. CASE ui.stage # "first" /\ v = "Ready"
    <3>1. ui'.stage = "done"
      BY <1>1, <2>6 DEF GetVerdict, UiType
    <3>. QED
      BY <2>1, <2>4, <3>1 DEF HostInv
  <2>7. CASE ui.stage # "first" /\ v # "Ready"
    <3>1. ui'.stage = ui.stage /\ ui'.last = v
      BY <1>1, <2>7 DEF GetVerdict, UiType
    <3>. QED
      BY <2>1, <2>2, <2>4, <3>1 DEF HostInv
  <2>. QED
    BY <2>5, <2>6, <2>7
<1>2. CASE Deadline
  <2>1. UNCHANGED <<file, host, pc, answer>>
    BY <1>2 DEF Deadline, Keep
  <2>2. host' # None => file' = host' /\ Listening(host)'
    BY <2>1 DEF HostInv, Listening
  <2>3. ui'.stage \in {"spawn", "done"}
    BY <1>2 DEF Deadline, UiType, AfterWait
  <2>4. ui.probes # 0 /\ answer["ui"] = "idle"
    BY <1>2, InstanceAssumption DEF Deadline
  <2>5. ui'.stage = "spawn" => ui.stage = "wait" /\ ui.last = "Unavailable"
    BY <1>2 DEF Deadline, UiType, AfterWait
  <2>. QED
    BY <2>1, <2>2, <2>3, <2>4, <2>5 DEF HostInv
<1>3. CASE SpawnDaemon
  <2>1. ui'.stage = "confirm" /\ host' = host /\ host = None /\ answer' = answer
    BY <1>3 DEF SpawnDaemon, Keep, HostInv
  <2>. QED
    BY <2>1 DEF HostInv
<1>. QED
  BY <1>1, <1>2, <1>3, ProbeHost DEF LauncherStep

\* Every step keeps it.
LEMMA NextHost == TypeOK /\ HostInv /\ [Next]_vars => HostInv'
<1>. SUFFICES ASSUME SocketType, UiType, HostInv, [Next]_vars
              PROVE  HostInv'
  BY TypeParts
<1>1. ASSUME NEW d \in Daemon, SystemdStarts(d)
      PROVE  HostInv'
  BY <1>1, MovedHost DEF SystemdStarts, Start, Listening, Claimed
<1>2. ASSUME NEW d \in Daemon, DaemonStep(d)
      PROVE  HostInv'
  BY <1>2, DaemonStepHost
<1>3. ASSUME NEW d \in Daemon, Crash(d)
      PROVE  HostInv'
  BY <1>3, EndedHost DEF Crash
<1>4. ASSUME NEW d \in Daemon, NoMonitor(d)
      PROVE  HostInv'
  BY <1>4, MovedHost DEF NoMonitor, Claimed
<1>5. ASSUME NEW c \in Client, TimesOut(c)
      PROVE  HostInv'
  <2>1. answer'["ui"] \in {answer["ui"], "error"} /\ UNCHANGED <<pc, ui>> /\ Keep
    BY <1>5 DEF TimesOut, SocketType, Client
  <2>. QED
    BY <2>1, HostKept DEF Keep, Listening, HostInv
<1>6. CASE SpawnFails
  <2>1. ui'.stage = "done" /\ UNCHANGED <<pc, file, host, answer>>
    BY <1>6 DEF SpawnFails, UiType, Keep
  <2>. QED
    BY <2>1 DEF HostInv, Listening
<1>7. CASE StopDaemon
  <2>1. answer'["ui"] = answer["ui"] /\ UNCHANGED <<pc, file, host, ui>>
    BY <1>7 DEF StopDaemon, Connect, SocketType, Client
  <2>. QED
    BY <2>1 DEF HostInv, Listening
<1>8. CASE UNCHANGED vars
  BY <1>8 DEF vars, HostInv, Listening
<1>. QED
  BY <1>1, <1>2, <1>3, <1>4, <1>5, <1>6, <1>7, <1>8, LauncherHost DEF Next

\* A launcher that has found a daemon listening does not start another one while
\* that daemon keeps the path: for any number of daemons, of probes and of answers
\* that come late or never.
THEOREM SteadyDaemonNeverGetsARival == Spec => []SteadyDaemonGetsNoRival
<1>1. Init => HostInv
  BY DEF Init, HostInv, Client
<1>2. HostInv => SteadyDaemonGetsNoRival
  BY DEF HostInv, SteadyDaemonGetsNoRival
<1>. QED
  BY <1>1, <1>2, InitType, NextType, NextHost, PTL DEF Spec

=============================================================================
