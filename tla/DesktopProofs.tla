--------------------------- MODULE DesktopProofs ----------------------------
(***************************************************************************)
(* Proofs about Desktop, SessionBus and Clipboard, for any number of       *)
(* processes, starts, exits, copies and requests: type correctness, who    *)
(* may run beside whom, and what the selection promises.                   *)
(***************************************************************************)
EXTENDS Desktop, SequenceTheorems, TLAPS

-----------------------------------------------------------------------------
(* The calls and the events wait in sequences *)

\* What is left when the first element is taken.
LEMMA TailElements ==
    ASSUME NEW S, NEW s \in Seq(S), s # <<>>
    PROVE  /\ Tail(s) \in Seq(S) /\ Head(s) \in S
           /\ 1 \in DOMAIN s /\ Head(s) = s[1]
           /\ \A i \in DOMAIN Tail(s) : i + 1 \in DOMAIN s /\ Tail(s)[i] = s[i + 1]
<1>1. Len(s) \in Nat /\ Len(s) > 0 /\ DOMAIN s = 1..Len(s)
  BY EmptySeq, LenProperties
<1>2. /\ Tail(s) \in Seq(S) /\ Head(s) \in S /\ Len(Tail(s)) = Len(s) - 1
      /\ \A i \in 1..Len(Tail(s)) : Tail(s)[i] = s[i + 1]
  BY HeadTailProperties
<1>3. DOMAIN Tail(s) = 1..Len(s) - 1
  BY <1>2, LenProperties
<1>4. Head(s) = s[1]
  OBVIOUS
<1>. QED
  BY <1>1, <1>2, <1>3, <1>4

\* What there is when one is appended.
LEMMA AppendElements ==
    ASSUME NEW S, NEW s \in Seq(S), NEW e \in S
    PROVE  /\ Append(s, e) \in Seq(S)
           /\ \A i \in DOMAIN Append(s, e) :
                IF i = Len(s) + 1 THEN Append(s, e)[i] = e
                ELSE i \in DOMAIN s /\ Append(s, e)[i] = s[i]
           /\ \A i \in DOMAIN s : i \in DOMAIN Append(s, e) /\ Append(s, e)[i] = s[i]
           /\ \E i \in DOMAIN Append(s, e) : Append(s, e)[i] = e
<1>1. /\ Append(s, e) \in Seq(S) /\ Len(Append(s, e)) = Len(s) + 1
      /\ \A i \in 1..Len(s) : Append(s, e)[i] = s[i]
      /\ Append(s, e)[Len(s) + 1] = e
  BY AppendProperties
<1>2. Len(s) \in Nat /\ DOMAIN s = 1..Len(s) /\ DOMAIN Append(s, e) = 1..Len(s) + 1
  BY <1>1, LenProperties
<1>. QED
  BY <1>1, <1>2

-----------------------------------------------------------------------------
\* Who has the name has claimed it and not ended yet.
NameInv == name # None => stage[name] \in {"early", "run", "leave"}

\* So has a process that was asked to show itself.
CalleeInv == \A u \in Ui : callee[u] # None => stage[callee[u]] \in {"early", "run", "leave"}

\* A start that was refused goes on, and it was refused by a process that leaves.
RefusedInv ==
    \A u \in Ui : refused[u] =>
        /\ stage[u] \in {"early", "run", "leave"}
        /\ callee[u] = None \/ stage[callee[u]] = "leave"

\* Methods are called by starts.
CallsInv == \A v \in Ui : \A i \in DOMAIN calls[v] : calls[v][i].from \in Ui

BusInv == BusTypeOK /\ NameInv /\ CalleeInv /\ RefusedInv /\ CallsInv

\* The UI thread and the thread of a copy exist while the event loop runs or its
\* remains are dropped, and no thread serves while the next selection is taken.
CopyInv ==
    \A u \in Ui :
        /\ stage[u] \notin {"run", "leave"} => thread[u] = "none" /\ caller[u] = "idle"
        /\ thread[u] # "none" => data[u] # None /\ caller[u] \in {"idle", "join"}
        /\ caller[u] = "set" => copying[u] # None
        /\ caller[u] = "verify" => data[u] # None

\* A request that does not wait asks for nothing any more.
ConcludedInv ==
    \A r \in Request :
        /\ paste[r].state # "stale"
        /\ paste[r].state # "waiting" => paste[r].target = None

\* A request in an inbox that still waits was made of the data its window serves.
WaitingInv ==
    \A u \in Ui : \A i \in DOMAIN inbox[u] : inbox[u][i] # Clear =>
        /\ paste[inbox[u][i]].state # "none"
        /\ paste[inbox[u][i]].state = "waiting" => paste[inbox[u][i]].expected = data[u]

\* A thread that serves a window that is not the owner has the news in its inbox.
OwnerInv == \A u \in Ui : thread[u] # "none" /\ owner # u => Clear \in Queued(u)

ClipInv == ClipTypeOK /\ CopyInv /\ ConcludedInv /\ WaitingInv /\ OwnerInv

IInv == BusInv /\ ClipInv

-----------------------------------------------------------------------------
(* The bus. *)

\* Nobody has the name, and nothing is called, when nothing has started yet.
LEMMA InitBusInv == BusInit => BusInv
<1>. SUFFICES ASSUME BusInit PROVE BusInv
  OBVIOUS
<1>1. calls \in [Ui -> Seq(Event)] /\ events \in [Ui -> Seq(Event)]
  BY EmptySeq DEF BusInit
<1>2. BusTypeOK
  BY <1>1 DEF BusInit, BusTypeOK
<1>. QED
  BY <1>2 DEF BusInit, BusInv, NameInv, CalleeInv, RefusedInv, CallsInv

\* Steps that leave the bus alone, the events of the interfaces and the history of
\* what was seen aside.
LEMMA EventsKeepBusInv ==
    ASSUME BusInv, UNCHANGED <<stage, mode, name, calls, callee, refused, starts>>,
           events' \in [Ui -> Seq(Event)], quitting' \in [Ui -> BOOLEAN],
           unseen' \in [Ui -> BOOLEAN], exits' \in Nat
    PROVE  BusInv'
BY DEF BusInv, BusTypeOK, NameInv, CalleeInv, RefusedInv, CallsInv

\* A process that is where nobody is called goes where the name is claimed or the
\* name is asked for again; nobody else moves.
LEMMA MoveKeepsInv ==
    ASSUME BusInv, UNCHANGED <<events, quitting, exits>>,
           calls' \in [Ui -> Seq(Event)], CallsInv',
           NEW u \in Ui, stage[u] \in {"idle", "forward", "taken"},
           NEW point \in {"idle", "forward", "taken", "early"},
           stage' = [stage EXCEPT ![u] = point],
           mode' \in [Ui -> Mode \cup {None}],
           name' = name \/ (name' = u /\ point = "early"),
           callee' \in [Ui -> Ui \cup {None}], refused' \in [Ui -> BOOLEAN],
           \A w \in Ui : w # u => callee'[w] = callee[w] /\ refused'[w] = refused[w],
           callee'[u] \in {callee[u], None} \/ (callee'[u] = name /\ point = "forward"),
           refused'[u] => point = "early" /\ (callee'[u] = None \/ stage[callee'[u]] = "leave"),
           unseen' \in [Ui -> BOOLEAN], starts' \in Nat
    PROVE  BusInv'
<1>1. BusTypeOK'
  BY DEF BusInv, BusTypeOK
<1>2. NameInv'
  BY DEF BusInv, BusTypeOK, NameInv
<1>3. CalleeInv'
  BY ZenonT(60) DEF BusInv, BusTypeOK, NameInv, CalleeInv
<1>4. RefusedInv'
  BY DEF BusInv, BusTypeOK, NameInv, CalleeInv, RefusedInv
<1>. QED
  BY <1>1, <1>2, <1>3, <1>4 DEF BusInv

\* Nothing is called.
LEMMA CallsKept ==
    ASSUME BusInv, UNCHANGED calls
    PROVE  calls' \in [Ui -> Seq(Event)] /\ CallsInv'
BY DEF BusInv, BusTypeOK, CallsInv

\* The first call in the connection of a process is taken.
LEMMA CallTaken ==
    ASSUME BusInv, NEW v \in Ui, calls[v] # <<>>, calls' = [calls EXCEPT ![v] = Tail(@)]
    PROVE  /\ calls' \in [Ui -> Seq(Event)] /\ CallsInv'
           /\ Head(calls[v]) \in Event /\ Head(calls[v]).from \in Ui
<1>1. calls[v] \in Seq(Event)
  BY DEF BusInv, BusTypeOK
<1>2. /\ Tail(calls[v]) \in Seq(Event) /\ Head(calls[v]) \in Event
      /\ 1 \in DOMAIN calls[v] /\ Head(calls[v]) = calls[v][1]
      /\ \A i \in DOMAIN Tail(calls[v]) :
           i + 1 \in DOMAIN calls[v] /\ Tail(calls[v])[i] = calls[v][i + 1]
  BY <1>1, TailElements
<1>3. calls' \in [Ui -> Seq(Event)]
  BY <1>2 DEF BusInv, BusTypeOK
<1>4. CallsInv'
  BY <1>2 DEF BusInv, BusTypeOK, CallsInv
<1>. QED
  BY <1>2, <1>3, <1>4 DEF BusInv, CallsInv

\* A start calls the process that has the name.
LEMMA CallSent ==
    ASSUME BusInv, NEW u \in Ui, NEW m \in Mode, NEW v \in Ui,
           calls' = [calls EXCEPT ![v] = Append(@, [action |-> m, from |-> u])]
    PROVE  calls' \in [Ui -> Seq(Event)] /\ CallsInv'
<1>. DEFINE call == [action |-> m, from |-> u]
<1>1. calls[v] \in Seq(Event) /\ call \in Event /\ call.from \in Ui
  BY DEF BusInv, BusTypeOK, Event
<1>2. /\ Append(calls[v], call) \in Seq(Event)
      /\ \A i \in DOMAIN Append(calls[v], call) :
           IF i = Len(calls[v]) + 1 THEN Append(calls[v], call)[i] = call
           ELSE i \in DOMAIN calls[v] /\ Append(calls[v], call)[i] = calls[v][i]
  BY <1>1, AppendElements
<1>3. calls' \in [Ui -> Seq(Event)]
  BY <1>2 DEF BusInv, BusTypeOK
<1>4. CallsInv'
  BY <1>1, <1>2 DEF BusInv, BusTypeOK, CallsInv
<1>. QED
  BY <1>3, <1>4

\* A start that goes on without the name, or ends: with a refusal only by a process
\* that has ended or leaves.
LEMMA UnguardedKeepsInv ==
    ASSUME BusInv, NEW u \in Ui, stage[u] \in {"idle", "forward", "taken"},
           NEW m \in Mode \cup {None}, NEW refusal \in BOOLEAN, Unguarded(u, m, refusal),
           refusal => callee[u] = None \/ stage[callee[u]] = "leave",
           UNCHANGED <<name, events, quitting, exits>>,
           calls' \in [Ui -> Seq(Event)], CallsInv',
           unseen' \in [Ui -> BOOLEAN], starts' \in Nat
    PROVE  BusInv'
<1>1. ~refused[u]
  BY DEF BusInv, RefusedInv, BusTypeOK
<1>2. CASE /\ At(u, "idle") /\ mode' = [mode EXCEPT ![u] = None]
           /\ callee' = [callee EXCEPT ![u] = None] /\ UNCHANGED refused
  <2>1. /\ mode' \in [Ui -> Mode \cup {None}] /\ callee' \in [Ui -> Ui \cup {None}]
        /\ \A w \in Ui : w # u => callee'[w] = callee[w]
        /\ callee'[u] = None /\ refused' \in [Ui -> BOOLEAN]
    BY <1>2 DEF BusInv, BusTypeOK
  <2>. QED
    BY <1>1, <1>2, <2>1, MoveKeepsInv DEF At
<1>3. CASE /\ At(u, "early") /\ mode' = [mode EXCEPT ![u] = m]
           /\ refused' = [refused EXCEPT ![u] = refusal] /\ UNCHANGED callee
  <2>1. /\ mode' \in [Ui -> Mode \cup {None}] /\ callee' \in [Ui -> Ui \cup {None}]
        /\ \A w \in Ui : w # u => refused'[w] = refused[w]
        /\ refused'[u] = refusal /\ refused' \in [Ui -> BOOLEAN]
    BY <1>3 DEF BusInv, BusTypeOK
  <2>. QED
    BY <1>3, <2>1, MoveKeepsInv DEF At
<1>. QED
  BY <1>2, <1>3 DEF Unguarded

\* A start keeps the invariant.
LEMMA StartKeepsInv ==
    ASSUME BusInv, NEW u \in Ui, NEW m \in Mode, StartUi(u, m)
    PROVE  BusInv'
<1>1. /\ stage[u] = "idle" /\ unseen' \in [Ui -> BOOLEAN] /\ starts' \in Nat
      /\ UNCHANGED <<events, quitting, exits>>
  <2>1. Start(u, m)
    BY DEF StartUi, ClaimName, ForwardAction, FailClaim
  <2>2. unseen' \in [Ui -> BOOLEAN]
    BY <2>1 DEF Start, BusInv, BusTypeOK
  <2>3. starts \in Nat /\ starts' = starts + 1
    BY <2>1 DEF Start, BusInv, BusTypeOK
  <2>. QED
    BY <2>1, <2>2, <2>3 DEF Start
<1>2. ~refused[u]
  BY <1>1 DEF BusInv, RefusedInv, BusTypeOK
<1>3. CASE ClaimName(u, m)
  <2>1. mode' \in [Ui -> Mode \cup {None}] /\ UNCHANGED <<calls, callee, refused>>
    BY <1>3 DEF ClaimName, BusInv, BusTypeOK
  <2>2. callee' \in [Ui -> Ui \cup {None}] /\ refused' \in [Ui -> BOOLEAN]
    BY <2>1 DEF BusInv, BusTypeOK
  <2>3. stage' = [stage EXCEPT ![u] = "early"] /\ name' = u
    BY <1>3 DEF ClaimName, At
  <2>. QED
    BY <1>1, <1>2, <2>1, <2>2, <2>3, CallsKept, MoveKeepsInv
<1>4. CASE ForwardAction(u, m)
  <2>1. name \in Ui /\ UNCHANGED <<name, refused>>
    BY <1>4 DEF ForwardAction, BusInv, BusTypeOK
  <2>2. CASE Forwards(m)
    <3>1. /\ calls' = [calls EXCEPT ![name] = Append(@, [action |-> m, from |-> u])]
          /\ callee' = [callee EXCEPT ![u] = name]
          /\ stage' = [stage EXCEPT ![u] = "forward"] /\ mode' = [mode EXCEPT ![u] = m]
      BY <1>4, <2>2 DEF ForwardAction, At
    <3>2. /\ mode' \in [Ui -> Mode \cup {None}] /\ callee' \in [Ui -> Ui \cup {None}]
          /\ refused' \in [Ui -> BOOLEAN] /\ callee'[u] = name
          /\ \A w \in Ui : w # u => callee'[w] = callee[w]
      BY <2>1, <3>1 DEF BusInv, BusTypeOK
    <3>. QED
      BY <1>1, <1>2, <2>1, <3>1, <3>2, CallSent, MoveKeepsInv
  <2>3. CASE ~Forwards(m)
    <3>1. UNCHANGED <<stage, mode, calls, callee>>
      BY <1>4, <2>3 DEF ForwardAction
    <3>. QED
      BY <1>1, <2>1, <3>1 DEF BusInv, BusTypeOK, NameInv, CalleeInv, RefusedInv, CallsInv
  <2>. QED
    BY <2>2, <2>3
<1>5. CASE FailClaim(u, m)
  BY <1>1, <1>5, CallsKept, UnguardedKeepsInv DEF FailClaim
<1>. QED
  BY <1>3, <1>4, <1>5 DEF StartUi

\* The end of a process keeps the invariant: nobody waits for it any more.
LEMMA EndKeepsBusInv ==
    ASSUME BusInv, NEW v \in Ui, EndProcess(v), unseen' \in [Ui -> BOOLEAN]
    PROVE  BusInv'
<1>1. calls' \in [Ui -> Seq(Event)] /\ events' \in [Ui -> Seq(Event)]
  BY EmptySeq DEF EndProcess, BusInv, BusTypeOK
<1>2. BusTypeOK'
  BY <1>1 DEF EndProcess, BusInv, BusTypeOK
<1>3. NameInv' /\ CalleeInv'
  BY DEF EndProcess, BusInv, BusTypeOK, NameInv, CalleeInv
<1>4. RefusedInv'
  BY DEF EndProcess, BusInv, BusTypeOK, RefusedInv, CalleeInv
<1>5. CallsInv'
  BY DEF EndProcess, BusInv, BusTypeOK, CallsInv
<1>. QED
  BY <1>2, <1>3, <1>4, <1>5 DEF BusInv

\* What an action that is lost leaves unseen.
LEMMA LostTypes == ASSUME BusInv, NEW v \in Ui PROVE Lost(v) \in [Ui -> BOOLEAN]
BY DEF BusInv, BusTypeOK, Lost

\* The answers to a start, and their absence, keep the invariant.
LEMMA StarterKeepsInv ==
    ASSUME BusInv, NEW u \in Ui, TimeOut(u) \/ LoseCallee(u) \/ Forwarded(u)
    PROVE  BusInv'
<1>1. /\ stage[u] \in {"forward", "taken"} /\ mode[u] \in Mode \cup {None}
      /\ UNCHANGED <<name, calls, events, quitting, exits, unseen, starts>>
  BY DEF TimeOut, LoseCallee, Forwarded, BusInv, BusTypeOK
<1>2. unseen' \in [Ui -> BOOLEAN] /\ starts' \in Nat
  BY <1>1 DEF BusInv, BusTypeOK
<1>3. ~refused[u]
  BY <1>1 DEF BusInv, RefusedInv, BusTypeOK
<1>4. CASE TimeOut(u)
  BY <1>1, <1>2, <1>4, CallsKept, UnguardedKeepsInv DEF TimeOut
<1>5. CASE LoseCallee(u)
  BY <1>1, <1>2, <1>5, CallsKept, UnguardedKeepsInv DEF LoseCallee, GoOnRefused
<1>6. CASE Forwarded(u)
  <2>1. /\ mode' \in [Ui -> Mode \cup {None}] /\ callee' \in [Ui -> Ui \cup {None}]
        /\ \A w \in Ui : w # u => callee'[w] = callee[w]
        /\ callee'[u] = None /\ UNCHANGED refused /\ refused' \in [Ui -> BOOLEAN]
        /\ stage' = [stage EXCEPT ![u] = "idle"]
    BY <1>6 DEF Forwarded, At, BusInv, BusTypeOK
  <2>. QED
    BY <1>1, <1>2, <1>3, <2>1, CallsKept, MoveKeepsInv
<1>. QED
  BY <1>4, <1>5, <1>6

\* The service thread keeps the invariant: who is refused was called while the callee
\* was up, and it only refuses once it leaves.
LEMMA ServiceKeepsInv ==
    ASSUME BusInv, NEW v \in Ui, TakeCall(v) \/ RefuseCall(v)
    PROVE  BusInv'
<1>. DEFINE u == Head(calls[v]).from
<1>1. /\ calls' \in [Ui -> Seq(Event)] /\ CallsInv'
      /\ Head(calls[v]) \in Event /\ u \in Ui
  BY CallTaken DEF TakeCall, RefuseCall
<1>2. mode[u] \in Mode \cup {None} /\ unseen \in [Ui -> BOOLEAN] /\ starts \in Nat
  BY <1>1 DEF BusInv, BusTypeOK
<1>3. CASE TakeCall(v)
  <2>1. events' \in [Ui -> Seq(Event)]
    <3>1. Append(events[v], Head(calls[v])) \in Seq(Event)
      BY <1>1, AppendElements DEF BusInv, BusTypeOK
    <3>. QED
      BY <1>3, <3>1 DEF TakeCall, BusInv, BusTypeOK
  <2>2. UNCHANGED <<mode, name, callee, refused, quitting, unseen, starts, exits>>
    BY <1>3 DEF TakeCall
  <2>3. \A w \in Ui : \/ stage'[w] = stage[w]
                      \/ stage[w] = "forward" /\ stage'[w] = "taken"
    BY <1>1, <1>3 DEF TakeCall, Awaits, BusInv, BusTypeOK
  <2>4. stage' \in [Ui -> {"idle", "forward", "taken", "early", "run", "leave"}]
    BY <1>3 DEF TakeCall, BusInv, BusTypeOK
  <2>5. BusTypeOK'
    BY <1>1, <2>1, <2>2, <2>4 DEF BusInv, BusTypeOK
  <2>6. NameInv' /\ CalleeInv' /\ RefusedInv'
    <3>1. name \in Ui \cup {None} /\ callee \in [Ui -> Ui \cup {None}]
      BY DEF BusInv, BusTypeOK
    <3>2. NameInv'
      BY <2>2, <2>3, <3>1 DEF BusInv, NameInv
    <3>3. CalleeInv'
      BY <2>2, <2>3, <3>1 DEF BusInv, CalleeInv
    <3>4. RefusedInv'
      BY <2>2, <2>3, <3>1 DEF BusInv, RefusedInv
    <3>. QED
      BY <3>2, <3>3, <3>4
  <2>. QED
    BY <1>1, <2>5, <2>6 DEF BusInv
<1>4. CASE RefuseCall(v) /\ Awaits(u, v)
  <2>1. stage[u] = "forward" /\ callee[u] = v /\ ~Receives(v)
    BY <1>4 DEF RefuseCall, Awaits
  <2>2. stage[v] = "leave"
    BY <1>1, <2>1, ProcessAssumption DEF BusInv, CalleeInv, BusTypeOK, Receives
  <2>3. Unguarded(u, mode[u], TRUE) /\ UNCHANGED <<name, events, quitting, unseen, starts, exits>>
    BY <1>4 DEF RefuseCall, GoOnRefused
  <2>. QED
    BY <1>1, <1>2, <2>1, <2>2, <2>3, UnguardedKeepsInv
<1>5. CASE RefuseCall(v) /\ ~Awaits(u, v)
  <2>1. UNCHANGED <<stage, mode, callee, refused, name, events, quitting, unseen, starts, exits>>
    BY <1>5 DEF RefuseCall
  <2>. QED
    BY <1>1, <2>1 DEF BusInv, BusTypeOK, NameInv, CalleeInv, RefusedInv
<1>. QED
  BY <1>3, <1>4, <1>5

\* The main thread keeps the invariant.
LEMMA MainKeepsInv ==
    ASSUME BusInv, NEW v \in Ui, RunUi(v) \/ Pump(v) \/ AskToExit(v) \/ LeaveLoop(v)
    PROVE  BusInv'
<1>1. ASSUME events' \in [Ui -> Seq(Event)], unseen' \in [Ui -> BOOLEAN],
             NEW point \in {"run", "leave"}, stage' = [stage EXCEPT ![v] = point],
             stage[v] \in {"early", "run"},
             UNCHANGED <<mode, name, calls, callee, refused, quitting, starts, exits>>
      PROVE  BusInv'
  <2>1. BusTypeOK'
    BY <1>1 DEF BusInv, BusTypeOK
  <2>2. NameInv' /\ CalleeInv' /\ RefusedInv' /\ CallsInv'
    BY <1>1 DEF BusInv, BusTypeOK, NameInv, CalleeInv, RefusedInv, CallsInv
  <2>. QED
    BY <2>1, <2>2 DEF BusInv
<1>2. CASE RunUi(v)
  <2>1. events' \in [Ui -> Seq(Event)] /\ unseen' \in [Ui -> BOOLEAN]
    BY <1>2 DEF RunUi, OwnAction, BusInv, BusTypeOK
  <2>. QED
    BY <1>1, <1>2, <2>1 DEF RunUi, At
<1>3. CASE Pump(v)
  <2>1. events[v] \in Seq(Event) /\ Tail(events[v]) \in Seq(Event)
    BY <1>3, TailElements DEF Pump, BusInv, BusTypeOK
  <2>2. events' \in [Ui -> Seq(Event)]
    BY <1>3, <2>1 DEF Pump, BusInv, BusTypeOK
  <2>3. unseen' \in [Ui -> BOOLEAN] /\ exits' \in Nat
    BY <1>3 DEF Pump, BusInv, BusTypeOK
  <2>4. quitting' \in [Ui -> BOOLEAN]
    BY <1>3 DEF Pump, BusInv, BusTypeOK
  <2>. QED
    BY <1>3, <2>2, <2>3, <2>4, EventsKeepBusInv DEF Pump
<1>4. CASE AskToExit(v)
  <2>. DEFINE exit == [action |-> "ExitUi", from |-> None]
  <2>1. exit \in Event
    BY SessionAssumption DEF Event
  <2>2. Append(events[v], exit) \in Seq(Event)
    BY <2>1, AppendElements DEF BusInv, BusTypeOK
  <2>3. events' \in [Ui -> Seq(Event)]
    BY <1>4, <2>2 DEF AskToExit, BusInv, BusTypeOK
  <2>4. exits \in Nat /\ exits' = exits + 1
    BY <1>4 DEF AskToExit, BusInv, BusTypeOK
  <2>5. exits' \in Nat
    BY <2>4
  <2>6. quitting' \in [Ui -> BOOLEAN] /\ unseen' \in [Ui -> BOOLEAN]
    BY <1>4 DEF AskToExit, BusInv, BusTypeOK
  <2>. QED
    BY <1>4, <2>3, <2>5, <2>6, EventsKeepBusInv DEF AskToExit
<1>5. CASE LeaveLoop(v)
  <2>1. events' \in [Ui -> Seq(Event)] /\ unseen' \in [Ui -> BOOLEAN]
    BY <1>5, EmptySeq, LostTypes DEF LeaveLoop, BusInv, BusTypeOK
  <2>. QED
    BY <1>1, <1>5, <2>1 DEF LeaveLoop, At
<1>. QED
  BY <1>2, <1>3, <1>4, <1>5

\* A process that ends keeps the invariant.
LEMMA LeaveKeepsBusInv ==
    ASSUME BusInv, NEW v \in Ui, LeaveAtOnce(v) \/ EndUi(v)
    PROVE  BusInv'
<1>1. EndProcess(v) /\ (unseen' = Lost(v) \/ unseen' = [Lost(v) EXCEPT ![v] = FALSE])
  BY DEF LeaveAtOnce, EndUi
<1>2. unseen' \in [Ui -> BOOLEAN]
  BY <1>1, LostTypes
<1>. QED
  BY <1>1, <1>2, EndKeepsBusInv

-----------------------------------------------------------------------------
(* The clipboard. *)

\* What is copied is a number, and None is not.
LEMMA DataTypes == Data \subseteq Nat /\ None \notin Data /\ None \notin Request /\ Clear = None
BY ClipboardAssumption DEF Data, Request, Clear

\* The kinds of requests.
LEMMA RequestTypes ==
    /\ \A state \in {"none", "over", "stale"} : Concluded(state) \in Requests
    /\ \A target \in Target, d \in Data \cup {None} :
         [state |-> "waiting", target |-> target, expected |-> d] \in Requests
BY DEF Concluded, Requests

\* Nothing is copied or asked for when nothing has started yet.
LEMMA InitClipInv == BusInit /\ ClipInit => ClipInv
<1>. SUFFICES ASSUME BusInit, ClipInit PROVE ClipInv
  OBVIOUS
<1>1. inbox \in [Ui -> Seq(Request \cup {Clear})]
  BY EmptySeq DEF ClipInit
<1>2. NoRequest \in Requests
  BY RequestTypes DEF NoRequest
<1>3. ClipTypeOK
  BY <1>1, <1>2 DEF ClipInit, ClipTypeOK
<1>4. CopyInv /\ OwnerInv
  BY DEF BusInit, ClipInit, CopyInv, OwnerInv
<1>5. WaitingInv
  BY DEF ClipInit, WaitingInv
<1>6. ConcludedInv
  BY DEF ClipInit, ConcludedInv, NoRequest, Concluded
<1>. QED
  BY <1>3, <1>4, <1>5, <1>6 DEF ClipInv

\* The inboxes after the server has put a SelectionClear into some of them.
Grown(boxes) ==
    /\ boxes \in [Ui -> Seq(Request \cup {Clear})]
    /\ \A w \in Ui :
         /\ \A i \in DOMAIN boxes[w] :
              boxes[w][i] = Clear \/ (i \in DOMAIN inbox[w] /\ boxes[w][i] = inbox[w][i])
         /\ \A i \in DOMAIN inbox[w] : i \in DOMAIN boxes[w] /\ boxes[w][i] = inbox[w][i]

\* An inbox that holds the news.
HasClear(box) == \E i \in DOMAIN box : box[i] = Clear

\* Nothing is put into an inbox.
LEMMA GrownNone == ClipTypeOK => Grown(inbox)
BY DEF Grown, ClipTypeOK

\* The server tells the one who owned the selection.
LEMMA GrownTold ==
    ASSUME ClipTypeOK, NEW new
    PROVE  Grown(Told(new)) /\ \A w \in Ui : w = owner /\ w # new => HasClear(Told(new)[w])
<1>1. ASSUME NEW w \in Ui
      PROVE  /\ Told(new)[w] \in Seq(Request \cup {Clear})
             /\ \A i \in DOMAIN Told(new)[w] :
                  \/ Told(new)[w][i] = Clear
                  \/ i \in DOMAIN inbox[w] /\ Told(new)[w][i] = inbox[w][i]
             /\ \A i \in DOMAIN inbox[w] :
                  i \in DOMAIN Told(new)[w] /\ Told(new)[w][i] = inbox[w][i]
             /\ w = owner /\ w # new => HasClear(Told(new)[w])
  <2>1. inbox[w] \in Seq(Request \cup {Clear})
    BY DEF ClipTypeOK
  <2>2. CASE w = owner /\ w # new
    <3>1. Told(new)[w] = Append(inbox[w], Clear)
      BY <2>2 DEF Told
    <3>. QED
      BY <2>1, <3>1, AppendElements DEF HasClear
  <2>3. CASE ~(w = owner /\ w # new)
    <3>1. Told(new)[w] = inbox[w]
      BY <2>3 DEF Told
    <3>. QED
      BY <2>1, <2>3, <3>1
  <2>. QED
    BY <2>2, <2>3
<1>2. Told(new) \in [Ui -> Seq(Request \cup {Clear})]
  <2>1. DOMAIN Told(new) = Ui /\ Told(new) = [w \in Ui |-> Told(new)[w]]
    BY DEF Told
  <2>. QED
    BY <1>1, <2>1
<1>. QED
  BY <1>1, <1>2 DEF Grown

\* The end of a connection: nothing waits for its window any more, and if the
\* selection is lost by another one, that one is told.
LEMMA DisconnectedKeeps ==
    ASSUME ClipInv, NEW u \in Ui, NEW boxes, Grown(boxes), Disconnected(u, boxes),
           owner' \in Ui \cup {Other, None},
           \A w \in Ui : w # u /\ owner' # w => owner # w \/ HasClear(boxes[w])
    PROVE  /\ inbox' \in [Ui -> Seq(Request \cup {Clear})]
           /\ data' \in [Ui -> Data \cup {None}]
           /\ thread' \in [Ui -> {"none", "loop", "poll", "release"}]
           /\ served' \in [Ui -> BOOLEAN]
           /\ paste' \in [Request -> Requests]
           /\ thread'[u] = "none"
           /\ \A w \in Ui : w # u => thread'[w] = thread[w] /\ data'[w] = data[w]
           /\ ConcludedInv' /\ WaitingInv' /\ OwnerInv'
<1>1. /\ inbox' = [boxes EXCEPT ![u] = <<>>]
      /\ data' = [data EXCEPT ![u] = None]
      /\ thread' = [thread EXCEPT ![u] = "none"]
      /\ served' = [served EXCEPT ![u] = FALSE]
      /\ paste' = [r \in Request |-> IF r \in Queued(u) THEN Concluded("over") ELSE paste[r]]
  BY DEF Disconnected
<1>2. inbox' \in [Ui -> Seq(Request \cup {Clear})]
  BY <1>1, EmptySeq DEF Grown
<1>3. /\ data' \in [Ui -> Data \cup {None}]
      /\ thread' \in [Ui -> {"none", "loop", "poll", "release"}]
      /\ served' \in [Ui -> BOOLEAN]
      /\ thread'[u] = "none"
      /\ \A w \in Ui : w # u => thread'[w] = thread[w] /\ data'[w] = data[w]
  BY <1>1 DEF ClipInv, ClipTypeOK
<1>4. paste' \in [Request -> Requests]
  BY <1>1, RequestTypes DEF ClipInv, ClipTypeOK
<1>5. /\ Concluded("over").state = "over" /\ Concluded("over").target = None
  BY DEF Concluded
<1>6. ConcludedInv'
  BY <1>1, <1>5 DEF ClipInv, ConcludedInv
<1>7. WaitingInv'
  <2>1. SUFFICES ASSUME NEW w \in Ui, NEW i \in DOMAIN inbox'[w], inbox'[w][i] # Clear
                 PROVE  /\ paste'[inbox'[w][i]].state # "none"
                        /\ paste'[inbox'[w][i]].state = "waiting" =>
                             paste'[inbox'[w][i]].expected = data'[w]
    BY DEF WaitingInv, Clear
  <2>2. w # u
    BY <1>1 DEF Grown
  <2>3. inbox'[w] = boxes[w]
    BY <1>1, <2>2 DEF Grown
  <2>4. i \in DOMAIN inbox[w] /\ inbox'[w][i] = inbox[w][i]
    BY <2>1, <2>3 DEF Grown
  <2>5. inbox[w] \in Seq(Request \cup {Clear})
    BY DEF ClipInv, ClipTypeOK
  <2>6. inbox[w][i] \in Request
    BY <2>1, <2>4, <2>5, LenProperties, ElementOfSeq
  <2>. QED
    BY <1>1, <1>3, <1>5, <2>1, <2>2, <2>4, <2>6 DEF ClipInv, WaitingInv
<1>8. OwnerInv'
  <2>1. SUFFICES ASSUME NEW w \in Ui, thread'[w] # "none", owner' # w
                 PROVE  HasClear(inbox'[w])
    BY DEF OwnerInv, Queued, HasClear, Clear
  <2>2. w # u /\ thread[w] # "none" /\ inbox'[w] = boxes[w]
    BY <1>1, <1>3, <2>1 DEF Grown
  <2>3. owner # w => HasClear(inbox[w])
    BY <2>2 DEF ClipInv, OwnerInv, Queued, HasClear
  <2>4. HasClear(inbox[w]) => HasClear(boxes[w])
    BY DEF Grown, HasClear
  <2>. QED
    BY <2>1, <2>2, <2>3, <2>4
<1>. QED
  BY <1>2, <1>3, <1>4, <1>6, <1>7, <1>8

\* Close is such an end.
LEMMA CloseKeeps ==
    ASSUME ClipInv, NEW u \in Ui, Close(u)
    PROVE  /\ owner' \in Ui \cup {Other, None}
           /\ inbox' \in [Ui -> Seq(Request \cup {Clear})]
           /\ data' \in [Ui -> Data \cup {None}]
           /\ thread' \in [Ui -> {"none", "loop", "poll", "release"}]
           /\ served' \in [Ui -> BOOLEAN]
           /\ paste' \in [Request -> Requests]
           /\ thread'[u] = "none"
           /\ \A w \in Ui : w # u => thread'[w] = thread[w] /\ data'[w] = data[w]
           /\ ConcludedInv' /\ WaitingInv' /\ OwnerInv'
<1>1. Disconnected(u, inbox) /\ owner' = IF owner = u THEN None ELSE owner
  BY DEF Close
<1>2. owner' \in Ui \cup {Other, None} /\ \A w \in Ui : w # u /\ owner' # w => owner # w
  BY <1>1 DEF ClipInv, ClipTypeOK
<1>3. Grown(inbox)
  BY GrownNone DEF ClipInv
<1>. QED
  BY <1>1, <1>2, <1>3, DisconnectedKeeps

\* Steps that concern neither the owner nor an inbox nor a request: a thread may start
\* for the owner.
LEMMA QuietKeeps ==
    ASSUME ClipInv, UNCHANGED <<owner, inbox, data, paste>>,
           \A w \in Ui : thread'[w] # "none" => thread[w] # "none" \/ owner = w
    PROVE  ConcludedInv' /\ WaitingInv' /\ OwnerInv'
BY DEF ClipInv, ConcludedInv, WaitingInv, OwnerInv, Queued, Clear

\* Another program copies something: who owned the selection is told.
LEMMA TakeOverKeepsInv == ASSUME ClipInv, UNCHANGED stage, TakeOver PROVE ClipInv'
<1>1. /\ owner' = Other /\ inbox' = Told(Other) /\ takeovers' = takeovers + 1
      /\ UNCHANGED <<data, thread, served, caller, copying, paste, copies>>
  BY DEF TakeOver
<1>2. Grown(inbox') /\ \A w \in Ui : w = owner => HasClear(inbox'[w])
  BY <1>1, GrownTold, ClipboardAssumption DEF ClipInv
<1>3. takeovers' \in Nat
  <2>1. takeovers \in Nat
    BY DEF ClipInv, ClipTypeOK
  <2>. QED
    BY <1>1, <2>1
<1>4. ClipTypeOK'
  BY <1>1, <1>2, <1>3 DEF ClipInv, ClipTypeOK, Grown
<1>5. CopyInv' /\ ConcludedInv'
  BY <1>1 DEF ClipInv, CopyInv, ConcludedInv
<1>6. WaitingInv'
  BY <1>1, <1>2 DEF ClipInv, WaitingInv, Grown, Clear
<1>7. OwnerInv'
  <2>1. SUFFICES ASSUME NEW w \in Ui, thread[w] # "none" PROVE HasClear(inbox'[w])
    BY <1>1 DEF OwnerInv, Queued, HasClear, Clear
  <2>2. owner # w => HasClear(inbox[w])
    BY <2>1 DEF ClipInv, OwnerInv, Queued, HasClear
  <2>. QED
    BY <1>2, <2>2 DEF Grown, HasClear
<1>. QED
  BY <1>4, <1>5, <1>6, <1>7 DEF ClipInv

\* A request is made of the data that is on offer.
LEMMA AskKeepsInv ==
    ASSUME ClipInv, UNCHANGED stage, NEW r \in Request, NEW target \in Target, Ask(r, target)
    PROVE  ClipInv'
<1>. DEFINE request == [state |-> "waiting", target |-> target, expected |-> data[owner]]
<1>1. /\ paste[r].state = "none" /\ owner \in Ui
      /\ inbox' = [inbox EXCEPT ![owner] = Append(@, r)]
      /\ paste' = [paste EXCEPT ![r] = request]
      /\ UNCHANGED <<owner, data, thread, served, caller, copying, copies, takeovers>>
  BY DEF Ask
<1>2. request \in Requests
  BY <1>1, RequestTypes DEF ClipInv, ClipTypeOK
<1>3. inbox[owner] \in Seq(Request \cup {Clear})
  BY <1>1 DEF ClipInv, ClipTypeOK
<1>4. /\ Append(inbox[owner], r) \in Seq(Request \cup {Clear})
      /\ \A i \in DOMAIN Append(inbox[owner], r) :
           \/ Append(inbox[owner], r)[i] = r
           \/ i \in DOMAIN inbox[owner] /\ Append(inbox[owner], r)[i] = inbox[owner][i]
      /\ \A i \in DOMAIN inbox[owner] :
           /\ i \in DOMAIN Append(inbox[owner], r)
           /\ Append(inbox[owner], r)[i] = inbox[owner][i]
  BY <1>3, AppendElements
<1>5. inbox' \in [Ui -> Seq(Request \cup {Clear})] /\ paste' \in [Request -> Requests]
  BY <1>1, <1>2, <1>4 DEF ClipInv, ClipTypeOK
<1>6. ClipTypeOK' /\ CopyInv'
  BY <1>1, <1>5 DEF ClipInv, ClipTypeOK, CopyInv
<1>7. ConcludedInv'
  BY <1>1 DEF ClipInv, ClipTypeOK, ConcludedInv
<1>8. WaitingInv'
  <2>1. SUFFICES ASSUME NEW w \in Ui, NEW i \in DOMAIN inbox'[w], inbox'[w][i] # Clear
                 PROVE  /\ paste'[inbox'[w][i]].state # "none"
                        /\ paste'[inbox'[w][i]].state = "waiting" =>
                             paste'[inbox'[w][i]].expected = data[w]
    BY <1>1 DEF WaitingInv, Clear
  <2>2. paste'[r] = request
    BY <1>1 DEF ClipInv, ClipTypeOK
  <2>3. CASE inbox'[w][i] = r /\ w = owner
    BY <2>2, <2>3
  <2>4. CASE i \in DOMAIN inbox[w] /\ inbox'[w][i] = inbox[w][i]
    <3>1. inbox[w][i] # r /\ paste'[inbox[w][i]] = paste[inbox[w][i]]
      BY <1>1, <2>1, <2>4 DEF ClipInv, ClipTypeOK, WaitingInv
    <3>. QED
      BY <2>1, <2>4, <3>1 DEF ClipInv, WaitingInv
  <2>5. (inbox'[w][i] = r /\ w = owner) \/ (i \in DOMAIN inbox[w] /\ inbox'[w][i] = inbox[w][i])
    BY <1>1, <1>4 DEF ClipInv, ClipTypeOK
  <2>. QED
    BY <2>3, <2>4, <2>5
<1>9. OwnerInv'
  <2>1. SUFFICES ASSUME NEW w \in Ui, thread[w] # "none", owner # w PROVE HasClear(inbox'[w])
    BY <1>1 DEF OwnerInv, Queued, HasClear, Clear
  <2>2. HasClear(inbox[w]) /\ inbox'[w] = inbox[w]
    BY <1>1, <2>1 DEF ClipInv, ClipTypeOK, OwnerInv, Queued, HasClear
  <2>. QED
    BY <2>2
<1>. QED
  BY <1>6, <1>7, <1>8, <1>9 DEF ClipInv

\* The UI thread up to the new selection: its thread is not there any more when it
\* takes the selection.
LEMMA CallerKeepsInv ==
    ASSUME ClipInv, UNCHANGED stage, NEW u \in Ui,
           \/ stage[u] = "run" /\ Copy(u)
           \/ stage[u] \in {"run", "leave"} /\ DropSlot(u)
           \/ Joined(u)
    PROVE  ClipInv'
<1>1. /\ UNCHANGED <<owner, inbox, data, thread, served, paste, takeovers>>
      /\ caller[u] \in {"idle", "join"} /\ caller' = [caller EXCEPT ![u] = caller'[u]]
      /\ caller'[u] \in {"idle", "join", "set"}
      /\ caller'[u] = "set" => thread[u] = "none" /\ copying'[u] # None
      /\ stage[u] \in {"run", "leave"}
  BY DEF ClipInv, ClipTypeOK, CopyInv, Copy, DropSlot, Joined
<1>2. copying' \in [Ui -> Data \cup {None}] /\ \A w \in Ui : w # u => copying'[w] = copying[w]
  <2>1. CASE Copy(u)
    <3>1. copies \in Nat /\ copies < MaxCopies /\ MaxCopies \in Nat
      BY <2>1, ClipboardAssumption DEF Copy, ClipInv, ClipTypeOK
    <3>2. copies + 1 \in Data
      BY <3>1 DEF Data
    <3>. QED
      BY <2>1, <3>2 DEF Copy, ClipInv, ClipTypeOK
  <2>2. CASE DropSlot(u) \/ Joined(u)
    BY <2>2 DEF DropSlot, Joined, ClipInv, ClipTypeOK
  <2>. QED
    BY <2>1, <2>2
<1>3. copies' \in Nat
  <2>1. copies \in Nat /\ (copies' = copies \/ copies' = copies + 1)
    BY DEF Copy, DropSlot, Joined, ClipInv, ClipTypeOK
  <2>. QED
    BY <2>1
<1>4. ClipTypeOK'
  BY <1>1, <1>2, <1>3 DEF ClipInv, ClipTypeOK
<1>5. CopyInv'
  BY <1>1, <1>2 DEF ClipInv, ClipTypeOK, CopyInv
<1>. QED
  BY <1>1, <1>4, <1>5, QuietKeeps DEF ClipInv

\* A new window takes the selection: its inbox is empty, and the previous owner is
\* told.
LEMMA TakeSelectionKeepsInv ==
    ASSUME ClipInv, UNCHANGED stage, NEW u \in Ui, TakeSelection(u)
    PROVE  ClipInv'
<1>1. /\ caller[u] = "set" /\ owner' = u
      /\ inbox' = [Told(u) EXCEPT ![u] = <<>>]
      /\ data' = [data EXCEPT ![u] = copying[u]]
      /\ served' = [served EXCEPT ![u] = FALSE]
      /\ caller' = [caller EXCEPT ![u] = "verify"]
      /\ UNCHANGED <<thread, copying, paste, copies, takeovers>>
  BY DEF TakeSelection
<1>2. Grown(Told(u)) /\ \A w \in Ui : w = owner /\ w # u => HasClear(Told(u)[w])
  BY GrownTold DEF ClipInv
<1>3. thread[u] = "none" /\ copying[u] # None /\ stage[u] \in {"run", "leave"}
  BY <1>1 DEF ClipInv, ClipTypeOK, CopyInv
<1>4. inbox' \in [Ui -> Seq(Request \cup {Clear})]
  BY <1>1, <1>2, EmptySeq DEF Grown
<1>5. \A w \in Ui : w # u => inbox'[w] = Told(u)[w] /\ data'[w] = data[w]
  BY <1>1, <1>2 DEF Grown, ClipInv, ClipTypeOK
<1>6. ClipTypeOK'
  BY <1>1, <1>4 DEF ClipInv, ClipTypeOK
<1>7. CopyInv' /\ ConcludedInv'
  BY <1>1, <1>3 DEF ClipInv, ClipTypeOK, CopyInv, ConcludedInv
<1>8. WaitingInv'
  <2>1. SUFFICES ASSUME NEW w \in Ui, NEW i \in DOMAIN inbox'[w], inbox'[w][i] # Clear
                 PROVE  /\ paste[inbox'[w][i]].state # "none"
                        /\ paste[inbox'[w][i]].state = "waiting" =>
                             paste[inbox'[w][i]].expected = data'[w]
    BY <1>1 DEF WaitingInv, Clear
  <2>2. w # u
    BY <1>1, <1>2 DEF Grown
  <2>3. i \in DOMAIN inbox[w] /\ inbox'[w][i] = inbox[w][i] /\ data'[w] = data[w]
    BY <1>2, <1>5, <2>1, <2>2 DEF Grown
  <2>. QED
    BY <2>1, <2>3 DEF ClipInv, WaitingInv
<1>9. OwnerInv'
  <2>1. SUFFICES ASSUME NEW w \in Ui, thread[w] # "none", u # w PROVE HasClear(inbox'[w])
    BY <1>1 DEF OwnerInv, Queued, HasClear, Clear
  <2>2. owner # w => HasClear(inbox[w])
    BY <2>1 DEF ClipInv, OwnerInv, Queued, HasClear
  <2>. QED
    BY SMTT(30), <1>2, <1>5, <2>1, <2>2 DEF Grown, HasClear
<1>. QED
  BY <1>6, <1>7, <1>8, <1>9 DEF ClipInv

\* The thread starts for the owner.
LEMMA StartServingKeepsInv ==
    ASSUME ClipInv, UNCHANGED stage, NEW u \in Ui, StartServing(u)
    PROVE  ClipInv'
<1>1. /\ caller[u] = "verify" /\ owner = u
      /\ thread' = [thread EXCEPT ![u] = "loop"]
      /\ caller' = [caller EXCEPT ![u] = "idle"]
      /\ copying' = [copying EXCEPT ![u] = None]
      /\ UNCHANGED <<owner, inbox, data, served, paste, copies, takeovers>>
  BY DEF StartServing
<1>2. ClipTypeOK' /\ CopyInv'
  BY <1>1 DEF ClipInv, ClipTypeOK, CopyInv
<1>3. \A w \in Ui : thread'[w] # "none" => thread[w] # "none" \/ owner = w
  BY <1>1 DEF ClipInv, ClipTypeOK
<1>. QED
  BY <1>1, <1>2, <1>3, QuietKeeps DEF ClipInv

\* A connection is closed by the caller that fails, or with the process.
LEMMA CallerClosesKeepsInv ==
    ASSUME ClipInv, NEW u \in Ui, Close(u),
           \A w \in Ui : w # u => stage'[w] \in {"run", "leave"} \/ stage'[w] = stage[w]
                                  \/ stage[w] \notin {"run", "leave"},
           caller' = [caller EXCEPT ![u] = "idle"], copying' = [copying EXCEPT ![u] = None],
           UNCHANGED <<copies, takeovers>>
    PROVE  ClipInv'
<1>1. ClipTypeOK'
  BY CloseKeeps DEF ClipInv, ClipTypeOK
<1>2. CopyInv'
  <2>1. /\ thread'[u] = "none" /\ caller'[u] = "idle"
        /\ \A w \in Ui : w # u => /\ thread'[w] = thread[w] /\ data'[w] = data[w]
                                  /\ caller'[w] = caller[w] /\ copying'[w] = copying[w]
    BY CloseKeeps DEF ClipInv, ClipTypeOK
  <2>2. SUFFICES ASSUME NEW w \in Ui
                 PROVE  /\ stage'[w] \notin {"run", "leave"} =>
                             thread'[w] = "none" /\ caller'[w] = "idle"
                        /\ thread'[w] # "none" =>
                             data'[w] # None /\ caller'[w] \in {"idle", "join"}
                        /\ caller'[w] = "set" => copying'[w] # None
                        /\ caller'[w] = "verify" => data'[w] # None
    BY DEF CopyInv
  <2>3. CASE w = u
    BY <2>1, <2>3
  <2>4. CASE w # u
    BY <2>1, <2>4 DEF ClipInv, CopyInv
  <2>. QED
    BY <2>3, <2>4
<1>. QED
  BY <1>1, <1>2, CloseKeeps DEF ClipInv

\* The points of the thread between its events.
LEMMA LoopKeepsInv ==
    ASSUME ClipInv, UNCHANGED stage, NEW u \in Ui, LookAtFlag(u) \/ FindNothing(u)
    PROVE  ClipInv'
<1>1. /\ thread[u] # "none"
      /\ \E point \in {"loop", "poll", "release"} : thread' = [thread EXCEPT ![u] = point]
      /\ UNCHANGED <<owner, inbox, data, served, caller, copying, paste, copies, takeovers>>
  BY DEF LookAtFlag, FindNothing, Goto
<1>2. ClipTypeOK' /\ CopyInv'
  BY <1>1 DEF ClipInv, ClipTypeOK, CopyInv
<1>3. \A w \in Ui : thread'[w] # "none" => thread[w] # "none"
  BY <1>1 DEF ClipInv, ClipTypeOK
<1>. QED
  BY <1>1, <1>2, <1>3, QuietKeeps DEF ClipInv

\* A request is answered: with what was on offer when it was made.
LEMMA HandleRequestKeepsInv ==
    ASSUME ClipInv, UNCHANGED stage, NEW u \in Ui, HandleRequest(u)
    PROVE  ClipInv'
<1>. DEFINE r == Head(inbox[u])
<1>1. /\ thread[u] = "poll" /\ inbox[u] # <<>> /\ r # Clear
      /\ paste' = [paste EXCEPT ![r] = Answer(u, @)]
      /\ inbox' = [inbox EXCEPT ![u] = Tail(@)]
      /\ served' = [served EXCEPT ![u] = TRUE]
      /\ thread' = [thread EXCEPT ![u] = "loop"]
      /\ UNCHANGED <<owner, data, caller, copying, copies, takeovers>>
  BY DEF HandleRequest, Goto
<1>2. inbox[u] \in Seq(Request \cup {Clear})
  BY DEF ClipInv, ClipTypeOK
<1>3. /\ Tail(inbox[u]) \in Seq(Request \cup {Clear}) /\ r \in Request
      /\ 1 \in DOMAIN inbox[u] /\ r = inbox[u][1]
      /\ \A i \in DOMAIN Tail(inbox[u]) :
           i + 1 \in DOMAIN inbox[u] /\ Tail(inbox[u])[i] = inbox[u][i + 1]
  BY <1>1, <1>2, TailElements
<1>4. Answer(u, paste[r]) = Concluded("over")
  <2>1. CASE paste[r].state = "waiting"
    BY <1>1, <1>3, <2>1 DEF ClipInv, WaitingInv, Answer
  <2>2. CASE paste[r].state # "waiting"
    <3>1. paste[r].target = None
      BY <1>3, <2>2 DEF ClipInv, ConcludedInv
    <3>. QED
      BY <3>1, ClipboardAssumption DEF Answer
  <2>. QED
    BY <2>1, <2>2
<1>5. /\ Concluded("over") \in Requests /\ Concluded("over").state = "over"
      /\ Concluded("over").target = None
  BY RequestTypes DEF Concluded
<1>6. ClipTypeOK' /\ CopyInv'
  BY <1>1, <1>3, <1>4, <1>5 DEF ClipInv, ClipTypeOK, CopyInv
<1>7. ConcludedInv'
  BY <1>1, <1>3, <1>4, <1>5 DEF ClipInv, ClipTypeOK, ConcludedInv
<1>8. WaitingInv'
  <2>1. SUFFICES ASSUME NEW w \in Ui, NEW i \in DOMAIN inbox'[w], inbox'[w][i] # Clear
                 PROVE  /\ paste'[inbox'[w][i]].state # "none"
                        /\ paste'[inbox'[w][i]].state = "waiting" =>
                             paste'[inbox'[w][i]].expected = data[w]
    BY SMTT(30), <1>1 DEF WaitingInv, Clear
  <2>2. PICK j \in DOMAIN inbox[w] : inbox'[w][i] = inbox[w][j]
    BY <1>1, <1>3 DEF ClipInv, ClipTypeOK
  <2>3. CASE inbox[w][j] = r
    BY <1>1, <1>3, <1>4, <1>5, <2>2, <2>3 DEF ClipInv, ClipTypeOK
  <2>4. CASE inbox[w][j] # r
    <3>1. paste'[inbox[w][j]] = paste[inbox[w][j]]
      BY <1>1, <2>4 DEF ClipInv, ClipTypeOK
    <3>. QED
      BY <2>1, <2>2, <3>1 DEF ClipInv, WaitingInv
  <2>. QED
    BY <2>3, <2>4
<1>9. OwnerInv'
  <2>1. SUFFICES ASSUME NEW w \in Ui, thread[w] # "none", owner # w PROVE HasClear(inbox'[w])
    BY <1>1 DEF OwnerInv, Queued, HasClear, Clear, ClipInv, ClipTypeOK
  <2>2. PICK i \in DOMAIN inbox[w] : inbox[w][i] = Clear
    BY <2>1 DEF ClipInv, OwnerInv, Queued
  <2>3. CASE w # u
    BY <1>1, <2>2, <2>3 DEF ClipInv, ClipTypeOK, HasClear
  <2>4. CASE w = u
    <3>1. inbox'[u] = Tail(inbox[u])
      BY <1>1 DEF ClipInv, ClipTypeOK
    <3>2. i # 1 /\ i \in 1..Len(inbox[u]) /\ Len(inbox[u]) \in Nat
      BY <1>1, <1>2, <1>3, <2>2, <2>4, LenProperties
    <3>3. /\ DOMAIN Tail(inbox[u]) = 1..Len(inbox[u]) - 1
          /\ Tail(inbox[u])[i - 1] = inbox[u][i]
      <4>1. /\ Len(Tail(inbox[u])) = Len(inbox[u]) - 1
            /\ \A k \in 1..Len(Tail(inbox[u])) : Tail(inbox[u])[k] = inbox[u][k + 1]
        BY <1>1, <1>2, HeadTailProperties
      <4>2. i - 1 \in 1..Len(inbox[u]) - 1 /\ (i - 1) + 1 = i
        BY <3>2
      <4>. QED
        BY <1>3, <4>1, <4>2, LenProperties
    <3>4. i - 1 \in DOMAIN Tail(inbox[u])
      BY <3>2, <3>3
    <3>. QED
      BY <2>2, <2>4, <3>1, <3>3, <3>4 DEF HasClear
  <2>. QED
    BY <2>3, <2>4
<1>. QED
  BY <1>6, <1>7, <1>8, <1>9 DEF ClipInv

\* The thread ends.
LEMMA ThreadEndKeepsInv ==
    ASSUME ClipInv, UNCHANGED stage, NEW u \in Ui,
           LoseSelection(u) \/ Release(u) \/ LoseServer(u)
    PROVE  ClipInv'
<1>1. thread[u] # "none" /\ UNCHANGED <<caller, copying, copies, takeovers>>
  BY DEF LoseSelection, Release, LoseServer
<1>2. /\ owner' \in Ui \cup {Other, None}
      /\ inbox' \in [Ui -> Seq(Request \cup {Clear})]
      /\ data' \in [Ui -> Data \cup {None}]
      /\ thread' \in [Ui -> {"none", "loop", "poll", "release"}]
      /\ served' \in [Ui -> BOOLEAN]
      /\ paste' \in [Request -> Requests]
      /\ thread'[u] = "none"
      /\ \A w \in Ui : w # u => thread'[w] = thread[w] /\ data'[w] = data[w]
      /\ ConcludedInv' /\ WaitingInv' /\ OwnerInv'
  <2>1. CASE LoseSelection(u) \/ LoseServer(u)
    BY <2>1, CloseKeeps DEF LoseSelection, LoseServer
  <2>2. CASE Release(u)
    <3>1. owner' = None /\ Disconnected(u, Told(None))
      BY <2>2 DEF Release
    <3>2. Grown(Told(None)) /\ \A w \in Ui : w = owner => HasClear(Told(None)[w])
      BY GrownTold, ProcessAssumption DEF ClipInv
    <3>3. \A w \in Ui : w # u /\ owner' # w => owner # w \/ HasClear(Told(None)[w])
      BY <3>2
    <3>4. owner' \in Ui \cup {Other, None}
      BY <3>1
    <3>. QED
      BY <3>1, <3>2, <3>3, <3>4, DisconnectedKeeps
  <2>. QED
    BY <2>1, <2>2
<1>3. ClipTypeOK'
  BY <1>1, <1>2 DEF ClipInv, ClipTypeOK
<1>4. CopyInv'
  BY <1>1, <1>2 DEF ClipInv, ClipTypeOK, CopyInv
<1>. QED
  BY <1>2, <1>3, <1>4 DEF ClipInv

\* The failing caller closes its connection.
LEMMA FailCopyKeepsInv ==
    ASSUME ClipInv, UNCHANGED stage, NEW u \in Ui, FailCopy(u)
    PROVE  ClipInv'
BY CallerClosesKeepsInv DEF FailCopy

\* Steps that leave the clipboard alone: no process with a copy goes anywhere but from
\* the loop to its end.
LEMMA OthersKeepClipInv ==
    ASSUME ClipInv, UNCHANGED clipVars,
           \A u \in Ui : stage'[u] \notin {"run", "leave"} => stage[u] \notin {"run", "leave"}
    PROVE  ClipInv'
<1>1. UNCHANGED <<owner, inbox, data, thread, served, caller, copying, paste, copies, takeovers>>
  BY DEF clipVars
<1>2. ClipTypeOK' /\ CopyInv'
  BY <1>1 DEF ClipInv, ClipTypeOK, CopyInv
<1>. QED
  BY <1>1, <1>2, QuietKeeps DEF ClipInv

-----------------------------------------------------------------------------
(* The desktop. *)

\* Where the bus moves a process without its copies: never out of its event loop, and
\* never past the end of it.
LEMMA BusStepsStay ==
    ASSUME BusInv, NEW u \in Ui,
           \/ \E m \in Mode : StartUi(u, m)
           \/ AskToExit(u) \/ TimeOut(u) \/ LoseCallee(u) \/ Forwarded(u)
           \/ TakeCall(u) \/ RefuseCall(u) \/ RunUi(u) \/ Pump(u)
    PROVE  \A w \in Ui : stage'[w] \notin {"run", "leave"} => stage[w] \notin {"run", "leave"}
<1>. SUFFICES ASSUME NEW w \in Ui, stage'[w] \notin {"run", "leave"}
              PROVE  stage[w] \notin {"run", "leave"}
  OBVIOUS
<1>1. stage \in [Ui -> {"idle", "forward", "taken", "early", "run", "leave"}]
  BY DEF BusInv, BusTypeOK
<1>2. CASE \E m \in Mode : StartUi(u, m)
  BY <1>1, <1>2 DEF StartUi, ClaimName, ForwardAction, FailClaim, Start, Unguarded, At
<1>3. CASE AskToExit(u) \/ Pump(u)
  BY <1>3 DEF AskToExit, Pump
<1>4. CASE TimeOut(u) \/ LoseCallee(u) \/ Forwarded(u) \/ RunUi(u)
  BY <1>1, <1>4 DEF TimeOut, LoseCallee, Forwarded, RunUi, GoOnRefused, Unguarded, At
<1>5. CASE TakeCall(u)
  BY <1>1, <1>5 DEF TakeCall, Awaits
<1>6. CASE RefuseCall(u)
  BY <1>1, <1>6 DEF RefuseCall, Awaits, GoOnRefused, Unguarded, At
<1>. QED
  BY <1>2, <1>3, <1>4, <1>5, <1>6

\* Steps of the bus alone.
LEMMA BusStepKeepsInv ==
    ASSUME IInv, NEW u \in Ui, UNCHANGED clipVars,
           \/ \E m \in Mode : StartUi(u, m)
           \/ AskToExit(u) \/ BusStep(u)
    PROVE  IInv'
<1>1. \/ \E m \in Mode : StartUi(u, m)
      \/ AskToExit(u) \/ TimeOut(u) \/ LoseCallee(u) \/ Forwarded(u)
      \/ TakeCall(u) \/ RefuseCall(u) \/ RunUi(u) \/ Pump(u)
  BY DEF BusStep
<1>2. BusInv'
  BY <1>1, StartKeepsInv, StarterKeepsInv, ServiceKeepsInv, MainKeepsInv DEF IInv
<1>3. ClipInv'
  BY <1>1, BusStepsStay, OthersKeepClipInv DEF IInv
<1>. QED
  BY <1>2, <1>3 DEF IInv

\* Steps of the clipboard alone.
LEMMA ClipStepKeepsInv ==
    ASSUME IInv, UNCHANGED busVars,
           \/ Others
           \/ \E u \in Ui : UiThread(u) \/ ServeThread(u) \/ (stage[u] = "run" /\ Copy(u))
    PROVE  IInv'
<1>1. UNCHANGED <<stage, mode, name, calls, callee, refused, events, quitting, unseen, starts, exits>>
  BY DEF busVars
<1>2. BusInv'
  BY <1>1 DEF IInv, BusInv, BusTypeOK, NameInv, CalleeInv, RefusedInv, CallsInv
<1>3. ClipInv /\ UNCHANGED stage
  BY <1>1 DEF IInv
<1>4. ASSUME Others PROVE ClipInv'
  <2>1. ASSUME TakeOver PROVE ClipInv'
    BY <1>3, <2>1, TakeOverKeepsInv
  <2>2. ASSUME NEW r \in Request, NEW target \in Target, Ask(r, target) PROVE ClipInv'
    BY <1>3, <2>2, AskKeepsInv
  <2>. QED
    BY <1>4, <2>1, <2>2 DEF Others
<1>5. ASSUME NEW u \in Ui, UiThread(u) \/ (stage[u] = "run" /\ Copy(u)) PROVE ClipInv'
  BY <1>3, <1>5, CallerKeepsInv, TakeSelectionKeepsInv, StartServingKeepsInv, FailCopyKeepsInv
     DEF UiThread
<1>6. ASSUME NEW u \in Ui, ServeThread(u) PROVE ClipInv'
  BY <1>3, <1>6, LoopKeepsInv, HandleRequestKeepsInv, ThreadEndKeepsInv DEF ServeThread
<1>. QED
  BY <1>2, <1>4, <1>5, <1>6 DEF IInv

\* The steps of both: the slot is dropped after the event loop, and the process ends
\* once it is empty.
LEMMA LeaveAndEndKeepInv ==
    ASSUME IInv, NEW u \in Ui, Leave(u) \/ End(u)
    PROVE  IInv'
<1>1. CASE Leave(u)
  <2>1. BusInv'
    BY <1>1, MainKeepsInv DEF IInv, Leave
  <2>2. /\ caller[u] = "idle" /\ copying' = [copying EXCEPT ![u] = None]
        /\ caller' = [caller EXCEPT ![u] = "join"]
        /\ UNCHANGED <<owner, inbox, data, thread, served, paste, copies, takeovers>>
        /\ stage' = [stage EXCEPT ![u] = "leave"]
    BY <1>1 DEF Leave, LeaveLoop, DropSlot, At
  <2>3. ClipTypeOK' /\ CopyInv'
    BY <2>2 DEF IInv, BusInv, BusTypeOK, ClipInv, ClipTypeOK, CopyInv
  <2>4. ConcludedInv' /\ WaitingInv' /\ OwnerInv'
    BY <2>2, QuietKeeps DEF IInv
  <2>. QED
    BY <2>1, <2>3, <2>4 DEF IInv, ClipInv
<1>2. CASE End(u)
  <2>1. BusInv'
    BY <1>2, LeaveKeepsBusInv DEF IInv, End
  <2>2. \A w \in Ui : w # u => stage'[w] = stage[w]
    BY <1>2 DEF End, LeaveAtOnce, EndUi, EndProcess, IInv, BusInv, BusTypeOK
  <2>3. ClipInv'
    BY <1>2, <2>2, CallerClosesKeepsInv DEF End, Die, IInv
  <2>. QED
    BY <2>1, <2>3 DEF IInv
<1>. QED
  BY <1>1, <1>2

\* The invariant holds in every state.
THEOREM Inductive == Spec => []IInv
<1>1. Init => IInv
  BY InitBusInv, InitClipInv DEF Init, IInv
<1>2. ASSUME IInv, [Next]_vars PROVE IInv'
  <2>1. CASE \E u \in Ui, m \in Mode : StartUi(u, m) /\ UNCHANGED clipVars
    BY <1>2, <2>1, BusStepKeepsInv
  <2>2. CASE \E u \in Ui : (AskToExit(u) /\ UNCHANGED clipVars) \/ BusStep(u)
    BY <1>2, <2>2, BusStepKeepsInv DEF BusStep
  <2>3. CASE \E u \in Ui : CopyPath(u) \/ ClipStep(u)
    BY <1>2, <2>3, ClipStepKeepsInv DEF CopyPath, ClipStep
  <2>4. CASE \E u \in Ui : Leave(u) \/ End(u)
    BY <1>2, <2>4, LeaveAndEndKeepInv
  <2>5. CASE Others /\ UNCHANGED busVars
    BY <1>2, <2>5, ClipStepKeepsInv
  <2>6. CASE UNCHANGED vars
    <3>1. UNCHANGED <<stage, mode, name, calls, callee, refused, events, quitting, unseen,
                      starts, exits>> /\ UNCHANGED clipVars
      BY <2>6 DEF vars, busVars
    <3>2. BusInv'
      BY <1>2, <3>1 DEF IInv, BusInv, BusTypeOK, NameInv, CalleeInv, RefusedInv, CallsInv
    <3>3. ClipInv'
      BY <1>2, <3>1, OthersKeepClipInv DEF IInv
    <3>. QED
      BY <3>2, <3>3 DEF IInv
  <2>. QED
    BY <1>2, <2>1, <2>2, <2>3, <2>4, <2>5, <2>6 DEF Next
<1>. QED
  BY <1>1, <1>2, PTL DEF Spec

\* Types hold, a copy is only served for a running interface, and the next one does not
\* begin before the thread of the last one is joined.
THEOREM TypeCorrect == Spec => []TypeOK
<1>1. IInv => TypeOK
  BY DEF IInv, BusInv, ClipInv, BusTypeOK, CopyInv, TypeOK
<1>. QED
  BY <1>1, Inductive, PTL

\* For any number of starts, a start that was refused runs beside nobody but a process
\* that has ended or has left its event loop.
THEOREM RivalsAreOnlyOfLeavers == Spec => []RivalOnlyOfLeaver
<1>1. IInv => RivalOnlyOfLeaver
  BY DEF IInv, BusInv, RefusedInv, RivalOnlyOfLeaver
<1>. QED
  BY <1>1, Inductive, PTL

\* No request is ever answered with other data than it was made of, for any number of
\* copies, owners and requests.
THEOREM AnswersAreAlwaysOfTheirTime == Spec => []AnswersAreOfTheirTime
<1>1. IInv => AnswersAreOfTheirTime
  BY DEF IInv, ClipInv, ConcludedInv, AnswersAreOfTheirTime
<1>. QED
  BY <1>1, Inductive, PTL

\* No thread takes the selection from another program after it has read that it lost
\* it.
THEOREM SelectionsAreOnlyReleasedUntold == Spec => OthersSelectionOnlyWhileUntold
<1>1. IInv => \A u \in Ui : thread[u] # "none" /\ owner # u => Clear \in Queued(u)
  BY DEF IInv, ClipInv, OwnerInv
<1>2. IInv => [\A u \in Ui :
          thread[u] # "none" /\ thread'[u] = "none" /\ owner \notin {u, None} /\ owner' = None
            => Clear \in Queued(u)]_clipVars
  BY <1>1
<1>. QED
  BY <1>2, Inductive, PTL DEF OthersSelectionOnlyWhileUntold

=============================================================================
