----------------------------- MODULE Clipboard -----------------------------
(***************************************************************************)
(* The CLIPBOARD selection of X11: interfaces that copy, the thread that   *)
(* serves a copy (x11_clipboard.rs), other programs that copy and paste,   *)
(* and the X server between them.                                          *)
(*                                                                         *)
(* Each copy opens a connection and a window of its own.  An interface has *)
(* at most one connection open at a time, so the window is named by the    *)
(* interface, and inbox[u] holds the events the server has queued for it.  *)
(*                                                                         *)
(* Time is left out: after a request half a second may go by at any point, *)
(* and the five minutes may be over at any point once LongServing allows.  *)
(***************************************************************************)
EXTENDS UiProcess

CONSTANTS
    MaxRequests,    \* requests other programs make
    Other,          \* stands for any other program that owns the selection
    XMayFail,       \* may connecting, or the connection, fail?
    LongServing,    \* may a copy be served for five minutes?
    MaxCopies,      \* copies of all interfaces together
    MaxTakeovers    \* times another program copies

ASSUME ClipboardAssumption ==
    /\ Other \notin Ui \cup {None}
    /\ None \notin Nat /\ None \notin {"data", "other"}
    /\ {XMayFail, LongServing} \subseteq BOOLEAN
    /\ {MaxRequests, MaxCopies, MaxTakeovers} \subseteq Nat

\* What is copied is known by the number of the copy, a request by its own.
Data == 1..MaxCopies
Request == 1..MaxRequests

VARIABLES
    owner,      \* who owns the selection, as the server sees it
    inbox,      \* events queued for the window of each interface
    data,       \* what the connection of each interface serves, or None
    thread,     \* where serve_selection_events is
    served,     \* served_any
    caller,     \* where the UI thread is in copy_*_to_clipboard
    copying,    \* what it is about to copy
    paste,      \* the requests
    copies,
    takeovers

clipVars == <<owner, inbox, data, thread, served, caller, copying, paste, copies,
              takeovers>>

-----------------------------------------------------------------------------

\* The copied text or URI list under any of its types, and all that is answered
\* without it: the list of types, and the refusal of MULTIPLE and of unknown types.
Target == {"data", "other"}

\* A request: while it waits, with the data that was on offer when it was made.  It
\* is over when it is answered or when the window goes; it ends "stale" when the answer
\* has other data.
Requests ==
    [state : {"none", "waiting", "over", "stale"},
     target : Target \cup {None}, expected : Data \cup {None}]

Concluded(state) == [state |-> state, target |-> None, expected |-> None]

NoRequest == Concluded("none")

\* SelectionClear; every other event in an inbox is the SelectionRequest itself.
Clear == None

ClipTypeOK ==
    /\ owner \in Ui \cup {Other, None}
    /\ inbox \in [Ui -> Seq(Request \cup {Clear})]
    /\ data \in [Ui -> Data \cup {None}]
    /\ thread \in [Ui -> {"none", "loop", "poll", "release"}]
    /\ served \in [Ui -> BOOLEAN]
    /\ caller \in [Ui -> {"idle", "join", "set", "verify"}]
    /\ copying \in [Ui -> Data \cup {None}]
    /\ paste \in [Request -> Requests]
    /\ copies \in Nat
    /\ takeovers \in Nat

ClipInit ==
    /\ owner = None
    /\ inbox = [u \in Ui |-> <<>>]
    /\ data = [u \in Ui |-> None]
    /\ thread = [u \in Ui |-> "none"]
    /\ served = [u \in Ui |-> FALSE]
    /\ caller = [u \in Ui |-> "idle"]
    /\ copying = [u \in Ui |-> None]
    /\ paste = [r \in Request |-> NoRequest]
    /\ copies = 0
    /\ takeovers = 0

-----------------------------------------------------------------------------
(* The X server. *)

Queued(u) == {inbox[u][i] : i \in DOMAIN inbox[u]}

\* SetSelectionOwner with CURRENT_TIME succeeds for everybody, None included; who
\* owned the selection before is told.
Told(new) ==
    [u \in Ui |-> IF u = owner /\ u # new THEN Append(inbox[u], Clear) ELSE inbox[u]]

\* The connection of u ends, and its window with it: what is still queued for it is
\* never answered, and a selection it owns is nobody's.
Disconnected(u, boxes) ==
    /\ inbox' = [boxes EXCEPT ![u] = <<>>]
    /\ paste' = [r \in Request |->
                    IF r \in Queued(u) THEN Concluded("over") ELSE paste[r]]
    /\ data' = [data EXCEPT ![u] = None]
    /\ thread' = [thread EXCEPT ![u] = "none"]
    /\ served' = [served EXCEPT ![u] = FALSE]

Close(u) ==
    /\ Disconnected(u, inbox)
    /\ owner' = IF owner = u THEN None ELSE owner

\* Another program copies something.
TakeOver ==
    /\ takeovers < MaxTakeovers
    /\ owner # Other
    /\ owner' = Other
    /\ inbox' = Told(Other)
    /\ takeovers' = takeovers + 1
    /\ UNCHANGED <<data, thread, served, caller, copying, paste, copies>>

\* Another program asks for the selection while one of ours owns it.
Ask(r, target) ==
    /\ paste[r].state = "none" /\ \A q \in 1..(r - 1) : paste[q].state # "none"
    /\ owner \in Ui
    /\ inbox' = [inbox EXCEPT ![owner] = Append(@, r)]
    /\ paste' = [paste EXCEPT ![r] =
         [state |-> "waiting", target |-> target, expected |-> data[owner]]]
    /\ UNCHANGED <<owner, data, thread, served, caller, copying, copies, takeovers>>

-----------------------------------------------------------------------------
(* The UI thread: copy_file_to_clipboard and copy_path_to_clipboard. *)

\* Mutant: the text is shared with the thread that serves the previous copy.
Copy_SharedText(u) ==
    /\ caller[u] = "idle"
    /\ copies < MaxCopies
    /\ copying' = [copying EXCEPT ![u] = copies + 1]
    /\ data' = [data EXCEPT ![u] = IF thread[u] = "none" THEN @ ELSE copies + 1]
    /\ caller' = [caller EXCEPT ![u] = "join"]
    /\ copies' = copies + 1
    /\ UNCHANGED <<owner, inbox, thread, served, paste, takeovers>>

\* The previous ClipboardOwner, if there is one, is taken out of the slot and dropped:
\* its thread is cancelled and joined.
Copy(u) ==
    /\ caller[u] = "idle"
    /\ copies < MaxCopies
    /\ copying' = [copying EXCEPT ![u] = copies + 1]
    /\ caller' = [caller EXCEPT ![u] = "join"]
    /\ copies' = copies + 1
    /\ UNCHANGED <<owner, inbox, data, thread, served, paste, takeovers>>

\* The slot is dropped at the end of run_launcher.
DropSlot(u) ==
    /\ caller[u] = "idle"
    /\ copying' = [copying EXCEPT ![u] = None]
    /\ caller' = [caller EXCEPT ![u] = "join"]
    /\ UNCHANGED <<owner, inbox, data, thread, served, paste, copies, takeovers>>

\* Mutant: the thread is told to end, and not waited for.
Joined_AtOnce(u) ==
    /\ caller[u] = "join"
    /\ caller' = [caller EXCEPT ![u] = IF copying[u] = None THEN "idle" ELSE "set"]
    /\ UNCHANGED <<owner, inbox, data, thread, served, copying, paste, copies, takeovers>>

\* The join in ClipboardOwner::drop returns.
Joined(u) ==
    /\ caller[u] = "join"
    /\ thread[u] = "none"
    /\ caller' = [caller EXCEPT ![u] = IF copying[u] = None THEN "idle" ELSE "set"]
    /\ UNCHANGED <<owner, inbox, data, thread, served, copying, paste, copies, takeovers>>

\* set_clipboard up to set_selection_owner: a window of its own becomes the owner.
TakeSelection(u) ==
    /\ caller[u] = "set"
    /\ owner' = u
    /\ inbox' = [Told(u) EXCEPT ![u] = <<>>]
    /\ data' = [data EXCEPT ![u] = copying[u]]
    /\ served' = [served EXCEPT ![u] = FALSE]
    /\ caller' = [caller EXCEPT ![u] = "verify"]
    /\ UNCHANGED <<thread, copying, paste, copies, takeovers>>

\* get_selection_owner confirms it, and the thread is spawned.
StartServing(u) ==
    /\ caller[u] = "verify"
    /\ owner = u
    /\ thread' = [thread EXCEPT ![u] = "loop"]
    /\ caller' = [caller EXCEPT ![u] = "idle"]
    /\ copying' = [copying EXCEPT ![u] = None]
    /\ UNCHANGED <<owner, inbox, data, served, paste, copies, takeovers>>

\* The copy fails: no connection, another owner already, or no thread.  The slot
\* stays empty, and the connection, if there is one, is dropped.
FailCopy(u) ==
    /\ \/ caller[u] = "set" /\ XMayFail
       \/ caller[u] = "verify" /\ (owner # u \/ XMayFail)
    /\ Close(u)
    /\ caller' = [caller EXCEPT ![u] = "idle"]
    /\ copying' = [copying EXCEPT ![u] = None]
    /\ UNCHANGED <<copies, takeovers>>

UiThread(u) == Joined(u) \/ TakeSelection(u) \/ StartServing(u) \/ FailCopy(u)

-----------------------------------------------------------------------------
(* serve_selection_events. *)

\* ClipboardOwner::drop raises the flag and joins.
Cancelled(u) == caller[u] = "join"

Goto(u, point) == thread' = [thread EXCEPT ![u] = point]

\* Mutant: the flag is not looked at.
LookAtFlag_Forgotten(u) ==
    /\ thread[u] = "loop"
    /\ Goto(u, "poll")
    /\ UNCHANGED <<owner, inbox, data, served, caller, copying, paste, copies, takeovers>>

\* The head of the loop: the deadline, then the flag.
LookAtFlag(u) ==
    /\ thread[u] = "loop"
    /\ \/ (Cancelled(u) \/ LongServing) /\ Goto(u, "release")
       \/ ~Cancelled(u) /\ Goto(u, "poll")
    /\ UNCHANGED <<owner, inbox, data, served, caller, copying, paste, copies, takeovers>>

\* Mutant: a target that is not offered gets no notification.
Answer_OnlyOffered(u, request) ==
    IF request.target = "other" THEN request
    ELSE Concluded(IF data[u] = request.expected THEN "over" ELSE "stale")

\* handle_request and send_notify: whatever the target, there is a notification.
Answer(u, request) ==
    Concluded(IF request.target = "data" /\ data[u] # request.expected
              THEN "stale" ELSE "over")

HandleRequest(u) ==
    /\ thread[u] = "poll"
    /\ inbox[u] # <<>> /\ Head(inbox[u]) # Clear
    /\ LET r == Head(inbox[u]) IN paste' = [paste EXCEPT ![r] = Answer(u, @)]
    /\ inbox' = [inbox EXCEPT ![u] = Tail(@)]
    /\ served' = [served EXCEPT ![u] = TRUE]
    /\ Goto(u, "loop")
    /\ UNCHANGED <<owner, data, caller, copying, copies, takeovers>>

\* Mutant: SelectionClear, too, ends in release_owner.
LoseSelection_Releases(u) ==
    /\ thread[u] = "poll"
    /\ inbox[u] # <<>> /\ Head(inbox[u]) = Clear
    /\ inbox' = [inbox EXCEPT ![u] = Tail(@)]
    /\ Goto(u, "release")
    /\ UNCHANGED <<owner, data, served, caller, copying, paste, copies, takeovers>>

\* SelectionClear: the thread returns, and the closure drops the connection.
LoseSelection(u) ==
    /\ thread[u] = "poll"
    /\ inbox[u] # <<>> /\ Head(inbox[u]) = Clear
    /\ Close(u)
    /\ UNCHANGED <<caller, copying, copies, takeovers>>

\* Nothing was asked for half a second after a request that was served.
Quiet(u) == served[u]

\* poll_for_event has nothing.
FindNothing(u) ==
    /\ thread[u] = "poll"
    /\ inbox[u] = <<>>
    /\ \/ Quiet(u) /\ Goto(u, "release")
       \/ Goto(u, "loop")
    /\ UNCHANGED <<owner, inbox, data, served, caller, copying, paste, copies, takeovers>>

\* release_owner takes the selection from whoever owns it by now; then the thread
\* ends and drops its connection.
Release(u) ==
    /\ thread[u] = "release"
    /\ owner' = None
    /\ Disconnected(u, Told(None))
    /\ UNCHANGED <<caller, copying, copies, takeovers>>

\* The connection breaks.
LoseServer(u) ==
    /\ XMayFail
    /\ thread[u] = "poll"
    /\ Close(u)
    /\ UNCHANGED <<caller, copying, copies, takeovers>>

ServeThread(u) ==
    \/ LookAtFlag(u)
    \/ HandleRequest(u)
    \/ LoseSelection(u)
    \/ FindNothing(u)
    \/ Release(u)
    \/ LoseServer(u)

\* The process ends: the kernel closes its connection.
Die(u) ==
    /\ Close(u)
    /\ caller' = [caller EXCEPT ![u] = "idle"]
    /\ copying' = [copying EXCEPT ![u] = None]
    /\ UNCHANGED <<copies, takeovers>>

Others == TakeOver \/ \E r \in Request, target \in Target : Ask(r, target)

-----------------------------------------------------------------------------
(* What a copy promises. *)

\* A program that asked for the data gets what the selection held when it asked,
\* however many copies followed (one thread, one connection and one text per copy,
\* and the join before the next one).
AnswersAreOfTheirTime == \A r \in Request : paste[r].state # "stale"

\* A thread that gives up the selection takes it from another program only if it
\* has not read yet that it lost it.
OthersSelectionOnlyWhileUntold ==
    [][\A u \in Ui :
          thread[u] # "none" /\ thread'[u] = "none" /\ owner \notin {u, None} /\ owner' = None
            => Clear \in Queued(u)]_clipVars

\* No request to a window of ours waits for ever: it ends with an answer, with a
\* refusal, or with nobody to answer it, when the window gave up the selection or was
\* closed before it read the request.
RequestsConclude == \A r \in Request : []<>(paste[r].state # "waiting")

\* The UI thread never stays in a copy: the join of the previous one returns.
CopiesConclude == \A u \in Ui : []<>(caller[u] = "idle")
=============================================================================
