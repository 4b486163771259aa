------------------------------ MODULE Desktop ------------------------------
(***************************************************************************)
(* The interfaces of a desktop session (SessionBus) and what they copy     *)
(* (Clipboard).  The two meet in the UI thread: it copies in a callback of *)
(* its event loop, pumps no event and leaves no loop while it does, and    *)
(* drops the last ClipboardOwner between the loop and the end of the       *)
(* process, when the bus name is still taken.                              *)
(***************************************************************************)
EXTENDS SessionBus, Clipboard

vars == <<busVars, clipVars>>

Init == BusInit /\ ClipInit

\* The variables have their types; a copy is only served for a running interface,
\* and the next one does not begin before the thread of the last one is joined.
TypeOK ==
    /\ BusTypeOK /\ ClipTypeOK
    /\ \A u \in Ui : thread[u] # "none" =>
         /\ stage[u] \in {"run", "leave"}
         /\ data[u] # None
         /\ caller[u] \in {"idle", "join"}

Free(u) == caller[u] = "idle"

\* Calls and answers concern the bus only.
BusStep(u) ==
    /\ \/ TimeOut(u)
       \/ LoseCallee(u)
       \/ Forwarded(u)
       \/ TakeCall(u)
       \/ RefuseCall(u)
       \/ RunUi(u)
       \/ Free(u) /\ Pump(u)
    /\ UNCHANGED clipVars

\* on_copy_file and on_copy_path.
CopyPath(u) ==
    /\ stage[u] = "run"
    /\ Copy(u)
    /\ UNCHANGED busVars

ClipStep(u) == (UiThread(u) \/ ServeThread(u)) /\ UNCHANGED busVars

\* run_event_loop_until_quit returns; the timer goes first, then the windows with
\* the slot.
Leave(u) == Free(u) /\ LeaveLoop(u) /\ DropSlot(u)

\* What is left of the process ends with it.
End(u) == Free(u) /\ (LeaveAtOnce(u) \/ EndUi(u)) /\ Die(u)

Next ==
    \/ \E u \in Ui, m \in Mode : StartUi(u, m) /\ UNCHANGED clipVars
    \/ \E u \in Ui : AskToExit(u) /\ UNCHANGED clipVars
    \/ \E u \in Ui : BusStep(u) \/ CopyPath(u) \/ ClipStep(u) \/ Leave(u) \/ End(u)
    \/ Others /\ UNCHANGED busVars

Spec == Init /\ [][Next]_vars

\* Every thread goes on: the main thread, whose loop ends once it was asked to, the
\* service thread, the clipboard's thread and the bus.  Nobody has to start, exit,
\* copy or paste anything.
FairSpec ==
    /\ Spec
    /\ \A u \in Ui :
         /\ WF_vars(BusStep(u))
         /\ WF_vars(UiThread(u) /\ UNCHANGED busVars)
         /\ WF_vars(ServeThread(u) /\ UNCHANGED busVars)
         /\ WF_vars(Leave(u) \/ End(u))
=============================================================================
