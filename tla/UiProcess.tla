----------------------------- MODULE UiProcess -----------------------------
(***************************************************************************)
(* The processes of the interface that run, one after the other or at the  *)
(* same time, in a desktop session: what SessionBus and Clipboard share.   *)
(***************************************************************************)
EXTENDS Naturals, Sequences

CONSTANTS
    Ui,     \* the processes
    None    \* no process, no window, no data

ASSUME ProcessAssumption == None \notin Ui
=============================================================================
