----------------------------- MODULE MCLauncher -----------------------------
(***************************************************************************)
(* Two texts with answers of no, one and two rows, which share a path.     *)
(***************************************************************************)
EXTENDS Launcher

CONSTANTS note, notes

MCQuery == {"n", "no"}
MCPath == {note, notes}
MCAnswers == [q \in MCQuery |->
                IF q = "n" THEN {<<>>, <<note, notes>>} ELSE {<<notes>>}]

\* One answer to each.
OneAnswer == [q \in MCQuery |-> {<<IF q = "n" THEN note ELSE notes>>}]
=============================================================================
