----------------------------- MODULE SearchView -----------------------------
(***************************************************************************)
(* What the launcher promises to somebody who looks at it: a text, a list  *)
(* of rows and the text these rows answer.  Rows of an earlier text stay   *)
(* below a new one until that one is answered; only the answer to the text *)
(* in the box ever replaces them.  So the rows never go back to a text     *)
(* that is gone, and once a text has had its answer they are its own.      *)
(* A text gets its answer or an error, however many are typed while the    *)
(* daemon is slow, unless it is deleted or the launcher is closed first.   *)
(***************************************************************************)
EXTENDS Sequences

CONSTANTS
    Query,       \* the texts one can search for
    Answers      \* what the index may answer to each of them

VARIABLES
    query,       \* the text
    results,     \* the rows
    answered,    \* the text the rows answer
    searching,   \* the text has not been answered yet
    open         \* the user interface runs

vars == <<query, results, answered, searching, open>>

Blank == ""

Init ==
    /\ query = Blank
    /\ results = <<>> /\ answered = Blank
    /\ searching = FALSE
    /\ open = TRUE

\* The rows of the text before stay below the new one.
Type(q) ==
    /\ query' = q
    /\ searching' = TRUE
    /\ UNCHANGED <<results, answered>>

\* The text is deleted, or the launcher comes up again.
Clear ==
    /\ query' = Blank
    /\ results' = <<>> /\ answered' = Blank
    /\ searching' = FALSE

\* The answer to the text; an error leaves the list empty.
Answer ==
    /\ searching
    /\ results' \in Answers[query] \cup {<<>>} /\ answered' = query
    /\ searching' = FALSE
    /\ UNCHANGED query

Close == open' = FALSE /\ UNCHANGED <<query, results, answered, searching>>

Next ==
    /\ open
    /\ \/ /\ (\E q \in Query : Type(q)) \/ Clear \/ Answer
          /\ UNCHANGED open
       \/ Close

Spec == Init /\ [][Next]_vars

\* The rows are an answer to the text they are taken for, and that is the text
\* in the box as soon as it has been answered.
RowsAnswer ==
    /\ \/ answered = Blank /\ results = <<>>
       \/ answered \in Query /\ results \in Answers[answered] \cup {<<>>}
    /\ searching => query \in Query
    /\ ~searching => answered = query

\* Every text is answered, typed away or closed upon.
Settles == open /\ searching ~> ~searching \/ ~open
=============================================================================
