---------------------------- MODULE MCSequential ----------------------------
(***************************************************************************)
(* The three parts of the program that a single thread goes through        *)
(* without waiting for anybody, in one run: a behaviour is one of the      *)
(* double-Control recognizer, one of a search or one of the settings on    *)
(* disk, never of two of them.                                             *)
(***************************************************************************)
EXTENDS DoubleCtrl, SearchRequest, ConfigStore

CONSTANTS
    NoRequest,
    MaxDisasters   \* bound on failures, kills, power cuts and damage, all together

VARIABLE part   \* the part whose behaviour it is

-----------------------------------------------------------------------------

\* Two items, of which the second comes later by its path, with one token or two.
Facts(matches, joined) ==
    [rank : {1, 2}, name : {<<0>>, <<Percent, Tab, NewLine>>},
     kind : {"file", "directory", "hidden"}, match : matches, joined : joined, initials : {0, 1}]

\* A plain byte, one that needs an escape although it is a digit's value away, and
\* both separators.
PathOf(rank) == IF rank = 1 THEN <<1, Percent>> ELSE <<NewLine, Tab>>

ItemOf(f) ==
    [path |-> PathOf(f.rank), rank |-> f.rank, name |-> f.name,
     directory |-> f.kind = "directory", hidden |-> f.kind = "hidden", match |-> f.match,
     joined |-> f.joined, initials |-> f.initials]

\* What initials add and what the kind of an item adds do not depend on each other.
Single ==
    {ItemOf(f) : f \in {f \in Facts({<<m>> : m \in Match}, {"none"}) :
                          f.initials = 1 => f.kind = "file"}}

Few == {"contains", "segment_prefix", "none"}

Double == {ItemOf(f) : f \in Facts(Few \X Few, {"none", "contains"})}

\* Tokens that stand in the name together stand there alone.
MCItem ==
    Single \cup
    {i \in Double : /\ i.joined = "contains" => i.match = <<"contains", "contains">>
                    /\ ~i.hidden /\ i.initials = 0}

\* In one order of the walk: WalkOrderDoesNotMatter looks at the other one.
MCIndex == {s \in MCItem \X MCItem : s[1].rank < s[2].rank}

MCRequest == [tokens : {1, 2}, capitals : BOOLEAN, limit : 1..3]

-----------------------------------------------------------------------------

NoSearch ==
    /\ point = "off" /\ snapshot = <<>> /\ request = NoRequest
    /\ hits = <<>> /\ frame = <<>> /\ answer = {}

\* No settings and no entry: the interface has never been started.
NoStore == StoreInit /\ \A p \in Path : now[p] = NoFile

MCInit ==
    \/ part = "recognizer" /\ Init /\ NoSearch /\ NoStore
    \/ part = "search" /\ Init /\ SearchInit /\ NoStore
    \/ part = "store" /\ Init /\ NoSearch /\ StoreInit

MCNext ==
    \/ part = "recognizer" /\ Next /\ UNCHANGED <<searchVars, storeVars, part>>
    \/ part = "search" /\ SearchNext /\ UNCHANGED <<vars, storeVars, part>>
    \/ /\ part = "store" /\ StoreNext
       /\ failures' + kills' + cuts' + corruptions' <= MaxDisasters
       /\ UNCHANGED <<vars, searchVars, part>>

MCSpec == MCInit /\ [][MCNext]_<<vars, searchVars, storeVars, part>>
=============================================================================
