--------------------------- MODULE SearchRequest ---------------------------
(***************************************************************************)
(* One search, from the frame of the request to the frame of the answer:   *)
(* request_daemon and the codec (ruyiseek-ipc), serve (ruyiseekd) and the  *)
(* SearchEngine (ruyiseek-query), which ranks what the index holds.        *)
(*                                                                         *)
(* Texts are abstracted to what score finds out about them: how each token *)
(* matches, whether the tokens joined by a blank do, and in how many       *)
(* places the initials spell the query.  Scores are in hundredths.  Names  *)
(* and paths are sequences of bytes where it comes to their length and     *)
(* their way through the codec; how paths compare is the rank of each.     *)
(***************************************************************************)
EXTENDS Integers, SequencesExt

CONSTANTS
    Item,          \* the items the index may hold
    Index,         \* what it may hold, each in the order of a walk
    Request,       \* the requests
    RequestLimit,  \* the largest limit decode_request takes
    UiLimit,       \* SEARCH_LIMIT
    MaxName,       \* 3 * NAME_MAX: to_string_lossy writes three bytes for a wrong one
    MaxPath,       \* PATH_MAX and a name: a directory of that length can still be read
    MaxFrame       \* MAX_FRAME_SIZE

\* How a token matches an item, the best way that applies.  The name is the last
\* segment of the path, so that a subsequence of it is one of a segment, and the
\* density that token_score tries next is never reached.
Quality == <<"equal", "prefix", "contains", "segment_prefix", "segment_contains",
             "segment_subsequence", "path", "none">>

Match == {Quality[i] : i \in DOMAIN Quality}

Radix == 3                     \* stands for the 16 of the two digits of an escape
Digit == 0..(Radix - 1)        \* the digits' own bytes: they, too, may be in a name
Byte == 0..(Radix * Radix - 1)
Percent == 3
Tab == 4
NewLine == 5

\* A number is one symbol of the frame: decimal digits, none of which is a separator.
Symbol(n) == Radix * Radix + n

ASSUME SearchAssumption ==
    /\ {RequestLimit, UiLimit, MaxName, MaxPath, MaxFrame} \subseteq Nat
    /\ UiLimit <= RequestLimit
    /\ 1 + UiLimit * (4 + 3 * MaxName + 3 * MaxPath) <= MaxFrame
    /\ Item \subseteq [path : Seq(Byte), rank : Nat, name : Seq(Byte), directory : BOOLEAN,
                       hidden : BOOLEAN, match : Seq(Match),
                       joined : {"none", "subsequence", "contains"}, initials : 0..2]
    /\ \A item \in Item : Len(item.name) <= MaxName /\ Len(item.path) <= MaxPath
    /\ Index \subseteq Seq(Item)
    /\ \A items \in Index : \A i, j \in DOMAIN items : items[i].rank = items[j].rank => i = j
    /\ Request \subseteq [tokens : Nat \ {0}, capitals : BOOLEAN, limit : Nat]

VARIABLES
    point,     \* where the request is
    snapshot,  \* SearchEngine::items, in the order of the walk
    request,
    hits,
    frame,     \* what the daemon has written
    answer     \* what the client makes of it: {} is an error

searchVars == <<point, snapshot, request, hits, frame, answer>>

-----------------------------------------------------------------------------
(* score *)

NoHit == -1
Unmatched == 1000      \* f32::MAX

\* Mutant: a part of a segment counts more than its beginning.
TokenScore_Swapped(match) ==
    CASE match = "equal" -> 100
      [] match = "prefix" -> 88
      [] match = "contains" -> 74
      [] match = "segment_prefix" -> 50
      [] match = "segment_contains" -> 62
      [] match = "segment_subsequence" -> 42
      [] match = "path" -> 30

\* token_score and segment_match_score
TokenScore(match) ==
    CASE match = "equal" -> 100
      [] match = "prefix" -> 88
      [] match = "contains" -> 74
      [] match = "segment_prefix" -> 62
      [] match = "segment_contains" -> 50
      [] match = "segment_subsequence" -> 42
      [] match = "path" -> 30

Matched(query, item) == {item.match[i] : i \in 1..query.tokens} \ {"none"}

\* The worst of the tokens that match.
Base(query, item) == Min({TokenScore(m) : m \in Matched(query, item)} \cup {Unmatched})

FailsAny(query, item) == \E i \in 1..query.tokens : item.match[i] = "none"

\* A query in capitals of two letters or more is compared with the initials; tokens
\* that stand together in the name are worth more.
Lifted(query, item) ==
    Base(query, item)
    + (IF query.capitals THEN 10 * item.initials ELSE 0)
    + (IF query.tokens > 1 /\ item.joined # "none" THEN 5 ELSE 0)

\* The last resort for a single token in capitals, which a name equal to it meets
\* as well as one that does not match: base is 1.0 or more for both.
ByInitials(query, item) ==
    /\ query.tokens = 1 /\ query.capitals
    /\ Base(query, item) >= 100
    /\ item.initials > 0

Value(query, item) ==
    CASE ByInitials(query, item) -> 46
      [] query.tokens > 1 /\ item.joined = "contains" -> Max({Lifted(query, item), 82})
      [] OTHER -> Lifted(query, item)

Misses(query, item) ==
    \/ query.tokens > 1 /\ FailsAny(query, item)
    \/ Base(query, item) = Unmatched /\ ~ByInitials(query, item)

Clamp(value) == Max({0, Min({value, 100})})

Score(query, item) ==
    IF Misses(query, item) THEN NoHit
    ELSE Clamp(Value(query, item) + (IF item.directory THEN 2 ELSE 0)
                                  - (IF item.hidden THEN 12 ELSE 0))

-----------------------------------------------------------------------------
(* SearchEngine::search *)

\* Mutant: two items with the same score and length of name stay as they are.
Before_NoPath(query, a, b) ==
    \/ Score(query, a) > Score(query, b)
    \/ Score(query, a) = Score(query, b) /\ Len(a.name) < Len(b.name)

\* The order of sort_by: score, length of the name, path.
Before(query, a, b) ==
    \/ Score(query, a) > Score(query, b)
    \/ Score(query, a) = Score(query, b) /\ Len(a.name) < Len(b.name)
    \/ Score(query, a) = Score(query, b) /\ Len(a.name) = Len(b.name) /\ a.rank < b.rank

\* The positions of what score takes.
Found(query, items) == {i \in DOMAIN items : Score(query, items[i]) # NoHit}

\* The sort is stable: what is equal stays in the order of the walk.
Precedes(query, items, i, j) ==
    \/ Before(query, items[i], items[j])
    \/ ~Before(query, items[j], items[i]) /\ i < j

Place(query, items, i) ==
    1 + Cardinality({j \in Found(query, items) : Precedes(query, items, j, i)})

Sorted(query, items) ==
    [k \in 1..Cardinality(Found(query, items)) |->
        items[CHOOSE i \in Found(query, items) : Place(query, items, i) = k]]

Truncate(s, limit) == SubSeq(s, 1, Min({limit, Len(s)}))

Search(query, items) == Truncate(Sorted(query, items), query.limit)

-----------------------------------------------------------------------------
(* The codec.  A text that cannot be decoded is {}, one that can a singleton. *)

\* Mutant: the escape character passes as it is.
Plain_Percent == Digit \cup {Percent}

Plain == Digit

\* encode_bytes
EncodeBytes(bytes) ==
    FlattenSeq([i \in DOMAIN bytes |->
        IF bytes[i] \in Plain THEN <<bytes[i]>>
        ELSE <<Percent, bytes[i] \div Radix, bytes[i] % Radix>>])

\* decode_bytes, after so many rounds of its loop; an escape needs two digits.
DecodeBytes(text) ==
    LET loop[n \in 0..Len(text)] ==
          IF n = 0 THEN [index |-> 1, output |-> <<>>, error |-> FALSE]
          ELSE LET l == loop[n - 1]
                   i == l.index
               IN  IF l.error \/ i > Len(text) THEN l
                   ELSE IF text[i] # Percent
                   THEN [l EXCEPT !.index = i + 1, !.output = Append(@, text[i])]
                   ELSE IF i + 2 > Len(text) \/ ~({text[i + 1], text[i + 2]} \subseteq Digit)
                   THEN [l EXCEPT !.error = TRUE]
                   ELSE [l EXCEPT !.index = i + 3,
                                  !.output = Append(@, text[i + 1] * Radix + text[i + 2])]
        end == loop[Len(text)]
    IN  IF end.error THEN {} ELSE {end.output}

\* split, of so many bytes
Split(text, separator) ==
    LET pieces[n \in 0..Len(text)] ==
          IF n = 0 THEN <<<<>>>>
          ELSE LET p == pieces[n - 1]
               IN  IF text[n] = separator THEN Append(p, <<>>)
                   ELSE [p EXCEPT ![Len(p)] = Append(@, text[n])]
    IN  pieces[Len(text)]

\* What the client is told of a hit, here without its number, score and hidden flag.
Shown(item) == [path |-> item.path, directory |-> item.directory, name |-> item.name]

\* A line of encode_response.
EncodeHit(item) ==
    <<IF item.directory THEN 1 ELSE 0, Tab>>
        \o EncodeBytes(item.name) \o <<Tab>> \o EncodeBytes(item.path)

\* encode_response: a header with the count, and a line for each hit.
EncodeHits(found) ==
    <<Symbol(Len(found))>>
        \o FlattenSeq([i \in DOMAIN found |-> <<NewLine>> \o EncodeHit(found[i])])

\* decode_hit
DecodeHit(line) ==
    LET fields == Split(line, Tab)
    IN  IF Len(fields) = 3 /\ fields[1] \in {<<0>>, <<1>>}
        THEN {[path |-> path, directory |-> fields[1] = <<1>>, name |-> name] :
                  name \in DecodeBytes(fields[2]), path \in DecodeBytes(fields[3])}
        ELSE {}

\* decode_response
DecodeHits(text) ==
    LET lines == Split(text, NewLine)
        rows == [i \in 1..(Len(lines) - 1) |-> DecodeHit(lines[i + 1])]
    IN  IF lines[1] = <<Symbol(Len(rows))>> /\ \A i \in DOMAIN rows : rows[i] # {}
        THEN {[i \in DOMAIN rows |-> CHOOSE row \in rows[i] : TRUE]}
        ELSE {}

-----------------------------------------------------------------------------
(* request_daemon and serve *)

SearchInit ==
    /\ point = "sent"
    /\ snapshot \in Index
    /\ request \in Request
    /\ \A i \in DOMAIN snapshot : Len(snapshot[i].match) = request.tokens
    /\ hits = <<>>
    /\ frame = <<>>
    /\ answer = {}

\* decode_request refuses a limit above 1000 with an Error answer.
DecodeRequest ==
    /\ point = "sent"
    /\ point' = IF request.limit > RequestLimit THEN "refused" ELSE "decoded"
    /\ UNCHANGED <<snapshot, request, hits, frame, answer>>

\* The engine is searched under the read lock.
SearchIndex ==
    /\ point = "decoded"
    /\ hits' = Search(request, snapshot)
    /\ point' = "found"
    /\ UNCHANGED <<snapshot, request, frame, answer>>

\* Above the limit write_frame fails, serve returns the error, and the client finds
\* the connection closed.
WriteFrame ==
    /\ point = "found"
    /\ IF Len(EncodeHits(hits)) > MaxFrame
       THEN point' = "closed" /\ UNCHANGED frame
       ELSE point' = "answered" /\ frame' = EncodeHits(hits)
    /\ UNCHANGED <<snapshot, request, hits, answer>>

\* The client reads the frame.
ReadAnswer ==
    /\ point = "answered"
    /\ answer' = DecodeHits(frame)
    /\ point' = "received"
    /\ UNCHANGED <<snapshot, request, hits, frame>>

SearchNext == DecodeRequest \/ SearchIndex \/ WriteFrame \/ ReadAnswer

SearchSpec == SearchInit /\ [][SearchNext]_searchVars

-----------------------------------------------------------------------------
(* What a search promises. *)

RankOf(match) == CHOOSE i \in DOMAIN Quality : Quality[i] = match

\* A better match comes first, among what is not hidden: an equal name before one
\* that begins with the token, and so on down to a part of the path
\* (ruyiseek-query/src/lib.rs:84-86, 199-201, exact_name_beats_prefix_and_path), whatever
\* the bonus for directories adds.  Queries in capitals are left out: their
\* initials outweigh it, and send an equal name below all names that begin with it.
BetterMatchRanksFirst ==
    point = "found" /\ request.tokens = 1 /\ ~request.capitals =>
        \A i, j \in DOMAIN hits : i < j /\ ~hits[i].hidden /\ ~hits[j].hidden =>
            RankOf(hits[i].match[1]) <= RankOf(hits[j].match[1])

\* A rescan that meets the same files in another order changes no answer, whatever
\* the limit cuts off: the order of the hits is total, and it is cut after sorting.
WalkOrderDoesNotMatter ==
    point = "found" =>
        \A order \in Bijection(DOMAIN snapshot, DOMAIN snapshot) :
            hits = Search(request, [i \in DOMAIN snapshot |-> snapshot[order[i]]])

\* The interface always gets its hits as the engine found them: its limit is one the
\* daemon takes, so many hits fit into a frame however long their names and paths are,
\* and neither a name nor a path, with whatever bytes a file system allows, spoils the
\* lines of the answer (main.rs:44, MAX_FRAME_SIZE, encode_bytes, encode_path).  The
\* command line may ask for more than fits.
UiGetsTheHits ==
    point \in {"refused", "closed", "received"} =>
        (request.limit = UiLimit => answer = {[i \in DOMAIN hits |-> Shown(hits[i])]})
=============================================================================
