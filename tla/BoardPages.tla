----------------------------- MODULE BoardPages -----------------------------
(***************************************************************************)
(* Reading a leaderboard page by page (getLeaderboardPage in               *)
(* src/src/db/pool.ts, GET /v2/leaderboards/:board): a page continues      *)
(* after the (value, uuid) of the last row of the page before, while the   *)
(* rows move.  The game database answers first, its Postgres copy when it  *)
(* fails or has no row left.                                               *)
(***************************************************************************)
EXTENDS Naturals, FiniteSets

CONSTANTS
    Players,    \* their uuids, as numbers: the order of uuid ASC
    Values,     \* what a board is ranked by
    Cap,        \* rows of a page
    Boards,     \* the boards explored: "prestige" has a second key
    MaxMoves    \* bound: row changes during a walk

VARIABLES
    board,   \* the board read
    game,    \* the live rows: value and second key of each player
    copy,    \* the same of the Postgres copy
    cursor,  \* what the reader was given to go on from
    shown,   \* how often each player was on a page
    moved,   \* players whose row changed since the walk began
    from,    \* the databases whose rows were on a page
    moves    \* row changes so far

vars == <<board, game, copy, cursor, shown, moved, from, moves>>

Rows == [Players -> [value : Values, second : Values]]
Start == [at |-> "start", value |-> 0, uuid |-> 0]
End == [at |-> "end", value |-> 0, uuid |-> 0]
After(value, uuid) == [at |-> "after", value |-> value, uuid |-> uuid]

(* decodeCursor: a token of encodeCursor gives back the pair it was made of.*)
decodeCursor(c) == c

(* ORDER BY of the board: value DESC, for prestige the points DESC, uuid ASC*)
Before(rows, p, q) ==
    \/ rows[p].value > rows[q].value
    \/ /\ rows[p].value = rows[q].value
       /\ \/ board = "prestige" /\ rows[p].second > rows[q].second
          \/ /\ board = "prestige" => rows[p].second = rows[q].second
             /\ p < q

(* Mutant: a page goes on after the value alone.                            *)
cursorPredicateByValue(rows, p) == cursor.at = "start" \/ rows[p].value < cursor.value

(* cursorPredicate: the keyset is (value, uuid), on every board.            *)
cursorPredicate(rows, p) ==
    \/ cursor.at = "start"
    \/ rows[p].value < decodeCursor(cursor).value
    \/ rows[p].value = decodeCursor(cursor).value /\ p > decodeCursor(cursor).uuid

(* One statement: the rows after the cursor, in the board's order, LIMIT cap*)
(* A page is whom fewer than Cap of them precede, its last row whom all the *)
(* others of the page precede.                                              *)
Left(rows) == {p \in Players : cursorPredicate(rows, p)}
Ahead(rows, p) == {q \in Left(rows) : Before(rows, q, p)}
PageOf(rows) == {p \in Left(rows) : Cardinality(Ahead(rows, p)) < Cap}
LastOf(rows) == CHOOSE p \in PageOf(rows) : \A q \in PageOf(rows) \ {p} : Before(rows, q, p)

Init ==
    /\ board \in Boards
    /\ game \in (IF board = "prestige" THEN Rows
                 ELSE {r \in Rows : \A p \in Players : r[p].second = 0})
    /\ copy = game
    /\ cursor = Start
    /\ shown = [p \in Players |-> 0]
    /\ moved = {} /\ from = {} /\ moves = 0

(* getLeaderboardPage: a full page gives a cursor, a shorter one none.      *)
getLeaderboardPage(source, rows) ==
    LET page == PageOf(rows)
        last == LastOf(rows)
    IN  /\ shown' = [p \in Players |-> shown[p] + (IF p \in page THEN 1 ELSE 0)]
        /\ cursor' = IF Cardinality(page) = Cap THEN After(rows[last].value, last) ELSE End
        /\ from' = IF page = {} THEN from ELSE from \cup {source}
        /\ UNCHANGED <<board, game, copy, moved, moves>>

GamePage ==
    /\ cursor # End
    /\ PageOf(game) # {}
    /\ getLeaderboardPage("game", game)

(* The game database failed, or had no row left.                            *)
CopyPage ==
    /\ cursor # End
    /\ getLeaderboardPage("copy", copy)

(* The game server changes a row, the copy is brought up to date.           *)
RowMoves(p, v) ==
    /\ moves < MaxMoves /\ cursor # End
    /\ game[p].value # v
    /\ game' = [game EXCEPT ![p].value = v]
    /\ moved' = moved \cup {p}
    /\ moves' = moves + 1
    /\ UNCHANGED <<board, copy, cursor, shown, from>>
CopyRows ==
    /\ copy # game
    /\ copy' = game
    /\ UNCHANGED <<board, game, cursor, shown, moved, from, moves>>

Next ==
    \/ GamePage \/ CopyPage \/ CopyRows
    \/ \E p \in Players, v \in Values : RowMoves(p, v)

Spec == Init /\ [][Next]_vars

-----------------------------------------------------------------------------
PagesTypeOK ==
    /\ board \in Boards
    /\ {game, copy} \subseteq Rows
    /\ cursor \in {Start, End} \cup {After(v, p) : v \in Values, p \in Players}
    /\ shown \in [Players -> Nat]
    /\ moved \subseteq Players /\ from \subseteq {"game", "copy"}
    /\ moves \in 0..MaxMoves

(* A walk over a board of one key, answered by the live rows: whoever did   *)
(* not move is on exactly one page of it, whatever the others do.           *)
PagesPartition ==
    (board # "prestige" /\ from \subseteq {"game"}) =>
        \A p \in Players \ moved :
            shown[p] <= 1 /\ (cursor = End => shown[p] = 1)

(* "pages continue from an explicit (value, uuid) cursor: rows strictly     *)
(* after the cursor in the board's sort order" (pool.ts:1261): with no row  *)
(* changed at all a walk shows everyone once.  Violated on the prestige     *)
(* board, whose order has a key the cursor does not.                        *)
PagesCoverBoard ==
    (cursor = End /\ moves = 0) => \A p \in Players : shown[p] = 1
=============================================================================
