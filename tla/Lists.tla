------------------------------- MODULE Lists -------------------------------
(***************************************************************************)
(* A reader goes through a paged list, newest row first, while the table   *)
(* changes: the access log, the security events and the login attempts of  *)
(* the administrator (app/blueprints/admin.py) and the board (board.py).   *)
(* Each page is two queries, one for the number of rows and one for the    *)
(* rows; the reader follows "next" until the page says it is the last.     *)
(***************************************************************************)
EXTENDS Integers, Sequences, FiniteSets, SequencesExt

CONSTANTS PageSize,   \* LOG_PAGE_SIZE, PAGE_SIZE
          AtFirst,    \* bound: rows in the table when the reader begins
          MaxRows     \* bound: rows in the table

ASSUME ListsAssumption == {PageSize, AtFirst, MaxRows} \subseteq Nat /\ PageSize > 0

VARIABLES list,     \* the list the reader looks at
          narrow,   \* its filter is set
          rows,     \* the table in the order of the list: id and one flag
          walk,     \* the reader: next query, page, total on it, ids seen
          there,    \* history: the ids in the list when the reader began
          slipped,  \* history: a row came between the two queries of this page
          shrunk    \* history: a row left the list since the reader began

listVars == <<list, narrow, rows, walk, there, slipped, shrunk>>

ListNames == {"logs", "threats", "logins", "posts"}

----------------------------------------------------------------------------
(* What a list shows; its flag is all a filter tells apart.                *)

\* Flag: the filter (threats_only, address, status ...) fits the row.
LogsShow(row) == narrow => row.flag

\* Flag: the event is resolved; shown only with resolved=1.
ThreatsShow(row) == narrow => ~row.flag

\* Flag: the attempt failed.
LoginsShow(row) == narrow => row.flag

\* Flag: the post is deleted, or without the word searched for; never shown.
PostsShow(row) == ~row.flag

Shows(row) ==
    CASE list = "logs" -> LogsShow(row)
      [] list = "threats" -> ThreatsShow(row)
      [] list = "logins" -> LoginsShow(row)
      [] list = "posts" -> PostsShow(row)

\* Where the rows of the list are in the table, how many of them come before
\* place i (those an OFFSET skips first), and their ids.
ShownAt == {i \in DOMAIN rows : Shows(rows[i])}
Before(i) == Cardinality({j \in ShownAt : j < i})
ShownIds == {rows[i].id : i \in ShownAt} \ {0}

ListsInit ==
    /\ list \in ListNames
    /\ narrow \in BOOLEAN
    /\ \E n \in 0..AtFirst : \E f \in [1..n -> BOOLEAN] :
         rows = [i \in 1..n |-> [id |-> n + 1 - i, flag |-> f[i]]]
    /\ walk = [at |-> "count", page |-> 1, total |-> 0, seen |-> {}]
    /\ there = ShownIds
    /\ slipped = FALSE
    /\ shrunk = FALSE

----------------------------------------------------------------------------
(* The reader.                                                             *)

\* SELECT COUNT(*)
CountRows ==
    /\ walk.at = "count"
    /\ walk' = [walk EXCEPT !.at = "rows", !.total = Cardinality(ShownAt)]
    /\ slipped' = FALSE
    /\ UNCHANGED <<list, narrow, rows, there, shrunk>>

\* Variant: the last page is lost when it is not full.
TotalPagesFloor(total) == IF total < PageSize THEN 1 ELSE total \div PageSize

TotalPages(total) ==
    LET pages == (total + PageSize - 1) \div PageSize IN IF pages > 1 THEN pages ELSE 1

Offset(page) == (page - 1) * PageSize

\* SELECT ... LIMIT PageSize OFFSET; "next" if this page is not the last.  Rows
\* of one timestamp are taken to keep their order from query to query.
ReadRows ==
    LET from == Offset(walk.page)
        here == {i \in ShownAt : from <= Before(i) /\ Before(i) < from + PageSize}
        seen == walk.seen \union ({rows[i].id : i \in here} \ {0})
        more == walk.page < TotalPages(walk.total)
    IN  /\ walk.at = "rows"
        /\ walk' = IF more THEN [walk EXCEPT !.at = "count", !.page = @ + 1, !.seen = seen]
                           ELSE [walk EXCEPT !.at = "end", !.seen = seen]
        /\ UNCHANGED <<list, narrow, rows, there, slipped, shrunk>>

----------------------------------------------------------------------------
(* The others.                                                             *)

\* A row is inserted (0: it was not there at first).  It need not be the newest:
\* each worker's log writer inserts up to a flush interval late.
Insert ==
    /\ walk.at # "end"
    /\ Len(rows) < MaxRows
    /\ \E i \in 1..(Len(rows) + 1), flag \in BOOLEAN :
         /\ flag => list # "threats"
         /\ rows' = InsertAt(rows, i, [id |-> 0, flag |-> flag])
    /\ slipped' = (slipped \/ walk.at = "rows")
    /\ UNCHANGED <<list, narrow, walk, there, shrunk>>

\* An event is resolved, a post deleted or edited out of the search.
Hide ==
    /\ walk.at # "end"
    /\ list \in {"threats", "posts"}
    /\ \E i \in DOMAIN rows :
         /\ ~rows[i].flag
         /\ rows' = [rows EXCEPT ![i].flag = TRUE]
    /\ UNCHANGED <<list, narrow, walk, there, slipped>>
    /\ shrunk' = (shrunk \/ Cardinality(ShownAt') < Cardinality(ShownAt))

\* purge_logs: the oldest rows of the access log go.
Purge ==
    /\ walk.at # "end"
    /\ list = "logs"
    /\ \E n \in 0..(Len(rows) - 1) : rows' = SubSeq(rows, 1, n)
    /\ UNCHANGED <<list, narrow, walk, there, slipped, shrunk>>

ListsNext == CountRows \/ ReadRows \/ Insert \/ Hide \/ Purge

----------------------------------------------------------------------------
(* Properties.                                                             *)

\* Whoever reads a list to its end has seen every row that was in it when he
\* began and still is, although rows are inserted, anywhere, and the log is
\* purged meanwhile.  Two things break it: a row inserted between the two
\* queries of the last page, and a row that left the list in front of him.
WalkComplete ==
    (walk.at = "end" /\ ~slipped /\ ~shrunk) => there \intersect ShownIds \subseteq walk.seen
=============================================================================
