----------------------------- MODULE ResultPages -----------------------------
(***************************************************************************)
(* The rows of one job's results on a page: the newest PageSize of them,   *)
(* and "load more" for the rest (web/server.go, jobs_table_render.go,      *)
(* assets/table_rows.js), while results are recorded and cleaned up        *)
(* (duckdb_store.go).  Pages are cut by offset, each with two statements   *)
(* on the store and no lock around them: one counts, one reads.            *)
(*                                                                         *)
(* Results are numbered as they start, which is the order of the pages.    *)
(* They are recorded as they end, which is the order they expire in.  What *)
(* happens between the browser and the first statement of a request could  *)
(* as well happen before the request, and is not a step.                   *)
(***************************************************************************)
EXTENDS Integers, FiniteSets, SequencesExt

CONSTANTS
    PageSize,      \* 10 in the code
    MaxResults,    \* bound: results of the job
    MaxClicks,     \* bound: clicks on one button that wait for an answer
    StoreMayFail   \* may a statement fail

ASSUME SizesAssumption ==
    PageSize \in Nat \ {0} /\ MaxResults \in Nat /\ MaxClicks \in Nat
ASSUME StoreAssumption == StoreMayFail \in BOOLEAN

Ids == 1..MaxResults
None == -1

PageRows == [id : Ids, num : Int]

VARIABLES
    stored,     \* job_results of the job, in the order they were recorded
    cleaned,    \* results that have expired
    behind,     \* a result was recorded since the page last asked for the table
    news,       \* the page has been told of a change and not asked for rows
    refresh,    \* the request for the table
    page,       \* the result rows in the table, from the top
    button,     \* data-offset of the load-more row, or None
    requests,   \* answers still to come to clicks on that button
    failed      \* an error has taken something from this table

vars == <<stored, cleaned, behind, news, refresh, page, button, requests, failed>>

Idle == [at |-> "idle", total |-> 0, rows |-> <<>>]

TypeOK ==
    /\ stored \in Seq(Ids)
    /\ cleaned \subseteq Ids
    /\ behind \in BOOLEAN /\ news \in BOOLEAN
    /\ refresh \in [at : {"idle", "counted", "answered"}, total : 0..MaxResults,
                    rows : Seq(PageRows)]
    /\ page \in Seq(PageRows)
    /\ button \in {None} \cup 0..(MaxResults + PageSize)
    /\ \A q \in requests : q \in [at : {"counted", "answered"}, offset : Nat,
                                  total : 0..MaxResults, rows : Seq(PageRows)]
    /\ failed \in BOOLEAN

\* The page is open, listens, and has nothing to show.
Init ==
    /\ stored = <<>> /\ cleaned = {}
    /\ behind = FALSE /\ news = FALSE /\ refresh = Idle
    /\ page = <<>> /\ button = None /\ requests = {}
    /\ failed = FALSE

-----------------------------------------------------------------------------
(* The store. *)

Total == Len(stored)

\* The rows of S that ORDER BY start_time DESC puts before r.
Before(S, r) == {x \in S : x > r}

\* ORDER BY start_time DESC LIMIT PageSize OFFSET offset
Newest(offset) ==
    LET S == ToSet(stored)
    IN  [i \in 1..Min({PageSize, Total - offset}) |->
            CHOOSE r \in S : Cardinality(Before(S, r)) = offset + i - 1]

\* A result is recorded.  Its signal comes later (Tell), or not at all: the
\* processor skips it when it cannot read the job, and a publish passes over a
\* page whose channel is full.
Record(r) ==
    /\ r \notin ToSet(stored) \cup cleaned
    /\ stored' = Append(stored, r)
    /\ behind' = TRUE
    /\ UNCHANGED <<cleaned, news, refresh, page, button, requests, failed>>

\* CleanupJobResults.  Nobody is told.
Cleanup(n) ==
    /\ cleaned' = cleaned \cup ToSet(SubSeq(stored, 1, n))
    /\ stored' = SubSeq(stored, n + 1, Total)
    /\ UNCHANGED <<behind, news, refresh, page, button, requests, failed>>

-----------------------------------------------------------------------------
(* The table: /jobs/get-table-rows, asked for when news comes. *)

\* A signal reaches the page: of this result or another one, of any job, of any
\* operation.  The page does not look at what it says.
Tell ==
    /\ news' = TRUE
    /\ UNCHANGED <<stored, cleaned, behind, refresh, page, button, requests, failed>>

\* The first statement.  A change that comes while the request is under way is
\* news again, and htmx asks once more afterwards.
CountForTable ==
    /\ news /\ refresh = Idle
    /\ news' = FALSE /\ behind' = FALSE
    /\ refresh' = [at |-> "counted", total |-> Total, rows |-> <<>>]
    /\ UNCHANGED <<stored, cleaned, page, button, requests, failed>>

\* The second one ranks and numbers the rows by a count of its own.
ReadForTable ==
    /\ refresh.at = "counted"
    /\ LET ids == Newest(0) IN
         refresh' = [refresh EXCEPT !.at = "answered",
                       !.rows = [i \in DOMAIN ids |-> [id |-> ids[i], num |-> Total - i + 1]]]
    /\ UNCHANGED <<stored, cleaned, behind, news, page, button, requests, failed>>

\* Faulty: the button is left out one result early; it is always there.
MutMoreEarly(n, total) == n + 1 < total
MutMoreAlways(n, total) == TRUE

\* There are more results than the n shown.
More(n, total) == n < total

\* Faulty: the second answer to a double click finds its row.
MutStaysAttached == requests

\* When the load-more row is gone, answers to clicks on it have no place to go.
Detached == {}

\* htmx replaces the rows of the whole table.
Swap ==
    /\ refresh.at = "answered"
    /\ page' = refresh.rows
    /\ button' = IF More(Len(refresh.rows), refresh.total) THEN Len(refresh.rows) ELSE None
    /\ requests' = Detached
    /\ refresh' = Idle
    /\ failed' = FALSE
    /\ UNCHANGED <<stored, cleaned, behind, news>>

\* htmx swaps nothing in when the answer is an error.
TableFails ==
    /\ StoreMayFail
    /\ refresh # Idle
    /\ refresh' = Idle
    /\ failed' = TRUE
    /\ UNCHANGED <<stored, cleaned, behind, news, page, button, requests>>

-----------------------------------------------------------------------------
(* "Load more": /jobs/results/:job-id?offset=... *)

\* A click, and the first statement.
Click ==
    /\ button # None
    /\ Cardinality(requests) < MaxClicks
    /\ requests' = requests \cup
         {[at |-> "counted", offset |-> button, total |-> Total, rows |-> <<>>]}
    /\ UNCHANGED <<stored, cleaned, behind, news, refresh, page, button, failed>>

\* The rows are numbered by the count of the first statement.
ReadForMore(q) ==
    /\ q.at = "counted"
    /\ LET ids == Newest(q.offset) IN
         requests' = (requests \ {q}) \cup
             {[q EXCEPT !.at = "answered",
                 !.rows = [i \in DOMAIN ids |->
                             [id |-> ids[i], num |-> q.total - q.offset - i + 1]]]}
    /\ UNCHANGED <<stored, cleaned, behind, news, refresh, page, button, failed>>

\* Faulty: an answer brings no button of its own.
MutNoNext(offset) == None

NextOffset(offset) == offset + PageSize

\* The rows come in before the load-more row, which is then removed; the answer
\* brings another one if there is more.
Insert(q) ==
    /\ q.at = "answered"
    /\ page' = page \o q.rows
    /\ button' = IF More(q.offset + Len(q.rows), q.total) THEN NextOffset(q.offset) ELSE None
    /\ requests' = Detached
    /\ UNCHANGED <<stored, cleaned, behind, news, refresh, failed>>

\* The script takes the text of any answer for rows: an error replaces the
\* load-more row as well.
MoreFails ==
    /\ StoreMayFail
    /\ requests # {}
    /\ button' = None
    /\ requests' = Detached
    /\ failed' = TRUE
    /\ UNCHANGED <<stored, cleaned, behind, news, refresh, page>>

-----------------------------------------------------------------------------

Table == CountForTable \/ ReadForTable \/ Swap
ReadMore == \E q \in requests : ReadForMore(q)
InsertMore == \E q \in requests : Insert(q)

Next ==
    \/ \E r \in Ids : Record(r)
    \/ \E n \in 1..Total : Cleanup(n)
    \/ Tell \/ Table \/ TableFails
    \/ Click \/ ReadMore \/ InsertMore \/ MoreFails

\* The server answers, and somebody wants to see all results.
Spec ==
    /\ Init /\ [][Next]_vars
    /\ WF_vars(Table) /\ WF_vars(ReadMore) /\ WF_vars(InsertMore)
    /\ WF_vars(requests = {} /\ Click)

-----------------------------------------------------------------------------

Shown == {page[i].id : i \in DOMAIN page}

\* The table has been read since the last result was recorded.
Quiet == ~behind /\ refresh = Idle /\ ~failed

\* Whatever was recorded between the statements of a request, or between two
\* pages: once the table has been read again it shows the newest results without
\* a gap, and all of them when it offers no more.  Only a clean-up can make the
\* offset skip a result, and only if it took a newer one than that.
NoGaps ==
    Quiet => \A r \in ToSet(stored) \ Shown :
        \/ button # None /\ \A x \in Shown : r < x \/ x \in cleaned
        \/ \E c \in cleaned : r < c

\* And every row is there once, newest first, with run numbers that fall by the
\* row and stay positive, although each page numbers its rows by another count.
RowsInOrder ==
    Quiet =>
        /\ \A i, k \in DOMAIN page :
             i < k => page[i].id > page[k].id /\ page[i].num > page[k].num
        /\ \A i \in DOMAIN page : page[i].num >= 1

\* Each signal, of whatever job, sends the table back to its first page.  Where
\* signals come to an end, and the last one after the last result, whoever keeps
\* asking for more sees every result that does not expire first.
AllReachable ==
    <>[](~news /\ ~behind) =>
        \A r \in Ids : r \in ToSet(stored) ~>
            \/ r \in Shown
            \/ failed
            \/ \E c \in cleaned : r <= c

=============================================================================
