------------------------------- MODULE Export -------------------------------
(***************************************************************************)
(* Export of a device's telemetry (portal/app/export.py and the export     *)
(* route of routers/devices.py).  The engine answers with the newest page  *)
(* of a range, so the export goes backwards through the range, page by     *)
(* page and key by key, while the device goes on reporting, points of the  *)
(* past included.                                                          *)
(***************************************************************************)
EXTENDS Handlers, Sequences

CONSTANTS
  Keys,        \* the keys asked for, in order
  RangeStart,  \* start_ts and end_ts, in a time of a few instants 0 .. n
  RangeEnd,
  LastInstant,
  PageSize,    \* PAGE (10000)
  MaxRows,     \* MAX_ROWS (500000)
  MaxReports   \* bound on the points that arrive

VARIABLES
  points,      \* the engine: <<key, ts>> of each point; it has one value for each
  reports      \* points that arrived so far

ASSUME ExportAssumption ==
  /\ {RangeStart, RangeEnd} \subseteq 0 .. LastInstant
  /\ LastInstant \in Nat /\ PageSize \in Nat \ {0} /\ MaxRows \in Nat \ {0}
  /\ MaxReports \in Nat /\ Keys \in Seq({Keys[i] : i \in DOMAIN Keys})

exportVars == <<points, reports>>

KeySet == {Keys[i] : i \in DOMAIN Keys}
Oldest(S) == CHOOSE n \in S : \A m \in S : n <= m
Nth(S, i) == CHOOSE n \in S : Cardinality({m \in S : m < n}) = i - 1

-----------------------------------------------------------------------------
\* the device; what it reports carries the time it says
Report(k, ts) ==
  /\ reports < MaxReports /\ <<k, ts>> \notin points
  /\ points' = points \cup {<<k, ts>>} /\ reports' = reports + 1
  /\ UNCHANGED handlerVars

\* export_telemetry up to the session; goal is what there is when it begins
BeginExport(t) ==
  /\ Start(t, [pc |-> IF Keys # << >> /\ RangeStart < RangeEnd THEN "page" ELSE "whole",
               nth |-> 1, cursor |-> RangeEnd, rows |-> << >>,
               goal |-> {p \in points : RangeStart <= p[2] /\ p[2] <= RangeEnd}])
  /\ UNCHANGED exportVars

\* timeseries: the newest points of a range, both ends included
Page(k, from, to) ==
  LET range == {ts \in from .. to : <<k, ts>> \in points}
  IN {ts \in range : Cardinality({later \in range : ts < later}) < PageSize}

\* a page's points, oldest first; a row has its key by the place on the list
PageRows(nth, page) == [i \in 1 .. Cardinality(page) |-> <<nth, Nth(page, i)>>]

\* A variant for mutation: the next page begins with the last point of this one.
NextCursorInclusive(page) == Oldest(page)

NextCursor(page) == Oldest(page) - 1

\* when the loop over a key goes round again
MorePages(page) ==
  /\ Cardinality(page) = PageSize
  /\ RangeStart < Oldest(page) /\ RangeStart < NextCursor(page)

\* iter_rows: one page, its rows up to the cap, and the next page or key
ReadPage(t) ==
  LET j == jobs[t]
      page == Page(Keys[j.nth], RangeStart, j.cursor)
      rows == j.rows \o PageRows(j.nth, page)
  IN /\ At(t, "page")
     /\ \/ /\ Len(rows) >= MaxRows
           /\ Become(t, [j EXCEPT !.pc = "capped", !.rows = SubSeq(rows, 1, MaxRows)])
        \/ /\ Len(rows) < MaxRows /\ MorePages(page)
           /\ Become(t, [j EXCEPT !.rows = rows, !.cursor = NextCursor(page)])
        \/ /\ Len(rows) < MaxRows /\ ~MorePages(page)
           /\ Become(t, [j EXCEPT !.rows = rows, !.cursor = RangeEnd, !.nth = @ + 1,
                         !.pc = IF j.nth = Len(Keys) THEN "whole" ELSE "page"])
     /\ UNCHANGED <<exportVars, faults>>

\* the audit and the answer
Deliver(t) == jobs[t].pc \in {"capped", "whole"} /\ Finish(t) /\ UNCHANGED exportVars

ExportFails(t) == Killed(t) /\ UNCHANGED exportVars

ExportInit == points \in SUBSET (KeySet \X (0 .. LastInstant)) /\ reports = 0

ExportNext ==
  \/ \E k \in KeySet, ts \in 0 .. LastInstant : Report(k, ts)
  \/ \E t \in Threads : BeginExport(t) \/ ReadPage(t) \/ Deliver(t) \/ ExportFails(t)

ExportSpec == HandlersInit /\ ExportInit /\ [][ExportNext]_<<exportVars, handlerVars>>

-----------------------------------------------------------------------------
\* the rows a range owes: its points but those at its very start
Owed(goal) ==
  {p \in (DOMAIN Keys) \X ((RangeStart + 1) .. RangeEnd) : <<Keys[p[1]], p[2]>> \in goal}

(***************************************************************************)
(* Whatever arrives between two pages, an export has no point twice (for   *)
(* one mention of its key) and none from outside the range; and unless it  *)
(* was cut off at the cap it has every point that was there when it began, *)
(* but perhaps one at the very start of the range (iter_rows).             *)
(***************************************************************************)
ExportExact ==
  \A t \in {t \in Threads : jobs[t].pc \in {"capped", "whole"}} :
    LET j == jobs[t]
        got == {j.rows[i] : i \in DOMAIN j.rows}
    IN /\ Cardinality(got) = Len(j.rows)
       /\ \A p \in got : RangeStart <= p[2] /\ p[2] <= RangeEnd
       /\ At(t, "whole") => Owed(j.goal) \subseteq got
=============================================================================
