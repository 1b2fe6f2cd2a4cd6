------------------------------ MODULE CivilDates ------------------------------
(***************************************************************************)
(* Civil-date arithmetic of TimeOffRequestService.  The service keeps      *)
(* dates as YYYY-MM-DD strings whose string order is the calendar order;   *)
(* here a date is the number of days since 1970-01-01, a Thursday.         *)
(***************************************************************************)
EXTENDS Integers, FiniteSets

\* getUTCDay(): 0 is Sunday and 6 is Saturday.
DayOfWeek(d) == (d + 4) % 7

IsBusinessDay(d) == DayOfWeek(d) \notin {0, 6}

\* The days of the inclusive range that countBusinessDays counts.
BusinessDays(start, end) == {d \in start .. end : IsBusinessDay(d)}

CountBusinessDays(start, end) == Cardinality(BusinessDays(start, end))

\* Mutant of Overlaps: ranges that share only a boundary day do not overlap.
OverlapsInside(a, b) == a.start < b.end /\ a.end > b.start

\* The overlap predicate of submit's query: inclusive on both ends.
Overlaps(a, b) == a.start <= b.end /\ a.end >= b.start
=============================================================================
