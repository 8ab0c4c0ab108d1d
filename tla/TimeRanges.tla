-------------------------------- MODULE TimeRanges --------------------------------
(* What a query says of time (memme-core time_parser.rs): its references become ranges of    *)
(* days, counted from today, and the results whose event_time is in one of them get a higher  *)
(* score (memory/search.rs).                                                                  *)
(* A query is what is asked, a sequence of references, and the references that the parser      *)
(* finds in it, in the order in which it looks for them.  A day is a date of the calendar, a   *)
(* record that chrono reckons with.                                                           *)
EXTENDS Integers, Sequences, FiniteSets, SequencesExt

CONSTANTS
    Todays,       \* the days on which a query may be asked: dates
    Counts,       \* the numbers in "N days ago" and its like that do not lead out of chrono's years
    NoDate

VARIABLES
    today,     \* Utc::now
    query,     \* the references of the query: those it asks about, and those that are found in it
    timing,    \* "idle", "parsed", "searched"
    ranges,    \* what parse_time_references returns: sequence of [start, end]
    raised     \* the moments whose results apply_temporal_filter raises

timeVars == <<today, query, timing, ranges, raised>>

--------------------------------------------------------------------------------
(* The calendar, as chrono reckons with it *)

Leap(y) == (y % 4 = 0 /\ y % 100 # 0) \/ y % 400 = 0
MonthDays(y, m) == IF m = 2 THEN (IF Leap(y) THEN 29 ELSE 28) ELSE IF m \in {4, 6, 9, 11} THEN 30 ELSE 31
AnyDate == [y : Int, m : 1 .. 12, d : 1 .. 31]
IsDate(date) == date.m \in 1 .. 12 /\ date.d \in 1 .. MonthDays(date.y, date.m)

\* The number of a day, with 1 March of the year 0 as day 0, and the day of a number.
DayNumber(date) ==
    LET y == IF date.m <= 2 THEN date.y - 1 ELSE date.y
        m == (date.m + 9) % 12
    IN  (365 * y) + (y \div 4) - (y \div 100) + (y \div 400) + (((153 * m) + 2) \div 5) + date.d - 1
\* The dates at most n years away
Near(y, n) == {date \in [y : y - n .. y + n, m : 1 .. 12, d : 1 .. 31] : IsDate(date)}
Days(date, days) ==
    LET years == 1 + ((IF days < 0 THEN -days ELSE days) \div 365)
    IN  CHOOSE other \in Near(date.y, years) : DayNumber(other) = DayNumber(date) + days
Monday == DayNumber([y |-> 2024, m |-> 1, d |-> 1]) % 7
Weekday(date) == (DayNumber(date) - Monday) % 7

FromYmd(y, m, d) == LET date == [y |-> y, m |-> m, d |-> d] IN IF IsDate(date) THEN date ELSE NoDate
UnwrapOr(date, other) == IF date = NoDate THEN other ELSE date

ASSUME TimeAssumption ==
    /\ Todays \subseteq AnyDate /\ \A date \in Todays : IsDate(date)
    /\ Counts \subseteq Nat \ {0}
    /\ NoDate \notin AnyDate

--------------------------------------------------------------------------------
(* parse_time_references_with_anchor *)

\* The day before the first of the next month.
MonthLastDay(y, m) == Days(IF m = 12 THEN FromYmd(y + 1, 1, 1) ELSE FromYmd(y, m + 1, 1), -1)

MonthOf(y, m) == [start |-> UnwrapOr(FromYmd(y, m, 1), today), end |-> MonthLastDay(y, m)]

OneDay(date) == [start |-> date, end |-> date]

\* Mutant: the number of the month is taken for its index.
MonthsFromOne(y, m, n) == LET total == y * 12 + m - n IN <<total \div 12, (total % 12) + 1>>

\* The year, and the month, n months before.
SubtractMonths(y, m, n) == LET total == y * 12 + m - 1 - n IN <<total \div 12, (total % 12) + 1>>

LastMonth == IF today.m = 1 THEN <<today.y - 1, 12>> ELSE <<today.y, today.m - 1>>

\* What one reference stands for.
RangeOf(ref) ==
    CASE ref.says = "date" -> OneDay(ref.date)
      [] ref.says = "yesterday" -> OneDay(Days(today, -1))
      [] ref.says = "today" -> OneDay(today)
      [] ref.says = "last_week" -> [start |-> Days(today, -7), end |-> today]
      [] ref.says = "last_month" -> MonthOf(LastMonth[1], LastMonth[2])
      [] ref.says = "last_year" -> [start |-> FromYmd(today.y - 1, 1, 1), end |-> FromYmd(today.y - 1, 12, 31)]
      [] ref.says = "days_ago" -> OneDay(Days(today, -ref.n))
      [] ref.says = "weeks_ago" -> [start |-> Days(today, -7 * ref.n), end |-> today]
      [] ref.says = "months_ago" ->
            LET month == SubtractMonths(today.y, today.m, ref.n) IN MonthOf(month[1], month[2])
      [] ref.says = "month" -> MonthOf(ref.year, ref.n)
      [] ref.says = "this_week" ->
            LET monday == Days(today, -Weekday(today)) IN [start |-> monday, end |-> Days(monday, 6)]
      [] ref.says = "this_month" -> MonthOf(today.y, today.m)

\* Plain questions.  A month's name stands beside a year, or means the month of this year.
InMonth(n) == {[says |-> "month", n |-> n, year |-> y] : y \in {today.y, today.y - 1}}
Askings ==
    {<<[says |-> w]>> : w \in {"yesterday", "today", "last_week", "last_month", "last_year", "this_week", "this_month"}}
      \cup {<<[says |-> w, n |-> n]>> : w \in {"days_ago", "weeks_ago", "months_ago"}, n \in Counts}
      \cup {<<ref>> : ref \in UNION {InMonth(n) : n \in 1 .. 12}}
      \cup {<<[says |-> "date", date |-> today], [says |-> "last_month"]>>}

ThisYears(n) == [says |-> "month", n |-> n, year |-> today.y]
\* Questions that are misread: the Chinese names of the eleventh and the twelfth month contain those of the
\* first and the second, and in "3月前", three months ago, the third month is found too.
Misread ==
    {[asked |-> <<ThisYears(n)>>, found |-> <<ThisYears(n - 10), ThisYears(n)>>] : n \in {11, 12}}
      \cup {[asked |-> <<[says |-> "months_ago", n |-> n]>>, found |-> <<[says |-> "months_ago", n |-> n], ThisYears(n)>>] :
                n \in Counts \cap 1 .. 12}
Questions == {[asked |-> q, found |-> q] : q \in Askings} \cup Misread

TimeInit ==
    /\ today \in Todays /\ query = [asked |-> <<>>, found |-> <<>>] /\ timing = "idle"
    /\ ranges = <<>> /\ raised = {}

ParseTime ==
    /\ timing = "idle" /\ timing' = "parsed"
    /\ query' \in Questions
    /\ ranges' = [i \in DOMAIN query'.found |-> RangeOf(query'.found[i])]
    /\ UNCHANGED <<today, raised>>

--------------------------------------------------------------------------------
(* The use of the ranges: event_time and the ends of a range are compared as strings *)

\* An event_time is a date, or a date and a time of the day, which begins with the date and is longer.
Before(date, other) == date.y < other.y \/ (date.y = other.y /\ (date.m < other.m \/ (date.m = other.m /\ date.d < other.d)))
UpTo(moment, date) == Before(moment.date, date) \/ (moment.date = date /\ ~moment.timed)
From(moment, date) == moment.date = date \/ Before(date, moment.date)

\* Moments about the ends of the ranges.
RangeEnds == UNION {{r.start, r.end} : r \in ToSet(ranges)}
Moments == {[date |-> Days(date, k), timed |-> t] : date \in RangeEnds, k \in {-1, 0, 1}, t \in BOOLEAN}

\* detect_temporal_intent and apply_temporal_filter: a moment in one of the ranges raises its result.
Raise ==
    /\ timing = "parsed" /\ timing' = "searched"
    /\ raised' = {x \in Moments : \E r \in ToSet(ranges) : From(x, r.start) /\ UpTo(x, r.end)}
    /\ UNCHANGED <<today, query, ranges>>

TimeNext == ParseTime \/ Raise
TimeSpec == TimeInit /\ [][TimeNext]_timeVars

--------------------------------------------------------------------------------
(* Properties *)

\* What a reference means, said of a day and without reckoning with ranges: the days between, by their
\* numbers, or the days of a month, by its distance.
Means(ref, date) ==
    LET days == DayNumber(today) - DayNumber(date)
        months == (12 * today.y + today.m) - (12 * date.y + date.m)
    IN  CASE ref.says = "date" -> date = ref.date
          [] ref.says = "yesterday" -> days = 1
          [] ref.says = "today" -> days = 0
          [] ref.says = "last_week" -> days \in 0 .. 7
          [] ref.says = "last_month" -> months = 1
          [] ref.says = "last_year" -> today.y - date.y = 1
          [] ref.says = "days_ago" -> days = ref.n
          [] ref.says = "weeks_ago" -> days \in 0 .. 7 * ref.n
          [] ref.says = "months_ago" -> months = ref.n
          [] ref.says = "month" -> date.m = ref.n /\ date.y = ref.year
          [] ref.says = "this_week" -> (DayNumber(today) - Monday) \div 7 = (DayNumber(date) - Monday) \div 7
          [] ref.says = "this_month" -> months = 0

\* A time on the last of the days is not reached: its text is greater than that of the day ("A concrete date
\* range (inclusive on both ends)", time_parser.rs:9).
LastDay(ref, date) == Means(ref, date) /\ ~Means(ref, Days(date, 1))
Reached(ref, moment) == Means(ref, moment.date) /\ ~(moment.timed /\ LastDay(ref, moment.date))

\* Around the turn of a month, of a year and of a February with 29 days, a query raises the moments of the
\* days it asks about, but for the times of the last of them (see Reached), and raises no others, unless it
\* is misread: then it raises others too.
RangesAreCalendar ==
    timing = "searched" =>
        LET reached == {x \in Moments : \E i \in DOMAIN query.asked : Reached(query.asked[i], x)}
        IN  reached \subseteq raised /\ (query.found = query.asked => raised = reached)
================================================================================
