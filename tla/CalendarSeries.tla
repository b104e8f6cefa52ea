--------------------------- MODULE CalendarSeries ---------------------------
(***************************************************************************)
(* The calendar's rows and the rhythm of its series: how an anchor is put  *)
(* on a rule, which dates a row stands for, what an edit of one session,   *)
(* of this and the following ones or of the whole series does to them, and *)
(* which dates the file that members import gives.                         *)
(* src/capabilities/calendar/{recurrence,ics,store,source}.ts.             *)
(*                                                                         *)
(* An instant is a slot; a day has DayLen slots.  Day 0 is a Monday and    *)
(* the first of the first month.  Each tool call writes without an await.  *)
(***************************************************************************)
EXTENDS Integers, Sequences, FiniteSets, FiniteSetsExt

CONSTANTS
  DayLen,
  MonthLengths,   \* the months the model looks at
  Rules,          \* the rhythms asked for
  Starts,         \* the starts asked for
  Lengths,        \* the durations asked for
  Bounds,         \* the recurrence_counts asked for
  Picked,         \* the days whose session an edit names
  RowIds,
  MaxSeriesEdits  \* bound on the calls that write

VARIABLES
  rows,           \* calendar_events with their calendar_event_overrides
  edits,          \* what is left of MaxSeriesEdits
  call            \* history: the last call that wrote

seriesVars == <<rows, edits, call>>

Vacant == [kind |-> "none"]
OneOff == [freq |-> "never", every |-> 1, days |-> {}, mode |-> "date"]
AnyRule == [freq : {"never", "daily", "weekly", "monthly"}, every : Nat \ {0},
            days : SUBSET (0..6), mode : {"date", "nth", "last"}]

ASSUME SeriesAssumption ==
  /\ DayLen \in Nat \ {0}
  /\ MonthLengths \in Seq(28..31) /\ MonthLengths # <<>>
  /\ Rules \subseteq AnyRule

-----------------------------------------------------------------------------
(* Days, weeks and months.                                                 *)

MonthStart[m \in 1..Len(MonthLengths) + 1] ==
  IF m = 1 THEN 0 ELSE MonthStart[m - 1] + MonthLengths[m - 1]

LastDay == MonthStart[Len(MonthLengths) + 1] - 1
NoEnd == (LastDay + 1) * DayLen            \* past everything looked at
Instants == 0..NoEnd - 1

DayOf(t) == t \div DayLen
WeekdayOf(d) == d % 7
MonthOf(d) == Max({m \in 1..Len(MonthLengths) : MonthStart[m] <= d})
DateOf(d) == d - MonthStart[MonthOf(d)] + 1
Ahead(d, weekday) == (weekday - WeekdayOf(d)) % 7

\* The instant at the time of day of base on the given date of month m.
On(base, m, date) == ((MonthStart[m] + date - 1) * DayLen) + (base % DayLen)

-----------------------------------------------------------------------------
(* The rhythm: recurrence.ts.                                              *)

StepMonths(base, m) == On(base, m, Min({DateOf(DayOf(base)), MonthLengths[m]}))

StepMonthsByWeekday(base, m, mode) ==
  LET dow == WeekdayOf(DayOf(base))
      last == MonthStart[m + 1] - 1
      nth == Min({4, (DateOf(DayOf(base)) + 6) \div 7})
  IN On(base, m, IF mode = "last"
                 THEN MonthLengths[m] - ((WeekdayOf(last) - dow) % 7)
                 ELSE 1 + Ahead(MonthStart[m], dow) + (nth - 1) * 7)

WeeklyOffsets(base, days) == {0} \cup {Ahead(DayOf(base), d) : d \in days}

Nth(base, r, n) ==
  LET m == MonthOf(DayOf(base)) + n * r.every IN
  CASE n = 0 \/ r.freq = "never" -> base
    [] n > 0 /\ r.freq = "daily" -> base + n * r.every * DayLen
    [] n > 0 /\ r.freq = "weekly" ->
         LET offsets == WeeklyOffsets(base, r.days)
             k == Cardinality(offsets)
             slot == CHOOSE o \in offsets :
                       Cardinality({x \in offsets : x < o}) = n % k
         IN base + ((n \div k) * 7 * r.every + slot) * DayLen
    [] n > 0 /\ r.freq = "monthly" ->
         IF m > Len(MonthLengths) THEN NoEnd
         ELSE IF r.mode = "date" THEN StepMonths(base, m)
         ELSE StepMonthsByWeekday(base, m, r.mode)

IsLastWeekday(d) == DateOf(d) + 7 > MonthLengths[MonthOf(d)]

\* The rule as it is stored and the start moved onto it.
NormalizedRule(start, r) ==
  [r EXCEPT !.days = IF r.freq = "weekly" /\ Cardinality(@) > 1 THEN @ ELSE {},
            !.mode = IF r.freq # "monthly" THEN "date"
                     ELSE IF @ = "nth" /\ DateOf(DayOf(start)) > 28 THEN "last" ELSE @]

NormalizedStart(start, r) ==
  LET d == DayOf(start)
      mode == NormalizedRule(start, r).mode
      shift == IF r.freq = "weekly" /\ r.days # {}
               THEN Min({Ahead(d, x) : x \in r.days})
               ELSE IF mode = "last"
               THEN 7 * Min({k \in 0..4 : d + 7 * k <= LastDay /\ IsLastWeekday(d + 7 * k)})
               ELSE 0
  IN start + shift * DayLen

UntilFromCount(start, r, count) == Nth(start, r, count - 1)

Within(row, t) == t <= row.until /\ t < NoEnd

\* The dates of the rule: expandOccurrences before the overrides.
Anchors(row) ==
  IF row.rule.freq = "never" THEN {row.start}
  ELSE {t \in {Nth(row.start, row.rule, n) : n \in 0..LastDay} : Within(row, t)}

Overridden(row, t) == \E o \in row.overrides : o.at = t
OverrideOf(row, t) == CHOOSE o \in row.overrides : o.at = t

\* The sessions on some dates of the rule, in the board's eyes: expandOccurrences.
\* A one-off has no overrides.
SessionsOn(row, dates) ==
  IF row.rule.freq = "never" THEN {[start |-> row.start, end |-> row.end]}
  ELSE {LET o == IF Overridden(row, t) THEN OverrideOf(row, t) ELSE [at |-> t, moved |-> t]
            end == IF row.end = NoEnd THEN NoEnd ELSE o.moved + (row.end - row.start)
        IN [start |-> o.moved, end |-> end] :
          t \in {x \in dates : Overridden(row, x) => OverrideOf(row, x).moved # NoEnd}}

Board(row) == {s.start : s \in SessionsOn(row, Anchors(row))}

-----------------------------------------------------------------------------
(* The file.  What a calendar client makes of the RRULE is RFC 5545's.     *)

\* RFC 5545: an interval of weeks counts weeks that begin on Monday; a date
\* that a month lacks is skipped; the start is always an instance.
ClientDates(row) ==
  LET r == row.rule
      d0 == DayOf(row.start)
      days == IF r.days = {} THEN {WeekdayOf(d0)} ELSE r.days
      months(d) == MonthOf(d) - MonthOf(d0)
      fits(d) ==
        CASE r.freq = "daily" -> (d - d0) % r.every = 0
          [] r.freq = "weekly" ->
               /\ WeekdayOf(d) \in days
               /\ (d \div 7 - d0 \div 7) % r.every = 0
          [] r.freq = "monthly" ->
               /\ months(d) % r.every = 0
               /\ IF r.mode = "date" THEN DateOf(d) = DateOf(d0)
                  ELSE /\ WeekdayOf(d) = WeekdayOf(d0)
                       /\ IF r.mode = "last" THEN IsLastWeekday(d)
                          ELSE (DateOf(d) + 6) \div 7 = (DateOf(d0) + 6) \div 7
  IN IF r.freq = "never" THEN {row.start}
     ELSE {row.start} \cup
          {t \in {(d * DayLen) + (row.start % DayLen) : d \in {x \in d0..LastDay : fits(x)}} :
             t <= row.until}

\* buildCalendar: a cancelled session is excluded from a series; every other
\* override is an instance of its own in place of the date it is kept under.
File(row) ==
  LET cancelled == {o.at : o \in {x \in row.overrides : x.moved = NoEnd}}
      moved == {x \in row.overrides : x.moved # NoEnd}
  IN ((ClientDates(row) \ {o.at : o \in moved})
        \ (IF row.rule.freq = "never" THEN {} ELSE cancelled))
     \cup {o.moved : o \in moved}

-----------------------------------------------------------------------------
(* The tool's calls: source.ts over store.ts.                              *)

\* What the call was for: its row and, if there is one, the row it made; the
\* day it named and the number of sessions.
Calls(op, ids, day, count) ==
  /\ edits > 0 /\ edits' = edits - 1
  /\ call' = [op |-> op, ids |-> ids, day |-> day, count |-> count]

Stored(id) == rows[id].kind = "row"
Ids == {id \in RowIds : Stored(id)}
FreeId(id) == id \in RowIds /\ ~Stored(id)
Recurs(id) == Stored(id) /\ rows[id].rule.freq # "never"

NewRow(start, end, r, until) ==
  [kind |-> "row", start |-> start, end |-> end, rule |-> r, until |-> until,
   overrides |-> {}]

EndAt(start, length) == IF length = 0 THEN NoEnd ELSE start + length

\* A count of one is a single date; 0 stands for no bound.
Rhythm(start, r, count) ==
  [rule  |-> IF count = 1 THEN OneOff ELSE r,
   until |-> IF count \in {0, 1} \/ r.freq = "never" THEN NoEnd
             ELSE UntilFromCount(start, r, count)]

CountedFrom(start, r) == NormalizedStart(start, r)

Fresh(asked, length, wanted, count) ==
  LET start == NormalizedStart(asked, wanted)
      rhythm == Rhythm(CountedFrom(asked, wanted), NormalizedRule(asked, wanted), count)
  IN NewRow(start, EndAt(start, length), rhythm.rule, rhythm.until)

\* handleCreate refuses a session of the same title that the calendar has already:
\* the rows here have one title.
Create(id, asked, length, wanted, count) ==
  LET row == Fresh(asked, length, wanted, count) IN
  /\ Calls("create", {id}, 0, count)
  /\ FreeId(id)
  /\ count # 0 => wanted.freq # "never"
  /\ \A other \in Ids : row.start \notin Board(rows[other])
  /\ rows' = [rows EXCEPT ![id] = row]

\* resolveOccurrence: the date of the rule, before overrides, on that day.
SessionOf(id, day, t) == t \in Anchors(rows[id]) /\ DayOf(t) = day

WithOverride(row, t, moved) ==
  [row EXCEPT !.overrides = {o \in @ : o.at # t} \cup {[at |-> t, moved |-> moved]}]

\* One session gets another time of its day, or another theme only.
UpdateOccurrence(id, day, slot) ==
  /\ Calls("session", {id}, day, 0)
  /\ Recurs(id)
  /\ \E t \in Anchors(rows[id]) :
       /\ SessionOf(id, day, t)
       /\ rows' = [rows EXCEPT ![id] = WithOverride(@, t, day * DayLen + slot)]

DeleteOccurrence(id, day) ==
  /\ Calls("session", {id}, day, 0)
  /\ Recurs(id)
  /\ \E t \in Anchors(rows[id]) :
       /\ SessionOf(id, day, t)
       /\ rows' = [rows EXCEPT ![id] = WithOverride(@, t, NoEnd)]

\* update recurrence_until and clearOverridesFrom.
Truncated(row, t) ==
  [row EXCEPT !.until = t - 1, !.overrides = {o \in @ : o.at < t}]

DeleteFollowing(id, day) ==
  /\ Calls("following", {id}, day, 0)
  /\ Recurs(id)
  /\ \E t \in Anchors(rows[id]) :
       /\ SessionOf(id, day, t) /\ t > rows[id].start
       /\ rows' = [rows EXCEPT ![id] = Truncated(@, t)]

\* The new series has the rule and the cut-off of the old one; without a start
\* of its own it also gets the old one's end, as it stands.
SplitEnd(row, start, retimed) ==
  IF retimed /\ row.end # NoEnd THEN start + (row.end - row.start) ELSE row.end

UpdateFollowing(id, new, day, slot) ==
  /\ Calls("following", {id, new}, day, 0)
  /\ Recurs(id) /\ FreeId(new)
  /\ \E t \in Anchors(rows[id]) :
       LET retimed == slot # t % DayLen
           start == day * DayLen + slot
       IN
       /\ SessionOf(id, day, t) /\ t > rows[id].start
       /\ rows' = [rows EXCEPT
            ![id] = Truncated(@, t),
            ![new] = NewRow(start, SplitEnd(rows[id], start, retimed),
                            rows[id].rule, rows[id].until)]

\* The call also names a title that is refused, which is only found out after
\* the old series was ended.
UpdateFollowingRefused(id, day) ==
  /\ Calls("following", {id}, day, 0)
  /\ Recurs(id)
  /\ \E t \in Anchors(rows[id]) :
       /\ SessionOf(id, day, t) /\ t > rows[id].start
       /\ rows' = [rows EXCEPT ![id] = Truncated(@, t)]

\* Altered: a series that is moved keeps its overrides.
KeepsOverridesAlways(moves) == TRUE

\* A new start or rule drops the overrides; a new bound does not.
KeepsOverrides(moves) == ~moves

\* A new start, a new rule or a new bound for the whole series.
UpdateSeries(id, start, r, count) ==
  LET row == rows[id]
      moves == start # row.start \/ r # row.rule
      from == IF moves THEN NormalizedStart(start, r) ELSE start
      rule == IF moves THEN NormalizedRule(start, r) ELSE r
      rhythm == Rhythm(from, rule, count)
  IN
  /\ Calls("series", {id}, 0, count)
  /\ Stored(id)
  /\ moves \/ count # 0
  /\ count # 0 => rule.freq # "never"
  /\ rows' = [rows EXCEPT ![id] =
       [row EXCEPT !.start = from, !.rule = rhythm.rule,
                   !.until = IF count # 0 \/ rule.freq = "never" THEN rhythm.until ELSE @,
                   !.overrides = IF KeepsOverrides(moves) THEN @ ELSE {}]]

DeleteSeries(id) ==
  /\ Calls("series", {id}, 0, 0)
  /\ Stored(id)
  /\ rows' = [rows EXCEPT ![id] = Vacant]

\* The calendar is empty or has a series.
SeriesInit ==
  /\ \/ rows = [id \in RowIds |-> Vacant]
     \/ \E start \in Starts, length \in Lengths, r \in Rules \ {OneOff}, count \in Bounds :
          rows = [[id \in RowIds |-> Vacant] EXCEPT
                    ![CHOOSE id \in RowIds : TRUE] = Fresh(start, length, r, count)]
  /\ edits = MaxSeriesEdits
  /\ call = [op |-> "none", ids |-> {}, day |-> 0, count |-> 0]

EditSession(id, day) ==
  \/ \E slot \in 0..DayLen - 1 : UpdateOccurrence(id, day, slot)
  \/ DeleteOccurrence(id, day)

EditFollowing(id, day) ==
  \/ \E new \in RowIds, slot \in 0..DayLen - 1 : UpdateFollowing(id, new, day, slot)
  \/ UpdateFollowingRefused(id, day)
  \/ DeleteFollowing(id, day)

\* The console writes the fields it is given, with plain frequencies only: it
\* neither puts the start on the rhythm nor drops overrides.
ConsoleUpdate(id, start, freq) ==
  LET row == rows[id] IN
  /\ Calls("console", {id}, 0, 0)
  /\ Stored(id)
  /\ rows' = [rows EXCEPT ![id] =
       [row EXCEPT !.start = start,
                   !.rule = IF row.rule.freq = freq THEN row.rule
                            ELSE [OneOff EXCEPT !.freq = freq]]]

SeriesNext ==
  \E id \in RowIds :
    \/ \E start \in Starts, length \in Lengths, r \in Rules, count \in Bounds :
         Create(id, start, length, r, count)
    \/ \E day \in Picked : EditSession(id, day) \/ EditFollowing(id, day)
    \/ \E start \in Starts \cup {rows[i].start : i \in {id} \cap Ids},
          r \in Rules \cup {rows[i].rule : i \in {id} \cap Ids}, count \in Bounds :
         UpdateSeries(id, start, r, count)
    \/ DeleteSeries(id)
    \/ \E start \in Starts, freq \in {"never", "weekly"} : ConsoleUpdate(id, start, freq)

SeriesSpec == SeriesInit /\ [][SeriesNext]_seriesVars

-----------------------------------------------------------------------------
(* Properties.                                                             *)

\* The overrides of a series are kept under dates of its rhythm.
OnRhythm(row) ==
  row.rule.freq # "never" =>
    \A o \in row.overrides :
      o.at < NoEnd /\ \E n \in 0..LastDay : o.at = Nth(row.start, row.rule, n)

\* The rows whose rule means the same dates to both: a start in the days looked at
\* and on the rule, which the cut-off has not passed, and weeks that are counted
\* alike.  The calendar counts them from the start and the clients from Monday, so
\* that a fortnight of several weekdays must start on the first of them in its week.
CountedAlike(row) ==
  LET r == row.rule IN
  /\ row.start \in Instants /\ row.start <= row.until
  /\ r = NormalizedRule(row.start, r) /\ row.start = NormalizedStart(row.start, r)
  /\ r.freq = "weekly" /\ r.every # 1 =>
       \A day \in r.days : WeekdayOf(DayOf(row.start)) <= day

\* What the board draws and the file leaves out: the last day of the months that
\* lack the date, where no edit put a session of its own.
Shortened(row) ==
  {t \in Anchors(row) :
     /\ row.rule.freq = "monthly" /\ row.rule.mode = "date"
     /\ DateOf(DayOf(t)) # DateOf(DayOf(row.start)) /\ ~Overridden(row, t)}

\* What the file has and the board does not draw: sessions that were moved from a
\* date that the series no longer has, past a cut-off that was brought forward
\* (calendar_update_event drops no overrides for a new bound) or off a rule that
\* the console changed.
Astray(row) ==
  {o.moved : o \in {x \in row.overrides : x.moved # NoEnd /\ x.at \notin Anchors(row)}}

\* The file that members import has the sessions that the board draws, but for
\* those two sets, which are exact: two expansions of the rule, one written here
\* and one by calendar clients, with the cut-off inclusive in both, and with the
\* sessions that were moved or cancelled.  Left out: rules that are not
\* CountedAlike, and one-offs that kept the overrides of the series they were.
FileAgrees ==
  \A id \in Ids :
    LET row == rows[id] IN
    CountedAlike(row) /\ (row.rule.freq = "never" => row.overrides = {}) =>
      File(row) = {x.start : x \in SessionsOn(row, Anchors(row) \ Shortened(row))} \cup Astray(row)

\* No call of the calendar's tool leaves an override under a date that its
\* series does not have, where it would never be seen on the board again.
OverridesStayOnRhythm ==
  call'.op # "console" =>
    \A id \in Ids : OnRhythm(rows[id]) /\ Stored(id)' => OnRhythm(rows'[id])

\* Both together: what was moved or cancelled is shown so, here and in the file,
\* with the two kinds of differences that FileAgrees names and no other.
SeriesReadAlike == []FileAgrees /\ [][OverridesStayOnRhythm]_seriesVars

\* An edit of this and the following sessions leaves a session on every day
\* that had one: the old series has the earlier ones and the new one the rest.
SplitKeepsDays ==
  [][call'.op = "following" /\ Cardinality(call'.ids) = 2 =>
       \A id \in call'.ids \cap Ids :
         {DayOf(t) : t \in Anchors(rows[id])} \subseteq
           {DayOf(t) : t \in UNION {Anchors(rows'[i]) : i \in call'.ids}}]_seriesVars

\* What the comment of rruleFor says: the file must describe the same dates that
\* the board draws, every modifier having a direct spelling; its first example is
\* the fortnight of two weekdays, INTERVAL=2 with BYDAY (ics.ts).  Here for rows as
\* they were made, on their rule and with nothing moved: for a fortnight that
\* starts on the later weekday of its week it is violated.
FileSpellsBoard ==
  \A id \in Ids :
    LET row == rows[id] IN
    /\ row.start \in Instants /\ row.start <= row.until /\ row.overrides = {}
    /\ row.rule = NormalizedRule(row.start, row.rule)
    /\ row.start = NormalizedStart(row.start, row.rule)
    /\ row.rule.freq = "weekly" /\ Cardinality(row.rule.days) = 2
    => File(row) = Board(row)
=============================================================================
