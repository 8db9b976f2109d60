-------------------------------- MODULE Cron --------------------------------
(* CronParser and ScheduleConfig of lib/jobs.py: the sets that the fields of  *)
(* an expression denote, the search for the next run, which moves a wall      *)
(* clock forward by years, months, days, hours and minutes, and the time      *)
(* zone around it. The calendar is a parameter, so that a small one will do.  *)
EXTENDS Naturals, Sequences, FiniteSets, FiniteSetsExt

CONSTANTS
  MonthDays,      \* MonthDays[m]: the days of month m; 12 months of 28 to 31 days
  HoursPerDay,    \* 24
  MinutesPerHour, \* 60
  YearSpan,       \* the years of the year field, from 1: 1970..2099
  EndOfTime,      \* datetime.max.year, counted likewise
  SearchLimit,    \* max_iterations
  Expressions,    \* the expressions searched: [minute, hour, day, month, weekday, year]
  Starts,         \* the minutes after which to search
  Zones           \* [at, back, forward]: at minute `at` the clock goes back or forward

ASSUME CronAssumption ==
  /\ MonthDays \in Seq(Nat \ {0}) /\ MonthDays # <<>>
  /\ HoursPerDay \in Nat \ {0} /\ MinutesPerHour \in Nat \ {0}
  /\ YearSpan \in Nat /\ EndOfTime \in Nat /\ SearchLimit \in Nat
  /\ Starts \subseteq Nat /\ Zones \subseteq [turn : {"none", "back", "forward"}, at : Nat]

\* From the first of a month the days of the longest month and one more, 32, lead into the
\* month after, which get_next_run relies on.
ASSUME CalendarAssumption ==
  \A m, l \in DOMAIN MonthDays :
    MonthDays[l] + 1 < MonthDays[m] + MonthDays[IF m = Len(MonthDays) THEN 1 ELSE m + 1]

VARIABLES
  expression,     \* the expression and
  zone,           \* the time zone of the search
  after,          \* the moment after which it looks, in minutes of UTC
  current,        \* the wall clock it has come to
  steps,          \* iterations made
  outcome         \* "searching", "found", or how it failed

cronVars == <<expression, zone, after, current, steps, outcome>>

----------------------------------------------------------------------------
(* Fields. A part of a field is a value, a range a-b, or one of these, or all *)
(* values, with a step; names of months and weekdays are the values they      *)
(* stand for.                                                                 *)
Value(v) == [form |-> "value", from |-> v, to |-> v, step |-> 1]
Span(a, b, n) == [form |-> "range", from |-> a, to |-> b, step |-> n]
Every(n) == [form |-> "every", from |-> 0, to |-> 0, step |-> n]
FromEvery(a, n) == [form |-> "from", from |-> a, to |-> a, step |-> n]
AnyValue == <<>>                       \* the whole field is * or ?

LowOf(type) == IF type \in {"day", "month", "year"} THEN 1 ELSE 0
HighOf(type) == CASE type = "minute" -> MinutesPerHour - 1
                  [] type = "hour" -> HoursPerDay - 1
                  [] type = "day" -> Max({MonthDays[i] : i \in DOMAIN MonthDays})
                  [] type = "month" -> Len(MonthDays)
                  [] type = "weekday" -> 7
                  [] type = "year" -> YearSpan
Allowed(type) == LowOf(type)..HighOf(type)

\* Only a value by itself has 7 read as Sunday, and only there is out of range an error:
\* ranges and steps are clamped, and may leave nothing.
PartValid(part, type) ==
  CASE part.form = "value" -> part.from \in Allowed(type)
    [] part.form = "range" -> part.from <= part.to /\ part.step > 0
    [] OTHER -> part.step > 0
PartValues(part, type) ==
  CASE part.form = "value" -> {IF type = "weekday" /\ part.from = 7 THEN 0 ELSE part.from}
    [] part.form = "every" -> {v \in Allowed(type) : (v - LowOf(type)) % part.step = 0}
    [] OTHER ->
         LET first == Max({part.from, LowOf(type)})
             last == IF part.form = "range" THEN part.to ELSE HighOf(type)
         IN {v \in Allowed(type) : v >= first /\ v <= last /\ (v - first) % part.step = 0}

Field(type) == expression[type]
FieldValues(type) ==
  IF Field(type) = AnyValue THEN Allowed(type)
  ELSE UNION {PartValues(Field(type)[i], type) : i \in DOMAIN Field(type)}

\* CronParser.__init__ raises ValueError for any other expression.
FieldTypes == {"minute", "hour", "day", "month", "weekday", "year"}
Valid(e) == \A type \in FieldTypes : \A i \in DOMAIN e[type] : PartValid(e[type][i], type)

----------------------------------------------------------------------------
(* The calendar. Moment 0 is 00:00 of the first day, a Monday, which Python's  *)
(* weekday() numbers 0.                                                        *)
PerDay == HoursPerDay * MinutesPerHour
DaysBefore[m \in 1..(Len(MonthDays) + 1)] ==
  IF m = 1 THEN 0 ELSE DaysBefore[m - 1] + MonthDays[m - 1]
PerYear == DaysBefore[Len(MonthDays) + 1] * PerDay

Year(t) == 1 + t \div PerYear
DayOfYear(t) == (t % PerYear) \div PerDay
Month(t) == CHOOSE m \in DOMAIN MonthDays :
              DaysBefore[m] <= DayOfYear(t) /\ DayOfYear(t) < DaysBefore[m + 1]
Day(t) == 1 + DayOfYear(t) - DaysBefore[Month(t)]
Weekday(t) == (t \div PerDay) % 7
Hour(t) == (t % PerDay) \div MinutesPerHour
Minute(t) == t % MinutesPerHour

StartOfDay(t) == t - (t % PerDay)
StartOfHour(t) == t - (t % MinutesPerHour)
StartOfMonth(t) == StartOfDay(t) - (Day(t) - 1) * PerDay

\* An empty set of years, like *, restricts nothing.
YearMatches(t) == Field("year") = AnyValue \/ FieldValues("year") = {} \/ Year(t) \in FieldValues("year")
MonthMatches(t) == Month(t) \in FieldValues("month")
DayMatches(t) ==
  LET day == Field("day") = AnyValue \/ Day(t) \in FieldValues("day")
      weekday == Field("weekday") = AnyValue \/ Weekday(t) \in FieldValues("weekday")
  IN IF Field("day") # AnyValue /\ Field("weekday") # AnyValue THEN day \/ weekday ELSE day /\ weekday
HourMatches(t) == Hour(t) \in FieldValues("hour")
MinuteMatches(t) == Minute(t) \in FieldValues("minute")

----------------------------------------------------------------------------
(* The time zone: the hour before zone.at is repeated where the clock goes     *)
(* back, and the hour after it is skipped where it goes forward. A wall time   *)
(* that occurs twice is read as the first one (fold = 0).                      *)
ZoneHour == MinutesPerHour
ToWall(t) ==
  CASE zone.turn = "back" -> IF t < zone.at THEN t + ZoneHour ELSE t
    [] zone.turn = "forward" -> IF t < zone.at THEN t ELSE t + ZoneHour
    [] OTHER -> t

\* Mutant of ToUtc: a time in the skipped hour is read with the offset after it.
ToUtcEarly(w) ==
  CASE zone.turn = "back" -> IF w < zone.at + ZoneHour THEN w - ZoneHour ELSE w
    [] zone.turn = "forward" -> IF w < zone.at THEN w ELSE w - ZoneHour
    [] OTHER -> w

ToUtc(w) ==
  CASE zone.turn = "back" -> IF w < zone.at + ZoneHour THEN w - ZoneHour ELSE w
    [] zone.turn = "forward" -> IF w < zone.at + ZoneHour THEN w ELSE w - ZoneHour
    [] OTHER -> w
NextRun == ToUtc(current)

CronTypeOK ==
  /\ Valid(expression) /\ zone \in Zones
  /\ after \in Nat /\ current \in Nat
  /\ steps \in 0..SearchLimit
  /\ outcome \in {"searching", "found", "noYear", "overflow", "exhausted"}

CronInit ==
  /\ expression \in {e \in Expressions : Valid(e)}
  /\ zone \in Zones
  /\ after \in Starts
  /\ current = ToWall(after) + 1
  /\ steps = 0
  /\ outcome = "searching"

Iterate == outcome = "searching" /\ steps < SearchLimit
MoveOn(t) ==
  /\ steps' = steps + 1
  /\ outcome' = IF Year(t) > EndOfTime THEN "overflow" ELSE "searching"
  /\ current' = IF Year(t) > EndOfTime THEN current ELSE t
  /\ UNCHANGED <<expression, zone, after>>
StopAt(result) ==
  /\ steps' = steps + 1
  /\ outcome' = result
  /\ UNCHANGED <<expression, zone, after, current>>

\* min() of no year raises ValueError
NextYear ==
  /\ Iterate /\ ~YearMatches(current)
  /\ LET later == {y \in FieldValues("year") : y > Year(current)}
     IN IF later = {} THEN StopAt("noYear") ELSE MoveOn((Min(later) - 1) * PerYear)

\* Mutant of FirstOfNextMonth: without going back to the first day.
MonthLater(t) == StartOfMonth(t) + (HighOf("day") + 1) * PerDay

\* The first of the month, 32 days on, and back to the first
FirstOfNextMonth(t) == StartOfMonth(StartOfMonth(t) + (HighOf("day") + 1) * PerDay)

NextMonth ==
  /\ Iterate /\ YearMatches(current) /\ ~MonthMatches(current)
  /\ MoveOn(FirstOfNextMonth(current))

NextDay ==
  /\ Iterate /\ YearMatches(current) /\ MonthMatches(current) /\ ~DayMatches(current)
  /\ MoveOn(StartOfDay(current) + PerDay)

OnDay == Iterate /\ YearMatches(current) /\ MonthMatches(current) /\ DayMatches(current)

NextHour ==
  /\ OnDay /\ ~HourMatches(current)
  /\ MoveOn(StartOfHour(current) + MinutesPerHour)

NextMinute ==
  /\ OnDay /\ HourMatches(current) /\ ~MinuteMatches(current)
  /\ MoveOn(current + 1)

Found ==
  /\ OnDay /\ HourMatches(current) /\ MinuteMatches(current)
  /\ StopAt("found")

Exhaust ==
  /\ outcome = "searching" /\ steps = SearchLimit
  /\ outcome' = "exhausted"
  /\ UNCHANGED <<expression, zone, after, current, steps>>

CronNext == NextYear \/ NextMonth \/ NextDay \/ NextHour \/ NextMinute \/ Found \/ Exhaust
CronSpec == CronInit /\ [][CronNext]_cronVars

----------------------------------------------------------------------------
Matches(t) == YearMatches(t) /\ MonthMatches(t) /\ DayMatches(t)
                /\ HourMatches(t) /\ MinuteMatches(t)

\* get_next_run returns the first matching minute after the given one on the wall clock: no
\* jump of a year, a month, a day or an hour passes over a match. It gives up for want of a
\* year or past the end of time only when no match is left, and for its limit of iterations
\* only when none is within that many minutes.
NextRunIsFirst ==
  /\ \A t \in (ToWall(after) + 1)..(current - 1) : ~Matches(t)
  /\ outcome = "found" => Matches(current)
  /\ outcome \in {"noYear", "overflow"} => \A t \in current..(EndOfTime * PerYear - 1) : ~Matches(t)
  /\ outcome = "exhausted" => current > ToWall(after) + SearchLimit

\* The next run of a schedule is later than the moment it is computed from, through the
\* skipped hour too, except when that moment lies in the second pass of a repeated hour.
Repeated(t) == zone.turn = "back" /\ t \in zone.at..(zone.at + ZoneHour - 1)
NextRunIsLater == outcome = "found" /\ ~Repeated(after) => NextRun > after

=============================================================================
