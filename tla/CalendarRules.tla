---------------------------- MODULE CalendarRules ----------------------------
(* The calendar's arithmetic, which the store and the views use without state: *)
(* the dates of a recurring event inside a window, found without walking from *)
(* its start, the built-in holidays, the six-week page of a month, the days a  *)
(* question asks about, and the editor that opens a date of a series and reads *)
(* it back.  A date is <<year, month, day>>; ordinals count days as the library *)
(* does.                                                                      *)
(* The state machine only puts one question and records its answer.           *)
EXTENDS Integers, FiniteSets, Sequences, TLC

CONSTANTS Starts,    \* first dates of the events asked about
          Counts,    \* their counts, 0 for a series without one
          Ends,      \* their last dates, <<>> for a series without one
          Exclusions, \* the ordinals taken from them
          Windows,   \* <<first date, last date>> of the range asked for
          Years,     \* the years whose pages are asked for, and of all dates
          HolidayYears

VARIABLES query, reply

rulesVars == <<query, reply>>

-----------------------------------------------------------------------------
(* The library's dates *)

Monday == 0
Thursday == 3
Sunday == 6
Leap(y) == y % 4 = 0 /\ (y % 100 # 0 \/ y % 400 = 0)
MonthDays(y, m) == IF m = 2 THEN IF Leap(y) THEN 29 ELSE 28 ELSE IF m \in {4, 6, 9, 11} THEN 30 ELSE 31
DaysBefore == <<0, 31, 59, 90, 120, 151, 181, 212, 243, 273, 304, 334>>
LeapsBefore(y) == (y - 1) \div 4 - (y - 1) \div 100 + (y - 1) \div 400
Ordinal(x) ==
    (x[1] - 1) * 365 + LeapsBefore(x[1]) + DaysBefore[x[2]] + (IF x[2] > 2 /\ Leap(x[1]) THEN 1 ELSE 0) + x[3]
Weekday(n) == (n + 6) % 7
Least(S) == CHOOSE x \in S : \A y \in S : x <= y

-----------------------------------------------------------------------------
(* calendar_store: the dates of one event in a window *)

\* RecurrenceRule: what the store accepts, 0 standing for no count
ValidRule(r) ==
    /\ r.frequency \in {"none", "weekly", "monthly", "yearly"} /\ r.overflow \in {"last_day", "skip"}
    /\ r.weekdays \subseteq 0..6 /\ (r.weekdays # {} => r.frequency = "weekly")
    /\ r.count \in Nat

Weekdays(e) == IF e.weekdays = {} THEN {Weekday(Ordinal(e.start))} ELSE e.weekdays

\* from the first matching weekday, step by step to the next one
WeeklyDates(e, cursor, end) ==
    LET first == cursor + Least({(w - Weekday(cursor)) % 7 : w \in Weekdays(e)})
        step(n) == Least({IF w = Weekday(n) THEN 7 ELSE (w - Weekday(n)) % 7 : w \in Weekdays(e)})
        from[n \in Nat] == IF n > end THEN {} ELSE {n} \union from[n + step(n)]
    IN from[first]

\* a day the month does not have becomes its last day, or the month is skipped
InMonth(e, y, m) ==
    LET on(d) == {<< Ordinal(<< y, m, d >>), y, m >>} IN
    IF e.start[3] <= MonthDays(y, m) THEN on(e.start[3])
    ELSE IF e.overflow = "last_day" THEN on(MonthDays(y, m)) ELSE {}

MonthlyDates(e, from, until) ==
    UNION {InMonth(e, i \div 12, (i % 12) + 1) : i \in from[1] * 12 + from[2] - 1..until[1] * 12 + until[2] - 1}
YearlyDates(e, from, until) == UNION {InMonth(e, y, e.start[2]) : y \in from[1]..until[1]}

\* _recurrence_candidates, each with its year and month
Candidates(e, from, until) ==
    LET cursor == IF Ordinal(from) >= Ordinal(e.start) THEN from ELSE e.start
        range == Ordinal(cursor)..Ordinal(until)
        found ==
          CASE e.frequency = "none" -> InMonth(e, e.start[1], e.start[2])
            [] e.frequency = "weekly" -> {<<n, 0, 0>> : n \in WeeklyDates(e, Ordinal(cursor), Ordinal(until))}
            [] e.frequency = "monthly" -> MonthlyDates(e, cursor, until)
            [] e.frequency = "yearly" -> YearlyDates(e, cursor, until)
    IN IF range = {} THEN {} ELSE {c \in found : c[1] \in range}

\* how many years of a span hold a month, and how many of them are leap years
SpanYears(e, c, m) == (e.start[1] + (IF e.start[2] > m THEN 1 ELSE 0))..(c[2] - (IF c[3] < m THEN 1 ELSE 0))
LeapYears(years) == Cardinality({y \in years : Leap(y)})

\* _occurrence_ordinal: which date of its series a candidate is, by counting
\* the months without the day instead of the dates
WeeklyNth(e, c) ==
    LET elapsed == c[1] - Ordinal(e.start) IN
    (elapsed \div 7) * Cardinality(Weekdays(e))
    + Cardinality({o \in 0..elapsed % 7 : (Weekday(Ordinal(e.start)) + o) % 7 \in Weekdays(e)})
MonthlyNth(e, c) ==
    LET months == (c[2] - e.start[1]) * 12 + c[3] - e.start[2] + 1
        day == e.start[3]
        missed(m) == Cardinality(SpanYears(e, c, m))
    IN CASE e.overflow = "last_day" \/ day <= 28 -> months
         [] e.overflow = "skip" /\ day = 29 -> months - (missed(2) - LeapYears(SpanYears(e, c, 2)))
         [] e.overflow = "skip" /\ day = 30 -> months - missed(2)
         [] e.overflow = "skip" /\ day = 31 -> months - (missed(2) + missed(4) + missed(6) + missed(9) + missed(11))
YearlyNth(e, c) ==
    IF e.overflow = "skip" /\ e.start[2] = 2 /\ e.start[3] = 29
    THEN LeapYears(e.start[1]..c[2]) ELSE c[2] - e.start[1] + 1
NthOf(e, c) ==
    CASE e.frequency = "none" -> 1
      [] e.frequency = "weekly" -> WeeklyNth(e, c)
      [] e.frequency = "monthly" -> MonthlyNth(e, c)
      [] e.frequency = "yearly" -> YearlyNth(e, c)

\* occurrence_dates: the search ends at the first candidate past the count
OccurrenceDates(e, from, until) ==
    LET last == IF e.until = <<>> \/ Ordinal(until) <= Ordinal(e.until) THEN until ELSE e.until
        found == Candidates(e, from, last)
    IN {c[1] : c \in {x \in found : e.count = 0 \/ \A y \in found : y[1] <= x[1] => NthOf(e, y) <= e.count}}
       \ e.excluded

-----------------------------------------------------------------------------
(* Holidays and the page of a month *)

NthWeekday(y, m, w, nth) ==
    LET first == Ordinal(<<y, m, 1>>) IN first + ((w - Weekday(first)) % 7) + (nth - 1) * 7
LastWeekday(y, m, w) ==
    LET last == Ordinal(<<y, m, MonthDays(y, m)>>) IN last - ((Weekday(last) - w) % 7)

EasterSunday(y) ==
    LET a == y % 19
        b == y \div 100
        c == y % 100
        g == (b - (b + 8) \div 25 + 1) \div 3
        h == (19 * a + b - b \div 4 - g + 15) % 30
        ell == (32 + 2 * (b % 4) + 2 * (c \div 4) - h - (c % 4)) % 7
        m == (a + 11 * h + 22 * ell) \div 451
        n == h + ell - 7 * m + 114
    IN Ordinal(<<y, n \div 31, (n % 31) + 1>>)

\* built_in_us_holidays: the ones that move
MovingHolidays(y) ==
    [easter |-> EasterSunday(y), goodFriday |-> EasterSunday(y) - 2,
     mothersDay |-> NthWeekday(y, 5, Sunday, 2), memorialDay |-> LastWeekday(y, 5, Monday),
     fathersDay |-> NthWeekday(y, 6, Sunday, 3), columbusDay |-> NthWeekday(y, 10, Monday, 2),
     thanksgiving |-> NthWeekday(y, 11, Thursday, 4)]

\* _month_payload: whole weeks from a Monday, filled up to six of them
MonthPage(y, m) ==
    LET first == Ordinal(<<y, m, 1>>) - Weekday(Ordinal(<<y, m, 1>>)) IN first..first + 41

\* _year_payload: how many dates each month of the year has, from one look at the year
YearPage(e, y) ==
    LET found == OccurrenceDates(e, <<y, 1, 1>>, <<y, 12, 31>>) IN
    [m \in 1..12 |-> Cardinality({n \in found : n \in Ordinal(<<y, m, 1>>)..Ordinal(<<y, m, MonthDays(y, m)>>)})]

-----------------------------------------------------------------------------
(* The days a question asks about, and the editor of an event *)

DateOf(n) ==
    LET y == CHOOSE k \in Years : n \in Ordinal(<<k, 1, 1>>)..Ordinal(<<k, 12, 31>>)
        m == CHOOSE k \in 1..12 : n \in Ordinal(<<y, k, 1>>)..Ordinal(<<y, k, MonthDays(y, k)>>)
    IN <<y, m, n - Ordinal(<<y, m, 1>>) + 1>>

\* _request_range: first and last day of a named period
RequestRange(period, today) ==
    LET monday == today - Weekday(today)
        x == DateOf(today)
        weekend == IF monday + 5 < today THEN monday + 12 ELSE monday + 5
    IN CASE period = "today" -> <<today, today>>
         [] period = "tomorrow" -> <<today + 1, today + 1>>
         [] period = "this_week" -> <<monday, monday + 6>>
         [] period = "next_week" -> <<monday + 7, monday + 13>>
         [] period = "this_weekend" -> <<weekend, weekend + 1>>
         [] period = "this_month" -> <<Ordinal(<<x[1], x[2], 1>>), Ordinal(<<x[1], x[2], MonthDays(x[1], x[2])>>)>>

Periods == <<"next_week", "this_weekend", "this_week", "this_month", "tomorrow", "today">>

NamedDay(w, next, today) ==
    LET delta == (w - Weekday(today)) % 7 IN
    today + (IF next THEN IF delta # 0 THEN delta + 7 ELSE 7 ELSE delta)

\* _period_from_text: the first period said, in this order, or else the weekday
DaysAsked(said, w, next, today) ==
    IF said # {} THEN RequestRange(Periods[Least({i \in 1..Len(Periods) : Periods[i] \in said})], today)
    ELSE LET n == NamedDay(w, next, today) IN <<n, n>>

\* _to_view: one date of a series as the views know it
ToView(e, n) ==
    [date |-> DateOf(n), frequency |-> e.frequency, weekdays |-> e.weekdays, overflow |-> e.overflow,
     until |-> e.until, count |-> e.count]

\* _editor_payload: what the editor shows of the date it is opened on
EditorFields(v) ==
    [start |-> v.date, frequency |-> v.frequency, weekdays |-> v.weekdays, overflow |-> v.overflow,
     ends |-> IF v.until # <<>> THEN "date" ELSE IF v.count # 0 THEN "count" ELSE "never",
     until |-> v.until, count |-> IF v.until # <<>> THEN 0 ELSE v.count]

\* _parse_editor: the rule saved, {} when it is refused; the series begins on the editor's date
ParseEditor(f) ==
    LET repeats == f.frequency # "none"
        accepted ==
          CASE repeats /\ f.ends = "date" -> f.until # <<>> /\ Ordinal(f.until) >= Ordinal(f.start)
            [] repeats /\ f.ends = "count" -> f.count >= 1
            [] OTHER -> f.ends = "never"
    IN {r \in {[start |-> f.start, frequency |-> f.frequency, overflow |-> f.overflow,
                weekdays |-> IF f.frequency # "weekly" THEN {}
                             ELSE IF f.weekdays = {} THEN {Weekday(Ordinal(f.start))} ELSE f.weekdays,
                until |-> IF f.ends = "date" THEN f.until ELSE <<>>,
                count |-> IF f.ends = "count" THEN f.count ELSE 0]} : accepted}

-----------------------------------------------------------------------------
Event ==
    {e \in [start : Starts, frequency : {"none", "weekly", "monthly", "yearly"}, weekdays : {{}, {Monday, Thursday}},
            overflow : {"last_day", "skip"}, count : Counts, until : Ends, excluded : Exclusions] :
        /\ ValidRule(e)
        /\ e.overflow = "skip" => e.frequency \in {"monthly", "yearly"} /\ e.start[3] > 28}

RulesInit ==
    /\ reply = {}
    /\ \/ \E e \in Event, w \in Windows : query = <<"dates", e, w>>
       \/ \E y \in HolidayYears : query = <<"holidays", y>>
       \/ \E y \in Years, m \in 1..12 : query = <<"page", y, m>>
       \/ \E e \in Event, w \in Windows : query = <<"year", e, w[2][1]>>
       \/ \E w \in Windows : query = <<"ask", w>>
       \/ \E e \in Event, w \in Windows : query = <<"edit", e, w>>

AnswerDates == query[1] = "dates" /\ reply' = {OccurrenceDates(query[2], query[3][1], query[3][2])} /\ UNCHANGED query
AnswerHolidays == query[1] = "holidays" /\ reply' = {MovingHolidays(query[2])} /\ UNCHANGED query
AnswerYear == query[1] = "year" /\ reply' = {YearPage(query[2], query[3])} /\ UNCHANGED query
AnswerPage == query[1] = "page" /\ reply' = {MonthPage(query[2], query[3])} /\ UNCHANGED query


\* every way to name days, asked on one of the days of the window
AnswerAsked ==
    /\ query[1] = "ask" /\ reply = {}
    /\ \E today \in Ordinal(query[2][1])..Ordinal(query[2][2]), next \in BOOLEAN, w \in 0..6,
          said \in {{}} \union {{Periods[i]} : i \in 1..Len(Periods)} :
          /\ said # {} => w = 0 /\ ~next
          /\ reply' = {[today |-> today, said |-> said, day |-> w, next |-> next,
                        days |-> DaysAsked(said, w, next, today)]}
    /\ UNCHANGED query

\* the editor opened on each date of the window in turn, saved with each kind of end
AnswerEdited ==
    /\ query[1] = "edit"
    /\ reply' = UNION {{LET f == EditorFields(ToView(query[2], n)) IN
                          [date |-> n, ends |-> k, kept |-> f.ends = k, rule |-> ParseEditor([f EXCEPT !.ends = k])] :
                             n \in OccurrenceDates(query[2], query[3][1], query[3][2])} :
                               k \in {"never", "date", "count"}}
    /\ UNCHANGED query

RulesNext == AnswerDates \/ AnswerHolidays \/ AnswerYear \/ AnswerPage \/ AnswerAsked \/ AnswerEdited
RulesSpec == RulesInit /\ [][RulesNext]_rulesVars

-----------------------------------------------------------------------------
(* Properties, against the dates counted one by one *)

EveryDate == UNION {{<<y, m, d>> : d \in 1..MonthDays(y, m)} : <<y, m>> \in Years \X (1..12)}

\* what a rule means: the day itself, or the last day of a month without it
OnDay(e, x) ==
    \/ x[3] = e.start[3]
    \/ e.overflow = "last_day" /\ e.start[3] > x[3] /\ x[3] = MonthDays(x[1], x[2])
IsDate(e, x) ==
    /\ Ordinal(x) >= Ordinal(e.start)
    /\ CASE e.frequency = "none" -> x = e.start
         [] e.frequency = "weekly" -> Weekday(Ordinal(x)) \in Weekdays(e)
         [] e.frequency = "monthly" -> OnDay(e, x)
         [] e.frequency = "yearly" -> x[2] = e.start[2] /\ OnDay(e, x)

\* A window shows exactly the dates of the series that fall in it, the count
\* counting every date from the first one and the exclusions: found without
\* walking there from the start.
WindowIsExact ==
    \A found \in reply : query[1] = "dates" =>
        LET e == query[2]
            all == {Ordinal(x) : x \in {y \in EveryDate : IsDate(e, y)}}
            kept == IF e.until = <<>> THEN all ELSE {n \in all : n <= Ordinal(e.until)}
        IN found = {n \in kept \intersect (Ordinal(query[3][1])..Ordinal(query[3][2])) :
                        e.count = 0 \/ Cardinality({k \in all : k <= n}) <= e.count} \ e.excluded

\* the day of the ecclesiastical full moon, by the epact
PaschalMoon(y) ==
    LET golden == (y % 19) + 1
        century == y \div 100 + 1
        epact == (11 * golden + 20 + (8 * century + 5) \div 25 - 5 - ((3 * century) \div 4 - 12)) % 30
        adjusted == IF epact = 24 \/ (epact = 25 /\ golden > 11) THEN epact + 1 ELSE epact
    IN Ordinal(<<y, 3, 1>>) - 1 + (IF 44 - adjusted < 21 THEN 74 - adjusted ELSE 44 - adjusted)

\* Easter is the first Sunday after the full moon, and every other moving
\* holiday is the day of its week that the calendar names.
HolidaysAreExact ==
    \A h \in reply : query[1] = "holidays" =>
        LET y == query[2]
            nth(n, m, w, k) == Weekday(n) = w /\ n \in Ordinal(<<y, m, 7 * k - 6>>)..Ordinal(<<y, m, 7 * k>>)
        IN /\ Weekday(h.easter) = Sunday /\ h.easter - PaschalMoon(y) \in 1..7 /\ Weekday(h.goodFriday) = 4
           /\ nth(h.mothersDay, 5, Sunday, 2) /\ nth(h.fathersDay, 6, Sunday, 3)
           /\ nth(h.columbusDay, 10, Monday, 2) /\ nth(h.thanksgiving, 11, Thursday, 4)
           /\ Weekday(h.memorialDay) = Monday /\ h.memorialDay \in Ordinal(<<y, 5, 25>>)..Ordinal(<<y, 5, 31>>)

\* The page of a month shows every day of the month, in whole weeks.
PageHoldsMonth ==
    \A p \in reply : query[1] = "page" =>
        /\ Ordinal(<<query[2], query[3], 1>>)..Ordinal(<<query[2], query[3], MonthDays(query[2], query[3])>>) \subseteq p
        /\ Weekday(Least(p)) = Monday /\ Cardinality(p) = 42

\* A weekday named is the first one from today on, a next one the second; the
\* weekend asked for is the first Saturday not yet past, and a week or a month
\* asked for is whole and holds today, or follows the week that does.
DaysAskedAreMeant ==
    \A a \in reply : query[1] = "ask" =>
        LET first == a.days[1]
            last == a.days[2]
        IN CASE a.said = {} ->
                  /\ Weekday(first) = a.day /\ first = last
                  /\ Cardinality({n \in a.today..first - 1 : Weekday(n) = a.day}) = IF a.next THEN 1 ELSE 0
             [] a.said = {"this_weekend"} ->
                  Weekday(first) = 5 /\ last = first + 1 /\ first \in a.today..a.today + 6
             [] a.said \in {{"this_week"}, {"next_week"}} ->
                  /\ Weekday(first) = Monday /\ last = first + 6
                  /\ (a.today + (IF a.said = {"this_week"} THEN 0 ELSE 7)) \in first..last
             [] a.said = {"this_month"} ->
                  /\ a.today \in first..last /\ last - first < 31
                  /\ DateOf(first)[3] = 1 /\ DateOf(last + 1)[3] = 1
             [] OTHER -> first = last /\ first = a.today + (IF a.said = {"today"} THEN 0 ELSE 1)

\* A series opened at one of its dates and saved as it was shown keeps every
\* date from that one on, unless its dates were numbered from its start or the
\* one opened stands for a day its month does not have; what the editor accepts
\* the store does too, and no end before the date it is saved from.
EditorKeepsSeries ==
    \A a \in reply : query[1] = "edit" =>
        LET e == query[2]
            onRule == e.frequency \in {"none", "weekly"} \/ DateOf(a.date)[3] = e.start[3]
        IN /\ \A r \in a.rule :
                /\ ValidRule(r) /\ (a.ends = "count" <=> r.count > 0)
                /\ r.until # <<>> => Ordinal(r.until) >= a.date
                /\ a.kept /\ e.count = 0 /\ onRule =>
                     OccurrenceDates([excluded |-> e.excluded] @@ r, query[3][1], query[3][2])
                     = {n \in OccurrenceDates(e, query[3][1], query[3][2]) : n >= a.date}
           /\ a.kept /\ e.frequency # "none" => a.rule # {}

\* The page of a year says of every month how many dates its own page shows.
YearAgreesWithMonths ==
    \A counts \in reply : query[1] = "year" =>
        \A m \in 1..12 : LET y == query[3] IN
            counts[m] = Cardinality(OccurrenceDates(query[2], <<y, m, 1>>, <<y, m, MonthDays(y, m)>>))

\* Every answer the calendar computes is the one counted out day by day.
AnswersAreExact ==
    WindowIsExact /\ HolidaysAreExact /\ PageHoldsMonth /\ YearAgreesWithMonths /\ DaysAskedAreMeant /\ EditorKeepsSeries
=============================================================================
