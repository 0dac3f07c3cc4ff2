------------------------------ MODULE DueDates ------------------------------
(***************************************************************************)
(* Due dates: the business-day calendar, the versioned store of deadline   *)
(* rules and deadline.compute (core/services/deadline: calendar.py,        *)
(* rules.py, compute.py).                                                  *)
(*                                                                         *)
(* A date is the number of days since 1 January 2020.  The time of day and *)
(* its zone are carried along unchanged by the code and are left out.  An  *)
(* exception of the calendar is the date NoDate.                           *)
(***************************************************************************)
EXTENDS Integers, Sequences, FiniteSetsExt

CONSTANTS RuleTexts,   \* the rule definitions an operator may load
          PackRules,   \* the parsed rules a domain pack may register
          GivenVersions, \* the versions it may give them
          RuleIds,
          Jurisdictions,
          TriggerDays, \* the days a trigger may fall on
          AsOfDays,    \* the days the tool may be asked on
          MaxLoads     \* bound on the loads of rules

\* What the field types of DeadlineRule give; a rule of a pack has them.
ASSUME RulesAssumption ==
    /\ TriggerDays \subseteq Int
    /\ \A r \in PackRules : r.typed /\ r.id \in RuleIds
    /\ \A r \in RuleTexts \cup PackRules : r.typed =>
           /\ r.offset \in [years : Int, months : Int, weeks : Int, days : Int,
                            business_days : Int]
           /\ r.adjust \in {"none", "next_business_day", "previous_business_day"}
           /\ \A i \in DOMAIN r.reminders : r.reminders[i].amount \in Int

VARIABLES registry,    \* RuleStore._registry: rule id -> [version, rule] in load order
          loads,       \* how often load or register_rule was called
          trace        \* the last answer of deadline.compute

dueVars == <<registry, loads, trace>>

NoDate == -100000
NoField == ""
NoTrace == [status |-> "none"]

-----------------------------------------------------------------------------
\* Python's datetime.date from 1901 to 2099, where every fourth year is a
\* leap year.

MonthLength(y, m) ==
    IF m = 2 THEN (IF y % 4 = 0 THEN 29 ELSE 28)
    ELSE IF m \in {4, 6, 9, 11} THEN 30 ELSE 31

YearStart(y) == 365 * (y - 2020) + ((y - 2017) \div 4)

MonthStart(y, m) ==
    YearStart(y) + <<0, 31, 59, 90, 120, 151, 181, 212, 243, 273, 304, 334>>[m]
                 + (IF m > 2 /\ y % 4 = 0 THEN 1 ELSE 0)

Date(y, m, d) == MonthStart(y, m) + d - 1

Weekday(n) == (n + 2) % 7   \* 0 is Monday; 1 January 2020 was a Wednesday

YearOf(n) == 2020 + ((4 * n) \div 1461)   \* 1461 days in four years

MonthOf(n) == LET y == YearOf(n)
              IN  CHOOSE m \in 1 .. 12 : /\ MonthStart(y, m) <= n
                                         /\ n < MonthStart(y, m) + MonthLength(y, m)

DayOf(n) == n - MonthStart(YearOf(n), MonthOf(n)) + 1

-----------------------------------------------------------------------------
\* calendar.py

NthWeekdayOfMonth(y, m, w, n) ==
    LET first == Date(y, m, 1)
    IN  first + ((w - Weekday(first)) % 7) + (n - 1) * 7

LastWeekdayOfMonth(y, m, w) ==
    LET last == Date(y, m, MonthLength(y, m))
    IN  last - ((Weekday(last) - w) % 7)

\* Mutant: a holiday on a Saturday is not moved.
ObservedSundayOnly(n) == IF Weekday(n) = 6 THEN n + 1 ELSE n

Observed(n) ==
    IF Weekday(n) = 5 THEN n - 1
    ELSE IF Weekday(n) = 6 THEN n + 1
    ELSE n

UsFederalHolidays(y) ==
    {Observed(Date(y, md[1], md[2])) :
        md \in {<<1, 1>>, <<6, 19>>, <<7, 4>>, <<11, 11>>, <<12, 25>>}}
    \cup {NthWeekdayOfMonth(y, 1, 0, 3), NthWeekdayOfMonth(y, 2, 0, 3),
          LastWeekdayOfMonth(y, 5, 0), NthWeekdayOfMonth(y, 9, 0, 1),
          NthWeekdayOfMonth(y, 10, 0, 2), NthWeekdayOfMonth(y, 11, 3, 4)}

SupportedYears == 2020 .. 2040

Holidays == [y \in SupportedYears |-> UsFederalHolidays(y)]

\* is_business_day answers TRUE, or raises because the year has no table.
\* The loops below stop on either.
Stops(n) == /\ Weekday(n) < 5
            /\ YearOf(n) \in SupportedYears => n \notin Holidays[YearOf(n)]

Answered(n) == IF YearOf(n) \in SupportedYears THEN n ELSE NoDate

NextBusinessDay(n) ==
    Answered(CHOOSE k \in n + 1 .. n + 7 :
                 Stops(k) /\ \A i \in n + 1 .. k - 1 : ~Stops(i))

PreviousBusinessDay(n) ==
    Answered(CHOOSE k \in n - 7 .. n - 1 :
                 Stops(k) /\ \A i \in k + 1 .. n - 1 : ~Stops(i))

\* Adding zero business days leaves the date alone, whatever day it is.
AddBusinessDays(n, amount) ==
    LET count == IF amount >= 0 THEN amount ELSE -amount
        after[k \in 0 .. count] ==
            IF k = 0 THEN n
            ELSE IF after[k - 1] = NoDate THEN NoDate
            ELSE IF amount > 0 THEN NextBusinessDay(after[k - 1])
            ELSE PreviousBusinessDay(after[k - 1])
    IN  after[count]

Adjust(n, mode) ==
    IF n = NoDate \/ mode = "none" THEN n
    ELSE IF Stops(n) THEN Answered(n)
    ELSE IF mode = "next_business_day" THEN NextBusinessDay(n)
    ELSE PreviousBusinessDay(n)

-----------------------------------------------------------------------------
\* compute.py

\* datetime.replace: a day the month does not have becomes the 28th.
Replaced(y, m, d) == Date(y, m, IF d <= MonthLength(y, m) THEN d ELSE 28)

ApplyOffset(base, o) ==
    LET year1  == Replaced(YearOf(base) + o.years, MonthOf(base), DayOf(base))
        months == MonthOf(year1) + o.months - 1
        month1 == Replaced(YearOf(year1) + (months \div 12), (months % 12) + 1,
                           DayOf(year1))
    IN  AddBusinessDays(month1 + 7 * o.weeks + o.days, o.business_days)

FireDate(due, r) ==
    IF r.unit = "business_days" THEN AddBusinessDays(due, r.amount)
    ELSE due + r.amount

PreviewReminders(rule, due) ==
    [i \in DOMAIN rule.reminders |-> FireDate(due, rule.reminders[i])]

\* compute_due_date and the tool around it.  Any exception ends the call.
Answer(rule, version, inputs, asOf) ==
    IF rule.trigger \notin DOMAIN inputs THEN [status |-> "missing_trigger"]
    ELSE IF rule.calendar # "us_federal" THEN [status |-> "calendar_error"]
    ELSE LET day   == inputs[rule.trigger]
             raw   == ApplyOffset(day, rule.offset)
             due   == Adjust(raw, rule.adjust)
             fires == PreviewReminders(rule, due)
         IN  IF NoDate \in {raw, due} \cup {fires[i] : i \in DOMAIN fires}
             THEN [status |-> "calendar_error"]
             ELSE [status |-> "ok", rule |-> rule, version |-> version,
                   trigger |-> day, raw |-> raw, due |-> due,
                   reminders |-> fires, pastDue |-> due < asOf]

-----------------------------------------------------------------------------
\* rules.py.  The version of a rule is the hash of its YAML text, or of the
\* JSON of a registered rule, or given by the caller: here a pair of which of
\* these it is and the text.

DueInit == /\ registry = [id \in RuleIds |-> <<>>]
           /\ loads = 0
           /\ trace = NoTrace

Matching(id, j) == {i \in DOMAIN registry[id] : registry[id][i].rule.jurisdiction = j}

\* active and rule_version: the entry loaded last for the jurisdiction.
Active(id, j) == registry[id][Max(Matching(id, j))]

\* _parse_and_validate: the fields a rule must have; typed says that offset,
\* reminders, escalation and the rest have values of their types.
Validates(r) ==
    /\ r.id \in RuleIds
    /\ r.trigger # NoField
    /\ r.calendar = "us_federal"
    /\ r.typed

\* A version that is there already is left where it is, whatever its rule.
Added(r, version) ==
    IF \E i \in DOMAIN registry[r.id] : registry[r.id][i].version = version THEN registry
    ELSE [registry EXCEPT ![r.id] = Append(@, [version |-> version, rule |-> r])]

\* load: an invalid rule is refused.
Load(r) ==
    /\ loads < MaxLoads
    /\ loads' = loads + 1
    /\ registry' = IF Validates(r) THEN Added(r, <<"yaml", r.text>>) ELSE registry
    /\ UNCHANGED trace

\* register_rule: nothing is validated.
RegisterRule(r, version) ==
    /\ loads < MaxLoads
    /\ loads' = loads + 1
    /\ registry' = Added(r, version)
    /\ UNCHANGED trace

VersionsOf(r) == {<<"json", r.text>>} \cup GivenVersions

\* deadline.compute for the active rule; with no active rule the caller gets
\* a KeyError from the store and never reaches the tool.
Compute(id, j) ==
    /\ Matching(id, j) # {}
    /\ \E field \in {Active(id, j).rule.trigger, "other"}, day \in TriggerDays, asOf \in AsOfDays :
           trace' = Answer(Active(id, j).rule, Active(id, j).version, [f \in {field} |-> day], asOf)
    /\ UNCHANGED <<registry, loads>>

-----------------------------------------------------------------------------
\* What a due date is, read off the calendar and not computed.

\* The holidays that count: those of the own year of a day, or all of them.
Tables == {"own_year", "all_years"}

FixedHolidays == {<<1, 1>>, <<6, 19>>, <<7, 4>>, <<11, 11>>, <<12, 25>>}

FixedHoliday(n) == <<MonthOf(n), DayOf(n)>> \in FixedHolidays

\* A fixed holiday is observed on n: on its own day, on the Friday before or on
\* the Monday after.  A New Year's Day on a Saturday is observed in the year
\* before its own, and is no holiday of n's own year.
ObservedOn(n, table) ==
    \E h \in n - 1 .. n + 1 :
        /\ FixedHoliday(h)
        /\ h = n \/ (Weekday(n) = 4 /\ h = n + 1) \/ (Weekday(n) = 0 /\ h = n - 1)
        /\ table = "all_years" \/ YearOf(h) = YearOf(n)

\* The week of the month in which the Monday (in November the Thursday) is a
\* holiday.
HolidayWeek(m) ==
    CASE m \in {1, 2} -> 15 .. 21 [] m = 5 -> 25 .. 31 [] m = 9 -> 1 .. 7
      [] m = 10 -> 8 .. 14 [] m = 11 -> 22 .. 28 [] OTHER -> {}

WorkingDay(n, table) ==
    /\ Weekday(n) < 5
    /\ ~ObservedOn(n, table)
    /\ ~(/\ DayOf(n) \in HolidayWeek(MonthOf(n))
         /\ Weekday(n) = IF MonthOf(n) = 11 THEN 3 ELSE 0)

WorkingDays(a, b, table) == Cardinality({n \in a .. b : WorkingDay(n, table)})

\* b is amount working days after a (before, when amount is negative).
DaysApart(a, b, amount, table) ==
    IF amount = 0 THEN a = b
    ELSE /\ WorkingDay(b, table)
         /\ amount = IF amount > 0 THEN WorkingDays(a + 1, b, table)
                                   ELSE -WorkingDays(b, a - 1, table)

\* b is the same day of the month as a, the offset's years and months on; the
\* 28th if that month, or a's own month after the years, does not have the day.
MonthsApart(a, b, o) ==
    LET missing == \/ DayOf(a) > MonthLength(YearOf(b), MonthOf(b))
                   \/ DayOf(a) > MonthLength(YearOf(a) + o.years, MonthOf(a))
    IN  /\ 12 * YearOf(b) + MonthOf(b) = 12 * YearOf(a) + MonthOf(a) + 12 * o.years + o.months
        /\ DayOf(b) = IF missing THEN 28 ELSE DayOf(a)

RawRight(base, raw, o, table) ==
    LET count == 12 * o.years + o.months
        reach == 31 * (IF count >= 0 THEN count ELSE -count) + 3
    IN  \E d \in base - reach .. base + reach :
            /\ MonthsApart(base, d, o)
            /\ DaysApart(d + 7 * o.weeks + o.days, raw, o.business_days, table)

AdjustRight(raw, due, mode, table) ==
    CASE mode = "none" -> due = raw
      [] mode = "next_business_day" ->
             WorkingDay(due, table) /\ due >= raw /\ WorkingDays(raw, due, table) = 1
      [] mode = "previous_business_day" ->
             WorkingDay(due, table) /\ due <= raw /\ WorkingDays(due, raw, table) = 1

\* The answer is right with the holidays of the table.
DatesRight(t, table) ==
    /\ RawRight(t.trigger, t.raw, t.rule.offset, table)
    /\ AdjustRight(t.raw, t.due, t.rule.adjust, table)
    /\ \A i \in DOMAIN t.rule.reminders :
           t.rule.reminders[i].unit = "business_days" =>
               DaysApart(t.due, t.reminders[i], t.rule.reminders[i].amount, table)

\* The registry knows the version, and for this rule only.
VersionRight(t) ==
    LET entries == registry[t.rule.id]
    IN  /\ \E i \in DOMAIN entries : entries[i] = [version |-> t.version, rule |-> t.rule]
        /\ \A i, k \in DOMAIN entries :
               entries[i].version = t.version /\ entries[k].version = t.version => i = k

(***************************************************************************)
(* DueDateRight: an answer of deadline.compute names a version under which *)
(* the store has the rule it was computed from and no other; its raw date  *)
(* lies the rule's offset from the trigger, counted on a calendar; the due *)
(* date is the nearest working day in the direction the rule says; and     *)
(* every business-day reminder is that many working days from it.  One day *)
(* is left open: whether the 31 December on which next year's New Year's   *)
(* Day is observed is a working day (DueDateObserved).                     *)
(***************************************************************************)
DueDateRight ==
    trace.status = "ok" => VersionRight(trace) /\ \E table \in Tables : DatesRight(trace, table)

(***************************************************************************)
(* DueDateObserved: the dates are right with every holiday on the weekday  *)
(* on which it is observed, as _observed says: a fixed holiday that falls  *)
(* on a Saturday is Friday's, on a Sunday Monday's (calendar.py:45-49).    *)
(***************************************************************************)
DueDateObserved == trace.status = "ok" => DatesRight(trace, "all_years")

=============================================================================
