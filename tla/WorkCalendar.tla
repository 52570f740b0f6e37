---------------------------- MODULE WorkCalendar ----------------------------
(* The working calendar of the projects (WorkCalendarService) and the arithmetic on
   working days (WorkCalendarEngine) that all schedule calculations use.

   A date is the number of days since some Monday.  The engine steps from day to day;
   here one step goes to the next working day, and the days between are skipped.   *)
EXTENDS Integers, FiniteSets, FiniteSetsExt

CONSTANTS None,
          WeekPatterns,     \* sets of weekdays (0 = Monday) that may be saved as working
          Holidays,         \* identifiers of holidays
          HolidayDates      \* the dates they may be put on

(* An empty pattern is accepted by the code, but then next_working_day does not end. *)
ASSUME CalendarAssumption ==
    /\ WeekPatterns \subseteq (SUBSET (0..6)) \ {{}} /\ 0..4 \in WeekPatterns
    /\ IsFiniteSet(Holidays) /\ HolidayDates \subseteq Int

VARIABLE calendar   \* the default calendar and its holidays

Calendars == [workingDays : WeekPatterns, holiday : [Holidays -> HolidayDates \cup {None}]]

IsWorkingDay(d) == /\ d % 7 \in calendar.workingDays
                   /\ \A h \in Holidays : calendar.holiday[h] # d

(* A holiday takes one day away: a run of days off is shorter than this. *)
LongestBreak == 7 * (Cardinality(Holidays) + 1)

NextWorkingDay(d) ==
    d + CHOOSE k \in 0..LongestBreak : /\ IsWorkingDay(d + k)
                                       /\ \A j \in 0..k - 1 : ~IsWorkingDay(d + j)

PreviousWorkingDay(d) ==
    d - CHOOSE k \in 0..LongestBreak : /\ IsWorkingDay(d - k)
                                       /\ \A j \in 0..k - 1 : ~IsWorkingDay(d - j)

(* Mutant: the start is not one of the days. *)
AddDaysAfter(start, n) ==
    LET forward[k \in 0..n]   == IF k = 0 THEN start ELSE NextWorkingDay(forward[k - 1] + 1)
        backward[k \in 0..-n] == IF k = 0 THEN start ELSE PreviousWorkingDay(backward[k - 1] - 1)
    IN  IF n >= 0 THEN forward[n] ELSE backward[-n]

(* The first of n working days is the start itself or the next working day; a negative
   n counts back from it; 0 leaves the start alone, working day or not. *)
AddWorkingDays(start, n) ==
    LET forward[k \in 0..n - 1] == IF k = 0 THEN NextWorkingDay(start)
                                            ELSE NextWorkingDay(forward[k - 1] + 1)
        backward[k \in 0..-n]    == IF k = 0 THEN NextWorkingDay(start)
                                            ELSE PreviousWorkingDay(backward[k - 1] - 1)
    IN  IF n = 0 THEN start
        ELSE IF n > 0 THEN forward[n - 1] ELSE backward[-n]

WorkingDaysBetween(start, end) == Cardinality({d \in start..end : IsWorkingDay(d)})

-----------------------------------------------------------------------------
SetWorkingDays(pattern) == calendar' = [calendar EXCEPT !.workingDays = pattern]

AddHoliday(h, d) == /\ calendar.holiday[h] = None
                    /\ calendar' = [calendar EXCEPT !.holiday[h] = d]

DeleteHoliday(h) == /\ calendar.holiday[h] # None
                    /\ calendar' = [calendar EXCEPT !.holiday[h] = None]

(* WorkingCalendar.create_default: Monday to Friday. *)
CalendarInit == calendar = [workingDays |-> 0..4, holiday |-> [h \in Holidays |-> None]]

CalendarNext == \/ \E pattern \in WeekPatterns : SetWorkingDays(pattern)
                \/ \E h \in Holidays : \/ \E d \in HolidayDates : AddHoliday(h, d)
                                       \/ DeleteHoliday(h)

(* AddWorkingDaysExact: whatever the pattern and the holidays, the n-th working day from
   a date is a working day with exactly n working days up to it, and going back n days
   from a date leaves exactly n of them behind (add_working_days). *)
AddWorkingDaysExact ==
    \A d \in 0..13, n \in 1..4 :
        LET later == AddWorkingDays(d, n)
            earlier == AddWorkingDays(d, -n)
        IN  /\ IsWorkingDay(later) /\ WorkingDaysBetween(d, later) = n
            /\ IsWorkingDay(earlier)
            /\ WorkingDaysBetween(earlier, NextWorkingDay(d)) = n + 1

(* FinishAndStartInverse: the finish of a task of n days, taken back n - 1 days as the
   backward pass does, is its first working day; the two passes use one arithmetic. *)
FinishAndStartInverse ==
    \A d \in 0..13, n \in 1..4 :
        AddWorkingDays(AddWorkingDays(d, n), -(n - 1)) = NextWorkingDay(d)
=============================================================================
