SPECIFICATION TimeSpec
CONSTANTS
    Absent = Absent
    Resources = {r1}
    BookedTasks = {t1}
    Allocations = {a1, a2}
    Entries = {e1, e2, e3}
    EntryDates = {0, 1, 2}
    DaysPerMonth = 2
    Hours = {0, 1, 2}
    MaxHours = 4
SYMMETRY Symmetry
INVARIANTS
    TimesheetsAgree
PROPERTIES
    FrozenEntriesStay
    LoggingNeverLosesHours
