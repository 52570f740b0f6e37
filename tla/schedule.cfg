SPECIFICATION GovernedSpec
CONSTANTS
    None = None
    WeekPatterns <- Patterns
    Holidays = {h1}
    HolidayDates <- TwoWeeks
    Tasks = {a, b, c}
    Types = {"FS", "SS", "FF", "SF"}
    Lags = {0, 2}
    RequestTypes = {"FS"}
    RequestLags = {0}
    Durations = {None, 0, 1, 2, 3}
    StartDates = {None, 3}
    ActualDates = {3, 5}
    ProjectStart = None
    ProjectEnd = None
    MaxEdits = 3
SYMMETRY Symmetry
CONSTRAINT Focus
CHECK_DEADLOCK FALSE
INVARIANTS
    CalendarExact
    NetworkStaysSound
    DependenciesHonoured
    RecalculationStable
    FloatExact
