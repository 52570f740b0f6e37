SPECIFICATION LevelSpec
CONSTANTS
    None = None
    a = a
    b = b
    c = c
    WeekPatterns <- WorkWeek
    Holidays = {h1}
    HolidayDates = {7}
    Runs = {r1, r2}
    Tasks = {a, b, c}
    Types = {"FS"}
    Lags = {0}
    Durations = {1, 2}
    StartDates = {None, 3, 4}
    ActualDates = {}
    ProjectStart = None
    ProjectEnd = None
    MaxEdits = 2
    Plans <- ThreeTasks
    Staffing <- UnstaffedOrStaffed
    Percentages = {40, 80}
    Capacity = 100
    Strict = TRUE
    Priority <- Urgency
    MaxIterations = 2
    MaxShift = 1
SYMMETRY Symmetry
CONSTRAINT Focus
CHECK_DEADLOCK FALSE
PROPERTIES
    LevelingKeepsDependencies
    StrictPolicyHolds
