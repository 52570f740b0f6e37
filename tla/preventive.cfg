SPECIFICATION EngineSpec
CONSTANTS
    Unset = Unset
    Policies = {"FIXED", "FLOATING"}
    Modes = {"CALENDAR", "SENSOR", "HYBRID"}
    Horizons = {2, 3}
    Leads = {0, 1}
    Frequency = 2
    Trigger <- SensorTask
    Directions = {"GREATER_OR_EQUAL", "LESS_OR_EQUAL", "EQUAL"}
    Threshold = 2
    Values = {2, 5}
    DueDates = {}
    MaxTime = 7
    MaxWork = 3
    MaxReadings = 2
CONSTRAINT Focus
INVARIANTS
    OncePerOccurrence
    CadenceKept
    OncePerReading
PROPERTIES
    NoOccurrenceSkipped
CHECK_DEADLOCK FALSE
