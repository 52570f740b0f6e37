SPECIFICATION Spec
CONSTANTS
    None = None
    UI = UI
    Rows = {t1, t2}
    Leaves = {t2}
    Edits = {e1, e2}
    Refreshes = {f1, f2}
    Shifts = {k1, k2}
    MaxActs = 2
CHECK_DEADLOCK FALSE
INVARIANTS
    RefreshOwed
PROPERTIES
    DashboardCatchesUp
    ImplementsAtomicEdits
