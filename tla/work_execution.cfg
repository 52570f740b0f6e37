SPECIFICATION Spec
CONSTANTS
    None = None
    Requests = {r1, r2, r3}
    PlanRequests = {r1, r2}
    Orders = {o1, o2}
    Tasks = {t1, t2}
    Steps = {s1, s2}
    Employees = {None, e1}
    Package <- OneTaskOneStep
    MaxNumber = 1
    MaxMinutes = 1
SYMMETRY Symmetry
CONSTRAINT Focus
CHECK_DEADLOCK FALSE
INVARIANTS
    WorkConsistent
    ConversionTraced
PROPERTIES
    FinishedOrderFrozen
