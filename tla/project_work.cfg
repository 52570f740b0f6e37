SPECIFICATION Spec
CONSTANTS
    None = None
    Gone = Gone
    Projects = {p1, p2}
    Resources = {r1}
    Members = {m1, m2}
    Tasks = {t1, t2}
    Assignments = {x1}
    Costs = {c1, c2}
    Events = {e1}
    Baselines = {b1}
    Requests = {q1, q2}
    MaxVersion = 3
SYMMETRY Symmetry
CONSTRAINT Focus
CHECK_DEADLOCK FALSE
INVARIANTS
    RowsResolve
    OneRequestPerItem
PROPERTIES
    ApprovedEditIsFresh
