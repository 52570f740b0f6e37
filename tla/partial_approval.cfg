CONSTANTS
    None = None
    o1 = o1  o2 = o2  q1 = q1  i1 = i1  r1 = r1  r2 = r2
    Items = {i1}
    StoreroomIds = {r1}
    Reqs = {q1}
    Orders = {o1, o2}
    MaxReqLines = 1
    MaxLines = 2
    Quantities = {1, 2}
    Receipts <- NoReceipts
    MasterStates <- FixedMaster
    References = {}
SPECIFICATION Spec
INVARIANT OnOrderMatches
