SPECIFICATION Spec
CONSTANTS
    c1 = c1
    c2 = c2
    u1 = u1
    u2 = u2
    r1 = r1
    r2 = r2
    quick = quick
    default = default
    Clients = {c1, c2}
    Users = {u1, u2}
    Nobody = nobody
    Anyone = anyone
    Flows = {quick, default}
    DefaultFlow = default
    Nodes <- FlowNodes
    Renders = {r1, r2}
    MaxRetry = 1
    NoFile = nofile
    Earlier = earlier
    MaxCalls = 4
SYMMETRY Symmetry
INVARIANTS ApprovalsAreBacked SecondReviewIsBlind SucceededHasFile OnSaleWasCleared
PROPERTIES ReviewOnlyAdvances
CHECK_DEADLOCK FALSE
