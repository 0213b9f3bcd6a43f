SPECIFICATION Spec
CONSTANTS
    c1 = c1
    c2 = c2
    p1 = p1
    p2 = p2
    Clients = {c1, c2}
    Passwords = {p1, p2}
    SeedPassword = p1
    MaxAttempts = 2
    AccessLife = 2
    RefreshLife = 3
    MaxSessions = 2
    MaxCalls = 6
    MaxTicks = 3
    MaxFaults = 1
SYMMETRY Symmetry
INVARIANTS GuessesBounded PasswordSurvivesEdits LoggedOutStaysOut
CHECK_DEADLOCK FALSE
