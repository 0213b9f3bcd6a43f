SPECIFICATION Spec
CONSTANTS
    s1 = s1
    s2 = s2
    a1 = a1
    a2 = a2
    q1 = q1
    q2 = q2
    viewer = viewer
    editor = editor
    p1 = p1
    Servers = {s1, s2}
    Admins = {a1, a2}
    Readers = {q1, q2}
    RoleIds = {viewer, editor}
    SystemRoles = {viewer}
    Perms = {p1}
    SeedPerms = {p1}
    MaxEdits = 2
    MaxStarts = 1
    MaxFaults = 1
SYMMETRY Symmetry
CONSTRAINT ReadersApart
INVARIANTS PolicyDoesNotExceed StaleCodesHaveCause
CHECK_DEADLOCK FALSE
