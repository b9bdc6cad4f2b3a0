SPECIFICATION Spec
CONSTANTS
    Fds = {2, 3}
    Clients = {c1, c2}
    Owners = {c1, c2}
    Idlers = {w1}
    InitSize = 2
    MaxAllocs = 2
    UserOps = {"add", "del", "cancel", "cancelAll", "close"}
    Errors = TRUE
CHECK_DEADLOCK FALSE
SYMMETRY Symmetry
INVARIANTS PendingExact EventsAgree
