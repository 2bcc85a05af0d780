SPECIFICATION Spec
SYMMETRY Symmetry
CONSTANTS
    Req = {r1, r2}
    Channel = {c1, c2}
    Task = {t1, t2, t3}
    MaxCalls = 3
    MaxGen = 3
    MaxChanges = 3
CONSTRAINT OneService
INVARIANTS OneTalkPerChannel InviteAttended ClosingBounded
    SubscriptionKeptUp RefreshAhead TagOfOwnDialog
CHECK_DEADLOCK FALSE
