\* Two calls that may share a key; one failed transaction, lost commit or crash.
CONSTANTS
    c1 = c1
    c2 = c2
    u1 = u1
    u2 = u2
    k1 = k1
    k2 = k2
    e1 = e1
    Calls = {c1, c2}
    Users = {u1, u2}
    Keys = {k1, k2}
    Emails = {e1}
    LinkedUsers = {u2}
    EnforcedRoutes = {"email"}
    MaxFaults = 1
    None = None
SPECIFICATION Spec
INVARIANTS OneOrgPerKey TruthfulReplies NoLateTakeover
PROPERTIES PendingSettles
\* Every call is answered once.
CHECK_DEADLOCK FALSE
