\* Two drafts, accounts and networks; two confirmations and one switch, reopening
\* or fault.  Two realms, two passwords and two operations on the keystore.  Two
\* approve pages, a cap of one spend, and one change of cap, site or network.
CONSTANTS
    Parts = {"pages", "keystore", "caps"}
    MaxEvents = 2
    r1 = r1
    r2 = r2
    Requests = {r1, r2}
    Kind <- MCKind
    Site <- MCSite
    a1 = a1
    a2 = a2
    n1 = n1
    n2 = n2
    x = x
    y = y
    k1 = k1
    k2 = k2
    k3 = k3
    s1 = s1
    w1 = w1
    w2 = w2
    Pages = {"send", "rune"}
    Accounts = {a1, a2}
    Networks = {n1, n2}
    Drafts <- MCDrafts
    Tiers = {"slow", "fast"}
    DefaultTier = "slow"
    Resolve <- MCResolve
    MaxConfirms = 1
    None = None
    KAccounts = {k1, k2, k3}
    Discontinued = {k3}
    Sites = {s1}
    MaxKept = 1
    Realms = {popup, panel}
    Passwords = {w1, w2}
    Edits <- MCEdits
    MaxOps = 2
    p1 = p1
    p2 = p2
    Asked = {p1, p2}
    Asks <- MCAsks
    Limits = {1}
    Chains <- MCChains
    Fee = 1
    Rent = 3
    Deposit = 2
    Day = 1
    MaxEntries = 1
    MaxTime = 2
    MaxChanges = 1
SPECIFICATION MCSpec
CONSTRAINT Bounded
INVARIANTS PaysAsReviewed FailedIsUnsent OpensUnlessRaced CapHolds GatesForesee
\* The bounds end it.
CHECK_DEADLOCK FALSE
