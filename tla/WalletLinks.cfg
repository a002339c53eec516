\* Two users, one of them with a Turnkey resource, and one external wallet.
CONSTANTS
    c1 = c1
    c2 = c2
    c3 = c3
    c4 = c4
    c5 = c5
    c6 = c6
    u1 = u1
    u2 = u2
    w1 = w1
    r1 = r1
    r2 = r2
    Calls = {c1, c2, c3, c4}
    Users = {u1, u2}
    Wallets = {w1}
    Resources = {r1}
    Holder <- MCHolder
    Genuine = {r1}
    MaxChallenges = 2
    MaxLinkChallenges = 2
    MaxFaults = 1
    None = None
SPECIFICATION Spec
INVARIANTS OneSession SessionsAreProven FirstAddressKept
SYMMETRY Symmetry
\* Every call is answered once.
CHECK_DEADLOCK FALSE
