\* Three calls, two subjects that share an address, one fault; three flows of a page
\* that is opened three times.
CONSTANTS
    c1 = c1
    c2 = c2
    c3 = c3
    s1 = s1
    s2 = s2
    e1 = e1
    old = old
    Calls = {c1, c2, c3}
    Residues = {old}
    Subjects = {s1, s2}
    Emails = {e1}
    Tokens <- MCTokens
    MaxFaults = 1
    MaxMounts = 3
    None = None
SPECIFICATION MCSpec
INVARIANTS TokenOnce SessionsProveIdentity StoredStays
SYMMETRY Symmetry
\* Every call is answered once, and every flow ends.
CHECK_DEADLOCK FALSE
