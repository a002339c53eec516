\* Three calls in two documents; two gates, wallets and challenges; two uses of the
\* hub and two of its sessions.
CONSTANTS
    popup = popup
    panel = panel
    a1 = a1
    a2 = a2
    c1 = c1
    c2 = c2
    c3 = c3
    Realms = {popup, panel}
    Accounts = {a1, a2}
    Calls = {c1, c2, c3}
    MaxKeys = 3
    Unreliable = TRUE
    Wallets = {a1, a2}
    Offers = {{}, {a1}, {a1, a2}}
    MaxGates = 2
    MaxChallenges = 2
    MaxEvents = 2
    Uses = {c1, c2}
    MaxHubSessions = 2
    MaxLost = 1
    None = None
SPECIFICATION MCSpec
INVARIANTS SessionsTruthful ResumesForVerified TokensFit OnePrompt
PROPERTY WaitsEnd
\* Every call is made once.
CHECK_DEADLOCK FALSE
