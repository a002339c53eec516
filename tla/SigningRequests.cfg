\* A transfer and a message with two submissions and one reader.  Two accounts of two
\* tokens, three probes, two switches or failures; two clicks on swaps and two quotes
\* after the first; pools with prices in 1/16.
CONSTANTS
    transfer = transfer
    message = message
    s1 = s1
    s2 = s2
    g1 = g1
    Requests <- TransferAndMessage
    Messages <- OneMessage
    Submitters <- TwoSubmitters
    Readers <- OneReader
    a1 = a1
    a2 = a2
    n1 = n1
    n2 = n2
    Accounts = {a1, a2}
    Mainnet = {a2}
    Mints = {m1, m2}
    MaxProbes = 3
    MaxEvents = 2
    External = {a2}
    Networks = {n1, n2}
    NoRfq = {n2}
    Trades <- MCTrades
    Covers <- MCCovers
    Attempts = {1, 2}
    MaxRequests = 3
    Ticks <- MCTicks
    PriceOf <- MCPrices
    MinPrice = 4
    MaxPrice = 64
    Q = 16
    FeeUnits = 100
    ArraySize = 1
    Positions <- MCPositions
    Fees = {0, 3}
    Amounts = {1, 3, 13, 30}
    None = None
SPECIFICATION MCSpec
INVARIANTS AtMostOneBroadcast ReportedAsDecided AuditTellsOutcome RepliesHold OnboardedIsThere SwapsAsShown PoolKeepsUp
PROPERTIES VerdictReachesRow ImplementsIntent OutcomeIsFinal
CHECK_DEADLOCK FALSE
