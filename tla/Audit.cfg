\* Three transactions of one or two events each; four events and two steps of
\* damage.  Payloads of every kind.
CONSTANTS
  t1 = t1
  t2 = t2
  t3 = t3
  popup = popup
  panel = panel
  sign = sign
  connect = connect
  MaxTime = 4
  MaxMoves = 2
  None = None
  Txs <- MCTxs
  Ids <- MCIds
  MaxEvents = 2
  Payloads = {"object", "withDate"}
  MaxWrites = 4
  MaxDamage = 2
SPECIFICATION MCSpec
INVARIANTS CommittedRowsChain VerifiesReplays
PROPERTY CallsEnd
\* Every transaction runs once; writes and damage are bounded.
CHECK_DEADLOCK FALSE
