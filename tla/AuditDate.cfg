\* As Audit.cfg: a payload that holds a Date, as that of recovery.expired does.
CONSTANTS
  t1 = t1
  t2 = t2
  t3 = t3
  popup = popup
  panel = panel
  sign = sign
  connect = connect
  MaxTime = 4
  MaxMoves = 2
  None = None
  Txs <- MCTxs
  Ids <- MCIds
  MaxEvents = 2
  Payloads = {"object", "withDate"}
  MaxWrites = 4
  MaxDamage = 2
SPECIFICATION MCSpec
INVARIANT HonestLogVerifies
\* Every transaction runs once; writes and damage are bounded.
CHECK_DEADLOCK FALSE
