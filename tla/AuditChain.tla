----------------------------- MODULE AuditChain -----------------------------
(***************************************************************************)
(* Database transactions of the hub that write audit events of one app     *)
(* (insertAuditLog in db/queries.ts inside withDbTransaction of db/tx.ts). *)
(* A transaction writes up to MaxEvents events, each in three statements:  *)
(* the advisory lock of the app, the tip of the chain, the INSERT.  Other  *)
(* statements may come between.  It ends with COMMIT, or with ROLLBACK     *)
(* after any error or when its connection is lost.                         *)
(***************************************************************************)
EXTENDS AuditRows, FiniteSets

CONSTANTS Txs,       \* transactions
          MaxEvents  \* events a transaction writes at most

ASSUME MaxEventsAssumption == MaxEvents \in Nat
ASSUME IdsAssumption == Ids = Txs \X (1..MaxEvents)

VARIABLES
  log,      \* committed rows, in the order they were committed
  lock,     \* holder of pg_advisory_xact_lock, or "free"
  pc,       \* where each transaction stands
  due,      \* events each transaction still has to write
  tip,      \* the chain_seq and hash each transaction read last
  pending   \* rows each transaction has inserted and not committed

vars == <<log, lock, pc, due, tip, pending>>

ASSUME FreeAssumption == "free" \notin Txs

Pcs == {"idle", "open", "locked", "tipRead", "ended"}

TypeOK == /\ log \in Seq(Rows)
          /\ lock \in Txs \cup {"free"}
          /\ pc \in [Txs -> Pcs]
          /\ due \in [Txs -> 0..MaxEvents]
          /\ tip \in [Txs -> [seq : Nat, hash : Hashes]]
          /\ pending \in [Txs -> Seq(Rows)]

Init == /\ log = <<>>
        /\ lock = "free"
        /\ pc = [t \in Txs |-> "idle"]
        /\ due = [t \in Txs |-> 0]
        /\ tip = [t \in Txs |-> [seq |-> 0, hash |-> Genesis]]
        /\ pending = [t \in Txs |-> <<>>]

Begin(t, n) == /\ pc[t] = "idle"
               /\ pc' = [pc EXCEPT ![t] = "open"]
               /\ due' = [due EXCEPT ![t] = n]
               /\ UNCHANGED <<log, lock, tip, pending>>

\* Mutated form: events of one app are not serialized.
LockGrantedAlways(t) == TRUE

\* A transaction that holds the lock gets it again.
LockGranted(t) == lock \in {"free", t}

TakeLock(t) == /\ pc[t] = "open"
               /\ due[t] > 0
               /\ LockGranted(t)
               /\ lock' = t
               /\ pc' = [pc EXCEPT ![t] = "locked"]
               /\ UNCHANGED <<log, due, tip, pending>>

\* A statement sees the committed rows and those of its own transaction.
Visible(t) == log \o pending[t]

ReadTip(t) ==
  /\ pc[t] = "locked"
  /\ tip' = [tip EXCEPT ![t] = [seq |-> TipSeq(Visible(t)), hash |-> TipHash(Visible(t))]]
  /\ pc' = [pc EXCEPT ![t] = "tipRead"]
  /\ UNCHANGED <<log, lock, due, pending>>

Insert(t, p) ==
  /\ pc[t] = "tipRead"
  /\ pending' = [pending EXCEPT ![t] =
        Append(@, NewRow(tip[t].seq, tip[t].hash, <<t, Len(@) + 1>>, p))]
  /\ due' = [due EXCEPT ![t] = @ - 1]
  /\ pc' = [pc EXCEPT ![t] = "open"]
  /\ UNCHANGED <<log, lock, tip>>

\* The lock is the transaction's: whatever ends it releases the lock.
LockAfter(t) == IF lock = t THEN "free" ELSE lock

Commit(t) == /\ pc[t] = "open"
             /\ due[t] = 0
             /\ log' = log \o pending[t]
             /\ pending' = [pending EXCEPT ![t] = <<>>]
             /\ lock' = LockAfter(t)
             /\ pc' = [pc EXCEPT ![t] = "ended"]
             /\ UNCHANGED <<due, tip>>

\* An error in any statement, or the connection is gone.
Rollback(t) == /\ pc[t] \notin {"idle", "ended"}
               /\ pending' = [pending EXCEPT ![t] = <<>>]
               /\ lock' = LockAfter(t)
               /\ pc' = [pc EXCEPT ![t] = "ended"]
               /\ UNCHANGED <<log, due, tip>>

Statement(t) == \/ TakeLock(t) \/ ReadTip(t) \/ Commit(t)
                \/ \E p \in Payloads : Insert(t, p)

Next == \E t \in Txs : \/ \E n \in 1..MaxEvents : Begin(t, n)
                       \/ Statement(t)
                       \/ Rollback(t)

Spec == Init /\ [][Next]_vars

-----------------------------------------------------------------------------
(* Properties *)

\* Every row carries the next chain_seq, the hash of the row before it and,
\* unless JSON does not keep its payload, a hash the verifier can rebuild.
Chained(rows) ==
  \A i \in 1..Len(rows) :
     /\ SeqFits(rows, i) /\ PrevFits(rows, i)
     /\ rows[i].payload # "dated" => HashFits(rows, i)

\* Whatever transactions run at the same time, commit or roll back, the rows
\* the hub has committed are one chain.
CommittedRowsChain == Chained(log)

\* audit/verify.ts: the hash the verifier rebuilds matches byte for byte what
\* the hub wrote, so that an untouched log verifies.
HonestLogVerifies == Verified(log)

-----------------------------------------------------------------------------
(* The inductive invariant behind CommittedRowsChain *)

HoldsLock(t) == pc[t] \in {"locked", "tipRead"} \/ pending[t] # <<>>

LockFits == \A t \in Txs : HoldsLock(t) => lock = t

TipFits == \A t \in Txs : pc[t] = "tipRead" =>
              /\ tip[t].seq = TipSeq(Visible(t))
              /\ tip[t].hash = TipHash(Visible(t))

EventsFit == \A t \in Txs :
               /\ Len(pending[t]) + due[t] <= MaxEvents
               /\ pc[t] \in {"locked", "tipRead"} => due[t] > 0
               /\ pc[t] \in {"idle", "ended"} => pending[t] = <<>>

VisibleChained == \A t \in Txs : Chained(Visible(t))

IInv == TypeOK /\ LockFits /\ TipFits /\ EventsFit /\ CommittedRowsChain /\ VisibleChained
=============================================================================
