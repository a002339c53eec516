-------------------------- MODULE AuditChainProofs --------------------------
(***************************************************************************)
(* CommittedRowsChain for any number of transactions of any length, by the *)
(* inductive invariant IInv: whoever is between its lock and the end of    *)
(* its transaction holds the lock, alone, so the tip it has read is still  *)
(* the tip when its row is inserted and when it is committed.              *)
(*                                                                         *)
(* VerifiesReplays for any number of events and steps of damage, by the    *)
(* inductive invariant DamageInv: a hash that is not lost was made over    *)
(* the event of its row's id.  What a table replays to is a fold, which is *)
(* unrolled into its turns by least counterexamples (LeastExists).         *)
(***************************************************************************)
EXTENDS MCAudit, SequenceTheorems, WellFoundedInduction, TLAPS

-----------------------------------------------------------------------------
(* Rows *)

LEMMA AppendToConcat ==
  ASSUME NEW S, NEW a \in Seq(S), NEW b \in Seq(S), NEW e \in S
  PROVE  a \o Append(b, e) = Append(a \o b, e)
<1>1. <<e>> \in Seq(S) /\ a \o b \in Seq(S)
  BY ConcatProperties
<1>2. Append(b, e) = b \o <<e>> /\ Append(a \o b, e) = (a \o b) \o <<e>>
  BY <1>1, AppendIsConcat
<1>3. (a \o b) \o <<e>> = a \o (b \o <<e>>)
  BY <1>1, ConcatAssociative
<1> QED BY <1>2, <1>3

\* A row made by insertAuditLog is a row of the table.
LEMMA NewRowType ==
  ASSUME NEW n \in Nat, NEW h \in Hashes, NEW id \in Ids, NEW p \in Payloads
  PROVE  NewRow(n, h, id, p) \in Rows
<1>1. Stored(p) \in Texts /\ Canonical(p) \in Texts
  BY PayloadsAssumption DEF Stored, Canonical, AllPayloads, Texts
<1>2. RowHash(h, id, p) \in Hashes
  BY <1>1, AppendProperties DEF RowHash, Hashes
<1> QED BY <1>1, <1>2 DEF NewRow, Rows

\* The newest row of a chain carries its length as chain_seq.
LEMMA TipOfChain ==
  ASSUME NEW rows \in Seq(Rows), Chained(rows)
  PROVE  TipSeq(rows) = Len(rows) /\ TipHash(rows) \in Hashes
<1>1. CASE rows = <<>>
  BY <1>1 DEF TipSeq, TipHash, Hashes, Genesis
<1>2. CASE rows # <<>>
  <2>1. Len(rows) \in 1..Len(rows)
    BY <1>2
  <2>2. rows[Len(rows)] \in Rows
    BY <2>1
  <2>3. rows[Len(rows)].seq = Len(rows)
    BY <2>1 DEF Chained, SeqFits
  <2> QED BY <1>2, <2>2, <2>3 DEF TipSeq, TipHash, Rows
<1> QED BY <1>1, <1>2

\* insertAuditLog extends a chain to a chain.
LEMMA ChainGrows ==
  ASSUME NEW rows \in Seq(Rows), Chained(rows), NEW id \in Ids, NEW p \in Payloads
  PROVE  Chained(Append(rows, NewRow(TipSeq(rows), TipHash(rows), id, p)))
<1> DEFINE r == NewRow(TipSeq(rows), TipHash(rows), id, p)
<1> DEFINE longer == Append(rows, r)
<1>1. TipSeq(rows) = Len(rows) /\ TipHash(rows) \in Hashes
  BY TipOfChain
<1>2. r \in Rows
  BY <1>1, NewRowType
<1>3. /\ Len(longer) = Len(rows) + 1
      /\ \A i \in 1..Len(rows) : longer[i] = rows[i]
      /\ longer[Len(rows) + 1] = r
  BY <1>2, AppendProperties
<1>4. /\ r.seq = Len(rows) + 1
      /\ r.prev = TipHash(rows)
      /\ r.id = id
      /\ r.payload = Stored(p)
      /\ r.hash = RowHash(TipHash(rows), id, p)
  BY <1>1 DEF NewRow
<1>5. r.payload # "dated" => r.hash = RowHash(TipHash(rows), r.id, r.payload)
  BY <1>4, PayloadsAssumption DEF Stored, Canonical, RowHash, AllPayloads
<1> HIDE DEF r, longer
<1> SUFFICES ASSUME NEW i \in 1..Len(longer)
             PROVE  /\ SeqFits(longer, i) /\ PrevFits(longer, i)
                    /\ longer[i].payload # "dated" => HashFits(longer, i)
  BY DEF Chained, longer, r
<1>6. CASE i <= Len(rows)
  <2>1. i \in 1..Len(rows) /\ longer[i] = rows[i] /\ (i # 1 => longer[i - 1] = rows[i - 1])
    BY <1>3, <1>6
  <2> QED BY <2>1 DEF Chained, SeqFits, PrevFits, HashFits
<1>7. CASE i = Len(rows) + 1
  <2>1. TipHash(rows) = IF i = 1 THEN Genesis ELSE longer[i - 1].hash
    BY <1>3, <1>7 DEF TipHash
  <2>2. longer[i] = r
    BY <1>3, <1>7
  <2> QED BY <1>4, <1>5, <1>7, <2>1, <2>2 DEF SeqFits, PrevFits, HashFits
<1> QED BY <1>3, <1>6, <1>7

-----------------------------------------------------------------------------
(* The invariant *)

LEMMA InitIInv == Init => IInv
<1> SUFFICES ASSUME Init PROVE IInv
  OBVIOUS
<1>1. TypeOK
  BY MaxEventsAssumption DEF Init, TypeOK, Pcs, Hashes, Genesis
<1>2. LockFits /\ TipFits /\ EventsFit
  BY MaxEventsAssumption DEF Init, LockFits, HoldsLock, TipFits, EventsFit
<1>3. \A t \in Txs : Visible(t) = <<>>
  BY DEF Init, Visible
<1>4. Chained(<<>>)
  BY DEF Chained
<1> QED BY <1>1, <1>2, <1>3, <1>4 DEF IInv, CommittedRowsChain, VisibleChained, Init

\* What a transaction sees has the rows of the log and its own.
LEMMA VisibleType ==
  ASSUME TypeOK, NEW t \in Txs
  PROVE  Visible(t) \in Seq(Rows)
BY ConcatProperties DEF TypeOK, Visible

\* Steps that touch neither the log nor any pending row.
LEMMA RowsKept ==
  ASSUME IInv, UNCHANGED <<log, pending>>
  PROVE  /\ CommittedRowsChain' /\ VisibleChained'
         /\ \A t \in Txs : Visible(t)' = Visible(t)
BY DEF IInv, CommittedRowsChain, VisibleChained, Visible

LEMMA BeginStep ==
  ASSUME IInv, NEW t \in Txs, NEW n \in 1..MaxEvents, Begin(t, n)
  PROVE  IInv'
<1> USE DEF Begin
<1>1. TypeOK'
  BY MaxEventsAssumption DEF IInv, TypeOK, Pcs
<1>2. LockFits'
  BY DEF IInv, TypeOK, LockFits, HoldsLock
<1>3. TipFits'
  BY RowsKept DEF IInv, TypeOK, TipFits
<1>4. EventsFit'
  BY MaxEventsAssumption DEF IInv, TypeOK, EventsFit
<1> QED BY <1>1, <1>2, <1>3, <1>4, RowsKept DEF IInv

LEMMA TakeLockStep ==
  ASSUME IInv, NEW t \in Txs, TakeLock(t)
  PROVE  IInv'
<1> USE DEF TakeLock
<1>1. TypeOK'
  BY DEF IInv, TypeOK, Pcs
<1>2. LockFits'
  BY FreeAssumption DEF IInv, TypeOK, LockFits, HoldsLock, LockGranted
<1>3. TipFits'
  BY RowsKept DEF IInv, TypeOK, TipFits
<1>4. EventsFit'
  BY DEF IInv, TypeOK, EventsFit
<1> QED BY <1>1, <1>2, <1>3, <1>4, RowsKept DEF IInv

LEMMA ReadTipStep ==
  ASSUME IInv, NEW t \in Txs, ReadTip(t)
  PROVE  IInv'
<1> USE DEF ReadTip
<1>1. Visible(t) \in Seq(Rows) /\ Chained(Visible(t))
  BY VisibleType DEF IInv, VisibleChained
<1>2. TipSeq(Visible(t)) \in Nat /\ TipHash(Visible(t)) \in Hashes
  BY <1>1, TipOfChain
<1>3. TypeOK'
  BY <1>2 DEF IInv, TypeOK, Pcs
<1>4. LockFits'
  BY DEF IInv, TypeOK, LockFits, HoldsLock
<1>5. TipFits'
  BY RowsKept DEF IInv, TypeOK, TipFits
<1>6. EventsFit'
  BY DEF IInv, TypeOK, EventsFit
<1> QED BY <1>3, <1>4, <1>5, <1>6, RowsKept DEF IInv

\* The tip is still what it was when it was read, so the row continues it.
LEMMA InsertStep ==
  ASSUME IInv, NEW t \in Txs, NEW p \in Payloads, Insert(t, p)
  PROVE  IInv'
<1> DEFINE id == <<t, Len(pending[t]) + 1>>
<1> DEFINE r == NewRow(tip[t].seq, tip[t].hash, id, p)
<1> USE DEF Insert
<1>1. pending[t] \in Seq(Rows) /\ log \in Seq(Rows) /\ due[t] \in 0..MaxEvents
  BY DEF IInv, TypeOK
<1>2. id \in Ids
  BY <1>1, IdsAssumption, MaxEventsAssumption DEF IInv, EventsFit
<1>3. r \in Rows
  BY <1>2, NewRowType DEF IInv, TypeOK
<1>4. r = NewRow(TipSeq(Visible(t)), TipHash(Visible(t)), id, p)
  BY DEF IInv, TipFits
<1> HIDE DEF r, id
<1>5. /\ pending' = [pending EXCEPT ![t] = Append(pending[t], r)]
      /\ pending'[t] = Append(pending[t], r)
      /\ \A u \in Txs : u # t => pending'[u] = pending[u]
  BY DEF IInv, TypeOK, r, id
<1>6. /\ Append(pending[t], r) \in Seq(Rows)
      /\ Append(pending[t], r) # <<>>
      /\ Len(Append(pending[t], r)) = Len(pending[t]) + 1
  BY <1>1, <1>3, AppendProperties
<1>7. TypeOK'
  BY <1>5, <1>6, MaxEventsAssumption DEF IInv, TypeOK, EventsFit, Pcs
<1>8. LockFits'
  BY <1>5 DEF IInv, TypeOK, LockFits, HoldsLock
<1>9. \A u \in Txs : pc[u] = "tipRead" => u = t
  BY FreeAssumption DEF IInv, LockFits, HoldsLock
<1>10. TipFits'
  BY <1>9 DEF IInv, TypeOK, TipFits
<1>11. EventsFit'
  <2> SUFFICES ASSUME NEW u \in Txs
               PROVE  /\ Len(pending'[u]) + due'[u] <= MaxEvents
                      /\ pc'[u] \in {"locked", "tipRead"} => due'[u] > 0
                      /\ pc'[u] \in {"idle", "ended"} => pending'[u] = <<>>
    BY DEF EventsFit
  <2>1. CASE u = t
    BY <1>1, <1>5, <1>6, <2>1, MaxEventsAssumption DEF IInv, TypeOK, EventsFit
  <2>2. CASE u # t
    BY <1>5, <2>2 DEF IInv, TypeOK, EventsFit
  <2> QED BY <2>1, <2>2
<1>12. Visible(t)' = Append(Visible(t), r)
  <2>1. Visible(t)' = log \o pending'[t]
    BY DEF Visible
  <2>2. \A a, b \in Seq(Rows) : \A e \in Rows : a \o Append(b, e) = Append(a \o b, e)
    BY AppendToConcat
  <2>3. log \o Append(pending[t], r) = Append(log \o pending[t], r)
    BY <1>1, <1>3, <2>2, Zenon
  <2> QED BY <1>5, <2>1, <2>3 DEF Visible
<1>13. Chained(Visible(t)')
  BY <1>2, <1>4, <1>12, ChainGrows, VisibleType DEF IInv, VisibleChained
<1>14. VisibleChained'
  <2> SUFFICES ASSUME NEW u \in Txs
               PROVE  Chained(Visible(u)')
    BY DEF VisibleChained, Chained, SeqFits, PrevFits, HashFits
  <2>1. CASE u = t
    BY <1>13, <2>1
  <2>2. CASE u # t
    BY <1>5, <2>2 DEF IInv, VisibleChained, Visible
  <2> QED BY <2>1, <2>2
<1>15. CommittedRowsChain'
  BY DEF IInv, CommittedRowsChain
<1> QED BY <1>7, <1>8, <1>10, <1>11, <1>14, <1>15 DEF IInv

\* The end of a transaction, of which only the log is left to tell apart.
LEMMA EndStep ==
  ASSUME IInv, NEW t \in Txs,
         pending' = [pending EXCEPT ![t] = <<>>],
         lock' = LockAfter(t),
         pc' = [pc EXCEPT ![t] = "ended"],
         UNCHANGED <<due, tip>>,
         log' = log \/ log' = Visible(t)
  PROVE  IInv'
<1>1. log' \in Seq(Rows) /\ Chained(log')
  BY VisibleType DEF IInv, CommittedRowsChain, VisibleChained, TypeOK
<1>2. TypeOK'
  BY <1>1 DEF IInv, TypeOK, LockAfter, Pcs
<1>3. LockFits'
  BY FreeAssumption DEF IInv, TypeOK, LockFits, HoldsLock, LockAfter
<1>4. \A u \in Txs : log' = log \/ pending'[u] = <<>>
  <2> SUFFICES ASSUME NEW u \in Txs, log' # log
               PROVE  pending'[u] = <<>>
    OBVIOUS
  <2>1. log' = log \o pending[t] /\ log \o <<>> = log
    BY ConcatEmptySeq DEF Visible, IInv, TypeOK
  <2>2. pending[t] # <<>>
    BY <2>1
  <2> QED BY <2>2, FreeAssumption DEF IInv, TypeOK, LockFits, HoldsLock
<1>5. \A u \in Txs : pc'[u] = "tipRead" => u # t /\ Visible(u)' = Visible(u)
  <2> SUFFICES ASSUME NEW u \in Txs, pc'[u] = "tipRead"
               PROVE  u # t /\ Visible(u)' = Visible(u)
    OBVIOUS
  <2>1. u # t /\ pc[u] = "tipRead" /\ pending'[u] = pending[u]
    BY DEF IInv, TypeOK
  <2>2. lock = u
    BY <2>1 DEF IInv, LockFits, HoldsLock
  <2>3. pending[t] = <<>>
    BY <2>1, <2>2 DEF IInv, LockFits, HoldsLock
  <2>4. log' = log
    BY <2>3, ConcatEmptySeq DEF Visible, IInv, TypeOK
  <2> QED BY <2>1, <2>4 DEF Visible
<1>6. TipFits'
  BY <1>5 DEF IInv, TipFits, TypeOK
<1>7. EventsFit'
  BY MaxEventsAssumption DEF IInv, TypeOK, EventsFit
<1>8. CommittedRowsChain'
  BY <1>1 DEF CommittedRowsChain, Chained, SeqFits, PrevFits, HashFits
<1>9. VisibleChained'
  <2> SUFFICES ASSUME NEW u \in Txs
               PROVE  Chained(Visible(u)')
    BY DEF VisibleChained, Chained, SeqFits, PrevFits, HashFits
  <2>1. Visible(u)' = log' \o pending'[u]
    BY DEF Visible
  <2>2. CASE pending'[u] = <<>>
    BY <1>1, <2>1, <2>2, ConcatEmptySeq
  <2>3. CASE log' = log /\ pending'[u] # <<>>
    <3>1. u # t /\ pending'[u] = pending[u]
      BY <2>3 DEF IInv, TypeOK
    <3> QED BY <2>1, <2>3, <3>1 DEF IInv, VisibleChained, Visible
  <2> QED BY <1>4, <2>2, <2>3
<1> QED BY <1>2, <1>3, <1>6, <1>7, <1>8, <1>9 DEF IInv

LEMMA NextIInv ==
  ASSUME IInv, [Next]_vars
  PROVE  IInv'
<1>1. CASE UNCHANGED vars
  <2>1. TypeOK' /\ LockFits' /\ EventsFit'
    BY <1>1 DEF IInv, vars, TypeOK, LockFits, HoldsLock, EventsFit
  <2>2. TipFits'
    BY <1>1, RowsKept DEF IInv, vars, TipFits
  <2> QED BY <1>1, <2>1, <2>2, RowsKept DEF IInv, vars
<1>2. ASSUME NEW t \in Txs, NEW n \in 1..MaxEvents, Begin(t, n)
      PROVE  IInv'
  BY <1>2, BeginStep
<1>3. ASSUME NEW t \in Txs, TakeLock(t)
      PROVE  IInv'
  BY <1>3, TakeLockStep
<1>4. ASSUME NEW t \in Txs, ReadTip(t)
      PROVE  IInv'
  BY <1>4, ReadTipStep
<1>5. ASSUME NEW t \in Txs, NEW p \in Payloads, Insert(t, p)
      PROVE  IInv'
  BY <1>5, InsertStep
<1>6. ASSUME NEW t \in Txs, Commit(t)
      PROVE  IInv'
  BY <1>6, EndStep DEF Commit, Visible
<1>7. ASSUME NEW t \in Txs, Rollback(t)
      PROVE  IInv'
  BY <1>7, EndStep DEF Rollback
<1> QED BY <1>1, <1>2, <1>3, <1>4, <1>5, <1>6, <1>7 DEF Next, Statement

\* The strengthened invariant holds whatever transactions run together.
THEOREM Invariance == Spec => []IInv
<1>1. IInv /\ [Next]_vars => IInv'
  BY NextIInv
<1> QED BY <1>1, InitIInv, PTL DEF Spec

\* insertAuditLog keeps the variables in their types.
THEOREM TypeCorrect == Spec => []TypeOK
<1>1. IInv => TypeOK
  BY DEF IInv
<1> QED BY <1>1, Invariance, PTL

\* Concurrent insertAuditLog calls of one app never fork the chain, skip a
\* chain_seq or use one twice, also when transactions roll back.
THEOREM CommittedChain == Spec => []CommittedRowsChain
<1>1. IInv => CommittedRowsChain
  BY DEF IInv
<1> QED BY <1>1, Invariance, PTL

-----------------------------------------------------------------------------
(* The fold of Replay *)

\* A set of numbers that is not empty has a least one.
LEMMA LeastExists ==
  ASSUME NEW T \in SUBSET Nat, T # {}
  PROVE  \E k \in T : \A j \in T : k <= j
<1>1. PICK k \in T : \A j \in T : ~(<<j, k>> \in OpToRel(<, Nat))
  BY NatLessThanWellFounded, WFMin
<1>2. \A j \in T : ~(j < k) /\ j \in Nat /\ k \in Nat
  BY <1>1 DEF OpToRel
<1> QED BY <1>2

\* What Replay folds over the positions 1..n, as a function of the positions.
Fold(n, g, ids) ==
  [s \in SUBSET (1..n) |->
     IF s = {} THEN <<>>
     ELSE Damage!Insert(g[s \ {Damage!Max(s)}], ids[Damage!Max(s)], events[ids[Damage!Max(s)]])]

LEMMA MaxIs ==
  ASSUME NEW k \in Nat, NEW s \in SUBSET (1..k), k \in s
  PROVE  Damage!Max(s) = k
<1>1. \A j \in s : k >= j /\ j \in Nat
  OBVIOUS
<1> DEFINE m == Damage!Max(s)
<1>2. m \in s /\ \A j \in s : m >= j
  BY <1>1 DEF Damage!Max
<1> HIDE DEF m
<1>3. m >= k /\ k >= m /\ m \in Nat
  BY <1>1, <1>2
<1>4. m = k
  BY <1>3
<1> QED BY <1>4 DEF m

\* The recursion has a solution: one for n positions extends one for n - 1.
LEMMA FoldExists ==
  ASSUME NEW n \in Nat, NEW ids
  PROVE  \E g : g = Fold(n, g, ids)
<1> DEFINE Bad == {m \in Nat : ~ \E g : g = Fold(m, g, ids)}
<1> SUFFICES ASSUME Bad # {} PROVE FALSE
  OBVIOUS
<1>1. PICK k \in Bad : \A j \in Bad : k <= j
  <2>1. Bad \in SUBSET Nat
    OBVIOUS
  <2> HIDE DEF Bad
  <2> QED BY <2>1, LeastExists
<1>2. k \in Nat /\ ~ \E g : g = Fold(k, g, ids)
  OBVIOUS
<1>3. k # 0
  <2>1. SUFFICES ASSUME k = 0 PROVE FALSE
    OBVIOUS
  <2> DEFINE g == [s \in SUBSET (1..0) |-> <<>>]
  <2>2. \A s \in SUBSET (1..0) : s = {}
    OBVIOUS
  <2>3. g = Fold(0, g, ids)
    BY <2>2 DEF Fold
  <2> QED BY <2>1, <2>3, <1>2
<1>4. k - 1 \in Nat /\ k - 1 \notin Bad
  BY <1>1, <1>2, <1>3
<1>5. PICK g : g = Fold(k - 1, g, ids)
  BY <1>4
<1> HIDE DEF Bad
<1> DEFINE h == [s \in SUBSET (1..k) |->
                   IF k \in s THEN Damage!Insert(g[s \ {k}], ids[k], events[ids[k]])
                   ELSE g[s]]
<1>6. \A s \in SUBSET (1..k) : s \ {k} \in SUBSET (1..(k - 1)) /\ s \ {k} \in SUBSET (1..k)
  BY <1>2, <1>4
<1>7. ASSUME NEW s \in SUBSET (1..k)
      PROVE  h[s] = Fold(k, h, ids)[s]
  <2>1. CASE k \in s
    <3>1. Damage!Max(s) = k /\ s # {}
      BY <2>1, <1>2, MaxIs
    <3>2. h[s \ {k}] = g[s \ {k}]
      BY <1>6
    <3>3. Fold(k, h, ids)[s] = Damage!Insert(h[s \ {k}], ids[k], events[ids[k]])
      BY <3>1 DEF Fold
    <3> QED BY <2>1, <3>2, <3>3
  <2>2. CASE s = {}
    <3>1. h[s] = g[s] /\ s \in SUBSET (1..(k - 1))
      BY <2>2
    <3>2. g[s] = <<>>
      BY <1>5, <3>1, <2>2 DEF Fold
    <3>3. Fold(k, h, ids)[s] = <<>>
      BY <2>2 DEF Fold
    <3> QED BY <3>1, <3>2, <3>3
  <2>3. CASE k \notin s /\ s # {}
    <3> DEFINE m == Damage!Max(s)
    <3>1. s \in SUBSET (1..(k - 1)) /\ s \ {m} \in SUBSET (1..k) /\ k \notin s \ {m}
      BY <2>3, <1>6
    <3>2. h[s] = g[s] /\ h[s \ {m}] = g[s \ {m}]
      BY <3>1, <2>3
    <3>3. g[s] = Damage!Insert(g[s \ {m}], ids[m], events[ids[m]])
      BY <1>5, <3>1, <2>3 DEF Fold
    <3>4. Fold(k, h, ids)[s] = Damage!Insert(h[s \ {m}], ids[m], events[ids[m]])
      BY <2>3 DEF Fold
    <3> QED BY <3>2, <3>3, <3>4
  <2> QED BY <2>1, <2>2, <2>3
<1>8. h = Fold(k, h, ids)
  <2>1. Fold(k, h, ids) = [s \in SUBSET (1..k) |-> Fold(k, h, ids)[s]]
    BY DEF Fold
  <2>2. h = [s \in SUBSET (1..k) |-> h[s]]
    OBVIOUS
  <2> HIDE DEF h
  <2> QED BY <2>1, <2>2, <1>7
<1> QED BY <1>8, <1>2

\* Replay inserts the events one after the other: its tables of the first
\* 0, 1, 2, ... events.
LEMMA ReplayByTurns ==
  ASSUME NEW n \in Nat, NEW ids, DOMAIN ids = 1..n
  PROVE  \E turn : /\ turn[0] = <<>>
                   /\ \A k \in 1..n :
                        turn[k] = Damage!Insert(turn[k - 1], ids[k], events[ids[k]])
                   /\ Damage!Replay(ids) = turn[n]
<1> DEFINE g == CHOOSE f : f = Fold(n, f, ids)
<1>1. g = Fold(n, g, ids)
  BY FoldExists
<1>2. Damage!Replay(ids) = g[1..n]
  BY DEF Damage!Replay, Damage!FoldLeft, Damage!MapThenFoldSet, Fold
<1> HIDE DEF g
<1> DEFINE turn == [k \in 0..n |-> g[1..k]]
<1>3. turn[0] = <<>>
  <2>1. 1..0 = {} /\ 1..0 \in SUBSET (1..n) /\ 0 \in 0..n
    OBVIOUS
  <2> QED BY <2>1, <1>1 DEF Fold
<1>4. ASSUME NEW k \in 1..n
      PROVE  turn[k] = Damage!Insert(turn[k - 1], ids[k], events[ids[k]])
  <2>0. k \in Nat /\ k <= n /\ 1 <= k /\ k - 1 \in 0..n /\ k \in 0..n
    OBVIOUS
  <2>1. 1..k \in SUBSET (1..n) /\ 1..k # {} /\ k \in 1..k
    BY <2>0
  <2>4. (1..k) \ {k} = 1..(k - 1)
    BY <2>0
  <2>2. Damage!Max(1..k) = k
    BY <2>0, <2>1, MaxIs
  <2>3. g[1..k] = Damage!Insert(g[1..(k - 1)], ids[k], events[ids[k]])
    BY <1>1, <2>1, <2>2, <2>4 DEF Fold
  <2> QED BY <2>0, <2>3
<1>5. turn[n] = g[1..n]
  OBVIOUS
<1> QED BY <1>2, <1>3, <1>4, <1>5

-----------------------------------------------------------------------------
(* The verifier and the fold *)

\* These payloads have one text: what is hashed is what is stored.
LEMMA OneText ==
  /\ \A t \in Damage!Texts : Damage!Canonical(t) = t
  /\ \A p \in {"object", "null"} : /\ Damage!Canonical(p) = p
                                   /\ Damage!Stored(p) = p
                                   /\ p \in Damage!Texts
BY DEF Damage!Canonical, Damage!Stored, Damage!Texts

\* Of a row of the table: an event of its id was written, and its hash, unless
\* lost, is one made over the payload of that event.
Written(r) ==
  /\ r.id \in 1..Len(events)
  /\ r.hash # <<>> =>
       \E h \in Damage!Hashes : r.hash = Append(h, <<r.id, events[r.id]>>)

DamageInv ==
  /\ Damage!TypeOK
  /\ \A i \in 1..Len(table) : Written(table[i])
  /\ \A i \in 1..Len(copy) : Written(copy[i])

\* A row written over a tip.
LEMMA DamageRowType ==
  ASSUME NEW n \in Nat, NEW h \in Damage!Hashes, NEW id \in 1..MaxWrites,
         NEW p \in {"object", "null"}
  PROVE  LET r == Damage!NewRow(n, h, id, p) IN
         /\ r \in Damage!Rows
         /\ r = [id |-> id, payload |-> p, seq |-> n + 1, prev |-> h,
                 hash |-> Append(h, <<id, p>>)]
<1>1. <<id, p>> \in (1..MaxWrites) \X Damage!Texts
  BY OneText
<1>2. Append(h, <<id, p>>) \in Damage!Hashes
  BY <1>1, AppendProperties DEF Damage!Hashes
<1>3. Damage!NewRow(n, h, id, p) =
        [id |-> id, payload |-> p, seq |-> n + 1, prev |-> h, hash |-> Append(h, <<id, p>>)]
  BY OneText DEF Damage!NewRow, Damage!RowHash
<1>4. p \in Damage!Texts /\ n + 1 \in Nat
  BY OneText
<1> QED BY <1>2, <1>3, <1>4 DEF Damage!Rows

LEMMA DamageTipType ==
  ASSUME NEW rows \in Seq(Damage!Rows)
  PROVE  Damage!TipSeq(rows) \in Nat /\ Damage!TipHash(rows) \in Damage!Hashes
<1>1. CASE rows = <<>>
  BY <1>1 DEF Damage!TipSeq, Damage!TipHash, Damage!Hashes, Damage!Genesis
<1>2. CASE rows # <<>>
  <2>1. Len(rows) \in 1..Len(rows)
    BY <1>2
  <2>2. rows[Len(rows)] \in Damage!Rows
    BY <2>1
  <2> QED BY <1>2, <2>2 DEF Damage!TipSeq, Damage!TipHash, Damage!Rows
<1> QED BY <1>1, <1>2

\* The tip of a table that verifies.
LEMMA VerifiedTip ==
  ASSUME NEW rows \in Seq(Damage!Rows), Damage!Verified(rows)
  PROVE  /\ Damage!TipSeq(rows) = Len(rows)
         /\ Damage!TipHash(rows) = IF Len(rows) = 0 THEN <<>> ELSE rows[Len(rows)].hash
<1>1. CASE rows = <<>>
  BY <1>1 DEF Damage!TipSeq, Damage!TipHash, Damage!Genesis
<1>2. CASE rows # <<>>
  <2>1. Len(rows) \in 1..Len(rows) /\ Len(rows) # 0
    BY <1>2
  <2>2. rows[Len(rows)].seq = Len(rows)
    BY <2>1 DEF Damage!Verified, Damage!RowFits, Damage!SeqFits
  <2> QED BY <1>2, <2>1, <2>2 DEF Damage!TipSeq, Damage!TipHash
<1> QED BY <1>1, <1>2

\* A write keeps a table verified.
LEMMA InsertVerifies ==
  ASSUME NEW rows \in Seq(Damage!Rows), Damage!Verified(rows),
         NEW id \in 1..MaxWrites, NEW p \in {"object", "null"}
  PROVE  LET longer == Damage!Insert(rows, id, p) IN
         /\ longer \in Seq(Damage!Rows)
         /\ Len(longer) = Len(rows) + 1
         /\ Damage!Verified(longer)
<1> DEFINE h == Damage!TipHash(rows)
           r == Damage!NewRow(Len(rows), h, id, p)
           longer == Append(rows, r)
<1>1. Damage!Insert(rows, id, p) = longer
  BY VerifiedTip DEF Damage!Insert
<1>2. Len(rows) \in Nat /\ h \in Damage!Hashes
  BY DamageTipType
<1>3. /\ r \in Damage!Rows
      /\ r = [id |-> id, payload |-> p, seq |-> Len(rows) + 1, prev |-> h,
              hash |-> Append(h, <<id, p>>)]
  BY <1>2, DamageRowType
<1>4. h = IF Len(rows) = 0 THEN <<>> ELSE rows[Len(rows)].hash
  BY VerifiedTip
<1> HIDE DEF h, r
<1>5. /\ longer \in Seq(Damage!Rows)
      /\ Len(longer) = Len(rows) + 1
      /\ \A i \in 1..Len(rows) : longer[i] = rows[i]
      /\ longer[Len(rows) + 1] = r
  BY <1>3, AppendProperties
<1> HIDE DEF longer
<1>6. ASSUME NEW i \in 1..Len(longer)
      PROVE  Damage!RowFits(longer, i)
  <2>1. CASE i <= Len(rows)
    <3>1. i \in 1..Len(rows) /\ longer[i] = rows[i]
      BY <1>2, <1>5, <2>1
    <3>2. i # 1 => longer[i - 1] = rows[i - 1]
      BY <1>2, <1>5, <2>1
    <3>3. Damage!RowFits(rows, i)
      BY <3>1 DEF Damage!Verified
    <3> QED BY <3>1, <3>2, <3>3
         DEF Damage!RowFits, Damage!SeqFits, Damage!PrevFits, Damage!HashFits
  <2>2. CASE i = Len(rows) + 1
    <3>1. longer[i] = r
      BY <1>5, <2>2
    <3>2. h = IF i = 1 THEN <<>> ELSE longer[i - 1].hash
      <4>1. i # 1 => Len(rows) \in 1..Len(rows) /\ i - 1 = Len(rows)
        BY <1>2, <2>2
      <4>2. i = 1 => Len(rows) = 0
        BY <1>2, <2>2
      <4>3. i # 1 => Len(rows) # 0
        BY <1>2, <2>2
      <4> QED BY <4>1, <4>2, <4>3, <1>4, <1>5
    <3>3. Damage!SeqFits(longer, i)
      BY <3>1, <1>3, <2>2 DEF Damage!SeqFits
    <3>4. Damage!PrevFits(longer, i)
      BY <3>1, <3>2, <1>3 DEF Damage!PrevFits, Damage!Genesis
    <3>5. Damage!HashFits(longer, i)
      BY <3>1, <3>2, <1>3, OneText DEF Damage!HashFits, Damage!Genesis, Damage!RowHash
    <3> QED BY <3>3, <3>4, <3>5 DEF Damage!RowFits
  <2> QED BY <1>2, <1>5, <2>1, <2>2
<1> QED BY <1>1, <1>5, <1>6 DEF Damage!Verified

\* Of a table that verifies, the k-th row is what a write of its event puts on
\* the k - 1 rows before it.
LEMMA VerifiedTurn ==
  ASSUME DamageInv, Damage!Verified(table), NEW k \in 1..Len(table)
  PROVE  Damage!Insert(SubSeq(table, 1, k - 1), table[k].id, events[table[k].id])
           = SubSeq(table, 1, k)
<1> DEFINE a == SubSeq(table, 1, k - 1)
           h == IF k = 1 THEN <<>> ELSE table[k - 1].hash
           e == events[table[k].id]
<1>1. table \in Seq(Damage!Rows) /\ events \in Seq({"object", "null"})
  BY DEF DamageInv, Damage!TypeOK
<1>2. table[k] \in Damage!Rows
  BY <1>1
<1>3. e \in {"object", "null"}
  <2>1. table[k].id \in 1..Len(events)
    BY DEF DamageInv, Written
  <2> QED BY <2>1, <1>1
<1>4. /\ a \in Seq(Damage!Rows)
      /\ Len(a) = k - 1
      /\ \A i \in 1..(k - 1) : a[i] = table[i]
  <2>1. \A i \in 1..(k - 1) : table[i] \in Damage!Rows
    BY <1>1
  <2>2. k \in Nat /\ k >= 1 /\ k - 1 \in Int /\ 1 \in Int /\ Len(table) \in Nat
    BY <1>1
  <2> QED BY <2>1, <2>2, SubSeqProperties
<1>5. Damage!TipSeq(a) = k - 1 /\ Damage!TipHash(a) = h
  <2>1. CASE k = 1
    <3>1. a = <<>>
      BY <1>4, <2>1
    <3> QED BY <3>1, <2>1 DEF Damage!TipSeq, Damage!TipHash, Damage!Genesis
  <2>2. CASE k # 1
    <3>1. a # <<>> /\ k - 1 \in 1..(k - 1) /\ k - 1 \in 1..Len(table)
      BY <1>1, <1>4, <2>2
    <3>2. a[Len(a)] = table[k - 1] /\ table[k - 1].seq = k - 1
      BY <1>4, <3>1 DEF Damage!Verified, Damage!RowFits, Damage!SeqFits
    <3> QED BY <2>2, <3>1, <3>2 DEF Damage!TipSeq, Damage!TipHash
  <2> QED BY <2>1, <2>2
<1>6. h \in Damage!Hashes
  BY <1>4, <1>5, DamageTipType
<1>7. /\ table[k].seq = k
      /\ table[k].prev = h
      /\ table[k].hash = Append(h, <<table[k].id, table[k].payload>>)
  <2>1. Damage!RowFits(table, k)
    BY DEF Damage!Verified
  <2>2. table[k].payload \in Damage!Texts
    BY <1>2 DEF Damage!Rows
  <2> QED BY <2>1, <2>2, OneText
       DEF Damage!RowFits, Damage!SeqFits, Damage!PrevFits, Damage!HashFits,
           Damage!RowHash, Damage!Genesis
<1>8. table[k].payload = e
  <2> DEFINE S == (1..MaxWrites) \X Damage!Texts
             x == <<table[k].id, table[k].payload>>
             y == <<table[k].id, e>>
  <2>1. x \in S /\ y \in S
    BY <1>2, <1>3, OneText DEF Damage!Rows
  <2>2. table[k].hash # <<>>
    BY <1>6, <1>7, <2>1, AppendProperties DEF Damage!Hashes
  <2>3. PICK g \in Damage!Hashes : table[k].hash = Append(g, y)
    BY <2>2 DEF DamageInv, Written
  <2>4. h \in Seq(S) /\ g \in Seq(S) /\ Append(h, x) = Append(g, y)
    BY <1>6, <1>7, <2>3 DEF Damage!Hashes
  <2> HIDE DEF S, x, y
  <2>5. x = y
    BY <2>1, <2>4, AppendInjective
  <2> QED BY <2>5 DEF x, y
<1>9. Damage!NewRow(k - 1, h, table[k].id, e) = table[k]
  <2>1. table[k].id \in 1..MaxWrites /\ k - 1 \in Nat
    BY <1>1, <1>2 DEF Damage!Rows
  <2>2. Damage!NewRow(k - 1, h, table[k].id, e)
          = [id |-> table[k].id, payload |-> e, seq |-> (k - 1) + 1, prev |-> h,
             hash |-> Append(h, <<table[k].id, e>>)]
    BY <1>3, <1>6, <2>1, DamageRowType
  <2>3. (k - 1) + 1 = k
    BY <1>1
  <2>4. table[k] = [id |-> table[k].id, payload |-> table[k].payload, seq |-> table[k].seq,
                    prev |-> table[k].prev, hash |-> table[k].hash]
    BY <1>2 DEF Damage!Rows
  <2> HIDE DEF h, e
  <2> QED BY <1>7, <1>8, <2>2, <2>3, <2>4
<1>10. Append(a, table[k]) = SubSeq(table, 1, k)
  <2>1. 1 \in 1..Len(table) /\ k \in 1..Len(table)
    BY <1>1
  <2>2. SubSeq(table, 1, k) = SubSeq(table, 1, k - 1) \o <<table[k]>>
    BY <1>1, <2>1, SubSeqRecursiveSecond
  <2>3. Append(a, table[k]) = a \o <<table[k]>>
    BY <1>2, <1>4, AppendIsConcat
  <2> QED BY <2>2, <2>3
<1> QED BY <1>5, <1>9, <1>10 DEF Damage!Insert

\* A table that verifies is the fold over its rows' events.
LEMMA VerifiedIsReplay ==
  ASSUME DamageInv, Damage!Verified(table)
  PROVE  table = Damage!Replay([i \in 1..Len(table) |-> table[i].id])
<1> DEFINE n == Len(table)
           ids == [i \in 1..n |-> table[i].id]
<1>1. n \in Nat /\ DOMAIN ids = 1..n /\ table \in Seq(Damage!Rows)
  BY DEF DamageInv, Damage!TypeOK
<1>2. PICK turn : /\ turn[0] = <<>>
                  /\ \A k \in 1..n :
                       turn[k] = Damage!Insert(turn[k - 1], ids[k], events[ids[k]])
                  /\ Damage!Replay(ids) = turn[n]
  BY <1>1, ReplayByTurns
<1>3. \A k \in 1..n : ids[k] = table[k].id
  OBVIOUS
<1>4. SubSeq(table, 1, 0) = <<>> /\ SubSeq(table, 1, n) = table
  BY <1>1, SubSeqEmpty, SubSeqFull
<1> HIDE DEF ids
<1> DEFINE Bad == {k \in 0..n : turn[k] # SubSeq(table, 1, k)}
<1>5. Bad = {}
  <2> SUFFICES ASSUME Bad # {} PROVE FALSE
    OBVIOUS
  <2>1. Bad \in SUBSET Nat
    BY <1>1
  <2> HIDE DEF Bad
  <2>2. PICK k \in Bad : \A j \in Bad : k <= j
    BY <2>1, LeastExists
  <2>3. k \in 0..n /\ turn[k] # SubSeq(table, 1, k)
    BY <2>2 DEF Bad
  <2>4. k # 0
    BY <1>2, <1>4, <2>3
  <2>5. k \in 1..n /\ k - 1 \in 0..n /\ ~(k <= k - 1)
    BY <1>1, <2>3, <2>4
  <2>6. turn[k - 1] = SubSeq(table, 1, k - 1)
    BY <2>2, <2>5 DEF Bad
  <2>7. turn[k] = Damage!Insert(SubSeq(table, 1, k - 1), table[k].id, events[table[k].id])
    BY <1>2, <1>3, <2>5, <2>6
  <2>8. turn[k] = SubSeq(table, 1, k)
    BY <2>5, <2>7, VerifiedTurn
  <2> QED BY <2>3, <2>8
<1>6. n \in 0..n
  BY <1>1
<1>7. turn[n] = SubSeq(table, 1, n)
  BY <1>5, <1>6
<1> QED BY <1>2, <1>4, <1>7 DEF ids

\* The fold over events that were written verifies.
LEMMA ReplayIsVerified ==
  ASSUME DamageInv
  PROVE  Damage!Verified(Damage!Replay([i \in 1..Len(table) |-> table[i].id]))
<1> DEFINE n == Len(table)
           ids == [i \in 1..n |-> table[i].id]
<1>1. /\ n \in Nat /\ DOMAIN ids = 1..n /\ table \in Seq(Damage!Rows)
      /\ events \in Seq({"object", "null"})
  BY DEF DamageInv, Damage!TypeOK
<1>2. PICK turn : /\ turn[0] = <<>>
                  /\ \A k \in 1..n :
                       turn[k] = Damage!Insert(turn[k - 1], ids[k], events[ids[k]])
                  /\ Damage!Replay(ids) = turn[n]
  BY <1>1, ReplayByTurns
<1>3. \A k \in 1..n : ids[k] \in 1..MaxWrites /\ events[ids[k]] \in {"object", "null"}
  <2> SUFFICES ASSUME NEW k \in 1..n
               PROVE  ids[k] \in 1..MaxWrites /\ events[ids[k]] \in {"object", "null"}
    OBVIOUS
  <2>1. table[k] \in Damage!Rows /\ ids[k] = table[k].id
    BY <1>1
  <2>2. table[k].id \in 1..Len(events)
    BY DEF DamageInv, Written
  <2>3. events[table[k].id] \in {"object", "null"}
    BY <1>1, <2>2
  <2>4. table[k].id \in 1..MaxWrites
    BY <2>1 DEF Damage!Rows
  <2> QED BY <2>1, <2>3, <2>4
<1> HIDE DEF ids
<1> DEFINE Fits(k) == turn[k] \in Seq(Damage!Rows) /\ Damage!Verified(turn[k])
           Bad == {k \in 0..n : ~Fits(k)}
<1>4. Bad = {}
  <2> SUFFICES ASSUME Bad # {} PROVE FALSE
    OBVIOUS
  <2>1. Bad \in SUBSET Nat
    BY <1>1
  <2> HIDE DEF Bad
  <2>2. PICK k \in Bad : \A j \in Bad : k <= j
    BY <2>1, LeastExists
  <2>3. k \in 0..n /\ ~Fits(k)
    BY <2>2 DEF Bad
  <2>4. Fits(0)
    BY <1>2 DEF Damage!Verified
  <2>5. k \in 1..n /\ k - 1 \in 0..n /\ ~(k <= k - 1)
    BY <1>1, <2>3, <2>4
  <2>6. Fits(k - 1)
    BY <2>2, <2>5 DEF Bad
  <2>7. turn[k] = Damage!Insert(turn[k - 1], ids[k], events[ids[k]])
    BY <1>2, <2>5
  <2>8. Fits(k)
    BY <1>3, <2>5, <2>6, <2>7, InsertVerifies
  <2> QED BY <2>3, <2>8
<1>5. n \in 0..n
  BY <1>1
<1>6. Fits(n)
  BY <1>4, <1>5
<1> QED BY <1>2, <1>6 DEF ids

LEMMA DamageVerifies ==
  ASSUME DamageInv
  PROVE  VerifiesReplays
BY VerifiedIsReplay, ReplayIsVerified DEF VerifiesReplays, Damage!VerifiesReplays

-----------------------------------------------------------------------------
(* Writes and damage *)

\* A step of damage that makes the table of rows that fit.
LEMMA DamagedStep ==
  ASSUME DamageInv, NEW rows \in Seq(Damage!Rows),
         \A i \in 1..Len(rows) : Written(rows[i]), Damage!Damaged(rows)
  PROVE  DamageInv'
<1>1. damage' \in 0..MaxDamage
  <2>1. damage \in 0..MaxDamage /\ damage < MaxDamage /\ damage' = damage + 1
    BY DEF DamageInv, Damage!TypeOK, Damage!Damaged
  <2> QED BY <2>1, DamageAssumption
<1>2. table' = rows /\ events' = events /\ copy' = copy
  BY DEF Damage!Damaged
<1>3. Damage!TypeOK'
  BY <1>1, <1>2 DEF DamageInv, Damage!TypeOK
<1> QED BY <1>2, <1>3 DEF DamageInv, Written

\* A new event is on top of those there: what was written stays so.
LEMMA WriteStep ==
  ASSUME DamageInv, NEW p \in {"object", "null"}, Damage!Write(p)
  PROVE  DamageInv'
<1> DEFINE id == Len(events) + 1
           r == Damage!NewRow(Damage!TipSeq(table), Damage!TipHash(table), id, p)
<1>1. /\ table \in Seq(Damage!Rows) /\ copy \in Seq(Damage!Rows)
      /\ events \in Seq({"object", "null"}) /\ damage \in 0..MaxDamage
  BY DEF DamageInv, Damage!TypeOK
<1>2. /\ events' = Append(events, p)
      /\ events' \in Seq({"object", "null"})
      /\ Len(events') = id
      /\ \A i \in 1..Len(events) : events'[i] = events[i]
      /\ events'[id] = p
  BY <1>1, AppendProperties DEF Damage!Write
<1>3. id \in 1..MaxWrites
  BY <1>1, WritesAssumption DEF Damage!Write
<1>4. Damage!TipSeq(table) \in Nat /\ Damage!TipHash(table) \in Damage!Hashes
  BY <1>1, DamageTipType
<1>5. /\ r \in Damage!Rows
      /\ r.id = id
      /\ r.hash = Append(Damage!TipHash(table), <<id, p>>)
  <2> DEFINE n == Damage!TipSeq(table)
             h == Damage!TipHash(table)
  <2> HIDE DEF n, h, id
  <2>1. n \in Nat /\ h \in Damage!Hashes
    BY <1>4 DEF n, h
  <2>2. /\ Damage!NewRow(n, h, id, p) \in Damage!Rows
        /\ Damage!NewRow(n, h, id, p) =
             [id |-> id, payload |-> p, seq |-> n + 1, prev |-> h,
              hash |-> Append(h, <<id, p>>)]
    BY <2>1, <1>3, DamageRowType
  <2> QED BY <2>2 DEF n, h
<1>6. table' = Append(table, r) /\ copy' = copy /\ damage' = damage
  BY <1>2 DEF Damage!Write, Damage!Insert
<1> HIDE DEF id, r
<1>7. /\ table' \in Seq(Damage!Rows)
      /\ Len(table') = Len(table) + 1
      /\ \A i \in 1..Len(table) : table'[i] = table[i]
      /\ table'[Len(table) + 1] = r
  BY <1>1, <1>5, <1>6, AppendProperties
<1>8. /\ r.id \in 1..Len(events')
      /\ r.hash # <<>> =>
           \E h \in Damage!Hashes : r.hash = Append(h, <<r.id, events'[r.id]>>)
  <2>1. r.id \in 1..Len(events')
    BY <1>1, <1>2, <1>5 DEF id
  <2>2. r.hash = Append(Damage!TipHash(table), <<r.id, events'[r.id]>>)
    BY <1>2, <1>5
  <2> QED BY <2>1, <2>2, <1>4
<1>9. ASSUME NEW row, Written(row)
      PROVE  /\ row.id \in 1..Len(events')
             /\ row.hash # <<>> =>
                  \E h \in Damage!Hashes : row.hash = Append(h, <<row.id, events'[row.id]>>)
  <2>1. row.id \in 1..Len(events) /\ Len(events) \in Nat
    BY <1>1, <1>9 DEF Written
  <2>2. row.id \in 1..Len(events') /\ events'[row.id] = events[row.id]
    BY <1>2, <2>1 DEF id
  <2> QED BY <1>9, <2>2 DEF Written
<1>10. \A i \in 1..Len(table') :
         /\ table'[i].id \in 1..Len(events')
         /\ table'[i].hash # <<>> =>
              \E h \in Damage!Hashes :
                table'[i].hash = Append(h, <<table'[i].id, events'[table'[i].id]>>)
  <2> SUFFICES ASSUME NEW i \in 1..Len(table')
               PROVE  /\ table'[i].id \in 1..Len(events')
                      /\ table'[i].hash # <<>> =>
                           \E h \in Damage!Hashes :
                             table'[i].hash = Append(h, <<table'[i].id, events'[table'[i].id]>>)
    OBVIOUS
  <2>1. CASE i = Len(table) + 1
    BY <1>7, <1>8, <2>1
  <2>2. CASE i # Len(table) + 1
    <3>1. i \in 1..Len(table) /\ table'[i] = table[i]
      BY <1>1, <1>7, <2>2
    <3>2. Written(table[i])
      BY <3>1 DEF DamageInv
    <3> QED BY <1>9, <3>1, <3>2
  <2> QED BY <2>1, <2>2
<1>11. \A i \in 1..Len(copy) :
         /\ copy[i].id \in 1..Len(events')
         /\ copy[i].hash # <<>> =>
              \E h \in Damage!Hashes :
                copy[i].hash = Append(h, <<copy[i].id, events'[copy[i].id]>>)
  BY <1>9 DEF DamageInv
<1>12. Damage!TypeOK'
  BY <1>1, <1>2, <1>6, <1>7 DEF Damage!TypeOK
<1> QED BY <1>6, <1>10, <1>11, <1>12 DEF DamageInv, Written

LEMMA BackupStep ==
  ASSUME DamageInv, Damage!Backup
  PROVE  DamageInv'
BY DEF DamageInv, Damage!TypeOK, Damage!Backup, Written

LEMMA LoseRowStep ==
  ASSUME DamageInv, NEW i \in 1..Len(table), Damage!LoseRow(i)
  PROVE  DamageInv'
<1> DEFINE a == SubSeq(table, 1, i - 1)
           b == SubSeq(table, i + 1, Len(table))
           rows == a \o b
<1>1. table \in Seq(Damage!Rows) /\ Len(table) \in Nat /\ i \in Nat /\ i - 1 \in Int
  BY DEF DamageInv, Damage!TypeOK
<1>2. /\ a \in Seq(Damage!Rows)
      /\ Len(a) = i - 1
      /\ \A j \in 1..(i - 1) : a[j] = table[j]
  <2>1. \A j \in 1..(i - 1) : table[j] \in Damage!Rows
    BY <1>1
  <2> QED BY <1>1, <2>1, SubSeqProperties
<1>3. /\ b \in Seq(Damage!Rows)
      /\ Len(b) = Len(table) - i
      /\ \A j \in 1..(Len(table) - i) : b[j] = table[i + j]
  <2>1. \A j \in (i + 1)..Len(table) : table[j] \in Damage!Rows
    BY <1>1
  <2>2. /\ b \in Seq(Damage!Rows)
        /\ Len(b) = IF i + 1 <= Len(table) THEN Len(table) - (i + 1) + 1 ELSE 0
        /\ \A j \in 1..(Len(table) - (i + 1) + 1) : b[j] = table[(i + 1) + j - 1]
    BY <1>1, <2>1, SubSeqProperties
  <2> HIDE DEF b
  <2>3. Len(b) = Len(table) - i
    BY <1>1, <2>2
  <2>4. ASSUME NEW j \in 1..(Len(table) - i)
        PROVE  b[j] = table[i + j]
    <3>1. j \in 1..(Len(table) - (i + 1) + 1) /\ (i + 1) + j - 1 = i + j
      BY <1>1
    <3>2. b[j] = table[(i + 1) + j - 1]
      BY <2>2, <3>1
    <3> QED BY <3>1, <3>2
  <2> QED BY <2>2, <2>3, <2>4
<1> HIDE DEF a, b
<1>4. /\ rows \in Seq(Damage!Rows)
      /\ Len(rows) = Len(a) + Len(b)
      /\ \A j \in 1..(Len(a) + Len(b)) :
           rows[j] = IF j <= Len(a) THEN a[j] ELSE b[j - Len(a)]
  BY <1>2, <1>3, ConcatProperties
<1> HIDE DEF rows
<1>5. ASSUME NEW j \in 1..Len(rows)
      PROVE  Written(rows[j])
  <2>1. CASE j <= Len(a)
    <3>1. j \in 1..(i - 1) /\ j \in 1..Len(table)
      BY <1>1, <1>2, <1>3, <1>4, <2>1
    <3>2. rows[j] = table[j]
      BY <1>2, <1>4, <2>1, <3>1
    <3> QED BY <3>1, <3>2 DEF DamageInv
  <2>2. CASE ~(j <= Len(a))
    <3> DEFINE k == j - Len(a)
    <3>1. k \in 1..(Len(table) - i) /\ i + k \in 1..Len(table)
      BY <1>1, <1>2, <1>3, <1>4, <2>2
    <3>2. rows[j] = b[k]
      BY <1>4, <2>2
    <3> HIDE DEF k
    <3>3. rows[j] = table[i + k]
      BY <1>3, <3>1, <3>2
    <3> QED BY <3>1, <3>3 DEF DamageInv
  <2> QED BY <2>1, <2>2
<1>6. Damage!Damaged(rows)
  BY DEF Damage!LoseRow, Damage!RemoveAt, rows, a, b
<1> QED BY <1>4, <1>5, <1>6, DamagedStep

\* A row whose place or columns changed, but not both id and hash.
LEMMA ChangeRowStep ==
  ASSUME DamageInv, NEW i \in 1..Len(table), NEW r \in Damage!Rows,
         r.id = table[i].id, r.hash \in {table[i].hash, <<>>},
         Damage!Damaged([table EXCEPT ![i] = r])
  PROVE  DamageInv'
<1> DEFINE rows == [table EXCEPT ![i] = r]
<1>1. table \in Seq(Damage!Rows)
  BY DEF DamageInv, Damage!TypeOK
<1>2. /\ rows \in Seq(Damage!Rows)
      /\ Len(rows) = Len(table)
      /\ \A j \in 1..Len(table) : rows[j] = IF j = i THEN r ELSE table[j]
  BY <1>1, ExceptSeq
<1>3. Written(r)
  BY DEF DamageInv, Written
<1> HIDE DEF rows
<1>4. \A j \in 1..Len(rows) : Written(rows[j])
  BY <1>2, <1>3 DEF DamageInv
<1>5. Damage!Damaged(rows)
  BY DEF rows
<1> QED BY <1>2, <1>4, <1>5, DamagedStep

LEMMA ColumnsStep ==
  ASSUME DamageInv, NEW i \in 1..Len(table),
         \/ Damage!LoseHash(i)
         \/ Damage!LoseLink(i)
         \/ \E text \in {"object", "null"} : Damage!ChangePayload(i, text)
  PROVE  DamageInv'
<1>1. table[i] \in Damage!Rows
  BY DEF DamageInv, Damage!TypeOK
<1>2. <<>> \in Damage!Hashes
  BY DEF Damage!Hashes
<1>3. CASE Damage!LoseHash(i)
  <2> DEFINE r == [table[i] EXCEPT !.hash = <<>>]
  <2>1. r \in Damage!Rows /\ r.id = table[i].id /\ r.hash = <<>>
    BY <1>1, <1>2 DEF Damage!Rows
  <2>2. Damage!Damaged([table EXCEPT ![i] = r])
    BY <1>3 DEF Damage!LoseHash, Damage!Genesis
  <2> QED BY <2>1, <2>2, ChangeRowStep
<1>4. CASE Damage!LoseLink(i)
  <2> DEFINE r == [table[i] EXCEPT !.prev = <<>>]
  <2>1. r \in Damage!Rows /\ r.id = table[i].id /\ r.hash = table[i].hash
    BY <1>1, <1>2 DEF Damage!Rows
  <2>2. Damage!Damaged([table EXCEPT ![i] = r])
    BY <1>4 DEF Damage!LoseLink, Damage!Genesis
  <2> QED BY <2>1, <2>2, ChangeRowStep
<1>5. ASSUME NEW text \in {"object", "null"}, Damage!ChangePayload(i, text)
      PROVE  DamageInv'
  <2> DEFINE r == [table[i] EXCEPT !.payload = text]
  <2>1. r \in Damage!Rows /\ r.id = table[i].id /\ r.hash = table[i].hash
    BY <1>1, OneText DEF Damage!Rows
  <2>2. Damage!Damaged([table EXCEPT ![i] = r])
    BY <1>5 DEF Damage!ChangePayload
  <2> QED BY <2>1, <2>2, ChangeRowStep
<1> QED BY <1>3, <1>4, <1>5

LEMMA SwapNumbersStep ==
  ASSUME DamageInv, NEW i \in 1..Len(table), NEW j \in 1..Len(table),
         Damage!SwapNumbers(i, j)
  PROVE  DamageInv'
<1> DEFINE x == [table[j] EXCEPT !.seq = table[i].seq]
           y == [table[i] EXCEPT !.seq = table[j].seq]
           once == [table EXCEPT ![i] = x]
           rows == [once EXCEPT ![j] = y]
<1>1. table \in Seq(Damage!Rows) /\ table[i] \in Damage!Rows /\ table[j] \in Damage!Rows
  BY DEF DamageInv, Damage!TypeOK
<1>2. /\ x \in Damage!Rows /\ x.id = table[j].id /\ x.hash = table[j].hash
      /\ y \in Damage!Rows /\ y.id = table[i].id /\ y.hash = table[i].hash
  BY <1>1 DEF Damage!Rows
<1>3. Damage!Damaged(rows)
  BY DEF Damage!SwapNumbers
<1>4. Written(x) /\ Written(y)
  BY <1>2 DEF DamageInv, Written
<1> HIDE DEF x, y
<1>5. /\ once \in Seq(Damage!Rows)
      /\ Len(once) = Len(table)
      /\ \A k \in 1..Len(table) : once[k] = IF k = i THEN x ELSE table[k]
  BY <1>1, <1>2, ExceptSeq
<1> HIDE DEF once
<1>6. /\ rows \in Seq(Damage!Rows)
      /\ Len(rows) = Len(table)
      /\ \A k \in 1..Len(table) : rows[k] = IF k = j THEN y ELSE once[k]
  BY <1>2, <1>5, ExceptSeq
<1> HIDE DEF rows
<1>7. \A k \in 1..Len(rows) : Written(rows[k])
  BY <1>4, <1>5, <1>6 DEF DamageInv
<1> QED BY <1>3, <1>6, <1>7, DamagedStep

LEMMA DamageInit == Damage!Init => DamageInv
BY DamageAssumption DEF Damage!Init, DamageInv, Damage!TypeOK

LEMMA DamageInvNext == DamageInv /\ [Damage!Next]_damageVars => DamageInv'
<1> SUFFICES ASSUME DamageInv, [Damage!Next]_damageVars
             PROVE  DamageInv'
  OBVIOUS
<1>1. CASE UNCHANGED damageVars
  BY <1>1 DEF damageVars, DamageInv, Damage!TypeOK, Written
<1>2. ASSUME NEW p \in {"object", "null"}, Damage!Write(p)
      PROVE  DamageInv'
  BY <1>2, WriteStep
<1>3. CASE Damage!Backup
  BY <1>3, BackupStep
<1>4. ASSUME NEW i \in 1..Len(table), Damage!LoseRow(i)
      PROVE  DamageInv'
  BY <1>4, LoseRowStep
<1>5. ASSUME NEW i \in 1..Len(table),
             \/ Damage!LoseHash(i)
             \/ Damage!LoseLink(i)
             \/ \E text \in {"object", "null"} \ {table[i].payload} :
                   Damage!ChangePayload(i, text)
      PROVE  DamageInv'
  BY <1>5, ColumnsStep
<1>6. ASSUME NEW i \in 1..Len(table), NEW j \in (i + 1)..Len(table), Damage!SwapNumbers(i, j)
      PROVE  DamageInv'
  <2>1. j \in 1..Len(table)
    BY DEF DamageInv, Damage!TypeOK
  <2> QED BY <1>6, <2>1, SwapNumbersStep
<1>7. CASE Damage!Restore
  <2>1. copy \in Seq(Damage!Rows) /\ \A i \in 1..Len(copy) : Written(copy[i])
    BY DEF DamageInv, Damage!TypeOK
  <2> QED BY <1>7, <2>1, DamagedStep DEF Damage!Restore
<1> QED BY <1>1, <1>2, <1>3, <1>4, <1>5, <1>6, <1>7 DEF Damage!Next

\* Of every row, wherever it is now and whatever happened to it, the hash is
\* lost or one made over the event of the row's id.
THEOREM DamageInductive == MCSpec => []DamageInv
<1>1. MCInit => DamageInv
  BY DamageInit DEF MCInit
<1>2. DamageInv /\ [MCNext]_<<vars, damageVars, connVars, part>> => DamageInv'
  <2> SUFFICES ASSUME DamageInv, [MCNext]_<<vars, damageVars, connVars, part>>
               PROVE  DamageInv'
    OBVIOUS
  <2>1. [Damage!Next]_damageVars
    BY DEF MCNext
  <2> QED BY <2>1, DamageInvNext
<1> QED BY <1>1, <1>2, PTL DEF MCSpec

\* verifyChain accepts a table of any length exactly if writing the events of
\* its rows, in their order, into an empty table makes it.
THEOREM ReplaysVerify == MCSpec => []VerifiesReplays
BY DamageInductive, DamageVerifies, PTL
=============================================================================
