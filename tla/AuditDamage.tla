---------------------------- MODULE AuditDamage ----------------------------
(***************************************************************************)
(* What verifyAuditChainForApp (audit/verify.ts) makes of a log that was   *)
(* damaged: rows lost or changed, numbers swapped, hashes missing, an old  *)
(* copy of the table restored.  Events are written as AuditChain shows     *)
(* they are, one after the other, before and after the damage.             *)
(***************************************************************************)
EXTENDS AuditRows, SequencesExt

CONSTANTS MaxWrites,  \* bound on the events written; Ids is 1..MaxWrites
          MaxDamage   \* bound on the steps of damage

VARIABLES
  log,      \* the rows of audit_logs in chain_seq order
  events,   \* the payloads handed to auditEvent so far; a row's id is its place
  copy,     \* a backup of the table
  damage    \* steps of damage

vars == <<log, events, copy, damage>>

TypeOK == /\ log \in Seq(Rows)
          /\ events \in Seq(Payloads)
          /\ copy \in Seq(Rows)
          /\ damage \in 0..MaxDamage

Init == /\ log = <<>>
        /\ events = <<>>
        /\ copy = <<>>
        /\ damage = 0

\* insertAuditLog: the row goes on top of whatever row is the newest.
Insert(rows, id, p) == Append(rows, NewRow(TipSeq(rows), TipHash(rows), id, p))

Write(p) == /\ Len(events) < MaxWrites
            /\ events' = Append(events, p)
            /\ log' = Insert(log, Len(events'), p)
            /\ UNCHANGED <<copy, damage>>

Backup == copy' = log /\ UNCHANGED <<log, events, damage>>

Damaged(rows) == /\ damage < MaxDamage
                 /\ damage' = damage + 1
                 /\ log' = rows
                 /\ UNCHANGED <<events, copy>>

LoseRow(i) == Damaged(RemoveAt(log, i))

LoseHash(i) == Damaged([log EXCEPT ![i].hash = Genesis])

LoseLink(i) == Damaged([log EXCEPT ![i].prev = Genesis])

ChangePayload(i, text) == Damaged([log EXCEPT ![i].payload = text])

\* Two rows exchange their chain_seq, and with it their places.
SwapNumbers(i, j) ==
  Damaged([log EXCEPT ![i] = [log[j] EXCEPT !.seq = log[i].seq],
                      ![j] = [log[i] EXCEPT !.seq = log[j].seq]])

Restore == copy # log /\ Damaged(copy)

Next == \/ \E p \in Payloads : Write(p)
        \/ Backup
        \/ \E i \in 1..Len(log) :
              \/ LoseRow(i)
              \/ LoseHash(i)
              \/ LoseLink(i)
              \/ \E text \in Payloads \ {log[i].payload} : ChangePayload(i, text)
              \/ \E j \in (i + 1)..Len(log) : SwapNumbers(i, j)
        \/ Restore

Spec == Init /\ [][Next]_vars

-----------------------------------------------------------------------------
(* Properties *)

\* The table that writing these events into an empty one would have made.
Replay(ids) == FoldLeft(LAMBDA rows, id : Insert(rows, id, events[id]), <<>>, ids)

\* The verifier accepts a table if and only if it is what writing the events
\* of its rows, as they were when written, into an empty table makes: no
\* change, gap or reordering passes, and no whole table is refused.
VerifiesReplays == Verified(log) <=> log = Replay([i \in 1..Len(log) |-> log[i].id])
=============================================================================
