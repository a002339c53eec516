----------------------------- MODULE AuditRows -----------------------------
(***************************************************************************)
(* Rows of audit_logs and their hash chain: computeRowHash and verifyChain *)
(* of audit/chain.ts, the row insertAuditLog makes of a tip, and what the  *)
(* JSONB column does to a payload.  One app has one chain.                 *)
(*                                                                         *)
(* The HMAC is free of collisions: a hash is the sequence of everything    *)
(* hashed into it since the genesis.                                       *)
(***************************************************************************)
EXTENDS Naturals, Sequences

CONSTANTS Ids,      \* uuids of rows
          Payloads  \* payloads handed to auditEvent, see AllPayloads

\* A payload is an object of JSON values, another such object, null, or an
\* object holding a Date: node-pg hands TIMESTAMPTZ columns out as Dates.
\* "emptied" and "dated" are what the two serializers make of the last.
AllPayloads == {"object", "other", "null", "withDate"}
Texts == {"object", "other", "null", "emptied", "dated"}

ASSUME PayloadsAssumption == Payloads \subseteq AllPayloads

\* canonicalJsonStringify: a Date has no enumerable keys and becomes {}.
Canonical(p) == IF p = "withDate" THEN "emptied" ELSE p

\* payloadJson ? JSON.stringify(payloadJson) : null.  A Date becomes its ISO
\* string, which stays one when the column is read back.
Stored(p) == IF p = "withDate" THEN "dated" ELSE p

Genesis == <<>>
Hashes == Seq(Ids \X Texts)
Rows == [id : Ids, payload : Texts, seq : Nat, prev : Hashes, hash : Hashes]

\* Mutated form: the payload is left out of the hash.
RowHashWithoutPayload(prev, id, payload) == Append(prev, <<id>>)

\* computeRowHash: the previous hash, the row's own fields, the payload's hash.
RowHash(prev, id, payload) == Append(prev, <<id, Canonical(payload)>>)

\* The newest row of a chain: its hash and chain_seq.
TipHash(rows) == IF rows = <<>> THEN Genesis ELSE rows[Len(rows)].hash
TipSeq(rows) == IF rows = <<>> THEN 0 ELSE rows[Len(rows)].seq

NewRow(tipSeq, tipHash, id, p) ==
  [id |-> id, payload |-> Stored(p), seq |-> tipSeq + 1,
   prev |-> tipHash, hash |-> RowHash(tipHash, id, p)]

\* Mutated form: the verifier trusts the prev_hash column.
PrevFitsUnread(rows, i) == TRUE

\* The previous row's hash, as stored; the first row has none.
PrevFits(rows, i) == rows[i].prev = (IF i = 1 THEN Genesis ELSE rows[i - 1].hash)

SeqFits(rows, i) == rows[i].seq = i

HashFits(rows, i) ==
  rows[i].hash = RowHash(IF i = 1 THEN Genesis ELSE rows[i - 1].hash, rows[i].id, rows[i].payload)

\* One turn of the loop of verifyChain, on the rows in chain_seq order.
RowFits(rows, i) == SeqFits(rows, i) /\ PrevFits(rows, i) /\ HashFits(rows, i)

\* verifyChain's ok; the rows it blames are the first that does not fit.
Verified(rows) == \A i \in 1..Len(rows) : RowFits(rows, i)
=============================================================================
