----------------------- MODULE SigningRequestsProofs -----------------------
(***************************************************************************)
(* Proofs about SigningRequests for any sets of requests, submit calls and *)
(* readers; about the swap page, that a swap is of what its click showed;  *)
(* about SwapOnboarding, that what is shown as ready is at the chain; and  *)
(* about SwapMath, that a pool keeps up with the walks through its ticks,  *)
(* for any positions, prices, fees and amounts.                            *)
(***************************************************************************)
EXTENDS MCSigningRequests, FiniteSetTheorems, SequenceTheorems, WellFoundedInduction, TLAPS

\* The part of TypeOK that a call's own step disturbs.
CallTypeOK == /\ pc \in [Calls -> SubmitPcs \cup ReadPcs]
              /\ reply \in [Submitters -> Replies]

\* Returning from a submit call keeps the types of the call's control state.
LEMMA ReturnType ==
  ASSUME TypeOK, NEW c \in Submitters, NEW what \in Replies, Return(c, what)
  PROVE  CallTypeOK'
BY DEF TypeOK, CallTypeOK, Return, Calls, SubmitPcs

\* So does going on to a next step, for submit calls and readers alike.
LEMMA GotoType ==
  ASSUME TypeOK, NEW c \in Calls, NEW step \in SubmitPcs \cup ReadPcs, Goto(c, step)
  PROVE  CallTypeOK'
BY DEF TypeOK, CallTypeOK, Goto

\* The part of TypeOK that marking a row disturbs.
RowTypeOK == /\ status \in [Requests -> Statuses]
             /\ result \in [Requests -> Results]
             /\ error \in [Requests -> Errors]

\* A verdict, written by the submit call or by a GET, keeps the row's types.
LEMMA VerdictRowType ==
  ASSUME TypeOK, NEW r \in Requests, NEW found \in Results, SucceedRow(r, found) \/ FailRow(r)
  PROVE  RowTypeOK'
<1>1. CASE SucceedRow(r, found)
  BY <1>1 DEF SucceedRow, RowTypeOK, TypeOK, Statuses
<1>2. CASE FailRow(r)
  BY <1>2 DEF FailRow, RowTypeOK, TypeOK, Statuses, Errors
<1> QED  BY <1>1, <1>2

Events == {"created", "succeeded", "failed"}

\* The log of a row grows by one event at its end; no other log changes.
LEMMA LogGrows ==
  ASSUME TypeOK, NEW r \in Requests, NEW e \in Events,
         audit' = [audit EXCEPT ![r] = Append(@, e)]
  PROVE  /\ audit' \in [Requests -> Seq(Events)]
         /\ Len(audit[r]) \in Nat
         /\ Len(audit'[r]) = Len(audit[r]) + 1
         /\ audit'[r][Len(audit[r]) + 1] = e
         /\ \A i \in 1 .. Len(audit[r]) : audit'[r][i] = audit[r][i]
         /\ \A q \in Requests \ {r} : audit'[q] = audit[q]
<1>1. audit \in [Requests -> Seq(Events)]
  BY DEF TypeOK, Events
<1>2. audit'[r] = Append(audit[r], e) /\ audit[r] \in Seq(Events)
  BY <1>1
<1>3. /\ Append(audit[r], e) \in Seq(Events)
      /\ Len(Append(audit[r], e)) = Len(audit[r]) + 1
      /\ Append(audit[r], e)[Len(audit[r]) + 1] = e
      /\ \A i \in 1 .. Len(audit[r]) : Append(audit[r], e)[i] = audit[r][i]
  BY <1>2, AppendProperties
<1>4. Len(audit[r]) \in Nat
  BY <1>2
<1>5. /\ audit' \in [Requests -> Seq(Events)]
      /\ \A q \in Requests \ {r} : audit'[q] = audit[q]
  BY <1>1, <1>3
<1> QED  BY <1>2, <1>3, <1>4, <1>5

\* The types of the variables are kept by every step of every handler.
LEMMA TypeStep == ASSUME TypeOK, CallsFit, [Next]_vars PROVE TypeOK'
<1> USE DEF row, chain, calls
<1>0. /\ SubmitPcs \cup ReadPcs = {"start", "verify", "claim", "broadcast", "throw", "record",
                "poll", "settle", "end", "get", "getPoll", "getMark"}
      /\ \A c \in Submitters : c \in Calls
      /\ \A c \in Calls : target[c] \in Requests \cup {"none"}
      /\ \A c \in Submitters : pc[c] # "start" => target[c] \in Requests
      /\ \A d \in Readers : pc[d] # "get" => target[d] \in Requests
      /\ \A d \in Readers : d \in Calls
  BY DEF SubmitPcs, ReadPcs, Calls, TypeOK, CallsFit
<1>1. ASSUME NEW r \in Requests, Create(r) PROVE TypeOK'
  BY <1>1, LogGrows DEF Create, TypeOK, Statuses, Events
<1>2. ASSUME NEW r \in Requests, Expire(r) PROVE TypeOK'
  BY <1>2 DEF Expire, TypeOK
<1>3. ASSUME NEW r \in Requests, NEW v \in Verdicts, NodeDecide(r, v) PROVE TypeOK'
  BY <1>3 DEF NodeDecide, TypeOK, Fates, Verdicts
<1>4. ASSUME NEW c \in Submitters, NEW r \in Requests, SubmitRead(c, r) PROVE TypeOK'
  <2>1. CallTypeOK'
    BY <1>0, <1>4, ReturnType, GotoType DEF SubmitRead, Replies
  <2> QED  BY <1>0, <1>4, <2>1 DEF SubmitRead, TypeOK, CallTypeOK
<1>5. ASSUME NEW c \in Submitters, Verify(c) PROVE TypeOK'
  <2>1. CallTypeOK'
    BY <1>0, <1>5, ReturnType, GotoType DEF Verify, Replies
  <2> QED  BY <1>5, <2>1 DEF Verify, TypeOK, CallTypeOK
<1>6. ASSUME NEW c \in Submitters, ClaimLost(c) PROVE TypeOK'
  <2>1. CallTypeOK'
    BY <1>6, ReturnType DEF ClaimLost, Replies
  <2> QED  BY <1>6, <2>1 DEF ClaimLost, TypeOK, CallTypeOK
<1>7. ASSUME NEW c \in Submitters, ClaimMessage(c) PROVE TypeOK'
  <2>1. CallTypeOK'
    BY <1>7, ReturnType DEF ClaimMessage, Replies
  <2> QED  BY <1>0, <1>7, <2>1, LogGrows
           DEF ClaimMessage, TypeOK, CallTypeOK, Statuses, Results, Events
<1>8. ASSUME NEW c \in Submitters, ClaimTransfer(c) PROVE TypeOK'
  <2>1. CallTypeOK'
    BY <1>0, <1>8, GotoType DEF ClaimTransfer
  <2> QED  BY <1>0, <1>8, <2>1 DEF ClaimTransfer, TypeOK, CallTypeOK, Statuses
<1>9. ASSUME NEW c \in Submitters, Broadcast(c) PROVE TypeOK'
  <2>1. CallTypeOK'
    BY <1>0, <1>9, GotoType DEF Broadcast
  <2>2. target[c] \in Requests
    BY <1>0, <1>9 DEF Broadcast
  <2>3. node' \in [Requests -> Fates]
    BY <2>2, <1>9 DEF Broadcast, NodeTakes, TypeOK, Fates
  <2>4. sends' \in [Requests -> Nat]
    <3>1. \/ sends' = sends
          \/ sends' = [sends EXCEPT ![target[c]] = sends[target[c]] + 1]
      BY <1>9 DEF Broadcast, NodeTakes
    <3>2. sends \in [Requests -> Nat] /\ sends[target[c]] + 1 \in Nat
      BY <2>2 DEF TypeOK
    <3> QED  BY <3>1, <3>2
  <2> QED  BY <1>9, <2>1, <2>3, <2>4 DEF Broadcast, TypeOK, CallTypeOK
<1>10. ASSUME NEW c \in Submitters, MarkBroadcastFailed(c) PROVE TypeOK'
  <2>1. CallTypeOK'
    BY <1>10, ReturnType DEF MarkBroadcastFailed, Replies
  <2> QED  BY <1>0, <1>10, <2>1 DEF MarkBroadcastFailed, TypeOK, CallTypeOK, Statuses, Errors
<1>11. ASSUME NEW c \in Submitters, RecordTxid(c) PROVE TypeOK'
  <2>1. CallTypeOK'
    BY <1>0, <1>11, GotoType DEF RecordTxid
  <2> QED  BY <1>0, <1>11, <2>1 DEF RecordTxid, TypeOK, CallTypeOK, Results
<1>12. ASSUME NEW c \in Submitters, Poll(c) PROVE TypeOK'
  <2>1. CallTypeOK'
    BY <1>0, <1>12, ReturnType, GotoType DEF Poll, Replies
  <2>2. answer' \in [Calls -> Answers]
    BY <1>0, <1>12 DEF Poll, PolledAnswers, TypeOK, Answers
  <2> QED  BY <1>12, <2>1, <2>2 DEF Poll, TypeOK, CallTypeOK
<1>13. ASSUME NEW c \in Submitters, Settle(c) PROVE TypeOK'
  <2>1. CallTypeOK'
    BY <1>0, <1>13, ReturnType DEF Settle, Replies
  <2>2. audit' \in [Requests -> Seq({"created", "succeeded", "failed"})]
    BY <1>0, <1>13, LogGrows DEF Settle, Events
  <2>3. RowTypeOK'
    BY <1>0, <1>13, VerdictRowType DEF Settle, Results
  <2> QED  BY <1>13, <2>1, <2>2, <2>3 DEF Settle, TypeOK, CallTypeOK, RowTypeOK
<1>14. ASSUME NEW c \in Submitters, Die(c) PROVE TypeOK'
  <2>1. CallTypeOK'
    BY <1>14, ReturnType DEF Die, Replies
  <2> QED  BY <1>14, <2>1 DEF Die, TypeOK, CallTypeOK
<1>15. ASSUME NEW d \in Readers, NEW r \in Requests, GetRead(d, r) PROVE TypeOK'
  <2>1. CallTypeOK'
    BY <1>0, <1>15, GotoType DEF GetRead
  <2> QED  BY <1>0, <1>15, <2>1 DEF GetRead, TypeOK, CallTypeOK
<1>16. ASSUME NEW d \in Readers, GetPoll(d) PROVE TypeOK'
  <2>1. CallTypeOK'
    BY <1>0, <1>16, GotoType DEF GetPoll
  <2>2. answer' \in [Calls -> Answers]
    BY <1>0, <1>16 DEF GetPoll, PolledAnswers, TypeOK, Answers
  <2> QED  BY <1>16, <2>1, <2>2 DEF GetPoll, TypeOK, CallTypeOK
<1>17. ASSUME NEW d \in Readers, GetMark(d) PROVE TypeOK'
  <2>1. CallTypeOK'
    BY <1>0, <1>17, GotoType DEF GetMark
  <2>2. RowTypeOK'
    BY <1>0, <1>17, VerdictRowType DEF GetMark, Results
  <2> QED  BY <1>17, <2>1, <2>2 DEF GetMark, TypeOK, CallTypeOK, RowTypeOK
<1>18. ASSUME NEW d \in Readers, GetDie(d) PROVE TypeOK'
  <2>1. CallTypeOK'
    BY <1>0, <1>18, GotoType DEF GetDie
  <2> QED  BY <1>18, <2>1 DEF GetDie, TypeOK, CallTypeOK
<1>19. CASE UNCHANGED vars
  BY <1>19 DEF vars, TypeOK
<1> QED
  BY <1>1, <1>2, <1>3, <1>4, <1>5, <1>6, <1>7, <1>8, <1>9, <1>10, <1>11, <1>12,
     <1>13, <1>14, <1>15, <1>16, <1>17, <1>18, <1>19
     DEF Next, Environment, SubmitStep, GetStep

\* A row that is neither absent nor settled has exactly its creation logged.
LEMMA LogOfOpenRow ==
  ASSUME IInv, NEW r \in Requests, status[r] \in {"pending", "submitted"}
  PROVE  Len(audit[r]) = 1 /\ audit[r][1] = "created"
<1>1. Len(audit[r]) \in Nat
  BY DEF IInv, TypeOK
<1>2. Len(audit[r]) <= 2 /\ Len(audit[r]) # 0 /\ Len(audit[r]) # 2
  BY DEF IInv, AuditTellsOutcome, Settled
<1>3. \A n \in Nat : n <= 2 /\ n # 0 /\ n # 2 => n = 1
  OBVIOUS
<1>4. Len(audit[r]) = 1
  BY <1>1, <1>2, <1>3, Zenon
<1> QED  BY <1>4 DEF IInv, AuditTellsOutcome

-----------------------------------------------------------------------------
(* Every action keeps the inductive invariant. *)

\* A new row satisfies the invariant, and every other row keeps it.
LEMMA CreateStep ==
  ASSUME IInv, TypeOK', NEW r \in Requests, Create(r)
  PROVE  IInv'
<1> USE DEF chain, calls
<1>1. CallsFit'
  BY DEF IInv, CallsFit, Create, Settled, TypeOK, Calls, SubmitPcs, ReadPcs
<1>2. OneOwner'
  BY DEF IInv, OneOwner, OwnersFit, Owner, Owning, Create, Settled, TypeOK, Calls
<1>3. OwnersFit'
  BY DEF IInv, OwnersFit, Owner, Owning, OneOwner, CallsFit, Create, Settled, TypeOK, Calls
<1>4. ReadersFit'
  BY DEF IInv, ReadersFit, CallsFit, Create, Settled, TypeOK, Calls
<1>5. TransfersFit'
  BY DEF IInv, TransfersFit, Create, Settled, TypeOK
<1>6. MessagesFit'
  BY DEF IInv, MessagesFit, Create, Settled, TypeOK
<1>7. AuditTellsOutcome'
  <2>1. Len(audit[r]) = 0
    BY DEF IInv, AuditTellsOutcome, Create
  <2>2. audit' = [audit EXCEPT ![r] = Append(@, "created")] /\ TypeOK
    BY DEF Create, IInv
  <2>3. "created" \in Events
    BY DEF Events
  <2>4. /\ Len(audit'[r]) = Len(audit[r]) + 1
        /\ audit'[r][Len(audit[r]) + 1] = "created"
        /\ \A q \in Requests \ {r} : audit'[q] = audit[q]
    BY <2>2, <2>3, LogGrows
  <2>5. Len(audit'[r]) = 1 /\ audit'[r][1] = "created"
    BY <2>1, <2>4
  <2> QED  BY <2>4, <2>5 DEF IInv, AuditTellsOutcome, Settled, Create, TypeOK
<1>8. RepliesHold'
  BY DEF IInv, RepliesHold, CallsFit, Create, Settled, TypeOK, Calls
<1> QED  BY <1>1, <1>2, <1>3, <1>4, <1>5, <1>6, <1>7, <1>8 DEF IInv

\* Time passing disturbs nothing the invariant speaks of.
LEMMA ExpireStep ==
  ASSUME IInv, TypeOK', NEW r \in Requests, Expire(r)
  PROVE  IInv'
<1> USE DEF row, chain, calls
<1>1. CallsFit'
  BY DEF IInv, CallsFit, Expire, Settled, TypeOK, Calls, SubmitPcs, ReadPcs
<1>2. OneOwner'
  BY DEF IInv, OneOwner, OwnersFit, Owner, Owning, Expire, Settled, TypeOK, Calls
<1>3. OwnersFit'
  BY DEF IInv, OwnersFit, Owner, Owning, OneOwner, CallsFit, Expire, Settled, TypeOK, Calls
<1>4. ReadersFit'
  BY DEF IInv, ReadersFit, CallsFit, Expire, Settled, TypeOK, Calls
<1>5. TransfersFit'
  BY DEF IInv, TransfersFit, Expire, Settled, TypeOK
<1>6. MessagesFit'
  BY DEF IInv, MessagesFit, Expire, Settled, TypeOK
<1>7. AuditTellsOutcome'
  BY DEF IInv, AuditTellsOutcome, Settled, Expire, TypeOK
<1>8. RepliesHold'
  BY DEF IInv, RepliesHold, CallsFit, Expire, Settled, TypeOK, Calls
<1> QED  BY <1>1, <1>2, <1>3, <1>4, <1>5, <1>6, <1>7, <1>8 DEF IInv

\* The node decides once, so what a call already heard stays true.
LEMMA DecideStep ==
  ASSUME IInv, TypeOK', NEW r \in Requests, NEW v \in Verdicts, NodeDecide(r, v)
  PROVE  IInv'
<1> USE DEF row, calls, Verdicts
<1>1. CallsFit'
  BY DEF IInv, CallsFit, NodeDecide, Settled, TypeOK, Calls, SubmitPcs, ReadPcs
<1>2. OneOwner'
  BY DEF IInv, OneOwner, OwnersFit, Owner, Owning, NodeDecide, Settled, TypeOK, Calls
<1>3. OwnersFit'
  BY DEF IInv, OwnersFit, Owner, Owning, OneOwner, CallsFit, NodeDecide, Settled, TypeOK, Calls
<1>4. ReadersFit'
  BY DEF IInv, ReadersFit, CallsFit, NodeDecide, Settled, TypeOK, Calls
<1>5. TransfersFit'
  BY DEF IInv, TransfersFit, NodeDecide, Settled, TypeOK
<1>6. MessagesFit'
  BY DEF IInv, MessagesFit, NodeDecide, Settled, TypeOK
<1>7. AuditTellsOutcome'
  BY DEF IInv, AuditTellsOutcome, Settled, NodeDecide, TypeOK
<1>8. RepliesHold'
  BY DEF IInv, RepliesHold, CallsFit, NodeDecide, Settled, TypeOK, Calls
<1> QED  BY <1>1, <1>2, <1>3, <1>4, <1>5, <1>6, <1>7, <1>8 DEF IInv

\* The lookup of a submit call only chooses where the call goes.
LEMMA SubmitReadStep ==
  ASSUME IInv, TypeOK', NEW c \in Submitters, NEW r \in Requests, SubmitRead(c, r)
  PROVE  IInv'
<1> USE DEF row, chain
<1>1. CallsFit'
  BY DEF IInv, CallsFit, SubmitRead, Goto, Return, TypeOK, Calls, SubmitPcs, ReadPcs
<1>2. OneOwner'
  BY DEF IInv, OneOwner, OwnersFit, Owner, Owning, SubmitRead, Goto, Return, TypeOK, Calls
<1>3. OwnersFit'
  BY DEF IInv, OwnersFit, Owner, Owning, OneOwner, CallsFit, SubmitRead, Goto, Return, TypeOK, Calls
<1>4. ReadersFit'
  BY DEF IInv, ReadersFit, CallsFit, SubmitRead, Goto, Return, TypeOK, Calls
<1>5. TransfersFit'
  BY DEF IInv, TransfersFit, SubmitRead, Goto, Return, TypeOK
<1>6. MessagesFit'
  BY DEF IInv, MessagesFit, SubmitRead, Goto, Return, TypeOK
<1>7. AuditTellsOutcome'
  BY DEF IInv, AuditTellsOutcome, Settled, SubmitRead, Goto, Return, TypeOK
<1>8. RepliesHold'
  <2>1. \A b \in Submitters \ {c} : reply'[b] = reply[b] /\ target'[b] = target[b]
    BY DEF IInv, SubmitRead, Goto, Return, TypeOK, Calls
  <2>2. \/ \E what \in {"notFound", "forbidden", "gone"} : Return(c, what)
        \/ Return(c, "conflict") /\ status[r] \notin {"absent", "pending"}
        \/ Goto(c, "verify")
    BY DEF SubmitRead
  <2>3. reply[c] = "none" /\ target'[c] = r
    BY DEF IInv, CallsFit, SubmitRead, TypeOK, Calls
  <2>4. /\ reply'[c] \in {"none", "notFound", "forbidden", "conflict", "gone"}
        /\ reply'[c] = "conflict" => status[r] \notin {"absent", "pending"}
    BY <2>2, <2>3 DEF Return, Goto, IInv, TypeOK
  <2> QED  BY <2>1, <2>3, <2>4 DEF IInv, RepliesHold, SubmitRead, row
<1> QED  BY <1>1, <1>2, <1>3, <1>4, <1>5, <1>6, <1>7, <1>8 DEF IInv

\* A verified call does not own its request yet.
LEMMA VerifyStep ==
  ASSUME IInv, TypeOK', NEW c \in Submitters, Verify(c)
  PROVE  IInv'
<1> USE DEF row, chain
<1>1. CallsFit'
  BY DEF IInv, CallsFit, Verify, Goto, Return, TypeOK, Calls, SubmitPcs, ReadPcs
<1>2. OneOwner'
  <2>1. target' = target /\ \A b \in Submitters : Owner(b)' => Owner(b)
    BY DEF IInv, Owner, Owning, Verify, Goto, Return, TypeOK, Calls
  <2> QED  BY <2>1 DEF IInv, OneOwner
<1>3. OwnersFit'
  BY DEF IInv, OwnersFit, Owner, Owning, OneOwner, CallsFit, Verify, Goto, Return, TypeOK, Calls
<1>4. ReadersFit'
  BY DEF IInv, ReadersFit, CallsFit, Verify, Goto, Return, TypeOK, Calls
<1>5. TransfersFit'
  BY DEF IInv, TransfersFit, Verify, Goto, Return, TypeOK
<1>6. MessagesFit'
  BY DEF IInv, MessagesFit, Verify, Goto, Return, TypeOK
<1>7. AuditTellsOutcome'
  BY DEF IInv, AuditTellsOutcome, Settled, Verify, Goto, Return, TypeOK
<1>8. RepliesHold'
  BY DEF IInv, RepliesHold, CallsFit, Verify, Goto, Return, TypeOK, Calls
<1> QED  BY <1>1, <1>2, <1>3, <1>4, <1>5, <1>6, <1>7, <1>8 DEF IInv

\* A call that lost the claim leaves the row to the winner.
LEMMA ClaimLostStep ==
  ASSUME IInv, TypeOK', NEW c \in Submitters, ClaimLost(c)
  PROVE  IInv'
<1> USE DEF row, chain
<1>1. CallsFit'
  BY DEF IInv, CallsFit, ClaimLost, Goto, Return, Claimable, TypeOK, Calls, SubmitPcs, ReadPcs
<1>2. OneOwner'
  BY DEF IInv, OneOwner, OwnersFit, Owner, Owning, ClaimLost, Goto, Return, Claimable, TypeOK, Calls
<1>3. OwnersFit'
  BY DEF IInv, OwnersFit, Owner, Owning, OneOwner, CallsFit, ClaimLost, Goto, Return,
     Claimable, TypeOK, Calls
<1>4. ReadersFit'
  BY DEF IInv, ReadersFit, CallsFit, ClaimLost, Goto, Return, Claimable, TypeOK, Calls
<1>5. TransfersFit'
  BY DEF IInv, TransfersFit, ClaimLost, Goto, Return, Claimable, TypeOK
<1>6. MessagesFit'
  BY DEF IInv, MessagesFit, ClaimLost, Goto, Return, Claimable, TypeOK
<1>7. AuditTellsOutcome'
  BY DEF IInv, AuditTellsOutcome, Settled, ClaimLost, Goto, Return, Claimable, TypeOK
<1>8. RepliesHold'
  BY DEF IInv, RepliesHold, CallsFit, ClaimLost, Goto, Return, Claimable, TypeOK, Calls
<1> QED  BY <1>1, <1>2, <1>3, <1>4, <1>5, <1>6, <1>7, <1>8 DEF IInv

\* Claiming a message settles it; no transfer is touched.
LEMMA ClaimMessageStep ==
  ASSUME IInv, TypeOK', NEW c \in Submitters, ClaimMessage(c)
  PROVE  IInv'
<1> USE DEF chain, Claimable
<1>1. CallsFit'
  BY DEF IInv, CallsFit, ClaimMessage, Return, AuditTellsOutcome, Settled, TypeOK, Calls,
     SubmitPcs, ReadPcs
<1>2. OneOwner'
  BY DEF IInv, OneOwner, OwnersFit, Owner, Owning, ClaimMessage, Return, CallsFit,
     AuditTellsOutcome, Settled, TypeOK, Calls
<1>3. OwnersFit'
  BY DEF IInv, OwnersFit, Owner, Owning, OneOwner, CallsFit, ClaimMessage, Return,
     AuditTellsOutcome, Settled, TypeOK, Calls
<1>4. ReadersFit'
  BY DEF IInv, ReadersFit, CallsFit, ClaimMessage, Return, AuditTellsOutcome, Settled, TypeOK, Calls
<1>5. TransfersFit'
  BY DEF IInv, TransfersFit, ClaimMessage, Return, CallsFit, AuditTellsOutcome, Settled, TypeOK
<1>6. MessagesFit'
  BY DEF IInv, MessagesFit, ClaimMessage, Return, CallsFit, AuditTellsOutcome, Settled, TypeOK
<1>7. AuditTellsOutcome'
  <2> DEFINE r == target[c]
  <2>1. r \in Requests /\ status[r] = "pending"
    BY DEF IInv, CallsFit, ClaimMessage
  <2>2. Len(audit[r]) = 1 /\ audit[r][1] = "created"
    BY <2>1, LogOfOpenRow
  <2>3. audit' = [audit EXCEPT ![r] = Append(@, "succeeded")] /\ TypeOK
    BY DEF ClaimMessage, IInv
  <2>4. "succeeded" \in Events
    BY DEF Events
  <2>5. /\ Len(audit'[r]) = Len(audit[r]) + 1
        /\ audit'[r][Len(audit[r]) + 1] = "succeeded"
        /\ \A i \in 1 .. Len(audit[r]) : audit'[r][i] = audit[r][i]
        /\ \A q \in Requests \ {r} : audit'[q] = audit[q]
    BY <2>1, <2>3, <2>4, LogGrows
  <2>6. Len(audit'[r]) = 2 /\ audit'[r][1] = "created" /\ audit'[r][2] = "succeeded"
    BY <2>2, <2>5
  <2> QED  BY <2>1, <2>5, <2>6 DEF IInv, AuditTellsOutcome, Settled, ClaimMessage, TypeOK
<1>8. RepliesHold'
  BY DEF IInv, RepliesHold, CallsFit, ClaimMessage, Return, AuditTellsOutcome, Settled,
     TypeOK, Calls
<1> QED  BY <1>1, <1>2, <1>3, <1>4, <1>5, <1>6, <1>7, <1>8 DEF IInv

\* The winner of the claim is the request's one owner.
LEMMA ClaimTransferStep ==
  ASSUME IInv, TypeOK', NEW c \in Submitters, ClaimTransfer(c)
  PROVE  IInv'
<1> USE DEF chain, Claimable
<1>0. /\ target[c] \in Requests /\ Len(audit[target[c]]) = 1
      /\ sends[target[c]] = 0 /\ result[target[c]] = "none"
  BY LogOfOpenRow DEF IInv, CallsFit, TransfersFit, ClaimTransfer
<1>1. CallsFit'
  BY DEF IInv, CallsFit, ClaimTransfer, Goto, AuditTellsOutcome, Settled, TransfersFit,
     TypeOK, Calls, SubmitPcs, ReadPcs
<1>2. OneOwner'
  BY DEF IInv, OneOwner, OwnersFit, Owner, Owning, ClaimTransfer, Goto, CallsFit,
     AuditTellsOutcome, Settled, TransfersFit, TypeOK, Calls
<1>3. OwnersFit'
  BY <1>0 DEF IInv, OwnersFit, Owner, Owning, ClaimTransfer, Goto, TypeOK, Calls
<1>4. ReadersFit'
  BY DEF IInv, ReadersFit, CallsFit, ClaimTransfer, Goto, AuditTellsOutcome, Settled,
     TransfersFit, TypeOK, Calls
<1>5. TransfersFit'
  BY DEF IInv, TransfersFit, ClaimTransfer, Goto, CallsFit, AuditTellsOutcome, Settled, TypeOK
<1>6. MessagesFit'
  BY DEF IInv, MessagesFit, ClaimTransfer, Goto, CallsFit, AuditTellsOutcome, Settled,
     TransfersFit, TypeOK
<1>7. AuditTellsOutcome'
  BY DEF IInv, AuditTellsOutcome, Settled, ClaimTransfer, Goto, CallsFit, TransfersFit, TypeOK
<1>8. RepliesHold'
  BY DEF IInv, RepliesHold, CallsFit, ClaimTransfer, Goto, AuditTellsOutcome, Settled,
     TransfersFit, TypeOK, Calls
<1> QED  BY <1>1, <1>2, <1>3, <1>4, <1>5, <1>6, <1>7, <1>8 DEF IInv

\* The broadcast happens while the owner's transfer was never sent.
LEMMA BroadcastStep ==
  ASSUME IInv, TypeOK', NEW c \in Submitters, Broadcast(c)
  PROVE  IInv'
<1> USE DEF row
<1>0. /\ pc[c] = "broadcast" /\ target[c] \in Requests \ Messages
      /\ status[target[c]] = "submitted" /\ result[target[c]] = "none"
      /\ node[target[c]] = "none" /\ sends[target[c]] = 0
  BY DEF Broadcast, IInv, CallsFit, OwnersFit, TransfersFit, Owner, Owning
<1>1. ASSUME NodeTakes(target[c]), NEW step \in {"record", "throw"}, Goto(c, step) PROVE IInv'
  <2> USE <1>0, <1>1 DEF NodeTakes
  <2>1. CallsFit'
    BY DEF IInv, CallsFit, Broadcast, Goto, TypeOK, Calls, SubmitPcs, ReadPcs
  <2>2. OneOwner'
    BY DEF IInv, OneOwner, OwnersFit, Broadcast, Goto, TypeOK, Calls, Owner, Owning
  <2>3. OwnersFit'
    BY DEF IInv, OwnersFit, Broadcast, Goto, TypeOK, Calls, Owner, Owning, CallsFit, OneOwner
  <2>4. ReadersFit'
    BY DEF IInv, ReadersFit, Broadcast, Goto, TypeOK, Calls, CallsFit
  <2>5. TransfersFit'
    BY DEF IInv, Broadcast, TypeOK, TransfersFit
  <2>6. MessagesFit'
    BY DEF IInv, Broadcast, TypeOK, MessagesFit
  <2>7. AuditTellsOutcome' /\ RepliesHold'
    BY DEF IInv, Broadcast, AuditTellsOutcome, Settled, RepliesHold, Goto
  <2> QED  BY <2>1, <2>2, <2>3, <2>4, <2>5, <2>6, <2>7 DEF IInv
<1>2. ASSUME UNCHANGED chain, Goto(c, "throw") PROVE IInv'
  <2> USE <1>0, <1>2 DEF chain
  <2>1. CallsFit'
    BY DEF IInv, CallsFit, Broadcast, Goto, TypeOK, Calls, SubmitPcs, ReadPcs
  <2>2. OneOwner'
    BY DEF IInv, OneOwner, OwnersFit, Broadcast, Goto, TypeOK, Calls, Owner, Owning
  <2>3. OwnersFit'
    BY DEF IInv, OwnersFit, Broadcast, Goto, TypeOK, Calls, Owner, Owning, CallsFit, OneOwner
  <2>4. ReadersFit'
    BY DEF IInv, ReadersFit, Broadcast, Goto, TypeOK, Calls, CallsFit
  <2>5. TransfersFit'
    BY DEF IInv, Broadcast, TypeOK, TransfersFit
  <2>6. MessagesFit'
    BY DEF IInv, Broadcast, TypeOK, MessagesFit
  <2>7. AuditTellsOutcome' /\ RepliesHold'
    BY DEF IInv, Broadcast, AuditTellsOutcome, Settled, RepliesHold, Goto
  <2> QED  BY <2>1, <2>2, <2>3, <2>4, <2>5, <2>6, <2>7 DEF IInv
<1> QED  BY <1>1, <1>2 DEF Broadcast

\* A failed broadcast ends the ownership and settles the row.
LEMMA MarkBroadcastFailedStep ==
  ASSUME IInv, TypeOK', NEW c \in Submitters, MarkBroadcastFailed(c)
  PROVE  IInv'
<1> USE DEF chain
<1>1. CallsFit'
  BY DEF IInv, CallsFit, MarkBroadcastFailed, Goto, Return, OwnersFit, Owner, Owning, TypeOK,
     Calls, SubmitPcs, ReadPcs
<1>2. OneOwner'
  BY DEF IInv, OneOwner, OwnersFit, Owner, Owning, MarkBroadcastFailed, Goto, Return,
     CallsFit, TypeOK, Calls
<1>3. OwnersFit'
  BY DEF IInv, OwnersFit, Owner, Owning, OneOwner, CallsFit, MarkBroadcastFailed, Goto,
     Return, TypeOK, Calls
<1>4. ReadersFit'
  BY DEF IInv, ReadersFit, CallsFit, MarkBroadcastFailed, Goto, Return, OwnersFit, Owner,
     Owning, TypeOK, Calls
<1>5. TransfersFit'
  BY DEF IInv, TransfersFit, MarkBroadcastFailed, Goto, Return, CallsFit, OwnersFit, Owner,
     Owning, TypeOK
<1>6. MessagesFit'
  BY DEF IInv, MessagesFit, MarkBroadcastFailed, Goto, Return, CallsFit, OwnersFit, Owner,
     Owning, TypeOK
<1>7. AuditTellsOutcome'
  BY DEF IInv, AuditTellsOutcome, Settled, MarkBroadcastFailed, Goto, Return, CallsFit,
     OwnersFit, Owner, Owning, TypeOK
<1>8. RepliesHold'
  BY DEF IInv, RepliesHold, CallsFit, MarkBroadcastFailed, Goto, Return, OwnersFit, Owner,
     Owning, TypeOK, Calls
<1> QED  BY <1>1, <1>2, <1>3, <1>4, <1>5, <1>6, <1>7, <1>8 DEF IInv

\* Only the owner writes the transaction id.
LEMMA RecordTxidStep ==
  ASSUME IInv, TypeOK', NEW c \in Submitters, RecordTxid(c)
  PROVE  IInv'
<1> USE DEF chain
<1>1. CallsFit'
  BY DEF IInv, CallsFit, RecordTxid, Goto, Return, OwnersFit, Owner, Owning, TypeOK, Calls,
     SubmitPcs, ReadPcs
<1>2. OneOwner'
  BY DEF IInv, OneOwner, OwnersFit, Owner, Owning, RecordTxid, Goto, Return, CallsFit, TypeOK, Calls
<1>3. OwnersFit'
  BY DEF IInv, OwnersFit, Owner, Owning, OneOwner, CallsFit, RecordTxid, Goto, Return, TypeOK, Calls
<1>4. ReadersFit'
  BY DEF IInv, ReadersFit, CallsFit, RecordTxid, Goto, Return, OwnersFit, Owner, Owning,
     TypeOK, Calls
<1>5. TransfersFit'
  BY DEF IInv, TransfersFit, RecordTxid, Goto, Return, CallsFit, OwnersFit, Owner, Owning, TypeOK
<1>6. MessagesFit'
  BY DEF IInv, MessagesFit, RecordTxid, Goto, Return, CallsFit, OwnersFit, Owner, Owning, TypeOK
<1>7. AuditTellsOutcome'
  BY DEF IInv, AuditTellsOutcome, Settled, RecordTxid, Goto, Return, CallsFit, OwnersFit,
     Owner, Owning, TypeOK
<1>8. RepliesHold'
  BY DEF IInv, RepliesHold, CallsFit, RecordTxid, Goto, Return, OwnersFit, Owner, Owning,
     TypeOK, Calls
<1> QED  BY <1>1, <1>2, <1>3, <1>4, <1>5, <1>6, <1>7, <1>8 DEF IInv

\* The owner holds the node's verdict or leaves.
LEMMA PollStep ==
  ASSUME IInv, TypeOK', NEW c \in Submitters, Poll(c)
  PROVE  IInv'
<1> USE DEF row, chain
<1>1. PICK a \in PolledAnswers(target[c]) :
         /\ answer' = [answer EXCEPT ![c] = a]
         /\ IF a = "none" THEN Return(c, "submitted") ELSE Goto(c, "settle")
  BY DEF Poll
<1>2. CallsFit'
  BY <1>1 DEF IInv, CallsFit, Poll, Goto, Return, TypeOK, Calls, SubmitPcs, ReadPcs
<1>3. OneOwner'
  <2>1. target' = target /\ \A b \in Submitters : Owner(b)' => Owner(b)
    BY <1>1 DEF IInv, Owner, Owning, Poll, Goto, Return, TypeOK, Calls
  <2> QED  BY <2>1 DEF IInv, OneOwner
<1>4. OwnersFit'
  BY <1>1 DEF IInv, OwnersFit, Owner, Owning, Poll, PolledAnswers, Goto, Return, TypeOK, Calls
<1>5. ReadersFit'
  BY <1>1, CallsAssumption
     DEF IInv, ReadersFit, CallsFit, Poll, Goto, Return, TypeOK, Calls, SubmitPcs, ReadPcs
<1>6. TransfersFit' /\ MessagesFit' /\ AuditTellsOutcome'
  BY DEF IInv, TransfersFit, MessagesFit, AuditTellsOutcome, Settled, Poll
<1>7. RepliesHold'
  BY <1>1 DEF IInv, RepliesHold, CallsFit, OwnersFit, Owner, Owning, Poll, Goto, Return,
     TypeOK, Calls
<1> QED  BY <1>2, <1>3, <1>4, <1>5, <1>6, <1>7 DEF IInv

\* A verdict held by a call agrees with the outcome the row may already have.
LEMMA VerdictAgrees ==
  ASSUME IInv, NEW r \in Requests \ Messages, result[r] # "none"
  PROVE  /\ status[r] = "succeeded" => node[r] = "processed"
         /\ status[r] = "failed" => node[r] = "failed"
BY DEF IInv, TransfersFit, TypeOK, Errors

\* The owner settles the row by the verdict it holds.
LEMMA SettleStep ==
  ASSUME IInv, TypeOK', NEW c \in Submitters, Settle(c)
  PROVE  IInv'
<1> DEFINE r == target[c]
<1>0. /\ r \in Requests \ Messages /\ pc[c] = "settle" /\ Len(audit[r]) = 1
      /\ answer[c] = node[r] /\ status[r] \notin {"absent", "pending"}
      /\ result[r] # "none" /\ Owner(c) /\ reply[c] = "none"
  BY DEF Settle, IInv, CallsFit, OwnersFit, Owner, Owning
<1>1. /\ \A d \in Submitters : Owner(d) /\ d # c => target[d] # r
      /\ answer' = answer /\ target' = target /\ node' = node /\ sends' = sends
  BY <1>0 DEF IInv, OneOwner, Settle, chain
<1>2. /\ status[r] = "succeeded" => answer[c] = "processed"
      /\ status[r] = "failed" => answer[c] = "failed"
      /\ audit[r][1] = "created"
  BY <1>0, VerdictAgrees DEF IInv, AuditTellsOutcome
<1> USE <1>0, <1>1, <1>2
<1>3. ASSUME NEW s \in {"succeeded", "failed"},
             status' = [status EXCEPT ![r] = s],
             \/ /\ s = "succeeded" /\ answer[c] = "processed"
                /\ result' = [result EXCEPT ![r] = "settled"] /\ error' = error
             \/ /\ s = "failed" /\ answer[c] = "failed"
                /\ result' = result /\ error' = [error EXCEPT ![r] = "verdict"],
             audit' = [audit EXCEPT ![r] = Append(@, s)],
             Return(c, s)
      PROVE  IInv'
  <2> USE <1>3
  <2>1. CallsFit'
    BY DEF IInv, CallsFit, Return, TypeOK, Calls, SubmitPcs, ReadPcs
  <2>2. OneOwner'
    BY DEF IInv, OneOwner, Owner, Owning, Return, TypeOK, Calls
  <2>3. OwnersFit'
    BY DEF IInv, OwnersFit, Owner, Owning, OneOwner, CallsFit, Return, TypeOK, Calls
  <2>4. ReadersFit'
    BY DEF IInv, ReadersFit, CallsFit, Return, TypeOK, Calls
  <2>5. TransfersFit'
    BY DEF IInv, TransfersFit, TypeOK
  <2>6. MessagesFit'
    BY MessagesAssumption DEF IInv, MessagesFit, TypeOK
  <2>7. AuditTellsOutcome'
    <3>1. s \in Events /\ TypeOK
      BY DEF Events, IInv
    <3>2. /\ Len(audit'[r]) = Len(audit[r]) + 1
          /\ audit'[r][Len(audit[r]) + 1] = s
          /\ \A i \in 1 .. Len(audit[r]) : audit'[r][i] = audit[r][i]
          /\ \A q \in Requests \ {r} : audit'[q] = audit[q]
      BY <3>1, LogGrows
    <3>3. Len(audit'[r]) = 2 /\ audit'[r][1] = "created" /\ audit'[r][2] = s
      BY <3>2
    <3> QED  BY <3>2, <3>3 DEF IInv, AuditTellsOutcome, Settled, TypeOK
  <2>8. RepliesHold'
    BY DEF IInv, RepliesHold, CallsFit, Return, TypeOK, Calls
  <2> QED  BY <2>1, <2>2, <2>3, <2>4, <2>5, <2>6, <2>7, <2>8 DEF IInv
<1> QED  BY <1>3 DEF Settle, SucceedRow, FailRow

\* A call that is lost gives up its ownership.
LEMMA DieStep ==
  ASSUME IInv, TypeOK', NEW c \in Submitters, Die(c)
  PROVE  IInv'
<1> USE DEF row, chain
<1>1. CallsFit'
  <2>1. /\ pc' = [pc EXCEPT ![c] = "end"] /\ reply' = [reply EXCEPT ![c] = "lost"]
        /\ target[c] \in Requests /\ target' = target /\ status' = status
    BY DEF Die, Return, IInv, CallsFit
  <2>2. \A d \in Readers : pc'[d] \in ReadPcs /\ (pc'[d] # "get" => target[d] \in Requests)
    BY <2>1, CallsAssumption DEF IInv, CallsFit, TypeOK, Calls
  <2> QED  BY <2>1, <2>2 DEF IInv, CallsFit, TypeOK, Calls, SubmitPcs
<1>2. OneOwner'
  BY DEF IInv, OneOwner, OwnersFit, Owner, Owning, Die, Return, TypeOK, Calls
<1>3. OwnersFit'
  BY DEF IInv, OwnersFit, Owner, Owning, OneOwner, CallsFit, Die, Return, TypeOK, Calls
<1>4. ReadersFit'
  BY DEF IInv, ReadersFit, CallsFit, Die, Return, TypeOK, Calls
<1>5. TransfersFit'
  BY DEF IInv, TransfersFit, Die, Return, TypeOK
<1>6. MessagesFit'
  BY DEF IInv, MessagesFit, Die, Return, TypeOK
<1>7. AuditTellsOutcome'
  BY DEF IInv, AuditTellsOutcome, Settled, Die, Return, TypeOK
<1>8. RepliesHold'
  BY DEF IInv, RepliesHold, CallsFit, Die, Return, TypeOK, Calls
<1> QED  BY <1>1, <1>2, <1>3, <1>4, <1>5, <1>6, <1>7, <1>8 DEF IInv

\* A GET takes up a row that has a transaction id.
LEMMA GetReadStep ==
  ASSUME IInv, TypeOK', NEW d \in Readers, NEW r \in Requests, GetRead(d, r)
  PROVE  IInv'
<1> USE DEF row, chain
<1>1. CallsFit'
  BY DEF IInv, CallsFit, GetRead, Goto, Reconcilable, MessagesFit, TypeOK, Calls, SubmitPcs, ReadPcs
<1>2. OneOwner'
  BY DEF IInv, OneOwner, OwnersFit, Owner, Owning, GetRead, Goto, Reconcilable, MessagesFit,
     TypeOK, Calls
<1>3. OwnersFit'
  BY DEF IInv, OwnersFit, Owner, Owning, OneOwner, CallsFit, GetRead, Goto, Reconcilable,
     MessagesFit, TypeOK, Calls
<1>4. ReadersFit'
  <2>1. r \notin Messages /\ result[r] = "txid"
    BY DEF GetRead, Reconcilable, IInv, MessagesFit
  <2>2. target' = [target EXCEPT ![d] = r] /\ pc' = [pc EXCEPT ![d] = "getPoll"]
    BY DEF GetRead, Goto
  <2> QED  BY <2>1, <2>2 DEF IInv, ReadersFit, GetRead, TypeOK, Calls
<1>5. TransfersFit'
  BY DEF IInv, TransfersFit, GetRead, Goto, Reconcilable, MessagesFit, TypeOK
<1>6. MessagesFit'
  BY DEF IInv, MessagesFit, GetRead, Goto, Reconcilable, TypeOK
<1>7. AuditTellsOutcome'
  BY DEF IInv, AuditTellsOutcome, Settled, GetRead, Goto, Reconcilable, MessagesFit, TypeOK
<1>8. RepliesHold'
  BY DEF IInv, RepliesHold, CallsFit, GetRead, Goto, Reconcilable, MessagesFit, TypeOK, Calls
<1> QED  BY <1>1, <1>2, <1>3, <1>4, <1>5, <1>6, <1>7, <1>8 DEF IInv

\* A GET holds the node's verdict or starts over.
LEMMA GetPollStep ==
  ASSUME IInv, TypeOK', NEW d \in Readers, GetPoll(d)
  PROVE  IInv'
<1> USE DEF row, chain, PolledAnswers
<1>1. CallsFit'
  BY DEF IInv, CallsFit, GetPoll, Goto, TypeOK, Calls, SubmitPcs, ReadPcs
<1>2. OneOwner'
  BY DEF IInv, OneOwner, OwnersFit, Owner, Owning, GetPoll, Goto, TypeOK, Calls
<1>3. OwnersFit'
  BY DEF IInv, OwnersFit, Owner, Owning, OneOwner, CallsFit, GetPoll, Goto, TypeOK, Calls
<1>4. ReadersFit'
  BY DEF IInv, ReadersFit, CallsFit, GetPoll, Goto, TypeOK, Calls
<1>5. TransfersFit'
  BY DEF IInv, TransfersFit, GetPoll, Goto, TypeOK
<1>6. MessagesFit'
  BY DEF IInv, MessagesFit, GetPoll, Goto, TypeOK
<1>7. AuditTellsOutcome'
  BY DEF IInv, AuditTellsOutcome, Settled, GetPoll, Goto, TypeOK
<1>8. RepliesHold'
  BY DEF IInv, RepliesHold, CallsFit, GetPoll, Goto, TypeOK, Calls
<1> QED  BY <1>1, <1>2, <1>3, <1>4, <1>5, <1>6, <1>7, <1>8 DEF IInv

\* A GET marks the row by the verdict it holds, owner or no owner.
LEMMA GetMarkStep ==
  ASSUME IInv, TypeOK', NEW d \in Readers, GetMark(d)
  PROVE  IInv'
<1> DEFINE r == target[d]
<1>0. /\ r \in Requests \ Messages /\ pc[d] = "getMark" /\ answer[d] = node[r]
      /\ result[r] # "none" /\ status[r] \notin {"absent", "pending"}
      /\ answer' = answer /\ target' = target /\ audit' = audit
      /\ node' = node /\ sends' = sends
  BY DEF GetMark, IInv, CallsFit, ReadersFit, TransfersFit, chain
<1>1. /\ status[r] = "succeeded" => answer[d] = "processed"
      /\ status[r] = "failed" => answer[d] = "failed"
  BY <1>0, VerdictAgrees
<1> USE <1>0, <1>1
<1>2. ASSUME NEW s \in {"succeeded", "failed"},
             status' = [status EXCEPT ![r] = s],
             \/ /\ s = "succeeded" /\ answer[d] = "processed"
                /\ result' = [result EXCEPT ![r] = "reconciled"] /\ error' = error
             \/ /\ s = "failed" /\ answer[d] = "failed"
                /\ result' = result /\ error' = [error EXCEPT ![r] = "verdict"],
             Goto(d, "get")
      PROVE  IInv'
  <2> USE <1>2
  <2>1. CallsFit'
    BY DEF IInv, CallsFit, Goto, TypeOK, Calls, SubmitPcs, ReadPcs
  <2>2. OneOwner'
    BY DEF IInv, OneOwner, Owner, Owning, Goto, TypeOK, Calls
  <2>3. OwnersFit'
    BY DEF IInv, OwnersFit, Owner, Owning, CallsFit, Goto, TypeOK, Calls
  <2>4. ReadersFit'
    BY DEF IInv, ReadersFit, CallsFit, Goto, TypeOK, Calls
  <2>5. TransfersFit'
    BY DEF IInv, TransfersFit, TypeOK
  <2>6. MessagesFit'
    BY MessagesAssumption DEF IInv, MessagesFit, TypeOK
  <2>7. AuditTellsOutcome'
    BY DEF IInv, AuditTellsOutcome, Settled, TypeOK
  <2>8. RepliesHold'
    <3> SUFFICES ASSUME NEW b \in Submitters, reply[b] # "none"
                 PROVE  /\ reply[b] \in {"succeeded", "failed"} => status'[target[b]] = reply[b]
                        /\ reply[b] = "submitted" => result'[target[b]] # "none"
                        /\ reply[b] = "conflict" => status'[target[b]] \notin {"absent", "pending"}
      BY DEF RepliesHold, Goto
    <3>1. target[b] \in Requests
      BY DEF IInv, CallsFit
    <3>2. CASE target[b] = r
      BY <3>2 DEF IInv, RepliesHold, TypeOK
    <3>3. CASE target[b] # r
      BY <3>1, <3>3 DEF IInv, RepliesHold, TypeOK
    <3> QED  BY <3>2, <3>3
  <2> QED  BY <2>1, <2>2, <2>3, <2>4, <2>5, <2>6, <2>7, <2>8 DEF IInv
<1> QED  BY <1>2 DEF GetMark, SucceedRow, FailRow

\* A lost GET leaves nothing behind.
LEMMA GetDieStep ==
  ASSUME IInv, TypeOK', NEW d \in Readers, GetDie(d)
  PROVE  IInv'
<1> USE DEF row, chain
<1>1. CallsFit'
  BY DEF IInv, CallsFit, GetDie, Goto, TypeOK, Calls, SubmitPcs, ReadPcs
<1>2. OneOwner'
  BY DEF IInv, OneOwner, OwnersFit, Owner, Owning, GetDie, Goto, TypeOK, Calls
<1>3. OwnersFit'
  BY DEF IInv, OwnersFit, Owner, Owning, OneOwner, CallsFit, GetDie, Goto, TypeOK, Calls
<1>4. ReadersFit'
  BY DEF IInv, ReadersFit, CallsFit, GetDie, Goto, TypeOK, Calls
<1>5. TransfersFit'
  BY DEF IInv, TransfersFit, GetDie, Goto, TypeOK
<1>6. MessagesFit'
  BY DEF IInv, MessagesFit, GetDie, Goto, TypeOK
<1>7. AuditTellsOutcome'
  BY DEF IInv, AuditTellsOutcome, Settled, GetDie, Goto, TypeOK
<1>8. RepliesHold'
  BY DEF IInv, RepliesHold, CallsFit, GetDie, Goto, TypeOK, Calls
<1> QED  BY <1>1, <1>2, <1>3, <1>4, <1>5, <1>6, <1>7, <1>8 DEF IInv

-----------------------------------------------------------------------------
\* The invariant holds of the empty table.
LEMMA InitInv == Init => IInv
<1> SUFFICES ASSUME Init PROVE IInv
  OBVIOUS
<1> USE DEF Init, Calls
<1>1. TypeOK
  BY DEF TypeOK, Statuses, Results, Errors, Fates, Verdicts, Answers, SubmitPcs, ReadPcs, Replies
<1>2. CallsFit /\ OneOwner /\ OwnersFit /\ ReadersFit
  BY CallsAssumption DEF CallsFit, OneOwner, OwnersFit, ReadersFit, Owner, Owning, SubmitPcs,
     ReadPcs
<1>3. TransfersFit /\ MessagesFit
  BY MessagesAssumption DEF TransfersFit, MessagesFit
<1>4. AuditTellsOutcome /\ RepliesHold
  BY DEF AuditTellsOutcome, Settled, RepliesHold
<1> QED  BY <1>1, <1>2, <1>3, <1>4 DEF IInv

\* Every step of every handler, of time and of the node keeps the invariant.
LEMMA NextInv == IInv /\ [Next]_vars => IInv'
<1> SUFFICES ASSUME IInv, [Next]_vars PROVE IInv'
  OBVIOUS
<1>1. TypeOK'
  BY TypeStep DEF IInv
<1>2. CASE Environment
  BY <1>1, <1>2, CreateStep, ExpireStep, DecideStep DEF Environment
<1>3. ASSUME NEW c \in Submitters, SubmitStep(c) PROVE IInv'
  BY <1>1, <1>3, SubmitReadStep, VerifyStep, ClaimLostStep, ClaimMessageStep, ClaimTransferStep,
     BroadcastStep, MarkBroadcastFailedStep, RecordTxidStep, PollStep, SettleStep, DieStep
     DEF SubmitStep
<1>4. ASSUME NEW d \in Readers, GetStep(d) PROVE IInv'
  BY <1>1, <1>4, GetReadStep, GetPollStep, GetMarkStep, GetDieStep DEF GetStep
<1>5. CASE UNCHANGED vars
  BY <1>5 DEF vars, IInv, TypeOK, CallsFit, OneOwner, OwnersFit, ReadersFit, Owner, Owning,
     TransfersFit, MessagesFit, AuditTellsOutcome, RepliesHold, Settled
<1> QED  BY <1>2, <1>3, <1>4, <1>5 DEF Next

\* The inductive invariant, which the theorems below read off.
THEOREM Invariance == Spec => []IInv
<1> QED  BY InitInv, NextInv, PTL DEF Spec

\* Every variable keeps its type, for any number of requests and calls.
THEOREM TypeCorrect == Spec => []TypeOK
<1>1. IInv => TypeOK
  BY DEF IInv
<1> QED  BY <1>1, Invariance, PTL

\* The claim before the broadcast: however many calls race, retry or die, the
\* node is handed a transfer at most once.
THEOREM BroadcastOnce == Spec => []AtMostOneBroadcast
<1>1. ASSUME IInv, NEW r \in Requests PROVE sends[r] <= 1
  <2>1. CASE r \in Messages
    BY <1>1, <2>1 DEF IInv, MessagesFit
  <2>2. CASE r \notin Messages
    BY <1>1, <2>2 DEF IInv, TransfersFit
  <2> QED  BY <2>1, <2>2
<1>2. IInv => AtMostOneBroadcast
  BY <1>1 DEF AtMostOneBroadcast
<1> QED  BY <1>2, Invariance, PTL

\* No transfer is called succeeded or failed against the node's verdict.
THEOREM TruthfulRows == Spec => []ReportedAsDecided
<1>1. IInv => ReportedAsDecided
  BY DEF IInv, TransfersFit, ReportedAsDecided
<1> QED  BY <1>1, Invariance, PTL

\* The audit log never contradicts the row, and no outcome is logged twice.
THEOREM TruthfulLog == Spec => []AuditTellsOutcome
<1>1. IInv => AuditTellsOutcome
  BY DEF IInv
<1> QED  BY <1>1, Invariance, PTL

\* What a submit call answered stays true of its row.
THEOREM TruthfulReplies == Spec => []RepliesHold
<1>1. IInv => RepliesHold
  BY DEF IInv
<1> QED  BY <1>1, Invariance, PTL

-----------------------------------------------------------------------------
(* Outcomes are final. *)

\* The row of a transfer is marked by a verdict the node has given.
VerdictWritten(r) ==
  /\ r \in Requests \ Messages
  /\ result[r] # "none" /\ status[r] \notin {"absent", "pending"}
  /\ \/ node[r] = "processed" /\ \E found \in {"settled", "reconciled"} : SucceedRow(r, found)
     \/ node[r] = "failed" /\ FailRow(r)
  /\ UNCHANGED chain

\* The submit call's last write is such a marking.
LEMMA SettleWrites == ASSUME IInv, NEW c \in Submitters, Settle(c) PROVE VerdictWritten(target[c])
<1>1. /\ target[c] \in Requests \ Messages /\ result[target[c]] # "none"
      /\ status[target[c]] \notin {"absent", "pending"} /\ answer[c] = node[target[c]]
  BY DEF Settle, IInv, CallsFit, OwnersFit, Owner, Owning
<1>2. \/ answer[c] = "processed" /\ SucceedRow(target[c], "settled")
      \/ answer[c] = "failed" /\ FailRow(target[c])
  BY DEF Settle
<1>3. UNCHANGED chain
  BY DEF Settle, chain
<1> QED  BY <1>1, <1>2, <1>3 DEF VerdictWritten

\* And so is what a GET writes.
LEMMA GetMarkWrites == ASSUME IInv, NEW d \in Readers, GetMark(d) PROVE VerdictWritten(target[d])
<1>1. /\ target[d] \in Requests \ Messages /\ result[target[d]] # "none"
      /\ status[target[d]] \notin {"absent", "pending"} /\ answer[d] = node[target[d]]
  BY DEF GetMark, IInv, CallsFit, ReadersFit, TransfersFit
<1>2. \/ answer[d] = "processed" /\ SucceedRow(target[d], "reconciled")
      \/ answer[d] = "failed" /\ FailRow(target[d])
  BY DEF GetMark
<1>3. UNCHANGED chain
  BY DEF GetMark, chain
<1> QED  BY <1>1, <1>2, <1>3 DEF VerdictWritten

\* Who may change the status of a row, and to what: nobody once it is settled.
LEMMA SettledStays ==
  ASSUME IInv, [Next]_vars, NEW r \in Requests, Settled(r)
  PROVE  status'[r] = status[r]
<1> USE DEF Settled
<1>1. ASSUME NEW q \in Requests, Create(q) PROVE status'[r] = status[r]
  BY <1>1 DEF Create, IInv, TypeOK
<1>2. ASSUME NEW c \in Submitters, ClaimMessage(c) \/ ClaimTransfer(c) PROVE status'[r] = status[r]
  BY <1>2 DEF ClaimMessage, ClaimTransfer, Claimable, IInv, TypeOK
<1>3. ASSUME NEW c \in Submitters, MarkBroadcastFailed(c) PROVE status'[r] = status[r]
  BY <1>3 DEF MarkBroadcastFailed, IInv, TypeOK, OwnersFit, Owner, Owning
<1>4. ASSUME NEW q \in Requests, VerdictWritten(q) PROVE status'[r] = status[r]
  <2>1. /\ status[q] = "succeeded" => node[q] = "processed"
        /\ status[q] = "failed" => node[q] = "failed"
    BY <1>4, VerdictAgrees DEF VerdictWritten
  <2>2. CASE node[q] = "processed"
    BY <1>4, <2>1, <2>2 DEF VerdictWritten, SucceedRow, IInv, TypeOK
  <2>3. CASE node[q] = "failed"
    BY <1>4, <2>1, <2>3 DEF VerdictWritten, FailRow, IInv, TypeOK
  <2> QED  BY <1>4, <2>2, <2>3 DEF VerdictWritten
<1>5. ASSUME NEW c \in Submitters, Settle(c) PROVE status'[r] = status[r]
  BY <1>4, <1>5, SettleWrites DEF VerdictWritten
<1>6. ASSUME NEW d \in Readers, GetMark(d) PROVE status'[r] = status[r]
  BY <1>4, <1>6, GetMarkWrites DEF VerdictWritten
<1>7. CASE Environment
  BY <1>1, <1>7 DEF Environment, Expire, NodeDecide, row
<1>8. ASSUME NEW c \in Submitters, SubmitStep(c) PROVE status'[r] = status[r]
  BY <1>2, <1>3, <1>5, <1>8 DEF SubmitStep, SubmitRead, Verify, ClaimLost, Broadcast,
     RecordTxid, Poll, Die, row
<1>9. ASSUME NEW d \in Readers, GetStep(d) PROVE status'[r] = status[r]
  BY <1>6, <1>9 DEF GetStep, GetRead, GetPoll, GetDie, row
<1> QED  BY <1>7, <1>8, <1>9 DEF Next, vars

\* The outcome of a request is never rewritten.
THEOREM FinalOutcome == Spec => OutcomeIsFinal
<1>1. IInv /\ [Next]_vars => [\A r \in Requests : Settled(r) => status'[r] = status[r]]_vars
  BY SettledStays
<1> QED  BY <1>1, Invariance, PTL DEF Spec, OutcomeIsFinal

-----------------------------------------------------------------------------
(* Refinement of SigningIntent. *)

IntentStep == [Intent!Next]_(Intent!vars)

\* What a status is called among the intents.
LEMMA Phases == /\ PhaseOf["absent"] = "unborn" /\ PhaseOf["pending"] = "open"
                /\ PhaseOf["submitted"] = "spent" /\ PhaseOf["succeeded"] = "done"
                /\ PhaseOf["failed"] = "failed"
BY DEF PhaseOf

\* An empty table holds unborn intents.
LEMMA InitIntent == Init => Intent!Init
<1> SUFFICES ASSUME Init PROVE Intent!Init
  OBVIOUS
<1>1. {r \in Requests : sends[r] > 0} = {}
  BY DEF Init
<1>2. {r \in Requests : result[r] \notin {"none", "signature"}} = {}
  BY DEF Init
<1> QED  BY <1>1, <1>2, Phases DEF Init, Intent!Init

\* A step of one intent is a step of the intents.
LEMMA OneIntentSteps ==
  ASSUME NEW r \in Requests,
         \/ Intent!Open(r) \/ Intent!Attest(r) \/ Intent!Spend(r) \/ Intent!Send(r)
         \/ Intent!Acknowledge(r) \/ Intent!Conclude(r) \/ Intent!GiveUp(r)
         \/ \E v \in Verdicts : Intent!Decide(r, v)
  PROVE  IntentStep
BY DEF IntentStep, Intent!Next, Intent!Verdicts, Verdicts

\* A verdict written to a row concludes the intent, or repeats its conclusion.
LEMMA VerdictConcludes ==
  ASSUME IInv, NEW r \in Requests, VerdictWritten(r) PROVE IntentStep
<1>1. /\ status[r] = "succeeded" => node[r] = "processed"
      /\ status[r] = "failed" => node[r] = "failed"
  BY VerdictAgrees DEF VerdictWritten
<1>2. result[r] # "signature" /\ result[r] # "none"
  BY DEF IInv, TransfersFit, VerdictWritten
<1>3. status \in [Requests -> Statuses] /\ result \in [Requests -> Results]
  BY DEF IInv, TypeOK
<1> DEFINE s == IF node[r] = "processed" THEN "succeeded" ELSE "failed"
<1>4. /\ status' = [status EXCEPT ![r] = s]
      /\ result' = result \/ \E found \in {"settled", "reconciled"} : result' = [result EXCEPT ![r] = found]
      /\ node[r] \in Verdicts /\ node' = node /\ sends' = sends
  BY DEF VerdictWritten, SucceedRow, FailRow, Verdicts, chain
<1>5. /\ {q \in Requests : result'[q] \notin {"none", "signature"}}
           = {q \in Requests : result[q] \notin {"none", "signature"}}
      /\ {q \in Requests : sends'[q] > 0} = {q \in Requests : sends[q] > 0}
  BY <1>2, <1>3, <1>4
<1>6. CASE status[r] = "submitted"
  <2>1. [q \in Requests |-> PhaseOf[status'[q]]]
          = [[q \in Requests |-> PhaseOf[status[q]]] EXCEPT
               ![r] = IF node[r] = "processed" THEN "done" ELSE "failed"]
    BY <1>3, <1>4, Phases
  <2>2. Intent!Conclude(r)
    BY <1>2, <1>4, <1>5, <1>6, <2>1, Phases DEF Intent!Conclude, Intent!Verdicts, Verdicts
  <2> QED  BY <2>2, OneIntentSteps
<1>7. CASE status[r] \in {"succeeded", "failed"}
  <2>1. status' = status
    BY <1>1, <1>3, <1>4, <1>7 DEF Verdicts
  <2> QED  BY <1>4, <1>5, <2>1 DEF IntentStep, Intent!vars
<1> QED  BY <1>3, <1>6, <1>7 DEF VerdictWritten, Statuses

\* Every step of the handlers is a step of the intents, or none at all.
LEMMA NextIntent == ASSUME IInv, IInv', [Next]_vars PROVE IntentStep
<1>1. ASSUME NEW r \in Requests, Create(r) PROVE Intent!Open(r)
  BY <1>1, Phases DEF Create, Intent!Open, IInv, TypeOK, chain
<1>2. ASSUME NEW r \in Requests, NEW v \in Verdicts, NodeDecide(r, v) PROVE Intent!Decide(r, v)
  BY <1>2 DEF NodeDecide, Intent!Decide, IInv, TypeOK, row
<1>3. ASSUME NEW c \in Submitters, NEW r \in Requests, r = target[c], ClaimMessage(c) PROVE Intent!Attest(r)
  <2>1. /\ r \in Requests /\ r \in Messages /\ status[r] = "pending"
        /\ result[r] \in {"none", "signature"}
    BY <1>3 DEF ClaimMessage, Claimable, IInv, CallsFit, MessagesFit
  <2>2. {q \in Requests : result'[q] \notin {"none", "signature"}}
          = {q \in Requests : result[q] \notin {"none", "signature"}}
    BY <1>3, <2>1 DEF ClaimMessage, IInv, TypeOK
  <2> QED  BY <1>3, <2>1, <2>2, Phases DEF ClaimMessage, chain, Intent!Attest, IInv, TypeOK
<1>4. ASSUME NEW c \in Submitters, NEW r \in Requests, r = target[c], ClaimTransfer(c) PROVE Intent!Spend(r)
  BY <1>4, Phases DEF ClaimTransfer, Claimable, Intent!Spend, IInv, TypeOK, chain, CallsFit
<1>5. ASSUME UNCHANGED row, UNCHANGED chain PROVE IntentStep
  BY <1>5 DEF row, chain, IntentStep, Intent!vars
<1>6. ASSUME NEW c \in Submitters, NEW r \in Requests, r = target[c], Broadcast(c) PROVE IntentStep
  <2>1. /\ r \in Requests /\ status[r] = "submitted"
        /\ sends[r] = 0 /\ node[r] = "none"
    BY <1>6 DEF Broadcast, IInv, CallsFit, OwnersFit, TransfersFit, Owner, Owning
  <2>2. CASE NodeTakes(r)
    <3>1. Intent!Send(r)
      <4>1. node' = [node EXCEPT ![r] = "queued"]
        BY <2>1, <2>2 DEF NodeTakes
      <4>2. sends' = [sends EXCEPT ![r] = 1]
        BY <2>1, <2>2 DEF NodeTakes
      <4>3. {q \in Requests : sends'[q] > 0}
              = {q \in Requests : sends[q] > 0} \cup {r}
        BY <2>1, <4>2 DEF IInv, TypeOK
      <4> QED  BY <1>6, <2>1, <4>1, <4>3, Phases DEF Broadcast, row, Intent!Send
    <3> QED  BY <2>1, <3>1, OneIntentSteps
  <2> QED  BY <1>5, <1>6, <2>2 DEF Broadcast
<1>7. ASSUME NEW c \in Submitters, NEW r \in Requests, r = target[c], MarkBroadcastFailed(c) PROVE Intent!GiveUp(r)
  <2>1. /\ r \in Requests /\ status[r] = "submitted" /\ result[r] = "none"
    BY <1>7 DEF MarkBroadcastFailed, IInv, CallsFit, OwnersFit, Owner, Owning
  <2> QED  BY <1>7, <2>1, Phases DEF MarkBroadcastFailed, Intent!GiveUp, IInv, TypeOK, chain
<1>8. ASSUME NEW c \in Submitters, NEW r \in Requests, r = target[c], RecordTxid(c) PROVE Intent!Acknowledge(r)
  <2>1. /\ r \in Requests /\ status[r] = "submitted" /\ sends[r] = 1
    BY <1>8 DEF RecordTxid, IInv, CallsFit, OwnersFit, Owner, Owning
  <2>2. {q \in Requests : result'[q] \notin {"none", "signature"}}
          = {q \in Requests : result[q] \notin {"none", "signature"}} \cup {r}
    BY <1>8, <2>1 DEF RecordTxid, IInv, TypeOK
  <2> QED  BY <1>8, <2>1, <2>2, Phases DEF RecordTxid, Intent!Acknowledge, chain
<1>9. ASSUME NEW c \in Submitters, Settle(c) PROVE IntentStep
  BY <1>9, SettleWrites, VerdictConcludes DEF VerdictWritten
<1>10. ASSUME NEW d \in Readers, GetMark(d) PROVE IntentStep
  BY <1>10, GetMarkWrites, VerdictConcludes DEF VerdictWritten
<1>11. CASE Environment
  BY <1>1, <1>2, <1>5, <1>11, OneIntentSteps DEF Environment, Expire
<1>12. ASSUME NEW c \in Submitters, SubmitStep(c) PROVE IntentStep
  <2>1. CASE pc[c] \in {"claim", "broadcast", "throw", "record"}
    <3>1. PICK r \in Requests : r = target[c]
      BY <2>1 DEF IInv, CallsFit
    <3>2. CASE ClaimMessage(c) \/ ClaimTransfer(c) \/ MarkBroadcastFailed(c) \/ RecordTxid(c)
      BY <1>3, <1>4, <1>7, <1>8, <3>1, <3>2, OneIntentSteps
    <3> QED  BY <1>5, <1>6, <1>9, <1>12, <3>1, <3>2
             DEF SubmitStep, SubmitRead, Verify, ClaimLost, Poll, Die
  <2>2. CASE pc[c] \notin {"claim", "broadcast", "throw", "record"}
    BY <1>5, <1>9, <1>12, <2>2
       DEF SubmitStep, SubmitRead, Verify, ClaimLost, ClaimMessage, ClaimTransfer, Broadcast,
           MarkBroadcastFailed, RecordTxid, Poll, Die
  <2> QED  BY <2>1, <2>2
<1>13. ASSUME NEW d \in Readers, GetStep(d) PROVE IntentStep
  BY <1>5, <1>10, <1>13 DEF GetStep, GetRead, GetPoll, GetDie
<1>14. CASE UNCHANGED vars
  BY <1>5, <1>14 DEF vars, row, chain
<1> QED  BY <1>11, <1>12, <1>13, <1>14 DEF Next

\* The handlers implement the intents: claimed before sent, sent once,
\* concluded by the chain's verdict.
THEOREM ImplementsIntentSafety == Spec => Intent!Safety
<1>1. IInv /\ IInv' /\ [Next]_vars => [Intent!Next]_(Intent!vars)
  BY NextIntent DEF IntentStep
<1> QED  BY <1>1, InitIntent, Invariance, PTL DEF Spec, Intent!Safety

-----------------------------------------------------------------------------
(* The swap page *)

\* What the page is about: the account, the network and the form.
Here == [account |-> trader, network |-> network, draft |-> draft]
Subject == [account: Accounts, network: Networks, draft: Trades \union {None}]
Source == {"clamm", "propamm"}
QuoteType == [of: Subject, source: Source]
CallType == [id: Nat, of: Subject, sent: BOOLEAN]
TryType == [quote: QuoteType, shown: Subject,
            phase: {"focus", "session", "sign", "submit", "confirm", "success", "failed", "cut"},
            via: Networks \union {None}, tx: {None, "pending", "landed", "refused"}]

\* A click took a quote of what it showed.
ClickFits(t) == t.quote.of = t.shown /\ (t.phase = "success" => t.tx = "landed")

\* The last call of the hook asks for what is shown, and so does the quote when
\* the hook waits for nothing.
HookFits ==
    /\ trader \in Accounts /\ network \in Networks /\ draft \in Trades \union {None}
    /\ request \in Nat /\ asking \subseteq CallType
    /\ quote \in QuoteType \union {None}
    /\ \A r \in asking : r.id <= request /\ (r.id = request => r.of = Here)
    /\ quote # None => loading = TRUE \/ quote.of = Here

SwapInv ==
    /\ HookFits
    /\ tries \in [Attempts -> TryType \union {None}]
    /\ \A i \in Attempts : tries[i] # None => ClickFits(tries[i])

\* A change of account, network or form asks again: a late answer to an older call
\* is not heard.
LEMMA RequoteFits ==
  ASSUME HookFits, NEW a \in Accounts, NEW n \in Networks, NEW d \in Trades \union {None},
         Swap!Requote(a, n, d), trader' = a, network' = n, draft' = d
  PROVE  HookFits'
<1> DEFINE this == [id |-> request + 1, of |-> [account |-> a, network |-> n, draft |-> d],
                    sent |-> FALSE]
<1>1. /\ request' = request + 1
      /\ loading' = (d # None)
      /\ \/ d = None /\ asking' \subseteq asking /\ quote' = None
         \/ d # None /\ asking' \subseteq asking \union {this} /\ quote' = quote
  BY DEF Swap!Requote
<1>2. this \in CallType /\ this.of = Here' /\ this.id = request'
  BY <1>1 DEF HookFits, CallType, Subject, Here
<1> HIDE DEF this
<1>3. request' \in Nat /\ \A r \in asking : r.id < request'
  BY <1>1 DEF HookFits, CallType
<1>4. asking' \subseteq CallType /\ \A r \in asking' : r.id <= request' /\ (r.id = request' => r.of = Here')
  BY <1>1, <1>2, <1>3 DEF HookFits, CallType
<1>5. quote' \in QuoteType \union {None} /\ (quote' # None => loading' = TRUE)
  BY <1>1 DEF HookFits
<1> QED BY <1>3, <1>4, <1>5 DEF HookFits

\* A page that is opened asks for what it shows.
LEMMA OpenedFits ==
  ASSUME HookFits, NEW d \in Trades \union {None}, Swap!Opened(d), UNCHANGED <<trader, network>>
  PROVE  HookFits'
<1> DEFINE this == [id |-> request + 1, sent |-> FALSE,
                    of |-> [account |-> trader, network |-> network, draft |-> d]]
<1>1. draft' = d /\ quote' = None /\ request' = request + 1 /\ asking' \subseteq {this}
  BY DEF Swap!Opened
<1>2. this \in CallType /\ this.of = Here' /\ this.id = request'
  BY <1>1 DEF HookFits, CallType, Subject, Here
<1> HIDE DEF this
<1> QED BY <1>1, <1>2 DEF HookFits

\* The quotes of both makers: the answer of the last call is about what is shown.
LEMMA AnswerFits ==
  ASSUME HookFits, Swap!Debounced \/ Swap!Answer
  PROVE  HookFits' /\ UNCHANGED tries
<1>1. UNCHANGED <<trader, network, draft, request, tries>>
  BY DEF Swap!Debounced, Swap!Answer
<1>2. CASE Swap!Debounced
  <2>1. PICK r \in asking : asking' = (asking \ {r}) \union {[r EXCEPT !.sent = TRUE]}
    BY <1>2 DEF Swap!Debounced
  <2> DEFINE n == [r EXCEPT !.sent = TRUE]
  <2>2. n \in CallType /\ n.id = r.id /\ n.of = r.of
    BY DEF HookFits, CallType
  <2>3. asking' = (asking \ {r}) \union {n} /\ UNCHANGED <<quote, loading>>
    BY <1>2, <2>1 DEF Swap!Debounced
  <2> HIDE DEF n
  <2> QED BY <1>1, <2>2, <2>3 DEF HookFits, Here
<1>3. CASE Swap!Answer
  <2>1. PICK r \in asking :
           /\ asking' = asking \ {r}
           /\ IF ~Swap!Current(r) THEN UNCHANGED <<quote, loading, failed>>
              ELSE \E offers \in Swap!Offers(r.of) :
                     LET best == Swap!getAggregatedQuote(offers)
                     IN  /\ loading' = FALSE
                         /\ failed' = IF best = {} THEN TRUE ELSE failed
                         /\ IF best = {} THEN quote' = None
                            ELSE \E o \in best : quote' = [of |-> r.of, source |-> o.source]
    BY <1>3 DEF Swap!Answer
  <2>2. \A r2 \in asking' : r2 \in asking
    BY <2>1
  <2>3. CASE ~Swap!Current(r)
    BY <1>1, <2>1, <2>2, <2>3 DEF HookFits, Here
  <2>4. CASE Swap!Current(r)
    <3>1. PICK offers \in Swap!Offers(r.of) :
             \/ quote' = None
             \/ \E o \in Swap!getAggregatedQuote(offers) : quote' = [of |-> r.of, source |-> o.source]
      BY <2>1, <2>4
    <3>2. ASSUME NEW o \in Swap!getAggregatedQuote(offers) PROVE o.source \in Source
      <4>1. o # None /\ (o = offers.clamm \/ o = offers.propamm)
        BY DEF Swap!getAggregatedQuote
      <4>2. offers.clamm = None \/ offers.clamm \in [source: {"clamm"}, fillable: BOOLEAN, brings: {1, 2}]
        BY DEF Swap!Offers
      <4>3. offers.propamm = None \/ offers.propamm \in [source: {"propamm"}, fillable: BOOLEAN, brings: {1, 2}]
        BY DEF Swap!Offers
      <4> QED BY <4>1, <4>2, <4>3 DEF Source
    <3>3. r.of = Here /\ r.of \in Subject
      BY <2>4 DEF HookFits, Swap!Current, CallType
    <3>4. quote' = None \/ (quote' \in QuoteType /\ quote'.of = Here)
      BY <3>1, <3>2, <3>3 DEF QuoteType
    <3> QED BY <1>1, <2>2, <3>4 DEF HookFits, Here
  <2> QED BY <1>1, <2>3, <2>4
<1> QED BY <1>2, <1>3

\* What leaves account, network, form and quote alone leaves the hook's order.
LEMMA HookStays ==
  ASSUME HookFits, UNCHANGED <<trader, network, draft, request, asking, quote, loading>>
  PROVE  HookFits'
BY DEF HookFits, Here

\* A page that is left or handed over cuts what is under way.
LEMMA CutFits ==
  ASSUME SwapInv
  PROVE  /\ Swap!Cut \in [Attempts -> TryType \union {None}]
         /\ \A i \in Attempts : Swap!Cut[i] # None => ClickFits(Swap!Cut[i])
<1>1. ASSUME NEW i \in Attempts
      PROVE  /\ Swap!Cut[i] \in TryType \union {None}
             /\ Swap!Cut[i] # None => ClickFits(Swap!Cut[i])
  <2>1. CASE Swap!Running(tries[i])
    <3>1. tries[i] \in TryType /\ ClickFits(tries[i])
      BY <2>1 DEF SwapInv, Swap!Running
    <3>2. Swap!Cut[i] = [tries[i] EXCEPT !.phase = "cut"]
      BY <2>1 DEF Swap!Cut
    <3>3. [tries[i] EXCEPT !.phase = "cut"] \in TryType /\ ClickFits([tries[i] EXCEPT !.phase = "cut"])
      BY <3>1 DEF TryType, ClickFits
    <3> QED BY <3>2, <3>3
  <2>2. CASE ~Swap!Running(tries[i])
    BY <2>2 DEF SwapInv, Swap!Cut
  <2> QED BY <2>1, <2>2
<1> QED BY <1>1 DEF Swap!Cut

\* A click takes a fresh quote of the account, network and form shown.
LEMMA ClicksFit ==
  ASSUME SwapInv, Swap!Click
  PROVE  SwapInv'
<1>1. /\ quote # None /\ ~loading
      /\ UNCHANGED <<trader, network, draft, request, asking, quote, loading>>
  BY DEF Swap!Click, Swap!Valid, Swap!hasFreshQuote
<1>2. PICK i \in Attempts, phase \in {"focus", "session"} :
         tries' = [tries EXCEPT ![i] = Swap!Begin(phase)]
  BY DEF Swap!Click
<1>3. quote \in QuoteType /\ quote.of = Here /\ Here \in Subject
  BY <1>1 DEF SwapInv, HookFits, Here, Subject
<1>4. Swap!Begin(phase) \in TryType /\ ClickFits(Swap!Begin(phase))
  BY <1>3 DEF Swap!Begin, TryType, ClickFits, Here
<1>5. HookFits'
  BY <1>1, HookStays DEF SwapInv
<1> QED BY <1>2, <1>4, <1>5 DEF SwapInv

\* The steps of a swap keep its quote and what its click showed.
LEMMA TryMoves ==
  ASSUME SwapInv, NEW i \in Attempts, tries[i] # None,
         \/ Swap!Focused(i) \/ Swap!EnsureSession(i) \/ Swap!Sign(i) \/ Swap!Submit(i)
         \/ Swap!Confirm(i) \/ Swap!Chain(i)
  PROVE  \E t \in TryType : ClickFits(t) /\ tries' = [tries EXCEPT ![i] = t]
<1>0. tries[i] \in TryType /\ ClickFits(tries[i])
  BY DEF SwapInv
<1>1. PICK old \in TryType : old = tries[i] /\ ClickFits(old)
  BY <1>0
<1>2. \A phase \in {"session", "sign", "submit", "failed"} :
         [old EXCEPT !.phase = phase] \in TryType /\ ClickFits([old EXCEPT !.phase = phase])
  BY <1>1 DEF TryType, ClickFits
<1>3. \A tx \in {None, "pending", "landed", "refused"}, via \in Networks, phase \in {"confirm", "failed"} :
         LET t == [old EXCEPT !.via = via, !.tx = tx, !.phase = phase]
         IN  t \in TryType /\ ClickFits(t)
  BY <1>1 DEF TryType, ClickFits
<1>4. CASE Swap!Focused(i) \/ Swap!EnsureSession(i) \/ Swap!Sign(i)
  <2>1. \E phase \in {"session", "sign", "submit", "failed"} : 
            tries' = [tries EXCEPT ![i] = [old EXCEPT !.phase = phase]]
    BY <1>1, <1>4 DEF Swap!Focused, Swap!EnsureSession, Swap!Sign, Swap!To, Swap!Move, Swap!Failed
  <2> QED BY <1>2, <2>1
<1>5. CASE Swap!Submit(i)
  <2> DEFINE via == IF old.quote.source = "propamm" THEN old.quote.of.network ELSE network
  <2>1. via \in Networks
    BY <1>1 DEF TryType, QuoteType, Subject, SwapInv, HookFits
  <2> DEFINE refused == [old EXCEPT !.via = via, !.phase = "failed"]
  <2>2. refused \in TryType /\ ClickFits(refused)
    BY <1>1, <2>1 DEF TryType, ClickFits
  <2>3. \A tx \in {None, "pending"} : [refused EXCEPT !.tx = tx] \in TryType
                                      /\ ClickFits([refused EXCEPT !.tx = tx])
    BY <2>2 DEF TryType, ClickFits
  <2> DEFINE taken == [old EXCEPT !.via = via, !.tx = "pending", !.phase = "confirm"]
  <2>4. taken \in TryType /\ ClickFits(taken)
    BY <1>3, <2>1
  <2>5. \/ tries' = [tries EXCEPT ![i] = refused]
        \/ tries' = [tries EXCEPT ![i] = taken]
        \/ \E tx \in {None, "pending"} : tries' = [tries EXCEPT ![i] = [refused EXCEPT !.tx = tx]]
    BY <1>1, <1>5 DEF Swap!Submit, Swap!Move
  <2> HIDE DEF refused, taken
  <2> QED BY <2>2, <2>3, <2>4, <2>5
<1>6. CASE Swap!Confirm(i)
  <2>1. CASE Swap!Processed(old) /\ tries' = [tries EXCEPT ![i] = [old EXCEPT !.phase = "success"]]
    <3>1. [old EXCEPT !.phase = "success"] \in TryType /\ ClickFits([old EXCEPT !.phase = "success"])
      BY <1>1, <2>1 DEF TryType, ClickFits, Swap!Processed
    <3> QED BY <2>1, <3>1
  <2>2. CASE tries' = [tries EXCEPT ![i] = [old EXCEPT !.phase = "failed"]]
    BY <1>2, <2>2
  <2> QED BY <1>1, <1>6, <2>1, <2>2 DEF Swap!Confirm, Swap!To, Swap!Move, Swap!Failed
<1>7. CASE Swap!Chain(i)
  <2>1. PICK tx \in {"landed", "refused"} : tries' = [tries EXCEPT ![i] = [old EXCEPT !.tx = tx]]
    BY <1>1, <1>7 DEF Swap!Chain, Swap!Move
  <2>2. old.tx = "pending"
    BY <1>1, <1>7 DEF Swap!Chain
  <2>3. [old EXCEPT !.tx = tx] \in TryType /\ ClickFits([old EXCEPT !.tx = tx])
    BY <1>1, <2>2 DEF TryType, ClickFits
  <2> QED BY <2>1, <2>3
<1> QED BY <1>4, <1>5, <1>6, <1>7

\* A click on its way (focus, session, signature, submission, polling) keeps to what
\* was shown.
LEMMA SwapMoves ==
  ASSUME SwapInv, Swap!Proceed
  PROVE  SwapInv'
<1>1. PICK i \in Attempts :
         /\ tries[i] # None
         /\ \/ Swap!Focused(i) \/ Swap!EnsureSession(i) \/ Swap!Sign(i) \/ Swap!Submit(i)
            \/ Swap!Confirm(i) \/ Swap!Chain(i)
  BY DEF Swap!Proceed
<1>2. PICK t \in TryType : ClickFits(t) /\ tries' = [tries EXCEPT ![i] = t]
  BY <1>1, TryMoves
<1>3. UNCHANGED <<trader, network>>
  BY DEF Swap!Proceed
<1>4. HookFits'
  <2>1. CASE UNCHANGED <<draft, request, asking, quote, loading>>
    BY <1>3, <2>1, HookStays DEF SwapInv
  <2>2. CASE draft' = None /\ Swap!Requote(trader, network, None)
    BY <1>3, <2>2, RequoteFits DEF SwapInv, HookFits
  <2> QED BY <1>1, <2>1, <2>2 DEF Swap!Focused, Swap!EnsureSession, Swap!Sign, Swap!Submit, Swap!Confirm,
                                  Swap!Chain
<1> QED BY <1>2, <1>4 DEF SwapInv

\* However quotes, sessions and answers come, what is on the page, in its hook
\* and in its swaps belongs together (pages/Swap/Swap.tsx, useSwapQuote.ts).
THEOREM SwapInductive ==
  ASSUME SwapInv, [Swap!Next]_swapVars
  PROVE  SwapInv'
<1>0. HookFits
  BY DEF SwapInv
<1>1. CASE Swap!Debounced \/ Swap!Answer
  BY <1>0, <1>1, AnswerFits DEF SwapInv
<1>2. CASE Swap!Refresh \/ Swap!Edit \/ Swap!Switch
  <2>1. UNCHANGED tries
    BY <1>2 DEF Swap!Refresh, Swap!Edit, Swap!Switch
  <2>2. HookFits'
    <3>1. CASE Swap!Refresh
      <4>1. draft \in Trades \union {None} /\ trader \in Accounts /\ network \in Networks
        BY <1>0 DEF HookFits
      <4>2. Swap!Requote(trader, network, draft) /\ UNCHANGED <<trader, network, draft>>
        BY <3>1 DEF Swap!Refresh
      <4> QED BY <1>0, <4>1, <4>2, RequoteFits
    <3>2. CASE Swap!Edit
      <4>1. PICK d \in Trades \union {None} :
               draft' = d /\ Swap!Requote(trader, network, d) /\ UNCHANGED <<trader, network>>
        BY <3>2 DEF Swap!Edit
      <4>2. trader \in Accounts /\ network \in Networks
        BY <1>0 DEF HookFits
      <4> QED BY <1>0, <4>1, <4>2, RequoteFits
    <3>3. CASE Swap!Switch
      <4>1. PICK a \in Accounts, n \in Networks :
               trader' = a /\ network' = n /\ Swap!Requote(a, n, draft) /\ UNCHANGED draft
        BY <3>3 DEF Swap!Switch
      <4>2. draft \in Trades \union {None}
        BY <1>0 DEF HookFits
      <4> QED BY <1>0, <4>1, <4>2, RequoteFits
    <3> QED BY <1>2, <3>1, <3>2, <3>3
  <2> QED BY <2>1, <2>2 DEF SwapInv
<1>3. CASE Swap!HandOver \/ Swap!Leave
  <2>1. tries' = Swap!Cut /\ UNCHANGED <<trader, network>>
    BY <1>3 DEF Swap!HandOver, Swap!Leave
  <2>2. \E d \in Trades \union {None} : Swap!Opened(d)
    <3>1. \A i \in Attempts : tries[i] # None => tries[i].shown.draft \in Trades \union {None}
      BY DEF SwapInv, TryType, Subject
    <3> QED BY <1>0, <1>3, <3>1 DEF Swap!HandOver, Swap!Leave, HookFits
  <2>3. HookFits'
    BY <1>0, <2>1, <2>2, OpenedFits
  <2> QED BY <2>1, <2>3, CutFits DEF SwapInv
<1>4. CASE Swap!LoadBalance \/ UNCHANGED swapVars
  <2>1. UNCHANGED <<trader, network, draft, request, asking, quote, loading, tries>>
    BY <1>4 DEF Swap!LoadBalance, swapVars
  <2> QED BY <1>0, <2>1, HookStays DEF SwapInv
<1> QED BY <1>1, <1>2, <1>3, <1>4, ClicksFit, SwapMoves DEF Swap!Next

\* A swap that is signed is of the account, the network and the form that were
\* shown at its click, and one that is shown as done is on the chain.
THEOREM SwapsFollowTheClick == MCSpec => []SwapsAsShown
<1>1. MCInit => SwapInv
  BY DEF MCInit, Swap!Init, SwapInv, HookFits
<1>2. SwapInv /\ [MCNext]_<<vars, readyVars, swapVars, poolVars, part>> => SwapInv'
  BY SwapInductive DEF MCNext
<1>3. SwapInv => SwapsAsShown
  BY DEF SwapInv, ClickFits, SwapsAsShown, Swap!SwapsAsShown
<1> QED BY <1>1, <1>2, <1>3, PTL DEF MCSpec

-----------------------------------------------------------------------------
(* Readying an account for swaps *)

ReadyTypes ==
    /\ account \in Accounts
    /\ probing \subseteq [token: Nat, of: Accounts] /\ probe \in Nat
    /\ exists \in [Accounts -> {"missing", "underfunded", "eligible"}]
    /\ atas \in [Accounts -> SUBSET Mints]
    /\ pending \subseteq [of: Accounts, kind: {"account", "tokens"}, makes: SUBSET Mints]
    /\ flow \in {None} \union
          [of: Accounts, kind: {"account", "tokens"},
           at: {"session", "check", "sign", "confirm", "recheck", "verify", "done", "probing"},
           missing: SUBSET Mints, result: {None, "processed", "failed"}]

\* The token accounts are asked for after the account was seen, and a flow is
\* through when all of them were.
FlowReadies ==
    flow # None =>
       /\ flow.kind = "tokens" => exists[flow.of] = "eligible"
       /\ flow.at \in {"done", "probing"} => Ready!Readied(flow.of)

StatusReadies == shown = "ready" => read \in Accounts /\ Ready!Readied(read)

ReadyInv == ReadyTypes /\ FlowReadies /\ StatusReadies

\* Nothing is removed from the chain.
ChainGrows ==
    /\ exists' \in [Accounts -> {"missing", "underfunded", "eligible"}]
    /\ atas' \in [Accounts -> SUBSET Mints]
    /\ \A a \in Accounts : /\ exists[a] = "eligible" => exists'[a] = "eligible"
                           /\ atas[a] \subseteq atas'[a]

\* What is ready stays so.
LEMMA ReadiedStays ==
  ASSUME ReadyTypes, ChainGrows, NEW a \in Accounts, Ready!Readied(a)
  PROVE  Ready!Readied(a)'
<1>1. exists'[a] = "eligible" /\ Mints \subseteq atas'[a] /\ atas'[a] \subseteq Mints
  BY DEF ChainGrows, Ready!Readied
<1> QED BY <1>1 DEF Ready!Readied

\* A chain to which nothing is done has lost nothing.
LEMMA ChainStays ==
  ASSUME ReadyTypes, UNCHANGED <<exists, atas>>
  PROVE  ChainGrows
BY DEF ReadyTypes, ChainGrows

\* A flow that does not go on, or goes on short of its end.
LEMMA FlowStays ==
  ASSUME ReadyTypes, FlowReadies, ChainGrows,
         flow' # None => /\ flow # None /\ flow'.of = flow.of /\ flow'.kind = flow.kind
                         /\ flow'.at \in {"done", "probing"} => flow.at \in {"done", "probing"}
  PROVE  FlowReadies'
<1>1. ASSUME flow' # None
      PROVE  /\ flow'.kind = "tokens" => exists'[flow'.of] = "eligible"
             /\ flow'.at \in {"done", "probing"} => Ready!Readied(flow.of)'
  <2>1. flow.of \in Accounts
    BY <1>1 DEF ReadyTypes
  <2>2. PICK a \in Accounts : a = flow.of
    BY <2>1
  <2>3. Ready!Readied(a) => exists'[a] = "eligible" /\ atas'[a] = Mints
    BY ReadiedStays DEF Ready!Readied
  <2> QED BY <1>1, <2>2, <2>3 DEF FlowReadies, ChainGrows, Ready!Readied
<1> QED BY <1>1 DEF FlowReadies, Ready!Readied

\* A status of ready that was not read again is of the account it was read of.
LEMMA StatusStays ==
  ASSUME ReadyTypes, StatusReadies, ChainGrows, shown' = "ready" => UNCHANGED <<shown, read>>
  PROVE  StatusReadies'
<1>1. ASSUME shown' = "ready" PROVE read' \in Accounts /\ exists'[read'] = "eligible" /\ atas'[read'] = Mints
  <2>1. read' = read /\ read \in Accounts /\ Ready!Readied(read)
    BY <1>1 DEF StatusReadies
  <2>2. PICK a \in Accounts : a = read
    BY <2>1
  <2>3. exists'[a] = "eligible" /\ atas'[a] = Mints
    BY <2>1, <2>2, ReadiedStays DEF Ready!Readied
  <2> QED BY <2>1, <2>2, <2>3
<1> QED BY <1>1 DEF StatusReadies, Ready!Readied

\* The hook and its probes, with the chain as it is.
LEMMA ProbesKeep ==
  ASSUME ReadyInv, Ready!Probed \/ Ready!Switch
  PROVE  ReadyInv'
<1>1. UNCHANGED <<flow, exists, atas, pending>>
  BY DEF Ready!Probed, Ready!Switch, Ready!chain
<1>2. ReadyTypes'
  <2>1. CASE Ready!Probed
    BY <1>1, <2>1 DEF Ready!Probed, ReadyInv, ReadyTypes
  <2>2. CASE Ready!Switch
    BY <1>1, <2>2 DEF Ready!Switch, Ready!runProbe, ReadyInv, ReadyTypes
  <2> QED BY <2>1, <2>2
<1>3. FlowReadies'
  BY <1>1, ChainStays, FlowStays DEF ReadyInv
<1>4. StatusReadies'
  <2>1. CASE shown' = "ready" => UNCHANGED <<shown, read>>
    BY <1>1, <2>1, ChainStays, StatusStays DEF ReadyInv
  <2>2. CASE Ready!Switch
    BY <2>2 DEF Ready!Switch, Ready!runProbe, StatusReadies
  <2>3. CASE Ready!Probed /\ shown' = "ready" /\ ~UNCHANGED <<shown, read>>
    <3>1. PICK p \in probing : /\ read' = p.of
                               /\ \E ready \in Ready!isReady(p.of) :
                                     shown' = IF ready THEN "ready" ELSE "needs-onboarding"
      BY <2>3 DEF Ready!Probed
    <3>2. PICK e \in Ready!readFeePayerEligibility(p.of), m \in Ready!missingAtas(p.of) :
             e /\ m = {}
      <4>1. PICK ready \in Ready!isReady(p.of) : shown' = IF ready THEN "ready" ELSE "needs-onboarding"
        BY <3>1
      <4>2. \E e \in Ready!readFeePayerEligibility(p.of), m \in Ready!missingAtas(p.of) :
               ready = (e /\ m = {})
        BY <4>1, SMTT(20) DEF Ready!isReady
      <4>3. ready
        BY <2>3, <4>1
      <4> QED BY <4>2, <4>3, Zenon
    <3>3. e /\ m = {}
      BY <3>2
    <3>4. PICK a \in Accounts : a = p.of
      BY DEF ReadyInv, ReadyTypes
    <3>5. Ready!Readied(a)
      <4>1. exists[a] = "eligible"
        BY <3>3, <3>4 DEF Ready!readFeePayerEligibility
      <4>2. Mints \subseteq atas[a]
        BY <3>3, <3>4 DEF Ready!missingAtas
      <4> QED BY <4>1, <4>2 DEF Ready!Readied, ReadyInv, ReadyTypes
    <3> QED BY <1>1, <3>1, <3>4, <3>5 DEF StatusReadies, Ready!Readied
  <2> QED BY <2>1, <2>2, <2>3
<1> QED BY <1>2, <1>3, <1>4 DEF ReadyInv

\* initialize(): what is there is there, when a read says so.
LEMMA FlowMoves ==
  ASSUME ReadyInv, Ready!Initialize \/ Ready!Step
  PROVE  ReadyInv'
<1>0. ReadyTypes /\ UNCHANGED <<account, exists, atas>>
  BY DEF ReadyInv, Ready!Initialize, Ready!Step, Ready!OpenSession, Ready!Check, Ready!Submit, Ready!Confirm,
         Ready!Recheck, Ready!Finish, Ready!End, Ready!chain
<1>1. shown' = "ready" => UNCHANGED <<shown, read>>
  BY DEF Ready!Initialize, Ready!Step, Ready!OpenSession, Ready!Check, Ready!Submit, Ready!Confirm,
         Ready!Recheck, Ready!Finish, Ready!End, Ready!Throw, Ready!runProbe, Ready!hook
<1>2. StatusReadies'
  BY <1>0, <1>1, ChainStays, StatusStays DEF ReadyInv
<1>3. probing' \subseteq [token: Nat, of: Accounts] /\ probe' \in Nat
  <2>1. flow # None => flow.of \in Accounts
    BY <1>0 DEF ReadyTypes
  <2>2. \/ UNCHANGED <<probing, probe>>
        \/ flow # None /\ Ready!runProbe(flow.of)
    BY DEF Ready!Initialize, Ready!Step, Ready!OpenSession, Ready!Check, Ready!Submit, Ready!Confirm,
           Ready!Recheck, Ready!Finish, Ready!End, Ready!Throw, Ready!hook
  <2> QED BY <1>0, <2>1, <2>2 DEF Ready!runProbe, ReadyTypes
<1>4. CASE Ready!Initialize
  <2>1. flow' \in {None, Ready!Begun} /\ UNCHANGED pending
    BY <1>4 DEF Ready!Initialize, Ready!Throw, Ready!chain
  <2>2. ReadyTypes'
    BY <1>0, <1>3, <2>1 DEF ReadyTypes, Ready!Begun
  <2>3. FlowReadies'
    BY <2>1 DEF FlowReadies, Ready!Begun
  <2> QED BY <1>2, <2>2, <2>3 DEF ReadyInv
<1>5. CASE Ready!Step
  <2>0. flow # None /\ flow.of \in Accounts
    BY <1>0, <1>5 DEF Ready!Step, ReadyTypes
  <2>1. pending' \subseteq [of: Accounts, kind: {"account", "tokens"}, makes: SUBSET Mints]
    <3>1. CASE UNCHANGED pending
      BY <1>0, <3>1 DEF ReadyTypes
    <3>2. CASE Ready!Submit
      <4> DEFINE tx == [of |-> flow.of, kind |-> flow.kind, makes |-> flow.missing]
      <4>1. pending' \subseteq pending \union {tx}
        BY <3>2 DEF Ready!Submit
      <4>2. tx \in [of: Accounts, kind: {"account", "tokens"}, makes: SUBSET Mints]
        BY <1>0, <2>0 DEF ReadyTypes
      <4> HIDE DEF tx
      <4> QED BY <1>0, <4>1, <4>2 DEF ReadyTypes
    <3> QED BY <1>5, <3>1, <3>2 DEF Ready!Step, Ready!OpenSession, Ready!Check, Ready!Confirm,
                                    Ready!Recheck, Ready!Finish, Ready!End, Ready!chain
  <2> DEFINE F == [of: Accounts, kind: {"account", "tokens"},
                   at: {"session", "check", "sign", "confirm", "recheck", "verify", "done", "probing"},
                   missing: SUBSET Mints, result: {None, "processed", "failed"}]
  <2>2. PICK f \in F : f = flow
    BY <1>0, <2>0 DEF ReadyTypes
  <2>3. CASE flow' = None
    BY <1>0, <1>2, <1>3, <2>1, <2>3 DEF ReadyInv, ReadyTypes, FlowReadies
  <2>4. CASE flow' \in F /\ flow'.of = f.of /\ flow'.kind = f.kind
             /\ (flow'.at \in {"done", "probing"} => f.at \in {"done", "probing"})
    <3>1. FlowReadies'
      BY <1>0, <2>0, <2>2, <2>4, ChainStays, FlowStays DEF ReadyInv
    <3> QED BY <1>0, <1>2, <1>3, <2>1, <2>4, <3>1 DEF ReadyInv, ReadyTypes
  <2>5. CASE Ready!OpenSession \/ Ready!Check \/ Ready!Submit \/ Ready!Confirm \/ Ready!Finish \/ Ready!End
    <3>1. \A step \in {"session", "check", "sign", "confirm", "recheck", "verify"} :
             [f EXCEPT !.at = step] \in F /\ [f EXCEPT !.at = step].of = f.of
             /\ [f EXCEPT !.at = step].kind = f.kind /\ [f EXCEPT !.at = step].at = step
      OBVIOUS
    <3>2. [f EXCEPT !.at = "probing"] \in F /\ [f EXCEPT !.at = "probing"].of = f.of
             /\ [f EXCEPT !.at = "probing"].kind = f.kind
      OBVIOUS
    <3>3. CASE Ready!Finish
      <4>1. flow' = [f EXCEPT !.at = "probing"] /\ f.at = "done"
        BY <2>2, <3>3 DEF Ready!Finish, Ready!At
      <4> HIDE DEF F
      <4> QED BY <2>4, <3>2, <4>1
    <3>4. CASE Ready!Check
      <4>1. PICK missing \in Ready!missingAtas(f.of), step \in {"verify", "sign"} :
               flow' = [f EXCEPT !.at = step, !.missing = IF f.kind = "account" THEN {} ELSE missing]
        BY <2>2, <3>4 DEF Ready!Check
      <4>2. missing \in SUBSET Mints
        BY DEF Ready!missingAtas
      <4>3. flow' \in F /\ flow'.of = f.of /\ flow'.kind = f.kind /\ flow'.at = step
        BY <4>1, <4>2
      <4> HIDE DEF F
      <4> QED BY <2>4, <4>3
    <3>5. CASE Ready!OpenSession \/ Ready!Submit \/ Ready!Confirm \/ Ready!End
      <4>1. \/ flow' = None
            \/ \E step \in {"session", "check", "sign", "confirm", "recheck", "verify"} :
                  flow' = [f EXCEPT !.at = step]
        BY <2>2, <3>5 DEF Ready!OpenSession, Ready!Submit, Ready!Confirm, Ready!End, Ready!At, Ready!Throw
      <4> HIDE DEF F
      <4> QED BY <2>3, <2>4, <3>1, <4>1
    <3> QED BY <2>5, <3>3, <3>4, <3>5
  <2>6. CASE Ready!Recheck
    <3>1. PICK there \in Ready!There :
             IF ~there THEN flow' = None
             ELSE flow' = IF f.kind = "tokens" THEN [f EXCEPT !.at = "done"]
                          ELSE [f EXCEPT !.at = "check", !.kind = "tokens", !.result = None]
      BY <2>2, <2>6 DEF Ready!Recheck, Ready!Throw
    <3>2. CASE ~there
      BY <2>3, <3>1, <3>2
    <3>3. CASE there /\ f.kind = "tokens"
      <4>1. flow' \in F /\ flow'.of = f.of /\ flow'.kind = "tokens" /\ flow'.at = "done"
        BY <3>1, <3>3
      <4>2. Mints \subseteq atas[f.of]
        <5>1. PICK m \in Ready!missingAtas(f.of) : there = (m = {})
          BY <2>2, <3>3, Zenon DEF Ready!There
        <5>2. m = {}
          BY <3>3, <5>1
        <5> QED BY <5>2 DEF Ready!missingAtas
      <4>3. exists[f.of] = "eligible" /\ atas[f.of] = Mints
        BY <1>0, <2>0, <2>2, <3>3, <4>2 DEF ReadyInv, FlowReadies, ReadyTypes
      <4>4. FlowReadies'
        BY <1>0, <4>1, <4>3 DEF FlowReadies, Ready!Readied
      <4> QED BY <1>0, <1>2, <1>3, <2>1, <4>1, <4>4 DEF ReadyInv, ReadyTypes
    <3>4. CASE there /\ f.kind # "tokens"
      <4>1. flow' \in F /\ flow'.of = f.of /\ flow'.kind = "tokens" /\ flow'.at = "check"
        BY <3>1, <3>4
      <4>2. exists[f.of] = "eligible"
        BY <2>2, <3>4 DEF Ready!There, Ready!readFeePayerEligibility
      <4>3. FlowReadies'
        BY <1>0, <4>1, <4>2 DEF FlowReadies
      <4> QED BY <1>0, <1>2, <1>3, <2>1, <4>1, <4>3 DEF ReadyInv, ReadyTypes
    <3> QED BY <3>2, <3>3, <3>4
  <2> QED BY <1>5, <2>5, <2>6 DEF Ready!Step
<1> QED BY <1>4, <1>5

\* A transaction that lands, or funds that arrive, only add to the chain.
LEMMA LandKeeps ==
  ASSUME ReadyInv, Ready!Land \/ Ready!Airdrop
  PROVE  ReadyInv'
<1>0. ReadyTypes /\ UNCHANGED <<account, probe, probing, shown, read>>
  BY DEF ReadyInv, Ready!Land, Ready!Airdrop, Ready!hook
<1>1. ChainGrows /\ pending' \subseteq pending
  <2>1. CASE Ready!Airdrop
    BY <1>0, <2>1 DEF Ready!Airdrop, ReadyTypes, ChainGrows
  <2>2. CASE Ready!Land
    <3>1. PICK t \in pending :
             /\ pending' = pending \ {t}
             /\ \/ /\ \E e \in {"underfunded", "eligible"} :
                        exists' = [exists EXCEPT ![t.of] = IF @ = "eligible" THEN @ ELSE e]
                   /\ UNCHANGED atas
                \/ atas' = [atas EXCEPT ![t.of] = @ \union t.makes] /\ UNCHANGED exists
                \/ UNCHANGED <<exists, atas>>
      BY <2>2 DEF Ready!Land
    <3>2. t.of \in Accounts /\ t.makes \subseteq Mints
      BY <1>0 DEF ReadyTypes
    <3> QED BY <1>0, <3>1, <3>2 DEF ReadyTypes, ChainGrows
  <2> QED BY <2>1, <2>2
<1>2. StatusReadies'
  BY <1>0, <1>1, StatusStays DEF ReadyInv
<1>3. UNCHANGED flow \/ (flow # None /\ \E told \in {"processed", "failed"} : flow' = [flow EXCEPT !.result = told])
  BY DEF Ready!Land, Ready!Airdrop, Ready!Told
<1>4. ReadyTypes' /\ FlowReadies'
  <2>1. CASE UNCHANGED flow
    <3>1. FlowReadies'
      BY <1>0, <1>1, <2>1, FlowStays DEF ReadyInv
    <3> QED BY <1>0, <1>1, <2>1, <3>1 DEF ReadyTypes, ChainGrows
  <2>2. ASSUME flow # None, NEW told \in {"processed", "failed"}, flow' = [flow EXCEPT !.result = told]
        PROVE  ReadyTypes' /\ FlowReadies'
    <3> DEFINE F == [of: Accounts, kind: {"account", "tokens"},
                     at: {"session", "check", "sign", "confirm", "recheck", "verify", "done", "probing"},
                     missing: SUBSET Mints, result: {None, "processed", "failed"}]
    <3>1. flow' \in F /\ flow'.of = flow.of /\ flow'.kind = flow.kind /\ flow'.at = flow.at
      BY <1>0, <2>2 DEF ReadyTypes
    <3>2. FlowReadies'
      BY <1>0, <1>1, <2>2, <3>1, FlowStays DEF ReadyInv
    <3> QED BY <1>0, <1>1, <3>1, <3>2 DEF ReadyTypes, ChainGrows
  <2> QED BY <1>3, <2>1, <2>2
<1> QED BY <1>2, <1>4 DEF ReadyInv

\* However probes, submissions, confirmations and reads of what may not be
\* there yet interleave, the hook and the flow are ahead of the chain nowhere.
THEOREM ReadyInductive ==
  ASSUME ReadyInv, [Ready!Next]_readyVars
  PROVE  ReadyInv'
<1>1. CASE UNCHANGED readyVars
  <2>1. UNCHANGED <<account, probe, probing, shown, read, flow, exists, atas, pending>>
    BY <1>1 DEF readyVars
  <2>2. ReadyTypes'
    BY <2>1 DEF ReadyInv, ReadyTypes
  <2> QED BY <2>1, <2>2, ChainStays, FlowStays, StatusStays DEF ReadyInv
<1> QED BY <1>1, ProbesKeep, FlowMoves, LandKeeps DEF Ready!Next

\* An initialization that does not throw, and a status of ready, are of an
\* account that is at the chain with all its token accounts.
THEOREM OnboardedAreThere == MCSpec => []OnboardedIsThere
<1>1. MCInit => ReadyInv
  BY DEF MCInit, Ready!Init, ReadyInv, ReadyTypes, FlowReadies, StatusReadies
<1>2. ReadyInv /\ [MCNext]_<<vars, readyVars, swapVars, poolVars, part>> => ReadyInv'
  BY ReadyInductive DEF MCNext
<1>3. ReadyInv => OnboardedIsThere
  BY DEF ReadyInv, FlowReadies, StatusReadies, OnboardedIsThere, Ready!OnboardedIsThere
<1> QED BY <1>1, <1>2, <1>3, PTL DEF MCSpec

-----------------------------------------------------------------------------
(* Sums, as the model takes them over the positions of a pool *)

Sum(f, S) == Engine!SumFunctionOnSet(f, S)

\* Of finite sets there is a smallest.
LEMMA SmallestSet ==
  ASSUME NEW C, C # {}, \A s \in C : IsFiniteSet(s)
  PROVE  \E s \in C : \A t \in C : Cardinality(s) <= Cardinality(t)
<1> DEFINE N == {Cardinality(s) : s \in C}
<1>1. \A s \in C : Cardinality(s) \in Nat
  BY FS_CardinalityType
<1>2. N \subseteq Nat /\ N # {}
  BY <1>1
<1>3. PICK k \in N : \A j \in N : ~(<<j, k>> \in OpToRel(<, Nat))
  BY <1>2, NatLessThanWellFounded, WFMin
<1>4. PICK s \in C : k = Cardinality(s)
  OBVIOUS
<1>5. ASSUME NEW t \in C PROVE Cardinality(s) <= Cardinality(t)
  <2>1. Cardinality(t) \in N /\ Cardinality(t) \in Nat /\ k \in Nat
    BY <1>1, <1>4
  <2>2. ~(Cardinality(t) < k)
    BY <1>3, <2>1 DEF OpToRel
  <2> QED BY <1>4, <2>1, <2>2
<1> QED BY <1>5

\* A set less one of its elements.
LEMMA OneLess ==
  ASSUME NEW s, IsFiniteSet(s), NEW e \in s
  PROVE  /\ IsFiniteSet(s \ {e})
         /\ Cardinality(s \ {e}) = Cardinality(s) - 1
         /\ Cardinality(s) \in Nat /\ Cardinality(s \ {e}) \in Nat
         /\ ~(Cardinality(s) <= Cardinality(s \ {e}))
<1>1. IsFiniteSet(s \ {e}) /\ Cardinality(s \ {e}) = Cardinality(s) - 1
  BY FS_RemoveElement
<1>2. Cardinality(s) \in Nat /\ Cardinality(s \ {e}) \in Nat
  BY <1>1, FS_CardinalityType
<1> QED BY <1>1, <1>2

Some(s) == CHOOSE e \in s : TRUE

\* The element that a fold takes next is one of the set.
LEMMA SomeIsIn ==
  ASSUME NEW s, s # {}
  PROVE  Some(s) \in s
BY DEF Some

\* What a sum folds, as a function of the subsets of a set.
SumTurn(f, S, g) ==
  [s \in SUBSET S |-> IF s = {} THEN 0 ELSE f[Some(s)] + g[s \ {Some(s)}]]

\* A solution for the subsets of up to k - 1 elements extends to those of k.
LEMMA SumExists ==
  ASSUME NEW f, NEW S, IsFiniteSet(S)
  PROVE  \E g : g = SumTurn(f, S, g)
<1> DEFINE Solves(g, k) ==
             /\ g = [s \in SUBSET S |-> g[s]]
             /\ \A s \in SUBSET S : Cardinality(s) <= k => g[s] = SumTurn(f, S, g)[s]
           Bad == {k \in Nat : ~ \E g : Solves(g, k)}
<1>0. \A s \in SUBSET S : IsFiniteSet(s) /\ Cardinality(s) \in Nat
  BY FS_Subset, FS_CardinalityType
<1>1. Bad = {}
  <2> SUFFICES ASSUME Bad # {} PROVE FALSE
    OBVIOUS
  <2>1. PICK k \in Bad : \A j \in Bad : ~(<<j, k>> \in OpToRel(<, Nat))
    <3>1. Bad \subseteq Nat
      OBVIOUS
    <3> HIDE DEF Bad
    <3> QED BY <3>1, NatLessThanWellFounded, WFMin
  <2>2. k \in Nat /\ ~ \E g : Solves(g, k)
    OBVIOUS
  <2>3. k # 0
    <3> SUFFICES ASSUME k = 0 PROVE FALSE
      OBVIOUS
    <3> DEFINE g == [s \in SUBSET S |-> 0]
    <3>1. g = [s \in SUBSET S |-> g[s]]
      OBVIOUS
    <3>2. ASSUME NEW s \in SUBSET S, Cardinality(s) <= 0
          PROVE  g[s] = SumTurn(f, S, g)[s]
      <4>1. s = {}
        BY <1>0, <3>2, FS_EmptySet
      <4> QED BY <4>1 DEF SumTurn
    <3> HIDE DEF g
    <3>3. Solves(g, 0)
      BY <3>1, <3>2
    <3> QED BY <2>2, <3>3
  <2>4. k - 1 \in Nat /\ k - 1 \notin Bad
    <3>1. k - 1 \in Nat /\ k - 1 < k
      BY <2>2, <2>3
    <3> HIDE DEF Bad
    <3> QED BY <2>1, <2>2, <3>1 DEF OpToRel
  <2>5. PICK g : Solves(g, k - 1)
    BY <2>4
  <2> HIDE DEF Bad
  <2> DEFINE h == [s \in SUBSET S |->
                     IF Cardinality(s) <= k - 1 \/ s = {} THEN g[s]
                     ELSE f[Some(s)] + g[s \ {Some(s)}]]
  <2>6. h = [s \in SUBSET S |-> h[s]]
    OBVIOUS
  <2>7. ASSUME NEW s \in SUBSET S, Cardinality(s) <= k
        PROVE  h[s] = SumTurn(f, S, h)[s]
    <3>1. CASE s = {}
      <4>1. h[s] = g[s] /\ Cardinality(s) <= k - 1
        BY <2>4, <3>1, FS_EmptySet
      <4>2. g[s] = 0
        BY <2>5, <3>1, <4>1 DEF SumTurn
      <4>3. SumTurn(f, S, h)[s] = 0
        BY <3>1 DEF SumTurn
      <4> QED BY <4>1, <4>2, <4>3
    <3>2. CASE s # {}
      <4> DEFINE e == Some(s)
                 u == s \ {e}
      <4>1. /\ e \in s /\ u \in SUBSET S
            /\ Cardinality(u) = Cardinality(s) - 1
            /\ Cardinality(s) \in Nat /\ Cardinality(u) \in Nat
        BY <1>0, <3>2, SomeIsIn, OneLess
      <4>2. Cardinality(u) <= k - 1
        BY <2>2, <2>7, <4>1
      <4>3. h[u] = g[u]
        BY <4>1, <4>2
      <4>4. SumTurn(f, S, h)[s] = f[e] + h[u]
        BY <3>2 DEF SumTurn
      <4>5. CASE Cardinality(s) <= k - 1
        <5>1. h[s] = g[s] /\ g[s] = SumTurn(f, S, g)[s]
          BY <2>5, <4>5
        <5>2. SumTurn(f, S, g)[s] = f[e] + g[u]
          BY <3>2 DEF SumTurn
        <5> QED BY <4>3, <4>4, <5>1, <5>2
      <4>6. CASE ~(Cardinality(s) <= k - 1)
        <5>1. h[s] = f[e] + g[u]
          BY <3>2, <4>6
        <5> QED BY <4>3, <4>4, <5>1
      <4> QED BY <4>5, <4>6
    <3> QED BY <3>1, <3>2
  <2> HIDE DEF h
  <2>8. Solves(h, k)
    BY <2>6, <2>7
  <2> QED BY <2>2, <2>8
<1>2. Cardinality(S) \in Nat
  BY FS_CardinalityType
<1>3. PICK g : Solves(g, Cardinality(S))
  BY <1>1, <1>2
<1>4. \A s \in SUBSET S : g[s] = SumTurn(f, S, g)[s]
  BY <1>3, FS_Subset
<1>5. SumTurn(f, S, g) = [s \in SUBSET S |-> SumTurn(f, S, g)[s]]
  BY DEF SumTurn
<1>6. g = SumTurn(f, S, g)
  BY <1>3, <1>4, <1>5
<1> QED BY <1>6

\* The sum of a set is the same in a solution for any set around it.
LEMMA SumsAgree ==
  ASSUME NEW f, NEW S, IsFiniteSet(S), NEW T \in SUBSET S,
         NEW g, g = SumTurn(f, S, g), NEW h, h = SumTurn(f, T, h), NEW s \in SUBSET T
  PROVE  g[s] = h[s]
<1> DEFINE C == {u \in SUBSET T : g[u] # h[u]}
<1> SUFFICES ASSUME C # {} PROVE FALSE
  OBVIOUS
<1>1. \A u \in C : IsFiniteSet(u)
  BY FS_Subset
<1> HIDE DEF C
<1>2. PICK u \in C : \A t \in C : Cardinality(u) <= Cardinality(t)
  BY <1>1, SmallestSet
<1>3. u \in SUBSET T /\ u \in SUBSET S /\ g[u] # h[u]
  BY <1>2 DEF C
<1>4. CASE u = {}
  <2>1. SumTurn(f, S, g)[u] = 0 /\ SumTurn(f, T, h)[u] = 0
    BY <1>3, <1>4 DEF SumTurn
  <2> QED BY <1>3, <2>1
<1>5. CASE u # {}
  <2> DEFINE e == Some(u)
             v == u \ {e}
  <2>1. e \in u /\ v \in SUBSET T /\ ~(Cardinality(u) <= Cardinality(v))
    BY <1>1, <1>2, <1>3, <1>5, SomeIsIn, OneLess
  <2>2. g[v] = h[v]
    BY <1>2, <2>1 DEF C
  <2>3. SumTurn(f, S, g)[u] = f[e] + g[v] /\ SumTurn(f, T, h)[u] = f[e] + h[v]
    BY <1>3, <1>5 DEF SumTurn
  <2> QED BY <1>3, <2>2, <2>3
<1> QED BY <1>4, <1>5

\* A sum, one element after the other.
LEMMA SumAsTurns ==
  ASSUME NEW f, NEW S, IsFiniteSet(S)
  PROVE  Sum(f, S) = IF S = {} THEN 0 ELSE f[Some(S)] + Sum(f, S \ {Some(S)})
<1>1. ASSUME NEW T, IsFiniteSet(T)
      PROVE  \E g : g = SumTurn(f, T, g) /\ Sum(f, T) = g[T]
  <2> DEFINE g == CHOOSE q : q = SumTurn(f, T, q)
  <2>1. g = SumTurn(f, T, g)
    BY <1>1, SumExists
  <2>2. Sum(f, T) = g[T]
    BY DEF Sum, Engine!SumFunctionOnSet, Engine!FoldFunctionOnSet, Engine!MapThenFoldSet, SumTurn, Some
  <2> QED BY <2>1, <2>2
<1>2. PICK g : g = SumTurn(f, S, g) /\ Sum(f, S) = g[S]
  BY <1>1
<1>3. CASE S = {}
  <2>1. SumTurn(f, S, g)[S] = 0
    BY <1>3 DEF SumTurn
  <2> QED BY <1>2, <1>3, <2>1
<1>4. CASE S # {}
  <2> DEFINE T == S \ {Some(S)}
  <2>1. T \in SUBSET S /\ IsFiniteSet(T)
    BY FS_Subset
  <2>2. PICK h : h = SumTurn(f, T, h) /\ Sum(f, T) = h[T]
    BY <1>1, <2>1
  <2>3. g[T] = h[T]
    BY <1>2, <2>1, <2>2, SumsAgree
  <2>4. SumTurn(f, S, g)[S] = f[Some(S)] + g[T]
    BY <1>4 DEF SumTurn
  <2> QED BY <1>2, <1>4, <2>2, <2>3, <2>4
<1> QED BY <1>3, <1>4

\* A sum over nothing is 0.
LEMMA SumOfNothing ==
  ASSUME NEW f
  PROVE  Sum(f, {}) = 0
BY SumAsTurns, FS_EmptySet

\* A sum of integers over a finite set is an integer.
LEMMA SumIsInt ==
  ASSUME NEW f, NEW S, IsFiniteSet(S), \A e \in S : f[e] \in Int
  PROVE  Sum(f, S) \in Int
<1> DEFINE C == {u \in SUBSET S : Sum(f, u) \notin Int}
<1> SUFFICES ASSUME C # {} PROVE FALSE
  OBVIOUS
<1>1. \A u \in C : IsFiniteSet(u)
  BY FS_Subset
<1> HIDE DEF C
<1>2. PICK u \in C : \A t \in C : Cardinality(u) <= Cardinality(t)
  BY <1>1, SmallestSet
<1>3. u \in SUBSET S /\ IsFiniteSet(u) /\ Sum(f, u) \notin Int
  BY <1>1, <1>2 DEF C
<1>4. u # {}
  BY <1>3, SumOfNothing
<1> DEFINE e == Some(u)
           v == u \ {e}
<1>5. e \in u /\ v \in SUBSET S /\ ~(Cardinality(u) <= Cardinality(v))
  BY <1>3, <1>4, SomeIsIn, OneLess
<1>6. Sum(f, v) \in Int
  BY <1>2, <1>5 DEF C
<1>7. Sum(f, u) = f[e] + Sum(f, v) /\ f[e] \in Int
  BY <1>3, <1>4, <1>5, SumAsTurns
<1> HIDE DEF e, v
<1> QED BY <1>3, <1>6, <1>7

\* The order does not matter: any element may come last.
LEMMA SumOfAny ==
  ASSUME NEW f, NEW S, IsFiniteSet(S), \A e \in S : f[e] \in Int, NEW d \in S
  PROVE  Sum(f, S) = f[d] + Sum(f, S \ {d})
<1> DEFINE C == {u \in SUBSET S : \E e \in u : Sum(f, u) # f[e] + Sum(f, u \ {e})}
<1> SUFFICES ASSUME C # {} PROVE FALSE
  OBVIOUS
<1>1. \A u \in C : IsFiniteSet(u)
  BY FS_Subset
<1> HIDE DEF C
<1>2. PICK u \in C : \A t \in C : Cardinality(u) <= Cardinality(t)
  BY <1>1, SmallestSet
<1>3. u \in SUBSET S /\ IsFiniteSet(u)
  BY <1>1, <1>2 DEF C
<1>4. PICK e \in u : Sum(f, u) # f[e] + Sum(f, u \ {e})
  BY <1>2 DEF C
<1> DEFINE c == Some(u)
<1>5. c \in u /\ Sum(f, u) = f[c] + Sum(f, u \ {c})
  BY <1>3, <1>4, SomeIsIn, SumAsTurns
<1> HIDE DEF c
<1>6. e # c
  BY <1>4, <1>5
<1>7. /\ u \ {c} \in SUBSET S /\ u \ {e} \in SUBSET S
      /\ e \in u \ {c} /\ c \in u \ {e}
      /\ (u \ {c}) \ {e} = (u \ {e}) \ {c}
  BY <1>3, <1>4, <1>5, <1>6
<1>8. Sum(f, u \ {c}) = f[e] + Sum(f, (u \ {c}) \ {e})
  <2>1. ~(Cardinality(u) <= Cardinality(u \ {c}))
    BY <1>3, <1>5, OneLess
  <2>2. u \ {c} \notin C
    BY <1>2, <2>1
  <2> QED BY <1>7, <2>2 DEF C
<1>9. Sum(f, u \ {e}) = f[c] + Sum(f, (u \ {e}) \ {c})
  <2>1. ~(Cardinality(u) <= Cardinality(u \ {e}))
    BY <1>3, <1>4, OneLess
  <2>2. u \ {e} \notin C
    BY <1>2, <2>1
  <2> QED BY <1>7, <2>2 DEF C
<1>10. PICK z : z = Sum(f, (u \ {c}) \ {e})
  OBVIOUS
<1>11. z \in Int /\ f[e] \in Int /\ f[c] \in Int
  <2>1. IsFiniteSet((u \ {c}) \ {e}) /\ (u \ {c}) \ {e} \in SUBSET S
    BY <1>3, <1>7, FS_Subset
  <2> QED BY <1>3, <1>4, <1>5, <1>10, <2>1, SumIsInt
<1>12. /\ Sum(f, u) = f[c] + (f[e] + z)
       /\ Sum(f, u \ {e}) = f[c] + z
  BY <1>5, <1>7, <1>8, <1>9, <1>10
<1> QED BY <1>4, <1>11, <1>12

\* A linear inequality of the terms is one of the sums.
LEMMA SumCompares ==
  ASSUME NEW S, IsFiniteSet(S), NEW f, NEW g, NEW h, NEW k,
         NEW a \in Int, NEW b \in Int, NEW c \in Int, NEW d \in Int,
         \A x \in S : /\ f[x] \in Int /\ g[x] \in Int /\ h[x] \in Int /\ k[x] \in Int
                      /\ a * f[x] + b * g[x] + c * h[x] + d * k[x] <= 0
  PROVE  a * Sum(f, S) + b * Sum(g, S) + c * Sum(h, S) + d * Sum(k, S) <= 0
<1> DEFINE Whole(u) == a * Sum(f, u) + b * Sum(g, u) + c * Sum(h, u) + d * Sum(k, u)
           C == {u \in SUBSET S : ~(Whole(u) <= 0)}
<1> SUFFICES ASSUME C # {} PROVE FALSE
  BY DEF C
<1>1. \A u \in C : IsFiniteSet(u)
  BY FS_Subset
<1> HIDE DEF C
<1>2. PICK u \in C : \A t \in C : Cardinality(u) <= Cardinality(t)
  BY <1>1, SmallestSet
<1>3. u \in SUBSET S /\ IsFiniteSet(u) /\ ~(Whole(u) <= 0)
  BY <1>1, <1>2 DEF C
<1>4. u # {}
  <2> SUFFICES ASSUME u = {} PROVE FALSE
    OBVIOUS
  <2>1. Sum(f, u) = 0 /\ Sum(g, u) = 0 /\ Sum(h, u) = 0 /\ Sum(k, u) = 0
    BY SumOfNothing
  <2> QED BY <1>3, <2>1
<1>5. PICK e \in u : TRUE
  BY <1>4
<1> DEFINE v == u \ {e}
<1>6. v \in SUBSET S /\ IsFiniteSet(v) /\ ~(Cardinality(u) <= Cardinality(v))
  BY <1>3, <1>5, OneLess
<1>7. Whole(v) <= 0
  BY <1>2, <1>6 DEF C
<1>8. /\ Sum(f, u) = f[e] + Sum(f, v) /\ Sum(g, u) = g[e] + Sum(g, v)
      /\ Sum(h, u) = h[e] + Sum(h, v) /\ Sum(k, u) = k[e] + Sum(k, v)
  BY <1>3, <1>5, SumOfAny
<1>9. Sum(f, v) \in Int /\ Sum(g, v) \in Int /\ Sum(h, v) \in Int /\ Sum(k, v) \in Int
  BY <1>6, SumIsInt
<1>10. /\ f[e] \in Int /\ g[e] \in Int /\ h[e] \in Int /\ k[e] \in Int
       /\ a * f[e] + b * g[e] + c * h[e] + d * k[e] <= 0
  BY <1>3, <1>5
<1> HIDE DEF v
<1>11. Whole(u) = (a * f[e] + b * g[e] + c * h[e] + d * k[e]) + Whole(v)
  BY <1>8, <1>9, <1>10, SMTT(30)
<1>12. Whole(v) \in Int /\ a * f[e] + b * g[e] + c * h[e] + d * k[e] \in Int
  BY <1>9, <1>10
<1> HIDE DEF Whole
<1> QED BY <1>3, <1>7, <1>10, <1>11, <1>12

\* Terms that are zero outside a part of the set add nothing to its sum.
LEMMA SumOfPart ==
  ASSUME NEW S, IsFiniteSet(S), NEW A \in SUBSET S, NEW f, NEW g,
         \A x \in A : f[x] \in Int /\ g[x] = f[x], \A x \in S \ A : g[x] = 0
  PROVE  Sum(g, S) = Sum(f, A)
<1> DEFINE C == {u \in SUBSET S : Sum(g, u) # Sum(f, u \cap A)}
<1> SUFFICES ASSUME C # {} PROVE FALSE
  <2>1. S \notin C /\ S \cap A = A
    OBVIOUS
  <2> QED BY <2>1 DEF C
<1>1. \A u \in C : IsFiniteSet(u)
  BY FS_Subset
<1> HIDE DEF C
<1>2. PICK u \in C : \A t \in C : Cardinality(u) <= Cardinality(t)
  BY <1>1, SmallestSet
<1>3. u \in SUBSET S /\ IsFiniteSet(u) /\ Sum(g, u) # Sum(f, u \cap A)
  BY <1>1, <1>2 DEF C
<1>4. u # {}
  <2> SUFFICES ASSUME u = {} PROVE FALSE
    OBVIOUS
  <2>1. u \cap A = {}
    OBVIOUS
  <2> QED BY <1>3, <2>1, SumOfNothing
<1>5. PICK e \in u : TRUE
  BY <1>4
<1> DEFINE v == u \ {e}
<1>6. v \in SUBSET S /\ ~(Cardinality(u) <= Cardinality(v))
  BY <1>3, <1>5, OneLess
<1>7. Sum(g, v) = Sum(f, v \cap A)
  BY <1>2, <1>6 DEF C
<1>8. Sum(g, u) = g[e] + Sum(g, v)
  <2>1. \A x \in u : g[x] \in Int
    BY <1>3
  <2> QED BY <1>3, <1>5, <2>1, SumOfAny
<1>9. CASE e \in A
  <2>1. (u \cap A) \ {e} = v \cap A /\ e \in u \cap A
    BY <1>5, <1>9
  <2>2. \A x \in u \cap A : f[x] \in Int
    OBVIOUS
  <2>3. IsFiniteSet(u \cap A)
    BY <1>3, FS_Subset
  <2>4. Sum(f, u \cap A) = f[e] + Sum(f, v \cap A)
    BY <2>1, <2>2, <2>3, SumOfAny
  <2> QED BY <1>3, <1>7, <1>8, <1>9, <2>4
<1>10. CASE e \notin A
  <2>1. u \cap A = v \cap A
    BY <1>10
  <2>2. Sum(g, v) \in Int
    <3>1. IsFiniteSet(v) /\ \A x \in v : g[x] \in Int
      BY <1>3, <1>5, OneLess
    <3> QED BY <3>1, SumIsInt
  <2>3. g[e] = 0
    BY <1>3, <1>5, <1>10
  <2> QED BY <1>3, <1>7, <1>8, <2>1, <2>2, <2>3
<1> QED BY <1>9, <1>10

-----------------------------------------------------------------------------
(* Prices, and what is divided by them *)

Prices == MinPrice .. MaxPrice

\* A finite set of integers has a greatest and a smallest.
LEMMA MaxIsLast ==
  ASSUME NEW S, IsFiniteSet(S), S # {}, S \subseteq Int
  PROVE  Engine!Max(S) \in S /\ \A y \in S : Engine!Max(S) >= y
<1> DEFINE Above(x) == {y \in S : y > x}
           C == {Above(x) : x \in S}
<1>0. \A x \in S : Above(x) \in C /\ Above(x) \subseteq S /\ IsFiniteSet(Above(x))
  BY FS_Subset
<1>1. \A s \in C : \E x \in S : s = Above(x)
  OBVIOUS
<1> HIDE DEF C
<1>2. PICK s \in C : \A t \in C : Cardinality(s) <= Cardinality(t)
  <2>1. C # {} /\ \A s \in C : IsFiniteSet(s)
    BY <1>0, <1>1
  <2> QED BY <2>1, SmallestSet
<1>3. PICK x \in S : s = Above(x)
  BY <1>1
<1>4. ASSUME NEW y \in S PROVE x >= y
  <2> SUFFICES ASSUME y > x PROVE FALSE
    OBVIOUS
  <2>1. y \in s /\ Above(y) \subseteq s \ {y}
    <3>1. x \in Int /\ y \in Int /\ \A z \in S : z \in Int
      OBVIOUS
    <3>2. y \in s
      BY <1>3
    <3>3. ASSUME NEW z \in Above(y) PROVE z \in s \ {y}
      <4>1. z \in S /\ z # y /\ z > x
        BY <3>1, <3>3
      <4> QED BY <1>3, <4>1
    <3> HIDE DEF Above
    <3> QED BY <3>2, <3>3
  <2>2. IsFiniteSet(s) /\ Above(y) \in C
    BY <1>0, <1>3
  <2> HIDE DEF Above
  <2>3. ~(Cardinality(s) <= Cardinality(s \ {y})) /\ IsFiniteSet(s \ {y})
    BY <2>1, <2>2, OneLess
  <2>4. Cardinality(Above(y)) <= Cardinality(s \ {y}) /\ IsFiniteSet(Above(y))
    BY <2>1, <2>3, FS_Subset
  <2>5. Cardinality(s) <= Cardinality(Above(y))
    BY <1>2, <2>2
  <2>6. Cardinality(s) \in Nat /\ Cardinality(s \ {y}) \in Nat /\ Cardinality(Above(y)) \in Nat
    BY <2>2, <2>3, <2>4, FS_CardinalityType
  <2> HIDE DEF Above
  <2> QED BY <2>3, <2>4, <2>5, <2>6
<1> HIDE DEF Above
<1> QED BY <1>4 DEF Engine!Max

\* A finite set of integers has a smallest, as NextTick takes on the way up.
LEMMA MinIsFirst ==
  ASSUME NEW S, IsFiniteSet(S), S # {}, S \subseteq Int
  PROVE  Engine!Min(S) \in S /\ \A y \in S : Engine!Min(S) <= y
<1> DEFINE Below(x) == {y \in S : y < x}
           C == {Below(x) : x \in S}
<1>0. \A x \in S : Below(x) \in C /\ Below(x) \subseteq S /\ IsFiniteSet(Below(x))
  BY FS_Subset
<1>1. \A s \in C : \E x \in S : s = Below(x)
  OBVIOUS
<1> HIDE DEF C
<1>2. PICK s \in C : \A t \in C : Cardinality(s) <= Cardinality(t)
  <2>1. C # {} /\ \A s \in C : IsFiniteSet(s)
    BY <1>0, <1>1
  <2> QED BY <2>1, SmallestSet
<1>3. PICK x \in S : s = Below(x)
  BY <1>1
<1>4. ASSUME NEW y \in S PROVE x <= y
  <2> SUFFICES ASSUME y < x PROVE FALSE
    OBVIOUS
  <2>1. y \in s /\ Below(y) \subseteq s \ {y}
    <3>1. x \in Int /\ y \in Int /\ \A z \in S : z \in Int
      OBVIOUS
    <3>2. y \in s
      BY <1>3
    <3>3. ASSUME NEW z \in Below(y) PROVE z \in s \ {y}
      <4>1. z \in S /\ z # y /\ z < x
        BY <3>1, <3>3
      <4> QED BY <1>3, <4>1
    <3> HIDE DEF Below
    <3> QED BY <3>2, <3>3
  <2>2. IsFiniteSet(s) /\ Below(y) \in C
    BY <1>0, <1>3
  <2> HIDE DEF Below
  <2>3. ~(Cardinality(s) <= Cardinality(s \ {y})) /\ IsFiniteSet(s \ {y})
    BY <2>1, <2>2, OneLess
  <2>4. Cardinality(Below(y)) <= Cardinality(s \ {y}) /\ IsFiniteSet(Below(y))
    BY <2>1, <2>3, FS_Subset
  <2>5. Cardinality(s) <= Cardinality(Below(y))
    BY <1>2, <2>2
  <2>6. Cardinality(s) \in Nat /\ Cardinality(s \ {y}) \in Nat /\ Cardinality(Below(y)) \in Nat
    BY <2>2, <2>3, <2>4, FS_CardinalityType
  <2> QED BY <2>3, <2>4, <2>5, <2>6
<1> HIDE DEF Below
<1> QED BY <1>4 DEF Engine!Min

\* A number that every price divides, and how often each does: a reciprocal in
\* integers, as the amounts of A are measured by reciprocals of prices.
DividedByAll(c, n) == \A m \in 1 .. n : \E k \in Nat : c = k * m
Common == CHOOSE c \in Nat \ {0} : DividedByAll(c, MaxPrice)
Recip == [x \in Prices |-> Common \div x]
Plain == [x \in Prices |-> x]

\* There is a number that all prices divide.
LEMMA CommonExists == Common \in Nat \ {0} /\ DividedByAll(Common, MaxPrice)
<1> DEFINE Bad == {n \in Nat : ~ \E c \in Nat \ {0} : DividedByAll(c, n)}
<1>1. Bad = {}
  <2> SUFFICES ASSUME Bad # {} PROVE FALSE
    OBVIOUS
  <2>1. PICK n \in Bad : \A j \in Bad : ~(<<j, n>> \in OpToRel(<, Nat))
    <3>1. Bad \subseteq Nat
      OBVIOUS
    <3> HIDE DEF Bad
    <3> QED BY <3>1, NatLessThanWellFounded, WFMin
  <2>2. n \in Nat /\ ~ \E c \in Nat \ {0} : DividedByAll(c, n)
    OBVIOUS
  <2>3. n # 0
    <3>1. 1 \in Nat \ {0} /\ DividedByAll(1, 0)
      BY DEF DividedByAll
    <3> QED BY <2>2, <3>1
  <2>4. n - 1 \in Nat /\ n - 1 \notin Bad
    <3>1. n - 1 \in Nat /\ n - 1 < n
      BY <2>2, <2>3
    <3> HIDE DEF Bad
    <3> QED BY <2>1, <2>2, <3>1 DEF OpToRel
  <2>5. PICK c \in Nat \ {0} : DividedByAll(c, n - 1)
    BY <2>4
  <2>6. c * n \in Nat \ {0}
    BY <2>2, <2>3
  <2>7. ASSUME NEW m \in 1 .. n PROVE \E k \in Nat : c * n = k * m
    <3>1. CASE m = n
      BY <3>1
    <3>2. CASE m # n
      <4>1. m \in 1 .. n - 1
        BY <2>2, <3>2
      <4>2. PICK k \in Nat : c = k * m
        BY <2>5, <4>1 DEF DividedByAll
      <4>3. k * n \in Nat /\ c * n = (k * n) * m
        BY <2>2, <4>1, <4>2
      <4> QED BY <4>3
    <3> QED BY <3>1, <3>2
  <2>8. DividedByAll(c * n, n)
    BY <2>7 DEF DividedByAll
  <2> QED BY <2>2, <2>6, <2>8
<1>2. MaxPrice \in Nat
  BY EngineOK
<1>3. \E c \in Nat \ {0} : DividedByAll(c, MaxPrice)
  BY <1>1, <1>2
<1> QED BY <1>3 DEF Common

\* In units of 1/Common a price has an integer reciprocal.
LEMMA Reciprocals ==
  ASSUME NEW x \in Prices
  PROVE  x \in Nat \ {0} /\ Recip[x] \in Nat \ {0} /\ x * Recip[x] = Common
<1>1. x \in Nat \ {0} /\ x \in 1 .. MaxPrice
  BY EngineOK DEF Prices
<1>2. PICK k \in Nat : Common = k * x
  BY <1>1, CommonExists DEF DividedByAll
<1>3. Common \div x = k
  BY <1>1, <1>2
<1>4. k # 0
  BY <1>1, <1>2, CommonExists
<1> QED BY <1>1, <1>2, <1>3, <1>4 DEF Recip

\* Multiplying by a natural number keeps an order.
LEMMA Scaled ==
  ASSUME NEW x \in Int, NEW y \in Int, NEW c \in Nat, x <= y
  PROVE  x * c <= y * c
OBVIOUS

\* A positive factor may be taken off both sides of an order.
LEMMA Unscaled ==
  ASSUME NEW x \in Int, NEW y \in Int, NEW c \in Nat \ {0}
  PROVE  /\ x * c <= y * c => x <= y
         /\ x * c < y * c => x < y
OBVIOUS

\* Of two prices the smaller has the greater reciprocal.
LEMMA RecipFalls ==
  ASSUME NEW x \in Prices, NEW y \in Prices, x <= y
  PROVE  Recip[y] <= Recip[x]
<1> DEFINE u == Recip[x]
           v == Recip[y]
<1>1. /\ x \in Nat \ {0} /\ u \in Nat \ {0} /\ x * u = Common
      /\ y \in Nat \ {0} /\ v \in Nat \ {0} /\ y * v = Common
  BY Reciprocals
<1> HIDE DEF u, v
<1>2. x * v <= y * v
  BY <1>1, Scaled
<1>3. v * x <= u * x
  BY <1>1, <1>2
<1>4. v <= u
  BY <1>1, <1>3, Unscaled
<1> QED BY <1>4 DEF u, v

\* A quotient rounded down or up, against the exact one.
Floor(x, y) == x \div y
Ceil(x, y) == (x + y - 1) \div y

\* What is rounded down is not above the fraction.
LEMMA RoundedDown ==
  ASSUME NEW x \in Int, NEW y \in Nat \ {0}, NEW r, r = Floor(x, y)
  PROVE  r \in Int /\ r * y <= x /\ (x >= 0 => r >= 0)
<1>1. r = x \div y
  BY DEF Floor
<1>2. r \in Int /\ y * r <= x /\ x < y * r + y
  BY <1>1
<1>3. y * r = r * y
  BY <1>2
<1>4. ASSUME x >= 0 PROVE r >= 0
  <2>1. 0 * y < (r + 1) * y
    BY <1>2, <1>4
  <2>2. 0 < r + 1
    BY <1>2, <2>1, Unscaled
  <2> QED BY <1>2, <2>2
<1> QED BY <1>2, <1>3, <1>4

\* What is rounded up is not below the fraction.
LEMMA RoundedUp ==
  ASSUME NEW x \in Int, NEW y \in Nat \ {0}, NEW r, r = Ceil(x, y)
  PROVE  r \in Int /\ x <= r * y /\ (x >= 0 => r >= 0)
<1>1. r = (x + y - 1) \div y
  BY DEF Ceil
<1>2. r \in Int /\ y * r <= x + y - 1 /\ x + y - 1 < y * r + y
  BY <1>1
<1>3. y * r = r * y /\ r * y \in Int
  BY <1>2
<1>4. x <= r * y
  BY <1>2, <1>3
<1>5. ASSUME x >= 0 PROVE r >= 0
  <2>1. 0 * y < (r + 1) * y
    BY <1>2, <1>3, <1>4, <1>5
  <2>2. 0 < r + 1
    BY <1>2, <2>1, Unscaled
  <2> QED BY <1>2, <2>2
<1> QED BY <1>2, <1>4, <1>5

\* What is rounded up is the least integer that is not below the fraction.
LEMMA RoundedUpLeast ==
  ASSUME NEW x \in Int, NEW y \in Nat \ {0}, NEW r, r = Ceil(x, y),
         NEW z \in Int, x <= z * y
  PROVE  r <= z
<1>1. r = (x + y - 1) \div y
  BY DEF Ceil
<1>2. r \in Int /\ y * r <= x + y - 1
  BY <1>1
<1>3. y * r = r * y /\ r * y \in Int
  BY <1>2
<1>4. (z + 1) * y = z * y + y /\ z * y \in Int
  OBVIOUS
<1>5. r * y < (z + 1) * y
  BY <1>2, <1>3, <1>4
<1>6. r < z + 1
  BY <1>2, <1>5, Unscaled
<1> QED BY <1>2, <1>6

-----------------------------------------------------------------------------
(* One step of the walk, within one range of active liquidity *)

\* An input that does not reach the goal below stops at a price that is not
\* below it, and pays for the move.
LEMMA NextBelow ==
  ASSUME NEW p \in Nat \ {0}, NEW goal \in Nat \ {0}, goal <= p, NEW l \in Nat \ {0},
         NEW amount \in Nat, NEW n, n = Engine!getNextSqrtPriceFromA(p, l, amount),
         amount < Ceil(l * (p - goal) * Q, goal * p)
  PROVE  /\ n \in Nat \ {0} /\ goal <= n /\ n <= p
         /\ l * (p - n) * Q <= amount * (n * p)
<1>0. Q \in Nat \ {0}
  BY EngineOK
<1>1. CASE amount = 0
  <2>1. n = p
    BY <1>1 DEF Engine!getNextSqrtPriceFromA
  <2>2. l * (p - n) * Q = 0 /\ amount * (n * p) = 0
    BY <1>0, <1>1, <2>1
  <2> QED BY <2>1, <2>2
<1>2. CASE amount # 0
  <2> DEFINE g == (amount * p) \div Q
             d == l + g
  <2>1. g \in Int /\ Q * g <= amount * p /\ amount * p < Q * g + Q
    BY <1>0
  <2>2. amount * p \in Nat
    OBVIOUS
  <2>3. n = Ceil(l * p, d)
    BY <1>2 DEF Engine!getNextSqrtPriceFromA, Engine!Rounded, Ceil
  <2> HIDE DEF g
  <2>4. g \in Nat
    <3>1. 0 * Q < (g + 1) * Q
      BY <1>0, <2>1, <2>2
    <3>2. 0 < g + 1
      BY <1>0, <2>1, <3>1, Unscaled
    <3> QED BY <2>1, <3>2
  <2>5. d \in Nat \ {0} /\ l * p \in Nat \ {0}
    BY <2>4
  <2>6. n \in Int /\ l * p <= n * d
    <3> DEFINE a == l * p
    <3>1. n = Ceil(a, d) /\ d \in Nat \ {0} /\ a \in Int
      BY <2>3, <2>5
    <3> HIDE DEF a, d
    <3>2. n \in Int /\ a <= n * d
      BY <3>1, RoundedUp
    <3> QED BY <3>2 DEF a
  <2>7. n <= p
    <3>1. l * p <= d * p
      BY <2>4, Scaled
    <3> DEFINE a == l * p
    <3>2. n = Ceil(a, d) /\ d \in Nat \ {0} /\ a \in Int /\ a <= p * d
      BY <2>3, <2>5, <3>1
    <3> HIDE DEF a, d
    <3>3. p \in Int
      OBVIOUS
    <3> QED BY <3>2, <3>3, RoundedUpLeast
  <2>8. n \in Nat \ {0}
    <3>1. 0 * d < n * d
      BY <2>5, <2>6
    <3> HIDE DEF d
    <3>2. 0 < n
      BY <2>5, <2>6, <3>1, Unscaled
    <3> QED BY <2>6, <3>2
  <2>9. goal <= n
    <3> DEFINE w == l * (p - goal) * Q
               b == goal * p
    <3>1. w \in Int /\ b \in Nat \ {0}
      BY <1>0
    <3>2. ~(w <= amount * b)
      <4>1. PICK r : r = Ceil(w, b) /\ amount < r
        OBVIOUS
      <4> HIDE DEF w, b
      <4>2. r \in Int /\ (w <= amount * b => r <= amount)
        BY <3>1, <4>1, RoundedUp, RoundedUpLeast
      <4> QED BY <4>1, <4>2
    <3>3. (Q * g) * goal <= (amount * p) * goal
      BY <1>0, <2>1, <2>2, <2>4, Scaled
    <3>4. (amount * p) * goal = amount * b /\ (Q * g) * goal = (g * goal) * Q
      BY <1>0, <2>4
    <3>5. (g * goal) * Q < (l * (p - goal)) * Q
      <4>1. amount * b \in Int /\ (g * goal) * Q \in Int
        BY <1>0, <2>4, <3>1
      <4> QED BY <3>1, <3>2, <3>3, <3>4, <4>1
    <3>6. g * goal < l * (p - goal)
      <4>1. g * goal \in Int /\ l * (p - goal) \in Int
        BY <2>4
      <4> QED BY <1>0, <3>5, <4>1, Unscaled
    <3>7. goal * d = l * goal + g * goal /\ l * (p - goal) = l * p - l * goal
      BY <2>4
    <3>8. goal * d < n * d
      BY <2>4, <2>5, <2>6, <3>6, <3>7
    <3> HIDE DEF d
    <3>9. goal < n
      BY <2>5, <2>6, <3>8, Unscaled
    <3> QED BY <2>6, <3>9
  <2>10. l * (p - n) * Q <= amount * (n * p)
    <3>1. (Q * g) * n <= (amount * p) * n
      BY <1>0, <2>1, <2>2, <2>4, <2>8, Scaled
    <3>2. n * d = l * n + g * n /\ l * (p - n) = l * p - l * n
      BY <2>4, <2>8
    <3>3. l * (p - n) <= g * n /\ l * (p - n) \in Int /\ g * n \in Int
      BY <2>4, <2>5, <2>6, <2>8, <3>2
    <3>4. l * (p - n) * Q <= (g * n) * Q
      BY <1>0, <3>3, Scaled
    <3>5. (g * n) * Q = (Q * g) * n /\ (amount * p) * n = amount * (n * p)
      BY <1>0, <2>4, <2>8
    <3>6. (Q * g) * n \in Int /\ amount * (n * p) \in Int /\ l * (p - n) * Q \in Int
      BY <1>0, <2>4, <2>8
    <3> QED BY <3>1, <3>4, <3>5, <3>6
  <2> HIDE DEF d
  <2> QED BY <2>7, <2>8, <2>9, <2>10
<1> QED BY <1>1, <1>2

\* The same upwards.
LEMMA NextAbove ==
  ASSUME NEW p \in Nat \ {0}, NEW goal \in Nat \ {0}, p <= goal, NEW l \in Nat \ {0},
         NEW amount \in Nat, NEW n, n = Engine!getNextSqrtPriceFromB(p, l, amount),
         amount < Ceil(l * (goal - p), Q)
  PROVE  /\ n \in Nat \ {0} /\ p <= n /\ n <= goal
         /\ l * (n - p) <= amount * Q
<1>0. Q \in Nat \ {0}
  BY EngineOK
<1> DEFINE g == (amount * Q) \div l
<1>1. g \in Int /\ l * g <= amount * Q /\ amount * Q < l * g + l /\ amount * Q \in Nat
  BY <1>0
<1>2. n = p + g
  BY DEF Engine!getNextSqrtPriceFromB
<1> HIDE DEF g
<1>3. g \in Nat
  <2>1. 0 * l < (g + 1) * l
    BY <1>1
  <2>2. 0 < g + 1
    BY <1>1, <2>1, Unscaled
  <2> QED BY <1>1, <2>2
<1>4. n - p = g /\ l * (n - p) <= amount * Q
  BY <1>1, <1>2, <1>3
<1>5. n <= goal
  <2> DEFINE w == l * (goal - p)
  <2>1. w \in Int
    OBVIOUS
  <2>2. ~(w <= amount * Q)
    <3>1. PICK r : r = Ceil(w, Q) /\ amount < r
      OBVIOUS
    <3> HIDE DEF w
    <3>2. r \in Int /\ (w <= amount * Q => r <= amount)
      BY <1>0, <2>1, <3>1, RoundedUp, RoundedUpLeast
    <3> QED BY <3>1, <3>2
  <2>3. g * l < (goal - p) * l
    BY <1>1, <2>1, <2>2
  <2>4. g < goal - p
    BY <1>1, <2>3, Unscaled
  <2> QED BY <1>1, <1>2, <2>4
<1> QED BY <1>2, <1>3, <1>4, <1>5

\* Amounts of A and moves of the reciprocal of the price bound each other alike.
LEMMA AmountsOfA ==
  ASSUME NEW lower \in Prices, NEW upper \in Prices, NEW l \in Int, NEW z \in Int
  PROVE  /\ l * (upper - lower) * Q <= z * (lower * upper)
              => Q * (l * (Recip[lower] - Recip[upper])) <= z * Common
         /\ z * (lower * upper) <= l * (upper - lower) * Q
              => z * Common <= Q * (l * (Recip[lower] - Recip[upper]))
<1> DEFINE u == Recip[lower]
           v == Recip[upper]
           a == l * (upper - lower) * Q
           b == z * (lower * upper)
           c == Q * (l * (u - v))
           d == z * Common
<1>0. Q \in Nat \ {0}
  BY EngineOK
<1>1. /\ lower \in Nat \ {0} /\ u \in Nat \ {0} /\ lower * u = Common
      /\ upper \in Nat \ {0} /\ v \in Nat \ {0} /\ upper * v = Common /\ Common \in Nat \ {0}
  BY Reciprocals, CommonExists
<1> HIDE DEF u, v
<1>2. a \in Int /\ b \in Int /\ c \in Int /\ d \in Int
  BY <1>0, <1>1
<1>3. b * u = d * upper
  <2>1. b * u = z * upper * (lower * u)
    BY <1>1
  <2> QED BY <1>1, <2>1
<1>4. a * u = c * upper
  <2>1. (upper - lower) * u = upper * (u - v)
    <3>1. (upper - lower) * u = upper * u - lower * u /\ upper * (u - v) = upper * u - upper * v
      BY <1>1
    <3> QED BY <1>1, <3>1
  <2>2. a * u = (l * Q) * ((upper - lower) * u)
    BY <1>0, <1>1
  <2>3. c * upper = (l * Q) * (upper * (u - v))
    BY <1>0, <1>1
  <2> QED BY <2>1, <2>2, <2>3
<1>5. (a <= b => c <= d) /\ (b <= a => d <= c)
  <2> HIDE DEF a, b, c, d
  <2>1. u \in Nat
    BY <1>1
  <2>2. ASSUME a <= b PROVE c <= d
    <3>1. a * u <= b * u
      BY <1>2, <2>1, <2>2, Scaled
    <3>2. c * upper <= d * upper
      BY <1>3, <1>4, <3>1
    <3> QED BY <1>1, <1>2, <3>2, Unscaled
  <2>3. ASSUME b <= a PROVE d <= c
    <3>1. b * u <= a * u
      BY <1>2, <2>1, <2>3, Scaled
    <3>2. d * upper <= c * upper
      BY <1>3, <1>4, <3>1
    <3> QED BY <1>1, <1>2, <3>2, Unscaled
  <2> QED BY <2>2, <2>3
<1> QED BY <1>5 DEF a, b, c, d, u, v

\* What is left of an input after its fee.
LEMMA AfterFee ==
  ASSUME NEW amount \in Nat, NEW rate \in 0 .. FeeUnits
  PROVE  LET calc == amount - (amount * rate) \div FeeUnits IN calc \in Nat /\ calc <= amount
<1> DEFINE g == (amount * rate) \div FeeUnits
<1>0. FeeUnits \in Nat \ {0} /\ rate \in Nat /\ rate <= FeeUnits
  BY EngineOK
<1>1. g = Floor(amount * rate, FeeUnits)
  BY DEF Floor
<1>2. amount * rate \in Nat /\ amount * rate <= amount * FeeUnits
  <2>1. rate * amount <= FeeUnits * amount
    BY <1>0, Scaled
  <2> QED BY <1>0, <2>1
<1>3. g \in Int /\ g * FeeUnits <= amount * rate /\ g >= 0
  <2> DEFINE a == amount * rate
  <2>1. a \in Int /\ a >= 0 /\ g = Floor(a, FeeUnits)
    BY <1>1, <1>2
  <2> HIDE DEF a, g
  <2>2. g \in Int /\ g * FeeUnits <= a /\ g >= 0
    BY <1>0, <2>1, RoundedDown
  <2> QED BY <2>2 DEF a
<1> HIDE DEF g
<1>4. g <= amount
  <2>1. g * FeeUnits <= amount * FeeUnits
    BY <1>0, <1>2, <1>3
  <2> QED BY <1>0, <1>3, <2>1, Unscaled
<1>5. amount - g \in Nat /\ amount - g <= amount
  BY <1>3, <1>4
<1> QED BY <1>5 DEF g

StepTypes ==
  /\ price \in Prices /\ liquidity \in Nat /\ fee \in 0 .. FeeUnits
  /\ remaining \in Nat \ {0} /\ aToB \in BOOLEAN

\* A step down pays at least for the move of the price, and brings at most it.
LEMMA StepDown ==
  ASSUME StepTypes, aToB, NEW goal \in Prices, goal <= price,
         NEW s, s = Engine!computeSwapStep(goal)
  PROVE  /\ s.next \in Prices /\ goal <= s.next /\ s.next <= price
         /\ s.input \in Int /\ s.fee \in Int /\ s.output \in Int
         /\ Q * (liquidity * (Recip[s.next] - Recip[price])) <= (s.input + s.fee) * Common
         /\ s.output * Q <= liquidity * (price - s.next)
<1>0. /\ Q \in Nat \ {0} /\ FeeUnits \in Nat \ {0} /\ MinPrice \in Nat \ {0} /\ MaxPrice \in Nat
      /\ Common \in Nat \ {0} /\ goal \in Nat \ {0} /\ price \in Nat \ {0} /\ price \in Prices
      /\ Recip[goal] \in Nat /\ Recip[price] \in Nat
  BY EngineOK, CommonExists, Reciprocals DEF StepTypes
<1>1. CASE liquidity = 0
  <2>1. s.next = goal /\ s.input = 0 /\ s.output = 0 /\ s.fee = 0
    BY <1>1 DEF Engine!computeSwapStep
  <2>2. Q * (liquidity * (Recip[goal] - Recip[price])) = 0 /\ liquidity * (price - goal) = 0
    BY <1>0, <1>1
  <2> QED BY <1>0, <2>1, <2>2
<1>2. CASE liquidity # 0
  <2> DEFINE calc == remaining - (remaining * fee) \div FeeUnits
             toTarget == Ceil(liquidity * (price - goal) * Q, goal * price)
             n == s.next
             w == liquidity * (price - n) * Q
             b == n * price
             e == liquidity * (price - n)
  <2>0. liquidity \in Nat \ {0} /\ remaining \in Nat \ {0} /\ fee \in 0 .. FeeUnits
    BY <1>2 DEF StepTypes
  <2>1. n = IF calc >= toTarget THEN goal
            ELSE Engine!getNextSqrtPriceFromA(price, liquidity, calc)
    BY <1>2 DEF Engine!computeSwapStep, Engine!Step, Engine!getAmountDeltaA, Engine!Rounded, Ceil
  <2>2. s.input = Ceil(w, b)
    BY <1>2, <2>1 DEF Engine!computeSwapStep, Engine!Step, Engine!getAmountDeltaA, Engine!Rounded, Ceil
  <2>3. s.output = Floor(e, Q)
    BY <1>2, <2>1 DEF Engine!computeSwapStep, Engine!Step, Engine!getAmountDeltaB,
                      Engine!getAmountDeltaA, Engine!Rounded, Ceil, Floor
  <2>4. s.fee = IF n = goal THEN Ceil(s.input * fee, FeeUnits) ELSE remaining - s.input
    BY <1>2, <2>1 DEF Engine!computeSwapStep, Engine!Step, Engine!getAmountDeltaA, Engine!Rounded, Ceil
  <2>5. calc \in Nat /\ calc <= remaining
    BY <2>0, AfterFee
  <2> HIDE DEF calc
  <2>6. n \in Prices /\ goal <= n /\ n <= price /\ (n # goal => w <= calc * b)
    <3>1. CASE calc >= toTarget
      <4>1. n = goal
        BY <2>1, <3>1
      <4> HIDE DEF n
      <4> QED BY <1>0, <4>1
    <3>2. CASE ~(calc >= toTarget)
      <4>1. toTarget \in Int
        <5> DEFINE x == liquidity * (price - goal) * Q
                   y == goal * price
        <5>1. x \in Int /\ y \in Nat \ {0}
          BY <1>0, <2>0
        <5> HIDE DEF x, y
        <5>2. Ceil(x, y) \in Int
          BY <5>1, RoundedUp
        <5> QED BY <5>2 DEF x, y
      <4>2. calc < toTarget
        <5> HIDE DEF toTarget
        <5> QED BY <2>5, <3>2, <4>1
      <4>3. n = Engine!getNextSqrtPriceFromA(price, liquidity, calc)
        BY <2>1, <3>2
      <4> HIDE DEF n
      <4>4. n \in Nat \ {0} /\ goal <= n /\ n <= price /\ liquidity * (price - n) * Q <= calc * (n * price)
        BY <1>0, <2>0, <2>5, <4>2, <4>3, NextBelow
      <4>5. n \in Prices
        BY <1>0, <4>4 DEF Prices
      <4> QED BY <4>4, <4>5
    <3> QED BY <3>1, <3>2
  <2> HIDE DEF n
  <2>7. n \in Nat \ {0} /\ w \in Nat /\ b \in Nat \ {0} /\ e \in Nat
    <3>1. n \in Nat \ {0} /\ price - n \in Nat
      BY <1>0, <2>6 DEF Prices
    <3> QED BY <1>0, <2>0, <3>1
  <2>8. s.input \in Int /\ w <= s.input * b /\ s.input >= 0 /\ (n # goal => s.input <= remaining)
    <3> HIDE DEF w, b
    <3>1. s.input \in Int /\ w <= s.input * b /\ s.input >= 0
      <4>1. PICK r : r = Ceil(w, b)
        OBVIOUS
      <4>2. w \in Int /\ b \in Nat \ {0} /\ w >= 0
        BY <2>7
      <4>3. r \in Int /\ w <= r * b /\ r >= 0
        BY <4>1, <4>2, RoundedUp
      <4> QED BY <2>2, <4>1, <4>3
    <3>2. ASSUME n # goal PROVE s.input <= calc
      BY <2>2, <2>5, <2>6, <2>7, <3>2, RoundedUpLeast
    <3> QED BY <2>0, <2>5, <3>1, <3>2
  <2>9. s.fee \in Int /\ s.fee >= 0
    <3>1. CASE n = goal
      <4> DEFINE x == s.input * fee
      <4>1. fee \in Nat
        BY <1>0, <2>0
      <4>2. x \in Int /\ x >= 0
        BY <2>8, <4>1
      <4>3. s.fee = Ceil(x, FeeUnits)
        BY <2>4, <3>1
      <4> HIDE DEF x
      <4> QED BY <1>0, <4>2, <4>3, RoundedUp
    <3>2. CASE n # goal
      <4>1. s.fee = remaining - s.input
        BY <2>4, <3>2
      <4> QED BY <2>0, <2>8, <3>2, <4>1
    <3> QED BY <3>1, <3>2
  <2>10. Q * (liquidity * (Recip[n] - Recip[price])) <= s.input * Common
    <3>1. liquidity \in Int
      BY <2>0
    <3> QED BY <1>0, <2>6, <2>8, <3>1, AmountsOfA
  <2>11. s.input * Common <= (s.input + s.fee) * Common
    BY <1>0, <2>8, <2>9, Scaled
  <2>12. s.output \in Int /\ s.output * Q <= e
    <3>1. e \in Int
      BY <2>7
    <3> HIDE DEF e, w, b, toTarget
    <3> QED BY <1>0, <2>3, <3>1, RoundedDown
  <2>13. Q * (liquidity * (Recip[n] - Recip[price])) <= (s.input + s.fee) * Common
    <3>1. Recip[n] \in Nat
      BY <2>6, Reciprocals
    <3>2. Q * (liquidity * (Recip[n] - Recip[price])) \in Int
      BY <1>0, <2>0, <3>1
    <3>3. s.input * Common \in Int /\ (s.input + s.fee) * Common \in Int
      BY <1>0, <2>8, <2>9
    <3> QED BY <2>10, <2>11, <3>2, <3>3
  <2> QED BY <2>6, <2>8, <2>9, <2>12, <2>13 DEF n
<1> QED BY <1>1, <1>2 DEF StepTypes

\* And so does a step up.
LEMMA StepUp ==
  ASSUME StepTypes, ~aToB, NEW goal \in Prices, price <= goal,
         NEW s, s = Engine!computeSwapStep(goal)
  PROVE  /\ s.next \in Prices /\ price <= s.next /\ s.next <= goal
         /\ s.input \in Int /\ s.fee \in Int /\ s.output \in Int
         /\ liquidity * (s.next - price) <= (s.input + s.fee) * Q
         /\ s.output * Common <= Q * (liquidity * (Recip[price] - Recip[s.next]))
<1>0. /\ Q \in Nat \ {0} /\ FeeUnits \in Nat \ {0} /\ MinPrice \in Nat \ {0} /\ MaxPrice \in Nat
      /\ Common \in Nat \ {0} /\ goal \in Nat \ {0} /\ price \in Nat \ {0} /\ price \in Prices
      /\ Recip[goal] \in Nat /\ Recip[price] \in Nat
  BY EngineOK, CommonExists, Reciprocals DEF StepTypes
<1>1. CASE liquidity = 0
  <2>1. s.next = goal /\ s.input = 0 /\ s.output = 0 /\ s.fee = 0
    BY <1>1 DEF Engine!computeSwapStep
  <2>2. Q * (liquidity * (Recip[price] - Recip[goal])) = 0 /\ liquidity * (goal - price) = 0
    BY <1>0, <1>1
  <2> QED BY <1>0, <2>1, <2>2
<1>2. CASE liquidity # 0
  <2> DEFINE calc == remaining - (remaining * fee) \div FeeUnits
             toTarget == Ceil(liquidity * (goal - price), Q)
             n == s.next
             w == liquidity * (n - price)
             b == price * n
             e == liquidity * (n - price) * Q
  <2>0. liquidity \in Nat \ {0} /\ remaining \in Nat \ {0} /\ fee \in 0 .. FeeUnits
    BY <1>2 DEF StepTypes
  <2>1. n = IF calc >= toTarget THEN goal
            ELSE Engine!getNextSqrtPriceFromB(price, liquidity, calc)
    BY <1>2 DEF Engine!computeSwapStep, Engine!Step, Engine!getAmountDeltaB, Engine!Rounded, Ceil
  <2>2. s.input = Ceil(w, Q)
    BY <1>2, <2>1 DEF Engine!computeSwapStep, Engine!Step, Engine!getAmountDeltaB, Engine!Rounded, Ceil
  <2>3. s.output = Floor(e, b)
    BY <1>2, <2>1 DEF Engine!computeSwapStep, Engine!Step, Engine!getAmountDeltaB,
                      Engine!getAmountDeltaA, Engine!Rounded, Ceil, Floor
  <2>4. s.fee = IF n = goal THEN Ceil(s.input * fee, FeeUnits) ELSE remaining - s.input
    BY <1>2, <2>1 DEF Engine!computeSwapStep, Engine!Step, Engine!getAmountDeltaB, Engine!Rounded, Ceil
  <2>5. calc \in Nat /\ calc <= remaining
    BY <2>0, AfterFee
  <2> HIDE DEF calc
  <2>6. n \in Prices /\ price <= n /\ n <= goal /\ (n # goal => w <= calc * Q)
    <3>1. CASE calc >= toTarget
      <4>1. n = goal
        BY <2>1, <3>1
      <4> HIDE DEF n
      <4> QED BY <1>0, <4>1
    <3>2. CASE ~(calc >= toTarget)
      <4>1. toTarget \in Int
        <5> DEFINE x == liquidity * (goal - price)
        <5>1. x \in Int
          BY <1>0, <2>0
        <5> HIDE DEF x
        <5>2. Ceil(x, Q) \in Int
          BY <1>0, <5>1, RoundedUp
        <5> QED BY <5>2 DEF x
      <4>2. calc < toTarget
        <5> HIDE DEF toTarget
        <5> QED BY <2>5, <3>2, <4>1
      <4>3. n = Engine!getNextSqrtPriceFromB(price, liquidity, calc)
        BY <2>1, <3>2
      <4> HIDE DEF n
      <4>4. n \in Nat \ {0} /\ price <= n /\ n <= goal /\ liquidity * (n - price) <= calc * Q
        BY <1>0, <2>0, <2>5, <4>2, <4>3, NextAbove
      <4>5. n \in Prices
        BY <1>0, <4>4 DEF Prices
      <4> QED BY <4>4, <4>5
    <3> QED BY <3>1, <3>2
  <2> HIDE DEF n
  <2>7. n \in Nat \ {0} /\ w \in Nat /\ b \in Nat \ {0} /\ e \in Nat
    <3>1. n \in Nat \ {0} /\ n - price \in Nat
      BY <1>0, <2>6 DEF Prices
    <3> QED BY <1>0, <2>0, <3>1
  <2>8. s.input \in Int /\ w <= s.input * Q /\ s.input >= 0 /\ (n # goal => s.input <= remaining)
    <3> HIDE DEF w, b, e, toTarget
    <3>1. s.input \in Int /\ w <= s.input * Q /\ s.input >= 0
      <4>1. PICK r : r = Ceil(w, Q)
        OBVIOUS
      <4>2. w \in Int /\ Q \in Nat \ {0} /\ w >= 0
        BY <1>0, <2>7
      <4>3. r \in Int /\ w <= r * Q /\ r >= 0
        BY <4>1, <4>2, RoundedUp
      <4> QED BY <2>2, <4>1, <4>3
    <3>2. ASSUME n # goal PROVE s.input <= calc
      BY <1>0, <2>2, <2>5, <2>6, <2>7, <3>2, RoundedUpLeast
    <3> QED BY <2>0, <2>5, <3>1, <3>2
  <2>9. s.fee \in Int /\ s.fee >= 0
    <3>1. CASE n = goal
      <4> DEFINE x == s.input * fee
      <4>1. fee \in Nat
        BY <1>0, <2>0
      <4>2. x \in Int /\ x >= 0
        BY <2>8, <4>1
      <4>3. s.fee = Ceil(x, FeeUnits)
        BY <2>4, <3>1
      <4> HIDE DEF x
      <4> QED BY <1>0, <4>2, <4>3, RoundedUp
    <3>2. CASE n # goal
      <4>1. s.fee = remaining - s.input
        BY <2>4, <3>2
      <4> QED BY <2>0, <2>8, <3>2, <4>1
    <3> QED BY <3>1, <3>2
  <2>10. s.output \in Int /\ s.output * b <= e
    <3>1. e \in Int
      BY <2>7
    <3> HIDE DEF e, w, b, toTarget
    <3> QED BY <2>3, <2>7, <3>1, RoundedDown
  <2>11. s.output * Common <= Q * (liquidity * (Recip[price] - Recip[n]))
    <3>1. liquidity \in Int
      BY <2>0
    <3> QED BY <1>0, <2>6, <2>10, <3>1, AmountsOfA
  <2>12. w <= (s.input + s.fee) * Q
    <3>1. s.input * Q <= (s.input + s.fee) * Q
      BY <1>0, <2>8, <2>9, Scaled
    <3>2. s.input * Q \in Int /\ (s.input + s.fee) * Q \in Int
      BY <1>0, <2>8, <2>9
    <3> HIDE DEF w
    <3> QED BY <2>7, <2>8, <3>1, <3>2
  <2> QED BY <2>6, <2>8, <2>9, <2>10, <2>11, <2>12 DEF n
<1> QED BY <1>1, <1>2 DEF StepTypes

-----------------------------------------------------------------------------
(* What a move of the price takes through the positions of a pool *)

WellFormed(ps) ==
  /\ IsFiniteSet(ps) /\ ps \subseteq [lower: Ticks, upper: Ticks, liquidity: Nat]
  /\ \A p \in ps : p.lower < p.upper

\* A set of two is finite.
LEMMA PairIsFinite ==
  ASSUME NEW x, NEW y
  PROVE  IsFiniteSet({x, y})
<1>1. IsFiniteSet({x}) /\ {x, y} = {x} \union {y}
  BY FS_Singleton
<1> QED BY <1>1, FS_AddElement

\* A price as a position sees it: held between the prices of its two ends.
LEMMA WithinHolds ==
  ASSUME NEW pos \in [lower: Ticks, upper: Ticks, liquidity: Nat], pos.lower < pos.upper,
         NEW x \in Prices
  PROVE  /\ PriceOf[pos.lower] \in Prices /\ PriceOf[pos.upper] \in Prices
         /\ PriceOf[pos.lower] < PriceOf[pos.upper]
         /\ Engine!Within(x, pos) \in Prices
         /\ Engine!Within(x, pos) = IF x <= PriceOf[pos.lower] THEN PriceOf[pos.lower]
                                    ELSE IF x >= PriceOf[pos.upper] THEN PriceOf[pos.upper]
                                    ELSE x
<1> DEFINE a == PriceOf[pos.lower]
           b == PriceOf[pos.upper]
<1>1. /\ a \in Prices /\ b \in Prices /\ a < b /\ \A y \in Prices : y \in Int
  <2>1. pos.lower \in Ticks /\ pos.upper \in Ticks
    OBVIOUS
  <2>2. a \in Prices /\ b \in Prices /\ a < b
    BY <2>1, EngineOK DEF Prices
  <2> QED BY <2>2 DEF Prices
<1> HIDE DEF a, b
<1>2. Engine!Min({b, x}) = IF x >= b THEN b ELSE x
  <2>1. a \in Int /\ b \in Int /\ x \in Int
    BY <1>1
  <2>2. IsFiniteSet({b, x}) /\ {b, x} # {} /\ {b, x} \subseteq Int
    BY <2>1, PairIsFinite
  <2>3. Engine!Min({b, x}) \in {b, x} /\ \A y \in {b, x} : Engine!Min({b, x}) <= y
    BY <2>2, MinIsFirst
  <2> QED BY <2>1, <2>3
<1>3. PICK m \in Prices : m = Engine!Min({b, x})
  BY <1>1, <1>2
<1>4. Engine!Max({a, m}) = IF m <= a THEN a ELSE m
  <2>1. a \in Int /\ m \in Int
    BY <1>1
  <2>2. IsFiniteSet({a, m}) /\ {a, m} # {} /\ {a, m} \subseteq Int
    BY <2>1, PairIsFinite
  <2>3. Engine!Max({a, m}) \in {a, m} /\ \A y \in {a, m} : Engine!Max({a, m}) >= y
    BY <2>2, MaxIsLast
  <2> QED BY <2>1, <2>3
<1>5. Engine!Within(x, pos) = Engine!Max({a, m})
  BY <1>3 DEF Engine!Within, a, b
<1>6. Engine!Within(x, pos) = IF x <= a THEN a ELSE IF x >= b THEN b ELSE x
  BY <1>1, <1>2, <1>3, <1>4, <1>5
<1> QED BY <1>1, <1>6 DEF a, b

\* What the positions turn over when the price goes from x to y, measured by V.
TurnOf(V, x, y) ==
  [pos \in positions |-> pos.liquidity * (V[Engine!Within(y, pos)] - V[Engine!Within(x, pos)])]
Turned(V, x, y) == Sum(TurnOf(V, x, y), positions)

PartOf(A) == [p \in positions |-> IF p \in A THEN p.liquidity ELSE 0]

\* The liquidity of some of the positions, as a sum over all of them.
LEMMA LiquidityOfPart ==
  ASSUME WellFormed(positions), NEW A \in SUBSET positions
  PROVE  /\ Engine!Liquidity(A) = Sum(PartOf(A), positions)
         /\ Engine!Liquidity(A) \in Nat
         /\ \A p \in positions : PartOf(A)[p] \in Nat
<1> DEFINE f == [p \in A |-> p.liquidity]
           g == PartOf(A)
<1>1. Engine!Liquidity(A) = Sum(f, A)
  <2>1. DOMAIN f = A
    OBVIOUS
  <2> HIDE DEF f
  <2>2. Engine!SumFunction(f) = Sum(f, A)
    BY <2>1 DEF Engine!SumFunction, Sum
  <2> QED BY <2>2 DEF Engine!Liquidity, f
<1>2. \A p \in positions : p.liquidity \in Nat
  BY DEF WellFormed
<1>3. \A p \in A : f[p] \in Int /\ g[p] = f[p]
  BY <1>2 DEF PartOf
<1>4. \A p \in positions \ A : g[p] = 0
  BY DEF PartOf
<1>5. \A p \in positions : g[p] \in Nat
  BY <1>2 DEF PartOf
<1> HIDE DEF f, g
<1>6. IsFiniteSet(positions)
  BY DEF WellFormed
<1>7. Sum(g, positions) = Sum(f, A)
  BY <1>3, <1>4, <1>6, SumOfPart
<1>8. Sum(g, positions) \in Int
  BY <1>5, <1>6, SumIsInt
<1> DEFINE m == -1
<1>9. m * Sum(g, positions) + 0 * Sum(g, positions) + 0 * Sum(g, positions) + 0 * Sum(g, positions) <= 0
  <2>1. \A p \in positions : g[p] \in Int /\ m * g[p] + 0 * g[p] + 0 * g[p] + 0 * g[p] <= 0
    BY <1>5
  <2>2. m \in Int /\ 0 \in Int
    OBVIOUS
  <2> HIDE DEF m
  <2> QED BY <1>6, <2>1, <2>2, SumCompares
<1>10. Sum(g, positions) \in Nat
  BY <1>8, <1>9
<1> QED BY <1>1, <1>5, <1>7, <1>10 DEF g

\* Two sums whose terms differ by a multiple of a third's.
LEMMA SumsDiffer ==
  ASSUME NEW S, IsFiniteSet(S), NEW f, NEW g, NEW h, NEW a \in Int,
         \A x \in S : /\ f[x] \in Int /\ g[x] \in Int /\ h[x] \in Int
                      /\ f[x] = g[x] + a * h[x]
  PROVE  Sum(f, S) \in Int /\ Sum(f, S) = Sum(g, S) + a * Sum(h, S)
<1> DEFINE b == -a
           m == -1
<1>1. /\ b \in Int /\ 1 \in Int /\ m \in Int /\ 0 \in Int
      /\ \A n \in Int : b * n = -(a * n) /\ a * n \in Int /\ m * n = -n /\ 1 * n = n /\ 0 * n = 0
  OBVIOUS
<1> HIDE DEF b, m
<1>2. \A x \in S : /\ f[x] \in Int /\ g[x] \in Int /\ h[x] \in Int
                   /\ 1 * f[x] + m * g[x] + b * h[x] + 0 * f[x] <= 0
                   /\ m * f[x] + 1 * g[x] + a * h[x] + 0 * f[x] <= 0
  <2> SUFFICES ASSUME NEW x \in S
               PROVE  /\ f[x] \in Int /\ g[x] \in Int /\ h[x] \in Int
                      /\ 1 * f[x] + m * g[x] + b * h[x] + 0 * f[x] <= 0
                      /\ m * f[x] + 1 * g[x] + a * h[x] + 0 * f[x] <= 0
    OBVIOUS
  <2>1. f[x] \in Int /\ g[x] \in Int /\ h[x] \in Int /\ f[x] = g[x] + a * h[x]
    OBVIOUS
  <2>2. a * h[x] \in Int /\ b * h[x] = -(a * h[x])
    BY <1>1, <2>1
  <2>3. m * f[x] = -f[x] /\ m * g[x] = -g[x]
    BY <1>1, <2>1
  <2> QED BY <2>1, <2>2, <2>3
<1>3. 1 * Sum(f, S) + m * Sum(g, S) + b * Sum(h, S) + 0 * Sum(f, S) <= 0
  BY <1>1, <1>2, SumCompares
<1>4. m * Sum(f, S) + 1 * Sum(g, S) + a * Sum(h, S) + 0 * Sum(f, S) <= 0
  BY <1>1, <1>2, SumCompares
<1>5. Sum(f, S) \in Int /\ Sum(g, S) \in Int /\ Sum(h, S) \in Int
  BY <1>2, SumIsInt
<1>6. PICK x, y, z \in Int : x = Sum(f, S) /\ y = Sum(g, S) /\ z = Sum(h, S)
  BY <1>5
<1>7. x = y + a * z
  <2>1. PICK u, v \in Int : u = a * z /\ v = b * z /\ v = -u
    BY <1>1, <1>6
  <2>2. PICK k, l \in Int : k = m * x /\ l = m * y /\ k = -x /\ l = -y
    BY <1>1, <1>6
  <2>3. 1 * x + l + v + 0 * x <= 0 /\ k + 1 * y + u + 0 * x <= 0
    BY <1>3, <1>4, <1>6, <2>1, <2>2
  <2>4. x = y + u
    BY <2>1, <2>2, <2>3
  <2> QED BY <2>1, <2>4
<1> QED BY <1>6, <1>7

\* What a move of the price turns over is an integer, of each position and of all.
LEMMA TurnIsInt ==
  ASSUME WellFormed(positions), NEW V \in [Prices -> Int], NEW x \in Prices, NEW y \in Prices
  PROVE  /\ \A pos \in positions : TurnOf(V, x, y)[pos] \in Int
         /\ Turned(V, x, y) \in Int
<1>1. ASSUME NEW pos \in positions PROVE TurnOf(V, x, y)[pos] \in Int
  <2>1. pos \in [lower: Ticks, upper: Ticks, liquidity: Nat] /\ pos.lower < pos.upper
    BY DEF WellFormed
  <2>2. Engine!Within(x, pos) \in Prices /\ Engine!Within(y, pos) \in Prices /\ pos.liquidity \in Nat
    BY <2>1, WithinHolds
  <2>3. V[Engine!Within(x, pos)] \in Int /\ V[Engine!Within(y, pos)] \in Int
    BY <2>2
  <2> QED BY <2>2, <2>3 DEF TurnOf
<1>2. IsFiniteSet(positions)
  BY DEF WellFormed
<1> QED BY <1>1, <1>2, SumIsInt DEF Turned

\* A move of the price during which some positions are within their ends, and the
\* others are not: the first turn it all over, the others nothing.
LEMMA TurnGoesOn ==
  ASSUME WellFormed(positions), NEW V \in [Prices -> Int],
         NEW o \in Prices, NEW x \in Prices, NEW y \in Prices, NEW A \in SUBSET positions,
         \A pos \in A : Engine!Within(x, pos) = x /\ Engine!Within(y, pos) = y,
         \A pos \in positions \ A : Engine!Within(x, pos) = Engine!Within(y, pos)
  PROVE  /\ Turned(V, o, y) = Turned(V, o, x) + Engine!Liquidity(A) * (V[y] - V[x])
         /\ Turned(V, y, o) = Turned(V, x, o) + Engine!Liquidity(A) * (V[x] - V[y])
<1> DEFINE a == V[y] - V[x]
           b == V[x] - V[y]
           h == PartOf(A)
<1>1. V[x] \in Int /\ V[y] \in Int /\ a \in Int /\ b \in Int
  OBVIOUS
<1>2. IsFiniteSet(positions)
  BY DEF WellFormed
<1>3. ASSUME NEW pos \in positions
      PROVE  /\ TurnOf(V, o, y)[pos] = TurnOf(V, o, x)[pos] + a * h[pos]
             /\ TurnOf(V, y, o)[pos] = TurnOf(V, x, o)[pos] + b * h[pos]
  <2>1. pos \in [lower: Ticks, upper: Ticks, liquidity: Nat] /\ pos.lower < pos.upper
    BY DEF WellFormed
  <2> DEFINE l == pos.liquidity
             w == V[Engine!Within(o, pos)]
             c == V[Engine!Within(x, pos)]
             d == V[Engine!Within(y, pos)]
  <2>2. l \in Nat /\ w \in Int /\ c \in Int /\ d \in Int
    <3>1. /\ Engine!Within(o, pos) \in Prices /\ Engine!Within(x, pos) \in Prices
          /\ Engine!Within(y, pos) \in Prices
      BY <2>1, WithinHolds
    <3> QED BY <2>1, <3>1
  <2>3. /\ TurnOf(V, o, y)[pos] = l * (d - w) /\ TurnOf(V, o, x)[pos] = l * (c - w)
        /\ TurnOf(V, y, o)[pos] = l * (w - d) /\ TurnOf(V, x, o)[pos] = l * (w - c)
    BY DEF TurnOf
  <2>4. CASE pos \in A
    <3>1. c = V[x] /\ d = V[y] /\ h[pos] = l
      BY <2>4 DEF PartOf
    <3> HIDE DEF l, w, c, d, h
    <3>2. l * (V[y] - w) = l * (V[x] - w) + a * l /\ l * (w - V[y]) = l * (w - V[x]) + b * l
      BY <1>1, <2>2
    <3> QED BY <2>3, <3>1, <3>2
  <2>5. CASE pos \notin A
    <3>1. c = d /\ h[pos] = 0
      BY <2>5 DEF PartOf
    <3> HIDE DEF l, w, c, d, h, a, b
    <3>2. a * h[pos] = 0 /\ b * h[pos] = 0
      BY <1>1, <3>1
    <3>3. l * (d - w) \in Int /\ l * (w - d) \in Int
      BY <2>2
    <3> QED BY <2>3, <3>1, <3>2, <3>3
  <2> QED BY <2>4, <2>5
<1>4. \A p \in positions : h[p] \in Int
  BY LiquidityOfPart
<1>5. /\ \A p \in positions : TurnOf(V, o, y)[p] \in Int
      /\ \A p \in positions : TurnOf(V, o, x)[p] \in Int
      /\ \A p \in positions : TurnOf(V, y, o)[p] \in Int
      /\ \A p \in positions : TurnOf(V, x, o)[p] \in Int
  BY TurnIsInt
<1> HIDE DEF a, b, h
<1>6. /\ Turned(V, o, y) = Turned(V, o, x) + a * Sum(h, positions)
      /\ Turned(V, y, o) = Turned(V, x, o) + b * Sum(h, positions)
  BY <1>1, <1>2, <1>3, <1>4, <1>5, SumsDiffer DEF Turned
<1>7. Sum(h, positions) = Engine!Liquidity(A) /\ Engine!Liquidity(A) \in Nat
  BY LiquidityOfPart DEF h
<1>8. a * Sum(h, positions) = Engine!Liquidity(A) * a /\ b * Sum(h, positions) = Engine!Liquidity(A) * b
  BY <1>1, <1>7
<1> QED BY <1>6, <1>8 DEF a, b

\* Without a move of the price nothing is turned over.
LEMMA TurnOfNothing ==
  ASSUME WellFormed(positions), NEW V \in [Prices -> Int], NEW x \in Prices
  PROVE  Turned(V, x, x) = 0
<1> DEFINE f == TurnOf(V, x, x)
<1>1. ASSUME NEW p \in positions PROVE f[p] = 0
  <2>1. p \in [lower: Ticks, upper: Ticks, liquidity: Nat] /\ p.lower < p.upper
    BY DEF WellFormed
  <2>2. V[Engine!Within(x, p)] \in Int /\ p.liquidity \in Nat
    BY <2>1, WithinHolds
  <2> QED BY <2>2 DEF TurnOf
<1>2. IsFiniteSet(positions)
  BY DEF WellFormed
<1> HIDE DEF f
<1>3. Sum(f, positions) = Sum(f, {})
  BY <1>1, <1>2, SumOfPart
<1>4. Sum(f, positions) = 0
  BY <1>3, SumOfNothing
<1> QED BY <1>4 DEF f, Turned

-----------------------------------------------------------------------------
(* What holds while a swap walks *)

Active(t) == {p \in positions : p.lower <= t /\ t < p.upper}

PoolTypes ==
  /\ WellFormed(positions) /\ net = [t \in Ticks |-> Engine!NetOf(positions, t)]
  /\ fee \in 0 .. FeeUnits /\ price \in Prices /\ origin \in Prices
  /\ tick \in Int /\ from \in Int /\ aToB \in BOOLEAN
  /\ remaining \in Int /\ paid \in Int /\ got \in Int

\* The liquidity is of the positions around the tick, and no end of a position
\* lies between the tick and the price.
InPlace ==
  /\ liquidity = Engine!Liquidity(Active(tick))
  /\ \A t \in Ticks : Engine!Initialized(t) =>
        (t <= tick => PriceOf[t] <= price) /\ (t > tick => price <= PriceOf[t])

\* What was paid and brought so far, against the exact turnover of the positions.
Walked ==
  IF aToB THEN /\ got * Q <= Turned(Plain, price, origin)
               /\ Q * Turned(Recip, origin, price) <= paid * Common
  ELSE /\ got * Common <= Q * Turned(Recip, price, origin)
       /\ Turned(Plain, origin, price) <= paid * Q

WalkInv == PoolTypes /\ InPlace /\ Walked

\* Prices and their reciprocals are integer measures of a price.
LEMMA Measures ==
  /\ Plain \in [Prices -> Int] /\ Recip \in [Prices -> Int]
  /\ \A x \in Prices : x \in Nat \ {0} /\ Plain[x] = x
<1>1. \A x \in Prices : x \in Nat \ {0} /\ Recip[x] \in Int
  BY Reciprocals
<1>2. Recip = [x \in Prices |-> Recip[x]]
  BY DEF Recip
<1>3. Recip \in [Prices -> Int]
  BY <1>1, <1>2
<1> QED BY <1>1, <1>3 DEF Plain

\* A move within the range of the active liquidity, down or up.
LEMMA MoveIsTurned ==
  ASSUME PoolTypes, InPlace, NEW n \in Prices, NEW V \in [Prices -> Int], NEW o \in Prices,
         \/ n <= price /\ \A t \in Ticks : Engine!Initialized(t) /\ t <= tick => PriceOf[t] <= n
         \/ price <= n /\ \A t \in Ticks : Engine!Initialized(t) /\ t > tick => n <= PriceOf[t]
  PROVE  /\ Turned(V, o, n) = Turned(V, o, price) + liquidity * (V[n] - V[price])
         /\ Turned(V, n, o) = Turned(V, price, o) + liquidity * (V[price] - V[n])
<1>1. /\ WellFormed(positions) /\ price \in Prices /\ tick \in Int
      /\ price \in Nat /\ n \in Nat /\ Active(tick) \in SUBSET positions
  BY Measures DEF PoolTypes, Active
<1>2. ASSUME NEW pos \in positions
      PROVE  /\ pos \in [lower: Ticks, upper: Ticks, liquidity: Nat] /\ pos.lower < pos.upper
             /\ pos.lower \in Ticks /\ pos.upper \in Ticks /\ pos.lower \in Int /\ pos.upper \in Int
             /\ Engine!Initialized(pos.lower) /\ Engine!Initialized(pos.upper)
             /\ PriceOf[pos.lower] \in Nat /\ PriceOf[pos.upper] \in Nat
             /\ PriceOf[pos.lower] < PriceOf[pos.upper]
  <2>1. pos \in [lower: Ticks, upper: Ticks, liquidity: Nat] /\ pos.lower < pos.upper
    BY <1>1 DEF WellFormed
  <2>2. pos.lower \in Int /\ pos.upper \in Int
    BY <2>1, EngineOK
  <2>3. PriceOf[pos.lower] \in Prices /\ PriceOf[pos.upper] \in Prices /\ PriceOf[pos.lower] < PriceOf[pos.upper]
    BY <2>1, <1>1, WithinHolds
  <2> QED BY <2>1, <2>2, <2>3, Measures DEF Engine!Initialized
<1>3. ASSUME NEW pos \in Active(tick)
      PROVE  Engine!Within(price, pos) = price /\ Engine!Within(n, pos) = n
  <2>1. pos \in positions /\ pos.lower <= tick /\ tick < pos.upper
    BY DEF Active
  <2>2. PriceOf[pos.lower] <= price /\ price <= PriceOf[pos.upper]
    BY <1>1, <1>2, <2>1 DEF InPlace
  <2>3. PriceOf[pos.lower] <= n /\ n <= PriceOf[pos.upper]
    BY <1>1, <1>2, <2>1, <2>2
  <2>4. /\ Engine!Within(price, pos) = IF price <= PriceOf[pos.lower] THEN PriceOf[pos.lower]
                                       ELSE IF price >= PriceOf[pos.upper] THEN PriceOf[pos.upper]
                                       ELSE price
        /\ Engine!Within(n, pos) = IF n <= PriceOf[pos.lower] THEN PriceOf[pos.lower]
                                   ELSE IF n >= PriceOf[pos.upper] THEN PriceOf[pos.upper]
                                   ELSE n
    BY <1>1, <1>2, <2>1, WithinHolds
  <2> QED BY <1>1, <1>2, <2>1, <2>2, <2>3, <2>4
<1>4. ASSUME NEW pos \in positions \ Active(tick)
      PROVE  Engine!Within(price, pos) = Engine!Within(n, pos)
  <2>1. pos \in positions /\ (~(pos.lower <= tick) \/ ~(tick < pos.upper))
    BY DEF Active
  <2>2. /\ Engine!Within(price, pos) = IF price <= PriceOf[pos.lower] THEN PriceOf[pos.lower]
                                       ELSE IF price >= PriceOf[pos.upper] THEN PriceOf[pos.upper]
                                       ELSE price
        /\ Engine!Within(n, pos) = IF n <= PriceOf[pos.lower] THEN PriceOf[pos.lower]
                                   ELSE IF n >= PriceOf[pos.upper] THEN PriceOf[pos.upper]
                                   ELSE n
    BY <1>1, <1>2, <2>1, WithinHolds
  <2>3. CASE pos.lower > tick
    <3>1. price <= PriceOf[pos.lower] /\ n <= PriceOf[pos.lower]
      BY <1>1, <1>2, <2>1, <2>3 DEF InPlace
    <3> QED BY <2>2, <3>1
  <2>4. CASE pos.upper <= tick
    <3>1. PriceOf[pos.upper] <= price /\ PriceOf[pos.upper] <= n
      BY <1>1, <1>2, <2>1, <2>4 DEF InPlace
    <3>2. ~(price <= PriceOf[pos.lower]) /\ ~(n <= PriceOf[pos.lower])
      BY <1>1, <1>2, <2>1, <3>1
    <3> QED BY <2>2, <3>1, <3>2
  <2> QED BY <1>1, <1>2, <2>1, <2>3, <2>4
<1>5. liquidity = Engine!Liquidity(Active(tick))
  BY DEF InPlace
<1> QED BY <1>1, <1>3, <1>4, <1>5, TurnGoesOn

\* What becomes active or inactive at a tick is its net liquidity.
LEMMA CrossingNets ==
  ASSUME PoolTypes, NEW t \in Ticks
  PROVE  /\ Engine!Liquidity(Active(t - 1)) = Engine!Liquidity(Active(t)) - net[t]
         /\ Engine!Liquidity(Active(t)) = Engine!Liquidity(Active(t - 1)) + net[t]
<1> DEFINE B == {p \in positions : p.lower = t}
           E == {p \in positions : p.upper = t}
           f == PartOf(Active(t - 1))
           g == PartOf(Active(t))
           b == PartOf(B)
           e == PartOf(E)
           k == [p \in positions |-> f[p] + b[p]]
<1>1. WellFormed(positions) /\ IsFiniteSet(positions) /\ t \in Int
  BY EngineOK DEF PoolTypes, WellFormed
<1>2. /\ Active(t) \in SUBSET positions /\ Active(t - 1) \in SUBSET positions
      /\ B \in SUBSET positions /\ E \in SUBSET positions
  BY DEF Active
<1>3. /\ Engine!Liquidity(Active(t)) = Sum(g, positions) /\ Engine!Liquidity(Active(t - 1)) = Sum(f, positions)
      /\ Engine!Liquidity(B) = Sum(b, positions) /\ Engine!Liquidity(E) = Sum(e, positions)
      /\ \A p \in positions : f[p] \in Nat /\ g[p] \in Nat /\ b[p] \in Nat /\ e[p] \in Nat
  <2> HIDE DEF B, E
  <2> QED BY <1>1, <1>2, LiquidityOfPart
<1>4. net[t] = Engine!Liquidity(B) - Engine!Liquidity(E)
  BY DEF PoolTypes, Engine!NetOf
<1>5. ASSUME NEW p \in positions
      PROVE  f[p] + b[p] = g[p] + e[p]
  <2>1. p.lower \in Int /\ p.upper \in Int /\ p.lower < p.upper /\ p.liquidity \in Nat
    BY <1>1, EngineOK DEF WellFormed
  <2>2. /\ f[p] = IF p.lower <= t - 1 /\ t - 1 < p.upper THEN p.liquidity ELSE 0
        /\ g[p] = IF p.lower <= t /\ t < p.upper THEN p.liquidity ELSE 0
        /\ b[p] = IF p.lower = t THEN p.liquidity ELSE 0
        /\ e[p] = IF p.upper = t THEN p.liquidity ELSE 0
    BY DEF PartOf, Active
  <2> HIDE DEF f, g, b, e
  <2> QED BY <1>1, <2>1, <2>2
<1> HIDE DEF f, g, b, e
<1>6. \A p \in positions : k[p] = f[p] + 1 * b[p] /\ k[p] = g[p] + 1 * e[p]
  BY <1>3, <1>5
<1>7. \A p \in positions : k[p] \in Int /\ f[p] \in Int /\ g[p] \in Int /\ b[p] \in Int /\ e[p] \in Int
  BY <1>3
<1> HIDE DEF k
<1>8. /\ Sum(k, positions) = Sum(f, positions) + 1 * Sum(b, positions)
      /\ Sum(k, positions) = Sum(g, positions) + 1 * Sum(e, positions)
  <2>1. 1 \in Int
    OBVIOUS
  <2> QED BY <1>1, <1>6, <1>7, <2>1, SumsDiffer
<1>9. PICK w, x, y, z \in Int : /\ w = Sum(f, positions) /\ x = Sum(b, positions)
                                /\ y = Sum(g, positions) /\ z = Sum(e, positions)
  BY <1>1, <1>7, SumIsInt
<1>10. w + x = y + z
  <2>1. w + 1 * x = y + 1 * z
    BY <1>8, <1>9
  <2> QED BY <2>1
<1>11. w = y - (x - z) /\ y = w + (x - z)
  BY <1>10
<1> QED BY <1>3, <1>4, <1>9, <1>11

\* The tick a step goes for is the first end of a position ahead, unless the walk
\* has left the arrays it had.
LEMMA NextIsFirst ==
  ASSUME PoolTypes, NEW t, t = Engine!NextTick, ~(t = None /\ Engine!Ahead # {})
  PROVE  \/ t = None /\ Engine!Ahead = {}
         \/ /\ t # None /\ t \in Engine!Ahead /\ t \in Ticks /\ t \in Int
            /\ \A u \in Engine!Ahead : IF aToB THEN u <= t ELSE t <= u
<1> DEFINE A == Engine!Ahead
           seen == {u \in A : Engine!InView(u)}
<1>1. A \subseteq Ticks /\ Ticks \subseteq Int /\ IsFiniteSet(Ticks) /\ None \notin Ticks
  BY EngineOK DEF Engine!Ahead
<1>2. CASE seen = {}
  BY <1>2 DEF Engine!NextTick
<1>3. CASE seen # {}
  <2>1. t = IF aToB THEN Engine!Max(seen) ELSE Engine!Min(seen)
    BY <1>3 DEF Engine!NextTick
  <2>2. seen \subseteq Ticks /\ seen \subseteq Int /\ IsFiniteSet(seen)
    BY <1>1, FS_Subset
  <2>3. t \in seen /\ \A u \in seen : IF aToB THEN u <= t ELSE t <= u
    <3>1. CASE aToB
      <4>1. t = Engine!Max(seen)
        BY <2>1, <3>1
      <4> HIDE DEF seen
      <4>2. t \in seen /\ \A u \in seen : t >= u
        BY <1>3, <2>2, <4>1, MaxIsLast
      <4>3. \A u \in seen : u <= t
        BY <2>2, <4>2
      <4> QED BY <3>1, <4>2, <4>3
    <3>2. CASE ~aToB
      <4>1. t = Engine!Min(seen)
        BY <2>1, <3>2
      <4> HIDE DEF seen
      <4> QED BY <1>3, <2>2, <3>2, <4>1, MinIsFirst
    <3> QED BY <3>1, <3>2
  <2>4. PICK lo, hi \in Int : \A u \in Int : Engine!InView(u) <=> IF aToB THEN u >= lo ELSE u < hi
    <3>1. from \in Int /\ ArraySize \in Nat \ {0}
      BY EngineOK DEF PoolTypes
    <3> DEFINE lo == Engine!Start(from) - 2 * ArraySize
               hi == Engine!Start(from) + 3 * ArraySize
    <3>2. lo \in Int /\ hi \in Int
      BY <3>1 DEF Engine!Start
    <3>3. \A u \in Int : Engine!InView(u) <=> IF aToB THEN u >= lo ELSE u < hi
      BY DEF Engine!InView
    <3> QED BY <3>2, <3>3
  <2>5. t \in A /\ t \in Int /\ Engine!InView(t)
    BY <2>2, <2>3
  <2>6. ASSUME NEW u \in A PROVE IF aToB THEN u <= t ELSE t <= u
    <3>1. u \in Int
      BY <1>1
    <3>2. CASE u \in seen
      BY <2>3, <3>2
    <3>3. CASE u \notin seen
      <4>1. ~Engine!InView(u)
        BY <3>3
      <4>2. IF aToB THEN t >= lo ELSE t < hi
        BY <2>4, <2>5
      <4>3. ~(IF aToB THEN u >= lo ELSE u < hi)
        BY <2>4, <3>1, <4>1
      <4> HIDE DEF seen, A
      <4> QED BY <2>5, <3>1, <4>2, <4>3
    <3> QED BY <3>2, <3>3
  <2> QED BY <1>1, <2>5, <2>6
<1> QED BY <1>2, <1>3

\* A turn of the walk: the tick it goes for and the step it makes.
Target(t) == IF t = None THEN Engine!Limit ELSE PriceOf[t]
Stepped(t, s) ==
  /\ t = Engine!NextTick /\ s = Engine!computeSwapStep(Target(t)) /\ ~(t = None /\ Engine!Ahead # {})
  /\ remaining > 0 /\ remaining' = remaining - (s.input + s.fee)
  /\ paid' = paid + s.input + s.fee /\ got' = got + s.output /\ price' = s.next
  /\ \/ /\ t # None /\ s.next = PriceOf[t]
        /\ liquidity' = IF aToB THEN liquidity - net[t] ELSE liquidity + net[t]
        /\ tick' = IF aToB THEN t - 1 ELSE t
     \/ UNCHANGED <<liquidity, tick>>
  /\ UNCHANGED <<positions, net, fee, aToB, from, origin>>

\* The price of a tick rises with the tick (tickIndexToSqrtPrice).
LEMMA PricesRise ==
  ASSUME NEW t \in Ticks, NEW u \in Ticks
  PROVE  /\ t \in Int /\ u \in Int /\ PriceOf[t] \in Prices /\ PriceOf[u] \in Prices
         /\ PriceOf[t] \in Nat /\ PriceOf[u] \in Nat
         /\ t < u => PriceOf[t] < PriceOf[u]
         /\ t <= u => PriceOf[t] <= PriceOf[u]
<1>1. PriceOf[t] \in Prices /\ PriceOf[u] \in Prices /\ t \in Int /\ u \in Int
  BY EngineOK DEF Prices
<1>2. PriceOf[t] \in Nat /\ PriceOf[u] \in Nat
  BY <1>1, Measures
<1>3. t < u => PriceOf[t] < PriceOf[u]
  BY EngineOK
<1>4. t = u => PriceOf[t] = PriceOf[u]
  OBVIOUS
<1> QED BY <1>1, <1>2, <1>3, <1>4

\* The goal lies ahead of the price, with no end of a position before it.
LEMMA TargetAhead ==
  ASSUME PoolTypes, InPlace, NEW t, NEW s, Stepped(t, s)
  PROVE  /\ Target(t) \in Prices
         /\ IF aToB THEN Target(t) <= price ELSE price <= Target(t)
         /\ t # None => t \in Ticks /\ t \in Int /\ Engine!Initialized(t)
                        /\ IF aToB THEN t <= tick ELSE t > tick
         /\ \A u \in Ticks : Engine!Initialized(u) =>
               IF aToB THEN u <= tick => t # None /\ u <= t /\ PriceOf[u] <= Target(t)
               ELSE u > tick => t # None /\ t <= u /\ Target(t) <= PriceOf[u]
<1>1. \/ t = None /\ Engine!Ahead = {}
      \/ /\ t # None /\ t \in Engine!Ahead /\ t \in Ticks /\ t \in Int
         /\ \A u \in Engine!Ahead : IF aToB THEN u <= t ELSE t <= u
  BY NextIsFirst DEF Stepped
<1>2. \A u \in Ticks : u \in Engine!Ahead <=> Engine!Initialized(u) /\ IF aToB THEN u <= tick ELSE u > tick
  BY DEF Engine!Ahead
<1>3. CASE t = None
  <2>1. Engine!Ahead = {}
    BY <1>1, <1>3
  <2>2. Target(t) = IF aToB THEN MinPrice ELSE MaxPrice
    BY <1>3 DEF Target, Engine!Limit
  <2>3. MinPrice \in Prices /\ MaxPrice \in Prices /\ MinPrice <= price /\ price <= MaxPrice
    BY EngineOK DEF PoolTypes, Prices
  <2> QED BY <1>2, <1>3, <2>1, <2>2, <2>3
<1>4. CASE t # None
  <2>1. t \in Engine!Ahead /\ t \in Ticks /\ t \in Int /\ Target(t) = PriceOf[t]
    BY <1>1, <1>4 DEF Target
  <2>2. Engine!Initialized(t) /\ IF aToB THEN t <= tick ELSE t > tick
    BY <1>2, <2>1
  <2>3. PriceOf[t] \in Prices /\ IF aToB THEN PriceOf[t] <= price ELSE price <= PriceOf[t]
    BY <2>1, <2>2, PricesRise DEF InPlace
  <2>4. ASSUME NEW u \in Ticks, Engine!Initialized(u)
        PROVE  IF aToB THEN u <= tick => t # None /\ u <= t /\ PriceOf[u] <= Target(t)
               ELSE u > tick => t # None /\ t <= u /\ Target(t) <= PriceOf[u]
    <3>1. CASE aToB
      <4>1. u <= tick => u <= t
        BY <1>1, <1>2, <1>4, <2>4, <3>1
      <4> QED BY <1>4, <2>1, <3>1, <4>1, PricesRise
    <3>2. CASE ~aToB
      <4>1. u > tick => t <= u
        BY <1>1, <1>2, <1>4, <2>4, <3>2
      <4> QED BY <1>4, <2>1, <3>2, <4>1, PricesRise
    <3> QED BY <3>1, <3>2
  <2> QED BY <1>4, <2>1, <2>2, <2>3, <2>4
<1> QED BY <1>3, <1>4

\* The step ends between the price and the goal, is paid and brings as it moves.
StepMoves(s, goal) ==
  /\ s.next \in Prices /\ s.input \in Int /\ s.fee \in Int /\ s.output \in Int
  /\ aToB => /\ goal <= s.next /\ s.next <= price
             /\ Q * (liquidity * (Recip[s.next] - Recip[price])) <= (s.input + s.fee) * Common
             /\ s.output * Q <= liquidity * (price - s.next)
  /\ ~aToB => /\ price <= s.next /\ s.next <= goal
              /\ liquidity * (s.next - price) <= (s.input + s.fee) * Q
              /\ s.output * Common <= Q * (liquidity * (Recip[price] - Recip[s.next]))

\* A step of the walk moves the price towards its target, with amounts on the pool's side.
LEMMA StepIsAMove ==
  ASSUME PoolTypes, InPlace, NEW t, NEW s, Stepped(t, s)
  PROVE  liquidity \in Nat /\ StepMoves(s, Target(t))
<1>1. liquidity \in Nat
  <2>1. Active(tick) \in SUBSET positions
    BY DEF Active
  <2> QED BY <2>1, LiquidityOfPart DEF PoolTypes, InPlace
<1>2. StepTypes
  BY <1>1 DEF PoolTypes, Stepped, StepTypes
<1>3. s = Engine!computeSwapStep(Target(t))
  BY DEF Stepped
<1>4. Target(t) \in Prices /\ IF aToB THEN Target(t) <= price ELSE price <= Target(t)
  BY TargetAhead
<1> DEFINE x == Target(t)
<1>5. x \in Prices /\ s = Engine!computeSwapStep(x)
  BY <1>3, <1>4
<1> HIDE DEF x
<1>6. CASE aToB
  <2>1. x <= price
    BY <1>4, <1>6 DEF x
  <2>2. /\ s.next \in Prices /\ x <= s.next /\ s.next <= price
        /\ s.input \in Int /\ s.fee \in Int /\ s.output \in Int
        /\ Q * (liquidity * (Recip[s.next] - Recip[price])) <= (s.input + s.fee) * Common
        /\ s.output * Q <= liquidity * (price - s.next)
    BY <1>2, <1>5, <1>6, <2>1, StepDown
  <2>3. StepMoves(s, x)
    BY <1>6, <2>2, Zenon DEF StepMoves
  <2> QED BY <1>1, <2>3 DEF x
<1>7. CASE ~aToB
  <2>1. price <= x
    BY <1>4, <1>7 DEF x
  <2>2. /\ s.next \in Prices /\ price <= s.next /\ s.next <= x
        /\ s.input \in Int /\ s.fee \in Int /\ s.output \in Int
        /\ liquidity * (s.next - price) <= (s.input + s.fee) * Q
        /\ s.output * Common <= Q * (liquidity * (Recip[price] - Recip[s.next]))
    BY <1>2, <1>5, <1>7, <2>1, StepUp
  <2>3. StepMoves(s, x)
    BY <1>7, <2>2, Zenon DEF StepMoves
  <2> QED BY <1>1, <2>3 DEF x
<1> QED BY <1>6, <1>7

\* The sums of the next state are those of this one, at the new price.
LEMMA TurnsCarry ==
  ASSUME UNCHANGED <<positions, origin>>
  PROVE  /\ Turned(Plain, price, origin)' = Turned(Plain, price', origin)
         /\ Turned(Plain, origin, price)' = Turned(Plain, origin, price')
         /\ Turned(Recip, price, origin)' = Turned(Recip, price', origin)
         /\ Turned(Recip, origin, price)' = Turned(Recip, origin, price')
BY DEF Turned, TurnOf

\* A turn of the walk keeps the amounts on the side of the pool.
LEMMA WalkTurns ==
  ASSUME WalkInv, NEW t, NEW s, Stepped(t, s)
  PROVE  Walked'
<1> DEFINE n == s.next
           l == liquidity
<1>1. PoolTypes /\ InPlace /\ Walked
  BY DEF WalkInv
<1>2. l \in Nat /\ StepMoves(s, Target(t))
  BY <1>1, StepIsAMove
<1>3. /\ n \in Prices /\ n \in Nat /\ price \in Nat /\ origin \in Prices /\ price \in Prices
      /\ Q \in Nat \ {0} /\ Common \in Nat \ {0} /\ paid \in Int /\ got \in Int
      /\ s.input \in Int /\ s.fee \in Int /\ s.output \in Int
      /\ Recip[n] \in Int /\ Recip[price] \in Int /\ Plain[n] = n /\ Plain[price] = price
      /\ WellFormed(positions) /\ Plain \in [Prices -> Int] /\ Recip \in [Prices -> Int]
  BY <1>1, <1>2, EngineOK, CommonExists, Measures DEF PoolTypes, StepMoves
<1>4. /\ UNCHANGED <<positions, origin, aToB>> /\ price' = n
      /\ paid' = paid + s.input + s.fee /\ got' = got + s.output
  BY DEF Stepped
<1>5. \/ n <= price /\ \A u \in Ticks : Engine!Initialized(u) /\ u <= tick => PriceOf[u] <= n
      \/ price <= n /\ \A u \in Ticks : Engine!Initialized(u) /\ u > tick => n <= PriceOf[u]
  <2>1. /\ Target(t) \in Nat
        /\ \A u \in Ticks : PriceOf[u] \in Nat
        /\ \A u \in Ticks : Engine!Initialized(u) =>
              IF aToB THEN u <= tick => PriceOf[u] <= Target(t)
              ELSE u > tick => Target(t) <= PriceOf[u]
    BY <1>1, TargetAhead, PricesRise, Measures
  <2>2. CASE aToB
    BY <1>2, <1>3, <2>1, <2>2 DEF StepMoves
  <2>3. CASE ~aToB
    BY <1>2, <1>3, <2>1, <2>3 DEF StepMoves
  <2> QED BY <2>2, <2>3
<1> HIDE DEF n, l
<1>6. CASE aToB
  <2> DEFINE a == Turned(Plain, price, origin)
             b == Turned(Recip, origin, price)
             c == l * (price - n)
             d == l * (Recip[n] - Recip[price])
  <2>1. a \in Int /\ b \in Int /\ c \in Int /\ d \in Int
    BY <1>2, <1>3, TurnIsInt
  <2>2. Turned(Plain, n, origin) = a + c /\ Turned(Recip, origin, n) = b + d
    BY <1>1, <1>3, <1>5, MoveIsTurned DEF l
  <2>3. got * Q <= a /\ Q * b <= paid * Common
    BY <1>1, <1>6 DEF Walked
  <2>4. s.output * Q <= c /\ Q * d <= (s.input + s.fee) * Common
    BY <1>2, <1>6 DEF StepMoves, n, l
  <2> HIDE DEF a, b, c, d
  <2>5. got' * Q = got * Q + s.output * Q /\ got * Q \in Int /\ s.output * Q \in Int
    BY <1>3, <1>4
  <2>6. paid' * Common = paid * Common + (s.input + s.fee) * Common
    BY <1>3, <1>4
  <2>7. Q * (b + d) = Q * b + Q * d /\ Q * b \in Int /\ Q * d \in Int
    BY <1>3, <2>1
  <2>8. paid * Common \in Int /\ (s.input + s.fee) * Common \in Int
    BY <1>3
  <2>9. got' * Q <= a + c /\ Q * (b + d) <= paid' * Common
    BY <2>1, <2>3, <2>4, <2>5, <2>6, <2>7, <2>8
  <2>10. aToB' /\ Turned(Plain, price, origin)' = a + c /\ Turned(Recip, origin, price)' = b + d
    BY <1>4, <1>6, <2>2, TurnsCarry
  <2> QED BY <2>9, <2>10 DEF Walked
<1>7. CASE ~aToB
  <2> DEFINE a == Turned(Plain, origin, price)
             b == Turned(Recip, price, origin)
             c == l * (n - price)
             d == l * (Recip[price] - Recip[n])
  <2>1. a \in Int /\ b \in Int /\ c \in Int /\ d \in Int
    BY <1>2, <1>3, TurnIsInt
  <2>2. Turned(Plain, origin, n) = a + c /\ Turned(Recip, n, origin) = b + d
    BY <1>1, <1>3, <1>5, MoveIsTurned DEF l
  <2>3. got * Common <= Q * b /\ a <= paid * Q
    BY <1>1, <1>7 DEF Walked
  <2>4. s.output * Common <= Q * d /\ c <= (s.input + s.fee) * Q
    BY <1>2, <1>7 DEF StepMoves, n, l
  <2> HIDE DEF a, b, c, d
  <2>5. /\ got' * Common = got * Common + s.output * Common
        /\ got * Common \in Int /\ s.output * Common \in Int
    BY <1>3, <1>4
  <2>6. paid' * Q = paid * Q + (s.input + s.fee) * Q
    BY <1>3, <1>4
  <2>7. Q * (b + d) = Q * b + Q * d /\ Q * b \in Int /\ Q * d \in Int
    BY <1>3, <2>1
  <2>8. paid * Q \in Int /\ (s.input + s.fee) * Q \in Int
    BY <1>3
  <2>9. got' * Common <= Q * (b + d) /\ a + c <= paid' * Q
    BY <2>1, <2>3, <2>4, <2>5, <2>6, <2>7, <2>8
  <2>10. ~aToB' /\ Turned(Plain, origin, price)' = a + c /\ Turned(Recip, price, origin)' = b + d
    BY <1>4, <1>7, <2>2, TurnsCarry
  <2> QED BY <2>9, <2>10 DEF Walked
<1> QED BY <1>6, <1>7

\* Between the tick and the next end of a position the active positions are the same.
LEMMA ActiveUntilCrossed ==
  ASSUME PoolTypes, InPlace, NEW t, NEW s, Stepped(t, s), t # None
  PROVE  /\ aToB => Active(tick) = Active(t)
         /\ ~aToB => Active(tick) = Active(t - 1)
<1>1. /\ t \in Ticks /\ t \in Int /\ tick \in Int
      /\ IF aToB THEN t <= tick ELSE t > tick
      /\ \A u \in Ticks : Engine!Initialized(u) =>
            IF aToB THEN u <= tick => u <= t ELSE u > tick => t <= u
  BY TargetAhead DEF PoolTypes
<1>2. ASSUME NEW p \in positions
      PROVE  /\ p.lower \in Ticks /\ p.upper \in Ticks /\ p.lower \in Int /\ p.upper \in Int
             /\ Engine!Initialized(p.lower) /\ Engine!Initialized(p.upper)
  BY EngineOK DEF PoolTypes, WellFormed, Engine!Initialized
<1>3. ASSUME aToB, NEW p \in positions
      PROVE  p.lower <= tick /\ tick < p.upper <=> p.lower <= t /\ t < p.upper
  BY <1>1, <1>2, <1>3
<1>4. ASSUME ~aToB, NEW p \in positions
      PROVE  p.lower <= tick /\ tick < p.upper <=> p.lower <= t - 1 /\ t - 1 < p.upper
  BY <1>1, <1>2, <1>4
<1> QED BY <1>3, <1>4 DEF Active

\* A turn of the walk, crossing or not, leaves the price and the liquidity in place.
LEMMA WalkStaysInPlace ==
  ASSUME WalkInv, NEW t, NEW s, Stepped(t, s)
  PROVE  InPlace'
<1> DEFINE n == s.next
<1>1. PoolTypes /\ InPlace
  BY DEF WalkInv
<1>2. liquidity \in Nat /\ StepMoves(s, Target(t)) /\ liquidity = Engine!Liquidity(Active(tick))
  BY <1>1, StepIsAMove DEF InPlace
<1>3. n \in Prices /\ n \in Nat /\ price \in Nat /\ tick \in Int /\ Target(t) \in Nat /\ aToB \in BOOLEAN
  BY <1>1, <1>2, TargetAhead, Measures DEF PoolTypes, StepMoves
<1>4. /\ \A u \in Ticks : u \in Int /\ PriceOf[u] \in Nat
      /\ \A u \in Ticks : Engine!Initialized(u) =>
            /\ u <= tick => PriceOf[u] <= price
            /\ u > tick => price <= PriceOf[u]
            /\ aToB /\ u <= tick => PriceOf[u] <= Target(t)
            /\ ~aToB /\ u > tick => Target(t) <= PriceOf[u]
  BY <1>1, TargetAhead, PricesRise DEF InPlace
<1>5. positions' = positions /\ price' = n
  BY DEF Stepped
<1>6. \A u \in Ticks : Engine!Initialized(u)' <=> Engine!Initialized(u)
  BY <1>5 DEF Engine!Initialized
<1>7. CASE UNCHANGED <<liquidity, tick>>
  <2>1. Active(tick)' = Active(tick) /\ Engine!Liquidity(Active(tick))' = Engine!Liquidity(Active(tick))
    BY <1>5, <1>7 DEF Active, Engine!Liquidity
  <2>2. \A u \in Ticks : Engine!Initialized(u) =>
           (u <= tick => PriceOf[u] <= n) /\ (u > tick => n <= PriceOf[u])
    <3> SUFFICES ASSUME NEW u \in Ticks, Engine!Initialized(u)
                 PROVE  (u <= tick => PriceOf[u] <= n) /\ (u > tick => n <= PriceOf[u])
      OBVIOUS
    <3>1. CASE aToB
      <4>1. Target(t) <= n /\ n <= price
        BY <1>2, <3>1 DEF StepMoves
      <4> HIDE DEF n
      <4> QED BY <1>3, <1>4, <3>1, <4>1
    <3>2. CASE ~aToB
      <4>1. price <= n /\ n <= Target(t)
        BY <1>2, <3>2 DEF StepMoves
      <4> HIDE DEF n
      <4> QED BY <1>3, <1>4, <3>2, <4>1
    <3> QED BY <3>1, <3>2
  <2> HIDE DEF n
  <2> QED BY <1>2, <1>5, <1>6, <1>7, <2>1, <2>2 DEF InPlace
<1>8. CASE /\ t # None /\ n = PriceOf[t]
           /\ liquidity' = IF aToB THEN liquidity - net[t] ELSE liquidity + net[t]
           /\ tick' = IF aToB THEN t - 1 ELSE t
  <2>1. t \in Ticks /\ t \in Int
    BY <1>1, <1>8, TargetAhead
  <2>2. liquidity' = Engine!Liquidity(Active(tick'))
    <3>1. CASE aToB
      <4>1. Active(tick) = Active(t) /\ tick' = t - 1 /\ liquidity' = liquidity - net[t]
        BY <1>1, <1>8, <3>1, ActiveUntilCrossed
      <4> QED BY <1>1, <1>2, <2>1, <4>1, CrossingNets
    <3>2. CASE ~aToB
      <4>1. Active(tick) = Active(t - 1) /\ tick' = t /\ liquidity' = liquidity + net[t]
        BY <1>1, <1>8, <3>2, ActiveUntilCrossed
      <4> QED BY <1>1, <1>2, <2>1, <4>1, CrossingNets
    <3> QED BY <3>1, <3>2
  <2>3. Engine!Liquidity(Active(tick))' = Engine!Liquidity(Active(tick'))
    BY <1>5 DEF Active, Engine!Liquidity
  <2>4. ASSUME NEW u \in Ticks
        PROVE  (u <= tick' => PriceOf[u] <= n) /\ (u > tick' => n <= PriceOf[u])
    <3>1. u \in Int /\ (u <= t => PriceOf[u] <= PriceOf[t]) /\ (t <= u => PriceOf[t] <= PriceOf[u])
      BY <2>1, PricesRise
    <3>2. tick' = t - 1 \/ tick' = t
      BY <1>8
    <3>3. (u <= tick' => u <= t) /\ (u > tick' => t <= u)
      BY <2>1, <3>1, <3>2
    <3> QED BY <1>8, <3>1, <3>3
  <2> HIDE DEF n
  <2> QED BY <1>5, <2>2, <2>3, <2>4 DEF InPlace
<1> QED BY <1>7, <1>8 DEF Stepped

\* A walk that has not left its arrays keeps all of it.
LEMMA WalkKeeps ==
  ASSUME WalkInv, blind \in BOOLEAN, Engine!Walk, ~blind'
  PROVE  WalkInv'
<1>1. PICK t, s : Stepped(t, s)
  <2> DEFINE t == Engine!NextTick
             s == Engine!computeSwapStep(Target(t))
  <2>1. ~(t = None /\ Engine!Ahead # {})
    BY DEF Engine!Walk
  <2>2. Stepped(t, s)
    BY <2>1 DEF Engine!Walk, Engine!pool, Stepped, Target
  <2> QED BY <2>2
<1>2. PoolTypes /\ InPlace
  BY DEF WalkInv
<1>3. StepMoves(s, Target(t)) /\ (t # None => t \in Int)
  BY <1>1, <1>2, StepIsAMove, TargetAhead
<1>4. PoolTypes'
  <2>1. price' \in Prices /\ tick' \in Int /\ remaining' \in Int /\ paid' \in Int /\ got' \in Int
    BY <1>1, <1>2, <1>3 DEF PoolTypes, Stepped, StepMoves
  <2>2. UNCHANGED <<positions, net, fee, aToB, from, origin>>
    BY <1>1 DEF Stepped
  <2>3. WellFormed(positions)' /\ (net = [u \in Ticks |-> Engine!NetOf(positions, u)])'
    BY <1>2, <2>2 DEF PoolTypes, WellFormed, Engine!NetOf, Engine!Liquidity
  <2> QED BY <1>2, <2>1, <2>2, <2>3 DEF PoolTypes
<1> QED BY <1>1, <1>4, WalkTurns, WalkStaysInPlace DEF WalkInv

-----------------------------------------------------------------------------
(* What a position takes, and what it gives back *)

\* An integer that is not below a fraction is not below what it is rounded down to.
LEMMA FloorLeast ==
  ASSUME NEW x \in Int, NEW y \in Nat \ {0}, NEW z \in Int, x <= z * y
  PROVE  Floor(x, y) <= z
<1> DEFINE r == Floor(x, y)
<1>1. r \in Int /\ r * y <= x
  BY RoundedDown
<1> HIDE DEF r
<1>2. r * y <= z * y
  <2>1. r * y \in Int /\ z * y \in Int
    BY <1>1
  <2> QED BY <1>1, <2>1
<1>3. r <= z
  BY <1>1, <1>2, Unscaled
<1> QED BY <1>3 DEF r

\* Rounded down is not above rounded up.
LEMMA FloorBelowCeil ==
  ASSUME NEW x \in Int, NEW y \in Nat \ {0}
  PROVE  Floor(x, y) <= Ceil(x, y)
<1> DEFINE c == Ceil(x, y)
<1>1. c \in Int /\ x <= c * y
  BY RoundedUp
<1> HIDE DEF c
<1>2. Floor(x, y) <= c
  BY <1>1, FloorLeast
<1> QED BY <1>2 DEF c

\* The liquidity that an amount of A makes is worth no more than the amount.
LEMMA LiquidityFromA ==
  ASSUME NEW lower \in Prices, NEW upper \in Prices, lower < upper, NEW amount \in Nat,
         NEW l, l = Engine!getLiquidityFromAmountA(lower, upper, amount)
  PROVE  l \in Nat /\ Floor(l * (upper - lower) * Q, lower * upper) <= amount
<1> DEFINE x == amount * lower * upper
           y == Q * (upper - lower)
           w == l * (upper - lower) * Q
           b == lower * upper
<1>1. Q \in Nat \ {0} /\ lower \in Nat \ {0} /\ upper \in Nat \ {0} /\ upper - lower \in Nat \ {0}
  BY EngineOK, Measures
<1>2. x \in Nat /\ y \in Nat \ {0} /\ b \in Nat \ {0}
  BY <1>1
<1>3. l = Floor(x, y)
  BY DEF Engine!getLiquidityFromAmountA, Floor
<1>4. l \in Int /\ l * y <= x /\ l >= 0
  <2> HIDE DEF x, y
  <2> QED BY <1>2, <1>3, RoundedDown
<1>5. w = l * y /\ x = amount * b /\ w \in Int
  BY <1>1, <1>4
<1> HIDE DEF x, y, w, b
<1>6. Floor(w, b) <= amount
  BY <1>2, <1>4, <1>5, FloorLeast
<1> QED BY <1>4, <1>6 DEF w, b

\* The liquidity that an amount of B makes is worth no more than the amount.
LEMMA LiquidityFromB ==
  ASSUME NEW lower \in Prices, NEW upper \in Prices, lower < upper, NEW amount \in Nat,
         NEW l, l = Engine!getLiquidityFromAmountB(lower, upper, amount)
  PROVE  l \in Nat /\ Floor(l * (upper - lower), Q) <= amount
<1> DEFINE x == amount * Q
           y == upper - lower
           w == l * (upper - lower)
<1>1. Q \in Nat \ {0} /\ lower \in Nat \ {0} /\ upper \in Nat \ {0} /\ y \in Nat \ {0} /\ x \in Nat
  BY EngineOK, Measures
<1>2. l = Floor(x, y)
  BY DEF Engine!getLiquidityFromAmountB, Floor
<1>3. l \in Int /\ l * y <= x /\ l >= 0
  <2> HIDE DEF x, y
  <2> QED BY <1>1, <1>2, RoundedDown
<1>4. w = l * y /\ w \in Int
  BY <1>1, <1>3
<1>5. Floor(w, Q) <= amount
  <2>1. w <= amount * Q
    BY <1>3, <1>4
  <2> HIDE DEF w, y, x
  <2> QED BY <1>1, <1>4, <2>1, FloorLeast
<1> QED BY <1>3, <1>5 DEF w

\* A position made of either quote and withdrawn at the same price.
LEMMA GivesBackNoMore ==
  ASSUME price \in Prices, NEW lower \in Prices, NEW upper \in Prices, lower < upper,
         NEW amount \in Nat, NEW taken, NEW back,
         \/ taken = Engine!increaseLiquidityQuoteA(lower, upper, amount)
         \/ taken = Engine!increaseLiquidityQuoteB(lower, upper, amount),
         back = Engine!decreaseLiquidityQuote(lower, upper, taken.liquidity)
  PROVE  back.A <= taken.A /\ back.B <= taken.B
<1> DEFINE l == taken.liquidity
           OfA(x, y) == Floor(l * (y - x) * Q, x * y)
           OfB(x, y) == Floor(l * (y - x), Q)
<1>0. /\ Q \in Nat \ {0} /\ lower \in Nat \ {0} /\ upper \in Nat \ {0} /\ price \in Nat \ {0}
  BY EngineOK, Measures
<1>1. /\ back.A = IF price <= lower THEN OfA(lower, upper)
                  ELSE IF price >= upper THEN 0 ELSE OfA(price, upper)
      /\ back.B = IF price <= lower THEN 0
                  ELSE IF price >= upper THEN OfB(lower, upper) ELSE OfB(lower, price)
  BY DEF Engine!decreaseLiquidityQuote, Engine!getAmountDeltaA, Engine!getAmountDeltaB,
         Engine!Rounded, Floor
<1>2. ASSUME NEW x \in Prices, NEW y \in Prices, l = 0 PROVE OfA(x, y) = 0 /\ OfB(x, y) = 0
  <2>1. x \in Nat \ {0} /\ y \in Nat \ {0} /\ x * y \in Nat \ {0}
    BY Measures
  <2>2. l * (y - x) * Q = 0 /\ l * (y - x) = 0
    BY <1>0, <1>2, <2>1
  <2>3. Floor(0, x * y) = 0 /\ Floor(0, Q) = 0
    BY <1>0, <2>1 DEF Floor
  <2> QED BY <2>2, <2>3
<1>3. ASSUME NEW x \in Prices, NEW y \in Prices, x < y, l \in Nat
      PROVE  /\ OfA(x, y) <= Ceil(l * (y - x) * Q, x * y)
             /\ OfB(x, y) <= Ceil(l * (y - x), Q)
  <2> DEFINE w == l * (y - x) * Q
             b == x * y
             e == l * (y - x)
  <2>1. w \in Int /\ b \in Nat \ {0} /\ e \in Int
    BY <1>0, <1>3, Measures
  <2> HIDE DEF w, b, e
  <2>2. Floor(w, b) <= Ceil(w, b) /\ Floor(e, Q) <= Ceil(e, Q)
    BY <1>0, <2>1, FloorBelowCeil
  <2> QED BY <2>2 DEF w, b, e
<1>4. CASE taken = Engine!increaseLiquidityQuoteA(lower, upper, amount)
  <2>1. CASE price >= upper
    <3>1. l = 0 /\ taken.A = 0 /\ taken.B = 0
      BY <1>4, <2>1 DEF Engine!increaseLiquidityQuoteA
    <3>2. OfB(lower, upper) = 0
      BY <1>2, <3>1
    <3>3. ~(price <= lower)
      BY <1>0, <2>1
    <3> HIDE DEF OfA, OfB
    <3> QED BY <1>1, <2>1, <3>1, <3>2, <3>3
  <2>2. CASE price <= lower /\ ~(price >= upper)
    <3>1. l = Engine!getLiquidityFromAmountA(lower, upper, amount) /\ taken.A = amount /\ taken.B = 0
      BY <1>4, <2>2 DEF Engine!increaseLiquidityQuoteA
    <3>2. OfA(lower, upper) <= amount
      BY <3>1, LiquidityFromA
    <3> HIDE DEF OfA, OfB
    <3> QED BY <1>1, <2>2, <3>1, <3>2
  <2>3. CASE ~(price <= lower) /\ ~(price >= upper)
    <3>1. /\ l = Engine!getLiquidityFromAmountA(price, upper, amount) /\ taken.A = amount
          /\ taken.B = Ceil(l * (price - lower), Q)
      BY <1>4, <2>3 DEF Engine!increaseLiquidityQuoteA, Engine!getAmountDeltaB, Engine!Rounded, Ceil
    <3>2. lower < price /\ price < upper
      BY <1>0, <2>3
    <3>3. l \in Nat /\ OfA(price, upper) <= amount
      BY <3>1, <3>2, LiquidityFromA
    <3>4. OfB(lower, price) <= taken.B
      BY <1>3, <3>1, <3>2, <3>3
    <3> HIDE DEF OfA, OfB
    <3> QED BY <1>1, <2>3, <3>1, <3>3, <3>4
  <2> QED BY <1>0, <2>1, <2>2, <2>3
<1>5. CASE taken = Engine!increaseLiquidityQuoteB(lower, upper, amount)
  <2>1. CASE price <= lower
    <3>1. l = 0 /\ taken.A = 0 /\ taken.B = 0
      BY <1>5, <2>1 DEF Engine!increaseLiquidityQuoteB
    <3>2. OfA(lower, upper) = 0
      BY <1>2, <3>1
    <3> HIDE DEF OfA, OfB
    <3> QED BY <1>1, <2>1, <3>1, <3>2
  <2>2. CASE price >= upper /\ ~(price <= lower)
    <3>1. l = Engine!getLiquidityFromAmountB(lower, upper, amount) /\ taken.A = 0 /\ taken.B = amount
      BY <1>5, <2>2 DEF Engine!increaseLiquidityQuoteB
    <3>2. OfB(lower, upper) <= amount
      BY <3>1, LiquidityFromB
    <3> HIDE DEF OfA, OfB
    <3> QED BY <1>1, <2>2, <3>1, <3>2
  <2>3. CASE ~(price <= lower) /\ ~(price >= upper)
    <3>1. /\ l = Engine!getLiquidityFromAmountB(lower, price, amount) /\ taken.B = amount
          /\ taken.A = Ceil(l * (upper - price) * Q, price * upper)
      BY <1>5, <2>3 DEF Engine!increaseLiquidityQuoteB, Engine!getAmountDeltaA, Engine!Rounded, Ceil
    <3>2. lower < price /\ price < upper
      BY <1>0, <2>3
    <3>3. l \in Nat /\ OfB(lower, price) <= amount
      BY <3>1, <3>2, LiquidityFromB
    <3>4. OfA(price, upper) <= taken.A
      BY <1>3, <3>1, <3>2, <3>3
    <3> HIDE DEF OfA, OfB
    <3> QED BY <1>1, <2>3, <3>1, <3>3, <3>4
  <2> QED BY <2>1, <2>2, <2>3
<1> QED BY <1>4, <1>5

-----------------------------------------------------------------------------
(* The swap engine keeps up *)

\* The turnover of B as the property states it is the one measured by the price.
LEMMA TurnedBIsPlain ==
  ASSUME WellFormed(positions), NEW x \in Prices, NEW y \in Prices
  PROVE  Engine!TurnedB(x, y) = Turned(Plain, x, y)
<1> DEFINE f == [pos \in positions |->
                   pos.liquidity * (Engine!Within(y, pos) - Engine!Within(x, pos))]
<1>1. Engine!TurnedB(x, y) = Sum(f, positions)
  <2>1. DOMAIN f = positions
    OBVIOUS
  <2> HIDE DEF f
  <2>2. Engine!SumFunction(f) = Sum(f, positions)
    BY <2>1 DEF Engine!SumFunction, Sum
  <2> QED BY <2>2 DEF Engine!TurnedB, f
<1>2. ASSUME NEW pos \in positions
      PROVE  /\ Plain[Engine!Within(x, pos)] = Engine!Within(x, pos)
             /\ Plain[Engine!Within(y, pos)] = Engine!Within(y, pos)
  <2>1. pos \in [lower: Ticks, upper: Ticks, liquidity: Nat] /\ pos.lower < pos.upper
    BY DEF WellFormed
  <2> QED BY <2>1, WithinHolds, Measures
<1>3. f = TurnOf(Plain, x, y)
  BY <1>2 DEF TurnOf
<1> HIDE DEF f
<1> QED BY <1>1, <1>3 DEF Turned

\* The turnover of A in units of 1/1000, rounded down, and rounded up.
DownA(x, y) == Engine!TurnedA(x, y, FALSE)
UpA(x, y) == Engine!TurnedA(x, y, TRUE)

\* The turnover of A in units of 1/1000, rounded down or up, is on its side of the
\* one measured by the reciprocal of the price.
LEMMA TurnedAIsRecip ==
  ASSUME WellFormed(positions), NEW x \in Prices, NEW y \in Prices
  PROVE  /\ DownA(x, y) \in Int /\ UpA(x, y) \in Int
         /\ DownA(x, y) * Common <= 1000 * Q * Turned(Recip, y, x)
         /\ 1000 * Q * Turned(Recip, y, x) <= UpA(x, y) * Common
<1> DEFINE Amount(pos) == 1000 * Q * pos.liquidity * (Engine!Within(y, pos) - Engine!Within(x, pos))
           Each(pos) == Engine!Within(x, pos) * Engine!Within(y, pos)
           f == [pos \in positions |-> Floor(Amount(pos), Each(pos))]
           h == [pos \in positions |-> Ceil(Amount(pos), Each(pos))]
           g == TurnOf(Recip, y, x)
           k == 1000 * Q
           m == -k
           c == -Common
<1>0. Q \in Nat \ {0} /\ Common \in Nat \ {0} /\ IsFiniteSet(positions)
  BY EngineOK, CommonExists DEF WellFormed
<1>1. DownA(x, y) = Sum(f, positions) /\ UpA(x, y) = Sum(h, positions)
  <2>1. DOMAIN f = positions /\ DOMAIN h = positions
    OBVIOUS
  <2>2. DownA(x, y) = Engine!SumFunction(f) /\ UpA(x, y) = Engine!SumFunction(h)
    BY DEF DownA, UpA, Engine!TurnedA, Engine!Rounded, Floor, Ceil
  <2> HIDE DEF f, h
  <2>3. Engine!SumFunction(f) = Sum(f, positions) /\ Engine!SumFunction(h) = Sum(h, positions)
    BY <2>1 DEF Engine!SumFunction, Sum
  <2> QED BY <2>2, <2>3
<1>2. ASSUME NEW pos \in positions
      PROVE  /\ f[pos] \in Int /\ h[pos] \in Int /\ g[pos] \in Int
             /\ f[pos] * Common <= k * g[pos] /\ k * g[pos] <= h[pos] * Common
  <2> DEFINE lower == Engine!Within(x, pos)
             upper == Engine!Within(y, pos)
             l == 1000 * pos.liquidity
             w == l * (upper - lower) * Q
             b == lower * upper
             q == pos.liquidity * (Recip[lower] - Recip[upper])
  <2>1. pos \in [lower: Ticks, upper: Ticks, liquidity: Nat] /\ pos.lower < pos.upper
    BY DEF WellFormed
  <2>2. lower \in Prices /\ upper \in Prices /\ pos.liquidity \in Nat
    BY <2>1, WithinHolds
  <2>3. lower \in Nat \ {0} /\ upper \in Nat \ {0} /\ Recip[lower] \in Int /\ Recip[upper] \in Int
    BY <2>2, Measures, Reciprocals
  <2>4. f[pos] = Floor(Amount(pos), b) /\ h[pos] = Ceil(Amount(pos), b) /\ g[pos] = q
    BY DEF TurnOf
  <2> HIDE DEF lower, upper, f, g, h
  <2>5. Amount(pos) = w
    BY <1>0, <2>2, <2>3 DEF lower, upper
  <2>6. w \in Int /\ b \in Nat \ {0} /\ l \in Int /\ q \in Int /\ Q * (l * (Recip[lower] - Recip[upper])) = k * q
    BY <1>0, <2>2, <2>3
  <2>7. PICK r, s \in Int : r = f[pos] /\ r * b <= w /\ s = h[pos] /\ w <= s * b
    <3> HIDE DEF w, b
    <3>1. PICK r : r = Floor(w, b)
      OBVIOUS
    <3>2. PICK s : s = Ceil(w, b)
      OBVIOUS
    <3>3. r \in Int /\ r * b <= w /\ s \in Int /\ w <= s * b
      BY <2>6, <3>1, <3>2, RoundedDown, RoundedUp
    <3> QED BY <2>4, <2>5, <3>1, <3>2, <3>3
  <2>8. r * Common <= k * q /\ k * q <= s * Common
    <3>1. r * b <= l * (upper - lower) * Q /\ l * (upper - lower) * Q <= s * b /\ l \in Int
      BY <2>6, <2>7
    <3> HIDE DEF l, q
    <3>2. r * Common <= Q * (l * (Recip[lower] - Recip[upper]))
      BY <2>2, <2>7, <3>1, AmountsOfA
    <3>3. Q * (l * (Recip[lower] - Recip[upper])) <= s * Common
      BY <2>2, <2>7, <3>1, AmountsOfA
    <3> QED BY <2>6, <3>2, <3>3
  <2> HIDE DEF w, b, q
  <2> QED BY <2>4, <2>6, <2>7, <2>8
<1> HIDE DEF f, g, h
<1>3. /\ k \in Int /\ m \in Int /\ c \in Int /\ Common \in Int /\ 0 \in Int
      /\ \A n \in Int : m * n = -(k * n) /\ c * n = -(n * Common) /\ Common * n = n * Common
                        /\ k * n \in Int /\ n * Common \in Int /\ 0 * n = 0
  BY <1>0
<1> HIDE DEF k, m, c
<1>4. ASSUME NEW i \in Int, NEW j \in Int
      PROVE  /\ i * Common <= k * j <=> Common * i + m * j + 0 * i + 0 * i <= 0
             /\ k * i <= j * Common <=> k * i + c * j + 0 * j + 0 * j <= 0
  <2>1. PICK u, v \in Int : u = i * Common /\ v = k * j /\ Common * i = u /\ m * j = -v
    BY <1>3
  <2>2. PICK e1, e2 \in Int : e1 = k * i /\ e2 = j * Common /\ c * j = -e2
    BY <1>3
  <2>3. u <= v <=> u + -v + 0 + 0 <= 0
    OBVIOUS
  <2>4. e1 <= e2 <=> e1 + -e2 + 0 + 0 <= 0
    OBVIOUS
  <2>5. 0 * i = 0 /\ 0 * j = 0
    BY <1>3
  <2> QED BY <2>1, <2>2, <2>3, <2>4, <2>5
<1>5. \A p \in positions : /\ f[p] \in Int /\ g[p] \in Int
                           /\ Common * f[p] + m * g[p] + 0 * f[p] + 0 * f[p] <= 0
  BY <1>2, <1>4
<1>6. \A p \in positions : /\ h[p] \in Int /\ g[p] \in Int
                           /\ k * g[p] + c * h[p] + 0 * h[p] + 0 * h[p] <= 0
  BY <1>2, <1>4
<1>7. Sum(f, positions) \in Int /\ Sum(h, positions) \in Int /\ Sum(g, positions) \in Int
  BY <1>0, <1>2, SumIsInt
<1>8. Common * Sum(f, positions) + m * Sum(g, positions) + 0 * Sum(f, positions) + 0 * Sum(f, positions) <= 0
  BY <1>0, <1>3, <1>5, SumCompares
<1>9. k * Sum(g, positions) + c * Sum(h, positions) + 0 * Sum(h, positions) + 0 * Sum(h, positions) <= 0
  BY <1>0, <1>3, <1>6, SumCompares
<1>10. /\ Sum(f, positions) * Common <= k * Sum(g, positions)
       /\ k * Sum(g, positions) <= Sum(h, positions) * Common
  BY <1>4, <1>7, <1>8, <1>9
<1> QED BY <1>1, <1>7, <1>10 DEF g, k, Turned

\* The walk's side of the invariant is the property of the run.
LEMMA WalkedKeepsUp ==
  ASSUME WellFormed(positions), price \in Prices, origin \in Prices, paid \in Int, got \in Int,
         Walked
  PROVE  IF aToB THEN /\ got * Q <= Engine!TurnedB(price, origin)
                      /\ 1000 * paid >= Engine!TurnedA(price, origin, FALSE)
         ELSE /\ 1000 * got <= Engine!TurnedA(origin, price, TRUE)
              /\ paid * Q >= Engine!TurnedB(origin, price)
<1>1. /\ WellFormed(positions) /\ price \in Prices /\ origin \in Prices /\ Walked
      /\ paid \in Int /\ got \in Int /\ Q \in Nat \ {0} /\ Common \in Nat \ {0}
  BY EngineOK, CommonExists
<1>2. CASE aToB
  <2> DEFINE T == DownA(price, origin)
             b == Turned(Recip, origin, price)
  <2>1. T \in Int /\ T * Common <= 1000 * Q * b
    BY <1>1, TurnedAIsRecip
  <2>2. b \in Int
    BY <1>1, TurnIsInt, Measures
  <2>3. got * Q <= Turned(Plain, price, origin) /\ Q * b <= paid * Common
    BY <1>1, <1>2 DEF Walked
  <2>4. Engine!TurnedB(price, origin) = Turned(Plain, price, origin)
    BY <1>1, TurnedBIsPlain
  <2>5. Turned(Plain, price, origin) \in Int
    BY <1>1, TurnIsInt, Measures
  <2> HIDE DEF T, b
  <2>6. T * Common <= (1000 * paid) * Common
    <3>1. 1000 * Q * b = 1000 * (Q * b) /\ Q * b \in Int /\ paid * Common \in Int /\ T * Common \in Int
      BY <1>1, <2>1, <2>2
    <3>2. (1000 * paid) * Common = 1000 * (paid * Common)
      BY <1>1
    <3> QED BY <2>1, <2>3, <3>1, <3>2
  <2>7. T <= 1000 * paid
    <3>1. 1000 * paid \in Int
      BY <1>1
    <3> QED BY <1>1, <2>1, <2>6, <3>1, Unscaled
  <2>8. 1000 * paid >= T /\ got * Q <= Engine!TurnedB(price, origin)
    BY <1>1, <2>1, <2>3, <2>4, <2>7
  <2>9. 1000 * paid >= Engine!TurnedA(price, origin, FALSE)
    BY <2>8, Zenon DEF T, DownA
  <2> QED BY <1>2, <2>8, <2>9, Zenon
<1>3. CASE ~aToB
  <2> DEFINE T == UpA(origin, price)
             b == Turned(Recip, price, origin)
  <2>1. T \in Int /\ 1000 * Q * b <= T * Common
    BY <1>1, TurnedAIsRecip
  <2>2. b \in Int
    BY <1>1, TurnIsInt, Measures
  <2>3. got * Common <= Q * b /\ Turned(Plain, origin, price) <= paid * Q
    BY <1>1, <1>3 DEF Walked
  <2>4. Engine!TurnedB(origin, price) = Turned(Plain, origin, price)
    BY <1>1, TurnedBIsPlain
  <2>5. Turned(Plain, origin, price) \in Int
    BY <1>1, TurnIsInt, Measures
  <2> HIDE DEF T, b
  <2>6. (1000 * got) * Common <= T * Common
    <3>1. 1000 * Q * b = 1000 * (Q * b) /\ Q * b \in Int /\ got * Common \in Int /\ T * Common \in Int
      BY <1>1, <2>1, <2>2
    <3>2. (1000 * got) * Common = 1000 * (got * Common)
      BY <1>1
    <3> QED BY <2>1, <2>3, <3>1, <3>2
  <2>7. 1000 * got <= T
    <3>1. 1000 * got \in Int
      BY <1>1
    <3> QED BY <1>1, <2>1, <2>6, <3>1, Unscaled
  <2>8. Turned(Plain, origin, price) = Engine!TurnedB(origin, price) /\ paid * Q >= Turned(Plain, origin, price)
    <3>1. paid * Q \in Int
      BY <1>1
    <3> QED BY <2>3, <2>4, <2>5, <3>1
  <2>9. 1000 * got <= Engine!TurnedA(origin, price, TRUE)
    BY <2>7, Zenon DEF T, UpA
  <2>10. paid * Q >= Engine!TurnedB(origin, price)
    BY <2>8, Zenon
  <2> QED BY <1>3, <2>9, <2>10, Zenon
<1> QED BY <1>2, <1>3, Zenon

-----------------------------------------------------------------------------
(* The inductive invariant of the swap engine *)

\* A position as it was made, by the amount of one token or of the other.
Deposited ==
  /\ remaining = 0 /\ price \in Prices
  /\ \E lower, upper \in Ticks, amount \in Nat :
       /\ lower < upper
       /\ stake \in {[lower |-> lower, upper |-> upper, taken |-> taken] :
             taken \in {Engine!increaseLiquidityQuoteA(PriceOf[lower], PriceOf[upper], amount),
                        Engine!increaseLiquidityQuoteB(PriceOf[lower], PriceOf[upper], amount)}}

EngineInv ==
  /\ leg \in {"there", "back", "over", "deposit", "withdrawn"} /\ blind \in BOOLEAN
  /\ leg \in {"there", "back"} /\ ~blind => WalkInv
  /\ leg = "deposit" => Deposited
  /\ leg = "withdrawn" => /\ stake.back.A <= stake.taken.A
                          /\ stake.back.B <= stake.taken.B

\* The pool of a behaviour that another part moves: nobody holds a position.
AtRest ==
  /\ positions = {} /\ leg = "there" /\ ~blind
  /\ price \in Prices /\ origin = price /\ paid = 0 /\ got = 0

\* At its start a swap has turned nothing.
LEMMA NothingWalked ==
  ASSUME WellFormed(positions), price \in Prices, origin = price, paid = 0, got = 0
  PROVE  Walked
<1>1. Turned(Plain, price, price) = 0 /\ Turned(Recip, price, price) = 0
  BY TurnOfNothing, Measures
<1>2. Q \in Nat /\ Common \in Nat
  BY EngineOK, CommonExists
<1> QED BY <1>1, <1>2 DEF Walked

\* A pool as the model starts it: no end of a position lies between tick and price.
LEMMA PoolStarts ==
  ASSUME NEW ps, WellFormed(ps), Engine!PoolWith(ps)
  PROVE  /\ positions = ps /\ WellFormed(positions) /\ price \in Prices /\ tick \in Int
         /\ net = [t \in Ticks |-> Engine!NetOf(positions, t)] /\ InPlace
<1> DEFINE S == {t \in Ticks : PriceOf[t] <= price}
<1>1. /\ positions = ps /\ net = [t \in Ticks |-> Engine!NetOf(positions, t)]
      /\ price \in Prices /\ tick = Engine!Max(S)
      /\ liquidity = Engine!Liquidity(Active(tick))
      /\ price \in {PriceOf[t] : t \in Ticks} \union {PriceOf[t] + 1 : t \in Ticks}
  BY DEF Engine!PoolWith, Prices, Active
<1>2. price \in Nat /\ \A t \in Ticks : t \in Int /\ PriceOf[t] \in Nat
  BY <1>1, Measures, PricesRise
<1>3. PICK u \in Ticks : price = PriceOf[u] \/ price = PriceOf[u] + 1
  BY <1>1
<1>4. S # {} /\ S \subseteq Int /\ IsFiniteSet(S)
  <2>1. u \in S
    BY <1>2, <1>3
  <2>2. S \subseteq Ticks /\ Ticks \subseteq Int /\ IsFiniteSet(Ticks)
    BY EngineOK
  <2> QED BY <2>1, <2>2, FS_Subset
<1>5. tick \in S /\ \A t \in S : tick >= t
  BY <1>1, <1>4, MaxIsLast
<1>6. ASSUME NEW t \in Ticks
      PROVE  (t <= tick => PriceOf[t] <= price) /\ (t > tick => price <= PriceOf[t])
  <2>1. tick \in Ticks /\ PriceOf[tick] <= price
    BY <1>5
  <2>2. t <= tick => PriceOf[t] <= PriceOf[tick]
    BY <2>1, PricesRise
  <2>3. tick \in Int /\ t \in Int /\ PriceOf[t] \in Nat /\ PriceOf[tick] \in Nat
    BY <1>2, <2>1
  <2>4. ASSUME t > tick PROVE price <= PriceOf[t]
    <3>1. t \notin S
      BY <1>5, <2>3, <2>4
    <3> QED BY <1>2, <2>3, <3>1
  <2>5. ASSUME t <= tick PROVE PriceOf[t] <= price
    <3>1. PriceOf[t] <= PriceOf[tick]
      BY <2>2, <2>5
    <3> QED BY <1>2, <2>1, <2>3, <3>1
  <2> QED BY <2>4, <2>5
<1> HIDE DEF S
<1>7. InPlace
  BY <1>1, <1>6 DEF InPlace
<1>8. tick \in Int
  BY <1>2, <1>4, <1>5
<1> QED BY <1>1, <1>7, <1>8

\* A swap or a deposit starts in the invariant.
LEMMA EngineStarts ==
  ASSUME Engine!Init
  PROVE  EngineInv
<1>1. PICK ps \in (IF leg = "there" THEN Positions ELSE {{}}) : Engine!PoolWith(ps)
  BY DEF Engine!Init
<1>2. WellFormed(ps)
  <2>1. CASE leg = "there"
    BY <1>1, <2>1, EngineOK DEF WellFormed
  <2>2. CASE leg # "there"
    BY <1>1, <2>2, FS_EmptySet DEF WellFormed
  <2> QED BY <2>1, <2>2
<1>3. /\ WellFormed(positions) /\ price \in Prices /\ tick \in Int /\ InPlace
      /\ net = [t \in Ticks |-> Engine!NetOf(positions, t)]
  BY <1>1, <1>2, PoolStarts
<1>4. /\ blind = FALSE /\ paid = 0 /\ got = 0 /\ leg \in {"there", "deposit"}
      /\ from = tick /\ origin = price /\ remaining = given
  BY DEF Engine!Init
<1>5. Walked
  BY <1>3, <1>4, NothingWalked
<1>6. CASE leg = "there"
  <2>1. fee \in Fees /\ aToB \in BOOLEAN /\ given \in Amounts
    BY <1>6 DEF Engine!Init
  <2>2. fee \in 0 .. FeeUnits /\ given \in Nat
    BY <2>1, EngineOK
  <2>3. PoolTypes
    BY <1>3, <1>4, <2>1, <2>2 DEF PoolTypes
  <2> QED BY <1>3, <1>4, <1>5, <1>6, <2>3 DEF EngineInv, WalkInv
<1>7. CASE leg = "deposit"
  <2>1. /\ given = 0
        /\ \E lower, upper \in Ticks, amount \in Amounts :
             /\ lower < upper
             /\ stake \in {[lower |-> lower, upper |-> upper, taken |-> taken] :
                   taken \in {Engine!increaseLiquidityQuoteA(PriceOf[lower], PriceOf[upper], amount),
                              Engine!increaseLiquidityQuoteB(PriceOf[lower], PriceOf[upper], amount)}}
    BY <1>7 DEF Engine!Init
  <2>2. Amounts \subseteq Nat
    BY EngineOK
  <2>3. Deposited
    BY <1>3, <1>4, <2>1, <2>2, Zenon DEF Deposited
  <2> QED BY <1>4, <1>7, <2>3 DEF EngineInv
<1> QED BY <1>4, <1>6, <1>7

\* What stands still is measured as before.
LEMMA PoolStands ==
  ASSUME UNCHANGED <<positions, net, fee, price, tick, liquidity>>
  PROVE  InPlace => InPlace'
BY DEF InPlace, Active, Engine!Initialized, Engine!Liquidity

\* A deposit that is left alone is as it was made.
LEMMA DepositStands ==
  ASSUME UNCHANGED <<price, remaining, stake>>, Deposited
  PROVE  Deposited'
<1> DEFINE A(x, y, n) == Engine!increaseLiquidityQuoteA(x, y, n)
           B(x, y, n) == Engine!increaseLiquidityQuoteB(x, y, n)
<1>1. ASSUME NEW x, NEW y, NEW n
      PROVE  A(x, y, n)' = A(x, y, n) /\ B(x, y, n)' = B(x, y, n)
  BY DEF Engine!increaseLiquidityQuoteA, Engine!increaseLiquidityQuoteB
<1>2. PICK lower \in Ticks, upper \in Ticks, amount \in Nat :
        /\ lower < upper
        /\ stake \in {[lower |-> lower, upper |-> upper, taken |-> taken] :
              taken \in {A(PriceOf[lower], PriceOf[upper], amount),
                         B(PriceOf[lower], PriceOf[upper], amount)}}
  BY Zenon DEF Deposited
<1>3. stake' \in {[lower |-> lower, upper |-> upper, taken |-> taken] :
        taken \in {A(PriceOf[lower], PriceOf[upper], amount)',
                   B(PriceOf[lower], PriceOf[upper], amount)'}}
  BY <1>1, <1>2
<1>4. remaining' = 0 /\ price' \in Prices
  BY DEF Deposited
<1> QED BY <1>2, <1>3, <1>4, Zenon DEF Deposited

\* The walk when nothing of it moves.
LEMMA WalkStands ==
  ASSUME UNCHANGED poolVars, WalkInv
  PROVE  WalkInv'
<1>1. UNCHANGED <<positions, net, fee, price, tick, liquidity, aToB, remaining, paid, got, from, origin>>
  BY DEF poolVars
<1>2. PoolTypes'
  BY <1>1 DEF WalkInv, PoolTypes, WellFormed, Engine!NetOf, Engine!Liquidity
<1>3. InPlace'
  BY <1>1, PoolStands DEF WalkInv
<1>4. Walked'
  BY <1>1 DEF WalkInv, Walked, Turned, TurnOf
<1> QED BY <1>2, <1>3, <1>4 DEF WalkInv

\* What the swap has brought is swapped back, from where it left the pool.
LEMMA TurnKeeps ==
  ASSUME WalkInv, Engine!Turn
  PROVE  WalkInv'
<1>1. /\ UNCHANGED <<positions, net, fee, price, tick, liquidity>>
      /\ aToB' = ~aToB /\ from' = tick /\ origin' = price
      /\ remaining' = got /\ paid' = 0 /\ got' = 0
  BY DEF Engine!Turn, Engine!Quote, Engine!pool
<1>2. PoolTypes /\ InPlace
  BY DEF WalkInv
<1>3. PoolTypes'
  BY <1>1, <1>2 DEF PoolTypes, WellFormed, Engine!NetOf, Engine!Liquidity
<1>4. InPlace'
  BY <1>1, <1>2, PoolStands
<1>5. /\ WellFormed(positions)' /\ (price \in Prices)' /\ (origin = price)'
      /\ (paid = 0)' /\ (got = 0)'
  BY <1>1, <1>3 DEF PoolTypes
<1>6. Walked'
  BY <1>5, NothingWalked, PTL
<1> QED BY <1>3, <1>4, <1>6 DEF WalkInv

\* A position is withdrawn where it was made.
LEMMA WithdrawKeeps ==
  ASSUME EngineInv, Engine!Withdraw
  PROVE  EngineInv'
<1>1. leg = "deposit" /\ Deposited /\ leg' = "withdrawn" /\ blind' = blind /\ blind \in BOOLEAN
  BY DEF EngineInv, Engine!Withdraw
<1>2. PICK lower \in Ticks, upper \in Ticks, amount \in Nat :
        /\ lower < upper
        /\ stake \in {[lower |-> lower, upper |-> upper, taken |-> taken] :
              taken \in {Engine!increaseLiquidityQuoteA(PriceOf[lower], PriceOf[upper], amount),
                         Engine!increaseLiquidityQuoteB(PriceOf[lower], PriceOf[upper], amount)}}
  BY <1>1, Zenon DEF Deposited
<1>3. /\ stake.lower = lower /\ stake.upper = upper
      /\ \/ stake.taken = Engine!increaseLiquidityQuoteA(PriceOf[lower], PriceOf[upper], amount)
         \/ stake.taken = Engine!increaseLiquidityQuoteB(PriceOf[lower], PriceOf[upper], amount)
  BY <1>2
<1> DEFINE taken == stake.taken
           back == Engine!decreaseLiquidityQuote(PriceOf[lower], PriceOf[upper], taken.liquidity)
<1>4. stake' = [taken |-> taken, back |-> back]
  BY <1>3 DEF Engine!Withdraw
<1>5. /\ price \in Prices /\ PriceOf[lower] \in Prices /\ PriceOf[upper] \in Prices
      /\ PriceOf[lower] < PriceOf[upper]
  BY <1>1, <1>2, PricesRise DEF Deposited
<1>6. back.A <= taken.A /\ back.B <= taken.B
  BY <1>3, <1>5, GivesBackNoMore
<1>7. stake'.taken = taken /\ stake'.back = back
  BY <1>4
<1> HIDE DEF taken, back
<1> QED BY <1>1, <1>6, <1>7 DEF EngineInv

\* Every turn of a walk, every swap back and every withdrawal keeps the invariant of the
\* swap engine (computeSwap, decreaseLiquidityQuote).
THEOREM EngineInductive ==
  ASSUME EngineInv, [Engine!Next]_poolVars
  PROVE  EngineInv'
<1>1. CASE UNCHANGED poolVars
  <2>1. UNCHANGED <<leg, blind, stake, price, remaining>>
    BY <1>1 DEF poolVars
  <2> QED BY <1>1, <2>1, WalkStands, DepositStands DEF EngineInv
<1>2. CASE Engine!Walk
  <2>1. UNCHANGED <<leg, stake>> /\ remaining > 0
    BY <1>2 DEF Engine!Walk
  <2>2. blind \in BOOLEAN /\ blind' \in BOOLEAN /\ (blind => blind')
    BY <1>2 DEF EngineInv, Engine!Walk
  <2>3. leg # "deposit"
    BY <2>1 DEF EngineInv, Deposited
  <2>4. leg \in {"there", "back"} /\ ~blind' => WalkInv'
    BY <1>2, <2>2, WalkKeeps DEF EngineInv
  <2> QED BY <2>1, <2>2, <2>3, <2>4 DEF EngineInv
<1>3. CASE Engine!Turn
  <2>1. leg = "there" /\ leg' = "back" /\ blind' = blind
    BY <1>3 DEF Engine!Turn
  <2>2. ~blind => WalkInv'
    BY <1>3, <2>1, TurnKeeps DEF EngineInv
  <2> QED BY <2>1, <2>2 DEF EngineInv
<1>4. CASE Engine!Finish
  <2>1. leg' = "over" /\ blind' = blind
    BY <1>4 DEF Engine!Finish
  <2> QED BY <2>1 DEF EngineInv
<1> QED BY <1>1, <1>2, <1>3, <1>4, WithdrawKeeps DEF Engine!Next

\* However many ticks a swap crosses, there and back, it brings no more than the
\* pool has for the move of its price and takes no less; a position withdrawn
\* gives back no more than it took.
THEOREM PoolsKeepUp == MCSpec => []PoolKeepsUp
<1> DEFINE Inv == IF part = "engine" THEN EngineInv ELSE AtRest
<1>1. MCInit => Inv
  <2> SUFFICES ASSUME MCInit PROVE Inv
    OBVIOUS
  <2>1. CASE part = "engine"
    BY <2>1, EngineStarts DEF MCInit
  <2>2. CASE part # "engine"
    <3>1. Idle!Init /\ leg = "there"
      BY <2>2 DEF MCInit
    <3>2. positions = {} /\ blind = FALSE /\ paid = 0 /\ got = 0 /\ origin = price
      BY <3>1 DEF Idle!Init, Idle!PoolWith
    <3>3. price \in Prices
      BY <3>1 DEF Idle!Init, Idle!PoolWith, Prices
    <3> QED BY <2>2, <3>1, <3>2, <3>3 DEF AtRest
  <2> QED BY <2>1, <2>2
<1>2. Inv /\ [MCNext]_<<vars, readyVars, swapVars, poolVars, part>> => Inv'
  <2> SUFFICES ASSUME Inv, [MCNext]_<<vars, readyVars, swapVars, poolVars, part>> PROVE Inv'
    OBVIOUS
  <2>1. part' = part /\ [Engine!Next]_poolVars /\ (part # "engine" => UNCHANGED poolVars)
    BY DEF MCNext
  <2>2. UNCHANGED poolVars => UNCHANGED <<positions, leg, blind, price, origin, paid, got>>
    BY DEF poolVars
  <2>3. part # "engine" => AtRest'
    BY <2>1, <2>2 DEF AtRest
  <2> QED BY <2>1, <2>3, EngineInductive
<1>3. Inv => PoolKeepsUp
  <2> SUFFICES ASSUME Inv PROVE PoolKeepsUp
    OBVIOUS
  <2>1. ASSUME Walked, WellFormed(positions), price \in Prices, origin \in Prices,
               paid \in Int, got \in Int
        PROVE  IF aToB THEN /\ got * Q <= Engine!TurnedB(price, origin)
                            /\ 1000 * paid >= Engine!TurnedA(price, origin, FALSE)
               ELSE /\ 1000 * got <= Engine!TurnedA(origin, price, TRUE)
                    /\ paid * Q >= Engine!TurnedB(origin, price)
    BY <2>1, WalkedKeepsUp, Zenon
  <2>2. CASE part = "engine"
    <3>1. EngineInv
      BY <2>2
    <3>2. WalkInv => /\ Walked /\ WellFormed(positions) /\ price \in Prices /\ origin \in Prices
                     /\ paid \in Int /\ got \in Int
      BY DEF WalkInv, PoolTypes
    <3> QED BY <2>1, <3>1, <3>2, Zenon DEF EngineInv, PoolKeepsUp, Engine!PoolKeepsUp
  <2>3. CASE part # "engine"
    <3>1. AtRest
      BY <2>3
    <3>2. WellFormed(positions)
      BY <3>1, FS_EmptySet DEF AtRest, WellFormed
    <3>3. Walked /\ price \in Prices /\ origin \in Prices /\ paid \in Int /\ got \in Int
      BY <3>1, <3>2, NothingWalked DEF AtRest
    <3>4. leg # "withdrawn"
      BY <3>1 DEF AtRest
    <3> QED BY <2>1, <3>2, <3>3, <3>4, Zenon DEF PoolKeepsUp, Engine!PoolKeepsUp
  <2> QED BY <2>2, <2>3
<1> QED BY <1>1, <1>2, <1>3, PTL DEF MCSpec
=============================================================================
