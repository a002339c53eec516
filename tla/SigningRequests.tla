-------------------------- MODULE SigningRequests --------------------------
(***************************************************************************)
(* Signing requests of the wallet hub: rows of the table signing_requests, *)
(* the handlers of POST /signing-requests, POST /signing-requests/:id/submit*)
(* and GET /signing-requests/:id (routes/signingRequests.ts), and the Arch *)
(* node they talk to.                                                      *)
(*                                                                         *)
(* A handler takes one step per database transaction or remote call; any   *)
(* other handler may run between two steps.  A handler may be lost at any  *)
(* step (process killed, database error, exception): the row keeps what it *)
(* committed.                                                              *)
(***************************************************************************)
EXTENDS Naturals, Sequences

CONSTANTS Requests,    \* signing request ids
          Messages,    \* those whose action is arch.sign_message
          Submitters,  \* calls of POST .../submit
          Readers      \* clients that poll GET, one call after the other

ASSUME MessagesAssumption == Messages \subseteq Requests
ASSUME CallsAssumption == Submitters \cap Readers = {}

VARIABLES
  status,   \* status column
  result,   \* result_json: what it holds
  error,    \* error_json: where the failure came from
  expired,  \* expires_at lies in the past
  audit,    \* outcome events of the row in the audit log, in order
  node,     \* the Arch node: fate of the row's transaction
  sends,    \* number of times the node was handed the row's transaction
  pc,       \* the next step of each call
  target,   \* the request a call works on
  answer,   \* the node's answer a call holds
  reply     \* what a submit call returned to its client

row == <<status, result, error>>
chain == <<node, sends>>
calls == <<pc, target, answer, reply>>
vars == <<status, result, error, expired, audit, node, sends, pc, target, answer, reply>>

Calls == Submitters \cup Readers

Statuses == {"absent", "pending", "submitted", "succeeded", "failed"}
Results  == {"none", "txid", "settled", "reconciled", "signature"}
Errors   == {"none", "broadcast", "verdict"}
Fates    == {"none", "queued", "processed", "failed"}
Verdicts == {"processed", "failed"}
Answers  == Verdicts \cup {"none"}
SubmitPcs == {"start", "verify", "claim", "broadcast", "throw", "record", "poll", "settle", "end"}
ReadPcs   == {"get", "getPoll", "getMark"}
Replies  == {"none", "notFound", "forbidden", "conflict", "gone", "rejected",
             "error", "lost", "submitted", "succeeded", "failed"}

TypeOK == /\ status  \in [Requests -> Statuses]
          /\ result  \in [Requests -> Results]
          /\ error   \in [Requests -> Errors]
          /\ expired \in [Requests -> BOOLEAN]
          /\ audit   \in [Requests -> Seq({"created", "succeeded", "failed"})]
          /\ node    \in [Requests -> Fates]
          /\ sends   \in [Requests -> Nat]
          /\ pc      \in [Calls -> SubmitPcs \cup ReadPcs]
          /\ target  \in [Calls -> Requests \cup {"none"}]
          /\ answer  \in [Calls -> Answers]
          /\ reply   \in [Submitters -> Replies]

Init == /\ status  = [r \in Requests |-> "absent"]
        /\ result  = [r \in Requests |-> "none"]
        /\ error   = [r \in Requests |-> "none"]
        /\ expired = [r \in Requests |-> FALSE]
        /\ audit   = [r \in Requests |-> <<>>]
        /\ node    = [r \in Requests |-> "none"]
        /\ sends   = [r \in Requests |-> 0]
        /\ pc      = [c \in Calls |-> IF c \in Submitters THEN "start" ELSE "get"]
        /\ target  = [c \in Calls |-> "none"]
        /\ answer  = [c \in Calls |-> "none"]
        /\ reply   = [c \in Submitters |-> "none"]

Return(c, what) == /\ pc' = [pc EXCEPT ![c] = "end"]
                   /\ reply' = [reply EXCEPT ![c] = what]

Goto(c, step) == /\ pc' = [pc EXCEPT ![c] = step]
                 /\ UNCHANGED reply

-----------------------------------------------------------------------------
(* Creation, time and the node *)

\* POST /signing-requests: the row and its audit event, in one transaction.
Create(r) == /\ status[r] = "absent"
             /\ status' = [status EXCEPT ![r] = "pending"]
             /\ audit' = [audit EXCEPT ![r] = Append(@, "created")]
             /\ UNCHANGED <<result, error, expired, chain, calls>>

\* The ten minutes of expires_at have passed.
Expire(r) == /\ status[r] # "absent"
             /\ ~expired[r]
             /\ expired' = [expired EXCEPT ![r] = TRUE]
             /\ UNCHANGED <<row, audit, chain, calls>>

\* The node executes a queued transaction.  It may also drop it: no step.
NodeDecide(r, v) == /\ node[r] = "queued"
                    /\ node' = [node EXCEPT ![r] = v]
                    /\ UNCHANGED <<row, expired, audit, sends, calls>>

\* Mutated forms of PolledAnswers: a queued transaction passes for processed,
\* the deadline passes for a failure, the node's status is handed on unread.
PolledQueuedIsProcessed(r) == IF node[r] = "queued" THEN {"none", "processed"} ELSE {"none", node[r]}
PolledTimeoutIsFailed(r) == {"none", "failed"} \cup (Verdicts \cap {node[r]})
PolledRawStatus(r) == {"none", node[r]}

\* What waitForProcessedTransaction returns: the node's answer, or nothing
\* when the polls failed until the deadline or the node is still at work.
PolledAnswers(r) == {"none"} \cup (Verdicts \cap {node[r]})

-----------------------------------------------------------------------------
(* POST /signing-requests/:id/submit *)

\* The lookup and the checks on the row it returned.
SubmitRead(c, r) ==
  /\ pc[c] = "start"
  /\ target' = [target EXCEPT ![c] = r]
  /\ \/ status[r] = "absent" /\ Return(c, "notFound")
     \/ status[r] # "absent" /\ Return(c, "forbidden")   \* the row of another user
     \/ status[r] \notin {"absent", "pending"} /\ Return(c, "conflict")
     \/ status[r] = "pending" /\ expired[r] /\ Return(c, "gone")
     \/ status[r] = "pending" /\ ~expired[r] /\ Goto(c, "verify")
  /\ UNCHANGED <<row, expired, audit, chain, answer>>

\* Readiness (a remote call), the rebuilt message and the signature.
Verify(c) == /\ pc[c] = "verify"
             /\ \/ Goto(c, "claim")
                \/ Return(c, "rejected")
             /\ UNCHANGED <<row, expired, audit, chain, target, answer>>

\* Mutated form: the UPDATE lost its AND status = 'pending'.
ClaimableById(r) == status[r] # "absent"

\* markSigningRequestSubmitted: WHERE id = $1 AND status = 'pending'.
Claimable(r) == status[r] = "pending"

ClaimLost(c) == /\ pc[c] = "claim"
                /\ ~Claimable(target[c])
                /\ Return(c, "conflict")
                /\ UNCHANGED <<row, expired, audit, chain, target, answer>>

\* arch.sign_message: claim, success and audit event in one transaction.
ClaimMessage(c) ==
  LET r == target[c] IN
  /\ pc[c] = "claim"
  /\ r \in Messages
  /\ Claimable(r)
  /\ status' = [status EXCEPT ![r] = "succeeded"]
  /\ result' = [result EXCEPT ![r] = "signature"]
  /\ audit' = [audit EXCEPT ![r] = Append(@, "succeeded")]
  /\ Return(c, "succeeded")
  /\ UNCHANGED <<error, expired, chain, target, answer>>

\* A transfer is claimed before it is broadcast.
ClaimTransfer(c) ==
  LET r == target[c] IN
  /\ pc[c] = "claim"
  /\ r \notin Messages
  /\ Claimable(r)
  /\ status' = [status EXCEPT ![r] = "submitted"]
  /\ Goto(c, "broadcast")
  /\ UNCHANGED <<result, error, expired, audit, chain, target, answer>>

NodeTakes(r) == /\ sends' = [sends EXCEPT ![r] = @ + 1]
                /\ node' = [node EXCEPT ![r] = IF @ = "none" THEN "queued" ELSE @]

\* submitArchTransaction: the node may take the transaction or refuse it,
\* and its answer may be lost on the way back.
Broadcast(c) == /\ pc[c] = "broadcast"
                /\ \/ NodeTakes(target[c]) /\ Goto(c, "record")
                   \/ NodeTakes(target[c]) /\ Goto(c, "throw")
                   \/ UNCHANGED chain /\ Goto(c, "throw")
                /\ UNCHANGED <<row, expired, audit, target, answer>>

\* The catch clause: status failed, error_json.phase = 'broadcast', rethrow.
MarkBroadcastFailed(c) ==
  LET r == target[c] IN
  /\ pc[c] = "throw"
  /\ status' = [status EXCEPT ![r] = "failed"]
  /\ error' = [error EXCEPT ![r] = "broadcast"]
  /\ Return(c, "error")
  /\ UNCHANGED <<result, expired, audit, chain, target, answer>>

\* Mutated form: the transaction id is not written down.
RecordTxidForgotten(c) == /\ pc[c] = "record"
                          /\ Goto(c, "poll")
                          /\ UNCHANGED <<row, expired, audit, chain, target, answer>>

RecordTxid(c) == /\ pc[c] = "record"
                 /\ result' = [result EXCEPT ![target[c]] = "txid"]
                 /\ Goto(c, "poll")
                 /\ UNCHANGED <<status, error, expired, audit, chain, target, answer>>

\* Wait for the verdict; without one the call answers "submitted".
Poll(c) == /\ pc[c] = "poll"
           /\ \E a \in PolledAnswers(target[c]) :
                 /\ answer' = [answer EXCEPT ![c] = a]
                 /\ IF a = "none" THEN Return(c, "submitted") ELSE Goto(c, "settle")
           /\ UNCHANGED <<row, expired, audit, chain, target>>

\* markSigningRequestSucceeded / Failed: by id, whatever the status is by now.
SucceedRow(r, found) == /\ status' = [status EXCEPT ![r] = "succeeded"]
                        /\ result' = [result EXCEPT ![r] = found]
                        /\ UNCHANGED error

FailRow(r) == /\ status' = [status EXCEPT ![r] = "failed"]
              /\ error' = [error EXCEPT ![r] = "verdict"]
              /\ UNCHANGED result

\* The verdict and its audit event are written in one transaction.
Settle(c) ==
  LET r == target[c] IN
  /\ pc[c] = "settle"
  /\ \/ /\ answer[c] = "processed"
        /\ SucceedRow(r, "settled")
        /\ audit' = [audit EXCEPT ![r] = Append(@, "succeeded")]
        /\ Return(c, "succeeded")
     \/ /\ answer[c] = "failed"
        /\ FailRow(r)
        /\ audit' = [audit EXCEPT ![r] = Append(@, "failed")]
        /\ Return(c, "failed")
  /\ UNCHANGED <<expired, chain, target, answer>>

\* The call is lost between two of its steps.
Die(c) == /\ pc[c] \notin {"start", "end"}
          /\ Return(c, "lost")
          /\ UNCHANGED <<row, expired, audit, chain, target, answer>>

-----------------------------------------------------------------------------
(* GET /signing-requests/:id *)

\* Mutated form: rows past their expiry are no longer reconciled.
ReconcilableUnexpired(r) == status[r] = "submitted" /\ result[r] = "txid" /\ ~expired[r]

\* A submitted row with a transaction id is worth asking the node about.
Reconcilable(r) == status[r] = "submitted" /\ result[r] = "txid"

GetRead(d, r) == /\ pc[d] = "get"
                 /\ Reconcilable(r)
                 /\ target' = [target EXCEPT ![d] = r]
                 /\ Goto(d, "getPoll")
                 /\ UNCHANGED <<row, expired, audit, chain, answer>>

\* Without a verdict, or when the handler is lost, the next GET starts over.
GetPoll(d) == /\ pc[d] = "getPoll"
              /\ \E a \in PolledAnswers(target[d]) :
                    /\ answer' = [answer EXCEPT ![d] = a]
                    /\ Goto(d, IF a = "none" THEN "get" ELSE "getMark")
              /\ UNCHANGED <<row, expired, audit, chain, target>>

\* Mutated form: the reconciliation writes the outcome event as well.
GetMarkAudited(d) == /\ pc[d] = "getMark"
                     /\ \/ answer[d] = "processed" /\ SucceedRow(target[d], "reconciled")
                        \/ answer[d] = "failed" /\ FailRow(target[d])
                     /\ audit' = [audit EXCEPT ![target[d]] = Append(@, status'[target[d]])]
                     /\ Goto(d, "get")
                     /\ UNCHANGED <<expired, chain, target, answer>>

\* The row as it was read, plus the node's answer; no audit event.
GetMark(d) == /\ pc[d] = "getMark"
              /\ \/ answer[d] = "processed" /\ SucceedRow(target[d], "reconciled")
                 \/ answer[d] = "failed" /\ FailRow(target[d])
              /\ Goto(d, "get")
              /\ UNCHANGED <<expired, audit, chain, target, answer>>

\* Errors of the reconciliation are swallowed.
GetDie(d) == /\ pc[d] \in {"getPoll", "getMark"}
             /\ Goto(d, "get")
             /\ UNCHANGED <<row, expired, audit, chain, target, answer>>

-----------------------------------------------------------------------------
SubmitStep(c) ==
  \/ \E r \in Requests : SubmitRead(c, r)
  \/ Verify(c) \/ ClaimLost(c) \/ ClaimMessage(c) \/ ClaimTransfer(c)
  \/ Broadcast(c) \/ MarkBroadcastFailed(c) \/ RecordTxid(c)
  \/ Poll(c) \/ Settle(c) \/ Die(c)

GetStep(d) == \/ \E r \in Requests : GetRead(d, r)
              \/ GetPoll(d) \/ GetMark(d) \/ GetDie(d)

Environment == \E r \in Requests : \/ Create(r) \/ Expire(r)
                                   \/ \E v \in Verdicts : NodeDecide(r, v)

Next == \/ Environment
        \/ \E c \in Submitters : SubmitStep(c)
        \/ \E d \in Readers : GetStep(d)

\* Some client keeps polling every submitted request, and the node answers
\* and the database commits now and then.  Submit calls, users, expiry and
\* the node's decision are not fair.
Fairness ==
  \A d \in Readers :
     /\ \A r \in Requests : SF_vars(GetRead(d, r))
     /\ SF_vars(GetPoll(d) /\ answer'[d] # "none")
     /\ SF_vars(GetMark(d))

Spec == Init /\ [][Next]_vars
FairSpec == Spec /\ Fairness

-----------------------------------------------------------------------------
(* Properties *)

Settled(r) == status[r] \in {"succeeded", "failed"}

\* However many submit calls race, retry or die, the node is handed the
\* transaction of a request at most once (the claim before the broadcast).
AtMostOneBroadcast == \A r \in Requests : sends[r] <= 1

\* A transfer is called succeeded, or failed by verdict, only when the node
\* decided so; one called failed at the broadcast never had a transaction id.
ReportedAsDecided ==
  \A r \in Requests \ Messages :
     /\ status[r] = "succeeded" => node[r] = "processed"
     /\ error[r] = "verdict" => node[r] = "failed"
     /\ error[r] = "broadcast" => result[r] = "none"

\* The outcome of a request, once written, is never written differently,
\* although the submit call and any number of GETs mark the row by id alone.
OutcomeIsFinal == [][\A r \in Requests : Settled(r) => status'[r] = status[r]]_vars

\* The log holds the creation first and at most one outcome, the row's own.
AuditTellsOutcome ==
  \A r \in Requests :
     /\ Len(audit[r]) <= 2
     /\ Len(audit[r]) = 0 <=> status[r] = "absent"
     /\ Len(audit[r]) >= 1 => audit[r][1] = "created"
     /\ Len(audit[r]) = 2 => Settled(r) /\ audit[r][2] = status[r]

\* What a submit call told its client stays true of the row: an outcome is
\* the row's, "submitted" can be polled, and a conflict is not retryable.
RepliesHold ==
  \A c \in Submitters :
     LET r == target[c] IN
     /\ reply[c] \in {"succeeded", "failed"} => status[r] = reply[c]
     /\ reply[c] = "submitted" => result[r] # "none"
     /\ reply[c] = "conflict" => status[r] \notin {"absent", "pending"}

\* As long as some client polls, a verdict on a transaction whose id the hub
\* holds reaches the row, even when the submit call died.
VerdictReachesRow ==
  \A r \in Requests : (result[r] = "txid" /\ node[r] \in Verdicts) ~> Settled(r)

PhaseOf == [absent |-> "unborn", pending |-> "open", submitted |-> "spent",
            succeeded |-> "done", failed |-> "failed"]

\* The rows, seen without the calls, are signing intents.
Intent == INSTANCE SigningIntent WITH
            phase <- [r \in Requests |-> PhaseOf[status[r]]],
            sent  <- {r \in Requests : sends[r] > 0},
            acked <- {r \in Requests : result[r] \notin {"none", "signature"}},
            chain <- node

\* Every behaviour of the handlers is one the intent allows, its fairness
\* included: claim before send, one send, conclusion by the chain's verdict.
ImplementsIntent == Intent!Spec

-----------------------------------------------------------------------------
(* The inductive invariant behind the properties above *)

\* A call between winning the claim of a transfer and its last write.
Owning == {"broadcast", "throw", "record", "poll", "settle"}
Owner(c) == c \in Submitters /\ pc[c] \in Owning

CallsFit == /\ \A c \in Submitters :
                  /\ pc[c] \in SubmitPcs
                  /\ pc[c] # "start" => target[c] \in Requests
                  /\ pc[c] \in {"verify", "claim"} => status[target[c]] # "absent"
                  /\ reply[c] # "none" => pc[c] = "end"
            /\ \A d \in Readers :
                  /\ pc[d] \in ReadPcs
                  /\ pc[d] # "get" => target[d] \in Requests

OneOwner == \A c, d \in Submitters :
               Owner(c) /\ Owner(d) /\ target[c] = target[d] => c = d

\* What the row and the node look like while a call owns the request.
OwnersFit ==
  \A c \in Submitters : Owner(c) =>
     LET r == target[c] IN
     /\ r \notin Messages
     /\ status[r] \notin {"absent", "pending"}
     /\ pc[c] \in {"broadcast", "throw", "record"} => status[r] = "submitted" /\ result[r] = "none"
     /\ pc[c] = "broadcast" => sends[r] = 0
     /\ pc[c] = "record" => sends[r] = 1
     /\ pc[c] \in {"poll", "settle"} => result[r] # "none"
     /\ pc[c] = "settle" => answer[c] = node[r] /\ node[r] \in Verdicts
     /\ Len(audit[r]) = 1

ReadersFit ==
  \A d \in Readers : pc[d] \in {"getPoll", "getMark"} =>
     LET r == target[d] IN
     /\ r \notin Messages
     /\ result[r] # "none"
     /\ pc[d] = "getMark" => answer[d] = node[r] /\ node[r] \in Verdicts

\* What a row says of its transaction, and the log of the row.
TransfersFit ==
  \A r \in Requests \ Messages :
     /\ sends[r] <= 1
     /\ (sends[r] = 0) <=> (node[r] = "none")
     /\ status[r] \in {"absent", "pending"} => sends[r] = 0 /\ result[r] = "none"
     /\ result[r] # "signature"
     /\ result[r] # "none" => sends[r] = 1
     /\ status[r] = "succeeded" => result[r] # "none" /\ node[r] = "processed"
     /\ status[r] = "failed" => error[r] # "none"
     /\ error[r] = "broadcast" => status[r] = "failed" /\ result[r] = "none"
     /\ error[r] = "verdict" => status[r] = "failed" /\ result[r] # "none" /\ node[r] = "failed"

MessagesFit ==
  \A r \in Messages : /\ status[r] \in {"absent", "pending", "succeeded"}
                      /\ sends[r] = 0 /\ node[r] = "none" /\ error[r] = "none"
                      /\ result[r] \in {"none", "signature"}

IInv == /\ TypeOK /\ CallsFit /\ OneOwner /\ OwnersFit /\ ReadersFit
        /\ TransfersFit /\ MessagesFit /\ AuditTellsOutcome /\ RepliesHold
=============================================================================
