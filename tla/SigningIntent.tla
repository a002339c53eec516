--------------------------- MODULE SigningIntent ---------------------------
(***************************************************************************)
(* What the hub promises of a signing request, without the calls that      *)
(* bring it about.  A request is opened once.  A message request is        *)
(* attested in one step.  A transfer is spent once, sent to the chain at   *)
(* most once and only after it was spent, and concluded by what the chain  *)
(* decided once the hub knows the transaction id.  A hub that never learnt *)
(* the id may give up.                                                     *)
(***************************************************************************)
CONSTANTS Requests, Messages  \* those of Requests that only sign a message

VARIABLES phase,    \* where the request stands for its user
          sent,     \* requests whose transaction was handed to the chain
          acked,    \* requests whose transaction id the hub holds
          chain     \* what the chain made of the transaction

vars == <<phase, sent, acked, chain>>

Phases == {"unborn", "open", "spent", "done", "failed"}
Verdicts == {"processed", "failed"}

Init == /\ phase = [r \in Requests |-> "unborn"]
        /\ sent  = {}
        /\ acked = {}
        /\ chain = [r \in Requests |-> "none"]

Open(r) == /\ phase[r] = "unborn"
           /\ phase' = [phase EXCEPT ![r] = "open"]
           /\ UNCHANGED <<sent, acked, chain>>

Attest(r) == /\ r \in Messages
             /\ phase[r] = "open"
             /\ phase' = [phase EXCEPT ![r] = "done"]
             /\ UNCHANGED <<sent, acked, chain>>

Spend(r) == /\ r \notin Messages
            /\ phase[r] = "open"
            /\ phase' = [phase EXCEPT ![r] = "spent"]
            /\ UNCHANGED <<sent, acked, chain>>

Send(r) == /\ phase[r] = "spent"
           /\ r \notin sent
           /\ sent'  = sent \cup {r}
           /\ chain' = [chain EXCEPT ![r] = "queued"]
           /\ UNCHANGED <<phase, acked>>

Acknowledge(r) == /\ phase[r] = "spent"
                  /\ r \in sent
                  /\ acked' = acked \cup {r}
                  /\ UNCHANGED <<phase, sent, chain>>

Decide(r, v) == /\ chain[r] = "queued"
                /\ chain' = [chain EXCEPT ![r] = v]
                /\ UNCHANGED <<phase, sent, acked>>

Conclude(r) == /\ phase[r] = "spent"
               /\ r \in acked
               /\ chain[r] \in Verdicts
               /\ phase' = [phase EXCEPT ![r] = IF chain[r] = "processed" THEN "done" ELSE "failed"]
               /\ UNCHANGED <<sent, acked, chain>>

GiveUp(r) == /\ phase[r] = "spent"
             /\ r \notin acked
             /\ phase' = [phase EXCEPT ![r] = "failed"]
             /\ UNCHANGED <<sent, acked, chain>>

Next == \E r \in Requests :
           \/ Open(r) \/ Attest(r) \/ Spend(r) \/ Send(r) \/ Acknowledge(r)
           \/ Conclude(r) \/ GiveUp(r)
           \/ \E v \in Verdicts : Decide(r, v)

Fairness == \A r \in Requests : WF_vars(Conclude(r))

Safety == Init /\ [][Next]_vars
Spec == Safety /\ Fairness
=============================================================================
