--------------------------- MODULE WalletCreation ---------------------------
(***************************************************************************)
(* The three routes of the Wallet Hub API that give a user an embedded     *)
(* wallet: POST /turnkey/passkey-wallets and /turnkey/email-wallets, which *)
(* make a sub-organization at Turnkey behind an Idempotency-Key, and       *)
(* /turnkey/passkey-wallets/import, which registers one that exists.       *)
(* A handler is cut at its database transactions and at its calls to       *)
(* Turnkey; between two of them other handlers run and this one may die.   *)
(***************************************************************************)
EXTENDS Naturals

CONSTANTS
    Calls,          \* HTTP requests; a sub-organization is named by the call that made it
    Users,          \* external user ids
    Keys,           \* values of the Idempotency-Key header
    Emails,
    LinkedUsers,    \* users who own a linked wallet from the start
    EnforcedRoutes, \* SESSION_ENFORCED_ROUTES
    MaxFaults,      \* bound: failed transactions, lost commits and crashes
    None

ASSUME NoneIsNothing == None \notin Calls \union Users \union Keys \union Emails
ASSUME ConstantsOK ==
    /\ LinkedUsers \subseteq Users
    /\ MaxFaults \in Nat

CreateRoutes == {"passkey", "email"}

(* What a client may ask.  A session, where there is one, is a session of  *)
(* some user.  Only the e-mail route insists on an address.                *)
Requests ==
    [route: {"passkey"}, key: Keys, user: Users, email: Emails \union {None},
     org: {None}, session: Users \union {None}]
    \union
    [route: {"email"}, key: Keys, user: Users, email: Emails,
     org: {None}, session: Users \union {None}]
    \union
    [route: {"import"}, key: {None}, user: Users, email: {None},
     org: Calls, session: Users \union {None}]

NoRequest == [route |-> "none", key |-> None, user |-> None, email |-> None,
              org |-> None, session |-> None]

Slots == CreateRoutes \X Keys

(* An idempotency_keys row.  request_hash stands for the body of the call  *)
(* that inserted the row, response_json for the wallet that call made.     *)
NoRow == [status |-> "none", by |-> None]
Rows == [status: {"pending", "succeeded", "failed"}, by: Calls]

VARIABLES
    pc,            \* where the handler of each call stands
    req,           \* what each call asked
    late,          \* history: calls whose user owned a credential when they arrived
    keyRow,        \* idempotency_keys
    resources,     \* turnkey_resources
    recoveryEmail, \* users.recovery_email
    trail,         \* audit_logs: the outcomes recorded for each call
    orgs,          \* the sub-organizations that exist at Turnkey
    reply,
    faults

hub == <<keyRow, resources, recoveryEmail, trail>>
vars == <<pc, req, late, hub, orgs, reply, faults>>

Waiting == {"gate", "key", "insert", "request", "create", "finish", "fail", "lookup", "import"}
NoReply == [kind |-> "none", org |-> None]
Replies == [kind: {"created", "imported", "replayed"}, org: Calls]
    \union [kind: {"refused", "conflict", "in_progress", "failed", "rejected", "error"}, org: {None}]

TypeOK ==
    /\ pc \in [Calls -> {"idle", "done", "dead"} \union Waiting]
    /\ req \in [Calls -> Requests \union {NoRequest}]
    /\ late \subseteq Calls
    /\ keyRow \in [Slots -> Rows \union {NoRow}]
    /\ resources \subseteq [call: Calls, user: Users, org: Calls, verified: BOOLEAN]
    /\ recoveryEmail \in [Users -> Emails \union {None}]
    /\ trail \subseteq Calls \X {"requested", "succeeded", "failed"}
    /\ orgs \subseteq Calls
    /\ reply \in [Calls -> Replies \union {NoReply}]
    /\ faults \in 0..MaxFaults

Init ==
    /\ pc = [c \in Calls |-> "idle"]
    /\ req = [c \in Calls |-> NoRequest]
    /\ late = {}
    /\ keyRow = [s \in Slots |-> NoRow]
    /\ resources = {}
    /\ recoveryEmail = [u \in Users |-> None]
    /\ trail = {}
    /\ orgs = {}
    /\ reply = [c \in Calls |-> NoReply]
    /\ faults = 0

-----------------------------------------------------------------------------
Slot(c) == <<req[c].route, req[c].key>>

(* computeRequestHash, up to collisions: what it is a hash of.             *)
Body(c) == <<req[c].user, req[c].email>>

(* userHasCredentials: a Turnkey resource or a linked wallet.              *)
HasCredentials(u) == u \in LinkedUsers \/ \E r \in resources : r.user = u

(* Mutant: requireSessionForExistingUser left off the routes.              *)
AdmittedUnlessEnforced(c) ==
    req[c].route \in EnforcedRoutes => req[c].session = req[c].user

(* enforceSessionForRoute, then requireSessionForExistingUser.             *)
Admitted(c) ==
    req[c].route \in EnforcedRoutes \/ HasCredentials(req[c].user)
        => req[c].session = req[c].user

Goto(c, place) == pc' = [pc EXCEPT ![c] = place] /\ UNCHANGED reply

Answer(c, kind, org) ==
    /\ pc' = [pc EXCEPT ![c] = "done"]
    /\ reply' = [reply EXCEPT ![c] = [kind |-> kind, org |-> org]]

NoFault == UNCHANGED faults
Fault == faults < MaxFaults /\ faults' = faults + 1

-----------------------------------------------------------------------------
Arrive(c) ==
    /\ pc[c] = "idle"
    /\ \E q \in Requests :
         /\ req' = [req EXCEPT ![c] = q]
         /\ late' = IF HasCredentials(q.user) THEN late \union {c} ELSE late
    /\ Goto(c, "gate")
    /\ NoFault
    /\ UNCHANGED <<hub, orgs>>

(* The preHandlers, in a transaction of their own.                         *)
Gate(c) ==
    /\ pc[c] = "gate"
    /\ \/ Admitted(c) /\ Goto(c, IF req[c].route = "import" THEN "lookup" ELSE "key")
       \/ ~Admitted(c) /\ Answer(c, "refused", None)
    /\ NoFault
    /\ UNCHANGED <<req, late, hub, orgs>>

(* Mutant: whatever is no longer pending is replayed.                      *)
ReadKeyReplaysAll(c) ==
    LET row == keyRow[Slot(c)] IN
    /\ pc[c] = "key"
    /\ \/ row = NoRow /\ Goto(c, "insert")
       \/ row.status = "succeeded" /\ Answer(c, "replayed", row.by)
       \/ row.status = "failed" /\ Answer(c, "replayed", None)
    /\ NoFault
    /\ UNCHANGED <<req, late, hub, orgs>>

(* Mutant: the request hash is stored and never compared.                  *)
ReadKeyAnyBody(c) ==
    LET row == keyRow[Slot(c)] IN
    /\ pc[c] = "key"
    /\ \/ row = NoRow /\ Goto(c, "insert")
       \/ row.status = "succeeded" /\ Answer(c, "replayed", row.by)
       \/ row.status = "pending" /\ Answer(c, "in_progress", None)
       \/ row.status = "failed" /\ Answer(c, "failed", None)
    /\ NoFault
    /\ UNCHANGED <<req, late, hub, orgs>>

(* consumeIdempotencyKey, up to its SELECT.                                *)
ReadKey(c) ==
    LET row == keyRow[Slot(c)] IN
    /\ pc[c] = "key"
    /\ \/ row = NoRow /\ Goto(c, "insert")
       \/ /\ row # NoRow
          /\ \/ Body(row.by) # Body(c) /\ Answer(c, "conflict", None)
             \/ /\ Body(row.by) = Body(c)
                /\ \/ row.status = "succeeded" /\ Answer(c, "replayed", row.by)
                   \/ row.status = "pending" /\ Answer(c, "in_progress", None)
                   \/ row.status = "failed" /\ Answer(c, "failed", None)
    /\ NoFault
    /\ UNCHANGED <<req, late, hub, orgs>>

(* Mutant: INSERT ... ON CONFLICT DO UPDATE.                               *)
InsertKeyUpsert(c) ==
    /\ pc[c] = "insert"
    /\ keyRow' = [keyRow EXCEPT ![Slot(c)] = [status |-> "pending", by |-> c]]
    /\ Goto(c, "request")
    /\ NoFault
    /\ UNCHANGED <<req, late, resources, recoveryEmail, trail, orgs>>

(* Mutant: the recovery e-mail is written with the user.                   *)
InsertKeyWithEmail(c) ==
    /\ pc[c] = "insert"
    /\ keyRow[Slot(c)] = NoRow
    /\ keyRow' = [keyRow EXCEPT ![Slot(c)] = [status |-> "pending", by |-> c]]
    /\ recoveryEmail' = [recoveryEmail EXCEPT ![req[c].user] = req[c].email]
    /\ Goto(c, "request")
    /\ NoFault
    /\ UNCHANGED <<req, late, resources, trail, orgs>>

(* Its INSERT and the COMMIT, the user's row with it.  A row committed     *)
(* since the SELECT makes the INSERT fail on the unique index.             *)
InsertKey(c) ==
    /\ pc[c] = "insert"
    /\ \/ /\ keyRow[Slot(c)] = NoRow
          /\ keyRow' = [keyRow EXCEPT ![Slot(c)] = [status |-> "pending", by |-> c]]
          /\ \/ Goto(c, "request") /\ NoFault
             \/ Answer(c, "error", None) /\ Fault
       \/ /\ keyRow[Slot(c)] # NoRow
          /\ Answer(c, "error", None)
          /\ NoFault
          /\ UNCHANGED keyRow
    /\ UNCHANGED <<req, late, resources, recoveryEmail, trail, orgs>>

(* The audit row "requested", in a transaction no catch clause surrounds.  *)
AuditRequest(c) ==
    /\ pc[c] = "request"
    /\ trail' = trail \union {<<c, "requested">>}
    /\ \/ Goto(c, "create") /\ NoFault
       \/ Answer(c, "error", None) /\ Fault
    /\ UNCHANGED <<req, late, keyRow, resources, recoveryEmail, orgs>>

(* createSubOrganizationWithWallet / ...EmailWallet: Turnkey refuses, or   *)
(* makes the sub-organization, and then the answer may still be lost.      *)
CreateSubOrg(c) ==
    /\ pc[c] = "create"
    /\ \/ orgs' = orgs \union {c} /\ Goto(c, "finish")
       \/ orgs' = orgs \union {c} /\ Goto(c, "fail")
       \/ orgs' = orgs /\ Goto(c, "fail")
    /\ NoFault
    /\ UNCHANGED <<req, late, hub>>

(* The last transaction.  The key counts as verified when the account      *)
(* lookup before it answered.  After a lost COMMIT the catch clause runs.  *)
Finish(c) ==
    /\ pc[c] = "finish"
    /\ \E verified \in BOOLEAN :
         resources' = resources \union
           {[call |-> c, user |-> req[c].user, org |-> c, verified |-> verified]}
    /\ recoveryEmail' = IF req[c].email = None THEN recoveryEmail
                        ELSE [recoveryEmail EXCEPT ![req[c].user] = req[c].email]
    /\ trail' = trail \union {<<c, "succeeded">>}
    /\ keyRow' = [keyRow EXCEPT ![Slot(c)].status = "succeeded"]
    /\ \/ Answer(c, "created", c) /\ NoFault
       \/ Goto(c, "fail") /\ Fault
    /\ UNCHANGED <<req, late, orgs>>

(* Mutant: it audits and leaves the key as it is.                          *)
RecordFailureKeepsKey(c) ==
    /\ pc[c] = "fail"
    /\ trail' = trail \union {<<c, "failed">>}
    /\ Answer(c, "error", None)
    /\ NoFault
    /\ UNCHANGED <<req, late, keyRow, resources, recoveryEmail, orgs>>

(* The catch clause: one transaction, then the error is thrown on.         *)
RecordFailure(c) ==
    /\ pc[c] = "fail"
    /\ trail' = trail \union {<<c, "failed">>}
    /\ keyRow' = [keyRow EXCEPT ![Slot(c)].status = "failed"]
    /\ Answer(c, "error", None)
    /\ NoFault
    /\ UNCHANGED <<req, late, resources, recoveryEmail, orgs>>

(* Mutant: an account lookup that fails is let through.                    *)
FindAccountLenient(c) ==
    /\ pc[c] = "lookup"
    /\ Goto(c, "import")
    /\ NoFault
    /\ UNCHANGED <<req, late, hub, orgs>>

(* findTurnkeyWalletAccount: whatever goes wrong reads as "not found".     *)
FindAccount(c) ==
    /\ pc[c] = "lookup"
    /\ \/ req[c].org \in orgs /\ Goto(c, "import")
       \/ Answer(c, "rejected", None)
    /\ NoFault
    /\ UNCHANGED <<req, late, hub, orgs>>

Import(c) ==
    /\ pc[c] = "import"
    /\ resources' = resources \union
         {[call |-> c, user |-> req[c].user, org |-> req[c].org, verified |-> TRUE]}
    /\ trail' = trail \union {<<c, "succeeded">>}
    /\ \/ Answer(c, "imported", req[c].org) /\ NoFault
       \/ Answer(c, "error", None) /\ Fault
    /\ UNCHANGED <<req, late, keyRow, recoveryEmail, orgs>>

(* Mutant: the wallet is inserted in a transaction of its own.             *)
DbFailsHalfway(c) ==
    /\ Fault
    /\ pc[c] = "finish"
    /\ resources' = resources \union
         {[call |-> c, user |-> req[c].user, org |-> c, verified |-> FALSE]}
    /\ Goto(c, "fail")
    /\ UNCHANGED <<req, late, keyRow, recoveryEmail, trail, orgs>>

(* A transaction that rolls back: inside the try block the catch clause    *)
(* runs, anywhere else the request fails.                                  *)
DbFails(c) ==
    /\ Fault
    /\ \/ pc[c] = "finish" /\ Goto(c, "fail")
       \/ /\ pc[c] \in {"gate", "key", "insert", "request", "fail", "import"}
          /\ Answer(c, "error", None)
    /\ UNCHANGED <<req, late, hub, orgs>>

(* The process goes down under a handler.                                  *)
Crash(c) ==
    /\ pc[c] \in Waiting
    /\ Fault
    /\ Goto(c, "dead")
    /\ UNCHANGED <<req, late, hub, orgs>>

Handle(c) ==
    \/ Gate(c) \/ ReadKey(c) \/ InsertKey(c) \/ AuditRequest(c) \/ CreateSubOrg(c)
    \/ Finish(c) \/ RecordFailure(c) \/ FindAccount(c) \/ Import(c)

Next == \E c \in Calls : Arrive(c) \/ Handle(c) \/ DbFails(c) \/ Crash(c)

(* A handler that is not cut short goes on to its next await.              *)
Fairness == \A c \in Calls : WF_vars(Handle(c))
Spec == Init /\ [][Next]_vars /\ Fairness

-----------------------------------------------------------------------------
(* An Idempotency-Key makes at most one sub-organization, whatever number  *)
(* of calls carry it, however they overlap and whichever of them die.      *)
OneOrgPerKey ==
    \A c, d \in orgs : Slot(c) = Slot(d) => c = d

(* The wallet an answer names is stored for the user of the request, and   *)
(* was made for this very key and body.                                    *)
NamesStored(c) ==
    \E r \in resources :
        /\ r.org = reply[c].org
        /\ r.call = reply[c].org
        /\ r.user = req[c].user
        /\ Slot(r.call) = Slot(c)
        /\ Body(r.call) = Body(c)

(* Another call with the same body has taken the key, and has it still.    *)
TakenByAnother(c) ==
    \E d \in Calls \ {c} : keyRow[Slot(c)].by = d /\ Body(d) = Body(c)

(* The routes' replies: who is told of a wallet, their own or a replayed    *)
(* one, has it in the hub; who is told that the request is in progress is  *)
(* not waiting for themselves, nor for a wallet of somebody else.          *)
TruthfulReplies ==
    \A c \in Calls :
        /\ reply[c].kind \in {"created", "replayed"} => NamesStored(c)
        /\ reply[c].kind = "in_progress" => TakenByAnother(c)

(* A stored wallet exists at Turnkey: neither a failed creation nor an     *)
(* import registers a sub-organization that was never made.                *)
NoPhantomWallet == \A r \in resources : r.org \in orgs

(* Who already owned a credential when a call arrived gets no further one  *)
(* from it unless the call carried a session of that user.                 *)
NoLateTakeover ==
    \A r \in resources : r.call \in late => req[r.call].session = r.user

(* turnkey.ts:362-367: the recovery e-mail is written only with the        *)
(* wallet it belongs to, in the same transaction.                          *)
EmailFollowsWallet ==
    [][\A u \in Users : recoveryEmail'[u] # recoveryEmail[u] =>
          \E r \in resources' \ resources :
              r.user = u /\ req[r.call].email = recoveryEmail'[u]]_vars

(* A key recorded as failed left no wallet behind, except when the COMMIT  *)
(* that stored it went unanswered; then the audit log shows both outcomes. *)
FailedOnRecord ==
    \A r \in resources : req[r.call].route \in CreateRoutes /\ pc[r.call] = "done" =>
        \/ keyRow[Slot(r.call)].status = "succeeded"
        \/ {<<r.call, "succeeded">>, <<r.call, "failed">>} \subseteq trail

(* A key that is taken is settled in the end, as succeeded or as failed,   *)
(* unless the call that took it died or ended with its failure unaudited.  *)
PendingSettles ==
    \A s \in Slots : \A c \in Calls :
        keyRow[s] = [status |-> "pending", by |-> c] ~>
            \/ keyRow[s].status # "pending"
            \/ pc[c] = "dead"
            \/ reply[c].kind = "error" /\ <<c, "failed">> \notin trail

(* sessionAuth.ts:115-119: once a user owns a credential, attaching        *)
(* another one takes a session of that same user.                          *)
AttachNeedsSession ==
    [][\A r \in resources' \ resources :
          HasCredentials(r.user) => req[r.call].session = r.user]_vars
=============================================================================
