---------------------------- MODULE SocialLogins ----------------------------
(***************************************************************************)
(* POST /auth/oauth of the Wallet Hub API (routes/authOAuth.ts and         *)
(* db/identities.ts): one call signs in the person an OIDC identity        *)
(* belongs to, or makes a person, a sub-organization at Turnkey and a      *)
(* wallet for it.  A handler is cut at its database transactions and its   *)
(* calls to Turnkey; the transaction that looks the person up is cut once  *)
(* more, where what it has read may be stale.                              *)
(*                                                                         *)
(* Left out: calls whose token auth/oidc.ts refuses, which touch nothing,  *)
(* identities of kind "email", which decide nothing here, and the ID token *)
(* of the answer.                                                          *)
(***************************************************************************)
EXTENDS Naturals, Sequences

CONSTANTS
    Calls,     \* HTTP requests; a new person and a sub-organization are named by their call
    Residues,  \* persons left without a wallet by sign-ups of older versions
    Subjects,  \* subjects of the identity provider
    Emails,
    Tokens,    \* verified id tokens
    MaxFaults, \* bound: failed transactions, lost commits and crashes
    None

People == Calls \union Residues

ASSUME NoneIsNothing == None \notin People \union Subjects \union Emails
ASSUME ResiduesAreOld == Calls \intersect Residues = {}
ASSUME TokensOK ==
    Tokens \subseteq [jti: Nat, subject: Subjects, email: Emails \union {None}, verified: BOOLEAN]
ASSUME VerifiedNamesEmail == \A t \in Tokens : t.verified => t.email # None
ASSUME MaxFaultsOK == MaxFaults \in Nat

VARIABLES
    pc, token, \* where the handler of each call stands, and what it was sent
    owned,     \* history: people who had an identity when the call arrived
    adopted,   \* local variable: the residue the sign-up takes over
    person,    \* local variables: who logs in, with which
    org,       \*   sub-organization
    used,      \* oidc_replay
    people,    \* users
    primary,   \* users.primary_email
    verified,  \* users whose email_verified_at is set
    identity,  \* user_identities: the person of each subject
    wallets,   \* turnkey_resources in the order they were inserted
    trail,     \* audit_logs: the outcomes of turnkey.wallet.create for each call
    sessions,  \* auth_sessions: the call that minted each, and its person
    orgs,      \* sub-organizations that exist at Turnkey
    reply,
    faults

local == <<token, owned, adopted, person, org>>
users == <<people, primary, verified>>
hub == <<used, users, identity, wallets, trail, sessions>>
vars == <<pc, local, hub, orgs, reply, faults>>

Waiting == {"identify", "owner", "request", "create", "refused", "finish",
            "raced", "login", "session", "refusedLogin"}
Answers == {"replayed", "orphan", "collision", "unavailable", "raced", "error", "session"}

TypeOK ==
    /\ pc \in [Calls -> {"idle", "done", "dead"} \union Waiting]
    /\ token \in [Calls -> Tokens \union {None}]
    /\ owned \in [Calls -> SUBSET People]
    /\ adopted \in [Calls -> Residues \union {None}]
    /\ person \in [Calls -> People \union {None}]
    /\ org \in [Calls -> Calls \union {None}]
    /\ used \subseteq Tokens
    /\ people \subseteq People
    /\ primary \in [People -> Emails \union {None}]
    /\ verified \subseteq people
    /\ identity \in [Subjects -> People \union {None}]
    /\ wallets \in Seq([person: People, org: Calls])
    /\ trail \subseteq Calls \X {"requested", "succeeded", "failed"}
    /\ sessions \subseteq Calls \X People
    /\ orgs \subseteq Calls
    /\ reply \in [Calls -> Answers \union {"none"}]
    /\ faults \in 0..MaxFaults

Init ==
    /\ pc = [c \in Calls |-> "idle"]
    /\ token = [c \in Calls |-> None]
    /\ owned = [c \in Calls |-> {}]
    /\ adopted = [c \in Calls |-> None]
    /\ person = [c \in Calls |-> None]
    /\ org = [c \in Calls |-> None]
    /\ used = {}
    /\ \E left \in SUBSET Residues :
         /\ people = left
         /\ verified = left
         /\ \E mail \in [left -> Emails] :
              /\ \A p, q \in left : mail[p] = mail[q] => p = q
              /\ primary = [p \in People |-> IF p \in left THEN mail[p] ELSE None]
    /\ identity = [s \in Subjects |-> None]
    /\ wallets = <<>>
    /\ trail = {}
    /\ sessions = {}
    /\ orgs = {}
    /\ reply = [c \in Calls |-> "none"]
    /\ faults = 0

-----------------------------------------------------------------------------
Subject(c) == token[c].subject
Mail(c) == token[c].email

(* getPersonByVerifiedEmail; the unique index leaves at most one.          *)
Owners(c) == IF token[c].verified THEN {p \in verified : primary[p] = Mail(c)} ELSE {}

WalletsOf(p) == {i \in 1..Len(wallets) : wallets[i].person = p}

(* listTurnkeyResourcesForUserForApp puts the newest first.                *)
Newest(p) == wallets[CHOOSE i \in WalletsOf(p) : \A j \in WalletsOf(p) : j <= i].org

HasIdentity(p) == \E s \in Subjects : identity[s] = p

(* setVerifiedPrimaryEmail: nothing while another person holds the address *)
(* verified; else it fills an empty primary e-mail and verifies it if it   *)
(* is the address of the token.                                            *)
Promoted(p, c) ==
    IF ~token[c].verified \/ Owners(c) \ {p} # {} THEN UNCHANGED users
    ELSE LET mail == IF primary[p] = None THEN Mail(c) ELSE primary[p] IN
         /\ primary' = [primary EXCEPT ![p] = mail]
         /\ verified' = IF mail = Mail(c) THEN verified \union {p} ELSE verified
         /\ UNCHANGED people

Goto(c, place) == pc' = [pc EXCEPT ![c] = place] /\ UNCHANGED reply
Answer(c, what) ==
    /\ pc' = [pc EXCEPT ![c] = "done"]
    /\ reply' = [reply EXCEPT ![c] = what]

NoFault == UNCHANGED faults
Fault == faults < MaxFaults /\ faults' = faults + 1

(* A transaction commits and the handler goes on, or its answer is lost.   *)
Committed(c, next) ==
    \/ next /\ NoFault
    \/ Answer(c, "error") /\ Fault

-----------------------------------------------------------------------------
Arrive(c) ==
    /\ pc[c] = "idle"
    /\ \E t \in Tokens : token' = [token EXCEPT ![c] = t]
    /\ owned' = [owned EXCEPT ![c] = {p \in People : HasIdentity(p)}]
    /\ Goto(c, "identify")
    /\ NoFault
    /\ UNCHANGED <<adopted, person, org, hub, orgs>>

(* Mutant: the token's use is looked up and not claimed.                   *)
RowFreeUnclaimed(c) == TRUE

(* The INSERT of recordOidcTokenUse waits for a transaction that has       *)
(* inserted the same token and not ended.                                  *)
RowFree(c) == \A d \in Calls \ {c} : pc[d] = "owner" => token[d] # token[c]

(* Mutant: the hash leaves out the jti.                                    *)
UsesWithoutJti(c) == used \union {[token[c] EXCEPT !.jti = 0]}

Uses(c) == used \union {token[c]}

(* recordOidcTokenUse, getIdentity and what becomes of a known identity.   *)
Identify(c) ==
    LET p == identity[Subject(c)] IN
    /\ pc[c] = "identify"
    /\ RowFree(c)
    /\ \/ /\ token[c] \in used
          /\ Answer(c, "replayed") /\ NoFault
          /\ UNCHANGED <<person, org, used, users>>
       \/ /\ token[c] \notin used /\ p # None
          /\ used' = Uses(c)
          /\ IF WalletsOf(p) = {}
             THEN Answer(c, "orphan") /\ NoFault /\ UNCHANGED <<person, org, users>>
             ELSE /\ Promoted(p, c)
                  /\ person' = [person EXCEPT ![c] = p]
                  /\ org' = [org EXCEPT ![c] = Newest(p)]
                  /\ Committed(c, Goto(c, "login"))
       \/ /\ token[c] \notin used /\ p = None
          /\ Goto(c, "owner") /\ NoFault
          /\ UNCHANGED <<person, org, used, users>>
    /\ UNCHANGED <<token, owned, adopted, identity, wallets, trail, sessions, orgs>>

(* Mutant: whoever holds the verified e-mail is adopted.                   *)
AdoptableAlways(p) == TRUE

(* No wallet and no identity but e-mail ones: the residue of a sign-up.    *)
Adoptable(p) == WalletsOf(p) = {} /\ ~HasIdentity(p)

(* The rest of that transaction for an unknown identity.                   *)
FindOwner(c) ==
    /\ pc[c] = "owner"
    /\ used' = Uses(c)
    /\ \/ Owners(c) = {} /\ UNCHANGED adopted /\ Committed(c, Goto(c, "request"))
       \/ \E p \in Owners(c) :
            \/ /\ Adoptable(p)
               /\ adopted' = [adopted EXCEPT ![c] = p]
               /\ Committed(c, Goto(c, "request"))
            \/ ~Adoptable(p) /\ UNCHANGED adopted /\ Committed(c, Answer(c, "collision"))
    /\ UNCHANGED <<token, owned, person, org, users, identity, wallets, trail, sessions, orgs>>

AuditRequest(c) ==
    /\ pc[c] = "request"
    /\ trail' = trail \union {<<c, "requested">>}
    /\ Committed(c, Goto(c, "create"))
    /\ UNCHANGED <<local, used, users, identity, wallets, sessions, orgs>>

(* createSubOrganizationWithOAuthWallet: Turnkey refuses, or makes the     *)
(* sub-organization, and then the answer may still be lost.                *)
CreateSubOrg(c) ==
    /\ pc[c] = "create"
    /\ \/ orgs' = orgs \union {c} /\ Goto(c, "finish")
       \/ orgs' = orgs \union {c} /\ Goto(c, "refused")
       \/ orgs' = orgs /\ Goto(c, "refused")
    /\ NoFault
    /\ UNCHANGED <<local, hub>>

AuditRefusal(c) ==
    /\ pc[c] = "refused"
    /\ trail' = trail \union {<<c, "failed">>}
    /\ Committed(c, Answer(c, "unavailable"))
    /\ UNCHANGED <<local, used, users, identity, wallets, sessions, orgs>>

-----------------------------------------------------------------------------
(* The transaction that makes the person                                   *)

Who(c) == IF adopted[c] = None THEN c ELSE adopted[c]

(* createPerson runs into uniq_users_app_verified_primary_email.           *)
EmailTaken(c) == adopted[c] = None /\ Owners(c) # {}

(* Mutant: insertIdentity without the WHERE of its DO UPDATE.              *)
IdentityTakenNever(c) == FALSE

(* insertIdentity returns null: the subject is another person's.           *)
IdentityTaken(c) == identity[Subject(c)] \notin {None, Who(c)}

Finish(c) ==
    LET p == Who(c) IN
    /\ pc[c] = "finish"
    /\ ~EmailTaken(c) /\ ~IdentityTaken(c)
    /\ IF adopted[c] # None THEN Promoted(p, c)
       ELSE /\ people' = people \union {c}
            /\ primary' = [primary EXCEPT ![c] = Mail(c)]
            /\ verified' = IF token[c].verified THEN verified \union {c} ELSE verified
    /\ wallets' = Append(wallets, [person |-> p, org |-> c])
    /\ identity' = [identity EXCEPT ![Subject(c)] = p]
    /\ trail' = trail \union {<<c, "succeeded">>}
    /\ person' = [person EXCEPT ![c] = p]
    /\ org' = [org EXCEPT ![c] = c]
    /\ Committed(c, Goto(c, "login"))
    /\ UNCHANGED <<token, owned, adopted, used, sessions, orgs>>

(* The unique index: any error but IDENTITY_RACED is thrown on.            *)
FinishRejected(c) ==
    /\ pc[c] = "finish"
    /\ EmailTaken(c)
    /\ Answer(c, "error") /\ NoFault
    /\ UNCHANGED <<local, hub, orgs>>

FinishRaced(c) ==
    /\ pc[c] = "finish"
    /\ ~EmailTaken(c) /\ IdentityTaken(c)
    /\ Goto(c, "raced") /\ NoFault
    /\ UNCHANGED <<local, hub, orgs>>

(* Mutant: the sub-organization of a raced sign-up is forgotten.           *)
AuditRaceForgotten(c) ==
    /\ pc[c] = "raced"
    /\ Answer(c, "raced") /\ NoFault
    /\ UNCHANGED <<local, hub, orgs>>

(* "Leave its id on the audit chain."                                      *)
AuditRace(c) ==
    /\ pc[c] = "raced"
    /\ trail' = trail \union {<<c, "failed">>}
    /\ Committed(c, Answer(c, "raced"))
    /\ UNCHANGED <<local, used, users, identity, wallets, sessions, orgs>>

-----------------------------------------------------------------------------
(* oauthLogin: Turnkey knows the sub-organization by the subject it was    *)
(* made for; it may also fail or its answer be lost.                       *)
Login(c) ==
    /\ pc[c] = "login"
    /\ \/ Subject(org[c]) = Subject(c) /\ Goto(c, "session")
       \/ Goto(c, "refusedLogin")
    /\ NoFault
    /\ UNCHANGED <<local, hub, orgs>>

(* The audit row auth.oauth.login / failed.                                *)
AuditRefusedLogin(c) ==
    /\ pc[c] = "refusedLogin"
    /\ Committed(c, Answer(c, "unavailable"))
    /\ UNCHANGED <<local, hub, orgs>>

MintSession(c) ==
    /\ pc[c] = "session"
    /\ sessions' = sessions \union {<<c, person[c]>>}
    /\ Committed(c, Answer(c, "session"))
    /\ UNCHANGED <<local, used, users, identity, wallets, trail, orgs>>

(* A transaction that rolls back fails the request.                        *)
DbFails(c) ==
    /\ pc[c] \in Waiting \ {"create", "login"}
    /\ Answer(c, "error") /\ Fault
    /\ UNCHANGED <<local, hub, orgs>>

(* The process goes down under a handler.                                  *)
Crash(c) ==
    /\ pc[c] \in Waiting
    /\ Goto(c, "dead") /\ Fault
    /\ UNCHANGED <<local, hub, orgs>>

Handle(c) ==
    \/ Identify(c) \/ FindOwner(c) \/ AuditRequest(c) \/ CreateSubOrg(c) \/ AuditRefusal(c)
    \/ Finish(c) \/ FinishRejected(c) \/ FinishRaced(c) \/ AuditRace(c)
    \/ Login(c) \/ AuditRefusedLogin(c) \/ MintSession(c)

Next == \E c \in Calls : Arrive(c) \/ Handle(c) \/ DbFails(c) \/ Crash(c)

Spec == Init /\ [][Next]_vars

-----------------------------------------------------------------------------
(* A token is accepted once (oidc_replay): however calls with one token    *)
(* overlap, they open one session and make one sub-organization.           *)
TokenOnce ==
    /\ \A c, d \in orgs : token[c] = token[d] => c = d
    /\ \A x, y \in sessions : token[x[1]] = token[y[1]] => x = y

(* A session is a session of the person the subject of its token belongs   *)
(* to, also when two sign-ups of one subject raced.                        *)
SessionsProveIdentity ==
    \A x \in sessions : identity[Subject(x[1])] = x[2]

(* "The inbox, not the token, must prove that account": a person who had   *)
(* an identity when a call arrived gets no further one from that call.     *)
OwnersKeepTheirs ==
    \A i \in 1..Len(wallets) : wallets[i].person \notin owned[wallets[i].org]

(* What 409 identity_raced says: the subject is another person's by now,   *)
(* one who can sign in, and the sub-organization is on the audit chain.    *)
RacedIsTrue ==
    \A c \in Calls : reply[c] = "raced" =>
        /\ identity[Subject(c)] \notin {None, Who(c)}
        /\ WalletsOf(identity[Subject(c)]) # {}
        /\ c \in orgs
        /\ <<c, "failed">> \in trail

(* social-login.md:32: where "a concurrent sign-up took the identity       *)
(* first", the call answers 409 identity_raced: it does not end before.    *)
RacesAreTold ==
    [][\A c \in Calls :
         pc[c] = "finish" /\ pc'[c] = "done" => identity[Subject(c)] \in {None, Who(c)}]_vars
=============================================================================
