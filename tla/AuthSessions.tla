---------------------------- MODULE AuthSessions ----------------------------
(***************************************************************************)
(* Session tokens of the Wallet Hub API (routes/authSessions.ts and        *)
(* auth/sessionToken.ts): a user asks for a challenge bound to a Turnkey   *)
(* resource or to a linked wallet, signs it, and mints one session with    *)
(* it.  A handler is cut at its transactions and its call to Turnkey; the  *)
(* transaction that mints is cut after the SELECT ... FOR UPDATE.          *)
(*                                                                         *)
(* Linked wallets are written by WalletLinks, which extends this module.   *)
(* Left out: the hash of the token, and its prefix.                        *)
(***************************************************************************)
EXTENDS Naturals, Sequences

CONSTANTS
    Calls,         \* HTTP requests
    Users,
    Wallets,       \* wallet provider and Taproot address
    Resources,     \* turnkey_resources with a default key on file
    Holder,        \* the user of each resource
    Genuine,       \* resources whose key Turnkey knows
    MaxChallenges, \* bound
    MaxFaults,     \* bound: transactions that fail or whose answer is lost
    None

ASSUME NoneIsNothing == None \notin Calls \union Users \union Wallets \union Resources
ASSUME ProofsDiffer == Wallets \intersect Resources = {}
ASSUME HolderOK == Holder \in [Resources -> Users] /\ Genuine \subseteq Resources
ASSUME BoundsOK == MaxChallenges \in Nat /\ MaxFaults \in Nat

VARIABLES
    pc,         \* where the handler of each call stands
    args,       \* and what it works on
    trusted,    \* turnkey_resources.key_verified_at
    challenges, \* auth_challenges
    locked,     \* the call whose transaction holds each challenge row
    sessions,   \* auth_sessions
    links,      \* linked_wallets
    reply,
    faults

own == <<trusted, challenges, locked, sessions>>
authVars == <<pc, args, own, links, reply, faults>>

Proofs == Resources \union Wallets
Challenge == [user: Users, proof: Proofs, spent: BOOLEAN, live: BOOLEAN]
Session == [user: Users, challenge: 1..MaxChallenges, live: BOOLEAN, revoked: BOOLEAN]

Linked(u, w) == links[<<u, w>>] # None

Goto(c, place, a) ==
    /\ pc' = [pc EXCEPT ![c] = place]
    /\ args' = [args EXCEPT ![c] = a]
    /\ UNCHANGED reply

Answer(c, what) ==
    /\ pc' = [pc EXCEPT ![c] = "done"]
    /\ args' = [args EXCEPT ![c] = None]
    /\ reply' = [reply EXCEPT ![c] = what]

NoFault == UNCHANGED faults
Fault == faults < MaxFaults /\ faults' = faults + 1

-----------------------------------------------------------------------------
(* createChallenge and createExternalChallenge.                            *)
Issue(u, p) ==
    /\ Len(challenges) < MaxChallenges
    /\ challenges' = Append(challenges, [user |-> u, proof |-> p, spent |-> FALSE, live |-> TRUE])

(* POST /auth/session/challenge: the resource must be the user's.          *)
AskChallenge(c, u, r) ==
    /\ pc[c] = "idle"
    /\ \/ Holder[r] # u /\ Answer(c, "refused")
       \/ Holder[r] = u /\ r \in trusted /\ Goto(c, "issue", [user |-> u, proof |-> r])
       \/ Holder[r] = u /\ r \notin trusted /\ Goto(c, "confirm", [user |-> u, proof |-> r])
    /\ UNCHANGED <<own, links, faults>>

(* verifyStoredResourceKey: only a key Turnkey knows becomes trusted; a    *)
(* failure of the call or of the transaction counts as a refusal.          *)
ConfirmKey(c) ==
    /\ pc[c] = "confirm"
    /\ \/ /\ args[c].proof \in Genuine
          /\ trusted' = trusted \union {args[c].proof}
          /\ Goto(c, "issue", args[c])
          /\ NoFault
       \/ args[c].proof \notin Genuine /\ Answer(c, "refused") /\ NoFault /\ UNCHANGED trusted
       \/ Answer(c, "refused") /\ Fault /\ UNCHANGED trusted
    /\ UNCHANGED <<challenges, locked, sessions, links>>

IssueChallenge(c) ==
    /\ pc[c] = "issue"
    /\ Issue(args[c].user, args[c].proof)
    /\ Answer(c, "challenge")
    /\ UNCHANGED <<trusted, locked, sessions, links, faults>>

(* POST /auth/session/external/challenge: one transaction, so the call     *)
(* needs no place of its own; nothing changes for a wallet that is not     *)
(* linked.                                                                 *)
AskExternalChallenge(u, w) ==
    /\ Linked(u, w)
    /\ Issue(u, w)
    /\ UNCHANGED <<pc, args, trusted, locked, sessions, links, reply, faults>>

(* CHALLENGE_TTL_MS passes.                                                *)
ExpireChallenge(i) ==
    /\ challenges[i].live
    /\ challenges' = [challenges EXCEPT ![i].live = FALSE]
    /\ UNCHANGED <<pc, args, trusted, locked, sessions, links, reply, faults>>

-----------------------------------------------------------------------------
(* Mutant: the SELECT without FOR UPDATE.                                  *)
RowFreeUnlocked(i) == TRUE

(* The row lock of loadConsumableChallenge waits for the transaction that  *)
(* holds the row, then looks at what that one committed.                   *)
RowFree(i) == locked[i] = None
Consumable(i) == ~challenges[i].spent /\ challenges[i].live

(* POST /auth/session and POST /auth/session/external ("route" is what may *)
(* have signed), up to the locked row.                                     *)
LoadChallenge(c, i, route, signed) ==
    /\ pc[c] = "idle"
    /\ RowFree(i)
    /\ \/ /\ Consumable(i)
          /\ challenges[i].proof \in route
          /\ Goto(c, "mint", [challenge |-> i, signed |-> signed])
          /\ locked' = [locked EXCEPT ![i] = c]
       \/ /\ ~(Consumable(i) /\ challenges[i].proof \in route)
          /\ Answer(c, "notFound")
          /\ UNCHANGED locked
    /\ UNCHANGED <<trusted, challenges, sessions, links, faults>>

Release(i) == locked' = [locked EXCEPT ![i] = None]

(* The resource is still the user's and its key trusted, or the wallet is  *)
(* still linked, and the signature verifies.                               *)
Proven(c) ==
    LET row == challenges[args[c].challenge] IN
    /\ args[c].signed
    /\ \/ row.proof \in Resources /\ Holder[row.proof] = row.user /\ row.proof \in trusted
       \/ row.proof \in Wallets /\ Linked(row.user, row.proof)

(* A bad signature leaves the challenge as it was.                         *)
RefuseMint(c) ==
    /\ pc[c] = "mint"
    /\ ~Proven(c)
    /\ Release(args[c].challenge)
    /\ Answer(c, "badSignature")
    /\ UNCHANGED <<trusted, challenges, sessions, links, faults>>

(* mintSession: the session row and consumed_at, in one commit whose       *)
(* answer may be lost.                                                     *)
MintSession(c) ==
    LET i == args[c].challenge IN
    /\ pc[c] = "mint"
    /\ Proven(c)
    /\ sessions' = Append(sessions, [user |-> challenges[i].user, challenge |-> i,
                                     live |-> TRUE, revoked |-> FALSE])
    /\ challenges' = [challenges EXCEPT ![i].spent = TRUE]
    /\ Release(i)
    /\ \/ Answer(c, "session") /\ NoFault
       \/ Answer(c, "error") /\ Fault
    /\ UNCHANGED <<trusted, links>>

MintFails(c) ==
    /\ pc[c] = "mint"
    /\ Release(args[c].challenge)
    /\ Answer(c, "error")
    /\ Fault
    /\ UNCHANGED <<trusted, challenges, sessions, links>>

-----------------------------------------------------------------------------
(* resolveSessionToken.                                                    *)
Resolves(s) == sessions[s].live /\ ~sessions[s].revoked

(* SESSION_TTL_MS passes.                                                  *)
ExpireSession(s) ==
    /\ sessions[s].live
    /\ sessions' = [sessions EXCEPT ![s].live = FALSE]
    /\ UNCHANGED <<pc, args, trusted, challenges, locked, links, reply, faults>>

(* POST /auth/session/revoke: the bearer is resolved in one transaction    *)
(* and revoked in another.                                                 *)
PresentForRevoke(c, s) ==
    /\ pc[c] = "idle"
    /\ \/ Resolves(s) /\ Goto(c, "revoke", [session |-> s])
       \/ ~Resolves(s) /\ Answer(c, "unauthorized")
    /\ UNCHANGED <<own, links, faults>>

RevokeSession(c) ==
    /\ pc[c] = "revoke"
    /\ sessions' = [sessions EXCEPT ![args[c].session].revoked = TRUE]
    /\ Answer(c, "revoked")
    /\ UNCHANGED <<trusted, challenges, locked, links, faults>>

-----------------------------------------------------------------------------
AuthInit ==
    /\ pc = [c \in Calls |-> "idle"]
    /\ args = [c \in Calls |-> None]
    /\ trusted \in SUBSET Genuine
    /\ challenges = <<>>
    /\ locked = [i \in 1..MaxChallenges |-> None]
    /\ sessions = <<>>
    /\ reply = [c \in Calls |-> "none"]
    /\ faults = 0

Mints(c) == \E i \in 1..Len(challenges), route \in {Resources, Wallets}, signed \in BOOLEAN :
                LoadChallenge(c, i, route, signed)

AuthNext ==
    \/ \E c \in Calls :
         \/ \E u \in Users, r \in Resources : AskChallenge(c, u, r)
         \/ ConfirmKey(c)
         \/ IssueChallenge(c)
         \/ Mints(c)
         \/ RefuseMint(c) \/ MintSession(c) \/ MintFails(c)
         \/ \E s \in 1..Len(sessions) : PresentForRevoke(c, s)
         \/ RevokeSession(c)
    \/ \E u \in Users, w \in Wallets : AskExternalChallenge(u, w)
    \/ \E i \in 1..Len(challenges) : ExpireChallenge(i)
    \/ \E s \in 1..Len(sessions) : ExpireSession(s)
=============================================================================
