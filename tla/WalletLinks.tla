---------------------------- MODULE WalletLinks -----------------------------
(***************************************************************************)
(* Linking an external wallet to a user (routes/walletLinking.ts), next to *)
(* the sessions that linked wallets may mint.  An address has two Arch     *)
(* identities: the canonical one, of the wallet's untweaked key, and the   *)
(* one old clients get from decoding the address.                          *)
(*                                                                         *)
(* POST /wallet-links/verify reads the challenge in one transaction and    *)
(* marks it used in another.  That one is cut at its UPDATE and SELECT, on *)
(* one side, and at the upsert, which PostgreSQL evaluates against the     *)
(* last committed row and which commits with it, on the other.             *)
(* enforceSessionForRoute is off, as it is unless SESSION_ENFORCED_ROUTES  *)
(* names the route.                                                        *)
(***************************************************************************)
EXTENDS AuthSessions

CONSTANT MaxLinkChallenges \* bound

ASSUME LinkBoundOK == MaxLinkChallenges \in Nat

VARIABLES
    linkChallenges, \* wallet_link_challenges
    linkLocked,     \* the call whose transaction holds each row of them
    first,          \* history: the Arch address each link was inserted with
    trail           \* audit_logs: wallet_link.arch_identity_migrated events

linkOwn == <<linkChallenges, linkLocked, first, trail>>
vars == <<authVars, linkOwn>>

Identities == {"canonical", "tweaked"}

(* The NULL of a column is none of its values.                             *)
ASSUME NullIsNoIdentity == None \notin Identities

Places == {"idle", "confirm", "issue", "mint", "revoke", "record", "claim", "store", "done"}
Link == [arch: Identities, key: BOOLEAN, legacy: Identities \union {None}]
LinkChallenge == [user: Users, wallet: Wallets, key: BOOLEAN, used: BOOLEAN, live: BOOLEAN]

TypeOK ==
    /\ pc \in [Calls -> Places]
    /\ trusted \subseteq Resources
    /\ challenges \in Seq(Challenge) /\ Len(challenges) <= MaxChallenges
    /\ locked \in [1..MaxChallenges -> Calls \union {None}]
    /\ sessions \in Seq(Session)
    /\ links \in [Users \X Wallets -> Link \union {None}]
    /\ linkChallenges \in Seq(LinkChallenge) /\ Len(linkChallenges) <= MaxLinkChallenges
    /\ linkLocked \in [1..MaxLinkChallenges -> Calls \union {None}]
    /\ first \in [Users \X Wallets -> Identities \union {None}]
    /\ trail \subseteq (Users \X Wallets) \X Identities \X Identities

Init ==
    /\ AuthInit
    /\ links = [l \in Users \X Wallets |-> None]
    /\ linkChallenges = <<>>
    /\ linkLocked = [i \in 1..MaxLinkChallenges |-> None]
    /\ first = links
    /\ trail = {}

-----------------------------------------------------------------------------
(* userHasCredentials.                                                     *)
HasCredentials(u) ==
    \/ \E r \in Resources : Holder[r] = u
    \/ \E w \in Wallets : Linked(u, w)

(* requireSessionForExistingUser.                                          *)
Allowed(u) == HasCredentials(u) => \E s \in 1..Len(sessions) : Resolves(s) /\ sessions[s].user = u

(* POST /wallet-links/challenge: with the wallet's key or without it.      *)
AskLink(u, w, key) ==
    /\ Len(linkChallenges) < MaxLinkChallenges
    /\ Allowed(u)
    /\ linkChallenges' = Append(linkChallenges,
           [user |-> u, wallet |-> w, key |-> key, used |-> FALSE, live |-> TRUE])
    /\ UNCHANGED <<authVars, linkLocked, first, trail>>

(* The message says it expires in ten minutes.                             *)
ExpireLink(i) ==
    /\ linkChallenges[i].live
    /\ linkChallenges' = [linkChallenges EXCEPT ![i].live = FALSE]
    /\ UNCHANGED <<authVars, linkLocked, first, trail>>

(* POST /wallet-links/verify: the session of the user, if it needs one.    *)
PresentLink(c, u, i) ==
    /\ pc[c] = "idle"
    /\ \/ Allowed(u) /\ Goto(c, "record", [user |-> u, challenge |-> i])
       \/ ~Allowed(u) /\ Answer(c, "unauthorized")
    /\ UNCHANGED <<own, links, linkOwn, faults>>

(* Mutant: the owner of the challenge is not compared.                     *)
ReadRecordOfAnyone(c, signed) ==
    LET row == linkChallenges[args[c].challenge] IN
    /\ pc[c] = "record"
    /\ IF ~row.used /\ row.live /\ signed THEN Goto(c, "claim", args[c]) ELSE Answer(c, "refused")
    /\ UNCHANGED <<own, links, linkOwn, faults>>

(* Owner, use and expiry are looked at in memory, without a lock, and then *)
(* the signature.                                                          *)
ReadRecord(c, signed) ==
    LET row == linkChallenges[args[c].challenge] IN
    /\ pc[c] = "record"
    /\ IF row.user = args[c].user /\ ~row.used /\ row.live /\ signed
       THEN Goto(c, "claim", args[c])
       ELSE Answer(c, "refused")
    /\ UNCHANGED <<own, links, linkOwn, faults>>

(* UPDATE ... SET used_at, which waits for another transaction that holds  *)
(* the row but does not look at used_at, and the SELECT of the link.       *)
ClaimLink(c) ==
    LET i == args[c].challenge IN
    /\ pc[c] = "claim"
    /\ linkLocked[i] = None
    /\ linkLocked' = [linkLocked EXCEPT ![i] = c]
    /\ Goto(c, "store", [user |-> args[c].user, challenge |-> i,
                         seen |-> links[<<args[c].user, linkChallenges[i].wallet>>]])
    /\ UNCHANGED <<own, links, linkChallenges, first, trail, faults>>

Derived(row) == IF row.key THEN "canonical" ELSE "tweaked"

(* Mutant: the previous address replaces the legacy one every time.        *)
UpsertLatest(old, row) ==
    LET arch == Derived(row) IN
    IF old = None THEN [arch |-> arch, key |-> row.key, legacy |-> None]
    ELSE [arch |-> arch, key |-> row.key \/ old.key,
          legacy |-> IF old.arch = arch THEN old.legacy ELSE old.arch]

(* INSERT ... ON CONFLICT DO UPDATE against the committed row.             *)
Upsert(old, row) ==
    LET arch == Derived(row) IN
    IF old = None THEN [arch |-> arch, key |-> row.key, legacy |-> None]
    ELSE [arch |-> arch,
          key |-> row.key \/ old.key,
          legacy |-> IF old.arch = arch \/ old.legacy # None THEN old.legacy ELSE old.arch]

(* The event is written when the address differs from the one the SELECT   *)
(* saw.                                                                    *)
Migration(l, seen, row) ==
    IF seen = None \/ seen.arch = Derived(row) THEN {} ELSE {<<l, seen.arch, Derived(row)>>}

StoreLink(c) ==
    LET i == args[c].challenge
        row == linkChallenges[i]
        l == <<args[c].user, row.wallet>>
    IN
    /\ pc[c] = "store"
    /\ links' = [links EXCEPT ![l] = Upsert(links[l], row)]
    /\ first' = [first EXCEPT ![l] = IF links[l] = None THEN Derived(row) ELSE @]
    /\ trail' = trail \union Migration(l, args[c].seen, row)
    /\ linkChallenges' = [linkChallenges EXCEPT ![i].used = TRUE]
    /\ linkLocked' = [linkLocked EXCEPT ![i] = None]
    /\ \/ Answer(c, "linked") /\ NoFault
       \/ Answer(c, "error") /\ Fault
    /\ UNCHANGED own

StoreFails(c) ==
    /\ pc[c] = "store"
    /\ linkLocked' = [linkLocked EXCEPT ![args[c].challenge] = None]
    /\ Answer(c, "error")
    /\ Fault
    /\ UNCHANGED <<own, links, linkChallenges, first, trail>>

-----------------------------------------------------------------------------
LinkNext ==
    \/ \E c \in Calls :
         \/ \E u \in Users, i \in 1..Len(linkChallenges) : PresentLink(c, u, i)
         \/ \E signed \in BOOLEAN : ReadRecord(c, signed)
         \/ ClaimLink(c) \/ StoreLink(c) \/ StoreFails(c)
    \/ \E u \in Users, w \in Wallets, key \in BOOLEAN : AskLink(u, w, key)
    \/ \E i \in 1..Len(linkChallenges) : ExpireLink(i)

Next ==
    \/ AuthNext /\ UNCHANGED linkOwn
    \/ LinkNext

Spec == Init /\ [][Next]_vars

-----------------------------------------------------------------------------
(* At most one session comes of a challenge, however many calls present    *)
(* it, at once or after an answer was lost (loadConsumableChallenge).      *)
OneSession ==
    \A s, t \in 1..Len(sessions) : sessions[s].challenge = sessions[t].challenge => s = t

(* A session belongs to a user who holds what signed for it: a resource    *)
(* whose key Turnkey knows, or a wallet that proved its address to the Hub *)
(* in a linking challenge of that user (verifyStoredResourceKey, and the   *)
(* second look at linked_wallets in POST /auth/session/external).          *)
SessionsAreProven ==
    \A s \in 1..Len(sessions) :
      LET u == sessions[s].user
          p == challenges[sessions[s].challenge].proof
      IN \/ p \in Genuine /\ Holder[p] = u
         \/ \E i \in 1..Len(linkChallenges) :
              /\ linkChallenges[i].user = u
              /\ linkChallenges[i].wallet = p
              /\ linkChallenges[i].used

(* However links of one wallet race or change derivation, the first Arch   *)
(* address a user's funds may be under is never lost: it is the current    *)
(* one or legacy_arch_account_address ("first value wins; never            *)
(* overwritten, never deleted", routes/walletLinking.ts:312).              *)
FirstAddressKept ==
    \A l \in Users \X Wallets :
      links[l] # None =>
        /\ first[l] \in {links[l].arch, links[l].legacy}
        /\ links[l].legacy \in {None, first[l]}

(* Migration 016 says of linked_wallets.public_key_hex that it is the      *)
(* "Wallet public key that produced arch_account_address (NULL for legacy  *)
(* rows registered from the address-decoded/tweaked key)".                 *)
KeyProducedAddress ==
    \A l \in Users \X Wallets :
      links[l] # None => (links[l].key <=> links[l].arch = "canonical")

=============================================================================
