------------------------------ MODULE MCWallet -------------------------------
(***************************************************************************)
(* The extension wallet: the requests of web pages, the pages that pay,    *)
(* the keystore that holds what they read, and the gates of a site's       *)
(* requests.  `part` says which of the four models moves in a behaviour    *)
(* while the others stand still: a page works on the values of its last    *)
(* render.                                                                 *)
(*                                                                         *)
(* Approvals: a connect and a sign request of one site.  Sends: two drafts *)
(* that differ in both fields, a name that leads to an address of its own  *)
(* on each network and one that leads nowhere on the second.  Keystore:    *)
(* edits of every shape, of an account that can be added and one linked    *)
(* through a provider that is gone.  SpendCaps: one page that is shown a   *)
(* transfer, a token transfer or a PSBT, of accounts that can pay it or    *)
(* not, and a second page beside a PSBT.                                   *)
(***************************************************************************)
EXTENDS Approvals, TLC

CONSTANTS r1, r2, a1, a2, n1, n2, x, y, k1, k2, k3, s1, w1, w2, p1, p2,
          Parts,
          Pages, Networks, Drafts, Tiers, DefaultTier, Resolve, MaxConfirms,
          KAccounts, Discontinued, MaxKept, Realms, Passwords, Edits, MaxOps,
          Asked, Asks, Limits, Chains, Fee, Rent, Deposit, Day, MaxEntries, MaxTime, MaxChanges
VARIABLES part,
          sheet, step, asset, form, lookup, reviewed, tier, prep, prepared, sending, otp,
          account, network, parked, restoring, chain, failures, confirms, moves,
          blob, legacy, stored, cache, told, op, ops, secret, content, raced,
          request, stage, snap, cap, click, recorder, log, limit, wanted, now, spends, gone,
          shown, funds, changes

Pay == INSTANCE Sends WITH page <- sheet, active <- account, events <- moves
Vault == INSTANCE Keystore WITH Accounts <- KAccounts
Caps == INSTANCE SpendCaps WITH Pages <- Asked, MaxEvents <- MaxChanges,
            network <- shown, chain <- funds, events <- changes

\* A page may be shown any request, of accounts that may hold anything.
AnyRequest == [kind: {"transfer", "token", "psbt"}, site: Sites, amount: Nat]
AnyFunds == [payer: Nat, payee: Nat, tokens: Nat, account: {0, 1}]

ASSUME DraftsOK == None \notin Drafts
ASSUME TierOK == DefaultTier \in Tiers
ASSUME EditsOK ==
    \A e \in Edits :
       e.do \in {"add", "activate", "forget", "update", "connect", "permit", "disconnect",
                 "remember", "unremember", "clear", "contact", "uncontact", "network"}
ASSUME AsksOK == Asks \in [Asked -> SUBSET AnyRequest] /\ Chains \subseteq AnyFunds
ASSUME FeesOK == Fee \in Nat /\ Deposit \in Nat
ASSUME LimitsOK == Limits \subseteq Nat /\ Day \in Nat /\ MaxEntries \in Nat

approvalsVars == vars
pagesVars == <<sheet, step, asset, form, lookup, reviewed, tier, prep, prepared, sending, otp,
               account, network, parked, restoring, chain, failures, confirms, moves>>
keystoreVars == <<blob, legacy, stored, cache, told, op, ops, secret, content, raced>>
capsVars == <<request, stage, snap, cap, click, recorder, log, limit, wanted, now, spends,
              gone, shown, funds, changes>>
MCKind == [r \in Requests |-> IF r = r1 THEN "connect" ELSE "sign"]
MCSite == [r \in Requests |-> s1]
MCDrafts == {[to |-> x, amount |-> 1], [to |-> y, amount |-> 2]}
MCResolve == [n \in Networks |-> [d \in {x, y} |->
                 IF d = x THEN <<d, n>> ELSE IF n = n1 THEN <<d>> ELSE None]]
MCEdits == {[do |-> "add", at |-> k2, with |-> None],
            [do |-> "forget", at |-> k1, with |-> None],
            [do |-> "update", at |-> k1, with |-> k2],
            [do |-> "connect", at |-> s1, with |-> k1],
            [do |-> "permit", at |-> s1, with |-> None],
            [do |-> "contact", at |-> x, with |-> None]}
MCAsks == [p \in Asked |->
              {[kind |-> k, site |-> s1, amount |-> 1] :
                  k \in IF p = p1 THEN {"psbt", "transfer", "token"} ELSE {"psbt"}}]
MCChains == [payer : {4, 5}, payee : {0, 1}, tokens : {1}, account : {0, 1}]

\* Nothing is claimed of a wallet that was written over.  When the last
\* submission is over nothing more is sent or reported.  With two pages, the
\* funds and the network are settled.
Bounded == /\ ~raced
           /\ confirms = MaxConfirms /\ sending = None /\ otp = None => step = "done"
           /\ request[p2] # None => /\ request[p1] # None /\ request[p1].kind = "psbt"
                                   /\ shown = n1
                                   /\ funds = [payer |-> 5, payee |-> 0, tokens |-> 1,
                                               account |-> 0]

\* Accounts of the pages, and passwords, are alike: one of them comes first.
MCInit == /\ part \in Parts
          /\ Init /\ active = a1 /\ connected[s1] = None
          /\ Pay!Init /\ account = a1 /\ network = n1
          /\ Vault!Init /\ content.accounts[1] = k1 /\ secret \in {w1, None}
          /\ Caps!Init /\ shown = n1
          /\ limit = [s \in Sites |-> [a \in Caps!Assets |-> 1]]
          /\ part # "pages" => sheet = "send"
          /\ part # "keystore" => blob = None /\ content.old
          /\ part # "caps" => funds = [payer |-> 5, payee |-> 0, tokens |-> 1, account |-> 0]

MCNext ==
    \/ /\ part = "approvals" /\ Next
       /\ UNCHANGED <<pagesVars, keystoreVars, capsVars, part>>
    \/ /\ part = "pages" /\ Pay!Next
       /\ UNCHANGED <<approvalsVars, keystoreVars, capsVars, part>>
    \/ /\ part = "keystore" /\ Vault!Next
       /\ UNCHANGED <<approvalsVars, pagesVars, capsVars, part>>
    \/ /\ part = "caps" /\ Caps!Next
       /\ UNCHANGED <<approvalsVars, pagesVars, keystoreVars, part>>

MCSpec == MCInit /\ [][MCNext]_<<approvalsVars, pagesVars, keystoreVars, capsVars, part>>

\* The approvals, with their fairness.
ApprovalsSpec == MCSpec /\ Fairness

\* Of Sends: what is sent pays what was reviewed, for Send's bitcoin too.
SentAsReviewed == Pay!SentAsReviewed
\* Of Sends: what is sent pays what was reviewed, Send's bitcoin and transfers
\* that waited for a code excepted; a transfer goes where the name leads on the
\* network of the review, and is made there unless the network is switched
\* before the client is taken.
PaysAsReviewed == Pay!PaysAsReviewed
\* Of Sends: a bitcoin transaction reported as failed is not on the network,
\* unless the lookup after its broadcast failed as well.
FailedIsUnsent == Pay!FailedIsUnsent
\* Of Keystore: unless two operations wrote over one another, the wallet opens
\* with the password set last and holds every change made.
OpensUnlessRaced == Vault!OpensUnlessRaced
\* The salt of the blob and the password derive the key again.
PasswordRederives == Vault!PasswordRederives
\* Of SpendCaps: a page that has seen the site's spends keeps them within its
\* cap, and no other spend drops out of the log in its day.
CapHolds == Caps!CapHolds
\* Of SpendCaps: what the gates let through the node takes.
GatesForesee == Caps!GatesForesee
=============================================================================
