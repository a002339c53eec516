------------------------------- MODULE Sends --------------------------------
(***************************************************************************)
(* The three pages of the extension that send: Send (bitcoin, and ARCH or  *)
(* an APL token through the hub), SendRune and SendInscription, with the   *)
(* checkpoint of the form that chrome.storage.session keeps                *)
(* (state/send-form-session.ts).                                           *)
(*                                                                         *)
(* A draft is what the user types: whom to pay and how much.  The header   *)
(* stays on screen, so accounts and networks are switched at any step; the *)
(* popup may close at any step, and its asynchronous work with it.         *)
(***************************************************************************)
EXTENDS Naturals

CONSTANTS
    Pages,       \* of {"send", "rune", "inscription"}
    Accounts, Networks,
    Drafts,      \* records [to, amount]
    Tiers,       \* fee tiers
    DefaultTier,
    Resolve,     \* [Networks -> [names -> addresses or None]], the name service
    MaxConfirms, \* bound
    MaxEvents,   \* bound: switches, reopenings and faults together
    None

VARIABLES
    page, step, asset, form, lookup, reviewed, tier,
    prep,       \* the preparation under way, with what it captured
    prepared,   \* the unsigned transaction
    sending,    \* the submission under way
    otp,        \* the submission that waits for an e-mailed code
    active, network,
    parked,     \* the stored checkpoint
    restoring,  \* account and network the checkpoint is asked for
    chain,      \* transactions the network has
    failures,   \* history: confirmations reported as failed
    confirms, events  \* how many there were

local  == <<step, asset, form, lookup, reviewed, tier, prep, prepared, sending, otp>>
vars   == <<page, local, active, network, parked, restoring, chain, failures, confirms, events>>

Event == events < MaxEvents /\ events' = events + 1 /\ UNCHANGED confirms

(* The page when it is mounted.  Only Send starts with a choice of assets. *)
Init ==
    /\ page \in Pages
    /\ step = (IF page = "send" THEN "pick" ELSE "form")
    /\ asset = (IF page = "send" THEN None ELSE "btc")
    /\ form = None /\ lookup = None /\ reviewed = None
    /\ tier = DefaultTier
    /\ prep = None /\ prepared = None
    /\ sending = None /\ otp = None
    /\ active \in Accounts /\ network \in Networks
    /\ parked = None /\ restoring = None
    /\ chain = {} /\ failures = {}
    /\ confirms = 0 /\ events = 0

-----------------------------------------------------------------------------
(* The effect on asset, recipient and network: the reviewed recipient is   *)
(* dropped and, for the hub's assets, the name is looked up again; what    *)
(* was under way is cancelled.                                             *)
Lookup(a, f, n) == IF a = "hub" /\ f # None
                   THEN [name |-> f.to, net |-> n, done |-> FALSE] ELSE None

(* Mutant: a lookup under way is not cancelled.                            *)
RelookKeeping(a, f, n) ==
    lookup' = IF lookup # None /\ a = "hub" /\ ~lookup.done THEN lookup ELSE Lookup(a, f, n)

Relook(a, f, n) == lookup' = Lookup(a, f, n)

(* saveSendForm, whenever what it stores changes on the form's step.       *)
Park(st, a, f, acc, n) ==
    parked' = IF st = "form" /\ f # None
              THEN [form |-> f, asset |-> a, account |-> acc, net |-> n] ELSE parked

Draft == IF form = None THEN [to |-> None, amount |-> None] ELSE form

(* The fields of the form.                                                 *)
Type(d) ==
    /\ step = "form" /\ otp = None
    /\ d # Draft
    /\ form' = d
    /\ IF d.to # Draft.to
       THEN reviewed' = None /\ Relook(asset, form', network)
       ELSE UNCHANGED <<reviewed, lookup>>
    /\ Park("form", asset, form', active, network)
    /\ UNCHANGED <<page, step, asset, tier, prep, prepared, sending, otp, active, network, restoring, chain, failures, confirms, events>>

PickAsset(a) ==
    /\ page = "send" /\ step = "pick" /\ otp = None
    /\ asset' = a
    /\ step' = "form"
    /\ IF a = asset THEN UNCHANGED <<reviewed, lookup>>
       ELSE reviewed' = None /\ Relook(a, form, network)
    /\ Park("form", a, form, active, network)
    /\ UNCHANGED <<page, form, tier, prep, prepared, sending, otp, active, network, restoring, chain, failures, confirms, events>>

BackToPick ==
    /\ page = "send" /\ step = "form"
    /\ step' = "pick"
    /\ UNCHANGED <<page, asset, form, lookup, reviewed, tier, prep, prepared, sending, otp, active, network, parked, restoring, chain, failures, confirms, events>>

(* resolveName answers.                                                    *)
Resolved ==
    /\ lookup # None /\ ~lookup.done
    /\ lookup' = [lookup EXCEPT !.done = TRUE]
    /\ UNCHANGED <<page, step, asset, form, reviewed, tier, prep, prepared, sending, otp, active, network, parked, restoring, chain, failures, confirms, events>>

-----------------------------------------------------------------------------
(* handleReview of ARCH and APL tokens; a token amount over the balance    *)
(* stays on the form.                                                      *)
ReviewHub ==
    /\ step = "form" /\ asset = "hub" /\ form # None /\ prep = None
    /\ lookup # None /\ lookup.done
    /\ Resolve[lookup.net][lookup.name] # None
    /\ reviewed' = Resolve[lookup.net][lookup.name]
    /\ step' \in {"form", "review"}
    /\ UNCHANGED <<page, asset, form, lookup, tier, prep, prepared, sending, otp, active, network, parked, restoring, chain, failures, confirms, events>>

Preparation(t, keep) ==
    [draft |-> form, from |-> active, net |-> network, tier |-> t, keep |-> keep]

(* handlePrepareBtc, handleContinue: the button is disabled while a        *)
(* preparation is under way, the inputs are not.                           *)
ReviewBtc ==
    /\ step = "form" /\ asset = "btc" /\ form # None /\ prep = None
    /\ prep' = Preparation(tier, FALSE)
    /\ prepared' = IF page = "send" THEN None ELSE prepared
    /\ UNCHANGED <<page, step, asset, form, lookup, reviewed, tier, sending, otp, active, network, parked, restoring, chain, failures, confirms, events>>

(* handleSelectFeeTier.                                                    *)
SelectTier(t) ==
    /\ page = "send" /\ step = "review" /\ asset = "btc"
    /\ prepared # None /\ prep = None /\ sending = None
    /\ t # tier
    /\ tier' = t
    /\ prep' = IF form = None THEN None ELSE Preparation(t, TRUE)
    /\ UNCHANGED <<page, step, asset, form, lookup, reviewed, prepared, sending, otp, active, network, parked, restoring, chain, failures, confirms, events>>

(* buildUnsignedPsbt, buildUnsignedRunePsbt and                            *)
(* buildUnsignedInscriptionPsbt answer, or throw.                          *)
Prepared ==
    /\ prep # None
    /\ prep' = None
    /\ \/ /\ prepared' = [draft |-> prep.draft, from |-> prep.from, net |-> prep.net, tier |-> prep.tier]
          /\ step' = IF prep.keep THEN step ELSE "review"
       \/ UNCHANGED <<prepared, step>>
    /\ UNCHANGED <<page, asset, form, lookup, reviewed, tier, sending, otp, active, network, parked, restoring, chain, failures, confirms, events>>

(* The back bar of the review; the other two pages keep the transaction.   *)
BackToForm ==
    /\ step = "review" /\ otp = None
    /\ page = "send" \/ sending = None
    /\ step' = "form"
    /\ prepared' = IF page = "send" THEN None ELSE prepared
    /\ Park("form", asset, form, active, network)
    /\ UNCHANGED <<page, asset, form, lookup, reviewed, tier, prep, sending, otp, active, network, restoring, chain, failures, confirms, events>>

-----------------------------------------------------------------------------
(* What the review shows: Send shows its form, with the address that was   *)
(* reviewed for the hub's assets; the others show the transaction.         *)
ShownByOthers == [to |-> prepared.draft.to, amount |-> prepared.draft.amount]
ShownBySend == [to |-> IF asset = "hub" THEN reviewed ELSE Draft.to, amount |-> Draft.amount]
Shown == IF page = "send" THEN ShownBySend ELSE ShownByOthers

(* What is signed: the prepared transaction, or the hub's transfer to the  *)
(* reviewed address, of a network that is not known yet.                   *)
Transaction ==
    IF asset = "hub"
    THEN [to |-> reviewed, amount |-> Draft.amount, from |-> active, net |-> None, tier |-> tier]
    ELSE [to |-> prepared.draft.to, amount |-> prepared.draft.amount,
          from |-> prepared.from, net |-> prepared.net, tier |-> prepared.tier]

(* With, as history, what the review has shown and on which network (on),  *)
(* and whether the network is switched before getClient reads it.          *)
Submission(n, seen, coded) ==
    [n |-> n, kind |-> asset, at |-> IF asset = "hub" THEN "session" ELSE "sign",
     retried |-> FALSE, coded |-> coded, switched |-> FALSE,
     by |-> active, seen |-> seen, on |-> network, name |-> Draft.to, tx |-> Transaction]

(* handleSubmit and handleSign: the name must still be resolved, the       *)
(* transaction prepared.                                                   *)
Ready == IF asset = "btc" THEN prepared # None ELSE reviewed # None

Confirm ==
    /\ confirms < MaxConfirms
    /\ confirms' = confirms + 1 /\ UNCHANGED events
    /\ step = "review" /\ sending = None /\ otp = None
    /\ Ready
    /\ sending' = Submission(confirms', Shown, FALSE)
    /\ UNCHANGED <<page, step, asset, form, lookup, reviewed, tier, prep, prepared, otp, active, network, parked, restoring, chain, failures>>

At(where) == sending # None /\ sending.at = where

(* ensureSigningSessionForAccount is done: getClient takes the network of  *)
(* now, for which the hub builds and the node takes the transfer.          *)
GetClient ==
    /\ At("session")
    /\ sending' = [sending EXCEPT !.at = "sign", !.tx.net = network]
    /\ UNCHANGED <<page, step, asset, form, lookup, reviewed, tier, prep, prepared, otp, active, network, parked, restoring, chain, failures, confirms, events>>

(* An e-mail wallet without a session, or without the hub's, asks for a    *)
(* code on this page.                                                      *)
NeedCode ==
    /\ At("session") \/ At("sign")
    /\ sending.kind = "hub"
    /\ otp' = sending
    /\ sending' = None
    /\ UNCHANGED <<page, step, asset, form, lookup, reviewed, tier, prep, prepared, active, network, parked, restoring, chain, failures, confirms, events>>

(* The button of the gate: handleOtpReady of its render, once the code is  *)
(* verified, submits again with that render's account and name.            *)
EnterCode ==
    /\ otp # None
    /\ otp' = None
    /\ sending' = IF Ready THEN Submission(otp.n, otp.seen, TRUE) ELSE None
    /\ UNCHANGED <<page, step, asset, form, lookup, reviewed, tier, prep, prepared, active, network, parked, restoring, chain, failures, confirms, events>>

CancelCode ==
    /\ otp # None
    /\ otp' = None
    /\ UNCHANGED <<page, step, asset, form, lookup, reviewed, tier, prep, prepared, sending, active, network, parked, restoring, chain, failures, confirms, events>>

-----------------------------------------------------------------------------
(* blind: because a lookup failed, as the history remembers.               *)
Fails(blind) ==
    /\ failures' = failures \union {<<sending.n, blind>>}
    /\ sending' = None
    /\ UNCHANGED <<page, step, asset, form, lookup, reviewed, tier, prep, prepared, otp, active, network, parked, restoring, chain>>

(* The user or the signer refuses, the hub answers with an error.          *)
Refused == (At("session") \/ At("sign")) /\ Fails(FALSE) /\ UNCHANGED <<confirms, events>>

(* submitViaHub runs a second time, with the same client, when the first   *)
(* was refused for the API key or for an unknown resource.                 *)
Retry ==
    /\ At("sign") /\ sending.kind = "hub" /\ ~sending.retried
    /\ sending' = [sending EXCEPT !.retried = TRUE]
    /\ UNCHANGED <<page, step, asset, form, lookup, reviewed, tier, prep, prepared, otp, active, network, parked, restoring, chain, failures, confirms, events>>

(* Both ways of broadcasting ask for the network once more (getIndexer,    *)
(* getClient of the signers): another network's does not take the          *)
(* transaction, nor does any take bitcoin signed by another account.       *)
Acceptable ==
    /\ sending.tx.net = network
    /\ sending.kind = "btc" => sending.tx.from = sending.by

Accepted ==
    /\ At("sign") /\ Acceptable
    /\ chain' = chain \union {sending}
    /\ sending' = [sending EXCEPT !.at = "answer"]
    /\ UNCHANGED <<page, step, asset, form, lookup, reviewed, tier, prep, prepared, otp, active, network, parked, restoring, failures, confirms, events>>

(* The last step clears the checkpoint.                                    *)
Succeeds ==
    /\ step' = "done"
    /\ parked' = None
    /\ sending' = None
    /\ UNCHANGED <<page, asset, form, lookup, reviewed, tier, prep, prepared, otp, active, network, restoring, chain, failures>>

Answered == At("answer") /\ Succeeds /\ UNCHANGED <<confirms, events>>

Checks ==
    /\ sending' = [sending EXCEPT !.at = "check"]
    /\ UNCHANGED <<page, step, asset, form, lookup, reviewed, tier, prep, prepared, otp, active, network, parked, restoring, chain, failures>>

(* Mutant: an error of the broadcast is a failure.                         *)
AfterErrorFails == Fails(FALSE)

(* The call fails: broadcastOrReconcile looks for the transaction, the     *)
(* hub's client gives up.                                                  *)
AfterError == IF sending.kind = "hub" THEN Fails(FALSE) ELSE Checks

NotAccepted == At("sign") /\ AfterError /\ UNCHANGED <<confirms, events>>
AnswerLost == At("answer") /\ Event /\ AfterError

Checked ==
    /\ At("check")
    /\ IF \E s \in chain : s.tx = sending.tx THEN Succeeds ELSE Fails(FALSE)
    /\ UNCHANGED <<confirms, events>>

CheckFails == At("check") /\ Event /\ Fails(TRUE)

-----------------------------------------------------------------------------
(* resetFlow of the Send page.                                             *)
SendAnother ==
    /\ page = "send" /\ step = "done"
    /\ step' = "pick" /\ asset' = None /\ form' = None /\ reviewed' = None /\ lookup' = None
    /\ prepared' = None
    /\ parked' = None
    /\ UNCHANGED <<page, tier, prep, sending, otp, active, network, restoring, chain, failures, confirms, events>>

(* The header switches the account or the network under the page.          *)
SwitchAccount(a) ==
    /\ Event
    /\ a # active
    /\ active' = a
    /\ Park(step, asset, form, a, network)
    /\ UNCHANGED <<page, local, network, restoring, chain, failures>>

SwitchNetwork(n) ==
    /\ Event
    /\ n # network
    /\ network' = n
    /\ reviewed' = None /\ Relook(asset, form, n)
    /\ sending' = IF At("session") THEN [sending EXCEPT !.switched = TRUE] ELSE sending
    /\ Park(step, asset, form, active, n)
    /\ UNCHANGED <<page, step, asset, form, tier, prep, prepared, otp, active, restoring, chain, failures>>

(* The popup closes, at whatever step, and is opened again; leaving the    *)
(* form of a rune or an inscription drops the checkpoint.                  *)
Reopen ==
    /\ Event
    /\ step' = (IF page = "send" THEN "pick" ELSE "form")
    /\ asset' = (IF page = "send" THEN None ELSE "btc")
    /\ form' = None /\ lookup' = None /\ reviewed' = None
    /\ tier' = DefaultTier
    /\ prep' = None /\ prepared' = None /\ sending' = None /\ otp' = None
    /\ restoring' = [account |-> active, net |-> network]
    /\ \/ UNCHANGED parked
       \/ page # "send" /\ step = "form" /\ parked' = None
    /\ UNCHANGED <<page, active, network, chain, failures>>

(* The form is older than half an hour.                                    *)
Expire ==
    /\ parked # None
    /\ parked' = None
    /\ UNCHANGED <<page, local, active, network, restoring, chain, failures, confirms, events>>

(* loadSendForm answers: only for the account and network it was asked     *)
(* for.                                                                    *)
Restore ==
    /\ restoring # None
    /\ restoring' = None
    /\ IF parked # None /\ parked.account = restoring.account /\ parked.net = restoring.net
       THEN /\ form' = parked.form
            /\ asset' = parked.asset
            /\ step' = IF page = "send" THEN "form" ELSE step
            /\ reviewed' = None /\ Relook(parked.asset, parked.form, network)
            /\ Park(step', asset', form', active, network)
       ELSE UNCHANGED <<form, asset, step, reviewed, lookup, parked>>
    /\ UNCHANGED <<page, tier, prep, prepared, sending, otp, active, network, chain, failures, confirms, events>>

-----------------------------------------------------------------------------
Next ==
    \/ \E d \in Drafts : Type(d)
    \/ \E a \in {"btc", "hub"} : PickAsset(a)
    \/ \E t \in Tiers : SelectTier(t)
    \/ BackToPick \/ Resolved \/ ReviewHub \/ ReviewBtc \/ Prepared \/ BackToForm
    \/ Confirm \/ GetClient \/ NeedCode \/ EnterCode \/ CancelCode
    \/ Refused \/ Retry \/ Accepted \/ Answered \/ NotAccepted \/ AnswerLost \/ Checked \/ CheckFails
    \/ SendAnother \/ Reopen \/ Expire \/ Restore
    \/ \E a \in Accounts : SwitchAccount(a)
    \/ \E n \in Networks : SwitchNetwork(n)

Spec == Init /\ [][Next]_vars

-----------------------------------------------------------------------------
(* Send.tsx:1426: "Double-check the details before signing this            *)
(* transaction."  Whatever reaches the network is what the review showed   *)
(* when it was confirmed.                                                  *)
AsShown(s) == s.tx.to = s.seen.to /\ s.tx.amount = s.seen.amount
SentAsReviewed == \A s \in chain : AsShown(s)

(* Runes and inscriptions are sent as reviewed, and so are the hub's       *)
(* transfers unless a code was asked for in between.  However late a       *)
(* lookup answers, a transfer of the hub goes where the name in the form   *)
(* leads on the network of the review or, after a code, of the gate; it is *)
(* made on that network unless the header is switched before getClient.    *)
PaysAsReviewed ==
    \A s \in chain :
        /\ page # "send" \/ (s.kind = "hub" /\ ~s.coded) => AsShown(s)
        /\ s.kind = "hub" => /\ s.tx.to = Resolve[s.on][s.name]
                             /\ s.switched \/ s.tx.net = s.on

(* Fails: the review names the network (Send.tsx:1447-1454), handleSubmit  *)
(* awaits the signing session (Send.tsx:720) and takes the client after    *)
(* it.  A network switched meanwhile gets a transfer to the address the    *)
(* name has on the other one.  No run checks this.                         *)
PaidWhereReviewed ==
    \A s \in chain : s.kind = "hub" => s.tx.to = Resolve[s.tx.net][s.name]

(* broadcastOrReconcile: a bitcoin transaction that is on the network is    *)
(* reported as failed only when the lookup failed as well.                 *)
FailedIsUnsent == \A s \in chain : s.kind = "btc" => <<s.n, FALSE>> \notin failures
=============================================================================
