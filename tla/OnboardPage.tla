----------------------------- MODULE OnboardPage -----------------------------
(***************************************************************************)
(* The page that makes or links a wallet (pages/Onboarding/Onboarding.tsx),*)
(* on the first run and again for each wallet that is added: a flow runs   *)
(* from the last click of the wizard to the account on the device.  The    *)
(* page that shows its spinner may be left before it ends.                 *)
(*                                                                         *)
(* Left out: the wizard before that click, the hand-over of a passkey or   *)
(* external flow to a window of its own, and plaintext states of old       *)
(* versions.                                                               *)
(***************************************************************************)
EXTENDS Naturals

CONSTANTS
    Flows,     \* a flow is also the wallet it makes
    MaxMounts, \* bound: how often the page is opened
    None

VARIABLES
    page,      \* what the page shows
    adding,    \* addMode
    mounts,    \* how often it was opened
    flow,      \* the callback of each flow and what it has captured
    made,      \* wallets the hub has
    device,    \* the accounts of the sealed state
    locked,
    cancelled, \* history: flows the user was told were cancelled
    stored,    \* history: flows whose account was written to the device,
    overlapped \* and those that ran beside another

vars == <<page, adding, mounts, flow, made, device, locked, cancelled, stored, overlapped>>
history == <<cancelled, stored, overlapped>>

Methods == {"passkey", "email", "external"}

(* What each callback awaits, in order.                                    *)
After == [passkey  |-> [build |-> "config", config |-> "ceremony",
                        ceremony |-> "create", create |-> "save"],
          email    |-> [build |-> "create", create |-> "save"],
          external |-> [build |-> "connect", connect |-> "challenge", challenge |-> "sign",
                        sign |-> "create", create |-> "save"]]

Idle == [at |-> "idle", method |-> None, adds |-> FALSE, mount |-> 0,
         copy |-> {}]
UnderWay == {f \in Flows : flow[f].at \notin {"idle", "done", "failed"}}

Init ==
    /\ page = "wizard" /\ adding = FALSE /\ mounts = 1
    /\ flow = [f \in Flows |-> Idle]
    /\ made = {} /\ device = {} /\ locked = FALSE
    /\ cancelled = {} /\ stored = {} /\ overlapped = {}

Goes(f, at) == flow' = [flow EXCEPT ![f].at = at]

-----------------------------------------------------------------------------
(* submitWizard: the callback keeps what was typed and the mode it was     *)
(* made for.                                                               *)
Submit(f, m) ==
    /\ page = "wizard" /\ flow[f].at = "idle"
    /\ flow' = [flow EXCEPT ![f] = [at |-> "build", method |-> m,
                                    adds |-> adding, mount |-> mounts, copy |-> {}]]
    /\ page' = "creating"
    /\ overlapped' = IF UnderWay = {} THEN overlapped ELSE overlapped \union UnderWay \union {f}
    /\ UNCHANGED <<adding, mounts, made, device, locked, cancelled, stored>>

Calling(f) == f \in UnderWay /\ flow[f].at \notin {"save", "write"}
GoesOn(f) == Goes(f, After[flow[f].method][flow[f].at])

(* buildClient, and the calls that change nothing of lasting effect.       *)
Advance(f) ==
    /\ Calling(f) /\ flow[f].at \notin {"ceremony", "create"}
    /\ GoesOn(f)
    /\ UNCHANGED <<page, adding, mounts, made, device, locked, history>>

(* runHostedPasskey: the page on wallet.arch.network answers.              *)
Ceremony(f) ==
    /\ flow[f].at = "ceremony"
    /\ GoesOn(f)
    /\ UNCHANGED <<page, adding, mounts, made, device, locked, history>>

(* The hub makes the wallet, or links the one whose owner has signed.      *)
Create(f) ==
    /\ flow[f].at = "create"
    /\ GoesOn(f)
    /\ made' = made \union {f}
    /\ UNCHANGED <<page, adding, mounts, device, locked, history>>

(* The catch clauses: setStep, if the page is the one the flow began on.   *)
Fail(f) ==
    /\ Goes(f, "failed")
    /\ page' = IF page # "left" /\ flow[f].mount = mounts THEN "wizard" ELSE page

(* A call fails or times out, or the passkey page is closed; the hub may   *)
(* have made the wallet all the same.                                      *)
CallFails(f) ==
    /\ Calling(f)
    /\ Fail(f)
    /\ \/ UNCHANGED made
       \/ flow[f].at = "create" /\ made' = made \union {f}
    /\ UNCHANGED <<adding, mounts, device, locked, history>>

(* finishOnboarding goes to the dashboard from wherever the user is.       *)
Stores(f, state) ==
    /\ device' = state
    /\ stored' = stored \union {f}
    /\ Goes(f, "done")
    /\ page' = "left"

(* Mutant: the mode is not looked at.                                      *)
SealAlways(f) ==
    /\ flow[f].at = "save"
    /\ Stores(f, {f})
    /\ locked' = FALSE
    /\ UNCHANGED <<adding, mounts, made, cancelled, overlapped>>

(* completeOnboarding seals a new state over whatever there is.            *)
Seal(f) ==
    /\ flow[f].at = "save" /\ ~flow[f].adds
    /\ Stores(f, {f})
    /\ locked' = FALSE
    /\ UNCHANGED <<adding, mounts, made, cancelled, overlapped>>

(* addAccount reads the state and writes it back; both take the key.       *)
ReadState(f) ==
    /\ flow[f].at = "save" /\ flow[f].adds /\ ~locked
    /\ flow' = [flow EXCEPT ![f].at = "write", ![f].copy = device]
    /\ UNCHANGED <<page, adding, mounts, made, device, locked, history>>

WriteState(f) ==
    /\ flow[f].at = "write" /\ ~locked
    /\ Stores(f, flow[f].copy \union {f})
    /\ UNCHANGED <<adding, mounts, made, locked, cancelled, overlapped>>

SaveFails(f) ==
    /\ flow[f].at \in {"save", "write"}
    /\ Fail(f)
    /\ UNCHANGED <<adding, mounts, made, device, locked, history>>

-----------------------------------------------------------------------------
(* "Cancel and go back": the flow is not told.                             *)
Cancel ==
    /\ page = "creating"
    /\ page' = "wizard"
    /\ cancelled' = cancelled \union {f \in UnderWay : flow[f].mount = mounts}
    /\ UNCHANGED <<adding, mounts, flow, made, device, locked, stored, overlapped>>

(* /add-wallet                                                             *)
AddWallet ==
    /\ page = "left" /\ device # {} /\ ~locked /\ mounts < MaxMounts
    /\ page' = "wizard" /\ adding' = TRUE /\ mounts' = mounts + 1
    /\ UNCHANGED <<flow, made, device, locked, history>>

(* The wallet locks: the page makes room for the unlock page.              *)
Lock ==
    /\ device # {} /\ ~locked
    /\ locked' = TRUE /\ page' = "left"
    /\ UNCHANGED <<adding, mounts, flow, made, device, history>>

Unlock ==
    /\ locked
    /\ locked' = FALSE
    /\ UNCHANGED <<page, adding, mounts, flow, made, device, history>>

(* The document closes, and its callbacks with it.                         *)
Close ==
    /\ mounts < MaxMounts
    /\ mounts' = mounts + 1
    /\ flow' = [f \in Flows |-> IF f \in UnderWay THEN [flow[f] EXCEPT !.at = "failed"] ELSE flow[f]]
    /\ page' = IF device = {} THEN "wizard" ELSE "left"
    /\ UNCHANGED <<adding, made, device, locked, history>>

Next ==
    \/ \E f \in Flows :
         \/ \E m \in Methods : Submit(f, m)
         \/ Advance(f) \/ Ceremony(f) \/ Create(f) \/ CallFails(f)
         \/ Seal(f) \/ ReadState(f) \/ WriteState(f) \/ SaveFails(f)
    \/ Cancel \/ AddWallet \/ Lock \/ Unlock \/ Close

Spec == Init /\ [][Next]_vars

-----------------------------------------------------------------------------
(* An account that was written stays on the device, and the hub knows its  *)
(* wallet, however pages are left, locked and opened again; unless its     *)
(* flow ran beside another (completeOnboarding, addAccount).               *)
StoredStays == stored \ overlapped \subseteq device /\ device \subseteq made

(* "Wallet creation was cancelled.  You can try again."                    *)
CancelledStays == cancelled \intersect device = {}
=============================================================================
