--------------------------- MODULE SwapOnboarding ---------------------------
(***************************************************************************)
(* Readying an account for swaps: the hook useArchOnboarding of the        *)
(* extension with its probes, and the idempotent flow ensureOnboarding of  *)
(* the swap engine (wallet/onboarding.ts, readiness.ts, account-           *)
(* eligibility.ts), which makes the account at the chain and then its      *)
(* token accounts.                                                         *)
(*                                                                         *)
(* An account stands here for one account on one network.  Nothing is      *)
(* removed from the chain; the indexer may answer late or not at all, and  *)
(* then a read says that nothing is there.  Left out: the faucet, which no *)
(* network has configured.                                                 *)
(***************************************************************************)
EXTENDS Naturals, FiniteSets

CONSTANTS
    Accounts, Mainnet, \* those on mainnet
    Tokens,            \* the mints a network supports
    MaxProbes,         \* bound: probes begun
    MaxEvents,         \* bound: switches and failures
    None

VARIABLES
    account,           \* the active one
    probe,             \* probeTokenRef
    probing,           \* the probes that have not answered
    status,            \* "unknown", "probing", "ready", "needs-onboarding", "error"
    read,              \* whose answer status is
    flow,              \* initialize()
    exists,            \* at the chain: "missing", "underfunded" or "eligible"
    atas,              \* at the chain: the token accounts
    pending,           \* transactions that were submitted and have not landed
    events

hook == <<probe, probing, status, read>>
chain == <<exists, atas, pending>>
vars == <<account, hook, flow, chain, events>>

Event == events < MaxEvents /\ events' = events + 1

-----------------------------------------------------------------------------
(* What one read of the account, and one of each token account, may say.   *)

readFeePayerEligibility(a) == {exists[a] = "eligible", FALSE}
missingAtas(a) == {Tokens \ seen : seen \in SUBSET atas[a]}

(* probeSwapAccountReadiness                                               *)
isReady(a) == {e /\ m = {} : e \in readFeePayerEligibility(a), m \in missingAtas(a)}

(* runProbe, of the account the callback was made for.                     *)
runProbe(a) ==
    /\ probe < MaxProbes
    /\ probe' = probe + 1
    /\ status' = "probing"
    /\ probing' = probing \union {[token |-> probe + 1, of |-> a]}
    /\ UNCHANGED read

Latest(p) == p.token = probe

Probed ==
    /\ \E p \in probing :
         /\ probing' = probing \ {p}
         /\ IF ~Latest(p) THEN UNCHANGED <<status, read, events>>
            ELSE \/ /\ \E ready \in isReady(p.of) :
                         status' = IF ready THEN "ready" ELSE "needs-onboarding"
                    /\ read' = p.of
                    /\ UNCHANGED events
                 \/ status' = "error" /\ read' = p.of /\ Event
    /\ UNCHANGED <<account, probe, flow, chain>>

Switch ==
    /\ Event
    /\ \E a \in Accounts \ {account} : account' = a /\ runProbe(a)
    /\ UNCHANGED <<flow, chain>>

-----------------------------------------------------------------------------
(* initialize() of the account of its render: one at a time.               *)
At(step) == flow' = [flow EXCEPT !.at = step]
Throw == flow' = None /\ status' = "error" /\ UNCHANGED <<probe, probing, read>>
Begun == [of |-> account, kind |-> "account", at |-> "session", missing |-> {}, result |-> None]

(* OnboardingPanel shows the button in these states only.  On mainnet the  *)
(* account itself is made elsewhere.                                       *)
Initialize ==
    /\ flow = None /\ status \in {"needs-onboarding", "error"}
    /\ \/ account \notin Mainnet /\ flow' = Begun /\ UNCHANGED hook
       \/ /\ account \in Mainnet
          /\ \E eligible \in readFeePayerEligibility(account) :
               IF eligible THEN flow' = Begun /\ UNCHANGED hook ELSE Throw
    /\ UNCHANGED <<account, chain, events>>

(* The session of the signer opens, or does not.                           *)
OpenSession ==
    /\ flow.at = "session"
    /\ \/ At("check") /\ UNCHANGED <<hook, events>>
       \/ Throw /\ Event
    /\ UNCHANGED chain

(* createAccountIfNeeded, createAssociatedTokenAccountsIfNeeded: one       *)
(* transaction makes every token account that was not read.                *)
Check ==
    /\ flow.at = "check"
    /\ \E eligible \in readFeePayerEligibility(flow.of), missing \in missingAtas(flow.of) :
         LET there == IF flow.kind = "account" THEN eligible ELSE missing = {}
         IN  flow' = [flow EXCEPT !.at = IF there THEN "verify" ELSE "sign",
                                  !.missing = IF flow.kind = "account" THEN {} ELSE missing]
    /\ UNCHANGED <<hook, chain, events>>

(* The wallet signs and the transaction is submitted.  A refusal to sign   *)
(* ends the flow; an answer that says no, or is lost, has it read again.   *)
Submit ==
    LET tx == [of |-> flow.of, kind |-> flow.kind, makes |-> flow.missing]
    IN  /\ flow.at = "sign"
        /\ \/ /\ pending' = pending \union {tx}
              /\ At("confirm") /\ UNCHANGED <<hook, events>>
           \/ /\ Event
              /\ pending' \in {pending, pending \union {tx}}
              /\ At("recheck") /\ UNCHANGED hook
           \/ Event /\ Throw /\ UNCHANGED pending
        /\ UNCHANGED <<exists, atas>>

(* waitForConfirmation: processed, or failed, or given up.                 *)
Confirm ==
    /\ flow.at = "confirm"
    /\ \/ flow.result = "processed" /\ At("verify") /\ UNCHANGED events
       \/ flow.result = "failed" /\ At("recheck") /\ UNCHANGED events
       \/ flow.result = None /\ At("recheck") /\ Event
    /\ UNCHANGED <<hook, chain>>

(* Mutant: a recheck that cannot read what is there takes it to be there.  *)
ThereUnread == BOOLEAN

(* accountAlreadyExists, tokenAccountsAlreadyExist                         *)
There == IF flow.kind = "account" THEN readFeePayerEligibility(flow.of)
         ELSE {m = {} : m \in missingAtas(flow.of)}

(* A recheck that finds it ends the step without the verification; one     *)
(* that does not throws the error that led to it.  The token accounts come *)
(* after the account.                                                      *)
Recheck ==
    /\ flow.at \in {"recheck", "verify"}
    /\ \E there \in There :
         IF ~there THEN Throw
         ELSE /\ flow' = IF flow.kind = "tokens" THEN [flow EXCEPT !.at = "done"]
                         ELSE [flow EXCEPT !.at = "check", !.kind = "tokens", !.result = None]
              /\ UNCHANGED hook
    /\ UNCHANGED <<chain, events>>

(* Re-probes with the callback of the render it began in.                  *)
Finish ==
    /\ flow.at = "done"
    /\ runProbe(flow.of)
    /\ At("probing")
    /\ UNCHANGED <<chain, events>>

End ==
    /\ flow.at = "probing"
    /\ \A p \in probing : p.of # flow.of
    /\ flow' = None
    /\ UNCHANGED <<hook, chain, events>>

Step == /\ flow # None
        /\ \/ OpenSession \/ Check \/ Submit \/ Confirm \/ Recheck \/ Finish \/ End
        /\ UNCHANGED account

-----------------------------------------------------------------------------
Told(t, result) ==
    flow' = IF flow # None /\ flow.at = "confirm" /\ flow.of = t.of /\ flow.kind = t.kind
            THEN [flow EXCEPT !.result = result] ELSE flow

(* A transaction lands or is refused.  The faucet may give too little; a   *)
(* transaction for token accounts is paid by the account, and on mainnet   *)
(* it fails whole when one of them is there.                               *)
Land ==
    /\ \E t \in pending :
         /\ pending' = pending \ {t}
         /\ \/ /\ t.kind = "account"
               /\ \E e \in {"underfunded", "eligible"} :
                    exists' = [exists EXCEPT ![t.of] = IF @ = "eligible" THEN @ ELSE e]
               /\ Told(t, "processed")
               /\ UNCHANGED atas
            \/ /\ t.kind = "tokens" /\ exists[t.of] = "eligible"
               /\ t.of \in Mainnet => t.makes \intersect atas[t.of] = {}
               /\ atas' = [atas EXCEPT ![t.of] = @ \union t.makes]
               /\ Told(t, "processed")
               /\ UNCHANGED exists
            \/ Told(t, "failed") /\ UNCHANGED <<exists, atas>>
    /\ UNCHANGED <<account, hook, events>>

(* The airdrop of the dashboard makes the account alone.                   *)
Airdrop ==
    /\ exists[account] # "eligible" /\ account \notin Mainnet
    /\ Event
    /\ exists' = [exists EXCEPT ![account] = "eligible"]
    /\ UNCHANGED <<account, hook, flow, atas, pending>>

Init ==
    /\ account \in Accounts
    /\ probe = 1 /\ probing = {[token |-> 1, of |-> account]}
    /\ status = "probing" /\ read = None /\ flow = None
    /\ exists \in [Accounts -> {"missing", "underfunded", "eligible"}]
    /\ atas = [a \in Accounts |-> {}]
    /\ pending = {} /\ events = 0

Next == Probed \/ Switch \/ Initialize \/ Step \/ Land \/ Airdrop

Spec == Init /\ [][Next]_vars

-----------------------------------------------------------------------------
Readied(a) == exists[a] = "eligible" /\ atas[a] = Tokens

(* However a submission, its confirmation and the reads after it go, an    *)
(* initialization that does not throw, and a status of ready, are of an    *)
(* account that is at the chain with all its token accounts                *)
(* (ensureOnboarding, runProbe).                                           *)
OnboardedIsThere ==
    /\ flow # None /\ flow.at \in {"done", "probing"} => Readied(flow.of)
    /\ status = "ready" => Readied(read)

(* useArchOnboarding.ts: "Ref to bail out of stale async results when the  *)
(* user flips accounts mid-probe."                                         *)
StatusIsActives == status \in {"ready", "needs-onboarding"} => read = account
=============================================================================
