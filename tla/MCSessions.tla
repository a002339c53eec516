----------------------------- MODULE MCSessions ------------------------------
(***************************************************************************)
(* The four places of the extension and its SDK that keep a session: the   *)
(* signing sessions of its documents, the gate that asks for an e-mailed   *)
(* code, the hub's sessions per account, and the one of an SDK client.     *)
(* `part` says which of them moves in a behaviour while the others stand   *)
(* still.                                                                  *)
(***************************************************************************)
EXTENDS WalletSessions

CONSTANTS popup, panel, a1, a2, c1, c2, c3, Wallets, Offers, MaxGates, MaxChallenges, MaxEvents,
          Uses, MaxHubSessions, MaxLost

\* Gates and challenges are numbered, and the hub offers wallets.
ASSUME GatesOK == MaxGates \in Nat /\ MaxChallenges \in Nat
ASSUME OffersOK == Offers \subseteq SUBSET Wallets /\ None \notin Wallets

VARIABLES known, active, session, gate, asked, stage, pair, inits, checks, mailed, challenges,
          resumed, backedOut, events
gateVars == <<known, active, session, gate, asked, stage, pair, inits, checks, mailed, challenges,
              resumed, backedOut, events>>
Gate == INSTANCE CodeGate

VARIABLES stored, attached, shown, locked, live, tokenOwner, stale, use, moves
tokenVars == <<stored, attached, shown, locked, live, tokenOwner, stale, use, moves>>
Tokens == INSTANCE HubTokens WITH
    Docs <- Realms, Calls <- Uses, MaxTokens <- MaxHubSessions,
    client <- attached, active <- shown, owner <- tokenOwner, expired <- stale,
    call <- use, events <- moves

VARIABLES token, mintInFlight, mints, began, given, valid, lost, request
sdkVars == <<token, mintInFlight, mints, began, given, valid, lost, request>>
Sdk == INSTANCE SdkSessions WITH
    MaxTokens <- MaxKeys, gate <- mintInFlight, minted <- given, call <- request

VARIABLE part
allVars == <<vars, gateVars, tokenVars, sdkVars, part>>

MCInit ==
    /\ Init /\ Gate!Init /\ Tokens!Init /\ Sdk!Init
    /\ active = a1 /\ shown = a1
    /\ part \in {"signing", "gate", "tokens", "sdk"}

\* Realms, accounts and calls are alike: calls begin in order, the first in the
\* popup for the first account; so do the uses of the hub.
InOrder == \E c \in Calls :
    /\ pc[c] = "idle"
    /\ pc[c2] = "idle" => c # c3
    /\ pc[c1] = "idle" => c = c1
    /\ Begin(c)
    /\ c = c1 => call'[c].realm = popup /\ call'[c].account = a1
UsesInOrder == \A c \in Uses : use[c].at = "idle" /\ use'[c].at # "idle" =>
    /\ c = c2 => use[c1].at # "idle"
    /\ c = c1 => use'[c].doc \in {popup, None}

MCNext ==
    \/ part = "signing" /\ Next /\ ((\E c \in Calls : call'[c] # call[c]) => InOrder)
       /\ UNCHANGED <<gateVars, tokenVars, sdkVars, part>>
    \/ part = "gate" /\ Gate!Next /\ UNCHANGED <<vars, tokenVars, sdkVars, part>>
    \/ part = "tokens" /\ Tokens!Next /\ UsesInOrder
       /\ UNCHANGED <<vars, gateVars, sdkVars, part>>
    \/ part = "sdk" /\ Sdk!Next /\ UNCHANGED <<vars, gateVars, tokenVars, part>>

MCSpec == MCInit /\ [][MCNext]_allVars /\ Gate!Deadlines

\* Of CodeGate: a page goes on only after a code mailed for its own wallet, the
\* gate never waits for ever, and a gate that was cancelled lets nothing go on.
ResumesForVerified == Gate!ResumesForVerified
WaitsEnd == Gate!WaitsEnd
CancelIsFinal == Gate!CancelIsFinal
\* Of HubTokens: a stored session is of the account it is stored for.
TokensFit == Tokens!TokensFit
\* Of SdkSessions: the user is asked for one signature at a time.
OnePrompt == Sdk!OnePrompt
=============================================================================
