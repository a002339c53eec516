---------------------------- MODULE SdkSessions -----------------------------
(***************************************************************************)
(* The session a client of the SDK keeps (wallet-hub-sdk/src/client.ts):   *)
(* calls of routes that need one mint it with the configured signer, wait  *)
(* for a mint that is under way, and mint again once when the hub refuses  *)
(* the one they carried.  A step ends where a promise has to settle; what  *)
(* settles it and all the code that waited for it are one step.            *)
(***************************************************************************)
EXTENDS Naturals

CONSTANTS
    Calls,     \* invocations of requestJson
    MaxTokens, \* bound: sessions minted
    MaxLost,   \* bound: sessions that end at the hub or that the user drops
    None

VARIABLES
    token,  \* sessionToken
    gate,   \* mintInFlight: the mint whose promise it is
    mints,  \* mints under way; each asks the user to sign a challenge
    began,  \* how many began
    minted, \* how many sessions the hub gave out
    valid,  \* hub: those it still accepts
    lost,   \* how many ended, or were dropped by the user
    call    \* what each call does

vars == <<token, gate, mints, began, minted, valid, lost, call>>

Tokens == 1..MaxTokens
Idle == [kind |-> None, at |-> "idle", try |-> 0, carries |-> None, result |-> None]

TypeOK ==
    /\ token \in Tokens \union {None}
    /\ gate \in 1..began \union {None} /\ mints \subseteq 1..began
    /\ minted \in 0..MaxTokens /\ valid \subseteq 1..minted
    /\ call \in [Calls -> [kind: {"enforced", "open", "revoke", None},
                           at: {"idle", "mint", "sent", "done"}, try: 0..2,
                           carries: Tokens \union {None},
                           result: {"answer", "unauthorized", "failed", None}]]

Init ==
    /\ token = None /\ gate = None /\ mints = {} /\ began = 0
    /\ minted = 0 /\ valid = {} /\ lost = 0
    /\ call = [c \in Calls |-> Idle]

-----------------------------------------------------------------------------
(* fetchOnce: the session goes with the request that is sent.              *)
Sent(k, t) == [k EXCEPT !.at = "sent", !.try = @ + 1, !.carries = t]
Done(k, r) == [k EXCEPT !.at = "done", !.result = r]

(* Mutant: every call mints for itself.                                    *)
RefreshAlone ==
    /\ began' = began + 1
    /\ gate' = began'
    /\ mints' = mints \union {began'}

(* refreshSession, up to the signature.                                    *)
Refresh ==
    IF gate # None THEN UNCHANGED <<gate, mints, began>>
    ELSE /\ began' = began + 1
         /\ gate' = began'
         /\ mints' = mints \union {began'}

(* A call, up to its first wait.  revokeSession needs a session to revoke. *)
Begin(c, k) ==
    /\ call[c].at = "idle"
    /\ k = "revoke" => token # None
    /\ IF k = "enforced" /\ token = None
       THEN /\ call' = [call EXCEPT ![c] = [Idle EXCEPT !.kind = k, !.at = "mint"]]
            /\ Refresh
       ELSE /\ call' = [call EXCEPT ![c] = Sent([Idle EXCEPT !.kind = k], token)]
            /\ UNCHANGED <<gate, mints, began>>
    /\ UNCHANGED <<token, minted, valid, lost>>

(* Whoever waited goes on with the session there is by then.  A mint that  *)
(* failed ends the call it held up; one that found no signer does not.     *)
GoOn(k, how, t) ==
    IF k.at # "mint" THEN k
    ELSE IF k.try = 0 THEN IF how = "error" THEN Done(k, "failed") ELSE Sent(k, t)
    ELSE IF t = None THEN Done(k, "unauthorized") ELSE Sent(k, t)

MintEnds(m, how) ==
    /\ m \in mints
    /\ mints' = mints \ {m}
    /\ gate' = None
    /\ IF how = "session"
       THEN /\ minted < MaxTokens
            /\ minted' = minted + 1
            /\ valid' = valid \union {minted'}
            /\ token' = minted'
       ELSE UNCHANGED <<minted, valid, token>>
    /\ call' = [c \in Calls |-> GoOn(call[c], how, token')]
    /\ UNCHANGED <<began, lost>>

-----------------------------------------------------------------------------
Accepted(k) == k.kind = "open" \/ k.carries \in valid

(* The hub answers; revokeSession then drops the session the client has.   *)
Answers(c) ==
    /\ call[c].at = "sent" /\ Accepted(call[c])
    /\ call' = [call EXCEPT ![c] = Done(@, "answer")]
    /\ IF call[c].kind = "revoke"
       THEN /\ valid' = valid \ {call[c].carries}
            /\ token' = None
            /\ lost' = lost + 1
       ELSE UNCHANGED <<valid, token, lost>>
    /\ UNCHANGED <<gate, mints, began, minted>>

(* 401.  The first time the session of the client is dropped, be it the    *)
(* one that was refused or not, and another is minted.                     *)
Refuses(c) ==
    /\ call[c].at = "sent" /\ ~Accepted(call[c])
    /\ IF call[c].kind = "enforced" /\ call[c].try = 1
       THEN /\ token' = None
            /\ call' = [call EXCEPT ![c].at = "mint"]
            /\ Refresh
       ELSE /\ call' = [call EXCEPT ![c] = Done(@, "unauthorized")]
            /\ UNCHANGED <<token, gate, mints, began>>
    /\ UNCHANGED <<minted, valid, lost>>

(* Any other error, and the request that timed out.                        *)
Fails(c) ==
    /\ call[c].at = "sent"
    /\ call' = [call EXCEPT ![c] = Done(@, "failed")]
    /\ UNCHANGED <<token, gate, mints, began, minted, valid, lost>>

(* setSessionToken(undefined).                                             *)
Drop ==
    /\ token # None /\ lost < MaxLost
    /\ token' = None
    /\ lost' = lost + 1
    /\ UNCHANGED <<gate, mints, began, minted, valid, call>>

(* A session ends at the hub.                                              *)
Ends(t) ==
    /\ t \in valid /\ lost < MaxLost
    /\ valid' = valid \ {t}
    /\ lost' = lost + 1
    /\ UNCHANGED <<token, gate, mints, began, minted, call>>

Next ==
    \/ \E c \in Calls : \/ \E k \in {"enforced", "open", "revoke"} : Begin(c, k)
                        \/ Answers(c) \/ Refuses(c) \/ Fails(c)
    \/ \E m \in mints, how \in {"session", "none", "error"} : MintEnds(m, how)
    \/ \E t \in Tokens : Ends(t)
    \/ Drop

Spec == Init /\ [][Next]_vars

-----------------------------------------------------------------------------
(* However calls begin and are refused at the same time, the user is asked *)
(* for one signature at a time, and the gate opens again after it.         *)
OnePrompt == mints = {gate} \ {None}

(* client.ts: "De-dupes concurrent mints so N parallel enforced calls mint *)
(* once."  There are as many sessions as were needed.                      *)
MintsOnce == minted <= lost + 1
=============================================================================
