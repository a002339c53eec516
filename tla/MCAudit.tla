------------------------------- MODULE MCAudit -------------------------------
(***************************************************************************)
(* The two models of the audit log in one instance: `part` says which of   *)
(* them moves in a behaviour while the other stands still.                 *)
(***************************************************************************)
EXTENDS AuditChain, TLC

CONSTANTS t1, t2, t3, MaxWrites, MaxDamage,
          popup, panel, sign, connect, MaxTime, MaxMoves, None
VARIABLES table, events, copy, damage,
          call, windows, opened, tab, inFlight, alarm, hold, suppressed, waiting, open,
          focus, watch, now, moves,
          part

\* The bounds are numbers.
ASSUME WritesAssumption == MaxWrites \in Nat
ASSUME DamageAssumption == MaxDamage \in Nat

damageVars == <<table, events, copy, damage>>
Damage == INSTANCE AuditDamage WITH log <- table, Ids <- 1..MaxWrites,
                                    Payloads <- {"object", "null"}

connVars == <<call, windows, opened, tab, inFlight, alarm, hold, suppressed, waiting, open,
              focus, watch, now, moves>>
\* A window of its own has a PSBT signed, a side panel connects.  Times are in
\* minutes: BRIDGE_TIMEOUT_MS and HOLD_TTL_MS.
Conn == INSTANCE Connector WITH
    Docs <- {popup, panel}, Floating <- {popup}, Calls <- {sign, connect},
    Doc <- (sign :> popup @@ connect :> panel),
    Method <- (sign :> "signPsbt" @@ connect :> "connect"),
    Limit <- [connect |-> 2, signMessage |-> 3, signPsbt |-> 4, signBtcPsbt |-> 4],
    HoldTicks <- 3, MaxEvents <- MaxMoves, chain <- waiting, events <- moves

MCTxs == {t1, t2, t3}
MCIds == MCTxs \X (1..2)

MCInit == /\ Init
          /\ Damage!Init
          /\ Conn!Init
          /\ part \in {"chain", "damage", "connector"}

MCNext == \/ part = "chain" /\ Next /\ UNCHANGED <<damageVars, connVars, part>>
          \/ part = "damage" /\ Damage!Next /\ UNCHANGED <<vars, connVars, part>>
          \/ part = "connector" /\ Conn!Next /\ UNCHANGED <<vars, damageVars, part>>

\* As Connector!Fairness, where the connector moves.
ConnectorFairness ==
    /\ \A c \in {sign, connect} : WF_connVars(part = "connector" /\ Conn!Works(c))
    /\ \A d \in {popup, panel} :
         /\ WF_connVars(part = "connector" /\ (Conn!ReadHold(d) \/ Conn!WriteHold(d)))
         /\ WF_connVars(part = "connector" /\ (Conn!Dismiss(d) \/ Conn!Stay(d)))
    /\ WF_connVars(part = "connector" /\ Conn!SuppressEnds)
    /\ SF_connVars(part = "connector" /\ Conn!Tick)

MCSpec == /\ MCInit /\ [][MCNext]_<<vars, damageVars, connVars, part>>
          /\ ConnectorFairness

\* Of AuditDamage: the verifier accepts a table if and only if writing the
\* events of its rows into an empty table makes it.
VerifiesReplays == Damage!VerifiesReplays

\* Of Connector: however windows open, close and lose the focus, no call
\* leaves its document waiting.
CallsEnd == Conn!CallsEnd
=============================================================================
