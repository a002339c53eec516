----------------------------- MODULE HubTokens ------------------------------
(***************************************************************************)
(* The hub's sessions in the extension: chrome.storage.session keeps one   *)
(* per account (utils/hub-session-store.ts), getClient attaches that of    *)
(* the active account to the client of its document (utils/sdk.ts), and    *)
(* ensureHubSession mints one for the account that is about to sign        *)
(* (utils/hub-session.ts, session/hub-session-recovery.ts).  A function is *)
(* cut at its awaits.  The map is written as a whole, from a copy.         *)
(***************************************************************************)
EXTENDS Naturals

CONSTANTS
    Docs,      \* documents of the extension, with a client each
    Accounts,
    Calls,     \* uses of the hub
    MaxTokens, \* bound: sessions minted
    MaxEvents, \* bound: switches and locks
    None

VARIABLES
    stored,  \* the map of storage.session
    client,  \* the session attached to the client of each document
    active, locked,
    live,    \* the account whose signing session is open
    owner,   \* hub: the account each session was minted for
    expired, \* sessions within a minute of their end
    call,    \* what each call does
    events

vars == <<stored, client, active, locked, live, owner, expired, call, events>>

Tokens == 1..MaxTokens
Maps == [Accounts -> Tokens \union {None}]
Empty == [a \in Accounts |-> None]
Idle == [kind |-> None, doc |-> None, account |-> None, by |-> None, at |-> "idle",
         copy |-> Empty, token |-> None, again |-> FALSE]

TypeOK ==
    /\ stored \in Maps /\ client \in [Docs -> Tokens \union {None}]
    /\ active \in Accounts /\ locked \in BOOLEAN /\ live \in Accounts \union {None}
    /\ owner \in [Tokens -> Accounts \union {None}]
    /\ \A c \in Calls : call[c].at \in {"idle", "attach", "read", "sign", "mint", "copy", "write", "prune", "send", "done"}

Init ==
    /\ stored = Empty /\ client = [d \in Docs |-> None]
    /\ active \in Accounts /\ locked = FALSE /\ live = None
    /\ owner = [t \in Tokens |-> None] /\ expired = {}
    /\ call = [c \in Calls |-> Idle]
    /\ events = 0

Event == events < MaxEvents /\ events' = events + 1

-----------------------------------------------------------------------------
(* getClient, up to its first await: the account that is active now.       *)
Begin(c, k, d, a) ==
    /\ call[c].at = "idle" /\ ~locked
    /\ call' = [call EXCEPT ![c] = [Idle EXCEPT !.kind = k, !.doc = d, !.account = a, !.by = active, !.at = "attach"]]
    /\ UNCHANGED <<stored, client, active, locked, live, owner, expired, events>>

(* readHubToken: a session that ends soon is no session, and is removed.   *)
Read(a) == IF stored[a] \in expired THEN None ELSE stored[a]

(* attachActiveSessionToken, with the pruning left to Prune.               *)
Attach(c) ==
    LET k == call[c] IN
    /\ k.at = "attach"
    /\ client' = [client EXCEPT ![k.doc] = Read(k.by)]
    /\ call' = [call EXCEPT ![c].at = IF k.kind = "use" THEN "send" ELSE "read"]
    /\ UNCHANGED <<stored, active, locked, live, owner, expired, events>>

(* ensureHubSession reads the account's own session.                       *)
ReadOwn(c) ==
    LET k == call[c] IN
    /\ k.at = "read"
    /\ IF Read(k.account) # None
       THEN /\ client' = [client EXCEPT ![k.doc] = Read(k.account)]
            /\ call' = [call EXCEPT ![c].at = "send"]
       ELSE /\ call' = [call EXCEPT ![c].at = "sign"]
            /\ UNCHANGED client
    /\ UNCHANGED <<stored, active, locked, live, owner, expired, events>>

(* The signing session stamps the hub's challenge.  Without one for the    *)
(* account it is opened afresh, once, and the mint begins again.           *)
Sign(c) ==
    LET k == call[c] IN
    /\ k.at = "sign"
    /\ \/ /\ live = k.account
          /\ call' = [call EXCEPT ![c].at = "mint"]
          /\ UNCHANGED live
       \/ /\ ~k.again /\ ~locked
          /\ live' = k.account
          /\ call' = [call EXCEPT ![c].again = TRUE, ![c].by = active, ![c].at = "attach"]
       \/ /\ call' = [call EXCEPT ![c].at = "done"]
          /\ UNCHANGED live
    /\ UNCHANGED <<stored, client, active, locked, owner, expired, events>>

Mint(c) ==
    LET k == call[c] IN
    /\ k.at = "mint"
    /\ \E t \in Tokens :
          /\ owner[t] = None
          /\ \A u \in 1..t - 1 : owner[u] # None
          /\ owner' = [owner EXCEPT ![t] = k.account]
          /\ call' = [call EXCEPT ![c].at = "copy", ![c].token = t]
    /\ UNCHANGED <<stored, client, active, locked, live, expired, events>>

(* writeHubToken: a copy of the map is read, changed and written.          *)
Copy(c) ==
    /\ call[c].at = "copy"
    /\ call' = [call EXCEPT ![c].at = "write", ![c].copy = stored]
    /\ UNCHANGED <<stored, client, active, locked, live, owner, expired, events>>

(* Mutant: the session is filed under the account that is active.          *)
WriteForActive(c) ==
    LET k == call[c] IN
    /\ k.at = "write"
    /\ stored' = [k.copy EXCEPT ![active] = k.token]
    /\ client' = [client EXCEPT ![k.doc] = k.token]
    /\ call' = [call EXCEPT ![c].at = "send"]
    /\ UNCHANGED <<active, locked, live, owner, expired, events>>

Write(c) ==
    LET k == call[c] IN
    /\ k.at = "write"
    /\ stored' = [k.copy EXCEPT ![k.account] = k.token]
    /\ client' = [client EXCEPT ![k.doc] = k.token]
    /\ call' = [call EXCEPT ![c].at = "send"]
    /\ UNCHANGED <<active, locked, live, owner, expired, events>>

(* The call to the hub for which all this was done.                        *)
Send(c) ==
    /\ call[c].at = "send"
    /\ call' = [call EXCEPT ![c].at = "done", ![c].token = client[call[c].doc]]
    /\ UNCHANGED <<stored, client, active, locked, live, owner, expired, events>>

(* A read that met an expired session writes the map without it.           *)
Pruning(c, a) ==
    /\ call[c].at = "idle" /\ ~locked
    /\ stored[a] \in expired
    /\ call' = [call EXCEPT ![c] = [Idle EXCEPT !.kind = "prune", !.account = a, !.at = "prune", !.copy = stored]]
    /\ UNCHANGED <<stored, client, active, locked, live, owner, expired, events>>

Prune(c) ==
    /\ call[c].at = "prune"
    /\ stored' = [call[c].copy EXCEPT ![call[c].account] = None]
    /\ call' = [call EXCEPT ![c].at = "done"]
    /\ UNCHANGED <<client, active, locked, live, owner, expired, events>>

-----------------------------------------------------------------------------
Switch(a) ==
    /\ Event
    /\ a # active /\ active' = a
    /\ UNCHANGED <<stored, client, locked, live, owner, expired, call>>

(* lock: the signing session is closed and the map removed.                *)
Lock ==
    /\ Event
    /\ ~locked /\ locked' = TRUE
    /\ live' = None
    /\ stored' = Empty
    /\ UNCHANGED <<client, active, owner, expired, call>>

Unlock ==
    /\ locked /\ locked' = FALSE
    /\ UNCHANGED <<stored, client, active, live, owner, expired, call, events>>

Expire(t) ==
    /\ owner[t] # None /\ t \notin expired
    /\ expired' = expired \union {t}
    /\ UNCHANGED <<stored, client, active, locked, live, owner, call, events>>

Next ==
    \/ \E c \in Calls :
          \/ \E k \in {"use", "sign"}, d \in Docs, a \in Accounts : Begin(c, k, d, a)
          \/ Attach(c) \/ ReadOwn(c) \/ Sign(c) \/ Mint(c) \/ Copy(c) \/ Write(c) \/ Send(c) \/ Prune(c)
          \/ \E a \in Accounts : Pruning(c, a)
    \/ \E a \in Accounts : Switch(a)
    \/ \E t \in Tokens : Expire(t)
    \/ Lock \/ Unlock

Spec == Init /\ [][Next]_vars

-----------------------------------------------------------------------------
(* hub-session-store.ts: "switching the active account never reuses the    *)
(* wrong principal's token".                                               *)
TokensFit == \A a \in Accounts : stored[a] # None => owner[stored[a]] = a

(* hub-session.ts: "the result is cached until it expires or the wallet    *)
(* locks".                                                                 *)
LockDropsTokens == locked => stored = Empty
=============================================================================
