--------------------------- MODULE WalletSessions ---------------------------
(***************************************************************************)
(* The signing session of the browser extension: SessionManager.ts.  Every *)
(* document of the extension (popup, side panel, approval window, service  *)
(* worker) is a realm with a SessionManager of its own; the realms share   *)
(* the key pair in IndexedDB and a snapshot in chrome.storage.session, and *)
(* hear of the snapshot's removal through storage.onChanged.  Turnkey      *)
(* knows for which account a key was registered.  A method is cut at its   *)
(* awaits; the effect of what it waited for and the code up to the next    *)
(* await are one step, unless another realm can see the difference.        *)
(***************************************************************************)
EXTENDS Naturals

CONSTANTS
    Realms,
    Accounts,
    Calls,      \* invocations of open, ensureClient and close
    MaxKeys,    \* bound: key pairs made
    Unreliable, \* whether storage operations may fail
    None

ASSUME NoneIsNothing == None \notin Realms \union Accounts \union Calls \union Nat
ASSUME BoundsOK == MaxKeys \in Nat /\ Unreliable \in BOOLEAN

(* A key pair is named by the order in which it was made.                  *)
Keys == 1..MaxKeys

(* Who the session is for and with which key it was registered.  Its       *)
(* expiry is a matter of the key: every open makes a new one.              *)
Sessions == [account: Accounts, key: Keys]
NoSession == [account |-> None, key |-> None]

VARIABLES
    mem,      \* stamper, currentAccountId and expiresAt of each realm
    opening,  \* pendingOpen: the call whose promise it is
    ensuring, \* pendingEnsure
    disk,     \* the key pair in IndexedDB
    snap,     \* the shared snapshot
    news,     \* removed snapshots each realm has yet to hear of, by key
    owner,    \* Turnkey: the account each key is registered for
    minted,   \* how many key pairs were made
    expired,  \* keys whose session is within the slack of its expiry
    call, pc,
    got,      \* local variable of a call: its key, or the snapshot it read
    found,    \* local variable of a call: the key that was on disk
    waitsFor, \* the call whose promise this one returns
    result,   \* how the call ended
    client,   \* the key behind the client it returned
    before    \* history: how many keys existed when the call began

shared == <<disk, snap, news>>
turnkey == <<owner, minted, expired>>
locals == <<got, found, waitsFor, before>>
vars == <<mem, opening, ensuring, shared, turnkey, call, pc, locals, result, client>>

Kinds == {"open", "ensure", "close"}
Steps == {"start", "join", "switch", "switchKey", "rotate", "register", "unregister", "publish",
          "read", "discard", "load", "adopt", "remove", "wipe"}

TypeOK ==
    /\ mem \in [Realms -> Sessions \union {NoSession}]
    /\ opening \in [Realms -> Calls \union {None}]
    /\ ensuring \in [Realms -> Calls \union {None}]
    /\ disk \in Keys \union {None}
    /\ snap \in Sessions \union {NoSession}
    /\ news \in [Realms -> SUBSET Keys]
    /\ owner \in [Keys -> Accounts \union {None}]
    /\ minted \in 0..MaxKeys
    /\ expired \in SUBSET Keys
    /\ call \in [Calls -> [realm: Realms, kind: Kinds, account: Accounts] \union {None}]
    /\ pc \in [Calls -> {"idle", "done", "dead"} \union Steps]
    /\ got \in [Calls -> Sessions \union {NoSession}]
    /\ found \in [Calls -> Keys \union {None}]
    /\ waitsFor \in [Calls -> Calls \union {None}]
    /\ result \in [Calls -> {"none", "client", "null", "closed", "error"}]
    /\ client \in [Calls -> Keys \union {None}]
    /\ before \in [Calls -> 0..MaxKeys]

Init ==
    /\ mem = [r \in Realms |-> NoSession]
    /\ opening = [r \in Realms |-> None]
    /\ ensuring = [r \in Realms |-> None]
    /\ disk = None
    /\ snap = NoSession
    /\ news = [r \in Realms |-> {}]
    /\ owner = [k \in Keys |-> None]
    /\ minted = 0
    /\ expired = {}
    /\ call = [c \in Calls |-> None]
    /\ pc = [c \in Calls |-> "idle"]
    /\ got = [c \in Calls |-> NoSession]
    /\ found = [c \in Calls |-> None]
    /\ waitsFor = [c \in Calls |-> None]
    /\ result = [c \in Calls |-> "none"]
    /\ client = [c \in Calls |-> None]
    /\ before = [c \in Calls |-> 0]

-----------------------------------------------------------------------------
Realm(c) == call[c].realm
Account(c) == call[c].account

(* The in-memory session of a realm is within its time.                    *)
Live(r) == mem[r] # NoSession /\ mem[r].key \notin expired

(* getClient(accountId)                                                    *)
Serves(r, a) == Live(r) /\ mem[r].account = a

Goto(c, step) == pc' = [pc EXCEPT ![c] = step] /\ UNCHANGED <<result, client>>

Return(c, how, key) ==
    /\ pc' = [pc EXCEPT ![c] = "done"]
    /\ result' = [result EXCEPT ![c] = how]
    /\ client' = [client EXCEPT ![c] = key]

(* storage.session.remove, which tells every realm, this one included.     *)
RemoveSnapshot ==
    /\ snap' = NoSession
    /\ news' = IF snap = NoSession THEN news
               ELSE [r \in Realms |-> news[r] \union {snap.key}]

MayFail(effect, nothing) == effect \/ (Unreliable /\ nothing)

-----------------------------------------------------------------------------
Begin(c) ==
    /\ pc[c] = "idle"
    /\ \E q \in [realm: Realms, kind: Kinds, account: Accounts] : call' = [call EXCEPT ![c] = q]
    /\ Goto(c, "start")
    /\ UNCHANGED <<mem, opening, ensuring, shared, turnkey, locals>>

(* What open and ensureClient have in common: wait for the promise of      *)
(* another call, whatever account that one is for.                         *)
JoinCall(c, other) ==
    /\ other # None
    /\ waitsFor' = [waitsFor EXCEPT ![c] = other]
    /\ Goto(c, "join")

Join(c) ==
    /\ pc[c] = "join"
    /\ pc[waitsFor[c]] = "done"
    /\ Return(c, result[waitsFor[c]], client[waitsFor[c]])
    /\ UNCHANGED <<mem, opening, ensuring, shared, turnkey, call, locals>>

(* open, up to its first await.  With another account's session in memory  *)
(* it awaits close() first, and only then sets pendingOpen.                *)
Open(c) ==
    LET r == Realm(c) IN
    /\ pc[c] = "start" /\ call[c].kind = "open"
    /\ \/ JoinCall(c, opening[r]) /\ UNCHANGED <<mem, opening>>
       \/ /\ opening[r] = None /\ UNCHANGED waitsFor
          /\ \/ /\ Serves(r, Account(c))
                /\ Return(c, "client", mem[r].key)
                /\ UNCHANGED <<mem, opening>>
             \/ /\ mem[r].account \notin {None, Account(c)}
                /\ mem' = [mem EXCEPT ![r] = NoSession]
                /\ Goto(c, "switch")
                /\ UNCHANGED opening
             \/ /\ ~Serves(r, Account(c))
                /\ mem[r].account \in {None, Account(c)}
                /\ opening' = [opening EXCEPT ![r] = c]
                /\ Goto(c, "rotate")
                /\ UNCHANGED mem
    /\ UNCHANGED <<ensuring, shared, turnkey, call, got, found, before>>

(* The close() inside open.                                                *)
Switch(c) ==
    /\ pc[c] = "switch"
    /\ MayFail(RemoveSnapshot, UNCHANGED <<snap, news>>)
    /\ Goto(c, "switchKey")
    /\ UNCHANGED <<mem, opening, ensuring, disk, turnkey, call, locals>>

SwitchKey(c) ==
    /\ pc[c] = "switchKey"
    /\ MayFail(disk' = None, UNCHANGED disk)
    /\ opening' = [opening EXCEPT ![Realm(c)] = c]
    /\ Goto(c, "rotate")
    /\ UNCHANGED <<mem, ensuring, snap, news, turnkey, call, locals>>

(* The finally clause of open forgets whatever promise is pending.         *)
EndOpen(c) == opening' = [opening EXCEPT ![Realm(c)] = None]

(* init() and resetKeyPair() of a fresh stamper.                           *)
Rotate(c) ==
    /\ pc[c] = "rotate"
    /\ \/ /\ minted < MaxKeys
          /\ minted' = minted + 1
          /\ disk' = minted + 1
          /\ got' = [got EXCEPT ![c] = [account |-> Account(c), key |-> minted + 1]]
          /\ Goto(c, "register")
          /\ UNCHANGED opening
       \/ /\ Unreliable \/ minted = MaxKeys
          /\ Return(c, "error", None)
          /\ EndOpen(c)
          /\ UNCHANGED <<minted, disk, got>>
    /\ UNCHANGED <<mem, ensuring, snap, news, owner, expired, call, found, waitsFor, before>>

(* bootstrap.register.  When it throws, Turnkey may know the key or not.   *)
Register(c) ==
    LET r == Realm(c) IN
    /\ pc[c] = "register"
    /\ \/ /\ owner' = [owner EXCEPT ![got[c].key] = Account(c)]
          /\ mem' = [mem EXCEPT ![r] = got[c]]
          /\ Goto(c, "publish")
       \/ /\ \/ owner' = [owner EXCEPT ![got[c].key] = Account(c)]
             \/ UNCHANGED owner
          /\ Goto(c, "unregister")
          /\ UNCHANGED mem
    /\ UNCHANGED <<opening, ensuring, shared, minted, expired, call, locals>>

(* stamper.clear() deletes the key pair on disk, whosever it is by now.    *)
Unregister(c) ==
    /\ pc[c] = "unregister"
    /\ MayFail(disk' = None, UNCHANGED disk)
    /\ EndOpen(c)
    /\ Return(c, "error", None)
    /\ UNCHANGED <<mem, ensuring, snap, news, turnkey, call, locals>>

Publish(c) ==
    /\ pc[c] = "publish"
    /\ MayFail(snap' = got[c], UNCHANGED snap)
    /\ EndOpen(c)
    /\ Return(c, "client", got[c].key)
    /\ UNCHANGED <<mem, ensuring, disk, news, turnkey, call, locals>>

-----------------------------------------------------------------------------
(* ensureClient, up to its first await.                                    *)
Ensure(c) ==
    LET r == Realm(c) IN
    /\ pc[c] = "start" /\ call[c].kind = "ensure"
    /\ \/ /\ Serves(r, Account(c))
          /\ Return(c, "client", mem[r].key)
          /\ UNCHANGED <<ensuring, waitsFor>>
       \/ /\ ~Serves(r, Account(c))
          /\ JoinCall(c, ensuring[r])
          /\ UNCHANGED ensuring
       \/ /\ ~Serves(r, Account(c)) /\ ensuring[r] = None
          /\ ensuring' = [ensuring EXCEPT ![r] = c]
          /\ Goto(c, "read")
          /\ UNCHANGED waitsFor
    /\ UNCHANGED <<mem, opening, shared, turnkey, call, got, found, before>>

EndEnsure(c) == ensuring' = [ensuring EXCEPT ![Realm(c)] = None]

(* readSharedSnapshot, and what is decided on the snapshot alone.          *)
ReadSnapshot(c) ==
    /\ pc[c] = "read"
    /\ \/ /\ snap.account = Account(c)
          /\ got' = [got EXCEPT ![c] = snap]
          /\ Goto(c, IF snap.key \in expired THEN "discard" ELSE "load")
          /\ UNCHANGED ensuring
       \/ /\ snap.account # Account(c) \/ Unreliable
          /\ Return(c, "null", None)
          /\ EndEnsure(c)
          /\ UNCHANGED got
    /\ UNCHANGED <<mem, opening, shared, turnkey, call, found, waitsFor, before>>

(* init() of a stamper for the key on disk; another realm may change that  *)
(* key before this one goes on.                                            *)
LoadKey(c) ==
    /\ pc[c] = "load"
    /\ found' = [found EXCEPT ![c] = disk]
    /\ Goto(c, "adopt")
    /\ UNCHANGED <<mem, opening, ensuring, shared, turnkey, call, got, waitsFor, before>>

(* Mutant: the key on disk is adopted without a look at the snapshot's.    *)
AdoptUnchecked(c) ==
    /\ pc[c] = "adopt"
    /\ mem' = [mem EXCEPT ![Realm(c)] = [account |-> got[c].account, key |-> found[c]]]
    /\ Return(c, "client", found[c])
    /\ EndEnsure(c)
    /\ UNCHANGED <<opening, shared, turnkey, call, locals>>

Adopt(c) ==
    /\ pc[c] = "adopt"
    /\ \/ /\ found[c] = got[c].key
          /\ mem' = [mem EXCEPT ![Realm(c)] = got[c]]
          /\ Return(c, "client", found[c])
          /\ EndEnsure(c)
       \/ /\ found[c] # got[c].key
          /\ Goto(c, "discard")
          /\ UNCHANGED <<mem, ensuring>>
    /\ UNCHANGED <<opening, shared, turnkey, call, locals>>

(* clearSharedSnapshot removes the snapshot there is, not the one it read. *)
Discard(c) ==
    /\ pc[c] = "discard"
    /\ MayFail(RemoveSnapshot, UNCHANGED <<snap, news>>)
    /\ Return(c, "null", None)
    /\ EndEnsure(c)
    /\ UNCHANGED <<mem, opening, disk, turnkey, call, locals>>

-----------------------------------------------------------------------------
Close(c) ==
    /\ pc[c] = "start" /\ call[c].kind = "close"
    /\ mem' = [mem EXCEPT ![Realm(c)] = NoSession]
    /\ before' = [before EXCEPT ![c] = minted]
    /\ Goto(c, "remove")
    /\ UNCHANGED <<opening, ensuring, shared, turnkey, call, got, found, waitsFor>>

Remove(c) ==
    /\ pc[c] = "remove"
    /\ MayFail(RemoveSnapshot, UNCHANGED <<snap, news>>)
    /\ Goto(c, "wipe")
    /\ UNCHANGED <<mem, opening, ensuring, disk, turnkey, call, locals>>

(* With a stamper in memory or without, the key pair on disk is deleted.   *)
Wipe(c) ==
    /\ pc[c] = "wipe"
    /\ MayFail(disk' = None, UNCHANGED disk)
    /\ Return(c, "closed", None)
    /\ UNCHANGED <<mem, opening, ensuring, snap, news, turnkey, call, locals>>

-----------------------------------------------------------------------------
(* The onChanged listener: a realm drops its copy of the removed session.  *)
Hear(r, k) ==
    /\ k \in news[r]
    /\ news' = [news EXCEPT ![r] = @ \ {k}]
    /\ mem' = IF mem[r].key = k THEN [mem EXCEPT ![r] = NoSession] ELSE mem
    /\ UNCHANGED <<opening, ensuring, disk, snap, turnkey, call, pc, locals, result, client>>

Expire(k) ==
    /\ owner[k] # None /\ k \notin expired
    /\ expired' = expired \union {k}
    /\ UNCHANGED <<mem, opening, ensuring, shared, owner, minted, call, pc, locals, result, client>>

(* A document is closed: its calls end where they are and its memory goes. *)
CloseRealm(r) ==
    /\ \E c \in Calls : pc[c] \in Steps /\ Realm(c) = r
    /\ pc' = [c \in Calls |-> IF pc[c] \in Steps /\ Realm(c) = r THEN "dead" ELSE pc[c]]
    /\ mem' = [mem EXCEPT ![r] = NoSession]
    /\ opening' = [opening EXCEPT ![r] = None]
    /\ ensuring' = [ensuring EXCEPT ![r] = None]
    /\ news' = [news EXCEPT ![r] = {}]
    /\ UNCHANGED <<disk, snap, turnkey, call, locals, result, client>>

Go(c) ==
    \/ Open(c) \/ Switch(c) \/ SwitchKey(c) \/ Rotate(c) \/ Register(c) \/ Unregister(c)
    \/ Publish(c) \/ Ensure(c) \/ ReadSnapshot(c) \/ LoadKey(c) \/ Adopt(c) \/ Discard(c)
    \/ Close(c) \/ Remove(c) \/ Wipe(c) \/ Join(c)

Next ==
    \/ \E c \in Calls : Begin(c) \/ Go(c)
    \/ \E r \in Realms : (\E k \in Keys : Hear(r, k)) \/ CloseRealm(r)
    \/ \E k \in Keys : Expire(k)

Spec == Init /\ [][Next]_vars

-----------------------------------------------------------------------------
(* A session in memory, and the snapshot by which others take it over, is  *)
(* for the account its key was registered for: neither rotation by another *)
(* realm nor a late answer makes a realm sign for one account with the key *)
(* of another.                                                             *)
Truthful(session) == session # NoSession => owner[session.key] = session.account
SessionsTruthful == Truthful(snap) /\ \A r \in Realms : Truthful(mem[r])

(* close(): "this reliably revokes the session no matter which context     *)
(* first opened it".  Once nothing is under way any more, no realm still   *)
(* has a session that was there when the lock began.                       *)
Quiet == (\A c \in Calls : pc[c] \notin Steps) /\ \A r \in Realms : news[r] = {}
LockRevokes ==
    Quiet => \A c \in Calls, r \in Realms :
        result[c] = "closed" /\ Live(r) => mem[r].key > before[c]
=============================================================================
