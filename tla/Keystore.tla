------------------------------ MODULE Keystore ------------------------------
(***************************************************************************)
(* The sealed state of the wallet: crypto/keystore.ts and the operations   *)
(* of state/wallet-store.ts that read it, change it and write it back.     *)
(*                                                                         *)
(* Every realm of the extension (service worker, popup, side panel,        *)
(* approve window) runs this code against the same chrome.storage: the     *)
(* sealed blob in storage.local, the key in storage.session.  Each realm   *)
(* also caches the key, and drops it when it is told that the stored one   *)
(* changed.  An operation is cut at its awaits.  A key is the pair         *)
(* <<password, salt>> it is derived from; a blob carries a salt of its own *)
(* beside the ciphertext, which opens under one key only.                  *)
(***************************************************************************)
EXTENDS WalletState

CONSTANTS
    Realms,
    Passwords,
    Edits,   \* the edits the user makes
    MaxOps   \* bound: operations

VARIABLES
    blob,     \* arch_wallet_keystore
    legacy,   \* arch_wallet_state, the plaintext of an old build
    stored,   \* arch_wallet_session_key
    cache,    \* sessionKey of each realm
    told,     \* realms that onChanged has yet to tell of a new stored key
    op,       \* the operation each realm runs
    ops,      \* how many were started
    secret,   \* history: the password the user set last
    content,  \* history: the state with every change made so far
    raced     \* history: a blob was written over one it was not made from, or a
              \* key stored for a blob that had been replaced

vars == <<blob, legacy, stored, cache, told, op, ops, secret, content, raced>>
history == <<secret, content, raced>>

(* The salts, fresh for every seal.                                        *)
Salts == 0..MaxOps
Key == Passwords \X Salts

NoEdit == [do |-> "none", at |-> None, with |-> None]

(* An operation: what it is, the password it was given and the one it will *)
(* set, its edit, the await it stands at, the blob and key it holds, the   *)
(* blob its state was made from, and that state; its number gives its salt.  *)
Idle == [no |-> 0, does |-> "nothing", old |-> None, new |-> None, edit |-> NoEdit, at |-> "end",
         blob |-> None, key |-> None, base |-> None, state |-> None, saving |-> FALSE]

TypeOK ==
    /\ blob = None \/ (blob.salt \in Salts /\ blob.key \in Key)
    /\ stored \in Key \union {None}
    /\ cache \in [Realms -> Key \union {None}]
    /\ told \subseteq Realms
    /\ ops \in 0..MaxOps
    /\ raced \in BOOLEAN

Sealed(k, c) == [salt |-> k[2], key |-> k, state |-> c]

(* A wallet that was sealed, and may be old, or one an old build left.     *)
Init ==
    /\ \E a \in Accounts \ Discontinued, w \in Passwords, isOld \in BOOLEAN :
          /\ content = [Fresh(a) EXCEPT !.accounts = <<a>> \o SetToSeq(Discontinued), !.old = isOld]
          /\ \/ /\ blob = Sealed(<<w, 0>>, content)
                /\ legacy = None
                /\ secret = w
                /\ stored \in {None, <<w, 0>>}
             \/ /\ blob = None
                /\ legacy = content
                /\ secret = None
                /\ stored = None
    /\ cache = [r \in Realms |-> None]
    /\ told = {}
    /\ op = [r \in Realms |-> Idle]
    /\ ops = 0
    /\ raced = FALSE

-----------------------------------------------------------------------------
(* The operation of a realm goes to another await, or ends.                *)
Go(r, at) == op' = [op EXCEPT ![r].at = at]
End(r) == op' = [op EXCEPT ![r] = Idle]
Start(r, o) ==
    /\ op[r] = Idle
    /\ ops < MaxOps
    /\ ops' = ops + 1
    /\ op' = [op EXCEPT ![r] = [o EXCEPT !.no = ops + 1]]
    /\ UNCHANGED <<blob, legacy, stored, cache, told, history>>

(* getState and the getters: they write only when the state is old.        *)
Look(r) == Start(r, [Idle EXCEPT !.does = "edit", !.at = "blob"])

(* requireUnlockedState and savePlaintextState around an edit.             *)
Edit(r) == \E e \in Edits : Start(r, [Idle EXCEPT !.does = "edit", !.edit = e, !.at = "blob"])

Unlock(r) == \E w \in Passwords : Start(r, [Idle EXCEPT !.does = "unlock", !.old = w, !.at = "open"])

ChangePassword(r) ==
    \E w, n \in Passwords :
       Start(r, [Idle EXCEPT !.does = "change", !.old = w, !.new = n, !.at = "open"])

(* sealLegacyState: the onboarding page of an old build's wallet.          *)
SealLegacy(r) ==
    /\ blob = None
    /\ legacy # None
    /\ \E n \in Passwords :
          Start(r, [Idle EXCEPT !.does = "seal", !.new = n, !.at = "seal", !.state = Migrate(legacy)])

(* completeOnboarding: a new wallet, or one recovered over what is there.  *)
CompleteOnboarding(r) ==
    \E n \in Passwords, a \in Accounts \ Discontinued :
       Start(r, [Idle EXCEPT !.does = "seal", !.new = n, !.at = "seal", !.state = Fresh(a)])

Lock(r) == Start(r, [Idle EXCEPT !.does = "lock", !.at = "clear"])

Reset(r) == Start(r, [Idle EXCEPT !.does = "wipe", !.at = "wipe"])

-----------------------------------------------------------------------------
(* read and write: the blob first.                                         *)
ReadBlob(r) ==
    /\ op[r].at \in {"blob", "blob to write"}
    /\ IF blob = None THEN End(r)
       ELSE op' = [op EXCEPT ![r].blob = blob,
                             ![r].at = IF @ = "blob" THEN "key" ELSE "key to write"]
    /\ UNCHANGED <<blob, legacy, stored, cache, told, ops, history>>

(* loadSessionKeyFromStorage: the cached key, or the stored one ...        *)
LoadKey(r) ==
    /\ op[r].at \in {"key", "key to write"}
    /\ LET key == IF cache[r] # None THEN cache[r] ELSE stored
           next == IF op[r].at = "key"
                   THEN IF cache[r] # None THEN "decrypt" ELSE "import to decrypt"
                   ELSE IF cache[r] # None THEN "write" ELSE "import to write"
       IN  IF key = None THEN End(r)
           ELSE op' = [op EXCEPT ![r].key = key, ![r].at = next]
    /\ UNCHANGED <<blob, legacy, stored, cache, told, ops, history>>

(* ... which is cached once it is imported, whatever happened meanwhile.   *)
ImportKey(r) ==
    /\ op[r].at \in {"import to decrypt", "import to write"}
    /\ cache' = [cache EXCEPT ![r] = op[r].key]
    /\ Go(r, IF op[r].at = "import to write" THEN "write" ELSE "decrypt")
    /\ UNCHANGED <<blob, legacy, stored, told, ops, history>>

(* The edit is applied to what was read.  A state that is old is first     *)
(* written as it is; forgetting the last account wipes the wallet.         *)
Apply(r, from, c) ==
    IF c.old
    THEN op' = [op EXCEPT ![r].at = "blob to write", ![r].base = from, ![r].state = Migrate(c)]
    ELSE IF op[r].edit = NoEdit \/ ~Applies(c, op[r].edit) THEN End(r)
    ELSE IF op[r].edit.do = "forget" /\ Without(c.accounts, op[r].edit.at) = <<>>
    THEN Go(r, "wipe")
    ELSE op' = [op EXCEPT ![r].at = "blob to write", ![r].base = from, ![r].saving = TRUE,
                          ![r].state = Edited(c, op[r].edit)]

(* A key that does not open the blob is stale and is cleared.              *)
Decrypt(r) ==
    /\ op[r].at = "decrypt"
    /\ IF op[r].blob.key = op[r].key
       THEN /\ Apply(r, op[r].blob, op[r].blob.state)
            /\ UNCHANGED cache
       ELSE /\ Go(r, "remove")
            /\ cache' = [cache EXCEPT ![r] = None]
    /\ UNCHANGED <<blob, legacy, stored, told, ops, history>>

(* The blob that is written has the salt of the one that was read last.    *)
(* The edit is counted from then on.                                       *)
Write(r) ==
    /\ op[r].at = "write"
    /\ LET o == op[r]
           edit == IF o.saving THEN o.edit ELSE NoEdit
           next == [salt |-> o.blob.salt, key |-> o.key, state |-> o.state]
       IN  /\ blob' = next
           /\ raced' = (raced \/ blob # o.base)
           /\ content' = IF content = None THEN None
                         ELSE Edited(IF content.old THEN Migrate(content) ELSE content, edit)
           /\ IF o.saving THEN End(r) ELSE Apply(r, next, o.state)
    /\ UNCHANGED <<legacy, stored, cache, told, ops, secret>>

-----------------------------------------------------------------------------
(* unlock: the blob is read and decrypted with what the password derives.  *)
(* An old state is then written back.                                      *)
Open(r) ==
    /\ op[r].at = "open"
    /\ IF blob = None \/ blob.key # <<op[r].old, blob.salt>> THEN End(r)
       ELSE /\ op' = [op EXCEPT ![r].at = "save", ![r].key = blob.key, ![r].base = blob,
                                ![r].state = blob.state]
    /\ UNCHANGED <<blob, legacy, stored, cache, told, ops, history>>

(* Mutant: the legacy state is removed before the blob is there.           *)
SealLegacyFirst(r) ==
    /\ op[r].at = "seal"
    /\ IF legacy # None
       THEN /\ legacy' = None
            /\ UNCHANGED <<blob, op, secret, content, raced>>
       ELSE LET o == op[r]
            IN  /\ blob' = Sealed(<<o.new, o.no>>, o.state)
                /\ op' = [op EXCEPT ![r].at = "save", ![r].key = <<o.new, o.no>>, ![r].does = "seal"]
                /\ secret' = o.new
                /\ content' = IF o.does = "seal" THEN o.state ELSE content
                /\ UNCHANGED <<legacy, raced>>
    /\ UNCHANGED <<stored, cache, told, ops>>

(* seal: a fresh salt, and the state under the new password.  A change of  *)
(* password seals what it has just read.                                   *)
Seal(r) ==
    /\ op[r].at = "seal"
    /\ LET o == op[r]
       IN  /\ blob' = Sealed(<<o.new, o.no>>, o.state)
           /\ op' = [op EXCEPT ![r].at = "save", ![r].key = <<o.new, o.no>>, ![r].does = "seal"]
           /\ secret' = o.new
           /\ content' = IF o.does = "seal" THEN o.state ELSE content
           /\ raced' = (raced \/ (o.does = "change" /\ blob # o.base))
    /\ UNCHANGED <<legacy, stored, cache, told, ops>>

(* saveSessionKey: cached, then stored.                                    *)
CacheKey(r) ==
    /\ op[r].at = "save"
    /\ cache' = [cache EXCEPT ![r] = op[r].key]
    /\ Go(r, "store")
    /\ UNCHANGED <<blob, legacy, stored, told, ops, history>>

StoreKey(r) ==
    /\ op[r].at = "store"
    /\ stored' = op[r].key
    /\ told' = IF stored = op[r].key THEN told ELSE Realms
    /\ raced' = (raced \/ (blob # None /\ blob.key # op[r].key))
    /\ CASE op[r].does = "seal" -> Go(r, "legacy")
         [] op[r].does = "change" -> Go(r, "seal")
         [] op[r].does = "unlock" -> Apply(r, op[r].base, op[r].state)
    /\ UNCHANGED <<blob, legacy, cache, ops, secret, content>>

RemoveLegacy(r) ==
    /\ op[r].at = "legacy"
    /\ legacy' = None
    /\ End(r)
    /\ UNCHANGED <<blob, stored, cache, told, ops, history>>

-----------------------------------------------------------------------------
(* clearSessionKey: the cache, then the storage.                           *)
ClearCache(r) ==
    /\ op[r].at = "clear"
    /\ cache' = [cache EXCEPT ![r] = None]
    /\ Go(r, "remove")
    /\ UNCHANGED <<blob, legacy, stored, told, ops, history>>

RemoveKey(r) ==
    /\ op[r].at = "remove"
    /\ stored' = None
    /\ told' = IF stored = None THEN told ELSE Realms
    /\ End(r)
    /\ UNCHANGED <<blob, legacy, cache, ops, history>>

Wipe(r) ==
    /\ op[r].at = "wipe"
    /\ blob' = None
    /\ legacy' = None
    /\ secret' = None
    /\ content' = None
    /\ cache' = [cache EXCEPT ![r] = None]
    /\ Go(r, "clear")
    /\ UNCHANGED <<stored, told, ops, raced>>

-----------------------------------------------------------------------------
(* storage.onChanged: the realm forgets the key it has.                    *)
OnChanged(r) ==
    /\ r \in told
    /\ told' = told \ {r}
    /\ cache' = [cache EXCEPT ![r] = None]
    /\ UNCHANGED <<blob, legacy, stored, op, ops, history>>

(* The popup closes, or the service worker stops, at any await.            *)
Close(r) ==
    /\ op[r] # Idle
    /\ End(r)
    /\ cache' = [cache EXCEPT ![r] = None]
    /\ told' = told \ {r}
    /\ UNCHANGED <<blob, legacy, stored, ops, history>>

Begins(r) ==
    \/ Look(r) \/ Edit(r) \/ Unlock(r) \/ ChangePassword(r) \/ SealLegacy(r)
    \/ CompleteOnboarding(r) \/ Lock(r) \/ Reset(r)

Continues(r) ==
    \/ ReadBlob(r) \/ LoadKey(r) \/ ImportKey(r) \/ Decrypt(r) \/ Write(r)
    \/ Open(r) \/ Seal(r) \/ CacheKey(r) \/ StoreKey(r) \/ RemoveLegacy(r)
    \/ ClearCache(r) \/ RemoveKey(r) \/ Wipe(r)

Next == \E r \in Realms : Begins(r) \/ Continues(r) \/ OnChanged(r) \/ Close(r)

Spec == Init /\ [][Next]_vars

-----------------------------------------------------------------------------
(* Unless two operations wrote over one another, the wallet opens with the *)
(* password the user set last and holds every change, wherever an          *)
(* operation was cut short; and it is there unless the user removed it.    *)
Opens(w, c) ==
    IF w = None THEN blob = None /\ legacy = c
    ELSE /\ blob # None
         /\ blob.key = <<w, blob.salt>>
         /\ blob.state = c

OpensUnlessRaced == raced \/ Opens(secret, content)

(* keystore.ts: "Unlocking re-derives from the password."  The ciphertext  *)
(* is under a key that the salt beside it gives.                           *)
PasswordRederives == blob # None => blob.key[2] = blob.salt

(* keystore.ts: "Locking deletes both copies."  When nothing is under way  *)
(* and everyone was told, a realm holds the stored key or none.            *)
LockIsEverywhere ==
    (told = {} /\ \A r \in Realms : op[r] = Idle)
       => \A r \in Realms : cache[r] \in {stored, None}
=============================================================================
