--------------------------- MODULE SessionsProofs ----------------------------
(***************************************************************************)
(* What the sessions of the extension and the SDK promise, for any number  *)
(* of documents, accounts, calls and gates: the signing sessions of        *)
(* WalletSessions by the inductive invariant IInv, and the code gate, the  *)
(* hub's sessions and the SDK client's by one of their own each.           *)
(***************************************************************************)
EXTENDS MCSessions, TLAPS

-----------------------------------------------------------------------------
(* Signing sessions *)

\* A key is registered by the call that made it, for that call's account;
\* what is to be published or adopted was registered for its account.
CallFits(c) ==
    /\ pc[c] # "idle" => call[c] \in [realm: Realms, kind: Kinds, account: Accounts]
    /\ pc[c] = "join" => waitsFor[c] # None
    /\ pc[c] = "register" =>
         /\ got[c] # NoSession /\ got[c].account = Account(c)
         /\ got[c].key <= minted /\ owner[got[c].key] = None
    /\ pc[c] \in {"publish", "load", "adopt"} => got[c] # NoSession /\ Truthful(got[c])

\* Nobody has registered a key that is not made, and no two calls register one.
KeysFit ==
    /\ \A k \in Keys : k > minted => owner[k] = None
    /\ \A c, d \in Calls :
         pc[c] = "register" /\ pc[d] = "register" /\ got[c].key = got[d].key => c = d

IInv == TypeOK /\ (\A c \in Calls : CallFits(c)) /\ KeysFit /\ SessionsTruthful

LEMMA SessionFields ==
  /\ NoSession \notin Sessions
  /\ NoSession.account = None /\ NoSession.key = None
  /\ \A s \in Sessions : s.account \in Accounts /\ s.account # None
                         /\ s.key \in Keys /\ s.key # None /\ s.key \in Nat
BY NoneIsNothing, BoundsOK DEF Sessions, NoSession, Keys

LEMMA CallFields ==
  ASSUME IInv, NEW c \in Calls, pc[c] # "idle"
  PROVE  Realm(c) \in Realms /\ Account(c) \in Accounts /\ call[c].kind \in Kinds
BY DEF IInv, TypeOK, CallFits, Realm, Account

Places == {"idle", "done", "dead"} \union Steps
Results == {"none", "client", "null", "closed", "error"}

LEMMA GotoFits ==
  ASSUME TypeOK, NEW c \in Calls, NEW place \in Steps, Goto(c, place)
  PROVE  /\ pc' = [pc EXCEPT ![c] = place] /\ pc' \in [Calls -> Places]
         /\ result' \in [Calls -> Results] /\ client' \in [Calls -> Keys \union {None}]
BY DEF TypeOK, Goto, Places, Results

LEMMA ReturnFits ==
  ASSUME TypeOK, NEW c \in Calls, NEW how \in Results, NEW key \in Keys \union {None},
         Return(c, how, key)
  PROVE  /\ pc' = [pc EXCEPT ![c] = "done"] /\ pc' \in [Calls -> Places]
         /\ result' \in [Calls -> Results] /\ client' \in [Calls -> Keys \union {None}]
BY DEF TypeOK, Return, Places, Results

LEMMA RemoveFits ==
  ASSUME TypeOK, RemoveSnapshot \/ UNCHANGED <<snap, news>>
  PROVE  snap' \in {snap, NoSession} /\ news' \in [Realms -> SUBSET Keys]
<1>1. CASE RemoveSnapshot /\ snap # NoSession
  <2>1. snap.key \in Keys
    BY <1>1, SessionFields DEF TypeOK
  <2> QED BY <1>1, <2>1 DEF RemoveSnapshot, TypeOK
<1>2. CASE ~(RemoveSnapshot /\ snap # NoSession)
  BY <1>2 DEF RemoveSnapshot, TypeOK
<1> QED BY <1>1, <1>2

\* A step of a call that registers nothing: sessions elsewhere stay what they
\* were registered as.
LEMMA OwnersStay ==
  ASSUME IInv, TypeOK', NEW c \in Calls, NEW place, place # "register",
         pc' = [pc EXCEPT ![c] = place],
         UNCHANGED <<owner, minted>>,
         \A d \in Calls \ {c} : UNCHANGED <<call[d], got[d], waitsFor[d]>>,
         CallFits(c)', SessionsTruthful'
  PROVE  IInv'
<1>1. pc'[c] = place /\ \A d \in Calls \ {c} : pc'[d] = pc[d]
  BY DEF IInv, TypeOK
<1>2. \A d \in Calls \ {c} : CallFits(d)'
  BY <1>1 DEF IInv, CallFits, Truthful, Account
<1>3. KeysFit'
  BY <1>1 DEF IInv, KeysFit
<1> QED BY <1>2, <1>3 DEF IInv

\* So does a step that leaves its call with nothing to register or publish.
LEMMA CallMoves ==
  ASSUME IInv, TypeOK', NEW c \in Calls,
         NEW place \in {"done", "switch", "switchKey", "rotate", "unregister", "read", "discard",
                        "remove", "wipe"},
         pc[c] # "idle", pc' = [pc EXCEPT ![c] = place],
         UNCHANGED <<owner, minted, call, got, waitsFor>>,
         \/ snap' \in {snap, NoSession}
         \/ pc[c] = "publish" /\ snap' = got[c],
         \A r \in Realms :
            \/ mem'[r] \in {mem[r], NoSession}
            \/ pc[c] = "adopt" /\ mem'[r] = got[c]
  PROVE  IInv'
<1>1. pc'[c] = place
  BY DEF IInv, TypeOK
<1>2. CallFits(c)'
  BY <1>1 DEF IInv, CallFits
<1>3. SessionsTruthful'
  BY DEF IInv, SessionsTruthful, Truthful, CallFits
<1> QED BY <1>2, <1>3, OwnersStay

LEMMA BeginKeeps ==
  ASSUME IInv, NEW c \in Calls, Begin(c)
  PROVE  IInv'
<1>1. PICK q \in [realm: Realms, kind: Kinds, account: Accounts] : call' = [call EXCEPT ![c] = q]
  BY DEF Begin
<1>2. /\ Goto(c, "start") /\ pc[c] = "idle"
      /\ UNCHANGED <<mem, opening, ensuring, disk, snap, news, owner, minted, expired, got, found,
                     waitsFor, before>>
  BY DEF Begin, shared, turnkey, locals
<1>3. TypeOK /\ "start" \in Steps
  BY DEF IInv, Steps
<1>4. pc' = [pc EXCEPT ![c] = "start"] /\ pc' \in [Calls -> Places] /\ UNCHANGED <<result, client>>
  BY <1>2, <1>3, GotoFits DEF Goto
<1>5. TypeOK'
  BY <1>1, <1>2, <1>3, <1>4 DEF TypeOK, Places
<1>6. call'[c] = q /\ pc'[c] = "start" /\ \A d \in Calls \ {c} : call'[d] = call[d]
  BY <1>1, <1>3, <1>4 DEF TypeOK
<1>7. CallFits(c)' /\ SessionsTruthful'
  BY <1>2, <1>6 DEF IInv, CallFits, SessionsTruthful, Truthful
<1> QED BY <1>2, <1>4, <1>5, <1>6, <1>7, OwnersStay

\* The promise a call waits for settles.
LEMMA JoinKeeps ==
  ASSUME IInv, NEW c \in Calls, Join(c)
  PROVE  IInv'
<1>1. /\ pc[c] = "join" /\ Return(c, result[waitsFor[c]], client[waitsFor[c]])
      /\ UNCHANGED <<mem, opening, ensuring, disk, snap, news, owner, minted, expired, call, got,
                     found, waitsFor, before>>
  BY DEF Join, shared, turnkey, locals
<1>2. TypeOK /\ waitsFor[c] \in Calls
  BY <1>1 DEF IInv, CallFits, TypeOK
<1>3. result[waitsFor[c]] \in Results /\ client[waitsFor[c]] \in Keys \union {None}
  BY <1>2 DEF TypeOK, Results
<1>4. /\ pc' = [pc EXCEPT ![c] = "done"] /\ pc' \in [Calls -> Places]
      /\ result' \in [Calls -> Results] /\ client' \in [Calls -> Keys \union {None}]
  BY <1>1, <1>2, <1>3, ReturnFits
<1>5. TypeOK'
  BY <1>1, <1>2, <1>4 DEF TypeOK, Places, Results
<1> QED BY <1>1, <1>4, <1>5, CallMoves

\* Where open and ensureClient put a call that waits for another.
LEMMA JoinCallKeeps ==
  ASSUME IInv, NEW c \in Calls, pc[c] # "idle",
         NEW other \in Calls \union {None}, JoinCall(c, other),
         UNCHANGED <<mem, opening, ensuring, disk, snap, news, owner, minted, expired, call, got,
                     found, before>>
  PROVE  IInv'
<1>1. other # None /\ waitsFor' = [waitsFor EXCEPT ![c] = other] /\ Goto(c, "join")
  BY DEF JoinCall
<1>2. TypeOK /\ "join" \in Steps
  BY DEF IInv, Steps
<1>3. /\ pc' = [pc EXCEPT ![c] = "join"] /\ pc' \in [Calls -> Places]
      /\ UNCHANGED <<result, client>>
  BY <1>1, <1>2, GotoFits DEF Goto
<1>4. TypeOK'
  BY <1>1, <1>2, <1>3 DEF TypeOK, Places
<1>5. /\ pc'[c] = "join" /\ waitsFor'[c] = other
      /\ \A d \in Calls \ {c} : waitsFor'[d] = waitsFor[d]
  BY <1>1, <1>2, <1>3 DEF TypeOK
<1>6. CallFits(c)' /\ SessionsTruthful'
  BY <1>1, <1>5 DEF IInv, CallFits, SessionsTruthful, Truthful
<1> QED BY <1>3, <1>4, <1>5, <1>6, OwnersStay

LEMMA OpenKeeps ==
  ASSUME IInv, NEW c \in Calls, Open(c)
  PROVE  IInv'
<1> DEFINE r == Realm(c)
<1>1. /\ pc[c] = "start"
      /\ UNCHANGED <<ensuring, disk, snap, news, owner, minted, expired, call, got, found, before>>
  BY DEF Open, shared, turnkey
<1>2. TypeOK /\ r \in Realms /\ Account(c) \in Accounts
  BY <1>1, CallFields DEF IInv
<1>3. CASE JoinCall(c, opening[r]) /\ UNCHANGED <<mem, opening>>
  <2>1. opening[r] \in Calls \union {None}
    BY <1>2 DEF TypeOK
  <2> QED BY <1>1, <1>3, <2>1, JoinCallKeeps
<1>4. CASE /\ Serves(r, Account(c)) /\ Return(c, "client", mem[r].key)
           /\ UNCHANGED <<mem, opening, waitsFor>>
  <2>1. "client" \in Results /\ mem[r].key \in Keys \union {None}
    BY <1>2, SessionFields DEF TypeOK, Results
  <2>2. /\ pc' = [pc EXCEPT ![c] = "done"] /\ pc' \in [Calls -> Places]
        /\ result' \in [Calls -> Results] /\ client' \in [Calls -> Keys \union {None}]
    BY <1>2, <1>4, <2>1, ReturnFits
  <2>3. TypeOK'
    BY <1>1, <1>2, <1>4, <2>2 DEF TypeOK, Places, Results
  <2> QED BY <1>1, <1>4, <2>2, <2>3, CallMoves
<1>5. CASE /\ mem' = [mem EXCEPT ![r] = NoSession] /\ Goto(c, "switch")
           /\ UNCHANGED <<opening, waitsFor>>
  <2>1. "switch" \in Steps
    BY DEF Steps
  <2>2. /\ pc' = [pc EXCEPT ![c] = "switch"] /\ pc' \in [Calls -> Places]
        /\ UNCHANGED <<result, client>>
    BY <1>2, <1>5, <2>1, GotoFits DEF Goto
  <2>3. TypeOK' /\ \A s \in Realms : mem'[s] \in {mem[s], NoSession}
    BY <1>1, <1>2, <1>5, <2>2 DEF TypeOK, Places
  <2> QED BY <1>1, <1>5, <2>2, <2>3, CallMoves
<1>6. CASE /\ opening' = [opening EXCEPT ![r] = c] /\ Goto(c, "rotate")
           /\ UNCHANGED <<mem, waitsFor>>
  <2>1. "rotate" \in Steps
    BY DEF Steps
  <2>2. /\ pc' = [pc EXCEPT ![c] = "rotate"] /\ pc' \in [Calls -> Places]
        /\ UNCHANGED <<result, client>>
    BY <1>2, <1>6, <2>1, GotoFits DEF Goto
  <2>3. TypeOK'
    BY <1>1, <1>2, <1>6, <2>2 DEF TypeOK, Places
  <2> QED BY <1>1, <1>6, <2>2, <2>3, CallMoves
<1> QED BY <1>3, <1>4, <1>5, <1>6 DEF Open

\* Storage is cleared, of the snapshot or of the key pair, or fails to be.
LEMMA ClearingsKeep ==
  ASSUME IInv, NEW c \in Calls,
         Switch(c) \/ SwitchKey(c) \/ Unregister(c) \/ Discard(c) \/ Remove(c) \/ Wipe(c)
  PROVE  IInv'
<1>1. pc[c] \in {"switch", "switchKey", "unregister", "discard", "remove", "wipe"} /\ TypeOK
  BY DEF Switch, SwitchKey, Unregister, Discard, Remove, Wipe, IInv
<1>2. Realm(c) \in Realms /\ None \in Keys \union {None}
  BY <1>1, CallFields
<1>3. UNCHANGED <<mem, owner, minted, expired, call, got, found, waitsFor, before>>
  BY DEF Switch, SwitchKey, Unregister, Discard, Remove, Wipe, turnkey, locals
<1>4. \/ \E place \in {"switchKey", "rotate", "wipe"} : Goto(c, place)
      \/ \E how \in {"error", "null", "closed"} : Return(c, how, None)
  BY DEF Switch, SwitchKey, Unregister, Discard, Remove, Wipe
<1>5. PICK place \in {"switchKey", "rotate", "wipe", "done"} :
        /\ pc' = [pc EXCEPT ![c] = place] /\ pc' \in [Calls -> Places]
        /\ result' \in [Calls -> Results] /\ client' \in [Calls -> Keys \union {None}]
  <2>1. CASE \E place \in {"switchKey", "rotate", "wipe"} : Goto(c, place)
    <3>1. PICK place \in {"switchKey", "rotate", "wipe"} : Goto(c, place)
      BY <2>1
    <3>2. place \in Steps
      BY DEF Steps
    <3> QED BY <1>1, <3>1, <3>2, GotoFits
  <2>2. CASE \E how \in {"error", "null", "closed"} : Return(c, how, None)
    <3>1. PICK how \in {"error", "null", "closed"} : Return(c, how, None)
      BY <2>2
    <3>2. how \in Results
      BY DEF Results
    <3> QED BY <1>1, <1>2, <3>1, <3>2, ReturnFits
  <2> QED BY <1>4, <2>1, <2>2
<1>6. /\ RemoveSnapshot \/ UNCHANGED <<snap, news>>
      /\ disk' \in {disk, None}
      /\ opening' \in {opening, [opening EXCEPT ![Realm(c)] = c], [opening EXCEPT ![Realm(c)] = None]}
      /\ ensuring' \in {ensuring, [ensuring EXCEPT ![Realm(c)] = None]}
  BY DEF Switch, SwitchKey, Unregister, Discard, Remove, Wipe, MayFail, EndOpen, EndEnsure
<1>7. snap' \in {snap, NoSession} /\ news' \in [Realms -> SUBSET Keys]
  BY <1>1, <1>6, RemoveFits
<1>8. TypeOK'
  <2>1. /\ opening' \in [Realms -> Calls \union {None}]
        /\ ensuring' \in [Realms -> Calls \union {None}]
        /\ disk' \in Keys \union {None} /\ snap' \in Sessions \union {NoSession}
    BY <1>1, <1>2, <1>6, <1>7 DEF TypeOK
  <2> QED BY <1>1, <1>3, <1>5, <1>7, <2>1 DEF TypeOK, Places, Results
<1> QED BY <1>1, <1>3, <1>5, <1>7, <1>8, CallMoves

\* A new key pair is its call's alone.
LEMMA RotateKeeps ==
  ASSUME IInv, NEW c \in Calls, Rotate(c)
  PROVE  IInv'
<1>1. /\ pc[c] = "rotate" /\ TypeOK /\ KeysFit
      /\ UNCHANGED <<mem, ensuring, snap, news, owner, expired, call, found, waitsFor, before>>
  BY DEF Rotate, IInv
<1>2. Realm(c) \in Realms /\ Account(c) \in Accounts
  BY <1>1, CallFields
<1>3. CASE /\ minted < MaxKeys /\ minted' = minted + 1 /\ disk' = minted + 1
           /\ got' = [got EXCEPT ![c] = [account |-> Account(c), key |-> minted + 1]]
           /\ Goto(c, "register") /\ UNCHANGED opening
  <2>1. "register" \in Steps
    BY DEF Steps
  <2>2. /\ pc' = [pc EXCEPT ![c] = "register"] /\ pc' \in [Calls -> Places]
        /\ UNCHANGED <<result, client>>
    BY <1>1, <1>3, <2>1, GotoFits DEF Goto
  <2> DEFINE s == [account |-> Account(c), key |-> minted + 1]
  <2>3. /\ minted \in Nat /\ minted + 1 \in Keys /\ minted' \in 0..MaxKeys
        /\ s \in Sessions /\ s # NoSession /\ s.account = Account(c) /\ s.key = minted + 1
    BY <1>1, <1>2, <1>3, BoundsOK, SessionFields DEF TypeOK, Keys, Sessions
  <2> HIDE DEF s
  <2>4. got' = [got EXCEPT ![c] = s]
    BY <1>3 DEF s
  <2>5. TypeOK'
    BY <1>1, <1>3, <2>2, <2>3, <2>4 DEF TypeOK, Places
  <2>6. /\ pc'[c] = "register" /\ got'[c] = s
        /\ \A d \in Calls \ {c} : pc'[d] = pc[d] /\ got'[d] = got[d]
    BY <1>1, <2>2, <2>4 DEF TypeOK
  <2>7. owner[minted + 1] = None
    BY <1>1, <2>3 DEF KeysFit
  <2>8. CallFits(c)'
    BY <1>1, <1>3, <2>3, <2>6, <2>7 DEF IInv, CallFits, Account
  <2>9. \A d \in Calls \ {c} : CallFits(d)'
    <3> SUFFICES ASSUME NEW d \in Calls \ {c} PROVE CallFits(d)'
      OBVIOUS
    <3>1. CallFits(d)
      BY DEF IInv
    <3>2. pc[d] = "register" => got[d].key \in Nat
      BY <1>1, <3>1, SessionFields DEF CallFits, TypeOK
    <3> QED BY <1>1, <1>3, <2>3, <2>6, <3>1, <3>2 DEF CallFits, Truthful, Account
  <2>10. KeysFit'
    <3>1. \A k \in Keys : k > minted' => owner'[k] = None
      BY <1>1, <1>3, <2>3 DEF KeysFit, Keys
    <3>2. \A d \in Calls \ {c} : pc[d] = "register" => got[d].key # minted + 1
      <4>1. \A d \in Calls : pc[d] = "register" => got[d].key <= minted /\ got[d].key \in Nat
        BY <1>1, SessionFields DEF IInv, CallFits, TypeOK
      <4> QED BY <4>1, <2>3
    <3> QED BY <1>1, <2>3, <2>6, <3>1, <3>2 DEF KeysFit
  <2>11. SessionsTruthful'
    BY <1>1 DEF IInv, SessionsTruthful, Truthful
  <2> QED BY <2>5, <2>8, <2>9, <2>10, <2>11 DEF IInv
<1>4. CASE /\ Return(c, "error", None) /\ EndOpen(c) /\ UNCHANGED <<minted, disk, got>>
  <2>1. "error" \in Results /\ None \in Keys \union {None}
    BY DEF Results
  <2>2. /\ pc' = [pc EXCEPT ![c] = "done"] /\ pc' \in [Calls -> Places]
        /\ result' \in [Calls -> Results] /\ client' \in [Calls -> Keys \union {None}]
    BY <1>1, <1>4, <2>1, ReturnFits
  <2>3. TypeOK'
    BY <1>1, <1>2, <1>4, <2>2 DEF TypeOK, Places, Results, EndOpen
  <2> QED BY <1>1, <1>4, <2>2, <2>3, CallMoves
<1> QED BY <1>3, <1>4 DEF Rotate

\* Turnkey learns of a key that nobody had, so no session elsewhere changes its
\* owner.
LEMMA RegisterKeeps ==
  ASSUME IInv, NEW c \in Calls, Register(c)
  PROVE  IInv'
<1> DEFINE key == got[c].key
<1>1. /\ pc[c] = "register" /\ TypeOK /\ KeysFit /\ CallFits(c)
      /\ UNCHANGED <<opening, ensuring, disk, snap, news, minted, expired, call, got, found,
                     waitsFor, before>>
  BY DEF Register, IInv, shared, locals
<1>2. /\ Realm(c) \in Realms /\ Account(c) \in Accounts
      /\ got[c] \in Sessions /\ got[c].account = Account(c)
      /\ key \in Keys /\ key <= minted /\ owner[key] = None
  BY <1>1, CallFields, SessionFields DEF CallFits, TypeOK
<1>3. PICK place \in {"publish", "unregister"} :
        /\ pc' = [pc EXCEPT ![c] = place] /\ pc' \in [Calls -> Places]
        /\ UNCHANGED <<result, client>>
        /\ \/ mem' = mem
           \/ mem' = [mem EXCEPT ![Realm(c)] = got[c]] /\ owner'[key] = Account(c)
        /\ \/ owner' = [owner EXCEPT ![key] = Account(c)]
           \/ UNCHANGED owner /\ place = "unregister"
  <2>1. "publish" \in Steps /\ "unregister" \in Steps
    BY DEF Steps
  <2>2. CASE /\ owner' = [owner EXCEPT ![key] = Account(c)]
             /\ mem' = [mem EXCEPT ![Realm(c)] = got[c]] /\ Goto(c, "publish")
    BY <1>1, <1>2, <2>1, <2>2, GotoFits DEF Goto, TypeOK
  <2>3. CASE /\ owner' = [owner EXCEPT ![key] = Account(c)] \/ UNCHANGED owner
             /\ Goto(c, "unregister") /\ UNCHANGED mem
    BY <1>1, <1>2, <2>1, <2>3, GotoFits DEF Goto
  <2> QED BY <2>2, <2>3 DEF Register
<1> HIDE DEF key
<1>4. TypeOK'
  <2>1. owner' \in [Keys -> Accounts \union {None}] /\ mem' \in [Realms -> Sessions \union {NoSession}]
    BY <1>1, <1>2, <1>3 DEF TypeOK
  <2> QED BY <1>1, <1>3, <2>1 DEF TypeOK, Places
<1>5. /\ pc'[c] = place /\ place # "register" /\ \A d \in Calls \ {c} : pc'[d] = pc[d]
      /\ \A k \in Keys \ {key} : owner'[k] = owner[k]
  BY <1>1, <1>2, <1>3 DEF TypeOK
\* What was registered before still is.
<1>6. \A s \in Sessions : Truthful(s) => owner[s.key] # None /\ owner'[s.key] = s.account
  <2> SUFFICES ASSUME NEW s \in Sessions, Truthful(s)
      PROVE  owner[s.key] # None /\ owner'[s.key] = s.account
    OBVIOUS
  <2>1. s # NoSession /\ s.key \in Keys /\ s.account # None
    BY SessionFields
  <2>2. owner[s.key] = s.account
    BY <2>1 DEF Truthful
  <2> QED BY <1>2, <1>5, <2>1, <2>2
<1>7. CallFits(c)'
  <2>1. place = "publish" => owner'[key] = Account(c)
    BY <1>1, <1>2, <1>3 DEF TypeOK
  <2> QED BY <1>1, <1>2, <1>5, <2>1, SessionFields DEF CallFits, Truthful, Account, key
<1>8. \A d \in Calls \ {c} : CallFits(d)'
  <2> SUFFICES ASSUME NEW d \in Calls \ {c} PROVE CallFits(d)'
    OBVIOUS
  <2>1. CallFits(d)
    BY DEF IInv
  <2>2. pc[d] = "register" => got[d].key \in Keys \ {key}
    BY <1>1, <2>1, SessionFields DEF CallFits, KeysFit, TypeOK, key
  <2>3. pc[d] \in {"publish", "load", "adopt"} => got[d] \in Sessions /\ owner'[got[d].key] = got[d].account
    BY <1>1, <1>6, <2>1 DEF CallFits, TypeOK
  <2> QED BY <1>1, <1>5, <2>1, <2>2, <2>3 DEF CallFits, Truthful, Account
<1>9. KeysFit'
  <2>1. key \in Nat /\ minted \in Nat
    BY <1>1, <1>2, BoundsOK DEF TypeOK, Keys
  <2> QED BY <1>1, <1>2, <1>5, <2>1 DEF KeysFit, Keys
<1>10. SessionsTruthful'
  <2>1. snap # NoSession => owner'[snap.key] = snap.account
    BY <1>1, <1>6 DEF IInv, SessionsTruthful, TypeOK
  <2>2. ASSUME NEW r \in Realms, mem'[r] # NoSession
        PROVE  owner'[mem'[r].key] = mem'[r].account
    <3>1. CASE mem'[r] = mem[r]
      BY <1>1, <1>6, <2>2, <3>1 DEF IInv, SessionsTruthful, TypeOK
    <3>2. CASE mem'[r] # mem[r]
      <4>1. mem'[r] = got[c] /\ owner'[key] = Account(c)
        BY <1>1, <1>2, <1>3, <3>2 DEF TypeOK
      <4> QED BY <1>2, <4>1 DEF key
    <3> QED BY <3>1, <3>2
  <2> QED BY <1>1, <2>1, <2>2 DEF SessionsTruthful, Truthful
<1> QED BY <1>4, <1>7, <1>8, <1>9, <1>10 DEF IInv

LEMMA PublishKeeps ==
  ASSUME IInv, NEW c \in Calls, Publish(c)
  PROVE  IInv'
<1>1. /\ pc[c] = "publish" /\ snap' \in {snap, got[c]} /\ Return(c, "client", got[c].key)
      /\ opening' = [opening EXCEPT ![Realm(c)] = None]
      /\ UNCHANGED <<mem, ensuring, disk, news, owner, minted, expired, call, got, found,
                     waitsFor, before>>
  BY DEF Publish, MayFail, EndOpen, turnkey, locals
<1>2. /\ TypeOK /\ Realm(c) \in Realms /\ "client" \in Results
      /\ got[c].key \in Keys \union {None}
  BY <1>1, CallFields, SessionFields DEF IInv, TypeOK, Results
<1>3. /\ pc' = [pc EXCEPT ![c] = "done"] /\ pc' \in [Calls -> Places]
      /\ result' \in [Calls -> Results] /\ client' \in [Calls -> Keys \union {None}]
  BY <1>1, <1>2, ReturnFits
<1>4. TypeOK'
  BY <1>1, <1>2, <1>3 DEF TypeOK, Places, Results
<1> QED BY <1>1, <1>3, <1>4, CallMoves

LEMMA EnsureKeeps ==
  ASSUME IInv, NEW c \in Calls, Ensure(c)
  PROVE  IInv'
<1> DEFINE r == Realm(c)
<1>1. /\ pc[c] = "start"
      /\ UNCHANGED <<mem, opening, disk, snap, news, owner, minted, expired, call, got, found,
                     before>>
  BY DEF Ensure, shared, turnkey
<1>2. TypeOK /\ r \in Realms /\ Account(c) \in Accounts
  BY <1>1, CallFields DEF IInv
<1>3. CASE Return(c, "client", mem[r].key) /\ UNCHANGED <<ensuring, waitsFor>>
  <2>1. "client" \in Results /\ mem[r].key \in Keys \union {None}
    BY <1>2, SessionFields DEF TypeOK, Results
  <2>2. /\ pc' = [pc EXCEPT ![c] = "done"] /\ pc' \in [Calls -> Places]
        /\ result' \in [Calls -> Results] /\ client' \in [Calls -> Keys \union {None}]
    BY <1>2, <1>3, <2>1, ReturnFits
  <2>3. TypeOK'
    BY <1>1, <1>2, <1>3, <2>2 DEF TypeOK, Places, Results
  <2> QED BY <1>1, <1>3, <2>2, <2>3, CallMoves
<1>4. CASE JoinCall(c, ensuring[r]) /\ UNCHANGED ensuring
  <2>1. ensuring[r] \in Calls \union {None}
    BY <1>2 DEF TypeOK
  <2> QED BY <1>1, <1>4, <2>1, JoinCallKeeps
<1>5. CASE /\ ensuring' = [ensuring EXCEPT ![r] = c] /\ Goto(c, "read") /\ UNCHANGED waitsFor
  <2>1. "read" \in Steps
    BY DEF Steps
  <2>2. /\ pc' = [pc EXCEPT ![c] = "read"] /\ pc' \in [Calls -> Places]
        /\ UNCHANGED <<result, client>>
    BY <1>2, <1>5, <2>1, GotoFits DEF Goto
  <2>3. TypeOK'
    BY <1>1, <1>2, <1>5, <2>2 DEF TypeOK, Places
  <2> QED BY <1>1, <1>5, <2>2, <2>3, CallMoves
<1> QED BY <1>3, <1>4, <1>5 DEF Ensure

LEMMA ReadSnapshotKeeps ==
  ASSUME IInv, NEW c \in Calls, ReadSnapshot(c)
  PROVE  IInv'
<1>1. /\ pc[c] = "read"
      /\ UNCHANGED <<mem, opening, disk, snap, news, owner, minted, expired, call, found,
                     waitsFor, before>>
  BY DEF ReadSnapshot, shared, turnkey
<1>2. TypeOK /\ Realm(c) \in Realms /\ Account(c) \in Accounts
  BY <1>1, CallFields DEF IInv
<1>3. CASE /\ snap.account = Account(c)
           /\ got' = [got EXCEPT ![c] = snap]
           /\ Goto(c, IF snap.key \in expired THEN "discard" ELSE "load")
           /\ UNCHANGED ensuring
  <2>1. PICK place \in {"discard", "load"} : Goto(c, place)
    BY <1>3
  <2>2. place \in Steps
    BY DEF Steps
  <2>3. /\ pc' = [pc EXCEPT ![c] = place] /\ pc' \in [Calls -> Places]
        /\ UNCHANGED <<result, client>>
    BY <1>2, <2>1, <2>2, GotoFits DEF Goto
  <2>4. TypeOK'
    BY <1>1, <1>2, <1>3, <2>3 DEF TypeOK, Places
  <2>5. pc'[c] = place /\ got'[c] = snap /\ \A d \in Calls \ {c} : got'[d] = got[d]
    BY <1>2, <1>3, <2>3 DEF TypeOK
  <2>6. snap # NoSession
    BY <1>2, <1>3, SessionFields, NoneIsNothing
  <2>7. CallFits(c)' /\ SessionsTruthful'
    BY <1>1, <2>5, <2>6 DEF IInv, CallFits, SessionsTruthful, Truthful
  <2> QED BY <1>1, <2>3, <2>4, <2>5, <2>7, OwnersStay
<1>4. CASE Return(c, "null", None) /\ EndEnsure(c) /\ UNCHANGED got
  <2>1. "null" \in Results /\ None \in Keys \union {None}
    BY DEF Results
  <2>2. /\ pc' = [pc EXCEPT ![c] = "done"] /\ pc' \in [Calls -> Places]
        /\ result' \in [Calls -> Results] /\ client' \in [Calls -> Keys \union {None}]
    BY <1>2, <1>4, <2>1, ReturnFits
  <2>3. TypeOK'
    BY <1>1, <1>2, <1>4, <2>2 DEF TypeOK, Places, Results, EndEnsure
  <2> QED BY <1>1, <1>4, <2>2, <2>3, CallMoves
<1> QED BY <1>3, <1>4 DEF ReadSnapshot

LEMMA LoadKeyKeeps ==
  ASSUME IInv, NEW c \in Calls, LoadKey(c)
  PROVE  IInv'
<1>1. /\ pc[c] = "load" /\ found' = [found EXCEPT ![c] = disk] /\ Goto(c, "adopt")
      /\ UNCHANGED <<mem, opening, ensuring, disk, snap, news, owner, minted, expired, call, got,
                     waitsFor, before>>
  BY DEF LoadKey, shared, turnkey
<1>2. TypeOK /\ "adopt" \in Steps
  BY DEF IInv, Steps
<1>3. /\ pc' = [pc EXCEPT ![c] = "adopt"] /\ pc' \in [Calls -> Places]
      /\ UNCHANGED <<result, client>>
  BY <1>1, <1>2, GotoFits DEF Goto
<1>4. TypeOK'
  BY <1>1, <1>2, <1>3 DEF TypeOK, Places
<1>5. pc'[c] = "adopt"
  BY <1>2, <1>3 DEF TypeOK
<1>6. CallFits(c)' /\ SessionsTruthful'
  BY <1>1, <1>5 DEF IInv, CallFits, SessionsTruthful, Truthful
<1> QED BY <1>1, <1>3, <1>4, <1>6, OwnersStay

LEMMA AdoptKeeps ==
  ASSUME IInv, NEW c \in Calls, Adopt(c)
  PROVE  IInv'
<1>1. /\ pc[c] = "adopt"
      /\ UNCHANGED <<opening, disk, snap, news, owner, minted, expired, call, got, found,
                     waitsFor, before>>
  BY DEF Adopt, shared, turnkey, locals
<1>2. TypeOK /\ Realm(c) \in Realms
  BY <1>1, CallFields DEF IInv
<1>3. CASE /\ mem' = [mem EXCEPT ![Realm(c)] = got[c]]
           /\ Return(c, "client", found[c]) /\ EndEnsure(c)
  <2>1. "client" \in Results /\ found[c] \in Keys \union {None}
    BY <1>2 DEF TypeOK, Results
  <2>2. /\ pc' = [pc EXCEPT ![c] = "done"] /\ pc' \in [Calls -> Places]
        /\ result' \in [Calls -> Results] /\ client' \in [Calls -> Keys \union {None}]
    BY <1>2, <1>3, <2>1, ReturnFits
  <2>3. TypeOK'
    BY <1>1, <1>2, <1>3, <2>2 DEF TypeOK, Places, Results, EndEnsure
  <2>4. \A r \in Realms : mem'[r] = mem[r] \/ mem'[r] = got[c]
    BY <1>2, <1>3 DEF TypeOK
  <2> QED BY <1>1, <2>2, <2>3, <2>4, CallMoves
<1>4. CASE Goto(c, "discard") /\ UNCHANGED <<mem, ensuring>>
  <2>1. "discard" \in Steps
    BY DEF Steps
  <2>2. /\ pc' = [pc EXCEPT ![c] = "discard"] /\ pc' \in [Calls -> Places]
        /\ UNCHANGED <<result, client>>
    BY <1>2, <1>4, <2>1, GotoFits DEF Goto
  <2>3. TypeOK'
    BY <1>1, <1>2, <1>4, <2>2 DEF TypeOK, Places
  <2> QED BY <1>1, <1>4, <2>2, <2>3, CallMoves
<1> QED BY <1>3, <1>4 DEF Adopt

LEMMA CloseKeeps ==
  ASSUME IInv, NEW c \in Calls, Close(c)
  PROVE  IInv'
<1>1. /\ pc[c] = "start" /\ mem' = [mem EXCEPT ![Realm(c)] = NoSession]
      /\ before' = [before EXCEPT ![c] = minted] /\ Goto(c, "remove")
      /\ UNCHANGED <<opening, ensuring, disk, snap, news, owner, minted, expired, call, got,
                     found, waitsFor>>
  BY DEF Close, shared, turnkey
<1>2. TypeOK /\ Realm(c) \in Realms /\ "remove" \in Steps
  BY <1>1, CallFields DEF IInv, Steps
<1>3. /\ pc' = [pc EXCEPT ![c] = "remove"] /\ pc' \in [Calls -> Places]
      /\ UNCHANGED <<result, client>>
  BY <1>1, <1>2, GotoFits DEF Goto
<1>4. TypeOK' /\ \A r \in Realms : mem'[r] \in {mem[r], NoSession}
  BY <1>1, <1>2, <1>3 DEF TypeOK, Places
<1> QED BY <1>1, <1>3, <1>4, CallMoves

\* What documents hear, sessions that run out and documents that close take
\* sessions and calls away.
LEMMA EndingsKeep ==
  ASSUME IInv, TypeOK', UNCHANGED <<owner, minted, call, got, waitsFor, snap>>,
         \A c \in Calls : pc'[c] \in {pc[c], "dead"},
         \A r \in Realms : mem'[r] \in {mem[r], NoSession},
         \A c \in Calls : pc'[c] = "dead" => pc[c] # "idle"
  PROVE  IInv'
<1>1. \A c \in Calls : CallFits(c)'
  BY DEF IInv, CallFits, Truthful, Account
<1>2. KeysFit'
  BY DEF IInv, KeysFit
<1>3. SessionsTruthful'
  BY DEF IInv, SessionsTruthful, Truthful
<1> QED BY <1>1, <1>2, <1>3 DEF IInv

LEMMA HearKeeps ==
  ASSUME IInv, NEW r \in Realms, NEW k \in Keys, Hear(r, k)
  PROVE  IInv'
<1>1. /\ news' = [news EXCEPT ![r] = @ \ {k}]
      /\ mem' \in {mem, [mem EXCEPT ![r] = NoSession]}
      /\ UNCHANGED <<opening, ensuring, disk, snap, owner, minted, expired, call, pc, got, found,
                     waitsFor, before, result, client>>
  BY DEF Hear, turnkey, locals
<1>2. TypeOK
  BY DEF IInv
<1>3. TypeOK' /\ \A s \in Realms : mem'[s] \in {mem[s], NoSession}
  BY <1>1, <1>2 DEF TypeOK
<1>4. \A c \in Calls : pc'[c] \in {pc[c], "dead"} /\ (pc'[c] = "dead" => pc[c] # "idle")
  BY <1>1
<1> QED BY <1>1, <1>3, <1>4, EndingsKeep

LEMMA ExpireKeeps ==
  ASSUME IInv, NEW k \in Keys, Expire(k)
  PROVE  IInv'
<1>1. /\ expired' = expired \union {k}
      /\ UNCHANGED <<mem, opening, ensuring, disk, snap, news, owner, minted, call, pc, got,
                     found, waitsFor, before, result, client>>
  BY DEF Expire, shared, locals
<1>2. TypeOK'
  BY <1>1 DEF IInv, TypeOK
<1>3. \A c \in Calls : pc'[c] \in {pc[c], "dead"} /\ (pc'[c] = "dead" => pc[c] # "idle")
  BY <1>1
<1> QED BY <1>1, <1>2, <1>3, EndingsKeep

LEMMA CloseRealmKeeps ==
  ASSUME IInv, NEW r \in Realms, CloseRealm(r)
  PROVE  IInv'
<1>1. /\ pc' = [c \in Calls |-> IF pc[c] \in Steps /\ Realm(c) = r THEN "dead" ELSE pc[c]]
      /\ mem' = [mem EXCEPT ![r] = NoSession]
      /\ opening' = [opening EXCEPT ![r] = None] /\ ensuring' = [ensuring EXCEPT ![r] = None]
      /\ news' = [news EXCEPT ![r] = {}]
      /\ UNCHANGED <<disk, snap, owner, minted, expired, call, got, found, waitsFor, before,
                     result, client>>
  BY DEF CloseRealm, turnkey, locals
<1>2. TypeOK
  BY DEF IInv
<1>3. TypeOK' /\ \A s \in Realms : mem'[s] \in {mem[s], NoSession}
  BY <1>1, <1>2 DEF TypeOK
<1>4. \A c \in Calls : pc'[c] \in {pc[c], "dead"} /\ (pc'[c] = "dead" => pc[c] # "idle")
  BY <1>1, <1>2 DEF Steps, TypeOK
<1> QED BY <1>1, <1>3, <1>4, EndingsKeep

LEMMA InitIsSafe == Init => IInv
<1> SUFFICES ASSUME Init PROVE IInv
  OBVIOUS
<1>1. TypeOK
  BY BoundsOK DEF Init, TypeOK
<1>2. KeysFit /\ \A c \in Calls : CallFits(c)
  BY DEF Init, KeysFit, CallFits
<1>3. SessionsTruthful
  BY DEF Init, SessionsTruthful, Truthful
<1> QED BY <1>1, <1>2, <1>3 DEF IInv

\* Calls, news, expiry and documents that close keep the invariant.
THEOREM Inductive ==
  ASSUME IInv, [Next]_vars
  PROVE  IInv'
<1>1. ASSUME NEW c \in Calls, Begin(c) \/ Go(c) PROVE IInv'
  BY <1>1, BeginKeeps, JoinKeeps, OpenKeeps, ClearingsKeep, RotateKeeps, RegisterKeeps,
     PublishKeeps, EnsureKeeps, ReadSnapshotKeeps, LoadKeyKeeps, AdoptKeeps, CloseKeeps DEF Go
<1>2. ASSUME NEW r \in Realms, (\E k \in Keys : Hear(r, k)) \/ CloseRealm(r) PROVE IInv'
  BY <1>2, HearKeeps, CloseRealmKeeps
<1>3. ASSUME NEW k \in Keys, Expire(k) PROVE IInv'
  BY <1>3, ExpireKeeps
<1>4. CASE UNCHANGED vars
  <2>1. UNCHANGED <<mem, opening, ensuring, disk, snap, news, owner, minted, expired, call, pc,
                    got, found, waitsFor, before, result, client>>
    BY <1>4 DEF vars, shared, turnkey, locals
  <2>2. TypeOK'
    BY <2>1 DEF IInv, TypeOK
  <2>3. \A c \in Calls : pc'[c] \in {pc[c], "dead"} /\ (pc'[c] = "dead" => pc[c] # "idle")
    BY <2>1
  <2> QED BY <2>1, <2>2, <2>3, EndingsKeep
<1> QED BY <1>1, <1>2, <1>3, <1>4 DEF Next

\* The documents of the extension are never out of the invariant.
THEOREM Invariance == Spec => []IInv
<1>1. Init => IInv
  BY InitIsSafe
<1>2. IInv /\ [Next]_vars => IInv'
  BY Inductive
<1> QED BY <1>1, <1>2, PTL DEF Spec

\* Documents, storage, Turnkey and calls hold what TypeOK says.
THEOREM TypeCorrect == Spec => []TypeOK
<1>1. IInv => TypeOK
  BY DEF IInv
<1> QED BY <1>1, Invariance, PTL

\* Whichever documents rotate, register, publish and adopt keys at the same
\* time, no session is for another account than Turnkey has its key for.
THEOREM SessionsAreTruthful == Spec => []SessionsTruthful
<1>1. IInv => SessionsTruthful
  BY DEF IInv
<1> QED BY <1>1, Invariance, PTL

-----------------------------------------------------------------------------
(* Sessions of the hub *)

\* What a use of the hub holds between two awaits.
UseRecords ==
    [kind: {None, "use", "sign", "prune"}, doc: Realms \union {None},
     account: Accounts \union {None}, by: Accounts \union {None},
     at: {"idle", "attach", "read", "sign", "mint", "copy", "write", "prune", "send", "done"},
     copy: Tokens!Maps, token: Tokens!Tokens \union {None}, again: BOOLEAN]

\* A map, stored or copied, against what the hub has minted (`o`).
MapFits(m, o) == \A a \in Accounts : m[a] # None => o[m[a]] = a

UseFits(k, o) ==
    /\ k.at \in {"attach", "read", "sign", "mint", "copy", "write", "send"} =>
         k.doc \in Realms /\ k.account \in Accounts /\ k.by \in Accounts
    /\ k.at \in {"copy", "write"} => k.token # None /\ o[k.token] = k.account
    /\ k.at \in {"write", "prune"} => MapFits(k.copy, o)

TokensInv ==
    /\ Tokens!TypeOK
    /\ use \in [Uses -> UseRecords]
    /\ \A c \in Uses : UseFits(use[c], tokenOwner)
    /\ TokensFit

LEMMA IdleFits ==
  /\ Tokens!Empty \in Tokens!Maps
  /\ Tokens!Idle \in UseRecords /\ Tokens!Idle.at = "idle"
  /\ \A o : MapFits(Tokens!Empty, o)
<1>1. Tokens!Empty \in Tokens!Maps /\ \A o : MapFits(Tokens!Empty, o)
  BY DEF Tokens!Empty, Tokens!Maps, MapFits
<1>2. Tokens!Idle \in UseRecords /\ Tokens!Idle.at = "idle"
  BY <1>1 DEF Tokens!Idle, UseRecords
<1> QED BY <1>1, <1>2

\* A use moves on; the map and the client may change with it.
LEMMA UseMoves ==
  ASSUME TokensInv, NEW c \in Uses, NEW k \in UseRecords, use' = [use EXCEPT ![c] = k],
         UNCHANGED <<shown, locked, tokenOwner>>,
         live' \in Accounts \union {None},
         attached' \in [Realms -> Tokens!Tokens \union {None}],
         stored' \in Tokens!Maps,
         UseFits(k, tokenOwner), MapFits(stored', tokenOwner)
  PROVE  TokensInv'
<1>1. /\ use' \in [Uses -> UseRecords] /\ use'[c] = k
      /\ \A d \in Uses \ {c} : use'[d] = use[d]
  BY DEF TokensInv
<1>2. \A d \in Uses : use'[d].at \in {"idle", "attach", "read", "sign", "mint", "copy", "write",
                                    "prune", "send", "done"}
  BY <1>1 DEF UseRecords
<1>3. Tokens!TypeOK'
  BY <1>2 DEF TokensInv, Tokens!TypeOK
<1>4. \A d \in Uses : UseFits(use'[d], tokenOwner')
  BY <1>1 DEF TokensInv
<1>5. TokensFit'
  BY DEF MapFits, TokensFit, Tokens!TokensFit
<1> QED BY <1>1, <1>3, <1>4, <1>5 DEF TokensInv

\* The session read for an account, if it is good for another minute.
LEMMA ReadFits ==
  ASSUME TokensInv, NEW a \in Accounts
  PROVE  Tokens!Read(a) \in Tokens!Tokens \union {None}
BY DEF TokensInv, Tokens!TypeOK, Tokens!Maps, Tokens!Read

\* What every step of a use starts from.
LEMMA UseFields ==
  ASSUME TokensInv, NEW c \in Uses
  PROVE  /\ use[c] \in UseRecords /\ UseFits(use[c], tokenOwner)
         /\ stored \in Tokens!Maps /\ MapFits(stored, tokenOwner)
         /\ attached \in [Realms -> Tokens!Tokens \union {None}]
         /\ live \in Accounts \union {None} /\ shown \in Accounts
BY DEF TokensInv, Tokens!TypeOK, TokensFit, Tokens!TokensFit, MapFits

LEMMA UseBegins ==
  ASSUME TokensInv, NEW c \in Uses, NEW kind \in {"use", "sign"}, NEW d \in Realms,
         NEW a \in Accounts, Tokens!Begin(c, kind, d, a)
  PROVE  TokensInv'
<1> DEFINE k == [Tokens!Idle EXCEPT !.kind = kind, !.doc = d, !.account = a, !.by = shown,
                                    !.at = "attach"]
<1>1. /\ use' = [use EXCEPT ![c] = k]
      /\ UNCHANGED <<stored, attached, shown, locked, live, tokenOwner, stale, moves>>
  BY DEF Tokens!Begin
<1>2. /\ k \in UseRecords /\ k.at = "attach" /\ k.doc = d /\ k.account = a /\ k.by = shown
  BY IdleFits, UseFields DEF UseRecords
<1> HIDE DEF k
<1>3. UseFits(k, tokenOwner)
  BY <1>2, UseFields DEF UseFits
<1> QED BY <1>1, <1>2, <1>3, UseFields, UseMoves

LEMMA UseAttaches ==
  ASSUME TokensInv, NEW c \in Uses, Tokens!Attach(c)
  PROVE  TokensInv'
<1>1. PICK at \in {"send", "read"} : use' = [use EXCEPT ![c].at = at]
  BY DEF Tokens!Attach
<1> DEFINE k == [use[c] EXCEPT !.at = at]
<1>2. /\ use[c].at = "attach" /\ use' = [use EXCEPT ![c] = k]
      /\ attached' = [attached EXCEPT ![use[c].doc] = Tokens!Read(use[c].by)]
      /\ UNCHANGED <<stored, shown, locked, live, tokenOwner, stale, moves>>
  BY <1>1 DEF Tokens!Attach
<1>3. /\ k \in UseRecords /\ k.at = at
      /\ k.doc = use[c].doc /\ k.account = use[c].account /\ k.by = use[c].by
  BY UseFields DEF UseRecords
<1> HIDE DEF k
<1>4. use[c].doc \in Realms /\ use[c].account \in Accounts /\ use[c].by \in Accounts
  BY <1>2, UseFields DEF UseFits
<1>5. UseFits(k, tokenOwner)
  BY <1>3, <1>4 DEF UseFits
<1>6. attached' \in [Realms -> Tokens!Tokens \union {None}]
  BY <1>2, <1>4, UseFields, ReadFits
<1> QED BY <1>2, <1>3, <1>5, <1>6, UseFields, UseMoves

LEMMA UseReadsOwn ==
  ASSUME TokensInv, NEW c \in Uses, Tokens!ReadOwn(c)
  PROVE  TokensInv'
<1>1. PICK at \in {"send", "sign"} : use' = [use EXCEPT ![c].at = at]
  BY DEF Tokens!ReadOwn
<1> DEFINE k == [use[c] EXCEPT !.at = at]
<1>2. /\ use[c].at = "read" /\ use' = [use EXCEPT ![c] = k]
      /\ attached' \in {attached,
                        [attached EXCEPT ![use[c].doc] = Tokens!Read(use[c].account)]}
      /\ UNCHANGED <<stored, shown, locked, live, tokenOwner, stale, moves>>
  BY <1>1 DEF Tokens!ReadOwn
<1>3. /\ k \in UseRecords /\ k.at = at
      /\ k.doc = use[c].doc /\ k.account = use[c].account /\ k.by = use[c].by
  BY UseFields DEF UseRecords
<1> HIDE DEF k
<1>4. use[c].doc \in Realms /\ use[c].account \in Accounts /\ use[c].by \in Accounts
  BY <1>2, UseFields DEF UseFits
<1>5. UseFits(k, tokenOwner)
  BY <1>3, <1>4 DEF UseFits
<1>6. attached' \in [Realms -> Tokens!Tokens \union {None}]
  BY <1>2, <1>4, UseFields, ReadFits
<1> QED BY <1>2, <1>3, <1>5, <1>6, UseFields, UseMoves

LEMMA UseSigns ==
  ASSUME TokensInv, NEW c \in Uses, Tokens!Sign(c)
  PROVE  TokensInv'
<1>1. /\ use[c].at = "sign" /\ live' \in {live, use[c].account}
      /\ \/ \E at \in {"mint", "done"} : use' = [use EXCEPT ![c].at = at]
         \/ use' = [use EXCEPT ![c].again = TRUE, ![c].by = shown, ![c].at = "attach"]
      /\ UNCHANGED <<stored, attached, shown, locked, tokenOwner, stale, moves>>
  BY DEF Tokens!Sign
<1>2. use[c].doc \in Realms /\ use[c].account \in Accounts /\ use[c].by \in Accounts
  BY <1>1, UseFields DEF UseFits
<1>3. PICK k \in UseRecords :
        /\ use' = [use EXCEPT ![c] = k] /\ k.at \in {"mint", "done", "attach"}
        /\ k.doc \in Realms /\ k.account \in Accounts /\ k.by \in Accounts
  <2>1. ASSUME NEW at \in {"mint", "done"}, use' = [use EXCEPT ![c].at = at]
        PROVE  \E k \in UseRecords :
                 /\ use' = [use EXCEPT ![c] = k] /\ k.at \in {"mint", "done", "attach"}
                 /\ k.doc \in Realms /\ k.account \in Accounts /\ k.by \in Accounts
    <3> DEFINE k == [use[c] EXCEPT !.at = at]
    <3>1. /\ k \in UseRecords /\ k.at = at /\ use' = [use EXCEPT ![c] = k]
          /\ k.doc = use[c].doc /\ k.account = use[c].account /\ k.by = use[c].by
      BY <2>1, UseFields DEF UseRecords
    <3> HIDE DEF k
    <3> QED BY <1>2, <3>1
  <2>2. CASE use' = [use EXCEPT ![c].again = TRUE, ![c].by = shown, ![c].at = "attach"]
    <3> DEFINE k == [use[c] EXCEPT !.again = TRUE, !.by = shown, !.at = "attach"]
    <3>1. /\ k \in UseRecords /\ k.at = "attach" /\ use' = [use EXCEPT ![c] = k]
          /\ k.doc = use[c].doc /\ k.account = use[c].account /\ k.by = shown
      BY <2>2, UseFields DEF UseRecords
    <3> HIDE DEF k
    <3> QED BY <1>2, <3>1, UseFields
  <2> QED BY <1>1, <2>1, <2>2
<1>4. UseFits(k, tokenOwner)
  BY <1>3 DEF UseFits
<1>5. live' \in Accounts \union {None}
  BY <1>1, <1>2, UseFields
<1> QED BY <1>1, <1>3, <1>4, <1>5, UseFields, UseMoves

\* The hub mints a session no one has: what was minted before stays whose it was.
LEMMA UseMints ==
  ASSUME TokensInv, NEW c \in Uses, Tokens!Mint(c)
  PROVE  TokensInv'
<1>1. PICK t \in Tokens!Tokens :
        /\ tokenOwner[t] = None
        /\ tokenOwner' = [tokenOwner EXCEPT ![t] = use[c].account]
        /\ use' = [use EXCEPT ![c].at = "copy", ![c].token = t]
  BY DEF Tokens!Mint
<1> DEFINE k == [use[c] EXCEPT !.at = "copy", !.token = t]
<1>2. /\ use[c].at = "mint" /\ use' = [use EXCEPT ![c] = k]
      /\ UNCHANGED <<stored, attached, shown, locked, live, stale, moves>>
  BY <1>1 DEF Tokens!Mint
<1>3. use[c].doc \in Realms /\ use[c].account \in Accounts /\ use[c].by \in Accounts
  BY <1>2, UseFields DEF UseFits
<1>4. /\ k \in UseRecords /\ k.at = "copy" /\ k.token = t
      /\ k.doc = use[c].doc /\ k.account = use[c].account /\ k.by = use[c].by
  BY UseFields DEF UseRecords
<1> HIDE DEF k
<1>5. /\ tokenOwner' \in [Tokens!Tokens -> Accounts \union {None}]
      /\ tokenOwner'[t] = use[c].account
      /\ \A u \in Tokens!Tokens : tokenOwner[u] # None => tokenOwner'[u] = tokenOwner[u]
  BY <1>1, <1>3 DEF TokensInv, Tokens!TypeOK
<1>6. t # None /\ None \notin Accounts
  BY NoneIsNothing DEF Tokens!Tokens
<1>7. \A m \in Tokens!Maps : MapFits(m, tokenOwner) => MapFits(m, tokenOwner')
  BY <1>5, <1>6 DEF MapFits, Tokens!Maps
<1>8. \A r \in UseRecords : UseFits(r, tokenOwner) => UseFits(r, tokenOwner')
  BY <1>5, <1>6, <1>7 DEF UseFits, UseRecords
<1>9. UseFits(k, tokenOwner')
  BY <1>3, <1>4, <1>5, <1>6 DEF UseFits
<1>10. /\ use' \in [Uses -> UseRecords]
       /\ \A d \in Uses : UseFits(use'[d], tokenOwner')
  BY <1>2, <1>4, <1>8, <1>9 DEF TokensInv
<1>11. \A d \in Uses : use'[d].at \in {"idle", "attach", "read", "sign", "mint", "copy", "write",
                                     "prune", "send", "done"}
  BY <1>10 DEF UseRecords
<1>12. Tokens!TypeOK'
  BY <1>2, <1>5, <1>11 DEF TokensInv, Tokens!TypeOK
<1>13. TokensFit'
  <2>1. MapFits(stored, tokenOwner')
    BY <1>7, UseFields
  <2> QED BY <1>2, <2>1 DEF MapFits, TokensFit, Tokens!TokensFit
<1> QED BY <1>10, <1>12, <1>13 DEF TokensInv

LEMMA UseCopies ==
  ASSUME TokensInv, NEW c \in Uses, Tokens!Copy(c)
  PROVE  TokensInv'
<1> DEFINE k == [use[c] EXCEPT !.at = "write", !.copy = stored]
<1>1. /\ use[c].at = "copy" /\ use' = [use EXCEPT ![c] = k]
      /\ UNCHANGED <<stored, attached, shown, locked, live, tokenOwner, stale, moves>>
  BY DEF Tokens!Copy
<1>2. /\ k \in UseRecords /\ k.at = "write" /\ k.copy = stored /\ k.token = use[c].token
      /\ k.doc = use[c].doc /\ k.account = use[c].account /\ k.by = use[c].by
  BY UseFields DEF UseRecords
<1> HIDE DEF k
<1>3. UseFits(k, tokenOwner)
  BY <1>1, <1>2, UseFields DEF UseFits
<1> QED BY <1>1, <1>2, <1>3, UseFields, UseMoves

\* The copy may be old; what is in it was minted for the accounts it is under.
LEMMA UseWrites ==
  ASSUME TokensInv, NEW c \in Uses, Tokens!Write(c)
  PROVE  TokensInv'
<1> DEFINE k == [use[c] EXCEPT !.at = "send"]
<1>1. /\ use[c].at = "write" /\ use' = [use EXCEPT ![c] = k]
      /\ stored' = [use[c].copy EXCEPT ![use[c].account] = use[c].token]
      /\ attached' = [attached EXCEPT ![use[c].doc] = use[c].token]
      /\ UNCHANGED <<shown, locked, live, tokenOwner, stale, moves>>
  BY DEF Tokens!Write
<1>2. /\ use[c].doc \in Realms /\ use[c].account \in Accounts /\ use[c].by \in Accounts
      /\ use[c].copy \in Tokens!Maps /\ MapFits(use[c].copy, tokenOwner)
      /\ use[c].token \in Tokens!Tokens /\ tokenOwner[use[c].token] = use[c].account
  BY <1>1, UseFields DEF UseFits, UseRecords
<1>3. /\ k \in UseRecords /\ k.at = "send"
      /\ k.doc = use[c].doc /\ k.account = use[c].account /\ k.by = use[c].by
  BY UseFields DEF UseRecords
<1> HIDE DEF k
<1>4. UseFits(k, tokenOwner)
  BY <1>2, <1>3 DEF UseFits
<1>5. stored' \in Tokens!Maps /\ MapFits(stored', tokenOwner)
  BY <1>1, <1>2 DEF Tokens!Maps, MapFits
<1>6. attached' \in [Realms -> Tokens!Tokens \union {None}]
  BY <1>1, <1>2, UseFields
<1> QED BY <1>1, <1>3, <1>4, <1>5, <1>6, UseFields, UseMoves

LEMMA UseSends ==
  ASSUME TokensInv, NEW c \in Uses, Tokens!Send(c)
  PROVE  TokensInv'
<1> DEFINE k == [use[c] EXCEPT !.at = "done", !.token = attached[use[c].doc]]
<1>1. /\ use[c].at = "send" /\ use' = [use EXCEPT ![c] = k]
      /\ UNCHANGED <<stored, attached, shown, locked, live, tokenOwner, stale, moves>>
  BY DEF Tokens!Send
<1>2. attached[use[c].doc] \in Tokens!Tokens \union {None}
  BY <1>1, UseFields DEF UseFits
<1>3. k \in UseRecords /\ k.at = "done"
  BY <1>2, UseFields DEF UseRecords
<1> HIDE DEF k
<1>4. UseFits(k, tokenOwner)
  BY <1>3 DEF UseFits
<1> QED BY <1>1, <1>3, <1>4, UseFields, UseMoves

\* A reader that met an expired session writes the map without it.
LEMMA UsePrunes ==
  ASSUME TokensInv, NEW c \in Uses,
         Tokens!Prune(c) \/ \E a \in Accounts : Tokens!Pruning(c, a)
  PROVE  TokensInv'
<1>1. CASE Tokens!Prune(c)
  <2> DEFINE k == [use[c] EXCEPT !.at = "done"]
  <2>1. /\ use[c].at = "prune" /\ use' = [use EXCEPT ![c] = k]
        /\ stored' = [use[c].copy EXCEPT ![use[c].account] = None]
        /\ UNCHANGED <<attached, shown, locked, live, tokenOwner, stale, moves>>
    BY <1>1 DEF Tokens!Prune
  <2>2. use[c].copy \in Tokens!Maps /\ MapFits(use[c].copy, tokenOwner)
    BY <2>1, UseFields DEF UseFits, UseRecords
  <2>3. k \in UseRecords /\ k.at = "done"
    BY UseFields DEF UseRecords
  <2> HIDE DEF k
  <2>4. UseFits(k, tokenOwner)
    BY <2>3 DEF UseFits
  <2>5. stored' \in Tokens!Maps /\ MapFits(stored', tokenOwner)
    BY <2>1, <2>2 DEF Tokens!Maps, MapFits
  <2> QED BY <2>1, <2>3, <2>4, <2>5, UseFields, UseMoves
<1>2. ASSUME NEW a \in Accounts, Tokens!Pruning(c, a)
      PROVE  TokensInv'
  <2> DEFINE k == [Tokens!Idle EXCEPT !.kind = "prune", !.account = a, !.at = "prune",
                                      !.copy = stored]
  <2>1. /\ use' = [use EXCEPT ![c] = k]
        /\ UNCHANGED <<stored, attached, shown, locked, live, tokenOwner, stale, moves>>
    BY <1>2 DEF Tokens!Pruning
  <2>2. k \in UseRecords /\ k.at = "prune" /\ k.copy = stored
    BY IdleFits, UseFields DEF UseRecords
  <2> HIDE DEF k
  <2>3. UseFits(k, tokenOwner)
    BY <2>2, UseFields DEF UseFits
  <2> QED BY <2>1, <2>2, <2>3, UseFields, UseMoves
<1> QED BY <1>1, <1>2

\* Switches, locks and sessions that run out leave every use where it is.
LEMMA TokenEventsKeep ==
  ASSUME TokensInv,
         \/ \E a \in Accounts : Tokens!Switch(a)
         \/ \E t \in Tokens!Tokens : Tokens!Expire(t)
         \/ Tokens!Lock \/ Tokens!Unlock
         \/ UNCHANGED Tokens!vars
  PROVE  TokensInv'
<1>1. /\ UNCHANGED <<attached, tokenOwner, use>>
      /\ stored' \in {stored, Tokens!Empty} /\ shown' \in Accounts
      /\ locked' \in BOOLEAN /\ live' \in {live, None}
  BY DEF Tokens!Switch, Tokens!Expire, Tokens!Lock, Tokens!Unlock, Tokens!vars, TokensInv,
         Tokens!TypeOK
<1>2. stored' \in Tokens!Maps /\ MapFits(stored', tokenOwner)
  <2>1. stored \in Tokens!Maps /\ MapFits(stored, tokenOwner)
    BY DEF TokensInv, Tokens!TypeOK, MapFits, TokensFit, Tokens!TokensFit
  <2>2. Tokens!Empty \in Tokens!Maps /\ MapFits(Tokens!Empty, tokenOwner)
    BY IdleFits
  <2> QED BY <1>1, <2>1, <2>2
<1>3. Tokens!TypeOK'
  BY <1>1, <1>2 DEF TokensInv, Tokens!TypeOK
<1>4. TokensFit'
  BY <1>1, <1>2 DEF MapFits, TokensFit, Tokens!TokensFit
<1> QED BY <1>1, <1>3, <1>4 DEF TokensInv

\* Every step of the hub's sessions keeps their invariant.
THEOREM TokensInductive ==
  ASSUME TokensInv, [Tokens!Next]_(Tokens!vars)
  PROVE  TokensInv'
<1>1. ASSUME NEW c \in Uses,
             \/ \E k \in {"use", "sign"}, d \in Realms, a \in Accounts : Tokens!Begin(c, k, d, a)
             \/ Tokens!Attach(c) \/ Tokens!ReadOwn(c) \/ Tokens!Sign(c) \/ Tokens!Mint(c)
             \/ Tokens!Copy(c) \/ Tokens!Write(c) \/ Tokens!Send(c) \/ Tokens!Prune(c)
             \/ \E a \in Accounts : Tokens!Pruning(c, a)
      PROVE  TokensInv'
  BY <1>1, UseBegins, UseAttaches, UseReadsOwn, UseSigns, UseMints, UseCopies, UseWrites,
     UseSends, UsePrunes
<1>2. CASE \/ \E a \in Accounts : Tokens!Switch(a)
           \/ \E t \in Tokens!Tokens : Tokens!Expire(t)
           \/ Tokens!Lock \/ Tokens!Unlock
           \/ UNCHANGED Tokens!vars
  BY <1>2, TokenEventsKeep
<1> QED BY <1>1, <1>2 DEF Tokens!Next

\* However uses, switches and locks overlap, and however old the copy is that a
\* use writes back, no account is handed a session minted for another.
THEOREM TokensAreTheirAccounts == Tokens!Spec => []TokensFit
<1>1. Tokens!Init => TokensInv
  <2> SUFFICES ASSUME Tokens!Init PROVE TokensInv
    OBVIOUS
  <2>1. Tokens!TypeOK /\ use \in [Uses -> UseRecords]
    BY IdleFits DEF Tokens!Init, Tokens!TypeOK
  <2>2. \A c \in Uses : UseFits(use[c], tokenOwner)
    BY IdleFits DEF Tokens!Init, UseFits
  <2>3. TokensFit
    BY DEF Tokens!Init, Tokens!Empty, TokensFit, Tokens!TokensFit
  <2> QED BY <2>1, <2>2, <2>3 DEF TokensInv
<1>2. TokensInv /\ [Tokens!Next]_(Tokens!vars) => TokensInv'
  BY TokensInductive
<1>3. TokensInv => TokensFit
  BY DEF TokensInv
<1> QED BY <1>1, <1>2, <1>3, PTL DEF Tokens!Spec

-----------------------------------------------------------------------------
(* The session of an SDK client *)

SdkInv == began \in Nat /\ OnePrompt

\* A mint begins only where none is under way.
LEMMA RefreshFits ==
  ASSUME SdkInv, Sdk!Refresh
  PROVE  SdkInv'
<1>1. CASE mintInFlight # None
  BY <1>1 DEF SdkInv, OnePrompt, Sdk!OnePrompt, Sdk!Refresh
<1>2. CASE mintInFlight = None
  <2>1. /\ mints = {} /\ began' = began + 1 /\ mintInFlight' = began'
        /\ mints' = mints \union {began'}
    BY <1>2 DEF SdkInv, OnePrompt, Sdk!OnePrompt, Sdk!Refresh
  <2>2. began' \in Nat /\ began' # None
    BY <2>1, NoneIsNothing DEF SdkInv
  <2> QED BY <2>1, <2>2 DEF SdkInv, OnePrompt, Sdk!OnePrompt
<1> QED BY <1>1, <1>2

\* Calls that begin, wait, are answered or refused keep at most one mint under
\* way, and what ends it opens the gate.
THEOREM SdkInductive ==
  ASSUME SdkInv, [Sdk!Next]_(Sdk!vars)
  PROVE  SdkInv'
<1>1. CASE UNCHANGED <<mintInFlight, mints, began>>
  BY <1>1 DEF SdkInv, OnePrompt, Sdk!OnePrompt
<1>2. CASE Sdk!Refresh
  BY <1>2, RefreshFits
<1>3. ASSUME NEW m \in mints, NEW how \in {"session", "none", "error"}, Sdk!MintEnds(m, how)
      PROVE  SdkInv'
  <2>1. mints' = mints \ {m} /\ mintInFlight' = None /\ began' = began
    BY <1>3 DEF Sdk!MintEnds
  <2>2. mints = {mintInFlight} \ {None}
    BY DEF SdkInv, OnePrompt, Sdk!OnePrompt
  <2>3. mints' = {}
    BY <2>1, <2>2
  <2> QED BY <2>1, <2>3 DEF SdkInv, OnePrompt, Sdk!OnePrompt
<1>4. ASSUME NEW c \in Calls,
             \/ \E k \in {"enforced", "open", "revoke"} : Sdk!Begin(c, k)
             \/ Sdk!Answers(c) \/ Sdk!Refuses(c) \/ Sdk!Fails(c)
      PROVE  Sdk!Refresh \/ UNCHANGED <<mintInFlight, mints, began>>
  BY <1>4 DEF Sdk!Begin, Sdk!Answers, Sdk!Refuses, Sdk!Fails
<1>5. (\E t \in Sdk!Tokens : Sdk!Ends(t)) \/ Sdk!Drop \/ UNCHANGED Sdk!vars =>
        UNCHANGED <<mintInFlight, mints, began>>
  BY DEF Sdk!Ends, Sdk!Drop, Sdk!vars
<1> QED BY <1>1, <1>2, <1>3, <1>4, <1>5 DEF Sdk!Next

\* However many calls need a session at the same time, the user is asked to
\* sign one challenge at a time, and is asked again only after that.
THEOREM OnePromptAtATime == Sdk!Spec => []OnePrompt
<1>1. Sdk!Init => SdkInv
  BY DEF Sdk!Init, SdkInv, OnePrompt, Sdk!OnePrompt
<1>2. SdkInv /\ [Sdk!Next]_(Sdk!vars) => SdkInv'
  BY SdkInductive
<1>3. SdkInv => OnePrompt
  BY DEF SdkInv
<1> QED BY <1>1, <1>2, <1>3, PTL DEF Sdk!Spec

-----------------------------------------------------------------------------
(* The code gate *)

GateRuns == [gate: 1..MaxGates, no: 1..MaxChallenges, for: Wallets, live: BOOLEAN,
             wallet: Wallets \union {None}]
GateChecks == [gate: 1..MaxGates, for: Wallets, pair: Gate!Pairs,
               at: {"verify", "open", "late"}]

\* A check that got past the hub's answer was of a code for the gate's wallet.
GateInv ==
    /\ Gate!TypeOK
    /\ asked # None => gate \in 1..MaxGates
    /\ \A c \in checks : c.at # "verify" => c.pair.wallet = c.for
    /\ ResumesForVerified

\* A step after which no page goes on that did not before.
LEMMA GateMoves ==
  ASSUME GateInv, Gate!TypeOK', UNCHANGED resumed,
         asked' # None => gate' \in 1..MaxGates,
         \A c \in checks' \ checks : c.at # "verify" => c.pair.wallet = c.for
  PROVE  GateInv'
BY DEF GateInv, ResumesForVerified, Gate!ResumesForVerified

LEMMA CancelledFits ==
  ASSUME NEW runs, runs \subseteq GateRuns
  PROVE  Gate!Cancelled(runs) \subseteq GateRuns
BY DEF Gate!Cancelled, GateRuns

LEMMA LeftFits ==
  ASSUME NEW runs, runs \subseteq GateRuns, NEW g, NEW s
  PROVE  Gate!Left(g, s, runs) \subseteq GateRuns
BY CancelledFits DEF Gate!Left

\* The parts of the type, as the steps use them.
LEMMA GateFields ==
  ASSUME Gate!TypeOK
  PROVE  /\ known \subseteq Wallets /\ active \in known /\ session \in known \union {None}
         /\ gate \in Nat /\ challenges \in Nat /\ inits \subseteq GateRuns
         /\ checks \subseteq GateChecks /\ mailed \subseteq Gate!Pairs
BY GatesOK DEF Gate!TypeOK, GateRuns, GateChecks

\* A step that gives the gate on screen another stage and changes its runs and
\* checks.
LEMMA GateTurns ==
  ASSUME GateInv, UNCHANGED <<known, active, gate, challenges, resumed>>,
         session' \in known \union {None},
         asked' \in {asked, None}, stage' \in {"init", "otp", "verifying", "error"},
         pair' \in Gate!Pairs \union {None},
         inits' \subseteq GateRuns, checks' \subseteq GateChecks, mailed' \subseteq Gate!Pairs,
         \A c \in checks' \ checks : c.at # "verify" => c.pair.wallet = c.for
  PROVE  GateInv'
<1>1. Gate!TypeOK'
  BY DEF GateInv, Gate!TypeOK, GateRuns, GateChecks
<1> QED BY <1>1, GateMoves DEF GateInv

\* The gate that is put on screen, or tries again, starts a run.
LEMMA NewRunFits ==
  ASSUME Gate!TypeOK, NEW g \in 1..MaxGates, NEW for \in Wallets, challenges < MaxChallenges
  PROVE  Gate!NewRun(g, for) \in GateRuns /\ challenges + 1 \in 0..MaxChallenges
<1>1. challenges + 1 \in 1..MaxChallenges
  BY GatesOK DEF Gate!TypeOK
<1> QED BY <1>1 DEF Gate!NewRun, GateRuns

LEMMA GateMounts ==
  ASSUME GateInv, Gate!Mount
  PROVE  GateInv'
<1>1. /\ gate < MaxGates /\ challenges < MaxChallenges
      /\ gate' = gate + 1 /\ asked' = active /\ stage' = "init" /\ pair' = None
      /\ challenges' = challenges + 1
      /\ inits' = inits \union {Gate!NewRun(gate', active)}
      /\ UNCHANGED <<known, active, session, checks, mailed, resumed>>
  BY DEF Gate!Mount
<1>2. /\ gate' \in 1..MaxGates /\ Gate!TypeOK /\ active \in Wallets
      /\ inits \subseteq GateRuns /\ checks \subseteq GateChecks
  BY <1>1, GatesOK, GateFields DEF GateInv, Gate!TypeOK
<1>3. \A g \in 1..MaxGates : Gate!NewRun(g, active) \in GateRuns /\ challenges + 1 \in 0..MaxChallenges
  BY <1>1, <1>2, NewRunFits
<1>4. inits' \subseteq GateRuns /\ challenges' \in 0..MaxChallenges
  BY <1>1, <1>2, <1>3
<1>5. Gate!TypeOK'
  BY <1>1, <1>2, <1>4 DEF Gate!TypeOK, GateRuns, GateChecks
<1> QED BY <1>1, <1>2, <1>5, GateMoves

LEMMA GateRetries ==
  ASSUME GateInv, Gate!Retry
  PROVE  GateInv'
<1>1. /\ asked # None /\ challenges < MaxChallenges
      /\ challenges' = challenges + 1 /\ stage' = "init"
      /\ inits' = inits \union {Gate!NewRun(gate, asked)}
      /\ UNCHANGED <<known, active, session, gate, asked, pair, checks, mailed, resumed>>
  BY DEF Gate!Retry
<1>2. /\ gate \in 1..MaxGates /\ Gate!TypeOK /\ asked \in Wallets
      /\ inits \subseteq GateRuns /\ checks \subseteq GateChecks
  BY <1>1, GateFields DEF GateInv, Gate!TypeOK
<1>3. inits' \subseteq GateRuns /\ challenges' \in 0..MaxChallenges
  BY <1>1, <1>2, NewRunFits
<1>4. Gate!TypeOK'
  BY <1>1, <1>2, <1>3 DEF Gate!TypeOK, GateRuns, GateChecks
<1> QED BY <1>1, <1>2, <1>4, GateMoves

\* Runs of the effect: answers, failures and time running out.
LEMMA CandidateFits ==
  ASSUME NEW for, NEW offered \in Offers
  PROVE  Gate!Candidate(for, offered) \in Wallets \union {None}
BY OffersOK DEF Gate!Candidate

LEMMA RunsKeep ==
  ASSUME GateInv, NEW i \in inits,
         Gate!InitAnswers(i) \/ Gate!InitTimesOut(i) \/ Gate!StartAnswers(i) \/ Gate!StartFails(i)
  PROVE  GateInv'
<1>1. /\ Gate!TypeOK /\ i \in GateRuns /\ inits \subseteq GateRuns /\ checks \subseteq GateChecks
      /\ mailed \subseteq Gate!Pairs
  BY GateFields DEF GateInv
<1>2. UNCHANGED <<known, active, session, gate, asked, challenges, resumed, checks>>
  BY DEF Gate!InitAnswers, Gate!InitTimesOut, Gate!StartAnswers, Gate!StartFails,
         Gate!InitFails, Gate!Stage, Gate!view
<1> DEFINE p == [challenge |-> i.no, wallet |-> i.wallet]
<1>3. i.wallet # None => p \in Gate!Pairs
  BY <1>1 DEF GateRuns, Gate!Pairs
<1>4. mailed' \subseteq Gate!Pairs
  BY <1>1, <1>3 DEF Gate!InitAnswers, Gate!InitTimesOut, Gate!StartAnswers, Gate!StartFails
<1>5. /\ pair' \in {pair} \/ (i.wallet # None /\ pair' = p)
      /\ stage' \in {stage, "error", "otp"}
  BY DEF Gate!InitAnswers, Gate!InitTimesOut, Gate!StartAnswers, Gate!StartFails,
         Gate!InitFails, Gate!Stage, Gate!view
<1>6. pair' \in Gate!Pairs \union {None} /\ stage' \in {"init", "otp", "verifying", "error"}
  BY <1>1, <1>3, <1>5 DEF Gate!TypeOK
<1>7. \A g, s : Gate!Left(g, s, inits \ {i}) \subseteq GateRuns
  BY <1>1, LeftFits
<1>8. inits' \subseteq GateRuns
  <2>1. CASE Gate!InitAnswers(i)
    <3>1. PICK offered \in Offers :
            LET w == Gate!Candidate(i.for, offered) IN
            IF ~i.live THEN inits' = inits \ {i} /\ UNCHANGED Gate!view
            ELSE IF w = None THEN Gate!InitFails(i)
            ELSE inits' = (inits \ {i}) \union {[i EXCEPT !.wallet = w]} /\ UNCHANGED Gate!view
      BY <2>1 DEF Gate!InitAnswers
    <3>2. Gate!Candidate(i.for, offered) \in Wallets \union {None}
      BY CandidateFits
    <3>3. [i EXCEPT !.wallet = Gate!Candidate(i.for, offered)] \in GateRuns
      BY <1>1, <3>2 DEF GateRuns
    <3> QED BY <1>1, <1>7, <3>1, <3>3 DEF Gate!InitFails
  <2>2. CASE Gate!InitTimesOut(i) \/ Gate!StartAnswers(i) \/ Gate!StartFails(i)
    BY <1>1, <1>7, <2>2 DEF Gate!InitTimesOut, Gate!StartAnswers, Gate!StartFails, Gate!InitFails
  <2> QED BY <2>1, <2>2
<1>9. session' \in known \union {None} /\ checks' \subseteq GateChecks
  BY <1>1, <1>2 DEF Gate!TypeOK
<1> QED BY <1>2, <1>4, <1>6, <1>8, <1>9, GateTurns

\* Checks: what is opened was verified for the wallet of the gate.
LEMMA ChecksKeep ==
  ASSUME GateInv, NEW c \in checks,
         \/ Gate!VerifyAnswers(c) \/ Gate!VerifyFails(c) \/ Gate!SessionFails(c)
         \/ Gate!SessionTimesOut(c) \/ Gate!SessionOpensLate(c)
  PROVE  GateInv'
<1>1. /\ Gate!TypeOK /\ c \in GateChecks /\ inits \subseteq GateRuns /\ checks \subseteq GateChecks
      /\ mailed \subseteq Gate!Pairs
  BY GateFields DEF GateInv
<1>2. UNCHANGED <<known, active, gate, asked, pair, challenges, resumed>>
  BY DEF Gate!VerifyAnswers, Gate!VerifyFails, Gate!SessionFails, Gate!SessionTimesOut,
         Gate!SessionOpensLate, Gate!CheckFails, Gate!Stage, Gate!view
<1>3. /\ stage' \in {stage, "otp", "error"} /\ mailed' \subseteq mailed
      /\ session' \in {session, active}
  BY DEF Gate!VerifyAnswers, Gate!VerifyFails, Gate!SessionFails, Gate!SessionTimesOut,
         Gate!SessionOpensLate, Gate!CheckFails, Gate!Stage, Gate!view
<1>4. \/ inits' = inits
      \/ \E s \in {"otp", "error"} : inits' = Gate!Left(c.gate, s, inits)
  BY DEF Gate!VerifyAnswers, Gate!VerifyFails, Gate!SessionFails, Gate!SessionTimesOut,
         Gate!SessionOpensLate, Gate!CheckFails
<1>5. inits' \subseteq GateRuns
  BY <1>1, <1>4, LeftFits
<1>6. \/ checks' = checks \ {c}
      \/ /\ c.pair.wallet = c.for
         /\ \E at \in {"open", "late"} : checks' = (checks \ {c}) \union {[c EXCEPT !.at = at]}
  BY DEF Gate!VerifyAnswers, Gate!VerifyFails, Gate!SessionFails, Gate!SessionTimesOut,
         Gate!SessionOpensLate, Gate!CheckFails, GateInv
<1>7. \A at \in {"open", "late"} :
        LET d == [c EXCEPT !.at = at] IN
        d \in GateChecks /\ d.pair = c.pair /\ d.for = c.for
  BY <1>1 DEF GateChecks
<1>8. /\ checks' \subseteq GateChecks
      /\ \A d \in checks' \ checks : d.at # "verify" => d.pair.wallet = d.for
  BY <1>1, <1>6, <1>7
<1>9. /\ session' \in known \union {None} /\ pair' \in Gate!Pairs \union {None}
      /\ stage' \in {"init", "otp", "verifying", "error"} /\ mailed' \subseteq Gate!Pairs
  BY <1>1, <1>2, <1>3 DEF Gate!TypeOK
<1> QED BY <1>2, <1>5, <1>8, <1>9, GateTurns

\* A page goes on, by a check that is open.
LEMMA PageGoesOn ==
  ASSUME GateInv, NEW c \in checks, Gate!SessionOpens(c)
  PROVE  GateInv'
<1>1. /\ c.at = "open" /\ session' = active /\ checks' = checks \ {c} /\ asked' = None
      /\ inits' = Gate!Cancelled(inits)
      /\ resumed' = resumed \union {[gate |-> c.gate, for |-> c.for, verified |-> c.pair.wallet]}
      /\ UNCHANGED <<known, active, gate, stage, pair, mailed, challenges>>
  BY DEF Gate!SessionOpens
<1>2. inits' \subseteq GateRuns
  BY <1>1, GateFields, CancelledFits DEF GateInv
<1>3. Gate!TypeOK'
  BY <1>1, <1>2 DEF GateInv, Gate!TypeOK, GateRuns
<1>4. c.pair.wallet = c.for
  BY <1>1 DEF GateInv
<1>5. ResumesForVerified'
  BY <1>1, <1>4 DEF GateInv, ResumesForVerified, Gate!ResumesForVerified
<1> QED BY <1>1, <1>3, <1>5 DEF GateInv

\* What the user does with the gate, and what happens elsewhere.
LEMMA UserKeeps ==
  ASSUME GateInv,
         \/ Gate!AskToForget \/ Gate!Cancel \/ Gate!Verify \/ Gate!Elsewhere
         \/ UNCHANGED Gate!vars
  PROVE  GateInv'
<1>1. /\ Gate!TypeOK /\ inits \subseteq GateRuns /\ checks \subseteq GateChecks
      /\ mailed \subseteq Gate!Pairs
  BY GateFields DEF GateInv
<1>2. /\ UNCHANGED <<known, active, gate, pair, mailed, challenges, resumed>>
      /\ asked' \in {asked, None} /\ stage' \in {stage, "error", "verifying"}
      /\ session' \in {session, active, None}
      /\ inits' \in {inits, Gate!Cancelled(inits)}
  BY DEF Gate!AskToForget, Gate!Cancel, Gate!Verify, Gate!Elsewhere, Gate!vars, Gate!view
<1>3. inits' \subseteq GateRuns
  BY <1>1, <1>2, CancelledFits
<1>4. /\ checks' \subseteq GateChecks
      /\ \A d \in checks' \ checks : d.at # "verify" => d.pair.wallet = d.for
  <2>1. CASE Gate!Verify
    <3> DEFINE d == [gate |-> gate, for |-> asked, pair |-> pair, at |-> "verify"]
    <3>1. asked # None /\ pair # None /\ checks' = checks \union {d}
      BY <2>1 DEF Gate!Verify
    <3>2. gate \in 1..MaxGates /\ asked \in Wallets /\ pair \in Gate!Pairs
      BY <1>1, <3>1 DEF GateInv, Gate!TypeOK
    <3>3. d \in GateChecks /\ d.at = "verify"
      BY <3>2 DEF GateChecks
    <3> QED BY <1>1, <3>1, <3>3
  <2>2. CASE UNCHANGED checks
    BY <1>1, <2>2
  <2> QED BY <2>1, <2>2 DEF Gate!AskToForget, Gate!Cancel, Gate!Elsewhere, Gate!vars
<1>5. /\ session' \in known \union {None} /\ pair' \in Gate!Pairs \union {None}
      /\ stage' \in {"init", "otp", "verifying", "error"} /\ mailed' \subseteq Gate!Pairs
  BY <1>1, <1>2 DEF Gate!TypeOK
<1> QED BY <1>2, <1>3, <1>4, <1>5, GateTurns

\* The active wallet is switched, or forgotten.
LEMMA WalletsKeep ==
  ASSUME GateInv, Gate!Forget \/ \E w \in Wallets : Gate!Switch(w)
  PROVE  GateInv'
<1>1. CASE Gate!Forget
  <2>1. /\ asked # None /\ known # {asked} /\ known' = known \ {asked}
        /\ active' \in (IF active = asked THEN known' ELSE {active})
        /\ session' = IF session = asked THEN None ELSE session
        /\ asked' = None /\ inits' = {} /\ checks' = {}
        /\ UNCHANGED <<gate, stage, pair, mailed, challenges, resumed>>
    BY <1>1 DEF Gate!Forget
  <2>2. Gate!TypeOK'
    BY <2>1 DEF GateInv, Gate!TypeOK
  <2> QED BY <2>1, <2>2, GateMoves
<1>2. ASSUME NEW w \in Wallets, Gate!Switch(w) PROVE GateInv'
  <2>1. /\ active' \in known
        /\ UNCHANGED <<known, session, gate, asked, stage, pair, inits, checks, mailed,
                       challenges, resumed>>
    BY <1>2 DEF Gate!Switch, Gate!view
  <2>2. Gate!TypeOK'
    BY <2>1 DEF GateInv, Gate!TypeOK
  <2> QED BY <2>1, <2>2, GateMoves DEF GateInv
<1> QED BY <1>1, <1>2

\* Every step of the gates keeps their invariant.
THEOREM GateInductive ==
  ASSUME GateInv, [Gate!Next]_(Gate!vars)
  PROVE  GateInv'
<1>1. ASSUME NEW i \in inits,
             \/ Gate!InitAnswers(i) \/ Gate!InitTimesOut(i) \/ Gate!StartAnswers(i)
             \/ Gate!StartFails(i)
      PROVE  GateInv'
  BY <1>1, RunsKeep
<1>2. ASSUME NEW c \in checks,
             \/ Gate!VerifyAnswers(c) \/ Gate!VerifyFails(c) \/ Gate!SessionOpens(c)
             \/ Gate!SessionFails(c) \/ Gate!SessionTimesOut(c) \/ Gate!SessionOpensLate(c)
      PROVE  GateInv'
  BY <1>2, ChecksKeep, PageGoesOn
<1>3. CASE \/ Gate!AskToForget \/ Gate!Cancel \/ Gate!Verify \/ Gate!Elsewhere
           \/ UNCHANGED Gate!vars
  BY <1>3, UserKeeps
<1>4. CASE \/ Gate!Mount \/ Gate!Retry \/ Gate!Forget \/ \E w \in Wallets : Gate!Switch(w)
  BY <1>4, GateMounts, GateRetries, WalletsKeep
<1> QED BY <1>1, <1>2, <1>3, <1>4 DEF Gate!Next

\* A page goes on only after a code mailed for the wallet it asked for, however
\* wallets are switched and late answers arrive.
THEOREM GateResumesForVerified == Gate!Spec => []ResumesForVerified
<1>1. Gate!Init => GateInv
  BY GatesOK DEF Gate!Init, GateInv, Gate!TypeOK, ResumesForVerified, Gate!ResumesForVerified
<1>2. GateInv /\ [Gate!Next]_(Gate!vars) => GateInv'
  BY GateInductive
<1>3. GateInv => ResumesForVerified
  BY DEF GateInv
<1> QED BY <1>1, <1>2, <1>3, PTL DEF Gate!Spec

=============================================================================
