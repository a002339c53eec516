------------------------ MODULE WalletCreationProofs ------------------------
(***************************************************************************)
(* One sub-organization per Idempotency-Key, truthful replies, no phantom  *)
(* wallets and no late takeovers, for any number of calls, users, keys and *)
(* faults, by the inductive invariant IInv.                                *)
(***************************************************************************)
EXTENDS WalletCreation, TLAPS

(* Where a handler has taken its key and its failure would be recorded.    *)
Owning == {"request", "create", "finish", "fail"}

(* A call asks once; who has not arrived has left no trace; what a place   *)
(* in the handler says of the request.                                     *)
PlacesFit ==
    \A c \in Calls :
        /\ pc[c] # "idle" => req[c] \in Requests
        /\ pc[c] \in Owning \union {"key", "insert"} => req[c].route \in CreateRoutes
        /\ pc[c] = "finish" => c \in orgs
        /\ pc[c] = "import" => req[c].org \in orgs
        /\ pc[c] = "idle" => /\ c \notin orgs
                             /\ c \notin late
                             /\ reply[c] = NoReply
                             /\ \A s \in Slots : keyRow[s].by # c
                             /\ \A r \in resources : r.call # c

(* Who made a sub-organization, or is about to, inserted the row of its key. *)
KeysOwned ==
    \A c \in Calls : c \in orgs \/ pc[c] \in Owning =>
        Slot(c) \in Slots /\ keyRow[Slot(c)].by = c

Stored(c) == \E r \in resources : r.call = c /\ r.org = c /\ r.user = req[c].user

(* A row stands under the key its call carried; a succeeded one has its    *)
(* wallet.                                                                 *)
RowsFit ==
    \A s \in Slots : keyRow[s] # NoRow =>
        /\ Slot(keyRow[s].by) = s
        /\ keyRow[s].status = "succeeded" => Stored(keyRow[s].by)

(* A wallet is its caller's and exists at Turnkey; a late one came with a  *)
(* session.                                                                *)
WalletsFit ==
    \A r \in resources :
        /\ r.user = req[r.call].user
        /\ r.org \in orgs
        /\ r.call \in late => req[r.call].session = r.user

(* Who is past the gate and came late has shown a session.                 *)
LateFit ==
    \A c \in late :
        /\ HasCredentials(req[c].user)
        /\ pc[c] \in Waiting \ {"gate"} => req[c].session = req[c].user

(* An answer that names a wallet names a stored one.                       *)
WalletsNamed ==
    \A c \in Calls : reply[c].kind \in {"created", "replayed"} => NamesStored(c)

IInv ==
    /\ TypeOK
    /\ PlacesFit
    /\ KeysOwned
    /\ RowsFit
    /\ WalletsFit
    /\ LateFit
    /\ WalletsNamed

-----------------------------------------------------------------------------
(* Requests *)

LEMMA RequestFields ==
  ASSUME NEW q \in Requests
  PROVE  /\ q.user \in Users
         /\ q.route \in CreateRoutes \union {"import"}
         /\ q.route \in CreateRoutes => <<q.route, q.key>> \in Slots
         /\ q.route = "import" => q.org \in Calls
BY DEF Requests, CreateRoutes, Slots

THEOREM InitIsSafe == Init => IInv
<1> SUFFICES ASSUME Init PROVE IInv
  OBVIOUS
<1>1. TypeOK
  BY ConstantsOK DEF Init, TypeOK
<1>2. \A s \in Slots : \A c \in Calls : keyRow[s] = NoRow /\ keyRow[s].by # c
  BY NoneIsNothing DEF Init, NoRow
<1>3. PlacesFit
  BY <1>2 DEF Init, PlacesFit, Owning
<1>4. KeysOwned /\ RowsFit
  BY <1>2 DEF Init, KeysOwned, RowsFit, Owning
<1>5. WalletsFit /\ LateFit /\ WalletsNamed
  BY DEF Init, WalletsFit, LateFit, WalletsNamed, NoReply
<1> QED BY <1>1, <1>3, <1>4, <1>5 DEF IInv

-----------------------------------------------------------------------------
(* Steps *)

\* A handler that goes on without touching keys, wallets or Turnkey.
LEMMA HandlerMoves ==
  ASSUME IInv, NEW c \in Calls, NEW place,
         pc' = [pc EXCEPT ![c] = place], pc[c] # "idle", place # "idle",
         UNCHANGED <<req, late, keyRow, resources, orgs>>,
         place \in Owning => pc[c] \in Owning,
         place \in {"key", "insert"} => req[c].route \in CreateRoutes,
         place = "finish" => c \in orgs,
         place = "import" => req[c].org \in orgs,
         c \in late /\ place \in Waiting \ {"gate"} => req[c].session = req[c].user,
         \A d \in Calls \ {c} : reply'[d] = reply[d],
         TypeOK', WalletsNamed'
  PROVE  IInv'
<1>1. /\ pc'[c] = place
      /\ \A d \in Calls \ {c} : pc'[d] = pc[d]
  BY DEF IInv, TypeOK
<1>2. PlacesFit'
  <2> SUFFICES ASSUME NEW d \in Calls PROVE PlacesFit!(d)'
    BY DEF PlacesFit
  <2>1. CASE d = c
    BY <1>1, <2>1 DEF IInv, PlacesFit, KeysOwned, Slot, Slots, Owning
  <2>2. CASE d # c
    BY <1>1, <2>2 DEF IInv, PlacesFit
  <2> QED BY <2>1, <2>2
<1>3. KeysOwned'
  BY <1>1 DEF IInv, KeysOwned, Slot
<1>4. RowsFit'
  BY DEF IInv, RowsFit, Slot, Stored
<1>5. WalletsFit'
  BY DEF IInv, WalletsFit
<1>6. LateFit'
  BY <1>1 DEF IInv, LateFit, HasCredentials, TypeOK
<1> QED BY <1>2, <1>3, <1>4, <1>5, <1>6 DEF IInv

LEMMA ArriveKeeps ==
  ASSUME IInv, NEW c \in Calls, Arrive(c)
  PROVE  IInv'
<1>1. PICK q \in Requests :
        /\ req' = [req EXCEPT ![c] = q]
        /\ late' = IF HasCredentials(q.user) THEN late \union {c} ELSE late
  BY DEF Arrive
<1>2. /\ pc[c] = "idle" /\ pc' = [pc EXCEPT ![c] = "gate"]
      /\ UNCHANGED <<keyRow, resources, recoveryEmail, trail, orgs, reply, faults>>
  BY DEF Arrive, Goto, NoFault, hub
<1>3. /\ \A d \in Calls \ {c} : pc'[d] = pc[d] /\ req'[d] = req[d] /\ (d \in late' <=> d \in late)
      /\ pc'[c] = "gate" /\ req'[c] = q
  BY <1>1, <1>2 DEF IInv, TypeOK
<1>4. /\ c \notin orgs /\ c \notin late /\ reply[c] = NoReply
      /\ \A s \in Slots : keyRow[s].by # c
      /\ \A r \in resources : r.call # c
  BY <1>2 DEF IInv, PlacesFit
<1>5. TypeOK'
  BY <1>1, <1>2 DEF IInv, TypeOK, Waiting
<1>6. PlacesFit'
  BY <1>2, <1>3 DEF IInv, PlacesFit, Owning
<1>7. KeysOwned'
  BY <1>2, <1>3, <1>4 DEF IInv, KeysOwned, Slot, Owning
<1>8. RowsFit'
  <2> SUFFICES ASSUME NEW s \in Slots, keyRow[s] # NoRow
      PROVE  RowsFit!(s)!2'
    BY <1>2 DEF RowsFit
  <2>1. keyRow[s].by \in Calls \ {c}
    BY <1>4 DEF IInv, TypeOK, Rows
  <2> QED BY <2>1, <1>2, <1>3 DEF IInv, RowsFit, Slot, Stored
<1>9. WalletsFit'
  <2> SUFFICES ASSUME NEW r \in resources PROVE WalletsFit!(r)'
    BY <1>2 DEF WalletsFit
  <2>1. r.call \in Calls \ {c}
    BY <1>4 DEF IInv, TypeOK
  <2> QED BY <2>1, <1>2, <1>3 DEF IInv, WalletsFit
<1>10. LateFit'
  <2> SUFFICES ASSUME NEW d \in late' PROVE LateFit!(d)'
    BY DEF LateFit
  <2>1. CASE d = c
    BY <2>1, <1>1, <1>2, <1>3, <1>4 DEF HasCredentials
  <2>2. CASE d # c
    BY <2>2, <1>1, <1>2, <1>3 DEF IInv, TypeOK, LateFit, HasCredentials
  <2> QED BY <2>1, <2>2
<1>11. WalletsNamed'
  <2> SUFFICES ASSUME NEW d \in Calls, reply[d].kind \in {"created", "replayed"}
      PROVE  WalletsNamed!(d)!2'
    BY <1>2 DEF WalletsNamed
  <2>1. d # c
    BY <1>4 DEF NoReply
  <2>2. PICK r \in resources : /\ r.org = reply[d].org /\ r.call = reply[d].org
                               /\ r.user = req[d].user
                               /\ Slot(r.call) = Slot(d) /\ Body(r.call) = Body(d)
    BY DEF IInv, WalletsNamed, NamesStored
  <2>3. r.call \in Calls \ {c}
    BY <1>4 DEF IInv, TypeOK
  <2> QED BY <1>2, <1>3, <2>1, <2>2, <2>3 DEF NamesStored, Slot, Body
<1> QED BY <1>5, <1>6, <1>7, <1>8, <1>9, <1>10, <1>11 DEF IInv

\* An answer that names no wallet.
LEMMA PlainAnswer ==
  ASSUME IInv, NEW c \in Calls, NEW kind, Answer(c, kind, None),
         kind \in {"refused", "conflict", "in_progress", "failed", "rejected", "error"},
         UNCHANGED <<req, resources>>
  PROVE  /\ reply' \in [Calls -> Replies \union {NoReply}]
         /\ pc' \in [Calls -> {"idle", "done", "dead"} \union Waiting]
         /\ \A d \in Calls \ {c} : reply'[d] = reply[d]
         /\ WalletsNamed'
<1>1. [kind |-> kind, org |-> None] \in Replies
  BY DEF Replies
<1>2. reply' = [reply EXCEPT ![c] = [kind |-> kind, org |-> None]]
  BY DEF Answer
<1>3. WalletsNamed'
  BY <1>2 DEF IInv, TypeOK, WalletsNamed, NamesStored, Slot, Body
<1> QED BY <1>1, <1>2, <1>3 DEF IInv, TypeOK, Answer

LEMMA SilentStep ==
  ASSUME IInv, UNCHANGED <<req, resources, reply>>
  PROVE  WalletsNamed'
BY DEF IInv, WalletsNamed, NamesStored, Slot, Body

LEMMA GateKeeps ==
  ASSUME IInv, NEW c \in Calls, Gate(c)
  PROVE  IInv'
<1>1. /\ pc[c] = "gate" /\ UNCHANGED <<req, late, keyRow, resources, recoveryEmail, trail, orgs, faults>>
  BY DEF Gate, NoFault, hub
<1>2. req[c] \in Requests
  BY <1>1 DEF IInv, PlacesFit
<1>3. CASE Admitted(c) /\ Goto(c, IF req[c].route = "import" THEN "lookup" ELSE "key")
  <2> DEFINE place == IF req[c].route = "import" THEN "lookup" ELSE "key"
  <2>1. pc' = [pc EXCEPT ![c] = place] /\ UNCHANGED reply /\ place \in {"lookup", "key"}
    BY <1>3 DEF Goto
  <2>2. TypeOK'
    BY <1>1, <2>1 DEF IInv, TypeOK, Waiting
  <2>3. place = "key" => req[c].route \in CreateRoutes
    BY <1>2, RequestFields
  <2>4. c \in late => req[c].session = req[c].user
    BY <1>3 DEF IInv, LateFit, Admitted
  <2>5. WalletsNamed'
    BY <1>1, <2>1, SilentStep
  <2> HIDE DEF place
  <2> QED BY <1>1, <2>1, <2>2, <2>3, <2>4, <2>5, HandlerMoves DEF Owning
<1>4. CASE Answer(c, "refused", None)
  <2>1. TypeOK' /\ WalletsNamed' /\ \A d \in Calls \ {c} : reply'[d] = reply[d]
    BY <1>1, <1>4, PlainAnswer DEF IInv, TypeOK
  <2>2. pc' = [pc EXCEPT ![c] = "done"]
    BY <1>4 DEF Answer
  <2> QED BY <1>1, <2>1, <2>2, HandlerMoves DEF Owning, Waiting
<1> QED BY <1>3, <1>4 DEF Gate

LEMMA ReadKeyKeeps ==
  ASSUME IInv, NEW c \in Calls, ReadKey(c)
  PROVE  IInv'
<1> DEFINE row == keyRow[Slot(c)]
<1>1. /\ pc[c] = "key" /\ UNCHANGED <<req, late, keyRow, resources, recoveryEmail, trail, orgs, faults>>
  BY DEF ReadKey, NoFault, hub
<1>2. Slot(c) \in Slots /\ req[c].route \in CreateRoutes
  BY <1>1, RequestFields DEF IInv, PlacesFit, Slot
<1>3. CASE Goto(c, "insert")
  <2>1. pc' = [pc EXCEPT ![c] = "insert"] /\ UNCHANGED reply
    BY <1>3 DEF Goto
  <2>2. TypeOK'
    BY <1>1, <2>1 DEF IInv, TypeOK, Waiting
  <2>3. c \in late => req[c].session = req[c].user
    BY <1>1 DEF IInv, LateFit, Waiting
  <2>4. WalletsNamed'
    BY <1>1, <2>1, SilentStep
  <2> QED BY <1>1, <1>2, <2>1, <2>2, <2>3, <2>4, HandlerMoves DEF Owning
<1>4. CASE \E kind \in {"conflict", "in_progress", "failed"} : Answer(c, kind, None)
  <2>1. PICK kind \in {"conflict", "in_progress", "failed"} : Answer(c, kind, None)
    BY <1>4
  <2>2. TypeOK' /\ WalletsNamed' /\ \A d \in Calls \ {c} : reply'[d] = reply[d]
    BY <1>1, <2>1, PlainAnswer DEF IInv, TypeOK
  <2>3. pc' = [pc EXCEPT ![c] = "done"]
    BY <2>1 DEF Answer
  <2> QED BY <1>1, <2>2, <2>3, HandlerMoves DEF Owning, Waiting
<1>5. CASE row # NoRow /\ Body(row.by) = Body(c) /\ row.status = "succeeded" /\ Answer(c, "replayed", row.by)
  <2>1. row.by \in Calls
    BY <1>2, <1>5 DEF IInv, TypeOK, Rows
  <2>2. pc' = [pc EXCEPT ![c] = "done"] /\ reply' = [reply EXCEPT ![c] = [kind |-> "replayed", org |-> row.by]]
    BY <1>5 DEF Answer
  <2>3. [kind |-> "replayed", org |-> row.by] \in Replies
    BY <2>1 DEF Replies
  <2>4. TypeOK' /\ \A d \in Calls \ {c} : reply'[d] = reply[d]
    BY <1>1, <2>2, <2>3 DEF IInv, TypeOK
  <2>5. WalletsNamed'
    <3> SUFFICES ASSUME NEW d \in Calls, reply'[d].kind \in {"created", "replayed"}
        PROVE  WalletsNamed!(d)!2'
      BY DEF WalletsNamed
    <3>1. CASE d # c
      BY <1>1, <2>4, <3>1 DEF IInv, WalletsNamed, NamesStored, Slot, Body
    <3>2. CASE d = c
      <4>1. PICK r \in resources : r.call = row.by /\ r.org = row.by /\ r.user = req[row.by].user
        BY <1>2, <1>5 DEF IInv, RowsFit, Stored
      <4>2. Slot(row.by) = Slot(c)
        BY <1>2, <1>5 DEF IInv, RowsFit
      <4>3. reply'[c].org = row.by
        BY <2>2 DEF IInv, TypeOK
      <4>4. req[row.by].user = req[c].user
        BY <1>5 DEF Body
      <4> QED BY <1>1, <1>5, <3>2, <4>1, <4>2, <4>3, <4>4 DEF NamesStored, Slot, Body
    <3> QED BY <3>1, <3>2
  <2> QED BY <1>1, <2>2, <2>4, <2>5, HandlerMoves DEF Owning, Waiting
<1> QED BY <1>3, <1>4, <1>5 DEF ReadKey

LEMMA InsertKeyKeeps ==
  ASSUME IInv, NEW c \in Calls, InsertKey(c)
  PROVE  IInv'
<1>1. /\ pc[c] = "insert" /\ UNCHANGED <<req, late, resources, recoveryEmail, trail, orgs>>
  BY DEF InsertKey
<1>2. Slot(c) \in Slots /\ req[c] \in Requests /\ req[c].route \in CreateRoutes
  BY <1>1, RequestFields DEF IInv, PlacesFit, Slot
<1>3. CASE Answer(c, "error", None) /\ NoFault /\ UNCHANGED keyRow
  <2>1. TypeOK' /\ WalletsNamed' /\ \A d \in Calls \ {c} : reply'[d] = reply[d]
    BY <1>1, <1>3, PlainAnswer DEF IInv, TypeOK, NoFault
  <2>2. pc' = [pc EXCEPT ![c] = "done"]
    BY <1>3 DEF Answer
  <2> QED BY <1>1, <1>3, <2>1, <2>2, HandlerMoves DEF Owning, Waiting
<1>4. CASE /\ keyRow[Slot(c)] = NoRow
           /\ keyRow' = [keyRow EXCEPT ![Slot(c)] = [status |-> "pending", by |-> c]]
           /\ \/ Goto(c, "request") /\ NoFault
              \/ Answer(c, "error", None) /\ Fault
  <2>1. /\ keyRow'[Slot(c)] = [status |-> "pending", by |-> c]
        /\ \A s \in Slots \ {Slot(c)} : keyRow'[s] = keyRow[s]
    BY <1>2, <1>4 DEF IInv, TypeOK
  <2>2. /\ pc'[c] \in {"request", "done"}
        /\ \A d \in Calls \ {c} : pc'[d] = pc[d] /\ reply'[d] = reply[d]
    BY <1>4 DEF IInv, TypeOK, Goto, Answer
  <2>3. WalletsNamed' /\ reply' \in [Calls -> Replies \union {NoReply}]
    BY <1>1, <1>4, PlainAnswer, SilentStep DEF IInv, TypeOK, Goto
  <2>4. faults' \in 0..MaxFaults
    BY <1>4, ConstantsOK DEF IInv, TypeOK, NoFault, Fault
  <2>5. TypeOK'
    BY <1>1, <1>2, <1>4, <2>3, <2>4 DEF IInv, TypeOK, Goto, Answer, Waiting, Rows
  <2>6. PlacesFit'
    BY <1>1, <1>2, <2>1, <2>2 DEF IInv, PlacesFit, Owning
  <2>7. KeysOwned'
    <3> SUFFICES ASSUME NEW d \in Calls, d # c, d \in orgs \/ pc[d] \in Owning
        PROVE  Slot(d) \in Slots /\ keyRow'[Slot(d)].by = d
      BY <1>1, <1>2, <2>1, <2>2 DEF KeysOwned, Slot
    <3>1. Slot(d) \in Slots /\ keyRow[Slot(d)].by = d
      BY DEF IInv, KeysOwned
    <3>2. Slot(d) # Slot(c)
      BY <1>4, <3>1, NoneIsNothing DEF NoRow
    <3> QED BY <2>1, <3>1, <3>2
  <2>8. RowsFit'
    BY <1>1, <2>1 DEF IInv, RowsFit, Slot, Stored
  <2>9. WalletsFit'
    BY <1>1 DEF IInv, WalletsFit
  <2>10. LateFit'
    BY <1>1, <2>2 DEF IInv, TypeOK, LateFit, HasCredentials, Waiting
  <2> QED BY <2>3, <2>5, <2>6, <2>7, <2>8, <2>9, <2>10 DEF IInv
<1> QED BY <1>3, <1>4 DEF InsertKey

LEMMA AuditRequestKeeps ==
  ASSUME IInv, NEW c \in Calls, AuditRequest(c)
  PROVE  IInv'
<1>1. /\ pc[c] = "request" /\ UNCHANGED <<req, late, keyRow, resources, recoveryEmail, orgs>>
      /\ trail' = trail \union {<<c, "requested">>}
  BY DEF AuditRequest
<1>2. CASE Goto(c, "create") /\ NoFault
  <2>1. pc' = [pc EXCEPT ![c] = "create"] /\ UNCHANGED reply
    BY <1>2 DEF Goto
  <2>2. TypeOK' /\ WalletsNamed'
    BY <1>1, <1>2, <2>1, SilentStep DEF IInv, TypeOK, Waiting, NoFault
  <2>3. c \in late => req[c].session = req[c].user
    BY <1>1 DEF IInv, LateFit, Waiting
  <2> QED BY <1>1, <2>1, <2>2, <2>3, HandlerMoves DEF Owning
<1>3. CASE Answer(c, "error", None) /\ Fault
  <2>1. TypeOK' /\ WalletsNamed' /\ \A d \in Calls \ {c} : reply'[d] = reply[d]
    BY <1>1, <1>3, PlainAnswer, ConstantsOK DEF IInv, TypeOK, Fault
  <2>2. pc' = [pc EXCEPT ![c] = "done"]
    BY <1>3 DEF Answer
  <2> QED BY <1>1, <2>1, <2>2, HandlerMoves DEF Owning, Waiting
<1> QED BY <1>2, <1>3 DEF AuditRequest

LEMMA CreateSubOrgKeeps ==
  ASSUME IInv, NEW c \in Calls, CreateSubOrg(c)
  PROVE  IInv'
<1>1. /\ pc[c] = "create" /\ orgs \subseteq orgs' /\ orgs' \subseteq orgs \union {c}
      /\ UNCHANGED <<req, late, keyRow, resources, recoveryEmail, trail, reply, faults>>
  BY DEF CreateSubOrg, NoFault, hub, Goto
<1>2. PICK place \in {"finish", "fail"} :
        pc' = [pc EXCEPT ![c] = place] /\ (place = "finish" => c \in orgs')
  BY DEF CreateSubOrg, Goto
<1>3. /\ pc'[c] = place
      /\ \A d \in Calls \ {c} : pc'[d] = pc[d]
  BY <1>2 DEF IInv, TypeOK
<1>4. TypeOK'
  BY <1>1, <1>2 DEF IInv, TypeOK, Waiting
<1>5. PlacesFit'
  BY <1>1, <1>2, <1>3 DEF IInv, PlacesFit, Owning
<1>6. KeysOwned'
  BY <1>1, <1>3 DEF IInv, KeysOwned, Slot, Owning
<1>7. RowsFit' /\ WalletsFit'
  BY <1>1 DEF IInv, RowsFit, Slot, Stored, WalletsFit
<1>8. LateFit'
  BY <1>1, <1>3 DEF IInv, TypeOK, LateFit, HasCredentials, Waiting
<1>9. WalletsNamed'
  BY <1>1, SilentStep
<1> QED BY <1>4, <1>5, <1>6, <1>7, <1>8, <1>9 DEF IInv

LEMMA FinishKeeps ==
  ASSUME IInv, NEW c \in Calls, Finish(c)
  PROVE  IInv'
<1>1. /\ pc[c] = "finish" /\ UNCHANGED <<req, late, orgs>>
      /\ trail' = trail \union {<<c, "succeeded">>}
      /\ recoveryEmail' = IF req[c].email = None THEN recoveryEmail
                          ELSE [recoveryEmail EXCEPT ![req[c].user] = req[c].email]
      /\ keyRow' = [keyRow EXCEPT ![Slot(c)].status = "succeeded"]
  BY DEF Finish
<1>2. PICK verified \in BOOLEAN : resources' = resources \union
        {[call |-> c, user |-> req[c].user, org |-> c, verified |-> verified]}
  BY DEF Finish
<1>3. /\ Slot(c) \in Slots /\ keyRow[Slot(c)].by = c /\ c \in orgs
      /\ req[c] \in Requests /\ req[c].user \in Users
      /\ req[c].email \in Emails \union {None}
  BY <1>1, RequestFields DEF IInv, KeysOwned, PlacesFit, Owning, Requests
<1>4. /\ pc'[c] \in {"done", "fail"}
      /\ \A d \in Calls \ {c} : pc'[d] = pc[d] /\ reply'[d] = reply[d]
      /\ pc' \in [Calls -> {"idle", "done", "dead"} \union Waiting]
  BY DEF IInv, TypeOK, Finish, Answer, Goto, Waiting
<1>5. /\ keyRow[Slot(c)] \in Rows
      /\ keyRow'[Slot(c)] = [keyRow[Slot(c)] EXCEPT !.status = "succeeded"]
      /\ \A s \in Slots \ {Slot(c)} : keyRow'[s] = keyRow[s]
      /\ \A s \in Slots : keyRow'[s].by = keyRow[s].by
  BY <1>1, <1>3, NoneIsNothing DEF IInv, TypeOK, NoRow, Rows
<1>6. reply' \in [Calls -> Replies \union {NoReply}] /\ faults' \in 0..MaxFaults
  BY ConstantsOK DEF IInv, TypeOK, Finish, Answer, Goto, NoFault, Fault, Replies
<1>7. TypeOK'
  <2>1. keyRow' \in [Slots -> Rows \union {NoRow}]
    BY <1>1, <1>3, <1>5 DEF IInv, TypeOK, Rows
  <2>2. resources' \subseteq [call: Calls, user: Users, org: Calls, verified: BOOLEAN]
    BY <1>2, <1>3 DEF IInv, TypeOK
  <2>3. recoveryEmail' \in [Users -> Emails \union {None}]
    BY <1>1, <1>3 DEF IInv, TypeOK
  <2> QED BY <1>1, <1>4, <1>6, <2>1, <2>2, <2>3 DEF IInv, TypeOK
<1>8. PlacesFit'
  BY <1>1, <1>2, <1>4, <1>5 DEF IInv, PlacesFit, Owning
<1>9. KeysOwned'
  BY <1>1, <1>3, <1>4, <1>5 DEF IInv, KeysOwned, Slot
<1>10. \E r \in resources' : r.call = c /\ r.org = c /\ r.user = req[c].user
  <2> DEFINE w == [call |-> c, user |-> req[c].user, org |-> c, verified |-> verified]
  <2>1. w \in resources'
    BY <1>2
  <2>2. w.call = c /\ w.org = c /\ w.user = req[c].user
    OBVIOUS
  <2> QED BY <2>1, <2>2, Zenon
<1>11. RowsFit'
  <2> SUFFICES ASSUME NEW s \in Slots, keyRow'[s] # NoRow
      PROVE  RowsFit!(s)!2'
    BY DEF RowsFit
  <2>1. CASE s = Slot(c)
    <3>1. keyRow'[s].by = c
      BY <1>3, <1>5, <2>1
    <3>2. Stored(c)'
      BY <1>1, <1>10 DEF Stored
    <3> QED BY <1>1, <2>1, <3>1, <3>2 DEF Slot
  <2>2. CASE s # Slot(c)
    BY <1>1, <1>2, <1>5, <2>2 DEF IInv, RowsFit, Slot, Stored
  <2> QED BY <2>1, <2>2
<1>12. WalletsFit'
  BY <1>1, <1>2, <1>3 DEF IInv, WalletsFit, LateFit, Waiting
<1>13. LateFit'
  BY <1>1, <1>2, <1>4 DEF IInv, TypeOK, LateFit, HasCredentials, Waiting
<1>14. WalletsNamed'
  <2> SUFFICES ASSUME NEW d \in Calls, reply'[d].kind \in {"created", "replayed"}
      PROVE  WalletsNamed!(d)!2'
    BY DEF WalletsNamed
  <2>1. CASE reply'[d] = reply[d]
    BY <1>1, <1>2, <2>1 DEF IInv, WalletsNamed, NamesStored, Slot, Body
  <2>2. CASE reply'[d] # reply[d]
    <3>1. d = c /\ reply'[c].org = c
      BY <1>4, <2>2 DEF IInv, TypeOK, Finish, Answer, Goto
    <3> QED BY <1>1, <1>10, <3>1 DEF NamesStored, Slot, Body
  <2> QED BY <2>1, <2>2
<1> QED BY <1>7, <1>8, <1>9, <1>11, <1>12, <1>13, <1>14 DEF IInv

LEMMA RecordFailureKeeps ==
  ASSUME IInv, NEW c \in Calls, RecordFailure(c)
  PROVE  IInv'
<1>1. /\ pc[c] = "fail" /\ UNCHANGED <<req, late, resources, recoveryEmail, orgs, faults>>
      /\ trail' = trail \union {<<c, "failed">>}
      /\ keyRow' = [keyRow EXCEPT ![Slot(c)].status = "failed"]
      /\ Answer(c, "error", None)
  BY DEF RecordFailure, NoFault
<1>2. Slot(c) \in Slots /\ keyRow[Slot(c)].by = c
  BY <1>1 DEF IInv, KeysOwned, Owning
<1>3. /\ keyRow[Slot(c)] \in Rows
      /\ keyRow'[Slot(c)] = [keyRow[Slot(c)] EXCEPT !.status = "failed"]
      /\ \A s \in Slots \ {Slot(c)} : keyRow'[s] = keyRow[s]
      /\ \A s \in Slots : keyRow'[s].by = keyRow[s].by
  BY <1>1, <1>2, NoneIsNothing DEF IInv, TypeOK, NoRow, Rows
<1>4. /\ pc'[c] = "done" /\ \A d \in Calls \ {c} : pc'[d] = pc[d] /\ reply'[d] = reply[d]
      /\ pc' \in [Calls -> {"idle", "done", "dead"} \union Waiting]
      /\ reply' \in [Calls -> Replies \union {NoReply}]
      /\ WalletsNamed'
  BY <1>1, PlainAnswer DEF Answer, IInv, TypeOK
<1>5. TypeOK'
  <2>1. keyRow' \in [Slots -> Rows \union {NoRow}]
    BY <1>1, <1>2, <1>3 DEF IInv, TypeOK, Rows
  <2> QED BY <1>1, <1>4, <2>1 DEF IInv, TypeOK
<1>6. PlacesFit'
  BY <1>1, <1>3, <1>4 DEF IInv, PlacesFit, Owning
<1>7. KeysOwned'
  BY <1>1, <1>3, <1>4 DEF IInv, KeysOwned, Slot, Owning
<1>8. RowsFit'
  <2> SUFFICES ASSUME NEW s \in Slots, keyRow'[s] # NoRow
      PROVE  RowsFit!(s)!2'
    BY DEF RowsFit
  <2>1. CASE s = Slot(c)
    BY <1>1, <1>2, <1>3, <2>1 DEF Slot, Rows
  <2>2. CASE s # Slot(c)
    BY <1>1, <1>3, <2>2 DEF IInv, RowsFit, Slot, Stored
  <2> QED BY <2>1, <2>2
<1>9. WalletsFit'
  BY <1>1 DEF IInv, WalletsFit
<1>10. LateFit'
  BY <1>1, <1>4 DEF IInv, TypeOK, LateFit, HasCredentials, Waiting
<1> QED BY <1>4, <1>5, <1>6, <1>7, <1>8, <1>9, <1>10 DEF IInv

LEMMA FindAccountKeeps ==
  ASSUME IInv, NEW c \in Calls, FindAccount(c)
  PROVE  IInv'
<1>1. /\ pc[c] = "lookup" /\ UNCHANGED <<req, late, keyRow, resources, recoveryEmail, trail, orgs, faults>>
  BY DEF FindAccount, NoFault, hub
<1>2. CASE req[c].org \in orgs /\ Goto(c, "import")
  <2>1. pc' = [pc EXCEPT ![c] = "import"] /\ UNCHANGED reply
    BY <1>2 DEF Goto
  <2>2. TypeOK' /\ WalletsNamed'
    BY <1>1, <2>1, SilentStep DEF IInv, TypeOK, Waiting
  <2>3. c \in late => req[c].session = req[c].user
    BY <1>1 DEF IInv, LateFit, Waiting
  <2> QED BY <1>1, <1>2, <2>1, <2>2, <2>3, HandlerMoves DEF Owning
<1>3. CASE Answer(c, "rejected", None)
  <2>1. TypeOK' /\ WalletsNamed' /\ \A d \in Calls \ {c} : reply'[d] = reply[d]
    BY <1>1, <1>3, PlainAnswer DEF IInv, TypeOK
  <2>2. pc' = [pc EXCEPT ![c] = "done"]
    BY <1>3 DEF Answer
  <2> QED BY <1>1, <2>1, <2>2, HandlerMoves DEF Owning, Waiting
<1> QED BY <1>2, <1>3 DEF FindAccount

LEMMA ImportKeeps ==
  ASSUME IInv, NEW c \in Calls, Import(c)
  PROVE  IInv'
<1>1. /\ pc[c] = "import" /\ UNCHANGED <<req, late, keyRow, recoveryEmail, orgs>>
      /\ trail' = trail \union {<<c, "succeeded">>}
      /\ resources' = resources \union
           {[call |-> c, user |-> req[c].user, org |-> req[c].org, verified |-> TRUE]}
  BY DEF Import
<1>2. req[c] \in Requests /\ req[c].user \in Users /\ req[c].org \in orgs /\ orgs \subseteq Calls
  BY <1>1, RequestFields DEF IInv, PlacesFit, TypeOK
<1>3. /\ pc'[c] = "done"
      /\ \A d \in Calls \ {c} : pc'[d] = pc[d] /\ reply'[d] = reply[d]
      /\ reply'[c].kind \notin {"created", "replayed"}
  BY DEF IInv, TypeOK, Import, Answer
<1>4. TypeOK'
  <2>1. resources' \subseteq [call: Calls, user: Users, org: Calls, verified: BOOLEAN]
    <3> DEFINE w == [call |-> c, user |-> req[c].user, org |-> req[c].org, verified |-> TRUE]
    <3>1. w \in [call: Calls, user: Users, org: Calls, verified: BOOLEAN]
      BY <1>2
    <3>2. resources' = resources \union {w}
      BY <1>1
    <3> HIDE DEF w
    <3> QED BY <3>1, <3>2 DEF IInv, TypeOK
  <2>2. reply' \in [Calls -> Replies \union {NoReply}] /\ faults' \in 0..MaxFaults
    BY <1>2, ConstantsOK DEF IInv, TypeOK, Import, Answer, NoFault, Fault, Replies
  <2>3. pc' \in [Calls -> {"idle", "done", "dead"} \union Waiting]
    BY DEF IInv, TypeOK, Import, Answer
  <2> QED BY <1>1, <2>1, <2>2, <2>3 DEF IInv, TypeOK
<1>5. PlacesFit'
  BY <1>1, <1>3 DEF IInv, PlacesFit, Owning
<1>6. KeysOwned'
  BY <1>1, <1>3 DEF IInv, KeysOwned, Slot, Owning
<1>7. RowsFit'
  BY <1>1 DEF IInv, RowsFit, Slot, Stored
<1>8. WalletsFit'
  BY <1>1, <1>2 DEF IInv, WalletsFit, LateFit, Waiting
<1>9. LateFit'
  BY <1>1, <1>3 DEF IInv, TypeOK, LateFit, HasCredentials, Waiting
<1>10. WalletsNamed'
  <2> SUFFICES ASSUME NEW d \in Calls, reply'[d].kind \in {"created", "replayed"}
      PROVE  WalletsNamed!(d)!2'
    BY DEF WalletsNamed
  <2>1. reply'[d] = reply[d]
    BY <1>3
  <2> QED BY <1>1, <2>1 DEF IInv, WalletsNamed, NamesStored, Slot, Body
<1> QED BY <1>4, <1>5, <1>6, <1>7, <1>8, <1>9, <1>10 DEF IInv

\* A handler that a fault cuts short, or sends into its catch clause.
LEMMA FaultKeeps ==
  ASSUME IInv, NEW c \in Calls, DbFails(c) \/ Crash(c)
  PROVE  IInv'
<1>1. /\ pc[c] \in Waiting /\ UNCHANGED <<req, late, keyRow, resources, recoveryEmail, trail, orgs>>
      /\ faults' \in 0..MaxFaults
  BY ConstantsOK DEF IInv, TypeOK, DbFails, Crash, Fault, hub, Waiting
<1>2. CASE pc[c] = "finish" /\ Goto(c, "fail")
  <2>1. pc' = [pc EXCEPT ![c] = "fail"] /\ UNCHANGED reply
    BY <1>2 DEF Goto
  <2>2. TypeOK' /\ WalletsNamed'
    BY <1>1, <2>1, SilentStep DEF IInv, TypeOK, Waiting
  <2>3. c \in late => req[c].session = req[c].user
    BY <1>2 DEF IInv, LateFit, Waiting
  <2> QED BY <1>1, <1>2, <2>1, <2>2, <2>3, HandlerMoves DEF Owning, Waiting
<1>3. CASE Answer(c, "error", None)
  <2>1. TypeOK' /\ WalletsNamed' /\ \A d \in Calls \ {c} : reply'[d] = reply[d]
    BY <1>1, <1>3, PlainAnswer DEF IInv, TypeOK
  <2>2. pc' = [pc EXCEPT ![c] = "done"]
    BY <1>3 DEF Answer
  <2> QED BY <1>1, <2>1, <2>2, HandlerMoves DEF Owning, Waiting
<1>4. CASE Goto(c, "dead")
  <2>1. pc' = [pc EXCEPT ![c] = "dead"] /\ UNCHANGED reply
    BY <1>4 DEF Goto
  <2>2. TypeOK' /\ WalletsNamed'
    BY <1>1, <2>1, SilentStep DEF IInv, TypeOK
  <2> QED BY <1>1, <2>1, <2>2, HandlerMoves DEF Owning, Waiting
<1> QED BY <1>2, <1>3, <1>4 DEF DbFails, Crash

-----------------------------------------------------------------------------
(* Theorems *)

(* The invariant holds however many calls overlap, fail and die: the       *)
(* strengthened invariant holds in every reachable state.                  *)
THEOREM Invariance == Spec => []IInv
<1>1. IInv /\ [Next]_vars => IInv'
  <2> SUFFICES ASSUME IInv, [Next]_vars PROVE IInv'
    OBVIOUS
  <2>1. CASE UNCHANGED vars
    BY <2>1 DEF vars, hub, IInv, TypeOK, PlacesFit, KeysOwned, RowsFit, WalletsFit, LateFit,
                WalletsNamed, NamesStored, Slot, Body, Stored, HasCredentials
  <2>2. ASSUME NEW c \in Calls, Arrive(c) \/ Handle(c) \/ DbFails(c) \/ Crash(c)
        PROVE  IInv'
    BY <2>2, ArriveKeeps, GateKeeps, ReadKeyKeeps, InsertKeyKeeps, AuditRequestKeeps,
       CreateSubOrgKeeps, FinishKeeps, RecordFailureKeeps, FindAccountKeeps, ImportKeeps,
       FaultKeeps DEF Handle
  <2> QED BY <2>1, <2>2 DEF Next
<1> QED BY InitIsSafe, <1>1, PTL DEF Spec

(* Every variable keeps its type.                                          *)
THEOREM TypeCorrect == Spec => []TypeOK
<1>1. IInv => TypeOK
  BY DEF IInv
<1> QED BY Invariance, <1>1, PTL

(* An Idempotency-Key never makes two sub-organizations at Turnkey, with   *)
(* any number of calls that carry it.                                      *)
THEOREM OneOrgEver == Spec => []OneOrgPerKey
<1>1. IInv => OneOrgPerKey
  BY DEF IInv, TypeOK, KeysOwned, OneOrgPerKey
<1> QED BY Invariance, <1>1, PTL

(* Who has not taken the key of its call holds no row.                     *)
TakersFit ==
    \A c \in Calls : pc[c] \in {"gate", "key", "insert"} => \A s \in Slots : keyRow[s].by # c

(* Who was told to wait asked for a key another call holds.                *)
WaitersFit ==
    \A c \in Calls : reply[c].kind = "in_progress" => Slot(c) \in Slots /\ TakenByAnother(c)

(* A row stays with the call that took it, and so does what that call      *)
(* asked; only a taken row makes a call wait.                              *)
LEMMA WaitersKeep ==
  ASSUME IInv, TakersFit, WaitersFit, [Next]_vars
  PROVE  TakersFit' /\ WaitersFit'
<1>1. CASE UNCHANGED vars
  BY <1>1 DEF vars, hub, TakersFit, WaitersFit, TakenByAnother, Slot, Body
<1>2. ASSUME NEW c \in Calls, Arrive(c) \/ Handle(c) \/ DbFails(c) \/ Crash(c)
      PROVE  TakersFit' /\ WaitersFit'
  <2>1. \A d \in Calls : pc[d] # "idle" => req'[d] = req[d]
    BY <1>2 DEF IInv, TypeOK, Arrive, Handle, Gate, ReadKey, InsertKey, AuditRequest, CreateSubOrg,
                Finish, RecordFailure, FindAccount, Import, DbFails, Crash
  <2>2. \A d \in Calls \ {c} : pc'[d] = pc[d] /\ reply'[d] = reply[d]
    BY <1>2 DEF IInv, TypeOK, Arrive, Handle, Gate, ReadKey, InsertKey, AuditRequest, CreateSubOrg,
                Finish, RecordFailure, FindAccount, Import, DbFails, Crash, Goto, Answer
  <2>3. \A s \in Slots : \/ keyRow'[s].by = keyRow[s].by
                         \/ keyRow[s] = NoRow /\ keyRow'[s].by = c /\ pc[c] = "insert"
    <3>1. CASE InsertKey(c) \/ Finish(c) \/ RecordFailure(c)
      BY <1>2, <3>1 DEF IInv, TypeOK, InsertKey, Finish, RecordFailure, Rows, NoRow
    <3>2. CASE ~(InsertKey(c) \/ Finish(c) \/ RecordFailure(c))
      BY <1>2, <3>2 DEF Arrive, Handle, Gate, ReadKey, AuditRequest, CreateSubOrg, FindAccount,
                        Import, DbFails, Crash, hub
    <3> QED BY <3>1, <3>2
  <2>4. pc'[c] \in {"gate", "key", "insert"} =>
          pc[c] \in {"idle", "gate", "key"} /\ UNCHANGED keyRow
    BY <1>2 DEF IInv, TypeOK, Arrive, Handle, Gate, ReadKey, InsertKey, AuditRequest, CreateSubOrg,
                Finish, RecordFailure, FindAccount, Import, DbFails, Crash, Goto, Answer, hub
  <2>5. TakersFit'
    BY <2>2, <2>3, <2>4 DEF IInv, PlacesFit, TakersFit
  <2>6. ASSUME NEW d \in Calls, reply'[d].kind = "in_progress"
        PROVE  (Slot(d) \in Slots)' /\ TakenByAnother(d)'
    <3>1. CASE reply'[d] = reply[d]
      <4>1. Slot(d) \in Slots /\ pc[d] # "idle"
        BY <2>6, <3>1 DEF WaitersFit, IInv, PlacesFit, NoReply
      <4>2. PICK holder \in Calls \ {d} : keyRow[Slot(d)].by = holder /\ Body(holder) = Body(d)
        BY <2>6, <3>1 DEF WaitersFit, TakenByAnother
      <4>3. pc[holder] # "idle" /\ keyRow[Slot(d)] # NoRow
        BY <4>1, <4>2, NoneIsNothing DEF IInv, PlacesFit, NoRow
      <4>4. keyRow'[Slot(d)].by = holder
        BY <2>3, <4>1, <4>2, <4>3
      <4> QED BY <2>1, <4>1, <4>2, <4>3, <4>4 DEF TakenByAnother, Slot, Body
    <3>2. CASE reply'[d] # reply[d]
      <4>1. d = c
        BY <2>2, <3>2
      <4>2. /\ ReadKey(c) /\ keyRow[Slot(c)] # NoRow /\ Body(keyRow[Slot(c)].by) = Body(c)
            /\ UNCHANGED <<req, keyRow>> /\ pc[c] = "key"
        BY <1>2, <2>6, <3>2, <4>1
           DEF IInv, TypeOK, Arrive, Handle, Gate, ReadKey, InsertKey, AuditRequest, CreateSubOrg,
               Finish, RecordFailure, FindAccount, Import, DbFails, Crash, Goto, Answer, hub
      <4>3. Slot(c) \in Slots
        BY <4>2, RequestFields DEF IInv, PlacesFit, Slot
      <4>4. keyRow[Slot(c)].by \in Calls \ {c}
        BY <4>2, <4>3 DEF IInv, TypeOK, Rows, TakersFit
      <4> QED BY <4>1, <4>2, <4>3, <4>4 DEF TakenByAnother, Slot, Body
    <3> QED BY <3>1, <3>2
  <2> QED BY <2>5, <2>6 DEF WaitersFit
<1> QED BY <1>1, <1>2 DEF Next

(* A created or replayed wallet is one the hub stores, made for the key,   *)
(* the user and the body of the request it answers; whoever is told that   *)
(* the request is in progress waits for another call of the same body.     *)
THEOREM RepliesTrue == Spec => []TruthfulReplies
<1>1. Init => TakersFit /\ WaitersFit
  BY DEF Init, TakersFit, WaitersFit, NoReply
<1>2. IInv /\ TakersFit /\ WaitersFit => TruthfulReplies
  BY DEF IInv, WalletsNamed, WaitersFit, TruthfulReplies
<1> QED BY Invariance, <1>1, <1>2, WaitersKeep, PTL DEF Spec

(* No stored wallet without a sub-organization at Turnkey.                 *)
THEOREM WalletsExist == Spec => []NoPhantomWallet
<1>1. IInv => NoPhantomWallet
  BY DEF IInv, WalletsFit, NoPhantomWallet
<1> QED BY Invariance, <1>1, PTL

(* Whoever owned a credential before a call arrived gets another from it   *)
(* only with a session of their own, however long the handler takes.       *)
THEOREM TakeoverNeedsSession == Spec => []NoLateTakeover
<1>1. IInv => NoLateTakeover
  BY DEF IInv, WalletsFit, NoLateTakeover
<1> QED BY Invariance, <1>1, PTL
=============================================================================
