--------------------------- MODULE ExtensionProofs ---------------------------
(***************************************************************************)
(* What holds of the extension wallet for every value of the constants.    *)
(* Approvals: signatures by consent and truthful answers, for any requests,*)
(* sites and accounts and any order of handlers, windows, switches, locks  *)
(* and restarts of the service worker, by the inductive invariant IInv.    *)
(* Then, each as an instance under names of its own: the pages that send   *)
(* (PayInv), the gates of the approve page (GatesInv), the sealed wallet   *)
(* (VaultInv), and the caps of the approve page and the log of spends      *)
(* (CapsInv), after what the sums and the sort of a log come to.           *)
(***************************************************************************)
EXTENDS MCWallet, FunctionTheorems, FiniteSetTheorems, SequenceTheorems, WellFoundedInduction, TLAPS

\* The account a site is connected to is one the user has connected it to.
ConnectionsFit == \A s \in Sites : connected[s] # None => <<s, connected[s]>> \in consents

Consented(r, a) == <<Site[r], a>> \in consents

\* The user has let a request through: there is no way back from that.
LetThrough(r) ==
    /\ view[r] = "approved"
    /\ IF Kind[r] = "sign" THEN signer[r] # None ELSE Consented(r, chosen[r])

RequestFits(r) ==
    /\ view[r] = "signing" => chosen[r] # None
    /\ Kind[r] = "sign" /\ chosen[r] # None => Consented(r, chosen[r])
    /\ signer[r] # None => Consented(r, signer[r])
    /\ page[r] = "success" => LetThrough(r)

\* Handlers that will answer with success know of an approval.
TasksFit == \A t \in tasks : t.does = "approve" => LetThrough(t.of)

IInv == TypeOK /\ ConnectionsFit /\ (\A r \in Requests : RequestFits(r)) /\ TasksFit

-----------------------------------------------------------------------------
(* Handlers of the service worker *)

LEMMA HandlerIsTask ==
  ASSUME NEW does \in {"add", "approve", "reject"}, NEW r \in Requests,
         NEW at \in {"get", "read", "write"}
  PROVE  Handler(does, r, at) \in Task
BY DEF Handler, Task

\* What starts is of its kind and for its request.
LEMMA StartFits ==
  ASSUME tasks \subseteq Task, NEW does \in {"add", "approve", "reject"}, NEW r \in Requests,
         NEW at \in {"get", "read", "write"}
  PROVE  /\ Start(does, r, at) \subseteq Task
         /\ \A t \in Start(does, r, at) : t \in tasks \/ (t.does = does /\ t.of = r)
<1>1. /\ Handler(does, r, at) \in Task
      /\ Handler(does, r, at).does = does /\ Handler(does, r, at).of = r
  BY HandlerIsTask DEF Handler
<1> QED BY <1>1 DEF Start

\* A step that takes back no approval and no consent.
LEMMA ApprovalsStay ==
  ASSUME IInv, TypeOK', consents \subseteq consents', ConnectionsFit',
         \A r \in Requests : LetThrough(r) => LetThrough(r)',
         \A r \in Requests : page'[r] = "success" /\ page[r] # "success" => LetThrough(r)',
         \A r \in Requests : view'[r] = "signing" => chosen'[r] # None,
         \A r \in Requests : Kind[r] = "sign" /\ chosen'[r] # chosen[r] =>
            <<Site[r], chosen'[r]>> \in consents',
         \A r \in Requests : signer'[r] # signer[r] => <<Site[r], signer'[r]>> \in consents',
         \A t \in tasks' \ tasks : t.does = "approve" => LetThrough(t.of)'
  PROVE  IInv'
<1>1. \A r \in Requests : RequestFits(r)'
  BY DEF IInv, RequestFits, Consented
<1>2. TasksFit'
  BY DEF IInv, TasksFit, TypeOK, Task
<1> QED BY <1>1, <1>2 DEF IInv

\* A step that leaves the Approve pages and the wallet alone.
LEMMA PagesStay ==
  ASSUME IInv, TypeOK', UNCHANGED <<view, chosen, connected, consents, signer>>,
         \A r \in Requests : page'[r] = "success" /\ page[r] # "success" => LetThrough(r),
         \A t \in tasks' \ tasks : t.does = "approve" => LetThrough(t.of)
  PROVE  IInv'
<1>1. \A r \in Requests : LetThrough(r)' <=> LetThrough(r)
  BY DEF LetThrough, Consented
<1>2. ConnectionsFit'
  BY DEF IInv, ConnectionsFit
<1>3. \A r \in Requests : view'[r] = "signing" => chosen'[r] # None
  BY DEF IInv, RequestFits
<1>4. \A t \in tasks' : t.of \in Requests
  BY DEF TypeOK, Task
<1> QED BY <1>1, <1>2, <1>3, <1>4, ApprovalsStay

LEMMA GetKeeps ==
  ASSUME IInv, NEW t \in tasks, Get(t)
  PROVE  IInv'
<1> DEFINE u == [t EXCEPT !.at = "read", !.found = t.of \in store]
<1>1. /\ tasks' \subseteq (tasks \ {t}) \union {u}
      /\ UNCHANGED <<page, mapped, store, window, view, chosen, connected, consents, active,
                     signer, events>>
  BY DEF Get, wallet
<1>2. t \in Task /\ u \in Task /\ u.does = t.does /\ u.of = t.of
  <2>1. t \in Task
    BY DEF IInv, TypeOK
  <2>2. (t.of \in store) = TRUE \/ (t.of \in store) = FALSE
    OBVIOUS
  <2>3. \/ u = [t EXCEPT !.at = "read", !.found = TRUE]
        \/ u = [t EXCEPT !.at = "read", !.found = FALSE]
    BY <2>2, Zenon
  <2> QED BY <2>1, <2>3 DEF Task
<1> HIDE DEF u
<1>3. TypeOK'
  BY <1>1, <1>2 DEF IInv, TypeOK
<1>4. \A v \in tasks' \ tasks : v.does = "approve" => LetThrough(v.of)
  BY <1>1, <1>2 DEF IInv, TasksFit
<1> QED BY <1>1, <1>3, <1>4, PagesStay

LEMMA ReadKeeps ==
  ASSUME IInv, NEW t \in tasks, Read(t)
  PROVE  IInv'
<1> DEFINE u == [t EXCEPT !.at = "write", !.map = store]
<1>1. /\ tasks' \subseteq (tasks \ {t}) \union {u}
      /\ UNCHANGED <<page, mapped, store, window, view, chosen, connected, consents, active,
                     signer, events>>
  BY DEF Read, wallet
<1>2. t \in Task /\ u \in Task /\ u.does = t.does /\ u.of = t.of
  BY DEF IInv, TypeOK, Task
<1> HIDE DEF u
<1>3. TypeOK'
  BY <1>1, <1>2 DEF IInv, TypeOK
<1>4. \A v \in tasks' \ tasks : v.does = "approve" => LetThrough(v.of)
  BY <1>1, <1>2 DEF IInv, TasksFit
<1> QED BY <1>1, <1>3, <1>4, PagesStay

LEMMA StoredKeeps ==
  ASSUME IInv, NEW t \in tasks, Stored(t)
  PROVE  IInv'
<1>1. /\ store' = t.map \union {t.of} /\ mapped' = mapped \union {t.of} /\ tasks' = tasks \ {t}
      /\ UNCHANGED <<page, window, view, chosen, connected, consents, active, signer, events>>
  BY DEF Stored, wallet
<1>2. t.of \in Requests /\ t.map \subseteq Requests
  BY DEF IInv, TypeOK, Task
<1>3. TypeOK'
  BY <1>1, <1>2 DEF IInv, TypeOK
<1> QED BY <1>1, <1>3, PagesStay

\* The answer a handler gives is a success only if it was to approve.
LEMMA RemovedKeeps ==
  ASSUME IInv, NEW t \in tasks, Removed(t)
  PROVE  IInv'
<1>1. /\ store' = t.map \ {t.of} /\ tasks' = tasks \ {t}
      /\ window' = [window EXCEPT ![t.of] =
                      IF t.found \/ view[t.of] = "rejecting" THEN "closed" ELSE @]
      /\ UNCHANGED <<view, chosen, connected, consents, active, signer, events>>
  BY DEF Removed, wallet
<1>2. t.of \in Requests /\ t.map \subseteq Requests
  BY DEF IInv, TypeOK, Task
<1>3. \/ UNCHANGED <<page, mapped>>
      \/ page' = [page EXCEPT ![t.of] = IF @ = "waiting" THEN Answer(t) ELSE @]
         /\ mapped' = mapped \ {t.of}
  BY DEF Removed, Deliver, Settle
<1>4. Answer(t) \in {"success", "error"} /\ (Answer(t) = "success" => t.does = "approve")
  BY DEF Answer
<1>5. TypeOK'
  BY <1>1, <1>2, <1>3, <1>4 DEF IInv, TypeOK
<1>6. \A r \in Requests : page'[r] = "success" /\ page[r] # "success" => LetThrough(r)
  BY <1>2, <1>3, <1>4 DEF IInv, TypeOK, TasksFit
<1> QED BY <1>1, <1>5, <1>6, PagesStay

-----------------------------------------------------------------------------
(* Pages, windows and the alarm *)

LEMMA AskKeeps ==
  ASSUME IInv, NEW r \in Requests, Ask(r)
  PROVE  IInv'
<1>1. /\ UNCHANGED <<mapped, store, view, chosen, connected, consents, active, signer, events>>
      /\ \/ page' = [page EXCEPT ![r] = "error"] /\ UNCHANGED <<window, tasks>>
         \/ /\ page' = [page EXCEPT ![r] = "waiting"]
            /\ window' = [window EXCEPT ![r] = "open"]
            /\ tasks' = Start("add", r, "read")
  BY DEF Ask, wallet
<1>2. /\ Start("add", r, "read") \subseteq Task
      /\ \A t \in Start("add", r, "read") : t \in tasks \/ t.does # "approve"
  BY StartFits DEF IInv, TypeOK
<1>3. TypeOK'
  BY <1>1, <1>2 DEF IInv, TypeOK
<1>4. \A q \in Requests : page'[q] = "success" => page[q] = "success"
  BY <1>1 DEF IInv, TypeOK
<1> QED BY <1>1, <1>2, <1>3, <1>4, PagesStay

LEMMA TimeOutKeeps ==
  ASSUME IInv, NEW r \in Requests, TimeOut(r)
  PROVE  IInv'
<1>1. /\ page' = [page EXCEPT ![r] = "timeout"]
      /\ UNCHANGED <<mapped, store, tasks, window, view, chosen, connected, consents, active,
                     signer, events>>
  BY DEF TimeOut, Settle, wallet
<1>2. TypeOK'
  BY <1>1 DEF IInv, TypeOK
<1>3. \A q \in Requests : page'[q] = "success" => page[q] = "success"
  BY <1>1 DEF IInv, TypeOK
<1> QED BY <1>1, <1>2, <1>3, PagesStay

\* Rejections by the alarm and by a window that closes.
LEMMA RejectionsKeep ==
  ASSUME IInv, NEW r \in Requests, Expire(r) \/ CloseWindow(r)
  PROVE  IInv'
<1>1. /\ tasks' \in {tasks, Start("reject", r, "get")}
      /\ window' \in {window, [window EXCEPT ![r] = "closed"]}
      /\ UNCHANGED <<page, mapped, store, view, chosen, connected, consents, active, signer,
                     events>>
  BY DEF Expire, CloseWindow, wallet
<1>2. /\ Start("reject", r, "get") \subseteq Task
      /\ \A t \in Start("reject", r, "get") : t \in tasks \/ t.does # "approve"
  BY StartFits DEF IInv, TypeOK
<1>3. TypeOK'
  BY <1>1, <1>2 DEF IInv, TypeOK
<1> QED BY <1>1, <1>2, <1>3, PagesStay

-----------------------------------------------------------------------------
(* The Approve page *)

\* A page that is open and not done moves on, with its account or another the
\* user has consented to.
LEMMA PageMoves ==
  ASSUME IInv, NEW r \in Requests, view[r] # "approved",
         NEW place \in {"shown", "otp", "signing", "refused", "rejecting"},
         view' = [view EXCEPT ![r] = place],
         NEW a \in Accounts \union {None}, chosen' = [chosen EXCEPT ![r] = a],
         Kind[r] = "sign" /\ a # chosen[r] => Consented(r, a),
         place = "signing" => a # None,
         tasks' \in {tasks, Start("reject", r, "get")},
         UNCHANGED <<page, mapped, store, window, connected, consents, active, signer, events>>
  PROVE  IInv'
<1>1. /\ Start("reject", r, "get") \subseteq Task
      /\ \A t \in Start("reject", r, "get") : t \in tasks \/ t.does # "approve"
  BY StartFits DEF IInv, TypeOK
<1>2. TypeOK'
  BY <1>1 DEF IInv, TypeOK
<1>3. ConnectionsFit'
  BY DEF IInv, ConnectionsFit
<1>4. \A q \in Requests : LetThrough(q) => LetThrough(q)'
  BY DEF IInv, TypeOK, LetThrough, Consented
<1>5. \A q \in Requests : view'[q] = "signing" => chosen'[q] # None
  BY DEF IInv, TypeOK, RequestFits
<1>6. \A q \in Requests : Kind[q] = "sign" /\ chosen'[q] # chosen[q] =>
        <<Site[q], chosen'[q]>> \in consents'
  BY DEF IInv, TypeOK, Consented
<1> QED BY <1>1, <1>2, <1>3, <1>4, <1>5, <1>6, ApprovalsStay

\* The account of a sign request is the one its site is connected to.
LEMMA BoundConsented ==
  ASSUME IInv, NEW r \in Requests, Bound(r)
  PROVE  Consented(r, active) /\ active # None
<1>1. Site[r] \in Sites /\ active \in Accounts
  BY SiteOK DEF IInv, TypeOK
<1>2. connected[Site[r]] # None
  BY <1>1, NoneIsNothing DEF Bound
<1> QED BY <1>1, <1>2, NoneIsNothing DEF IInv, ConnectionsFit, Bound, Consented

LEMMA PageStepsKeep ==
  ASSUME IInv, NEW r \in Requests,
         Show(r) \/ Refuse(r) \/ Reject(r) \/ NeedCode(r) \/ SigningFails(r)
  PROVE  IInv'
<1>1. PICK place \in {"shown", "otp", "refused", "rejecting"} :
        view' = [view EXCEPT ![r] = place]
  BY DEF Show, Refuse, Reject, NeedCode, SigningFails
<1>2. /\ view[r] # "approved"
      /\ tasks' \in {tasks, Start("reject", r, "get")}
      /\ UNCHANGED <<page, mapped, store, window, chosen, connected, consents, active, signer,
                     events>>
  BY DEF Show, Refuse, Reject, NeedCode, SigningFails, Live, wallet
<1>3. chosen[r] \in Accounts \union {None} /\ chosen' = [chosen EXCEPT ![r] = chosen[r]]
  BY <1>2 DEF IInv, TypeOK
<1> QED BY <1>1, <1>2, <1>3, PageMoves

LEMMA ApproveKeeps ==
  ASSUME IInv, NEW r \in Requests, NEW a \in Accounts, Approve(r, a)
  PROVE  IInv'
<1>1. /\ view[r] = "shown" /\ Selectable(r, a)
      /\ view' = [view EXCEPT ![r] = "signing"] /\ chosen' = [chosen EXCEPT ![r] = a]
      /\ UNCHANGED <<page, mapped, store, tasks, window, connected, consents, active, signer,
                     events>>
  BY DEF Approve, Live, wallet
<1>2. Kind[r] = "sign" => Consented(r, a)
  BY <1>1, BoundConsented DEF Selectable
<1>3. a # None
  BY NoneIsNothing
<1> QED BY <1>1, <1>2, <1>3, PageMoves

LEMMA EnterCodeKeeps ==
  ASSUME IInv, NEW r \in Requests, EnterCode(r)
  PROVE  IInv'
<1>1. /\ view[r] = "otp"
      /\ UNCHANGED <<page, mapped, store, tasks, window, connected, consents, active, signer,
                     events>>
  BY DEF EnterCode, Live, wallet
<1>2. CASE /\ Bound(r)
           /\ view' = [view EXCEPT ![r] = "signing"]
           /\ chosen' = [chosen EXCEPT ![r] = active]
  <2>1. active \in Accounts /\ active # None /\ Consented(r, active)
    BY <1>2, BoundConsented DEF IInv, TypeOK
  <2> QED BY <1>1, <1>2, <2>1, PageMoves
<1>3. CASE view' = [view EXCEPT ![r] = "shown"] /\ UNCHANGED chosen
  <2>1. chosen[r] \in Accounts \union {None} /\ chosen' = [chosen EXCEPT ![r] = chosen[r]]
    BY <1>3 DEF IInv, TypeOK
  <2> QED BY <1>1, <1>3, <2>1, PageMoves
<1> QED BY <1>2, <1>3 DEF EnterCode

LEMMA SignKeeps ==
  ASSUME IInv, NEW r \in Requests, Sign(r)
  PROVE  IInv'
<1>1. /\ view[r] = "signing" /\ Kind[r] = "sign"
      /\ signer' = [signer EXCEPT ![r] = chosen[r]]
      /\ view' = [view EXCEPT ![r] = "approved"]
      /\ tasks' = Start("approve", r, "get")
      /\ UNCHANGED <<page, mapped, store, window, chosen, connected, consents, active, events>>
  BY DEF Sign, Live, wallet
<1>2. TypeOK /\ chosen[r] \in Accounts /\ chosen[r] # None /\ Consented(r, chosen[r])
  BY <1>1 DEF IInv, TypeOK, RequestFits
<1>3. /\ Start("approve", r, "get") \subseteq Task
      /\ \A t \in Start("approve", r, "get") : t \in tasks \/ t.of = r
  BY <1>2, StartFits DEF TypeOK
<1>4. TypeOK'
  BY <1>1, <1>2, <1>3 DEF TypeOK
<1>5. LetThrough(r)' /\ \A q \in Requests : LetThrough(q) => LetThrough(q)'
  BY <1>1, <1>2 DEF TypeOK, LetThrough, Consented
<1>6. ConnectionsFit'
  BY <1>1 DEF IInv, ConnectionsFit
<1>7. \A q \in Requests : view'[q] = "signing" => chosen'[q] # None
  BY <1>1, <1>2 DEF IInv, TypeOK, RequestFits
<1>8. \A q \in Requests : signer'[q] # signer[q] => <<Site[q], signer'[q]>> \in consents'
  BY <1>1, <1>2 DEF TypeOK, Consented
<1> QED BY <1>1, <1>3, <1>4, <1>5, <1>6, <1>7, <1>8, ApprovalsStay

\* The user connects the site of the request that is stored.
LEMMA ConnectKeeps ==
  ASSUME IInv, NEW r \in Requests, Connect(r)
  PROVE  IInv'
<1> DEFINE h == [Handler("approve", r, "read") EXCEPT !.found = TRUE]
<1>1. /\ view[r] = "signing" /\ Kind[r] = "connect"
      /\ view' = [view EXCEPT ![r] = "approved"]
      /\ \/ /\ connected' = [connected EXCEPT ![Site[r]] = chosen[r]]
            /\ consents' = consents \union {<<Site[r], chosen[r]>>}
            /\ tasks' = tasks \union {h}
         \/ UNCHANGED <<connected, consents, tasks>>
      /\ UNCHANGED <<page, mapped, store, window, chosen, active, signer, events>>
  BY DEF Connect, Live
<1>2. h \in Task /\ h.of = r
  BY DEF Handler, Task
<1>3. TypeOK /\ Site[r] \in Sites /\ chosen[r] \in Accounts /\ chosen[r] # None
  BY <1>1, SiteOK DEF IInv, TypeOK, RequestFits
<1> HIDE DEF h
<1>4. TypeOK'
  BY <1>1, <1>2, <1>3 DEF TypeOK
<1>5. ConnectionsFit'
  BY <1>1, <1>3 DEF IInv, TypeOK, ConnectionsFit
<1>6. /\ consents \subseteq consents'
      /\ \A q \in Requests : LetThrough(q) => LetThrough(q)'
      /\ tasks' # tasks => LetThrough(r)'
  <2>1. consents \subseteq consents' /\ (tasks' # tasks => <<Site[r], chosen[r]>> \in consents')
    BY <1>1
  <2> QED BY <1>1, <1>3, <2>1 DEF TypeOK, LetThrough, Consented
<1>7. \A q \in Requests : view'[q] = "signing" => chosen'[q] # None
  BY <1>1, <1>3 DEF IInv, TypeOK, RequestFits
<1>8. \A t \in tasks' \ tasks : t.of = r /\ tasks' # tasks
  BY <1>1, <1>2
<1> QED BY <1>1, <1>4, <1>5, <1>6, <1>7, <1>8, ApprovalsStay

-----------------------------------------------------------------------------
(* Switches, disconnects, locks and restarts *)

LEMMA EventsKeep ==
  ASSUME IInv,
         \/ \E a \in Accounts : SwitchAccount(a)
         \/ \E s \in Sites : Disconnect(s)
         \/ LockNow
  PROVE  IInv'
<1>1. /\ connected' \in {connected} \union {[connected EXCEPT ![s] = None] : s \in Sites}
      /\ active' \in Accounts /\ store' \in {store, {}}
      /\ UNCHANGED <<page, mapped, tasks, window, view, chosen, consents, signer>>
  BY DEF SwitchAccount, Disconnect, LockNow, wallet, IInv, TypeOK
<1>2. TypeOK'
  <2>1. events' \subseteq {"switch", "disconnect", "lock", "restart"}
    BY DEF SwitchAccount, Disconnect, LockNow, Event, IInv, TypeOK
  <2>2. connected' \in [Sites -> Accounts \union {None}]
    BY <1>1 DEF IInv, TypeOK
  <2> QED BY <1>1, <2>1, <2>2 DEF IInv, TypeOK
<1>3. ConnectionsFit'
  BY <1>1 DEF IInv, TypeOK, ConnectionsFit
<1>4. \A q \in Requests :
        (LetThrough(q)' <=> LetThrough(q)) /\ (view'[q] = "signing" => chosen'[q] # None)
  BY <1>1 DEF IInv, RequestFits, LetThrough, Consented
<1> QED BY <1>1, <1>2, <1>3, <1>4, ApprovalsStay

LEMMA RestartKeeps ==
  ASSUME IInv, Restart
  PROVE  IInv'
<1>1. /\ page' = [r \in Requests |->
                    IF page[r] = "waiting" /\ \E t \in tasks : t.of = r /\ t.does = "add"
                    THEN "error" ELSE page[r]]
      /\ window' = [r \in Requests |-> IF view[r] = "rejecting" THEN "closed" ELSE window[r]]
      /\ tasks' = {} /\ store' = {} /\ Event("restart")
      /\ UNCHANGED <<mapped, view, chosen, connected, consents, active, signer>>
  BY DEF Restart, wallet
<1>2. TypeOK'
  <2>1. /\ page' \in [Requests -> {"idle", "waiting", "success", "error", "timeout"}]
        /\ window' \in [Requests -> {"none", "open", "closed"}]
    BY <1>1 DEF IInv, TypeOK
  <2>2. events' \subseteq {"switch", "disconnect", "lock", "restart"}
    BY <1>1 DEF Event, IInv, TypeOK
  <2> QED BY <1>1, <2>1, <2>2 DEF IInv, TypeOK
<1>3. \A r \in Requests : page'[r] = "success" => page[r] = "success"
  BY <1>1
<1> QED BY <1>1, <1>2, <1>3, PagesStay

-----------------------------------------------------------------------------
(* Theorems *)

LEMMA InitIsSafe == Init => IInv
<1> SUFFICES ASSUME Init PROVE IInv
  OBVIOUS
<1>1. TypeOK
  BY DEF Init, TypeOK
<1>2. ConnectionsFit
  BY DEF Init, ConnectionsFit
<1>3. TasksFit /\ \A r \in Requests : RequestFits(r)
  BY DEF Init, TasksFit, RequestFits
<1> QED BY <1>1, <1>2, <1>3 DEF IInv

\* Handlers, pages and events keep the invariant, in every order.
THEOREM Inductive ==
  ASSUME IInv, [Next]_vars
  PROVE  IInv'
<1>1. CASE \E t \in tasks : Run(t)
  BY <1>1, GetKeeps, ReadKeeps, StoredKeeps, RemovedKeeps DEF Run
<1>2. ASSUME NEW r \in Requests,
             \/ Ask(r) \/ TimeOut(r) \/ Expire(r) \/ CloseWindow(r)
             \/ Show(r) \/ Refuse(r) \/ Reject(r)
             \/ \E a \in Accounts : Approve(r, a)
             \/ NeedCode(r) \/ EnterCode(r) \/ SigningFails(r) \/ Sign(r) \/ Connect(r)
      PROVE  IInv'
  BY <1>2, AskKeeps, TimeOutKeeps, RejectionsKeep, PageStepsKeep, ApproveKeeps, EnterCodeKeeps,
     SignKeeps, ConnectKeeps
<1>3. CASE \/ \E a \in Accounts : SwitchAccount(a)
           \/ \E s \in Sites : Disconnect(s)
           \/ LockNow
  BY <1>3, EventsKeep
<1>4. CASE Restart
  BY <1>4, RestartKeeps
<1>5. CASE UNCHANGED vars
  <2>1. UNCHANGED <<page, mapped, store, tasks, window, view, chosen, connected, consents,
                    active, signer, events>>
    BY <1>5 DEF vars
  <2>2. TypeOK'
    BY <2>1 DEF IInv, TypeOK
  <2> QED BY <2>1, <2>2, PagesStay
<1> QED BY <1>1, <1>2, <1>3, <1>4, <1>5 DEF Next

\* The extension is never out of the invariant.
THEOREM Invariance == Spec => []IInv
<1>1. Init => IInv
  BY InitIsSafe
<1>2. IInv /\ [Next]_vars => IInv'
  BY Inductive
<1> QED BY <1>1, <1>2, PTL DEF Spec

\* Pages, handlers and the pending map hold what TypeOK says.
THEOREM TypeCorrect == Spec => []TypeOK
<1>1. IInv => TypeOK
  BY DEF IInv
<1> QED BY <1>1, Invariance, PTL

\* Whoever signed for a site is an account the user has connected to it, also
\* when accounts were switched while the page waited for a code.
THEOREM ConsentToSign == Spec => []SignedByConsent
<1>1. IInv => SignedByConsent
  BY DEF IInv, RequestFits, SignedByConsent, Consented
<1> QED BY <1>1, Invariance, PTL

\* A web page that reads a success has one, whichever handlers overlapped.
THEOREM SuccessesTrue == Spec => []SuccessIsTrue
<1>1. ASSUME IInv PROVE SuccessIsTrue
  <2> SUFFICES ASSUME NEW r \in Requests, page[r] = "success"
      PROVE  IF Kind[r] = "sign" THEN signer[r] # None
             ELSE \E a \in Accounts : <<Site[r], a>> \in consents /\ chosen[r] = a
    BY DEF SuccessIsTrue
  <2>1. LetThrough(r)
    BY <1>1 DEF IInv, RequestFits
  <2>2. Kind[r] # "sign" => <<Site[r], chosen[r]>> \in consents /\ chosen[r] \in Accounts
    BY <1>1, <2>1 DEF IInv, TypeOK, LetThrough, Consented
  <2> QED BY <2>1, <2>2 DEF LetThrough
<1> QED BY <1>1, Invariance, PTL

-----------------------------------------------------------------------------
(* The pages that send *)

\* A lookup, and the address it has led to, belong to the form as it stands;
\* runes and inscriptions know no other asset than bitcoin.
FormFits ==
    /\ sheet # "send" => asset = "btc" /\ (parked # None => parked.asset = "btc")
    /\ lookup # None =>
         /\ asset = "hub" /\ form # None
         /\ lookup.name = form.to /\ lookup.net = network
         /\ lookup = [name |-> lookup.name, net |-> lookup.net, done |-> lookup.done]
    /\ reviewed # None => asset = "hub" /\ form # None /\ reviewed = Resolve[network][form.to]

\* What a submission pays is settled when it begins, its network when the
\* client is taken.
Pays(s) ==
    /\ sheet # "send" \/ (s.kind = "hub" /\ ~s.coded) => Pay!AsShown(s)
    /\ s.kind = "hub" => sheet = "send" /\ s.tx.to = Resolve[s.on][s.name]
    /\ s.kind = "hub" /\ s.at # "session" => s.switched \/ s.tx.net = s.on

\* Its number is one that was given, and none that has failed.
Numbered(n) == n \in Nat /\ n <= confirms /\ \A f \in failures : f[1] # n
NotSent(n) == \A s \in chain : s.n # n

IsSubmission(s) ==
    /\ DOMAIN s = {"n", "kind", "at", "retried", "coded", "switched", "by", "seen", "on",
                   "name", "tx"}
    /\ DOMAIN s.tx = {"to", "amount", "from", "net", "tier"}

Submitted(s) ==
    /\ IsSubmission(s) /\ Pays(s) /\ Numbered(s.n)
    /\ s.at \in {"session", "sign"} => NotSent(s.n)
    /\ \A t \in chain : t.n = s.n => t.kind = s.kind /\ t.tx = s.tx

\* Until then a switch of the header is remembered.
Awaits(s) == s.at = "session" => s.switched \/ s.on = network

PayInv ==
    /\ FormFits
    /\ confirms \in Nat
    /\ \A f \in failures : f[1] \in Nat /\ f[1] <= confirms
    /\ \A s \in chain : Pays(s) /\ s.at = "sign" /\ s.n \in Nat /\ s.n <= confirms
    /\ Pay!FailedIsUnsent
    /\ sending # None => Submitted(sending) /\ Awaits(sending) /\ otp = None
    /\ otp # None => sheet = "send" /\ Numbered(otp.n) /\ NotSent(otp.n)

\* A step of the form: nothing is sent, and what was under way goes on or ends.
LEMMA FormSteps ==
  ASSUME PayInv, UNCHANGED <<sheet, network, chain, failures, confirms>>, FormFits',
         sending' \in {sending, None}, otp' \in {otp, None}
  PROVE  PayInv'
<1>1. \A s : /\ Pays(s)' <=> Pays(s)
             /\ Numbered(s)' <=> Numbered(s)
             /\ NotSent(s)' <=> NotSent(s)
             /\ Submitted(s)' <=> Submitted(s)
             /\ Awaits(s)' <=> Awaits(s)
  BY DEF Pays, Pay!AsShown, Numbered, NotSent, Submitted, IsSubmission, Awaits
<1>2. Pay!FailedIsUnsent'
  BY DEF PayInv, Pay!FailedIsUnsent
<1> QED BY <1>1, <1>2 DEF PayInv

\* The effect of a new recipient, asset or network looks up what is there now.
LEMMA RelookFits ==
  ASSUME NEW a, NEW f, NEW n, Pay!Relook(a, f, n), reviewed' = None,
         asset' = a, form' = f, network' = n,
         sheet' # "send" => asset' = "btc" /\ (parked' # None => parked'.asset = "btc")
  PROVE  FormFits'
BY DEF FormFits, Pay!Relook, Pay!Lookup

LEMMA ParkFits ==
  ASSUME PayInv, NEW st, NEW a, NEW f, NEW acc, NEW n, Pay!Park(st, a, f, acc, n),
         sheet # "send" => a = "btc"
  PROVE  sheet # "send" => (parked' # None => parked'.asset = "btc")
BY DEF PayInv, FormFits, Pay!Park

LEMMA TypeKeeps ==
  ASSUME PayInv, NEW d \in Drafts, Pay!Type(d)
  PROVE  PayInv'
<1>1. form' = d /\ d # None
      /\ UNCHANGED <<sheet, asset, sending, otp, network, chain, failures, confirms>>
  BY DraftsOK DEF Pay!Type
<1>2. sheet # "send" => asset = "btc" /\ (parked' # None => parked'.asset = "btc")
  BY ParkFits DEF PayInv, FormFits, Pay!Type
<1>3. CASE d.to # Pay!Draft.to
  <2>1. FormFits'
    BY <1>1, <1>2, <1>3, RelookFits DEF Pay!Type
  <2> QED BY <1>1, <2>1, FormSteps
<1>4. CASE d.to = Pay!Draft.to
  <2>1. UNCHANGED <<reviewed, lookup>>
    BY <1>4 DEF Pay!Type
  <2>2. form # None => form.to = d.to
    BY <1>4 DEF Pay!Draft
  <2>3. FormFits'
    BY <1>1, <1>2, <2>1, <2>2 DEF PayInv, FormFits
  <2> QED BY <1>1, <2>3, FormSteps
<1> QED BY <1>3, <1>4

LEMMA PickAssetKeeps ==
  ASSUME PayInv, NEW a \in {"btc", "hub"}, Pay!PickAsset(a)
  PROVE  PayInv'
<1>1. sheet = "send" /\ asset' = a
      /\ UNCHANGED <<sheet, form, sending, otp, network, chain, failures, confirms>>
  BY DEF Pay!PickAsset
<1>2. FormFits'
  BY <1>1, RelookFits DEF PayInv, FormFits, Pay!PickAsset
<1> QED BY <1>1, <1>2, FormSteps

\* Steps that leave the fields, the lookup and the checkpoint alone.
LEMMA QuietSteps ==
  ASSUME PayInv, UNCHANGED <<sheet, asset, form, reviewed, lookup, network, parked,
                             chain, failures, confirms>>,
         sending' \in {sending, None}, otp' \in {otp, None}
  PROVE  PayInv'
<1>1. FormFits'
  BY DEF PayInv, FormFits
<1> QED BY <1>1, FormSteps

LEMMA ReviewsKeep ==
  ASSUME PayInv,
         \/ Pay!BackToPick \/ Pay!Resolved \/ Pay!ReviewHub \/ Pay!ReviewBtc
         \/ (\E t \in Tiers : Pay!SelectTier(t)) \/ Pay!Prepared \/ Pay!BackToForm \/ Pay!CancelCode
  PROVE  PayInv'
<1>1. CASE Pay!BackToPick \/ Pay!ReviewBtc \/ (\E t \in Tiers : Pay!SelectTier(t)) \/ Pay!Prepared
           \/ Pay!CancelCode
  <2>1. /\ UNCHANGED <<sheet, asset, form, reviewed, lookup, network, parked, chain, failures, confirms,
                       sending>>
        /\ otp' \in {otp, None}
    BY <1>1 DEF Pay!BackToPick, Pay!ReviewBtc, Pay!SelectTier, Pay!Prepared, Pay!CancelCode
  <2> QED BY <2>1, QuietSteps
<1>2. CASE Pay!Resolved
  <2>1. FormFits'
    BY <1>2 DEF PayInv, FormFits, Pay!Resolved
  <2> QED BY <1>2, <2>1, FormSteps DEF Pay!Resolved
<1>3. CASE Pay!ReviewHub
  <2>1. reviewed' = Resolve[network][form.to]
    BY <1>3 DEF PayInv, FormFits, Pay!ReviewHub
  <2>2. FormFits'
    BY <1>3, <2>1 DEF PayInv, FormFits, Pay!ReviewHub
  <2> QED BY <1>3, <2>2, FormSteps DEF Pay!ReviewHub
<1>4. CASE Pay!BackToForm
  <2>1. sheet # "send" => (parked' # None => parked'.asset = "btc")
    BY <1>4, ParkFits DEF PayInv, FormFits, Pay!BackToForm
  <2>2. FormFits'
    BY <1>4, <2>1 DEF PayInv, FormFits, Pay!BackToForm
  <2> QED BY <1>4, <2>2, FormSteps DEF Pay!BackToForm
<1> QED BY <1>1, <1>2, <1>3, <1>4

\* A submission without its client remembers that the network is switched.
LEMMA SwitchIsRemembered ==
  ASSUME PayInv, FormFits', UNCHANGED <<sheet, otp, chain, failures, confirms>>,
         sending' = IF Pay!At("session") THEN [sending EXCEPT !.switched = TRUE] ELSE sending
  PROVE  PayInv'
<1>1. \A s : Pays(s)' <=> Pays(s)
  BY DEF Pays, Pay!AsShown
<1>2. Pay!FailedIsUnsent'
  BY DEF PayInv, Pay!FailedIsUnsent
<1>3. ASSUME sending' # None PROVE Submitted(sending)' /\ Awaits(sending)' /\ otp' = None
  <2>1. Submitted(sending) /\ Awaits(sending) /\ otp = None /\ sending # None
    BY <1>3 DEF PayInv, Pay!At
  <2>2. CASE Pay!At("session")
    <3> DEFINE s == [sending EXCEPT !.switched = TRUE]
    <3>1. /\ IsSubmission(s) /\ s.n = sending.n /\ s.kind = sending.kind
          /\ s.at = sending.at /\ s.coded = sending.coded /\ s.switched
          /\ s.seen = sending.seen /\ s.on = sending.on /\ s.name = sending.name
          /\ s.tx = sending.tx
      BY <2>1 DEF Submitted, IsSubmission
    <3>2. sending' = s
      BY <2>2
    <3> HIDE DEF s
    <3>3. Pays(s)
      BY <2>1, <2>2, <3>1 DEF Submitted, Pays, Pay!AsShown, Pay!At
    <3> QED BY <1>1, <2>1, <3>1, <3>2, <3>3 DEF Submitted, IsSubmission, Numbered, NotSent, Awaits
  <2>3. CASE ~Pay!At("session")
    BY <1>1, <2>1, <2>3 DEF Submitted, IsSubmission, Numbered, NotSent, Awaits, Pay!At
  <2> QED BY <2>2, <2>3
<1> QED BY <1>1, <1>2, <1>3 DEF PayInv, Numbered, NotSent

LEMMA SwitchesKeep ==
  ASSUME PayInv, \/ \E a \in Accounts : Pay!SwitchAccount(a)
                 \/ \E n \in Networks : Pay!SwitchNetwork(n)
  PROVE  PayInv'
<1>1. ASSUME NEW a \in Accounts, Pay!SwitchAccount(a) PROVE PayInv'
  <2>1. UNCHANGED <<sheet, step, asset, form, lookup, reviewed, sending, otp, network, chain,
                    failures, confirms>>
    BY <1>1 DEF Pay!SwitchAccount, Pay!Event, Pay!local
  <2>2. sheet # "send" => (parked' # None => parked'.asset = "btc")
    BY <1>1, ParkFits DEF PayInv, FormFits, Pay!SwitchAccount
  <2>3. FormFits'
    BY <2>1, <2>2 DEF PayInv, FormFits
  <2> QED BY <2>1, <2>3, FormSteps
<1>2. ASSUME NEW n \in Networks, Pay!SwitchNetwork(n) PROVE PayInv'
  <2>1. /\ UNCHANGED <<sheet, asset, form, otp, chain, failures, confirms>>
        /\ reviewed' = None /\ network' = n
        /\ sending' = IF Pay!At("session") THEN [sending EXCEPT !.switched = TRUE] ELSE sending
    BY <1>2 DEF Pay!SwitchNetwork, Pay!Event
  <2>2. sheet # "send" => asset = "btc" /\ (parked' # None => parked'.asset = "btc")
    BY <1>2, ParkFits DEF PayInv, FormFits, Pay!SwitchNetwork
  <2>3. FormFits'
    BY <1>2, <2>1, <2>2, RelookFits DEF Pay!SwitchNetwork
  <2> QED BY <2>1, <2>3, SwitchIsRemembered
<1> QED BY <1>1, <1>2

LEMMA CheckpointsKeep ==
  ASSUME PayInv, Pay!SendAnother \/ Pay!Reopen \/ Pay!Expire \/ Pay!Restore
  PROVE  PayInv'
<1>1. CASE Pay!SendAnother
  <2>1. FormFits'
    BY <1>1 DEF FormFits, Pay!SendAnother
  <2> QED BY <1>1, <2>1, FormSteps DEF Pay!SendAnother
<1>2. CASE Pay!Reopen
  <2>1. FormFits'
    BY <1>2 DEF PayInv, FormFits, Pay!Reopen
  <2> QED BY <1>2, <2>1, FormSteps DEF Pay!Reopen, Pay!Event
<1>3. CASE Pay!Expire
  <2>1. FormFits'
    BY <1>3 DEF PayInv, FormFits, Pay!Expire, Pay!local
  <2> QED BY <1>3, <2>1, FormSteps DEF Pay!Expire, Pay!local
<1>4. CASE Pay!Restore
  <2>1. UNCHANGED <<sheet, sending, otp, network, chain, failures, confirms>>
    BY <1>4 DEF Pay!Restore
  <2>2. CASE UNCHANGED <<form, asset, step, reviewed, lookup, parked>>
    BY <2>1, <2>2, QuietSteps
  <2>3. CASE /\ parked # None
             /\ form' = parked.form /\ asset' = parked.asset
             /\ reviewed' = None /\ Pay!Relook(parked.asset, parked.form, network)
             /\ Pay!Park(step', asset', form', account, network)
    <3>1. sheet # "send" => asset' = "btc" /\ (parked' # None => parked'.asset = "btc")
      BY <2>3 DEF PayInv, FormFits, Pay!Park
    <3>2. FormFits'
      BY <2>1, <2>3, <3>1, RelookFits
    <3> QED BY <2>1, <3>2, FormSteps
  <2> QED BY <1>4, <2>2, <2>3 DEF Pay!Restore
<1> QED BY <1>1, <1>2, <1>3, <1>4

\* A submission of the draft as it stands pays what the page has shown.
LEMMA SubmissionPays ==
  ASSUME PayInv, NEW n, NEW seen, NEW coded \in BOOLEAN, Pay!Ready,
         coded = FALSE => seen = Pay!Shown, coded => sheet = "send"
  PROVE  LET s == Pay!Submission(n, seen, coded)
         IN  IsSubmission(s) /\ Pays(s) /\ s.n = n /\ s.at \in {"session", "sign"} /\ s.on = network
<1> DEFINE s == Pay!Submission(n, seen, coded)
<1>1. /\ IsSubmission(s)
      /\ s.n = n /\ s.kind = asset /\ s.seen = seen /\ s.coded = coded
      /\ s.at = (IF asset = "hub" THEN "session" ELSE "sign") /\ s.on = network
      /\ s.name = Pay!Draft.to /\ s.tx = Pay!Transaction
  BY DEF Pay!Submission, IsSubmission, Pay!Transaction
<1> HIDE DEF s
<1>2. CASE asset = "hub"
  <2>1. form # None /\ reviewed = Resolve[network][form.to]
    BY <1>2 DEF PayInv, FormFits, Pay!Ready
  <2>2. /\ s.tx.to = reviewed /\ s.tx.amount = Pay!Draft.amount
        /\ s.name = form.to /\ sheet = "send"
    BY <1>1, <1>2, <2>1 DEF Pay!Transaction, Pay!Draft, PayInv, FormFits
  <2>3. coded = FALSE => s.seen.to = reviewed /\ s.seen.amount = Pay!Draft.amount
    BY <1>1, <1>2, <2>2 DEF Pay!Shown, Pay!ShownBySend
  <2>4. Pays(s)
    BY <1>1, <1>2, <2>1, <2>2, <2>3 DEF Pays, Pay!AsShown
  <2> QED BY <1>1, <2>4 DEF s
<1>3. CASE asset # "hub"
  <2>1. s.tx.to = prepared.draft.to /\ s.tx.amount = prepared.draft.amount
    BY <1>1, <1>3 DEF Pay!Transaction
  <2>2. sheet # "send" => s.seen.to = prepared.draft.to /\ s.seen.amount = prepared.draft.amount
    BY <1>1 DEF Pay!Shown, Pay!ShownByOthers
  <2>3. Pays(s)
    BY <1>1, <1>3, <2>1, <2>2 DEF Pays, Pay!AsShown
  <2> QED BY <1>1, <2>3 DEF s
<1> QED BY <1>2, <1>3

\* What the network has and what has failed stays when a submission begins.
LEMMA SubmissionBegins ==
  ASSUME PayInv, NEW s, IsSubmission(s), Pays(s), s.on = network, sending' = s, otp' = None,
         UNCHANGED <<sheet, asset, form, lookup, reviewed, network, parked, chain, failures>>,
         confirms' \in Nat, confirms <= confirms',
         s.n \in Nat, s.n <= confirms', \A f \in failures : f[1] # s.n, NotSent(s.n)
  PROVE  PayInv'
<1>1. FormFits'
  BY DEF PayInv, FormFits
<1>2. \A z : Pays(z)' <=> Pays(z)
  BY DEF Pays, Pay!AsShown
<1>3. Submitted(s)' /\ Awaits(s)'
  BY <1>2 DEF Submitted, IsSubmission, Numbered, NotSent, Awaits
<1>4. Pay!FailedIsUnsent'
  BY DEF PayInv, Pay!FailedIsUnsent
<1>5. \A t \in chain' : Pays(t)' /\ t.at = "sign" /\ t.n \in Nat /\ t.n <= confirms'
  BY <1>2 DEF PayInv
<1>6. \A f \in failures' : f[1] \in Nat /\ f[1] <= confirms'
  BY DEF PayInv
<1> QED BY <1>1, <1>3, <1>4, <1>5, <1>6 DEF PayInv

LEMMA ConfirmKeeps ==
  ASSUME PayInv, Pay!Confirm
  PROVE  PayInv'
<1>1. /\ confirms' = confirms + 1 /\ sending' = Pay!Submission(confirms + 1, Pay!Shown, FALSE)
      /\ otp' = None /\ Pay!Ready
      /\ UNCHANGED <<sheet, asset, form, lookup, reviewed, network, parked, chain, failures>>
  BY DEF Pay!Confirm
<1>2. confirms' \in Nat /\ confirms < confirms' /\ confirms <= confirms'
  BY <1>1 DEF PayInv
<1>3. (\A f \in failures : f[1] # confirms') /\ NotSent(confirms')
  BY <1>1, <1>2 DEF PayInv, NotSent
<1>4. PICK s : /\ sending' = s /\ IsSubmission(s) /\ Pays(s) /\ s.n = confirms' /\ s.on = network
  BY <1>1, SubmissionPays
<1>5. NotSent(s.n) /\ (\A f \in failures : f[1] # s.n) /\ s.n \in Nat /\ s.n <= confirms'
  BY <1>2, <1>3, <1>4 DEF NotSent
<1> QED BY <1>1, <1>2, <1>4, <1>5, SubmissionBegins

LEMMA CodesKeep ==
  ASSUME PayInv, Pay!NeedCode \/ Pay!EnterCode
  PROVE  PayInv'
<1>1. CASE Pay!NeedCode
  <2>1. FormFits'
    BY <1>1 DEF PayInv, FormFits, Pay!NeedCode
  <2>2. sheet = "send" /\ sending' = None /\ Numbered(otp'.n) /\ NotSent(otp'.n)
        /\ UNCHANGED <<sheet, chain, failures, confirms>>
    BY <1>1 DEF PayInv, Submitted, Pays, Pay!NeedCode, Pay!At
  <2>3. \A z : Pays(z)' <=> Pays(z)
    BY <2>2 DEF Pays, Pay!AsShown
  <2> QED BY <2>1, <2>2, <2>3 DEF PayInv, Pay!FailedIsUnsent, Numbered, NotSent
<1>2. CASE Pay!EnterCode
  <2>1. /\ otp # None /\ otp' = None
        /\ UNCHANGED <<sheet, asset, form, lookup, reviewed, network, parked, chain, failures,
                       confirms>>
    BY <1>2 DEF Pay!EnterCode
  <2>2. CASE ~Pay!Ready
    BY <1>2, <2>1, <2>2, QuietSteps DEF Pay!EnterCode
  <2>3. CASE Pay!Ready
    <3>1. sending' = Pay!Submission(otp.n, otp.seen, TRUE)
      BY <1>2, <2>3 DEF Pay!EnterCode
    <3>2. Numbered(otp.n) /\ NotSent(otp.n) /\ confirms' \in Nat
      BY <2>1 DEF PayInv
    <3>3. sheet = "send"
      BY <2>1 DEF PayInv
    <3>4. PICK s : /\ sending' = s /\ IsSubmission(s) /\ Pays(s) /\ s.n = otp.n /\ s.on = network
      BY <2>3, <3>1, <3>3, SubmissionPays
    <3> QED BY <2>1, <3>2, <3>4, SubmissionBegins DEF Numbered
  <2> QED BY <2>2, <2>3
<1> QED BY <1>1, <1>2

\* A submission that fails does so after all that bears its number on the
\* network, which is the hub's, or the lookup failed as well.
LEMMA FailsKeep ==
  ASSUME PayInv, sending # None, NEW blind \in BOOLEAN, Pay!Fails(blind), UNCHANGED confirms,
         \A t \in chain : t.n = sending.n /\ t.kind = "btc" => blind
  PROVE  PayInv'
<1>1. /\ failures' = failures \union {<<sending.n, blind>>} /\ sending' = None
      /\ UNCHANGED <<sheet, asset, form, lookup, reviewed, network, parked, otp, chain>>
  BY DEF Pay!Fails
<1>2. FormFits'
  BY <1>1 DEF PayInv, FormFits
<1>3. \A z : Pays(z)' <=> Pays(z)
  BY <1>1 DEF Pays, Pay!AsShown
<1>4. Submitted(sending) /\ otp' = None
  BY <1>1 DEF PayInv
<1>5. \A f \in failures' : f \in failures \/ f = <<sending.n, blind>>
  BY <1>1
<1>6. \A f \in failures' : f[1] \in Nat /\ f[1] <= confirms'
  BY <1>4, <1>5 DEF PayInv, Submitted, Numbered
<1>7. Pay!FailedIsUnsent'
  <2> SUFFICES ASSUME NEW t \in chain, t.kind = "btc" PROVE <<t.n, FALSE>> \notin failures'
    BY <1>1 DEF Pay!FailedIsUnsent
  <2>1. <<t.n, FALSE>> \notin failures
    BY DEF PayInv, Pay!FailedIsUnsent
  <2>2. <<t.n, FALSE>> # <<sending.n, blind>>
    OBVIOUS
  <2> QED BY <1>5, <2>1, <2>2
<1> QED BY <1>1, <1>2, <1>3, <1>4, <1>6, <1>7 DEF PayInv

\* A submission that has its client goes on; from "sign" it may have reached the network.
LEMMA GoesOn ==
  ASSUME PayInv, sending # None, NEW s, IsSubmission(s), sending' = s,
         \A z \in {"n", "kind", "coded", "switched", "seen", "on", "name", "tx"} : s[z] = sending[z],
         sending.at # "session", s.at # "session",
         s.at = "sign" => sending.at = "sign" /\ UNCHANGED chain,
         UNCHANGED <<sheet, asset, form, lookup, reviewed, network, parked, otp, failures, confirms>>,
         chain' = chain \/ (sending.at = "sign" /\ chain' = chain \union {sending})
  PROVE  PayInv'
<1>1. /\ s.n = sending.n /\ s.kind = sending.kind /\ s.coded = sending.coded
      /\ s.switched = sending.switched /\ s.seen = sending.seen /\ s.on = sending.on
      /\ s.name = sending.name /\ s.tx = sending.tx
  OBVIOUS
<1>2. FormFits'
  BY DEF PayInv, FormFits
<1>3. \A z : Pays(z)' <=> Pays(z)
  BY DEF Pays, Pay!AsShown
<1>4. Submitted(sending) /\ otp' = None
  BY DEF PayInv
<1>5. \A t \in chain' : t \in chain \/ (t = sending /\ sending.at = "sign")
  OBVIOUS
<1>6. Pays(s)
  BY <1>1, <1>4 DEF Submitted, Pays, Pay!AsShown
<1>7. Numbered(s.n)'
  BY <1>1, <1>4 DEF Submitted, Numbered
<1>8. \A t \in chain' : t.n = s.n => t.kind = s.kind /\ t.tx = s.tx
  BY <1>1, <1>4, <1>5 DEF Submitted
<1>9. s.at = "sign" => NotSent(s.n)'
  BY <1>1, <1>4 DEF Submitted, NotSent
<1>10. Submitted(s)' /\ Awaits(s)'
  BY <1>3, <1>6, <1>7, <1>8, <1>9 DEF Submitted, IsSubmission, Awaits
<1>11. \A t \in chain' : Pays(t)' /\ t.at = "sign" /\ t.n \in Nat /\ t.n <= confirms'
  BY <1>3, <1>4, <1>5 DEF PayInv, Submitted, Numbered
<1>12. Pay!FailedIsUnsent'
  <2> SUFFICES ASSUME NEW t \in chain', t.kind = "btc" PROVE <<t.n, FALSE>> \notin failures
    BY DEF Pay!FailedIsUnsent
  <2>1. CASE t \in chain
    BY <2>1 DEF PayInv, Pay!FailedIsUnsent
  <2>2. CASE t = sending
    BY <1>4, <2>2 DEF Submitted, Numbered
  <2> QED BY <1>5, <2>1, <2>2
<1> QED BY <1>2, <1>4, <1>10, <1>11, <1>12 DEF PayInv

\* The client is of the network of now: the review's, unless it was switched.
LEMMA ClientKeeps ==
  ASSUME PayInv, Pay!GetClient
  PROVE  PayInv'
<1>1. /\ sending # None /\ sending.at = "session"
      /\ sending' = [sending EXCEPT !.at = "sign", !.tx.net = network]
      /\ UNCHANGED <<sheet, asset, form, lookup, reviewed, network, parked, otp, chain, failures,
                     confirms>>
  BY DEF Pay!GetClient, Pay!At
<1>2. Submitted(sending) /\ Awaits(sending) /\ otp = None
  BY <1>1 DEF PayInv
<1>3. PICK s :
      /\ sending' = s
      /\ IsSubmission(s) /\ s.n = sending.n /\ s.kind = sending.kind /\ s.at = "sign"
      /\ s.coded = sending.coded /\ s.switched = sending.switched /\ s.seen = sending.seen
      /\ s.on = sending.on /\ s.name = sending.name
      /\ s.tx.to = sending.tx.to /\ s.tx.amount = sending.tx.amount /\ s.tx.net = network
  <2> DEFINE z == [sending EXCEPT !.at = "sign", !.tx.net = network]
  <2>1. /\ IsSubmission(z) /\ z.n = sending.n /\ z.kind = sending.kind /\ z.at = "sign"
        /\ z.coded = sending.coded /\ z.switched = sending.switched /\ z.seen = sending.seen
        /\ z.on = sending.on /\ z.name = sending.name
        /\ z.tx.to = sending.tx.to /\ z.tx.amount = sending.tx.amount /\ z.tx.net = network
    BY <1>2 DEF Submitted, IsSubmission
  <2>2. sending' = z
    BY <1>1
  <2> HIDE DEF z
  <2> QED BY <2>1, <2>2
<1>4. FormFits'
  BY <1>1 DEF PayInv, FormFits
<1>5. \A z : Pays(z)' <=> Pays(z)
  BY <1>1 DEF Pays, Pay!AsShown
<1>6. Pays(s)
  BY <1>1, <1>2, <1>3 DEF Submitted, Awaits, Pays, Pay!AsShown
<1>7. NotSent(s.n) /\ Numbered(s.n)
  BY <1>1, <1>2, <1>3 DEF Submitted
<1>8. Submitted(s)' /\ Awaits(s)'
  BY <1>1, <1>3, <1>5, <1>6, <1>7 DEF Submitted, IsSubmission, Awaits, Numbered, NotSent
<1>9. Pay!FailedIsUnsent'
  BY <1>1 DEF PayInv, Pay!FailedIsUnsent
<1> QED BY <1>1, <1>2, <1>3, <1>4, <1>5, <1>8, <1>9 DEF PayInv

LEMMA SucceedsKeep ==
  ASSUME PayInv, Pay!Succeeds, UNCHANGED confirms
  PROVE  PayInv'
<1>1. FormFits'
  BY DEF PayInv, FormFits, Pay!Succeeds
<1> QED BY <1>1, FormSteps DEF Pay!Succeeds

LEMMA SubmissionsKeep ==
  ASSUME PayInv,
         \/ Pay!GetClient \/ Pay!Refused \/ Pay!Retry \/ Pay!Accepted \/ Pay!Answered \/ Pay!NotAccepted
         \/ Pay!AnswerLost \/ Pay!Checked \/ Pay!CheckFails
  PROVE  PayInv'
<1>1. sending # None /\ Submitted(sending)
  BY DEF PayInv, Pay!GetClient, Pay!Refused, Pay!Retry, Pay!Accepted, Pay!Answered, Pay!NotAccepted,
         Pay!AnswerLost, Pay!Checked, Pay!CheckFails, Pay!At
<1>2. ASSUME Pay!AfterError, UNCHANGED confirms, sending.at \in {"sign", "answer"} PROVE PayInv'
  <2>1. CASE sending.kind = "hub"
    <3>1. \A t \in chain : t.n = sending.n => t.kind = "hub"
      BY <1>1, <2>1 DEF Submitted
    <3> QED BY <1>1, <1>2, <2>1, <3>1, FailsKeep DEF Pay!AfterError
  <2>2. CASE sending.kind # "hub"
    <3> DEFINE s == [sending EXCEPT !.at = "check"]
    <3>1. /\ sending' = s
          /\ UNCHANGED <<sheet, asset, form, lookup, reviewed, network, parked, otp, failures,
                         confirms, chain>>
      BY <1>2, <2>2 DEF Pay!AfterError, Pay!Checks
    <3>2. IsSubmission(s) /\ s.at = "check"
      BY <1>1 DEF Submitted, IsSubmission
    <3>3. \A z \in {"n", "kind", "coded", "switched", "seen", "on", "name", "tx"} :
          s[z] = sending[z]
      BY <1>1 DEF Submitted, IsSubmission
    <3> HIDE DEF s
    <3> QED BY <1>1, <1>2, <3>1, <3>2, <3>3, GoesOn
  <2> QED BY <2>1, <2>2
<1>3. CASE Pay!Refused
  <2>1. NotSent(sending.n)
    BY <1>1, <1>3 DEF Pay!Refused, Pay!At, Submitted
  <2> QED BY <1>1, <1>3, <2>1, FailsKeep DEF Pay!Refused, NotSent
<1>4. CASE Pay!Retry
  <2> DEFINE s == [sending EXCEPT !.retried = TRUE]
  <2>1. /\ sending' = s /\ sending.at = "sign"
        /\ UNCHANGED <<sheet, asset, form, lookup, reviewed, network, parked, otp, failures,
                       confirms, chain>>
    BY <1>4 DEF Pay!Retry, Pay!At
  <2>2. IsSubmission(s) /\ s.at = sending.at
    BY <1>1 DEF Submitted, IsSubmission
  <2>3. \A z \in {"n", "kind", "coded", "switched", "seen", "on", "name", "tx"} :
          s[z] = sending[z]
    BY <1>1 DEF Submitted, IsSubmission
  <2> HIDE DEF s
  <2> QED BY <1>1, <2>1, <2>2, <2>3, GoesOn
<1>5. CASE Pay!Accepted
  <2> DEFINE s == [sending EXCEPT !.at = "answer"]
  <2>1. /\ sending' = s /\ sending.at = "sign" /\ chain' = chain \union {sending}
        /\ UNCHANGED <<sheet, asset, form, lookup, reviewed, network, parked, otp, failures,
                       confirms>>
    BY <1>5 DEF Pay!Accepted, Pay!At
  <2>2. IsSubmission(s) /\ s.at = "answer"
    BY <1>1 DEF Submitted, IsSubmission
  <2>3. \A z \in {"n", "kind", "coded", "switched", "seen", "on", "name", "tx"} :
          s[z] = sending[z]
    BY <1>1 DEF Submitted, IsSubmission
  <2> HIDE DEF s
  <2> QED BY <1>1, <2>1, <2>2, <2>3, GoesOn
<1>6. CASE Pay!Answered
  BY <1>6, SucceedsKeep DEF Pay!Answered
<1>7. CASE Pay!NotAccepted
  BY <1>2, <1>7 DEF Pay!NotAccepted, Pay!At
<1>8. CASE Pay!AnswerLost
  BY <1>2, <1>8 DEF Pay!AnswerLost, Pay!Event, Pay!At
<1>9. CASE Pay!Checked
  <2>1. CASE \E s \in chain : s.tx = sending.tx
    BY <1>9, <2>1, SucceedsKeep DEF Pay!Checked
  <2>2. CASE ~\E s \in chain : s.tx = sending.tx
    <3>1. \A t \in chain : t.n # sending.n
      BY <1>1, <2>2 DEF Submitted
    <3> QED BY <1>1, <1>9, <2>2, <3>1, FailsKeep DEF Pay!Checked
  <2> QED BY <2>1, <2>2
<1>10. CASE Pay!CheckFails
  BY <1>1, <1>10, FailsKeep DEF Pay!CheckFails, Pay!Event
<1>11. CASE Pay!GetClient
  BY <1>11, ClientKeeps
<1> QED BY <1>3, <1>4, <1>5, <1>6, <1>7, <1>8, <1>9, <1>10, <1>11

LEMMA PayInitIsSafe == Pay!Init => PayInv
BY DEF Pay!Init, PayInv, FormFits, Pay!FailedIsUnsent

\* Typing, reviewing, sending, switching and reopening keep the invariant.
THEOREM PayInductive ==
  ASSUME PayInv, [Pay!Next]_(Pay!vars)
  PROVE  PayInv'
<1>1. CASE \E d \in Drafts : Pay!Type(d)
  BY <1>1, TypeKeeps
<1>2. CASE \E a \in {"btc", "hub"} : Pay!PickAsset(a)
  BY <1>2, PickAssetKeeps
<1>3. CASE \/ Pay!BackToPick \/ Pay!Resolved \/ Pay!ReviewHub \/ Pay!ReviewBtc
           \/ (\E t \in Tiers : Pay!SelectTier(t)) \/ Pay!Prepared \/ Pay!BackToForm \/ Pay!CancelCode
  BY <1>3, ReviewsKeep
<1>4. CASE Pay!Confirm \/ Pay!NeedCode \/ Pay!EnterCode
  BY <1>4, ConfirmKeeps, CodesKeep
<1>5. CASE \/ Pay!GetClient \/ Pay!Refused \/ Pay!Retry \/ Pay!Accepted \/ Pay!Answered \/ Pay!NotAccepted
           \/ Pay!AnswerLost \/ Pay!Checked \/ Pay!CheckFails
  BY <1>5, SubmissionsKeep
<1>6. CASE Pay!SendAnother \/ Pay!Reopen \/ Pay!Expire \/ Pay!Restore
  BY <1>6, CheckpointsKeep
<1>7. CASE \/ \E a \in Accounts : Pay!SwitchAccount(a)
           \/ \E n \in Networks : Pay!SwitchNetwork(n)
  BY <1>7, SwitchesKeep
<1>8. CASE UNCHANGED Pay!vars
  BY <1>8, QuietSteps DEF Pay!vars, Pay!local
<1> QED BY <1>1, <1>2, <1>3, <1>4, <1>5, <1>6, <1>7, <1>8 DEF Pay!Next

LEMMA PayInvariance == Pay!Spec => []PayInv
<1>1. Pay!Init => PayInv
  BY PayInitIsSafe
<1>2. PayInv /\ [Pay!Next]_(Pay!vars) => PayInv'
  BY PayInductive
<1> QED BY <1>1, <1>2, PTL DEF Pay!Spec

\* Runes, inscriptions and transfers of the hub pay what the review has shown,
\* transfers that waited for a code excepted.  However late lookups and
\* preparations answer, a transfer goes where the name in the form leads on the
\* network the review, or the gate of the code, was on, and is made on that
\* network unless the header was switched before the client was taken.
\* Nothing is said of the bitcoin of the Send page.
THEOREM PaidAsReviewed == Pay!Spec => []PaysAsReviewed
<1>1. PayInv => PaysAsReviewed
  BY DEF PayInv, Pays, PaysAsReviewed, Pay!PaysAsReviewed
<1> QED BY <1>1, PayInvariance, PTL

\* A bitcoin transaction that is on the network was reported as failed only
\* when the lookup after the broadcast had failed as well.  Nothing is said of
\* the hub's transfers.
THEOREM FailedBitcoinIsUnsent == Pay!Spec => []FailedIsUnsent
<1>1. PayInv => FailedIsUnsent
  BY DEF PayInv, FailedIsUnsent
<1> QED BY <1>1, PayInvariance, PTL

-----------------------------------------------------------------------------
(* The gates of the Approve page *)

\* What was clicked through the gates passes them with the answers of the click.
Passed(p) ==
    LET s == click[p].snap
    IN  /\ request[p].kind = "transfer" /\ s["payer"] \in Nat /\ s["payee"] \in Nat =>
             ~Caps!Refused(request[p], s["payer"], s["payee"], FALSE)
        /\ request[p].kind = "token" /\ s["tokens"] \in Nat => request[p].amount <= s["tokens"]

GatesInv ==
    /\ funds \in AnyFunds
    /\ request \in [Asked -> AnyRequest \union {None}]
    /\ DOMAIN stage = Asked /\ DOMAIN click = Asked
    /\ \A p \in Asked : stage[p] = "signing" => Passed(p)
    /\ \A p \in Asked : stage[p] # "none" => request[p] \in AnyRequest

\* A page's step, or a world's, that lets no request through.
LEMMA NobodyPasses ==
  ASSUME GatesInv, UNCHANGED <<request, click>>, funds' \in AnyFunds, DOMAIN stage' = Asked,
         \A p \in Asked : stage'[p] = "signing" => stage[p] = "signing",
         \A p \in Asked : stage'[p] # "none" => stage[p] # "none"
  PROVE  GatesInv'
<1>1. \A p \in Asked : Passed(p)' <=> Passed(p)
  BY DEF Passed, Caps!Refused, Caps!Cost, Caps!Dust
<1> QED BY <1>1 DEF GatesInv

LEMMA ShowKeeps ==
  ASSUME GatesInv, NEW p \in Asked, Caps!Show(p)
  PROVE  GatesInv'
<1>1. PICK r \in AnyRequest : request' = [request EXCEPT ![p] = r]
  BY AsksOK DEF Caps!Show
<1>2. /\ stage[p] = "none" /\ stage' = [stage EXCEPT ![p] = "review"]
      /\ UNCHANGED <<click, funds>>
  BY DEF Caps!Show
<1>3. request' \in [Asked -> AnyRequest \union {None}] /\ request'[p] = r
      /\ stage'[p] = "review"
      /\ \A q \in Asked \ {p} : request'[q] = request[q] /\ stage'[q] = stage[q]
  BY <1>1, <1>2 DEF GatesInv
<1>4. \A q \in Asked \ {p} : Passed(q)' <=> Passed(q)
  BY <1>2, <1>3 DEF Passed, Caps!Refused, Caps!Cost, Caps!Dust
<1>5. DOMAIN stage' = Asked
  BY <1>2 DEF GatesInv
<1> QED BY <1>2, <1>3, <1>4, <1>5 DEF GatesInv

LEMMA ApproveGateKeeps ==
  ASSUME GatesInv, NEW p \in Asked, Caps!Approve(p)
  PROVE  GatesInv'
<1>1. /\ stage[p] = "review" /\ ~Caps!Blocked(p)
      /\ stage' = [stage EXCEPT ![p] = "signing"]
      /\ click' = [click EXCEPT ![p] = [net |-> shown, cap |-> cap[p], snap |-> snap[p]]]
      /\ UNCHANGED <<request, funds>>
  BY DEF Caps!Approve
<1>2. /\ DOMAIN stage' = Asked /\ DOMAIN click' = Asked
      /\ stage'[p] = "signing" /\ click'[p].snap = snap[p]
      /\ \A q \in Asked \ {p} : stage'[q] = stage[q] /\ click'[q] = click[q]
  BY <1>1 DEF GatesInv
<1>3. \A q \in Asked \ {p} : Passed(q)' <=> Passed(q)
  BY <1>1, <1>2 DEF Passed, Caps!Refused, Caps!Cost, Caps!Dust
<1>4. request[p] \in AnyRequest
  BY <1>1 DEF GatesInv
<1>5. request[p].kind = "transfer" /\ snap[p]["payer"] \in Nat /\ snap[p]["payee"] \in Nat =>
        ~Caps!Refused(request[p], snap[p]["payer"], snap[p]["payee"], FALSE)
  <2> SUFFICES ASSUME request[p].kind = "transfer", snap[p]["payer"] \in Nat, snap[p]["payee"] \in Nat
               PROVE  ~Caps!Refused(request[p], snap[p]["payer"], snap[p]["payee"], FALSE)
    OBVIOUS
  <2>1. snap[p]["payer"] # Caps!Loading /\ snap[p]["payee"] # Caps!Loading
    BY DEF Caps!Loading
  <2> QED BY <1>1, <2>1 DEF Caps!Blocked
<1>6. request[p].kind = "token" /\ snap[p]["tokens"] \in Nat => request[p].amount <= snap[p]["tokens"]
  BY <1>1, <1>4 DEF Caps!Blocked, AnyRequest
<1>7. Passed(p)'
  BY <1>1, <1>2, <1>5, <1>6 DEF Passed, Caps!Refused, Caps!Cost, Caps!Dust
<1> QED BY <1>1, <1>2, <1>3, <1>4, <1>7 DEF GatesInv

\* The network takes no more than there is.
LEMMA FundsStay ==
  ASSUME GatesInv, NEW p \in Asked, request[p] \in AnyRequest,
         Caps!Takes(request[p])
  PROVE  Caps!Moved(request[p]) \in AnyFunds
<1> DEFINE r == request[p]
<1>1. r.kind \in {"transfer", "token", "psbt"} /\ r.amount \in Nat
  BY DEF AnyRequest
<1>2. funds \in AnyFunds
  BY DEF GatesInv
<1>3. CASE r.kind = "psbt"
  BY <1>2, <1>3 DEF Caps!Moved
<1>4. CASE r.kind = "transfer"
  <2>1. Caps!Cost(r, FALSE) \in Nat /\ funds["payer"] - Caps!Cost(r, FALSE) >= 0
    BY FeesOK, <1>1, <1>2, <1>4 DEF Caps!Takes, Caps!Cost, Caps!Creates, AnyFunds
  <2>2. funds["payer"] \in Nat /\ funds["payee"] \in Nat
    BY <1>2 DEF AnyFunds
  <2>3. funds["payer"] - Caps!Cost(r, FALSE) \in Nat
    <3>1. \A a, b \in Nat : a - b >= 0 => a - b \in Nat
      OBVIOUS
    <3> HIDE DEF r
    <3> QED BY <2>1, <2>2, <3>1
  <2>4. funds["payee"] + r.amount \in Nat
    BY <1>1, <2>2
  <2> QED BY <1>2, <1>4, <2>3, <2>4 DEF Caps!Moved, AnyFunds
<1>5. CASE r.kind = "token"
  <2>1. Caps!Cost(r, Caps!Creates(r)) \in Nat /\ funds["payer"] - Caps!Cost(r, Caps!Creates(r)) >= 0
        /\ funds["tokens"] >= r.amount
    BY FeesOK, <1>1, <1>2, <1>5 DEF Caps!Takes, Caps!Cost, AnyFunds
  <2>2. funds["payer"] - Caps!Cost(r, Caps!Creates(r)) \in Nat /\ funds["tokens"] - r.amount \in Nat
    BY <1>1, <1>2, <2>1 DEF AnyFunds
  <2> QED BY <1>2, <1>5, <2>2 DEF Caps!Moved, AnyFunds
<1> QED BY <1>1, <1>3, <1>4, <1>5

LEMMA SignGateKeeps ==
  ASSUME GatesInv, NEW p \in Asked, Caps!Sign(p) \/ Caps!SignFails(p)
  PROVE  GatesInv'
<1>1. stage[p] = "signing" /\ request[p] \in AnyRequest /\ UNCHANGED <<request, click>>
  BY DEF Caps!Sign, Caps!SignFails, GatesInv
<1>2. \E z \in {"review", "done"} : stage' = [stage EXCEPT ![p] = z]
  BY DEF Caps!Sign, Caps!SignFails
<1>3. /\ DOMAIN stage' = Asked
      /\ \A q \in Asked : stage'[q] = "signing" => stage[q] = "signing"
      /\ \A q \in Asked : stage'[q] # "none" => stage[q] # "none"
  BY <1>1, <1>2 DEF GatesInv
<1>4. funds' \in AnyFunds
  <2>1. CASE Caps!Sign(p)
    BY <1>1, <2>1, FundsStay DEF Caps!Sign
  <2>2. CASE Caps!SignFails(p) /\ UNCHANGED funds
    BY <2>2 DEF GatesInv
  <2>3. CASE funds["payer"] >= Fee /\ funds' = [funds EXCEPT !["payer"] = @ - Fee]
    <3>1. funds["payer"] - Fee \in Nat
      BY FeesOK, <2>3 DEF GatesInv, AnyFunds
    <3> QED BY <2>3, <3>1 DEF GatesInv, AnyFunds
  <2> QED BY <2>1, <2>2, <2>3 DEF Caps!SignFails
<1> QED BY <1>1, <1>3, <1>4, NobodyPasses

\* Lookups, signatures, the log, closing windows and changes of network, caps
\* and sites keep the invariant.
THEOREM GatesInductive ==
  ASSUME GatesInv, [Caps!Next]_(Caps!vars)
  PROVE  GatesInv'
<1>1. ASSUME NEW p \in Asked, Caps!Show(p) \/ Caps!Approve(p) \/ Caps!Sign(p) \/ Caps!SignFails(p)
      PROVE  GatesInv'
  BY <1>1, ShowKeeps, ApproveGateKeeps, SignGateKeeps
<1>2. ASSUME NEW p \in Asked,
             \/ Caps!ReadLimit(p) \/ Caps!ReadRecent(p) \/ Caps!ReadLog(p) \/ Caps!WriteLog(p)
             \/ \E q \in DOMAIN Caps!NoLookups : Caps!Answer(p, q)
      PROVE  GatesInv'
  <2>1. UNCHANGED <<request, click, stage, funds>>
    BY <1>2 DEF Caps!ReadLimit, Caps!ReadRecent, Caps!ReadLog, Caps!WriteLog, Caps!Answer
  <2> QED BY <2>1, NobodyPasses DEF GatesInv
<1>3. ASSUME NEW p \in Asked, Caps!Close(p) PROVE GatesInv'
  <2>1. /\ stage[p] # "none" /\ stage' = [stage EXCEPT ![p] = "closed"]
        /\ UNCHANGED <<request, click, funds>>
    BY <1>3 DEF Caps!Close
  <2> QED BY <2>1, NobodyPasses DEF GatesInv
<1>4. CASE \/ \E n \in Networks : Caps!SwitchNetwork(n)
           \/ \E s \in Sites, a \in Caps!Assets, most \in Limits \union {None} :
                 Caps!SetLimit(s, a, most)
           \/ \E s \in Sites : Caps!Reconnect(s)
           \/ Caps!Tick
           \/ UNCHANGED Caps!vars
  <2>1. UNCHANGED <<request, click, stage, funds>>
    BY <1>4 DEF Caps!SwitchNetwork, Caps!SetLimit, Caps!Reconnect, Caps!Tick, Caps!vars
  <2> QED BY <2>1, NobodyPasses DEF GatesInv
<1> QED BY <1>1, <1>2, <1>3, <1>4 DEF Caps!Next

LEMMA GatesInvariance == Caps!Spec => []GatesInv
<1>1. Caps!Init => GatesInv
  BY AsksOK DEF Caps!Init, GatesInv
<1>2. GatesInv /\ [Caps!Next]_(Caps!vars) => GatesInv'
  BY GatesInductive
<1> QED BY <1>1, <1>2, PTL DEF Caps!Spec

\* What the gates let through, of balances that are known and have not changed,
\* the node takes, whatever the fees, the amounts and the balances are.
THEOREM GatesAreExact == Caps!Spec => []GatesForesee
<1>1. ASSUME GatesInv PROVE GatesForesee
  <2> SUFFICES ASSUME NEW p \in Asked, request[p] # None, request[p].kind # "psbt",
                      Caps!Known(p), ~Caps!Stopped(p)
               PROVE  Caps!Takes(request[p])
    BY DEF GatesForesee, Caps!GatesForesee
  <2> DEFINE r == request[p]
             s == click[p].snap
  <2>1. /\ r \in AnyRequest /\ r.kind \in {"transfer", "token"} /\ r.amount \in Nat
        /\ funds["payer"] \in Nat /\ funds["payee"] \in Nat /\ funds["tokens"] \in Nat
    BY <1>1 DEF GatesInv, AnyRequest, AnyFunds
  <2>2. Passed(p) /\ s["payer"] = funds["payer"]
    BY <1>1, <2>1 DEF GatesInv, Caps!Known, Caps!Needs
  <2>3. CASE r.kind = "transfer"
    <3>1. s["payee"] = funds["payee"]
      BY <2>3 DEF Caps!Known, Caps!Needs
    <3>2. ~Caps!Refused(r, funds["payer"], funds["payee"], FALSE)
      BY <2>1, <2>2, <2>3, <3>1 DEF Passed
    <3>3. Caps!Creates(r) = FALSE
      BY <2>3 DEF Caps!Creates
    <3>4. PICK cost : cost = Caps!Cost(r, FALSE) /\ cost = Caps!Cost(r, Caps!Creates(r)) /\ cost \in Nat
      BY FeesOK, <2>1, <2>3, <3>3 DEF Caps!Cost
    <3>5. /\ ~(cost > funds["payer"]) /\ ~Caps!Dust(funds["payer"] - cost)
          /\ ~Caps!Dust(funds["payee"] + r.amount)
      BY <2>1, <2>3, <3>2, <3>4 DEF Caps!Refused
    <3>6. funds["payer"] - cost >= 0
      <4>1. \A a, b \in Nat : ~(b > a) => a - b >= 0
        OBVIOUS
      <4>2. funds["payer"] \in Nat
        BY <2>1
      <4> HIDE DEF r
      <4> QED BY <3>4, <3>5, <4>1, <4>2
    <3> QED BY <2>1, <2>3, <3>4, <3>5, <3>6 DEF Caps!Takes
  <2>4. CASE r.kind = "token"
    <3>1. s["tokens"] = funds["tokens"]
      BY <2>4 DEF Caps!Known, Caps!Needs
    <3>2. r.amount <= funds["tokens"]
      BY <2>1, <2>2, <2>4, <3>1 DEF Passed
    <3>3. ~Caps!Refused(r, funds["payer"], Caps!Unknown, Caps!Creates(r))
      BY <2>1, <2>2, <2>4 DEF Caps!Stopped, Caps!Loading
    <3>4. PICK cost : cost = Caps!Cost(r, Caps!Creates(r)) /\ cost \in Nat
      BY FeesOK, <2>1, <2>4 DEF Caps!Cost
    <3>5. ~(cost > funds["payer"]) /\ ~Caps!Dust(funds["payer"] - cost)
      BY <2>1, <3>3, <3>4 DEF Caps!Refused
    <3>6. funds["payer"] - cost >= 0
      <4>1. \A a, b \in Nat : ~(b > a) => a - b >= 0
        OBVIOUS
      <4>2. funds["payer"] \in Nat
        BY <2>1
      <4> HIDE DEF r
      <4> QED BY <3>4, <3>5, <4>1, <4>2
    <3> QED BY <2>1, <2>4, <3>2, <3>4, <3>5, <3>6 DEF Caps!Takes
  <2> QED BY <2>1, <2>3, <2>4
<1> QED BY <1>1, GatesInvariance, PTL

-----------------------------------------------------------------------------
(* The sealed wallet *)

\* None is no password and no function, so neither a blob nor a state.
NoneIsNeither == None \notin Passwords /\ None # [z \in DOMAIN None |-> None[z]]

\* An operation that has yet to seal, with a salt of its own number.
Sealing(o) == o.at = "seal" \/ (o.does = "change" /\ o.at \in {"open", "save", "store"})

\* Salts that nothing will be sealed with any more.
OldSalts == {n \in 0..ops : \A r \in Realms : Sealing(op[r]) => op[r].no # n}

KeyFits(k, S) == k # None => k[2] \in S
BlobFits(b, S) ==
    /\ b = [salt |-> b.salt, key |-> b.key, state |-> b.state]
    /\ b.salt \in S /\ b.key[2] \in S

Rereads == {"key to write", "import to write", "write"}
Writers == {"blob to write"} \union Rereads
Holds == {"import to decrypt", "decrypt", "import to write", "write"}

\* What is to be written is made from the blob the operation has read.
Made(o) == IF o.saving THEN ~o.base.state.old /\ o.state = Vault!Edited(o.base.state, o.edit)
           ELSE o.base.state.old /\ o.state = Vault!Migrate(o.base.state)

Fields == {"no", "does", "old", "new", "edit", "at", "blob", "key", "base", "state", "saving"}

OpFits(o, c, S) ==
    /\ DOMAIN o = Fields
    /\ o.saving \in BOOLEAN /\ (o.saving => o.at \in Writers /\ o.edit \in Edits)
    /\ o.edit \in Edits \union {Vault!NoEdit}
    /\ o.at \in Holds => o.key # None /\ o.key[2] \in S
    /\ o.at \in {"key", "import to decrypt", "decrypt"} \union Rereads => BlobFits(o.blob, S)
    /\ o.at \in Writers => BlobFits(o.base, S) /\ Made(o)
    /\ o.at = "open" => o.does \in {"unlock", "change"}
    /\ o.at \in {"save", "store"} => o.does \in {"unlock", "change", "seal"} /\ o.key[2] \in S
    /\ o.at \in {"save", "store"} /\ o.does # "seal" =>
         BlobFits(o.base, S) /\ o.key = o.base.key /\ o.state = o.base.state
    /\ o.at = "seal" => \/ o.does = "seal" /\ o.state # None
                        \/ o.does = "change" /\ o.state = o.base.state /\ BlobFits(o.base, S)
    /\ Sealing(o) => o.new \in Passwords
    /\ o.at \in {"decrypt", "write"} => c \in {None, o.key}
    /\ o.at = "store" /\ o.does # "seal" => c \in {None, o.key}
    /\ o.at \in {"blob to write", "key to write"} => c \in {None, o.base.key}

\* While the blob is the one an operation started from, salt and key are too.
WriterFits(o, b) ==
    /\ o.at \in Rereads /\ o.base.salt = b.salt => o.blob.salt = b.salt
    /\ o.at \in {"import to write", "write"} /\ o.base.key = b.key => o.key = b.key

\* A key a realm has got has been stored, but for one it is about to store.
Knows(o, c, k) ==
    \/ c = k /\ c # None /\ o.at # "store"
    \/ o.at \in Holds /\ o.key = k
    \/ o.at \in Writers /\ o.base.key = k

Agrees(o, c, b, s) == WriterFits(o, b) /\ (Knows(o, c, b.key) => s \in {None, b.key})

\* An operation that has sealed, and removes the legacy state next.
Removes(o) == o.at = "legacy" \/ (o.at \in {"save", "store"} /\ o.does = "seal")

VaultInv ==
    /\ ops \in Nat /\ DOMAIN op = Realms /\ DOMAIN cache = Realms
    /\ \A r \in Realms : OpFits(op[r], cache[r], OldSalts) /\ KeyFits(cache[r], OldSalts)
    /\ \A r \in Realms : Sealing(op[r]) => op[r].no \in 1..ops
    /\ \A r, q \in Realms : Sealing(op[r]) /\ Sealing(op[q]) /\ op[r].no = op[q].no => r = q
    /\ KeyFits(stored, OldSalts)
    /\ blob # None => BlobFits(blob, OldSalts)
    /\ secret = None /\ legacy # None => \A r \in Realms : ~Removes(op[r])
    /\ ~raced => Vault!Opens(secret, content) /\ (secret # None => content # None)
    /\ ~raced /\ blob # None => \A r \in Realms : Agrees(op[r], cache[r], blob, stored)

LEMMA FitsStay ==
  ASSUME NEW S, NEW T, S \subseteq T
  PROVE  /\ \A k : KeyFits(k, S) => KeyFits(k, T)
         /\ \A b : BlobFits(b, S) => BlobFits(b, T)
         /\ \A o, c : OpFits(o, c, S) => OpFits(o, c, T)
<1>1. \A k : KeyFits(k, S) => KeyFits(k, T)
  BY DEF KeyFits
<1>2. \A b : BlobFits(b, S) => BlobFits(b, T)
  BY DEF BlobFits
<1>3. ASSUME NEW o, NEW c, OpFits(o, c, S) PROVE OpFits(o, c, T)
  <2>1. o.at \in Holds => o.key # None /\ o.key[2] \in T
    BY <1>3 DEF OpFits
  <2>2. o.at \in {"key", "import to decrypt", "decrypt"} \union Rereads => BlobFits(o.blob, T)
    BY <1>2, <1>3 DEF OpFits
  <2>3. o.at \in Writers => BlobFits(o.base, T) /\ Made(o)
    BY <1>2, <1>3 DEF OpFits
  <2>4. o.at \in {"save", "store"} => o.does \in {"unlock", "change", "seal"} /\ o.key[2] \in T
    BY <1>3 DEF OpFits
  <2>5. o.at \in {"save", "store"} /\ o.does # "seal" =>
           BlobFits(o.base, T) /\ o.key = o.base.key /\ o.state = o.base.state
    BY <1>2, <1>3 DEF OpFits
  <2>6. o.at = "seal" => \/ o.does = "seal" /\ o.state # None
                         \/ o.does = "change" /\ o.state = o.base.state /\ BlobFits(o.base, T)
    BY <1>2, <1>3 DEF OpFits
  <2> QED BY <1>3, <2>1, <2>2, <2>3, <2>4, <2>5, <2>6 DEF OpFits
<1> QED BY <1>1, <1>2, <1>3

\* The other realms stand still.
Turn(r) ==
    /\ DOMAIN op' = Realms /\ DOMAIN cache' = Realms
    /\ \A q \in Realms \ {r} : op'[q] = op[q] /\ cache'[q] = cache[q]

\* A salt that is old stays so, unless an operation takes it up.
LEMMA SaltsGrow ==
  ASSUME VaultInv, NEW r \in Realms, Turn(r), UNCHANGED ops,
         Sealing(op'[r]) => Sealing(op[r]) /\ op'[r].no = op[r].no
  PROVE  /\ OldSalts \subseteq OldSalts'
         /\ \A q \in Realms : Sealing(op'[q]) => op'[q].no \in 1..ops'
         /\ \A p, q \in Realms : Sealing(op'[p]) /\ Sealing(op'[q]) /\ op'[p].no = op'[q].no => p = q
<1>1. \A q \in Realms : Sealing(op'[q]) => Sealing(op[q]) /\ op'[q].no = op[q].no
  BY DEF Turn
<1>2. OldSalts \subseteq OldSalts'
  BY <1>1 DEF OldSalts
<1>3. \A q \in Realms : Sealing(op'[q]) => op'[q].no \in 1..ops'
  BY <1>1 DEF VaultInv
<1>4. \A p, q \in Realms : Sealing(op'[p]) /\ Sealing(op'[q]) /\ op'[p].no = op'[q].no => p = q
  BY <1>1 DEF VaultInv
<1> QED BY <1>2, <1>3, <1>4

\* What the operations fit stays when one realm moves.
LEMMA OthersFit ==
  ASSUME VaultInv, NEW r \in Realms, Turn(r), OldSalts \subseteq OldSalts',
         OpFits(op'[r], cache'[r], OldSalts'), KeyFits(cache'[r], OldSalts')
  PROVE  \A q \in Realms : OpFits(op'[q], cache'[q], OldSalts') /\ KeyFits(cache'[q], OldSalts')
<1> DEFINE S == OldSalts
           T == OldSalts'
<1>1. \A q \in Realms \ {r} : OpFits(op[q], cache[q], S) /\ KeyFits(cache[q], S)
  BY DEF VaultInv
<1>2. S \subseteq T
  OBVIOUS
<1> HIDE DEF S, T
<1>3. \A q \in Realms \ {r} : OpFits(op[q], cache[q], T) /\ KeyFits(cache[q], T)
  BY <1>1, <1>2, FitsStay
<1>4. \A q \in Realms \ {r} : OpFits(op'[q], cache'[q], T) /\ KeyFits(cache'[q], T)
  BY <1>3 DEF Turn
<1> QED BY <1>4 DEF T

\* A realm moves and leaves the blob alone.
LEMMA KeyMoves ==
  ASSUME VaultInv, NEW r \in Realms, Turn(r), UNCHANGED <<blob, ops, secret, content>>,
         raced => raced', legacy' = legacy \/ (legacy' = None /\ Removes(op[r])),
         Sealing(op'[r]) => Sealing(op[r]) /\ op'[r].no = op[r].no,
         Removes(op'[r]) => Removes(op[r]),
         OpFits(op'[r], cache'[r], OldSalts), KeyFits(cache'[r], OldSalts), KeyFits(stored', OldSalts),
         ~raced' /\ blob # None => \A q \in Realms : Agrees(op'[q], cache'[q], blob, stored')
  PROVE  VaultInv'
<1>1. /\ OldSalts \subseteq OldSalts'
      /\ \A q \in Realms : Sealing(op'[q]) => op'[q].no \in 1..ops'
      /\ \A p, q \in Realms : Sealing(op'[p]) /\ Sealing(op'[q]) /\ op'[p].no = op'[q].no => p = q
  BY SaltsGrow
<1> DEFINE T == OldSalts'
<1>2. /\ OpFits(op'[r], cache'[r], T) /\ KeyFits(cache'[r], T) /\ KeyFits(stored', T)
      /\ blob # None => BlobFits(blob, T)
  <2>1. OldSalts \subseteq T /\ (blob # None => BlobFits(blob, OldSalts))
    BY <1>1 DEF VaultInv
  <2> HIDE DEF T
  <2> QED BY <2>1, FitsStay
<1>3. \A q \in Realms : OpFits(op'[q], cache'[q], T) /\ KeyFits(cache'[q], T)
  BY <1>1, <1>2, OthersFit
<1>4. secret' = None /\ legacy' # None => \A q \in Realms : ~Removes(op'[q])
  BY DEF VaultInv, Turn
<1>5. ~raced' => Vault!Opens(secret, content)' /\ (secret' # None => content' # None)
  BY DEF VaultInv, Vault!Opens
<1>6. ~raced' /\ blob' # None => \A q \in Realms : Agrees(op'[q], cache'[q], blob', stored')
  OBVIOUS
<1>7. ops' \in Nat /\ DOMAIN op' = Realms /\ DOMAIN cache' = Realms
  BY DEF VaultInv, Turn
<1>8. KeyFits(stored, OldSalts)' /\ (blob' # None => BlobFits(blob, OldSalts)')
  BY <1>2
<1>9. \A q \in Realms : OpFits(op[q], cache[q], OldSalts)' /\ KeyFits(cache[q], OldSalts)'
  BY <1>3
<1> QED BY <1>1, <1>4, <1>5, <1>6, <1>7, <1>8, <1>9 DEF VaultInv

\* A realm moves and at most removes the stored key.
LEMMA RealmMoves ==
  ASSUME VaultInv, NEW r \in Realms, Turn(r), UNCHANGED <<blob, ops, secret, content, raced>>,
         legacy' = legacy \/ (legacy' = None /\ Removes(op[r])),
         Sealing(op'[r]) => Sealing(op[r]) /\ op'[r].no = op[r].no,
         Removes(op'[r]) => Removes(op[r]),
         OpFits(op'[r], cache'[r], OldSalts), KeyFits(cache'[r], OldSalts),
         stored' \in {stored, None},
         ~raced /\ blob # None => Agrees(op'[r], cache'[r], blob, stored')
  PROVE  VaultInv'
<1>1. ASSUME ~raced, blob # None, NEW q \in Realms \ {r}
      PROVE  Agrees(op'[q], cache'[q], blob, stored')
  <2>1. Agrees(op[q], cache[q], blob, stored) /\ op'[q] = op[q] /\ cache'[q] = cache[q]
    BY <1>1 DEF VaultInv, Turn
  <2> QED BY <2>1 DEF Agrees
<1>2. ~raced' /\ blob # None => \A q \in Realms : Agrees(op'[q], cache'[q], blob, stored')
  BY <1>1
<1>3. KeyFits(stored', OldSalts)
  BY DEF VaultInv, KeyFits
<1> QED BY <1>2, <1>3, KeyMoves


LEMMA IdleOp ==
  /\ ~Sealing(Vault!Idle) /\ ~Removes(Vault!Idle)
  /\ \A c, S : OpFits(Vault!Idle, c, S)
  /\ \A c, b, s : (c # None /\ c = b.key => s \in {None, b.key}) => Agrees(Vault!Idle, c, b, s)
<1>1. /\ Vault!Idle.at = "end" /\ Vault!Idle.does = "nothing" /\ Vault!Idle.saving = FALSE
      /\ DOMAIN Vault!Idle = Fields /\ Vault!Idle.edit = Vault!NoEdit
  BY DEF Vault!Idle, Fields
<1>2. ~Sealing(Vault!Idle) /\ ~Removes(Vault!Idle)
  BY <1>1 DEF Sealing, Removes
<1>3. \A c, S : OpFits(Vault!Idle, c, S)
  BY <1>1, <1>2 DEF OpFits, Holds, Writers, Rereads
<1>4. \A b : WriterFits(Vault!Idle, b)
  BY <1>1 DEF WriterFits, Rereads
<1>5. \A c, b, s : (c # None /\ c = b.key => s \in {None, b.key}) => Agrees(Vault!Idle, c, b, s)
  BY <1>1, <1>4 DEF Agrees, Knows, Holds, Writers, Rereads
<1> QED BY <1>2, <1>3, <1>5

\* An operation ends, or its realm does; what it was about to store is lost.
LEMMA EndKeeps ==
  ASSUME VaultInv, NEW r \in Realms, Vault!End(r), UNCHANGED <<blob, ops, secret, content, raced>>,
         legacy' = legacy \/ (legacy' = None /\ Removes(op[r])), stored' \in {stored, None},
         DOMAIN cache' = Realms, \A q \in Realms \ {r} : cache'[q] = cache[q],
         cache'[r] = None \/ (cache'[r] = cache[r] /\ op[r].at # "store")
  PROVE  VaultInv'
<1>1. Turn(r) /\ op'[r] = Vault!Idle
  BY DEF VaultInv, Vault!End, Turn
<1>2. KeyFits(cache'[r], OldSalts)
  BY DEF VaultInv, KeyFits
<1>3. ASSUME ~raced, blob # None, cache'[r] # None, cache'[r] = blob.key
      PROVE  stored' \in {None, blob.key}
  <2>1. Knows(op[r], cache[r], blob.key)
    BY <1>3 DEF Knows
  <2> QED BY <1>3, <2>1 DEF VaultInv, Agrees
<1>4. ~raced /\ blob # None => Agrees(op'[r], cache'[r], blob, stored')
  BY <1>1, <1>3, IdleOp
<1> QED BY <1>1, <1>2, <1>4, IdleOp, RealmMoves

\* The stages that only leave one await for another.
LEMMA GoFields ==
  ASSUME VaultInv, NEW r \in Realms, NEW at, Vault!Go(r, at)
  PROVE  /\ DOMAIN op' = Realms /\ \A q \in Realms \ {r} : op'[q] = op[q]
         /\ DOMAIN op'[r] = Fields /\ op'[r].at = at
         /\ \A z \in Fields \ {"at"} : op'[r][z] = op[r][z]
<1>1. DOMAIN op[r] = Fields
  BY DEF VaultInv, OpFits
<1> QED BY <1>1 DEF VaultInv, Vault!Go, Fields

LEMMA ReadBlobKeeps ==
  ASSUME NoneIsNeither, VaultInv, NEW r \in Realms, Vault!ReadBlob(r)
  PROVE  VaultInv'
<1>1. /\ op[r].at \in {"blob", "blob to write"}
      /\ UNCHANGED <<blob, legacy, stored, cache, ops, secret, content, raced>>
  BY DEF Vault!ReadBlob, Vault!history
<1>2. CASE blob = None
  <2>1. Vault!End(r)
    BY <1>2 DEF Vault!ReadBlob
  <2> QED BY <1>1, <2>1, EndKeeps DEF VaultInv
<1>3. CASE blob # None
  <2> DEFINE at == IF op[r].at = "blob" THEN "key" ELSE "key to write"
             o == [op[r] EXCEPT !.blob = blob, !.at = at]
  <2>1. op' = [op EXCEPT ![r] = o]
    BY <1>3 DEF Vault!ReadBlob, VaultInv, OpFits
  <2>2. DOMAIN op[r] = Fields /\ OpFits(op[r], cache[r], OldSalts) /\ BlobFits(blob, OldSalts)
    BY <1>3 DEF VaultInv, OpFits
  <2>3. /\ DOMAIN o = Fields /\ o.blob = blob /\ o.at = at
        /\ o.does = op[r].does /\ o.saving = op[r].saving /\ o.key = op[r].key /\ o.base = op[r].base
        /\ o.state = op[r].state /\ o.edit = op[r].edit
    BY <2>2 DEF Fields
  <2>4. Turn(r) /\ op'[r] = o /\ cache'[r] = cache[r]
    BY <1>1, <2>1 DEF VaultInv, Turn
  <2> HIDE DEF o
  <2>5. ~Sealing(o) /\ ~Removes(o)
    BY <2>3 DEF Sealing, Removes
  <2>6. OpFits(o, cache[r], OldSalts)
    <3>1. CASE op[r].at = "blob"
      BY <2>2, <2>3, <2>5, <3>1 DEF OpFits, Holds, Writers, Rereads
    <3>2. CASE op[r].at = "blob to write"
      BY <2>2, <2>3, <2>5, <3>2 DEF OpFits, Holds, Writers, Rereads, Made
    <3> QED BY <1>1, <3>1, <3>2
  <2>7. ASSUME ~raced PROVE Agrees(o, cache[r], blob, stored)
    <3>1. Agrees(op[r], cache[r], blob, stored)
      BY <1>3, <2>7 DEF VaultInv
    <3>2. WriterFits(o, blob)
      BY <2>3 DEF WriterFits
    <3>3. Knows(o, cache[r], blob.key) => Knows(op[r], cache[r], blob.key)
      BY <1>1, <2>3 DEF Knows, Holds, Writers, Rereads
    <3> QED BY <3>1, <3>2, <3>3 DEF Agrees
  <2>8. KeyFits(cache[r], OldSalts)
    BY DEF VaultInv
  <2> QED BY <1>1, <2>4, <2>5, <2>6, <2>7, <2>8, RealmMoves
<1> QED BY <1>2, <1>3

LEMMA LoadKeyKeeps ==
  ASSUME VaultInv, NEW r \in Realms, Vault!LoadKey(r)
  PROVE  VaultInv'
<1> DEFINE key == IF cache[r] # None THEN cache[r] ELSE stored
           at == IF op[r].at = "key"
                 THEN IF cache[r] # None THEN "decrypt" ELSE "import to decrypt"
                 ELSE IF cache[r] # None THEN "write" ELSE "import to write"
           o == [op[r] EXCEPT !.key = key, !.at = at]
<1>1. /\ op[r].at \in {"key", "key to write"}
      /\ UNCHANGED <<blob, legacy, stored, cache, ops, secret, content, raced>>
  BY DEF Vault!LoadKey, Vault!history
<1>2. CASE key = None
  <2>1. Vault!End(r)
    BY <1>2 DEF Vault!LoadKey
  <2> QED BY <1>1, <2>1, EndKeeps DEF VaultInv
<1>3. CASE key # None
  <2>1. DOMAIN op[r] = Fields /\ OpFits(op[r], cache[r], OldSalts)
        /\ KeyFits(cache[r], OldSalts) /\ KeyFits(stored, OldSalts)
    BY DEF VaultInv, OpFits
  <2>2. op' = [op EXCEPT ![r] = o]
    <3>1. op' = [op EXCEPT ![r].key = key, ![r].at = at]
      BY <1>3 DEF Vault!LoadKey
    <3> HIDE DEF key, at
    <3> QED BY <2>1, <3>1 DEF VaultInv, Fields
  <2>3. /\ DOMAIN o = Fields /\ o.key = key /\ o.at = at
        /\ o.does = op[r].does /\ o.saving = op[r].saving /\ o.blob = op[r].blob /\ o.base = op[r].base
        /\ o.state = op[r].state /\ o.edit = op[r].edit
    BY <2>1 DEF Fields
  <2>4. Turn(r) /\ op'[r] = o /\ cache'[r] = cache[r]
    BY <1>1, <2>2 DEF VaultInv, Turn
  <2> HIDE DEF o
  <2>5. ~Sealing(o) /\ ~Removes(o)
    BY <2>3 DEF Sealing, Removes
  <2>6. key[2] \in OldSalts
    BY <1>3, <2>1 DEF KeyFits
  <2>7. OpFits(o, cache[r], OldSalts)
    <3>1. CASE op[r].at = "key"
      BY <1>3, <2>1, <2>3, <2>5, <2>6, <3>1 DEF OpFits, Holds, Writers, Rereads
    <3>2. CASE op[r].at = "key to write"
      BY <1>3, <2>1, <2>3, <2>5, <2>6, <3>2 DEF OpFits, Holds, Writers, Rereads, Made
    <3> QED BY <1>1, <3>1, <3>2
  <2>8. ASSUME ~raced, blob # None PROVE Agrees(o, cache[r], blob, stored)
    <3>1. Agrees(op[r], cache[r], blob, stored)
      BY <2>8 DEF VaultInv
    <3>2. key = blob.key => stored \in {None, blob.key}
      BY <1>1, <3>1 DEF Agrees, Knows
    <3>3. Knows(o, cache[r], blob.key) => stored \in {None, blob.key}
      BY <1>1, <2>3, <3>1, <3>2 DEF Agrees, Knows, Holds, Writers, Rereads
    <3>4. op[r].at = "key to write" /\ o.base.key = blob.key => o.key = blob.key
      <4> SUFFICES ASSUME op[r].at = "key to write", op[r].base.key = blob.key
                   PROVE  key = blob.key
        BY <2>3
      <4>1. cache[r] \in {None, blob.key}
        BY <2>1 DEF OpFits
      <4>2. stored \in {None, blob.key}
        BY <3>1 DEF Agrees, Knows, Writers, Rereads
      <4> QED BY <1>3, <4>1, <4>2
    <3>5. WriterFits(o, blob)
      BY <1>1, <2>3, <3>1, <3>4 DEF Agrees, WriterFits, Rereads
    <3> QED BY <3>3, <3>5 DEF Agrees
  <2> QED BY <1>1, <2>1, <2>4, <2>5, <2>7, <2>8, RealmMoves
<1> QED BY <1>2, <1>3

LEMMA ImportKeyKeeps ==
  ASSUME VaultInv, NEW r \in Realms, Vault!ImportKey(r)
  PROVE  VaultInv'
<1> DEFINE at == IF op[r].at = "import to write" THEN "write" ELSE "decrypt"
           o == op'[r]
<1>1. /\ op[r].at \in {"import to decrypt", "import to write"}
      /\ cache' = [cache EXCEPT ![r] = op[r].key] /\ Vault!Go(r, at)
      /\ UNCHANGED <<blob, legacy, stored, ops, secret, content, raced>>
  BY DEF Vault!ImportKey, Vault!history
<1>2. /\ DOMAIN op' = Realms /\ \A q \in Realms \ {r} : op'[q] = op[q]
      /\ DOMAIN o = Fields /\ o.at = at
      /\ \A z \in Fields \ {"at"} : o[z] = op[r][z]
  BY <1>1, GoFields
<1>3. /\ o.does = op[r].does /\ o.saving = op[r].saving /\ o.key = op[r].key /\ o.blob = op[r].blob
      /\ o.base = op[r].base /\ o.state = op[r].state /\ o.edit = op[r].edit
  BY <1>2 DEF Fields
<1>4. Turn(r) /\ cache'[r] = op[r].key
  BY <1>1, <1>2 DEF VaultInv, Turn
<1>5. OpFits(op[r], cache[r], OldSalts)
  BY DEF VaultInv
<1> HIDE DEF o
<1>6. ~Sealing(o) /\ ~Removes(o)
  BY <1>2 DEF Sealing, Removes
<1>7. OpFits(o, cache'[r], OldSalts) /\ KeyFits(cache'[r], OldSalts)
  <2>1. CASE op[r].at = "import to decrypt"
    BY <1>2, <1>3, <1>4, <1>5, <1>6, <2>1 DEF OpFits, KeyFits, Holds, Writers, Rereads
  <2>2. CASE op[r].at = "import to write"
    BY <1>2, <1>3, <1>4, <1>5, <1>6, <2>2 DEF OpFits, KeyFits, Holds, Writers, Rereads, Made
  <2> QED BY <1>1, <2>1, <2>2
<1>8. ASSUME ~raced, blob # None PROVE Agrees(o, cache'[r], blob, stored)
  <2>1. Agrees(op[r], cache[r], blob, stored)
    BY <1>8 DEF VaultInv
  <2>2. Knows(o, cache'[r], blob.key) => Knows(op[r], cache[r], blob.key)
    BY <1>1, <1>2, <1>3, <1>4 DEF Knows, Holds, Writers, Rereads
  <2>3. WriterFits(o, blob)
    BY <1>1, <1>2, <1>3, <2>1 DEF Agrees, WriterFits, Rereads
  <2> QED BY <2>1, <2>2, <2>3 DEF Agrees
<1> QED BY <1>1, <1>4, <1>6, <1>7, <1>8, RealmMoves DEF o

\* What Apply makes of an operation that has the state of a blob.
Applied(n, from) ==
    \/ n = Vault!Idle
    \/ /\ DOMAIN n = Fields /\ n.saving = FALSE /\ n.at = "wipe"
       /\ n.edit \in Edits \union {Vault!NoEdit}
    \/ /\ DOMAIN n = Fields /\ n.saving \in BOOLEAN /\ n.at = "blob to write"
       /\ n.edit \in Edits \union {Vault!NoEdit} /\ (n.saving => n.edit \in Edits)
       /\ n.base = from /\ Made(n)

LEMMA ApplyGives ==
  ASSUME VaultInv, NEW r \in Realms, op[r].saving = FALSE, NEW from, NEW c, c = from.state,
         Vault!Apply(r, from, c)
  PROVE  \E n : op' = [op EXCEPT ![r] = n] /\ Applied(n, from)
<1>1. DOMAIN op[r] = Fields /\ DOMAIN op = Realms /\ op[r].edit \in Edits \union {Vault!NoEdit}
  BY DEF VaultInv, OpFits
<1>2. CASE c.old
  <2> DEFINE n == [op[r] EXCEPT !.at = "blob to write", !.base = from, !.state = Vault!Migrate(c)]
  <2>1. op' = [op EXCEPT ![r] = n]
    BY <1>1, <1>2 DEF Vault!Apply
  <2>2. /\ DOMAIN n = Fields /\ n.saving = FALSE /\ n.at = "blob to write" /\ n.base = from
        /\ n.edit = op[r].edit /\ n.state = Vault!Migrate(c)
    BY <1>1 DEF Fields
  <2> HIDE DEF n
  <2>3. Made(n)
    BY <1>2, <2>2 DEF Made
  <2> QED BY <1>1, <2>1, <2>2, <2>3 DEF Applied
<1>3. CASE ~c.old
  <2>1. CASE Vault!End(r)
    BY <2>1 DEF Vault!End, Applied
  <2>2. CASE Vault!Go(r, "wipe")
    <3> DEFINE n == [op[r] EXCEPT !.at = "wipe"]
    <3>1. op' = [op EXCEPT ![r] = n]
      BY <1>1, <2>2 DEF Vault!Go
    <3>2. DOMAIN n = Fields /\ n.saving = FALSE /\ n.at = "wipe" /\ n.edit = op[r].edit
      BY <1>1 DEF Fields
    <3> QED BY <1>1, <3>1, <3>2 DEF Applied
  <2>3. CASE /\ op[r].edit # Vault!NoEdit
             /\ op' = [op EXCEPT ![r].at = "blob to write", ![r].base = from, ![r].saving = TRUE,
                                 ![r].state = Vault!Edited(c, op[r].edit)]
    <3> DEFINE n == [op[r] EXCEPT !.at = "blob to write", !.base = from, !.saving = TRUE,
                                  !.state = Vault!Edited(c, op[r].edit)]
    <3>1. op' = [op EXCEPT ![r] = n]
      BY <1>1, <2>3
    <3>2. /\ DOMAIN n = Fields /\ n.saving = TRUE /\ n.at = "blob to write" /\ n.base = from
          /\ n.edit = op[r].edit /\ n.state = Vault!Edited(c, op[r].edit)
      BY <1>1 DEF Fields
    <3> HIDE DEF n
    <3>3. Made(n)
      BY <1>3, <3>2 DEF Made
    <3> QED BY <1>1, <2>3, <3>1, <3>2, <3>3 DEF Applied
  <2> QED BY <1>3, <2>1, <2>2, <2>3 DEF Vault!Apply
<1> QED BY <1>2, <1>3

LEMMA AppliedFits ==
  ASSUME NEW n, NEW from, NEW c, NEW S, Applied(n, from), BlobFits(from, S), c \in {None, from.key}
  PROVE  /\ OpFits(n, c, S) /\ ~Sealing(n) /\ ~Removes(n)
         /\ \A b, s : (b.key = from.key => s \in {None, b.key}) => Agrees(n, c, b, s)
<1>1. CASE n = Vault!Idle
  BY <1>1, IdleOp
<1>2. CASE /\ DOMAIN n = Fields /\ n.saving = FALSE /\ n.at = "wipe"
           /\ n.edit \in Edits \union {Vault!NoEdit}
  <2>1. ~Sealing(n) /\ ~Removes(n)
    BY <1>2 DEF Sealing, Removes
  <2>2. OpFits(n, c, S)
    BY <1>2, <2>1 DEF OpFits, Holds, Writers, Rereads
  <2> QED BY <1>2, <2>1, <2>2 DEF Agrees, WriterFits, Knows, Holds, Writers, Rereads
<1>3. CASE /\ DOMAIN n = Fields /\ n.saving \in BOOLEAN /\ n.at = "blob to write"
           /\ n.edit \in Edits \union {Vault!NoEdit} /\ (n.saving => n.edit \in Edits)
           /\ n.base = from /\ Made(n)
  <2>1. ~Sealing(n) /\ ~Removes(n)
    BY <1>3 DEF Sealing, Removes
  <2>2. OpFits(n, c, S)
    BY <1>3, <2>1 DEF OpFits, Holds, Writers, Rereads
  <2> QED BY <1>3, <2>1, <2>2 DEF Agrees, WriterFits, Knows, Holds, Writers, Rereads
<1> QED BY <1>1, <1>2, <1>3 DEF Applied

\* What is sealed is something: edits are the operations of the wallet state.
LEMMA NotNone ==
  ASSUME NoneIsNeither
  PROVE  /\ \A s, k, c : [salt |-> s, key |-> k, state |-> c] # None
         /\ \A c : Vault!Migrate(c) # None
         /\ \A a : Vault!Fresh(a) # None
         /\ \A c, e : e \in Edits => Vault!Edited(c, e) # None
<1> DEFINE Fcn(f) == f = [z \in DOMAIN f |-> f[z]]
<1>1. \A f : Fcn(f) => f # None
  BY DEF NoneIsNeither
<1>2. \A s, k, c : [salt |-> s, key |-> k, state |-> c] # None
  BY <1>1
<1>3. \A c : Vault!Migrate(c) # None
  BY <1>1 DEF Vault!Migrate
<1>4. \A a : Vault!Fresh(a) # None
  BY <1>1 DEF Vault!Fresh
<1>5. \A c, e : e \in Edits => Vault!Edited(c, e) # None
  <2> SUFFICES ASSUME NEW c, NEW e \in Edits PROVE Vault!Edited(c, e) # None
    OBVIOUS
  <2> QED BY EditsOK, <1>1
       DEF Vault!Edited, Vault!AddAccount, Vault!SetActive, Vault!Forget, Vault!Update,
       Vault!Connect, Vault!Permit, Vault!Disconnect, Vault!Remember, Vault!ForgetRecipient,
       Vault!ClearRecents, Vault!UpsertContact, Vault!RemoveContact, Vault!SetNetwork
<1> QED BY <1>2, <1>3, <1>4, <1>5

\* An operation forgets its key on the way to clearing the stored one.
LEMMA DropKeeps ==
  ASSUME VaultInv, NEW r \in Realms, NEW at \in {"remove", "clear"}, op[r].at \notin Writers,
         Vault!Go(r, at), cache' = [cache EXCEPT ![r] = None],
         UNCHANGED <<blob, legacy, stored, ops, secret, content, raced>>
  PROVE  VaultInv'
<1> DEFINE o == op'[r]
<1>1. /\ DOMAIN op' = Realms /\ \A q \in Realms \ {r} : op'[q] = op[q]
      /\ DOMAIN o = Fields /\ o.at = at /\ o.saving = op[r].saving /\ o.edit = op[r].edit
  BY GoFields DEF Fields
<1>2. Turn(r) /\ cache'[r] = None
  BY <1>1 DEF VaultInv, Turn
<1>3. OpFits(op[r], cache[r], OldSalts)
  BY DEF VaultInv
<1> HIDE DEF o
<1>4. ~Sealing(o) /\ ~Removes(o)
  BY <1>1 DEF Sealing, Removes
<1>5. OpFits(o, None, OldSalts) /\ KeyFits(None, OldSalts)
  BY <1>1, <1>3, <1>4 DEF OpFits, KeyFits, Holds, Writers, Rereads
<1>6. \A b : Agrees(o, None, b, stored)
  BY <1>1 DEF Agrees, Knows, WriterFits, Holds, Writers, Rereads
<1> QED BY <1>2, <1>4, <1>5, <1>6, RealmMoves DEF o

LEMMA DecryptKeeps ==
  ASSUME NoneIsNeither, VaultInv, NEW r \in Realms, Vault!Decrypt(r)
  PROVE  VaultInv'
<1>1. /\ op[r].at = "decrypt"
      /\ UNCHANGED <<blob, legacy, stored, ops, secret, content, raced>>
  BY DEF Vault!Decrypt, Vault!history
<1>2. CASE op[r].blob.key = op[r].key
  <2> DEFINE from == op[r].blob
  <2>1. Vault!Apply(r, from, from.state) /\ cache' = cache
    BY <1>2 DEF Vault!Decrypt
  <2>2. OpFits(op[r], cache[r], OldSalts)
    BY DEF VaultInv
  <2>3. op[r].saving = FALSE
    BY <1>1, <2>2 DEF OpFits, Writers, Rereads
  <2>4. PICK n : op' = [op EXCEPT ![r] = n] /\ Applied(n, from)
    BY <2>1, <2>3, ApplyGives
  <2>5. Turn(r) /\ op'[r] = n /\ cache'[r] = cache[r]
    BY <2>1, <2>4 DEF VaultInv, Turn
  <2>6. BlobFits(from, OldSalts) /\ cache[r] \in {None, from.key}
    BY <1>1, <1>2, <2>2 DEF OpFits
  <2>7. KeyFits(cache[r], OldSalts)
    BY DEF VaultInv
  <2>8. /\ OpFits(n, cache[r], OldSalts) /\ ~Sealing(n) /\ ~Removes(n)
        /\ \A b, s : (b.key = from.key => s \in {None, b.key}) => Agrees(n, cache[r], b, s)
    BY <2>4, <2>6, AppliedFits
  <2>9. ASSUME ~raced, blob # None, blob.key = from.key PROVE stored \in {None, blob.key}
    <3>1. Agrees(op[r], cache[r], blob, stored)
      BY <2>9 DEF VaultInv
    <3> QED BY <1>1, <1>2, <2>9, <3>1 DEF Agrees, Knows, Holds
  <2>10. ~raced /\ blob # None => Agrees(n, cache[r], blob, stored)
    BY <2>8, <2>9
  <2> QED BY <1>1, <2>5, <2>7, <2>8, <2>10, RealmMoves
<1>3. CASE op[r].blob.key # op[r].key
  <2>1. Vault!Go(r, "remove") /\ cache' = [cache EXCEPT ![r] = None]
    BY <1>3 DEF Vault!Decrypt
  <2> QED BY <1>1, <2>1, DropKeeps DEF Writers, Rereads
<1> QED BY <1>2, <1>3

LEMMA OpenKeeps ==
  ASSUME VaultInv, NEW r \in Realms, Vault!Open(r)
  PROVE  VaultInv'
<1>1. /\ op[r].at = "open"
      /\ UNCHANGED <<blob, legacy, stored, cache, ops, secret, content, raced>>
  BY DEF Vault!Open, Vault!history
<1>2. CASE blob = None \/ blob.key # <<op[r].old, blob.salt>>
  <2>1. Vault!End(r)
    BY <1>2 DEF Vault!Open
  <2> QED BY <1>1, <2>1, EndKeeps DEF VaultInv
<1>3. CASE ~(blob = None \/ blob.key # <<op[r].old, blob.salt>>)
  <2> DEFINE o == [op[r] EXCEPT !.at = "save", !.key = blob.key, !.base = blob, !.state = blob.state]
  <2>1. DOMAIN op[r] = Fields /\ OpFits(op[r], cache[r], OldSalts) /\ BlobFits(blob, OldSalts)
    BY <1>3 DEF VaultInv, OpFits
  <2>2. op' = [op EXCEPT ![r] = o]
    BY <1>3, <2>1 DEF Vault!Open, VaultInv
  <2>3. /\ DOMAIN o = Fields /\ o.at = "save" /\ o.key = blob.key /\ o.base = blob
        /\ o.state = blob.state /\ o.does = op[r].does /\ o.saving = op[r].saving
        /\ o.edit = op[r].edit /\ o.new = op[r].new /\ o.no = op[r].no
    BY <2>1 DEF Fields
  <2>4. Turn(r) /\ op'[r] = o /\ cache'[r] = cache[r] /\ KeyFits(cache[r], OldSalts)
    BY <1>1, <2>2 DEF VaultInv, Turn
  <2> HIDE DEF o
  <2>5. ~Removes(o) /\ (Sealing(o) => Sealing(op[r]))
    BY <1>1, <2>1, <2>3 DEF Sealing, Removes, OpFits
  <2>6. OpFits(o, cache[r], OldSalts)
    BY <1>1, <2>1, <2>3, <2>5 DEF OpFits, BlobFits, Holds, Writers, Rereads
  <2>7. ASSUME ~raced PROVE Agrees(o, cache[r], blob, stored)
    <3>1. Agrees(op[r], cache[r], blob, stored)
      BY <1>3, <2>7 DEF VaultInv
    <3> QED BY <1>1, <2>3, <3>1 DEF Agrees, Knows, WriterFits, Holds, Writers, Rereads
  <2> QED BY <1>1, <2>3, <2>4, <2>5, <2>6, <2>7, RealmMoves
<1> QED BY <1>2, <1>3

LEMMA CacheKeyKeeps ==
  ASSUME VaultInv, NEW r \in Realms, Vault!CacheKey(r)
  PROVE  VaultInv'
<1> DEFINE o == op'[r]
<1>1. /\ op[r].at = "save" /\ cache' = [cache EXCEPT ![r] = op[r].key] /\ Vault!Go(r, "store")
      /\ UNCHANGED <<blob, legacy, stored, ops, secret, content, raced>>
  BY DEF Vault!CacheKey, Vault!history
<1>2. /\ DOMAIN op' = Realms /\ \A q \in Realms \ {r} : op'[q] = op[q]
      /\ DOMAIN o = Fields /\ o.at = "store"
      /\ \A z \in Fields \ {"at"} : o[z] = op[r][z]
  BY <1>1, GoFields
<1>3. /\ o.does = op[r].does /\ o.saving = op[r].saving /\ o.key = op[r].key /\ o.edit = op[r].edit
      /\ o.base = op[r].base /\ o.state = op[r].state /\ o.new = op[r].new /\ o.no = op[r].no
  BY <1>2 DEF Fields
<1>4. Turn(r) /\ cache'[r] = op[r].key
  BY <1>1, <1>2 DEF VaultInv, Turn
<1>5. OpFits(op[r], cache[r], OldSalts)
  BY DEF VaultInv
<1> HIDE DEF o
<1>6. (Sealing(o) => Sealing(op[r])) /\ (Removes(o) => Removes(op[r]))
  BY <1>1, <1>2, <1>3 DEF Sealing, Removes
<1>7. OpFits(o, op[r].key, OldSalts) /\ KeyFits(op[r].key, OldSalts)
  BY <1>1, <1>2, <1>3, <1>5, <1>6 DEF OpFits, KeyFits, Holds, Writers, Rereads
<1>8. \A b : Agrees(o, op[r].key, b, stored)
  BY <1>2 DEF Agrees, Knows, WriterFits, Holds, Writers, Rereads
<1> QED BY <1>1, <1>3, <1>4, <1>6, <1>7, <1>8, RealmMoves DEF o

LEMMA StoreKeyKeeps ==
  ASSUME NoneIsNeither, VaultInv, NEW r \in Realms, Vault!StoreKey(r)
  PROVE  VaultInv'
<1> DEFINE key == op[r].key
<1>1. /\ op[r].at = "store" /\ stored' = key
      /\ raced' = (raced \/ (blob # None /\ blob.key # key))
      /\ UNCHANGED <<blob, legacy, cache, ops, secret, content>>
  BY DEF Vault!StoreKey
<1>2. /\ OpFits(op[r], cache[r], OldSalts) /\ DOMAIN op[r] = Fields /\ KeyFits(cache[r], OldSalts)
      /\ DOMAIN op = Realms /\ DOMAIN cache = Realms
  BY DEF VaultInv, OpFits
<1>3. op[r].saving = FALSE /\ op[r].does \in {"unlock", "change", "seal"} /\ key[2] \in OldSalts
  BY <1>1, <1>2 DEF OpFits, Writers, Rereads
<1>4. raced => raced'
  BY <1>1
<1>5. KeyFits(stored', OldSalts)
  BY <1>1, <1>3 DEF KeyFits
<1>6. \E n : /\ op' = [op EXCEPT ![r] = n] /\ OpFits(n, cache[r], OldSalts)
             /\ (Sealing(n) => Sealing(op[r]) /\ n.no = op[r].no) /\ (Removes(n) => Removes(op[r]))
             /\ \A b : Agrees(n, cache[r], b, b.key)
  <2>1. CASE op[r].does = "seal"
    <3> DEFINE n == [op[r] EXCEPT !.at = "legacy"]
    <3>1. op' = [op EXCEPT ![r] = n]
      BY <2>1 DEF Vault!StoreKey, Vault!Go
    <3>2. DOMAIN n = Fields /\ n.at = "legacy" /\ n.saving = FALSE /\ n.edit = op[r].edit
      BY <1>2, <1>3 DEF Fields
    <3> HIDE DEF n
    <3>3. ~Sealing(n) /\ Removes(op[r])
      BY <1>1, <2>1, <3>2 DEF Sealing, Removes
    <3>4. OpFits(n, cache[r], OldSalts)
      BY <1>2, <3>2, <3>3 DEF OpFits, Holds, Writers, Rereads
    <3>5. \A b : Agrees(n, cache[r], b, b.key)
      BY <3>2 DEF Agrees, WriterFits, Rereads
    <3> QED BY <3>1, <3>3, <3>4, <3>5
  <2>2. CASE op[r].does = "change"
    <3> DEFINE n == [op[r] EXCEPT !.at = "seal"]
    <3>1. op' = [op EXCEPT ![r] = n]
      BY <2>2 DEF Vault!StoreKey, Vault!Go
    <3>2. /\ DOMAIN n = Fields /\ n.at = "seal" /\ n.saving = FALSE /\ n.edit = op[r].edit
          /\ n.does = "change" /\ n.no = op[r].no /\ n.new = op[r].new
          /\ n.base = op[r].base /\ n.state = op[r].state
      BY <1>2, <1>3, <2>2 DEF Fields
    <3> HIDE DEF n
    <3>3. ~Removes(n) /\ Sealing(op[r])
      BY <1>1, <2>2, <3>2 DEF Sealing, Removes
    <3>4. OpFits(n, cache[r], OldSalts)
      BY <1>1, <1>2, <2>2, <3>2, <3>3 DEF OpFits, Holds, Writers, Rereads
    <3>5. \A b : Agrees(n, cache[r], b, b.key)
      BY <3>2 DEF Agrees, WriterFits, Rereads
    <3> QED BY <3>1, <3>2, <3>3, <3>4, <3>5
  <2>3. CASE op[r].does = "unlock"
    <3> DEFINE from == op[r].base
    <3>1. Vault!Apply(r, from, op[r].state)
      BY <2>3 DEF Vault!StoreKey
    <3>2. /\ op[r].state = from.state /\ BlobFits(from, OldSalts)
          /\ cache[r] \in {None, from.key}
      BY <1>1, <1>2, <2>3 DEF OpFits
    <3>3. PICK n : op' = [op EXCEPT ![r] = n] /\ Applied(n, from)
      BY <1>3, <3>1, <3>2, ApplyGives
    <3>4. /\ OpFits(n, cache[r], OldSalts) /\ ~Sealing(n) /\ ~Removes(n)
          /\ \A b, s : (b.key = from.key => s \in {None, b.key}) => Agrees(n, cache[r], b, s)
      BY <3>2, <3>3, AppliedFits
    <3>5. \A b : Agrees(n, cache[r], b, b.key)
      BY <3>4
    <3> QED BY <3>3, <3>4, <3>5
  <2> QED BY <1>3, <2>1, <2>2, <2>3
<1>7. PICK n : /\ op' = [op EXCEPT ![r] = n] /\ OpFits(n, cache[r], OldSalts)
               /\ (Sealing(n) => Sealing(op[r]) /\ n.no = op[r].no) /\ (Removes(n) => Removes(op[r]))
               /\ \A b : Agrees(n, cache[r], b, b.key)
  BY <1>6
<1>8. Turn(r) /\ op'[r] = n /\ cache'[r] = cache[r]
  BY <1>1, <1>2, <1>7 DEF Turn
<1>9. ASSUME ~raced', blob # None, NEW q \in Realms
      PROVE  Agrees(op'[q], cache'[q], blob, stored')
  <2>1. stored' = blob.key /\ Agrees(op[q], cache[q], blob, stored)
    BY <1>1, <1>9 DEF VaultInv
  <2>2. CASE q = r
    BY <1>7, <1>8, <2>1, <2>2
  <2>3. CASE q # r
    BY <1>8, <2>1, <2>3 DEF Turn, Agrees
  <2> QED BY <2>2, <2>3
<1> HIDE DEF key
<1>10. ~raced' /\ blob # None => \A q \in Realms : Agrees(op'[q], cache'[q], blob, stored')
  BY <1>9
<1> QED BY <1>1, <1>2, <1>4, <1>5, <1>7, <1>8, <1>10, KeyMoves

LEMMA RemovesKeep ==
  ASSUME VaultInv, NEW r \in Realms,
         Vault!RemoveLegacy(r) \/ Vault!RemoveKey(r) \/ Vault!Close(r)
  PROVE  VaultInv'
<1>1. CASE Vault!RemoveLegacy(r)
  BY <1>1, EndKeeps DEF Vault!RemoveLegacy, Vault!history, VaultInv, Removes
<1>2. CASE Vault!RemoveKey(r)
  BY <1>2, EndKeeps DEF Vault!RemoveKey, Vault!history, VaultInv
<1>3. CASE Vault!Close(r)
  BY <1>3, EndKeeps DEF Vault!Close, Vault!history, VaultInv
<1> QED BY <1>1, <1>2, <1>3

LEMMA ClearCacheKeeps ==
  ASSUME VaultInv, NEW r \in Realms, Vault!ClearCache(r)
  PROVE  VaultInv'
BY DropKeeps DEF Vault!ClearCache, Vault!history, Writers, Rereads

\* A wiped wallet holds nothing that could be wrong.
LEMMA WipeKeeps ==
  ASSUME VaultInv, NEW r \in Realms, Vault!Wipe(r)
  PROVE  VaultInv'
<1> DEFINE o == op'[r]
<1>1. /\ op[r].at = "wipe" /\ cache' = [cache EXCEPT ![r] = None] /\ Vault!Go(r, "clear")
      /\ blob' = None /\ legacy' = None /\ secret' = None /\ content' = None
      /\ UNCHANGED <<stored, ops, raced>>
  BY DEF Vault!Wipe
<1>2. /\ DOMAIN op' = Realms /\ \A q \in Realms \ {r} : op'[q] = op[q]
      /\ DOMAIN o = Fields /\ o.at = "clear" /\ o.saving = op[r].saving /\ o.edit = op[r].edit
  BY <1>1, GoFields DEF Fields
<1>3. Turn(r) /\ cache'[r] = None
  BY <1>1, <1>2 DEF VaultInv, Turn
<1>4. OpFits(op[r], cache[r], OldSalts)
  BY DEF VaultInv
<1> HIDE DEF o
<1>5. ~Sealing(o)
  BY <1>2 DEF Sealing
<1>6. /\ OldSalts \subseteq OldSalts'
      /\ \A q \in Realms : Sealing(op'[q]) => op'[q].no \in 1..ops'
      /\ \A p, q \in Realms : Sealing(op'[p]) /\ Sealing(op'[q]) /\ op'[p].no = op'[q].no => p = q
  BY <1>1, <1>3, <1>5, SaltsGrow DEF o
<1> DEFINE T == OldSalts'
<1>7. OldSalts \subseteq T
  BY <1>6
<1> HIDE DEF T
<1>8. OpFits(o, None, T) /\ KeyFits(None, T)
  BY <1>1, <1>2, <1>4, <1>5 DEF OpFits, KeyFits, Holds, Writers, Rereads
<1>9. KeyFits(stored', T)
  <2>1. KeyFits(stored, OldSalts)
    BY DEF VaultInv
  <2> QED BY <1>1, <1>7, <2>1, FitsStay
<1>10. \A q \in Realms : OpFits(op'[q], cache'[q], T) /\ KeyFits(cache'[q], T)
  BY <1>3, <1>7, <1>8, OthersFit DEF o, T
<1>11. \A q \in Realms : OpFits(op[q], cache[q], OldSalts)' /\ KeyFits(cache[q], OldSalts)'
  BY <1>10 DEF T
<1>12. KeyFits(stored, OldSalts)'
  BY <1>9 DEF T
<1>13. ops' \in Nat /\ DOMAIN op' = Realms /\ DOMAIN cache' = Realms
  BY <1>1, <1>3 DEF VaultInv, Turn
<1>14. Vault!Opens(secret, content)'
  BY <1>1 DEF Vault!Opens
<1> QED BY <1>1, <1>6, <1>11, <1>12, <1>13, <1>14 DEF VaultInv

LEMMA OnChangedKeeps ==
  ASSUME VaultInv, NEW r \in Realms, Vault!OnChanged(r)
  PROVE  VaultInv'
<1>1. /\ cache' = [cache EXCEPT ![r] = None]
      /\ UNCHANGED <<blob, legacy, stored, op, ops, secret, content, raced>>
  BY DEF Vault!OnChanged, Vault!history
<1>2. Turn(r) /\ op'[r] = op[r] /\ cache'[r] = None
  BY <1>1 DEF VaultInv, Turn
<1>3. OpFits(op[r], None, OldSalts) /\ KeyFits(None, OldSalts)
  BY DEF VaultInv, OpFits, KeyFits
<1>4. ~raced /\ blob # None => Agrees(op[r], None, blob, stored)
  BY DEF VaultInv, Agrees, Knows
<1> QED BY <1>1, <1>2, <1>3, <1>4, RealmMoves

\* What an operation is when it starts.
Begun(o) ==
    /\ DOMAIN o = Fields /\ o.saving = FALSE /\ o.edit \in Edits \union {Vault!NoEdit}
    /\ o.at \in {"blob", "open", "seal", "clear", "wipe"}
    /\ o.at = "open" => o.does \in {"unlock", "change"}
    /\ o.at = "seal" => o.does = "seal" /\ o.state # None
    /\ Sealing(o) => o.new \in Passwords

LEMMA StartKeeps ==
  ASSUME VaultInv, NEW r \in Realms, NEW b, Begun(b), Vault!Start(r, b)
  PROVE  VaultInv'
<1> DEFINE o == [b EXCEPT !.no = ops + 1]
<1>1. /\ op[r] = Vault!Idle /\ op' = [op EXCEPT ![r] = o] /\ ops' = ops + 1
      /\ UNCHANGED <<blob, legacy, stored, cache, secret, content, raced>>
  BY DEF Vault!Start, Vault!history
<1>2. /\ DOMAIN o = Fields /\ o.no = ops + 1 /\ o.saving = FALSE /\ o.edit = b.edit /\ o.at = b.at
      /\ o.does = b.does /\ o.state = b.state /\ o.new = b.new
  BY DEF Begun, Fields
<1> HIDE DEF o
<1>3. Turn(r) /\ op'[r] = o /\ cache'[r] = cache[r]
  BY <1>1 DEF VaultInv, Turn
<1>4. ops \in Nat /\ \A q \in Realms : Sealing(op[q]) => op[q].no \in 1..ops
  BY DEF VaultInv
<1>5. OldSalts \subseteq OldSalts'
  <2> SUFFICES ASSUME NEW n \in OldSalts PROVE n \in OldSalts'
    OBVIOUS
  <2>1. n \in 0..ops /\ \A q \in Realms : Sealing(op[q]) => op[q].no # n
    BY DEF OldSalts
  <2>2. n \in 0..ops' /\ o.no # n
    BY <1>1, <1>2, <1>4, <2>1
  <2>3. \A q \in Realms : Sealing(op'[q]) => op'[q].no # n
    BY <1>3, <2>1, <2>2 DEF Turn
  <2> QED BY <2>2, <2>3 DEF OldSalts
<1>6. \A q \in Realms : Sealing(op'[q]) => op'[q].no \in 1..ops'
  <2> SUFFICES ASSUME NEW q \in Realms, Sealing(op'[q]) PROVE op'[q].no \in 1..ops'
    OBVIOUS
  <2>1. CASE q = r
    BY <1>1, <1>2, <1>3, <1>4, <2>1
  <2>2. CASE q # r
    <3>1. op[q].no \in 1..ops /\ op'[q] = op[q]
      BY <1>3, <1>4, <2>2 DEF Turn
    <3> QED BY <1>1, <1>4, <3>1
  <2> QED BY <2>1, <2>2
<1>7. \A p, q \in Realms : Sealing(op'[p]) /\ Sealing(op'[q]) /\ op'[p].no = op'[q].no => p = q
  <2>1. \A q \in Realms \ {r} : Sealing(op'[q]) => op'[q].no # o.no
    <3> SUFFICES ASSUME NEW q \in Realms \ {r}, Sealing(op'[q]) PROVE op'[q].no # o.no
      OBVIOUS
    <3>1. op[q].no \in 1..ops /\ op'[q] = op[q]
      BY <1>3, <1>4 DEF Turn
    <3> QED BY <1>2, <1>4, <3>1
  <2> QED BY <1>3, <2>1 DEF VaultInv, Turn
<1>8. ~Removes(o)
  BY <1>2 DEF Removes, Begun
<1> DEFINE T == OldSalts'
<1>9. OldSalts \subseteq T
  BY <1>5
<1> HIDE DEF T
<1>10. OpFits(o, cache[r], T)
  BY <1>2 DEF OpFits, Begun, Sealing, Holds, Writers, Rereads
<1>11. KeyFits(cache[r], T) /\ KeyFits(stored, T) /\ (blob # None => BlobFits(blob, T))
  <2>1. /\ KeyFits(cache[r], OldSalts) /\ KeyFits(stored, OldSalts)
        /\ blob # None => BlobFits(blob, OldSalts)
    BY DEF VaultInv
  <2> QED BY <1>9, <2>1, FitsStay
<1>12. \A q \in Realms : OpFits(op'[q], cache'[q], T) /\ KeyFits(cache'[q], T)
  BY <1>3, <1>9, <1>10, <1>11, OthersFit DEF T
<1>13. \A q \in Realms : OpFits(op[q], cache[q], OldSalts)' /\ KeyFits(cache[q], OldSalts)'
  BY <1>12 DEF T
<1>14. KeyFits(stored, OldSalts)' /\ (blob' # None => BlobFits(blob, OldSalts)')
  BY <1>1, <1>11 DEF T
<1>15. ops' \in Nat /\ DOMAIN op' = Realms /\ DOMAIN cache' = Realms
  BY <1>1, <1>3, <1>4 DEF Turn
<1>16. secret' = None /\ legacy' # None => \A q \in Realms : ~Removes(op'[q])
  BY <1>1, <1>3, <1>8 DEF VaultInv, Turn
<1>17. ~raced' => Vault!Opens(secret, content)' /\ (secret' # None => content' # None)
  BY <1>1 DEF VaultInv, Vault!Opens
<1>18. ASSUME ~raced, blob # None, NEW q \in Realms PROVE Agrees(op'[q], cache'[q], blob, stored)
  <2>1. Agrees(op[q], cache[q], blob, stored)
    BY <1>18 DEF VaultInv
  <2>2. CASE q = r
    <3>1. WriterFits(o, blob)
      BY <1>2 DEF Begun, WriterFits, Rereads
    <3>2. op[r].at = "end" /\ o.at \in {"blob", "open", "seal", "clear", "wipe"}
      BY <1>1, <1>2 DEF Begun, Vault!Idle
    <3>3. Knows(o, cache[r], blob.key) => Knows(op[r], cache[r], blob.key)
      BY <3>2 DEF Knows, Holds, Writers, Rereads
    <3> QED BY <1>3, <2>1, <2>2, <3>1, <3>3 DEF Agrees
  <2>3. CASE q # r
    BY <1>3, <2>1, <2>3 DEF Turn
  <2> QED BY <2>2, <2>3
<1>19. ~raced' /\ blob' # None => \A q \in Realms : Agrees(op'[q], cache'[q], blob', stored')
  BY <1>1, <1>18
<1> QED BY <1>6, <1>7, <1>13, <1>14, <1>15, <1>16, <1>17, <1>19 DEF VaultInv

LEMMA BeginsKeep ==
  ASSUME NoneIsNeither, VaultInv, NEW r \in Realms, Vault!Begins(r)
  PROVE  VaultInv'
<1> USE DEF Begun, Sealing, Fields, Vault!Idle
<1>1. CASE Vault!Look(r)
  <2> DEFINE o == [Vault!Idle EXCEPT !.does = "edit", !.at = "blob"]
  <2>1. Vault!Start(r, o)
    BY <1>1 DEF Vault!Look
  <2>2. Begun(o)
    OBVIOUS
  <2> HIDE DEF o
  <2> QED BY <2>1, <2>2, StartKeeps
<1>2. CASE Vault!Edit(r)
  <2>1. PICK e \in Edits :
           Vault!Start(r, [Vault!Idle EXCEPT !.does = "edit", !.edit = e, !.at = "blob"])
    BY <1>2 DEF Vault!Edit
  <2> DEFINE o == [Vault!Idle EXCEPT !.does = "edit", !.edit = e, !.at = "blob"]
  <2>2. Begun(o)
    OBVIOUS
  <2> QED BY <2>1, <2>2, StartKeeps
<1>3. CASE Vault!Unlock(r)
  <2>1. PICK w \in Passwords :
           Vault!Start(r, [Vault!Idle EXCEPT !.does = "unlock", !.old = w, !.at = "open"])
    BY <1>3 DEF Vault!Unlock
  <2> DEFINE o == [Vault!Idle EXCEPT !.does = "unlock", !.old = w, !.at = "open"]
  <2>2. Begun(o)
    OBVIOUS
  <2> QED BY <2>1, <2>2, StartKeeps
<1>4. CASE Vault!ChangePassword(r)
  <2>1. PICK w \in Passwords, n \in Passwords :
           Vault!Start(r, [Vault!Idle EXCEPT !.does = "change", !.old = w, !.new = n, !.at = "open"])
    BY <1>4 DEF Vault!ChangePassword
  <2> DEFINE o == [Vault!Idle EXCEPT !.does = "change", !.old = w, !.new = n, !.at = "open"]
  <2>2. Begun(o)
    OBVIOUS
  <2> QED BY <2>1, <2>2, StartKeeps
<1>5. CASE Vault!SealLegacy(r)
  <2>1. PICK n \in Passwords :
           Vault!Start(r, [Vault!Idle EXCEPT !.does = "seal", !.new = n, !.at = "seal",
                                             !.state = Vault!Migrate(legacy)])
    BY <1>5 DEF Vault!SealLegacy
  <2> DEFINE o == [Vault!Idle EXCEPT !.does = "seal", !.new = n, !.at = "seal",
                                     !.state = Vault!Migrate(legacy)]
  <2>2. Begun(o)
    BY NotNone
  <2> QED BY <2>1, <2>2, StartKeeps
<1>6. CASE Vault!CompleteOnboarding(r)
  <2>1. PICK n \in Passwords, a \in KAccounts \ Discontinued :
           Vault!Start(r, [Vault!Idle EXCEPT !.does = "seal", !.new = n, !.at = "seal",
                                             !.state = Vault!Fresh(a)])
    BY <1>6 DEF Vault!CompleteOnboarding
  <2> DEFINE o == [Vault!Idle EXCEPT !.does = "seal", !.new = n, !.at = "seal",
                                     !.state = Vault!Fresh(a)]
  <2>2. Begun(o)
    BY NotNone
  <2> QED BY <2>1, <2>2, StartKeeps
<1>7. CASE Vault!Lock(r)
  <2> DEFINE o == [Vault!Idle EXCEPT !.does = "lock", !.at = "clear"]
  <2>1. Vault!Start(r, o)
    BY <1>7 DEF Vault!Lock
  <2>2. Begun(o)
    OBVIOUS
  <2> HIDE DEF o
  <2> QED BY <2>1, <2>2, StartKeeps
<1>8. CASE Vault!Reset(r)
  <2> DEFINE o == [Vault!Idle EXCEPT !.does = "wipe", !.at = "wipe"]
  <2>1. Vault!Start(r, o)
    BY <1>8 DEF Vault!Reset
  <2>2. Begun(o)
    OBVIOUS
  <2> HIDE DEF o
  <2> QED BY <2>1, <2>2, StartKeeps
<1> QED BY <1>1, <1>2, <1>3, <1>4, <1>5, <1>6, <1>7, <1>8 DEF Vault!Begins

\* A new seal has a key that no realm can know yet.
LEMMA SealKeeps ==
  ASSUME NoneIsNeither, VaultInv, NEW r \in Realms, Vault!Seal(r)
  PROVE  VaultInv'
<1> DEFINE no == op[r].no
           key == <<op[r].new, no>>
           o == [op[r] EXCEPT !.at = "save", !.key = key, !.does = "seal"]
<1>1. /\ op[r].at = "seal" /\ blob' = Vault!Sealed(key, op[r].state)
      /\ op' = [op EXCEPT ![r] = o] /\ secret' = op[r].new
      /\ content' = IF op[r].does = "seal" THEN op[r].state ELSE content
      /\ raced' = (raced \/ (op[r].does = "change" /\ blob # op[r].base))
      /\ UNCHANGED <<legacy, stored, cache, ops>>
  BY DEF Vault!Seal, VaultInv
<1>2. OpFits(op[r], cache[r], OldSalts) /\ DOMAIN op[r] = Fields /\ KeyFits(cache[r], OldSalts)
  BY DEF VaultInv, OpFits
<1>3. Sealing(op[r]) /\ no \in 1..ops /\ op[r].new \in Passwords /\ op[r].saving = FALSE
  BY <1>1, <1>2 DEF VaultInv, Sealing, OpFits, Writers, Rereads
<1>4. key[1] = op[r].new /\ key[2] = no
  OBVIOUS
<1>5. /\ blob'.salt = no /\ blob'.key = key /\ blob'.state = op[r].state
      /\ blob' = [salt |-> blob'.salt, key |-> blob'.key, state |-> blob'.state]
  BY <1>1, <1>4 DEF Vault!Sealed
<1> HIDE DEF key
<1>6. /\ DOMAIN o = Fields /\ o.at = "save" /\ o.key = key /\ o.does = "seal" /\ o.saving = FALSE
      /\ o.edit = op[r].edit
  BY <1>2, <1>3 DEF Fields
<1> HIDE DEF o
<1>7. Turn(r) /\ op'[r] = o /\ cache' = cache
  BY <1>1 DEF VaultInv, Turn
<1>8. ~Sealing(o)
  BY <1>6 DEF Sealing
<1>9. /\ OldSalts \subseteq OldSalts'
      /\ \A q \in Realms : Sealing(op'[q]) => op'[q].no \in 1..ops'
      /\ \A p, q \in Realms : Sealing(op'[p]) /\ Sealing(op'[q]) /\ op'[p].no = op'[q].no => p = q
  BY <1>1, <1>7, <1>8, SaltsGrow
<1>10. no \in OldSalts'
  <2>1. \A q \in Realms : Sealing(op'[q]) => op'[q].no # no
    BY <1>3, <1>7, <1>8 DEF VaultInv, Turn
  <2>2. no \in 0..ops'
    BY <1>1, <1>3 DEF VaultInv
  <2> QED BY <2>1, <2>2 DEF OldSalts
<1>11. no \notin OldSalts
  BY <1>3 DEF OldSalts
<1> DEFINE T == OldSalts'
<1>12. OldSalts \subseteq T /\ no \in T
  BY <1>9, <1>10
<1> HIDE DEF T
<1>13. OpFits(o, cache[r], T)
  BY <1>2, <1>4, <1>6, <1>8, <1>12 DEF OpFits, Holds, Writers, Rereads
<1>14. KeyFits(cache[r], T) /\ KeyFits(stored', T) /\ BlobFits(blob', T)
  <2>1. KeyFits(cache[r], OldSalts) /\ KeyFits(stored, OldSalts)
    BY DEF VaultInv
  <2>2. KeyFits(cache[r], T) /\ KeyFits(stored, T)
    BY <1>12, <2>1, FitsStay
  <2>3. BlobFits(blob', T)
    BY <1>4, <1>5, <1>12 DEF BlobFits
  <2> QED BY <1>1, <2>2, <2>3
<1>15. \A q \in Realms : OpFits(op'[q], cache'[q], T) /\ KeyFits(cache'[q], T)
  BY <1>7, <1>12, <1>13, <1>14, OthersFit DEF T
<1>16. \A q \in Realms : OpFits(op[q], cache[q], OldSalts)' /\ KeyFits(cache[q], OldSalts)'
  BY <1>15 DEF T
<1>17. KeyFits(stored, OldSalts)' /\ (blob' # None => BlobFits(blob, OldSalts)')
  BY <1>14 DEF T
<1>18. ops' \in Nat /\ DOMAIN op' = Realms /\ DOMAIN cache' = Realms
  BY <1>1, <1>7 DEF VaultInv, Turn
<1>19. secret' # None
  BY <1>1, <1>3 DEF NoneIsNeither
<1>20. blob' # None
  BY <1>5 DEF NoneIsNeither
<1>21. ASSUME ~raced' PROVE content' = op[r].state /\ content' # None
  <2>1. CASE op[r].does = "seal"
    BY <1>1, <1>2, <2>1 DEF OpFits
  <2>2. CASE op[r].does = "change"
    <3>1. ~raced /\ blob = op[r].base /\ op[r].state = blob.state /\ BlobFits(blob, OldSalts)
      BY <1>1, <1>2, <1>21, <2>2 DEF OpFits
    <3>2. blob # None
      BY <3>1 DEF BlobFits, NoneIsNeither
    <3>3. secret # None /\ blob.state = content /\ content # None
      BY <3>1, <3>2 DEF VaultInv, Vault!Opens
    <3> QED BY <1>1, <2>2, <3>1, <3>3
  <2> QED BY <1>1, <1>2, <2>1, <2>2 DEF OpFits
<1>22. ~raced' => Vault!Opens(secret, content)' /\ (secret' # None => content' # None)
  <2>1. secret' = key[1] /\ key = <<key[1], blob'.salt>>
    BY <1>1, <1>4, <1>5 DEF key
  <2> QED BY <1>5, <1>19, <1>20, <1>21, <2>1 DEF Vault!Opens
<1>23. ASSUME NEW q \in Realms, NEW z, NEW c, OpFits(z, c, OldSalts), KeyFits(c, OldSalts)
       PROVE  Agrees(z, c, blob', stored')
  <2>1. WriterFits(z, blob')
    BY <1>4, <1>5, <1>11, <1>23 DEF WriterFits, OpFits, BlobFits, Writers, Rereads
  <2>2. ~Knows(z, c, key)
    BY <1>4, <1>11, <1>23 DEF Knows, OpFits, KeyFits, BlobFits, Writers, Rereads, Holds
  <2> QED BY <1>5, <2>1, <2>2 DEF Agrees
<1>24. Agrees(o, cache[r], blob', stored')
  <2>1. WriterFits(o, blob')
    BY <1>6 DEF WriterFits, Rereads
  <2>2. ~Knows(o, cache[r], key)
    BY <1>2, <1>4, <1>6, <1>11 DEF Knows, KeyFits, Writers, Rereads, Holds
  <2> QED BY <1>5, <2>1, <2>2 DEF Agrees
<1>25. \A q \in Realms : Agrees(op'[q], cache'[q], blob', stored')
  <2> SUFFICES ASSUME NEW q \in Realms, q # r PROVE Agrees(op'[q], cache'[q], blob', stored')
    BY <1>7, <1>24
  <2>1. OpFits(op[q], cache[q], OldSalts) /\ KeyFits(cache[q], OldSalts)
    BY DEF VaultInv
  <2> QED BY <1>7, <1>23, <2>1 DEF Turn
<1>26. secret' = None /\ legacy' # None => \A q \in Realms : ~Removes(op'[q])
  BY <1>19
<1> QED BY <1>9, <1>16, <1>17, <1>18, <1>22, <1>25, <1>26 DEF VaultInv

LEMMA NoEditKeeps == \A c : Vault!Edited(c, Vault!NoEdit) = c
BY DEF Vault!Edited, Vault!NoEdit

\* A write that raced with no other has the salt and the key of the blob it
\* replaces, and the state that the history has.
LEMMA WriteKeeps ==
  ASSUME NoneIsNeither, VaultInv, NEW r \in Realms, Vault!Write(r)
  PROVE  VaultInv'
<1> DEFINE z == op[r]
           edit == IF z.saving THEN z.edit ELSE Vault!NoEdit
           next == [salt |-> z.blob.salt, key |-> z.key, state |-> z.state]
<1>1. /\ z.at = "write" /\ blob' = next /\ raced' = (raced \/ blob # z.base)
      /\ content' = IF content = None THEN None
                    ELSE Vault!Edited(IF content.old THEN Vault!Migrate(content) ELSE content, edit)
      /\ IF z.saving THEN Vault!End(r) ELSE Vault!Apply(r, next, z.state)
      /\ UNCHANGED <<legacy, stored, cache, ops, secret>>
  BY DEF Vault!Write
<1>2. OpFits(z, cache[r], OldSalts) /\ DOMAIN z = Fields /\ KeyFits(cache[r], OldSalts)
  BY DEF VaultInv, OpFits
<1>3. /\ BlobFits(z.blob, OldSalts) /\ BlobFits(z.base, OldSalts) /\ Made(z) /\ z.saving \in BOOLEAN
      /\ z.key[2] \in OldSalts /\ (z.saving => z.edit \in Edits) /\ cache[r] \in {None, z.key}
  BY <1>1, <1>2 DEF OpFits, Holds, Writers, Rereads
<1>4. /\ next.salt = z.blob.salt /\ next.key = z.key /\ next.state = z.state
      /\ next = [salt |-> next.salt, key |-> next.key, state |-> next.state]
  OBVIOUS
<1> HIDE DEF next
<1>5. next # None
  BY <1>4 DEF NoneIsNeither
<1>6. BlobFits(next, OldSalts)
  BY <1>3, <1>4 DEF BlobFits
<1>7. ASSUME ~raced'
      PROVE  /\ blob # None /\ next.salt = blob.salt /\ next.key = blob.key
             /\ blob.key = <<secret, blob.salt>> /\ secret # None
             /\ content' = z.state /\ content' # None
             /\ \A q \in Realms : Agrees(op[q], cache[q], blob, stored)
  <2>1. ~raced /\ blob = z.base
    BY <1>1, <1>7
  <2>2. blob # None
    BY <1>3, <2>1 DEF BlobFits, NoneIsNeither
  <2>3. \A q \in Realms : Agrees(op[q], cache[q], blob, stored)
    BY <2>1, <2>2 DEF VaultInv
  <2>4. next.salt = blob.salt /\ next.key = blob.key
    BY <1>1, <1>4, <2>1, <2>3 DEF Agrees, WriterFits, Rereads
  <2>5. secret # None /\ blob.key = <<secret, blob.salt>> /\ blob.state = content /\ content # None
    BY <2>1, <2>2 DEF VaultInv, Vault!Opens
  <2>6. CASE z.saving
    <3>1. ~content.old /\ z.state = Vault!Edited(content, z.edit)
      BY <1>3, <2>1, <2>5, <2>6 DEF Made
    <3>2. content' = z.state
      BY <1>1, <2>5, <2>6, <3>1
    <3> QED BY <1>3, <2>2, <2>3, <2>4, <2>5, <2>6, <3>1, <3>2, NotNone
  <2>7. CASE ~z.saving
    <3>1. content.old /\ z.state = Vault!Migrate(content)
      BY <1>3, <2>1, <2>5, <2>7 DEF Made
    <3>2. content' = z.state
      BY <1>1, <2>5, <2>7, <3>1, NoEditKeeps
    <3> QED BY <2>2, <2>3, <2>4, <2>5, <3>1, <3>2, NotNone
  <2> QED BY <2>6, <2>7
<1>8. \E n : op' = [op EXCEPT ![r] = n] /\ Applied(n, next)
  <2>1. CASE z.saving
    BY <1>1, <2>1 DEF Vault!End, Applied
  <2>2. CASE ~z.saving
    <3>1. z.saving = FALSE
      BY <1>3, <2>2
    <3> QED BY <1>1, <1>4, <2>2, <3>1, ApplyGives
  <2> QED BY <2>1, <2>2
<1>9. PICK n : op' = [op EXCEPT ![r] = n] /\ Applied(n, next)
  BY <1>8
<1>10. Turn(r) /\ op'[r] = n /\ cache' = cache
  BY <1>1, <1>9 DEF VaultInv, Turn
<1>11. cache[r] \in {None, next.key}
  BY <1>3, <1>4
<1>12. /\ OpFits(n, cache[r], OldSalts) /\ ~Sealing(n) /\ ~Removes(n)
       /\ \A b, s : (b.key = next.key => s \in {None, b.key}) => Agrees(n, cache[r], b, s)
  BY <1>6, <1>9, <1>11, AppliedFits
<1>13. /\ OldSalts \subseteq OldSalts'
       /\ \A q \in Realms : Sealing(op'[q]) => op'[q].no \in 1..ops'
       /\ \A p, q \in Realms : Sealing(op'[p]) /\ Sealing(op'[q]) /\ op'[p].no = op'[q].no => p = q
  BY <1>1, <1>10, <1>12, SaltsGrow
<1> DEFINE T == OldSalts'
<1>14. OldSalts \subseteq T
  BY <1>13
<1> HIDE DEF T, z
<1>15. OpFits(n, cache[r], T) /\ KeyFits(cache[r], T) /\ KeyFits(stored, T) /\ BlobFits(next, T)
  <2>1. KeyFits(stored, OldSalts)
    BY DEF VaultInv
  <2> QED BY <1>2, <1>6, <1>12, <1>14, <2>1, FitsStay
<1>16. \A q \in Realms : OpFits(op'[q], cache'[q], T) /\ KeyFits(cache'[q], T)
  BY <1>10, <1>14, <1>15, OthersFit DEF T
<1>17. \A q \in Realms : OpFits(op[q], cache[q], OldSalts)' /\ KeyFits(cache[q], OldSalts)'
  BY <1>16 DEF T
<1>18. KeyFits(stored, OldSalts)' /\ (blob' # None => BlobFits(blob, OldSalts)')
  BY <1>1, <1>15 DEF T
<1>19. ops' \in Nat /\ DOMAIN op' = Realms /\ DOMAIN cache' = Realms
  BY <1>1, <1>10 DEF VaultInv, Turn
<1>20. secret' = None /\ legacy' # None => \A q \in Realms : ~Removes(op'[q])
  BY <1>1, <1>10, <1>12 DEF VaultInv, Turn
<1>21. ~raced' => Vault!Opens(secret, content)' /\ (secret' # None => content' # None)
  <2> SUFFICES ASSUME ~raced' PROVE Vault!Opens(secret, content)' /\ content' # None
    OBVIOUS
  <2>1. /\ next.salt = blob.salt /\ next.key = blob.key /\ blob.key = <<secret, blob.salt>>
        /\ secret # None /\ content' = z.state /\ content' # None
    BY <1>7
  <2>2. next.key = <<secret, next.salt>> /\ next.state = content'
    BY <1>4, <2>1
  <2> QED BY <1>1, <1>5, <2>1, <2>2 DEF Vault!Opens
<1>22. ASSUME ~raced', NEW q \in Realms PROVE Agrees(op'[q], cache'[q], next, stored)
  <2>1. /\ next.salt = blob.salt /\ next.key = blob.key
        /\ Agrees(op[q], cache[q], blob, stored) /\ Agrees(z, cache[r], blob, stored)
    BY <1>7, <1>22 DEF z
  <2>2. CASE q = r
    <3>1. stored \in {None, next.key}
      BY <1>1, <1>4, <2>1 DEF Agrees, Knows, Holds
    <3>2. Agrees(n, cache[r], next, stored)
      BY <1>12, <3>1
    <3> QED BY <1>10, <2>2, <3>2
  <2>3. CASE q # r
    <3>1. Agrees(op[q], cache[q], next, stored)
      BY <2>1 DEF Agrees, WriterFits, Knows
    <3> QED BY <1>10, <2>3, <3>1 DEF Turn
  <2> QED BY <2>2, <2>3
<1>23. ~raced' /\ blob' # None => \A q \in Realms : Agrees(op'[q], cache'[q], blob', stored')
  BY <1>1, <1>22
<1> QED BY <1>13, <1>17, <1>18, <1>19, <1>20, <1>21, <1>23 DEF VaultInv

LEMMA VaultStarts == NoneIsNeither /\ Vault!Init => VaultInv
<1> SUFFICES ASSUME NoneIsNeither, Vault!Init PROVE VaultInv
  OBVIOUS
<1> USE IdleOp
<1>1. /\ op = [r \in Realms |-> Vault!Idle] /\ cache = [r \in Realms |-> None]
      /\ ops = 0 /\ raced = FALSE
  BY DEF Vault!Init
<1>2. ops \in Nat /\ DOMAIN op = Realms /\ DOMAIN cache = Realms
  BY <1>1
<1>3. \A r \in Realms : op[r] = Vault!Idle /\ cache[r] = None
  BY <1>1
<1>4. OldSalts = {0}
  BY <1>1, <1>3 DEF OldSalts
<1>5. \A r \in Realms : OpFits(op[r], cache[r], OldSalts) /\ KeyFits(cache[r], OldSalts)
  BY <1>3 DEF KeyFits
<1>6. \A r \in Realms : ~Sealing(op[r]) /\ ~Removes(op[r])
  BY <1>3
<1>7. \A b, s : \A r \in Realms : Agrees(op[r], cache[r], b, s)
  BY <1>3
<1>8. PICK a \in KAccounts \ Discontinued, w \in Passwords, isOld \in BOOLEAN :
          /\ content = [Vault!Fresh(a) EXCEPT !.accounts = <<a>> \o Vault!SetToSeq(Discontinued),
                                              !.old = isOld]
          /\ \/ /\ blob = Vault!Sealed(<<w, 0>>, content)
                /\ legacy = None
                /\ secret = w
                /\ stored \in {None, <<w, 0>>}
             \/ /\ blob = None
                /\ legacy = content
                /\ secret = None
                /\ stored = None
  BY DEF Vault!Init
<1>9. content # None
  BY <1>8 DEF NoneIsNeither
<1>10. CASE /\ blob = Vault!Sealed(<<w, 0>>, content)
            /\ secret = w
            /\ stored \in {None, <<w, 0>>}
  <2>1. /\ blob = [salt |-> blob.salt, key |-> blob.key, state |-> blob.state]
        /\ blob.salt = 0 /\ blob.key = <<w, 0>> /\ blob.state = content
    BY <1>10 DEF Vault!Sealed
  <2>2. BlobFits(blob, OldSalts)
    BY <1>4, <2>1 DEF BlobFits
  <2>3. KeyFits(stored, OldSalts)
    BY <1>4, <1>10 DEF KeyFits
  <2>4. secret # None /\ blob # None
    BY <1>10, <2>1 DEF NoneIsNeither
  <2>5. Vault!Opens(secret, content)
    BY <1>10, <2>1, <2>4 DEF Vault!Opens
  <2> QED BY <1>2, <1>5, <1>6, <1>7, <1>9, <2>2, <2>3, <2>4, <2>5 DEF VaultInv
<1>11. CASE blob = None /\ legacy = content /\ secret = None /\ stored = None
  BY <1>2, <1>5, <1>6, <1>7, <1>11 DEF VaultInv, KeyFits, Vault!Opens
<1> QED BY <1>8, <1>10, <1>11

\* The inductive invariant of the sealed wallet (crypto/keystore.ts and the
\* operations of state/wallet-store.ts): the salt of a seal yet to come is new,
\* so no realm knows its key; and while the blob is the one an operation was
\* made from, what the operation writes has the salt and the key of that blob.
THEOREM VaultInductive ==
  ASSUME NoneIsNeither
  PROVE  /\ Vault!Init => VaultInv
         /\ VaultInv /\ [Vault!Next]_(Vault!vars) => VaultInv'
<1>1. Vault!Init => VaultInv
  BY VaultStarts
<1>2. ASSUME VaultInv, Vault!Next PROVE VaultInv'
  <2>1. PICK r \in Realms :
           Vault!Begins(r) \/ Vault!Continues(r) \/ Vault!OnChanged(r) \/ Vault!Close(r)
    BY <1>2 DEF Vault!Next
  <2>2. CASE Vault!Begins(r)
    BY <1>2, <2>2, BeginsKeep
  <2>3. CASE Vault!Continues(r)
    BY <1>2, <2>3, ReadBlobKeeps, LoadKeyKeeps, ImportKeyKeeps, DecryptKeeps, WriteKeeps, OpenKeeps,
       SealKeeps, CacheKeyKeeps, StoreKeyKeeps, RemovesKeep, ClearCacheKeeps, WipeKeeps
       DEF Vault!Continues
  <2>4. CASE Vault!OnChanged(r)
    BY <1>2, <2>4, OnChangedKeeps
  <2>5. CASE Vault!Close(r)
    BY <1>2, <2>5, RemovesKeep
  <2> QED BY <2>1, <2>2, <2>3, <2>4, <2>5
<1>3. ASSUME VaultInv, UNCHANGED Vault!vars PROVE VaultInv'
  <2>1. UNCHANGED <<blob, legacy, stored, cache, op, ops, secret, content, raced>>
    BY <1>3 DEF Vault!vars
  <2>2. OldSalts' = OldSalts
    BY <2>1 DEF OldSalts
  <2> QED BY <1>3, <2>1, <2>2 DEF VaultInv, Vault!Opens
<1> QED BY <1>1, <1>2, <1>3

LEMMA VaultInvariance ==
  ASSUME NoneIsNeither
  PROVE  Vault!Spec => []VaultInv
<1>1. Vault!Init => VaultInv
  BY VaultInductive
<1>2. VaultInv /\ [Vault!Next]_(Vault!vars) => VaultInv'
  BY VaultInductive
<1> QED BY <1>1, <1>2, PTL DEF Vault!Spec

\* Unless two operations wrote over one another, the wallet opens with the
\* password set last and holds every change, whatever was cut short at any
\* await by a popup that closed or a service worker that stopped.
THEOREM VaultOpens ==
  ASSUME NoneIsNeither
  PROVE  Vault!Spec => []OpensUnlessRaced
<1>1. VaultInv => OpensUnlessRaced
  BY DEF VaultInv, OpensUnlessRaced, Vault!OpensUnlessRaced
<1> QED BY <1>1, VaultInvariance, PTL

-----------------------------------------------------------------------------
(* Sums of entries, as getRecentSpend adds them up *)

\* Of finite sets there is a smallest.
LEMMA SmallestSet ==
  ASSUME NEW C, C # {}, \A s \in C : IsFiniteSet(s)
  PROVE  \E s \in C : \A t \in C : Cardinality(s) <= Cardinality(t)
<1> DEFINE N == {Cardinality(s) : s \in C}
<1>1. \A s \in C : Cardinality(s) \in Nat
  BY FS_CardinalityType
<1>2. N \subseteq Nat /\ N # {}
  BY <1>1
<1>3. PICK k \in N : \A j \in N : ~(<<j, k>> \in OpToRel(<, Nat))
  BY <1>2, NatLessThanWellFounded, WFMin
<1>4. PICK s \in C : k = Cardinality(s)
  OBVIOUS
<1>5. ASSUME NEW t \in C PROVE Cardinality(s) <= Cardinality(t)
  <2>1. Cardinality(t) \in N /\ Cardinality(t) \in Nat /\ k \in Nat
    BY <1>1, <1>4
  <2>2. ~(Cardinality(t) < k)
    BY <1>3, <2>1 DEF OpToRel
  <2> QED BY <1>4, <2>1, <2>2
<1> QED BY <1>5

\* A set less one of its elements.
LEMMA OneLess ==
  ASSUME NEW s, IsFiniteSet(s), NEW e \in s
  PROVE  /\ IsFiniteSet(s \ {e})
         /\ Cardinality(s \ {e}) = Cardinality(s) - 1
         /\ Cardinality(s) \in Nat /\ Cardinality(s \ {e}) \in Nat
         /\ ~(Cardinality(s) <= Cardinality(s \ {e}))
<1>1. IsFiniteSet(s \ {e}) /\ Cardinality(s \ {e}) = Cardinality(s) - 1
  BY FS_RemoveElement
<1>2. Cardinality(s) \in Nat /\ Cardinality(s \ {e}) \in Nat
  BY <1>1, FS_CardinalityType
<1> QED BY <1>1, <1>2

Some(s) == CHOOSE e \in s : TRUE

LEMMA SomeIsIn ==
  ASSUME NEW s, s # {}
  PROVE  Some(s) \in s
BY DEF Some

\* What SumOf folds, as a function of the subsets of a set.
SumTurn(S, g) ==
  [s \in SUBSET S |-> IF s = {} THEN 0 ELSE Some(s).amount + g[s \ {Some(s)}]]

\* A solution for the subsets of up to k - 1 elements extends to those of k.
LEMMA SumExists ==
  ASSUME NEW S, IsFiniteSet(S)
  PROVE  \E g : g = SumTurn(S, g)
<1> DEFINE Solves(g, k) ==
             /\ g = [s \in SUBSET S |-> g[s]]
             /\ \A s \in SUBSET S : Cardinality(s) <= k => g[s] = SumTurn(S, g)[s]
           Bad == {k \in Nat : ~ \E g : Solves(g, k)}
<1>0. \A s \in SUBSET S : IsFiniteSet(s) /\ Cardinality(s) \in Nat
  BY FS_Subset, FS_CardinalityType
<1>1. Bad = {}
  <2> SUFFICES ASSUME Bad # {} PROVE FALSE
    OBVIOUS
  <2>1. PICK k \in Bad : \A j \in Bad : ~(<<j, k>> \in OpToRel(<, Nat))
    <3>1. Bad \subseteq Nat
      OBVIOUS
    <3> HIDE DEF Bad
    <3> QED BY <3>1, NatLessThanWellFounded, WFMin
  <2>2. k \in Nat /\ ~ \E g : Solves(g, k)
    OBVIOUS
  <2>3. k # 0
    <3> SUFFICES ASSUME k = 0 PROVE FALSE
      OBVIOUS
    <3> DEFINE g == [s \in SUBSET S |-> 0]
    <3>1. g = [s \in SUBSET S |-> g[s]]
      OBVIOUS
    <3>2. ASSUME NEW s \in SUBSET S, Cardinality(s) <= 0
          PROVE  g[s] = SumTurn(S, g)[s]
      <4>1. s = {}
        BY <1>0, <3>2, FS_EmptySet
      <4> QED BY <4>1 DEF SumTurn
    <3> HIDE DEF g
    <3>3. Solves(g, 0)
      BY <3>1, <3>2
    <3> QED BY <2>2, <3>3
  <2>4. k - 1 \in Nat /\ k - 1 \notin Bad
    <3>1. k - 1 \in Nat /\ k - 1 < k
      BY <2>2, <2>3
    <3> HIDE DEF Bad
    <3> QED BY <2>1, <2>2, <3>1 DEF OpToRel
  <2>5. PICK g : Solves(g, k - 1)
    BY <2>4
  <2> HIDE DEF Bad
  <2> DEFINE h == [s \in SUBSET S |->
                     IF Cardinality(s) <= k - 1 \/ s = {} THEN g[s]
                     ELSE Some(s).amount + g[s \ {Some(s)}]]
  <2>6. h = [s \in SUBSET S |-> h[s]]
    OBVIOUS
  <2>7. ASSUME NEW s \in SUBSET S, Cardinality(s) <= k
        PROVE  h[s] = SumTurn(S, h)[s]
    <3>1. CASE s = {}
      <4>1. h[s] = g[s] /\ Cardinality(s) <= k - 1
        BY <2>4, <3>1, FS_EmptySet
      <4>2. g[s] = 0
        BY <2>5, <3>1, <4>1 DEF SumTurn
      <4>3. SumTurn(S, h)[s] = 0
        BY <3>1 DEF SumTurn
      <4> QED BY <4>1, <4>2, <4>3
    <3>2. CASE s # {}
      <4> DEFINE e == Some(s)
                 u == s \ {e}
      <4>1. /\ e \in s /\ u \in SUBSET S
            /\ Cardinality(u) = Cardinality(s) - 1
            /\ Cardinality(s) \in Nat /\ Cardinality(u) \in Nat
        BY <1>0, <3>2, SomeIsIn, OneLess
      <4>2. Cardinality(u) <= k - 1
        BY <2>2, <2>7, <4>1
      <4>3. h[u] = g[u]
        BY <4>1, <4>2
      <4>4. SumTurn(S, h)[s] = e.amount + h[u]
        BY <3>2 DEF SumTurn
      <4>5. CASE Cardinality(s) <= k - 1
        <5>1. h[s] = g[s] /\ g[s] = SumTurn(S, g)[s]
          BY <2>5, <4>5
        <5>2. SumTurn(S, g)[s] = e.amount + g[u]
          BY <3>2 DEF SumTurn
        <5> QED BY <4>3, <4>4, <5>1, <5>2
      <4>6. CASE ~(Cardinality(s) <= k - 1)
        <5>1. h[s] = e.amount + g[u]
          BY <3>2, <4>6
        <5> QED BY <4>3, <4>4, <5>1
      <4> QED BY <4>5, <4>6
    <3> QED BY <3>1, <3>2
  <2> HIDE DEF h
  <2>8. Solves(h, k)
    BY <2>6, <2>7
  <2> QED BY <2>2, <2>8
<1>2. Cardinality(S) \in Nat
  BY FS_CardinalityType
<1>3. PICK g : Solves(g, Cardinality(S))
  BY <1>1, <1>2
<1>4. \A s \in SUBSET S : g[s] = SumTurn(S, g)[s]
  BY <1>3, FS_Subset
<1>5. SumTurn(S, g) = [s \in SUBSET S |-> SumTurn(S, g)[s]]
  BY DEF SumTurn
<1>6. g = SumTurn(S, g)
  BY <1>3, <1>4, <1>5
<1> QED BY <1>6

\* The sum of a set is the same in a solution for any set around it.
LEMMA SumsAgree ==
  ASSUME NEW S, IsFiniteSet(S), NEW T \in SUBSET S,
         NEW g, g = SumTurn(S, g), NEW h, h = SumTurn(T, h), NEW s \in SUBSET T
  PROVE  g[s] = h[s]
<1> DEFINE C == {u \in SUBSET T : g[u] # h[u]}
<1> SUFFICES ASSUME C # {} PROVE FALSE
  OBVIOUS
<1>1. \A u \in C : IsFiniteSet(u)
  BY FS_Subset
<1> HIDE DEF C
<1>2. PICK u \in C : \A t \in C : Cardinality(u) <= Cardinality(t)
  BY <1>1, SmallestSet
<1>3. u \in SUBSET T /\ u \in SUBSET S /\ g[u] # h[u]
  BY <1>2 DEF C
<1>4. CASE u = {}
  <2>1. SumTurn(S, g)[u] = 0 /\ SumTurn(T, h)[u] = 0
    BY <1>3, <1>4 DEF SumTurn
  <2> QED BY <1>3, <2>1
<1>5. CASE u # {}
  <2> DEFINE e == Some(u)
             v == u \ {e}
  <2>1. e \in u /\ v \in SUBSET T /\ ~(Cardinality(u) <= Cardinality(v))
    BY <1>1, <1>2, <1>3, <1>5, SomeIsIn, OneLess
  <2>2. g[v] = h[v]
    BY <1>2, <2>1 DEF C
  <2>3. SumTurn(S, g)[u] = e.amount + g[v] /\ SumTurn(T, h)[u] = e.amount + h[v]
    BY <1>3, <1>5 DEF SumTurn
  <2> QED BY <1>3, <2>2, <2>3
<1> QED BY <1>4, <1>5

\* SumOf, one element after the other.
LEMMA SumOfTurn ==
  ASSUME NEW S, IsFiniteSet(S)
  PROVE  Caps!SumOf(S) = IF S = {} THEN 0 ELSE Some(S).amount + Caps!SumOf(S \ {Some(S)})
<1>1. ASSUME NEW T, IsFiniteSet(T)
      PROVE  \E g : g = SumTurn(T, g) /\ Caps!SumOf(T) = g[T]
  <2> DEFINE g == CHOOSE f : f = SumTurn(T, f)
  <2>1. g = SumTurn(T, g)
    BY <1>1, SumExists
  <2>2. Caps!SumOf(T) = g[T]
    BY DEF Caps!SumOf, Caps!MapThenSumSet, Caps!MapThenFoldSet, SumTurn, Some
  <2> QED BY <2>1, <2>2
<1>2. PICK g : g = SumTurn(S, g) /\ Caps!SumOf(S) = g[S]
  BY <1>1
<1>3. CASE S = {}
  <2>1. SumTurn(S, g)[S] = 0
    BY <1>3 DEF SumTurn
  <2> QED BY <1>2, <1>3, <2>1
<1>4. CASE S # {}
  <2> DEFINE T == S \ {Some(S)}
  <2>1. T \in SUBSET S /\ IsFiniteSet(T)
    BY FS_Subset
  <2>2. PICK h : h = SumTurn(T, h) /\ Caps!SumOf(T) = h[T]
    BY <1>1, <2>1
  <2>3. g[T] = h[T]
    BY <1>2, <2>1, <2>2, SumsAgree
  <2>4. SumTurn(S, g)[S] = Some(S).amount + g[T]
    BY <1>4 DEF SumTurn
  <2> QED BY <1>2, <1>4, <2>2, <2>3, <2>4
<1> QED BY <1>3, <1>4

LEMMA SumOfNothing == Caps!SumOf({}) = 0
BY SumOfTurn, FS_EmptySet

LEMMA SumIsNat ==
  ASSUME NEW S, IsFiniteSet(S), \A e \in S : e.amount \in Nat
  PROVE  Caps!SumOf(S) \in Nat
<1> DEFINE C == {u \in SUBSET S : Caps!SumOf(u) \notin Nat}
<1> SUFFICES ASSUME C # {} PROVE FALSE
  OBVIOUS
<1>1. \A u \in C : IsFiniteSet(u)
  BY FS_Subset
<1> HIDE DEF C
<1>2. PICK u \in C : \A t \in C : Cardinality(u) <= Cardinality(t)
  BY <1>1, SmallestSet
<1>3. u \in SUBSET S /\ IsFiniteSet(u) /\ Caps!SumOf(u) \notin Nat
  BY <1>1, <1>2 DEF C
<1>4. u # {}
  BY <1>3, SumOfNothing
<1> DEFINE e == Some(u)
           v == u \ {e}
<1>5. e \in u /\ v \in SUBSET S /\ ~(Cardinality(u) <= Cardinality(v))
  BY <1>3, <1>4, SomeIsIn, OneLess
<1>6. Caps!SumOf(v) \in Nat
  BY <1>2, <1>5 DEF C
<1>7. Caps!SumOf(u) = e.amount + Caps!SumOf(v) /\ e.amount \in Nat
  BY <1>3, <1>4, <1>5, SumOfTurn
<1> HIDE DEF e, v
<1> QED BY <1>3, <1>6, <1>7

\* The order does not matter: any element may come last.
LEMMA SumOfAny ==
  ASSUME NEW S, IsFiniteSet(S), \A e \in S : e.amount \in Nat, NEW d \in S
  PROVE  Caps!SumOf(S) = d.amount + Caps!SumOf(S \ {d})
<1> DEFINE C == {u \in SUBSET S : \E e \in u : Caps!SumOf(u) # e.amount + Caps!SumOf(u \ {e})}
<1> SUFFICES ASSUME C # {} PROVE FALSE
  OBVIOUS
<1>1. \A u \in C : IsFiniteSet(u)
  BY FS_Subset
<1> HIDE DEF C
<1>2. PICK u \in C : \A t \in C : Cardinality(u) <= Cardinality(t)
  BY <1>1, SmallestSet
<1>3. u \in SUBSET S /\ IsFiniteSet(u)
  BY <1>1, <1>2 DEF C
<1>4. PICK e \in u : Caps!SumOf(u) # e.amount + Caps!SumOf(u \ {e})
  BY <1>2 DEF C
<1> DEFINE f == Some(u)
<1>5. f \in u /\ Caps!SumOf(u) = f.amount + Caps!SumOf(u \ {f})
  BY <1>3, <1>4, SomeIsIn, SumOfTurn
<1> HIDE DEF f
<1>6. e # f
  BY <1>4, <1>5
<1>7. /\ u \ {f} \in SUBSET S /\ u \ {e} \in SUBSET S
      /\ e \in u \ {f} /\ f \in u \ {e}
      /\ (u \ {f}) \ {e} = (u \ {e}) \ {f}
  BY <1>3, <1>4, <1>5, <1>6
<1>8. Caps!SumOf(u \ {f}) = e.amount + Caps!SumOf((u \ {f}) \ {e})
  <2>1. ~(Cardinality(u) <= Cardinality(u \ {f}))
    BY <1>3, <1>5, OneLess
  <2>2. u \ {f} \notin C
    BY <1>2, <2>1
  <2> QED BY <1>7, <2>2 DEF C
<1>9. Caps!SumOf(u \ {e}) = f.amount + Caps!SumOf((u \ {e}) \ {f})
  <2>1. ~(Cardinality(u) <= Cardinality(u \ {e}))
    BY <1>3, <1>4, OneLess
  <2>2. u \ {e} \notin C
    BY <1>2, <2>1
  <2> QED BY <1>7, <2>2 DEF C
<1>10. PICK z : z = Caps!SumOf((u \ {f}) \ {e})
  OBVIOUS
<1>11. z \in Nat /\ e.amount \in Nat /\ f.amount \in Nat
  <2>1. IsFiniteSet((u \ {f}) \ {e}) /\ (u \ {f}) \ {e} \in SUBSET S
    BY <1>3, <1>7, FS_Subset
  <2> QED BY <1>3, <1>4, <1>5, <1>10, <2>1, SumIsNat
<1>12. /\ Caps!SumOf(u) = f.amount + (e.amount + z)
       /\ Caps!SumOf(u \ {e}) = f.amount + z
  BY <1>5, <1>7, <1>8, <1>9, <1>10
<1> QED BY <1>4, <1>11, <1>12

LEMMA SumOfPart ==
  ASSUME NEW S, IsFiniteSet(S), \A e \in S : e.amount \in Nat, NEW A \in SUBSET S
  PROVE  Caps!SumOf(A) <= Caps!SumOf(S)
<1> DEFINE C == {u \in SUBSET (S \ A) : ~(Caps!SumOf(A) <= Caps!SumOf(A \union u))}
<1>1. C = {}
  <2> SUFFICES ASSUME C # {} PROVE FALSE
    OBVIOUS
  <2>1. \A u \in C : IsFiniteSet(u)
    BY FS_Subset
  <2> HIDE DEF C
  <2>2. PICK u \in C : \A t \in C : Cardinality(u) <= Cardinality(t)
    BY <2>1, SmallestSet
  <2>3. /\ u \in SUBSET (S \ A) /\ IsFiniteSet(u)
        /\ ~(Caps!SumOf(A) <= Caps!SumOf(A \union u))
    BY <2>1, <2>2 DEF C
  <2>4. Caps!SumOf(A) \in Nat
    BY FS_Subset, SumIsNat
  <2>5. u # {}
    <3>1. A \union {} = A
      OBVIOUS
    <3> QED BY <2>3, <2>4, <3>1
  <2>6. PICK e \in u : TRUE
    BY <2>5
  <2> DEFINE v == u \ {e}
  <2>7. v \in SUBSET (S \ A) /\ ~(Cardinality(u) <= Cardinality(v))
    BY <2>3, <2>6, OneLess
  <2>8. Caps!SumOf(A) <= Caps!SumOf(A \union v)
    BY <2>2, <2>7 DEF C
  <2>9. /\ A \union u \in SUBSET S /\ A \union v \in SUBSET S
        /\ e \in A \union u /\ (A \union u) \ {e} = A \union v
    BY <2>3, <2>6
  <2>10. Caps!SumOf(A \union u) = e.amount + Caps!SumOf(A \union v)
    <3>1. IsFiniteSet(A \union u)
      BY <2>9, FS_Subset
    <3> QED BY <2>9, <3>1, SumOfAny
  <2>11. Caps!SumOf(A \union v) \in Nat /\ e.amount \in Nat
    BY <2>9, FS_Subset, SumIsNat
  <2> HIDE DEF v
  <2> QED BY <2>3, <2>4, <2>8, <2>10, <2>11
<1>2. S \ A \in SUBSET (S \ A) /\ A \union (S \ A) = S
  OBVIOUS
<1> QED BY <1>1, <1>2

\* Entries that stand for others of the same amounts have their sum.
LEMMA SumOfImage ==
  ASSUME NEW S, IsFiniteSet(S), \A e \in S : e.amount \in Nat,
         NEW T, IsFiniteSet(T), NEW f \in [T -> S],
         \A d, e \in T : f[d] = f[e] => d = e,
         \A e \in T : f[e].amount = e.amount
  PROVE  Caps!SumOf(T) <= Caps!SumOf(S)
<1> DEFINE Image(u) == {f[e] : e \in u}
           C == {u \in SUBSET T : Caps!SumOf(u) # Caps!SumOf(Image(u))}
<1>0. \A u \in SUBSET T : Image(u) \in SUBSET S
  OBVIOUS
<1>1. C = {}
  <2> SUFFICES ASSUME C # {} PROVE FALSE
    OBVIOUS
  <2>1. \A u \in C : IsFiniteSet(u)
    BY FS_Subset
  <2> HIDE DEF C
  <2>2. PICK u \in C : \A t \in C : Cardinality(u) <= Cardinality(t)
    BY <2>1, SmallestSet
  <2>3. u \in SUBSET T /\ IsFiniteSet(u) /\ Caps!SumOf(u) # Caps!SumOf(Image(u))
    BY <2>1, <2>2 DEF C
  <2>4. u # {}
    <3>1. Image({}) = {}
      OBVIOUS
    <3> QED BY <2>3, <3>1
  <2>5. PICK e \in u : TRUE
    BY <2>4
  <2> DEFINE v == u \ {e}
  <2>6. v \in SUBSET T /\ ~(Cardinality(u) <= Cardinality(v))
    BY <2>3, <2>5, OneLess
  <2>7. Caps!SumOf(v) = Caps!SumOf(Image(v))
    BY <2>2, <2>6 DEF C
  <2>8. Caps!SumOf(u) = e.amount + Caps!SumOf(v)
    <3>1. \A d \in u : d.amount \in Nat
      <4>1. \A d \in T : f[d] \in S /\ f[d].amount = d.amount
        OBVIOUS
      <4> QED BY <2>3, <4>1
    <3> QED BY <2>3, <2>5, <3>1, SumOfAny
  <2>9. f[e] \in Image(u) /\ Image(u) \ {f[e]} = Image(v)
    BY <2>3, <2>5
  <2>10. Caps!SumOf(Image(u)) = f[e].amount + Caps!SumOf(Image(v))
    <3>1. Image(u) \in SUBSET S
      BY <1>0, <2>3
    <3>2. IsFiniteSet(Image(u)) /\ \A d \in Image(u) : d.amount \in Nat
      BY <3>1, FS_Subset
    <3> HIDE DEF Image
    <3> QED BY <2>9, <3>2, SumOfAny
  <2>11. f[e].amount = e.amount
    BY <2>3, <2>5
  <2> QED BY <2>3, <2>7, <2>8, <2>10, <2>11
<1>2. T \in SUBSET T
  OBVIOUS
<1>3. Caps!SumOf(T) = Caps!SumOf(Image(T))
  BY <1>1, <1>2
<1> HIDE DEF C, Image
<1> QED BY <1>0, <1>2, <1>3, SumOfPart

-----------------------------------------------------------------------------
(* prune *)

\* What FreshOf folds over the positions 1..n, as a function of the positions.
FreshTurn(n, g, s, t) ==
  [P \in SUBSET (1..n) |->
     IF P = {} THEN <<>>
     ELSE LET i == Caps!Max(P)
          IN  IF Caps!Fresh(s[i], t) THEN Append(g[P \ {i}], s[i]) ELSE g[P \ {i}]]

LEMMA LastOf ==
  ASSUME NEW k \in Nat, NEW P \in SUBSET (1..k), k \in P
  PROVE  Caps!Max(P) = k
<1>1. \A j \in P : k >= j /\ j \in Nat
  OBVIOUS
<1> DEFINE m == Caps!Max(P)
<1>2. m \in P /\ \A j \in P : m >= j
  BY <1>1 DEF Caps!Max
<1> HIDE DEF m
<1>3. m >= k /\ k >= m /\ m \in Nat
  BY <1>1, <1>2
<1>4. m = k
  BY <1>3
<1> QED BY <1>4 DEF m

LEMMA FreshTurnExists ==
  ASSUME NEW n \in Nat, NEW s, NEW t
  PROVE  \E g : g = FreshTurn(n, g, s, t)
<1> DEFINE Bad == {m \in Nat : ~ \E g : g = FreshTurn(m, g, s, t)}
<1> SUFFICES ASSUME Bad # {} PROVE FALSE
  OBVIOUS
<1>1. PICK k \in Bad : \A j \in Bad : ~(<<j, k>> \in OpToRel(<, Nat))
  <2>1. Bad \subseteq Nat
    OBVIOUS
  <2> HIDE DEF Bad
  <2> QED BY <2>1, NatLessThanWellFounded, WFMin
<1>2. k \in Nat /\ ~ \E g : g = FreshTurn(k, g, s, t)
  OBVIOUS
<1>3. k # 0
  <2>1. SUFFICES ASSUME k = 0 PROVE FALSE
    OBVIOUS
  <2> DEFINE g == [P \in SUBSET (1..0) |-> <<>>]
  <2>2. \A P \in SUBSET (1..0) : P = {}
    OBVIOUS
  <2>3. g = FreshTurn(0, g, s, t)
    BY <2>2 DEF FreshTurn
  <2> QED BY <2>1, <2>3, <1>2
<1>4. k - 1 \in Nat /\ k - 1 \notin Bad
  <2>1. k - 1 \in Nat /\ k - 1 < k
    BY <1>2, <1>3
  <2> HIDE DEF Bad
  <2> QED BY <1>1, <1>2, <2>1 DEF OpToRel
<1>5. PICK g : g = FreshTurn(k - 1, g, s, t)
  BY <1>4
<1> HIDE DEF Bad
<1> DEFINE h == [P \in SUBSET (1..k) |->
                   IF k \notin P THEN g[P]
                   ELSE IF Caps!Fresh(s[k], t) THEN Append(g[P \ {k}], s[k]) ELSE g[P \ {k}]]
<1>6. \A P \in SUBSET (1..k) : P \ {k} \in SUBSET (1..(k - 1)) /\ P \ {k} \in SUBSET (1..k)
  BY <1>2, <1>4
<1>7. ASSUME NEW P \in SUBSET (1..k)
      PROVE  h[P] = FreshTurn(k, h, s, t)[P]
  <2>1. CASE k \in P
    <3>1. Caps!Max(P) = k /\ P # {}
      BY <2>1, <1>2, LastOf
    <3>2. h[P \ {k}] = g[P \ {k}]
      BY <1>6
    <3>3. FreshTurn(k, h, s, t)[P] =
            IF Caps!Fresh(s[k], t) THEN Append(h[P \ {k}], s[k]) ELSE h[P \ {k}]
      BY <3>1 DEF FreshTurn
    <3> QED BY <2>1, <3>2, <3>3
  <2>2. CASE P = {}
    <3>1. h[P] = g[P] /\ P \in SUBSET (1..(k - 1))
      BY <2>2
    <3>2. g[P] = <<>>
      BY <1>5, <3>1, <2>2 DEF FreshTurn
    <3>3. FreshTurn(k, h, s, t)[P] = <<>>
      BY <2>2 DEF FreshTurn
    <3> QED BY <3>1, <3>2, <3>3
  <2>3. CASE k \notin P /\ P # {}
    <3> DEFINE m == Caps!Max(P)
    <3>1. P \in SUBSET (1..(k - 1)) /\ P \ {m} \in SUBSET (1..k) /\ k \notin P \ {m}
      BY <2>3, <1>6
    <3>2. h[P] = g[P] /\ h[P \ {m}] = g[P \ {m}]
      BY <3>1, <2>3
    <3>3. g[P] = IF Caps!Fresh(s[m], t) THEN Append(g[P \ {m}], s[m]) ELSE g[P \ {m}]
      BY <1>5, <3>1, <2>3 DEF FreshTurn
    <3>4. FreshTurn(k, h, s, t)[P] =
            IF Caps!Fresh(s[m], t) THEN Append(h[P \ {m}], s[m]) ELSE h[P \ {m}]
      BY <2>3 DEF FreshTurn
    <3> QED BY <3>2, <3>3, <3>4
  <2> QED BY <2>1, <2>2, <2>3
<1>8. h = FreshTurn(k, h, s, t)
  <2>1. FreshTurn(k, h, s, t) = [P \in SUBSET (1..k) |-> FreshTurn(k, h, s, t)[P]]
    BY DEF FreshTurn
  <2>2. h = [P \in SUBSET (1..k) |-> h[P]]
    OBVIOUS
  <2> HIDE DEF h
  <2> QED BY <2>1, <2>2, <1>7
<1> QED BY <1>8, <1>2

\* FreshOf looks at the entries one after the other.
LEMMA FreshByTurns ==
  ASSUME NEW n \in Nat, NEW s, DOMAIN s = 1..n, NEW t
  PROVE  \E turn : /\ turn[0] = <<>>
                   /\ \A k \in 1..n :
                        turn[k] = IF Caps!Fresh(s[k], t) THEN Append(turn[k - 1], s[k])
                                  ELSE turn[k - 1]
                   /\ Caps!FreshOf(s, t) = turn[n]
<1> DEFINE g == CHOOSE f : f = FreshTurn(n, f, s, t)
<1>1. g = FreshTurn(n, g, s, t)
  BY FreshTurnExists
<1>2. Caps!FreshOf(s, t) = g[1..n]
  BY DEF Caps!FreshOf, Caps!FoldLeft, Caps!MapThenFoldSet, FreshTurn
<1> HIDE DEF g
<1> DEFINE turn == [k \in 0..n |-> g[1..k]]
<1>3. turn[0] = <<>>
  <2>1. 1..0 = {} /\ 1..0 \in SUBSET (1..n) /\ 0 \in 0..n
    OBVIOUS
  <2> QED BY <2>1, <1>1 DEF FreshTurn
<1>4. ASSUME NEW k \in 1..n
      PROVE  turn[k] = IF Caps!Fresh(s[k], t) THEN Append(turn[k - 1], s[k]) ELSE turn[k - 1]
  <2>0. k \in Nat /\ k <= n /\ 1 <= k /\ k - 1 \in 0..n /\ k \in 0..n
    OBVIOUS
  <2>1. 1..k \in SUBSET (1..n) /\ 1..k # {} /\ k \in 1..k
    BY <2>0
  <2>2. (1..k) \ {k} = 1..(k - 1)
    BY <2>0
  <2>3. Caps!Max(1..k) = k
    BY <2>0, <2>1, LastOf
  <2>4. g[1..k] = IF Caps!Fresh(s[k], t) THEN Append(g[1..(k - 1)], s[k]) ELSE g[1..(k - 1)]
    BY <1>1, <2>1, <2>2, <2>3 DEF FreshTurn
  <2> QED BY <2>0, <2>4
<1>5. turn[n] = g[1..n]
  OBVIOUS
<1> QED BY <1>2, <1>3, <1>4, <1>5

\* No two entries of a log are of one spend.
Distinct(s) == \A i, j \in 1..Len(s) : s[i].no = s[j].no => i = j

\* FreshOf drops what is not fresh, and nothing else.
LEMMA FreshOfKeeps ==
  ASSUME NEW E, NEW s \in Seq(E), Distinct(s), NEW t
  PROVE  LET kept == Caps!FreshOf(s, t) IN
         /\ kept \in Seq(E)
         /\ Distinct(kept)
         /\ \A j \in 1..Len(kept) : \E i \in 1..Len(s) : kept[j] = s[i]
         /\ \A i \in 1..Len(s) : Caps!Fresh(s[i], t) => \E j \in 1..Len(kept) : kept[j] = s[i]
<1> DEFINE n == Len(s)
<1>1. n \in Nat /\ DOMAIN s = 1..n
  OBVIOUS
<1>2. PICK turn : /\ turn[0] = <<>>
                  /\ \A k \in 1..n :
                       turn[k] = IF Caps!Fresh(s[k], t) THEN Append(turn[k - 1], s[k])
                                 ELSE turn[k - 1]
                  /\ Caps!FreshOf(s, t) = turn[n]
  BY <1>1, FreshByTurns, SMTT(30)
<1> DEFINE Right(k) ==
             /\ turn[k] \in Seq(E)
             /\ Distinct(turn[k])
             /\ \A j \in 1..Len(turn[k]) : \E i \in 1..k : turn[k][j] = s[i]
             /\ \A i \in 1..k : Caps!Fresh(s[i], t) => \E j \in 1..Len(turn[k]) : turn[k][j] = s[i]
           Bad == {k \in 0..n : ~Right(k)}
<1>3. Bad = {}
  <2> SUFFICES ASSUME Bad # {} PROVE FALSE
    OBVIOUS
  <2>1. PICK k \in Bad : \A j \in Bad : ~(<<j, k>> \in OpToRel(<, Nat))
    <3>1. Bad \subseteq Nat
      BY <1>1
    <3> HIDE DEF Bad
    <3> QED BY <3>1, NatLessThanWellFounded, WFMin
  <2>2. k \in 0..n /\ ~Right(k)
    OBVIOUS
  <2>3. Right(0)
    <3>1. turn[0] \in Seq(E) /\ Len(turn[0]) = 0
      BY <1>2
    <3> QED BY <3>1 DEF Distinct
  <2>4. k \in 1..n /\ k - 1 \in 0..n /\ k - 1 < k /\ k \in Nat /\ k - 1 \in Nat
    BY <1>1, <2>2, <2>3
  <2>5. Right(k - 1)
    <3>1. k - 1 \notin Bad
      <4> HIDE DEF Bad
      <4> QED BY <2>1, <2>4 DEF OpToRel
    <3> QED BY <2>4, <3>1
  <2> HIDE DEF Bad
  <2> DEFINE u == turn[k - 1]
  <2>6. /\ u \in Seq(E) /\ Distinct(u)
        /\ \A j \in 1..Len(u) : \E i \in 1..(k - 1) : u[j] = s[i]
        /\ \A i \in 1..(k - 1) : Caps!Fresh(s[i], t) => \E j \in 1..Len(u) : u[j] = s[i]
    BY <2>5
  <2>7. turn[k] = IF Caps!Fresh(s[k], t) THEN Append(u, s[k]) ELSE u
    BY <1>2, <2>4
  <2> HIDE DEF u
  <2>8. 1..k = (1..(k - 1)) \union {k}
    BY <2>4
  <2>9. CASE Caps!Fresh(s[k], t)
    <3> DEFINE v == Append(u, s[k])
    <3>1. s[k] \in E
      BY <2>4
    <3>2. /\ v \in Seq(E) /\ Len(v) = Len(u) + 1
          /\ \A j \in 1..Len(u) : v[j] = u[j]
          /\ v[Len(u) + 1] = s[k]
      BY <2>6, <3>1, AppendProperties
    <3>3. turn[k] = v /\ Len(u) \in Nat
      BY <2>6, <2>7, <2>9
    <3> HIDE DEF v
    <3>4. 1..Len(v) = (1..Len(u)) \union {Len(u) + 1}
      BY <3>2, <3>3
    <3>5. \A j \in 1..Len(u) : u[j].no # s[k].no
      <4> SUFFICES ASSUME NEW j \in 1..Len(u), u[j].no = s[k].no PROVE FALSE
        OBVIOUS
      <4>1. PICK i \in 1..(k - 1) : u[j] = s[i]
        BY <2>6
      <4>2. i \in 1..n /\ i # k
        BY <2>4
      <4> QED BY <2>4, <4>1, <4>2 DEF Distinct
    <3>6. Distinct(v)
      <4> SUFFICES ASSUME NEW i \in 1..Len(v), NEW j \in 1..Len(v), v[i].no = v[j].no
                   PROVE  i = j
        BY DEF Distinct
      <4> QED BY <2>6, <3>2, <3>4, <3>5 DEF Distinct
    <3>7. \A j \in 1..Len(v) : \E i \in 1..k : v[j] = s[i]
      BY <2>4, <2>6, <2>8, <3>2, <3>4, SMTT(30)
    <3>8. \A i \in 1..k : Caps!Fresh(s[i], t) => \E j \in 1..Len(v) : v[j] = s[i]
      <4> SUFFICES ASSUME NEW i \in 1..k, Caps!Fresh(s[i], t)
                   PROVE  \E j \in 1..Len(v) : v[j] = s[i]
        OBVIOUS
      <4>1. CASE i = k
        BY <3>2, <3>4, <4>1
      <4>2. CASE i # k
        <5>1. PICK j \in 1..Len(u) : u[j] = s[i]
          BY <2>6, <2>8, <4>2
        <5> QED BY <3>2, <3>4, <5>1
      <4> QED BY <4>1, <4>2
    <3> QED BY <2>2, <3>2, <3>3, <3>6, <3>7, <3>8
  <2>10. CASE ~Caps!Fresh(s[k], t)
    <3>1. turn[k] = u
      BY <2>7, <2>10
    <3> QED BY <2>2, <2>6, <2>8, <2>10, <3>1
  <2> QED BY <2>9, <2>10
<1>4. Right(n)
  BY <1>1, <1>3
<1> QED BY <1>2, <1>4

LEMMA CardinalityIs == \A S : Caps!Cardinality(S) = Cardinality(S)
BY DEF Caps!Cardinality, Cardinality, Caps!IsFiniteSet, IsFiniteSet

\* The place an entry gets in the sorted log.
Place(s, i) == Cardinality(Caps!Ahead(s, i))

\* Every place of the sorted log is the place of one entry.
LEMMA PlacesFilled ==
  ASSUME NEW E, \A e \in E : e.ts \in Nat, NEW s \in Seq(E)
  PROVE  /\ \A i \in 1..Len(s) : Place(s, i) \in 1..Len(s) /\ IsFiniteSet(Caps!Ahead(s, i))
         /\ \A i, j \in 1..Len(s) : Place(s, i) = Place(s, j) => i = j
         /\ \A k \in 1..Len(s) : \E i \in 1..Len(s) : Place(s, i) = k
<1> DEFINE n == Len(s)
<1>1. /\ n \in Nat /\ DOMAIN s = 1..n
      /\ IsFiniteSet(1..n) /\ Cardinality(1..n) = n
  <2>1. n \in Nat /\ DOMAIN s = 1..n
    OBVIOUS
  <2>2. IsFiniteSet(1..n) /\ Cardinality(1..n) = IF 1 > n THEN 0 ELSE n - 1 + 1
    BY <2>1, FS_Interval
  <2> QED BY <2>1, <2>2, SMTT(30)
<1>2. \A i \in 1..n : s[i].ts \in Nat
  BY <1>1
<1>3. ASSUME NEW i \in 1..n
      PROVE  /\ Caps!Ahead(s, i) \in SUBSET (1..n) /\ i \in Caps!Ahead(s, i)
             /\ IsFiniteSet(Caps!Ahead(s, i))
             /\ Place(s, i) \in 1..n
  <2>1. Caps!Ahead(s, i) \in SUBSET (1..n) /\ i \in Caps!Ahead(s, i)
    BY <1>1, <1>2 DEF Caps!Ahead
  <2>2. IsFiniteSet(Caps!Ahead(s, i)) /\ Place(s, i) <= n /\ Place(s, i) \in Nat
    BY <1>1, <2>1, FS_Subset, FS_CardinalityType DEF Place
  <2>3. Place(s, i) # 0
    BY <2>1, <2>2, FS_EmptySet DEF Place
  <2> QED BY <1>1, <2>1, <2>2, <2>3
<1>4. ASSUME NEW i \in 1..n, NEW j \in 1..n, i # j, j \in Caps!Ahead(s, i)
      PROVE  Place(s, i) # Place(s, j)
  <2>1. s[i].ts \in Nat /\ s[j].ts \in Nat /\ i \in Nat /\ j \in Nat
    BY <1>2
  <2>2. s[j].ts > s[i].ts \/ (s[j].ts = s[i].ts /\ j <= i)
    BY <1>4 DEF Caps!Ahead
  <2>3. i \notin Caps!Ahead(s, j)
    BY <1>4, <2>1, <2>2 DEF Caps!Ahead
  <2>4. Caps!Ahead(s, j) \in SUBSET Caps!Ahead(s, i)
    <3> SUFFICES ASSUME NEW k \in Caps!Ahead(s, j) PROVE k \in Caps!Ahead(s, i)
      OBVIOUS
    <3>1. k \in 1..n /\ k \in Nat /\ s[k].ts \in Nat
      BY <1>2, <1>3
    <3>2. s[k].ts > s[j].ts \/ (s[k].ts = s[j].ts /\ k <= j)
      BY DEF Caps!Ahead
    <3>3. s[k].ts > s[i].ts \/ (s[k].ts = s[i].ts /\ k <= i)
      BY <2>1, <2>2, <3>1, <3>2
    <3> QED BY <1>1, <3>1, <3>3 DEF Caps!Ahead
  <2> QED BY <1>3, <2>3, <2>4, FS_Subset DEF Place
<1>5. ASSUME NEW i \in 1..n, NEW j \in 1..n, Place(s, i) = Place(s, j)
      PROVE  i = j
  <2>1. s[i].ts \in Nat /\ s[j].ts \in Nat /\ i \in Nat /\ j \in Nat
    BY <1>2
  <2>2. j \in Caps!Ahead(s, i) \/ i \in Caps!Ahead(s, j)
    BY <1>1, <2>1 DEF Caps!Ahead
  <2> QED BY <1>4, <1>5, <2>2
<1> DEFINE f == [i \in 1..n |-> Place(s, i)]
<1>6. f \in Injection(1..n, 1..n)
  <2>1. f \in [1..n -> 1..n]
    BY <1>3
  <2>2. \A i, j \in 1..n : f[i] = f[j] => i = j
    BY <1>5
  <2> QED BY <2>1, <2>2, Fun_IsInj
<1>7. f \in Surjection(1..n, 1..n)
  BY <1>1, <1>6, FS_Injection
<1>8. \A k \in 1..n : \E i \in 1..n : f[i] = k
  <2> HIDE DEF f, n
  <2> QED BY <1>7, Fun_SurjectionProperties
<1> QED BY <1>3, <1>5, <1>8

\* NewestFirst puts every entry at its place.
LEMMA NewestFirstSorts ==
  ASSUME NEW E, \A e \in E : e.ts \in Nat, NEW s \in Seq(E)
  PROVE  LET sorted == Caps!NewestFirst(s) IN
         /\ sorted \in Seq(E)
         /\ Len(sorted) = Len(s)
         /\ \A k \in 1..Len(s) : \E i \in 1..Len(s) : sorted[k] = s[i] /\ Place(s, i) = k
         /\ \A i \in 1..Len(s) : sorted[Place(s, i)] = s[i]
<1> DEFINE n == Len(s)
           At(k) == CHOOSE i \in 1..n : Place(s, i) = k
           sorted == [k \in 1..n |-> s[At(k)]]
<1>1. n \in Nat /\ DOMAIN s = 1..n
  OBVIOUS
<1>2. Caps!NewestFirst(s) = sorted
  BY <1>1 DEF Caps!NewestFirst, Place, Caps!Cardinality, Cardinality,
               Caps!IsFiniteSet, IsFiniteSet
<1>3. ASSUME NEW k \in 1..n PROVE At(k) \in 1..n /\ Place(s, At(k)) = k
  BY PlacesFilled
<1>4. \A k \in 1..n : s[At(k)] \in E
  BY <1>1, <1>3
<1>5. ASSUME NEW i \in 1..n PROVE At(Place(s, i)) = i /\ Place(s, i) \in 1..n
  <2>1. Place(s, i) \in 1..n
    BY PlacesFilled
  <2>2. At(Place(s, i)) \in 1..n /\ Place(s, At(Place(s, i))) = Place(s, i)
    BY <1>3, <2>1
  <2> HIDE DEF At
  <2> QED BY <2>1, <2>2, PlacesFilled
<1> HIDE DEF At
<1>6. sorted \in [1..n -> E]
  BY <1>4
<1>7. sorted \in Seq(E) /\ Len(sorted) = n
  BY <1>1, <1>6
<1>8. \A k \in 1..n : \E i \in 1..n : sorted[k] = s[i] /\ Place(s, i) = k
  BY <1>3
<1>9. \A i \in 1..n : sorted[Place(s, i)] = s[i]
  BY <1>5
<1> QED BY <1>2, <1>7, <1>8, <1>9

\* What Prune drops is not of the last day, or MaxEntries others are as new.
Pruned(E, s, t, kept) ==
  /\ kept \in Seq(E)
  /\ Distinct(kept)
  /\ \A j \in 1..Len(kept) : \E i \in 1..Len(s) : kept[j] = s[i]
  /\ \A i \in 1..Len(s) :
       Caps!Fresh(s[i], t) /\ (\A j \in 1..Len(kept) : kept[j] # s[i]) =>
         \E M : /\ IsFiniteSet(M) /\ MaxEntries <= Cardinality(M)
                /\ \A m \in M : \E j \in 1..Len(s) :
                     /\ s[j].no = m /\ s[j].ts >= s[i].ts
                     /\ s[j].no # s[i].no

LEMMA PruneKeeps ==
  ASSUME NEW E, \A e \in E : e.ts \in Nat, NEW s \in Seq(E), Distinct(s), NEW t
  PROVE  Pruned(E, s, t, Caps!Prune(s, t))
<1> DEFINE fresh == Caps!FreshOf(s, t)
           sorted == Caps!NewestFirst(fresh)
           kept == Caps!Prune(s, t)
<1>1. /\ fresh \in Seq(E)
      /\ Distinct(fresh)
      /\ \A j \in 1..Len(fresh) : \E i \in 1..Len(s) : fresh[j] = s[i]
      /\ \A i \in 1..Len(s) : Caps!Fresh(s[i], t) => \E j \in 1..Len(fresh) : fresh[j] = s[i]
  BY FreshOfKeeps
<1>2. kept = IF Len(fresh) <= MaxEntries THEN fresh ELSE SubSeq(sorted, 1, MaxEntries)
  BY DEF Caps!Prune
<1> HIDE DEF fresh, kept
<1>3. CASE Len(fresh) <= MaxEntries
  <2>1. kept = fresh
    BY <1>2, <1>3
  <2> QED BY <1>1, <2>1, <1>3 DEF kept, Pruned
<1>4. CASE ~(Len(fresh) <= MaxEntries)
  <2>1. /\ sorted \in Seq(E)
        /\ Len(sorted) = Len(fresh)
        /\ \A k \in 1..Len(fresh) : \E i \in 1..Len(fresh) :
             sorted[k] = fresh[i] /\ Place(fresh, i) = k
        /\ \A i \in 1..Len(fresh) : sorted[Place(fresh, i)] = fresh[i]
    BY <1>1, NewestFirstSorts
  <2> HIDE DEF sorted
  <2>2. MaxEntries \in Nat /\ Len(fresh) \in Nat /\ MaxEntries < Len(fresh)
    BY <1>1, <1>4, LimitsOK
  <2>3. 1..MaxEntries \subseteq 1..Len(fresh)
    BY <2>2
  <2>4. /\ kept \in Seq(E)
        /\ Len(kept) = MaxEntries
        /\ \A j \in 1..MaxEntries : kept[j] = sorted[j]
    <3> DEFINE front == SubSeq(sorted, 1, MaxEntries)
    <3>1. \A j \in 1..MaxEntries : sorted[j] \in E
      BY <2>1, <2>3
    <3>2. 1 \in Int /\ MaxEntries \in Int
      BY <2>2
    <3>3. /\ front \in Seq(E)
          /\ Len(front) = IF 1 <= MaxEntries THEN MaxEntries - 1 + 1 ELSE 0
          /\ \A j \in 1..(MaxEntries - 1 + 1) : front[j] = sorted[1 + j - 1]
      BY <3>1, <3>2, SubSeqProperties
    <3>4. front = kept
      BY <1>2, <1>4
    <3> HIDE DEF front
    <3>5. Len(front) = MaxEntries
      BY <2>2, <3>3
    <3>6. ASSUME NEW j \in 1..MaxEntries PROVE front[j] = sorted[j]
      <4>1. j \in 1..(MaxEntries - 1 + 1) /\ 1 + j - 1 = j
        BY <2>2
      <4> QED BY <3>3, <4>1
    <3> QED BY <3>3, <3>4, <3>5, <3>6
  <2>5. Distinct(kept)
    <3> SUFFICES ASSUME NEW j \in 1..MaxEntries, NEW k \in 1..MaxEntries, kept[j].no = kept[k].no
                 PROVE  j = k
      BY <2>4 DEF Distinct
    <3>1. PICK h \in 1..Len(fresh) : sorted[j] = fresh[h] /\ Place(fresh, h) = j
      BY <2>1, <2>3
    <3>2. PICK i \in 1..Len(fresh) : sorted[k] = fresh[i] /\ Place(fresh, i) = k
      BY <2>1, <2>3
    <3>3. fresh[h].no = fresh[i].no
      BY <2>4, <3>1, <3>2
    <3>4. h = i
      BY <1>1, <3>3 DEF Distinct
    <3> QED BY <3>1, <3>2, <3>4
  <2>6. \A j \in 1..Len(kept) : \E i \in 1..Len(s) : kept[j] = s[i]
    <3> SUFFICES ASSUME NEW j \in 1..MaxEntries PROVE \E i \in 1..Len(s) : kept[j] = s[i]
      BY <2>4
    <3>1. PICK h \in 1..Len(fresh) : sorted[j] = fresh[h]
      BY <2>1, <2>3
    <3> QED BY <1>1, <2>4, <3>1
  <2>7. ASSUME NEW i \in 1..Len(s), Caps!Fresh(s[i], t), \A j \in 1..Len(kept) : kept[j] # s[i]
        PROVE  \E M : /\ IsFiniteSet(M) /\ MaxEntries <= Cardinality(M)
                      /\ \A m \in M : \E j \in 1..Len(s) :
                           s[j].no = m /\ s[j].ts >= s[i].ts /\ s[j].no # s[i].no
    <3>1. PICK h \in 1..Len(fresh) : fresh[h] = s[i]
      BY <1>1, <2>7
    <3>2. Place(fresh, h) \in 1..Len(fresh) /\ IsFiniteSet(Caps!Ahead(fresh, h))
      BY <1>1, PlacesFilled
    <3>3. Place(fresh, h) > MaxEntries
      <4>1. sorted[Place(fresh, h)] = s[i]
        BY <2>1, <3>1
      <4>2. Place(fresh, h) \notin 1..MaxEntries
        BY <2>4, <2>7, <4>1
      <4> QED BY <2>2, <3>2, <4>2
    <3> DEFINE A == Caps!Ahead(fresh, h) \ {h}
               M == {fresh[a].no : a \in A}
               f == [a \in A |-> fresh[a].no]
    <3>4. /\ h \in Caps!Ahead(fresh, h)
          /\ \A a \in A : a \in 1..Len(fresh) /\ fresh[a].ts >= s[i].ts /\ a # h
      <4>1. \A a \in 1..Len(fresh) : fresh[a].ts \in Nat /\ a \in Nat
        BY <1>1
      <4>2. DOMAIN fresh = 1..Len(fresh)
        BY <1>1
      <4> QED BY <3>1, <4>1, <4>2 DEF Caps!Ahead
    <3>5. IsFiniteSet(A) /\ Cardinality(A) = Place(fresh, h) - 1
      BY <3>2, <3>4, FS_RemoveElement DEF Place
    <3> HIDE DEF A
    <3>6. f \in [A -> M] /\ (\A m \in M : \E a \in A : f[a] = m)
      OBVIOUS
    <3>7. \A a, b \in A : f[a] = f[b] => a = b
      BY <1>1, <3>4 DEF Distinct
    <3> HIDE DEF f
    <3>8. f \in Bijection(A, M)
      BY <3>6, <3>7, Fun_IsBij, Fun_IsSurj
    <3>9. IsFiniteSet(M) /\ Cardinality(M) = Cardinality(A)
      BY <3>5, <3>8, FS_Bijection DEF ExistsBijection
    <3>10. MaxEntries <= Cardinality(M)
      BY <2>2, <3>2, <3>3, <3>5, <3>9
    <3>11. ASSUME NEW m \in M
           PROVE  \E j \in 1..Len(s) : s[j].no = m /\ s[j].ts >= s[i].ts /\ s[j].no # s[i].no
      <4>1. PICK a \in A : m = fresh[a].no
        OBVIOUS
      <4>2. fresh[a].no # s[i].no
        BY <1>1, <3>1, <3>4 DEF Distinct
      <4>3. PICK j \in 1..Len(s) : fresh[a] = s[j]
        BY <1>1, <3>4
      <4> QED BY <3>4, <4>1, <4>2, <4>3
    <3> HIDE DEF M
    <3> QED BY <3>9, <3>10, <3>11
  <2> QED BY <2>4, <2>5, <2>6, <2>7 DEF kept, Pruned
<1> QED BY <1>3, <1>4

-----------------------------------------------------------------------------
(* The cap of a site and the log of its spends *)

\* The entries that recordSpend makes of these spends.
EntriesOf(sp) ==
  {[no |-> n, site |-> sp[n].site, asset |-> sp[n].asset, net |-> sp[n].net,
    amount |-> sp[n].amount, ts |-> sp[n].ts] : n \in DOMAIN sp}

\* Of the spends a gate has seen, those that count are within its cap together
\* with what is asked for; as time passes, fewer count.
WithinCap(c, r, sp, t) ==
  c.at = "ok" /\ c.limit # None =>
    \A T \in SUBSET {sp[n] : n \in c.seen} :
      (\A e \in T : /\ e.site = r.site /\ e.asset = Caps!Asset(r) /\ e.net = c.net
                    /\ Caps!Fresh(e, t))
        => Caps!SumOf(T) + r.amount <= c.limit

CapGates(sp) == [at : {"none", "limit", "recent", "ok", "blocked"}, net : Networks \union {None},
                 limit : Limits \union {None}, seen : SUBSET DOMAIN sp]
Recorders(sp) == [at : {"none", "read", "write"}, no : Nat, copy : Seq(EntriesOf(sp))]

SpendFits(n) ==
  /\ spends[n].no = n /\ spends[n].amount \in Nat
  /\ spends[n].ts \in Nat /\ spends[n].ts <= now
  /\ spends[n].informed /\ spends[n].limit # None => spends[n].total <= spends[n].limit

\* Between the signature and its entry in the log, a spend has one recorder
\* and is in nobody's copy of the log.
RecorderFits(p) ==
  /\ Distinct(recorder[p].copy)
  /\ recorder[p].at # "none" =>
       /\ stage[p] = "done"
       /\ recorder[p].no \in DOMAIN spends \ Caps!Numbers(log)
       /\ \A q \in Asked : recorder[p].no \notin Caps!Numbers(recorder[q].copy)
       /\ \A q \in Asked \ {p} : recorder[q].at # "none" => recorder[q].no # recorder[p].no

Others(n, sp) == {m \in DOMAIN sp \ {n} : sp[m].ts >= sp[n].ts}

\* As in SpendsCounted, of one spend.
Counted(n) ==
  /\ n \notin gone
  /\ \A p \in Asked : ~(recorder[p].at # "none" /\ recorder[p].no = n)
  /\ Caps!Fresh(spends[n], now)
  /\ Cardinality(Others(n, spends)) < MaxEntries
  => n \in Caps!Numbers(log)

CapsTypes ==
  /\ now \in Nat /\ shown \in Networks
  /\ limit \in [Sites -> [Caps!Assets -> Limits \union {None}]]
  /\ spends \in Seq({spends[n] : n \in DOMAIN spends})
  /\ log \in Seq(EntriesOf(spends))
  /\ recorder \in [Asked -> Recorders(spends)]
  /\ cap \in [Asked -> CapGates(spends)]
  /\ \A p \in Asked : cap[p].at # "none" => request[p] \in AnyRequest
  /\ \A p \in Asked : stage[p] = "signing" => click[p].cap \in CapGates(spends)

CapsInv ==
  /\ CapsTypes
  /\ \A n \in DOMAIN spends : SpendFits(n)
  /\ Distinct(log)
  /\ \A p \in Asked : RecorderFits(p)
  /\ \A p \in Asked : WithinCap(cap[p], request[p], spends, now)
  /\ \A p \in Asked : stage[p] = "signing" => WithinCap(click[p].cap, request[p], spends, now)
  /\ \A n \in DOMAIN spends : Counted(n)

LEMMA CountedIs == Caps!SpendsCounted <=> \A n \in DOMAIN spends : Counted(n)
<1>1. \A n : Caps!Cardinality(Others(n, spends)) = Cardinality(Others(n, spends))
  BY CardinalityIs
<1> QED BY <1>1 DEF Caps!SpendsCounted, Counted, Others

LEMMA EntryFits ==
  ASSUME NEW sp, NEW e \in EntriesOf(sp)
  PROVE  /\ e.no \in DOMAIN sp
         /\ e.site = sp[e.no].site /\ e.asset = sp[e.no].asset /\ e.net = sp[e.no].net
         /\ e.amount = sp[e.no].amount /\ e.ts = sp[e.no].ts
         /\ e = [no |-> e.no, site |-> sp[e.no].site, asset |-> sp[e.no].asset,
                 net |-> sp[e.no].net, amount |-> sp[e.no].amount, ts |-> sp[e.no].ts]
BY DEF EntriesOf

\* Spends are only added, so gates, entries and logs stay what they are.
Later(sp, tp) == DOMAIN sp \subseteq DOMAIN tp /\ \A n \in DOMAIN sp : tp[n] = sp[n]

LEMMA EntriesStay ==
  ASSUME NEW sp, NEW tp, Later(sp, tp)
  PROVE  /\ EntriesOf(sp) \subseteq EntriesOf(tp)
         /\ Seq(EntriesOf(sp)) \subseteq Seq(EntriesOf(tp))
         /\ Recorders(sp) \subseteq Recorders(tp)
         /\ CapGates(sp) \subseteq CapGates(tp)
<1>1. EntriesOf(sp) \subseteq EntriesOf(tp)
  BY DEF EntriesOf, Later
<1>2. Seq(EntriesOf(sp)) \subseteq Seq(EntriesOf(tp))
  BY <1>1, SeqMonotonic
<1>3. Recorders(sp) \subseteq Recorders(tp)
  BY <1>2 DEF Recorders
<1>4. CapGates(sp) \subseteq CapGates(tp)
  BY DEF CapGates, Later
<1> QED BY <1>1, <1>2, <1>3, <1>4

LEMMA CapLater ==
  ASSUME NEW c, NEW r, NEW sp, NEW tp, NEW t \in Nat, NEW u \in Nat, t <= u,
         c.seen \subseteq DOMAIN sp, Later(sp, tp), \A n \in DOMAIN sp : sp[n].ts \in Nat,
         WithinCap(c, r, sp, t)
  PROVE  WithinCap(c, r, tp, u)
<1> SUFFICES ASSUME c.at = "ok", c.limit # None,
                    NEW T \in SUBSET {tp[n] : n \in c.seen},
                    \A e \in T : /\ e.site = r.site /\ e.asset = Caps!Asset(r) /\ e.net = c.net
                                 /\ Caps!Fresh(e, u)
             PROVE  Caps!SumOf(T) + r.amount <= c.limit
  BY DEF WithinCap
<1>1. {tp[n] : n \in c.seen} = {sp[n] : n \in c.seen}
  BY DEF Later
<1>2. ASSUME NEW e \in T PROVE Caps!Fresh(e, t)
  <2>1. PICK n \in c.seen : e = sp[n]
    BY <1>1
  <2>2. e.ts \in Nat /\ e.ts >= u - Day
    BY <2>1 DEF Caps!Fresh
  <2> QED BY <2>2, LimitsOK DEF Caps!Fresh
<1> QED BY <1>1, <1>2 DEF WithinCap

LEMMA NumbersOf ==
  ASSUME NEW sp, NEW s \in Seq(EntriesOf(sp))
  PROVE  /\ Caps!Numbers(s) = {s[i].no : i \in 1..Len(s)}
         /\ Caps!Numbers(s) \subseteq DOMAIN sp
<1>1. DOMAIN s = 1..Len(s) /\ \A i \in 1..Len(s) : s[i] \in EntriesOf(sp)
  OBVIOUS
<1> QED BY <1>1, EntryFits DEF Caps!Numbers

\* What has to hold for the log to count a spend held before.
LEMMA CountedBefore ==
  ASSUME CapsInv, Later(spends, spends'), IsFiniteSet(DOMAIN spends'),
         gone \subseteq gone', now' \in Nat, now <= now',
         NEW n \in DOMAIN spends, n \notin gone', Caps!Fresh(spends'[n], now'),
         Cardinality(Others(n, spends')) < MaxEntries
  PROVE  /\ n \notin gone /\ Caps!Fresh(spends[n], now)
         /\ Cardinality(Others(n, spends)) < MaxEntries
<1>1. spends'[n] = spends[n] /\ spends[n].ts \in Nat /\ now \in Nat
  BY DEF Later, CapsInv, SpendFits, CapsTypes
<1>2. Caps!Fresh(spends[n], now)
  BY <1>1, LimitsOK DEF Caps!Fresh
<1>3. Others(n, spends) \in SUBSET Others(n, spends') /\ Others(n, spends') \in SUBSET DOMAIN spends'
  BY DEF Later, Others
<1>4. /\ IsFiniteSet(Others(n, spends')) /\ IsFiniteSet(Others(n, spends))
      /\ Cardinality(Others(n, spends)) <= Cardinality(Others(n, spends'))
  BY <1>3, FS_Subset
<1>5. Cardinality(Others(n, spends)) \in Nat /\ Cardinality(Others(n, spends')) \in Nat
  BY <1>4, FS_CardinalityType
<1> QED BY <1>2, <1>4, <1>5, LimitsOK

LEMMA SpendsFinite ==
  ASSUME CapsInv
  PROVE  /\ Len(spends) \in Nat /\ DOMAIN spends = 1..Len(spends)
         /\ IsFiniteSet(DOMAIN spends)
         /\ Later(spends, spends)
<1>1. Len(spends) \in Nat /\ DOMAIN spends = 1..Len(spends)
  BY DEF CapsInv, CapsTypes
<1> QED BY <1>1, FS_Interval DEF Later

\* A step that leaves spends, log and recorders alone.
LEMMA CapsStay ==
  ASSUME CapsInv, UNCHANGED <<spends, log, recorder>>, gone \subseteq gone',
         now' \in Nat, now <= now', shown' \in Networks,
         limit' \in [Sites -> [Caps!Assets -> Limits \union {None}]],
         cap' \in [Asked -> CapGates(spends)],
         \A p \in Asked : cap'[p].at # "none" => request'[p] \in AnyRequest,
         \A p \in Asked : WithinCap(cap'[p], request'[p], spends, now'),
         \A p \in Asked : stage'[p] = "signing" =>
            /\ click'[p].cap \in CapGates(spends)
            /\ WithinCap(click'[p].cap, request'[p], spends, now'),
         \A p \in Asked : recorder[p].at # "none" => stage'[p] = "done"
  PROVE  CapsInv'
<1>1. CapsTypes'
  BY DEF CapsInv, CapsTypes
<1>2. \A n \in DOMAIN spends : SpendFits(n)'
  BY DEF CapsInv, CapsTypes, SpendFits
<1>3. \A p \in Asked : RecorderFits(p)'
  BY DEF CapsInv, RecorderFits
<1>4. ASSUME NEW n \in DOMAIN spends PROVE Counted(n)'
  <2> SUFFICES ASSUME n \notin gone', \A p \in Asked : ~(recorder[p].at # "none" /\ recorder[p].no = n),
                      Caps!Fresh(spends[n], now'), Cardinality(Others(n, spends)) < MaxEntries
               PROVE  n \in Caps!Numbers(log)
    BY DEF Counted
  <2>1. n \notin gone /\ Caps!Fresh(spends[n], now)
    BY SpendsFinite, CountedBefore
  <2> QED BY <2>1 DEF CapsInv, Counted
<1> QED BY <1>1, <1>2, <1>3, <1>4 DEF CapsInv

\* The same in a world that stands still.
LEMMA CapsStayNow ==
  ASSUME CapsInv, UNCHANGED <<spends, log, recorder, gone, now, shown, limit>>,
         cap' \in [Asked -> CapGates(spends)],
         \A p \in Asked : cap'[p].at # "none" => request'[p] \in AnyRequest,
         \A p \in Asked : WithinCap(cap'[p], request'[p], spends, now),
         \A p \in Asked : stage'[p] = "signing" =>
            /\ click'[p].cap \in CapGates(spends)
            /\ WithinCap(click'[p].cap, request'[p], spends, now),
         \A p \in Asked : recorder[p].at # "none" => stage'[p] = "done"
  PROVE  CapsInv'
<1>1. now' \in Nat /\ now <= now' /\ shown' \in Networks /\ gone \subseteq gone'
  BY DEF CapsInv, CapsTypes
<1>2. limit' \in [Sites -> [Caps!Assets -> Limits \union {None}]]
  BY DEF CapsInv, CapsTypes
<1> QED BY <1>1, <1>2, CapsStay

LEMMA LookupFits ==
  ASSUME NEW r, NEW net \in Networks
  PROVE  /\ Caps!Lookup(r, net) \in CapGates(spends)
         /\ \A t : WithinCap(Caps!Lookup(r, net), r, spends, t)
         /\ Caps!Lookup(r, net).at # "none" => r # None
<1> DEFINE c == Caps!Lookup(r, net)
<1>1. \/ c = Caps!NoCap /\ r = None
      \/ c = [Caps!NoCap EXCEPT !.at = "ok"] /\ r # None
      \/ c = [Caps!NoCap EXCEPT !.at = "limit", !.net = net] /\ r # None
  BY DEF Caps!Lookup
<1> HIDE DEF c
<1>2. c \in CapGates(spends) /\ c.limit = None
  <2>1. \/ c = [at |-> "none", net |-> None, limit |-> None, seen |-> {}]
        \/ c = [at |-> "ok", net |-> None, limit |-> None, seen |-> {}]
        \/ c = [at |-> "limit", net |-> net, limit |-> None, seen |-> {}]
    BY <1>1 DEF Caps!NoCap
  <2>2. {} \in SUBSET DOMAIN spends /\ net \in Networks \union {None}
        /\ None \in Networks \union {None} /\ None \in Limits \union {None}
    OBVIOUS
  <2> QED BY <2>1, <2>2 DEF CapGates
<1>3. c.at # "none" => r # None
  BY <1>1 DEF Caps!NoCap
<1> QED BY <1>2, <1>3 DEF WithinCap, c

LEMMA CapShowKeeps ==
  ASSUME CapsInv, GatesInv, NEW p \in Asked, Caps!Show(p)
  PROVE  CapsInv'
<1>1. PICK r \in AnyRequest : request' = [request EXCEPT ![p] = r]
  BY AsksOK DEF Caps!Show
<1>2. /\ stage[p] = "none" /\ stage' = [stage EXCEPT ![p] = "review"]
      /\ cap' = [cap EXCEPT ![p] = Caps!Lookup(request'[p], shown)]
      /\ UNCHANGED <<spends, log, recorder, gone, now, shown, limit, click>>
  BY DEF Caps!Show, Caps!world
<1>3. request'[p] = r /\ \A q \in Asked \ {p} : request'[q] = request[q] /\ stage'[q] = stage[q]
  BY <1>1, <1>2 DEF GatesInv
<1>4. stage'[p] = "review"
  BY <1>2 DEF GatesInv
<1> DEFINE c == Caps!Lookup(request'[p], shown)
<1>5. c \in CapGates(spends) /\ WithinCap(c, request'[p], spends, now)
  BY LookupFits DEF CapsInv, CapsTypes
<1> HIDE DEF c
<1>6. cap' \in [Asked -> CapGates(spends)] /\ cap'[p] = c
      /\ \A q \in Asked \ {p} : cap'[q] = cap[q]
  BY <1>2, <1>5 DEF CapsInv, CapsTypes, c
<1>7. \A q \in Asked : cap'[q].at # "none" => request'[q] \in AnyRequest
  BY <1>3, <1>6 DEF CapsInv, CapsTypes
<1>8. \A q \in Asked : WithinCap(cap'[q], request'[q], spends, now)
  BY <1>3, <1>5, <1>6 DEF CapsInv
<1>9. \A q \in Asked : stage'[q] = "signing" =>
         click'[q].cap \in CapGates(spends) /\ WithinCap(click'[q].cap, request'[q], spends, now)
  BY <1>2, <1>3, <1>4 DEF CapsInv, CapsTypes
<1>10. \A q \in Asked : recorder[q].at # "none" => stage'[q] = "done"
  BY <1>2, <1>3 DEF CapsInv, RecorderFits
<1> QED BY <1>2, <1>6, <1>7, <1>8, <1>9, <1>10, CapsStayNow

\* A page's gate gets a value that is within its cap.
LEMMA GateKeeps ==
  ASSUME CapsInv, NEW p \in Asked, NEW c \in CapGates(spends), cap[p].at # "none",
         cap' = [cap EXCEPT ![p] = c], WithinCap(c, request[p], spends, now),
         UNCHANGED <<spends, log, recorder, gone, now, shown, limit, click, stage, request>>
  PROVE  CapsInv'
<1>1. cap' \in [Asked -> CapGates(spends)] /\ cap'[p] = c
      /\ \A q \in Asked \ {p} : cap'[q] = cap[q]
  BY DEF CapsInv, CapsTypes
<1>2. \A q \in Asked : cap'[q].at # "none" => request'[q] \in AnyRequest
  BY <1>1 DEF CapsInv, CapsTypes
<1>3. \A q \in Asked : WithinCap(cap'[q], request'[q], spends, now)
  BY <1>1 DEF CapsInv
<1>4. \A q \in Asked : stage'[q] = "signing" =>
         click'[q].cap \in CapGates(spends) /\ WithinCap(click'[q].cap, request'[q], spends, now)
  BY DEF CapsInv, CapsTypes
<1>5. \A q \in Asked : recorder[q].at # "none" => stage'[q] = "done"
  BY DEF CapsInv, RecorderFits
<1> QED BY <1>1, <1>2, <1>3, <1>4, <1>5, CapsStayNow

LEMMA ReadLimitKeeps ==
  ASSUME CapsInv, NEW p \in Asked, Caps!ReadLimit(p)
  PROVE  CapsInv'
<1>1. cap[p].at = "limit" /\ cap[p] \in CapGates(spends) /\ request[p] \in AnyRequest
  BY DEF Caps!ReadLimit, CapsInv, CapsTypes
<1>2. PICK most \in {limit[request[p].site][Caps!Asset(request[p])], None} :
        cap' = [cap EXCEPT ![p].limit = most,
                           ![p].at = IF most = None THEN "ok" ELSE "recent"]
  BY DEF Caps!ReadLimit
<1>3. most \in Limits \union {None}
  <2>1. Caps!Asset(request[p]) \in Caps!Assets /\ request[p].site \in Sites
    BY <1>1 DEF Caps!Asset, Caps!Assets, AnyRequest
  <2> QED BY <2>1 DEF CapsInv, CapsTypes
<1> DEFINE c == [cap[p] EXCEPT !.limit = most, !.at = IF most = None THEN "ok" ELSE "recent"]
<1>4. c \in CapGates(spends)
  BY <1>1, <1>3 DEF CapGates
<1>5. c.at = "ok" => c.limit = None
  BY <1>1 DEF CapGates
<1>6. cap' = [cap EXCEPT ![p] = c]
  BY <1>1, <1>2 DEF CapsInv, CapsTypes, CapGates
<1> HIDE DEF c
<1>7. WithinCap(c, request[p], spends, now)
  BY <1>5 DEF WithinCap
<1>8. UNCHANGED <<spends, log, recorder, gone, now, shown, limit, click, stage, request>>
  BY DEF Caps!ReadLimit, Caps!world
<1> QED BY <1>1, <1>4, <1>6, <1>7, <1>8, GateKeeps

\* The elements of a log are finitely many.
LEMMA ToSetFinite ==
  ASSUME NEW E, NEW s \in Seq(E)
  PROVE  /\ Caps!ToSet(s) = {s[i] : i \in 1..Len(s)}
         /\ IsFiniteSet(Caps!ToSet(s))
<1> DEFINE R == {s[i] : i \in 1..Len(s)}
<1>1. DOMAIN s = 1..Len(s) /\ Len(s) \in Nat
  OBVIOUS
<1>2. Caps!ToSet(s) = R
  BY <1>1 DEF Caps!ToSet
<1>3. s \in [1..Len(s) -> R]
  BY <1>1
<1>4. s \in Surjection(1..Len(s), R)
  BY <1>3, Fun_IsSurj
<1>5. IsFiniteSet(1..Len(s))
  BY <1>1, FS_Interval
<1> HIDE DEF R
<1>6. IsFiniteSet(R)
  BY <1>4, <1>5, FS_Surjection
<1> QED BY <1>2, <1>6 DEF R

\* What a page sums up of the log is at least what its spends of the day are.
LEMMA RecentCovers ==
  ASSUME CapsInv, NEW s \in Seq(EntriesOf(spends)), NEW r, NEW net,
         NEW T \in SUBSET {spends[n] : n \in Caps!Numbers(s)},
         \A e \in T : /\ e.site = r.site /\ e.asset = Caps!Asset(r) /\ e.net = net
                      /\ Caps!Fresh(e, now)
  PROVE  /\ Caps!SumOf(T) <= Caps!SumOf(Caps!Recent(s, r, net))
         /\ Caps!SumOf(T) \in Nat /\ Caps!SumOf(Caps!Recent(s, r, net)) \in Nat
<1> DEFINE S == Caps!Recent(s, r, net)
           f == [e \in T |-> Caps!Entry(e.no)]
<1>1. Caps!Numbers(s) = {s[i].no : i \in 1..Len(s)} /\ Caps!Numbers(s) \subseteq DOMAIN spends
  BY NumbersOf
<1>2. ASSUME NEW e \in T
      PROVE  e.no \in Caps!Numbers(s) /\ e = spends[e.no] /\ e.amount \in Nat
  BY <1>1 DEF CapsInv, SpendFits
<1>3. Caps!ToSet(s) = {s[i] : i \in 1..Len(s)} /\ IsFiniteSet(Caps!ToSet(s))
  BY ToSetFinite
<1>4. ASSUME NEW e \in T
      PROVE  /\ Caps!Entry(e.no) \in S
             /\ Caps!Entry(e.no).no = e.no /\ Caps!Entry(e.no).amount = e.amount
  <2>1. PICK i \in 1..Len(s) : s[i].no = e.no
    BY <1>1, <1>2
  <2>2. s[i] \in EntriesOf(spends)
    OBVIOUS
  <2>3. s[i] = Caps!Entry(e.no)
    BY <2>1, <2>2, EntryFits DEF Caps!Entry
  <2>4. /\ s[i].site = e.site /\ s[i].asset = e.asset /\ s[i].net = e.net
        /\ s[i].amount = e.amount /\ s[i].ts = e.ts
    BY <1>2, <2>1, <2>2, EntryFits
  <2>5. s[i] \in S
    BY <1>3, <2>4 DEF Caps!Recent, Caps!Fresh
  <2> QED BY <2>1, <2>3, <2>4, <2>5
<1>5. IsFiniteSet(S) /\ \A e \in S : e.amount \in Nat
  <2>1. S \in SUBSET Caps!ToSet(s)
    BY DEF Caps!Recent
  <2>2. \A e \in S : e \in EntriesOf(spends)
    BY <1>3, <2>1
  <2> QED BY <1>3, <2>1, <2>2, EntryFits, FS_Subset DEF CapsInv, SpendFits
<1>6. f \in [T -> S] /\ \A e \in T : f[e].amount = e.amount
  BY <1>4
<1>7. \A d, e \in T : f[d] = f[e] => d = e
  BY <1>2, <1>4
<1>8. IsFiniteSet(T)
  <2>1. spends \in Seq({spends[n] : n \in DOMAIN spends})
    BY DEF CapsInv, CapsTypes
  <2>2. Caps!ToSet(spends) = {spends[i] : i \in 1..Len(spends)} /\ IsFiniteSet(Caps!ToSet(spends))
    BY <2>1, ToSetFinite
  <2>3. T \in SUBSET Caps!ToSet(spends)
    BY <1>1, <2>2, SpendsFinite
  <2> QED BY <2>2, <2>3, FS_Subset
<1> HIDE DEF S, f
<1>9. Caps!SumOf(T) <= Caps!SumOf(S)
  BY <1>5, <1>6, <1>7, <1>8, SumOfImage
<1>10. Caps!SumOf(T) \in Nat /\ Caps!SumOf(S) \in Nat
  BY <1>2, <1>5, <1>8, SumIsNat
<1> QED BY <1>9, <1>10 DEF S

LEMMA ReadRecentKeeps ==
  ASSUME CapsInv, NEW p \in Asked, Caps!ReadRecent(p)
  PROVE  CapsInv'
<1>1. cap[p].at = "recent" /\ cap[p] \in CapGates(spends) /\ request[p] \in AnyRequest
  BY DEF Caps!ReadRecent, CapsInv, CapsTypes
<1>2. PICK read \in {log, <<>>} :
        cap' = [cap EXCEPT ![p].seen = Caps!Numbers(read),
                           ![p].at = IF Caps!Exceeds(request[p].amount,
                                          Caps!SumOf(Caps!Recent(read, request[p], cap[p].net)),
                                          cap[p].limit)
                                     THEN "blocked" ELSE "ok"]
  BY DEF Caps!ReadRecent
<1>3. read \in Seq(EntriesOf(spends))
  <2>1. <<>> \in Seq(EntriesOf(spends)) /\ log \in Seq(EntriesOf(spends))
    BY EmptySeq DEF CapsInv, CapsTypes
  <2> QED BY <2>1
<1>4. Caps!Numbers(read) \in SUBSET DOMAIN spends
  BY <1>3, NumbersOf
<1> DEFINE total == Caps!SumOf(Caps!Recent(read, request[p], cap[p].net))
           at == IF Caps!Exceeds(request[p].amount, total, cap[p].limit) THEN "blocked" ELSE "ok"
           c == [cap[p] EXCEPT !.seen = Caps!Numbers(read), !.at = at]
<1>5. at \in {"blocked", "ok"}
  OBVIOUS
<1>6. cap' = [cap EXCEPT ![p] = c]
  <2> HIDE DEF at
  <2>1. cap' = [cap EXCEPT ![p].seen = Caps!Numbers(read), ![p].at = at]
    BY <1>2 DEF at
  <2> QED BY <1>1, <2>1 DEF CapsInv, CapsTypes, CapGates
<1>7. /\ c \in CapGates(spends) /\ c.seen = Caps!Numbers(read) /\ c.at = at
      /\ c.limit = cap[p].limit /\ c.net = cap[p].net
  <2> HIDE DEF at
  <2> QED BY <1>1, <1>4, <1>5 DEF CapGates
<1> HIDE DEF c
<1>8. WithinCap(c, request[p], spends, now)
  <2> SUFFICES ASSUME at = "ok", cap[p].limit # None,
                      NEW T \in SUBSET {spends[n] : n \in Caps!Numbers(read)},
                      \A e \in T : /\ e.site = request[p].site
                                   /\ e.asset = Caps!Asset(request[p]) /\ e.net = cap[p].net
                                   /\ Caps!Fresh(e, now)
               PROVE  Caps!SumOf(T) + request[p].amount <= cap[p].limit
    BY <1>7 DEF WithinCap
  <2>1. Caps!SumOf(T) <= total /\ Caps!SumOf(T) \in Nat /\ total \in Nat
    BY <1>3, RecentCovers
  <2>2. cap[p].limit \in Nat /\ request[p].amount \in Nat
    BY <1>1, LimitsOK DEF CapGates, AnyRequest
  <2> HIDE DEF total
  <2>3. ~(total + request[p].amount > cap[p].limit)
    BY DEF Caps!Exceeds
  <2> QED BY <2>1, <2>2, <2>3
<1>9. UNCHANGED <<spends, log, recorder, gone, now, shown, limit, click, stage, request>>
  BY DEF Caps!ReadRecent, Caps!world
<1> QED BY <1>1, <1>6, <1>7, <1>8, <1>9, GateKeeps

LEMMA ApproveCapKeeps ==
  ASSUME CapsInv, GatesInv, NEW p \in Asked, Caps!Approve(p)
  PROVE  CapsInv'
<1>1. /\ stage[p] = "review" /\ stage' = [stage EXCEPT ![p] = "signing"]
      /\ click' = [click EXCEPT ![p] = [net |-> shown, cap |-> cap[p], snap |-> snap[p]]]
      /\ UNCHANGED <<spends, log, recorder, gone, now, shown, limit, cap, request>>
  BY DEF Caps!Approve, Caps!world
<1>2. /\ click'[p].cap = cap[p]
      /\ \A q \in Asked \ {p} : click'[q] = click[q] /\ stage'[q] = stage[q]
  BY <1>1 DEF GatesInv
<1>3. \A q \in Asked : stage'[q] = "signing" =>
         click'[q].cap \in CapGates(spends) /\ WithinCap(click'[q].cap, request'[q], spends, now)
  BY <1>1, <1>2 DEF CapsInv, CapsTypes
<1>4. \A q \in Asked : recorder[q].at # "none" => stage'[q] = "done"
  BY <1>1, <1>2 DEF CapsInv, RecorderFits
<1>5. /\ cap' \in [Asked -> CapGates(spends)]
      /\ \A q \in Asked : cap'[q].at # "none" => request'[q] \in AnyRequest
      /\ \A q \in Asked : WithinCap(cap'[q], request'[q], spends, now)
  BY <1>1 DEF CapsInv, CapsTypes
<1> QED BY <1>1, <1>3, <1>4, <1>5, CapsStayNow

\* A lookup of a balance, or a signature that fails.
LEMMA NothingSignedKeeps ==
  ASSUME CapsInv, GatesInv, NEW p \in Asked,
         \/ \E q \in DOMAIN Caps!NoLookups : Caps!Answer(p, q)
         \/ Caps!SignFails(p)
  PROVE  CapsInv'
<1>1. /\ \/ stage' = stage
         \/ stage[p] = "signing" /\ stage' = [stage EXCEPT ![p] = "review"]
      /\ UNCHANGED <<spends, log, recorder, gone, now, shown, limit, cap, click, request>>
  BY DEF Caps!Answer, Caps!SignFails, Caps!world
<1>2. \A q \in Asked : \/ stage'[q] = stage[q]
                       \/ stage[q] = "signing" /\ stage'[q] = "review"
  BY <1>1 DEF GatesInv
<1>3. \A q \in Asked : stage'[q] = "signing" =>
         click'[q].cap \in CapGates(spends) /\ WithinCap(click'[q].cap, request'[q], spends, now)
  BY <1>1, <1>2 DEF CapsInv, CapsTypes
<1>4. \A q \in Asked : recorder[q].at # "none" => stage'[q] = "done"
  BY <1>1, <1>2 DEF CapsInv, RecorderFits
<1>5. /\ cap' \in [Asked -> CapGates(spends)]
      /\ \A q \in Asked : cap'[q].at # "none" => request'[q] \in AnyRequest
      /\ \A q \in Asked : WithinCap(cap'[q], request'[q], spends, now)
  BY <1>1 DEF CapsInv, CapsTypes
<1> QED BY <1>1, <1>3, <1>4, <1>5, CapsStayNow

\* The world moves while the pages stand still: the gates start over or stay.
LEMMA WorldKeeps ==
  ASSUME CapsInv,
         UNCHANGED <<spends, log, recorder, gone, request, stage, click>>,
         now' \in Nat, now <= now', shown' \in Networks,
         limit' \in [Sites -> [Caps!Assets -> Limits \union {None}]],
         cap' = cap \/ cap' = [p \in Asked |-> Caps!Lookup(request[p], shown')],
         request \in [Asked -> AnyRequest \union {None}]
  PROVE  CapsInv'
<1>1. Later(spends, spends) /\ \A n \in DOMAIN spends : spends[n].ts \in Nat
  BY SpendsFinite DEF CapsInv, SpendFits
<1>2. ASSUME NEW c \in CapGates(spends), NEW r, WithinCap(c, r, spends, now)
      PROVE  WithinCap(c, r, spends, now')
  <2>1. c.seen \subseteq DOMAIN spends /\ now \in Nat
    BY DEF CapGates, CapsInv, CapsTypes
  <2> QED BY <1>1, <1>2, <2>1, CapLater
<1>3. ASSUME NEW p \in Asked
      PROVE  /\ cap'[p] \in CapGates(spends)
             /\ cap'[p].at # "none" => request[p] \in AnyRequest
             /\ WithinCap(cap'[p], request[p], spends, now')
  <2>1. CASE cap' = cap
    <3>1. cap[p] \in CapGates(spends) /\ WithinCap(cap[p], request[p], spends, now)
      BY DEF CapsInv, CapsTypes
    <3> QED BY <1>2, <2>1, <3>1 DEF CapsInv, CapsTypes
  <2>2. CASE cap' = [q \in Asked |-> Caps!Lookup(request[q], shown')]
    <3>1. cap'[p] = Caps!Lookup(request[p], shown')
      BY <2>2
    <3> QED BY <3>1, LookupFits
  <2> QED BY <2>1, <2>2
<1>4. cap' \in [Asked -> CapGates(spends)]
  <2>1. CASE cap' = cap
    BY <2>1 DEF CapsInv, CapsTypes
  <2>2. CASE cap' = [p \in Asked |-> Caps!Lookup(request[p], shown')]
    BY <1>3, <2>2
  <2> QED BY <2>1, <2>2
<1>5. \A p \in Asked : stage'[p] = "signing" =>
         /\ click'[p].cap \in CapGates(spends)
         /\ WithinCap(click'[p].cap, request'[p], spends, now')
  BY <1>2 DEF CapsInv, CapsTypes
<1>6. \A p \in Asked : recorder[p].at # "none" => stage'[p] = "done"
  BY DEF CapsInv, RecorderFits
<1>7. gone \subseteq gone'
  OBVIOUS
<1>8. /\ \A p \in Asked : cap'[p].at # "none" => request'[p] \in AnyRequest
      /\ \A p \in Asked : WithinCap(cap'[p], request'[p], spends, now')
  BY <1>3
<1> QED BY <1>4, <1>5, <1>6, <1>7, <1>8, CapsStay

LEMMA WorldStepsKeep ==
  ASSUME CapsInv, GatesInv,
         \/ \E n \in Networks : Caps!SwitchNetwork(n)
         \/ \E s \in Sites, a \in Caps!Assets, most \in Limits \union {None} : Caps!SetLimit(s, a, most)
         \/ \E s \in Sites : Caps!Reconnect(s)
         \/ Caps!Tick
         \/ UNCHANGED Caps!vars
  PROVE  CapsInv'
<1>1. /\ now \in Nat /\ shown \in Networks
      /\ limit \in [Sites -> [Caps!Assets -> Limits \union {None}]]
      /\ request \in [Asked -> AnyRequest \union {None}]
  BY DEF CapsInv, CapsTypes, GatesInv
<1>2. UNCHANGED <<spends, log, recorder, gone, request, stage, click>>
  BY DEF Caps!SwitchNetwork, Caps!SetLimit, Caps!Reconnect, Caps!Tick, Caps!vars
<1>3. now' \in Nat /\ now <= now'
  BY <1>1 DEF Caps!SwitchNetwork, Caps!SetLimit, Caps!Reconnect, Caps!Tick, Caps!vars, Caps!world
<1>4. /\ shown' \in Networks
      /\ cap' = cap \/ cap' = [p \in Asked |-> Caps!Lookup(request[p], shown')]
  BY <1>1 DEF Caps!SwitchNetwork, Caps!SetLimit, Caps!Reconnect, Caps!Tick, Caps!vars, Caps!world
<1>5. limit' \in [Sites -> [Caps!Assets -> Limits \union {None}]]
  <2>1. CASE \E s \in Sites, a \in Caps!Assets, most \in Limits \union {None} : Caps!SetLimit(s, a, most)
    BY <1>1, <2>1 DEF Caps!SetLimit
  <2>2. CASE \E s \in Sites : Caps!Reconnect(s)
    BY <1>1, <2>2 DEF Caps!Reconnect
  <2>3. CASE limit' = limit
    BY <1>1, <2>3
  <2> QED BY <2>1, <2>2, <2>3 DEF Caps!SwitchNetwork, Caps!Tick, Caps!vars, Caps!world
<1> QED BY <1>1, <1>2, <1>3, <1>4, <1>5, WorldKeeps

\* A page closes: what it had not recorded is gone.
LEMMA CloseKeeps ==
  ASSUME CapsInv, GatesInv, NEW p \in Asked, Caps!Close(p)
  PROVE  CapsInv'
<1>1. /\ stage' = [stage EXCEPT ![p] = "closed"]
      /\ recorder' = [recorder EXCEPT ![p] = Caps!NoRecorder]
      /\ gone' = IF recorder[p].at = "none" THEN gone ELSE gone \union {recorder[p].no}
      /\ UNCHANGED <<spends, log, now, shown, limit, cap, click, request>>
  BY DEF Caps!Close, Caps!world
<1>2. /\ stage'[p] = "closed" /\ recorder'[p] = Caps!NoRecorder
      /\ \A q \in Asked \ {p} : stage'[q] = stage[q] /\ recorder'[q] = recorder[q]
  BY <1>1 DEF GatesInv, CapsInv, CapsTypes
<1>3. Caps!NoRecorder \in Recorders(spends)
  BY EmptySeq DEF Caps!NoRecorder, Recorders
<1>4. CapsTypes'
  <2>1. recorder' \in [Asked -> Recorders(spends)]
    BY <1>1, <1>3 DEF CapsInv, CapsTypes
  <2>2. \A q \in Asked : stage'[q] = "signing" => click'[q].cap \in CapGates(spends)
    BY <1>1, <1>2 DEF CapsInv, CapsTypes
  <2> QED BY <1>1, <2>1, <2>2 DEF CapsInv, CapsTypes
<1>5. \A n \in DOMAIN spends' : SpendFits(n)'
  BY <1>1 DEF CapsInv, SpendFits
<1>6. Caps!Numbers(Caps!NoRecorder.copy) = {} /\ Distinct(Caps!NoRecorder.copy)
      /\ Caps!NoRecorder.at = "none"
  BY DEF Caps!NoRecorder, Caps!Numbers, Distinct
<1>7. ASSUME NEW q \in Asked PROVE RecorderFits(q)'
  <2>1. CASE q = p
    BY <1>2, <1>6, <2>1 DEF RecorderFits
  <2>2. CASE q # p
    <3>1. RecorderFits(q)
      BY DEF CapsInv
    <3> QED BY <1>1, <1>2, <1>6, <2>2, <3>1 DEF RecorderFits
  <2> QED BY <2>1, <2>2
<1>8. \A q \in Asked : WithinCap(cap'[q], request'[q], spends', now')
  BY <1>1 DEF CapsInv
<1>9. \A q \in Asked : stage'[q] = "signing" => WithinCap(click'[q].cap, request'[q], spends', now')
  BY <1>1, <1>2 DEF CapsInv
<1>10. ASSUME NEW n \in DOMAIN spends PROVE Counted(n)'
  <2> SUFFICES ASSUME n \notin gone',
                      \A q \in Asked : ~(recorder'[q].at # "none" /\ recorder'[q].no = n),
                      Caps!Fresh(spends[n], now), Cardinality(Others(n, spends)) < MaxEntries
               PROVE  n \in Caps!Numbers(log)
    BY <1>1 DEF Counted
  <2>1. n \notin gone /\ ~(recorder[p].at # "none" /\ recorder[p].no = n)
    BY <1>1
  <2>2. \A q \in Asked : ~(recorder[q].at # "none" /\ recorder[q].no = n)
    BY <1>2, <2>1
  <2> QED BY <2>1, <2>2 DEF CapsInv, Counted
<1> QED BY <1>1, <1>4, <1>5, <1>7, <1>8, <1>9, <1>10 DEF CapsInv

\* A copy of the log is the log, or empty.
LEMMA ReadLogKeeps ==
  ASSUME CapsInv, NEW p \in Asked, Caps!ReadLog(p)
  PROVE  CapsInv'
<1>1. PICK read \in {log, <<>>} :
        recorder' = [recorder EXCEPT ![p].at = "write", ![p].copy = read]
  BY DEF Caps!ReadLog
<1>2. /\ recorder[p].at = "read"
      /\ UNCHANGED <<spends, log, gone, now, shown, limit, cap, click, request, stage>>
  BY DEF Caps!ReadLog, Caps!world
<1>3. recorder \in [Asked -> Recorders(spends)]
  BY DEF CapsInv, CapsTypes
<1> DEFINE c == [recorder[p] EXCEPT !.at = "write", !.copy = read]
<1>4. /\ read \in Seq(EntriesOf(spends)) /\ Distinct(read)
      /\ Caps!Numbers(read) \subseteq Caps!Numbers(log)
  <2>1. CASE read = log
    BY <2>1 DEF CapsInv, CapsTypes
  <2>2. CASE read = <<>>
    BY <2>2, EmptySeq DEF Distinct, Caps!Numbers
  <2> QED BY <2>1, <2>2
<1>5. /\ c \in Recorders(spends) /\ c.at = "write" /\ c.no = recorder[p].no /\ c.copy = read
  BY <1>3, <1>4 DEF Recorders
<1>6. recorder' = [recorder EXCEPT ![p] = c]
  BY <1>1, <1>3 DEF Recorders
<1> HIDE DEF c
<1>7. /\ recorder' \in [Asked -> Recorders(spends)] /\ recorder'[p] = c
      /\ \A q \in Asked \ {p} : recorder'[q] = recorder[q]
  BY <1>3, <1>5, <1>6
<1>8. \A q \in Asked : recorder'[q].no = recorder[q].no
                       /\ (recorder'[q].at # "none" <=> recorder[q].at # "none")
  BY <1>2, <1>5, <1>7
<1>9. CapsTypes'
  BY <1>2, <1>7 DEF CapsInv, CapsTypes
<1>10. \A n \in DOMAIN spends' : SpendFits(n)'
  BY <1>2 DEF CapsInv, SpendFits
<1>11. ASSUME NEW q \in Asked PROVE RecorderFits(q)'
  <2>1. RecorderFits(q)
    BY DEF CapsInv
  <2>2. Distinct(recorder'[q].copy)
    BY <1>4, <1>5, <1>7, <2>1 DEF RecorderFits
  <2>3. ASSUME recorder'[q].at # "none"
        PROVE  /\ recorder'[q].no \in DOMAIN spends \ Caps!Numbers(log)
               /\ \A o \in Asked : recorder'[q].no \notin Caps!Numbers(recorder'[o].copy)
    BY <1>4, <1>5, <1>7, <1>8, <2>1, <2>3 DEF RecorderFits
  <2> QED BY <1>2, <1>8, <2>1, <2>2, <2>3 DEF RecorderFits
<1>12. /\ \A q \in Asked : WithinCap(cap'[q], request'[q], spends', now')
       /\ \A q \in Asked : stage'[q] = "signing" => WithinCap(click'[q].cap, request'[q], spends', now')
  BY <1>2 DEF CapsInv
<1>13. \A n \in DOMAIN spends : Counted(n)'
  BY <1>2, <1>8 DEF CapsInv, Counted
<1> QED BY <1>2, <1>9, <1>10, <1>11, <1>12, <1>13 DEF CapsInv

\* A token transfer is not counted.
LEMMA SignTokenKeeps ==
  ASSUME CapsInv, GatesInv, NEW p \in Asked, Caps!Sign(p), request[p].kind = "token"
  PROVE  CapsInv'
<1>1. /\ stage[p] = "signing"
      /\ \E st \in {"done", "review"} : stage' = [stage EXCEPT ![p] = st]
      /\ UNCHANGED <<spends, log, recorder, now, shown, limit, cap, click, request>>
      /\ gone \subseteq gone'
  BY DEF Caps!Sign, Caps!world
<1>2. \A q \in Asked \ {p} : stage'[q] = stage[q]
  BY <1>1 DEF GatesInv
<1>3. stage'[p] # "signing"
  BY <1>1 DEF GatesInv
<1>4. \A q \in Asked : stage'[q] = "signing" =>
         /\ click'[q].cap \in CapGates(spends)
         /\ WithinCap(click'[q].cap, request'[q], spends, now')
  BY <1>1, <1>2, <1>3 DEF CapsInv, CapsTypes
<1>5. \A q \in Asked : recorder[q].at # "none" => stage'[q] = "done"
  BY <1>1, <1>2 DEF CapsInv, RecorderFits
<1>6. /\ cap' \in [Asked -> CapGates(spends)]
      /\ \A q \in Asked : cap'[q].at # "none" => request'[q] \in AnyRequest
      /\ \A q \in Asked : WithinCap(cap'[q], request'[q], spends, now')
  BY <1>1 DEF CapsInv, CapsTypes
<1>7. /\ now' \in Nat /\ now <= now' /\ shown' \in Networks
      /\ limit' \in [Sites -> [Caps!Assets -> Limits \union {None}]]
  BY <1>1 DEF CapsInv, CapsTypes
<1> QED BY <1>1, <1>4, <1>5, <1>6, <1>7, CapsStay

\* What is signed by a page that has seen every spend of the day is within
\* the cap, of which nothing was taken since the gate was computed.
LEMMA SpendWithin ==
  ASSUME CapsInv, NEW p \in Asked, stage[p] = "signing", request[p] \in AnyRequest
  PROVE  LET s == Caps!Spend(p) IN
         /\ s.no = Len(spends) + 1 /\ s.amount \in Nat /\ s.ts = now
         /\ s.informed /\ s.limit # None => s.total <= s.limit
<1> DEFINE r == request[p]
           c == click[p].cap
           net == click[p].net
           before == Caps!Recent(spends, r, net)
           s == Caps!Spend(p)
<1>1. /\ s.no = Len(spends) + 1 /\ s.amount = r.amount /\ s.ts = now
      /\ s.limit = c.limit /\ s.total = Caps!SumOf(before) + r.amount
      /\ s.informed <=> c.at = "ok" /\ c.net = net /\ \A e \in before : e.no \in c.seen
  BY DEF Caps!Spend
<1>2. r.amount \in Nat
  BY DEF AnyRequest
<1> HIDE DEF s
<1>3. ASSUME s.informed, s.limit # None PROVE s.total <= s.limit
  <2>1. c.at = "ok" /\ c.net = net /\ c.limit # None /\ \A e \in before : e.no \in c.seen
    BY <1>1, <1>3
  <2>2. WithinCap(c, r, spends, now) /\ c \in CapGates(spends)
    BY DEF CapsInv, CapsTypes
  <2>3. ASSUME NEW e \in before
        PROVE  /\ e \in {spends[n] : n \in c.seen}
               /\ e.site = r.site /\ e.asset = Caps!Asset(r) /\ e.net = c.net
               /\ Caps!Fresh(e, now)
    <3>1. spends \in Seq({spends[n] : n \in DOMAIN spends})
      BY DEF CapsInv, CapsTypes
    <3>2. Caps!ToSet(spends) = {spends[i] : i \in 1..Len(spends)}
      BY <3>1, ToSetFinite
    <3>3. PICK i \in 1..Len(spends) : e = spends[i]
      BY <3>2 DEF Caps!Recent
    <3>4. e.no = i
      BY <3>3, SpendsFinite DEF CapsInv, SpendFits
    <3>5. /\ e.site = r.site /\ e.asset = Caps!Asset(r) /\ e.net = net
          /\ Caps!Fresh(e, now)
      BY DEF Caps!Recent
    <3> QED BY <2>1, <3>3, <3>4, <3>5
  <2>4. before \in SUBSET {spends[n] : n \in c.seen}
    BY <2>3
  <2> HIDE DEF before
  <2>5. Caps!SumOf(before) + r.amount <= c.limit
    BY <2>1, <2>2, <2>3, <2>4 DEF WithinCap
  <2> QED BY <1>1, <2>5
<1> QED BY <1>1, <1>2, <1>3 DEF s

\* A transfer or a PSBT is signed: it is recorded, or its answer is lost.
LEMMA SignSpendKeeps ==
  ASSUME CapsInv, GatesInv, NEW p \in Asked, Caps!Sign(p), request[p].kind # "token"
  PROVE  CapsInv'
<1> DEFINE s == Caps!Spend(p)
           n == Len(spends) + 1
<1>1. /\ stage[p] = "signing" /\ spends' = Append(spends, s)
      /\ \/ /\ stage' = [stage EXCEPT ![p] = "done"]
            /\ recorder' = [recorder EXCEPT ![p].at = "read", ![p].no = n]
            /\ gone' = gone
         \/ /\ stage' = [stage EXCEPT ![p] = "review"]
            /\ recorder' = recorder
            /\ gone' = gone \union (DOMAIN spends' \ DOMAIN spends)
      /\ UNCHANGED <<log, now, shown, limit, cap, click, request>>
  BY DEF Caps!Sign, Caps!world
<1>2. request[p] \in AnyRequest
  BY <1>1 DEF GatesInv
<1>3. /\ s.no = n /\ s.amount \in Nat /\ s.ts = now
      /\ s.informed /\ s.limit # None => s.total <= s.limit
  BY <1>1, <1>2, SpendWithin
<1> HIDE DEF s
<1>4. /\ Len(spends) \in Nat /\ DOMAIN spends = 1..Len(spends) /\ IsFiniteSet(DOMAIN spends)
  BY SpendsFinite
<1>5. /\ DOMAIN spends' = (DOMAIN spends) \union {n} /\ n \notin DOMAIN spends
      /\ spends'[n] = s /\ \A m \in DOMAIN spends : spends'[m] = spends[m]
      /\ spends' \in Seq({spends'[m] : m \in DOMAIN spends'})
  <2> DEFINE S == {spends[m] : m \in DOMAIN spends} \union {s}
  <2>1. spends \in Seq(S) /\ s \in S
    <3>1. spends \in Seq({spends[m] : m \in DOMAIN spends})
      BY DEF CapsInv, CapsTypes
    <3>2. Seq({spends[m] : m \in DOMAIN spends}) \subseteq Seq(S)
      BY SeqMonotonic
    <3> QED BY <3>1, <3>2
  <2> HIDE DEF S
  <2>2. /\ spends' \in Seq(S) /\ Len(spends') = n /\ spends'[n] = s
        /\ \A m \in 1..Len(spends) : spends'[m] = spends[m]
    BY <1>1, <2>1, AppendProperties
  <2>3. DOMAIN spends' = 1..n
    BY <2>2
  <2>4. spends' \in [1..n -> {spends'[m] : m \in 1..n}]
    BY <2>2, <2>3
  <2>5. spends' \in Seq({spends'[m] : m \in DOMAIN spends'})
    BY <1>4, <2>3, <2>4, SeqDef
  <2> QED BY <1>4, <2>2, <2>3, <2>5
<1>6. /\ Later(spends, spends') /\ IsFiniteSet(DOMAIN spends')
  <2>1. IsFiniteSet((DOMAIN spends) \union {n})
    BY <1>4, FS_AddElement
  <2> QED BY <1>5, <2>1 DEF Later
<1>7. /\ EntriesOf(spends) \subseteq EntriesOf(spends')
      /\ Seq(EntriesOf(spends)) \subseteq Seq(EntriesOf(spends'))
      /\ Recorders(spends) \subseteq Recorders(spends')
      /\ CapGates(spends) \subseteq CapGates(spends')
  BY <1>6, EntriesStay
<1>8. recorder \in [Asked -> Recorders(spends)] /\ log \in Seq(EntriesOf(spends))
  BY DEF CapsInv, CapsTypes
<1>9. recorder[p].at = "none"
  BY <1>1 DEF CapsInv, RecorderFits
<1>10. /\ n \notin Caps!Numbers(log)
       /\ \A q \in Asked : n \notin Caps!Numbers(recorder[q].copy)
       /\ \A q \in Asked : recorder[q].at # "none" => recorder[q].no \in DOMAIN spends
  <2>1. Caps!Numbers(log) \subseteq DOMAIN spends
    BY <1>8, NumbersOf
  <2>2. \A q \in Asked : Caps!Numbers(recorder[q].copy) \subseteq DOMAIN spends
    <3> SUFFICES ASSUME NEW q \in Asked PROVE Caps!Numbers(recorder[q].copy) \subseteq DOMAIN spends
      OBVIOUS
    <3>1. recorder[q].copy \in Seq(EntriesOf(spends))
      BY <1>8 DEF Recorders
    <3> QED BY <3>1, NumbersOf
  <2> QED BY <1>5, <2>1, <2>2 DEF CapsInv, RecorderFits
<1> DEFINE c == [recorder[p] EXCEPT !.at = "read", !.no = n]
<1>11. /\ recorder[p] \in Recorders(spends')
       /\ c \in Recorders(spends') /\ c.at = "read" /\ c.no = n /\ c.copy = recorder[p].copy
  <2>1. recorder[p] \in Recorders(spends') /\ n \in Nat
    BY <1>4, <1>7, <1>8
  <2> QED BY <2>1 DEF Recorders
<1>12. recorder' = recorder \/ recorder' = [recorder EXCEPT ![p] = c]
  BY <1>1, <1>8 DEF Recorders
<1> HIDE DEF c
<1>13. /\ recorder' \in [Asked -> Recorders(spends')]
       /\ \A q \in Asked \ {p} : recorder'[q] = recorder[q]
       /\ recorder'[p] = recorder[p] \/ recorder'[p] = c
  BY <1>7, <1>8, <1>11, <1>12
<1>14. \A q \in Asked : recorder'[q].copy = recorder[q].copy
  BY <1>11, <1>13
<1>15. /\ stage'[p] # "signing" /\ \A q \in Asked \ {p} : stage'[q] = stage[q]
       /\ recorder'[p].at # "none" => stage'[p] = "done" /\ recorder'[p].no = n
  <2>1. CASE /\ stage' = [stage EXCEPT ![p] = "done"]
             /\ recorder' = [recorder EXCEPT ![p].at = "read", ![p].no = n]
    <3>1. stage'[p] = "done" /\ \A q \in Asked \ {p} : stage'[q] = stage[q]
      BY <2>1 DEF GatesInv
    <3>2. recorder'[p].no = n
      BY <1>8, <2>1 DEF Recorders
    <3> QED BY <3>1, <3>2
  <2>2. CASE /\ stage' = [stage EXCEPT ![p] = "review"] /\ recorder' = recorder
    BY <1>9, <2>2 DEF GatesInv
  <2> QED BY <1>1, <2>1, <2>2
<1>16. CapsTypes'
  <2>1. \A q \in Asked : stage'[q] = "signing" => click'[q].cap \in CapGates(spends')
    BY <1>1, <1>7, <1>15 DEF CapsInv, CapsTypes
  <2>2. cap' \in [Asked -> CapGates(spends')] /\ log' \in Seq(EntriesOf(spends'))
    BY <1>1, <1>7, <1>8 DEF CapsInv, CapsTypes
  <2> QED BY <1>1, <1>5, <1>13, <2>1, <2>2 DEF CapsInv, CapsTypes
<1>17. ASSUME NEW m \in DOMAIN spends' PROVE SpendFits(m)'
  <2>1. CASE m = n
    <3>1. now \in Nat
      BY DEF CapsInv, CapsTypes
    <3> QED BY <1>1, <1>3, <1>5, <2>1, <3>1 DEF SpendFits
  <2>2. CASE m # n
    <3>1. m \in DOMAIN spends /\ SpendFits(m)
      BY <1>5, <2>2 DEF CapsInv
    <3> QED BY <1>1, <1>5, <3>1 DEF SpendFits
  <2> QED BY <2>1, <2>2
<1>18. ASSUME NEW q \in Asked PROVE RecorderFits(q)'
  <2>1. RecorderFits(q) /\ Distinct(recorder'[q].copy)
    BY <1>14 DEF CapsInv, RecorderFits
  <2>2. CASE q = p
    <3> SUFFICES ASSUME recorder'[p].at # "none"
                 PROVE  /\ stage'[p] = "done"
                        /\ recorder'[p].no \in DOMAIN spends' \ Caps!Numbers(log)
                        /\ \A o \in Asked : recorder'[p].no \notin Caps!Numbers(recorder'[o].copy)
                        /\ \A o \in Asked \ {p} :
                             recorder'[o].at # "none" => recorder'[o].no # recorder'[p].no
      BY <1>1, <2>1, <2>2 DEF RecorderFits
    <3>1. stage'[p] = "done" /\ recorder'[p].no = n
      BY <1>15
    <3> QED BY <1>5, <1>10, <1>13, <1>14, <3>1
  <2>3. CASE q # p
    <3>1. recorder'[q] = recorder[q] /\ stage'[q] = stage[q]
      BY <1>13, <1>15, <2>3
    <3> SUFFICES ASSUME recorder[q].at # "none"
                 PROVE  /\ stage[q] = "done"
                        /\ recorder[q].no \in DOMAIN spends' \ Caps!Numbers(log)
                        /\ \A o \in Asked : recorder[q].no \notin Caps!Numbers(recorder[o].copy)
                        /\ \A o \in Asked \ {q} :
                             recorder'[o].at # "none" => recorder'[o].no # recorder[q].no
      BY <1>1, <1>14, <2>1, <3>1 DEF RecorderFits
    <3>2. recorder[q].no # n
      BY <1>5, <1>10
    <3> QED BY <1>5, <1>13, <1>15, <2>1, <3>2 DEF RecorderFits
  <2> QED BY <2>2, <2>3
<1>19. ASSUME NEW d \in CapGates(spends), NEW r, WithinCap(d, r, spends, now)
       PROVE  WithinCap(d, r, spends', now)
  <2>1. /\ d.seen \subseteq DOMAIN spends /\ now \in Nat /\ now <= now
        /\ \A m \in DOMAIN spends : spends[m].ts \in Nat
    BY DEF CapGates, CapsInv, CapsTypes, SpendFits
  <2> QED BY <1>6, <1>19, <2>1, CapLater
<1>20. /\ \A q \in Asked : WithinCap(cap'[q], request'[q], spends', now')
       /\ \A q \in Asked : stage'[q] = "signing" => WithinCap(click'[q].cap, request'[q], spends', now')
  BY <1>1, <1>15, <1>19 DEF CapsInv, CapsTypes
<1>21. ASSUME NEW m \in DOMAIN spends' PROVE Counted(m)'
  <2> SUFFICES ASSUME m \notin gone',
                      \A q \in Asked : ~(recorder'[q].at # "none" /\ recorder'[q].no = m),
                      Caps!Fresh(spends'[m], now'), Cardinality(Others(m, spends')) < MaxEntries
               PROVE  m \in Caps!Numbers(log)
    BY <1>1 DEF Counted
  <2>1. m # n
    <3> SUFFICES ASSUME m = n PROVE FALSE
      OBVIOUS
    <3>1. CASE recorder' = [recorder EXCEPT ![p].at = "read", ![p].no = n]
      <4>1. recorder'[p].at = "read" /\ recorder'[p].no = n
        BY <1>8, <3>1 DEF Recorders
      <4> QED BY <4>1
    <3>2. CASE gone' = gone \union (DOMAIN spends' \ DOMAIN spends)
      BY <1>5, <3>2
    <3> QED BY <1>1, <3>1, <3>2
  <2>2. m \in DOMAIN spends /\ gone \subseteq gone'
    BY <1>1, <1>5, <2>1
  <2>3. now' \in Nat /\ now <= now'
    BY <1>1 DEF CapsInv, CapsTypes
  <2>4. /\ m \notin gone /\ Caps!Fresh(spends[m], now)
        /\ Cardinality(Others(m, spends)) < MaxEntries
    BY <1>6, <2>2, <2>3, CountedBefore
  <2>5. \A q \in Asked : ~(recorder[q].at # "none" /\ recorder[q].no = m)
    BY <1>9, <1>13
  <2> QED BY <2>2, <2>4, <2>5 DEF CapsInv, Counted
<1> QED BY <1>1, <1>16, <1>17, <1>18, <1>20, <1>21 DEF CapsInv

\* A page writes its copy of the log with its spend: what others have written
\* meanwhile is gone, what the log drops is old or MaxEntries are as new.
LEMMA WriteLogKeeps ==
  ASSUME CapsInv, NEW p \in Asked, Caps!WriteLog(p)
  PROVE  CapsInv'
<1> DEFINE n == recorder[p].no
           copy == recorder[p].copy
           E == EntriesOf(spends)
           s == Append(copy, Caps!Entry(n))
           t == spends[n].ts
<1>1. /\ recorder[p].at = "write"
      /\ log' = Caps!Prune(s, t)
      /\ gone' = gone \union (Caps!Numbers(log) \ Caps!Numbers(copy))
      /\ recorder' = [recorder EXCEPT ![p] = Caps!NoRecorder]
      /\ UNCHANGED <<spends, now, shown, limit, cap, click, request, stage>>
  BY DEF Caps!WriteLog, Caps!world
<1>2. /\ n \in DOMAIN spends /\ n \notin Caps!Numbers(log) /\ n \notin Caps!Numbers(copy)
      /\ Distinct(copy)
      /\ \A q \in Asked : n \notin Caps!Numbers(recorder[q].copy)
      /\ \A q \in Asked \ {p} : recorder[q].at # "none" => recorder[q].no # n
  BY <1>1 DEF CapsInv, RecorderFits
<1>3. recorder \in [Asked -> Recorders(spends)] /\ log \in Seq(E) /\ copy \in Seq(E)
  BY DEF CapsInv, CapsTypes, Recorders
<1>4. Caps!Entry(n) \in E /\ Caps!Entry(n).no = n
  BY <1>2 DEF Caps!Entry, EntriesOf
<1>5. /\ s \in Seq(E) /\ Len(copy) \in Nat /\ Len(s) = Len(copy) + 1
      /\ s[Len(s)] = Caps!Entry(n)
      /\ \A i \in 1..Len(copy) : s[i] = copy[i]
  <2> HIDE DEF copy, E
  <2> QED BY <1>3, <1>4, AppendProperties
<1>6. /\ Caps!Numbers(copy) = {copy[i].no : i \in 1..Len(copy)}
      /\ Caps!Numbers(copy) \subseteq DOMAIN spends
  BY <1>3, NumbersOf
<1> HIDE DEF s, copy, n, t
<1>7. Distinct(s)
  <2>1. \A i \in 1..Len(copy) : copy[i].no # n
    BY <1>2, <1>6
  <2>2. \A i \in 1..Len(s) : i \in 1..Len(copy) \/ i = Len(s)
    BY <1>5
  <2> QED BY <1>2, <1>4, <1>5, <2>1, <2>2 DEF Distinct
<1>8. Caps!Numbers(s) = Caps!Numbers(copy) \union {n}
  <2>1. Caps!Numbers(s) = {s[i].no : i \in 1..Len(s)}
    BY <1>5, NumbersOf
  <2>2. 1..Len(s) = (1..Len(copy)) \union {Len(s)}
    BY <1>5
  <2> QED BY <1>4, <1>5, <1>6, <2>1, <2>2
<1>9. \A e \in E : e.no \in DOMAIN spends /\ e.ts = spends[e.no].ts /\ e.ts \in Nat
  BY EntryFits DEF CapsInv, SpendFits
<1>10. Pruned(E, s, t, log')
  <2> HIDE DEF E
  <2> QED BY <1>1, <1>5, <1>7, <1>9, PruneKeeps
<1> HIDE DEF E
<1>11. /\ Caps!Numbers(log') = {log'[j].no : j \in 1..Len(log')}
       /\ Caps!Numbers(log') \subseteq Caps!Numbers(s)
  <2>0. log' \in Seq(EntriesOf(spends)) /\ s \in Seq(EntriesOf(spends))
    BY <1>5, <1>10 DEF E, Pruned
  <2>1. Caps!Numbers(log') = {log'[j].no : j \in 1..Len(log')}
    BY <2>0, NumbersOf
  <2>2. Caps!Numbers(s) = {s[i].no : i \in 1..Len(s)}
    BY <2>0, NumbersOf
  <2> QED BY <1>10, <2>1, <2>2 DEF Pruned
<1>12. /\ recorder'[p] = Caps!NoRecorder
       /\ \A q \in Asked \ {p} : recorder'[q] = recorder[q]
  BY <1>1, <1>3
<1>13. /\ Caps!NoRecorder \in Recorders(spends)
       /\ Caps!Numbers(Caps!NoRecorder.copy) = {} /\ Distinct(Caps!NoRecorder.copy)
       /\ Caps!NoRecorder.at = "none"
  BY EmptySeq DEF Caps!NoRecorder, Recorders, Caps!Numbers, Distinct
<1>14. CapsTypes'
  <2>1. recorder' \in [Asked -> Recorders(spends)]
    BY <1>1, <1>3, <1>13
  <2> QED BY <1>1, <1>10, <2>1 DEF CapsInv, CapsTypes, E, Pruned
<1>15. \A m \in DOMAIN spends' : SpendFits(m)'
  BY <1>1 DEF CapsInv, SpendFits
<1>16. ASSUME NEW q \in Asked PROVE RecorderFits(q)'
  <2>1. CASE q = p
    BY <1>12, <1>13, <2>1 DEF RecorderFits
  <2>2. CASE q # p
    <3>1. RecorderFits(q) /\ recorder'[q] = recorder[q]
      BY <1>12, <2>2 DEF CapsInv
    <3> SUFFICES ASSUME recorder[q].at # "none"
                 PROVE  /\ recorder[q].no \notin Caps!Numbers(log')
                        /\ \A o \in Asked : recorder[q].no \notin Caps!Numbers(recorder'[o].copy)
                        /\ \A o \in Asked \ {q} :
                             recorder'[o].at # "none" => recorder'[o].no # recorder[q].no
      BY <1>1, <3>1 DEF RecorderFits
    <3>2. recorder[q].no # n /\ recorder[q].no \notin Caps!Numbers(copy)
      BY <1>2, <2>2, <3>1 DEF RecorderFits, copy
    <3>3. recorder[q].no \notin Caps!Numbers(log')
      BY <1>8, <1>11, <3>2
    <3> QED BY <1>12, <1>13, <3>1, <3>3 DEF RecorderFits
  <2> QED BY <2>1, <2>2
<1>17. /\ \A q \in Asked : WithinCap(cap'[q], request'[q], spends', now')
       /\ \A q \in Asked : stage'[q] = "signing" => WithinCap(click'[q].cap, request'[q], spends', now')
  BY <1>1 DEF CapsInv
<1>18. ASSUME NEW m \in DOMAIN spends' PROVE Counted(m)'
  <2> SUFFICES ASSUME m \notin gone',
                      \A q \in Asked : ~(recorder'[q].at # "none" /\ recorder'[q].no = m),
                      Caps!Fresh(spends[m], now), Cardinality(Others(m, spends)) < MaxEntries,
                      m \notin Caps!Numbers(log')
               PROVE  FALSE
    BY <1>1 DEF Counted
  <2>1. m \in DOMAIN spends
    BY <1>1
  <2>2. m \in Caps!Numbers(s)
    <3>1. CASE m = n
      BY <1>8, <3>1
    <3>2. CASE m # n
      <4>1. \A q \in Asked : ~(recorder[q].at # "none" /\ recorder[q].no = m)
        BY <1>12, <3>2 DEF n
      <4>2. m \notin gone
        BY <1>1
      <4>3. m \in Caps!Numbers(log)
        BY <2>1, <4>1, <4>2 DEF CapsInv, Counted
      <4> QED BY <1>1, <1>8, <4>3
    <3> QED BY <3>1, <3>2
  <2>3. PICK i \in 1..Len(s) : s[i].no = m
    BY <1>5, <2>2, NumbersOf DEF E
  <2>4. s[i].ts = spends[m].ts /\ s[i] \in E
    BY <1>5, <1>9, <2>3
  <2>5. \A j \in 1..Len(log') : log'[j] # s[i]
    BY <1>11, <2>3
  <2>6. Caps!Fresh(s[i], t)
    <3>1. spends[m].ts \in Nat /\ t \in Nat /\ t <= now /\ now \in Nat
      BY <1>2, <2>1 DEF CapsInv, CapsTypes, SpendFits, t
    <3> QED BY <2>4, <3>1, LimitsOK DEF Caps!Fresh
  <2>7. PICK M : /\ IsFiniteSet(M) /\ MaxEntries <= Cardinality(M)
                 /\ \A k \in M : \E j \in 1..Len(s) :
                      s[j].no = k /\ s[j].ts >= s[i].ts /\ s[j].no # s[i].no
    BY <1>10, <2>5, <2>6 DEF Pruned
  <2>8. M \in SUBSET Others(m, spends)
    <3> SUFFICES ASSUME NEW k \in M PROVE k \in Others(m, spends)
      OBVIOUS
    <3>1. PICK j \in 1..Len(s) : s[j].no = k /\ s[j].ts >= s[i].ts /\ s[j].no # s[i].no
      BY <2>7
    <3>2. s[j] \in E
      BY <1>5
    <3>3. k \in DOMAIN spends /\ s[j].ts = spends[k].ts /\ k # m
      BY <1>9, <2>3, <3>1, <3>2
    <3> QED BY <2>4, <3>1, <3>3 DEF Others
  <2>9. IsFiniteSet(Others(m, spends))
    <3>1. Others(m, spends) \in SUBSET DOMAIN spends
      BY DEF Others
    <3> QED BY <3>1, SpendsFinite, FS_Subset
  <2>10. Cardinality(M) <= Cardinality(Others(m, spends))
    BY <2>8, <2>9, FS_Subset
  <2>11. Cardinality(M) \in Nat /\ Cardinality(Others(m, spends)) \in Nat
    BY <2>7, <2>9, FS_CardinalityType
  <2> QED BY <2>7, <2>10, <2>11, LimitsOK
<1> QED BY <1>1, <1>10, <1>14, <1>15, <1>16, <1>17, <1>18 DEF CapsInv, Pruned

LEMMA CapsStart == Caps!Init => CapsInv
<1> SUFFICES ASSUME Caps!Init PROVE CapsInv
  OBVIOUS
<1>1. /\ request = [p \in Asked |-> None] /\ stage = [p \in Asked |-> "none"]
      /\ cap = [p \in Asked |-> Caps!NoCap]
      /\ recorder = [p \in Asked |-> Caps!NoRecorder]
      /\ log = <<>> /\ spends = <<>> /\ now = 0 /\ shown \in Networks
      /\ limit \in [Sites -> [Caps!Assets -> Limits \union {None}]]
  BY DEF Caps!Init
<1>2. DOMAIN spends = {}
  BY <1>1
<1>3. log \in Seq(EntriesOf(spends)) /\ spends \in Seq({spends[n] : n \in DOMAIN spends})
  BY <1>1, EmptySeq
<1>4. Caps!NoRecorder \in Recorders(spends) /\ Distinct(Caps!NoRecorder.copy) /\ Distinct(log)
      /\ Caps!NoRecorder.at = "none"
  BY <1>1, EmptySeq DEF Caps!NoRecorder, Recorders, Distinct
<1>5. /\ Caps!NoCap \in CapGates(spends) /\ Caps!NoCap.at = "none"
      /\ \A r, t : WithinCap(Caps!NoCap, r, spends, t)
  <2>1. {} \in SUBSET DOMAIN spends /\ None \in Networks \union {None} /\ None \in Limits \union {None}
    OBVIOUS
  <2> QED BY <2>1 DEF Caps!NoCap, CapGates, WithinCap
<1>6. CapsTypes
  BY <1>1, <1>3, <1>4, <1>5 DEF CapsTypes
<1> QED BY <1>1, <1>2, <1>4, <1>5, <1>6 DEF CapsInv, RecorderFits

\* The invariant of the caps is inductive under that of the gates.
THEOREM CapsInductive ==
  ASSUME CapsInv, GatesInv, [Caps!Next]_(Caps!vars)
  PROVE  CapsInv'
<1>1. ASSUME NEW p \in Asked, Caps!Show(p) PROVE CapsInv'
  BY <1>1, CapShowKeeps
<1>2. ASSUME NEW p \in Asked, Caps!ReadLimit(p) PROVE CapsInv'
  BY <1>2, ReadLimitKeeps
<1>3. ASSUME NEW p \in Asked, Caps!ReadRecent(p) PROVE CapsInv'
  BY <1>3, ReadRecentKeeps
<1>4. ASSUME NEW p \in Asked, Caps!Approve(p) PROVE CapsInv'
  BY <1>4, ApproveCapKeeps
<1>5. ASSUME NEW p \in Asked,
             (\E q \in DOMAIN Caps!NoLookups : Caps!Answer(p, q)) \/ Caps!SignFails(p)
      PROVE  CapsInv'
  BY <1>5, NothingSignedKeeps
<1>6. ASSUME NEW p \in Asked, Caps!Sign(p) PROVE CapsInv'
  BY <1>6, SignTokenKeeps, SignSpendKeeps
<1>7. ASSUME NEW p \in Asked, Caps!ReadLog(p) PROVE CapsInv'
  BY <1>7, ReadLogKeeps
<1>8. ASSUME NEW p \in Asked, Caps!WriteLog(p) PROVE CapsInv'
  BY <1>8, WriteLogKeeps
<1>9. ASSUME NEW p \in Asked, Caps!Close(p) PROVE CapsInv'
  BY <1>9, CloseKeeps
<1> QED BY <1>1, <1>2, <1>3, <1>4, <1>5, <1>6, <1>7, <1>8, <1>9, WorldStepsKeep DEF Caps!Next

\* spend-tracker.ts: what a page signs that has seen every spend of the day
\* stays within the cap it was computed of, and the log keeps every spend of
\* the day that no page wrote over and no failed read dropped, unless
\* MAX_ENTRIES others are as new.
THEOREM CapsAreKept == Caps!Spec => []CapHolds
<1>1. Caps!Init => GatesInv /\ CapsInv
  BY AsksOK, CapsStart DEF Caps!Init, GatesInv
<1>2. GatesInv /\ CapsInv /\ [Caps!Next]_(Caps!vars) => (GatesInv /\ CapsInv)'
  BY GatesInductive, CapsInductive
<1>3. CapsInv => CapHolds
  <2>1. CapsInv => Caps!InformedFit
    BY DEF CapsInv, SpendFits, Caps!InformedFit
  <2>2. CapsInv => Caps!SpendsCounted
    BY CountedIs DEF CapsInv
  <2> QED BY <2>1, <2>2 DEF CapHolds, Caps!CapHolds
<1> QED BY <1>1, <1>2, <1>3, PTL DEF Caps!Spec
=============================================================================
