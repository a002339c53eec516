------------------------------ MODULE Approvals ------------------------------
(***************************************************************************)
(* How a request of a web page is answered: the page's channel             *)
(* (provider/rpc-channel.ts), the content script (entrypoints/content.ts), *)
(* the service worker (entrypoints/background.ts) with the pending map it  *)
(* keeps in chrome.storage.session (messaging/pending-requests.ts), and    *)
(* the Approve page that opens for each request (pages/Approve).           *)
(*                                                                         *)
(* A handler of the service worker is cut at every await of the storage:   *)
(* the map is read whole, changed and written back whole.  Requests are of *)
(* kind "connect" or "sign" (SIGN_* and SEND_*, which differ in what is    *)
(* checked and signed, not in how they are answered).                      *)
(***************************************************************************)
EXTENDS Naturals, FiniteSets

CONSTANTS
    Requests,   \* each with a window of its own
    Kind,       \* "connect" or "sign"
    Site,       \* the origin, and tab, of each request
    Sites,
    Accounts,
    MaxEvents,  \* bound: kinds of events among switch, disconnect, lock, restart
    None

ASSUME KindOK == Kind \in [Requests -> {"connect", "sign"}]
ASSUME SiteOK == Site \in [Requests -> Sites]
ASSUME NoneIsNothing == None \notin Accounts
ASSUME MaxEventsOK == MaxEvents \in Nat

VARIABLES
    page,      \* what the promise of each request is worth in its page
    mapped,    \* requests the content script would answer (pendingByRequestId)
    store,     \* the pending map
    tasks,     \* handlers of the service worker that await the storage
    window,    \* the window of each request
    view,      \* what its Approve page shows
    chosen,    \* and the account it works with
    connected, \* connectedSites: the account of each site
    consents,  \* history: accounts the user connected to each site
    active,    \* activeAccountId
    signer,    \* history: the account that signed for each request
    events     \* what has happened of switches, disconnects, locks and restarts

vars == <<page, mapped, store, tasks, window, view, chosen, connected, consents, active, signer, events>>
wallet == <<connected, consents, active>>

(* A handler: what it does to the map for a request, at which await it     *)
(* stands, the map it has read, and whether the request was in it.         *)
Task == [does: {"add", "approve", "reject"}, of: Requests, at: {"get", "read", "write"},
         map: SUBSET Requests, found: BOOLEAN]
Handler(does, r, at) == [does |-> does, of |-> r, at |-> at, map |-> {}, found |-> FALSE]

(* Bound: a request has one handler of each kind at a time; a second       *)
(* rejection would find the request gone.                                  *)
Start(does, r, at) ==
    IF \E t \in tasks : t.of = r /\ t.does = does THEN tasks
    ELSE tasks \union {Handler(does, r, at)}

TypeOK ==
    /\ page \in [Requests -> {"idle", "waiting", "success", "error", "timeout"}]
    /\ mapped \subseteq Requests
    /\ store \subseteq Requests
    /\ tasks \subseteq Task
    /\ window \in [Requests -> {"none", "open", "closed"}]
    /\ view \in [Requests -> {"blank", "shown", "otp", "signing", "approved", "refused", "rejecting"}]
    /\ chosen \in [Requests -> Accounts \union {None}]
    /\ connected \in [Sites -> Accounts \union {None}]
    /\ consents \subseteq Sites \X Accounts
    /\ active \in Accounts
    /\ signer \in [Requests -> Accounts \union {None}]
    /\ events \subseteq {"switch", "disconnect", "lock", "restart"}

Init ==
    /\ page = [r \in Requests |-> "idle"]
    /\ mapped = {}
    /\ store = {}
    /\ tasks = {}
    /\ window = [r \in Requests |-> "none"]
    /\ view = [r \in Requests |-> "blank"]
    /\ chosen = [r \in Requests |-> None]
    /\ connected \in [Sites -> Accounts \union {None}]
    /\ consents = {c \in Sites \X Accounts : connected[c[1]] = c[2]}
    /\ active \in Accounts
    /\ signer = [r \in Requests |-> None]
    /\ events = {}

Settle(r, what) == page' = [page EXCEPT ![r] = IF @ = "waiting" THEN what ELSE @]

-----------------------------------------------------------------------------
(* handleProviderRequest: a page asks.  A sign request needs a connected   *)
(* site; the window opens before the request is stored.                    *)
Ask(r) ==
    /\ page[r] = "idle"
    /\ IF Kind[r] = "sign" /\ connected[Site[r]] = None
       THEN /\ page' = [page EXCEPT ![r] = "error"]
            /\ UNCHANGED <<window, tasks>>
       ELSE /\ page' = [page EXCEPT ![r] = "waiting"]
            /\ window' = [window EXCEPT ![r] = "open"]
            /\ tasks' = Start("add", r, "read")
    /\ UNCHANGED <<mapped, store, view, chosen, wallet, signer, events>>

(* RpcChannel gives up after two minutes.                                  *)
TimeOut(r) ==
    /\ page[r] = "waiting"
    /\ Settle(r, "timeout")
    /\ UNCHANGED <<mapped, store, tasks, window, view, chosen, wallet, signer, events>>

-----------------------------------------------------------------------------
(* pendingRequestsStore.get: an approval of a request that is not pending  *)
(* ends, a rejection goes on.                                              *)
Get(t) ==
    /\ t.at = "get"
    /\ tasks' = (tasks \ {t}) \union
                (IF t.does = "approve" /\ t.of \notin store THEN {}
                 ELSE {[t EXCEPT !.at = "read", !.found = t.of \in store]})
    /\ UNCHANGED <<page, mapped, store, window, view, chosen, wallet, signer, events>>

(* readAll of pendingRequestsStore.set and remove.                         *)
Read(t) ==
    /\ t.at = "read"
    /\ tasks' = (tasks \ {t}) \union {[t EXCEPT !.at = "write", !.map = store]}
    /\ UNCHANGED <<page, mapped, store, window, view, chosen, wallet, signer, events>>

(* writeAll of set, after which the content script is told "__PENDING__".  *)
Stored(t) ==
    /\ t.at = "write" /\ t.does = "add"
    /\ store' = t.map \union {t.of}
    /\ mapped' = mapped \union {t.of}
    /\ tasks' = tasks \ {t}
    /\ UNCHANGED <<page, window, view, chosen, wallet, signer, events>>

(* deliverResponseToTab: the content script answers a request it has       *)
(* mapped, once.                                                           *)
Deliver(r, what) ==
    IF r \in mapped
    THEN Settle(r, what) /\ mapped' = mapped \ {r}
    ELSE UNCHANGED <<page, mapped>>

(* Mutant: every handler that finds its request answers with success.      *)
AnswerSuccess(t) == "success"

Answer(t) == IF t.does = "approve" THEN "success" ELSE "error"

(* writeAll of remove, then the answer and, for a request that was there,  *)
(* the end of its window.  closeOwnedWindow brings no second rejection:    *)
(* the request is gone from the map.                                       *)
Removed(t) ==
    /\ t.at = "write" /\ t.does # "add"
    /\ store' = t.map \ {t.of}
    /\ tasks' = tasks \ {t}
    /\ IF t.found THEN Deliver(t.of, Answer(t))
       ELSE UNCHANGED <<page, mapped>>
    /\ window' = [window EXCEPT ![t.of] =
                     IF t.found \/ view[t.of] = "rejecting" THEN "closed" ELSE @]
    /\ UNCHANGED <<view, chosen, wallet, signer, events>>

(* Mutant: the alarm only looks at requests whose window is open.          *)
ExpireOpen(r) ==
    /\ r \in store /\ window[r] = "open"
    /\ tasks' = Start("reject", r, "get")
    /\ UNCHANGED <<page, mapped, store, window, view, chosen, wallet, signer, events>>

(* The alarm of every minute rejects what is older than PENDING_TTL_MS.    *)
Expire(r) ==
    /\ r \in store
    /\ tasks' = Start("reject", r, "get")
    /\ UNCHANGED <<page, mapped, store, window, view, chosen, wallet, signer, events>>

(* The user closes the window: onRemoved rejects its request, if it is     *)
(* stored when the list is read.                                           *)
CloseWindow(r) ==
    /\ window[r] = "open"
    /\ window' = [window EXCEPT ![r] = "closed"]
    /\ tasks' = IF r \in store THEN Start("reject", r, "get") ELSE tasks
    /\ UNCHANGED <<page, mapped, store, view, chosen, wallet, signer, events>>

-----------------------------------------------------------------------------
Live(r, v) == window[r] = "open" /\ view[r] = v

(* resolveOriginSigningAccount: the account the site is connected to, if   *)
(* it is the active one.                                                   *)
Bound(r) == connected[Site[r]] = active

(* GET_PENDING_REQUEST, asked once: a page that asks too early stays       *)
(* blank.                                                                  *)
Show(r) ==
    /\ Live(r, "blank")
    /\ r \in store
    /\ view' = [view EXCEPT ![r] = "shown"]
    /\ UNCHANGED <<page, mapped, store, tasks, window, chosen, wallet, signer, events>>

(* A sign request of a site that is bound to another account is rejected   *)
(* by the page itself.                                                     *)
Refuse(r) ==
    /\ Live(r, "shown") /\ Kind[r] = "sign" /\ ~Bound(r)
    /\ view' = [view EXCEPT ![r] = "refused"]
    /\ tasks' = Start("reject", r, "get")
    /\ UNCHANGED <<page, mapped, store, window, chosen, wallet, signer, events>>

(* handleReject: the page closes its window when it is answered.           *)
Reject(r) ==
    /\ Live(r, "shown")
    /\ view' = [view EXCEPT ![r] = "rejecting"]
    /\ tasks' = Start("reject", r, "get")
    /\ UNCHANGED <<page, mapped, store, window, chosen, wallet, signer, events>>

(* Mutant: the account in the page's hands is the active one.              *)
SelectableAny(r, a) == TRUE

(* selectedAccount: a connect request may pick any, a sign request has the *)
(* account of its origin.                                                  *)
Selectable(r, a) == Kind[r] = "connect" \/ (Bound(r) /\ a = active)

(* handleApprove up to the first await.                                    *)
Approve(r, a) ==
    /\ Live(r, "shown")
    /\ Selectable(r, a)
    /\ view' = [view EXCEPT ![r] = "signing"]
    /\ chosen' = [chosen EXCEPT ![r] = a]
    /\ UNCHANGED <<page, mapped, store, tasks, window, wallet, signer, events>>

(* An e-mail wallet without a session asks for a code inside the page;     *)
(* handleOtpReady approves again, with the account of the page by then.    *)
NeedCode(r) ==
    /\ Live(r, "signing") /\ Kind[r] = "sign"
    /\ view' = [view EXCEPT ![r] = "otp"]
    /\ UNCHANGED <<page, mapped, store, tasks, window, chosen, wallet, signer, events>>

EnterCode(r) ==
    /\ Live(r, "otp")
    /\ \/ /\ Bound(r)
          /\ view' = [view EXCEPT ![r] = "signing"]
          /\ chosen' = [chosen EXCEPT ![r] = active]
       \/ view' = [view EXCEPT ![r] = "shown"] /\ UNCHANGED chosen
    /\ UNCHANGED <<page, mapped, store, tasks, window, wallet, signer, events>>

(* Any step of handleApprove throws: the page shows the error.             *)
SigningFails(r) ==
    /\ Live(r, "signing")
    /\ view' = [view EXCEPT ![r] = "shown"]
    /\ UNCHANGED <<page, mapped, store, tasks, window, chosen, wallet, signer, events>>

(* sendApproved: the page shows its check mark whatever APPROVE_REQUEST    *)
(* finds.                                                                  *)
Sign(r) ==
    /\ Live(r, "signing") /\ Kind[r] = "sign"
    /\ signer' = [signer EXCEPT ![r] = chosen[r]]
    /\ view' = [view EXCEPT ![r] = "approved"]
    /\ tasks' = Start("approve", r, "get")
    /\ UNCHANGED <<page, mapped, store, window, chosen, wallet, events>>

(* APPROVE_CONNECT: only for a pending connect request, whose origin is    *)
(* the stored one.                                                         *)
Connect(r) ==
    /\ Live(r, "signing") /\ Kind[r] = "connect"
    /\ view' = [view EXCEPT ![r] = "approved"]
    /\ IF r \in store
       THEN /\ connected' = [connected EXCEPT ![Site[r]] = chosen[r]]
            /\ consents' = consents \union {<<Site[r], chosen[r]>>}
            /\ tasks' = tasks \union {[Handler("approve", r, "read") EXCEPT !.found = TRUE]}
       ELSE UNCHANGED <<connected, consents, tasks>>
    /\ UNCHANGED <<page, mapped, store, window, chosen, active, signer, events>>

-----------------------------------------------------------------------------
Event(kind) == Cardinality(events \union {kind}) <= MaxEvents /\ events' = events \union {kind}

SwitchAccount(a) ==
    /\ Event("switch")
    /\ a # active
    /\ active' = a
    /\ UNCHANGED <<page, mapped, store, tasks, window, view, chosen, connected, consents, signer>>

(* DISCONNECT from the page, or from the settings.                         *)
Disconnect(s) ==
    /\ Event("disconnect")
    /\ connected[s] # None
    /\ connected' = [connected EXCEPT ![s] = None]
    /\ UNCHANGED <<page, mapped, store, tasks, window, view, chosen, consents, active, signer>>

(* lockNow, of the alarm or of the idle state: the map is emptied and      *)
(* nobody is told.                                                         *)
LockNow ==
    /\ Event("lock")
    /\ store # {}
    /\ store' = {}
    /\ UNCHANGED <<page, mapped, tasks, window, view, chosen, wallet, signer>>

(* The browser stops the service worker and starts it again: handlers are  *)
(* gone, a page whose request was being stored is told that the port       *)
(* closed, and the start empties the map.                                  *)
Restart ==
    /\ Event("restart")
    /\ page' = [r \in Requests |->
                   IF page[r] = "waiting" /\ \E t \in tasks : t.of = r /\ t.does = "add"
                   THEN "error" ELSE page[r]]
    /\ window' = [r \in Requests |-> IF view[r] = "rejecting" THEN "closed" ELSE window[r]]
    /\ tasks' = {}
    /\ store' = {}
    /\ UNCHANGED <<mapped, view, chosen, wallet, signer>>

-----------------------------------------------------------------------------
Run(t) == Get(t) \/ Read(t) \/ Stored(t) \/ Removed(t)

Next ==
    \/ \E t \in tasks : Run(t)
    \/ \E r \in Requests :
         \/ Ask(r) \/ TimeOut(r) \/ Expire(r) \/ CloseWindow(r)
         \/ Show(r) \/ Refuse(r) \/ Reject(r)
         \/ \E a \in Accounts : Approve(r, a)
         \/ NeedCode(r) \/ EnterCode(r) \/ SigningFails(r) \/ Sign(r) \/ Connect(r)
    \/ \E a \in Accounts : SwitchAccount(a)
    \/ \E s \in Sites : Disconnect(s)
    \/ LockNow \/ Restart

(* The event loop gets on with the handlers of every request, and the      *)
(* alarm goes off every minute.                                            *)
Fairness ==
    \A r \in Requests :
        /\ WF_vars(\E t \in tasks : t.of = r /\ Run(t))
        /\ WF_vars(Expire(r))

Spec == Init /\ [][Next]_vars /\ Fairness

-----------------------------------------------------------------------------
(* A signature is by an account the user has connected to the asking site, *)
(* however accounts are switched and sites connected again while the       *)
(* request waits (resolveOriginSigningAccount, APPROVE_CONNECT).           *)
SignedByConsent ==
    \A r \in Requests : signer[r] # None => <<Site[r], signer[r]>> \in consents

(* A page that is told of a success has one: its site was connected by the *)
(* user, or the request was signed.                                        *)
SuccessIsTrue ==
    \A r \in Requests : page[r] = "success" =>
        IF Kind[r] = "sign" THEN signer[r] # None
        ELSE \E a \in Accounts : <<Site[r], a>> \in consents /\ chosen[r] = a

(* Nothing stays in the map: races between handlers may bring a removed    *)
(* request back, and the alarm removes it again.                           *)
StoreDrains == \A r \in Requests : r \in store ~> r \notin store

(* messaging/pending-requests.ts:4: "Pending requests must survive an MV3  *)
(* service-worker restart".  With no handler under way none is lost.       *)
SurvivesRestart ==
    [][tasks = {} /\ "restart" \in events' \ events => store' = store]_vars
=============================================================================
