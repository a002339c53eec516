------------------------------ MODULE Connector ------------------------------
(***************************************************************************)
(* How a document of the wallet has Xverse or UniSat connect or sign       *)
(* (wallets/external-wallets.ts).  The service worker opens a connector    *)
(* window, or uses the one it has, and passes the request to the page in   *)
(* it, where the provider lives (entrypoints/background.ts, content.ts,    *)
(* wallets/bridge).  The connector takes the focus, so the document holds  *)
(* its own window open meanwhile (utils/wallet-autoclose.ts): a window     *)
(* that has lost the focus closes itself unless it is held.                *)
(*                                                                         *)
(* A minute is a tick; what takes seconds happens within one.              *)
(***************************************************************************)
EXTENDS Naturals, Sequences, FiniteSets

CONSTANTS
    Docs,        \* documents of the wallet
    Floating,    \* those in a window of their own; a side panel is not
    Calls, Doc, Method, \* the document and the method of each call
    Limit,       \* BRIDGE_TIMEOUT_MS of each method
    HoldTicks,   \* HOLD_TTL_MS
    MaxTime, MaxEvents, \* bounds: minutes; clicks, restarts and close messages
    None

VARIABLES
    call,      \* where each call stands, its window, and when its page was asked
    windows,   \* connector windows that are open
    opened,    \* how many were opened
    tab,       \* connectorTab
    inFlight,  \* connectorInFlight
    alarm,     \* the idle alarm is set
    hold,      \* arch_wallet_autoclose_hold
    suppressed,\* arch_wallet_autoclose_suppress_until lies ahead
    chain,     \* holdChain of each document
    open,      \* documents that are open
    focus,     \* the window that has the focus
    watch,     \* the focus check of each floating document
    now, events

sw == <<windows, opened, tab, inFlight, alarm>>
holds == <<hold, suppressed, chain>>
ui == <<open, focus, watch>>
vars == <<call, sw, holds, ui, now, events>>

Idle == [at |-> "idle", win |-> None, since |-> 0]
NoHold == [count |-> 0, until |-> 0]

Init ==
    /\ call = [c \in Calls |-> Idle]
    /\ windows = {} /\ opened = 0 /\ tab = None /\ inFlight = {} /\ alarm = FALSE
    /\ hold = NoHold /\ suppressed = FALSE /\ chain = [d \in Docs |-> <<>>]
    /\ open = Docs /\ focus \in Docs /\ watch = [d \in Docs |-> "off"]
    /\ now = 0 /\ events = 0

Goes(c, at) == call' = [call EXCEPT ![c].at = at]

-----------------------------------------------------------------------------
(* The hold.  The writes of one document come one after the other; those   *)
(* of two may interleave.                                                  *)

Enqueue(c, does) ==
    chain' = [chain EXCEPT ![Doc[c]] = Append(@, [of |-> c, does |-> does, copy |-> None])]

(* withWalletWindowHeld of requestExternalWallet.                          *)
Begin(c) ==
    /\ call[c].at = "idle" /\ Doc[c] \in open /\ focus = Doc[c]
    /\ now + Limit[Method[c]] <= MaxTime
    /\ Goes(c, "hold")
    /\ Enqueue(c, "hold")
    /\ UNCHANGED <<sw, hold, suppressed, ui, now, events>>

(* writeHold reads; a hold that has run out counts as none.                *)
ReadHold(d) ==
    /\ chain[d] # <<>> /\ Head(chain[d]).copy = None
    /\ chain' = [chain EXCEPT ![d][1].copy = IF hold.until > now THEN hold ELSE NoHold]
    /\ UNCHANGED <<call, sw, hold, suppressed, ui, now, events>>

(* holdWalletWindow, releaseWalletWindowHold.                              *)
Held(does, prev) ==
    IF does = "hold" THEN [count |-> prev.count + 1, until |-> now + HoldTicks]
    ELSE IF prev.count > 1 THEN [prev EXCEPT !.count = @ - 1] ELSE NoHold

(* ... and writes; then the call goes on.                                  *)
WriteHold(d) ==
    /\ chain[d] # <<>> /\ Head(chain[d]).copy # None
    /\ LET step == Head(chain[d]) IN
         /\ hold' = Held(step.does, step.copy)
         /\ Goes(step.of, IF step.does = "hold" THEN "ensure" ELSE "done")
    /\ chain' = [chain EXCEPT ![d] = Tail(@)]
    /\ UNCHANGED <<sw, suppressed, ui, now, events>>

-----------------------------------------------------------------------------
(* The connector window.                                                   *)

(* A window takes the focus: the document that had it arms its check.      *)
Focus(w) ==
    /\ focus' = w
    /\ watch' = [d \in Docs |-> IF d = w /\ watch[d] = "armed" THEN "off"
                                ELSE IF d = focus /\ d # w /\ d \in Floating \cap open
                                     /\ watch[d] = "off" THEN "armed"
                                ELSE watch[d]]

(* ensureConnectorTab asks whether the window it knows is there.           *)
Ensure(c) ==
    /\ call[c].at = "ensure"
    /\ call' = [call EXCEPT ![c].at = IF tab = None THEN "create" ELSE "get", ![c].win = tab]
    /\ UNCHANGED <<sw, holds, ui, now, events>>

(* It is used, by what connectorTab says by now; or forgotten.             *)
Get(c) ==
    /\ call[c].at = "get"
    /\ IF call[c].win \in windows
       THEN /\ call' = [call EXCEPT ![c].at = "send", ![c].win = tab]
            /\ UNCHANGED tab
       ELSE /\ Goes(c, "create")
            /\ tab' = None
    /\ UNCHANGED <<windows, opened, inFlight, alarm, holds, ui, now, events>>

Create(c) ==
    /\ call[c].at = "create"
    /\ opened' = opened + 1
    /\ windows' = windows \union {opened + 1}
    /\ call' = [call EXCEPT ![c].at = "load", ![c].win = opened + 1]
    /\ Focus("connector")
    /\ UNCHANGED <<tab, inFlight, alarm, holds, open, now, events>>

(* waitForTabComplete: the page has loaded, and is the connector from now  *)
(* on ...                                                                  *)
Load(c) ==
    /\ call[c].at = "load" /\ call[c].win \in windows
    /\ tab' = call[c].win
    /\ Goes(c, "send")
    /\ UNCHANGED <<windows, opened, inFlight, alarm, holds, ui, now, events>>

(* ... or it did not load in time, or was closed; the window stays.        *)
LoadFails(c) ==
    /\ call[c].at = "load"
    /\ Goes(c, "answered")
    /\ UNCHANGED <<sw, holds, ui, now, events>>

(* requestExternalWalletViaConnector: the alarm is cleared, the window     *)
(* focused, the page asked.  A window that has gone cannot be.             *)
Send(c) ==
    /\ call[c].at = "send"
    /\ alarm' = IF call[c].win \in windows THEN FALSE ELSE (inFlight = {})
    /\ IF call[c].win \in windows
       THEN /\ inFlight' = inFlight \union {c}
            /\ call' = [call EXCEPT ![c].at = "asked", ![c].since = now]
            /\ Focus("connector")
       ELSE /\ Goes(c, "answered")
            /\ UNCHANGED <<inFlight, focus, watch>>
    /\ UNCHANGED <<windows, opened, tab, holds, open, now, events>>

(* Calls that get an answer or an error; the last of them sets the alarm.  *)
Settle(settled) ==
    /\ call' = [c \in Calls |-> IF c \in settled THEN [call[c] EXCEPT !.at = "answered"]
                                ELSE call[c]]
    /\ inFlight' = inFlight \ settled

-----------------------------------------------------------------------------
(* The page and the provider.                                              *)

(* The page checks that the provider is on the network and the account     *)
(* that the request names (assertNetwork, assertUnisatChain,               *)
(* assertUnisatAccount), and asks it; the user may change either.          *)
Check(c) ==
    /\ call[c].at = "asked"
    /\ \/ Goes(c, "prompted") /\ UNCHANGED <<inFlight, alarm>>
       \/ Settle({c}) /\ alarm' = (inFlight' = {})
    /\ UNCHANGED <<windows, opened, tab, holds, ui, now, events>>

Asking(c) == call[c].at \in {"asked", "prompted"}

(* The user signs or declines, or the provider fails.                      *)
Decide(c) ==
    /\ call[c].at = "prompted"
    /\ Settle({c})
    /\ alarm' = (inFlight' = {})
    /\ UNCHANGED <<windows, opened, tab, holds, ui, now, events>>

(* Mutant: a prompt that is shown stops the timer.                         *)
PageTimeoutUnprompted(c) ==
    /\ call[c].at = "asked" /\ now >= call[c].since + Limit[Method[c]]
    /\ Settle({c})
    /\ alarm' = (inFlight' = {})
    /\ UNCHANGED <<windows, opened, tab, holds, ui, now, events>>

(* The content script gives the provider up.                               *)
PageTimeout(c) ==
    /\ Asking(c) /\ now >= call[c].since + Limit[Method[c]]
    /\ Settle({c})
    /\ alarm' = (inFlight' = {})
    /\ UNCHANGED <<windows, opened, tab, holds, ui, now, events>>

-----------------------------------------------------------------------------
(* Ends of the connector.                                                  *)

InWindow(w) == {c \in Calls : Asking(c) /\ call[c].win = w}

(* failConnectorInFlight if it is the window the worker knows; and its     *)
(* own calls lose their port.                                              *)
Closes(w) ==
    /\ windows' = windows \ {w}
    /\ tab' = IF tab = w THEN None ELSE tab
    /\ Settle(InWindow(w) \union (IF tab = w THEN inFlight ELSE {}))

CloseWindow(w) ==
    /\ w \in windows
    /\ Closes(w)
    /\ alarm' = (alarm \/ (inFlight # {} /\ inFlight' = {}))
    /\ UNCHANGED <<opened, holds, ui, now, events>>

(* closeConnectorTab.                                                      *)
CloseTab == IF tab = None THEN UNCHANGED <<windows, tab, call, inFlight>> ELSE Closes(tab)

(* CLOSE_EXTERNAL_CONNECTOR, when an onboarding has come to its end.       *)
CloseMessage ==
    /\ tab # None
    /\ events < MaxEvents /\ events' = events + 1
    /\ CloseTab
    /\ alarm' = (alarm \/ (inFlight # {} /\ inFlight' = {}))
    /\ UNCHANGED <<opened, holds, ui, now>>

InWorker(c) == call[c].at \in {"ensure", "get", "create", "load", "send"} \/ Asking(c)

(* The idle alarm fires.                                                   *)
IdleAlarm ==
    /\ alarm
    /\ alarm' = FALSE
    /\ IF inFlight = {} THEN CloseTab ELSE UNCHANGED <<windows, tab, call, inFlight>>
    /\ UNCHANGED <<opened, holds, ui, now, events>>

(* The service worker stops when no event keeps it: its variables are      *)
(* gone, the alarm and the windows are not.                                *)
Restart ==
    /\ events < MaxEvents /\ events' = events + 1
    /\ tab # None /\ \A c \in Calls : ~InWorker(c)
    /\ tab' = None
    /\ UNCHANGED <<call, windows, opened, inFlight, alarm, holds, ui, now>>

-----------------------------------------------------------------------------
(* The answer reaches the document, which suppresses, then releases.       *)
Return(c) ==
    /\ call[c].at = "answered"
    /\ IF Doc[c] \in open
       THEN /\ suppressed' = TRUE
            /\ Goes(c, "release")
            /\ Enqueue(c, "release")
       ELSE /\ Goes(c, "done")
            /\ UNCHANGED <<suppressed, chain>>
    /\ UNCHANGED <<sw, hold, ui, now, events>>

-----------------------------------------------------------------------------
(* The focus check of a floating window.                                   *)

Blocked == suppressed \/ (hold.count > 0 /\ hold.until > now)

(* dismissBlocked: the worker reads the flags; a window that is held asks  *)
(* again later ...                                                         *)
Ask(d) ==
    /\ watch[d] = "armed" /\ ~Blocked
    /\ watch' = [watch EXCEPT ![d] = "close"]
    /\ UNCHANGED <<call, sw, holds, open, focus, now, events>>

(* ... and the document does as they say, unless it has the focus again.   *)
Dismiss(d) ==
    /\ watch[d] = "close" /\ focus # d
    /\ open' = open \ {d}
    /\ watch' = [watch EXCEPT ![d] = "off"]
    /\ chain' = [chain EXCEPT ![d] = <<>>]
    /\ call' = [c \in Calls |-> IF Doc[c] = d /\ call[c].at \in {"hold", "release"}
                                THEN [call[c] EXCEPT !.at = "done"] ELSE call[c]]
    /\ UNCHANGED <<sw, hold, suppressed, focus, now, events>>

Stay(d) ==
    /\ watch[d] = "close" /\ focus = d
    /\ watch' = [watch EXCEPT ![d] = "off"]
    /\ UNCHANGED <<call, sw, holds, open, focus, now, events>>

(* The user clicks on another window.                                      *)
Click(w) ==
    /\ events < MaxEvents /\ events' = events + 1
    /\ w # focus /\ w \in open \union {"elsewhere"}
    /\ Focus(w)
    /\ UNCHANGED <<call, sw, holds, open, now>>

-----------------------------------------------------------------------------
SuppressEnds ==
    /\ suppressed
    /\ suppressed' = FALSE
    /\ UNCHANGED <<call, sw, hold, chain, ui, now, events>>

(* Timers of less than a minute are over when one has passed.              *)
Tick ==
    /\ now < MaxTime
    /\ ~suppressed /\ \A d \in Docs : watch[d] # "close"
    /\ \A c \in Calls : call[c].at \in {"idle", "asked", "prompted", "done"}
    /\ \A c \in Calls : Asking(c) => now < call[c].since + Limit[Method[c]]
    /\ now' = now + 1
    /\ UNCHANGED <<call, sw, holds, ui, events>>

Works(c) ==
    \/ Ensure(c) \/ Get(c) \/ Create(c) \/ Load(c) \/ LoadFails(c) \/ Send(c)
    \/ PageTimeout(c) \/ Return(c)

Next ==
    \/ \E c \in Calls : Begin(c) \/ Works(c) \/ Check(c) \/ Decide(c)
    \/ \E d \in Docs : ReadHold(d) \/ WriteHold(d) \/ Ask(d) \/ Dismiss(d) \/ Stay(d)
    \/ \E w \in 1..opened : CloseWindow(w)
    \/ \E w \in Docs \union {"elsewhere"} : Click(w)
    \/ CloseMessage \/ IdleAlarm \/ Restart \/ SuppressEnds \/ Tick

(* What runs goes on, and time passes; the user and the provider need not. *)
Fairness ==
    /\ \A c \in Calls : WF_vars(Works(c))
    /\ \A d \in Docs : WF_vars(ReadHold(d) \/ WriteHold(d)) /\ WF_vars(Dismiss(d) \/ Stay(d))
    /\ WF_vars(SuppressEnds) /\ SF_vars(Tick)

Spec == Init /\ [][Next]_vars /\ Fairness

-----------------------------------------------------------------------------
(* Every call ends: the user who never answers, a window that closes, or   *)
(* one that two calls open at once, leaves no document waiting             *)
(* (requestExternalWalletViaConnector, content.ts).                        *)
CallsEnd == \A c \in Calls : call[c].at # "idle" ~> call[c].at = "done"

(* background.ts: the connector is "closed on idle".                       *)
ClosedOnIdle == ~alarm /\ (\A c \in Calls : ~InWorker(c)) => windows = {}

(* wallet-autoclose.ts: "Keep the wallet window up for the duration of     *)
(* `task` (passkey prompt, connector)."                                    *)
HeldWhileAsked == \A c \in Calls : InWorker(c) => Doc[c] \in open
=============================================================================
