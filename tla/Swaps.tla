------------------------------- MODULE Swaps --------------------------------
(***************************************************************************)
(* The swap page of the extension (pages/Swap/Swap.tsx, useSwapQuote.ts)   *)
(* over the swap engine (packages/arch-swap-engine: swap/router.ts,        *)
(* swap/execute.ts, arch/transaction-runner.ts, indexer/transactions.ts):  *)
(* quotes are asked for while the form, the account and the network        *)
(* change; a click takes the quote of its render and carries it through    *)
(* the opening of a session, the signature, the submission and the         *)
(* polling.                                                                *)
(*                                                                         *)
(* The engine keeps its network in a module variable that the page sets    *)
(* whenever the network changes, so what the engine asks at a moment it    *)
(* asks of `network`.  Left out: amounts (`Covers` says what a balance     *)
(* covers) and prices, the gate of SwapOnboarding, accounts that cannot    *)
(* swap.                                                                   *)
(***************************************************************************)
EXTENDS Naturals, FiniteSets

CONSTANTS
    Accounts, External, \* those of which a linked wallet signs
    Networks, NoRfq,    \* those without an RFQ server
    Drafts,             \* forms: [sell, amount]
    Covers,             \* whether an account on a network has a draft's amount
    Attempts,
    MaxRequests,        \* bound: quotes asked for
    MaxEvents,          \* bound: edits, switches and faults
    None

VARIABLES
    account, network,  \* of the wallet; the same in every document
    surface,           \* of the page: "toolbar", "panel" or "window"
    draft,             \* the form, None while no amount is entered
    request,           \* requestIdRef
    asking,            \* the calls of the hook that have not ended
    quote, loading, failed, \* of the hook
    balance, load,     \* whose balance is shown; whose is being loaded
    submitting,
    sessions,          \* accounts with a signing session
    tries,             \* what became of each click
    events

page == <<draft, request, asking, quote, loading, failed, balance, load, submitting>>
vars == <<account, network, surface, page, sessions, tries, events>>

Event == events < MaxEvents /\ events' = events + 1

-----------------------------------------------------------------------------
(* useSwapQuote.ts                                                         *)

(* The effect that asks for a quote of what is on the page; the timer of   *)
(* the call before is cleared, a call that was sent goes on.               *)
Requote(a, n, d) ==
    LET sent == {r \in asking : r.sent}
        this == [id |-> request + 1, of |-> [account |-> a, network |-> n, draft |-> d],
                 sent |-> FALSE]
    IN  /\ request < MaxRequests
        /\ request' = request + 1
        /\ failed' = FALSE
        /\ loading' = (d # None)
        /\ IF d = None THEN asking' = sent /\ quote' = None
           ELSE asking' = sent \union {this} /\ UNCHANGED quote

(* The timer fires.                                                        *)
Debounced ==
    /\ \E r \in asking :
         /\ ~r.sent
         /\ asking' = (asking \ {r}) \union {[r EXCEPT !.sent = TRUE]}
    /\ UNCHANGED <<account, network, surface, draft, request, quote, loading, failed,
                   balance, load, submitting, sessions, tries, events>>

(* router.ts: both makers are asked and either may fail; an offer that the *)
(* maker's vault can fill comes first, then the one that brings more.      *)
Offers(of) ==
    LET made(source) == {None} \union [source: {source}, fillable: BOOLEAN, brings: {1, 2}]
    IN  [clamm: made("clamm"),
         propamm: IF of.network \in NoRfq THEN {None} ELSE made("propamm")]

Better(o, p) == \/ o.fillable /\ ~p.fillable
                \/ o.fillable = p.fillable /\ o.brings >= p.brings

getAggregatedQuote(offers) ==
    LET candidates == {offers.clamm, offers.propamm} \ {None}
    IN  {o \in candidates : \A p \in candidates \ {o} : Better(o, p)}

(* Mutant: an answer is not asked whether it is the last one's.            *)
CurrentAny(r) == r.id <= request

Current(r) == r.id = request

Answer ==
    /\ \E r \in asking :
         /\ r.sent
         /\ asking' = asking \ {r}
         /\ IF ~Current(r) THEN UNCHANGED <<quote, loading, failed>>
            ELSE \E offers \in Offers(r.of) :
                   LET best == getAggregatedQuote(offers)
                   IN  /\ loading' = FALSE
                       /\ failed' = IF best = {} THEN TRUE ELSE failed
                       /\ IF best = {} THEN quote' = None
                          ELSE \E o \in best : quote' = [of |-> r.of, source |-> o.source]
    /\ UNCHANGED <<account, network, surface, draft, request, balance, load, submitting,
                   sessions, tries, events>>

(* The quote has reached its expiresAt.                                    *)
Refresh ==
    /\ quote # None
    /\ Requote(account, network, draft)
    /\ UNCHANGED <<account, network, surface, draft, balance, load, submitting, sessions,
                   tries, events>>

-----------------------------------------------------------------------------
(* Swap.tsx                                                                *)

Edit ==
    /\ Event
    /\ \E d \in (Drafts \union {None}) \ {draft} :
         draft' = d /\ Requote(account, network, d)
    /\ UNCHANGED <<account, network, surface, balance, load, submitting, sessions, tries>>

(* Both effects run again.  A load that has not ended is cancelled; what   *)
(* it would have replaced stays.                                           *)
Switch ==
    /\ Event
    /\ \E a \in Accounts, n \in Networks :
         /\ <<a, n>> # <<account, network>>
         /\ account' = a /\ network' = n
         /\ load' = <<a, n>>
         /\ Requote(a, n, draft)
    /\ UNCHANGED <<surface, draft, balance, submitting, sessions, tries>>

LoadBalance ==
    /\ load # None
    /\ load' = None
    /\ balance' \in {load, None}
    /\ UNCHANGED <<account, network, surface, draft, request, asking, quote, loading, failed,
                   submitting, sessions, tries, events>>

hasFreshQuote == quote # None /\ draft # None /\ quote.of.draft.sell = draft.sell

(* SubmitButton is disabled unless this holds.                             *)
Valid ==
    /\ draft # None
    /\ balance # None /\ Covers[balance][draft]
    /\ ~failed /\ ~loading /\ hasFreshQuote

(* The page as it is opened: with an empty form, or by itself with that of *)
(* the page that opened it.                                                *)
Opened(d) ==
    /\ draft' = d /\ quote' = None /\ failed' = FALSE /\ submitting' = FALSE
    /\ balance' = None /\ load' = <<account, network>>
    /\ request < MaxRequests
    /\ request' = request + 1
    /\ loading' = (d # None)
    /\ asking' = IF d = None THEN {}
                 ELSE {[id |-> request + 1, sent |-> FALSE,
                        of |-> [account |-> account, network |-> network, draft |-> d]]}

Running(t) == t # None /\ t.phase \notin {"success", "failed", "cut"}
Cut == [i \in Attempts |-> IF Running(tries[i]) THEN [tries[i] EXCEPT !.phase = "cut"]
                           ELSE tries[i]]

(* A click takes the quote of the render and what the page shows with it.  *)
Begin(phase) ==
    [quote |-> quote, shown |-> [account |-> account, network |-> network, draft |-> draft],
     phase |-> phase, via |-> None, tx |-> None]

(* handleSubmit: up to its first await, which only a linked wallet has.    *)
Click ==
    /\ Valid /\ ~submitting
    /\ surface # "panel"
    /\ \E i \in Attempts :
         /\ tries[i] = None /\ \A j \in 1..(i - 1) : tries[j] # None
         /\ tries' = [tries EXCEPT ![i] =
                         Begin(IF account \in External THEN "focus" ELSE "session")]
         /\ submitting' = (account \notin External)
    /\ UNCHANGED <<account, network, surface, draft, request, asking, quote, loading, failed,
                   balance, load, sessions, events>>

(* The side panel hands over to a window, and so does the toolbar popup    *)
(* for a linked wallet: it would close when the other window opens.        *)
HandOver ==
    /\ \/ surface = "panel" /\ Valid /\ ~submitting /\ Opened(draft)
       \/ /\ surface = "toolbar"
          /\ \E i \in Attempts : /\ tries[i] # None /\ tries[i].phase = "focus"
                                 /\ Opened(tries[i].shown.draft)
    /\ surface' = "window"
    /\ tries' = Cut
    /\ UNCHANGED <<account, network, sessions, events>>

Leave ==
    /\ Event
    /\ Opened(None)
    /\ tries' = Cut
    /\ UNCHANGED <<account, network, surface, sessions>>

Move(i, t) == tries' = [tries EXCEPT ![i] = t]
To(i, phase) == Move(i, [tries[i] EXCEPT !.phase = phase])

(* The finally of any attempt enables the button.                          *)
Failed(i) == To(i, "failed") /\ submitting' = FALSE

Focused(i) ==
    /\ tries[i].phase = "focus" /\ surface = "window"
    /\ To(i, "session")
    /\ submitting' = TRUE
    /\ UNCHANGED <<sessions, draft, request, asking, quote, loading, failed, events>>

(* ensureSwapSigningSession asks for, and opens, the session of the        *)
(* account that is active by now.                                          *)
EnsureSession(i) ==
    LET mine == tries[i].shown.account \in External
    IN  /\ tries[i].phase = "session"
        /\ \/ /\ mine \/ account \notin External
              /\ To(i, "sign")
              /\ sessions' = IF mine THEN sessions ELSE sessions \union {account}
              /\ UNCHANGED <<submitting, events>>
           \/ /\ ~mine /\ account \notin sessions
              /\ Failed(i)
              /\ IF account \in External THEN UNCHANGED events ELSE Event
              /\ UNCHANGED sessions
        /\ UNCHANGED <<draft, request, asking, quote, loading, failed>>

(* The signer is of the account of the click.                              *)
Sign(i) ==
    LET able == tries[i].shown.account \in External \union sessions
    IN  /\ tries[i].phase = "sign"
        /\ \/ able /\ To(i, "submit") /\ UNCHANGED <<submitting, events>>
           \/ Failed(i) /\ IF able THEN Event ELSE UNCHANGED events
        /\ UNCHANGED <<sessions, draft, request, asking, quote, loading, failed>>

(* executeSwapQuote: the RFQ server of the quote's network submits its     *)
(* own, the indexer of the engine's network the others.  A node refuses a  *)
(* transaction with a block hash of another network; an answer may be lost.*)
Submit(i) ==
    LET t == tries[i]
        via == IF t.quote.source = "propamm" THEN t.quote.of.network ELSE network
        taken == [t EXCEPT !.via = via, !.tx = "pending", !.phase = "confirm"]
        refused == [t EXCEPT !.via = via, !.phase = "failed"]
    IN  /\ t.phase = "submit"
        /\ IF via # t.quote.of.network
           THEN Move(i, refused) /\ submitting' = FALSE /\ UNCHANGED events
           ELSE \/ Move(i, taken) /\ UNCHANGED <<submitting, events>>
                \/ /\ Event
                   /\ \E tx \in {None, "pending"} : Move(i, [refused EXCEPT !.tx = tx])
                   /\ submitting' = FALSE
        /\ UNCHANGED <<sessions, draft, request, asking, quote, loading, failed>>

(* Mutant: a transaction that is still being processed counts as processed.*)
ProcessedEarly(t) == t.tx \in {"pending", "landed"}

Processed(t) == t.tx = "landed"

(* waitForConfirmation asks the engine's network; it gives up in the end,  *)
(* and a failed transaction ends it.  A swap that is done empties the form.*)
Confirm(i) ==
    LET t == tries[i]
        asked == network = t.quote.of.network
    IN  /\ t.phase = "confirm"
        /\ \/ /\ asked /\ Processed(t)
              /\ To(i, "success")
              /\ submitting' = FALSE
              /\ IF draft = None THEN UNCHANGED <<draft, request, asking, quote, loading, failed>>
                 ELSE draft' = None /\ Requote(account, network, None)
              /\ UNCHANGED events
           \/ /\ Failed(i)
              /\ IF asked /\ t.tx = "refused" THEN UNCHANGED events ELSE Event
              /\ UNCHANGED <<draft, request, asking, quote, loading, failed>>
        /\ UNCHANGED sessions

Chain(i) ==
    /\ tries[i].tx = "pending"
    /\ \E tx \in {"landed", "refused"} : Move(i, [tries[i] EXCEPT !.tx = tx])
    /\ UNCHANGED <<submitting, sessions, draft, request, asking, quote, loading, failed, events>>

Proceed ==
    /\ \E i \in Attempts :
         /\ tries[i] # None
         /\ Focused(i) \/ EnsureSession(i) \/ Sign(i) \/ Submit(i) \/ Confirm(i) \/ Chain(i)
    /\ UNCHANGED <<account, network, surface, balance, load>>

-----------------------------------------------------------------------------
Init ==
    /\ account \in Accounts /\ network \in Networks
    /\ surface \in {"toolbar", "panel", "window"}
    /\ draft = None /\ request = 1 /\ asking = {} /\ quote = None
    /\ loading = FALSE /\ failed = FALSE /\ submitting = FALSE
    /\ balance = None /\ load = <<account, network>>
    /\ sessions \in SUBSET (Accounts \ External)
    /\ tries = [i \in Attempts |-> None] /\ events = 0

Next == \/ Debounced \/ Answer \/ Refresh \/ Edit \/ Switch \/ LoadBalance
        \/ Click \/ HandOver \/ Leave \/ Proceed

Spec == Init /\ [][Next]_vars

-----------------------------------------------------------------------------
(* However late quotes and sessions come, what is signed is a transaction  *)
(* of the account, the network and the form the page showed at the click,  *)
(* and a swap shown as done is on the chain (Swap.tsx, useSwapQuote.ts,    *)
(* transactions.ts).                                                       *)
SwapsAsShown ==
    \A i \in Attempts : tries[i] # None =>
        /\ tries[i].phase \notin {"focus", "session", "sign"} => tries[i].quote.of = tries[i].shown
        /\ tries[i].phase = "success" => tries[i].tx = "landed"

(* engine-config.ts: "If a host ever needs to switch networks at runtime,  *)
(* call `configureEngine(...)` again with the new id - no other            *)
(* synchronization is required."                                           *)
SwitchNeedsNoMore ==
    \A i \in Attempts : tries[i] # None => tries[i].via \in {None, tries[i].shown.network}

(* Swap.tsx: "so we can validate 'exceeds balance' before ever asking the  *)
(* user to sign."                                                          *)
AsksWithinBalance ==
    \A i \in Attempts : tries[i] # None =>
        Covers[<<tries[i].shown.account, tries[i].shown.network>>][tries[i].shown.draft]
=============================================================================
