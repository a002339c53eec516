------------------------------ MODULE SpendCaps ------------------------------
(***************************************************************************)
(* What an Approve page looks at before it lets a site have a transfer or  *)
(* a PSBT signed (pages/Approve/Approve.tsx): the site's daily cap and the *)
(* log of what it has spent (utils/spend-tracker.ts), the balances that    *)
(* must pay for it (utils/transfer-gates.ts), and the inputs of a PSBT.    *)
(*                                                                         *)
(* Every lookup of a page answers on its own; the gates are computed of    *)
(* what has answered, and a balance or cap that has not refuses nothing.   *)
(* The log is one list for all sites, read whole and written whole after   *)
(* the page has shown its check mark.  The payee is another account.       *)
(***************************************************************************)
EXTENDS Integers, FiniteSetsExt, SequencesExt

CONSTANTS
    Pages,       \* Approve pages, one for each request
    Asks,        \* what each may be shown for: kind, site, amount
    Sites, Networks,
    Limits,      \* caps a user may set
    Chains,      \* what the accounts may hold at first
    Fee, Rent, Deposit, \* network fee, least balance but zero, cost of a token account
    Day, MaxEntries,    \* WINDOW_MS and MAX_ENTRIES
    MaxTime, MaxEvents, \* bounds
    None

VARIABLES
    request,  \* of each page
    stage,
    snap,     \* answers of its lookups: balances, and the network of a PSBT's inputs
    cap,      \* its cap gate: where the lookup stands, and of what it was computed
    click,    \* network, cap gate and answers its last Approve was clicked with
    recorder, \* its recordSpend
    log,      \* arch_wallet_spend_log
    limit,    \* the caps in the permissions of each site
    wanted,   \* history: the caps the user set last
    network, now,
    chain,    \* lamports of payer and payee, tokens of the payer, the payee's token account
    spends,   \* history: what was signed, in order
    gone,     \* history: numbers of those the log has lost, or never had
    events

world == <<limit, wanted, network, now, events>>
vars == <<request, stage, snap, cap, click, recorder, log, world, chain, spends, gone>>

Assets == {"arch", "btc"}
Loading == -2
Unknown == -1  \* not there, or the indexer failed
Needs == [transfer |-> {"payer", "payee"}, token |-> {"payer", "tokens", "account"},
          psbt |-> {"outputs"}]
Asset(r) == IF r.kind = "psbt" THEN "btc" ELSE "arch"

NoLookups == [q \in UNION {Needs[k] : k \in DOMAIN Needs} |-> Loading]
NoCap == [at |-> "none", net |-> None, limit |-> None, seen |-> {}]
NoRecorder == [at |-> "none", no |-> 0, copy |-> <<>>]
NoClick == [net |-> None, cap |-> NoCap, snap |-> NoLookups]

Init ==
    /\ request = [p \in Pages |-> None]
    /\ stage = [p \in Pages |-> "none"]
    /\ snap = [p \in Pages |-> NoLookups]
    /\ cap = [p \in Pages |-> NoCap]
    /\ click = [p \in Pages |-> NoClick]
    /\ recorder = [p \in Pages |-> NoRecorder]
    /\ log = <<>>
    /\ limit \in [Sites -> [Assets -> Limits \union {None}]] /\ wanted = limit
    /\ network \in Networks /\ now = 0
    /\ chain \in Chains
    /\ spends = <<>> /\ gone = {} /\ events = 0

-----------------------------------------------------------------------------
(* The tracker.                                                            *)

Fresh(e, t) == e.ts >= t - Day
Numbers(entries) == {entries[i].no : i \in DOMAIN entries}

FreshOf(entries, t) ==
    FoldLeft(LAMBDA kept, e : IF Fresh(e, t) THEN Append(kept, e) ELSE kept, <<>>, entries)

(* The newest first.  The sort is stable: of one time, they stay in order. *)
Ahead(entries, i) == {j \in DOMAIN entries : \/ entries[j].ts > entries[i].ts
                                             \/ entries[j].ts = entries[i].ts /\ j <= i}
NewestFirst(entries) ==
    [k \in DOMAIN entries |->
       entries[CHOOSE i \in DOMAIN entries : Cardinality(Ahead(entries, i)) = k]]

(* Mutant: too many entries are cut off as they stand.                     *)
PruneUnsorted(entries, t) ==
    LET fresh == FreshOf(entries, t)
    IN  SubSeq(fresh, 1, IF Len(fresh) > MaxEntries THEN MaxEntries ELSE Len(fresh))

(* prune: entries of the last day and, when they are too many, the newest, *)
(* newest first.                                                           *)
Prune(entries, t) ==
    LET fresh == FreshOf(entries, t)
    IN  IF Len(fresh) <= MaxEntries THEN fresh ELSE SubSeq(NewestFirst(fresh), 1, MaxEntries)

(* Spends of a site, asset and network in the last day; of the log this is *)
(* what getRecentSpend sums.                                               *)
Recent(entries, r, net) ==
    {e \in ToSet(entries) : /\ e.site = r.site /\ e.asset = Asset(r) /\ e.net = net
                            /\ Fresh(e, now)}
SumOf(entries) == MapThenSumSet(LAMBDA e : e.amount, entries)

(* Mutant: what is asked for is not counted.                               *)
ExceedsBefore(amount, recent, most) == most # None /\ recent > most

Exceeds(amount, recent, most) == most # None /\ recent + amount > most

-----------------------------------------------------------------------------
(* The page and its lookups.                                               *)

(* The effect that looks the cap up; a token transfer has none.            *)
Lookup(r, net) == IF r = None THEN NoCap
                  ELSE IF r.kind = "token" THEN [NoCap EXCEPT !.at = "ok"]
                  ELSE [NoCap EXCEPT !.at = "limit", !.net = net]

(* GET_PENDING_REQUEST answers.                                            *)
Show(p) ==
    /\ stage[p] = "none"
    /\ \E r \in Asks[p] : request' = [request EXCEPT ![p] = r]
    /\ stage' = [stage EXCEPT ![p] = "review"]
    /\ cap' = [cap EXCEPT ![p] = Lookup(request'[p], network)]
    /\ UNCHANGED <<snap, click, recorder, log, world, chain, spends, gone>>

Found(q) == IF q = "outputs" THEN {network}
            ELSE IF chain[q] > 0 \/ q = "tokens" THEN {chain[q]} ELSE {}

(* A balance, or the network's answer about the inputs of a PSBT.          *)
Answer(p, q) ==
    /\ stage[p] \in {"review", "signing"} /\ q \in Needs[request[p].kind]
    /\ snap[p][q] = Loading
    /\ \E v \in Found(q) \union {Unknown} : snap' = [snap EXCEPT ![p][q] = v]
    /\ UNCHANGED <<request, stage, cap, click, recorder, log, world, chain, spends, gone>>

(* readCapLamports, of the permissions of the site; one that fails is no   *)
(* cap.                                                                    *)
ReadLimit(p) ==
    /\ cap[p].at = "limit" /\ stage[p] # "closed"
    /\ \E most \in {limit[request[p].site][Asset(request[p])], None} :
         cap' = [cap EXCEPT ![p].limit = most,
                            ![p].at = IF most = None THEN "ok" ELSE "recent"]
    /\ UNCHANGED <<request, stage, snap, click, recorder, log, world, chain, spends, gone>>

(* readRecentLamports, and the gate; a storage that fails reads as empty.  *)
ReadRecent(p) ==
    /\ cap[p].at = "recent" /\ stage[p] # "closed"
    /\ \E read \in {log, <<>>} :
         cap' = [cap EXCEPT ![p].seen = Numbers(read),
                            ![p].at = IF Exceeds(request[p].amount,
                                                 SumOf(Recent(read, request[p], cap[p].net)),
                                                 cap[p].limit)
                                      THEN "blocked" ELSE "ok"]
    /\ UNCHANGED <<request, stage, snap, click, recorder, log, world, chain, spends, gone>>

-----------------------------------------------------------------------------
(* The gates.                                                              *)

Dust(b) == b > 0 /\ b < Rent
Cost(r, creates) == Fee + IF r.kind = "transfer" THEN r.amount
                          ELSE IF creates THEN Deposit ELSE 0

(* Mutant: what is left to the payer may be dust.                          *)
RefusedBare(r, payer, payee, creates) ==
    \/ r.kind = "transfer" /\ payee \in Nat /\ Dust(payee + r.amount)
    \/ payer \in Nat /\ Cost(r, creates) > payer

(* computeArchTransferGate says "blocked".                                 *)
Refused(r, payer, payee, creates) ==
    \/ r.kind = "transfer" /\ payee \in Nat /\ Dust(payee + r.amount)
    \/ payer \in Nat /\ (Cost(r, creates) > payer \/ Dust(payer - Cost(r, creates)))

(* archTransferGate, tokenTransferGate and psbtPrevouts: a token account   *)
(* that is not known to be there is taken to be created.                   *)
Blocked(p) ==
    LET r == request[p]
        s == snap[p]
    IN  \/ /\ r.kind = "transfer" /\ Loading \notin {s["payer"], s["payee"]}
           /\ Refused(r, s["payer"], s["payee"], FALSE)
        \/ /\ r.kind = "token" /\ Loading \notin {s["payer"], s["account"]}
           /\ Refused(r, s["payer"], Unknown, s["account"] = Unknown)
        \/ r.kind = "token" /\ s["tokens"] \in Nat /\ r.amount > s["tokens"]
        \/ r.kind = "psbt" /\ s["outputs"] \in {Loading, Unknown}

(* The Approve button, and handleApprove up to its first await.            *)
Approve(p) ==
    /\ stage[p] = "review"
    /\ ~Blocked(p) /\ cap[p].at # "blocked"
    /\ stage' = [stage EXCEPT ![p] = "signing"]
    /\ click' = [click EXCEPT ![p] = [net |-> network, cap |-> cap[p], snap |-> snap[p]]]
    /\ UNCHANGED <<request, snap, cap, recorder, log, world, chain, spends, gone>>

-----------------------------------------------------------------------------
(* Signing, and the node.                                                  *)

Creates(r) == r.kind = "token" /\ chain["account"] = 0

(* The second look at a token transfer, of the message the hub has built.  *)
Stopped(p) == request[p].kind = "token" /\ click[p].snap["payer"] # Loading
              /\ Refused(request[p], click[p].snap["payer"], Unknown, Creates(request[p]))

(* The node takes a message whose payer can pay and that leaves no dust.   *)
Takes(r) ==
    \/ r.kind = "psbt"
    \/ LET left == chain["payer"] - Cost(r, Creates(r)) IN
         /\ left >= 0 /\ ~Dust(left)
         /\ r.kind = "transfer" => ~Dust(chain["payee"] + r.amount)
         /\ r.kind = "token" => chain["tokens"] >= r.amount
Moved(r) ==
    CASE r.kind = "transfer" -> [chain EXCEPT !["payer"] = @ - Cost(r, FALSE),
                                              !["payee"] = @ + r.amount]
      [] r.kind = "token" -> [chain EXCEPT !["payer"] = @ - Cost(r, Creates(r)),
                                           !["tokens"] = @ - r.amount, !["account"] = 1]
      [] OTHER -> chain

(* What is signed, with what its page knew of earlier spends.              *)
Spend(p) ==
    LET r == request[p]
        net == click[p].net
        gate == click[p].cap
        before == Recent(spends, r, net)
    IN  [no |-> Len(spends) + 1, site |-> r.site, asset |-> Asset(r), net |-> net,
         amount |-> r.amount, ts |-> now, page |-> p, limit |-> gate.limit,
         total |-> SumOf(before) + r.amount,
         informed |-> /\ gate.at = "ok" /\ gate.net = net
                      /\ \A e \in before : e.no \in gate.seen]

(* signAndSubmitRequest succeeds: the check mark, and recordSpend, which a *)
(* token transfer skips.  Or its answer is lost: the page shows an error.  *)
Sign(p) ==
    /\ stage[p] = "signing" /\ ~Stopped(p) /\ Takes(request[p])
    /\ chain' = Moved(request[p])
    /\ spends' = IF request[p].kind = "token" THEN spends ELSE Append(spends, Spend(p))
    /\ \/ /\ stage' = [stage EXCEPT ![p] = "done"]
          /\ recorder' = IF request[p].kind = "token" THEN recorder
                         ELSE [recorder EXCEPT ![p].at = "read", ![p].no = Len(spends) + 1]
          /\ UNCHANGED gone
       \/ /\ request[p].kind # "psbt"
          /\ stage' = [stage EXCEPT ![p] = "review"]
          /\ gone' = gone \union (DOMAIN spends' \ DOMAIN spends)
          /\ UNCHANGED recorder
    /\ UNCHANGED <<request, snap, cap, click, log, world>>

(* The second look stops it, the node refuses, which may keep the fee, or  *)
(* anything else fails.                                                    *)
SignFails(p) ==
    /\ stage[p] = "signing"
    /\ stage' = [stage EXCEPT ![p] = "review"]
    /\ \/ UNCHANGED chain
       \/ /\ request[p].kind # "psbt" /\ ~Stopped(p) /\ ~Takes(request[p])
          /\ chain["payer"] >= Fee
          /\ chain' = [chain EXCEPT !["payer"] = @ - Fee]
    /\ UNCHANGED <<request, snap, cap, click, recorder, log, world, spends, gone>>

(* A storage that fails reads as empty.                                    *)
ReadLog(p) ==
    /\ recorder[p].at = "read"
    /\ \E read \in {log, <<>>} :
         recorder' = [recorder EXCEPT ![p].at = "write", ![p].copy = read]
    /\ UNCHANGED <<request, stage, snap, cap, click, log, world, chain, spends, gone>>

Entry(n) == LET s == spends[n] IN
    [no |-> n, site |-> s.site, asset |-> s.asset, net |-> s.net, amount |-> s.amount, ts |-> s.ts]

(* What another page has written since the log was read is lost.           *)
WriteLog(p) ==
    /\ recorder[p].at = "write"
    /\ LET n == recorder[p].no IN
         /\ log' = Prune(Append(recorder[p].copy, Entry(n)), spends[n].ts)
         /\ gone' = gone \union (Numbers(log) \ Numbers(recorder[p].copy))
    /\ recorder' = [recorder EXCEPT ![p] = NoRecorder]
    /\ UNCHANGED <<request, stage, snap, cap, click, world, chain, spends>>

(* The window closes, or the storage refuses the write.                    *)
Close(p) ==
    /\ stage[p] \in {"review", "signing", "done"}
    /\ stage' = [stage EXCEPT ![p] = "closed"]
    /\ recorder' = [recorder EXCEPT ![p] = NoRecorder]
    /\ gone' = IF recorder[p].at = "none" THEN gone ELSE gone \union {recorder[p].no}
    /\ UNCHANGED <<request, snap, cap, click, log, world, chain, spends>>

-----------------------------------------------------------------------------
Event == events < MaxEvents /\ events' = events + 1

(* The effects of a page that depend on the network run again: the cap and *)
(* the inputs of a PSBT; the balances stay.                                *)
SwitchNetwork(n) ==
    /\ Event /\ n # network
    /\ network' = n
    /\ cap' = [p \in Pages |-> Lookup(request[p], n)]
    /\ snap' = [p \in Pages |-> [snap[p] EXCEPT !["outputs"] = Loading]]
    /\ UNCHANGED <<request, stage, click, recorder, log, limit, wanted, now, chain, spends, gone>>

(* handleSaveCap and handleSaveBtcCap of the Permission Center.            *)
SetLimit(s, a, most) ==
    /\ Event
    /\ limit' = [limit EXCEPT ![s][a] = most]
    /\ wanted' = [wanted EXCEPT ![s][a] = most]
    /\ UNCHANGED <<request, stage, snap, cap, click, recorder, log, network, now, chain, spends, gone>>

(* APPROVE_CONNECT of a site that connects again: connectSite gives it the *)
(* default permissions.                                                    *)
Reconnect(s) ==
    /\ Event
    /\ limit' = [limit EXCEPT ![s] = [a \in Assets |-> None]]
    /\ UNCHANGED <<request, stage, snap, cap, click, recorder, log, wanted, network, now, chain, spends, gone>>

Tick ==
    /\ now < MaxTime
    /\ now' = now + 1
    /\ UNCHANGED <<request, stage, snap, cap, click, recorder, log, limit, wanted, network, chain,
                   spends, gone, events>>

Next ==
    \/ \E p \in Pages :
         \/ Show(p) \/ ReadLimit(p) \/ ReadRecent(p) \/ Approve(p)
         \/ \E q \in DOMAIN NoLookups : Answer(p, q)
         \/ Sign(p) \/ SignFails(p) \/ ReadLog(p) \/ WriteLog(p) \/ Close(p)
    \/ \E n \in Networks : SwitchNetwork(n)
    \/ \E s \in Sites, a \in Assets, most \in Limits \union {None} : SetLimit(s, a, most)
    \/ \E s \in Sites : Reconnect(s)
    \/ Tick

Spec == Init /\ [][Next]_vars

-----------------------------------------------------------------------------
(* spend-tracker.ts: "The Approve gate sums records from the last 24       *)
(* hours, adds the pending request's amount, and refuses when the sum      *)
(* exceeds the cap."  It does when the page has seen every earlier spend:  *)
(* of those, what is signed and what was signed in the last day stay       *)
(* within the cap ...                                                      *)
InformedFit == \A n \in DOMAIN spends :
    spends[n].informed /\ spends[n].limit # None => spends[n].total <= spends[n].limit

(* ... and the log keeps every spend of the last day that no other page    *)
(* wrote over and no failed read dropped, unless there are MAX_ENTRIES     *)
(* others as new.                                                          *)
SpendsCounted == \A n \in DOMAIN spends :
    LET others == {m \in DOMAIN spends \ {n} : spends[m].ts >= spends[n].ts}
        under == \E p \in Pages : recorder[p].at # "none" /\ recorder[p].no = n
    IN  (n \notin gone /\ ~under /\ Fresh(spends[n], now) /\ Cardinality(others) < MaxEntries)
           => n \in Numbers(log)

CapHolds == InformedFit /\ SpendsCounted

(* transfer-gates.ts: "the prediction is exact when the indexer returned a *)
(* value."  What the gates let through, of balances that are known and     *)
(* have not changed, the node takes.                                       *)
Known(p) ==
    /\ stage[p] = "signing"
    /\ \A q \in Needs[request[p].kind] :
         click[p].snap[q] = chain[q]
         \/ (q = "account" /\ chain[q] = 0 /\ click[p].snap[q] = Unknown)
GatesForesee == \A p \in Pages :
    request[p] # None /\ request[p].kind # "psbt" /\ Known(p) /\ ~Stopped(p) => Takes(request[p])

(* spend-tracker.ts: no cap means that the "Permission Center never wrote  *)
(* one for this origin".                                                   *)
CapStays == limit = wanted
=============================================================================
