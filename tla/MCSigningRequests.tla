------------------------- MODULE MCSigningRequests -------------------------
(***************************************************************************)
(* What wallets are asked to sign: the signing requests of the hub, and    *)
(* the swaps of the extension with the readying of an account for them and *)
(* the mathematics of their quotes.  `part` says which of the models moves *)
(* in a behaviour while the others stand still.                            *)
(*                                                                         *)
(* SwapOnboarding: the second account is on mainnet.  Swaps: the first     *)
(* account signs by itself, the second is linked through another wallet    *)
(* and covers the smaller trade only; the second network has one maker.    *)
(* SwapMath: pools of one or two positions over six ticks.                 *)
(***************************************************************************)
EXTENDS SigningRequests, Integers, FiniteSets, TLC

CONSTANTS transfer, message, s1, s2, g1, a1, a2, n1, n2, None,
          Accounts, Mainnet, Mints, MaxProbes, MaxEvents,
          External, Networks, NoRfq, Trades, Covers, Attempts, MaxRequests,
          Ticks, PriceOf, MinPrice, MaxPrice, Q, FeeUnits, ArraySize, Positions, Fees, Amounts
VARIABLES part,
          account, probe, probing, shown, read, flow, exists, atas, pending, events,
          trader, network, surface, draft, request, asking, quote, loading, failed, balance,
          load, submitting, sessions, tries, turns,
          positions, net, fee, price, tick, liquidity, leg, aToB, given, remaining, paid, got,
          running, from, origin, stake, blind

OneTransfer == {transfer}
TransferAndMessage == {transfer, message}
OneMessage == {message}
NoMessage == {}
TwoSubmitters == {s1, s2}
OneReader == {g1}

readyVars == <<account, probe, probing, shown, read, flow, exists, atas, pending, events>>
Ready == INSTANCE SwapOnboarding WITH Tokens <- Mints, status <- shown

MCTrades == {[sell |-> 1, amount |-> 1], [sell |-> 1, amount |-> 2]}
MCCovers == [b \in Accounts \X Networks |-> [d \in Trades |-> b[1] = a1 \/ d.amount = 1]]
swapVars == <<trader, network, surface, draft, request, asking, quote, loading, failed,
              balance, load, submitting, sessions, tries, turns>>
Swap == INSTANCE Swaps WITH Drafts <- Trades, account <- trader, events <- turns

MCTicks == 0..5
MCPrices == 0 :> 8 @@ 1 :> 11 @@ 2 :> 16 @@ 3 :> 23 @@ 4 :> 32 @@ 5 :> 45
MCPositions ==
    {{p, q} : p, q \in {r \in [lower : {0, 1, 3}, upper : {2, 4, 5}, liquidity : {5, 40}] :
                          r.lower < r.upper}}
\* Ticks are limited to those with a price (MIN_TICK_INDEX, MAX_TICK_INDEX), which
\* rises with the tick; a fee is a part of what is swapped.
ASSUME EngineOK ==
    /\ Ticks \subseteq Int /\ IsFiniteSet(Ticks) /\ None \notin Ticks
    /\ {Q, FeeUnits, MinPrice, MaxPrice, ArraySize} \subseteq Nat \ {0}
    /\ PriceOf \in [Ticks -> MinPrice .. MaxPrice]
    /\ \A t, u \in Ticks : t < u => PriceOf[t] < PriceOf[u]
    /\ Fees \subseteq 0 .. FeeUnits /\ Amounts \subseteq Nat
    /\ \A ps \in Positions :
         /\ IsFiniteSet(ps) /\ ps \subseteq [lower: Ticks, upper: Ticks, liquidity: Nat]
         /\ \A p \in ps : p.lower < p.upper

poolVars == <<positions, net, fee, price, tick, liquidity, leg, aToB, given, remaining, paid,
              got, running, from, origin, stake, blind>>
Engine == INSTANCE SwapMath
Idle == INSTANCE SwapMath WITH Positions <- {{}}, Fees <- {0}, Amounts <- {0}

MCInit == /\ part \in {"hub", "ready", "swap", "engine"}
          /\ Init
          /\ Ready!Init
          /\ part # "ready" => account = a1 /\ exists = [a \in Accounts |-> "missing"]
          /\ Swap!Init
          /\ part # "swap" => /\ trader = a1 /\ network = n1 /\ surface = "panel"
                             /\ sessions = {}
          /\ IF part = "engine" THEN Engine!Init
             ELSE Idle!Init /\ leg = "there" /\ price = PriceOf[0] /\ aToB

MCNext == /\ \/ part = "hub" /\ Next
             \/ part = "ready" /\ Ready!Next
             \/ part = "swap" /\ Swap!Next
             \/ part = "engine" /\ Engine!Next
          /\ part # "hub" => UNCHANGED vars
          /\ part # "ready" => UNCHANGED readyVars
          /\ part # "swap" => UNCHANGED swapVars
          /\ part # "engine" => UNCHANGED poolVars
          /\ UNCHANGED part

MCSpec == MCInit /\ [][MCNext]_<<vars, readyVars, swapVars, poolVars, part>> /\ Fairness

\* Of SwapOnboarding: an account shown as ready for swaps is at the chain with all
\* its token accounts.
OnboardedIsThere == Ready!OnboardedIsThere
\* Of Swaps: what is signed is of the account, the network and the form shown at
\* the click, and a swap shown as done is on the chain.
SwapsAsShown == Swap!SwapsAsShown
\* Of SwapMath: a walk of the pool's ticks brings no more than the pool has for it.
PoolKeepsUp == Engine!PoolKeepsUp
=============================================================================
