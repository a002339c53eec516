------------------------------ MODULE SwapMath ------------------------------
(***************************************************************************)
(* What the swap engine says a swap will cost and bring                    *)
(* (packages/arch-swap-engine/src/lib/clamm/math): the walk of an exact    *)
(* input through the ticks of a concentrated-liquidity pool, in fixed-     *)
(* point integers that are rounded, and what a position takes and gives    *)
(* back.  A behaviour is a swap there and one back with what it brought,   *)
(* or a deposit and its withdrawal.                                        *)
(*                                                                         *)
(* Prices are square roots in units of 1/Q; the floating-point function    *)
(* that computes them is the table PriceOf.  Left out: exact outputs,      *)
(* which no caller asks for.                                               *)
(***************************************************************************)
EXTENDS Integers, FiniteSetsExt

CONSTANTS
    Ticks,              \* tick indices, an interval
    PriceOf,            \* tickIndexToSqrtPrice
    MinPrice, MaxPrice, \* MIN_SQRT_PRICE, MAX_SQRT_PRICE
    Q, FeeUnits,        \* Q64, FEE_RATE_MUL_VALUE
    ArraySize,          \* TICK_ARRAY_SIZE, of ticks one apart
    Positions,          \* the sets of positions a pool may hold
    Fees, Amounts,
    None

VARIABLES
    positions, net, fee, \* of the pool; liquidityNet of each tick, feeRate
    price, tick, liquidity, \* where the simulation is
    leg,               \* "there", "back", "over"; "deposit", "withdrawn"
    aToB, given, remaining, paid, got, running, \* the swap of this leg
    from, origin,      \* the tick and the price it began at
    stake,             \* a deposit: its ticks, and what it was made of
    blind              \* history: the walk left the tick arrays it had

pool == <<positions, net, fee>>
swap == <<aToB, given, remaining, paid, got, running, from, origin>>
vars == <<pool, price, tick, liquidity, leg, swap, stake, blind>>

Rounded(a, b, up) == IF up THEN (a + b - 1) \div b ELSE a \div b

-----------------------------------------------------------------------------
(* token-math.ts                                                           *)

getAmountDeltaA(lower, upper, l, up) == Rounded(l * (upper - lower) * Q, lower * upper, up)

(* Mutant: the output is rounded as the input is.                          *)
getAmountDeltaBUp(lower, upper, l, up) == Rounded(l * (upper - lower), Q, TRUE)

getAmountDeltaB(lower, upper, l, up) == Rounded(l * (upper - lower), Q, up)

getNextSqrtPriceFromA(p, l, amount) ==
    IF amount = 0 THEN p ELSE Rounded(l * p, l + (amount * p) \div Q, TRUE)

getNextSqrtPriceFromB(p, l, amount) == p + (amount * Q) \div l

-----------------------------------------------------------------------------
(* swap-math.ts                                                            *)

Step(target) ==
    LET down == IF aToB THEN target ELSE price
        up   == IF aToB THEN price ELSE target
        calc == remaining - (remaining * fee) \div FeeUnits
        toTarget == IF aToB THEN getAmountDeltaA(down, up, liquidity, TRUE)
                    ELSE getAmountDeltaB(down, up, liquidity, TRUE)
        next == IF calc >= toTarget THEN target
                ELSE IF aToB THEN getNextSqrtPriceFromA(price, liquidity, calc)
                ELSE getNextSqrtPriceFromB(price, liquidity, calc)
        input == IF next = target THEN toTarget
                 ELSE IF aToB THEN getAmountDeltaA(next, price, liquidity, TRUE)
                 ELSE getAmountDeltaB(price, next, liquidity, TRUE)
    IN  [next |-> next,
         input |-> input,
         output |-> IF aToB THEN getAmountDeltaB(next, price, liquidity, FALSE)
                    ELSE getAmountDeltaA(price, next, liquidity, FALSE),
         fee |-> IF next = target THEN Rounded(input * fee, FeeUnits, TRUE)
                 ELSE remaining - input]

computeSwapStep(target) ==
    IF liquidity = 0 THEN [next |-> target, input |-> 0, output |-> 0, fee |-> 0]
    ELSE Step(target)

(* getStartTickIndex; the three arrays that fetchTickArrays asks for lie    *)
(* one after the other.                                                    *)
Start(t) == t - (t % ArraySize)
InView(t) ==
    IF aToB THEN t >= Start(from) - 2 * ArraySize ELSE t < Start(from) + 3 * ArraySize

(* getNextInitializedTick: a tick where a position ends is initialized.     *)
Initialized(t) == \E p \in positions : t \in {p.lower, p.upper}
Ahead == {t \in Ticks : Initialized(t) /\ IF aToB THEN t <= tick ELSE t > tick}
NextTick ==
    LET seen == {t \in Ahead : InView(t)}
    IN  IF seen = {} THEN None ELSE IF aToB THEN Max(seen) ELSE Min(seen)

Limit == IF aToB THEN MinPrice ELSE MaxPrice

(* One turn of the loop of computeSwap.                                    *)
Walk ==
    LET t == NextTick
        s == computeSwapStep(IF t = None THEN Limit ELSE PriceOf[t])
        crosses == s.next # Limit /\ t # None /\ s.next = PriceOf[t]
    IN  /\ running /\ remaining > 0
        /\ paid' = paid + s.input + s.fee
        /\ got' = got + s.output
        /\ remaining' = remaining - (s.input + s.fee)
        /\ price' = s.next
        /\ blind' = (blind \/ (t = None /\ Ahead # {}))
        /\ running' = crosses
        /\ IF crosses
           THEN /\ liquidity' = IF aToB THEN liquidity - net[t] ELSE liquidity + net[t]
                /\ tick' = IF aToB THEN t - 1 ELSE t
           ELSE UNCHANGED <<liquidity, tick>>
        /\ UNCHANGED <<pool, leg, aToB, given, from, origin, stake>>

(* swapQuoteByInputToken                                                   *)
Quote(amount, direction, at) ==
    /\ aToB' = direction /\ from' = at /\ origin' = price
    /\ given' = amount /\ remaining' = amount
    /\ paid' = 0 /\ got' = 0 /\ running' = TRUE

(* What the swap has brought is swapped back.                              *)
Turn ==
    /\ leg = "there" /\ ~(running /\ remaining > 0)
    /\ leg' = "back"
    /\ Quote(got, ~aToB, tick)
    /\ UNCHANGED <<pool, price, tick, liquidity, stake, blind>>

Finish ==
    /\ leg = "back" /\ ~(running /\ remaining > 0)
    /\ leg' = "over"
    /\ UNCHANGED <<pool, price, tick, liquidity, swap, stake, blind>>

-----------------------------------------------------------------------------
(* liquidity-math.ts: what a position between two ticks takes of either    *)
(* token, and what it gives back.                                          *)

getLiquidityFromAmountA(lower, upper, amount) ==
    (amount * lower * upper) \div (Q * (upper - lower))
getLiquidityFromAmountB(lower, upper, amount) == (amount * Q) \div (upper - lower)

increaseLiquidityQuoteA(lower, upper, amount) ==
    IF price >= upper THEN [liquidity |-> 0, A |-> 0, B |-> 0]
    ELSE IF price <= lower
    THEN [liquidity |-> getLiquidityFromAmountA(lower, upper, amount), A |-> amount, B |-> 0]
    ELSE LET l == getLiquidityFromAmountA(price, upper, amount)
         IN  [liquidity |-> l, A |-> amount, B |-> getAmountDeltaB(lower, price, l, TRUE)]

increaseLiquidityQuoteB(lower, upper, amount) ==
    IF price <= lower THEN [liquidity |-> 0, A |-> 0, B |-> 0]
    ELSE IF price >= upper
    THEN [liquidity |-> getLiquidityFromAmountB(lower, upper, amount), A |-> 0, B |-> amount]
    ELSE LET l == getLiquidityFromAmountB(lower, price, amount)
         IN  [liquidity |-> l, A |-> getAmountDeltaA(price, upper, l, TRUE), B |-> amount]

decreaseLiquidityQuote(lower, upper, l) ==
    IF price <= lower THEN [A |-> getAmountDeltaA(lower, upper, l, FALSE), B |-> 0]
    ELSE IF price >= upper THEN [A |-> 0, B |-> getAmountDeltaB(lower, upper, l, FALSE)]
    ELSE [A |-> getAmountDeltaA(price, upper, l, FALSE),
          B |-> getAmountDeltaB(lower, price, l, FALSE)]

Withdraw ==
    /\ leg = "deposit"
    /\ leg' = "withdrawn"
    /\ stake' = [taken |-> stake.taken,
                 back |-> decreaseLiquidityQuote(PriceOf[stake.lower], PriceOf[stake.upper],
                                                 stake.taken.liquidity)]
    /\ UNCHANGED <<pool, price, tick, liquidity, swap, blind>>

-----------------------------------------------------------------------------
Liquidity(ps) == SumFunction([p \in ps |-> p.liquidity])
NetOf(ps, t) == Liquidity({p \in ps : p.lower = t}) - Liquidity({p \in ps : p.upper = t})

(* A pool holds positions; its tick is the last whose price is not above   *)
(* its own.  What a deposit takes does not depend on the others.           *)
PoolWith(ps) ==
    /\ positions = ps
    /\ net = [t \in Ticks |-> NetOf(ps, t)]
    /\ price \in {PriceOf[t] : t \in Ticks} \union {PriceOf[t] + 1 : t \in Ticks}
    /\ price \in MinPrice .. MaxPrice
    /\ tick = Max({t \in Ticks : PriceOf[t] <= price})
    /\ liquidity = Liquidity({p \in ps : p.lower <= tick /\ tick < p.upper})

Init ==
    /\ blind = FALSE /\ paid = 0 /\ got = 0 /\ running = TRUE
    /\ leg \in {"there", "deposit"}
    /\ \E ps \in (IF leg = "there" THEN Positions ELSE {{}}) : PoolWith(ps)
    /\ from = tick /\ origin = price
    /\ \/ leg = "there" /\ fee \in Fees /\ aToB \in BOOLEAN /\ given \in Amounts
          /\ stake = None
       \/ leg = "deposit" /\ fee = 0 /\ aToB = TRUE /\ given = 0
          /\ \E lower, upper \in Ticks, amount \in Amounts :
               /\ lower < upper
               /\ stake \in {[lower |-> lower, upper |-> upper, taken |-> quote] :
                     quote \in {increaseLiquidityQuoteA(PriceOf[lower], PriceOf[upper], amount),
                               increaseLiquidityQuoteB(PriceOf[lower], PriceOf[upper], amount)}}
    /\ remaining = given

Next == Walk \/ Turn \/ Finish \/ Withdraw

Spec == Init /\ [][Next]_vars

-----------------------------------------------------------------------------
(* What a move of the price from p up to q turns of one token into the     *)
(* other, summed over the positions: of B in units of 1/Q, and of A of     *)
(* 1/1000, rounded down or up.                                             *)
Within(p, pos) == Max({PriceOf[pos.lower], Min({PriceOf[pos.upper], p})})
TurnedB(p, q) ==
    SumFunction([pos \in positions |-> pos.liquidity * (Within(q, pos) - Within(p, pos))])
TurnedA(p, q, up) ==
    SumFunction([pos \in positions |->
                   Rounded(1000 * Q * pos.liquidity * (Within(q, pos) - Within(p, pos)),
                           Within(p, pos) * Within(q, pos), up)])

(* However many ticks a walk crosses, it brings no more than the pool has  *)
(* for the move of its price, and takes no less: roundings are against     *)
(* the trader (computeSwap).  A position withdrawn where it was made gives *)
(* back no more than it took (increaseLiquidityQuoteA and -B,              *)
(* decreaseLiquidityQuote).  A walk past the arrays it has fetched is of   *)
(* a pool that is not there.                                               *)
PoolKeepsUp ==
    /\ leg \in {"there", "back"} /\ ~blind =>
         IF aToB THEN /\ got * Q <= TurnedB(price, origin)
                      /\ 1000 * paid >= TurnedA(price, origin, FALSE)
         ELSE /\ 1000 * got <= TurnedA(origin, price, TRUE)
              /\ paid * Q >= TurnedB(origin, price)
    /\ leg = "withdrawn" => /\ stake.back.A <= stake.taken.A
                            /\ stake.back.B <= stake.taken.B

(* swap-math.ts: "Get a swap quote for an exact input amount."             *)
TakesAtMostGiven == paid <= given
=============================================================================
