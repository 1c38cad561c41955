------------------------------- MODULE Prices -------------------------------
(***************************************************************************)
(* The numbers of one order: slippage, tick rounding, the price band, the  *)
(* amounts that are signed, and the money a fill is booked with.           *)
(*                                                                         *)
(* Prices are integers in mils (thousandths of a dollar), money and shares *)
(* in points (1e-5), and a slipped price in twenty-thousandths of a mil,   *)
(* so that every decimal of the code is exact.  The code computes with     *)
(* doubles: a product or quotient that should be a whole number of steps   *)
(* may come out just beside it, and a floor or a ceiling then lands one    *)
(* step off (0.57 * 100 floors to 56, 0.07 / 0.01 ceils to 8).  So a       *)
(* rounding is the SET of values that the doubles may give.                *)
(***************************************************************************)
EXTENDS Integers

One        == 1000     \* a dollar, as a price
Fine       == 20000    \* the units of a mil in a slipped price
Cent       == 1000     \* 0.01, as money or shares
FiveShares == 500000

Lesser(a, b)  == IF a <= b THEN a ELSE b
Greater(a, b) == IF a >= b THEN a ELSE b

FloorTo(x, step) == (x \div step) * step
CeilTo(x, step)  == FloorTo(x + step - 1, step)

(* round_down: a whole number of steps may lose one.                       *)
RoundDown(x, step) ==
    IF x % step = 0 THEN {x, x - step} ELSE {FloorTo(x, step)}

(* round_normal: a half may go either way.                                 *)
RoundNormal(x, step) ==
    LET down == FloorTo(x, step)
        rest == 2 * (x - down) IN
    CASE rest < step -> {down}
      [] rest = step -> {down, down + step}
      [] rest > step -> {down + step}

(* round_to_tick_ceil: a whole number of ticks may gain one.               *)
RoundToTickCeil(slipped, tick) ==
    LET step == tick * Fine
        up   == CeilTo(slipped, step) \div Fine IN
    IF slipped % step = 0 THEN {up, up + tick} ELSE {up}

\* A mistake in the slippage: the sign a SELL would have.
SellSlippage(ask, slippage, cap) ==
    Lesser(Greater(ask * (Fine - 3 * slippage), (ask - 170) * Fine), cap * Fine)

(* entry_slippage_percent_buy is in hundredths of a percent; FIXED_MARKUP  *)
(* is 0.17.                                                                *)
ApplyBuySlippage(ask, slippage, cap) ==
    Lesser(Greater(ask * (Fine + 3 * slippage), (ask + 170) * Fine), cap * Fine)

-----------------------------------------------------------------------------
(* A band is the entry price gate: its switch and its two limits.          *)
ValidBand(band) ==
    /\ band.gate \in BOOLEAN
    /\ band.min \in Nat /\ band.max \in Nat
    /\ band.min < band.max /\ band.max < One

InBand(band, price) ==
    band.gate => band.min <= price /\ price <= band.max

PriceCap(band) == IF band.gate THEN band.max ELSE 980

ClampPrice(price) == Lesser(Greater(price, 10), 990)

FallbackPrice(band) ==
    IF band.gate THEN ClampPrice(Lesser(Greater(950, band.min), band.max)) ELSE 950

-----------------------------------------------------------------------------
(* An order has a limit and two amounts: maker, the money it gives, and    *)
(* taker, the shares it asks for.  Prices keep the tick's decimals, amounts *)
(* two more: a step of tick points.                                        *)
SupportedTicks == {100, 10, 1}

\* A mistake in the amounts: money rounded up to the cent.
MarketBuyUp(stake, price, tick) ==
    {[limit |-> p, maker |-> CeilTo(stake, Cent),
      taker |-> IF p = 0 THEN 0 ELSE FloorTo((stake * One) \div p, tick)] :
        p \in RoundDown(price, tick)}

(* The market BUY: money to the cent, then as many shares as it pays at    *)
(* the limit, rounded down.  A price floored to zero leaves no finite      *)
(* amount of shares.                                                       *)
MarketBuy(stake, price, tick) ==
    {[limit |-> p, maker |-> m,
      taker |-> IF p = 0 THEN 0 ELSE FloorTo((m * One) \div p, tick)] :
        p \in RoundDown(price, tick), m \in RoundDown(stake, Cent)}

(* The resting limit BUY: at least five shares, whatever the stake.        *)
LimitBuy(stake, price, tick) ==
    LET wanted == Greater(stake, 500 * price) IN
    {[limit |-> p, maker |-> (s * p) \div One, taker |-> s] :
        p \in RoundNormal(price, tick),
        s \in {Greater(FiveShares, d) : d \in RoundDown((wanted * One) \div price, Cent)}}

\* A mistake in the checks: there are none.
SignableAny(order) == TRUE

(* create_signed_order refuses amounts that are not positive.              *)
Signable(order) == order.maker > 0 /\ order.taker > 0

-----------------------------------------------------------------------------
\* A mistake in the audit: only one end of the band is looked at.
ViolationBelow(band, size, price) ==
    size > 0 /\ price > 0 /\ band.gate /\ price < band.min

(* The price of a fill out of the band marks the trade.                    *)
FillBandViolation(band, size, price) ==
    size > 0 /\ price > 0 /\ ~InBand(band, price)

\* A mistake in booking the money: always what size and price imply.
SpentAtPrice(kind, status, stake, size, price) == (size * price) \div One

(* A matched market BUY spent the stake it asked for; anything else what   *)
(* size and price imply, a market BUY no more than its stake.              *)
ComputeSpent(kind, status, stake, size, price) ==
    LET implied == (size * price) \div One IN
    CASE kind = "FOK" /\ status = "MATCHED" -> stake
      [] kind = "FOK" /\ status # "MATCHED" -> Lesser(stake, implied)
      [] kind = "GTC"                       -> implied
=============================================================================
