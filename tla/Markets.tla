------------------------------ MODULE Markets -------------------------------
(***************************************************************************)
(* What the bot reads from other systems: the markets of a Gamma payload,  *)
(* the levels of an order book, the candles of Binance; and what it makes  *)
(* of them: tokens, a best price, a direction, a verdict.                  *)
(*                                                                         *)
(* A Gamma payload is the sequence of its markets, in the order of the     *)
(* response.  Outcomes are reduced to the alias list they belong to: "yes" *)
(* (yes, up, higher, above, true), "no" (no, down, lower, below, false) or *)
(* "other".  A price is a number of mils, or NoPrice where the payload has *)
(* something that is no JSON number (as_f64 of a string gives nothing).    *)
(***************************************************************************)
EXTENDS Integers, SequencesExt

NoPrice == -1
NoId    == "none"
NoMarket == [condition |-> NoId, yes |-> NoId, no |-> NoId,
             yesPrice |-> NoPrice, noPrice |-> NoPrice]

Sides == {"Up", "Down"}

-----------------------------------------------------------------------------
\* A mistake in the look-up of an outcome: the order of the response.
FirstPlace(outcomes, alias) == IF alias = "yes" THEN 1 ELSE 2

(* Where an alias first occurs, 0 if it does not.                          *)
Place(outcomes, alias) == SelectInSeq(outcomes, LAMBDA o : o = alias)

HasBothSides(outcomes) ==
    Place(outcomes, "yes") # 0 /\ Place(outcomes, "no") # 0

HasPrices(m) ==
    /\ Place(m.outcomes, "yes") <= Len(m.prices)
    /\ Place(m.outcomes, "no") <= Len(m.prices)

(* A market the bot could trade: both sides, two tokens, a price entry for *)
(* each side (a number or not), a condition id.                            *)
Usable(m) ==
    /\ HasBothSides(m.outcomes)
    /\ Len(m.tokens) >= 2
    /\ HasPrices(m)
    /\ m.condition # NoId

(* The first usable market, its tokens and prices by side.                 *)
NormalizeDiscovered(payload) ==
    LET i == SelectInSeq(payload, Usable) IN
    IF i = 0 THEN NoMarket
    ELSE LET m   == payload[i]
             yes == Place(m.outcomes, "yes")
             no  == Place(m.outcomes, "no") IN
         [condition |-> m.condition, yes |-> m.tokens[yes], no |-> m.tokens[no],
          yesPrice |-> m.prices[yes], noPrice |-> m.prices[no]]

(* Which side the prices of the market favour; no side without both prices *)
(* or when they are equal.                                                 *)
FallbackResolve(payload) ==
    LET m     == NormalizeDiscovered(payload)
        known == m.yesPrice # NoPrice /\ m.noPrice # NoPrice IN
    CASE known /\ m.yesPrice > m.noPrice -> "Up"
      [] known /\ m.noPrice > m.yesPrice -> "Down"
      [] OTHER                           -> "none"

(* One dollar for one side and (to a cent) nothing for the other.          *)
FinalPrices(yes, no) ==
    /\ yes # NoPrice /\ no # NoPrice
    /\ yes + no \in 990..1010
    /\ yes = 1000 \/ no = 1000

(* Resolved: by the flags, or by final prices.                             *)
DeriveResolution(m) ==
    LET priced == HasBothSides(m.outcomes) /\ HasPrices(m)
        yes    == IF priced THEN m.prices[Place(m.outcomes, "yes")] ELSE NoPrice
        no     == IF priced THEN m.prices[Place(m.outcomes, "no")] ELSE NoPrice IN
    [resolved |-> m.over \/ FinalPrices(yes, no), yes |-> yes, no |-> no]

Unresolved == [resolved |-> FALSE, yes |-> NoPrice, no |-> NoPrice]

\* A mistake in the probe: the slug alone names the market.
ProbeFirst(payload, condition) ==
    IF payload = <<>> THEN Unresolved ELSE DeriveResolution(payload[1])

(* The market of a claim is the one with its condition id, wherever it is  *)
(* in the payload and whatever else the payload holds.                     *)
ProbeGamma(payload, condition) ==
    LET i == SelectInSeq(payload, LAMBDA m : m.condition = condition) IN
    IF condition = NoId \/ i = 0 THEN Unresolved ELSE DeriveResolution(payload[i])

-----------------------------------------------------------------------------
(* The best ask of a book side, 0 if no level has a readable price (a      *)
(* level that has none is 0 here).                                         *)
BestAsk(levels) ==
    LET numeric == {p \in levels : p > 0} IN
    IF numeric = {} THEN 0 ELSE Min(numeric)

-----------------------------------------------------------------------------
(* A window of five one-minute candles: open of the first, close of the    *)
(* fifth.                                                                  *)
Readable(candles) ==
    Len(candles) >= 5 /\ candles[1].open > 0 /\ candles[5].close > 0

Direction(open, close) == IF close >= open THEN "Up" ELSE "Down"

WindowDirection(candles) == Direction(candles[1].open, candles[5].close)

(* A share of the winning side is worth a dollar.                          *)
ComputeTradePnl(side, outcome, size, spent) ==
    LET redeemed == IF side = outcome THEN size ELSE 0 IN
    [won |-> side = outcome, redeemed |-> redeemed, pnl |-> redeemed - spent]
=============================================================================
