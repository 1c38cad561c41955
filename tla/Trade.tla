------------------------------- MODULE Trade --------------------------------
(***************************************************************************)
(* The data path of one trade, from the market's payload to the record and *)
(* its claim: the tokens read from Gamma, the price computed from the book *)
(* and signed, the fill as the exchange executes and reports it, the money *)
(* booked, the side the window is resolved to, the profit, and the market  *)
(* the claim later asks about.  OrderEntry and TradingCycle say when these *)
(* steps happen; here is what they compute, for one attempt that ends in a *)
(* fill or in nothing.                                                     *)
(*                                                                         *)
(* Prices has the numbers, Markets the readings.  The exchange, the oracle *)
(* that decides the market and the two sources the bot asks instead are    *)
(* actors of their own: what they do is chosen from constant sets.         *)
(***************************************************************************)
EXTENDS Prices, Markets

CONSTANTS
    Bands,           \* the price gates: [gate, min, max]
    Stakes,          \* STAKE_USD
    Slippage,        \* ENTRY_SLIPPAGE_PERCENT_BUY, hundredths of a percent
    FallbackEnabled, \* ENABLE_FALLBACK_GTC_LIMIT
    Ticks,           \* the tick sizes get_tick_size may report
    Books,           \* the ask sides an order book may have
    Asks,            \* the prices somebody may sell at
    Feeds,           \* Binance: [candles, shows], a window and its direction
    WindowId,        \* Gamma: the condition id of the window's market
    Payloads         \* Gamma: the payloads by stage and winning side

Stages == {"quoted", "over", "final"}

ASSUME ConfigAssumption ==
    /\ \A band \in Bands : ValidBand(band)
    /\ Stakes \subseteq Nat \ {0}
    /\ Slippage \in Nat
    /\ FallbackEnabled \in BOOLEAN
ASSUME MarketAssumption ==
    /\ Ticks \subseteq 1..100
    /\ Books \subseteq SUBSET (0..One - 1)
    /\ Asks \subseteq 1..One

(* The direction of a window is Up unless it closed below its open.        *)
ASSUME FeedAssumption ==
    \A feed \in Feeds :
        /\ feed.candles \in Seq([open : Nat, close : Nat])
        /\ feed.shows \in Sides
        /\ Len(feed.candles) >= 5 =>
              (feed.shows = "Down" <=> feed.candles[5].close < feed.candles[1].open)

Listings == [outcomes : Seq({"yes", "no", "other"}), tokens : Seq(STRING),
             condition : STRING, prices : Seq(Int), over : BOOLEAN]

Lists(m, outcome) == \E i \in 1..Len(m.outcomes) : m.outcomes[i] = outcome

(* How Gamma shows the market of the window: tokens and prices in the      *)
(* order of the outcomes, a dollar for the winner once it is decided (or   *)
(* prices that are no numbers), no dollar before it is over.               *)
ShowsWindow(m, stage, winner) ==
    /\ m.condition = WindowId
    /\ Lists(m, "yes") /\ Lists(m, "no")
    /\ Len(m.tokens) = Len(m.outcomes) /\ Len(m.prices) = Len(m.outcomes)
    /\ \A i \in 1..Len(m.outcomes) :
          /\ m.outcomes[i] = "yes" => m.tokens[i] = "UP"
          /\ m.outcomes[i] = "no"  => m.tokens[i] = "DOWN"
    /\ CASE stage = "quoted" -> ~m.over /\ \A i \in 1..Len(m.prices) : m.prices[i] < One
         [] stage = "over"   -> m.over
         [] stage = "final"  ->
               \/ m.over /\ \A i \in 1..Len(m.prices) : m.prices[i] = NoPrice
               \/ \A i \in 1..Len(m.outcomes) :
                     /\ m.outcomes[i] = "yes" => m.prices[i] = IF winner = "Up" THEN One ELSE 0
                     /\ m.outcomes[i] = "no"  => m.prices[i] = IF winner = "Up" THEN 0 ELSE One

(* A market of another kind, or one with something missing.                *)
CannotTrade(m) ==
    \/ m.condition = NoId
    \/ ~Lists(m, "yes") \/ ~Lists(m, "no")
    \/ Len(m.prices) = 0

(* The payload of a window's slug: its market, if it is listed yet, among  *)
(* others that cannot be traded.                                           *)
ASSUME PayloadAssumption ==
    /\ WindowId # NoId
    /\ DOMAIN Payloads = Stages
    /\ \A stage \in Stages, winner \in Sides \union {"none"} :
          \A payload \in Payloads[stage][winner] :
             /\ payload \in Seq(Listings)
             /\ \A i \in 1..Len(payload) :
                   \/ ShowsWindow(payload[i], stage, winner)
                   \/ payload[i].condition # WindowId /\ CannotTrade(payload[i])
             /\ stage # "quoted" => \E i \in 1..Len(payload) : payload[i].condition = WindowId

VARIABLES
    pc,      \* the step that comes next
    setup,   \* the configuration: [band, stake]
    market,  \* the discovered market
    side,    \* the side that is bought
    order,   \* the quote, then the signed order
    fill,    \* the exchange: the order as get_order reports it
    held,    \* the wallet: [token, size, paid]
    books,   \* the trade record
    truth,   \* the oracle: the side that wins
    seen,    \* history: how sound the source was that was used last
    probe    \* the answer to the claim

vars == <<pc, setup, market, side, order, fill, held, books, truth, seen, probe>>

NoOrder == [kind |-> "none", ask |-> 0, price |-> 0, tick |-> 0,
            limit |-> 0, maker |-> 0, taker |-> 0]
NoFill  == [status |-> "none", size |-> 0, price |-> 0]
Nothing == [token |-> NoId, size |-> 0, paid |-> 0]
NoBooks == [spent |-> 0, flagged |-> FALSE, outcome |-> "none",
            won |-> FALSE, redeemed |-> 0, pnl |-> 0]

TypeOK ==
    /\ pc \in {"discover", "select", "quote", "sign", "live", "book",
               "close", "resolve", "probe", "done"}
    /\ setup \in [band : Bands, stake : Stakes]
    /\ market.condition = NoId <=> market = NoMarket
    /\ side \in Sides \union {"none"}
    /\ order.kind \in {"none", "FOK", "GTC"}
    /\ pc = "sign" => order.price \in Nat \ {0}
    /\ pc = "sign" /\ order.tick \in SupportedTicks => order.price <= One
    /\ pc = "live" => order.limit \in 1..One /\ order.maker > 0 /\ order.taker > 0
    /\ fill.status \in {"none", "MATCHED", "CANCELED"}
    /\ held.size \in Nat /\ held.paid \in Nat
    /\ books.spent \in Nat /\ books.redeemed \in Nat /\ books.pnl \in Int
    /\ books.flagged \in BOOLEAN /\ books.won \in BOOLEAN
    /\ books.outcome \in Sides \union {"none"}
    /\ truth \in Sides \union {"none"}
    /\ seen \in Stages \union {"none", "right", "wrong"}
    /\ probe.resolved \in BOOLEAN

Init ==
    /\ pc = "discover"
    /\ setup \in [band : Bands, stake : Stakes]
    /\ market = NoMarket
    /\ side = "none"
    /\ order = NoOrder
    /\ fill = NoFill
    /\ held = Nothing
    /\ books = NoBooks
    /\ truth = "none"
    /\ seen = "none"
    /\ probe = Unresolved

GiveUp == pc' = "done"

-----------------------------------------------------------------------------
(* The market of the window.                                               *)
Discover ==
    /\ pc = "discover"
    /\ \E payload \in Payloads["quoted"]["none"] :
          market' = NormalizeDiscovered(payload)
    /\ IF market' = NoMarket THEN GiveUp ELSE pc' = "select"
    /\ UNCHANGED <<setup, side, order, fill, held, books, truth, seen, probe>>

Candidate(book) == BestAsk(book) > 0 /\ InBand(setup.band, BestAsk(book))

(* Up is preferred.                                                        *)
Select ==
    /\ pc = "select"
    /\ \E up, down \in Books :
          CASE Candidate(up)                      -> side' = "Up" /\ pc' = "quote"
            [] ~Candidate(up) /\ Candidate(down)  -> side' = "Down" /\ pc' = "quote"
            [] OTHER                              -> side' = side /\ GiveUp
    /\ UNCHANGED <<setup, market, order, fill, held, books, truth, seen, probe>>

TokenOf(s) == IF s = "Up" THEN market.yes ELSE market.no

Quoted(kind, ask, price, tick) ==
    [NoOrder EXCEPT !.kind = kind, !.ask = ask, !.price = price, !.tick = tick]

(* The book is read again: its best ask, slipped, capped and rounded up to *)
(* the tick, passes the gate before and after; without asks the fallback's *)
(* price does.                                                             *)
Quote ==
    /\ pc = "quote"
    /\ \E book \in Books, tick \in Ticks :
       LET band == setup.band
           ask  == BestAsk(book) IN
       \/ /\ ask > 0 /\ InBand(band, ask)
          /\ \E price \in RoundToTickCeil(ApplyBuySlippage(ask, Slippage, PriceCap(band)), tick) :
                IF InBand(band, price)
                THEN order' = Quoted("FOK", ask, price, tick) /\ pc' = "sign"
                ELSE order' = order /\ GiveUp
       \/ /\ ask > 0 /\ ~InBand(band, ask)
          /\ order' = order /\ GiveUp
       \/ /\ ask = 0
          /\ IF FallbackEnabled /\ InBand(band, FallbackPrice(band))
             THEN order' = Quoted("GTC", 0, FallbackPrice(band), tick) /\ pc' = "sign"
             ELSE order' = order /\ GiveUp
    /\ UNCHANGED <<setup, market, side, fill, held, books, truth, seen, probe>>

Amounts == IF order.kind = "FOK"
           THEN MarketBuy(setup.stake, order.price, order.tick)
           ELSE LimitBuy(setup.stake, order.price, order.tick)

(* An unknown tick cannot be signed for, nor an amount that is zero.       *)
Sign ==
    /\ pc = "sign"
    /\ \E amounts \in Amounts :
          IF order.tick \in SupportedTicks /\ Signable(amounts)
          THEN /\ order' = [order EXCEPT !.limit = amounts.limit,
                                         !.maker = amounts.maker,
                                         !.taker = amounts.taker]
               /\ pc' = "live"
          ELSE order' = NoOrder /\ GiveUp
    /\ UNCHANGED <<setup, market, side, fill, held, books, truth, seen, probe>>

-----------------------------------------------------------------------------
(* The exchange.  It trades at a price the two amounts allow: all of the   *)
(* money of a market BUY, all of the shares of a limit BUY, half of either *)
(* before it is cancelled, or nothing.  get_order tells the limit or the   *)
(* price traded at.                                                        *)
Allows(price) == price * order.taker <= order.maker * One

SizeOfAll(price) ==
    IF order.kind = "FOK" THEN (order.maker * One) \div price ELSE order.taker

Trades(price, status, size, paid) ==
    /\ held' = [token |-> TokenOf(side), size |-> size, paid |-> paid]
    /\ \E told \in {order.limit, price} :
          fill' = [status |-> status, size |-> size, price |-> told]

Execute ==
    /\ pc = "live"
    /\ \/ \E price \in {p \in Asks \union {order.limit} : Allows(p)} :
             \/ Trades(price, "MATCHED", SizeOfAll(price),
                       IF order.kind = "FOK" THEN order.maker
                       ELSE (order.taker * price) \div One)
             \/ LET half == FloorTo(order.taker \div 2, Cent) IN
                /\ half > 0
                /\ Trades(price, "CANCELED", half, (half * price) \div One)
       \/ fill' = [NoFill EXCEPT !.status = "CANCELED"] /\ held' = held
    /\ pc' = "book"
    /\ UNCHANGED <<setup, market, side, order, books, truth, seen, probe>>

-----------------------------------------------------------------------------
(* The status is read and booked; only a fill with a cost is a trade.      *)
Book ==
    /\ pc = "book"
    /\ books' = [books EXCEPT
           !.spent = ComputeSpent(order.kind, fill.status, setup.stake, fill.size, fill.price),
           !.flagged = FillBandViolation(setup.band, fill.size, fill.price)]
    /\ IF fill.size > 0 /\ books'.spent > 0 THEN pc' = "close" ELSE GiveUp
    /\ UNCHANGED <<setup, market, side, order, fill, held, truth, seen, probe>>

(* The window closes and the oracle decides.                               *)
Close ==
    /\ pc = "close"
    /\ truth' \in Sides
    /\ pc' = "resolve"
    /\ order' = NoOrder /\ fill' = NoFill
    /\ UNCHANGED <<setup, market, side, held, books, seen, probe>>

Record(outcome) ==
    LET pnl == ComputeTradePnl(side, outcome, held.size, books.spent) IN
    /\ books' = [books EXCEPT !.outcome = outcome, !.won = pnl.won,
                              !.redeemed = pnl.redeemed, !.pnl = pnl.pnl]
    /\ pc' = "probe"

(* resolve_window_outcome asks Binance; without an answer it asks Gamma,   *)
(* whose prices may still be quotes; without one from either the trade is  *)
(* not recorded.                                                           *)
Resolve ==
    /\ pc = "resolve"
    /\ \E feed \in Feeds :
       IF Readable(feed.candles)
       THEN /\ Record(WindowDirection(feed.candles))
            /\ seen' = IF feed.shows = truth THEN "right" ELSE "wrong"
       ELSE \E stage \in Stages :
            \E outcome \in {FallbackResolve(payload) : payload \in Payloads[stage][truth]} :
               IF outcome # "none"
               THEN /\ Record(outcome)
                    /\ seen' = IF stage = "final" THEN "right" ELSE "wrong"
               ELSE GiveUp /\ UNCHANGED <<books, seen>>
    /\ UNCHANGED <<setup, market, side, order, fill, held, truth, probe>>

(* The claim asks Gamma about the market of the trade; the amounts are on  *)
(* disk and no step reads them again.                                      *)
AskProbe ==
    /\ pc = "probe"
    /\ \E stage \in Stages :
          /\ probe' \in {ProbeGamma(payload, market.condition) : payload \in Payloads[stage][truth]}
          /\ seen' = stage
    /\ held' = Nothing /\ books' = NoBooks
    /\ GiveUp
    /\ UNCHANGED <<setup, market, side, order, fill, truth>>

Next ==
    \/ Discover \/ Select \/ Quote \/ Sign
    \/ Execute
    \/ Book \/ Close \/ Resolve \/ AskProbe

Spec == Init /\ [][Next]_vars

-----------------------------------------------------------------------------
band == setup.band
Booked == pc \in {"close", "resolve", "probe"}
Asked == pc = "done" /\ seen \in Stages

(* Whatever the roundings and the five-share minimum do, an order commits  *)
(* the stake at most, or five shares if those cost more; a resting order   *)
(* the half tick more by which its limit was rounded up.                   *)
StakeIsTheLimit ==
    pc = "live" =>
        IF order.kind = "FOK" THEN order.maker <= setup.stake
        ELSE order.maker <= Greater(setup.stake, (FiveShares * order.limit) \div One)
                              + (order.taker * order.tick) \div (2 * One)

(* A market BUY is signed at a price that reaches the ask it was computed  *)
(* from, or one tick below the cap: rounding twice loses no more than a    *)
(* tick, and only an order at the cap can end up below the ask.            *)
ReachesTheAsk ==
    (pc = "live" /\ order.kind = "FOK") =>
        order.limit >= Lesser(order.ask, PriceCap(band) - order.tick)

(* Money paid above the band's maximum is flagged in the record: a trade   *)
(* without the flag cost no more than the maximum for its shares (and less *)
(* than a step of the amounts), through two gates, three roundings and     *)
(* whatever price the exchange reports.                                    *)
UnflaggedIsInBand ==
    (Booked /\ band.gate /\ ~books.flagged) =>
        held.paid * One <= band.max * (held.size + 100)

(* The shares of an order are rounded down, so its amounts allow prices a  *)
(* little above its limit: a trade that is booked at the limit may have    *)
(* cost 0.0005 dollars more.                                               *)
RoundingLoss == 50

(* The books never show less than the wallet paid, but for the rounding of *)
(* the shares; and for a matched market BUY, booked at its stake, at most  *)
(* two cents more.                                                         *)
BooksCoverTheWallet ==
    /\ Booked => held.paid <= books.spent + RoundingLoss
    /\ (Booked /\ fill.status = "MATCHED" /\ order.kind = "FOK") =>
          books.spent - held.paid < 2 * Cent

(* What a source that is right about the window makes the record say is    *)
(* what the tokens pay: through the outcome order of the payload, the side *)
(* chosen, the direction computed.  The profit is never rosier than that.  *)
VerdictIsThePayout ==
    (pc = "probe" /\ seen = "right") =>
        LET payout == IF held.token = (IF truth = "Up" THEN "UP" ELSE "DOWN")
                      THEN held.size ELSE 0 IN
        /\ books.won <=> payout > 0
        /\ books.redeemed = payout
        /\ books.pnl <= payout - held.paid + RoundingLoss

(* The claim's probe answers for the market that was bought: resolved only *)
(* if that market is over, whatever the others in the payload are, and     *)
(* with the payouts of the side the oracle chose.                          *)
ProbeMeetsItsMarket ==
    Asked =>
        /\ probe.resolved <=> seen # "quoted"
        /\ (seen = "final" /\ probe.yes # NoPrice) => (probe.yes = One <=> truth = "Up")
=============================================================================
