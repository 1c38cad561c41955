----------------------------- MODULE TradeProofs ------------------------------
(***************************************************************************)
(* What a trade computes, for every band, stake, slippage, book, tick,     *)
(* feed and payload, and for each value a rounding may give.               *)
(*                                                                         *)
(* First the numbers of an order (TradeInv): it commits the stake at most, *)
(* it reaches the ask it was computed from, and money paid above the band  *)
(* is marked.  Then the records that pass from step to step (DataInv): the *)
(* market found is the window's, the books cover what the wallet paid, the *)
(* verdict is what the tokens pay, and the probe answers for their market. *)
(***************************************************************************)
EXTENDS Trade, WellFoundedInduction, TLAPS

USE ConfigAssumption, MarketAssumption

-----------------------------------------------------------------------------
(* A quotient times its divisor is less than a divisor away.               *)
LEMMA FloorIsNear ==
    ASSUME NEW x \in Nat, NEW step \in Nat \ {0}
    PROVE  /\ x \div step \in Nat /\ FloorTo(x, step) = (x \div step) * step
           /\ FloorTo(x, step) \in Nat
           /\ FloorTo(x, step) <= x /\ x < FloorTo(x, step) + step
<1>1. x \div step \in Nat /\ x = step * (x \div step) + (x % step) /\ x % step \in 0..step - 1
    OBVIOUS
<1>2. (x \div step) * step \in Nat /\ (x \div step) * step = step * (x \div step)
    BY <1>1
<1>3. QED
    BY <1>1, <1>2 DEF FloorTo

(* round_down gives a whole number of steps or one step less.              *)
LEMMA RoundDownIsNear ==
    ASSUME NEW x \in Nat, NEW step \in Nat \ {0}, NEW p \in RoundDown(x, step)
    PROVE  p \in Int /\ p <= x /\ x <= p + step /\ (x > 0 => p \in Nat)
<1>1. FloorTo(x, step) \in Nat /\ FloorTo(x, step) <= x /\ x < FloorTo(x, step) + step
    BY FloorIsNear
<1>2. p \in {x, x - step, FloorTo(x, step)} /\ (p = x - step /\ p # FloorTo(x, step) => x % step = 0)
    BY DEF RoundDown
<1>3. x % step = 0 /\ x > 0 => x >= step
    BY DEF RoundDown
<1>4. QED
    BY <1>1, <1>2, <1>3

(* round_normal is within half a step.                                     *)
LEMMA RoundNormalIsNear ==
    ASSUME NEW x \in Nat, NEW step \in Nat \ {0}, NEW p \in RoundNormal(x, step)
    PROVE  p \in Nat /\ 2 * p <= 2 * x + step
<1>1. FloorTo(x, step) \in Nat /\ FloorTo(x, step) <= x /\ x < FloorTo(x, step) + step
    BY FloorIsNear
<1>2. QED
    BY <1>1 DEF RoundNormal

(* round_to_tick_ceil never falls below what it rounds.                    *)
LEMMA CeilIsAbove ==
    ASSUME NEW slipped \in Nat, NEW tick \in Nat \ {0},
           NEW price \in RoundToTickCeil(slipped, tick)
    PROVE  price \in Nat /\ price * Fine >= slipped
<1> DEFINE step == tick * Fine
           n    == (slipped + step - 1) \div step
<1>1. step \in Nat \ {0} /\ slipped + step - 1 \in Nat
    BY DEF Fine
<1>2. n \in Nat /\ slipped + step - 1 < n * step + step
    <2>1. n \in Nat
        BY <1>1
    <2>2. slipped + step - 1 < FloorTo(slipped + step - 1, step) + step
        BY <1>1, FloorIsNear
    <2>3. QED
        BY <2>1, <2>2 DEF FloorTo
<1>3. CeilTo(slipped, step) = n * step
    BY DEF CeilTo, FloorTo
<1>4. n * tick \in Nat /\ n * step = (n * tick) * Fine
    BY <1>2 DEF Fine
<1>5. (n * step) \div Fine = n * tick
    BY <1>4 DEF Fine
<1>6. price = n * tick \/ price = n * tick + tick
    BY <1>3, <1>5 DEF RoundToTickCeil
<1>7. slipped <= (n * tick) * Fine
    BY <1>1, <1>2, <1>4
<1>8. QED
    BY <1>4, <1>6, <1>7 DEF Fine

(* A set of naturals that is not empty has a least member.                 *)
LEMMA LeastIsMember ==
    ASSUME NEW S \in SUBSET Nat, S # {}
    PROVE  Min(S) \in S
<1>1. \A x, y \in Nat : <<y, x>> \in OpToRel(<, Nat) <=> y < x
    BY SMT DEF OpToRel
<1>2. \E x \in S : \A y \in S : ~(<<y, x>> \in OpToRel(<, Nat))
    BY NatLessThanWellFounded, WFMin
<1>3. \E x \in S : \A y \in S : ~(y < x)
    BY <1>1, <1>2, Zenon
<1>4. \E x \in S : \A y \in S : x <= y
    BY <1>3
<1>5. QED
    BY <1>4, Zenon DEF Min

(* The best ask is a price of the book, or 0.                              *)
LEMMA AskIsPrice ==
    ASSUME NEW book \in Books
    PROVE  BestAsk(book) \in Nat
<1>1. book \subseteq Nat
    BY Books \subseteq SUBSET (0..One - 1) DEF One
<1>2. {p \in book : p > 0} \in SUBSET Nat
    BY <1>1
<1>3. QED
    BY <1>2, LeastIsMember DEF BestAsk

-----------------------------------------------------------------------------
(* An alias is found at its place, or it has none.                         *)
LEMMA PlaceIs ==
    ASSUME NEW outcomes \in Seq({"yes", "no", "other"}), NEW alias
    PROVE  \/ /\ Place(outcomes, alias) \in 1..Len(outcomes)
              /\ outcomes[Place(outcomes, alias)] = alias
           \/ /\ Place(outcomes, alias) = 0
              /\ \A i \in 1..Len(outcomes) : outcomes[i] # alias
<1> DEFINE I == {i \in 1..Len(outcomes) : outcomes[i] = alias}
<1>1. Place(outcomes, alias) = IF I # {} THEN Min(I) ELSE 0
    BY Zenon DEF Place, SelectInSeq
<1>2. I \in SUBSET Nat
    OBVIOUS
<1>3. I # {} => Min(I) \in I
    BY <1>2, LeastIsMember
<1>4. QED
    BY <1>1, <1>3

(* So is a usable market of a payload, ...                                 *)
LEMMA UsableIs ==
    ASSUME NEW payload \in Seq(Listings)
    PROVE  \/ NormalizeDiscovered(payload) = NoMarket
           \/ \E i \in 1..Len(payload) :
                 LET m == payload[i] IN
                 /\ Usable(m)
                 /\ NormalizeDiscovered(payload) =
                       [condition |-> m.condition,
                        yes |-> m.tokens[Place(m.outcomes, "yes")],
                        no  |-> m.tokens[Place(m.outcomes, "no")],
                        yesPrice |-> m.prices[Place(m.outcomes, "yes")],
                        noPrice  |-> m.prices[Place(m.outcomes, "no")]]
<1> DEFINE I == {i \in 1..Len(payload) : Usable(payload[i])}
<1>1. SelectInSeq(payload, Usable) = IF I # {} THEN Min(I) ELSE 0
    BY Zenon DEF SelectInSeq
<1>2. I \in SUBSET Nat
    OBVIOUS
<1>3. CASE I = {}
    <2>1. SelectInSeq(payload, Usable) = 0
        BY <1>1, <1>3
    <2>2. QED
        BY <2>1 DEF NormalizeDiscovered
<1>4. CASE I # {}
    <2>1. PICK i \in I : SelectInSeq(payload, Usable) = i
        BY <1>1, <1>2, <1>4, LeastIsMember
    <2>2. i \in 1..Len(payload) /\ Usable(payload[i]) /\ i # 0
        OBVIOUS
    <2>3. QED
        BY <2>1, <2>2, Zenon DEF NormalizeDiscovered
<1>5. QED
    BY <1>3, <1>4

(* ... and the market that a claim asks about.                             *)
LEMMA AskedIs ==
    ASSUME NEW payload \in Seq(Listings), NEW condition,
           \E i \in 1..Len(payload) : payload[i].condition = condition
    PROVE  \E i \in 1..Len(payload) :
              /\ payload[i].condition = condition
              /\ condition # NoId => ProbeGamma(payload, condition) = DeriveResolution(payload[i])
<1> DEFINE I == {i \in 1..Len(payload) : payload[i].condition = condition}
<1>1. SelectInSeq(payload, LAMBDA m : m.condition = condition) = IF I # {} THEN Min(I) ELSE 0
    BY Zenon DEF SelectInSeq
<1>2. I \in SUBSET Nat /\ I # {}
    OBVIOUS
<1>3. PICK i \in I : SelectInSeq(payload, LAMBDA m : m.condition = condition) = i
    BY <1>1, <1>2, LeastIsMember
<1>4. i \in 1..Len(payload) /\ payload[i].condition = condition /\ i # 0
    OBVIOUS
<1>5. condition # NoId => ProbeGamma(payload, condition) = DeriveResolution(payload[i])
    BY <1>3, <1>4, Zenon DEF ProbeGamma
<1>6. QED
    BY <1>4, <1>5

(* The market of the window has both sides, each with its token and price. *)
LEMMA WindowListing ==
    ASSUME NEW m \in Listings, NEW stage, NEW winner, ShowsWindow(m, stage, winner)
    PROVE  LET yes == Place(m.outcomes, "yes")
               no  == Place(m.outcomes, "no") IN
           /\ yes \in 1..Len(m.outcomes) /\ m.outcomes[yes] = "yes" /\ m.tokens[yes] = "UP"
           /\ no \in 1..Len(m.outcomes) /\ m.outcomes[no] = "no" /\ m.tokens[no] = "DOWN"
           /\ HasBothSides(m.outcomes) /\ HasPrices(m)
<1> DEFINE yes == Place(m.outcomes, "yes")
           no  == Place(m.outcomes, "no")
<1>1. m.outcomes \in Seq({"yes", "no", "other"})
    BY DEF Listings
<1>2. yes \in 1..Len(m.outcomes) /\ m.outcomes[yes] = "yes"
    BY <1>1, PlaceIs, Zenon DEF ShowsWindow, Lists
<1>3. no \in 1..Len(m.outcomes) /\ m.outcomes[no] = "no"
    BY <1>1, PlaceIs, Zenon DEF ShowsWindow, Lists
<1>4. m.tokens[yes] = "UP" /\ m.tokens[no] = "DOWN"
    BY <1>2, <1>3, Zenon DEF ShowsWindow
<1>5. Len(m.prices) = Len(m.outcomes) /\ Len(m.outcomes) \in Nat
    BY <1>1 DEF ShowsWindow
<1>6. HasBothSides(m.outcomes) /\ HasPrices(m)
    BY <1>2, <1>3, <1>5 DEF HasBothSides, HasPrices
<1>7. QED
    BY <1>2, <1>3, <1>4, <1>6

(* Its prices once the window is decided.                                  *)
LEMMA WindowPrices ==
    ASSUME NEW m \in Listings, NEW winner, ShowsWindow(m, "final", winner)
    PROVE  LET yes == m.prices[Place(m.outcomes, "yes")]
               no  == m.prices[Place(m.outcomes, "no")] IN
           \/ m.over = TRUE /\ yes = NoPrice /\ no = NoPrice
           \/ /\ yes = IF winner = "Up" THEN One ELSE 0
              /\ no = IF winner = "Up" THEN 0 ELSE One
<1>1. PICK yes \in 1..Len(m.outcomes) :
         yes = Place(m.outcomes, "yes") /\ m.outcomes[yes] = "yes"
    BY WindowListing
<1>2. PICK no \in 1..Len(m.outcomes) :
         no = Place(m.outcomes, "no") /\ m.outcomes[no] = "no"
    BY WindowListing
<1>3. Len(m.prices) = Len(m.outcomes)
    BY DEF ShowsWindow
<1>4. m.over \in BOOLEAN
    BY DEF Listings
<1>5. \/ m.over /\ \A i \in 1..Len(m.prices) : m.prices[i] = NoPrice
      \/ \A i \in 1..Len(m.outcomes) :
            /\ m.outcomes[i] = "yes" => m.prices[i] = IF winner = "Up" THEN One ELSE 0
            /\ m.outcomes[i] = "no"  => m.prices[i] = IF winner = "Up" THEN 0 ELSE One
    BY DEF ShowsWindow
<1>6. \/ m.over = TRUE /\ m.prices[yes] = NoPrice /\ m.prices[no] = NoPrice
      \/ /\ m.prices[yes] = IF winner = "Up" THEN One ELSE 0
         /\ m.prices[no] = IF winner = "Up" THEN 0 ELSE One
    BY <1>1, <1>2, <1>3, <1>4, <1>5
<1>7. QED
    BY <1>1, <1>2, <1>6

(* What the assumption says of one payload.                                *)
LEMMA PayloadIs ==
    ASSUME NEW stage \in Stages, NEW winner \in Sides \union {"none"},
           NEW payload \in Payloads[stage][winner]
    PROVE  /\ payload \in Seq(Listings)
           /\ \A i \in 1..Len(payload) :
                 \/ ShowsWindow(payload[i], stage, winner)
                 \/ payload[i].condition # WindowId /\ CannotTrade(payload[i])
           /\ stage # "quoted" => \E i \in 1..Len(payload) : payload[i].condition = WindowId
BY PayloadAssumption, Zenon

(* A usable market is not one that cannot be traded.                       *)
LEMMA UsableIsTraded ==
    ASSUME NEW m \in Listings, Usable(m)
    PROVE  ~CannotTrade(m)
<1>1. m.outcomes \in Seq({"yes", "no", "other"}) /\ m.prices \in Seq(Int)
    BY DEF Listings
<1>2. PICK yes : yes = Place(m.outcomes, "yes")
    OBVIOUS
<1>3. PICK no : no = Place(m.outcomes, "no")
    OBVIOUS
<1>4. yes # 0 /\ no # 0 /\ yes <= Len(m.prices) /\ m.condition # NoId
    BY <1>2, <1>3 DEF Usable, HasBothSides, HasPrices
<1>5. yes \in 1..Len(m.outcomes) /\ m.outcomes[yes] = "yes"
    BY <1>1, <1>2, <1>4, PlaceIs, Zenon
<1>6. no \in 1..Len(m.outcomes) /\ m.outcomes[no] = "no"
    BY <1>1, <1>3, <1>4, PlaceIs, Zenon
<1>7. Lists(m, "yes") /\ Lists(m, "no")
    BY <1>5, <1>6 DEF Lists
<1>8. Len(m.prices) # 0
    BY <1>1, <1>4, <1>5
<1>9. QED
    BY <1>4, <1>7, <1>8 DEF CannotTrade

(* The market discovered is the window's, with its tokens by side.         *)
LEMMA DiscoveredIsWindow ==
    ASSUME NEW stage \in Stages, NEW winner \in Sides \union {"none"},
           NEW payload \in Payloads[stage][winner]
    PROVE  LET found == NormalizeDiscovered(payload) IN
           \/ found = NoMarket
           \/ /\ found.condition = WindowId /\ found.yes = "UP" /\ found.no = "DOWN"
              /\ stage = "final" =>
                    \/ found.yesPrice = NoPrice /\ found.noPrice = NoPrice
                    \/ /\ found.yesPrice = IF winner = "Up" THEN One ELSE 0
                       /\ found.noPrice = IF winner = "Up" THEN 0 ELSE One
<1> SUFFICES ASSUME NormalizeDiscovered(payload) # NoMarket
             PROVE  LET found == NormalizeDiscovered(payload) IN
                    /\ found.condition = WindowId /\ found.yes = "UP" /\ found.no = "DOWN"
                    /\ stage = "final" =>
                          \/ found.yesPrice = NoPrice /\ found.noPrice = NoPrice
                          \/ /\ found.yesPrice = IF winner = "Up" THEN One ELSE 0
                             /\ found.noPrice = IF winner = "Up" THEN 0 ELSE One
    BY Zenon
<1>1. payload \in Seq(Listings)
    BY PayloadIs
<1>2. PICK i \in 1..Len(payload) :
         /\ Usable(payload[i])
         /\ NormalizeDiscovered(payload) =
               [condition |-> payload[i].condition,
                yes |-> payload[i].tokens[Place(payload[i].outcomes, "yes")],
                no  |-> payload[i].tokens[Place(payload[i].outcomes, "no")],
                yesPrice |-> payload[i].prices[Place(payload[i].outcomes, "yes")],
                noPrice  |-> payload[i].prices[Place(payload[i].outcomes, "no")]]
    BY <1>1, UsableIs, Zenon
<1>3. PICK m \in Listings : m = payload[i]
    BY <1>1
<1>4. ShowsWindow(m, stage, winner)
    BY <1>2, <1>3, PayloadIs, UsableIsTraded
<1>5. /\ m.condition = WindowId
      /\ m.tokens[Place(m.outcomes, "yes")] = "UP"
      /\ m.tokens[Place(m.outcomes, "no")] = "DOWN"
    BY <1>4, WindowListing, Zenon DEF ShowsWindow
<1>6. stage = "final" =>
         \/ /\ m.prices[Place(m.outcomes, "yes")] = NoPrice
            /\ m.prices[Place(m.outcomes, "no")] = NoPrice
         \/ /\ m.prices[Place(m.outcomes, "yes")] = IF winner = "Up" THEN One ELSE 0
            /\ m.prices[Place(m.outcomes, "no")] = IF winner = "Up" THEN 0 ELSE One
    BY <1>4, WindowPrices
<1>7. QED
    BY <1>2, <1>3, <1>5, <1>6

(* The prices of a decided window name its winner, or nobody.              *)
LEMMA FinalVerdict ==
    ASSUME NEW winner \in Sides, NEW payload \in Payloads["final"][winner]
    PROVE  FallbackResolve(payload) \in {"none", winner}
<1>1. PICK found : found = NormalizeDiscovered(payload)
    OBVIOUS
<1>2. \/ found = NoMarket
      \/ found.yesPrice = NoPrice /\ found.noPrice = NoPrice
      \/ /\ found.yesPrice = IF winner = "Up" THEN One ELSE 0
         /\ found.noPrice = IF winner = "Up" THEN 0 ELSE One
    <2>1. "final" \in Stages /\ winner \in Sides \union {"none"}
        BY DEF Stages
    <2>2. QED
        BY <1>1, <2>1, DiscoveredIsWindow
<1>3. CASE found = NoMarket \/ found.yesPrice = NoPrice
    BY <1>1, <1>3 DEF FallbackResolve, NoMarket, NoPrice
<1>4. CASE found.yesPrice = One /\ found.noPrice = 0 /\ winner = "Up"
    BY <1>1, <1>4 DEF FallbackResolve, NoPrice, One
<1>5. CASE found.yesPrice = 0 /\ found.noPrice = One /\ winner = "Down"
    BY <1>1, <1>5 DEF FallbackResolve, NoPrice, One
<1>6. QED
    BY <1>2, <1>3, <1>4, <1>5 DEF Sides

(* The answer about a market that has prices.                              *)
LEMMA ResolutionIs ==
    ASSUME NEW m \in Listings, HasBothSides(m.outcomes), HasPrices(m), NEW yes, NEW no,
           yes = m.prices[Place(m.outcomes, "yes")], no = m.prices[Place(m.outcomes, "no")]
    PROVE  /\ DeriveResolution(m).resolved \in BOOLEAN
           /\ DeriveResolution(m).resolved <=> m.over \/ FinalPrices(yes, no)
           /\ DeriveResolution(m).yes = yes
<1> DEFINE answer == DeriveResolution(m)
<1>1. answer = [resolved |-> m.over \/ FinalPrices(yes, no), yes |-> yes, no |-> no]
    BY Zenon DEF DeriveResolution
<1>2. m.over \in BOOLEAN
    BY DEF Listings
<1> HIDE DEF answer
<1>3. CASE m.over \/ FinalPrices(yes, no)
    <2>1. (m.over \/ FinalPrices(yes, no)) = TRUE
        BY <1>2, <1>3, Zenon
    <2>2. answer = [resolved |-> TRUE, yes |-> yes, no |-> no]
        BY <1>1, <2>1, Zenon
    <2>3. answer.resolved = TRUE /\ answer.yes = yes
        BY <2>2
    <2>4. QED
        BY <1>3, <2>3, Zenon DEF answer
<1>4. CASE ~(m.over \/ FinalPrices(yes, no))
    <2>1. (m.over \/ FinalPrices(yes, no)) = FALSE
        BY <1>2, <1>4, Zenon
    <2>2. answer = [resolved |-> FALSE, yes |-> yes, no |-> no]
        BY <1>1, <2>1, Zenon
    <2>3. answer.resolved = FALSE /\ answer.yes = yes
        BY <2>2
    <2>4. QED
        BY <1>4, <2>3, Zenon DEF answer
<1>5. QED
    BY <1>3, <1>4, Zenon

(* The probe of a claim meets the window's market: over or not, and once   *)
(* it is decided with its winner's price.                                  *)
LEMMA ProbeIsWindows ==
    ASSUME NEW stage \in Stages, NEW winner \in Sides,
           NEW payload \in Payloads[stage][winner]
    PROVE  LET answer == ProbeGamma(payload, WindowId) IN
           /\ answer.resolved \in BOOLEAN
           /\ answer.resolved <=> stage # "quoted"
           /\ (stage = "final" /\ answer.yes # NoPrice) => (answer.yes = One <=> winner = "Up")
<1> DEFINE answer == ProbeGamma(payload, WindowId)
<1>1. winner \in Sides \union {"none"} /\ WindowId # NoId /\ payload \in Seq(Listings)
    BY PayloadAssumption, PayloadIs
<1>2. CASE \A i \in 1..Len(payload) : payload[i].condition # WindowId
    <2>1. stage = "quoted"
        BY <1>1, <1>2, PayloadIs, Zenon
    <2>2. SelectInSeq(payload, LAMBDA m : m.condition = WindowId) = 0
        <3> DEFINE I == {i \in 1..Len(payload) : payload[i].condition = WindowId}
        <3>1. SelectInSeq(payload, LAMBDA m : m.condition = WindowId) = IF I # {} THEN Min(I) ELSE 0
            BY Zenon DEF SelectInSeq
        <3>2. I = {}
            BY <1>2
        <3>3. QED
            BY <3>1, <3>2
    <2>3. answer = Unresolved
        BY <2>2, Zenon DEF ProbeGamma
    <2>4. QED
        BY <2>1, <2>3 DEF Unresolved, NoPrice
<1>3. CASE \E i \in 1..Len(payload) : payload[i].condition = WindowId
    <2>1. PICK i \in 1..Len(payload) :
             payload[i].condition = WindowId /\ answer = DeriveResolution(payload[i])
        BY <1>1, <1>3, AskedIs, Zenon
    <2>2. PICK m \in Listings : m = payload[i]
        BY <1>1
    <2>3. ShowsWindow(m, stage, winner)
        BY <1>1, <2>1, <2>2, PayloadIs
    <2>4. HasBothSides(m.outcomes) /\ HasPrices(m)
        BY <2>3, WindowListing
    <2>5. PICK yes, no : /\ yes = m.prices[Place(m.outcomes, "yes")]
                         /\ no = m.prices[Place(m.outcomes, "no")]
        OBVIOUS
    <2> DEFINE final == FinalPrices(yes, no)
    <2>6. answer = DeriveResolution(m)
        BY <2>1, <2>2, Zenon
    <2>7. answer.yes = yes
        BY <2>4, <2>5, <2>6, ResolutionIs, Zenon
    <2>8. m.over \in BOOLEAN
        BY DEF Listings
    <2>9. answer.resolved \in BOOLEAN /\ (answer.resolved <=> m.over \/ final)
        BY <2>4, <2>5, <2>6, ResolutionIs, Zenon
    <2> HIDE DEF answer, final
    <2>10. CASE stage = "quoted"
        <3>1. ~m.over /\ \A j \in 1..Len(m.prices) : m.prices[j] < One
            BY <2>3, <2>10 DEF ShowsWindow
        <3>2. yes < One /\ no < One
            <4>1. Len(m.prices) = Len(m.outcomes)
                BY <2>3 DEF ShowsWindow
            <4>2. QED
                BY <2>3, <2>5, <3>1, <4>1, WindowListing, Zenon
        <3>3. ~final
            BY <3>2 DEF final, FinalPrices, One
        <3>4. stage # "final"
            BY <2>10
        <3>5. QED
            BY <2>9, <2>10, <3>1, <3>3, <3>4, Zenon DEF answer
    <2>11. CASE stage = "over"
        <3>1. m.over
            BY <2>3, <2>11 DEF ShowsWindow
        <3>2. stage # "final" /\ stage # "quoted"
            BY <2>11
        <3>3. QED
            BY <2>9, <3>1, <3>2, Zenon DEF answer
    <2>12. CASE stage = "final"
        <3>1. \/ m.over = TRUE /\ yes = NoPrice /\ no = NoPrice
              \/ /\ yes = IF winner = "Up" THEN One ELSE 0
                 /\ no = IF winner = "Up" THEN 0 ELSE One
            BY <2>3, <2>5, <2>12, WindowPrices
        <3>2. m.over = TRUE \/ final
            BY <3>1 DEF final, FinalPrices, One, NoPrice
        <3>3. yes # NoPrice => (yes = One <=> winner = "Up")
            BY <3>1 DEF One, NoPrice
        <3>4. stage # "quoted"
            BY <2>12
        <3>5. QED
            BY <2>7, <2>9, <3>2, <3>3, <3>4, Zenon DEF answer
    <2>13. QED
        BY <2>10, <2>11, <2>12 DEF Stages
<1>4. QED
    BY <1>2, <1>3

-----------------------------------------------------------------------------
(* A market BUY: the stake at most, a limit at most a tick below the price *)
(* and, if it can be signed, money that pays at its limit for less than a  *)
(* step of shares more than it asks for.                                   *)
LEMMA MarketBuyAmounts ==
    ASSUME NEW stake \in Nat \ {0}, NEW price \in Nat \ {0}, NEW tick \in Nat \ {0},
           NEW amounts \in MarketBuy(stake, price, tick)
    PROVE  /\ amounts.limit \in Nat /\ amounts.maker \in Nat /\ amounts.taker \in Nat
           /\ amounts.maker <= stake /\ stake <= amounts.maker + Cent
           /\ amounts.limit <= price /\ price <= amounts.limit + tick
           /\ Signable(amounts) =>
                 /\ amounts.limit > 0
                 /\ amounts.maker * One <= amounts.limit * (amounts.taker + tick)
<1>1. PICK p \in RoundDown(price, tick), m \in RoundDown(stake, Cent) :
         amounts = [limit |-> p, maker |-> m,
                    taker |-> IF p = 0 THEN 0 ELSE FloorTo((m * One) \div p, tick)]
    BY DEF MarketBuy
<1>2. p \in Nat /\ p <= price /\ price <= p + tick
    BY RoundDownIsNear
<1>3. m \in Nat /\ m <= stake /\ stake <= m + Cent
    BY RoundDownIsNear DEF Cent
<1>4. CASE p = 0
    BY <1>1, <1>2, <1>3, <1>4 DEF Signable
<1>5. CASE p # 0
    <2> DEFINE shares == (m * One) \div p
               taker  == FloorTo(shares, tick)
    <2>1. shares \in Nat /\ m * One < p * (shares + 1)
        <3>1. m * One \in Nat /\ p \in Nat \ {0}
            BY <1>2, <1>3, <1>5 DEF One
        <3>2. shares \in Nat /\ m * One < FloorTo(m * One, p) + p
            BY <3>1, FloorIsNear, Zenon
        <3>3. FloorTo(m * One, p) = shares * p
            BY <3>1, FloorIsNear, Zenon
        <3>4. FloorTo(m * One, p) + p = p * (shares + 1)
            BY <3>1, <3>2, <3>3
        <3>5. QED
            BY <3>2, <3>4
    <2>2. taker \in Nat /\ shares + 1 <= taker + tick
        <3>1. taker \in Nat /\ shares < taker + tick
            BY <2>1, FloorIsNear, Zenon
        <3>2. QED
            BY <2>1, <3>1
    <2>3. p * (shares + 1) <= p * (taker + tick)
        BY <1>2, <2>1, <2>2
    <2>4. m * One <= p * (taker + tick)
        BY <1>2, <1>3, <2>1, <2>2, <2>3 DEF One
    <2>5. QED
        BY <1>1, <1>2, <1>3, <1>5, <2>2, <2>4
<1>6. QED
    BY <1>4, <1>5

(* A limit BUY: the stake, or five shares, and half a tick a share at most *)
(* for the rounding of its limit; its money pays for its shares.           *)
LEMMA LimitBuyAmounts ==
    ASSUME NEW stake \in Nat \ {0}, NEW price \in Nat \ {0}, NEW tick \in Nat \ {0},
           NEW amounts \in LimitBuy(stake, price, tick)
    PROVE  /\ amounts.limit \in Nat /\ amounts.maker \in Nat /\ amounts.taker \in Nat
           /\ amounts.maker * One <= amounts.limit * amounts.taker
           /\ amounts.maker <= Greater(stake, (FiveShares * amounts.limit) \div One)
                                 + (amounts.taker * tick) \div (2 * One)
           /\ Signable(amounts) => amounts.limit > 0
<1> DEFINE wanted == Greater(stake, 500 * price)
           shares == (wanted * One) \div price
<1>1. PICK p \in RoundNormal(price, tick), d \in RoundDown(shares, Cent) :
         amounts = [limit |-> p, maker |-> (Greater(FiveShares, d) * p) \div One,
                    taker |-> Greater(FiveShares, d)]
    BY DEF LimitBuy
<1> DEFINE s == Greater(FiveShares, d)
<1>2. p \in Nat /\ 2 * p <= 2 * price + tick
    BY RoundNormalIsNear
<1>3. wanted \in Nat /\ wanted * One \in Nat
    BY DEF Greater, One
<1>4. shares \in Nat /\ shares * price <= wanted * One
    <2>1. PICK money \in Nat : money = wanted * One
        BY <1>3
    <2>2. money \div price \in Nat /\ (money \div price) * price <= money
        BY FloorIsNear
    <2>3. QED
        BY <2>1, <2>2
<1>5. d \in Int /\ d <= shares
    BY <1>4, RoundDownIsNear DEF Cent
<1>6. s \in Nat /\ s * p \in Nat /\ s * tick \in Nat
    BY <1>2, <1>5 DEF Greater, FiveShares
<1>7. /\ ((s * p) \div One) \in Nat /\ ((s * p) \div One) * One <= s * p
      /\ ((s * tick) \div (2 * One)) \in Nat
      /\ s * tick < ((s * tick) \div (2 * One)) * (2 * One) + 2 * One
    BY <1>6 DEF One
<1>8. /\ amounts.limit = p /\ amounts.taker = s
      /\ amounts.maker = (s * p) \div One
    BY <1>1
<1>9. amounts.maker <= Greater(stake, (FiveShares * p) \div One) + (s * tick) \div (2 * One)
    <2>1. CASE s = FiveShares
        BY <1>2, <1>7, <1>8, <2>1 DEF Greater, One, FiveShares
    <2>2. CASE s # FiveShares
        <3>1. s = d /\ d > FiveShares
            BY <1>5, <2>2 DEF Greater, FiveShares
        <3>2. wanted = stake
            <4>1. CASE wanted = 500 * price
                <5>1. (500 * price) * One = FiveShares * price
                    BY DEF One, FiveShares
                <5>2. shares * price <= FiveShares * price
                    BY <1>4, <4>1, <5>1
                <5>3. shares <= FiveShares
                    BY <1>4, <5>2 DEF FiveShares
                <5>4. QED
                    BY <1>4, <1>5, <3>1, <5>3 DEF FiveShares
            <4>2. QED
                BY <4>1 DEF Greater
        <3>3. s * price <= stake * One
            <4>1. s * price <= shares * price
                BY <1>4, <1>5, <1>6, <3>1
            <4>2. QED
                BY <1>4, <1>6, <3>2, <4>1 DEF One
        <3>4. 2 * (s * p) <= 2 * (s * price) + s * tick
            <4>1. s * (2 * p) <= s * (2 * price + tick)
                BY <1>2, <1>6
            <4>2. QED
                BY <1>2, <1>6, <4>1
        <3>5. (s * p) \div One <= stake + (s * tick) \div (2 * One)
            <4>1. s * price \in Nat
                BY <1>6
            <4>2. QED
                BY <1>6, <1>7, <3>3, <3>4, <4>1 DEF One
        <3>6. Greater(stake, (FiveShares * p) \div One) >= stake
            BY <1>2 DEF Greater, FiveShares, One
        <3>7. Greater(stake, (FiveShares * p) \div One) \in Nat
            BY <1>2 DEF Greater, FiveShares, One
        <3>8. QED
            BY <1>7, <1>8, <3>5, <3>6, <3>7
    <2>3. QED
        BY <2>1, <2>2
<1>10. Signable(amounts) => p > 0
    BY <1>2, <1>6, <1>7, <1>8 DEF Signable, One
<1>11. QED
    BY <1>2, <1>6, <1>7, <1>8, <1>9, <1>10

(* The price of a market BUY is positive and reaches the ask and its       *)
(* markup, or the cap.                                                     *)
LEMMA SlippedPrice ==
    ASSUME NEW b \in Bands, NEW ask \in Nat, NEW tick \in Ticks,
           NEW price \in RoundToTickCeil(ApplyBuySlippage(ask, Slippage, PriceCap(b)), tick)
    PROVE  price \in Nat \ {0} /\ price >= Lesser(ask + 170, PriceCap(b))
<1>1. PriceCap(b) \in Nat \ {0}
    BY ValidBand(b) DEF ValidBand, PriceCap
<1>2. tick \in Nat \ {0}
    BY Ticks \subseteq 1..100
<1> DEFINE slipped == ApplyBuySlippage(ask, Slippage, PriceCap(b))
<1>3. ask * (Fine + 3 * Slippage) \in Nat
    BY Slippage \in Nat DEF Fine
<1>4. slipped \in Nat /\ slipped >= Lesser(ask + 170, PriceCap(b)) * Fine
    BY <1>1, <1>3 DEF ApplyBuySlippage, Lesser, Greater, Fine
<1>5. price \in Nat /\ price * Fine >= slipped
    BY <1>2, <1>4, CeilIsAbove
<1>6. QED
    BY <1>1, <1>4, <1>5 DEF Lesser, Fine

(* So is the price of the fallback.                                        *)
LEMMA FallbackIsPositive ==
    ASSUME NEW b \in Bands
    PROVE  FallbackPrice(b) \in Nat \ {0}
BY ValidBand(b) DEF ValidBand, FallbackPrice, ClampPrice, Lesser, Greater

-----------------------------------------------------------------------------
(* A quote is a price that reaches its ask, for a tick that exists.        *)
QuoteKept ==
    pc = "sign" =>
        /\ order \in [kind : {"FOK", "GTC"}, ask : Nat, price : Nat \ {0}, tick : Ticks,
                      limit : Nat, maker : Nat, taker : Nat]
        /\ order.kind = "FOK" => order.price >= Lesser(order.ask + 170, PriceCap(band))

(* The amounts of a signed order are positive and its limit is the price   *)
(* of its shares, but for a step of them.                                  *)
OrderKept ==
    pc = "live" =>
        /\ order.kind \in {"FOK", "GTC"} /\ order.tick \in 1..100
        /\ order.limit \in Nat \ {0} /\ order.maker \in Nat \ {0} /\ order.taker \in Nat \ {0}
        /\ order.maker * One <= order.limit * (order.taker + order.tick)
        /\ order.kind = "GTC" => order.maker * One <= order.limit * order.taker

(* What was traded cost no more than the reported price, but for a hundred *)
(* steps of the shares.                                                    *)
FillKept ==
    /\ pc = "book" => fill.size = 0 \/ (/\ fill.size \in Nat /\ fill.price \in Nat \ {0}
                                       /\ held.size = fill.size /\ held.paid \in Nat
                                       /\ held.paid * One <= fill.price * (held.size + 100))
    /\ Booked => held.size \in Nat /\ held.paid \in Nat

TradeInv ==
    /\ setup \in [band : Bands, stake : Stakes]
    /\ "flagged" \in DOMAIN books
    /\ QuoteKept /\ OrderKept /\ FillKept
    /\ StakeIsTheLimit /\ ReachesTheAsk /\ UnflaggedIsInBand

(* The steps of which the invariant says nothing: they end the trade, or   *)
(* come before the quote.                                                  *)
LEMMA QuietTradeStep ==
    ASSUME TradeInv, UNCHANGED setup, "flagged" \in DOMAIN books',
           pc' \notin {"sign", "live", "book", "close", "resolve", "probe"}
    PROVE  TradeInv'
BY DEF TradeInv, QuoteKept, OrderKept, FillKept, StakeIsTheLimit, ReachesTheAsk,
       UnflaggedIsInBand, Booked

(* A quote keeps the invariant: the price passed through slippage, cap and *)
(* tick, or is the one of the fallback.                                    *)
LEMMA QuoteStep == TradeInv /\ Quote => TradeInv'
<1> SUFFICES ASSUME TradeInv, Quote PROVE TradeInv'
    OBVIOUS
<1>1. UNCHANGED <<setup, fill, held, books>> /\ setup.band \in Bands
    BY DEF Quote, TradeInv
<1>2. PICK book \in Books, tick \in Ticks :
         \/ order' = order /\ pc' = "done"
         \/ /\ pc' = "sign"
            /\ \E price \in RoundToTickCeil(ApplyBuySlippage(BestAsk(book), Slippage,
                                                             PriceCap(setup.band)), tick) :
                  order' = Quoted("FOK", BestAsk(book), price, tick)
         \/ pc' = "sign" /\ order' = Quoted("GTC", 0, FallbackPrice(setup.band), tick)
    BY DEF Quote, GiveUp
<1>3. CASE pc' = "done"
    BY <1>1, <1>3, QuietTradeStep DEF TradeInv
<1>4. ASSUME pc' = "sign",
             NEW price \in RoundToTickCeil(ApplyBuySlippage(BestAsk(book), Slippage,
                                                           PriceCap(setup.band)), tick),
             order' = Quoted("FOK", BestAsk(book), price, tick)
      PROVE  TradeInv'
    <2>1. BestAsk(book) \in Nat
        BY AskIsPrice
    <2>2. price \in Nat \ {0} /\ price >= Lesser(BestAsk(book) + 170, PriceCap(setup.band))
        BY <1>1, <2>1, SlippedPrice
    <2>3. order' = [kind |-> "FOK", ask |-> BestAsk(book), price |-> price, tick |-> tick,
                    limit |-> 0, maker |-> 0, taker |-> 0]
        BY <1>4 DEF Quoted, NoOrder
    <2>4. QuoteKept'
        BY <1>1, <2>1, <2>2, <2>3 DEF QuoteKept, band
    <2>5. QED
        BY <1>1, <1>4, <2>4 DEF TradeInv, OrderKept, FillKept, StakeIsTheLimit,
                                ReachesTheAsk, UnflaggedIsInBand, Booked
<1>5. CASE pc' = "sign" /\ order' = Quoted("GTC", 0, FallbackPrice(setup.band), tick)
    <2>1. FallbackPrice(setup.band) \in Nat \ {0}
        BY <1>1, FallbackIsPositive
    <2>2. order' = [kind |-> "GTC", ask |-> 0, price |-> FallbackPrice(setup.band), tick |-> tick,
                    limit |-> 0, maker |-> 0, taker |-> 0]
        BY <1>5 DEF Quoted, NoOrder
    <2>3. QuoteKept'
        BY <2>1, <2>2 DEF QuoteKept
    <2>4. QED
        BY <1>1, <1>5, <2>3 DEF TradeInv, OrderKept, FillKept, StakeIsTheLimit,
                                ReachesTheAsk, UnflaggedIsInBand, Booked
<1>6. QED
    BY <1>2, <1>3, <1>4, <1>5

(* Losing a tick of a price that reaches the ask and its markup.           *)
LEMMA NearTheAsk ==
    ASSUME NEW limit \in Nat, NEW price \in Nat, NEW ask \in Nat, NEW cap \in Nat,
           NEW tick \in 1..100, price >= Lesser(ask + 170, cap), price <= limit + tick
    PROVE  limit >= Lesser(ask, cap - tick)
BY DEF Lesser

(* Money that pays for the shares of an order pays for more of them.       *)
LEMMA SpareShares ==
    ASSUME NEW maker \in Nat, NEW limit \in Nat, NEW taker \in Nat, NEW tick \in Nat,
           maker * One <= limit * taker
    PROVE  maker * One <= limit * (taker + tick)
<1>1. limit * taker <= limit * (taker + tick) /\ limit * taker \in Nat
      /\ limit * (taker + tick) \in Nat
    OBVIOUS
<1>2. QED
    BY <1>1 DEF One

(* Signing keeps it: the amounts are those of a market or of a limit BUY.  *)
LEMMA SignStep == TradeInv /\ Sign => TradeInv'
<1> SUFFICES ASSUME TradeInv, Sign PROVE TradeInv'
    OBVIOUS
<1>1. UNCHANGED <<setup, fill, held, books>> /\ setup.band \in Bands
    BY DEF Sign, TradeInv
<1>2. setup.stake \in Nat \ {0}
    BY Stakes \subseteq Nat \ {0} DEF TradeInv
<1>3. /\ order \in [kind : {"FOK", "GTC"}, ask : Nat, price : Nat \ {0}, tick : Ticks,
                    limit : Nat, maker : Nat, taker : Nat]
      /\ order.kind = "FOK" => order.price >= Lesser(order.ask + 170, PriceCap(setup.band))
    BY DEF Sign, TradeInv, QuoteKept, band
<1>4. order.tick \in 1..100
    BY <1>3, Ticks \subseteq 1..100
<1>5. PICK amounts \in Amounts :
         \/ pc' = "done"
         \/ /\ Signable(amounts) /\ pc' = "live"
            /\ order' = [order EXCEPT !.limit = amounts.limit, !.maker = amounts.maker,
                                      !.taker = amounts.taker]
    BY DEF Sign, GiveUp
<1>6. CASE pc' = "done"
    BY <1>1, <1>6, QuietTradeStep DEF TradeInv
<1>7. CASE /\ Signable(amounts) /\ pc' = "live"
           /\ order' = [order EXCEPT !.limit = amounts.limit, !.maker = amounts.maker,
                                     !.taker = amounts.taker]
    <2>1. /\ order'.kind = order.kind /\ order'.ask = order.ask /\ order'.tick = order.tick
          /\ order'.limit = amounts.limit /\ order'.maker = amounts.maker
          /\ order'.taker = amounts.taker
        BY <1>3, <1>7
    <2>2. amounts.maker > 0 /\ amounts.taker > 0
        BY <1>7 DEF Signable
    <2>3. (OrderKept /\ StakeIsTheLimit /\ ReachesTheAsk)'
        <3>1. CASE order.kind = "FOK"
            <4>1. amounts \in MarketBuy(setup.stake, order.price, order.tick)
                BY <3>1 DEF Amounts
            <4>2. /\ amounts.limit \in Nat \ {0} /\ amounts.maker \in Nat /\ amounts.taker \in Nat
                  /\ amounts.maker <= setup.stake /\ order.price <= amounts.limit + order.tick
                  /\ amounts.maker * One <= amounts.limit * (amounts.taker + order.tick)
                BY <1>2, <1>3, <1>4, <1>7, <4>1, MarketBuyAmounts
            <4>3. OrderKept'
                BY <1>4, <2>1, <2>2, <3>1, <4>2 DEF OrderKept
            <4>4. StakeIsTheLimit'
                BY <1>1, <2>1, <3>1, <4>2 DEF StakeIsTheLimit
            <4>5. amounts.limit >= Lesser(order.ask, PriceCap(setup.band) - order.tick)
                <5>1. PriceCap(setup.band) \in Nat
                    BY <1>1, ValidBand(setup.band) DEF ValidBand, PriceCap
                <5>2. order.price >= Lesser(order.ask + 170, PriceCap(setup.band))
                    BY <1>3, <3>1
                <5>3. order.ask \in Nat /\ order.price \in Nat
                    BY <1>3
                <5>4. order.price <= amounts.limit + order.tick /\ amounts.limit \in Nat
                    BY <4>2
                <5>5. QED
                    BY <1>4, <5>1, <5>2, <5>3, <5>4, NearTheAsk, Zenon
            <4>6. ReachesTheAsk'
                BY <1>1, <2>1, <4>5 DEF ReachesTheAsk, band
            <4>7. QED
                BY <4>3, <4>4, <4>6
        <3>2. CASE order.kind = "GTC"
            <4>1. amounts \in LimitBuy(setup.stake, order.price, order.tick)
                BY <3>2 DEF Amounts
            <4>2. /\ amounts.limit \in Nat \ {0} /\ amounts.maker \in Nat /\ amounts.taker \in Nat
                  /\ amounts.maker * One <= amounts.limit * amounts.taker
                  /\ amounts.maker <= Greater(setup.stake, (FiveShares * amounts.limit) \div One)
                                        + (amounts.taker * order.tick) \div (2 * One)
                BY <1>2, <1>3, <1>4, <1>7, <4>1, LimitBuyAmounts
            <4>3. amounts.maker * One <= amounts.limit * (amounts.taker + order.tick)
                <5>1. order.tick \in Nat
                    BY <1>4
                <5>2. QED
                    BY <4>2, <5>1, SpareShares, Zenon
            <4>4. OrderKept'
                BY <1>4, <2>1, <2>2, <3>2, <4>2, <4>3 DEF OrderKept
            <4>5. StakeIsTheLimit'
                BY <1>1, <2>1, <3>2, <4>2 DEF StakeIsTheLimit
            <4>6. ReachesTheAsk'
                BY <2>1, <3>2 DEF ReachesTheAsk
            <4>7. QED
                BY <4>4, <4>5, <4>6
        <3>3. QED
            BY <1>3, <3>1, <3>2
    <2>4. QED
        BY <1>1, <1>7, <2>3 DEF TradeInv, QuoteKept, FillKept, UnflaggedIsInBand, Booked
<1>8. QED
    BY <1>5, <1>6, <1>7

(* The numbers of a signed order, as constants.                            *)
LEMMA OrderNumbers ==
    ASSUME OrderKept, pc = "live"
    PROVE  \E limit \in Nat \ {0}, maker \in Nat \ {0}, taker \in Nat \ {0}, tick \in 1..100 :
              /\ limit = order.limit /\ maker = order.maker /\ taker = order.taker
              /\ maker * One <= limit * (taker + tick)
              /\ order.kind = "GTC" => maker * One <= limit * taker
BY Zenon DEF OrderKept

(* What the exchange may trade at costs, by the price it reports (that of  *)
(* the trade or the limit of the order), at most a hundred steps of shares *)
(* more than were bought: all of the money is spent, ...                   *)
LEMMA AllIsPaid ==
    ASSUME OrderKept, pc = "live",
           NEW price \in Nat \ {0}, Allows(price), NEW told \in {order.limit, price}
    PROVE  /\ (order.maker * One) \div price \in Nat
           /\ order.maker * One <= told * ((order.maker * One) \div price + 100)
<1>1. PICK limit \in Nat \ {0}, maker \in Nat \ {0}, taker \in Nat \ {0}, tick \in 1..100 :
         /\ limit = order.limit /\ maker = order.maker /\ taker = order.taker
         /\ maker * One <= limit * (taker + tick)
         /\ order.kind = "GTC" => maker * One <= limit * taker
    BY OrderNumbers
<1>2. price * taker <= maker * One /\ told \in {limit, price}
    BY <1>1, Zenon DEF Allows
<1>3. PICK money \in Nat : money = maker * One
    BY DEF One
<1> DEFINE size == money \div price
<1>4. size \in Nat /\ size * price <= money /\ money < size * price + price
    BY FloorIsNear
<1>5. taker <= size
    <2> SUFFICES ASSUME size + 1 <= taker PROVE FALSE
        BY <1>4
    <2>1. price * (size + 1) <= price * taker
        BY <1>4
    <2>2. QED
        BY <1>2, <1>3, <1>4, <2>1
<1>6. ASSUME told = price PROVE money <= told * (size + 100)
    <2>1. price * (size + 1) <= price * (size + 100)
        BY <1>4
    <2>2. QED
        BY <1>3, <1>4, <1>6, <2>1
<1>7. ASSUME told = limit PROVE money <= told * (size + 100)
    <2>1. limit * (taker + tick) <= limit * (size + 100)
        BY <1>4, <1>5
    <2>2. /\ limit * (taker + tick) \in Nat /\ limit * (size + 100) \in Nat
          /\ money <= limit * (taker + tick)
        BY <1>1, <1>3, <1>4
    <2>3. money <= limit * (size + 100)
        BY <2>1, <2>2
    <2>4. QED
        BY <1>7, <2>3
<1>8. QED
    <2>1. money <= told * (size + 100)
        BY <1>2, <1>6, <1>7
    <2>2. order.maker = maker
        BY <1>1, Zenon
    <2>3. QED
        BY <1>3, <1>4, <2>1, <2>2

(* ... or up to half of the shares are bought, ...                         *)
LEMMA HalfIsPaid ==
    ASSUME OrderKept, pc = "live", NEW half \in Nat, 2 * half <= order.taker,
           NEW price \in Nat \ {0}, Allows(price), NEW told \in {order.limit, price}
    PROVE  /\ (half * price) \div One \in Nat
           /\ ((half * price) \div One) * One <= told * (half + 100)
<1>1. PICK limit \in Nat \ {0}, maker \in Nat \ {0}, taker \in Nat \ {0}, tick \in 1..100 :
         /\ limit = order.limit /\ maker = order.maker /\ taker = order.taker
         /\ maker * One <= limit * (taker + tick)
         /\ order.kind = "GTC" => maker * One <= limit * taker
    BY OrderNumbers
<1>2. price * taker <= maker * One /\ told \in {limit, price}
    BY <1>1, Zenon DEF Allows
<1>3. PICK value \in Nat : value = half * price
    OBVIOUS
<1>4. value \div One \in Nat /\ (value \div One) * One <= value
    BY DEF One
<1>5. ASSUME told = price PROVE value <= told * (half + 100)
    <2>1. half * price <= price * (half + 100)
        OBVIOUS
    <2>2. QED
        BY <1>3, <1>5, <2>1
<1>6. ASSUME told = limit PROVE value <= told * (half + 100)
    <2>1. taker * (half * price) <= half * (limit * (taker + tick))
        <3>1. price * taker <= limit * (taker + tick)
            BY <1>1, <1>2 DEF One
        <3>2. half * (price * taker) <= half * (limit * (taker + tick))
            BY <3>1
        <3>3. QED
            BY <3>2
    <2>2. half * (limit * (taker + tick)) <= taker * (limit * (half + 100))
        <3>1. half * tick <= taker * 100
            <4>1. half * tick <= half * 100
                OBVIOUS
            <4>2. half <= taker
                BY <1>1
            <4>3. QED
                BY <4>1, <4>2
        <3>2. limit * (half * tick) <= limit * (taker * 100)
            BY <3>1
        <3>3. QED
            BY <3>2
    <2>3. half * price <= limit * (half + 100)
        <3> DEFINE x == half * price
                   y == limit * (half + 100)
        <3>1. x \in Nat /\ y \in Nat /\ taker * x <= taker * y
            <4>1. PICK middle \in Nat : middle = half * (limit * (taker + tick))
                OBVIOUS
            <4>2. taker * x <= middle /\ middle <= taker * y
                BY <2>1, <2>2, <4>1
            <4>3. x \in Nat /\ y \in Nat /\ taker * x \in Nat /\ taker * y \in Nat
                OBVIOUS
            <4>4. QED
                BY <4>2, <4>3
        <3> HIDE DEF x, y
        <3>2. x <= y
            BY <3>1
        <3>3. QED
            BY <3>2 DEF x, y
    <2>4. QED
        BY <1>3, <1>6, <2>3
<1>7. QED
    <2>1. PICK bound \in Nat : bound = told * (half + 100)
        BY <1>2
    <2>2. value <= bound
        BY <1>2, <1>5, <1>6, <2>1
    <2>3. (value \div One) * One <= bound
        BY <1>4, <2>1, <2>2 DEF One
    <2>4. QED
        BY <1>3, <1>4, <2>1, <2>3

(* ... or all the shares of a limit BUY are.                               *)
LEMMA SharesArePaid ==
    ASSUME OrderKept, pc = "live", order.kind = "GTC",
           NEW price \in Nat \ {0}, Allows(price), NEW told \in {order.limit, price}
    PROVE  /\ (order.taker * price) \div One \in Nat
           /\ ((order.taker * price) \div One) * One <= told * (order.taker + 100)
<1>1. PICK limit \in Nat \ {0}, maker \in Nat \ {0}, taker \in Nat \ {0}, tick \in 1..100 :
         /\ limit = order.limit /\ maker = order.maker /\ taker = order.taker
         /\ maker * One <= limit * (taker + tick)
         /\ order.kind = "GTC" => maker * One <= limit * taker
    BY OrderNumbers
<1>2. price * taker <= maker * One /\ told \in {limit, price}
    BY <1>1, Zenon DEF Allows
<1>3. PICK value \in Nat : value = taker * price
    OBVIOUS
<1>4. value \div One \in Nat /\ (value \div One) * One <= value
    BY DEF One
<1>5. value <= told * taker
    BY <1>1, <1>2, <1>3 DEF One
<1>6. PICK bound \in Nat : bound = told * (taker + 100)
    BY <1>2
<1>7. value <= bound
    <2>1. told * taker <= told * (taker + 100) /\ told * taker \in Nat
        BY <1>2
    <2>2. QED
        BY <1>5, <1>6, <2>1
<1>8. (value \div One) * One <= bound
    BY <1>4, <1>6, <1>7 DEF One
<1>9. order.taker = taker
    BY <1>1, Zenon
<1>10. QED
    BY <1>3, <1>4, <1>6, <1>8, <1>9

(* Trading keeps it: in full or in part, at any price the amounts allow.   *)
LEMMA ExecuteStep == TradeInv /\ Execute => TradeInv'
<1> SUFFICES ASSUME TradeInv, Execute PROVE TradeInv'
    OBVIOUS
<1> DEFINE kept == \/ fill'.size = 0
                   \/ /\ fill'.size \in Nat /\ fill'.price \in Nat \ {0}
                      /\ held'.size = fill'.size /\ held'.paid \in Nat
                      /\ held'.paid * One <= fill'.price * (held'.size + 100)
<1>1. UNCHANGED <<setup, books>> /\ pc' = "book" /\ pc = "live"
    BY DEF Execute
<1>2. /\ order.kind \in {"FOK", "GTC"} /\ order.tick \in 1..100
      /\ order.limit \in Nat \ {0} /\ order.maker \in Nat \ {0} /\ order.taker \in Nat \ {0}
      /\ order.maker * One <= order.limit * (order.taker + order.tick)
      /\ order.kind = "GTC" => order.maker * One <= order.limit * order.taker
    BY <1>1 DEF TradeInv, OrderKept
<1>3. Asks \union {order.limit} \subseteq Nat \ {0}
    <2>1. Asks \subseteq Nat \ {0}
        BY Asks \subseteq 1..One DEF One
    <2>2. order.limit \in Nat \ {0}
        BY <1>2, Zenon
    <2>3. QED
        BY <2>1, <2>2
<1>4. ASSUME NEW price \in Asks \union {order.limit}, Allows(price),
             NEW status, NEW size \in Nat, NEW paid \in Nat,
             \A told \in {order.limit, price} : paid * One <= told * (size + 100),
             Trades(price, status, size, paid)
      PROVE  kept
    <2>1. PICK told \in {order.limit, price} :
             fill' = [status |-> status, size |-> size, price |-> told]
        BY <1>4 DEF Trades
    <2>2. held'.size = size /\ held'.paid = paid
        BY <1>4 DEF Trades
    <2>3. told \in Nat \ {0}
        BY <1>3
    <2>4. QED
        BY <1>4, <2>1, <2>2, <2>3
<1>5. ASSUME NEW price \in Asks \union {order.limit}, Allows(price),
             Trades(price, "MATCHED", SizeOfAll(price),
                    IF order.kind = "FOK" THEN order.maker ELSE (order.taker * price) \div One)
      PROVE  kept
    <2>1. price \in Nat \ {0} /\ Allows(price)
        BY <1>5, <1>3
    <2>2. CASE order.kind = "FOK"
        <3> DEFINE size == (order.maker * One) \div price
        <3>1. ASSUME NEW told \in {order.limit, price}
              PROVE  size \in Nat /\ order.maker * One <= told * (size + 100)
            BY <1>1, <2>1, AllIsPaid, Zenon DEF TradeInv
        <3>2. Trades(price, "MATCHED", size, order.maker)
            BY <1>5, <2>2 DEF SizeOfAll
        <3>3. QED
            BY <1>2, <1>4, <1>5, <3>1, <3>2
    <2>3. CASE order.kind = "GTC"
        <3> DEFINE paid == (order.taker * price) \div One
        <3>1. ASSUME NEW told \in {order.limit, price}
              PROVE  paid \in Nat /\ paid * One <= told * (order.taker + 100)
            BY <1>1, <2>1, <2>3, SharesArePaid, Zenon DEF TradeInv
        <3>2. Trades(price, "MATCHED", order.taker, paid)
            BY <1>5, <2>3 DEF SizeOfAll
        <3>3. QED
            BY <1>2, <1>4, <1>5, <3>1, <3>2
    <2>4. QED
        BY <1>2, <2>2, <2>3
<1>6. ASSUME NEW price \in Asks \union {order.limit}, Allows(price),
             NEW half, half = FloorTo(order.taker \div 2, Cent),
             Trades(price, "CANCELED", half, (half * price) \div One)
      PROVE  kept
    <2>1. price \in Nat \ {0} /\ Allows(price)
        BY <1>6, <1>3
    <2>2. half \in Nat /\ 2 * half <= order.taker
        <3>1. order.taker \div 2 \in Nat /\ 2 * (order.taker \div 2) <= order.taker
            BY <1>2
        <3>2. half \in Nat /\ half <= order.taker \div 2
            BY <1>6, <3>1, FloorIsNear DEF Cent
        <3>3. QED
            BY <1>2, <3>1, <3>2
    <2>3. ASSUME NEW told \in {order.limit, price}
          PROVE  /\ (half * price) \div One \in Nat
                 /\ ((half * price) \div One) * One <= told * (half + 100)
        BY <1>1, <2>1, <2>2, HalfIsPaid, Zenon DEF TradeInv
    <2>4. QED
        BY <1>4, <1>6, <2>2, <2>3
<1>7. kept
    BY <1>5, <1>6 DEF Execute, NoFill
<1>8. FillKept'
    BY <1>1, <1>7 DEF FillKept, Booked
<1>9. QED
    BY <1>1, <1>8 DEF TradeInv, QuoteKept, OrderKept, StakeIsTheLimit, ReachesTheAsk,
                      UnflaggedIsInBand, Booked

(* Booking keeps it: the flag compares the reported price with the band.   *)
LEMMA BookStep == TradeInv /\ Book => TradeInv'
<1> SUFFICES ASSUME TradeInv, Book PROVE TradeInv'
    OBVIOUS
<1>1. /\ UNCHANGED <<setup, fill, held>> /\ pc' \in {"close", "done"} /\ pc = "book"
      /\ pc' = "close" => fill.size > 0
    BY DEF Book, GiveUp
<1>2. "flagged" \in DOMAIN books'
      /\ books'.flagged = FillBandViolation(setup.band, fill.size, fill.price)
    BY DEF Book, TradeInv
<1>3. CASE pc' = "done"
    BY <1>1, <1>2, <1>3, QuietTradeStep
<1>4. CASE pc' = "close"
    <2>1. /\ fill.size \in Nat /\ fill.size > 0 /\ fill.price \in Nat \ {0}
          /\ held.size = fill.size /\ held.paid \in Nat
          /\ held.paid * One <= fill.price * (held.size + 100)
        BY <1>1, <1>4 DEF TradeInv, FillKept
    <2>2. ASSUME setup.band.gate, ~books'.flagged
          PROVE  held.paid * One <= setup.band.max * (held.size + 100)
        <3>1. setup.band.max \in Nat
            BY ValidBand(setup.band) DEF TradeInv, ValidBand
        <3>2. fill.price <= setup.band.max
            <4>1. ~FillBandViolation(setup.band, fill.size, fill.price)
                BY <1>2, <2>2, Zenon
            <4>2. fill.size > 0 /\ fill.price > 0
                BY <2>1
            <4>3. QED
                BY <2>2, <4>1, <4>2, Zenon DEF FillBandViolation, InBand
        <3>3. fill.price * (held.size + 100) <= setup.band.max * (held.size + 100)
            BY <2>1, <3>1, <3>2
        <3>4. QED
            BY <2>1, <3>1, <3>3 DEF One
    <2>3. FillKept' /\ UnflaggedIsInBand'
        BY <1>1, <1>4, <2>1, <2>2 DEF FillKept, UnflaggedIsInBand, Booked, band
    <2>4. QED
        BY <1>1, <1>2, <1>4, <2>3 DEF TradeInv, QuoteKept, OrderKept, StakeIsTheLimit, ReachesTheAsk
<1>5. QED
    BY <1>1, <1>3, <1>4

(* After the booking the money stays as it is, and so does the flag.       *)
LEMMA SettledStep == TradeInv /\ (Close \/ Resolve) => TradeInv'
<1> SUFFICES ASSUME TradeInv, Close \/ Resolve PROVE TradeInv'
    OBVIOUS
<1>1. /\ UNCHANGED <<setup, held>> /\ Booked /\ pc' \in {"resolve", "probe", "done"}
    BY DEF Close, Resolve, Record, GiveUp, Booked
<1>2. "flagged" \in DOMAIN books' /\ books'.flagged = books.flagged
    BY DEF TradeInv, Close, Resolve, Record
<1>3. QED
    BY <1>1, <1>2 DEF TradeInv, QuoteKept, OrderKept, FillKept, StakeIsTheLimit,
                      ReachesTheAsk, UnflaggedIsInBand, Booked, band

(* It holds at the start.                                                  *)
LEMMA TradeInit == Init => TradeInv
BY DEF Init, TradeInv, NoBooks, QuoteKept, OrderKept, FillKept, StakeIsTheLimit,
       ReachesTheAsk, UnflaggedIsInBand, Booked

(* Every step of the trade keeps it.                                       *)
LEMMA TradeStep == TradeInv /\ [Next]_vars => TradeInv'
<1> SUFFICES ASSUME TradeInv, [Next]_vars PROVE TradeInv'
    OBVIOUS
<1>1. CASE Discover \/ Select
    <2>1. /\ UNCHANGED <<setup, books>>
          /\ pc' \notin {"sign", "live", "book", "close", "resolve", "probe"}
        BY <1>1 DEF Discover, Select, GiveUp
    <2>2. QED
        BY <2>1, QuietTradeStep DEF TradeInv
<1>2. CASE AskProbe
    BY <1>2, QuietTradeStep DEF AskProbe, GiveUp, NoBooks
<1>3. CASE UNCHANGED vars
    BY <1>3 DEF vars, TradeInv, QuoteKept, OrderKept, FillKept, StakeIsTheLimit,
                ReachesTheAsk, UnflaggedIsInBand, Booked, band
<1>4. QED
    BY <1>1, <1>2, <1>3, QuoteStep, SignStep, ExecuteStep, BookStep, SettledStep DEF Next

(* So it always holds.                                                     *)
THEOREM TradeInvariant == Spec => []TradeInv
BY TradeInit, TradeStep, PTL DEF Spec

(* For every stake, price and tick and every rounding, a signed order      *)
(* commits no more than the stake (or five shares).                        *)
THEOREM StakeAlwaysTheLimit == Spec => []StakeIsTheLimit
<1>1. TradeInv => StakeIsTheLimit
    BY DEF TradeInv
<1>2. QED
    BY <1>1, TradeInvariant, PTL

(* A market BUY always reaches its ask, or is a tick below the cap.        *)
THEOREM AlwaysReachesTheAsk == Spec => []ReachesTheAsk
<1>1. TradeInv => ReachesTheAsk
    BY DEF TradeInv
<1>2. QED
    BY <1>1, TradeInvariant, PTL

(* A trade that is not flagged never cost more than the band's maximum.    *)
THEOREM UnflaggedAlwaysInBand == Spec => []UnflaggedIsInBand
<1>1. TradeInv => UnflaggedIsInBand
    BY DEF TradeInv
<1>2. QED
    BY <1>1, TradeInvariant, PTL

-----------------------------------------------------------------------------
(* A tick that can be signed for divides the dollar: a price below the cap *)
(* is rounded up to a dollar at most, ...                                  *)
LEMMA CeilIsBelow ==
    ASSUME NEW slipped \in Nat, slipped <= 980 * Fine, NEW tick \in SupportedTicks,
           NEW price \in RoundToTickCeil(slipped, tick)
    PROVE  price <= One
<1>1. CASE tick = 100
    BY <1>1 DEF RoundToTickCeil, CeilTo, FloorTo, Fine, One
<1>2. CASE tick = 10
    BY <1>2 DEF RoundToTickCeil, CeilTo, FloorTo, Fine, One
<1>3. CASE tick = 1
    BY <1>3 DEF RoundToTickCeil, CeilTo, FloorTo, Fine, One
<1>4. QED
    BY <1>1, <1>2, <1>3 DEF SupportedTicks

(* ... and any price to the nearest.                                       *)
LEMMA NormalIsBelow ==
    ASSUME NEW price \in Nat, price <= One, NEW tick \in SupportedTicks,
           NEW p \in RoundNormal(price, tick)
    PROVE  p <= One
<1>1. CASE tick = 100
    BY <1>1 DEF RoundNormal, FloorTo, One
<1>2. CASE tick = 10
    BY <1>2 DEF RoundNormal, FloorTo, One
<1>3. CASE tick = 1
    BY <1>3 DEF RoundNormal, FloorTo, One
<1>4. QED
    BY <1>1, <1>2, <1>3 DEF SupportedTicks

(* The price that is slipped stays below the cap.                          *)
LEMMA SlippedIsBelow ==
    ASSUME NEW b \in Bands, NEW ask \in Nat
    PROVE  /\ ApplyBuySlippage(ask, Slippage, PriceCap(b)) \in Nat
           /\ ~b.gate => ApplyBuySlippage(ask, Slippage, PriceCap(b)) <= 980 * Fine
<1>1. PriceCap(b) \in Nat
    BY ValidBand(b) DEF ValidBand, PriceCap
<1>2. ask * (Fine + 3 * Slippage) \in Nat
    BY Slippage \in Nat DEF Fine
<1>3. ApplyBuySlippage(ask, Slippage, PriceCap(b)) \in Nat
    BY <1>1, <1>2 DEF ApplyBuySlippage, Lesser, Greater, Fine
<1>4. ASSUME ~b.gate PROVE ApplyBuySlippage(ask, Slippage, PriceCap(b)) <= 980 * Fine
    <2>1. PriceCap(b) = 980
        BY <1>4 DEF PriceCap
    <2>2. QED
        BY <1>2, <2>1 DEF ApplyBuySlippage, Lesser, Greater, Fine
<1>5. QED
    BY <1>3, <1>4

(* Half of an order is a whole number of hundredths of a share, so what is *)
(* paid for it and what it is booked with are whole numbers too.  The      *)
(* price may be above the limit by no more than the shares were rounded.   *)
LEMMA HalfIsBooked ==
    ASSUME NEW limit \in Nat \ {0}, limit <= One, NEW maker \in Nat, NEW taker \in Nat \ {0},
           NEW tick \in 1..100, maker * One <= limit * (taker + tick),
           NEW price \in Nat \ {0}, price * taker <= maker * One,
           NEW half, half = FloorTo(taker \div 2, Cent), NEW told \in {limit, price}
    PROVE  /\ (half * price) \div One \in Nat /\ (half * told) \div One \in Nat
           /\ (half * price) \div One <= maker
           /\ (half * price) \div One <= (half * told) \div One + RoundingLoss
<1>1. PICK k \in Nat : half = k * One /\ 2 * half <= taker
    <2>1. taker \div 2 \in Nat /\ 2 * (taker \div 2) <= taker
        OBVIOUS
    <2>2. /\ (taker \div 2) \div Cent \in Nat /\ half = ((taker \div 2) \div Cent) * Cent
          /\ half \in Nat /\ half <= taker \div 2
        BY <2>1, FloorIsNear DEF Cent
    <2>3. QED
        BY <2>1, <2>2 DEF Cent, One
<1>2. told \in Nat
    OBVIOUS
<1>3. (half * price) \div One = k * price /\ (half * told) \div One = k * told
    <2>1. PICK x \in Nat : x = k * price
        OBVIOUS
    <2>2. PICK y \in Nat : y = k * told
        BY <1>2
    <2>3. half * price = x * One /\ half * told = y * One
        <3>1. (k * One) * price = (k * price) * One /\ (k * One) * told = (k * told) * One
            BY <1>2 DEF One
        <3>2. QED
            BY <1>1, <2>1, <2>2, <3>1
    <2>4. (x * One) \div One = x /\ (y * One) \div One = y
        BY DEF One
    <2>5. QED
        BY <2>1, <2>2, <2>3, <2>4
<1>4. 2000 * k <= taker
    BY <1>1 DEF One
<1>5. k * price <= maker
    <2>1. price * (2000 * k) <= price * taker
        BY <1>4
    <2>2. 2000 * (k * price) <= maker * 1000
        BY <2>1 DEF One
    <2>3. QED
        BY <2>2
<1>6. k * price <= k * limit + 50
    <2>1. CASE price <= limit
        BY <2>1
    <2>2. CASE price > limit
        <3>1. PICK over \in Nat : price = limit + over
            BY <2>2
        <3>2. limit * tick <= 100000
            BY DEF One
        <3>3. price * taker <= limit * (taker + tick)
            BY DEF One
        <3>4. price * taker = limit * taker + over * taker
            BY <3>1
        <3>5. limit * (taker + tick) = limit * taker + limit * tick
            OBVIOUS
        <3>6. over * taker <= 100000
            BY <3>2, <3>3, <3>4, <3>5
        <3>7. over * (2000 * k) <= over * taker
            BY <1>4
        <3>8. 2000 * (k * over) <= 100000
            BY <3>6, <3>7
        <3>9. k * over <= 50
            BY <3>8
        <3>10. k * price = k * limit + k * over
            BY <3>1
        <3>11. QED
            BY <3>9, <3>10
    <2>3. QED
        BY <2>1, <2>2
<1>7. k * price \in Nat /\ k * told \in Nat /\ k * price <= k * told + 50
    BY <1>2, <1>6
<1>8. QED
    BY <1>3, <1>5, <1>7 DEF RoundingLoss

(* All of a resting order is booked with what it cost, or more.            *)
LEMMA AllIsBooked ==
    ASSUME NEW limit \in Nat \ {0}, NEW maker \in Nat, NEW taker \in Nat \ {0},
           maker * One <= limit * taker,
           NEW price \in Nat \ {0}, price * taker <= maker * One, NEW told \in {limit, price}
    PROVE  /\ (taker * price) \div One \in Nat /\ (taker * told) \div One \in Nat
           /\ (taker * price) \div One <= (taker * told) \div One
<1>1. price <= limit
    <2>1. price * taker <= limit * taker
        BY DEF One
    <2> SUFFICES ASSUME limit + 1 <= price PROVE FALSE
        OBVIOUS
    <2>2. (limit + 1) * taker <= price * taker
        OBVIOUS
    <2>3. QED
        BY <2>1, <2>2
<1>2. told \in Nat /\ price <= told
    BY <1>1
<1>3. PICK x \in Nat : x = taker * price
    OBVIOUS
<1>4. PICK y \in Nat : y = taker * told
    BY <1>2
<1>5. x <= y
    BY <1>2, <1>3, <1>4
<1>6. QED
    BY <1>3, <1>4, <1>5 DEF One

-----------------------------------------------------------------------------
(* The types of the records, and what the record of the trade consists of. *)
RecordsKept ==
    /\ order \in [kind : {"none", "FOK", "GTC"}, ask : Nat, price : Nat, tick : Nat,
                  limit : Nat, maker : Nat, taker : Nat]
    /\ fill \in [status : {"none", "MATCHED", "CANCELED"}, size : Nat, price : Nat]
    /\ held \in [token : {NoId, "UP", "DOWN"}, size : Nat, paid : Nat]
    /\ DOMAIN books = {"spent", "flagged", "outcome", "won", "redeemed", "pnl"}
    /\ books.spent \in Nat /\ books.redeemed \in Nat /\ books.pnl \in Int
    /\ books.outcome \in Sides \union {"none"}

FlagsKept ==
    books.flagged \in BOOLEAN /\ books.won \in BOOLEAN /\ probe.resolved \in BOOLEAN

(* Where the trade is, and what is known there.                            *)
PlaceKept ==
    /\ pc \in {"discover", "select", "quote", "sign", "live", "book",
               "close", "resolve", "probe", "done"}
    /\ market = NoMarket \/ (/\ market.condition = WindowId
                            /\ market.yes = "UP" /\ market.no = "DOWN")
    /\ pc \notin {"discover", "done"} => market # NoMarket
    /\ side \in Sides \union {"none"}
    /\ pc \notin {"discover", "select", "done"} => side \in Sides
    /\ truth \in Sides \union {"none"}
    /\ pc \in {"resolve", "probe"} => truth \in Sides
    /\ seen \in Stages \union {"none", "right", "wrong"}
    /\ pc # "done" => seen \notin Stages

(* A price that can be signed for is a dollar at most, and so is a limit;  *)
(* the money of a market BUY is the stake, but for a cent.                 *)
LimitKept ==
    /\ pc = "sign" /\ order.tick \in SupportedTicks => order.price <= One
    /\ pc = "live" => order.limit <= One
    /\ pc = "live" /\ order.kind = "FOK" => setup.stake <= order.maker + Cent

(* What a trade cost, by the way it is booked.                             *)
CostKept ==
    pc = "book" =>
        /\ order.kind \in {"FOK", "GTC"}
        /\ fill.size > 0 =>
              IF order.kind = "FOK" /\ fill.status = "MATCHED"
              THEN held.paid <= setup.stake /\ setup.stake <= held.paid + Cent
              ELSE /\ held.paid <= (fill.size * fill.price) \div One + RoundingLoss
                   /\ order.kind = "FOK" => held.paid <= setup.stake

(* The wallet has the token of the side that was bought.                   *)
TokenKept ==
    /\ (pc = "book" /\ fill.size > 0) => held.size = fill.size /\ held.token = TokenOf(side)
    /\ Booked => held.size > 0 /\ held.token = TokenOf(side)

DataInv ==
    /\ TradeInv
    /\ RecordsKept /\ FlagsKept /\ PlaceKept /\ LimitKept /\ CostKept /\ TokenKept
    /\ BooksCoverTheWallet /\ VerdictIsThePayout /\ ProbeMeetsItsMarket

(* It holds at the start.                                                  *)
LEMMA DataInit == Init => DataInv
<1> SUFFICES ASSUME Init PROVE DataInv
    OBVIOUS
<1>1. RecordsKept
    BY DEF Init, RecordsKept, NoOrder, NoFill, Nothing, NoBooks, NoId
<1>2. FlagsKept
    <2>1. books.flagged = FALSE /\ books.won = FALSE /\ probe.resolved = FALSE
        BY DEF Init, NoBooks, Unresolved
    <2>2. QED
        BY <2>1, Zenon DEF FlagsKept
<1>3. PlaceKept /\ LimitKept /\ CostKept /\ TokenKept
    BY DEF Init, PlaceKept, LimitKept, CostKept, TokenKept, Booked, Stages
<1>4. BooksCoverTheWallet /\ VerdictIsThePayout /\ ProbeMeetsItsMarket
    BY DEF Init, BooksCoverTheWallet, VerdictIsThePayout, ProbeMeetsItsMarket, Booked, Asked
<1>5. QED
    BY <1>1, <1>2, <1>3, <1>4, TradeInit DEF DataInv

(* Before the trade is booked nothing is claimed of the record, the        *)
(* verdict and the probe.                                                  *)
LEMMA NotBookedYet ==
    ASSUME DataInv, pc # "done", pc' \in {"select", "quote", "sign", "live", "book", "done"},
           UNCHANGED <<books, probe, seen>>
    PROVE  FlagsKept' /\ BooksCoverTheWallet' /\ VerdictIsThePayout' /\ ProbeMeetsItsMarket'
<1>1. FlagsKept'
    BY Zenon DEF DataInv, FlagsKept
<1>2. seen' \notin Stages
    BY DEF DataInv, PlaceKept
<1>3. ~Booked' /\ ~Asked' /\ pc' # "probe"
    BY <1>2 DEF Booked, Asked
<1>4. QED
    BY <1>1, <1>3, Zenon DEF BooksCoverTheWallet, VerdictIsThePayout, ProbeMeetsItsMarket

(* The market found is the window's.                                       *)
LEMMA DiscoverData == DataInv /\ Discover => DataInv'
<1> SUFFICES ASSUME DataInv, Discover PROVE DataInv'
    OBVIOUS
<1>1. /\ UNCHANGED <<setup, side, order, fill, held, books, truth, seen, probe>>
      /\ pc = "discover" /\ pc' \in {"select", "done"} /\ (market' = NoMarket => pc' = "done")
    BY DEF Discover, GiveUp
<1>2. \/ market' = NoMarket
      \/ market'.condition = WindowId /\ market'.yes = "UP" /\ market'.no = "DOWN"
    <2>1. PICK payload \in Payloads["quoted"]["none"] : market' = NormalizeDiscovered(payload)
        BY DEF Discover
    <2>2. PICK found : found = NormalizeDiscovered(payload)
        OBVIOUS
    <2>3. "quoted" \in Stages /\ "none" \in Sides \union {"none"}
        BY DEF Stages
    <2>4. found = NoMarket \/ (found.condition = WindowId /\ found.yes = "UP" /\ found.no = "DOWN")
        BY <2>2, <2>3, DiscoveredIsWindow, Zenon
    <2>5. QED
        BY <2>1, <2>2, <2>4
<1>3. RecordsKept'
    BY <1>1, Zenon DEF DataInv, RecordsKept
<1>4. PlaceKept' /\ LimitKept' /\ CostKept' /\ TokenKept'
    BY <1>1, <1>2 DEF DataInv, PlaceKept, LimitKept, CostKept, TokenKept, Booked
<1>5. QED
    BY <1>1, <1>3, <1>4, NotBookedYet, TradeStep DEF DataInv, Next

(* A side is chosen.                                                       *)
LEMMA SelectData == DataInv /\ Select => DataInv'
<1> SUFFICES ASSUME DataInv, Select PROVE DataInv'
    OBVIOUS
<1>1. /\ UNCHANGED <<setup, market, order, fill, held, books, truth, seen, probe>>
      /\ pc = "select"
      /\ \/ side' \in Sides /\ pc' = "quote"
         \/ side' = side /\ pc' = "done"
    BY DEF Select, GiveUp, Sides
<1>2. RecordsKept'
    BY <1>1, Zenon DEF DataInv, RecordsKept
<1>3. PlaceKept' /\ LimitKept' /\ CostKept' /\ TokenKept'
    BY <1>1 DEF DataInv, PlaceKept, LimitKept, CostKept, TokenKept, Booked
<1>4. QED
    BY <1>1, <1>2, <1>3, NotBookedYet, TradeStep DEF DataInv, Next

(* The price of an order that can be signed is a dollar at most: it is in  *)
(* the band, or below the cap that stands for one.                         *)
LEMMA QuoteData == DataInv /\ Quote => DataInv'
<1> SUFFICES ASSUME DataInv, Quote PROVE DataInv'
    OBVIOUS
<1>1. /\ UNCHANGED <<setup, market, side, fill, held, books, truth, seen, probe>>
      /\ pc = "quote" /\ pc' \in {"sign", "done"} /\ setup.band \in Bands
    BY DEF Quote, GiveUp, DataInv, TradeInv
<1>2. PICK book \in Books, tick \in Ticks :
         \/ order' = order /\ pc' = "done"
         \/ /\ pc' = "sign"
            /\ \E price \in RoundToTickCeil(ApplyBuySlippage(BestAsk(book), Slippage,
                                                             PriceCap(setup.band)), tick) :
                  /\ InBand(setup.band, price)
                  /\ order' = Quoted("FOK", BestAsk(book), price, tick)
         \/ pc' = "sign" /\ order' = Quoted("GTC", 0, FallbackPrice(setup.band), tick)
    BY DEF Quote, GiveUp
<1>3. tick \in Nat
    BY Ticks \subseteq 1..100
<1>4. RecordsKept' /\ LimitKept'
    <2>1. CASE order' = order /\ pc' = "done"
        BY <1>1, <2>1 DEF DataInv, RecordsKept, LimitKept
    <2>2. ASSUME pc' = "sign",
                 NEW price \in RoundToTickCeil(ApplyBuySlippage(BestAsk(book), Slippage,
                                                               PriceCap(setup.band)), tick),
                 InBand(setup.band, price),
                 order' = Quoted("FOK", BestAsk(book), price, tick)
          PROVE  RecordsKept' /\ LimitKept'
        <3>1. PICK ask \in Nat : ask = BestAsk(book)
            BY AskIsPrice
        <3>2. price \in Nat
            BY <1>1, <3>1, SlippedPrice
        <3>3. order' = [kind |-> "FOK", ask |-> ask, price |-> price, tick |-> tick,
                        limit |-> 0, maker |-> 0, taker |-> 0]
            BY <2>2, <3>1 DEF Quoted, NoOrder
        <3>4. RecordsKept'
            BY <1>1, <1>3, <3>1, <3>2, <3>3 DEF DataInv, RecordsKept
        <3>5. tick \in SupportedTicks => price <= One
            <4>1. CASE setup.band.gate
                <5>1. setup.band.max \in Nat /\ setup.band.max < One
                    BY <1>1, ValidBand(setup.band) DEF ValidBand
                <5>2. price <= setup.band.max
                    BY <2>2, <4>1, Zenon DEF InBand
                <5>3. QED
                    BY <3>2, <5>1, <5>2 DEF One
            <4>2. CASE ~setup.band.gate
                <5>1. PICK slipped \in Nat :
                         /\ slipped = ApplyBuySlippage(ask, Slippage, PriceCap(setup.band))
                         /\ slipped <= 980 * Fine
                    BY <1>1, <3>1, <4>2, SlippedIsBelow
                <5>2. price \in RoundToTickCeil(slipped, tick)
                    BY <3>1, <5>1
                <5>3. QED
                    BY <5>1, <5>2, CeilIsBelow
            <4>3. QED
                BY <4>1, <4>2
        <3>6. LimitKept'
            BY <2>2, <3>3, <3>5 DEF LimitKept
        <3>7. QED
            BY <3>4, <3>6
    <2>3. CASE pc' = "sign" /\ order' = Quoted("GTC", 0, FallbackPrice(setup.band), tick)
        <3>1. PICK price \in Nat : price = FallbackPrice(setup.band) /\ price <= 990
            BY <1>1, ValidBand(setup.band)
               DEF ValidBand, FallbackPrice, ClampPrice, Lesser, Greater
        <3>2. order' = [kind |-> "GTC", ask |-> 0, price |-> price, tick |-> tick,
                        limit |-> 0, maker |-> 0, taker |-> 0]
            <4>1. order' = Quoted("GTC", 0, price, tick)
                BY <2>3, <3>1, Zenon
            <4>2. QED
                BY <4>1 DEF Quoted, NoOrder
        <3>3. RecordsKept'
            BY <1>1, <1>3, <3>2 DEF DataInv, RecordsKept
        <3>4. LimitKept'
            BY <2>3, <3>1, <3>2 DEF LimitKept, One
        <3>5. QED
            BY <3>3, <3>4
    <2>4. QED
        BY <1>2, <2>1, <2>2, <2>3
<1>5. PlaceKept' /\ CostKept' /\ TokenKept'
    BY <1>1 DEF DataInv, PlaceKept, CostKept, TokenKept, Booked
<1>6. QED
    BY <1>1, <1>4, <1>5, NotBookedYet, TradeStep DEF DataInv, Next

(* So is its limit, and the money of a market BUY is the stake but for a   *)
(* cent.                                                                   *)
LEMMA SignData == DataInv /\ Sign => DataInv'
<1> SUFFICES ASSUME DataInv, Sign PROVE DataInv'
    OBVIOUS
<1>1. /\ UNCHANGED <<setup, market, side, fill, held, books, truth, seen, probe>>
      /\ pc = "sign" /\ pc' \in {"live", "done"}
    BY DEF Sign, GiveUp
<1>2. setup.stake \in Nat \ {0}
    BY Stakes \subseteq Nat \ {0} DEF DataInv, TradeInv
<1>3. PICK amounts \in Amounts :
         \/ pc' = "done" /\ order' = NoOrder
         \/ /\ order.tick \in SupportedTicks /\ Signable(amounts) /\ pc' = "live"
            /\ order' = [order EXCEPT !.limit = amounts.limit, !.maker = amounts.maker,
                                      !.taker = amounts.taker]
    BY DEF Sign, GiveUp
<1>4. /\ order.kind \in {"FOK", "GTC"} /\ order.price \in Nat \ {0}
      /\ order.tick \in Nat \ {0}
    <2>1. order.tick \in Ticks /\ order.kind \in {"FOK", "GTC"} /\ order.price \in Nat \ {0}
        BY <1>1 DEF DataInv, TradeInv, QuoteKept
    <2>2. \A tick \in Ticks : tick \in Nat \ {0}
        BY Ticks \subseteq 1..100
    <2>3. QED
        BY <2>1, <2>2, Zenon
<1>5. RecordsKept' /\ LimitKept'
    <2>1. CASE pc' = "done" /\ order' = NoOrder
        BY <1>1, <2>1 DEF DataInv, RecordsKept, LimitKept, NoOrder
    <2>2. CASE /\ order.tick \in SupportedTicks /\ Signable(amounts) /\ pc' = "live"
               /\ order' = [order EXCEPT !.limit = amounts.limit, !.maker = amounts.maker,
                                         !.taker = amounts.taker]
        <3>1. order.price <= One
            BY <1>1, <2>2 DEF DataInv, LimitKept
        <3>2. /\ amounts.limit \in Nat /\ amounts.maker \in Nat /\ amounts.taker \in Nat
              /\ amounts.limit <= One
              /\ order.kind = "FOK" => setup.stake <= amounts.maker + Cent
            <4>1. CASE order.kind = "FOK"
                <5>1. amounts \in MarketBuy(setup.stake, order.price, order.tick)
                    BY <4>1 DEF Amounts
                <5>2. /\ amounts.limit \in Nat /\ amounts.maker \in Nat /\ amounts.taker \in Nat
                      /\ amounts.limit <= order.price /\ setup.stake <= amounts.maker + Cent
                    BY <1>2, <1>4, <5>1, MarketBuyAmounts
                <5>3. QED
                    BY <1>4, <3>1, <5>2 DEF One
            <4>2. CASE order.kind = "GTC"
                <5>1. amounts \in LimitBuy(setup.stake, order.price, order.tick)
                    BY <4>2 DEF Amounts
                <5>2. amounts.limit \in Nat /\ amounts.maker \in Nat /\ amounts.taker \in Nat
                    BY <1>2, <1>4, <5>1, LimitBuyAmounts
                <5>3. PICK p \in RoundNormal(order.price, order.tick) : amounts.limit = p
                    BY <5>1 DEF LimitBuy
                <5>4. PICK price \in Nat : price = order.price
                    BY <1>4
                <5>5. PICK tick \in SupportedTicks : tick = order.tick
                    BY <2>2
                <5>6. p \in RoundNormal(price, tick) /\ price <= One
                    BY <3>1, <5>4, <5>5
                <5>7. p <= One
                    BY <5>6, NormalIsBelow
                <5>8. QED
                    BY <4>2, <5>2, <5>3, <5>7
            <4>3. QED
                BY <1>4, <4>1, <4>2
        <3>3. /\ order'.kind = order.kind /\ order'.limit = amounts.limit
              /\ order'.maker = amounts.maker
            BY <2>2 DEF DataInv, RecordsKept
        <3>4. RecordsKept'
            BY <1>1, <2>2, <3>2 DEF DataInv, RecordsKept
        <3>5. LimitKept'
            BY <1>1, <2>2, <3>2, <3>3 DEF LimitKept
        <3>6. QED
            BY <3>4, <3>5
    <2>3. QED
        BY <1>3, <2>1, <2>2
<1>6. PlaceKept' /\ CostKept' /\ TokenKept'
    BY <1>1 DEF DataInv, PlaceKept, CostKept, TokenKept, Booked
<1>7. QED
    BY <1>1, <1>5, <1>6, NotBookedYet, TradeStep DEF DataInv, Next

(* What the exchange may do with an order: nothing, or a trade whose cost  *)
(* is all of its money or what size and price imply.                       *)
LEMMA ExecuteIs ==
    ASSUME DataInv, Execute
    PROVE  \/ fill' = [status |-> "CANCELED", size |-> 0, price |-> 0] /\ held' = held
           \/ \E status \in {"MATCHED", "CANCELED"}, size \in Nat, paid \in Nat, told \in Nat :
                 /\ held' = [token |-> TokenOf(side), size |-> size, paid |-> paid]
                 /\ fill' = [status |-> status, size |-> size, price |-> told]
                 /\ order.kind = "FOK" => paid <= order.maker
                 /\ IF order.kind = "FOK" /\ status = "MATCHED" THEN paid = order.maker
                    ELSE paid <= (size * told) \div One + RoundingLoss
<1> DEFINE traded ==
        \E status \in {"MATCHED", "CANCELED"}, size \in Nat, paid \in Nat, told \in Nat :
           /\ held' = [token |-> TokenOf(side), size |-> size, paid |-> paid]
           /\ fill' = [status |-> status, size |-> size, price |-> told]
           /\ order.kind = "FOK" => paid <= order.maker
           /\ IF order.kind = "FOK" /\ status = "MATCHED" THEN paid = order.maker
              ELSE paid <= (size * told) \div One + RoundingLoss
<1>1. pc = "live" /\ OrderKept /\ order.kind \in {"FOK", "GTC"}
    BY DEF Execute, DataInv, TradeInv, OrderKept
<1>2. PICK limit \in Nat \ {0}, maker \in Nat \ {0}, taker \in Nat \ {0}, tick \in 1..100 :
         /\ limit = order.limit /\ maker = order.maker /\ taker = order.taker
         /\ maker * One <= limit * (taker + tick)
         /\ order.kind = "GTC" => maker * One <= limit * taker
    BY <1>1, OrderNumbers
<1>3. limit <= One
    BY <1>1, <1>2, Zenon DEF DataInv, LimitKept
<1>4. Asks \union {order.limit} \subseteq Nat \ {0}
    <2>1. Asks \subseteq Nat \ {0}
        BY Asks \subseteq 1..One DEF One
    <2>2. order.limit \in Nat \ {0}
        BY <1>2, Zenon
    <2>3. QED
        BY <2>1, <2>2
<1>5. ASSUME NEW price \in Asks \union {order.limit}, Allows(price),
             Trades(price, "MATCHED", SizeOfAll(price),
                    IF order.kind = "FOK" THEN order.maker ELSE (order.taker * price) \div One)
      PROVE  traded
    <2>1. price \in Nat \ {0} /\ price * taker <= maker * One
        <3>1. price \in Nat \ {0}
            BY <1>4, <1>5
        <3>2. price * taker <= maker * One
            BY <1>2, <1>5, Zenon DEF Allows
        <3>3. QED
            BY <3>1, <3>2
    <2>2. PICK told \in {order.limit, price} :
             fill' = [status |-> "MATCHED", size |-> SizeOfAll(price), price |-> told]
        BY <1>5 DEF Trades
    <2>3. told \in Nat /\ told \in {limit, price}
        BY <1>2, <1>4, <2>1, <2>2
    <2>4. CASE order.kind = "FOK"
        <3>1. PICK size \in Nat : size = (maker * One) \div price
            <4>1. (maker * One) \div price \in Nat
                <5>1. PICK money \in Nat : money = maker * One
                    BY DEF One
                <5>2. QED
                    BY <2>1, <5>1, FloorIsNear
            <4>2. QED
                BY <4>1
        <3>2. SizeOfAll(price) = size
            BY <1>2, <2>4, <3>1, Zenon DEF SizeOfAll
        <3>3. held' = [token |-> TokenOf(side), size |-> size, paid |-> maker]
            BY <1>2, <1>5, <2>4, <3>2, Zenon DEF Trades
        <3>4. fill' = [status |-> "MATCHED", size |-> size, price |-> told]
            BY <2>2, <3>2, Zenon
        <3>5. maker <= maker
            OBVIOUS
        <3>6. QED
            <4>1. maker \in Nat /\ "MATCHED" \in {"MATCHED", "CANCELED"}
                OBVIOUS
            <4>2. QED
                BY <1>2, <2>3, <2>4, <3>3, <3>4, <3>5, <4>1, Zenon
    <2>5. CASE order.kind = "GTC"
        <3>1. SizeOfAll(price) = taker
            BY <1>2, <2>5 DEF SizeOfAll
        <3>2. PICK paid \in Nat : paid = (taker * price) \div One
            BY <1>2, <2>1, <2>5, AllIsBooked, limit \in {limit, price}, Zenon
        <3>3. held' = [token |-> TokenOf(side), size |-> taker, paid |-> paid]
            BY <1>2, <1>5, <2>5, <3>1, <3>2 DEF Trades
        <3>4. fill' = [status |-> "MATCHED", size |-> taker, price |-> told]
            BY <2>2, <3>1, Zenon
        <3>5. paid <= (taker * told) \div One + RoundingLoss
            <4>1. PICK booked \in Nat : booked = (taker * told) \div One /\ paid <= booked
                <5>1. /\ (taker * told) \div One \in Nat
                      /\ (taker * price) \div One <= (taker * told) \div One
                    BY <1>2, <2>1, <2>3, <2>5, AllIsBooked, Zenon
                <5>2. QED
                    BY <3>2, <5>1, Zenon
            <4>2. QED
                BY <3>2, <4>1 DEF RoundingLoss
        <3>6. QED
            <4>1. taker \in Nat /\ "MATCHED" \in {"MATCHED", "CANCELED"} /\ order.kind # "FOK"
                BY <2>5
            <4>2. QED
                BY <2>3, <3>2, <3>3, <3>4, <3>5, <4>1, Zenon
    <2>6. QED
        BY <1>1, <2>4, <2>5
<1>6. ASSUME NEW price \in Asks \union {order.limit}, Allows(price),
             NEW half, half = FloorTo(order.taker \div 2, Cent),
             Trades(price, "CANCELED", half, (half * price) \div One)
      PROVE  traded
    <2>1. price \in Nat \ {0} /\ price * taker <= maker * One
        <3>1. price \in Nat \ {0}
            BY <1>4, <1>6
        <3>2. price * taker <= maker * One
            BY <1>2, <1>6, Zenon DEF Allows
        <3>3. QED
            BY <3>1, <3>2
    <2>2. PICK told \in {order.limit, price} :
             fill' = [status |-> "CANCELED", size |-> half, price |-> told]
        BY <1>6 DEF Trades
    <2>3. told \in Nat /\ told \in {limit, price}
        BY <1>2, <1>4, <2>1, <2>2
    <2>4. half = FloorTo(taker \div 2, Cent) /\ half \in Nat
        <3>1. half = FloorTo(taker \div 2, Cent)
            BY <1>2, <1>6, Zenon
        <3>2. taker \div 2 \in Nat
            OBVIOUS
        <3>3. QED
            BY <3>1, <3>2, FloorIsNear DEF Cent
    <2>5. PICK paid \in Nat, booked \in Nat :
             /\ paid = (half * price) \div One /\ booked = (half * told) \div One
             /\ paid <= maker /\ paid <= booked + RoundingLoss
        <3>1. /\ (half * price) \div One \in Nat /\ (half * told) \div One \in Nat
              /\ (half * price) \div One <= maker
              /\ (half * price) \div One <= (half * told) \div One + RoundingLoss
            <4>1. maker \in Nat /\ half = FloorTo(taker \div 2, Cent)
                BY <2>4
            <4>2. QED
                BY <1>2, <1>3, <2>1, <2>3, <4>1, HalfIsBooked, ZenonT(60)
        <3>2. QED
            BY <3>1, Zenon
    <2>6. held' = [token |-> TokenOf(side), size |-> half, paid |-> paid]
        BY <1>6, <2>5, Zenon DEF Trades
    <2>7. "CANCELED" \in {"MATCHED", "CANCELED"} /\ "CANCELED" # "MATCHED"
        OBVIOUS
    <2>8. QED
        BY <1>2, <2>2, <2>3, <2>4, <2>5, <2>6, <2>7, Zenon
<1> HIDE DEF traded
<1>7. \/ fill' = [status |-> "CANCELED", size |-> 0, price |-> 0] /\ held' = held
      \/ traded
    BY <1>5, <1>6 DEF Execute, NoFill
<1>8. QED
    BY <1>7 DEF traded

(* The wallet gets the token of the side that was bought, and the trade is *)
(* what the report tells, but for the rounding of the shares.              *)
LEMMA ExecuteData == DataInv /\ Execute => DataInv'
<1> SUFFICES ASSUME DataInv, Execute PROVE DataInv'
    OBVIOUS
<1>1. /\ UNCHANGED <<setup, market, side, order, books, truth, seen, probe>>
      /\ pc = "live" /\ pc' = "book" /\ order.kind \in {"FOK", "GTC"}
    BY DEF Execute, DataInv, TradeInv, OrderKept
<1>2. TokenOf(side)' = TokenOf(side) /\ TokenOf(side) \in {"UP", "DOWN"}
    BY <1>1 DEF DataInv, PlaceKept, TokenOf
<1>3. PlaceKept' /\ LimitKept'
    BY <1>1 DEF DataInv, PlaceKept, LimitKept
<1>4. RecordsKept' /\ CostKept' /\ TokenKept'
    <2>1. CASE fill' = [status |-> "CANCELED", size |-> 0, price |-> 0] /\ held' = held
        <3>1. fill'.size = 0
            BY <2>1
        <3>2. RecordsKept'
            BY <1>1, <2>1 DEF DataInv, RecordsKept
        <3>3. QED
            BY <1>1, <3>1, <3>2 DEF CostKept, TokenKept, Booked
    <2>2. ASSUME NEW status \in {"MATCHED", "CANCELED"}, NEW size \in Nat, NEW paid \in Nat,
                 NEW told \in Nat,
                 held' = [token |-> TokenOf(side), size |-> size, paid |-> paid],
                 fill' = [status |-> status, size |-> size, price |-> told],
                 order.kind = "FOK" => paid <= order.maker,
                 IF order.kind = "FOK" /\ status = "MATCHED" THEN paid = order.maker
                 ELSE paid <= (size * told) \div One + RoundingLoss
          PROVE  RecordsKept' /\ CostKept' /\ TokenKept'
        <3>1. /\ held'.token = TokenOf(side) /\ held'.size = size /\ held'.paid = paid
              /\ fill'.status = status /\ fill'.size = size /\ fill'.price = told
            BY <2>2
        <3>2. RecordsKept'
            BY <1>1, <1>2, <2>2 DEF DataInv, RecordsKept
        <3>3. order.kind = "FOK" => order.maker <= setup.stake /\ setup.stake <= order.maker + Cent
            BY <1>1 DEF DataInv, TradeInv, StakeIsTheLimit, LimitKept
        <3>4. order.kind = "FOK" => paid <= setup.stake
            <4>1. setup.stake \in Nat /\ order.maker \in Nat
                BY <1>1, Stakes \subseteq Nat \ {0} DEF DataInv, TradeInv, OrderKept
            <4>2. QED
                BY <2>2, <3>3, <4>1
        <3>5. CostKept'
            <4>1. CASE order.kind = "FOK" /\ status = "MATCHED"
                <5>1. paid <= setup.stake /\ setup.stake <= paid + Cent
                    BY <2>2, <3>3, <4>1
                <5>2. QED
                    BY <1>1, <3>1, <4>1, <5>1, Zenon DEF CostKept
            <4>2. CASE ~(order.kind = "FOK" /\ status = "MATCHED")
                <5>1. paid <= (size * told) \div One + RoundingLoss
                    BY <2>2, <4>2
                <5>2. QED
                    BY <1>1, <3>1, <3>4, <4>2, <5>1, Zenon DEF CostKept
            <4>3. QED
                BY <4>1, <4>2
        <3>6. TokenKept'
            BY <1>1, <1>2, <3>1 DEF TokenKept, Booked
        <3>7. QED
            BY <3>2, <3>5, <3>6
    <2>3. QED
        BY <2>1, <2>2, ExecuteIs
<1>5. QED
    BY <1>1, <1>3, <1>4, NotBookedYet, TradeStep DEF DataInv, Next

(* compute_spent gives the stake, or what size and price imply, or the     *)
(* lesser of the two.                                                      *)
LEMMA SpentIs ==
    ASSUME NEW kind \in {"FOK", "GTC"}, NEW status, NEW stake \in Nat,
           NEW size \in Nat, NEW price \in Nat
    PROVE  LET implied == (size * price) \div One
               spent   == ComputeSpent(kind, status, stake, size, price) IN
           /\ implied \in Nat /\ spent \in Nat
           /\ kind = "FOK" /\ status = "MATCHED" => spent = stake
           /\ kind = "FOK" /\ status # "MATCHED" => spent = Lesser(stake, implied)
           /\ kind = "GTC" => spent = implied
<1>1. PICK implied \in Nat : implied = (size * price) \div One
    <2>1. PICK value \in Nat : value = size * price
        OBVIOUS
    <2>2. value \div One \in Nat
        BY DEF One
    <2>3. QED
        BY <2>1, <2>2
<1>2. /\ kind = "FOK" /\ status = "MATCHED" =>
            ComputeSpent(kind, status, stake, size, price) = stake
      /\ kind = "FOK" /\ status # "MATCHED" =>
            ComputeSpent(kind, status, stake, size, price) = Lesser(stake, implied)
      /\ kind = "GTC" => ComputeSpent(kind, status, stake, size, price) = implied
    BY <1>1 DEF ComputeSpent
<1>3. Lesser(stake, implied) \in Nat
    BY DEF Lesser
<1>4. QED
    BY <1>1, <1>2, <1>3

(* Booking: what compute_spent makes of the fill is what the wallet paid,  *)
(* or the stake, or the two are a rounding of the shares apart.            *)
LEMMA BookData == DataInv /\ Book => DataInv'
<1> SUFFICES ASSUME DataInv, Book PROVE DataInv'
    OBVIOUS
<1>1. /\ UNCHANGED <<setup, market, side, order, fill, held, truth, seen, probe>>
      /\ pc = "book" /\ pc' \in {"close", "done"} /\ (pc' = "close" => fill.size > 0)
    BY DEF Book, GiveUp
<1>2. /\ order.kind \in {"FOK", "GTC"} /\ fill.size \in Nat /\ fill.price \in Nat
      /\ setup.stake \in Nat /\ held.paid \in Nat
    BY <1>1, Stakes \subseteq Nat \ {0} DEF DataInv, TradeInv, RecordsKept, CostKept
<1>3. PICK kind \in {"FOK", "GTC"}, stake \in Nat, size \in Nat, price \in Nat :
         kind = order.kind /\ stake = setup.stake /\ size = fill.size /\ price = fill.price
    BY <1>2
<1> DEFINE status == fill.status
<1>4. PICK spent \in Nat, implied \in Nat :
         /\ spent = ComputeSpent(kind, status, stake, size, price)
         /\ implied = (size * price) \div One
         /\ kind = "FOK" /\ status = "MATCHED" => spent = stake
         /\ kind = "FOK" /\ status # "MATCHED" => spent = Lesser(stake, implied)
         /\ kind = "GTC" => spent = implied
    BY SpentIs
<1>5. PICK flagged \in BOOLEAN : flagged = FillBandViolation(setup.band, fill.size, fill.price)
    BY Zenon DEF FillBandViolation
<1>6. books' = [books EXCEPT !.spent = spent, !.flagged = flagged]
    BY <1>3, <1>4, <1>5, Zenon DEF Book
<1>7. /\ DOMAIN books' = DOMAIN books /\ books'.spent = spent
      /\ books'.redeemed = books.redeemed /\ books'.pnl = books.pnl
      /\ books'.outcome = books.outcome
    BY <1>6 DEF DataInv, RecordsKept
<1>8. books'.flagged = flagged /\ books'.won = books.won
    BY <1>6 DEF DataInv, RecordsKept
<1>9. RecordsKept'
    BY <1>1, <1>7 DEF DataInv, RecordsKept
<1>10. FlagsKept'
    BY <1>1, <1>8, Zenon DEF DataInv, FlagsKept
<1>11. PlaceKept' /\ LimitKept' /\ CostKept'
    BY <1>1 DEF DataInv, PlaceKept, LimitKept, CostKept
<1>12. TokenKept'
    <2>1. TokenOf(side)' = TokenOf(side)
        BY <1>1 DEF TokenOf
    <2>2. QED
        BY <1>1, <2>1 DEF DataInv, TokenKept, Booked
<1>13. BooksCoverTheWallet'
    <2>1. CASE pc' = "done"
        BY <2>1 DEF BooksCoverTheWallet, Booked
    <2>2. CASE pc' = "close"
        <3>1. PICK paid \in Nat : paid = held.paid
            BY <1>2
        <3>2. IF kind = "FOK" /\ status = "MATCHED"
              THEN paid <= stake /\ stake <= paid + Cent
              ELSE /\ paid <= implied + RoundingLoss
                   /\ kind = "FOK" => paid <= stake
            BY <1>1, <1>3, <1>4, <2>2, <3>1, Zenon DEF DataInv, CostKept
        <3>3. CASE kind = "FOK" /\ status = "MATCHED"
            <4>1. paid <= spent + RoundingLoss /\ spent - paid < 2 * Cent
                BY <1>4, <3>2, <3>3 DEF RoundingLoss, Cent
            <4>2. QED
                BY <1>1, <1>7, <3>1, <4>1, Zenon DEF BooksCoverTheWallet
        <3>4. CASE ~(kind = "FOK" /\ status = "MATCHED")
            <4>1. paid <= spent + RoundingLoss
                BY <1>4, <3>2, <3>4 DEF RoundingLoss, Lesser
            <4>2. ~(fill'.status = "MATCHED" /\ order'.kind = "FOK")
                BY <1>1, <1>3, <3>4, Zenon
            <4>3. QED
                BY <1>1, <1>7, <3>1, <4>1, <4>2, Zenon DEF BooksCoverTheWallet
        <3>5. QED
            BY <3>3, <3>4
    <2>3. QED
        BY <1>1, <2>1, <2>2
<1>14. VerdictIsThePayout' /\ ProbeMeetsItsMarket'
    <2>1. seen' \notin Stages /\ pc' # "probe"
        BY <1>1 DEF DataInv, PlaceKept
    <2>2. QED
        BY <2>1 DEF VerdictIsThePayout, ProbeMeetsItsMarket, Asked
<1>15. QED
    BY <1>9, <1>10, <1>11, <1>12, <1>13, <1>14, TradeStep DEF DataInv, Next

(* The close of the window: a side has won, the order is closed.           *)
LEMMA CloseData == DataInv /\ Close => DataInv'
<1> SUFFICES ASSUME DataInv, Close PROVE DataInv'
    OBVIOUS
<1>1. /\ UNCHANGED <<setup, market, side, held, books, seen, probe>>
      /\ pc = "close" /\ pc' = "resolve" /\ truth' \in Sides
      /\ order' = NoOrder /\ fill' = NoFill
    BY DEF Close
<1>2. RecordsKept'
    BY <1>1 DEF DataInv, RecordsKept, NoOrder, NoFill
<1>3. FlagsKept'
    BY <1>1, Zenon DEF DataInv, FlagsKept
<1>4. PlaceKept' /\ LimitKept' /\ CostKept'
    BY <1>1 DEF DataInv, PlaceKept, LimitKept, CostKept
<1>5. TokenKept'
    <2>1. TokenOf(side)' = TokenOf(side)
        BY <1>1 DEF TokenOf
    <2>2. QED
        BY <1>1, <2>1 DEF DataInv, TokenKept, Booked
<1>6. BooksCoverTheWallet'
    BY <1>1 DEF DataInv, BooksCoverTheWallet, Booked, NoFill
<1>7. VerdictIsThePayout' /\ ProbeMeetsItsMarket'
    <2>1. seen' \notin Stages /\ pc' # "probe"
        BY <1>1 DEF DataInv, PlaceKept
    <2>2. QED
        BY <2>1 DEF VerdictIsThePayout, ProbeMeetsItsMarket, Asked
<1>8. QED
    BY <1>2, <1>3, <1>4, <1>5, <1>6, <1>7, TradeStep DEF DataInv, Next

(* What compute_trade_pnl writes into the record.                          *)
LEMMA RecordIs ==
    ASSUME NEW outcome, Record(outcome), RecordsKept, FlagsKept
    PROVE  LET redeemed == IF side = outcome THEN held.size ELSE 0 IN
           /\ pc' = "probe" /\ DOMAIN books' = DOMAIN books
           /\ books'.spent = books.spent /\ books'.flagged = books.flagged
           /\ books'.outcome = outcome
           /\ books'.won \in BOOLEAN /\ (books'.won <=> side = outcome)
           /\ books'.redeemed = redeemed /\ books'.pnl = redeemed - books.spent
<1>1. PICK won \in BOOLEAN : won = (side = outcome)
    OBVIOUS
<1>2. PICK redeemed : redeemed = IF side = outcome THEN held.size ELSE 0
    OBVIOUS
<1>3. PICK pnl : pnl = redeemed - books.spent
    OBVIOUS
<1>4. ComputeTradePnl(side, outcome, held.size, books.spent)
         = [won |-> won, redeemed |-> redeemed, pnl |-> pnl]
    BY <1>1, <1>2, <1>3, Zenon DEF ComputeTradePnl
<1>5. books' = [books EXCEPT !.outcome = outcome, !.won = won,
                             !.redeemed = redeemed, !.pnl = pnl]
    <2>1. PICK result : result = [won |-> won, redeemed |-> redeemed, pnl |-> pnl]
        OBVIOUS
    <2>2. result.won = won /\ result.redeemed = redeemed /\ result.pnl = pnl
        BY <2>1
    <2>3. books' = [books EXCEPT !.outcome = outcome, !.won = result.won,
                                 !.redeemed = result.redeemed, !.pnl = result.pnl]
        BY <1>4, <2>1, Zenon DEF Record
    <2>4. QED
        BY <2>2, <2>3, Zenon
<1>6. /\ DOMAIN books' = DOMAIN books /\ books'.spent = books.spent
      /\ books'.outcome = outcome /\ books'.redeemed = redeemed /\ books'.pnl = pnl
    BY <1>5 DEF RecordsKept
<1>7. books'.won = won /\ books'.flagged = books.flagged
    BY <1>5 DEF RecordsKept
<1>8. pc' = "probe"
    BY DEF Record
<1>9. QED
    BY <1>1, <1>2, <1>3, <1>6, <1>7, <1>8, Zenon

(* The direction of the candles is a side, and the one that the feed       *)
(* shows.                                                                  *)
LEMMA FeedIsRight ==
    ASSUME NEW feed \in Feeds, Readable(feed.candles)
    PROVE  WindowDirection(feed.candles) = feed.shows /\ feed.shows \in Sides
<1>1. /\ feed.candles \in Seq([open : Nat, close : Nat]) /\ Len(feed.candles) >= 5
      /\ feed.shows \in Sides
      /\ feed.shows = "Down" <=> feed.candles[5].close < feed.candles[1].open
    BY FeedAssumption DEF Readable
<1>2. PICK open \in Nat, close \in Nat :
         open = feed.candles[1].open /\ close = feed.candles[5].close
    <2> DEFINE Candle == [open : Nat, close : Nat]
    <2>1. PICK candles \in Seq(Candle) : candles = feed.candles
        BY <1>1
    <2>2. Len(candles) >= 5 /\ Len(candles) \in Nat
        BY <1>1, <2>1
    <2> HIDE DEF Candle
    <2>3. \A i \in 1..Len(candles) : candles[i] \in Candle
        OBVIOUS
    <2>4. 1 \in 1..Len(candles) /\ 5 \in 1..Len(candles)
        BY <2>2
    <2>5. candles[1] \in Candle /\ candles[5] \in Candle
        BY <2>3, <2>4, Zenon
    <2>6. QED
        BY <2>1, <2>5 DEF Candle
<1>3. feed.shows = "Down" <=> close < open
    BY <1>1, <1>2, Zenon
<1>4. WindowDirection(feed.candles) = IF close >= open THEN "Up" ELSE "Down"
    BY <1>2, Zenon DEF WindowDirection, Direction
<1>5. QED
    BY <1>1, <1>3, <1>4 DEF Sides

(* The fallback gives a side or nothing.                                   *)
LEMMA FallbackIsSide ==
    ASSUME NEW payload
    PROVE  FallbackResolve(payload) \in Sides \union {"none"}
BY Zenon DEF FallbackResolve, Sides

(* Resolving: a source that is right gives the side the oracle chose, and  *)
(* the tokens of the wallet pay if they are of that side.                  *)
LEMMA ResolveData == DataInv /\ Resolve => DataInv'
<1> SUFFICES ASSUME DataInv, Resolve PROVE DataInv'
    OBVIOUS
<1>1. /\ UNCHANGED <<setup, market, side, order, fill, held, truth, probe>>
      /\ pc = "resolve"
    BY DEF Resolve
<1>2. truth \in Sides /\ side \in Sides /\ market.yes = "UP" /\ market.no = "DOWN"
    BY <1>1 DEF DataInv, PlaceKept
<1>3. held.size \in Nat \ {0} /\ held.paid \in Nat /\ held.token = TokenOf(side)
    BY <1>1 DEF DataInv, TokenKept, RecordsKept, Booked
<1>4. \/ pc' = "done" /\ UNCHANGED <<books, seen>>
      \/ \E outcome \in Sides :
            Record(outcome) /\ seen' \in {"right", "wrong"} /\ (seen' = "right" => outcome = truth)
    <2>1. ASSUME NEW feed \in Feeds, Readable(feed.candles), Record(WindowDirection(feed.candles)),
                 seen' = IF feed.shows = truth THEN "right" ELSE "wrong"
          PROVE  \E outcome \in Sides : /\ Record(outcome) /\ seen' \in {"right", "wrong"}
                                        /\ seen' = "right" => outcome = truth
        <3>1. WindowDirection(feed.candles) = feed.shows /\ feed.shows \in Sides
            BY <2>1, FeedIsRight
        <3>2. Record(feed.shows)
            BY <2>1, <3>1, Zenon
        <3>3. seen' \in {"right", "wrong"} /\ (seen' = "right" => feed.shows = truth)
            BY <2>1
        <3>4. QED
            BY <3>1, <3>2, <3>3, Zenon
    <2>2. ASSUME NEW stage \in Stages,
                 NEW outcome \in {FallbackResolve(payload) : payload \in Payloads[stage][truth]},
                 outcome # "none", Record(outcome),
                 seen' = IF stage = "final" THEN "right" ELSE "wrong"
          PROVE  \E o \in Sides : /\ Record(o) /\ seen' \in {"right", "wrong"}
                                  /\ seen' = "right" => o = truth
        <3>1. PICK payload \in Payloads[stage][truth] : outcome = FallbackResolve(payload)
            OBVIOUS
        <3>2. outcome \in Sides
            BY <2>2, <3>1, FallbackIsSide
        <3>3. seen' \in {"right", "wrong"}
            BY <2>2
        <3>4. ASSUME seen' = "right" PROVE outcome = truth
            <4>1. stage = "final"
                BY <2>2, <3>4
            <4>2. PICK winner \in Sides : winner = truth
                BY <1>2
            <4>3. payload \in Payloads["final"][winner]
                BY <3>1, <4>1, <4>2, Zenon
            <4>4. FallbackResolve(payload) \in {"none", winner}
                BY <4>3, FinalVerdict
            <4>5. QED
                BY <2>2, <3>1, <4>2, <4>4
        <3>5. QED
            BY <2>2, <3>2, <3>3, <3>4, Zenon
    <2>3. PICK feed \in Feeds :
             IF Readable(feed.candles)
             THEN /\ Record(WindowDirection(feed.candles))
                  /\ seen' = IF feed.shows = truth THEN "right" ELSE "wrong"
             ELSE \E stage \in Stages :
                  \E outcome \in {FallbackResolve(payload) : payload \in Payloads[stage][truth]} :
                     IF outcome # "none"
                     THEN /\ Record(outcome)
                          /\ seen' = IF stage = "final" THEN "right" ELSE "wrong"
                     ELSE GiveUp /\ UNCHANGED <<books, seen>>
        BY Zenon DEF Resolve
    <2>4. CASE Readable(feed.candles)
        BY <2>1, <2>3, <2>4
    <2>5. CASE ~Readable(feed.candles)
        <3>1. PICK stage \in Stages :
                 \E outcome \in {FallbackResolve(payload) : payload \in Payloads[stage][truth]} :
                    IF outcome # "none"
                    THEN /\ Record(outcome)
                         /\ seen' = IF stage = "final" THEN "right" ELSE "wrong"
                    ELSE GiveUp /\ UNCHANGED <<books, seen>>
            BY <2>3, <2>5
        <3>2. PICK outcome \in {FallbackResolve(payload) : payload \in Payloads[stage][truth]} :
                 IF outcome # "none"
                 THEN /\ Record(outcome)
                      /\ seen' = IF stage = "final" THEN "right" ELSE "wrong"
                 ELSE GiveUp /\ UNCHANGED <<books, seen>>
            BY <3>1
        <3>3. QED
            BY <2>2, <3>2 DEF GiveUp
    <2>6. QED
        BY <2>4, <2>5
<1>5. TokenOf(side)' = TokenOf(side)
    BY <1>1 DEF TokenOf
<1>6. CASE pc' = "done" /\ UNCHANGED <<books, seen>>
    <2>1. RecordsKept' /\ PlaceKept' /\ LimitKept' /\ CostKept' /\ TokenKept'
        BY <1>1, <1>6 DEF DataInv, RecordsKept, PlaceKept, LimitKept, CostKept, TokenKept, Booked
    <2>2. QED
        BY <1>1, <1>6, <2>1, NotBookedYet, TradeStep DEF DataInv, Next
<1>7. ASSUME NEW outcome \in Sides, Record(outcome), seen' \in {"right", "wrong"},
             seen' = "right" => outcome = truth
      PROVE  DataInv'
    <2> DEFINE payout == IF side = outcome THEN held.size ELSE 0
    <2>1. /\ pc' = "probe" /\ DOMAIN books' = DOMAIN books
          /\ books'.spent = books.spent /\ books'.flagged = books.flagged
          /\ books'.outcome = outcome
          /\ books'.won \in BOOLEAN /\ (books'.won <=> side = outcome)
          /\ books'.redeemed = payout /\ books'.pnl = payout - books.spent
        BY <1>7, RecordIs, Zenon DEF DataInv
    <2>2. payout \in Nat /\ books.spent \in Nat
        BY <1>3 DEF DataInv, RecordsKept
    <2>3. RecordsKept'
        <3>1. books'.spent \in Nat /\ books'.redeemed \in Nat /\ books'.pnl \in Int
            BY <2>1, <2>2
        <3>2. QED
            BY <1>1, <1>7, <2>1, <3>1 DEF DataInv, RecordsKept
    <2>4. FlagsKept'
        BY <1>1, <2>1, Zenon DEF DataInv, FlagsKept
    <2>5. PlaceKept'
        <3>1. pc' = "probe" /\ seen' \in {"right", "wrong"}
            BY <1>7, <2>1
        <3>2. QED
            BY <1>1, <3>1 DEF DataInv, PlaceKept, Stages
    <2>6. LimitKept' /\ CostKept' /\ TokenKept'
        <3>1. pc' = "probe"
            BY <2>1
        <3>2. QED
            BY <1>1, <1>3, <1>5, <3>1 DEF LimitKept, CostKept, TokenKept, Booked
    <2>7. BooksCoverTheWallet'
        <3>1. Booked /\ Booked'
            BY <1>1, <2>1 DEF Booked
        <3>2. QED
            BY <1>1, <2>1, <3>1, Zenon DEF DataInv, BooksCoverTheWallet
    <2>8. VerdictIsThePayout'
        <3> SUFFICES ASSUME seen' = "right"
                     PROVE  LET due == IF held.token = (IF truth = "Up" THEN "UP" ELSE "DOWN")
                                       THEN held.size ELSE 0 IN
                            /\ books'.won <=> due > 0
                            /\ books'.redeemed = due
                            /\ books'.pnl <= due - held.paid + RoundingLoss
            BY <1>1, Zenon DEF VerdictIsThePayout
        <3>1. held.token = (IF truth = "Up" THEN "UP" ELSE "DOWN") <=> side = outcome
            BY <1>2, <1>3, <1>7 DEF TokenOf, Sides
        <3>2. PICK due \in Nat :
                 due = IF held.token = (IF truth = "Up" THEN "UP" ELSE "DOWN")
                       THEN held.size ELSE 0
            BY <1>3
        <3>3. due = payout /\ (due > 0 <=> side = outcome)
            BY <1>3, <3>1, <3>2
        <3>4. held.paid <= books.spent + RoundingLoss
            BY <1>1 DEF DataInv, BooksCoverTheWallet, Booked
        <3>5. PICK paid \in Nat, spent \in Nat : paid = held.paid /\ spent = books.spent
            BY <1>3, <2>2, Zenon
        <3> DEFINE pnl == books'.pnl
        <3>6. pnl = due - spent /\ paid <= spent + RoundingLoss
            BY <2>1, <3>3, <3>4, <3>5, Zenon
        <3>7. pnl <= due - paid + RoundingLoss
            BY <3>5, <3>6 DEF RoundingLoss
        <3>8. QED
            BY <2>1, <3>2, <3>3, <3>5, <3>7, Zenon
    <2>9. ProbeMeetsItsMarket'
        BY <2>1 DEF ProbeMeetsItsMarket, Asked
    <2>10. TradeInv'
        BY TradeStep DEF DataInv, Next
    <2>11. QED
        BY <2>3, <2>4, <2>5, <2>6, <2>7, <2>8, <2>9, <2>10 DEF DataInv
<1>8. QED
    BY <1>4, <1>6, <1>7

(* The probe: whatever Gamma shows, the market of the claim is found by    *)
(* its condition id.                                                       *)
LEMMA ProbeData == DataInv /\ AskProbe => DataInv'
<1> SUFFICES ASSUME DataInv, AskProbe PROVE DataInv'
    OBVIOUS
<1>1. /\ UNCHANGED <<setup, market, side, order, fill, truth>>
      /\ pc = "probe" /\ pc' = "done" /\ held' = Nothing /\ books' = NoBooks
    BY DEF AskProbe, GiveUp
<1>2. truth \in Sides /\ market.condition = WindowId
    BY <1>1 DEF DataInv, PlaceKept
<1>3. PICK stage \in Stages, winner \in Sides :
         /\ winner = truth /\ seen' = stage
         /\ probe' \in {ProbeGamma(payload, WindowId) : payload \in Payloads[stage][winner]}
    BY <1>2, Zenon DEF AskProbe
<1>4. PICK payload \in Payloads[stage][winner] : probe' = ProbeGamma(payload, WindowId)
    BY <1>3
<1>5. /\ probe'.resolved \in BOOLEAN
      /\ probe'.resolved <=> stage # "quoted"
      /\ (stage = "final" /\ probe'.yes # NoPrice) => (probe'.yes = One <=> winner = "Up")
    BY <1>4, ProbeIsWindows, Zenon
<1>6. RecordsKept'
    BY <1>1 DEF DataInv, RecordsKept, Nothing, NoBooks
<1>7. FlagsKept'
    <2>1. books'.flagged = FALSE /\ books'.won = FALSE
        BY <1>1 DEF NoBooks
    <2>2. QED
        BY <1>5, <2>1, Zenon DEF FlagsKept
<1>8. PlaceKept' /\ LimitKept' /\ CostKept' /\ TokenKept'
    BY <1>1, <1>3 DEF DataInv, PlaceKept, LimitKept, CostKept, TokenKept, Booked
<1>9. BooksCoverTheWallet' /\ VerdictIsThePayout'
    BY <1>1 DEF BooksCoverTheWallet, VerdictIsThePayout, Booked
<1>10. ProbeMeetsItsMarket'
    BY <1>1, <1>3, <1>5, Zenon DEF ProbeMeetsItsMarket
<1>11. QED
    BY <1>6, <1>7, <1>8, <1>9, <1>10, TradeStep DEF DataInv, Next

(* Every step keeps the records.                                           *)
LEMMA DataStep == DataInv /\ [Next]_vars => DataInv'
<1> SUFFICES ASSUME DataInv, [Next]_vars PROVE DataInv'
    OBVIOUS
<1>1. CASE UNCHANGED vars
    <2>1. UNCHANGED <<pc, setup, market, side, order, fill, held, books, truth, seen, probe>>
        BY <1>1 DEF vars
    <2>2. RecordsKept' /\ PlaceKept' /\ LimitKept' /\ CostKept' /\ TokenKept'
        BY <2>1 DEF DataInv, RecordsKept, PlaceKept, LimitKept, CostKept, TokenKept,
                    Booked, TokenOf
    <2>3. FlagsKept' /\ BooksCoverTheWallet' /\ VerdictIsThePayout' /\ ProbeMeetsItsMarket'
        BY <2>1, Zenon DEF DataInv, FlagsKept, BooksCoverTheWallet, VerdictIsThePayout,
                           ProbeMeetsItsMarket, Booked, Asked
    <2>4. QED
        BY <2>2, <2>3, TradeStep DEF DataInv
<1>2. QED
    BY <1>1, DiscoverData, SelectData, QuoteData, SignData, ExecuteData, BookData,
       CloseData, ResolveData, ProbeData DEF Next

(* So they are always kept.                                                *)
THEOREM DataInvariant == Spec => []DataInv
BY DataInit, DataStep, PTL DEF Spec

(* Every step hands the next one records of the right types: a price that  *)
(* can be signed for is between nothing and a dollar, and the amounts of a *)
(* signed order are positive.                                              *)
THEOREM TradeTypes == Spec => []TypeOK
<1>1. ASSUME DataInv PROVE TypeOK
    <2>1. setup \in [band : Bands, stake : Stakes]
        BY <1>1 DEF DataInv, TradeInv
    <2>2. market.condition = NoId <=> market = NoMarket
        BY <1>1, PayloadAssumption DEF DataInv, PlaceKept, NoMarket
    <2>3. pc = "sign" => order.price \in Nat \ {0}
        BY <1>1 DEF DataInv, TradeInv, QuoteKept
    <2>4. pc = "live" => order.limit \in 1..One /\ order.maker > 0 /\ order.taker > 0
        <3> SUFFICES ASSUME pc = "live"
                     PROVE  order.limit \in 1..One /\ order.maker > 0 /\ order.taker > 0
            OBVIOUS
        <3>1. /\ order.limit \in Nat \ {0} /\ order.maker \in Nat \ {0}
              /\ order.taker \in Nat \ {0} /\ order.limit <= One
            BY <1>1 DEF DataInv, TradeInv, OrderKept, LimitKept
        <3>2. PICK limit \in Nat \ {0}, maker \in Nat \ {0}, taker \in Nat \ {0} :
                 limit = order.limit /\ maker = order.maker /\ taker = order.taker
            BY <3>1
        <3>3. limit <= One
            BY <3>1, <3>2, Zenon
        <3>4. limit \in 1..One /\ maker > 0 /\ taker > 0
            BY <3>3 DEF One
        <3>5. QED
            BY <3>2, <3>4, Zenon
    <2>5. /\ order.kind \in {"none", "FOK", "GTC"}
          /\ fill.status \in {"none", "MATCHED", "CANCELED"}
          /\ held.size \in Nat /\ held.paid \in Nat
          /\ books.spent \in Nat /\ books.redeemed \in Nat /\ books.pnl \in Int
          /\ books.outcome \in Sides \union {"none"}
        BY <1>1 DEF DataInv, RecordsKept
    <2>6. books.flagged \in BOOLEAN /\ books.won \in BOOLEAN /\ probe.resolved \in BOOLEAN
        BY <1>1, Zenon DEF DataInv, FlagsKept
    <2>7. QED
        BY <1>1, <2>1, <2>2, <2>3, <2>4, <2>5, <2>6, Zenon
           DEF DataInv, PlaceKept, LimitKept, TypeOK
<1>2. QED
    BY <1>1, DataInvariant, PTL

(* The books never show less than the wallet paid, but for the rounding of *)
(* the shares, and for a matched market BUY two cents more at most:        *)
(* whatever the stake, the tick, the price of the trade and the report.    *)
THEOREM BooksAlwaysCoverTheWallet == Spec => []BooksCoverTheWallet
<1>1. DataInv => BooksCoverTheWallet
    BY DEF DataInv
<1>2. QED
    BY <1>1, DataInvariant, PTL

(* A record made from a source that is right says what the tokens pay:     *)
(* whatever the order of the outcomes in the payload and what else is in   *)
(* it.                                                                     *)
THEOREM VerdictIsAlwaysThePayout == Spec => []VerdictIsThePayout
<1>1. DataInv => VerdictIsThePayout
    BY DEF DataInv
<1>2. QED
    BY <1>1, DataInvariant, PTL

(* The probe always answers for the market that was bought.                *)
THEOREM ProbeAlwaysMeetsItsMarket == Spec => []ProbeMeetsItsMarket
<1>1. DataInv => ProbeMeetsItsMarket
    BY DEF DataInv
<1>2. QED
    BY <1>1, DataInvariant, PTL
=============================================================================
