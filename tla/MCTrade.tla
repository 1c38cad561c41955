------------------------------ MODULE MCTrade -------------------------------
(***************************************************************************)
(* A small instance of Trade: configurations, books and answers chosen so  *)
(* that every gate, cap, rounding and reading has both of its outcomes.    *)
(***************************************************************************)
EXTENDS Trade

MCBands ==
    {[gate |-> TRUE,  min |-> 50,  max |-> 570],
     [gate |-> TRUE,  min |-> 500, max |-> 955],
     [gate |-> TRUE,  min |-> 910, max |-> 970],
     [gate |-> TRUE,  min |-> 993, max |-> 996],
     [gate |-> FALSE, min |-> 0,   max |-> 970]}

\* Less than a cent; three cents, whose shares are rounded by much; with a
\* fraction of a cent; enough for five shares.
MCStakes == {500, 3000, 114550, 490000}

\* The default tick, the finer and the coarser one, and an unknown one.
MCTicks == {100, 10, 1, 5}

MCBooks == {{0}, {0, 570, 930}, {350}, {923}, {995}}
MCAsks  == {350, 590, 714, 930}

Flat(price) == [open |-> price, close |-> price]
MCFeeds ==
    {[candles |-> <<Flat(5), Flat(9), Flat(1), Flat(6), Flat(7)>>, shows |-> "Up"],
     [candles |-> <<Flat(5), Flat(9), Flat(6), Flat(1), Flat(5)>>, shows |-> "Up"],
     [candles |-> <<Flat(5), Flat(9), Flat(6), Flat(7), Flat(4)>>, shows |-> "Down"],
     [candles |-> <<Flat(5), Flat(9), Flat(6), Flat(7)>>,          shows |-> "Up"],
     [candles |-> <<Flat(5), Flat(9), Flat(6), Flat(7), Flat(0)>>, shows |-> "Down"]}

-----------------------------------------------------------------------------
\* Gamma's layouts of the same market.
Listed(outcomes, condition, prices, over) ==
    [outcomes  |-> outcomes,
     tokens    |-> [i \in DOMAIN outcomes |->
                       IF outcomes[i] = "yes" THEN "UP"
                       ELSE IF outcomes[i] = "no" THEN "DOWN" ELSE "DRAW"],
     condition |-> condition,
     prices    |-> prices,
     over      |-> over]

Shown(outcomes, yes, no) ==
    [i \in DOMAIN outcomes |-> IF outcomes[i] = "yes" THEN yes
                               ELSE IF outcomes[i] = "no" THEN no ELSE 0]
Strings(outcomes) == [i \in DOMAIN outcomes |-> NoPrice]

\* What stands before it in the payload: nothing; a market of other outcomes
\* that is over; one without a condition id and one without prices.
OtherOutcomes == <<Listed(<<"other", "other">>, "c2", <<1000, 0>>, TRUE)>>
Incomplete    == <<Listed(<<"yes", "no">>, NoId, <<1000, 0>>, TRUE),
                   Listed(<<"no", "yes">>, "c3", <<>>, TRUE)>>

Shapes == {[before |-> <<>>,          layout |-> <<"yes", "no">>],
           [before |-> OtherOutcomes, layout |-> <<"no", "yes">>],
           [before |-> Incomplete,    layout |-> <<"other", "no", "yes">>]}

Quotes(layout) == {Shown(layout, 620, 380), Shown(layout, 380, 620),
                   Shown(layout, 500, 500), Strings(layout)}

Final(layout, winner) ==
    IF winner = "Up" THEN Shown(layout, 1000, 0) ELSE Shown(layout, 0, 1000)

Ours(stage, winner, layout) ==
    CASE stage = "quoted" -> {Listed(layout, "c1", p, FALSE) : p \in Quotes(layout)}
      [] stage = "over"   -> {Listed(layout, "c1", p, TRUE) : p \in Quotes(layout)}
      [] stage = "final"  -> {Listed(layout, "c1", Final(layout, winner), over) : over \in BOOLEAN}
                               \union {Listed(layout, "c1", Strings(layout), TRUE)}

MCPayloads ==
    [stage \in Stages |-> [winner \in Sides \union {"none"} |->
        UNION {{Append(shape.before, m) : m \in Ours(stage, winner, shape.layout)} :
                  shape \in Shapes}
          \union (IF stage = "quoted" THEN {<<>>, OtherOutcomes, Incomplete} ELSE {})]]
=============================================================================
