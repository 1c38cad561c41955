---------------------------- MODULE PostFillSell ----------------------------
(***************************************************************************)
(* attach_post_fill_sell_limit, the exit order after a buy that was filled *)
(* (ENABLE_POST_FILL_SELL_LIMIT is on): check the best bid a few times,    *)
(* and once it fell to the trigger price post a SELL for a portion of the  *)
(* position, again and again until it is accepted or the retries are used  *)
(* up.  The tokens of the buy may reach the balance late; a SELL refused   *)
(* for the balance is cut to it.  An answer may be lost, or call a SELL    *)
(* that rests a failure.                                                   *)
(*                                                                         *)
(* Sizes count the chain's units; an order's size is a multiple of Step.   *)
(* The waits, for t-N and between attempts, are of any length.             *)
(***************************************************************************)
EXTENDS Integers, Functions

CONSTANTS
    Filled,     \* filled_size of the buy
    Portion,    \* filled_size * POST_FILL_SELL_PERCENT_AMOUNT, rounded
    Step,       \* 0.01 shares, 10000 units in the code
    MaxChecks,  \* RETRY_CHECK_PRICE, at least 1
    MaxRetries, \* POST_FILL_SELL_MAX_RETRIES, at least 1
    Lossy       \* an answer may be lost, or be an error for a SELL that rests

ASSUME SizeAssumption ==
    /\ Filled \in Nat /\ Portion \in 0..Filled
    /\ Step \in Nat \ {0}
ASSUME RetryAssumption == MaxChecks \in Nat \ {0} /\ MaxRetries \in Nat \ {0}
ASSUME LossyAssumption == Lossy \in BOOLEAN

Tries == 1..MaxRetries

VARIABLES
    pc,        \* where attach_post_fill_sell_limit is
    checks,    \* check_price_attempt
    try,       \* attempt_idx of submit_post_fill_sell_limit
    size,      \* current_size
    signed,    \* the maker amount of the signed SELL
    outcome,   \* the status of the placement
    delivered, \* the chain: units of the buy that arrived in the wallet
    offers,    \* the exchange: the size of the SELL accepted in each try
    sold,      \* the exchange: what was sold of it
    unseen     \* history: a SELL was accepted, and its answer did not say so

exit     == <<pc, checks, try, size, signed, outcome>>
exchange == <<delivered, offers, sold>>
vars     == <<exit, exchange, unseen>>

TypeOK ==
    /\ pc \in {"check", "submit", "sign", "post", "done"}
    /\ checks \in 0..MaxChecks
    /\ try \in 0..MaxRetries
    /\ size \in 0..Portion
    /\ signed \in 0..Portion
    /\ outcome \in {"none", "not_triggered", "skipped", "exhausted", "placed"}
    /\ delivered \in 0..Filled
    /\ offers \in [Tries -> 0..Filled]
    /\ sold \in [Tries -> 0..Filled]
    /\ unseen \in BOOLEAN

Init ==
    /\ pc = "check"
    /\ checks = 0
    /\ try = 0
    /\ size = 0
    /\ signed = 0
    /\ outcome = "none"
    /\ delivered \in 0..Filled
    /\ offers = [a \in Tries |-> 0]
    /\ sold = [a \in Tries |-> 0]
    /\ unseen = FALSE

Total(f) == FoldFunction(+, 0, f)

-----------------------------------------------------------------------------
Return(status) == outcome' = status /\ pc' = "done"

(* One look at the best bid.  It has fallen to the trigger price, or it    *)
(* has not, there is none, or the order book cannot be read.               *)
CheckPrice ==
    /\ pc = "check"
    /\ checks' = checks + 1
    /\ \/ pc' = "submit" /\ UNCHANGED outcome
       \/ checks' < MaxChecks /\ UNCHANGED <<pc, outcome>>
       \/ checks' = MaxChecks /\ Return("not_triggered")
    /\ UNCHANGED <<try, size, signed, exchange, unseen>>

(* An order reported as filled may have a matched size of zero.            *)
BeginSubmit ==
    /\ pc = "submit"
    /\ size' = Portion
    /\ IF Portion = 0 THEN Return("skipped") /\ UNCHANGED try
                      ELSE pc' = "sign" /\ try' = 1 /\ UNCHANGED outcome
    /\ UNCHANGED <<checks, signed, exchange, unseen>>

\* A retry that is not counted.
NextTrySame == try

NextTry == try + 1

(* Every failure is retried, whatever its classification says.             *)
Again ==
    IF try < MaxRetries THEN try' = NextTry /\ pc' = "sign" /\ UNCHANGED outcome
                        ELSE Return("exhausted") /\ UNCHANGED try

(* round_down, and floor_to_sell_size_step: a whole number of steps may    *)
(* lose one, as 0.57 shares do, whose hundredfold is 56.99... in doubles.  *)
RoundDown(units) ==
    LET down == units - (units % Step) IN
    IF units = down THEN {down, down - Step} ELSE {down}

(* create_limit_order_sell asks for the fee rate and the risk flag first,  *)
(* and rounds the size down; nothing is signed for a size of zero.         *)
Sign ==
    /\ pc = "sign"
    /\ \/ /\ \E units \in RoundDown(size) : units > 0 /\ signed' = units
          /\ pc' = "post"
          /\ UNCHANGED <<try, outcome>>
       \/ Again /\ UNCHANGED signed
    /\ UNCHANGED <<checks, size, exchange, unseen>>

Balance == delivered - Total(sold)

(* The exchange counts the SELL orders that still rest against the         *)
(* balance.                                                                *)
Covered == signed <= delivered - Total(offers)

\* A post that forgets the cut.
OfferUncut == offers' = [offers EXCEPT ![try] = Portion - (Portion % Step)]

Offer == offers' = [offers EXCEPT ![try] = signed]

\* A post that goes on although the order was accepted.
AfterAcceptAgain == Again

AfterAccept == Return("placed") /\ UNCHANGED try

PostAccepted ==
    /\ pc = "post"
    /\ Covered
    /\ Offer
    /\ AfterAccept
    /\ UNCHANGED <<checks, size, signed, delivered, sold, unseen>>

\* A cut that rounds the balance up, to the next step.
CutRoundedUp(units) ==
    {IF safe <= 0 \/ safe >= units THEN units ELSE safe : safe \in RoundDown(Balance + Step)}

\* A cut that does not look at what is left.
CutUnchecked(units) == RoundDown(Balance - Step)

(* apply_balance_limited_sell_size: a step less than the balance the       *)
(* refusal names, if that is a smaller order and not an empty one.         *)
CutToBalance(units) ==
    {IF safe <= 0 \/ safe >= units THEN units ELSE safe : safe \in RoundDown(Balance - Step)}

PostUncovered ==
    /\ pc = "post"
    /\ ~Covered
    /\ size' \in CutToBalance(size)
    /\ Again
    /\ UNCHANGED <<checks, signed, exchange, unseen>>

(* Any other refusal, and a request that does not reach the exchange.      *)
PostRefused ==
    /\ pc = "post"
    /\ Again
    /\ UNCHANGED <<checks, size, signed, exchange, unseen>>

(* The order was accepted, and the answer does not say so: it is lost or   *)
(* has no order id, or it has an error message or success false, which is  *)
(* a refusal to the code whatever order id it carries (ORDER_DELAYED).     *)
PostUnseen ==
    /\ pc = "post"
    /\ Lossy
    /\ Covered
    /\ Offer
    /\ Again
    /\ unseen' = TRUE
    /\ UNCHANGED <<checks, size, signed, delivered, sold>>

-----------------------------------------------------------------------------
(* The tokens of the buy arrive, at once or in parts.                      *)
Deliver ==
    /\ \E units \in delivered + 1 .. Filled : delivered' = units
    /\ UNCHANGED <<exit, offers, sold, unseen>>

(* A resting SELL trades, in full or in part.                              *)
Trade(a) ==
    /\ \E units \in sold[a] + 1 .. offers[a] : sold' = [sold EXCEPT ![a] = units]
    /\ UNCHANGED <<exit, delivered, offers, unseen>>

Exit ==
    \/ CheckPrice \/ BeginSubmit \/ Sign
    \/ PostAccepted \/ PostUncovered \/ PostRefused \/ PostUnseen

Next == Exit \/ Deliver \/ \E a \in Tries : Trade(a)

Spec == Init /\ [][Next]_vars

(* Every request has a timeout, every wait an end.                         *)
FairSpec == Spec /\ WF_vars(Exit)

-----------------------------------------------------------------------------
Reliable == ~unseen

(* While no SELL is accepted behind an answer that does not say so no more *)
(* than the portion is ever offered, over all tries, cuts and refusals.    *)
SellsItsPortion == Reliable => Total(offers) <= Portion

(* Then what the placement reports is what the exchange has: an accepted   *)
(* SELL, smaller by a step at most than the size that is reported (0.57    *)
(* shares are sold as 0.56), or no SELL at all.                            *)
ReportIsTrue ==
    (Reliable /\ pc = "done") =>
        IF outcome = "placed" THEN /\ offers[try] <= size
                                   /\ size <= offers[try] + Step
                              ELSE Total(offers) = 0

(* A SELL that was cut to the balance is not refused for the balance       *)
(* again: one refusal is enough to find a size the wallet can deliver.     *)
OneCutIsEnough ==
    [][(Reliable /\ size < Portion /\ pc = "post") => ~PostUncovered]_vars

(* README.md: POST_FILL_SELL_PERCENT_AMOUNT is the "fraction of filled     *)
(* position to sell via post-fill SELL limit".                             *)
NoMoreThanTheFraction == Total(offers) <= Portion

(* The exit comes to an end, whatever is refused, lost or delayed.         *)
ExitReturns == <>(pc = "done")
=============================================================================
