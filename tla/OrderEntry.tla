----------------------------- MODULE OrderEntry -----------------------------
(***************************************************************************)
(* One live entry, execute_live_entry: a loop of attempts, each of which   *)
(* reads the order book, posts a FOK order (or, with no asks, a resting    *)
(* GTC order), and polls the order's status until a deadline a few seconds *)
(* after the market closes.  The exchange is a second actor: it executes   *)
(* or kills orders on its own, and its answers may be lost.                *)
(*                                                                         *)
(* The exit order that follows a fill is in PostFillSell.                  *)
(*                                                                         *)
(* Time is in ticks; prices, bands and sizes are abstracted to what the    *)
(* loop tells apart: an order is filled not at all, in part or in full.    *)
(***************************************************************************)
EXTENDS Integers, FiniteSets

CONSTANTS
    Close,           \* close_time_sec, counted from tick 0
    Grace,           \* STATUS_POLL_GRACE_SECONDS
    RetryInterval,   \* ORDER_RETRY_INTERVAL_MS
    PollInterval,    \* STATUS_POLL_INTERVAL_MS
    MaxOrders,       \* ORDER_MAX_ATTEMPTS
    AbortCount,      \* STATUS_POLL_UNAVAILABLE_ABORT_COUNT
    FallbackEnabled, \* ENABLE_FALLBACK_GTC_LIMIT
    Horizon,         \* bound: the last tick of the model
    Faults           \* what may go wrong, a subset of FaultKinds

FaultKinds ==
    { "lost",         \* a request fails, or its answer does not arrive
      "delayed",      \* an order is accepted with an error message
      "unavailable",  \* a status request is answered without an order status
      "lag",          \* an order is reported as matched with no size yet
      "linger",       \* resting orders outlive the close of the market
      "slow" }        \* a request may take longer than a tick

ASSUME TimeAssumption ==
    /\ Close \in Nat /\ Grace \in Nat /\ Horizon \in Nat
    /\ Close <= Horizon
    /\ RetryInterval \in Nat \ {0} /\ PollInterval \in Nat \ {0}
ASSUME CountAssumption ==
    MaxOrders \in Nat \ {0} /\ AbortCount \in Nat \ {0}
ASSUME SwitchAssumption ==
    FallbackEnabled \in BOOLEAN /\ Faults \subseteq FaultKinds

Attempts == 1..MaxOrders
Fills    == {"none", "part", "all"}

VARIABLES
    pc,           \* where execute_live_entry is
    now,          \* the clock
    attempt,      \* diagnostics.attempts
    kind,         \* the order this attempt posts
    wake,         \* the end of the sleep under way
    unavailable,  \* empty_status_count + unsupported_payload_count
    answer,       \* what execute_live_entry returns
    orders,       \* the exchange: the order of each attempt
    faulted       \* history: what went wrong so far

local == <<attempt, kind, wake, unavailable, answer>>
vars  == <<pc, now, local, orders, faulted>>

Answers == [status : {"none", "Filled", "Partial", "Failed", "Skipped", "Error"},
            fill : Fills]
NoAnswer == [status |-> "none", fill |-> "none"]
NoOrder  == [state |-> "none", kind |-> "FOK", fill |-> "none"]

TypeOK ==
    /\ pc \in {"start", "top", "book", "post", "poll", "wait", "retry", "sleep", "done"}
    /\ now \in 0..Horizon
    /\ attempt \in 0..MaxOrders
    /\ kind \in {"FOK", "GTC"}
    /\ wake \in Nat
    /\ unavailable \in 0..AbortCount
    /\ answer \in Answers
    /\ orders \in [Attempts -> [state : {"none", "live", "matched", "cancelled"},
                                kind : {"FOK", "GTC"},
                                fill : Fills]]
    /\ faulted \subseteq Faults

Init ==
    /\ pc = "start"
    /\ now \in 0..Close
    /\ attempt = 0
    /\ kind = "FOK"
    /\ wake = 0
    /\ unavailable = 0
    /\ answer = NoAnswer
    /\ orders = [a \in Attempts |-> NoOrder]
    /\ faulted = {}

-----------------------------------------------------------------------------
Fault(what) == what \in Faults /\ faulted' = faulted \union {what}

ToClose == IF now < Close THEN Close - now ELSE 0

Return(status, fill) ==
    /\ answer' = [status |-> status, fill |-> fill]
    /\ pc' = "done"

Skip == Return("Skipped", "none")

(* The window may be over already; building the client may fail.           *)
Start ==
    /\ pc = "start"
    /\ \/ ToClose = 0 /\ Skip
       \/ ToClose > 0 /\ Return("Error", "none")
       \/ ToClose > 0 /\ pc' = "top" /\ UNCHANGED answer
    /\ UNCHANGED <<now, attempt, kind, wake, unavailable, orders, faulted>>

(* The head of the while loop, and the check that the close is not near.   *)
BeginAttempt ==
    /\ pc = "top"
    /\ IF now >= Close
       THEN Skip /\ UNCHANGED attempt
       ELSE /\ attempt' = attempt + 1
            /\ IF ToClose <= 1 THEN Skip ELSE pc' = "book" /\ UNCHANGED answer
    /\ UNCHANGED <<now, kind, wake, unavailable, orders, faulted>>

(* The book cannot be read; its price fails a gate; it has asks; it has    *)
(* none and the fallback is off or out of its band; it has none and the    *)
(* fallback posts a GTC order.                                             *)
ReadBook ==
    /\ pc = "book"
    /\ \/ pc' = "retry" /\ UNCHANGED <<kind, answer>>
       \/ Skip /\ UNCHANGED kind
       \/ pc' = "post" /\ kind' = "FOK" /\ UNCHANGED answer
       \/ FallbackEnabled /\ pc' = "post" /\ kind' = "GTC" /\ UNCHANGED answer
    /\ UNCHANGED <<now, attempt, wake, unavailable, orders, faulted>>

Place ==
    orders' = [orders EXCEPT ![attempt] =
                   [state |-> "live", kind |-> kind, fill |-> "none"]]

(* An order is accepted and its status polled.                             *)
PostAccepted ==
    /\ pc = "post"
    /\ Place
    /\ unavailable' = 0
    /\ pc' = "poll"
    /\ UNCHANGED <<now, attempt, kind, wake, answer, faulted>>

(* A FOK order is refused and does not exist: for good, or for a reason    *)
(* worth a retry.  The fallback does not look at the refusal, only at the  *)
(* missing order id.                                                       *)
PostRefused ==
    /\ pc = "post"
    /\ \/ kind = "FOK" /\ Return("Failed", "none")
       \/ pc' = "retry" /\ UNCHANGED answer
    /\ UNCHANGED <<now, attempt, kind, wake, unavailable, orders, faulted>>

(* A FOK answer with an error message, or success false, is a refusal to   *)
(* the code whatever order id it carries, and worth a retry unless its     *)
(* code is one of those no order survives.  ORDER_DELAYED is among the     *)
(* others, and an HTTP error that comes with JSON: the order may live.     *)
PostDelayed ==
    /\ pc = "post"
    /\ kind = "FOK"
    /\ Fault("delayed")
    /\ Place
    /\ pc' = "retry"
    /\ UNCHANGED <<now, local>>

(* The request fails or its answer has no order id: the order may exist.   *)
PostLost ==
    /\ pc = "post"
    /\ Fault("lost")
    /\ Place \/ UNCHANGED orders
    /\ pc' = "retry"
    /\ UNCHANGED <<now, local>>

\* Mistakes in the deadline of the polls.
PollUntilBeforeClose == Close - Grace
PollUntilForever == Horizon + Grace

PollUntil == Close + Grace

Sleep(ticks, at) == wake' = now + ticks /\ pc' = at

\* A mistake in reading a status.
AnswerCancelledIsNothing(order) ==
    IF order.state = "matched" THEN [status |-> "Filled", fill |-> order.fill]
                               ELSE NoAnswer

(* MATCHED and FILLED; CANCELED and REJECTED with, and without, a fill.    *)
AnswerOf(order) ==
    CASE order.state = "matched" -> [status |-> "Filled", fill |-> order.fill]
      [] order.state = "cancelled" /\ order.fill # "none" ->
            [status |-> "Partial", fill |-> order.fill]
      [] OTHER -> NoAnswer

(* poll_final_order_status while its deadline is not over: a final status  *)
(* ends the entry if there is a fill, the attempt if there is none.        *)
PollStatus ==
    /\ pc = "poll"
    /\ now <= PollUntil
    /\ LET order == orders[attempt] IN
       IF order.state = "live"
       THEN Sleep(PollInterval, "wait") /\ UNCHANGED answer
       ELSE /\ answer' = AnswerOf(order)
            /\ pc' = IF AnswerOf(order) = NoAnswer THEN "retry" ELSE "done"
            /\ UNCHANGED wake
    /\ UNCHANGED <<now, attempt, kind, unavailable, orders, faulted>>

(* A null or unsupported status payload is transient, a few times.         *)
PollUnavailable ==
    /\ pc = "poll"
    /\ now <= PollUntil
    /\ Fault("unavailable")
    /\ unavailable' = unavailable + 1
    /\ IF unavailable' >= AbortCount THEN pc' = "retry" /\ UNCHANGED wake
                                     ELSE Sleep(PollInterval, "wait")
    /\ UNCHANGED <<now, attempt, kind, answer, orders>>

(* MATCHED with size_matched still 0 is final too, and returned as it is.  *)
PollLagging ==
    /\ pc = "poll"
    /\ now <= PollUntil
    /\ Fault("lag")
    /\ orders[attempt].state = "matched"
    /\ Return("Filled", "none")
    /\ UNCHANGED <<now, attempt, kind, wake, unavailable, orders>>

(* A failed status request ends the attempt.                               *)
PollLost ==
    /\ pc = "poll"
    /\ now <= PollUntil
    /\ Fault("lost")
    /\ pc' = "retry"
    /\ UNCHANGED <<now, local, orders>>

PollTimeout ==
    /\ pc = "poll"
    /\ now > PollUntil
    /\ pc' = "retry"
    /\ UNCHANGED <<now, local, orders, faulted>>

\* A test for another attempt that looks at nothing.
RetryRegardless == TRUE

RetryLeft == attempt < MaxOrders /\ ToClose > RetryInterval

(* After an attempt without a fill: stop at the attempt limit or when the  *)
(* close is nearer than the retry interval.                                *)
RetryOrStop ==
    /\ pc = "retry"
    /\ IF RetryLeft THEN Sleep(RetryInterval, "sleep") /\ UNCHANGED answer
                    ELSE Skip /\ UNCHANGED wake
    /\ UNCHANGED <<now, attempt, kind, unavailable, orders, faulted>>

WakeUp ==
    /\ pc \in {"wait", "sleep"}
    /\ now >= wake
    /\ pc' = IF pc = "wait" THEN "poll" ELSE "top"
    /\ UNCHANGED <<now, local, orders, faulted>>

-----------------------------------------------------------------------------
(* The exchange and the clock.                                             *)

(* A live order trades: a FOK order in full, a GTC order perhaps in part.  *)
Match(a) ==
    /\ orders[a].state = "live"
    /\ now < Close
    /\ \/ orders' = [orders EXCEPT ![a].state = "matched", ![a].fill = "all"]
       \/ /\ orders[a].kind = "GTC"
          /\ orders' = [orders EXCEPT ![a].fill = "part"]
    /\ UNCHANGED <<pc, now, local, faulted>>

(* An order is cancelled: a FOK order at once, any order at the close.     *)
Cancel(a) ==
    /\ orders[a].state = "live"
    /\ orders' = [orders EXCEPT ![a].state = "cancelled"]
    /\ UNCHANGED <<pc, now, local, faulted>>

NoneLive == \A a \in Attempts : orders[a].state # "live"

(* The program is instantaneous between its sleeps, unless a request is    *)
(* slow.  At the close the exchange cancels what still rests, unless an    *)
(* order lingers.                                                          *)
Slow   == pc \notin {"wait", "sleep", "done"}
Linger == now >= Close /\ ~NoneLive

Tick ==
    /\ now < Horizon
    /\ pc \in {"wait", "sleep"} => now < wake
    /\ LET new == {what \in {"slow", "linger"} :
                      (what = "slow" /\ Slow) \/ (what = "linger" /\ Linger)} IN
       /\ new \subseteq Faults
       /\ faulted' = faulted \union new
    /\ now' = now + 1
    /\ UNCHANGED <<pc, local, orders>>

Entry ==
    \/ Start \/ BeginAttempt \/ ReadBook
    \/ PostAccepted \/ PostRefused \/ PostDelayed \/ PostLost
    \/ PollStatus \/ PollUnavailable \/ PollLagging \/ PollLost \/ PollTimeout
    \/ RetryOrStop \/ WakeUp

Exchange == \E a \in Attempts : Match(a) \/ Cancel(a)

Next == Entry \/ Exchange \/ Tick

Spec == Init /\ [][Next]_vars

(* Every request has a timeout (12 s in the CLOB client, 7 s for the book) *)
(* and the clock advances; the exchange owes nothing.                      *)
FairSpec == Spec /\ WF_vars(Entry) /\ WF_vars(Tick)

-----------------------------------------------------------------------------
Filled == {a \in Attempts : orders[a].fill # "none"}

(* The orders that spend, or may still spend, the stake.                   *)
Exposed == Filled \union {a \in Attempts : orders[a].state = "live"}

Reliable == faulted = {}

(* Orders are polled at least once in the grace period after the close.    *)
PollWithinGrace == PollInterval <= Grace

(* With a longer interval the last poll may miss what traded right before  *)
(* the close: the fill returned can then be trusted no more than one from  *)
(* an exchange that failed.                                                *)
Trusted == Reliable /\ PollWithinGrace

(* With a reliable exchange the stake is at risk once: no attempt posts an *)
(* order while an earlier one may still trade, or after one traded.        *)
OneStakeAtRisk == Reliable => Cardinality(Exposed) <= 1

(* The entry keeps the contract run_cycle books its trades by: with a      *)
(* reliable exchange the fill it returns is all that was traded, and final *)
(* (none is dropped by a retry, a deadline or a partial cancel); whatever  *)
(* is lost or late, a fill it returns happened, in that size.              *)
Contract == INSTANCE EntryContract WITH
    Orders   <- Attempts,
    traded   <- [a \in Attempts |-> orders[a].fill],
    returned <- (pc = "done"),
    reported <- answer.fill,
    trusted  <- Trusted
KeepsTheContract == Contract!Spec

(* docs/parity-matrix.md: "FOK market BUY spentUsd must follow requested   *)
(* stake amount" and "Null/non-object order status must be treated as      *)
(* transient": one entry spends its stake once.                            *)
StakeIsSpentOnce == Cardinality(Filled) <= 1

(* Unless requests are slow the buy is over one poll after its deadline,   *)
(* whatever is lost and even if its orders outlive the close: it does not  *)
(* run on into the next window.                                            *)
OverByDeadline ==
    ("slow" \notin faulted /\ now > Close + Grace + PollInterval) => pc = "done"

(* Every entry returns, whatever is lost or late.                          *)
EntryReturns == <>(pc = "done")
=============================================================================
