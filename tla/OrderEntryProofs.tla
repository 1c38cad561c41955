-------------------------- MODULE OrderEntryProofs --------------------------
(***************************************************************************)
(* One entry, for any number of attempts, any close, intervals and faults: *)
(* it takes so many steps at most and is over one poll after its deadline, *)
(* it risks one stake while the exchange is reliable, and it implements    *)
(* EntryContract.                                                          *)
(***************************************************************************)
EXTENDS OrderEntry, FiniteSetTheorems, TLAPS

USE TimeAssumption, CountAssumption, SwitchAssumption

(* The loop never counts past its limits, and has no answer before its end.*)
Counted ==
    /\ pc \in {"start", "top", "sleep"} => attempt < MaxOrders
    /\ pc \in {"book", "post", "poll", "wait", "retry"} => attempt \in Attempts
    /\ pc \in {"poll", "wait"} => unavailable < AbortCount
    /\ pc # "done" => answer = NoAnswer

(* Orders exist up to the attempt, one that is polled does, and those      *)
(* traded in full are the matched ones.                                    *)
Placed ==
    /\ \A a \in Attempts :
          a > attempt \/ (a = attempt /\ pc \in {"book", "post"}) => orders[a] = NoOrder
    /\ \A a \in Attempts : orders[a].state = "matched" <=> orders[a].fill = "all"
    /\ pc \in {"poll", "wait"} => orders[attempt].state # "none"

(* Where the clock is, step by step, unless requests are slow.             *)
OnTime ==
    "slow" \notin faulted =>
        /\ pc \in {"start", "top"} => now <= Close
        /\ pc \in {"book", "post"} => now < Close
        /\ pc = "sleep" => now <= wake /\ wake < Close
        /\ pc = "wait" => now <= wake /\ wake <= PollUntil + PollInterval
        /\ pc \in {"poll", "retry"} => now <= PollUntil + PollInterval

EntryInv == TypeOK /\ Counted /\ Placed /\ OnTime

(* An order that did not trade and will not.                               *)
Dead(a) == orders[a].state \in {"none", "cancelled"} /\ orders[a].fill = "none"

(* The attempt's order is polled, was given up by a deadline after the     *)
(* close, or ended the entry.                                              *)
Settling == pc \in {"poll", "wait", "done"} \/ (pc = "retry" /\ now > PollUntil)

(* Nothing went wrong so far: only the order of the attempt is alive or    *)
(* has traded, no order lives on after the close or after the return, and  *)
(* the polls go on long enough to see it final if they are frequent.       *)
Safe ==
    /\ \A a \in Attempts : a # attempt \/ ~Settling => Dead(a)
    /\ \A a \in Attempts : orders[a].state = "live" => now <= Close /\ pc # "done"
    /\ pc = "wait" => wake <= Close + PollInterval
    /\ pc = "poll" => now <= Close + PollInterval
    /\ PollWithinGrace /\ pc = "retry" => now <= PollUntil

SafeInv == Reliable => Safe

(* What was returned: a fill is that of the attempt's order, which is      *)
(* final; none, by an entry that can be trusted, means none.               *)
Returned ==
    pc = "done" =>
        /\ answer.fill # "none" =>
              /\ attempt \in Attempts
              /\ orders[attempt].state \in {"matched", "cancelled"}
              /\ orders[attempt].fill = answer.fill
        /\ Trusted /\ answer.fill = "none" => \A a \in Attempts : Dead(a)

-----------------------------------------------------------------------------
(* An order in the book of an attempt is an order.                         *)
LEMMA OrderTyped ==
    ASSUME TypeOK, NEW a \in Attempts
    PROVE  /\ orders[a].state \in {"none", "live", "matched", "cancelled"}
           /\ orders[a].kind \in {"FOK", "GTC"}
           /\ orders[a].fill \in Fills
BY DEF TypeOK

(* Placing an order changes the one of the attempt.                        *)
LEMMA PlacedOrder ==
    ASSUME TypeOK, attempt \in Attempts, Place
    PROVE  /\ orders' \in [Attempts -> [state : {"none", "live", "matched", "cancelled"},
                                        kind : {"FOK", "GTC"}, fill : Fills]]
           /\ orders'[attempt] = [state |-> "live", kind |-> kind, fill |-> "none"]
           /\ \A a \in Attempts \ {attempt} : orders'[a] = orders[a]
BY DEF TypeOK, Place, Fills

(* The answer to a final order is a status with its fill.                  *)
LEMMA AnswerTyped ==
    ASSUME TypeOK, NEW a \in Attempts
    PROVE  AnswerOf(orders[a]) \in Answers
BY OrderTyped DEF AnswerOf, Answers, NoAnswer, Fills

(* Trading and cancelling change one live order, by its state or its fill. *)
LEMMA ExchangeStep ==
    ASSUME TypeOK, NEW a \in Attempts, Match(a) \/ Cancel(a)
    PROVE  /\ orders[a].state = "live"
           /\ orders' \in [Attempts -> [state : {"none", "live", "matched", "cancelled"},
                                        kind : {"FOK", "GTC"}, fill : Fills]]
           /\ \A b \in Attempts \ {a} : orders'[b] = orders[b]
           /\ \/ orders'[a].state = "matched" /\ orders'[a].fill = "all"
              \/ orders'[a].state = "live" /\ orders'[a].fill = "part"
              \/ orders'[a].state = "cancelled" /\ orders'[a].fill = orders[a].fill
           /\ UNCHANGED <<pc, now, local, faulted>>
BY OrderTyped DEF TypeOK, Match, Cancel, Fills

(* The steps of the program that leave the orders alone.                   *)
LEMMA OrdersKept ==
    ASSUME \/ Start \/ BeginAttempt \/ ReadBook \/ PostRefused
           \/ PollStatus \/ PollUnavailable \/ PollLagging \/ PollLost \/ PollTimeout
           \/ RetryOrStop \/ WakeUp
    PROVE  orders' = orders
BY DEF Start, BeginAttempt, ReadBook, PostRefused, PollStatus, PollUnavailable, PollLagging,
       PollLost, PollTimeout, RetryOrStop, WakeUp, local

-----------------------------------------------------------------------------
(* Every step keeps the types and the counts.                              *)
LEMMA TypedStep ==
    ASSUME TypeOK, Counted, [Next]_vars
    PROVE  TypeOK' /\ Counted'
<1> USE DEF TypeOK, Counted, Attempts
<1>0. NoAnswer \in Answers /\ [status |-> "Skipped", fill |-> "none"] \in Answers
      /\ [status |-> "Error", fill |-> "none"] \in Answers
      /\ [status |-> "Failed", fill |-> "none"] \in Answers
      /\ [status |-> "Filled", fill |-> "none"] \in Answers
    BY DEF NoAnswer, Answers, Fills
<1>1. CASE Start
    BY <1>0, <1>1 DEF Start, Skip, Return
<1>2. CASE BeginAttempt
    BY <1>0, <1>2 DEF BeginAttempt, Skip, Return
<1>3. CASE ReadBook
    BY <1>0, <1>3 DEF ReadBook, Skip, Return
<1>4. CASE PostAccepted
    BY <1>4, PlacedOrder DEF PostAccepted
<1>5. CASE PostRefused
    BY <1>0, <1>5 DEF PostRefused, Return
<1>6. CASE PostLost \/ PostDelayed
    BY <1>6, PlacedOrder DEF PostLost, PostDelayed, Fault, local
<1>7. CASE PollStatus
    <2>1. answer' \in Answers
        BY <1>7, AnswerTyped DEF PollStatus
    <2>2. wake' \in Nat /\ pc' \in {"wait", "retry", "done"}
        BY <1>7 DEF PollStatus, Sleep
    <2>3. QED
        BY <1>7, <2>1, <2>2 DEF PollStatus
<1>8. CASE PollUnavailable
    BY <1>8 DEF PollUnavailable, Fault, Sleep
<1>9. CASE PollLagging
    BY <1>0, <1>9 DEF PollLagging, Fault, Return
<1>10. CASE PollLost \/ PollTimeout
    BY <1>10 DEF PollLost, PollTimeout, Fault, local
<1>11. CASE RetryOrStop
    BY <1>0, <1>11 DEF RetryOrStop, RetryLeft, Sleep, Skip, Return
<1>12. CASE WakeUp
    BY <1>12 DEF WakeUp, local
<1>13. CASE Exchange
    BY <1>13, ExchangeStep DEF Exchange, local
<1>14. CASE Tick
    BY <1>14 DEF Tick, local
<1>15. CASE UNCHANGED vars
    BY <1>15 DEF vars, local
<1>16. QED
    BY <1>1, <1>2, <1>3, <1>4, <1>5, <1>6, <1>7, <1>8, <1>9, <1>10, <1>11, <1>12, <1>13,
       <1>14, <1>15 DEF Next, Entry

(* Every step keeps the orders where the loop put them.                    *)
LEMMA PlacedStep ==
    ASSUME TypeOK, Counted, Placed, TypeOK', [Next]_vars
    PROVE  Placed'
<1> USE DEF Placed, Attempts
<1>1. CASE Start \/ BeginAttempt \/ ReadBook \/ PostRefused
    <2>1. orders' = orders
        BY <1>1, OrdersKept
    <2>2. pc' \notin {"poll", "wait"}
        BY <1>1 DEF Start, BeginAttempt, ReadBook, PostRefused, Skip, Return
    <2>3. attempt' = attempt \/ (attempt' = attempt + 1 /\ pc \notin {"book", "post"})
        BY <1>1 DEF Start, BeginAttempt, ReadBook, PostRefused
    <2>4. pc' \in {"book", "post"} => attempt' = attempt + 1 \/ pc \in {"book", "post"}
        BY <1>1 DEF Start, BeginAttempt, ReadBook, PostRefused, Skip, Return
    <2>5. attempt \in Nat
        BY DEF TypeOK
    <2>6. QED
        BY <2>1, <2>2, <2>3, <2>4, <2>5
<1>2. CASE PostAccepted \/ PostLost \/ PostDelayed
    <2>1. attempt' = attempt /\ attempt \in Attempts /\ attempt \in Nat
        BY <1>2 DEF PostAccepted, PostLost, PostDelayed, Counted, TypeOK, local
    <2>2. pc' = "retry" \/ (pc' = "poll" /\ Place)
        BY <1>2 DEF PostAccepted, PostLost, PostDelayed
    <2>3. orders' = orders \/ Place
        BY <1>2 DEF PostAccepted, PostLost, PostDelayed
    <2>4. CASE orders' = orders /\ pc' = "retry"
        BY <2>1, <2>4
    <2>5. CASE Place
        BY <2>1, <2>2, <2>5, PlacedOrder
    <2>6. QED
        BY <2>2, <2>3, <2>4, <2>5
<1>3. CASE \/ PollStatus \/ PollUnavailable \/ PollLagging \/ PollLost \/ PollTimeout
           \/ RetryOrStop \/ WakeUp
    <2>1. orders' = orders
        BY <1>3, OrdersKept
    <2>2. attempt' = attempt /\ pc' \notin {"book", "post"}
        BY <1>3 DEF PollStatus, PollUnavailable, PollLagging, PollLost, PollTimeout,
                    RetryOrStop, WakeUp, Return, Skip, Sleep, local
    <2>3. pc' \in {"poll", "wait"} => pc \in {"poll", "wait"}
        BY <1>3 DEF PollStatus, PollUnavailable, PollLagging, PollLost, PollTimeout,
                    RetryOrStop, WakeUp, Return, Skip, Sleep
    <2>4. QED
        BY <2>1, <2>2, <2>3
<1>4. ASSUME NEW a \in Attempts, Match(a) \/ Cancel(a)
      PROVE  Placed'
    <2>1. attempt' = attempt /\ pc' = pc
        BY <1>4, ExchangeStep DEF local
    <2>2. \A b \in Attempts : orders'[b] = NoOrder \/ orders[b] # NoOrder
        BY <1>4, ExchangeStep DEF NoOrder
    <2>3. \A b \in Attempts : orders'[b].state = "matched" <=> orders'[b].fill = "all"
        BY <1>4, ExchangeStep
    <2>4. \A b \in Attempts : orders[b].state # "none" => orders'[b].state # "none"
        BY <1>4, ExchangeStep
    <2>5. QED
        BY <2>1, <2>2, <2>3, <2>4 DEF Counted
<1>5. CASE Tick \/ UNCHANGED vars
    BY <1>5 DEF Tick, vars, local
<1>6. QED
    BY <1>1, <1>2, <1>3, <1>4, <1>5 DEF Next, Entry, Exchange

(* Every step keeps the loop on time, unless requests are slow.            *)
LEMMA OnTimeStep ==
    ASSUME TypeOK, OnTime, TypeOK', [Next]_vars
    PROVE  OnTime'
<1> SUFFICES ASSUME "slow" \notin faulted' PROVE OnTime'
    BY DEF OnTime
<1>0. "slow" \notin faulted
    BY DEF Next, Entry, Exchange, Start, BeginAttempt, ReadBook, PostAccepted, PostRefused,
           PostDelayed, PostLost, PollStatus, PollUnavailable, PollLagging, PollLost, PollTimeout,
           RetryOrStop, WakeUp, Match, Cancel, Tick, Fault, vars
<1>1. now \in Nat /\ wake \in Nat /\ PollUntil \in Nat /\ Close <= PollUntil
    BY DEF TypeOK, PollUntil
<1> USE DEF OnTime
<1>2. CASE Start
    BY <1>0, <1>1, <1>2 DEF Start, Skip, Return
<1>3. CASE BeginAttempt
    <2>1. now' = now /\ pc' \in {"done", "book"} /\ (pc' = "book" => ~(now >= Close))
        BY <1>3 DEF BeginAttempt, Skip, Return
    <2>2. QED
        BY <1>1, <2>1
<1>4. CASE ReadBook \/ PostAccepted \/ PostRefused \/ PostDelayed \/ PostLost
    <2>1. pc \in {"book", "post"} /\ pc' \in {"post", "poll", "retry", "done"} /\ now' = now
        BY <1>4 DEF ReadBook, PostAccepted, PostRefused, PostDelayed, PostLost, Skip, Return, local
    <2>2. QED
        BY <1>0, <1>1, <2>1 DEF PollUntil
<1>5. CASE PollStatus \/ PollUnavailable \/ PollLagging \/ PollLost
    <2>1. now <= PollUntil /\ now' = now /\ pc' \in {"wait", "retry", "done"}
        BY <1>5 DEF PollStatus, PollUnavailable, PollLagging, PollLost, Sleep, Return
    <2>2. pc' = "wait" => wake' = now + PollInterval
        BY <1>5 DEF PollStatus, PollUnavailable, PollLagging, PollLost, Sleep, Return
    <2>3. QED
        BY <1>1, <2>1, <2>2 DEF PollUntil
<1>6. CASE PollTimeout
    BY <1>0, <1>6 DEF PollTimeout, local, PollUntil
<1>7. CASE RetryOrStop
    <2>1. now' = now /\ pc' \in {"sleep", "done"}
        BY <1>7 DEF RetryOrStop, Sleep, Skip, Return
    <2>2. pc' = "sleep" => wake' = now + RetryInterval /\ now + RetryInterval < Close
        <3>1. pc' = "sleep" => RetryLeft /\ wake' = now + RetryInterval
            BY <1>7 DEF RetryOrStop, Sleep, Skip, Return
        <3>2. RetryLeft => now + RetryInterval < Close
            BY <1>1 DEF RetryLeft, ToClose
        <3>3. QED
            BY <3>1, <3>2
    <2>3. QED
        BY <1>1, <2>1, <2>2
<1>8. CASE WakeUp
    <2>1. now' = now /\ pc \in {"wait", "sleep"}
          /\ pc' = IF pc = "wait" THEN "poll" ELSE "top"
        BY <1>8 DEF WakeUp
    <2>2. QED
        BY <1>0, <1>1, <2>1 DEF PollUntil
<1>9. CASE Exchange
    BY <1>0, <1>9 DEF Exchange, Match, Cancel, local, PollUntil
<1>10. CASE Tick
    <2>1. ~Slow /\ now' = now + 1 /\ pc' = pc /\ wake' = wake
        BY <1>10 DEF Tick, local
    <2>2. pc \in {"wait", "sleep", "done"} /\ (pc \in {"wait", "sleep"} => now < wake)
        BY <1>10, <2>1 DEF Tick, Slow, TypeOK
    <2>3. QED
        BY <1>0, <1>1, <2>1, <2>2 DEF PollUntil
<1>11. CASE UNCHANGED vars
    BY <1>0, <1>11 DEF vars, local, PollUntil
<1>12. QED
    BY <1>2, <1>3, <1>4, <1>5, <1>6, <1>7, <1>8, <1>9, <1>10, <1>11 DEF Next, Entry

(* The initial state satisfies the invariants.                             *)
LEMMA EntryInit == Init => EntryInv /\ SafeInv /\ Returned
<1> SUFFICES ASSUME Init PROVE EntryInv /\ SafeInv /\ Returned
    OBVIOUS
<1>1. /\ orders = [a \in Attempts |-> NoOrder]
      /\ NoOrder = [state |-> "none", kind |-> "FOK", fill |-> "none"]
      /\ now \in Nat /\ now <= Close /\ attempt = 0 /\ pc = "start" /\ faulted = {}
    BY DEF Init, NoOrder
<1>2. TypeOK
    <2>1. now \in 0..Horizon /\ 0 \in 0..MaxOrders /\ 0 \in 0..AbortCount
        BY <1>1
    <2>2. NoAnswer \in Answers /\ {} \subseteq Faults
        BY DEF NoAnswer, Answers, Fills
    <2>3. orders \in [Attempts -> [state : {"none", "live", "matched", "cancelled"},
                                   kind : {"FOK", "GTC"}, fill : Fills]]
        BY <1>1 DEF Fills
    <2>4. QED
        BY <2>1, <2>2, <2>3 DEF Init, TypeOK
<1>3. Counted /\ Placed /\ OnTime
    <2>1. Counted
        BY <1>1 DEF Init, Counted
    <2>2. Placed
        BY <1>1 DEF Placed
    <2>3. OnTime
        BY <1>1 DEF OnTime
    <2>4. QED
        BY <2>1, <2>2, <2>3
<1>4. SafeInv /\ Returned
    BY <1>1 DEF SafeInv, Safe, Dead, Returned
<1>5. QED
    BY <1>2, <1>3, <1>4 DEF EntryInv

(* Every step keeps the invariant of the loop.                             *)
LEMMA EntryStep == EntryInv /\ [Next]_vars => EntryInv'
BY TypedStep, PlacedStep, OnTimeStep DEF EntryInv

(* The loop, the answer and the orders are always of their types.          *)
THEOREM EntryTypeCorrect == Spec => []TypeOK
<1>1. EntryInv => TypeOK
    BY DEF EntryInv
<1>2. QED
    BY <1>1, EntryInit, EntryStep, PTL DEF Spec

(* The entry is over one poll after its deadline, whatever is lost.        *)
THEOREM AlwaysOverByDeadline == Spec => []OverByDeadline
<1>1. EntryInv => OverByDeadline
    <2> SUFFICES ASSUME EntryInv, "slow" \notin faulted, now > Close + Grace + PollInterval,
                        pc # "done"
                 PROVE  FALSE
        BY DEF OverByDeadline
    <2>1. now \in Nat /\ wake \in Nat
        BY DEF EntryInv, TypeOK
    <2>2. now <= Close + Grace + PollInterval
        BY <2>1 DEF EntryInv, TypeOK, OnTime, PollUntil
    <2>3. QED
        BY <2>1, <2>2
<1>2. QED
    BY <1>1, EntryInit, EntryStep, PTL DEF Spec

-----------------------------------------------------------------------------
(* While nothing goes wrong.                                               *)

(* An exchange that did not fail before a step may fail in it, not after.  *)
LEMMA ReliableBefore ==
    ASSUME [Next]_vars, Reliable'
    PROVE  /\ Reliable
           /\ ~PostDelayed /\ ~PostLost /\ ~PollUnavailable /\ ~PollLagging /\ ~PollLost
           /\ Tick => ~Slow /\ ~Linger
<1>1. faulted' = {}
    BY DEF Reliable
<1>2. ~PostDelayed /\ ~PostLost /\ ~PollUnavailable /\ ~PollLagging /\ ~PollLost
    BY <1>1 DEF PostDelayed, PostLost, PollUnavailable, PollLagging, PollLost, Fault
<1>3. Tick => ~Slow /\ ~Linger /\ faulted = {}
    <2> SUFFICES ASSUME Tick PROVE ~Slow /\ ~Linger /\ faulted = {}
        OBVIOUS
    <2> DEFINE new == {what \in {"slow", "linger"} :
                          (what = "slow" /\ Slow) \/ (what = "linger" /\ Linger)}
    <2>1. faulted' = faulted \union new
        BY DEF Tick
    <2>2. faulted = {} /\ new = {}
        BY <1>1, <2>1
    <2>3. QED
        BY <2>2
<1>4. faulted = {}
    BY <1>1, <1>2, <1>3
       DEF Next, Entry, Exchange, Start, BeginAttempt, ReadBook, PostAccepted, PostRefused,
           PollStatus, PollTimeout, RetryOrStop, WakeUp, Match, Cancel, vars
<1>5. QED
    BY <1>2, <1>3, <1>4 DEF Reliable

(* The order of an attempt is traded or dead once its status is final.     *)
LEMMA FinalStatus ==
    ASSUME TypeOK, NEW a \in Attempts, orders[a].state # "live",
           orders[a].state = "none" => orders[a].fill = "none"
    PROVE  IF AnswerOf(orders[a]) = NoAnswer THEN Dead(a)
           ELSE AnswerOf(orders[a]).fill = orders[a].fill
<1>1. orders[a].state \in {"none", "matched", "cancelled"}
    BY OrderTyped
<1>2. [status |-> "Filled", fill |-> orders[a].fill] # NoAnswer
    BY DEF NoAnswer
<1>3. [status |-> "Partial", fill |-> orders[a].fill] # NoAnswer
    BY DEF NoAnswer
<1>4. QED
    BY <1>1, <1>2, <1>3 DEF AnswerOf, Dead

(* Every step keeps the entry safe.                                        *)
LEMMA SafeStep ==
    ASSUME EntryInv, EntryInv', SafeInv, [Next]_vars
    PROVE  SafeInv'
<1> SUFFICES ASSUME Reliable' PROVE Safe'
    BY DEF SafeInv
<1>0. /\ TypeOK /\ Safe /\ Reliable
      /\ ~PostDelayed /\ ~PostLost /\ ~PollUnavailable /\ ~PollLagging /\ ~PollLost
    BY ReliableBefore DEF EntryInv, SafeInv
<1>1. now \in Nat /\ wake \in Nat /\ PollUntil = Close + Grace
    BY <1>0 DEF TypeOK, PollUntil
<1>p. PollUntil' = PollUntil /\ PollWithinGrace' = PollWithinGrace
    BY DEF PollUntil, PollWithinGrace
<1> USE DEF Safe, Dead, Settling
<1>2. CASE Start \/ BeginAttempt \/ ReadBook \/ PostRefused
    <2>1. /\ orders' = orders /\ pc \in {"start", "top", "book", "post"}
          /\ pc' \notin {"poll", "wait"} /\ now' = now
          /\ pc' = "retry" => pc \in {"book", "post"}
        BY <1>2, OrdersKept DEF Start, BeginAttempt, ReadBook, PostRefused, Skip, Return
    <2>2. \A a \in Attempts : Dead(a)
        BY <1>0, <2>1
    <2>3. pc' = "retry" => now' <= PollUntil
        BY <1>0, <1>1, <2>1 DEF EntryInv, OnTime, Reliable
    <2>4. QED
        BY <1>p, <2>1, <2>2, <2>3
<1>3. CASE PostAccepted
    <2>1. /\ attempt' = attempt /\ attempt \in Attempts /\ now' = now
          /\ Place /\ pc = "post" /\ pc' = "poll"
        BY <1>3 DEF PostAccepted, EntryInv, Counted
    <2>2. now < Close
        BY <1>0, <2>1 DEF EntryInv, OnTime, Reliable
    <2>3. \A a \in Attempts \ {attempt} : orders'[a] = orders[a]
        BY <1>0, <2>1, PlacedOrder
    <2>4. QED
        BY <1>0, <1>1, <1>p, <2>1, <2>2, <2>3
<1>4. CASE PollStatus
    <2>1. /\ attempt' = attempt /\ attempt \in Attempts /\ now' = now /\ orders' = orders
          /\ pc = "poll" /\ now <= PollUntil
        BY <1>4 DEF PollStatus, EntryInv, Counted
    <2>2. CASE orders[attempt].state = "live"
        BY <1>0, <1>1, <1>4, <2>1, <2>2 DEF PollStatus, Sleep
    <2>3. CASE orders[attempt].state # "live"
        <3>1. pc' = IF AnswerOf(orders[attempt]) = NoAnswer THEN "retry" ELSE "done"
            BY <1>4, <2>3 DEF PollStatus
        <3>2. orders[attempt].state # "none"
            BY <2>1 DEF EntryInv, Placed
        <3>3. pc' = "retry" => Dead(attempt)
            BY <1>0, <2>1, <2>3, <3>1, <3>2, FinalStatus
        <3>4. QED
            BY <1>0, <1>p, <2>1, <2>3, <3>1, <3>3
    <2>4. QED
        BY <2>2, <2>3
<1>5. CASE PollTimeout
    <2>1. /\ pc = "poll" /\ pc' = "retry" /\ now > PollUntil /\ now' = now
          /\ UNCHANGED <<attempt, wake, orders>>
        BY <1>5 DEF PollTimeout, local
    <2>2. ~PollWithinGrace
        BY <1>0, <1>1, <2>1 DEF PollWithinGrace
    <2>3. QED
        BY <1>0, <1>1, <1>p, <2>1, <2>2
<1>6. CASE RetryOrStop
    <2>1. /\ orders' = orders /\ pc = "retry" /\ pc' \in {"sleep", "done"}
          /\ now' = now /\ attempt' = attempt
        BY <1>6 DEF RetryOrStop, Sleep, Skip, Return
    <2>2. pc' = "sleep" => ~(now > PollUntil)
        <3>1. pc' = "sleep" => ToClose > RetryInterval
            BY <1>6 DEF RetryOrStop, RetryLeft, Skip, Return
        <3>2. QED
            BY <1>1, <3>1 DEF ToClose
    <2>3. \A a \in Attempts : orders[a].state = "live" => pc' # "done"
        <3>1. \A a \in Attempts : orders[a].state = "live" => now <= Close /\ Settling
            BY <1>0
        <3>2. QED
            BY <1>1, <2>1, <3>1
    <2>4. QED
        BY <1>0, <1>p, <2>1, <2>2, <2>3
<1>7. CASE WakeUp
    <2>1. /\ pc \in {"wait", "sleep"} /\ pc' = IF pc = "wait" THEN "poll" ELSE "top"
          /\ UNCHANGED <<now, wake, attempt, orders>>
        BY <1>7 DEF WakeUp, local
    <2>2. pc = "wait" => now <= wake
        BY <1>0 DEF EntryInv, OnTime, Reliable
    <2>3. QED
        BY <1>0, <1>1, <1>p, <2>1, <2>2
<1>8. ASSUME NEW a \in Attempts, Match(a) \/ Cancel(a)
      PROVE  Safe'
    <2>1. orders[a].state = "live" /\ UNCHANGED <<pc, now, wake, attempt>>
        BY <1>0, <1>8, ExchangeStep DEF local
    <2>2. a = attempt /\ Settling
        BY <1>0, <2>1
    <2>3. \A b \in Attempts \ {a} : orders'[b] = orders[b]
        BY <1>0, <1>8, ExchangeStep
    <2>4. QED
        BY <1>0, <1>p, <2>1, <2>2, <2>3
<1>9. CASE Tick
    <2>1. ~Slow /\ ~Linger /\ now' = now + 1 /\ UNCHANGED <<pc, wake, attempt, orders>>
        BY <1>9, ReliableBefore DEF Tick, local
    <2>2. \A a \in Attempts : orders[a].state = "live" => now < Close
        BY <1>1, <2>1 DEF Linger, NoneLive
    <2>3. pc # "poll" /\ pc # "retry"
        BY <2>1 DEF Slow
    <2>4. QED
        BY <1>0, <1>1, <1>p, <2>1, <2>2, <2>3
<1>10. CASE UNCHANGED vars
    BY <1>0, <1>p, <1>10 DEF vars, local
<1>11. QED
    BY <1>0, <1>2, <1>3, <1>4, <1>5, <1>6, <1>7, <1>8, <1>9, <1>10 DEF Next, Entry, Exchange

(* Both invariants hold, and keep holding.                                 *)
LEMMA BothStep == (EntryInv /\ SafeInv) /\ [Next]_vars => (EntryInv /\ SafeInv)'
BY EntryStep, SafeStep

(* With a reliable exchange the stake is at risk once.                     *)
THEOREM OneStakeAlways == Spec => []OneStakeAtRisk
<1>1. EntryInv /\ SafeInv => OneStakeAtRisk
    <2> SUFFICES ASSUME EntryInv, SafeInv, Reliable
                 PROVE  Cardinality(Exposed) <= 1
        BY DEF OneStakeAtRisk
    <2>1. Exposed \subseteq {attempt}
        BY DEF Exposed, Filled, SafeInv, Safe, Dead
    <2>2. IsFiniteSet({attempt}) /\ Cardinality({attempt}) = 1
        BY FS_Singleton
    <2>3. QED
        BY <2>1, <2>2, FS_Subset
<1>2. QED
    BY <1>1, EntryInit, BothStep, PTL DEF Spec

-----------------------------------------------------------------------------
(* The entry implements EntryContract.                                     *)

(* A step without trades and returns leaves the contract alone, or is      *)
(* where it stops being trusted.                                           *)
LEMMA ContractIdle ==
    ASSUME \A a \in Attempts : orders'[a].fill = orders[a].fill,
           (pc' = "done") <=> (pc = "done"), answer' = answer,
           [Next]_vars
    PROVE  [Contract!Next]_(Contract!vars)
<1>1. [a \in Attempts |-> orders'[a].fill] = [a \in Attempts |-> orders[a].fill]
    OBVIOUS
<1>2. Trusted' => Trusted
    BY ReliableBefore DEF Trusted, PollWithinGrace
<1>3. Trusted' \/ ~Trusted'
    OBVIOUS
<1>4. CASE ~Trusted'
    <2>1. Contract!Distrust
        BY <1>1, <1>4 DEF Contract!Distrust, Trusted
    <2>2. QED
        BY <2>1 DEF Contract!Next
<1>5. CASE Trusted'
    <2>1. UNCHANGED Contract!vars
        BY <1>1, <1>2, <1>5 DEF Contract!vars, Trusted
    <2>2. QED
        BY <2>1
<1>6. QED
    BY <1>4, <1>5

(* A step that returns reports what traded, or, no longer trusted, less.   *)
LEMMA ContractReturn ==
    ASSUME TypeOK', SafeInv, [Next]_vars,
           pc # "done", pc' = "done", orders' = orders,
           \/ answer'.fill = "none" /\ (Trusted' => \A a \in Attempts : Dead(a))
           \/ /\ attempt \in Attempts /\ answer'.fill = orders[attempt].fill
              /\ orders[attempt].fill \in {"part", "all"}
    PROVE  Contract!Return
<1> DEFINE traded == [a \in Attempts |-> orders[a].fill]
<1>1. (Trusted' => Trusted) /\ (Trusted => Reliable)
    BY ReliableBefore DEF Trusted, PollWithinGrace
<1>2. Trusted' \in {Trusted, FALSE}
    BY <1>1 DEF Trusted, Reliable
<1>3. answer'.fill \in Fills
    BY DEF TypeOK, Answers
<1>4. CASE ~Trusted'
    BY <1>3, <1>4 DEF Contract!Return, Contract!MayReport, Contract!Active, Trusted
<1>5. CASE Trusted'
    <2>1. \A a \in Attempts \ {attempt} : orders[a].fill = "none"
        BY <1>1, <1>5 DEF SafeInv, Safe, Dead
    <2>2. (answer'.fill = "none") <=> (\A a \in Attempts : orders[a].fill = "none")
        BY <1>5, <2>1 DEF Dead
    <2>3. \A a \in Attempts : orders[a].fill # "none" => orders[a].fill = answer'.fill
        BY <1>5, <2>1 DEF Dead
    <2>4. answer'.fill \in Contract!MayReport(TRUE)
        BY <1>3, <2>2, <2>3 DEF Contract!MayReport, Contract!Active, Contract!Fills, Fills
    <2>5. QED
        BY <1>1, <1>5, <2>4 DEF Contract!Return, Trusted
<1>6. QED
    BY <1>4, <1>5

(* Every step is a step of the contract.                                   *)
LEMMA ContractStep ==
    ASSUME EntryInv, EntryInv', SafeInv, [Next]_vars
    PROVE  [Contract!Next]_(Contract!vars)
<1>0. TypeOK /\ TypeOK'
    BY DEF EntryInv
<1>1. CASE Start \/ BeginAttempt \/ ReadBook \/ PostRefused
    <2>1. orders' = orders /\ pc \in {"start", "top", "book", "post"}
        BY <1>1, OrdersKept DEF Start, BeginAttempt, ReadBook, PostRefused
    <2>2. \/ pc' # "done" /\ answer' = answer
          \/ pc' = "done" /\ answer'.fill = "none"
        BY <1>1 DEF Start, BeginAttempt, ReadBook, PostRefused, Skip, Return
    <2>3. Trusted' => \A a \in Attempts : Dead(a)
        BY <2>1, ReliableBefore DEF Trusted, SafeInv, Safe, Settling
    <2>4. CASE pc' # "done" /\ answer' = answer
        BY <2>1, <2>4, ContractIdle
    <2>5. CASE pc' = "done" /\ answer'.fill = "none"
        BY <1>0, <2>1, <2>3, <2>5, ContractReturn DEF Contract!Next
    <2>6. QED
        BY <2>2, <2>4, <2>5
<1>2. CASE PostAccepted \/ PostDelayed \/ PostLost
    <2>1. pc = "post" /\ pc' \in {"poll", "retry"} /\ answer' = answer
        BY <1>2 DEF PostAccepted, PostDelayed, PostLost, local
    <2>2. attempt \in Attempts /\ orders[attempt] = NoOrder
        BY <2>1 DEF EntryInv, Counted, Placed
    <2>3. \A a \in Attempts : orders'[a].fill = orders[a].fill
        BY <1>0, <1>2, <2>2, PlacedOrder DEF PostAccepted, PostDelayed, PostLost, NoOrder
    <2>4. QED
        BY <2>1, <2>3, ContractIdle
<1>3. CASE PollStatus
    <2>1. orders' = orders /\ pc = "poll" /\ attempt \in Attempts
        BY <1>3, OrdersKept DEF PollStatus, EntryInv, Counted
    <2>2. CASE orders[attempt].state = "live"
        BY <1>3, <2>1, <2>2, ContractIdle DEF PollStatus, Sleep
    <2>3. CASE orders[attempt].state # "live"
        <3>1. /\ answer' = AnswerOf(orders[attempt])
              /\ pc' = IF AnswerOf(orders[attempt]) = NoAnswer THEN "retry" ELSE "done"
            BY <1>3, <2>3 DEF PollStatus
        <3>2. orders[attempt].state # "none"
            BY <2>1 DEF EntryInv, Placed
        <3>3. CASE AnswerOf(orders[attempt]) = NoAnswer
            <4>1. answer = NoAnswer
                BY <2>1 DEF EntryInv, Counted
            <4>2. QED
                BY <2>1, <3>1, <3>3, <4>1, ContractIdle
        <3>4. CASE AnswerOf(orders[attempt]) # NoAnswer
            <4>1. answer'.fill = orders[attempt].fill /\ pc' = "done"
                BY <1>0, <2>1, <2>3, <3>1, <3>2, <3>4, FinalStatus
            <4>2. orders[attempt].fill \in {"part", "all"}
                BY <1>0, <2>1, <2>3, <3>2, <3>4, OrderTyped
                   DEF EntryInv, Placed, AnswerOf, Fills
            <4>3. QED
                BY <1>0, <2>1, <4>1, <4>2, ContractReturn DEF Contract!Next
        <3>5. QED
            BY <3>3, <3>4
    <2>4. QED
        BY <2>2, <2>3
<1>4. CASE PollLagging
    <2>1. /\ orders' = orders /\ pc = "poll" /\ pc' = "done" /\ answer'.fill = "none"
          /\ ~Trusted'
        BY <1>4, OrdersKept, ReliableBefore DEF PollLagging, Return, Trusted
    <2>2. QED
        BY <1>0, <2>1, ContractReturn DEF Contract!Next
<1>5. CASE PollUnavailable \/ PollLost \/ PollTimeout \/ WakeUp
    <2>1. orders' = orders /\ pc # "done" /\ pc' # "done" /\ answer' = answer
        BY <1>5, OrdersKept DEF PollUnavailable, PollLost, PollTimeout, WakeUp, Sleep, local
    <2>2. QED
        BY <2>1, ContractIdle
<1>6. CASE RetryOrStop
    <2>1. orders' = orders /\ pc = "retry"
        BY <1>6, OrdersKept DEF RetryOrStop
    <2>2. \/ pc' # "done" /\ answer' = answer
          \/ pc' = "done" /\ answer'.fill = "none"
        BY <1>6 DEF RetryOrStop, Sleep, Skip, Return
    <2>3. Trusted' => \A a \in Attempts : Dead(a)
        <3>1. Trusted' => Reliable /\ PollWithinGrace
            BY ReliableBefore DEF Trusted, PollWithinGrace
        <3>2. Trusted' => ~(now > PollUntil)
            BY <1>0, <2>1, <3>1 DEF SafeInv, Safe, TypeOK, PollUntil
        <3>3. QED
            BY <2>1, <3>1, <3>2 DEF SafeInv, Safe, Settling
    <2>4. CASE pc' # "done" /\ answer' = answer
        BY <2>1, <2>4, ContractIdle
    <2>5. CASE pc' = "done" /\ answer'.fill = "none"
        BY <1>0, <2>1, <2>3, <2>5, ContractReturn DEF Contract!Next
    <2>6. QED
        BY <2>2, <2>4, <2>5
<1>7. ASSUME NEW a \in Attempts, Match(a) \/ Cancel(a)
      PROVE  [Contract!Next]_(Contract!vars)
    <2>1. /\ orders[a].state = "live" /\ UNCHANGED <<pc, now, answer, attempt, faulted>>
          /\ \A b \in Attempts \ {a} : orders'[b] = orders[b]
          /\ orders'[a].fill = orders[a].fill \/ orders'[a].fill \in {"part", "all"}
        BY <1>0, <1>7, ExchangeStep DEF local
    <2>2. CASE orders'[a].fill = orders[a].fill
        BY <2>1, <2>2, ContractIdle
    <2>3. CASE orders'[a].fill # orders[a].fill
        <3>1. PICK fill \in Contract!Fills : fill = orders'[a].fill
            BY <2>1, <2>3 DEF Contract!Fills
        <3>2. orders[a].fill # "all" /\ fill # "none"
            BY <2>1, <2>3, <3>1 DEF EntryInv, Placed
        <3>3. [b \in Attempts |-> orders'[b].fill] =
                 [[b \in Attempts |-> orders[b].fill] EXCEPT ![a] = fill]
            BY <2>1, <3>1
        <3>4. Trusted => pc # "done" /\ \A b \in Attempts \ {a} : orders[b].fill = "none"
            BY <2>1 DEF Trusted, SafeInv, Safe, Dead
        <3>5. Contract!Trade(a, fill)
            BY <2>1, <3>2, <3>3, <3>4
               DEF Contract!Trade, Contract!Active, Trusted, Reliable
        <3>6. QED
            BY <3>1, <3>5 DEF Contract!Next
    <2>4. QED
        BY <2>2, <2>3
<1>8. CASE Tick \/ UNCHANGED vars
    BY <1>8, ContractIdle DEF Tick, vars, local
<1>9. QED
    BY <1>1, <1>2, <1>3, <1>4, <1>5, <1>6, <1>7, <1>8 DEF Next, Entry, Exchange

(* Whatever is lost or late, an entry keeps the contract its caller books  *)
(* trades by: all of the fill from a reliable exchange polled in its grace *)
(* period, none made up from any other.                                    *)
THEOREM ContractAlwaysKept == Spec => KeepsTheContract
<1>1. Init => Contract!Init
    BY DEF Init, Contract!Init, NoOrder, NoAnswer, Trusted
<1>2. (EntryInv /\ SafeInv) /\ [Next]_vars => [Contract!Next]_(Contract!vars)
    BY EntryStep, ContractStep
<1>3. QED
    BY <1>1, <1>2, EntryInit, BothStep, PTL DEF Spec, KeepsTheContract, Contract!Spec

-----------------------------------------------------------------------------
(* What the entry leaves behind, as TradingCycle takes it.                 *)

(* Every step keeps what is known of the fill returned.                    *)
LEMMA ReturnedStep ==
    ASSUME EntryInv, EntryInv', SafeInv, SafeInv', Returned, [Next]_vars
    PROVE  Returned'
<1> SUFFICES ASSUME pc' = "done" PROVE Returned'
    BY DEF Returned
<1>0. /\ TypeOK /\ TypeOK' /\ (Trusted' => Trusted) /\ (Trusted => Reliable)
      /\ Trusted' => PollWithinGrace
    BY ReliableBefore DEF EntryInv, Trusted, PollWithinGrace
<1> USE DEF Returned
<1>1. CASE Start \/ BeginAttempt \/ ReadBook \/ PostRefused
    <2>1. /\ orders' = orders /\ pc \in {"start", "top", "book", "post"}
          /\ answer'.fill = "none"
        BY <1>1, OrdersKept DEF Start, BeginAttempt, ReadBook, PostRefused, Skip, Return
    <2>2. Trusted' => \A a \in Attempts : Dead(a)
        BY <1>0, <2>1 DEF SafeInv, Safe, Settling
    <2>3. QED
        BY <2>1, <2>2 DEF Dead
<1>2. CASE PostAccepted \/ PostDelayed \/ PostLost \/ PollUnavailable \/ PollLost \/ PollTimeout
           \/ WakeUp
    BY <1>2 DEF PostAccepted, PostDelayed, PostLost, PollUnavailable, PollLost, PollTimeout,
                WakeUp, Sleep
<1>3. CASE PollStatus
    <2>1. /\ orders' = orders /\ attempt' = attempt /\ attempt \in Attempts
          /\ orders[attempt].state # "live" /\ orders[attempt].state # "none"
          /\ answer' = AnswerOf(orders[attempt]) /\ AnswerOf(orders[attempt]) # NoAnswer
        BY <1>3 DEF PollStatus, Sleep, EntryInv, Counted, Placed
    <2>2. answer'.fill = orders[attempt].fill
        BY <1>0, <2>1, FinalStatus
    <2>3. orders[attempt].state \in {"matched", "cancelled"} /\ orders[attempt].fill # "none"
        BY <1>0, <2>1, OrderTyped DEF EntryInv, Placed, AnswerOf
    <2>4. QED
        BY <2>1, <2>2, <2>3
<1>4. CASE PollLagging
    BY <1>4, ReliableBefore DEF PollLagging, Return, Trusted
<1>5. CASE RetryOrStop
    <2>1. orders' = orders /\ pc = "retry" /\ answer'.fill = "none"
        BY <1>5 DEF RetryOrStop, Sleep, Skip, Return
    <2>2. Trusted' => \A a \in Attempts : Dead(a)
        <3>1. Trusted' => ~(now > PollUntil)
            BY <1>0, <2>1 DEF SafeInv, Safe, TypeOK, PollUntil
        <3>2. QED
            BY <1>0, <2>1, <3>1 DEF SafeInv, Safe, Settling
    <2>3. QED
        BY <2>1, <2>2 DEF Dead
<1>6. ASSUME NEW a \in Attempts, Match(a) \/ Cancel(a)
      PROVE  Returned'
    <2>1. /\ orders[a].state = "live" /\ UNCHANGED <<pc, attempt, answer, faulted>>
          /\ \A b \in Attempts \ {a} : orders'[b] = orders[b]
        BY <1>0, <1>6, ExchangeStep DEF local
    <2>2. ~Trusted
        BY <1>0, <2>1 DEF SafeInv, Safe
    <2>3. QED
        BY <1>0, <2>1, <2>2
<1>7. CASE Tick \/ UNCHANGED vars
    <2>1. UNCHANGED <<pc, attempt, answer, orders>>
        BY <1>7 DEF Tick, vars, local
    <2>2. QED
        BY <1>0, <2>1 DEF Dead
<1>8. QED
    BY <1>1, <1>2, <1>3, <1>4, <1>5, <1>6, <1>7 DEF Next, Entry, Exchange

(* What run_cycle is left with when the entry is over: a fill it is told   *)
(* of is one order's, among MaxOrders that may have traded at most; if the *)
(* exchange and the polls could be trusted one order traded at most, and a *)
(* fill is reported if and only if it did.                                 *)
Outcome ==
    pc = "done" =>
        /\ answer.fill # "none" => \E a \in Filled : orders[a].fill = answer.fill
        /\ Cardinality(Filled) <= MaxOrders
        /\ Trusted => /\ Cardinality(Filled) <= 1
                      /\ answer.fill # "none" <=> Filled # {}

(* The entry leaves what TradingCycle takes an entry to leave, whatever    *)
(* is lost or late.                                                        *)
THEOREM EntryOutcome == Spec => []Outcome
<1>1. (EntryInv /\ SafeInv /\ Returned) /\ [Next]_vars => (EntryInv /\ SafeInv /\ Returned)'
    BY EntryStep, SafeStep, ReturnedStep
<1>2. EntryInv /\ SafeInv /\ Returned => Outcome
    <2> SUFFICES ASSUME EntryInv, SafeInv, Returned, pc = "done" PROVE Outcome
        BY DEF Outcome
    <2>1. answer.fill # "none" => \E a \in Filled : orders[a].fill = answer.fill
        BY DEF Returned, Filled
    <2>2. Cardinality(Filled) <= MaxOrders
        <3>1. IsFiniteSet(Attempts) /\ Cardinality(Attempts) = MaxOrders
            BY FS_Interval DEF Attempts
        <3>2. QED
            BY <3>1, FS_Subset DEF Filled
    <2>3. ASSUME Trusted
          PROVE  Cardinality(Filled) <= 1 /\ (answer.fill # "none" <=> Filled # {})
        <3>1. Filled \subseteq {attempt}
            BY <2>3 DEF Trusted, Filled, SafeInv, Safe, Dead
        <3>2. Cardinality(Filled) <= 1
            <4>1. IsFiniteSet({attempt}) /\ Cardinality({attempt}) = 1
                BY FS_Singleton
            <4>2. QED
                BY <3>1, <4>1, FS_Subset
        <3>3. answer.fill = "none" => Filled = {}
            BY <2>3 DEF Returned, Filled, Dead
        <3>4. QED
            BY <2>1, <3>2, <3>3
    <2>4. QED
        BY <2>1, <2>2, <2>3 DEF Outcome
<1>3. QED
    BY <1>1, <1>2, EntryInit, PTL DEF Spec

-----------------------------------------------------------------------------
(* What is left of the entry at most, in steps of the program: those of    *)
(* the attempts to come and those of the present one, in which a poll      *)
(* takes a tick of the time that is left for polls, and two steps.         *)
Polls(at) == IF at <= PollUntil THEN 2 * (PollUntil + 1 - at) ELSE 0

PerAttempt == 2 * (PollUntil + 1) + 7

InAttempt ==
    CASE pc = "book"  -> PerAttempt
      [] pc = "post"  -> PerAttempt - 1
      [] pc = "wait"  -> 5 + Polls(wake)
      [] pc = "poll"  -> 4 + Polls(now)
      [] pc = "retry" -> 3
      [] pc \in {"start", "sleep"} -> 2
      [] pc = "top"   -> 1
      [] pc = "done"  -> 0

StepsLeft == IF pc = "done" THEN 0 ELSE (MaxOrders - attempt) * PerAttempt + InAttempt

(* Later there are fewer polls left: after a tick one and its wait.        *)
LEMMA PollsAre ==
    ASSUME NEW x \in Nat, NEW y \in Nat
    PROVE  /\ Polls(x) \in 0 .. 2 * PollUntil + 2
           /\ x <= y => Polls(y) <= Polls(x)
           /\ x <= PollUntil /\ x < y => Polls(y) + 2 <= Polls(x)
<1>1. PICK end \in Nat : end = PollUntil
    BY DEF PollUntil
<1>2. /\ Polls(x) = IF x <= end THEN 2 * (end + 1 - x) ELSE 0
      /\ Polls(y) = IF y <= end THEN 2 * (end + 1 - y) ELSE 0
    BY <1>1 DEF Polls
<1>3. QED
    BY <1>1, <1>2

(* They are numbers, as large as the settings say.                         *)
LEMMA StepsAreFew ==
    ASSUME TypeOK
    PROVE  /\ PerAttempt \in Nat
           /\ InAttempt \in 0..PerAttempt /\ (pc # "done" => InAttempt > 0)
           /\ (MaxOrders - attempt) * PerAttempt \in Nat
           /\ StepsLeft \in 0 .. (MaxOrders + 1) * PerAttempt
<1>1. /\ pc \in {"start", "top", "book", "post", "poll", "wait", "retry", "sleep", "done"}
      /\ now \in Nat /\ wake \in Nat /\ attempt \in 0..MaxOrders
    BY DEF TypeOK
<1>2. PollUntil \in Nat /\ PerAttempt \in Nat /\ PerAttempt >= 9
    BY DEF PollUntil, PerAttempt
<1>3. /\ Polls(now) \in Nat /\ Polls(now) + 7 <= PerAttempt
      /\ Polls(wake) \in Nat /\ Polls(wake) + 7 <= PerAttempt
    BY <1>1, <1>2 DEF Polls, PerAttempt
<1>4. InAttempt \in 0..PerAttempt /\ (pc # "done" => InAttempt > 0)
    BY <1>1, <1>2, <1>3 DEF InAttempt
<1>5. PICK left \in 0..MaxOrders : left = MaxOrders - attempt
    BY <1>1
<1>6. PICK size \in Nat : size = PerAttempt
    BY <1>2
<1>7. left * size \in Nat /\ left * size <= MaxOrders * size
    BY <1>5, <1>6
<1>8. MaxOrders * size \in Nat /\ (MaxOrders + 1) * size = MaxOrders * size + size
    BY <1>6
<1>9. (MaxOrders - attempt) * PerAttempt \in Nat
    BY <1>5, <1>6, <1>7
<1>10. StepsLeft \in 0 .. (MaxOrders + 1) * PerAttempt
    <2>1. CASE pc = "done"
        BY <1>6, <1>8, <2>1 DEF StepsLeft
    <2>2. CASE pc # "done"
        <3>1. StepsLeft = left * size + InAttempt
            BY <1>5, <1>6, <2>2 DEF StepsLeft
        <3>2. InAttempt \in 0..size
            BY <1>4, <1>6
        <3>3. StepsLeft \in 0 .. (MaxOrders + 1) * size
            BY <1>7, <1>8, <3>1, <3>2
        <3>4. QED
            BY <1>6, <3>3
    <2>3. QED
        BY <2>1, <2>2
<1>11. QED
    BY <1>2, <1>4, <1>9, <1>10

(* The ways the program goes on: it returns, it begins an attempt, or it   *)
(* goes on in the present one.                                             *)
LEMMA EntryGoesOn ==
    ASSUME Entry
    PROVE  \/ pc # "done" /\ pc' = "done"
           \/ pc = "top" /\ pc' = "book" /\ attempt' = attempt + 1
           \/ /\ attempt' = attempt
              /\ \/ pc = "start" /\ pc' = "top"
                 \/ pc = "book" /\ pc' \in {"post", "retry"}
                 \/ pc = "post" /\ pc' \in {"poll", "retry"}
                 \/ /\ pc = "poll" /\ pc' = "wait"
                    /\ now <= PollUntil /\ wake' = now + PollInterval
                 \/ pc = "poll" /\ pc' = "retry"
                 \/ pc = "retry" /\ pc' = "sleep"
                 \/ pc = "wait" /\ pc' = "poll" /\ now >= wake /\ now' = now
                 \/ pc = "sleep" /\ pc' = "top"
<1>1. CASE Start \/ BeginAttempt \/ ReadBook
    BY <1>1 DEF Start, BeginAttempt, ReadBook, Skip, Return
<1>2. CASE PostAccepted \/ PostRefused \/ PostDelayed \/ PostLost
    BY <1>2 DEF PostAccepted, PostRefused, PostDelayed, PostLost, Return, local
<1>3. CASE PollStatus \/ PollUnavailable
    BY <1>3 DEF PollStatus, PollUnavailable, Sleep
<1>4. CASE PollLagging \/ PollLost \/ PollTimeout
    BY <1>4 DEF PollLagging, PollLost, PollTimeout, Return, local
<1>5. CASE RetryOrStop \/ WakeUp
    BY <1>5 DEF RetryOrStop, WakeUp, Sleep, Skip, Return, local
<1>6. QED
    BY <1>1, <1>2, <1>3, <1>4, <1>5 DEF Entry

(* Each of them leaves fewer steps.                                        *)
LEMMA EntryIsLess ==
    ASSUME EntryInv, Entry, EntryInv'
    PROVE  StepsLeft' < StepsLeft
<1>1. /\ PerAttempt \in Nat /\ InAttempt \in 0..PerAttempt /\ (pc # "done" => InAttempt > 0)
      /\ (MaxOrders - attempt) * PerAttempt \in Nat
    BY StepsAreFew DEF EntryInv
<1>2. /\ now \in Nat /\ wake \in Nat /\ attempt \in 0..MaxOrders
      /\ now' \in Nat /\ wake' \in Nat
    BY DEF EntryInv, TypeOK
<1>3. PollUntil \in Nat /\ PerAttempt = 2 * PollUntil + 9
    BY DEF PollUntil, PerAttempt
<1>4. CASE pc # "done" /\ pc' = "done"
    BY <1>1, <1>4 DEF StepsLeft
<1>5. CASE pc = "top" /\ pc' = "book" /\ attempt' = attempt + 1
    <2>1. PICK size \in Nat, left \in Int : size = PerAttempt /\ left = MaxOrders - attempt
        BY <1>1, <1>2
    <2>2. StepsLeft = left * size + 1
        BY <1>5, <2>1 DEF StepsLeft, InAttempt
    <2>3. StepsLeft' = (left - 1) * size + size
        <3>1. PerAttempt' = PerAttempt
            BY DEF PerAttempt, PollUntil
        <3>2. MaxOrders - attempt' = left - 1
            BY <1>2, <1>5, <2>1
        <3>3. InAttempt' = size
            BY <1>5, <2>1, <3>1 DEF InAttempt
        <3>4. QED
            BY <1>5, <2>1, <3>1, <3>2, <3>3 DEF StepsLeft
    <2>4. (left - 1) * size + size = left * size /\ left * size \in Int
        BY <2>1
    <2>5. QED
        BY <2>2, <2>3, <2>4
<1>6. ASSUME attempt' = attempt,
             \/ pc = "start" /\ pc' = "top"
             \/ pc = "book" /\ pc' \in {"post", "retry"}
             \/ pc = "post" /\ pc' \in {"poll", "retry"}
             \/ /\ pc = "poll" /\ pc' = "wait"
                /\ now <= PollUntil /\ wake' = now + PollInterval
             \/ pc = "poll" /\ pc' = "retry"
             \/ pc = "retry" /\ pc' = "sleep"
             \/ pc = "wait" /\ pc' = "poll" /\ now >= wake /\ now' = now
             \/ pc = "sleep" /\ pc' = "top"
      PROVE  StepsLeft' < StepsLeft
    <2>1. /\ Polls(now) \in 0 .. 2 * PollUntil + 2
          /\ Polls(now') \in 0 .. 2 * PollUntil + 2
          /\ Polls(wake) \in Nat /\ Polls(wake') \in Nat
          /\ now >= wake /\ now' = now => Polls(now') <= Polls(wake)
          /\ now <= PollUntil /\ wake' = now + PollInterval => Polls(wake') + 2 <= Polls(now)
        <3>1. PICK t \in Nat, u \in Nat, v \in Nat, w \in Nat :
                 t = now /\ u = now' /\ v = wake /\ w = wake'
            BY <1>2
        <3>2. /\ Polls(t) \in 0 .. 2 * PollUntil + 2 /\ Polls(u) \in 0 .. 2 * PollUntil + 2
              /\ Polls(v) \in Nat /\ Polls(w) \in Nat
            BY <1>3, PollsAre
        <3>3. t >= v /\ u = t => Polls(u) <= Polls(v)
            BY PollsAre
        <3>4. t <= PollUntil /\ w = t + PollInterval => Polls(w) + 2 <= Polls(t)
            BY PollsAre
        <3>5. QED
            BY <3>1, <3>2, <3>3, <3>4
    <2>2. /\ PerAttempt' = PerAttempt /\ (5 + Polls(wake))' = 5 + Polls(wake')
          /\ (4 + Polls(now))' = 4 + Polls(now')
        BY DEF PerAttempt, PollUntil, Polls
    <2>3. InAttempt' \in Int /\ InAttempt' < InAttempt
        BY <1>3, <1>6, <2>1, <2>2 DEF InAttempt
    <2>4. pc # "done" /\ pc' # "done"
        BY <1>6
    <2>5. PICK rest \in Nat : rest = (MaxOrders - attempt) * PerAttempt
        BY <1>1
    <2>6. StepsLeft = rest + InAttempt /\ StepsLeft' = rest + InAttempt'
        BY <1>6, <2>2, <2>4, <2>5 DEF StepsLeft
    <2>7. QED
        BY <1>1, <2>3, <2>5, <2>6
<1>7. QED
    BY <1>4, <1>5, <1>6, EntryGoesOn

(* Whatever is lost or late, and however slow the requests are, an entry   *)
(* takes as many steps at most: each of them leaves fewer, and neither the *)
(* exchange nor the clock adds one.  So it cannot go on for ever, for any  *)
(* settings.                                                               *)
THEOREM EntryIsFinite ==
    Spec => /\ [](StepsLeft \in 0 .. (MaxOrders + 1) * PerAttempt)
            /\ [][StepsLeft' <= StepsLeft /\ (Entry => StepsLeft' < StepsLeft)]_vars
<1>1. EntryInv => StepsLeft \in 0 .. (MaxOrders + 1) * PerAttempt
    BY StepsAreFew DEF EntryInv
<1>2. /\ EntryInv /\ EntryInv' /\ [Next]_vars
      /\ (StepsLeft \in 0 .. (MaxOrders + 1) * PerAttempt)'
      => [StepsLeft' <= StepsLeft /\ (Entry => StepsLeft' < StepsLeft)]_vars
    <2> SUFFICES ASSUME EntryInv, EntryInv', Next, StepsLeft' \in Int
                 PROVE  StepsLeft' <= StepsLeft /\ (Entry => StepsLeft' < StepsLeft)
        OBVIOUS
    <2>1. /\ StepsLeft \in Int /\ InAttempt \in Int /\ PerAttempt \in Nat
          /\ (MaxOrders - attempt) * PerAttempt \in Nat
        BY StepsAreFew DEF EntryInv
    <2>2. CASE Entry
        BY <2>1, <2>2, EntryIsLess
    <2>3. CASE Exchange \/ Tick
        <3>1. UNCHANGED <<pc, attempt, wake>> /\ (now' = now \/ now' = now + 1)
            BY <2>3 DEF Exchange, Match, Cancel, Tick, local
        <3>2. now \in Nat /\ wake \in Nat
            BY DEF EntryInv, TypeOK
        <3>3. PICK size \in Nat, before \in Nat, after \in Nat, sleeping \in Nat :
                 /\ size = PerAttempt /\ sleeping = Polls(wake)
                 /\ before = Polls(now) /\ after = Polls(now') /\ after <= before
            <4>1. PICK t \in Nat, u \in Nat : t = now /\ u = now' /\ t <= u
                BY <3>1, <3>2
            <4>2. Polls(u) <= Polls(t) /\ Polls(u) \in Nat /\ Polls(t) \in Nat
                BY <4>1, PollsAre DEF PollUntil
            <4>3. Polls(wake) \in Nat
                BY <3>2, PollsAre DEF PollUntil
            <4>4. QED
                BY <2>1, <4>1, <4>2, <4>3
        <3>4. /\ Polls(now)' = after /\ Polls(wake)' = sleeping /\ PerAttempt' = size
              /\ pc' = pc
            BY <3>1, <3>3 DEF Polls, PollUntil, PerAttempt
        <3>5. InAttempt' \in Int /\ InAttempt' <= InAttempt
            <4>1. pc \in {"start", "top", "book", "post", "poll", "wait", "retry", "sleep", "done"}
                BY DEF EntryInv, TypeOK
            <4>2. QED
                BY <3>3, <3>4, <4>1 DEF InAttempt
        <3>6. PICK rest \in Nat : rest = (MaxOrders - attempt) * PerAttempt
            BY <2>1
        <3>7. /\ StepsLeft = IF pc = "done" THEN 0 ELSE rest + InAttempt
              /\ StepsLeft' = IF pc = "done" THEN 0 ELSE rest + InAttempt'
            BY <3>1, <3>6 DEF StepsLeft, PerAttempt, PollUntil
        <3>8. StepsLeft' <= StepsLeft
            BY <2>1, <3>5, <3>6, <3>7
        <3>9. Entry => StepsLeft' < StepsLeft
            BY EntryIsLess
        <3>10. QED
            BY <3>8, <3>9
    <2>4. QED
        BY <2>2, <2>3 DEF Next
<1>3. QED
    BY <1>1, <1>2, EntryInit, EntryStep, PTL DEF Spec
=============================================================================
