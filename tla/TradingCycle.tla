---------------------------- MODULE TradingCycle ----------------------------
(***************************************************************************)
(* run_cycle, over the five-minute windows of the clock: wait for the      *)
(* entry checkpoint, look the market up, choose a side, enter, wait for    *)
(* the settlement checkpoint, resolve and record.  The set of windows      *)
(* already dealt with lives in memory only.                                *)
(*                                                                         *)
(* The entry is one step, with what EntryContract allows and OrderEntry    *)
(* bounds (EntryOutcome): up to ORDER_MAX_ATTEMPTS orders may trade, one   *)
(* of them is reported or none, or an error comes before anything was      *)
(* posted.  An order that trades once the entry is over is counted with    *)
(* it.  Requests may take any time.                                        *)
(***************************************************************************)
EXTENDS Integers, FiniteSets

CONSTANTS
    WindowLen,     \* ticks of a window, 300 s in the code
    Lead,          \* CHECK_BEFORE_CLOSE_SEC
    ResolveDelay,  \* RESOLVE_DELAY_SEC
    MaxRetries,    \* ENTRY_PRICE_MAX_RETRIES
    MaxOrders,     \* ORDER_MAX_ATTEMPTS
    MaxProcessed,  \* processed windows before a cleanup, 512 in the code
    KeepWindows,   \* windows a cleanup keeps, 3600 s in the code
    LastWindow,    \* bound: the last window that is traded
    MaxRestarts    \* bound: restarts during one window

ASSUME WindowAssumption ==
    /\ WindowLen \in Nat \ {0} /\ Lead \in Nat /\ ResolveDelay \in Nat
    /\ LastWindow \in Nat /\ MaxRestarts \in Nat
ASSUME BoundAssumption ==
    /\ MaxRetries \in Nat
    /\ MaxOrders \in Nat \ {0}
    /\ KeepWindows \in Nat
    /\ MaxProcessed \in Nat /\ MaxProcessed > KeepWindows + 1

Windows == 0..LastWindow

(* build_window: the window the clock is in.                               *)
WindowOf(tick) == tick \div WindowLen
CloseOf(w) == (w + 1) * WindowLen

\* A checkpoint that does not wait for the close.
SettleAtOnce(w) == w * WindowLen

SettleTime(w) == CloseOf(w) + ResolveDelay

Horizon == SettleTime(LastWindow)

(* What a side's best ask is to the price band: under it, in it, over it,  *)
(* or there is no ask.                                                     *)
Asks == {"low", "band", "high", "none"}

VARIABLES
    pc,         \* the stage of the cycle
    now,        \* the clock
    window,     \* the window of the cycle under way
    processed,  \* processed_windows
    retries,    \* retries_done of select_side_candidate
    allow,      \* allow_retry of select_side_candidate
    \* history, read by the properties only
    bought,     \* orders that traded in each window
    unseen,     \* those among them that no entry reported
    recorded,   \* trades recorded for each window
    dropped,    \* trades of a window that was never resolved
    lost,       \* trades a crash cut off from their record
    restarts    \* restarts during each window

history == <<bought, unseen, recorded, dropped, lost, restarts>>
vars    == <<pc, now, window, processed, retries, allow, history>>

TypeOK ==
    /\ pc \in {"idle", "wait", "lookup", "select", "entry", "settle"}
    /\ now \in 0..Horizon
    /\ window \in Windows
    /\ processed \subseteq Windows
    /\ retries \in 0..MaxRetries
    /\ allow \in BOOLEAN
    /\ bought \in [Windows -> Nat]
    /\ unseen \in [Windows -> Nat]
    /\ recorded \in [Windows -> Nat]
    /\ dropped \in [Windows -> Nat]
    /\ lost \in [Windows -> Nat]
    /\ restarts \in [Windows -> Nat]

Zero == [w \in Windows |-> 0]

Init ==
    /\ pc = "idle"
    /\ now = 0
    /\ window = 0
    /\ processed = {}
    /\ retries = 0
    /\ allow = FALSE
    /\ bought = Zero
    /\ unseen = Zero
    /\ recorded = Zero
    /\ dropped = Zero
    /\ lost = Zero
    /\ restarts = Zero

-----------------------------------------------------------------------------
Plus(count, w, n) == [count EXCEPT ![w] = @ + n]
Bump(count, w) == Plus(count, w, 1)

\* A cleanup that forgets nothing.
CleanedNever(w) == processed

(* cleanup_processed_windows.                                              *)
Cleaned(w) ==
    IF Cardinality(processed) < MaxProcessed
    THEN processed
    ELSE {p \in processed : p >= w - KeepWindows}

(* A window dealt with before is left alone (and so are the windows past   *)
(* the bound of the model).                                                *)
BeginCycle ==
    /\ pc = "idle"
    /\ LET w == WindowOf(now) IN
       /\ processed' = Cleaned(w)
       /\ IF w \in processed' \/ w > LastWindow
          THEN UNCHANGED <<pc, window>>
          ELSE pc' = "wait" /\ window' = w
    /\ UNCHANGED <<now, retries, allow, history>>

(* Every way out of run_cycle but one marks the window as processed.       *)
Finish == processed' = processed \union {window} /\ pc' = "idle"

ReachCheckpoint ==
    /\ pc = "wait"
    /\ now >= CloseOf(window) - Lead
    /\ IF now >= CloseOf(window) THEN Finish
                                 ELSE pc' = "lookup" /\ UNCHANGED processed
    /\ UNCHANGED <<now, window, retries, allow, history>>

(* lookup_market_until_deadline swallows errors: a market or none.         *)
LookupMarket ==
    /\ pc = "lookup"
    /\ \/ /\ pc' = "select"
          /\ retries' = 0
          /\ allow' = FALSE
          /\ UNCHANGED processed
       \/ /\ Finish
          /\ UNCHANGED <<retries, allow>>
    /\ UNCHANGED <<now, window, history>>

\* One retry too many.
RetriesLeftOrEqual == retries <= MaxRetries

RetriesLeft == retries < MaxRetries

(* select_side_candidate, one probe of both sides: UP first, then DOWN;    *)
(* whether to retry at all is decided by the first probe.                  *)
SelectSide ==
    /\ pc = "select"
    /\ \E up \in Asks, down \in Asks :
       LET mayRetry == IF retries = 0
                       THEN MaxRetries > 0 /\ {up, down} \subseteq {"low", "band"}
                       ELSE allow
       IN  \/ /\ "band" \in {up, down}
              /\ pc' = "entry"
              /\ UNCHANGED <<retries, allow, processed>>
           \/ /\ "band" \notin {up, down}
              /\ mayRetry /\ RetriesLeft
              /\ retries' = retries + 1
              /\ allow' = mayRetry
              /\ UNCHANGED <<pc, processed>>
           \/ /\ "band" \notin {up, down}
              /\ ~(mayRetry /\ RetriesLeft)
              /\ Finish
              /\ UNCHANGED <<retries, allow>>
    /\ UNCHANGED <<now, window, history>>

(* An entry reports the fill of one order; others may have traded, behind  *)
(* answers that were lost or taken for refusals (OrderEntry).              *)
EnterAndFill ==
    /\ pc = "entry"
    /\ now < CloseOf(window)
    /\ \E missed \in 0..MaxOrders - 1 :
          /\ bought' = Plus(bought, window, missed + 1)
          /\ unseen' = Plus(unseen, window, missed)
    /\ pc' = "settle"
    /\ UNCHANGED <<now, window, processed, retries, allow,
                   recorded, dropped, lost, restarts>>

(* Fills the entry does not report (a status was lost, or MATCHED came     *)
(* with a size of zero) count as none: the window is marked all the same.  *)
EnterUnseen ==
    /\ pc = "entry"
    /\ now < CloseOf(window)
    /\ \E missed \in 1..MaxOrders :
          /\ bought' = Plus(bought, window, missed)
          /\ unseen' = Plus(unseen, window, missed)
    /\ Finish
    /\ UNCHANGED <<now, window, retries, allow, recorded, dropped, lost, restarts>>

EnterInVain ==
    /\ pc = "entry"
    /\ Finish
    /\ UNCHANGED <<now, window, retries, allow, history>>

\* An error that leaves run_cycle after the order was posted.
EnterErrorAfterFill ==
    /\ pc = "entry"
    /\ now < CloseOf(window)
    /\ bought' = Bump(bought, window)
    /\ pc' = "idle"
    /\ UNCHANGED <<now, window, processed, retries, allow,
                   unseen, recorded, dropped, lost, restarts>>

(* get_clob_client fails: the error leaves run_cycle, the window unmarked. *)
EnterError ==
    /\ pc = "entry"
    /\ now < CloseOf(window)
    /\ pc' = "idle"
    /\ UNCHANGED <<now, window, processed, retries, allow, history>>

\* A checkpoint that is missed unless the clock is read in that very tick.
SettlementOnTheDot == now = SettleTime(window)

SettlementReached == now >= SettleTime(window)

(* resolve_window_outcome, then the record; a window that cannot be        *)
(* resolved is marked and its trade dropped.                               *)
Settle ==
    /\ pc = "settle"
    /\ SettlementReached
    /\ Finish
    /\ \/ recorded' = Bump(recorded, window) /\ UNCHANGED dropped
       \/ dropped' = Bump(dropped, window) /\ UNCHANGED recorded
    /\ UNCHANGED <<now, window, retries, allow, bought, unseen, lost, restarts>>

(* A crash during the entry leaves the orders it posted, which may trade;  *)
(* one after the fill leaves a trade that is never recorded.               *)
Crash ==
    /\ pc' = "idle"
    /\ processed' = {}
    /\ retries' = 0
    /\ allow' = FALSE
    /\ window' = 0
    /\ \E left \in IF pc = "entry" THEN 0..MaxOrders ELSE {0} :
          /\ bought' = Plus(bought, window, left)
          /\ unseen' = Plus(unseen, window, left)
    /\ lost' = IF pc = "settle" THEN Bump(lost, window) ELSE lost
    /\ WindowOf(now) \in Windows
    /\ restarts[WindowOf(now)] < MaxRestarts
    /\ restarts' = Bump(restarts, WindowOf(now))
    /\ UNCHANGED <<now, recorded, dropped>>

Tick ==
    /\ now < Horizon
    /\ now' = now + 1
    /\ UNCHANGED <<pc, window, processed, retries, allow, history>>

Cycle ==
    \/ BeginCycle \/ ReachCheckpoint \/ LookupMarket \/ SelectSide
    \/ EnterAndFill \/ EnterUnseen \/ EnterInVain \/ EnterError
    \/ Settle

Next == Cycle \/ Crash \/ Tick

Spec == Init /\ [][Next]_vars

FairSpec == Spec /\ WF_vars(Tick) /\ WF_vars(Settle)

-----------------------------------------------------------------------------
InSettlement(w) == pc = "settle" /\ window = w

(* A window sees one reported buy at most, plus one for each restart in    *)
(* it: the set of processed windows is not persisted.  Orders that trade   *)
(* unreported are no more than one entry may post, for each entry.         *)
OneBuyPerWindow ==
    \A w \in Windows :
        /\ bought[w] - unseen[w] <= 1 + restarts[w]
        /\ bought[w] <= MaxOrders * (1 + restarts[w])

(* Every buy ends as one recorded trade, unless no entry reported it, its  *)
(* window could not be resolved or the process died before; nothing is     *)
(* recorded twice.                                                         *)
BuysAreAccounted ==
    \A w \in Windows :
        bought[w] = recorded[w] + unseen[w] + dropped[w] + lost[w]
                    + (IF InSettlement(w) THEN 1 ELSE 0)

(* A window is recorded at most once, whatever restarts come between, and  *)
(* never before it is over: the claims of two records never share a        *)
(* market, which the ledger (Claims) takes for granted.                    *)
OneRecordPerWindow ==
    \A w \in Windows :
        recorded[w] <= 1 /\ (recorded[w] = 1 => now >= CloseOf(w))

(* The set of processed windows stays within the size that triggers its    *)
(* cleanup, however long the bot runs.                                     *)
ProcessedIsBounded == Cardinality(processed) <= MaxProcessed

(* A fill is settled, one way or the other, once its window is over.       *)
FillsAreSettled ==
    \A w \in Windows :
        InSettlement(w) ~> ~InSettlement(w)
=============================================================================
