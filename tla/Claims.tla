------------------------------- MODULE Claims -------------------------------
(***************************************************************************)
(* The life of a claim: a filled trade is appended to trades.jsonl and     *)
(* kept in the orchestrator's pending_claims map; every pass of the main   *)
(* loop sweeps the map, asks Gamma whether the market is resolved, redeems *)
(* the outcome tokens on chain and rewrites the trade's record.  Memory    *)
(* dies with the process; the file, the wallet and transactions already    *)
(* sent do not.                                                            *)
(*                                                                         *)
(* Every await of the sweep is a step of its own, so the chain, Gamma and  *)
(* crashes interleave with it.  Trades are numbered in the order of their  *)
(* records in the file; each trade has its own window, market and          *)
(* condition id.                                                           *)
(***************************************************************************)
EXTENDS Integers

CONSTANTS
    MaxTrades,        \* bound: trades that get filled
    MaxAttempts,      \* SETTLEMENT_MAX_ATTEMPTS
    InternalAttempts, \* REDEEM_INTERNAL_MAX_ATTEMPTS
    UseRelayer,       \* SETTLEMENT_TX_MODE = RELAYER_SAFE
    AllowFallback,    \* RELAYER_ALLOW_FALLBACK_TO_DIRECT
    Funder,           \* FUNDER_ADDRESS: that of PRIVATE_KEY, of its Safe, or another
    Faults            \* what may go wrong, a subset of FaultKinds

FaultKinds ==
    { "crash",    \* the process dies
      "write",    \* trades.jsonl cannot be written, or only in part
      "read",     \* trades.jsonl cannot be read
      "gamma",    \* the Gamma request fails
      "unlisted", \* Gamma does not list a market that is over
      "rpc",      \* a Polygon RPC request fails, a transaction runs out of gas
      "hang" }    \* a Polygon RPC request is never answered

ASSUME MaxTradesAssumption == MaxTrades \in Nat \ {0}
ASSUME AttemptsAssumption == MaxAttempts \in Nat /\ InternalAttempts \in Nat
ASSUME ModeAssumption ==
    /\ UseRelayer \in BOOLEAN
    /\ AllowFallback \in BOOLEAN
    /\ Funder \in {"key", "safe", "other"}
ASSUME FaultsAssumption == Faults \subseteq FaultKinds

Trades == 1..MaxTrades

VARIABLES
    pc,        \* where the orchestrator task is
    pending,   \* the trades in pending_claims
    attempts,  \* claim_attempts of the pending trades
    entries,   \* what is left of the sweep's snapshot of pending_claims
    cur,       \* the trade the sweep is working on
    tries,     \* attempt number inside attempt_redeem_positions
    result,    \* what process_pending_claim returned for cur
    cache,     \* RESOLUTION_CACHE: markets known to be resolved
    staged,    \* the records fs::write is about to write
    file,      \* trades.jsonl: the records a reader finds in it
    tail,      \* how it ends: in a newline, a broken line, a line without newline
    filled,    \* number of trades filled so far
    wallet,    \* outcome tokens of each trade at the funder address
    market,    \* the market of each trade
    inflight,  \* trades with a redeem transaction sent and not yet mined
    torn,      \* history: the last trade whose line a crash may have cost
    misses     \* history: failed Gamma requests while the market is open

memory  == <<pending, attempts, entries, cur, tries, result, cache, staged>>
disk    == <<file, tail, filled>>
chain   == <<wallet, market, inflight>>
history == <<torn, misses>>
vars    == <<pc, memory, disk, chain, history>>

Statuses == {"absent", "Pending", "Success", "Failed"}
Record   == [status : Statuses, attempts : Nat]
NoRecord == [status |-> "absent", attempts |-> 0]
NoFile   == [t \in Trades |-> NoRecord]

TypeOK ==
    /\ pc \in {"down", "idle", "next", "probe", "balance", "relay", "direct",
               "apply", "write", "hung"}
    /\ pending \subseteq Trades
    /\ attempts \in [Trades -> Nat]
    /\ entries \subseteq Trades
    /\ cur \in Trades
    /\ tries \in Nat
    /\ result \in {"none", "completed", "unresolved", "failed", "error"}
    /\ cache \subseteq Trades
    /\ staged \in [Trades -> Record]
    /\ file \in [Trades -> Record]
    /\ tail \in {"newline", "broken", "line"}
    /\ filled \in 0..MaxTrades
    /\ wallet \in [Trades -> {"none", "held", "gone"}]
    /\ market \in [Trades -> {"open", "closed", "paid"}]
    /\ inflight \subseteq Trades
    /\ torn \in 0..MaxTrades + 1
    /\ misses \in [Trades -> 0..MaxAttempts]

Init ==
    /\ pc = "down"
    /\ pending = {}
    /\ attempts = [t \in Trades |-> 0]
    /\ entries = {}
    /\ cur = 1
    /\ tries = 0
    /\ result = "none"
    /\ cache = {}
    /\ staged = NoFile
    /\ file = NoFile
    /\ tail = "newline"
    /\ filled = 0
    /\ wallet = [t \in Trades |-> "none"]
    /\ market = [t \in Trades |-> "open"]
    /\ inflight = {}
    /\ torn = 0
    /\ misses = [t \in Trades |-> 0]

-----------------------------------------------------------------------------
(* Start, restore and the arrival of a filled trade.                       *)

\* Mistakes a change of to_pending_claim could make.
RestorableEvenFinal(t) == file[t].status # "absent"
RestorableOnlyFresh(t) == file[t].status = "Pending" /\ file[t].attempts = 0
RestoredFromZero(t) == 0
RestoredOneLess(t) == file[t].attempts - 1

(* to_pending_claim: a record is worked on again iff it is still Pending,  *)
(* and goes on counting attempts where the record stopped.                 *)
Restorable(t) == file[t].status = "Pending"
RestoredAttempts(t) == file[t].attempts

(* run_orchestrator starts with restore_pending_claims_from_history; if    *)
(* the file cannot be read, the error is logged and nothing is restored.   *)
Boot ==
    /\ pc = "down"
    /\ \/ pending' = {t \in Trades : Restorable(t)}
       \/ "read" \in Faults /\ pending' = {}
    /\ attempts' = [t \in Trades |-> IF t \in pending' THEN RestoredAttempts(t) ELSE 0]
    /\ pc' = "idle"
    /\ UNCHANGED <<entries, cur, tries, result, cache, staged, disk, chain, history>>

Opened == [status |-> "Pending", attempts |-> 0]

(* log_trade_record appends without a look at how the file ends: what it   *)
(* writes is glued to a line that has no newline, and a reader skips both. *)
Unglued ==
    IF tail = "line"
    THEN [t \in Trades |-> IF \E u \in Trades : u > t /\ file[u].status # "absent"
                           THEN file[t] ELSE NoRecord]
    ELSE file

Append(t) ==
    /\ file' = IF tail = "newline" THEN [file EXCEPT ![t] = Opened] ELSE Unglued
    /\ tail' = "newline"

(* Nothing is appended, or a part of the line, or all of it but the        *)
(* newline.                                                                *)
AppendFails(t) ==
    \/ UNCHANGED <<file, tail>>
    \/ file' = Unglued /\ tail' = "broken"
    \/ /\ tail = "newline"
       /\ file' = [file EXCEPT ![t] = Opened]
       /\ tail' = "line"

Fill(t) ==
    /\ pc = "idle"
    /\ filled < MaxTrades
    /\ filled' = t
    /\ wallet' = [wallet EXCEPT ![t] = "held"]

(* The end of run_cycle for a filled trade: append the record (an error is *)
(* only logged), insert the pending claim, sweep at once.                  *)
RecordTrade ==
    /\ LET t == filled + 1 IN
       /\ Fill(t)
       /\ Append(t) \/ ("write" \in Faults /\ AppendFails(t))
       /\ pending' = pending \union {t}
       /\ attempts' = [attempts EXCEPT ![t] = 0]
       /\ entries' = pending'
    /\ pc' = "next"
    /\ UNCHANGED <<cur, tries, result, cache, staged, market, inflight, history>>

-----------------------------------------------------------------------------
(* The sweep.                                                              *)

(* sweep_pending_claims returns at once when there is nothing to do.       *)
StartSweep ==
    /\ pc = "idle"
    /\ pending # {}
    /\ entries' = pending
    /\ pc' = "next"
    /\ UNCHANGED <<pending, attempts, cur, tries, result, cache, staged, disk, chain, history>>

(* The snapshot comes from a HashMap: its order is arbitrary.              *)
NextEntry ==
    /\ pc = "next"
    /\ \E t \in entries :
          /\ cur' = t
          /\ entries' = entries \ {t}
    /\ tries' = 1
    /\ pc' = "probe"
    /\ UNCHANGED <<pending, attempts, result, cache, staged, disk, chain, history>>

EndSweep ==
    /\ pc = "next"
    /\ entries = {}
    /\ pc' = "idle"
    /\ UNCHANGED <<memory, disk, chain, history>>

Return(r) == result' = r /\ pc' = "apply"

(* The bound on the failures counted: one more makes no difference.        *)
Missed(t) ==
    misses' = IF market[t] = "open" /\ misses[t] < MaxAttempts
              THEN [misses EXCEPT ![t] = @ + 1] ELSE misses

(* process_pending_claim up to the redeem.  Cached entries older than ten  *)
(* minutes are dropped first: any of them may be.                          *)
Probe ==
    /\ pc = "probe"
    /\ \E live \in SUBSET cache :
          \/ /\ cur \in live
             /\ cache' = live
             /\ pc' = "balance"
             /\ UNCHANGED <<result, misses>>
          \/ /\ cur \notin live
             /\ market[cur] # "open"
             /\ cache' = live \union {cur}
             /\ pc' = "balance"
             /\ UNCHANGED <<result, misses>>
          \/ /\ cur \notin live
             /\ market[cur] = "open"
             /\ cache' = live
             /\ Return("unresolved")
             /\ UNCHANGED misses
          \/ /\ cur \notin live
             /\ "gamma" \in Faults
             /\ cache' = live
             /\ Return("error")
             /\ Missed(cur)
    /\ UNCHANGED <<pending, attempts, entries, cur, tries, staged, disk, chain, torn>>

(* A market that is over is "unresolved" too when Gamma answers with 404,  *)
(* no event, or none with the condition id, and when it is not asked       *)
(* (ENABLE_GAMMA_RESOLUTION_FALLBACK is off).                              *)
ProbeUnlisted ==
    /\ pc = "probe"
    /\ "unlisted" \in Faults
    /\ market[cur] # "open"
    /\ \E live \in SUBSET cache : cur \notin live /\ cache' = live
    /\ Return("unresolved")
    /\ UNCHANGED <<pending, attempts, entries, cur, tries, staged, disk, chain, history>>

MaxTries == IF InternalAttempts = 0 THEN 1 ELSE InternalAttempts

(* classify_redeem_error sees the outermost message of the error only: a   *)
(* failed RPC request reads "failed to query YES token balance" or "failed *)
(* to submit redeem transaction" and is not retried.                       *)
Retryable(error) == error \in {"relayer", "timeout", "reverted"}

RedeemFailed(error) ==
    IF Retryable(error) /\ tries < MaxTries
    THEN /\ tries' = tries + 1
         /\ pc' = "balance"
         /\ UNCHANGED result
    ELSE Return("failed") /\ UNCHANGED tries

(* has_zero_redeemable_balance: with nothing left the claim is complete.   *)
CheckBalance ==
    /\ pc = "balance"
    /\ \/ /\ wallet[cur] = "gone"
          /\ Return("completed")
          /\ UNCHANGED tries
       \/ /\ wallet[cur] = "held"
          /\ pc' = IF UseRelayer THEN "relay" ELSE "direct"
          /\ UNCHANGED <<result, tries>>
       \/ "rpc" \in Faults /\ RedeemFailed("rpc")
    /\ UNCHANGED <<pending, attempts, entries, cur, cache, staged, disk, chain, history>>

(* What a sender redeems are the tokens of its own address, and none if    *)
(* the funder is another.  What was sent may be mined long after the code  *)
(* gave up on it.                                                          *)
Redeem(sender) ==
    wallet' = IF Funder = sender THEN [wallet EXCEPT ![cur] = "gone"] ELSE wallet
Sent(sender) == IF Funder = sender THEN inflight \union {cur} ELSE inflight
MayBeSent(sender) == inflight' \in {inflight, Sent(sender)}

(* relay_redeem_positions: the helper acts for the Safe of the key.        *)
Relay ==
    /\ pc = "relay"
    /\ \/ /\ market[cur] = "paid"
          /\ Redeem("safe")
          /\ Return("completed")
          /\ UNCHANGED <<tries, inflight>>
       \/ /\ MayBeSent("safe")
          /\ IF AllowFallback THEN pc' = "direct" /\ UNCHANGED <<tries, result>>
                              ELSE RedeemFailed("relayer")
          /\ UNCHANGED wallet
    /\ UNCHANGED <<pending, attempts, entries, cur, cache, staged, disk, market, history>>

(* redeem_direct: the key's own address sends the transaction.  It reverts *)
(* until the payout is reported.                                           *)
Direct ==
    /\ pc = "direct"
    /\ \/ /\ market[cur] = "paid"
          /\ Redeem("key")
          /\ Return("completed")
          /\ UNCHANGED <<tries, inflight>>
       \/ /\ market[cur] # "paid" \/ "rpc" \in Faults
          /\ RedeemFailed("reverted")
          /\ UNCHANGED <<wallet, inflight>>
       \/ /\ inflight' = Sent("key")
          /\ RedeemFailed("timeout")
          /\ UNCHANGED wallet
       \/ /\ "rpc" \in Faults
          /\ MayBeSent("key")
          /\ RedeemFailed("rpc")
          /\ UNCHANGED wallet
    /\ UNCHANGED <<pending, attempts, entries, cur, cache, staged, disk, market, history>>

(* The provider's HTTP client has no timeout: balanceOf, a gas estimate or *)
(* eth_sendRawTransaction that is never answered holds up the task that    *)
(* runs the sweep, and with it the main loop, until the process dies.      *)
Hang ==
    /\ "hang" \in Faults
    /\ pc \in {"balance", "direct"}
    /\ IF pc = "direct" THEN MayBeSent("key") ELSE UNCHANGED inflight
    /\ pc' = "hung"
    /\ UNCHANGED <<memory, disk, wallet, market, history>>

\* Mistakes a change of the sweep's match could make.
ChargedAlways == result # "none"
NextAttemptsNeverCounts == attempts[cur]
NextStatusFailedIsDone ==
    IF result \in {"completed", "failed"} THEN "Success" ELSE "Pending"
NextStatusOneTooMany ==
    CASE result = "completed" -> "Success"
      [] result \in {"failed", "error"} /\ attempts[cur] >= MaxAttempts -> "Failed"
      [] OTHER -> "Pending"

(* An attempt is charged for every answer but "market unresolved".         *)
Charged == result # "unresolved"

NextAttempts == IF Charged THEN attempts[cur] + 1 ELSE attempts[cur]

NextStatus ==
    CASE result = "completed" -> "Success"
      [] result # "completed" /\ Charged /\ NextAttempts >= MaxAttempts -> "Failed"
      [] OTHER -> "Pending"

(* update_trade_claim_status: a trade without a record is left alone, and  *)
(* the caller ignores every error.  The file is truncated, then written.   *)
Rewrite(t, record) ==
    \/ /\ file[t].status # "absent"
       /\ staged' = [file EXCEPT ![t] = record]
       /\ file' = NoFile
       /\ tail' = "newline"
       /\ pc' = "write"
    \/ /\ file[t].status = "absent" \/ Faults \cap {"read", "write"} # {}
       /\ pc' = "next"
       /\ UNCHANGED <<staged, file, tail>>

(* The three arms of the sweep's match: the map first, the file second.    *)
(* Nothing else touches either until the file is truncated, so it is one   *)
(* step.                                                                   *)
Apply ==
    /\ pc = "apply"
    /\ pending' = IF NextStatus = "Pending" THEN pending ELSE pending \ {cur}
    /\ attempts' = [attempts EXCEPT ![cur] = IF NextStatus = "Pending" THEN NextAttempts ELSE 0]
    /\ Rewrite(cur, [status |-> NextStatus, attempts |-> NextAttempts])
    /\ result' = "none"
    /\ UNCHANGED <<entries, cur, tries, cache, filled, chain, history>>

(* The first k lines of the file being written, ...                        *)
FirstLines(k) == [t \in Trades |-> IF t <= k THEN staged[t] ELSE NoRecord]

(* ... and what a write that is cut short leaves of it: whole lines, the   *)
(* last of which may lack its newline, and perhaps a part of one more.     *)
WriteIsTorn ==
    \E k \in 0..MaxTrades :
        /\ file' = FirstLines(k)
        /\ \/ tail' = "newline"
           \/ tail' = "line" /\ file' # NoFile
           \/ tail' = "broken" /\ file' # staged

FinishWrite ==
    /\ pc = "write"
    /\ \/ file' = staged /\ tail' = "newline"
       \/ "write" \in Faults /\ WriteIsTorn
    /\ staged' = NoFile
    /\ pc' = "next"
    /\ UNCHANGED <<pending, attempts, entries, cur, tries, result, cache, filled, chain, history>>

Forget ==
    /\ pc' = "down"
    /\ pending' = {}
    /\ attempts' = [t \in Trades |-> 0]
    /\ entries' = {}
    /\ cur' = 1
    /\ tries' = 0
    /\ result' = "none"
    /\ cache' = {}
    /\ staged' = NoFile

(* What a crash in a write may cost: any line that is there, and the next  *)
(* one if it will be glued to what is left.                                *)
Tear == torn' = IF tail' = "newline" THEN filled' ELSE filled' + 1

Crash ==
    /\ "crash" \in Faults
    /\ pc # "down"
    /\ UNCHANGED filled
    /\ IF pc = "write" THEN WriteIsTorn /\ Tear ELSE UNCHANGED <<file, tail, torn>>
    /\ Forget
    /\ UNCHANGED <<chain, misses>>

(* The process dies after a fill and before its record is in the file, or  *)
(* while it is being appended.                                             *)
DieRecording ==
    /\ "crash" \in Faults
    /\ LET t == filled + 1 IN Fill(t) /\ AppendFails(t)
    /\ Tear
    /\ Forget
    /\ UNCHANGED <<market, inflight, misses>>

-----------------------------------------------------------------------------
(* The chain and Gamma, seen through the calls the code makes.             *)

(* Gamma may list a market as closed before the payout is on chain.        *)
CloseMarket(t) ==
    /\ t <= filled
    /\ market[t] = "open"
    /\ market' = [market EXCEPT ![t] = "closed"]
    /\ misses' = [misses EXCEPT ![t] = 0]
    /\ UNCHANGED <<pc, memory, disk, wallet, inflight, torn>>

ReportPayout(t) ==
    /\ market[t] = "closed"
    /\ market' = [market EXCEPT ![t] = "paid"]
    /\ UNCHANGED <<pc, memory, disk, wallet, inflight, history>>

(* The post-fill SELL order, still resting, takes the last tokens.         *)
SellOut(t) ==
    /\ wallet[t] = "held"
    /\ market[t] = "open"
    /\ wallet' = [wallet EXCEPT ![t] = "gone"]
    /\ UNCHANGED <<pc, memory, disk, market, inflight, history>>

LateTransaction(t) ==
    /\ t \in inflight
    /\ wallet' = IF market[t] = "paid" THEN [wallet EXCEPT ![t] = "gone"] ELSE wallet
    /\ inflight' = inflight \ {t}
    /\ UNCHANGED <<pc, memory, disk, market, history>>

-----------------------------------------------------------------------------
Sweep ==
    \/ StartSweep \/ NextEntry \/ EndSweep
    \/ Probe \/ ProbeUnlisted \/ CheckBalance \/ Relay \/ Direct
    \/ Apply \/ FinishWrite

Environment ==
    \E t \in Trades :
        CloseMarket(t) \/ ReportPayout(t) \/ SellOut(t) \/ LateTransaction(t)

Next ==
    \/ Boot \/ RecordTrade \/ Sweep
    \/ Hang \/ Crash \/ DieRecording \/ Environment

Spec == Init /\ [][Next]_vars

(* The main loop sweeps on every pass, paused or not; Gamma requests, the  *)
(* wait for a receipt and the relayer helper have timeouts.  A sweep held  *)
(* up by an RPC request is in "hung", which nothing is promised to leave.  *)
(* Every five-minute market closes.                                        *)
FairSpec ==
    /\ Spec
    /\ WF_vars(Boot)
    /\ WF_vars(Sweep)
    /\ \A t \in Trades : WF_vars(CloseMarket(t))

-----------------------------------------------------------------------------
(* What is right about the ledger.                                         *)

(* The records as they stand once a rewrite in progress is complete.       *)
Ledger == IF pc = "write" THEN staged ELSE file

(* A trade recorded as claimed has no tokens left to redeem: "Success" is  *)
(* never written for a redeem that did not happen (timeouts, reverts and   *)
(* failed requests along the way included).                                *)
SettledMeansGone ==
    \A t \in Trades : Ledger[t].status = "Success" => wallet[t] = "gone"

(* The sweep never works on a trade whose record is final: a claim leaves  *)
(* the map before its record changes, and no restart brings it back.       *)
FinalIsDropped ==
    \A t \in pending : Ledger[t].status \in {"absent", "Pending"}

(* A claim is given up exactly when its attempts are used up, in memory,   *)
(* in the file, and across restarts.                                       *)
GivenUpIffExhausted ==
    /\ \A t \in Trades :
          /\ Ledger[t].status = "Failed" => Ledger[t].attempts >= MaxAttempts
          /\ Ledger[t].status = "Pending" =>
                Ledger[t].attempts = 0 \/ Ledger[t].attempts < MaxAttempts
    /\ \A t \in pending : attempts[t] = 0 \/ attempts[t] < MaxAttempts

(* The file never counts more attempts than were made: a restart may       *)
(* repeat attempts, never skip one.                                        *)
FileBehindMemory ==
    \A t \in pending : Ledger[t].attempts <= attempts[t]

(* While the file can be read and written, a running process works on      *)
(* every filled trade whose record is not final, except for those whose    *)
(* line a crash in a write may have cost: the lines written before it, and *)
(* the first one after it.                                                 *)
NothingForgotten ==
    (pc # "down" /\ Faults \cap {"read", "write"} = {}) =>
        \A t \in 1..filled :
            \/ t \in pending
            \/ Ledger[t].status \in {"Success", "Failed"}
            \/ Ledger[t].status = "absent" /\ t <= torn

(* A claim whose market is open is given up for failed Gamma requests      *)
(* only, as many as there are attempts: neither the answer that it is not  *)
(* resolved nor a restart is charged.                                      *)
PatientWhileOpen ==
    \A t \in Trades :
        Ledger[t].status = "Failed" /\ market[t] = "open" => misses[t] = MaxAttempts

(* A final record never changes again, except that a torn rewrite may lose *)
(* it: neither a late answer nor a restart reopens or relabels a trade.    *)
FinalSticks ==
    [][\A t \in Trades :
          Ledger[t].status \in {"Success", "Failed"} =>
              Ledger'[t] \in {Ledger[t], NoRecord}]_vars

(* The book a reader of the file relies on.                                *)
StatusOf == [t \in Trades |-> Ledger[t].status]
GoneOf   == {t \in Trades : wallet[t] = "gone"}
FilledOf == 1..filled

Book == INSTANCE ClaimBook WITH
            status <- StatusOf, gone <- GoneOf, filledTrades <- FilledOf

(* The whole machinery, crashes and torn writes included, keeps a claim    *)
(* book: see ClaimBook.                                                    *)
KeepsTheBook == Book!Spec

(* Once the process stops crashing and Gamma lists the markets that are    *)
(* over, every claim in the map is concluded, whatever requests fail and   *)
(* whatever the chain answers: only an RPC request that is never answered  *)
(* can keep a claim open for good.                                         *)
ClaimsConclude ==
    <>[][~Crash /\ ~DieRecording /\ ~ProbeUnlisted]_vars =>
        \A t \in Trades : (t \in pending) ~> (t \notin pending \/ pc = "hung")
=============================================================================
