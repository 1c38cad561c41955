-------------------------- MODULE DurabilityProofs --------------------------
(***************************************************************************)
(* With a disk that works no claim is forgotten but those whose line a     *)
(* crash in a write may have cost, and no claim is given up on an open     *)
(* market for anything but failed requests: for every number of trades,    *)
(* every limit on attempts and all other faults.                           *)
(***************************************************************************)
EXTENDS ClaimsProofs

USE DEF Trades
USE MaxTradesAssumption, AttemptsAssumption

-----------------------------------------------------------------------------
(* While the process runs, the claims that are open on disk are in the     *)
(* map; a filled trade without a line is one a crash may have cost; and so *)
(* is the next one, while the file does not end in a newline.              *)
InMap == pc # "down" => \A t \in Trades : Ledger[t].status = "Pending" => t \in pending
LinesKept == \A t \in 1..filled : Ledger[t].status = "absent" => t <= torn
GlueKept == pc # "write" /\ tail # "newline" => filled + 1 <= torn

DiskWorks == Faults \cap {"read", "write"} = {}
DurableInv == DiskWorks => InMap /\ LinesKept /\ GlueKept

(* Every step keeps them, on a disk that works.                            *)
LEMMA DurableStep ==
    ASSUME IInv, DiskWorks, InMap, LinesKept, GlueKept, [Next]_vars
    PROVE  InMap' /\ LinesKept' /\ GlueKept'
<1>0. /\ TypeOK
      /\ "write" \notin Faults /\ "read" \notin Faults
      /\ Faults \cap {"read", "write"} = {}
      /\ 1..filled \subseteq Trades /\ filled \in Nat
    <2>1. "write" \notin Faults /\ "read" \notin Faults /\ Faults \cap {"read", "write"} = {}
        BY Zenon DEF DiskWorks
    <2>2. 1..filled \subseteq Trades /\ filled \in Nat /\ TypeOK
        BY DEF IInv, TypeOK
    <2>3. QED
        BY <2>1, <2>2
<1> USE DEF InMap, LinesKept, GlueKept
<1>1. CASE \/ StartSweep \/ NextEntry \/ EndSweep
           \/ Probe \/ ProbeUnlisted \/ CheckBalance \/ Relay \/ Direct \/ Hang
           \/ Environment \/ UNCHANGED vars
    <2>1. Quiet /\ Ledger' = Ledger
        BY <1>0, <1>1, QuietSteps, QuietKeeps
    <2>2. pc = "down" => pc' = "down"
        BY <1>1 DEF StartSweep, NextEntry, EndSweep, Probe, ProbeUnlisted, CheckBalance, Relay,
                    Direct, Hang, Environment, CloseMarket, ReportPayout, SellOut,
                    LateTransaction, vars
    <2>3. QED
        BY <2>1, <2>2 DEF Quiet
<1>2. CASE Boot
    <2>1. Ledger = file /\ Ledger' = file /\ UNCHANGED <<filled, tail, torn>>
        BY <1>2 DEF Boot, Ledger, disk, history
    <2>2. pending' = {u \in Trades : file[u].status = "Pending"} /\ pc # "write"
        BY <1>0, <1>2 DEF Boot, Restorable
    <2>3. QED
        BY <2>1, <2>2
<1>3. CASE RecordTrade
    <2> DEFINE n == filled + 1
    <2>1. n \in Trades /\ filled' = n /\ pending' = pending \union {n} /\ torn' = torn
        <3>1. filled < MaxTrades
            BY <1>3 DEF RecordTrade, Fill
        <3>2. n \in Trades
            BY <1>0, <3>1
        <3>3. QED
            BY <1>3, <3>2 DEF RecordTrade, Fill, history
    <2>2. Append(n) /\ Ledger = file /\ Ledger' = file' /\ pc = "idle" /\ tail' = "newline"
        BY <1>0, <1>3 DEF RecordTrade, Fill, Append, Ledger
    <2>3. \A t \in Trades \ {n} : file'[t] \in {file[t], NoRecord}
        BY <2>1, <2>2, AppendLines
    <2>4. InMap'
        BY <2>1, <2>2, <2>3 DEF NoRecord
    <2>5. CASE tail = "newline"
        <3>1. /\ file'[n].status = "Pending"
              /\ \A t \in Trades \ {n} : file'[t] = file[t]
            BY <1>0, <2>1, <2>2, <2>5 DEF Append, Opened, TypeOK
        <3>2. \A t \in 1..n : t = n \/ t \in 1..filled
            BY <1>0
        <3>3. LinesKept'
            BY <1>0, <2>1, <2>2, <3>1, <3>2
        <3>4. QED
            BY <2>2, <2>4, <3>3
    <2>6. CASE tail # "newline"
        <3>1. \A t \in 1..n : t <= torn
            BY <1>0, <2>2, <2>6 DEF TypeOK
        <3>2. QED
            BY <2>1, <2>2, <2>4, <3>1
    <2>7. QED
        BY <2>5, <2>6
<1>4. CASE Apply
    <2>1. /\ pc = "apply" /\ Ledger = file /\ cur \in Trades
          /\ filled' = filled /\ torn' = torn
        BY <1>0, <1>4 DEF Apply, Ledger, TypeOK, history
    <2>2. \A t \in Trades : t # cur => (t \in pending' <=> t \in pending)
        BY <1>4 DEF Apply
    <2>3. CASE pc' = "write"
        <3>1. staged' = [file EXCEPT ![cur] =
                            [status |-> NextStatus, attempts |-> NextAttempts]]
            BY <1>4, <2>3 DEF Apply, Rewrite
        <3>2. /\ Ledger'[cur].status = NextStatus
              /\ \A t \in Trades \ {cur} : Ledger'[t] = file[t]
            BY <1>0, <2>1, <2>3, <3>1 DEF Ledger, TypeOK
        <3>3. NextStatus = "Pending" => cur \in pending'
            BY <1>4, <2>1 DEF Apply, IInv, SweepInMap, Working
        <3>4. InMap'
            BY <2>1, <2>2, <3>2, <3>3
        <3>5. NextStatus # "absent"
            BY <1>0, <2>1, NextValues
        <3>6. LinesKept'
            BY <1>0, <2>1, <3>2, <3>5
        <3>7. QED
            BY <2>3, <3>4, <3>6
    <2>4. CASE pc' # "write"
        <3>1. file' = file /\ tail' = tail /\ file[cur].status = "absent"
            BY <1>0, <1>4, <2>4 DEF Apply, Rewrite
        <3>2. Ledger' = file
            BY <2>4, <3>1 DEF Ledger
        <3>3. QED
            BY <2>1, <2>2, <3>1, <3>2
    <2>5. QED
        BY <2>3, <2>4
<1>5. CASE FinishWrite
    <2>1. /\ Ledger = staged /\ Ledger' = staged /\ tail' = "newline"
          /\ UNCHANGED <<pending, filled, torn>> /\ pc = "write"
        BY <1>0, <1>5 DEF FinishWrite, Ledger, history
    <2>2. QED
        BY <2>1
<1>6. CASE Crash
    <2>1. pc' = "down" /\ filled' = filled /\ Ledger' = file'
        BY <1>6 DEF Crash, Forget, Ledger
    <2>2. CASE pc = "write"
        <3>1. torn' = IF tail' = "newline" THEN filled ELSE filled + 1
            BY <1>6, <2>1, <2>2 DEF Crash, Tear
        <3>2. QED
            BY <1>0, <2>1, <3>1
    <2>3. CASE pc # "write"
        <3>1. UNCHANGED <<file, tail, torn>> /\ Ledger = file
            BY <1>6, <2>3 DEF Crash, Ledger
        <3>2. QED
            BY <2>1, <2>3, <3>1
    <2>4. QED
        BY <2>2, <2>3
<1>7. CASE DieRecording
    <2>1. pc' = "down" /\ filled' = filled + 1
        BY <1>7 DEF DieRecording, Forget, Fill
    <2>2. torn' = IF tail' = "newline" THEN filled' ELSE filled' + 1
        BY <1>7 DEF DieRecording, Tear
    <2>3. QED
        BY <1>0, <2>1, <2>2
<1>8. QED
    BY <1>1, <1>2, <1>3, <1>4, <1>5, <1>6, <1>7 DEF Next, Sweep

(* While the process runs on a working disk, every filled trade whose      *)
(* record is not final is in the map, but for those whose line a crash in  *)
(* a write may have cost.                                                  *)
THEOREM NothingEverForgotten == Spec => []NothingForgotten
<1>1. Init => DurableInv
    BY DEF Init, DurableInv, InMap, LinesKept, GlueKept
<1>2. IInv /\ DurableInv /\ [Next]_vars => DurableInv'
    BY DurableStep DEF DurableInv, DiskWorks
<1>3. IInv /\ DurableInv => NothingForgotten
    <2> SUFFICES ASSUME IInv, DurableInv, pc # "down", DiskWorks, NEW t \in 1..filled
                 PROVE  \/ t \in pending
                        \/ Ledger[t].status \in {"Success", "Failed"}
                        \/ Ledger[t].status = "absent" /\ t <= torn
        BY DEF NothingForgotten, DiskWorks
    <2>1. t \in Trades
        BY DEF IInv, TypeOK
    <2>2. Ledger[t].status \in Statuses
        BY <2>1, RecordFields DEF IInv, Ledger
    <2>3. QED
        BY <2>1, <2>2 DEF DurableInv, InMap, LinesKept, Statuses
<1>4. QED
    BY <1>1, <1>2, <1>3, Invariant, PTL DEF Spec

-----------------------------------------------------------------------------
(* What the sweep knows of a market it knows for good: a cached market is  *)
(* resolved, and so is the one being redeemed.                             *)
MarketKnown ==
    /\ \A t \in cache : market[t] # "open"
    /\ pc \in {"balance", "relay", "direct"} => market[cur] # "open"
    /\ pc = "apply" /\ result \notin {"unresolved", "error"} => market[cur] # "open"

(* While a market is open, every attempt charged for it, in memory, in the *)
(* file or staged, is a request that failed.                               *)
Enough(n, m) == n <= m \/ m = MaxAttempts

AttemptsMissed ==
    /\ \A t \in Trades : market[t] = "open" =>
          \A n \in {attempts[t], file[t].attempts, staged[t].attempts} : Enough(n, misses[t])
    /\ pc = "apply" /\ result = "error" /\ market[cur] = "open" =>
          Enough(attempts[cur] + 1, misses[cur])

PatientInv == MarketKnown /\ AttemptsMissed

(* A market that was resolved stays resolved, and while it is open its     *)
(* failed requests are only added to.                                      *)
LEMMA OpenMarkets ==
    ASSUME TypeOK, [Next]_vars, NEW t \in Trades, market'[t] = "open"
    PROVE  market[t] = "open" /\ misses'[t] \in misses[t] .. MaxAttempts
<1>0. misses[t] \in 0..MaxAttempts
    BY DEF TypeOK
<1>1. CASE Environment
    <2>1. PICK u \in Trades :
              CloseMarket(u) \/ ReportPayout(u) \/ SellOut(u) \/ LateTransaction(u)
        BY <1>1 DEF Environment
    <2>2. CASE CloseMarket(u)
        <3>1. market' = [market EXCEPT ![u] = "closed"] /\ misses' = [misses EXCEPT ![u] = 0]
            BY <2>2 DEF CloseMarket
        <3>2. t # u
            BY <3>1 DEF TypeOK
        <3>3. market'[t] = market[t] /\ misses'[t] = misses[t]
            BY <3>1, <3>2 DEF TypeOK
        <3>4. QED
            BY <1>0, <3>3
    <2>3. CASE ReportPayout(u)
        BY <1>0, <2>3 DEF ReportPayout, TypeOK, history
    <2>4. CASE SellOut(u) \/ LateTransaction(u)
        BY <1>0, <2>4 DEF SellOut, LateTransaction, history
    <2>5. QED
        BY <2>1, <2>2, <2>3, <2>4
<1>2. CASE Probe
    <2>1. market' = market /\ (misses' = misses \/ Missed(cur))
        BY <1>2 DEF Probe, chain
    <2>2. misses'[t] \in {misses[t]} \/ (misses[t] < MaxAttempts /\ misses'[t] = misses[t] + 1)
        BY <2>1 DEF Missed, TypeOK
    <2>3. QED
        BY <1>0, <2>1, <2>2
<1>3. CASE ~Environment /\ ~Probe
    <2>1. UNCHANGED <<market, misses>>
        BY <1>3 DEF Next, Sweep, Boot, RecordTrade, StartSweep, NextEntry, EndSweep,
                    ProbeUnlisted, CheckBalance, Relay, Direct, Hang, Apply, FinishWrite, Crash,
                    DieRecording, vars, chain, history
    <2>2. QED
        BY <1>0, <2>1
<1>4. QED
    BY <1>1, <1>2, <1>3

(* What was enough while the market is open stays enough.                  *)
LEMMA EnoughStays ==
    ASSUME TypeOK, [Next]_vars, NEW t \in Trades, market'[t] = "open",
           NEW n \in Nat, Enough(n, misses[t])
    PROVE  Enough(n, misses'[t])
<1>1. misses'[t] \in misses[t] .. MaxAttempts
    BY OpenMarkets
<1>2. misses[t] \in 0..MaxAttempts
    BY DEF TypeOK
<1>3. QED
    BY <1>1, <1>2 DEF Enough

(* Every step keeps what the sweep knows.                                  *)
LEMMA KnownStep ==
    ASSUME IInv, MarketKnown, [Next]_vars
    PROVE  MarketKnown'
<1>0. TypeOK
    BY DEF IInv
<1>1. \A t \in Trades : market[t] # "open" => market'[t] # "open"
    BY <1>0, OpenMarkets
<1>2. cur \in Trades /\ cache \subseteq Trades
    BY <1>0 DEF TypeOK
<1> USE DEF MarketKnown
<1>3. CASE Boot
    BY <1>1, <1>2, <1>3 DEF Boot
<1>4. CASE RecordTrade \/ StartSweep \/ NextEntry \/ EndSweep
    BY <1>1, <1>2, <1>4 DEF RecordTrade, Fill, StartSweep, NextEntry, EndSweep, memory
<1>5. CASE Probe \/ ProbeUnlisted
    BY <1>1, <1>2, <1>5 DEF Probe, ProbeUnlisted, Return, chain
<1>6. CASE CheckBalance \/ Relay \/ Direct
    <2>1. pc \in {"balance", "relay", "direct"}
        BY <1>6 DEF CheckBalance, Relay, Direct
    <2>2. cur' = cur /\ cache' = cache
        BY <1>6 DEF CheckBalance, Relay, Direct
    <2>3. QED
        BY <1>1, <1>2, <2>1, <2>2
<1>7. CASE Hang
    BY <1>1, <1>2, <1>7 DEF Hang, memory
<1>8. CASE Apply
    BY <1>1, <1>2, <1>8 DEF Apply, Rewrite
<1>9. CASE FinishWrite
    BY <1>1, <1>2, <1>9 DEF FinishWrite
<1>10. CASE Crash \/ DieRecording
    <2>1. pc' = "down" /\ cache' = {}
        BY <1>10 DEF Crash, DieRecording, Forget
    <2>2. QED
        BY <2>1
<1>11. CASE Environment
    BY <1>1, <1>2, <1>11 DEF Environment, CloseMarket, ReportPayout, SellOut,
                             LateTransaction, memory
<1>12. CASE UNCHANGED vars
    BY <1>1, <1>2, <1>12 DEF vars, memory
<1>13. QED
    BY <1>3, <1>4, <1>5, <1>6, <1>7, <1>8, <1>9, <1>10, <1>11, <1>12 DEF Next, Sweep

(* Every step keeps the count: an attempt at an open market is charged for *)
(* a failed request, which is counted before the answer is applied.        *)
LEMMA MissedStep ==
    ASSUME IInv, MarketKnown, AttemptsMissed, [Next]_vars
    PROVE  AttemptsMissed'
<1>0. TypeOK /\ TypeOK' /\ cur \in Trades
    BY NextTypeOK DEF IInv, TypeOK
<1> DEFINE Old(t) == {0, attempts[t], file[t].attempts, staged[t].attempts}
<1>1. \A t \in Trades : Old(t) \subseteq Nat
    <2>1. \A t \in Trades : attempts[t] \in Nat
        BY <1>0 DEF TypeOK
    <2>2. QED
        BY <1>0, <2>1, RecordFields
<1>2. ASSUME NEW t \in Trades, market'[t] = "open", NEW n \in Old(t)
      PROVE  Enough(n, misses'[t])
    <2>1. market[t] = "open" /\ misses[t] \in 0..MaxAttempts
        BY <1>0, <1>2, OpenMarkets DEF TypeOK
    <2>2. Enough(n, misses[t])
        BY <1>2, <2>1 DEF AttemptsMissed, Enough
    <2>3. n \in Nat
        BY <1>1
    <2>4. QED
        BY <1>0, <1>2, <2>2, <2>3, EnoughStays
<1>3. ASSUME \A t \in Trades : market'[t] = "open" =>
                /\ attempts'[t] \in Old(t)
                /\ file'[t].attempts \in Old(t)
                /\ staged'[t].attempts \in Old(t),
             ~(pc' = "apply" /\ result' = "error")
      PROVE  AttemptsMissed'
    BY <1>2, <1>3 DEF AttemptsMissed
<1> HIDE DEF Old
<1>4. CASE \/ StartSweep \/ NextEntry \/ EndSweep
           \/ Probe \/ ProbeUnlisted \/ CheckBalance \/ Relay \/ Direct \/ Hang
           \/ Environment \/ UNCHANGED vars
    <2>1. UNCHANGED <<attempts, file, staged>>
        BY <1>0, <1>4, QuietSteps DEF Quiet
    <2>2. \A t \in Trades : market'[t] = "open" =>
             \A n \in {attempts'[t], file'[t].attempts, staged'[t].attempts} :
                Enough(n, misses'[t])
        BY <1>2, <2>1 DEF Old
    <2>3. ASSUME pc' = "apply", result' = "error", market'[cur'] = "open"
          PROVE  Enough(attempts'[cur'] + 1, misses'[cur'])
        <3>1. CASE Probe
            <4>1. Missed(cur) /\ UNCHANGED <<market, cur>>
                BY <1>0, <2>3, <3>1 DEF Probe, Return, chain
            <4>2. misses[cur] \in 0..MaxAttempts /\ attempts[cur] \in Nat
                BY <1>0 DEF TypeOK
            <4>3. misses'[cur] = IF misses[cur] < MaxAttempts THEN misses[cur] + 1
                                                             ELSE misses[cur]
                BY <1>0, <2>3, <4>1 DEF Missed, TypeOK
            <4>4. Enough(attempts[cur], misses[cur])
                BY <1>0, <2>3, <4>1 DEF AttemptsMissed
            <4>5. Enough(attempts[cur] + 1, misses'[cur])
                BY <4>2, <4>3, <4>4 DEF Enough
            <4>6. QED
                BY <2>1, <4>1, <4>5
        <3>2. CASE CheckBalance \/ Relay \/ Direct
            <4>1. market[cur] # "open" /\ UNCHANGED <<market, cur>>
                BY <3>2 DEF CheckBalance, Relay, Direct, MarketKnown, chain
            <4>2. QED
                BY <2>3, <4>1
        <3>3. CASE Environment \/ UNCHANGED vars
            <4>1. UNCHANGED <<pc, result, cur>>
                BY <3>3 DEF Environment, CloseMarket, ReportPayout, SellOut, LateTransaction,
                            memory, vars
            <4>2. market[cur] = "open"
                BY <1>0, <2>3, <4>1, OpenMarkets
            <4>3. Enough(attempts[cur] + 1, misses[cur])
                BY <2>3, <4>1, <4>2 DEF AttemptsMissed
            <4>4. attempts[cur] + 1 \in Nat
                <5>1. attempts[cur] \in Nat
                    BY <1>0 DEF TypeOK
                <5>2. QED
                    BY <5>1
            <4>5. Enough(attempts[cur] + 1, misses'[cur])
                BY <1>0, <2>3, <4>1, <4>3, <4>4, EnoughStays
            <4>6. QED
                BY <2>1, <4>1, <4>5
        <3>4. CASE StartSweep \/ NextEntry \/ EndSweep \/ ProbeUnlisted \/ Hang
            BY <2>3, <3>4 DEF StartSweep, NextEntry, EndSweep, ProbeUnlisted, Return, Hang
        <3>5. QED
            BY <1>4, <3>1, <3>2, <3>3, <3>4
    <2>4. QED
        BY <2>2, <2>3 DEF AttemptsMissed
<1>5. CASE Boot
    <2>1. \A t \in Trades : attempts'[t] = IF t \in pending' THEN file[t].attempts ELSE 0
        BY <1>5 DEF Boot, RestoredAttempts
    <2>2. UNCHANGED <<file, staged>> /\ pc' # "apply"
        BY <1>5 DEF Boot, disk
    <2>3. QED
        BY <1>3, <2>1, <2>2 DEF Old
<1>6. CASE RecordTrade
    <2>1. PICK n \in Trades : /\ Append(n) \/ AppendFails(n)
                              /\ attempts' = [attempts EXCEPT ![n] = 0]
        BY <1>0, <1>6 DEF RecordTrade, Fill, TypeOK
    <2>2. \A t \in Trades : attempts'[t] \in {0, attempts[t]}
        BY <1>0, <2>1 DEF TypeOK
    <2>3. \A t \in Trades : file'[t].attempts \in {0, file[t].attempts}
        BY <2>1, AppendLines DEF NoRecord, Opened
    <2>4. staged' = staged /\ pc' # "apply"
        BY <1>6 DEF RecordTrade
    <2>5. QED
        BY <1>3, <2>2, <2>3, <2>4 DEF Old
<1>7. CASE Apply
    <2>1. /\ pc = "apply" /\ pc' \in {"write", "next"}
          /\ file' \in {file, NoFile}
          /\ staged' \in {staged, [file EXCEPT ![cur] =
                              [status |-> NextStatus, attempts |-> NextAttempts]]}
          /\ attempts' = [attempts EXCEPT ![cur] =
                              IF NextStatus = "Pending" THEN NextAttempts ELSE 0]
          /\ UNCHANGED <<market, misses>>
        BY <1>7 DEF Apply, Rewrite, chain, history
    <2>2. market[cur] = "open" => Enough(NextAttempts, misses[cur])
        BY <1>0, <2>1 DEF NextAttempts, Charged, MarketKnown, AttemptsMissed
    <2>3. \A t \in Trades : file'[t].attempts \in Old(t)
        BY <2>1 DEF Old, NoFile, NoRecord
    <2>4. \A t \in Trades \ {cur} : attempts'[t] \in Old(t) /\ staged'[t].attempts \in Old(t)
        BY <1>0, <2>1 DEF Old, TypeOK
    <2>5. /\ attempts'[cur] \in {0, NextAttempts}
          /\ staged'[cur].attempts \in {staged[cur].attempts, NextAttempts}
        BY <1>0, <2>1 DEF TypeOK
    <2>6. 0 \in Old(cur) /\ staged[cur].attempts \in Old(cur)
        BY DEF Old
    <2>7. \A t \in Trades : market'[t] = "open" =>
             \A n \in {attempts'[t], file'[t].attempts, staged'[t].attempts} :
                Enough(n, misses'[t])
        BY <1>0, <1>2, <2>1, <2>2, <2>3, <2>4, <2>5, <2>6
    <2>8. QED
        BY <2>1, <2>7 DEF AttemptsMissed
<1>8. CASE FinishWrite
    <2>1. \A t \in Trades : file'[t] \in {staged[t], NoRecord}
        BY <1>8, TornKept DEF FinishWrite, WriteIsTorn
    <2>2. attempts' = attempts /\ staged' = NoFile /\ pc' # "apply"
        BY <1>8 DEF FinishWrite
    <2>3. QED
        BY <1>3, <2>1, <2>2 DEF Old, NoFile, NoRecord
<1>9. CASE Crash \/ DieRecording
    <2>1. attempts' = [t \in Trades |-> 0] /\ staged' = NoFile /\ pc' = "down"
        BY <1>9 DEF Crash, DieRecording, Forget
    <2>2. \A t \in Trades : file'[t].attempts \in Old(t)
        <3>1. CASE Crash
            <4>1. \A t \in Trades : file'[t] \in {file[t], staged[t], NoRecord}
                BY <3>1, TornKept DEF Crash, WriteIsTorn
            <4>2. QED
                BY <4>1 DEF Old, NoRecord
        <3>2. CASE DieRecording
            <4>1. PICK n \in Trades : AppendFails(n)
                BY <1>0, <3>2 DEF DieRecording, Fill, TypeOK
            <4>2. QED
                BY <4>1, AppendLines DEF Old, NoRecord, Opened
        <3>3. QED
            BY <1>9, <3>1, <3>2
    <2>3. QED
        BY <1>3, <2>1, <2>2 DEF Old, NoFile, NoRecord
<1>10. QED
    BY <1>4, <1>5, <1>6, <1>7, <1>8, <1>9 DEF Next, Sweep

(* No claim is given up before its market is resolved but for as many      *)
(* failed requests as there are attempts, whatever else fails and however  *)
(* often the process dies.                                                 *)
THEOREM AlwaysPatient == Spec => []PatientWhileOpen
<1>1. Init => PatientInv
    BY DEF Init, PatientInv, MarketKnown, AttemptsMissed, Enough, NoFile, NoRecord
<1>2. IInv /\ PatientInv /\ [Next]_vars => PatientInv'
    BY KnownStep, MissedStep DEF PatientInv
<1>3. IInv /\ PatientInv => PatientWhileOpen
    <2> SUFFICES ASSUME IInv, PatientInv, NEW t \in Trades,
                        Ledger[t].status = "Failed", market[t] = "open"
                 PROVE  misses[t] = MaxAttempts
        BY DEF PatientWhileOpen
    <2>1. Ledger[t].attempts >= MaxAttempts /\ Ledger[t].attempts \in Nat
        BY RecordFields DEF IInv, RecordsKept, WellKept, Ledger
    <2>2. Enough(Ledger[t].attempts, misses[t])
        BY DEF PatientInv, AttemptsMissed, Ledger
    <2>3. misses[t] \in 0..MaxAttempts
        BY DEF IInv, TypeOK
    <2>4. QED
        BY <2>1, <2>2, <2>3 DEF Enough
<1>4. QED
    BY <1>1, <1>2, <1>3, Invariant, PTL DEF Spec
=============================================================================
