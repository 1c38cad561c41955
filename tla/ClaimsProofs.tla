---------------------------- MODULE ClaimsProofs ----------------------------
(***************************************************************************)
(* The ledger properties of Claims for every number of trades, every limit *)
(* on attempts, every settlement mode and every set of faults.             *)
(*                                                                         *)
(* The inductive invariant IInv adds to the properties what they rest on:  *)
(* what is staged for a rewrite obeys the same rules as the file, a trade  *)
(* not yet filled has left no trace anywhere, and the sweep works on a     *)
(* trade of the map.                                                       *)
(***************************************************************************)
EXTENDS Claims, TLAPS

USE DEF Trades

Working == {"probe", "balance", "relay", "direct", "apply"}

(* A record, in the file or staged, is one the sweep may have written.     *)
WellKept(r) ==
    /\ r.status = "absent" => r.attempts = 0
    /\ r.status = "Failed" => r.attempts >= MaxAttempts
    /\ r.status = "Pending" => r.attempts = 0 \/ r.attempts < MaxAttempts

RecordsKept == \A t \in Trades : WellKept(file[t]) /\ WellKept(staged[t])

AttemptsKept == \A t \in Trades : attempts[t] = 0 \/ attempts[t] < MaxAttempts

Untouched ==
    \A t \in Trades : t > filled =>
        file[t].status = "absent" /\ staged[t].status = "absent"

SweepInMap ==
    /\ entries \subseteq pending
    /\ pc = "down" => entries = {}
    /\ pc \in Working => cur \in pending /\ cur \notin entries

OpenInMap == \A t \in pending : Ledger[t].status \in {"absent", "Pending"}

MemoryAhead == \A t \in pending : Ledger[t].attempts <= attempts[t]

IInv ==
    /\ TypeOK
    /\ RecordsKept
    /\ AttemptsKept
    /\ Untouched
    /\ SweepInMap
    /\ OpenInMap
    /\ MemoryAhead

-----------------------------------------------------------------------------
USE MaxTradesAssumption, AttemptsAssumption, ModeAssumption, FaultsAssumption

(* The next status and number of attempts are a status and a number.       *)
LEMMA NextValues ==
    ASSUME TypeOK, pc = "apply"
    PROVE  /\ NextAttempts \in Nat
           /\ NextAttempts >= attempts[cur]
           /\ NextStatus \in {"Pending", "Success", "Failed"}
           /\ NextStatus = "Failed" => NextAttempts >= MaxAttempts
           /\ NextStatus = "Pending" =>
                NextAttempts = attempts[cur] \/ NextAttempts < MaxAttempts
BY DEF TypeOK, NextAttempts, NextStatus, Charged

(* The initial state is well typed.                                        *)
LEMMA InitTypeOK == Init => TypeOK
BY DEF Init, TypeOK, NoFile, NoRecord, Record, Statuses

(* What a rewrite may leave in the file is made of records.                *)
LEMMA FilesTyped ==
    ASSUME TypeOK
    PROVE  /\ NoFile \in [Trades -> Record]
           /\ \A k : FirstLines(k) \in [Trades -> Record]
           /\ Unglued \in [Trades -> Record]
           /\ Opened \in Record
<1>1. NoRecord \in Record /\ Opened \in Record
    BY DEF NoRecord, Opened, Record, Statuses
<1>2. QED
    BY <1>1 DEF TypeOK, NoFile, FirstLines, Unglued

(* So are an append and a torn write, and the way the file ends.           *)
LEMMA AppendTyped ==
    ASSUME TypeOK, NEW t \in Trades, Append(t) \/ AppendFails(t)
    PROVE  file' \in [Trades -> Record] /\ tail' \in {"newline", "broken", "line"}
<1>1. file' \in {file, Unglued, [file EXCEPT ![t] = Opened]}
    BY DEF Append, AppendFails
<1>2. tail' \in {"newline", "broken", "line"}
    BY DEF TypeOK, Append, AppendFails
<1>3. file \in [Trades -> Record] /\ Unglued \in [Trades -> Record] /\ Opened \in Record
    BY FilesTyped DEF TypeOK
<1>4. [file EXCEPT ![t] = Opened] \in [Trades -> Record]
    BY <1>3
<1>5. QED
    BY <1>1, <1>2, <1>3, <1>4

(* A torn write leaves records, ...                                        *)
LEMMA TornTyped ==
    ASSUME TypeOK, WriteIsTorn
    PROVE  file' \in [Trades -> Record] /\ tail' \in {"newline", "broken", "line"}
BY FilesTyped DEF WriteIsTorn

(* ... and a failed request is counted up to the bound.                    *)
LEMMA MissedTyped ==
    ASSUME TypeOK, NEW t \in Trades, Missed(t)
    PROVE  misses' \in [Trades -> 0..MaxAttempts]
<1>1. misses \in [Trades -> 0..MaxAttempts] /\ misses[t] \in 0..MaxAttempts
    BY DEF TypeOK
<1>2. CASE market[t] = "open" /\ misses[t] < MaxAttempts
    <2>1. misses[t] + 1 \in 0..MaxAttempts
        BY <1>1, <1>2
    <2>2. misses' = [misses EXCEPT ![t] = misses[t] + 1]
        BY <1>2 DEF Missed
    <2>3. QED
        BY <1>1, <2>1, <2>2
<1>3. CASE ~(market[t] = "open" /\ misses[t] < MaxAttempts)
    BY <1>1, <1>3 DEF Missed
<1>4. QED
    BY <1>2, <1>3

(* A failed redeem is tried again or returned as failed.                   *)
LEMMA RedeemFailedTyped ==
    ASSUME TypeOK, NEW error, RedeemFailed(error)
    PROVE  /\ tries' \in Nat
           /\ result' \in {result, "failed"}
           /\ pc' \in {"balance", "apply"}
           /\ pc' = "apply" => result' = "failed"
BY DEF TypeOK, RedeemFailed, Return

(* Every step keeps the types.                                             *)
LEMMA NextTypeOK == TypeOK /\ [Next]_vars => TypeOK'
<1> SUFFICES ASSUME TypeOK, [Next]_vars
             PROVE  TypeOK'
    OBVIOUS
<1> USE DEF TypeOK
<1>1. CASE Boot
    BY <1>1 DEF Boot, Restorable, RestoredAttempts, disk, chain, history, Record
<1>2. CASE RecordTrade
    <2>1. filled + 1 \in Trades
        BY <1>2 DEF RecordTrade, Fill
    <2>2. file' \in [Trades -> Record] /\ tail' \in {"newline", "broken", "line"}
        BY <1>2, <2>1, AppendTyped DEF RecordTrade
    <2>3. /\ filled' \in 0..MaxTrades
          /\ wallet' \in [Trades -> {"none", "held", "gone"}]
          /\ pending' \subseteq Trades /\ entries' \subseteq Trades
          /\ attempts' \in [Trades -> Nat]
        BY <1>2, <2>1 DEF RecordTrade, Fill
    <2>4. QED
        BY <1>2, <2>2, <2>3 DEF RecordTrade, history
<1>3. CASE StartSweep
    BY <1>3 DEF StartSweep, disk, chain, history
<1>4. CASE NextEntry
    BY <1>4 DEF NextEntry, disk, chain, history
<1>5. CASE EndSweep
    BY <1>5 DEF EndSweep, memory, disk, chain, history
<1>6. CASE Probe
    <2>1. misses' \in [Trades -> 0..MaxAttempts]
        <3>1. misses' = misses \/ Missed(cur)
            BY <1>6 DEF Probe
        <3>2. QED
            BY <3>1, MissedTyped
    <2>2. QED
        BY <1>6, <2>1 DEF Probe, Return, disk, chain
<1>7. CASE CheckBalance
    <2>1. /\ tries' \in Nat
          /\ result' \in {result, "completed", "failed"}
          /\ pc' \in {"relay", "direct", "balance", "apply"}
        BY <1>7, RedeemFailedTyped DEF CheckBalance, Return
    <2>2. QED
        BY <1>7, <2>1 DEF CheckBalance, disk, chain, history
<1>8. CASE Relay
    <2>1. wallet' \in [Trades -> {"none", "held", "gone"}]
        BY <1>8 DEF Relay, Redeem
    <2>2. inflight' \subseteq Trades
        BY <1>8 DEF Relay, MayBeSent, Sent
    <2>3. /\ tries' \in Nat
          /\ result' \in {result, "completed", "failed"}
          /\ pc' \in {"direct", "balance", "apply"}
        BY <1>8, RedeemFailedTyped DEF Relay, Return
    <2>4. QED
        BY <1>8, <2>1, <2>2, <2>3 DEF Relay, disk, history
<1>9. CASE Direct
    <2>1. wallet' \in [Trades -> {"none", "held", "gone"}]
        BY <1>9 DEF Direct, Redeem
    <2>2. inflight' \subseteq Trades
        BY <1>9 DEF Direct, MayBeSent, Sent
    <2>3. /\ tries' \in Nat
          /\ result' \in {result, "completed", "failed"}
          /\ pc' \in {"balance", "apply"}
        BY <1>9, RedeemFailedTyped DEF Direct, Return
    <2>4. QED
        BY <1>9, <2>1, <2>2, <2>3 DEF Direct, disk, history
<1>10. CASE Apply
    <2>1. /\ NextAttempts \in Nat
          /\ NextStatus \in {"Pending", "Success", "Failed"}
        BY <1>10, NextValues DEF Apply
    <2>2. [status |-> NextStatus, attempts |-> NextAttempts] \in Record
        BY <2>1 DEF Record, Statuses
    <2>3. NoFile \in [Trades -> Record]
        BY FilesTyped
    <2>4. attempts' \in [Trades -> Nat] /\ pending' \subseteq Trades
        BY <1>10, <2>1 DEF Apply
    <2>5. file' \in [Trades -> Record] /\ staged' \in [Trades -> Record]
          /\ tail' \in {"newline", "broken", "line"}
          /\ pc' \in {"write", "next"}
        BY <1>10, <2>2, <2>3 DEF Apply, Rewrite
    <2>6. QED
        BY <1>10, <2>4, <2>5 DEF Apply, chain, history
<1>11. CASE FinishWrite
    <2>1. file' \in [Trades -> Record] /\ tail' \in {"newline", "broken", "line"}
        BY <1>11, TornTyped DEF FinishWrite
    <2>2. QED
        BY <1>11, <2>1, FilesTyped DEF FinishWrite, chain, history
<1>12. CASE Crash
    <2>1. file' \in [Trades -> Record] /\ tail' \in {"newline", "broken", "line"}
        BY <1>12, TornTyped DEF Crash
    <2>2. staged' \in [Trades -> Record] /\ 1 \in Trades
        BY <1>12, FilesTyped DEF Crash, Forget
    <2>3. torn' \in 0..MaxTrades + 1
        BY <1>12 DEF Crash, Tear
    <2>4. QED
        BY <1>12, <2>1, <2>2, <2>3 DEF Crash, Forget, chain
<1>13. CASE Environment
    <2>1. PICK t \in Trades :
              CloseMarket(t) \/ ReportPayout(t) \/ SellOut(t) \/ LateTransaction(t)
        BY <1>13 DEF Environment
    <2>2. misses' = misses \/ misses' = [misses EXCEPT ![t] = 0]
        BY <2>1 DEF CloseMarket, ReportPayout, SellOut, LateTransaction, history
    <2>3. misses' \in [Trades -> 0..MaxAttempts]
        <3>1. misses \in [Trades -> 0..MaxAttempts] /\ 0 \in 0..MaxAttempts
            OBVIOUS
        <3> HIDE DEF TypeOK
        <3>2. [misses EXCEPT ![t] = 0] \in [Trades -> 0..MaxAttempts]
            BY <3>1
        <3>3. QED
            BY <2>2, <3>1, <3>2
    <2>4. /\ wallet' \in [Trades -> {"none", "held", "gone"}]
          /\ market' \in [Trades -> {"open", "closed", "paid"}]
          /\ inflight' \subseteq Trades
        BY <2>1 DEF CloseMarket, ReportPayout, SellOut, LateTransaction
    <2>5. UNCHANGED <<pc, memory, disk, torn>>
        BY <2>1 DEF CloseMarket, ReportPayout, SellOut, LateTransaction, history
    <2>6. QED
        BY <2>3, <2>4, <2>5 DEF memory, disk
<1>14. CASE UNCHANGED vars
    BY <1>14 DEF vars, memory, disk, chain, history
<1>15. CASE Hang
    BY <1>15 DEF Hang, MayBeSent, Sent, memory, disk, history
<1>16. CASE ProbeUnlisted
    BY <1>16 DEF ProbeUnlisted, Return, disk, chain, history
<1>17. CASE DieRecording
    <2>1. filled + 1 \in Trades /\ filled' = filled + 1
        BY <1>17 DEF DieRecording, Fill
    <2>2. file' \in [Trades -> Record] /\ tail' \in {"newline", "broken", "line"}
        BY <1>17, <2>1, AppendTyped DEF DieRecording
    <2>3. staged' \in [Trades -> Record] /\ 1 \in Trades
        BY <1>17, FilesTyped DEF DieRecording, Forget
    <2>4. /\ torn' \in 0..MaxTrades + 1
          /\ filled' \in 0..MaxTrades
          /\ wallet' \in [Trades -> {"none", "held", "gone"}]
        BY <1>17, <2>1 DEF DieRecording, Fill, Tear
    <2>5. QED
        BY <1>17, <2>2, <2>3, <2>4 DEF DieRecording, Forget
<1>18. QED
    BY <1>1, <1>2, <1>3, <1>4, <1>5, <1>6, <1>7, <1>8, <1>9, <1>10, <1>11,
       <1>12, <1>13, <1>14, <1>15, <1>16, <1>17 DEF Next, Sweep

(* The state of the process, the file, the wallet and the chain is always  *)
(* one the code's types allow.                                             *)
THEOREM TypeCorrect == Spec => []TypeOK
<1>1. Init => TypeOK
    BY InitTypeOK
<1>2. TypeOK /\ [Next]_vars => TypeOK'
    BY NextTypeOK
<1>3. QED
    BY <1>1, <1>2, PTL DEF Spec

-----------------------------------------------------------------------------
(* The ledger.                                                             *)

(* A step that leaves the map, the file and the staged records alone.      *)
Quiet ==
    /\ UNCHANGED <<pending, attempts, staged, file, tail, filled, torn>>
    /\ pc' = "write" <=> pc = "write"

(* The sweep before its answer, and the chain, are quiet.                  *)
LEMMA QuietSteps ==
    ASSUME TypeOK,
           \/ StartSweep \/ NextEntry \/ EndSweep
           \/ Probe \/ ProbeUnlisted \/ CheckBalance \/ Relay \/ Direct \/ Hang
           \/ Environment \/ UNCHANGED vars
    PROVE  Quiet
<1>1. CASE StartSweep \/ NextEntry \/ EndSweep
    BY <1>1 DEF StartSweep, NextEntry, EndSweep, Quiet, memory, disk, history
<1>2. CASE Probe \/ ProbeUnlisted
    BY <1>2 DEF Probe, ProbeUnlisted, Return, Quiet, disk, history
<1>3. CASE CheckBalance \/ Relay \/ Direct
    BY <1>3, RedeemFailedTyped DEF CheckBalance, Relay, Direct, Return, Quiet, disk, history
<1>4. CASE Environment
    BY <1>4 DEF Environment, CloseMarket, ReportPayout, SellOut, LateTransaction,
                Quiet, memory, disk, history
<1>5. CASE UNCHANGED vars
    BY <1>5 DEF vars, memory, disk, history, Quiet
<1>6. CASE Hang
    BY <1>6 DEF Hang, Quiet, memory, disk, history
<1>7. QED
    BY <1>1, <1>2, <1>3, <1>4, <1>5, <1>6

(* Records, attempts, the untouched trades and the map do not move then.   *)
LEMMA QuietKeeps ==
    ASSUME Quiet
    PROVE  /\ Ledger' = Ledger
           /\ RecordsKept => RecordsKept'
           /\ AttemptsKept => AttemptsKept'
           /\ Untouched => Untouched'
           /\ OpenInMap => OpenInMap'
           /\ MemoryAhead => MemoryAhead'
<1>1. Ledger' = Ledger
    BY DEF Quiet, Ledger
<1>2. QED
    BY <1>1 DEF Quiet, RecordsKept, WellKept, AttemptsKept, Untouched,
                OpenInMap, MemoryAhead

(* The sweep goes on with trades of the map in every such step.            *)
LEMMA QuietSweep ==
    ASSUME IInv, TypeOK',
           \/ StartSweep \/ NextEntry \/ EndSweep
           \/ Probe \/ ProbeUnlisted \/ CheckBalance \/ Relay \/ Direct \/ Hang
           \/ Environment \/ UNCHANGED vars
    PROVE  SweepInMap'
<1> USE DEF IInv, SweepInMap, Working
<1>1. CASE StartSweep \/ NextEntry \/ EndSweep
    BY <1>1 DEF StartSweep, NextEntry, EndSweep, memory
<1>2. CASE Probe \/ ProbeUnlisted
    BY <1>2 DEF Probe, ProbeUnlisted, Return
<1>3. CASE CheckBalance \/ Relay \/ Direct
    <2>1. pc \in Working /\ pc' \in Working
        BY <1>3, RedeemFailedTyped DEF CheckBalance, Relay, Direct, Return
    <2>2. UNCHANGED <<pending, entries, cur>>
        BY <1>3 DEF CheckBalance, Relay, Direct
    <2>3. QED
        BY <2>1, <2>2
<1>4. CASE Environment
    BY <1>4 DEF Environment, CloseMarket, ReportPayout, SellOut, LateTransaction, memory
<1>5. CASE UNCHANGED vars
    BY <1>5 DEF vars, memory
<1>6. CASE Hang
    BY <1>6 DEF Hang, memory
<1>7. QED
    BY <1>1, <1>2, <1>3, <1>4, <1>5, <1>6

(* The record a sweep writes is well kept, and so is every torn file.      *)
LEMMA RewriteKept ==
    ASSUME IInv, Apply
    PROVE  /\ WellKept([status |-> NextStatus, attempts |-> NextAttempts])
           /\ attempts' = [attempts EXCEPT ![cur] =
                              IF NextStatus = "Pending" THEN NextAttempts ELSE 0]
           /\ cur \in pending /\ cur \notin entries
           /\ Ledger = file
<1>1. cur \in Trades /\ pc = "apply"
    BY DEF IInv, TypeOK, Apply
<1>2. WellKept([status |-> NextStatus, attempts |-> NextAttempts])
    BY <1>1, NextValues DEF IInv, WellKept, AttemptsKept
<1>3. QED
    BY <1>1, <1>2 DEF IInv, Apply, SweepInMap, Working, Ledger

(* Each line of a torn file is the staged one or missing, and well kept,   *)
(* and each line after an append is the old one, a new one, or missing.    *)
LEMMA TornKept ==
    ASSUME IInv
    PROVE  /\ \A t \in Trades : WellKept(NoFile[t]) /\ NoFile[t] = NoRecord
           /\ \A k : \A t \in Trades :
                 FirstLines(k)[t] \in {staged[t], NoRecord} /\ WellKept(FirstLines(k)[t])
           /\ \A t \in Trades : Unglued[t] \in {file[t], NoRecord}
           /\ WellKept(NoRecord) /\ WellKept(Opened)
<1>1. WellKept(NoRecord) /\ WellKept(Opened)
    BY DEF WellKept, NoRecord, Opened
<1>2. QED
    BY <1>1 DEF IInv, RecordsKept, NoFile, FirstLines, Unglued

(* What an append does to the lines.                                       *)
LEMMA AppendLines ==
    ASSUME IInv, NEW n \in Trades, Append(n) \/ AppendFails(n)
    PROVE  /\ \A t \in Trades \ {n} : file'[t] \in {file[t], NoRecord}
           /\ file'[n] \in {file[n], NoRecord, Opened}
<1>1. file' \in {file, Unglued, [file EXCEPT ![n] = Opened]}
    BY DEF Append, AppendFails
<1>2. file \in [Trades -> Record]
    BY DEF IInv, TypeOK
<1>3. \A t \in Trades : Unglued[t] \in {file[t], NoRecord}
    BY TornKept
<1>4. QED
    BY <1>1, <1>2, <1>3

(* The fields of the records are typed.                                    *)
LEMMA RecordFields ==
    ASSUME TypeOK
    PROVE  \A t \in Trades :
              /\ file[t].attempts \in Nat /\ file[t].status \in Statuses
              /\ staged[t].attempts \in Nat /\ staged[t].status \in Statuses
BY DEF TypeOK, Record

(* The invariant holds at the start.                                       *)
LEMMA InitInv == Init => IInv
<1> SUFFICES ASSUME Init PROVE IInv
    OBVIOUS
<1>1. TypeOK
    BY InitTypeOK
<1>2. QED
    BY <1>1 DEF Init, IInv, RecordsKept, WellKept, AttemptsKept, Untouched, SweepInMap,
                Working, OpenInMap, MemoryAhead, NoFile, NoRecord, Ledger

(* Every step keeps the invariant.                                         *)
LEMMA NextInv == IInv /\ [Next]_vars => IInv'
<1> SUFFICES ASSUME IInv, [Next]_vars
             PROVE  IInv'
    OBVIOUS
<1>0. TypeOK /\ RecordsKept /\ AttemptsKept /\ Untouched /\ SweepInMap /\ OpenInMap
      /\ MemoryAhead
    BY DEF IInv
<1>1. TypeOK'
    BY <1>0, NextTypeOK
<1>2. CASE \/ StartSweep \/ NextEntry \/ EndSweep
           \/ Probe \/ ProbeUnlisted \/ CheckBalance \/ Relay \/ Direct \/ Hang
           \/ Environment \/ UNCHANGED vars
    <2>1. SweepInMap'
        BY <1>1, <1>2, QuietSweep
    <2>2. Quiet
        BY <1>2, QuietSteps DEF IInv
    <2>3. QED
        BY <1>1, <2>1, <2>2, QuietKeeps DEF IInv
<1>3. CASE Boot
    <2>1. pending' \subseteq {t \in Trades : file[t].status = "Pending"}
        BY <1>3 DEF Boot, Restorable
    <2>2. \A t \in Trades : attempts'[t] = IF t \in pending' THEN file[t].attempts ELSE 0
        BY <1>3 DEF Boot, RestoredAttempts
    <2>3. file' = file /\ staged' = staged /\ filled' = filled /\ Ledger' = file
        BY <1>3 DEF Boot, Ledger, disk
    <2>4. RecordsKept' /\ Untouched'
        BY <2>3, <1>0 DEF RecordsKept, WellKept, Untouched
    <2>5. AttemptsKept'
        BY <1>0, <2>1, <2>2 DEF AttemptsKept, RecordsKept, WellKept
    <2>6. OpenInMap'
        BY <2>1, <2>3 DEF OpenInMap
    <2>7. MemoryAhead'
        BY <1>0, <2>1, <2>2, <2>3, RecordFields DEF MemoryAhead
    <2>8. SweepInMap'
        BY <1>0, <1>3 DEF Boot, SweepInMap, Working
    <2>9. QED
        BY <1>1, <2>4, <2>5, <2>6, <2>7, <2>8 DEF IInv
<1>4. CASE RecordTrade
    <2> DEFINE n == filled + 1
    <2>1. n \in Trades /\ filled' = n /\ pending' = pending \union {n}
        BY <1>0, <1>4 DEF RecordTrade, Fill, TypeOK
    <2>2. /\ staged' = staged /\ pc = "idle" /\ pc' = "next"
          /\ entries' = pending' /\ Ledger = file /\ Ledger' = file'
        BY <1>4 DEF RecordTrade, Fill, Ledger
    <2>3. /\ \A t \in Trades \ {n} : attempts'[t] = attempts[t]
          /\ attempts'[n] = 0
        BY <1>0, <1>4, <2>1 DEF RecordTrade, TypeOK
    <2>4. /\ \A t \in Trades \ {n} : file'[t] \in {file[t], NoRecord}
          /\ file'[n] \in {file[n], NoRecord, Opened}
        BY <1>4, <2>1, AppendLines DEF RecordTrade
    <2>5. file[n].status = "absent" /\ file[n].attempts = 0
        BY <1>0, <2>1 DEF Untouched, RecordsKept, WellKept, TypeOK
    <2>6. RecordsKept'
        BY <1>0, <2>2, <2>4, TornKept DEF RecordsKept
    <2>7. AttemptsKept'
        BY <1>0, <2>3 DEF AttemptsKept
    <2>8. Untouched'
        <3>1. \A t \in Trades : t > n => t # n /\ t > filled
            BY <1>0 DEF TypeOK
        <3>2. \A t \in Trades : t > filled' =>
                 file'[t].status = "absent" /\ staged'[t].status = "absent"
            BY <1>0, <2>1, <2>2, <2>4, <3>1 DEF Untouched, NoRecord
        <3>3. QED
            BY <3>2 DEF Untouched
    <2>9. OpenInMap' /\ MemoryAhead'
        <3>1. \A t \in pending' \ {n} : t \in pending /\ t \in Trades
            BY <1>0, <2>1 DEF TypeOK
        <3>2. OpenInMap'
            BY <1>0, <2>1, <2>2, <2>4, <2>5, <3>1 DEF OpenInMap, NoRecord, Opened
        <3>3. \A t \in pending' \ {n} : file[t].attempts <= attempts[t] /\ attempts[t] \in Nat
            BY <1>0, <2>2, <3>1 DEF MemoryAhead, TypeOK
        <3>4. MemoryAhead'
            BY <2>2, <2>3, <2>4, <2>5, <3>1, <3>3 DEF MemoryAhead, NoRecord, Opened
        <3>5. QED
            BY <3>2, <3>4
    <2>10. SweepInMap'
        BY <2>2 DEF SweepInMap, Working
    <2>11. QED
        BY <1>1, <2>6, <2>7, <2>8, <2>9, <2>10 DEF IInv
<1>5. CASE Apply
    <2> DEFINE new == [status |-> NextStatus, attempts |-> NextAttempts]
    <2>1. /\ WellKept(new) /\ cur \in pending /\ cur \in Trades /\ cur \notin entries
          /\ Ledger = file /\ pc = "apply"
          /\ NextAttempts \in Nat /\ NextAttempts >= attempts[cur]
          /\ NextStatus \in {"Pending", "Success", "Failed"}
          /\ NextStatus = "Pending" =>
                NextAttempts = attempts[cur] \/ NextAttempts < MaxAttempts
        BY <1>0, <1>5, RewriteKept, NextValues DEF Apply, TypeOK
    <2>2. /\ pending' = IF NextStatus = "Pending" THEN pending ELSE pending \ {cur}
          /\ entries' = entries /\ filled' = filled
          /\ attempts'[cur] = IF NextStatus = "Pending" THEN NextAttempts ELSE 0
          /\ \A t \in Trades \ {cur} : attempts'[t] = attempts[t]
        BY <1>0, <1>5, <2>1 DEF Apply, TypeOK
    <2>3. AttemptsKept'
        BY <1>0, <2>1, <2>2 DEF AttemptsKept
    <2>4. SweepInMap'
        BY <1>0, <1>5, <2>1, <2>2 DEF Apply, Rewrite, SweepInMap, Working
    <2>5. CASE /\ file[cur].status # "absent"
               /\ staged' = [file EXCEPT ![cur] = new]
               /\ file' = NoFile /\ pc' = "write"
        <3>1. /\ Ledger' = staged' /\ staged'[cur] = new
              /\ \A t \in Trades \ {cur} : staged'[t] = file[t]
            BY <1>0, <2>1, <2>5 DEF Ledger, TypeOK
        <3>2. RecordsKept'
            BY <1>0, <2>1, <2>5, <3>1, TornKept DEF RecordsKept, IInv
        <3>3. Untouched'
            BY <1>0, <2>1, <2>2, <2>5, <3>1, TornKept DEF Untouched, NoRecord, IInv
        <3>4. OpenInMap'
            <4>1. ASSUME NEW t \in pending'
                  PROVE  Ledger'[t].status \in {"absent", "Pending"}
                <5>1. t \in pending /\ t \in Trades
                    BY <1>0, <2>2 DEF TypeOK
                <5>2. CASE t = cur
                    BY <2>1, <2>2, <3>1, <5>2
                <5>3. CASE t # cur
                    BY <1>0, <2>1, <3>1, <5>1, <5>3 DEF OpenInMap
                <5>4. QED
                    BY <5>2, <5>3
            <4>2. QED
                BY <4>1 DEF OpenInMap
        <3>5. MemoryAhead'
            BY <1>0, <2>1, <2>2, <3>1 DEF MemoryAhead, TypeOK
        <3>6. QED
            BY <1>1, <2>3, <2>4, <3>2, <3>3, <3>4, <3>5 DEF IInv
    <2>6. CASE pc' = "next" /\ UNCHANGED <<staged, file>>
        <3>1. Ledger' = file
            BY <2>6 DEF Ledger
        <3>2. RecordsKept' /\ Untouched'
            BY <1>0, <2>2, <2>6 DEF RecordsKept, WellKept, Untouched
        <3>3. OpenInMap'
            BY <1>0, <2>1, <2>2, <3>1 DEF OpenInMap
        <3>4. MemoryAhead'
            <4>1. \A t \in Trades : attempts[t] \in Nat /\ file[t].attempts \in Nat
                BY <1>0, RecordFields DEF TypeOK
            <4>2. \A t \in pending' : t \in pending /\ t \in Trades
                BY <1>0, <2>2 DEF TypeOK
            <4>3. \A t \in pending : file[t].attempts <= attempts[t]
                BY <1>0, <2>1 DEF MemoryAhead
            <4>4. cur \in pending' => attempts'[cur] = NextAttempts
                BY <2>2
            <4>5. QED
                BY <2>1, <2>2, <3>1, <4>1, <4>2, <4>3, <4>4 DEF MemoryAhead
        <3>5. QED
            BY <1>1, <2>3, <2>4, <3>2, <3>3, <3>4 DEF IInv
    <2>7. QED
        BY <1>5, <2>5, <2>6 DEF Apply, Rewrite
<1>6. CASE FinishWrite
    <2>1. /\ UNCHANGED <<pending, attempts, entries, filled>>
          /\ Ledger = staged /\ Ledger' = file' /\ staged' = NoFile
          /\ pc = "write" /\ pc' = "next"
        BY <1>6 DEF FinishWrite, Ledger
    <2>2. \A t \in Trades : file'[t] \in {staged[t], NoRecord}
        BY <1>6, TornKept DEF FinishWrite, WriteIsTorn
    <2>3. RecordsKept'
        BY <1>0, <2>1, <2>2, TornKept DEF RecordsKept, WellKept
    <2>4. Untouched'
        BY <1>0, <2>1, <2>2, TornKept DEF Untouched, NoRecord
    <2>5. AttemptsKept' /\ SweepInMap'
        BY <1>0, <2>1 DEF AttemptsKept, SweepInMap, Working
    <2>6. OpenInMap' /\ MemoryAhead'
        <3>1. \A t \in pending : t \in Trades /\ attempts[t] \in Nat
            BY <1>0 DEF TypeOK
        <3>2. OpenInMap'
            BY <1>0, <2>1, <2>2, <3>1 DEF OpenInMap, NoRecord
        <3>3. MemoryAhead'
            BY <1>0, <2>1, <2>2, <3>1 DEF MemoryAhead, NoRecord
        <3>4. QED
            BY <3>2, <3>3
    <2>7. QED
        BY <1>1, <2>3, <2>4, <2>5, <2>6 DEF IInv
<1>7. CASE Crash
    <2>1. /\ pending' = {} /\ entries' = {} /\ pc' = "down" /\ filled' = filled
          /\ attempts' = [t \in Trades |-> 0] /\ staged' = NoFile
        BY <1>7 DEF Crash, Forget
    <2>2. \A t \in Trades : file'[t] \in {file[t], staged[t], NoRecord}
        BY <1>7, TornKept DEF Crash, WriteIsTorn
    <2>3. RecordsKept'
        BY <1>0, <2>1, <2>2, TornKept DEF RecordsKept, WellKept
    <2>4. Untouched'
        BY <1>0, <2>1, <2>2, TornKept DEF Untouched, NoRecord
    <2>5. AttemptsKept' /\ SweepInMap' /\ OpenInMap' /\ MemoryAhead'
        BY <2>1 DEF AttemptsKept, SweepInMap, Working, OpenInMap, MemoryAhead
    <2>6. QED
        BY <1>1, <2>3, <2>4, <2>5 DEF IInv
<1>8. CASE DieRecording
    <2>1. PICK n \in Trades : n = filled + 1 /\ AppendFails(n) /\ filled' = n
        BY <1>0, <1>8 DEF DieRecording, Fill, TypeOK
    <2>2. /\ pending' = {} /\ entries' = {} /\ pc' = "down"
          /\ attempts' = [t \in Trades |-> 0] /\ staged' = NoFile
        BY <1>8 DEF DieRecording, Forget
    <2>3. /\ \A t \in Trades \ {n} : file'[t] \in {file[t], NoRecord}
          /\ file'[n] \in {file[n], NoRecord, Opened}
        BY <2>1, AppendLines
    <2>4. RecordsKept'
        BY <1>0, <2>2, <2>3, TornKept DEF RecordsKept
    <2>5. \A t \in Trades : t > n => t # n /\ t > filled
        BY <1>0, <2>1 DEF TypeOK
    <2>6. Untouched'
        BY <1>0, <2>1, <2>2, <2>3, <2>5, TornKept DEF Untouched, NoRecord
    <2>7. AttemptsKept' /\ SweepInMap' /\ OpenInMap' /\ MemoryAhead'
        BY <2>2 DEF AttemptsKept, SweepInMap, Working, OpenInMap, MemoryAhead
    <2>8. QED
        BY <1>1, <2>4, <2>6, <2>7 DEF IInv
<1>9. QED
    BY <1>2, <1>3, <1>4, <1>5, <1>6, <1>7, <1>8 DEF Next, Sweep

(* The strengthened invariant holds of every execution.                    *)
THEOREM Invariant == Spec => []IInv
<1>1. QED
    BY InitInv, NextInv, PTL DEF Spec

(* The sweep never works on a trade whose record is final.                 *)
THEOREM FinalAlwaysDropped == Spec => []FinalIsDropped
<1>1. IInv => FinalIsDropped
    BY DEF IInv, OpenInMap, FinalIsDropped
<1>2. QED
    BY <1>1, Invariant, PTL

(* A claim is given up exactly when its attempts are used up.              *)
THEOREM GivenUpOnlyExhausted == Spec => []GivenUpIffExhausted
<1>1. IInv => GivenUpIffExhausted
    BY DEF IInv, TypeOK, RecordsKept, WellKept, AttemptsKept, Ledger, GivenUpIffExhausted
<1>2. QED
    BY <1>1, Invariant, PTL

(* The file never counts more attempts than were made.                     *)
THEOREM FileNeverAhead == Spec => []FileBehindMemory
<1>1. IInv => FileBehindMemory
    BY DEF IInv, MemoryAhead, FileBehindMemory
<1>2. QED
    BY <1>1, Invariant, PTL

-----------------------------------------------------------------------------
(* A final record is never changed, only lost with a torn rewrite.         *)
LEMMA FinalStep ==
    ASSUME IInv, [Next]_vars, NEW t \in Trades, Ledger[t].status \in {"Success", "Failed"}
    PROVE  Ledger'[t] \in {Ledger[t], NoRecord}
<1>1. CASE \/ StartSweep \/ NextEntry \/ EndSweep
           \/ Probe \/ ProbeUnlisted \/ CheckBalance \/ Relay \/ Direct \/ Hang
           \/ Environment \/ UNCHANGED vars
    BY <1>1, QuietSteps, QuietKeeps DEF IInv
<1>2. CASE Boot
    BY <1>2 DEF Boot, Ledger, disk
<1>3. CASE RecordTrade \/ DieRecording
    <2>1. Ledger = file /\ Ledger' = file'
        BY <1>3 DEF RecordTrade, DieRecording, Fill, Forget, Ledger
    <2>2. t # filled + 1
        BY <2>1 DEF IInv, TypeOK, Untouched
    <2>3. PICK n \in Trades : n = filled + 1 /\ (Append(n) \/ AppendFails(n))
        BY <1>3 DEF RecordTrade, DieRecording, Fill, IInv, TypeOK
    <2>4. QED
        BY <2>1, <2>2, <2>3, AppendLines
<1>4. CASE Apply
    <2>1. t # cur /\ Ledger = file
        BY <1>4, RewriteKept DEF IInv, OpenInMap
    <2>2. QED
        BY <1>4, <2>1 DEF Apply, Rewrite, Ledger, IInv, TypeOK
<1>5. CASE FinishWrite
    BY <1>5, TornKept DEF FinishWrite, WriteIsTorn, Ledger
<1>6. CASE Crash
    BY <1>6, TornKept DEF Crash, Forget, WriteIsTorn, Ledger
<1>7. QED
    BY <1>1, <1>2, <1>3, <1>4, <1>5, <1>6 DEF Next, Sweep

(* Neither a late answer nor a restart reopens or relabels a trade.        *)
THEOREM FinalAlwaysSticks == Spec => FinalSticks
<1>1. IInv /\ [Next]_vars =>
        [\A t \in Trades :
            Ledger[t].status \in {"Success", "Failed"} =>
                Ledger'[t] \in {Ledger[t], NoRecord}]_vars
    BY FinalStep
<1>2. QED
    BY <1>1, Invariant, PTL DEF Spec, FinalSticks
=============================================================================
