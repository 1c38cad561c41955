-------------------------- MODULE ClaimBookProofs --------------------------
(***************************************************************************)
(* A claim recorded as settled has no tokens left, and the machinery of    *)
(* Claims implements the claim book, for every number of trades and every  *)
(* set of faults -- provided every redeem is signed for the address that   *)
(* holds the tokens (RightSigner).  Without that assumption both are false *)
(* (run ClaimsSafeFallback).                                               *)
(***************************************************************************)
EXTENDS ClaimsProofs

(* The redeems are sent by the address that holds the tokens: that of the  *)
(* key in direct mode, its Safe by the relayer, with no direct fallback.   *)
RightSigner ==
    IF UseRelayer THEN Funder = "safe" /\ ~AllowFallback ELSE Funder = "key"

SuccessGone ==
    \A t \in Trades :
        file[t].status = "Success" \/ staged[t].status = "Success" => wallet[t] = "gone"

AnswerGone == pc = "apply" /\ result = "completed" => wallet[cur] = "gone"

ModeKept ==
    /\ pc = "relay" => UseRelayer
    /\ pc = "direct" => ~UseRelayer \/ AllowFallback

(* A trade that is not filled yet has left no trace.                       *)
OnlyFilled ==
    /\ pending \subseteq 1..filled
    /\ inflight \subseteq 1..filled
    /\ \A t \in Trades : wallet[t] # "none" => t \in 1..filled

Backed == SuccessGone /\ AnswerGone /\ ModeKept /\ OnlyFilled

QuietNext ==
    \/ StartSweep \/ NextEntry \/ EndSweep
    \/ Probe \/ ProbeUnlisted \/ CheckBalance \/ Relay \/ Direct \/ Hang
    \/ Environment \/ UNCHANGED vars

-----------------------------------------------------------------------------
(* Tokens that are gone stay gone, except that a new trade brings its own. *)
LEMMA GoneStays ==
    ASSUME IInv, [Next]_vars, NEW t \in Trades, wallet[t] = "gone", t # filled + 1
    PROVE  wallet'[t] = "gone"
<1> USE DEF IInv, TypeOK
<1>1. CASE Boot \/ Apply \/ FinishWrite \/ Crash
    BY <1>1 DEF Boot, Apply, FinishWrite, Crash, chain
<1>2. CASE RecordTrade \/ DieRecording
    BY <1>2 DEF RecordTrade, DieRecording, Fill
<1>3. CASE StartSweep \/ NextEntry \/ EndSweep \/ Probe \/ ProbeUnlisted \/ CheckBalance
    BY <1>3 DEF StartSweep, NextEntry, EndSweep, Probe, ProbeUnlisted, CheckBalance, chain
<1>4. CASE Relay \/ Direct
    BY <1>4 DEF Relay, Direct, Redeem
<1>5. CASE Environment
    BY <1>5 DEF Environment, CloseMarket, ReportPayout, SellOut, LateTransaction
<1>6. CASE UNCHANGED vars
    BY <1>6 DEF vars, chain
<1>7. CASE Hang
    BY <1>7 DEF Hang
<1>8. QED
    BY <1>1, <1>2, <1>3, <1>4, <1>5, <1>6, <1>7 DEF Next, Sweep

(* The only steps that take tokens away take those of a filled trade.      *)
LEMMA OnlyOneLeaves ==
    ASSUME IInv, OnlyFilled, QuietNext
    PROVE  /\ \/ wallet' = wallet
              \/ \E t \in 1..filled : wallet' = [wallet EXCEPT ![t] = "gone"]
           /\ inflight' \subseteq 1..filled
<1> USE DEF IInv, TypeOK, OnlyFilled
<1>1. pc \in Working => cur \in 1..filled
    BY DEF SweepInMap
<1>2. CASE StartSweep \/ NextEntry \/ EndSweep \/ Probe \/ ProbeUnlisted \/ CheckBalance \/ UNCHANGED vars
    BY <1>2 DEF StartSweep, NextEntry, EndSweep, Probe, ProbeUnlisted, CheckBalance, chain, vars
<1>3. CASE Relay \/ Direct
    <2>1. cur \in 1..filled
        BY <1>1, <1>3 DEF Relay, Direct, Working
    <2>2. wallet' = wallet \/ wallet' = [wallet EXCEPT ![cur] = "gone"]
        BY <1>3 DEF Relay, Direct, Redeem
    <2>3. inflight' \subseteq inflight \union {cur}
        BY <1>3 DEF Relay, Direct, MayBeSent, Sent
    <2>4. inflight' \subseteq 1..filled
        BY <2>1, <2>3
    <2>5. QED
        BY <2>1, <2>2, <2>4
<1>4. CASE Environment
    <2>1. PICK t \in Trades :
              CloseMarket(t) \/ ReportPayout(t) \/ SellOut(t) \/ LateTransaction(t)
        BY <1>4 DEF Environment
    <2>2. CASE CloseMarket(t) \/ ReportPayout(t)
        BY <2>2 DEF CloseMarket, ReportPayout
    <2>3. CASE SellOut(t)
        <3>1. t \in 1..filled
            BY <2>3 DEF SellOut
        <3>2. wallet' = [wallet EXCEPT ![t] = "gone"] /\ inflight' = inflight
            BY <2>3 DEF SellOut
        <3>3. QED
            BY <3>1, <3>2
    <2>4. CASE LateTransaction(t)
        <3>1. t \in 1..filled
            BY <2>4 DEF LateTransaction
        <3>2. /\ wallet' = wallet \/ wallet' = [wallet EXCEPT ![t] = "gone"]
              /\ inflight' \subseteq inflight
            BY <2>4 DEF LateTransaction
        <3>3. QED
            BY <3>1, <3>2
    <2>5. QED
        BY <2>1, <2>2, <2>3, <2>4
<1>5. CASE Hang
    <2>1. wallet' = wallet
        BY <1>5 DEF Hang
    <2>2. inflight' \subseteq inflight \union {cur}
        BY <1>5 DEF Hang, MayBeSent, Sent
    <2>3. inflight' = inflight \/ cur \in 1..filled
        BY <1>1, <1>5 DEF Hang, Working
    <2>4. QED
        BY <2>1, <2>2, <2>3
<1>6. QED
    BY <1>2, <1>3, <1>4, <1>5 DEF QuietNext

(* "completed" is only answered when the tokens are gone.                  *)
LEMMA AnswerStep ==
    ASSUME RightSigner, IInv, Backed, QuietNext
    PROVE  AnswerGone' /\ ModeKept'
<1> USE DEF Backed, AnswerGone, ModeKept
<1>1. cur \in Trades /\ wallet \in [Trades -> {"none", "held", "gone"}]
    BY DEF IInv, TypeOK
<1>2. CASE StartSweep \/ NextEntry \/ EndSweep
    BY <1>2 DEF StartSweep, NextEntry, EndSweep
<1>3. CASE Probe \/ ProbeUnlisted
    BY <1>3 DEF Probe, ProbeUnlisted, Return
<1>4. CASE CheckBalance
    BY <1>4, RedeemFailedTyped DEF CheckBalance, Return, chain, IInv
<1>5. CASE Relay
    <2>1. Funder = "safe" /\ ~AllowFallback
        BY <1>5, ModeAssumption DEF Relay, RightSigner
    <2>2. QED
        BY <1>1, <1>5, <2>1, RedeemFailedTyped DEF Relay, Redeem, Return, IInv
<1>6. CASE Direct
    <2>1. Funder = "key"
        BY <1>6, ModeAssumption DEF Direct, RightSigner
    <2>2. QED
        BY <1>1, <1>6, <2>1, RedeemFailedTyped DEF Direct, Redeem, Return, IInv
<1>7. CASE Environment
    BY <1>1, <1>7 DEF Environment, CloseMarket, ReportPayout, SellOut,
                      LateTransaction, memory
<1>8. CASE UNCHANGED vars
    BY <1>8 DEF vars, memory, chain
<1>9. CASE Hang
    BY <1>9 DEF Hang
<1>10. QED
    BY <1>2, <1>3, <1>4, <1>5, <1>6, <1>7, <1>8, <1>9 DEF QuietNext

(* Every step keeps what the redeems rest on.                              *)
LEMMA NextBacked ==
    ASSUME RightSigner, IInv, Backed, [Next]_vars
    PROVE  Backed'
<1>0. SuccessGone /\ AnswerGone /\ ModeKept /\ OnlyFilled /\ TypeOK /\ Untouched
    BY DEF Backed, IInv
<1>1. \A t \in Trades :
          file[t].status = "Success" \/ staged[t].status = "Success" =>
              wallet'[t] = "gone"
    <2>1. \A t \in Trades :
              file[t].status = "Success" \/ staged[t].status = "Success" =>
                  t # filled + 1 /\ wallet[t] = "gone"
        BY <1>0 DEF Untouched, SuccessGone, TypeOK
    <2>2. QED
        BY <2>1, GoneStays
<1>2. CASE QuietNext
    <2>1. UNCHANGED <<pending, staged, file, filled>>
        BY <1>0, <1>2, QuietSteps DEF QuietNext, Quiet
    <2>2. SuccessGone'
        BY <1>1, <2>1 DEF SuccessGone
    <2>3. OnlyFilled'
        BY <1>0, <1>2, <2>1, OnlyOneLeaves DEF OnlyFilled, TypeOK
    <2>4. QED
        BY <1>2, <2>2, <2>3, AnswerStep DEF Backed
<1>3. CASE Boot
    <2>1. /\ UNCHANGED <<staged, file, filled, wallet, inflight>>
          /\ \A t \in pending' : file[t].status = "Pending" /\ t \in Trades
          /\ pc' = "idle"
        BY <1>3 DEF Boot, Restorable, disk, chain
    <2>2. OnlyFilled'
        BY <1>0, <2>1 DEF OnlyFilled, Untouched, TypeOK, Trades
    <2>3. QED
        BY <1>1, <2>1, <2>2 DEF Backed, SuccessGone, AnswerGone, ModeKept
<1>4. CASE RecordTrade \/ DieRecording
    <2>1. PICK n \in Trades : n = filled + 1 /\ (Append(n) \/ AppendFails(n))
        BY <1>0, <1>4, MaxTradesAssumption DEF RecordTrade, DieRecording, Fill, TypeOK, Trades
    <2>2. /\ filled' = n /\ pending' \subseteq pending \union {n}
          /\ staged' \in {staged, NoFile} /\ inflight' = inflight
          /\ pc' \in {"next", "down"}
          /\ wallet' = [wallet EXCEPT ![n] = "held"]
        BY <1>4, <2>1 DEF RecordTrade, DieRecording, Fill, Forget
    <2>3. \A t \in Trades : file'[t] \in {file[t], NoRecord, Opened}
        BY <2>1, AppendLines
    <2>4. SuccessGone'
        BY <1>1, <2>2, <2>3, TornKept DEF SuccessGone, NoRecord, Opened
    <2>5. 1..filled \subseteq 1..n /\ n \in 1..n
        BY <1>0, <2>1 DEF TypeOK
    <2>6. OnlyFilled'
        <3>1. /\ wallet \in [Trades -> {"none", "held", "gone"}]
              /\ pending \subseteq 1..filled /\ inflight \subseteq 1..filled
              /\ \A t \in Trades : wallet[t] # "none" => t \in 1..filled
            BY <1>0 DEF TypeOK, OnlyFilled
        <3>2. pending' \subseteq 1..n /\ inflight' \subseteq 1..n
            BY <2>2, <2>5, <3>1
        <3>3. \A t \in Trades : wallet'[t] # "none" => t \in 1..n
            BY <2>2, <2>5, <3>1
        <3>4. QED
            BY <2>2, <3>2, <3>3 DEF OnlyFilled
    <2>7. QED
        BY <2>2, <2>4, <2>6 DEF Backed, AnswerGone, ModeKept
<1>5. CASE Apply
    <2>1. NextStatus = "Success" => wallet[cur] = "gone"
        BY <1>0, <1>5 DEF Apply, NextStatus, AnswerGone
    <2>2. /\ pending' \subseteq pending /\ UNCHANGED <<filled, wallet, inflight>>
          /\ pc' \in {"write", "next"} /\ cur \in Trades
        BY <1>0, <1>5 DEF Apply, Rewrite, chain, TypeOK
    <2>3. SuccessGone'
        BY <1>0, <1>5, <2>1, <2>2 DEF Apply, Rewrite, SuccessGone, NoFile, NoRecord, TypeOK
    <2>4. QED
        BY <1>0, <2>2, <2>3 DEF Backed, AnswerGone, ModeKept, OnlyFilled
<1>6. CASE FinishWrite \/ Crash
    <2>1. /\ \A t \in Trades : file'[t] \in {file[t], staged[t], NoRecord}
          /\ staged' = NoFile
        BY <1>6, TornKept DEF FinishWrite, Crash, Forget, WriteIsTorn
    <2>2. /\ pending' \subseteq pending /\ UNCHANGED <<filled, wallet, inflight>>
          /\ pc' \in {"down", "next"}
        BY <1>6 DEF FinishWrite, Crash, Forget, chain
    <2>3. SuccessGone'
        BY <1>1, <2>1, TornKept DEF SuccessGone, NoRecord
    <2>4. QED
        BY <1>0, <2>2, <2>3 DEF Backed, AnswerGone, ModeKept, OnlyFilled
<1>7. QED
    BY <1>2, <1>3, <1>4, <1>5, <1>6 DEF Next, Sweep, QuietNext

(* Nothing is filled, recorded or redeemed at the start.                   *)
LEMMA InitBacked == Init => Backed
BY DEF Init, Backed, SuccessGone, AnswerGone, ModeKept, OnlyFilled, NoFile, NoRecord

(* A trade recorded as claimed has no tokens left to redeem, whatever      *)
(* fails along the way, provided redeems are signed for the right address. *)
THEOREM SettledAlwaysGone ==
    ASSUME RightSigner
    PROVE  Spec => []SettledMeansGone
<1>1. Init => IInv /\ Backed
    BY InitInv, InitBacked
<1>2. (IInv /\ Backed) /\ [Next]_vars => (IInv /\ Backed)'
    BY NextInv, NextBacked
<1>3. IInv /\ Backed => SettledMeansGone
    BY DEF Backed, SuccessGone, SettledMeansGone, Ledger
<1>4. QED
    BY <1>1, <1>2, <1>3, PTL DEF Spec

-----------------------------------------------------------------------------
(* Claims implements ClaimBook.                                            *)

(* A quiet step is at most the departure of one trade's tokens.            *)
LEMMA BookQuiet ==
    ASSUME RightSigner, IInv, Backed, QuietNext
    PROVE  [Book!Next]_(Book!vars)
<1>1. StatusOf' = StatusOf /\ FilledOf' = FilledOf
    BY QuietSteps, QuietKeeps DEF QuietNext, IInv, StatusOf, FilledOf, Quiet
<1>2. CASE wallet' = wallet
    BY <1>1, <1>2 DEF GoneOf, Book!vars
<1>3. ASSUME NEW t \in 1..filled, wallet' = [wallet EXCEPT ![t] = "gone"]
      PROVE  Book!Leave(t) /\ t \in Trades
    <2>1. t \in Trades /\ wallet \in [Trades -> {"none", "held", "gone"}]
        BY MaxTradesAssumption DEF IInv, TypeOK, Trades
    <2>2. GoneOf' = GoneOf \union {t}
        BY <1>3, <2>1 DEF GoneOf
    <2>3. QED
        BY <1>1, <2>1, <2>2 DEF FilledOf, Book!Leave
<1>4. QED
    BY <1>2, <1>3, OnlyOneLeaves DEF Backed, Book!Next

(* An append adds the line of the trade, or none, or takes the last one.   *)
LEMMA BookAppend ==
    ASSUME IInv, NEW n \in Trades, Append(n) \/ AppendFails(n),
           Ledger = file, Ledger' = file'
    PROVE  StatusOf' \in {StatusOf, [StatusOf EXCEPT ![n] = "Pending"], Book!WithoutLast}
<1>1. file \in [Trades -> Record]
    BY DEF IInv, TypeOK
<1>2. StatusOf = [t \in Trades |-> file[t].status]
      /\ StatusOf' = [t \in Trades |-> file'[t].status]
    BY DEF StatusOf
<1>3. CASE file' = file
    BY <1>2, <1>3
<1>4. CASE file' = [file EXCEPT ![n] = Opened]
    <2>1. \A t \in Trades : file'[t].status = IF t = n THEN "Pending" ELSE file[t].status
        BY <1>1, <1>4 DEF Opened
    <2>2. QED
        BY <1>2, <2>1
<1>5. CASE file' = Unglued
    <2>1. CASE tail # "line"
        BY <1>3, <1>5, <2>1 DEF Unglued
    <2>2. CASE tail = "line"
        <3>1. \A t \in Trades :
                 file'[t].status = IF \E u \in Trades : u > t /\ StatusOf[u] # "absent"
                                   THEN StatusOf[t] ELSE "absent"
            BY <1>2, <1>5, <2>2 DEF Unglued, NoRecord
        <3>2. StatusOf' = Book!WithoutLast
            BY <1>2, <3>1 DEF Book!WithoutLast
        <3>3. QED
            BY <3>2
    <2>3. QED
        BY <2>1, <2>2
<1>6. QED
    BY <1>3, <1>4, <1>5 DEF Append, AppendFails

(* Every step is a step of the book or leaves it alone.                    *)
LEMMA BookStep ==
    ASSUME RightSigner, IInv, Backed, [Next]_vars
    PROVE  [Book!Next]_(Book!vars)
<1>0. /\ TypeOK /\ Untouched /\ OpenInMap /\ SweepInMap
      /\ SuccessGone /\ AnswerGone /\ OnlyFilled
    BY DEF IInv, Backed
<1>1. CASE QuietNext
    BY <1>1, BookQuiet
<1>2. CASE Boot
    <2>1. UNCHANGED <<file, filled, wallet>> /\ Ledger = file /\ Ledger' = file
        BY <1>2 DEF Boot, Ledger, disk, chain
    <2>2. QED
        BY <2>1 DEF StatusOf, GoneOf, FilledOf, Book!vars
<1>3. CASE RecordTrade \/ DieRecording
    <2>1. PICK n \in Trades : n = filled + 1 /\ (Append(n) \/ AppendFails(n))
        BY <1>0, <1>3, MaxTradesAssumption DEF RecordTrade, DieRecording, Fill, TypeOK, Trades
    <2>2. /\ filled' = n /\ wallet' = [wallet EXCEPT ![n] = "held"]
          /\ Ledger = file /\ Ledger' = file'
        BY <1>3, <2>1 DEF RecordTrade, DieRecording, Fill, Forget, Ledger
    <2>3. n \notin FilledOf /\ FilledOf' = FilledOf \union {n}
        BY <1>0, <2>1, <2>2 DEF FilledOf, TypeOK
    <2>4. GoneOf' = GoneOf
        <3>1. wallet[n] # "gone" /\ wallet'[n] # "gone"
            BY <1>0, <2>2, <2>3 DEF OnlyFilled, FilledOf, TypeOK
        <3>2. \A t \in Trades \ {n} : wallet'[t] = wallet[t]
            BY <1>0, <2>2 DEF TypeOK
        <3>3. QED
            BY <3>1, <3>2 DEF GoneOf
    <2>5. StatusOf' \in {StatusOf, [StatusOf EXCEPT ![n] = "Pending"], Book!WithoutLast}
        BY <2>1, <2>2, BookAppend
    <2>6. Book!Open(n)
        BY <2>3, <2>4, <2>5 DEF Book!Open
    <2>7. QED
        BY <2>6 DEF Book!Next
<1>4. CASE Apply
    <2>1. /\ cur \in Trades /\ cur \in pending /\ Ledger = file
          /\ UNCHANGED <<filled, wallet>>
          /\ file \in [Trades -> Record]
        BY <1>0, <1>4, RewriteKept DEF Apply, TypeOK, chain
    <2>2. GoneOf' = GoneOf /\ FilledOf' = FilledOf
        BY <2>1 DEF GoneOf, FilledOf
    <2>3. CASE pc' = "next" /\ file' = file
        BY <2>1, <2>2, <2>3 DEF StatusOf, Ledger, Book!vars
    <2>4. CASE /\ file[cur].status # "absent" /\ pc' = "write"
               /\ staged' = [file EXCEPT ![cur] =
                               [status |-> NextStatus, attempts |-> NextAttempts]]
        <3>1. StatusOf[cur] = "Pending"
            BY <1>0, <2>1, <2>4 DEF OpenInMap, StatusOf
        <3>2. StatusOf' = [StatusOf EXCEPT ![cur] = NextStatus]
            BY <2>1, <2>4 DEF StatusOf, Ledger
        <3>3. CASE NextStatus = "Pending"
            BY <2>1, <2>2, <3>1, <3>2, <3>3 DEF StatusOf, Book!vars
        <3>4. CASE NextStatus = "Success"
            <4>1. cur \in GoneOf
                BY <1>0, <1>4, <2>1, <3>4 DEF Apply, NextStatus, AnswerGone, GoneOf
            <4>2. QED
                BY <2>1, <2>2, <3>1, <3>2, <3>4, <4>1 DEF Book!Settle, Book!Next
        <3>5. CASE NextStatus = "Failed"
            BY <2>1, <2>2, <3>1, <3>2, <3>5 DEF Book!Abandon, Book!Next
        <3>6. QED
            BY <3>3, <3>4, <3>5 DEF NextStatus
    <2>5. QED
        BY <1>4, <2>3, <2>4 DEF Apply, Rewrite
<1>5. CASE FinishWrite \/ Crash
    <2>1. GoneOf' = GoneOf /\ FilledOf' = FilledOf /\ Ledger' = file'
        BY <1>5 DEF FinishWrite, Crash, Forget, GoneOf, FilledOf, Ledger, chain
    <2>2. file' = Ledger \/ \E k \in 0..MaxTrades : file' = FirstLines(k) /\ Ledger = staged
        BY <1>5 DEF FinishWrite, Crash, WriteIsTorn, Ledger
    <2>3. CASE file' = Ledger
        BY <2>1, <2>3 DEF StatusOf, Book!vars
    <2>4. ASSUME NEW k \in 0..MaxTrades, file' = FirstLines(k), Ledger = staged
          PROVE  [Book!Next]_(Book!vars)
        <3>1. StatusOf' = [t \in Trades |-> IF t <= k THEN StatusOf[t] ELSE "absent"]
            BY <2>1, <2>4 DEF StatusOf, FirstLines, NoRecord
        <3>2. CASE k = MaxTrades
            <4>1. StatusOf' = StatusOf
                BY <3>1, <3>2, MaxTradesAssumption DEF StatusOf, Trades
            <4>2. QED
                BY <2>1, <4>1 DEF Book!vars
        <3>3. CASE k # MaxTrades
            <4>1. k + 1 \in Trades /\ \A t \in Trades : t <= k <=> t < k + 1
                BY <3>3, MaxTradesAssumption DEF Trades
            <4>2. Book!Tear(k + 1)
                BY <2>1, <3>1, <4>1 DEF Book!Tear
            <4>3. QED
                BY <4>1, <4>2 DEF Book!Next
        <3>4. QED
            BY <3>2, <3>3
    <2>5. QED
        BY <2>2, <2>3, <2>4
<1>6. QED
    BY <1>1, <1>2, <1>3, <1>4, <1>5 DEF Next, Sweep, QuietNext

(* The whole machinery, crashes and torn writes included, keeps a claim    *)
(* book, provided redeems are signed for the right address.                *)
THEOREM BookAlwaysKept ==
    ASSUME RightSigner
    PROVE  Spec => KeepsTheBook
<1>1. Init => Book!Init
    BY DEF Init, Book!Init, StatusOf, GoneOf, FilledOf, Ledger, NoFile, NoRecord
<1>2. Init => IInv /\ Backed
    BY InitInv, InitBacked
<1>3. (IInv /\ Backed) /\ [Next]_vars => (IInv /\ Backed)'
    BY NextInv, NextBacked
<1>4. (IInv /\ Backed) /\ [Next]_vars => [Book!Next]_(Book!vars)
    BY BookStep
<1>5. QED
    BY <1>1, <1>2, <1>3, <1>4, PTL DEF Spec, KeepsTheBook, Book!Spec
=============================================================================
