-------------------------- MODULE TradingLoopProofs -------------------------
(***************************************************************************)
(* The safety of the main loop and the listener for every loss limit, with *)
(* and without cooldown, over a chat of any length and any number of       *)
(* restarts.                                                               *)
(*                                                                         *)
(* The guard, the pause, the cooldown and the listener each have an        *)
(* invariant of their own; LoopInv is their conjunction.                   *)
(***************************************************************************)
EXTENDS TradingLoop, TLAPS

(* The notice is up only at the top of the loop (or in the sweep that      *)
(* hangs there), and without a pause only after a /resume: the counter is  *)
(* reset when there is nothing to forget.  So the counter is never behind  *)
(* the losses, an unpaused loop is below the limit, and a loop past the    *)
(* pause check stays there.                                                *)
AtTop == pc \in {"top", "hung"}

NoticeKept ==
    /\ noticeSent => AtTop
    /\ noticeSent /\ ~paused => lossRun = 0

GuardKept ==
    LossLimit > 0 =>
        /\ lossRun <= losses
        /\ ~paused \/ ~AtTop => lossRun < LossLimit
        /\ lossRun <= LossLimit
        /\ lastRun <= LossLimit

(* A cycle has ended in the present pause only if the loop is held.        *)
TailKept == tail # 0 => tail = 1 /\ paused /\ AtTop

(* The clock is in a cooldown only if the loop remembers it, or another    *)
(* process began it.                                                       *)
CooldownKept == resting => excused \/ (cooldown /\ pc # "cycle")

(* Before its first poll the listener has no batch; after it, its offset   *)
(* has passed the backlog.                                                 *)
OffsetKept ==
    /\ offset <= batch /\ batch <= Len(sent)
    /\ backlog <= Len(sent)
    /\ confirmed <= offset
    /\ IF primed THEN offset >= backlog ELSE offset = batch

LoopInv ==
    /\ TypeOK
    /\ NoticeKept
    /\ GuardKept
    /\ TailKept
    /\ CooldownKept
    /\ OffsetKept

USE LimitAssumption, BoundAssumption, EnabledAssumption

-----------------------------------------------------------------------------
(* A chat that is empty or holds one update is a sequence.                 *)
LEMMA FirstChat ==
    ASSUME NEW s \in UNION {[1..n -> Commands] : n \in 0..1}
    PROVE  s \in Seq(Commands)
<1>1. PICK n \in 0..1 : s \in [1..n -> Commands]
    OBVIOUS
<1>2. n \in Nat
    OBVIOUS
<1>3. QED
    BY <1>1, <1>2

(* The initial state satisfies the invariant.                              *)
LEMMA LoopInit == Init => LoopInv
<1> SUFFICES ASSUME Init PROVE LoopInv
    OBVIOUS
<1>1. sent \in Seq(Commands)
    BY FirstChat DEF Init
<1>2. Len(sent) \in Nat
    BY <1>1
<1>3. backlog \in Nat /\ lossRun \in Nat /\ lastRun \in Nat /\ tail \in 0..2
      /\ losses \in Nat /\ offset \in Nat /\ batch \in Nat /\ confirmed \in Nat
    BY <1>2 DEF Init
<1>4. TypeOK
    BY <1>1, <1>3, Zenon DEF Init, TypeOK
<1>5. QED
    BY <1>2, <1>4 DEF Init, LoopInv, NoticeKept, GuardKept, TailKept, CooldownKept,
                        OffsetKept, AtTop

(* Every step keeps the types.                                             *)
LEMMA LoopTypeOK == TypeOK /\ [Next]_vars => TypeOK'
<1> SUFFICES ASSUME TypeOK, [Next]_vars PROVE TypeOK'
    OBVIOUS
<1> USE DEF TypeOK
<1>0. Len(sent) \in Nat
    OBVIOUS
<1>1. CASE StayPaused
    BY <1>1 DEF StayPaused, listener, chat, history
<1>2. CASE PassPauseCheck
    <2>1. losses' \in Nat
        BY <1>2 DEF PassPauseCheck, CounterAfterResume
    <2>2. byGuard' \in BOOLEAN
        BY <1>2, Zenon DEF PassPauseCheck
    <2>3. QED
        BY <1>2, <2>1, <2>2 DEF PassPauseCheck, listener, chat, history
<1>3. CASE StayCool \/ StartCycle
    BY <1>3 DEF StayCool, StartCycle, listener, chat, history
<1>4. ASSUME NEW outcome \in Outcomes, EndCycle(outcome)
      PROVE  TypeOK'
    <2>1. losses' \in Nat /\ lossRun' \in Nat /\ tail' \in 0..2
        BY <1>4 DEF EndCycle
    <2>2. /\ byGuard' \in BOOLEAN /\ paused' \in BOOLEAN
          /\ cooldown' \in BOOLEAN /\ resting' \in BOOLEAN /\ excused' \in BOOLEAN
        BY <1>4, Zenon DEF EndCycle
    <2>3. QED
        BY <1>4, <2>1, <2>2 DEF EndCycle, listener, chat
<1>5. CASE CooldownElapses \/ Hang
    BY <1>5 DEF CooldownElapses, Hang, loop, listener, chat, history
<1>6. CASE Poll
    <2>1. offset' \in Nat /\ batch' \in Nat /\ confirmed' \in Nat
        BY <1>0, <1>6 DEF Poll
    <2>2. offset + 1 .. Len(sent) \subseteq Nat
        BY <1>0
    <2>3. dropped' \subseteq Nat
        BY <1>6, <2>2 DEF Poll
    <2>4. QED
        BY <1>6, <2>1, <2>3 DEF Poll, loop
<1>7. CASE Handle
    <2>1. offset' \in Nat /\ lossRun' \in Nat /\ lastRun' \in Nat /\ tail' \in 0..2
        BY <1>7 DEF Handle
    <2>2. paused' \in BOOLEAN
        BY <1>7 DEF Handle, PausedAfter
    <2>3. QED
        BY <1>7, <2>1, <2>2 DEF Handle, loop, chat
<1>8. ASSUME NEW command \in Commands, SendCommand(command)
      PROVE  TypeOK'
    BY <1>8 DEF SendCommand, loop, listener, history
<1>9. CASE Restart
    <2>1. /\ losses' \in Nat /\ lastRun' \in Nat /\ lossRun' \in Nat /\ tail' \in 0..2
          /\ offset' \in Nat /\ batch' \in Nat /\ backlog' \in Nat
          /\ confirmed' \in Nat
        BY <1>0, <1>9 DEF Restart, chat
    <2>2. QED
        BY <1>9, <2>1, Zenon DEF Restart, chat
<1>10. CASE UNCHANGED vars
    BY <1>10 DEF vars, loop, listener, chat, history
<1>11. QED
    BY <1>1, <1>2, <1>3, <1>4, <1>5, <1>6, <1>7, <1>8, <1>9, <1>10
       DEF Next, Loop, Listener

(* The flags, the counters and the offsets of both tasks are always of     *)
(* their types.                                                            *)
THEOREM LoopTypeCorrect == Spec => []TypeOK
<1>1. Init => TypeOK
    BY LoopInit DEF LoopInv
<1>2. QED
    BY <1>1, LoopTypeOK, PTL DEF Spec

-----------------------------------------------------------------------------
(* Every step keeps what is known of the notice and of the guard.          *)
LEMMA GuardStep ==
    ASSUME LoopInv, TypeOK', [Next]_vars
    PROVE  NoticeKept' /\ GuardKept'
<1> USE DEF LoopInv, TypeOK, NoticeKept, GuardKept, AtTop
<1>1. CASE StayPaused
    BY <1>1 DEF StayPaused, Halted, history
<1>2. CASE PassPauseCheck
    BY <1>2 DEF PassPauseCheck, Halted, CounterAfterResume, history
<1>3. CASE StayCool \/ StartCycle
    BY <1>3 DEF StayCool, StartCycle, history
<1>4. ASSUME NEW outcome \in Outcomes, EndCycle(outcome)
      PROVE  NoticeKept' /\ GuardKept'
    <2>1. ~noticeSent /\ ~noticeSent' /\ pc = "cycle" /\ pc' = "top" /\ lastRun' = lastRun
        BY <1>4 DEF EndCycle
    <2>2. CASE outcome = "Loss"
        <3>1. lossRun' = lossRun + 1 /\ losses' = losses + 1 /\ paused' = (paused \/ GuardTrips)
            BY <1>4, <2>2 DEF EndCycle
        <3>2. LossLimit > 0 /\ ~paused' => losses + 1 < LossLimit
            <4>1. ~paused' => ~paused /\ ~GuardTrips
                BY <3>1, Zenon
            <4>2. LossLimit > 0 /\ ~paused /\ ~GuardTrips => losses + 1 < LossLimit
                BY DEF GuardTrips
            <4>3. QED
                BY <4>1, <4>2, Zenon
        <3>3. LossLimit > 0 => lossRun' <= losses' /\ lossRun' <= LossLimit
            BY <2>1, <3>1
        <3>4. LossLimit > 0 /\ ~paused' => lossRun' < LossLimit
            BY <2>1, <3>1, <3>2
        <3>5. QED
            BY <2>1, <3>3, <3>4
    <2>3. CASE outcome # "Loss"
        BY <1>4, <2>1, <2>3 DEF EndCycle
    <2>4. QED
        BY <2>2, <2>3
<1>5. CASE CooldownElapses \/ Hang
    BY <1>5 DEF CooldownElapses, Hang, loop, history
<1>6. CASE Poll
    BY <1>6 DEF Poll, loop
<1>7. CASE Handle
    <2>1. UNCHANGED <<pc, noticeSent, losses>>
        BY <1>7 DEF Handle, loop
    <2>2. CASE sent[offset + 1] = "/resume"
        BY <1>7, <2>1, <2>2 DEF Handle
    <2>3. CASE sent[offset + 1] # "/resume"
        <3>1. lossRun' = lossRun /\ lastRun' = lastRun /\ (~paused' => ~paused)
            BY <1>7, <2>3 DEF Handle, PausedAfter
        <3>2. QED
            BY <2>1, <3>1
    <2>4. QED
        BY <2>2, <2>3
<1>8. ASSUME NEW command \in Commands, SendCommand(command)
      PROVE  NoticeKept' /\ GuardKept'
    BY <1>8 DEF SendCommand, loop, history
<1>9. CASE Restart
    BY <1>9 DEF Restart
<1>10. CASE UNCHANGED vars
    BY <1>10 DEF vars, loop, history
<1>11. QED
    BY <1>1, <1>2, <1>3, <1>4, <1>5, <1>6, <1>7, <1>8, <1>9, <1>10
       DEF Next, Loop, Listener

(* Every step keeps what is known of the pause and of the cooldown.        *)
LEMMA PauseStep ==
    ASSUME LoopInv, TypeOK', [Next]_vars
    PROVE  TailKept' /\ CooldownKept'
<1> USE DEF LoopInv, TypeOK, TailKept, CooldownKept, AtTop
<1>1. CASE StayPaused \/ StayCool
    BY <1>1 DEF StayPaused, StayCool, history
<1>2. CASE PassPauseCheck
    BY <1>2 DEF PassPauseCheck, Halted, history
<1>3. CASE StartCycle
    BY <1>3 DEF StartCycle, Cooling, history
<1>4. ASSUME NEW outcome \in Outcomes, EndCycle(outcome)
      PROVE  TailKept' /\ CooldownKept'
    <2>1. /\ tail = 0 /\ pc' = "top" /\ (resting => excused)
          /\ tail' = IF paused THEN 1 ELSE 0
        BY <1>4 DEF EndCycle
    <2>2. (paused => paused') /\ (resting' => excused' \/ cooldown')
        BY <1>4, <2>1 DEF EndCycle
    <2>3. QED
        BY <2>1, <2>2
<1>5. CASE CooldownElapses \/ Hang
    BY <1>5 DEF CooldownElapses, Hang, loop, history
<1>6. CASE Poll
    BY <1>6 DEF Poll, loop
<1>7. CASE Handle
    BY <1>7 DEF Handle, loop
<1>8. ASSUME NEW command \in Commands, SendCommand(command)
      PROVE  TailKept' /\ CooldownKept'
    BY <1>8 DEF SendCommand, loop, history
<1>9. CASE Restart
    BY <1>9 DEF Restart
<1>10. CASE UNCHANGED vars
    BY <1>10 DEF vars, loop, history
<1>11. QED
    BY <1>1, <1>2, <1>3, <1>4, <1>5, <1>6, <1>7, <1>8, <1>9, <1>10
       DEF Next, Loop, Listener

(* Every step keeps what is known of the offsets; the loop's own steps do  *)
(* not touch them.                                                         *)
LEMMA OffsetStep ==
    ASSUME LoopInv, TypeOK', [Next]_vars
    PROVE  OffsetKept'
<1> USE DEF LoopInv, TypeOK, OffsetKept
<1>0. Len(sent) \in Nat
    OBVIOUS
<1>1. CASE Loop \/ Hang \/ CooldownElapses \/ UNCHANGED vars
    <2>1. UNCHANGED <<offset, batch, primed, sent, confirmed, backlog>>
        BY <1>1 DEF Loop, Hang, CooldownElapses, vars, StayPaused, PassPauseCheck, StayCool,
                    StartCycle, EndCycle, listener, chat, history
    <2>2. QED
        BY <2>1
<1>2. CASE Poll
    BY <1>0, <1>2 DEF Poll, SkipsFirstBatch
<1>3. CASE Handle
    BY <1>0, <1>3 DEF Handle, chat
<1>4. ASSUME NEW command \in Commands, SendCommand(command)
      PROVE  OffsetKept'
    <2>1. Len(sent') = Len(sent) + 1
        BY <1>4 DEF SendCommand
    <2>2. QED
        BY <1>0, <1>4, <2>1 DEF SendCommand, listener, history
<1>5. CASE Restart
    BY <1>0, <1>5 DEF Restart, chat
<1>6. QED
    BY <1>1, <1>2, <1>3, <1>4, <1>5 DEF Next, Listener

(* The invariant of the two tasks.                                         *)
THEOREM LoopInvariant == Spec => []LoopInv
<1>1. LoopInv /\ [Next]_vars => LoopInv'
    BY LoopTypeOK, GuardStep, PauseStep, OffsetStep DEF LoopInv
<1>2. QED
    BY <1>1, LoopInit, PTL DEF Spec

(* No cycle runs at the loss limit, whatever commands, guard and restarts  *)
(* come in between.                                                        *)
THEOREM GuardAlwaysHolds == Spec => []GuardHolds
<1>1. LoopInv => GuardHolds
    BY DEF LoopInv, TypeOK, GuardKept, GuardHolds, AtTop
<1>2. QED
    BY <1>1, LoopInvariant, PTL

(* A pause, by command or by the guard, lets one cycle at most end.        *)
THEOREM PauseAlwaysStops == Spec => []PauseStopsTrading
<1>1. LoopInv => PauseStopsTrading
    BY DEF LoopInv, TypeOK, TailKept, PauseStopsTrading
<1>2. QED
    BY <1>1, LoopInvariant, PTL

(* The listener never obeys what was sent before its process started.      *)
THEOREM StaleIsNeverObeyed == Spec => []StaleNeverObeyed
<1>1. LoopInv => StaleNeverObeyed
    BY DEF LoopInv, TypeOK, OffsetKept, StaleNeverObeyed
<1>2. QED
    BY <1>1, LoopInvariant, PTL

(* No cycle runs in a cooldown its own process began.                      *)
THEOREM CooldownAlwaysHonoured == Spec => []CooldownHonoured
<1>1. LoopInv => CooldownHonoured
    BY DEF LoopInv, CooldownKept, CooldownHonoured
<1>2. QED
    BY <1>1, LoopInvariant, PTL
=============================================================================
