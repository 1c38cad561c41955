----------------------------- MODULE TradingLoop -----------------------------
(***************************************************************************)
(* The main loop of run_orchestrator and the Telegram listener it spawns.  *)
(* The two tasks share one AtomicBool, `paused`: the listener sets it from *)
(* /pause and /resume, the loop reads it at the top of each pass and sets  *)
(* it when the loss guard trips.  pause_notice_sent, paused_by_loss_limit, *)
(* losses_since_resume and the cooldown are local to the loop.             *)
(*                                                                         *)
(* A trading cycle is one interval here: what it does is in OrderEntry,    *)
(* and the claim sweep of each pass is in Claims.                          *)
(***************************************************************************)
EXTENDS Integers, Sequences

CONSTANTS
    LossLimit,    \* TOTAL_LOSS_TRADES, 0 for no guard
    HasCooldown,  \* LOSS_COOLDOWN_MINUTES > 0
    Enabled,      \* the Telegram token and chat id are set
    MaxCommands,  \* bound: updates the chat ever holds
    MaxLosses     \* bound: the loss counter

ASSUME LimitAssumption == LossLimit \in Nat /\ HasCooldown \in BOOLEAN
ASSUME BoundAssumption == MaxCommands \in Nat /\ MaxLosses \in Nat
ASSUME EnabledAssumption == Enabled \in BOOLEAN

Commands == {"/pause", "/resume", "other"}
Outcomes == {"None", "Win", "Loss", "Err"}

VARIABLES
    pc,          \* the loop: at the top, past the pause check, in a cycle, hung
    paused,      \* the shared flag
    noticeSent,  \* pause_notice_sent
    byGuard,     \* paused_by_loss_limit
    losses,      \* losses_since_resume
    cooldown,    \* loss_cooldown_until_sec is set
    resting,     \* the clock has not reached the end of the last cooldown begun
    primed,      \* the listener: update_offset_primed
    offset,      \* updates the listener has taken
    batch,       \* last update of the batch it is handling
    sent,        \* the updates of the chat, on Telegram's side
    confirmed,   \* updates Telegram will not deliver again
    \* history, read by the properties only
    backlog,     \* updates sent before this process started
    dropped,     \* updates the listener skipped without looking at them
    lossRun,     \* losses since the start or the last /resume handled
    lastRun,     \* lossRun of the process before, unless /resume came since
    excused,     \* the process that began the last cooldown is gone
    tail         \* cycles that ended in the present pause, 2 for more than one

loop     == <<pc, noticeSent, byGuard, losses, cooldown>>
listener == <<primed, offset, batch>>
chat     == <<sent, confirmed>>
history  == <<backlog, dropped, lossRun, lastRun, excused, tail>>
vars     == <<loop, resting, paused, listener, chat, history>>

TypeOK ==
    /\ pc \in {"top", "checked", "cycle", "hung"}
    /\ paused \in BOOLEAN
    /\ noticeSent \in BOOLEAN
    /\ byGuard \in BOOLEAN
    /\ losses \in Nat
    /\ cooldown \in BOOLEAN
    /\ resting \in BOOLEAN
    /\ primed \in BOOLEAN
    /\ offset \in Nat
    /\ batch \in Nat
    /\ sent \in Seq(Commands)
    /\ confirmed \in Nat
    /\ backlog \in Nat
    /\ dropped \subseteq Nat
    /\ lossRun \in Nat /\ lastRun \in Nat
    /\ excused \in BOOLEAN
    /\ tail \in 0..2

(* A fresh process over a chat that may already hold an update.            *)
Init ==
    /\ pc = "top"
    /\ paused = FALSE
    /\ noticeSent = FALSE
    /\ byGuard = FALSE
    /\ losses = 0
    /\ cooldown = FALSE
    /\ resting = FALSE
    /\ primed = FALSE
    /\ lossRun = 0
    /\ lastRun = 0
    /\ excused = FALSE
    /\ tail = 0
    /\ dropped = {}
    /\ sent \in UNION {[1..n -> Commands] : n \in 0..1}
    /\ MaxCommands = 0 => sent = <<>>
    /\ confirmed = 0
    /\ offset = 0
    /\ batch = 0
    /\ backlog = Len(sent)

-----------------------------------------------------------------------------
(* The loop.                                                               *)

\* A loop that only honours the pauses it made itself.
HaltedByGuardOnly == paused /\ byGuard

Halted == paused

(* is_paused at the top of the loop: tell once, sleep, start over.         *)
StayPaused ==
    /\ pc = "top"
    /\ Halted
    /\ noticeSent' = TRUE
    /\ UNCHANGED <<pc, byGuard, losses, cooldown, resting, paused, listener, chat, history>>

\* A reset that pays the losses off instead, and underflows.
CounterPaidOff == IF byGuard THEN losses - LossLimit - 1 ELSE losses

CounterAfterResume == IF byGuard THEN 0 ELSE losses

(* Not paused: if a pause was seen before, this is the resume.             *)
PassPauseCheck ==
    /\ pc = "top"
    /\ ~Halted
    /\ pc' = "checked"
    /\ noticeSent' = FALSE
    /\ IF noticeSent THEN /\ losses' = CounterAfterResume
                          /\ byGuard' = FALSE
                     ELSE UNCHANGED <<losses, byGuard>>
    /\ UNCHANGED <<cooldown, resting, paused, listener, chat, history>>

\* A cooldown test that is the wrong way round, and one that never ends.
CoolingWhenOver == cooldown /\ ~resting
CoolingForever == cooldown

Cooling == cooldown /\ resting

StayCool ==
    /\ pc = "checked"
    /\ Cooling
    /\ pc' = "top"
    /\ UNCHANGED <<noticeSent, byGuard, losses, cooldown, resting, paused, listener, chat, history>>

StartCycle ==
    /\ pc = "checked"
    /\ ~Cooling
    /\ cooldown' = FALSE
    /\ pc' = "cycle"
    /\ UNCHANGED <<noticeSent, byGuard, losses, resting, paused, listener, chat, history>>

\* A loss guard that trips only once.
GuardTripsOnce == LossLimit > 0 /\ losses + 1 >= LossLimit /\ ~paused /\ ~byGuard

(* The loss guard does nothing when the flag is already set.               *)
GuardTrips == LossLimit > 0 /\ losses + 1 >= LossLimit /\ ~paused

(* A loss that pauses trading starts no cooldown.                          *)
StartsCooldown == HasCooldown /\ ~GuardTrips

EndCycle(outcome) ==
    /\ pc = "cycle"
    /\ pc' = "top"
    /\ IF outcome = "Loss"
       THEN /\ losses < MaxLosses
            /\ losses' = losses + 1
            /\ lossRun' = lossRun + 1
            /\ byGuard' = (byGuard \/ GuardTrips)
            /\ paused' = (paused \/ GuardTrips)
            /\ cooldown' = (cooldown \/ StartsCooldown)
            /\ resting' = (resting \/ StartsCooldown)
            /\ excused' = (excused /\ ~StartsCooldown)
       ELSE UNCHANGED <<losses, lossRun, byGuard, paused, cooldown, resting, excused>>
    /\ tail' = IF paused /\ tail < 2 THEN tail + 1 ELSE tail
    /\ UNCHANGED <<noticeSent, listener, chat, backlog, dropped, lastRun>>

(* A pass begins with a sweep of the claims and a cycle ends with one: an  *)
(* RPC request of it that is never answered (Claims, Hang) holds the loop  *)
(* up until the process is restarted.  The listener goes on.               *)
Hang ==
    /\ pc \in {"top", "cycle"}
    /\ pc' = "hung"
    /\ UNCHANGED <<noticeSent, byGuard, losses, cooldown, resting, paused, listener, chat, history>>

CooldownElapses ==
    /\ resting
    /\ resting' = FALSE
    /\ UNCHANGED <<loop, paused, listener, chat, history>>

-----------------------------------------------------------------------------
(* The listener.                                                           *)

\* A listener that does not skip what it finds at its first poll.
SkipsNothing == FALSE

SkipsFirstBatch == ~primed

(* A long poll returns: it confirms what precedes its offset and brings    *)
(* the updates in the chat by now.  The first answer only sets the offset; *)
(* whatever it brings, sent before or after the start, is skipped.         *)
Poll ==
    /\ Enabled
    /\ offset = batch
    /\ primed' = TRUE
    /\ confirmed' = offset
    /\ batch' = Len(sent)
    /\ IF SkipsFirstBatch
       THEN /\ offset' = Len(sent)
            /\ dropped' = dropped \union (offset + 1 .. Len(sent))
       ELSE UNCHANGED <<offset, dropped>>
    /\ UNCHANGED <<loop, resting, paused, sent, backlog, lossRun, lastRun, excused, tail>>

PausedAfter(command) ==
    CASE command = "/pause"  -> TRUE
      [] command = "/resume" -> FALSE
      [] OTHER -> paused

(* The offset moves first, then the command is obeyed and answered.        *)
Handle ==
    /\ offset < batch
    /\ offset' = offset + 1
    /\ paused' = PausedAfter(sent[offset + 1])
    /\ IF sent[offset + 1] = "/resume" THEN lossRun' = 0 /\ lastRun' = 0
                                       ELSE UNCHANGED <<lossRun, lastRun>>
    /\ tail' = IF paused' THEN tail ELSE 0
    /\ UNCHANGED <<loop, resting, primed, batch, chat, backlog, dropped, excused>>

-----------------------------------------------------------------------------
SendCommand(command) ==
    /\ Len(sent) < MaxCommands
    /\ sent' = Append(sent, command)
    /\ UNCHANGED <<loop, resting, paused, listener, confirmed, history>>

(* Nothing of this module is persisted: a restart forgets the pause, the   *)
(* counter and the cooldown, though the clock has not reached its end, and *)
(* skips the updates not yet confirmed.                                    *)
Restart ==
    /\ pc' = "top"
    /\ paused' = FALSE
    /\ noticeSent' = FALSE
    /\ byGuard' = FALSE
    /\ losses' = 0
    /\ cooldown' = FALSE
    /\ excused' = resting
    /\ primed' = FALSE
    /\ lastRun' = lossRun
    /\ lossRun' = 0
    /\ tail' = 0
    /\ dropped' = {}
    /\ offset' = confirmed
    /\ batch' = confirmed
    /\ backlog' = Len(sent)
    /\ UNCHANGED <<resting, chat>>

Loop ==
    \/ StayPaused \/ PassPauseCheck \/ StayCool \/ StartCycle
    \/ \E outcome \in Outcomes : EndCycle(outcome)

Listener == Poll \/ Handle

Next ==
    \/ Loop \/ Hang
    \/ CooldownElapses
    \/ Listener
    \/ \E command \in Commands : SendCommand(command)
    \/ Restart

Spec == Init /\ [][Next]_vars

(* Each task is scheduled, the clock advances and Telegram answers polls;  *)
(* every request of a cycle has a timeout but those of its sweep (Hang).   *)
FairSpec ==
    /\ Spec
    /\ WF_vars(Loop)
    /\ WF_vars(Listener)
    /\ WF_vars(CooldownElapses)

-----------------------------------------------------------------------------
(* The loss guard holds: no cycle runs once the losses since the start or  *)
(* since the last /resume reached TOTAL_LOSS_TRADES, however /pause and    *)
(* /resume interleave with the cycle and with the guard.  The counter and  *)
(* the pause are not persisted, but a process that is restarted has lost   *)
(* no more than the limit: with n restarts and no /resume between, the     *)
(* losses stay under n + 1 limits.                                         *)
GuardHolds ==
    (LossLimit > 0 /\ pc = "cycle") => lossRun < LossLimit /\ lastRun <= LossLimit

(* A pause lets at most the cycle under way come to its end.               *)
PauseStopsTrading == tail <= 1

(* No command sent before the process started is ever obeyed, as long as   *)
(* one answer holds all that waits (getUpdates: 100 updates).              *)
StaleNeverObeyed == offset < batch => offset >= backlog

(* With LOSS_COOLDOWN_MINUTES, no cycle runs before the last cooldown      *)
(* begun has elapsed, except in a process started since: the cooldown is   *)
(* in memory only, and a restart cuts it short.                            *)
CooldownHonoured == pc = "cycle" /\ resting => excused

(* The log says "loss counter reset after /resume": once a pause by the    *)
(* guard is lifted, the next cycle starts with the guard reset.            *)
GuardIsResetByResume == pc = "cycle" => ~byGuard

(* The start message offers /pause, /resume and /status: a command sent    *)
(* after the start is not skipped.                                         *)
CommandsAreHeard == \A n \in dropped : n <= backlog

(* A pause that is not lifted ends trading.                                *)
PauseIsObeyed == <>[]paused => <>[](pc # "cycle")

(* Once the loop is neither paused nor restarted any more, cycles go on,   *)
(* through cooldowns, failures and losses: an RPC request of a sweep that  *)
(* is never answered is the only thing that stops them.                    *)
TradingGoesOn ==
    (<>[](~paused) /\ <>[][~Restart]_vars) =>
        []<>(pc = "cycle") \/ <>[](pc = "hung")
=============================================================================
