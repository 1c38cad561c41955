------------------------- MODULE TradingCycleProofs -------------------------
(***************************************************************************)
(* What a window is bought and recorded, for windows, checkpoints and      *)
(* cleanups of every length, any number of windows and of restarts.        *)
(***************************************************************************)
EXTENDS TradingCycle, FiniteSetTheorems, TLAPS

(* The cycle under way works on a window the clock has reached, one it has *)
(* not dealt with and not recorded.                                        *)
Reached ==
    /\ processed \subseteq 0..WindowOf(now)
    /\ pc # "idle" => /\ window <= WindowOf(now)
                      /\ window \notin processed
                      /\ recorded[window] = 0

(* A window that may still be entered, or is about to be, has a restart or *)
(* its first entry to its credit; later ones have no buy yet.              *)
Enterable(w) ==
    /\ w >= WindowOf(now) \/ (w = window /\ pc # "idle")
    /\ w \notin processed
    /\ ~InSettlement(w)

CreditLeft ==
    \A w \in Windows :
        /\ bought[w] - unseen[w] <= 1 + restarts[w]
        /\ bought[w] <= MaxOrders * (1 + restarts[w])
        /\ Enterable(w) => /\ bought[w] - unseen[w] <= restarts[w]
                           /\ bought[w] <= MaxOrders * restarts[w]
        /\ w > WindowOf(now) => bought[w] = 0 /\ unseen[w] = 0

(* There is room for the window of the cycle under way.                    *)
RoomLeft ==
    /\ Cardinality(processed) <= MaxProcessed
    /\ pc # "idle" => Cardinality(processed) < MaxProcessed

CycleInv ==
    /\ TypeOK
    /\ Reached
    /\ CreditLeft
    /\ BuysAreAccounted
    /\ OneRecordPerWindow
    /\ RoomLeft

USE WindowAssumption, BoundAssumption

-----------------------------------------------------------------------------
(* The windows of the clock.                                               *)

(* A tick lies in its window.                                              *)
LEMMA WindowBounds ==
    ASSUME NEW t \in Nat
    PROVE  /\ WindowOf(t) \in Nat
           /\ WindowOf(t) * WindowLen <= t
           /\ t < CloseOf(WindowOf(t))
BY DEF WindowOf, CloseOf

(* A tick before the close of a window is in it or in an earlier one.      *)
LEMMA BeforeClose ==
    ASSUME NEW t \in Nat, NEW w \in Nat, t < CloseOf(w)
    PROVE  WindowOf(t) <= w
<1>1. SUFFICES ASSUME WindowOf(t) > w PROVE FALSE
    BY WindowBounds
<1>2. WindowOf(t) * WindowLen <= t /\ WindowOf(t) \in Nat
    BY WindowBounds
<1>3. WindowOf(t) >= w + 1
    BY <1>1, <1>2
<1>4. WindowOf(t) * WindowLen >= (w + 1) * WindowLen
    BY <1>2, <1>3
<1>5. QED
    BY <1>2, <1>4 DEF CloseOf

(* The clock never goes back to an earlier window.                         *)
LEMMA WindowsPass ==
    ASSUME NEW t \in Nat
    PROVE  WindowOf(t) <= WindowOf(t + 1)
<1>1. t < CloseOf(WindowOf(t + 1))
    BY WindowBounds, t + 1 \in Nat, t + 1 < CloseOf(WindowOf(t + 1)) DEF CloseOf
<1>2. QED
    BY <1>1, BeforeClose, WindowBounds, t + 1 \in Nat

(* Closes and settlements are points of the clock.                         *)
LEMMA CloseNat ==
    ASSUME NEW w \in Nat
    PROVE  CloseOf(w) \in Nat /\ SettleTime(w) \in Nat /\ CloseOf(w) <= SettleTime(w)
BY DEF CloseOf, SettleTime

-----------------------------------------------------------------------------
(* So many more for a window, and as many for the others.                  *)
LEMMA Added ==
    ASSUME NEW count \in [Windows -> Nat], NEW w \in Windows, NEW k \in Nat
    PROVE  /\ Plus(count, w, k) \in [Windows -> Nat]
           /\ \A v \in Windows : Plus(count, w, k)[v] = IF v = w THEN count[v] + k ELSE count[v]
BY DEF Plus, Windows

(* One more for a window, and as many for the others.                      *)
LEMMA Bumped ==
    ASSUME NEW count \in [Windows -> Nat], NEW w \in Windows
    PROVE  /\ Bump(count, w) \in [Windows -> Nat]
           /\ \A v \in Windows : Bump(count, w)[v] = IF v = w THEN count[v] + 1 ELSE count[v]
BY Added DEF Bump

(* An entry more may post as many orders more.                             *)
LEMMA OrdersPerEntry ==
    ASSUME NEW r \in Nat
    PROVE  /\ MaxOrders * r \in Nat
           /\ MaxOrders * (1 + r) = MaxOrders * r + MaxOrders
           /\ MaxOrders * (r + 1) = MaxOrders * r + MaxOrders
OBVIOUS

(* What an entry, or a crash in it, adds: as many orders as it may post at *)
(* most, one of them reported if it is settled.                            *)
LEMMA EntryAdds ==
    ASSUME TypeOK, EnterAndFill \/ EnterUnseen \/ Crash
    PROVE  \E n \in 0..MaxOrders, seen \in 0..1 :
              /\ \A v \in Windows :
                    /\ bought'[v] = IF v = window THEN bought[v] + n ELSE bought[v]
                    /\ bought'[v] - unseen'[v] = IF v = window THEN bought[v] - unseen[v] + seen
                                                 ELSE bought[v] - unseen[v]
              /\ bought' \in [Windows -> Nat] /\ unseen' \in [Windows -> Nat]
              /\ seen = (IF EnterAndFill THEN 1 ELSE 0)
              /\ Crash /\ pc # "entry" => n = 0
<1>0. /\ window \in Windows /\ bought \in [Windows -> Nat] /\ unseen \in [Windows -> Nat]
      /\ \A v \in Windows : bought[v] \in Nat /\ unseen[v] \in Nat
    BY DEF TypeOK
<1>1. ASSUME NEW n \in 0..MaxOrders, NEW m \in Nat, NEW seen \in 0..1, n = m + seen,
             bought' = Plus(bought, window, n), unseen' = Plus(unseen, window, m)
      PROVE  /\ \A v \in Windows :
                    /\ bought'[v] = IF v = window THEN bought[v] + n ELSE bought[v]
                    /\ bought'[v] - unseen'[v] = IF v = window THEN bought[v] - unseen[v] + seen
                                                 ELSE bought[v] - unseen[v]
             /\ bought' \in [Windows -> Nat] /\ unseen' \in [Windows -> Nat]
    <2>1. n \in Nat
        OBVIOUS
    <2>2. /\ bought' \in [Windows -> Nat]
          /\ \A v \in Windows : bought'[v] = IF v = window THEN bought[v] + n ELSE bought[v]
        BY <1>0, <1>1, <2>1, Added
    <2>3. /\ unseen' \in [Windows -> Nat]
          /\ \A v \in Windows : unseen'[v] = IF v = window THEN unseen[v] + m ELSE unseen[v]
        <3>1. m \in Nat /\ unseen' = Plus(unseen, window, m)
            BY <1>1
        <3>2. unseen \in [Windows -> Nat] /\ window \in Windows
            BY <1>0
        <3>3. Plus(unseen, window, m) \in [Windows -> Nat]
            BY <3>1, <3>2, Added
        <3>4. \A v \in Windows :
                 Plus(unseen, window, m)[v] = IF v = window THEN unseen[v] + m ELSE unseen[v]
            BY <3>1, <3>2, Added
        <3>5. QED
            BY <3>1, <3>3, <3>4
    <2>4. QED
        BY <1>0, <1>1, <2>1, <2>2, <2>3
<1>2. CASE EnterAndFill
    <2>1. PICK missed \in 0..MaxOrders - 1 :
             /\ bought' = Plus(bought, window, missed + 1)
             /\ unseen' = Plus(unseen, window, missed)
        BY <1>2 DEF EnterAndFill
    <2>2. missed + 1 \in 0..MaxOrders /\ missed \in Nat /\ 1 \in 0..1
        BY <2>1
    <2>3. ~(Crash /\ pc # "entry")
        BY <1>2 DEF EnterAndFill
    <2>4. QED
        BY <1>1, <1>2, <2>1, <2>2, <2>3
<1>3. CASE EnterUnseen /\ ~EnterAndFill
    <2>1. PICK missed \in 1..MaxOrders :
             /\ bought' = Plus(bought, window, missed)
             /\ unseen' = Plus(unseen, window, missed)
        BY <1>3 DEF EnterUnseen
    <2>2. missed \in 0..MaxOrders /\ missed \in Nat /\ 0 \in 0..1 /\ missed = missed + 0
        BY <2>1
    <2>3. ~(Crash /\ pc # "entry")
        BY <1>3 DEF EnterUnseen
    <2>4. /\ \A v \in Windows :
                 /\ bought'[v] = IF v = window THEN bought[v] + missed ELSE bought[v]
                 /\ bought'[v] - unseen'[v] = IF v = window THEN bought[v] - unseen[v] + 0
                                              ELSE bought[v] - unseen[v]
          /\ bought' \in [Windows -> Nat] /\ unseen' \in [Windows -> Nat]
        BY <1>1, <2>1, <2>2
    <2>5. QED
        BY <1>3, <2>2, <2>3, <2>4
<1>4. CASE Crash /\ ~EnterAndFill
    <2>1. PICK left \in 0..MaxOrders :
             /\ pc # "entry" => left = 0
             /\ bought' = Plus(bought, window, left)
             /\ unseen' = Plus(unseen, window, left)
        BY <1>4 DEF Crash
    <2>2. left \in Nat /\ 0 \in 0..1 /\ left = left + 0
        BY <2>1
    <2>3. QED
        BY <1>1, <1>4, <2>1, <2>2
<1>5. QED
    BY <1>2, <1>3, <1>4

(* A cleanup only removes windows.                                         *)
LEMMA CleanedSubset ==
    ASSUME NEW w
    PROVE  Cleaned(w) \subseteq processed
BY DEF Cleaned

(* Every step keeps the types.                                             *)
LEMMA CycleTypeOK == TypeOK /\ [Next]_vars => TypeOK'
<1> SUFFICES ASSUME TypeOK, [Next]_vars PROVE TypeOK'
    OBVIOUS
<1> USE DEF TypeOK
<1>0. now \in Nat /\ WindowOf(now) \in Nat /\ Horizon \in Nat
    BY CloseNat, WindowBounds DEF Horizon
<1>1. CASE BeginCycle
    <2>1. processed' = Cleaned(WindowOf(now))
        BY <1>1 DEF BeginCycle
    <2>2. processed' \subseteq Windows
        BY <2>1, CleanedSubset
    <2>3. CASE pc' = "idle"
        <3>1. window' = window
            BY <1>1, <2>3 DEF BeginCycle
        <3>2. QED
            BY <1>1, <2>2, <2>3, <3>1 DEF BeginCycle, history
    <2>4. CASE pc' # "idle"
        <3>1. pc' = "wait" /\ window' = WindowOf(now) /\ ~(WindowOf(now) > LastWindow)
            BY <1>1, <2>4 DEF BeginCycle
        <3>2. window' \in Windows
            BY <1>0, <3>1 DEF Windows
        <3>3. QED
            BY <1>1, <2>2, <3>1, <3>2 DEF BeginCycle, history
    <2>5. QED
        BY <2>3, <2>4
<1>2. CASE ReachCheckpoint
    BY <1>2 DEF ReachCheckpoint, Finish, history
<1>3. CASE LookupMarket
    <2>1. allow' \in BOOLEAN
        BY <1>3, Zenon DEF LookupMarket
    <2>2. retries' \in 0..MaxRetries
        BY <1>3 DEF LookupMarket
    <2>3. QED
        BY <1>3, <2>1, <2>2 DEF LookupMarket, Finish, history
<1>4. CASE SelectSide
    <2>1. PICK up \in Asks, down \in Asks :
             LET mayRetry == IF retries = 0
                             THEN MaxRetries > 0 /\ {up, down} \subseteq {"low", "band"}
                             ELSE allow
             IN  \/ /\ "band" \in {up, down}
                    /\ pc' = "entry"
                    /\ UNCHANGED <<retries, allow, processed>>
                 \/ /\ "band" \notin {up, down}
                    /\ mayRetry /\ RetriesLeft
                    /\ retries' = retries + 1
                    /\ allow' = mayRetry
                    /\ UNCHANGED <<pc, processed>>
                 \/ /\ "band" \notin {up, down}
                    /\ ~(mayRetry /\ RetriesLeft)
                    /\ Finish
                    /\ UNCHANGED <<retries, allow>>
        BY <1>4 DEF SelectSide
    <2>2. UNCHANGED <<now, window, history>>
        BY <1>4 DEF SelectSide
    <2>3. retries' \in 0..MaxRetries
        BY <2>1 DEF RetriesLeft
    <2>4. allow' \in BOOLEAN
        BY <2>1, Zenon
    <2>5. processed' \subseteq Windows
        BY <2>1 DEF Finish
    <2>6. pc' \in {"idle", "wait", "lookup", "select", "entry", "settle"}
        BY <2>1 DEF Finish
    <2>7. QED
        BY <2>2, <2>3, <2>4, <2>5, <2>6 DEF history
<1>5. CASE EnterAndFill \/ EnterUnseen \/ EnterInVain \/ EnterError
    <2>1. bought' \in [Windows -> Nat] /\ unseen' \in [Windows -> Nat]
        BY <1>5, EntryAdds DEF EnterInVain, EnterError, history
    <2>2. processed' \subseteq Windows /\ pc' \in {"idle", "settle"}
        BY <1>5 DEF EnterAndFill, EnterUnseen, EnterInVain, EnterError, Finish
    <2>3. UNCHANGED <<now, window, retries, allow, recorded, dropped, lost, restarts>>
        BY <1>5 DEF EnterAndFill, EnterUnseen, EnterInVain, EnterError, history
    <2>4. QED
        BY <2>1, <2>2, <2>3
<1>6. CASE Settle
    <2>1. recorded' \in [Windows -> Nat] /\ dropped' \in [Windows -> Nat]
        BY <1>6, Bumped DEF Settle
    <2>2. QED
        BY <1>6, <2>1 DEF Settle, Finish
<1>7. CASE Crash
    <2>1. lost' \in [Windows -> Nat] /\ restarts' \in [Windows -> Nat]
        BY <1>7, Bumped DEF Crash
    <2>2. window' \in Windows /\ retries' \in 0..MaxRetries
        BY <1>7 DEF Crash, Windows
    <2>3. bought' \in [Windows -> Nat] /\ unseen' \in [Windows -> Nat]
        BY <1>7, EntryAdds
    <2>4. QED
        BY <1>7, <2>1, <2>2, <2>3 DEF Crash
<1>8. CASE Tick
    BY <1>0, <1>8 DEF Tick, history
<1>9. CASE UNCHANGED vars
    BY <1>9 DEF vars, history
<1>10. QED
    BY <1>1, <1>2, <1>3, <1>4, <1>5, <1>6, <1>7, <1>8, <1>9 DEF Next, Cycle

(* The initial state satisfies the invariant.                              *)
LEMMA CycleInit == Init => CycleInv
<1> SUFFICES ASSUME Init PROVE CycleInv
    OBVIOUS
<1>1. Zero \in [Windows -> Nat] /\ \A w \in Windows : Zero[w] = 0
    BY DEF Zero
<1>2. Horizon \in Nat /\ WindowOf(0) \in Nat /\ 0 \in Windows
    BY CloseNat, WindowBounds DEF Horizon, Windows
<1>3. TypeOK
    <2>1. 0 \in 0..Horizon /\ 0 \in 0..MaxRetries /\ {} \subseteq Windows
        BY <1>2
    <2>2. QED
        BY <1>1, <1>2, <2>1 DEF Init, TypeOK
<1>4. Cardinality({}) = 0
    BY FS_EmptySet
<1>5. QED
    BY <1>1, <1>2, <1>3, <1>4
       DEF Init, CycleInv, Reached, CreditLeft, Enterable, BuysAreAccounted,
           OneRecordPerWindow, RoomLeft, InSettlement, Windows

(* The state of the cycle is always of its types.                          *)
THEOREM CycleTypeCorrect == Spec => []TypeOK
<1>1. Init => TypeOK
    BY CycleInit DEF CycleInv
<1>2. QED
    BY <1>1, CycleTypeOK, PTL DEF Spec

-----------------------------------------------------------------------------
(* What a step of the cycle is to the windows: processed, the window of    *)
(* the cycle and the counts.                                               *)

(* Every step of the cycle leaves the clock alone.                         *)
LEMMA CycleIsInstant ==
    ASSUME Cycle \/ Crash
    PROVE  now' = now
BY DEF Cycle, Crash, BeginCycle, ReachCheckpoint, LookupMarket, SelectSide, EnterAndFill,
       EnterUnseen, EnterInVain, EnterError, Settle

(* Up to the entry a cycle goes on with its window or marks it.            *)
LEMMA BeforeEntry ==
    ASSUME ReachCheckpoint \/ LookupMarket \/ SelectSide \/ EnterInVain
    PROVE  /\ pc \in {"wait", "lookup", "select", "entry"}
           /\ \/ pc' \in {"lookup", "select", "entry"} /\ processed' = processed
              \/ Finish
           /\ UNCHANGED <<now, window, history>>
BY DEF ReachCheckpoint, LookupMarket, SelectSide, EnterInVain, Finish

(* Beginning a cycle cleans up, and takes the window of the clock if it is *)
(* not dealt with.                                                         *)
LEMMA Beginning ==
    ASSUME BeginCycle
    PROVE  /\ pc = "idle"
           /\ processed' = Cleaned(WindowOf(now))
           /\ \/ pc' = "idle" /\ window' = window
              \/ /\ pc' = "wait" /\ window' = WindowOf(now)
                 /\ WindowOf(now) \notin processed' /\ ~(WindowOf(now) > LastWindow)
           /\ UNCHANGED <<now, retries, allow, history>>
BY DEF BeginCycle

(* A window is marked only by the cycle that reached it.                   *)
LEMMA MarkedReached ==
    ASSUME TypeOK, Reached, pc # "idle", now' = now, pc' = "idle",
           processed' \in {processed, processed \union {window}}
    PROVE  Reached'
<1>1. window \in 0..WindowOf(now)
    BY WindowBounds DEF TypeOK, Reached, Windows
<1>2. processed' \subseteq 0..WindowOf(now)
    BY <1>1 DEF Reached
<1>3. QED
    BY <1>2 DEF Reached

(* Every step keeps the cycle on a window reached and not dealt with.      *)
LEMMA ReachedStep ==
    ASSUME CycleInv, TypeOK', [Next]_vars
    PROVE  Reached'
<1> USE DEF CycleInv, TypeOK, Reached
<1>0. now \in Nat /\ now' \in Nat /\ WindowOf(now) \in Nat /\ WindowOf(now') \in Nat
    BY CloseNat, WindowBounds DEF Horizon
<1>1. CASE BeginCycle
    <2>1. processed' \subseteq 0..WindowOf(now')
        BY <1>1, Beginning, CleanedSubset
    <2>2. recorded' = recorded /\ now' = now
        BY <1>1, Beginning DEF history
    <2>3. CASE pc' = "idle"
        BY <2>1, <2>3
    <2>4. CASE pc' # "idle"
        <3>1. window' = WindowOf(now) /\ WindowOf(now) \notin processed'
              /\ WindowOf(now) \in Windows
            BY <1>0, <1>1, <2>4, Beginning DEF Windows
        <3>2. now < CloseOf(WindowOf(now))
            BY <1>0, WindowBounds
        <3>3. recorded[WindowOf(now)] = 0
            <4> DEFINE w == WindowOf(now)
            <4>1. w \in Windows /\ CloseOf(w) \in Nat /\ recorded[w] \in Nat
                BY <1>0, <3>1, CloseNat
            <4>2. recorded[w] <= 1 /\ (recorded[w] = 1 => now >= CloseOf(w))
                BY <4>1 DEF OneRecordPerWindow
            <4> HIDE DEF w
            <4>3. now < CloseOf(w)
                BY <3>2 DEF w
            <4>4. recorded[w] = 0
                BY <1>0, <4>1, <4>2, <4>3
            <4>5. QED
                BY <4>4 DEF w
        <3>4. QED
            BY <1>0, <2>1, <2>2, <3>1, <3>3
    <2>5. QED
        BY <2>3, <2>4
<1>2. CASE ReachCheckpoint \/ LookupMarket \/ SelectSide \/ EnterInVain
    <2>1. CASE Finish
        BY <1>2, <2>1, BeforeEntry, MarkedReached DEF Finish
    <2>2. CASE ~Finish
        <3>1. UNCHANGED <<now, window, processed, recorded>> /\ pc # "idle"
            BY <1>2, <2>2, BeforeEntry DEF history
        <3>2. QED
            BY <3>1
    <2>3. QED
        BY <2>1, <2>2
<1>3. CASE EnterAndFill
    BY <1>3 DEF EnterAndFill
<1>4. CASE EnterUnseen \/ EnterError
    BY <1>4, MarkedReached DEF EnterUnseen, EnterError, Finish
<1>5. CASE Settle
    BY <1>5, MarkedReached DEF Settle, Finish
<1>6. CASE Crash
    BY <1>6 DEF Crash
<1>7. CASE Tick
    <2>1. WindowOf(now) <= WindowOf(now')
        BY <1>0, <1>7, WindowsPass DEF Tick
    <2>2. QED
        <3>1. UNCHANGED <<pc, window, processed, recorded>> /\ window \in Nat
            BY <1>7 DEF Tick, history, Windows
        <3>2. 0..WindowOf(now) \subseteq 0..WindowOf(now')
            BY <1>0, <2>1
        <3>3. QED
            BY <1>0, <2>1, <3>1, <3>2
<1>8. CASE UNCHANGED vars
    BY <1>8 DEF vars, history
<1>9. QED
    BY <1>1, <1>2, <1>3, <1>4, <1>5, <1>6, <1>7, <1>8 DEF Next, Cycle

(* Every step keeps the buys accounted.                                    *)
LEMMA AccountStep ==
    ASSUME CycleInv, TypeOK', [Next]_vars
    PROVE  BuysAreAccounted'
<1> SUFFICES ASSUME NEW w \in Windows
             PROVE  bought'[w] = recorded'[w] + unseen'[w] + dropped'[w] + lost'[w]
                                 + (IF InSettlement(w)' THEN 1 ELSE 0)
    BY DEF BuysAreAccounted
<1>0. /\ TypeOK /\ window \in Windows
      /\ bought[w] = recorded[w] + unseen[w] + dropped[w] + lost[w]
                     + (IF InSettlement(w) THEN 1 ELSE 0)
    BY DEF CycleInv, BuysAreAccounted, TypeOK
<1> USE DEF InSettlement, TypeOK
<1>1. CASE BeginCycle
    BY <1>0, <1>1, Beginning DEF history
<1>2. CASE ReachCheckpoint \/ LookupMarket \/ SelectSide \/ EnterInVain
    BY <1>0, <1>2, BeforeEntry DEF history, Finish
<1>3. CASE EnterAndFill
    <2>1. bought'[w] - unseen'[w] = bought[w] - unseen[w] + (IF w = window THEN 1 ELSE 0)
        BY <1>0, <1>3, EntryAdds
    <2>2. bought[w] \in Nat /\ unseen[w] \in Nat /\ bought'[w] \in Nat /\ unseen'[w] \in Nat
        BY <1>0
    <2>3. UNCHANGED <<window, recorded, dropped, lost>> /\ pc = "entry" /\ pc' = "settle"
        BY <1>3 DEF EnterAndFill
    <2>4. recorded[w] \in Nat /\ dropped[w] \in Nat /\ lost[w] \in Nat
        BY <1>0
    <2>5. QED
        BY <1>0, <2>1, <2>2, <2>3, <2>4
<1>4. CASE EnterUnseen
    <2>1. bought'[w] - unseen'[w] = bought[w] - unseen[w] /\ pc = "entry" /\ ~EnterAndFill
        <3>1. ~EnterAndFill
            BY <1>4 DEF EnterUnseen, EnterAndFill, Finish
        <3>2. QED
            BY <1>0, <1>4, <3>1, EntryAdds DEF EnterUnseen
    <2>2. QED
        BY <1>0, <1>4, <2>1 DEF EnterUnseen, Finish
<1>5. CASE EnterError \/ Tick
    BY <1>0, <1>5 DEF EnterError, Tick, history
<1>6. CASE Settle
    <2>1. recorded'[w] + dropped'[w] = recorded[w] + dropped[w] + (IF w = window THEN 1 ELSE 0)
        <3>1. CASE recorded' = Bump(recorded, window) /\ dropped' = dropped
            BY <1>0, <3>1, Bumped
        <3>2. CASE dropped' = Bump(dropped, window) /\ recorded' = recorded
            BY <1>0, <3>2, Bumped
        <3>3. QED
            BY <1>6, <3>1, <3>2 DEF Settle
    <2>2. /\ bought' = bought /\ unseen' = unseen /\ lost' = lost
          /\ pc' = "idle" /\ pc = "settle"
        BY <1>6 DEF Settle, Finish
    <2>3. QED
        BY <1>0, <2>1, <2>2
<1>7. CASE Crash
    <2>1. lost'[w] = lost[w] + (IF InSettlement(w) THEN 1 ELSE 0)
        <3>1. CASE pc = "settle"
            BY <1>0, <1>7, <3>1, Bumped DEF Crash
        <3>2. CASE pc # "settle"
            BY <1>0, <1>7, <3>2 DEF Crash
        <3>3. QED
            BY <3>1, <3>2
    <2>2. UNCHANGED <<recorded, dropped>> /\ pc' = "idle"
        BY <1>7 DEF Crash
    <2>3. bought'[w] - unseen'[w] = bought[w] - unseen[w]
        <3>1. ~EnterAndFill
            BY <1>7 DEF Crash, EnterAndFill
        <3>2. QED
            BY <1>0, <1>7, <3>1, EntryAdds
    <2>4. QED
        BY <1>0, <2>1, <2>2, <2>3
<1>8. CASE UNCHANGED vars
    BY <1>0, <1>8 DEF vars, history
<1>9. QED
    BY <1>1, <1>2, <1>3, <1>4, <1>5, <1>6, <1>7, <1>8 DEF Next, Cycle

(* Every step keeps a window's one record, made after its close.           *)
LEMMA RecordStep ==
    ASSUME CycleInv, TypeOK', [Next]_vars
    PROVE  OneRecordPerWindow'
<1> SUFFICES ASSUME NEW w \in Windows
             PROVE  recorded'[w] <= 1 /\ (recorded'[w] = 1 => now' >= CloseOf(w))
    BY DEF OneRecordPerWindow, CloseOf
<1> USE DEF TypeOK
<1>0. /\ TypeOK /\ recorded[w] <= 1 /\ (recorded[w] = 1 => now >= CloseOf(w))
      /\ now \in Nat /\ CloseOf(w) \in Nat
    <2>1. TypeOK /\ OneRecordPerWindow
        BY DEF CycleInv
    <2>2. Horizon \in Nat /\ w \in Nat
        BY CloseNat DEF Windows, Horizon
    <2>3. now \in Nat /\ CloseOf(w) \in Nat
        BY <2>1, <2>2, CloseNat
    <2>4. QED
        BY <2>1, <2>3 DEF OneRecordPerWindow
<1>1. CASE Settle
    <2>1. now' = now /\ now >= CloseOf(window) /\ window \in Windows
        <3>1. window \in Nat /\ now >= SettleTime(window)
            BY <1>0, <1>1 DEF Settle, SettlementReached, Windows
        <3>2. QED
            BY <1>0, <1>1, <3>1, CloseNat DEF Settle
    <2>2. recorded[window] = 0
        BY <1>1 DEF Settle, CycleInv, Reached
    <2>3. recorded'[w] = recorded[w] \/ (w = window /\ recorded'[w] = 1)
        BY <1>0, <1>1, <2>1, <2>2, Bumped DEF Settle
    <2>4. QED
        BY <1>0, <2>1, <2>3
<1>2. CASE Tick
    BY <1>0, <1>2 DEF Tick, history
<1>3. CASE ~Settle /\ ~Tick
    <2>1. recorded' = recorded /\ now' = now
        BY <1>3, BeforeEntry, Beginning
           DEF Next, Cycle, EnterAndFill, EnterUnseen, EnterError, Crash, vars, history
    <2>2. QED
        BY <1>0, <2>1
<1>4. QED
    BY <1>1, <1>2, <1>3

(* A buy is made in the window of the clock, and takes its credit.         *)
LEMMA BuyingNow ==
    ASSUME CycleInv, EnterAndFill \/ EnterUnseen
    PROVE  /\ window \in Windows /\ window = WindowOf(now)
           /\ window \notin processed /\ ~InSettlement(window)
           /\ bought[window] - unseen[window] <= restarts[window]
           /\ bought[window] <= MaxOrders * restarts[window]
<1>1. window \in Windows /\ window \in Nat /\ now \in Nat /\ pc = "entry"
    BY CloseNat DEF CycleInv, TypeOK, Windows, Horizon, EnterAndFill, EnterUnseen
<1>2. window <= WindowOf(now) /\ window \notin processed
    BY <1>1 DEF CycleInv, Reached
<1>3. WindowOf(now) <= window
    BY <1>1, BeforeClose DEF EnterAndFill, EnterUnseen
<1>4. window = WindowOf(now)
    <2>1. WindowOf(now) \in Nat
        BY <1>1, WindowBounds
    <2>2. QED
        BY <1>1, <1>2, <1>3, <2>1
<1>5. QED
    BY <1>1, <1>2, <1>4 DEF CycleInv, CreditLeft, Enterable, InSettlement

(* Every step keeps the credit of every window.                            *)
LEMMA CreditStep ==
    ASSUME CycleInv, TypeOK', [Next]_vars
    PROVE  CreditLeft'
<1> SUFFICES ASSUME NEW w \in Windows
             PROVE  /\ bought'[w] - unseen'[w] <= 1 + restarts'[w]
                    /\ bought'[w] <= MaxOrders * (1 + restarts'[w])
                    /\ Enterable(w)' => /\ bought'[w] - unseen'[w] <= restarts'[w]
                                        /\ bought'[w] <= MaxOrders * restarts'[w]
                    /\ w > WindowOf(now') => bought'[w] = 0 /\ unseen'[w] = 0
    BY DEF CreditLeft, WindowOf
<1>0. /\ w \in Nat /\ now \in Nat /\ WindowOf(now) \in Nat /\ window \in Windows
      /\ window \in Nat /\ bought[w] \in Nat /\ unseen[w] \in Nat /\ restarts[w] \in Nat
    <2>1. Horizon \in Nat /\ TypeOK
        BY CloseNat DEF Horizon, CycleInv
    <2>2. now \in Nat /\ w \in Nat /\ window \in Nat
        BY <2>1 DEF TypeOK, Windows
    <2>3. QED
        BY <2>1, <2>2, WindowBounds DEF TypeOK
<1>1. /\ bought[w] - unseen[w] <= 1 + restarts[w]
      /\ bought[w] <= MaxOrders * (1 + restarts[w])
      /\ Enterable(w) => /\ bought[w] - unseen[w] <= restarts[w]
                         /\ bought[w] <= MaxOrders * restarts[w]
      /\ w > WindowOf(now) => bought[w] = 0 /\ unseen[w] = 0
    BY DEF CycleInv, CreditLeft
<1>m. /\ MaxOrders * restarts[w] \in Nat
      /\ MaxOrders * (1 + restarts[w]) = MaxOrders * restarts[w] + MaxOrders
      /\ MaxOrders * (restarts[w] + 1) = MaxOrders * restarts[w] + MaxOrders
    BY <1>0, OrdersPerEntry
<1>k. ASSUME UNCHANGED <<bought, unseen, restarts>>, WindowOf(now) <= WindowOf(now'),
             Enterable(w)' => Enterable(w), WindowOf(now') \in Nat
      PROVE  /\ bought'[w] - unseen'[w] <= 1 + restarts'[w]
             /\ bought'[w] <= MaxOrders * (1 + restarts'[w])
             /\ Enterable(w)' => /\ bought'[w] - unseen'[w] <= restarts'[w]
                                 /\ bought'[w] <= MaxOrders * restarts'[w]
             /\ w > WindowOf(now') => bought'[w] = 0 /\ unseen'[w] = 0
    BY <1>0, <1>1, <1>k
<1> USE DEF Enterable, InSettlement
<1>2. CASE BeginCycle
    <2>1. /\ UNCHANGED <<now, bought, unseen, restarts>>
          /\ pc = "idle" /\ pc' # "settle" /\ (pc' = "idle" \/ window' = WindowOf(now))
        BY <1>2, Beginning DEF history
    <2>2. w >= WindowOf(now) /\ w \notin processed' => w \notin processed
        BY <1>0, <1>2, Beginning DEF Cleaned
    <2>3. WindowOf(now') = WindowOf(now)
        BY <2>1
    <2>4. Enterable(w)' => Enterable(w)
        BY <1>0, <2>1, <2>2, <2>3
    <2>5. QED
        BY <1>0, <1>k, <2>1, <2>3, <2>4
<1>3. CASE ReachCheckpoint \/ LookupMarket \/ SelectSide \/ EnterInVain
    <2>1. /\ UNCHANGED <<now, window, bought, unseen, restarts>>
          /\ pc # "idle" /\ pc # "settle" /\ pc' # "settle"
          /\ w \notin processed' => w \notin processed
        BY <1>3, BeforeEntry DEF Finish, history
    <2>2. WindowOf(now') = WindowOf(now)
        BY <2>1
    <2>3. Enterable(w)' => Enterable(w)
        BY <2>1, <2>2
    <2>4. QED
        BY <1>0, <1>k, <2>1, <2>2, <2>3
<1>4. CASE EnterAndFill \/ EnterUnseen
    <2>1. /\ window = WindowOf(now) /\ window \notin processed /\ ~InSettlement(window)
          /\ bought[window] - unseen[window] <= restarts[window]
          /\ bought[window] <= MaxOrders * restarts[window]
        BY <1>4, BuyingNow
    <2>2. /\ restarts' = restarts /\ now' = now /\ window' = window
          /\ w \notin processed' => w \notin processed
        BY <1>4 DEF EnterAndFill, EnterUnseen, Finish
    <2>3. PICK n \in 0..MaxOrders, seen \in 0..1 :
             /\ bought'[w] = IF w = window THEN bought[w] + n ELSE bought[w]
             /\ bought'[w] - unseen'[w] = IF w = window THEN bought[w] - unseen[w] + seen
                                          ELSE bought[w] - unseen[w]
             /\ bought' \in [Windows -> Nat] /\ unseen' \in [Windows -> Nat]
        BY <1>4, EntryAdds DEF CycleInv
    <2>4. window \in processed' \/ pc' = "settle"
        BY <1>4 DEF EnterAndFill, EnterUnseen, Finish
    <2>5. WindowOf(now') = WindowOf(now) /\ bought'[w] \in Nat /\ unseen'[w] \in Nat
        BY <2>2, <2>3
    <2>6. CASE w = window
        <3>1. ~Enterable(w)'
            BY <2>2, <2>4, <2>6
        <3>2. bought'[w] - unseen'[w] <= 1 + restarts'[w]
            BY <1>0, <2>1, <2>2, <2>3, <2>6
        <3>3. bought'[w] <= MaxOrders * (1 + restarts'[w])
            BY <1>0, <1>m, <2>1, <2>2, <2>3, <2>6
        <3>4. ~(w > WindowOf(now'))
            BY <1>0, <2>1, <2>5, <2>6
        <3>5. QED
            BY <3>1, <3>2, <3>3, <3>4
    <2>7. CASE w # window
        <3>1. Enterable(w)' => Enterable(w)
            BY <2>2, <2>5, <2>7
        <3>2. bought'[w] = bought[w] /\ unseen'[w] = unseen[w]
            BY <1>0, <2>3, <2>5, <2>7
        <3>3. QED
            BY <1>1, <2>2, <2>5, <3>1, <3>2
    <2>8. QED
        BY <2>6, <2>7
<1>5. CASE EnterError
    <2>1. UNCHANGED <<now, window, processed, bought, unseen, restarts>>
          /\ pc = "entry" /\ pc' = "idle"
        BY <1>5 DEF EnterError, history
    <2>2. WindowOf(now') = WindowOf(now)
        BY <2>1
    <2>3. QED
        BY <1>0, <1>k, <2>1, <2>2
<1>6. CASE Settle
    <2>1. UNCHANGED <<now, window, bought, unseen, restarts>>
          /\ pc = "settle" /\ pc' = "idle" /\ processed' = processed \union {window}
        BY <1>6 DEF Settle, Finish
    <2>2. WindowOf(now') = WindowOf(now)
        BY <2>1
    <2>3. QED
        BY <1>0, <1>k, <2>1, <2>2
<1>7. CASE Crash
    <2>1. /\ now' = now /\ pc' = "idle" /\ ~EnterAndFill
          /\ restarts' = Bump(restarts, WindowOf(now)) /\ WindowOf(now) \in Windows
        BY <1>7 DEF Crash, EnterAndFill
    <2>2. restarts'[w] = IF w = WindowOf(now) THEN restarts[w] + 1 ELSE restarts[w]
        BY <2>1, Bumped DEF CycleInv, TypeOK
    <2>3. PICK n \in 0..MaxOrders :
             /\ bought'[w] = IF w = window THEN bought[w] + n ELSE bought[w]
             /\ bought'[w] - unseen'[w] = bought[w] - unseen[w]
             /\ unseen' \in [Windows -> Nat]
             /\ pc # "entry" => n = 0
        BY <1>0, <1>7, <2>1, EntryAdds DEF CycleInv
    <2>4. WindowOf(now') = WindowOf(now) /\ unseen'[w] \in Nat
        BY <2>1, <2>3
    <2>5. CASE w = window /\ pc = "entry"
        <3>1. Enterable(w) /\ w <= WindowOf(now)
            BY <2>5 DEF CycleInv, Reached
        <3>2. bought'[w] <= MaxOrders * restarts[w] + MaxOrders
            BY <1>0, <1>1, <1>m, <2>3, <2>5, <3>1
        <3>3. CASE w = WindowOf(now)
            <4>1. restarts'[w] = restarts[w] + 1
                BY <2>2, <3>3
            <4>2. MaxOrders * (1 + restarts'[w]) = MaxOrders * (restarts[w] + 1) + MaxOrders
                BY <1>0, <4>1, OrdersPerEntry
            <4>3. QED
                BY <1>0, <1>1, <1>m, <2>3, <2>4, <3>1, <3>2, <3>3, <4>1, <4>2
        <3>4. CASE w # WindowOf(now)
            <4>1. ~Enterable(w)' /\ restarts'[w] = restarts[w] /\ ~(w > WindowOf(now'))
                BY <1>0, <2>1, <2>2, <2>4, <3>1, <3>4
            <4>2. QED
                BY <1>0, <1>1, <1>m, <2>3, <3>2, <4>1
        <3>5. QED
            BY <3>3, <3>4
    <2>6. CASE ~(w = window /\ pc = "entry")
        <3>1. bought'[w] = bought[w] /\ unseen'[w] = unseen[w]
            BY <1>0, <2>3, <2>4, <2>6
        <3>2. CASE w = WindowOf(now)
            <4>1. restarts'[w] = restarts[w] + 1
                BY <2>2, <3>2
            <4>2. MaxOrders * (1 + restarts'[w]) = MaxOrders * (restarts[w] + 1) + MaxOrders
                BY <1>0, <4>1, OrdersPerEntry
            <4>3. QED
                BY <1>0, <1>1, <1>m, <2>4, <3>1, <3>2, <4>1, <4>2
        <3>3. CASE w # WindowOf(now)
            <4>1. restarts'[w] = restarts[w]
                BY <2>2, <3>3
            <4>2. Enterable(w)' => w > WindowOf(now)
                BY <1>0, <2>1, <2>4, <3>3
            <4>3. QED
                BY <1>0, <1>1, <1>m, <2>4, <3>1, <4>1, <4>2
        <3>4. QED
            BY <3>2, <3>3
    <2>7. QED
        BY <2>5, <2>6
<1>8. CASE Tick
    <2>1. WindowOf(now) <= WindowOf(now') /\ WindowOf(now') \in Nat
        BY <1>0, <1>8, WindowsPass, WindowBounds DEF Tick
    <2>2. UNCHANGED <<pc, window, processed, bought, unseen, restarts>>
        BY <1>8 DEF Tick, history
    <2>3. QED
        BY <1>0, <1>k, <2>1, <2>2
<1>9. CASE UNCHANGED vars
    <2>1. WindowOf(now') = WindowOf(now)
        BY <1>9 DEF vars
    <2>2. QED
        BY <1>0, <1>k, <1>9, <2>1 DEF vars, history
<1>10. QED
    BY <1>2, <1>3, <1>4, <1>5, <1>6, <1>7, <1>8, <1>9 DEF Next, Cycle

(* Every step keeps room for a window: a cleanup leaves those it keeps.    *)
LEMMA RoomStep ==
    ASSUME CycleInv, TypeOK', [Next]_vars
    PROVE  RoomLeft'
<1>0. now \in Nat /\ WindowOf(now) \in Nat /\ processed \subseteq 0..WindowOf(now)
    <2>1. Horizon \in Nat
        BY CloseNat DEF Horizon
    <2>2. QED
        BY <2>1, WindowBounds DEF CycleInv, TypeOK, Reached
<1>1. IsFiniteSet(processed) /\ Cardinality(processed) \in Nat
    <2>1. IsFiniteSet(0..WindowOf(now))
        BY <1>0, FS_Interval
    <2>2. QED
        BY <1>0, <2>1, FS_Subset, FS_CardinalityType
<1> USE DEF CycleInv, RoomLeft
<1>2. ASSUME pc # "idle", Finish
      PROVE  RoomLeft'
    <2>1. Cardinality(processed') <= Cardinality(processed) + 1
        BY <1>1, <1>2, FS_AddElement DEF Finish
    <2>2. Cardinality(processed') \in Nat
        BY <1>1, <1>2, FS_AddElement, FS_CardinalityType DEF Finish
    <2>3. QED
        BY <1>1, <1>2, <2>1, <2>2 DEF Finish
<1>3. CASE BeginCycle
    <2>1. Cardinality(processed') < MaxProcessed
        <3>1. CASE Cardinality(processed) < MaxProcessed
            BY <1>3, <3>1, Beginning DEF Cleaned
        <3>2. CASE ~(Cardinality(processed) < MaxProcessed)
            <4> DEFINE kept == (WindowOf(now) - KeepWindows)..WindowOf(now)
            <4>1. processed' \subseteq kept
                <5>1. processed' = {p \in processed : p >= WindowOf(now) - KeepWindows}
                    BY <1>3, <3>2, Beginning, Zenon DEF Cleaned
                <5>2. SUFFICES ASSUME NEW p \in processed' PROVE p \in kept
                    BY Zenon
                <5>3. p \in processed /\ p >= WindowOf(now) - KeepWindows
                    BY <5>1
                <5>4. p \in Nat /\ p <= WindowOf(now)
                    BY <1>0, <5>3
                <5>5. QED
                    BY <1>0, <5>3, <5>4
            <4>2. IsFiniteSet(kept) /\ Cardinality(kept) = KeepWindows + 1
                <5>1. WindowOf(now) - KeepWindows \in Int /\ WindowOf(now) \in Int
                    BY <1>0
                <5>2. /\ IsFiniteSet(kept)
                      /\ Cardinality(kept) =
                            IF WindowOf(now) - KeepWindows > WindowOf(now) THEN 0
                            ELSE WindowOf(now) - (WindowOf(now) - KeepWindows) + 1
                    BY <5>1, FS_Interval
                <5>3. QED
                    BY <1>0, <5>2
            <4>3. Cardinality(processed') <= KeepWindows + 1
                BY <4>1, <4>2, FS_Subset
            <4>4. Cardinality(processed') \in Nat
                BY <4>1, <4>2, FS_Subset, FS_CardinalityType
            <4>5. QED
                BY <4>3, <4>4
        <3>3. QED
            BY <3>1, <3>2
    <2>2. IsFiniteSet(processed') /\ Cardinality(processed') \in Nat
        BY <1>1, <1>3, Beginning, CleanedSubset, FS_Subset, FS_CardinalityType
    <2>3. QED
        BY <2>1, <2>2
<1>4. CASE ReachCheckpoint \/ LookupMarket \/ SelectSide \/ EnterInVain
    BY <1>2, <1>4, BeforeEntry
<1>5. CASE EnterUnseen \/ Settle
    BY <1>2, <1>5 DEF EnterUnseen, Settle
<1>6. CASE EnterAndFill \/ EnterError
    BY <1>6 DEF EnterAndFill, EnterError
<1>7. CASE Crash
    BY <1>7, FS_EmptySet DEF Crash
<1>8. CASE Tick \/ UNCHANGED vars
    BY <1>8 DEF Tick, vars
<1>9. QED
    BY <1>3, <1>4, <1>5, <1>6, <1>7, <1>8 DEF Next, Cycle

-----------------------------------------------------------------------------
(* The invariant of the cycle.                                             *)
THEOREM CycleInvariant == Spec => []CycleInv
<1>1. CycleInv /\ [Next]_vars => CycleInv'
    BY CycleTypeOK, ReachedStep, CreditStep, AccountStep, RecordStep, RoomStep DEF CycleInv
<1>2. QED
    BY <1>1, CycleInit, PTL DEF Spec

(* A window sees one reported buy, and one more for each restart in it;    *)
(* what trades unreported is no more than its entries may post.            *)
THEOREM OneBuyAlways == Spec => []OneBuyPerWindow
<1>1. CycleInv => OneBuyPerWindow
    BY DEF CycleInv, CreditLeft, OneBuyPerWindow
<1>2. QED
    BY <1>1, CycleInvariant, PTL

(* Every buy is recorded once, unseen, unresolved, lost to a crash or      *)
(* still settling.                                                         *)
THEOREM BuysAlwaysAccounted == Spec => []BuysAreAccounted
<1>1. CycleInv => BuysAreAccounted
    BY DEF CycleInv
<1>2. QED
    BY <1>1, CycleInvariant, PTL

(* No two records share a window, and none is made before its close.       *)
THEOREM OneRecordAlways == Spec => []OneRecordPerWindow
<1>1. CycleInv => OneRecordPerWindow
    BY DEF CycleInv
<1>2. QED
    BY <1>1, CycleInvariant, PTL

(* The set of processed windows never outgrows its cleanup.                *)
THEOREM ProcessedAlwaysBounded == Spec => []ProcessedIsBounded
<1>1. CycleInv => ProcessedIsBounded
    BY DEF CycleInv, RoomLeft, ProcessedIsBounded
<1>2. QED
    BY <1>1, CycleInvariant, PTL
=============================================================================
