--------------------------- MODULE EntryContract ----------------------------
(***************************************************************************)
(* What run_cycle relies on when it calls execute_live_entry: orders may   *)
(* trade while the entry runs, and the fill it returns is what the trade   *)
(* is booked with.  There are no polls here, no retries and no clock.      *)
(*                                                                         *)
(* While the exchange can be trusted one order trades at most, nothing     *)
(* trades after the return, and the fill returned is all that was traded.  *)
(* Once it cannot, a fill may be missed; it is still never made up.        *)
(***************************************************************************)
CONSTANT Orders

Fills == {"none", "part", "all"}

VARIABLES
    traded,    \* how much of each order was traded
    returned,  \* the entry is over
    reported,  \* the fill it returned
    trusted    \* polls are frequent enough, and nothing went wrong so far

vars == <<traded, returned, reported, trusted>>

Init ==
    /\ traded = [o \in Orders |-> "none"]
    /\ returned = FALSE
    /\ reported = "none"
    /\ trusted \in BOOLEAN

Active == {o \in Orders : traded[o] # "none"}

(* An order trades, for the first time or the rest of it.                  *)
Trade(o, fill) ==
    /\ traded[o] # "all" /\ fill # "none"
    /\ traded' = [traded EXCEPT ![o] = fill]
    /\ trusted => ~returned /\ Active \subseteq {o}
    /\ UNCHANGED <<returned, reported, trusted>>

(* The fills that may be returned, surely the right one or perhaps a       *)
(* missed one.                                                             *)
MayReport(sure) ==
    IF sure THEN {f \in Fills : /\ f = "none" <=> Active = {}
                                /\ \A o \in Active : traded[o] = f}
            ELSE {"none"} \union {traded[o] : o \in Active}

(* The entry returns; what it is told last may be what goes wrong.         *)
Return ==
    /\ ~returned
    /\ returned' = TRUE
    /\ trusted' \in {trusted, FALSE}
    /\ reported' \in MayReport(trusted')
    /\ UNCHANGED traded

Distrust ==
    /\ trusted' = FALSE
    /\ UNCHANGED <<traded, returned, reported>>

Next ==
    \/ \E o \in Orders, fill \in Fills : Trade(o, fill)
    \/ Return
    \/ Distrust

Spec == Init /\ [][Next]_vars
=============================================================================
