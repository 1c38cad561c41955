------------------------------ MODULE ClaimBook ------------------------------
(***************************************************************************)
(* What trades.jsonl promises its reader about claims, whatever happens to *)
(* the process that writes it: a filled trade is opened at most once, an   *)
(* open claim is settled only when no outcome tokens are left, a settled   *)
(* or abandoned claim stays so, and when lines are lost they are the last  *)
(* ones: in a torn rewrite, or one of them in an append that is glued to   *)
(* it.                                                                     *)
(***************************************************************************)
EXTENDS Integers

CONSTANT Trades

VARIABLES
    status,       \* what the file says of each trade
    gone,         \* the trades with no tokens left at the funder address
    filledTrades  \* the trades that were filled

vars == <<status, gone, filledTrades>>

Init ==
    /\ status = [t \in Trades |-> "absent"]
    /\ gone = {}
    /\ filledTrades = {}

WithoutLast ==
    [t \in Trades |-> IF \E u \in Trades : u > t /\ status[u] # "absent"
                      THEN status[t] ELSE "absent"]

(* A trade is filled; its record is appended, or cannot be read, or        *)
(* neither can the last one, to which it is glued.                         *)
Open(t) ==
    /\ t \notin filledTrades
    /\ filledTrades' = filledTrades \union {t}
    /\ status' \in {status, [status EXCEPT ![t] = "Pending"], WithoutLast}
    /\ gone' = gone

(* The tokens of a filled trade leave the wallet: redeemed or sold.        *)
Leave(t) ==
    /\ t \in filledTrades
    /\ gone' = gone \union {t}
    /\ UNCHANGED <<status, filledTrades>>

Settle(t) ==
    /\ status[t] = "Pending"
    /\ t \in gone
    /\ status' = [status EXCEPT ![t] = "Success"]
    /\ UNCHANGED <<gone, filledTrades>>

Abandon(t) ==
    /\ status[t] = "Pending"
    /\ status' = [status EXCEPT ![t] = "Failed"]
    /\ UNCHANGED <<gone, filledTrades>>

(* A rewrite is torn: the line of t and those after it are lost. *)
Tear(t) ==
    /\ status' = [u \in Trades |-> IF u < t THEN status[u] ELSE "absent"]
    /\ UNCHANGED <<gone, filledTrades>>

Next == \E t \in Trades : Open(t) \/ Leave(t) \/ Settle(t) \/ Abandon(t) \/ Tear(t)

Spec == Init /\ [][Next]_vars
=============================================================================
