-------------------------- MODULE PostFillSellProofs ---------------------------
(***************************************************************************)
(* The exit order, for every size, step, number of checks and retries:     *)
(* while no SELL is accepted unseen it offers the portion at most, reports *)
(* what the exchange has, and needs one cut to the balance; whatever is    *)
(* unseen it offers no more than the wallet holds, and comes to an end.    *)
(*                                                                         *)
(* The totals over the tries are folds.  Their lemmas come first: a fold   *)
(* over the subsets of Tries exists, it is a natural number, and a change  *)
(* at one try changes it by as much.                                       *)
(***************************************************************************)
EXTENDS PostFillSell, FiniteSetTheorems, WellFoundedInduction, TLAPS

USE SizeAssumption, RetryAssumption, LossyAssumption

-----------------------------------------------------------------------------
(* Induction for a set of naturals.                                        *)
LEMMA Induction ==
    ASSUME NEW S \in SUBSET Nat, 0 \in S, \A n \in S : n + 1 \in S
    PROVE  \A n \in Nat : n \in S
<1> SUFFICES ASSUME Nat \ S # {} PROVE FALSE
    OBVIOUS
<1>1. \A x, y \in Nat : <<y, x>> \in OpToRel(<, Nat) <=> y < x
    BY SMT DEF OpToRel
<1>2. Nat \ S \subseteq Nat
    OBVIOUS
<1>3. PICK x \in Nat \ S : \A y \in Nat \ S : ~(<<y, x>> \in OpToRel(<, Nat))
    BY <1>2, NatLessThanWellFounded, WFMin
<1>4. x \in Nat /\ x # 0 /\ x \notin S
    BY <1>3
<1>5. x - 1 \in Nat /\ x - 1 < x
    BY <1>4
<1>6. x - 1 \in S
    BY <1>1, <1>3, <1>4, <1>5, Zenon
<1>7. (x - 1) + 1 \in S
    BY <1>6
<1>8. QED
    BY <1>4, <1>7

Chosen(s) == CHOOSE a \in s : TRUE

(* One round of the fold that Total is.                                    *)
Round(f, g) ==
    [s \in SUBSET Tries |->
        IF s = {} THEN 0 ELSE f[Chosen(s)] + g[s \ {Chosen(s)}]]

Partial(f) == CHOOSE g : g = Round(f, g)

Small(n) == {s \in SUBSET Tries : Cardinality(s) <= n}

(* The total is the last of the partial ones.                              *)
LEMMA TotalIsPartial ==
    ASSUME NEW f \in [Tries -> Nat]
    PROVE  Total(f) = Partial(f)[Tries]
<1>1. Total(f) = (CHOOSE g : g = [s \in SUBSET (DOMAIN f) |->
                     IF s = {} THEN 0 ELSE f[Chosen(s)] + g[s \ {Chosen(s)}]])[DOMAIN f]
    BY Zenon DEF Total, FoldFunction, FoldFunctionOnSet, MapThenFoldSet, Chosen
<1>2. DOMAIN f = Tries
    OBVIOUS
<1>3. QED
    BY <1>1, <1>2, Zenon DEF Partial, Round

(* The sets of tries by their size: without its chosen try a set is        *)
(* smaller, and no set is larger than Tries.                               *)
LEMMA SmallSets ==
    /\ Small(0) = {{}}
    /\ \A n \in Nat : \A s \in Small(n + 1) :
          s # {} => Chosen(s) \in s /\ Chosen(s) \in Tries /\ s \ {Chosen(s)} \in Small(n)
    /\ \A s \in SUBSET Tries : s \in Small(MaxRetries)
<1>1. IsFiniteSet(Tries) /\ Cardinality(Tries) = MaxRetries
    BY FS_Interval DEF Tries
<1>2. ASSUME NEW s \in SUBSET Tries
      PROVE  IsFiniteSet(s) /\ Cardinality(s) \in Nat /\ Cardinality(s) <= MaxRetries
    BY <1>1, FS_Subset, FS_CardinalityType
<1>3. Small(0) = {{}}
    BY <1>2, FS_EmptySet DEF Small
<1>4. ASSUME NEW n \in Nat, NEW s \in Small(n + 1), s # {}
      PROVE  Chosen(s) \in s /\ Chosen(s) \in Tries /\ s \ {Chosen(s)} \in Small(n)
    <2>1. s \in SUBSET Tries /\ Cardinality(s) <= n + 1
        BY DEF Small
    <2>2. Chosen(s) \in s
        BY <1>4 DEF Chosen
    <2>3. Cardinality(s \ {Chosen(s)}) = Cardinality(s) - 1
        BY <1>2, <2>1, <2>2, FS_RemoveElement
    <2>4. QED
        BY <1>2, <2>1, <2>2, <2>3 DEF Small
<1>5. QED
    BY <1>2, <1>3, <1>4 DEF Small

(* The fold exists.                                                        *)
LEMMA PartialExists ==
    ASSUME NEW f \in [Tries -> Nat]
    PROVE  Partial(f) = Round(f, Partial(f))
<1> DEFINE good(g, n) == \A s \in Small(n) : g[s] = Round(f, g)[s]
           S == {n \in Nat : \E g \in [SUBSET Tries -> Nat] : good(g, n)}
<1>1. ASSUME NEW g \in [SUBSET Tries -> Nat]
      PROVE  Round(f, g) \in [SUBSET Tries -> Nat]
    <2>1. ASSUME NEW s \in SUBSET Tries, s # {}
          PROVE  f[Chosen(s)] + g[s \ {Chosen(s)}] \in Nat
        <3>1. Chosen(s) \in Tries /\ s \ {Chosen(s)} \in SUBSET Tries
            BY <2>1 DEF Chosen
        <3>2. QED
            BY <3>1
    <2>2. QED
        BY <2>1 DEF Round
<1>2. 0 \in S
    <2>1. PICK g : g = [s \in SUBSET Tries |-> 0]
        OBVIOUS
    <2>2. good(g, 0)
        BY <2>1, SmallSets DEF Round
    <2>3. QED
        BY <2>1, <2>2
<1>3. ASSUME NEW n \in S PROVE n + 1 \in S
    <2>1. PICK g \in [SUBSET Tries -> Nat] : good(g, n)
        OBVIOUS
    <2>2. PICK h \in [SUBSET Tries -> Nat] : h = Round(f, g)
        BY <1>1
    <2>3. ASSUME NEW s \in Small(n + 1) PROVE h[s] = Round(f, h)[s]
        <3>1. s \in SUBSET Tries
            BY DEF Small
        <3>2. CASE s = {}
            BY <2>2, <3>1, <3>2 DEF Round
        <3>3. CASE s # {}
            <4>1. s \ {Chosen(s)} \in Small(n)
                BY <3>3, SmallSets
            <4>2. g[s \ {Chosen(s)}] = h[s \ {Chosen(s)}]
                BY <2>1, <2>2, <4>1
            <4>3. QED
                BY <2>2, <3>1, <3>3, <4>2 DEF Round
        <3>4. QED
            BY <3>2, <3>3
    <2>4. QED
        BY <2>2, <2>3
<1>4. MaxRetries \in S
    <2> HIDE DEF S
    <2>1. S \in SUBSET Nat
        BY DEF S
    <2>2. QED
        BY <1>2, <1>3, <2>1, Induction
<1>5. PICK g \in [SUBSET Tries -> Nat] : good(g, MaxRetries)
    BY <1>4
<1>6. g = Round(f, g)
    <2>1. \A s \in SUBSET Tries : g[s] = Round(f, g)[s]
        BY <1>5, SmallSets
    <2>2. PICK h \in [SUBSET Tries -> Nat] : h = Round(f, g)
        BY <1>1
    <2>3. \A s \in SUBSET Tries : g[s] = h[s]
        BY <2>1, <2>2
    <2>4. g = h
        BY <2>3
    <2>5. QED
        BY <2>2, <2>4
<1>7. QED
    BY <1>6, Zenon DEF Partial

(* So the partial totals of a set are those of a smaller one and a value.  *)
LEMMA PartialIs ==
    ASSUME NEW f \in [Tries -> Nat]
    PROVE  /\ Partial(f)[{}] = 0
           /\ \A s \in SUBSET Tries :
                 s # {} => Partial(f)[s] = f[Chosen(s)] + Partial(f)[s \ {Chosen(s)}]
<1> DEFINE g == Partial(f)
<1>1. g = Round(f, g)
    BY PartialExists
<1>2. \A s \in SUBSET Tries : Round(f, g)[s] = IF s = {} THEN 0 ELSE f[Chosen(s)] + g[s \ {Chosen(s)}]
    BY DEF Round
<1> HIDE DEF g
<1>3. \A s \in SUBSET Tries : g[s] = IF s = {} THEN 0 ELSE f[Chosen(s)] + g[s \ {Chosen(s)}]
    BY <1>1, <1>2, Zenon
<1>4. QED
    BY <1>3 DEF g

(* An induction over the sets of tries, stated for a set of sets.          *)
LEMMA SetInduction ==
    ASSUME NEW T \in SUBSET (SUBSET Tries), {} \in T,
           \A s \in SUBSET Tries : s # {} /\ s \ {Chosen(s)} \in T => s \in T
    PROVE  Tries \in T
<1> DEFINE S == {n \in Nat : Small(n) \subseteq T}
<1>1. 0 \in S
    BY SmallSets
<1>2. ASSUME NEW n \in S PROVE n + 1 \in S
    <2>1. ASSUME NEW s \in Small(n + 1) PROVE s \in T
        BY <2>1, SmallSets DEF Small
    <2>2. QED
        BY <2>1
<1>3. MaxRetries \in S
    <2> HIDE DEF S
    <2>1. S \in SUBSET Nat
        BY DEF S
    <2>2. QED
        BY <1>1, <1>2, <2>1, Induction
<1>4. QED
    BY <1>3, SmallSets

(* A total is a natural number; ...                                        *)
LEMMA TotalIsNat ==
    ASSUME NEW f \in [Tries -> Nat]
    PROVE  Total(f) \in Nat
<1> DEFINE T == {s \in SUBSET Tries : Partial(f)[s] \in Nat}
<1>1. {} \in T
    BY PartialIs
<1>2. ASSUME NEW s \in SUBSET Tries, s # {}, s \ {Chosen(s)} \in T
      PROVE  s \in T
    <2>1. Chosen(s) \in Tries
        BY <1>2 DEF Chosen
    <2>2. f[Chosen(s)] \in Nat /\ Partial(f)[s \ {Chosen(s)}] \in Nat
        BY <1>2, <2>1
    <2>3. Partial(f)[s] = f[Chosen(s)] + Partial(f)[s \ {Chosen(s)}]
        BY <1>2, PartialIs
    <2>4. QED
        BY <2>2, <2>3
<1>3. Tries \in T
    <2> HIDE DEF T
    <2>1. T \in SUBSET (SUBSET Tries)
        BY DEF T
    <2>2. QED
        BY <1>1, <1>2, <2>1, SetInduction
<1>4. QED
    BY <1>3, TotalIsPartial

(* ... that of nothing is 0; ...                                           *)
LEMMA TotalOfNothing == Total([a \in Tries |-> 0]) = 0
<1>1. PICK f \in [Tries -> Nat] : f = [a \in Tries |-> 0]
    OBVIOUS
<1> DEFINE T == {s \in SUBSET Tries : Partial(f)[s] = 0}
<1>2. {} \in T
    BY PartialIs
<1>3. ASSUME NEW s \in SUBSET Tries, s # {}, s \ {Chosen(s)} \in T
      PROVE  s \in T
    <2>1. Chosen(s) \in Tries
        BY <1>3 DEF Chosen
    <2>2. f[Chosen(s)] = 0 /\ Partial(f)[s \ {Chosen(s)}] = 0
        BY <1>1, <1>3, <2>1
    <2>3. Partial(f)[s] = f[Chosen(s)] + Partial(f)[s \ {Chosen(s)}]
        BY <1>3, PartialIs
    <2>4. QED
        BY <2>2, <2>3
<1>4. Tries \in T
    <2> HIDE DEF T
    <2>1. T \in SUBSET (SUBSET Tries)
        BY DEF T
    <2>2. QED
        BY <1>2, <1>3, <2>1, SetInduction
<1>5. Total(f) = 0
    BY <1>4, TotalIsPartial
<1>6. QED
    BY <1>1, <1>5

(* ... and a change at one try changes it by as much.                      *)
LEMMA TotalOfChange ==
    ASSUME NEW f \in [Tries -> Nat], NEW a \in Tries, NEW v \in Nat
    PROVE  Total([f EXCEPT ![a] = v]) = Total(f) - f[a] + v
<1>1. PICK h \in [Tries -> Nat] : h = [f EXCEPT ![a] = v]
    OBVIOUS
<1> DEFINE more(s) == IF a \in s THEN v - f[a] ELSE 0
           T == {s \in SUBSET Tries : /\ Partial(f)[s] \in Nat
                                      /\ Partial(h)[s] = Partial(f)[s] + more(s)}
<1>2. {} \in T
    BY PartialIs
<1>3. ASSUME NEW s \in SUBSET Tries, s # {}, s \ {Chosen(s)} \in T
      PROVE  s \in T
    <2>1. PICK c \in s : c = Chosen(s)
        BY <1>3 DEF Chosen
    <2>2. /\ Partial(f)[s \ {c}] \in Nat
          /\ Partial(h)[s \ {c}] = Partial(f)[s \ {c}] + more(s \ {c})
        BY <1>3, <2>1
    <2>3. Partial(f)[s] = f[c] + Partial(f)[s \ {c}]
        BY <1>3, <2>1, PartialIs
    <2>4. Partial(h)[s] = h[c] + Partial(h)[s \ {c}]
        BY <1>3, <2>1, PartialIs
    <2>5. h[c] = IF c = a THEN v ELSE f[c]
        BY <1>1
    <2>6. f[c] \in Nat /\ f[a] \in Nat
        OBVIOUS
    <2>7. more(s) = IF c = a THEN v - f[a] ELSE more(s \ {c})
        BY <2>1
    <2>8. more(s \ {c}) = 0 \/ more(s \ {c}) = v - f[a]
        OBVIOUS
    <2>9. c = a => more(s \ {c}) = 0
        OBVIOUS
    <2> HIDE DEF more
    <2>10. Partial(f)[s] \in Nat
        BY <2>2, <2>3, <2>6
    <2>11. Partial(h)[s] = Partial(f)[s] + more(s)
        BY <2>2, <2>3, <2>4, <2>5, <2>6, <2>7, <2>8, <2>9
    <2>12. QED
        BY <2>10, <2>11
<1>4. Tries \in T
    <2> HIDE DEF T
    <2>1. T \in SUBSET (SUBSET Tries)
        BY DEF T
    <2>2. QED
        BY <1>2, <1>3, <2>1, SetInduction
<1>5. Total(h) = Total(f) + (v - f[a]) /\ Total(f) \in Nat
    BY <1>4, TotalIsPartial
<1>6. f[a] \in Nat
    OBVIOUS
<1>7. QED
    BY <1>1, <1>5, <1>6

-----------------------------------------------------------------------------
(* round_down takes a step away at most.                                   *)
LEMMA RoundDownIsNear ==
    ASSUME NEW units \in Int, NEW down \in RoundDown(units)
    PROVE  down \in Int /\ down <= units /\ units <= down + Step
<1>1. (units % Step) \in 0..Step - 1
    OBVIOUS
<1>2. QED
    BY <1>1 DEF RoundDown

NoOffers == [a \in Tries |-> 0]

(* Only an accepted SELL can have offered anything, and its try is the     *)
(* last.                                                                   *)
OffersKept ==
    Reliable =>
        IF outcome = "placed" THEN offers = [NoOffers EXCEPT ![try] = signed]
                              ELSE offers = NoOffers /\ sold = NoOffers

PlaceKept ==
    /\ pc = "check" => checks < MaxChecks
    /\ pc \in {"sign", "post"} => try \in Tries
    /\ outcome = "placed" => try \in Tries
    /\ outcome = "none" <=> pc # "done"
    /\ pc = "post" \/ outcome = "placed" => signed <= size /\ size <= signed + Step

(* A size that was cut is no more than what was delivered.                 *)
CutIsCovered ==
    (Reliable /\ pc \in {"sign", "post"} /\ size < Portion) => size <= delivered

ExitInv == TypeOK /\ OffersKept /\ PlaceKept /\ CutIsCovered

(* It holds at the start.                                                  *)
LEMMA ExitInit == Init => ExitInv
<1> SUFFICES ASSUME Init PROVE ExitInv
    OBVIOUS
<1>1. TypeOK
    <2>1. unseen \in BOOLEAN
        BY Zenon DEF Init
    <2>2. QED
        BY <2>1 DEF Init, TypeOK
<1>2. OffersKept /\ PlaceKept /\ CutIsCovered
    BY DEF Init, OffersKept, PlaceKept, CutIsCovered, NoOffers, Reliable
<1>3. QED
    BY <1>1, <1>2 DEF ExitInv

(* A size that is cut is not larger, and covered if it is smaller.         *)
LEMMA CutFits ==
    ASSUME TypeOK, NEW cut \in CutToBalance(size)
    PROVE  /\ cut \in 0..size
           /\ cut = size \/ cut <= delivered
<1>1. size \in Nat /\ delivered \in Nat /\ sold \in [Tries -> Nat]
    BY DEF TypeOK
<1>2. Total(sold) \in Nat
    BY <1>1, TotalIsNat
<1>3. PICK left \in Int : left = delivered - Total(sold) - Step /\ left <= delivered
    BY <1>1, <1>2
<1>4. PICK safe \in RoundDown(left) :
          cut = IF safe <= 0 \/ safe >= size THEN size ELSE safe
    BY <1>3 DEF CutToBalance, Balance
<1>5. safe \in Int /\ safe <= left
    BY <1>4, RoundDownIsNear
<1>6. QED
    BY <1>1, <1>3, <1>4, <1>5

(* A try that fails is followed by the next one, or by the end.            *)
LEMMA AgainIs ==
    ASSUME TypeOK, PlaceKept, pc \in {"sign", "post"}, Again
    PROVE  \/ pc' = "sign" /\ outcome' = outcome /\ try' \in Tries
           \/ pc' = "done" /\ outcome' = "exhausted" /\ try' = try
BY DEF TypeOK, PlaceKept, Again, NextTry, Return, Tries

(* The steps before an order is posted.                                    *)
LEMMA CheckStep == ExitInv /\ (CheckPrice \/ BeginSubmit) => ExitInv'
<1> SUFFICES ASSUME ExitInv, CheckPrice \/ BeginSubmit PROVE ExitInv'
    OBVIOUS
<1> USE DEF ExitInv
<1>1. TypeOK'
    <2>1. unseen' \in BOOLEAN
        BY Zenon DEF TypeOK, CheckPrice, BeginSubmit
    <2>2. delivered' \in 0..Filled /\ offers' \in [Tries -> 0..Filled] /\ sold' \in [Tries -> 0..Filled]
        BY DEF TypeOK, CheckPrice, BeginSubmit, exchange
    <2>3. /\ checks' \in 0..MaxChecks /\ try' \in 0..MaxRetries
          /\ size' \in 0..Portion /\ signed' \in 0..Portion
        <3>1. signed' = signed
            BY DEF CheckPrice, BeginSubmit
        <3>2. checks' \in 0..MaxChecks
            BY DEF TypeOK, PlaceKept, CheckPrice, BeginSubmit
        <3>3. try' \in 0..MaxRetries
            BY DEF TypeOK, CheckPrice, BeginSubmit
        <3>4. size' \in 0..Portion
            BY DEF TypeOK, CheckPrice, BeginSubmit
        <3>5. QED
            BY <3>1, <3>2, <3>3, <3>4 DEF TypeOK
    <2>4. /\ pc' \in {"check", "submit", "sign", "post", "done"}
          /\ outcome' \in {"none", "not_triggered", "skipped", "exhausted", "placed"}
        BY DEF TypeOK, PlaceKept, CheckPrice, BeginSubmit, Return, exchange
    <2>5. QED
        BY <2>1, <2>2, <2>3, <2>4, Zenon DEF TypeOK
<1>2. OffersKept' /\ PlaceKept' /\ CutIsCovered'
    BY DEF TypeOK, OffersKept, PlaceKept, CutIsCovered, Reliable, CheckPrice, BeginSubmit,
           Return, exchange, Tries
<1>3. QED
    BY <1>1, <1>2

(* A SELL is signed for the size, or a step less.                          *)
LEMMA SignStep == ExitInv /\ Sign /\ pc' = "post" => ExitInv'
<1> SUFFICES ASSUME ExitInv, Sign, pc' = "post" PROVE ExitInv'
    OBVIOUS
<1> USE DEF ExitInv
<1>1. /\ pc = "sign" /\ try \in Tries /\ try' = try /\ outcome' = outcome
      /\ outcome = "none"
      /\ UNCHANGED <<checks, size, delivered, offers, sold, unseen>>
    BY DEF Sign, Again, Return, PlaceKept, TypeOK, exchange
<1>2. PICK units \in RoundDown(size) : units > 0 /\ signed' = units
    BY DEF Sign, Again, Return
<1>3. /\ size \in 0..Portion /\ signed' \in 0..Portion
      /\ signed' <= size /\ size <= signed' + Step
    BY <1>2, RoundDownIsNear DEF TypeOK
<1>4. TypeOK'
    <2>1. unseen' \in BOOLEAN
        BY <1>1, Zenon DEF TypeOK
    <2>2. delivered' \in 0..Filled /\ offers' \in [Tries -> 0..Filled] /\ sold' \in [Tries -> 0..Filled]
        BY <1>1, <1>2, <1>3 DEF TypeOK
    <2>3. /\ checks' \in 0..MaxChecks /\ try' \in 0..MaxRetries
          /\ size' \in 0..Portion /\ signed' \in 0..Portion
        BY <1>1, <1>2, <1>3 DEF TypeOK, Tries
    <2>4. /\ pc' \in {"check", "submit", "sign", "post", "done"}
          /\ outcome' \in {"none", "not_triggered", "skipped", "exhausted", "placed"}
        BY <1>1, <1>2, <1>3 DEF TypeOK
    <2>5. QED
        BY <2>1, <2>2, <2>3, <2>4, Zenon DEF TypeOK
<1>5. OffersKept' /\ PlaceKept' /\ CutIsCovered'
    BY <1>1, <1>3 DEF OffersKept, PlaceKept, CutIsCovered, Reliable
<1>6. QED
    BY <1>4, <1>5

(* A SELL that is not signed, and every answer of an order that does not   *)
(* exist, leaves the exchange alone.                                       *)
LEMMA RetryStep == ExitInv /\ ((Sign /\ pc' # "post") \/ PostUncovered \/ PostRefused) => ExitInv'
<1> SUFFICES ASSUME ExitInv, (Sign /\ pc' # "post") \/ PostUncovered \/ PostRefused PROVE ExitInv'
    OBVIOUS
<1> USE DEF ExitInv
<1>1. /\ pc \in {"sign", "post"} /\ UNCHANGED <<checks, signed, delivered, offers, sold, unseen>>
      /\ Again
    BY DEF Sign, PostUncovered, PostRefused, exchange
<1>2. \/ pc' = "sign" /\ outcome' = outcome /\ try' \in Tries
      \/ pc' = "done" /\ outcome' = "exhausted" /\ try' = try
    BY <1>1, AgainIs DEF PlaceKept
<1>3. size' \in 0..size /\ (size' = size \/ size' <= delivered)
    <2>1. size' = size \/ size' \in CutToBalance(size)
        BY DEF Sign, PostUncovered, PostRefused
    <2>2. size \in 0..size
        BY DEF TypeOK
    <2>3. QED
        BY <2>1, <2>2, CutFits
<1>4. TypeOK'
    <2>1. unseen' \in BOOLEAN
        BY <1>1, Zenon DEF TypeOK
    <2>2. delivered' \in 0..Filled /\ offers' \in [Tries -> 0..Filled] /\ sold' \in [Tries -> 0..Filled]
        BY <1>1, <1>2, <1>3 DEF TypeOK
    <2>3. /\ checks' \in 0..MaxChecks /\ try' \in 0..MaxRetries
          /\ size' \in 0..Portion /\ signed' \in 0..Portion
        BY <1>1, <1>2, <1>3 DEF TypeOK, Tries
    <2>4. /\ pc' \in {"check", "submit", "sign", "post", "done"}
          /\ outcome' \in {"none", "not_triggered", "skipped", "exhausted", "placed"}
        BY <1>1, <1>2, <1>3 DEF TypeOK
    <2>5. QED
        BY <2>1, <2>2, <2>3, <2>4, Zenon DEF TypeOK
<1>5. OffersKept' /\ PlaceKept' /\ CutIsCovered'
    BY <1>1, <1>2, <1>3 DEF TypeOK, OffersKept, PlaceKept, CutIsCovered, Reliable
<1>6. QED
    BY <1>4, <1>5

(* An accepted order ends the exit with it; ...                            *)
LEMMA AcceptStep == ExitInv /\ PostAccepted => ExitInv'
<1> SUFFICES ASSUME ExitInv, PostAccepted PROVE ExitInv'
    OBVIOUS
<1> USE DEF ExitInv
<1>1. /\ pc = "post" /\ pc' = "done" /\ outcome = "none" /\ outcome' = "placed" /\ try \in Tries
      /\ UNCHANGED <<checks, try, size, signed, delivered, sold, unseen>>
      /\ offers' = [offers EXCEPT ![try] = signed]
    BY DEF PostAccepted, AfterAccept, Return, Offer, PlaceKept
<1>2. TypeOK'
    BY <1>1 DEF TypeOK
<1>3. OffersKept'
    BY <1>1 DEF OffersKept, PlaceKept, Reliable
<1>4. PlaceKept' /\ CutIsCovered'
    BY <1>1 DEF PlaceKept, CutIsCovered
<1>5. QED
    BY <1>2, <1>3, <1>4

(* ... after an unseen one nothing more is promised.                       *)
LEMMA UnseenStep == ExitInv /\ PostUnseen => ExitInv'
<1> SUFFICES ASSUME ExitInv, PostUnseen PROVE ExitInv'
    OBVIOUS
<1> USE DEF ExitInv
<1>1. /\ pc = "post" /\ Again /\ unseen' = TRUE /\ try \in Tries
      /\ UNCHANGED <<checks, size, signed, delivered, sold>>
      /\ offers' = [offers EXCEPT ![try] = signed]
    BY DEF PostUnseen, Offer, PlaceKept
<1>2. \/ pc' = "sign" /\ outcome' = outcome /\ try' \in Tries
      \/ pc' = "done" /\ outcome' = "exhausted" /\ try' = try
    BY <1>1, AgainIs
<1>3. offers' \in [Tries -> 0..Filled]
    BY <1>1 DEF TypeOK
<1>4. TypeOK'
    <2>1. unseen' \in BOOLEAN
        BY <1>1, Zenon DEF TypeOK
    <2>2. delivered' \in 0..Filled /\ offers' \in [Tries -> 0..Filled] /\ sold' \in [Tries -> 0..Filled]
        BY <1>1, <1>2, <1>3 DEF TypeOK
    <2>3. /\ checks' \in 0..MaxChecks /\ try' \in 0..MaxRetries
          /\ size' \in 0..Portion /\ signed' \in 0..Portion
        BY <1>1, <1>2, <1>3 DEF TypeOK, Tries
    <2>4. /\ pc' \in {"check", "submit", "sign", "post", "done"}
          /\ outcome' \in {"none", "not_triggered", "skipped", "exhausted", "placed"}
        BY <1>1, <1>2, <1>3 DEF TypeOK
    <2>5. QED
        BY <2>1, <2>2, <2>3, <2>4, Zenon DEF TypeOK
<1>5. OffersKept' /\ PlaceKept' /\ CutIsCovered'
    BY <1>1, <1>2 DEF OffersKept, PlaceKept, CutIsCovered, Reliable
<1>6. QED
    BY <1>4, <1>5

(* Tokens that arrive cover more, ...                                      *)
LEMMA DeliverStep == ExitInv /\ Deliver => ExitInv'
<1> SUFFICES ASSUME ExitInv, Deliver PROVE ExitInv'
    OBVIOUS
<1> USE DEF ExitInv
<1>1. PICK units \in delivered + 1 .. Filled : delivered' = units
    BY DEF Deliver
<1>2. delivered' \in 0..Filled /\ delivered < delivered'
    BY <1>1 DEF TypeOK
<1>3. UNCHANGED <<pc, checks, try, size, signed, outcome, offers, sold, unseen>>
    BY DEF Deliver, exit
<1>4. TypeOK'
    BY <1>2, <1>3 DEF TypeOK
<1>5. OffersKept' /\ PlaceKept' /\ CutIsCovered'
    BY <1>2, <1>3 DEF TypeOK, OffersKept, PlaceKept, CutIsCovered, Reliable
<1>6. QED
    BY <1>4, <1>5

(* ... and only an accepted order trades.                                  *)
LEMMA SaleStep == ExitInv /\ (\E a \in Tries : Trade(a)) => ExitInv'
<1> SUFFICES ASSUME ExitInv, NEW a \in Tries, Trade(a) PROVE ExitInv'
    OBVIOUS
<1> USE DEF ExitInv
<1>1. PICK units \in sold[a] + 1 .. offers[a] : sold' = [sold EXCEPT ![a] = units]
    BY DEF Trade
<1>2. sold[a] \in Nat /\ offers[a] \in 0..Filled
    BY DEF TypeOK
<1>3. units \in 0..Filled /\ offers[a] # 0
    BY <1>1, <1>2
<1>4. UNCHANGED <<pc, checks, try, size, signed, outcome, delivered, offers, unseen>>
    BY DEF Trade, exit
<1>5. TypeOK'
    BY <1>1, <1>3, <1>4 DEF TypeOK
<1>6. OffersKept'
    <2>1. offers # NoOffers
        BY <1>3 DEF NoOffers
    <2>2. QED
        BY <1>4, <2>1 DEF OffersKept, Reliable
<1>7. PlaceKept' /\ CutIsCovered'
    BY <1>4 DEF PlaceKept, CutIsCovered, Reliable
<1>8. QED
    BY <1>5, <1>6, <1>7

(* Every step keeps the invariant.                                         *)
LEMMA ExitStep == ExitInv /\ [Next]_vars => ExitInv'
<1> SUFFICES ASSUME ExitInv, [Next]_vars PROVE ExitInv'
    OBVIOUS
<1>1. CASE UNCHANGED vars
    BY <1>1 DEF vars, exit, exchange, ExitInv, TypeOK, OffersKept, PlaceKept, CutIsCovered,
                Reliable
<1>2. CASE Next
    BY <1>2, CheckStep, SignStep, RetryStep, AcceptStep, UnseenStep, DeliverStep, SaleStep DEF Next, Exit
<1>3. QED
    BY <1>1, <1>2

(* So it always holds; ...                                                 *)
THEOREM ExitInvariant == Spec => []ExitInv
BY ExitInit, ExitStep, PTL DEF Spec

(* ... the variables keep their types.                                     *)
THEOREM ExitTypes == Spec => []TypeOK
<1>1. ExitInv => TypeOK
    BY DEF ExitInv
<1>2. QED
    BY <1>1, ExitInvariant, PTL

(* While no SELL is accepted unseen no more than the portion is ever       *)
(* offered, for any number of tries, any delivery and every rounding.      *)
THEOREM AlwaysSellsItsPortion == Spec => []SellsItsPortion
<1>1. ExitInv => SellsItsPortion
    <2> SUFFICES ASSUME ExitInv, Reliable PROVE Total(offers) <= Portion
        BY DEF SellsItsPortion
    <2>1. NoOffers \in [Tries -> Nat] /\ Total(NoOffers) = 0
        BY TotalOfNothing DEF NoOffers
    <2>2. CASE outcome # "placed"
        BY <2>1, <2>2 DEF ExitInv, OffersKept
    <2>3. CASE outcome = "placed"
        <3>1. try \in Tries /\ offers = [NoOffers EXCEPT ![try] = signed]
            BY <2>3 DEF ExitInv, OffersKept, PlaceKept
        <3>2. signed \in 0..Portion
            BY DEF ExitInv, TypeOK
        <3>3. PICK units \in Nat : units = signed
            BY <3>2
        <3>4. Total([NoOffers EXCEPT ![try] = units]) = Total(NoOffers) - NoOffers[try] + units
            BY <2>1, <3>1, TotalOfChange
        <3>5. NoOffers[try] = 0
            BY <3>1 DEF NoOffers
        <3>6. QED
            BY <2>1, <3>1, <3>2, <3>3, <3>4, <3>5
    <2>4. QED
        BY <2>2, <2>3
<1>2. QED
    BY <1>1, ExitInvariant, PTL

(* Then the placement reports what the exchange has, but for the step that *)
(* the rounding of the signed size may take away.                          *)
THEOREM ReportIsAlwaysTrue == Spec => []ReportIsTrue
<1>1. ExitInv => ReportIsTrue
    <2> SUFFICES ASSUME ExitInv, Reliable PROVE ReportIsTrue
        BY DEF ReportIsTrue
    <2>1. CASE outcome # "placed"
        BY <2>1, TotalOfNothing DEF ReportIsTrue, ExitInv, OffersKept, NoOffers
    <2>2. CASE outcome = "placed"
        <3>1. try \in Tries /\ offers = [NoOffers EXCEPT ![try] = signed]
            BY <2>2 DEF ExitInv, OffersKept, PlaceKept
        <3>2. offers[try] = signed
            BY <3>1 DEF NoOffers
        <3>3. QED
            BY <2>2, <3>2 DEF ReportIsTrue, ExitInv, PlaceKept
    <2>3. QED
        BY <2>1, <2>2
<1>2. QED
    BY <1>1, ExitInvariant, PTL

(* A SELL that was cut is covered: it is not refused for the balance a     *)
(* second time.                                                            *)
THEOREM OneCutIsAlwaysEnough == Spec => OneCutIsEnough
<1>1. ExitInv => ((Reliable /\ size < Portion /\ pc = "post") => ~PostUncovered)
    <2> SUFFICES ASSUME ExitInv, Reliable, size < Portion, pc = "post", PostUncovered
                 PROVE  FALSE
        OBVIOUS
    <2>1. size <= delivered /\ delivered \in Nat
        BY DEF ExitInv, CutIsCovered, TypeOK
    <2>2. Total(offers) = 0
        BY TotalOfNothing DEF ExitInv, OffersKept, PlaceKept, NoOffers
    <2>3. signed \in Nat /\ signed <= size /\ size \in Nat
        BY DEF ExitInv, TypeOK, PlaceKept
    <2>4. ~(signed <= delivered - Total(offers))
        BY DEF PostUncovered, Covered
    <2>5. QED
        BY <2>1, <2>2, <2>3, <2>4
<1>2. QED
    BY <1>1, ExitInvariant, PTL DEF OneCutIsEnough

-----------------------------------------------------------------------------
(* An order may be accepted unseen in each try, so the portion is no bound *)
(* any more.  What was delivered still is: an accepted order is counted    *)
(* against the balance, and no try is posted twice.                        *)
UntriedKept ==
    \A a \in Tries : (pc \in {"sign", "post"} => a >= try) /\ pc # "done" => offers[a] = 0

OffersAreCovered == Total(offers) <= delivered

CoverInv == ExitInv /\ UntriedKept /\ OffersAreCovered

(* A try that is posted had offered nothing before.                        *)
LEMMA OfferIsNew ==
    ASSUME CoverInv, pc = "post", Covered, Offer
    PROVE  Total(offers') <= delivered
<1>1. try \in Tries /\ offers[try] = 0
    BY DEF CoverInv, UntriedKept, ExitInv, PlaceKept, Tries
<1>2. offers \in [Tries -> Nat] /\ delivered \in Nat
    BY DEF CoverInv, ExitInv, TypeOK
<1>3. PICK units \in Nat : units = signed
    BY DEF CoverInv, ExitInv, TypeOK
<1>4. Total([offers EXCEPT ![try] = units]) = Total(offers) - offers[try] + units
    BY <1>1, <1>2, TotalOfChange
<1>5. Total(offers) \in Nat
    BY <1>2, TotalIsNat
<1>6. units <= delivered - Total(offers)
    BY <1>3 DEF Covered
<1>7. offers' = [offers EXCEPT ![try] = units]
    BY <1>3 DEF Offer
<1>8. QED
    BY <1>1, <1>2, <1>4, <1>5, <1>6, <1>7

(* After a failed try the later ones are still untried.                    *)
LEMMA UntriedAgain ==
    ASSUME CoverInv, pc \in {"sign", "post"}, Again,
           \A a \in Tries : a # try => offers'[a] = offers[a]
    PROVE  UntriedKept'
<1>1. try \in Tries
    BY DEF CoverInv, ExitInv, PlaceKept
<1>2. pc' = "done" \/ (pc' = "sign" /\ try' = try + 1)
    BY DEF Again, NextTry, Return
<1>3. ASSUME NEW a \in Tries, pc' = "sign", a >= try' PROVE offers'[a] = 0
    <2>1. a > try /\ a # try
        BY <1>1, <1>2, <1>3 DEF Tries
    <2>2. offers[a] = 0
        BY <1>1, <2>1 DEF CoverInv, UntriedKept, Tries
    <2>3. QED
        BY <2>1, <2>2
<1>4. QED
    BY <1>2, <1>3 DEF UntriedKept

(* Whatever is unseen, and however often it is tried, no more is offered   *)
(* than the wallet holds of the buy.                                       *)
THEOREM OffersAlwaysCovered == Spec => []OffersAreCovered
<1>1. Init => CoverInv
    <2> SUFFICES ASSUME Init PROVE CoverInv
        OBVIOUS
    <2>1. Total(offers) = 0 /\ delivered \in Nat
        BY TotalOfNothing DEF Init
    <2>2. UntriedKept
        BY DEF Init, UntriedKept
    <2>3. QED
        BY <2>1, <2>2, ExitInit DEF CoverInv, OffersAreCovered
<1>2. CoverInv /\ [Next]_vars => CoverInv'
    <2> SUFFICES ASSUME CoverInv, [Next]_vars PROVE UntriedKept' /\ OffersAreCovered'
        BY ExitStep DEF CoverInv
    <2>1. CASE UNCHANGED vars
        BY <2>1 DEF vars, exit, exchange, CoverInv, UntriedKept, OffersAreCovered
    <2>2. CASE CheckPrice \/ BeginSubmit
        <3>1. pc \in {"check", "submit"} /\ UNCHANGED <<offers, delivered>>
            BY <2>2 DEF CheckPrice, BeginSubmit, exchange
        <3>2. QED
            BY <3>1 DEF CoverInv, UntriedKept, OffersAreCovered
    <2>3. CASE Sign \/ PostUncovered \/ PostRefused
        <3>1. /\ pc \in {"sign", "post"} /\ UNCHANGED <<offers, delivered>>
              /\ \/ pc' = "post" /\ try' = try
                 \/ Again
            BY <2>3 DEF Sign, PostUncovered, PostRefused, exchange
        <3>2. UntriedKept'
            BY <3>1, UntriedAgain DEF CoverInv, UntriedKept
        <3>3. QED
            BY <3>1, <3>2 DEF CoverInv, OffersAreCovered
    <2>4. CASE PostAccepted
        <3>1. pc = "post" /\ pc' = "done" /\ delivered' = delivered
              /\ Covered /\ Offer
            BY <2>4 DEF PostAccepted, AfterAccept, Return
        <3>2. QED
            BY <3>1, OfferIsNew DEF UntriedKept, OffersAreCovered
    <2>5. CASE PostUnseen
        <3>1. pc = "post" /\ Again /\ delivered' = delivered /\ Covered /\ Offer
            BY <2>5 DEF PostUnseen
        <3>2. \A a \in Tries : a # try => offers'[a] = offers[a]
            BY <3>1 DEF Offer, CoverInv, ExitInv, TypeOK
        <3>3. Total(offers') <= delivered
            BY <3>1, OfferIsNew DEF CoverInv, OffersAreCovered
        <3>4. QED
            BY <3>1, <3>2, <3>3, UntriedAgain DEF OffersAreCovered
    <2>6. CASE Deliver
        <3>1. UNCHANGED <<pc, try, offers>>
            BY <2>6 DEF Deliver, exit
        <3>2. delivered \in Nat /\ delivered' \in Nat /\ delivered <= delivered'
            BY <2>6 DEF Deliver, CoverInv, ExitInv, TypeOK
        <3>3. Total(offers) \in Nat
            BY TotalIsNat DEF CoverInv, ExitInv, TypeOK
        <3>4. QED
            BY <3>1, <3>2, <3>3 DEF CoverInv, UntriedKept, OffersAreCovered
    <2>7. CASE \E a \in Tries : Trade(a)
        <3>1. UNCHANGED <<pc, try, offers, delivered>>
            BY <2>7 DEF Trade, exit
        <3>2. QED
            BY <3>1 DEF CoverInv, UntriedKept, OffersAreCovered
    <2>8. QED
        BY <2>1, <2>2, <2>3, <2>4, <2>5, <2>6, <2>7 DEF Next, Exit
<1>3. CoverInv => OffersAreCovered
    BY DEF CoverInv
<1>4. QED
    BY <1>1, <1>2, <1>3, PTL DEF Spec

-----------------------------------------------------------------------------
(* What is left of the exit at most, in steps of the program: the looks at *)
(* the price, then two steps for each try.                                 *)
StepsLeft ==
    CASE pc = "check"  -> (MaxChecks - checks) + 2 * MaxRetries + 1
      [] pc = "submit" -> 2 * MaxRetries + 1
      [] pc = "sign"   -> 2 * (MaxRetries - try) + 2
      [] pc = "post"   -> 2 * (MaxRetries - try) + 1
      [] pc = "done"   -> 0

(* It is a number, as large as the settings say.                           *)
LEMMA StepsAreFew ==
    ASSUME ExitInv
    PROVE  StepsLeft \in 0 .. MaxChecks + 2 * MaxRetries + 1
<1>1. /\ pc \in {"check", "submit", "sign", "post", "done"}
      /\ checks \in 0..MaxChecks /\ try \in 0..MaxRetries
      /\ pc = "check" => checks < MaxChecks
      /\ pc \in {"sign", "post"} => try \in 1..MaxRetries
    BY DEF ExitInv, TypeOK, PlaceKept, Tries
<1>2. QED
    BY <1>1 DEF StepsLeft

(* Trying again is a step less, or two.                                    *)
LEMMA AgainIsLess ==
    ASSUME ExitInv, pc \in {"sign", "post"}, Again
    PROVE  StepsLeft' < StepsLeft
<1>1. try \in 1..MaxRetries
    BY DEF ExitInv, PlaceKept, Tries
<1>2. \/ pc' = "sign" /\ try' = try + 1 /\ try < MaxRetries
      \/ pc' = "done"
    BY DEF Again, NextTry, Return
<1>3. QED
    BY <1>1, <1>2 DEF StepsLeft

(* Whatever is refused, lost or late, an exit takes as many steps at most: *)
(* each of them leaves fewer, and neither the exchange nor the chain adds  *)
(* one.  So it cannot go on for ever, for any settings.                    *)
THEOREM ExitIsFinite ==
    Spec => /\ [](StepsLeft \in 0 .. MaxChecks + 2 * MaxRetries + 1)
            /\ [][StepsLeft' <= StepsLeft /\ (Exit => StepsLeft' < StepsLeft)]_vars
<1>1. ExitInv => StepsLeft \in 0 .. MaxChecks + 2 * MaxRetries + 1
    BY StepsAreFew
<1>2. ExitInv /\ Exit => StepsLeft' < StepsLeft
    <2> SUFFICES ASSUME ExitInv, Exit PROVE StepsLeft' < StepsLeft
        OBVIOUS
    <2>1. CASE CheckPrice
        <3>1. checks \in 0..MaxChecks - 1
            BY <2>1 DEF CheckPrice, ExitInv, TypeOK, PlaceKept
        <3>2. /\ pc = "check" /\ checks' = checks + 1
              /\ pc' = "check" => checks' < MaxChecks
              /\ pc' \in {"check", "submit", "done"}
            BY <2>1, <3>1 DEF CheckPrice, Return
        <3>3. QED
            BY <3>1, <3>2 DEF StepsLeft
    <2>2. CASE BeginSubmit
        BY <2>2 DEF BeginSubmit, Return, StepsLeft
    <2>3. CASE Sign
        <3>1. CASE Again
            BY <2>3, <3>1, AgainIsLess DEF Sign
        <3>2. CASE pc' = "post" /\ try' = try
            <4>1. pc = "sign" /\ try \in 1..MaxRetries
                BY <2>3 DEF Sign, ExitInv, PlaceKept, Tries
            <4>2. QED
                BY <3>2, <4>1 DEF StepsLeft
        <3>3. QED
            BY <2>3, <3>1, <3>2 DEF Sign
    <2>4. CASE PostAccepted
        <3>1. pc = "post" /\ pc' = "done" /\ try \in 1..MaxRetries
            BY <2>4 DEF PostAccepted, AfterAccept, Return, ExitInv, PlaceKept, Tries
        <3>2. QED
            BY <3>1 DEF StepsLeft
    <2>5. CASE PostUncovered \/ PostRefused \/ PostUnseen
        <3>1. pc = "post" /\ Again
            BY <2>5 DEF PostUncovered, PostRefused, PostUnseen
        <3>2. QED
            BY <3>1, AgainIsLess
    <2>6. QED
        BY <2>1, <2>2, <2>3, <2>4, <2>5 DEF Exit
<1>3. /\ ExitInv /\ [Next]_vars
      /\ StepsLeft \in 0 .. MaxChecks + 2 * MaxRetries + 1
      /\ (StepsLeft \in 0 .. MaxChecks + 2 * MaxRetries + 1)'
      => [StepsLeft' <= StepsLeft /\ (Exit => StepsLeft' < StepsLeft)]_vars
    <2> SUFFICES ASSUME ExitInv, Next, StepsLeft \in Nat, StepsLeft' \in Nat
                 PROVE  StepsLeft' <= StepsLeft /\ (Exit => StepsLeft' < StepsLeft)
        OBVIOUS
    <2>1. CASE Exit
        BY <1>2, <2>1
    <2>2. CASE Deliver \/ \E a \in Tries : Trade(a)
        <3>1. UNCHANGED <<pc, checks, try>>
            BY <2>2 DEF Deliver, Trade, exit
        <3>2. StepsLeft' = StepsLeft
            BY <3>1 DEF StepsLeft
        <3>3. QED
            BY <1>2, <3>2
    <2>3. QED
        BY <2>1, <2>2 DEF Next
<1>4. QED
    BY <1>1, <1>3, ExitInvariant, PTL DEF Spec
=============================================================================
