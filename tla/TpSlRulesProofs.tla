--------------------------- MODULE TpSlRulesProofs ---------------------------
(***************************************************************************)
(* Facts about the exit rules for every mode, view and set of triggered    *)
(* tiers, which the proofs about the price feed and the exit pipeline      *)
(* share: what a command says about the view it was given for.             *)
(***************************************************************************)
EXTENDS TpSlRules, TLAPS, WellFoundedInduction

\* A non-empty set of natural numbers has a least element.
LEMMA LeastNat ==
  ASSUME NEW S, S \subseteq Nat, S # {}
  PROVE  Min(S) \in S /\ \A y \in S : Min(S) <= y
<1>1. PICK x \in S : \A y \in S : ~(<<y, x>> \in OpToRel(<, Nat))
  BY WFMin, NatLessThanWellFounded
<1>2. ASSUME NEW y \in S PROVE x <= y
  <2>1. ~(y < x)
    BY <1>1 DEF OpToRel
  <2>2. QED
    BY <2>1
<1>3. QED
  BY <1>2 DEF Min

\* The thresholds of the three modes are positive.
LEMMA ProfileFacts ==
  ASSUME NEW mode \in DOMAIN Profile
  PROVE  /\ Profile[mode].tp \in Nat /\ Profile[mode].tp > 0
         /\ Profile[mode].sl \in Nat /\ Profile[mode].sl > 0
         /\ Profile[mode].gate \in Nat /\ Profile[mode].maxAgeMin \in Nat
BY DEF Profile

\* Every mode has one to three tiers, each at a profit and selling something.
LEMMA TierFacts ==
  ASSUME NEW mode \in DOMAIN Profile
  PROVE  /\ DOMAIN Tiers[mode] = 1 .. Len(Tiers[mode]) /\ Len(Tiers[mode]) \in Nat
         /\ \A i \in DOMAIN Tiers[mode] :
               /\ Tiers[mode][i].at \in Nat /\ Tiers[mode][i].at > 0
               /\ Tiers[mode][i].sell \in 1 .. 100
<1>1. CASE mode = "Snipe"
  BY <1>1 DEF Tiers
<1>2. CASE mode = "Scalp"
  BY <1>2 DEF Tiers
<1>3. CASE mode = "Hold"
  BY <1>3 DEF Tiers
<1>4. QED
  BY <1>1, <1>2, <1>3 DEF Profile

\* The tiers of a mode rise: a later tier asks for more profit than an earlier one.
LEMMA TiersRise ==
  ASSUME NEW mode \in DOMAIN Profile,
         NEW i \in DOMAIN Tiers[mode], NEW j \in DOMAIN Tiers[mode], i < j
  PROVE  Tiers[mode][i].at < Tiers[mode][j].at
<1>1. CASE mode = "Snipe"
  BY <1>1 DEF Tiers
<1>2. CASE mode = "Scalp"
  BY <1>2 DEF Tiers
<1>3. CASE mode = "Hold"
  BY <1>3 DEF Tiers
<1>4. QED
  BY <1>1, <1>2, <1>3 DEF Profile

\* Evaluate gives the command of a rule whose condition holds, or none.
LEMMA EvaluateRule ==
  ASSUME NEW mode, NEW v, NEW triggered
  PROVE  \/ Evaluate(mode, v, triggered) = NoCmd
         \/ \E i \in 1 .. 8 : LET r == Rules(mode, v, triggered)[i]
                              IN  r.when /\ Evaluate(mode, v, triggered) = r.cmd
<1> DEFINE rules == Rules(mode, v, triggered)
           I == {i \in 1 .. Len(rules) : rules[i].when}
<1>1. Len(rules) = 8
  BY DEF Rules
<1>2. Evaluate(mode, v, triggered) = IF I = {} THEN NoCmd ELSE rules[Min(I)].cmd
  BY <1>1, LeastNat DEF Evaluate, SelectInSeq
<1>3. I # {} => Min(I) \in I
  BY <1>1, LeastNat
<1>4. QED
  BY <1>1, <1>2, <1>3

\* What each command of evaluate_position says about the view it was given for:
\* a stop-loss is a loss, the exits in profit are in profit, and a tier is the
\* first of those that are due.
LEMMA EvaluateCommand ==
  ASSUME NEW mode \in DOMAIN Profile, NEW v \in View, NEW triggered
  PROVE  LET c == Evaluate(mode, v, triggered)
             due == DueTiers(mode, v, triggered)
         IN  \/ c = NoCmd
             \/ c = Full("StopLoss") /\ ShouldStopLoss(mode, v)
             \/ c = Full("TimeStop")
             \/ c = Full("MaxAgeExit") /\ v.pnl > Profile[mode].maxAgeMin
             \/ /\ due # {} /\ Min(due) \in due /\ \A j \in due : Min(due) <= j
                /\ c = [kind |-> "PartialTakeProfit", pct |-> Tiers[mode][Min(due)].sell,
                        tier |-> Min(due)]
             \/ c = Full("TrailingStop") /\ v.pnl > Profile[mode].gate
             \/ c = Full("TakeProfit") /\ ShouldTakeProfit(mode, v)
<1> DEFINE c == Evaluate(mode, v, triggered)
           due == DueTiers(mode, v, triggered)
           rules == Rules(mode, v, triggered)
<1>1. due \subseteq Nat
  BY TierFacts DEF DueTiers
<1>2. due # {} => /\ Min(due) \in due /\ \A j \in due : Min(due) <= j
                  /\ FirstDueTier(mode, due) =
                       [kind |-> "PartialTakeProfit", pct |-> Tiers[mode][Min(due)].sell,
                        tier |-> Min(due)]
  BY <1>1, LeastNat DEF FirstDueTier
<1>3. SUFFICES ASSUME c # NoCmd,
                      NEW i \in 1 .. 8, rules[i].when, c = rules[i].cmd
               PROVE  \/ c = Full("StopLoss") /\ ShouldStopLoss(mode, v)
                      \/ c = Full("TimeStop")
                      \/ c = Full("MaxAgeExit") /\ v.pnl > Profile[mode].maxAgeMin
                      \/ due # {} /\ c = FirstDueTier(mode, due)
                      \/ c = Full("TrailingStop") /\ v.pnl > Profile[mode].gate
                      \/ c = Full("TakeProfit") /\ ShouldTakeProfit(mode, v)
  BY <1>2, EvaluateRule
<1>4. CASE i \in {1, 5}
  BY <1>3, <1>4 DEF Rules
<1>5. CASE i = 2
  BY <1>3, <1>5 DEF Rules
<1>6. CASE i = 3
  BY <1>3, <1>6 DEF Rules
<1>7. CASE i = 4
  BY <1>3, <1>7 DEF Rules
<1>8. CASE i = 6
  BY <1>3, <1>8 DEF Rules
<1>9. CASE i = 7
  BY <1>3, <1>9 DEF Rules
<1>10. CASE i = 8
  BY <1>3, <1>10 DEF Rules
<1>11. QED
  BY <1>4, <1>5, <1>6, <1>7, <1>8, <1>9, <1>10
=============================================================================
