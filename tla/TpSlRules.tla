------------------------------ MODULE TpSlRules ------------------------------
(***************************************************************************)
(* The exit rules of executor/tp_sl.rs: which command, if any, the monitor *)
(* sends for an open position. Prices are in percent of the entry price;   *)
(* ages are in seconds. pnl is the field pnl_pct: a fresh price sets it to *)
(* price - 100, a verified sell to the realised percentage.                *)
(***************************************************************************)
EXTENDS Integers, SequencesExt

\* TradingProfile::from_mode with MAX_HOLD_SECS unset.
Profile == [
    Snipe |-> [tp |-> 5, sl |-> 5, trail |-> 3, gate |-> 3, timeStop |-> 30,
               timeStopMin |-> 1, maxHold |-> 120, maxAgeMin |-> 2],
    Scalp |-> [tp |-> 20, sl |-> 10, trail |-> 5, gate |-> 10, timeStop |-> 120,
               timeStopMin |-> 3, maxHold |-> 600, maxAgeMin |-> 5],
    Hold  |-> [tp |-> 100, sl |-> 50, trail |-> 30, gate |-> 30, timeStop |-> 600,
               timeStopMin |-> 10, maxHold |-> 14400, maxAgeMin |-> 10]]

\* The graduated take-profit tiers: at pnl >= at, sell that percentage.
Tiers == [
    Snipe |-> <<[at |-> 5, sell |-> 100]>>,
    Scalp |-> <<[at |-> 10, sell |-> 50], [at |-> 20, sell |-> 70],
                [at |-> 50, sell |-> 100]>>,
    Hold  |-> <<[at |-> 50, sell |-> 50], [at |-> 100, sell |-> 60],
                [at |-> 200, sell |-> 100]>>]

\* What the rules read of a Position.
View == [pnl: Int, price: Nat, high: Nat, age: Nat, stale: BOOLEAN]

ShouldStopLoss(mode, v) == v.pnl <= -Profile[mode].sl
ShouldTakeProfit(mode, v) == v.pnl >= Profile[mode].tp
ShouldTrailingStop(mode, v) ==
    v.high > 0 /\ (v.high - v.price) * 100 >= Profile[mode].trail * v.high

\* A drop of more than 95% in the first two minutes is taken for a bad quote.
Bogus(v) == v.pnl < -95 /\ v.age < 120

\* Tiers that are reached and were not triggered before.
DueTiers(mode, v, triggered) ==
    {i \in DOMAIN Tiers[mode] : i \notin triggered /\ v.pnl >= Tiers[mode][i].at}

Full(kind) == [kind |-> kind, pct |-> 100, tier |-> 0]
NoCmd == [kind |-> "none", pct |-> 0, tier |-> 0]

\* Mutant: the highest tier reached is triggered first.
LastDueTier(mode, due) ==
    IF due = {} THEN NoCmd
    ELSE [kind |-> "PartialTakeProfit", pct |-> Tiers[mode][Max(due)].sell, tier |-> Max(due)]

\* The loop over the tiers triggers the first one that is due.
FirstDueTier(mode, due) ==
    IF due = {} THEN NoCmd
    ELSE [kind |-> "PartialTakeProfit", pct |-> Tiers[mode][Min(due)].sell, tier |-> Min(due)]

\* Mutant: the trailing stop without the gate on the profit.
RulesUngated(mode, v, triggered) ==
    LET P == Profile[mode]
        due == DueTiers(mode, v, triggered)
    IN  << [when |-> Bogus(v), cmd |-> NoCmd],
           [when |-> ShouldStopLoss(mode, v), cmd |-> Full("StopLoss")],
           [when |-> v.age > P.timeStop /\ v.pnl < P.timeStopMin, cmd |-> Full("TimeStop")],
           [when |-> v.stale, cmd |-> NoCmd],
           [when |-> due # {}, cmd |-> FirstDueTier(mode, due)],
           [when |-> ShouldTrailingStop(mode, v), cmd |-> Full("TrailingStop")],
           [when |-> ShouldTakeProfit(mode, v), cmd |-> Full("TakeProfit")] >>

\* The rules of evaluate_position in the order the code tries them. A stale
\* price leaves only the stop-loss and the two age rules.
Rules(mode, v, triggered) ==
    LET P == Profile[mode]
        due == DueTiers(mode, v, triggered)
    IN  << [when |-> Bogus(v), cmd |-> NoCmd],
           [when |-> ShouldStopLoss(mode, v), cmd |-> Full("StopLoss")],
           [when |-> v.age > P.timeStop /\ v.pnl < P.timeStopMin, cmd |-> Full("TimeStop")],
           [when |-> P.maxHold > 0 /\ v.age > P.maxHold /\ v.pnl > P.maxAgeMin,
            cmd |-> Full("MaxAgeExit")],
           [when |-> v.stale, cmd |-> NoCmd],
           [when |-> due # {}, cmd |-> FirstDueTier(mode, due)],
           [when |-> v.pnl > P.gate /\ ShouldTrailingStop(mode, v),
            cmd |-> Full("TrailingStop")],
           [when |-> ShouldTakeProfit(mode, v), cmd |-> Full("TakeProfit")] >>

\* The command of the first rule that applies.
Evaluate(mode, v, triggered) ==
    LET rules == Rules(mode, v, triggered)
        i == SelectInSeq(rules, LAMBDA r : r.when)
    IN  IF i = 0 THEN NoCmd ELSE rules[i].cmd

\* Mutant: a triggered tier is not remembered.
MarkForgotten(cmd, triggered) == triggered

\* Mutant: the tier is remembered under the next index.
MarkNext(cmd, triggered) ==
    IF cmd.tier = 0 THEN triggered ELSE triggered \cup {cmd.tier + 1}

\* A tier is remembered as triggered before its command is sent.
Mark(cmd, triggered) == IF cmd.tier = 0 THEN triggered ELSE triggered \cup {cmd.tier}

\* The view of a position that open_position has just created.
Opened == [pnl |-> 0, price |-> 100, high |-> 100, age |-> 0, stale |-> FALSE]

\* Position::update_pnl with a fresh price, at the position's true age.
UpdatePnl(v, price, now) ==
    [pnl |-> price - 100, price |-> price, high |-> Max({v.high, price}),
     age |-> now, stale |-> FALSE]

=============================================================================
