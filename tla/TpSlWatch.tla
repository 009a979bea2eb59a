------------------------------ MODULE TpSlWatch ------------------------------
(***************************************************************************)
(* The TP/SL monitor watching one open position over time: prices arrive   *)
(* fresh or stale, the check timer ticks, and every evaluation may send a  *)
(* command. The cached age only moves with a fresh price (update_pnl).     *)
(* PriceFeed says where the prices come from and when.                     *)
(***************************************************************************)
EXTENDS TpSlRules

CONSTANTS
    Modes,    \* trading modes to cover
    Ages      \* Ages[mode]: instants, in seconds since the position was opened

ASSUME WatchAssumption ==
    /\ Modes \subseteq DOMAIN Profile
    /\ \A m \in Modes : Ages[m] \subseteq Nat /\ 0 \in Ages[m]

VARIABLES
    mode,       \* the configured trading mode
    now,        \* true age of the position
    v,          \* its cached view
    triggered,  \* triggered_tiers of its mint
    cmd         \* outcome of the last evaluation

vars == <<mode, now, v, triggered, cmd>>

TypeOK ==
    /\ mode \in Modes
    /\ now \in Ages[mode]
    /\ v \in View /\ v.price <= v.high /\ v.age <= now
    /\ triggered \subseteq DOMAIN Tiers[mode]
    /\ cmd.pct \in 0 .. 100 /\ cmd.tier \in 0 .. Len(Tiers[mode])

\* open_position: entry price, age zero.
Init ==
    /\ mode \in Modes
    /\ now = 0
    /\ v = Opened
    /\ triggered = {}
    /\ cmd = NoCmd

EvaluatePosition ==
    /\ cmd' = Evaluate(mode, v', triggered)
    /\ triggered' = Mark(cmd', triggered)
    /\ UNCHANGED <<mode, now>>

\* handle_price_update
FreshPrice(p) == v' = UpdatePnl(v, p, now) /\ EvaluatePosition
StalePrice == v' = [v EXCEPT !.stale = TRUE] /\ EvaluatePosition

\* check_all_positions
Sweep == UNCHANGED v /\ EvaluatePosition

Pass(t) == now < t /\ now' = t /\ UNCHANGED <<mode, v, triggered, cmd>>

----------------------------------------------------------------------------
(* Properties                                                              *)

FullExit == cmd.pct = 100

\* Tiers are triggered in the order of the table and none is skipped, however
\* the price jumps and whichever stale quotes and sweeps come between.
TierPrefix == triggered = 1 .. Cardinality(triggered)

\* The situations in which the monitor has to get rid of the whole position.
MustExit ==
    /\ ~Bogus(v)
    /\ \/ ShouldStopLoss(mode, v)
       \/ v.age > Profile[mode].timeStop /\ v.pnl < Profile[mode].timeStopMin
       \/ ~v.stale /\ ShouldTakeProfit(mode, v)

\* While the partial exits of the tiers come first, they do not starve the full
\* exit: if the position stays in such a situation, full exits are sent again
\* and again until the position is closed.
FullExitDemanded == <>[]MustExit => []<>FullExit

\* "stop-loss + time-stop must STILL fire" on stale prices: a position older
\* than the time stop, without the profit it asks for and with nothing but stale
\* quotes, is given up.
TimeStopStillFires ==
    <>[](/\ v.stale /\ now > Profile[mode].timeStop
         /\ v.pnl < Profile[mode].timeStopMin) => <>FullExit

=============================================================================
