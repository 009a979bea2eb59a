------------------------------- MODULE BuyPath -------------------------------
(***************************************************************************)
(* How a position is entered: the analyzer pipeline (main.rs) works off    *)
(* migration events one at a time, behind a circuit breaker, the filters   *)
(* on enriched data and the kill switch; the Telegram bot buys on request; *)
(* both end in execute_buy (executor/mod.rs), which asks the risk manager  *)
(* and the cooldown, waits for a route and the chain, and opens a position *)
(* when it finds tokens in the wallet. Meanwhile positions are closed.     *)
(*                                                                         *)
(* Operations of the position cache and their write are one step here      *)
(* (PositionStore opens them up); a write may fail. Every other step ends  *)
(* where execute_buy or the pipeline awaits.                               *)
(***************************************************************************)
EXTENDS Routes, FiniteSets

CONSTANTS
    Mints,
    Pipe,         \* the analyzer pipeline
    Bots,         \* buy buttons that may be in progress at a time
    Blacklist,    \* mints on the blacklist
    Enrichments,  \* answers DexScreener may give
    Quotes,       \* answers Jupiter may give
    NoMint,       \* absence of a mint
    MaxPositions, \* max_positions
    LossLimit,    \* daily_loss_limit_sol, in losing trades
    ErrThreshold, \* CB_ERROR_THRESHOLD (5)
    MaxBuys       \* bound on the number of buys submitted

Buyers == {Pipe} \cup Bots

\* ok: a pair was found within the retries; liquidity and market cap in SOL.
Enrichment == [ok: BOOLEAN, liquidity: Nat, mcap: Nat]

ASSUME BuyPathAssumption ==
    /\ IsFiniteSet(Mints) /\ Blacklist \subseteq Mints /\ NoMint \notin Mints
    /\ IsFiniteSet(Bots) /\ Pipe \notin Bots
    /\ Enrichments \subseteq Enrichment /\ Quotes \subseteq JupiterQuote
    /\ {MaxPositions, LossLimit, ErrThreshold} \subseteq Nat \ {0}
    /\ MaxBuys \in Nat

VARIABLES
    observe,   \* observe_only, as configured
    pc,        \* where each buyer is
    tok,       \* the mint it works on, or NoMint
    landed,    \* its transaction landed on the chain
    active,    \* trading_active: FALSE after /stop
    errs,      \* error_timestamps within the rolling window
    observed,  \* mints with an observation of the last five minutes
    cool,      \* the wallet's cooldown is running
    cache,     \* mint -> status of the cached position
    rowed,     \* mint -> the cached position has a row that says Open
    ghosts,    \* number of other rows that say Open
    bal,       \* mint -> the wallet holds tokens
    trades,    \* pnl_sol of today's rows of table trades
    lost,      \* positions closed at a loss today, counted up to the limit
    buys,      \* buys submitted so far
    sinceStop, \* history: automatic buys submitted while stopped
    burst      \* history: positions opened since the cooldown began to run

vars == <<observe, pc, tok, landed, active, errs, observed, cool, cache, rowed, ghosts, bal,
          trades, lost, buys, sinceStop, burst>>
book == <<cache, rowed, ghosts, trades, burst>>
chain == <<bal, buys, sinceStop>>

TypeOK ==
    /\ pc \in [Buyers -> {"idle", "paused", "enrich", "admit", "route", "verify"}]
    /\ tok \in [Buyers -> Mints \cup {NoMint}] /\ landed \in [Buyers -> BOOLEAN]
    /\ observe \in BOOLEAN /\ active \in BOOLEAN /\ errs \in Nat /\ observed \in SUBSET Mints
    /\ cool \in BOOLEAN
    /\ cache \in [Mints -> {"None", "Open", "Closed"}]
    /\ rowed \in [Mints -> BOOLEAN] /\ ghosts \in Nat
    /\ bal \in [Mints -> BOOLEAN]
    /\ trades \in SUBSET {"NULL", "loss"} /\ lost \in Nat
    /\ buys \in Nat /\ sinceStop \in Nat /\ burst \in Nat

OpenMints == {m \in Mints : cache[m] = "Open"}
OpenRows == Cardinality({m \in Mints : rowed[m]}) + ghosts

\* get_daily_loss: only rows of trades with a negative pnl_sol count.
DailyLoss == IF "loss" \in trades THEN lost ELSE 0

----------------------------------------------------------------------------
(* Analyzer pipeline                                                       *)

\* Mutant: the breaker opens one error too late.
ReceiveLate(m) ==
    /\ pc[Pipe] = "idle"
    /\ IF errs > ErrThreshold
       THEN pc' = [pc EXCEPT ![Pipe] = "paused"] /\ UNCHANGED tok
       ELSE pc' = [pc EXCEPT ![Pipe] = "enrich"] /\ tok' = [tok EXCEPT ![Pipe] = m]
    /\ UNCHANGED <<observe, landed, active, errs, observed, cool, book, chain, lost>>

\* A migration event. With the circuit breaker open the token is dropped and the
\* pipeline sleeps. Blacklisted tokens are skipped, unless the query fails;
\* newborn tokens always are.
Receive(m) ==
    /\ pc[Pipe] = "idle"
    /\ IF errs >= ErrThreshold
       THEN pc' = [pc EXCEPT ![Pipe] = "paused"] /\ UNCHANGED tok
       ELSE pc' = [pc EXCEPT ![Pipe] = "enrich"] /\ tok' = [tok EXCEPT ![Pipe] = m]
    /\ UNCHANGED <<observe, landed, active, errs, observed, cool, book, chain, lost>>

Resume ==
    /\ pc[Pipe] = "paused"
    /\ pc' = [pc EXCEPT ![Pipe] = "idle"]
    /\ errs' = 0
    /\ UNCHANGED <<observe, tok, landed, active, observed, cool, book, chain, lost>>

\* Mutant: an error leaves the window twice.
ErrorExpiresTwice ==
    /\ errs > 0
    /\ errs' = errs - 2
    /\ UNCHANGED <<observe, pc, tok, landed, active, observed, cool, book, chain, lost>>

\* The oldest error leaves the rolling window.
ErrorExpires ==
    /\ errs > 0
    /\ errs' = errs - 1
    /\ UNCHANGED <<observe, pc, tok, landed, active, observed, cool, book, chain, lost>>

\* The migration filters, in the code's order.
Passes(e) ==
    /\ e.ok
    /\ e.liquidity >= 50
    /\ e.liquidity # 3
    /\ ~(e.mcap > 0 /\ e.mcap < 350)

\* Mutant: the kill switch is not asked.
EnrichedUnstoppable(e, dup, saved, wallet) ==
    LET m == tok[Pipe]
        buy == ~dup /\ Passes(e) /\ ~observe /\ wallet
    IN  /\ pc[Pipe] = "enrich"
        /\ dup => m \in observed
        /\ observed' = IF ~dup /\ saved THEN observed \cup {m} ELSE observed
        /\ pc' = [pc EXCEPT ![Pipe] = IF buy THEN "admit" ELSE "idle"]
        /\ tok' = [tok EXCEPT ![Pipe] = IF buy THEN m ELSE NoMint]
        /\ UNCHANGED <<observe, landed, active, errs, cool, book, chain, lost>>

\* After the wait for DexScreener: an observation is recorded, unless a recent
\* one is found, and the token is bought if it passes the filters, the kill
\* switch and the wallet allow it. dup is FALSE when the query fails, saved when
\* the insert does.
Enriched(e, dup, saved, wallet) ==
    LET m == tok[Pipe]
        buy == ~dup /\ Passes(e) /\ ~observe /\ active /\ wallet
    IN  /\ pc[Pipe] = "enrich"
        /\ dup => m \in observed
        /\ observed' = IF ~dup /\ saved THEN observed \cup {m} ELSE observed
        /\ pc' = [pc EXCEPT ![Pipe] = IF buy THEN "admit" ELSE "idle"]
        /\ tok' = [tok EXCEPT ![Pipe] = IF buy THEN m ELSE NoMint]
        /\ UNCHANGED <<observe, landed, active, errs, cool, book, chain, lost>>

ObservationExpires(m) ==
    /\ m \in observed
    /\ observed' = observed \ {m}
    /\ UNCHANGED <<observe, pc, tok, landed, active, errs, cool, book, chain, lost>>

----------------------------------------------------------------------------
(* Telegram bot                                                            *)

BuyButton(b, m) ==
    /\ pc[b] = "idle"
    /\ pc' = [pc EXCEPT ![b] = "admit"]
    /\ tok' = [tok EXCEPT ![b] = m]
    /\ UNCHANGED <<observe, landed, active, errs, observed, cool, book, chain, lost>>

Stop ==
    /\ active' = FALSE /\ sinceStop' = 0
    /\ UNCHANGED <<observe, pc, tok, landed, errs, observed, cool, book, bal, buys, lost>>

Go ==
    /\ active' = TRUE /\ sinceStop' = 0
    /\ UNCHANGED <<observe, pc, tok, landed, errs, observed, cool, book, bal, buys, lost>>

----------------------------------------------------------------------------
(* execute_buy                                                             *)

\* The call returns. The pipeline counts an error towards its breaker.
Return(b, ok) ==
    /\ pc' = [pc EXCEPT ![b] = "idle"]
    /\ tok' = [tok EXCEPT ![b] = NoMint] /\ landed' = [landed EXCEPT ![b] = FALSE]
    /\ errs' = IF b = Pipe /\ ~ok THEN errs + 1 ELSE errs

\* Mutant: the cooldown is not asked.
AdmitHot(b) ==
    /\ pc[b] = "admit"
    /\ tok[b] \notin Blacklist
    /\ OpenRows < MaxPositions
    /\ DailyLoss < LossLimit
    /\ Cardinality(OpenMints) < MaxPositions
    /\ pc' = [pc EXCEPT ![b] = "route"]
    /\ UNCHANGED <<observe, tok, landed, active, errs, observed, cool, book, chain, lost>>

\* Mutant: only the rows of the database are counted.
AdmitByRows(b) ==
    /\ pc[b] = "admit"
    /\ tok[b] \notin Blacklist
    /\ OpenRows < MaxPositions
    /\ DailyLoss < LossLimit
    /\ ~cool
    /\ pc' = [pc EXCEPT ![b] = "route"]
    /\ UNCHANGED <<observe, tok, landed, active, errs, observed, cool, book, chain, lost>>

\* Blacklist, risk manager (rows of the database), cooldown, cached positions.
\* The amount is within max_buy_sol: both callers see to it.
Admit(b) ==
    /\ pc[b] = "admit"
    /\ tok[b] \notin Blacklist
    /\ OpenRows < MaxPositions
    /\ DailyLoss < LossLimit
    /\ ~cool
    /\ Cardinality(OpenMints) < MaxPositions
    /\ pc' = [pc EXCEPT ![b] = "route"]
    /\ UNCHANGED <<observe, tok, landed, active, errs, observed, cool, book, chain, lost>>

\* A check fails, or the database cannot be asked.
Deny(b) ==
    /\ pc[b] = "admit"
    /\ Return(b, FALSE)
    /\ UNCHANGED <<observe, active, observed, cool, book, chain, lost>>

\* A migration is bought as a token of PumpSwap or of Raydium, a pasted address
\* as one of unknown source; none of them comes with a pool address.
Sources(b) == IF b = Pipe THEN {"PumpSwap", "Raydium"} ELSE {"Unknown"}

\* Some route is found when Jupiter answers q.
HasRoute(b, q) ==
    \E source \in Sources(b) : find_best_route(source, FALSE, TRUE, q) # "none"

\* No route is found, or no transaction can be built for it.
RouteFails(b) ==
    /\ pc[b] = "route"
    /\ Return(b, FALSE)
    /\ UNCHANGED <<observe, active, observed, cool, book, chain, lost>>

\* observe_only: the would-be trade is recorded as an observation, if the insert
\* succeeds, and starts the cooldown.
Observe(b, saved) ==
    /\ observe
    /\ pc[b] = "route" /\ \E q \in Quotes : HasRoute(b, q)
    /\ observed' = IF saved THEN observed \cup {tok[b]} ELSE observed
    /\ cool' = TRUE
    /\ Return(b, TRUE)
    /\ UNCHANGED <<observe, active, book, chain, lost>>

\* A transaction for the route is handed to the chain, which may take it in.
Send(b, lands) ==
    /\ ~observe
    /\ pc[b] = "route" /\ \E q \in Quotes : HasRoute(b, q)
    /\ buys < MaxBuys
    /\ bal' = IF lands THEN [bal EXCEPT ![tok[b]] = TRUE] ELSE bal
    /\ buys' = buys + 1
    /\ sinceStop' = IF b = Pipe /\ ~active THEN sinceStop + 1 ELSE sinceStop

\* It is sent. It lands, fails on the chain or expires; in all three cases the
\* sender, having waited for the confirmation, returns the signature.
Submit(b, lands) ==
    /\ Send(b, lands)
    /\ pc' = [pc EXCEPT ![b] = "verify"]
    /\ landed' = [landed EXCEPT ![b] = lands]
    /\ UNCHANGED <<observe, tok, active, errs, observed, cool, book, lost>>

\* The sender gets an error or no answer in time. Sent without preflight, the
\* transaction may land all the same: tokens without a position.
SendFails(b, lands) ==
    /\ Send(b, lands)
    /\ Return(b, FALSE)
    /\ UNCHANGED <<observe, active, observed, cool, book, lost>>

\* The balance stays zero or cannot be read.
VerifyFails(b) ==
    /\ pc[b] = "verify"
    /\ Return(b, FALSE)
    /\ UNCHANGED <<observe, active, observed, cool, book, chain, lost>>

\* Tokens are there, but open_position finds the mint open.
OpenRefused(b) ==
    /\ pc[b] = "verify" /\ bal[tok[b]]
    /\ cache[tok[b]] = "Open"
    /\ Return(b, FALSE)
    /\ UNCHANGED <<observe, active, observed, cool, book, chain, lost>>

\* insert_trade: pnl_sol is NULL in every row. A failing insert, which only warns,
\* leaves out a row that DailyLoss does not count.
InsertTrade == trades' = trades \cup {"NULL"}

\* Tokens are there and the position is opened. If its write fails, execute_buy
\* returns the error at once: no trade, no cooldown, but the position stays.
Opens(b, written) ==
    LET m == tok[b]
    IN  /\ pc[b] = "verify" /\ bal[m]
        /\ cache[m] # "Open"
        /\ cache' = [cache EXCEPT ![m] = "Open"]
        /\ rowed' = [rowed EXCEPT ![m] = written]
        /\ cool' = (cool \/ written)
        /\ burst' = IF cool THEN burst + 1 ELSE 0
        /\ IF written THEN InsertTrade ELSE UNCHANGED trades
        /\ Return(b, written)
        /\ UNCHANGED <<observe, active, observed, ghosts, chain, lost>>

----------------------------------------------------------------------------
(* The exit of a position (ExitPipeline), and time                         *)

\* A position is closed, as sold or as an error with the tokens left behind. The
\* trade of a sale is recorded without a profit or loss.
Close(m, sold, loss, written) ==
    /\ cache[m] = "Open"
    /\ cache' = [cache EXCEPT ![m] = "Closed"]
    /\ rowed' = [rowed EXCEPT ![m] = FALSE]
    /\ ghosts' = IF rowed[m] /\ ~written THEN ghosts + 1 ELSE ghosts
    /\ bal' = [bal EXCEPT ![m] = ~sold]
    /\ IF sold /\ written THEN InsertTrade ELSE UNCHANGED trades
    /\ lost' = IF sold /\ loss /\ lost < LossLimit THEN lost + 1 ELSE lost
    /\ UNCHANGED <<observe, pc, tok, landed, active, errs, observed, cool, buys, sinceStop,
                   burst>>

CooldownExpires ==
    /\ cool
    /\ cool' = FALSE /\ burst' = 0
    /\ UNCHANGED <<observe, pc, tok, landed, active, errs, observed, cache, rowed, ghosts,
                   trades, chain, lost>>

----------------------------------------------------------------------------
(* Specification                                                           *)

Init ==
    /\ observe \in BOOLEAN
    /\ pc = [b \in Buyers |-> "idle"]
    /\ tok = [b \in Buyers |-> NoMint] /\ landed = [b \in Buyers |-> FALSE]
    /\ active = TRUE /\ errs = 0 /\ observed = {} /\ cool = FALSE
    /\ cache = [m \in Mints |-> "None"] /\ rowed = [m \in Mints |-> FALSE] /\ ghosts = 0
    /\ bal = [m \in Mints |-> FALSE]
    /\ trades = {} /\ lost = 0 /\ buys = 0 /\ sinceStop = 0 /\ burst = 0

PipeNext ==
    \/ \E m \in Mints : Receive(m) \/ ObservationExpires(m)
    \/ Resume \/ ErrorExpires
    \/ \E e \in Enrichments, dup, saved, wallet \in BOOLEAN : Enriched(e, dup, saved, wallet)

BuyNext(b) ==
    \/ Admit(b) \/ Deny(b)
    \/ RouteFails(b)
    \/ \E saved \in BOOLEAN : Observe(b, saved)
    \/ \E lands \in BOOLEAN : Submit(b, lands) \/ SendFails(b, lands)
    \/ VerifyFails(b) \/ OpenRefused(b)
    \/ \E written \in BOOLEAN : Opens(b, written)

Next ==
    \/ PipeNext
    \/ \E b \in Bots, m \in Mints : BuyButton(b, m)
    \/ Stop \/ Go
    \/ \E b \in Buyers : BuyNext(b)
    \/ \E m \in Mints, sold, loss, written \in BOOLEAN : Close(m, sold, loss, written)
    \/ CooldownExpires

Spec == Init /\ [][Next]_vars

----------------------------------------------------------------------------
(* Properties                                                              *)

\* execute_buy counts the positions before it waits for a route and the chain,
\* so concurrent buyers overshoot max_positions, but by no more than one
\* position for each further buyer, whatever writes fail and whichever ghost
\* rows the database has.
PositionsBounded ==
    Cardinality(OpenMints) <= MaxPositions + Cardinality(Buyers) - 1

\* /stop ("TIDAK akan auto-buy") lets at most the one automatic buy go through
\* that had already asked the kill switch.
StopHolds == sinceStop <= 1

\* The circuit breaker: never more than CB_ERROR_THRESHOLD failed buys of the
\* pipeline within one window.
BreakerHolds == errs <= ErrThreshold

\* The cooldown is asked before a buy and recorded after it: while it runs, only
\* the other buyers that were already past the question open positions, each
\* one, however long their transactions take.
CooldownHolds == burst <= Cardinality(Buyers) - 1

\* A buy whose tokens were not received opens no position ("do NOT open a
\* position or record a trade (phantom position bug)").
NoPhantom ==
    [][\A b \in Buyers : \A written \in BOOLEAN : Opens(b, written) => landed[b]]_vars

\* "Cumulative daily realized losses must not exceed the daily loss limit": once
\* they have reached it, no buy is admitted.
DailyLossStops == [][\A b \in Buyers : Admit(b) => lost < LossLimit]_vars

=============================================================================
