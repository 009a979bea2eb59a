----------------------------- MODULE ExitPipeline -----------------------------
(***************************************************************************)
(* How a position is left: the TP/SL monitor evaluates positions and sends *)
(* commands (executor/tp_sl.rs), the command processor turns them into     *)
(* sell orders, the Telegram bot adds orders of its own, and the one sell  *)
(* executor works them off with retries (main.rs, executor/mod.rs) against *)
(* a chain that may accept a sale the bot cannot verify. Meanwhile buyers  *)
(* buy the same tokens again.                                              *)
(*                                                                         *)
(* The tasks share only the position cache, whose operations are atomic    *)
(* here (PositionStore opens them up), and two bounded channels on which   *)
(* senders wait. Each step below ends where its task awaits. The process   *)
(* may crash between any two steps; what it starts with again are the rows *)
(* of the database that say Open.                                          *)
(***************************************************************************)
EXTENDS TpSlRules

CONSTANTS
    Mints,
    Mode,         \* trading mode
    Quotes,       \* views a fresh price may give a position
    Written,      \* views a position may have been written to the database with
    Realized,     \* percentages the wallet's SOL difference may show
    RaydiumDirect,\* enable_raydium_direct: the direct swap is tried first
    ManualPcts,   \* percentages the operator asks for with /sell
    Units,        \* tokens one buy brings in
    CmdCap,       \* capacity of the monitor's command channel (64)
    SellCap,      \* capacity of the sell channel (64)
    MaxAttempts,  \* attempts per sell order (3)
    MaxBuys,      \* bound on the buys of one token
    Restarts      \* the process may die and be started again

ASSUME PipelineAssumption ==
    /\ Mode \in DOMAIN Profile
    /\ Quotes \cup Written \subseteq View /\ Realized \subseteq Int
    /\ ManualPcts \subseteq 1 .. 100 /\ {RaydiumDirect, Restarts} \subseteq BOOLEAN
    /\ {Units, CmdCap, SellCap, MaxAttempts, MaxBuys} \subseteq Nat \ {0}

VARIABLES
    pos,        \* mint -> cached position; gen numbers the positions of a mint
    rows,       \* mint -> positions, by gen, whose row in the database is Open
    triggered,  \* mint -> tiers already triggered (triggered_tiers)
    todo,       \* snapshots the current sweep has still to evaluate
    out,        \* command the monitor is sending, or NoOrder
    cmdq,       \* monitor -> command processor
    proc,       \* order the command processor is sending, or NoOrder
    sellq,      \* (mint, pct) orders for the sell executor
    exe,        \* the sell executor
    bal,        \* mint -> tokens in the wallet (on chain)
    buys,       \* mint -> buys that landed so far
    buying,     \* mint -> a buy has landed and is about to be opened
    fired,      \* history: tiers triggered since the process was started, as
                \* <<mint, gen, tier>>
    loose       \* history: mints whose cache entry no longer accounts for all
                \* tokens: a sale was assumed complete, a buy was refused or lost
                \* in a crash, or a direct sale whose booking failed was
                \* repeated through Jupiter

vars == <<pos, rows, triggered, todo, out, cmdq, proc, sellq, exe, bal, buys, buying,
          fired, loose>>
monitor == <<triggered, todo, out, fired>>
buyers == <<buys, buying>>

\* Past the monitor only the mint and the percentage of a command matter. The
\* executor cannot tell manual orders from others; the flag is for the reader.
Order == [mint: Mints, pct: 1 .. 100, manual: BOOLEAN]
Command == [mint: Mints, pct: 1 .. 100, gen: 1 .. MaxBuys, tier: 0 .. Len(Tiers[Mode]),
            kind: {"StopLoss", "TimeStop", "MaxAgeExit", "PartialTakeProfit",
                   "TrailingStop", "TakeProfit"}]
NoOrder == [kind |-> "none"]

IdleExe == [pc |-> "idle", attempt |-> 0, pre |-> 0, post |-> 0, landed |-> FALSE,
            direct |-> FALSE, order |-> NoOrder]

TypeOK ==
    /\ \A m \in Mints :
          /\ pos[m].gen \in 0 .. MaxBuys
          /\ pos[m].status \in {"None", "Open", "Sold", "Error"}
          /\ pos[m].view \in View
          /\ triggered[m] \subseteq DOMAIN Tiers[Mode]
          /\ bal[m] \in 0 .. Units * MaxBuys
          /\ buys[m] \in 0 .. MaxBuys /\ buying[m] \in BOOLEAN
    /\ out \in Command \cup {NoOrder} /\ proc \in Order \cup {NoOrder}
    /\ Len(cmdq) <= CmdCap /\ Len(sellq) <= SellCap
    /\ \A i \in DOMAIN sellq : sellq[i] \in Order
    /\ exe.pc \in {"idle", "submit", "fallback", "verify", "pnl", "book", "error"}
    /\ exe.attempt \in 0 .. MaxAttempts
    /\ loose \subseteq Mints
    /\ \A m \in Mints : rows[m] \subseteq 1 .. MaxBuys
    /\ fired \subseteq Mints \X (1 .. MaxBuys) \X DOMAIN Tiers[Mode]

IsOpen(m) == pos[m].status = "Open"

----------------------------------------------------------------------------
(* TP/SL monitor                                                           *)

\* One call of evaluate_position on a snapshot; the send follows.
EvaluatePosition(m, gen, view) ==
    LET c == Evaluate(Mode, view, triggered[m])
    IN  /\ triggered' = [triggered EXCEPT ![m] = Mark(c, @)]
        /\ fired' = IF c.tier = 0 THEN fired ELSE fired \cup {<<m, gen, c.tier>>}
        /\ out' = IF c = NoCmd THEN NoOrder
                  ELSE [mint |-> m, pct |-> c.pct, gen |-> gen, tier |-> c.tier,
                        kind |-> c.kind]

MonitorIdle == todo = {} /\ out = NoOrder

\* handle_price_update: a fresh view, or the old one with the stale flag.
HandlePriceUpdate(m, view) ==
    /\ MonitorIdle
    /\ pos[m].status # "None"
    /\ pos' = [pos EXCEPT ![m].view = view]
    /\ IF IsOpen(m) THEN EvaluatePosition(m, pos[m].gen, view)
                    ELSE UNCHANGED <<triggered, out, fired>>
    /\ UNCHANGED <<rows, todo, cmdq, proc, sellq, exe, bal, buyers, loose>>

\* Mutant: the sweep forgets the triggered tiers of every mint.
SweepForgetting ==
    /\ MonitorIdle
    /\ todo' = {[mint |-> m, gen |-> pos[m].gen, view |-> pos[m].view] :
                   m \in {n \in Mints : IsOpen(n)}}
    /\ triggered' = [m \in Mints |-> {}]
    /\ UNCHANGED <<pos, rows, out, fired, cmdq, proc, sellq, exe, bal, buyers, loose>>

\* check_all_positions: snapshots of the open positions; tiers of mints that
\* are not open are forgotten.
Sweep ==
    /\ MonitorIdle
    /\ todo' = {[mint |-> m, gen |-> pos[m].gen, view |-> pos[m].view] :
                   m \in {n \in Mints : IsOpen(n)}}
    /\ triggered' = [m \in Mints |-> IF IsOpen(m) THEN triggered[m] ELSE {}]
    /\ UNCHANGED <<pos, rows, out, fired, cmdq, proc, sellq, exe, bal, buyers, loose>>

SweepPosition(s) ==
    /\ s \in todo /\ out = NoOrder
    /\ todo' = todo \ {s}
    /\ EvaluatePosition(s.mint, s.gen, s.view)
    /\ UNCHANGED <<pos, rows, cmdq, proc, sellq, exe, bal, buyers, loose>>

\* Mutant: the channel is unbounded.
SendCommandUnbounded ==
    /\ out # NoOrder
    /\ cmdq' = Append(cmdq, [mint |-> out.mint, pct |-> out.pct, manual |-> FALSE])
    /\ out' = NoOrder
    /\ UNCHANGED <<pos, rows, triggered, todo, fired, proc, sellq, exe, bal, buyers, loose>>

\* command_tx.send(cmd).await
SendCommand ==
    /\ out # NoOrder /\ Len(cmdq) < CmdCap
    /\ cmdq' = Append(cmdq, [mint |-> out.mint, pct |-> out.pct, manual |-> FALSE])
    /\ out' = NoOrder
    /\ UNCHANGED <<pos, rows, triggered, todo, fired, proc, sellq, exe, bal, buyers, loose>>

----------------------------------------------------------------------------
(* Command processor and Telegram bot                                      *)

\* process_tp_sl_commands drops commands for positions that are closed.
ProcessCommand ==
    /\ proc = NoOrder /\ cmdq # <<>>
    /\ cmdq' = Tail(cmdq)
    /\ proc' = IF IsOpen(Head(cmdq).mint) THEN Head(cmdq) ELSE NoOrder
    /\ UNCHANGED <<pos, rows, monitor, sellq, exe, bal, buyers, loose>>

\* sell_tx.send((mint, pct)).await
DispatchSell ==
    /\ proc # NoOrder /\ Len(sellq) < SellCap
    /\ sellq' = Append(sellq, proc) /\ proc' = NoOrder
    /\ UNCHANGED <<pos, rows, monitor, cmdq, exe, bal, buyers, loose>>

\* /sell and the sell buttons send whatever the state of the position.
ManualSell(m, pct) ==
    /\ pos[m].status # "None" /\ Len(sellq) < SellCap
    /\ sellq' = Append(sellq, [mint |-> m, pct |-> pct, manual |-> TRUE])
    /\ UNCHANGED <<pos, rows, monitor, cmdq, proc, exe, bal, buyers, loose>>

----------------------------------------------------------------------------
(* Sell executor                                                           *)

SkipOrder ==
    /\ exe.pc = "idle" /\ sellq # <<>>
    /\ ~IsOpen(Head(sellq).mint)
    /\ sellq' = Tail(sellq)
    /\ UNCHANGED <<pos, rows, monitor, cmdq, proc, exe, bal, buyers, loose>>

\* No active wallet, or its key cannot be decrypted: the order is lost.
DropOrder ==
    /\ exe.pc = "idle" /\ sellq # <<>>
    /\ IsOpen(Head(sellq).mint)
    /\ sellq' = Tail(sellq)
    /\ UNCHANGED <<pos, rows, monitor, cmdq, proc, exe, bal, buyers, loose>>

\* Mutant: the executor does not look at the position.
TakeOrderUnguarded ==
    /\ exe.pc = "idle" /\ sellq # <<>>
    /\ sellq' = Tail(sellq)
    /\ exe' = [IdleExe EXCEPT !.pc = "submit", !.attempt = 1, !.order = Head(sellq)]
    /\ UNCHANGED <<pos, rows, monitor, cmdq, proc, bal, buyers, loose>>

TakeOrder ==
    /\ exe.pc = "idle" /\ sellq # <<>>
    /\ IsOpen(Head(sellq).mint)
    /\ sellq' = Tail(sellq)
    /\ exe' = [IdleExe EXCEPT !.pc = "submit", !.attempt = 1, !.order = Head(sellq)]
    /\ UNCHANGED <<pos, rows, monitor, cmdq, proc, bal, buyers, loose>>

\* Mutant: a failed attempt is retried for ever.
AttemptFailsForever ==
    exe' = [IdleExe EXCEPT !.pc = "submit", !.attempt = exe.attempt, !.order = exe.order]

\* An error in the direct swap falls through to Jupiter, with the balance that
\* was read before it. Otherwise execute_sell returns the error: the next
\* attempt, or give up.
AttemptFails ==
    exe' = IF exe.direct
           THEN [exe EXCEPT !.pc = "fallback", !.direct = FALSE, !.landed = FALSE, !.post = 0]
           ELSE IF exe.attempt < MaxAttempts
           THEN [IdleExe EXCEPT !.pc = "submit", !.attempt = exe.attempt + 1,
                                !.order = exe.order]
           ELSE [IdleExe EXCEPT !.pc = "error", !.order = exe.order]

\* The balance cannot be read, is zero or rounds to nothing, or no transaction
\* can be built or sent.
SubmitFails ==
    /\ exe.pc \in {"submit", "fallback"}
    /\ AttemptFails
    /\ UNCHANGED <<pos, rows, monitor, cmdq, proc, sellq, bal, buyers, loose>>

\* The transaction is sent; it lands or expires before the verdict on it.
SendSell(landed, direct) ==
    LET m == exe.order.mint
        amount == (bal[m] * exe.order.pct) \div 100
    IN  /\ exe.pc = "submit"
        /\ amount > 0
        /\ bal' = IF landed THEN [bal EXCEPT ![m] = @ - amount] ELSE bal
        /\ exe' = [exe EXCEPT !.pc = "verify", !.pre = bal[m], !.landed = landed,
                              !.direct = direct]
        /\ UNCHANGED <<pos, rows, monitor, cmdq, proc, sellq, buyers, loose>>

\* The sale through PumpPortal, at a slippage that is raised until it accepts the
\* transaction, or through Jupiter.
SubmitSell(landed) == SendSell(landed, FALSE)

\* The direct swap in the Raydium pool, before Jupiter.
SubmitDirect(landed) == RaydiumDirect /\ SendSell(landed, TRUE)

\* Jupiter after the direct swap: the amount is not computed again, and the
\* chain only accepts it if the wallet still holds as much.
FallbackSell(landed) ==
    LET m == exe.order.mint
        amount == (exe.pre * exe.order.pct) \div 100
    IN  /\ exe.pc = "fallback"
        /\ landed => amount <= bal[m]
        /\ bal' = IF landed THEN [bal EXCEPT ![m] = @ - amount] ELSE bal
        /\ exe' = [exe EXCEPT !.pc = "verify", !.landed = landed]
        /\ UNCHANGED <<pos, rows, monitor, cmdq, proc, sellq, buyers, loose>>

\* verify_sell_outcome: BalanceReduced.
BalanceReduced ==
    /\ exe.pc = "verify"
    /\ bal[exe.order.mint] < exe.pre
    /\ exe' = [exe EXCEPT !.pc = "pnl", !.post = bal[exe.order.mint],
                          !.pre = IF exe.direct THEN @ ELSE 0, !.landed = FALSE]
    /\ UNCHANGED <<pos, rows, monitor, cmdq, proc, sellq, bal, buyers, loose>>

\* verify_sell_outcome: SignatureConfirmed, while the balance could not be
\* read or did not show it. The sale is assumed to be complete.
SignatureConfirmed ==
    /\ exe.pc = "verify" /\ exe.landed
    /\ exe' = [exe EXCEPT !.pc = "pnl", !.post = 0,
                          !.pre = IF exe.direct THEN @ ELSE 0, !.landed = FALSE]
    /\ loose' = loose \cup {exe.order.mint}
    /\ UNCHANGED <<pos, rows, monitor, cmdq, proc, sellq, bal, buyers>>

\* verify_sell_outcome: Failed. Without an answer from the RPC node this is also
\* the verdict on a transaction that landed. A sender whose answer is an error
\* although the transaction was accepted leaves the executor where this does.
VerifyFails ==
    /\ exe.pc = "verify"
    /\ AttemptFails
    /\ UNCHANGED <<pos, rows, monitor, cmdq, proc, sellq, bal, buyers, loose>>

\* update_pnl_realized; without a wallet snapshot it leaves pnl_pct alone.
BookPnl ==
    /\ exe.pc = "pnl"
    /\ \E r \in Realized \cup {pos[exe.order.mint].view.pnl} :
          pos' = [pos EXCEPT ![exe.order.mint].view.pnl = r]
    /\ exe' = [exe EXCEPT !.pc = "book"]
    /\ UNCHANGED <<rows, monitor, cmdq, proc, sellq, bal, buyers, loose>>

\* Mutant: the position is closed after any verified sale.
BookSellAlways ==
    /\ exe.pc = "book"
    /\ pos' = [pos EXCEPT ![exe.order.mint].status = "Sold"]
    /\ exe' = IdleExe
    /\ UNCHANGED <<rows, monitor, cmdq, proc, sellq, bal, buyers, loose>>

\* persist_position replaces the row of the position in the cache. Only rows that
\* are Open matter, for the next start.
Persist(m) ==
    rows' = [rows EXCEPT ![m] =
                IF pos'[m].status = "Open" THEN @ \cup {pos'[m].gen}
                ELSE @ \ {pos'[m].gen}]

\* close_position if no token is left, else reduce_position. A database error
\* makes execute_sell fail after the cache was changed; after a direct sale it
\* even sends the order once more, through Jupiter.
BookSell ==
    /\ exe.pc = "book"
    /\ pos' = IF exe.post = 0 THEN [pos EXCEPT ![exe.order.mint].status = "Sold"] ELSE pos
    /\ \/ exe' = IdleExe /\ Persist(exe.order.mint) /\ UNCHANGED loose
       \/ /\ AttemptFails
          /\ loose' = IF exe.direct THEN loose \cup {exe.order.mint} ELSE loose
          /\ UNCHANGED rows
    /\ UNCHANGED <<monitor, cmdq, proc, sellq, bal, buyers>>

\* close_position_error, a no-op unless the position is open.
MarkError ==
    /\ exe.pc = "error"
    /\ pos' = IF IsOpen(exe.order.mint)
              THEN [pos EXCEPT ![exe.order.mint].status = "Error",
                               ![exe.order.mint].view.pnl = 0]
              ELSE pos
    /\ UNCHANGED rows \/ (IsOpen(exe.order.mint) /\ Persist(exe.order.mint))
    /\ exe' = IdleExe
    /\ UNCHANGED <<monitor, cmdq, proc, sellq, bal, buyers, loose>>

----------------------------------------------------------------------------
(* Buyers: execute_buy spends first and opens the position last            *)

BuyLands(m) ==
    /\ buys[m] < MaxBuys /\ ~buying[m]
    /\ bal' = [bal EXCEPT ![m] = @ + Units]
    /\ buys' = [buys EXCEPT ![m] = @ + 1]
    /\ buying' = [buying EXCEPT ![m] = TRUE]
    /\ UNCHANGED <<pos, rows, monitor, cmdq, proc, sellq, exe, loose>>

\* open_position; refused when the mint is open, although the tokens are there.
BuyOpens(m) ==
    /\ buying[m]
    /\ buying' = [buying EXCEPT ![m] = FALSE]
    /\ pos' = IF IsOpen(m) THEN pos
              ELSE [pos EXCEPT ![m] = [gen |-> buys[m], status |-> "Open", view |-> Opened]]
    /\ UNCHANGED rows \/ (~IsOpen(m) /\ Persist(m))
    /\ loose' = IF IsOpen(m) THEN loose \cup {m} ELSE loose
    /\ UNCHANGED <<monitor, cmdq, proc, sellq, exe, bal, buys>>

----------------------------------------------------------------------------
(* Crash and restart                                                       *)

NoPosition == [gen |-> 0, status |-> "None", view |-> Opened]

\* load_from_db: one of the mint's Open rows, with a view as it was at the last
\* write and an age that starts again at zero.
Reloaded(m) ==
    IF rows[m] = {} THEN {NoPosition}
    ELSE {[gen |-> g, status |-> "Open", view |-> [w EXCEPT !.age = 0]] :
             g \in rows[m], w \in Written}

\* The process dies between any two steps and main starts it again: channels, the
\* executor, buyers and the triggered tiers live in memory only. If the rows
\* cannot be loaded it starts without positions.
Restart ==
    /\ Restarts
    /\ \/ pos' \in [Mints -> UNION {Reloaded(m) : m \in Mints}]
          /\ \A m \in Mints : pos'[m] \in Reloaded(m)
       \/ pos' = [m \in Mints |-> NoPosition]
    /\ triggered' = [m \in Mints |-> {}]
    /\ todo' = {} /\ out' = NoOrder /\ fired' = {}
    /\ cmdq' = <<>> /\ proc' = NoOrder /\ sellq' = <<>>
    /\ exe' = IdleExe
    /\ buying' = [m \in Mints |-> FALSE]
    /\ loose' = loose \cup {m \in Mints : buying[m]}
    /\ UNCHANGED <<rows, bal, buys>>

----------------------------------------------------------------------------
(* Specification                                                           *)

Init ==
    /\ pos = [m \in Mints |-> NoPosition]
    /\ rows = [m \in Mints |-> {}]
    /\ triggered = [m \in Mints |-> {}]
    /\ todo = {} /\ out = NoOrder
    /\ cmdq = <<>> /\ proc = NoOrder /\ sellq = <<>>
    /\ exe = IdleExe
    /\ bal = [m \in Mints |-> 0]
    /\ buys = [m \in Mints |-> 0] /\ buying = [m \in Mints |-> FALSE]
    /\ fired = {} /\ loose = {}

SellStep ==
    \/ SkipOrder \/ TakeOrder
    \/ SubmitFails
    \/ \E landed \in BOOLEAN : SubmitSell(landed) \/ SubmitDirect(landed) \/ FallbackSell(landed)
    \/ BalanceReduced \/ SignatureConfirmed \/ VerifyFails
    \/ BookPnl \/ BookSell \/ MarkError

MonitorStep == Sweep \/ (\E s \in todo : SweepPosition(s)) \/ SendCommand

Next ==
    \/ MonitorStep
    \/ \E m \in Mints : \E view \in Quotes \cup {[pos[m].view EXCEPT !.stale = TRUE]} :
          HandlePriceUpdate(m, view)
    \/ ProcessCommand \/ DispatchSell
    \/ \E m \in Mints, pct \in ManualPcts : ManualSell(m, pct)
    \/ SellStep \/ DropOrder
    \/ \E m \in Mints : BuyLands(m) \/ BuyOpens(m)
    \/ Restart

\* Every task runs on, the check timer ticks, a sender waiting on a full channel
\* gets its turn (tokio's semaphores are first come, first served), and the
\* wallet is not unavailable for ever.
Fairness ==
    /\ WF_vars(MonitorStep) /\ SF_vars(Sweep)
    /\ WF_vars(ProcessCommand) /\ SF_vars(DispatchSell)
    /\ WF_vars(SellStep) /\ SF_vars(TakeOrder)

Spec == Init /\ [][Next]_vars /\ Fairness

----------------------------------------------------------------------------
(* Properties                                                              *)

\* The book and the chain agree when a position is closed as sold: whatever was
\* retried, unverified or bought in between, no token is left in the wallet
\* unless a sale was only assumed to be complete, a buy was refused, or a direct
\* sale that could not be booked was repeated.
SoldMeansEmpty ==
    \A m \in Mints :
        pos[m].status = "Sold" /\ ~buying[m] /\ m \notin loose => bal[m] = 0

TierFires == out = NoOrder /\ out' # NoOrder /\ out'.tier # 0

\* A tier takes profit of a position at most once while the process runs, though
\* both price updates and sweeps evaluate it, on snapshots, and the sweep forgets
\* tiers. Not longer: triggered_tiers is kept in memory only, so a restart that
\* reloads the position as Open lets its tiers fire again.
TierOnce == [][TierFires => <<out'.mint, out'.gen, out'.tier>> \notin fired]_vars

\* Echoes are harmless: orders that pile up behind a sale do not sell tokens of
\* a closed position, not even those of the next buy before it is opened. Only
\* the retry or fallback of an order whose booking failed may.
EchoHarmless ==
    [][\A m \in Mints : bal'[m] < bal[m] =>
          IsOpen(m) \/ exe.attempt > 1 \/ exe.pc = "fallback"]_vars

StopLossDue(m) ==
    IsOpen(m) /\ ShouldStopLoss(Mode, pos[m].view) /\ ~Bogus(pos[m].view)

\* No position rides its stop-loss for ever: through full channels, lost orders,
\* failed and unverified sales, it is sold or given up as an error in the end.
StopLossExits == \A m \in Mints : []<>~StopLossDue(m)

\* After a partial sale the rest of the position waits for its next tier ("+20%:
\* sell 70% of remaining"): a sweep sends a stop-loss only if the quoted price
\* is down by the stop-loss percentage.
StopLossMeansLoss ==
    [][\A s \in todo : SweepPosition(s) /\ out'.kind = "StopLoss"
          => s.view.price <= 100 - Profile[Mode].sl]_vars

\* After three failures the operator is told to sell with /sell: the executor
\* does not throw away a manual order for such a position's tokens.
ManualSellServed ==
    [][LET o == Head(sellq)
       IN  SkipOrder /\ o.manual /\ pos[o.mint].status = "Error"
           => bal[o.mint] = 0]_vars

=============================================================================
