# Ricoz Sniper: a TLA+ model of the trading core

The repository is a Solana trading bot in Rust (`src/src`, about 15 800 lines on tokio's
multi-threaded runtime). It detects tokens that migrate to an AMM, buys them, watches their
price and sells them. This directory models how it detects tokens and enters, prices, books
and leaves positions: TLA+ modules, TLC runs on small instances, and TLAPS proofs for all
instances.

## The system

    PumpPortal listener ----------------------------------+
    Helius listener --raw transactions--> processor ------+--> merge engine
                                                                  | token_rx(256)
                                                                  v
                                                  analyzer pipeline ---> execute_buy ---------+
                                                             Telegram bot ---> execute_buy --+ |
                                                                  |                          v v
    price feed --price_tx(256)--> TP/SL monitor <-- reads --- PositionManager (cache + SQLite table)
                                      | commands(64)              ^
                                      v                           | books
                            command processor --sell_tx(64)--> sell executor --> execute_sell
                                       Telegram bot ---------^

| Component | State | Operations | What makes it hard | What makes it correct |
|---|---|---|---|---|
| Position store (`executor/positions.rs`) | cache by mint, table by id | open, price, realised PnL, reduce, close, close as error, load | clones are persisted after the lock is released; several lock sections per operation; crash between cache and table; failing writes | cache and table agree, no row stays Open by itself, a close is final, an open position is not replaced, the PnL of a closed row is the realised one |
| TP/SL rules (`executor/tp_sl.rs`, `models/position.rs`, `config.rs`) | quote, age, triggered tiers | evaluate on price and sweep | order of a dozen rules, equal thresholds, stale quotes, bogus ticks | tiers in order, profit exits at a profit, losses and old positions always lead to a full exit |
| Exit pipeline (`tp_sl.rs`, `main.rs`, `executor/mod.rs`) | two channels, sweep snapshots, current order, wallet balance | price, sweep, dispatch, take, sell by one of several routes, verify, book, give up | full channels, commands repeated every tick, sales that land unverified, retries, positions bought again meanwhile | what is booked as sold is gone, a tier fires once while the process runs, echoes sell nothing, a stop-loss always gets out |
| Entry (`main.rs`, `executor/mod.rs`, `risk/`) | error window, observations, cooldown, kill switch, wallet | receive, enrich, admit, route, submit, verify, open | checks long before acts, two sources for the number of positions, transactions of unknown fate | limits hold up to the concurrency of the buyers, /stop stops, the breaker opens |
| Listeners and parsers (`detector/`) | links with backoff, chosen backend, remembered signatures, raw channel | connect, fail, end, forward, parse | reconnection, the probe of mode Auto, replays after a reconnect, full channels | both listeners come back, after a backoff that fits their failures; everything delivered drains |
| Merge engine (`detector/mod.rs`, `detector/queue.rs`) | pending tokens, two dedup queues | merge, emit, expire, clean up | two sources in any order, repetitions, a slow analyzer, a biased select | once per TTL and kind, kinds never collide or mix, PumpPortal's data wins |
| Price feed (`executor/price_feed.rs`) | cached decimals, price channel | poll the position's source, fall back to Jupiter, mark as stale | rounded probes, cached defaults, pools of either orientation, sources that die | a loss or a profit acted on is one of the market, a position does not stay blind |
| Routes and senders (`router.rs`, `jupiter.rs`, `raydium.rs`, ...) | none | read a pool, quote, choose a route, send | rounding, transactions of unknown fate | a direct swap is quoted so that the chain accepts it, a round trip never gains |
| Bot, wallets, database, security | sessions, active wallet, rate limits | commands, queries | two-statement updates, a wallet switched under a position | (as far as the entry and the exit use them) |
| Scoring (`analyzer/`), UI, Jito, logging | none | | | not modelled |

`PROJECT.json` lists every component with its status, every hazard with its line and the
properties that cover it, and for every definition the source lines it stands for.

## Modules

**PositionStore** models `PositionManager` and the tasks that share it. `mem` is the
`RwLock`ed map, `db` the table, `buyer` and `sclone` the clones that a task has still to
persist. One step is one critical section or one write. `OpenInsert`/`OpenPersist` are the
halves of `open_position`; `ClosePosition`, `ReducePosition` and `SellPersist` those of a
booked sale; `CloseErrorCheck`, `CloseErrorClear`, `CloseErrorMark`, `CloseErrorPersist` the
sections of `close_position_error`. A write may fail (`PersistFails`), the process may crash
anywhere and reloads the Open rows, unless loading fails. A position is abstracted to its
id, mint, status, the kind of PnL it holds (zero, spot price, realised) and whether a wallet
snapshot exists. The history `behind` holds the ids whose row lacks the last change because
its write failed or was overwritten by the buyer's older clone; a later write that succeeds
takes the id out again, since `persist_position` replaces the whole row, and a restart empties
it. `MemDbAgree` therefore speaks of every position whose last write succeeded, and
`GhostsOnlyByFailure` lists, step by step, what may leave a row Open whose position is not
open: the failing or overwritten write of a close, a start whose load fails, a start that
finds two Open rows of one mint. Nothing else does, in particular no crash by itself, re-buy,
retry or sale that is given up.

**PositionLedger** is the abstract specification of the store, what its users may rely on: a
position of a mint is opened when none is open, under an identity never used before; a close
is final; a crash forgets what the process knew and a restart brings back some positions as
open, but none whose close has become durable. The refinement mapping in PositionStore
(`Ledger`) shows of a cached position its identity and whether it is open (`HeldPosition`),
and calls a close durable when its row says so and no buyer holds an older clone that could
still overwrite it (`DurablyClosed`).

**TpSlRules** holds the pure rules: `Profile` (the three trading modes), `Tiers`, the
predicates of `Position`, and `Evaluate`, the whole of `evaluate_position` on a view (pnl,
price and highest price in percent of the entry price, age, stale). **TpSlWatch** has the
steps of the monitor on one position: a fresh quote, a stale one, a sweep, passing time.

**Routes** holds pure operators: the reader of Raydium pools, which side of one is the token,
its price and constant-product quotes in integers as the code computes them, and
`find_best_route`. `ChainOut` is what the AMM program pays.

**PriceFeed** composes the feed with TpSlWatch and Routes. On a tick the feed asks the
position's own source and then Jupiter, whose answer is a whole number of lamports for a
probe of one token; the size of the probe depends on decimals that are looked up once and
cached even when the lookup failed. What it found, or a stale mark, goes through the price
channel to the monitor, while the market, the accounts read and Jupiter change. `min_sol_out`
is the least output a direct sale asks for, with any slippage the configuration can hold: it
is parsed as a `u16` and used unchecked, so that above 10000 the subtraction underflows and
what is asked for (`Wrapped`) is more than there is.

**ExitPipeline** composes monitor, command processor, sell executor, the operator's sells
and buyers over bounded channels, with the wallet balance as ground truth. It uses
`TpSlRules`. A sale is submitted, lands or not, falls back to the direct route, is verified
by balance or by signature, or not at all, is booked, retried, and finally given up
(`MarkError`). A sweep works on snapshots of the positions, as `get_open_positions` clones
them. `rows` holds the positions whose database row says Open; at any time the process may die
and start again (`Restart`) with one of the Open rows of each mint, or with nothing when they
cannot be loaded, and with empty channels, an idle executor and no triggered tiers.

**BuyPath** models the analyzer pipeline (circuit breaker, filters, observations, kill
switch), the buy button, and `execute_buy` with the risk manager, the cooldown and the
verification of the balance. Each step ends where the code awaits. The route comes from
`find_best_route`; a sender may fail before or after the transaction has reached the chain
(`SendFails`), and a signature may land, fail or expire. The cooldown is asked at admission
and recorded with the position; `burst` counts the positions opened while one runs.

**MergeEngine** models `deduplicate_tokens` with its pending map, the two dedup queues, the
biased select and the channels on both sides. **Detector** composes it with the rest of
`DetectorService::start`: the reconnect loop of each listener (`ConnectFails`, `Connected`,
`StreamEnds`, `Wake`) with its backoff, the choice between gRPC and WebSocket in mode Auto
(`ProbeEnds`), the signatures the WebSocket listener remembers, the channel of raw
transactions, and the processor with the parsers it calls. A transaction is a sequence of
instructions, each with its program, whether its data decodes, and its mints.

**PositionStoreProofs**, **PositionLedgerProofs**, **TpSlRulesProofs**, **PriceFeedProofs**,
**ExitPipelineProofs**, **BuyPathProofs** and **DetectorProofs** hold the theorems; **MC\*** the
instances.

In each module a definition marked "Mutant" is a plausible bug in the definition below it.
It is used by nothing; put in its place, it makes TLC refute the property named with it in
`PROJECT.json`.

## Runs

Each is `tlc -config <cfg> <module>`; the passing ones take up to three minutes.

| Run | Checks | Bounds and why they suffice |
|---|---|---|
| store | TypeOK, MemDbAgree, GhostsOnlyByFailure, ClosedStaysClosed, OpenNotReplaced, ImplementsLedger | one mint (positions of different mints share nothing but the lock), three ids and two buyers: an open position, one replacing a closed one, and one refused; two attempts, so that one is retried and one is the last |
| watch | TypeOK, TierPrefix, LossIsReal, ProfitIsReal, DirectSaleLands, RoundTripLoses, FullExitDemanded, StaleHeals | all three modes, each with another price source; prices and ages at and next to every threshold; accounts of both orientations, of a foreign token and of no pool; a probe worth 40 lamports, so that rounding shows; one update in the channel, as the properties compare an update with the market when it was read; amounts from nothing to far beyond the pool; slippages 0, 1, the default, 10000 and 10001 |
| exit | TypeOK, SoldMeansEmpty, TierOnce, EchoHarmless | one mint bought twice, two units so that partial sales happen, a quote at the stop-loss and one that reaches the first tier and the trailing stop, channels of capacity one so that they fill, two attempts, crashes at any step; rows written at the opening and after a partial sale. The direct swap is off, to keep the instance with crashes small: exit_liveness runs with it, and the theorems hold with and without it |
| exit_liveness | StopLossExits | one mint bought once, both routes, channels of capacity one |
| buy | TypeOK, PositionsBounded, StopHolds, BreakerHolds, CooldownHolds | one slot, three mints and two buyers, so that the limit can be overshot; breaker at two errors; three buys; quotes at and next to the limit on price impact |
| merge | TypeOK, SuppressedOnlyRepeats, MigrationIntact, BackoffFits, EmittedOnce, PumpPortalWins, DrainsWithoutAnalyzer, Reconnects | two mints, every shape of PumpPortal report, three transactions with room for two signatures so that one is forgotten and replayed, channels of capacity two, two and one, a cleanup every second round; four events from outside, shared by messages, failures and ends of streams; backoff up to 4 s, reached after two failures; deadlock is not checked since without events the detector rests |

Six runs end in a violation. Each checks what a comment or message of the code says against
what the code does (quoted in `PROJECT.json` under `findings`):

- **store_pnl** (`NoFantasyPnl`): a price tick between `update_pnl_realized` and
  `close_position` replaces the realised PnL that is about to be persisted.
- **watch_stale** (`TimeStopStillFires`): with stale quotes only, the age of the cached
  position stands still, so the time stop that "must STILL fire" does not.
- **exit_phantom** (`StopLossMeansLoss`): after a partial sale `pnl_pct` is the wallet
  difference, far below zero; a sweep before the next fresh price sells the rest as a
  stop-loss.
- **exit_manual** (`ManualSellServed`): after three failures the operator is asked to use
  /sell, which is skipped because the position is no longer Open.
- **buy_phantom** (`NoPhantom`): a failed buy is verified by tokens that were in the wallet
  before, and opens a position.
- **buy_loss** (`DailyLossStops`): no trade is recorded with its PnL, so the daily loss
  limit is never reached.

Met while modelling, without a run: the comment on the merge engine says that PumpPortal
wins ties for `metadata_uri` and that a token is emitted once both sources reported;
`merge_token_data` keeps the first uri, and a repeated report of one source also counts as
the second.

## Fairness

`exit_liveness`, `watch`, `watch_stale` and `merge` check liveness.

- ExitPipeline: weak fairness of the steps of monitor, command processor and sell executor:
  each is a tokio task that runs when it can. Strong fairness of `DispatchSell`: several
  senders wait for the sell channel; tokio's semaphores serve them in order. Strong fairness
  of `Sweep`: the monitor's `select!` is not biased, so a ready interval is not passed over
  for ever. Strong fairness of `TakeOrder`: an order is dropped when the wallet cannot be
  read; this is assumed not to be so at every attempt. Nothing is assumed of prices, routes,
  the chain or the operator.
- PriceFeed: weak fairness of `FeedPoll`, `HandlePriceUpdate` and `CheckAllPositions`: the two
  tickers go on and the unbiased select takes what waits. `StaleHeals` states its own
  premise, that Jupiter answers for good for a token worth a lamport whose decimals were
  read. `FullExitDemanded` assumes nothing of the sources.
- Detector: weak fairness of the engine, of the processor, of the clock (`Ages`), of a
  listener's sleep (`Wake`) and of `Connected`: an endpoint does not fail for ever. Nothing is
  assumed of the analyzer; that it may take nothing is the point of `DrainsWithoutAnalyzer`.

## Proofs

`PositionStoreProofs` proves for any sets of mints, ids and buyers and any number of
attempts: type correctness, `MemDbAgree`, `GhostsOnlyByFailure`, `ClosedStaysClosed` and
`OpenNotReplaced`. The properties are not inductive: that a write brings a row into step
depends on the clone still describing the cached position. The invariant `IInv` adds `Keys`
(a cached position is stored under its mint, a row under its id, all ids were drawn),
`SellerInv` (the sell executor's position is cached and, within `close_position_error`, stays
open; its clone has the status of the cached position), `BuyerInv` (a buyer's clone is the
open position of its mint, or the sell executor holds, has written or has failed to write a
later one), `RowCurrent` (a row that exists has the status of the cached position, whether or not
the buyer's write is still to come), and `Down` (a process that is down holds nothing). The preservation proof has a step for every action; lemmas treat the
patterns they share (repricing, writes, inserts).

`BuyPathProofs` proves for any finite sets of mints and buyers and any limits: type
correctness, `PositionsBounded`, `StopHolds`, `BreakerHolds` and `CooldownHolds`. The argument for the slots
counts open positions together with admitted buyers: `SlotInv` bounds their sum, an admission
adds a buyer while the positions are below the limit, and opening turns a buyer into a
position. `StopInv` says that after an automatic buy under /stop the pipeline does not get
past the kill switch; `BreakerInv` that a pipeline at work has room for one more error.
`CoolInv` counts, while a cooldown runs, the positions opened in it together with the buyers
past their admission: no new one is admitted, so the sum does not grow.

`PositionLedgerProofs` proves `ImplementsLedger`: `Refinement`, that PositionStore implements
PositionLedger. The initial state maps to an initial state, and each lock section, write,
failure, crash and restart maps to one step of the ledger or to none. Beyond `IInv` this needs
`ClosedRows`: a row that says closed is never the row of a position that is open in the cache.
Without it, the write that makes a close durable could make an open position final.

`TpSlRulesProofs` has what the other proofs need of the rules for every mode, view and set of
triggered tiers: the tiers of a mode rise (`TiersRise`), and what a command says about the view
it was given for (`EvaluateRule`, `EvaluateCommand`).

`PriceFeedProofs` proves for any prices, ages, accounts, amounts, slippages, worth of a probe
and capacity of the channel: type correctness, `TierPrefix`, `LossIsReal`, `ProfitIsReal`,
`DirectSaleLands` and `RoundTripLoses`. The invariant `FeedInv` carries the market through the
system: an update in the channel is fair to the market it was read from (`ChannelFits`), the
view of the position shows the update handled last (`ViewFits`), the command fits the view
(`CommandFits`), and the triggered tiers are the first ones of the table (`FirstTiers`). The two
properties of quotes are arithmetic, stated as lemmas for all reserves: the code subtracts a
quotient rounded down, so its quote exceeds what the chain pays by one unless the pool divides
evenly (`QuoteRounding`); a slippage of at least 1 makes up for it, none does not, and one above
10000 asks for more than any pool pays (`QuoteLands`); what n lamports buy is sold back for at most n (`RoundTrip`).

`ExitPipelineProofs` proves for any number of tokens, buys and attempts, any quotes, channel
capacities and mode, with and without the direct swap and restarts: type correctness,
`SoldMeansEmpty`, `TierOnce` and `EchoHarmless`. The types include those of the rows (`RowTypes`:
only positions that were bought have one), as they are what a restart makes positions of. `TierOnce` needs `TiersRemembered`: a tier that fired for an
open position, or for a position that a sweep still holds as a snapshot, is still in
`triggered_tiers`; the sweep may forget the tiers of a mint only when none of its snapshots is of
that mint. The history `fired` begins anew with the process, as `triggered_tiers` does: a tier
fires again for a position that is reloaded, and the property does not claim otherwise.
`SoldMeansEmpty` needs `SaleAccounted`: a sale in flight is one of tokens the cache
accounts for, and the balance that was read after it is all there is unless a buy landed
since, in which case the position is still open.

`DetectorProofs` proves for any mints, reports, transactions, capacities, cleanup period,
backoff and number of events: type correctness, `SuppressedOnlyRepeats`, `MigrationIntact`,
`EmittedOnce`, `PumpPortalWins` and `BackoffFits`. The invariant `DetectorInv` follows a report
from its source to the analyzer: `RawFits` (the processor is handed only instructions it can
parse), `InSane` (Helius knows no market cap, and what carries the marker is a migration),
`PendingFits` (an entry waits under the mint of its token, and what a round has still to emit is
waiting), `SentRecorded` (what was sent is recorded, so that the record suppresses every
repetition). `BackoffGrows` bounds the backoff also while a loop connects: waking doubles it
before the next failure is counted. The loop over a transaction's instructions is a recursive
function, whose existence is derived from a least counterexample (`ExtractFits`); the powers of
two are those of the finite-set library, counted as sets of subsets (`PowerDoubles`).

All proofs rest only on the named assumptions on the constants in the modules they are about.
With them every safety property of the passing runs is a theorem for all instances. Liveness
(`StopLossExits`, `FullExitDemanded`, `StaleHeals`, `DrainsWithoutAnalyzer`, `Reconnects`) is out
of the prover's reach and stays with TLC, as do the six violations.

Met while proving:

- With the direct swap enabled, a sale whose booking fails in the database is not only retried
  but sent once more through Jupiter, by the amount computed before (`BookSell`, `FallbackSell`):
  after a partial sale the order is executed twice. `SoldMeansEmpty` did not survive that; the
  history `loose` now records it.
- The types of the detector rest on the chain: a creation of wrapped SOL, or of a pool of it
  with itself, would be reported as a token. `CreatesToken` states that the programs do not make
  them. `PumpPortalWins` rests on PumpPortal's reports being marked as PumpPortal's, which is
  what its parser does.

## Assumptions of the models

- Outside PositionStore an operation of the position cache and its write are one step, of which
  the write may fail. ExitPipeline keeps of a row only that it says Open; the view of a reloaded
  position is one of `Written`, with its age at zero.
- The build is without overflow checks: with them a slippage above 10000 panics. `Wrapped` stands
  for the limit that is left otherwise, some 3 * 10^18 lamports; it is above every price.
- A sell transaction lands or expires before the verdict on it: 60 s of confirmation and
  37 s of verification outlast the lifetime of a blockhash.
- The checks of `execute_buy` before its first await are one step. ExitPipeline's buys land;
  BuyPath treats the ones that do not.
- An error returned by a sender may hide a transaction that lands.
- The fee and the rounding of Raydium's program (`ChainOut`) are external: 0.25 percent off the
  input, rounded against the trader.
- PriceFeed watches one position; all positions belong to one wallet.
- A message a listener has read and cannot send yet, because its channel is full, counts as
  not yet read.
- Amounts, prices and SOL are abstracted to what the rules compare; prices and percentages
  are integers, without the rounding of `f64`.
- The blacklist does not change while the bot runs.
- MaxBuys, MaxEvents, MaxBackoff, DedupCapacity, Units, Ids, the attempts and the channel
  capacities are bounds of the instances.

## Not modelled

Scoring (`analyzer/` except its use by the pipeline): reached only behind an unconditional
`continue` in `main.rs` and from a view of the bot. The bytes of instructions and accounts
and the JSON of messages: decoding is abstracted to whether it succeeds and which mints it
yields. The building of swap instructions; retries and the escalation of slippage inside one
request, which are one nondeterministic attempt; DexScreener's parsing and its choice of a
pair, whose result is an input; the choice among wallets and the rate limiter of the bot;
keepalive pings. Cryptography, HTTP clients, user interface, logging, schema and test
programs: pure I/O or data no property tells apart. `jito.rs` has no caller, nor have
`set_tp_sl`, `close_position_tp`, `close_position_sl` and `update_price`; the route over the
bonding curve in `router.rs` is not reached.

## Plan

1. Done: PositionStore with its abstract specification, TpSlRules and TpSlWatch behind the
   price feed, ExitPipeline, BuyPath with its routes, the detector with its merge engine; every
   safety property of the passing runs proved, and that the store implements its ledger.
2. Theorems next: an abstract specification of the detector (a set of tokens reported, each
   emitted at most once per kind and TTL or lost) and that Detector implements it.
3. Parts left: the choice among wallets (a position is sold from the wallet active at the
   time), the rate limiter, DexScreener's choice of a pair.
