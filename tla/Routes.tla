-------------------------------- MODULE Routes --------------------------------
(***************************************************************************)
(* Pools, quotes and routes as pure operators: the reader of Raydium pools *)
(* and its constant-product quotes (executor/raydium.rs) and the choice of *)
(* a route for a buy (executor/router.rs).                                 *)
(***************************************************************************)
EXTENDS Integers

\* The owner and the length of a pool's account, and the mints of its vaults.
Account == [owner: {"cpmm", "amm_v4", "other"}, long: BOOLEAN,
            mints: {"WSOL", "token", "foreign"} \X {"WSOL", "token", "foreign"}]

NoPrice == -1

----------------------------------------------------------------------------
(* Raydium pools                                                           *)

\* The vault that holds the token, or 0: the side that is not WSOL.
TokenSide(a) == IF a.mints[1] = "WSOL" THEN 2 ELSE IF a.mints[2] = "WSOL" THEN 1 ELSE 0

load_pool_meta(a) ==
    IF a.owner = "other" \/ ~a.long THEN 0 ELSE TokenSide(a)

\* What the vault on a side holds when the market is at p percent of the entry.
read_reserves(a, side, p) == IF a.mints[side] = "WSOL" THEN p ELSE 100

pool_price(sol, tokens) ==
    IF sol = 0 \/ tokens = 0 THEN NoPrice ELSE (sol * 100) \div tokens

----------------------------------------------------------------------------
(* Quotes                                                                  *)

\* The fee of 0.25 percent is taken off the input.
AfterFee(n) == (n * 9975) \div 10000

\* Mutant: the fee is forgotten.
QuoteWithoutFee(n, in, out) ==
    IF in = 0 \/ out = 0 \/ n = 0 THEN 0
    ELSE out - (in * out) \div (in + n)

\* Mutant: the spot price, without the impact of the trade.
QuoteAtSpot(n, in, out) ==
    IF in = 0 \/ out = 0 \/ n = 0 THEN 0 ELSE (AfterFee(n) * out) \div in

\* quote_buy_exact_in and quote_sell_exact_in: n units go into a pool that holds
\* in units of theirs and out units of the other side.
quote_exact_in(n, in, out) ==
    IF in = 0 \/ out = 0 \/ n = 0 THEN 0
    ELSE out - (in * out) \div (in + AfterFee(n))

\* What the program on the chain pays out: it rounds against the trader.
ChainOut(n, in, out) ==
    IF in = 0 THEN 0 ELSE (AfterFee(n) * out) \div (in + AfterFee(n))

----------------------------------------------------------------------------
(* The route of a buy                                                      *)

Source == {"PumpFun", "PumpSwap", "Raydium", "Unknown"}

\* An answer of Jupiter: impact is the price impact in percent.
JupiterQuote == [ok: BOOLEAN, out: Nat, impact: Nat]

\* find_best_route. PumpPortal builds the whole transaction for tokens of
\* Pump.fun. The direct swap needs the address of the pool. (The fallback to the
\* bonding curve, for a source that has already returned, is never reached.)
find_best_route(source, pool, direct, q) ==
    CASE source \in {"PumpFun", "PumpSwap"} -> "PumpPortalDirect"
      [] source \notin {"PumpFun", "PumpSwap"} /\ q.ok /\ q.impact <= 10 /\ q.out > 0
         -> "Jupiter"
      [] OTHER -> IF source = "Raydium" /\ direct /\ pool THEN "RaydiumDirect" ELSE "none"

=============================================================================
