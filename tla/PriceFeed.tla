------------------------------ MODULE PriceFeed ------------------------------
(***************************************************************************)
(* The price feed (executor/price_feed.rs) composed with the monitor that  *)
(* watches a position.                                                     *)
(*                                                                         *)
(* On every tick the feed asks the position's own source (the bonding      *)
(* curve or the Raydium pool), then Jupiter, and sends what it found, or a *)
(* stale mark, through a bounded channel. Jupiter is asked what a probe of *)
(* one token would sell for: whole lamports, so its price is a multiple of *)
(* 1/probe. The size of the probe depends on the decimals of the token,    *)
(* which are looked up once; if that fails the default is kept for good.   *)
(***************************************************************************)
EXTENDS TpSlWatch, Routes

CONSTANTS
    Prices,    \* Prices[mode]: market prices in percent of the entry price
    Hints,     \* Hints[mode]: the price_source a position may have
    Accounts,  \* what the account of the curve or the pool may hold
    PriceCap,  \* capacity of the price channel (256), with the update in hand
    Worth,     \* lamports a probe of one token is worth at the entry price
    Amounts,   \* units a direct swap may be asked for
    Slippages, \* default_slippage_bps: whatever the configuration holds
    Wrapped,   \* the limit that comes of more than 10000: above any price
    Shrink     \* how many times smaller the probe gets with default decimals

ASSUME FeedAssumption ==
    /\ Accounts \subseteq Account
    /\ Wrapped \in Nat /\ \A m \in Modes : Prices[m] \subseteq 0 .. Wrapped - 1
    /\ {PriceCap, Worth, Shrink} \subseteq Nat \ {0}
    /\ Amounts \subseteq Nat /\ Slippages \subseteq Nat

VARIABLES
    hint,    \* price_source of the position
    jupiter, \* Jupiter answers
    dec,     \* decimals_cache: nothing, the token's decimals, or the default
    priceq,  \* the price channel
    seen     \* history: market price at the last fresh update that was handled

feedVars == <<vars, hint, jupiter, dec, priceq, seen>>

----------------------------------------------------------------------------
(* Sources                                                                 *)

\* Mutant: the first vault is taken for the WSOL side.
PoolPriceFirstVault(a, p) ==
    IF load_pool_meta(a) = 0 THEN NoPrice
    ELSE pool_price(read_reserves(a, 1, p), read_reserves(a, 2, p))

\* The pool must be known, have a WSOL side, and trade the position's mint.
get_raydium_pool_price(a, p) ==
    LET t == load_pool_meta(a)
    IN  IF t = 0 \/ a.mints[t] # "token" THEN NoPrice
        ELSE pool_price(read_reserves(a, 3 - t, p), read_reserves(a, t, p))

\* The virtual reserves of the bonding curve, zero once the token has migrated.
get_pumpfun_price(a, p) == IF a.long THEN pool_price(p, 100) ELSE NoPrice

\* Lamports for one probe, as a price. Nothing in the code rejects a quote of
\* zero lamports; Jupiter may also answer it with an error.
get_jupiter_price(p, d) ==
    LET unit == 100 * (IF d = "default" THEN Shrink ELSE 1)
        out == (Worth * p) \div unit
    IN  {(out * unit) \div Worth} \cup (IF out = 0 THEN {NoPrice} ELSE {})

OwnPrice(a, p) ==
    CASE hint = "PumpFunBondingCurve" -> get_pumpfun_price(a, p)
      [] hint = "RaydiumPool" -> get_raydium_pool_price(a, p)
      [] OTHER -> NoPrice

\* Mutant: no source stands in for the position's own one.
PricesWithoutFallback(a, p, d) ==
    IF hint \in {"PumpFunBondingCurve", "RaydiumPool"} THEN {OwnPrice(a, p)}
    ELSE IF jupiter THEN get_jupiter_price(p, d) ELSE {NoPrice}

\* get_price_for_position: the own source, then Jupiter. (For a hint of PumpSwap
\* Jupiter is asked twice.)
Prices_of(a, p, d) ==
    IF OwnPrice(a, p) # NoPrice THEN {OwnPrice(a, p)}
    ELSE IF jupiter THEN get_jupiter_price(p, d) ELSE {NoPrice}

\* get_decimals, when Jupiter is asked: the cached value, or what a lookup gives,
\* which is cached even if it is the default that stands for a failure.
get_decimals(a, p) ==
    IF OwnPrice(a, p) # NoPrice \/ dec # "unset" THEN {dec} ELSE {"right", "default"}

\* The least output a direct sale asks for. Above 10000 the subtraction underflows:
\* a debug build panics; in a release build the product wraps too, and what is
\* left of it in 64 bits is some 3 * 10^18 lamports, more than there are.
min_sol_out(expected, bps) ==
    IF bps <= 10000 \/ expected = 0 THEN (expected * (10000 - bps)) \div 10000
    ELSE Wrapped

----------------------------------------------------------------------------
(* Steps                                                                   *)

\* One tick of the feed, with the market at p.
Poll(p, a) ==
    /\ Len(priceq) < PriceCap
    /\ \E d \in get_decimals(a, p) : \E q \in Prices_of(a, p, d) :
          /\ dec' = d
          /\ priceq' = Append(priceq, [price |-> q, at |-> p, stale |-> q = NoPrice])
    /\ UNCHANGED <<vars, hint, jupiter, seen>>

\* handle_price_update
HandlePriceUpdate ==
    LET u == Head(priceq)
    IN  /\ priceq # <<>>
        /\ priceq' = Tail(priceq)
        /\ IF u.stale THEN StalePrice /\ UNCHANGED seen
                      ELSE FreshPrice(u.price) /\ seen' = u.at
        /\ UNCHANGED <<hint, jupiter, dec>>

CheckAllPositions == Sweep /\ UNCHANGED <<hint, jupiter, dec, priceq, seen>>

PassTime == /\ \E t \in Ages[mode] : Pass(t)
            /\ UNCHANGED <<hint, jupiter, dec, priceq, seen>>

JupiterComesOrGoes ==
    /\ jupiter' = ~jupiter
    /\ UNCHANGED <<vars, hint, dec, priceq, seen>>

FeedInit ==
    /\ Init
    /\ hint \in Hints[mode]
    /\ jupiter \in BOOLEAN
    /\ dec = "unset" /\ priceq = <<>> /\ seen = 100

FeedPoll == \E p \in Prices[mode], a \in Accounts : Poll(p, a)

FeedNext ==
    \/ FeedPoll
    \/ HandlePriceUpdate \/ CheckAllPositions
    \/ PassTime \/ JupiterComesOrGoes

\* The tickers of the feed and of the monitor go on for ever, and the monitor's
\* unbiased select takes what waits in the channel.
FeedSpec ==
    /\ FeedInit /\ [][FeedNext]_feedVars
    /\ WF_feedVars(FeedPoll) /\ WF_feedVars(HandlePriceUpdate)
    /\ WF_feedVars(CheckAllPositions)

----------------------------------------------------------------------------
(* Properties                                                              *)

\* A stop-loss is sent for a loss of the market, not for one made by the feed: the
\* market was down by the stop-loss percentage when it was asked, give or take
\* the one lamport that a probe is rounded by, unless the decimals could not
\* be read. Whichever source answered, and wherever the pool has its WSOL side.
LossIsReal ==
    cmd.kind = "StopLoss" /\ dec # "default"
    => (seen - (100 - Profile[mode].sl) - 1) * Worth < 100

\* Profit is only taken when the market was above the entry price: rounding, a
\* poisoned probe and the fallback from one source to another err on this side.
ProfitIsReal ==
    cmd.kind \in {"PartialTakeProfit", "TrailingStop", "TakeProfit", "MaxAgeExit"}
    => seen > 100

\* One token can be sold for a lamport at least.
Sellable == \A i \in DOMAIN priceq : Worth * priceq[i].at >= 100

\* "Try Jupiter as last resort for any source": once Jupiter answers for good, for
\* a token worth anything, the position does not stay blind, whatever has become
\* of its own source.
StaleHeals == <>[](jupiter /\ dec # "default" /\ Sellable) => <>[]~v.stale

\* At every market the feed meets, a direct sale into a pool that nobody else
\* touches is accepted if the configuration leaves a slippage of 1 to 10000: the
\* quote is at most the one unit above what the chain pays that the smallest
\* slippage takes off. With a slippage of 0, which the configuration accepts, it
\* is accepted only when the pool divides evenly; above 10000 never, unless
\* nothing at all is expected.
DirectSaleLands ==
    \A i \in DOMAIN priceq : \A n \in Amounts, bps \in Slippages :
        LET sol == priceq[i].at
            expected == quote_exact_in(n, 100, sol)
            even == (AfterFee(n) * sol) % (100 + AfterFee(n)) = 0
        IN  min_sol_out(expected, bps) <= ChainOut(n, 100, sol)
            <=> (0 < bps /\ bps <= 10000) \/ (bps = 0 /\ even) \/ expected = 0

\* Selling back at once what a direct buy brought in is never quoted above what
\* was paid, however deep the pool and however the two roundings fall.
RoundTripLoses ==
    \A i \in DOMAIN priceq : \A n \in Amounts :
        LET sol == priceq[i].at
            tokens == ChainOut(n, sol, 100)
        IN  quote_exact_in(tokens, 100 - tokens, sol + n) <= n

=============================================================================
