---------------------------- MODULE PriceFeedProofs ----------------------------
(***************************************************************************)
(* Theorems about the price feed and the monitor, for every set of prices, *)
(* ages, accounts, trade sizes and slippages, every worth of a probe and   *)
(* every capacity of the channel.                                          *)
(***************************************************************************)
EXTENDS PriceFeed, TpSlRulesProofs, FiniteSetTheorems

----------------------------------------------------------------------------
(* Quotes                                                                  *)

\* What a division rounds down to.
LEMMA DivBounds ==
  ASSUME NEW a \in Nat, NEW d \in Nat \ {0}
  PROVE  a \div d \in Nat /\ d * (a \div d) <= a /\ a < d * (a \div d) + d
<1>1. a = d * (a \div d) + (a % d) /\ a % d \in 0 .. d - 1 /\ a \div d \in Int
  OBVIOUS
<1>2. a \div d >= 0
  BY <1>1
<1>3. QED
  BY <1>1, <1>2

\* A product of natural numbers is monotone.
LEMMA ProductMonotone ==
  ASSUME NEW a \in Int, NEW b \in Int, NEW c \in Nat, a <= b
  PROVE  a * c <= b * c
OBVIOUS

\* The fee is taken off.
LEMMA FeeTaken ==
  ASSUME NEW n \in Nat
  PROVE  AfterFee(n) \in Nat /\ AfterFee(n) <= n
BY DEF AfterFee

\* The quote of a direct swap, rounded in the trader's favour, is what the chain
\* pays if the pool divides evenly, and a unit above it otherwise.
LEMMA QuoteRounding ==
  ASSUME NEW n \in Nat, NEW in \in Nat, in > 0, NEW out \in Nat
  PROVE  /\ quote_exact_in(n, in, out) \in Nat /\ ChainOut(n, in, out) \in Nat
         /\ ChainOut(n, in, out) <= out
         /\ quote_exact_in(n, in, out) <= ChainOut(n, in, out) + 1
         /\ quote_exact_in(n, in, out) <= ChainOut(n, in, out)
              <=> (AfterFee(n) * out) % (in + AfterFee(n)) = 0
<1> DEFINE a == AfterFee(n)
           d == in + a
           k == in * out
           g == a * out
           x == k \div d
           c == g \div d
           r == g % d
           q == out - x
<1>1. a \in Nat /\ d \in Nat \ {0} /\ k \in Nat /\ g \in Nat
  BY FeeTaken
<1>2. x \in Nat /\ d * x <= k /\ k < d * x + d
  <2> HIDE DEF a, d, k, g
  <2>1. QED
    BY <1>1, DivBounds
<1>3. c \in Nat /\ r \in 0 .. d - 1 /\ g = d * c + r
  <2> HIDE DEF a, d, k, g
  <2>1. QED
    BY <1>1, DivBounds
<1>4. k + g = d * out
  <2> HIDE DEF a
  <2>1. QED
    BY <1>1
<1>5. ChainOut(n, in, out) = c
  BY DEF ChainOut
<1>6. quote_exact_in(n, in, out) = IF out = 0 \/ n = 0 THEN 0 ELSE q
  BY DEF quote_exact_in
<1>7. n = 0 => a = 0
  BY DEF AfterFee
<1>8. out = 0 \/ n = 0 => g = 0
  <2> HIDE DEF a
  <2>1. QED
    BY <1>1, <1>7
<1>9. (AfterFee(n) * out) % (in + AfterFee(n)) = r
  OBVIOUS
<1> HIDE DEF a, d, k, g, x, c, r
<1>10. /\ d * q = d * out - d * x
       /\ d * (c + 1) = d * c + d /\ d * (c + 2) = d * c + d + d
  BY <1>1, <1>2, <1>3
<1>11. q \in Int
  BY <1>2
<1> HIDE DEF q
<1>12. d * q >= g /\ d * q < g + d
  BY <1>1, <1>2, <1>4, <1>10
<1>13. c <= q
  <2>1. d * c <= d * q
    BY <1>1, <1>3, <1>11, <1>12
  <2>2. QED
    BY <1>1, <1>3, <1>11, <2>1
<1>14. q <= c + 1
  <2>1. d * q < d * (c + 2)
    BY <1>1, <1>3, <1>10, <1>11, <1>12
  <2>2. q < c + 2
    BY <1>1, <1>3, <1>11, <2>1
  <2>3. QED
    BY <1>3, <1>11, <2>2
<1>15. q <= c <=> r = 0
  <2>1. ASSUME r = 0 PROVE q <= c
    <3>1. d * q < d * (c + 1)
      BY <1>1, <1>3, <1>10, <1>11, <1>12, <2>1
    <3>2. q < c + 1
      BY <1>1, <1>3, <1>11, <3>1
    <3>3. QED
      BY <1>3, <1>11, <3>2
  <2>2. ASSUME q <= c PROVE r = 0
    <3>1. q = c
      BY <1>3, <1>11, <1>13, <2>2
    <3>2. d * c \in Nat /\ d * c >= g
      BY <1>1, <1>3, <1>12, <3>1
    <3>3. QED
      BY <1>1, <1>3, <3>2
  <2>3. QED
    BY <2>1, <2>2
<1>16. c <= out
  <2>1. d * c <= d * out
    BY <1>1, <1>3, <1>4
  <2>2. QED
    BY <1>1, <1>3, <2>1
<1>17. out = 0 \/ n = 0 => c = 0 /\ r = 0
  <2>1. ASSUME g = 0 PROVE c = 0 /\ r = 0
    <3>1. d * c \in Nat /\ d * c = 0 /\ r = 0
      BY <1>1, <1>3, <2>1
    <3>2. QED
      BY <1>1, <1>3, <3>1
  <2>2. QED
    BY <1>8, <2>1
<1>18. CASE out = 0 \/ n = 0
  <2>1. quote_exact_in(n, in, out) = 0 /\ ChainOut(n, in, out) = 0
    BY <1>5, <1>6, <1>17, <1>18
  <2>2. (AfterFee(n) * out) % (in + AfterFee(n)) = 0
    BY <1>9, <1>17, <1>18
  <2>3. QED
    BY <2>1, <2>2
<1>19. CASE ~(out = 0 \/ n = 0)
  BY <1>3, <1>5, <1>6, <1>9, <1>11, <1>13, <1>14, <1>15, <1>16, <1>19
<1>20. QED
  BY <1>18, <1>19

\* The limit of a direct sale is met when the slippage takes a unit off at least,
\* when there is none and the pool divides evenly, or when nothing is expected.
Lands(n, in, out, bps) ==
    LET expected == quote_exact_in(n, in, out)
        even == (AfterFee(n) * out) % (in + AfterFee(n)) = 0
    IN  min_sol_out(expected, bps) <= ChainOut(n, in, out)
        <=> (0 < bps /\ bps <= 10000) \/ (bps = 0 /\ even) \/ expected = 0

LEMMA QuoteLands ==
  ASSUME NEW n \in Nat, NEW in \in Nat, in > 0, NEW out \in Nat, out < Wrapped,
         NEW bps \in Nat
  PROVE  Lands(n, in, out, bps)
<1> DEFINE c == ChainOut(n, in, out)
           q == quote_exact_in(n, in, out)
           even == (AfterFee(n) * out) % (in + AfterFee(n)) = 0
<1>1. c \in Nat /\ q \in Nat /\ c <= out /\ q <= c + 1 /\ (q <= c <=> even)
  BY QuoteRounding
<1>2. Wrapped \in Nat
  BY FeedAssumption
<1> HIDE DEF Lands, c, q, even
<1>3. CASE q = 0
  <2>1. 0 * (10000 - bps) = 0
    OBVIOUS
  <2>2. min_sol_out(q, bps) = 0
    BY <1>3, <2>1 DEF min_sol_out
  <2>3. QED
    BY <1>1, <1>3, <2>2 DEF Lands, c, q
<1>4. CASE q > 0 /\ bps > 10000
  <2> DEFINE m == min_sol_out(q, bps)
  <2>1. m = Wrapped
    BY <1>4 DEF min_sol_out
  <2> HIDE DEF m
  <2>2. c < Wrapped /\ ~(Wrapped <= c)
    BY <1>1, <1>2
  <2>3. ~(m <= c)
    BY <1>2, <2>1, <2>2
  <2>4. bps # 0 /\ q # 0
    BY <1>1, <1>4
  <2>5. QED
    BY <1>4, <2>3, <2>4 DEF Lands, m, c, q, even
<1>5. CASE q > 0 /\ bps = 0
  <2>1. (q * 10000) \div 10000 = q
    BY <1>1
  <2>2. min_sol_out(q, bps) = q
    BY <1>1, <1>5, <2>1 DEF min_sol_out
  <2>3. QED
    BY <1>1, <1>5, <2>2 DEF Lands, c, q, even
<1>6. CASE q > 0 /\ 0 < bps /\ bps <= 10000
  <2> DEFINE y == q * (10000 - bps)
  <2>1. y <= q * 9999 /\ y \in Nat
    BY <1>1, <1>6
  <2>2. min_sol_out(q, bps) = y \div 10000
    BY <1>6 DEF min_sol_out
  <2> HIDE DEF y
  <2>3. y \div 10000 \in Nat /\ 10000 * (y \div 10000) <= y
    BY <2>1, DivBounds
  <2>4. y \div 10000 <= q - 1
    BY <1>1, <1>6, <2>1, <2>3
  <2>5. min_sol_out(q, bps) <= c
    BY <1>1, <2>2, <2>3, <2>4
  <2>6. QED
    BY <1>6, <2>5 DEF Lands, c, q
<1>7. QED
  BY <1>1, <1>3, <1>4, <1>5, <1>6

\* What n lamports buy in a pool, whatever its reserves, is not quoted above n
\* lamports when it is sold back.
LEMMA RoundTrip ==
  ASSUME NEW n \in Nat, NEW sol \in Nat, NEW R \in Nat
  PROVE  LET tokens == ChainOut(n, sol, R)
         IN  quote_exact_in(tokens, R - tokens, sol + n) <= n
<1> DEFINE a == AfterFee(n)
           t == ChainOut(n, sol, R)
           f == AfterFee(t)
           rest == R - t
           pool == sol + n
           back == (rest * pool) \div (rest + f)
<1>1. a \in Nat /\ a <= n
  BY FeeTaken
<1>2. t \in 0 .. R /\ t * (sol + a) <= R * a
  <2>1. CASE sol = 0
    BY <1>1, <2>1 DEF ChainOut
  <2>2. CASE sol # 0
    <3>1. t = (a * R) \div (sol + a)
      BY <2>2 DEF ChainOut
    <3> HIDE DEF a, t
    <3>2. sol + a \in Nat \ {0} /\ a * R \in Nat
      BY <1>1, <2>2
    <3>3. t \in Nat /\ (sol + a) * t <= a * R
      BY <3>1, <3>2, DivBounds
    <3>4. t <= R
      <4>1. SUFFICES ASSUME t > R PROVE FALSE
        BY <3>3
      <4>2. (sol + a) * t >= (sol + a) * (R + 1)
        BY <3>2, <3>3, <4>1
      <4>3. (sol + a) * (R + 1) = (sol + a) * R + (sol + a)
        BY <3>2
      <4>4. (sol + a) * R = sol * R + a * R /\ sol * R >= 0
        BY <1>1
      <4>5. QED
        BY <1>1, <2>2, <3>2, <3>3, <4>2, <4>3, <4>4
    <3>5. QED
      BY <1>1, <3>3, <3>4
  <2>3. QED
    BY <2>1, <2>2
<1>3. f \in Nat /\ f <= t
  BY <1>2, FeeTaken
<1> HIDE DEF a, t, f
<1>4. t * pool <= R * n
  <2>1. t * pool = t * (sol + a) + t * (n - a)
    BY <1>1, <1>2
  <2>2. t * (n - a) <= R * (n - a)
    BY <1>1, <1>2
  <2>3. QED
    BY <1>1, <1>2, <2>1, <2>2
<1>5. CASE rest = 0 \/ pool = 0 \/ t = 0
  <2>1. quote_exact_in(t, rest, pool) = 0
    BY <1>5 DEF quote_exact_in
  <2>2. QED
    BY <2>1 DEF t
<1>6. CASE rest # 0 /\ pool # 0 /\ t # 0
  <2>1. quote_exact_in(t, rest, pool) = pool - back
    BY <1>6 DEF quote_exact_in, f
  <2>2. rest \in Nat \ {0} /\ pool \in Nat /\ rest + f \in Nat \ {0} /\ rest * pool \in Nat
    BY <1>2, <1>3, <1>6
  <2>3. back \in Nat /\ rest * pool < (rest + f) * back + (rest + f)
    BY <2>2, DivBounds
  <2>4. sol * (rest + f) <= rest * pool
    <3>1. sol * f <= sol * t
      BY <1>2, <1>3
    <3>2. sol * t <= rest * n
      <4>1. t * pool = t * sol + t * n
        BY <1>2
      <4>2. rest * n = R * n - t * n
        BY <1>2
      <4>3. QED
        BY <1>2, <1>4, <4>1, <4>2
    <3>3. sol * (rest + f) = sol * rest + sol * f
      BY <1>2, <1>3
    <3>4. rest * pool = rest * sol + rest * n
      BY <1>2
    <3>5. QED
      BY <1>2, <1>3, <3>1, <3>2, <3>3, <3>4
  <2>5. sol <= back
    <3> DEFINE k == rest + f
    <3>1. k \in Nat \ {0} /\ sol * k < k * back + k
      BY <2>2, <2>3, <2>4
    <3> HIDE DEF k, back
    <3>2. k * (back + 1) = k * back + k
      BY <2>3, <3>1
    <3>3. sol < back + 1
      BY <2>3, <3>1, <3>2
    <3>4. QED
      BY <2>3, <3>3
  <2>6. pool - back <= n
    BY <2>3, <2>5
  <2>7. QED
    BY <2>1, <2>6 DEF t
<1>7. QED
  BY <1>5, <1>6

----------------------------------------------------------------------------
(* What an update in the channel says of the market                        *)

Update == [price: Nat \cup {NoPrice}, at: Nat, stale: BOOLEAN]

\* A price never lies above the market, and with the right decimals at most the
\* rounding of one probe below it.
Fair(q, at) ==
    /\ q <= at
    /\ dec # "default" => (at - q - 1) * Worth < 100

\* An update that is not stale carries such a price.
UpdateFair(u) ==
    /\ u \in Update /\ u.at < Wrapped
    /\ ~u.stale => u.price \in Nat /\ Fair(u.price, u.at)

\* The price of a pool or of a bonding curve is the market's.
LEMMA OwnPriceExact ==
  ASSUME NEW a \in Account, NEW p \in Nat
  PROVE  OwnPrice(a, p) \in {p, NoPrice}
<1>1. pool_price(p, 100) \in {p, NoPrice}
  BY DEF pool_price, NoPrice
<1>2. get_pumpfun_price(a, p) \in {p, NoPrice}
  BY <1>1 DEF get_pumpfun_price
<1>3. get_raydium_pool_price(a, p) \in {p, NoPrice}
  <2> DEFINE t == load_pool_meta(a)
  <2>1. CASE t = 0 \/ a.mints[t] # "token"
    BY <2>1 DEF get_raydium_pool_price
  <2>2. CASE t # 0 /\ a.mints[t] = "token"
    <3>1. t \in {1, 2} /\ a.mints[3 - t] = "WSOL"
      BY <2>2 DEF load_pool_meta, TokenSide, Account
    <3>2. get_raydium_pool_price(a, p)
            = pool_price(read_reserves(a, 3 - t, p), read_reserves(a, t, p))
      BY <2>2 DEF get_raydium_pool_price
    <3>3. read_reserves(a, 3 - t, p) = p /\ read_reserves(a, t, p) = 100
      BY <2>2, <3>1 DEF read_reserves
    <3>4. QED
      BY <1>1, <3>2, <3>3
  <2>3. QED
    BY <2>1, <2>2
<1>4. QED
  BY <1>2, <1>3 DEF OwnPrice

\* A quote of Jupiter is rounded down to whole lamports for a probe.
LEMMA JupiterFair ==
  ASSUME NEW p \in Nat, NEW d \in {"unset", "right", "default"},
         NEW q \in get_jupiter_price(p, d), q # NoPrice
  PROVE  /\ q \in Nat /\ q <= p
         /\ d # "default" => (p - q - 1) * Worth < 100
<1> DEFINE unit == 100 * (IF d = "default" THEN Shrink ELSE 1)
           out == (Worth * p) \div unit
<1>1. Worth \in Nat \ {0} /\ Shrink \in Nat \ {0}
  BY FeedAssumption
<1>2. unit \in Nat \ {0} /\ Worth * p \in Nat /\ (d # "default" => unit = 100)
  <2>1. CASE d = "default"
    BY <1>1, <2>1
  <2>2. CASE d # "default"
    BY <1>1, <2>2
  <2>3. QED
    BY <2>1, <2>2
<1>3. q = (out * unit) \div Worth
  BY DEF get_jupiter_price
<1> HIDE DEF unit
<1>4. out \in Nat /\ unit * out <= Worth * p /\ Worth * p < unit * out + unit
  BY <1>2, DivBounds
<1> HIDE DEF out
<1>5. out * unit = unit * out /\ out * unit \in Nat
  BY <1>2, <1>4
<1>6. q \in Nat /\ Worth * q <= unit * out /\ unit * out < Worth * q + Worth
  BY <1>1, <1>3, <1>5, DivBounds
<1>7. q <= p
  <2>1. Worth * q <= Worth * p
    BY <1>1, <1>2, <1>4, <1>6
  <2>2. ASSUME q > p PROVE FALSE
    <3>1. Worth * q = Worth * p + Worth * (q - p)
      BY <1>1, <1>6
    <3>2. Worth * (q - p) > 0
      BY <1>1, <1>6, <2>2
    <3>3. QED
      BY <1>1, <1>2, <1>6, <2>1, <3>1, <3>2
  <2>3. QED
    BY <1>6, <2>2
<1>8. ASSUME d # "default" PROVE (p - q - 1) * Worth < 100
  <2>1. Worth * p < Worth * q + Worth + 100
    BY <1>1, <1>2, <1>4, <1>6, <1>8
  <2>2. (p - q - 1) * Worth = Worth * p - Worth * q - Worth
    BY <1>1, <1>6
  <2>3. QED
    BY <1>1, <1>6, <2>1, <2>2
<1>9. QED
  BY <1>6, <1>7, <1>8

----------------------------------------------------------------------------
(* The inductive invariant                                                 *)

Profits == {"PartialTakeProfit", "TrailingStop", "TakeProfit", "MaxAgeExit"}

\* The last command fits the view it was sent for: nothing touches the view
\* without evaluating it.
CommandFits ==
    /\ cmd.kind = "StopLoss" => v.pnl <= -Profile[mode].sl
    /\ cmd.kind \in Profits => v.pnl > 0

\* The view shows the price that was handled last, a fair one.
ViewFits ==
    /\ seen \in Nat
    /\ v.pnl = v.price - 100
    /\ Fair(v.price, seen)

ChannelFits ==
    /\ dec \in {"unset", "right", "default"}
    /\ priceq \in Seq(Update)
    /\ \A i \in DOMAIN priceq : UpdateFair(priceq[i])

\* The triggered tiers are the first ones.
FirstTiers == \E k \in 0 .. Len(Tiers[mode]) : triggered = 1 .. k

FeedInv == TypeOK /\ CommandFits /\ ViewFits /\ ChannelFits /\ FirstTiers

\* The greater of two numbers.
LEMMA MaxOfTwo ==
  ASSUME NEW a \in Nat, NEW b \in Nat
  PROVE  Max({a, b}) \in Nat /\ Max({a, b}) >= a /\ Max({a, b}) >= b
<1>1. \E x \in {a, b} : \A y \in {a, b} : x >= y
  <2>1. CASE a >= b
    BY <2>1
  <2>2. CASE b >= a
    BY <2>2
  <2>3. QED
    BY <2>1, <2>2
<1>2. Max({a, b}) \in {a, b} /\ \A y \in {a, b} : Max({a, b}) >= y
  BY <1>1 DEF Max
<1>3. QED
  BY <1>2

\* The tier that is triggered is the one after those that were: the tiers rise, so
\* a later tier is due only if the one before it is.
LEMMA NextTier ==
  ASSUME NEW m \in DOMAIN Profile, NEW w \in View, NEW k \in 0 .. Len(Tiers[m]),
         NEW t \in DueTiers(m, w, 1 .. k), \A j \in DueTiers(m, w, 1 .. k) : t <= j
  PROVE  t = k + 1 /\ t \in DOMAIN Tiers[m]
<1>1. DOMAIN Tiers[m] = 1 .. Len(Tiers[m]) /\ Len(Tiers[m]) \in Nat
  BY TierFacts
<1>2. t \in DOMAIN Tiers[m] /\ t \notin 1 .. k /\ w.pnl >= Tiers[m][t].at
  BY DEF DueTiers
<1>3. t \in Nat /\ t > k /\ k + 1 \in DOMAIN Tiers[m]
  BY <1>1, <1>2
<1>4. ASSUME k + 1 < t PROVE FALSE
  <2>1. Tiers[m][k + 1].at < Tiers[m][t].at
    BY <1>2, <1>3, <1>4, TiersRise
  <2>2. Tiers[m][k + 1].at \in Nat /\ Tiers[m][t].at \in Nat /\ w.pnl \in Int
    BY <1>2, <1>3, TierFacts DEF View
  <2>3. k + 1 \in DueTiers(m, w, 1 .. k)
    BY <1>2, <1>3, <2>1, <2>2 DEF DueTiers
  <2>4. QED
    BY <1>3, <1>4, <2>3
<1>5. QED
  BY <1>2, <1>3, <1>4

\* What an evaluation leaves behind.
LEMMA EvaluationFits ==
  ASSUME FeedInv, v' \in View, EvaluatePosition
  PROVE  /\ CommandFits' /\ FirstTiers'
         /\ triggered' \subseteq DOMAIN Tiers[mode]
         /\ cmd'.pct \in 0 .. 100 /\ cmd'.tier \in 0 .. Len(Tiers[mode])
<1> DEFINE due == DueTiers(mode, v', triggered)
           L == Len(Tiers[mode])
<1>1. mode \in DOMAIN Profile /\ mode' = mode
  BY WatchAssumption DEF FeedInv, TypeOK, EvaluatePosition
<1>2. /\ DOMAIN Tiers[mode] = 1 .. L /\ L \in Nat
      /\ \A i \in DOMAIN Tiers[mode] : Tiers[mode][i].at \in Nat /\ Tiers[mode][i].at > 0
                                       /\ Tiers[mode][i].sell \in 1 .. 100
  BY <1>1, TierFacts
<1>3. PICK k \in 0 .. L : triggered = 1 .. k
  BY DEF FeedInv, FirstTiers
<1>4. cmd' = Evaluate(mode, v', triggered) /\ triggered' = Mark(cmd', triggered)
  BY DEF EvaluatePosition
<1>5. CASE \/ cmd' = NoCmd
           \/ cmd' = Full("StopLoss") /\ ShouldStopLoss(mode, v')
           \/ cmd' = Full("TimeStop")
           \/ cmd' = Full("MaxAgeExit") /\ v'.pnl > Profile[mode].maxAgeMin
           \/ cmd' = Full("TrailingStop") /\ v'.pnl > Profile[mode].gate
           \/ cmd' = Full("TakeProfit") /\ ShouldTakeProfit(mode, v')
  <2>1. cmd'.tier = 0 /\ cmd'.pct \in 0 .. 100
    BY <1>5 DEF NoCmd, Full
  <2>2. triggered' = triggered
    BY <1>4, <2>1 DEF Mark
  <2>3. v'.pnl \in Int
    BY DEF View
  <2>4. CommandFits'
    BY <1>1, <1>5, <2>3, ProfileFacts
       DEF CommandFits, Profits, NoCmd, Full, ShouldStopLoss, ShouldTakeProfit
  <2>5. QED
    BY <1>1, <1>2, <2>1, <2>2, <2>4 DEF FeedInv, FirstTiers, TypeOK
<1>6. CASE /\ due # {} /\ Min(due) \in due /\ \A j \in due : Min(due) <= j
           /\ cmd' = [kind |-> "PartialTakeProfit", pct |-> Tiers[mode][Min(due)].sell,
                      tier |-> Min(due)]
  <2>1. PICK t \in due : /\ \A j \in due : t <= j
                         /\ cmd' = [kind |-> "PartialTakeProfit",
                                    pct |-> Tiers[mode][t].sell, tier |-> t]
    BY <1>6
  <2>2. t = k + 1 /\ t \in DOMAIN Tiers[mode]
    <3>1. ASSUME NEW w \in View, NEW u \in DueTiers(mode, w, 1 .. k),
                 \A j \in DueTiers(mode, w, 1 .. k) : u <= j
          PROVE  u = k + 1 /\ u \in DOMAIN Tiers[mode]
      BY <1>1, <3>1, NextTier
    <3>2. QED
      BY <1>3, <2>1, <3>1
  <2>3. cmd'.tier = t /\ cmd'.pct = Tiers[mode][t].sell /\ cmd'.kind = "PartialTakeProfit"
    BY <2>1
  <2>4. triggered' = 1 .. (k + 1) /\ k + 1 \in 0 .. L
    <3>1. k + 1 \in 1 .. L /\ t # 0
      BY <1>2, <2>2
    <3>2. triggered' = (1 .. k) \cup {k + 1}
      BY <1>3, <1>4, <2>2, <2>3, <3>1 DEF Mark
    <3>3. (1 .. k) \cup {k + 1} = 1 .. (k + 1)
      OBVIOUS
    <3>4. QED
      BY <3>1, <3>2, <3>3
  <2>5. v'.pnl > 0
    <3>1. v'.pnl >= Tiers[mode][t].at
      BY <2>1 DEF DueTiers
    <3>2. v'.pnl \in Int
      BY DEF View
    <3>3. QED
      BY <1>2, <2>2, <3>1, <3>2
  <2>6. CommandFits'
    BY <2>3, <2>5 DEF CommandFits
  <2>7. FirstTiers'
    BY <1>1, <2>4 DEF FirstTiers
  <2>8. triggered' \subseteq DOMAIN Tiers[mode]
    BY <1>2, <2>4
  <2>9. cmd'.pct \in 0 .. 100 /\ cmd'.tier \in 0 .. L
    <3>1. Tiers[mode][t].sell \in 1 .. 100
      BY <1>2, <2>2
    <3>2. t \in 0 .. L
      BY <1>2, <2>2
    <3>3. QED
      BY <2>3, <3>1, <3>2
  <2>10. QED
    BY <2>6, <2>7, <2>8, <2>9
<1>7. QED
  BY <1>1, <1>4, <1>5, <1>6, EvaluateCommand

\* What a poll puts into the channel is fair, and the default decimals are kept.
LEMMA PollFair ==
  ASSUME FeedInv, NEW p \in Nat, p < Wrapped, NEW a \in Account, Poll(p, a)
  PROVE  ChannelFits' /\ (dec' # "default" => dec # "default")
<1>0. PICK d \in get_decimals(a, p) : \E q \in Prices_of(a, p, d) :
         /\ dec' = d
         /\ priceq' = Append(priceq, [price |-> q, at |-> p, stale |-> q = NoPrice])
  BY DEF Poll
<1>1. PICK q \in Prices_of(a, p, d) :
         /\ dec' = d
         /\ priceq' = Append(priceq, [price |-> q, at |-> p, stale |-> q = NoPrice])
  BY <1>0
<1>2. /\ d \in {"unset", "right", "default"} /\ dec \in {"unset", "right", "default"}
      /\ d # "default" => dec # "default"
  BY <1>1 DEF get_decimals, FeedInv, ChannelFits
<1>3. q # NoPrice => /\ q \in Nat /\ q <= p
                     /\ d # "default" => (p - q - 1) * Worth < 100
  <2>1. CASE OwnPrice(a, p) # NoPrice
    <3>1. q = p
      BY <2>1, OwnPriceExact DEF Prices_of
    <3>2. Worth \in Nat \ {0}
      BY FeedAssumption
    <3>3. p - p - 1 = -1 /\ (-1) * Worth < 100
      BY <3>2
    <3>4. (p - q - 1) * Worth < 100
      BY <3>1, <3>3
    <3>5. QED
      BY <3>1, <3>4
  <2>2. CASE OwnPrice(a, p) = NoPrice /\ jupiter
    <3>1. q \in get_jupiter_price(p, d)
      BY <2>2 DEF Prices_of
    <3>2. QED
      BY <1>2, <3>1, JupiterFair
  <2>3. CASE OwnPrice(a, p) = NoPrice /\ ~jupiter
    BY <2>3 DEF Prices_of
  <2>4. QED
    BY <2>1, <2>2, <2>3
<1> DEFINE u == [price |-> q, at |-> p, stale |-> q = NoPrice]
<1>4. /\ u.price = q /\ u.at = p /\ (u.stale <=> q = NoPrice)
      /\ u \in Update
  <2>1. q \in Nat \cup {NoPrice} /\ (q = NoPrice) \in BOOLEAN
    BY <1>3
  <2>2. QED
    BY <2>1, Zenon DEF Update
<1> HIDE DEF u
<1>5. priceq' = Append(priceq, u)
  BY <1>1 DEF u
<1>6. priceq' \in Seq(Update) /\ priceq \in Seq(Update)
  BY <1>4, <1>5 DEF FeedInv, ChannelFits
<1>7. \A i \in DOMAIN priceq' : priceq'[i] = u \/ (i \in DOMAIN priceq /\ priceq'[i] = priceq[i])
  BY <1>4, <1>5, <1>6
<1>8. ASSUME NEW i \in DOMAIN priceq' PROVE UpdateFair(priceq[i])' 
  <2>1. CASE priceq'[i] = u
    BY <1>1, <1>3, <1>4, <2>1 DEF UpdateFair, Fair
  <2>2. CASE i \in DOMAIN priceq /\ priceq'[i] = priceq[i]
    BY <1>1, <1>2, <2>2 DEF UpdateFair, Fair, FeedInv, ChannelFits
  <2>3. QED
    BY <1>7, <2>1, <2>2
<1>9. QED
  BY <1>1, <1>2, <1>6, <1>8 DEF ChannelFits

\* A step that evaluates the position, on a view that fits.
LEMMA EvaluationStep ==
  ASSUME FeedInv, v' \in View, EvaluatePosition, v'.price <= v'.high, v'.age <= now,
         ViewFits', ChannelFits'
  PROVE  FeedInv'
<1>1. mode' = mode /\ now' = now
  BY DEF EvaluatePosition
<1>2. TypeOK'
  BY <1>1, EvaluationFits DEF TypeOK, FeedInv
<1>3. QED
  BY <1>2, EvaluationFits DEF FeedInv

\* The head of the channel is a fair update, and so is the rest.
LEMMA HandleChannel ==
  ASSUME FeedInv, HandlePriceUpdate
  PROVE  UpdateFair(Head(priceq)) /\ ChannelFits'
<1>1. priceq \in Seq(Update) /\ priceq # <<>> /\ priceq' = Tail(priceq) /\ dec' = dec
  BY DEF FeedInv, ChannelFits, HandlePriceUpdate
<1>2. 1 \in DOMAIN priceq /\ Head(priceq) = priceq[1]
  BY <1>1
<1>3. /\ priceq' \in Seq(Update)
      /\ \A i \in DOMAIN priceq' : i + 1 \in DOMAIN priceq /\ priceq'[i] = priceq[i + 1]
  BY <1>1
<1>4. \A i \in DOMAIN priceq' : UpdateFair(priceq[i])'
  BY <1>1, <1>3 DEF UpdateFair, Fair, FeedInv, ChannelFits
<1>5. QED
  BY <1>1, <1>2, <1>3, <1>4 DEF FeedInv, ChannelFits

\* The sets of prices, accounts and amounts.
LEMMA InputTypes ==
  /\ \A m \in Modes : \A p \in Prices[m] : p \in Nat /\ p < Wrapped
  /\ Accounts \subseteq Account
  /\ Amounts \subseteq Nat /\ Slippages \subseteq Nat
<1>1. \A m \in Modes : \A p \in Prices[m] : p \in Nat /\ p < Wrapped
  <2>1. \A m \in Modes : Prices[m] \subseteq 0 .. Wrapped - 1
    BY FeedAssumption
  <2>2. Wrapped \in Nat
    BY FeedAssumption
  <2>3. QED
    BY <2>1, <2>2
<1>2. Accounts \subseteq Account
  BY FeedAssumption
<1>3. Amounts \subseteq Nat /\ Slippages \subseteq Nat
  BY FeedAssumption
<1>4. QED
  BY <1>1, <1>2, <1>3

\* Every step keeps the invariant.
LEMMA FeedStep ==
  ASSUME FeedInv, [FeedNext]_feedVars
  PROVE  FeedInv'
<1>0. /\ mode \in Modes /\ Ages[mode] \subseteq Nat /\ now \in Nat
      /\ v \in View /\ v.price \in Nat /\ v.high \in Nat /\ v.age \in Nat /\ v.pnl \in Int
      /\ v.price <= v.high /\ v.age <= now
  BY WatchAssumption DEF FeedInv, TypeOK, View
<1>1. CASE FeedPoll
  <2>1. PICK p \in Prices[mode], a \in Accounts : Poll(p, a)
    BY <1>1 DEF FeedPoll
  <2>2. p \in Nat /\ p < Wrapped /\ a \in Account
    BY <1>0, <2>1, InputTypes, Zenon
  <2>3. ChannelFits' /\ (dec' # "default" => dec # "default")
    BY <2>1, <2>2, PollFair
  <2>4. UNCHANGED <<mode, now, v, triggered, cmd, seen>>
    BY <2>1 DEF Poll, vars
  <2>5. ViewFits'
    BY <2>3, <2>4 DEF FeedInv, ViewFits, Fair
  <2>6. QED
    BY <2>3, <2>4, <2>5 DEF FeedInv, TypeOK, CommandFits, FirstTiers
<1>2. CASE HandlePriceUpdate
  <2> DEFINE u == Head(priceq)
  <2>1. UpdateFair(u) /\ ChannelFits' /\ dec' = dec
    BY <1>2, HandleChannel DEF HandlePriceUpdate
  <2> HIDE DEF u
  <2>2. CASE u.stale
    <3>1. v' = [v EXCEPT !.stale = TRUE] /\ EvaluatePosition /\ seen' = seen
      BY <1>2, <2>2 DEF HandlePriceUpdate, StalePrice, u
    <3>2. v' \in View /\ v'.price = v.price /\ v'.high = v.high /\ v'.age = v.age
          /\ v'.pnl = v.pnl
      BY <1>0, <3>1 DEF View
    <3>3. ViewFits'
      BY <2>1, <3>1, <3>2 DEF FeedInv, ViewFits, Fair
    <3>4. QED
      BY <1>0, <2>1, <3>1, <3>2, <3>3, EvaluationStep
  <2>3. CASE ~u.stale
    <3>1. v' = UpdatePnl(v, u.price, now) /\ EvaluatePosition /\ seen' = u.at
      BY <1>2, <2>3 DEF HandlePriceUpdate, FreshPrice, u
    <3>2. u.price \in Nat /\ u.at \in Nat /\ Fair(u.price, u.at)
      BY <2>1, <2>3 DEF UpdateFair, Update
    <3>3. Max({v.high, u.price}) \in Nat /\ Max({v.high, u.price}) >= u.price
      BY <1>0, <3>2, MaxOfTwo
    <3>4. v' \in View /\ v'.price = u.price /\ v'.high = Max({v.high, u.price})
          /\ v'.age = now /\ v'.pnl = u.price - 100
      BY <1>0, <3>1, <3>2, <3>3 DEF View, UpdatePnl
    <3>5. ViewFits'
      BY <2>1, <3>1, <3>2, <3>4 DEF ViewFits, Fair
    <3>6. QED
      BY <1>0, <2>1, <3>1, <3>3, <3>4, <3>5, EvaluationStep
  <2>4. QED
    BY <2>2, <2>3
<1>3. CASE CheckAllPositions
  <2>1. v' = v /\ EvaluatePosition /\ UNCHANGED <<dec, priceq, seen>>
    BY <1>3 DEF CheckAllPositions, Sweep
  <2>2. ViewFits' /\ ChannelFits'
    BY <2>1 DEF FeedInv, ViewFits, ChannelFits, UpdateFair, Fair
  <2>3. QED
    BY <1>0, <2>1, <2>2, EvaluationStep
<1>4. CASE PassTime
  <2>1. PICK t \in Ages[mode] : Pass(t)
    BY <1>4 DEF PassTime
  <2>2. now' = t /\ now < t /\ t \in Nat /\ UNCHANGED <<mode, v, triggered, cmd, dec, priceq, seen>>
    BY <1>0, <1>4, <2>1 DEF Pass, PassTime
  <2>3. TypeOK'
    BY <1>0, <2>1, <2>2 DEF FeedInv, TypeOK
  <2>4. QED
    BY <2>2, <2>3 DEF FeedInv, CommandFits, ViewFits, ChannelFits, UpdateFair, Fair, FirstTiers
<1>5. CASE JupiterComesOrGoes \/ UNCHANGED feedVars
  <2>1. UNCHANGED <<mode, now, v, triggered, cmd, dec, priceq, seen>>
    BY <1>5 DEF JupiterComesOrGoes, feedVars, vars
  <2>2. QED
    BY <2>1 DEF FeedInv, TypeOK, CommandFits, ViewFits, ChannelFits, UpdateFair, Fair, FirstTiers
<1>6. QED
  BY <1>1, <1>2, <1>3, <1>4, <1>5 DEF FeedNext

\* It holds when the position is opened.
LEMMA FeedInitInv ==
  ASSUME FeedInit
  PROVE  FeedInv
<1> USE DEF FeedInit, Init
<1>1. mode \in Modes /\ mode \in DOMAIN Profile /\ 0 \in Ages[mode] /\ Worth \in Nat
  BY WatchAssumption, FeedAssumption
<1>2. Len(Tiers[mode]) \in Nat /\ DOMAIN Tiers[mode] = 1 .. Len(Tiers[mode])
  BY <1>1, TierFacts
<1>3. v \in View /\ v.price = 100 /\ v.high = 100 /\ v.age = 0 /\ v.pnl = 0
  BY DEF Opened, View
<1>4. TypeOK
  BY <1>1, <1>2, <1>3 DEF TypeOK, NoCmd
<1>5. ViewFits
  <2>1. (100 - 100 - 1) * Worth < 100
    BY <1>1
  <2>2. QED
    BY <1>3, <2>1 DEF ViewFits, Fair
<1>6. CommandFits /\ ChannelFits
  BY DEF CommandFits, ChannelFits, NoCmd, Profits
<1>7. FirstTiers
  BY <1>2 DEF FirstTiers
<1>8. QED
  BY <1>4, <1>5, <1>6, <1>7 DEF FeedInv

\* The inductive invariant.
LEMMA FeedInvariant == FeedSpec => []FeedInv
BY FeedInitInv, FeedStep, PTL DEF FeedSpec

----------------------------------------------------------------------------
(* Theorems                                                                *)

\* The type invariant: the cached age never runs ahead of the clock and the highest
\* price never falls behind the last one (update_pnl).
THEOREM TypeCorrect == FeedSpec => []TypeOK
BY FeedInvariant, PTL DEF FeedInv

\* Tiers are triggered in the order of the table and none is skipped.
THEOREM TiersInOrder == FeedSpec => []TierPrefix
<1>1. FeedInv => TierPrefix
  <2> SUFFICES ASSUME FeedInv PROVE TierPrefix
    OBVIOUS
  <2>1. mode \in DOMAIN Profile
    BY WatchAssumption DEF FeedInv, TypeOK
  <2>2. Len(Tiers[mode]) \in Nat
    BY <2>1, TierFacts
  <2>3. PICK k \in 0 .. Len(Tiers[mode]) : triggered = 1 .. k
    BY DEF FeedInv, FirstTiers
  <2>4. Cardinality(1 .. k) = k
    BY <2>2, FS_Interval
  <2>5. QED
    BY <2>3, <2>4 DEF TierPrefix
<1>2. QED
  BY <1>1, FeedInvariant, PTL

\* A stop-loss is sent for a loss of the market, not for one made by the feed.
THEOREM RealLoss == FeedSpec => []LossIsReal
<1>1. FeedInv => LossIsReal
  <2> SUFFICES ASSUME FeedInv, cmd.kind = "StopLoss", dec # "default"
               PROVE  (seen - (100 - Profile[mode].sl) - 1) * Worth < 100
    BY DEF LossIsReal
  <2>1. mode \in DOMAIN Profile /\ v \in View /\ Worth \in Nat
    BY WatchAssumption, FeedAssumption DEF FeedInv, TypeOK
  <2>2. Profile[mode].sl \in Nat /\ v.price \in Nat /\ seen \in Nat
    BY <2>1, ProfileFacts DEF View, FeedInv, ViewFits
  <2>3. v.price <= 100 - Profile[mode].sl
    BY <2>1, <2>2 DEF FeedInv, CommandFits, ViewFits
  <2>4. (seen - v.price - 1) * Worth < 100
    BY DEF FeedInv, ViewFits, Fair
  <2> DEFINE x == seen - (100 - Profile[mode].sl) - 1
             y == seen - v.price - 1
  <2>5. x \in Int /\ y \in Int /\ x <= y
    BY <2>2, <2>3
  <2> HIDE DEF x, y
  <2>6. x * Worth <= y * Worth
    BY <2>1, <2>5, ProductMonotone
  <2>7. QED
    BY <2>1, <2>4, <2>5, <2>6 DEF x, y
<1>2. QED
  BY <1>1, FeedInvariant, PTL

\* Profit is only taken when the market was above the entry price.
THEOREM RealProfit == FeedSpec => []ProfitIsReal
<1>1. FeedInv => ProfitIsReal
  BY DEF FeedInv, ProfitIsReal, CommandFits, Profits, ViewFits, Fair, TypeOK, View
<1>2. QED
  BY <1>1, FeedInvariant, PTL

\* When a direct sale into a pool that nobody else touches is accepted by the
\* chain, for every slippage that the configuration can hold.
THEOREM DirectSales == FeedSpec => []DirectSaleLands
<1>1. FeedInv => DirectSaleLands
  <2> SUFFICES ASSUME FeedInv, NEW i \in DOMAIN priceq, NEW n \in Amounts,
                      NEW bps \in Slippages
               PROVE  Lands(n, 100, priceq[i].at, bps)
    BY DEF DirectSaleLands, Lands
  <2>1. priceq[i].at \in Nat /\ priceq[i].at < Wrapped
    BY DEF FeedInv, ChannelFits, UpdateFair, Update
  <2>2. n \in Nat /\ bps \in Nat
    BY InputTypes, Zenon
  <2>3. QED
    BY <2>1, <2>2, QuoteLands
<1>2. QED
  BY <1>1, FeedInvariant, PTL

\* Selling back what a direct buy brought in is never quoted above what was paid.
THEOREM RoundTrips == FeedSpec => []RoundTripLoses
<1>1. FeedInv => RoundTripLoses
  <2> SUFFICES ASSUME FeedInv, NEW i \in DOMAIN priceq, NEW n \in Amounts
               PROVE  LET sol == priceq[i].at
                          tokens == ChainOut(n, sol, 100)
                      IN  quote_exact_in(tokens, 100 - tokens, sol + n) <= n
    BY DEF RoundTripLoses
  <2>1. priceq[i].at \in Nat
    BY DEF FeedInv, ChannelFits, UpdateFair, Update
  <2>2. n \in Nat
    BY InputTypes, Zenon
  <2>3. QED
    BY <2>1, <2>2, RoundTrip
<1>2. QED
  BY <1>1, FeedInvariant, PTL

=============================================================================
