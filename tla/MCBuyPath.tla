------------------------------- MODULE MCBuyPath -------------------------------
(* Enrichments at and next to the thresholds of the filters.                *)
EXTENDS BuyPath, TLC

MCEnrichments == [ok: {TRUE}, liquidity: {49, 50}, mcap: {0, 349, 350}]
                 \cup [ok: {FALSE}, liquidity: {0}, mcap: {0}]

\* No route, a route with too much price impact, and one to take.
MCQuotes == [ok: {FALSE}, out: {0}, impact: {0}] \cup [ok: {TRUE}, out: {0, 1}, impact: {10, 11}]

Symmetry == Permutations(Mints)
=============================================================================
