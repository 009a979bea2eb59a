----------------------------- MODULE MCTpSlWatch -----------------------------
(* Quotes and instants at and next to the thresholds of the three modes, a  *)
(* source of its own for each, and accounts of either orientation or none.  *)
EXTENDS PriceFeed

MCPrices == [Snipe |-> {0, 95, 96, 104, 110},
             Scalp |-> {4, 90, 91, 111, 150},
             Hold  |-> {4, 50, 51, 150, 300}]

MCAges == [Snipe |-> {0, 31, 121},
           Scalp |-> {0, 121, 601},
           Hold  |-> {0, 601, 14401}]

MCHints == [Snipe |-> {"PumpFunBondingCurve"}, Scalp |-> {"RaydiumPool"},
            Hold |-> {"PumpSwapAMM"}]

MCAccounts == {[owner |-> "cpmm", long |-> TRUE, mints |-> <<"WSOL", "token">>],
               [owner |-> "amm_v4", long |-> TRUE, mints |-> <<"token", "WSOL">>],
               [owner |-> "cpmm", long |-> TRUE, mints |-> <<"WSOL", "foreign">>],
               [owner |-> "other", long |-> FALSE, mints |-> <<"token", "foreign">>]}

MCAmounts == 0 .. 40 \cup {400, 401, 2000}
=============================================================================
