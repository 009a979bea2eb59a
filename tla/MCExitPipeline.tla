---------------------------- MODULE MCExitPipeline ----------------------------
(* A stop-loss, and a quote that reaches the first tier and then the trailing *)
(* stop (Scalp) or nothing (Snipe). Rows are written when a position is      *)
(* opened, and after a partial sale at the first tier.                       *)
EXTENDS ExitPipeline

Quote(p) == [pnl |-> p - 100, price |-> p, high |-> 125, age |-> 0, stale |-> FALSE]

MCQuotes == {Quote(p) : p \in IF Mode = "Scalp" THEN {89, 111} ELSE {94, 103}}
MCRealized == {-45}
MCWritten == {Opened, [Quote(111) EXCEPT !.pnl = -45]}
=============================================================================
