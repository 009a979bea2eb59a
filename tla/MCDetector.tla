------------------------------ MODULE MCDetector ------------------------------
(* Every shape of report for one mint; the Helius stream has a Pump.fun        *)
(* creation, a pool with SOL on its first side, and a transaction with two     *)
(* instructions of which one creates nothing.                                  *)
EXTENDS Detector, TLC

CONSTANTS m1, m2

Ix(program, first, second) ==
    [program |-> program, fits |-> TRUE, first |-> first, second |-> second]

MCReports ==
    {MigrationToken(m1), MigrationToken(m2)}
    \cup [mint: {m1}, creator: {"none"}, backend: {"PumpPortal"}, mcap: {FALSE}]
    \cup [mint: {m1}, creator: {"portal"}, backend: {"PumpPortal"}, mcap: {TRUE}]

MCTransactions ==
    {[signature |-> 1, instructions |-> <<Ix("PumpFun", m1, m1)>>],
     [signature |-> 2, instructions |-> <<Ix("RaydiumCpmm", Wsol, m2)>>],
     [signature |-> 3, instructions |->
        <<Ix("other", m2, Wsol), [Ix("PumpSwap", m1, Wsol) EXCEPT !.fits = FALSE]>>]}
=============================================================================
