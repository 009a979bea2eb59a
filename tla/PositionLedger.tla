---------------------------- MODULE PositionLedger ----------------------------
(***************************************************************************)
(* What PositionManager promises to its users, with none of its locks,     *)
(* clones and writes: at most one open position per mint, a fresh identity *)
(* for every position, a close that is not undone while the process runs,  *)
(* and a crash that may lose or bring back positions, but never brings     *)
(* back one whose close has become durable.                                *)
(***************************************************************************)
CONSTANTS
    Mints,
    Ids,     \* identities of positions
    NoPos    \* absence of a position

VARIABLES
    drawn,   \* identities given out
    held,    \* mint -> [id, open] of the position the process knows, or NoPos
    final    \* identities whose close is durable

ledger == <<drawn, held, final>>

Open(m) == held[m] # NoPos /\ held[m].open
Holds(i) == \E m \in Mints : Open(m) /\ held[m].id = i

\* A new position takes the place of none or of a closed one.
OpenPosition(m, i) ==
    /\ ~Open(m) /\ i \notin drawn
    /\ drawn' = drawn \cup {i}
    /\ held' = [held EXCEPT ![m] = [id |-> i, open |-> TRUE]]
    /\ UNCHANGED final

ClosePosition(m) ==
    /\ Open(m)
    /\ held' = [held EXCEPT ![m].open = FALSE]
    /\ UNCHANGED <<drawn, final>>

\* The close of a position becomes durable; an open one's cannot.
Finalize(i) ==
    /\ i \in drawn /\ ~Holds(i)
    /\ final' = final \cup {i}
    /\ UNCHANGED <<drawn, held>>

\* A crash forgets every position, and settles which closes are durable.
Forget ==
    /\ held' = [m \in Mints |-> NoPos]
    /\ final \subseteq final' /\ final' \subseteq drawn
    /\ UNCHANGED drawn

\* A restart brings back positions as open ones, each under one mint.
Recover ==
    /\ \A m \in Mints : held[m] = NoPos
    /\ held' \in [Mints -> [id: drawn \ final, open: {TRUE}] \cup {NoPos}]
    /\ \A m, n \in Mints :
          held'[m] # NoPos /\ held'[n] # NoPos /\ held'[m].id = held'[n].id => m = n
    /\ UNCHANGED <<drawn, final>>

Init ==
    /\ drawn = {} /\ final = {}
    /\ held = [m \in Mints |-> NoPos]

Next ==
    \/ \E m \in Mints, i \in Ids : OpenPosition(m, i)
    \/ \E m \in Mints : ClosePosition(m)
    \/ \E i \in Ids : Finalize(i)
    \/ Forget \/ Recover

Spec == Init /\ [][Next]_ledger
=============================================================================
