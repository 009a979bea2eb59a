---------------------------- MODULE BuyPathProofs ----------------------------
(***************************************************************************)
(* Theorems about BuyPath, for any finite sets of mints and buyers and any *)
(* limits.                                                                 *)
(*                                                                         *)
(* None of the four safety invariants is inductive by itself. SlotInv      *)
(* adds the buyers in flight to the open positions: a buy is admitted only *)
(* below max_positions, and each buyer in flight opens at most one more.   *)
(* CoolInv does so for the positions opened while the cooldown runs.       *)
(* StopInv and BreakerInv say what the pipeline can still do once an       *)
(* automatic buy went through after /stop, or once an error was counted.   *)
(***************************************************************************)
EXTENDS BuyPath, FiniteSetTheorems, TLAPS

\* A buyer at work has a mint.
TokInv ==
    \A b \in Buyers : pc[b] \in {"enrich", "admit", "route", "verify"} => tok[b] \in Mints

\* Buyers that were admitted and may still open a position.
InFlight == {b \in Buyers : pc[b] \in {"route", "verify"}}

SlotInv ==
    Cardinality(OpenMints) + Cardinality(InFlight) <= MaxPositions + Cardinality(Buyers) - 1

\* While the cooldown runs nobody is admitted, and whoever opens a position is no
\* longer in flight. The buyer that started it was not, either.
CoolInv ==
    /\ cool => burst + Cardinality(InFlight) <= Cardinality(Buyers) - 1
    /\ ~cool => burst = 0

\* After an automatic buy under /stop the pipeline gets no further than its
\* kill switch.
StopInv ==
    /\ sinceStop <= 1
    /\ sinceStop = 1 => ~active /\ pc[Pipe] \notin {"admit", "route"}

\* A pipeline at work has room for one more error.
BreakerInv ==
    /\ errs <= ErrThreshold
    /\ pc[Pipe] \in {"enrich", "admit", "route", "verify"} => errs < ErrThreshold

IInv == TypeOK /\ TokInv /\ SlotInv /\ CoolInv /\ StopInv /\ BreakerInv

----------------------------------------------------------------------------
(* Type correctness                                                        *)

\* A call that returns keeps the types of what it resets.
LEMMA ReturnType ==
  ASSUME TypeOK, TokInv, NEW b \in Buyers, NEW ok \in BOOLEAN, Return(b, ok)
  PROVE  /\ pc' \in [Buyers -> {"idle", "paused", "enrich", "admit", "route", "verify"}]
         /\ tok' \in [Buyers -> Mints \cup {NoMint}]
         /\ landed' \in [Buyers -> BOOLEAN]
         /\ errs' \in Nat
         /\ TokInv'
  BY DEF Return, TypeOK, TokInv

\* Every step keeps the types, and a buyer at work its mint.
LEMMA TypeStep == TypeOK /\ TokInv /\ [Next]_vars => TypeOK' /\ TokInv'
<1> SUFFICES ASSUME TypeOK, TokInv, [Next]_vars PROVE TypeOK' /\ TokInv'
  OBVIOUS
<1> Pipe \in Buyers /\ Bots \subseteq Buyers
  BY DEF Buyers
<1> USE BuyPathAssumption
<1>1. CASE PipeNext
  <2>1. ASSUME NEW m \in Mints, Receive(m) PROVE TypeOK' /\ TokInv'
    BY <2>1 DEF Receive, TypeOK, TokInv, book, chain
  <2>2. ASSUME NEW m \in Mints, ObservationExpires(m) PROVE TypeOK' /\ TokInv'
    BY <2>2 DEF ObservationExpires, TypeOK, TokInv, book, chain
  <2>3. CASE Resume
    BY <2>3 DEF Resume, TypeOK, TokInv, book, chain
  <2>4. CASE ErrorExpires
    BY <2>4 DEF ErrorExpires, TypeOK, TokInv, book, chain
  <2>5. ASSUME NEW e \in Enrichments, NEW dup \in BOOLEAN, NEW saved \in BOOLEAN,
               NEW wallet \in BOOLEAN, Enriched(e, dup, saved, wallet)
        PROVE  TypeOK' /\ TokInv'
    BY <2>5 DEF Enriched, TypeOK, TokInv, book, chain
  <2> QED
    BY <1>1, <2>1, <2>2, <2>3, <2>4, <2>5 DEF PipeNext
<1>2. ASSUME NEW b \in Bots, NEW m \in Mints, BuyButton(b, m) PROVE TypeOK' /\ TokInv'
  BY <1>2 DEF BuyButton, TypeOK, TokInv, book, chain
<1>3. CASE Stop
  BY <1>3 DEF Stop, TypeOK, TokInv, book
<1>4. CASE Go
  BY <1>4 DEF Go, TypeOK, TokInv, book
<1>5. ASSUME NEW b \in Buyers, BuyNext(b) PROVE TypeOK' /\ TokInv'
  <2>1. CASE Admit(b)
    BY <2>1 DEF Admit, TypeOK, TokInv, book, chain
  <2>2. CASE Deny(b) \/ RouteFails(b) \/ VerifyFails(b) \/ OpenRefused(b)
    <3>1. /\ Return(b, FALSE)
          /\ UNCHANGED <<observe, active, observed, cool, book, chain, lost>>
      BY <2>2 DEF Deny, RouteFails, VerifyFails, OpenRefused
    <3> QED
      BY <3>1, ReturnType DEF TypeOK, book, chain
  <2>3. ASSUME NEW saved \in BOOLEAN, Observe(b, saved) PROVE TypeOK' /\ TokInv'
    BY <2>3, ReturnType DEF Observe, TypeOK, TokInv, book, chain
  <2>4. ASSUME NEW lands \in BOOLEAN, Submit(b, lands) PROVE TypeOK' /\ TokInv'
    BY <2>4 DEF Submit, Send, TypeOK, TokInv, book
  <2>5. ASSUME NEW written \in BOOLEAN, Opens(b, written) PROVE TypeOK' /\ TokInv'
    <3>1. trades' \in SUBSET {"NULL", "loss"}
      BY <2>5 DEF Opens, InsertTrade, TypeOK
    <3>2. /\ cache' \in [Mints -> {"None", "Open", "Closed"}]
          /\ rowed' \in [Mints -> BOOLEAN] /\ ghosts' \in Nat
          /\ bal' \in [Mints -> BOOLEAN] /\ lost' \in Nat
          /\ buys' \in Nat /\ sinceStop' \in Nat
      BY <2>5 DEF Opens, TypeOK, chain
    <3>4. burst' \in Nat
      <4>1. burst \in Nat /\ burst' = IF cool THEN burst + 1 ELSE 0
        BY <2>5 DEF Opens, TypeOK
      <4> QED
        BY <4>1
    <3>3. cool' \in BOOLEAN /\ observe' \in BOOLEAN /\ active' \in BOOLEAN
      BY <2>5 DEF Opens, TypeOK
    <3> QED
      BY <2>5, <3>1, <3>2, <3>3, <3>4, ReturnType DEF Opens, TypeOK
  <2>6. ASSUME NEW lands \in BOOLEAN, SendFails(b, lands) PROVE TypeOK' /\ TokInv'
    <3>1. /\ Send(b, lands) /\ Return(b, FALSE)
          /\ UNCHANGED <<observe, active, observed, cool, book, lost>>
      BY <2>6 DEF SendFails
    <3>2. bal' \in [Mints -> BOOLEAN] /\ buys' \in Nat /\ sinceStop' \in Nat
      <4>1. bal' = bal \/ bal' = [bal EXCEPT ![tok[b]] = TRUE]
        BY <3>1 DEF Send
      <4>2. buys' = buys + 1 /\ sinceStop' \in {sinceStop, sinceStop + 1}
        BY <3>1 DEF Send
      <4>3. bal \in [Mints -> BOOLEAN] /\ buys \in Nat /\ sinceStop \in Nat
        BY DEF TypeOK
      <4>4. bal' \in [Mints -> BOOLEAN]
        BY <4>1, <4>3
      <4>5. buys' \in Nat /\ sinceStop' \in Nat
        BY <4>2, <4>3
      <4> QED
        BY <4>4, <4>5
    <3>3. /\ pc' \in [Buyers -> {"idle", "paused", "enrich", "admit", "route", "verify"}]
          /\ tok' \in [Buyers -> Mints \cup {NoMint}]
          /\ landed' \in [Buyers -> BOOLEAN]
          /\ errs' \in Nat
          /\ TokInv'
      BY <3>1, ReturnType
    <3> QED
      BY <3>1, <3>2, <3>3 DEF TypeOK, book
  <2> QED
    BY <1>5, <2>1, <2>2, <2>3, <2>4, <2>5, <2>6 DEF BuyNext
<1>6. ASSUME NEW m \in Mints, NEW sold \in BOOLEAN, NEW loss \in BOOLEAN,
             NEW written \in BOOLEAN, Close(m, sold, loss, written)
      PROVE  TypeOK' /\ TokInv'
  <2>1. trades' \in SUBSET {"NULL", "loss"}
    BY <1>6 DEF Close, InsertTrade, TypeOK
  <2> QED
    BY <1>6, <2>1 DEF Close, TypeOK, TokInv
<1>7. CASE CooldownExpires
  BY <1>7 DEF CooldownExpires, TypeOK, TokInv, book, chain
<1>8. CASE UNCHANGED vars
  BY <1>8 DEF vars, TypeOK, TokInv
<1> QED
  BY <1>1, <1>2, <1>3, <1>4, <1>5, <1>6, <1>7, <1>8 DEF Next

----------------------------------------------------------------------------
(* Slots                                                                   *)

\* The sets that are counted are finite.
LEMMA Finite ==
    /\ IsFiniteSet(Buyers) /\ IsFiniteSet(OpenMints) /\ IsFiniteSet(InFlight)
    /\ Cardinality(Buyers) \in Nat /\ Cardinality(OpenMints) \in Nat
    /\ Cardinality(InFlight) \in Nat /\ Cardinality(InFlight) <= Cardinality(Buyers)
    /\ Cardinality(Buyers) >= 1
<1>1. IsFiniteSet(Buyers)
  BY BuyPathAssumption, FS_Singleton, FS_Union DEF Buyers
<1>2. IsFiniteSet(OpenMints)
  <2>1. OpenMints \in SUBSET Mints
    BY DEF OpenMints
  <2> QED
    BY <2>1, BuyPathAssumption, FS_Subset
<1>3. IsFiniteSet(InFlight) /\ Cardinality(InFlight) <= Cardinality(Buyers)
  <2>1. InFlight \in SUBSET Buyers
    BY DEF InFlight
  <2> QED
    BY <1>1, <2>1, FS_Subset
<1>4. Buyers # {}
  BY DEF Buyers
<1>5. Cardinality(Buyers) \in Nat /\ Cardinality(OpenMints) \in Nat
      /\ Cardinality(InFlight) \in Nat
  BY <1>1, <1>2, <1>3, FS_CardinalityType
<1>6. Cardinality(Buyers) # 0
  BY <1>1, <1>4, FS_EmptySet
<1> QED
  BY <1>1, <1>2, <1>3, <1>5, <1>6

\* The same of the next state.
LEMMA FiniteNext ==
    /\ IsFiniteSet(OpenMints') /\ IsFiniteSet(InFlight')
    /\ Cardinality(OpenMints') \in Nat
    /\ Cardinality(InFlight') \in Nat /\ Cardinality(InFlight') <= Cardinality(Buyers)
<1>1. OpenMints' \in SUBSET Mints
  BY DEF OpenMints
<1>2. InFlight' \in SUBSET Buyers
  BY DEF InFlight
<1>3. IsFiniteSet(OpenMints')
  BY <1>1, BuyPathAssumption, FS_Subset
<1>4. IsFiniteSet(InFlight') /\ Cardinality(InFlight') <= Cardinality(Buyers)
  BY <1>2, Finite, FS_Subset
<1> QED
  BY <1>3, <1>4, FS_CardinalityType

\* A step that opens nothing and admits nobody.
LEMMA SlotShrink ==
  ASSUME SlotInv, OpenMints' \subseteq OpenMints, InFlight' \subseteq InFlight
  PROVE  SlotInv'
<1>1. Cardinality(OpenMints') <= Cardinality(OpenMints)
  BY Finite, FS_Subset
<1>2. Cardinality(InFlight') <= Cardinality(InFlight)
  BY Finite, FS_Subset
<1>3. MaxPositions \in Nat
  BY BuyPathAssumption
<1>4. Cardinality(Buyers)' = Cardinality(Buyers)
  BY DEF Buyers
<1> QED
  BY <1>1, <1>2, <1>3, <1>4, Finite, FiniteNext DEF SlotInv

\* An admitted buyer finds fewer than MaxPositions positions.
LEMMA SlotAdmit ==
  ASSUME TypeOK, NEW b \in Buyers, Admit(b)
  PROVE  SlotInv'
<1>1. OpenMints' = OpenMints /\ Cardinality(OpenMints) < MaxPositions
  BY DEF Admit, OpenMints, book
<1>2. MaxPositions \in Nat
  BY BuyPathAssumption
<1>3. Cardinality(Buyers)' = Cardinality(Buyers)
  BY DEF Buyers
<1> QED
  BY <1>1, <1>2, <1>3, Finite, FiniteNext DEF SlotInv

\* A position that is opened takes the place of a buyer in flight.
LEMMA SlotOpen ==
  ASSUME TypeOK, TokInv, SlotInv, NEW b \in Buyers, NEW written \in BOOLEAN, Opens(b, written)
  PROVE  SlotInv'
<1>0. tok[b] \in Mints
  BY DEF Opens, TokInv
<1>1. OpenMints' = OpenMints \cup {tok[b]} /\ tok[b] \notin OpenMints
  BY <1>0 DEF Opens, OpenMints, TypeOK
<1>2. InFlight' = InFlight \ {b} /\ b \in InFlight
  BY DEF Opens, Return, InFlight, TypeOK
<1>3. Cardinality(OpenMints') = Cardinality(OpenMints) + 1
  BY <1>1, Finite, FS_AddElement
<1>4. Cardinality(InFlight') = Cardinality(InFlight) - 1
  BY <1>2, Finite, FS_RemoveElement
<1>5. MaxPositions \in Nat
  BY BuyPathAssumption
<1>6. Cardinality(Buyers)' = Cardinality(Buyers)
  BY DEF Buyers
<1> QED
  BY <1>3, <1>4, <1>5, <1>6, Finite, FiniteNext DEF SlotInv

\* Every step keeps SlotInv.
LEMMA SlotStep == TypeOK /\ TokInv /\ SlotInv /\ [Next]_vars => SlotInv'
<1> SUFFICES ASSUME TypeOK, TokInv, SlotInv, [Next]_vars PROVE SlotInv'
  OBVIOUS
<1> Pipe \in Buyers /\ Bots \subseteq Buyers
  BY DEF Buyers
<1> DEFINE Shrinks == OpenMints' \subseteq OpenMints /\ InFlight' \subseteq InFlight
<1>1. CASE PipeNext
  <2>1. Shrinks
    <3>1. ASSUME NEW m \in Mints, Receive(m) \/ ObservationExpires(m) PROVE Shrinks
      BY <3>1 DEF Receive, ObservationExpires, TypeOK, OpenMints, InFlight, book
    <3>2. CASE Resume \/ ErrorExpires
      BY <3>2 DEF Resume, ErrorExpires, TypeOK, OpenMints, InFlight, book
    <3>3. ASSUME NEW e \in Enrichments, NEW dup \in BOOLEAN, NEW saved \in BOOLEAN,
                 NEW wallet \in BOOLEAN, Enriched(e, dup, saved, wallet)
          PROVE  Shrinks
      BY <3>3 DEF Enriched, TypeOK, OpenMints, InFlight, book
    <3> QED
      BY <1>1, <3>1, <3>2, <3>3 DEF PipeNext
  <2> QED
    BY <2>1, SlotShrink
<1>2. ASSUME NEW b \in Bots, NEW m \in Mints, BuyButton(b, m) PROVE SlotInv'
  <2>1. Shrinks
    BY <1>2 DEF BuyButton, TypeOK, OpenMints, InFlight, book
  <2> QED
    BY <2>1, SlotShrink
<1>3. CASE Stop \/ Go \/ CooldownExpires \/ UNCHANGED vars
  <2>1. Shrinks
    BY <1>3 DEF Stop, Go, CooldownExpires, vars, OpenMints, InFlight, book
  <2> QED
    BY <2>1, SlotShrink
<1>4. ASSUME NEW b \in Buyers, BuyNext(b) PROVE SlotInv'
  <2>1. CASE Admit(b)
    BY <2>1, SlotAdmit
  <2>2. CASE Deny(b) \/ RouteFails(b) \/ VerifyFails(b) \/ OpenRefused(b)
               \/ \E saved \in BOOLEAN : Observe(b, saved)
    <3>1. Shrinks
      BY <2>2 DEF Deny, RouteFails, VerifyFails, OpenRefused, Observe, Return, TypeOK,
                  OpenMints, InFlight, book
    <3> QED
      BY <3>1, SlotShrink
  <2>3. ASSUME NEW lands \in BOOLEAN, Submit(b, lands) \/ SendFails(b, lands)
        PROVE  SlotInv'
    <3>1. Shrinks
      BY <2>3 DEF Submit, SendFails, Send, Return, TypeOK, OpenMints, InFlight, book
    <3> QED
      BY <3>1, SlotShrink
  <2>4. ASSUME NEW written \in BOOLEAN, Opens(b, written) PROVE SlotInv'
    BY <2>4, SlotOpen
  <2> QED
    BY <1>4, <2>1, <2>2, <2>3, <2>4 DEF BuyNext
<1>5. ASSUME NEW m \in Mints, NEW sold \in BOOLEAN, NEW loss \in BOOLEAN,
             NEW written \in BOOLEAN, Close(m, sold, loss, written)
      PROVE  SlotInv'
  <2>1. Shrinks
    BY <1>5 DEF Close, TypeOK, OpenMints, InFlight
  <2> QED
    BY <2>1, SlotShrink
<1> QED
  BY <1>1, <1>2, <1>3, <1>4, <1>5 DEF Next

----------------------------------------------------------------------------
(* Cooldown                                                                *)

\* A step that admits nobody and leaves the cooldown alone.
LEMMA CoolShrink ==
  ASSUME TypeOK, CoolInv, InFlight' \subseteq InFlight, burst' = burst, cool' = cool
  PROVE  CoolInv'
<1>1. Cardinality(InFlight') <= Cardinality(InFlight)
  BY Finite, FS_Subset
<1>2. Cardinality(Buyers)' = Cardinality(Buyers)
  BY DEF Buyers
<1>3. burst \in Nat
  BY DEF TypeOK
<1> QED
  BY <1>1, <1>2, <1>3, Finite, FiniteNext DEF CoolInv

\* The buyer that may start the cooldown leaves the flight; within it, it counts.
LEMMA CoolLeave ==
  ASSUME TypeOK, CoolInv, NEW b \in Buyers, pc[b] \in {"route", "verify"},
         pc' = [pc EXCEPT ![b] = "idle"],
         \/ cool /\ cool' /\ burst' \in {burst, burst + 1}
         \/ ~cool /\ burst' = 0
  PROVE  CoolInv'
<1>1. InFlight' = InFlight \ {b} /\ b \in InFlight
  BY DEF InFlight, TypeOK
<1>2. Cardinality(InFlight') = Cardinality(InFlight) - 1
  BY <1>1, Finite, FS_RemoveElement
<1>3. Cardinality(Buyers)' = Cardinality(Buyers)
  BY DEF Buyers
<1>4. burst \in Nat
  BY DEF TypeOK
<1> QED
  BY <1>2, <1>3, <1>4, Finite, FiniteNext DEF CoolInv

\* Every step keeps CoolInv.
LEMMA CoolStep == TypeOK /\ CoolInv /\ [Next]_vars => CoolInv'
<1> SUFFICES ASSUME TypeOK, CoolInv, [Next]_vars PROVE CoolInv'
  OBVIOUS
<1> Pipe \in Buyers /\ Bots \subseteq Buyers
  BY DEF Buyers
<1> DEFINE Calm == InFlight' \subseteq InFlight /\ burst' = burst /\ cool' = cool
<1>1. CASE PipeNext
  <2>1. Calm
    <3>1. ASSUME NEW m \in Mints, Receive(m) \/ ObservationExpires(m) PROVE Calm
      BY <3>1 DEF Receive, ObservationExpires, TypeOK, InFlight, book
    <3>2. CASE Resume \/ ErrorExpires
      BY <3>2 DEF Resume, ErrorExpires, TypeOK, InFlight, book
    <3>3. ASSUME NEW e \in Enrichments, NEW dup \in BOOLEAN, NEW saved \in BOOLEAN,
                 NEW wallet \in BOOLEAN, Enriched(e, dup, saved, wallet)
          PROVE  Calm
      BY <3>3 DEF Enriched, TypeOK, InFlight, book
    <3> QED
      BY <1>1, <3>1, <3>2, <3>3 DEF PipeNext
  <2> QED
    BY <2>1, CoolShrink
<1>2. ASSUME NEW b \in Bots, NEW m \in Mints, BuyButton(b, m) PROVE CoolInv'
  <2>1. Calm
    BY <1>2 DEF BuyButton, TypeOK, InFlight, book
  <2> QED
    BY <2>1, CoolShrink
<1>3. CASE Stop \/ Go \/ UNCHANGED vars
  <2>1. Calm
    BY <1>3 DEF Stop, Go, vars, InFlight, book
  <2> QED
    BY <2>1, CoolShrink
<1>4. CASE CooldownExpires
  BY <1>4 DEF CooldownExpires, CoolInv
<1>5. ASSUME NEW b \in Buyers, BuyNext(b) PROVE CoolInv'
  <2>1. CASE Admit(b)
    BY <2>1 DEF Admit, CoolInv, book
  <2>2. CASE Deny(b) \/ RouteFails(b) \/ VerifyFails(b) \/ OpenRefused(b)
    <3>1. Calm
      BY <2>2 DEF Deny, RouteFails, VerifyFails, OpenRefused, Return, TypeOK, InFlight, book
    <3> QED
      BY <3>1, CoolShrink
  <2>3. ASSUME NEW lands \in BOOLEAN, Submit(b, lands) \/ SendFails(b, lands)
        PROVE  CoolInv'
    <3>1. Calm
      BY <2>3 DEF Submit, SendFails, Send, Return, TypeOK, InFlight, book
    <3> QED
      BY <3>1, CoolShrink
  <2>4. ASSUME NEW saved \in BOOLEAN, Observe(b, saved) PROVE CoolInv'
    <3>1. /\ pc[b] = "route" /\ pc' = [pc EXCEPT ![b] = "idle"]
          /\ cool' = TRUE /\ burst' = burst
      BY <2>4 DEF Observe, Return, book
    <3> QED
      BY <3>1, CoolLeave DEF CoolInv, TypeOK
  <2>5. ASSUME NEW written \in BOOLEAN, Opens(b, written) PROVE CoolInv'
    <3>1. /\ pc[b] = "verify" /\ pc' = [pc EXCEPT ![b] = "idle"]
          /\ cool' = (cool \/ written) /\ burst' = IF cool THEN burst + 1 ELSE 0
      BY <2>5 DEF Opens, Return
    <3> QED
      BY <3>1, CoolLeave DEF TypeOK
  <2> QED
    BY <1>5, <2>1, <2>2, <2>3, <2>4, <2>5 DEF BuyNext
<1>6. ASSUME NEW m \in Mints, NEW sold \in BOOLEAN, NEW loss \in BOOLEAN,
             NEW written \in BOOLEAN, Close(m, sold, loss, written)
      PROVE  CoolInv'
  <2>1. Calm
    BY <1>6 DEF Close, InFlight
  <2> QED
    BY <2>1, CoolShrink
<1> QED
  BY <1>1, <1>2, <1>3, <1>4, <1>5, <1>6 DEF Next

----------------------------------------------------------------------------
(* Kill switch and circuit breaker                                         *)

\* Every step keeps StopInv and BreakerInv.
LEMMA PipeStep ==
    TypeOK /\ StopInv /\ BreakerInv /\ [Next]_vars => StopInv' /\ BreakerInv'
<1> SUFFICES ASSUME TypeOK, StopInv, BreakerInv, [Next]_vars PROVE StopInv' /\ BreakerInv'
  OBVIOUS
<1> Pipe \in Buyers /\ Bots \subseteq Buyers /\ Pipe \notin Bots
  BY BuyPathAssumption DEF Buyers
<1> ErrThreshold \in Nat /\ ErrThreshold > 0
  BY BuyPathAssumption
<1> USE DEF StopInv, BreakerInv, TypeOK
<1>1. CASE PipeNext
  <2>1. ASSUME NEW m \in Mints, Receive(m) PROVE StopInv' /\ BreakerInv'
    BY <2>1 DEF Receive, chain
  <2>2. ASSUME NEW m \in Mints, ObservationExpires(m) PROVE StopInv' /\ BreakerInv'
    BY <2>2 DEF ObservationExpires, chain
  <2>3. CASE Resume
    BY <2>3 DEF Resume, chain
  <2>4. CASE ErrorExpires
    BY <2>4 DEF ErrorExpires, chain
  <2>5. ASSUME NEW e \in Enrichments, NEW dup \in BOOLEAN, NEW saved \in BOOLEAN,
               NEW wallet \in BOOLEAN, Enriched(e, dup, saved, wallet)
        PROVE  StopInv' /\ BreakerInv'
    BY <2>5 DEF Enriched, chain
  <2> QED
    BY <1>1, <2>1, <2>2, <2>3, <2>4, <2>5 DEF PipeNext
<1>2. ASSUME NEW b \in Bots, NEW m \in Mints, BuyButton(b, m)
      PROVE  StopInv' /\ BreakerInv'
  BY <1>2 DEF BuyButton, chain
<1>3. CASE Stop \/ Go
  BY <1>3 DEF Stop, Go
<1>4. ASSUME NEW b \in Buyers, BuyNext(b) PROVE StopInv' /\ BreakerInv'
  <2>1. CASE Admit(b)
    BY <2>1 DEF Admit, chain
  <2>2. CASE Deny(b) \/ RouteFails(b) \/ VerifyFails(b) \/ OpenRefused(b)
    BY <2>2 DEF Deny, RouteFails, VerifyFails, OpenRefused, Return, chain
  <2>3. ASSUME NEW saved \in BOOLEAN, Observe(b, saved) PROVE StopInv' /\ BreakerInv'
    BY <2>3 DEF Observe, Return, chain
  <2>4. ASSUME NEW lands \in BOOLEAN, Submit(b, lands) PROVE StopInv' /\ BreakerInv'
    BY <2>4 DEF Submit, Send
  <2>5. ASSUME NEW written \in BOOLEAN, Opens(b, written) PROVE StopInv' /\ BreakerInv'
    BY <2>5 DEF Opens, Return, chain
  <2>6. ASSUME NEW lands \in BOOLEAN, SendFails(b, lands) PROVE StopInv' /\ BreakerInv'
    BY <2>6 DEF SendFails, Send, Return
  <2> QED
    BY <1>4, <2>1, <2>2, <2>3, <2>4, <2>5, <2>6 DEF BuyNext
<1>5. ASSUME NEW m \in Mints, NEW sold \in BOOLEAN, NEW loss \in BOOLEAN,
             NEW written \in BOOLEAN, Close(m, sold, loss, written)
      PROVE  StopInv' /\ BreakerInv'
  BY <1>5 DEF Close
<1>6. CASE CooldownExpires
  BY <1>6 DEF CooldownExpires, chain
<1>7. CASE UNCHANGED vars
  BY <1>7 DEF vars
<1> QED
  BY <1>1, <1>2, <1>3, <1>4, <1>5, <1>6, <1>7 DEF Next

----------------------------------------------------------------------------
(* Theorems                                                                *)

\* The initial state satisfies the inductive invariant.
LEMMA InitInv == Init => IInv
<1> SUFFICES ASSUME Init PROVE IInv
  OBVIOUS
<1> USE BuyPathAssumption DEF Init
<1>1. TypeOK /\ TokInv
  BY DEF TypeOK, TokInv
<1>2. SlotInv /\ CoolInv
  <2>1. OpenMints = {} /\ InFlight = {}
    BY DEF OpenMints, InFlight
  <2>2. Cardinality(OpenMints) = 0 /\ Cardinality(InFlight) = 0
    BY <2>1, FS_EmptySet
  <2> QED
    BY <2>2, Finite DEF SlotInv, CoolInv
<1>3. StopInv /\ BreakerInv
  BY DEF StopInv, BreakerInv, Buyers
<1> QED
  BY <1>1, <1>2, <1>3 DEF IInv

\* The inductive invariant of the buy path: types, slots, cooldown, kill
\* switch, breaker.
THEOREM Invariance == Spec => []IInv
<1>1. IInv /\ [Next]_vars => IInv'
  BY TypeStep, SlotStep, CoolStep, PipeStep DEF IInv
<1> QED
  BY InitInv, <1>1, PTL DEF Spec

\* Type correctness of the pipeline, the bot and execute_buy.
THEOREM TypeCorrect == Spec => []TypeOK
<1>1. IInv => TypeOK
  BY DEF IInv
<1> QED
  BY Invariance, <1>1, PTL

\* With any number of concurrent buyers, execute_buy's check of max_positions is
\* overshot by less than one position per buyer.
THEOREM Slots == Spec => []PositionsBounded
<1>1. IInv => PositionsBounded
  BY Finite, BuyPathAssumption DEF IInv, SlotInv, PositionsBounded
<1> QED
  BY Invariance, <1>1, PTL

\* While the cooldown of the wallet runs, fewer positions are opened than there
\* are buyers.
THEOREM Cooldown == Spec => []CooldownHolds
<1>1. IInv => CooldownHolds
  <2> SUFFICES ASSUME IInv PROVE CooldownHolds
    OBVIOUS
  <2>1. burst \in Nat
    BY DEF IInv, TypeOK
  <2>2. CASE cool
    BY <2>1, <2>2, Finite DEF IInv, CoolInv, CooldownHolds
  <2>3. CASE ~cool
    BY <2>1, <2>3, Finite DEF IInv, CoolInv, CooldownHolds
  <2> QED
    BY <2>2, <2>3
<1> QED
  BY Invariance, <1>1, PTL

\* After /stop at most one automatic buy is submitted.
THEOREM KillSwitch == Spec => []StopHolds
<1>1. IInv => StopHolds
  BY DEF IInv, StopInv, StopHolds
<1> QED
  BY Invariance, <1>1, PTL

\* The errors in the breaker's window never exceed its threshold.
THEOREM Breaker == Spec => []BreakerHolds
<1>1. IInv => BreakerHolds
  BY DEF IInv, BreakerInv, BreakerHolds
<1> QED
  BY Invariance, <1>1, PTL

=============================================================================
