---------------------------- MODULE DetectorProofs ----------------------------
(***************************************************************************)
(* Theorems about the detector: its merge engine, its reconnect loops and  *)
(* its channels, for every set of mints, reports and transactions and      *)
(* every capacity, cleanup period, backoff and number of events.           *)
(***************************************************************************)
EXTENDS Detector, TLAPS, FiniteSetTheorems, WellFoundedInduction

----------------------------------------------------------------------------
(* Numbers                                                                 *)

\* A non-empty set of natural numbers has a least element.
LEMMA LeastNumber ==
  ASSUME NEW S, S \subseteq Nat, S # {}
  PROVE  \E x \in S : \A y \in S : x <= y
<1>1. PICK x \in S : \A y \in S : ~(<<y, x>> \in OpToRel(<, Nat))
  BY WFMin, NatLessThanWellFounded
<1>2. ASSUME NEW y \in S PROVE x <= y
  <2>1. ~(y < x)
    BY <1>1 DEF OpToRel
  <2>2. QED
    BY <2>1
<1>3. QED
  BY <1>2

\* The powers of two, counted as the subsets of 1 .. n: half of the subsets of
\* 1 .. n + 1 hold n + 1.
LEMMA PowerDoubles ==
  ASSUME NEW n \in Nat
  PROVE  2^n \in Nat /\ 2^n >= 1 /\ 2^(n + 1) = 2 * 2^n
<1> DEFINE S == 1 .. n
           A == SUBSET S
           B == {T \cup {n + 1} : T \in A}
<1>1. IsFiniteSet(S) /\ Cardinality(S) = n
  BY FS_Interval
<1>2. IsFiniteSet(A) /\ Cardinality(A) = 2^n
  BY <1>1, FS_SUBSET
<1>3. IsFiniteSet(1 .. n + 1) /\ Cardinality(1 .. n + 1) = n + 1
  BY FS_Interval
<1>4. IsFiniteSet(SUBSET (1 .. n + 1)) /\ Cardinality(SUBSET (1 .. n + 1)) = 2^(n + 1)
  BY <1>3, FS_SUBSET
<1>5. SUBSET (1 .. n + 1) = A \cup B
  <2>1. ASSUME NEW T \in SUBSET (1 .. n + 1) PROVE T \in A \cup B
    <3>1. CASE n + 1 \in T
      <4>1. T \ {n + 1} \in A
        OBVIOUS
      <4>2. T = (T \ {n + 1}) \cup {n + 1}
        BY <3>1
      <4>3. QED
        BY <4>1, <4>2
    <3>2. CASE n + 1 \notin T
      BY <3>2
    <3>3. QED
      BY <3>1, <3>2
  <2>2. ASSUME NEW T \in A PROVE T \in SUBSET (1 .. n + 1) /\ T \cup {n + 1} \in SUBSET (1 .. n + 1)
    OBVIOUS
  <2> HIDE DEF A, B
  <2>3. ASSUME NEW T \in A \cup B PROVE T \in SUBSET (1 .. n + 1)
    <3>1. CASE T \in A
      BY <2>2, <3>1
    <3>2. CASE T \in B
      <4>1. PICK U \in A : T = U \cup {n + 1}
        BY <3>2 DEF B
      <4>2. QED
        BY <2>2, <4>1
    <3>3. QED
      BY <3>1, <3>2
  <2>4. QED
    BY <2>1, <2>3, Zenon
<1>6. A \cap B = {}
  OBVIOUS
<1>7. IsFiniteSet(B) /\ Cardinality(B) = Cardinality(A)
  <2> DEFINE f == [T \in A |-> T \cup {n + 1}]
  <2>1. f \in [A -> B] /\ \A b \in B : \E T \in A : f[T] = b
    OBVIOUS
  <2>2. ASSUME NEW T \in A, NEW U \in A, f[T] = f[U] PROVE T = U
    <3>1. n + 1 \notin T /\ n + 1 \notin U
      OBVIOUS
    <3>2. T \cup {n + 1} = U \cup {n + 1}
      BY <2>2
    <3>3. QED
      BY <3>1, <3>2
  <2> HIDE DEF f, A, B
  <2>3. f \in Bijection(A, B)
    BY <2>1, <2>2, Zenon DEF Bijection, Injection, Surjection, IsInjective
  <2>4. ExistsBijection(A, B)
    BY <2>3 DEF ExistsBijection
  <2>5. QED
    BY <1>2, <2>4, FS_Bijection
<1>8. Cardinality(A \cup B) = Cardinality(A) + Cardinality(B)
  <2> HIDE DEF A, B
  <2>1. Cardinality(A) \in Nat /\ Cardinality(B) \in Nat
    BY <1>2, <1>7, FS_CardinalityType
  <2>2. Cardinality(A \cup B) = Cardinality(A) + Cardinality(B) - Cardinality(A \cap B)
    BY <1>2, <1>7, FS_Union
  <2>3. Cardinality(A \cap B) = 0
    BY <1>6, FS_EmptySet
  <2>4. QED
    BY <2>1, <2>2, <2>3
<1>9. 2^n \in Nat
  BY <1>2, FS_CardinalityType
<1>10. 2^n # 0
  <2>1. {} \in A
    OBVIOUS
  <2>2. QED
    BY <1>2, <2>1, FS_EmptySet
<1>11. 2^(n + 1) = 2^n + 2^n
  BY <1>2, <1>4, <1>5, <1>7, <1>8
<1>12. QED
  BY <1>9, <1>10, <1>11

----------------------------------------------------------------------------
(* The inductive invariant                                                 *)

\* A report on its way to the engine: Helius knows no market cap, and what
\* carries the marker is a migration and nothing else.
Sane(t) ==
    /\ t \in TokenInfo
    /\ t.backend = "Helius" => t.mcap = FALSE
    /\ Kind(t) = "migration" => t = MigrationToken(t.mint)

InSane == \A i \in DOMAIN in : Sane(in[i])

\* An entry waits under the mint of its token, which is newborn; what the round
\* still has to emit is waiting.
PendingFits ==
    /\ \A m \in Mints : pending[m] # NoEntry =>
          /\ Sane(pending[m].token) /\ Kind(pending[m].token) = "newborn"
          /\ pending[m].token.mint = m
    /\ \A m \in batch : pending[m] # NoEntry

OutIntact ==
    \A i \in DOMAIN out : Kind(out[i]) = "migration" => out[i] = MigrationToken(out[i].mint)

\* What was sent within the TTL is recorded.
SentRecorded == \A k \in Kinds, m \in Mints : <<k, m>> \in sent => m \in dedup[k]

\* The processor is handed instructions of the target programs that create tokens.
RawFits == \A i \in DOMAIN raw : raw[i].program \in TargetPrograms /\ CreatesToken(raw[i])

SeenFinite == IsFiniteSet(seen)

\* While a loop sleeps its backoff is at most two to the number of its failures;
\* waking doubles it once more.
BackoffGrows ==
    \A l \in Listeners :
       /\ link[l].fails <= events
       /\ link[l].at = "sleep" => link[l].backoff <= 2^link[l].fails
       /\ link[l].backoff <= 2^(link[l].fails + 1)

EngineInv ==
    EngineTypeOK /\ InSane /\ PendingFits /\ OutIntact /\ SentRecorded /\ SuppressedOnlyRepeats

NetTypes ==
    /\ link \in [Listeners -> Link]
    /\ backend \in {"probe", "grpc", "ws"}
    /\ seen \subseteq {x.signature : x \in Transactions} /\ Cardinality(seen) <= DedupCapacity
    /\ raw \in Seq(Instruction) /\ Len(raw) <= RawCap
    /\ events \in 0 .. MaxEvents

NetInv == NetTypes /\ RawFits /\ SeenFinite /\ BackoffGrows

DetectorInv == EngineInv /\ NetInv

----------------------------------------------------------------------------
(* Sequences                                                               *)

\* What a receiver takes from a channel and what it leaves there.
LEMMA TailElements ==
  ASSUME NEW S, NEW s \in Seq(S), s # <<>>
  PROVE  /\ Head(s) \in S /\ Head(s) = s[1] /\ 1 \in DOMAIN s
         /\ Tail(s) \in Seq(S) /\ Len(Tail(s)) = Len(s) - 1 /\ Len(s) \in Nat
         /\ \A i \in DOMAIN Tail(s) : i + 1 \in DOMAIN s /\ Tail(s)[i] = s[i + 1]
<1>1. Len(s) \in Nat /\ Len(s) > 0 /\ DOMAIN s = 1 .. Len(s)
  OBVIOUS
<1>2. Head(s) \in S /\ Head(s) = s[1] /\ 1 \in DOMAIN s
  BY <1>1
<1>3. Tail(s) \in Seq(S) /\ Len(Tail(s)) = Len(s) - 1
  BY <1>1
<1>4. \A i \in DOMAIN Tail(s) : i + 1 \in DOMAIN s /\ Tail(s)[i] = s[i + 1]
  BY <1>1, <1>3
<1>5. QED
  BY <1>1, <1>2, <1>3, <1>4

\* What a sender adds to a channel.
LEMMA AppendElements ==
  ASSUME NEW S, NEW s \in Seq(S), NEW x \in S
  PROVE  /\ Append(s, x) \in Seq(S) /\ Len(s) \in Nat
         /\ Len(Append(s, x)) = Len(s) + 1 /\ Append(s, x)[Len(s) + 1] = x
         /\ \A i \in DOMAIN Append(s, x) :
               (i \in DOMAIN s /\ Append(s, x)[i] = s[i]) \/ Append(s, x)[i] = x
  OBVIOUS

\* What a sender adds that hands over several messages.
LEMMA ConcatElements ==
  ASSUME NEW S, NEW s \in Seq(S), NEW u \in Seq(S)
  PROVE  /\ s \o u \in Seq(S) /\ Len(s \o u) = Len(s) + Len(u)
         /\ \A i \in DOMAIN (s \o u) :
               \/ i \in DOMAIN s /\ (s \o u)[i] = s[i]
               \/ i - Len(s) \in DOMAIN u /\ (s \o u)[i] = u[i - Len(s)]
<1>1. Len(s) \in Nat /\ Len(u) \in Nat /\ DOMAIN s = 1 .. Len(s) /\ DOMAIN u = 1 .. Len(u)
  OBVIOUS
<1>2. s \o u \in Seq(S) /\ Len(s \o u) = Len(s) + Len(u)
  OBVIOUS
<1>3. DOMAIN (s \o u) = 1 .. Len(s) + Len(u)
  BY <1>2
<1>4. ASSUME NEW i \in 1 .. Len(s) + Len(u)
      PROVE  \/ i \in DOMAIN s /\ (s \o u)[i] = s[i]
             \/ i - Len(s) \in DOMAIN u /\ (s \o u)[i] = u[i - Len(s)]
  BY <1>1
<1>5. QED
  BY <1>2, <1>3, <1>4

----------------------------------------------------------------------------
(* The merge engine                                                        *)

\* A report that is not a migration stays one under the merge, and the merged
\* token carries the mint of the entry. Of reports by two sources, it has
\* PumpPortal's creator if there is one, and its market cap.
LEMMA MergeFacts ==
  ASSUME NEW t, Sane(t), Kind(t) = "newborn",
         NEW i, Sane(i), Kind(i) = "newborn"
  PROVE  LET r == merge_token_data(t, i)
         IN  /\ r \in TokenInfo /\ Kind(r) = "newborn" /\ r.mint = t.mint
             /\ t.backend = "Helius" /\ i.backend = "PumpPortal" =>
                   /\ r.creator = IF i.creator # "none" THEN i.creator ELSE t.creator
                   /\ r.mcap = (i.mcap \/ t.mcap)
             /\ t.backend = "PumpPortal" /\ i.backend = "Helius" =>
                   /\ r.creator = IF t.creator # "none" THEN t.creator ELSE i.creator
                   /\ r.mcap = (t.mcap \/ i.mcap)
<1> DEFINE r == merge_token_data(t, i)
<1>1. t \in TokenInfo /\ i \in TokenInfo
  BY DEF Sane
<1>2. t.creator # Marker /\ i.creator # Marker
  BY DEF Kind
<1>3. /\ r.mint = t.mint /\ r.backend = t.backend
      /\ r.creator = IF t.creator = "none" \/ (i.backend = "PumpPortal" /\ i.creator # "none")
                     THEN i.creator ELSE t.creator
      /\ r.mcap = (t.mcap \/ (i.backend = "PumpPortal" /\ i.mcap))
      /\ r \in TokenInfo
  BY <1>1, Zenon DEF merge_token_data, TokenInfo
<1>4. Kind(r) = "newborn"
  BY <1>2, <1>3 DEF Kind
<1>5. ASSUME t.backend = "Helius", i.backend = "PumpPortal"
      PROVE  /\ r.creator = IF i.creator # "none" THEN i.creator ELSE t.creator
             /\ r.mcap = (i.mcap \/ t.mcap)
  BY <1>3, <1>5
<1>6. ASSUME t.backend = "PumpPortal", i.backend = "Helius"
      PROVE  /\ r.creator = IF t.creator # "none" THEN t.creator ELSE i.creator
             /\ r.mcap = (t.mcap \/ i.mcap)
  <2>1. i.mcap = FALSE
    BY <1>6 DEF Sane
  <2>2. QED
    BY <1>3, <1>6, <2>1
<1>7. QED
  BY <1>3, <1>4, <1>5, <1>6

\* Emitting a token of kind k: a mint that is recorded is suppressed, any other
\* is recorded and sent, or lost to a full channel.
LEMMA EmitStep ==
  ASSUME EngineInv, NEW t \in TokenInfo, NEW k \in Kinds, Kind(t) = k,
         k = "migration" => t = MigrationToken(t.mint),
         emit_token(t, k)
  PROVE  /\ out' \in Seq(TokenInfo) /\ Len(out') <= OutCap
         /\ dedup' \in [Kinds -> SUBSET Mints]
         /\ sent' \in SUBSET (Kinds \X Mints) /\ dropped' \in SUBSET (Kinds \X Mints)
         /\ OutIntact' /\ SentRecorded' /\ SuppressedOnlyRepeats'
         /\ Len(out') > Len(out) => /\ out' = Append(out, t) /\ out'[Len(out')] = t
                                    /\ <<k, t.mint>> \notin sent
<1> USE DEF EngineInv
<1>1. /\ out \in Seq(TokenInfo) /\ Len(out) <= OutCap /\ Len(out) \in Nat
      /\ dedup \in [Kinds -> SUBSET Mints]
      /\ sent \in SUBSET (Kinds \X Mints) /\ dropped \in SUBSET (Kinds \X Mints)
      /\ OutCap \in Nat /\ t.mint \in Mints
  BY MergeAssumption DEF EngineTypeOK, TokenInfo
<1>2. CASE t.mint \in dedup[k]
  <2>1. dedup' = dedup /\ out' = out /\ sent' = sent /\ dropped' = dropped
    BY <1>2 DEF emit_token
  <2>2. OutIntact' /\ SentRecorded' /\ SuppressedOnlyRepeats'
    BY <2>1 DEF OutIntact, SentRecorded, SuppressedOnlyRepeats
  <2>3. QED
    BY <1>1, <2>1, <2>2
<1>3. CASE t.mint \notin dedup[k]
  <2>1. /\ dedup' = [dedup EXCEPT ![k] = dedup[k] \cup {t.mint}]
        /\ TrySend(t)
    BY <1>3 DEF emit_token
  <2>2. /\ dedup' \in [Kinds -> SUBSET Mints]
        /\ \A j \in Kinds : dedup'[j] = IF j = k THEN dedup[k] \cup {t.mint} ELSE dedup[j]
    BY <1>1, <2>1
  <2>3. <<k, t.mint>> \notin sent
    BY <1>1, <1>3 DEF SentRecorded
  <2>4. CASE Len(out) < OutCap
    <3>1. out' = Append(out, t) /\ sent' = sent \cup {<<k, t.mint>>} /\ dropped' = dropped
      BY <1>1, <2>1, <2>4 DEF TrySend
    <3>2. /\ out' \in Seq(TokenInfo) /\ Len(out') = Len(out) + 1 /\ out'[Len(out')] = t
          /\ \A i \in DOMAIN out' : (i \in DOMAIN out /\ out'[i] = out[i]) \/ out'[i] = t
      BY <1>1, <3>1, AppendElements
    <3>3. OutIntact'
      BY <3>2 DEF OutIntact
    <3>4. SentRecorded'
      BY <1>1, <2>2, <3>1 DEF SentRecorded
    <3>5. SuppressedOnlyRepeats'
      BY <1>1, <2>2, <3>1 DEF SuppressedOnlyRepeats
    <3>6. sent' \in SUBSET (Kinds \X Mints)
      BY <1>1, <3>1
    <3>7. QED
      BY <1>1, <2>2, <2>3, <2>4, <3>1, <3>2, <3>3, <3>4, <3>5, <3>6
  <2>5. CASE Len(out) >= OutCap
    <3>1. dropped' = dropped \cup {<<k, t.mint>>} /\ out' = out /\ sent' = sent
      BY <1>1, <2>1, <2>5 DEF TrySend
    <3>2. OutIntact'
      BY <3>1 DEF OutIntact
    <3>3. SentRecorded'
      BY <1>1, <2>2, <3>1 DEF SentRecorded
    <3>4. SuppressedOnlyRepeats'
      BY <1>1, <2>2, <3>1 DEF SuppressedOnlyRepeats
    <3>5. dropped' \in SUBSET (Kinds \X Mints)
      BY <1>1, <3>1
    <3>6. QED
      BY <1>1, <2>2, <3>1, <3>2, <3>3, <3>4, <3>5
  <2>6. QED
    BY <1>1, <2>4, <2>5
<1>4. QED
  BY <1>2, <1>3

\* The end of a round keeps every entry or drops it.
LEMMA EndRoundStep ==
  ASSUME NEW p \in [Mints -> PendingToken \cup {NoEntry}], round \in 0 .. CleanupEvery - 1,
         EndRound(p)
  PROVE  /\ round' \in 0 .. CleanupEvery - 1
         /\ pending' \in [Mints -> PendingToken \cup {NoEntry}]
         /\ \A m \in Mints : pending'[m] # NoEntry => pending'[m] = p[m]
<1>1. CleanupEvery \in Nat /\ CleanupEvery > 0
  BY MergeAssumption
<1>2. round' \in 0 .. CleanupEvery - 1
  BY <1>1 DEF EndRound
<1>3. CASE round' = 0
  <2>1. pending' = [m \in Mints |-> IF p[m] # NoEntry /\ p[m].age = "old" THEN NoEntry ELSE p[m]]
    BY <1>3 DEF EndRound
  <2>2. QED
    BY <1>2, <2>1
<1>4. CASE round' # 0
  <2>1. pending' = p
    BY <1>4 DEF EndRound
  <2>2. QED
    BY <1>2, <2>1
<1>5. QED
  BY <1>3, <1>4

\* A token that reaches the analyzer's channel was not sent within the TTL.
EmitsNew ==
    Len(out') > Len(out) => LET t == out'[Len(out')] IN <<Kind(t), t.mint>> \notin sent

\* The event the engine takes.
LEMMA TakeStep ==
  ASSUME EngineInv, NEW k \in Kinds, Take(k)
  PROVE  /\ Sane(Head(in)) /\ Kind(Head(in)) = k
         /\ Head(in) \in TokenInfo /\ Head(in).mint \in Mints
         /\ in' \in Seq(TokenInfo) /\ Len(in') <= InCap /\ InSane' /\ batch = {}
<1>1. /\ in \in Seq(TokenInfo) /\ Len(in) <= InCap /\ in # <<>> /\ in' = Tail(in)
      /\ InCap \in Nat /\ Kind(Head(in)) = k /\ batch = {}
  BY MergeAssumption DEF EngineInv, EngineTypeOK, Take
<1>2. /\ Head(in) \in TokenInfo /\ Head(in) = in[1] /\ 1 \in DOMAIN in
      /\ in' \in Seq(TokenInfo) /\ Len(in') = Len(in) - 1 /\ Len(in) \in Nat
      /\ \A i \in DOMAIN in' : i + 1 \in DOMAIN in /\ in'[i] = in[i + 1]
  BY <1>1, TailElements
<1>3. Sane(Head(in)) /\ InSane'
  BY <1>2 DEF EngineInv, InSane
<1>4. Head(in).mint \in Mints
  BY <1>2 DEF TokenInfo
<1>5. QED
  BY <1>1, <1>2, <1>3, <1>4

\* A migration is emitted as it is.
LEMMA MigrationStep ==
  ASSUME EngineInv, Migration
  PROVE  EngineInv' /\ EmitsNew
<1> DEFINE t == Head(in)
<1>1. Take("migration") /\ emit_token(t, "migration") /\ "migration" \in Kinds
  BY DEF Migration, Kinds
<1>2. pending' = pending /\ batch' = batch /\ round' = round
  BY DEF Migration
<1>3. /\ Sane(t) /\ Kind(t) = "migration" /\ t \in TokenInfo
      /\ in' \in Seq(TokenInfo) /\ Len(in') <= InCap /\ InSane'
  BY <1>1, TakeStep
<1>4. t = MigrationToken(t.mint)
  BY <1>3 DEF Sane
<1> HIDE DEF t
<1>5. /\ out' \in Seq(TokenInfo) /\ Len(out') <= OutCap
      /\ dedup' \in [Kinds -> SUBSET Mints]
      /\ sent' \in SUBSET (Kinds \X Mints) /\ dropped' \in SUBSET (Kinds \X Mints)
      /\ OutIntact' /\ SentRecorded' /\ SuppressedOnlyRepeats'
      /\ Len(out') > Len(out) => out'[Len(out')] = t /\ <<"migration", t.mint>> \notin sent
  BY <1>1, <1>3, <1>4, EmitStep
<1>6. EmitsNew
  BY <1>3, <1>5 DEF EmitsNew
<1>7. EngineTypeOK'
  BY <1>2, <1>3, <1>5 DEF EngineTypeOK, EngineInv
<1>8. PendingFits'
  BY <1>2 DEF PendingFits, EngineInv
<1>9. QED
  BY <1>3, <1>5, <1>6, <1>7, <1>8 DEF EngineInv

\* A report of a mint that was emitted within the TTL is passed over.
LEMMA RepeatedStep ==
  ASSUME EngineInv, Repeated
  PROVE  EngineInv' /\ out' = out
<1>1. Take("newborn") /\ "newborn" \in Kinds
  BY DEF Repeated, Kinds
<1>2. UNCHANGED <<out, dedup, pending, batch, round, sent, dropped>>
  BY DEF Repeated
<1>3. in' \in Seq(TokenInfo) /\ Len(in') <= InCap /\ InSane'
  BY <1>1, TakeStep
<1>4. QED
  BY <1>2, <1>3 DEF EngineInv, EngineTypeOK, PendingFits, OutIntact, SentRecorded,
                    SuppressedOnlyRepeats

\* A second report is merged with the first and emitted.
LEMMA SecondSourceStep ==
  ASSUME EngineInv, SecondSource
  PROVE  /\ EngineInv' /\ EmitsNew
         /\ Len(out') > Len(out) =>
              out'[Len(out')] = merge_token_data(pending[Head(in).mint].token, Head(in))
<1> DEFINE t == Head(in)
           w == pending[t.mint].token
           r == merge_token_data(w, t)
           p == [pending EXCEPT ![t.mint] = NoEntry]
<1>1. /\ Take("newborn") /\ "newborn" \in Kinds /\ pending[t.mint] # NoEntry
      /\ emit_token(r, "newborn") /\ EndRound(p) /\ batch' = batch
  BY DEF SecondSource, Kinds
<1>2. /\ Sane(t) /\ Kind(t) = "newborn" /\ t \in TokenInfo /\ t.mint \in Mints
      /\ in' \in Seq(TokenInfo) /\ Len(in') <= InCap /\ InSane' /\ batch = {}
  BY <1>1, TakeStep
<1>3. Sane(w) /\ Kind(w) = "newborn"
  BY <1>1, <1>2 DEF EngineInv, PendingFits
<1>4. /\ pending \in [Mints -> PendingToken \cup {NoEntry}]
      /\ round \in 0 .. CleanupEvery - 1
  BY DEF EngineInv, EngineTypeOK
<1>5. /\ p \in [Mints -> PendingToken \cup {NoEntry}]
      /\ \A m \in Mints : p[m] = IF m = t.mint THEN NoEntry ELSE pending[m]
  BY <1>2, <1>4
<1>6. r \in TokenInfo /\ Kind(r) = "newborn"
  BY <1>2, <1>3, MergeFacts
<1> HIDE DEF t, w, r, p
<1>7. /\ out' \in Seq(TokenInfo) /\ Len(out') <= OutCap
      /\ dedup' \in [Kinds -> SUBSET Mints]
      /\ sent' \in SUBSET (Kinds \X Mints) /\ dropped' \in SUBSET (Kinds \X Mints)
      /\ OutIntact' /\ SentRecorded' /\ SuppressedOnlyRepeats'
      /\ Len(out') > Len(out) => out'[Len(out')] = r /\ <<"newborn", r.mint>> \notin sent
  BY <1>1, <1>6, EmitStep
<1>8. /\ round' \in 0 .. CleanupEvery - 1
      /\ pending' \in [Mints -> PendingToken \cup {NoEntry}]
      /\ \A m \in Mints : pending'[m] # NoEntry => pending'[m] = p[m]
  BY <1>1, <1>4, <1>5, EndRoundStep
<1>9. PendingFits'
  <2>1. \A m \in Mints : pending'[m] # NoEntry => pending'[m] = pending[m]
    BY <1>5, <1>8
  <2>2. batch' = {}
    BY <1>1, <1>2
  <2>3. QED
    BY <2>1, <2>2 DEF EngineInv, PendingFits
<1>10. EngineTypeOK'
  BY <1>1, <1>2, <1>7, <1>8 DEF EngineTypeOK, EngineInv
<1>11. EmitsNew
  BY <1>6, <1>7 DEF EmitsNew
<1>12. Len(out') > Len(out) => out'[Len(out')] = merge_token_data(pending[Head(in).mint].token, Head(in))
  BY <1>7 DEF r, w, t
<1>13. QED
  BY <1>2, <1>7, <1>9, <1>10, <1>11, <1>12 DEF EngineInv

\* A first report waits for its second source.
LEMMA FirstSourceStep ==
  ASSUME EngineInv, FirstSource
  PROVE  EngineInv' /\ out' = out
<1> DEFINE t == Head(in)
           e == [token |-> t, age |-> "fresh"]
           p == [pending EXCEPT ![t.mint] = e]
<1>1. Take("newborn") /\ "newborn" \in Kinds /\ EndRound(p)
  BY DEF FirstSource, Kinds
<1>2. UNCHANGED <<out, dedup, batch, sent, dropped>>
  BY DEF FirstSource
<1>3. /\ Sane(t) /\ Kind(t) = "newborn" /\ t \in TokenInfo /\ t.mint \in Mints
      /\ in' \in Seq(TokenInfo) /\ Len(in') <= InCap /\ InSane' /\ batch = {}
  BY <1>1, TakeStep
<1>4. /\ pending \in [Mints -> PendingToken \cup {NoEntry}]
      /\ round \in 0 .. CleanupEvery - 1
  BY DEF EngineInv, EngineTypeOK
<1>5. e \in PendingToken /\ e.token = t
  BY <1>3 DEF PendingToken
<1> HIDE DEF e, t
<1>6. /\ p \in [Mints -> PendingToken \cup {NoEntry}]
      /\ \A m \in Mints : p[m] = IF m = t.mint THEN e ELSE pending[m]
  BY <1>3, <1>4, <1>5
<1> HIDE DEF p
<1>7. /\ round' \in 0 .. CleanupEvery - 1
      /\ pending' \in [Mints -> PendingToken \cup {NoEntry}]
      /\ \A m \in Mints : pending'[m] # NoEntry => pending'[m] = p[m]
  BY <1>1, <1>4, <1>6, EndRoundStep
<1>8. PendingFits'
  <2>1. batch' = {}
    BY <1>2, <1>3
  <2>2. ASSUME NEW m \in Mints, pending'[m] # NoEntry
        PROVE  /\ Sane(pending'[m].token) /\ Kind(pending'[m].token) = "newborn"
               /\ pending'[m].token.mint = m
    <3>1. CASE m = t.mint
      BY <1>3, <1>5, <1>6, <1>7, <2>2, <3>1
    <3>2. CASE m # t.mint
      <4>1. pending'[m] = pending[m]
        BY <1>6, <1>7, <2>2, <3>2
      <4>2. QED
        BY <2>2, <4>1 DEF EngineInv, PendingFits
    <3>3. QED
      BY <3>1, <3>2
  <2>3. QED
    BY <2>1, <2>2 DEF PendingFits
<1>9. EngineTypeOK'
  BY <1>2, <1>3, <1>7 DEF EngineTypeOK, EngineInv
<1>10. OutIntact' /\ SentRecorded' /\ SuppressedOnlyRepeats'
  BY <1>2 DEF EngineInv, OutIntact, SentRecorded, SuppressedOnlyRepeats
<1>11. QED
  BY <1>2, <1>3, <1>8, <1>9, <1>10 DEF EngineInv

\* A round begins for the entries whose window is over.
LEMMA TimeoutStep ==
  ASSUME EngineInv, Timeout
  PROVE  EngineInv' /\ out' = out
<1> DEFINE expired == {m \in Mints : pending[m] # NoEntry /\ pending[m].age # "fresh"}
<1>1. batch' = expired /\ UNCHANGED <<in, out, dedup, pending, round, sent, dropped>>
  BY DEF Timeout
<1>2. batch' \in SUBSET Mints /\ \A m \in batch' : pending[m] # NoEntry
  BY <1>1
<1> HIDE DEF expired
<1>3. EngineTypeOK'
  BY <1>1, <1>2 DEF EngineInv, EngineTypeOK
<1>4. PendingFits'
  BY <1>1, <1>2 DEF EngineInv, PendingFits
<1>5. InSane' /\ OutIntact' /\ SentRecorded' /\ SuppressedOnlyRepeats'
  BY <1>1 DEF EngineInv, InSane, OutIntact, SentRecorded, SuppressedOnlyRepeats
<1>6. QED
  BY <1>1, <1>3, <1>4, <1>5 DEF EngineInv

\* An entry of the round is emitted; the last one ends the round.
LEMMA EmitExpiredStep ==
  ASSUME EngineInv, NEW m \in Mints, EmitExpired(m)
  PROVE  EngineInv' /\ EmitsNew
<1> DEFINE w == pending[m].token
           p == [pending EXCEPT ![m] = NoEntry]
<1>1. /\ m \in batch /\ emit_token(w, "newborn") /\ batch' = batch \ {m} /\ in' = in
      /\ IF batch' = {} THEN EndRound(p) ELSE pending' = p /\ round' = round
      /\ "newborn" \in Kinds
  BY DEF EmitExpired, Kinds
<1>2. pending[m] # NoEntry /\ Sane(w) /\ Kind(w) = "newborn" /\ w \in TokenInfo
  BY <1>1 DEF EngineInv, PendingFits, Sane
<1>3. /\ pending \in [Mints -> PendingToken \cup {NoEntry}]
      /\ round \in 0 .. CleanupEvery - 1
  BY DEF EngineInv, EngineTypeOK
<1>4. /\ p \in [Mints -> PendingToken \cup {NoEntry}]
      /\ \A j \in Mints : p[j] = IF j = m THEN NoEntry ELSE pending[j]
  BY <1>3
<1> HIDE DEF w, p
<1>5. /\ out' \in Seq(TokenInfo) /\ Len(out') <= OutCap
      /\ dedup' \in [Kinds -> SUBSET Mints]
      /\ sent' \in SUBSET (Kinds \X Mints) /\ dropped' \in SUBSET (Kinds \X Mints)
      /\ OutIntact' /\ SentRecorded' /\ SuppressedOnlyRepeats'
      /\ Len(out') > Len(out) => out'[Len(out')] = w /\ <<"newborn", w.mint>> \notin sent
  BY <1>1, <1>2, EmitStep
<1>6. /\ round' \in 0 .. CleanupEvery - 1
      /\ pending' \in [Mints -> PendingToken \cup {NoEntry}]
      /\ \A j \in Mints : pending'[j] # NoEntry => pending'[j] = pending[j]
      /\ batch' # {} => pending' = p
  <2>1. CASE batch' = {}
    <3>1. EndRound(p)
      BY <1>1, <2>1
    <3>2. QED
      BY <1>3, <1>4, <2>1, <3>1, EndRoundStep
  <2>2. CASE batch' # {}
    BY <1>1, <1>3, <1>4, <2>2
  <2>3. QED
    BY <2>1, <2>2
<1>7. PendingFits'
  <2>1. ASSUME NEW j \in batch' PROVE pending'[j] # NoEntry
    <3>1. j \in batch /\ j # m /\ j \in Mints
      BY <1>1 DEF EngineInv, EngineTypeOK
    <3>2. pending'[j] = pending[j]
      BY <1>4, <1>6, <3>1
    <3>3. QED
      BY <3>1, <3>2 DEF EngineInv, PendingFits
  <2>2. QED
    BY <1>6, <2>1 DEF EngineInv, PendingFits
<1>8. EngineTypeOK'
  BY <1>1, <1>5, <1>6 DEF EngineTypeOK, EngineInv
<1>9. EmitsNew
  BY <1>2, <1>5 DEF EmitsNew
<1>10. InSane'
  BY <1>1 DEF EngineInv, InSane
<1>11. QED
  BY <1>5, <1>7, <1>8, <1>9, <1>10 DEF EngineInv

\* A sane report is handed to the engine.
LEMMA ArriveStep ==
  ASSUME EngineInv, NEW t, Sane(t), Arrive(t)
  PROVE  EngineInv' /\ out' = out
<1>1. /\ Len(in) < InCap /\ in' = Append(in, t)
      /\ UNCHANGED <<out, dedup, pending, batch, round, sent, dropped>>
  BY DEF Arrive
<1>2. in \in Seq(TokenInfo) /\ t \in TokenInfo /\ InCap \in Nat
  BY MergeAssumption DEF EngineInv, EngineTypeOK, Sane
<1>3. /\ in' \in Seq(TokenInfo) /\ Len(in') <= InCap
      /\ \A i \in DOMAIN in' : (i \in DOMAIN in /\ in'[i] = in[i]) \/ in'[i] = t
  BY <1>1, <1>2, AppendElements
<1>4. InSane'
  BY <1>3 DEF EngineInv, InSane
<1>5. EngineTypeOK'
  BY <1>1, <1>3 DEF EngineInv, EngineTypeOK
<1>6. PendingFits' /\ OutIntact' /\ SentRecorded' /\ SuppressedOnlyRepeats'
  BY <1>1 DEF EngineInv, PendingFits, OutIntact, SentRecorded, SuppressedOnlyRepeats
<1>7. QED
  BY <1>1, <1>4, <1>5, <1>6 DEF EngineInv

\* The analyzer takes a token.
LEMMA AnalyzeStep ==
  ASSUME EngineInv, Analyze
  PROVE  EngineInv' /\ Len(out') <= Len(out)
<1>1. out # <<>> /\ out' = Tail(out) /\ UNCHANGED <<in, dedup, pending, batch, round, sent, dropped>>
  BY DEF Analyze
<1>2. out \in Seq(TokenInfo) /\ Len(out) <= OutCap /\ OutCap \in Nat
  BY MergeAssumption DEF EngineInv, EngineTypeOK
<1>3. /\ out' \in Seq(TokenInfo) /\ Len(out') = Len(out) - 1 /\ Len(out) \in Nat
      /\ \A i \in DOMAIN out' : i + 1 \in DOMAIN out /\ out'[i] = out[i + 1]
  BY <1>1, <1>2, TailElements
<1>4. OutIntact'
  BY <1>3 DEF EngineInv, OutIntact
<1>5. EngineTypeOK'
  BY <1>1, <1>2, <1>3 DEF EngineInv, EngineTypeOK
<1>6. InSane' /\ PendingFits' /\ SentRecorded' /\ SuppressedOnlyRepeats'
  BY <1>1 DEF EngineInv, InSane, PendingFits, SentRecorded, SuppressedOnlyRepeats
<1>7. QED
  BY <1>3, <1>4, <1>5, <1>6 DEF EngineInv

\* An entry grows older.
LEMMA AgeStep ==
  ASSUME EngineInv, NEW m \in Mints, Age(m)
  PROVE  EngineInv' /\ out' = out
<1> DEFINE a == IF pending[m].age = "fresh" THEN "expired" ELSE "old"
           e == [pending[m] EXCEPT !.age = a]
<1>1. /\ pending[m] # NoEntry /\ pending' = [pending EXCEPT ![m] = e]
      /\ UNCHANGED <<in, out, dedup, batch, round, sent, dropped>>
  BY DEF Age
<1>2. pending \in [Mints -> PendingToken \cup {NoEntry}] /\ batch \in SUBSET Mints
  BY DEF EngineInv, EngineTypeOK
<1>3. pending[m] \in PendingToken
  BY <1>1, <1>2
<1>4. e \in PendingToken /\ e.token = pending[m].token
  BY <1>3 DEF PendingToken
<1>5. e # NoEntry
  BY <1>4, MergeAssumption
<1> HIDE DEF e
<1>6. /\ pending' \in [Mints -> PendingToken \cup {NoEntry}]
      /\ \A j \in Mints : pending'[j] = IF j = m THEN e ELSE pending[j]
  BY <1>1, <1>2, <1>4
<1>7. PendingFits'
  <2>1. \A j \in batch' : pending'[j] # NoEntry
    BY <1>1, <1>2, <1>5, <1>6 DEF EngineInv, PendingFits
  <2>2. ASSUME NEW j \in Mints, pending'[j] # NoEntry
        PROVE  pending[j] # NoEntry /\ pending'[j].token = pending[j].token
    BY <1>1, <1>4, <1>6, <2>2
  <2>3. QED
    BY <2>1, <2>2 DEF EngineInv, PendingFits
<1>8. EngineTypeOK'
  BY <1>1, <1>6 DEF EngineInv, EngineTypeOK
<1>9. InSane' /\ OutIntact' /\ SentRecorded' /\ SuppressedOnlyRepeats'
  BY <1>1 DEF EngineInv, InSane, OutIntact, SentRecorded, SuppressedOnlyRepeats
<1>10. QED
  BY <1>1, <1>7, <1>8, <1>9 DEF EngineInv

\* The TTL of a mint runs out: record and history forget it together.
LEMMA ExpireStep ==
  ASSUME EngineInv, NEW k \in Kinds, NEW m \in Mints, EntryExpires(k, m)
  PROVE  EngineInv' /\ out' = out
<1>1. /\ dedup' = [dedup EXCEPT ![k] = dedup[k] \ {m}]
      /\ sent' = sent \ {<<k, m>>} /\ dropped' = dropped \ {<<k, m>>}
      /\ UNCHANGED <<in, out, pending, batch, round>>
  BY DEF EntryExpires
<1>2. /\ dedup \in [Kinds -> SUBSET Mints]
      /\ sent \in SUBSET (Kinds \X Mints) /\ dropped \in SUBSET (Kinds \X Mints)
  BY DEF EngineInv, EngineTypeOK
<1>3. /\ dedup' \in [Kinds -> SUBSET Mints]
      /\ \A j \in Kinds : dedup'[j] = IF j = k THEN dedup[k] \ {m} ELSE dedup[j]
  BY <1>1, <1>2
<1>4. sent' \in SUBSET (Kinds \X Mints) /\ dropped' \in SUBSET (Kinds \X Mints)
  BY <1>1, <1>2
<1>5. EngineTypeOK'
  BY <1>1, <1>3, <1>4 DEF EngineInv, EngineTypeOK
<1>6. SentRecorded'
  BY <1>1, <1>2, <1>3 DEF EngineInv, SentRecorded
<1>7. SuppressedOnlyRepeats'
  <2>1. ASSUME NEW j \in Kinds, NEW n \in dedup'[j] PROVE <<j, n>> \in sent' \cup dropped'
    <3>1. n \in dedup[j] /\ <<j, n>> # <<k, m>>
      BY <1>3
    <3>2. <<j, n>> \in sent \cup dropped
      BY <3>1 DEF EngineInv, SuppressedOnlyRepeats
    <3>3. QED
      BY <1>1, <3>1, <3>2
  <2>2. QED
    BY <2>1 DEF SuppressedOnlyRepeats
<1>8. InSane' /\ PendingFits' /\ OutIntact'
  BY <1>1 DEF EngineInv, InSane, PendingFits, OutIntact
<1>9. QED
  BY <1>1, <1>5, <1>6, <1>7, <1>8 DEF EngineInv

\* One step of the engine's loop.
LEMMA EngineStepKeeps ==
  ASSUME EngineInv, EngineStep
  PROVE  EngineInv' /\ EmitsNew
<1>1. Len(out) \in Nat
  BY DEF EngineInv, EngineTypeOK
<1>2. ASSUME out' = out PROVE EmitsNew
  BY <1>1, <1>2 DEF EmitsNew
<1>3. CASE Migration
  BY <1>3, MigrationStep
<1>4. CASE Repeated
  BY <1>2, <1>4, RepeatedStep
<1>5. CASE SecondSource
  BY <1>5, SecondSourceStep
<1>6. CASE FirstSource
  BY <1>2, <1>6, FirstSourceStep
<1>7. CASE Timeout
  BY <1>2, <1>7, TimeoutStep
<1>8. CASE \E m \in Mints : EmitExpired(m)
  BY <1>8, EmitExpiredStep
<1>9. QED
  BY <1>3, <1>4, <1>5, <1>6, <1>7, <1>8 DEF EngineStep

----------------------------------------------------------------------------
(* The parsers                                                             *)

\* The instructions the processor can turn into tokens.
Fitting == {ix \in Instruction : ix.program \in TargetPrograms /\ CreatesToken(ix)}

\* Only such instructions are kept of a transaction. The loop over its
\* instructions is a recursive function: it exists on every prefix, as a least
\* prefix on which it does not exist would extend the one before it.
LEMMA ExtractFits ==
  ASSUME NEW x \in Transactions
  PROVE  extract_raw_transactions(x) \in Seq(Fitting)
<1> DEFINE ixs == x.instructions
           N == Len(ixs)
           Good(m) == \E f : f = [i \in 0 .. m |->
                         IF i = 0 THEN <<>>
                         ELSE IF ixs[i].program \in TargetPrograms THEN Append(f[i - 1], ixs[i])
                         ELSE f[i - 1]]
           kept == CHOOSE f : f = [i \in 0 .. N |->
                         IF i = 0 THEN <<>>
                         ELSE IF ixs[i].program \in TargetPrograms THEN Append(f[i - 1], ixs[i])
                         ELSE f[i - 1]]
<1>1. ixs \in Seq(Instruction) /\ \A i \in DOMAIN ixs : CreatesToken(ixs[i])
  BY DetectorAssumption
<1>2. N \in Nat /\ DOMAIN ixs = 1 .. N
  BY <1>1
<1>3. \A i \in 1 .. N : ixs[i].program \in TargetPrograms => ixs[i] \in Fitting
  BY <1>1, <1>2 DEF Fitting
<1>4. extract_raw_transactions(x) = kept[N]
  BY DEF extract_raw_transactions
<1> HIDE DEF ixs, N
<1>5. \A m \in Nat : Good(m)
  <2> SUFFICES ASSUME \E m \in Nat : ~Good(m) PROVE FALSE
    OBVIOUS
  <2> DEFINE S == {m \in Nat : ~Good(m)}
  <2>1. S \subseteq Nat /\ S # {}
    OBVIOUS
  <2> HIDE DEF S
  <2>2. PICK m \in S : \A y \in S : m <= y
    BY <2>1, LeastNumber
  <2>3. m \in Nat /\ ~Good(m)
    BY DEF S
  <2>4. CASE m = 0
    <3> DEFINE f0 == [i \in 0 .. 0 |-> <<>>]
    <3>1. f0 = [i \in 0 .. 0 |->
                  IF i = 0 THEN <<>>
                  ELSE IF ixs[i].program \in TargetPrograms THEN Append(f0[i - 1], ixs[i])
                  ELSE f0[i - 1]]
      OBVIOUS
    <3>2. QED
      BY <2>3, <2>4, <3>1
  <2>5. CASE m > 0
    <3>1. m - 1 \in Nat /\ Good(m - 1)
      <4>1. m - 1 \in Nat /\ ~(m <= m - 1)
        BY <2>3, <2>5
      <4>2. m - 1 \notin S
        BY <2>2, <4>1
      <4>3. \A y \in Nat : y \notin S => Good(y)
        BY Zenon DEF S
      <4> HIDE DEF Good
      <4>4. QED
        BY <4>1, <4>2, <4>3
    <3>2. PICK f : f = [i \in 0 .. m - 1 |->
                  IF i = 0 THEN <<>>
                  ELSE IF ixs[i].program \in TargetPrograms THEN Append(f[i - 1], ixs[i])
                  ELSE f[i - 1]]
      BY <3>1
    <3> DEFINE g == [i \in 0 .. m |->
                  IF i < m THEN f[i]
                  ELSE IF ixs[m].program \in TargetPrograms THEN Append(f[m - 1], ixs[m])
                  ELSE f[m - 1]]
               h == [i \in 0 .. m |->
                  IF i = 0 THEN <<>>
                  ELSE IF ixs[i].program \in TargetPrograms THEN Append(g[i - 1], ixs[i])
                  ELSE g[i - 1]]
    <3>3. ASSUME NEW i \in 0 .. m PROVE g[i] = h[i]
      <4>1. CASE i < m
        <5>1. i \in 0 .. m - 1 /\ g[i] = f[i]
          BY <2>3, <3>3, <4>1
        <5>2. i > 0 => i - 1 \in 0 .. m /\ i - 1 < m /\ g[i - 1] = f[i - 1]
          BY <2>3, <3>3, <4>1
        <5>3. f[i] = IF i = 0 THEN <<>>
                     ELSE IF ixs[i].program \in TargetPrograms THEN Append(f[i - 1], ixs[i])
                     ELSE f[i - 1]
          BY <3>2, <5>1
        <5> HIDE DEF g
        <5>4. QED
          BY <5>1, <5>2, <5>3
      <4>2. CASE i = m
        <5>1. i # 0 /\ m - 1 \in 0 .. m /\ m - 1 < m
          BY <2>3, <2>5, <4>2
        <5>2. g[m - 1] = f[m - 1]
          BY <5>1
        <5>3. g[i] = IF ixs[m].program \in TargetPrograms THEN Append(f[m - 1], ixs[m]) ELSE f[m - 1]
          BY <2>3, <4>2
        <5> HIDE DEF g
        <5>4. QED
          BY <4>2, <5>1, <5>2, <5>3
      <4>3. QED
        BY <2>3, <4>1, <4>2
    <3>4. g = h
      <4>1. g = [i \in 0 .. m |-> g[i]] /\ h = [i \in 0 .. m |-> h[i]]
        OBVIOUS
      <4> HIDE DEF g, h
      <4>2. QED
        BY <3>3, <4>1
    <3> HIDE DEF g
    <3>5. Good(m)
      BY <3>4
    <3>6. QED
      BY <2>3, <3>5
  <2>6. QED
    BY <2>3, <2>4, <2>5
<1>6. kept = [i \in 0 .. N |->
                 IF i = 0 THEN <<>>
                 ELSE IF ixs[i].program \in TargetPrograms THEN Append(kept[i - 1], ixs[i])
                 ELSE kept[i - 1]]
  <2>1. Good(N)
    BY <1>2, <1>5
  <2>2. QED
    BY <2>1
<1> HIDE DEF kept
<1>7. \A i \in 0 .. N : kept[i] \in Seq(Fitting)
  <2> SUFFICES ASSUME \E i \in 0 .. N : kept[i] \notin Seq(Fitting) PROVE FALSE
    OBVIOUS
  <2> DEFINE S == {i \in 0 .. N : kept[i] \notin Seq(Fitting)}
  <2>1. S \subseteq Nat /\ S # {}
    BY <1>2
  <2> HIDE DEF S
  <2>2. PICK m \in S : \A y \in S : m <= y
    BY <2>1, LeastNumber
  <2>3. m \in 0 .. N /\ kept[m] \notin Seq(Fitting)
    BY DEF S
  <2>4. kept[m] = IF m = 0 THEN <<>>
                  ELSE IF ixs[m].program \in TargetPrograms THEN Append(kept[m - 1], ixs[m])
                  ELSE kept[m - 1]
    BY <1>6, <2>3
  <2>5. m # 0
    BY <2>3, <2>4
  <2>6. m - 1 \in 0 .. N /\ m \in 1 .. N /\ ~(m <= m - 1)
    BY <1>2, <2>3, <2>5
  <2>7. kept[m - 1] \in Seq(Fitting)
    BY <2>2, <2>6 DEF S
  <2>8. QED
    BY <1>3, <2>3, <2>4, <2>5, <2>6, <2>7
<1>8. QED
  BY <1>2, <1>4, <1>7

\* The parsers make a sane report of such an instruction, or none: of the two
\* mints of a pool, the token's is found on either side.
LEMMA TokenOfFits ==
  ASSUME NEW ix \in Fitting
  PROVE  TokenOf(ix) = NoEntry \/ Sane(TokenOf(ix))
<1>1. /\ ix \in Instruction /\ CreatesToken(ix)
      /\ ix.program \in {"PumpFun", "RaydiumAmm", "RaydiumCpmm", "PumpSwap"}
  BY DEF Fitting, TargetPrograms
<1>2. ix.first \in Mints \cup {Wsol} /\ ix.second \in Mints \cup {Wsol}
  BY <1>1 DEF Instruction
<1>3. ASSUME NEW m \in Mints PROVE Sane(NewToken(m))
  BY DEF Sane, NewToken, TokenInfo, Kind, Marker
<1>4. CASE ~ix.fits
  BY <1>1, <1>4 DEF TokenOf, process_pumpfun_transaction, process_raydium_transaction,
                    process_pumpswap_transaction
<1>5. CASE ix.fits /\ ix.program = "PumpFun"
  <2>1. ix.first \in Mints
    BY <1>1, <1>5 DEF CreatesToken
  <2>2. TokenOf(ix) = NewToken(ix.first)
    BY <1>5 DEF TokenOf, process_pumpfun_transaction
  <2>3. QED
    BY <1>3, <2>1, <2>2
<1>6. CASE ix.fits /\ ix.program # "PumpFun"
  <2>1. PoolToken(ix) \in Mints
    <3>1. CASE ix.first = Wsol
      BY <1>1, <1>6, <3>1, DetectorAssumption DEF CreatesToken, PoolToken
    <3>2. CASE ix.first # Wsol
      BY <1>2, <3>2 DEF PoolToken
    <3>3. QED
      BY <3>1, <3>2
  <2>2. TokenOf(ix) = NewToken(PoolToken(ix))
    BY <1>1, <1>6 DEF TokenOf, process_raydium_transaction, process_pumpswap_transaction
  <2>3. QED
    BY <1>3, <2>1, <2>2
<1>7. QED
  BY <1>4, <1>5, <1>6

----------------------------------------------------------------------------
(* The listeners                                                           *)

\* The record of signatures never outgrows its capacity: what one more
\* transaction adds is removed with the half that goes.
LEMMA RememberFits ==
  ASSUME NetInv, NEW s, NEW next \in Remember(s)
  PROVE  IsFiniteSet(next) /\ Cardinality(next) <= DedupCapacity /\ next \subseteq seen \cup {s}
<1> DEFINE all == seen \cup {s}
           D == DedupCapacity
<1>1. D \in Nat /\ D > 1
  BY DetectorAssumption
<1>2. IsFiniteSet(seen) /\ Cardinality(seen) <= D /\ Cardinality(seen) \in Nat
  BY FS_CardinalityType DEF NetInv, NetTypes, SeenFinite
<1>3. IsFiniteSet(all) /\ Cardinality(all) <= D + 1 /\ Cardinality(all) \in Nat
  <2>1. IsFiniteSet(all) /\ Cardinality(all) = IF s \in seen THEN Cardinality(seen) ELSE Cardinality(seen) + 1
    BY <1>2, FS_AddElement
  <2>2. QED
    BY <1>1, <1>2, <2>1
<1>4. CASE Cardinality(all) <= D
  <2>1. next = all
    BY <1>4 DEF Remember
  <2>2. QED
    BY <1>3, <1>4, <2>1
<1>5. CASE ~(Cardinality(all) <= D)
  <2>1. PICK gone \in SUBSET all : Cardinality(gone) = D \div 2 /\ next = all \ gone
    BY <1>5 DEF Remember
  <2> HIDE DEF all, D
  <2>2. D \div 2 \in Nat /\ D \div 2 >= 1
    BY <1>1
  <2>3. all \cap gone = gone
    BY <2>1
  <2>4. IsFiniteSet(all \ gone) /\ Cardinality(all \ gone) = Cardinality(all) - Cardinality(all \cap gone)
    BY <1>3, FS_Difference
  <2>5. Cardinality(next) = Cardinality(all) - D \div 2
    BY <2>1, <2>3, <2>4
  <2>6. Cardinality(next) <= D
    BY <1>1, <1>3, <2>2, <2>5
  <2>7. QED
    BY <2>1, <2>4, <2>6 DEF all, D
<1>6. QED
  BY <1>4, <1>5

\* What a reconnect loop may do to its own link, and when.
LEMMA LinkStep ==
  ASSUME NetInv, NEW l \in Listeners, NEW q \in Link, link' = [link EXCEPT ![l] = q],
         events' \in 0 .. MaxEvents, events' >= events,
         q.fails <= events',
         q.at = "sleep" => q.backoff <= 2^q.fails,
         q.backoff <= 2^(q.fails + 1)
  PROVE  link' \in [Listeners -> Link] /\ BackoffGrows'
<1>1. link \in [Listeners -> Link] /\ events \in 0 .. MaxEvents /\ MaxEvents \in Nat
  BY DetectorAssumption DEF NetInv, NetTypes
<1>2. \A j \in Listeners : link'[j] = IF j = l THEN q ELSE link[j]
  BY <1>1
<1>3. \A j \in Listeners : link[j].fails \in 0 .. MaxEvents
  BY <1>1 DEF Link
<1>4. ASSUME NEW j \in Listeners
      PROVE  /\ link'[j].fails <= events'
             /\ link'[j].at = "sleep" => link'[j].backoff <= 2^link'[j].fails
             /\ link'[j].backoff <= 2^(link'[j].fails + 1)
  <2>1. CASE j = l
    BY <1>2, <2>1
  <2>2. CASE j # l
    <3>1. link'[j] = link[j]
      BY <1>2, <2>2
    <3>2. link[j].fails <= events'
      BY <1>1, <1>3 DEF NetInv, BackoffGrows
    <3>3. QED
      BY <3>1, <3>2 DEF NetInv, BackoffGrows
  <2>3. QED
    BY <2>1, <2>2
<1>5. QED
  BY <1>1, <1>4 DEF BackoffGrows

\* The link of a listener, with the bounds the invariant gives it.
LEMMA LinkFacts ==
  ASSUME NetInv, NEW l \in Listeners
  PROVE  /\ link[l] \in Link /\ link[l].fails \in Nat /\ link[l].backoff \in Nat
         /\ link[l].backoff >= 1 /\ link[l].backoff <= MaxBackoff
         /\ link[l].fails <= events /\ events \in 0 .. MaxEvents
         /\ link[l].at = "sleep" => link[l].backoff <= 2^link[l].fails
         /\ link[l].backoff <= 2^(link[l].fails + 1)
         /\ MaxBackoff \in Nat /\ MaxBackoff >= 1 /\ MaxEvents \in Nat
<1>1. link[l] \in Link /\ events \in 0 .. MaxEvents
  BY DEF NetInv, NetTypes
<1>2. MaxBackoff \in Nat /\ MaxBackoff >= 1 /\ MaxEvents \in Nat
  BY DetectorAssumption
<1>3. /\ link[l].fails <= events
      /\ link[l].at = "sleep" => link[l].backoff <= 2^link[l].fails
      /\ link[l].backoff <= 2^(link[l].fails + 1)
  BY DEF NetInv, BackoffGrows
<1>4. link[l].fails \in Nat /\ link[l].backoff \in 1 .. MaxBackoff
  BY <1>1, <1>2 DEF Link
<1>5. QED
  BY <1>1, <1>2, <1>3, <1>4

\* A listener connects.
LEMMA ConnectedStep ==
  ASSUME NetInv, NEW l \in Listeners, Connected(l)
  PROVE  NetInv'
<1> DEFINE q == [link[l] EXCEPT !.at = "open"]
<1>1. /\ link' = [link EXCEPT ![l] = q] /\ seen' = (IF l = "Helius" THEN {} ELSE seen)
      /\ UNCHANGED <<vars, backend, raw, events>>
  BY DEF Connected
<1>2. link[l] \in Link
  BY LinkFacts
<1>3. q \in Link /\ q.at = "open" /\ q.backoff = link[l].backoff /\ q.fails = link[l].fails
  BY <1>2 DEF Link
<1> HIDE DEF q
<1>4. link' \in [Listeners -> Link] /\ BackoffGrows'
  <2>1. link[l].fails <= events /\ events \in 0 .. MaxEvents /\ link[l].backoff <= 2^(link[l].fails + 1)
    BY LinkFacts
  <2>2. events' \in 0 .. MaxEvents /\ events' >= events /\ q.fails <= events'
    BY <1>1, <1>3, <2>1
  <2>3. q.at # "sleep" /\ q.backoff <= 2^(q.fails + 1)
    BY <1>3, <2>1
  <2>4. QED
    BY <1>1, <1>3, <2>2, <2>3, LinkStep
<1>5. /\ IsFiniteSet(seen') /\ Cardinality(seen') <= DedupCapacity
      /\ seen' \subseteq {x.signature : x \in Transactions}
  <2>1. DedupCapacity \in Nat
    BY DetectorAssumption
  <2>2. QED
    BY <1>1, <2>1, FS_EmptySet DEF NetInv, NetTypes, SeenFinite
<1>6. NetTypes'
  BY <1>1, <1>4, <1>5 DEF NetInv, NetTypes
<1>7. RawFits'
  BY <1>1 DEF NetInv, RawFits
<1>8. QED
  BY <1>4, <1>5, <1>6, <1>7 DEF NetInv, SeenFinite

\* The facts about a step that touches only the links and counts events.
LEMMA LinksOnly ==
  ASSUME NetInv, link' \in [Listeners -> Link], BackoffGrows', events' \in 0 .. MaxEvents,
         backend' \in {"probe", "grpc", "ws"}, seen' = seen, raw' = raw
  PROVE  NetInv'
  BY DEF NetInv, NetTypes, RawFits, SeenFinite

\* A connection fails: one failure more, and the loop sleeps.
LEMMA ConnectFailsStep ==
  ASSUME NetInv, NEW l \in Listeners, ConnectFails(l)
  PROVE  NetInv'
<1> DEFINE q == [link[l] EXCEPT !.at = "sleep", !.fails = @ + 1]
<1>1. /\ events < MaxEvents /\ events' = events + 1 /\ link' = [link EXCEPT ![l] = q]
      /\ UNCHANGED <<vars, backend, seen, raw>>
  BY DEF ConnectFails, Event
<1>2. /\ link[l] \in Link /\ link[l].fails \in Nat /\ link[l].fails <= events
      /\ events \in 0 .. MaxEvents /\ MaxEvents \in Nat
      /\ link[l].backoff <= 2^(link[l].fails + 1) /\ link[l].backoff \in Nat
  BY LinkFacts
<1>3. link[l].fails + 1 \in 0 .. MaxEvents
  BY <1>1, <1>2
<1>4. q \in Link /\ q.at = "sleep" /\ q.backoff = link[l].backoff /\ q.fails = link[l].fails + 1
  BY <1>2, <1>3 DEF Link
<1> HIDE DEF q
<1>5. q.backoff <= 2^q.fails /\ q.backoff <= 2^(q.fails + 1)
  <2> DEFINE n == link[l].fails + 1
  <2>1. n \in Nat
    BY <1>2
  <2>2. 2^n \in Nat /\ 2^(n + 1) = 2 * 2^n
    BY <2>1, PowerDoubles
  <2>3. q.backoff <= 2^n /\ q.backoff \in Nat /\ q.fails = n
    BY <1>2, <1>4
  <2> HIDE DEF n
  <2>4. q.backoff <= 2^(n + 1)
    BY <2>2, <2>3
  <2>5. QED
    BY <2>3, <2>4
<1>6. events' \in 0 .. MaxEvents /\ events' >= events /\ q.fails <= events'
  BY <1>1, <1>2, <1>4
<1>7. link' \in [Listeners -> Link] /\ BackoffGrows'
  BY <1>1, <1>4, <1>5, <1>6, LinkStep
<1>8. backend' \in {"probe", "grpc", "ws"} /\ seen' = seen /\ raw' = raw
  BY <1>1 DEF NetInv, NetTypes
<1>9. QED
  BY <1>6, <1>7, <1>8, LinksOnly

\* A stream ends: the backoff and the failures start over.
LEMMA StreamEndsStep ==
  ASSUME NetInv, NEW l \in Listeners, StreamEnds(l)
  PROVE  NetInv'
<1> DEFINE q == [at |-> "sleep", backoff |-> 1, fails |-> 0]
<1>1. /\ events < MaxEvents /\ events' = events + 1 /\ link' = [link EXCEPT ![l] = q]
      /\ UNCHANGED <<vars, backend, seen, raw>>
  BY DEF StreamEnds, Event
<1>2. events \in 0 .. MaxEvents /\ MaxEvents \in Nat /\ MaxBackoff \in Nat /\ MaxBackoff >= 1
  BY LinkFacts
<1>3. q \in Link /\ q.at = "sleep" /\ q.backoff = 1 /\ q.fails = 0
  BY <1>2 DEF Link
<1>4. 2^0 \in Nat /\ 2^0 >= 1 /\ 2^(0 + 1) = 2 * 2^0
  BY PowerDoubles
<1> HIDE DEF q
<1>5. q.backoff <= 2^q.fails /\ q.backoff <= 2^(q.fails + 1)
  BY <1>3, <1>4
<1>6. events' \in 0 .. MaxEvents /\ events' >= events /\ q.fails <= events'
  BY <1>1, <1>2, <1>3
<1>7. link' \in [Listeners -> Link] /\ BackoffGrows'
  BY <1>1, <1>3, <1>5, <1>6, LinkStep
<1>8. backend' \in {"probe", "grpc", "ws"} /\ seen' = seen /\ raw' = raw
  BY <1>1 DEF NetInv, NetTypes
<1>9. QED
  BY <1>6, <1>7, <1>8, LinksOnly

\* The probe ends: the loop of the backend it chose starts at once.
LEMMA ProbeEndsStep ==
  ASSUME NetInv, ProbeEnds
  PROVE  NetInv'
<1> DEFINE q == [link["Helius"] EXCEPT !.at = "connect"]
<1>1. /\ events < MaxEvents /\ events' = events + 1 /\ link' = [link EXCEPT !["Helius"] = q]
      /\ backend' \in {"grpc", "ws"} /\ UNCHANGED <<vars, seen, raw>>
  BY DEF ProbeEnds, Event
<1>2. "Helius" \in Listeners
  BY DEF Listeners
<1>3. /\ link["Helius"] \in Link /\ link["Helius"].fails <= events /\ link["Helius"].fails \in Nat
      /\ link["Helius"].backoff <= 2^(link["Helius"].fails + 1)
      /\ events \in 0 .. MaxEvents /\ MaxEvents \in Nat
  BY <1>2, LinkFacts
<1>4. /\ q \in Link /\ q.at = "connect" /\ q.backoff = link["Helius"].backoff
      /\ q.fails = link["Helius"].fails
  BY <1>3 DEF Link
<1> HIDE DEF q
<1>5. events' \in 0 .. MaxEvents /\ events' >= events /\ q.fails <= events'
  BY <1>1, <1>3, <1>4
<1>6. link' \in [Listeners -> Link] /\ BackoffGrows'
  BY <1>1, <1>2, <1>3, <1>4, <1>5, LinkStep
<1>7. QED
  BY <1>1, <1>5, <1>6, LinksOnly

\* A loop wakes with twice the backoff it slept for, up to the maximum.
LEMMA WakeStep ==
  ASSUME NetInv, NEW l \in Listeners, Wake(l)
  PROVE  NetInv'
<1> DEFINE b == IF 2 * link[l].backoff < MaxBackoff THEN 2 * link[l].backoff ELSE MaxBackoff
           q == [link[l] EXCEPT !.at = "connect", !.backoff = b]
<1>1. /\ link[l].at = "sleep" /\ link' = [link EXCEPT ![l] = q]
      /\ UNCHANGED <<vars, backend, seen, raw, events>>
  BY DEF Wake
<1>2. /\ link[l] \in Link /\ link[l].fails \in Nat /\ link[l].backoff \in Nat
      /\ link[l].backoff >= 1 /\ link[l].fails <= events /\ events \in 0 .. MaxEvents
      /\ link[l].backoff <= 2^link[l].fails
      /\ MaxBackoff \in Nat /\ MaxBackoff >= 1 /\ MaxEvents \in Nat
  BY <1>1, LinkFacts
<1>3. b \in 1 .. MaxBackoff /\ b <= 2 * link[l].backoff
  BY <1>2
<1> HIDE DEF b
<1>4. q \in Link /\ q.at = "connect" /\ q.backoff = b /\ q.fails = link[l].fails
  BY <1>2, <1>3 DEF Link
<1> HIDE DEF q
<1>5. q.backoff <= 2^(q.fails + 1)
  <2> DEFINE n == link[l].fails
  <2>1. n \in Nat /\ link[l].backoff <= 2^n
    BY <1>2
  <2>2. 2^n \in Nat /\ 2^(n + 1) = 2 * 2^n
    BY <2>1, PowerDoubles
  <2> HIDE DEF n
  <2>3. b <= 2 * 2^n
    BY <1>2, <1>3, <2>1, <2>2
  <2>4. QED
    BY <1>4, <2>2, <2>3 DEF n
<1>6. link' \in [Listeners -> Link] /\ BackoffGrows'
  <2>1. events' \in 0 .. MaxEvents /\ events' >= events /\ q.fails <= events' /\ q.at # "sleep"
    BY <1>1, <1>2, <1>4
  <2>2. QED
    BY <1>1, <1>4, <1>5, <2>1, LinkStep
<1>7. events' \in 0 .. MaxEvents /\ backend' \in {"probe", "grpc", "ws"} /\ seen' = seen /\ raw' = raw
  BY <1>1, <1>2 DEF NetInv, NetTypes
<1>8. QED
  BY <1>6, <1>7, LinksOnly

\* The kept instructions of a transaction are handed to the processor.
LEMMA ForwardStep ==
  ASSUME NetInv, NEW x \in Transactions, Forward(x)
  PROVE  raw' \in Seq(Instruction) /\ Len(raw') <= RawCap /\ RawFits'
<1> DEFINE ixs == extract_raw_transactions(x)
<1>1. Len(raw) + Len(ixs) <= RawCap /\ raw' = raw \o ixs
  BY DEF Forward
<1>2. ixs \in Seq(Fitting)
  BY ExtractFits
<1>3. Fitting \subseteq Instruction
  BY DEF Fitting
<1> HIDE DEF ixs
<1>4. ixs \in Seq(Instruction) /\ \A i \in DOMAIN ixs : ixs[i] \in Fitting
  BY <1>2, <1>3
<1>5. raw \in Seq(Instruction)
  BY DEF NetInv, NetTypes
<1>6. /\ raw' \in Seq(Instruction) /\ Len(raw') = Len(raw) + Len(ixs)
      /\ \A i \in DOMAIN raw' : \/ i \in DOMAIN raw /\ raw'[i] = raw[i]
                                \/ i - Len(raw) \in DOMAIN ixs /\ raw'[i] = ixs[i - Len(raw)]
  BY <1>1, <1>4, <1>5, ConcatElements
<1>7. RawFits'
  <2>1. ASSUME NEW i \in DOMAIN raw' PROVE raw'[i].program \in TargetPrograms /\ CreatesToken(raw'[i])
    <3>1. CASE i \in DOMAIN raw /\ raw'[i] = raw[i]
      BY <3>1 DEF NetInv, RawFits
    <3>2. CASE i - Len(raw) \in DOMAIN ixs /\ raw'[i] = ixs[i - Len(raw)]
      <4>1. raw'[i] \in Fitting
        BY <1>4, <3>2
      <4>2. QED
        BY <4>1 DEF Fitting
    <3>3. QED
      BY <1>6, <3>1, <3>2
  <2>2. QED
    BY <2>1 DEF RawFits
<1>8. QED
  BY <1>1, <1>6, <1>7

\* An event leaves the links' bounds as they are.
LEMMA EventStep ==
  ASSUME NetInv, Event, link' = link
  PROVE  link' \in [Listeners -> Link] /\ BackoffGrows' /\ events' \in 0 .. MaxEvents
<1>1. events < MaxEvents /\ events' = events + 1
  BY DEF Event
<1>2. events \in 0 .. MaxEvents /\ MaxEvents \in Nat /\ link \in [Listeners -> Link]
  BY DetectorAssumption DEF NetInv, NetTypes
<1>3. events' \in 0 .. MaxEvents /\ events <= events'
  BY <1>1, <1>2
<1>4. ASSUME NEW l \in Listeners PROVE link[l].fails <= events'
  <2>1. link[l].fails <= events /\ link[l].fails \in Nat
    BY LinkFacts
  <2>2. QED
    BY <1>1, <1>2, <2>1
<1>5. BackoffGrows'
  BY <1>4 DEF NetInv, BackoffGrows
<1>6. QED
  BY <1>2, <1>3, <1>5

\* A transaction on the WebSocket stream.
LEMMA WsTransactionStep ==
  ASSUME NetInv, NEW x \in Transactions, WsTransaction(x)
  PROVE  NetInv'
<1>1. Event /\ UNCHANGED <<vars, link, backend>>
  BY DEF WsTransaction
<1>2. link' \in [Listeners -> Link] /\ BackoffGrows' /\ events' \in 0 .. MaxEvents
  BY <1>1, EventStep
<1>3. CASE UNCHANGED <<seen, raw>>
  BY <1>1, <1>2, <1>3, LinksOnly DEF NetInv, NetTypes
<1>4. CASE seen' \in Remember(x.signature) /\ Forward(x)
  <2>1. raw' \in Seq(Instruction) /\ Len(raw') <= RawCap /\ RawFits'
    BY <1>4, ForwardStep
  <2>2. /\ IsFiniteSet(seen') /\ Cardinality(seen') <= DedupCapacity
        /\ seen' \subseteq seen \cup {x.signature}
    BY <1>4, RememberFits
  <2>3. seen' \subseteq {y.signature : y \in Transactions}
    BY <2>2 DEF NetInv, NetTypes
  <2>4. NetTypes'
    BY <1>1, <1>2, <2>1, <2>2, <2>3 DEF NetInv, NetTypes
  <2>5. QED
    BY <1>2, <2>1, <2>2, <2>4 DEF NetInv, SeenFinite
<1>5. QED
  BY <1>3, <1>4 DEF WsTransaction

\* A transaction on the gRPC stream.
LEMMA GrpcTransactionStep ==
  ASSUME NetInv, NEW x \in Transactions, GrpcTransaction(x)
  PROVE  NetInv'
<1>1. Event /\ Forward(x) /\ UNCHANGED <<vars, link, backend, seen>>
  BY DEF GrpcTransaction
<1>2. link' \in [Listeners -> Link] /\ BackoffGrows' /\ events' \in 0 .. MaxEvents
  BY <1>1, EventStep
<1>3. raw' \in Seq(Instruction) /\ Len(raw') <= RawCap /\ RawFits'
  BY <1>1, ForwardStep
<1>4. NetTypes'
  BY <1>1, <1>2, <1>3 DEF NetInv, NetTypes
<1>5. QED
  BY <1>1, <1>2, <1>3, <1>4 DEF NetInv, SeenFinite

\* The processor takes an instruction and reports the token it creates.
LEMMA ProcessStep ==
  ASSUME DetectorInv, process_raw_transactions
  PROVE  DetectorInv' /\ out' = out
<1> DEFINE ix == Head(raw)
           t == TokenOf(ix)
<1>1. /\ raw # <<>> /\ raw' = Tail(raw) /\ UNCHANGED <<link, backend, seen, events>>
      /\ IF t = NoEntry THEN UNCHANGED vars ELSE Arrive(t)
  BY DEF process_raw_transactions
<1>2. raw \in Seq(Instruction) /\ Len(raw) <= RawCap /\ RawFits /\ RawCap \in Nat
  BY DetectorAssumption DEF DetectorInv, NetInv, NetTypes
<1>3. /\ ix \in Instruction /\ ix = raw[1] /\ 1 \in DOMAIN raw
      /\ raw' \in Seq(Instruction) /\ Len(raw') = Len(raw) - 1 /\ Len(raw) \in Nat
      /\ \A i \in DOMAIN raw' : i + 1 \in DOMAIN raw /\ raw'[i] = raw[i + 1]
  BY <1>1, <1>2, TailElements
<1>4. RawFits' /\ ix \in Fitting
  BY <1>2, <1>3 DEF RawFits, Fitting
<1>5. t = NoEntry \/ Sane(t)
  BY <1>4, TokenOfFits
<1> HIDE DEF t, ix
<1>6. EngineInv' /\ out' = out
  <2>1. CASE t = NoEntry
    <3>1. UNCHANGED vars
      BY <1>1, <2>1
    <3>2. QED
      BY <3>1 DEF DetectorInv, EngineInv, EngineTypeOK, InSane, PendingFits, OutIntact,
                  SentRecorded, SuppressedOnlyRepeats, vars
  <2>2. CASE t # NoEntry
    BY <1>1, <1>5, <2>2, ArriveStep DEF DetectorInv
  <2>3. QED
    BY <2>1, <2>2
<1>7. NetTypes'
  BY <1>1, <1>2, <1>3 DEF DetectorInv, NetInv, NetTypes
<1>8. BackoffGrows' /\ SeenFinite'
  BY <1>1 DEF DetectorInv, NetInv, BackoffGrows, SeenFinite
<1>9. QED
  BY <1>4, <1>6, <1>7, <1>8 DEF DetectorInv, NetInv

\* PumpPortal's reports are sane by assumption.
LEMMA PortalStep ==
  ASSUME DetectorInv, NEW t \in Reports, Portal(t)
  PROVE  DetectorInv' /\ out' = out
<1>1. Event /\ Arrive(t) /\ UNCHANGED <<link, backend, seen, raw>>
  BY DEF Portal
<1>2. Sane(t)
  BY DetectorAssumption DEF Sane
<1>3. EngineInv' /\ out' = out
  BY <1>1, <1>2, ArriveStep DEF DetectorInv
<1>4. link' \in [Listeners -> Link] /\ BackoffGrows' /\ events' \in 0 .. MaxEvents
  BY <1>1, EventStep DEF DetectorInv
<1>5. NetInv'
  BY <1>1, <1>4, LinksOnly DEF DetectorInv, NetInv, NetTypes
<1>6. QED
  BY <1>3, <1>5 DEF DetectorInv

----------------------------------------------------------------------------
(* The detector                                                            *)

\* The detector starts with empty channels and both loops connecting.
LEMMA InitHolds ==
  ASSUME Init
  PROVE  DetectorInv
<1> USE DEF Init, EngineInit
<1>1. EngineTypeOK
  BY MergeAssumption DEF EngineTypeOK
<1>2. InSane /\ PendingFits /\ OutIntact /\ SentRecorded /\ SuppressedOnlyRepeats
  BY DEF InSane, PendingFits, OutIntact, SentRecorded, SuppressedOnlyRepeats
<1>3. 2^0 \in Nat /\ 2^0 >= 1 /\ 2^(0 + 1) = 2 * 2^0
  BY PowerDoubles
<1>4. MaxBackoff \in Nat /\ MaxBackoff >= 1 /\ MaxEvents \in Nat /\ RawCap \in Nat /\ DedupCapacity \in Nat
  BY DetectorAssumption
<1>5. \A l \in Listeners : link[l].at = "connect" /\ link[l].backoff = 1 /\ link[l].fails = 0
  OBVIOUS
<1>6. link \in [Listeners -> Link]
  BY <1>4 DEF Link
<1>7. BackoffGrows
  <2>1. 1 <= 2^0 /\ 1 <= 2^(0 + 1) /\ events = 0
    BY <1>3
  <2>2. ASSUME NEW l \in Listeners
        PROVE  /\ link[l].fails <= events
               /\ link[l].at = "sleep" => link[l].backoff <= 2^link[l].fails
               /\ link[l].backoff <= 2^(link[l].fails + 1)
    <3>1. link[l].at # "sleep" /\ link[l].backoff = 1 /\ link[l].fails = 0
      BY <1>5
    <3>2. link[l].backoff <= 2^(link[l].fails + 1)
      BY <2>1, <3>1
    <3>3. QED
      BY <2>1, <3>1, <3>2
  <2>3. QED
    BY <2>2 DEF BackoffGrows
<1>8. SeenFinite /\ Cardinality(seen) = 0
  BY FS_EmptySet DEF SeenFinite
<1>9. NetTypes
  BY <1>4, <1>6, <1>8 DEF NetTypes
<1>10. RawFits
  BY DEF RawFits
<1>11. QED
  BY <1>1, <1>2, <1>7, <1>8, <1>9, <1>10 DEF DetectorInv, EngineInv, NetInv

\* A step of the listeners leaves the engine alone, and conversely.
LEMMA OtherHalf ==
  ASSUME DetectorInv
  PROVE  /\ UNCHANGED vars => EngineInv'
         /\ UNCHANGED netVars => NetInv'
<1>1. ASSUME UNCHANGED vars PROVE EngineInv'
  BY <1>1 DEF DetectorInv, EngineInv, EngineTypeOK, InSane, PendingFits, OutIntact,
              SentRecorded, SuppressedOnlyRepeats, vars
<1>2. ASSUME UNCHANGED netVars PROVE NetInv'
  BY <1>2 DEF DetectorInv, NetInv, NetTypes, RawFits, SeenFinite, BackoffGrows, netVars
<1>3. QED
  BY <1>1, <1>2

\* Every step keeps the invariant and emits nothing twice within the TTL.
LEMMA NextKeeps ==
  ASSUME DetectorInv, [Next]_allVars
  PROVE  DetectorInv' /\ EmitsNew
<1> USE DEF DetectorInv
<1>1. Len(out) \in Nat
  BY DEF EngineInv, EngineTypeOK
<1>2. ASSUME out' = out PROVE EmitsNew
  BY <1>1, <1>2 DEF EmitsNew
<1>3. ASSUME UNCHANGED vars, NetInv' PROVE DetectorInv' /\ EmitsNew
  BY <1>2, <1>3, OtherHalf DEF vars
<1>4. ASSUME NEW l \in Listeners, Connected(l) \/ ConnectFails(l) \/ StreamEnds(l) \/ Wake(l)
      PROVE  DetectorInv' /\ EmitsNew
  <2>1. UNCHANGED vars
    BY <1>4 DEF Connected, ConnectFails, StreamEnds, Wake
  <2>2. NetInv'
    BY <1>4, ConnectedStep, ConnectFailsStep, StreamEndsStep, WakeStep
  <2>3. QED
    BY <1>3, <2>1, <2>2
<1>5. CASE ProbeEnds
  <2>1. UNCHANGED vars
    BY <1>5 DEF ProbeEnds
  <2>2. QED
    BY <1>3, <1>5, <2>1, ProbeEndsStep
<1>6. ASSUME NEW t \in Reports, Portal(t) PROVE DetectorInv' /\ EmitsNew
  BY <1>2, <1>6, PortalStep
<1>7. ASSUME NEW x \in Transactions, WsTransaction(x) \/ GrpcTransaction(x)
      PROVE  DetectorInv' /\ EmitsNew
  <2>1. UNCHANGED vars
    BY <1>7 DEF WsTransaction, GrpcTransaction
  <2>2. NetInv'
    BY <1>7, WsTransactionStep, GrpcTransactionStep
  <2>3. QED
    BY <1>3, <2>1, <2>2
<1>8. CASE process_raw_transactions
  BY <1>2, <1>8, ProcessStep
<1>9. CASE Engine
  BY <1>9, EngineStepKeeps, OtherHalf DEF Engine
<1>10. CASE Analyze /\ UNCHANGED netVars
  <2>1. EngineInv' /\ Len(out') <= Len(out)
    BY <1>10, AnalyzeStep
  <2>2. Len(out') \in Nat
    BY <2>1 DEF EngineInv, EngineTypeOK
  <2>3. EmitsNew
    BY <1>1, <2>1, <2>2 DEF EmitsNew
  <2>4. QED
    BY <1>10, <2>1, <2>3, OtherHalf
<1>11. ASSUME NEW m \in Mints, Ages(m) PROVE DetectorInv' /\ EmitsNew
  BY <1>2, <1>11, AgeStep, OtherHalf DEF Ages
<1>12. ASSUME NEW k \in Kinds, NEW m \in Mints, EntryExpires(k, m), UNCHANGED netVars
       PROVE  DetectorInv' /\ EmitsNew
  BY <1>2, <1>12, ExpireStep, OtherHalf
<1>13. CASE UNCHANGED allVars
  <2>1. UNCHANGED vars /\ UNCHANGED netVars
    BY <1>13 DEF allVars
  <2>2. QED
    BY <1>3, <2>1, OtherHalf
<1>14. QED
  BY <1>4, <1>5, <1>6, <1>7, <1>8, <1>9, <1>10, <1>11, <1>12, <1>13 DEF Next

\* The invariant holds in every behaviour of the detector.
LEMMA InvariantHolds == Spec => []DetectorInv
<1>1. Init => DetectorInv
  BY InitHolds
<1>2. DetectorInv /\ [Next]_allVars => DetectorInv'
  BY NextKeeps
<1>3. QED
  BY <1>1, <1>2, PTL DEF Spec

\* Type correctness, with the capacities of all three channels, of the record of
\* signatures and of the backoff: a token that reaches the engine is one that was
\* created, and no channel holds more than its capacity.
THEOREM TypeCorrect == Spec => []TypeOK
<1>1. DetectorInv => TypeOK
  BY DEF DetectorInv, EngineInv, NetInv, NetTypes, TypeOK
<1>2. QED
  BY <1>1, InvariantHolds, PTL

\* A mint is suppressed only by an event of its own kind that was sent or lost to
\* a full channel within the TTL: newborns and migrations do not collide.
THEOREM OnlyRepeatsSuppressed == Spec => []SuppressedOnlyRepeats
<1>1. DetectorInv => SuppressedOnlyRepeats
  BY DEF DetectorInv, EngineInv
<1>2. QED
  BY <1>1, InvariantHolds, PTL

\* The merge makes no migration and alters none.
THEOREM MigrationsIntact == Spec => []MigrationIntact
<1>1. DetectorInv => MigrationIntact
  BY DEF DetectorInv, EngineInv, PendingFits, OutIntact, MigrationIntact
<1>2. QED
  BY <1>1, InvariantHolds, PTL

\* After n consecutive failures no reconnect loop sleeps longer than 2^n seconds.
THEOREM BackoffsFit == Spec => []BackoffFits
<1>1. DetectorInv => BackoffFits
  BY DEF DetectorInv, NetInv, BackoffGrows, BackoffFits
<1>2. QED
  BY <1>1, InvariantHolds, PTL

\* Within the TTL a mint reaches the analyzer at most once per kind.
THEOREM OnceWithinTtl == Spec => EmittedOnce
<1>1. DetectorInv /\ [Next]_allVars =>
        [Len(out') > Len(out) => LET t == out'[Len(out')] IN <<Kind(t), t.mint>> \notin sent]_vars
  BY NextKeeps DEF EmitsNew
<1>2. QED
  BY <1>1, InvariantHolds, PTL DEF Spec, EmittedOnce

\* Of two reports by different sources, in either order, the emitted token has
\* PumpPortal's creator if it names one, and its market cap.
THEOREM PortalWins == Spec => PumpPortalWins
<1> DEFINE Wins ==
       \A m \in Mints :
         /\ SecondSource /\ Head(in).mint = m /\ Len(out') > Len(out)
         /\ pending[m].token.backend # Head(in).backend
         => LET both == {pending[m].token, Head(in)}
                p == CHOOSE t \in both : t.backend = "PumpPortal"
                h == CHOOSE t \in both : t.backend = "Helius"
                t == out'[Len(out')]
            IN  /\ t.creator = IF p.creator # "none" THEN p.creator ELSE h.creator
                /\ t.mcap = (p.mcap \/ h.mcap)
<1>1. ASSUME DetectorInv PROVE Wins
  <2> SUFFICES ASSUME NEW m \in Mints, SecondSource, Head(in).mint = m, Len(out') > Len(out),
                      pending[m].token.backend # Head(in).backend
               PROVE  LET both == {pending[m].token, Head(in)}
                          p == CHOOSE t \in both : t.backend = "PumpPortal"
                          h == CHOOSE t \in both : t.backend = "Helius"
                          t == out'[Len(out')]
                      IN  /\ t.creator = IF p.creator # "none" THEN p.creator ELSE h.creator
                          /\ t.mcap = (p.mcap \/ h.mcap)
    OBVIOUS
  <2> DEFINE w == pending[m].token
             i == Head(in)
             both == {w, i}
             p == CHOOSE t \in both : t.backend = "PumpPortal"
             h == CHOOSE t \in both : t.backend = "Helius"
             r == out'[Len(out')]
  <2>1. EngineInv
    BY <1>1 DEF DetectorInv
  <2>2. Take("newborn") /\ pending[m] # NoEntry /\ "newborn" \in Kinds
    BY DEF SecondSource, Kinds
  <2>3. Sane(i) /\ Kind(i) = "newborn"
    BY <2>1, <2>2, TakeStep
  <2>4. Sane(w) /\ Kind(w) = "newborn"
    BY <2>1, <2>2 DEF EngineInv, PendingFits
  <2>5. r = merge_token_data(w, i)
    BY <2>1, SecondSourceStep
  <2>6. w.backend \in {"Helius", "PumpPortal"} /\ i.backend \in {"Helius", "PumpPortal"}
    BY <2>3, <2>4 DEF Sane, TokenInfo
  <2>7. w.backend # i.backend
    OBVIOUS
  <2> HIDE DEF w, i, r
  <2>8. CASE w.backend = "Helius"
    <3>1. i.backend = "PumpPortal"
      BY <2>6, <2>7, <2>8
    <3>2. p = i /\ h = w
      BY <2>8, <3>1
    <3>3. /\ r.creator = IF i.creator # "none" THEN i.creator ELSE w.creator
          /\ r.mcap = (i.mcap \/ w.mcap)
      BY <2>3, <2>4, <2>5, <2>8, <3>1, MergeFacts
    <3> HIDE DEF p, h
    <3>4. r.creator = (IF p.creator # "none" THEN p.creator ELSE h.creator) /\ r.mcap = (p.mcap \/ h.mcap)
      BY <3>2, <3>3
    <3>5. QED
      BY <3>4 DEF p, h, r, w, i
  <2>9. CASE w.backend = "PumpPortal"
    <3>1. i.backend = "Helius"
      BY <2>6, <2>7, <2>9
    <3>2. p = w /\ h = i
      BY <2>9, <3>1
    <3>3. /\ r.creator = IF w.creator # "none" THEN w.creator ELSE i.creator
          /\ r.mcap = (w.mcap \/ i.mcap)
      BY <2>3, <2>4, <2>5, <2>9, <3>1, MergeFacts
    <3> HIDE DEF p, h
    <3>4. r.creator = (IF p.creator # "none" THEN p.creator ELSE h.creator) /\ r.mcap = (p.mcap \/ h.mcap)
      BY <3>2, <3>3
    <3>5. QED
      BY <3>4 DEF p, h, r, w, i
  <2>10. QED
    BY <2>6, <2>8, <2>9
<1>2. DetectorInv => [Wins]_vars
  BY <1>1
<1>3. QED
  BY <1>2, InvariantHolds, PTL DEF PumpPortalWins

=============================================================================
