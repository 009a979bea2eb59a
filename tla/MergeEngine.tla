----------------------------- MODULE MergeEngine -----------------------------
(***************************************************************************)
(* The detector's merge engine: deduplicate_tokens and DeduplicationQueue  *)
(* (detector/mod.rs, detector/queue.rs). PumpPortal and Helius report the  *)
(* same tokens, in any order and repeatedly. A newborn token waits up to   *)
(* MERGE_WINDOW for a second report, is merged with it and emitted to the  *)
(* analyzer; a migration is emitted at once. Each kind has its own record  *)
(* of the mints emitted within the TTL.                                    *)
(*                                                                         *)
(* The engine is one task: it takes the next event if there is one and     *)
(* looks at expired entries only when there is none (a biased select).     *)
(* Left out: names and symbols, merged by the rule of the creator, the     *)
(* liquidity, by that of the market cap, pool and uri, where the first     *)
(* value stays, and events without a mint, which are skipped.              *)
(***************************************************************************)
EXTENDS Integers, Sequences

CONSTANTS
    Mints,
    NoEntry,       \* absence of a pending entry
    InCap,         \* capacity of the channel to the engine (512)
    OutCap,        \* capacity of the channel to the analyzer (256)
    CleanupEvery   \* rounds between two cleanups (1000)

Marker == "MIGRATION_EVENT"
Kinds == {"newborn", "migration"}

\* creator "none" is the empty string; mcap: market_cap_sol > 0.
TokenInfo == [mint: Mints, creator: {"none", "helius", "portal", Marker},
              backend: {"Helius", "PumpPortal"}, mcap: BOOLEAN]

\* parse_migration_event
MigrationToken(m) ==
    [mint |-> m, creator |-> Marker, backend |-> "PumpPortal", mcap |-> FALSE]

Kind(t) == IF t.creator = Marker THEN "migration" ELSE "newborn"

PendingToken == [token: TokenInfo, age: {"fresh", "expired", "old"}]

ASSUME MergeAssumption ==
    /\ NoEntry \notin PendingToken
    /\ {InCap, OutCap, CleanupEvery} \subseteq Nat \ {0}

VARIABLES
    in,       \* channel of events
    out,      \* channel to the analyzer
    dedup,    \* newborn_dedup and migration_dedup: mints within their TTL
    pending,  \* mint -> entry waiting for its second source, or NoEntry
    batch,    \* expired mints still to be emitted in this round
    round,    \* cleanup_counter
    sent,     \* history: kinds and mints sent within the TTL
    dropped   \* history: kinds and mints lost to a full channel within the TTL

vars == <<in, out, dedup, pending, batch, round, sent, dropped>>

EngineTypeOK ==
    /\ in \in Seq(TokenInfo) /\ Len(in) <= InCap
    /\ out \in Seq(TokenInfo) /\ Len(out) <= OutCap
    /\ dedup \in [Kinds -> SUBSET Mints]
    /\ pending \in [Mints -> PendingToken \cup {NoEntry}]
    /\ batch \in SUBSET Mints /\ round \in 0 .. CleanupEvery - 1
    /\ sent \in SUBSET (Kinds \X Mints) /\ dropped \in SUBSET (Kinds \X Mints)

----------------------------------------------------------------------------
(* Helpers of the engine                                                   *)

\* Mutant: a creator is only filled in, PumpPortal does not win.
MergeFirstWins(t, i) ==
    LET portal == i.backend = "PumpPortal"
    IN  [t EXCEPT !.creator = IF @ = "none" THEN i.creator ELSE @,
                  !.mcap = @ \/ (portal /\ i.mcap)]

\* The incoming report i is merged into the waiting token t.
merge_token_data(t, i) ==
    LET portal == i.backend = "PumpPortal"
    IN  [t EXCEPT !.creator = IF @ = "none" \/ (portal /\ i.creator # "none")
                              THEN i.creator ELSE @,
                  !.mcap = @ \/ (portal /\ i.mcap)]

\* Mutant: the sender does not look at the channel's capacity.
TrySendUnbounded(t) ==
    /\ out' = Append(out, t)
    /\ sent' = sent \cup {<<Kind(t), t.mint>>}
    /\ UNCHANGED dropped

\* Mutant: send, which waits for room in the channel.
TrySendWaits(t) ==
    /\ Len(out) < OutCap
    /\ out' = Append(out, t)
    /\ sent' = sent \cup {<<Kind(t), t.mint>>}
    /\ UNCHANGED dropped

\* try_send: a full channel loses the token.
TrySend(t) ==
    \/ /\ Len(out) < OutCap
       /\ out' = Append(out, t)
       /\ sent' = sent \cup {<<Kind(t), t.mint>>}
       /\ UNCHANGED dropped
    \/ /\ Len(out) >= OutCap
       /\ dropped' = dropped \cup {<<Kind(t), t.mint>>}
       /\ UNCHANGED <<out, sent>>

\* Mutant: one namespace for both kinds, as before the collision was fixed.
EmitSharedNamespace(t, k) ==
    IF t.mint \in dedup[k]
    THEN UNCHANGED <<dedup, out, sent, dropped>>
    ELSE /\ dedup' = [d \in Kinds |-> dedup[d] \cup {t.mint}]
         /\ TrySend(t)

\* Mutant: the mint is not recorded.
EmitUnrecorded(t, k) ==
    /\ TrySend(t)
    /\ UNCHANGED dedup

\* The mint is recorded before the token is sent.
emit_token(t, k) ==
    IF t.mint \in dedup[k]
    THEN UNCHANGED <<dedup, out, sent, dropped>>
    ELSE /\ dedup' = [dedup EXCEPT ![k] = @ \cup {t.mint}]
         /\ TrySend(t)

\* The end of a round that leaves the entries p: every CleanupEvery rounds the
\* entries older than ten seconds are dropped. (The cleanup of the dedup queues
\* removes what no longer counts anyway.)
EndRound(p) ==
    /\ round' = (round + 1) % CleanupEvery
    /\ pending' = IF round' = 0
                  THEN [m \in Mints |-> IF p[m] # NoEntry /\ p[m].age = "old"
                                        THEN NoEntry ELSE p[m]]
                  ELSE p

----------------------------------------------------------------------------
(* Actions                                                                 *)

\* An event is handed to the engine. Its sender waits while the channel is full.
Arrive(t) ==
    /\ Len(in) < InCap
    /\ in' = Append(in, t)
    /\ UNCHANGED <<out, dedup, pending, batch, round, sent, dropped>>

\* The engine takes the next event, of the given kind.
Take(k) ==
    /\ batch = {} /\ in # <<>>
    /\ Kind(Head(in)) = k
    /\ in' = Tail(in)

\* Mutant: migrations go through the merge engine like any other event.
MigrationMerged ==
    LET t == Head(in)
    IN  /\ Take("migration")
        /\ IF pending[t.mint] # NoEntry
           THEN /\ emit_token(merge_token_data(pending[t.mint].token, t), "newborn")
                /\ pending' = [pending EXCEPT ![t.mint] = NoEntry]
           ELSE emit_token(t, "migration") /\ UNCHANGED pending
        /\ UNCHANGED <<batch, round>>

\* A migration bypasses the merge engine, and the round ends without cleanup.
Migration ==
    /\ Take("migration")
    /\ emit_token(Head(in), "migration")
    /\ UNCHANGED <<pending, batch, round>>

\* A newborn that was emitted within the TTL.
Repeated ==
    /\ Take("newborn")
    /\ Head(in).mint \in dedup["newborn"]
    /\ UNCHANGED <<out, dedup, pending, batch, round, sent, dropped>>

\* A second report, of whatever source: merged and emitted.
SecondSource ==
    LET t == Head(in)
    IN  /\ Take("newborn")
        /\ t.mint \notin dedup["newborn"] /\ pending[t.mint] # NoEntry
        /\ emit_token(merge_token_data(pending[t.mint].token, t), "newborn")
        /\ EndRound([pending EXCEPT ![t.mint] = NoEntry])
        /\ UNCHANGED batch

FirstSource ==
    LET t == Head(in)
    IN  /\ Take("newborn")
        /\ t.mint \notin dedup["newborn"] /\ pending[t.mint] = NoEntry
        /\ EndRound([pending EXCEPT ![t.mint] = [token |-> t, age |-> "fresh"]])
        /\ UNCHANGED <<out, dedup, batch, sent, dropped>>

\* No event is waiting, and the window of some entry is over.
Timeout ==
    LET expired == {m \in Mints : pending[m] # NoEntry /\ pending[m].age # "fresh"}
    IN  /\ batch = {} /\ in = <<>> /\ expired # {}
        /\ batch' = expired
        /\ UNCHANGED <<in, out, dedup, pending, round, sent, dropped>>

EmitExpired(m) ==
    LET p == [pending EXCEPT ![m] = NoEntry]
    IN  /\ m \in batch
        /\ emit_token(pending[m].token, "newborn")
        /\ batch' = batch \ {m}
        /\ IF batch' = {} THEN EndRound(p) ELSE pending' = p /\ UNCHANGED round
        /\ UNCHANGED in

\* The analyzer takes the next token.
Analyze ==
    /\ out # <<>>
    /\ out' = Tail(out)
    /\ UNCHANGED <<in, dedup, pending, batch, round, sent, dropped>>

\* Time: an entry's window ends, then its ten seconds; a TTL runs out.
Age(m) ==
    /\ pending[m] # NoEntry /\ pending[m].age # "old"
    /\ pending' = [pending EXCEPT ![m].age = IF @ = "fresh" THEN "expired" ELSE "old"]
    /\ UNCHANGED <<in, out, dedup, batch, round, sent, dropped>>

EntryExpires(k, m) ==
    /\ m \in dedup[k] \/ <<k, m>> \in sent \cup dropped
    /\ dedup' = [dedup EXCEPT ![k] = @ \ {m}]
    /\ sent' = sent \ {<<k, m>>} /\ dropped' = dropped \ {<<k, m>>}
    /\ UNCHANGED <<in, out, pending, batch, round>>

----------------------------------------------------------------------------
(* Specification                                                           *)

EngineInit ==
    /\ in = <<>> /\ out = <<>>
    /\ dedup = [k \in Kinds |-> {}]
    /\ pending = [m \in Mints |-> NoEntry]
    /\ batch = {} /\ round = 0
    /\ sent = {} /\ dropped = {}

\* One step of the loop of deduplicate_tokens, in the order of its biased select.
EngineStep ==
    \/ Migration \/ Repeated \/ SecondSource \/ FirstSource \/ Timeout
    \/ \E m \in Mints : EmitExpired(m)

----------------------------------------------------------------------------
(* Properties                                                              *)

\* Within the TTL a mint is emitted at most once per kind, however its reports
\* are repeated, reordered and merged, and whichever of them expire.
EmittedOnce ==
    [][Len(out') > Len(out) =>
         LET t == out'[Len(out')] IN <<Kind(t), t.mint>> \notin sent]_vars

\* "newborn create events and migration events must NOT collide": a mint is only
\* suppressed by an event of the same kind that was sent, or lost to a full
\* channel, within the TTL.
SuppressedOnlyRepeats ==
    \A k \in Kinds : \A m \in dedup[k] : <<k, m>> \in sent \cup dropped

\* The merge neither turns a newborn into a migration nor alters a migration.
MigrationIntact ==
    /\ \A m \in Mints : pending[m] # NoEntry => Kind(pending[m].token) = "newborn"
    /\ \A i \in DOMAIN out : Kind(out[i]) = "migration" => out[i] = MigrationToken(out[i].mint)

\* "prefer non-empty, PumpPortal wins ties": of two reports by different
\* sources, in either order, the token sent has PumpPortal's creator if it names
\* one, and its market cap.
PumpPortalWins ==
    [][\A m \in Mints :
         /\ SecondSource /\ Head(in).mint = m /\ Len(out') > Len(out)
         /\ pending[m].token.backend # Head(in).backend
         => LET both == {pending[m].token, Head(in)}
                p == CHOOSE t \in both : t.backend = "PumpPortal"
                h == CHOOSE t \in both : t.backend = "Helius"
                t == out'[Len(out')]
            IN  /\ t.creator = IF p.creator # "none" THEN p.creator ELSE h.creator
                /\ t.mcap = (p.mcap \/ h.mcap)]_vars

=============================================================================
