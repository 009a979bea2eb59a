------------------------------- MODULE Detector -------------------------------
(***************************************************************************)
(* DetectorService::start (detector/mod.rs): the two listeners with their  *)
(* reconnect loops, the processor of raw transactions and the merge engine *)
(* (MergeEngine), joined by channels.                                      *)
(*                                                                         *)
(*   PumpPortal listener ------------> in -> engine -> out -> analyzer     *)
(*   Helius listener -> raw -> processor -> in                             *)
(*                                                                         *)
(* The channels raw and in make their senders wait; the channel out loses  *)
(* what it cannot hold. A stream may deliver a transaction repeatedly; the *)
(* WebSocket listener forgets arbitrary signatures when it has seen too    *)
(* many and all of them when it reconnects, the gRPC listener keeps none.  *)
(* A message that is read and waits for its channel counts as unread.      *)
(***************************************************************************)
EXTENDS MergeEngine, FiniteSets

CONSTANTS
    Wsol,           \* the mint of wrapped SOL
    Reports,        \* tokens PumpPortal may report
    Transactions,   \* transactions of the Helius stream
    RawCap,         \* capacity of the channel of raw transactions (1024)
    DedupCapacity,  \* DEDUP_CAPACITY (2000)
    MaxBackoff,     \* MAX_BACKOFF_SECS (60)
    MaxEvents       \* bound on messages, failed connections and ended streams

TargetPrograms == {"PumpFun", "RaydiumAmm", "RaydiumCpmm", "PumpSwap"}

\* fits: discriminator and length are those of a creation; first and second: the
\* accounts of the two mints (of a Pump.fun creation, only the first is read).
Instruction == [program: TargetPrograms \cup {"other"}, fits: BOOLEAN,
                first: Mints \cup {Wsol}, second: Mints \cup {Wsol}]

\* The programs on the chain do not create wrapped SOL, nor a pool of it alone.
CreatesToken(ix) ==
    ix.fits => ix.first \in Mints \/ (ix.program # "PumpFun" /\ ix.second \in Mints)

ASSUME DetectorAssumption ==
    /\ Wsol \notin Mints
    /\ Reports \subseteq TokenInfo
    /\ \A t \in Reports : t.backend = "PumpPortal"
    /\ \A t \in Reports : Kind(t) = "migration" => t = MigrationToken(t.mint)
    /\ \A x \in Transactions :
          /\ x.instructions \in Seq(Instruction)
          /\ \A i \in DOMAIN x.instructions : CreatesToken(x.instructions[i])
    /\ \A x, y \in Transactions : x.signature = y.signature => x = y
    /\ {RawCap, DedupCapacity, MaxBackoff} \subseteq Nat \ {0}
    /\ DedupCapacity > 1 /\ MaxEvents \in Nat

Listeners == {"PumpPortal", "Helius"}

VARIABLES
    link,     \* listener -> its reconnect loop; fails: failures since the last stream
    backend,  \* "probe": detector mode Auto, the first gRPC stream of start
    seen,     \* seen_sigs of the open WebSocket stream
    raw,      \* channel of instructions of target programs
    events    \* messages, failed connections and ended streams so far

netVars == <<link, backend, seen, raw, events>>
allVars == <<vars, netVars>>

Link == [at: {"connect", "open", "sleep"}, backoff: 1 .. MaxBackoff, fails: 0 .. MaxEvents]

TypeOK ==
    /\ EngineTypeOK
    /\ link \in [Listeners -> Link]
    /\ backend \in {"probe", "grpc", "ws"}
    /\ seen \subseteq {x.signature : x \in Transactions} /\ Cardinality(seen) <= DedupCapacity
    /\ raw \in Seq(Instruction) /\ Len(raw) <= RawCap
    /\ events \in 0 .. MaxEvents

----------------------------------------------------------------------------
(* Parsing                                                                 *)

\* The loop over the instructions keeps those of the target programs.
extract_raw_transactions(x) ==
    LET ixs == x.instructions
        kept[i \in 0 .. Len(ixs)] ==
            IF i = 0 THEN <<>>
            ELSE IF ixs[i].program \in TargetPrograms THEN Append(kept[i - 1], ixs[i])
            ELSE kept[i - 1]
    IN  kept[Len(ixs)]

\* Mutant: the first account is taken for the token's mint.
PoolTokenFirst(ix) == ix.first

\* A pool is created over two mints in either order: the token is the one that
\* is not SOL, the first if neither is.
PoolToken(ix) == IF ix.first = Wsol THEN ix.second ELSE ix.first

NewToken(mint) ==
    [mint |-> mint, creator |-> "helius", backend |-> "Helius", mcap |-> FALSE]

\* The token an instruction creates, or NoEntry.
process_pumpfun_transaction(ix) == IF ix.fits THEN NewToken(ix.first) ELSE NoEntry
process_raydium_transaction(ix) == IF ix.fits THEN NewToken(PoolToken(ix)) ELSE NoEntry
process_pumpswap_transaction(ix) == IF ix.fits THEN NewToken(PoolToken(ix)) ELSE NoEntry

TokenOf(ix) ==
    CASE ix.program = "PumpFun" -> process_pumpfun_transaction(ix)
      [] ix.program \in {"RaydiumAmm", "RaydiumCpmm"} -> process_raydium_transaction(ix)
      [] ix.program = "PumpSwap" -> process_pumpswap_transaction(ix)

----------------------------------------------------------------------------
(* The reconnect loops                                                     *)

\* Something comes from outside: a message, a failure, the end of a stream.
Event == events < MaxEvents /\ events' = events + 1

\* A connection or subscription is established; a WebSocket stream starts with no
\* signatures.
Connected(l) ==
    /\ link[l].at = "connect"
    /\ link' = [link EXCEPT ![l].at = "open"]
    /\ seen' = IF l = "Helius" THEN {} ELSE seen
    /\ UNCHANGED <<vars, backend, raw, events>>

\* Mutant: an error ends the loop.
ConnectFailsForGood(l) ==
    /\ link[l].at = "connect" /\ ~(l = "Helius" /\ backend = "probe")
    /\ Event
    /\ link' = [link EXCEPT ![l].at = "stopped"]
    /\ UNCHANGED <<vars, backend, seen, raw>>

\* The listener returns an error: the loop sleeps for the backoff it has.
ConnectFails(l) ==
    /\ link[l].at = "connect" /\ ~(l = "Helius" /\ backend = "probe")
    /\ Event
    /\ link' = [link EXCEPT ![l].at = "sleep", ![l].fails = @ + 1]
    /\ UNCHANGED <<vars, backend, seen, raw>>

\* Mutant: the backoff is not reset.
StreamEndsNoReset(l) ==
    /\ link[l].at = "open" /\ ~(l = "Helius" /\ backend = "probe")
    /\ Event
    /\ link' = [link EXCEPT ![l].at = "sleep", ![l].fails = 0]
    /\ UNCHANGED <<vars, backend, seen, raw>>

\* A stream ends or breaks: the listener returns Ok and the backoff is reset.
StreamEnds(l) ==
    /\ link[l].at = "open" /\ ~(l = "Helius" /\ backend = "probe")
    /\ Event
    /\ link' = [link EXCEPT ![l] = [at |-> "sleep", backoff |-> 1, fails |-> 0]]
    /\ UNCHANGED <<vars, backend, seen, raw>>

\* Mode Auto: the outcome of the first gRPC stream decides the backend for good,
\* and its loop starts without sleeping.
ProbeEnds ==
    /\ backend = "probe" /\ link["Helius"].at # "sleep"
    /\ Event
    /\ backend' = IF link["Helius"].at = "open" THEN "grpc" ELSE "ws"
    /\ link' = [link EXCEPT !["Helius"].at = "connect"]
    /\ UNCHANGED <<vars, seen, raw>>

\* The sleep is over; the next one is twice as long, up to the maximum.
Wake(l) ==
    /\ link[l].at = "sleep"
    /\ link' = [link EXCEPT ![l].at = "connect",
                            ![l].backoff = IF 2 * @ < MaxBackoff THEN 2 * @ ELSE MaxBackoff]
    /\ UNCHANGED <<vars, backend, seen, raw, events>>

----------------------------------------------------------------------------
(* Messages                                                                *)

\* PumpPortal reports a token, which goes directly to the engine.
Portal(t) ==
    /\ link["PumpPortal"].at = "open"
    /\ Event
    /\ Arrive(t)
    /\ UNCHANGED <<link, backend, seen, raw>>

\* The signatures kept once s was seen: half of the capacity is removed, in no
\* particular order, when there are too many.
Remember(s) ==
    LET all == seen \cup {s}
    IN  IF Cardinality(all) <= DedupCapacity THEN {all}
        ELSE {all \ gone : gone \in {g \in SUBSET all : Cardinality(g) = DedupCapacity \div 2}}

\* The instructions of a transaction go to the processor, waiting for room there.
Forward(x) ==
    LET ixs == extract_raw_transactions(x)
    IN  Len(raw) + Len(ixs) <= RawCap /\ raw' = raw \o ixs

\* A transaction on the WebSocket stream: passed over if its signature is known.
WsTransaction(x) ==
    /\ link["Helius"].at = "open" /\ backend = "ws"
    /\ Event
    /\ \/ x.signature \in seen /\ UNCHANGED <<seen, raw>>
       \/ x.signature \notin seen /\ seen' \in Remember(x.signature) /\ Forward(x)
    /\ UNCHANGED <<vars, link, backend>>

\* A transaction on the gRPC stream: forwarded, repeated or not.
GrpcTransaction(x) ==
    /\ link["Helius"].at = "open" /\ backend # "ws"
    /\ Event
    /\ Forward(x)
    /\ UNCHANGED <<vars, link, backend, seen>>

\* The processor turns an instruction into a token and hands it to the engine, or
\* passes over it.
process_raw_transactions ==
    LET t == TokenOf(Head(raw))
    IN  /\ raw # <<>> /\ raw' = Tail(raw)
        /\ IF t = NoEntry THEN UNCHANGED vars ELSE Arrive(t)
        /\ UNCHANGED <<link, backend, seen, events>>

----------------------------------------------------------------------------
(* Specification                                                           *)

Init ==
    /\ EngineInit
    /\ link = [l \in Listeners |-> [at |-> "connect", backoff |-> 1, fails |-> 0]]
    /\ backend \in {"probe", "grpc", "ws"}
    /\ seen = {} /\ raw = <<>> /\ events = 0

Engine == EngineStep /\ UNCHANGED netVars

\* Time passes for entry m: of the merge window, then of its ten seconds.
Ages(m) == Age(m) /\ UNCHANGED netVars

Next ==
    \/ \E l \in Listeners : Connected(l) \/ ConnectFails(l) \/ StreamEnds(l) \/ Wake(l)
    \/ ProbeEnds
    \/ \E t \in Reports : Portal(t)
    \/ \E x \in Transactions : WsTransaction(x) \/ GrpcTransaction(x)
    \/ process_raw_transactions
    \/ Engine
    \/ Analyze /\ UNCHANGED netVars
    \/ \E m \in Mints : Ages(m)
    \/ \E k \in Kinds, m \in Mints : EntryExpires(k, m) /\ UNCHANGED netVars

\* The tasks of the detector run and its timers expire; an endpoint does not fail
\* for ever. Nothing is assumed of the analyzer.
Fairness ==
    /\ WF_allVars(Engine) /\ WF_allVars(process_raw_transactions)
    /\ \A m \in Mints : WF_allVars(Ages(m))
    /\ \A l \in Listeners : WF_allVars(Wake(l)) /\ WF_allVars(Connected(l))

Spec == Init /\ [][Next]_allVars /\ Fairness

----------------------------------------------------------------------------
(* Properties                                                              *)

\* "try_send" to the analyzer: an analyzer that takes nothing never holds up the
\* detector. What the listeners delivered always drains from both channels and
\* from the merge window: it is emitted, suppressed or lost, and no newborn waits
\* for its second source for ever.
DrainsWithoutAnalyzer ==
    []<>(raw = <<>> /\ in = <<>> /\ \A m \in Mints : pending[m] = NoEntry)

\* "reconnecting after backoff": both listeners always connect again, whichever
\* of the backends Auto settled on and however the streams end.
Reconnects == \A l \in Listeners : []<>(link[l].at = "open")

\* The backoff of a listener grows only with its consecutive failures: a stream
\* that was up is sought again after one second, and after n failures no sleep is
\* longer than 2^n seconds.
BackoffFits ==
    \A l \in Listeners : link[l].at = "sleep" => link[l].backoff <= 2^link[l].fails

=============================================================================
