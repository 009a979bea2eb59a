---------------------------- MODULE PositionStore ----------------------------
(***************************************************************************)
(* PositionManager (executor/positions.rs): the in-memory cache of         *)
(* positions keyed by mint, the SQLite table keyed by position id, and the *)
(* tasks that share them:                                                  *)
(*                                                                         *)
(*   - Buyers: calls of execute_buy that reach open_position (the analyzer *)
(*     pipeline and the Telegram bot run at most one each);                *)
(*   - the TP/SL monitor, which writes prices into the cache;              *)
(*   - the one sell executor task, which books sells and marks failures.   *)
(*                                                                         *)
(* A step is one critical section of the RwLock, or one write of the       *)
(* database: every operation drops the lock before it persists its clone,  *)
(* so the two halves are separate steps that other tasks can come between. *)
(* A crash may strike anywhere; a restart reloads the rows that are Open.  *)
(***************************************************************************)
EXTENDS Naturals

CONSTANTS
    Mints,        \* token mints
    Ids,          \* uuids of positions
    Buyers,       \* concurrent execute_buy calls
    MaxAttempts,  \* attempts of execute_sell per sell command (3 in main.rs)
    NoPos         \* absence of a position

VARIABLES
    up,        \* the process runs
    mem,       \* positions: mint -> Position (the RwLock'ed HashMap)
    db,        \* table positions: id -> last persisted Position
    used,      \* uuids already drawn
    buyer,     \* per buyer: the clone open_position has still to persist
    spc,       \* where the sell executor is
    smint,     \* mint of its current command
    attempt,   \* its attempt counter
    sclone,    \* the clone it has still to persist
    behind     \* history of this run of the process: ids whose row lacks the
               \* last change, because its write failed or was overwritten

vars == <<up, mem, db, used, buyer, spc, smint, attempt, sclone, behind>>
seller == <<spc, smint, attempt, sclone>>

----------------------------------------------------------------------------
(* Types                                                                   *)

Status == {"Open", "ClosedTp", "ClosedSl", "ClosedManual", "ClosedError"}

\* What the pnl fields of a position hold: 0.0, the unrealised profit at the
\* last quoted price, or the wallet's SOL difference after a verified sell.
Pnl == {"zero", "spot", "realized"}

\* snap: wallet_sol_at_open was read (> 0), so a realised PnL can be computed.
Position == [id: Ids, mint: Mints, status: Status, pnl: Pnl, snap: BOOLEAN]

SellerPc == {"idle", "attempt", "book", "persist",
             "errCheck", "errClear", "errMark", "errPersist"}

ASSUME ConstantsAssumption ==
    /\ MaxAttempts \in Nat \ {0}
    /\ NoPos \notin Position
    /\ NoPos \notin [id: Ids, open: BOOLEAN]

TypeOK ==
    /\ up \in BOOLEAN
    /\ mem \in [Mints -> Position \cup {NoPos}]
    /\ db \in [Ids -> Position \cup {NoPos}]
    /\ used \in SUBSET Ids
    /\ buyer \in [Buyers -> Position \cup {NoPos}]
    /\ spc \in SellerPc
    /\ smint \in Mints
    /\ attempt \in 1 .. MaxAttempts
    /\ sclone \in Position \cup {NoPos}
    /\ behind \in SUBSET Ids

----------------------------------------------------------------------------
(* State functions                                                         *)

IsOpen(m) == mem[m] # NoPos /\ mem[m].status = "Open"

\* Ids of the rows load_from_db selects for a mint.
OpenRows(m) == {i \in Ids : db[i] # NoPos /\ db[i].mint = m /\ db[i].status = "Open"}

BuyerHolds(i) == \E b \in Buyers : buyer[b] # NoPos /\ buyer[b].id = i
SellerHolds(i) == sclone # NoPos /\ sclone.id = i
Pending(i) == BuyerHolds(i) \/ SellerHolds(i)

----------------------------------------------------------------------------
(* Buyers: open_position                                                   *)

NewPosition(i, m, snap) ==
    [id |-> i, mint |-> m, status |-> "Open", pnl |-> "zero", snap |-> snap]

\* Mutant: the insert without the double-buy guard.
OpenInsertUnguarded(b, m, i, snap) ==
    /\ up /\ buyer[b] = NoPos
    /\ i \notin used
    /\ mem' = [mem EXCEPT ![m] = NewPosition(i, m, snap)]
    /\ buyer' = [buyer EXCEPT ![b] = NewPosition(i, m, snap)]
    /\ used' = used \cup {i}
    /\ UNCHANGED <<up, db, seller, behind>>

\* The write-locked section: the double-buy guard and the insert. When the
\* mint is already open the call bails out and changes nothing.
OpenInsert(b, m, i, snap) ==
    /\ up /\ buyer[b] = NoPos
    /\ i \notin used
    /\ ~IsOpen(m)
    /\ mem' = [mem EXCEPT ![m] = NewPosition(i, m, snap)]
    /\ buyer' = [buyer EXCEPT ![b] = NewPosition(i, m, snap)]
    /\ used' = used \cup {i}
    /\ UNCHANGED <<up, db, seller, behind>>

\* INSERT OR REPLACE of a clone.
Write(p) == db' = [db EXCEPT ![p.id] = p]

\* The buyer writes its clone, or a database error skips that. If the sell
\* executor has written the row meanwhile, the older clone replaces the newer.
OpenPersist(b) ==
    LET p == buyer[b]
        late == db[p.id] # NoPos
    IN  /\ p # NoPos
        /\ \/ Write(p) /\ behind' = IF late THEN behind \cup {p.id} ELSE behind
           \/ UNCHANGED db /\ behind' = IF late THEN behind ELSE behind \cup {p.id}
        /\ buyer' = [buyer EXCEPT ![b] = NoPos]
        /\ UNCHANGED <<up, mem, used, seller>>

----------------------------------------------------------------------------
(* TP/SL monitor: update_price_with_stale with a fresh price               *)

\* Any cached position is repriced, whatever its status. A stale update only
\* sets the price_stale flag, which nothing here reads.
UpdatePrice(m) ==
    /\ up
    /\ mem[m] # NoPos
    /\ mem' = [mem EXCEPT ![m].pnl = "spot"]
    /\ UNCHANGED <<up, db, used, buyer, seller, behind>>

----------------------------------------------------------------------------
(* Sell executor                                                           *)

\* A command for an open position is taken from the channel.
SellTake(m) ==
    /\ up /\ spc = "idle"
    /\ IsOpen(m)
    /\ spc' = "attempt" /\ smint' = m /\ attempt' = 1
    /\ UNCHANGED <<up, mem, db, used, buyer, sclone, behind>>

\* Mutant: the loop runs once too often.
NextAttemptOffByOne ==
    \/ attempt <= MaxAttempts /\ attempt' = attempt + 1 /\ spc' = "attempt"
    \/ attempt > MaxAttempts /\ spc' = "errCheck" /\ UNCHANGED attempt

\* The retry loop of main.rs after an execute_sell that returned an error.
NextAttempt ==
    \/ attempt < MaxAttempts /\ attempt' = attempt + 1 /\ spc' = "attempt"
    \/ attempt = MaxAttempts /\ spc' = "errCheck" /\ UNCHANGED attempt

\* execute_sell fails before it touches the position.
SellFails ==
    /\ spc = "attempt"
    /\ NextAttempt
    /\ UNCHANGED <<up, mem, db, used, buyer, smint, sclone, behind>>

\* The sell is verified; update_pnl_realized is the first section it enters.
UpdatePnlRealized ==
    /\ spc = "attempt"
    /\ mem' = IF mem[smint] # NoPos /\ mem[smint].snap
              THEN [mem EXCEPT ![smint].pnl = "realized"] ELSE mem
    /\ spc' = "book"
    /\ UNCHANGED <<up, db, used, buyer, smint, attempt, sclone, behind>>

\* Mutant: the clone is taken before the status is set.
SetStatusStaleClone(m, status, next) ==
    /\ mem[m] # NoPos
    /\ mem' = [mem EXCEPT ![m].status = status]
    /\ sclone' = mem[m]
    /\ spc' = next
    /\ UNCHANGED <<up, db, used, buyer, smint, attempt, behind>>

\* Sets the status in the cache, clones the position and drops the lock.
SetStatus(m, status, next) ==
    /\ mem[m] # NoPos
    /\ mem' = [mem EXCEPT ![m].status = status]
    /\ sclone' = [mem[m] EXCEPT !.status = status]
    /\ spc' = next
    /\ UNCHANGED <<up, db, used, buyer, smint, attempt, behind>>

\* close_position, when no token is left in the wallet.
ClosePosition == spc = "book" /\ SetStatus(smint, "ClosedManual", "persist")

\* reduce_position, when tokens are left. The sold percentage is a truncated
\* f64, so it is 100 only when the balances exceed f64's precision; then the
\* position is closed as ClosedTp.
ReducePosition ==
    /\ spc = "book"
    /\ mem[smint] # NoPos
    /\ \/ SetStatus(smint, mem[smint].status, "persist")
       \/ SetStatus(smint, "ClosedTp", "persist")

\* The sell executor's clone is the latest there is of its position: written, the
\* row is up to date; if the write fails, it is behind.
Persist == Write(sclone) /\ behind' = behind \ {sclone.id}
PersistFails == UNCHANGED db /\ behind' = behind \cup {sclone.id}

\* The clone is written: execute_sell returns Ok and the command is done. If
\* the write fails, execute_sell returns the error and the loop goes on.
SellPersist ==
    /\ spc = "persist"
    /\ \/ Persist /\ spc' = "idle" /\ UNCHANGED attempt
       \/ PersistFails /\ NextAttempt
    /\ sclone' = NoPos
    /\ UNCHANGED <<up, mem, used, buyer, smint>>

\* Mutant: close_position_error without its early return.
CloseErrorCheckUnguarded ==
    /\ spc = "errCheck"
    /\ spc' = "errClear"
    /\ UNCHANGED <<up, mem, db, used, buyer, smint, attempt, sclone, behind>>

\* close_position_error, three sections: the read-locked test, ...
CloseErrorCheck ==
    /\ spc = "errCheck"
    /\ spc' = IF IsOpen(smint) THEN "errClear" ELSE "idle"
    /\ UNCHANGED <<up, mem, db, used, buyer, smint, attempt, sclone, behind>>

\* ... the removal of the spot PnL, ...
CloseErrorClear ==
    /\ spc = "errClear"
    /\ mem' = IF mem[smint] # NoPos
              THEN [mem EXCEPT ![smint].pnl = "zero"] ELSE mem
    /\ spc' = "errMark"
    /\ UNCHANGED <<up, db, used, buyer, smint, attempt, sclone, behind>>

\* ... and close_position_with_status.
CloseErrorMark == spc = "errMark" /\ SetStatus(smint, "ClosedError", "errPersist")

\* Mutant: the failed sell is marked in memory only.
CloseErrorPersistMissing ==
    /\ spc = "errPersist"
    /\ spc' = "idle"
    /\ sclone' = NoPos
    /\ UNCHANGED <<up, mem, db, used, buyer, smint, attempt, behind>>

\* The write that follows close_position_with_status.
CloseErrorPersist ==
    /\ spc = "errPersist"
    /\ Persist \/ PersistFails
    /\ spc' = "idle"
    /\ sclone' = NoPos
    /\ UNCHANGED <<up, mem, used, buyer, smint, attempt>>

----------------------------------------------------------------------------
(* Crash and restart                                                       *)

\* The process dies; only the database survives, and writes still due are lost.
\* What is cached from then on is what was loaded or opened since.
Crash ==
    /\ up
    /\ up' = FALSE
    /\ mem' = [m \in Mints |-> NoPos]
    /\ buyer' = [b \in Buyers |-> NoPos]
    /\ spc' = "idle" /\ sclone' = NoPos
    /\ behind' = {}
    /\ UNCHANGED <<db, used, smint, attempt>>

\* Mutant: the rows of closed positions are loaded too, as open ones.
LoadFromDbAll(pick) ==
    LET Rows(m) == {i \in Ids : db[i] # NoPos /\ db[i].mint = m}
    IN  /\ \A m \in Mints : Rows(m) # {} => pick[m] \in Rows(m)
        /\ mem' = [m \in Mints |-> IF Rows(m) = {} THEN NoPos
                                    ELSE [db[pick[m]] EXCEPT !.status = "Open"]]

\* load_from_db: of several Open rows of a mint only the last one scanned stays
\* in the cache; pick says which. The others are shadowed until the next start.
LoadFromDb(pick) ==
    /\ \A m \in Mints : OpenRows(m) # {} => pick[m] \in OpenRows(m)
    /\ mem' = [m \in Mints |-> IF OpenRows(m) = {} THEN NoPos ELSE db[pick[m]]]

\* main.rs only warns when load_from_db fails, and starts with an empty cache.
LoadFails == UNCHANGED mem

Restart ==
    /\ ~up
    /\ up' = TRUE
    /\ LoadFails \/ \E pick \in [Mints -> Ids] : LoadFromDb(pick)
    /\ UNCHANGED <<db, used, buyer, seller, behind>>

----------------------------------------------------------------------------
(* Specification                                                           *)

Init ==
    /\ up = TRUE
    /\ mem = [m \in Mints |-> NoPos]
    /\ db = [i \in Ids |-> NoPos]
    /\ used = {}
    /\ buyer = [b \in Buyers |-> NoPos]
    /\ spc = "idle" /\ smint \in Mints /\ attempt = 1 /\ sclone = NoPos
    /\ behind = {}

SellNext ==
    \/ \E m \in Mints : SellTake(m)
    \/ SellFails
    \/ UpdatePnlRealized
    \/ ClosePosition
    \/ ReducePosition
    \/ SellPersist
    \/ CloseErrorCheck
    \/ CloseErrorClear
    \/ CloseErrorMark
    \/ CloseErrorPersist

Next ==
    \/ \E b \in Buyers, m \in Mints, i \in Ids, snap \in BOOLEAN :
          OpenInsert(b, m, i, snap)
    \/ \E b \in Buyers : OpenPersist(b)
    \/ \E m \in Mints : UpdatePrice(m)
    \/ SellNext
    \/ Crash
    \/ Restart

Spec == Init /\ [][Next]_vars

----------------------------------------------------------------------------
(* Properties                                                              *)

Closed == Status \ {"Open"}

ClosedKept(m) ==
    /\ mem[m] # NoPos /\ mem[m].status \in Closed
    /\ mem'[m] # NoPos /\ mem'[m].id = mem[m].id
    => /\ mem'[m].status \in Closed
       /\ mem'[m].status = "ClosedError" => mem[m].status = "ClosedError"

\* close_position_error preserves the result of an earlier close: whatever
\* retries, failed writes and re-buys come between its three lock sections, a
\* position that was closed as sold is never turned into ClosedError, and no
\* closed position of the cache is opened again.
ClosedStaysClosed == [][\A m \in Mints : ClosedKept(m)]_vars

OpenKept(m) == IsOpen(m) /\ up' => mem'[m] # NoPos /\ mem'[m].id = mem[m].id

\* The double-buy guard of open_position: as long as the process runs, no step
\* of any task replaces an open position by another one of the same mint.
OpenNotReplaced == [][\A m \in Mints : OpenKept(m)]_vars

\* Memory and database agree: once no write of a cached position is due, its row
\* exists and has its status, unless the last change could not be written or the
\* buyer's older clone was written after it. A later write that succeeds mends
\* it, and so does a restart. This is what persist-after-unlock must keep.
MemDbAgree ==
    \A m \in Mints :
        mem[m] # NoPos /\ mem[m].id \notin behind /\ ~Pending(mem[m].id)
        => db[mem[m].id] # NoPos /\ db[mem[m].id].status = mem[m].status

\* A ghost takes one of the max_positions slots that RiskManager counts, and comes
\* back at some later start: its row says Open although the position is not open
\* in the cache and no write of its close is due.
Ghost(i) ==
    /\ up
    /\ db[i] # NoPos /\ db[i].status = "Open"
    /\ ~(IsOpen(db[i].mint) /\ mem[db[i].mint].id = i)
    /\ ~SellerHolds(i)

\* The only ways to make a ghost: the write of a close fails, or is overwritten by
\* the buyer's older clone; at a start, the load fails, or finds another Open row
\* of the mint. No re-buy, retry, sale given up or crash as such leaves one.
GhostCause(i) ==
    \/ i \in behind'
    \/ ~up /\ \/ \A m \in Mints : mem'[m] = NoPos
              \/ \E j \in OpenRows(db[i].mint) : j # i

GhostsOnlyByFailure ==
    [][\A i \in Ids : Ghost(i)' /\ ~Ghost(i) => GhostCause(i)]_vars

\* A row closed after a verified sell holds the realised PnL ("Must happen
\* BEFORE close_position* so the realized field is persisted"), and a row closed
\* by a failed sell holds none: no closed row shows the spot-price PnL.
NoFantasyPnl ==
    \A i \in Ids : db[i] # NoPos =>
        /\ db[i].status = "ClosedError" => db[i].pnl = "zero"
        /\ db[i].status = "ClosedManual" /\ db[i].snap => db[i].pnl # "spot"

----------------------------------------------------------------------------
(* The store implements PositionLedger                                     *)

\* What the cache shows of the position of a mint.
HeldPosition(m) ==
    IF mem[m] = NoPos THEN NoPos ELSE [id |-> mem[m].id, open |-> mem[m].status = "Open"]

\* The row says closed, and no older clone is left that could overwrite it.
DurablyClosed(i) == db[i] # NoPos /\ db[i].status # "Open" /\ ~BuyerHolds(i)

Held == [m \in Mints |-> HeldPosition(m)]
Final == {i \in Ids : DurablyClosed(i)}

Ledger == INSTANCE PositionLedger WITH drawn <- used, held <- Held, final <- Final

\* Split into lock sections and late writes, with retries, failing writes and
\* crashes, PositionManager still is the ledger its users rely on: in particular
\* a restart never brings back a position whose close was written.
ImplementsLedger == Ledger!Spec

=============================================================================
