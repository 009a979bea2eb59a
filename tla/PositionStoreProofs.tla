------------------------- MODULE PositionStoreProofs -------------------------
(***************************************************************************)
(* Theorems about PositionStore, for any sets of mints, ids and buyers and *)
(* any number of sell attempts.                                            *)
(*                                                                         *)
(* The inductive invariant IInv adds to MemDbAgree what each task may rely *)
(* on between its lock sections: the sell executor is the only task that   *)
(* closes positions (SellerInv); a buyer that still holds a clone has not  *)
(* been overtaken unless the sell executor has written the row, is about   *)
(* to or has failed to (BuyerInv); a row that exists is up to date even    *)
(* before the buyer's write (RowCurrent); ids identify positions (Keys).   *)
(***************************************************************************)
EXTENDS PositionStore, TLAPS

\* Ids identify positions: every record is filed under its own mint or id.
Keys ==
    /\ \A m \in Mints : mem[m] # NoPos => mem[m].mint = m /\ mem[m].id \in used
    /\ \A m, n \in Mints :
          mem[m] # NoPos /\ mem[n] # NoPos /\ mem[m].id = mem[n].id => m = n
    /\ \A i \in Ids : db[i] # NoPos => db[i].id = i /\ i \in used
    /\ \A b \in Buyers : buyer[b] # NoPos => buyer[b].id \in used

\* What the sell executor knows: its position is cached; between the sections
\* of close_position_error it stays open; the clone it is about to persist
\* still describes the cached position.
SellerInv ==
    /\ sclone # NoPos <=> spc \in {"persist", "errPersist"}
    /\ sclone # NoPos => sclone.id \in used
    /\ spc # "idle" => mem[smint] # NoPos
    /\ spc \in {"errClear", "errMark"} => IsOpen(smint)
    /\ \A m \in Mints :
          sclone # NoPos /\ mem[m] # NoPos /\ mem[m].id = sclone.id
          => mem[m].status = sclone.status
    /\ sclone # NoPos /\ sclone.status = "Open"
          => IsOpen(sclone.mint) /\ mem[sclone.mint].id = sclone.id

\* What a buyer knows between insert and persist.
BuyerInv ==
    \A b \in Buyers : buyer[b] # NoPos =>
        /\ buyer[b].status = "Open"
        /\ \/ IsOpen(buyer[b].mint) /\ mem[buyer[b].mint].id = buyer[b].id
           \/ SellerHolds(buyer[b].id)
           \/ db[buyer[b].id] # NoPos
           \/ buyer[b].id \in behind

\* A row that exists has the status of the cached position, whether or not the
\* buyer is still to write it: what its late write may overwrite.
RowCurrent ==
    \A m \in Mints :
        mem[m] # NoPos /\ mem[m].id \notin behind /\ ~SellerHolds(mem[m].id)
        /\ db[mem[m].id] # NoPos
        => db[mem[m].id].status = mem[m].status

\* A process that is down holds nothing.
Down ==
    ~up => /\ spc = "idle"
           /\ \A m \in Mints : mem[m] = NoPos
           /\ \A b \in Buyers : buyer[b] = NoPos

IInv == TypeOK /\ Keys /\ SellerInv /\ BuyerInv /\ Down /\ RowCurrent /\ MemDbAgree

----------------------------------------------------------------------------

(* Type correctness                                                        *)

\* A write of a clone, or one that fails, leaves a typed table.
LEMMA WriteType ==
  ASSUME TypeOK, NEW p \in Position, Write(p) \/ UNCHANGED db
  PROVE  p.id \in Ids /\ db' \in [Ids -> Position \cup {NoPos}]
<1>1. p.id \in Ids
  BY DEF Position
<1>2. QED
  BY <1>1 DEF TypeOK, Write

\* The section shared by close_position, reduce_position and
\* close_position_with_status keeps the types.
LEMMA SetStatusType ==
  ASSUME TypeOK, NEW m \in Mints, NEW st \in Status, NEW next \in SellerPc,
         SetStatus(m, st, next)
  PROVE  TypeOK'
<1>1. /\ [mem[m] EXCEPT !.status = st] \in Position
      /\ mem[m].id \in Ids
  BY DEF TypeOK, SetStatus, Position
<1>2. QED
  BY <1>1 DEF TypeOK, SetStatus

\* Every action keeps the types of all variables.
LEMMA TypeStep == TypeOK /\ SellerInv /\ [Next]_vars => TypeOK'
<1> SUFFICES ASSUME TypeOK, SellerInv, [Next]_vars PROVE TypeOK'
  OBVIOUS
<1> USE ConstantsAssumption DEF TypeOK
<1>1. ASSUME NEW b \in Buyers, NEW m \in Mints, NEW i \in Ids,
             NEW snap \in BOOLEAN, OpenInsert(b, m, i, snap)
      PROVE  TypeOK'
  <2>1. NewPosition(i, m, snap) \in Position
    BY DEF NewPosition, Position, Status, Pnl
  <2>2. QED
    BY <1>1, <2>1 DEF OpenInsert, seller
<1>2. ASSUME NEW b \in Buyers, OpenPersist(b) PROVE TypeOK'
  BY <1>2, WriteType DEF OpenPersist, seller
<1>3. ASSUME NEW m \in Mints, UpdatePrice(m) PROVE TypeOK'
  <2>1. [mem[m] EXCEPT !.pnl = "spot"] \in Position
    BY <1>3 DEF UpdatePrice, Position, Pnl
  <2>2. QED
    BY <1>3, <2>1 DEF UpdatePrice, seller
<1>4. ASSUME NEW m \in Mints, SellTake(m) PROVE TypeOK'
  BY <1>4 DEF SellTake, SellerPc
<1>5. ASSUME SellFails PROVE TypeOK'
  BY <1>5 DEF SellFails, NextAttempt, SellerPc
<1>6. ASSUME UpdatePnlRealized PROVE TypeOK'
  <2>1. mem[smint] # NoPos => [mem[smint] EXCEPT !.pnl = "realized"] \in Position
    BY DEF Position, Pnl
  <2>2. QED
    BY <1>6, <2>1 DEF UpdatePnlRealized, SellerPc
<1>7. ASSUME ClosePosition PROVE TypeOK'
  BY <1>7, SetStatusType DEF ClosePosition, Status, SellerPc
<1>8. ASSUME ReducePosition PROVE TypeOK'
  <2>1. mem[smint].status \in Status
    BY <1>8 DEF ReducePosition, Position
  <2>2. QED
    BY <1>8, <2>1, SetStatusType DEF ReducePosition, Status, SellerPc
<1>9. ASSUME SellPersist PROVE TypeOK'
  <2>1. sclone \in Position
    BY <1>9 DEF SellPersist, SellerInv
  <2>2. attempt' \in 1 .. MaxAttempts /\ spc' \in SellerPc
    BY <1>9 DEF SellPersist, NextAttempt, SellerPc
  <2>3. QED
    BY <1>9, <2>1, <2>2, WriteType DEF SellPersist, Persist, PersistFails
<1>10. ASSUME CloseErrorCheck PROVE TypeOK'
  BY <1>10 DEF CloseErrorCheck, SellerPc
<1>11. ASSUME CloseErrorClear PROVE TypeOK'
  <2>1. mem[smint] # NoPos => [mem[smint] EXCEPT !.pnl = "zero"] \in Position
    BY DEF Position, Pnl
  <2>2. QED
    BY <1>11, <2>1 DEF CloseErrorClear, SellerPc
<1>12. ASSUME CloseErrorMark PROVE TypeOK'
  BY <1>12, SetStatusType DEF CloseErrorMark, Status, SellerPc
<1>13. ASSUME CloseErrorPersist PROVE TypeOK'
  <2>1. sclone \in Position
    BY <1>13 DEF CloseErrorPersist, SellerInv
  <2>2. QED
    BY <1>13, <2>1, WriteType DEF CloseErrorPersist, Persist, PersistFails, SellerPc
<1>14. ASSUME Crash PROVE TypeOK'
  BY <1>14 DEF Crash, SellerPc
<1>15. ASSUME Restart PROVE TypeOK'
  <2>1. CASE LoadFails
    BY <1>15, <2>1 DEF Restart, LoadFails, OpenRows, seller
  <2>2. ASSUME NEW pick \in [Mints -> Ids], LoadFromDb(pick) PROVE TypeOK'
    BY <1>15, <2>2 DEF Restart, LoadFromDb, OpenRows, seller
  <2>3. QED
    BY <1>15, <2>1, <2>2 DEF Restart
<1>16. CASE UNCHANGED vars
  BY <1>16 DEF vars
<1> QED
  BY <1>1, <1>2, <1>3, <1>4, <1>5, <1>6, <1>7, <1>8, <1>9, <1>10, <1>11, <1>12,
     <1>13, <1>14, <1>15, <1>16 DEF Next, SellNext

----------------------------------------------------------------------------
(* The inductive invariant, one lemma per kind of step                     *)

\* What the invariants see of the cache: everything but the PnL.
SameButPnl ==
    \A n \in Mints :
        /\ mem'[n] = NoPos <=> mem[n] = NoPos
        /\ mem[n] # NoPos => /\ mem'[n].id = mem[n].id
                             /\ mem'[n].mint = mem[n].mint
                             /\ mem'[n].status = mem[n].status

\* Writing the PnL of one position leaves id, mint and status alone.
LEMMA PnlWrite ==
  ASSUME TypeOK, NEW m \in Mints, mem[m] # NoPos, NEW v \in Pnl,
         mem' = [mem EXCEPT ![m].pnl = v]
  PROVE  SameButPnl
<1>1. mem[m] \in Position
  BY DEF TypeOK
<1>2. [mem[m] EXCEPT !.pnl = v] \in Position
  BY <1>1 DEF Position
<1>3. /\ mem'[m] = [mem[m] EXCEPT !.pnl = v]
      /\ \A n \in Mints \ {m} : mem'[n] = mem[n]
  BY DEF TypeOK
<1>4. /\ mem'[m].id = mem[m].id
      /\ mem'[m].mint = mem[m].mint
      /\ mem'[m].status = mem[m].status
  BY <1>1, <1>3 DEF Position
<1>5. QED
  BY <1>2, <1>3, <1>4, ConstantsAssumption DEF SameButPnl

\* A step that only changes PnL and moves the sell executor on keeps IInv.
LEMMA RepriceInv ==
  ASSUME IInv, TypeOK', SameButPnl,
         UNCHANGED <<up, db, used, buyer, smint, sclone, behind>>,
         \/ UNCHANGED spc
         \/ spc = "attempt" /\ spc' = "book"
         \/ spc = "errClear" /\ spc' = "errMark"
  PROVE  IInv'
<1> USE DEF IInv, TypeOK, SameButPnl
<1>1. \A i : Pending(i)' = Pending(i) /\ SellerHolds(i)' = SellerHolds(i)
  BY DEF Pending, BuyerHolds, SellerHolds
<1>2. \A m \in Mints : IsOpen(m)' <=> IsOpen(m)
  BY DEF IsOpen
<1>4. Keys'
  BY DEF Keys
<1>5. SellerInv'
  <2>1. sclone # NoPos => sclone.mint \in Mints
    BY DEF Position
  <2>2. QED
    BY <1>2, <2>1 DEF SellerInv
<1>6. BuyerInv'
  <2>1. \A b \in Buyers : buyer[b] # NoPos => buyer[b].mint \in Mints
    BY DEF Position
  <2>2. QED
    BY <1>1, <1>2, <2>1 DEF BuyerInv, IsOpen
<1>7. Down'
  BY DEF Down
<1>8. MemDbAgree'
  BY <1>1 DEF MemDbAgree
<1>9. RowCurrent'
  BY <1>1 DEF RowCurrent
<1>10. QED
  BY <1>4, <1>5, <1>6, <1>7, <1>8, <1>9

\* A step of the sell executor that touches neither positions nor rows.
LEMMA SellerMoveInv ==
  ASSUME IInv, TypeOK',
         UNCHANGED <<up, mem, db, used, buyer, sclone, behind>>,
         up, spc \notin {"persist", "errPersist"},
         spc' \in {"idle", "attempt", "errCheck", "errClear"},
         spc' # "idle" => mem[smint'] # NoPos,
         spc' = "errClear" => IsOpen(smint')
  PROVE  IInv'
<1> USE DEF IInv
<1>1. Keys' /\ BuyerInv' /\ Down' /\ RowCurrent' /\ MemDbAgree'
  BY DEF Keys, BuyerInv, Down, RowCurrent, MemDbAgree, IsOpen,
         Pending, BuyerHolds, SellerHolds
<1>2. SellerInv'
  BY DEF SellerInv, IsOpen
<1>3. QED
  BY <1>1, <1>2

\* open_position's locked section: the id is new, so no other record, clone or
\* row is affected; the replaced cache entry was not open.
LEMMA OpenInsertInv ==
  ASSUME IInv, TypeOK', NEW b \in Buyers, NEW m \in Mints, NEW i \in Ids,
         NEW snap \in BOOLEAN, OpenInsert(b, m, i, snap)
  PROVE  IInv'
<1> DEFINE p == NewPosition(i, m, snap)
<1> USE DEF IInv, TypeOK, OpenInsert, seller
<1>1. /\ p \in Position /\ p # NoPos
      /\ p.id = i /\ p.mint = m /\ p.status = "Open"
  BY ConstantsAssumption DEF NewPosition, Position, Status, Pnl
<1>2. /\ mem'[m] = p
      /\ \A n \in Mints \ {m} : mem'[n] = mem[n]
      /\ buyer'[b] = p
      /\ \A c \in Buyers \ {b} : buyer'[c] = buyer[c]
      /\ used' = used \cup {i} /\ i \notin used
      /\ UNCHANGED <<up, db, spc, smint, attempt, sclone, behind>>
      /\ up /\ ~IsOpen(m)
      /\ buyer[b] = NoPos
  OBVIOUS
<1> HIDE DEF p, OpenInsert
<1>3. \A n \in Mints \ {m} : IsOpen(n)' = IsOpen(n)
  BY <1>2 DEF IsOpen
<1>4. IsOpen(m)'
  BY <1>1, <1>2 DEF IsOpen
<1>5. Keys'
  BY <1>1, <1>2 DEF Keys
<1>6. SellerInv'
  <2>1. sclone # NoPos => sclone.mint \in Mints
    BY DEF Position
  <2>2. sclone # NoPos => sclone.id # i
    BY <1>2 DEF SellerInv
  <2>3. QED
    BY <1>1, <1>2, <1>3, <1>4, <2>1, <2>2 DEF SellerInv
<1>7. BuyerInv'
  <2>1. \A c \in Buyers : buyer[c] # NoPos => buyer[c].mint \in Mints
    BY DEF Position
  <2>2. QED
    BY <1>1, <1>2, <1>3, <1>4, <2>1 DEF BuyerInv, SellerHolds
<1>8. Down'
  BY <1>2 DEF Down
<1>9. MemDbAgree'
  <2>1. BuyerHolds(i)'
    BY <1>1, <1>2 DEF BuyerHolds
  <2>2. \A j : Pending(j) => Pending(j)'
    BY <1>2 DEF Pending, BuyerHolds, SellerHolds
  <2>3. QED
    BY <1>1, <1>2, <2>1, <2>2 DEF MemDbAgree, Pending
<1>10. RowCurrent'
  <2>1. db[i] = NoPos
    BY <1>2 DEF Keys
  <2>2. \A j : SellerHolds(j)' = SellerHolds(j)
    BY <1>2 DEF SellerHolds
  <2>3. QED
    BY <1>1, <1>2, <2>1, <2>2 DEF RowCurrent
<1>11. QED
  BY <1>5, <1>6, <1>7, <1>8, <1>9, <1>10

\* open_position's write, after the lock was dropped. If the row exists already,
\* the clone is old and the id is marked; otherwise, by BuyerInv, it still is the
\* open position of its mint, or the sell executor's write is due or has failed.
LEMMA OpenPersistInv ==
  ASSUME IInv, TypeOK', NEW b \in Buyers, OpenPersist(b)
  PROVE  IInv'
<1> DEFINE p == buyer[b]
<1> USE DEF IInv, TypeOK, OpenPersist, seller
<1>1. /\ p \in Position /\ p # NoPos
      /\ p.id \in Ids /\ p.mint \in Mints /\ p.id \in used /\ p.status = "Open"
      /\ \/ IsOpen(p.mint) /\ mem[p.mint].id = p.id
         \/ SellerHolds(p.id) \/ db[p.id] # NoPos \/ p.id \in behind
  BY DEF Position, Keys, BuyerInv
<1>2. /\ buyer'[b] = NoPos
      /\ \A c \in Buyers \ {b} : buyer'[c] = buyer[c]
      /\ UNCHANGED <<up, mem, used, spc, smint, attempt, sclone>>
      /\ behind \subseteq behind' /\ behind' \subseteq behind \cup {p.id}
      /\ \A j \in Ids \ {p.id} : db'[j] = db[j]
      /\ \/ db'[p.id] = p /\ (db[p.id] # NoPos => p.id \in behind')
         \/ db' = db /\ (db[p.id] = NoPos => p.id \in behind')
  BY <1>1 DEF Write
<1> HIDE DEF p, OpenPersist
<1>3. Keys'
  BY <1>1, <1>2 DEF Keys
<1>4. SellerInv'
  BY <1>2 DEF SellerInv, IsOpen
<1>5. BuyerInv'
  <2>1. \A c \in Buyers : buyer[c] # NoPos => buyer[c].id \in Ids
    BY DEF Position
  <2>2. \A j \in Ids : db[j] # NoPos => db'[j] # NoPos
    BY <1>1, <1>2
  <2>3. QED
    BY <1>2, <2>1, <2>2 DEF BuyerInv, IsOpen, SellerHolds
<1>6. Down'
  BY <1>2 DEF Down
<1>7. RowCurrent'
  <2> SUFFICES ASSUME NEW m \in Mints, mem[m] # NoPos, mem[m].id \notin behind',
                      ~SellerHolds(mem[m].id), db'[mem[m].id] # NoPos
               PROVE  db'[mem[m].id].status = mem[m].status
    BY <1>2 DEF RowCurrent, SellerHolds
  <2>1. mem[m].id \in Ids /\ mem[m].id \notin behind
    BY <1>2 DEF Position
  <2>2. CASE mem[m].id = p.id /\ db' # db
    <3>1. IsOpen(p.mint) /\ mem[p.mint].id = p.id
      BY <1>1, <1>2, <2>1, <2>2
    <3>2. mem[m].status = "Open"
      BY <1>1, <2>2, <3>1 DEF Keys, IsOpen
    <3>3. QED
      BY <1>1, <1>2, <2>2, <3>2
  <2>3. CASE mem[m].id # p.id \/ db' = db
    BY <1>2, <2>1, <2>3 DEF RowCurrent
  <2>4. QED
    BY <2>2, <2>3
<1>8. MemDbAgree'
  <2> SUFFICES ASSUME NEW m \in Mints, mem[m] # NoPos, mem[m].id \notin behind',
                      ~Pending(mem[m].id)'
               PROVE  db'[mem[m].id] # NoPos /\ db'[mem[m].id].status = mem[m].status
    BY <1>2 DEF MemDbAgree
  <2>1. mem[m].id \in Ids /\ mem[m].id \notin behind
    BY <1>2 DEF Position
  <2>2. CASE mem[m].id = p.id
    <3>1. db'[mem[m].id] # NoPos
      BY <1>1, <1>2, <2>2
    <3>2. ~SellerHolds(mem[m].id)'
      BY DEF Pending
    <3>3. QED
      BY <1>2, <1>7, <3>1, <3>2 DEF RowCurrent, SellerHolds
  <2>3. CASE mem[m].id # p.id
    <3>1. ~Pending(mem[m].id)
      BY <1>2, <2>3 DEF Pending, BuyerHolds, SellerHolds, p
    <3>2. QED
      BY <1>2, <2>1, <2>3, <3>1 DEF MemDbAgree
  <2>4. QED
    BY <2>2, <2>3
<1>9. QED
  BY <1>3, <1>4, <1>5, <1>6, <1>7, <1>8

\* close_position, reduce_position and close_position_with_status: the cached
\* status changes and the clone becomes the write that is due.
LEMMA SetStatusInv ==
  ASSUME IInv, TypeOK', NEW st \in Status, NEW next \in {"persist", "errPersist"},
         spc \in {"book", "errMark"}, SetStatus(smint, st, next),
         st = "Open" => mem[smint].status = "Open"
  PROVE  IInv'
<1> DEFINE id == mem[smint].id
<1> USE DEF IInv, TypeOK, SetStatus
<1>1. /\ mem[smint] \in Position /\ id \in Ids /\ id \in used
      /\ mem[smint].mint = smint /\ sclone = NoPos /\ up
  BY DEF Position, Keys, SellerInv, Down
<1>2. /\ sclone' \in Position /\ sclone' # NoPos
      /\ sclone'.id = id /\ sclone'.mint = smint /\ sclone'.status = st
      /\ mem'[smint] = sclone'
  BY <1>1, ConstantsAssumption DEF Position
<1>3. /\ \A n \in Mints \ {smint} : mem'[n] = mem[n]
      /\ \A n \in Mints \ {smint} : mem[n] # NoPos => mem[n].id # id
      /\ UNCHANGED <<up, db, used, buyer, smint, attempt, behind>>
      /\ spc' = next
  BY <1>1 DEF Keys
<1> HIDE DEF id, SetStatus
<1>4. \A n \in Mints \ {smint} : IsOpen(n)' = IsOpen(n)
  BY <1>3 DEF IsOpen
<1>5. Keys'
  BY <1>1, <1>2, <1>3 DEF Keys
<1>6. SellerInv'
  BY <1>1, <1>2, <1>3 DEF SellerInv, IsOpen
<1>7. BuyerInv'
  <2>1. \A c \in Buyers : buyer[c] # NoPos => buyer[c].mint \in Mints
    BY DEF Position
  <2>2. \A j : j = id => SellerHolds(j)'
    BY <1>2 DEF SellerHolds
  <2>3. \A j : ~SellerHolds(j)
    BY <1>1 DEF SellerHolds
  <2>4. QED
    BY <1>3, <1>4, <2>1, <2>2, <2>3 DEF BuyerInv, id
<1>8. Down'
  BY <1>1, <1>3 DEF Down
<1>9. MemDbAgree'
  <2>1. \A j : j = id => Pending(j)'
    BY <1>2 DEF Pending, SellerHolds
  <2>2. \A j : Pending(j) => Pending(j)'
    BY <1>1, <1>3 DEF Pending, BuyerHolds, SellerHolds
  <2>3. QED
    BY <1>2, <1>3, <2>1, <2>2 DEF MemDbAgree
<1>10. RowCurrent'
  <2>1. \A j : ~SellerHolds(j) /\ (j = id => SellerHolds(j)')
    BY <1>1, <1>2 DEF SellerHolds
  <2>2. QED
    BY <1>2, <1>3, <2>1 DEF RowCurrent
<1>11. QED
  BY <1>5, <1>6, <1>7, <1>8, <1>9, <1>10

\* The write that follows: by SellerInv the cached position still has the
\* status of the clone.
LEMMA SellWriteInv ==
  ASSUME IInv, TypeOK', Persist \/ PersistFails,
         spc \in {"persist", "errPersist"}, spc' \in {"idle", "attempt", "errCheck"},
         sclone' = NoPos, UNCHANGED <<up, mem, used, buyer, smint>>
  PROVE  IInv'
<1> USE DEF IInv, TypeOK
<1>1. /\ sclone \in Position /\ sclone # NoPos
      /\ sclone.id \in Ids /\ sclone.mint \in Mints /\ sclone.id \in used
  BY DEF Position, SellerInv
<1>2. /\ db'[sclone.id] = sclone \/ (db' = db /\ sclone.id \in behind')
      /\ \A j \in Ids \ {sclone.id} : db'[j] = db[j]
      /\ \A j \in Ids \ {sclone.id} : j \in behind' <=> j \in behind
  BY <1>1 DEF Persist, PersistFails, Write
<1>3. Keys'
  BY <1>1, <1>2 DEF Keys
<1>4. SellerInv'
  BY DEF SellerInv
<1>5. BuyerInv'
  <2> SUFFICES ASSUME NEW c \in Buyers, buyer[c] # NoPos,
                      ~(IsOpen(buyer[c].mint) /\ mem[buyer[c].mint].id = buyer[c].id)
               PROVE  db'[buyer[c].id] # NoPos \/ buyer[c].id \in behind'
    BY DEF BuyerInv, IsOpen
  <2>1. buyer[c].id \in Ids
    BY DEF Position
  <2>2. CASE buyer[c].id = sclone.id
    BY <1>1, <1>2, <2>2
  <2>3. CASE buyer[c].id # sclone.id
    BY <1>2, <2>1, <2>3 DEF BuyerInv, SellerHolds
  <2>4. QED
    BY <2>2, <2>3
<1>6. Down'
  BY DEF Down, SellerInv
<1>7. MemDbAgree'
  <2> SUFFICES ASSUME NEW m \in Mints, mem[m] # NoPos, mem[m].id \notin behind',
                      ~Pending(mem[m].id)'
               PROVE  db'[mem[m].id] # NoPos /\ db'[mem[m].id].status = mem[m].status
    BY DEF MemDbAgree
  <2>1. mem[m].id \in Ids
    BY DEF Position
  <2>2. CASE mem[m].id = sclone.id
    BY <1>1, <1>2, <2>2 DEF SellerInv
  <2>3. CASE mem[m].id # sclone.id
    <3>1. ~Pending(mem[m].id)
      BY <2>3 DEF Pending, BuyerHolds, SellerHolds
    <3>2. QED
      BY <1>2, <2>1, <2>3, <3>1 DEF MemDbAgree
  <2>4. QED
    BY <2>2, <2>3
<1>8. RowCurrent'
  <2> SUFFICES ASSUME NEW m \in Mints, mem[m] # NoPos, mem[m].id \notin behind',
                      db'[mem[m].id] # NoPos
               PROVE  db'[mem[m].id].status = mem[m].status
    BY DEF RowCurrent
  <2>1. mem[m].id \in Ids
    BY DEF Position
  <2>2. CASE mem[m].id = sclone.id
    BY <1>1, <1>2, <2>2 DEF SellerInv
  <2>3. CASE mem[m].id # sclone.id
    BY <1>2, <2>1, <2>3 DEF RowCurrent, SellerHolds
  <2>4. QED
    BY <2>2, <2>3
<1>9. QED
  BY <1>3, <1>4, <1>5, <1>6, <1>7, <1>8

\* A crash loses the cache and the writes that were due, and nothing else.
LEMMA CrashInv ==
  ASSUME IInv, TypeOK', Crash
  PROVE  IInv'
<1> USE DEF IInv, TypeOK, Crash
<1>1. Keys' /\ BuyerInv' /\ Down'
  BY DEF Keys, BuyerInv, Down
<1>2. SellerInv'
  BY DEF SellerInv
<1>3. RowCurrent' /\ MemDbAgree'
  BY DEF RowCurrent, MemDbAgree
<1>4. QED
  BY <1>1, <1>2, <1>3

\* A restart caches at most one Open row per mint, as it is in the database.
LEMMA RestartInv ==
  ASSUME IInv, TypeOK', Restart
  PROVE  IInv'
<1> USE DEF IInv, TypeOK, Restart, seller
<1>1. /\ ~up /\ up' /\ spc = "idle" /\ sclone = NoPos
      /\ \A m \in Mints : mem[m] = NoPos
      /\ \A b \in Buyers : buyer[b] = NoPos
      /\ UNCHANGED <<db, used, buyer, spc, smint, attempt, sclone>>
  BY DEF Down, SellerInv
<1>3. \A m \in Mints : mem'[m] # NoPos =>
          /\ \E i \in OpenRows(m) : mem'[m] = db[i]
          /\ mem'[m].mint = m /\ mem'[m].id \in Ids /\ mem'[m].id \in used
          /\ mem'[m] = db[mem'[m].id] /\ mem'[m].status = "Open"
  <2>1. CASE LoadFails
    BY <1>1, <2>1 DEF LoadFails
  <2>2. ASSUME NEW pick \in [Mints -> Ids], LoadFromDb(pick), NEW m \in Mints,
               mem'[m] # NoPos
        PROVE  /\ \E i \in OpenRows(m) : mem'[m] = db[i]
               /\ mem'[m].mint = m /\ mem'[m].id \in Ids /\ mem'[m].id \in used
               /\ mem'[m] = db[mem'[m].id] /\ mem'[m].status = "Open"
    <3>1. pick[m] \in OpenRows(m) /\ mem'[m] = db[pick[m]]
      BY <2>2 DEF LoadFromDb
    <3>2. QED
      BY <3>1 DEF OpenRows, Keys
  <2>3. QED
    BY <2>1, <2>2
<1> HIDE DEF Restart
<1>5. Keys'
  BY <1>1, <1>3 DEF Keys
<1>6. SellerInv'
  BY <1>1 DEF SellerInv
<1>7. BuyerInv' /\ Down'
  BY <1>1 DEF BuyerInv, Down
<1>8. MemDbAgree'
  BY <1>1, <1>3 DEF MemDbAgree
<1>9. RowCurrent'
  BY <1>1, <1>3 DEF RowCurrent
<1>10. QED
  BY <1>5, <1>6, <1>7, <1>8, <1>9

----------------------------------------------------------------------------
(* Induction and theorems                                                  *)

\* The start with an empty cache and table satisfies the invariant.
LEMMA InitInv == Init => IInv
<1> SUFFICES ASSUME Init PROVE IInv
  OBVIOUS
<1> USE ConstantsAssumption DEF Init
<1>1. TypeOK
  BY DEF TypeOK, SellerPc
<1>2. Keys /\ BuyerInv /\ Down /\ RowCurrent /\ MemDbAgree
  BY DEF Keys, BuyerInv, Down, RowCurrent, MemDbAgree
<1>3. SellerInv
  BY DEF SellerInv
<1>4. QED
  BY <1>1, <1>2, <1>3 DEF IInv

\* Every step of every task keeps the inductive invariant.
LEMMA InvStep == IInv /\ [Next]_vars => IInv'
<1> SUFFICES ASSUME IInv, [Next]_vars PROVE IInv'
  OBVIOUS
<1>0. TypeOK /\ SellerInv /\ Down /\ TypeOK'
  BY TypeStep DEF IInv
<1>1. ASSUME NEW b \in Buyers, NEW m \in Mints, NEW i \in Ids,
             NEW snap \in BOOLEAN, OpenInsert(b, m, i, snap)
      PROVE  IInv'
  BY <1>0, <1>1, OpenInsertInv
<1>2. ASSUME NEW b \in Buyers, OpenPersist(b) PROVE IInv'
  BY <1>0, <1>2, OpenPersistInv
<1>3. ASSUME NEW m \in Mints, UpdatePrice(m) PROVE IInv'
  <2>1. SameButPnl
    BY <1>0, <1>3, PnlWrite DEF UpdatePrice, Pnl
  <2>2. QED
    BY <1>0, <1>3, <2>1, RepriceInv DEF UpdatePrice, seller
<1>4. ASSUME NEW m \in Mints, SellTake(m) PROVE IInv'
  BY <1>0, <1>4, SellerMoveInv DEF SellTake, IsOpen
<1>5. ASSUME SellFails PROVE IInv'
  <2>1. up /\ mem[smint] # NoPos /\ spc' \in {"attempt", "errCheck"}
    BY <1>0, <1>5 DEF SellFails, NextAttempt, Down, SellerInv, TypeOK
  <2>2. QED
    BY <1>0, <1>5, <2>1, SellerMoveInv DEF SellFails
<1>6. ASSUME UpdatePnlRealized PROVE IInv'
  <2>1. SameButPnl
    <3>1. CASE mem[smint] # NoPos /\ mem[smint].snap
      BY <1>0, <1>6, <3>1, PnlWrite DEF UpdatePnlRealized, Pnl, TypeOK
    <3>2. CASE ~(mem[smint] # NoPos /\ mem[smint].snap)
      BY <1>6, <3>2 DEF UpdatePnlRealized, SameButPnl
    <3>3. QED
      BY <3>1, <3>2
  <2>2. QED
    BY <1>0, <1>6, <2>1, RepriceInv DEF UpdatePnlRealized
<1>7. ASSUME ClosePosition PROVE IInv'
  BY <1>0, <1>7, SetStatusInv DEF ClosePosition, Status
<1>8. ASSUME ReducePosition PROVE IInv'
  <2>1. mem[smint].status \in Status /\ spc = "book"
    BY <1>0, <1>8 DEF ReducePosition, TypeOK, Position
  <2>2. CASE SetStatus(smint, mem[smint].status, "persist")
    BY <1>0, <2>1, <2>2, SetStatusInv
  <2>3. CASE SetStatus(smint, "ClosedTp", "persist")
    BY <1>0, <2>1, <2>3, SetStatusInv DEF Status
  <2>4. QED
    BY <1>8, <2>2, <2>3 DEF ReducePosition
<1>9. ASSUME SellPersist PROVE IInv'
  <2>1. Persist \/ PersistFails
    BY <1>9 DEF SellPersist
  <2>2. /\ spc = "persist" /\ spc' \in {"idle", "attempt", "errCheck"}
        /\ sclone' = NoPos /\ UNCHANGED <<up, mem, used, buyer, smint>>
    BY <1>9 DEF SellPersist, NextAttempt
  <2>3. QED
    BY <1>0, <2>1, <2>2, SellWriteInv
<1>10. ASSUME CloseErrorCheck PROVE IInv'
  <2>1. up
    BY <1>0, <1>10 DEF CloseErrorCheck, Down, TypeOK
  <2>2. QED
    BY <1>0, <1>10, <2>1, SellerMoveInv DEF CloseErrorCheck, IsOpen
<1>11. ASSUME CloseErrorClear PROVE IInv'
  <2>1. SameButPnl
    <3>1. smint \in Mints /\ mem[smint] # NoPos
      BY <1>0, <1>11 DEF CloseErrorClear, SellerInv, TypeOK
    <3>2. QED
      BY <1>0, <1>11, <3>1, PnlWrite DEF CloseErrorClear, Pnl
  <2>2. QED
    BY <1>0, <1>11, <2>1, RepriceInv DEF CloseErrorClear
<1>12. ASSUME CloseErrorMark PROVE IInv'
  BY <1>0, <1>12, SetStatusInv DEF CloseErrorMark, Status
<1>13. ASSUME CloseErrorPersist PROVE IInv'
  <2>1. Persist \/ PersistFails
    BY <1>13 DEF CloseErrorPersist
  <2>2. QED
    BY <1>0, <1>13, <2>1, SellWriteInv DEF CloseErrorPersist
<1>14. ASSUME Crash PROVE IInv'
  BY <1>0, <1>14, CrashInv
<1>15. ASSUME Restart PROVE IInv'
  BY <1>0, <1>15, RestartInv
<1>16. CASE UNCHANGED vars
  <2>1. SameButPnl
    BY <1>16 DEF vars, SameButPnl
  <2>2. QED
    BY <1>0, <1>16, <2>1, RepriceInv DEF vars
<1> QED
  BY <1>1, <1>2, <1>3, <1>4, <1>5, <1>6, <1>7, <1>8, <1>9, <1>10, <1>11, <1>12,
     <1>13, <1>14, <1>15, <1>16 DEF Next, SellNext

\* Every reachable state of the store, crashes and failed writes included,
\* satisfies the inductive invariant.
THEOREM Invariance == Spec => []IInv
<1>1. QED
  BY InitInv, InvStep, PTL DEF Spec

\* PositionManager and the tasks around it never leave their types; in
\* particular the retry counter of the sell executor stays within its bound.
THEOREM TypeCorrect == Spec => []TypeOK
<1>1. IInv => TypeOK
  BY DEF IInv
<1>2. QED
  BY <1>1, Invariance, PTL

\* The cache and the table agree on every position that has no write due, unless
\* its last change could not be written or was overwritten by an older clone;
\* through retries, crashes and restarts.
THEOREM Agreement == Spec => []MemDbAgree
<1>1. IInv => MemDbAgree
  BY DEF IInv
<1>2. QED
  BY <1>1, Invariance, PTL

----------------------------------------------------------------------------
(* What a step may never do                                                *)

\* A status is only ever changed by SetStatus, to a closed one, and to
\* ClosedError only while the position is open.
LEMMA SetStatusKept ==
  ASSUME IInv, NEW st \in Status, NEW next, SetStatus(smint, st, next),
         st = "Open" => mem[smint].status = "Open",
         st = "ClosedError" => mem[smint].status \in {"Open", "ClosedError"},
         NEW m \in Mints
  PROVE  ClosedKept(m) /\ OpenKept(m)
<1> USE DEF IInv, TypeOK, SetStatus
<1>1. CASE m = smint
  <2>1. mem'[m].id = mem[m].id /\ mem'[m].status = st /\ mem'[m] # NoPos
    <3>1. mem[m] \in Position /\ mem'[m] = [mem[m] EXCEPT !.status = st]
      BY <1>1
    <3>2. [mem[m] EXCEPT !.status = st] \in Position
      BY <3>1 DEF Position
    <3>3. QED
      BY <3>1, <3>2, ConstantsAssumption DEF Position
  <2>2. QED
    BY <1>1, <2>1 DEF ClosedKept, OpenKept, Closed
<1>2. CASE m # smint
  BY <1>2 DEF ClosedKept, OpenKept, IsOpen
<1>3. QED
  BY <1>1, <1>2

\* No step reopens or relabels a closed position, or replaces an open one.
LEMMA KeptStep ==
  ASSUME IInv, [Next]_vars, NEW m \in Mints
  PROVE  ClosedKept(m) /\ OpenKept(m)
<1>0. TypeOK /\ Keys /\ SellerInv /\ Down
  BY DEF IInv
<1> USE DEF ClosedKept, OpenKept
<1>a. ASSUME SameButPnl PROVE ClosedKept(m) /\ OpenKept(m)
  BY <1>a DEF SameButPnl, IsOpen
<1>b. ASSUME UNCHANGED mem PROVE ClosedKept(m) /\ OpenKept(m)
  BY <1>b DEF IsOpen
<1>1. ASSUME NEW b \in Buyers, NEW n \in Mints, NEW i \in Ids,
             NEW snap \in BOOLEAN, OpenInsert(b, n, i, snap)
      PROVE  ClosedKept(m) /\ OpenKept(m)
  <2>1. CASE m = n
    <3>1. ~IsOpen(m) /\ mem'[m] = NewPosition(i, m, snap) /\ i \notin used
      BY <1>0, <1>1, <2>1 DEF OpenInsert, TypeOK
    <3>2. mem[m] # NoPos => mem'[m].id # mem[m].id
      BY <1>0, <3>1 DEF Keys, NewPosition
    <3>3. QED
      BY <3>1, <3>2
  <2>2. CASE m # n
    BY <1>0, <1>1, <2>2 DEF OpenInsert, TypeOK, IsOpen
  <2>3. QED
    BY <2>1, <2>2
<1>2. ASSUME NEW b \in Buyers, OpenPersist(b) PROVE ClosedKept(m) /\ OpenKept(m)
  BY <1>2, <1>b DEF OpenPersist
<1>3. ASSUME NEW n \in Mints, UpdatePrice(n) PROVE ClosedKept(m) /\ OpenKept(m)
  BY <1>0, <1>3, <1>a, PnlWrite DEF UpdatePrice, Pnl
<1>4. CASE \/ \E n \in Mints : SellTake(n)
           \/ SellFails \/ SellPersist \/ CloseErrorCheck \/ CloseErrorPersist
  BY <1>4, <1>b DEF SellTake, SellFails, SellPersist, CloseErrorCheck, CloseErrorPersist
<1>5. CASE UpdatePnlRealized
  <2>1. CASE mem[smint] # NoPos /\ mem[smint].snap
    BY <1>0, <1>5, <2>1, <1>a, PnlWrite DEF UpdatePnlRealized, Pnl, TypeOK
  <2>2. CASE ~(mem[smint] # NoPos /\ mem[smint].snap)
    BY <1>5, <2>2, <1>b DEF UpdatePnlRealized
  <2>3. QED
    BY <2>1, <2>2
<1>6. CASE ClosePosition
  BY <1>6, SetStatusKept DEF ClosePosition, Status
<1>7. CASE ReducePosition
  <2>1. mem[smint].status \in Status
    BY <1>0, <1>7 DEF ReducePosition, TypeOK, Position
  <2>2. CASE SetStatus(smint, mem[smint].status, "persist")
    BY <2>1, <2>2, SetStatusKept
  <2>3. CASE SetStatus(smint, "ClosedTp", "persist")
    BY <2>3, SetStatusKept DEF Status
  <2>4. QED
    BY <1>7, <2>2, <2>3 DEF ReducePosition
<1>8. CASE CloseErrorClear
  <2>1. smint \in Mints /\ mem[smint] # NoPos
    BY <1>0, <1>8 DEF CloseErrorClear, SellerInv, TypeOK
  <2>2. QED
    BY <1>0, <1>8, <2>1, <1>a, PnlWrite DEF CloseErrorClear, Pnl
<1>9. CASE CloseErrorMark
  <2>1. IsOpen(smint)
    BY <1>0, <1>9 DEF CloseErrorMark, SellerInv
  <2>2. QED
    BY <1>9, <2>1, SetStatusKept DEF CloseErrorMark, IsOpen, Status
<1>10. CASE Crash
  BY <1>10 DEF Crash
<1>11. CASE Restart
  BY <1>0, <1>11 DEF Restart, Down, IsOpen
<1>12. CASE UNCHANGED vars
  BY <1>12, <1>b DEF vars
<1>13. QED
  BY <1>1, <1>2, <1>3, <1>4, <1>5, <1>6, <1>7, <1>8, <1>9, <1>10, <1>11, <1>12
     DEF Next, SellNext

\* A closed position of the cache stays closed, and only an open one can end
\* as ClosedError: close_position_error never overwrites an earlier close.
THEOREM ClosedFinal == Spec => ClosedStaysClosed
<1>1. IInv /\ [Next]_vars => [\A m \in Mints : ClosedKept(m)]_vars
  BY KeptStep
<1>2. QED
  BY <1>1, Invariance, PTL DEF Spec, ClosedStaysClosed

\* The double-buy guard: no task replaces an open position.
THEOREM NoReplacement == Spec => OpenNotReplaced
<1>1. IInv /\ [Next]_vars => [\A m \in Mints : OpenKept(m)]_vars
  BY KeptStep
<1>2. QED
  BY <1>1, Invariance, PTL DEF Spec, OpenNotReplaced

\* A step that keeps rows, and what the invariants see of cache and clone, makes
\* no ghost.
LEMMA GhostUnmoved ==
  ASSUME TypeOK, SameButPnl, UNCHANGED <<up, db, sclone>>, NEW i \in Ids, Ghost(i)'
  PROVE  Ghost(i)
<1>1. db[i] # NoPos => db[i].mint \in Mints
  BY DEF TypeOK, Position
<1>2. QED
  BY <1>1 DEF Ghost, SameButPnl, IsOpen, SellerHolds

\* Changing the status of the cached position: its write is due, and the others
\* are as open as they were.
LEMMA GhostStatus ==
  ASSUME IInv, TypeOK', NEW st \in Status, NEW next, SetStatus(smint, st, next),
         sclone = NoPos, NEW i \in Ids, Ghost(i)'
  PROVE  Ghost(i)
<1> USE DEF IInv, TypeOK, SetStatus
<1>1. mem[smint] \in Position /\ mem[smint].id \in Ids
  BY DEF Position
<1>2. /\ sclone' \in Position /\ sclone' # NoPos /\ sclone'.id = mem[smint].id
      /\ mem'[smint] = sclone' /\ \A n \in Mints \ {smint} : mem'[n] = mem[n]
      /\ db' = db /\ up' = up
  BY <1>1, ConstantsAssumption DEF Position
<1> HIDE DEF SetStatus
<1>3. i # mem[smint].id
  BY <1>2 DEF Ghost, SellerHolds
<1>4. db[i] # NoPos => db[i].mint \in Mints
  BY DEF Position
<1>5. QED
  BY <1>2, <1>3, <1>4 DEF Ghost, IsOpen, SellerHolds

\* The sell executor's write makes a ghost only if it fails.
LEMMA GhostSellWrite ==
  ASSUME IInv, TypeOK', Persist \/ PersistFails, spc \in {"persist", "errPersist"},
         sclone' = NoPos, UNCHANGED <<up, mem>>, NEW i \in Ids, Ghost(i)', ~Ghost(i)
  PROVE  i \in behind'
<1> USE DEF IInv, TypeOK
<1>1. /\ sclone \in Position /\ sclone # NoPos /\ sclone.id \in Ids
  BY DEF Position, SellerInv
<1>2. CASE i = sclone.id
  <2>1. PersistFails => i \in behind'
    BY <1>2 DEF PersistFails
  <2>2. Persist => db'[i] = sclone
    BY <1>1, <1>2 DEF Persist, Write
  <2>3. ~Persist
    BY <1>2, <2>2 DEF Ghost, SellerInv, IsOpen
  <2>4. QED
    BY <2>1, <2>3
<1>3. CASE i # sclone.id
  <2>1. db'[i] = db[i] /\ ~SellerHolds(i)
    BY <1>1, <1>3 DEF Persist, PersistFails, Write, SellerHolds
  <2>2. QED
    BY <2>1 DEF Ghost, IsOpen
<1>4. QED
  BY <1>2, <1>3

\* The buyer's write makes a ghost only if it overwrites a newer row, or the sell
\* executor has failed to write the close.
LEMMA GhostOpenPersist ==
  ASSUME IInv, TypeOK', NEW b \in Buyers, OpenPersist(b),
         NEW i \in Ids, Ghost(i)', ~Ghost(i)
  PROVE  i \in behind'
<1> DEFINE p == buyer[b]
<1> USE DEF IInv, TypeOK
<1>1. /\ p \in Position /\ p # NoPos /\ p.id \in Ids
      /\ \/ IsOpen(p.mint) /\ mem[p.mint].id = p.id
         \/ SellerHolds(p.id) \/ db[p.id] # NoPos \/ p.id \in behind
      /\ UNCHANGED <<up, mem, sclone>>
      /\ behind \subseteq behind'
      /\ \/ db' = db
         \/ db' = [db EXCEPT ![p.id] = p] /\ (db[p.id] # NoPos => p.id \in behind')
  BY DEF OpenPersist, Write, seller, Position, BuyerInv
<1> HIDE DEF p
<1>2. CASE db' = db
  BY <1>1, <1>2 DEF Ghost, IsOpen, SellerHolds
<1>3. CASE i # p.id
  <2>1. db'[i] = db[i]
    BY <1>1, <1>3
  <2>2. QED
    BY <1>1, <2>1 DEF Ghost, IsOpen, SellerHolds
<1>4. CASE i = p.id /\ db' # db
  <2>1. db'[i] = p
    BY <1>1, <1>4
  <2>2. ~(IsOpen(p.mint) /\ mem[p.mint].id = p.id) /\ ~SellerHolds(p.id)
    BY <1>1, <1>4, <2>1 DEF Ghost, IsOpen, SellerHolds
  <2>3. QED
    BY <1>1, <1>4, <2>2
<1>5. QED
  BY <1>2, <1>3, <1>4

\* A start leaves a row out only if the load fails or the mint has another one.
LEMMA GhostRestart ==
  ASSUME IInv, TypeOK', Restart, NEW i \in Ids, Ghost(i)'
  PROVE  GhostCause(i)
<1> USE DEF IInv, TypeOK
<1> DEFINE m == db[i].mint
<1>1. ~up /\ db' = db /\ \A n \in Mints : mem[n] = NoPos
  BY DEF Restart, Down
<1>2. m \in Mints /\ i \in OpenRows(m)
  BY <1>1 DEF Ghost, Position, OpenRows
<1>3. CASE LoadFails
  BY <1>1, <1>3 DEF LoadFails, GhostCause
<1>4. ASSUME NEW pick \in [Mints -> Ids], LoadFromDb(pick) PROVE GhostCause(i)
  <2>1. pick[m] \in OpenRows(m) /\ mem'[m] = db[pick[m]]
    BY <1>2, <1>4 DEF LoadFromDb
  <2>2. mem'[m] # NoPos /\ mem'[m].status = "Open" /\ mem'[m].id = pick[m]
    BY <2>1 DEF OpenRows, Keys
  <2>3. pick[m] # i
    BY <1>1, <2>2 DEF Ghost, IsOpen
  <2>4. QED
    BY <1>1, <2>1, <2>3 DEF GhostCause
<1>5. QED
  BY <1>3, <1>4 DEF Restart

\* Every step that makes a ghost has one of the causes.
LEMMA GhostStep ==
  ASSUME IInv, [Next]_vars, NEW i \in Ids, Ghost(i)', ~Ghost(i)
  PROVE  GhostCause(i)
<1>0. TypeOK /\ Keys /\ SellerInv /\ Down /\ TypeOK'
  BY TypeStep DEF IInv
<1>a. ASSUME SameButPnl, UNCHANGED <<up, db, sclone>> PROVE FALSE
  BY <1>0, <1>a, GhostUnmoved
<1>b. ASSUME UNCHANGED <<up, mem, db, sclone>> PROVE FALSE
  BY <1>a, <1>b DEF SameButPnl
<1>1. ASSUME NEW b \in Buyers, NEW n \in Mints, NEW k \in Ids,
             NEW snap \in BOOLEAN, OpenInsert(b, n, k, snap)
      PROVE  FALSE
  <2>1. /\ ~IsOpen(n) /\ UNCHANGED <<up, db, sclone>>
        /\ \A o \in Mints \ {n} : mem'[o] = mem[o]
    BY <1>0, <1>1 DEF OpenInsert, seller, TypeOK
  <2>2. db[i] # NoPos => db[i].mint \in Mints
    BY <1>0 DEF TypeOK, Position
  <2>3. QED
    BY <2>1, <2>2 DEF Ghost, IsOpen, SellerHolds
<1>2. ASSUME NEW b \in Buyers, OpenPersist(b) PROVE GhostCause(i)
  BY <1>0, <1>2, GhostOpenPersist DEF GhostCause
<1>3. ASSUME NEW n \in Mints, UpdatePrice(n) PROVE FALSE
  <2>1. SameButPnl
    BY <1>0, <1>3, PnlWrite DEF UpdatePrice, Pnl
  <2>2. QED
    BY <1>3, <1>a, <2>1 DEF UpdatePrice, seller
<1>4. CASE (\E n \in Mints : SellTake(n)) \/ SellFails \/ CloseErrorCheck
  BY <1>4, <1>b DEF SellTake, SellFails, CloseErrorCheck
<1>5. CASE UpdatePnlRealized
  <2>1. CASE mem[smint] # NoPos /\ mem[smint].snap
    <3>1. SameButPnl
      BY <1>0, <1>5, <2>1, PnlWrite DEF UpdatePnlRealized, Pnl, TypeOK
    <3>2. QED
      BY <1>5, <1>a, <3>1 DEF UpdatePnlRealized
  <2>2. CASE ~(mem[smint] # NoPos /\ mem[smint].snap)
    BY <1>5, <2>2, <1>b DEF UpdatePnlRealized
  <2>3. QED
    BY <2>1, <2>2
<1>6. CASE ClosePosition \/ ReducePosition \/ CloseErrorMark
  <2>1. sclone = NoPos /\ mem[smint] # NoPos /\ mem[smint].status \in Status
    BY <1>0, <1>6 DEF ClosePosition, ReducePosition, CloseErrorMark, SetStatus,
                      SellerInv, TypeOK, Position
  <2>2. PICK st \in Status : \E next \in {"persist", "errPersist"} :
            SetStatus(smint, st, next)
    BY <1>6, <2>1 DEF ClosePosition, ReducePosition, CloseErrorMark, Status
  <2>3. QED
    BY <1>0, <2>1, <2>2, GhostStatus
<1>7. CASE SellPersist \/ CloseErrorPersist
  <2>1. /\ Persist \/ PersistFails
        /\ spc \in {"persist", "errPersist"} /\ sclone' = NoPos /\ UNCHANGED <<up, mem>>
    BY <1>7 DEF SellPersist, CloseErrorPersist
  <2>2. QED
    BY <1>0, <2>1, GhostSellWrite DEF GhostCause
<1>8. CASE CloseErrorClear
  <2>1. smint \in Mints /\ mem[smint] # NoPos
    BY <1>0, <1>8 DEF CloseErrorClear, SellerInv, TypeOK
  <2>2. SameButPnl
    BY <1>0, <1>8, <2>1, PnlWrite DEF CloseErrorClear, Pnl
  <2>3. QED
    BY <1>8, <1>a, <2>2 DEF CloseErrorClear
<1>9. CASE Crash
  BY <1>9 DEF Crash, Ghost
<1>10. CASE Restart
  BY <1>0, <1>10, GhostRestart
<1>11. CASE UNCHANGED vars
  BY <1>11, <1>b DEF vars
<1>12. QED
  BY <1>1, <1>2, <1>3, <1>4, <1>5, <1>6, <1>7, <1>8, <1>9, <1>10, <1>11
     DEF Next, SellNext

\* A row turns into a ghost only when the write of a close fails or is overwritten
\* by the buyer's older clone, or at a start whose load fails or finds several
\* Open rows of the mint.
THEOREM GhostsByFailure == Spec => GhostsOnlyByFailure
<1>1. IInv /\ [Next]_vars => [\A i \in Ids : Ghost(i)' /\ ~Ghost(i) => GhostCause(i)]_vars
  BY GhostStep
<1>2. QED
  BY <1>1, Invariance, PTL DEF Spec, GhostsOnlyByFailure

=============================================================================
