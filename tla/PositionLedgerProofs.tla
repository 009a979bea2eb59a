------------------------- MODULE PositionLedgerProofs -------------------------
(***************************************************************************)
(* The store implements PositionLedger, for any sets of mints, ids and     *)
(* buyers: every step of a task, every write, crash and restart maps to a  *)
(* step of the ledger or to none.                                          *)
(*                                                                         *)
(* Beyond the invariant of PositionStoreProofs this needs ClosedRows: a    *)
(* position whose row says closed is not open in the cache. Otherwise the  *)
(* write that makes a close durable could finalize an open position.       *)
(***************************************************************************)
EXTENDS PositionStoreProofs

\* A row that says closed is not the row of a position open in the cache.
ClosedRows ==
    \A i \in Ids : \A m \in Mints :
        db[i] # NoPos /\ db[i].status # "Open" => ~(IsOpen(m) /\ mem[m].id = i)

----------------------------------------------------------------------------
(* ClosedRows is an invariant                                              *)

\* A write of a clone keeps ClosedRows if the clone is open, or closed like the
\* cached position of its id.
LEMMA RowWritten ==
  ASSUME TypeOK, ClosedRows, NEW p \in Position,
         Write(p) \/ UNCHANGED db, UNCHANGED mem,
         p.status # "Open" => \A m \in Mints : ~(IsOpen(m) /\ mem[m].id = p.id)
  PROVE  ClosedRows'
<1>1. p.id \in Ids
  BY DEF Position
<1>2. SUFFICES ASSUME NEW i \in Ids, NEW m \in Mints,
                      db'[i] # NoPos, db'[i].status # "Open"
               PROVE  ~(IsOpen(m) /\ mem[m].id = i)
  BY DEF ClosedRows, IsOpen
<1>3. CASE db'[i] = db[i]
  BY <1>2, <1>3 DEF ClosedRows
<1>4. CASE db'[i] # db[i]
  <2>1. i = p.id /\ db'[i] = p
    BY <1>1, <1>4 DEF TypeOK, Write
  <2>2. QED
    BY <1>2, <2>1
<1>5. QED
  BY <1>3, <1>4

\* Closing or reducing a position in the cache opens nothing.
LEMMA StatusSet ==
  ASSUME TypeOK, ClosedRows, NEW st \in Status, NEW next, SetStatus(smint, st, next),
         st = "Open" => mem[smint].status = "Open"
  PROVE  ClosedRows'
<1>1. mem[smint] \in Position /\ smint \in Mints
  BY DEF TypeOK, SetStatus
<1>2. mem'[smint] = [mem[smint] EXCEPT !.status = st]
  BY <1>1 DEF TypeOK, SetStatus
<1>3. mem'[smint].id = mem[smint].id /\ mem'[smint].status = st
  BY <1>1, <1>2 DEF Position
<1>4. \A m \in Mints \ {smint} : mem'[m] = mem[m]
  BY <1>1 DEF TypeOK, SetStatus
<1>5. ASSUME NEW m \in Mints, IsOpen(m)' PROVE IsOpen(m) /\ mem'[m].id = mem[m].id
  BY <1>1, <1>3, <1>4, <1>5 DEF IsOpen, SetStatus
<1>6. UNCHANGED db
  BY DEF SetStatus
<1>7. QED
  BY <1>5, <1>6 DEF ClosedRows

\* Every step keeps ClosedRows: a row is closed after its position, and a position
\* is opened under a new id or from an open row.
LEMMA ClosedRowsStep == IInv /\ ClosedRows /\ [Next]_vars => ClosedRows'
<1> SUFFICES ASSUME IInv, ClosedRows, [Next]_vars PROVE ClosedRows'
  OBVIOUS
<1>0. TypeOK /\ Keys /\ SellerInv /\ BuyerInv /\ Down
  BY DEF IInv
<1>a. ASSUME SameButPnl, UNCHANGED db PROVE ClosedRows'
  BY <1>a DEF SameButPnl, IsOpen, ClosedRows
<1>b. ASSUME UNCHANGED <<mem, db>> PROVE ClosedRows'
  BY <1>b DEF IsOpen, ClosedRows
<1>1. ASSUME NEW b \in Buyers, NEW n \in Mints, NEW i \in Ids,
             NEW snap \in BOOLEAN, OpenInsert(b, n, i, snap)
      PROVE  ClosedRows'
  <2>1. UNCHANGED db /\ db[i] = NoPos
    BY <1>0, <1>1 DEF OpenInsert, Keys
  <2>2. /\ mem'[n].id = i
        /\ \A m \in Mints \ {n} : mem'[m] = mem[m]
    BY <1>0, <1>1 DEF OpenInsert, NewPosition, TypeOK
  <2>3. QED
    BY <2>1, <2>2 DEF ClosedRows, IsOpen
<1>2. ASSUME NEW b \in Buyers, OpenPersist(b) PROVE ClosedRows'
  <2>1. buyer[b] \in Position /\ buyer[b].status = "Open"
    BY <1>0, <1>2 DEF OpenPersist, BuyerInv, TypeOK
  <2>2. QED
    BY <1>0, <1>2, <2>1, RowWritten DEF OpenPersist
<1>3. ASSUME NEW m \in Mints, UpdatePrice(m) PROVE ClosedRows'
  BY <1>0, <1>3, <1>a, PnlWrite DEF UpdatePrice, Pnl
<1>4. CASE \/ \E n \in Mints : SellTake(n)
           \/ SellFails \/ CloseErrorCheck
  BY <1>4, <1>b DEF SellTake, SellFails, CloseErrorCheck
<1>5. CASE UpdatePnlRealized
  <2>1. CASE mem[smint] # NoPos /\ mem[smint].snap
    BY <1>0, <1>5, <2>1, <1>a, PnlWrite DEF UpdatePnlRealized, Pnl, TypeOK
  <2>2. CASE ~(mem[smint] # NoPos /\ mem[smint].snap)
    BY <1>5, <2>2, <1>b DEF UpdatePnlRealized
  <2>3. QED
    BY <2>1, <2>2
<1>6. CASE ClosePosition
  BY <1>0, <1>6, StatusSet DEF ClosePosition, Status
<1>7. CASE ReducePosition
  <2>1. mem[smint].status \in Status
    BY <1>0, <1>7 DEF ReducePosition, TypeOK, Position
  <2>2. QED
    BY <1>0, <1>7, <2>1, StatusSet DEF ReducePosition, Status
<1>8. CASE CloseErrorClear
  BY <1>0, <1>8, <1>a, PnlWrite DEF CloseErrorClear, SellerInv, TypeOK, Pnl
<1>9. CASE CloseErrorMark
  BY <1>0, <1>9, StatusSet DEF CloseErrorMark, Status
<1>10. CASE SellPersist \/ CloseErrorPersist
  <2>1. sclone \in Position
    BY <1>0, <1>10 DEF SellPersist, CloseErrorPersist, SellerInv, TypeOK
  <2>2. sclone.status # "Open" => \A m \in Mints : ~(IsOpen(m) /\ mem[m].id = sclone.id)
    BY <1>0, <2>1, ConstantsAssumption DEF SellerInv, IsOpen
  <2>3. QED
    BY <1>0, <1>10, <2>1, <2>2, RowWritten
       DEF SellPersist, CloseErrorPersist, Persist, PersistFails
<1>11. CASE Crash
  BY <1>11 DEF Crash, ClosedRows, IsOpen
<1>12. CASE Restart
  <2>1. UNCHANGED db
    BY <1>12 DEF Restart
  <2>2. CASE LoadFails
    BY <2>1, <2>2, <1>b DEF LoadFails
  <2>3. ASSUME NEW pick \in [Mints -> Ids], LoadFromDb(pick) PROVE ClosedRows'
    <3>1. ASSUME NEW m \in Mints, mem'[m] # NoPos
          PROVE  mem'[m].id \in Ids /\ db[mem'[m].id].status = "Open"
      BY <1>0, <2>3, <3>1 DEF LoadFromDb, OpenRows, Keys
    <3>2. QED
      BY <2>1, <3>1 DEF ClosedRows, IsOpen
  <2>4. QED
    BY <1>12, <2>2, <2>3 DEF Restart
<1>13. CASE UNCHANGED vars
  BY <1>13, <1>b DEF vars
<1>14. QED
  BY <1>1, <1>2, <1>3, <1>4, <1>5, <1>6, <1>7, <1>8, <1>9, <1>10, <1>11, <1>12, <1>13
     DEF Next, SellNext

\* Every reachable state satisfies it.
LEMMA ClosedRowsInvariant == Spec => [](IInv /\ ClosedRows)
<1>1. Init => ClosedRows
  BY DEF Init, ClosedRows
<1>2. QED
  BY <1>1, Invariance, ClosedRowsStep, PTL DEF Spec

----------------------------------------------------------------------------
(* Steps of the store as steps of the ledger                               *)

\* The mapped position of a mint is open exactly when the cached one is.
LEMMA HeldOpen ==
  ASSUME TypeOK, NEW m \in Mints
  PROVE  /\ Ledger!Open(m) <=> IsOpen(m)
         /\ mem[m] # NoPos => /\ Held[m] # NoPos
                              /\ Held[m].id = mem[m].id
                              /\ Held[m].open = (mem[m].status = "Open")
<1>1. Held[m] = HeldPosition(m)
  BY DEF Held
<1>2. CASE mem[m] = NoPos
  BY <1>1, <1>2 DEF HeldPosition, IsOpen, Ledger!Open
<1>3. CASE mem[m] # NoPos
  <2>1. mem[m].id \in Ids
    BY <1>3 DEF TypeOK, Position
  <2>2. HeldPosition(m) = [id |-> mem[m].id, open |-> mem[m].status = "Open"]
    BY <1>3 DEF HeldPosition
  <2>3. HeldPosition(m) \in [id: Ids, open: BOOLEAN]
    BY <2>1, <2>2
  <2>4. HeldPosition(m) # NoPos
    BY <2>3, ConstantsAssumption
  <2>5. /\ HeldPosition(m).id = mem[m].id
        /\ HeldPosition(m).open = (mem[m].status = "Open")
    BY <2>2
  <2>6. Ledger!Open(m) <=> HeldPosition(m) # NoPos /\ HeldPosition(m).open
    BY <1>1 DEF Ledger!Open
  <2>7. QED
    BY <1>1, <1>3, <2>4, <2>5, <2>6, Zenon DEF IsOpen
<1>4. QED
  BY <1>2, <1>3

\* Steps that change neither the ids, the statuses nor the rows do not show.
LEMMA HeldSame ==
  ASSUME SameButPnl
  PROVE  UNCHANGED Held
<1>1. ASSUME NEW m \in Mints PROVE HeldPosition(m)' = HeldPosition(m)
  <2>1. CASE mem[m] = NoPos
    BY <2>1 DEF SameButPnl, HeldPosition
  <2>2. CASE mem[m] # NoPos
    BY <2>2 DEF SameButPnl, HeldPosition
  <2>3. QED
    BY <2>1, <2>2
<1>2. QED
  BY <1>1 DEF Held

\* open_position: the ledger opens a position under a fresh id.
LEMMA InsertOpens ==
  ASSUME IInv, NEW b \in Buyers, NEW m \in Mints, NEW i \in Ids, NEW snap \in BOOLEAN,
         OpenInsert(b, m, i, snap)
  PROVE  Ledger!OpenPosition(m, i)
<1>0. TypeOK /\ Keys
  BY DEF IInv
<1>1. ~Ledger!Open(m) /\ i \notin used
  BY <1>0, HeldOpen DEF OpenInsert
<1>2. Held' = [Held EXCEPT ![m] = [id |-> i, open |-> TRUE]]
  <2>1. NewPosition(i, m, snap) \in Position
    BY DEF NewPosition, Position, Status, Pnl
  <2>2. mem'[m] = NewPosition(i, m, snap) /\ \A n \in Mints \ {m} : mem'[n] = mem[n]
    BY <1>0 DEF OpenInsert, TypeOK
  <2>3. HeldPosition(m)' = [id |-> i, open |-> TRUE]
    <3>1. mem'[m] # NoPos
      BY <2>1, <2>2, ConstantsAssumption
    <3>2. mem'[m].id = i /\ mem'[m].status = "Open"
      BY <2>2 DEF NewPosition
    <3>3. QED
      BY <3>1, <3>2, Zenon DEF HeldPosition
  <2>4. \A n \in Mints \ {m} : HeldPosition(n)' = HeldPosition(n)
    BY <2>2 DEF HeldPosition
  <2>5. QED
    BY <2>3, <2>4 DEF Held
<1>3. UNCHANGED Final
  <2>1. ASSUME NEW j \in Ids PROVE DurablyClosed(j)' <=> DurablyClosed(j)
    <3>1. UNCHANGED db /\ db[i] = NoPos
      BY <1>0 DEF OpenInsert, Keys
    <3>2. CASE j = i
      BY <3>1, <3>2 DEF DurablyClosed
    <3>3. CASE j # i
      <4>1. /\ buyer'[b].id = i /\ buyer[b] = NoPos
            /\ \A c \in Buyers \ {b} : buyer'[c] = buyer[c]
        BY <1>0 DEF OpenInsert, NewPosition, TypeOK
      <4>2. BuyerHolds(j)' <=> BuyerHolds(j)
        BY <3>3, <4>1 DEF BuyerHolds
      <4>3. QED
        BY <3>1, <4>2 DEF DurablyClosed
    <3>4. QED
      BY <3>2, <3>3
  <2>2. QED
    BY <2>1 DEF Final
<1>4. QED
  BY <1>1, <1>2, <1>3 DEF OpenInsert, Ledger!OpenPosition

\* The write of open_position, which may fail: nothing shows, unless it was the
\* last clone that could have overwritten a closed row.
LEMMA PersistFinalizes ==
  ASSUME IInv, ClosedRows, NEW b \in Buyers, OpenPersist(b),
         NEW i \in Ids, i = buyer[b].id
  PROVE  UNCHANGED Ledger!ledger \/ Ledger!Finalize(i)
<1>0. TypeOK /\ Keys /\ BuyerInv
  BY DEF IInv
<1>1. buyer[b] \in Position /\ i \in used /\ buyer[b].status = "Open"
  BY <1>0 DEF OpenPersist, TypeOK, Position, Keys, BuyerInv
<1>2. UNCHANGED <<used, Held>>
  BY DEF OpenPersist, Held, HeldPosition
<1>3. /\ ~DurablyClosed(i)
      /\ \A j \in Ids \ {i} : DurablyClosed(j)' <=> DurablyClosed(j)
  <2>1. BuyerHolds(i)
    BY DEF OpenPersist, BuyerHolds
  <2>2. \A j \in Ids \ {i} : db'[j] = db[j]
    BY <1>0, <1>1 DEF OpenPersist, Write, TypeOK
  <2>3. /\ buyer'[b] = NoPos /\ buyer[b] # NoPos
        /\ \A c \in Buyers \ {b} : buyer'[c] = buyer[c]
    BY <1>0 DEF OpenPersist, TypeOK
  <2>4. \A j \in Ids \ {i} : BuyerHolds(j)' <=> BuyerHolds(j)
    BY <2>3 DEF BuyerHolds
  <2>5. QED
    BY <2>1, <2>2, <2>4 DEF DurablyClosed
<1>4. CASE DurablyClosed(i)'
  <2>1. db'[i] # NoPos /\ db'[i].status # "Open"
    BY <1>4 DEF DurablyClosed
  <2>2. db'[i] = db[i]
    BY <1>0, <1>1, <2>1 DEF OpenPersist, Write, TypeOK
  <2>3. \A m \in Mints : ~(IsOpen(m) /\ mem[m].id = i)
    BY <1>1, <2>1, <2>2 DEF ClosedRows
  <2>4. ~Ledger!Holds(i)
    BY <1>0, <2>3, HeldOpen DEF Ledger!Holds, IsOpen
  <2>5. Final' = Final \cup {i}
    BY <1>1, <1>3, <1>4 DEF Final
  <2>6. QED
    BY <1>1, <1>2, <2>4, <2>5 DEF Ledger!Finalize
<1>5. CASE ~DurablyClosed(i)'
  <2>1. Final' = Final
    BY <1>3, <1>5 DEF Final
  <2>2. QED
    BY <1>2, <2>1 DEF Ledger!ledger
<1>6. QED
  BY <1>4, <1>5

\* close_position, reduce_position and close_position_with_status close an open
\* position, or show nothing.
LEMMA StatusCloses ==
  ASSUME IInv, NEW m \in Mints, NEW st \in Status, NEW next, SetStatus(m, st, next),
         st = "Open" => mem[m].status = "Open"
  PROVE  UNCHANGED Ledger!ledger \/ Ledger!ClosePosition(m)
<1>0. TypeOK
  BY DEF IInv
<1>1. mem[m] \in Position /\ mem[m] # NoPos
  BY <1>0 DEF TypeOK, SetStatus
<1>2. mem'[m] = [mem[m] EXCEPT !.status = st]
  BY <1>0, <1>1 DEF TypeOK, SetStatus
<1>3. mem'[m].id = mem[m].id /\ mem'[m].status = st /\ mem'[m] # NoPos
  BY <1>1, <1>2, ConstantsAssumption DEF Position
<1>4. \A n \in Mints \ {m} : mem'[n] = mem[n]
  BY <1>0, <1>1 DEF TypeOK, SetStatus
<1>5. UNCHANGED <<used, Final>>
  BY DEF SetStatus, Final, DurablyClosed, BuyerHolds
<1>6. CASE st = "Open" \/ mem[m].status # "Open"
  <2>1. (st = "Open") = (mem[m].status = "Open")
    BY <1>6
  <2>2. \A n \in Mints : HeldPosition(n)' = HeldPosition(n)
    BY <1>1, <1>3, <1>4, <2>1, Zenon DEF HeldPosition
  <2>3. QED
    BY <1>5, <2>2 DEF Ledger!ledger, Held
<1>7. CASE st # "Open" /\ mem[m].status = "Open"
  <2>1. Ledger!Open(m)
    BY <1>0, <1>1, <1>7, HeldOpen DEF IsOpen
  <2>2. HeldPosition(m) = [id |-> mem[m].id, open |-> TRUE]
    BY <1>1, <1>7, Zenon DEF HeldPosition
  <2>3. HeldPosition(m)' = [id |-> mem[m].id, open |-> FALSE]
    BY <1>3, <1>5, <1>7, Zenon DEF HeldPosition
  <2>4. \A n \in Mints \ {m} : HeldPosition(n)' = HeldPosition(n)
    BY <1>4 DEF HeldPosition
  <2>5. [HeldPosition(m) EXCEPT !.open = FALSE] = [id |-> mem[m].id, open |-> FALSE]
    <3>1. HeldPosition(m).id = mem[m].id /\ HeldPosition(m) \in [id: {mem[m].id}, open: BOOLEAN]
      BY <2>2
    <3>2. ASSUME NEW r \in [id: {mem[m].id}, open: BOOLEAN], NEW f \in BOOLEAN
          PROVE  [r EXCEPT !.open = f] = [id |-> r.id, open |-> f]
      OBVIOUS
    <3>3. QED
      BY <3>1, <3>2
  <2>6. Held' = [Held EXCEPT ![m] = [HeldPosition(m) EXCEPT !.open = FALSE]]
    BY <2>3, <2>4, <2>5 DEF Held
  <2>7. Held' = [Held EXCEPT ![m].open = FALSE]
    BY <2>6 DEF Held
  <2>8. QED
    BY <1>5, <2>1, <2>7 DEF Ledger!ClosePosition
<1>8. QED
  BY <1>6, <1>7

\* The write of the sell executor, which may fail, makes a close durable or shows
\* nothing.
LEMMA SaleFinalizes ==
  ASSUME IInv, ClosedRows, NEW i \in Ids, i = sclone.id, sclone # NoPos,
         Persist \/ PersistFails, UNCHANGED <<mem, used, buyer>>
  PROVE  UNCHANGED Ledger!ledger \/ Ledger!Finalize(i)
<1>0. TypeOK /\ Keys /\ SellerInv
  BY DEF IInv
<1>1. sclone \in Position /\ i \in used
  BY <1>0 DEF TypeOK, SellerInv
<1>2. UNCHANGED <<used, Held>>
  BY DEF Held, HeldPosition
<1>3. \A j \in Ids \ {i} : DurablyClosed(j)' <=> DurablyClosed(j)
  <2>1. \A j \in Ids \ {i} : db'[j] = db[j]
    BY <1>0, <1>1 DEF Persist, PersistFails, Write, TypeOK
  <2>2. QED
    BY <2>1 DEF DurablyClosed, BuyerHolds
<1>4. CASE DurablyClosed(i)' <=> DurablyClosed(i)
  <2>1. Final' = Final
    BY <1>3, <1>4 DEF Final
  <2>2. QED
    BY <1>2, <2>1 DEF Ledger!ledger
<1>5. CASE ~(DurablyClosed(i)' <=> DurablyClosed(i))
  <2>1. db'[i] = sclone
    BY <1>0, <1>1, <1>5 DEF Persist, PersistFails, Write, TypeOK, DurablyClosed, BuyerHolds
  <2>2. CASE sclone.status = "Open"
    <3>1. ~DurablyClosed(i)'
      BY <2>1, <2>2 DEF DurablyClosed
    <3>2. sclone.mint \in Mints /\ IsOpen(sclone.mint) /\ mem[sclone.mint].id = i
      BY <1>0, <1>1, <2>2 DEF SellerInv, Position
    <3>3. ~DurablyClosed(i)
      BY <3>2 DEF ClosedRows, DurablyClosed
    <3>4. QED
      BY <1>5, <3>1, <3>3
  <2>3. CASE sclone.status # "Open"
    <3>1. DurablyClosed(i)'
      BY <1>1, <1>5, <2>1, <2>3, ConstantsAssumption DEF DurablyClosed, BuyerHolds
    <3>2. \A m \in Mints : ~(IsOpen(m) /\ mem[m].id = i)
      BY <1>0, <2>3 DEF SellerInv, IsOpen
    <3>3. ~Ledger!Holds(i)
      BY <1>0, <3>2, HeldOpen DEF Ledger!Holds, IsOpen
    <3>4. Final' = Final \cup {i}
      BY <1>3, <3>1 DEF Final
    <3>5. QED
      BY <1>1, <1>2, <3>3, <3>4 DEF Ledger!Finalize
  <2>4. QED
    BY <2>2, <2>3
<1>6. QED
  BY <1>4, <1>5

\* A crash forgets the positions, and with them the clones that could have undone
\* a written close.
LEMMA CrashForgets ==
  ASSUME IInv, Crash
  PROVE  Ledger!Forget
<1>0. TypeOK /\ Keys
  BY DEF IInv
<1>1. Held' = [m \in Mints |-> NoPos]
  BY DEF Crash, Held, HeldPosition
<1>2. \A i \in Ids : /\ DurablyClosed(i) => DurablyClosed(i)'
                     /\ DurablyClosed(i)' => i \in used
  BY <1>0 DEF Crash, DurablyClosed, BuyerHolds, Keys
<1>3. Final \subseteq Final' /\ Final' \subseteq used
  BY <1>2 DEF Final
<1>4. QED
  BY <1>1, <1>3 DEF Crash, Ledger!Forget

\* load_from_db brings back positions whose rows are open, each under its mint.
LEMMA RestartRecovers ==
  ASSUME IInv, Restart
  PROVE  UNCHANGED Ledger!ledger \/ Ledger!Recover
<1>0. TypeOK /\ Keys /\ Down
  BY DEF IInv
<1>1. UNCHANGED <<used, Final>>
  BY DEF Restart, Final, DurablyClosed, BuyerHolds
<1>2. CASE LoadFails
  <2>1. UNCHANGED Held
    BY <1>2 DEF LoadFails, Held, HeldPosition
  <2>2. QED
    BY <1>1, <2>1 DEF Ledger!ledger
<1>3. ASSUME NEW pick \in [Mints -> Ids], LoadFromDb(pick) PROVE Ledger!Recover
  <2>1. \A m \in Mints : Held[m] = NoPos
    BY <1>0 DEF Restart, Down, Held, HeldPosition
  <2>2. ASSUME NEW m \in Mints, mem'[m] # NoPos
        PROVE  /\ mem'[m].id = pick[m] /\ mem'[m].mint = m /\ mem'[m].status = "Open"
               /\ pick[m] \in used \ Final
    BY <1>0, <1>3, <2>2 DEF LoadFromDb, OpenRows, Keys, Final, DurablyClosed
  <2>3. ASSUME NEW m \in Mints
        PROVE  HeldPosition(m)' \in [id: used \ Final, open: {TRUE}] \cup {NoPos}
    <3>1. CASE mem'[m] = NoPos
      BY <3>1 DEF HeldPosition
    <3>2. CASE mem'[m] # NoPos
      <4>1. HeldPosition(m)' = [id |-> pick[m], open |-> TRUE]
        BY <2>2, <3>2, Zenon DEF HeldPosition
      <4>2. QED
        BY <2>2, <3>2, <4>1
    <3>3. QED
      BY <3>1, <3>2
  <2>4. Held' \in [Mints -> [id: used \ Final, open: {TRUE}] \cup {NoPos}]
    BY <2>3 DEF Held
  <2>5. ASSUME NEW m \in Mints, NEW n \in Mints, Held'[m] # NoPos, Held'[n] # NoPos,
               Held'[m].id = Held'[n].id
        PROVE  m = n
    <3>1. mem'[m] # NoPos /\ mem'[n] # NoPos
      BY <2>5 DEF Held, HeldPosition
    <3>2. Held'[m].id = mem'[m].id /\ Held'[n].id = mem'[n].id
      BY <3>1 DEF Held, HeldPosition
    <3>3. mem'[m] = db[pick[m]] /\ mem'[n] = db[pick[n]]
      BY <1>3, <3>1 DEF LoadFromDb
    <3>4. pick[m] = pick[n]
      BY <2>2, <2>5, <3>1, <3>2
    <3>5. mem'[m].mint = m /\ mem'[n].mint = n
      BY <2>2, <3>1
    <3>6. QED
      BY <3>3, <3>4, <3>5
  <2>6. QED
    BY <1>1, <2>1, <2>4, <2>5 DEF Ledger!Recover
<1>4. QED
  BY <1>2, <1>3 DEF Restart

\* Every step of the store is a step of the ledger or none.
LEMMA LedgerStep == IInv /\ ClosedRows /\ [Next]_vars => [Ledger!Next]_(Ledger!ledger)
<1> SUFFICES ASSUME IInv, ClosedRows, [Next]_vars
             PROVE  Ledger!Next \/ UNCHANGED Ledger!ledger
  OBVIOUS
<1>0. TypeOK /\ SellerInv
  BY DEF IInv
<1> USE DEF Ledger!Next
<1>a. ASSUME SameButPnl, UNCHANGED <<db, used, buyer>> PROVE UNCHANGED Ledger!ledger
  BY <1>a, HeldSame DEF Ledger!ledger, Final, DurablyClosed, BuyerHolds
<1>b. ASSUME UNCHANGED <<mem, db, used, buyer>> PROVE UNCHANGED Ledger!ledger
  BY <1>b, <1>a DEF SameButPnl
<1>1. ASSUME NEW b \in Buyers, NEW m \in Mints, NEW i \in Ids,
             NEW snap \in BOOLEAN, OpenInsert(b, m, i, snap)
      PROVE  Ledger!Next
  BY <1>1, InsertOpens
<1>2. ASSUME NEW b \in Buyers, OpenPersist(b)
      PROVE  Ledger!Next \/ UNCHANGED Ledger!ledger
  <2>1. buyer[b].id \in Ids
    BY <1>0, <1>2 DEF OpenPersist, TypeOK, Position
  <2>2. QED
    BY <1>2, <2>1, PersistFinalizes
<1>3. ASSUME NEW m \in Mints, UpdatePrice(m) PROVE UNCHANGED Ledger!ledger
  BY <1>0, <1>3, <1>a, PnlWrite DEF UpdatePrice, Pnl
<1>4. CASE \/ \E n \in Mints : SellTake(n)
           \/ SellFails \/ CloseErrorCheck
  BY <1>4, <1>b DEF SellTake, SellFails, CloseErrorCheck
<1>5. CASE UpdatePnlRealized
  <2>1. CASE mem[smint] # NoPos /\ mem[smint].snap
    BY <1>0, <1>5, <2>1, <1>a, PnlWrite DEF UpdatePnlRealized, Pnl, TypeOK
  <2>2. CASE ~(mem[smint] # NoPos /\ mem[smint].snap)
    BY <1>5, <2>2, <1>b DEF UpdatePnlRealized
  <2>3. QED
    BY <2>1, <2>2
<1>6. CASE ClosePosition \/ ReducePosition \/ CloseErrorMark
  <2>1. smint \in Mints
    BY <1>0 DEF TypeOK
  <2>2. ReducePosition => mem[smint].status \in Status
    BY <1>0 DEF ReducePosition, TypeOK, Position
  <2>3. PICK st \in Status, next \in SellerPc :
           SetStatus(smint, st, next) /\ (st = "Open" => mem[smint].status = "Open")
    BY <1>6, <2>2 DEF ClosePosition, ReducePosition, CloseErrorMark, Status, SellerPc
  <2>4. QED
    BY <2>1, <2>3, StatusCloses
<1>7. CASE CloseErrorClear
  BY <1>0, <1>7, <1>a, PnlWrite DEF CloseErrorClear, SellerInv, TypeOK, Pnl
<1>8. CASE SellPersist \/ CloseErrorPersist
  <2>1. sclone # NoPos /\ sclone.id \in Ids
    BY <1>0, <1>8 DEF SellPersist, CloseErrorPersist, SellerInv, TypeOK, Position
  <2>2. QED
    BY <1>8, <2>1, SaleFinalizes DEF SellPersist, CloseErrorPersist
<1>9. CASE Crash
  BY <1>9, CrashForgets
<1>10. CASE Restart
  BY <1>10, RestartRecovers
<1>11. CASE UNCHANGED vars
  BY <1>11, <1>b DEF vars
<1>12. QED
  BY <1>1, <1>2, <1>3, <1>4, <1>5, <1>6, <1>7, <1>8, <1>9, <1>10, <1>11 DEF Next, SellNext

\* PositionManager, split into lock sections and late writes, with retries,
\* failing writes, crashes and restarts, implements the ledger its users rely on.
THEOREM Refinement == Spec => ImplementsLedger
<1>1. Init => Ledger!Init
  <2>1. Init => Held = [m \in Mints |-> NoPos]
    BY DEF Init, Held, HeldPosition
  <2>2. Init => Final = {}
    BY DEF Init, Final, DurablyClosed
  <2>3. QED
    BY <2>1, <2>2 DEF Init, Ledger!Init
<1>2. QED
  BY <1>1, ClosedRowsInvariant, LedgerStep, PTL DEF Spec, ImplementsLedger, Ledger!Spec

=============================================================================
