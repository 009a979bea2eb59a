-------------------------- MODULE ExitPipelineProofs --------------------------
(***************************************************************************)
(* Theorems about the exit pipeline, for every number of tokens, buys and  *)
(* attempts, every capacity of the channels, every set of quotes and every *)
(* trading mode, with and without the direct swap, with and without        *)
(* crashes.                                                                *)
(***************************************************************************)
EXTENDS ExitPipeline, TpSlRulesProofs

----------------------------------------------------------------------------
(* Types                                                                   *)

Position == [gen: 0 .. MaxBuys, status: {"None", "Open", "Sold", "Error"}, view: View]
Snapshot == [mint: Mints, gen: 1 .. MaxBuys, view: View]
Working == {"submit", "fallback", "verify", "pnl", "book", "error"}
Executor == [pc: Working \cup {"idle"}, attempt: 0 .. MaxAttempts, pre: Nat, post: Nat,
             landed: BOOLEAN, direct: BOOLEAN, order: Order \cup {NoOrder}]

MonitorTypes ==
    /\ triggered \in [Mints -> SUBSET DOMAIN Tiers[Mode]]
    /\ todo \subseteq Snapshot
    /\ out \in Command \cup {NoOrder}
    /\ fired \subseteq Mints \X (1 .. MaxBuys) \X DOMAIN Tiers[Mode]

ChannelTypes ==
    /\ cmdq \in Seq(Order) /\ Len(cmdq) <= CmdCap
    /\ proc \in Order \cup {NoOrder}
    /\ sellq \in Seq(Order) /\ Len(sellq) <= SellCap

\* The executor works on an order, and the first attempt has the number one.
ExecutorTypes ==
    /\ exe \in Executor
    /\ exe.pc # "idle" => exe.order \in Order
    /\ exe.pc \in Working \ {"error"} => exe.attempt >= 1
    /\ exe.direct => exe.pc \in {"verify", "pnl", "book"}

\* The wallet holds at most what was bought; the position in the cache is that of
\* an earlier buy while a buy waits to be opened.
BookTypes ==
    /\ pos \in [Mints -> Position]
    /\ bal \in [Mints -> Nat]
    /\ buys \in [Mints -> 0 .. MaxBuys]
    /\ buying \in [Mints -> BOOLEAN]
    /\ loose \subseteq Mints
    /\ \A m \in Mints :
          /\ bal[m] <= Units * buys[m]
          /\ pos[m].gen <= buys[m]
          /\ buying[m] => pos[m].gen < buys[m]
          /\ IsOpen(m) => pos[m].gen >= 1

Types == MonitorTypes /\ ChannelTypes /\ ExecutorTypes /\ BookTypes

\* A row is that of a buy that landed.
RowTypes ==
    /\ rows \in [Mints -> SUBSET (1 .. MaxBuys)]
    /\ \A m \in Mints : \A g \in rows[m] : g <= buys[m]

\* The tiers of the configured mode.
LEMMA ModeTiers ==
  /\ Mode \in DOMAIN Profile
  /\ DOMAIN Tiers[Mode] = 1 .. Len(Tiers[Mode]) /\ Len(Tiers[Mode]) \in Nat
  /\ \A i \in DOMAIN Tiers[Mode] : Tiers[Mode][i].sell \in 1 .. 100
BY PipelineAssumption, TierFacts

\* What evaluate_position leaves behind: a command for the position, and if it is
\* one of a tier, a tier that was not triggered before and is now.
LEMMA Evaluated ==
  ASSUME Types, NEW m \in Mints, NEW gen \in 1 .. MaxBuys, NEW view \in View,
         EvaluatePosition(m, gen, view)
  PROVE  \/ /\ UNCHANGED <<triggered, fired>>
            /\ \/ out' = NoOrder
               \/ out' \in Command /\ out'.tier = 0
         \/ \E t \in DOMAIN Tiers[Mode] \ triggered[m] :
               /\ triggered' = [triggered EXCEPT ![m] = @ \cup {t}]
               /\ fired' = fired \cup {<<m, gen, t>>}
               /\ out' \in Command
               /\ out'.mint = m /\ out'.gen = gen /\ out'.tier = t
<1> DEFINE c == Evaluate(Mode, view, triggered[m])
           due == DueTiers(Mode, view, triggered[m])
<1>1. CASE c = NoCmd
  BY <1>1 DEF EvaluatePosition, NoCmd, Mark, Types, MonitorTypes
<1>2. CASE \E k \in {"StopLoss", "TimeStop", "MaxAgeExit", "TrailingStop", "TakeProfit"} :
             c = Full(k)
  <2>1. PICK k \in {"StopLoss", "TimeStop", "MaxAgeExit", "TrailingStop", "TakeProfit"} :
          c = Full(k)
    BY <1>2
  <2>2. c.tier = 0 /\ c.pct = 100 /\ c.kind = k /\ c # NoCmd
    BY <2>1 DEF Full, NoCmd
  <2>3. UNCHANGED <<triggered, fired>>
    BY <2>2 DEF EvaluatePosition, Mark, Types, MonitorTypes
  <2>4. out' = [mint |-> m, pct |-> 100, gen |-> gen, tier |-> 0, kind |-> k]
    BY <2>2 DEF EvaluatePosition
  <2>5. QED
    BY <2>3, <2>4, ModeTiers DEF Command
<1>3. CASE /\ due # {} /\ Min(due) \in due
           /\ c = [kind |-> "PartialTakeProfit", pct |-> Tiers[Mode][Min(due)].sell,
                   tier |-> Min(due)]
  <2>1. PICK t \in due : c = [kind |-> "PartialTakeProfit", pct |-> Tiers[Mode][t].sell,
                              tier |-> t]
    BY <1>3
  <2>2. t \in DOMAIN Tiers[Mode] \ triggered[m] /\ t # 0
    BY <2>1, ModeTiers DEF DueTiers
  <2>3. c.tier = t /\ c.pct = Tiers[Mode][t].sell /\ c.kind = "PartialTakeProfit"
        /\ c # NoCmd
    BY <2>1 DEF NoCmd
  <2>4. /\ triggered' = [triggered EXCEPT ![m] = @ \cup {t}]
        /\ fired' = fired \cup {<<m, gen, t>>}
    BY <2>2, <2>3 DEF EvaluatePosition, Mark, Types, MonitorTypes
  <2>5. out' = [mint |-> m, pct |-> Tiers[Mode][t].sell, gen |-> gen, tier |-> t,
                kind |-> "PartialTakeProfit"]
    BY <2>3 DEF EvaluatePosition
  <2>6. t \in 0 .. Len(Tiers[Mode]) /\ Tiers[Mode][t].sell \in 1 .. 100
    BY <2>2, ModeTiers
  <2>7. out' \in Command
    BY <2>5, <2>6 DEF Command
  <2>8. out'.mint = m /\ out'.gen = gen /\ out'.tier = t
    BY <2>5
  <2>9. QED
    BY <2>2, <2>4, <2>7, <2>8
<1>4. QED
  BY <1>1, <1>2, <1>3, EvaluateCommand, ModeTiers

\* The monitor's own steps keep its state well-formed.
LEMMA MonitorTypesStep ==
  ASSUME Types, NEW m \in Mints, NEW gen \in 1 .. MaxBuys, NEW view \in View,
         EvaluatePosition(m, gen, view), todo' \subseteq todo
  PROVE  MonitorTypes'
<1>1. CASE UNCHANGED <<triggered, fired>>
  BY <1>1, Evaluated DEF Types, MonitorTypes
<1>2. CASE \E t \in DOMAIN Tiers[Mode] \ triggered[m] :
               /\ triggered' = [triggered EXCEPT ![m] = @ \cup {t}]
               /\ fired' = fired \cup {<<m, gen, t>>}
               /\ out' \in Command
  BY <1>2 DEF Types, MonitorTypes
<1>3. QED
  BY <1>1, <1>2, Evaluated

\* A percentage of an amount is at most the amount.
LEMMA AmountFits ==
  ASSUME NEW b \in Nat, NEW p \in 1 .. 100
  PROVE  (b * p) \div 100 \in 0 .. b
<1>1. b * p <= 100 * b /\ b * p \in Nat
  OBVIOUS
<1>2. QED
  BY <1>1

\* An attempt that fails keeps the order and goes on with Jupiter after the direct
\* swap, else with the next attempt or not at all.
LEMMA AttemptFailsTypes ==
  ASSUME Types, exe.pc \in {"submit", "fallback", "verify", "book"}, AttemptFails
  PROVE  /\ ExecutorTypes'
         /\ exe'.order = exe.order
         /\ exe.direct => exe'.pc = "fallback"
         /\ ~exe.direct => exe'.pc \in {"submit", "error"}
         /\ exe'.pc = "submit" => exe'.attempt > 1
<1> USE DEF Types, ExecutorTypes, Executor, Working
<1>1. CASE exe.direct
  <2>1. exe' = [exe EXCEPT !.pc = "fallback", !.direct = FALSE, !.landed = FALSE, !.post = 0]
    BY <1>1 DEF AttemptFails
  <2>2. exe' \in Executor
    BY <2>1
  <2>3. exe'.pc = "fallback" /\ exe'.attempt = exe.attempt /\ exe'.order = exe.order
    BY <2>1
  <2>4. exe'.direct = FALSE
    BY <2>1
  <2>5. QED
    BY <1>1, <2>2, <2>3, <2>4
<1>2. CASE ~exe.direct /\ exe.attempt < MaxAttempts
  <2>1. exe' = [IdleExe EXCEPT !.pc = "submit", !.attempt = exe.attempt + 1,
                               !.order = exe.order]
    BY <1>2 DEF AttemptFails
  <2>2. exe.attempt + 1 \in 0 .. MaxAttempts
    BY <1>2, PipelineAssumption
  <2>3. exe' \in Executor
    <3>1. ASSUME NEW a \in 0 .. MaxAttempts, NEW o \in Order \cup {NoOrder}
          PROVE  [IdleExe EXCEPT !.pc = "submit", !.attempt = a, !.order = o] \in Executor
      BY DEF IdleExe
    <3>2. QED
      BY <2>1, <2>2, <3>1
  <2>4. exe'.pc = "submit" /\ exe'.attempt = exe.attempt + 1 /\ exe'.order = exe.order
    BY <2>1 DEF IdleExe
  <2>5. exe'.direct = FALSE
    BY <2>1 DEF IdleExe
  <2>6. QED
    BY <1>2, <2>3, <2>4, <2>5
<1>3. CASE ~exe.direct /\ ~(exe.attempt < MaxAttempts)
  <2>1. exe' = [IdleExe EXCEPT !.pc = "error", !.order = exe.order]
    BY <1>3 DEF AttemptFails
  <2>2. exe' \in Executor
    <3>1. 0 \in 0 .. MaxAttempts
      BY PipelineAssumption
    <3>2. QED
      BY <2>1, <3>1 DEF IdleExe
  <2>3. exe'.pc = "error" /\ exe'.order = exe.order
    BY <2>1 DEF IdleExe
  <2>4. exe'.direct = FALSE
    BY <2>1 DEF IdleExe
  <2>5. QED
    BY <1>3, <2>2, <2>3, <2>4
<1>4. QED
  BY <1>1, <1>2, <1>3

\* Views with a field replaced are views.
LEMMA ViewFields ==
  ASSUME NEW w \in View
  PROVE  /\ [w EXCEPT !.stale = TRUE] \in View
         /\ \A r \in Int : [w EXCEPT !.pnl = r] \in View
BY DEF View

\* A change of one position's view, status or profit leaves its number alone, and
\* every other position.
LEMMA ViewSet ==
  ASSUME BookTypes, NEW m \in Mints, NEW w \in View, pos' = [pos EXCEPT ![m].view = w]
  PROVE  /\ pos' \in [Mints -> Position]
         /\ pos'[m].status = pos[m].status
         /\ \A n \in Mints : pos'[n].gen = pos[n].gen
         /\ \A n \in Mints \ {m} : pos'[n] = pos[n]
BY ViewFields DEF BookTypes, Position

\* The same for the profit.
LEMMA PnlSet ==
  ASSUME BookTypes, NEW m \in Mints, NEW r \in Int, pos' = [pos EXCEPT ![m].view.pnl = r]
  PROVE  /\ pos' \in [Mints -> Position]
         /\ pos'[m].status = pos[m].status
         /\ \A n \in Mints : pos'[n].gen = pos[n].gen
         /\ \A n \in Mints \ {m} : pos'[n] = pos[n]
BY ViewFields DEF BookTypes, Position

\* The same for the status.
LEMMA StatusSet ==
  ASSUME BookTypes, NEW m \in Mints, NEW s \in {"Sold", "Error"},
         pos' = [pos EXCEPT ![m].status = s]
  PROVE  /\ pos' \in [Mints -> Position]
         /\ pos'[m].status = s
         /\ \A n \in Mints : pos'[n].gen = pos[n].gen
         /\ \A n \in Mints \ {m} : pos'[n] = pos[n]
BY ViewFields DEF BookTypes, Position

\* The same for both.
LEMMA ErrorSet ==
  ASSUME BookTypes, NEW m \in Mints
  PROVE  LET p == [pos EXCEPT ![m].status = "Error", ![m].view.pnl = 0]
         IN  /\ p \in [Mints -> Position]
             /\ p[m].status = "Error"
             /\ \A n \in Mints : p[n].gen = pos[n].gen
             /\ \A n \in Mints \ {m} : p[n] = pos[n]
<1> DEFINE q == [pos EXCEPT ![m].status = "Error"]
           p == [pos EXCEPT ![m].status = "Error", ![m].view.pnl = 0]
<1>1. /\ q \in [Mints -> Position]
      /\ q[m].status = "Error"
      /\ \A n \in Mints : q[n].gen = pos[n].gen
      /\ \A n \in Mints \ {m} : q[n] = pos[n]
  BY DEF BookTypes, Position
<1>2. p = [q EXCEPT ![m].view.pnl = 0]
  BY DEF BookTypes, Position
<1> HIDE DEF q, p
<1>3. q \in [Mints -> Position] /\ 0 \in Int
  BY <1>1
<1>4. /\ p \in [Mints -> Position]
      /\ p[m].status = q[m].status
      /\ \A n \in Mints : p[n].gen = q[n].gen
      /\ \A n \in Mints \ {m} : p[n] = q[n]
  BY <1>3, <1>2, ViewFields DEF Position
<1>5. /\ p \in [Mints -> Position]
      /\ p[m].status = "Error"
      /\ \A n \in Mints : p[n].gen = pos[n].gen
      /\ \A n \in Mints \ {m} : p[n] = pos[n]
  BY <1>1, <1>4
<1>6. QED
  BY <1>5 DEF p

\* A step of the pipeline that opens nothing and moves no tokens keeps the books.
LEMMA BooksKept ==
  ASSUME Types, UNCHANGED <<bal, buyers>>, loose' \subseteq Mints,
         pos' \in [Mints -> Position],
         \A n \in Mints : pos'[n].gen = pos[n].gen
                          /\ (pos'[n].status = "Open" => pos[n].status = "Open")
  PROVE  BookTypes'
BY DEF Types, BookTypes, buyers, IsOpen

\* Every step keeps the types: the monitor's steps.
LEMMA MonitorStepTypes ==
  ASSUME Types, MonitorStep
  PROVE  Types'
<1> USE DEF Types
<1>1. CASE Sweep
  <2>1. ChannelTypes' /\ ExecutorTypes' /\ BookTypes'
    BY <1>1 DEF Sweep, ChannelTypes, ExecutorTypes, BookTypes, buyers, IsOpen
  <2>2. ASSUME NEW m \in Mints, IsOpen(m)
        PROVE  [mint |-> m, gen |-> pos[m].gen, view |-> pos[m].view] \in Snapshot
    BY <2>2 DEF BookTypes, Position, Snapshot
  <2>3. todo' \subseteq Snapshot
    BY <1>1, <2>2 DEF Sweep
  <2>4. QED
    BY <1>1, <2>1, <2>3 DEF Sweep, MonitorTypes
<1>2. ASSUME NEW s \in todo, SweepPosition(s)
      PROVE  Types'
  <2>1. s.mint \in Mints /\ s.gen \in 1 .. MaxBuys /\ s.view \in View
    BY DEF MonitorTypes, Snapshot
  <2>2. EvaluatePosition(s.mint, s.gen, s.view) /\ todo' \subseteq todo
    BY <1>2 DEF SweepPosition
  <2>3. MonitorTypes'
    BY <2>1, <2>2, MonitorTypesStep
  <2>4. ChannelTypes' /\ ExecutorTypes' /\ BookTypes'
    BY <1>2 DEF SweepPosition, ChannelTypes, ExecutorTypes, BookTypes, buyers, IsOpen
  <2>5. QED
    BY <2>3, <2>4
<1>3. CASE SendCommand
  <2>1. out \in Command
    BY <1>3 DEF SendCommand, MonitorTypes
  <2>2. [mint |-> out.mint, pct |-> out.pct, manual |-> FALSE] \in Order
    BY <2>1 DEF Command, Order
  <2>3. ChannelTypes'
    BY <1>3, <2>2, PipelineAssumption DEF SendCommand, ChannelTypes
  <2>4. MonitorTypes' /\ ExecutorTypes' /\ BookTypes'
    BY <1>3 DEF SendCommand, MonitorTypes, ExecutorTypes, BookTypes, buyers, IsOpen
  <2>5. QED
    BY <2>3, <2>4
<1>4. QED
  BY <1>1, <1>2, <1>3 DEF MonitorStep

\* The step of the price channel.
LEMMA PriceStepTypes ==
  ASSUME Types, NEW m \in Mints,
         NEW view \in Quotes \cup {[pos[m].view EXCEPT !.stale = TRUE]},
         HandlePriceUpdate(m, view)
  PROVE  Types'
<1> USE DEF Types
<1>1. view \in View
  <2>1. pos[m].view \in View
    BY DEF BookTypes, Position
  <2>2. QED
    BY <2>1, ViewFields, PipelineAssumption
<1>2. /\ pos' \in [Mints -> Position]
      /\ \A n \in Mints : pos'[n].gen = pos[n].gen /\ pos'[n].status = pos[n].status
  BY <1>1, ViewSet DEF HandlePriceUpdate
<1>3. BookTypes'
  BY <1>2, BooksKept DEF HandlePriceUpdate, BookTypes
<1>4. MonitorTypes'
  <2>1. CASE IsOpen(m)
    <3>1. pos[m].gen \in 1 .. MaxBuys
      BY <2>1 DEF BookTypes, Position
    <3>2. QED
      BY <1>1, <2>1, <3>1, MonitorTypesStep DEF HandlePriceUpdate
  <2>2. CASE ~IsOpen(m)
    BY <2>2 DEF HandlePriceUpdate, MonitorTypes
  <2>3. QED
    BY <2>1, <2>2
<1>5. ChannelTypes' /\ ExecutorTypes'
  BY DEF HandlePriceUpdate, ChannelTypes, ExecutorTypes
<1>6. QED
  BY <1>3, <1>4, <1>5

\* The steps of the command processor and of the operator.
LEMMA ChannelStepTypes ==
  ASSUME Types,
         \/ ProcessCommand \/ DispatchSell \/ DropOrder
         \/ \E m \in Mints, pct \in ManualPcts : ManualSell(m, pct)
  PROVE  Types'
<1> USE DEF Types
<1>1. CASE ProcessCommand
  <2>1. ChannelTypes'
    BY <1>1, PipelineAssumption DEF ProcessCommand, ChannelTypes
  <2>2. MonitorTypes' /\ ExecutorTypes' /\ BookTypes'
    BY <1>1 DEF ProcessCommand, MonitorTypes, ExecutorTypes, BookTypes, monitor, buyers, IsOpen
  <2>3. QED
    BY <2>1, <2>2
<1>2. CASE DispatchSell
  <2>1. ChannelTypes'
    BY <1>2, PipelineAssumption DEF DispatchSell, ChannelTypes
  <2>2. MonitorTypes' /\ ExecutorTypes' /\ BookTypes'
    BY <1>2 DEF DispatchSell, MonitorTypes, ExecutorTypes, BookTypes, monitor, buyers, IsOpen
  <2>3. QED
    BY <2>1, <2>2
<1>3. CASE DropOrder
  <2>1. ChannelTypes'
    BY <1>3, PipelineAssumption DEF DropOrder, ChannelTypes
  <2>2. MonitorTypes' /\ ExecutorTypes' /\ BookTypes'
    BY <1>3 DEF DropOrder, MonitorTypes, ExecutorTypes, BookTypes, monitor, buyers, IsOpen
  <2>3. QED
    BY <2>1, <2>2
<1>4. ASSUME NEW m \in Mints, NEW pct \in ManualPcts, ManualSell(m, pct)
      PROVE  Types'
  <2>1. [mint |-> m, pct |-> pct, manual |-> TRUE] \in Order
    BY PipelineAssumption DEF Order
  <2>2. ChannelTypes'
    BY <1>4, <2>1, PipelineAssumption DEF ManualSell, ChannelTypes
  <2>3. MonitorTypes' /\ ExecutorTypes' /\ BookTypes'
    BY <1>4 DEF ManualSell, MonitorTypes, ExecutorTypes, BookTypes, monitor, buyers, IsOpen
  <2>4. QED
    BY <2>2, <2>3
<1>5. QED
  BY <1>1, <1>2, <1>3, <1>4

\* What a working executor holds.
LEMMA WorkingOrder ==
  ASSUME Types, exe.pc \in Working
  PROVE  exe.order \in Order /\ exe.order.mint \in Mints /\ exe.order.pct \in 1 .. 100
BY DEF Types, ExecutorTypes, Working, Order

\* The executor's steps before a sale is verified.
LEMMA SubmitStepTypes ==
  ASSUME Types,
         \/ SkipOrder \/ TakeOrder \/ SubmitFails \/ VerifyFails
         \/ \E landed \in BOOLEAN :
               SubmitSell(landed) \/ SubmitDirect(landed) \/ FallbackSell(landed)
  PROVE  Types'
<1> USE DEF Types
<1>1. CASE SkipOrder
  <2>1. ChannelTypes'
    BY <1>1, PipelineAssumption DEF SkipOrder, ChannelTypes
  <2>2. MonitorTypes' /\ ExecutorTypes' /\ BookTypes'
    BY <1>1 DEF SkipOrder, MonitorTypes, ExecutorTypes, BookTypes, monitor, buyers, IsOpen
  <2>3. QED
    BY <2>1, <2>2
<1>2. CASE TakeOrder
  <2>1. ChannelTypes' /\ Head(sellq) \in Order
    BY <1>2, PipelineAssumption DEF TakeOrder, ChannelTypes
  <2>2. exe' = [IdleExe EXCEPT !.pc = "submit", !.attempt = 1, !.order = Head(sellq)]
    BY <1>2 DEF TakeOrder
  <2>3. 1 \in 0 .. MaxAttempts
    BY PipelineAssumption
  <2>4. exe' \in Executor
    BY <2>1, <2>2, <2>3 DEF IdleExe, Executor, Working
  <2>5. exe'.pc = "submit" /\ exe'.attempt = 1 /\ exe'.order = Head(sellq)
    BY <2>2 DEF IdleExe
  <2>6. exe'.direct = FALSE
    BY <2>2 DEF IdleExe
  <2>7. ExecutorTypes'
    BY <2>1, <2>4, <2>5, <2>6 DEF ExecutorTypes, Working
  <2>8. MonitorTypes' /\ BookTypes'
    BY <1>2 DEF TakeOrder, MonitorTypes, BookTypes, monitor, buyers, IsOpen
  <2>9. QED
    BY <2>1, <2>7, <2>8
<1>3. CASE SubmitFails \/ VerifyFails
  <2>1. ExecutorTypes'
    BY <1>3, AttemptFailsTypes DEF SubmitFails, VerifyFails
  <2>2. MonitorTypes' /\ ChannelTypes' /\ BookTypes'
    BY <1>3 DEF SubmitFails, VerifyFails, MonitorTypes, ChannelTypes, BookTypes, monitor,
                buyers, IsOpen
  <2>3. QED
    BY <2>1, <2>2
<1>4. ASSUME NEW landed \in BOOLEAN, NEW direct \in BOOLEAN, SendSell(landed, direct)
      PROVE  Types'
  <2> DEFINE m == exe.order.mint
             amount == (bal[m] * exe.order.pct) \div 100
  <2>1. exe.pc = "submit" /\ exe.pc \in Working
    BY <1>4 DEF SendSell, Working
  <2>2. m \in Mints /\ amount \in 0 .. bal[m] /\ bal[m] \in Nat
    BY <2>1, WorkingOrder, AmountFits DEF BookTypes
  <2>3. bal' = (IF landed THEN [bal EXCEPT ![m] = @ - amount] ELSE bal)
    BY <1>4 DEF SendSell
  <2>4. BookTypes'
    <3>1. bal' \in [Mints -> Nat] /\ \A n \in Mints : bal'[n] <= bal[n]
      BY <2>2, <2>3 DEF BookTypes
    <3>2. \A n \in Mints : bal'[n] <= Units * buys[n]
      BY <3>1, PipelineAssumption DEF BookTypes
    <3>3. QED
      BY <1>4, <3>1, <3>2 DEF SendSell, BookTypes, buyers, IsOpen
  <2>5. exe' = [exe EXCEPT !.pc = "verify", !.pre = bal[m], !.landed = landed,
                           !.direct = direct]
    BY <1>4 DEF SendSell
  <2>6. exe' \in Executor
    BY <2>2, <2>5 DEF ExecutorTypes, Executor, Working
  <2>7. exe'.pc = "verify" /\ exe'.attempt = exe.attempt /\ exe'.order = exe.order
    BY <2>5 DEF ExecutorTypes, Executor
  <2>8. ExecutorTypes'
    BY <2>1, <2>6, <2>7 DEF ExecutorTypes, Working
  <2>9. MonitorTypes' /\ ChannelTypes'
    BY <1>4 DEF SendSell, MonitorTypes, ChannelTypes, monitor
  <2>10. QED
    BY <2>4, <2>8, <2>9
<1>5. ASSUME NEW landed \in BOOLEAN, FallbackSell(landed)
      PROVE  Types'
  <2> DEFINE m == exe.order.mint
             amount == (exe.pre * exe.order.pct) \div 100
  <2>1. exe.pc = "fallback" /\ exe.pc \in Working
    BY <1>5 DEF FallbackSell, Working
  <2>2. m \in Mints /\ amount \in Nat /\ bal[m] \in Nat
    <3>1. exe.pre \in Nat
      BY DEF ExecutorTypes, Executor
    <3>2. QED
      BY <2>1, <3>1, WorkingOrder, AmountFits DEF BookTypes
  <2>3. /\ bal' = (IF landed THEN [bal EXCEPT ![m] = @ - amount] ELSE bal)
        /\ landed => amount <= bal[m]
    BY <1>5 DEF FallbackSell
  <2>4. BookTypes'
    <3>1. bal' \in [Mints -> Nat] /\ \A n \in Mints : bal'[n] <= bal[n]
      BY <2>2, <2>3 DEF BookTypes
    <3>2. \A n \in Mints : bal'[n] <= Units * buys[n]
      BY <3>1, PipelineAssumption DEF BookTypes
    <3>3. QED
      BY <1>5, <3>1, <3>2 DEF FallbackSell, BookTypes, buyers, IsOpen
  <2>5. exe' = [exe EXCEPT !.pc = "verify", !.landed = landed]
    BY <1>5 DEF FallbackSell
  <2>6. exe' \in Executor
    BY <2>5 DEF ExecutorTypes, Executor, Working
  <2>7. exe'.pc = "verify" /\ exe'.attempt = exe.attempt /\ exe'.order = exe.order
    BY <2>5 DEF ExecutorTypes, Executor
  <2>8. ExecutorTypes'
    BY <2>1, <2>6, <2>7 DEF ExecutorTypes, Working
  <2>9. MonitorTypes' /\ ChannelTypes'
    BY <1>5 DEF FallbackSell, MonitorTypes, ChannelTypes, monitor
  <2>10. QED
    BY <2>4, <2>8, <2>9
<1>6. QED
  BY <1>1, <1>2, <1>3, <1>4, <1>5 DEF SubmitSell, SubmitDirect

\* A verdict on a sale.
LEMMA VerdictTypes ==
  ASSUME Types, exe.pc = "verify", NEW q \in Nat,
         exe' = [exe EXCEPT !.pc = "pnl", !.post = q,
                            !.pre = IF exe.direct THEN @ ELSE 0, !.landed = FALSE]
  PROVE  /\ ExecutorTypes'
         /\ exe'.pc = "pnl" /\ exe'.post = q /\ exe'.order = exe.order
<1> USE DEF Types
<1>1. exe' \in Executor
  BY DEF ExecutorTypes, Executor, Working
<1>2. exe'.pc = "pnl" /\ exe'.attempt = exe.attempt /\ exe'.order = exe.order /\ exe'.post = q
  BY DEF ExecutorTypes, Executor
<1>3. QED
  BY <1>1, <1>2 DEF ExecutorTypes, Working

\* What booking a sale does to the position.
LEMMA BookSellBooks ==
  ASSUME Types, BookSell
  PROVE  LET m == exe.order.mint
         IN  /\ pos' \in [Mints -> Position]
             /\ pos'[m].status = IF exe.post = 0 THEN "Sold" ELSE pos[m].status
             /\ \A n \in Mints : pos'[n].gen = pos[n].gen
             /\ \A n \in Mints \ {m} : pos'[n] = pos[n]
<1> DEFINE m == exe.order.mint
<1>1. m \in Mints
  BY WorkingOrder DEF BookSell, Working
<1>2. CASE exe.post = 0
  BY <1>1, <1>2, StatusSet DEF BookSell, Types
<1>3. CASE exe.post # 0
  BY <1>1, <1>3 DEF BookSell, Types, BookTypes
<1>4. QED
  BY <1>2, <1>3

\* What giving up does to the position.
LEMMA MarkErrorBooks ==
  ASSUME Types, MarkError
  PROVE  LET m == exe.order.mint
         IN  /\ pos' \in [Mints -> Position]
             /\ pos'[m].status = IF IsOpen(m) THEN "Error" ELSE pos[m].status
             /\ \A n \in Mints : pos'[n].gen = pos[n].gen
             /\ \A n \in Mints \ {m} : pos'[n] = pos[n]
<1> DEFINE m == exe.order.mint
<1>1. m \in Mints
  BY WorkingOrder DEF MarkError, Working
<1>2. CASE IsOpen(m)
  <2>1. pos' = [pos EXCEPT ![m].status = "Error", ![m].view.pnl = 0]
    BY <1>2 DEF MarkError
  <2>2. QED
    BY <1>1, <1>2, <2>1, ErrorSet DEF Types
<1>3. CASE ~IsOpen(m)
  BY <1>1, <1>3 DEF MarkError, Types, BookTypes
<1>4. QED
  BY <1>2, <1>3

\* The executor's steps after the verdict.
LEMMA BookStepTypes ==
  ASSUME Types,
         BalanceReduced \/ SignatureConfirmed \/ BookPnl \/ BookSell \/ MarkError
  PROVE  Types'
<1> USE DEF Types
<1>1. ASSUME exe' = IdleExe PROVE ExecutorTypes'
  <2>1. 0 \in 0 .. MaxAttempts
    BY PipelineAssumption
  <2>2. QED
    BY <1>1, <2>1 DEF ExecutorTypes, Executor, Working, IdleExe
<1>2. CASE BalanceReduced
  <2>1. exe.pc = "verify" /\ bal[exe.order.mint] \in Nat
    BY <1>2, WorkingOrder DEF BalanceReduced, Working, BookTypes
  <2>2. ExecutorTypes'
    BY <1>2, <2>1, VerdictTypes DEF BalanceReduced
  <2>3. MonitorTypes' /\ ChannelTypes' /\ BookTypes'
    BY <1>2 DEF BalanceReduced, MonitorTypes, ChannelTypes, BookTypes, monitor, buyers, IsOpen
  <2>4. QED
    BY <2>2, <2>3
<1>3. CASE SignatureConfirmed
  <2>1. ExecutorTypes'
    BY <1>3, VerdictTypes DEF SignatureConfirmed
  <2>2. exe.order.mint \in Mints
    BY <1>3, WorkingOrder DEF SignatureConfirmed, Working
  <2>3. MonitorTypes' /\ ChannelTypes' /\ BookTypes'
    BY <1>3, <2>2 DEF SignatureConfirmed, MonitorTypes, ChannelTypes, BookTypes, monitor,
                      buyers, IsOpen
  <2>4. QED
    BY <2>1, <2>3
<1>4. CASE BookPnl
  <2> DEFINE m == exe.order.mint
  <2>1. m \in Mints
    BY <1>4, WorkingOrder DEF BookPnl, Working
  <2>2. PICK r \in Realized \cup {pos[m].view.pnl} : pos' = [pos EXCEPT ![m].view.pnl = r]
    BY <1>4 DEF BookPnl
  <2>3. r \in Int
    BY <2>1, <2>2, PipelineAssumption DEF BookTypes, Position, View
  <2>4. /\ pos' \in [Mints -> Position]
        /\ \A n \in Mints : pos'[n].gen = pos[n].gen /\ pos'[n].status = pos[n].status
    BY <2>1, <2>2, <2>3, PnlSet
  <2>5. BookTypes'
    BY <1>4, <2>4, BooksKept DEF BookPnl, BookTypes
  <2>6. exe' = [exe EXCEPT !.pc = "book"] /\ exe.pc = "pnl"
    BY <1>4 DEF BookPnl
  <2>7. exe' \in Executor
    BY <2>6 DEF ExecutorTypes, Executor, Working
  <2>8. exe'.pc = "book" /\ exe'.attempt = exe.attempt /\ exe'.order = exe.order
    BY <2>6 DEF ExecutorTypes, Executor
  <2>9. ExecutorTypes'
    BY <2>6, <2>7, <2>8 DEF ExecutorTypes, Working
  <2>10. MonitorTypes' /\ ChannelTypes'
    BY <1>4 DEF BookPnl, MonitorTypes, ChannelTypes, monitor
  <2>11. QED
    BY <2>5, <2>9, <2>10
<1>5. CASE BookSell
  <2>1. exe.order.mint \in Mints
    BY <1>5, WorkingOrder DEF BookSell, Working
  <2>2. loose' \subseteq Mints /\ UNCHANGED <<bal, buyers>>
    BY <1>5, <2>1 DEF BookSell, BookTypes
  <2>3. \A n \in Mints : pos'[n].status = "Open" => pos[n].status = "Open"
    BY <1>5, <2>1, BookSellBooks
  <2>4. BookTypes'
    BY <1>5, <2>2, <2>3, BookSellBooks, BooksKept
  <2>5. ExecutorTypes'
    BY <1>1, <1>5, AttemptFailsTypes DEF BookSell
  <2>6. MonitorTypes' /\ ChannelTypes'
    BY <1>5 DEF BookSell, MonitorTypes, ChannelTypes, monitor
  <2>7. QED
    BY <2>4, <2>5, <2>6
<1>6. CASE MarkError
  <2>1. exe.order.mint \in Mints
    BY <1>6, WorkingOrder DEF MarkError, Working
  <2>2. loose' \subseteq Mints /\ UNCHANGED <<bal, buyers>>
    BY <1>6 DEF MarkError, BookTypes
  <2>3. \A n \in Mints : pos'[n].status = "Open" => pos[n].status = "Open"
    BY <1>6, <2>1, MarkErrorBooks DEF IsOpen
  <2>4. BookTypes'
    BY <1>6, <2>2, <2>3, MarkErrorBooks, BooksKept
  <2>5. ExecutorTypes'
    BY <1>1, <1>6 DEF MarkError
  <2>6. MonitorTypes' /\ ChannelTypes'
    BY <1>6 DEF MarkError, MonitorTypes, ChannelTypes, monitor
  <2>7. QED
    BY <2>4, <2>5, <2>6
<1>7. QED
  BY <1>2, <1>3, <1>4, <1>5, <1>6

\* The buyers' steps.
LEMMA BuyStepTypes ==
  ASSUME Types, NEW m \in Mints, BuyLands(m) \/ BuyOpens(m)
  PROVE  Types'
<1> USE DEF Types
<1>1. MonitorTypes' /\ ChannelTypes' /\ ExecutorTypes'
  BY DEF BuyLands, BuyOpens, MonitorTypes, ChannelTypes, ExecutorTypes, monitor
<1>2. CASE BuyLands(m)
  <2>1. buys[m] < MaxBuys /\ buys[m] \in Nat /\ Units \in Nat /\ MaxBuys \in Nat
    BY <1>2, PipelineAssumption DEF BuyLands, BookTypes
  <2>2. bal' \in [Mints -> Nat] /\ buys' \in [Mints -> 0 .. MaxBuys]
        /\ buying' \in [Mints -> BOOLEAN]
    BY <1>2, <2>1 DEF BuyLands, BookTypes
  <2>3. Units * (buys[m] + 1) = Units * buys[m] + Units
    BY <2>1
  <2>4. \A n \in Mints : bal'[n] <= Units * buys'[n]
    BY <1>2, <2>1, <2>3 DEF BuyLands, BookTypes
  <2>5. \A n \in Mints : pos[n].gen \in Nat
    BY DEF BookTypes, Position
  <2>6. \A n \in Mints : /\ pos'[n].gen <= buys'[n]
                         /\ buying'[n] => pos'[n].gen < buys'[n]
                         /\ IsOpen(n)' => pos'[n].gen >= 1
    BY <1>2, <2>1, <2>5 DEF BuyLands, BookTypes, IsOpen
  <2>7. QED
    BY <1>1, <1>2, <2>2, <2>4, <2>6 DEF BuyLands, BookTypes
<1>3. CASE BuyOpens(m)
  <2>1. buys[m] \in 0 .. MaxBuys /\ buying[m] /\ pos[m].gen < buys[m] /\ pos[m].gen \in Nat
    BY <1>3 DEF BuyOpens, BookTypes, Position
  <2>2. Opened \in View
    BY DEF Opened, View
  <2>3. pos' \in [Mints -> Position] /\ buying' \in [Mints -> BOOLEAN] /\ loose' \subseteq Mints
    BY <1>3, <2>1, <2>2 DEF BuyOpens, BookTypes, Position
  <2>4. \/ pos'[m].gen <= buys[m] /\ pos'[m].gen >= 1
        \/ IsOpen(m) /\ pos' = pos
    <3>1. CASE IsOpen(m)
      BY <1>3, <3>1 DEF BuyOpens
    <3>2. CASE ~IsOpen(m)
      <4>1. pos' = [pos EXCEPT ![m] = [gen |-> buys[m], status |-> "Open", view |-> Opened]]
        BY <1>3, <3>2 DEF BuyOpens
      <4>2. pos'[m] = [gen |-> buys[m], status |-> "Open", view |-> Opened]
        BY <4>1 DEF BookTypes
      <4>3. pos'[m].gen = buys[m]
        BY <4>2
      <4>4. QED
        BY <2>1, <4>3
    <3>3. QED
      BY <3>1, <3>2
  <2>5. \A n \in Mints \ {m} : pos'[n] = pos[n] /\ buying'[n] = buying[n]
    BY <1>3 DEF BuyOpens, BookTypes
  <2>6. \A n \in Mints : /\ pos'[n].gen <= buys'[n]
                         /\ buying'[n] => pos'[n].gen < buys'[n]
                         /\ IsOpen(n)' => pos'[n].gen >= 1
    BY <1>3, <2>4, <2>5 DEF BuyOpens, BookTypes, IsOpen
  <2>7. QED
    BY <1>1, <1>3, <2>3, <2>6 DEF BuyOpens, BookTypes
<1>4. QED
  BY <1>2, <1>3

\* What a restart puts into the cache.
LEMMA RestartPosition ==
  ASSUME RowTypes, BookTypes, Restart, NEW m \in Mints
  PROVE  /\ pos'[m] \in Position /\ pos'[m].gen <= buys[m]
         /\ pos'[m].status \in {"None", "Open"}
         /\ pos'[m].status = "Open" => pos'[m].gen >= 1
<1>1. NoPosition \in Position /\ NoPosition.gen = 0 /\ NoPosition.status = "None"
      /\ buys[m] \in Nat
  BY PipelineAssumption DEF NoPosition, Position, Opened, View, BookTypes
<1>2. CASE pos'[m] = NoPosition
  BY <1>1, <1>2
<1>3. CASE \E g \in rows[m], w \in Written :
              pos'[m] = [gen |-> g, status |-> "Open", view |-> [w EXCEPT !.age = 0]]
  <2>1. PICK g \in rows[m], w \in Written :
           pos'[m] = [gen |-> g, status |-> "Open", view |-> [w EXCEPT !.age = 0]]
    BY <1>3
  <2>2. g \in 1 .. MaxBuys /\ g <= buys[m]
    BY <2>1 DEF RowTypes
  <2>3. w \in View
    BY <2>1, PipelineAssumption
  <2>4. [w EXCEPT !.age = 0] \in View
    BY <2>3 DEF View
  <2>5. pos'[m].gen = g /\ pos'[m].status = "Open" /\ pos'[m] \in Position
    BY <2>1, <2>2, <2>4 DEF Position
  <2>6. QED
    BY <2>2, <2>5
<1>4. pos'[m] = NoPosition \/ pos'[m] \in Reloaded(m)
  BY DEF Restart
<1>5. CASE pos'[m] \in Reloaded(m)
  <2> DEFINE row(g, w) == [gen |-> g, status |-> "Open", view |-> [w EXCEPT !.age = 0]]
  <2>1. CASE rows[m] = {}
    BY <1>2, <1>5, <2>1 DEF Reloaded
  <2>2. CASE rows[m] # {}
    <3>1. Reloaded(m) = {row(g, w) : g \in rows[m], w \in Written}
      BY <2>2 DEF Reloaded
    <3> HIDE DEF row
    <3>2. \E g \in rows[m], w \in Written : pos'[m] = row(g, w)
      BY <1>5, <3>1
    <3> USE DEF row
    <3>3. QED
      BY <1>3, <3>2
  <2>3. QED
    BY <2>1, <2>2
<1>6. QED
  BY <1>2, <1>4, <1>5

\* A restart keeps the types: what is lost with the process starts from nothing,
\* and what is reloaded was written before.
LEMMA RestartTypes ==
  ASSUME Types, RowTypes, Restart
  PROVE  Types'
<1> USE DEF Types
<1>1. MaxBuys \in Nat /\ MaxAttempts \in Nat /\ CmdCap \in Nat /\ SellCap \in Nat
  BY PipelineAssumption
<1>2. MonitorTypes' /\ ChannelTypes'
  BY <1>1 DEF Restart, MonitorTypes, ChannelTypes
<1>3. ExecutorTypes'
  BY <1>1 DEF Restart, ExecutorTypes, Executor, Working, IdleExe
<1>4. pos' \in [Mints -> Position]
  <2>1. pos' = [n \in Mints |-> pos'[n]]
    BY DEF Restart
  <2>2. \A n \in Mints : pos'[n] \in Position
    BY RestartPosition
  <2>3. QED
    BY <2>1, <2>2
<1>5. /\ bal' = bal /\ buys' = buys /\ buying' = [n \in Mints |-> FALSE]
      /\ loose' \subseteq Mints
  BY DEF Restart, BookTypes
<1>6. \A n \in Mints : pos'[n].gen <= buys[n] /\ (pos'[n].status = "Open" => pos'[n].gen >= 1)
  BY RestartPosition
<1>7. BookTypes'
  BY <1>4, <1>5, <1>6 DEF BookTypes, IsOpen
<1>8. QED
  BY <1>2, <1>3, <1>7

\* The initial state has the types.
LEMMA InitTypes ==
  ASSUME Init
  PROVE  Types /\ RowTypes
<1>1. Opened \in View
  BY DEF Opened, View
<1>2. MaxBuys \in Nat /\ MaxAttempts \in Nat /\ CmdCap \in Nat /\ SellCap \in Nat /\ Units \in Nat
  BY PipelineAssumption
<1>3. MonitorTypes /\ ChannelTypes
  BY <1>2 DEF Init, MonitorTypes, ChannelTypes
<1>4. ExecutorTypes
  BY <1>2 DEF Init, ExecutorTypes, Executor, Working, IdleExe
<1>5. NoPosition \in Position /\ NoPosition.gen = 0 /\ NoPosition.status = "None"
  BY <1>1, <1>2 DEF NoPosition, Position
<1>6. BookTypes
  BY <1>2, <1>5 DEF Init, BookTypes, IsOpen
<1>7. RowTypes
  BY DEF Init, RowTypes
<1>8. QED
  BY <1>3, <1>4, <1>6, <1>7 DEF Types

\* Every step keeps the types.
LEMMA TypesStep ==
  ASSUME Types, RowTypes, [Next]_vars
  PROVE  Types'
<1>1. CASE Next
  BY <1>1, MonitorStepTypes, PriceStepTypes, ChannelStepTypes, SubmitStepTypes,
     BookStepTypes, BuyStepTypes, RestartTypes DEF Next, SellStep
<1>2. CASE UNCHANGED vars
  BY <1>2 DEF vars, Types, MonitorTypes, ChannelTypes, ExecutorTypes, BookTypes, IsOpen
<1>3. QED
  BY <1>1, <1>2

\* Writing a position to the database keeps the rows those of buys that landed.
LEMMA PersistRows ==
  ASSUME RowTypes, BookTypes', NEW m \in Mints, Persist(m), UNCHANGED buys
  PROVE  RowTypes'
<1>1. pos'[m].gen \in 0 .. MaxBuys /\ pos'[m].gen <= buys[m]
      /\ (pos'[m].status = "Open" => pos'[m].gen >= 1)
  BY DEF BookTypes, Position, IsOpen
<1>2. pos'[m].status = "Open" => pos'[m].gen \in 1 .. MaxBuys
  BY <1>1, PipelineAssumption
<1>3. rows' \in [Mints -> SUBSET (1 .. MaxBuys)]
  BY <1>2 DEF Persist, RowTypes
<1>4. \A n \in Mints : \A g \in rows'[n] : g \in rows[n] \/ (n = m /\ g = pos'[m].gen)
  BY DEF Persist, RowTypes
<1>5. \A n \in Mints : \A g \in rows'[n] : g <= buys[n]
  BY <1>1, <1>4 DEF RowTypes
<1>6. QED
  BY <1>3, <1>5 DEF RowTypes

\* Every step keeps the rows those of buys that landed.
LEMMA RowsStep ==
  ASSUME Types, RowTypes, [Next]_vars
  PROVE  RowTypes'
<1>1. BookTypes'
  BY TypesStep DEF Types
<1>2. CASE UNCHANGED <<rows, buys>>
  BY <1>2 DEF RowTypes
<1>3. CASE \E m \in Mints : Persist(m) /\ UNCHANGED buys
  BY <1>1, <1>3, PersistRows
<1>4. CASE \E m \in Mints : BuyLands(m)
  <2>1. PICK m \in Mints : BuyLands(m)
    BY <1>4
  <2>2. rows' = rows /\ \A n \in Mints : buys[n] \in Nat /\ buys'[n] \in Nat /\ buys[n] <= buys'[n]
    BY <2>1, PipelineAssumption DEF BuyLands, Types, BookTypes
  <2>3. \A n \in Mints : \A g \in rows[n] : g <= buys'[n]
    <3>1. \A n \in Mints : \A g \in rows[n] : g \in Nat
      BY DEF RowTypes
    <3>2. QED
      BY <2>2, <3>1 DEF RowTypes
  <2>4. QED
    BY <2>2, <2>3 DEF RowTypes
<1>5. CASE BookSell \/ MarkError
  <2>1. exe.order.mint \in Mints
    BY <1>5, WorkingOrder DEF BookSell, MarkError, Working
  <2>2. QED
    BY <1>2, <1>3, <1>5, <2>1 DEF BookSell, MarkError, buyers
<1>6. CASE \E m \in Mints : BuyOpens(m)
  BY <1>2, <1>3, <1>6 DEF BuyOpens
<1>7. QED
  BY <1>2, <1>4, <1>5, <1>6 DEF Next, vars, MonitorStep, Sweep, SweepPosition, SendCommand,
     HandlePriceUpdate, ProcessCommand, DispatchSell, ManualSell, DropOrder, SellStep,
     SkipOrder, TakeOrder, SubmitFails, SubmitSell, SubmitDirect, SendSell, FallbackSell,
     BalanceReduced, SignatureConfirmed, VerifyFails, BookPnl, Restart, buyers

\* The types of the states of the pipeline.
LEMMA TypesInvariant == Spec => [](Types /\ RowTypes)
BY InitTypes, TypesStep, RowsStep, PTL DEF Spec

\* The type invariant: the channels never exceed their capacity, the executor never
\* its number of attempts, and the wallet never what was bought.
THEOREM TypeCorrect == Spec => []TypeOK
<1>1. Types /\ RowTypes => TypeOK
  <2> SUFFICES ASSUME Types, RowTypes PROVE TypeOK
    OBVIOUS
  <2>1. MaxBuys \in Nat /\ Units \in Nat
    BY PipelineAssumption
  <2>2. ASSUME NEW m \in Mints
        PROVE  bal[m] \in 0 .. Units * MaxBuys
    <3>1. bal[m] \in Nat /\ bal[m] <= Units * buys[m] /\ buys[m] \in 0 .. MaxBuys
      BY DEF Types, BookTypes
    <3>2. Units * buys[m] <= Units * MaxBuys
      BY <2>1, <3>1
    <3>3. QED
      BY <2>1, <3>1, <3>2
  <2>3. ASSUME NEW m \in Mints
        PROVE  /\ pos[m].gen \in 0 .. MaxBuys
               /\ pos[m].status \in {"None", "Open", "Sold", "Error"}
               /\ pos[m].view \in View
               /\ triggered[m] \subseteq DOMAIN Tiers[Mode]
               /\ buys[m] \in 0 .. MaxBuys /\ buying[m] \in BOOLEAN
               /\ rows[m] \subseteq 1 .. MaxBuys
    BY DEF Types, BookTypes, MonitorTypes, RowTypes, Position
  <2>4. exe.pc \in {"idle", "submit", "fallback", "verify", "pnl", "book", "error"}
        /\ exe.attempt \in 0 .. MaxAttempts
    BY DEF Types, ExecutorTypes, Executor, Working
  <2>5. /\ out \in Command \cup {NoOrder} /\ proc \in Order \cup {NoOrder}
        /\ Len(cmdq) <= CmdCap /\ Len(sellq) <= SellCap
        /\ \A i \in DOMAIN sellq : sellq[i] \in Order
        /\ loose \subseteq Mints
        /\ fired \subseteq Mints \X (1 .. MaxBuys) \X DOMAIN Tiers[Mode]
    BY DEF Types, BookTypes, MonitorTypes, ChannelTypes
  <2>6. QED
    BY <2>2, <2>3, <2>4, <2>5 DEF TypeOK
<1>2. QED
  BY <1>1, TypesInvariant, PTL

----------------------------------------------------------------------------
(* Tiers                                                                   *)

\* What fired of the position that is open, or of one that the sweep has still to
\* evaluate, is among the triggered tiers of its mint; nothing has fired for a
\* position that is yet to come.
TiersRemembered ==
    /\ \A s \in todo : s.gen <= pos[s.mint].gen
    /\ \A m \in Mints, g \in 1 .. MaxBuys, t \in DOMAIN Tiers[Mode] :
          <<m, g, t>> \in fired => g <= pos[m].gen
    /\ \A s \in todo, t \in DOMAIN Tiers[Mode] :
          <<s.mint, s.gen, t>> \in fired => t \in triggered[s.mint]
    /\ \A m \in Mints, t \in DOMAIN Tiers[Mode] :
          IsOpen(m) /\ <<m, pos[m].gen, t>> \in fired => t \in triggered[m]

\* A step that evaluates nothing and opens nothing keeps it.
LEMMA TiersKept ==
  ASSUME Types, TiersRemembered, UNCHANGED <<triggered, todo, fired>>,
         \A n \in Mints : /\ pos'[n].gen = pos[n].gen
                          /\ pos'[n].status = "Open" => pos[n].status = "Open"
  PROVE  TiersRemembered'
<1>1. \A s \in todo : s.mint \in Mints
  BY DEF Types, MonitorTypes, Snapshot
<1>2. QED
  BY <1>1 DEF TiersRemembered, IsOpen

\* So does one that evaluates a position as it is, or as it was.
LEMMA TiersEvaluated ==
  ASSUME Types, TiersRemembered, NEW m \in Mints, NEW gen \in 1 .. MaxBuys, NEW view \in View,
         EvaluatePosition(m, gen, view), gen <= pos[m].gen, todo' \subseteq todo,
         \A n \in Mints : pos'[n].gen = pos[n].gen /\ pos'[n].status = pos[n].status
  PROVE  TiersRemembered'
<1>1. \A s \in todo : s.mint \in Mints /\ s.gen \in 1 .. MaxBuys
  BY DEF Types, MonitorTypes, Snapshot
<1>2. CASE UNCHANGED <<triggered, fired>>
  BY <1>1, <1>2 DEF TiersRemembered, IsOpen
<1>3. CASE \E t \in DOMAIN Tiers[Mode] \ triggered[m] :
               /\ triggered' = [triggered EXCEPT ![m] = @ \cup {t}]
               /\ fired' = fired \cup {<<m, gen, t>>}
  <2>1. PICK t \in DOMAIN Tiers[Mode] :
               /\ triggered' = [triggered EXCEPT ![m] = @ \cup {t}]
               /\ fired' = fired \cup {<<m, gen, t>>}
    BY <1>3
  <2>2. \A n \in Mints : triggered[n] \subseteq triggered'[n]
    BY <2>1 DEF Types, MonitorTypes
  <2>3. t \in triggered'[m]
    BY <2>1 DEF Types, MonitorTypes
  <2>4. \A n \in Mints, g \in 1 .. MaxBuys, u \in DOMAIN Tiers[Mode] :
           <<n, g, u>> \in fired' => <<n, g, u>> \in fired \/ (n = m /\ g = gen /\ u = t)
    BY <2>1
  <2>5. \A s \in todo' : s.gen <= pos'[s.mint].gen
    BY <1>1 DEF TiersRemembered
  <2>6. \A n \in Mints, g \in 1 .. MaxBuys, u \in DOMAIN Tiers[Mode] :
           <<n, g, u>> \in fired' => g <= pos'[n].gen
    BY <2>4 DEF TiersRemembered
  <2>7. \A s \in todo', u \in DOMAIN Tiers[Mode] :
           <<s.mint, s.gen, u>> \in fired' => u \in triggered'[s.mint]
    BY <1>1, <2>2, <2>3, <2>4 DEF TiersRemembered
  <2>8. ASSUME NEW n \in Mints, NEW u \in DOMAIN Tiers[Mode],
               IsOpen(n)', <<n, pos'[n].gen, u>> \in fired'
        PROVE  u \in triggered'[n]
    <3>1. IsOpen(n) /\ pos'[n].gen = pos[n].gen
      BY <2>8 DEF IsOpen
    <3>2. pos[n].gen \in 1 .. MaxBuys
      BY <3>1 DEF Types, BookTypes, Position
    <3>3. QED
      BY <2>2, <2>3, <2>4, <2>8, <3>1, <3>2 DEF TiersRemembered
  <2>9. QED
    BY <2>5, <2>6, <2>7, <2>8 DEF TiersRemembered
<1>4. QED
  BY <1>2, <1>3, Evaluated

\* The steps that touch neither the monitor's memory nor the positions' numbers.
LEMMA QuietSteps ==
  ASSUME Types,
         \/ SendCommand \/ ProcessCommand \/ DispatchSell \/ DropOrder \/ SellStep
         \/ \E m \in Mints, pct \in ManualPcts : ManualSell(m, pct)
         \/ \E m \in Mints : BuyLands(m)
         \/ UNCHANGED vars
  PROVE  /\ UNCHANGED <<triggered, todo, fired>>
         /\ \A n \in Mints : /\ pos'[n].gen = pos[n].gen
                             /\ pos'[n].status = "Open" => pos[n].status = "Open"
<1>1. CASE UNCHANGED pos
  BY <1>1 DEF SendCommand, ProcessCommand, DispatchSell, DropOrder, ManualSell, BuyLands, vars,
       SellStep, SkipOrder, TakeOrder, SubmitFails, SubmitSell, SubmitDirect, SendSell,
       FallbackSell, BalanceReduced, SignatureConfirmed, VerifyFails, BookPnl, BookSell,
       MarkError, monitor
<1>2. CASE BookPnl
  <2> DEFINE m == exe.order.mint
  <2>1. m \in Mints
    BY <1>2, WorkingOrder DEF BookPnl, Working
  <2>2. PICK r \in Realized \cup {pos[m].view.pnl} : pos' = [pos EXCEPT ![m].view.pnl = r]
    BY <1>2 DEF BookPnl
  <2>3. r \in Int
    BY <2>1, <2>2, PipelineAssumption DEF Types, BookTypes, Position, View
  <2>4. QED
    BY <1>2, <2>1, <2>2, <2>3, PnlSet DEF BookPnl, monitor, Types
<1>3. CASE BookSell
  <2>1. exe.order.mint \in Mints
    BY <1>3, WorkingOrder DEF BookSell, Working
  <2>2. QED
    BY <1>3, <2>1, BookSellBooks DEF BookSell, monitor
<1>4. CASE MarkError
  <2>1. exe.order.mint \in Mints
    BY <1>4, WorkingOrder DEF MarkError, Working
  <2>2. QED
    BY <1>4, <2>1, MarkErrorBooks DEF MarkError, monitor, IsOpen
<1>5. QED
  <2>1. UNCHANGED pos \/ BookPnl \/ BookSell \/ MarkError
    BY DEF SendCommand, ProcessCommand, DispatchSell, DropOrder, ManualSell, BuyLands, vars,
       SellStep, SkipOrder, TakeOrder, SubmitFails, SubmitSell, SubmitDirect, SendSell,
       FallbackSell, BalanceReduced, SignatureConfirmed, VerifyFails
  <2>2. QED
    BY <1>1, <1>2, <1>3, <1>4, <2>1

\* Every step keeps it: the sweep forgets only the tiers of positions that are
\* closed, and the number of a new position is fresh.
LEMMA TiersStep ==
  ASSUME Types, TiersRemembered, [Next]_vars
  PROVE  TiersRemembered'
<1>1. CASE Sweep
  <2>1. /\ todo' = {[mint |-> m, gen |-> pos[m].gen, view |-> pos[m].view] :
                       m \in {n \in Mints : IsOpen(n)}}
        /\ \A m \in Mints : IsOpen(m) => triggered'[m] = triggered[m]
        /\ pos' = pos /\ fired' = fired
    BY <1>1 DEF Sweep
  <2>2. \A s \in todo' : s.mint \in Mints /\ IsOpen(s.mint) /\ s.gen = pos[s.mint].gen
    BY <2>1
  <2>3. \A m \in Mints : IsOpen(m) => pos[m].gen \in 1 .. MaxBuys
    BY DEF Types, BookTypes, Position
  <2>4. QED
    BY <2>1, <2>2, <2>3 DEF TiersRemembered, IsOpen
<1>2. ASSUME NEW s \in todo, SweepPosition(s)
      PROVE  TiersRemembered'
  <2>1. s.mint \in Mints /\ s.gen \in 1 .. MaxBuys /\ s.view \in View
    BY DEF Types, MonitorTypes, Snapshot
  <2>2. s.gen <= pos[s.mint].gen
    BY DEF TiersRemembered
  <2>3. QED
    BY <1>2, <2>1, <2>2, TiersEvaluated DEF SweepPosition
<1>3. ASSUME NEW m \in Mints,
             NEW view \in Quotes \cup {[pos[m].view EXCEPT !.stale = TRUE]},
             HandlePriceUpdate(m, view)
      PROVE  TiersRemembered'
  <2>1. view \in View
    <3>1. pos[m].view \in View
      BY DEF Types, BookTypes, Position
    <3>2. QED
      BY <3>1, ViewFields, PipelineAssumption
  <2>2. \A n \in Mints : pos'[n].gen = pos[n].gen /\ pos'[n].status = pos[n].status
    BY <1>3, <2>1, ViewSet DEF HandlePriceUpdate, Types
  <2>3. todo' = todo
    BY <1>3 DEF HandlePriceUpdate
  <2>4. CASE IsOpen(m)
    <3>1. pos[m].gen \in 1 .. MaxBuys
      BY <2>4 DEF Types, BookTypes, Position
    <3>2. QED
      BY <1>3, <2>1, <2>2, <2>3, <2>4, <3>1, TiersEvaluated DEF HandlePriceUpdate
  <2>5. CASE ~IsOpen(m)
    BY <1>3, <2>2, <2>3, <2>5, TiersKept DEF HandlePriceUpdate
  <2>6. QED
    BY <2>4, <2>5
<1>4. ASSUME NEW m \in Mints, BuyOpens(m)
      PROVE  TiersRemembered'
  <2>1. UNCHANGED <<triggered, todo, fired>>
    BY <1>4 DEF BuyOpens, monitor
  <2>2. CASE IsOpen(m)
    BY <1>4, <2>1, <2>2, TiersKept DEF BuyOpens
  <2>3. CASE ~IsOpen(m)
    <3>1. pos' = [pos EXCEPT ![m] = [gen |-> buys[m], status |-> "Open", view |-> Opened]]
      BY <1>4, <2>3 DEF BuyOpens
    <3>2. pos'[m] = [gen |-> buys[m], status |-> "Open", view |-> Opened]
      BY <3>1 DEF Types, BookTypes
    <3>3. pos'[m].gen = buys[m] /\ pos[m].gen < buys[m] /\ pos[m].gen \in Nat
          /\ buys[m] \in 1 .. MaxBuys
      BY <1>4, <3>2 DEF BuyOpens, Types, BookTypes, Position
    <3>4. \A n \in Mints \ {m} : pos'[n] = pos[n]
      BY <3>1 DEF Types, BookTypes
    <3>5. \A t \in DOMAIN Tiers[Mode] : <<m, pos'[m].gen, t>> \notin fired
      BY <3>3 DEF TiersRemembered
    <3>6. \A s \in todo : s.mint \in Mints /\ s.gen \in 1 .. MaxBuys
      BY DEF Types, MonitorTypes, Snapshot
    <3>7. \A s \in todo' : s.gen <= pos'[s.mint].gen
      BY <2>1, <3>3, <3>4, <3>6 DEF TiersRemembered
    <3>8. \A n \in Mints, g \in 1 .. MaxBuys, t \in DOMAIN Tiers[Mode] :
             <<n, g, t>> \in fired' => g <= pos'[n].gen
      BY <2>1, <3>3, <3>4 DEF TiersRemembered
    <3>9. \A n \in Mints, t \in DOMAIN Tiers[Mode] :
             IsOpen(n)' /\ <<n, pos'[n].gen, t>> \in fired' => t \in triggered'[n]
      BY <2>1, <3>4, <3>5 DEF TiersRemembered, IsOpen
    <3>10. QED
      BY <2>1, <3>7, <3>8, <3>9 DEF TiersRemembered
  <2>4. QED
    BY <2>2, <2>3
<1>5. QED
  <2>1. CASE \/ SendCommand \/ ProcessCommand \/ DispatchSell \/ DropOrder \/ SellStep
             \/ \E m \in Mints, pct \in ManualPcts : ManualSell(m, pct)
             \/ \E m \in Mints : BuyLands(m)
             \/ UNCHANGED vars
    BY <2>1, QuietSteps, TiersKept
  <2>2. CASE Restart
    <3>1. todo' = {} /\ fired' = {}
      BY <2>2 DEF Restart
    <3>2. QED
      BY <3>1 DEF TiersRemembered
  <2>3. QED
    BY <1>1, <1>2, <1>3, <1>4, <2>1, <2>2 DEF Next, MonitorStep

\* No step fires a tier that its position has fired before.
LEMMA TierOnceStep ==
  ASSUME Types, TiersRemembered, Next, TierFires
  PROVE  <<out'.mint, out'.gen, out'.tier>> \notin fired
<1>1. out' # out /\ out' # NoOrder
  BY DEF TierFires
<1>2. CASE \E s \in todo : SweepPosition(s)
  <2>1. PICK s \in todo : SweepPosition(s)
    BY <1>2
  <2>2. s.mint \in Mints /\ s.gen \in 1 .. MaxBuys /\ s.view \in View
    BY DEF Types, MonitorTypes, Snapshot
  <2>3. EvaluatePosition(s.mint, s.gen, s.view)
    BY <2>1 DEF SweepPosition
  <2>4. PICK t \in DOMAIN Tiers[Mode] \ triggered[s.mint] :
           out'.mint = s.mint /\ out'.gen = s.gen /\ out'.tier = t
    BY <1>1, <2>2, <2>3, Evaluated DEF TierFires
  <2>5. QED
    BY <2>4 DEF TiersRemembered
<1>3. CASE \E m \in Mints : \E view \in Quotes \cup {[pos[m].view EXCEPT !.stale = TRUE]} :
              HandlePriceUpdate(m, view)
  <2>1. PICK m \in Mints : \E view \in Quotes \cup {[pos[m].view EXCEPT !.stale = TRUE]} :
           HandlePriceUpdate(m, view)
    BY <1>3
  <2>2. PICK view \in Quotes \cup {[pos[m].view EXCEPT !.stale = TRUE]} :
           HandlePriceUpdate(m, view)
    BY <2>1
  <2>3. view \in View
    <3>1. pos[m].view \in View
      BY DEF Types, BookTypes, Position
    <3>2. QED
      BY <3>1, ViewFields, PipelineAssumption
  <2>4. IsOpen(m) /\ EvaluatePosition(m, pos[m].gen, view)
    BY <1>1, <2>2 DEF HandlePriceUpdate
  <2>5. pos[m].gen \in 1 .. MaxBuys
    BY <2>4 DEF Types, BookTypes, Position
  <2>6. PICK t \in DOMAIN Tiers[Mode] \ triggered[m] :
           out'.mint = m /\ out'.gen = pos[m].gen /\ out'.tier = t
    BY <1>1, <2>3, <2>4, <2>5, Evaluated DEF TierFires
  <2>7. QED
    BY <2>4, <2>6 DEF TiersRemembered
<1>4. QED
  BY <1>1, <1>2, <1>3 DEF Next, MonitorStep, Sweep, SendCommand, ProcessCommand, DispatchSell,
     ManualSell, DropOrder, BuyLands, BuyOpens, SellStep, SkipOrder, TakeOrder, SubmitFails,
     SubmitSell, SubmitDirect, SendSell, FallbackSell, BalanceReduced, SignatureConfirmed,
     VerifyFails, BookPnl, BookSell, MarkError, Restart, monitor

\* A tier takes profit of a position at most once while the process runs
\* (evaluate_position), however price updates, sweeps, sales and further buys of
\* the token interleave, whatever was reloaded when it was started. A restart
\* forgets what fired before it (triggered_tiers).
THEOREM TiersFireOnce == Spec => TierOnce
<1>1. Init => TiersRemembered
  BY DEF Init, TiersRemembered, IsOpen, NoPosition
<1>2. Types /\ TiersRemembered /\ [Next]_vars => TiersRemembered'
  BY TiersStep
<1>3. Types /\ TiersRemembered /\ [Next]_vars
        => [TierFires => <<out'.mint, out'.gen, out'.tier>> \notin fired]_vars
  BY TierOnceStep
<1>4. QED
  BY <1>1, <1>2, <1>3, TypesInvariant, PTL DEF Spec, TierOnce

----------------------------------------------------------------------------
(* Sales                                                                   *)

\* The first attempt finds the position open: nothing but the executor closes it.
FirstAttemptOpen ==
    exe.pc = "submit" /\ exe.attempt = 1 => IsOpen(exe.order.mint)

\* While the executor works, its position is open or was closed by an earlier
\* attempt. A sale in flight is one of tokens that the cache accounts for, or
\* will, and what was counted after it is all there is unless another buy landed.
SaleAccounted ==
    LET m == exe.order.mint
    IN  /\ exe.pc \in Working => pos[m].status \in {"Open", "Sold"}
        /\ exe.pc \in {"fallback", "verify", "pnl", "book"}
           => IsOpen(m) \/ buying[m] \/ m \in loose
        /\ exe.pc \in {"pnl", "book"} /\ m \notin loose
           => bal[m] = exe.post \/ (buying[m] /\ IsOpen(m))

SalesInv == FirstAttemptOpen /\ SaleAccounted /\ SoldMeansEmpty

\* A step that leaves the status of every position, the executor and the tokens
\* alone keeps it.
LEMMA SalesKept ==
  ASSUME Types, SalesInv, UNCHANGED <<exe, bal, buying, loose>>,
         \A n \in Mints : pos'[n].status = pos[n].status
  PROVE  SalesInv'
<1>1. CASE exe.pc \in Working
  <2>1. exe.order.mint \in Mints
    BY <1>1, WorkingOrder
  <2>2. QED
    BY <2>1 DEF SalesInv, FirstAttemptOpen, SaleAccounted, SoldMeansEmpty, IsOpen
<1>2. CASE exe.pc \notin Working
  BY <1>2 DEF SalesInv, FirstAttemptOpen, SaleAccounted, SoldMeansEmpty, IsOpen, Working
<1>3. QED
  BY <1>1, <1>2

\* The steps of the monitor, the channels and the operator are such steps.
LEMMA SalesQuiet ==
  ASSUME Types, SalesInv,
         \/ MonitorStep \/ ProcessCommand \/ DispatchSell \/ DropOrder \/ SkipOrder
         \/ \E m \in Mints : \E view \in Quotes \cup {[pos[m].view EXCEPT !.stale = TRUE]} :
               HandlePriceUpdate(m, view)
         \/ \E m \in Mints, pct \in ManualPcts : ManualSell(m, pct)
         \/ UNCHANGED vars
  PROVE  SalesInv'
<1>1. UNCHANGED <<exe, bal, buying, loose>>
  BY DEF MonitorStep, Sweep, SweepPosition, SendCommand, ProcessCommand, DispatchSell, DropOrder,
     SkipOrder, HandlePriceUpdate, ManualSell, buyers, vars
<1>2. CASE \E m \in Mints : \E view \in Quotes \cup {[pos[m].view EXCEPT !.stale = TRUE]} :
              HandlePriceUpdate(m, view)
  <2>1. PICK m \in Mints : \E view \in Quotes \cup {[pos[m].view EXCEPT !.stale = TRUE]} :
           HandlePriceUpdate(m, view)
    BY <1>2
  <2>2. PICK view \in Quotes \cup {[pos[m].view EXCEPT !.stale = TRUE]} :
           HandlePriceUpdate(m, view)
    BY <2>1
  <2>3. view \in View
    <3>1. pos[m].view \in View
      BY DEF Types, BookTypes, Position
    <3>2. QED
      BY <3>1, ViewFields, PipelineAssumption
  <2>4. \A n \in Mints : pos'[n].status = pos[n].status
    BY <2>2, <2>3, ViewSet DEF HandlePriceUpdate, Types
  <2>5. QED
    BY <1>1, <2>4, SalesKept
<1>3. CASE UNCHANGED pos
  BY <1>1, <1>3, SalesKept
<1>4. QED
  BY <1>2, <1>3 DEF MonitorStep, Sweep, SweepPosition, SendCommand, ProcessCommand, DispatchSell,
     DropOrder, SkipOrder, ManualSell, vars

\* A buy that lands is announced by the buyer; one that is opened, or refused,
\* meets a position that no sale is counted against any more, or an open one.
LEMMA SalesBuy ==
  ASSUME Types, SalesInv, NEW m \in Mints, BuyLands(m) \/ BuyOpens(m)
  PROVE  SalesInv'
<1>1. CASE BuyLands(m)
  <2>1. /\ \A n \in Mints \ {m} : bal'[n] = bal[n] /\ buying'[n] = buying[n]
        /\ buying'[m] /\ ~buying[m]
        /\ UNCHANGED <<pos, exe, loose>>
    BY <1>1 DEF BuyLands, Types, BookTypes
  <2>2. SoldMeansEmpty' /\ FirstAttemptOpen'
    BY <2>1 DEF SalesInv, SoldMeansEmpty, FirstAttemptOpen, IsOpen
  <2>3. CASE exe.pc \in Working
    <3>1. exe.order.mint \in Mints
      BY <2>3, WorkingOrder
    <3>2. SaleAccounted'
      BY <2>1, <3>1 DEF SalesInv, SaleAccounted, IsOpen
    <3>3. QED
      BY <2>2, <3>2 DEF SalesInv
  <2>4. CASE exe.pc \notin Working
    BY <2>1, <2>2, <2>4 DEF SalesInv, SaleAccounted, Working
  <2>5. QED
    BY <2>3, <2>4
<1>2. CASE BuyOpens(m)
  <2>1. /\ \A n \in Mints \ {m} : pos'[n] = pos[n] /\ buying'[n] = buying[n]
        /\ buying[m] /\ pos'[m].status = "Open"
        /\ UNCHANGED <<bal, exe>>
        /\ loose \subseteq loose' /\ (IsOpen(m) => m \in loose')
        /\ \A n \in Mints \ {m} : n \in loose' <=> n \in loose
    <3>1. CASE IsOpen(m)
      BY <1>2, <3>1 DEF BuyOpens, IsOpen, Types, BookTypes
    <3>2. CASE ~IsOpen(m)
      <4>1. pos' = [pos EXCEPT ![m] = [gen |-> buys[m], status |-> "Open", view |-> Opened]]
        BY <1>2, <3>2 DEF BuyOpens
      <4>2. pos'[m] = [gen |-> buys[m], status |-> "Open", view |-> Opened]
        BY <4>1 DEF Types, BookTypes
      <4>3. pos'[m].status = "Open"
        BY <4>2
      <4>4. \A n \in Mints \ {m} : pos'[n] = pos[n]
        BY <4>1 DEF Types, BookTypes
      <4>5. QED
        BY <1>2, <3>2, <4>3, <4>4 DEF BuyOpens, Types, BookTypes
    <3>3. QED
      BY <3>1, <3>2
  <2>2. SoldMeansEmpty'
    BY <2>1 DEF SalesInv, SoldMeansEmpty
  <2>3. CASE exe.pc \in Working
    <3>1. exe.order.mint \in Mints
      BY <2>3, WorkingOrder
    <3>2. SaleAccounted' /\ FirstAttemptOpen'
      BY <2>1, <3>1 DEF SalesInv, SaleAccounted, FirstAttemptOpen, IsOpen
    <3>3. QED
      BY <2>2, <3>2 DEF SalesInv
  <2>4. CASE exe.pc \notin Working
    BY <2>1, <2>2, <2>4 DEF SalesInv, SaleAccounted, FirstAttemptOpen, Working
  <2>5. QED
    BY <2>3, <2>4
<1>3. QED
  BY <1>1, <1>2

\* A failed attempt keeps it: a retry finds what the last attempt left, and the
\* fallback after a direct sale that was sent finds it accounted for.
LEMMA SalesFail ==
  ASSUME Types, SalesInv, exe.pc \in {"submit", "fallback", "verify"}, AttemptFails,
         UNCHANGED <<pos, bal, buying, loose>>
  PROVE  SalesInv'
<1>1. /\ exe'.order = exe.order
      /\ exe'.pc \in {"submit", "error", "fallback"}
      /\ exe'.pc = "fallback" => exe.pc = "verify"
      /\ exe'.pc = "submit" => exe'.attempt > 1
  BY AttemptFailsTypes DEF Types, ExecutorTypes
<1>2. exe.order.mint \in Mints /\ exe.pc \in Working
  BY WorkingOrder DEF Working
<1>3. SaleAccounted'
  BY <1>1, <1>2 DEF SalesInv, SaleAccounted, IsOpen, Working
<1>4. FirstAttemptOpen'
  BY <1>1 DEF FirstAttemptOpen
<1>5. SoldMeansEmpty'
  BY DEF SalesInv, SoldMeansEmpty
<1>6. QED
  BY <1>3, <1>4, <1>5 DEF SalesInv

\* A sale that is sent is one of tokens that are there, of a position that is open
\* or about to be, unless the books were loose already.
LEMMA SalesSend ==
  ASSUME Types, SalesInv, NEW landed \in BOOLEAN, NEW direct \in BOOLEAN,
         SendSell(landed, direct)
  PROVE  SalesInv'
<1> DEFINE m == exe.order.mint
           amount == (bal[m] * exe.order.pct) \div 100
<1>1. exe.pc = "submit" /\ exe.pc \in Working /\ amount > 0
  BY DEF SendSell, Working
<1>2. m \in Mints /\ amount \in 0 .. bal[m] /\ bal[m] \in Nat
  BY <1>1, WorkingOrder, AmountFits DEF Types, BookTypes
<1>3. bal' = (IF landed THEN [bal EXCEPT ![m] = @ - amount] ELSE bal)
      /\ UNCHANGED <<pos, buying, loose>>
  BY DEF SendSell, buyers
<1>4. exe'.pc = "verify" /\ exe'.order = exe.order
  BY DEF SendSell, Types, ExecutorTypes, Executor
<1>5. pos[m].status = "Sold" => buying[m] \/ m \in loose
  BY <1>1, <1>2 DEF SalesInv, SoldMeansEmpty
<1>6. SaleAccounted'
  BY <1>1, <1>2, <1>3, <1>4, <1>5 DEF SalesInv, SaleAccounted, IsOpen
<1>7. FirstAttemptOpen'
  BY <1>4 DEF FirstAttemptOpen
<1>8. SoldMeansEmpty'
  <2>1. \A n \in Mints \ {m} : bal'[n] = bal[n]
    BY <1>2, <1>3 DEF Types, BookTypes
  <2>2. QED
    BY <1>2, <1>3, <1>5, <2>1 DEF SalesInv, SoldMeansEmpty
<1>9. QED
  BY <1>6, <1>7, <1>8 DEF SalesInv

\* The fallback sells at most what is there.
LEMMA SalesFallback ==
  ASSUME Types, SalesInv, NEW landed \in BOOLEAN, FallbackSell(landed)
  PROVE  SalesInv'
<1> DEFINE m == exe.order.mint
           amount == (exe.pre * exe.order.pct) \div 100
<1>1. exe.pc = "fallback" /\ exe.pc \in Working
  BY DEF FallbackSell, Working
<1>2. m \in Mints /\ amount \in Nat /\ bal[m] \in Nat
  <2>1. exe.pre \in Nat
    BY DEF Types, ExecutorTypes, Executor
  <2>2. QED
    BY <1>1, <2>1, WorkingOrder, AmountFits DEF Types, BookTypes
<1>3. /\ bal' = (IF landed THEN [bal EXCEPT ![m] = @ - amount] ELSE bal)
      /\ landed => amount <= bal[m]
      /\ UNCHANGED <<pos, buying, loose>>
  BY DEF FallbackSell, buyers
<1>4. exe'.pc = "verify" /\ exe'.order = exe.order
  BY DEF FallbackSell, Types, ExecutorTypes, Executor
<1>5. SaleAccounted'
  BY <1>1, <1>2, <1>3, <1>4 DEF SalesInv, SaleAccounted, IsOpen, Working
<1>6. FirstAttemptOpen'
  BY <1>4 DEF FirstAttemptOpen
<1>7. SoldMeansEmpty'
  <2>1. \A n \in Mints \ {m} : bal'[n] = bal[n]
    BY <1>2, <1>3 DEF Types, BookTypes
  <2>2. bal[m] = 0 => bal'[m] = 0
    BY <1>2, <1>3 DEF Types, BookTypes
  <2>3. QED
    BY <1>2, <1>3, <2>1, <2>2 DEF SalesInv, SoldMeansEmpty
<1>8. QED
  BY <1>5, <1>6, <1>7 DEF SalesInv

\* The executor's other steps: taking an order, the verdict, and the booking.
LEMMA SalesBook ==
  ASSUME Types, SalesInv,
         TakeOrder \/ BalanceReduced \/ SignatureConfirmed \/ BookPnl \/ BookSell \/ MarkError
  PROVE  SalesInv'
<1> DEFINE m == exe.order.mint
<1>1. CASE TakeOrder
  <2>1. exe'.pc = "submit" /\ exe'.order = Head(sellq)
    BY <1>1 DEF TakeOrder, IdleExe
  <2>2. IsOpen(Head(sellq).mint) /\ UNCHANGED <<pos, bal, buying, loose>>
    BY <1>1 DEF TakeOrder, buyers
  <2>3. QED
    BY <2>1, <2>2 DEF SalesInv, FirstAttemptOpen, SaleAccounted, SoldMeansEmpty, IsOpen
<1>2. CASE BalanceReduced
  <2>1. exe.pc = "verify" /\ exe.pc \in Working
    BY <1>2 DEF BalanceReduced, Working
  <2>2. m \in Mints /\ bal[m] \in Nat
    BY <2>1, WorkingOrder DEF Types, BookTypes
  <2>3. exe'.pc = "pnl" /\ exe'.post = bal[m] /\ exe'.order = exe.order
    BY <1>2, <2>1, <2>2, VerdictTypes DEF BalanceReduced
  <2>4. UNCHANGED <<pos, bal, buying, loose>>
    BY <1>2 DEF BalanceReduced, buyers
  <2>5. QED
    BY <2>1, <2>3, <2>4 DEF SalesInv, FirstAttemptOpen, SaleAccounted, SoldMeansEmpty, IsOpen
<1>3. CASE SignatureConfirmed
  <2>1. exe.pc = "verify" /\ exe.pc \in Working
    BY <1>3 DEF SignatureConfirmed, Working
  <2>2. exe'.pc = "pnl" /\ exe'.order = exe.order
    BY <1>3, <2>1, VerdictTypes DEF SignatureConfirmed
  <2>3. UNCHANGED <<pos, bal, buying>> /\ m \in loose' /\ loose \subseteq loose'
    BY <1>3 DEF SignatureConfirmed, buyers
  <2>4. QED
    BY <2>1, <2>2, <2>3 DEF SalesInv, FirstAttemptOpen, SaleAccounted, SoldMeansEmpty, IsOpen
<1>4. CASE BookPnl
  <2>1. exe.pc = "pnl" /\ exe.pc \in Working
    BY <1>4 DEF BookPnl, Working
  <2>2. m \in Mints
    BY <2>1, WorkingOrder
  <2>3. PICK r \in Realized \cup {pos[m].view.pnl} : pos' = [pos EXCEPT ![m].view.pnl = r]
    BY <1>4 DEF BookPnl
  <2>4. r \in Int
    BY <2>2, <2>3, PipelineAssumption DEF Types, BookTypes, Position, View
  <2>5. \A n \in Mints : pos'[n].status = pos[n].status
    BY <2>2, <2>3, <2>4, PnlSet DEF Types
  <2>6. exe'.pc = "book" /\ exe'.order = exe.order /\ exe'.post = exe.post
    BY <1>4 DEF BookPnl, Types, ExecutorTypes, Executor
  <2>7. UNCHANGED <<bal, buying, loose>>
    BY <1>4 DEF BookPnl, buyers
  <2>8. QED
    BY <2>1, <2>2, <2>5, <2>6, <2>7
       DEF SalesInv, FirstAttemptOpen, SaleAccounted, SoldMeansEmpty, IsOpen
<1>5. CASE BookSell
  <2>1. exe.pc = "book" /\ exe.pc \in Working
    BY <1>5 DEF BookSell, Working
  <2>2. m \in Mints
    BY <2>1, WorkingOrder
  <2>3. /\ pos'[m].status = IF exe.post = 0 THEN "Sold" ELSE pos[m].status
        /\ \A n \in Mints \ {m} : pos'[n] = pos[n]
    BY <1>5, BookSellBooks
  <2>4. /\ UNCHANGED <<bal, buying>>
        /\ loose' = loose \/ loose' = loose \cup {m}
    BY <1>5 DEF BookSell, buyers
  <2>5. SoldMeansEmpty'
    <3>1. ASSUME NEW n \in Mints, pos'[n].status = "Sold", ~buying[n], n \notin loose'
          PROVE  bal[n] = 0
      <4>1. CASE n # m
        BY <2>3, <2>4, <3>1, <4>1 DEF SalesInv, SoldMeansEmpty
      <4>2. CASE n = m /\ exe.post = 0
        BY <2>1, <2>4, <3>1, <4>2 DEF SalesInv, SaleAccounted
      <4>3. CASE n = m /\ exe.post # 0
        BY <2>3, <2>4, <3>1, <4>3 DEF SalesInv, SoldMeansEmpty
      <4>4. QED
        BY <4>1, <4>2, <4>3
    <3>2. QED
      BY <2>4, <3>1 DEF SoldMeansEmpty
  <2>6. CASE exe' = IdleExe
    BY <2>5, <2>6 DEF SalesInv, FirstAttemptOpen, SaleAccounted, IdleExe, Working
  <2>7. CASE AttemptFails /\ loose' = (IF exe.direct THEN loose \cup {m} ELSE loose)
    <3>1. /\ exe'.order = exe.order
          /\ exe.direct => exe'.pc = "fallback"
          /\ ~exe.direct => exe'.pc \in {"submit", "error"}
          /\ exe'.pc = "submit" => exe'.attempt > 1
      BY <2>1, <2>7, AttemptFailsTypes
    <3>2. pos'[m].status \in {"Open", "Sold"}
      BY <2>1, <2>3 DEF SalesInv, SaleAccounted
    <3>3. CASE exe.direct
      BY <2>5, <2>7, <3>1, <3>2, <3>3 DEF SalesInv, FirstAttemptOpen, SaleAccounted
    <3>4. CASE ~exe.direct
      <4>1. Types'
        BY <1>5, BookStepTypes
      <4>2. FirstAttemptOpen'
        BY <3>1, <4>1 DEF FirstAttemptOpen, Types, ExecutorTypes, Executor
      <4>3. SaleAccounted'
        BY <3>1, <3>2, <3>4 DEF SaleAccounted
      <4>4. QED
        BY <2>5, <4>2, <4>3 DEF SalesInv
    <3>5. QED
      BY <3>3, <3>4
  <2>8. QED
    BY <1>5, <2>6, <2>7 DEF BookSell
<1>6. CASE MarkError
  <2>1. m \in Mints
    BY <1>6, WorkingOrder DEF MarkError, Working
  <2>2. /\ pos'[m].status = IF IsOpen(m) THEN "Error" ELSE pos[m].status
        /\ \A n \in Mints \ {m} : pos'[n] = pos[n]
    BY <1>6, MarkErrorBooks
  <2>3. UNCHANGED <<bal, buying, loose>> /\ exe' = IdleExe
    BY <1>6 DEF MarkError, buyers
  <2>4. SoldMeansEmpty'
    BY <2>1, <2>2, <2>3 DEF SalesInv, SoldMeansEmpty
  <2>5. QED
    BY <2>3, <2>4 DEF SalesInv, FirstAttemptOpen, SaleAccounted, IdleExe, Working
<1>7. QED
  BY <1>1, <1>2, <1>3, <1>4, <1>5, <1>6

\* After a restart the executor is idle and no position in the cache is closed.
LEMMA SalesRestart ==
  ASSUME Types, RowTypes, Restart
  PROVE  SalesInv'
<1>1. exe' = IdleExe
  BY DEF Restart
<1>2. \A m \in Mints : pos'[m].status # "Sold"
  BY RestartPosition DEF Types
<1>3. SoldMeansEmpty'
  BY <1>2 DEF SoldMeansEmpty
<1>4. QED
  BY <1>1, <1>3 DEF SalesInv, FirstAttemptOpen, SaleAccounted, IdleExe, Working

\* Every step keeps it.
LEMMA SalesStep ==
  ASSUME Types, RowTypes, SalesInv, [Next]_vars
  PROVE  SalesInv'
<1>1. CASE SubmitFails \/ VerifyFails
  BY <1>1, SalesFail DEF SubmitFails, VerifyFails, buyers
<1>2. CASE \E landed \in BOOLEAN :
              SubmitSell(landed) \/ SubmitDirect(landed) \/ FallbackSell(landed)
  BY <1>2, SalesSend, SalesFallback DEF SubmitSell, SubmitDirect
<1>3. QED
  BY <1>1, <1>2, SalesQuiet, SalesBuy, SalesBook, SalesRestart DEF Next, SellStep

\* The invariant of the executor and the books.
LEMMA SalesInvariant == Spec => []SalesInv
<1>1. Init => SalesInv
  BY DEF Init, SalesInv, FirstAttemptOpen, SaleAccounted, SoldMeansEmpty, IdleExe, Working,
         NoPosition
<1>2. Types /\ RowTypes /\ SalesInv /\ [Next]_vars => SalesInv'
  BY SalesStep
<1>3. QED
  BY <1>1, <1>2, TypesInvariant, PTL DEF Spec

\* The book and the chain agree when a position is closed as sold (execute_sell):
\* the wallet holds no token of it, unless the books are known to be loose.
THEOREM SoldIsSold == Spec => []SoldMeansEmpty
BY SalesInvariant, PTL DEF SalesInv

\* No step sells tokens of a closed position, but the retry or the fallback of an
\* order.
LEMMA EchoStep ==
  ASSUME Types, SalesInv, [Next]_vars, NEW m \in Mints, bal'[m] < bal[m]
  PROVE  IsOpen(m) \/ exe.attempt > 1 \/ exe.pc = "fallback"
<1>1. bal[m] \in Nat /\ Units \in Nat
  BY PipelineAssumption DEF Types, BookTypes
<1>2. ASSUME NEW landed \in BOOLEAN, NEW direct \in BOOLEAN, SendSell(landed, direct)
      PROVE  IsOpen(m) \/ exe.attempt > 1
  <2>1. exe.pc = "submit" /\ exe.pc \in Working
    BY <1>2 DEF SendSell, Working
  <2>2. exe.order.mint \in Mints /\ exe.attempt \in Nat /\ exe.attempt >= 1
    BY <2>1, WorkingOrder DEF Types, ExecutorTypes, Executor, Working
  <2>3. m = exe.order.mint
    BY <1>1, <1>2 DEF SendSell, Types, BookTypes
  <2>4. QED
    BY <2>1, <2>2, <2>3 DEF SalesInv, FirstAttemptOpen
<1>3. CASE \E n \in Mints : BuyLands(n)
  BY <1>1, <1>3 DEF BuyLands, Types, BookTypes
<1>4. CASE UNCHANGED bal
  BY <1>1, <1>4
<1>5. QED
  BY <1>2, <1>3, <1>4 DEF Next, vars, MonitorStep, Sweep, SweepPosition, SendCommand,
     HandlePriceUpdate, ProcessCommand, DispatchSell, ManualSell, DropOrder, BuyOpens, SellStep,
     SkipOrder, TakeOrder, SubmitFails, SubmitSell, SubmitDirect, FallbackSell, BalanceReduced,
     SignatureConfirmed, VerifyFails, BookPnl, BookSell, MarkError, Restart

\* Echoes are harmless: an order that was queued while the position was open does
\* not sell tokens once it is closed, not even those of the next buy.
THEOREM EchoesHarmless == Spec => EchoHarmless
<1>1. Types /\ SalesInv /\ [Next]_vars
        => [\A m \in Mints : bal'[m] < bal[m] =>
               IsOpen(m) \/ exe.attempt > 1 \/ exe.pc = "fallback"]_vars
  BY EchoStep
<1>2. QED
  BY <1>1, TypesInvariant, SalesInvariant, PTL DEF Spec, EchoHarmless

=============================================================================
