--------------------------- MODULE PipelineProofs ---------------------------
(* Theorems about Pipeline, for every value of its constants. *)
EXTENDS PipelineProps, TLAPS

-----------------------------------------------------------------------------
(* The shape of the running handler *)

\* A fresh handler record is well typed.
LEMMA FreshOp ==
    ASSUME NEW pc \in Pcs, NEW h \in Handlers, NEW t \in Trades \cup {NoTrade}
    PROVE  Op(pc, h, t) \in Ops /\ Op(pc, h, t).pc = pc /\ Op(pc, h, t).t = t
           /\ Op(pc, h, t).h = h
  BY SizeAssumption DEF SizeAssumption, Op, IdleOp, Ops, Slots, Levels

\* The idle record is well typed.
LEMMA IdleTyped == IdleOp \in Ops /\ IdleOp.pc = "idle" /\ IdleOp.t = NoTrade
  BY FreshOp DEF IdleOp, Pcs, Handlers

\* A running handler that goes on keeps its type, its trade and its kind.
LEMMA GoOn ==
    ASSUME op \in Ops, NEW pc \in Pcs, Goto(pc)
    PROVE  op' \in Ops /\ op'.pc = pc /\ op'.t = op.t /\ op'.h = op.h
  BY DEF Goto, Ops

\* So does one that an exception ends.
LEMMA RaiseTyped ==
    ASSUME op \in Ops, NEW ose \in BOOLEAN, Raise(ose)
    PROVE  op' \in Ops /\ op'.pc = "raised" /\ op'.t = op.t /\ op'.h = op.h
  <1>1. Op("raised", op.h, op.t) \in Ops
    BY FreshOp DEF Ops, Pcs
  <1>2. "entry" \in Slots /\ "sl1" \in Slots
    BY SlotsAssumption DEF SlotsAssumption, Slots
  <1>. QED  BY <1>1, <1>2 DEF Raise, Op, Ops

-----------------------------------------------------------------------------
(* The invariant: one lemma per group of actions *)

\* A step that leaves the statuses, the sweep's list and the port alone, and
\* whose handler, if one runs on, works for the trade it worked for.
LEMMA StatusKept ==
    ASSUME IInv, TypeOK', UNCHANGED <<status, sweep, credited>>,
           \/ op'.pc \in {"idle"} \cup SyncPcs
           \/ /\ op'.t = op.t /\ op.pc \notin {"idle"} \cup SyncPcs /\ op'.pc # "apply"
              /\ op'.pc \in SubmitPcs => op.pc \in SubmitPcs
    PROVE  IInv'
  BY DEF IInv, HandlerOwnsTrade, SweepKnown, PnlAtMostOnce, IsTerminal,
         SubmitPcs, SyncPcs, TypeOK

LEMMA RowTyped ==
    ASSUME TypeOK, NEW t \in Trades, NEW s \in Slots, NEW st \in OrderStatus, SetRow(t, s, st)
    PROVE  rows' \in [Trades -> [Slots -> OrderStatus]]
  BY DEF TypeOK, SetRow

LEMMA BookTyped ==
    ASSUME TypeOK, NEW t \in Trades, NEW s \in Slots \cup Entries
    PROVE  resting \cup {<<t, s>>} \subseteq VenueOrders /\ resting \ {<<t, s>>} \subseteq VenueOrders
  BY DEF TypeOK, VenueOrders

\* A step that sets the status of one trade, never from terminal to live.
LEMMA StatusSet ==
    ASSUME IInv, TypeOK', UNCHANGED credited,
           NEW t \in Trades, NEW st \in Live \cup Terminal, SetStatus(t, st),
           IsTerminal(t) => st \in Terminal,
           \A u \in sweep' : status'[u] # "none",
           HandlerOwnsTrade'
    PROVE  IInv'
  BY DEF IInv, SweepKnown, PnlAtMostOnce, IsTerminal, SetStatus, TypeOK, Live, Terminal

LEMMA StatusTyped ==
    ASSUME TypeOK, NEW t \in Trades, NEW st \in Live \cup Terminal, SetStatus(t, st)
    PROVE  /\ status' \in [Trades -> TradeStatus]
           /\ status'[t] = st
           /\ \A u \in Trades : status[u] # "none" => status'[u] # "none"
  BY DEF TypeOK, SetStatus, TradeStatus, Live, Terminal

\* A step that ends one trade; its handler, if it runs on, still works for it.
LEMMA TradeEnds ==
    ASSUME IInv, TypeOK', UNCHANGED credited,
           NEW t \in Trades, NEW st \in Terminal, SetStatus(t, st),
           \A u \in sweep' : u = t \/ u \in sweep \/ status[u] # "none",
           \/ op'.pc \in {"idle"} \cup SyncPcs
           \/ op'.t = t /\ op'.pc \notin SubmitPcs \cup {"apply"}
    PROVE  IInv'
<1>1. status'[t] = st /\ \A u \in Trades : status[u] # "none" => status'[u] # "none"
  BY StatusTyped DEF IInv
<1>2. \A u \in sweep' : status'[u] # "none"
  BY <1>1 DEF IInv, SweepKnown, TypeOK, Terminal
<1>3. HandlerOwnsTrade'
  BY <1>1 DEF HandlerOwnsTrade, SyncPcs, Terminal, SubmitPcs
<1>. QED  BY <1>2, <1>3, StatusSet

\* Reducing a position leaves a book and positions.
LEMMA ReduceTyped ==
    ASSUME TypeOK, NEW c \in Coins, NEW n \in Nat, NEW book \in SUBSET VenueOrders,
           Reduce(c, n, book)
    PROVE  resting' \subseteq VenueOrders /\ pos' \in [Coins -> Nat]
<1>1. resting' \subseteq VenueOrders
  BY DEF Reduce
<1>2. (IF pos[c] > n THEN pos[c] - n ELSE 0) \in Nat
  BY DEF TypeOK
<1>. QED  BY <1>1, <1>2 DEF Reduce, TypeOK

LEMMA SlotsTyped == "entry" \in Slots /\ "sl1" \in Slots /\ Stops \subseteq Slots /\ TPs \subseteq Slots
  BY SlotsAssumption DEF SlotsAssumption, Slots

\* What becomes of an order, or of the cancel of one, leaves rows, book and
\* positions well typed.
LEMMA OutcomeTyped ==
    ASSUME TypeOK, op.t \in Trades, NEW s \in Slots,
           Rests(s) \/ TriggersAtOnce(s) \/ IsRefused(s) \/ Unanswered(s)
    PROVE  /\ rows' \in [Trades -> [Slots -> OrderStatus]]
           /\ resting' \subseteq VenueOrders /\ pos' \in [Coins -> Nat]
<1>1. PICK st \in OrderStatus : SetRow(op.t, s, st)
  BY DEF Rests, TriggersAtOnce, IsRefused, Unanswered, OrderStatus
<1>2. rows' \in [Trades -> [Slots -> OrderStatus]]
  BY <1>1, RowTyped
<1>3. CASE TriggersAtOnce(s)
  <2>1. /\ CoinOf[op.t] \in Coins /\ (IF s \in TPs THEN 1 ELSE EntrySize) \in Nat
        /\ resting \in SUBSET VenueOrders
    BY CoinOfAssumption, SizeAssumption DEF CoinOfAssumption, SizeAssumption, TypeOK
  <2>. QED  BY <1>2, <1>3, <2>1, ReduceTyped DEF TriggersAtOnce
<1>4. CASE Rests(s) \/ IsRefused(s) \/ Unanswered(s)
  BY <1>2, <1>4, BookTyped DEF Rests, IsRefused, Unanswered, venue, TypeOK
<1>. QED  BY <1>3, <1>4

LEMMA WithdrawTyped ==
    ASSUME TypeOK, op.t \in Trades, NEW s \in Slots, Withdraw(s)
    PROVE  rows' \in [Trades -> [Slots -> OrderStatus]] /\ resting' \subseteq VenueOrders
  BY RowTyped, BookTyped DEF Withdraw, OrderStatus, TypeOK

LEMMA SubmitInv == IInv /\ Submit => IInv'
<1>. SUFFICES ASSUME IInv, Submit PROVE IInv'
  OBVIOUS
<1>. USE DEF SubmitPcs, SyncPcs
<1>0. TypeOK /\ HandlerOwnsTrade
  BY DEF IInv
<1>1. ASSUME SetLeverage PROVE IInv'
  <2>1. op.t \in Trades /\ op \in Ops
    BY <1>0, <1>1 DEF SetLeverage, HandlerOwnsTrade, TypeOK
  <2>2. op' \in Ops /\ op'.t = op.t /\ op'.pc \in {"place_entry", "raised"}
    BY <1>1, <2>1, GoOn, RaiseTyped DEF SetLeverage, Pcs
  <2>3. rows' \in [Trades -> [Slots -> OrderStatus]]
    BY <1>0, <1>1, <2>1, RowTyped DEF SetLeverage, TypeOK, Slots, OrderStatus
  <2>4. TypeOK'
    BY <1>0, <1>1, <2>2, <2>3 DEF SetLeverage, TypeOK, user, venue
  <2>. QED  BY <1>1, <2>2, <2>4, StatusKept DEF SetLeverage, user
<1>2. ASSUME PlaceEntry PROVE IInv'
  <2>1. /\ op.t \in Trades /\ op \in Ops /\ op.pc = "place_entry"
        /\ status[op.t] \in Live /\ CoinOf[op.t] \in Coins
    BY <1>0, <1>2, CoinOfAssumption DEF PlaceEntry, HandlerOwnsTrade, TypeOK, CoinOfAssumption
  <2>2. UNCHANGED <<gate, price, sweep, overdue, approved, paused, credited>>
    BY <1>2 DEF PlaceEntry, user
  <2>3. ASSUME PlaceRest PROVE op' \in Ops /\ op'.t = op.t /\ op'.pc = "place_orders"
    <3>1. {"sl1"} \cup TPs \in SUBSET Slots
      BY SlotsTyped
    <3>2. 0 \in 0..MaxRetries /\ "place_orders" \in Pcs
      BY SizeAssumption DEF SizeAssumption, Pcs
    <3>. QED  BY <2>1, <2>3, <3>1, <3>2 DEF PlaceRest, Ops
  <2>4. CASE EntryRejected
    <3>1. op' \in Ops /\ op'.t = op.t /\ op'.pc = "raised"
      BY <2>1, <2>4, RaiseTyped DEF EntryRejected
    <3>2. TypeOK'
      BY <1>0, <2>2, <2>4, <3>1 DEF EntryRejected, TypeOK, venue
    <3>. QED  BY <2>1, <2>2, <2>4, <3>1, <3>2, StatusKept DEF EntryRejected
  <2>5. CASE EntryRests
    <3>1. rows' \in [Trades -> [Slots -> OrderStatus]]
      BY <1>0, <2>1, <2>5, RowTyped, SlotsTyped DEF EntryRests, OrderStatus
    <3>2. resting' \subseteq VenueOrders
      BY <1>0, <2>1, <2>5, BookTyped, SlotsTyped DEF EntryRests
    <3>3. TypeOK'
      BY <1>0, <2>2, <2>3, <2>5, <3>1, <3>2 DEF EntryRests, TypeOK
    <3>. QED  BY <2>1, <2>2, <2>3, <2>5, <3>3, StatusKept DEF EntryRests
  <2>6. CASE EntryFillsAtOnce
    <3>1. rows' \in [Trades -> [Slots -> OrderStatus]]
      BY <1>0, <2>1, <2>6, RowTyped, SlotsTyped DEF EntryFillsAtOnce, OrderStatus
    <3>2. pos' \in [Coins -> Nat]
      BY <1>0, <2>1, <2>6, SizeAssumption DEF EntryFillsAtOnce, TypeOK, SizeAssumption
    <3>3. /\ status' \in [Trades -> TradeStatus] /\ status'[op.t] = "open"
          /\ \A u \in Trades : status[u] # "none" => status'[u] # "none"
      BY <1>0, <2>1, <2>6, StatusTyped DEF EntryFillsAtOnce, Live
    <3>4. TypeOK'
      BY <1>0, <2>2, <2>3, <2>6, <3>1, <3>2, <3>3 DEF EntryFillsAtOnce, TypeOK
    <3>5. HandlerOwnsTrade'
      BY <2>1, <2>3, <2>6, <3>3 DEF EntryFillsAtOnce, HandlerOwnsTrade, Live
    <3>6. \A u \in sweep' : status'[u] # "none"
      BY <1>0, <2>2, <3>3 DEF IInv, SweepKnown, TypeOK
    <3>7. ~IsTerminal(op.t)
      BY <2>1 DEF IsTerminal, Live, Terminal
    <3>. QED
      BY <2>1, <2>2, <2>6, <3>4, <3>5, <3>6, <3>7, StatusSet DEF EntryFillsAtOnce, Live
  <2>7. CASE EntryAnswerLost
    <3>1. op' \in Ops /\ op'.t = op.t /\ op'.pc \in {"place_entry", "raised"}
      <4>1. CASE op.tries < MaxRetries /\ op' = [op EXCEPT !.tries = @ + 1]
        BY <2>1, <4>1, SizeAssumption DEF Ops, SizeAssumption
      <4>2. CASE Raise(FALSE)
        BY <2>1, <4>2, RaiseTyped
      <4>. QED  BY <2>7, <4>1, <4>2 DEF EntryAnswerLost
    <3>2. resting' \subseteq VenueOrders
      BY <1>0, <2>1, <2>7, BookTyped DEF EntryAnswerLost, venue, TypeOK, Entries
    <3>3. TypeOK'
      BY <1>0, <2>2, <2>7, <3>1, <3>2 DEF EntryAnswerLost, TypeOK, venue
    <3>. QED  BY <2>1, <2>2, <2>7, <3>1, <3>3, StatusKept DEF EntryAnswerLost
  <2>8. CASE EntryUnnamed
    <3>1. resting' \subseteq VenueOrders
      BY <1>0, <2>1, <2>8, BookTyped, SlotsTyped DEF EntryUnnamed, TypeOK
    <3>2. TypeOK'
      BY <1>0, <2>2, <2>3, <2>8, <3>1 DEF EntryUnnamed, TypeOK
    <3>. QED  BY <2>1, <2>2, <2>3, <2>8, <3>2, StatusKept DEF EntryUnnamed
  <2>. QED  BY <1>2, <2>4, <2>5, <2>6, <2>7, <2>8 DEF PlaceEntry
<1>3. ASSUME NEW s \in op.todo, PlaceOrder(s) PROVE IInv'
  <2>1. op.t \in Trades /\ op \in Ops /\ s \in Slots /\ op.pc = "place_orders"
    BY <1>0, <1>3 DEF PlaceOrder, HandlerOwnsTrade, TypeOK, Ops
  <2>2. UNCHANGED <<status, gate, price, sweep, overdue, approved, paused, credited>>
    BY <1>3 DEF PlaceOrder, user
  <2>3. op' \in Ops /\ op'.t = op.t /\ op'.pc \in {"place_orders", "raised"}
    BY <1>3, <2>1, RaiseTyped DEF PlaceOrder, Ops
  <2>4. /\ rows' \in [Trades -> [Slots -> OrderStatus]]
        /\ resting' \subseteq VenueOrders /\ pos' \in [Coins -> Nat]
    BY <1>0, <1>3, <2>1, OutcomeTyped DEF PlaceOrder
  <2>5. TypeOK'
    BY <1>0, <2>2, <2>3, <2>4 DEF TypeOK
  <2>. QED  BY <2>1, <2>2, <2>3, <2>5, StatusKept
<1>4. ASSUME SubmitDone PROVE IInv'
  <2>1. TypeOK' /\ op'.pc = "idle"
    BY <1>0, <1>4, IdleTyped DEF SubmitDone, Finish, TypeOK, db, user, venue
  <2>. QED  BY <1>4, <2>1, StatusKept DEF SubmitDone, db, user
<1>. QED  BY <1>1, <1>2, <1>3, <1>4 DEF Submit

LEMMA CloseInv == IInv /\ Close => IInv'
<1>. SUFFICES ASSUME IInv, Close PROVE IInv'
  OBVIOUS
<1>. USE DEF SubmitPcs, SyncPcs
<1>0. TypeOK /\ HandlerOwnsTrade
  BY DEF IInv
<1>1. ASSUME NEW s \in op.todo, CancelOrder(s) PROVE IInv'
  <2>1. op.t \in Trades /\ op \in Ops /\ s \in Slots /\ op.pc = "cancel"
    BY <1>0, <1>1 DEF CancelOrder, HandlerOwnsTrade, TypeOK, Ops
  <2>2. UNCHANGED <<status, gate, price, sweep, overdue, approved, paused, credited, pos>>
    BY <1>1 DEF CancelOrder, user
  <2>3. op' \in Ops /\ op'.t = op.t /\ op'.pc = "cancel"
    BY <1>1, <2>1 DEF CancelOrder, Ops
  <2>4. rows' \in [Trades -> [Slots -> OrderStatus]] /\ resting' \subseteq VenueOrders
    BY <1>0, <1>1, <2>1, WithdrawTyped DEF CancelOrder
  <2>5. TypeOK'
    BY <1>0, <2>2, <2>3, <2>4 DEF TypeOK
  <2>. QED  BY <2>1, <2>2, <2>3, <2>5, StatusKept
<1>2. ASSUME CancelDone PROVE IInv'
  <2>1. op.t \in Trades /\ op \in Ops
    BY <1>0, <1>2 DEF CancelDone, HandlerOwnsTrade, TypeOK
  <2>2. op' \in Ops /\ (op'.pc = "idle" \/ (op'.pc = "positions" /\ op'.t = op.t))
    BY <1>2, <2>1, GoOn, IdleTyped DEF CancelDone, Finish, Pcs, CancelPcs
  <2>3. SetStatus(op.t, "canceled") /\ "canceled" \in Terminal
    BY <1>2 DEF CancelDone, Terminal
  <2>4. TypeOK'
    BY <1>0, <1>2, <2>1, <2>2, <2>3, StatusTyped DEF CancelDone, TypeOK, user, venue
  <2>. QED  BY <1>2, <2>1, <2>2, <2>3, <2>4, TradeEnds DEF CancelDone, user
<1>3. ASSUME ReadPosition PROVE IInv'
  <2>1. op.t \in Trades /\ op \in Ops /\ op.pc = "positions"
    BY <1>0, <1>3 DEF ReadPosition, HandlerOwnsTrade, TypeOK
  <2>2. UNCHANGED <<gate, rows, price, sweep, overdue, approved, paused, credited, resting, pos>>
    BY <1>3 DEF ReadPosition, user, venue
  <2>3. CASE UNCHANGED status /\ (Raise(FALSE) \/ Goto("ioc"))
    <3>1. op' \in Ops /\ op'.t = op.t /\ op'.pc \in {"raised", "ioc"}
      BY <2>1, <2>3, GoOn, RaiseTyped DEF Pcs, CancelPcs
    <3>2. TypeOK'
      BY <1>0, <2>2, <2>3, <3>1 DEF TypeOK
    <3>. QED  BY <2>1, <2>2, <2>3, <3>1, <3>2, StatusKept
  <2>4. CASE SetStatus(op.t, "closed") /\ Finish
    <3>1. op' \in Ops /\ op'.pc = "idle" /\ "closed" \in Terminal
      BY <2>4, IdleTyped DEF Finish, Terminal
    <3>2. TypeOK'
      BY <1>0, <2>1, <2>2, <2>4, <3>1, StatusTyped DEF TypeOK
    <3>. QED  BY <2>1, <2>2, <2>4, <3>1, <3>2, TradeEnds
  <2>. QED  BY <1>3, <2>3, <2>4 DEF ReadPosition
<1>4. ASSUME MarketClose PROVE IInv'
  <2>1. op.t \in Trades /\ op \in Ops /\ op.pc = "ioc" /\ CoinOf[op.t] \in Coins
    BY <1>0, <1>4, CoinOfAssumption DEF MarketClose, HandlerOwnsTrade, TypeOK, CoinOfAssumption
  <2>2. UNCHANGED <<gate, rows, price, sweep, overdue, approved, paused, credited>>
    BY <1>4 DEF MarketClose, user
  <2>3. resting' \subseteq VenueOrders /\ pos' \in [Coins -> Nat]
    <3>1. CASE \E n \in 1..pos[CoinOf[op.t]] : Reduce(CoinOf[op.t], n, resting)
      <4>1. PICK n \in 1..pos[CoinOf[op.t]] : Reduce(CoinOf[op.t], n, resting)
        BY <3>1
      <4>2. n \in Nat
        BY <1>0, <2>1 DEF TypeOK
      <4>. QED  BY <1>0, <2>1, <4>1, <4>2, ReduceTyped DEF TypeOK
    <3>2. CASE UNCHANGED venue
      BY <1>0, <3>2 DEF TypeOK, venue
    <3>. QED  BY <1>4, <3>1, <3>2 DEF MarketClose
  <2>4. CASE UNCHANGED status /\ (Raise(FALSE) \/ Raise(TRUE))
    <3>1. op' \in Ops /\ op'.t = op.t /\ op'.pc = "raised"
      BY <2>1, <2>4, RaiseTyped
    <3>2. TypeOK'
      BY <1>0, <2>2, <2>3, <2>4, <3>1 DEF TypeOK
    <3>. QED  BY <2>1, <2>2, <2>4, <3>1, <3>2, StatusKept
  <2>5. CASE SetStatus(op.t, "closed") /\ Finish
    <3>1. op' \in Ops /\ op'.pc = "idle" /\ "closed" \in Terminal
      BY <2>5, IdleTyped DEF Finish, Terminal
    <3>2. TypeOK'
      BY <1>0, <2>1, <2>2, <2>3, <2>5, <3>1, StatusTyped DEF TypeOK
    <3>. QED  BY <2>1, <2>2, <2>5, <3>1, <3>2, TradeEnds
  <2>. QED  BY <1>4, <2>4, <2>5 DEF MarketClose
<1>. QED  BY <1>1, <1>2, <1>3, <1>4 DEF Close

LEMMA MoveInv == IInv /\ MoveStop => IInv'
<1>. SUFFICES ASSUME IInv, MoveStop PROVE IInv'
  OBVIOUS
<1>. USE DEF SubmitPcs, SyncPcs
<1>0. TypeOK /\ HandlerOwnsTrade
  BY DEF IInv
<1>1. ASSUME CancelOldStop PROVE IInv'
  <2>1. op.t \in Trades /\ op.slot \in Slots
    BY <1>0, <1>1 DEF CancelOldStop, HandlerOwnsTrade, TypeOK, Ops
  <2>2. op' \in Ops /\ op'.pc = "idle"
    BY <1>1, IdleTyped DEF CancelOldStop, Finish
  <2>3. rows' \in [Trades -> [Slots -> OrderStatus]] /\ resting' \subseteq VenueOrders
    BY <1>0, <1>1, <2>1, WithdrawTyped DEF CancelOldStop
  <2>4. TypeOK'
    BY <1>0, <1>1, <2>2, <2>3 DEF CancelOldStop, TypeOK, user
  <2>. QED  BY <1>1, <2>2, <2>4, StatusKept DEF CancelOldStop, user
<1>2. ASSUME NEW s \in Stops, PlaceNewStop(s) PROVE IInv'
  <2>1. op.t \in Trades /\ op \in Ops /\ s \in Slots /\ op.pc = "new_stop" /\ op.px \in Levels
    BY <1>0, <1>2, SlotsTyped DEF PlaceNewStop, HandlerOwnsTrade, TypeOK, Ops
  <2>2. UNCHANGED <<status, gate, sweep, overdue, approved, paused, credited>>
    BY <1>2 DEF PlaceNewStop, user
  <2>3. op' \in Ops /\ (op'.pc = "idle" \/ (op'.t = op.t /\ op'.pc \in {"old_stop", "raised"}))
    <3>1. "old_stop" \in Pcs
      BY DEF Pcs, MovePcs
    <3>. QED  BY <1>2, <2>1, <3>1, GoOn, RaiseTyped, IdleTyped DEF PlaceNewStop, Finish
  <2>4. /\ rows' \in [Trades -> [Slots -> OrderStatus]]
        /\ resting' \subseteq VenueOrders /\ pos' \in [Coins -> Nat]
    BY <1>0, <1>2, <2>1, OutcomeTyped DEF PlaceNewStop
  <2>5. price' \in [Trades -> [Stops -> Levels]]
    BY <1>0, <1>2, <2>1 DEF PlaceNewStop, TypeOK
  <2>6. TypeOK'
    BY <1>0, <2>2, <2>3, <2>4, <2>5 DEF TypeOK
  <2>. QED  BY <2>1, <2>2, <2>3, <2>6, StatusKept
<1>. QED  BY <1>1, <1>2 DEF MoveStop

LEMMA SyncInv == IInv /\ Sync => IInv'
<1>. SUFFICES ASSUME IInv, Sync PROVE IInv'
  OBVIOUS
<1>0. TypeOK /\ HandlerOwnsTrade
  BY DEF IInv
<1>1. ASSUME ReadPositions PROVE IInv'
  <2>1. UNCHANGED <<status, gate, rows, price, sweep, overdue, approved, paused, credited, resting, pos>>
    BY <1>1 DEF ReadPositions, db, user, venue
  <2>2. op' \in Ops /\ op'.pc \in {"idle"} \cup SyncPcs
    <3>1. {c \in Coins : HasPosition(c)} \in SUBSET Coins
      OBVIOUS
    <3>. QED  BY <1>0, <1>1, <3>1, IdleTyped DEF ReadPositions, Finish, TypeOK, Ops, Pcs, SyncPcs
  <2>3. TypeOK'
    BY <1>0, <2>1, <2>2 DEF TypeOK
  <2>. QED  BY <2>1, <2>2, <2>3, StatusKept
<1>2. ASSUME ReadOrders PROVE IInv'
  <2>1. UNCHANGED <<gate, rows, price, sweep, overdue, approved, paused, credited, resting, pos>>
    BY <1>2 DEF ReadOrders, user, venue
  <2>2. op' \in Ops /\ op'.pc = "idle"
    BY <1>2, IdleTyped DEF ReadOrders, Finish
  <2>3. \A t \in Trades : /\ status'[t] \in TradeStatus
                          /\ status[t] # "none" => status'[t] # "none"
                          /\ IsTerminal(t) => status'[t] = status[t]
    BY <1>0, <1>2 DEF ReadOrders, SyncedStatus, IsTerminal, TypeOK, TradeStatus, Live, Terminal
  <2>4. TypeOK'
    BY <1>0, <1>2, <2>1, <2>2, <2>3 DEF TypeOK, ReadOrders
  <2>5. PnlAtMostOnce' /\ SweepKnown'
    BY <1>0, <2>1, <2>3 DEF IInv, PnlAtMostOnce, SweepKnown, IsTerminal, TypeOK
  <2>6. HandlerOwnsTrade'
    BY <2>2 DEF HandlerOwnsTrade, SubmitPcs
  <2>. QED  BY <2>4, <2>5, <2>6 DEF IInv
<1>3. ASSUME ReadOrdersFails PROVE IInv'
  <2>1. TypeOK' /\ op'.pc = "idle"
    BY <1>0, <1>3, IdleTyped DEF ReadOrdersFails, Finish, TypeOK, db, user, venue
  <2>. QED  BY <1>3, <2>1, StatusKept DEF ReadOrdersFails, db, user
<1>. QED  BY <1>1, <1>2, <1>3 DEF Sync

LEMMA PnlInv == IInv /\ ApplyPnl => IInv'
<1>. SUFFICES ASSUME IInv, ApplyPnl PROVE IInv'
  OBVIOUS
<1>0. TypeOK /\ HandlerOwnsTrade /\ PnlAtMostOnce /\ SweepKnown
  BY DEF IInv
<1>1. /\ UNCHANGED <<status, gate, rows, price, sweep, overdue, approved, paused, resting, pos>>
      /\ op' \in Ops /\ op'.pc = "idle"
  BY IdleTyped DEF ApplyPnl, Finish, db, user, venue
<1>2. /\ op.t \in Trades /\ IsTerminal(op.t) /\ credited[op.t] = 0
      /\ credited' \in {credited, [credited EXCEPT ![op.t] = @ + 1]}
  BY <1>0 DEF ApplyPnl, HandlerOwnsTrade, SyncPcs, IsTerminal, Terminal
<1>3. credited' \in [Trades -> Nat]
  BY <1>0, <1>2 DEF TypeOK
<1>4. TypeOK'
  BY <1>0, <1>1, <1>3 DEF TypeOK
<1>5. ASSUME NEW u \in Trades PROVE credited'[u] <= 1 /\ (credited'[u] = 1 => IsTerminal(u)')
  <2>1. credited[u] <= 1 /\ (credited[u] = 1 => IsTerminal(u))
    BY <1>0 DEF PnlAtMostOnce
  <2>2. IsTerminal(u)' <=> IsTerminal(u)
    BY <1>1 DEF IsTerminal
  <2>3. credited'[u] = credited[u] \/ (u = op.t /\ credited'[u] = 1)
    BY <1>0, <1>2 DEF TypeOK
  <2>. QED  BY <1>2, <2>1, <2>2, <2>3
<1>6. HandlerOwnsTrade' /\ SweepKnown'
  BY <1>0, <1>1 DEF HandlerOwnsTrade, SubmitPcs, SweepKnown
<1>. QED  BY <1>4, <1>5, <1>6 DEF IInv, PnlAtMostOnce

LEMMA RaisedInv == IInv /\ HandleRaised => IInv'
<1>. SUFFICES ASSUME IInv, HandleRaised PROVE IInv'
  OBVIOUS
<1>0. TypeOK /\ HandlerOwnsTrade
  BY DEF IInv
<1>1. op.t \in Trades
  BY <1>0 DEF HandleRaised, HandlerOwnsTrade, SyncPcs
<1>2. /\ UNCHANGED <<gate, rows, price, sweep, overdue, approved, paused, credited, resting, pos>>
      /\ op' \in Ops /\ op'.pc = "idle"
  BY IdleTyped DEF HandleRaised, Finish, user, venue
<1>3. CASE UNCHANGED status
  <2>1. TypeOK'
    BY <1>0, <1>2, <1>3 DEF TypeOK
  <2>. QED  BY <1>2, <1>3, <2>1, StatusKept
<1>4. CASE SetStatus(op.t, "canceled")
  <2>1. "canceled" \in Terminal
    BY DEF Terminal
  <2>2. TypeOK'
    BY <1>0, <1>1, <1>2, <1>4, <2>1, StatusTyped DEF TypeOK
  <2>. QED  BY <1>1, <1>2, <1>4, <2>1, <2>2, TradeEnds
<1>. QED  BY <1>3, <1>4 DEF HandleRaised

-----------------------------------------------------------------------------
(* The invariant: the actions that start a handler *)

\* What each start of a handler makes of the handler record.
LEMMA SubmitStarts ==
    ASSUME NEW h \in {"signal", "approve"}, NEW t \in Trades, BeginSubmit(h, t)
    PROVE  op' \in Ops /\ op'.pc = "leverage" /\ op'.t = t
  BY FreshOp DEF BeginSubmit, Pcs, SubmitPcs, Handlers

LEMMA CancelStarts ==
    ASSUME NEW t \in Trades, BeginCancel(t) \/ BeginClose(t)
    PROVE  op' \in Ops /\ op'.pc = "cancel" /\ op'.t = t
<1>1. Op("cancel", "cancel", t) \in Ops /\ Op("cancel", "close", t) \in Ops
  BY FreshOp DEF Pcs, CancelPcs, Handlers
<1>2. Submitted(t) \in SUBSET Slots
  BY DEF Submitted
<1>. QED  BY <1>1, <1>2 DEF BeginCancel, BeginClose, Op, Ops

LEMMA MoveStarts ==
    ASSUME Idle, NEW t \in Trades, NEW px \in Levels, BeginMove(t, px)
    PROVE  op' \in Ops /\ (op'.pc = "idle" \/ (op'.pc = "new_stop" /\ op'.t = t))
<1>1. CASE UNCHANGED op
  BY <1>1, IdleTyped DEF Idle
<1>2. ASSUME NEW s \in Stops, op' = [Op("new_stop", "move", t) EXCEPT !.slot = s, !.px = px]
      PROVE  op' \in Ops /\ op'.pc = "new_stop" /\ op'.t = t
  <2>1. Op("new_stop", "move", t) \in Ops
    BY FreshOp DEF Pcs, MovePcs, Handlers
  <2>2. s \in Slots
    BY SlotsTyped
  <2>. QED  BY <1>2, <2>1, <2>2 DEF Op, Ops
<1>. QED  BY <1>1, <1>2 DEF BeginMove

LEMMA PnlStarts ==
    ASSUME NEW t \in Trades, CloseWithPnl(t)
    PROVE  op' \in Ops /\ op'.pc = "apply" /\ op'.t = t
  BY FreshOp DEF CloseWithPnl, Pcs, Handlers

LEMMA SyncStarts ==
    ASSUME BeginSync
    PROVE  op' \in Ops /\ op'.pc = "read_positions"
  BY FreshOp DEF BeginSync, Pcs, SyncPcs, Handlers

\* A handler starts for a trade that exists.
LEMMA HandlerStarts ==
    ASSUME IInv, TypeOK', UNCHANGED <<status, sweep, credited>>,
           NEW t \in Trades, status[t] # "none", op'.t = t, op'.pc # "apply",
           op'.pc \in SubmitPcs => status[t] \in Live
    PROVE  IInv'
  BY DEF IInv, HandlerOwnsTrade, SweepKnown, PnlAtMostOnce, IsTerminal, SyncPcs

\* The statuses move on: none disappears, none leaves the terminal ones.
LEMMA StatusesMoveOn ==
    ASSUME IInv, TypeOK', UNCHANGED <<credited, sweep>>,
           \A u \in Trades : status[u] # "none" => status'[u] # "none",
           \A u \in Trades : IsTerminal(u) => status'[u] \in Terminal,
           HandlerOwnsTrade'
    PROVE  IInv'
  BY DEF IInv, SweepKnown, PnlAtMostOnce, IsTerminal, TypeOK

\* Promotion is to open, from pending.
LEMMA PromotesTyped ==
    ASSUME TypeOK, NEW t \in Trades, Promotes(t)
    PROVE  /\ status' \in [Trades -> TradeStatus]
           /\ \A u \in Trades : status[u] # "none" => status'[u] # "none"
           /\ \A u \in Trades : IsTerminal(u) => status'[u] = status[u]
  BY DEF Promotes, SetStatus, TypeOK, TradeStatus, Live, Terminal, IsTerminal

\* A trade of which a handler closes the books: it was live, so its result was
\* not applied before.
LEMMA BooksClosed ==
    ASSUME IInv, TypeOK', UNCHANGED <<credited, sweep>>,
           NEW t \in Trades, status[t] \in Live, CloseWithPnl(t)
    PROVE  IInv'
<1>1. SetStatus(t, "closed") /\ "closed" \in Terminal
  BY DEF CloseWithPnl, Terminal
<1>2. /\ status'[t] = "closed"
      /\ \A u \in Trades : status[u] # "none" => status'[u] # "none"
  BY <1>1, StatusTyped DEF IInv
<1>3. credited[t] = 0
  <2>1. credited[t] \in Nat /\ credited[t] <= 1 /\ credited[t] # 1
    BY DEF IInv, PnlAtMostOnce, TypeOK, IsTerminal, Live, Terminal
  <2>. QED  BY <2>1
<1>4. HandlerOwnsTrade'
  BY <1>2, <1>3, PnlStarts DEF HandlerOwnsTrade, SubmitPcs
<1>5. \A u \in sweep' : status'[u] # "none"
  BY <1>2 DEF IInv, SweepKnown, TypeOK
<1>. QED  BY <1>1, <1>4, <1>5, StatusSet

LEMMA MessagesInv == IInv /\ Messages => IInv'
<1>. SUFFICES ASSUME IInv, Messages PROVE IInv'
  OBVIOUS
<1>. USE DEF SubmitPcs, SyncPcs
<1>0. TypeOK /\ HandlerOwnsTrade
  BY DEF IInv
<1>1. ASSUME NEW t \in Trades, NEW g \in Gates, Signal(t, g) PROVE IInv'
  <2>1. /\ UNCHANGED <<rows, price, sweep, overdue, approved, paused, credited, resting, pos>>
        /\ SetStatus(t, "pending") /\ status[t] = "none" /\ "pending" \in Live
    BY <1>1 DEF Signal, user, venue, Live
  <2>2. gate' \in [Trades -> {"auto", "confirm", "manual", "tiny"}]
    BY <1>0, <1>1, GatesAssumption DEF Signal, TypeOK, GatesAssumption
  <2>3. op' \in Ops /\ (op'.pc = "idle" \/ (op'.pc = "leverage" /\ op'.t = t))
    BY <1>1, SubmitStarts, IdleTyped DEF Signal, Idle
  <2>4. /\ status' \in [Trades -> TradeStatus] /\ status'[t] = "pending"
        /\ \A u \in Trades : status[u] # "none" => status'[u] # "none"
    BY <1>0, <2>1, StatusTyped
  <2>5. TypeOK'
    BY <1>0, <2>1, <2>2, <2>3, <2>4 DEF TypeOK
  <2>6. HandlerOwnsTrade'
    BY <2>3, <2>4 DEF HandlerOwnsTrade, Live
  <2>7. \A u \in sweep' : status'[u] # "none"
    BY <1>0, <2>1, <2>4 DEF IInv, SweepKnown, TypeOK
  <2>8. ~IsTerminal(t)
    BY <2>1 DEF IsTerminal, Terminal
  <2>. QED  BY <2>1, <2>5, <2>6, <2>7, <2>8, StatusSet
<1>2. ASSUME NEW t \in Trades, NEW k \in {"tp1", "tp2", "tp3"}, TpHit(t, k) PROVE IInv'
  <2>1. /\ UNCHANGED <<gate, price, sweep, overdue, approved, paused, credited, resting, pos>>
        /\ Idle /\ Promotes(t) /\ status[t] # "none"
        /\ op' = op \/ BeginMove(t, "entry")
    BY <1>2 DEF TpHit, user, venue, Live
  <2>2. rows' \in [Trades -> [Slots -> OrderStatus]]
    BY <1>0, <1>2, SlotsTyped DEF TpHit, TypeOK, Marked, OrderStatus
  <2>3. op' \in Ops /\ (op'.pc = "idle" \/ (op'.pc = "new_stop" /\ op'.t = t))
    BY <2>1, MoveStarts, IdleTyped DEF Idle, Levels
  <2>4. /\ status' \in [Trades -> TradeStatus]
        /\ \A u \in Trades : status[u] # "none" => status'[u] # "none"
        /\ \A u \in Trades : IsTerminal(u) => status'[u] = status[u]
    BY <1>0, <2>1, PromotesTyped
  <2>5. TypeOK'
    BY <1>0, <2>1, <2>2, <2>3, <2>4 DEF TypeOK
  <2>6. HandlerOwnsTrade'
    BY <2>1, <2>3, <2>4 DEF HandlerOwnsTrade
  <2>. QED  BY <2>1, <2>4, <2>5, <2>6, StatusesMoveOn DEF IsTerminal
<1>3. ASSUME NEW t \in Trades, TradeLive(t) PROVE IInv'
  <2>1. /\ UNCHANGED <<gate, price, op, sweep, overdue, approved, paused, credited, resting, pos>>
        /\ Idle /\ Promotes(t)
    BY <1>3 DEF TradeLive, user, venue
  <2>2. rows' \in [Trades -> [Slots -> OrderStatus]]
    BY <1>0, <1>3, SlotsTyped DEF TradeLive, TypeOK, Marked, OrderStatus
  <2>4. /\ status' \in [Trades -> TradeStatus]
        /\ \A u \in Trades : status[u] # "none" => status'[u] # "none"
        /\ \A u \in Trades : IsTerminal(u) => status'[u] = status[u]
    BY <1>0, <2>1, PromotesTyped
  <2>5. TypeOK'
    BY <1>0, <2>1, <2>2, <2>4 DEF TypeOK
  <2>6. HandlerOwnsTrade'
    BY <2>1, IdleTyped DEF HandlerOwnsTrade, Idle
  <2>. QED  BY <2>1, <2>4, <2>5, <2>6, StatusesMoveOn DEF IsTerminal
<1>4. ASSUME NEW t \in Trades, AllTpHit(t) \/ StopHit(t) PROVE IInv'
  <2>1. /\ UNCHANGED <<gate, price, sweep, overdue, approved, paused, credited, resting, pos>>
        /\ CloseWithPnl(t) /\ status[t] \in Live
    BY <1>4 DEF AllTpHit, StopHit, user, venue
  <2>2. rows' \in [Trades -> [Slots -> OrderStatus]]
    <3>1. CASE AllTpHit(t)
      BY <1>0, <3>1 DEF AllTpHit, TypeOK, Marked, OrderStatus
    <3>2. CASE StopHit(t)
      BY <1>0, <3>2 DEF StopHit, TypeOK, Marked, OrderStatus
    <3>. QED  BY <1>4, <3>1, <3>2
  <2>3. status' \in [Trades -> TradeStatus]
    BY <1>0, <2>1, StatusTyped DEF CloseWithPnl, Terminal
  <2>4. TypeOK'
    BY <1>0, <2>1, <2>2, <2>3, PnlStarts DEF TypeOK
  <2>. QED  BY <2>1, <2>4, BooksClosed
<1>5. ASSUME NEW t \in Trades, Breakeven(t) \/ ManualUpdate(t) PROVE IInv'
  <2>1. /\ UNCHANGED <<status, gate, rows, price, sweep, overdue, approved, paused, credited, resting, pos>>
        /\ Idle /\ status[t] # "none"
        /\ BeginMove(t, "entry") \/ BeginMove(t, "update")
    BY <1>5 DEF Breakeven, ManualUpdate, db, user, venue
  <2>2. op' \in Ops /\ (op'.pc = "idle" \/ (op'.pc = "new_stop" /\ op'.t = t))
    BY <2>1, MoveStarts DEF Levels
  <2>3. TypeOK'
    BY <1>0, <2>1, <2>2 DEF TypeOK
  <2>. QED  BY <2>1, <2>2, <2>3, StatusKept, HandlerStarts
<1>6. ASSUME NEW t \in Trades, Canceled(t) PROVE IInv'
  <2>1. /\ UNCHANGED <<status, gate, rows, price, sweep, overdue, approved, paused, credited, resting, pos>>
        /\ status[t] # "none"
        /\ BeginCancel(t) \/ BeginClose(t)
    BY <1>6 DEF Canceled, db, user, venue
  <2>2. op' \in Ops /\ op'.pc = "cancel" /\ op'.t = t
    BY <2>1, CancelStarts
  <2>3. TypeOK'
    BY <1>0, <2>1, <2>2 DEF TypeOK
  <2>. QED  BY <2>1, <2>2, <2>3, HandlerStarts
<1>7. ASSUME NEW t \in Trades, TradeClosed(t) PROVE IInv'
  <2>1. /\ UNCHANGED <<gate, rows, price, sweep, overdue, approved, paused, credited, resting, pos>>
        /\ Idle /\ status[t] # "none"
    BY <1>7 DEF TradeClosed, user, venue
  <2>2. CASE BeginClose(t) /\ UNCHANGED status
    <3>1. op' \in Ops /\ op'.pc = "cancel" /\ op'.t = t
      BY <2>2, CancelStarts
    <3>2. TypeOK'
      BY <1>0, <2>1, <2>2, <3>1 DEF TypeOK
    <3>. QED  BY <2>1, <2>2, <3>1, <3>2, HandlerStarts
  <2>3. CASE SetStatus(t, "closed") /\ UNCHANGED op
    <3>1. "closed" \in Terminal /\ op'.pc = "idle"
      BY <2>1, <2>3, IdleTyped DEF Terminal, Idle
    <3>2. TypeOK'
      BY <1>0, <2>1, <2>3, <3>1, StatusTyped DEF TypeOK
    <3>. QED  BY <2>1, <2>3, <3>1, <3>2, TradeEnds
  <2>. QED  BY <1>7, <2>2, <2>3 DEF TradeClosed
<1>. QED  BY <1>1, <1>2, <1>3, <1>4, <1>5, <1>6, <1>7 DEF Messages

LEMMA ButtonsInv == IInv /\ Buttons => IInv'
<1>. SUFFICES ASSUME IInv, Buttons PROVE IInv'
  OBVIOUS
<1>. USE DEF SubmitPcs, SyncPcs
<1>0. TypeOK /\ HandlerOwnsTrade
  BY DEF IInv
<1>1. ASSUME NEW t \in Trades, Approve(t) PROVE IInv'
  <2>1. /\ UNCHANGED <<gate, rows, price, sweep, overdue, paused, credited, resting, pos>>
        /\ Idle /\ status[t] = "pending"
    BY <1>1 DEF Approve, venue
  <2>2. CASE SetStatus(t, "canceled") /\ UNCHANGED <<op, approved>>
    <3>1. "canceled" \in Terminal /\ op'.pc = "idle"
      BY <2>1, <2>2, IdleTyped DEF Terminal, Idle
    <3>2. TypeOK'
      BY <1>0, <2>1, <2>2, <3>1, StatusTyped DEF TypeOK
    <3>. QED  BY <2>1, <2>2, <3>1, <3>2, TradeEnds
  <2>3. CASE BeginSubmit("approve", t) /\ approved' = approved \cup {t} /\ UNCHANGED status
    <3>1. op' \in Ops /\ op'.pc = "leverage" /\ op'.t = t
      BY <2>3, SubmitStarts
    <3>2. TypeOK'
      BY <1>0, <2>1, <2>3, <3>1 DEF TypeOK
    <3>. QED  BY <2>1, <2>3, <3>1, <3>2, HandlerStarts DEF Live
  <2>. QED  BY <1>1, <2>2, <2>3 DEF Approve
<1>2. ASSUME NEW t \in Trades, Reject(t) PROVE IInv'
  <2>1. /\ UNCHANGED <<gate, rows, price, op, sweep, overdue, approved, paused, credited, resting, pos>>
        /\ Idle /\ SetStatus(t, "canceled") /\ "canceled" \in Terminal
    BY <1>2 DEF Reject, user, venue, Terminal
  <2>2. op'.pc = "idle"
    BY <2>1, IdleTyped DEF Idle
  <2>3. TypeOK'
    BY <1>0, <2>1, StatusTyped DEF TypeOK
  <2>. QED  BY <2>1, <2>2, <2>3, TradeEnds
<1>3. ASSUME NEW t \in Trades, ConfirmClose(t) \/ KillSwitch(t) PROVE IInv'
  <2>1. /\ UNCHANGED <<status, gate, rows, price, sweep, overdue, approved, paused, credited, resting, pos>>
        /\ status[t] # "none"
        /\ BeginCancel(t) \/ BeginClose(t)
    BY <1>3 DEF ConfirmClose, KillSwitch, db, user, venue, Live
  <2>2. op' \in Ops /\ op'.pc = "cancel" /\ op'.t = t
    BY <2>1, CancelStarts
  <2>3. TypeOK'
    BY <1>0, <2>1, <2>2 DEF TypeOK
  <2>. QED  BY <2>1, <2>2, <2>3, HandlerStarts
<1>4. ASSUME NEW c \in Coins, ConfirmClosePos(c) PROVE IInv'
  <2>1. /\ UNCHANGED <<status, gate, rows, price, op, sweep, overdue, approved, paused, credited>>
        /\ op'.pc = "idle"
    BY <1>4, IdleTyped DEF ConfirmClosePos, db, user, Idle
  <2>2. PICK n \in 1..pos[c] : Reduce(c, n, resting)
    BY <1>4 DEF ConfirmClosePos
  <2>3. n \in Nat /\ resting \in SUBSET VenueOrders
    BY <1>0 DEF TypeOK
  <2>4. TypeOK'
    BY <1>0, <2>1, <2>2, <2>3, ReduceTyped DEF TypeOK
  <2>. QED  BY <2>1, <2>4, StatusKept
<1>5. ASSUME Pause PROVE IInv'
  <2>1. /\ UNCHANGED <<status, gate, rows, price, op, sweep, overdue, approved, credited>>
        /\ UNCHANGED <<resting, pos>> /\ paused' = ~paused /\ op.pc = "idle"
    BY <1>5, IdleTyped DEF Pause, db, venue, Idle
  <2>2. TypeOK'
    BY <1>0, <2>1 DEF TypeOK
  <2>. QED  BY <2>1, <2>2, StatusKept
<1>. QED  BY <1>1, <1>2, <1>3, <1>4, <1>5 DEF Buttons

LEMMA SweepsInv == IInv /\ Sweeps => IInv'
<1>. SUFFICES ASSUME IInv, Sweeps PROVE IInv'
  OBVIOUS
<1>0. TypeOK /\ HandlerOwnsTrade /\ SweepKnown
  BY DEF IInv
<1>1. ASSUME NEW t \in Trades, NEW rest \in SUBSET Trades, Decline(t, rest),
             \A u \in rest : u \in sweep \/ status[u] # "none"
      PROVE  IInv'
  <2>1. /\ UNCHANGED <<gate, rows, price, op, overdue, approved, paused, credited, resting, pos>>
        /\ Idle /\ SetStatus(t, "canceled") /\ "canceled" \in Terminal /\ sweep' = rest \ {t}
    BY <1>1 DEF Decline, venue, Terminal
  <2>2. op'.pc = "idle"
    BY <2>1, IdleTyped DEF Idle
  <2>3. TypeOK'
    BY <1>0, <2>1, StatusTyped DEF TypeOK
  <2>. QED  BY <1>1, <2>1, <2>2, <2>3, TradeEnds
<1>2. CASE SweepStart
  <2>1. PICK t \in ExpiredConfirmations : Decline(t, ExpiredConfirmations)
    BY <1>2 DEF SweepStart
  <2>2. /\ ExpiredConfirmations \in SUBSET Trades
        /\ \A u \in ExpiredConfirmations : status[u] # "none"
    BY <1>0 DEF ExpiredConfirmations, TypeOK
  <2>. QED  BY <1>1, <2>1, <2>2
<1>3. CASE SweepNext
  <2>1. PICK t \in sweep : Decline(t, sweep)
    BY <1>3 DEF SweepNext
  <2>2. sweep \in SUBSET Trades
    BY <1>0 DEF TypeOK
  <2>. QED  BY <1>1, <2>1, <2>2
<1>4. CASE ReconcileTick
  <2>1. UNCHANGED <<status, gate, rows, price, sweep, overdue, approved, paused, credited, resting, pos>>
    BY <1>4 DEF ReconcileTick, db, user, venue
  <2>2. op' \in Ops /\ op'.pc \in SyncPcs
    BY <1>4, SyncStarts DEF ReconcileTick, SyncPcs
  <2>3. TypeOK'
    BY <1>0, <2>1, <2>2 DEF TypeOK
  <2>. QED  BY <2>1, <2>2, <2>3, StatusKept
<1>5. ASSUME NEW t \in Trades, Timeout(t) PROVE IInv'
  <2>1. /\ UNCHANGED <<status, gate, rows, price, op, sweep, approved, paused, credited, resting, pos>>
        /\ overdue' = overdue \cup {t}
    BY <1>5 DEF Timeout, db, venue
  <2>2. TypeOK'
    BY <1>0, <2>1 DEF TypeOK
  <2>3. HandlerOwnsTrade' /\ SweepKnown' /\ PnlAtMostOnce'
    BY <1>0, <2>1 DEF IInv, HandlerOwnsTrade, SweepKnown, PnlAtMostOnce, IsTerminal
  <2>. QED  BY <2>2, <2>3 DEF IInv
<1>. QED  BY <1>2, <1>3, <1>4, <1>5 DEF Sweeps

LEMMA CrashInv == IInv /\ Crash => IInv'
<1>. SUFFICES ASSUME IInv, Crash PROVE IInv'
  OBVIOUS
<1>1. /\ UNCHANGED <<status, gate, rows, price, overdue, approved, credited, resting, pos>>
      /\ sweep' = {} /\ paused' = FALSE
  BY DEF Crash, db, venue
<1>2. op' \in Ops /\ op'.pc = "read_positions"
  BY SyncStarts DEF Crash
<1>3. TypeOK'
  BY <1>1, <1>2 DEF IInv, TypeOK
<1>4. HandlerOwnsTrade' /\ SweepKnown' /\ PnlAtMostOnce'
  BY <1>1, <1>2 DEF IInv, HandlerOwnsTrade, SweepKnown, PnlAtMostOnce, IsTerminal, SubmitPcs, SyncPcs
<1>. QED  BY <1>3, <1>4 DEF IInv

\* The venue touches neither the store nor the handler.
LEMMA VenueInv == IInv /\ VenueMoves => IInv'
<1>. SUFFICES ASSUME IInv, VenueMoves PROVE IInv'
  OBVIOUS
<1>0. TypeOK
  BY DEF IInv
<1>1. UNCHANGED <<status, gate, rows, price, op, sweep, overdue, approved, paused, credited>>
  BY DEF VenueMoves, EntryFills, EntryDropped, ExitFills, db, user
<1>2. resting' \subseteq VenueOrders /\ pos' \in [Coins -> Nat]
  <2>1. ASSUME NEW t \in Trades, NEW e \in Entries, EntryFills(t, e) \/ EntryDropped(t, e)
        PROVE  resting' \subseteq VenueOrders /\ pos' \in [Coins -> Nat]
    <3>1. CoinOf[t] \in Coins /\ EntrySize \in Nat /\ resting' \subseteq resting
      BY <2>1, CoinOfAssumption, SizeAssumption
      DEF EntryFills, EntryDropped, CoinOfAssumption, SizeAssumption
    <3>2. pos' = pos \/ pos' = [pos EXCEPT ![CoinOf[t]] = @ + EntrySize]
      BY <2>1 DEF EntryFills, EntryDropped
    <3>. QED  BY <1>0, <3>1, <3>2 DEF TypeOK
  <2>2. ASSUME NEW t \in Trades, NEW s \in Stops \cup TPs, ExitFills(t, s)
        PROVE  resting' \subseteq VenueOrders /\ pos' \in [Coins -> Nat]
    <3>1. CoinOf[t] \in Coins /\ (IF s \in TPs THEN 1 ELSE EntrySize) \in Nat
      BY CoinOfAssumption, SizeAssumption DEF CoinOfAssumption, SizeAssumption
    <3>2. resting \ {<<t, s>>} \in SUBSET VenueOrders
      BY <1>0 DEF TypeOK
    <3>. QED  BY <1>0, <2>2, <3>1, <3>2, ReduceTyped DEF ExitFills
  <2>. QED  BY <2>1, <2>2 DEF VenueMoves
<1>3. TypeOK'
  BY <1>0, <1>1, <1>2 DEF TypeOK
<1>4. HandlerOwnsTrade' /\ SweepKnown' /\ PnlAtMostOnce'
  BY <1>1 DEF IInv, HandlerOwnsTrade, SweepKnown, PnlAtMostOnce, IsTerminal
<1>. QED  BY <1>3, <1>4 DEF IInv

-----------------------------------------------------------------------------
(* The theorems *)

LEMMA InitInv == Init => IInv
<1>. SUFFICES ASSUME Init PROVE IInv
  OBVIOUS
<1>1. TypeOK
  BY IdleTyped DEF Init, TypeOK, TradeStatus, OrderStatus, Levels
<1>2. HandlerOwnsTrade /\ SweepKnown /\ PnlAtMostOnce
  BY IdleTyped DEF Init, HandlerOwnsTrade, SweepKnown, PnlAtMostOnce, SubmitPcs
<1>. QED  BY <1>1, <1>2 DEF IInv

LEMMA NextInv == IInv /\ [Next]_vars => IInv'
<1>. SUFFICES ASSUME IInv, [Next]_vars PROVE IInv'
  OBVIOUS
<1>1. CASE HandlerStep
  BY <1>1, SubmitInv, CloseInv, MoveInv, SyncInv, PnlInv, RaisedInv DEF HandlerStep
<1>2. CASE UNCHANGED vars
  BY <1>2 DEF vars, db, user, venue, IInv, TypeOK, HandlerOwnsTrade, SweepKnown,
              PnlAtMostOnce, IsTerminal
<1>. QED  BY <1>1, <1>2, MessagesInv, ButtonsInv, SweepsInv, CrashInv, VenueInv DEF Next

\* The inductive invariant: every reachable state is well typed, the running
\* handler works for a trade it may work for, the sweep's list names recorded
\* trades, and no result is applied twice.
THEOREM Invariance == Spec => []IInv
  BY InitInv, NextInv, PTL DEF Spec

\* Whatever the numbers of trades, coins and orders and whatever goes wrong, the
\* store, the handler and the venue keep their types.
THEOREM TypeCorrect == Spec => []TypeOK
<1>1. IInv => TypeOK
  BY DEF IInv
<1>. QED  BY <1>1, Invariance, PTL

\* No sequence of messages, button presses, syncs, failures and crashes makes the
\* pipeline apply the profit or loss of a trade to the port twice, or apply that
\* of a trade that is not terminal.
THEOREM PnlOnce == Spec => []PnlAtMostOnce
<1>1. IInv => PnlAtMostOnce
  BY DEF IInv
<1>. QED  BY <1>1, Invariance, PTL

=============================================================================
