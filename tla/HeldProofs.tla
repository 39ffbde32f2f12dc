----------------------------- MODULE HeldProofs -----------------------------
(* A trade held for the user stays off the venue, for every value of the    *)
(* constants.                                                               *)
EXTENDS PipelineProofs

\* Off limits: not recorded yet, or held and not approved.
Off(t) == status[t] = "none" \/ (gate[t] # "auto" /\ t \notin approved)

\* No order row, no order on the venue.
Untouched(t) ==
    /\ \A s \in Slots : rows[t][s] = "none"
    /\ \A s \in Slots \cup Entries : <<t, s>> \notin resting

\* The running handler has no business with a trade that is off limits: it
\* submits none, the rows a cancel goes through exist, and so does the stop a
\* move replaces.
HandsOff ==
    /\ op.pc \in SubmitPcs => ~Off(op.t)
    /\ op.pc = "cancel" => \A s \in op.todo : rows[op.t][s] # "none"
    /\ op.pc \in MovePcs => rows[op.t][op.slot] # "none"

HeldInv == HandsOff /\ \A t \in Trades : Off(t) => Untouched(t)

-----------------------------------------------------------------------------
(* What a step must be shown to do *)

\* A trade that is not off limits does not become so: it is recorded, and stays
\* as it was admitted; an approval is not taken back.
LEMMA OffKept ==
    ASSUME NEW t, status[t] # "none" => status'[t] # "none",
           gate'[t] = gate[t], t \in approved => t \in approved'
    PROVE  Off(t)' => Off(t)
  BY DEF Off

\* A step that places no order and creates no row.
LEMMA PlacesNothing ==
    ASSUME HeldInv,
           \A t \in Trades : Off(t)' => Off(t),
           \A t \in Trades, s \in Slots : rows[t][s] = "none" => rows'[t][s] = "none",
           resting' \subseteq resting,
           HandsOff'
    PROVE  HeldInv'
  BY DEF HeldInv, Untouched

\* A step that places orders and creates rows, of a trade that is not off
\* limits.
LEMMA PlacesFor ==
    ASSUME HeldInv, NEW t \in Trades, ~Off(t),
           \A u \in Trades : Off(u)' => Off(u),
           \A u \in Trades \ {t} : rows'[u] = rows[u],
           resting' \subseteq resting \cup ({t} \X (Slots \cup Entries)),
           HandsOff'
    PROVE  HeldInv'
<1>. SUFFICES ASSUME NEW u \in Trades, Off(u)' PROVE Untouched(u)'
  BY DEF HeldInv
<1>1. Off(u) /\ u # t /\ Untouched(u)
  BY DEF HeldInv
<1>. QED  BY <1>1 DEF Untouched

\* At rest, after an exception and in a sync the handler has nothing in hand.
LEMMA HandsFree ==
    ASSUME op'.pc \notin SubmitPcs \cup MovePcs \cup {"cancel"}
    PROVE  HandsOff'
  BY DEF HandsOff

\* A row that is written belongs to the trade it is written for.
LEMMA RowOf ==
    ASSUME TypeOK, NEW t \in Trades, NEW s \in Slots, NEW st \in OrderStatus,
           SetRow(t, s, st)
    PROVE  /\ \A u \in Trades \ {t} : rows'[u] = rows[u]
           /\ rows'[t][s] = st
           /\ \A r \in Slots \ {s} : rows'[t][r] = rows[t][r]
  BY DEF TypeOK, SetRow

\* An order that is placed belongs to the trade it is placed for.
LEMMA OrderOf ==
    ASSUME NEW t \in Trades, NEW s \in Slots \cup Entries,
           resting' = resting \/ resting' = resting \cup {<<t, s>>} \/ resting' = resting \ {<<t, s>>}
    PROVE  resting' \subseteq resting \cup ({t} \X (Slots \cup Entries))
<1>1. <<t, s>> \in {t} \X (Slots \cup Entries)
  OBVIOUS
<1>2. CASE resting' = resting \cup {<<t, s>>}
  BY <1>1, <1>2
<1>. QED  BY <1>2

\* Whatever becomes of an order of the trade worked for concerns that trade alone,
\* and that order's row.
LEMMA OutcomeOf ==
    ASSUME TypeOK, op.t \in Trades, NEW s \in Slots,
           Rests(s) \/ TriggersAtOnce(s) \/ IsRefused(s) \/ Unanswered(s)
    PROVE  /\ \A u \in Trades \ {op.t} : rows'[u] = rows[u]
           /\ \A r \in Slots \ {s} : rows'[op.t][r] = rows[op.t][r]
           /\ resting' \subseteq resting \cup ({op.t} \X (Slots \cup Entries))
<1>1. PICK st \in OrderStatus : SetRow(op.t, s, st)
  BY DEF Rests, TriggersAtOnce, IsRefused, Unanswered, OrderStatus
<1>2. \/ resting' = resting \/ resting' = resting \cup {<<op.t, s>>}
      \/ resting' \subseteq resting
  BY DEF Rests, TriggersAtOnce, IsRefused, Unanswered, Reduce, venue
<1>. QED  BY <1>1, <1>2, RowOf, OrderOf

\* A withdrawal takes orders away and writes only the row of the order withdrawn.
LEMMA WithdrawOf ==
    ASSUME TypeOK, op.t \in Trades, NEW s \in Slots, Withdraw(s)
    PROVE  /\ \A u \in Trades, r \in Slots : (u # op.t \/ r # s) => rows'[u][r] = rows[u][r]
           /\ \A u \in Trades \ {op.t} : rows'[u] = rows[u]
           /\ rows[op.t][s] # "none" => rows'[op.t][s] # "none"
           /\ resting' \subseteq resting
<1>1. SetRow(op.t, s, "canceled") \/ UNCHANGED rows
  BY DEF Withdraw
<1>2. resting' \subseteq resting
  BY DEF Withdraw
<1>. QED  BY <1>1, <1>2, RowOf DEF OrderStatus

-----------------------------------------------------------------------------
(* The handler that is running *)

\* A handler submits only trades that are not off limits.
LEMMA SubmitHeld == IInv /\ HeldInv /\ Submit => HeldInv'
<1>. SUFFICES ASSUME IInv, HeldInv, Submit PROVE HeldInv'
  OBVIOUS
<1>0. TypeOK /\ HandlerOwnsTrade /\ HandsOff
  BY DEF IInv, HeldInv
<1>1. ASSUME SetLeverage PROVE HeldInv'
  <2>1. op \in Ops /\ op.pc \in SubmitPcs /\ op.t \in Trades /\ ~Off(op.t)
    BY <1>0, <1>1 DEF SetLeverage, SubmitPcs, HandsOff, HandlerOwnsTrade, TypeOK, SyncPcs
  <2>2. \A u \in Trades : Off(u)' => Off(u)
    BY <1>1, OffKept DEF SetLeverage, user
  <2>3. op'.t = op.t /\ op'.pc \in {"place_entry", "raised"}
    BY <1>1, <2>1, GoOn, RaiseTyped DEF SetLeverage, Pcs, SubmitPcs
  <2>4. HandsOff'
    BY <2>1, <2>2, <2>3 DEF HandsOff, MovePcs
  <2>5. \A u \in Trades \ {op.t} : rows'[u] = rows[u]
    BY <1>0, <1>1, <2>1, RowOf, SlotsTyped DEF SetLeverage, OrderStatus
  <2>. QED  BY <1>1, <2>1, <2>2, <2>4, <2>5, PlacesFor DEF SetLeverage, venue
<1>2. ASSUME PlaceEntry PROVE HeldInv'
  <2>1. op \in Ops /\ op.pc = "place_entry" /\ op.t \in Trades /\ ~Off(op.t)
    BY <1>0, <1>2 DEF PlaceEntry, SubmitPcs, HandsOff, HandlerOwnsTrade, TypeOK, SyncPcs
  <2>2. /\ \A u \in Trades : status[u] # "none" => status'[u] # "none"
        /\ UNCHANGED <<gate, approved>>
    BY <1>0, <1>2, <2>1
    DEF PlaceEntry, EntryRejected, EntryRests, EntryFillsAtOnce, EntryUnnamed, EntryAnswerLost,
        SetStatus, TypeOK, user
  <2>3. \A u \in Trades : Off(u)' => Off(u)
    BY <2>2, OffKept
  <2>4. op'.t = op.t /\ op'.pc \in {"place_entry", "place_orders", "raised"}
    <3>1. ASSUME PlaceRest PROVE op'.t = op.t /\ op'.pc = "place_orders"
      BY <2>1, <3>1 DEF PlaceRest, Ops
    <3>2. CASE op' = [op EXCEPT !.tries = @ + 1]
      BY <2>1, <3>2 DEF Ops
    <3>3. CASE Raise(FALSE)
      BY <2>1, <3>3, RaiseTyped
    <3>4. CASE EntryRejected
      BY <2>1, <3>4, RaiseTyped DEF EntryRejected
    <3>. QED
      BY <1>2, <3>1, <3>2, <3>3, <3>4
      DEF PlaceEntry, EntryRests, EntryFillsAtOnce, EntryUnnamed, EntryAnswerLost
  <2>5. HandsOff'
    BY <2>1, <2>3, <2>4 DEF HandsOff, MovePcs
  <2>6. \A u \in Trades \ {op.t} : rows'[u] = rows[u]
    BY <1>0, <1>2, <2>1, RowOf, SlotsTyped
    DEF PlaceEntry, EntryRejected, EntryRests, EntryFillsAtOnce, EntryUnnamed, EntryAnswerLost,
        OrderStatus
  <2>7. resting' \subseteq resting \cup ({op.t} \X (Slots \cup Entries))
    BY <1>2, <2>1, OrderOf
    DEF PlaceEntry, EntryRejected, EntryRests, EntryFillsAtOnce, EntryUnnamed, EntryAnswerLost,
        venue, Entries
  <2>. QED  BY <2>1, <2>3, <2>5, <2>6, <2>7, PlacesFor
<1>3. ASSUME NEW s \in op.todo, PlaceOrder(s) PROVE HeldInv'
  <2>1. op \in Ops /\ op.pc = "place_orders" /\ op.t \in Trades /\ s \in Slots /\ ~Off(op.t)
    BY <1>0, <1>3 DEF PlaceOrder, SubmitPcs, HandsOff, HandlerOwnsTrade, TypeOK, SyncPcs, Ops
  <2>2. \A u \in Trades : Off(u)' => Off(u)
    BY <1>3, OffKept DEF PlaceOrder, user
  <2>3. op'.t = op.t /\ op'.pc \in {"place_orders", "raised"}
    BY <1>3, <2>1, RaiseTyped DEF PlaceOrder, Ops
  <2>4. HandsOff'
    BY <2>1, <2>2, <2>3 DEF HandsOff, MovePcs, SubmitPcs
  <2>5. /\ \A u \in Trades \ {op.t} : rows'[u] = rows[u]
        /\ resting' \subseteq resting \cup ({op.t} \X (Slots \cup Entries))
    BY <1>0, <1>3, <2>1, OutcomeOf DEF PlaceOrder
  <2>. QED  BY <2>1, <2>2, <2>4, <2>5, PlacesFor
<1>4. ASSUME SubmitDone PROVE HeldInv'
  <2>1. UNCHANGED <<status, gate, rows, approved, resting>> /\ op'.pc = "idle"
    BY <1>4, IdleTyped DEF SubmitDone, Finish, db, user, venue
  <2>2. HandsOff'
    BY <2>1, HandsFree DEF SubmitPcs, MovePcs
  <2>. QED  BY <2>1, <2>2, OffKept, PlacesNothing
<1>. QED  BY <1>1, <1>2, <1>3, <1>4 DEF Submit

\* A cancel only writes rows that exist and takes orders away; the rest of a
\* close writes no row.
LEMMA CloseHeld == IInv /\ HeldInv /\ Close => HeldInv'
<1>. SUFFICES ASSUME IInv, HeldInv, Close PROVE HeldInv'
  OBVIOUS
<1>0. TypeOK /\ HandlerOwnsTrade /\ HandsOff
  BY DEF IInv, HeldInv
<1>1. ASSUME NEW s \in op.todo, CancelOrder(s) PROVE HeldInv'
  <2>1. op \in Ops /\ op.pc = "cancel" /\ op.t \in Trades /\ s \in Slots /\ rows[op.t][s] # "none"
    BY <1>0, <1>1 DEF CancelOrder, HandsOff, HandlerOwnsTrade, TypeOK, SyncPcs, Ops
  <2>2. \A u \in Trades : Off(u)' => Off(u)
    BY <1>1, OffKept DEF CancelOrder, user
  <2>3. op'.t = op.t /\ op'.pc = "cancel" /\ op'.todo = op.todo \ {s}
    BY <1>1, <2>1 DEF CancelOrder, Ops
  <2>4. /\ \A u \in Trades, r \in Slots : (u # op.t \/ r # s) => rows'[u][r] = rows[u][r]
        /\ rows'[op.t][s] # "none" /\ resting' \subseteq resting
    BY <1>0, <1>1, <2>1, WithdrawOf DEF CancelOrder
  <2>5. HandsOff'
    <3>1. \A r \in op'.todo : r \in Slots /\ r # s /\ rows[op.t][r] # "none"
      BY <1>0, <2>1, <2>3 DEF HandsOff, Ops
    <3>. QED  BY <2>1, <2>3, <2>4, <3>1 DEF HandsOff, SubmitPcs, MovePcs
  <2>6. \A u \in Trades, r \in Slots : rows[u][r] = "none" => rows'[u][r] = "none"
    BY <2>1, <2>4
  <2>. QED  BY <2>2, <2>4, <2>5, <2>6, PlacesNothing
<1>2. ASSUME CancelDone \/ ReadPosition \/ MarketClose PROVE HeldInv'
  <2>1. op \in Ops /\ op.t \in Trades
    BY <1>0, <1>2 DEF CancelDone, ReadPosition, MarketClose, HandlerOwnsTrade, TypeOK, SyncPcs
  <2>2. /\ \A u \in Trades : status[u] # "none" => status'[u] # "none"
        /\ UNCHANGED <<gate, rows, approved>>
    BY <1>0, <1>2, <2>1 DEF CancelDone, ReadPosition, MarketClose, SetStatus, TypeOK, user
  <2>3. \A u \in Trades : Off(u)' => Off(u)
    BY <2>2, OffKept
  <2>4. op'.pc \in {"idle", "raised", "positions", "ioc"}
    BY <1>2, <2>1, GoOn, RaiseTyped, IdleTyped
    DEF CancelDone, ReadPosition, MarketClose, Finish, Pcs, CancelPcs
  <2>5. resting' \subseteq resting
    BY <1>2 DEF CancelDone, ReadPosition, MarketClose, Reduce, venue
  <2>6. HandsOff'
    BY <2>4, HandsFree DEF SubmitPcs, MovePcs
  <2>. QED  BY <2>2, <2>3, <2>5, <2>6, PlacesNothing
<1>. QED  BY <1>1, <1>2 DEF Close

\* A stop is moved only for a trade that has one.
LEMMA MoveHeld == IInv /\ HeldInv /\ MoveStop => HeldInv'
<1>. SUFFICES ASSUME IInv, HeldInv, MoveStop PROVE HeldInv'
  OBVIOUS
<1>0. TypeOK /\ HandlerOwnsTrade /\ HandsOff
  BY DEF IInv, HeldInv
<1>1. op \in Ops /\ op.pc \in MovePcs /\ op.t \in Trades /\ op.slot \in Slots
  BY <1>0 DEF MoveStop, CancelOldStop, PlaceNewStop, MovePcs, HandlerOwnsTrade, TypeOK, SyncPcs, Ops
<1>2. rows[op.t][op.slot] # "none" /\ ~Off(op.t)
  BY <1>0, <1>1 DEF HandsOff, HeldInv, Untouched
<1>3. \A u \in Trades : Off(u)' => Off(u)
  BY OffKept DEF MoveStop, CancelOldStop, PlaceNewStop, user
<1>4. ASSUME CancelOldStop PROVE HeldInv'
  <2>1. HandsOff'
    BY <1>4, IdleTyped, HandsFree DEF CancelOldStop, Finish, SubmitPcs, MovePcs
  <2>2. (\A u \in Trades \ {op.t} : rows'[u] = rows[u]) /\ resting' \subseteq resting
    BY <1>0, <1>1, <1>4, WithdrawOf DEF CancelOldStop
  <2>. QED  BY <1>1, <1>2, <1>3, <2>1, <2>2, PlacesFor
<1>5. ASSUME NEW s \in Stops, PlaceNewStop(s) PROVE HeldInv'
  <2>1. s \in Slots /\ rows[op.t][s] = "none"
    BY <1>5, SlotsTyped DEF PlaceNewStop, IsFirst, FreeStops
  <2>2. /\ \A u \in Trades \ {op.t} : rows'[u] = rows[u]
        /\ \A r \in Slots \ {s} : rows'[op.t][r] = rows[op.t][r]
        /\ resting' \subseteq resting \cup ({op.t} \X (Slots \cup Entries))
    BY <1>0, <1>1, <1>5, <2>1, OutcomeOf DEF PlaceNewStop
  <2>3. HandsOff'
    <3>1. CASE Goto("old_stop")
      <4>1. op'.pc = "old_stop" /\ op'.t = op.t /\ op'.slot = op.slot
        BY <1>1, <3>1 DEF Goto, Ops
      <4>2. rows'[op.t][op.slot] # "none"
        BY <1>1, <1>2, <2>1, <2>2
      <4>. QED  BY <4>1, <4>2 DEF HandsOff, SubmitPcs
    <3>2. CASE Finish \/ Raise(FALSE)
      BY <1>1, <3>2, IdleTyped, RaiseTyped, HandsFree DEF Finish, SubmitPcs, MovePcs
    <3>. QED  BY <1>5, <3>1, <3>2 DEF PlaceNewStop
  <2>. QED  BY <1>1, <1>2, <1>3, <2>2, <2>3, PlacesFor
<1>. QED  BY <1>4, <1>5 DEF MoveStop

\* A sync, a credit and the handling of an exception write no row.
LEMMA OthersHeld == IInv /\ HeldInv /\ (Sync \/ ApplyPnl \/ HandleRaised) => HeldInv'
<1>. SUFFICES ASSUME IInv, HeldInv, Sync \/ ApplyPnl \/ HandleRaised PROVE HeldInv'
  OBVIOUS
<1>0. TypeOK /\ HandlerOwnsTrade
  BY DEF IInv
<1>1. UNCHANGED <<gate, rows, approved, resting>>
  BY DEF Sync, ReadPositions, ReadOrders, ReadOrdersFails, ApplyPnl, HandleRaised, db, user, venue
<1>2. \A u \in Trades : status[u] # "none" => status'[u] # "none"
  <2>1. CASE ReadOrders
    BY <2>1 DEF ReadOrders, SyncedStatus
  <2>2. CASE HandleRaised
    BY <1>0, <2>2 DEF HandleRaised, SetStatus, TypeOK
  <2>. QED  BY <2>1, <2>2 DEF Sync, ReadPositions, ReadOrdersFails, ApplyPnl, db
<1>3. op'.pc \in {"idle", "read_orders"}
  BY <1>0, IdleTyped
  DEF Sync, ReadPositions, ReadOrders, ReadOrdersFails, ApplyPnl, HandleRaised, Finish, TypeOK, Ops
<1>4. HandsOff'
  BY <1>3, HandsFree DEF SubmitPcs, MovePcs
<1>. QED  BY <1>1, <1>2, <1>4, OffKept, PlacesNothing

-----------------------------------------------------------------------------
(* What starts a handler *)

\* A cancel goes through submitted rows.
LEMMA CancelHands ==
    ASSUME NEW t \in Trades, BeginCancel(t) \/ BeginClose(t), UNCHANGED rows
    PROVE  HandsOff'
<1>1. op'.pc = "cancel" /\ op'.t = t /\ op'.todo = Submitted(t)
  BY DEF BeginCancel, BeginClose, Op
<1>. QED  BY <1>1 DEF HandsOff, Submitted, SubmitPcs, MovePcs

\* A move replaces a submitted stop.
LEMMA MoveHands ==
    ASSUME Idle, NEW t \in Trades, NEW px \in Levels, BeginMove(t, px) \/ UNCHANGED op,
           \A s \in Slots : rows[t][s] # "none" => rows'[t][s] # "none"
    PROVE  HandsOff'
<1>1. CASE UNCHANGED op
  BY <1>1, IdleTyped, HandsFree DEF Idle, SubmitPcs, MovePcs
<1>2. ASSUME NEW s \in Stops, Movable(t, s, px),
             op' = [Op("new_stop", "move", t) EXCEPT !.slot = s, !.px = px]
      PROVE  HandsOff'
  <2>1. op'.pc = "new_stop" /\ op'.t = t /\ op'.slot = s
    BY <1>2 DEF Op
  <2>2. s \in Slots /\ rows[t][s] = "submitted"
    BY <1>2, SlotsTyped DEF Movable, IsFirst, ActiveStops, Submitted
  <2>. QED  BY <2>1, <2>2 DEF HandsOff, SubmitPcs
<1>. QED  BY <1>1, <1>2 DEF BeginMove

\* Messages record and mark trades; they place nothing, and a signal that is held
\* is not submitted.
LEMMA MessagesHeld == IInv /\ HeldInv /\ Messages => HeldInv'
<1>. SUFFICES ASSUME IInv, HeldInv, Messages PROVE HeldInv'
  OBVIOUS
<1>0. TypeOK
  BY DEF IInv
<1>1. ASSUME NEW t \in Trades, NEW g \in Gates, Signal(t, g) PROVE HeldInv'
  <2>1. /\ UNCHANGED <<rows, approved, resting>> /\ Idle
        /\ status[t] = "none" /\ status'[t] = "pending" /\ gate'[t] = g
        /\ \A u \in Trades \ {t} : status'[u] = status[u] /\ gate'[u] = gate[u]
    BY <1>0, <1>1 DEF Signal, SetStatus, TypeOK, user, venue
  <2>2. \A u \in Trades : Off(u)' => Off(u)
    BY <2>1 DEF Off
  <2>3. HandsOff'
    <3>1. CASE g = "auto"
      BY <1>1, <2>1, <3>1, SubmitStarts DEF Signal, HandsOff, Off, MovePcs
    <3>2. CASE g # "auto"
      BY <1>1, <3>2, IdleTyped, HandsFree DEF Signal, Idle, SubmitPcs, MovePcs
    <3>. QED  BY <3>1, <3>2
  <2>. QED  BY <2>1, <2>2, <2>3, PlacesNothing
<1>2. ASSUME NEW t \in Trades, NEW k \in {"tp1", "tp2", "tp3"}, TpHit(t, k) PROVE HeldInv'
  <2>1. UNCHANGED <<gate, approved, resting>> /\ Idle /\ Promotes(t)
    BY <1>2 DEF TpHit, user, venue
  <2>2. \A u \in Trades : Off(u)' => Off(u)
    BY <1>0, <2>1, PromotesTyped, OffKept
  <2>3. \A u \in Trades, s \in Slots : rows[u][s] = "none" <=> rows'[u][s] = "none"
    BY <1>0, <1>2 DEF TpHit, TypeOK, Marked
  <2>4. HandsOff'
    BY <1>2, <2>1, <2>3, MoveHands DEF TpHit, Levels
  <2>. QED  BY <2>1, <2>2, <2>3, <2>4, PlacesNothing
<1>3. ASSUME NEW t \in Trades, TradeLive(t) PROVE HeldInv'
  <2>1. UNCHANGED <<gate, op, approved, resting>> /\ Idle /\ Promotes(t)
    BY <1>3 DEF TradeLive, user, venue
  <2>2. \A u \in Trades : Off(u)' => Off(u)
    BY <1>0, <2>1, PromotesTyped, OffKept
  <2>3. \A u \in Trades, s \in Slots : rows[u][s] = "none" => rows'[u][s] = "none"
    BY <1>0, <1>3 DEF TradeLive, TypeOK, Marked
  <2>4. HandsOff'
    BY <2>1, IdleTyped, HandsFree DEF Idle, SubmitPcs, MovePcs
  <2>. QED  BY <2>1, <2>2, <2>3, <2>4, PlacesNothing
<1>4. ASSUME NEW t \in Trades, AllTpHit(t) \/ StopHit(t) PROVE HeldInv'
  <2>1. UNCHANGED <<gate, approved, resting>> /\ CloseWithPnl(t)
    BY <1>4 DEF AllTpHit, StopHit, user, venue
  <2>2. \A u \in Trades : Off(u)' => Off(u)
    BY <1>0, <2>1, OffKept DEF CloseWithPnl, SetStatus, TypeOK
  <2>3. \A u \in Trades, s \in Slots : rows[u][s] = "none" => rows'[u][s] = "none"
    <3>1. CASE AllTpHit(t)
      BY <1>0, <3>1 DEF AllTpHit, TypeOK, Marked
    <3>2. CASE StopHit(t)
      BY <1>0, <3>2 DEF StopHit, TypeOK, Marked, IsFirst, ActiveStops, Submitted
    <3>. QED  BY <1>4, <3>1, <3>2
  <2>4. HandsOff'
    BY <2>1, PnlStarts, HandsFree DEF SubmitPcs, MovePcs
  <2>. QED  BY <2>1, <2>2, <2>3, <2>4, PlacesNothing
<1>5. ASSUME NEW t \in Trades, Breakeven(t) \/ ManualUpdate(t) PROVE HeldInv'
  <2>1. /\ UNCHANGED <<status, gate, rows, approved, resting>> /\ Idle
        /\ BeginMove(t, "entry") \/ BeginMove(t, "update")
    BY <1>5 DEF Breakeven, ManualUpdate, db, user, venue
  <2>2. HandsOff'
    BY <2>1, MoveHands DEF Levels
  <2>. QED  BY <2>1, <2>2, OffKept, PlacesNothing
<1>6. ASSUME NEW t \in Trades, Canceled(t) \/ TradeClosed(t) PROVE HeldInv'
  <2>1. /\ UNCHANGED <<gate, rows, approved, resting>> /\ Idle
        /\ BeginCancel(t) \/ BeginClose(t) \/ UNCHANGED op
    BY <1>6 DEF Canceled, TradeClosed, db, user, venue
  <2>2. \A u \in Trades : Off(u)' => Off(u)
    BY <1>0, <1>6, OffKept DEF Canceled, TradeClosed, SetStatus, TypeOK, db, user
  <2>3. HandsOff'
    BY <2>1, CancelHands, IdleTyped, HandsFree DEF Idle, SubmitPcs, MovePcs
  <2>. QED  BY <2>1, <2>2, <2>3, PlacesNothing
<1>. QED  BY <1>1, <1>2, <1>3, <1>4, <1>5, <1>6 DEF Messages

\* Of the buttons only Approve submits, and it is the approval.
LEMMA ButtonsHeld == IInv /\ HeldInv /\ Buttons => HeldInv'
<1>. SUFFICES ASSUME IInv, HeldInv, Buttons PROVE HeldInv'
  OBVIOUS
<1>0. TypeOK
  BY DEF IInv
<1>1. ASSUME NEW t \in Trades, Approve(t) PROVE HeldInv'
  <2>1. /\ UNCHANGED <<gate, rows, resting>> /\ Idle
        /\ status[t] = "pending" /\ approved \subseteq approved'
    BY <1>1 DEF Approve, venue
  <2>2. \A u \in Trades : status[u] # "none" => status'[u] # "none"
    BY <1>0, <1>1 DEF Approve, SetStatus, TypeOK
  <2>3. \A u \in Trades : Off(u)' => Off(u)
    BY <2>1, <2>2, OffKept
  <2>4. HandsOff'
    <3>1. CASE UNCHANGED op
      BY <2>1, <3>1, IdleTyped, HandsFree DEF Idle, SubmitPcs, MovePcs
    <3>2. CASE BeginSubmit("approve", t) /\ t \in approved' /\ UNCHANGED status
      BY <2>1, <3>2, SubmitStarts DEF HandsOff, Off, MovePcs
    <3>. QED  BY <1>1, <3>1, <3>2 DEF Approve
  <2>. QED  BY <2>1, <2>3, <2>4, PlacesNothing
<1>2. ASSUME NEW t \in Trades, Reject(t) \/ ConfirmClose(t) \/ KillSwitch(t) PROVE HeldInv'
  <2>1. /\ UNCHANGED <<gate, rows, approved, resting>> /\ Idle
        /\ BeginCancel(t) \/ BeginClose(t) \/ UNCHANGED op
    BY <1>2 DEF Reject, ConfirmClose, KillSwitch, db, user, venue
  <2>2. \A u \in Trades : Off(u)' => Off(u)
    BY <1>0, <1>2, OffKept DEF Reject, ConfirmClose, KillSwitch, SetStatus, TypeOK, db, user
  <2>3. HandsOff'
    BY <2>1, CancelHands, IdleTyped, HandsFree DEF Idle, SubmitPcs, MovePcs
  <2>. QED  BY <2>1, <2>2, <2>3, PlacesNothing
<1>3. ASSUME NEW c \in Coins, ConfirmClosePos(c) PROVE HeldInv'
  <2>1. UNCHANGED <<status, gate, rows, op, approved>> /\ Idle /\ resting' \subseteq resting
    BY <1>3 DEF ConfirmClosePos, Reduce, db, user
  <2>2. HandsOff'
    BY <2>1, IdleTyped, HandsFree DEF Idle, SubmitPcs, MovePcs
  <2>. QED  BY <2>1, <2>2, OffKept, PlacesNothing
<1>4. ASSUME Pause PROVE HeldInv'
  <2>1. UNCHANGED <<status, gate, rows, op, approved, resting>> /\ Idle
    BY <1>4 DEF Pause, db, venue
  <2>2. HandsOff'
    BY <2>1, IdleTyped, HandsFree DEF Idle, SubmitPcs, MovePcs
  <2>. QED  BY <2>1, <2>2, OffKept, PlacesNothing
<1>. QED  BY <1>1, <1>2, <1>3, <1>4 DEF Buttons

\* The sweeps and a restart place nothing.
LEMMA SweepsHeld == IInv /\ HeldInv /\ (Sweeps \/ Crash) => HeldInv'
<1>. SUFFICES ASSUME IInv, HeldInv, Sweeps \/ Crash PROVE HeldInv'
  OBVIOUS
<1>0. TypeOK /\ HandsOff
  BY DEF IInv, HeldInv
<1>1. UNCHANGED <<gate, rows, approved, resting>>
  BY DEF Sweeps, SweepStart, SweepNext, Decline, ReconcileTick, Timeout, Crash, db, user, venue
<1>2. \A u \in Trades : status[u] # "none" => status'[u] # "none"
  BY <1>0 DEF Sweeps, SweepStart, SweepNext, Decline, ReconcileTick, Timeout, Crash, SetStatus,
              TypeOK, db
<1>3. UNCHANGED <<op, status>> \/ (Idle /\ UNCHANGED op) \/ BeginSync
  BY DEF Sweeps, SweepStart, SweepNext, Decline, ReconcileTick, Timeout, Crash, db
<1>4. \A u \in Trades : Off(u)' => Off(u)
  BY <1>1, <1>2, OffKept
<1>5. HandsOff'
  <2>1. CASE UNCHANGED <<op, status>>
    BY <1>0, <1>1, <2>1 DEF HandsOff, Off
  <2>2. CASE (Idle /\ UNCHANGED op) \/ BeginSync
    BY <2>2, IdleTyped, SyncStarts, HandsFree DEF Idle, SubmitPcs, MovePcs
  <2>. QED  BY <1>3, <2>1, <2>2
<1>. QED  BY <1>1, <1>4, <1>5, PlacesNothing

\* The venue only takes orders off its book.
LEMMA VenueHeld == HeldInv /\ VenueMoves => HeldInv'
<1>. SUFFICES ASSUME HeldInv, VenueMoves PROVE HeldInv'
  OBVIOUS
<1>1. UNCHANGED <<status, gate, rows, op, approved>>
  BY DEF VenueMoves, EntryFills, EntryDropped, ExitFills, db, user
<1>2. resting' \subseteq resting
  BY DEF VenueMoves, EntryFills, EntryDropped, ExitFills, Reduce
<1>3. HandsOff'
  BY <1>1 DEF HeldInv, HandsOff, Off
<1>. QED  BY <1>1, <1>2, <1>3, OffKept, PlacesNothing

-----------------------------------------------------------------------------
(* The theorem *)

LEMMA InitHeld == Init => HeldInv
  BY IdleTyped DEF Init, HeldInv, HandsOff, Untouched, SubmitPcs, MovePcs

LEMMA NextHeld == IInv /\ HeldInv /\ [Next]_vars => HeldInv'
<1>. SUFFICES ASSUME IInv, HeldInv, [Next]_vars PROVE HeldInv'
  OBVIOUS
<1>1. CASE HandlerStep
  BY <1>1, SubmitHeld, CloseHeld, MoveHeld, OthersHeld DEF HandlerStep
<1>2. CASE UNCHANGED vars
  BY <1>2 DEF vars, db, user, venue, HeldInv, HandsOff, Off, Untouched
<1>. QED  BY <1>1, <1>2, MessagesHeld, ButtonsHeld, SweepsHeld, VenueHeld DEF Next

\* A trade held for the user has no order row and no order on the venue before
\* its Approve button is pressed: no message, sweep, sync, lost answer or restart
\* submits it, places a stop for it or moves one.
THEOREM HeldOffVenue == Spec => []HeldNeverOnVenue
<1>1. HeldInv => HeldNeverOnVenue
  BY DEF HeldInv, HeldNeverOnVenue, Off, Untouched
<1>. QED  BY <1>1, Invariance, InitHeld, NextHeld, PTL DEF Spec

=============================================================================
