----------------------------- MODULE StopProofs -----------------------------
(***************************************************************************)
(* A stop move never takes away the last stop, for every value of the      *)
(* constants; and a position of a live trade has a stop on the venue       *)
(* whenever no handler runs, for every value of the constants that lets    *)
(* the order requests succeed and the process live.                        *)
(*                                                                         *)
(* The second goes by CoverInv, which says where in a handler a position   *)
(* may be without a stop: between the entry and the stop of a submission,  *)
(* and in a cancel, which ends the trade.  It needs that a trade has one   *)
(* entry, sent once: a second would open a position after the stop of the  *)
(* first was used up.                                                      *)
(***************************************************************************)
EXTENDS HeldProofs

\* When the old stop is withdrawn, the venue has accepted its replacement.
Replaced ==
    op.pc = "old_stop" =>
        \E s \in Stops \ {op.slot} : rows[op.t][s] \in {"submitted", "filled"}

-----------------------------------------------------------------------------

\* The replacement is a row of its own.
LEMMA NewStopIsOther ==
    ASSUME IInv, HeldInv, NEW s \in Stops, PlaceNewStop(s)
    PROVE  /\ op \in Ops /\ op.pc = "new_stop" /\ op.t \in Trades /\ s \in Slots
           /\ s # op.slot
<1>1. op \in Ops /\ op.pc = "new_stop" /\ op.t \in Trades
  BY DEF IInv, TypeOK, HandlerOwnsTrade, SyncPcs, PlaceNewStop
<1>2. rows[op.t][op.slot] # "none" /\ rows[op.t][s] = "none"
  BY <1>1 DEF HeldInv, HandsOff, MovePcs, PlaceNewStop, IsFirst, FreeStops
<1>. QED  BY <1>1, <1>2, SlotsTyped

\* The row of an order that rests, or triggered at once.
IsAccepted(s) == SetRow(op.t, s, "submitted") \/ SetRow(op.t, s, "filled")

\* Only an accepted replacement leads to the withdrawal of the old stop.
LEMMA WithdrawalFollows ==
    ASSUME IInv, HeldInv, [Next]_vars, op'.pc = "old_stop"
    PROVE  \/ UNCHANGED <<op, rows>>
           \/ \E s \in Stops : PlaceNewStop(s) /\ Goto("old_stop") /\ IsAccepted(s)
<1>0. TypeOK /\ HandlerOwnsTrade
  BY DEF IInv
<1>1. CASE Submit
  <2>1. op \in Ops
    BY <1>0 DEF TypeOK
  <2>2. ASSUME SetLeverage PROVE FALSE
    <3>1. op'.pc \in {"place_entry", "raised"}
      BY <2>1, <2>2, GoOn, RaiseTyped DEF SetLeverage, Pcs, SubmitPcs
    <3>. QED  BY <3>1
  <2>3. ASSUME EntryAnswerLost, op.pc = "place_entry" PROVE FALSE
    <3>1. CASE op' = [op EXCEPT !.tries = @ + 1]
      BY <2>1, <2>3, <3>1 DEF Ops
    <3>2. CASE Raise(FALSE)
      BY <2>1, <3>2, RaiseTyped
    <3>. QED  BY <2>3, <3>1, <3>2 DEF EntryAnswerLost
  <2>4. ASSUME EntryRejected PROVE FALSE
    BY <2>1, <2>4, RaiseTyped DEF EntryRejected
  <2>5. ASSUME PlaceRest PROVE FALSE
    BY <2>1, <2>5 DEF PlaceRest, Ops
  <2>6. ASSUME NEW s \in op.todo, PlaceOrder(s) PROVE FALSE
    BY <2>1, <2>6, RaiseTyped DEF PlaceOrder, Ops
  <2>7. ASSUME SubmitDone PROVE FALSE
    BY <2>7, IdleTyped DEF SubmitDone, Finish
  <2>. QED
    BY <1>1, <2>2, <2>3, <2>4, <2>5, <2>6, <2>7
    DEF Submit, PlaceEntry, EntryRests, EntryFillsAtOnce, EntryUnnamed
<1>2. CASE Close
  <2>1. op \in Ops
    BY <1>0 DEF TypeOK
  <2>2. ASSUME NEW s \in op.todo, CancelOrder(s) PROVE FALSE
    BY <2>1, <2>2 DEF CancelOrder, Ops
  <2>3. ASSUME Goto("positions") \/ Goto("ioc") \/ Finish \/ Raise(TRUE) \/ Raise(FALSE)
        PROVE  FALSE
    <3>1. op'.pc \in {"positions", "ioc", "idle", "raised"}
      BY <2>1, <2>3, GoOn, RaiseTyped, IdleTyped DEF Finish, Pcs, CancelPcs
    <3>. QED  BY <3>1
  <2>. QED  BY <1>2, <2>2, <2>3 DEF Close, CancelDone, ReadPosition, MarketClose
<1>3. CASE CancelOldStop
  BY <1>3, IdleTyped DEF CancelOldStop, Finish
<1>4. ASSUME NEW s \in Stops, PlaceNewStop(s) PROVE Goto("old_stop") /\ IsAccepted(s)
  <2>1. CASE Finish \/ Raise(FALSE)
    BY <1>0, <2>1, IdleTyped, RaiseTyped DEF Finish, TypeOK
  <2>. QED  BY <1>4, <2>1 DEF PlaceNewStop, Rests, TriggersAtOnce, IsAccepted
<1>5. CASE Sync \/ ApplyPnl \/ HandleRaised
  BY <1>0, <1>5, IdleTyped
  DEF Sync, ReadPositions, ReadOrders, ReadOrdersFails, ApplyPnl, HandleRaised, Finish, TypeOK, Ops
<1>6. CASE Messages
  <2>1. ASSUME NEW t \in Trades, BeginCancel(t) \/ BeginClose(t) PROVE FALSE
    BY <2>1, CancelStarts
  <2>2. ASSUME NEW t \in Trades, Idle, BeginMove(t, "entry") \/ BeginMove(t, "update") PROVE FALSE
    BY <2>2, MoveStarts DEF Levels
  <2>3. ASSUME NEW t \in Trades, CloseWithPnl(t) \/ BeginSubmit("signal", t) PROVE FALSE
    BY <2>3, PnlStarts, SubmitStarts
  <2>4. CASE Idle /\ UNCHANGED op
    BY <2>4, IdleTyped DEF Idle
  <2>. QED
    BY <1>6, <2>1, <2>2, <2>3, <2>4
    DEF Messages, Signal, TpHit, TradeLive, AllTpHit, StopHit, Breakeven, ManualUpdate, Canceled,
        TradeClosed
<1>7. CASE Buttons
  <2>1. ASSUME NEW t \in Trades, BeginCancel(t) \/ BeginClose(t) PROVE FALSE
    BY <2>1, CancelStarts
  <2>2. ASSUME NEW t \in Trades, BeginSubmit("approve", t) PROVE FALSE
    BY <2>2, SubmitStarts
  <2>3. CASE Idle /\ UNCHANGED op
    BY <2>3, IdleTyped DEF Idle
  <2>. QED
    BY <1>7, <2>1, <2>2, <2>3
    DEF Buttons, Approve, Reject, ConfirmClose, KillSwitch, ConfirmClosePos, Pause, db
<1>8. CASE Sweeps \/ Crash
  BY <1>8, IdleTyped, SyncStarts
  DEF Sweeps, SweepStart, SweepNext, Decline, ReconcileTick, Timeout, Crash, Idle, db
<1>9. CASE VenueMoves
  BY <1>9 DEF VenueMoves, EntryFills, EntryDropped, ExitFills, db
<1>10. CASE UNCHANGED vars
  BY <1>10 DEF vars, db
<1>. QED
  BY <1>1, <1>2, <1>3, <1>4, <1>5, <1>6, <1>7, <1>8, <1>9, <1>10
  DEF Next, HandlerStep, MoveStop

LEMMA NextReplaced == IInv /\ HeldInv /\ Replaced /\ [Next]_vars => Replaced'
<1>. SUFFICES ASSUME IInv, HeldInv, Replaced, [Next]_vars, op'.pc = "old_stop" PROVE Replaced'
  BY DEF Replaced
<1>1. CASE UNCHANGED <<op, rows>>
  BY <1>1 DEF Replaced
<1>2. ASSUME NEW s \in Stops, PlaceNewStop(s), Goto("old_stop"), IsAccepted(s)
      PROVE  Replaced'
  <2>1. op \in Ops /\ op.t \in Trades /\ s \in Slots /\ s # op.slot
    BY <1>2, NewStopIsOther
  <2>2. op'.t = op.t /\ op'.slot = op.slot
    BY <1>2, <2>1 DEF Goto, Ops
  <2>3. rows'[op.t][s] \in {"submitted", "filled"}
    BY <1>2, <2>1, RowOf DEF IInv, OrderStatus, IsAccepted
  <2>. QED  BY <2>1, <2>2, <2>3 DEF Replaced
<1>. QED  BY <1>1, <1>2, WithdrawalFollows

\* The steps of a handler that is moving a stop: its own, or the end of the
\* process.
LEMMA MoveSteps ==
    ASSUME IInv, [Next]_vars, op.pc \in MovePcs, op' # op
    PROVE  MoveStop \/ UNCHANGED resting
<1>1. ~Idle
  BY IdleTyped DEF Idle, MovePcs
<1>2. ~Submit /\ ~Close /\ ~Sync /\ ~ApplyPnl /\ ~HandleRaised
  BY DEF MovePcs, Submit, SetLeverage, PlaceEntry, SubmitDone, PlaceOrder, Close, CancelDone,
         ReadPosition, MarketClose, CancelOrder, Sync, ReadPositions, ReadOrders, ReadOrdersFails,
         ApplyPnl, HandleRaised
<1>3. ~Messages
  BY <1>1 DEF Messages, Signal, TpHit, TradeLive, AllTpHit, StopHit, Breakeven, ManualUpdate,
              Canceled, TradeClosed
<1>4. ~Buttons
  BY <1>1 DEF Buttons, Approve, Reject, ConfirmClose, KillSwitch, ConfirmClosePos, Pause
<1>5. ~VenueMoves
  BY DEF VenueMoves, EntryFills, EntryDropped, ExitFills
<1>6. CASE Sweeps \/ Crash
  BY <1>6 DEF Sweeps, SweepStart, SweepNext, Decline, ReconcileTick, Timeout, Crash, venue
<1>. QED  BY <1>2, <1>3, <1>4, <1>5, <1>6 DEF Next, HandlerStep, vars

\* A step of a move keeps a stop on the venue, or one the venue has accepted.
LEMMA MoveKeepsStop ==
    ASSUME IInv, HeldInv, Replaced, [Next]_vars,
           NEW t \in Trades, op.pc \in MovePcs, op.t = t, op' # op, Protected(t)
    PROVE  Protected(t)' \/ StopAccepted(t)'
<1>0. TypeOK /\ op.slot \in Slots
  BY DEF IInv, TypeOK, Ops
<1>1. CASE UNCHANGED resting
  BY <1>1 DEF Protected
<1>2. CASE CancelOldStop
  <2>1. PICK s \in Stops \ {op.slot} : rows[t][s] \in {"submitted", "filled"}
    BY <1>2 DEF CancelOldStop, Replaced
  <2>2. op.t \in Trades /\ Withdraw(op.slot)
    BY <1>2 DEF CancelOldStop
  <2>3. rows'[t][s] = rows[t][s]
    BY <1>0, <2>1, <2>2, WithdrawOf, SlotsTyped
  <2>. QED  BY <2>1, <2>3 DEF StopAccepted
<1>3. ASSUME NEW s \in Stops, PlaceNewStop(s) PROVE Protected(t)' \/ StopAccepted(t)'
  <2>1. CASE TriggersAtOnce(s)
    <3>1. rows'[t][s] = "filled"
      BY <1>0, <2>1, RowOf, SlotsTyped DEF TriggersAtOnce, OrderStatus
    <3>. QED  BY <3>1 DEF StopAccepted
  <2>2. CASE Rests(s) \/ IsRefused(s) \/ Unanswered(s)
    <3>1. resting \subseteq resting'
      BY <2>2 DEF Rests, IsRefused, Unanswered, venue
    <3>. QED  BY <3>1 DEF Protected
  <2>. QED  BY <1>3, <2>1, <2>2 DEF PlaceNewStop
<1>. QED  BY <1>1, <1>2, <1>3, MoveSteps DEF MoveStop

-----------------------------------------------------------------------------

\* A stop move never takes away the last stop of a trade: however the requests
\* end and whenever the process dies, a stop rests on the venue afterwards, or
\* one the venue had accepted was consumed by the venue.
THEOREM StopKept == Spec => StopKeptDuringMove
<1>1. Init => Replaced
  BY IdleTyped DEF Init, Replaced
<1>2. IInv /\ HeldInv /\ Replaced /\ [Next]_vars =>
        [\A t \in Trades :
            op.pc \in MovePcs /\ op.t = t /\ op' # op /\ Protected(t)
                => Protected(t)' \/ StopAccepted(t)']_vars
  BY MoveKeepsStop
<1>. QED
  BY <1>1, <1>2, Invariance, InitHeld, NextHeld, NextReplaced, PTL DEF Spec, StopKeptDuringMove

-----------------------------------------------------------------------------
(* The stop of a live position *)

\* No order request is refused, lost or answered without a name, and the process
\* lives.  A request that only reads may still fail, the venue may drop an entry
\* and keep the reduce-only orders of a flat position, the user may pause.
NothingFails == ~Refusal /\ ~Transport /\ ~Unnamed /\ "crash" \notin Faults

\* "ghost" is no row, and the slots of the orders are apart.
LEMMA SlotsApart ==
    /\ "ghost" \notin Slots /\ "entry" \notin Stops \cup TPs
    /\ \A s \in Slots : s \in Entries <=> s = "entry"
    /\ \A s \in TPs : s \notin Stops
BY SlotsAssumption DEF SlotsAssumption, Slots, Entries

LEMMA FreshCover == Init => CoverInv
<1>. SUFFICES ASSUME Init PROVE CoverInv
  OBVIOUS
<1>1. op.pc = "idle"
  BY IdleTyped DEF Init
<1>2. \A t \in Trades : pos[CoinOf[t]] = 0 /\ CoinOf[t] \in Coins
  BY CoinOfAssumption DEF Init, CoinOfAssumption
<1>3. ASSUME NEW t \in Trades PROVE OneEntry(t) /\ Covers(t)
  BY <1>2, SizeAssumption, SlotsTyped
  DEF Init, OneEntry, Covers, Unsent, Backed, HasPosition, SizeAssumption, Live
<1>. QED  BY <1>1, <1>3 DEF CoverInv, SubmitKnows

-----------------------------------------------------------------------------
(* What a step must be shown to do for one trade *)

\* No entry of the trade is added, no position grows; other orders and rows come
\* only after the entry.
LEMMA OneEntryKept ==
    ASSUME TypeOK, TypeOK', NEW t \in Trades, OneEntry(t),
           pos'[CoinOf[t]] <= pos[CoinOf[t]],
           \A s \in Slots \cup Entries : <<t, s>> \in resting' =>
               <<t, s>> \in resting \/ (s \notin Entries /\ ~EntryAhead(t)),
           \A s \in Slots \ {"entry"} : rows[t][s] = "none" => rows'[t][s] = "none" \/ ~EntryAhead(t),
           EntryAhead(t)' => EntryAhead(t)
    PROVE  OneEntry(t)'
<1>1. pos[CoinOf[t]] \in Nat /\ pos'[CoinOf[t]] \in Nat /\ EntrySize \in Nat
  BY CoinOfAssumption, SizeAssumption DEF TypeOK, CoinOfAssumption, SizeAssumption
<1>2. "ghost" \in Entries /\ "entry" \in Entries
  BY DEF Entries
<1>3. Unsent(t) /\ EntryAhead(t) => Unsent(t)'
  BY <1>1 DEF Unsent, HasPosition
<1>4. HasPosition(CoinOf[t])' => HasPosition(CoinOf[t])
  BY <1>1 DEF HasPosition
<1>. QED  BY <1>1, <1>2, <1>3, <1>4 DEF OneEntry

\* A trade does not begin to be live with something on the venue, no stop goes,
\* and the handler is as far.
LEMMA CoversKept ==
    ASSUME NEW t, Covers(t),
           status'[t] \in Live /\ Backed(t)' => status[t] \in Live /\ Backed(t),
           \A s \in Stops : <<t, s>> \in resting => <<t, s>> \in resting',
           status'[t] \in Live /\ StopAhead(t) => StopAhead(t)',
           status'[t] \in Live /\ Withdrawing(t) => Withdrawing(t)',
           Replacing(t)' => Replacing(t) /\ op'.slot = op.slot
    PROVE  Covers(t)'
<1>. SUFFICES ASSUME status'[t] \in Live, Backed(t)', ~StopAhead(t)', ~Withdrawing(t)'
             PROVE  /\ Protected(t)'
                    /\ Replacing(t)' => \E s \in Stops \ {op'.slot} : <<t, s>> \in resting'
  BY DEF Covers
<1>0. status[t] \in Live /\ Backed(t) /\ ~StopAhead(t) /\ ~Withdrawing(t)
  OBVIOUS
<1>1. Protected(t) /\ (Replacing(t) => \E s \in Stops \ {op.slot} : <<t, s>> \in resting)
  BY <1>0 DEF Covers
<1>2. Protected(t)'
  BY <1>1 DEF Protected
<1>3. ASSUME Replacing(t)' PROVE \E s \in Stops \ {op'.slot} : <<t, s>> \in resting'
  <2>1. PICK s \in Stops \ {op.slot} : <<t, s>> \in resting
    BY <1>1, <1>3
  <2>. QED  BY <1>3, <2>1
<1>. QED  BY <1>2, <1>3

\* A step of no consequence for the trade.
LEMMA NoConcern ==
    ASSUME TypeOK, TypeOK', NEW t \in Trades, OneEntry(t), Covers(t),
           pos'[CoinOf[t]] = pos[CoinOf[t]],
           \A s \in Slots \cup Entries : <<t, s>> \in resting' <=> <<t, s>> \in resting,
           \A s \in Slots \ {"entry"} : rows[t][s] = "none" => rows'[t][s] = "none",
           EntryAhead(t)' => EntryAhead(t),
           status'[t] \in Live => status[t] \in Live \/ EntryAhead(t),
           status'[t] \in Live /\ StopAhead(t) => StopAhead(t)',
           status'[t] \in Live /\ Withdrawing(t) => Withdrawing(t)',
           Replacing(t)' => Replacing(t) /\ op'.slot = op.slot
    PROVE  (OneEntry(t) /\ Covers(t))'
<1>1. pos[CoinOf[t]] \in Nat
  BY CoinOfAssumption DEF TypeOK, CoinOfAssumption
<1>2. OneEntry(t)'
  BY <1>1, OneEntryKept
<1>3. Backed(t)' <=> Backed(t)
  BY SlotsTyped DEF Backed, HasPosition
<1>4. EntryAhead(t) => ~Backed(t)
  BY SlotsTyped DEF OneEntry, Unsent, Backed
<1>5. \A s \in Stops : <<t, s>> \in resting => <<t, s>> \in resting'
  BY SlotsTyped
<1>6. status'[t] \in Live /\ Backed(t)' => status[t] \in Live /\ Backed(t)
  BY <1>3, <1>4
<1>7. Covers(t)'
  BY <1>5, <1>6, CoversKept
<1>. QED  BY <1>2, <1>7

\* A step between two calls: it starts a handler, ends one that places and cancels
\* nothing, or marks the rows that exist.
LEMMA QuietStep ==
    ASSUME IInv, HeldInv, TypeOK', NEW t \in Trades, OneEntry(t), Covers(t), UNCHANGED venue,
           op.pc \notin {"place_orders", "cancel"}, op'.pc \notin {"place_entry", "old_stop"},
           \A s \in Slots : rows[t][s] = "none" <=> rows'[t][s] = "none",
           status'[t] \in Live => status[t] \in Live \cup {"none"}
    PROVE  (OneEntry(t) /\ Covers(t))'
<1>1. TypeOK /\ UNCHANGED <<resting, pos>>
  BY DEF IInv, venue
<1>2. status[t] = "none" => EntryAhead(t)
  BY SlotsTyped DEF HeldInv, Off, Untouched, EntryAhead
<1>3. ~StopAhead(t) /\ ~Withdrawing(t) /\ ~Replacing(t)'
  BY DEF StopAhead, Withdrawing, Replacing
<1>4. EntryAhead(t)' => EntryAhead(t)
  BY SlotsTyped DEF EntryAhead
<1>. QED  BY <1>1, <1>2, <1>3, <1>4, NoConcern

\* What the handler of another trade, on another coin, does.
LEMMA Elsewhere ==
    ASSUME TypeOK, TypeOK', NEW t \in Trades, OneEntry(t), Covers(t),
           pos'[CoinOf[t]] = pos[CoinOf[t]],
           \A s \in Slots \cup Entries : <<t, s>> \in resting' <=> <<t, s>> \in resting,
           rows'[t] = rows[t], status'[t] = status[t], op.t # t, op'.t # t
    PROVE  (OneEntry(t) /\ Covers(t))'
BY NoConcern DEF EntryAhead, StopAhead, Withdrawing, Replacing

\* A reduced position does not grow, and orders only go.
LEMMA ReduceShrinks ==
    ASSUME TypeOK, NEW c \in Coins, NEW n \in Nat, NEW book, Reduce(c, n, book)
    PROVE  /\ pos'[c] <= pos[c] /\ resting' \subseteq book
           /\ \A d \in Coins \ {c} : pos'[d] = pos[d]
           /\ pos[c] <= n => pos'[c] = 0
           /\ pos[c] > n => resting' = book
           /\ \A o \in book : CoinOf[o[1]] # c => o \in resting'
<1>1. pos[c] \in Nat /\ pos'[c] = IF pos[c] > n THEN pos[c] - n ELSE 0
  BY DEF TypeOK, Reduce
<1>2. pos'[c] <= pos[c] /\ (pos[c] <= n => pos'[c] = 0)
  BY <1>1
<1>3. pos[c] > n => resting' = book
  BY <1>1 DEF Reduce
<1>4. \A d \in Coins \ {c} : pos'[d] = pos[d]
  BY DEF TypeOK, Reduce
<1>5. resting' \subseteq book /\ \A o \in book : CoinOf[o[1]] # c => o \in resting'
  BY DEF Reduce, ReduceOnly
<1>. QED  BY <1>2, <1>3, <1>4, <1>5

\* An order of another trade triggers at once.
LEMMA TriggersElsewhere ==
    ASSUME TypeOK, NEW t \in Trades, Alone(t), op.t \in Trades, op.t # t,
           NEW s \in Slots, TriggersAtOnce(s)
    PROVE  /\ pos'[CoinOf[t]] = pos[CoinOf[t]]
           /\ \A r \in Slots \cup Entries : <<t, r>> \in resting' <=> <<t, r>> \in resting
<1>1. CoinOf[op.t] \in Coins /\ CoinOf[t] \in Coins /\ CoinOf[op.t] # CoinOf[t]
  BY CoinOfAssumption DEF CoinOfAssumption, Alone
<1>2. PICK n \in Nat : Reduce(CoinOf[op.t], n, resting)
  BY SizeAssumption DEF TriggersAtOnce, SizeAssumption
<1>3. /\ pos'[CoinOf[t]] = pos[CoinOf[t]] /\ resting' \subseteq resting
      /\ \A o \in resting : CoinOf[o[1]] # CoinOf[op.t] => o \in resting'
  BY <1>1, <1>2, ReduceShrinks
<1>. QED  BY <1>1, <1>3

\* An order of the trade itself triggers at once: a stop takes the whole position
\* away, and what a take-profit leaves keeps its orders.
LEMMA TriggersHere ==
    ASSUME TypeOK, TypeOK', op.t \in Trades, OneEntry(op.t), NEW s \in Slots, TriggersAtOnce(s),
           ~EntryAhead(op.t), op'.t = op.t, op'.pc # "place_entry", s # "entry"
    PROVE  /\ OneEntry(op.t)' /\ Backed(op.t)
           /\ Backed(op.t)' => s \notin Stops /\ resting' = resting
<1> DEFINE t == op.t
           n == IF s \in TPs THEN 1 ELSE EntrySize
<1>1. CoinOf[t] \in Coins /\ pos[CoinOf[t]] \in Nat /\ n \in Nat /\ EntrySize \in Nat
  BY CoinOfAssumption, SizeAssumption DEF CoinOfAssumption, SizeAssumption, TypeOK
<1>2. HasPosition(CoinOf[t]) /\ Reduce(CoinOf[t], n, resting) /\ SetRow(t, s, "filled")
  BY DEF TriggersAtOnce
<1>3. /\ pos'[CoinOf[t]] <= pos[CoinOf[t]] /\ resting' \subseteq resting
      /\ pos[CoinOf[t]] <= n => pos'[CoinOf[t]] = 0
      /\ pos[CoinOf[t]] > n => resting' = resting
  BY <1>1, <1>2, ReduceShrinks
<1>4. \A r \in Slots \ {s} : rows'[t][r] = rows[t][r]
  BY <1>2, RowOf DEF OrderStatus
<1>5. ~EntryAhead(t)'
  BY <1>4, SlotsTyped DEF EntryAhead
<1>6. OneEntry(t)'
  BY <1>3, <1>4, <1>5, OneEntryKept
<1>7. pos[CoinOf[t]] <= n => ~Backed(t)'
  BY <1>2, <1>3 DEF Backed, HasPosition, OneEntry
<1>8. s \in Stops => pos[CoinOf[t]] <= n
  BY <1>1, SlotsApart DEF OneEntry
<1>. QED  BY <1>1, <1>2, <1>3, <1>6, <1>7, <1>8 DEF Backed

\* The position of another coin is reduced.
LEMMA ReducedElsewhere ==
    ASSUME TypeOK, TypeOK', NEW t \in Trades, OneEntry(t), Covers(t),
           NEW c \in Coins \ {CoinOf[t]}, NEW n \in Nat, NEW book, Reduce(c, n, book),
           book \subseteq resting,
           \A s \in Slots \cup Entries : <<t, s>> \in resting => <<t, s>> \in book,
           UNCHANGED <<status, rows, op>>
    PROVE  (OneEntry(t) /\ Covers(t))'
<1>1. pos'[CoinOf[t]] = pos[CoinOf[t]] /\ resting' \subseteq resting
  BY ReduceShrinks, CoinOfAssumption DEF CoinOfAssumption
<1>2. ASSUME NEW s \in Slots \cup Entries, <<t, s>> \in resting PROVE <<t, s>> \in resting'
  <2>1. <<t, s>> \in book /\ CoinOf[<<t, s>>[1]] # c
    BY <1>2
  <2>. QED  BY <2>1, ReduceShrinks
<1>3. \A s \in Slots \cup Entries : <<t, s>> \in resting' <=> <<t, s>> \in resting
  BY <1>1, <1>2
<1>. QED
  BY <1>1, <1>3, NoConcern DEF EntryAhead, StopAhead, Withdrawing, Replacing

\* The position of the trade's own coin is reduced: what is left of it keeps its
\* stop.
LEMMA ReducedHere ==
    ASSUME TypeOK, TypeOK', NEW t \in Trades, OneEntry(t), Covers(t), HasPosition(CoinOf[t]),
           NEW n \in Nat, NEW book, Reduce(CoinOf[t], n, book), book \subseteq resting,
           pos[CoinOf[t]] > n => \A s \in Stops : <<t, s>> \in resting => <<t, s>> \in book,
           UNCHANGED <<status, rows, op>>
    PROVE  (OneEntry(t) /\ Covers(t))'
<1>1. CoinOf[t] \in Coins /\ pos[CoinOf[t]] \in Nat
  BY CoinOfAssumption DEF TypeOK, CoinOfAssumption
<1>2. /\ pos'[CoinOf[t]] <= pos[CoinOf[t]] /\ resting' \subseteq resting
      /\ pos[CoinOf[t]] <= n => pos'[CoinOf[t]] = 0
      /\ pos[CoinOf[t]] > n => resting' = book
  BY <1>1, ReduceShrinks
<1>3. OneEntry(t)'
  BY <1>2, OneEntryKept DEF EntryAhead
<1>4. CASE pos[CoinOf[t]] <= n
  <2>1. <<t, "entry">> \notin resting' /\ ~HasPosition(CoinOf[t])'
    BY <1>2, <1>4 DEF OneEntry, HasPosition
  <2>. QED  BY <1>3, <2>1 DEF Covers, Backed
<1>5. CASE pos[CoinOf[t]] > n
  <2>1. \A s \in Stops : <<t, s>> \in resting => <<t, s>> \in resting'
    BY <1>2, <1>5
  <2>2. status'[t] \in Live /\ Backed(t)' => status[t] \in Live /\ Backed(t)
    BY DEF Backed
  <2>3. Covers(t)'
    BY <2>1, <2>2, CoversKept DEF StopAhead, Withdrawing, Replacing
  <2>. QED  BY <1>3, <2>3
<1>. QED  BY <1>1, <1>4, <1>5

-----------------------------------------------------------------------------
(* The venue *)

LEMMA VenueCovers ==
    ASSUME IInv, TypeOK', NEW t \in Trades, Alone(t), OneEntry(t), Covers(t), VenueMoves
    PROVE  (OneEntry(t) /\ Covers(t))'
<1>0. /\ TypeOK /\ UNCHANGED <<status, rows, op>> /\ CoinOf[t] \in Coins
      /\ pos[CoinOf[t]] \in Nat /\ EntrySize \in Nat
  BY CoinOfAssumption, SizeAssumption
  DEF IInv, VenueMoves, EntryFills, EntryDropped, ExitFills, db, TypeOK, CoinOfAssumption,
      SizeAssumption
<1>1. \A u \in Trades \ {t} : CoinOf[u] \in Coins \ {CoinOf[t]}
  BY CoinOfAssumption DEF Alone, CoinOfAssumption
<1>2. ASSUME NEW u \in Trades \ {t}, NEW e \in Entries, EntryFills(u, e) \/ EntryDropped(u, e)
      PROVE  (OneEntry(t) /\ Covers(t))'
  <2>1. pos'[CoinOf[t]] = pos[CoinOf[t]] /\ resting' = resting \ {<<u, e>>}
    BY <1>0, <1>1, <1>2 DEF EntryFills, EntryDropped, TypeOK
  <2>2. \A s \in Slots \cup Entries : <<t, s>> \in resting' <=> <<t, s>> \in resting
    BY <2>1
  <2>. QED
    BY <1>0, <2>1, <2>2, NoConcern DEF EntryAhead, StopAhead, Withdrawing, Replacing
<1>3. ASSUME NEW u \in Trades \ {t}, NEW s \in Stops \cup TPs, ExitFills(u, s)
      PROVE  (OneEntry(t) /\ Covers(t))'
  <2>1. PICK n \in Nat : Reduce(CoinOf[u], n, resting \ {<<u, s>>})
    BY <1>0, <1>3 DEF ExitFills
  <2>. QED  BY <1>0, <1>1, <2>1, ReducedElsewhere
<1>4. ASSUME NEW e \in Entries, EntryFills(t, e) PROVE (OneEntry(t) /\ Covers(t))'
  <2>1. e = "entry" /\ <<t, "entry">> \in resting /\ resting' = resting \ {<<t, "entry">>}
    BY <1>4 DEF EntryFills, Entries, OneEntry
  <2>2. pos[CoinOf[t]] = 0 /\ ~EntryAhead(t)
    BY <1>0, <2>1, SlotsTyped DEF OneEntry, HasPosition, Unsent
  <2>3. pos'[CoinOf[t]] = EntrySize
    BY <1>0, <1>4, <2>2 DEF EntryFills, TypeOK
  <2>4. OneEntry(t)'
    BY <1>0, <2>1, <2>2, <2>3 DEF OneEntry, EntryAhead
  <2>5. Backed(t) /\ \A s \in Stops : <<t, s>> \in resting => <<t, s>> \in resting'
    BY <2>1, SlotsApart DEF Backed
  <2>6. Covers(t)'
    BY <1>0, <2>5, CoversKept DEF StopAhead, Withdrawing, Replacing
  <2>. QED  BY <2>4, <2>6
<1>5. ASSUME NEW e \in Entries, EntryDropped(t, e) PROVE (OneEntry(t) /\ Covers(t))'
  <2>1. resting' = resting \ {<<t, e>>} /\ pos' = pos
    BY <1>5 DEF EntryDropped
  <2>2. OneEntry(t)'
    BY <1>0, <2>1, OneEntryKept DEF EntryAhead
  <2>3. \A s \in Stops : <<t, s>> \in resting => <<t, s>> \in resting'
    BY <2>1, SlotsApart, SlotsTyped DEF Entries
  <2>4. Backed(t)' => Backed(t)
    BY <2>1 DEF Backed, HasPosition
  <2>5. Covers(t)'
    BY <1>0, <2>3, <2>4, CoversKept DEF StopAhead, Withdrawing, Replacing
  <2>. QED  BY <2>2, <2>5
<1>6. ASSUME NEW s \in Stops \cup TPs, ExitFills(t, s) PROVE (OneEntry(t) /\ Covers(t))'
  <2>1. PICK n \in Nat : /\ Reduce(CoinOf[t], n, resting \ {<<t, s>>})
                         /\ s \in Stops => n = EntrySize
    BY <1>0, <1>6, SlotsApart DEF ExitFills
  <2>2. pos[CoinOf[t]] > n => s \notin Stops
    BY <1>0, <2>1 DEF OneEntry
  <2>3. HasPosition(CoinOf[t])
    BY <1>6 DEF ExitFills
  <2>. QED  BY <1>0, <2>1, <2>2, <2>3, ReducedHere
<1>. QED  BY <1>2, <1>3, <1>4, <1>5, <1>6 DEF VenueMoves

-----------------------------------------------------------------------------
(* The handlers that place, cancel and move *)

\* A submission places the entry, then the stop, then the take-profits; while the
\* stop is ahead, the trade is on its way to be covered.
LEMMA SubmitCovers ==
    ASSUME IInv, SubmitKnows, NothingFails, TypeOK', NEW t \in Trades, OneEntry(t), Covers(t),
           Alone(t), Submit
    PROVE  (OneEntry(t) /\ Covers(t))'
<1>0. TypeOK /\ HandlerOwnsTrade /\ op \in Ops
  BY DEF IInv, TypeOK
<1>1. ASSUME SetLeverage PROVE (OneEntry(t) /\ Covers(t))'
  <2>1. op.pc = "leverage" /\ op.t \in Trades /\ UNCHANGED <<status, venue>>
        /\ Goto("place_entry") /\ SetRow(op.t, "entry", "pending")
    BY <1>0, <1>1 DEF SetLeverage, HandlerOwnsTrade, SyncPcs, NothingFails
  <2>2. op'.pc = "place_entry" /\ op'.t = op.t
    BY <1>0, <2>1, GoOn DEF Pcs, SubmitPcs
  <2>3. /\ \A u \in Trades \ {op.t} : rows'[u] = rows[u]
        /\ \A s \in Slots \ {"entry"} : rows'[op.t][s] = rows[op.t][s]
    BY <1>0, <2>1, RowOf, SlotsTyped DEF OrderStatus
  <2>4. CASE op.t = t
    <3>1. EntryAhead(t)
      BY <2>1, <2>4 DEF SubmitKnows, EntryAhead
    <3>2. ~StopAhead(t) /\ ~Withdrawing(t) /\ ~Replacing(t)'
      BY <2>1, <2>2 DEF StopAhead, Withdrawing, Replacing
    <3>. QED  BY <1>0, <2>1, <2>3, <2>4, <3>1, <3>2, NoConcern DEF venue
  <2>5. CASE op.t # t
    BY <1>0, <2>1, <2>2, <2>3, <2>5, Elsewhere DEF venue
  <2>. QED  BY <2>4, <2>5
<1>2. ASSUME PlaceEntry PROVE (OneEntry(t) /\ Covers(t))'
  <2>1. op.pc = "place_entry" /\ op.t \in Trades /\ CoinOf[op.t] \in Coins /\ CoinOf[t] \in Coins
        /\ PlaceRest /\ (EntryRests \/ EntryFillsAtOnce)
    BY <1>0, <1>2, CoinOfAssumption
    DEF PlaceEntry, EntryRejected, EntryRests, EntryFillsAtOnce, EntryUnnamed, EntryAnswerLost,
        HandlerOwnsTrade, SyncPcs, NothingFails, CoinOfAssumption
  <2>2. op'.pc = "place_orders" /\ op'.t = op.t /\ op'.todo = {"sl1"} \cup TPs
    BY <1>0, <2>1 DEF PlaceRest, Ops
  <2>3. /\ \A u \in Trades \ {op.t} : rows'[u] = rows[u]
        /\ rows'[op.t]["entry"] # "none"
        /\ \A s \in Slots \ {"entry"} : rows'[op.t][s] = rows[op.t][s]
    <3>1. PICK st \in {"submitted", "filled"} : SetRow(op.t, "entry", st)
      BY <2>1 DEF EntryRests, EntryFillsAtOnce
    <3>. QED  BY <1>0, <2>1, <3>1, RowOf, SlotsTyped DEF OrderStatus
  <2>4. CASE op.t = t
    <3>1. Unsent(t) /\ EntrySize \in Nat \ {0} /\ pos[CoinOf[t]] \in Nat
      BY <1>0, <2>1, <2>4, SizeAssumption DEF OneEntry, EntryAhead, SizeAssumption, TypeOK
    <3>2. pos[CoinOf[t]] = 0 /\ "entry" \in Slots /\ "ghost" \in Entries
          /\ <<t, "ghost">> \notin resting /\ <<t, "entry">> \notin resting
      BY <3>1, SlotsTyped DEF Unsent, HasPosition, Entries
    <3>3. ~EntryAhead(t)' /\ StopAhead(t)'
      BY <2>2, <2>3, <2>4 DEF EntryAhead, StopAhead
    <3>4. CASE EntryRests
      <4>1. pos' = pos /\ resting' = resting \cup {<<t, "entry">>}
        BY <2>4, <3>4 DEF EntryRests
      <4>2. ~HasPosition(CoinOf[t])' /\ pos'[CoinOf[t]] <= EntrySize /\ <<t, "ghost">> \notin resting'
        BY <3>1, <3>2, <4>1 DEF HasPosition
      <4>. QED  BY <3>3, <4>2 DEF OneEntry, Covers
    <3>5. CASE EntryFillsAtOnce
      <4>1. resting' = resting /\ pos'[CoinOf[t]] = EntrySize
        BY <1>0, <2>1, <2>4, <3>1, <3>2, <3>5 DEF EntryFillsAtOnce, TypeOK
      <4>. QED  BY <3>1, <3>2, <3>3, <4>1 DEF OneEntry, Covers
    <3>. QED  BY <2>1, <3>4, <3>5
  <2>5. CASE op.t # t
    <3>1. CoinOf[op.t] # CoinOf[t]
      BY <2>1, <2>5 DEF Alone
    <3>2. pos'[CoinOf[t]] = pos[CoinOf[t]] /\ status'[t] = status[t]
          /\ resting' \in {resting, resting \cup {<<op.t, "entry">>}}
      BY <1>0, <2>1, <2>5, <3>1 DEF EntryRests, EntryFillsAtOnce, SetStatus, TypeOK
    <3>3. \A s \in Slots \cup Entries : <<t, s>> \in resting' <=> <<t, s>> \in resting
      BY <2>5, <3>2
    <3>. QED  BY <1>0, <2>1, <2>2, <2>3, <2>5, <3>2, <3>3, Elsewhere
  <2>. QED  BY <2>4, <2>5
<1>3. ASSUME NEW s \in op.todo, PlaceOrder(s) PROVE (OneEntry(t) /\ Covers(t))'
  <2>1. op.pc = "place_orders" /\ op.t \in Trades /\ s \in Slots /\ s # "entry"
        /\ UNCHANGED status /\ (Rests(s) \/ TriggersAtOnce(s)) /\ op' = [op EXCEPT !.todo = @ \ {s}]
    BY <1>0, <1>3
    DEF PlaceOrder, IsRefused, HandlerOwnsTrade, SyncPcs, NothingFails, SubmitKnows, Ops
  <2>2. op'.pc = "place_orders" /\ op'.t = op.t /\ op'.todo = op.todo \ {s}
    BY <1>0, <2>1 DEF Ops
  <2>3. /\ \A u \in Trades \ {op.t} : rows'[u] = rows[u]
        /\ rows'[op.t]["entry"] = rows[op.t]["entry"]
    BY <1>0, <2>1, OutcomeOf, SlotsTyped
  <2>4. ASSUME op.t = t PROVE ~EntryAhead(t) /\ ~EntryAhead(t)'
    BY <2>1, <2>2, <2>3, <2>4 DEF SubmitKnows, EntryAhead
  <2>5. ASSUME op.t = t, OneEntry(t)', Backed(t)' => Backed(t), s # "sl1",
               \A r \in Stops : <<t, r>> \in resting => <<t, r>> \in resting'
        PROVE  (OneEntry(t) /\ Covers(t))'
    <3>1. /\ StopAhead(t) => StopAhead(t)'
          /\ ~Withdrawing(t) /\ ~Replacing(t)'
      BY <2>1, <2>2, <2>5 DEF StopAhead, Withdrawing, Replacing
    <3>. QED  BY <2>1, <2>5, <3>1, CoversKept
  <2>6. CASE op.t = t /\ Rests(s)
    <3>1. resting' = resting \cup {<<t, s>>} /\ UNCHANGED pos
      BY <2>6 DEF Rests
    <3>2. pos'[CoinOf[t]] <= pos[CoinOf[t]] /\ s \notin Entries
      BY <1>0, <2>1, <3>1, CoinOfAssumption, SlotsApart DEF TypeOK, CoinOfAssumption
    <3>3. OneEntry(t)'
      BY <1>0, <2>1, <2>4, <2>6, <3>1, <3>2, OneEntryKept
    <3>4. CASE s = "sl1"
      <4>1. Protected(t)' /\ ~Replacing(t)'
        BY <2>2, <3>1, <3>4, SlotsAssumption DEF SlotsAssumption, Protected, Replacing
      <4>. QED  BY <3>3, <4>1 DEF Covers
    <3>5. CASE s # "sl1"
      <4>1. Backed(t)' => Backed(t)
        BY <2>1, <3>1 DEF Backed, HasPosition
      <4>. QED  BY <2>5, <2>6, <3>1, <3>3, <3>5, <4>1
    <3>. QED  BY <3>4, <3>5
  <2>7. CASE op.t = t /\ TriggersAtOnce(s)
    <3>1. OneEntry(t)' /\ Backed(t) /\ (Backed(t)' => s \notin Stops /\ resting' = resting)
      BY <1>0, <2>1, <2>2, <2>4, <2>7, TriggersHere
    <3>2. CASE ~Backed(t)'
      BY <3>1, <3>2 DEF Covers
    <3>3. CASE Backed(t)'
      <4>1. s # "sl1"
        BY <3>1, <3>3, SlotsAssumption DEF SlotsAssumption
      <4>. QED  BY <2>5, <2>7, <3>1, <3>3, <4>1
    <3>. QED  BY <3>2, <3>3
  <2>8. CASE op.t # t
    <3>1. /\ pos'[CoinOf[t]] = pos[CoinOf[t]]
          /\ \A r \in Slots \cup Entries : <<t, r>> \in resting' <=> <<t, r>> \in resting
      BY <1>0, <2>1, <2>8, TriggersElsewhere DEF Rests
    <3>. QED  BY <1>0, <2>1, <2>2, <2>3, <2>8, <3>1, Elsewhere
  <2>. QED  BY <2>1, <2>6, <2>7, <2>8
<1>4. ASSUME SubmitDone PROVE (OneEntry(t) /\ Covers(t))'
  <2>1. UNCHANGED <<status, rows, resting, pos>> /\ op'.pc = "idle" /\ op.todo = {}
        /\ op.pc = "place_orders"
    BY <1>4, IdleTyped DEF SubmitDone, Finish, db, venue
  <2>. QED
    BY <1>0, <2>1, NoConcern DEF EntryAhead, StopAhead, Withdrawing, Replacing
<1>. QED  BY <1>1, <1>2, <1>3, <1>4 DEF Submit

\* A cancel takes orders away, the stops too, and ends the trade; a market close
\* ends it as well.
LEMMA CloseCovers ==
    ASSUME IInv, HeldInv, NothingFails, TypeOK', NEW t \in Trades, OneEntry(t), Covers(t),
           Alone(t), Close
    PROVE  (OneEntry(t) /\ Covers(t))'
<1>0. TypeOK /\ HandlerOwnsTrade /\ HandsOff /\ op \in Ops
  BY DEF IInv, HeldInv, TypeOK
<1>1. ASSUME NEW s \in op.todo, CancelOrder(s) PROVE (OneEntry(t) /\ Covers(t))'
  <2>1. op.pc = "cancel" /\ op.t \in Trades /\ s \in Slots /\ rows[op.t][s] # "none"
        /\ UNCHANGED <<status, pos>> /\ SetRow(op.t, s, "canceled")
        /\ resting' = resting \ {<<op.t, s>>}
    BY <1>0, <1>1
    DEF CancelOrder, Withdraw, HandlerOwnsTrade, SyncPcs, NothingFails, HandsOff, Ops
  <2>2. op'.pc = "cancel" /\ op'.t = op.t
    BY <1>0, <1>1 DEF CancelOrder, Ops
  <2>3. /\ \A u \in Trades \ {op.t} : rows'[u] = rows[u]
        /\ \A r \in Slots : rows[op.t][r] = "none" <=> rows'[op.t][r] = "none"
    BY <1>0, <2>1, RowOf DEF OrderStatus
  <2>4. CASE op.t = t
    <3>1. EntryAhead(t)' => EntryAhead(t)
      BY <2>2, <2>3, <2>4, SlotsTyped DEF EntryAhead
    <3>2. pos'[CoinOf[t]] <= pos[CoinOf[t]] /\ resting' \subseteq resting
      BY <1>0, <2>1, CoinOfAssumption DEF TypeOK, CoinOfAssumption
    <3>3. OneEntry(t)'
      BY <1>0, <2>3, <2>4, <3>1, <3>2, OneEntryKept
    <3>. QED  BY <2>2, <2>4, <3>3 DEF Covers, Withdrawing
  <2>5. CASE op.t # t
    <3>1. \A r \in Slots \cup Entries : <<t, r>> \in resting' <=> <<t, r>> \in resting
      BY <2>1, <2>5
    <3>. QED  BY <1>0, <2>1, <2>2, <2>3, <2>5, <3>1, Elsewhere
  <2>. QED  BY <2>4, <2>5
<1>2. ASSUME CancelDone PROVE (OneEntry(t) /\ Covers(t))'
  <2>1. op.pc = "cancel" /\ op.t \in Trades /\ SetStatus(op.t, "canceled")
        /\ UNCHANGED <<rows, resting, pos>> /\ (Goto("positions") \/ Finish)
    BY <1>0, <1>2 DEF CancelDone, HandlerOwnsTrade, SyncPcs, venue
  <2>2. op'.pc \in {"positions", "idle"}
    BY <1>0, <2>1, GoOn, IdleTyped DEF Finish, Pcs, CancelPcs
  <2>3. /\ EntryAhead(t)' => EntryAhead(t)
        /\ ~StopAhead(t) /\ ~Replacing(t)'
        /\ status'[t] \in Live => status[t] \in Live /\ ~Withdrawing(t)
    BY <1>0, <2>1, <2>2 DEF EntryAhead, StopAhead, Withdrawing, Replacing, SetStatus, TypeOK, Live
  <2>. QED  BY <1>0, <2>1, <2>3, NoConcern
<1>3. ASSUME ReadPosition \/ MarketClose, UNCHANGED venue PROVE (OneEntry(t) /\ Covers(t))'
  <2>1. /\ op.pc \in {"positions", "ioc"} /\ op.t \in Trades /\ UNCHANGED rows
        /\ UNCHANGED status \/ SetStatus(op.t, "closed")
        /\ Raise(TRUE) \/ Raise(FALSE) \/ Goto("ioc") \/ Finish
    BY <1>0, <1>3 DEF ReadPosition, MarketClose, HandlerOwnsTrade, SyncPcs
  <2>2. op'.pc \in {"raised", "ioc", "idle"}
    BY <1>0, <2>1, GoOn, RaiseTyped, IdleTyped DEF Finish, Pcs, CancelPcs
  <2>3. status'[t] \in Live => status[t] \in Live
    BY <1>0, <2>1 DEF SetStatus, TypeOK, Live
  <2>. QED  BY <1>3, <2>1, <2>2, <2>3, QuietStep
<1>4. ASSUME MarketClose, ~UNCHANGED venue PROVE (OneEntry(t) /\ Covers(t))'
  <2>1. /\ op.pc = "ioc" /\ op.t \in Trades /\ UNCHANGED rows
        /\ SetStatus(op.t, "closed") /\ Finish
    BY <1>0, <1>4 DEF MarketClose, HandlerOwnsTrade, SyncPcs, NothingFails
  <2>2. /\ CoinOf[op.t] \in Coins /\ CoinOf[t] \in Coins
        /\ op'.pc = "idle" /\ op'.t = NoTrade /\ NoTrade # t
    BY <2>1, IdleTyped, CoinOfAssumption, NoTradeAssumption
    DEF Finish, CoinOfAssumption, NoTradeAssumption
  <2>3. PICK n \in Nat : Reduce(CoinOf[op.t], n, resting)
    <3>1. \E n \in 1..pos[CoinOf[op.t]] : Reduce(CoinOf[op.t], n, resting)
      BY <1>4 DEF MarketClose
    <3>. QED  BY <3>1
  <2>4. CASE op.t = t
    <3>1. status'[t] \notin Live
      BY <1>0, <2>1, <2>4 DEF SetStatus, TypeOK, Live
    <3>2. pos'[CoinOf[t]] <= pos[CoinOf[t]] /\ resting' \subseteq resting
      BY <1>0, <2>2, <2>3, <2>4, ReduceShrinks
    <3>3. EntryAhead(t)' => EntryAhead(t)
      BY <2>1, <2>2 DEF EntryAhead
    <3>4. OneEntry(t)'
      BY <1>0, <2>1, <3>2, <3>3, OneEntryKept
    <3>. QED  BY <3>1, <3>4 DEF Covers
  <2>5. CASE op.t # t
    <3>1. CoinOf[op.t] # CoinOf[t]
      BY <2>1, <2>5 DEF Alone
    <3>2. /\ pos'[CoinOf[t]] = pos[CoinOf[t]] /\ resting' \subseteq resting
          /\ \A o \in resting : CoinOf[o[1]] # CoinOf[op.t] => o \in resting'
      BY <1>0, <2>2, <2>3, <3>1, ReduceShrinks
    <3>3. \A s \in Slots \cup Entries : <<t, s>> \in resting' <=> <<t, s>> \in resting
      BY <3>1, <3>2
    <3>4. status'[t] = status[t]
      BY <1>0, <2>1, <2>5 DEF SetStatus, TypeOK
    <3>. QED  BY <1>0, <2>1, <2>2, <2>5, <3>2, <3>3, <3>4, Elsewhere
  <2>. QED  BY <2>4, <2>5
<1>. QED  BY <1>1, <1>2, <1>3, <1>4 DEF Close, ReadPosition

\* A move places the replacement first, and then the old stop goes.
LEMMA MoveCovers ==
    ASSUME IInv, HeldInv, NothingFails, TypeOK', NEW t \in Trades, OneEntry(t), Covers(t),
           Alone(t), MoveStop
    PROVE  (OneEntry(t) /\ Covers(t))'
<1>0. TypeOK /\ HandsOff /\ op \in Ops /\ op.slot \in Slots
  BY DEF IInv, HeldInv, TypeOK, Ops
<1>1. ASSUME NEW s \in Stops, PlaceNewStop(s) PROVE (OneEntry(t) /\ Covers(t))'
  <2>1. /\ op.pc = "new_stop" /\ op.t \in Trades /\ s \in Slots /\ s # op.slot
        /\ UNCHANGED status /\ (Rests(s) \/ TriggersAtOnce(s)) /\ Goto("old_stop")
    BY <1>1, NewStopIsOther DEF PlaceNewStop, IsRefused, NothingFails
  <2>2. op'.pc = "old_stop" /\ op'.t = op.t /\ op'.slot = op.slot
    BY <1>0, <2>1 DEF Goto, Ops
  <2>3. /\ \A u \in Trades \ {op.t} : rows'[u] = rows[u]
        /\ \A r \in Slots \ {s} : rows'[op.t][r] = rows[op.t][r]
    BY <1>0, <2>1, OutcomeOf
  <2>4. s # "entry" /\ s \notin Entries
    BY <2>1, SlotsApart
  <2>5. ASSUME op.t = t PROVE ~EntryAhead(t) /\ ~EntryAhead(t)'
    <3>1. rows[t][op.slot] # "none"
      BY <1>0, <2>1, <2>5 DEF HandsOff, MovePcs
    <3>2. ~EntryAhead(t)
      <4>1. CASE op.slot = "entry"
        BY <2>1, <3>1, <4>1 DEF EntryAhead
      <4>2. CASE op.slot # "entry"
        BY <1>0, <3>1, <4>2 DEF OneEntry, Unsent
      <4>. QED  BY <4>1, <4>2
    <3>3. ~EntryAhead(t)'
      BY <2>1, <2>2, <2>3, <2>4, <2>5, <3>2, SlotsTyped DEF EntryAhead
    <3>. QED  BY <3>2, <3>3
  <2>6. CASE op.t = t /\ Rests(s)
    <3>1. resting' = resting \cup {<<t, s>>} /\ UNCHANGED pos
      BY <2>6 DEF Rests
    <3>2. pos'[CoinOf[t]] <= pos[CoinOf[t]]
      BY <1>0, <3>1, CoinOfAssumption DEF TypeOK, CoinOfAssumption
    <3>3. OneEntry(t)'
      BY <1>0, <2>1, <2>4, <2>5, <2>6, <3>1, <3>2, OneEntryKept
    <3>4. <<t, s>> \in resting' /\ s \in Stops \ {op'.slot}
      BY <2>1, <2>2, <3>1
    <3>. QED  BY <3>3, <3>4 DEF Covers, Protected
  <2>7. CASE op.t = t /\ TriggersAtOnce(s)
    <3>1. OneEntry(t)' /\ ~Backed(t)'
      BY <1>0, <2>1, <2>2, <2>4, <2>5, <2>7, TriggersHere
    <3>. QED  BY <3>1 DEF Covers
  <2>8. CASE op.t # t
    <3>1. /\ pos'[CoinOf[t]] = pos[CoinOf[t]]
          /\ \A r \in Slots \cup Entries : <<t, r>> \in resting' <=> <<t, r>> \in resting
      BY <1>0, <2>1, <2>8, TriggersElsewhere DEF Rests
    <3>. QED  BY <1>0, <2>1, <2>2, <2>3, <2>8, <3>1, Elsewhere
  <2>. QED  BY <2>1, <2>6, <2>7, <2>8
<1>2. ASSUME CancelOldStop PROVE (OneEntry(t) /\ Covers(t))'
  <2>1. /\ op.pc = "old_stop" /\ op.t \in Trades /\ rows[op.t][op.slot] # "none"
        /\ UNCHANGED <<status, pos>> /\ SetRow(op.t, op.slot, "canceled")
        /\ resting' = resting \ {<<op.t, op.slot>>}
    BY <1>0, <1>2
    DEF CancelOldStop, Withdraw, NothingFails, HandsOff, MovePcs, IInv, HandlerOwnsTrade, SyncPcs
  <2>2. op'.pc = "idle" /\ op'.t = NoTrade /\ NoTrade # t
    BY <1>2, IdleTyped, NoTradeAssumption DEF CancelOldStop, Finish, NoTradeAssumption
  <2>3. /\ \A u \in Trades \ {op.t} : rows'[u] = rows[u]
        /\ \A r \in Slots : rows[op.t][r] = "none" <=> rows'[op.t][r] = "none"
    BY <1>0, <2>1, RowOf DEF OrderStatus
  <2>4. CASE op.t = t
    <3>1. EntryAhead(t)' => EntryAhead(t)
      BY <2>2, <2>3, <2>4, SlotsTyped DEF EntryAhead
    <3>2. pos'[CoinOf[t]] <= pos[CoinOf[t]] /\ resting' \subseteq resting
      BY <1>0, <2>1, CoinOfAssumption DEF TypeOK, CoinOfAssumption
    <3>3. OneEntry(t)'
      BY <1>0, <2>3, <2>4, <3>1, <3>2, OneEntryKept
    <3>4. ASSUME status'[t] \in Live, Backed(t)' PROVE Protected(t)'
      <4>1. status[t] \in Live /\ Backed(t) /\ Replacing(t)
        BY <2>1, <2>4, <3>4 DEF Backed, HasPosition, Replacing
      <4>2. PICK s \in Stops \ {op.slot} : <<t, s>> \in resting
        BY <2>1, <4>1 DEF Covers, StopAhead, Withdrawing
      <4>3. <<t, s>> \in resting'
        BY <2>1, <4>2
      <4>. QED  BY <4>3 DEF Protected
    <3>. QED  BY <2>2, <3>3, <3>4 DEF Covers, Replacing
  <2>5. CASE op.t # t
    <3>1. \A r \in Slots \cup Entries : <<t, r>> \in resting' <=> <<t, r>> \in resting
      BY <2>1, <2>5
    <3>. QED  BY <1>0, <2>1, <2>2, <2>3, <2>5, <3>1, Elsewhere
  <2>. QED  BY <2>4, <2>5
<1>. QED  BY <1>1, <1>2 DEF MoveStop

-----------------------------------------------------------------------------
(* The steps between two calls *)

\* A step that leaves the rows, the statuses and the handler alone, and the venue.
LEMMA IdleStep ==
    ASSUME TypeOK, TypeOK', NEW t \in Trades, OneEntry(t), Covers(t),
           UNCHANGED <<status, rows, op, venue>>
    PROVE  (OneEntry(t) /\ Covers(t))'
BY NoConcern DEF EntryAhead, StopAhead, Withdrawing, Replacing, venue

\* Messages start handlers and mark rows.
LEMMA MessagesCover ==
    ASSUME IInv, HeldInv, TypeOK', NEW t \in Trades, OneEntry(t), Covers(t), Messages
    PROVE  (OneEntry(t) /\ Covers(t))'
<1>0. TypeOK /\ Idle /\ op.pc = "idle" /\ UNCHANGED venue
  BY IdleTyped
  DEF IInv, Idle, Messages, Signal, TpHit, TradeLive, AllTpHit, StopHit, Breakeven, ManualUpdate,
      Canceled, TradeClosed
<1>1. \A s \in Slots : rows[t][s] = "none" <=> rows'[t][s] = "none"
  <2>1. ASSUME NEW u \in Trades,
               TradeLive(u) \/ AllTpHit(u) \/ StopHit(u)
                   \/ \E k \in {"tp1", "tp2", "tp3"} : TpHit(u, k)
        PROVE  \A s \in Slots : rows[t][s] = "none" <=> rows'[t][s] = "none"
    <3>1. CASE TradeLive(u)
      BY <1>0, <3>1 DEF TradeLive, TypeOK, Marked
    <3>2. CASE AllTpHit(u)
      BY <1>0, <3>2 DEF AllTpHit, TypeOK, Marked
    <3>3. CASE StopHit(u)
      BY <1>0, <3>3 DEF StopHit, TypeOK, Marked, IsFirst, ActiveStops, Submitted
    <3>4. CASE \E k \in {"tp1", "tp2", "tp3"} : TpHit(u, k)
      BY <1>0, <3>4 DEF TpHit, TypeOK, Marked
    <3>. QED  BY <2>1, <3>1, <3>2, <3>3, <3>4
  <2>2. ASSUME UNCHANGED rows
        PROVE  \A s \in Slots : rows[t][s] = "none" <=> rows'[t][s] = "none"
    BY <2>2
  <2>. QED
    BY <2>1, <2>2 DEF Messages, Signal, Breakeven, ManualUpdate, Canceled, TradeClosed, db
<1>2. op'.pc \notin {"place_entry", "old_stop"}
  <2>1. ASSUME NEW u \in Trades, BeginCancel(u) \/ BeginClose(u) PROVE op'.pc = "cancel"
    BY <2>1, CancelStarts
  <2>2. ASSUME NEW u \in Trades, BeginMove(u, "entry") \/ BeginMove(u, "update")
        PROVE  op'.pc \in {"idle", "new_stop"}
    BY <1>0, <2>2, MoveStarts DEF Levels
  <2>3. ASSUME NEW u \in Trades, CloseWithPnl(u) \/ BeginSubmit("signal", u)
        PROVE  op'.pc \in {"apply", "leverage"}
    BY <2>3, PnlStarts, SubmitStarts
  <2>4. ASSUME UNCHANGED op PROVE op'.pc = "idle"
    BY <1>0, <2>4
  <2>. QED
    BY <2>1, <2>2, <2>3, <2>4
    DEF Messages, Signal, TpHit, TradeLive, AllTpHit, StopHit, Breakeven, ManualUpdate, Canceled,
        TradeClosed
<1>3. status'[t] \in Live => status[t] \in Live \cup {"none"}
  <2>1. ASSUME NEW u \in Trades, Promotes(u) PROVE status'[t] \in Live => status[t] \in Live
    BY <1>0, <2>1 DEF Promotes, SetStatus, TypeOK, Live
  <2>2. ASSUME NEW u \in Trades, CloseWithPnl(u) \/ SetStatus(u, "closed")
        PROVE  status'[t] \in Live => status[t] \in Live
    BY <1>0, <2>2 DEF CloseWithPnl, SetStatus, TypeOK, Live
  <2>3. ASSUME NEW u \in Trades, status[u] = "none", SetStatus(u, "pending")
        PROVE  status'[t] \in Live => status[t] \in Live \cup {"none"}
    BY <1>0, <2>3 DEF SetStatus, TypeOK
  <2>. QED
    BY <2>1, <2>2, <2>3
    DEF Messages, Signal, TpHit, TradeLive, AllTpHit, StopHit, Breakeven, ManualUpdate, Canceled,
        TradeClosed, db
<1>. QED  BY <1>0, <1>1, <1>2, <1>3, QuietStep

\* Buttons start handlers or close a raw position.
LEMMA ButtonsCover ==
    ASSUME IInv, HeldInv, TypeOK', NEW t \in Trades, OneEntry(t), Covers(t), Buttons
    PROVE  (OneEntry(t) /\ Covers(t))'
<1>0. TypeOK /\ Idle /\ op.pc = "idle" /\ UNCHANGED rows
  BY IdleTyped
  DEF IInv, Idle, Buttons, Approve, Reject, ConfirmClose, KillSwitch, ConfirmClosePos, Pause, db
<1>1. ASSUME NEW u \in Trades, Approve(u) \/ Reject(u) \/ ConfirmClose(u) \/ KillSwitch(u)
      PROVE  (OneEntry(t) /\ Covers(t))'
  <2>1. /\ UNCHANGED venue
        /\ UNCHANGED status \/ SetStatus(u, "canceled")
        /\ UNCHANGED op \/ BeginSubmit("approve", u) \/ BeginCancel(u) \/ BeginClose(u)
    BY <1>1 DEF Approve, Reject, ConfirmClose, KillSwitch, db
  <2>2. op'.pc \in {"idle", "leverage", "cancel"}
    BY <1>0, <2>1, SubmitStarts, CancelStarts
  <2>3. status'[t] \in Live => status[t] \in Live
    BY <1>0, <2>1 DEF SetStatus, TypeOK, Live
  <2>. QED  BY <1>0, <2>1, <2>2, <2>3, QuietStep
<1>2. ASSUME NEW c \in Coins, ConfirmClosePos(c) PROVE (OneEntry(t) /\ Covers(t))'
  <2>1. UNCHANGED <<status, rows, op>> /\ \E n \in 1..pos[c] : Reduce(c, n, resting)
    BY <1>2 DEF ConfirmClosePos, db
  <2>2. PICK n \in 1..pos[c] : Reduce(c, n, resting)
    BY <2>1
  <2>3. n \in Nat /\ pos[c] \in Nat /\ pos[c] > 0
    BY <1>0, <2>2 DEF TypeOK
  <2>4. CASE c = CoinOf[t]
    BY <1>0, <2>1, <2>2, <2>3, <2>4, ReducedHere DEF HasPosition
  <2>5. CASE c # CoinOf[t]
    BY <1>0, <2>1, <2>2, <2>3, <2>5, ReducedElsewhere
  <2>. QED  BY <2>4, <2>5
<1>3. ASSUME Pause PROVE (OneEntry(t) /\ Covers(t))'
  BY <1>0, <1>3, IdleStep DEF Pause, db
<1>. QED  BY <1>1, <1>2, <1>3 DEF Buttons

\* Sweeps, syncs and what ends a handler touch neither the venue nor a row.
LEMMA OthersCover ==
    ASSUME IInv, HeldInv, TypeOK', NEW t \in Trades, OneEntry(t), Covers(t),
           Sweeps \/ Sync \/ ApplyPnl \/ HandleRaised
    PROVE  (OneEntry(t) /\ Covers(t))'
<1>0. TypeOK /\ op \in Ops
  BY DEF IInv, TypeOK
<1>1. ASSUME NEW u \in Trades, Timeout(u) PROVE (OneEntry(t) /\ Covers(t))'
  BY <1>0, <1>1, IdleStep DEF Timeout, db
<1>2. ASSUME SweepStart \/ SweepNext \/ ReconcileTick \/ Sync \/ ApplyPnl \/ HandleRaised
      PROVE  (OneEntry(t) /\ Covers(t))'
  <2>1. UNCHANGED venue /\ UNCHANGED rows
    BY <1>2
    DEF SweepStart, SweepNext, Decline, ReconcileTick, Sync, ReadPositions, ReadOrders,
        ReadOrdersFails, ApplyPnl, HandleRaised, db
  <2>2. op.pc \in {"idle", "apply", "raised"} \cup SyncPcs
    BY <1>2, IdleTyped
    DEF SweepStart, SweepNext, Decline, ReconcileTick, Sync, ReadPositions, ReadOrders,
        ReadOrdersFails, ApplyPnl, HandleRaised, Idle, SyncPcs
  <2>3. op'.pc \in {"idle"} \cup SyncPcs
    BY <1>0, <1>2, IdleTyped, SyncStarts
    DEF SweepStart, SweepNext, Decline, ReconcileTick, Sync, ReadPositions, ReadOrders,
        ReadOrdersFails, ApplyPnl, HandleRaised, Idle, Finish, SyncPcs, Ops
  <2>4. status'[t] \in Live => status[t] \in Live
    <3>1. CASE ReadOrders
      BY <3>1 DEF ReadOrders, SyncedStatus, Live
    <3>2. ASSUME NEW u \in Trades, UNCHANGED status \/ SetStatus(u, "canceled")
          PROVE  status'[t] \in Live => status[t] \in Live
      BY <1>0, <3>2 DEF SetStatus, TypeOK, Live
    <3>3. CASE HandleRaised
      <4>1. op.t \in Trades
        BY <3>3 DEF HandleRaised, IInv, HandlerOwnsTrade, SyncPcs
      <4>. QED  BY <3>2, <3>3, <4>1 DEF HandleRaised
    <3>4. CASE SweepStart \/ SweepNext
      <4>1. PICK u \in Trades : SetStatus(u, "canceled")
        BY <1>0, <3>4 DEF SweepStart, SweepNext, Decline, ExpiredConfirmations, TypeOK
      <4>. QED  BY <3>2, <4>1
    <3>. QED
      BY <1>2, <3>1, <3>2, <3>3, <3>4
      DEF ReconcileTick, Sync, ReadPositions, ReadOrdersFails, ApplyPnl, db
  <2>. QED  BY <2>1, <2>2, <2>3, <2>4, QuietStep DEF SyncPcs
<1>. QED  BY <1>1, <1>2 DEF Sweeps

-----------------------------------------------------------------------------
(* The theorem *)

\* A submission starts for a trade without an entry, and goes on to the other
\* orders when the entry is placed.
LEMMA NextKnows ==
    ASSUME IInv, HeldInv, SubmitKnows, NothingFails, [Next]_vars
    PROVE  SubmitKnows'
<1>0. TypeOK /\ HandlerOwnsTrade /\ op \in Ops
  BY DEF IInv, TypeOK
<1>1. CASE UNCHANGED <<op, rows>>
  BY <1>1 DEF SubmitKnows
<1>2. CASE op'.pc \notin {"leverage", "place_orders"}
  BY <1>2 DEF SubmitKnows
<1>3. CASE Submit
  <2>1. CASE SetLeverage
    <3>1. op'.pc = "place_entry"
      BY <1>0, <2>1, GoOn DEF SetLeverage, NothingFails, Pcs, SubmitPcs
    <3>. QED  BY <3>1, <1>2
  <2>2. CASE PlaceEntry
    <3>1. op.t \in Trades /\ PlaceRest /\ \E st \in {"submitted", "filled"} : SetRow(op.t, "entry", st)
      BY <1>0, <2>2
      DEF PlaceEntry, EntryRejected, EntryRests, EntryFillsAtOnce, EntryUnnamed, EntryAnswerLost,
          HandlerOwnsTrade, SyncPcs, NothingFails
    <3>2. op'.pc = "place_orders" /\ op'.t = op.t /\ op'.todo = {"sl1"} \cup TPs
      BY <1>0, <3>1 DEF PlaceRest, Ops
    <3>3. rows'[op.t]["entry"] # "none"
      BY <1>0, <3>1, RowOf, SlotsTyped DEF OrderStatus
    <3>. QED  BY <3>2, <3>3, SlotsApart, SlotsAssumption DEF SubmitKnows, SlotsAssumption
  <2>3. ASSUME NEW s \in op.todo, PlaceOrder(s) PROVE SubmitKnows'
    <3>1. op.pc = "place_orders" /\ op.t \in Trades /\ s \in Slots /\ s # "entry"
          /\ (Rests(s) \/ TriggersAtOnce(s)) /\ op' = [op EXCEPT !.todo = @ \ {s}]
      BY <1>0, <2>3
      DEF PlaceOrder, IsRefused, HandlerOwnsTrade, SyncPcs, NothingFails, SubmitKnows, Ops
    <3>2. op'.pc = "place_orders" /\ op'.t = op.t /\ op'.todo = op.todo \ {s}
      BY <1>0, <3>1 DEF Ops
    <3>3. rows'[op.t]["entry"] = rows[op.t]["entry"]
      BY <1>0, <3>1, OutcomeOf, SlotsTyped
    <3>. QED  BY <3>1, <3>2, <3>3 DEF SubmitKnows
  <2>4. CASE SubmitDone
    BY <1>2, <2>4, IdleTyped DEF SubmitDone, Finish
  <2>. QED  BY <1>3, <2>1, <2>2, <2>3, <2>4 DEF Submit
<1>4. CASE Close \/ MoveStop \/ Sync \/ ApplyPnl \/ HandleRaised
  <2>1. ASSUME NEW s \in op.todo, CancelOrder(s) PROVE op'.pc = "cancel"
    BY <1>0, <2>1 DEF CancelOrder, Ops
  <2>2. ASSUME Goto("positions") \/ Goto("ioc") \/ Goto("old_stop") \/ Finish
               \/ Raise(TRUE) \/ Raise(FALSE)
        PROVE  op'.pc \in {"positions", "ioc", "old_stop", "idle", "raised"}
    BY <1>0, <2>2, GoOn, RaiseTyped, IdleTyped DEF Finish, Pcs, CancelPcs, MovePcs
  <2>3. CASE ReadPositions
    BY <1>0, <1>2, <2>2, <2>3 DEF ReadPositions, Ops
  <2>. QED
    BY <1>2, <1>4, <2>1, <2>2, <2>3
    DEF Close, CancelDone, ReadPosition, MarketClose, MoveStop, CancelOldStop, PlaceNewStop, Sync,
        ReadOrders, ReadOrdersFails, ApplyPnl, HandleRaised
<1>5. ASSUME NEW t \in Trades, BeginCancel(t) \/ BeginClose(t) \/ CloseWithPnl(t) \/ BeginSync
      PROVE  SubmitKnows'
  BY <1>2, <1>5, CancelStarts, PnlStarts, SyncStarts
<1>6. ASSUME NEW t \in Trades, Idle, BeginMove(t, "entry") \/ BeginMove(t, "update")
      PROVE  SubmitKnows'
  BY <1>2, <1>6, MoveStarts DEF Levels
<1>7. CASE Idle /\ UNCHANGED op
  BY <1>2, <1>7, IdleTyped DEF Idle
<1>8. ASSUME NEW t \in Trades, BeginSubmit("signal", t) \/ BeginSubmit("approve", t),
             rows'[t]["entry"] = "none"
      PROVE  SubmitKnows'
  BY <1>8, SubmitStarts DEF SubmitKnows
<1>9. CASE Messages
  <2>1. ASSUME NEW t \in Trades, NEW g \in Gates, Signal(t, g), BeginSubmit("signal", t)
        PROVE  SubmitKnows'
    <3>1. rows'[t]["entry"] = "none"
      BY <2>1, SlotsTyped DEF Signal, HeldInv, Off, Untouched
    <3>. QED  BY <1>8, <2>1, <3>1
  <2>. QED
    BY <1>5, <1>6, <1>7, <1>9, <2>1
    DEF Messages, Signal, TpHit, TradeLive, AllTpHit, StopHit, Breakeven, ManualUpdate, Canceled,
        TradeClosed
<1>10. CASE Buttons
  <2>1. ASSUME NEW t \in Trades, Approve(t), BeginSubmit("approve", t) PROVE SubmitKnows'
    BY <1>8, <2>1 DEF Approve
  <2>. QED
    BY <1>5, <1>7, <1>10, <2>1
    DEF Buttons, Approve, Reject, ConfirmClose, KillSwitch, ConfirmClosePos, Pause, db
<1>11. CASE Sweeps
  <2>1. CASE BeginSync
    BY <1>2, <2>1, SyncStarts
  <2>. QED
    BY <1>1, <1>7, <1>11, <2>1
    DEF Sweeps, SweepStart, SweepNext, Decline, ReconcileTick, Timeout, db
<1>12. CASE VenueMoves
  BY <1>1, <1>12 DEF VenueMoves, EntryFills, EntryDropped, ExitFills, db
<1>13. CASE UNCHANGED vars
  BY <1>1, <1>13 DEF vars, db
<1>. QED
  BY <1>3, <1>4, <1>9, <1>10, <1>11, <1>12, <1>13 DEF Next, HandlerStep, NothingFails, Crash

LEMMA NextCover ==
    ASSUME IInv, HeldInv, CoverInv, NothingFails, [Next]_vars
    PROVE  CoverInv'
<1>1. TypeOK /\ TypeOK' /\ SubmitKnows /\ SubmitKnows'
  BY NextInv, NextKnows DEF IInv, CoverInv
<1>2. ASSUME NEW t \in Trades, Alone(t) PROVE (OneEntry(t) /\ Covers(t))'
  <2>1. OneEntry(t) /\ Covers(t)
    BY <1>2 DEF CoverInv
  <2>2. CASE UNCHANGED vars
    BY <1>1, <2>1, <2>2, IdleStep DEF vars, db
  <2>3. CASE HandlerStep
    BY <1>1, <1>2, <2>1, <2>3, SubmitCovers, CloseCovers, MoveCovers, OthersCover DEF HandlerStep
  <2>4. CASE Messages \/ Buttons \/ Sweeps \/ VenueMoves
    BY <1>1, <1>2, <2>1, <2>4, MessagesCover, ButtonsCover, OthersCover, VenueCovers
  <2>. QED  BY <2>2, <2>3, <2>4 DEF Next, Crash, NothingFails
<1>. QED  BY <1>1, <1>2 DEF CoverInv, Alone

\* When no order request fails and the process lives, a position on the coin of a live
\* trade has a stop on the venue whenever no handler runs, however many stops and
\* take-profits a trade has, whatever messages and buttons come, and wherever the
\* venue moves between two calls.
THEOREM StopCovers ==
    ASSUME NothingFails PROVE Spec => []LivePositionCovered
<1>1. CoverInv => LivePositionCovered
  BY IdleTyped
  DEF CoverInv, LivePositionCovered, Idle, Covers, Backed, StopAhead, Withdrawing
<1>2. IInv /\ HeldInv /\ CoverInv /\ [Next]_vars => CoverInv'
  BY NextCover
<1>. QED  BY <1>1, <1>2, Invariance, FreshCover, InitHeld, NextHeld, PTL DEF Spec

=============================================================================
