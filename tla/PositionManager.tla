--------------------------- MODULE PositionManager ---------------------------
(***************************************************************************)
(* The Hyperliquid position manager: what a handler does on the venue for  *)
(* one trade.  A step is one HTTP call with the rows written around it;    *)
(* between two steps the venue moves or the process dies, but no other     *)
(* handler runs, since handlers are synchronous.  A call has three kinds   *)
(* of outcome: the venue accepts, the venue refuses, or an exception       *)
(* reaches the caller, after the request took effect or before.            *)
(***************************************************************************)
EXTENDS TradeState

Finish == op' = IdleOp
Goto(pc) == op' = [op EXCEPT !.pc = pc]
Refusal == "refusal" \in Faults
Transport == "transport" \in Faults
ReadFails == "read" \in Faults
Unnamed == "noid" \in Faults

\* An exception leaves the position manager: an OrderSubmissionError ("ose")
\* or any other.  The slot field keeps which, "entry" standing for an "ose".
Raise(ose) == op' = [Op("raised", op.h, op.t) EXCEPT !.slot = IF ose THEN "entry" ELSE "sl1"]
IsSubmissionError == op.slot = "entry"

-----------------------------------------------------------------------------
(* submit_trade *)

BeginSubmit(h, t) == op' = Op("leverage", h, t)

SetLeverage ==
    /\ op.pc = "leverage"
    /\ \/ Goto("place_entry") /\ SetRow(op.t, "entry", "pending")
       \/ (Refusal \/ Transport) /\ Raise(TRUE) /\ UNCHANGED rows
    /\ UNCHANGED <<status, gate, price, user, credited, venue>>

\* Mutant: a take-profit whose size rounded to zero is placed too.
PlaceZeroSized == op' = [op EXCEPT !.pc = "place_orders", !.tries = 0,
                                   !.todo = {"sl1", "tp1", "tp2", "tp3"}]

\* The orders that follow the entry: the stop and each take-profit of size > 0.
PlaceRest == op' = [op EXCEPT !.pc = "place_orders", !.tries = 0,
                              !.todo = {"sl1"} \cup TPs]

\* A refused entry is reported by row id to a query that looks for an exchange
\* oid, so its row stays 'pending'.
EntryRejected == Refusal /\ Raise(TRUE) /\ UNCHANGED <<status, rows, venue>>

EntryRests ==
    /\ SetRow(op.t, "entry", "submitted")
    /\ resting' = resting \cup {<<op.t, "entry">>}
    /\ PlaceRest
    /\ UNCHANGED <<status, pos>>

EntryFillsAtOnce ==
    /\ SetRow(op.t, "entry", "filled")
    /\ SetStatus(op.t, "open")
    /\ pos' = [pos EXCEPT ![CoinOf[op.t]] = @ + EntrySize]
    /\ PlaceRest
    /\ UNCHANGED resting

\* An answer that names no order is taken for accepted, whatever it was; the row
\* stays 'pending'.
EntryUnnamed ==
    /\ Unnamed
    /\ resting' \in {resting, resting \cup {<<op.t, "entry">>}}
    /\ PlaceRest
    /\ UNCHANGED <<status, rows, pos>>

\* An exception instead of an answer.  After a transient one the request is sent
\* again, without a client order id, until the retries are used up; it is raised
\* then, and any other is raised at once.
EntryAnswerLost ==
    /\ Transport
    /\ \/ UNCHANGED venue
       \/ /\ <<op.t, "ghost">> \notin resting
          /\ resting' = resting \cup {<<op.t, "ghost">>}
          /\ UNCHANGED pos
    /\ \/ op.tries < MaxRetries /\ op' = [op EXCEPT !.tries = @ + 1]
       \/ Raise(FALSE)
    /\ UNCHANGED <<status, rows>>

PlaceEntry ==
    /\ op.pc = "place_entry"
    /\ EntryRejected \/ EntryRests \/ EntryFillsAtOnce \/ EntryUnnamed \/ EntryAnswerLost
    /\ UNCHANGED <<gate, price, user, credited>>

\* What becomes of an order that follows the entry: it rests; or it triggers at
\* once; or it is refused; or its answer names no order, or is lost.
Rests(s) ==
    /\ SetRow(op.t, s, "submitted")
    /\ resting' = resting \cup {<<op.t, s>>} /\ UNCHANGED pos
TriggersAtOnce(s) ==
    /\ HasPosition(CoinOf[op.t])
    /\ SetRow(op.t, s, "filled")
    /\ Reduce(CoinOf[op.t], IF s \in TPs THEN 1 ELSE EntrySize, resting)
IsRefused(s) == Refusal /\ SetRow(op.t, s, "rejected") /\ UNCHANGED venue
Unanswered(s) ==
    /\ SetRow(op.t, s, "pending")
    /\ resting' \in {resting, resting \cup {<<op.t, s>>}} /\ UNCHANGED pos

\* One of the orders after the entry; a refusal is logged and does not stop the
\* others, an exception leaves the row 'pending' and raises.
PlaceOrder(s) ==
    /\ op.pc = "place_orders" /\ IsFirst(s, op.todo)
    /\ \/ /\ Rests(s) \/ TriggersAtOnce(s) \/ IsRefused(s) \/ (Unnamed /\ Unanswered(s))
          /\ op' = [op EXCEPT !.todo = @ \ {s}]
       \/ Transport /\ Unanswered(s) /\ Raise(FALSE)
    /\ UNCHANGED <<status, gate, price, user, credited>>

SubmitDone ==
    /\ op.pc = "place_orders" /\ op.todo = {}
    /\ Finish
    /\ UNCHANGED <<db, user, credited, venue>>

Submit == SetLeverage \/ PlaceEntry \/ SubmitDone \/ \E s \in op.todo : PlaceOrder(s)

-----------------------------------------------------------------------------
(* cancel_trade, and close_position which begins with it *)

BeginCancel(t) == op' = [Op("cancel", "cancel", t) EXCEPT !.todo = Submitted(t)]
BeginClose(t) == op' = [Op("cancel", "close", t) EXCEPT !.todo = Submitted(t)]

\* The answer to a cancel is not read: a row is marked whether or not its order
\* was still there, and whether or not the venue withdrew it.  An exception is
\* logged and leaves the row as it was.
Withdraw(s) ==
    \/ SetRow(op.t, s, "canceled") /\ resting' = resting \ {<<op.t, s>>}
    \/ Refusal /\ SetRow(op.t, s, "canceled") /\ UNCHANGED resting
    \/ Transport /\ UNCHANGED rows /\ resting' \in {resting, resting \ {<<op.t, s>>}}

CancelOrder(s) ==
    /\ op.pc = "cancel" /\ IsFirst(s, op.todo)
    /\ Withdraw(s)
    /\ op' = [op EXCEPT !.todo = @ \ {s}]
    /\ UNCHANGED <<status, gate, price, user, credited, pos>>

CancelDone ==
    /\ op.pc = "cancel" /\ op.todo = {}
    /\ SetStatus(op.t, "canceled")
    /\ IF op.h = "close" THEN Goto("positions") ELSE Finish
    /\ UNCHANGED <<gate, rows, price, user, credited, venue>>

ReadPosition ==
    /\ op.pc = "positions"
    /\ \/ ReadFails /\ Raise(FALSE) /\ UNCHANGED status
       \/ HasPosition(CoinOf[op.t]) /\ Goto("ioc") /\ UNCHANGED status
       \/ /\ ~HasPosition(CoinOf[op.t])
          /\ SetStatus(op.t, "closed")
          /\ Finish
    /\ UNCHANGED <<gate, rows, price, user, credited, venue>>

\* The reduce-only IOC order: any fill, be it partial, closes the trade; a
\* refusal or no fill is raised, as is a lost answer.
MarketClose ==
    LET c == CoinOf[op.t] IN
    /\ op.pc = "ioc"
    /\ \/ /\ \E n \in 1..pos[c] : Reduce(c, n, resting)
          /\ \/ SetStatus(op.t, "closed") /\ Finish
             \/ Transport /\ Raise(FALSE) /\ UNCHANGED status
       \/ Transport /\ Raise(FALSE) /\ UNCHANGED <<status, venue>>
       \/ (Refusal \/ ~HasPosition(c)) /\ Raise(TRUE) /\ UNCHANGED <<status, venue>>
    /\ UNCHANGED <<gate, rows, price, user, credited>>

Close == CancelDone \/ ReadPosition \/ MarketClose \/ \E s \in op.todo : CancelOrder(s)

-----------------------------------------------------------------------------
(* move_stop_loss *)

ActiveStops(t) == Submitted(t) \cap Stops
FreeStops(t) == {s \in Stops : rows[t][s] = "none"}

\* Without an active stop, or with one at the wanted price, nothing is done.
\* (Bound: a trade has no more moves than Stops has rows.)
Movable(t, s, px) ==
    /\ IsFirst(s, ActiveStops(t))
    /\ price[t][s] # px
    /\ FreeStops(t) # {}

BeginMove(t, px) ==
    \/ \E s \in Stops :
        /\ Movable(t, s, px)
        /\ op' = [Op("new_stop", "move", t) EXCEPT !.slot = s, !.px = px]
    \/ ~(\E s \in Stops : Movable(t, s, px)) /\ UNCHANGED op

\* Mutant: the old stop is canceled before the replacement is placed.
PlaceNewStopLast(s) ==
    /\ op.pc = "new_stop" /\ IsFirst(s, FreeStops(op.t))
    /\ price' = [price EXCEPT ![op.t][s] = op.px]
    /\ \E st \in {"submitted", "rejected"} :
        /\ rows' = [rows EXCEPT ![op.t][s] = st, ![op.t][op.slot] = "canceled"]
        /\ resting' = (resting \ {<<op.t, op.slot>>})
                      \cup (IF st = "submitted" THEN {<<op.t, s>>} ELSE {})
    /\ Finish
    /\ UNCHANGED <<status, gate, user, credited, pos>>

\* The replacement is placed before the old stop is touched; one without a name in
\* its answer counts as refused.
PlaceNewStop(s) ==
    /\ op.pc = "new_stop" /\ IsFirst(s, FreeStops(op.t))
    /\ price' = [price EXCEPT ![op.t][s] = op.px]
    /\ \/ (Rests(s) \/ TriggersAtOnce(s)) /\ Goto("old_stop")
       \/ (IsRefused(s) \/ (Unnamed /\ Unanswered(s))) /\ Finish
       \/ Transport /\ Unanswered(s) /\ Raise(FALSE)
    /\ UNCHANGED <<status, gate, user, credited>>

\* Mutant: every stop of the trade is canceled, the new one with the old.
CancelEveryStop ==
    /\ op.pc = "old_stop"
    /\ rows' = [rows EXCEPT ![op.t] = [s \in Slots |->
                    IF s \in ActiveStops(op.t) THEN "canceled" ELSE @[s]]]
    /\ resting' = resting \ {<<op.t, s>> : s \in Stops}
    /\ Finish
    /\ UNCHANGED <<status, gate, price, user, credited, pos>>

CancelOldStop ==
    /\ op.pc = "old_stop"
    /\ Withdraw(op.slot)
    /\ Finish
    /\ UNCHANGED <<status, gate, price, user, credited, pos>>

MoveStop == CancelOldStop \/ \E s \in Stops : PlaceNewStop(s)

-----------------------------------------------------------------------------
(* sync_positions, at startup and on each tick of the reconciliation sweep *)

BeginSync == op' = Op("read_positions", "sync", NoTrade)

\* The positions are read first and the open orders second; a failed read
\* leaves everything as it is.
ReadPositions ==
    /\ op.pc = "read_positions"
    /\ \/ op' = [op EXCEPT !.pc = "read_orders",
                           !.seen = {c \in Coins : HasPosition(c)}]
       \/ ReadFails /\ Finish
    /\ UNCHANGED <<db, user, credited, venue>>

EntryRowRests(t) == <<t, "entry">> \in resting
                    /\ rows[t]["entry"] \in {"submitted", "filled", "canceled"}

\* Mutant: only open trades are reconciled.
SyncedOpenOnly(t, seen) ==
    IF status[t] = "open" /\ CoinOf[t] \notin seen THEN "closed" ELSE status[t]

SyncedStatus(t, seen) ==
    CASE status[t] = "open" /\ CoinOf[t] \notin seen -> "closed"
      [] status[t] = "pending" /\ ~EntryRowRests(t) ->
            IF CoinOf[t] \in seen THEN "open" ELSE "canceled"
      [] OTHER -> status[t]

ReadOrders ==
    /\ op.pc = "read_orders"
    /\ status' = [t \in Trades |-> SyncedStatus(t, op.seen)]
    /\ Finish
    /\ UNCHANGED <<gate, rows, price, user, credited, venue>>

ReadOrdersFails ==
    /\ op.pc = "read_orders" /\ ReadFails
    /\ Finish
    /\ UNCHANGED <<db, user, credited, venue>>

Sync == ReadPositions \/ ReadOrders \/ ReadOrdersFails

=============================================================================
