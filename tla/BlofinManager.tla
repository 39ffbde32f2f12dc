---------------------------- MODULE BlofinManager ----------------------------
(***************************************************************************)
(* The Blofin position manager and its client, for one trade alone on its  *)
(* instrument.  As on Hyperliquid a step is one HTTP call with the rows    *)
(* written around it, and no other handler runs between two steps.  What   *)
(* differs: the entry never opens the trade by itself, writes are sent     *)
(* once and reads are retried, each order carries a client id the venue    *)
(* refuses while an order with that id is alive, the answer to a cancel is *)
(* read, and a sync asks three times.                                      *)
(*                                                                         *)
(* Abstractions: a long position of EntrySize units; a take-profit closes  *)
(* one, a stop all.  The market price is not modelled: the check of a new  *)
(* stop against it passes, fails or cannot be made.                        *)
(***************************************************************************)
EXTENDS Integers, Sequences, FiniteSets

CONSTANTS
    TPs,        \* the take-profits whose size is not zero, in order
    EntrySize,  \* units the entry opens
    MaxStops,   \* bound: stop rows of the trade
    BreakevenAfter, \* the preset's take-profit that moves the stop, or "none"
    Faults      \* what may go wrong

ASSUME BlofinTPs ==
    /\ TPs \in Seq({"tp1", "tp2", "tp3"}) /\ Len(TPs) <= 3
    /\ \A i, j \in 1..Len(TPs) : TPs[i] = TPs[j] => i = j
ASSUME BlofinBounds == EntrySize \in Nat \ {0} /\ MaxStops \in Nat \ {0}

\* "crash": the process dies; "transport": a request raises, its effect unknown;
\* "refusal": the venue refuses; "noid": it accepts and its answer has no id;
\* "linger": it keeps the reduce-only orders of a flat position.
ASSUME BlofinFaults ==
    Faults \subseteq {"crash", "transport", "refusal", "noid", "linger"}

VARIABLES
    status,     \* trades.status; "none" before the row exists
    rows,       \* the trade's rows of the orders table, by row id
    op,         \* the handler that is running
    book,       \* the venue's live orders: <<row, client id>>
    pos,        \* units of the position
    entries     \* how often an entry filled

store == <<status, rows>>
venue == <<book, pos, entries>>
vars == <<store, op, venue>>

-----------------------------------------------------------------------------
(* The values of the state *)

Live == {"pending", "open"}
TradeStatus == {"none", "closed", "canceled"} \cup Live
Levels == {"initial", "entry", "update"}
TpKinds == {TPs[i] : i \in DOMAIN TPs}
Kinds == {"entry", "stop"} \cup TpKinds
Row == [kind: Kinds, level: Levels,
        st: {"pending", "submitted", "filled", "canceled", "rejected"}]

\* A client id: the trade's and the kind's, and a number for a stop that
\* replaces another.
Ids == Kinds \X (0..MaxStops)

Pcs == {"idle", "entry", "tpsl", "cancel", "positions", "close", "new_stop",
        "old_stop", "sync_positions", "sync_orders", "sync_tpsl"}
Ops == [pc: Pcs, i: 0..(MaxStops + 4), level: Levels, closing: BOOLEAN,
        held: BOOLEAN, rests: BOOLEAN]
Op(pc) == [pc |-> pc, i |-> 1, level |-> "initial", closing |-> FALSE,
           held |-> FALSE, rests |-> FALSE]
Idle == op.pc = "idle"
Finish == op' = Op("idle")
Goto(pc) == op' = [op EXCEPT !.pc = pc]

Refusal == "refusal" \in Faults
Transport == "transport" \in Faults

\* A row has an exchange id once its status was 'submitted'.
HasId(i) == rows[i].st \notin {"pending", "rejected"}
Submitted == {i \in DOMAIN rows : rows[i].st = "submitted"}
ActiveStops == {i \in Submitted : rows[i].kind = "stop"}
First(S, i) == i \in S /\ \A j \in S : i <= j
StopRows == {i \in DOMAIN rows : rows[i].kind = "stop"}

Record(kind, level, st) == rows' = Append(rows, [kind |-> kind, level |-> level, st |-> st])
SetRow(i, st) == rows' = [rows EXCEPT ![i].st = st]
NewRow == Len(rows) + 1

-----------------------------------------------------------------------------
(* The venue *)

InUse(id) == \E o \in book : o[2] = id

\* Mutant: the conditionals are sent without reduceOnly.
ReducedAnyhow(n) == pos - n
\* What is left when a reduce-only order of n units triggers.
Reduced(n) == IF pos > n THEN pos - n ELSE 0

Leaves(n, rest) ==
    /\ pos' = Reduced(n)
    /\ \/ book' = rest
       \/ pos' = 0 /\ book' = {o \in rest : rows[o[1]].kind = "entry"}
    /\ pos' # 0 \/ "linger" \in Faults \/ \A o \in book' : rows[o[1]].kind = "entry"

VenueMoves ==
    \E o \in book :
        /\ IF rows[o[1]].kind = "entry"
             THEN /\ book' = book \ {o}
                  /\ pos' = pos + EntrySize /\ entries' = entries + 1
             ELSE /\ pos > 0
                  /\ Leaves(IF rows[o[1]].kind = "stop" THEN EntrySize ELSE 1, book \ {o})
                  /\ UNCHANGED entries
        /\ UNCHANGED <<store, op>>

-----------------------------------------------------------------------------
(* The outcomes of a placement: a row is recorded before the request is sent *)

Accepted(kind, level, id) ==
    /\ ~InUse(id)
    /\ Record(kind, level, "submitted") /\ book' = book \cup {<<NewRow, id>>}

\* The venue accepted and did not say under which id.
AcceptedUnnamed(kind, level, id) ==
    /\ "noid" \in Faults /\ ~InUse(id)
    /\ Record(kind, level, "pending") /\ book' = book \cup {<<NewRow, id>>}

Refused(kind, level, id, st) ==
    /\ Refusal \/ InUse(id)
    /\ Record(kind, level, st) /\ UNCHANGED book

\* No answer, and no second request.
AnswerLost(kind, level, id) ==
    /\ Transport
    /\ Record(kind, level, "pending")
    /\ UNCHANGED book \/ (~InUse(id) /\ book' = book \cup {<<NewRow, id>>})

-----------------------------------------------------------------------------
(* submit_trade *)

\* The signal that was admitted; whether the leverage could be set is not asked.
SubmitTrade ==
    /\ Idle /\ status = "none"
    /\ status' = "pending" /\ op' = Op("entry")
    /\ UNCHANGED <<rows, venue>>

EntryId == <<"entry", 0>>

\* Mutant: the request is sent again after a transport error, as a read is.
PlaceEntryRetried ==
    /\ op.pc = "entry"
    /\ \/ /\ Accepted("entry", "initial", EntryId)
          /\ Goto("tpsl") \/ (Transport /\ UNCHANGED op)
          /\ UNCHANGED status
       \/ Refused("entry", "initial", EntryId, "pending") /\ Finish /\ status' = "canceled"
    /\ UNCHANGED <<pos, entries>>

\* A refused entry leaves its row pending and cancels the trade; a lost answer
\* leaves both pending and nothing covers the entry.
PlaceEntry ==
    /\ op.pc = "entry"
    /\ \/ /\ \/ Accepted("entry", "initial", EntryId)
             \/ AcceptedUnnamed("entry", "initial", EntryId)
          /\ Goto("tpsl") /\ UNCHANGED status
       \/ /\ Refused("entry", "initial", EntryId, "pending")
          /\ Finish /\ status' = "canceled"
       \/ AnswerLost("entry", "initial", EntryId) /\ Finish /\ UNCHANGED status
    /\ UNCHANGED <<pos, entries>>

\* The conditionals in turn: the stop, the take-profits.
Conditionals == <<"stop">> \o TPs

\* _submit_tpsl; a refusal does not stop the others.
SubmitTpsl ==
    LET kind == Conditionals[op.i]
        more == IF op.i = Len(Conditionals) THEN Finish
                ELSE op' = [op EXCEPT !.i = @ + 1]
    IN /\ op.pc = "tpsl"
       /\ \/ /\ \/ Accepted(kind, "initial", <<kind, 0>>)
                \/ AcceptedUnnamed(kind, "initial", <<kind, 0>>)
                \/ Refused(kind, "initial", <<kind, 0>>, "rejected")
             /\ more
          \/ AnswerLost(kind, "initial", <<kind, 0>>) /\ Finish
       /\ UNCHANGED <<status, pos, entries>>

-----------------------------------------------------------------------------
(* cancel_trade, and close_position which begins with it *)

BeginCancel == op' = [Op("cancel") EXCEPT !.i = 0]
BeginClose == op' = [Op("cancel") EXCEPT !.i = 0, !.closing = TRUE]

\* The rows that were submitted when the loop reaches them, in order.
ToCancel == {i \in Submitted : i > op.i}

Withdrawn(i) == {o \in book : o[1] = i}

\* Accepted, or the order is gone already (102068), which is as good; refused;
\* refused in the item of an answer whose own code is "0", which is taken for
\* accepted; no answer.
CancelAnswer(i) ==
    \/ SetRow(i, "canceled") /\ book' = book \ Withdrawn(i)
    \/ Refusal /\ Withdrawn(i) # {} /\ UNCHANGED <<rows, book>>
    \/ Refusal /\ SetRow(i, "canceled") /\ UNCHANGED book
    \/ Transport /\ UNCHANGED rows /\ book' \in {book, book \ Withdrawn(i)}

CancelOrder(i) ==
    /\ op.pc = "cancel" /\ First(ToCancel, i)
    /\ CancelAnswer(i)
    /\ op' = [op EXCEPT !.i = i]
    /\ UNCHANGED <<status, pos, entries>>

CancelDone ==
    /\ op.pc = "cancel" /\ ToCancel = {}
    /\ status' = "canceled"
    /\ IF op.closing THEN Goto("positions") ELSE Finish
    /\ UNCHANGED <<rows, venue>>

\* The position is read after the orders were withdrawn; a flat one closes the
\* trade, an exception leaves it canceled.
ReadPosition ==
    /\ op.pc = "positions"
    /\ \/ Transport /\ Finish /\ UNCHANGED status
       \/ pos > 0 /\ Goto("close") /\ UNCHANGED status
       \/ pos = 0 /\ Finish /\ status' = "closed"
    /\ UNCHANGED <<rows, venue>>

\* The whole position at market.  The client raises a refusal; one in the item of
\* an answer whose own code is "0" is taken for a close.
MarketClose ==
    /\ op.pc = "close"
    /\ \/ /\ pos > 0 /\ Leaves(EntrySize, book)
          /\ status' = "closed" \/ (Transport /\ UNCHANGED status)
       \/ (Refusal \/ Transport \/ pos = 0) /\ UNCHANGED <<status, book, pos>>
       \/ Refusal /\ status' = "closed" /\ UNCHANGED <<book, pos>>
    /\ Finish
    /\ UNCHANGED <<rows, entries>>

-----------------------------------------------------------------------------
(* move_stop_loss *)

\* There is an active stop and it is not at the level already.
Movable(i, level) == First(ActiveStops, i) /\ rows[i].level # level

\* The market may be past the level, and then nothing is done.  (Bound: MaxStops.)
BeginMove(level) ==
    \/ UNCHANGED op
    \/ \E i \in ActiveStops :
          /\ Movable(i, level) /\ Cardinality(StopRows) < MaxStops
          /\ op' = [Op("new_stop") EXCEPT !.i = i, !.level = level]

\* Mutant: the replacement goes by the id of the first stop.
NewStopSameId == <<"stop", 0>>
\* The replacement's client id counts all stop rows, whatever became of them.
NewStopId == <<"stop", Cardinality(StopRows)>>

\* Mutant: the old stop is withdrawn first.
PlaceNewStopLast ==
    /\ op.pc = "new_stop"
    /\ \E st \in {"submitted", "rejected"} :
         /\ rows' = Append([rows EXCEPT ![op.i].st = "canceled"],
                           [kind |-> "stop", level |-> op.level, st |-> st])
         /\ book' = (book \ Withdrawn(op.i))
                    \cup (IF st = "submitted" THEN {<<NewRow, NewStopId>>} ELSE {})
    /\ Finish
    /\ UNCHANGED <<status, pos, entries>>

\* The new stop is placed before the old one is touched; without an id in the
\* answer it counts as refused.
PlaceNewStop ==
    /\ op.pc = "new_stop"
    /\ \/ Accepted("stop", op.level, NewStopId) /\ Goto("old_stop")
       \/ /\ \/ AcceptedUnnamed("stop", op.level, NewStopId)
             \/ Refused("stop", op.level, NewStopId, "rejected")
             \/ AnswerLost("stop", op.level, NewStopId)
          /\ Finish
    /\ UNCHANGED <<status, pos, entries>>

\* When it fails both stops stay, each of them reduce-only.
CancelOldStop ==
    /\ op.pc = "old_stop"
    /\ CancelAnswer(op.i)
    /\ Finish
    /\ UNCHANGED <<status, pos, entries>>

-----------------------------------------------------------------------------
(* sync_positions: three reads, and a decision when all were answered *)

ReadFails ==
    /\ op.pc \in {"sync_positions", "sync_orders", "sync_tpsl"} /\ Transport
    /\ Finish
    /\ UNCHANGED <<store, venue>>

SyncPositions ==
    /\ op.pc = "sync_positions"
    /\ op' = [op EXCEPT !.pc = "sync_orders", !.held = pos > 0]
    /\ UNCHANGED <<store, venue>>

EntryRests == \E o \in book : rows[o[1]].kind = "entry" /\ HasId(o[1])

\* Mutant: only the conditionals' ids are collected.
SyncOrdersTpsl ==
    /\ op.pc = "sync_orders"
    /\ Goto("sync_tpsl")
    /\ UNCHANGED <<store, venue>>

SyncOrders ==
    /\ op.pc = "sync_orders"
    /\ op' = [op EXCEPT !.pc = "sync_tpsl", !.rests = EntryRests]
    /\ UNCHANGED <<store, venue>>

SyncDecide ==
    /\ op.pc = "sync_tpsl"
    /\ status' = CASE status = "open" /\ ~op.held -> "closed"
                   [] status = "pending" /\ ~op.rests ->
                        IF op.held THEN "open" ELSE "canceled"
                   [] OTHER -> status
    /\ Finish
    /\ UNCHANGED <<rows, venue>>

HandlerStep ==
    \/ PlaceEntry \/ SubmitTpsl \/ CancelDone \/ ReadPosition \/ MarketClose
    \/ PlaceNewStop \/ CancelOldStop
    \/ ReadFails \/ SyncPositions \/ SyncOrders \/ SyncDecide
    \/ \E i \in DOMAIN rows : CancelOrder(i)

=============================================================================
