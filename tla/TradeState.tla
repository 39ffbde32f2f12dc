----------------------------- MODULE TradeState -----------------------------
(***************************************************************************)
(* The state the bot keeps for one user, beside the state of the venue it  *)
(* trades on.  The bot's side is the SQLite store (trades and orders       *)
(* tables), the one handler that runs on the event loop and the list a     *)
(* confirmation sweep holds across an await.  The venue's side is the set  *)
(* of resting orders and the size of the position on each coin; it changes *)
(* between any two HTTP calls of the bot.                                  *)
(*                                                                         *)
(* Abstractions: every trade is on the long side, an entry opens EntrySize *)
(* units, a take-profit closes one unit and a stop closes EntrySize units; *)
(* an order fills whole, only a market close may fill in part.             *)
(* A trade is submitted at most once, so that an order row is named by its *)
(* place in the trade: the entry, the stops in the order they were placed, *)
(* the take-profits.                                                       *)
(***************************************************************************)
EXTENDS Integers

CONSTANTS
    Trades,         \* provider trade ids
    NoTrade,        \* no trade: the trade of an idle event loop
    Coins,          \* coins of the venue
    CoinOf,         \* the coin each trade is on
    TPs,            \* the take-profits whose size does not round to zero
    Stops,          \* order rows for stops (bound: one initial stop, the moves)
    EntrySize,      \* units an entry order opens
    MaxRetries,     \* retries of an order request after a transient error
    BreakevenAfter, \* the preset's take-profit that moves the stop, or "none"
    Gates,          \* the ways a signal may be admitted
    Faults          \* what may go wrong around the bot

ASSUME NoTradeAssumption == NoTrade \notin Trades
ASSUME CoinOfAssumption == CoinOf \in [Trades -> Coins]
ASSUME SlotsAssumption ==
    /\ TPs \subseteq {"tp1", "tp2", "tp3"}
    /\ Stops \subseteq {"sl1", "sl2", "sl3"} /\ "sl1" \in Stops
ASSUME SizeAssumption == EntrySize \in Nat \ {0} /\ MaxRetries \in Nat
ASSUME GatesAssumption == Gates \subseteq {"auto", "confirm", "manual", "tiny"}

\* "crash": the process dies; "transport": an order or cancel request raises, its
\* effect on the venue unknown; "read": a request that only reads raises; "refusal":
\* the venue refuses a request; "noid": its answer to an order names no order;
\* "drop": it drops a resting entry; "linger": it keeps the reduce-only orders of a
\* flat position; "pause": the user pauses the bot.
ASSUME FaultsAssumption ==
    Faults \subseteq {"crash", "transport", "read", "refusal", "noid", "drop", "linger",
                     "pause"}

VARIABLES
    status,     \* trades.status of each trade; "none" before its row exists
    gate,       \* how the trade was admitted: submitted at once, held for
                \*   confirmation, recorded for the user, recorded with size 0
    rows,       \* orders.status of each order row; "none" before it exists
    price,      \* which price a stop row was placed at
    op,         \* the handler that is running
    sweep,      \* expired trades a confirmation sweep still has to decline
    overdue,    \* held trades older than the confirmation timeout
    approved,   \* trades whose Approve button was pressed
    paused,     \* the user's pipeline is paused
    credited,   \* how often a trade's profit or loss was applied to the port
    resting,    \* orders on the venue's book
    pos         \* units of the position on each coin

db == <<status, gate, rows, price>>
user == <<sweep, overdue, approved, paused>>
venue == <<resting, pos>>
vars == <<db, op, user, credited, venue>>

-----------------------------------------------------------------------------
(* The values of the state *)

Live == {"pending", "open"}
Terminal == {"closed", "canceled"}
TradeStatus == {"none"} \cup Live \cup Terminal
OrderStatus == {"none", "pending", "submitted", "filled", "canceled", "rejected"}

Slots == {"entry"} \cup Stops \cup TPs

\* An order request that was carried out although its answer was lost leaves
\* an entry on the venue that no row knows: the "ghost".
Entries == {"entry", "ghost"}
VenueOrders == Trades \X (Slots \cup Entries)

Levels == {"initial", "entry", "update"}

\* The points at which a handler stops for a call to the venue.
SubmitPcs == {"leverage", "place_entry", "place_orders"}
CancelPcs == {"cancel", "positions", "ioc"}
MovePcs == {"new_stop", "old_stop"}
SyncPcs == {"read_positions", "read_orders"}
Pcs == {"idle", "raised", "apply"} \cup SubmitPcs \cup CancelPcs \cup MovePcs
       \cup SyncPcs
Handlers == {"none", "signal", "approve", "cancel", "close", "move", "pnl", "sync"}

Ops == [pc: Pcs, h: Handlers, t: Trades \cup {NoTrade}, todo: SUBSET Slots,
        slot: Slots, px: Levels, seen: SUBSET Coins, tries: 0..MaxRetries]

\* A handler that starts, or that an exception ends, has no other detail.
Op(pc, h, t) == [pc |-> pc, h |-> h, t |-> t, todo |-> {}, slot |-> "entry",
                 px |-> "initial", seen |-> {}, tries |-> 0]
IdleOp == Op("idle", "none", NoTrade)
Idle == op = IdleOp

TypeOK ==
    /\ status \in [Trades -> TradeStatus]
    /\ gate \in [Trades -> {"auto", "confirm", "manual", "tiny"}]
    /\ rows \in [Trades -> [Slots -> OrderStatus]]
    /\ price \in [Trades -> [Stops -> Levels]]
    /\ op \in Ops
    /\ sweep \subseteq Trades /\ overdue \subseteq Trades /\ approved \subseteq Trades
    /\ paused \in BOOLEAN
    /\ credited \in [Trades -> Nat]
    /\ resting \subseteq VenueOrders
    /\ pos \in [Coins -> Nat]

-----------------------------------------------------------------------------
(* The trades and orders tables *)

\* The id order of a trade's rows: entry, first stop, take-profits, and then
\* the stops that replaced it.
Rank(s) == CASE s = "entry" -> 1 [] s = "sl1" -> 2 [] s = "tp1" -> 3
             [] s = "tp2" -> 4 [] s = "tp3" -> 5 [] s = "sl2" -> 6 [] OTHER -> 7
IsFirst(s, S) == s \in S /\ \A r \in S : Rank(s) <= Rank(r)

SetStatus(t, s) == status' = [status EXCEPT ![t] = s]
SetRow(t, s, st) == rows' = [rows EXCEPT ![t][s] = st]

Submitted(t) == {s \in Slots : rows[t][s] = "submitted"}
IsTerminal(t) == status[t] \in Terminal

\* Ids with an expired confirmation: held, still pending, past the cutoff.
ExpiredConfirmations ==
    {t \in overdue : status[t] = "pending" /\ gate[t] = "confirm"}

-----------------------------------------------------------------------------
(* The venue *)

HasPosition(c) == pos[c] > 0
ReduceOnly(c) == {o \in resting : CoinOf[o[1]] = c /\ o[2] \notin Entries}

\* Taking n units off the position of coin c.  When it is flat the venue drops
\* the reduce-only orders of the coin.
Reduce(c, n, book) ==
    /\ pos' = [pos EXCEPT ![c] = IF @ > n THEN @ - n ELSE 0]
    /\ \/ pos[c] <= n /\ resting' = book \ ReduceOnly(c)
       \/ (pos[c] > n \/ "linger" \in Faults) /\ resting' = book

\* A resting entry fills.
EntryFills(t, e) ==
    /\ <<t, e>> \in resting /\ e \in Entries
    /\ resting' = resting \ {<<t, e>>}
    /\ pos' = [pos EXCEPT ![CoinOf[t]] = @ + EntrySize]
    /\ UNCHANGED <<db, op, user, credited>>

\* A stop or a take-profit triggers; it is reduce-only.
ExitFills(t, s) ==
    /\ <<t, s>> \in resting /\ s \notin Entries
    /\ HasPosition(CoinOf[t])
    /\ Reduce(CoinOf[t], IF s \in TPs THEN 1 ELSE EntrySize, resting \ {<<t, s>>})
    /\ UNCHANGED <<db, op, user, credited>>

\* The venue drops an entry (margin, expiry, the user's own hand).
EntryDropped(t, e) ==
    /\ "drop" \in Faults
    /\ <<t, e>> \in resting /\ e \in Entries
    /\ resting' = resting \ {<<t, e>>}
    /\ UNCHANGED <<db, op, user, credited, pos>>

VenueMoves ==
    \E t \in Trades :
        \/ \E e \in Entries : EntryFills(t, e) \/ EntryDropped(t, e)
        \/ \E s \in Stops \cup TPs : ExitFills(t, s)

=============================================================================
