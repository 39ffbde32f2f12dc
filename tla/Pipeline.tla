------------------------------ MODULE Pipeline ------------------------------
(***************************************************************************)
(* One user's pipeline: the provider's messages, the Telegram buttons, the *)
(* confirmation sweep and the reconciliation sweep act on the trades; each *)
(* handler runs to its end before another starts, the venue moves at any   *)
(* time and the process may die at any time.                               *)
(*                                                                         *)
(* The provider's messages are unconstrained: lost, repeated, late, out of *)
(* order, wrong.  The auto_execute setting may change between messages, so *)
(* a message it silences is one that does not happen.  A pause, which is   *)
(* in memory only, silences all of them and keeps both sweeps away.        *)
(***************************************************************************)
EXTENDS PositionManager

-----------------------------------------------------------------------------
(* _handle_signal *)

\* Mutant: a trade that needs confirmation is submitted at once.
SignalUngated(t, g) ==
    /\ Idle /\ status[t] = "none"
    /\ SetStatus(t, "pending")
    /\ gate' = [gate EXCEPT ![t] = g]
    /\ BeginSubmit("signal", t)
    /\ UNCHANGED <<rows, price, user, credited, venue>>

\* The row of a new trade; only a trade admitted at once is submitted now.  A
\* known trade id is skipped, as is a signal the port, size or risk gates stop.
Signal(t, g) ==
    /\ Idle /\ status[t] = "none"
    /\ SetStatus(t, "pending")
    /\ gate' = [gate EXCEPT ![t] = g]
    /\ IF g = "auto" THEN BeginSubmit("signal", t) ELSE UNCHANGED op
    /\ UNCHANGED <<rows, price, user, credited, venue>>

-----------------------------------------------------------------------------
(* Lifecycle messages *)

Marked(st, mark) == IF st = "submitted" THEN mark ELSE st

\* PENDING becomes OPEN when the venue shows a position on the coin, or when
\* the venue cannot be asked.
Promotes(t) ==
    \/ /\ status[t] = "pending" /\ (HasPosition(CoinOf[t]) \/ ReadFails)
       /\ SetStatus(t, "open")
    \/ (status[t] # "pending" \/ ~HasPosition(CoinOf[t])) /\ UNCHANGED status

TradeLive(t) ==
    /\ Idle /\ status[t] # "none"
    /\ rows' = [rows EXCEPT ![t]["entry"] = Marked(@, "filled")]
    /\ Promotes(t)
    /\ UNCHANGED <<gate, price, op, user, credited, venue>>

\* A take-profit was hit, be it one that was not placed: the stop moves to the
\* entry when the preset says so and the trade is open by now.
TpHit(t, k) ==
    /\ Idle /\ status[t] \in Live
    /\ rows' = [rows EXCEPT ![t] = [s \in Slots |->
                    IF s = k THEN Marked(@[s], "filled") ELSE @[s]]]
    /\ Promotes(t)
    /\ IF k = BreakevenAfter /\ status'[t] = "open"
         THEN BeginMove(t, "entry") ELSE UNCHANGED op
    /\ UNCHANGED <<gate, price, user, credited, venue>>

\* _close_with_realized_pnl: the trade is closed in one database, then its
\* profit or loss is applied to the port in the other.
CloseWithPnl(t) == SetStatus(t, "closed") /\ op' = Op("apply", "pnl", t)

\* Mutant: a closed trade is closed, and credited, again.
AllTpHitAgain(t) ==
    /\ Idle /\ status[t] # "none"
    /\ CloseWithPnl(t)
    /\ UNCHANGED <<gate, rows, price, user, credited, venue>>

AllTpHit(t) ==
    /\ Idle /\ status[t] \in Live
    /\ rows' = [rows EXCEPT ![t] = [s \in Slots |->
                    CASE s \in TPs -> Marked(@[s], "filled")
                      [] s \in Stops -> Marked(@[s], "canceled")
                      [] OTHER -> @[s]]]
    /\ CloseWithPnl(t)
    /\ UNCHANGED <<gate, price, user, credited, venue>>

\* Mutant: no terminal guard, so a repeated message is credited again.
StopHitAgain(t) ==
    /\ Idle /\ status[t] # "none"
    /\ CloseWithPnl(t)
    /\ UNCHANGED <<gate, rows, price, user, credited, venue>>

StopHit(t) ==
    /\ Idle /\ status[t] \in Live
    /\ rows' = [rows EXCEPT ![t] = [s \in Slots |->
                    CASE s \in TPs -> Marked(@[s], "canceled")
                      [] IsFirst(s, ActiveStops(t)) -> "filled"
                      [] OTHER -> @[s]]]
    /\ CloseWithPnl(t)
    /\ UNCHANGED <<gate, price, user, credited, venue>>

\* A failure to write the port is caught and logged.
ApplyPnl ==
    /\ op.pc = "apply"
    /\ credited' \in {credited, [credited EXCEPT ![op.t] = @ + 1]}
    /\ Finish
    /\ UNCHANGED <<db, user, venue>>

Breakeven(t) ==
    /\ Idle /\ status[t] = "open"
    /\ BeginMove(t, "entry")
    /\ UNCHANGED <<db, user, credited, venue>>

\* A manual update with a new stop price.
ManualUpdate(t) ==
    /\ Idle /\ status[t] = "open"
    /\ BeginMove(t, "update")
    /\ UNCHANGED <<db, user, credited, venue>>

\* Position and orders are the venue's word: a position on the coin is closed,
\* whatever the trade's status; on a failed read the status decides.
Canceled(t) ==
    /\ Idle /\ status[t] # "none"
    /\ \/ HasPosition(CoinOf[t]) /\ BeginClose(t)
       \/ ~HasPosition(CoinOf[t]) /\ BeginCancel(t)
       \/ ReadFails /\ IF status[t] = "open" THEN BeginClose(t) ELSE BeginCancel(t)
    /\ UNCHANGED <<db, user, credited, venue>>

TradeClosed(t) ==
    /\ Idle /\ status[t] # "none"
    /\ IF status[t] = "open"
         THEN BeginClose(t) /\ UNCHANGED status
         ELSE SetStatus(t, "closed") /\ UNCHANGED op
    /\ UNCHANGED <<gate, rows, price, user, credited, venue>>

Messages ==
    /\ ~paused
    /\ \E t \in Trades :
          \/ \E g \in Gates : Signal(t, g)
          \/ \E k \in {"tp1", "tp2", "tp3"} : TpHit(t, k)
          \/ TradeLive(t) \/ AllTpHit(t) \/ StopHit(t) \/ Breakeven(t)
          \/ ManualUpdate(t) \/ Canceled(t) \/ TradeClosed(t)

-----------------------------------------------------------------------------
(* What a caller does with an exception of the position manager *)

HandleRaised ==
    /\ op.pc = "raised"
    /\ IF op.h = "approve" \/ (op.h = "signal" /\ IsSubmissionError)
         THEN SetStatus(op.t, "canceled") ELSE UNCHANGED status
    /\ Finish
    /\ UNCHANGED <<gate, rows, price, user, credited, venue>>

-----------------------------------------------------------------------------
(* The Telegram buttons of a trade *)

\* Mutant: the status is not looked at again when the button is pressed.
ApproveAnyway(t) ==
    /\ Idle /\ status[t] # "none" /\ rows[t]["entry"] = "none"
    /\ BeginSubmit("approve", t)
    /\ approved' = approved \cup {t}
    /\ UNCHANGED <<db, sweep, overdue, paused, credited, venue>>

\* A trade of size 0, or one whose orders cannot be built from its row, is
\* canceled instead.  (Bound: a trade is submitted once, so the Approve button
\* that the calls view also shows beside a submitted trade is not pressed.)
Approve(t) ==
    /\ Idle /\ status[t] = "pending" /\ rows[t]["entry"] = "none"
    /\ \/ SetStatus(t, "canceled") /\ UNCHANGED <<op, approved>>
       \/ /\ gate[t] # "tiny"
          /\ BeginSubmit("approve", t)
          /\ approved' = approved \cup {t}
          /\ UNCHANGED status
    /\ UNCHANGED <<gate, rows, price, sweep, overdue, paused, credited, venue>>

Reject(t) ==
    /\ Idle /\ status[t] = "pending"
    /\ SetStatus(t, "canceled")
    /\ UNCHANGED <<gate, rows, price, op, user, credited, venue>>

ConfirmClose(t) ==
    /\ Idle /\ status[t] \in Live
    /\ IF status[t] = "pending" THEN BeginCancel(t) ELSE BeginClose(t)
    /\ UNCHANGED <<db, user, credited, venue>>

\* The kill switch closes each trade that is not terminal.
KillSwitch(t) ==
    /\ Idle /\ status[t] \in Live
    /\ BeginClose(t)
    /\ UNCHANGED <<db, user, credited, venue>>

\* The close button of a raw position: the store is not touched.
ConfirmClosePos(c) ==
    /\ Idle
    /\ \E n \in 1..pos[c] : Reduce(c, n, resting)
    /\ UNCHANGED <<db, op, user, credited>>

\* pause_user, resume_user.
Pause ==
    /\ Idle /\ "pause" \in Faults
    /\ paused' = ~paused
    /\ UNCHANGED <<db, op, sweep, overdue, approved, credited, venue>>

Buttons ==
    \/ Pause
    \/ \E t \in Trades : Approve(t) \/ Reject(t) \/ ConfirmClose(t) \/ KillSwitch(t)
    \/ \E c \in Coins : ConfirmClosePos(c)

-----------------------------------------------------------------------------
(* The sweeps *)

Timeout(t) ==
    /\ status[t] = "pending" /\ gate[t] = "confirm" /\ t \notin overdue
    /\ overdue' = overdue \cup {t}
    /\ UNCHANGED <<db, op, sweep, approved, paused, credited, venue>>

\* A pass reads the expired ids of a user who is not paused once and declines the
\* first; the others follow one by one, each after the await of the notification
\* before it.
Decline(t, rest) ==
    /\ Idle
    /\ SetStatus(t, "canceled")
    /\ sweep' = rest \ {t}
    /\ UNCHANGED <<gate, rows, price, op, overdue, approved, paused, credited, venue>>

SweepStart ==
    /\ ~paused /\ sweep = {}
    /\ \E t \in ExpiredConfirmations : Decline(t, ExpiredConfirmations)
SweepNext == \E t \in sweep : Decline(t, sweep)

\* A tick passes over a user who is paused.
ReconcileTick ==
    /\ Idle /\ ~paused
    /\ BeginSync
    /\ UNCHANGED <<db, user, credited, venue>>

Sweeps == SweepStart \/ SweepNext \/ ReconcileTick \/ \E t \in Trades : Timeout(t)

-----------------------------------------------------------------------------
(* The process dies, losing the running handler, the sweep's list and the    *)
(* pause, and starts again with a sync.                                      *)

Crash ==
    /\ "crash" \in Faults
    /\ BeginSync
    /\ sweep' = {} /\ paused' = FALSE
    /\ UNCHANGED <<db, overdue, approved, credited, venue>>

-----------------------------------------------------------------------------

Init ==
    /\ status = [t \in Trades |-> "none"]
    /\ gate = [t \in Trades |-> "auto"]
    /\ rows = [t \in Trades |-> [s \in Slots |-> "none"]]
    /\ price = [t \in Trades |-> [s \in Stops |-> "initial"]]
    /\ op = IdleOp
    /\ sweep = {} /\ overdue = {} /\ approved = {} /\ paused = FALSE
    /\ credited = [t \in Trades |-> 0]
    /\ resting = {}
    /\ pos = [c \in Coins |-> 0]

\* A step of the handler that is running.
HandlerStep == Submit \/ Close \/ MoveStop \/ Sync \/ ApplyPnl \/ HandleRaised

Next == HandlerStep \/ Messages \/ Buttons \/ Sweeps \/ Crash \/ VenueMoves

Spec == Init /\ [][Next]_vars

=============================================================================
