---------------------------- MODULE PipelineProps ----------------------------
(* The properties of Pipeline. *)
EXTENDS Pipeline

\* The profit or loss of a trade is applied to the port at most once, however
\* often the provider repeats a stop or an all-targets message, whatever crash
\* falls between closing the trade and writing the port; and a trade whose
\* result was applied is terminal (_close_with_realized_pnl, _is_terminal).
PnlAtMostOnce ==
    \A t \in Trades : credited[t] <= 1 /\ (credited[t] = 1 => IsTerminal(t))

\* A closed or canceled trade never becomes pending or open again: not by a late
\* message, not by a submission or a sync that was under way when it ended
\* (update_trade_status has no guard of its own).
NeverResurrected ==
    [][\A t \in Trades : IsTerminal(t) => status'[t] \in Terminal]_vars

\* A trade held for the user (large on mainnet, or auto_execute off) has no order
\* on the venue and no order row before its Approve button is pressed: no
\* message, sweep, sync or restart submits it (requires_confirmation).
HeldNeverOnVenue ==
    \A t \in Trades : status[t] # "none" /\ gate[t] # "auto" /\ t \notin approved =>
        /\ \A s \in Slots : rows[t][s] = "none"
        /\ \A s \in Slots \cup Entries : <<t, s>> \notin resting

Protected(t) == \E s \in Stops : <<t, s>> \in resting
StopAccepted(t) == \E s \in Stops : rows[t][s] \in {"submitted", "filled"}

\* No step of a stop move takes away the last stop of the trade: afterwards a
\* stop rests on the venue, or one the venue accepted and the bot has not
\* withdrawn was consumed by the venue (move_stop_loss).
StopKeptDuringMove ==
    [][\A t \in Trades :
        op.pc \in MovePcs /\ op.t = t /\ op' # op /\ Protected(t)
            => Protected(t)' \/ StopAccepted(t)']_vars

Alone(t) == \A u \in Trades \ {t} : CoinOf[u] # CoinOf[t]

\* When no order request fails and the process lives, a position on the coin of a trade
\* the store counts as live has a stop on the venue whenever no handler runs:
\* from the submission, through every move, to the close.
LivePositionCovered ==
    \A t \in Trades :
        Idle /\ Alone(t) /\ status[t] \in Live /\ HasPosition(CoinOf[t])
            => Protected(t)

\* The invariant its proof goes by.  Until the entry is sent the trade has nothing
\* on the venue; it opens one position, and while that may come or is held, the
\* stop is the next order of the submission, or rests, or is being canceled.
Unsent(t) ==
    /\ ~HasPosition(CoinOf[t])
    /\ \A s \in Slots \cup Entries : <<t, s>> \notin resting
    /\ \A s \in Slots \ {"entry"} : rows[t][s] = "none"
EntryAhead(t) == rows[t]["entry"] = "none" \/ (op.pc = "place_entry" /\ op.t = t)
Backed(t) == <<t, "entry">> \in resting \/ HasPosition(CoinOf[t])
StopAhead(t) == op.t = t /\ op.pc = "place_orders" /\ "sl1" \in op.todo
Withdrawing(t) == op.t = t /\ op.pc = "cancel"
Replacing(t) == op.t = t /\ op.pc = "old_stop"

OneEntry(t) ==
    /\ <<t, "ghost">> \notin resting
    /\ <<t, "entry">> \in resting => ~HasPosition(CoinOf[t])
    /\ pos[CoinOf[t]] <= EntrySize
    /\ EntryAhead(t) => Unsent(t)
Covers(t) ==
    status[t] \in Live /\ Backed(t) =>
        \/ StopAhead(t) \/ Withdrawing(t)
        \/ /\ Protected(t)
           /\ Replacing(t) => \E s \in Stops \ {op.slot} : <<t, s>> \in resting

SubmitKnows ==
    /\ op.pc = "leverage" => rows[op.t]["entry"] = "none"
    /\ op.pc = "place_orders" => rows[op.t]["entry"] # "none" /\ "entry" \notin op.todo
CoverInv == SubmitKnows /\ \A t \in Trades : Alone(t) => OneEntry(t) /\ Covers(t)

\* The pipeline implements the ledger of TradeLedger.
Life == [t \in Trades |-> IF status[t] = "none" THEN "none"
                          ELSE IF status[t] \in Live THEN "live" ELSE "settled"]
Owed == IF op.pc = "apply" THEN {op.t} ELSE {}

Ledger == INSTANCE TradeLedger WITH life <- Life, owed <- Owed

\* Every behaviour is one of the ledger: trades are admitted once, settled once,
\* and credited at most once after that.
LedgerSpec == Ledger!Spec

\* The invariant the proofs go by.  While a handler is between two calls, no
\* other changes what it read when it started: the trade it works for exists, a
\* trade being submitted is live, and a trade whose result is about to reach the
\* port is closed and was never credited.
HandlerOwnsTrade ==
    /\ op.pc \notin {"idle"} \cup SyncPcs => op.t \in Trades /\ status[op.t] # "none"
    /\ op.pc \in SubmitPcs => status[op.t] \in Live
    /\ op.pc = "apply" => status[op.t] = "closed" /\ credited[op.t] = 0

SweepKnown == \A t \in sweep : status[t] # "none"

IInv == TypeOK /\ HandlerOwnsTrade /\ SweepKnown /\ PnlAtMostOnce

-----------------------------------------------------------------------------
(* Liveness.  The event loop runs the handler that was started, and a venue    *)
(* that is asked again and again answers at last.  The reconciliation loop is  *)
(* woken every interval, whatever other handlers do in between; only of a user *)
(* who is not paused from some time on is it certain that a tick finds him so. *)

TickFair == []<>paused \/ SF_vars(ReconcileTick)
FairSpec == Spec /\ WF_vars(HandlerStep) /\ TickFair
                 /\ SF_vars(ReadPositions /\ ~Idle') /\ SF_vars(ReadOrders)

\* Nothing on the venue stands behind a live trade: no position on its coin, no
\* resting entry.
Hollow(t) ==
    /\ status[t] \in Live
    /\ ~HasPosition(CoinOf[t])
    /\ \A e \in Entries : <<t, e>> \notin resting

\* A trade the venue has nothing of does not stay live in the store for ever,
\* though its closing message was missed, unless its user pauses again and again or
\* for good (reconcile_positions, the skip of sweep_once).
HollowReconciled == \A t \in Trades : Hollow(t) ~> ~Hollow(t) \/ paused

-----------------------------------------------------------------------------
(* What the documentation says and the code does not do *)

\* close_position: a refused or unfilled market close leaves the trade's status
\* as it was ("the trade status is ALSO left untouched").
FailedCloseNotTerminal ==
    op.pc = "raised" /\ op.h = "close" /\ IsSubmissionError => ~IsTerminal(op.t)

\* A held trade waits for the user until its timeout: the sync does not decide
\* it ("if you don't respond, the trade is auto-declined").
HeldUntilTimeout ==
    [][\A t \in Trades :
        status[t] = "pending" /\ gate[t] = "confirm" /\ t \notin approved \cup overdue
            /\ op.h = "sync" => status'[t] = "pending"]_vars

\* A trade whose user did respond is not declined by the confirmation sweep
\* ("if the user doesn't respond within ... this sweeper auto-declines").
AnswerHonoured ==
    [][\A t \in approved :
        status[t] \in Live /\ (SweepStart \/ SweepNext) => status'[t] \in Live]_vars

\* After a cancel message no position is left that nothing covers and the store
\* counts as over (the NEAR/#2126 case of _handle_canceled).
CancelLeavesNoPosition ==
    [][\A t \in Trades :
        op.pc = "cancel" /\ op.h = "cancel" /\ op.t = t /\ Idle'
            => ~(HasPosition(CoinOf[t]) /\ ~Protected(t))]_vars

=============================================================================
