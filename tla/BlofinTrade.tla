---------------------------- MODULE BlofinTrade ----------------------------
(***************************************************************************)
(* A Blofin trade under the provider's messages, the sweep and the faults, *)
(* and what its manager keeps.  The handlers are those of Pipeline; here   *)
(* the manager behind them is BlofinManager.                               *)
(***************************************************************************)
EXTENDS BlofinManager

\* _mark_order_filled and _cancel_remaining_orders_of_types on the rows R.
Marked(R, st) ==
    [i \in DOMAIN rows |-> IF i \in R /\ rows[i].st = "submitted"
                           THEN [rows[i] EXCEPT !.st = st] ELSE rows[i]]
OfKind(K) == {i \in Submitted : rows[i].kind \in K}
FirstOf(K) == {i \in OfKind(K) : First(OfKind(K), i)}

\* _promote_to_open_if_filled.
Promotes ==
    \/ status = "pending" /\ (pos > 0 \/ Transport) /\ status' = "open"
    \/ (status # "pending" \/ pos = 0) /\ UNCHANGED status

TradeLive ==
    /\ Idle /\ status # "none"
    /\ rows' = Marked(FirstOf({"entry"}), "filled")
    /\ Promotes
    /\ UNCHANGED <<op, venue>>

TpHit(k) ==
    /\ Idle /\ status \in Live
    /\ rows' = Marked(FirstOf({k}), "filled")
    /\ Promotes
    /\ IF k = BreakevenAfter /\ status' = "open" THEN BeginMove("entry") ELSE UNCHANGED op
    /\ UNCHANGED venue

\* The all-targets message and the stop message settle the trade in the store.
AllTpHit ==
    /\ Idle /\ status \in Live
    /\ rows' = [i \in DOMAIN rows |->
                  IF rows[i].kind \in TpKinds THEN Marked(FirstOf({rows[i].kind}), "filled")[i]
                  ELSE Marked(OfKind({"stop"}), "canceled")[i]]
    /\ status' = "closed"
    /\ UNCHANGED <<op, venue>>

StopHit ==
    /\ Idle /\ status \in Live
    /\ rows' = [i \in DOMAIN rows |->
                  IF rows[i].kind = "stop" THEN Marked(FirstOf({"stop"}), "filled")[i]
                  ELSE Marked(OfKind(TpKinds), "canceled")[i]]
    /\ status' = "closed"
    /\ UNCHANGED <<op, venue>>

Move(level) ==
    /\ Idle /\ status = "open"
    /\ BeginMove(level)
    /\ UNCHANGED <<store, venue>>

Canceled ==
    /\ Idle /\ status # "none"
    /\ \/ pos > 0 /\ BeginClose
       \/ pos = 0 /\ BeginCancel
       \/ Transport /\ IF status = "open" THEN BeginClose ELSE BeginCancel
    /\ UNCHANGED <<store, venue>>

TradeClosed ==
    /\ Idle /\ status # "none"
    /\ IF status = "open" THEN BeginClose /\ UNCHANGED status
                          ELSE status' = "closed" /\ UNCHANGED op
    /\ UNCHANGED <<rows, venue>>

\* The kill switch.
KillSwitch ==
    /\ Idle /\ status \in Live
    /\ BeginClose
    /\ UNCHANGED <<store, venue>>

\* The chat's approve, reject and close buttons go to the Hyperliquid manager, which
\* reaches no Blofin order: what it does before it fails is to mark the trade.
Buttons ==
    /\ Idle
    /\ \/ status = "pending" /\ status' = "canceled"
       \/ status = "open" /\ (pos > 0 \/ Transport) /\ status' = "canceled"
       \/ status = "open" /\ pos = 0 /\ status' = "closed"
    /\ UNCHANGED <<rows, op, venue>>

Sync ==
    /\ Idle /\ op' = Op("sync_positions")
    /\ UNCHANGED <<store, venue>>

\* The process dies in whatever it does and starts again with a sync.
Crash ==
    /\ "crash" \in Faults
    /\ op' = Op("sync_positions")
    /\ UNCHANGED <<store, venue>>

Messages ==
    \/ SubmitTrade \/ TradeLive \/ AllTpHit \/ StopHit \/ Canceled \/ TradeClosed
    \/ \E k \in {"tp1", "tp2", "tp3"} : TpHit(k)
    \/ \E level \in {"entry", "update"} : Move(level)

Init ==
    /\ status = "none" /\ rows = <<>> /\ op = Op("idle")
    /\ book = {} /\ pos = 0 /\ entries = 0

Next == HandlerStep \/ Messages \/ KillSwitch \/ Buttons \/ Sync \/ Crash \/ VenueMoves

Spec == Init /\ [][Next]_vars

=============================================================================
