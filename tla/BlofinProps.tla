---------------------------- MODULE BlofinProps ----------------------------
(* The properties of BlofinTrade. *)
EXTENDS BlofinTrade

TypeOK ==
    /\ status \in TradeStatus
    /\ \A i \in DOMAIN rows : rows[i] \in Row
    /\ op \in Ops
    /\ \A o \in book : o[1] \in DOMAIN rows /\ o[2] \in Ids
    /\ pos \in Nat /\ entries \in Nat

\* No request is refused because the trade itself has a live order under its
\* client id: not a stop that replaces another, after any moves that failed,
\* were refused or lost their answer ("Duplicate customized order ID", guard 3
\* of move_stop_loss).
NextId ==
    CASE op.pc = "entry" -> EntryId
      [] op.pc = "tpsl" -> <<Conditionals[op.i], 0>>
      [] op.pc = "new_stop" -> NewStopId
ClientIdFree == op.pc \in {"entry", "tpsl", "new_stop"} => ~InUse(NextId)

\* An entry is in the market at most once, whichever answer was lost ("NOT
\* auto-retried (avoid double-submit)"), so that no position is larger than the
\* one the stop was sized for.
EntryOnce == entries <= 1 /\ pos <= EntrySize

\* The invariant the proofs go by.  An order on the venue belongs to a row of its
\* kind; the entry is the first row, is placed once, and while it rests nothing was
\* bought; a stop goes by a number that counts the stop rows before it.
RowsInv ==
    /\ rows \in Seq(Row)
    /\ \A i \in DOMAIN rows : rows[i].kind = "entry" => i = 1
    /\ Cardinality(StopRows) <= MaxStops
    /\ Len(rows) <= 1 + Len(TPs) + Cardinality(StopRows)

BookInv ==
    /\ book \subseteq Nat \X Ids
    /\ \A o \in book :
          /\ o[1] \in DOMAIN rows /\ o[2][1] = rows[o[1]].kind
          /\ o[2][1] = "stop" => o[2][2] < Cardinality(StopRows)
          /\ o[2][1] = "entry" => o[2] = EntryId /\ pos = 0 /\ entries = 0

Untouched == rows = <<>> /\ book = {} /\ pos = 0 /\ entries = 0

\* What a handler knows between two of its steps.
OpInv ==
    /\ status = "none" => Untouched /\ op.pc \in {"idle", "sync_positions", "sync_orders", "sync_tpsl"}
    /\ op.pc = "entry" => Untouched /\ op.i = 1
    /\ op.pc = "tpsl" =>
          /\ op.i \in 1..Len(Conditionals) /\ Len(rows) = op.i
          /\ Cardinality(StopRows) = (IF op.i = 1 THEN 0 ELSE 1)
          /\ \A i \in DOMAIN rows :
                rows[i].kind \in {"entry"} \cup {Conditionals[k] : k \in 1..(op.i - 1)}
    /\ op.pc = "new_stop" =>
          /\ op.i \in ActiveStops /\ rows[op.i].level # op.level
          /\ Cardinality(StopRows) < MaxStops
    /\ op.pc = "old_stop" => /\ op.i \in ActiveStops /\ Len(rows) \in ActiveStops
                             /\ op.i # Len(rows)
    /\ op.pc = "sync_tpsl" => (EntryRests => op.rests)

BlofinInv ==
    /\ status \in TradeStatus /\ op \in Ops
    /\ pos \in 0..EntrySize /\ entries \in 0..1
    /\ RowsInv /\ BookInv /\ OpInv

\* A stop move never takes away the last stop of the trade: afterwards one is
\* on the venue, or one the venue accepted was consumed by it (move_stop_loss,
\* ADA #2262).
Protected == \E o \in book : rows[o[1]].kind = "stop"
StopKept ==
    [][op.pc \in {"new_stop", "old_stop"} /\ op' # op /\ Protected
         => Protected' \/ ActiveStops' # {}]_vars

\* A sync never gives up a pending trade whose entry the venue still holds under
\* the id it told, though the venue moves between the three reads.
SyncKeepsResting ==
    [][op.pc = "sync_tpsl" /\ status = "pending" /\ status' = "canceled"
         => ~EntryRests]_vars

-----------------------------------------------------------------------------
(* What the documentation says and the code does not do *)

\* A row a cancel marks canceled has no order on the venue any more: "True if a
\* cancel response means the order is already gone" (_cancel_benign), which a
\* failing item under an answer of code "0" does not mean.
CanceledIsGone ==
    [][op.pc \in {"cancel", "old_stop"} =>
         \A i \in DOMAIN rows :
            rows[i].st = "submitted" /\ rows'[i].st = "canceled"
                => \A o \in book' : o[1] # i]_vars

=============================================================================
