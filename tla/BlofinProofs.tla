---------------------------- MODULE BlofinProofs ----------------------------
(***************************************************************************)
(* A Blofin trade, for any take-profits, sizes, bounds and faults: its     *)
(* entry is in the market once, no request of its own is refused for a     *)
(* client id that is taken, a move keeps a stop, a cancel says canceled    *)
(* only of what is gone, and a sync keeps a resting entry.                 *)
(*                                                                         *)
(* They follow from BlofinInv, whose parts are kept together: that the     *)
(* number of a new stop is free needs every live stop to have been         *)
(* numbered by the rows before it, and that the entry fills once needs     *)
(* every live order to belong to a row of its kind.                        *)
(***************************************************************************)
EXTENDS BlofinProps, FiniteSetTheorems, TLAPS

USE BlofinTPs, BlofinBounds, BlofinFaults

-----------------------------------------------------------------------------
(* The conditionals *)

\* The stop comes first, then the take-profits, each once.
LEMMA ConditionalsAre ==
    /\ Len(Conditionals) = Len(TPs) + 1
    /\ Conditionals[1] = "stop"
    /\ \A k \in 1..Len(Conditionals) : /\ Conditionals[k] \in Kinds \ {"entry"}
                                       /\ Conditionals[k] = "stop" => k = 1
    /\ \A j, k \in 1..Len(Conditionals) : Conditionals[j] = Conditionals[k] => j = k
<1>1. TPs \in Seq({"tp1", "tp2", "tp3"}) /\ Len(TPs) \in Nat
  OBVIOUS
<1>2. /\ Len(Conditionals) = Len(TPs) + 1 /\ Conditionals[1] = "stop"
      /\ \A k \in 2..Len(Conditionals) : Conditionals[k] = TPs[k - 1]
  BY <1>1 DEF Conditionals
<1>3. \A k \in 2..Len(Conditionals) : /\ TPs[k - 1] \in {"tp1", "tp2", "tp3"}
                                      /\ TPs[k - 1] \in TpKinds
  BY <1>1, <1>2 DEF TpKinds
<1>4. ASSUME NEW j \in 1..Len(Conditionals), NEW k \in 1..Len(Conditionals),
             Conditionals[j] = Conditionals[k]
      PROVE  j = k
  <2>1. CASE j = 1 \/ k = 1
    BY <1>2, <1>3, <1>4, <2>1
  <2>2. CASE j # 1 /\ k # 1
    <3>1. j - 1 \in 1..Len(TPs) /\ k - 1 \in 1..Len(TPs) /\ TPs[j - 1] = TPs[k - 1]
      BY <1>1, <1>2, <1>4, <2>2
    <3> QED BY <3>1
  <2> QED BY <2>1, <2>2
<1>5. ASSUME NEW k \in 1..Len(Conditionals)
      PROVE  /\ Conditionals[k] \in Kinds \ {"entry"}
             /\ Conditionals[k] = "stop" => k = 1
  BY <1>2, <1>3 DEF Kinds
<1> QED BY <1>2, <1>4, <1>5

-----------------------------------------------------------------------------
(* The rows *)

LEMMA StopRowsFinite ==
    ASSUME rows \in Seq(Row)
    PROVE  IsFiniteSet(StopRows) /\ Cardinality(StopRows) \in Nat
<1>1. StopRows \in SUBSET (1..Len(rows)) /\ Len(rows) \in Int
  BY DEF StopRows
<1>2. IsFiniteSet(1..Len(rows))
  BY <1>1, FS_Interval
<1>3. IsFiniteSet(StopRows)
  BY <1>1, <1>2, FS_Subset
<1> QED BY <1>3, FS_CardinalityType

\* A row is added at the end.
LEMMA RowAdded ==
    ASSUME rows \in Seq(Row), NEW r \in Row, rows' = Append(rows, r)
    PROVE  /\ rows' \in Seq(Row) /\ Len(rows') = Len(rows) + 1
           /\ rows'[Len(rows) + 1] = r
           /\ \A i \in DOMAIN rows : i \in DOMAIN rows' /\ rows'[i] = rows[i]
           /\ \A i \in DOMAIN rows' : i \in DOMAIN rows \/ i = Len(rows) + 1
           /\ Cardinality(StopRows') =
                Cardinality(StopRows) + IF r.kind = "stop" THEN 1 ELSE 0
<1>1. /\ rows' \in Seq(Row) /\ Len(rows') = Len(rows) + 1
      /\ rows'[Len(rows) + 1] = r
      /\ \A i \in DOMAIN rows : i \in DOMAIN rows' /\ rows'[i] = rows[i]
      /\ \A i \in DOMAIN rows' : i \in DOMAIN rows \/ i = Len(rows) + 1
  OBVIOUS
<1>2. Len(rows) + 1 \notin StopRows /\ Len(rows) + 1 \in DOMAIN rows'
  BY <1>1 DEF StopRows
<1>0. IsFiniteSet(StopRows) /\ Cardinality(StopRows) \in Nat
  BY StopRowsFinite
<1>3. ASSUME r.kind = "stop" PROVE Cardinality(StopRows') = Cardinality(StopRows) + 1
  <2>1. StopRows' = StopRows \cup {Len(rows) + 1}
    BY <1>1, <1>2, <1>3 DEF StopRows
  <2> QED BY <1>0, <1>2, <2>1, FS_AddElement
<1>4. ASSUME r.kind # "stop" PROVE Cardinality(StopRows') = Cardinality(StopRows) + 0
  <2>1. StopRows' = StopRows
    BY <1>1, <1>2, <1>4 DEF StopRows
  <2> QED BY <1>0, <2>1
<1> QED BY <1>1, <1>3, <1>4

\* Only the statuses of rows change.
SameKinds ==
    /\ rows' \in Seq(Row) /\ Len(rows') = Len(rows)
    /\ \A i \in DOMAIN rows : rows'[i].kind = rows[i].kind /\ rows'[i].level = rows[i].level

LEMMA KindsKept ==
    ASSUME rows \in Seq(Row), SameKinds
    PROVE  DOMAIN rows' = DOMAIN rows /\ StopRows' = StopRows
BY DEF SameKinds, StopRows

LEMMA RowsKept ==
    ASSUME RowsInv, SameKinds
    PROVE  RowsInv'
<1>1. DOMAIN rows' = DOMAIN rows /\ StopRows' = StopRows
  BY KindsKept DEF RowsInv
<1> QED BY <1>1 DEF RowsInv, SameKinds

LEMMA NothingWritten ==
    ASSUME rows \in Seq(Row), rows' = rows
    PROVE  SameKinds
BY DEF SameKinds

LEMMA RowSet ==
    ASSUME rows \in Seq(Row), NEW i \in DOMAIN rows,
           NEW st \in {"pending", "submitted", "filled", "canceled", "rejected"}, SetRow(i, st)
    PROVE  SameKinds
<1>1. rows[i] \in Row /\ rows' = [rows EXCEPT ![i] = [rows[i] EXCEPT !.st = st]]
  BY DEF SetRow
<1>2. [rows[i] EXCEPT !.st = st] \in Row
  BY <1>1 DEF Row
<1> QED BY <1>1, <1>2 DEF SameKinds, Row

\* Orders may leave the venue, and statuses change.
LEMMA BookKept ==
    ASSUME RowsInv, BookInv, SameKinds, book' \subseteq book,
           \/ UNCHANGED <<pos, entries>>
           \/ \A o \in book' : o[2][1] # "entry"
    PROVE  BookInv'
<1>1. DOMAIN rows' = DOMAIN rows /\ StopRows' = StopRows
  BY KindsKept DEF RowsInv
<1> QED BY <1>1 DEF BookInv, SameKinds, EntryId

LEMMA MarkedKinds ==
    ASSUME rows \in Seq(Row), NEW R, NEW st \in {"filled", "canceled"}
    PROVE  /\ Marked(R, st) \in Seq(Row) /\ Len(Marked(R, st)) = Len(rows)
           /\ \A i \in DOMAIN rows : /\ Marked(R, st)[i].kind = rows[i].kind
                                     /\ Marked(R, st)[i].level = rows[i].level
                                     /\ i \notin R => Marked(R, st)[i] = rows[i]
<1> DEFINE m(i) == IF i \in R /\ rows[i].st = "submitted"
                   THEN [rows[i] EXCEPT !.st = st] ELSE rows[i]
<1>1. \A i \in DOMAIN rows : /\ m(i) \in Row /\ m(i).kind = rows[i].kind
                             /\ m(i).level = rows[i].level
                             /\ i \notin R => m(i) = rows[i]
  <2> TAKE i \in DOMAIN rows
  <2>1. rows[i] \in Row
    OBVIOUS
  <2> QED BY <2>1 DEF Row
<1>2. Marked(R, st) = [i \in 1..Len(rows) |-> m(i)] /\ DOMAIN rows = 1..Len(rows)
      /\ Len(rows) \in Nat
  BY DEF Marked
<1> HIDE DEF m
<1> QED BY <1>1, <1>2

-----------------------------------------------------------------------------
(* Placements *)

\* A row is recorded, and the venue may hold an order for it.
Sends(kind, level, id) ==
    \E st \in {"pending", "submitted", "rejected"} :
        Record(kind, level, st) /\ book' \subseteq book \cup {<<NewRow, id>>}

LEMMA OutcomesSend ==
    ASSUME NEW kind, NEW level, NEW id, NEW st \in {"pending", "rejected"},
           \/ Accepted(kind, level, id) \/ AcceptedUnnamed(kind, level, id)
           \/ Refused(kind, level, id, st) \/ AnswerLost(kind, level, id)
    PROVE  Sends(kind, level, id)
BY DEF Accepted, AcceptedUnnamed, Refused, AnswerLost, Sends

LEMMA Placed ==
    ASSUME RowsInv, BookInv, NEW kind \in Kinds, NEW level \in Levels, NEW id \in Ids,
           Sends(kind, level, id), id[1] = kind, UNCHANGED <<pos, entries>>,
           kind = "entry" => Untouched /\ id = EntryId,
           kind = "stop" => /\ id[2] <= Cardinality(StopRows)
                            /\ Cardinality(StopRows) < MaxStops,
           kind \notin {"entry", "stop"} =>
                Len(rows) < 1 + Len(TPs) + Cardinality(StopRows)
    PROVE  RowsInv' /\ BookInv'
<1>1. PICK st \in {"pending", "submitted", "rejected"} :
          /\ rows' = Append(rows, [kind |-> kind, level |-> level, st |-> st])
          /\ book' \subseteq book \cup {<<NewRow, id>>}
  BY DEF Sends, Record
<1> DEFINE r == [kind |-> kind, level |-> level, st |-> st]
<1>2. r \in Row /\ r.kind = kind
  BY DEF Row
<1>3. rows \in Seq(Row) /\ Cardinality(StopRows) \in Nat /\ Len(rows) \in Nat /\ Len(TPs) \in Nat
  BY StopRowsFinite DEF RowsInv
<1> HIDE DEF r
<1>4. /\ rows' \in Seq(Row) /\ Len(rows') = Len(rows) + 1
      /\ rows'[Len(rows) + 1] = r
      /\ \A i \in DOMAIN rows : i \in DOMAIN rows' /\ rows'[i] = rows[i]
      /\ \A i \in DOMAIN rows' : i \in DOMAIN rows \/ i = Len(rows) + 1
      /\ Cardinality(StopRows') = Cardinality(StopRows) + IF r.kind = "stop" THEN 1 ELSE 0
  BY <1>1, <1>2, <1>3, RowAdded DEF r
<1>5. Untouched => Len(rows) = 0
  BY DEF Untouched
<1>6. RowsInv'
  <2>1. \A i \in DOMAIN rows' : rows'[i].kind = "entry" => i = 1
    BY <1>2, <1>3, <1>4, <1>5 DEF RowsInv
  <2>2. /\ Cardinality(StopRows') <= MaxStops
        /\ Len(rows') <= 1 + Len(TPs) + Cardinality(StopRows')
    BY <1>2, <1>3, <1>4, <1>5 DEF RowsInv
  <2> QED BY <1>4, <2>1, <2>2 DEF RowsInv
<1>7. BookInv'
  <2>1. <<NewRow, id>> \in Nat \X Ids /\ NewRow \in DOMAIN rows'
    BY <1>3, <1>4 DEF NewRow
  <2>2. ASSUME NEW o \in book'
        PROVE  /\ o[1] \in DOMAIN rows' /\ o[2][1] = rows'[o[1]].kind
               /\ o[2][1] = "stop" => o[2][2] < Cardinality(StopRows')
               /\ o[2][1] = "entry" => o[2] = EntryId /\ pos' = 0 /\ entries' = 0
    <3>1. CASE o \in book
      <4>1. o[2][2] \in Int
        BY <3>1 DEF BookInv, Ids
      <4> QED BY <1>3, <1>4, <3>1, <4>1 DEF BookInv
    <3>2. CASE o = <<NewRow, id>>
      <4>1. id[2] \in Int
        BY DEF Ids
      <4> QED BY <1>2, <1>3, <1>4, <2>1, <3>2, <4>1 DEF NewRow, Untouched
    <3> QED BY <1>1, <3>1, <3>2
  <2> QED BY <1>1, <2>1, <2>2 DEF BookInv, EntryId
<1> QED BY <1>6, <1>7

-----------------------------------------------------------------------------
(* The handler that is running *)

LEMMA OpsTyped ==
    ASSUME RowsInv
    PROVE  /\ \A pc \in Pcs : Op(pc) \in Ops /\ Op(pc).pc = pc
           /\ op \in Ops => \A pc \in Pcs : Goto(pc) => op' \in Ops /\ op'.pc = pc
           /\ op \in Ops => \A i \in DOMAIN rows \cup 0..4 :
                 op' = [op EXCEPT !.i = i] => op' \in Ops /\ op'.pc = op.pc /\ op'.i = i
           /\ BeginCancel \/ BeginClose => op' \in Ops /\ op'.pc = "cancel"
<1>1. \A i \in DOMAIN rows \cup 0..4 : i \in 0..(MaxStops + 4)
  <2>1. /\ rows \in Seq(Row) /\ Cardinality(StopRows) \in Nat /\ Len(rows) \in Nat
        /\ Len(TPs) \in Nat
    BY StopRowsFinite DEF RowsInv
  <2> QED BY <2>1 DEF RowsInv
<1>2. 0 \in 0..(MaxStops + 4) /\ 1 \in 0..(MaxStops + 4)
  OBVIOUS
<1>3. \A pc \in Pcs : Op(pc) \in Ops /\ Op(pc).pc = pc
  BY <1>2 DEF Op, Ops, Levels
<1>4. op \in Ops => \A pc \in Pcs : Goto(pc) => op' \in Ops /\ op'.pc = pc
  BY DEF Goto, Ops
<1>5. op \in Ops => \A i \in DOMAIN rows \cup 0..4 :
         op' = [op EXCEPT !.i = i] => op' \in Ops /\ op'.pc = op.pc /\ op'.i = i
  BY <1>1 DEF Ops
<1>6. BeginCancel \/ BeginClose => op' \in Ops /\ op'.pc = "cancel"
  BY <1>2 DEF BeginCancel, BeginClose, Op, Ops, Pcs, Levels
<1> QED BY <1>3, <1>4, <1>5, <1>6

\* Nothing has to be known at these points.
Resting == {"idle", "cancel", "positions", "close", "sync_positions", "sync_orders"}

LEMMA RestingKnowsNothing ==
    ASSUME op'.pc \in Resting, status' # "none"
    PROVE  OpInv'
BY DEF OpInv, Resting

-----------------------------------------------------------------------------
(* submit_trade *)

LEMMA EntryStep ==
    ASSUME BlofinInv, PlaceEntry
    PROVE  BlofinInv'
<1>1. /\ RowsInv /\ BookInv /\ OpInv /\ Untouched /\ op.pc = "entry" /\ op.i = 1 /\ op \in Ops
      /\ status \in TradeStatus /\ status # "none"
      /\ UNCHANGED <<pos, entries>>
  BY DEF BlofinInv, OpInv, PlaceEntry
<1>2. Sends("entry", "initial", EntryId)
  BY OutcomesSend DEF PlaceEntry
<1>3. EntryId \in Ids /\ EntryId[1] = "entry"
  BY DEF EntryId, Ids, Kinds
<1>4. RowsInv' /\ BookInv'
  BY <1>1, <1>2, <1>3, Placed DEF Kinds, Levels
<1>5. status' \in TradeStatus /\ status' # "none"
  BY <1>1 DEF PlaceEntry, TradeStatus
<1>6. op' \in Ops /\ (Finish \/ Goto("tpsl"))
  BY <1>1, OpsTyped DEF PlaceEntry, Finish, Pcs
<1>7. CASE Finish
  <2>1. op'.pc \in Resting
    BY <1>1, <1>7, OpsTyped DEF Finish, Resting, Pcs
  <2> QED BY <1>1, <1>4, <1>5, <1>6, <2>1, RestingKnowsNothing DEF BlofinInv
<1>8. CASE Goto("tpsl")
  <2>1. op'.pc = "tpsl" /\ op'.i = op.i
    BY <1>1, <1>8 DEF Goto, Ops
  <2>2. PICK st \in {"pending", "submitted", "rejected"} :
           rows' = Append(rows, [kind |-> "entry", level |-> "initial", st |-> st])
    BY <1>2 DEF Sends, Record
  <2>3. Len(rows') = 1 /\ rows'[1].kind = "entry"
    BY <1>1, <2>2 DEF Untouched
  <2>4. Cardinality(StopRows') = 0
    <3>1. StopRows' = {}
      BY <1>4, <2>3 DEF StopRows, RowsInv
    <3> QED BY <3>1, FS_EmptySet
  <2>5. OpInv'
    <3>1. 1 \in 1..Len(Conditionals)
      BY ConditionalsAre
    <3>2. Conditionals' = Conditionals
      BY DEF Conditionals
    <3>3. \A i \in DOMAIN rows' : rows'[i].kind = "entry"
      BY <1>4, <2>3 DEF RowsInv
    <3> QED BY <1>1, <1>5, <2>1, <2>3, <2>4, <3>1, <3>2, <3>3 DEF OpInv
  <2> QED BY <1>1, <1>4, <1>5, <1>6, <1>8, <2>1, <2>5, OpsTyped DEF BlofinInv, Pcs
<1> QED BY <1>6, <1>7, <1>8

LEMMA TpslStep ==
    ASSUME BlofinInv, SubmitTpsl
    PROVE  BlofinInv'
<1> DEFINE kind == Conditionals[op.i]
<1>1. /\ RowsInv /\ BookInv /\ OpInv /\ op.pc = "tpsl" /\ op \in Ops
      /\ status \in TradeStatus /\ status # "none" /\ status' = status
      /\ UNCHANGED <<pos, entries>>
  BY DEF BlofinInv, OpInv, SubmitTpsl
<1>2. /\ op.i \in 1..Len(Conditionals) /\ Len(rows) = op.i
      /\ Cardinality(StopRows) = (IF op.i = 1 THEN 0 ELSE 1)
      /\ \A i \in DOMAIN rows :
            rows[i].kind \in {"entry"} \cup {Conditionals[k] : k \in 1..(op.i - 1)}
  BY <1>1 DEF OpInv
<1>3. kind \in Kinds /\ kind # "entry" /\ (kind = "stop" <=> op.i = 1)
  BY <1>2, ConditionalsAre
<1>4. Sends(kind, "initial", <<kind, 0>>)
  BY OutcomesSend DEF SubmitTpsl
<1>5. <<kind, 0>> \in Ids
  BY <1>3 DEF Ids
<1>6. RowsInv' /\ BookInv'
  <2>1. kind = "stop" => 0 <= Cardinality(StopRows) /\ Cardinality(StopRows) < MaxStops
    BY <1>2, <1>3
  <2>2. kind # "stop" => Len(rows) < 1 + Len(TPs) + Cardinality(StopRows)
    BY <1>2, <1>3, ConditionalsAre
  <2> HIDE DEF kind
  <2> QED BY <1>1, <1>3, <1>4, <1>5, <2>1, <2>2, Placed DEF Levels
<1>7. CASE Finish
  <2>1. op'.pc \in Resting /\ op' \in Ops
    BY <1>1, <1>7, OpsTyped DEF Finish, Resting, Pcs
  <2> QED BY <1>1, <1>6, <2>1, RestingKnowsNothing DEF BlofinInv
<1>8. CASE op.i # Len(Conditionals) /\ op' = [op EXCEPT !.i = @ + 1]
  <2>1. op.i + 1 \in 0..4 /\ op' = [op EXCEPT !.i = op.i + 1]
    BY <1>2, <1>8, ConditionalsAre
  <2>2. op' \in Ops /\ op'.pc = "tpsl" /\ op'.i = op.i + 1
    BY <1>1, <2>1, OpsTyped
  <2>3. PICK st \in {"pending", "submitted", "rejected"} :
           rows' = Append(rows, [kind |-> kind, level |-> "initial", st |-> st])
    BY <1>4 DEF Sends, Record
  <2> DEFINE r == [kind |-> kind, level |-> "initial", st |-> st]
  <2>4. r \in Row /\ r.kind = kind /\ rows \in Seq(Row)
    BY <1>1, <1>3 DEF Row, Levels, RowsInv
  <2> HIDE DEF r, kind
  <2>5. /\ Len(rows') = Len(rows) + 1 /\ rows'[Len(rows) + 1] = r
        /\ \A i \in DOMAIN rows : i \in DOMAIN rows' /\ rows'[i] = rows[i]
        /\ \A i \in DOMAIN rows' : i \in DOMAIN rows \/ i = Len(rows) + 1
        /\ Cardinality(StopRows') = Cardinality(StopRows) + IF r.kind = "stop" THEN 1 ELSE 0
    BY <2>3, <2>4, RowAdded DEF r
  <2>6. Cardinality(StopRows') = 1 /\ Len(rows') = op'.i /\ op'.i \in 2..Len(Conditionals)
    BY <1>2, <1>3, <1>8, <2>2, <2>4, <2>5, ConditionalsAre
  <2>7. \A i \in DOMAIN rows' :
            rows'[i].kind \in {"entry"} \cup {Conditionals[k] : k \in 1..(op'.i - 1)}
    <3> TAKE i \in DOMAIN rows'
    <3>1. op'.i - 1 = op.i /\ op.i \in Nat
      BY <1>2, <2>2
    <3>2. CASE i \in DOMAIN rows
      <4>1. rows'[i].kind \in {"entry"} \cup {Conditionals[k] : k \in 1..(op.i - 1)}
        BY <1>2, <2>5, <3>2
      <4>2. \A k \in 1..(op.i - 1) : k \in 1..op.i
        BY <3>1
      <4> QED BY <3>1, <4>1, <4>2
    <3>3. CASE i = Len(rows) + 1
      BY <1>2, <2>4, <2>5, <3>1, <3>3 DEF kind
    <3> QED BY <2>5, <3>2, <3>3
  <2>8. Conditionals' = Conditionals
    BY DEF Conditionals
  <2>9. OpInv'
    BY <1>1, <2>2, <2>6, <2>7, <2>8, ConditionalsAre DEF OpInv
  <2> QED BY <1>1, <1>6, <2>2, <2>9 DEF BlofinInv
<1> QED BY <1>7, <1>8 DEF SubmitTpsl

-----------------------------------------------------------------------------
(* cancel_trade, close_position *)

LEMMA CancelAnswered ==
    ASSUME RowsInv, BookInv, NEW i \in DOMAIN rows, CancelAnswer(i)
    PROVE  SameKinds /\ book' \subseteq book
<1>1. SetRow(i, "canceled") \/ UNCHANGED rows
  BY DEF CancelAnswer
<1>2. SameKinds
  BY <1>1, RowSet, NothingWritten DEF RowsInv
<1> QED BY <1>2 DEF CancelAnswer

\* What a market order or a conditional leaves of the position and the book.
LEMMA LeavesLess ==
    ASSUME NEW n \in Nat, pos \in 0..EntrySize, NEW rest, Leaves(n, rest)
    PROVE  pos' \in 0..EntrySize /\ book' \subseteq rest
BY DEF Leaves, Reduced

\* With a position there is no entry on the venue.
LEMMA BoughtOnce ==
    ASSUME BookInv, pos # 0 \/ entries # 0
    PROVE  \A o \in book : o[2][1] # "entry"
BY DEF BookInv

LEMMA CloseStep ==
    ASSUME BlofinInv,
           \/ CancelDone \/ ReadPosition \/ MarketClose
           \/ \E i \in DOMAIN rows : CancelOrder(i)
    PROVE  BlofinInv'
<1>1. /\ RowsInv /\ BookInv /\ OpInv /\ op \in Ops /\ rows \in Seq(Row)
      /\ status \in TradeStatus /\ status # "none"
      /\ pos \in 0..EntrySize /\ entries \in 0..1
  BY DEF BlofinInv, RowsInv, OpInv, CancelDone, ReadPosition, MarketClose, CancelOrder
<1>2. status' \in TradeStatus /\ status' # "none"
  BY <1>1 DEF CancelDone, ReadPosition, MarketClose, CancelOrder, TradeStatus
<1>3. op' \in Ops /\ op'.pc \in Resting
  <2>1. ASSUME NEW i \in DOMAIN rows, CancelOrder(i) PROVE op' \in Ops /\ op'.pc = "cancel"
    BY <1>1, <2>1, OpsTyped DEF CancelOrder
  <2>2. Finish \/ Goto("positions") \/ Goto("close") => op' \in Ops /\ op'.pc \in Resting
    BY <1>1, OpsTyped DEF Finish, Pcs, Resting
  <2> QED BY <2>1, <2>2 DEF CancelDone, ReadPosition, MarketClose, Resting
<1>4. OpInv'
  BY <1>2, <1>3, RestingKnowsNothing
<1>5. CASE CancelDone \/ ReadPosition
  <2>1. UNCHANGED <<rows, book, pos, entries>>
    BY <1>5 DEF CancelDone, ReadPosition, venue
  <2>2. RowsInv' /\ BookInv'
    BY <1>1, <2>1, NothingWritten, RowsKept, BookKept
  <2> QED BY <1>1, <1>2, <1>3, <1>4, <2>1, <2>2 DEF BlofinInv
<1>6. CASE MarketClose
  <2>1. UNCHANGED <<rows, entries>>
    BY <1>6 DEF MarketClose
  <2>2. /\ pos' \in 0..EntrySize /\ book' \subseteq book
        /\ UNCHANGED <<pos, entries>> \/ \A o \in book' : o[2][1] # "entry"
    BY <1>1, <1>6, LeavesLess, BoughtOnce DEF MarketClose
  <2>3. RowsInv' /\ BookInv'
    BY <1>1, <2>1, <2>2, NothingWritten, RowsKept, BookKept
  <2> QED BY <1>1, <1>2, <1>3, <1>4, <2>1, <2>2, <2>3 DEF BlofinInv
<1>7. ASSUME NEW i \in DOMAIN rows, CancelOrder(i) PROVE BlofinInv'
  <2>1. UNCHANGED <<pos, entries>> /\ SameKinds /\ book' \subseteq book
    BY <1>1, <1>7, CancelAnswered DEF CancelOrder
  <2>2. RowsInv' /\ BookInv'
    BY <1>1, <2>1, RowsKept, BookKept
  <2> QED BY <1>1, <1>2, <1>3, <1>4, <2>1, <2>2 DEF BlofinInv
<1> QED BY <1>5, <1>6, <1>7

-----------------------------------------------------------------------------
(* move_stop_loss *)

LEMMA NewStopStep ==
    ASSUME BlofinInv, PlaceNewStop
    PROVE  BlofinInv'
<1>1. /\ RowsInv /\ BookInv /\ OpInv /\ op.pc = "new_stop" /\ op \in Ops
      /\ status \in TradeStatus /\ status # "none" /\ status' = status
      /\ UNCHANGED <<pos, entries>> /\ rows \in Seq(Row)
  BY DEF BlofinInv, OpInv, RowsInv, PlaceNewStop
<1>2. /\ op.i \in ActiveStops /\ Cardinality(StopRows) < MaxStops
      /\ Cardinality(StopRows) \in Nat
  BY <1>1, StopRowsFinite DEF OpInv
<1>3. Sends("stop", op.level, NewStopId)
  BY OutcomesSend DEF PlaceNewStop
<1>4. NewStopId \in Ids /\ NewStopId[1] = "stop" /\ NewStopId[2] = Cardinality(StopRows)
  BY <1>2 DEF NewStopId, Ids, Kinds
<1>5. RowsInv' /\ BookInv'
  BY <1>1, <1>2, <1>3, <1>4, Placed DEF Kinds, Ops
<1>6. CASE Finish
  <2>1. op'.pc \in Resting /\ op' \in Ops
    BY <1>1, <1>6, OpsTyped DEF Finish, Resting, Pcs
  <2> QED BY <1>1, <1>5, <2>1, RestingKnowsNothing DEF BlofinInv
<1>7. CASE Accepted("stop", op.level, NewStopId) /\ Goto("old_stop")
  <2>1. op' \in Ops /\ op'.pc = "old_stop" /\ op'.i = op.i
    BY <1>1, <1>7, OpsTyped DEF Goto, Ops, Pcs
  <2> DEFINE r == [kind |-> "stop", level |-> op.level, st |-> "submitted"]
  <2>2. rows' = Append(rows, r) /\ r \in Row /\ r.kind = "stop" /\ r.st = "submitted"
    BY <1>1, <1>7 DEF Accepted, Record, Row, Kinds, Ops
  <2> HIDE DEF r
  <2>3. /\ Len(rows') = Len(rows) + 1 /\ rows'[Len(rows) + 1] = r
        /\ \A i \in DOMAIN rows : i \in DOMAIN rows' /\ rows'[i] = rows[i]
        /\ DOMAIN rows = 1..Len(rows) /\ DOMAIN rows' = 1..Len(rows')
        /\ Len(rows) \in Nat
    BY <1>1, <1>5, <2>2 DEF RowsInv
  <2>4. op'.i \in ActiveStops' /\ Len(rows') \in ActiveStops' /\ op'.i # Len(rows')
    BY <1>2, <2>1, <2>2, <2>3 DEF ActiveStops, Submitted
  <2>5. OpInv'
    BY <1>1, <2>1, <2>4 DEF OpInv
  <2> QED BY <1>1, <1>5, <2>1, <2>5 DEF BlofinInv
<1> QED BY <1>6, <1>7 DEF PlaceNewStop

LEMMA OldStopStep ==
    ASSUME BlofinInv, CancelOldStop
    PROVE  BlofinInv'
<1>1. /\ RowsInv /\ BookInv /\ OpInv /\ status \in TradeStatus /\ status # "none"
      /\ status' = status /\ UNCHANGED <<pos, entries>> /\ op.i \in DOMAIN rows
  BY DEF BlofinInv, OpInv, CancelOldStop, ActiveStops, Submitted
<1>2. SameKinds /\ book' \subseteq book
  BY <1>1, CancelAnswered DEF CancelOldStop
<1>3. RowsInv' /\ BookInv'
  BY <1>1, <1>2, RowsKept, BookKept
<1>4. op' \in Ops /\ op'.pc \in Resting
  BY <1>1, OpsTyped DEF CancelOldStop, Finish, Resting, Pcs
<1> QED BY <1>1, <1>3, <1>4, RestingKnowsNothing DEF BlofinInv

\* A move begins with the first active stop, which is at another level.
LEMMA MoveBegins ==
    ASSUME RowsInv, op \in Ops, Idle, status' # "none", NEW level \in Levels, BeginMove(level),
           SameKinds, \A i \in ActiveStops : rows'[i] = rows[i]
    PROVE  op' \in Ops /\ OpInv'
<1>1. CASE UNCHANGED op
  BY <1>1, RestingKnowsNothing DEF Idle, Resting
<1>2. ASSUME NEW i \in ActiveStops, Movable(i, level), Cardinality(StopRows) < MaxStops,
             op' = [Op("new_stop") EXCEPT !.i = i, !.level = level]
      PROVE  op' \in Ops /\ OpInv'
  <2>1. /\ rows[i] \in Row /\ rows'[i] = rows[i] /\ i \in DOMAIN rows
        /\ rows[i].level # level /\ rows[i].st = "submitted" /\ rows[i].kind = "stop"
    BY <1>2 DEF ActiveStops, Submitted, Movable, RowsInv
  <2>2. i \in 0..(MaxStops + 4)
    <3>1. /\ rows \in Seq(Row) /\ Cardinality(StopRows) \in Nat /\ Len(rows) \in Nat
          /\ Len(TPs) \in Nat
      BY StopRowsFinite DEF RowsInv
    <3> QED BY <2>1, <3>1 DEF RowsInv
  <2>3. op' \in Ops /\ op'.pc = "new_stop" /\ op'.i = i /\ op'.level = level
    BY <1>2, <2>2 DEF Op, Ops, Pcs
  <2>4. DOMAIN rows' = DOMAIN rows /\ StopRows' = StopRows
    BY KindsKept DEF RowsInv
  <2>5. i \in ActiveStops'
    BY <2>1, <2>4 DEF ActiveStops, Submitted
  <2>6. OpInv'
    BY <1>2, <2>1, <2>3, <2>4, <2>5 DEF OpInv
  <2> QED BY <2>3, <2>6
<1> QED BY <1>1, <1>2 DEF BeginMove

-----------------------------------------------------------------------------
(* sync_positions, the venue, a restart *)

\* Steps that write no row and reach no order.
LEMMA NothingMoves ==
    ASSUME BlofinInv, UNCHANGED <<rows, venue>>, status' \in TradeStatus,
           status' = "none" => status = "none", op' \in Ops,
           \/ op'.pc \in {"idle", "sync_positions", "sync_orders"}
           \/ op'.pc \in Resting /\ status' # "none"
           \/ op'.pc = "sync_tpsl" /\ (EntryRests => op'.rests)
    PROVE  BlofinInv'
<1>1. RowsInv' /\ BookInv'
  BY NothingWritten, RowsKept, BookKept DEF BlofinInv, RowsInv, venue
<1>2. OpInv'
  <2>1. EntryRests' <=> EntryRests
    BY DEF EntryRests, HasId, venue
  <2>2. Untouched' <=> Untouched
    BY DEF Untouched, venue
  <2> QED BY <2>1, <2>2 DEF BlofinInv, OpInv, Resting
<1> QED BY <1>1, <1>2 DEF BlofinInv, venue

LEMMA SyncStep ==
    ASSUME BlofinInv, ReadFails \/ SyncPositions \/ SyncOrders \/ SyncDecide
    PROVE  BlofinInv'
<1>1. op \in Ops /\ status \in TradeStatus /\ RowsInv
  BY DEF BlofinInv
<1>2. CASE ReadFails
  BY <1>1, <1>2, OpsTyped, NothingMoves DEF ReadFails, Finish, Pcs, store
<1>3. CASE SyncPositions
  <2>1. op' \in Ops /\ op'.pc = "sync_orders"
    <3>1. (pos > 0) \in BOOLEAN
      OBVIOUS
    <3> DEFINE h == pos > 0
    <3>2. op' = [op EXCEPT !.pc = "sync_orders", !.held = h] /\ h \in BOOLEAN
      BY <1>3, <3>1 DEF SyncPositions
    <3> HIDE DEF h
    <3> QED BY <1>1, <3>2 DEF Ops, Pcs
  <2> QED BY <1>1, <1>3, <2>1, NothingMoves DEF SyncPositions, store
<1>4. CASE SyncOrders
  <2>1. EntryRests \in BOOLEAN
    BY DEF EntryRests
  <2>2. op' \in Ops /\ op'.pc = "sync_tpsl" /\ op'.rests = EntryRests
    BY <1>1, <1>4, <2>1 DEF SyncOrders, Ops, Pcs
  <2> QED BY <1>1, <1>4, <2>2, NothingMoves DEF SyncOrders, store
<1>5. CASE SyncDecide
  <2>1. status' \in TradeStatus /\ (status' = "none" => status = "none")
    BY <1>1, <1>5 DEF SyncDecide, TradeStatus, Live
  <2> QED BY <1>1, <1>5, <2>1, OpsTyped, NothingMoves DEF SyncDecide, Finish, Pcs
<1> QED BY <1>2, <1>3, <1>4, <1>5

\* An entry that fills was the only one; a conditional needs a position.
LEMMA VenueStep ==
    ASSUME BlofinInv, VenueMoves
    PROVE  BlofinInv'
<1>1. /\ RowsInv /\ BookInv /\ OpInv /\ UNCHANGED <<status, rows, op>>
      /\ pos \in 0..EntrySize /\ entries \in 0..1 /\ book # {}
  BY DEF BlofinInv, VenueMoves, store
<1>2. /\ book' \subseteq book /\ pos' \in 0..EntrySize /\ entries' \in 0..1
      /\ \A o \in book' : o[2][1] # "entry"
  <2>1. PICK o \in book :
          /\ IF rows[o[1]].kind = "entry"
               THEN /\ book' = book \ {o}
                    /\ pos' = pos + EntrySize /\ entries' = entries + 1
               ELSE /\ pos > 0
                    /\ Leaves(IF rows[o[1]].kind = "stop" THEN EntrySize ELSE 1, book \ {o})
                    /\ UNCHANGED entries
    BY DEF VenueMoves
  <2>2. CASE rows[o[1]].kind = "entry"
    <3>1. pos = 0 /\ entries = 0 /\ o[2] = EntryId /\ o[1] = 1
      BY <1>1, <2>2 DEF BookInv, RowsInv
    <3>2. ASSUME NEW x \in book', x[2][1] = "entry" PROVE FALSE
      <4>1. x \in book /\ x # o
        BY <2>1, <2>2, <3>2
      <4>2. x[2] = EntryId /\ x[1] = 1
        BY <1>1, <3>2, <4>1 DEF BookInv, RowsInv
      <4>3. x = <<x[1], x[2]>> /\ o = <<o[1], o[2]>>
        BY <1>1, <4>1 DEF BookInv
      <4> QED BY <3>1, <4>1, <4>2, <4>3
    <3> QED BY <2>1, <2>2, <3>1, <3>2
  <2>3. CASE rows[o[1]].kind # "entry"
    <3>1. pos' \in 0..EntrySize /\ book' \subseteq book \ {o} /\ entries' = entries
      BY <1>1, <2>1, <2>3, LeavesLess
    <3>2. pos # 0
      BY <1>1, <2>1, <2>3
    <3> QED BY <1>1, <3>1, <3>2, BoughtOnce
  <2> QED BY <2>2, <2>3
<1>3. RowsInv' /\ BookInv'
  BY <1>1, <1>2, NothingWritten, RowsKept, BookKept DEF RowsInv
<1>4. OpInv'
  <2>1. EntryRests' => EntryRests
    BY <1>1, <1>2 DEF EntryRests, HasId
  <2>2. ~Untouched /\ ActiveStops' = ActiveStops /\ StopRows' = StopRows
    BY <1>1 DEF Untouched, ActiveStops, Submitted, StopRows
  <2> QED BY <1>1, <2>1, <2>2 DEF OpInv, Conditionals
<1> QED BY <1>1, <1>2, <1>3, <1>4 DEF BlofinInv

-----------------------------------------------------------------------------
(* The messages, the buttons, the kill switch *)

LEMMA RowsMarked ==
    ASSUME BlofinInv, SameKinds, UNCHANGED <<op, venue>>, Idle,
           status' \in TradeStatus, status' # "none"
    PROVE  BlofinInv'
<1>1. RowsInv' /\ BookInv'
  BY RowsKept, BookKept DEF BlofinInv, venue
<1>2. OpInv'
  BY RestingKnowsNothing DEF Idle, Resting
<1> QED BY <1>1, <1>2 DEF BlofinInv, venue

LEMMA MessageStep ==
    ASSUME BlofinInv, Messages
    PROVE  BlofinInv'
<1>1. /\ RowsInv /\ BookInv /\ OpInv /\ op \in Ops /\ rows \in Seq(Row)
      /\ status \in TradeStatus /\ pos \in 0..EntrySize /\ entries \in 0..1
  BY DEF BlofinInv, RowsInv
<1>2. Promotes /\ status # "none" => status' \in TradeStatus /\ status' # "none"
  BY <1>1 DEF Promotes, TradeStatus, Live
<1>3. CASE SubmitTrade
  <2>1. Untouched /\ UNCHANGED <<rows, book, pos, entries>> /\ Untouched' /\ status' = "pending"
    BY <1>1, <1>3 DEF OpInv, SubmitTrade, Untouched, venue
  <2>2. op' \in Ops /\ op'.pc = "entry" /\ op'.i = 1
    BY <1>1, <1>3, OpsTyped DEF SubmitTrade, Op, Pcs
  <2>3. RowsInv' /\ BookInv'
    BY <1>1, <2>1, NothingWritten, RowsKept, BookKept
  <2>4. OpInv'
    BY <2>1, <2>2 DEF OpInv
  <2> QED BY <1>1, <2>1, <2>2, <2>3, <2>4 DEF BlofinInv, TradeStatus, Live
<1>4. CASE TradeLive
  <2>1. SameKinds
    BY <1>1, <1>4, MarkedKinds DEF TradeLive, SameKinds
  <2> QED BY <1>2, <1>4, <2>1, RowsMarked DEF TradeLive
<1>5. ASSUME NEW k \in {"tp1", "tp2", "tp3"}, TpHit(k) PROVE BlofinInv'
  <2>1. SameKinds /\ \A i \in DOMAIN rows \ FirstOf({k}) : rows'[i] = rows[i]
    BY <1>1, <1>5, MarkedKinds DEF TpHit, SameKinds
  <2>2. \A i \in ActiveStops : rows'[i] = rows[i]
    BY <2>1 DEF ActiveStops, FirstOf, OfKind, Submitted
  <2>3. status' \in TradeStatus /\ status' # "none"
    BY <1>2, <1>5 DEF TpHit, Live
  <2>4. CASE UNCHANGED op
    BY <1>5, <2>1, <2>3, <2>4, RowsMarked DEF TpHit
  <2>5. CASE BeginMove("entry")
    <3>1. op' \in Ops /\ OpInv'
      BY <1>1, <1>5, <2>1, <2>2, <2>3, <2>5, MoveBegins DEF TpHit, Levels
    <3>2. RowsInv' /\ BookInv'
      BY <1>1, <1>5, <2>1, RowsKept, BookKept DEF TpHit, venue
    <3> QED BY <1>1, <1>5, <2>3, <3>1, <3>2 DEF BlofinInv, TpHit, venue
  <2> QED BY <1>5, <2>4, <2>5 DEF TpHit
<1>marked. \A i \in 1..Len(rows), st \in {"filled", "canceled"} : \A R :
         /\ Marked(R, st)[i] \in Row /\ Marked(R, st)[i].kind = rows[i].kind
         /\ Marked(R, st)[i].level = rows[i].level
  <2> TAKE i \in 1..Len(rows), st \in {"filled", "canceled"}
  <2> TAKE R
  <2>1. /\ Marked(R, st) \in Seq(Row) /\ Len(Marked(R, st)) = Len(rows)
        /\ \A j \in DOMAIN rows : /\ Marked(R, st)[j].kind = rows[j].kind
                                  /\ Marked(R, st)[j].level = rows[j].level
    BY <1>1, MarkedKinds
  <2> QED BY <1>1, <2>1
<1>6. CASE AllTpHit
  <2> DEFINE m(i) == IF rows[i].kind \in TpKinds
                     THEN Marked(FirstOf({rows[i].kind}), "filled")[i]
                     ELSE Marked(OfKind({"stop"}), "canceled")[i]
  <2>1. \A i \in 1..Len(rows) : /\ m(i) \in Row /\ m(i).kind = rows[i].kind
                                /\ m(i).level = rows[i].level
    BY <1>marked
  <2>2. rows' = [i \in DOMAIN rows |-> m(i)] /\ DOMAIN rows = 1..Len(rows)
    BY <1>1, <1>6 DEF AllTpHit
  <2> HIDE DEF m
  <2>3. SameKinds
    BY <1>1, <2>1, <2>2 DEF SameKinds
  <2> QED BY <1>6, <2>3, RowsMarked DEF AllTpHit, TradeStatus
<1>10. CASE StopHit
  <2> DEFINE m(i) == IF rows[i].kind = "stop"
                     THEN Marked(FirstOf({"stop"}), "filled")[i]
                     ELSE Marked(OfKind(TpKinds), "canceled")[i]
  <2>1. \A i \in 1..Len(rows) : /\ m(i) \in Row /\ m(i).kind = rows[i].kind
                                /\ m(i).level = rows[i].level
    BY <1>marked
  <2>2. rows' = [i \in DOMAIN rows |-> m(i)] /\ DOMAIN rows = 1..Len(rows)
    BY <1>1, <1>10 DEF StopHit
  <2> HIDE DEF m
  <2>3. SameKinds
    BY <1>1, <2>1, <2>2 DEF SameKinds
  <2> QED BY <1>10, <2>3, RowsMarked DEF StopHit, TradeStatus
<1>7. ASSUME NEW level \in {"entry", "update"}, Move(level) PROVE BlofinInv'
  <2>1. UNCHANGED <<status, rows, book, pos, entries>> /\ status # "none"
    BY <1>7 DEF Move, store, venue
  <2>2. op' \in Ops /\ OpInv'
    BY <1>1, <1>7, <2>1, NothingWritten, MoveBegins DEF Move, Levels
  <2>3. RowsInv' /\ BookInv'
    BY <1>1, <2>1, NothingWritten, RowsKept, BookKept
  <2> QED BY <1>1, <2>1, <2>2, <2>3 DEF BlofinInv
<1>8. CASE Canceled
  <2>1. op' \in Ops /\ op'.pc \in Resting
    BY <1>1, <1>8, OpsTyped DEF Canceled, Resting
  <2> QED BY <1>1, <1>8, <2>1, NothingMoves DEF Canceled, store
<1>9. CASE TradeClosed
  <2>1. op' \in Ops /\ op'.pc \in Resting
    BY <1>1, <1>9, OpsTyped DEF TradeClosed, Idle, Resting
  <2>2. status' \in TradeStatus /\ status' # "none"
    BY <1>1, <1>9 DEF TradeClosed, TradeStatus
  <2> QED BY <1>1, <1>9, <2>1, <2>2, NothingMoves DEF TradeClosed
<1> QED BY <1>3, <1>4, <1>5, <1>6, <1>7, <1>8, <1>9, <1>10 DEF Messages

LEMMA BlofinStep ==
    ASSUME BlofinInv, [Next]_vars
    PROVE  BlofinInv'
<1>1. op \in Ops /\ status \in TradeStatus /\ RowsInv
  BY DEF BlofinInv
<1>2. CASE HandlerStep
  BY <1>2, EntryStep, TpslStep, CloseStep, NewStopStep, OldStopStep, SyncStep DEF HandlerStep
<1>3. CASE Messages
  BY <1>3, MessageStep
<1>4. CASE KillSwitch
  <2>1. op' \in Ops /\ op'.pc \in Resting
    BY <1>1, <1>4, OpsTyped DEF KillSwitch, Resting
  <2> QED BY <1>1, <1>4, <2>1, NothingMoves DEF KillSwitch, Live, store
<1>5. CASE Buttons
  BY <1>1, <1>5, NothingMoves DEF Buttons, Idle, TradeStatus
<1>6. CASE Sync \/ Crash
  BY <1>1, <1>6, OpsTyped, NothingMoves DEF Sync, Crash, Pcs, store
<1>7. CASE VenueMoves
  BY <1>7, VenueStep
<1>8. CASE UNCHANGED vars
  <2>1. SameKinds /\ UNCHANGED <<book, pos, entries>>
    BY <1>8, NothingWritten DEF vars, store, venue, BlofinInv, RowsInv
  <2>2. RowsInv' /\ BookInv'
    BY <2>1, RowsKept, BookKept DEF BlofinInv
  <2>3. OpInv'
    BY <1>8 DEF vars, store, venue, BlofinInv, OpInv, Untouched, ActiveStops, Submitted,
       StopRows, EntryRests, HasId, Conditionals
  <2> QED BY <1>8, <2>2, <2>3 DEF vars, store, venue, BlofinInv
<1> QED BY <1>2, <1>3, <1>4, <1>5, <1>6, <1>7, <1>8 DEF Next

LEMMA BlofinBegins ==
    ASSUME Init
    PROVE  BlofinInv
<1>1. rows = <<>> /\ StopRows = {} /\ Cardinality(StopRows) = 0
  BY FS_EmptySet DEF Init, StopRows
<1>2. RowsInv
  BY <1>1 DEF RowsInv
<1>3. op \in Ops /\ op.pc = "idle"
  BY <1>2, OpsTyped DEF Init, Pcs
<1> QED BY <1>1, <1>2, <1>3 DEF Init, BlofinInv, BookInv, OpInv, Untouched, TradeStatus

LEMMA BlofinInvariance == Spec => []BlofinInv
<1>1. Init => BlofinInv
  BY BlofinBegins
<1>2. BlofinInv /\ [Next]_vars => BlofinInv'
  BY BlofinStep
<1> QED BY <1>1, <1>2, PTL DEF Spec

-----------------------------------------------------------------------------
(* What follows *)

\* The rows, the handler and the venue's orders keep their types.
THEOREM BlofinTyped == Spec => []TypeOK
<1>1. BlofinInv => TypeOK
  BY DEF BlofinInv, RowsInv, BookInv, TypeOK
<1> QED BY <1>1, BlofinInvariance, PTL

\* No request of the trade is refused because a live order of the trade goes by its
\* client id.
THEOREM FreshClientIds == Spec => []ClientIdFree
<1>1. BlofinInv => ClientIdFree
  <2> SUFFICES ASSUME BlofinInv, op.pc \in {"entry", "tpsl", "new_stop"},
                      NEW o \in book, o[2] = NextId
               PROVE  FALSE
    BY DEF ClientIdFree, InUse
  <2>0. RowsInv /\ BookInv /\ OpInv
    BY DEF BlofinInv
  <2>1. CASE op.pc = "entry"
    BY <2>0, <2>1 DEF OpInv, Untouched
  <2>2. CASE op.pc = "tpsl"
    <3>1. o[2][1] = Conditionals[op.i] /\ op.i \in 1..Len(Conditionals)
      BY <2>0, <2>2 DEF NextId, OpInv
    <3>2. o[1] \in DOMAIN rows /\ rows[o[1]].kind = Conditionals[op.i]
      BY <2>0, <3>1 DEF BookInv
    <3>3. PICK k \in 1..(op.i - 1) : Conditionals[k] = Conditionals[op.i]
      BY <2>0, <2>2, <3>1, <3>2, ConditionalsAre DEF OpInv
    <3> QED BY <3>1, <3>3, ConditionalsAre
  <2>3. CASE op.pc = "new_stop"
    <3>1. o[2] = <<"stop", Cardinality(StopRows)>>
      BY <2>3 DEF NextId, NewStopId
    <3>2. Cardinality(StopRows) < Cardinality(StopRows)
      BY <2>0, <3>1 DEF BookInv
    <3> QED BY <2>0, <3>2, StopRowsFinite DEF RowsInv
  <2> QED BY <2>1, <2>2, <2>3
<1> QED BY <1>1, BlofinInvariance, PTL

\* The entry is in the market once, whatever answers were lost.
THEOREM EntryIsOnce == Spec => []EntryOnce
<1>1. BlofinInv => EntryOnce
  BY DEF BlofinInv, EntryOnce
<1> QED BY <1>1, BlofinInvariance, PTL

\* Between its reads a handler is alone but for the venue.
LEMMA OnlyTheHandler ==
    ASSUME [Next]_vars, ~Idle
    PROVE  HandlerStep \/ Crash \/ VenueMoves \/ UNCHANGED vars
BY DEF Next, Messages, SubmitTrade, TradeLive, TpHit, AllTpHit, StopHit, Canceled,
       TradeClosed, Move, KillSwitch, Buttons, Sync

\* A stop move leaves a stop on the venue, or one that the venue accepted and then
\* used up.
THEOREM StopIsKept == Spec => StopKept
<1> DEFINE Kept == op.pc \in {"new_stop", "old_stop"} /\ op' # op /\ Protected
                     => Protected' \/ ActiveStops' # {}
<1>1. BlofinInv /\ [Next]_vars => [Kept]_vars
  <2> SUFFICES ASSUME BlofinInv, [Next]_vars, op.pc \in {"new_stop", "old_stop"},
                      op' # op, Protected
               PROVE  Protected' \/ ActiveStops' # {}
    OBVIOUS
  <2>0. RowsInv /\ BookInv /\ OpInv /\ rows \in Seq(Row)
    BY DEF BlofinInv, RowsInv
  <2>1. PlaceNewStop \/ CancelOldStop \/ Crash
    <3>1. HandlerStep \/ Crash
      BY OnlyTheHandler DEF Idle, VenueMoves, vars
    <3> QED BY <3>1 DEF HandlerStep, PlaceEntry, SubmitTpsl, CancelDone, ReadPosition,
               MarketClose, ReadFails, SyncPositions, SyncOrders, SyncDecide, CancelOrder
  <2>2. CASE Crash
    BY <2>2 DEF Crash, Protected, store, venue
  <2>3. CASE PlaceNewStop
    <3>1. /\ \A i \in DOMAIN rows : rows'[i] = rows[i]
          /\ book \subseteq book'
      BY <2>0, <2>3 DEF PlaceNewStop, Accepted, AcceptedUnnamed, Refused, AnswerLost, Record
    <3> QED BY <2>0, <3>1 DEF Protected, BookInv
  <2>4. CASE CancelOldStop
    <3>1. /\ op.i \in ActiveStops /\ Len(rows) \in ActiveStops /\ op.i # Len(rows)
          /\ SetRow(op.i, "canceled") \/ UNCHANGED rows
      BY <2>0, <2>4 DEF OpInv, CancelOldStop, CancelAnswer
    <3>2. /\ DOMAIN rows' = DOMAIN rows
          /\ \A i \in DOMAIN rows \ {op.i} : rows'[i] = rows[i]
      BY <2>0, <3>1 DEF SetRow
    <3>3. Len(rows) \in ActiveStops'
      BY <3>1, <3>2 DEF ActiveStops, Submitted
    <3> QED BY <3>3
  <2> QED BY <2>1, <2>2, <2>3, <2>4
<1> QED BY <1>1, BlofinInvariance, PTL DEF Spec, StopKept

\* A sync gives no pending trade up whose entry rests on the venue.
THEOREM SyncKeepsEntries == Spec => SyncKeepsResting
<1> DEFINE Keeps == op.pc = "sync_tpsl" /\ status = "pending" /\ status' = "canceled"
                      => ~EntryRests
<1>1. BlofinInv /\ [Next]_vars => [Keeps]_vars
  <2> SUFFICES ASSUME BlofinInv, [Next]_vars, op.pc = "sync_tpsl", status = "pending",
                      status' = "canceled"
               PROVE  ~EntryRests
    OBVIOUS
  <2>1. SyncDecide
    <3>1. HandlerStep
      BY OnlyTheHandler DEF Idle, VenueMoves, Crash, vars, store
    <3> QED BY <3>1 DEF HandlerStep, PlaceEntry, SubmitTpsl, CancelDone, ReadPosition,
               MarketClose, PlaceNewStop, CancelOldStop, ReadFails, SyncPositions,
               SyncOrders, CancelOrder, store
  <2>2. ~op.rests
    BY <2>1 DEF SyncDecide
  <2> QED BY <2>2 DEF BlofinInv, OpInv
<1> QED BY <1>1, BlofinInvariance, PTL DEF Spec, SyncKeepsResting

=============================================================================
