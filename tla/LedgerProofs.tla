---------------------------- MODULE LedgerProofs ----------------------------
(* Pipeline implements TradeLedger, for every value of the constants.  A     *)
(* step of the pipeline is one of five kinds: quiet (trades may end, nothing *)
(* else that the ledger sees), the admission of a trade, the close of its    *)
(* books, the write of the port, a crash before that write.                  *)
EXTENDS PipelineProofs

Applying == op.pc = "apply"

Quiet ==
    /\ UNCHANGED credited /\ Owed' = Owed
    /\ \A t \in Trades : /\ status'[t] = "none" <=> status[t] = "none"
                         /\ IsTerminal(t) => status'[t] \in Terminal

Admits(t) ==
    /\ status[t] = "none" /\ SetStatus(t, "pending")
    /\ UNCHANGED credited /\ Owed' = Owed

ClosesBooks(t) ==
    /\ status[t] \in Live /\ SetStatus(t, "closed")
    /\ Owed = {} /\ Owed' = {t} /\ UNCHANGED credited

LosesPnl == Applying /\ Owed' = {} /\ UNCHANGED <<status, credited>>

StepKind ==
    \/ Quiet \/ ApplyPnl \/ LosesPnl
    \/ \E t \in Trades : Admits(t) \/ ClosesBooks(t)

-----------------------------------------------------------------------------
(* Which steps are of which kind *)

LEMMA QuietKept ==
    ASSUME UNCHANGED <<status, credited>>, Owed' = Owed
    PROVE  Quiet
  BY DEF Quiet, IsTerminal

LEMMA QuietEnds ==
    ASSUME TypeOK, NEW t \in Trades, status[t] # "none", NEW st \in Terminal,
           SetStatus(t, st), UNCHANGED credited, Owed' = Owed
    PROVE  Quiet
  BY DEF Quiet, SetStatus, TypeOK, IsTerminal, Terminal

LEMMA NotOwed ==
    ASSUME ~Applying, ~Applying'
    PROVE  Owed = {} /\ Owed' = {}
  BY DEF Applying, Owed

\* Reading or writing on the venue never leads to a write of the port.
LEMMA VenueCallsOweNothing ==
    IInv /\ (Submit \/ Close \/ MoveStop \/ Sync \/ HandleRaised) => Owed = {} /\ Owed' = {}
<1>. SUFFICES ASSUME IInv, Submit \/ Close \/ MoveStop \/ Sync \/ HandleRaised
              PROVE  ~Applying /\ ~Applying'
  BY NotOwed
<1>0. op \in Ops
  BY DEF IInv, TypeOK
<1>a. ASSUME Raise(TRUE) \/ Raise(FALSE) \/ Finish PROVE ~Applying'
  BY <1>0, <1>a, RaiseTyped, IdleTyped DEF Finish, Applying
<1>1. CASE Submit
  <2>1. ASSUME PlaceRest PROVE op'.pc = "place_orders"
    BY <1>0, <2>1 DEF PlaceRest, Ops
  <2>2. CASE SetLeverage
    <3>1. op.pc = "leverage" /\ (Goto("place_entry") \/ Raise(TRUE))
      BY <2>2 DEF SetLeverage
    <3>2. ASSUME Goto("place_entry") PROVE ~Applying'
      BY <1>0, <3>2, GoOn DEF Applying, Pcs, SubmitPcs
    <3>. QED  BY <1>a, <3>1, <3>2 DEF Applying
  <2>3. CASE PlaceEntry
    <3>1. CASE EntryAnswerLost
      <4>1. CASE op' = [op EXCEPT !.tries = @ + 1]
        BY <1>0, <2>3, <4>1 DEF PlaceEntry, Applying, Ops
      <4>. QED
        BY <1>0, <2>3, <3>1, <4>1, RaiseTyped DEF PlaceEntry, EntryAnswerLost, Applying
    <3>2. CASE ~EntryAnswerLost
      <4>1. op.pc = "place_entry" /\ (PlaceRest \/ Raise(TRUE))
        BY <2>3, <3>2 DEF PlaceEntry, EntryRejected, EntryRests, EntryFillsAtOnce, EntryUnnamed
      <4>2. CASE PlaceRest
        BY <2>1, <4>1, <4>2 DEF Applying
      <4>3. CASE Raise(TRUE)
        BY <1>a, <4>1, <4>3 DEF Applying
      <4>. QED  BY <4>1, <4>2, <4>3
    <3>. QED  BY <3>1, <3>2
  <2>4. CASE SubmitDone
    BY <2>4, IdleTyped DEF SubmitDone, Finish, Applying
  <2>5. ASSUME NEW s \in op.todo, PlaceOrder(s) PROVE ~Applying /\ ~Applying'
    BY <1>0, <2>5, RaiseTyped DEF PlaceOrder, Applying, Ops
  <2>. QED  BY <1>1, <2>2, <2>3, <2>4, <2>5 DEF Submit
<1>2. CASE Close
  <2>1. CASE CancelDone
    BY <1>0, <2>1, GoOn, IdleTyped DEF CancelDone, Finish, Applying, Pcs, CancelPcs
  <2>2. CASE ReadPosition
    <3>1. op.pc = "positions" /\ (Goto("ioc") \/ Raise(FALSE) \/ Finish)
      BY <2>2 DEF ReadPosition
    <3>2. ASSUME Goto("ioc") PROVE ~Applying'
      BY <1>0, <3>2, GoOn DEF Applying, Pcs, CancelPcs
    <3>. QED  BY <1>a, <3>1, <3>2 DEF Applying
  <2>3. CASE MarketClose
    <3>1. op.pc = "ioc" /\ (Raise(TRUE) \/ Raise(FALSE) \/ Finish)
      BY <2>3 DEF MarketClose
    <3>2. ~Applying'
      BY <1>a, <3>1
    <3>. QED  BY <3>1, <3>2 DEF Applying
  <2>4. ASSUME NEW s \in op.todo, CancelOrder(s) PROVE ~Applying /\ ~Applying'
    BY <1>0, <2>4 DEF CancelOrder, Applying, Ops
  <2>. QED  BY <1>2, <2>1, <2>2, <2>3, <2>4 DEF Close
<1>3. CASE MoveStop
  <2>1. op.pc \in {"new_stop", "old_stop"} /\ (Goto("old_stop") \/ Raise(FALSE) \/ Finish)
    BY <1>3 DEF MoveStop, CancelOldStop, PlaceNewStop
  <2>2. ASSUME Goto("old_stop") PROVE ~Applying'
    BY <1>0, <2>2, GoOn DEF Applying, Pcs, MovePcs
  <2>. QED  BY <1>a, <2>1, <2>2 DEF Applying
<1>4. CASE Sync
  <2>1. CASE op' = [op EXCEPT !.pc = "read_orders", !.seen = {c \in Coins : HasPosition(c)}]
    BY <1>0, <1>4, <2>1 DEF Sync, ReadPositions, ReadOrders, ReadOrdersFails, Applying, Ops
  <2>. QED
    BY <1>4, <2>1, IdleTyped DEF Sync, ReadPositions, ReadOrders, ReadOrdersFails, Finish, Applying
<1>5. CASE HandleRaised
  BY <1>5, IdleTyped DEF HandleRaised, Finish, Applying
<1>. QED  BY <1>1, <1>2, <1>3, <1>4, <1>5

LEMMA HandlerKind == IInv /\ HandlerStep => StepKind
<1>. SUFFICES ASSUME IInv, HandlerStep, ~ApplyPnl PROVE Quiet
  BY DEF StepKind
<1>0. TypeOK /\ HandlerOwnsTrade /\ Owed' = Owed
  BY VenueCallsOweNothing DEF IInv, HandlerStep
<1>1. UNCHANGED credited
  BY DEF HandlerStep, Submit, SetLeverage, PlaceEntry, PlaceOrder, SubmitDone, Close, CancelOrder,
         CancelDone, ReadPosition, MarketClose, MoveStop, PlaceNewStop, CancelOldStop, Sync,
         ReadPositions, ReadOrders, ReadOrdersFails, HandleRaised
<1>2. CASE UNCHANGED status
  BY <1>0, <1>1, <1>2, QuietKept
<1>3. CASE EntryFillsAtOnce /\ op.pc = "place_entry"
  BY <1>0, <1>1, <1>3
  DEF EntryFillsAtOnce, SetStatus, HandlerOwnsTrade, SubmitPcs, SyncPcs, Live, Terminal, IsTerminal,
      Quiet, TypeOK
<1>4. CASE ReadOrders
  <2>1. \A t \in Trades : status'[t] = SyncedStatus(t, op.seen)
    BY <1>4 DEF ReadOrders
  <2>. QED  BY <1>0, <1>1, <2>1 DEF Quiet, SyncedStatus, IsTerminal, Terminal
<1>5. CASE /\ op.pc \in {"cancel", "positions", "ioc", "raised"}
           /\ SetStatus(op.t, "canceled") \/ SetStatus(op.t, "closed")
  <2>1. op.t \in Trades /\ status[op.t] # "none"
    BY <1>0, <1>5 DEF HandlerOwnsTrade, SyncPcs
  <2>. QED  BY <1>0, <1>1, <1>5, <2>1, QuietEnds DEF Terminal
<1>6. \/ UNCHANGED status
      \/ EntryFillsAtOnce /\ op.pc = "place_entry"
      \/ ReadOrders
      \/ /\ op.pc \in {"cancel", "positions", "ioc", "raised"}
         /\ SetStatus(op.t, "canceled") \/ SetStatus(op.t, "closed")
  BY DEF HandlerStep, Submit, SetLeverage, PlaceEntry, EntryRejected, EntryRests, EntryUnnamed,
         EntryAnswerLost, PlaceOrder, SubmitDone, Close, CancelOrder, CancelDone, ReadPosition, MarketClose, MoveStop,
         PlaceNewStop, CancelOldStop, Sync, ReadPositions, ReadOrdersFails, HandleRaised, db
<1>. QED  BY <1>2, <1>3, <1>4, <1>5, <1>6

LEMMA MessagesKind == IInv /\ Messages => StepKind
<1>. SUFFICES ASSUME IInv, Messages PROVE StepKind
  OBVIOUS
<1>0. TypeOK /\ ~Applying
  BY IdleTyped DEF IInv, Messages, Signal, TpHit, TradeLive, AllTpHit, StopHit, Breakeven,
                   ManualUpdate, Canceled, TradeClosed, Idle, Applying
<1>1. ASSUME NEW t \in Trades, NEW g \in Gates, Signal(t, g) PROVE Admits(t)
  <2>1. ~Applying'
    BY <1>0, <1>1, SubmitStarts DEF Signal, Applying
  <2>. QED  BY <1>0, <1>1, <2>1, NotOwed DEF Signal, Admits
<1>2. ASSUME NEW t \in Trades, Idle, Promotes(t), UNCHANGED credited,
             op' = op \/ BeginMove(t, "entry")
      PROVE  Quiet
  <2>1. ~Applying'
    BY <1>0, <1>2, MoveStarts DEF Applying, Levels
  <2>. QED
    BY <1>0, <1>2, <2>1, NotOwed
    DEF Promotes, SetStatus, Quiet, TypeOK, IsTerminal, Terminal
<1>3. ASSUME NEW t \in Trades, NEW k \in {"tp1", "tp2", "tp3"}, TpHit(t, k) PROVE Quiet
  BY <1>2, <1>3 DEF TpHit
<1>4. ASSUME NEW t \in Trades, TradeLive(t) PROVE Quiet
  BY <1>2, <1>4 DEF TradeLive
<1>5. ASSUME NEW t \in Trades, AllTpHit(t) \/ StopHit(t) PROVE ClosesBooks(t)
  <2>1. CloseWithPnl(t) /\ status[t] \in Live /\ UNCHANGED credited
    BY <1>5 DEF AllTpHit, StopHit
  <2>2. Owed = {} /\ Owed' = {t}
    BY <1>0, <2>1, PnlStarts DEF Owed, Applying
  <2>. QED  BY <2>1, <2>2 DEF ClosesBooks, CloseWithPnl
<1>6. ASSUME NEW t \in Trades, Breakeven(t) \/ ManualUpdate(t) PROVE Quiet
  <2>1. Idle /\ (BeginMove(t, "entry") \/ BeginMove(t, "update")) /\ UNCHANGED <<status, credited>>
    BY <1>6 DEF Breakeven, ManualUpdate, db
  <2>2. ~Applying'
    BY <2>1, MoveStarts DEF Applying, Levels
  <2>. QED  BY <1>0, <2>1, <2>2, NotOwed, QuietKept
<1>7. ASSUME NEW t \in Trades, Canceled(t) PROVE Quiet
  <2>1. (BeginCancel(t) \/ BeginClose(t)) /\ UNCHANGED <<status, credited>>
    BY <1>7 DEF Canceled, db
  <2>2. ~Applying'
    BY <2>1, CancelStarts DEF Applying
  <2>. QED  BY <1>0, <2>1, <2>2, NotOwed, QuietKept
<1>8. ASSUME NEW t \in Trades, TradeClosed(t) PROVE Quiet
  <2>1. CASE BeginClose(t) /\ UNCHANGED status
    <3>1. ~Applying'
      BY <2>1, CancelStarts DEF Applying
    <3>. QED  BY <1>0, <1>8, <2>1, <3>1, NotOwed, QuietKept DEF TradeClosed
  <2>2. CASE SetStatus(t, "closed") /\ UNCHANGED op
    <3>1. Owed' = Owed /\ "closed" \in Terminal
      BY <2>2 DEF Owed, Terminal
    <3>. QED  BY <1>0, <1>8, <2>2, <3>1, QuietEnds DEF TradeClosed
  <2>. QED  BY <1>8, <2>1, <2>2 DEF TradeClosed
<1>. QED  BY <1>1, <1>3, <1>4, <1>5, <1>6, <1>7, <1>8 DEF Messages, StepKind

LEMMA ButtonsKind == IInv /\ Buttons => Quiet
<1>. SUFFICES ASSUME IInv, Buttons PROVE Quiet
  OBVIOUS
<1>0. TypeOK /\ ~Applying
  BY IdleTyped DEF IInv, Buttons, Approve, Reject, ConfirmClose, KillSwitch, ConfirmClosePos,
                   Pause, Idle, Applying
<1>1. ASSUME NEW t \in Trades, SetStatus(t, "canceled"), status[t] = "pending", UNCHANGED <<op, credited>>
      PROVE  Quiet
  <2>1. Owed' = Owed /\ "canceled" \in Terminal
    BY <1>1 DEF Owed, Terminal
  <2>. QED  BY <1>0, <1>1, <2>1, QuietEnds
<1>2. ASSUME NEW t \in Trades, UNCHANGED <<status, credited>>,
             BeginSubmit("approve", t) \/ BeginCancel(t) \/ BeginClose(t)
      PROVE  Quiet
  <2>1. ~Applying'
    BY <1>2, SubmitStarts, CancelStarts DEF Applying
  <2>. QED  BY <1>0, <1>2, <2>1, NotOwed, QuietKept
<1>3. ASSUME NEW t \in Trades, Approve(t) \/ Reject(t) PROVE Quiet
  BY <1>1, <1>2, <1>3 DEF Approve, Reject
<1>4. ASSUME NEW t \in Trades, ConfirmClose(t) \/ KillSwitch(t) PROVE Quiet
  BY <1>2, <1>4 DEF ConfirmClose, KillSwitch, db
<1>5. ASSUME NEW c \in Coins, ConfirmClosePos(c) PROVE Quiet
  <2>1. Owed' = Owed
    BY <1>5 DEF ConfirmClosePos, Owed
  <2>. QED  BY <1>5, <2>1, QuietKept DEF ConfirmClosePos, db
<1>6. ASSUME Pause PROVE Quiet
  <2>1. Owed' = Owed
    BY <1>6 DEF Pause, Owed
  <2>. QED  BY <1>6, <2>1, QuietKept DEF Pause, db
<1>. QED  BY <1>3, <1>4, <1>5, <1>6 DEF Buttons

LEMMA SweepsKind == IInv /\ Sweeps => Quiet
<1>. SUFFICES ASSUME IInv, Sweeps PROVE Quiet
  OBVIOUS
<1>0. TypeOK /\ SweepKnown
  BY DEF IInv
<1>1. ASSUME NEW t \in Trades, NEW rest, Decline(t, rest), status[t] # "none" PROVE Quiet
  <2>1. Owed' = Owed /\ "canceled" \in Terminal
    BY <1>1 DEF Decline, Owed, Terminal
  <2>. QED  BY <1>0, <1>1, <2>1, QuietEnds DEF Decline
<1>2. CASE SweepStart \/ SweepNext
  BY <1>0, <1>1, <1>2 DEF SweepStart, SweepNext, ExpiredConfirmations, SweepKnown, TypeOK
<1>3. CASE ReconcileTick
  <2>1. ~Applying /\ ~Applying'
    BY <1>3, IdleTyped, SyncStarts DEF ReconcileTick, Idle, Applying
  <2>. QED  BY <1>3, <2>1, NotOwed, QuietKept DEF ReconcileTick, db
<1>4. ASSUME NEW t \in Trades, Timeout(t) PROVE Quiet
  <2>1. Owed' = Owed
    BY <1>4 DEF Timeout, Owed
  <2>. QED  BY <1>4, <2>1, QuietKept DEF Timeout, db
<1>. QED  BY <1>2, <1>3, <1>4 DEF Sweeps

LEMMA CrashKind == Crash => Quiet \/ LosesPnl
<1>. SUFFICES ASSUME Crash PROVE Quiet \/ LosesPnl
  OBVIOUS
<1>1. UNCHANGED <<status, credited>> /\ Owed' = {}
  BY SyncStarts DEF Crash, db, Owed
<1>. QED  BY <1>1, QuietKept DEF LosesPnl, Applying, Owed

LEMMA VenueKind == VenueMoves => Quiet
<1>. SUFFICES ASSUME VenueMoves PROVE Quiet
  OBVIOUS
<1>1. UNCHANGED <<status, credited, op>>
  BY DEF VenueMoves, EntryFills, EntryDropped, ExitFills, db
<1>2. Owed' = Owed
  BY <1>1 DEF Owed
<1>. QED  BY <1>1, <1>2, QuietKept

LEMMA NextKind == IInv /\ [Next]_vars => StepKind
<1>. SUFFICES ASSUME IInv, [Next]_vars PROVE StepKind
  OBVIOUS
<1>1. CASE UNCHANGED vars
  <2>1. UNCHANGED <<status, credited>> /\ Owed' = Owed
    BY <1>1 DEF vars, db, Owed
  <2>. QED  BY <2>1, QuietKept DEF StepKind
<1>. QED  BY <1>1, HandlerKind, MessagesKind, ButtonsKind, SweepsKind, CrashKind, VenueKind DEF Next, StepKind

-----------------------------------------------------------------------------
(* What each kind is to the ledger *)

\* A quiet step settles the trades it ends, be it none.
LEMMA QuietSettles == TypeOK /\ TypeOK' /\ Quiet => Ledger!Next
<1>. SUFFICES ASSUME TypeOK, TypeOK', Quiet PROVE Ledger!Next
  OBVIOUS
<1>. DEFINE S == {t \in Trades : Life[t] = "live" /\ Life'[t] = "settled"}
<1>1. \A t \in Trades : /\ Life[t] = "none" => Life'[t] = "none"
                        /\ Life[t] = "live" => Life'[t] \in {"live", "settled"}
                        /\ Life[t] = "settled" => Life'[t] = "settled"
                        /\ Life[t] \in {"none", "live", "settled"}
  BY DEF Quiet, Life, TypeOK, TradeStatus, IsTerminal, Live, Terminal
<1>2. Life' = [t \in Trades |-> IF t \in S THEN "settled" ELSE Life[t]]
  <2>1. \A t \in Trades : Life'[t] = IF t \in S THEN "settled" ELSE Life[t]
    BY <1>1
  <2>2. Life' = [t \in Trades |-> Life'[t]]
    BY DEF Life
  <2>. QED  BY <2>1, <2>2
<1>3. Ledger!SettleAll(S)
  BY <1>2 DEF Ledger!SettleAll, Quiet
<1>4. S \in SUBSET Trades
  OBVIOUS
<1>. QED  BY <1>3, <1>4 DEF Ledger!Next

\* A change of one status changes one life.
LEMMA OneLife ==
    ASSUME TypeOK, NEW t \in Trades, NEW st \in Live \cup Terminal, SetStatus(t, st)
    PROVE  Life' = [Life EXCEPT ![t] = IF st \in Live THEN "live" ELSE "settled"]
  BY DEF TypeOK, SetStatus, Life, Live, Terminal

LEMMA AdmitsAdmits ==
    ASSUME TypeOK, NEW t \in Trades, Admits(t)
    PROVE  Ledger!Admit(t)
<1>1. Life' = [Life EXCEPT ![t] = "live"]
  BY OneLife DEF Admits, Live
<1>2. Life[t] = "none"
  BY DEF Admits, Life
<1>. QED  BY <1>1, <1>2 DEF Admits, Ledger!Admit

LEMMA BooksSettle ==
    ASSUME TypeOK, NEW t \in Trades, ClosesBooks(t)
    PROVE  Ledger!SettleWithPnl(t)
<1>1. Life' = [Life EXCEPT ![t] = "settled"]
  BY OneLife DEF ClosesBooks, Live, Terminal
<1>2. Life[t] = "live"
  BY DEF ClosesBooks, Life, Live
<1>3. Owed' = Owed \cup {t} /\ UNCHANGED credited
  BY DEF ClosesBooks
<1>. QED  BY <1>1, <1>2, <1>3 DEF Ledger!SettleWithPnl

LEMMA PnlCreditsOrForfeits ==
    ASSUME IInv, ApplyPnl
    PROVE  Ledger!Next
<1>1. op.t \in Trades /\ op.t \in Owed /\ Owed' = Owed \ {op.t} /\ UNCHANGED Life
  BY IdleTyped DEF IInv, HandlerOwnsTrade, SyncPcs, ApplyPnl, Finish, Owed, Life, db
<1>2. credited' = credited \/ credited' = [credited EXCEPT ![op.t] = @ + 1]
  BY DEF ApplyPnl
<1>3. Ledger!Credit(op.t) \/ Ledger!Forfeit(op.t)
  BY <1>1, <1>2 DEF Ledger!Credit, Ledger!Forfeit
<1>. QED  BY <1>1, <1>3 DEF Ledger!Next

LEMMA LossForfeits ==
    ASSUME IInv, LosesPnl
    PROVE  Ledger!Next
<1>1. op.t \in Trades /\ op.t \in Owed /\ Owed' = Owed \ {op.t} /\ UNCHANGED <<Life, credited>>
  BY DEF IInv, HandlerOwnsTrade, SyncPcs, LosesPnl, Applying, Owed, Life
<1>2. Ledger!Forfeit(op.t)
  BY <1>1 DEF Ledger!Forfeit
<1>. QED  BY <1>1, <1>2 DEF Ledger!Next

LEMMA StepRefines == IInv /\ IInv' /\ [Next]_vars => Ledger!Next
<1>. SUFFICES ASSUME IInv, IInv', [Next]_vars PROVE Ledger!Next
  OBVIOUS
<1>0. TypeOK /\ TypeOK'
  BY DEF IInv
<1>1. ASSUME NEW t \in Trades, Admits(t) \/ ClosesBooks(t) PROVE Ledger!Next
  BY <1>0, <1>1, AdmitsAdmits, BooksSettle DEF Ledger!Next
<1>. QED
  BY <1>0, <1>1, NextKind, QuietSettles, PnlCreditsOrForfeits, LossForfeits DEF StepKind

-----------------------------------------------------------------------------
(* The theorems *)

\* The pipeline implements the ledger: whatever the provider, the user, the
\* venue and the process do, a trade is admitted once, settled once, and its
\* result is credited at most once and only after it was settled.
THEOREM Refinement == Spec => LedgerSpec
<1>1. Init => Ledger!Init
  BY IdleTyped DEF Init, Ledger!Init, Life, Owed
<1>. QED  BY <1>1, StepRefines, Invariance, PTL DEF Spec, LedgerSpec, Ledger!Spec

\* No step of the bot, of the venue or of a restart brings a closed or canceled
\* trade back to life.
THEOREM NoResurrection == Spec => NeverResurrected
<1>1. IInv /\ [Next]_vars => [\A t \in Trades : IsTerminal(t) => status'[t] \in Terminal]_vars
  <2>. SUFFICES ASSUME IInv, [Next]_vars, NEW t \in Trades, IsTerminal(t)
                PROVE  status'[t] \in Terminal
    OBVIOUS
  <2>1. CASE Quiet
    BY <2>1 DEF Quiet
  <2>2. CASE ApplyPnl \/ LosesPnl
    BY <2>2 DEF ApplyPnl, LosesPnl, db, IsTerminal
  <2>3. ASSUME NEW u \in Trades, Admits(u) \/ ClosesBooks(u) PROVE status'[t] \in Terminal
    BY <2>3 DEF IInv, TypeOK, Admits, ClosesBooks, SetStatus, IsTerminal, Terminal
  <2>. QED  BY <2>1, <2>2, <2>3, NextKind DEF StepKind
<1>. QED  BY <1>1, Invariance, PTL DEF Spec, NeverResurrected

=============================================================================
