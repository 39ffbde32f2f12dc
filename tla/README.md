# Signals pipeline in TLA+

The bot receives trade signals and follow-up messages from a provider, trades
them for each of its users on Hyperliquid or Blofin, and keeps what it believes
about every trade in SQLite. The venue changes without telling it, the provider
repeats and reorders its messages, the user presses buttons that are minutes
old, two sweeps act on their own, and the process may die between any two calls
to the venue. Around the trades, users register, switch exchanges and change
their limits in conversations that last minutes, while pipelines built from what
was stored before go on trading. This directory models these parts of the program
in four groups of modules: a trade on Hyperliquid, a trade on Blofin, a signal's
way into a pipeline and its result's way into the port, and the accounts. It
checks them with TLC on small instances and proves with TLAPS, for every value of
the constants, all the properties that hold but the one about liveness. Paths
below are relative to the repository root (`src/pipeline.py` is the pipeline),
which PROJECT.json prefixes with `src/`.

## 1. Inventory

One asyncio process runs everything. A handler is a synchronous function, so two
handlers interleave only at an `await`, but a handler makes several HTTP calls,
and the venue moves between any two of them.

| Component | State | Operations | Acts on |
|---|---|---|---|
| Trade store (`src/state/database.py`, `models.py`) | rows of `trades` (status, confirmation marker) and `orders` (status, exchange oid) | create, update status, record order, set oid, open trades, expired confirmations | read and written by every handler |
| Hyperliquid position manager (`src/exchange/position_manager.py`) | none of its own | submit, cancel, close, move stop, sync | store and venue |
| Hyperliquid client (`src/exchange/hyperliquid.py`) | session, metadata | reads with retries; orders | venue |
| Pipeline (`src/pipeline.py`) | duplicate filter, config snapshot | one handler per message type | store, position manager, port |
| Approval and close buttons (`src/telegram/handlers/approval.py`, `menu.py`) | none | approve, reject, close trade, close position | store, position manager |
| Confirmation sweeper (`src/telegram/confirmation_sweeper.py`) | the list of expired trades, across awaits | decline each | store |
| Reconciliation sweeper (`src/reconciliation_sweeper.py`) | timer | sync every user | position manager |
| Orchestrator (`src/orchestrator.py`) | pipelines, paused flags, kill flag | activate, deactivate, pause, refresh, dispatch, kill, resume | pipelines |
| User store (`src/state/user_db.py`) | users, credentials, config, port, active exchange | set port, apply a result, switch pointer, migrations | config of every pipeline |
| Exchange switch, promotion (`src/telegram/handlers/switch.py`, `promotion.py`) | a conversation's data | check, collect, validate, commit | user store, orchestrator |
| Blofin manager (`src/exchange/blofin_position_manager.py`, `blofin.py`) | none of its own | as the Hyperliquid one, with client order ids and conditional orders | store and venue |
| Order builder, adapter, sizer, risk limits (`src/exchange/order_builder.py`, `adapter.py`, `src/strategy/position_sizer.py`) | pure | size, split over take-profits, round, gate | signal handler |
| Classifier and parsers (`src/parser`) | pure | text to message | pipeline |
| PnL monitor (`src/telegram/pnl_monitor.py`) | alerts already sent | tick | notifications |
| Backup (`src/state/backup.py`) | files | snapshot, rename, prune | disk |
| Inputs, forwarder (`src/input`, `scripts`) | queues | deliver messages | orchestrator |
| Menus, registration, account, admin (`src/telegram`) | conversations | settings | user store, orchestrator |
| Config, symbol mapper, logging, health, admin API, encryption, formatting | tables, counters | | |

How they interact: inputs hand a text to `Orchestrator.dispatch`, which calls
each user's `Pipeline.process_message`; the handler reads the store, calls the
position manager, and writes the store around each venue call. The buttons and
the kill switch call a position manager of their own on the same store. The
reconciliation sweeper calls `sync_positions` through the pipeline; the
confirmation sweeper writes the store directly. A trade that ends with a result
is closed in the trade store first and credited to the port in the user store
after, two databases with no common transaction.

What is hard, and what makes each part correct:

- **Store.** `update_trade_status` has no guard. A terminal trade must stay
  terminal, though each caller decides by a status it read before other calls.
- **Position manager.** Each of its operations is a series of calls, any of
  which may be refused, or raise after having taken effect. A position of a live
  trade must keep a stop, also while the stop is being moved; a trade must not be
  recorded as over while a position is left.
- **Pipeline.** Messages come twice, late and out of order. A result must be
  applied at most once; a held trade must not reach the venue by a message.
- **Buttons and confirmation sweep.** Both decide on statuses that lag; an
  answered prompt must not be declined, an unanswered one not be decided by
  anything but the timeout.
- **Reconciliation.** A trade whose closing message was lost must end, unless its
  user is paused: the sweep passes over paused users.
- **Orchestrator, switch, promotion.** The check for open trades is made when
  the conversation starts, the switch minutes later; the kill flag drops
  messages; a refreshed config replaces another.
- **User store.** Credentials, pointer, defaults and pipeline change in separate
  transactions; wherever the process dies the active combo must have credentials.
- **Port.** The watermark never falls through a result; a loss is clamped at it.
- **Duplicate filter.** Keyed by trade and kind of message, held in memory.
- **Blofin manager.** An entry must be sent once, a replacement stop needs an id
  the venue has not in use; cancel answers are read, unlike Hyperliquid's, but
  only their top-level code.
- **Sizing.** What is ordered is no more than what the limits were checked with,
  but for the venue's minimum order; the limits hold over the trades that wait for
  the user too.
- **PnL monitor.** One alert per crossing. **Backup.** A file with the final name
  is complete.

The hazards are listed one by one, at the line where each bites, in PROJECT.json.

## 2. Modules

| Module | What it is | Lines of the program |
|---|---|---|
| *A trade on Hyperliquid* | | |
| `TradeState` | the variables and their values, the store's queries, the venue | `database.py`, `models.py`, `hyperliquid.py`; the venue is external |
| `PositionManager` | submit, cancel, close, move stop, sync, one step per venue call | `position_manager.py` |
| `Pipeline` | messages, buttons, sweeps, restart; `Init`, `Next`, `Spec` | `pipeline.py`, `approval.py`, `confirmation_sweeper.py`, `reconciliation_sweeper.py`, `orchestrator.py` |
| `TradeLedger` | abstract: a trade is admitted once, settled once, credited at most once | what the program promises |
| `PipelineProps` | the properties, the refinement mapping, the inductive invariant | |
| `MCPipeline` | the instances for TLC | |
| `PipelineProofs` | the inductive invariant and what follows from it | |
| `LedgerProofs` | the refinement of `TradeLedger` | |
| `HeldProofs` | a held trade stays off the venue | |
| `StopProofs` | a stop move keeps a stop; a live position has one | |
| *A trade on Blofin* | | |
| `BlofinManager` | the manager and its client, one step per HTTP call | `blofin_position_manager.py`, `blofin.py` |
| `BlofinTrade` | the messages, buttons, sync and restart in front of it | `pipeline.py`, `approval.py`, `orchestrator.py` |
| `BlofinProps`, `MCBlofin` | properties, inductive invariant and instance | |
| `BlofinProofs` | every property of the group | |
| *Signals and the port* | | |
| `Sizing` | from a signal to the lots of its orders; the risk gate | `position_sizer.py`, `order_builder.py`, `blofin_order_builder.py`, `adapter.py` |
| `Intake` | the gates of `_handle_signal`, the end of a trade, the port's modes | `pipeline.py`, `user_db.py`, `port.py` (handler) |
| `IntakeProps`, `MCIntake` | properties and instance | |
| `IntakeProofs` | types, the port's floor, what an entry is worth, what the take-profits may sum to | |
| `LimitProofs` | the limits over all admitted trades, with sums over finite sets | |
| *The accounts* | | |
| `Accounts` | user store, orchestrator, admin API; a commit as a series of transactions | `user_db.py`, `orchestrator.py`, `api/admin.py` |
| `AccountChat` | registration, promotion, switch, settings as conversations; the process | `registration.py`, `promotion.py`, `switch.py`, `config.py`, `account.py`, `help.py`, `bot.py`, `main.py` |
| `AccountProps`, `MCAccounts` | properties, inductive invariant and instances | |
| `AccountProofs` | every property of the group | |

By EXTENDS: `TradeState` <- `PositionManager` <- `Pipeline` <- `PipelineProps` <-
the proofs and `MCPipeline`, with `PipelineProps` instantiating `TradeLedger`;
`BlofinManager` <- `BlofinTrade` <- `BlofinProps` <- `BlofinProofs`, `MCBlofin`;
`Sizing` <- `Intake` <- `IntakeProps` <- `IntakeProofs` <- `LimitProofs`, and
`IntakeProps` <- `MCIntake`; `Accounts` <-
`AccountChat` <- `AccountProps` <- `AccountProofs`, `MCAccounts`. The groups do not
share variables: what one leaves open (which messages come, what a trade's result
is, how a trade ends) the other models in detail.

The next three sections are about the Hyperliquid group; the others follow.

### State

| Variable | In the program |
|---|---|
| `status`, `gate` | `trades.status`; how `_handle_signal` admitted it: `auto` (submitted at once), `confirm` (`requires_confirmation`), `manual` (auto_execute off), `tiny` (recorded with size 0) |
| `rows`, `price` | `orders.status` of each order row; at which price a stop row was placed |
| `op` | the local variables and program counter of the handler that is running: `pc` says before which venue call it stands, `t` the trade it works for, `todo` the orders still to place or to cancel, `slot` and `px` the stop being moved and its new price, `seen` the positions a sync has read, `tries` the retries used |
| `sweep`, `overdue` | the list a confirmation sweep holds across its awaits; held trades past the timeout |
| `approved` | Approve was pressed (history, for the properties) |
| `paused` | `UserPipelineContext.paused`: in memory, lost in a restart |
| `credited` | how often the trade's result was applied to the port |
| `resting`, `pos` | the venue: orders on the book, units of the position on a coin |

### Actions

`HandlerStep` is a step of the handler that is running: `Submit` (`SetLeverage`,
`PlaceEntry`, `PlaceOrder`, `SubmitDone`), `Close` (`CancelOrder`, `CancelDone`,
`ReadPosition`, `MarketClose`), `MoveStop` (`PlaceNewStop`, `CancelOldStop`),
`Sync` (`ReadPositions`, `ReadOrders`), `ApplyPnl`, and `HandleRaised`, what the
caller does with an exception. Everything that starts a handler (`Messages`,
`Buttons`, the sweeps) needs `Idle`: handlers are synchronous. The confirmation
sweep is the exception the code makes: `SweepStart` reads the list and declines
one trade, then awaits its notification; `SweepNext` goes on with the list it has,
and any other handler may run between. `Pause` stops the messages and the start of
either sweep (`if ctx.paused: continue`), not the buttons. `Crash` loses `op`,
`sweep` and the pause and starts with the sync of `activate_user`. `VenueMoves` is
the venue between two requests: an entry fills or is dropped, a stop or a
take-profit triggers.

A step is one venue call with the row writes around it. A crash therefore falls
between two calls, and between closing a trade and crediting its result, which
are two databases; it does not fall between two writes of the store without a
call between them.

A request ends in one of these ways. An order rests, or triggers or fills at once,
or is refused, or is answered without a name (`Unnamed`: its row stays `pending`,
whether it rests or not), or the request raises, having taken effect or not; the
entry is sent again after a transient exception and not after another. A cancel is
carried out, or refused, which the manager does not read, so that its row is marked
canceled all the same, or raises and leaves the row (`Withdraw`). A read answers or
raises.

Messages are not queued: any message may arrive whenever the loop is idle, any
number of times. That is every loss, repetition and order of delivery at once,
and silence under the kill switch or `auto_execute` off is a message that does not
arrive.

### What the abstraction leaves out

- Every trade is long; a position is a number of units. An entry opens
  `EntrySize`, a take-profit closes one unit, a stop all of it. Prices are three
  values for a stop: initial, entry, update. An order fills whole; only a market
  close may fill in part.
- A trade is submitted at most once. `Approve` needs a trade without an entry
  row; the code also offers the button for a submitted trade (`menu.py:257`),
  listed as a hazard.
- A trade has as many stop rows as `Stops`: the bound on moves. A move without
  a free row does nothing.
- A request that was carried out although its answer was lost leaves at most one
  `ghost` entry per trade. A stop or a take-profit whose request raised may rest
  under its row; that a retry of it leaves a second, equal one is not modelled: it is
  reduce-only, and no row knows it.
- `kill_all` closes one trade per `KillSwitch`; the next may follow at once or not.
- Sizing, risk gates and the amount of a result are `Intake`'s. The duplicate
  filter (`pipeline.py:225-256`) only makes fewer messages have an effect, and any
  message may be missing here.

### A trade on Blofin

`BlofinManager` follows the same cut, one HTTP call per step with the rows written
around it. `status` and `rows` are the store, `book` the venue's live orders with
their client ids, `pos` the position, `op` the running handler, and `entries`
counts how often an entry filled (for `EntryOnce`). A row gets its exchange id
only from an answer that has one, so that an order may rest whose row is still
`pending` (`AcceptedUnnamed`, `AnswerLost`). `CancelAnswer` is what
`response_ok or _cancel_benign` make of the answer: carried out or gone already,
refused, refused in the item of an answer whose own code is 0 (then the row is
marked and the order stays), or none. `MarketClose` has the same third outcome. A
move checks the level of the
active stop (`Movable`), numbers the replacement by all stop rows (`NewStopId`),
places it and only then withdraws the old one. A sync is three reads with the
venue moving between them, and one decision.

`BlofinTrade` has the pipeline's handlers over it. `Buttons` is what the approve,
reject and close buttons do to a Blofin trade: they use the Hyperliquid manager,
whose calls fail, and what remains is the status it writes.

Left out: prices (a new stop may be refused as past the market, for no reason),
the leverage call (its outcome changes nothing), a trade held for the user, more
trades on one instrument, and the look-up of real fills.

### Signals and the port

`Sizing` is arithmetic over whole dollars and lots. `EntryLots` and `TpLots` give
sets, since `build_orders` floors binary fractions (`order_builder.py:32-35`): an
amount, a share or a remainder that is a whole number of lots may lose one
(`Floored`), as 0.6 split in 33, 33 and 34 percent gives 0.1, 0.1 and 0.3. The
Blofin builder adds an epsilon before it floors, so its sets have one element.
`OrderUsd` is the adapter's `max(size_usd, 10)`, which the store does not see, and
`Buildable` what the builders refuse.

`Intake` has the user's combo, `auto` (auto_execute), the wallet, the port with
its mode and mark, the trades with the size and lots they were admitted with, and
the results since midnight. `Admit` is a signal with auto-execution on, every gate
a conjunct in the order of `_handle_signal`; `RecordForUser` is one with it off,
where a failing size, limit or builder is only noted. `CloseWithPnl` is
`_close_with_realized_pnl` and, unless the write fails, `apply_pnl_to_port`;
`EndWithoutPnl` every other end. The port is changed by its user (`SetAmount`,
`ChangeMode`, through `set_port`) or by the admin API, which writes columns one by
one (`ApiEditPort`, remembered in `direct`).

Left out: levels of risk beyond one percentage each, custom presets whose shares
do not sum to 100, a limit that is edited while trades are open, prices and
leverage. A result is any of a set; that Blofin's own figure is partial when the
stop's fill is not yet in the order history (`adapter.py:241`) is not modelled.

### The accounts

A handler that writes the store makes several transactions with no `await`
between them, so that no other handler comes between two of them, but a crash may.
`commit` is what is left to do: `create`, `save`, `point`, `tighten`, `link`,
`rebuild`, in the order `After` gives for each kind of handler. `pipe` is
`UserPipelineContext`: the client with the credentials it was built from, and the
copy of the settings, which a refresh replaces and the client not. `ahead` names
what the code stores without telling the pipeline (the admin API's edits, an edit
in the chat whose refresh fails, and a promotion whose last write fails): the
properties exempt exactly these, and a rebuild, restart or deactivation empties
it. The three writes of a promotion are in one `try` (`PromoteFails`). The sync of
an activation may fail to read (`Synced`) and leaves the trades as they were.

`KillAll` is one step for all users: each ends closed, with a failed close (its
trades counted as over or not, the venue as it was), or untouched when the store
cannot be read (`KillUser`). That one user's failure does not spare the next, the
two `try` of the loop, is therefore an assumption of the model and no property.

`AccountChat` has the three conversations as they are registered with the bot:
each with its own state, one draft for all, a text going to the first that waits
for one (`RegText`, `PromoText`, `SwText`). `/cancel` is a command before it is a
fallback, so that it empties the draft and ends nothing. Between two messages of a
conversation the admin API, signals, venue and other conversations go on.

Left out: names, the encryption, the list of administrators, the schema
migrations (one transaction in `_create_tables`), the settings other than one
limit, and the trades themselves: `open` says whether the store has a live one,
`exposed` which combos hold something of the user.

## 3. Runs

`Faults` says what may go wrong: `crash`, `transport` (an order or cancel request
raises, its effect unknown), `read` (a request that only reads raises), `refusal`,
`noid` (an answer names no order), `drop` (the venue drops an entry), `linger` (it
keeps the reduce-only orders of a flat position), `pause`. One provider trade id is
one trade of one user; users share nothing below the orchestrator, so one user is
enough.

| Run | Instance | Shows |
|---|---|---|
| `lifecycle` | one trade of two units, no take-profit order, two stops, one retry, every gate, every fault but the pause | `TypeOK`; `PnlAtMostOnce`; `HeldNeverOnVenue`; `StopKeptDuringMove`; `LedgerSpec`, the refinement |
| `covered` | one trade of three units, two take-profits, three stops; read, drop, linger, pause; with fairness | `LivePositionCovered`: whenever no handler runs, a position on the coin of a live trade has a stop; `HollowReconciled`: a trade with nothing behind it on the venue does not stay live for ever |
| `two_trades` | two trades on one coin, crashes | `NeverResurrected`: the closes of one trade, the stale list of a sweep and the positions a sync has read may concern the other |
| `close_fails` | with refusal | violated: `FailedCloseNotTerminal` |
| `held_trade` | no fault | violated: `HeldUntilTimeout` |
| `late_answer` | no fault | violated: `AnswerHonoured` |
| `cancel_race` | no fault | violated: `CancelLeavesNoPosition` |
| `blofin` | one trade of two units, one take-profit, three stop rows; crash, transport, refusal, an answer without id | `TypeOK`, `ClientIdFree`, `EntryOnce`, `StopKept`, `SyncKeepsResting` |
| `blofin_cancel` | the same trade, with refusal | violated: `CanceledIsGone` |
| `intake` | three signals, all four combos, limits of two trades and 15 dollars, sizes between the minimum of 5 (8 on a testnet) and the cap of 12, results of -30 and 20 | `TypeOK`, `LimitsHold`, `NotionalBounded`, `FloorKept` |
| `accounts` | one user, Hyperliquid's two networks, one set of credentials, two limits; every fault | `TypeOK`, `PointerHasKeys`, `ClientIsActive`, `LimitIsCurrent` |
| `switch_orphans` | one user, both exchanges on testnet, no fault | violated: `SwitchOrphansNothing` |

The largest are `blofin` (6.0 million states), `two_trades` (2.6), `accounts` (1.2)
and `lifecycle` (0.8).

Why the bounds are enough. One trade exercises every path of every handler, as
no handler but the sync and the sweep touches a second one. Two stop rows give a
move and a repeated move that finds nothing free; three, in `covered`, give two
moves with a take-profit between them. Two units give a market close that fills in
part. `lifecycle` places no take-profits, the stop being placed, refused, lost and
withdrawn by the same steps; their messages come all the same. `covered` has the
partial exits, and the last one. Two trades on one coin give the position the store
attributes to the wrong trade.

In `blofin`, three stop rows give the first stop, a replacement and a replacement
of that one or of a refused one; two units and one take-profit give a partial
exit, and a position that outlives it. `linger` is left to the Hyperliquid run:
no decision of the Blofin manager depends on orders of a flat position but the
cancels, which find them gone or not in any case. In `intake`, the third signal is
the one that exceeds either limit, the results give a loss that is clamped and one
that stops the day, and the lots (of two dollars) leave a rest; a signal of a port
of 35 has a size of 7, so that on Hyperliquid's mainnet the adapter asks for 10 and
on its testnet for 10 where 8 is counted, and on Blofin the size is what is asked
for; the cap of 12 is above the confirmation's 9. The wallet of 20 is below the
port. In `accounts`, two combos are enough to leave one and come back to it with
saved or with new credentials, and one of them is a mainnet; the exchanges
themselves differ only in which manager is built. With one set of credentials a
client built from replaced credentials of the same combo is not told from a new
one; the handlers that replace them in place are the ones whose change is exempt
(`ahead`), and the switch, which rebuilds. The properties are proved for any number
of combos, keys and users.

What the properties do not say. `PnlAtMostOnce` and `LedgerSpec` let a result be
forfeited: a crash between the two databases, or a sync that ends the trade before
its stop message comes, loses it, and the code has no repair. `ClientIdFree` is
about live orders: that the venue refuses the id of an order that is gone is not
known from the code. `EntryOnce` needs that writes are not retried.
`SyncKeepsResting` is about an entry that rests; one that fills between the sync's
reads is in none of them, on either exchange, and its trade is given up. `LimitsHold`
is about what the store counts, and `NotionalBounded` says how far the venue may
hold more: on Hyperliquid, a trade of a size below $10 is one of $10. `FloorKept`
allows a loss to raise the port to its floor, as it does after an admin edit, which
leaves the mark.

`LivePositionCovered` is checked and proved without failing orders and crashes
because the code makes no stronger promise: a refused stop is logged and the trade
goes on without one (`position_manager.py:299`), and no sync places one. Reads may
fail. It is stated for a trade alone on its coin for the same reason: a cancel of
another trade closes or uncovers the shared position.

`StopKeptDuringMove` is an action property, since the venue may take the last
stop at any moment; it forbids that the bot does so in a move, and counts a stop
the venue accepted but consumed meanwhile.

Deadlock is checked in every run: the provider may always send something, a user
may always write to the bot, so none of these systems may stop.

### Fairness

`FairSpec` adds to `Spec`: weak fairness of `HandlerStep` (a running handler
goes on: HTTP calls have timeouts); strong fairness of `ReconcileTick`, but only in
a behaviour in which the user is from some time on not paused (`TickFair`); and
strong fairness of `ReadPositions` and `ReadOrders` succeeding (a venue that is
asked again and again answers at last). The loop sleeps `interval_sec`, 300 s by
default, and wakes for ever; the event loop is idle again and again, so weak
fairness would be too little. A tick that finds the user paused passes over him
(`reconciliation_sweeper.py:73-74`), so nothing follows for one who is paused for
ever or whenever it comes: `HollowReconciled` ends in the trade being hollow no
longer or the user paused. Nothing is assumed of the provider, the user, the sweep
of confirmations, the fills or the faults.

`HollowReconciled` is checked where reads fail and the user pauses and resumes.
Crashes, retries and refused orders are left to the safety runs. The hollow trades
they leave have no row, or rows without an order, as a held trade, a dropped entry
and a lost closing message leave them too, and what ends them is the sync alone.

### What the runs found

Six statements of the repository are not true of the code; each is a run whose
counterexample TLC prints.

1. **A failed close ends the trade** (`position_manager.py:345`).
   `close_position` begins with `cancel_trade`, which marks the trade `CANCELED`
   and withdraws its stop. When the market close is then refused, the trade stays
   `CANCELED` with its position open and uncovered, and neither sync nor kill
   switch looks at it again. The docstring (332-342) says the status is left
   untouched.
2. **A sync decides a held trade** (`position_manager.py:219`). It has no order
   by design, so the sync cancels it as one whose entry was dropped, at most five
   minutes after it was held or at the restart it is meant to survive
   (`README.md:580-587`).
3. **An answered prompt is declined** (`database.py:361`). Approving does not
   clear `requires_confirmation`, and a trade whose entry rests is still
   `pending`, so the sweep cancels it in the store, its orders on the venue.
4. **A cancel leaves a position uncovered** (`approval.py:245`). The close button
   decides by the stored status. When the entry filled meanwhile, its stop is
   withdrawn and the position stays. The dialog promises a market close.
5. **A switch leaves a trade behind** (`switch.py:103`). The open trades are
   counted when the conversation starts. A signal that is dispatched before it ends
   opens a trade on the exchange that is left; `switch.py:9-10` calls the check a
   hard block against exactly this.
6. **A failed Blofin cancel is taken for done** (`blofin_position_manager.py:58`).
   Any answer whose own code is 0 counts, also when its item carries a failure, as
   Blofin's do (`_result_error` looks at both). The row is marked canceled and the
   order stays, where no later cancel looks for it. The docstring (55) says the
   order is already gone.

Statements that do not hold and have no run, as each is the matter of one formula:

- "Last TP gets the remainder to ensure sizes sum exactly to entry"
  (`order_builder.py:199`): the remainder is floored once more in binary fractions,
  so that a lot of the position may be in no take-profit (`TpLots`).
- "Losses can bring port_usd down but never below the highest floor reached"
  (`src/config/settings.py:189`): a watermark port its user set is always its own
  floor (`PortIsFloor`, a part of the proved `PortInv`), so that no loss shows in it.

What else the modelling met, modelled as it is and listed with the hazards: a
Blofin user's approve and close buttons reach no Blofin order, mark the trade
canceled and leave its orders and position (`approval.py:131`, `:244`); a stop that
was accepted but not named, or whose answer was lost, is not among the active ones,
and a repeated breakeven places a second one at its level
(`blofin_position_manager.py:326`); a cancel Hyperliquid refuses marks the row
canceled (`position_manager.py:319-320`); an order of less than $10 is sent as one
of $10 while the limits count the smaller size (`adapter.py:139`); an admin edit of
credentials or limits does not reach a running pipeline (`api/admin.py:162-193`); a
promotion whose defaults cannot be written has moved the pointer to mainnet and
keeps the old pipeline (`promotion.py:142-150`); a refresh that fails leaves the old
limits in force (`config.py:32-37`, handler); the kill switch and pauses do not
survive a restart; a store query that fails counts as no open trades
(`switch.py:67-84`).

### Mutants

Each checked property has a mutant: the definition that models the code, changed
as a plausible bug would change it (in the modules, marked `Mutant:`). A take-profit
of size zero is placed; the terminal guard of a stop or all-targets message is
dropped; a held signal is submitted; the old stop is withdrawn first; every stop
is withdrawn after a move; Approve does not look at the status again; the sync
only looks at open trades. A Blofin entry is sent again after a lost answer; a
replacement goes by the first stop's id, or is placed after the old one is
withdrawn; an exit leaves orders and a position that cannot be; a sync forgets the
resting entries. The minimum size is not checked; the risk gate counts only the
trades sent at once; the size is rounded up; the port is not clamped. The pointer
moves before the credentials are stored; a switch does not deactivate first; an
edit is not refreshed. TLC finds the property violated under each.

## 4. Proofs

For any sets of trades and coins, any map between them, any number of units and
retries, and any faults. The assumptions are those named in `TradeState`:
`NoTrade` is no trade, each trade has a coin, an entry has at least one unit,
there is a first stop, the gates and faults are among the named ones.

`IInv`, the inductive invariant, has four parts:

- `TypeOK`;
- `HandlerOwnsTrade`: the handler between two calls works for a trade that
  exists; one that is submitting works for a live trade; one that is about to
  credit a result works for a closed trade not yet credited;
- `SweepKnown`: the list of a sweep names recorded trades;
- `PnlAtMostOnce`.

The second is why the others hold. `PnlAtMostOnce` alone is not inductive:
between the close of a trade in one database and the credit in the other the
guard that was read is gone, and only the fact that nothing runs meanwhile says
that the trade is still closed and uncredited. In the same way `EntryFillsAtOnce`
writes `open` without a look at the status, and only `HandlerOwnsTrade` keeps it
from reviving a trade.

`PipelineProofs` proves `Init => IInv` and `IInv /\ [Next]_vars => IInv'`, one
lemma per group of actions, and from it `Invariance`, `TypeCorrect` and `PnlOnce`.

`LedgerProofs` proves `Refinement`: `Spec => LedgerSpec` with `Life` (live or
settled) and `Owed` (the trade whose result is about to be applied). Every step
is of one of five kinds: `Quiet` (it settles some live trades or none and
concerns no result), `Admits`, `ClosesBooks`, the credit, or a step that loses a
result that was owed (a crash, a failed write). Each kind is a step of the ledger
or a stutter. `NoResurrection` follows the same way.

`HeldProofs` proves `HeldOffVenue`: `Spec => []HeldNeverOnVenue`, from the
strengthening `HeldInv`. A trade is off limits when it was not yet recorded, or is
held and was not approved; it has no row and no order. That alone is not
inductive: a handler must not be at work placing orders for such a trade, the
rows a cancel goes through must exist, and a stop is only moved for a trade that
has one.

`StopProofs` proves `StopKept`: `Spec => StopKeptDuringMove`. The old stop may be
withdrawn because its replacement was accepted, and that is `Replaced`: before
the cancel, a stop row other than the old one is `submitted`. It needs `HeldInv`,
by which the stop being replaced has a row and the replacement therefore another.

`StopProofs` also proves `StopCovers`: `Spec => []LivePositionCovered` under
`NothingFails`: no order is refused, lost or unnamed and the process lives, while
reads may fail, the user may pause, and the venue may drop entries and keep the
orders of a flat position. Without it the
property is false, as said above. The invariant is `CoverInv`. A trade alone on
its coin has one entry, sent once, so that it has one position of at most
`EntrySize`: a stop that triggers therefore ends it, and a second entry cannot
fill after the stop was used up. Before the entry is sent the trade has nothing on
the venue (`Unsent`); from then on, while the entry rests or the position is held,
either the stop is the next order of the submission, or it is being canceled, and
then the trade ends, or it rests, and before the old stop of a move is withdrawn,
one rests besides it. `SubmitKnows` is what the submitting handler knows of its
own entry.

### Accounts

`AccountProofs` proves every property of the group, for any users, combos,
credentials and limits. It assumes `CombosAssumption` (the default combo is in
use), `KeysAssumption` and `CapsAssumption`.

- `ActiveComboStored`: `Spec => []PointerHasKeys`. It is not inductive: between
  two transactions the pointer is about to move to a combo the handler stored
  before, and the draft of a conversation, which `/cancel` may empty, is what it
  stored. `StoreInv` adds `PointReady`, that the credentials of the combo a commit
  is about to point to are there, and the types.
- `AccountsTyped`: `Spec => []TypeOK`, with the types of everything else.
- `ActiveClient` and `CurrentLimit`: `Spec => []ClientIsActive` and
  `Spec => []LimitIsCurrent`. Both speak of states without a running commit; what
  holds inside one is `PipeInv`. A pipeline may disagree with the store only from
  the first write of its own user's switch, or from where a promotion has moved the
  pointer, to the `rebuild` that ends it, and for good where the change was noted in
  `ahead`. A promotion that fails before that has copied the credentials the user
  has, so that the store still agrees (`Copying`). Of the other commits
  `CommitKnowsPipe` says why they do no harm: a user being created has no
  pipeline, and an edit of credentials has noted itself before the pointer moves.

### A Blofin trade

`BlofinProofs` proves every property of the group from one invariant, `BlofinInv`,
for any numbers of take-profits (up to the three a signal may have), units and
stop rows, and any faults. It assumes `BlofinTPs` (the take-profits are
among `tp1` to `tp3`, each once), `BlofinBounds` and `BlofinFaults`. The parts
cannot be proved apart:

- `RowsInv`: the entry is the first row, and there are no more rows than the
  entry, the take-profits and the stops.
- `BookInv`: every live order belongs to a row of its kind; a live stop has a
  number below the count of stop rows, which is the number the next one gets
  (`FreshClientIds`); a resting entry means that nothing has filled
  (`EntryIsOnce`).
- `OpInv`: what the handler holds between two requests is still true. A trade that
  was not submitted has nothing; the stop a move replaces is active and at another
  level, and before it is withdrawn the replacement is active too (`StopIsKept`);
  a sync that comes to its third read saw the entry if it rests now
  (`SyncKeepsEntries`), which holds since an entry that has left the book does not
  come back.

### Signals and the port

`IntakeProofs` proves, for any amounts, results, limits, splits and faults:

- `FloorIsKept` (`Spec => FloorKept`) by `PortInv`: the types, `PortIsFloor`, that a
  watermark port its user set is its own floor, and that a port that was never set
  has no mark, without which choosing the watermark mode for it would break the
  equality.
- `IntakeTyped` (`Spec => []TypeOK`): sizes and lots are natural numbers though
  the port may be driven below zero. For the take-profits it needs `TpLotsFit`: the
  floors of two shares that sum to at most 100 percent leave a remainder that is not
  negative, and the three together are at most the entry, whichever floors lose a
  lot. It assumes `SplitAssumption`, that the shares sum to 100.
- `OrdersWithinSize` (`Spec => []NotionalBounded`), for any configuration: the entry
  is worth at most the size the limits counted, or, on Hyperliquid and where that
  size is below $10, at most those $10. `config/config.example.yaml:58` has 10 for
  the minimum, and nothing refuses a smaller one; the testnet floor may be smaller
  too.

`LimitProofs` proves `LimitsAreKept` (`Spec => []LimitsHold`) without a hypothesis
about the limits. The exposure is a recursive sum over the set of live trades. That
it grows by the size of a trade that is added and only then, does not depend on the
order of summation, and does not grow when a trade leaves, is induction over finite
sets, done here by a smallest counterexample: the strict subsets of a finite set
are well-founded. `LimitInv` adds to the limits that finitely
many trades are live, from which the induction starts; that no size is negative is
`IntakeTyped`. There need not be finitely many trade ids.

### What is only model-checked

`HollowReconciled`, since liveness under fairness and ENABLED are out of the
prover's reach. The assertions of the documentation that fail are violated in a
run, there being nothing to prove. Every other property of a run is stated by a
theorem, which holds for the constants the run has and for all others.

## 5. Not modelled, and the plan

| Part | Why |
|---|---|
| Duplicate filter | its effect, that a message is missing, is in every group; that it can drop a second, different take-profit within the minute is a hazard without a property, as nothing else in the code notices |
| Classifier, parsers, symbol mapper, configuration | text and tables: a message enters as what it was parsed to |
| Input adapters, forwarder, test and demo scripts | they deliver messages, which come here in any order and number |
| PnL monitor, backup | they read: no other part uses the latch of an alert or a backup file |
| Notifications, formatting, views | text; a notification that fails is caught |
| Schema migrations | one transaction over the whole of `_create_tables`, before anything else runs |
| Health server, logging, encryption | counters, files, a library cipher |
| Prompts for a number (`bot.py:216`) | which dialog takes a number is decided by flags in the chat's draft; what it ends in is `ConfigText` or `SetAmount` |
| Second approval of a submitted trade | the order slots of `TradeState` hold one submission; listed as a hazard |

Theorems planned: that the Blofin trade and the intake settle a trade once, as
refinements of `TradeLedger`; what a cancel and a close of a trade leave on its
coin when no request fails; how far the exposure may exceed its limit by trades
that wait for the user.
