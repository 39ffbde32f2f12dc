------------------------------- MODULE Intake -------------------------------
(***************************************************************************)
(* A signal's way into a user's pipeline, and what its result does to the  *)
(* port: the gates of _handle_signal in their order, the sizes of the      *)
(* orders, and the port's three modes.  What happens to a trade between    *)
(* its admission and its end is Pipeline's; here it is live or over.       *)
(*                                                                         *)
(* Messages may be lost, which covers those the duplicate filter and a     *)
(* pause drop.  A crash changes nothing here: all of it is in the store.   *)
(***************************************************************************)
EXTENDS Sizing, FiniteSetsExt

CONSTANTS
    Trades,     \* provider trade ids
    Combos,     \* exchanges with a network
    NoPort,     \* no port, no watermark
    Amounts,    \* amounts a user gives the port
    Wallets,    \* what the venue says the account holds
    Pcts,       \* size_by_risk: percent of the port for a risk level
    Pnls,       \* results of a trade, in dollars and, alike, in percent
    Faults      \* what may go wrong

ASSUME CombosAssumption == Combos \subseteq {"hyperliquid", "blofin"} \X {"testnet", "mainnet"}
ASSUME AmountsAssumption == Amounts \subseteq Nat \ {0} /\ NoPort \notin Int
ASSUME WalletsAssumption == Wallets \subseteq Nat /\ Pcts \subseteq Nat /\ Pnls \subseteq Int

\* "venue": the balance or the instruments cannot be read, or the coin is not
\* listed; "store": the port's write fails.
ASSUME IntakeFaults == Faults \subseteq {"venue", "store"}

VARIABLES
    exchange, network,  \* the user's active combo, which does not change here
    auto,       \* auto_execute
    port,       \* port_usd, port_mode, port_watermark
    wallet,     \* the account's balance
    trades,     \* the trades table
    today       \* results of the trades that were closed today

account == <<exchange, network, auto, wallet>>
vars == <<account, port, trades, today>>

Modes == {"withdraw", "compound", "watermark"}
\* direct: the columns were edited one by one, not set together.
Ports == [usd: Int \cup {NoPort}, mode: Modes, mark: Int \cup {NoPort}, direct: BOOLEAN]

\* gate: submitted at once, held for confirmation, or recorded for the user, in
\* which case it may have no size and no orders.
Unknown == [st |-> "none"]
Settled == [st |-> "over"]
Recorded == [st: {"live"}, gate: {"auto", "confirm", "manual"}, size: Nat, lots: Nat,
             tps: [1..3 -> Nat]]

LiveTrades == {t \in Trades : trades[t].st = "live"}
SizeOf(t) == trades[t].size
Exposure(S) == MapThenSumSet(SizeOf, S)
DailyPnl == MapThenSumSet(LAMBDA p : p[2], today)

-----------------------------------------------------------------------------
(* _handle_signal *)

\* Mutant: only the trades sent to the venue at once are counted.
InLimitsAutoOnly(size) ==
    LET S == {t \in LiveTrades : trades[t].gate = "auto"}
    IN WithinLimits(Cardinality(S), DailyPnl, Exposure(S), size)

\* The risk gate over the store: pending trades count.
InLimits(size) ==
    WithinLimits(Cardinality(LiveTrades), DailyPnl, Exposure(LiveTrades), size)

\* The port and wallet guardrails, the same for everyone.
Funded == port.usd # NoPort /\ port.usd <= wallet

Gate(size) == IF ~auto THEN "manual"
              ELSE IF network = "mainnet" /\ size > ConfirmAbove THEN "confirm"
              ELSE "auto"

Record(t, size, lots) ==
    \E tps \in (IF lots = NotBuilt THEN {<<0, 0, 0>>} ELSE TpLots(exchange, lots)) :
        trades' = [trades EXCEPT ![t] =
            [st |-> "live", gate |-> Gate(size), size |-> size, lots |-> lots, tps |-> tps]]

\* The lots the builder makes of a size, or nothing when the venue does not list
\* the coin.
Built(size) ==
    EntryLots(exchange, size) \cup (IF "venue" \in Faults THEN {NotBuilt} ELSE {})

\* With auto_execute on: each gate that fails skips the signal.
Admit(t, pct) ==
    LET size == PositionSize(port.usd, pct, network) IN
    /\ auto /\ Funded /\ trades[t].st = "none"
    /\ size # TooSmall /\ InLimits(size)
    /\ \E lots \in Built(size) \ {NotBuilt} : Record(t, size, lots)
    /\ UNCHANGED <<account, port, today>>

\* With it off: size, limits and orders that fail are only noted.
RecordForUser(t, pct) ==
    LET size == PositionSize(port.usd, pct, network)
        kept == IF size = TooSmall THEN 0 ELSE size
    IN /\ ~auto /\ Funded /\ trades[t].st = "none"
       /\ \E lots \in Built(kept) : Record(t, kept, lots)
       /\ UNCHANGED <<account, port, today>>

-----------------------------------------------------------------------------
(* The port *)

\* set_port: the amount is the first floor.
NewPort(usd, mode) ==
    [usd |-> usd, mode |-> mode, direct |-> FALSE,
     mark |-> IF mode = "watermark" THEN usd ELSE NoPort]

SetAmount(usd) ==
    /\ usd > 0
    /\ port' = NewPort(usd, port.mode)
    /\ UNCHANGED <<account, trades, today>>

\* The mode's button sets the amount again; one that is not positive is refused.
ChangeMode(mode) ==
    /\ \/ port.usd = NoPort /\ port' = [port EXCEPT !.mode = mode]
       \/ port.usd # NoPort /\ port.usd > 0 /\ port' = NewPort(port.usd, mode)
    /\ UNCHANGED <<account, trades, today>>

\* The admin API writes the columns it is given, the watermark not among them.
ApiEditPort(usd, mode) ==
    /\ port' = [port EXCEPT !.usd = usd, !.mode = mode, !.direct = TRUE]
    /\ UNCHANGED <<account, trades, today>>

Floor == IF port.mark = NoPort THEN port.usd ELSE port.mark

\* Mutant: a loss is not held at the floor.
AfterPnlUnclamped(pnl) ==
    IF port.usd = NoPort \/ port.mode = "withdraw" THEN port
    ELSE IF port.mode = "compound" THEN [port EXCEPT !.usd = @ + pnl]
    ELSE [port EXCEPT !.usd = @ + pnl, !.mark = Greatest(port.usd + pnl, Floor)]

\* apply_pnl_to_port.
AfterPnl(pnl) ==
    IF port.usd = NoPort \/ port.mode = "withdraw" THEN port
    ELSE IF port.mode = "compound" THEN [port EXCEPT !.usd = @ + pnl]
    ELSE IF pnl < 0
      THEN [port EXCEPT !.usd = Greatest(@ + pnl, Floor), !.mark = Floor]
      ELSE [port EXCEPT !.usd = @ + pnl, !.mark = Greatest(port.usd + pnl, Floor)]

-----------------------------------------------------------------------------
(* The end of a trade *)

\* A stop or all-targets message, whether or not the trade was ever filled: the
\* result is the venue's or the provider's.
CloseWithPnl(t, pnl) ==
    /\ trades[t].st = "live"
    /\ trades' = [trades EXCEPT ![t] = Settled]
    /\ today' = today \cup {<<t, pnl>>}
    /\ \/ port' = AfterPnl(IF trades[t].size = 0 THEN 0 ELSE pnl)
       \/ "store" \in Faults /\ UNCHANGED port
    /\ UNCHANGED account

\* Any other end: canceled, closed by hand, by a sync or by a sweep.
EndWithoutPnl(t) ==
    /\ trades[t].st = "live"
    /\ trades' = [trades EXCEPT ![t] = Settled]
    /\ UNCHANGED <<account, port, today>>

-----------------------------------------------------------------------------
(* What the user and the world change *)

ToggleAuto ==
    /\ auto' = ~auto
    /\ UNCHANGED <<exchange, network, wallet, port, trades, today>>

WalletMoves(w) ==
    /\ wallet' = w
    /\ UNCHANGED <<exchange, network, auto, port, trades, today>>

\* get_daily_closed_pnl counts from midnight UTC.
Midnight ==
    /\ today # {} /\ today' = {}
    /\ UNCHANGED <<account, port, trades>>

Init ==
    /\ \E combo \in Combos : exchange = combo[1] /\ network = combo[2]
    /\ auto = FALSE
    /\ wallet \in Wallets
    /\ port = [usd |-> NoPort, mode |-> "withdraw", mark |-> NoPort, direct |-> FALSE]
    /\ trades = [t \in Trades |-> Unknown]
    /\ today = {}

Next ==
    \/ \E t \in Trades :
          \/ \E pct \in Pcts : Admit(t, pct) \/ RecordForUser(t, pct)
          \/ (\E pnl \in Pnls : CloseWithPnl(t, pnl)) \/ EndWithoutPnl(t)
    \/ \E usd \in Amounts : SetAmount(usd)
    \/ \E mode \in Modes :
          ChangeMode(mode) \/ \E usd \in Amounts : ApiEditPort(usd, mode)
    \/ \E w \in Wallets : WalletMoves(w)
    \/ ToggleAuto \/ Midnight

Spec == Init /\ [][Next]_vars

=============================================================================
