------------------------------- MODULE Sizing -------------------------------
(***************************************************************************)
(* From a signal to the sizes of its orders: the position sizer, the risk  *)
(* gate and the two order builders.  Amounts are whole dollars and sizes   *)
(* whole lots (10^-szDecimals coins on Hyperliquid, lotSize contracts on   *)
(* Blofin) of LotUsd dollars each.                                         *)
(*                                                                         *)
(* The Hyperliquid builder floors binary fractions, so that a product or a *)
(* remainder that is a whole number of lots may come out one lot short;    *)
(* the Blofin builder rounds.                                              *)
(***************************************************************************)
EXTENDS Integers

CONSTANTS
    Cap,            \* risk.max_position_size_usd
    MinOrder,       \* risk.min_order_usd
    TestnetFloor,   \* risk.testnet_position_floor_usd, 0 to disable it
    MaxOpen,        \* risk.max_open_positions
    MaxDailyLoss,   \* risk.max_daily_loss_pct
    MaxExposure,    \* risk.max_total_exposure_usd
    ConfirmAbove,   \* risk.mainnet_confirm_above_usd
    LotUsd,         \* what a lot costs at the signal's entry price
    MinLots,        \* the instrument's minSize, in lots
    Split           \* the preset's tp_split, in percent

\* A cap of at least $10 is what the settings dialog accepts.
ASSUME LimitsAssumption ==
    /\ Cap \in Nat /\ Cap >= 10 /\ MinOrder \in Nat /\ TestnetFloor \in Nat
    /\ MaxOpen \in Nat /\ MaxDailyLoss \in Nat /\ MaxExposure \in Nat
    /\ ConfirmAbove \in Nat /\ LotUsd \in Nat \ {0} /\ MinLots \in Nat \ {0}
\* As every built-in preset.
ASSUME SplitAssumption ==
    /\ Split \in [1..3 -> 0..100]
    /\ Split[1] + Split[2] + Split[3] = 100

MinOrderValue == 10     \* MIN_ORDER_VALUE_USD, _HL_MIN_NOTIONAL_USD

Least(a, b) == IF a < b THEN a ELSE b
Greatest(a, b) == IF a < b THEN b ELSE a

TooSmall == -1          \* PositionSizeError

\* Mutant: the minimum is not checked on mainnet.
PositionSizeUnchecked(port, pct, network) ==
    LET clamped == Least((port * pct) \div 100, Cap) IN
    IF network = "testnet" /\ clamped < TestnetFloor THEN Least(TestnetFloor, Cap)
    ELSE clamped

\* calculate_position_size.
PositionSize(port, pct, network) ==
    LET clamped == Least((port * pct) \div 100, Cap) IN
    IF network = "testnet" /\ TestnetFloor > 0
      THEN IF clamped < TestnetFloor THEN Least(TestnetFloor, Cap) ELSE clamped
      ELSE IF clamped < MinOrder THEN TooSmall ELSE clamped

\* check_risk_limits.
WithinLimits(count, dailyPnl, exposure, size) ==
    /\ count < MaxOpen
    /\ dailyPnl > -MaxDailyLoss
    /\ exposure + size <= MaxExposure

NotBuilt == 0           \* the builder raised

\* The whole lots n of an amount, as the builder's floor may find them.
Floored(exchange, n) == IF exchange = "hyperliquid" /\ n > 0 THEN {n - 1, n} ELSE {n}

\* HyperliquidAdapter asks for at least $10 and refuses when less than that is left
\* of it in whole lots; Blofin refuses less than minSize.
OrderUsd(exchange, size) ==
    IF exchange = "hyperliquid" THEN Greatest(size, MinOrderValue) ELSE size
Buildable(exchange, n) ==
    IF exchange = "hyperliquid" THEN n * LotUsd >= MinOrderValue ELSE n >= MinLots

\* Mutant: the size is rounded up to a whole lot.
EntryLotsUp(exchange, size) ==
    {IF Buildable(exchange, n) THEN n ELSE NotBuilt :
        n \in {(OrderUsd(exchange, size) + LotUsd - 1) \div LotUsd}}

\* The lots the entry may have.
EntryLots(exchange, size) ==
    {IF Buildable(exchange, n) THEN n ELSE NotBuilt :
        n \in Floored(exchange, OrderUsd(exchange, size) \div LotUsd)}

\* The lots the take-profits may have: shares floored to lots, the last one gets what
\* is left, floored again.
TpLots(exchange, n) ==
    UNION {{<<a, b, c>> : c \in Floored(exchange, n - a - b)} :
              a \in Floored(exchange, (n * Split[1]) \div 100),
              b \in Floored(exchange, (n * Split[2]) \div 100)}

=============================================================================
