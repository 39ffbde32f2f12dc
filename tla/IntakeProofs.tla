---------------------------- MODULE IntakeProofs ----------------------------
(***************************************************************************)
(* The port and the order sizes, for any amounts, results, limits, splits  *)
(* and faults.                                                             *)
(*                                                                         *)
(* PortIsFloor is inductive with the types of the port: an amount that is  *)
(* set is its own floor, a profit moves both, and a loss ends at the floor.*)
(* The types are inductive with PortInv: the first two take-profits are at *)
(* most their shares, which together are no more than the entry, so that   *)
(* what is left for the third is not negative.  So is NotionalBounded: the *)
(* entry is never worth more than the amount the builder was given, which  *)
(* is the size or, on Hyperliquid, $10.                                    *)
(***************************************************************************)
EXTENDS IntakeProps, TLAPS

-----------------------------------------------------------------------------
(* The port *)

LEMMA GreatestOfInts ==
    ASSUME NEW a \in Int, NEW b \in Int
    PROVE  Greatest(a, b) \in {a, b} /\ Greatest(a, b) >= a /\ Greatest(a, b) >= b
BY DEF Greatest

LEMMA PortRewritten ==
    ASSUME port \in Ports, NEW a \in Int, NEW b \in Int,
           port' = [port EXCEPT !.usd = a, !.mark = b]
    PROVE  /\ port' \in Ports
           /\ port'.usd = a /\ port'.mark = b
           /\ port'.mode = port.mode /\ port'.direct = port.direct
BY DEF Ports

\* apply_pnl_to_port, mode by mode.
LEMMA AfterPnlKeeps ==
    ASSUME PortInv, NEW pnl \in Int, port' = AfterPnl(pnl)
    PROVE  PortInv'
<1>1. CASE port.usd = NoPort \/ port.mode = "withdraw"
  BY <1>1 DEF AfterPnl, PortInv, PortOK, PortIsFloor
<1>2. CASE port.usd # NoPort /\ port.mode = "compound"
  BY <1>2, AmountsAssumption DEF AfterPnl, PortInv, PortOK, PortIsFloor, Ports, Modes
<1>3. CASE port.usd # NoPort /\ port.mode = "watermark"
  <2>1. port.usd \in Int /\ Floor \in Int /\ port.usd + pnl \in Int
    BY <1>3 DEF PortInv, PortOK, Ports, Floor
  <2>2. /\ Greatest(port.usd + pnl, Floor) \in Int
        /\ Greatest(port.usd + pnl, Floor) \in {port.usd + pnl, Floor}
        /\ Greatest(port.usd + pnl, Floor) >= port.usd + pnl
        /\ Greatest(port.usd + pnl, Floor) >= Floor
    BY <2>1, GreatestOfInts
  <2>3. ~port.direct => Floor = port.usd
    BY <1>3 DEF PortInv, PortIsFloor, Floor
  <2>4. CASE pnl < 0
    <3>1. port' = [port EXCEPT !.usd = Greatest(port.usd + pnl, Floor), !.mark = Floor]
      BY <1>3, <2>4 DEF AfterPnl
    <3>2. ~port.direct => Greatest(port.usd + pnl, Floor) = Floor
      BY <2>1, <2>2, <2>3, <2>4
    <3>3. /\ port' \in Ports /\ port'.direct = port.direct
          /\ port'.usd = Greatest(port.usd + pnl, Floor) /\ port'.mark = Floor
      BY <2>1, <2>2, <3>1, PortRewritten DEF PortInv, PortOK
    <3>4. port'.usd # NoPort
      BY <2>1, <2>2, <3>3, AmountsAssumption
    <3> QED BY <3>2, <3>3, <3>4 DEF PortInv, PortOK, PortIsFloor
  <2>5. CASE ~(pnl < 0)
    <3>1. port' = [port EXCEPT !.usd = port.usd + pnl,
                               !.mark = Greatest(port.usd + pnl, Floor)]
      BY <1>3, <2>5 DEF AfterPnl
    <3>2. ~port.direct => Greatest(port.usd + pnl, Floor) = port.usd + pnl
      BY <2>1, <2>2, <2>3, <2>5
    <3>3. /\ port' \in Ports /\ port'.direct = port.direct
          /\ port'.usd = port.usd + pnl
          /\ port'.mark = Greatest(port.usd + pnl, Floor)
      BY <2>1, <2>2, <3>1, PortRewritten DEF PortInv, PortOK
    <3>4. port'.usd # NoPort
      BY <2>1, <3>3, AmountsAssumption
    <3> QED BY <3>2, <3>3, <3>4 DEF PortInv, PortOK, PortIsFloor
  <2> QED BY <2>4, <2>5
<1> QED BY <1>1, <1>2, <1>3 DEF PortInv, PortOK, Ports, Modes

LEMMA PortInit ==
    ASSUME Init
    PROVE  PortInv
BY DEF Init, PortInv, PortOK, PortIsFloor, Ports, Modes

LEMMA PortStep ==
    ASSUME PortInv, [Next]_vars
    PROVE  PortInv'
<1>1. ASSUME NEW t \in Trades, NEW pnl \in Pnls, CloseWithPnl(t, pnl)
      PROVE  PortInv'
  <2>1. CASE UNCHANGED port
    BY <2>1 DEF PortInv, PortOK, PortIsFloor
  <2>2. CASE ~UNCHANGED port
    <3>1. PICK p \in {0, pnl} : port' = AfterPnl(p)
      BY <1>1, <2>2 DEF CloseWithPnl
    <3>2. p \in Int
      BY WalletsAssumption
    <3> QED BY <3>1, <3>2, AfterPnlKeeps
  <2> QED BY <2>1, <2>2
<1>2. ASSUME NEW usd \in Amounts, SetAmount(usd)
      PROVE  PortInv'
  BY <1>2, AmountsAssumption DEF SetAmount, NewPort, PortInv, PortOK, PortIsFloor, Ports, Modes
<1>3. ASSUME NEW mode \in Modes, ChangeMode(mode)
      PROVE  PortInv'
  <2>1. CASE port.usd = NoPort /\ port' = [port EXCEPT !.mode = mode]
    BY <2>1 DEF PortInv, PortOK, PortIsFloor, Ports, Modes
  <2>2. CASE port.usd # NoPort /\ port' = NewPort(port.usd, mode)
    BY <2>2 DEF NewPort, PortInv, PortOK, PortIsFloor, Ports, Modes
  <2> QED BY <1>3, <2>1, <2>2 DEF ChangeMode
<1>4. ASSUME NEW usd \in Amounts, NEW mode \in Modes, ApiEditPort(usd, mode)
      PROVE  PortInv'
  <2>1. usd \in Int /\ usd # NoPort
    BY AmountsAssumption
  <2>2. port' \in Ports
    BY <1>4, <2>1 DEF ApiEditPort, PortInv, PortOK, Ports
  <2>3. port'.usd = usd /\ port'.direct
    BY <1>4 DEF ApiEditPort, PortInv, PortOK, Ports
  <2> QED BY <2>1, <2>2, <2>3 DEF PortInv, PortOK, PortIsFloor
<1>5. CASE UNCHANGED port
  BY <1>5 DEF PortInv, PortOK, PortIsFloor
<1> QED
  BY <1>1, <1>2, <1>3, <1>4, <1>5
     DEF Next, Admit, RecordForUser, EndWithoutPnl, ToggleAuto, WalletMoves, Midnight, vars

\* apply_pnl_to_port keeps what was reached: a result never lowers the watermark, and
\* no loss takes the port below it.
THEOREM FloorIsKept == Spec => FloorKept
<1> DEFINE Kept == (today' # today /\ today' # {} /\ port.mode = "watermark" /\ port.mark # NoPort
                     => /\ port'.mark # NoPort /\ port'.mark >= port.mark
                        /\ port'.usd < port'.mark => port'.usd >= port.usd)
<1>1. PortInv /\ [Next]_vars => [Kept]_vars
  <2> SUFFICES ASSUME PortInv, Next, today' # today, today' # {},
                      port.mode = "watermark", port.mark # NoPort
               PROVE  /\ port'.mark # NoPort /\ port'.mark >= port.mark
                      /\ port'.usd < port'.mark => port'.usd >= port.usd
    OBVIOUS
  <2>1. PICK t \in Trades, pnl \in Pnls : CloseWithPnl(t, pnl)
    BY DEF Next, Admit, RecordForUser, EndWithoutPnl, SetAmount, ChangeMode, ApiEditPort,
           ToggleAuto, WalletMoves, Midnight
  <2>2. port \in Ports /\ port.mark \in Int /\ port.usd \in Int /\ port.usd # NoPort
    BY DEF PortInv, PortOK, Ports
  <2>3. Floor = port.mark
    BY DEF Floor
  <2>4. CASE UNCHANGED port
    BY <2>2, <2>4
  <2>5. ASSUME NEW p \in Int, port' = AfterPnl(p)
        PROVE  /\ port'.mark # NoPort /\ port'.mark >= port.mark
               /\ port'.usd < port'.mark => port'.usd >= port.usd
    <3>1. /\ port.usd + p \in Int
          /\ Greatest(port.usd + p, Floor) \in Int
          /\ Greatest(port.usd + p, Floor) >= Floor
          /\ Greatest(port.usd + p, Floor) \in {port.usd + p, Floor}
      BY <2>2, <2>3, GreatestOfInts
    <3>2. CASE p < 0
      <4>1. port' = [port EXCEPT !.usd = Greatest(port.usd + p, Floor), !.mark = Floor]
        BY <2>2, <2>5, <3>2 DEF AfterPnl
      <4>2. port'.usd = Greatest(port.usd + p, Floor) /\ port'.mark = Floor
        BY <2>2, <2>3, <3>1, <4>1, PortRewritten
      <4> QED BY <2>2, <2>3, <3>1, <4>2
    <3>3. CASE ~(p < 0)
      <4>1. port' = [port EXCEPT !.usd = port.usd + p,
                                 !.mark = Greatest(port.usd + p, Floor)]
        BY <2>2, <2>5, <3>3 DEF AfterPnl
      <4>2. port'.usd = port.usd + p /\ port'.mark = Greatest(port.usd + p, Floor)
        BY <2>2, <3>1, <4>1, PortRewritten
      <4> QED BY <2>2, <2>3, <3>1, <3>3, <4>2, AmountsAssumption
    <3> QED BY <3>2, <3>3
  <2>6. UNCHANGED port \/ \E p \in Int : port' = AfterPnl(p)
    BY <2>1, WalletsAssumption DEF CloseWithPnl
  <2> QED BY <2>4, <2>5, <2>6
<1> QED BY <1>1, PortInit, PortStep, PTL DEF Spec, FloorKept

-----------------------------------------------------------------------------
(* The sizes of the orders *)

LEMMA FlooredBy ==
    ASSUME NEW ex, NEW n \in Int, NEW k \in Floored(ex, n)
    PROVE  k \in Int /\ k <= n /\ (n >= 0 => k >= 0)
BY DEF Floored

\* The lots of an entry: none, or at least one, worth no more than what they are of.
LEMMA LotsWithin ==
    ASSUME NEW m \in Int, NEW d \in Nat \ {0}, NEW k \in Int, k <= m \div d
    PROVE  k * d <= m
<1>1. m \div d \in Int /\ (m \div d) * d <= m
  OBVIOUS
<1> DEFINE q == m \div d
<1>2. q \in Int /\ q * d <= m /\ k <= q
  BY <1>1
<1> HIDE DEF q
<1>3. \E i \in Nat : q = k + i
  <2>1. q - k \in Nat /\ q = k + (q - k)
    BY <1>2
  <2> QED BY <2>1
<1>4. PICK i \in Nat : q = k + i
  BY <1>3
<1>5. q * d = k * d + i * d /\ i * d \in Nat /\ k * d \in Int
  BY <1>4
<1> QED BY <1>2, <1>5

LEMMA EntryIsWithin ==
    ASSUME NEW ex \in {"hyperliquid", "blofin"}, NEW size \in Int,
           NEW k \in EntryLots(ex, size), k # NotBuilt
    PROVE  k \in Nat \ {0} /\ k * LotUsd <= OrderUsd(ex, size)
<1> DEFINE usd == OrderUsd(ex, size)
           n == usd \div LotUsd
<1>1. usd \in Int /\ LotUsd \in Nat \ {0} /\ MinLots \in Nat \ {0}
  BY LimitsAssumption DEF OrderUsd, Greatest, MinOrderValue
<1>2. n \in Int
  BY <1>1
<1>3. k \in Floored(ex, n) /\ Buildable(ex, k)
  BY DEF EntryLots
<1> HIDE DEF usd
<1>4. k \in Int /\ k <= n
  BY <1>2, <1>3, FlooredBy
<1>5. k * LotUsd <= usd
  BY <1>1, <1>4, LotsWithin
<1>6. k > 0
  <2>1. CASE ex = "blofin"
    BY <1>1, <1>3, <1>4, <2>1 DEF Buildable
  <2>2. CASE ex = "hyperliquid"
    <3> DEFINE m == k * LotUsd
    <3>1. m \in Int /\ (k <= 0 => m <= 0)
      BY <1>1, <1>4
    <3>2. m >= 10
      BY <1>3, <2>2 DEF Buildable, MinOrderValue
    <3> HIDE DEF m
    <3> QED BY <1>4, <3>1, <3>2
  <2> QED BY <2>1, <2>2
<1> QED BY <1>4, <1>5, <1>6 DEF usd

\* Shares of at most all of it, floored, are together no more than all of it.
LEMMA SharesFit ==
    ASSUME NEW n \in Nat, NEW a \in Nat, NEW b \in Nat, a + b <= 100
    PROVE  /\ (n * a) \div 100 \in Nat /\ (n * b) \div 100 \in Nat
           /\ (n * a) \div 100 + (n * b) \div 100 <= n
<1>1. n * a \in Nat /\ n * b \in Nat
  OBVIOUS
<1>2. n * a + n * b <= 100 * n
  <2>1. n * (a + b) = n * a + n * b
    OBVIOUS
  <2>2. \A k \in Nat : k <= 100 => n * k <= n * 100
    OBVIOUS
  <2> QED BY <2>1, <2>2
<1> DEFINE x == n * a
           y == n * b
<1>3. x \in Nat /\ y \in Nat /\ x + y <= 100 * n
  BY <1>1, <1>2
<1> HIDE DEF x, y
<1>4. x \div 100 \in Nat /\ y \div 100 \in Nat /\ x \div 100 + y \div 100 <= n
  BY <1>3
<1> QED BY <1>4 DEF x, y

\* build_orders and build_blofin_orders: the last take-profit takes what is left, or
\* a lot less, and the three are no more than the entry.
LEMMA TpLotsFit ==
    ASSUME NEW ex, NEW n \in Nat, NEW tps \in TpLots(ex, n)
    PROVE  /\ tps \in [1..3 -> Nat]
           /\ tps[1] + tps[2] + tps[3] <= n
<1> DEFINE x == (n * Split[1]) \div 100
           y == (n * Split[2]) \div 100
<1>1. PICK a \in Floored(ex, x), b \in Floored(ex, y) :
        tps \in {<<a, b, c>> : c \in Floored(ex, n - a - b)}
  BY DEF TpLots
<1>2. PICK c \in Floored(ex, n - a - b) : tps = <<a, b, c>>
  BY <1>1
<1>3. x \in Nat /\ y \in Nat /\ x + y <= n
  <2>1. 1 \in 1..3 /\ 2 \in 1..3 /\ 3 \in 1..3
    OBVIOUS
  <2>2. /\ Split[1] \in 0..100 /\ Split[2] \in 0..100 /\ Split[3] \in 0..100
        /\ Split[1] + Split[2] + Split[3] = 100
    BY <2>1, SplitAssumption
  <2> DEFINE s1 == Split[1]
             s2 == Split[2]
             s3 == Split[3]
  <2>3. s1 \in Nat /\ s2 \in Nat /\ s3 \in Nat /\ s1 + s2 + s3 = 100
    BY <2>2
  <2> HIDE DEF s1, s2, s3
  <2>4. /\ (n * s1) \div 100 \in Nat /\ (n * s2) \div 100 \in Nat
        /\ (n * s1) \div 100 + (n * s2) \div 100 <= n
    <3>1. s1 + s2 <= 100
      BY <2>3
    <3> QED BY <2>3, <3>1, SharesFit
  <2> QED BY <2>4 DEF s1, s2
<1> HIDE DEF x, y
<1>4. a \in Nat /\ a <= x /\ b \in Nat /\ b <= y
  BY <1>1, <1>3, FlooredBy
<1>5. n - a - b \in Nat
  BY <1>3, <1>4
<1>6. c \in Nat /\ c <= n - a - b
  BY <1>2, <1>5, FlooredBy
<1>7. tps = [i \in 1..3 |-> <<a, b, c>>[i]] /\ tps[1] = a /\ tps[2] = b /\ tps[3] = c
  BY <1>2
<1>8. tps \in [1..3 -> Nat]
  BY <1>2, <1>4, <1>6
<1> QED BY <1>4, <1>6, <1>7, <1>8

-----------------------------------------------------------------------------
(* The types, and what the orders of a trade are worth *)

\* calculate_position_size gives an amount or raises: a port that results have
\* made negative gives no negative size.
LEMMA SizeIsAmount ==
    ASSUME NEW p \in Int, NEW pct \in Nat, NEW net
    PROVE  PositionSize(p, pct, net) \in Nat \cup {TooSmall}
<1>1. (p * pct) \div 100 \in Int
  OBVIOUS
<1> DEFINE raw == (p * pct) \div 100
<1> HIDE DEF raw
<1>2. Least(raw, Cap) \in Int /\ Least(TestnetFloor, Cap) \in Nat
  BY <1>1, LimitsAssumption DEF Least, raw
<1> QED BY <1>2, LimitsAssumption DEF PositionSize, TooSmall, raw

LEMMA AccountTyped ==
    ASSUME TypeOK
    PROVE  exchange \in {"hyperliquid", "blofin"} /\ network \in {"testnet", "mainnet"}
BY CombosAssumption DEF TypeOK

\* What a trade is admitted or recorded with.
LEMMA Sized ==
    ASSUME PortInv, TypeOK, Funded, NEW pct \in Pcts
    PROVE  /\ port.usd \in Int /\ pct \in Nat
           /\ PositionSize(port.usd, pct, network) \in Nat \cup {TooSmall}
<1>1. port.usd \in Int /\ pct \in Nat
  BY WalletsAssumption DEF Funded, PortInv, PortOK, Ports
<1> QED BY <1>1, SizeIsAmount

LEMMA RecordTyped ==
    ASSUME TypeOK, NEW t \in Trades, NEW size \in Nat, NEW lots \in Built(size),
           Record(t, size, lots)
    PROVE  /\ trades' \in [Trades -> {Unknown, Settled} \cup Recorded]
           /\ lots \in Nat
           /\ trades'[t].st = "live" /\ trades'[t].gate = Gate(size)
           /\ trades'[t].size = size /\ trades'[t].lots = lots
           /\ \A u \in Trades \ {t} : trades'[u] = trades[u]
<1>1. lots \in Nat
  BY AccountTyped, EntryIsWithin DEF Built, NotBuilt
<1>2. PICK tps \in (IF lots = NotBuilt THEN {<<0, 0, 0>>} ELSE TpLots(exchange, lots)) :
        trades' = [trades EXCEPT ![t] =
            [st |-> "live", gate |-> Gate(size), size |-> size, lots |-> lots, tps |-> tps]]
  BY DEF Record
<1>3. tps \in [1..3 -> Nat]
  <2>1. <<0, 0, 0>> \in [1..3 -> Nat]
    OBVIOUS
  <2> QED BY <1>1, <1>2, <2>1, TpLotsFit
<1>4. Gate(size) \in {"auto", "confirm", "manual"}
  BY DEF Gate
<1>5. [st |-> "live", gate |-> Gate(size), size |-> size, lots |-> lots, tps |-> tps]
        \in Recorded
  BY <1>1, <1>3, <1>4 DEF Recorded
<1>6. trades \in [Trades -> {Unknown, Settled} \cup Recorded]
  BY DEF TypeOK
<1> QED BY <1>1, <1>2, <1>5, <1>6

\* A trade that becomes live is admitted, or recorded for the user; each time with a
\* size the sizer gave, or none.
LEMMA TypeStep ==
    ASSUME PortInv, TypeOK, [Next]_vars
    PROVE  TypeOK'
<1>0. PortOK'
  BY PortStep DEF PortInv
<1>1. ASSUME NEW t \in Trades, NEW pct \in Pcts, Admit(t, pct)
      PROVE  TypeOK'
  <2>1. PositionSize(port.usd, pct, network) \in Nat
    BY <1>1, Sized DEF Admit
  <2>2. trades' \in [Trades -> {Unknown, Settled} \cup Recorded]
    BY <1>1, <2>1, RecordTyped DEF Admit
  <2> QED BY <1>0, <1>1, <2>2 DEF Admit, TypeOK, account
<1>2. ASSUME NEW t \in Trades, NEW pct \in Pcts, RecordForUser(t, pct)
      PROVE  TypeOK'
  <2>1. PICK kept \in Nat : \E lots \in Built(kept) : Record(t, kept, lots)
    BY <1>2, Sized DEF RecordForUser
  <2>2. trades' \in [Trades -> {Unknown, Settled} \cup Recorded]
    BY <2>1, RecordTyped
  <2> QED BY <1>0, <1>2, <2>2 DEF RecordForUser, TypeOK, account
<1>3. ASSUME NEW t \in Trades, NEW pnl \in Pnls, CloseWithPnl(t, pnl)
      PROVE  TypeOK'
  BY <1>0, <1>3 DEF CloseWithPnl, TypeOK, account
<1>4. ASSUME NEW t \in Trades, EndWithoutPnl(t)
      PROVE  TypeOK'
  BY <1>0, <1>4 DEF EndWithoutPnl, TypeOK, account
<1>5. CASE UNCHANGED <<account, trades, today>>
  BY <1>0, <1>5 DEF TypeOK, account
<1>6. CASE ToggleAuto \/ Midnight \/ \E w \in Wallets : WalletMoves(w)
  BY <1>0, <1>6 DEF ToggleAuto, Midnight, WalletMoves, TypeOK, account
<1> QED
  BY <1>1, <1>2, <1>3, <1>4, <1>5, <1>6
     DEF Next, SetAmount, ChangeMode, ApiEditPort, vars

LEMMA TypeInit ==
    ASSUME Init
    PROVE  TypeOK
<1>1. PortOK
  BY PortInit DEF PortInv
<1>2. <<exchange, network>> \in Combos
  <2>1. PICK combo \in Combos : exchange = combo[1] /\ network = combo[2]
    BY DEF Init
  <2>2. combo = <<combo[1], combo[2]>>
    BY CombosAssumption
  <2> QED BY <2>1, <2>2
<1> QED BY <1>1, <1>2 DEF Init, TypeOK

\* The port, the trades and the results of the day keep their types: no size and no
\* number of lots is ever negative, whatever results do to the port.
THEOREM IntakeTyped == Spec => []TypeOK
<1>1. PortInv /\ TypeOK /\ [Next]_vars => PortInv' /\ TypeOK'
  BY PortStep, TypeStep
<1> QED BY <1>1, PortInit, TypeInit, PTL DEF Spec

\* What the lots of a size may be worth.
Worth(ex, size, lots) ==
    \/ lots * LotUsd <= size
    \/ ex = "hyperliquid" /\ size < MinOrderValue /\ lots * LotUsd <= MinOrderValue

LEMMA BuiltWithin ==
    ASSUME TypeOK, NEW size \in Nat, NEW lots \in Built(size)
    PROVE  Worth(exchange, size, lots)
<1>1. CASE lots = NotBuilt
  <2>1. lots * LotUsd = 0
    BY <1>1, LimitsAssumption DEF NotBuilt
  <2> QED BY <2>1 DEF Worth
<1>2. CASE lots # NotBuilt
  <2>1. lots \in EntryLots(exchange, size)
    BY <1>2 DEF Built
  <2>2. lots * LotUsd <= OrderUsd(exchange, size)
    BY <1>2, <2>1, AccountTyped, EntryIsWithin
  <2> QED BY <2>2 DEF Worth, OrderUsd, Greatest
<1> QED BY <1>1, <1>2

LEMMA WorthStep ==
    ASSUME PortInv, TypeOK, NotionalBounded, [Next]_vars
    PROVE  NotionalBounded'
<1>1. ASSUME NEW t \in Trades, NEW size \in Nat, NEW lots \in Built(size),
             Record(t, size, lots), exchange' = exchange
      PROVE  NotionalBounded'
  <2>1. Worth(exchange, size, lots)
    BY BuiltWithin
  <2>2. /\ trades'[t].size = size /\ trades'[t].lots = lots
        /\ \A u \in Trades \ {t} : trades'[u] = trades[u]
    BY <1>1, RecordTyped
  <2> QED BY <1>1, <2>1, <2>2 DEF NotionalBounded, LiveTrades, Worth
<1>2. ASSUME NEW t \in Trades, NEW pct \in Pcts, Admit(t, pct)
      PROVE  NotionalBounded'
  <2>1. PositionSize(port.usd, pct, network) \in Nat
    BY <1>2, Sized DEF Admit
  <2> QED BY <1>1, <1>2, <2>1 DEF Admit, account
<1>3. ASSUME NEW t \in Trades, NEW pct \in Pcts, RecordForUser(t, pct)
      PROVE  NotionalBounded'
  <2>1. PICK kept \in Nat : \E lots \in Built(kept) : Record(t, kept, lots)
    BY <1>3, Sized DEF RecordForUser
  <2> QED BY <1>1, <1>3, <2>1 DEF RecordForUser, account
<1>4. ASSUME NEW t \in Trades, trades' = [trades EXCEPT ![t] = Settled],
             exchange' = exchange
      PROVE  NotionalBounded'
  <2>1. trades'[t].st = "over" /\ \A u \in Trades \ {t} : trades'[u] = trades[u]
    BY <1>4 DEF TypeOK, Settled
  <2> QED BY <1>4, <2>1 DEF NotionalBounded, LiveTrades
<1>5. CASE UNCHANGED <<exchange, trades>>
  BY <1>5 DEF NotionalBounded, LiveTrades
<1> QED
  BY <1>2, <1>3, <1>4, <1>5
     DEF Next, CloseWithPnl, EndWithoutPnl, SetAmount, ChangeMode, ApiEditPort, ToggleAuto,
         WalletMoves, Midnight, vars, account

\* The entry of a trade is worth no more than the size the limits counted, or, when
\* that is less than what Hyperliquid asks of an order, than $10 there, for any
\* minima of the configuration, any lot and any port.
THEOREM OrdersWithinSize == Spec => []NotionalBounded
<1>1. Init => NotionalBounded
  BY DEF Init, NotionalBounded, LiveTrades, Unknown
<1>2. PortInv /\ TypeOK /\ NotionalBounded /\ [Next]_vars
        => PortInv' /\ TypeOK' /\ NotionalBounded'
  BY PortStep, TypeStep, WorthStep
<1> QED BY <1>1, <1>2, PortInit, TypeInit, PTL DEF Spec

=============================================================================
