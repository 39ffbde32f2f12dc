---------------------------- MODULE IntakeProps ----------------------------
(* The properties of Intake. *)
EXTENDS Intake

\* What the proofs need of the types.
PortOK == port \in Ports

TypeOK ==
    /\ PortOK
    /\ <<exchange, network>> \in Combos
    /\ auto \in BOOLEAN /\ wallet \in Wallets
    /\ trades \in [Trades -> {Unknown, Settled} \cup Recorded]
    /\ today \subseteq Trades \X Pnls

\* The trades admitted without the user keep to the limits together, with those a
\* user has to confirm and in whatever order signals, ends and changes of
\* auto_execute come: their number, and what they put at stake
\* (check_risk_limits, get_total_open_exposure_usd).
Admitted == {t \in LiveTrades : trades[t].gate # "manual"}
LimitsHold == Cardinality(Admitted) <= MaxOpen /\ Exposure(Admitted) <= MaxExposure

\* The entry of a trade is worth no more than the size the limits were checked with,
\* which is all the store counts of it, except on Hyperliquid below $10, which is
\* made $10 there: so much may the venue hold of a trade that counts for less
\* (HyperliquidAdapter.build_trade_set).
NotionalBounded ==
    \A t \in LiveTrades :
        LET worth == trades[t].lots * LotUsd
        IN \/ worth <= trades[t].size
           \/ exchange = "hyperliquid" /\ trades[t].size < MinOrderValue
                /\ worth <= MinOrderValue

\* A result never lowers the watermark, and after a loss the port is not below it
\* (apply_pnl_to_port: "never below the highest floor reached").
FloorKept ==
    [][today' # today /\ today' # {} /\ port.mode = "watermark" /\ port.mark # NoPort
         => /\ port'.mark # NoPort /\ port'.mark >= port.mark
            /\ port'.usd < port'.mark => port'.usd >= port.usd]_vars

\* The invariant its proof goes by.  Set by its user, a port in watermark mode is
\* always its own floor; one that was never set has no floor.
PortIsFloor ==
    port.mode = "watermark" /\ ~port.direct => port.usd = port.mark
PortInv == PortOK /\ PortIsFloor /\ (port.usd = NoPort => port.mark = NoPort)

=============================================================================
