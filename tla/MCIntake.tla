------------------------------ MODULE MCIntake ------------------------------
(* Instances of Intake for TLC. *)
EXTENDS IntakeProps, TLC

CONSTANTS t1, t2, t3

EvenSplit == <<33, 33, 34>>
Results == {-30, 20}
AllCombos == {"hyperliquid", "blofin"} \X {"testnet", "mainnet"}
TradeSymmetry == Permutations(Trades)
=============================================================================
