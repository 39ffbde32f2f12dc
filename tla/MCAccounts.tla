----------------------------- MODULE MCAccounts -----------------------------
(* Instances of AccountChat for TLC. *)
EXTENDS AccountProps, TLC

CONSTANTS u1, k1, k2

HyperliquidOnly == {<<"hyperliquid", "testnet">>, <<"hyperliquid", "mainnet">>}
TwoExchanges == {<<"hyperliquid", "testnet">>, <<"blofin", "testnet">>}
=============================================================================
