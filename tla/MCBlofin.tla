------------------------------ MODULE MCBlofin ------------------------------
(* Instances of BlofinTrade for TLC. *)
EXTENDS BlofinProps, TLC

OneTp == <<"tp1">>
=============================================================================
