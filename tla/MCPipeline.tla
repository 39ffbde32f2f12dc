----------------------------- MODULE MCPipeline -----------------------------
(* Instances of Pipeline for TLC. *)
EXTENDS PipelineProps, TLC

CONSTANTS t1, t2, BTC

OneCoin == [t \in Trades |-> BTC]
=============================================================================
