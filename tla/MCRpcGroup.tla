----------------------------- MODULE MCRpcGroup -----------------------------
(* Model checking of RpcGroup on small instances.                          *)
EXTENDS RpcGroup
=============================================================================
