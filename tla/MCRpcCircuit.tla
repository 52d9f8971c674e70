---------------------------- MODULE MCRpcCircuit ----------------------------
(* Model checking of RpcCircuit on small instances.                        *)
EXTENDS RpcCircuit
=============================================================================
