---------------------------- MODULE MCSupervisor ----------------------------
(* Model checking of Supervisor, and with it of EventRing, on small        *)
(* instances.                                                              *)
EXTENDS Supervisor, TLC

(* The VMs are interchangeable; the run of liveness does without this.     *)
Symmetry == Permutations(Workers)
=============================================================================
