------------------------- MODULE MCSelectiveReceive -------------------------
(* Model checking of SelectiveReceive on small instances.                  *)
EXTENDS SelectiveReceive, TLC

(* Two kinds of messages, as a reply and the rest are for requestWait.     *)
Symmetry == Permutations(Receivers)
=============================================================================
