--------------------------- MODULE MCVtableHooks ---------------------------
(* Instances of VtableHooks for TLC: two threads of the host, and the       *)
(* classes a hardware device and a debug-layer device bring.                *)
EXTENDS VtableHooks, TLC

CONSTANTS t1, t2, hw, debug

\* Nothing tells the threads apart, nor the classes.
Symmetry == Permutations({t1, t2}) \cup Permutations({hw, debug})
=============================================================================
