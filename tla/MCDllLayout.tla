---------------------------- MODULE MCDllLayout ----------------------------
(* Instances of DllLayout for TLC.                                         *)
EXTENDS DllLayout

\* Every layout with a genuine DLL somewhere.
AnyLayout == {l \in Layout : \E f \in Files : l[f] = "genuine"}
=============================================================================
