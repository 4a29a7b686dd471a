---------------------------- MODULE MCInlineHook ----------------------------
(* Instances of InlineHook for TLC: two threads of the host.               *)
EXTENDS InlineHook

CONSTANTS t1, t2
=============================================================================
