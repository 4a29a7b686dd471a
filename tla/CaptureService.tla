--------------------------- MODULE CaptureService ---------------------------
(***************************************************************************)
(* What the proxy promises a capture client that treats every error of     *)
(* AcquireNextFrame but WAIT_TIMEOUT, and every error of ReleaseFrame, as  *)
(* fatal (duplication_proxy.rs 44-54, 341-353): losses of the duplication  *)
(* do not exist at this level.                                             *)
(***************************************************************************)
CONSTANT Clients

VARIABLES
  open,   \* the client has a proxy
  held,   \* it holds a frame
  ret     \* what its last call returned

vars == <<open, held, ret>>

Init ==
  /\ open = [c \in Clients |-> FALSE]
  /\ held = [c \in Clients |-> FALSE]
  /\ ret = [c \in Clients |-> [op |-> "none", hr |-> "ok"]]

Returns(c, op, hr) == ret' = [ret EXCEPT ![c] = [op |-> op, hr |-> hr]]

\* The initial DuplicateOutput is the client's own call and may fail.
Duplicate(c) ==
  /\ ~open[c]
  /\ \/ Returns(c, "duplicate", "ok") /\ open' = [open EXCEPT ![c] = TRUE]
     \/ Returns(c, "duplicate", "fail") /\ UNCHANGED open
  /\ UNCHANGED held

\* A frame comes only to a client that holds none; with no frame the client
\* is told to try again; a removed device is the one error passed on.
Acquire(c) ==
  /\ open[c]
  /\ \/ ~held[c] /\ held' = [held EXCEPT ![c] = TRUE] /\ Returns(c, "acquire", "ok")
     \/ \E hr \in {"timeout", "removed"} : Returns(c, "acquire", hr) /\ UNCHANGED held
  /\ UNCHANGED open

\* The pointer shape of a frame may be gone with the frame's instance;
\* without a frame the call says there is no shape.
PointerShape(c) ==
  /\ open[c]
  /\ \E hr \in {"ok", "access_lost", "removed"} :
       (hr # "ok" => held[c]) /\ Returns(c, "pointer", hr)
  /\ UNCHANGED <<open, held>>

Release(c) ==
  /\ open[c]
  /\ held' = [held EXCEPT ![c] = FALSE]
  /\ Returns(c, "release", "ok")
  /\ UNCHANGED open

Close(c) ==
  /\ open[c]
  /\ open' = [open EXCEPT ![c] = FALSE]
  /\ held' = [held EXCEPT ![c] = FALSE]
  /\ Returns(c, "none", "ok")

Next == \E c \in Clients : Duplicate(c) \/ Acquire(c) \/ PointerShape(c) \/ Release(c) \/ Close(c)

Spec == Init /\ [][Next]_vars
=============================================================================
