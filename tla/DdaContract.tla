----------------------------- MODULE DdaContract -----------------------------
(* The refinement of CaptureService by DdaProxy.                            *)
EXTENDS DdaProxy

\* A call in progress is still to come at the level of the service.
Service == INSTANCE CaptureService WITH
  Clients <- Captures,
  open <- [c \in Captures |-> Capturing(c)]

\* duplication_proxy.rs 44-54 and 341-353: seen from its client, the proxy is
\* a capture service that never loses access.
Contract == Service!Spec
=============================================================================
