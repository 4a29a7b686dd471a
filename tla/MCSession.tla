------------------------------- MODULE MCSession -------------------------------
EXTENDS Session

\* A build as it was unpacked, and one an earlier version of the scripts has left
\* with the proxy installed.
MCLayouts ==
  {l \in Layout : \/ l["real"] = "genuine" /\ l["orig"] = "none" /\ l["backup"] = "none"
                  \/ l["real"] = "proxy" /\ l["orig"] = "genuine" /\ l["backup"] = "genuine"}
MCHelpers == 1..1
MCMonitors == {2, 3}
=============================================================================
