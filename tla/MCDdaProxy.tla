----------------------------- MODULE MCDdaProxy -----------------------------
(* Instances of DdaProxy for TLC.                                          *)
EXTENDS DdaContract, TLC

CONSTANTS c1, c2, t1, t2, t3, d1, d2, o1, o2, home, secure, i1, i2, i3

\* The values each instance gives the functions of DdaProxy.
SoloOpen == [c \in {c1} |-> t1]
SoloPoll == [c \in {c1} |-> t2]
SoloTarget == [c \in {c1} |-> o2]
SoloDev == [c \in {c1} |-> d1]
SoloEnum == [c \in {c1} |-> {o2}]
SoloEnumAll == [c \in {c1} |-> {o1, o2}]
SoloV5 == [c \in {c1} |-> "V5"]
SoloV1 == [c \in {c1} |-> "V1"]

PairOpen == [c \in {c1, c2} |-> t1]
PairPoll == [c \in {c1, c2} |-> IF c = c1 THEN t2 ELSE t3]
PairTarget == [c \in {c1, c2} |-> o1]
PairDev == [c \in {c1, c2} |-> d1]
PairEnum == [c \in {c1, c2} |-> {o1}]
PairMixed == [c \in {c1, c2} |-> IF c = c1 THEN "V1" ELSE "V5"]

=============================================================================
