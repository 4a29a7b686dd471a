---------------------------- MODULE MCCaptureLoop ----------------------------
EXTENDS CaptureLoop

\* A cursor with its hotspot in the middle, one larger than the frame with a
\* hole in it, and one that is all mask.
MCShapes == {"cross", "large", "mask"}
MCHotX == [s \in MCShapes |-> IF s = "cross" THEN 1 ELSE 0]
MCHotY == [s \in MCShapes |-> 0]
MCCursorW == [s \in MCShapes |-> IF s = "cross" THEN 2 ELSE 3]
MCCursorH == [s \in MCShapes |-> IF s = "cross" THEN 1 ELSE 3]
MCOpaque == [s \in MCShapes |-> CASE s = "cross" -> 0..1
                                 [] s = "large" -> 0..8 \ {4}
                                 [] OTHER -> {}]
MCPlaces == {-1, 1}
=============================================================================
