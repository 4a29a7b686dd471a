--------------------------- MODULE MCVideoDecoder ---------------------------
(* Instances of VideoDecoder for TLC.                                      *)
EXTENDS VideoDecoder, TLC

\* The restarted sender switches codecs.
Switches == [c \in 1..MaxConns |-> IF c % 2 = 1 THEN "HEVC" ELSE "H264"]

\* SPS, PPS and a reference slice; VPS, SPS, PPS and IDR_N_LP.
Bytes == [f \in Formats |-> IF f = "H264" THEN {103, 104, 65} ELSE {64, 66, 68, 40}]

Interchangeable == Permutations(Buffers)

\* What feeds the decoder: every stream of up to seven bytes, cut anywhere into three chunks.
Splitter == INSTANCE NalSplitter

ASSUME SplitterAssumption ==
  \A n \in 0..7 : \A stream \in [1..n -> 0..2], i \in 0..n : \A j \in i..n :
    LET a == Splitter!Push(<<>>, SubSeq(stream, 1, i))
        b == Splitter!Push(a.pending, SubSeq(stream, i + 1, j))
        c == Splitter!Push(b.pending, SubSeq(stream, j + 1, n))
    IN  a.nals \o b.nals \o c.nals = Splitter!NalsOf(stream)
=============================================================================
