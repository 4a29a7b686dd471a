----------------------------- MODULE MCStreamPath -----------------------------
EXTENDS StreamPath

\* The first sender's payload ends in a zero, which the start code of the second
\* makes its own.
MCSenders == {1, 2}
MCStreamOf == <<<<0, 0, 1, 2, 0>>, <<0, 0, 1>>>>
MCPipelines == 1..2
MCRelays == 1..2
MCReadSizes == {5}
=============================================================================
