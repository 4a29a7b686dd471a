--------------------------- MODULE StreamPathProofs ---------------------------
(***************************************************************************)
(* For any number of pipelines, relays and senders, any streams and any    *)
(* size of the reads and the buffers: no thread of a stopped pipeline      *)
(* reaches the decoder of the next, what the app reads has no gap, and its *)
(* NAL units do not depend on where the frames were cut.                   *)
(***************************************************************************)
EXTENDS StreamPath, NalSplitterProofs
LOCAL INSTANCE SequencesExt

\* MainActivity.decoder belongs to the pipeline started last, or is null.
DecoderInv ==
  /\ started \in Pipelines \cup {0}
  /\ main \in {"idle", "await", "up", "stopping", "joining"}
  /\ decoder = IF main = "idle" THEN 0 ELSE started

\* The threads there are, and those that no timed out join has left behind.
ThreadInv ==
  /\ thread \in [Pipelines -> Steps]
  /\ \A p \in Pipelines : p > started => thread[p] = "none"
  /\ ~outlived =>
       \A p \in Pipelines :
         p < started \/ (p = started /\ main = "idle") => thread[p] = "over"

IsolationInv == DecoderInv /\ ThreadInv /\ PipelineIsolation

\* 0 stands for no pipeline.
LEMMA PipelinesAreNumbers == Pipelines \subseteq Int /\ 0 \notin Pipelines
<1>1. \E n \in Nat : Pipelines = 1..n
  BY LinkAssumption
<1> QED
  BY <1>1

\* Neither a relay nor its connections touch what the invariant is about.
LEMMA RelayStep ==
  IsolationInv /\ UNCHANGED receiverVars => IsolationInv'
  BY DEF IsolationInv, DecoderInv, ThreadInv, PipelineIsolation, receiverVars, threadVars

\* The main thread starts a pipeline, or stops one and joins its thread.
LEMMA MainStepPreserves == IsolationInv /\ MainStep => IsolationInv'
<1> SUFFICES ASSUME IsolationInv, MainStep PROVE IsolationInv'
  OBVIOUS
<1> USE PipelinesAreNumbers DEF IsolationInv, DecoderInv, ThreadInv, PipelineIsolation, Steps
<1>1. CASE StartPipeline
  BY <1>1 DEF StartPipeline
<1>2. CASE Advertise
  BY <1>2 DEF Advertise, threadVars
<1>3. CASE StopBegins
  BY <1>3 DEF StopBegins
<1>4. CASE CloseSockets
  BY <1>4 DEF CloseSockets, threadVars
<1>5. CASE Join
  BY <1>5 DEF Join, threadVars
<1> QED
  BY <1>1, <1>2, <1>3, <1>4, <1>5 DEF MainStep, Closing

\* A thread that takes a step is neither absent nor over, and it calls a
\* decoder only in two of its steps.
LEMMA ThreadMoves ==
  ASSUME NEW p \in Pipelines, ThreadStep(p), thread \in [Pipelines -> Steps]
  PROVE  /\ thread[p] \notin {"none", "over"}
         /\ thread' \in [Pipelines -> Steps]
         /\ \A q \in Pipelines \ {p} : thread'[q] = thread[q]
         /\ strayed' = strayed \/ Strays(p)
         /\ UNCHANGED mainVars
<1> USE DEF Goto, Steps, mainVars, streamVars, NextConnection
<1>1. CASE Bind(p)
  BY <1>1 DEF Bind
<1>2. CASE BindFails(p)
  BY <1>2 DEF BindFails
<1>3. CASE LoopEnds(p)
  BY <1>3 DEF LoopEnds
<1>4. CASE Accept(p)
  BY <1>4 DEF Accept
<1>5. CASE SetClient(p)
  BY <1>5 DEF SetClient
<1>6. CASE Handshake(p)
  BY <1>6 DEF Handshake
<1>7. CASE HandshakeFails(p)
  BY <1>7 DEF HandshakeFails
<1>8. CASE NewConnection(p)
  BY <1>8 DEF NewConnection
<1>9. CASE Check(p)
  BY <1>9 DEF Check
<1>10. CASE ReadFrame(p)
  <2> DEFINE s == Push(pending[p], Head(wire[serving[p]]))
             to == IF s.nals = <<>> THEN "check" ELSE "deliver"
  <2>1. to \in {"check", "deliver"}
    OBVIOUS
  <2>2. /\ thread[p] = "read" /\ thread' = [thread EXCEPT ![p] = to]
        /\ UNCHANGED <<strayed, mainVars>>
    BY <1>10 DEF ReadFrame
  <2> HIDE DEF to
  <2> QED
    BY <2>1, <2>2
<1>11. CASE Deliver(p)
  BY <1>11 DEF Deliver
<1>12. CASE CloseConnection(p)
  BY <1>12 DEF CloseConnection, Leave
<1> QED
  BY <1>1, <1>2, <1>3, <1>4, <1>5, <1>6, <1>7, <1>8, <1>9, <1>10, <1>11, <1>12
  DEF ThreadStep

LEMMA ThreadStepPreserves ==
  ASSUME IsolationInv, NEW p \in Pipelines, ThreadStep(p)
  PROVE  IsolationInv'
<1> USE PipelinesAreNumbers DEF IsolationInv, DecoderInv, ThreadInv
<1>1. /\ thread[p] \notin {"none", "over"}
      /\ thread' \in [Pipelines -> Steps]
      /\ \A q \in Pipelines \ {p} : thread'[q] = thread[q]
      /\ strayed' = strayed \/ Strays(p)
      /\ UNCHANGED <<main, started, decoder, outlived>>
  BY ThreadMoves DEF mainVars
<1>2. DecoderInv'
  BY <1>1
<1>3. ThreadInv'
  BY <1>1
<1>4. PipelineIsolation'
  <2> SUFFICES ASSUME ~outlived PROVE ~strayed'
    BY <1>1 DEF PipelineIsolation
  <2>1. ~(p < started) /\ ~(p = started /\ main = "idle") /\ ~(p > started)
    BY <1>1
  <2>2. p = started /\ decoder = p
    BY <2>1
  <2> QED
    BY <1>1, <2>2 DEF PipelineIsolation, Strays
<1> QED
  BY <1>2, <1>3, <1>4

LEMMA IsolationInitially == Init => IsolationInv
  BY PipelinesAreNumbers
  DEF Init, ReceiverInit, IsolationInv, DecoderInv, ThreadInv, PipelineIsolation, Steps

LEMMA IsolationPreserved == IsolationInv /\ [Next]_vars => IsolationInv'
<1> SUFFICES ASSUME IsolationInv, [Next]_vars PROVE IsolationInv'
  OBVIOUS
<1>1. CASE UNCHANGED receiverVars
  BY <1>1, RelayStep
<1>2. CASE MainStep
  BY <1>2, MainStepPreserves
<1>3. ASSUME NEW p \in Pipelines, ThreadStep(p) PROVE IsolationInv'
  BY <1>3, ThreadStepPreserves
<1> QED
  BY <1>1, <1>2, <1>3 DEF Next, vars

\* stopPipeline joins the thread before it clears the decoder, so that the
\* thread of a pipeline delivers to its own decoder or to none, unless a join
\* has timed out.
THEOREM Isolation == Spec => []PipelineIsolation
<1>1. IsolationInv => PipelineIsolation
  BY DEF IsolationInv
<1> QED
  BY IsolationInitially, IsolationPreserved, <1>1, PTL DEF Spec

-----------------------------------------------------------------------------
(* Chunks that add up to a stream.                                         *)

\* total is done and then the chunks, one after the other: cut[i] bytes of it
\* come before the i-th chunk.
Flows(done, chunks, total) ==
  \E cut \in Seq(Nat) :
    /\ Len(cut) = Len(chunks) + 1 /\ cut[Len(cut)] = Len(total)
    /\ \A i \in 1..Len(cut) : cut[i] <= Len(total)
    /\ done = SubSeq(total, 1, cut[1])
    /\ \A i \in 1..Len(chunks) :
         cut[i] <= cut[i + 1] /\ chunks[i] = SubSeq(total, cut[i] + 1, cut[i + 1])

\* Nothing at all is a flow.
LEMMA NothingFlows == Flows(<<>>, <<>>, <<>>)
<1>. DEFINE cut == <<0>>
<1>1. cut \in Seq(Nat) /\ Len(cut) = 1 /\ cut[1] = 0
  OBVIOUS
<1>2. SubSeq(<<>>, 1, 0) = <<>>
  BY SubSeqEmpty
<1>3. Len(<<>>) = 0
  OBVIOUS
<1>. HIDE DEF cut
<1>4. /\ Len(cut) = Len(<<>>) + 1 /\ cut[Len(cut)] = Len(<<>>)
      /\ \A i \in 1..Len(cut) : cut[i] <= Len(<<>>)
      /\ <<>> = SubSeq(<<>>, 1, cut[1])
  BY <1>1, <1>2, <1>3
<1>6. \A i \in 1..Len(<<>>) :
        cut[i] <= cut[i + 1] /\ <<>>[i] = SubSeq(<<>>, cut[i] + 1, cut[i + 1])
  BY <1>3
<1>. QED BY <1>1, <1>4, <1>6, Zenon DEF Flows

\* A read broadcasts what it returned.
LEMMA FlowGrows ==
  ASSUME NEW done, NEW chunks \in Seq(Seq(Nat)), NEW total \in Seq(Nat), NEW c \in Seq(Nat),
         Flows(done, chunks, total)
  PROVE  Flows(done, Append(chunks, c), total \o c)
<1>1. PICK cut \in Seq(Nat) :
        /\ Len(cut) = Len(chunks) + 1 /\ cut[Len(cut)] = Len(total)
        /\ \A i \in 1..Len(cut) : cut[i] <= Len(total)
        /\ done = SubSeq(total, 1, cut[1])
        /\ \A i \in 1..Len(chunks) :
             cut[i] <= cut[i + 1] /\ chunks[i] = SubSeq(total, cut[i] + 1, cut[i + 1])
  BY DEF Flows
<1>. DEFINE all == total \o c
            more == Append(cut, Len(all))
            longer == Append(chunks, c)
<1>2. /\ all \in Seq(Nat) /\ Len(all) = Len(total) + Len(c)
      /\ Len(total) \in Nat /\ Len(c) \in Nat /\ Len(chunks) \in Nat
      /\ Len(cut) \in Nat /\ \A i \in 1..Len(cut) : cut[i] \in Nat
  BY LenProperties, ConcatProperties, ElementOfSeq
<1>3. /\ more \in Seq(Nat) /\ Len(more) = Len(cut) + 1
      /\ more[Len(cut) + 1] = Len(all)
      /\ \A i \in 1..Len(cut) : more[i] = cut[i]
  BY <1>2, AppendProperties
<1>4. /\ Len(longer) = Len(chunks) + 1 /\ longer[Len(chunks) + 1] = c
      /\ \A i \in 1..Len(chunks) : longer[i] = chunks[i]
  BY AppendProperties
<1>5. \A m, n \in Nat : m >= 1 /\ n <= Len(total) => SubSeq(all, m, n) = SubSeq(total, m, n)
  <2>. SUFFICES ASSUME NEW m \in Nat, NEW n \in Nat, m >= 1, n <= Len(total)
                PROVE  SubSeq(all, m, n) = SubSeq(total, m, n)
    OBVIOUS
  <2>1. CASE n < m
    BY <2>1, SubSeqEmpty
  <2>2. CASE n >= m
    <3>1. m \in 1..Len(total) /\ n \in 1..Len(total)
      BY <2>2, <1>2
    <3>. QED BY <3>1, SubSeqOfConcat1
  <2>. QED BY <2>1, <2>2
<1>6. SubSeq(all, Len(total) + 1, Len(all)) = c
  <2>1. CASE Len(c) = 0
    <3>1. c = <<>>
      BY <2>1, EmptySeq
    <3>2. SubSeq(all, Len(total) + 1, Len(all)) = <<>>
      BY <2>1, <1>2, SubSeqEmpty
    <3>. QED BY <3>1, <3>2
  <2>2. CASE Len(c) > 0
    <3>1. /\ Len(total) + 1 \in Len(total) + 1 .. Len(total) + Len(c)
          /\ Len(total) + Len(c) \in Len(total) + 1 .. Len(total) + Len(c)
      BY <2>2, <1>2
    <3>2. SubSeq(all, Len(total) + 1, Len(total) + Len(c))
            = SubSeq(c, Len(total) + 1 - Len(total), Len(total) + Len(c) - Len(total))
      BY <3>1, SubSeqOfConcat2
    <3>3. Len(total) + 1 - Len(total) = 1 /\ Len(total) + Len(c) - Len(total) = Len(c)
      BY <1>2
    <3>4. SubSeq(c, 1, Len(c)) = c
      BY SubSeqFull
    <3>. QED BY <3>2, <3>3, <3>4, <1>2
  <2>. QED BY <2>1, <2>2, <1>2
<1>. HIDE DEF all, more, longer
<1>7. /\ Len(more) = Len(longer) + 1 /\ more[Len(more)] = Len(all)
      /\ \A i \in 1..Len(more) : more[i] <= Len(all)
  <2>1. Len(more) = Len(longer) + 1 /\ more[Len(more)] = Len(all)
    BY <1>1, <1>2, <1>3, <1>4
  <2>2. ASSUME NEW i \in 1..Len(more) PROVE more[i] <= Len(all)
    <3>1. CASE i = Len(cut) + 1
      BY <3>1, <1>2, <1>3
    <3>2. CASE i \in 1..Len(cut)
      <4>1. more[i] = cut[i] /\ cut[i] \in Nat /\ cut[i] <= Len(total)
        BY <3>2, <1>1, <1>2, <1>3
      <4>. QED BY <4>1, <1>2
    <3>. QED BY <3>1, <3>2, <1>2, <1>3
  <2>. QED BY <2>1, <2>2
<1>8. done = SubSeq(all, 1, more[1])
  <2>1. more[1] = cut[1] /\ cut[1] \in Nat /\ cut[1] <= Len(total)
    BY <1>1, <1>2, <1>3
  <2>2. 1 \in Nat /\ 1 >= 1
    OBVIOUS
  <2>3. SubSeq(all, 1, cut[1]) = SubSeq(total, 1, cut[1])
    BY <2>1, <2>2, <1>5, Zenon
  <2>. QED BY <1>1, <2>1, <2>3
<1>9. ASSUME NEW i \in 1..Len(longer)
      PROVE  more[i] <= more[i + 1] /\ longer[i] = SubSeq(all, more[i] + 1, more[i + 1])
  <2>1. CASE i = Len(chunks) + 1
    <3>1. more[i] = Len(total) /\ more[i + 1] = Len(all) /\ longer[i] = c
      BY <2>1, <1>1, <1>2, <1>3, <1>4
    <3>. QED BY <3>1, <1>2, <1>6
  <2>2. CASE i \in 1..Len(chunks)
    <3>1. /\ i \in 1..Len(cut) /\ i + 1 \in 1..Len(cut)
      BY <2>2, <1>1, <1>2
    <3>2. /\ more[i] = cut[i] /\ more[i + 1] = cut[i + 1] /\ longer[i] = chunks[i]
          /\ cut[i] \in Nat /\ cut[i + 1] \in Nat /\ cut[i + 1] <= Len(total)
      BY <2>2, <3>1, <1>1, <1>2, <1>3, <1>4
    <3>3. \A a \in Nat : a + 1 \in Nat /\ a + 1 >= 1
      OBVIOUS
    <3>4. SubSeq(all, cut[i] + 1, cut[i + 1]) = SubSeq(total, cut[i] + 1, cut[i + 1])
      BY <3>2, <3>3, <1>5, Zenon
    <3>. QED BY <2>2, <3>2, <3>4, <1>1
  <2>. QED BY <2>1, <2>2, <1>2, <1>4
<1>10. Flows(done, longer, all)
  BY <1>3, <1>7, <1>8, <1>9 DEF Flows
<1>. QED BY <1>10 DEF longer, all

\* A frame is read: the first chunk is done.
LEMMA FlowMoves ==
  ASSUME NEW done, NEW chunks \in Seq(Seq(Nat)), NEW total \in Seq(Nat),
         chunks # <<>>, Flows(done, chunks, total)
  PROVE  Flows(done \o Head(chunks), Tail(chunks), total)
<1>1. PICK cut \in Seq(Nat) :
        /\ Len(cut) = Len(chunks) + 1 /\ cut[Len(cut)] = Len(total)
        /\ \A i \in 1..Len(cut) : cut[i] <= Len(total)
        /\ done = SubSeq(total, 1, cut[1])
        /\ \A i \in 1..Len(chunks) :
             cut[i] <= cut[i + 1] /\ chunks[i] = SubSeq(total, cut[i] + 1, cut[i + 1])
  BY DEF Flows
<1>2. /\ Len(chunks) \in Nat \ {0} /\ Len(cut) \in Nat /\ Len(total) \in Nat
      /\ \A i \in 1..Len(cut) : cut[i] \in Nat
      /\ cut # <<>>
  BY <1>1, LenProperties, EmptySeq, ElementOfSeq
<1>. DEFINE rest == Tail(cut)
            fewer == Tail(chunks)
<1>3. /\ rest \in Seq(Nat) /\ Len(rest) = Len(chunks)
      /\ \A i \in 1..Len(rest) : rest[i] = cut[i + 1]
      /\ Len(fewer) = Len(chunks) - 1
      /\ \A i \in 1..Len(fewer) : fewer[i] = chunks[i + 1]
  BY <1>1, <1>2, HeadTailProperties
<1>4. Head(chunks) = chunks[1]
  BY <1>2
<1>5. done \o chunks[1] = SubSeq(total, 1, cut[2])
  <2>1. /\ 1 \in 1..Len(chunks) /\ 1 \in 1..Len(cut) /\ 2 \in 1..Len(cut)
    BY <1>1, <1>2
  <2>2. /\ done = SubSeq(total, 1, cut[1])
        /\ cut[1] \in Nat /\ cut[2] \in Nat /\ cut[2] <= Len(total)
    BY <2>1, <1>1, <1>2
  <2>5. cut[1] <= cut[1 + 1] /\ chunks[1] = SubSeq(total, cut[1] + 1, cut[1 + 1])
    BY <2>1, <1>1
  <2>6. cut[1] <= cut[2] /\ chunks[1] = SubSeq(total, cut[1] + 1, cut[2])
    BY <2>5
  <2>7. \A a, b, n \in Nat : a <= b /\ b <= n =>
          1 \in 1 .. n + 1 /\ a \in 1 - 1 .. n /\ b \in a..n
    OBVIOUS
  <2>3. 1 \in 1..Len(total) + 1 /\ cut[1] \in 1 - 1 .. Len(total) /\ cut[2] \in cut[1]..Len(total)
    BY <2>2, <2>6, <2>7, <1>2, Zenon
  <2>4. SubSeq(total, 1, cut[1]) \o SubSeq(total, cut[1] + 1, cut[2]) = SubSeq(total, 1, cut[2])
    BY <2>3, ConcatAdjacentSubSeq
  <2>. QED BY <2>2, <2>4, <2>6
<1>. HIDE DEF rest, fewer
<1>6. /\ Len(rest) = Len(fewer) + 1 /\ rest[Len(rest)] = Len(total)
      /\ \A i \in 1..Len(rest) : rest[i] <= Len(total)
      /\ rest[1] = cut[2]
  <2>1. Len(rest) = Len(fewer) + 1 /\ Len(rest) \in 1..Len(rest) /\ 1 \in 1..Len(rest)
    BY <1>2, <1>3
  <2>2. rest[Len(rest)] = cut[Len(rest) + 1] /\ rest[1] = cut[1 + 1]
    BY <2>1, <1>3
  <2>3. ASSUME NEW i \in 1..Len(rest) PROVE rest[i] <= Len(total)
    <3>1. i + 1 \in 1..Len(cut) /\ rest[i] = cut[i + 1]
      BY <1>1, <1>2, <1>3
    <3>. QED BY <3>1, <1>1
  <2>. QED BY <2>1, <2>2, <2>3, <1>1, <1>3
<1>7. \A i \in 1..Len(fewer) :
        rest[i] <= rest[i + 1] /\ fewer[i] = SubSeq(total, rest[i] + 1, rest[i + 1])
  <2>. SUFFICES ASSUME NEW i \in 1..Len(fewer)
                PROVE  rest[i] <= rest[i + 1] /\ fewer[i] = SubSeq(total, rest[i] + 1, rest[i + 1])
    OBVIOUS
  <2>1. i + 1 \in 1..Len(chunks) /\ i \in 1..Len(rest) /\ i + 1 \in 1..Len(rest)
    BY <1>2, <1>3
  <2>2. rest[i] = cut[i + 1] /\ rest[i + 1] = cut[i + 1 + 1] /\ fewer[i] = chunks[i + 1]
    BY <2>1, <1>3
  <2>. QED BY <2>1, <2>2, <1>1
<1>8. Flows(done \o Head(chunks), fewer, total)
  BY <1>3, <1>4, <1>5, <1>6, <1>7 DEF Flows
<1>. QED BY <1>8 DEF fewer

\* What has been done is a prefix.
LEMMA FlowIsPrefix ==
  ASSUME NEW done, NEW chunks \in Seq(Seq(Nat)), NEW total \in Seq(Nat),
         Flows(done, chunks, total)
  PROVE  Len(done) <= Len(total) /\ SubSeq(done, 1, Len(done)) = SubSeq(total, 1, Len(done))
<1>1. PICK n \in Nat : n <= Len(total) /\ done = SubSeq(total, 1, n)
  <2>1. PICK cut \in Seq(Nat) :
          /\ Len(cut) = Len(chunks) + 1
          /\ \A i \in 1..Len(cut) : cut[i] <= Len(total)
          /\ done = SubSeq(total, 1, cut[1])
    BY DEF Flows
  <2>2. 1 \in 1..Len(cut)
    BY <2>1, LenProperties
  <2>. QED BY <2>1, <2>2, ElementOfSeq
<1>2. \A i \in 1..n : total[i] \in Nat
  BY <1>1, LenProperties, ElementOfSeq
<1>3. done \in Seq(Nat) /\ Len(done) = n
  BY <1>1, <1>2, SubSeqProperties
<1>4. SubSeq(done, 1, Len(done)) = done
  BY <1>3, SubSeqFull
<1>. QED BY <1>1, <1>3, <1>4

-----------------------------------------------------------------------------
(* The bytes between the senders and the app.                              *)

\* What the buffers on the way hold: bytes, and chunks of them.
Bytes ==
  /\ tcp \in [Senders -> Seq(Nat)] /\ sent \in Seq(Nat)
  /\ ring \in Seq(Seq(Nat)) /\ wire \in [Relays -> Seq(Seq(Nat))]
  /\ taken \in [Pipelines -> Seq(Nat)]

TypeInv == TypeOK /\ Bytes

LEMMA TypeInitially == Init => TypeInv
<1>. SUFFICES ASSUME Init PROVE TypeInv
  OBVIOUS
<1>1. \A S : <<>> \in Seq(S)
  OBVIOUS
<1>2. Len(<<>>) = 0
  OBVIOUS
<1>3. RelayTypeOK
  <2>1. \A s \in Senders : Len(tcp[s]) <= Len(StreamOf[s])
    <3>. SUFFICES ASSUME NEW s \in Senders PROVE Len(tcp[s]) <= Len(StreamOf[s])
      OBVIOUS
    <3>1. tcp[s] = <<>>
      BY DEF Init, RelayInit
    <3>2. Len(StreamOf[s]) \in Nat
      BY RelayAssumption, LenProperties
    <3>. QED BY <3>1, <3>2, <1>2
  <2>2. Len(ring) <= Capacity
    BY <1>2, RelayAssumption DEF Init, RelayInit
  <2>. QED BY <2>1, <2>2 DEF Init, RelayInit, RelayTypeOK
<1>4. LinkTypeOK
  BY <1>2, LinkAssumption DEF Init, LinkInit, LinkTypeOK, LinkStates
<1>5. ReceiverTypeOK
  BY DEF Init, ReceiverInit, ReceiverTypeOK, Steps
<1>6. Bytes
  BY <1>1 DEF Init, RelayInit, LinkInit, ReceiverInit, Bytes
<1>. QED BY <1>3, <1>4, <1>5, <1>6 DEF TypeInv, TypeOK

\* Head, Tail, Append of a channel or of a wire.
LEMMA Queues ==
  ASSUME NEW S, NEW q \in Seq(S)
  PROVE  /\ Len(q) \in Nat
         /\ \A e \in S : Append(q, e) \in Seq(S) /\ Len(Append(q, e)) = Len(q) + 1
         /\ q # <<>> => Head(q) \in S /\ Tail(q) \in Seq(S) /\ Len(Tail(q)) = Len(q) - 1
                        /\ Len(q) > 0
BY LenProperties, EmptySeq, AppendProperties, HeadTailProperties

\* The relay and its senders keep the types.
LEMMA RelayTypes ==
  ASSUME TypeInv, RelayNext, UNCHANGED receiverVars
  PROVE  TypeInv'
<1>1. UNCHANGED receiverVars /\ ReceiverTypeOK
  BY DEF TypeInv, TypeOK
<1>2. ReceiverTypeOK' /\ UNCHANGED taken
  BY <1>1 DEF ReceiverTypeOK, receiverVars, threadVars
<1>ty. RelayTypeOK /\ LinkTypeOK /\ Bytes
  BY DEF TypeInv, TypeOK
<1>len. \A s \in Senders : Len(tcp[s]) \in Nat /\ Len(StreamOf[s]) \in Nat /\ StreamOf[s] \in Seq(Nat)
  BY <1>ty, RelayAssumption, LenProperties DEF Bytes
<1>3. ASSUME RelayTypeOK', LinkTypeOK', Bytes' PROVE TypeInv'
  BY <1>2, <1>3 DEF TypeInv, TypeOK
<1>4. CASE StartRelay
  BY <1>2, <1>3, <1>4, <1>ty DEF StartRelay, RelayTypeOK, LinkTypeOK, Bytes, linkVars
<1>5. CASE Connect
  <2>1. LinkTypeOK'
    BY <1>5, <1>ty DEF Connect, LinkTypeOK, LinkStates, Listening
  <2>. QED BY <2>1, <1>2, <1>3, <1>5, <1>ty DEF Connect, RelayTypeOK, Bytes, relayVars
<1>6. CASE Subscribe \/ Connected
  BY <1>2, <1>3, <1>6, <1>ty DEF Subscribe, Connected, RelayTypeOK, LinkTypeOK, Bytes, linkVars
<1>7. CASE TaskEnds \/ RelayDies
  <2>1. End
    BY <1>7 DEF TaskEnds, RelayDies
  <2>2. Len(<<>>) = 0 /\ <<>> \in Seq(Nat) /\ <<>> \in Seq(Seq(Nat))
    OBVIOUS
  <2>3. RelayTypeOK'
    <3>1. \A s \in Senders : tcp'[s] = <<>>
      BY <2>1 DEF End
    <3>2. \A s \in Senders : Len(tcp'[s]) <= Len(StreamOf[s])
      BY <3>1, <2>2, <1>len
    <3>3. Len(ring') <= Capacity
      BY <2>1, <2>2, RelayAssumption DEF End
    <3>. QED BY <2>1, <3>2, <3>3, <1>ty DEF End, RelayTypeOK
  <2>4. LinkTypeOK'
    BY <2>1, <1>ty DEF End, LinkTypeOK
  <2>5. Bytes'
    BY <2>1, <2>2, <1>2, <1>ty DEF End, Bytes
  <2>. QED BY <2>3, <2>4, <2>5, <1>3
<1>8. ASSUME NEW s \in Senders, SenderConnects(s) PROVE TypeInv'
  <2>1. \A u \in Senders : tcp'[u] = IF u = s THEN StreamOf[s] ELSE tcp[u]
    BY <1>8, <1>ty DEF SenderConnects, Bytes
  <2>2. RelayTypeOK'
    BY <2>1, <1>8, <1>ty, <1>len DEF SenderConnects, RelayTypeOK
  <2>3. LinkTypeOK' /\ Bytes'
    BY <1>8, <1>2, <1>ty, <1>len DEF SenderConnects, LinkTypeOK, Bytes, linkVars
  <2>. QED BY <2>2, <2>3, <1>3
<1>9. ASSUME NEW s \in Senders, SenderStops(s) PROVE TypeInv'
  <2>1. \A u \in Senders : tcp'[u] = IF u = s THEN <<>> ELSE tcp[u]
    BY <1>9, <1>ty DEF SenderStops, Bytes
  <2>2. Len(<<>>) = 0 /\ <<>> \in Seq(Nat)
    OBVIOUS
  <2>3. RelayTypeOK'
    BY <2>1, <2>2, <1>9, <1>ty, <1>len DEF SenderStops, RelayTypeOK
  <2>4. LinkTypeOK' /\ Bytes'
    BY <2>2, <1>9, <1>2, <1>ty DEF SenderStops, LinkTypeOK, Bytes, linkVars
  <2>. QED BY <2>3, <2>4, <1>3
<1>10. ASSUME NEW s \in Senders, ReadChunk(s) PROVE TypeInv'
  <2>1. PICK size \in ReadSizes :
          LET n == IF size < Len(tcp[s]) THEN size ELSE Len(tcp[s]) IN
          /\ Broadcast(SubSeq(tcp[s], 1, n))
          /\ tcp' = [tcp EXCEPT ![s] = SubSeq(@, n + 1, Len(@))]
          /\ sent' = IF Subscribed THEN sent \o SubSeq(tcp[s], 1, n) ELSE sent
    BY <1>10 DEF ReadChunk
  <2>. DEFINE n == IF size < Len(tcp[s]) THEN size ELSE Len(tcp[s])
              chunk == SubSeq(tcp[s], 1, n)
              left == SubSeq(tcp[s], n + 1, Len(tcp[s]))
  <2>2. n \in Nat /\ n <= Len(tcp[s]) /\ tcp[s] \in Seq(Nat)
    BY <1>len, <1>ty, RelayAssumption DEF Bytes
  <2>. HIDE DEF n
  <2>3. chunk \in Seq(Nat) /\ left \in Seq(Nat) /\ Len(left) <= Len(tcp[s])
    <3>1. \A i \in 1..Len(tcp[s]) : tcp[s][i] \in Nat
      BY <2>2, ElementOfSeq
    <3>2. \A i \in 1..n : i \in 1..Len(tcp[s])
      BY <2>2, <1>len
    <3>3. chunk \in Seq(Nat)
      BY <2>2, <3>1, <3>2, SubSeqProperties
    <3>4. \A i \in n + 1 .. Len(tcp[s]) : i \in 1..Len(tcp[s])
      BY <2>2, <1>len
    <3>5. /\ left \in Seq(Nat)
          /\ Len(left) = IF n + 1 <= Len(tcp[s]) THEN Len(tcp[s]) - (n + 1) + 1 ELSE 0
      BY <2>2, <3>1, <3>4, <1>len, SubSeqProperties
    <3>. QED BY <2>2, <3>3, <3>5, <1>len
  <2>4. /\ Broadcast(chunk) /\ tcp' = [tcp EXCEPT ![s] = left]
        /\ sent' = IF Subscribed THEN sent \o chunk ELSE sent
    BY <2>1 DEF n
  <2>5. UNCHANGED <<relay, turn, connected, linkVars>>
    BY <1>10 DEF ReadChunk
  <2>. HIDE DEF chunk, left
  <2>6. ring' \in Seq(Seq(Nat)) /\ Len(ring') <= Capacity /\ lagged' \in BOOLEAN
    <3>1. /\ ring \in Seq(Seq(Nat)) /\ Len(ring) <= Capacity /\ lagged \in BOOLEAN
          /\ Capacity \in Nat \ {0} /\ Len(ring) \in Nat
      BY <1>ty, RelayAssumption, LenProperties DEF Bytes, RelayTypeOK
    <3>0. CASE ~Subscribed
      BY <3>0, <3>1, <2>4 DEF Broadcast
    <3>2. CASE Subscribed /\ Len(ring) = Capacity
      <4>1. ring # <<>>
        BY <3>1, <3>2
      <4>2. Tail(ring) \in Seq(Seq(Nat)) /\ Len(Tail(ring)) = Len(ring) - 1
        BY <3>1, <4>1, Queues
      <4>3. ring' = Append(Tail(ring), chunk) /\ lagged'
        BY <2>4, <3>2 DEF Broadcast
      <4>4. ring' \in Seq(Seq(Nat)) /\ Len(ring') = Len(Tail(ring)) + 1
        BY <4>2, <4>3, <2>3, Queues
      <4>. QED BY <4>2, <4>3, <4>4, <3>1, <2>4, <3>2 DEF Broadcast
    <3>3. CASE Subscribed /\ Len(ring) # Capacity
      <4>1. ring' = Append(ring, chunk) /\ UNCHANGED lagged
        BY <2>4, <3>3 DEF Broadcast
      <4>2. ring' \in Seq(Seq(Nat)) /\ Len(ring') = Len(ring) + 1
        BY <4>1, <3>1, <2>3, Queues
      <4>. QED BY <4>1, <4>2, <3>1, <3>3
    <3>. QED BY <3>0, <3>2, <3>3
  <2>7. \A u \in Senders : tcp'[u] = IF u = s THEN left ELSE tcp[u]
    BY <2>4, <1>ty DEF Bytes
  <2>8. \A u \in Senders : Len(tcp'[u]) <= Len(StreamOf[u])
    <3>1. Len(left) \in Nat
      BY <2>3, LenProperties
    <3>. SUFFICES ASSUME NEW u \in Senders PROVE Len(tcp'[u]) <= Len(StreamOf[u])
      OBVIOUS
    <3>2. CASE u = s
      <4>1. tcp'[u] = left
        BY <3>2, <2>7
      <4>2. Len(tcp[s]) <= Len(StreamOf[s])
        BY <1>ty DEF RelayTypeOK
      <4>. QED BY <3>1, <3>2, <4>1, <4>2, <2>3, <1>len
    <3>3. CASE u # s
      <4>1. tcp'[u] = tcp[u]
        BY <3>3, <2>7
      <4>. QED BY <4>1, <1>ty DEF RelayTypeOK
    <3>. QED BY <3>2, <3>3
  <2>9. RelayTypeOK'
    BY <2>5, <2>6, <2>8, <1>ty DEF RelayTypeOK
  <2>10. LinkTypeOK'
    BY <2>5, <1>ty DEF LinkTypeOK, linkVars
  <2>11. Bytes'
    BY <2>3, <2>4, <2>5, <2>6, <1>2, <1>ty, ConcatProperties DEF Bytes, linkVars
  <2>. QED BY <2>9, <2>10, <2>11, <1>3
<1>11. CASE ForwardChunk
  <2>1. /\ ring # <<>> /\ Len(wire[turn]) < WireSize /\ link[turn] = "upgraded"
        /\ wire' = [wire EXCEPT ![turn] = Append(wire[turn], Head(ring))]
        /\ ring' = Tail(ring)
        /\ UNCHANGED <<relay, turn, connected, tcp, lagged, sent, link, hung, peer, server>>
    BY <1>11 DEF ForwardChunk
  <2>2. /\ Len(ring) \in Nat /\ Head(ring) \in Seq(Nat)
        /\ Tail(ring) \in Seq(Seq(Nat)) /\ Len(Tail(ring)) = Len(ring) - 1
    BY <2>1, <1>ty, Queues DEF Bytes
  <2>3. \A r \in Relays : /\ Append(wire[r], Head(ring)) \in Seq(Seq(Nat)) /\ Len(wire[r]) \in Nat
                          /\ Len(Append(wire[r], Head(ring))) = Len(wire[r]) + 1
    BY <2>2, <1>ty, Queues DEF Bytes
  <2>4. \A r \in Relays : wire'[r] = IF r = turn THEN Append(wire[r], Head(ring)) ELSE wire[r]
    BY <2>1, <1>ty DEF Bytes
  <2>5. RelayTypeOK'
    BY <2>1, <2>2, <1>ty, RelayAssumption DEF RelayTypeOK
  <2>6. LinkTypeOK'
    BY <2>1, <2>3, <2>4, <1>ty, LinkAssumption DEF LinkTypeOK
  <2>7. wire' \in [Relays -> Seq(Seq(Nat))]
    BY <2>1, <2>3, <2>4, <1>ty DEF Bytes
  <2>8. Bytes'
    BY <2>1, <2>2, <2>7, <1>2, <1>ty DEF Bytes
  <2>. QED BY <2>5, <2>6, <2>8, <1>3
<1>. QED BY <1>4, <1>5, <1>6, <1>7, <1>8, <1>9, <1>10, <1>11 DEF RelayNext, RelayTasks

\* The main thread of the app keeps the types.
LEMMA MainTypes ==
  ASSUME TypeInv, MainStep, UNCHANGED relayVars
  PROVE  TypeInv'
<1>ty. RelayTypeOK /\ LinkTypeOK /\ ReceiverTypeOK /\ Bytes
  BY DEF TypeInv, TypeOK
<1>1. UNCHANGED <<relay, turn, connected, tcp, ring, lagged, sent>>
  BY DEF relayVars
<1>2. RelayTypeOK'
  BY <1>1, <1>ty DEF RelayTypeOK
<1>3. ASSUME LinkTypeOK', ReceiverTypeOK', UNCHANGED taken, wire' \in [Relays -> Seq(Seq(Nat))]
      PROVE  TypeInv'
  BY <1>1, <1>2, <1>3, <1>ty DEF TypeInv, TypeOK, Bytes
<1>wire. wire \in [Relays -> Seq(Seq(Nat))]
  BY <1>ty DEF Bytes
<1>4. CASE StartPipeline
  <2>1. LinkTypeOK'
    BY <1>4, <1>ty DEF StartPipeline, LinkTypeOK, linkVars
  <2>2. ReceiverTypeOK'
    BY <1>4, <1>ty DEF StartPipeline, ReceiverTypeOK, Steps
  <2>. QED BY <2>1, <2>2, <1>3, <1>4, <1>wire DEF StartPipeline, linkVars
<1>5. CASE Advertise
  BY <1>3, <1>5, <1>wire, <1>ty DEF Advertise, LinkTypeOK, ReceiverTypeOK, linkVars, threadVars
<1>6. CASE StopBegins
  BY <1>3, <1>6, <1>wire, <1>ty DEF StopBegins, LinkTypeOK, ReceiverTypeOK, linkVars
<1>7. CASE CloseSockets
  <2>. DEFINE c == client[started]
              listens == server[started] = "listening"
  <2>1. /\ server' = IF listens THEN [server EXCEPT ![started] = "closed"] ELSE server
        /\ link' = [r \in Relays |->
             IF r = c \/ (listens /\ peer[r] = started /\ link[r] = "queued")
               THEN "closed" ELSE link[r]]
        /\ wire' = [r \in Relays |-> IF r = c THEN <<>> ELSE wire[r]]
        /\ main' = "joining"
        /\ UNCHANGED <<hung, peer, started, decoder, outlived, threadVars>>
    BY <1>7 DEF CloseSockets
  <2>. HIDE DEF c, listens
  <2>2. Len(<<>>) = 0 /\ <<>> \in Seq(Seq(Nat))
    OBVIOUS
  <2>3. \A r \in Relays : Len(wire'[r]) <= WireSize
    BY <2>1, <2>2, <1>ty, LinkAssumption DEF LinkTypeOK
  <2>4. LinkTypeOK'
    BY <2>1, <2>3, <1>ty DEF LinkTypeOK, LinkStates
  <2>5. ReceiverTypeOK'
    BY <2>1, <1>ty DEF ReceiverTypeOK, threadVars
  <2>6. wire' \in [Relays -> Seq(Seq(Nat))]
    BY <2>1, <2>2, <1>wire
  <2>. QED BY <2>1, <2>4, <2>5, <2>6, <1>3 DEF threadVars
<1>8. CASE Join
  BY <1>3, <1>8, <1>wire, <1>ty DEF Join, LinkTypeOK, ReceiverTypeOK, linkVars, threadVars
<1>. QED BY <1>4, <1>5, <1>6, <1>7, <1>8 DEF MainStep, Closing

\* The threads of the pipelines keep the types.
LEMMA ThreadTypes ==
  ASSUME TypeInv, NEW p \in Pipelines, ThreadStep(p), UNCHANGED relayVars,
         thread[p] = "read" => serving[p] # 0
  PROVE  TypeInv'
<1>ty. RelayTypeOK /\ LinkTypeOK /\ ReceiverTypeOK /\ Bytes
  BY DEF TypeInv, TypeOK
<1>1. UNCHANGED <<relay, turn, connected, tcp, ring, lagged, sent>>
  BY DEF relayVars
<1>2. RelayTypeOK'
  BY <1>1, <1>ty DEF RelayTypeOK
<1>3. /\ thread' \in [Pipelines -> Steps]
      /\ strayed' = strayed \/ Strays(p)
      /\ UNCHANGED <<main, started, decoder, outlived>>
  BY ThreadMoves, <1>ty DEF ReceiverTypeOK, mainVars
<1>b. strayed' \in BOOLEAN
  BY <1>3, <1>ty DEF ReceiverTypeOK, Strays
<1>4. ASSUME LinkTypeOK', wire' \in [Relays -> Seq(Seq(Nat))], taken' \in [Pipelines -> Seq(Nat)],
             running' \in [Pipelines -> BOOLEAN], client' \in [Pipelines -> Relays \cup {0}],
             serving' \in [Pipelines -> Relays \cup {0}]
      PROVE  TypeInv'
  <2>1. ReceiverTypeOK'
    BY <1>3, <1>b, <1>4, <1>ty DEF ReceiverTypeOK
  <2>. QED BY <1>1, <1>2, <1>4, <2>1, <1>ty DEF TypeInv, TypeOK, Bytes
<1>5. /\ wire \in [Relays -> Seq(Seq(Nat))] /\ taken \in [Pipelines -> Seq(Nat)]
      /\ running \in [Pipelines -> BOOLEAN] /\ client \in [Pipelines -> Relays \cup {0}]
      /\ serving \in [Pipelines -> Relays \cup {0}]
  BY <1>ty DEF Bytes, ReceiverTypeOK
<1>6. UNCHANGED linkVars => LinkTypeOK' /\ UNCHANGED wire
  BY <1>ty DEF LinkTypeOK, linkVars
<1>7. CASE Bind(p)
  BY <1>4, <1>5, <1>7, <1>ty DEF Bind, LinkTypeOK, streamVars
<1>8. CASE BindFails(p)
  BY <1>4, <1>5, <1>6, <1>8 DEF BindFails, streamVars
<1>9. CASE LoopEnds(p)
  <2>1. LinkTypeOK' /\ UNCHANGED wire
    <3>1. CASE CloseListening(p)
      BY <3>1, <1>ty DEF CloseListening, LinkTypeOK, LinkStates
    <3>. QED BY <3>1, <1>6, <1>9 DEF LoopEnds
  <2>. QED BY <2>1, <1>4, <1>5, <1>9 DEF LoopEnds, streamVars
<1>10. CASE Accept(p)
  <2>1. LinkTypeOK'
    BY <1>10, <1>ty DEF Accept, LinkTypeOK, LinkStates
  <2>. QED BY <2>1, <1>4, <1>5, <1>10 DEF Accept, streamVars
<1>11. CASE SetClient(p)
  BY <1>4, <1>5, <1>6, <1>11 DEF SetClient, streamVars
<1>12. CASE Handshake(p)
  <2>1. LinkTypeOK'
    BY <1>12, <1>ty DEF Handshake, LinkTypeOK, LinkStates
  <2>. QED BY <2>1, <1>4, <1>5, <1>12 DEF Handshake, streamVars
<1>13. CASE HandshakeFails(p)
  BY <1>4, <1>5, <1>6, <1>13 DEF HandshakeFails, streamVars
<1>14. CASE NewConnection(p)
  BY <1>4, <1>5, <1>6, <1>14 DEF NewConnection
<1>15. CASE Check(p)
  BY <1>4, <1>5, <1>6, <1>15 DEF Check, streamVars
<1>16. CASE ReadFrame(p)
  <2>1. /\ wire[serving[p]] # <<>> /\ thread[p] = "read"
        /\ taken' = [taken EXCEPT ![p] = taken[p] \o Head(wire[serving[p]])]
        /\ wire' = [wire EXCEPT ![serving[p]] = Tail(wire[serving[p]])]
        /\ UNCHANGED <<link, hung, peer, server, running, client, serving>>
    BY <1>16 DEF ReadFrame
  <2>5. serving[p] \in Relays
    BY <2>1, <1>5
  <2>2. wire' \in [Relays -> Seq(Seq(Nat))] /\ \A r \in Relays : Len(wire'[r]) <= WireSize
    <3>1. /\ Tail(wire[serving[p]]) \in Seq(Seq(Nat)) /\ Len(wire[serving[p]]) \in Nat
          /\ Len(Tail(wire[serving[p]])) = Len(wire[serving[p]]) - 1
      BY <2>1, <2>5, <1>5, Queues
    <3>2. \A r \in Relays : wire'[r] = IF r = serving[p] THEN Tail(wire[r]) ELSE wire[r]
      BY <2>1, <1>5
    <3>3. \A r \in Relays : Len(wire[r]) <= WireSize
      BY <1>ty DEF LinkTypeOK
    <3>4. \A r \in Relays : Len(wire'[r]) <= WireSize
      <4>1. Len(Tail(wire[serving[p]])) <= WireSize
        BY <3>1, <3>3, <2>5, LinkAssumption
      <4>. QED BY <3>2, <3>3, <4>1
    <3>. QED BY <2>1, <3>1, <3>4, <1>5
  <2>3. LinkTypeOK'
    BY <2>1, <2>2, <1>ty DEF LinkTypeOK
  <2>4. taken[p] \o Head(wire[serving[p]]) \in Seq(Nat)
    BY <2>1, <2>5, <1>5, Queues, ConcatProperties
  <2>. QED BY <2>1, <2>2, <2>3, <2>4, <1>4, <1>5
<1>17. CASE Deliver(p)
  BY <1>4, <1>5, <1>6, <1>17 DEF Deliver
<1>18. CASE CloseConnection(p)
  <2>1. /\ CloseByApp(serving[p])
        /\ client' = [client EXCEPT ![p] = 0] /\ serving' = [serving EXCEPT ![p] = 0]
        /\ taken' = [taken EXCEPT ![p] = <<>>] /\ UNCHANGED running
    BY <1>18 DEF CloseConnection, Leave
  <2>2. Len(<<>>) = 0 /\ <<>> \in Seq(Seq(Nat)) /\ <<>> \in Seq(Nat)
    OBVIOUS
  <2>3. wire' = [wire EXCEPT ![serving[p]] = <<>>] /\ link' = [link EXCEPT ![serving[p]] = "closed"]
        /\ UNCHANGED <<hung, peer, server>>
    BY <2>1 DEF CloseByApp
  <2>4. \A r \in Relays : Len(wire'[r]) <= WireSize
    BY <2>2, <2>3, <1>5, <1>ty, LinkAssumption DEF LinkTypeOK
  <2>5. LinkTypeOK'
    BY <2>3, <2>4, <1>ty DEF LinkTypeOK, LinkStates
  <2>. QED BY <2>1, <2>2, <2>3, <2>5, <1>4, <1>5
<1>. QED BY <1>7, <1>8, <1>9, <1>10, <1>11, <1>12, <1>13, <1>14, <1>15, <1>16, <1>17, <1>18
     DEF ThreadStep

\* handleConnection after the handshake.
Inside == {"greet", "check", "read", "deliver"}

\* The thread of p and the connection it is about: nobody else's, answered once
\* the handshake is over, and read from its beginning.
Serves(p) ==
  /\ serving[p] # 0 =>
       /\ peer[serving[p]] = p
       /\ link[serving[p]] \in {"served", "upgraded", "closed"}
  /\ thread[p] \in {"accepted", "handshake"} => serving[p] # 0 /\ link[serving[p]] # "upgraded"
  /\ thread[p] \in Inside => serving[p] # 0 /\ link[serving[p]] \in {"upgraded", "closed"}
  /\ thread[p] \notin Inside \cup {"accepted", "handshake"} => serving[p] = 0
  /\ thread[p] \notin {"check", "read", "deliver"} => taken[p] = <<>>
  /\ client[p] \in {0, serving[p]}

\* Frames are only on the way of a connection that is open.
Carries(r) ==
  /\ r > turn => link[r] = "none"
  /\ link[r] # "upgraded" => wire[r] = <<>>

LinkInv ==
  /\ \A r \in Relays : Carries(r)
  /\ \A p \in Pipelines : Serves(p)
  /\ main # "idle" => started # 0
  /\ Up => turn # 0
  /\ ~Up => ring = <<>> /\ sent = <<>> /\ ~lagged

\* 0 stands for no relay.
LEMMA RelaysAreNumbers == Relays \subseteq Nat \ {0}
<1>1. \E n \in Nat : Relays = 1..n
  BY LinkAssumption
<1>. QED BY <1>1

LEMMA LinksInitially == Init => LinkInv
  BY DEF Init, RelayInit, LinkInit, ReceiverInit, LinkInv, Carries, Serves, Up, Inside

\* The relay connects, answers and leaves: a connection is its own.
LEMMA RelayLinks ==
  ASSUME TypeInv, LinkInv, RelayNext, UNCHANGED receiverVars
  PROVE  LinkInv'
<1>ty. /\ link \in [Relays -> LinkStates] /\ peer \in [Relays -> Pipelines \cup {0}]
       /\ wire \in [Relays -> Seq(Seq(Nat))]
       /\ turn \in Relays \cup {0} /\ turn \in Nat
       /\ serving \in [Pipelines -> Relays \cup {0}] /\ thread \in [Pipelines -> Steps]
       /\ relay \in {"down", "starting", "connecting", "forwarding"}
  BY RelaysAreNumbers DEF TypeInv, TypeOK, RelayTypeOK, LinkTypeOK, ReceiverTypeOK, Bytes
<1>1. UNCHANGED <<serving, thread, taken, client, main, started>>
  BY DEF receiverVars, threadVars
<1>2. /\ \A r \in Relays : Carries(r)
      /\ \A p \in Pipelines : Serves(p)
      /\ main # "idle" => started # 0
      /\ Up => turn # 0
      /\ ~Up => ring = <<>> /\ sent = <<>> /\ ~lagged
  BY DEF LinkInv
<1>3. CASE StartRelay
  <2>1. /\ turn' = turn + 1 /\ relay' = "starting" /\ turn + 1 \in Relays
        /\ UNCHANGED <<ring, sent, lagged, link, peer, wire>>
    BY <1>3 DEF StartRelay, linkVars
  <2>2. \A r \in Relays : Carries(r)'
    BY <2>1, <1>2, <1>ty, RelaysAreNumbers DEF Carries
  <2>3. \A p \in Pipelines : Serves(p)'
    BY <2>1, <1>1, <1>2 DEF Serves
  <2>. QED BY <2>1, <2>2, <2>3, <1>1, <1>2, RelaysAreNumbers DEF LinkInv, Up
<1>4. CASE Connect
  <2>1. PICK q \in Pipelines : peer' = [peer EXCEPT ![turn] = q]
    BY <1>4 DEF Connect, Listening
  <2>2. /\ link' = [link EXCEPT ![turn] = "queued"] /\ link[turn] = "none" /\ relay = "connecting"
        /\ UNCHANGED <<wire, relay, turn, ring, sent, lagged>>
    BY <1>4 DEF Connect, relayVars
  <2>3. turn \in Relays
    BY <2>2, <1>2, <1>ty DEF Up
  <2>4. \A r \in Relays : Carries(r)'
    BY <2>2, <2>3, <1>2, <1>ty, RelaysAreNumbers DEF Carries
  <2>5. \A p \in Pipelines : Serves(p)'
    <3>. SUFFICES ASSUME NEW p \in Pipelines PROVE Serves(p)'
      OBVIOUS
    <3>1. serving[p] # turn
      BY <2>2, <2>3, <1>2, RelaysAreNumbers DEF Serves
    <3>2. serving[p] # 0 => link'[serving[p]] = link[serving[p]] /\ peer'[serving[p]] = peer[serving[p]]
      BY <3>1, <2>1, <2>2, <1>ty
    <3>3. Serves(p)
      BY <1>2
    <3>. QED BY <3>2, <3>3, <1>1 DEF Serves, Inside
  <2>. QED BY <2>2, <2>4, <2>5, <1>1, <1>2 DEF LinkInv, Up
<1>5. CASE Subscribe \/ Connected
  <2>1. Up /\ Up' /\ UNCHANGED <<turn, ring, sent, lagged, link, peer, wire>>
    BY <1>5 DEF Subscribe, Connected, linkVars, Up
  <2>. QED BY <2>1, <1>1, <1>2 DEF LinkInv, Up, Carries, Serves
<1>6. CASE TaskEnds \/ RelayDies
  <2>1. /\ relay' = "down" /\ ring' = <<>> /\ sent' = <<>> /\ lagged' = FALSE
        /\ UNCHANGED <<turn, link, peer, wire>>
    BY <1>6 DEF TaskEnds, RelayDies, End
  <2>. QED BY <2>1, <1>1, <1>2 DEF LinkInv, Up, Carries, Serves
<1>7. ASSUME NEW s \in Senders, SenderConnects(s) PROVE LinkInv'
  <2>1. UNCHANGED <<relay, turn, ring, sent, lagged, link, peer, wire>>
    BY <1>7 DEF SenderConnects, linkVars
  <2>. QED BY <2>1, <1>1, <1>2 DEF LinkInv, Up, Carries, Serves
<1>8. ASSUME NEW s \in Senders, SenderStops(s) PROVE LinkInv'
  <2>1. UNCHANGED <<relay, turn, ring, sent, lagged, link, peer, wire>>
    BY <1>8 DEF SenderStops, linkVars
  <2>. QED BY <2>1, <1>1, <1>2 DEF LinkInv, Up, Carries, Serves
<1>9. ASSUME NEW s \in Senders, ReadChunk(s) PROVE LinkInv'
  <2>1. Up /\ UNCHANGED <<relay, turn, link, peer, wire>>
    BY <1>9 DEF ReadChunk, linkVars
  <2>. QED BY <2>1, <1>1, <1>2 DEF LinkInv, Up, Carries, Serves
<1>10. CASE ForwardChunk
  <2>1. /\ relay = "forwarding" /\ link[turn] = "upgraded"
        /\ wire' = [wire EXCEPT ![turn] = Append(wire[turn], Head(ring))]
        /\ UNCHANGED <<relay, turn, sent, lagged, link, peer>>
    BY <1>10 DEF ForwardChunk
  <2>2. \A r \in Relays : r # turn => wire'[r] = wire[r]
    BY <2>1, <1>ty
  <2>3. \A r \in Relays : Carries(r)'
    BY <2>1, <2>2, <1>2 DEF Carries
  <2>4. \A p \in Pipelines : Serves(p)'
    BY <2>1, <1>1, <1>2 DEF Serves
  <2>. QED BY <2>1, <2>3, <2>4, <1>1, <1>2 DEF LinkInv, Up
<1>. QED BY <1>3, <1>4, <1>5, <1>6, <1>7, <1>8, <1>9, <1>10 DEF RelayNext, RelayTasks

\* What the steps of the app leave of the relay's half.
LEMMA AppLinks ==
  ASSUME LinkInv, UNCHANGED relayVars,
         \A r \in Relays : Carries(r)', \A p \in Pipelines : Serves(p)',
         main' # "idle" => started' # 0
  PROVE  LinkInv'
<1>1. UNCHANGED <<relay, turn, ring, sent, lagged>>
  BY DEF relayVars
<1>. QED BY <1>1 DEF LinkInv, Up

\* A socket that is closed loses the connections in its backlog.
LEMMA MainLinks ==
  ASSUME TypeInv, LinkInv, IsolationInv, MainStep, UNCHANGED relayVars
  PROVE  LinkInv'
<1>ty. /\ link \in [Relays -> LinkStates] /\ peer \in [Relays -> Pipelines \cup {0}]
       /\ wire \in [Relays -> Seq(Seq(Nat))]
       /\ serving \in [Pipelines -> Relays \cup {0}] /\ thread \in [Pipelines -> Steps]
  BY DEF TypeInv, TypeOK, LinkTypeOK, ReceiverTypeOK, Bytes
<1>1. UNCHANGED <<relay, turn, ring, sent, lagged>>
  BY DEF relayVars
<1>2. /\ \A r \in Relays : Carries(r)
      /\ \A p \in Pipelines : Serves(p)
      /\ main # "idle" => started # 0
  BY DEF LinkInv
<1>3. CASE StartPipeline
  <2>1. /\ thread' = [thread EXCEPT ![started + 1] = "bind"] /\ started + 1 \in Pipelines
        /\ started' = started + 1
        /\ UNCHANGED <<link, peer, wire, serving, taken, client>>
    BY <1>3 DEF StartPipeline, linkVars
  <2>2. thread[started + 1] = "none"
    BY <2>1, PipelinesAreNumbers DEF IsolationInv, ThreadInv, DecoderInv
  <2>3. \A p \in Pipelines : Serves(p)'
    BY <2>1, <2>2, <1>2, <1>ty DEF Serves, Inside
  <2>4. \A r \in Relays : Carries(r)'
    BY <2>1, <1>1, <1>2 DEF Carries
  <2>. QED BY <2>1, <2>3, <2>4, AppLinks, PipelinesAreNumbers
<1>4. CASE Advertise \/ StopBegins \/ Join
  <2>1. UNCHANGED <<link, peer, wire, serving, taken, thread, client, started>> /\ main # "idle"
    BY <1>4 DEF Advertise, StopBegins, Join, linkVars, threadVars
  <2>2. \A p \in Pipelines : Serves(p)'
    BY <2>1, <1>2 DEF Serves
  <2>3. \A r \in Relays : Carries(r)'
    BY <2>1, <1>1, <1>2 DEF Carries
  <2>. QED BY <2>1, <2>2, <2>3, <1>2, AppLinks
<1>5. CASE CloseSockets
  <2>. DEFINE c == client[started]
              reset(r) == server[started] = "listening" /\ peer[r] = started /\ link[r] = "queued"
  <2>1. /\ link' = [r \in Relays |-> IF r = c \/ reset(r) THEN "closed" ELSE link[r]]
        /\ wire' = [r \in Relays |-> IF r = c THEN <<>> ELSE wire[r]]
        /\ main # "idle" /\ UNCHANGED <<peer, serving, taken, thread, client, started>>
    BY <1>5 DEF CloseSockets, threadVars
  <2>2. \A r \in Relays : reset(r) => link[r] = "queued"
    OBVIOUS
  <2>3. c \in Relays => link[c] # "none"
    <3>1. started \in Pipelines
      BY <2>1, <1>2 DEF IsolationInv, DecoderInv
    <3>2. c # 0 => c = serving[started] /\ link[serving[started]] # "none"
      BY <3>1, <1>2 DEF Serves
    <3>. QED BY <3>2, RelaysAreNumbers
  <2>. HIDE DEF c, reset
  <2>4. \A r \in Relays : /\ link'[r] \in {link[r], "closed"}
                          /\ link'[r] # link[r] => link[r] # "none"
    BY <2>1, <2>2, <2>3
  <2>5. \A r \in Relays : Carries(r)'
    <3>. SUFFICES ASSUME NEW r \in Relays PROVE Carries(r)'
      OBVIOUS
    <3>1. wire'[r] = IF r = c THEN <<>> ELSE wire[r]
      BY <2>1
    <3>2. link'[r] = IF r = c \/ reset(r) THEN "closed" ELSE link[r]
      BY <2>1
    <3>3. Carries(r)
      BY <1>2
    <3>. QED BY <3>1, <3>2, <3>3, <2>2, <2>3, <1>1 DEF Carries
  <2>6. \A p \in Pipelines : Serves(p)'
    <3>. SUFFICES ASSUME NEW p \in Pipelines PROVE Serves(p)'
      OBVIOUS
    <3>1. serving[p] # 0 => link'[serving[p]] \in {link[serving[p]], "closed"}
      BY <2>4, <1>ty
    <3>2. Serves(p)
      BY <1>2
    <3>. QED BY <3>1, <3>2, <2>1 DEF Serves
  <2>. QED BY <2>1, <2>5, <2>6, <1>2, AppLinks
<1>. QED BY <1>3, <1>4, <1>5 DEF MainStep, Closing

\* A thread takes a connection nobody else has.
LEMMA ThreadLinks ==
  ASSUME TypeInv, LinkInv, NEW p \in Pipelines, ThreadStep(p), UNCHANGED relayVars
  PROVE  LinkInv'
<1>ty. /\ link \in [Relays -> LinkStates] /\ peer \in [Relays -> Pipelines \cup {0}]
       /\ wire \in [Relays -> Seq(Seq(Nat))]
       /\ serving \in [Pipelines -> Relays \cup {0}] /\ thread \in [Pipelines -> Steps]
       /\ client \in [Pipelines -> Relays \cup {0}] /\ taken \in [Pipelines -> Seq(Nat)]
  BY DEF TypeInv, TypeOK, LinkTypeOK, ReceiverTypeOK, Bytes
<1>1. UNCHANGED <<relay, turn, ring, sent, lagged>>
  BY DEF relayVars
<1>2. /\ \A r \in Relays : Carries(r)
      /\ \A q \in Pipelines : Serves(q)
      /\ main # "idle" => started # 0
  BY DEF LinkInv
<1>3. /\ \A q \in Pipelines \ {p} : thread'[q] = thread[q]
      /\ UNCHANGED <<main, started>>
  BY <1>ty, ThreadMoves DEF mainVars
<1>4. ASSUME UNCHANGED peer, \A r \in Relays : Carries(r)', Serves(p)',
             \A r \in Relays : link'[r] # link[r] => peer[r] = p \/ link[r] = "queued",
             \A q \in Pipelines \ {p} :
               serving'[q] = serving[q] /\ client'[q] = client[q] /\ taken'[q] = taken[q]
      PROVE  LinkInv'
  <2>1. ASSUME NEW q \in Pipelines \ {p} PROVE Serves(q)'
    <3>1. Serves(q)
      BY <1>2
    <3>2. serving[q] \in Relays \cup {0}
      BY <1>ty
    <3>3. serving[q] # 0 => peer[serving[q]] = q /\ link[serving[q]] # "queued" /\ serving[q] \in Relays
      BY <3>1, <3>2 DEF Serves
    <3>4. serving[q] # 0 => link'[serving[q]] = link[serving[q]]
      BY <3>3, <1>4
    <3>. QED BY <3>1, <3>4, <1>3, <1>4 DEF Serves
  <2>. QED BY <2>1, <1>2, <1>3, <1>4, AppLinks
<1>5. UNCHANGED <<link, wire>> => \A r \in Relays : Carries(r)'
  BY <1>1, <1>2 DEF Carries
<1>6. Serves(p)
  BY <1>2
<1>7. CASE Bind(p) \/ BindFails(p) \/ Check(p) \/ Deliver(p)
  <2>1. UNCHANGED <<link, wire, peer, serving, client, taken>>
    BY <1>7 DEF Bind, BindFails, Check, Deliver, streamVars, linkVars
  <2>2. \/ thread[p] = "bind" /\ thread'[p] \in {"accept", "exit", "over"}
        \/ thread[p] \in {"check", "read", "deliver"} /\ thread'[p] \in {"check", "read", "deliver"}
    BY <1>7, <1>ty DEF Bind, BindFails, Check, Deliver, Goto, NextConnection
  <2>3. Serves(p)'
    BY <2>1, <2>2, <1>6 DEF Serves, Inside
  <2>. QED BY <2>1, <2>3, <1>4, <1>5
<1>8. CASE LoopEnds(p)
  <2>1. /\ UNCHANGED <<serving, client, taken>>
        /\ thread[p] \in {"exit", "accept"} /\ thread'[p] = "over"
    BY <1>8, <1>ty DEF LoopEnds, Goto, streamVars
  <2>2. /\ UNCHANGED <<peer, wire>>
        /\ \A r \in Relays : link'[r] # link[r] => link[r] = "queued" /\ link'[r] = "closed"
    BY <1>8, <1>ty DEF LoopEnds, CloseListening, linkVars
  <2>3. \A r \in Relays : Carries(r)'
    BY <2>2, <1>1, <1>2 DEF Carries
  <2>4. Serves(p)'
    BY <2>1, <1>6 DEF Serves, Inside
  <2>. QED BY <2>1, <2>2, <2>3, <2>4, <1>4
<1>9. CASE Accept(p)
  <2>1. PICK r \in Relays : /\ peer[r] = p /\ link[r] = "queued"
                            /\ link' = [link EXCEPT ![r] = "served"]
                            /\ serving' = [serving EXCEPT ![p] = r]
    BY <1>9 DEF Accept
  <2>2. UNCHANGED <<wire, peer, client, taken>> /\ thread[p] = "accept" /\ thread'[p] = "accepted"
    BY <1>9, <1>ty DEF Accept, Goto, streamVars
  <2>3. \A s \in Relays : link'[s] = IF s = r THEN "served" ELSE link[s]
    BY <2>1, <1>ty
  <2>4. \A s \in Relays : Carries(s)'
    BY <2>1, <2>2, <2>3, <1>1, <1>2 DEF Carries
  <2>5. Serves(p)'
    <3>1. serving'[p] = r /\ \A q \in Pipelines \ {p} : serving'[q] = serving[q]
      BY <2>1, <1>ty
    <3>. QED BY <3>1, <2>1, <2>2, <2>3, <1>6, RelaysAreNumbers DEF Serves, Inside
  <2>. QED BY <2>1, <2>2, <2>3, <2>4, <2>5, <1>4
<1>10. CASE SetClient(p)
  <2>1. /\ client' = [client EXCEPT ![p] = serving[p]]
        /\ UNCHANGED <<link, wire, peer, serving, taken>>
        /\ thread[p] = "accepted" /\ thread'[p] = "handshake"
    BY <1>10, <1>ty DEF SetClient, Goto, streamVars, linkVars
  <2>2. Serves(p)'
    BY <2>1, <1>6, <1>ty DEF Serves, Inside
  <2>. QED BY <2>1, <2>2, <1>4, <1>5
<1>11. CASE Handshake(p)
  <2>1. /\ link' = [link EXCEPT ![serving[p]] = "upgraded"] /\ link[serving[p]] = "served"
        /\ UNCHANGED <<wire, peer, serving, client, taken>>
        /\ thread[p] = "handshake" /\ thread'[p] = "greet"
    BY <1>11, <1>ty DEF Handshake, Goto, streamVars
  <2>2. serving[p] \in Relays /\ peer[serving[p]] = p
    BY <2>1, <1>6, <1>ty DEF Serves
  <2>3. \A r \in Relays : link'[r] = IF r = serving[p] THEN "upgraded" ELSE link[r]
    BY <2>1, <1>ty
  <2>4. \A r \in Relays : Carries(r)'
    BY <2>1, <2>3, <1>1, <1>2 DEF Carries
  <2>5. Serves(p)'
    BY <2>1, <2>2, <2>3, <1>6 DEF Serves, Inside
  <2>. QED BY <2>1, <2>2, <2>3, <2>4, <2>5, <1>4
<1>12. CASE HandshakeFails(p)
  <2>1. /\ client' = [client EXCEPT ![p] = 0] /\ serving' = [serving EXCEPT ![p] = 0]
        /\ UNCHANGED <<link, wire, peer, taken>>
        /\ thread[p] = "handshake" /\ thread'[p] \in {"accept", "exit"}
    BY <1>12, <1>ty DEF HandshakeFails, Goto, NextConnection, streamVars, linkVars
  <2>2. Serves(p)'
    BY <2>1, <1>6, <1>ty DEF Serves, Inside
  <2>. QED BY <2>1, <2>2, <1>4, <1>5, <1>ty
<1>13. CASE NewConnection(p)
  <2>1. /\ UNCHANGED <<link, wire, peer, serving, client, taken>>
        /\ thread[p] = "greet" /\ thread'[p] = "check"
    BY <1>13, <1>ty DEF NewConnection, Goto, linkVars
  <2>2. Serves(p)'
    BY <2>1, <1>6 DEF Serves, Inside
  <2>. QED BY <2>1, <2>2, <1>4, <1>5
<1>14. CASE ReadFrame(p)
  <2>1. /\ thread[p] = "read" /\ link[serving[p]] # "closed"
        /\ taken' = [taken EXCEPT ![p] = taken[p] \o Head(wire[serving[p]])]
        /\ wire' = [wire EXCEPT ![serving[p]] = Tail(wire[serving[p]])]
        /\ UNCHANGED <<link, peer, client, serving>>
    BY <1>14 DEF ReadFrame
  <2>2. thread'[p] \in {"check", "deliver"}
    <3>. DEFINE to == IF Push(pending[p], Head(wire[serving[p]])).nals = <<>> THEN "check" ELSE "deliver"
    <3>1. thread' = [thread EXCEPT ![p] = to]
      BY <1>14 DEF ReadFrame, Goto
    <3>2. to \in {"check", "deliver"}
      OBVIOUS
    <3>. HIDE DEF to
    <3>. QED BY <3>1, <3>2, <1>ty
  <2>3. link[serving[p]] = "upgraded" /\ serving[p] \in Relays
    BY <2>1, <1>6, <1>ty DEF Serves, Inside
  <2>4. \A r \in Relays : r # serving[p] => wire'[r] = wire[r]
    BY <2>1, <1>ty
  <2>5. \A r \in Relays : Carries(r)'
    BY <2>1, <2>3, <2>4, <1>1, <1>2 DEF Carries
  <2>6. Serves(p)'
    BY <2>1, <2>2, <2>3, <1>6 DEF Serves, Inside
  <2>. QED BY <2>1, <2>5, <2>6, <1>4, <1>ty
<1>15. CASE CloseConnection(p)
  <2>1. /\ link' = [link EXCEPT ![serving[p]] = "closed"]
        /\ wire' = [wire EXCEPT ![serving[p]] = <<>>]
        /\ client' = [client EXCEPT ![p] = 0] /\ serving' = [serving EXCEPT ![p] = 0]
        /\ taken' = [taken EXCEPT ![p] = <<>>] /\ UNCHANGED peer
        /\ thread[p] \in {"check", "read"} /\ thread'[p] \in {"accept", "exit"}
    BY <1>15, <1>ty DEF CloseConnection, Leave, CloseByApp, Goto, NextConnection
  <2>2. serving[p] \in Relays /\ peer[serving[p]] = p /\ link[serving[p]] # "none"
    BY <2>1, <1>6, <1>ty DEF Serves, Inside
  <2>3. \A r \in Relays : /\ link'[r] = IF r = serving[p] THEN "closed" ELSE link[r]
                          /\ wire'[r] = IF r = serving[p] THEN <<>> ELSE wire[r]
    BY <2>1, <1>ty
  <2>4. \A r \in Relays : Carries(r)'
    BY <2>2, <2>3, <1>1, <1>2 DEF Carries
  <2>5. Serves(p)'
    BY <2>1, <1>ty DEF Serves, Inside
  <2>. QED BY <2>1, <2>2, <2>3, <2>4, <2>5, <1>4, <1>ty
<1>. QED BY <1>7, <1>8, <1>9, <1>10, <1>11, <1>12, <1>13, <1>14, <1>15 DEF ThreadStep

\* What a relay that has dropped nothing has read is what the app has, then what
\* is on its way and in the channel: all of it as long as the app has not begun.
InTransit == wire[turn] \o ring

FlowInv ==
  Up /\ ~lagged =>
    /\ link[turn] \in {"none", "queued", "served"} => Flows(<<>>, InTransit, sent)
    /\ \A p \in Pipelines : thread[p] \in Inside /\ serving[p] = turn =>
         /\ IsPrefix(taken[p], sent)
         /\ link[turn] = "upgraded" => Flows(taken[p], InTransit, sent)

LEMMA FlowInitially == Init => FlowInv
  BY DEF Init, RelayInit, FlowInv, Up

\* What neither moves a byte nor begins a connection.
LEMMA FlowStays ==
  ASSUME FlowInv, TypeInv, LinkInv,
         UNCHANGED <<turn, ring, sent, lagged>>, Up' => Up,
         Up => link'[turn] = "closed" \/ wire'[turn] = wire[turn],
         Up => link'[turn] \in {link[turn], "closed"}
               \/ (link[turn] \in {"none", "queued", "served"}
                   /\ link'[turn] \in {"none", "queued", "served"}),
         \A p \in Pipelines : Up /\ thread'[p] \in Inside /\ serving'[p] = turn =>
           thread[p] \in Inside /\ serving[p] = turn /\ taken'[p] = taken[p]
  PROVE  FlowInv'
<1>. SUFFICES ASSUME Up', ~lagged'
              PROVE  /\ link'[turn'] \in {"none", "queued", "served"} => Flows(<<>>, InTransit, sent)'
                     /\ \A p \in Pipelines : thread'[p] \in Inside /\ serving'[p] = turn' =>
                          /\ IsPrefix(taken[p], sent)'
                          /\ link'[turn'] = "upgraded" => Flows(taken[p], InTransit, sent)'
  BY DEF FlowInv
<1>1. Up /\ ~lagged /\ turn' = turn /\ ring' = ring /\ sent' = sent
  OBVIOUS
<1>2. link'[turn] # "closed" => InTransit' = InTransit
  BY <1>1 DEF InTransit
<1>3. ASSUME link'[turn] \in {"none", "queued", "served"} PROVE Flows(<<>>, InTransit, sent)'
  <2>1. link[turn] \in {"none", "queued", "served"} /\ InTransit' = InTransit
    BY <1>1, <1>2, <1>3
  <2>2. Flows(<<>>, InTransit, sent)
    BY <1>1, <2>1 DEF FlowInv
  <2>. QED BY <1>1, <2>1, <2>2 DEF Flows
<1>4. ASSUME NEW p \in Pipelines, thread'[p] \in Inside, serving'[p] = turn
      PROVE  /\ IsPrefix(taken[p], sent)'
             /\ link'[turn] = "upgraded" => Flows(taken[p], InTransit, sent)'
  <2>1. thread[p] \in Inside /\ serving[p] = turn /\ taken'[p] = taken[p]
    BY <1>1, <1>4
  <2>2. /\ IsPrefix(taken[p], sent)
        /\ link[turn] = "upgraded" => Flows(taken[p], InTransit, sent)
    BY <1>1, <2>1 DEF FlowInv
  <2>3. IsPrefix(taken[p], sent)'
    BY <1>1, <2>1, <2>2 DEF IsPrefix
  <2>4. ASSUME link'[turn] = "upgraded" PROVE Flows(taken[p], InTransit, sent)'
    <3>1. link[turn] = "upgraded" /\ InTransit' = InTransit
      BY <1>1, <1>2, <2>4
    <3>. QED BY <1>1, <2>1, <2>2, <3>1 DEF Flows
  <2>. QED BY <2>3, <2>4
<1>. QED BY <1>1, <1>3, <1>4

\* An element appended is the last, and no other moves.
LEMMA AppendedLast ==
  ASSUME NEW S, NEW a \in Seq(S), NEW b \in Seq(S), NEW e \in S
  PROVE  a \o Append(b, e) = Append(a \o b, e)
<1>1. <<e>> \in Seq(S) /\ a \o b \in Seq(S)
  BY ConcatProperties
<1>2. Append(b, e) = b \o <<e>> /\ Append(a \o b, e) = (a \o b) \o <<e>>
  BY <1>1, AppendIsConcat
<1>. QED BY <1>1, <1>2, ConcatAssociative

\* A sequence is its head and its tail.
LEMMA HeadFirst ==
  ASSUME NEW S, NEW b \in Seq(S), b # <<>>
  PROVE  b = <<Head(b)>> \o Tail(b)
<1>1. Len(b) \in Nat /\ Len(b) > 0
  BY EmptySeq
<1>2. 1 \in 1..Len(b) /\ Len(b) \in 1..Len(b)
  BY <1>1
<1>3. SubSeq(b, 1, Len(b)) = <<b[1]>> \o SubSeq(b, 1 + 1, Len(b))
  BY <1>2, SubSeqRecursiveFirst
<1>. QED BY <1>3, SubSeqFull, TailIsSubSeq

\* A chunk that goes from the channel to the wire stays where it was.
LEMMA HeadMovesOver ==
  ASSUME NEW S, NEW a \in Seq(S), NEW b \in Seq(S), b # <<>>
  PROVE  Append(a, Head(b)) \o Tail(b) = a \o b
<1>1. Head(b) \in S /\ Tail(b) \in Seq(S) /\ <<Head(b)>> \in Seq(S)
  BY HeadTailProperties
<1>2. Append(a, Head(b)) = a \o <<Head(b)>>
  BY <1>1, AppendIsConcat
<1>3. (a \o <<Head(b)>>) \o Tail(b) = a \o (<<Head(b)>> \o Tail(b))
  BY <1>1, ConcatAssociative
<1>. QED BY <1>2, <1>3, HeadFirst

\* The first element of two sequences is the first of the first of them.
LEMMA TakenFirst ==
  ASSUME NEW S, NEW a \in Seq(S), NEW b \in Seq(S), a # <<>>
  PROVE  Head(a \o b) = Head(a) /\ Tail(a \o b) = Tail(a) \o b /\ a \o b # <<>>
<1>1. Len(a) \in Nat /\ Len(a) > 0 /\ Len(b) \in Nat
  BY EmptySeq, LenProperties
<1>2. /\ a \o b \in Seq(S) /\ Len(a \o b) = Len(a) + Len(b)
      /\ \A i \in 1 .. Len(a) + Len(b) : (a \o b)[i] = IF i <= Len(a) THEN a[i] ELSE b[i - Len(a)]
  BY ConcatProperties
<1>3. a \o b # <<>>
  BY <1>1, <1>2, EmptySeq
<1>4. /\ Tail(a) \in Seq(S) /\ Len(Tail(a)) = Len(a) - 1
      /\ \A i \in 1..Len(Tail(a)) : Tail(a)[i] = a[i + 1]
  BY <1>1, HeadTailProperties
<1>5. /\ Tail(a \o b) \in Seq(S) /\ Len(Tail(a \o b)) = Len(a \o b) - 1
      /\ \A i \in 1..Len(Tail(a \o b)) : Tail(a \o b)[i] = (a \o b)[i + 1]
  BY <1>2, <1>3, HeadTailProperties
<1>6. /\ Tail(a) \o b \in Seq(S) /\ Len(Tail(a) \o b) = Len(Tail(a)) + Len(b)
      /\ \A i \in 1 .. Len(Tail(a)) + Len(b) :
           (Tail(a) \o b)[i] = IF i <= Len(Tail(a)) THEN Tail(a)[i] ELSE b[i - Len(Tail(a))]
  BY <1>4, ConcatProperties
<1>7. Len(Tail(a \o b)) = Len(Tail(a) \o b)
  BY <1>1, <1>2, <1>4, <1>5, <1>6
<1>8. ASSUME NEW i \in 1..Len(Tail(a \o b)) PROVE Tail(a \o b)[i] = (Tail(a) \o b)[i]
  <2>1. i \in Nat /\ i >= 1 /\ i + 1 \in 1 .. Len(a) + Len(b) /\ i \in 1 .. Len(Tail(a)) + Len(b)
    BY <1>1, <1>2, <1>4, <1>5
  <2>2. Tail(a \o b)[i] = IF i + 1 <= Len(a) THEN a[i + 1] ELSE b[i + 1 - Len(a)]
    BY <2>1, <1>2, <1>5
  <2>3. (Tail(a) \o b)[i] = IF i <= Len(Tail(a)) THEN Tail(a)[i] ELSE b[i - Len(Tail(a))]
    BY <2>1, <1>6
  <2>4. CASE i <= Len(Tail(a))
    BY <2>1, <2>2, <2>3, <2>4, <1>1, <1>4
  <2>5. CASE ~(i <= Len(Tail(a)))
    <3>1. i + 1 - Len(a) = i - Len(Tail(a)) /\ ~(i + 1 <= Len(a))
      BY <2>1, <2>5, <1>1, <1>4
    <3>. QED BY <3>1, <2>2, <2>3, <2>5
  <2>. QED BY <2>4, <2>5
<1>9. Tail(a \o b) = Tail(a) \o b
  BY <1>5, <1>6, <1>7, <1>8, SeqEqual
<1>10. Head(a \o b) = Head(a)
  BY <1>1, <1>2, <1>3
<1>. QED BY <1>3, <1>9, <1>10

\* A prefix of a sequence is one of every longer.
LEMMA PrefixGrows ==
  ASSUME NEW S, NEW a \in Seq(S), NEW b \in Seq(S), NEW c \in Seq(S), IsPrefix(a, b)
  PROVE  IsPrefix(a, b \o c)
<1>1. Len(a) \in Nat /\ Len(b) \in Nat /\ Len(c) \in Nat /\ Len(b \o c) = Len(b) + Len(c)
  BY LenProperties, ConcatProperties
<1>2. Len(a) <= Len(b) /\ SubSeq(a, 1, Len(a)) = SubSeq(b, 1, Len(a))
  BY DEF IsPrefix
<1>3. SubSeq(b \o c, 1, Len(a)) = SubSeq(b, 1, Len(a))
  <2>1. CASE Len(a) = 0
    <3>1. SubSeq(b, 1, 0) = <<>> /\ SubSeq(b \o c, 1, 0) = <<>>
      BY SubSeqEmpty
    <3>. QED BY <2>1, <3>1, Zenon
  <2>2. CASE Len(a) > 0
    <3>1. 1 \in 1..Len(b) /\ Len(a) \in 1..Len(b)
      BY <1>1, <1>2, <2>2
    <3>. QED BY <3>1, SubSeqOfConcat1
  <2>3. Len(a) = 0 \/ Len(a) > 0
    BY <1>1
  <2>. QED BY <2>1, <2>2, <2>3, Zenon
<1>. QED BY <1>1, <1>2, <1>3 DEF IsPrefix

\* The relay reads what its sender sent, queues it and frames it.
LEMMA RelayFlow ==
  ASSUME TypeInv, LinkInv, FlowInv, RelayNext, UNCHANGED receiverVars
  PROVE  FlowInv'
<1>ty. /\ link \in [Relays -> LinkStates] /\ wire \in [Relays -> Seq(Seq(Nat))]
       /\ turn \in Relays \cup {0} /\ turn \in Nat
       /\ ring \in Seq(Seq(Nat)) /\ sent \in Seq(Nat) /\ taken \in [Pipelines -> Seq(Nat)]
       /\ serving \in [Pipelines -> Relays \cup {0}] /\ thread \in [Pipelines -> Steps]
  BY RelaysAreNumbers DEF TypeInv, TypeOK, RelayTypeOK, LinkTypeOK, ReceiverTypeOK, Bytes
<1>1. UNCHANGED <<serving, thread, taken>>
  BY DEF receiverVars, threadVars
<1>2. /\ \A r \in Relays : Carries(r)
      /\ \A p \in Pipelines : Serves(p)
      /\ Up => turn # 0
      /\ ~Up => ring = <<>> /\ sent = <<>> /\ ~lagged
  BY DEF LinkInv
<1>3. ASSUME UNCHANGED <<turn, ring, sent, lagged, wire>>, Up' => Up,
             Up => (link'[turn] = link[turn]
                    \/ (link[turn] = "none" /\ link'[turn] = "queued"))
      PROVE  FlowInv'
  BY <1>1, <1>3, FlowStays
<1>4. CASE StartRelay
  <2>1. /\ ~Up /\ turn' = turn + 1 /\ turn + 1 \in Relays
        /\ UNCHANGED <<ring, sent, lagged, link, wire>>
    BY <1>4 DEF StartRelay, linkVars, Up
  <2>2. link[turn + 1] = "none" /\ wire[turn + 1] = <<>>
    BY <2>1, <1>2, <1>ty, RelaysAreNumbers DEF Carries
  <2>3. \A p \in Pipelines : serving[p] # turn + 1
    BY <2>1, <2>2, <1>2, <1>ty DEF Serves
  <2>4. InTransit' = <<>> /\ sent' = <<>>
    BY <2>1, <2>2, <1>2, ConcatEmptySeq DEF InTransit
  <2>5. Flows(<<>>, InTransit, sent)'
    BY <2>4, NothingFlows DEF Flows
  <2>. QED BY <2>1, <2>3, <2>5, <1>1 DEF FlowInv
<1>5. CASE Connect
  <2>1. /\ link' = [link EXCEPT ![turn] = "queued"] /\ link[turn] = "none"
        /\ UNCHANGED <<wire, relay, turn, ring, sent, lagged>>
    BY <1>5 DEF Connect, relayVars
  <2>2. Up => link'[turn] = "queued"
    BY <2>1, <1>ty, <1>2
  <2>. QED BY <2>1, <2>2, <1>3 DEF Up
<1>6. CASE Subscribe \/ Connected
  BY <1>3, <1>6 DEF Subscribe, Connected, linkVars, Up
<1>7. CASE TaskEnds \/ RelayDies
  <2>1. ~Up'
    BY <1>7 DEF TaskEnds, RelayDies, End, Up
  <2>. QED BY <2>1 DEF FlowInv
<1>8. ASSUME NEW s \in Senders, SenderConnects(s) \/ SenderStops(s) PROVE FlowInv'
  BY <1>3, <1>8 DEF SenderConnects, SenderStops, linkVars, Up
<1>9. ASSUME NEW s \in Senders, ReadChunk(s) PROVE FlowInv'
  <2>. SUFFICES ASSUME ~lagged' PROVE FlowInv'
    BY DEF FlowInv
  <2>1. PICK size \in ReadSizes :
          LET n == IF size < Len(tcp[s]) THEN size ELSE Len(tcp[s]) IN
          /\ Broadcast(SubSeq(tcp[s], 1, n))
          /\ sent' = IF Subscribed THEN sent \o SubSeq(tcp[s], 1, n) ELSE sent
    BY <1>9 DEF ReadChunk
  <2>. DEFINE n == IF size < Len(tcp[s]) THEN size ELSE Len(tcp[s])
              chunk == SubSeq(tcp[s], 1, n)
  <2>2. chunk \in Seq(Nat)
    <3>1. tcp[s] \in Seq(Nat) /\ Len(tcp[s]) \in Nat
      BY LenProperties DEF TypeInv, Bytes
    <3>2. n \in Nat /\ n <= Len(tcp[s])
      BY <3>1, RelayAssumption
    <3>3. \A i \in 1..Len(tcp[s]) : tcp[s][i] \in Nat
      BY <3>1, ElementOfSeq
    <3>. HIDE DEF n
    <3>4. \A i \in 1..n : i \in 1..Len(tcp[s])
      BY <3>1, <3>2
    <3>. QED BY <3>2, <3>3, <3>4, SubSeqProperties
  <2>b. Broadcast(chunk) /\ sent' = IF Subscribed THEN sent \o chunk ELSE sent
    BY <2>1
  <2>. HIDE DEF n, chunk
  <2>s. CASE ~Subscribed
    <3>1. UNCHANGED <<ring, lagged, sent>>
      BY <2>b, <2>s DEF Broadcast
    <3>2. Up /\ Up' /\ UNCHANGED <<turn, link, wire>>
      BY <1>9 DEF ReadChunk, linkVars, Up
    <3>. QED BY <3>1, <3>2, <1>3
  <2>. SUFFICES ASSUME Subscribed PROVE FlowInv'
    BY <2>s
  <2>3. Broadcast(chunk) /\ sent' = sent \o chunk
    BY <2>b
  <2>4. ring' = Append(ring, chunk) /\ ~lagged
    BY <2>3 DEF Broadcast
  <2>5. Up /\ UNCHANGED <<relay, turn, link, wire>>
    BY <1>9 DEF ReadChunk, linkVars
  <2>6. turn \in Relays /\ wire[turn] \in Seq(Seq(Nat)) /\ InTransit \in Seq(Seq(Nat))
    BY <2>5, <1>2, <1>ty, ConcatProperties DEF InTransit
  <2>7. InTransit' = Append(InTransit, chunk)
    BY <2>2, <2>4, <2>5, <2>6, <1>ty, AppendedLast DEF InTransit
  <2>8. ASSUME NEW done, Flows(done, InTransit, sent)
        PROVE  Flows(done, Append(InTransit, chunk), sent \o chunk)
    BY <2>2, <2>6, <2>8, <1>ty, FlowGrows
  <2>9. ASSUME link[turn] \in {"none", "queued", "served"} PROVE Flows(<<>>, InTransit, sent)'
    <3>1. Flows(<<>>, InTransit, sent)
      BY <2>4, <2>5, <2>9 DEF FlowInv
    <3>2. Flows(<<>>, Append(InTransit, chunk), sent \o chunk)
      BY <3>1, <2>8
    <3>3. Flows(<<>>, InTransit', sent')
      BY <3>2, <2>3, <2>7
    <3>. QED BY <3>3 DEF Flows
  <2>10. ASSUME NEW p \in Pipelines, thread[p] \in Inside, serving[p] = turn
         PROVE  /\ IsPrefix(taken[p], sent)'
                /\ link[turn] = "upgraded" => Flows(taken[p], InTransit, sent)'
    <3>1. /\ IsPrefix(taken[p], sent)
          /\ link[turn] = "upgraded" => Flows(taken[p], InTransit, sent)
      BY <2>4, <2>5, <2>10 DEF FlowInv
    <3>2. IsPrefix(taken[p], sent \o chunk)
      BY <3>1, <2>2, <1>ty, PrefixGrows
    <3>3. taken'[p] = taken[p]
      BY <1>1
    <3>4. IsPrefix(taken[p], sent)'
      BY <3>2, <3>3, <2>3 DEF IsPrefix
    <3>5. ASSUME link[turn] = "upgraded" PROVE Flows(taken[p], InTransit, sent)'
      <4>1. Flows(taken[p], Append(InTransit, chunk), sent \o chunk)
        BY <3>1, <3>5, <2>8
      <4>2. Flows(taken'[p], InTransit', sent')
        BY <4>1, <3>3, <2>3, <2>7
      <4>. QED BY <4>2 DEF Flows
    <3>. QED BY <3>4, <3>5
  <2>11. link' = link /\ turn' = turn /\ thread' = thread /\ serving' = serving
    BY <2>5, <1>1
  <2>. QED BY <2>9, <2>10, <2>11 DEF FlowInv
<1>10. CASE ForwardChunk
  <2>1. /\ relay = "forwarding" /\ link[turn] = "upgraded" /\ ring # <<>>
        /\ wire' = [wire EXCEPT ![turn] = Append(wire[turn], Head(ring))]
        /\ ring' = Tail(ring)
        /\ UNCHANGED <<relay, turn, sent, lagged, link>>
    BY <1>10 DEF ForwardChunk
  <2>2. turn \in Relays /\ wire[turn] \in Seq(Seq(Nat)) /\ wire'[turn] = Append(wire[turn], Head(ring))
    BY <2>1, <1>2, <1>ty DEF Up
  <2>3. InTransit' = InTransit
    BY <2>1, <2>2, <1>ty, HeadMovesOver DEF InTransit
  <2>4. /\ Flows(<<>>, InTransit, sent)' <=> Flows(<<>>, InTransit, sent)
        /\ \A p \in Pipelines : Flows(taken[p], InTransit, sent)' <=> Flows(taken[p], InTransit, sent)
        /\ \A p \in Pipelines : IsPrefix(taken[p], sent)' <=> IsPrefix(taken[p], sent)
    BY <2>1, <2>3, <1>1 DEF Flows, IsPrefix
  <2>. QED BY <2>1, <2>4, <1>1 DEF FlowInv, Up
<1>. QED BY <1>4, <1>5, <1>6, <1>7, <1>8, <1>9, <1>10 DEF RelayNext, RelayTasks

\* The main thread touches no byte.
LEMMA MainFlow ==
  ASSUME TypeInv, LinkInv, FlowInv, MainStep, UNCHANGED relayVars
  PROVE  FlowInv'
<1>ty. /\ link \in [Relays -> LinkStates] /\ wire \in [Relays -> Seq(Seq(Nat))]
       /\ turn \in Relays \cup {0} /\ thread \in [Pipelines -> Steps]
  BY DEF TypeInv, TypeOK, RelayTypeOK, LinkTypeOK, ReceiverTypeOK, Bytes
<1>1. UNCHANGED <<relay, turn, ring, sent, lagged>>
  BY DEF relayVars
<1>up. (Up' => Up) /\ (Up => turn \in Relays)
  BY <1>1, <1>ty DEF Up, LinkInv
<1>2. CASE StartPipeline
  <2>1. /\ thread' = [thread EXCEPT ![started + 1] = "bind"]
        /\ UNCHANGED <<link, wire, serving, taken>>
    BY <1>2 DEF StartPipeline, linkVars
  <2>2. \A p \in Pipelines : thread'[p] \in Inside => thread[p] \in Inside
    BY <2>1, <1>ty DEF Inside
  <2>. QED BY <2>1, <2>2, <1>1, <1>up, FlowStays
<1>3. CASE Advertise \/ StopBegins \/ Join
  <2>1. UNCHANGED <<link, wire, serving, taken, thread>>
    BY <1>3 DEF Advertise, StopBegins, Join, linkVars, threadVars
  <2>. QED BY <2>1, <1>1, <1>up, FlowStays
<1>4. CASE CloseSockets
  <2>. DEFINE c == client[started]
              reset(r) == server[started] = "listening" /\ peer[r] = started /\ link[r] = "queued"
  <2>1. /\ link' = [r \in Relays |-> IF r = c \/ reset(r) THEN "closed" ELSE link[r]]
        /\ wire' = [r \in Relays |-> IF r = c THEN <<>> ELSE wire[r]]
        /\ UNCHANGED <<serving, taken, thread>>
    BY <1>4 DEF CloseSockets, threadVars
  <2>. HIDE DEF c, reset
  <2>2. \A r \in Relays : /\ link'[r] \in {link[r], "closed"}
                          /\ link'[r] = "closed" \/ wire'[r] = wire[r]
    BY <2>1
  <2>3. Up => /\ link'[turn] \in {link[turn], "closed"}
              /\ link'[turn] = "closed" \/ wire'[turn] = wire[turn]
    BY <2>2, <1>up
  <2>. QED BY <2>1, <2>3, <1>1, <1>up, FlowStays
<1>. QED BY <1>2, <1>3, <1>4 DEF MainStep, Closing

\* How far the handling of a connection goes by itself.
LEMMA Enters ==
  ASSUME NEW p \in Pipelines, ThreadStep(p), thread \in [Pipelines -> Steps]
  PROVE  \/ Handshake(p)
         \/ thread'[p] \notin Inside
         \/ thread[p] \in Inside /\ UNCHANGED serving
<1>. USE DEF Goto, NextConnection, Inside
<1>1. CASE Bind(p) \/ BindFails(p) \/ LoopEnds(p) \/ Accept(p) \/ SetClient(p)
  BY <1>1 DEF Bind, BindFails, LoopEnds, Accept, SetClient
<1>2. CASE HandshakeFails(p)
  BY <1>2 DEF HandshakeFails
<1>3. CASE NewConnection(p) \/ Check(p) \/ ReadFrame(p) \/ Deliver(p)
  <2>1. thread[p] \in {"greet", "check", "read", "deliver"} /\ UNCHANGED serving
    BY <1>3 DEF NewConnection, Check, ReadFrame, Deliver
  <2>. QED BY <2>1
<1>4. CASE CloseConnection(p)
  BY <1>4 DEF CloseConnection, Leave
<1>. QED BY <1>1, <1>2, <1>3, <1>4 DEF ThreadStep

\* A thread reads the first frame on the way, and hands its bytes on.
LEMMA ThreadFlow ==
  ASSUME TypeInv, LinkInv, FlowInv, NEW p \in Pipelines, ThreadStep(p), UNCHANGED relayVars
  PROVE  FlowInv'
<1>ty. /\ link \in [Relays -> LinkStates] /\ wire \in [Relays -> Seq(Seq(Nat))]
       /\ turn \in Relays \cup {0} /\ thread \in [Pipelines -> Steps]
       /\ ring \in Seq(Seq(Nat)) /\ sent \in Seq(Nat) /\ taken \in [Pipelines -> Seq(Nat)]
       /\ serving \in [Pipelines -> Relays \cup {0}]
  BY DEF TypeInv, TypeOK, RelayTypeOK, LinkTypeOK, ReceiverTypeOK, Bytes
<1>1. UNCHANGED <<relay, turn, ring, sent, lagged>>
  BY DEF relayVars
<1>up. (Up' => Up) /\ (Up => turn \in Relays)
  BY <1>1, <1>ty DEF Up, LinkInv
<1>2. \A q \in Pipelines : Serves(q)
  BY DEF LinkInv
<1>3. \A q \in Pipelines \ {p} : thread'[q] = thread[q]
  BY <1>ty, ThreadMoves
<1>alone. \A q \in Pipelines : serving[q] = serving[p] /\ serving[p] # 0 => q = p
  BY <1>2 DEF Serves
<1>4. ASSUME Up => link'[turn] = "closed" \/ wire'[turn] = wire[turn],
             Up => link'[turn] \in {link[turn], "closed"}
                   \/ (link[turn] = "queued" /\ link'[turn] = "served"),
             \A q \in Pipelines \ {p} : serving'[q] = serving[q] /\ taken'[q] = taken[q],
             thread'[p] \in Inside /\ serving'[p] = turn =>
               thread[p] \in Inside /\ serving[p] = turn /\ taken'[p] = taken[p]
      PROVE  FlowInv'
  BY <1>1, <1>up, <1>3, <1>4, FlowStays
<1>5. CASE UNCHANGED <<link, wire, taken>> /\ ~Handshake(p)
  <2>1. \/ thread'[p] \notin Inside
        \/ thread[p] \in Inside /\ UNCHANGED serving
    BY <1>5, <1>ty, Enters
  <2>2. \A q \in Pipelines \ {p} : serving'[q] = serving[q]
    BY <1>ty DEF ThreadStep, Bind, BindFails, LoopEnds, Accept, SetClient, Handshake,
                 HandshakeFails, NewConnection, Check, ReadFrame, Deliver, CloseConnection, Leave
  <2>. QED BY <2>1, <2>2, <1>4, <1>5
<1>6. CASE Bind(p) \/ BindFails(p) \/ SetClient(p) \/ HandshakeFails(p) \/ NewConnection(p)
           \/ Check(p) \/ Deliver(p)
  <2>1. UNCHANGED <<link, wire, taken>>
    BY <1>6 DEF Bind, BindFails, SetClient, HandshakeFails, NewConnection, Check, Deliver,
                linkVars, streamVars
  <2>2. ~Handshake(p)
    BY <1>6, <1>ty DEF Bind, BindFails, SetClient, HandshakeFails, NewConnection, Check, Deliver,
                       Handshake, Goto, NextConnection
  <2>. QED BY <2>1, <2>2, <1>5
<1>7. CASE LoopEnds(p)
  <2>1. /\ UNCHANGED <<wire, taken, serving>> /\ thread'[p] = "over"
        /\ \A r \in Relays : link'[r] \in {link[r], "closed"}
    BY <1>7, <1>ty DEF LoopEnds, CloseListening, Goto, linkVars, streamVars
  <2>. QED BY <2>1, <1>up, <1>4 DEF Inside
<1>8. CASE Accept(p)
  <2>1. PICK r \in Relays : /\ link[r] = "queued" /\ link' = [link EXCEPT ![r] = "served"]
                            /\ serving' = [serving EXCEPT ![p] = r]
    BY <1>8 DEF Accept
  <2>2. UNCHANGED <<wire, taken>> /\ thread'[p] = "accepted"
    BY <1>8, <1>ty DEF Accept, Goto, streamVars
  <2>3. \A s \in Relays : link'[s] = link[s] \/ (link[s] = "queued" /\ link'[s] = "served")
    BY <2>1, <1>ty
  <2>. QED BY <2>1, <2>2, <2>3, <1>up, <1>ty, <1>4 DEF Inside
<1>9. CASE Handshake(p)
  <2>1. /\ link' = [link EXCEPT ![serving[p]] = "upgraded"] /\ link[serving[p]] = "served"
        /\ UNCHANGED <<wire, serving, taken>>
        /\ thread[p] = "handshake" /\ thread'[p] = "greet"
    BY <1>9, <1>ty DEF Handshake, Goto, streamVars
  <2>2. serving[p] \in Relays /\ taken[p] = <<>>
    <3>1. Serves(p) /\ serving[p] \in Relays \cup {0}
      BY <1>2, <1>ty
    <3>. QED BY <2>1, <3>1 DEF Serves
  <2>3. CASE serving[p] # turn
    <3>1. Up => link'[turn] = link[turn]
      BY <2>1, <2>3, <1>ty, <1>up
    <3>. QED BY <2>1, <2>3, <3>1, <1>4
  <2>4. CASE serving[p] = turn
    <3>. SUFFICES ASSUME Up, ~lagged PROVE FlowInv'
      BY <1>1, <1>up DEF FlowInv
    <3>1. link'[turn] = "upgraded" /\ InTransit' = InTransit
      BY <2>1, <2>2, <2>4, <1>1, <1>ty DEF InTransit
    <3>2. Flows(<<>>, InTransit, sent)
      BY <2>1, <2>4 DEF FlowInv
    <3>3. \A q \in Pipelines : serving'[q] = turn => q = p
      BY <2>1, <2>2, <2>4, <1>alone, RelaysAreNumbers
    <3>4. InTransit \in Seq(Seq(Nat))
      BY <2>2, <2>4, <1>ty, ConcatProperties DEF InTransit
    <3>5. Flows(taken[p], InTransit, sent)
      BY <3>2, <2>2
    <3>6. Flows(taken'[p], InTransit', sent')
      BY <3>1, <3>5, <2>1, <1>1
    <3>7. IsPrefix(taken[p], sent)
      BY <3>4, <3>5, <1>ty, FlowIsPrefix DEF IsPrefix
    <3>8. IsPrefix(taken[p], sent)'
      BY <3>7, <2>1, <1>1 DEF IsPrefix
    <3>9. Flows(taken[p], InTransit, sent)'
      BY <3>6 DEF Flows
    <3>. QED BY <3>1, <3>3, <3>8, <3>9, <1>1 DEF FlowInv
  <2>. QED BY <2>3, <2>4
<1>10. CASE ReadFrame(p)
  <2>1. /\ thread[p] = "read" /\ link[serving[p]] # "closed" /\ wire[serving[p]] # <<>>
        /\ taken' = [taken EXCEPT ![p] = taken[p] \o Head(wire[serving[p]])]
        /\ wire' = [wire EXCEPT ![serving[p]] = Tail(wire[serving[p]])]
        /\ UNCHANGED <<link, serving>>
    BY <1>10 DEF ReadFrame
  <2>2. serving[p] \in Relays /\ link[serving[p]] = "upgraded"
    BY <2>1, <1>2, <1>ty DEF Serves, Inside
  <2>3. CASE serving[p] # turn
    <3>1. Up => wire'[turn] = wire[turn]
      BY <2>1, <2>3, <1>ty, <1>up
    <3>. QED BY <2>1, <2>3, <3>1, <1>4, <1>ty
  <2>4. CASE serving[p] = turn
    <3>. SUFFICES ASSUME Up, ~lagged PROVE FlowInv'
      BY <1>1, <1>up DEF FlowInv
    <3>1. /\ wire[turn] \in Seq(Seq(Nat)) /\ wire[turn] # <<>> /\ wire'[turn] = Tail(wire[turn])
          /\ taken'[p] = taken[p] \o Head(wire[turn])
          /\ \A q \in Pipelines \ {p} : taken'[q] = taken[q]
      BY <2>1, <2>2, <2>4, <1>ty
    <3>2. /\ Head(InTransit) = Head(wire[turn]) /\ InTransit' = Tail(InTransit)
          /\ InTransit # <<>> /\ InTransit \in Seq(Seq(Nat)) /\ Tail(InTransit) \in Seq(Seq(Nat))
      <4>1. /\ Head(wire[turn] \o ring) = Head(wire[turn]) /\ wire[turn] \o ring # <<>>
            /\ Tail(wire[turn] \o ring) = Tail(wire[turn]) \o ring
        <5>1. wire[turn] \in Seq(Seq(Nat)) /\ wire[turn] # <<>> /\ ring \in Seq(Seq(Nat))
          BY <3>1, <1>ty
        <5>. QED BY <5>1, TakenFirst
      <4>2. InTransit \in Seq(Seq(Nat))
        BY <3>1, <1>ty, ConcatProperties DEF InTransit
      <4>3. InTransit' = Tail(wire[turn]) \o ring
        BY <3>1, <1>1 DEF InTransit
      <4>4. Tail(InTransit) \in Seq(Seq(Nat))
        BY <4>1, <4>2, HeadTailProperties DEF InTransit
      <4>. QED BY <4>1, <4>2, <4>3, <4>4 DEF InTransit
    <3>3. Flows(taken[p], InTransit, sent)
      BY <2>1, <2>2, <2>4 DEF FlowInv, Inside
    <3>4. Flows(taken[p] \o Head(InTransit), Tail(InTransit), sent)
      BY <3>2, <3>3, <1>ty, FlowMoves
    <3>5. Flows(taken'[p], InTransit', sent')
      BY <3>1, <3>2, <3>4, <1>1
    <3>6. IsPrefix(taken[p] \o Head(InTransit), sent)
      BY <3>2, <3>4, <1>ty, FlowIsPrefix DEF IsPrefix
    <3>7. IsPrefix(taken'[p], sent')
      BY <3>1, <3>2, <3>6, <1>1
    <3>8. \A q \in Pipelines : serving'[q] = turn => q = p
      BY <2>1, <2>2, <2>4, <1>alone, RelaysAreNumbers
    <3>9. IsPrefix(taken[p], sent)' /\ Flows(taken[p], InTransit, sent)'
      BY <3>5, <3>7 DEF Flows, IsPrefix
    <3>. QED BY <2>1, <2>2, <2>4, <3>8, <3>9, <1>1 DEF FlowInv
  <2>. QED BY <2>3, <2>4
<1>11. CASE CloseConnection(p)
  <2>1. /\ link' = [link EXCEPT ![serving[p]] = "closed"]
        /\ wire' = [wire EXCEPT ![serving[p]] = <<>>]
        /\ serving' = [serving EXCEPT ![p] = 0] /\ taken' = [taken EXCEPT ![p] = <<>>]
        /\ thread'[p] \in {"accept", "exit"}
    BY <1>11, <1>ty DEF CloseConnection, Leave, CloseByApp, Goto, NextConnection
  <2>2. \A r \in Relays : link'[r] = "closed" \/ (link'[r] = link[r] /\ wire'[r] = wire[r])
    BY <2>1, <1>ty
  <2>. QED BY <2>1, <2>2, <1>up, <1>ty, <1>4 DEF Inside
<1>. QED BY <1>6, <1>7, <1>8, <1>9, <1>10, <1>11 DEF ThreadStep

PathInv == TypeInv /\ LinkInv /\ FlowInv

LEMMA PathInitially == Init => PathInv
  BY TypeInitially, LinksInitially, FlowInitially DEF PathInv

LEMMA PathPreserved == IsolationInv /\ PathInv /\ [Next]_vars => PathInv'
<1>. SUFFICES ASSUME IsolationInv, PathInv, [Next]_vars PROVE PathInv'
  OBVIOUS
<1>. USE DEF PathInv
<1>1. CASE RelayNext /\ UNCHANGED receiverVars
  BY <1>1, RelayTypes, RelayLinks, RelayFlow
<1>2. CASE MainStep /\ UNCHANGED relayVars
  BY <1>2, MainTypes, MainLinks, MainFlow
<1>3. ASSUME NEW p \in Pipelines, ThreadStep(p), UNCHANGED relayVars PROVE PathInv'
  <2>1. thread[p] = "read" => serving[p] # 0
    BY DEF LinkInv, Serves, Inside
  <2>. QED BY <1>3, <2>1, ThreadTypes, ThreadLinks, ThreadFlow
<1>4. CASE UNCHANGED vars
  <2>1. UNCHANGED relayVars /\ UNCHANGED linkVars /\ UNCHANGED receiverVars
    BY <1>4 DEF vars
  <2>2. TypeInv'
    BY <2>1 DEF relayVars, linkVars, receiverVars, threadVars, TypeInv, TypeOK, Bytes, RelayTypeOK,
                LinkTypeOK, ReceiverTypeOK
  <2>3. UNCHANGED <<link, peer, wire, serving, thread, taken, client, main, started, turn>>
    BY <2>1 DEF relayVars, linkVars, receiverVars, threadVars
  <2>4. (\A r \in Relays : Carries(r)') /\ (\A p \in Pipelines : Serves(p)')
    BY <2>3 DEF LinkInv, Carries, Serves
  <2>5. LinkInv'
    BY <2>1, <2>3, <2>4, AppLinks DEF LinkInv
  <2>6. UNCHANGED <<relay, turn, ring, sent, lagged>>
    BY <2>1 DEF relayVars
  <2>7. FlowInv'
    BY <2>3, <2>6, FlowStays DEF Up
  <2>. QED BY <2>2, <2>5, <2>7
<1>. QED BY <1>1, <1>2, <1>3, <1>4 DEF Next

\* The types and the buffers' bounds, BROADCAST_CAPACITY among them.
THEOREM TypeCorrect == Spec => []TypeOK
<1>1. PathInv => TypeOK
  BY DEF PathInv, TypeInv
<1>. QED BY IsolationInitially, IsolationPreserved, PathInitially, PathPreserved, <1>1, PTL DEF Spec

\* tcp-ws-relay subscribes before it connects (main.rs 122, 216) and the app reads
\* a connection from its first frame: a relay that has dropped nothing delivers,
\* from the beginning and in order, what it has read since its client subscribed.
\* What the TCP task, spawned a line earlier (121), has read by then is lost.
THEOREM NothingIsSkipped == Spec => []NoGap
<1>1. PathInv => NoGap
  BY DEF PathInv, FlowInv, NoGap, Reading, Inside
<1>. QED BY IsolationInitially, IsolationPreserved, PathInitially, PathPreserved, <1>1, PTL DEF Spec

-----------------------------------------------------------------------------
(* The NAL units of a connection.                                          *)

\* The splitter of a connection keeps what the NAL units in the bytes it was given
\* leave, and those were handed over or are about to be.
Splits(p) ==
  /\ pending[p] = Keep(taken[p])
  /\ handed[p] \o todo[p] = NalsOf(taken[p])
  /\ todo[p] # <<>> <=> thread[p] = "deliver"

SplitInv ==
  /\ pending \in [Pipelines -> Seq(Nat)]
  /\ handed \in [Pipelines -> Seq(Seq(Nat))] /\ todo \in [Pipelines -> Seq(Seq(Nat))]
  /\ \A p \in Pipelines : Splits(p)

\* There is nothing in no bytes.
LEMMA NothingSplits ==
  /\ <<>> \in Seq(Nat) /\ <<>> \in Seq(Seq(Nat))
  /\ Keep(<<>>) = <<>> /\ <<>> \o <<>> = NalsOf(<<>>)
<1>1. <<>> \in Seq(Nat) /\ <<>> \in Seq(Seq(Nat)) /\ Len(<<>>) = 0
  OBVIOUS
<1>2. Ones(<<>>) = {}
  BY <1>1 DEF Ones
<1>3. Cardinality(Ones(<<>>)) = 0
  BY <1>2, FS_EmptySet
<1>4. NalsOf(<<>>) \in Seq(Seq(Nat)) /\ Len(NalsOf(<<>>)) = 0
  BY <1>1, <1>3, NalsType
<1>5. NalsOf(<<>>) = <<>>
  BY <1>4, EmptySeq
<1>. QED BY <1>1, <1>2, <1>5 DEF Keep

LEMMA SplitInitially == Init => SplitInv
<1>. SUFFICES ASSUME Init PROVE SplitInv
  OBVIOUS
<1>1. /\ pending = [p \in Pipelines |-> <<>>] /\ handed = [p \in Pipelines |-> <<>>]
      /\ todo = [p \in Pipelines |-> <<>>] /\ taken = [p \in Pipelines |-> <<>>]
  BY DEF Init, ReceiverInit
<1>th. \A p \in Pipelines : thread[p] = "none"
  BY DEF Init, ReceiverInit
<1>2. \A p \in Pipelines : Splits(p)
  BY <1>1, <1>th, NothingSplits DEF Splits
<1>. QED BY <1>1, <1>2, NothingSplits DEF SplitInv

\* What touches neither the splitter nor a thread that delivers.
LEMMA SplitStays ==
  ASSUME SplitInv, UNCHANGED <<pending, todo, taken, handed>>,
         \A p \in Pipelines : thread[p] = "deliver" <=> thread'[p] = "deliver"
  PROVE  SplitInv'
<1>1. \A p \in Pipelines : Splits(p)'
  BY DEF SplitInv, Splits
<1>. QED BY <1>1 DEF SplitInv

\* A frame is pushed into the splitter when the NAL units of the last are handed over.
LEMMA FrameSplits ==
  ASSUME TypeInv, LinkInv, SplitInv, NEW p \in Pipelines, ReadFrame(p)
  PROVE  SplitInv'
<1>. DEFINE r == serving[p]
            chunk == Head(wire[r])
            s == Push(pending[p], chunk)
<1>ty. /\ wire \in [Relays -> Seq(Seq(Nat))] /\ taken \in [Pipelines -> Seq(Nat)]
       /\ thread \in [Pipelines -> Steps] /\ serving \in [Pipelines -> Relays \cup {0}]
       /\ pending \in [Pipelines -> Seq(Nat)]
       /\ handed \in [Pipelines -> Seq(Seq(Nat))] /\ todo \in [Pipelines -> Seq(Seq(Nat))]
  BY DEF TypeInv, TypeOK, ReceiverTypeOK, Bytes, SplitInv
<1>1. /\ thread[p] = "read" /\ wire[r] # <<>>
      /\ thread' = [thread EXCEPT ![p] = IF s.nals = <<>> THEN "check" ELSE "deliver"]
      /\ pending' = [pending EXCEPT ![p] = s.pending] /\ todo' = [todo EXCEPT ![p] = s.nals]
      /\ taken' = [taken EXCEPT ![p] = taken[p] \o chunk] /\ handed' = handed
  BY DEF ReadFrame, Goto
<1>2. r \in Relays
  <2>1. r # 0
    BY <1>1 DEF LinkInv, Serves, Inside
  <2>. QED BY <1>ty, <2>1
<1>3. chunk \in Seq(Nat)
  <2>1. wire[r] \in Seq(Seq(Nat))
    BY <1>ty, <1>2
  <2>. QED BY <1>1, <2>1, HeadTailProperties
<1>4. Splits(p) /\ todo[p] = <<>>
  BY <1>1 DEF SplitInv, Splits
<1>. HIDE DEF r, chunk
<1>5. /\ taken[p] \in Seq(Nat) /\ pending[p] \in Seq(Nat) /\ handed[p] \in Seq(Seq(Nat))
      /\ pending[p] = Keep(taken[p])
  BY <1>ty, <1>4 DEF Splits
<1>6. s = [nals |-> NalsOf(pending[p] \o chunk), pending |-> Keep(pending[p] \o chunk)]
  BY <1>3, <1>5, PushIs
<1>. HIDE DEF s
<1>7. s.nals = NalsOf(Keep(taken[p]) \o chunk) /\ s.pending = Keep(Keep(taken[p]) \o chunk)
  BY <1>5, <1>6
<1>8. s.pending = Keep(taken[p] \o chunk)
  BY <1>3, <1>5, <1>7, KeepAfterCut
<1>9. handed[p] \o s.nals = NalsOf(taken[p] \o chunk)
  <2>1. handed[p] = NalsOf(taken[p])
    <3>1. handed[p] \o <<>> = NalsOf(taken[p])
      BY <1>4 DEF Splits
    <3>. QED BY <1>5, <3>1, ConcatEmptySeq
  <2>2. NalsOf(taken[p] \o chunk) = NalsOf(taken[p]) \o NalsOf(Keep(taken[p]) \o chunk)
    BY <1>3, <1>5, NalsAfterCut
  <2>. QED BY <1>7, <2>1, <2>2
<1>10. s.pending \in Seq(Nat) /\ s.nals \in Seq(Seq(Nat))
  <2>1. Keep(taken[p]) \o chunk \in Seq(Nat)
    BY <1>3, <1>5, ConcatProperties
  <2>2. <<>> \in Seq(Nat) /\ Keep(taken[p]) \o chunk \in Seq(Nat)
    BY <2>1
  <2>3. Keep(Keep(taken[p]) \o chunk) \in Seq(Nat)
    BY <2>2, KeepAfterCut
  <2>4. NalsOf(Keep(taken[p]) \o chunk) \in Seq(Seq(Nat))
    BY <2>1, NalsType
  <2>. QED BY <1>7, <2>3, <2>4
<1>11. /\ pending' \in [Pipelines -> Seq(Nat)] /\ todo' \in [Pipelines -> Seq(Seq(Nat))]
       /\ handed' \in [Pipelines -> Seq(Seq(Nat))]
  BY <1>ty, <1>1, <1>10
<1>12. /\ pending'[p] = s.pending /\ todo'[p] = s.nals /\ taken'[p] = taken[p] \o chunk
       /\ handed'[p] = handed[p] /\ thread'[p] = IF s.nals = <<>> THEN "check" ELSE "deliver"
  BY <1>ty, <1>1
<1>13. Splits(p)'
  <2>1. todo'[p] # <<>> <=> thread'[p] = "deliver"
    BY <1>12
  <2>2. pending'[p] = Keep(taken'[p]) /\ handed'[p] \o todo'[p] = NalsOf(taken'[p])
    BY <1>8, <1>9, <1>12
  <2>. QED BY <2>1, <2>2 DEF Splits
<1>14. ASSUME NEW q \in Pipelines, q # p PROVE Splits(q)'
  <2>1. /\ pending'[q] = pending[q] /\ todo'[q] = todo[q] /\ taken'[q] = taken[q]
        /\ handed'[q] = handed[q] /\ thread'[q] = thread[q]
    BY <1>ty, <1>1, <1>14
  <2>2. Splits(q)
    BY DEF SplitInv
  <2>. QED BY <2>1, <2>2 DEF Splits
<1>. QED BY <1>11, <1>13, <1>14 DEF SplitInv

\* onNal moves one NAL unit from those that are to come to those that were handed over.
LEMMA NalIsHanded ==
  ASSUME TypeInv, SplitInv, NEW p \in Pipelines, Deliver(p)
  PROVE  SplitInv'
<1>ty. /\ thread \in [Pipelines -> Steps] /\ pending \in [Pipelines -> Seq(Nat)]
       /\ handed \in [Pipelines -> Seq(Seq(Nat))] /\ todo \in [Pipelines -> Seq(Seq(Nat))]
  BY DEF TypeInv, TypeOK, ReceiverTypeOK, SplitInv
<1>1. /\ thread' = [thread EXCEPT ![p] = IF Len(todo[p]) = 1 THEN "check" ELSE "deliver"]
      /\ handed' = [handed EXCEPT ![p] = Append(handed[p], Head(todo[p]))]
      /\ todo' = [todo EXCEPT ![p] = Tail(todo[p])]
      /\ UNCHANGED <<pending, taken>>
  BY DEF Deliver, Goto
<1>2. handed[p] \in Seq(Seq(Nat)) /\ todo[p] \in Seq(Seq(Nat)) /\ todo[p] # <<>>
  BY <1>ty DEF SplitInv, Splits, Deliver, Goto
<1>3. /\ Head(todo[p]) \in Seq(Nat) /\ Tail(todo[p]) \in Seq(Seq(Nat))
      /\ Len(todo[p]) = 1 <=> Tail(todo[p]) = <<>>
  <2>1. /\ Head(todo[p]) \in Seq(Nat) /\ Tail(todo[p]) \in Seq(Seq(Nat))
        /\ Len(Tail(todo[p])) = Len(todo[p]) - 1
    BY <1>2, HeadTailProperties
  <2>2. Len(todo[p]) \in Nat
    BY <1>2, LenProperties
  <2>3. Len(todo[p]) = 1 <=> Len(Tail(todo[p])) = 0
    BY <2>1, <2>2
  <2>. QED BY <2>1, <2>3, EmptySeq
<1>4. Append(handed[p], Head(todo[p])) \o Tail(todo[p]) = handed[p] \o todo[p]
  BY <1>2, HeadMovesOver
<1>5. Append(handed[p], Head(todo[p])) \in Seq(Seq(Nat))
  BY <1>2, <1>3, AppendProperties
<1>6. /\ handed' \in [Pipelines -> Seq(Seq(Nat))] /\ todo' \in [Pipelines -> Seq(Seq(Nat))]
      /\ pending' \in [Pipelines -> Seq(Nat)]
  BY <1>ty, <1>1, <1>3, <1>5
<1>7. /\ handed'[p] \o todo'[p] = handed[p] \o todo[p]
      /\ todo'[p] # <<>> <=> thread'[p] = "deliver"
  BY <1>ty, <1>1, <1>3, <1>4
<1>8. Splits(p)'
  BY <1>1, <1>7 DEF SplitInv, Splits
<1>9. ASSUME NEW q \in Pipelines, q # p PROVE Splits(q)'
  <2>1. todo'[q] = todo[q] /\ handed'[q] = handed[q] /\ thread'[q] = thread[q]
    BY <1>ty, <1>1, <1>9
  <2>2. Splits(q)
    BY DEF SplitInv
  <2>. QED BY <1>1, <2>1, <2>2 DEF Splits
<1>. QED BY <1>6, <1>8, <1>9 DEF SplitInv

\* The main thread starts a thread, which has nothing to deliver yet.
LEMMA MainSplits ==
  ASSUME IsolationInv, SplitInv, MainStep
  PROVE  SplitInv'
<1>1. UNCHANGED <<pending, todo, taken, handed>>
  BY DEF MainStep, StartPipeline, Advertise, StopBegins, Closing, CloseSockets, Join, threadVars
<1>2. CASE StartPipeline
  <2>1. /\ started + 1 \in Pipelines /\ thread \in [Pipelines -> Steps]
        /\ thread' = [thread EXCEPT ![started + 1] = "bind"]
    BY <1>2 DEF StartPipeline, IsolationInv, ThreadInv
  <2>2. thread[started + 1] = "none"
    <3>1. started \in Int /\ started + 1 > started
      BY PipelinesAreNumbers DEF IsolationInv, DecoderInv
    <3>. QED BY <2>1, <3>1 DEF IsolationInv, ThreadInv
  <2>3. \A p \in Pipelines : thread[p] = "deliver" <=> thread'[p] = "deliver"
    BY <2>1, <2>2
  <2>. QED BY <1>1, <2>3, SplitStays
<1>3. CASE ~StartPipeline
  <2>1. thread' = thread
    BY <1>3 DEF MainStep, Advertise, StopBegins, Closing, CloseSockets, Join, threadVars
  <2>. QED BY <1>1, <2>1, SplitStays
<1>. QED BY <1>2, <1>3

\* A thread begins a connection with an empty splitter, and leaves it with nothing
\* to deliver.
LEMMA ThreadSplits ==
  ASSUME TypeInv, LinkInv, SplitInv, NEW p \in Pipelines, ThreadStep(p)
  PROVE  SplitInv'
<1>ty. thread \in [Pipelines -> Steps]
  BY DEF TypeInv, TypeOK, ReceiverTypeOK
<1>1. CASE ReadFrame(p)
  BY <1>1, FrameSplits
<1>2. CASE Deliver(p)
  BY <1>2, NalIsHanded
<1>3. CASE \/ Bind(p) \/ BindFails(p) \/ LoopEnds(p) \/ Accept(p) \/ SetClient(p)
           \/ Handshake(p) \/ HandshakeFails(p) \/ NewConnection(p) \/ Check(p)
  <2>1. UNCHANGED <<pending, todo, taken, handed>>
    BY <1>3 DEF Bind, BindFails, LoopEnds, Accept, SetClient, Handshake, HandshakeFails,
                NewConnection, Check, streamVars
  <2>2. \E from, to \in Steps \ {"deliver"} : Goto(p, from, to)
    BY <1>3 DEF Bind, BindFails, LoopEnds, Accept, SetClient, Handshake, HandshakeFails,
                NewConnection, Check, NextConnection, Steps
  <2>3. \A q \in Pipelines : thread[q] = "deliver" <=> thread'[q] = "deliver"
    BY <2>2, <1>ty DEF Goto
  <2>. QED BY <2>1, <2>3, SplitStays
<1>4. CASE CloseConnection(p)
  <2>1. /\ pending' = [pending EXCEPT ![p] = <<>>] /\ taken' = [taken EXCEPT ![p] = <<>>]
        /\ handed' = [handed EXCEPT ![p] = <<>>] /\ todo' = todo
        /\ thread[p] \in {"check", "read"}
        /\ thread' = [thread EXCEPT ![p] = NextConnection(p)]
    BY <1>4 DEF CloseConnection, Leave, Goto
  <2>2. /\ pending \in [Pipelines -> Seq(Nat)] /\ taken \in [Pipelines -> Seq(Nat)]
        /\ handed \in [Pipelines -> Seq(Seq(Nat))] /\ todo \in [Pipelines -> Seq(Seq(Nat))]
        /\ \A q \in Pipelines : Splits(q)
    BY DEF TypeInv, Bytes, SplitInv
  <2>3. todo[p] = <<>> /\ NextConnection(p) # "deliver"
    BY <2>1, <2>2 DEF Splits, NextConnection
  <2>4. Splits(p)'
    <3>1. /\ pending'[p] = <<>> /\ taken'[p] = <<>> /\ handed'[p] = <<>> /\ todo'[p] = <<>>
          /\ thread'[p] # "deliver"
      BY <2>1, <2>2, <2>3, <1>ty
    <3>. QED BY <3>1, NothingSplits DEF Splits
  <2>5. ASSUME NEW q \in Pipelines, q # p PROVE Splits(q)'
    <3>1. /\ pending'[q] = pending[q] /\ taken'[q] = taken[q] /\ handed'[q] = handed[q]
          /\ todo'[q] = todo[q] /\ thread'[q] = thread[q]
      BY <2>1, <2>2, <2>5, <1>ty
    <3>2. Splits(q)
      BY <2>2
    <3>. QED BY <3>1, <3>2 DEF Splits
  <2>6. /\ pending' \in [Pipelines -> Seq(Nat)]
        /\ handed' \in [Pipelines -> Seq(Seq(Nat))] /\ todo' \in [Pipelines -> Seq(Seq(Nat))]
    BY <2>1, <2>2, NothingSplits
  <2>. QED BY <2>4, <2>5, <2>6 DEF SplitInv
<1>. QED BY <1>1, <1>2, <1>3, <1>4 DEF ThreadStep

LEMMA SplitPreserved == IsolationInv /\ PathInv /\ SplitInv /\ [Next]_vars => SplitInv'
<1>. SUFFICES ASSUME IsolationInv, PathInv, SplitInv, [Next]_vars PROVE SplitInv'
  OBVIOUS
<1>1. CASE (RelayNext /\ UNCHANGED receiverVars) \/ UNCHANGED vars
  <2>1. UNCHANGED <<pending, todo, taken, handed, thread>>
    BY <1>1 DEF vars, receiverVars, threadVars
  <2>. QED BY <2>1, SplitStays
<1>2. CASE MainStep
  BY <1>2, MainSplits
<1>3. ASSUME NEW p \in Pipelines, ThreadStep(p) PROVE SplitInv'
  BY <1>3, ThreadSplits DEF PathInv
<1>. QED BY <1>1, <1>2, <1>3 DEF Next

\* "it doesn't care where the chunk boundaries fall" (tcp-ws-relay main.rs 30): for
\* every stream and every way to cut it, what a connection has handed to onNal and
\* is about to are the NAL units of the bytes it has read.
THEOREM ChunksDoNotMatter == Spec => []ChunkingIndependent
<1>1. SplitInv => ChunkingIndependent
  BY DEF SplitInv, Splits, ChunkingIndependent, Reading
<1>. QED BY IsolationInitially, IsolationPreserved, PathInitially, PathPreserved,
            SplitInitially, SplitPreserved, <1>1, PTL DEF Spec
=============================================================================
