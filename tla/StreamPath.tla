------------------------------ MODULE StreamPath ------------------------------
(***************************************************************************)
(* The way of a stream from ffmpeg's TCP connection through tcp-ws-relay   *)
(* to the Android app's decoder callback.                                  *)
(***************************************************************************)
EXTENDS Relay, Receiver
LOCAL INSTANCE SequencesExt

vars == <<relayVars, linkVars, receiverVars>>

Init == RelayInit /\ LinkInit /\ ReceiverInit

Next ==
  \/ RelayNext /\ UNCHANGED receiverVars
  \/ MainStep /\ UNCHANGED relayVars
  \/ \E p \in Pipelines : ThreadStep(p) /\ UNCHANGED relayVars

\* What happens by itself: the relay's tasks, the app's threads.
Running ==
  \/ (RelayTasks \/ \E s \in Senders : ReadChunk(s)) /\ UNCHANGED receiverVars
  \/ (Advertise \/ Closing \/ \E p \in Pipelines : ThreadStep(p)) /\ UNCHANGED relayVars

Spec == Init /\ [][Next]_vars
FairSpec == Spec /\ WF_vars(Running)

-----------------------------------------------------------------------------
TypeOK == RelayTypeOK /\ LinkTypeOK /\ ReceiverTypeOK

\* The receivers inside handleConnection's loop.
Reading == {p \in Pipelines : thread[p] \in {"check", "read", "deliver"}}

\* "it doesn't care where the chunk boundaries fall": whatever the reads and
\* the frames, the NAL units a connection hands over, with those of its last
\* frame still to come, are those of the bytes it has read.
ChunkingIndependent ==
  \A p \in Reading : handed[p] \o todo[p] = NalsOf(taken[p])

\* As long as the channel has dropped nothing, the app reads what the relay
\* has read since its client subscribed, in order and from the beginning: none
\* of it is lost before the connection is made, between the tasks, or between
\* two senders.  What the TCP task read before that is not in `sent`: it
\* reaches nobody, and no lag is reported.
NoGap ==
  \A p \in Reading :
    serving[p] = turn /\ Up /\ ~lagged => IsPrefix(taken[p], sent)

\* As long as every join has seen its thread end, no thread of a pipeline that
\* was stopped reaches the decoder of the next.
PipelineIsolation == ~outlived => ~strayed

\* stop() ends the thread whatever it is doing, if not within its second.
StoppedThreadEnds ==
  \A p \in Pipelines :
    (thread[p] # "none" /\ ~running[p]) ~> (thread[p] = "over")

\* What a relay has read reaches the decoder callback unless the relay ends:
\* nothing on the way waits for ever, the app behind a connection whose relay
\* was killed included.
Drained ==
  /\ \A s \in Senders : tcp[s] = <<>>
  /\ ring = <<>> /\ wire[turn] = <<>>
  /\ \A p \in Pipelines : todo[p] = <<>>
EverythingArrives == Up ~> (relay = "down" \/ Drained)
=============================================================================
