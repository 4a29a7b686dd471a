------------------------------- MODULE Receiver -------------------------------
(***************************************************************************)
(* The receiving half of the Android app: the main thread starts and stops *)
(* one pipeline after the other as the surface comes and goes, and the     *)
(* WebSocketServer of each accepts connections on a thread of its own.     *)
(***************************************************************************)
EXTENDS WebSocketLink, NalSplitter

VARIABLES
  main,       \* where the main thread is in startPipeline and stopPipeline
  started,    \* the pipelines it has started
  decoder,    \* MainActivity.decoder: the pipeline it belongs to, 0 for null
  outlived,   \* a join has timed out
  running,    \* WebSocketServer.running
  client,     \* WebSocketServer.clientSocket, 0 for null
  thread,     \* where the server's thread is
  serving,    \* the connection handleConnection is about
  pending,    \* what its splitter keeps
  todo,       \* NAL units of the last frame that are not handed over yet
  taken,      \* the bytes it has read
  handed,     \* the NAL units it has handed to onNal
  strayed     \* a thread has called the decoder of another pipeline

threadVars == <<running, client, thread, serving, pending, todo, taken, handed, strayed>>
receiverVars == <<main, started, decoder, outlived, threadVars>>

Steps == {"none", "bind", "accept", "accepted", "handshake", "greet",
          "check", "read", "deliver", "exit", "over"}

ReceiverTypeOK ==
  /\ main \in {"idle", "await", "up", "stopping", "joining"}
  /\ started \in Pipelines \cup {0} /\ decoder \in Pipelines \cup {0}
  /\ outlived \in BOOLEAN /\ strayed \in BOOLEAN
  /\ running \in [Pipelines -> BOOLEAN]
  /\ client \in [Pipelines -> Relays \cup {0}]
  /\ thread \in [Pipelines -> Steps]
  /\ serving \in [Pipelines -> Relays \cup {0}]

ReceiverInit ==
  /\ main = "idle" /\ started = 0 /\ decoder = 0
  /\ outlived = FALSE /\ strayed = FALSE
  /\ running = [p \in Pipelines |-> FALSE]
  /\ client = [p \in Pipelines |-> 0]
  /\ thread = [p \in Pipelines |-> "none"]
  /\ serving = [p \in Pipelines |-> 0]
  /\ pending = [p \in Pipelines |-> <<>>]
  /\ todo = [p \in Pipelines |-> <<>>]
  /\ taken = [p \in Pipelines |-> <<>>]
  /\ handed = [p \in Pipelines |-> <<>>]

-----------------------------------------------------------------------------
(* The main thread: startPipeline and stopPipeline.                        *)

StartPipeline ==
  LET p == started + 1 IN
  /\ main = "idle" /\ p \in Pipelines
  /\ main' = "await" /\ started' = p /\ decoder' = p
  /\ running' = [running EXCEPT ![p] = TRUE]
  /\ thread' = [thread EXCEPT ![p] = "bind"]
  /\ UNCHANGED <<outlived, client, serving, pending, todo, taken,
                 handed, strayed, linkVars>>

\* The latch was counted down, by success or by failure, or 2 s are over; the
\* service is advertised in each case.
Advertise ==
  /\ main = "await" /\ main' = "up"
  /\ UNCHANGED <<started, decoder, outlived, threadVars, linkVars>>

\* The surface is destroyed: nsdAdvertiser.stop, then running is cleared.
StopBegins ==
  /\ main = "up" /\ main' = "stopping"
  /\ running' = [running EXCEPT ![started] = FALSE]
  /\ UNCHANGED <<started, decoder, outlived, client, thread, serving, pending,
                 todo, taken, handed, strayed, linkVars>>

\* clientSocket?.close() and serverSocket?.close(): both are null as long as
\* the thread has not got as far as that.
CloseSockets ==
  /\ main = "stopping" /\ main' = "joining"
  /\ LET c == client[started]
         listens == server[started] = "listening"
     IN  /\ server' = IF listens THEN [server EXCEPT ![started] = "closed"] ELSE server
         /\ link' = [r \in Relays |->
              IF r = c \/ (listens /\ peer[r] = started /\ link[r] = "queued")
                THEN "closed" ELSE link[r]]
         /\ wire' = [r \in Relays |-> IF r = c THEN <<>> ELSE wire[r]]
  /\ UNCHANGED <<hung, peer, started, decoder, outlived, threadVars>>

\* stop() does not wait for the thread.
MutantDoesNotWait ==
  /\ main = "joining" /\ main' = "idle" /\ decoder' = 0
  /\ UNCHANGED <<started, outlived, threadVars, linkVars>>

\* join(1000), then decoder.stop and the field is cleared.
Join ==
  /\ main = "joining" /\ main' = "idle" /\ decoder' = 0
  /\ outlived' = (outlived \/ thread[started] # "over")
  /\ UNCHANGED <<started, threadVars, linkVars>>

-----------------------------------------------------------------------------
(* The thread of one server: runLoop.                                      *)

Goto(p, from, to) ==
  /\ thread[p] = from /\ thread' = [thread EXCEPT ![p] = to]

mainVars == <<main, started, decoder, outlived>>
streamVars == <<pending, todo, taken, handed, strayed>>

\* while (running.get()), checked with the step that comes before.
NextConnection(p) == IF running[p] THEN "accept" ELSE "exit"

Bind(p) ==
  /\ Goto(p, "bind", NextConnection(p)) /\ Listening = {}
  /\ server' = [server EXCEPT ![p] = "listening"]
  /\ UNCHANGED <<link, hung, peer, wire, running, client, serving, streamVars, mainVars>>

BindFails(p) ==
  /\ Goto(p, "bind", "over")
  /\ running' = [running EXCEPT ![p] = FALSE]
  /\ UNCHANGED <<client, serving, streamVars, mainVars, linkVars>>

\* accept throws, or the check has failed.
LoopEnds(p) ==
  /\ \/ Goto(p, "exit", "over")
     \/ Goto(p, "accept", "over") /\ server[p] = "closed"
  /\ IF server[p] = "listening" THEN CloseListening(p) ELSE UNCHANGED linkVars
  /\ UNCHANGED <<running, client, serving, streamVars, mainVars>>

Accept(p) ==
  /\ Goto(p, "accept", "accepted") /\ server[p] = "listening"
  /\ \E r \in Relays :
       /\ peer[r] = p /\ link[r] = "queued"
       /\ link' = [link EXCEPT ![r] = "served"]
       /\ serving' = [serving EXCEPT ![p] = r]
  /\ UNCHANGED <<hung, peer, wire, server, running, client, streamVars, mainVars>>

SetClient(p) ==
  /\ Goto(p, "accepted", "handshake")
  /\ client' = [client EXCEPT ![p] = serving[p]]
  /\ UNCHANGED <<running, serving, streamVars, mainVars, linkVars>>

-----------------------------------------------------------------------------
(* handleConnection.                                                       *)

Handshake(p) ==
  /\ Goto(p, "handshake", "greet") /\ link[serving[p]] = "served"
  /\ link' = [link EXCEPT ![serving[p]] = "upgraded"]
  /\ UNCHANGED <<hung, peer, wire, server, running, client, serving, streamVars, mainVars>>

\* Back to the accept loop, with the socket as it is.
HandshakeFails(p) ==
  /\ Goto(p, "handshake", NextConnection(p))
  /\ link[serving[p]] = "closed" \/ hung[serving[p]]
  /\ client' = [client EXCEPT ![p] = 0]
  /\ serving' = [serving EXCEPT ![p] = 0]
  /\ UNCHANGED <<running, streamVars, mainVars, linkVars>>

\* The callbacks read MainActivity.decoder when they are called.
Strays(p) == strayed' = (strayed \/ decoder \notin {0, p})

\* onNewConnection, and a new splitter, which ends with the connection.
NewConnection(p) ==
  /\ Goto(p, "greet", "check") /\ Strays(p)
  /\ UNCHANGED <<pending, todo, taken, handed, running, client, serving, mainVars, linkVars>>

\* A loop that trusts the closed socket to end it.
MutantNeverChecks(p) ==
  /\ Goto(p, "check", "read")
  /\ UNCHANGED <<running, client, serving, streamVars, mainVars, linkVars>>

\* while (running.get())
Check(p) ==
  /\ running[p] /\ Goto(p, "check", "read")
  /\ UNCHANGED <<running, client, serving, streamVars, mainVars, linkVars>>

\* readFrame, then push.
ReadFrame(p) ==
  LET r == serving[p] IN
  /\ thread[p] = "read" /\ link[r] # "closed" /\ wire[r] # <<>>
  /\ LET s == Push(pending[p], Head(wire[r])) IN
       /\ Goto(p, "read", IF s.nals = <<>> THEN "check" ELSE "deliver")
       /\ pending' = [pending EXCEPT ![p] = s.pending]
       /\ todo' = [todo EXCEPT ![p] = s.nals]
  /\ taken' = [taken EXCEPT ![p] = @ \o Head(wire[r])]
  /\ wire' = [wire EXCEPT ![r] = Tail(@)]
  /\ UNCHANGED <<link, hung, peer, server, running, client, serving, handed,
                 strayed, mainVars>>

\* onNal, for one NAL unit of the frame after the other.
Deliver(p) ==
  /\ Goto(p, "deliver", IF Len(todo[p]) = 1 THEN "check" ELSE "deliver")
  /\ Strays(p)
  /\ handed' = [handed EXCEPT ![p] = Append(@, Head(todo[p]))]
  /\ todo' = [todo EXCEPT ![p] = Tail(@)]
  /\ UNCHANGED <<running, client, serving, pending, taken, mainVars, linkVars>>

\* read() throws, or it returns the end of the stream.
ReadEnds(r) == link[r] = "closed" \/ (hung[r] /\ wire[r] = <<>>)

Leave(p, to) ==
  /\ \/ Goto(p, "check", to) /\ ~running[p]
     \/ Goto(p, "read", to) /\ ReadEnds(serving[p])
  /\ CloseByApp(serving[p])
  /\ client' = [client EXCEPT ![p] = 0]
  /\ serving' = [serving EXCEPT ![p] = 0]
  /\ pending' = [pending EXCEPT ![p] = <<>>]
  /\ taken' = [taken EXCEPT ![p] = <<>>]
  /\ handed' = [handed EXCEPT ![p] = <<>>]
  /\ UNCHANGED <<running, todo, strayed, mainVars>>

\* A server that takes one connection only.
MutantServesOnce(p) == Leave(p, "over")

\* running was cleared, the socket was closed, or the relay is gone.
CloseConnection(p) == Leave(p, NextConnection(p))

ThreadStep(p) ==
  \/ Bind(p) \/ BindFails(p) \/ LoopEnds(p) \/ Accept(p) \/ SetClient(p)
  \/ Handshake(p) \/ HandshakeFails(p) \/ NewConnection(p) \/ Check(p)
  \/ ReadFrame(p) \/ Deliver(p) \/ CloseConnection(p)

Closing == CloseSockets \/ Join
MainStep == StartPipeline \/ Advertise \/ StopBegins \/ Closing
=============================================================================
