-------------------------------- MODULE Relay --------------------------------
(***************************************************************************)
(* tcp-ws-relay: one task accepts any number of senders and broadcasts     *)
(* what each TCP read returned, the other forwards the broadcast chunks    *)
(* over one WebSocket connection.  The process ends with the first task.   *)
(***************************************************************************)
EXTENDS WebSocketLink

CONSTANTS
  Senders,   \* the ffmpeg processes that connect, each once
  StreamOf,  \* what each of them sends
  ReadSizes, \* the lengths a TCP read may return
  Capacity   \* BROADCAST_CAPACITY

ASSUME RelayAssumption ==
  /\ \A s \in Senders : StreamOf[s] \in Seq(Nat)
  /\ ReadSizes \subseteq Nat \ {0} /\ Capacity \in Nat \ {0}

VARIABLES
  relay,    \* where the current process of the relay is
  turn,     \* its number, 0 before the first
  connected, \* the senders that have connected
  tcp,      \* what each of them has sent, or will, and its handler has not read
  ring,     \* the broadcast channel, as its only receiver sees it
  lagged,   \* this process has dropped a chunk
  sent      \* the bytes this process has broadcast to a receiver

relayVars == <<relay, turn, connected, tcp, ring, lagged, sent>>

RelayTypeOK ==
  /\ relay \in {"down", "starting", "connecting", "forwarding"}
  /\ turn \in Relays \cup {0}
  /\ connected \subseteq Senders
  /\ \A s \in Senders : Len(tcp[s]) <= Len(StreamOf[s])
  /\ Len(ring) <= Capacity /\ lagged \in BOOLEAN

RelayInit ==
  /\ relay = "down" /\ turn = 0
  /\ connected = {}
  /\ tcp = [s \in Senders |-> <<>>]
  /\ ring = <<>> /\ lagged = FALSE /\ sent = <<>>

Up == relay # "down"

-----------------------------------------------------------------------------
(* The process.                                                            *)

\* main, once discover_android has seen the service or with the URL given on
\* the command line: the TCP task is spawned and runs from here on.
StartRelay ==
  /\ relay = "down" /\ turn + 1 \in Relays
  /\ relay' = "starting" /\ turn' = turn + 1
  /\ UNCHANGED <<connected, tcp, ring, lagged, sent, linkVars>>

\* tx.subscribe(): the receiver begins at the tail of the channel, and its
\* task is spawned.
Subscribe ==
  /\ relay = "starting" /\ relay' = "connecting"
  /\ UNCHANGED <<turn, connected, tcp, ring, lagged, sent, linkVars>>

\* connect_async: the app's socket takes the connection into its backlog.
Connect ==
  /\ relay = "connecting" /\ link[turn] = "none"
  /\ \E p \in Listening : peer' = [peer EXCEPT ![turn] = p]
  /\ link' = [link EXCEPT ![turn] = "queued"]
  /\ UNCHANGED <<hung, wire, server, relayVars>>

\* The handshake was answered.
Connected ==
  /\ relay = "connecting" /\ link[turn] = "upgraded"
  /\ relay' = "forwarding"
  /\ UNCHANGED <<turn, connected, tcp, ring, lagged, sent, linkVars>>

\* The process is gone, and every connection with it.
End ==
  /\ relay' = "down"
  /\ ring' = <<>> /\ sent' = <<>> /\ lagged' = FALSE
  /\ tcp' = [s \in Senders |-> <<>>]
  /\ hung' = [hung EXCEPT ![turn] = link[turn] # "none"]
  /\ UNCHANGED <<turn, connected, link, peer, wire, server>>

\* A task of the relay ends: the connection is refused or was closed, before
\* or after the handshake.
TaskEnds ==
  /\ \/ relay = "connecting" /\ link[turn] = "none" /\ Listening = {}
     \/ Up /\ link[turn] = "closed"
  /\ End

\* The listener cannot bind, accept fails, the user kills it.
RelayDies == Up /\ End

-----------------------------------------------------------------------------
(* run_tcp_listener and handle_tcp_connection.                             *)

SenderConnects(s) ==
  /\ Up /\ s \notin connected /\ connected' = connected \cup {s}
  /\ tcp' = [tcp EXCEPT ![s] = StreamOf[s]]
  /\ UNCHANGED <<relay, turn, ring, lagged, sent, linkVars>>

\* ffmpeg is stopped anywhere in its stream.
SenderStops(s) ==
  /\ tcp[s] # <<>> /\ tcp' = [tcp EXCEPT ![s] = <<>>]
  /\ UNCHANGED <<relay, turn, connected, ring, lagged, sent, linkVars>>

\* The receiver that will forward exists.  main's own, _rx, is never read.
Subscribed == relay \in {"connecting", "forwarding"}

\* A client that subscribes when it is connected.
MutantSubscribesLate(chunk) ==
  IF relay # "forwarding" THEN UNCHANGED <<ring, lagged>>
  ELSE IF Len(ring) = Capacity
    THEN ring' = Append(Tail(ring), chunk) /\ lagged' = TRUE
    ELSE ring' = Append(ring, chunk) /\ UNCHANGED lagged

\* A channel without a bound.
MutantUnbounded(chunk) == ring' = Append(ring, chunk) /\ UNCHANGED lagged

\* A full channel takes the new chunk in the place of the oldest; what nobody
\* has subscribed to yet is gone, and no receiver will count it as skipped.
Broadcast(chunk) ==
  CASE ~Subscribed -> UNCHANGED <<ring, lagged>>
    [] Subscribed /\ Len(ring) = Capacity ->
         ring' = Append(Tail(ring), chunk) /\ lagged' = TRUE
    [] Subscribed /\ Len(ring) # Capacity ->
         ring' = Append(ring, chunk) /\ UNCHANGED lagged

ReadChunk(s) ==
  /\ Up
  /\ tcp[s] # <<>>
  /\ \E size \in ReadSizes :
       LET n == IF size < Len(tcp[s]) THEN size ELSE Len(tcp[s]) IN
       /\ Broadcast(SubSeq(tcp[s], 1, n))
       /\ tcp' = [tcp EXCEPT ![s] = SubSeq(@, n + 1, Len(@))]
       /\ sent' = IF Subscribed THEN sent \o SubSeq(tcp[s], 1, n) ELSE sent
  /\ UNCHANGED <<relay, turn, connected, linkVars>>

-----------------------------------------------------------------------------
(* run_ws_client.                                                          *)

\* One chunk, one binary frame, as soon as the socket takes it.
ForwardChunk ==
  /\ relay = "forwarding" /\ link[turn] = "upgraded"
  /\ ring # <<>> /\ Len(wire[turn]) < WireSize
  /\ wire' = [wire EXCEPT ![turn] = Append(@, Head(ring))]
  /\ ring' = Tail(ring)
  /\ UNCHANGED <<relay, turn, connected, tcp, lagged, sent, link, hung, peer, server>>

RelayTasks == Subscribe \/ Connect \/ Connected \/ TaskEnds \/ ForwardChunk

RelayNext ==
  \/ StartRelay \/ RelayTasks \/ RelayDies
  \/ \E s \in Senders : SenderConnects(s) \/ SenderStops(s) \/ ReadChunk(s)
=============================================================================
