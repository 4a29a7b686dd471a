---------------------------- MODULE WebSocketLink ----------------------------
(***************************************************************************)
(* The WebSocket connections between tcp-ws-relay and the Android app, one *)
(* per process of the relay.                                               *)
(***************************************************************************)
EXTENDS Naturals, Sequences, FiniteSets

CONSTANTS
  Pipelines, \* the receivers the app starts, one after the other: 1..n
  Relays,    \* the processes of the relay, one after the other: 1..m
  WireSize   \* binary frames the sockets' buffers hold

ASSUME LinkAssumption ==
  /\ Cardinality(Pipelines) \in Nat /\ Pipelines = 1..Cardinality(Pipelines)
  /\ Cardinality(Relays) \in Nat /\ Relays = 1..Cardinality(Relays)
  /\ WireSize \in Nat \ {0}

VARIABLES
  link,   \* the app's end of each relay's connection
  hung,   \* the relay has closed its end; what it sent can still be read
  peer,   \* the receiver whose socket it was made to
  wire,   \* the frames on their way
  server  \* the listening socket of each receiver

linkVars == <<link, hung, peer, wire, server>>

\* "queued" waits in the backlog with its upgrade request; "served" was
\* accepted, "upgraded" was answered; "closed" was closed by the app.
LinkStates == {"none", "queued", "served", "upgraded", "closed"}

LinkTypeOK ==
  /\ link \in [Relays -> LinkStates]
  /\ hung \in [Relays -> BOOLEAN]
  /\ peer \in [Relays -> Pipelines \cup {0}]
  /\ \A r \in Relays : Len(wire[r]) <= WireSize
  /\ server \in [Pipelines -> {"none", "listening", "closed"}]

LinkInit ==
  /\ link = [r \in Relays |-> "none"]
  /\ hung = [r \in Relays |-> FALSE]
  /\ peer = [r \in Relays |-> 0]
  /\ wire = [r \in Relays |-> <<>>]
  /\ server = [p \in Pipelines |-> "none"]

\* One port: at most one receiver listens on it.
Listening == {p \in Pipelines : server[p] = "listening"}

\* A socket that stops listening resets what waits in its backlog.
CloseListening(p) ==
  /\ server' = [server EXCEPT ![p] = "closed"]
  /\ link' = [r \in Relays |->
                IF peer[r] = p /\ link[r] = "queued" THEN "closed" ELSE link[r]]
  /\ UNCHANGED <<hung, peer, wire>>

CloseByApp(r) ==
  /\ link' = [link EXCEPT ![r] = "closed"]
  /\ wire' = [wire EXCEPT ![r] = <<>>]
  /\ UNCHANGED <<hung, peer, server>>
=============================================================================
