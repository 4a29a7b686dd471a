---------------------------- MODULE VideoDecoder ----------------------------
(***************************************************************************)
(* VideoDecoder.kt: the feeder thread turns the NAL units of the current   *)
(* connection into access units for a MediaCodec; the codec's own callback *)
(* thread hands out input buffers.  Each parks what the other has not      *)
(* asked for yet, in two queues without a common lock.  A new connection   *)
(* resets everything; stop() does so from the main thread.                 *)
(***************************************************************************)
EXTENDS Naturals, Sequences, FiniteSets

CONSTANTS
  MaxConns,       \* bound: connections accepted
  StreamOf,       \* [1..MaxConns -> Formats]: what each connection carries
  Headers,        \* [Formats -> SUBSET 0..254]: first bytes of its NAL units
  Buffers,        \* indices of a codec's input buffers
  MaxUnits,       \* bound: access units finished
  MaxPending,     \* bound: length of pendingUnits
  MaxOrphans,     \* bound: codecs that exceptions make the decoder lose
  JoinsMidStream, \* whether a connection may begin away from a keyframe
  None            \* no buffer

Conns == 1..MaxConns
Formats == {"H264", "HEVC"}

ASSUME DecoderAssumption ==
  /\ MaxConns \in Nat \ {0} /\ MaxUnits \in Nat /\ MaxPending \in Nat \ {0}
  /\ MaxOrphans \in Nat
  /\ StreamOf \in [Conns -> Formats] /\ Headers \in [Formats -> SUBSET (0..254)]
  /\ IsFiniteSet(Buffers) /\ None \notin Buffers /\ JoinsMidStream \in BOOLEAN

\* The two ways the same byte is read.
H264Type(b) == b % 32
HevcType(b) == (b % 128) \div 2
NalType(f, b) == IF f = "H264" THEN H264Type(b) ELSE HevcType(b)
ParameterSets(f) == IF f = "H264" THEN {7, 8} ELSE {32, 33, 34}
IsSlice(f, b) == IF f = "H264" THEN H264Type(b) \in 1..5 ELSE HevcType(b) <= 21

VARIABLES
  conn, begun, \* the receiver's connection; whether it delivered a NAL yet
  pending,     \* pendingUnits; header 255 is RESET_MARKER
  running, timedOut, \* running; stop() did not wait for the feeder's end
  pc,          \* the feeder and the main thread
  cur,         \* the feeder's NAL ...
  index,       \* ... and the buffer index it polled
  detected,    \* detectedCodec
  params,      \* the parameter sets stored: <<NAL type, connection>>
  seen,        \* the stream's parameter sets taken since the last reset
  failed,      \* startCodec failed since the last reset
  codec,       \* the codec in use, 0 if none; numbered in creation order
  made, madeFor,     \* codecs created; the connections of their csd
  acc,         \* accessUnit and accessUnitHasSlice
  units,       \* access units finished
  ready, free, \* readyAccessUnits and freeInputBufferIndices
  avail,       \* the buffers each codec has not handed out
  cb,          \* where each codec's callback thread stands
  input,       \* the connections of each access unit a codec was given
  lost,        \* units of the connection being fed, dropped by a submit with
               \* an index or to a codec that a reset has made stale
  thrown,      \* buffers of the codec in use whose own submit threw
  live,        \* codecs created and not released; 0: one that was never started
  orphans      \* of those, the ones an exception made the decoder lose

feed == <<cur, index, detected, params, seen, failed, acc, units>>
net  == <<conn, begun>>
stopping == <<running, timedOut>>
spent == <<lost, thrown>>
surface == <<live, orphans>>
media == <<made, madeFor, avail, cb, input, lost, thrown>>
vars == <<net, pending, stopping, pc, feed, codec, surface, ready, free, media>>

Marker == 255
Nals == [conn : Conns, hdr : 0..Marker]
Units == [conns : SUBSET Conns, n : 1..MaxUnits]
NoUnit == [conns |-> {}, n |-> 0]
NoNal == [conn |-> 0, hdr |-> Marker]
Idle == [at |-> "idle", i |-> None, unit |-> NoUnit]
Empty == [conns |-> {}, slice |-> FALSE]

TypeOK ==
  /\ conn \in 0..MaxConns /\ begun \in BOOLEAN
  /\ pending \in Seq(Nals) /\ Len(pending) <= MaxPending
  /\ running \in BOOLEAN /\ timedOut \in BOOLEAN
  /\ pc \in [feeder : {"take", "configure", "gather", "offer", "queue", "release",
                        "clear_ready", "clear_free", "done"},
             main : {"run", "join", "release", "clear_ready", "clear_free", "done"}]
  /\ cur \in Nals \cup {NoNal} /\ index \in Buffers \cup {None}
  /\ detected \in Formats \cup {"none"}
  /\ params \subseteq (UNION {ParameterSets(f) : f \in Formats}) \X Conns
  /\ seen \subseteq UNION {ParameterSets(f) : f \in Formats} /\ failed \in BOOLEAN
  /\ made \in 0..MaxConns /\ codec \in 0..made
  /\ acc \in [conns : SUBSET Conns, slice : BOOLEAN]
  /\ units \in 0..MaxUnits
  /\ ready \in Seq(Units) /\ free \in Seq(Buffers)
  /\ madeFor \in [Conns -> SUBSET Conns] /\ avail \in [Conns -> SUBSET Buffers]
  /\ cb \in [Conns -> [at : {"idle", "poll", "park", "submit"}, i : Buffers \cup {None},
                       unit : Units \cup {NoUnit}]]
  /\ input \in [Conns -> SUBSET (SUBSET Conns)]
  /\ lost \in 0..MaxUnits /\ thrown \subseteq Buffers
  /\ live \subseteq 0..MaxConns /\ orphans \subseteq 0..MaxConns

Init ==
  /\ conn = 0 /\ begun = FALSE /\ pending = <<>>
  /\ running = TRUE /\ timedOut = FALSE
  /\ pc = [feeder |-> "take", main |-> "run"]
  /\ cur = NoNal /\ index = None /\ detected = "none" /\ params = {} /\ seen = {}
  /\ failed = FALSE
  /\ codec = 0 /\ made = 0 /\ madeFor = [g \in Conns |-> {}]
  /\ acc = Empty /\ units = 0
  /\ ready = <<>> /\ free = <<>>
  /\ avail = [g \in Conns |-> {}] /\ cb = [g \in Conns |-> Idle]
  /\ input = [g \in Conns |-> {}] /\ lost = 0 /\ thrown = {}
  /\ live = {} /\ orphans = {}

Goto(p, from, to) == pc[p] = from /\ pc' = [pc EXCEPT ![p] = to]

-----------------------------------------------------------------------------
(* The receiver's thread.                                                  *)

OnNewConnection ==
  /\ running /\ conn < MaxConns /\ Len(pending) < MaxPending
  /\ conn' = conn + 1 /\ begun' = FALSE
  /\ pending' = Append(pending, [conn |-> conn', hdr |-> Marker])
  /\ UNCHANGED <<stopping, pc, feed, codec, surface, ready, free, media>>

OnNal ==
  /\ running /\ conn > 0 /\ Len(pending) < MaxPending
  /\ \E b \in Headers[StreamOf[conn]] :
       /\ begun \/ JoinsMidStream
          \/ NalType(StreamOf[conn], b) \in ParameterSets(StreamOf[conn])
       /\ pending' = Append(pending, [conn |-> conn, hdr |-> b])
  /\ begun' = TRUE
  /\ UNCHANGED <<conn, stopping, pc, feed, codec, surface, ready, free, media>>

-----------------------------------------------------------------------------
(* feedLoop.                                                               *)

\* detectCodec: the H.264 reading comes first.
DetectCodec(b) ==
  IF H264Type(b) \in ParameterSets("H264") THEN "H264"
  ELSE IF HevcType(b) \in ParameterSets("HEVC") THEN "HEVC" ELSE "none"

\* handleH264ParameterSet, handleHevcParameterSet.
Store(f, nal) ==
  LET k == NalType(f, nal.hdr)
  IN IF k \in ParameterSets(f)
       THEN {p \in params : p[1] # k} \cup {<<k, nal.conn>>} ELSE params
Complete(f, sets) == ParameterSets(f) \subseteq {p[1] : p \in sets}

TakeMarker ==
  /\ running /\ pending # <<>> /\ Head(pending).hdr = Marker
  /\ Goto("feeder", "take", "release")
  /\ pending' = Tail(pending) /\ cur' = Head(pending)
  /\ UNCHANGED <<net, stopping, index, detected, params, seen, failed, acc, units,
                 codec, surface, ready, free, media>>

TakeNal ==
  /\ running /\ pending # <<>> /\ Head(pending).hdr # Marker
  /\ LET nal == Head(pending)
         s == StreamOf[nal.conn]
         f == IF detected = "none" THEN DetectCodec(nal.hdr) ELSE detected
     IN /\ cur' = nal /\ detected' = f /\ seen' = seen \cup ({NalType(s, nal.hdr)} \cap ParameterSets(s))
        /\ params' = IF f = "none" THEN params ELSE Store(f, nal)
        /\ Goto("feeder", "take",
                CASE codec # 0 -> "gather"
                  [] codec = 0 /\ f # "none" /\ Complete(f, params') -> "configure"
                  [] OTHER -> "take")
  /\ pending' = Tail(pending)
  /\ UNCHANGED <<net, stopping, index, failed, acc, units, codec, surface, ready, free, media>>

\* The field set before the codec has started.
MutantAssignsEarly ==
  /\ Goto("feeder", "configure", "gather")
  /\ codec' = made + 1
  /\ \/ /\ made' = made + 1
        /\ madeFor' = [madeFor EXCEPT ![made'] = {p[2] : p \in params}]
        /\ avail' = [avail EXCEPT ![made'] = Buffers]
        /\ live' = live \cup {made'} /\ UNCHANGED <<failed, orphans>>
     \/ failed' = TRUE /\ UNCHANGED <<made, madeFor, avail, surface>>
  /\ UNCHANGED <<net, pending, stopping, cur, index, detected, params, seen, acc, units,
                 ready, free, cb, input, spent>>

\* An exception takes codec g from the decoder as it is.
Loses(g) == Cardinality(orphans) < MaxOrphans /\ orphans' = orphans \cup {g}

\* startCodec; on an exception the loop goes on without a codec, and a codec
\* that configure() or start() threw on stays as it is, with the surface.
Configure ==
  /\ Goto("feeder", "configure", "gather")
  /\ \/ /\ made' = made + 1 /\ codec' = made'
        /\ madeFor' = [madeFor EXCEPT ![made'] = {p[2] : p \in params}]
        /\ avail' = [avail EXCEPT ![made'] = Buffers]
        /\ live' = live \cup {made'} /\ UNCHANGED <<failed, orphans>>
     \/ /\ failed' = TRUE /\ UNCHANGED <<codec, made, madeFor, avail>>
        /\ \/ UNCHANGED surface
           \/ Loses(0) /\ live' = live \cup {0}
  /\ UNCHANGED <<net, pending, stopping, cur, index, detected, params, seen, acc, units,
                 ready, free, cb, input, spent>>

Completes == ~IsSlice(detected, cur.hdr) /\ acc.slice

Gather ==
  /\ Goto("feeder", "gather", "take") /\ ~Completes
  /\ acc' = [conns |-> acc.conns \cup {cur.conn},
             slice |-> acc.slice \/ IsSlice(detected, cur.hdr)]
  /\ UNCHANGED <<net, pending, stopping, cur, index, detected, params, seen, failed, units,
                 codec, surface, ready, free, media>>

\* A submit that leaves the index in the queue.
MutantPeeks ==
  /\ Completes /\ units < MaxUnits
  /\ units' = units + 1
  /\ IF codec = 0 THEN Goto("feeder", "gather", "gather") /\ acc' = Empty /\ UNCHANGED <<index, free>>
     ELSE /\ Goto("feeder", "gather", IF free = <<>> THEN "offer" ELSE "queue")
          /\ index' = IF free = <<>> THEN None ELSE Head(free)
          /\ UNCHANGED <<acc, free>>
  /\ UNCHANGED <<net, pending, stopping, cur, detected, params, seen, failed, codec, surface, ready, media>>

\* flushAccessUnit and submitToCodec up to the poll of the free indices.
SubmitToCodec ==
  /\ Completes /\ units < MaxUnits
  /\ units' = units + 1
  /\ IF codec = 0 THEN Goto("feeder", "gather", "gather") /\ acc' = Empty /\ UNCHANGED <<index, free>>
     ELSE /\ Goto("feeder", "gather", IF free = <<>> THEN "offer" ELSE "queue")
          /\ index' = IF free = <<>> THEN None ELSE Head(free)
          /\ free' = IF free = <<>> THEN free ELSE Tail(free)
          /\ UNCHANGED acc
  /\ UNCHANGED <<net, pending, stopping, cur, detected, params, seen, failed, codec, surface, ready, media>>

Unit == [conns |-> acc.conns, n |-> units]

OfferUnit ==
  /\ Goto("feeder", "offer", "gather")
  /\ ready' = Append(ready, Unit) /\ acc' = Empty
  /\ UNCHANGED <<net, pending, stopping, cur, index, detected, params, seen, failed, units,
                 codec, surface, free, media>>

\* Index i of codec g is the client's to fill.
Takes(g, i) == g # 0 /\ g = codec /\ i \notin avail[g]

\* submitToInputBuffer: the codec takes the unit; or putting it in or queueing
\* it throws, and the buffer is neither queued nor parked again; or the index is
\* not the client's, or the codec released, and that throws.
Submit(g, i, u) ==
  \/ /\ Takes(g, i)
     /\ input' = [input EXCEPT ![g] = @ \cup {u.conns}]
     /\ avail' = [avail EXCEPT ![g] = @ \cup {i}]
     /\ thrown' = thrown \ {i}
     /\ UNCHANGED lost
  \/ /\ Takes(g, i)
     /\ thrown' = thrown \cup {i}
     /\ UNCHANGED <<input, avail, lost>>
  \/ /\ ~Takes(g, i)
     /\ lost' = IF cur.conn \in u.conns THEN lost + 1 ELSE lost
     /\ UNCHANGED <<input, avail, thrown>>

QueueUnit ==
  /\ Goto("feeder", "queue", "gather")
  /\ Submit(codec, index, Unit)
  /\ acc' = Empty /\ index' = None
  /\ UNCHANGED <<net, pending, stopping, cur, detected, params, seen, failed, units,
                 codec, surface, ready, free, made, madeFor, cb>>

FeederEnds ==
  /\ ~running /\ Goto("feeder", "take", "done")
  /\ UNCHANGED <<net, pending, stopping, feed, codec, surface, ready, free, media>>

-----------------------------------------------------------------------------
(* releaseCodecAndState, on the feeder or, from stop(), on the main thread. *)

\* The detected format latched for the life of the decoder.
MutantKeepsDetection(p) ==
  /\ Goto(p, "release", "clear_ready")
  /\ codec' = 0 /\ params' = {} /\ seen' = {} /\ failed' = FALSE
  /\ live' = live \ ({codec} \ {0}) /\ acc' = Empty /\ thrown' = {}
  /\ UNCHANGED <<net, pending, stopping, cur, index, detected, units, orphans, ready, free, made,
                 madeFor, avail, cb, input, lost>>

\* codec?.stop() and codec?.release(): an exception of the first skips the
\* second, and the reference is dropped all the same.
Release ==
  /\ \/ live' = live \ ({codec} \ {0}) /\ UNCHANGED orphans
     \/ codec # 0 /\ Loses(codec) /\ UNCHANGED live
  /\ avail' = [g \in Conns |-> IF g = codec THEN {} ELSE avail[g]] /\ thrown' = {}

ReleaseCodec(p) ==
  /\ Goto(p, "release", "clear_ready")
  /\ Release
  /\ codec' = 0 /\ detected' = "none" /\ params' = {} /\ seen' = {} /\ failed' = FALSE
  /\ acc' = Empty
  /\ UNCHANGED <<net, pending, stopping, cur, index, units, ready, free, made, madeFor, cb, input, lost>>

\* A reset that leaves finished access units in their queue.
MutantKeepsReady(p) ==
  /\ Goto(p, "clear_ready", "clear_free")
  /\ UNCHANGED <<net, pending, stopping, feed, codec, surface, ready, free, media>>

ClearReady(p) ==
  /\ Goto(p, "clear_ready", "clear_free")
  /\ ready' = <<>>
  /\ UNCHANGED <<net, pending, stopping, feed, codec, surface, free, media>>

\* Last, and on the main thread pendingUnits too.
ClearFree(p) ==
  /\ Goto(p, "clear_free", IF p = "main" THEN "done" ELSE "take")
  /\ free' = <<>>
  /\ pending' = IF p = "main" THEN <<>> ELSE pending
  /\ UNCHANGED <<net, stopping, feed, codec, surface, ready, media>>

-----------------------------------------------------------------------------
(* The callback threads: events stop with the release of their codec, the  *)
(* one under way goes on.  A codec that throws from stop() is in its error *)
(* state and has no more events and takes no more buffers.                 *)

InputAvailable(g) ==
  /\ g = codec /\ cb[g] = Idle
  /\ \E i \in avail[g] :
       /\ avail' = [avail EXCEPT ![g] = @ \ {i}]
       /\ cb' = [cb EXCEPT ![g] = [Idle EXCEPT !.at = "poll", !.i = i]]
  /\ UNCHANGED <<net, pending, stopping, pc, feed, codec, surface, ready, free, made, madeFor, input, spent>>

\* A buffer nobody waits for is forgotten.
MutantForgets(g) ==
  /\ cb[g].at = "poll"
  /\ cb' = [cb EXCEPT ![g] = IF ready = <<>> THEN Idle
                             ELSE [@ EXCEPT !.at = "submit", !.unit = Head(ready)]]
  /\ ready' = IF ready = <<>> THEN ready ELSE Tail(ready)
  /\ UNCHANGED <<net, pending, stopping, pc, feed, codec, surface, free, made, madeFor, avail, input, spent>>

\* A callback that only parks its buffer.
MutantOnlyParks(g) ==
  /\ cb[g].at = "poll"
  /\ cb' = [cb EXCEPT ![g] = [@ EXCEPT !.at = "park"]]
  /\ UNCHANGED <<net, pending, stopping, pc, feed, codec, surface, ready, free, made, madeFor, avail, input, spent>>

PollReady(g) ==
  /\ cb[g].at = "poll"
  /\ cb' = [cb EXCEPT ![g] = IF ready = <<>> THEN [@ EXCEPT !.at = "park"]
                             ELSE [@ EXCEPT !.at = "submit", !.unit = Head(ready)]]
  /\ ready' = IF ready = <<>> THEN ready ELSE Tail(ready)
  /\ UNCHANGED <<net, pending, stopping, pc, feed, codec, surface, free, made, madeFor, avail, input, spent>>

ParkIndex(g) ==
  /\ cb[g].at = "park"
  /\ cb' = [cb EXCEPT ![g] = Idle]
  /\ free' = Append(free, cb[g].i)
  /\ UNCHANGED <<net, pending, stopping, pc, feed, codec, surface, ready, made, madeFor, avail, input, spent>>

SubmitReady(g) ==
  /\ cb[g].at = "submit"
  /\ Submit(g, cb[g].i, cb[g].unit)
  /\ cb' = [cb EXCEPT ![g] = Idle]
  /\ UNCHANGED <<net, pending, stopping, pc, feed, codec, surface, ready, free, made, madeFor>>

-----------------------------------------------------------------------------
(* stop(), on the main thread.                                             *)

Stop ==
  /\ Goto("main", "run", "join")
  /\ running' = FALSE
  /\ UNCHANGED <<net, pending, timedOut, feed, codec, surface, ready, free, media>>

\* stop() that does not wait for the feeder.
MutantDoesNotJoin ==
  /\ Goto("main", "join", "release")
  /\ UNCHANGED <<net, pending, stopping, feed, codec, surface, ready, free, media>>

\* join(1000).
Join ==
  /\ Goto("main", "join", "release")
  /\ \/ pc["feeder"] = "done" /\ UNCHANGED timedOut
     \/ pc["feeder"] # "done" /\ timedOut' = TRUE
  /\ UNCHANGED <<net, pending, running, feed, codec, surface, ready, free, media>>

Feeder ==
  \/ TakeMarker \/ TakeNal \/ Configure \/ Gather \/ SubmitToCodec \/ OfferUnit
  \/ QueueUnit \/ FeederEnds

Callback(g) ==
  InputAvailable(g) \/ PollReady(g) \/ ParkIndex(g) \/ SubmitReady(g)

Next ==
  \/ OnNewConnection \/ OnNal \/ Feeder \/ Stop \/ Join
  \/ \E p \in {"feeder", "main"} : ReleaseCodec(p) \/ ClearReady(p) \/ ClearFree(p)
  \/ \E g \in Conns : Callback(g)

Spec == Init /\ [][Next]_vars
-----------------------------------------------------------------------------
(* Properties.                                                             *)

\* VideoDecoder.kt 135-145: no codec made from one connection's parameter
\* sets is ever given an access unit of another, however late the old
\* connection's callbacks are.
OneStreamPerCodec ==
  \A g \in Conns : \A c \in input[g] : madeFor[g] = c /\ Cardinality(c) = 1

\* VideoDecoder.kt 90-95, 379-396: what the codec in use handed out is parked or
\* in some thread's hands, but for the buffers whose own submit threw: those are
\* dropped, against "no input buffer is ever silently dropped".
BuffersAccounted ==
  running /\ codec # 0 =>
    \A i \in Buffers \ (avail[codec] \cup thrown) :
      \/ \E k \in 1..Len(free) : free[k] = i
      \/ i = index \/ \E g \in Conns : cb[g].i = i

\* VideoDecoder.kt 95-99: the two queues can both hold something only by the
\* narrow race, and it does not add up: at most one pair misses per callback
\* thread there has been.
MissesDoNotAddUp == Len(ready) <= made \/ Len(free) <= made

\* VideoDecoder.kt 151-174: a reset may cost the new connection what an old
\* callback under way gets in the way of, and no more than one access unit;
\* without a reset the only units lost are those whose own submit threw (379-396).
OneLossPerReset == running => lost = 0 \/ lost < made

\* VideoDecoder.kt 22-37: when all the parameter sets of its stream have gone
\* by since a connection began, the decoder has been configured.
Bootstraps ==
  pc["feeder"] = "take" /\ cur.hdr # Marker
    /\ seen = ParameterSets(StreamOf[cur.conn])
  => codec # 0 \/ failed

\* VideoDecoder.kt 121-128, 151-158, 344-351: every codec there is is the one in
\* use or one that an exception of its own made the decoder lose, so a reset never
\* leaves the old codec on the surface for the next; and after stop() none is in
\* use.  A feeder that outlasts the join is apart (timedOut).
StoppedReleasesCodec ==
  ~timedOut =>
    /\ live \ orphans \subseteq {codec} \ {0}
    /\ pc["main"] = "done" /\ pc["feeder"] = "done" => codec = 0
=============================================================================
