------------------------- MODULE VideoDecoderProofs -------------------------
(***************************************************************************)
(* TLAPS proofs of VideoDecoder's safety properties for any number of      *)
(* connections, buffers and access units.                                  *)
(***************************************************************************)
EXTENDS VideoDecoder, Integers, FiniteSetTheorems, SequenceTheorems, TLAPS

\* stop() is past the join; a unit is on its way to a buffer; callbacks that are
\* about to submit, to park an index, or under way at all.
Released == pc["main"] \in {"clear_ready", "clear_free", "done"}
Finished == pc["feeder"] \in {"offer", "queue"}
Submitting == {g \in Conns : cb[g].at = "submit"}
Parking == {g \in Conns : cb[g].at = "park"}
Busy == {g \in Conns : cb[g].at # "idle"}
Has(b) == IF b THEN 1 ELSE 0

\* A buffer that a throw cost is not the codec's own, and a codec that was not lost
\* to an exception and not released is the one in use.
LeftInv ==
  /\ codec # 0 => avail[codec] \cap thrown = {}
  /\ codec = 0 => thrown = {}
  /\ live \ orphans \subseteq {codec} \ {0}

\* Which locals of the feeder are set at which of its steps.
ControlInv ==
  /\ running <=> pc["main"] = "run"
  /\ index # None <=> pc["feeder"] = "queue"
  /\ pc["feeder"] \in {"configure", "clear_ready", "clear_free"} => codec = 0
  /\ Finished => units # 0
  /\ pc["feeder"] \in {"configure", "gather", "offer", "queue"} => cur.conn # 0

\* A callback has a buffer while it runs, and a unit while it submits one.
CbInv ==
  \A g \in Conns :
    /\ cb[g].at = "idle" => cb[g] = Idle
    /\ cb[g].at # "idle" => cb[g].i \in Buffers
    /\ cb[g].at = "submit" => cb[g].unit \in Units

\* Every unit that exists somewhere was counted when it was finished.
CountInv == lost + Len(ready) + Cardinality(Submitting) + Has(Finished) <= units

\* What comes before the k-th NAL unit of the queue, and the last one of all.
Before(k) == IF k = 1 THEN cur ELSE pending[k - 1]
Last == IF pending = <<>> THEN cur ELSE pending[Len(pending)]

\* The queue of NAL units: a marker begins each connection, in order, and a stream
\* begins with a parameter set unless a sender may join in the middle of one.
PendingInv ==
  running =>
    /\ \A k \in 1..Len(pending) :
         IF pending[k].hdr = Marker THEN pending[k].conn = Before(k).conn + 1
         ELSE /\ pending[k].conn = Before(k).conn
              /\ Before(k).hdr = Marker =>
                   JoinsMidStream \/ NalType(StreamOf[pending[k].conn], pending[k].hdr)
                                       \in ParameterSets(StreamOf[pending[k].conn])
    /\ Last.conn = conn /\ (Last.hdr = Marker => ~begun)

\* There is at most one codec per connection that the feeder has got to, and one
\* that has not been made has no buffers, input or callbacks.
MadeInv ==
  /\ made <= cur.conn
  /\ pc["feeder"] = "configure" => made < cur.conn
  /\ ~Released /\ cur.conn # 0 /\ (codec = 0 \/ pc["feeder"] = "release") => made < cur.conn
  /\ \A g \in Conns : g > made => madeFor[g] = {} /\ input[g] = {} /\ cb[g] = Idle

\* What stop() has left when it is past the join, whether the join saw the feeder
\* end or timed out.
ReleasedInv ==
  /\ Released => params = {} /\ seen = {}
  /\ Released => acc = Empty \/ pc["feeder"] \in {"take", "done"}
  /\ Released /\ Finished => codec = 0
  /\ Released /\ codec # 0 => ready = <<>> /\ cb[codec].at # "submit"
  /\ ~timedOut /\ pc["main"] \notin {"run", "join"} => pc["feeder"] = "done"
  /\ Released /\ ~timedOut => codec = 0

\* Parameter sets and the unit that is being gathered are the current connection's.
FeedInv ==
  /\ pc["feeder"] # "release" => \A p \in params : p[2] = cur.conn
  /\ pc["feeder"] = "configure" /\ ~Released => params # {}
  /\ pc["feeder"] # "release" => acc.conns \subseteq {cur.conn} /\ (acc.slice => acc.conns = {cur.conn})
  /\ Finished /\ ~Released => codec # 0 /\ acc.conns = {cur.conn}

\* A codec was made from one connection, and all units it has or will be given
\* are of that one.
QueueInv ==
  /\ codec # 0 /\ ~Released => \E c \in Conns : madeFor[codec] = {c}
  /\ codec # 0 /\ ~Released /\ pc["feeder"] # "release" => madeFor[codec] = {cur.conn}
  /\ codec = 0 /\ ~Released /\ pc["feeder"] # "clear_ready" => ready = <<>>
  /\ pc["feeder"] = "configure" => ready = <<>>
  /\ codec # 0 /\ ~Released => \A k \in 1..Len(ready) : ready[k].conns = madeFor[codec]
  /\ codec # 0 /\ cb[codec].at = "submit" => cb[codec].unit.conns = madeFor[codec] /\ ~Released

\* The buffers that the codec in use has, or that a throw has cost it.
Kept == avail[codec] \cup thrown

\* Every other buffer is queued, in the feeder's hand or in the callback's.
BufferInv ==
  running /\ codec # 0 =>
    \A i \in Buffers \ Kept :
      (\E k \in 1..Len(free) : free[k] = i) \/ i = index \/ cb[codec].i = i

\* MissesDoNotAddUp, with what is between the two queues counted in.
MissInv ==
  \/ Len(ready) + Has(pc["feeder"] = "offer") <= made
  \/ Len(free) + Cardinality(Parking) <= made

\* Units that are in the queue or in the hand of a callback.
Held == {ready[k] : k \in 1..Len(ready)} \cup {cb[g].unit : g \in Submitting}

\* Every one of them is of a connection that began, and of an older one when there
\* is no codec for the current one.
StaleInv ==
  running =>
    \A u \in Held : \A c \in u.conns :
      c <= cur.conn /\ (codec = 0 \/ pc["feeder"] = "release" => c < cur.conn)

\* The index in the feeder's hand; the feeder between the release and the next codec.
Fetched == IF index = None THEN 0 ELSE 1
Clearing == pc["feeder"] \in {"clear_ready", "clear_free"}

\* Each unit lost, each index queued or in a hand and each callback under way is paid
\* for by a codec made or by a buffer that is out.
SurplusInv ==
  running =>
    /\ codec # 0 => lost + Len(free) + Fetched + Cardinality(Busy)
                      < made + Cardinality(Buffers \ Kept)
    /\ codec = 0 => lost + (IF Clearing THEN 0 ELSE Len(free)) + Cardinality(Busy) <= made
    /\ codec = 0 => lost = 0 \/ lost < made

\* What the feeder knows of the stream is what it has seen of the connection's parameter sets.
BootInv ==
  /\ {p[1] : p \in params} = seen
  /\ pc["feeder"] = "release" => cur.hdr = Marker
  /\ pc["feeder"] # "release" /\ cur.hdr = Marker => detected = "none" /\ seen = {}
  /\ ~Released /\ cur.hdr # Marker => detected = StreamOf[cur.conn]
  /\ cur.hdr # Marker /\ seen = ParameterSets(StreamOf[cur.conn]) => codec # 0 \/ failed \/ pc["feeder"] = "configure"

BasicInv == TypeOK /\ ControlInv /\ CbInv /\ PendingInv /\ MadeInv /\ CountInv

USE DEF net, stopping, media, spent, surface, Marker, NoNal, Goto

-----------------------------------------------------------------------------
(* Lemmas about the state.                                                 *)

\* The parts of the NAL in hand and of the tables, as the later steps use them.
LEMMA CurType ==
  ASSUME TypeOK
  PROVE  /\ cur.conn \in 0..MaxConns /\ cur.hdr \in 0..255
         /\ cur.hdr # Marker => cur.conn \in Conns
         /\ cur.conn = 0 => cur.hdr = Marker
<1>1. CASE cur \in Nals
  <2>1. cur.conn \in Conns /\ cur.hdr \in 0..255
    BY <1>1 DEF Nals
  <2>. QED BY <2>1, DecoderAssumption DEF Conns
<1>2. CASE cur = NoNal
  BY <1>2, DecoderAssumption
<1>3. cur \in Nals \/ cur = NoNal
  BY DEF TypeOK
<1>. QED BY ONLY <1>1, <1>2, <1>3

\* A set of connections can be counted.
LEMMA ConnsFinite ==
  ASSUME NEW S \in SUBSET Conns
  PROVE  IsFiniteSet(S) /\ Cardinality(S) \in Nat
<1>1. IsFiniteSet(Conns)
  BY FS_Interval, DecoderAssumption DEF Conns
<1>. QED BY <1>1, FS_Subset, FS_CardinalityType

\* One connection joins or leaves a set of them.
LEMMA CountMove ==
  ASSUME NEW S \in SUBSET Conns, NEW T \in SUBSET Conns, NEW g \in Conns,
         \A h \in Conns : h # g => (h \in T <=> h \in S)
  PROVE  Cardinality(T) + Has(g \in S) = Cardinality(S) + Has(g \in T)
<1>f. /\ IsFiniteSet(S) /\ Cardinality(S) \in Nat
      /\ IsFiniteSet(T) /\ Cardinality(T) \in Nat
  BY ConnsFinite
<1>1. CASE g \in S <=> g \in T
  <2>1. S = T
    BY <1>1
  <2>. QED BY <2>1
<1>2. CASE g \in S /\ g \notin T
  <2>1. T = S \ {g}
    BY <1>2
  <2>2. Cardinality(T) = Cardinality(S) - 1
    BY <2>1, <1>f, <1>2, FS_RemoveElement
  <2>. QED BY <2>2, <1>2, <1>f DEF Has
<1>3. CASE g \notin S /\ g \in T
  <2>1. T = S \cup {g}
    BY <1>3
  <2>2. Cardinality(T) = Cardinality(S) + 1
    BY <2>1, <1>f, <1>3, FS_AddElement
  <2>. QED BY <2>2, <1>3, <1>f DEF Has
<1>. QED BY <1>1, <1>2, <1>3

\* What the three counts become when one callback thread moves.
LEMMA CallbackMove ==
  ASSUME TypeOK, NEW g \in Conns, NEW v, cb' = [cb EXCEPT ![g] = v]
  PROVE  /\ Cardinality(Submitting)' + Has(cb[g].at = "submit") = Cardinality(Submitting) + Has(v.at = "submit")
         /\ Cardinality(Parking)' + Has(cb[g].at = "park") = Cardinality(Parking) + Has(v.at = "park")
         /\ Cardinality(Busy)' + Has(cb[g].at # "idle") = Cardinality(Busy) + Has(v.at # "idle")
<1>1. \A h \in Conns : cb'[h] = IF h = g THEN v ELSE cb[h]
  BY DEF TypeOK
<1>2. /\ Cardinality(Submitting') + Has(g \in Submitting) = Cardinality(Submitting) + Has(g \in Submitting')
      /\ g \in Submitting <=> cb[g].at = "submit"
      /\ g \in Submitting' <=> v.at = "submit"
  <2>1. /\ Submitting \in SUBSET Conns /\ Submitting' \in SUBSET Conns
        /\ \A h \in Conns : h # g => (h \in Submitting' <=> h \in Submitting)
        /\ g \in Submitting <=> cb[g].at = "submit"
        /\ g \in Submitting' <=> v.at = "submit"
    BY <1>1 DEF Submitting
  <2>. QED BY ONLY <2>1, g \in Conns, CountMove
<1>3. /\ Cardinality(Parking') + Has(g \in Parking) = Cardinality(Parking) + Has(g \in Parking')
      /\ g \in Parking <=> cb[g].at = "park"
      /\ g \in Parking' <=> v.at = "park"
  <2>1. /\ Parking \in SUBSET Conns /\ Parking' \in SUBSET Conns
        /\ \A h \in Conns : h # g => (h \in Parking' <=> h \in Parking)
        /\ g \in Parking <=> cb[g].at = "park"
        /\ g \in Parking' <=> v.at = "park"
    BY <1>1 DEF Parking
  <2>. QED BY ONLY <2>1, g \in Conns, CountMove
<1>4. /\ Cardinality(Busy') + Has(g \in Busy) = Cardinality(Busy) + Has(g \in Busy')
      /\ g \in Busy <=> cb[g].at # "idle"
      /\ g \in Busy' <=> v.at # "idle"
  <2>1. /\ Busy \in SUBSET Conns /\ Busy' \in SUBSET Conns
        /\ \A h \in Conns : h # g => (h \in Busy' <=> h \in Busy)
        /\ g \in Busy <=> cb[g].at # "idle"
        /\ g \in Busy' <=> v.at # "idle"
    BY <1>1 DEF Busy
  <2>. QED BY ONLY <2>1, g \in Conns, CountMove
<1>. QED BY ONLY <1>2, <1>3, <1>4

\* The counts stand still while the callback threads do.
LEMMA CallbackStill ==
  ASSUME UNCHANGED cb
  PROVE  UNCHANGED <<Cardinality(Submitting), Cardinality(Parking), Cardinality(Busy)>>
BY DEF Submitting, Parking, Busy

\* Before and after a step the counts are natural numbers.
LEMMA CountsType ==
  /\ Cardinality(Submitting) \in Nat /\ Cardinality(Parking) \in Nat /\ Cardinality(Busy) \in Nat
  /\ Cardinality(Submitting)' \in Nat /\ Cardinality(Parking)' \in Nat /\ Cardinality(Busy)' \in Nat
<1>1. Submitting \in SUBSET Conns /\ Parking \in SUBSET Conns /\ Busy \in SUBSET Conns
  BY DEF Submitting, Parking, Busy
<1>2. Submitting' \in SUBSET Conns /\ Parking' \in SUBSET Conns /\ Busy' \in SUBSET Conns
  BY DEF Submitting, Parking, Busy
<1>. QED BY ONLY <1>1, <1>2, ConnsFinite

\* Every step is one of these.
Steps ==
  \/ OnNewConnection \/ OnNal \/ TakeMarker \/ TakeNal \/ Configure \/ Gather
  \/ SubmitToCodec \/ OfferUnit \/ QueueUnit \/ FeederEnds \/ Stop \/ Join
  \/ \E p \in {"feeder", "main"} : ReleaseCodec(p) \/ ClearReady(p) \/ ClearFree(p)
  \/ \E g \in Conns : InputAvailable(g) \/ PollReady(g) \/ ParkIndex(g) \/ SubmitReady(g)
  \/ UNCHANGED vars

\* Every step of Next is one of them.
LEMMA NextSteps == [Next]_vars => Steps
BY DEF Next, Steps, Feeder, Callback

-----------------------------------------------------------------------------
(* Types, and the bounds the code keeps implicitly.                        *)

\* An access unit is in the queue, in a callback's hands, in the feeder's, or
\* one of those given to a codec or lost.
LEMMA CountStep ==
  ASSUME BasicInv, [Next]_vars
  PROVE  CountInv' /\ lost' \in 0..MaxUnits /\ units' \in 0..MaxUnits
<1>inv. TypeOK /\ ControlInv /\ CbInv /\ CountInv
  BY DEF BasicInv
<1>typ. /\ ready \in Seq(Units) /\ Len(ready) \in Nat /\ lost \in Nat /\ units \in Nat /\ units <= MaxUnits
        /\ MaxUnits \in Nat
        /\ pc \in [feeder : {"take", "configure", "gather", "offer", "queue", "release",
                        "clear_ready", "clear_free", "done"},
                   main : {"run", "join", "release", "clear_ready", "clear_free", "done"}]
  BY <1>inv, DecoderAssumption, LenProperties DEF TypeOK
<1>cnt. Cardinality(Submitting) \in Nat
  BY CountsType
<1>0. lost + Len(ready) + Cardinality(Submitting) + Has(Finished) <= units
  BY <1>inv DEF CountInv
<1>. DEFINE Goal == /\ Len(ready') \in Nat /\ lost' \in Nat /\ Cardinality(Submitting)' \in Nat
                     /\ units' \in Nat /\ units' <= MaxUnits
                     /\ lost' + Len(ready') + Cardinality(Submitting)' + Has(Finished)' <= units'
<1>goal. SUFFICES Goal
  BY <1>typ DEF CountInv, Has
<1>still. ASSUME UNCHANGED <<lost, ready, cb, units>>, Finished' => Finished PROVE Goal
  <2>1. Cardinality(Submitting)' = Cardinality(Submitting)
    BY <1>still, CallbackStill
  <2>2. Has(Finished)' <= Has(Finished)
    BY <1>still DEF Has
  <2>. QED BY ONLY <2>1, <2>2, <1>still, <1>0, <1>typ, <1>cnt DEF Has
<1>step. Steps
  BY NextSteps
<1>1. CASE OnNewConnection \/ OnNal
  BY <1>1, <1>still DEF OnNewConnection, OnNal, feed, Finished
<1>2. CASE TakeMarker
  BY <1>2, <1>still, <1>typ DEF TakeMarker, Finished
<1>3. CASE TakeNal
  <2>1. PICK w \in {"gather", "configure", "take"} : pc' = [pc EXCEPT !["feeder"] = w]
    BY <1>3 DEF TakeNal
  <2>. QED BY <1>3, <2>1, <1>still, <1>typ DEF TakeNal, Finished
<1>4. CASE Configure
  BY <1>4, <1>still, <1>typ DEF Configure, Finished
<1>5. CASE Gather
  BY <1>5, <1>still, <1>typ DEF Gather, Finished
<1>6. CASE SubmitToCodec
  <2>1. Cardinality(Submitting)' = Cardinality(Submitting)
    BY <1>6, CallbackStill DEF SubmitToCodec
  <2>2. pc["feeder"] = "gather" /\ units' = units + 1 /\ units < MaxUnits /\ UNCHANGED <<lost, ready>>
    BY <1>6 DEF SubmitToCodec
  <2>3. Has(Finished) = 0 /\ Has(Finished)' \in {0, 1}
    BY <2>2 DEF Finished, Has
  <2>. QED BY ONLY <2>1, <2>2, <2>3, <1>0, <1>typ, <1>cnt
<1>7. CASE OfferUnit
  <2>1. Cardinality(Submitting)' = Cardinality(Submitting)
    BY <1>7, CallbackStill DEF OfferUnit
  <2>2. UNCHANGED <<lost, units>>
    BY <1>7 DEF OfferUnit
  <2>3. Has(Finished) = 1 /\ Has(Finished)' = 0
    BY <1>7, <1>typ DEF OfferUnit, Finished, Has
  <2>4. Len(ready') = Len(ready) + 1
    BY <1>7, <1>typ DEF OfferUnit
  <2>. QED BY ONLY <2>1, <2>2, <2>3, <2>4, <1>0, <1>typ, <1>cnt
<1>8. CASE QueueUnit
  <2>1. Cardinality(Submitting)' = Cardinality(Submitting)
    BY <1>8, CallbackStill DEF QueueUnit
  <2>2. UNCHANGED <<ready, units>> /\ (lost' = lost \/ lost' = lost + 1)
    BY <1>8 DEF QueueUnit, Submit
  <2>3. Has(Finished) = 1 /\ Has(Finished)' = 0
    BY <1>8, <1>typ DEF QueueUnit, Finished, Has
  <2>. QED BY ONLY <2>1, <2>2, <2>3, <1>0, <1>typ, <1>cnt
<1>9. CASE FeederEnds
  BY <1>9, <1>still, <1>typ DEF FeederEnds, Finished, feed
<1>10. CASE Stop \/ Join
  BY <1>10, <1>still, <1>typ DEF Stop, Join, Finished, feed
<1>11. ASSUME NEW p \in {"feeder", "main"}, ReleaseCodec(p) PROVE Goal
  BY <1>11, <1>still, <1>typ DEF ReleaseCodec, Finished
<1>12. ASSUME NEW p \in {"feeder", "main"}, ClearReady(p) PROVE Goal
  <2>1. Cardinality(Submitting)' = Cardinality(Submitting)
    BY <1>12, CallbackStill DEF ClearReady
  <2>2. UNCHANGED <<lost, units>> /\ Len(ready') = 0
    BY <1>12 DEF ClearReady, feed
  <2>3. Has(Finished)' <= Has(Finished) /\ Has(Finished) \in {0, 1} /\ Has(Finished)' \in {0, 1}
    BY <1>12, <1>typ DEF ClearReady, Finished, Has
  <2>. QED BY ONLY <2>1, <2>2, <2>3, <1>0, <1>typ, <1>cnt
<1>13. ASSUME NEW p \in {"feeder", "main"}, ClearFree(p) PROVE Goal
  BY <1>13, <1>still, <1>typ DEF ClearFree, Finished, feed
<1>free. ASSUME NEW g \in Conns, NEW v, cb' = [cb EXCEPT ![g] = v], v.at # "submit",
                UNCHANGED <<units, ready, pc>>,
                lost' = lost \/ (lost' = lost + 1 /\ cb[g].at = "submit")
         PROVE  Goal
  <2>1. Cardinality(Submitting)' + Has(cb[g].at = "submit") = Cardinality(Submitting) + Has(v.at = "submit")
    BY <1>free, <1>inv, CallbackMove
  <2>2. Has(Finished)' = Has(Finished)
    BY <1>free DEF Finished
  <2>3. Has(cb[g].at = "submit") \in {0, 1} /\ Has(v.at = "submit") = 0 /\ Has(Finished) \in {0, 1}
        /\ (cb[g].at = "submit" => Has(cb[g].at = "submit") = 1)
    BY <1>free DEF Has
  <2>4. Cardinality(Submitting)' \in Nat
    BY CountsType
  <2>. QED BY ONLY <2>1, <2>2, <2>3, <2>4, <1>free, <1>0, <1>typ, <1>cnt
<1>14. ASSUME NEW g \in Conns, InputAvailable(g) PROVE Goal
  <2>1. PICK i \in avail[g] : cb' = [cb EXCEPT ![g] = [Idle EXCEPT !.at = "poll", !.i = i]]
    BY <1>14 DEF InputAvailable
  <2>2. [Idle EXCEPT !.at = "poll", !.i = i].at # "submit"
    BY DEF Idle
  <2>3. UNCHANGED <<units, ready, pc, lost>>
    BY <1>14 DEF InputAvailable, feed
  <2>. QED BY <2>1, <2>2, <2>3, <1>free
<1>15. ASSUME NEW g \in Conns, PollReady(g) PROVE Goal
  <2>typ. cb[g] \in [at : {"idle", "poll", "park", "submit"}, i : Buffers \cup {None}, unit : Units \cup {NoUnit}]
    BY <1>inv DEF TypeOK
  <2>un. UNCHANGED <<units, pc, lost>>
    BY <1>15 DEF PollReady, feed
  <2>1. CASE ready = <<>>
    <3>1. cb' = [cb EXCEPT ![g] = [cb[g] EXCEPT !.at = "park"]] /\ ready' = ready
      BY <1>15, <2>1, <1>inv DEF PollReady, TypeOK
    <3>2. [cb[g] EXCEPT !.at = "park"].at # "submit"
      BY <2>typ
    <3>. QED BY <3>1, <3>2, <2>un, <1>free
  <2>2. CASE ready # <<>>
    <3>1. cb' = [cb EXCEPT ![g] = [cb[g] EXCEPT !.at = "submit", !.unit = Head(ready)]] /\ ready' = Tail(ready)
      BY <1>15, <2>2, <1>inv DEF PollReady, TypeOK
    <3>2. Len(ready') = Len(ready) - 1 /\ Len(ready') \in Nat
      BY <3>1, <2>2, <1>typ, HeadTailProperties, LenProperties
    <3>3. Cardinality(Submitting)' + Has(cb[g].at = "submit")
            = Cardinality(Submitting) + Has([cb[g] EXCEPT !.at = "submit", !.unit = Head(ready)].at = "submit")
      BY <3>1, <1>inv, CallbackMove
    <3>4. Has(cb[g].at = "submit") = 0 /\ Has([cb[g] EXCEPT !.at = "submit", !.unit = Head(ready)].at = "submit") = 1
          /\ Has(Finished) \in {0, 1}
      BY <1>15, <2>typ DEF Has, PollReady
    <3>5. Has(Finished)' = Has(Finished)
      BY <2>un DEF Finished
    <3>6. Cardinality(Submitting)' \in Nat
      BY CountsType
    <3>. QED BY ONLY <3>2, <3>3, <3>4, <3>5, <3>6, <2>un, <1>0, <1>typ, <1>cnt
  <2>. QED BY <2>1, <2>2
<1>par. ASSUME NEW g \in Conns, ParkIndex(g) PROVE Goal
  <2>1. cb' = [cb EXCEPT ![g] = Idle] /\ UNCHANGED <<units, ready, pc, lost>> /\ Idle.at # "submit"
    BY <1>par DEF ParkIndex, feed, Idle
  <2>. QED BY <2>1, <1>free
<1>16. ASSUME NEW g \in Conns, SubmitReady(g) PROVE Goal
  <2>1. cb' = [cb EXCEPT ![g] = Idle] /\ UNCHANGED <<units, ready, pc>> /\ Idle.at # "submit"
    BY <1>16 DEF SubmitReady, feed, Idle
  <2>2. cb[g].at = "submit" /\ (lost' = lost \/ lost' = lost + 1)
    BY <1>16 DEF SubmitReady, Submit
  <2>. QED BY <2>1, <2>2, <1>free
<1>17. CASE UNCHANGED vars
  BY <1>17, <1>still DEF vars, feed, Finished
<1>. QED BY <1>step, <1>1, <1>2, <1>3, <1>4, <1>5, <1>6, <1>7, <1>8, <1>9, <1>10, <1>11, <1>12, <1>13,
            <1>14, <1>15, <1>par, <1>16, <1>17 DEF Steps

PcType == [feeder : {"take", "configure", "gather", "offer", "queue", "release",
                     "clear_ready", "clear_free", "done"},
           main : {"run", "join", "release", "clear_ready", "clear_free", "done"}]

\* What a NAL unit taken from the queue is to the one before it.
LEMMA TakenFollows ==
  ASSUME TypeOK, PendingInv, running, pending # <<>>
  PROVE  /\ Head(pending) \in Nals
         /\ Head(pending).hdr = Marker => Head(pending).conn = cur.conn + 1
         /\ Head(pending).hdr # Marker =>
              /\ Head(pending).conn = cur.conn
              /\ cur.hdr = Marker =>
                   JoinsMidStream \/ NalType(StreamOf[Head(pending).conn], Head(pending).hdr)
                                       \in ParameterSets(StreamOf[Head(pending).conn])
<1>1. Head(pending) = pending[1] /\ 1 \in 1..Len(pending) /\ Head(pending) \in Nals
  <2>1. pending \in Seq(Nals)
    BY DEF TypeOK
  <2>2. Len(pending) \in Nat \ {0}
    BY <2>1, EmptySeq
  <2>. QED BY <2>1, <2>2, HeadTailProperties
<1>2. Before(1) = cur
  BY DEF Before
<1>. QED BY <1>1, <1>2 DEF PendingInv

\* The flag and the program counters agree, and an index is in the feeder's
\* hands exactly while it queues.
LEMMA ControlStep ==
  ASSUME BasicInv, [Next]_vars
  PROVE  ControlInv'
<1>inv. ControlInv
  BY DEF BasicInv
<1>typ. /\ pc \in PcType /\ running \in BOOLEAN /\ free \in Seq(Buffers) /\ None \notin Buffers
        /\ units \in Nat
  BY DecoderAssumption DEF BasicInv, TypeOK, PcType
<1>. USE DEF PcType, Finished
<1>step. Steps
  BY NextSteps
<1>1. CASE OnNewConnection \/ OnNal \/ UNCHANGED vars
  BY <1>1, <1>inv DEF OnNewConnection, OnNal, vars, feed, ControlInv
<1>2. CASE TakeMarker
  BY <1>2, <1>inv, <1>typ DEF TakeMarker, ControlInv
<1>3. CASE TakeNal
  <2>1. PICK w \in {"gather", "configure", "take"} :
          pc' = [pc EXCEPT !["feeder"] = w] /\ (w = "configure" => codec = 0)
    BY <1>3 DEF TakeNal
  <2>2. cur'.conn # 0
    <3>1. cur' \in Nals
      BY <1>3, TakenFollows DEF TakeNal, BasicInv
    <3>. QED BY <3>1 DEF Nals, Conns
  <2>. QED BY <1>3, <2>1, <2>2, <1>inv, <1>typ DEF TakeNal, ControlInv
<1>4. CASE Configure
  BY <1>4, <1>inv, <1>typ DEF Configure, ControlInv
<1>5. CASE Gather
  BY <1>5, <1>inv, <1>typ DEF Gather, ControlInv
<1>6. CASE SubmitToCodec
  <2>1. free # <<>> => Head(free) \in Buffers
    BY <1>typ, HeadTailProperties
  <2>2. units' # 0 /\ UNCHANGED <<running, codec>> /\ pc["feeder"] = "gather"
    BY <1>6, <1>typ DEF SubmitToCodec
  <2>3. CASE codec = 0
    BY <1>6, <2>2, <2>3, <1>inv, <1>typ DEF SubmitToCodec, ControlInv
  <2>4. CASE codec # 0 /\ free = <<>>
    BY <1>6, <2>2, <2>4, <1>inv, <1>typ DEF SubmitToCodec, ControlInv
  <2>5. CASE codec # 0 /\ free # <<>>
    BY <1>6, <2>1, <2>2, <2>5, <1>inv, <1>typ DEF SubmitToCodec, ControlInv
  <2>. QED BY <2>3, <2>4, <2>5
<1>7. CASE OfferUnit
  BY <1>7, <1>inv, <1>typ DEF OfferUnit, ControlInv
<1>8. CASE QueueUnit
  BY <1>8, <1>inv, <1>typ DEF QueueUnit, ControlInv
<1>9. CASE FeederEnds
  BY <1>9, <1>inv, <1>typ DEF FeederEnds, ControlInv, feed
<1>10. CASE Stop \/ Join
  BY <1>10, <1>inv, <1>typ DEF Stop, Join, ControlInv, feed
<1>11. ASSUME NEW p \in {"feeder", "main"}, ReleaseCodec(p) PROVE ControlInv'
  BY <1>11, <1>inv, <1>typ DEF ReleaseCodec, ControlInv
<1>12. ASSUME NEW p \in {"feeder", "main"}, ClearReady(p) PROVE ControlInv'
  BY <1>12, <1>inv, <1>typ DEF ClearReady, ControlInv, feed
<1>13. ASSUME NEW p \in {"feeder", "main"}, ClearFree(p) PROVE ControlInv'
  <2>1. CASE p = "feeder"
    BY <1>13, <2>1, <1>inv, <1>typ DEF ClearFree, ControlInv, feed
  <2>2. CASE p = "main"
    BY <1>13, <2>2, <1>inv, <1>typ DEF ClearFree, ControlInv, feed
  <2>. QED BY <2>1, <2>2
<1>14. ASSUME NEW g \in Conns, InputAvailable(g) \/ PollReady(g) \/ ParkIndex(g) \/ SubmitReady(g)
       PROVE  ControlInv'
  <2>1. UNCHANGED <<running, pc, index, codec, units, cur>>
    BY <1>14 DEF InputAvailable, PollReady, ParkIndex, SubmitReady, feed
  <2>. QED BY <2>1, <1>inv DEF ControlInv
<1>. QED BY <1>step, <1>1, <1>2, <1>3, <1>4, <1>5, <1>6, <1>7, <1>8, <1>9, <1>10, <1>11, <1>12, <1>13,
            <1>14 DEF Steps

\* A callback thread at work has a buffer, and one that submits an access unit.
LEMMA CbStep ==
  ASSUME BasicInv, [Next]_vars
  PROVE  CbInv' /\ cb' \in [Conns -> [at : {"idle", "poll", "park", "submit"}, i : Buffers \cup {None},
                                      unit : Units \cup {NoUnit}]]
<1>. DEFINE CbType == [at : {"idle", "poll", "park", "submit"}, i : Buffers \cup {None},
                       unit : Units \cup {NoUnit}]
            Good(v) == /\ v.at = "idle" => v = Idle
                       /\ v.at # "idle" => v.i \in Buffers
                       /\ v.at = "submit" => v.unit \in Units
<1>inv. CbInv /\ cb \in [Conns -> CbType]
  BY DEF BasicInv, TypeOK
<1>typ. ready \in Seq(Units) /\ avail \in [Conns -> SUBSET Buffers]
  BY DEF BasicInv, TypeOK
<1>0. Idle \in CbType /\ Good(Idle)
  BY DEF Idle
<1>1. ASSUME UNCHANGED cb PROVE CbInv' /\ cb' \in [Conns -> CbType]
  BY <1>inv, <1>1 DEF CbInv
<1>2. ASSUME NEW g \in Conns, NEW v \in CbType, Good(v), cb' = [cb EXCEPT ![g] = v]
      PROVE  CbInv' /\ cb' \in [Conns -> CbType]
  <2>1. \A h \in Conns : cb'[h] = IF h = g THEN v ELSE cb[h]
    BY <1>2, <1>inv
  <2>2. cb' \in [Conns -> CbType]
    BY <1>2, <1>inv
  <2>. QED BY <2>1, <2>2, <1>2, <1>inv DEF CbInv
<1>3. ASSUME NEW g \in Conns, InputAvailable(g) PROVE CbInv' /\ cb' \in [Conns -> CbType]
  <2>1. PICK i \in avail[g] : cb' = [cb EXCEPT ![g] = [Idle EXCEPT !.at = "poll", !.i = i]]
    BY <1>3 DEF InputAvailable
  <2>2. i \in Buffers
    BY <1>typ
  <2>3. [Idle EXCEPT !.at = "poll", !.i = i] \in CbType /\ Good([Idle EXCEPT !.at = "poll", !.i = i])
    BY <1>0, <2>2
  <2>. QED BY <2>1, <2>3, <1>2
<1>4. ASSUME NEW g \in Conns, PollReady(g) PROVE CbInv' /\ cb' \in [Conns -> CbType]
  <2>1. cb[g] \in CbType /\ cb[g].i \in Buffers
    BY <1>4, <1>inv DEF PollReady, CbInv
  <2>2. CASE ready = <<>>
    <3>1. cb' = [cb EXCEPT ![g] = [cb[g] EXCEPT !.at = "park"]]
      BY <1>4, <2>2, <1>inv DEF PollReady
    <3>2. [cb[g] EXCEPT !.at = "park"] \in CbType /\ Good([cb[g] EXCEPT !.at = "park"])
      BY <2>1
    <3>. QED BY <3>1, <3>2, <1>2
  <2>3. CASE ready # <<>>
    <3>1. cb' = [cb EXCEPT ![g] = [cb[g] EXCEPT !.at = "submit", !.unit = Head(ready)]]
      BY <1>4, <2>3, <1>inv DEF PollReady
    <3>2. Head(ready) \in Units
      BY <2>3, <1>typ, HeadTailProperties
    <3>3. [cb[g] EXCEPT !.at = "submit", !.unit = Head(ready)] \in CbType
          /\ Good([cb[g] EXCEPT !.at = "submit", !.unit = Head(ready)])
      BY <2>1, <3>2
    <3>. QED BY <3>1, <3>3, <1>2
  <2>. QED BY <2>2, <2>3
<1>5. ASSUME NEW g \in Conns, ParkIndex(g) \/ SubmitReady(g) PROVE CbInv' /\ cb' \in [Conns -> CbType]
  BY <1>5, <1>0, <1>2 DEF ParkIndex, SubmitReady
<1>6. ASSUME UNCHANGED cb \/ \E g \in Conns : InputAvailable(g) \/ PollReady(g) \/ ParkIndex(g) \/ SubmitReady(g)
      PROVE  CbInv' /\ cb' \in [Conns -> CbType]
  BY <1>1, <1>3, <1>4, <1>5, <1>6
<1>7. UNCHANGED cb \/ \E g \in Conns : InputAvailable(g) \/ PollReady(g) \/ ParkIndex(g) \/ SubmitReady(g)
  BY NextSteps DEF Steps, OnNewConnection, OnNal, TakeMarker, TakeNal, Configure, Gather, SubmitToCodec,
    OfferUnit, QueueUnit, FeederEnds, Stop, Join, ReleaseCodec, ClearReady, ClearFree, vars
<1>. QED BY <1>6, <1>7

\* Each NAL unit continues the one before it, in the queue as in the feeder's
\* hands: connections are numbered as they come and begin with their marker.
LEMMA PendingStep ==
  ASSUME BasicInv, [Next]_vars
  PROVE  PendingInv' /\ pending' \in Seq(Nals) /\ Len(pending') <= MaxPending
         /\ cur' \in Nals \cup {NoNal} /\ conn' \in 0..MaxConns /\ begun' \in BOOLEAN
<1>. DEFINE Follows(n, m) ==
              IF n.hdr = Marker THEN n.conn = m.conn + 1
              ELSE /\ n.conn = m.conn
                   /\ m.hdr = Marker =>
                        JoinsMidStream \/ NalType(StreamOf[n.conn], n.hdr) \in ParameterSets(StreamOf[n.conn])
            Goal == PendingInv' /\ pending' \in Seq(Nals) /\ Len(pending') <= MaxPending
                    /\ cur' \in Nals \cup {NoNal} /\ conn' \in 0..MaxConns /\ begun' \in BOOLEAN
<1>inv. PendingInv
  BY DEF BasicInv
<1>typ. /\ pending \in Seq(Nals) /\ Len(pending) \in Nat /\ Len(pending) <= MaxPending /\ MaxPending \in Nat
        /\ cur \in Nals \cup {NoNal} /\ conn \in 0..MaxConns /\ begun \in BOOLEAN
        /\ MaxConns \in Nat /\ running \in BOOLEAN
  BY DecoderAssumption, LenProperties DEF BasicInv, TypeOK
<1>el. \A k \in 1..Len(pending) : pending[k] \in Nals
  BY <1>typ, ElementOfSeq
<1>0. running => /\ \A k \in 1..Len(pending) : Follows(pending[k], Before(k))
                 /\ Last.conn = conn /\ (Last.hdr = Marker => ~begun)
  BY <1>inv DEF PendingInv
<1>prime. ASSUME running' => /\ \A k \in 1..Len(pending') : Follows(pending'[k], IF k = 1 THEN cur' ELSE pending'[k - 1])
                             /\ Last'.conn = conn' /\ (Last'.hdr = Marker => ~begun')
          PROVE  PendingInv'
  BY <1>prime DEF PendingInv, Before
<1>still. ASSUME UNCHANGED <<pending, cur, conn, begun>>, running' => running PROVE Goal
  BY <1>still, <1>typ, <1>inv DEF PendingInv, Before, Last
<1>app. ASSUME NEW n \in Nals, pending' = Append(pending, n), running, Follows(n, Last), UNCHANGED cur,
               Len(pending) < MaxPending,
               conn' \in 0..MaxConns, begun' \in BOOLEAN, n.conn = conn', n.hdr = Marker => ~begun'
        PROVE  Goal
  <2>1. /\ pending' \in Seq(Nals) /\ Len(pending') = Len(pending) + 1 /\ pending' # <<>>
        /\ \A k \in 1..Len(pending) : pending'[k] = pending[k]
        /\ pending'[Len(pending) + 1] = n
    BY <1>app, <1>typ, AppendProperties
  <2>2. ASSUME NEW k \in 1..Len(pending')
        PROVE  Follows(pending'[k], IF k = 1 THEN cur' ELSE pending'[k - 1])
    <3>1. CASE k \in 1..Len(pending)
      <4>1. pending'[k] = pending[k] /\ (k # 1 => pending'[k - 1] = pending[k - 1])
        BY <3>1, <2>1, <1>typ
      <4>. QED BY <4>1, <3>1, <1>0, <1>app DEF Before
    <3>2. CASE k = Len(pending) + 1
      <4>1. (IF k = 1 THEN cur' ELSE pending'[k - 1]) = Last
        <5>1. CASE pending = <<>>
          BY <5>1, <3>2, <1>app DEF Last
        <5>2. CASE pending # <<>>
          <6>1. Len(pending) >= 1
            BY <5>2, <1>typ, EmptySeq
          <6>. QED BY <6>1, <5>2, <3>2, <2>1, <1>typ DEF Last
        <5>. QED BY <5>1, <5>2
      <4>2. pending'[k] = n
        BY <3>2, <2>1
      <4>. QED BY <4>1, <4>2, <1>app
    <3>. QED BY <3>1, <3>2, <2>1, <1>typ
  <2>3. Last' = n
    BY <2>1 DEF Last
  <2>. QED BY <2>1, <2>2, <2>3, <1>prime, <1>app, <1>typ
<1>1. CASE OnNewConnection
  <2>1. [conn |-> conn', hdr |-> Marker] \in Nals /\ conn' = conn + 1 /\ conn' \in 0..MaxConns
    BY <1>1, <1>typ DEF OnNewConnection, Nals, Conns
  <2>2. Last.conn = conn /\ running
    BY <1>1, <1>0 DEF OnNewConnection
  <2>. QED BY <1>1, <1>app, <2>1, <2>2 DEF OnNewConnection, feed
<1>2. CASE OnNal
  <2>1. PICK b \in Headers[StreamOf[conn]] :
          /\ begun \/ JoinsMidStream \/ NalType(StreamOf[conn], b) \in ParameterSets(StreamOf[conn])
          /\ pending' = Append(pending, [conn |-> conn, hdr |-> b])
    BY <1>2 DEF OnNal
  <2>2. conn \in Conns /\ b \in 0..254
    <3>1. conn \in Conns
      BY <1>2, <1>typ DEF OnNal, Conns
    <3>2. Headers[StreamOf[conn]] \subseteq 0..254
      BY <3>1, DecoderAssumption
    <3>. QED BY <3>1, <3>2
  <2>3. [conn |-> conn, hdr |-> b] \in Nals
    BY <2>2 DEF Nals
  <2>4. Last.conn = conn /\ (Last.hdr = Marker => ~begun) /\ running
    BY <1>2, <1>0 DEF OnNal
  <2>5. Follows([conn |-> conn, hdr |-> b], Last)
    <3>1. Last.hdr = Marker => JoinsMidStream \/ NalType(StreamOf[conn], b) \in ParameterSets(StreamOf[conn])
      BY <2>1, <2>4
    <3>2. b # Marker
      BY <2>2
    <3>. QED BY <3>1, <3>2, <2>4
  <2>6. /\ UNCHANGED <<cur, conn>> /\ Len(pending) < MaxPending /\ begun' = TRUE
    BY <1>2 DEF OnNal, feed
  <2>7. [conn |-> conn, hdr |-> b].hdr # Marker /\ [conn |-> conn, hdr |-> b].conn = conn
    BY <2>2
  <2>. QED BY ONLY <1>app, <2>1, <2>3, <2>4, <2>5, <2>6, <2>7, <1>typ
<1>3. ASSUME pending # <<>>, pending' = Tail(pending), cur' = Head(pending), UNCHANGED <<conn, begun, running>>
      PROVE  Goal
  <2>1. /\ pending' \in Seq(Nals) /\ Len(pending') = Len(pending) - 1
        /\ \A k \in 1..Len(pending') : pending'[k] = pending[k + 1]
        /\ cur' \in Nals
    BY <1>3, <1>typ, HeadTailProperties
  <2>2. cur' = pending[1]
    BY <1>3, <1>typ
  <2>3. ASSUME running, NEW k \in 1..Len(pending')
        PROVE  Follows(pending'[k], IF k = 1 THEN cur' ELSE pending'[k - 1])
    <3>1. pending'[k] = pending[k + 1] /\ k + 1 \in 1..Len(pending)
      BY <2>1, <1>typ
    <3>2. (IF k = 1 THEN cur' ELSE pending'[k - 1]) = Before(k + 1)
      BY <2>1, <2>2, <1>typ DEF Before
    <3>. QED BY <3>1, <3>2, <1>0, <2>3
  <2>4. Last' = Last
    <3>1. CASE pending' = <<>>
      <4>1. Len(pending) = 1
        BY <3>1, <2>1, <1>typ
      <4>. QED BY <4>1, <3>1, <2>2, <1>3 DEF Last
    <3>2. CASE pending' # <<>>
      <4>1. Len(pending') \in 1..Len(pending')
        BY <3>2, <2>1, EmptySeq
      <4>2. pending'[Len(pending')] = pending[Len(pending)]
        BY <4>1, <2>1, <1>typ
      <4>. QED BY <4>2, <3>2, <1>3 DEF Last
    <3>. QED BY <3>1, <3>2
  <2>5. PendingInv'
    <3>1. running' => Last'.conn = conn' /\ (Last'.hdr = Marker => ~begun')
      BY <2>4, <1>3, <1>0
    <3>. QED BY <2>3, <3>1, <1>prime, <1>3
  <2>6. Len(pending') <= MaxPending
    BY <2>1, <1>typ
  <2>. QED BY <2>1, <2>5, <2>6, <1>3, <1>typ
<1>4. CASE TakeMarker \/ TakeNal
  BY <1>4, <1>3 DEF TakeMarker, TakeNal
<1>5. ASSUME NEW p \in {"feeder", "main"}, ClearFree(p) PROVE Goal
  <2>1. CASE p = "main"
    <3>1. ~running'
      BY <1>5, <2>1, <1>typ DEF ClearFree, BasicInv, ControlInv
    <3>2. pending' = <<>> /\ UNCHANGED <<cur, conn, begun>>
      BY <1>5, <2>1 DEF ClearFree, feed
    <3>3. pending' \in Seq(Nals) /\ Len(pending') <= MaxPending
      BY <3>2, <1>typ
    <3>. QED BY <3>1, <3>2, <3>3, <1>typ DEF PendingInv
  <2>2. CASE p = "feeder"
    <3>1. UNCHANGED <<pending, cur, conn, begun, running>>
      BY <1>5, <2>2 DEF ClearFree, feed
    <3>. QED BY <3>1, <1>still
  <2>. QED BY <2>1, <2>2
<1>6. CASE UNCHANGED <<pending, cur, conn, begun>> /\ (running' => running)
  BY <1>6, <1>still
<1>. HIDE DEF Goal
<1>7. \/ OnNewConnection \/ OnNal \/ TakeMarker \/ TakeNal \/ \E p \in {"feeder", "main"} : ClearFree(p)
      \/ UNCHANGED <<pending, cur, conn, begun>> /\ (running' => running)
  BY NextSteps DEF Steps, Configure, Gather, SubmitToCodec, OfferUnit, QueueUnit, FeederEnds, Stop, Join,
    ReleaseCodec, ClearReady, InputAvailable, PollReady, ParkIndex, SubmitReady, vars, feed
<1>. QED BY <1>1, <1>2, <1>4, <1>5, <1>6, <1>7 DEF Goal

\* What a submit does to the tables: an access unit and a buffer for the codec
\* in use; a buffer lost by a throw; or nothing.
LEMMA SubmitTables ==
  ASSUME TypeOK, NEW g, NEW i \in Buffers, NEW u \in Units, Submit(g, i, u)
  PROVE  /\ input' \in [Conns -> SUBSET (SUBSET Conns)] /\ avail' \in [Conns -> SUBSET Buffers] /\ thrown' \subseteq Buffers
         /\ \A k \in Conns : k # codec => input'[k] = input[k] /\ avail'[k] = avail[k]
         /\ \/ UNCHANGED <<input, avail, thrown>> /\ ~(codec # 0 /\ g = codec /\ i \notin avail[codec])
               /\ lost' = IF cur.conn \in u.conns THEN lost + 1 ELSE lost
            \/ /\ codec \in Conns /\ g = codec /\ i \notin avail[codec] /\ UNCHANGED lost
               /\ input' = [input EXCEPT ![codec] = @ \cup {u.conns}]
               /\ avail' = [avail EXCEPT ![codec] = @ \cup {i}] /\ thrown' = thrown \ {i}
            \/ /\ codec \in Conns /\ g = codec /\ i \notin avail[codec] /\ UNCHANGED <<lost, input, avail>>
               /\ thrown' = thrown \cup {i}
<1>typ. /\ input \in [Conns -> SUBSET (SUBSET Conns)] /\ avail \in [Conns -> SUBSET Buffers] /\ thrown \subseteq Buffers
        /\ (codec # 0 => codec \in Conns)
  BY DecoderAssumption DEF TypeOK, Conns
<1>unit. u.conns \in SUBSET Conns
  BY DEF Units
<1>1. CASE /\ g # 0 /\ g = codec /\ i \notin avail[g] /\ UNCHANGED lost
           /\ input' = [input EXCEPT ![g] = @ \cup {u.conns}]
           /\ avail' = [avail EXCEPT ![g] = @ \cup {i}] /\ thrown' = thrown \ {i}
  <2>1. /\ input' = [input EXCEPT ![codec] = @ \cup {u.conns}]
        /\ avail' = [avail EXCEPT ![codec] = @ \cup {i}] /\ UNCHANGED lost /\ thrown' = thrown \ {i}
    BY <1>1
  <2>2. /\ input' \in [Conns -> SUBSET (SUBSET Conns)] /\ avail' \in [Conns -> SUBSET Buffers]
        /\ \A k \in Conns : k # codec => input'[k] = input[k] /\ avail'[k] = avail[k]
    BY <2>1, <1>typ, <1>unit
  <2>. QED BY <2>1, <2>2, <1>1, <1>typ
<1>2. CASE /\ g # 0 /\ g = codec /\ i \notin avail[g] /\ UNCHANGED <<lost, input, avail>>
           /\ thrown' = thrown \cup {i}
  BY <1>2, <1>typ
<1>3. CASE /\ ~(g # 0 /\ g = codec /\ i \notin avail[g]) /\ UNCHANGED <<input, avail, thrown>>
           /\ lost' = IF cur.conn \in u.conns THEN lost + 1 ELSE lost
  BY <1>3, <1>typ
<1>. QED BY <1>1, <1>2, <1>3 DEF Submit, Takes

\* The buffer that is submitted to the codec in use is the codec's from then on,
\* or one that a throw cost; and a unit is lost only when it was that already.
LEMMA SubmitKeeps ==
  ASSUME TypeOK, NEW g, NEW i \in Buffers, NEW u \in Units, Submit(g, i, u), UNCHANGED codec
  PROVE  /\ codec # 0 /\ g = codec => Kept' = Kept \cup {i}
         /\ ~(codec # 0 /\ g = codec) => UNCHANGED <<avail, thrown>>
         /\ lost' = lost \/ (lost' = lost + 1 /\ cur.conn \in u.conns /\ UNCHANGED <<avail, thrown>>)
<1>typ. avail \in [Conns -> SUBSET Buffers] /\ 0 \notin Conns
  BY DEF TypeOK, Conns
<1>1. CASE UNCHANGED <<avail, thrown>> /\ ~(codec # 0 /\ g = codec /\ i \notin avail[codec])
           /\ lost' = IF cur.conn \in u.conns THEN lost + 1 ELSE lost
  <2>1. Kept' = Kept
    BY <1>1 DEF Kept
  <2>2. codec # 0 /\ g = codec => i \in Kept
    BY <1>1 DEF Kept
  <2>3. lost' = lost \/ (lost' = lost + 1 /\ cur.conn \in u.conns)
    BY <1>1
  <2>. QED BY <2>1, <2>2, <2>3, <1>1
<1>2. CASE /\ codec \in Conns /\ g = codec /\ UNCHANGED lost
           /\ avail' = [avail EXCEPT ![codec] = @ \cup {i}] /\ thrown' = thrown \ {i}
  <2>1. avail'[codec] = avail[codec] \cup {i}
    BY <1>2, <1>typ
  <2>2. Kept' = (avail[codec] \cup {i}) \cup (thrown \ {i})
    BY <2>1, <1>2 DEF Kept
  <2>. QED BY <2>2, <1>2, <1>typ DEF Kept
<1>3. CASE /\ codec \in Conns /\ g = codec /\ UNCHANGED <<lost, avail>> /\ thrown' = thrown \cup {i}
  <2>1. Kept' = avail[codec] \cup (thrown \cup {i})
    BY <1>3 DEF Kept
  <2>. QED BY <2>1, <1>3, <1>typ DEF Kept
<1>0. \/ UNCHANGED <<input, avail, thrown>> /\ ~(codec # 0 /\ g = codec /\ i \notin avail[codec])
         /\ lost' = IF cur.conn \in u.conns THEN lost + 1 ELSE lost
      \/ /\ codec \in Conns /\ g = codec /\ i \notin avail[codec] /\ UNCHANGED lost
         /\ input' = [input EXCEPT ![codec] = @ \cup {u.conns}]
         /\ avail' = [avail EXCEPT ![codec] = @ \cup {i}] /\ thrown' = thrown \ {i}
      \/ /\ codec \in Conns /\ g = codec /\ i \notin avail[codec] /\ UNCHANGED <<lost, input, avail>>
         /\ thrown' = thrown \cup {i}
  BY SubmitTables, Zenon
<1>4. \/ UNCHANGED <<avail, thrown>> /\ ~(codec # 0 /\ g = codec /\ i \notin avail[codec])
         /\ lost' = IF cur.conn \in u.conns THEN lost + 1 ELSE lost
      \/ /\ codec \in Conns /\ g = codec /\ UNCHANGED lost
         /\ avail' = [avail EXCEPT ![codec] = @ \cup {i}] /\ thrown' = thrown \ {i}
      \/ codec \in Conns /\ g = codec /\ UNCHANGED <<lost, avail>> /\ thrown' = thrown \cup {i}
  BY ONLY <1>0
<1>. QED BY ONLY <1>1, <1>2, <1>3, <1>4

\* The access unit in the feeder's hands.
LEMMA UnitType ==
  ASSUME TypeOK, ControlInv, Finished
  PROVE  Unit \in Units /\ Unit.conns = acc.conns
<1>1. acc.conns \in SUBSET Conns /\ units \in 1..MaxUnits
  BY DecoderAssumption DEF TypeOK, ControlInv
<1>. QED BY <1>1 DEF Unit, Units

\* A codec is made at most once per connection, and not before its marker.
LEMMA MadeStep ==
  ASSUME BasicInv, [Next]_vars
  PROVE  MadeInv' /\ made' \in 0..MaxConns /\ codec' \in 0..made'
         /\ madeFor' \in [Conns -> SUBSET Conns] /\ input' \in [Conns -> SUBSET (SUBSET Conns)]
<1>. DEFINE Goal == MadeInv' /\ made' \in 0..MaxConns /\ codec' \in 0..made'
                    /\ madeFor' \in [Conns -> SUBSET Conns] /\ input' \in [Conns -> SUBSET (SUBSET Conns)]
<1>inv. /\ MadeInv /\ ControlInv
  BY DEF BasicInv
<1>typ. /\ pc \in PcType /\ made \in Nat /\ made <= MaxConns /\ codec \in Nat /\ codec <= made /\ MaxConns \in Nat
        /\ cur.conn \in Nat /\ cur.conn <= MaxConns
        /\ madeFor \in [Conns -> SUBSET Conns] /\ input \in [Conns -> SUBSET (SUBSET Conns)]
        /\ cb \in [Conns -> [at : {"idle", "poll", "park", "submit"}, i : Buffers \cup {None},
                             unit : Units \cup {NoUnit}]]
        /\ params \in SUBSET ((UNION {ParameterSets(f) : f \in Formats}) \X Conns)
  BY CurType, DecoderAssumption DEF BasicInv, TypeOK, PcType
<1>. USE DEF PcType, Released
<1>still. ASSUME UNCHANGED <<made, codec, cur, madeFor, input>>,
                 \A g \in Conns : g > made => cb'[g] = Idle,
                 pc'["feeder"] \in {"configure", "release"} => pc'["feeder"] = pc["feeder"],
                 Released => Released'
          PROVE  Goal
  BY <1>still, <1>inv, <1>typ DEF MadeInv
<1>idle. \A g \in Conns : g > made => cb[g] = Idle
  BY <1>inv DEF MadeInv
<1>step. Steps
  BY NextSteps
<1>1. CASE OnNewConnection \/ OnNal \/ UNCHANGED vars
  BY <1>1, <1>still, <1>idle DEF OnNewConnection, OnNal, vars, feed
<1>2. CASE TakeMarker
  <2>1. cur'.conn = cur.conn + 1
    BY <1>2, TakenFollows DEF TakeMarker, BasicInv
  <2>2. UNCHANGED <<made, codec, madeFor, input, cb>> /\ pc' = [pc EXCEPT !["feeder"] = "release"]
    BY <1>2 DEF TakeMarker
  <2>. QED BY <2>1, <2>2, <1>inv, <1>typ DEF MadeInv
<1>3. CASE TakeNal
  <2>1. PICK w \in {"gather", "configure", "take"} :
          pc' = [pc EXCEPT !["feeder"] = w] /\ (w = "configure" => codec = 0)
    BY <1>3 DEF TakeNal
  <2>2. cur'.conn = cur.conn /\ cur'.conn # 0
    <3>1. Head(pending) \in Nals /\ Head(pending).conn = cur.conn
      BY <1>3, TakenFollows DEF TakeNal, BasicInv
    <3>2. cur' = Head(pending)
      BY <1>3 DEF TakeNal
    <3>3. Head(pending).conn \in Conns
      BY <3>1 DEF Nals
    <3>. QED BY <3>1, <3>2, <3>3, <1>typ DEF Conns
  <2>3. UNCHANGED <<made, codec, madeFor, input, cb>> /\ ~Released /\ pc["feeder"] = "take"
    BY <1>3, <1>inv DEF TakeNal, ControlInv
  <2>. QED BY <2>1, <2>2, <2>3, <1>inv, <1>typ DEF MadeInv
<1>4. CASE Configure
  <2>1. made < cur.conn /\ pc["feeder"] = "configure" /\ pc' = [pc EXCEPT !["feeder"] = "gather"]
        /\ UNCHANGED <<cur, input, cb>>
    BY <1>4, <1>inv DEF Configure, MadeInv
  <2>2. CASE UNCHANGED <<codec, made, madeFor>>
    BY <2>1, <2>2, <1>typ, <1>idle, <1>still
  <2>3. CASE made' = made + 1 /\ codec' = made' /\ madeFor' = [madeFor EXCEPT ![made'] = {p[2] : p \in params}]
    <3>1. {p[2] : p \in params} \subseteq Conns
      BY <1>typ
    <3>2. made' \in Conns /\ \A g \in Conns : g > made' => g > made /\ madeFor'[g] = madeFor[g]
      BY <2>1, <2>3, <1>typ DEF Conns
    <3>3. madeFor' \in [Conns -> SUBSET Conns]
      BY <3>1, <2>3, <1>typ
    <3>. QED BY <3>2, <3>3, <2>1, <2>3, <1>inv, <1>typ DEF MadeInv
  <2>. QED BY <2>2, <2>3, <1>4 DEF Configure
<1>5. CASE Gather
  BY <1>5, <1>still, <1>typ, <1>idle DEF Gather
<1>6. CASE SubmitToCodec
  BY <1>6, <1>still, <1>typ, <1>idle DEF SubmitToCodec
<1>7. CASE OfferUnit
  BY <1>7, <1>still, <1>typ, <1>idle DEF OfferUnit
<1>8. CASE QueueUnit
  <2>1. pc["feeder"] = "queue" /\ pc' = [pc EXCEPT !["feeder"] = "gather"]
        /\ UNCHANGED <<made, codec, cur, madeFor, cb>> /\ Submit(codec, index, Unit)
    BY <1>8 DEF QueueUnit
  <2>2. index \in Buffers /\ Unit \in Units
    BY <2>1, <1>inv, UnitType DEF BasicInv, TypeOK, ControlInv, Finished
  <2>3. input' \in [Conns -> SUBSET (SUBSET Conns)] /\ \A k \in Conns : k > made => input'[k] = input[k]
    <3>1. \A k \in Conns : k > made => k # codec
      BY <1>typ
    <3>. QED BY <3>1, <2>1, <2>2, SubmitTables DEF BasicInv
  <2>. QED BY <2>1, <2>3, <1>inv, <1>typ DEF MadeInv
<1>9. CASE FeederEnds
  BY <1>9, <1>still, <1>typ, <1>idle DEF FeederEnds, feed
<1>10. CASE Stop \/ Join
  BY <1>10, <1>still, <1>typ, <1>idle DEF Stop, Join, feed
<1>11. ASSUME NEW p \in {"feeder", "main"}, ReleaseCodec(p) PROVE Goal
  <2>1. UNCHANGED <<made, cur, madeFor, input, cb>> /\ codec' = 0 /\ pc[p] = "release"
        /\ pc' = [pc EXCEPT ![p] = "clear_ready"]
    BY <1>11 DEF ReleaseCodec
  <2>2. CASE p = "main"
    BY <2>1, <2>2, <1>inv, <1>typ DEF MadeInv
  <2>3. CASE p = "feeder"
    BY <2>1, <2>3, <1>inv, <1>typ DEF MadeInv
  <2>. QED BY <2>2, <2>3
<1>12. ASSUME NEW p \in {"feeder", "main"}, ClearReady(p) PROVE Goal
  BY <1>12, <1>still, <1>typ, <1>idle DEF ClearReady, feed
<1>13. ASSUME NEW p \in {"feeder", "main"}, ClearFree(p) PROVE Goal
  BY <1>13, <1>still, <1>typ, <1>idle DEF ClearFree, feed
<1>high. \A k \in Conns : k > made => k # codec
  BY <1>typ
<1>sub. ASSUME NEW h, NEW i \in Buffers, NEW u \in Units, Submit(h, i, u)
        PROVE  /\ input' \in [Conns -> SUBSET (SUBSET Conns)]
               /\ \A k \in Conns : k > made => input'[k] = input[k]
  BY <1>sub, <1>high, SubmitTables DEF BasicInv
<1>in. ASSUME UNCHANGED <<made, codec, cur, madeFor, pc>>, \A k \in Conns : k > made => cb'[k] = Idle /\ input'[k] = input[k],
              input' \in [Conns -> SUBSET (SUBSET Conns)]
       PROVE  Goal
  BY <1>in, <1>inv, <1>typ DEF MadeInv
<1>14. ASSUME NEW g \in Conns, InputAvailable(g) PROVE Goal
  <2>1. g <= made /\ UNCHANGED <<made, codec, cur, madeFor, pc, input>>
    BY <1>14, <1>typ DEF InputAvailable, feed
  <2>2. PICK i \in avail[g] : cb' = [cb EXCEPT ![g] = [Idle EXCEPT !.at = "poll", !.i = i]]
    BY <1>14 DEF InputAvailable
  <2>3. \A k \in Conns : k > made => cb'[k] = Idle
    <3>1. \A k \in Conns : k # g => cb'[k] = cb[k]
      BY <2>2, <1>typ
    <3>2. \A k \in Conns : k > made => k # g
      BY <2>1, <1>typ DEF Conns
    <3>. QED BY <3>1, <3>2, <1>idle
  <2>. QED BY <2>1, <2>3, <1>in, <1>typ
<1>15. ASSUME NEW g \in Conns, PollReady(g) PROVE Goal
  <2>1. ~(g > made) /\ UNCHANGED <<made, codec, cur, madeFor, pc, input>>
    BY <1>15, <1>idle DEF PollReady, feed, Idle
  <2>2. \A k \in Conns : k # g => cb'[k] = cb[k]
    BY <1>15, <1>typ DEF PollReady
  <2>3. \A k \in Conns : k > made => cb'[k] = Idle
    BY <2>1, <2>2, <1>idle
  <2>. QED BY <2>1, <2>3, <1>in, <1>typ
<1>16. ASSUME NEW g \in Conns, ParkIndex(g) \/ SubmitReady(g) PROVE Goal
  <2>1. UNCHANGED <<made, codec, cur, madeFor, pc>> /\ cb' = [cb EXCEPT ![g] = Idle]
    BY <1>16 DEF ParkIndex, SubmitReady, feed
  <2>2. \A k \in Conns : k > made => cb'[k] = Idle
    BY <2>1, <1>idle, <1>typ
  <2>3. input' \in [Conns -> SUBSET (SUBSET Conns)] /\ \A k \in Conns : k > made => input'[k] = input[k]
    <3>1. CASE ParkIndex(g)
      BY <3>1, <1>typ DEF ParkIndex
    <3>2. CASE SubmitReady(g)
      <4>1. Submit(g, cb[g].i, cb[g].unit) /\ cb[g].i \in Buffers /\ cb[g].unit \in Units
        BY <3>2 DEF SubmitReady, BasicInv, CbInv
      <4>. QED BY <4>1, <1>sub
    <3>. QED BY <3>1, <3>2, <1>16
  <2>. QED BY <2>1, <2>2, <2>3, <1>in
<1>. HIDE DEF Goal
<1>. QED BY <1>step, <1>1, <1>2, <1>3, <1>4, <1>5, <1>6, <1>7, <1>8, <1>9, <1>10, <1>11, <1>12, <1>13,
            <1>14, <1>15, <1>16 DEF Steps, Goal

\* The variables the lemmas above do not bound.
LEMMA RestStep ==
  ASSUME BasicInv, [Next]_vars
  PROVE  /\ running' \in BOOLEAN /\ timedOut' \in BOOLEAN /\ pc' \in PcType
         /\ index' \in Buffers \cup {None} /\ detected' \in Formats \cup {"none"}
         /\ params' \subseteq (UNION {ParameterSets(f) : f \in Formats}) \X Conns
         /\ seen' \subseteq UNION {ParameterSets(f) : f \in Formats} /\ failed' \in BOOLEAN
         /\ acc' \in [conns : SUBSET Conns, slice : BOOLEAN]
         /\ ready' \in Seq(Units) /\ free' \in Seq(Buffers) /\ avail' \in [Conns -> SUBSET Buffers]
<1>. DEFINE Sets == UNION {ParameterSets(f) : f \in Formats}
            GoalF == running' \in BOOLEAN /\ timedOut' \in BOOLEAN /\ pc' \in PcType
            GoalN == /\ detected' \in Formats \cup {"none"} /\ params' \subseteq Sets \X Conns
                     /\ seen' \subseteq Sets /\ failed' \in BOOLEAN
                     /\ acc' \in [conns : SUBSET Conns, slice : BOOLEAN]
            GoalB == /\ index' \in Buffers \cup {None} /\ ready' \in Seq(Units) /\ free' \in Seq(Buffers)
                     /\ avail' \in [Conns -> SUBSET Buffers]
            Goal == GoalF /\ GoalN /\ GoalB
<1>inv. TypeOK /\ ControlInv /\ CbInv
  BY DEF BasicInv
<1>typ. /\ running \in BOOLEAN /\ timedOut \in BOOLEAN /\ pc \in PcType
        /\ detected \in Formats \cup {"none"} /\ params \subseteq Sets \X Conns
        /\ seen \subseteq Sets /\ failed \in BOOLEAN /\ acc \in [conns : SUBSET Conns, slice : BOOLEAN]
  BY <1>inv DEF TypeOK, PcType
<1>buf. /\ index \in Buffers \cup {None} /\ ready \in Seq(Units) /\ free \in Seq(Buffers)
        /\ avail \in [Conns -> SUBSET Buffers]
  BY <1>inv DEF TypeOK
<1>f. ASSUME UNCHANGED <<running, timedOut, pc>> PROVE GoalF
  BY <1>f, <1>typ
<1>n. ASSUME UNCHANGED <<detected, params, seen, failed, acc>> PROVE GoalN
  BY <1>n, <1>typ
<1>b. ASSUME UNCHANGED <<index, ready, free, avail>> PROVE GoalB
  BY <1>b, <1>buf
<1>. SUFFICES Goal
  OBVIOUS
<1>. HIDE DEF Sets
<1>step. Steps
  BY NextSteps
<1>1. CASE OnNewConnection \/ OnNal \/ UNCHANGED vars
  BY <1>1, <1>f, <1>n, <1>b DEF OnNewConnection, OnNal, vars, feed
<1>2. CASE TakeMarker
  <2>1. GoalF
    BY <1>2, <1>typ DEF TakeMarker, PcType
  <2>. QED BY <1>2, <2>1, <1>n, <1>b DEF TakeMarker
<1>3. CASE TakeNal
  <2>1. PICK w \in {"gather", "configure", "take"} : pc' = [pc EXCEPT !["feeder"] = w]
    BY <1>3 DEF TakeNal
  <2>2. GoalF
    BY <1>3, <2>1, <1>typ DEF TakeNal, PcType
  <2>3. Head(pending).conn \in Conns
    <3>1. Head(pending) \in Nals
      BY <1>3, TakenFollows DEF TakeNal, BasicInv
    <3>. QED BY <3>1 DEF Nals
  <2>4. \A f \in Formats : ParameterSets(f) \subseteq Sets
    BY DEF Sets
  <2>5. GoalN
    <3>. DEFINE nal == Head(pending)
                s == StreamOf[nal.conn]
                f == IF detected = "none" THEN DetectCodec(nal.hdr) ELSE detected
    <3>1. f \in Formats \cup {"none"}
      BY <1>typ DEF DetectCodec, Formats
    <3>2. f # "none" => Store(f, nal) \subseteq Sets \X Conns
      <4>1. CASE NalType(f, nal.hdr) \in ParameterSets(f) /\ f # "none"
        <5>1. <<NalType(f, nal.hdr), nal.conn>> \in Sets \X Conns
          BY <4>1, <3>1, <2>3, <2>4
        <5>2. Store(f, nal) = {p \in params : p[1] # NalType(f, nal.hdr)} \cup {<<NalType(f, nal.hdr), nal.conn>>}
          BY <4>1 DEF Store
        <5>. HIDE DEF f, nal
        <5>. QED BY <5>1, <5>2, <1>typ
      <4>2. CASE NalType(f, nal.hdr) \notin ParameterSets(f)
        BY <4>2, <1>typ DEF Store
      <4>. QED BY <4>1, <4>2
    <3>3. seen' \subseteq Sets
      <4>1. s \in Formats
        BY <2>3, DecoderAssumption
      <4>2. seen' = seen \cup ({NalType(s, nal.hdr)} \cap ParameterSets(s))
        BY <1>3 DEF TakeNal
      <4>. QED BY <4>1, <4>2, <2>4, <1>typ
    <3>4. detected' = f /\ params' = (IF f = "none" THEN params ELSE Store(f, nal)) /\ UNCHANGED <<failed, acc>>
      BY <1>3 DEF TakeNal
    <3>. HIDE DEF f, nal
    <3>. QED BY <3>1, <3>2, <3>3, <3>4, <1>typ
  <2>. QED BY <1>3, <2>2, <2>5, <1>b DEF TakeNal
<1>4. CASE Configure
  <2>1. GoalF
    BY <1>4, <1>typ DEF Configure, PcType
  <2>2. GoalN
    BY <1>4, <1>typ DEF Configure
  <2>3. avail' \in [Conns -> SUBSET Buffers]
    BY <1>4, <1>buf DEF Configure
  <2>. QED BY <1>4, <2>1, <2>2, <2>3, <1>buf DEF Configure
<1>5. CASE Gather
  <2>1. GoalF
    BY <1>5, <1>typ DEF Gather, PcType
  <2>2. GoalN
    <3>1. cur.conn \in Conns
      BY <1>5, <1>inv, CurType, DecoderAssumption DEF Gather, ControlInv, Conns
    <3>2. IsSlice(detected, cur.hdr) \in BOOLEAN
      <4>1. cur.hdr \in Nat
        BY <1>inv, CurType
      <4>2. (cur.hdr % 128) \in Int
        BY <4>1
      <4>3. (HevcType(cur.hdr) <= 21) \in BOOLEAN
        BY <4>2 DEF HevcType
      <4>4. CASE detected = "H264"
        BY <4>4 DEF IsSlice
      <4>5. CASE detected # "H264"
        BY <4>5, <4>3 DEF IsSlice
      <4>. QED BY <4>4, <4>5
    <3>. QED BY <3>1, <3>2, <1>5, <1>typ DEF Gather
  <2>. QED BY <1>5, <2>1, <2>2, <1>b DEF Gather
<1>6. CASE SubmitToCodec
  <2>1. GoalF
    <3>1. PICK w \in {"gather", "offer", "queue"} : pc' = [pc EXCEPT !["feeder"] = w]
      BY <1>6 DEF SubmitToCodec
    <3>. QED BY <1>6, <3>1, <1>typ DEF SubmitToCodec, PcType
  <2>2. GoalN
    <3>1. acc' = acc \/ acc' = Empty
      BY <1>6 DEF SubmitToCodec
    <3>2. acc' \in [conns : SUBSET Conns, slice : BOOLEAN]
      <4>1. Empty \in [conns : SUBSET Conns, slice : BOOLEAN]
        BY DEF Empty
      <4>. QED BY ONLY <4>1, <3>1, <1>typ
    <3>. QED BY <1>6, <3>2, <1>typ DEF SubmitToCodec
  <2>3. free # <<>> => Head(free) \in Buffers /\ Tail(free) \in Seq(Buffers)
    BY <1>buf, HeadTailProperties
  <2>4. GoalB
    BY <1>6, <2>3, <1>buf DEF SubmitToCodec
  <2>. QED BY <2>1, <2>2, <2>4
<1>7. CASE OfferUnit
  <2>1. GoalF
    BY <1>7, <1>typ DEF OfferUnit, PcType
  <2>2. GoalN
    BY <1>7, <1>typ DEF OfferUnit, Empty
  <2>3. Append(ready, Unit) \in Seq(Units)
    BY <1>7, <1>inv, <1>buf, UnitType, AppendProperties DEF OfferUnit, Finished
  <2>. QED BY <1>7, <2>1, <2>2, <2>3, <1>buf DEF OfferUnit
<1>8. CASE QueueUnit
  <2>1. GoalF
    BY <1>8, <1>typ DEF QueueUnit, PcType
  <2>2. GoalN
    BY <1>8, <1>typ DEF QueueUnit, Empty
  <2>3. index \in Buffers /\ Unit \in Units
    BY <1>8, <1>inv, <1>buf, UnitType DEF QueueUnit, ControlInv, Finished
  <2>4. avail' \in [Conns -> SUBSET Buffers]
    BY <1>8, <2>3, <1>inv, SubmitTables DEF QueueUnit
  <2>. QED BY <1>8, <2>1, <2>2, <2>4, <1>buf DEF QueueUnit
<1>9. CASE FeederEnds
  <2>1. GoalF
    BY <1>9, <1>typ DEF FeederEnds, PcType
  <2>. QED BY <1>9, <2>1, <1>n, <1>b DEF FeederEnds, feed
<1>10. CASE Stop \/ Join
  <2>1. GoalF
    BY <1>10, <1>typ DEF Stop, Join, PcType
  <2>. QED BY <1>10, <2>1, <1>n, <1>b DEF Stop, Join, feed
<1>11. ASSUME NEW p \in {"feeder", "main"}, ReleaseCodec(p) PROVE Goal
  <2>1. GoalF
    BY <1>11, <1>typ DEF ReleaseCodec, PcType
  <2>2. GoalN
    BY <1>11, <1>typ DEF ReleaseCodec, Empty
  <2>3. avail' = [g \in Conns |-> IF g = codec THEN {} ELSE avail[g]]
    BY <1>11 DEF ReleaseCodec, Release
  <2>4. avail' \in [Conns -> SUBSET Buffers]
    BY ONLY <2>3, <1>buf
  <2>. QED BY <1>11, <2>1, <2>2, <2>4, <1>buf DEF ReleaseCodec
<1>12. ASSUME NEW p \in {"feeder", "main"}, ClearReady(p) PROVE Goal
  <2>1. GoalF
    BY <1>12, <1>typ DEF ClearReady, PcType
  <2>2. GoalB
    BY <1>12, <1>buf, EmptySeq DEF ClearReady, feed
  <2>. QED BY <1>12, <2>1, <2>2, <1>n DEF ClearReady, feed
<1>13. ASSUME NEW p \in {"feeder", "main"}, ClearFree(p) PROVE Goal
  <2>1. GoalF
    BY <1>13, <1>typ DEF ClearFree, PcType
  <2>2. GoalB
    BY <1>13, <1>buf, EmptySeq DEF ClearFree, feed
  <2>. QED BY <1>13, <2>1, <2>2, <1>n DEF ClearFree, feed
<1>14. ASSUME NEW g \in Conns, InputAvailable(g) \/ PollReady(g) \/ ParkIndex(g) \/ SubmitReady(g) PROVE Goal
  <2>1. UNCHANGED <<running, timedOut, pc, detected, params, seen, failed, acc, index>>
    BY <1>14 DEF InputAvailable, PollReady, ParkIndex, SubmitReady, feed
  <2>2. CASE InputAvailable(g)
    <3>1. avail' \in [Conns -> SUBSET Buffers]
      BY <2>2, <1>buf DEF InputAvailable
    <3>. QED BY <2>1, <2>2, <3>1, <1>f, <1>n, <1>buf DEF InputAvailable
  <2>3. CASE PollReady(g)
    <3>1. ready' \in Seq(Units)
      BY <2>3, <1>buf, HeadTailProperties DEF PollReady
    <3>. QED BY <2>1, <2>3, <3>1, <1>f, <1>n, <1>buf DEF PollReady
  <2>4. CASE ParkIndex(g)
    <3>1. cb[g].i \in Buffers
      BY <2>4, <1>inv DEF ParkIndex, CbInv
    <3>2. free' \in Seq(Buffers)
      BY <2>4, <3>1, <1>buf, AppendProperties DEF ParkIndex
    <3>. QED BY <2>1, <2>4, <3>2, <1>f, <1>n, <1>buf DEF ParkIndex
  <2>5. CASE SubmitReady(g)
    <3>1. Submit(g, cb[g].i, cb[g].unit) /\ cb[g].i \in Buffers /\ cb[g].unit \in Units
      BY <2>5, <1>inv DEF SubmitReady, CbInv
    <3>2. avail' \in [Conns -> SUBSET Buffers]
      BY <3>1, <1>inv, SubmitTables
    <3>. QED BY <2>1, <2>5, <3>2, <1>f, <1>n, <1>buf DEF SubmitReady
  <2>. QED BY <1>14, <2>2, <2>3, <2>4, <2>5
<1>. HIDE DEF Goal
<1>. QED BY <1>step, <1>1, <1>2, <1>3, <1>4, <1>5, <1>6, <1>7, <1>8, <1>9, <1>10, <1>11, <1>12, <1>13,
            <1>14 DEF Steps

\* Codecs are numbered like connections, and a throw costs a buffer.
LEMMA LeftTypes ==
  ASSUME BasicInv, [Next]_vars
  PROVE  thrown' \subseteq Buffers /\ live' \subseteq 0..MaxConns /\ orphans' \subseteq 0..MaxConns
<1>typ. /\ thrown \subseteq Buffers /\ live \subseteq 0..MaxConns /\ orphans \subseteq 0..MaxConns
        /\ codec \in 0..MaxConns /\ 0 \in 0..MaxConns
  BY DecoderAssumption DEF BasicInv, TypeOK
<1>sub. ASSUME NEW g, NEW i \in Buffers, NEW u \in Units, Submit(g, i, u) PROVE thrown' \subseteq Buffers
  BY <1>sub, SubmitTables DEF BasicInv
<1>1. CASE Configure
  <2>1. made' \in 0..MaxConns
    BY MadeStep
  <2>. QED BY <1>1, <2>1, <1>typ DEF Configure, Loses
<1>2. CASE QueueUnit
  <2>1. pc["feeder"] = "queue" /\ Submit(codec, index, Unit) /\ UNCHANGED surface
    BY <1>2 DEF QueueUnit
  <2>2. index \in Buffers /\ Unit \in Units
    BY <2>1, UnitType DEF BasicInv, TypeOK, ControlInv, Finished
  <2>. QED BY <2>1, <2>2, <1>sub, <1>typ
<1>3. ASSUME NEW g \in Conns, SubmitReady(g)
      PROVE  thrown' \subseteq Buffers /\ live' \subseteq 0..MaxConns /\ orphans' \subseteq 0..MaxConns
  <2>1. Submit(g, cb[g].i, cb[g].unit) /\ cb[g].i \in Buffers /\ cb[g].unit \in Units /\ UNCHANGED surface
    BY <1>3 DEF SubmitReady, BasicInv, CbInv
  <2>. QED BY <2>1, <1>sub, <1>typ
<1>4. ASSUME NEW p \in {"feeder", "main"}, ReleaseCodec(p)
      PROVE  thrown' \subseteq Buffers /\ live' \subseteq 0..MaxConns /\ orphans' \subseteq 0..MaxConns
  BY <1>4, <1>typ DEF ReleaseCodec, Release, Loses
<1>5. \/ Configure \/ QueueUnit \/ \E g \in Conns : SubmitReady(g)
      \/ \E p \in {"feeder", "main"} : ReleaseCodec(p)
      \/ UNCHANGED <<thrown, live, orphans>>
  BY NextSteps DEF Steps, OnNewConnection, OnNal, TakeMarker, TakeNal, Gather, SubmitToCodec, OfferUnit, FeederEnds,
    Stop, Join, ClearReady, ClearFree, InputAvailable, PollReady, ParkIndex, vars
<1>. QED BY <1>1, <1>2, <1>3, <1>4, <1>5, <1>typ

\* The typing lemmas together.
LEMMA BasicInit == Init => BasicInv
<1>. SUFFICES ASSUME Init PROVE BasicInv
  OBVIOUS
<1>1. pending \in Seq(Nals) /\ Len(pending) = 0 /\ ready \in Seq(Units) /\ Len(ready) = 0 /\ free \in Seq(Buffers)
  BY EmptySeq DEF Init
<1>2. Idle \in [at : {"idle", "poll", "park", "submit"}, i : Buffers \cup {None}, unit : Units \cup {NoUnit}]
  BY DEF Idle
<1>3. TypeOK
  <2>1. /\ madeFor \in [Conns -> SUBSET Conns] /\ avail \in [Conns -> SUBSET Buffers]
        /\ input \in [Conns -> SUBSET (SUBSET Conns)]
    BY DEF Init
  <2>2. cb \in [Conns -> [at : {"idle", "poll", "park", "submit"}, i : Buffers \cup {None}, unit : Units \cup {NoUnit}]]
    BY <1>2 DEF Init
  <2>3. acc \in [conns : SUBSET Conns, slice : BOOLEAN]
    BY DEF Init, Empty
  <2>4. /\ conn \in 0..MaxConns /\ made \in 0..MaxConns /\ codec \in 0..made
        /\ units \in 0..MaxUnits /\ lost \in 0..MaxUnits /\ Len(pending) <= MaxPending
    BY <1>1, DecoderAssumption DEF Init
  <2>5. /\ begun \in BOOLEAN /\ running \in BOOLEAN /\ timedOut \in BOOLEAN /\ failed \in BOOLEAN
        /\ pc \in PcType /\ cur \in Nals \cup {NoNal} /\ index \in Buffers \cup {None}
        /\ detected \in Formats \cup {"none"}
        /\ params \subseteq (UNION {ParameterSets(f) : f \in Formats}) \X Conns
        /\ seen \subseteq UNION {ParameterSets(f) : f \in Formats}
    BY DEF Init, PcType
  <2>6. thrown \subseteq Buffers /\ live \subseteq 0..MaxConns /\ orphans \subseteq 0..MaxConns
    BY DEF Init
  <2>. QED BY <1>1, <2>1, <2>2, <2>3, <2>4, <2>5, <2>6 DEF TypeOK, PcType
<1>4. ControlInv
  BY DEF Init, ControlInv, Finished
<1>5. CbInv
  BY DEF Init, CbInv, Idle
<1>6. PendingInv
  BY <1>1 DEF Init, PendingInv, Last
<1>7. MadeInv
  BY DEF Init, MadeInv
<1>8. CountInv
  <2>1. Submitting = {} /\ ~Finished
    BY DEF Init, Submitting, Idle, Finished
  <2>. QED BY <2>1, <1>1, FS_EmptySet DEF Init, CountInv, Has
<1>. QED BY <1>3, <1>4, <1>5, <1>6, <1>7, <1>8 DEF BasicInv

\* The steps of the lemmas above, together.
LEMMA BasicStep == BasicInv /\ [Next]_vars => BasicInv'
<1>. SUFFICES ASSUME BasicInv, [Next]_vars PROVE BasicInv'
  OBVIOUS
<1>1. TypeOK'
  BY CountStep, CbStep, PendingStep, MadeStep, RestStep, LeftTypes DEF TypeOK, PcType
<1>. QED BY <1>1, CountStep, CbStep, PendingStep, MadeStep, ControlStep DEF BasicInv

\* And so it holds in every state.
LEMMA BasicHolds == Spec => []BasicInv
BY BasicInit, BasicStep, PTL DEF Spec

\* No variable ever leaves its type: the units counted are bounded and a
\* codec is made only for a connection that was accepted.
THEOREM TypeCorrect == Spec => []TypeOK
<1>1. BasicInv => TypeOK
  BY DEF BasicInv
<1>. QED BY <1>1, BasicHolds, PTL

-----------------------------------------------------------------------------
(* stop(), and the connection each access unit and each codec belongs to.  *)

FlowInv == ReleasedInv /\ FeedInv /\ QueueInv /\ LeftInv

\* What stop() cleared stays clear, whatever the feeder still does.
LEMMA ReleasedStep ==
  ASSUME BasicInv, FlowInv, [Next]_vars
  PROVE  ReleasedInv'
<1>inv. ReleasedInv /\ ControlInv /\ MadeInv
  BY DEF BasicInv, FlowInv
<1>str. pc["feeder"] = "configure" => ready = <<>>
  BY DEF FlowInv, QueueInv
<1>typ. /\ pc \in PcType /\ running \in BOOLEAN /\ timedOut \in BOOLEAN
        /\ cb \in [Conns -> [at : {"idle", "poll", "park", "submit"}, i : Buffers \cup {None},
                             unit : Units \cup {NoUnit}]]
        /\ (codec # 0 => codec \in Conns)
  BY DecoderAssumption DEF BasicInv, TypeOK, PcType, Conns
<1>. USE DEF PcType, Finished, Released
<1>still. ASSUME UNCHANGED <<params, seen, acc, codec, ready, timedOut, pc>>,
                 codec # 0 /\ Released => (cb'[codec].at = "submit" => cb[codec].at = "submit")
          PROVE  ReleasedInv'
  BY <1>still, <1>inv DEF ReleasedInv
<1>run. running => ~Released /\ pc["main"] = "run"
  BY <1>inv DEF ControlInv
<1>step. Steps
  BY NextSteps
<1>1. CASE OnNewConnection \/ OnNal \/ UNCHANGED vars
  BY <1>1, <1>still DEF OnNewConnection, OnNal, vars, feed
<1>2. CASE TakeMarker
  BY <1>2, <1>inv, <1>run, <1>typ DEF TakeMarker, ReleasedInv
<1>3. CASE TakeNal
  <2>1. running /\ UNCHANGED <<running, codec>> /\ pc'["main"] = pc["main"]
    BY <1>3, <1>typ DEF TakeNal
  <2>. QED BY <2>1, <1>run DEF ReleasedInv
<1>4. CASE Configure
  <2>1. /\ pc["feeder"] = "configure" /\ pc' = [pc EXCEPT !["feeder"] = "gather"]
        /\ UNCHANGED <<params, seen, acc, ready, timedOut, cb>>
    BY <1>4 DEF Configure
  <2>2. CASE UNCHANGED codec
    BY <2>1, <2>2, <1>inv, <1>typ, <1>str DEF ReleasedInv, ControlInv
  <2>3. CASE codec' = made + 1
    <3>1. codec' \in Conns /\ codec' > made
      <4>1. made < cur.conn
        BY <2>1, <1>inv DEF MadeInv
      <4>2. made \in Nat /\ cur.conn \in 0..MaxConns /\ MaxConns \in Nat
        BY CurType, DecoderAssumption DEF BasicInv, TypeOK
      <4>. QED BY ONLY <4>1, <4>2, <2>3 DEF Conns
    <3>2. cb'[codec'].at # "submit"
      BY <3>1, <2>1, <1>inv DEF MadeInv, Idle
    <3>. QED BY <3>2, <2>1, <1>inv, <1>typ, <1>str DEF ReleasedInv, ControlInv
  <2>. QED BY <1>4, <2>2, <2>3 DEF Configure
<1>5. CASE Gather
  BY <1>5, <1>inv, <1>typ DEF Gather, ReleasedInv
<1>6. CASE SubmitToCodec
  <2>1. ~Released
    <3>1. acc.slice /\ pc["feeder"] = "gather"
      BY <1>6 DEF SubmitToCodec, Completes
    <3>. QED BY <3>1, <1>inv DEF ReleasedInv, Empty
  <2>2. pc["feeder"] = "gather" /\ pc'["main"] = pc["main"] /\ UNCHANGED timedOut
    BY <1>6, <1>typ DEF SubmitToCodec
  <2>. QED BY <2>1, <2>2, <1>inv DEF ReleasedInv
<1>7. CASE OfferUnit
  BY <1>7, <1>inv, <1>typ DEF OfferUnit, ReleasedInv
<1>8. CASE QueueUnit
  BY <1>8, <1>inv, <1>typ DEF QueueUnit, ReleasedInv
<1>9. CASE FeederEnds
  BY <1>9, <1>inv, <1>typ DEF FeederEnds, ReleasedInv, feed
<1>10. CASE Stop
  BY <1>10, <1>inv, <1>typ DEF Stop, ReleasedInv, feed
<1>11. CASE Join
  BY <1>11, <1>inv, <1>typ DEF Join, ReleasedInv, feed
<1>12. ASSUME NEW p \in {"feeder", "main"}, ReleaseCodec(p) PROVE ReleasedInv'
  <2>1. CASE p = "main"
    BY <1>12, <2>1, <1>inv, <1>typ DEF ReleaseCodec, ReleasedInv
  <2>2. CASE p = "feeder"
    BY <1>12, <2>2, <1>inv, <1>typ DEF ReleaseCodec, ReleasedInv
  <2>. QED BY <2>1, <2>2
<1>13. ASSUME NEW p \in {"feeder", "main"}, ClearReady(p) PROVE ReleasedInv'
  BY <1>13, <1>inv, <1>typ DEF ClearReady, ReleasedInv, feed
<1>14. ASSUME NEW p \in {"feeder", "main"}, ClearFree(p) PROVE ReleasedInv'
  BY <1>14, <1>inv, <1>typ DEF ClearFree, ReleasedInv, feed
<1>15. ASSUME NEW g \in Conns, InputAvailable(g) \/ ParkIndex(g) \/ SubmitReady(g) PROVE ReleasedInv'
  <2>1. UNCHANGED <<params, seen, acc, codec, ready, timedOut, pc>>
    BY <1>15 DEF InputAvailable, ParkIndex, SubmitReady, feed
  <2>2. \A h \in Conns : cb'[h].at = "submit" => cb[h].at = "submit"
    <3>1. CASE InputAvailable(g)
      BY <3>1, <1>typ DEF InputAvailable, Idle
    <3>2. CASE ParkIndex(g) \/ SubmitReady(g)
      BY <3>2, <1>typ DEF ParkIndex, SubmitReady, Idle
    <3>. QED BY <1>15, <3>1, <3>2
  <2>. QED BY <2>1, <2>2, <1>still, <1>typ
<1>16. ASSUME NEW g \in Conns, PollReady(g) PROVE ReleasedInv'
  <2>1. UNCHANGED <<params, seen, acc, codec, timedOut, pc>>
    BY <1>16 DEF PollReady, feed
  <2>2. CASE ready = <<>>
    <3>1. ready' = ready /\ cb' = [cb EXCEPT ![g] = [cb[g] EXCEPT !.at = "park"]]
      BY <1>16, <2>2, <1>typ DEF PollReady
    <3>2. \A h \in Conns : cb'[h].at = "submit" => cb[h].at = "submit"
      BY <3>1, <1>typ
    <3>. QED BY <2>1, <3>1, <3>2, <1>still, <1>typ
  <2>3. CASE ready # <<>>
    BY <2>1, <2>3, <1>inv, <1>typ DEF ReleasedInv
  <2>. QED BY <2>2, <2>3
<1>. QED BY <1>step, <1>1, <1>2, <1>3, <1>4, <1>5, <1>6, <1>7, <1>8, <1>9, <1>10, <1>11, <1>12, <1>13,
            <1>14, <1>15, <1>16 DEF Steps

\* What the feeder gathers between two markers is one connection's.
LEMMA FeedStep ==
  ASSUME BasicInv, FlowInv, [Next]_vars
  PROVE  FeedInv'
<1>inv. FeedInv /\ ReleasedInv /\ ControlInv
  BY DEF BasicInv, FlowInv
<1>typ. /\ pc \in PcType /\ acc \in [conns : SUBSET Conns, slice : BOOLEAN]
  BY DEF BasicInv, TypeOK, PcType
<1>. USE DEF PcType, Finished, Released
<1>still. ASSUME UNCHANGED <<params, acc, codec, cur>>,
                 pc'["feeder"] \in {"configure", "offer", "queue"} => pc'["feeder"] = pc["feeder"],
                 pc["feeder"] = "release" => pc'["feeder"] = "release",
                 Released => Released'
          PROVE  FeedInv'
  BY <1>still, <1>inv DEF FeedInv
<1>step. Steps
  BY NextSteps
<1>1. CASE OnNewConnection \/ OnNal \/ UNCHANGED vars
  BY <1>1, <1>still DEF OnNewConnection, OnNal, vars, feed
<1>2. CASE TakeMarker
  BY <1>2, <1>inv, <1>typ DEF TakeMarker, FeedInv
<1>3. CASE TakeNal
  <2>1. cur'.conn = cur.conn /\ cur' = Head(pending)
    BY <1>3, TakenFollows DEF TakeNal, BasicInv
  <2>2. \A p \in params : p[2] = cur.conn
    BY <1>3, <1>inv DEF TakeNal, FeedInv
  <2>3. \A p \in params' : p[2] = cur'.conn
    <3>1. \A f \in Formats : \A p \in Store(f, Head(pending)) : p[2] = cur.conn
      BY <2>1, <2>2 DEF Store
    <3>2. params' = params \/ \E f \in Formats : params' = Store(f, Head(pending))
      <4>. DEFINE f == IF detected = "none" THEN DetectCodec(Head(pending).hdr) ELSE detected
      <4>1. f \in Formats \cup {"none"}
        BY DEF BasicInv, TypeOK, DetectCodec, Formats
      <4>2. params' = IF f = "none" THEN params ELSE Store(f, Head(pending))
        BY <1>3 DEF TakeNal
      <4>. QED BY <4>1, <4>2
    <3>. QED BY <3>1, <3>2, <2>1, <2>2
  <2>4. PICK w \in {"gather", "configure", "take"} : pc' = [pc EXCEPT !["feeder"] = w]
          /\ (w = "configure" => params' # {})
    <3>1. \A f : Complete(f, params') => params' # {}
      BY DEF Complete, ParameterSets
    <3>. QED BY <1>3, <3>1 DEF TakeNal
  <2>5. UNCHANGED acc /\ pc["feeder"] = "take"
    BY <1>3 DEF TakeNal
  <2>. QED BY <2>1, <2>3, <2>4, <2>5, <1>inv, <1>typ DEF FeedInv
<1>4. CASE Configure
  BY <1>4, <1>inv, <1>typ DEF Configure, FeedInv
<1>5. CASE Gather
  BY <1>5, <1>inv, <1>typ DEF Gather, FeedInv
<1>6. CASE SubmitToCodec
  <2>1. acc.slice /\ pc["feeder"] = "gather" /\ UNCHANGED <<params, cur, codec>>
    BY <1>6 DEF SubmitToCodec, Completes
  <2>2. acc.conns = {cur.conn} /\ \A p \in params : p[2] = cur.conn
    BY <2>1, <1>inv DEF FeedInv
  <2>3. CASE codec = 0
    BY <1>6, <2>1, <2>2, <2>3, <1>typ DEF SubmitToCodec, FeedInv, Empty
  <2>4. CASE codec # 0
    <3>1. PICK w \in {"offer", "queue"} : pc' = [pc EXCEPT !["feeder"] = w]
      BY <1>6, <2>4 DEF SubmitToCodec
    <3>2. acc' = acc
      BY <1>6, <2>4 DEF SubmitToCodec
    <3>. QED BY <2>1, <2>2, <2>4, <3>1, <3>2, <1>typ DEF FeedInv
  <2>. QED BY <2>3, <2>4
<1>7. CASE OfferUnit
  BY <1>7, <1>inv, <1>typ DEF OfferUnit, FeedInv, Empty
<1>8. CASE QueueUnit
  BY <1>8, <1>inv, <1>typ DEF QueueUnit, FeedInv, Empty
<1>9. CASE FeederEnds
  BY <1>9, <1>still, <1>typ DEF FeederEnds, feed
<1>10. CASE Stop \/ Join
  BY <1>10, <1>still, <1>typ DEF Stop, Join, feed
<1>11. ASSUME NEW p \in {"feeder", "main"}, ReleaseCodec(p) PROVE FeedInv'
  BY <1>11, <1>inv, <1>typ DEF ReleaseCodec, FeedInv, Empty
<1>12. ASSUME NEW p \in {"feeder", "main"}, ClearReady(p) PROVE FeedInv'
  BY <1>12, <1>still, <1>typ DEF ClearReady, feed
<1>13. ASSUME NEW p \in {"feeder", "main"}, ClearFree(p) PROVE FeedInv'
  BY <1>13, <1>still, <1>typ DEF ClearFree, feed
<1>14. ASSUME NEW g \in Conns, InputAvailable(g) \/ PollReady(g) \/ ParkIndex(g) \/ SubmitReady(g) PROVE FeedInv'
  <2>1. UNCHANGED <<pc, params, acc, codec, cur>>
    BY <1>14 DEF InputAvailable, PollReady, ParkIndex, SubmitReady, feed
  <2>. QED BY <2>1, <1>still
<1>. QED BY <1>step, <1>1, <1>2, <1>3, <1>4, <1>5, <1>6, <1>7, <1>8, <1>9, <1>10, <1>11, <1>12, <1>13,
            <1>14 DEF Steps

\* Every access unit queued for the codec in use, or in its callback's hands,
\* is of the connection the codec was made for; without a codec none is queued.
LEMMA QueueStep ==
  ASSUME BasicInv, FlowInv, [Next]_vars
  PROVE  QueueInv'
<1>inv. FeedInv /\ ReleasedInv /\ QueueInv /\ ControlInv /\ MadeInv
  BY DEF BasicInv, FlowInv
<1>typ. /\ pc \in PcType /\ ready \in Seq(Units) /\ Len(ready) \in Nat
        /\ cb \in [Conns -> [at : {"idle", "poll", "park", "submit"}, i : Buffers \cup {None},
                             unit : Units \cup {NoUnit}]]
        /\ (codec # 0 => codec \in Conns)
        /\ madeFor \in [Conns -> SUBSET Conns]
  BY DecoderAssumption, LenProperties DEF BasicInv, TypeOK, PcType, Conns
<1>cur. cur.conn # 0 => cur.conn \in Conns
  BY CurType, DecoderAssumption DEF BasicInv, Conns
<1>. USE DEF PcType, Finished, Released
<1>still. ASSUME UNCHANGED <<madeFor, codec, cur, ready, cb>>,
                 pc'["feeder"] = "configure" => pc["feeder"] = "configure",
                 pc["feeder"] = "release" => pc'["feeder"] = "release",
                 pc["feeder"] # "clear_ready",
                 Released' <=> Released
          PROVE  QueueInv'
  BY <1>still, <1>inv DEF QueueInv
<1>step. Steps
  BY NextSteps
<1>1. CASE OnNewConnection \/ OnNal \/ UNCHANGED vars
  BY <1>1, <1>inv DEF OnNewConnection, OnNal, vars, feed, QueueInv
<1>2. CASE TakeMarker
  BY <1>2, <1>inv, <1>typ DEF TakeMarker, QueueInv
<1>3. CASE TakeNal
  <2>1. cur'.conn = cur.conn
    BY <1>3, TakenFollows DEF TakeNal, BasicInv
  <2>2. PICK w \in {"gather", "configure", "take"} : pc' = [pc EXCEPT !["feeder"] = w]
          /\ (w = "configure" => codec = 0)
    BY <1>3 DEF TakeNal
  <2>3. UNCHANGED <<madeFor, codec, ready, cb>> /\ pc["feeder"] = "take" /\ ~Released
    BY <1>3, <1>inv DEF TakeNal, ControlInv
  <2>. QED BY <2>1, <2>2, <2>3, <1>inv, <1>typ DEF QueueInv
<1>4. CASE Configure
  <2>1. /\ pc["feeder"] = "configure" /\ pc' = [pc EXCEPT !["feeder"] = "gather"] /\ codec = 0 /\ ready = <<>>
        /\ UNCHANGED <<cur, ready, cb>> /\ (Released' <=> Released) /\ pc'["feeder"] = "gather"
    BY <1>4, <1>inv, <1>typ DEF Configure, ControlInv, QueueInv
  <2>2. CASE UNCHANGED <<codec, made, madeFor, avail>>
    BY <2>1, <2>2 DEF QueueInv
  <2>3. CASE made' = made + 1 /\ codec' = made' /\ madeFor' = [madeFor EXCEPT ![made'] = {p[2] : p \in params}]
    <3>1. codec' \in Conns /\ codec' > made
      <4>1. made < cur.conn
        BY <2>1, <1>inv DEF MadeInv
      <4>2. made \in Nat /\ cur.conn \in 0..MaxConns /\ MaxConns \in Nat
        BY CurType, DecoderAssumption DEF BasicInv, TypeOK
      <4>. QED BY ONLY <4>1, <4>2, <2>3 DEF Conns
    <3>2. cb'[codec'].at # "submit"
      BY <3>1, <2>1, <1>inv DEF MadeInv, Idle
    <3>3. ~Released => madeFor'[codec'] = {cur.conn} /\ cur.conn \in Conns
      <4>1. madeFor'[codec'] = {p[2] : p \in params}
        BY <2>3, <3>1, <1>typ
      <4>2. cur.conn \in Conns
        BY <2>1, <1>inv, <1>cur DEF ControlInv
      <4>3. ~Released => params # {} /\ \A p \in params : p[2] = cur.conn
        BY <2>1, <1>inv DEF FeedInv
      <4>. QED BY ONLY <4>1, <4>2, <4>3
    <3>4. \A k \in 1..Len(ready') : FALSE
      BY <2>1
    <3>. QED BY <2>1, <2>3, <3>1, <3>2, <3>3, <3>4 DEF QueueInv
  <2>. QED BY <1>4, <2>2, <2>3 DEF Configure
<1>5. CASE Gather
  BY <1>5, <1>still, <1>typ DEF Gather
<1>6. CASE SubmitToCodec
  <2>1. PICK w \in {"gather", "offer", "queue"} : pc' = [pc EXCEPT !["feeder"] = w]
    BY <1>6 DEF SubmitToCodec
  <2>. QED BY <2>1, <1>6, <1>still, <1>typ DEF SubmitToCodec
<1>7. CASE OfferUnit
  <2>1. /\ pc["feeder"] = "offer" /\ pc' = [pc EXCEPT !["feeder"] = "gather"] /\ ready' = Append(ready, Unit)
        /\ UNCHANGED <<madeFor, codec, cur, cb>>
    BY <1>7 DEF OfferUnit
  <2>2. /\ Len(ready') = Len(ready) + 1
        /\ \A k \in 1..Len(ready) : ready'[k] = ready[k]
        /\ ready'[Len(ready) + 1] = Unit
    <3>1. Unit \in Units
      BY <2>1, UnitType DEF BasicInv
    <3>. QED BY <2>1, <3>1, <1>typ, AppendProperties
  <2>3. Unit.conns = acc.conns
    BY <2>1, UnitType DEF BasicInv
  <2>4. ~Released => codec # 0 /\ acc.conns = {cur.conn} /\ madeFor[codec] = {cur.conn}
    BY <2>1, <1>inv DEF FeedInv, QueueInv
  <2>5. codec # 0 /\ ~Released => \A k \in 1..Len(ready') : ready'[k].conns = madeFor[codec]
    <3>1. ASSUME codec # 0, ~Released, NEW k \in 1..Len(ready') PROVE ready'[k].conns = madeFor[codec]
      <4>1. CASE k = Len(ready) + 1
        BY <4>1, <3>1, <2>2, <2>3, <2>4
      <4>2. CASE k \in 1..Len(ready)
        BY <4>2, <3>1, <2>2, <1>inv DEF QueueInv
      <4>. QED BY <4>1, <4>2, <2>2, <1>typ
    <3>. QED BY <3>1
  <2>6. pc'["feeder"] = "gather" /\ (Released' <=> Released)
    BY <2>1, <1>typ
  <2>. QED BY <2>1, <2>4, <2>5, <2>6, <1>inv DEF QueueInv
<1>8. CASE QueueUnit
  BY <1>8, <1>still, <1>typ DEF QueueUnit
<1>9. CASE FeederEnds
  BY <1>9, <1>still, <1>typ DEF FeederEnds, feed
<1>10. CASE Stop \/ Join
  BY <1>10, <1>inv, <1>typ DEF Stop, Join, feed, QueueInv
<1>11. ASSUME NEW p \in {"feeder", "main"}, ReleaseCodec(p) PROVE QueueInv'
  <2>1. CASE p = "main"
    BY <1>11, <2>1, <1>inv, <1>typ DEF ReleaseCodec, QueueInv
  <2>2. CASE p = "feeder"
    BY <1>11, <2>2, <1>inv, <1>typ DEF ReleaseCodec, QueueInv
  <2>. QED BY <2>1, <2>2
<1>12. ASSUME NEW p \in {"feeder", "main"}, ClearReady(p) PROVE QueueInv'
  <2>1. ready' = <<>> /\ \A k \in 1..Len(ready') : FALSE
    BY <1>12 DEF ClearReady
  <2>2. UNCHANGED <<madeFor, codec, cur, cb>> /\ pc' = [pc EXCEPT ![p] = "clear_free"] /\ pc[p] = "clear_ready"
    BY <1>12 DEF ClearReady, feed
  <2>3. (Released' <=> Released) /\ (pc'["feeder"] # "release" => pc["feeder"] # "release")
    BY <2>2, <1>typ
  <2>. QED BY <2>1, <2>2, <2>3, <1>inv DEF QueueInv
<1>13. ASSUME NEW p \in {"feeder", "main"}, ClearFree(p) PROVE QueueInv'
  <2>1. /\ UNCHANGED <<madeFor, codec, cur, ready, cb>> /\ pc[p] = "clear_free"
        /\ pc' = [pc EXCEPT ![p] = IF p = "main" THEN "done" ELSE "take"]
    BY <1>13 DEF ClearFree, feed
  <2>2. CASE p = "main"
    BY <2>1, <2>2, <1>inv, <1>typ DEF QueueInv
  <2>3. CASE p = "feeder"
    BY <2>1, <2>3, <1>still, <1>typ
  <2>. QED BY <2>2, <2>3
<1>cb. ASSUME NEW g \in Conns, NEW v, cb' = [cb EXCEPT ![g] = v], v.at # "submit",
              UNCHANGED <<madeFor, codec, cur, ready, pc>>
       PROVE  QueueInv'
  <2>1. codec # 0 => cb'[codec] = cb[codec] \/ cb'[codec].at # "submit"
    BY <1>cb, <1>typ
  <2>. QED BY <2>1, <1>cb, <1>inv DEF QueueInv
<1>14. ASSUME NEW g \in Conns, InputAvailable(g) PROVE QueueInv'
  <2>1. PICK i \in avail[g] : cb' = [cb EXCEPT ![g] = [Idle EXCEPT !.at = "poll", !.i = i]]
    BY <1>14 DEF InputAvailable
  <2>2. [Idle EXCEPT !.at = "poll", !.i = i].at # "submit"
    BY DEF Idle
  <2>3. UNCHANGED <<madeFor, codec, cur, ready, pc>>
    BY <1>14 DEF InputAvailable, feed
  <2>. QED BY <2>1, <2>2, <2>3, <1>cb
<1>15. ASSUME NEW g \in Conns, PollReady(g) PROVE QueueInv'
  <2>un. UNCHANGED <<madeFor, codec, cur, pc>>
    BY <1>15 DEF PollReady, feed
  <2>1. CASE ready = <<>>
    <3>1. cb' = [cb EXCEPT ![g] = [cb[g] EXCEPT !.at = "park"]] /\ ready' = ready
      BY <1>15, <2>1, <1>typ DEF PollReady
    <3>2. [cb[g] EXCEPT !.at = "park"].at # "submit"
      BY <1>typ
    <3>. QED BY <3>1, <3>2, <2>un, <1>cb
  <2>2. CASE ready # <<>>
    <3>1. cb' = [cb EXCEPT ![g] = [cb[g] EXCEPT !.at = "submit", !.unit = Head(ready)]] /\ ready' = Tail(ready)
      BY <1>15, <2>2, <1>typ DEF PollReady
    <3>2. Len(ready') = Len(ready) - 1 /\ \A k \in 1..Len(ready') : ready'[k] = ready[k + 1]
      BY <3>1, <2>2, <1>typ, HeadTailProperties
    <3>3. Head(ready) = ready[1] /\ 1 \in 1..Len(ready)
      BY <2>2, <1>typ, EmptySeq
    <3>4. codec # 0 /\ ~Released => \A k \in 1..Len(ready') : ready'[k].conns = madeFor[codec]
      <4>1. \A k \in 1..Len(ready') : k + 1 \in 1..Len(ready)
        BY <3>2, <1>typ
      <4>. QED BY <4>1, <3>2, <1>inv DEF QueueInv
    <3>5. codec # 0 => ~Released
      BY <2>2, <1>inv DEF ReleasedInv
    <3>6. codec # 0 /\ cb'[codec].at = "submit" => cb'[codec].unit.conns = madeFor[codec]
      <4>1. codec # 0 => cb'[codec] = cb[codec] \/ (cb'[codec].unit = Head(ready))
        BY <3>1, <1>typ
      <4>. QED BY <4>1, <3>3, <3>5, <1>inv DEF QueueInv
    <3>7. ready' = <<>> \/ codec # 0 \/ Released \/ pc["feeder"] = "clear_ready"
      BY <2>2, <1>inv DEF QueueInv
    <3>8. pc["feeder"] # "configure"
      BY <2>2, <1>inv DEF QueueInv
    <3>. QED BY <2>un, <3>4, <3>5, <3>6, <3>7, <3>8, <1>inv DEF QueueInv
  <2>. QED BY <2>1, <2>2
<1>16. ASSUME NEW g \in Conns, ParkIndex(g) \/ SubmitReady(g) PROVE QueueInv'
  <2>1. cb' = [cb EXCEPT ![g] = Idle] /\ UNCHANGED <<madeFor, codec, cur, ready, pc>> /\ Idle.at # "submit"
    BY <1>16 DEF ParkIndex, SubmitReady, feed, Idle
  <2>. QED BY <2>1, <1>cb
<1>. QED BY <1>step, <1>1, <1>2, <1>3, <1>4, <1>5, <1>6, <1>7, <1>8, <1>9, <1>10, <1>11, <1>12, <1>13,
            <1>14, <1>15, <1>16 DEF Steps

\* A reset leaves nothing of the old codec but what an exception keeps from it.
LEMMA LeftStep ==
  ASSUME BasicInv, LeftInv, [Next]_vars
  PROVE  LeftInv'
<1>typ. /\ avail \in [Conns -> SUBSET Buffers] /\ (codec # 0 => codec \in Conns) /\ 0 \notin Conns /\ made \in Nat
  BY DecoderAssumption DEF BasicInv, TypeOK, Conns
<1>still. ASSUME UNCHANGED <<codec, avail, thrown, surface>> PROVE LeftInv'
  BY <1>still DEF LeftInv
<1>1. CASE Configure
  <2>1. codec = 0 /\ UNCHANGED thrown
    BY <1>1 DEF Configure, BasicInv, ControlInv
  <2>2. CASE UNCHANGED <<codec, avail, surface>>
    BY <2>1, <2>2, <1>still
  <2>3. CASE made' = made + 1 /\ codec' = made' /\ live' = live \cup {made'} /\ UNCHANGED orphans
    <3>1. codec' # 0 /\ live' \ orphans' \subseteq {codec'} \ {0}
      BY <2>1, <2>3, <1>typ DEF LeftInv
    <3>2. thrown' = {}
      BY <2>1 DEF LeftInv
    <3>. QED BY <3>1, <3>2 DEF LeftInv
  <2>4. CASE UNCHANGED <<codec, avail>> /\ live' = live \cup {0} /\ orphans' = orphans \cup {0}
    BY <2>1, <2>4 DEF LeftInv
  <2>. QED BY <2>2, <2>3, <2>4, <1>1 DEF Configure, Loses
<1>sub. ASSUME NEW g, NEW i \in Buffers, NEW u \in Units, Submit(g, i, u), UNCHANGED <<codec, surface>>
        PROVE  LeftInv'
  <2>1. CASE UNCHANGED <<avail, thrown>>
    BY <2>1, <1>sub, <1>still
  <2>2. CASE codec \in Conns /\ avail' = [avail EXCEPT ![codec] = @ \cup {i}] /\ thrown' = thrown \ {i}
    <3>1. codec # 0 /\ avail'[codec] = avail[codec] \cup {i}
      BY <2>2, <1>typ
    <3>. QED BY <3>1, <2>2, <1>sub DEF LeftInv
  <2>3. CASE codec \in Conns /\ i \notin avail[codec] /\ UNCHANGED avail /\ thrown' = thrown \cup {i}
    <3>1. codec # 0
      BY <2>3, <1>typ
    <3>. QED BY <3>1, <2>3, <1>sub DEF LeftInv
  <2>. QED BY <2>1, <2>2, <2>3, <1>sub, SubmitTables DEF BasicInv
<1>2. CASE QueueUnit
  <2>1. pc["feeder"] = "queue" /\ Submit(codec, index, Unit) /\ UNCHANGED <<codec, surface>>
    BY <1>2 DEF QueueUnit
  <2>2. index \in Buffers /\ Unit \in Units
    BY <2>1, UnitType DEF BasicInv, TypeOK, ControlInv, Finished
  <2>. QED BY <2>1, <2>2, <1>sub
<1>3. ASSUME NEW g \in Conns, SubmitReady(g) PROVE LeftInv'
  <2>1. Submit(g, cb[g].i, cb[g].unit) /\ cb[g].i \in Buffers /\ cb[g].unit \in Units /\ UNCHANGED <<codec, surface>>
    BY <1>3 DEF SubmitReady, BasicInv, CbInv
  <2>. QED BY <2>1, <1>sub
<1>4. ASSUME NEW p \in {"feeder", "main"}, ReleaseCodec(p) PROVE LeftInv'
  <2>1. codec' = 0 /\ thrown' = {}
    BY <1>4 DEF ReleaseCodec, Release
  <2>2. live' \ orphans' = {}
    BY <1>4 DEF ReleaseCodec, Release, Loses, LeftInv
  <2>. QED BY <2>1, <2>2 DEF LeftInv
<1>5. ASSUME NEW g \in Conns, InputAvailable(g) PROVE LeftInv'
  <2>1. UNCHANGED <<codec, thrown, surface>> /\ g = codec
    BY <1>5 DEF InputAvailable
  <2>2. avail'[codec] \subseteq avail[codec]
    BY <1>5, <2>1, <1>typ DEF InputAvailable
  <2>. QED BY <2>1, <2>2 DEF LeftInv
<1>6. \/ Configure \/ QueueUnit \/ \E p \in {"feeder", "main"} : ReleaseCodec(p)
      \/ \E g \in Conns : SubmitReady(g) \/ InputAvailable(g)
      \/ UNCHANGED <<codec, avail, thrown, surface>>
  BY NextSteps DEF Steps, OnNewConnection, OnNal, TakeMarker, TakeNal, Gather, SubmitToCodec, OfferUnit, FeederEnds,
    Stop, Join, ClearReady, ClearFree, PollReady, ParkIndex, vars
<1>. QED BY <1>1, <1>2, <1>3, <1>4, <1>5, <1>6, <1>still

\* No unit is anywhere at the start.
LEMMA FlowInit == Init => FlowInv
<1>. SUFFICES ASSUME Init PROVE FlowInv
  OBVIOUS
<1>1. ReleasedInv
  BY DEF Init, ReleasedInv, Released, Finished
<1>2. FeedInv
  BY DEF Init, FeedInv, Finished, Empty
<1>3. QueueInv
  BY DEF Init, QueueInv, Idle
<1>4. LeftInv
  BY DEF Init, LeftInv
<1>. QED BY <1>1, <1>2, <1>3, <1>4 DEF FlowInv

\* The units and the codec belong together in every state.
LEMMA FlowHolds == Spec => [](BasicInv /\ FlowInv)
<1>1. Init => BasicInv /\ FlowInv
  BY BasicInit, FlowInit
<1>2. BasicInv /\ FlowInv /\ [Next]_vars => (BasicInv /\ FlowInv)'
  BY BasicStep, ReleasedStep, FeedStep, QueueStep, LeftStep DEF FlowInv
<1>. QED BY <1>1, <1>2, PTL DEF Spec

\* An access unit handed over while its codec is in use is of the one
\* connection the codec was made for.
LEMMA HandedOver ==
  ASSUME BasicInv, FlowInv, codec # 0,
         NEW u, \/ pc["feeder"] = "queue" /\ u = Unit
                \/ cb[codec].at = "submit" /\ u = cb[codec].unit
  PROVE  madeFor[codec] = u.conns /\ Cardinality(u.conns) = 1
<1>1. u.conns = madeFor[codec] /\ \E c \in Conns : madeFor[codec] = {c}
  <2>1. CASE pc["feeder"] = "queue" /\ u = Unit
    <3>1. ~Released
      BY <2>1 DEF FlowInv, ReleasedInv, Finished
    <3>2. u.conns = acc.conns
      BY <2>1, UnitType DEF BasicInv, Finished
    <3>. QED BY <3>1, <3>2, <2>1 DEF FlowInv, FeedInv, QueueInv, Finished
  <2>2. CASE cb[codec].at = "submit" /\ u = cb[codec].unit
    BY <2>2 DEF FlowInv, QueueInv
  <2>. QED BY <2>1, <2>2
<1>. QED BY <1>1, FS_Singleton

\* No step gives a codec an access unit of another connection.
LEMMA OneStreamStep ==
  ASSUME BasicInv, FlowInv, OneStreamPerCodec, [Next]_vars
  PROVE  OneStreamPerCodec'
<1>typ. /\ input \in [Conns -> SUBSET (SUBSET Conns)] /\ madeFor \in [Conns -> SUBSET Conns]
  BY DEF BasicInv, TypeOK
<1>still. ASSUME UNCHANGED <<input, madeFor>> PROVE OneStreamPerCodec'
  BY <1>still DEF OneStreamPerCodec
<1>sub. ASSUME NEW g, NEW i \in Buffers, NEW u \in Units, Submit(g, i, u), UNCHANGED madeFor,
               codec # 0 /\ g = codec => madeFor[codec] = u.conns /\ Cardinality(u.conns) = 1
        PROVE  OneStreamPerCodec'
  <2>1. \A h \in Conns : h # codec => input'[h] = input[h]
    BY <1>sub, SubmitTables DEF BasicInv
  <2>2. CASE UNCHANGED input
    BY <2>2, <1>sub, <1>still
  <2>3. CASE codec \in Conns /\ g = codec /\ input' = [input EXCEPT ![codec] = @ \cup {u.conns}]
    <3>1. codec # 0
      BY <2>3 DEF Conns
    <3>2. input'[codec] = input[codec] \cup {u.conns}
      BY <2>3, <1>typ
    <3>. QED BY <3>1, <3>2, <2>1, <2>3, <1>sub DEF OneStreamPerCodec
  <2>. QED BY <2>2, <2>3, <1>sub, SubmitTables DEF BasicInv
<1>1. CASE Configure
  <2>1. CASE UNCHANGED <<made, madeFor>>
    BY <1>1, <2>1, <1>still DEF Configure
  <2>2. CASE made' = made + 1 /\ madeFor' = [madeFor EXCEPT ![made'] = {p[2] : p \in params}]
    <3>1. \A g \in Conns : g # made' => madeFor'[g] = madeFor[g]
      BY <2>2, <1>typ
    <3>2. made' \in Conns => input[made'] = {}
      <4>1. made \in Nat
        BY DEF BasicInv, TypeOK
      <4>2. \A g \in Conns : g > made => input[g] = {}
        BY DEF BasicInv, MadeInv
      <4>. QED BY <4>1, <4>2, <2>2
    <3>3. input' = input
      BY <1>1 DEF Configure
    <3>. QED BY <3>1, <3>2, <3>3 DEF OneStreamPerCodec
  <2>. QED BY <2>1, <2>2, <1>1 DEF Configure
<1>2. CASE QueueUnit
  <2>1. pc["feeder"] = "queue" /\ Submit(codec, index, Unit) /\ UNCHANGED madeFor
    BY <1>2 DEF QueueUnit
  <2>2. index \in Buffers /\ Unit \in Units
    BY <2>1, UnitType DEF BasicInv, TypeOK, ControlInv, Finished
  <2>3. codec # 0 => madeFor[codec] = Unit.conns /\ Cardinality(Unit.conns) = 1
    BY <2>1, HandedOver
  <2>. QED BY <2>1, <2>2, <2>3, <1>sub
<1>3. ASSUME NEW g \in Conns, SubmitReady(g) PROVE OneStreamPerCodec'
  <2>1. Submit(g, cb[g].i, cb[g].unit) /\ cb[g].at = "submit" /\ UNCHANGED madeFor
    BY <1>3 DEF SubmitReady
  <2>2. cb[g].i \in Buffers /\ cb[g].unit \in Units
    BY <2>1 DEF BasicInv, CbInv
  <2>3. codec # 0 /\ g = codec => madeFor[codec] = cb[g].unit.conns /\ Cardinality(cb[g].unit.conns) = 1
    BY <2>1, HandedOver
  <2>. QED BY <2>1, <2>2, <2>3, <1>sub
<1>4. \/ Configure \/ QueueUnit \/ \E g \in Conns : SubmitReady(g)
      \/ UNCHANGED <<input, madeFor>>
  BY NextSteps DEF Steps, OnNewConnection, OnNal, TakeMarker, TakeNal, Gather, SubmitToCodec, OfferUnit, FeederEnds,
    Stop, Join, ReleaseCodec, ClearReady, ClearFree, InputAvailable, PollReady, ParkIndex, vars
<1>. QED BY <1>1, <1>2, <1>3, <1>4, <1>still

\* VideoDecoder.kt 135-145: a codec is only ever given access units of the
\* connection whose parameter sets it was made from, for any number of
\* connections and however late the callbacks of the codecs before it are.
THEOREM AccessUnitsStayInStream == Spec => []OneStreamPerCodec
<1>1. Init => OneStreamPerCodec
  BY DEF Init, OneStreamPerCodec
<1>. QED BY <1>1, OneStreamStep, FlowHolds, PTL DEF Spec

\* VideoDecoder.kt 121-128, 151-158, 344-351: however resets, failing starts and stop()
\* follow each other, a codec that no exception made the decoder lose is the one in use
\* or has been released; and a stop() that saw the feeder end leaves none in use.
THEOREM StopReleasesCodec == Spec => []StoppedReleasesCodec
<1>1. FlowInv => StoppedReleasesCodec
  BY DEF FlowInv, ReleasedInv, LeftInv, StoppedReleasesCodec, Released
<1>. QED BY <1>1, FlowHolds, PTL

-----------------------------------------------------------------------------
(* The two queues.                                                         *)

\* While the decoder runs, a buffer leaves one place for the next.
LEMMA BufferStep ==
  ASSUME BasicInv, BufferInv, [Next]_vars
  PROVE  BufferInv'
<1>inv. ControlInv /\ CbInv /\ MadeInv
  BY DEF BasicInv
<1>typ. /\ pc \in PcType /\ free \in Seq(Buffers) /\ Len(free) \in Nat
        /\ cb \in [Conns -> [at : {"idle", "poll", "park", "submit"}, i : Buffers \cup {None},
                             unit : Units \cup {NoUnit}]]
        /\ avail \in [Conns -> SUBSET Buffers] /\ None \notin Buffers
        /\ (codec # 0 => codec \in Conns)
  BY DecoderAssumption, LenProperties DEF BasicInv, TypeOK, PcType, Conns
<1>. DEFINE Free(i) == \E k \in 1..Len(free) : free[k] = i
            Somewhere(i) == Free(i) \/ i = index \/ cb[codec].i = i
<1>0. running /\ codec # 0 => \A i \in Buffers \ Kept : Somewhere(i)
  BY DEF BufferInv
<1>1. ASSUME running' => running, codec' = codec, running /\ codec # 0 => Kept \subseteq Kept',
             running /\ codec # 0 => \A i \in Buffers \ Kept' : Somewhere(i) => Somewhere(i)'
      PROVE  BufferInv'
  BY <1>1, <1>0 DEF BufferInv
<1>kept. ASSUME UNCHANGED <<codec, avail, thrown>> PROVE Kept' = Kept
  BY <1>kept DEF Kept
<1>2. ASSUME UNCHANGED <<codec, avail, thrown, free, index, cb>>, running' => running PROVE BufferInv'
  <2>1. Kept' = Kept
    BY <1>2, <1>kept
  <2>. QED BY <1>2, <1>1, <2>1
<1>3. CASE Configure
  <2>1. CASE UNCHANGED <<codec, avail>>
    BY <1>3, <2>1, <1>2 DEF Configure
  <2>2. CASE made' = made + 1 /\ codec' = made' /\ avail' = [avail EXCEPT ![made'] = Buffers]
    <3>1. codec' \in Conns
      <4>1. made < cur.conn
        BY <1>3, <1>inv DEF MadeInv, Configure
      <4>2. made \in Nat /\ cur.conn \in 0..MaxConns /\ MaxConns \in Nat
        BY CurType, DecoderAssumption DEF BasicInv, TypeOK
      <4>. QED BY ONLY <4>1, <4>2, <2>2 DEF Conns
    <3>2. avail'[codec'] = Buffers
      BY <3>1, <2>2, <1>typ
    <3>. QED BY <3>2 DEF BufferInv, Kept
  <2>. QED BY <2>1, <2>2, <1>3 DEF Configure
<1>4. CASE SubmitToCodec
  <2>kept. Kept' = Kept
    BY <1>4, <1>kept DEF SubmitToCodec
  <2>1. CASE codec = 0 \/ free = <<>>
    <3>1. codec' = codec /\ (codec # 0 => UNCHANGED <<avail, free, cb>>) /\ UNCHANGED running
      BY <1>4, <2>1 DEF SubmitToCodec
    <3>2. codec # 0 => index = None
      BY <1>4, <1>inv DEF SubmitToCodec, ControlInv
    <3>3. codec # 0 => \A i \in Buffers : Somewhere(i) => Somewhere(i)'
      BY <3>1, <3>2, <1>typ
    <3>. QED BY <3>1, <3>3, <2>kept, <1>1
  <2>2. CASE codec # 0 /\ free # <<>>
    <3>1. UNCHANGED <<codec, avail, cb, running>> /\ index = None /\ index' = Head(free) /\ free' = Tail(free)
      BY <1>4, <2>2, <1>inv DEF SubmitToCodec, ControlInv
    <3>2. Len(free') = Len(free) - 1 /\ \A k \in 1..Len(free') : free'[k] = free[k + 1]
      BY <3>1, <2>2, <1>typ, HeadTailProperties
    <3>3. Head(free) = free[1]
      BY <1>typ
    <3>4. ASSUME NEW i \in Buffers, Free(i) PROVE Free(i)' \/ i = index'
      <4>1. PICK k \in 1..Len(free) : free[k] = i
        BY <3>4
      <4>2. CASE k = 1
        BY <4>1, <4>2, <3>1, <3>3
      <4>3. CASE k # 1
        <5>1. k - 1 \in 1..Len(free') /\ (k - 1) + 1 = k
          BY <4>3, <3>2, <1>typ
        <5>2. free'[k - 1] = i
          BY <5>1, <4>1, <3>2
        <5>. QED BY <5>1, <5>2
      <4>. QED BY <4>2, <4>3
    <3>5. \A i \in Buffers : Somewhere(i) => Somewhere(i)'
      BY <3>1, <3>4, <1>typ
    <3>. QED BY <3>1, <3>5, <2>kept, <1>1
  <2>. QED BY <2>1, <2>2
<1>sub. ASSUME NEW g, NEW i \in Buffers, NEW u \in Units, Submit(g, i, u), UNCHANGED <<running, codec, free>>,
               running /\ codec # 0 =>
                 \A j \in Buffers \ {i} : (j = index \/ cb[codec].i = j) => (j = index' \/ cb'[codec].i = j),
               running /\ codec # 0 /\ g # codec =>
                 \A j \in Buffers : cb[codec].i = j => cb'[codec].i = j,
               g # codec => UNCHANGED index
        PROVE  BufferInv'
  <2>1. CASE codec # 0 /\ g = codec
    <3>1. Kept' = Kept \cup {i}
      BY <2>1, <1>sub, SubmitKeeps DEF BasicInv
    <3>2. running => \A j \in Buffers \ Kept' : Somewhere(j) => Somewhere(j)'
      BY <3>1, <2>1, <1>sub
    <3>. QED BY <3>1, <3>2, <1>1, <1>sub
  <2>2. CASE ~(codec # 0 /\ g = codec)
    <3>1. Kept' = Kept
      BY <2>2, <1>sub, <1>kept, SubmitKeeps DEF BasicInv
    <3>2. running /\ codec # 0 => \A j \in Buffers : Somewhere(j) => Somewhere(j)'
      BY <2>2, <1>sub
    <3>. QED BY <3>1, <3>2, <1>1, <1>sub
  <2>. QED BY <2>1, <2>2
<1>5. CASE QueueUnit
  <2>1. /\ pc["feeder"] = "queue" /\ Submit(codec, index, Unit)
        /\ UNCHANGED <<running, codec, free, cb>>
    BY <1>5 DEF QueueUnit
  <2>2. index \in Buffers /\ Unit \in Units
    BY <2>1, <1>inv, UnitType DEF BasicInv, TypeOK, ControlInv, Finished
  <2>. QED BY <2>1, <2>2, <1>sub
<1>6. ASSUME NEW p \in {"feeder", "main"}, ReleaseCodec(p) PROVE BufferInv'
  BY <1>6 DEF ReleaseCodec, BufferInv
<1>7. ASSUME NEW p \in {"feeder", "main"}, ClearFree(p) PROVE BufferInv'
  <2>1. CASE p = "main"
    BY <1>7, <2>1, <1>inv DEF ClearFree, ControlInv, BufferInv
  <2>2. CASE p = "feeder"
    BY <1>7, <2>2, <1>inv DEF ClearFree, ControlInv, BufferInv
  <2>. QED BY <2>1, <2>2
<1>8. ASSUME NEW g \in Conns, InputAvailable(g) PROVE BufferInv'
  <2>1. PICK i \in avail[g] : /\ avail' = [avail EXCEPT ![g] = @ \ {i}]
                              /\ cb' = [cb EXCEPT ![g] = [Idle EXCEPT !.at = "poll", !.i = i]]
    BY <1>8 DEF InputAvailable
  <2>2. /\ UNCHANGED <<running, codec, free, index, thrown>> /\ g = codec /\ cb[g].i = None
    BY <1>8 DEF InputAvailable, feed, Idle
  <2>3. avail'[codec] = avail[codec] \ {i} /\ cb'[codec].i = i
    BY <2>1, <2>2, <1>typ DEF Idle
  <2>4. Kept \subseteq Kept' \cup {i}
    BY <2>2, <2>3 DEF Kept
  <2>5. running' /\ codec' # 0 => \A j \in Buffers \ Kept' : Somewhere(j)'
    BY <2>2, <2>3, <2>4, <1>0, <1>typ
  <2>. QED BY <2>2, <2>5 DEF BufferInv
<1>9. ASSUME NEW g \in Conns, PollReady(g) PROVE BufferInv'
  <2>1. UNCHANGED <<running, codec, avail, thrown, free, index>>
    BY <1>9 DEF PollReady, feed
  <2>2. codec # 0 => cb'[codec].i = cb[codec].i
    BY <1>9, <1>typ DEF PollReady
  <2>3. Kept' = Kept
    BY <2>1, <1>kept
  <2>. QED BY <2>1, <2>2, <2>3, <1>1
<1>10. ASSUME NEW g \in Conns, ParkIndex(g) PROVE BufferInv'
  <2>1. /\ UNCHANGED <<running, codec, avail, thrown, index>> /\ cb' = [cb EXCEPT ![g] = Idle]
        /\ free' = Append(free, cb[g].i) /\ cb[g].i \in Buffers
    BY <1>10, <1>inv DEF ParkIndex, feed, CbInv
  <2>2. /\ Len(free') = Len(free) + 1 /\ free'[Len(free) + 1] = cb[g].i
        /\ \A k \in 1..Len(free) : free'[k] = free[k]
    BY <2>1, <1>typ, AppendProperties
  <2>3. ASSUME NEW i \in Buffers, Free(i) \/ cb[g].i = i PROVE Free(i)'
    <3>1. CASE cb[g].i = i
      <4>1. Len(free) + 1 \in 1..Len(free')
        BY <2>2, <1>typ
      <4>. QED BY <4>1, <3>1, <2>2
    <3>2. CASE Free(i)
      <4>1. PICK k \in 1..Len(free) : free[k] = i
        BY <3>2
      <4>2. k \in 1..Len(free')
        BY <2>2, <1>typ
      <4>. QED BY <4>1, <4>2, <2>2
    <3>. QED BY <3>1, <3>2, <2>3
  <2>4. codec # 0 /\ codec # g => cb'[codec] = cb[codec]
    BY <2>1, <1>typ
  <2>5. codec # 0 => \A i \in Buffers : Somewhere(i) => Somewhere(i)'
    BY <2>1, <2>3, <2>4
  <2>6. Kept' = Kept
    BY <2>1, <1>kept
  <2>. QED BY <2>1, <2>5, <2>6, <1>1
<1>11. ASSUME NEW g \in Conns, SubmitReady(g) PROVE BufferInv'
  <2>1. /\ UNCHANGED <<running, codec, free, index>> /\ cb' = [cb EXCEPT ![g] = Idle]
        /\ Submit(g, cb[g].i, cb[g].unit) /\ cb[g].i \in Buffers /\ cb[g].unit \in Units
    BY <1>11, <1>inv DEF SubmitReady, feed, CbInv
  <2>2. codec # 0 /\ codec # g => cb'[codec] = cb[codec]
    BY <2>1, <1>typ
  <2>. QED BY <2>1, <2>2, <1>sub
<1>12. CASE UNCHANGED <<codec, avail, thrown, free, index, cb>> /\ (running' => running)
  BY <1>12, <1>2
<1>13. \/ Configure \/ SubmitToCodec \/ QueueUnit
       \/ \E p \in {"feeder", "main"} : ReleaseCodec(p) \/ ClearFree(p)
       \/ \E g \in Conns : InputAvailable(g) \/ PollReady(g) \/ ParkIndex(g) \/ SubmitReady(g)
       \/ UNCHANGED <<codec, avail, thrown, free, index, cb>> /\ (running' => running)
  BY NextSteps DEF Steps, OnNewConnection, OnNal, TakeMarker, TakeNal, Gather, OfferUnit, FeederEnds, Stop, Join,
    ClearReady, vars, feed
<1>. QED BY <1>3, <1>4, <1>5, <1>6, <1>7, <1>8, <1>9, <1>10, <1>11, <1>12, <1>13

\* VideoDecoder.kt 90-95, 379-396: while the decoder runs, no buffer the codec in use
\* handed out is forgotten, but for those whose own submit threw.
THEOREM NoBufferIsDropped == Spec => []BuffersAccounted
<1>1. Init => BufferInv
  BY DEF Init, BufferInv
<1>2. BasicInv /\ BufferInv => BuffersAccounted
  <2>. SUFFICES ASSUME BasicInv, BufferInv PROVE BuffersAccounted
    OBVIOUS
  <2>1. codec # 0 => codec \in Conns
    BY DecoderAssumption DEF BasicInv, TypeOK, Conns
  <2>. QED BY <2>1 DEF BufferInv, BuffersAccounted, Kept
<1>. QED BY <1>1, <1>2, BufferStep, BasicHolds, PTL DEF Spec

\* Only a callback that finds no access unit parks, and only a feeder that
\* finds no index offers: the two miss each other once per callback thread.
LEMMA MissStep ==
  ASSUME BasicInv, MissInv, [Next]_vars
  PROVE  MissInv'
<1>. DEFINE A == Len(ready) + Has(pc["feeder"] = "offer")
            B == Len(free) + Cardinality(Parking)
<1>typ. /\ pc \in PcType /\ free \in Seq(Buffers) /\ Len(free) \in Nat /\ ready \in Seq(Units) /\ Len(ready) \in Nat
        /\ cb \in [Conns -> [at : {"idle", "poll", "park", "submit"}, i : Buffers \cup {None},
                             unit : Units \cup {NoUnit}]]
        /\ made \in Nat
  BY LenProperties DEF BasicInv, TypeOK, PcType
<1>nat. Cardinality(Parking) \in Nat /\ Cardinality(Parking)' \in Nat
  BY CountsType
<1>has. Has(pc["feeder"] = "offer") \in {0, 1} /\ Has(pc["feeder"] = "offer")' \in {0, 1}
  BY DEF Has
<1>idle. \A g \in Conns : cb[g] # Idle => g <= made
  <2>1. \A g \in Conns : g \in Nat
    BY DEF Conns
  <2>. QED BY <2>1, <1>typ DEF BasicInv, MadeInv
<1>0. A <= made \/ B <= made
  BY DEF MissInv
<1>1. ASSUME UNCHANGED <<ready, free, cb>>, made' = made \/ made' = made + 1,
             pc'["feeder"] = "offer" => pc["feeder"] = "offer"
      PROVE  MissInv'
  <2>1. Cardinality(Parking)' = Cardinality(Parking)
    BY <1>1, CallbackStill
  <2>2. Has(pc["feeder"] = "offer")' <= Has(pc["feeder"] = "offer")
    BY <1>1 DEF Has
  <2>3. A' <= made' \/ B' <= made'
    BY ONLY <2>1, <2>2, <1>0, <1>1, <1>typ, <1>nat, <1>has
  <2>. QED BY <2>3 DEF MissInv
<1>parked. Cardinality(Parking) <= made
  <2>1. Parking \subseteq 1..made
    <3>1. \A g \in Parking : g \in Conns /\ cb[g] # Idle
      BY DEF Parking, Idle
    <3>. QED BY <3>1, <1>idle, <1>typ DEF Conns
  <2>2. IsFiniteSet(1..made) /\ Cardinality(1..made) = made
    <3>1. 1 \in Int /\ made \in Int
      BY <1>typ
    <3>2. IsFiniteSet(1..made) /\ Cardinality(1..made) = IF 1 > made THEN 0 ELSE made - 1 + 1
      BY ONLY <3>1, FS_Interval
    <3>. QED BY <3>2, <1>typ
  <2>. QED BY <2>1, <2>2, FS_Subset
<1>2. CASE SubmitToCodec
  <2>1. Cardinality(Parking)' = Cardinality(Parking)
    BY <1>2, CallbackStill DEF SubmitToCodec
  <2>2. UNCHANGED <<ready, made>> /\ pc["feeder"] = "gather"
    BY <1>2 DEF SubmitToCodec
  <2>3. CASE free = <<>>
    <3>1. Len(free') = 0
      BY <1>2, <2>3 DEF SubmitToCodec
    <3>2. B' <= made'
      BY ONLY <3>1, <2>1, <2>2, <1>parked, <1>nat, <1>typ
    <3>. QED BY <3>2 DEF MissInv
  <2>4. CASE free # <<>>
    <3>1. Len(free') <= Len(free) /\ Len(free') \in Nat
      BY <1>2, <2>4, <1>typ, HeadTailProperties, EmptySeq DEF SubmitToCodec
    <3>2. pc'["feeder"] # "offer"
      BY <1>2, <2>4, <1>typ DEF SubmitToCodec, PcType
    <3>3. Has(pc["feeder"] = "offer")' = 0 /\ Has(pc["feeder"] = "offer") = 0
      BY <3>2, <2>2 DEF Has
    <3>4. A' <= made' \/ B' <= made'
      BY ONLY <3>1, <3>3, <2>1, <2>2, <1>0, <1>nat, <1>typ
    <3>. QED BY <3>4 DEF MissInv
  <2>. QED BY <2>3, <2>4
<1>3. CASE OfferUnit
  <2>1. Cardinality(Parking)' = Cardinality(Parking)
    BY <1>3, CallbackStill DEF OfferUnit
  <2>2. UNCHANGED <<free, made>> /\ Len(ready') = Len(ready) + 1
    BY <1>3, <1>typ DEF OfferUnit
  <2>3. Has(pc["feeder"] = "offer") = 1 /\ Has(pc["feeder"] = "offer")' = 0
    BY <1>3, <1>typ DEF OfferUnit, Has, PcType
  <2>4. A' <= made' \/ B' <= made'
    BY ONLY <2>1, <2>2, <2>3, <1>0, <1>nat, <1>typ
  <2>. QED BY <2>4 DEF MissInv
<1>4. ASSUME NEW p \in {"feeder", "main"}, ClearReady(p) PROVE MissInv'
  <2>1. Cardinality(Parking)' = Cardinality(Parking)
    BY <1>4, CallbackStill DEF ClearReady
  <2>2. UNCHANGED <<free, made>> /\ Len(ready') = 0
    BY <1>4 DEF ClearReady
  <2>3. Has(pc["feeder"] = "offer")' <= Has(pc["feeder"] = "offer")
    BY <1>4, <1>typ DEF ClearReady, Has
  <2>4. A' <= made' \/ B' <= made'
    BY ONLY <2>1, <2>2, <2>3, <1>0, <1>nat, <1>typ, <1>has
  <2>. QED BY <2>4 DEF MissInv
<1>5. ASSUME NEW p \in {"feeder", "main"}, ClearFree(p) PROVE MissInv'
  <2>1. Cardinality(Parking)' = Cardinality(Parking)
    BY <1>5, CallbackStill DEF ClearFree
  <2>2. UNCHANGED made /\ Len(free') = 0
    BY <1>5 DEF ClearFree
  <2>3. B' <= made'
    BY ONLY <2>1, <2>2, <1>parked, <1>nat, <1>typ
  <2>. QED BY <2>3 DEF MissInv
<1>6. ASSUME NEW g \in Conns, PollReady(g) PROVE MissInv'
  <2>1. UNCHANGED <<made, free, pc>>
    BY <1>6 DEF PollReady, feed
  <2>has. Has(pc["feeder"] = "offer")' = Has(pc["feeder"] = "offer")
    BY <2>1
  <2>2. CASE ready = <<>>
    <3>1. Len(ready') = 0
      BY <1>6, <2>2 DEF PollReady
    <3>2. made >= 1
      <4>1. cb[g] # Idle /\ g >= 1 /\ g \in Nat
        BY <1>6 DEF PollReady, Idle, Conns
      <4>. QED BY <4>1, <1>idle, <1>typ
    <3>3. A' <= made'
      BY ONLY <3>1, <3>2, <2>1, <1>has, <1>typ
    <3>. QED BY <3>3 DEF MissInv
  <2>3. CASE ready # <<>>
    <3>1. cb' = [cb EXCEPT ![g] = [cb[g] EXCEPT !.at = "submit", !.unit = Head(ready)]] /\ ready' = Tail(ready)
      BY <1>6, <2>3, <1>typ DEF PollReady
    <3>2. Len(ready') = Len(ready) - 1
      BY <3>1, <2>3, <1>typ, HeadTailProperties
    <3>3. Cardinality(Parking)' + Has(cb[g].at = "park")
            = Cardinality(Parking) + Has([cb[g] EXCEPT !.at = "submit", !.unit = Head(ready)].at = "park")
      BY <3>1, CallbackMove DEF BasicInv
    <3>4. Has(cb[g].at = "park") = 0 /\ Has([cb[g] EXCEPT !.at = "submit", !.unit = Head(ready)].at = "park") = 0
      BY <1>6, <1>typ DEF Has, PollReady
    <3>5. A' <= made' \/ B' <= made'
      BY ONLY <3>2, <3>3, <3>4, <2>1, <2>has, <1>0, <1>nat, <1>has, <1>typ
    <3>. QED BY <3>5 DEF MissInv
  <2>. QED BY <2>2, <2>3
<1>7. ASSUME NEW g \in Conns, NEW v, cb' = [cb EXCEPT ![g] = v], v.at # "park",
             UNCHANGED <<made, ready, pc>>, Len(free') \in Nat, Len(free') <= Len(free) + Has(cb[g].at = "park")
      PROVE  MissInv'
  <2>1. Cardinality(Parking)' + Has(cb[g].at = "park") = Cardinality(Parking) + Has(v.at = "park")
    BY <1>7, CallbackMove DEF BasicInv
  <2>2. Has(v.at = "park") = 0 /\ Has(cb[g].at = "park") \in {0, 1}
    BY <1>7 DEF Has
  <2>3. Has(pc["feeder"] = "offer")' = Has(pc["feeder"] = "offer")
    BY <1>7
  <2>4. A' <= made' \/ B' <= made'
    BY ONLY <2>1, <2>2, <2>3, <1>7, <1>0, <1>nat, <1>has, <1>typ
  <2>. QED BY <2>4 DEF MissInv
<1>8. ASSUME NEW g \in Conns, InputAvailable(g) PROVE MissInv'
  <2>1. PICK i \in avail[g] : cb' = [cb EXCEPT ![g] = [Idle EXCEPT !.at = "poll", !.i = i]]
    BY <1>8 DEF InputAvailable
  <2>2. [Idle EXCEPT !.at = "poll", !.i = i].at # "park"
    BY DEF Idle
  <2>3. UNCHANGED <<made, ready, pc, free>> /\ Has(cb[g].at = "park") \in Nat
    BY <1>8 DEF InputAvailable, feed, Has
  <2>4. Len(free') \in Nat /\ Len(free') <= Len(free) + Has(cb[g].at = "park")
    BY ONLY <2>3, <1>typ
  <2>. QED BY <2>1, <2>2, <2>3, <2>4, <1>7
<1>9. ASSUME NEW g \in Conns, ParkIndex(g) PROVE MissInv'
  <2>1. cb' = [cb EXCEPT ![g] = Idle] /\ UNCHANGED <<made, ready, pc>> /\ Idle.at # "park"
    BY <1>9 DEF ParkIndex, feed, Idle
  <2>2. Has(cb[g].at = "park") = 1
    BY <1>9 DEF ParkIndex, Has
  <2>3. Len(free') = Len(free) + 1
    BY <1>9, <1>typ DEF ParkIndex
  <2>4. Len(free') \in Nat /\ Len(free') <= Len(free) + Has(cb[g].at = "park")
    BY ONLY <2>2, <2>3, <1>typ
  <2>. QED BY <2>1, <2>4, <1>7
<1>10. ASSUME NEW g \in Conns, SubmitReady(g) PROVE MissInv'
  <2>1. cb' = [cb EXCEPT ![g] = Idle] /\ UNCHANGED <<made, ready, pc, free>> /\ Idle.at # "park"
    BY <1>10 DEF SubmitReady, feed, Idle
  <2>2. Has(cb[g].at = "park") \in Nat
    BY DEF Has
  <2>3. Len(free') \in Nat /\ Len(free') <= Len(free) + Has(cb[g].at = "park")
    BY ONLY <2>1, <2>2, <1>typ
  <2>. QED BY <2>1, <2>3, <1>7
<1>11. CASE Configure
  BY <1>11, <1>1, <1>typ DEF Configure
<1>12. CASE \/ OnNewConnection \/ OnNal \/ TakeMarker \/ TakeNal \/ Gather \/ QueueUnit \/ FeederEnds \/ Stop \/ Join
            \/ UNCHANGED vars \/ \E p \in {"feeder", "main"} : ReleaseCodec(p)
  <2>1. UNCHANGED <<ready, free, cb, made>>
    BY <1>12 DEF OnNewConnection, OnNal, TakeMarker, TakeNal, Gather, QueueUnit, FeederEnds, Stop, Join,
      ReleaseCodec, vars, feed
  <2>2. pc'["feeder"] = "offer" => pc["feeder"] = "offer"
    <3>1. CASE TakeNal
      <4>1. PICK w \in {"gather", "configure", "take"} : pc' = [pc EXCEPT !["feeder"] = w]
        BY <3>1 DEF TakeNal
      <4>. QED BY <4>1, <1>typ DEF PcType
    <3>2. CASE OnNewConnection \/ OnNal \/ UNCHANGED vars
      BY <3>2 DEF OnNewConnection, OnNal, vars
    <3>3. CASE TakeMarker \/ Gather \/ QueueUnit
      BY <3>3, <1>typ DEF TakeMarker, Gather, QueueUnit, PcType
    <3>4. CASE FeederEnds \/ Stop \/ Join \/ \E p \in {"feeder", "main"} : ReleaseCodec(p)
      BY <3>4, <1>typ DEF FeederEnds, Stop, Join, ReleaseCodec, PcType
    <3>. QED BY <1>12, <3>1, <3>2, <3>3, <3>4
  <2>. QED BY <2>1, <2>2, <1>1
<1>. QED BY NextSteps, <1>2, <1>3, <1>4, <1>5, <1>6, <1>8, <1>9, <1>10, <1>11, <1>12 DEF Steps

\* VideoDecoder.kt 95-99: however often the feeder and the callbacks miss each
\* other, one of the two queues stays as short as there have been codecs.
THEOREM MissesAreBounded == Spec => []MissesDoNotAddUp
<1>1. Init => MissInv
  BY DEF Init, MissInv, Has
<1>2. BasicInv /\ MissInv => MissesDoNotAddUp
  <2>. SUFFICES ASSUME BasicInv, MissInv PROVE MissesDoNotAddUp
    OBVIOUS
  <2>1. Len(ready) \in Nat /\ Len(free) \in Nat /\ made \in Nat
    BY LenProperties DEF BasicInv, TypeOK
  <2>2. Has(pc["feeder"] = "offer") \in Nat /\ Cardinality(Parking) \in Nat
    BY CountsType DEF Has
  <2>. QED BY <2>1, <2>2 DEF MissInv, MissesDoNotAddUp
<1>. QED BY <1>1, <1>2, MissStep, BasicHolds, PTL DEF Spec

-----------------------------------------------------------------------------
(* Lost access units.                                                      *)

\* Access units waiting for a buffer are of no later connection than the
\* feeder's, and of an earlier one once the feeder has seen a marker.
LEMMA StaleStep ==
  ASSUME BasicInv, FlowInv, StaleInv, [Next]_vars
  PROVE  StaleInv'
<1>typ. /\ pc \in PcType /\ ready \in Seq(Units) /\ Len(ready) \in Nat
        /\ cb \in [Conns -> [at : {"idle", "poll", "park", "submit"}, i : Buffers \cup {None},
                             unit : Units \cup {NoUnit}]]
        /\ cur.conn \in Nat
  BY LenProperties, CurType DEF BasicInv, TypeOK, PcType
<1>nat. \A u \in Held : \A c \in u.conns : c \in Nat
  <2>1. \A u \in Held : u \in Units
    <3>1. \A k \in 1..Len(ready) : ready[k] \in Units
      BY <1>typ, ElementOfSeq
    <3>2. \A g \in Submitting : cb[g].unit \in Units
      BY DEF Submitting, BasicInv, CbInv
    <3>. QED BY <3>1, <3>2 DEF Held
  <2>. QED BY <2>1 DEF Units, Conns
<1>run. running => ~Released
  BY DEF BasicInv, ControlInv, Released
<1>0. running => \A u \in Held : \A c \in u.conns :
                   c <= cur.conn /\ (codec = 0 \/ pc["feeder"] = "release" => c < cur.conn)
  BY DEF StaleInv
<1>1. ASSUME Held' \subseteq Held, running' => running, cur'.conn = cur.conn,
             codec' = 0 \/ pc'["feeder"] = "release" => codec = 0 \/ pc["feeder"] = "release" \/ ~running'
      PROVE  StaleInv'
  BY <1>1, <1>0 DEF StaleInv
<1>2. ASSUME UNCHANGED <<ready, cb>> PROVE Held' = Held
  BY <1>2 DEF Held, Submitting
<1>3. CASE TakeMarker
  <2>1. cur'.conn = cur.conn + 1 /\ running /\ Held' = Held
    BY <1>3, <1>2, TakenFollows DEF TakeMarker, BasicInv
  <2>2. \A u \in Held : \A c \in u.conns : c <= cur'.conn /\ c < cur'.conn
    BY <2>1, <1>0, <1>nat, <1>typ
  <2>. QED BY <2>1, <2>2 DEF StaleInv
<1>4. CASE TakeNal
  <2>1. cur'.conn = cur.conn /\ running /\ Held' = Held /\ UNCHANGED codec
    BY <1>4, <1>2, TakenFollows DEF TakeNal, BasicInv
  <2>2. pc'["feeder"] # "release"
    <3>1. PICK w \in {"gather", "configure", "take"} : pc' = [pc EXCEPT !["feeder"] = w]
      BY <1>4 DEF TakeNal
    <3>. QED BY <3>1, <1>typ DEF PcType
  <2>. QED BY <2>1, <2>2, <1>1
<1>5. CASE OfferUnit
  <2>1. /\ pc["feeder"] = "offer" /\ pc'["feeder"] = "gather" /\ ready' = Append(ready, Unit)
        /\ UNCHANGED <<codec, cur, cb, running>>
    BY <1>5, <1>typ DEF OfferUnit, PcType
  <2>2. /\ Unit \in Units /\ Unit.conns = acc.conns
    BY <2>1, UnitType DEF BasicInv, Finished
  <2>3. running => codec # 0 /\ Unit.conns = {cur.conn}
    BY <2>1, <2>2, <1>run DEF FlowInv, FeedInv, Finished
  <2>4. \A u \in Held' : u \in Held \/ u = Unit
    <3>1. /\ Len(ready') = Len(ready) + 1 /\ ready'[Len(ready) + 1] = Unit
          /\ \A k \in 1..Len(ready) : ready'[k] = ready[k]
      BY <2>1, <2>2, <1>typ, AppendProperties
    <3>2. \A k \in 1..Len(ready') : k \in 1..Len(ready) \/ k = Len(ready) + 1
      BY <3>1, <1>typ
    <3>3. Submitting' = Submitting
      BY <2>1 DEF Submitting
    <3>. QED BY <3>1, <3>2, <3>3, <2>1 DEF Held
  <2>. QED BY <2>1, <2>3, <2>4, <1>0, <1>typ DEF StaleInv
<1>6. ASSUME NEW p \in {"feeder", "main"}, ClearReady(p) PROVE StaleInv'
  <2>1. ready' = <<>> /\ UNCHANGED <<cb, cur, codec, running>>
    BY <1>6 DEF ClearReady, feed
  <2>2. Held' \subseteq Held
    BY <2>1 DEF Held, Submitting
  <2>3. pc'["feeder"] = "release" => pc["feeder"] = "release"
    BY <1>6, <1>typ DEF ClearReady, PcType
  <2>. QED BY <2>1, <2>2, <2>3, <1>1
<1>7. ASSUME NEW g \in Conns, PollReady(g) PROVE StaleInv'
  <2>un. UNCHANGED <<cur, codec, running, pc>>
    BY <1>7 DEF PollReady, feed
  <2>1. CASE ready = <<>>
    <3>1. cb' = [cb EXCEPT ![g] = [cb[g] EXCEPT !.at = "park"]] /\ ready' = ready
      BY <1>7, <2>1, <1>typ DEF PollReady
    <3>2. \A h \in Submitting' : h \in Submitting /\ cb'[h] = cb[h]
      BY <3>1, <1>typ DEF Submitting
    <3>3. Held' \subseteq Held
      BY <3>1, <3>2 DEF Held
    <3>. QED BY <3>3, <2>un, <1>1
  <2>2. CASE ready # <<>>
    <3>1. cb' = [cb EXCEPT ![g] = [cb[g] EXCEPT !.at = "submit", !.unit = Head(ready)]] /\ ready' = Tail(ready)
      BY <1>7, <2>2, <1>typ DEF PollReady
    <3>2. Len(ready') = Len(ready) - 1 /\ \A k \in 1..Len(ready') : ready'[k] = ready[k + 1]
      BY <3>1, <2>2, <1>typ, HeadTailProperties
    <3>3. Head(ready) = ready[1] /\ 1 \in 1..Len(ready)
      BY <2>2, <1>typ, EmptySeq
    <3>4. \A h \in Submitting' : (h \in Submitting /\ cb'[h] = cb[h]) \/ cb'[h].unit = Head(ready)
      BY <3>1, <1>typ DEF Submitting
    <3>5. \A k \in 1..Len(ready') : ready'[k] \in Held
      <4>1. \A k \in 1..Len(ready') : k + 1 \in 1..Len(ready)
        BY <3>2, <1>typ
      <4>. QED BY <4>1, <3>2 DEF Held
    <3>6. Held' \subseteq Held
      BY <3>3, <3>4, <3>5 DEF Held
    <3>. QED BY <3>6, <2>un, <1>1
  <2>. QED BY <2>1, <2>2
<1>8. ASSUME NEW g \in Conns, InputAvailable(g) \/ ParkIndex(g) \/ SubmitReady(g) PROVE StaleInv'
  <2>1. UNCHANGED <<cur, codec, running, pc, ready>>
    BY <1>8 DEF InputAvailable, ParkIndex, SubmitReady, feed
  <2>2. \A h \in Submitting' : h \in Submitting /\ cb'[h] = cb[h]
    <3>1. CASE InputAvailable(g)
      BY <3>1, <1>typ DEF InputAvailable, Idle, Submitting
    <3>2. CASE ParkIndex(g) \/ SubmitReady(g)
      BY <3>2, <1>typ DEF ParkIndex, SubmitReady, Idle, Submitting
    <3>. QED BY <1>8, <3>1, <3>2
  <2>3. Held' \subseteq Held
    BY <2>1, <2>2 DEF Held
  <2>. QED BY <2>1, <2>3, <1>1
<1>9. ASSUME NEW p \in {"feeder", "main"}, ReleaseCodec(p) PROVE StaleInv'
  <2>1. Held' = Held /\ UNCHANGED <<cur, running>> /\ pc[p] = "release"
    BY <1>9, <1>2 DEF ReleaseCodec
  <2>2. p = "main" => ~running
    BY <2>1 DEF BasicInv, ControlInv
  <2>. QED BY <2>1, <2>2, <1>1
<1>10. CASE Configure
  <2>1. Held' = Held /\ UNCHANGED <<cur, running>> /\ codec = 0
    BY <1>10, <1>2 DEF Configure, BasicInv, ControlInv
  <2>. QED BY <2>1, <1>1
<1>11. CASE SubmitToCodec
  <2>1. Held' = Held /\ UNCHANGED <<cur, codec, running>>
    BY <1>11, <1>2 DEF SubmitToCodec
  <2>2. PICK w \in {"gather", "offer", "queue"} : pc' = [pc EXCEPT !["feeder"] = w]
    BY <1>11 DEF SubmitToCodec
  <2>3. pc'["feeder"] # "release"
    BY <2>2, <1>typ DEF PcType
  <2>. QED BY <2>1, <2>3, <1>1
<1>12. CASE OnNewConnection \/ OnNal \/ UNCHANGED vars
  <2>1. Held' = Held /\ UNCHANGED <<cur, codec, running, pc>>
    BY <1>12, <1>2 DEF OnNewConnection, OnNal, vars, feed
  <2>. QED BY <2>1, <1>1
<1>13. CASE Gather \/ QueueUnit \/ FeederEnds \/ Stop \/ Join \/ \E p \in {"feeder", "main"} : ClearFree(p)
  <2>1. Held' = Held /\ UNCHANGED <<cur, codec>>
    BY <1>13, <1>2 DEF Gather, QueueUnit, FeederEnds, Stop, Join, ClearFree, feed
  <2>2. pc'["feeder"] = "release" => pc["feeder"] = "release"
    <3>1. CASE Gather \/ QueueUnit
      BY <3>1, <1>typ DEF Gather, QueueUnit, PcType
    <3>2. CASE FeederEnds \/ Stop \/ Join
      BY <3>2, <1>typ DEF FeederEnds, Stop, Join, PcType
    <3>3. CASE \E p \in {"feeder", "main"} : ClearFree(p)
      BY <3>3, <1>typ DEF ClearFree, PcType
    <3>. QED BY <1>13, <3>1, <3>2, <3>3
  <2>3. running' => running
    BY <1>13 DEF Gather, QueueUnit, FeederEnds, Stop, Join, ClearFree
  <2>. QED BY <2>1, <2>2, <2>3, <1>1
<1>. QED BY NextSteps, <1>3, <1>4, <1>5, <1>6, <1>7, <1>8, <1>9, <1>10, <1>11, <1>12, <1>13 DEF Steps

\* One element more makes a set larger by one at most.
LEMMA AddOne ==
  ASSUME NEW S, NEW T, NEW x, IsFiniteSet(S), T = S \cup {x}
  PROVE  IsFiniteSet(T) /\ Cardinality(T) \in Nat /\ Cardinality(T) <= Cardinality(S) + 1
<1>1. IsFiniteSet(T) /\ (Cardinality(T) = Cardinality(S) \/ Cardinality(T) = Cardinality(S) + 1)
  BY FS_AddElement
<1>2. Cardinality(S) \in Nat /\ Cardinality(T) \in Nat
  BY <1>1, FS_CardinalityType
<1>. QED BY <1>1, <1>2

\* A codec has no more buffers out than there are places that hold one.
LEMMA OutstandingBound ==
  ASSUME BasicInv, BufferInv, running, codec # 0
  PROVE  /\ Cardinality(Buffers \ Kept) \in Nat
         /\ Cardinality(Buffers \ Kept)
              <= Len(free) + Has(index # None) + Has(cb[codec].at # "idle")
<1>typ. /\ free \in Seq(Buffers) /\ Len(free) \in Nat /\ codec \in Conns /\ None \notin Buffers
        /\ IsFiniteSet(Buffers)
  BY DecoderAssumption, LenProperties DEF BasicInv, TypeOK, Conns
<1>. DEFINE F == {free[k] : k \in 1..Len(free)}
            X == IF index # None THEN F \cup {index} ELSE F
            Y == IF cb[codec].at # "idle" THEN X \cup {cb[codec].i} ELSE X
<1>1. IsFiniteSet(F) /\ Cardinality(F) \in Nat /\ Cardinality(F) <= Len(free)
  <2>1. free \in [1..Len(free) -> F]
    <3>1. free \in [1..Len(free) -> Buffers]
      BY <1>typ, LenProperties
    <3>. QED BY <3>1
  <2>2. free \in Surjection(1..Len(free), F)
    BY <2>1 DEF Surjection
  <2>3. IsFiniteSet(1..Len(free)) /\ Cardinality(1..Len(free)) = Len(free)
    <3>1. 1 \in Int /\ Len(free) \in Int
      BY <1>typ
    <3>2. IsFiniteSet(1..Len(free))
          /\ Cardinality(1..Len(free)) = IF 1 > Len(free) THEN 0 ELSE Len(free) - 1 + 1
      BY ONLY <3>1, FS_Interval
    <3>. QED BY <3>2, <1>typ
  <2>4. IsFiniteSet(F) /\ Cardinality(F) <= Cardinality(1..Len(free))
    BY <2>2, <2>3, FS_Surjection
  <2>. QED BY <2>3, <2>4, FS_CardinalityType
<1>. HIDE DEF F
<1>2. IsFiniteSet(X) /\ Cardinality(X) \in Nat /\ Cardinality(X) <= Len(free) + Has(index # None)
  <2>1. CASE index # None
    <3>0. X = F \cup {index}
      BY <2>1
    <3>1. IsFiniteSet(X) /\ Cardinality(X) <= Cardinality(F) + 1 /\ Cardinality(X) \in Nat
      BY ONLY <3>0, <1>1, AddOne
    <3>. QED BY <3>1, <2>1, <1>1, <1>typ DEF Has
  <2>2. CASE index = None
    BY <2>2, <1>1, <1>typ DEF Has
  <2>. QED BY <2>1, <2>2
<1>. HIDE DEF X
<1>3. IsFiniteSet(Y) /\ Cardinality(Y) \in Nat
      /\ Cardinality(Y) <= Len(free) + Has(index # None) + Has(cb[codec].at # "idle")
  <2>0. Has(index # None) \in Nat
    BY DEF Has
  <2>1. CASE cb[codec].at # "idle"
    <3>0. Y = X \cup {cb[codec].i}
      BY <2>1
    <3>1. IsFiniteSet(Y) /\ Cardinality(Y) <= Cardinality(X) + 1 /\ Cardinality(Y) \in Nat
      BY ONLY <3>0, <1>2, AddOne
    <3>2. Has(cb[codec].at # "idle") = 1
      BY <2>1 DEF Has
    <3>. QED BY <3>1, <3>2, <2>0, <1>2, <1>typ
  <2>2. CASE cb[codec].at = "idle"
    <3>1. Has(cb[codec].at # "idle") = 0
      BY <2>2 DEF Has
    <3>. QED BY <3>1, <2>0, <2>2, <1>2, <1>typ
  <2>. QED BY <2>1, <2>2
<1>4. Buffers \ Kept \subseteq Y
  <2>1. cb[codec].at = "idle" => cb[codec].i = None
    BY <1>typ DEF BasicInv, CbInv, Idle
  <2>. QED BY <2>1, <1>typ DEF BufferInv, Y, X, F
<1>. HIDE DEF Y
<1>5. IsFiniteSet(Buffers \ Kept)
      /\ Cardinality(Buffers \ Kept) <= Cardinality(Y)
  BY <1>3, <1>4, FS_Subset
<1>6. Cardinality(Buffers \ Kept) \in Nat
  BY <1>5, FS_CardinalityType
<1>7. Has(index # None) \in Nat /\ Has(cb[codec].at # "idle") \in Nat
  BY DEF Has
<1>. QED BY ONLY <1>3, <1>5, <1>6, <1>7, <1>typ

LossInv == BasicInv /\ FlowInv /\ BufferInv /\ StaleInv /\ SurplusInv

\* With a codec in use fewer units are lost than codecs were made, and its
\* release leaves no more losses and callbacks under way than codecs.
LEMMA LostBound ==
  ASSUME LossInv, running, codec # 0
  PROVE  lost < made /\ lost + Cardinality(Busy) <= made
<1>typ. /\ Len(free) \in Nat /\ lost \in Nat /\ made \in Nat /\ codec \in Conns
  BY DecoderAssumption, LenProperties DEF LossInv, BasicInv, TypeOK, Conns
<1>1. /\ Cardinality(Buffers \ Kept) \in Nat
      /\ Cardinality(Buffers \ Kept) <= Len(free) + Fetched + Has(cb[codec].at # "idle")
  BY OutstandingBound DEF LossInv, Fetched, Has
<1>2. lost + Len(free) + Fetched + Cardinality(Busy) < made + Cardinality(Buffers \ Kept)
  BY DEF LossInv, SurplusInv
<1>3. Fetched \in Nat /\ Has(cb[codec].at # "idle") \in {0, 1} /\ Cardinality(Busy) \in Nat
  BY CountsType DEF Has, Fetched
<1>4. Has(cb[codec].at # "idle") <= Cardinality(Busy)
  <2>1. CASE cb[codec].at = "idle"
    BY <2>1, <1>3 DEF Has
  <2>2. CASE cb[codec].at # "idle"
    <3>1. Busy \in SUBSET Conns /\ Busy # {}
      BY <2>2, <1>typ DEF Busy
    <3>2. IsFiniteSet(Busy)
      BY ONLY <3>1, ConnsFinite
    <3>3. Cardinality(Busy) # 0
      BY <3>1, <3>2, FS_EmptySet
    <3>. QED BY <3>3, <1>3
  <2>. QED BY <2>1, <2>2
<1>. QED BY ONLY <1>1, <1>2, <1>3, <1>4, <1>typ

Out == IF codec = 0 THEN 0 ELSE Cardinality(Buffers \ Kept)
Queued == IF codec = 0 /\ Clearing THEN 0 ELSE Len(free)

\* The arithmetic of the count below.
LEMMA SpendsOne ==
  ASSUME NEW l \in Nat, NEW n \in Nat, NEW f \in Nat, NEW b \in Nat, NEW o \in Nat,
         NEW l2 \in Nat, NEW n2 \in Nat, NEW f2 \in Nat, NEW b2 \in Nat, NEW o2 \in Nat,
         l2 + o <= l + 1 + o2, n2 = n, f2 + b2 + 1 = f + b
  PROVE  l2 + n2 + f2 + b2 + o <= l + n + f + b + o2
OBVIOUS

\* Indices and callbacks under way beyond the buffers that are really out come
\* from codecs before this one, and each costs one access unit at most.
LEMMA SurplusStep ==
  ASSUME LossInv, [Next]_vars
  PROVE  SurplusInv'
<1>bas. BasicInv /\ FlowInv /\ BufferInv /\ StaleInv /\ SurplusInv /\ ControlInv /\ CbInv /\ TypeOK
  BY DEF LossInv, BasicInv
<1>typ. /\ pc \in PcType /\ free \in Seq(Buffers) /\ Len(free) \in Nat
        /\ cb \in [Conns -> [at : {"idle", "poll", "park", "submit"}, i : Buffers \cup {None},
                             unit : Units \cup {NoUnit}]]
        /\ avail \in [Conns -> SUBSET Buffers] /\ IsFiniteSet(Buffers)
        /\ (codec # 0 => codec \in Conns) /\ made \in Nat /\ lost \in Nat
  BY <1>bas, DecoderAssumption, LenProperties DEF TypeOK, PcType, Conns
<1>num. Len(free) \in Nat /\ made \in Nat /\ lost \in Nat
  BY <1>typ
<1>fin. \A S \in SUBSET Buffers : IsFiniteSet(S) /\ Cardinality(S) \in Nat
  BY <1>typ, FS_Subset, FS_CardinalityType
<1>nat. /\ Out \in Nat /\ Queued \in Nat /\ Fetched \in {0, 1} /\ Fetched' \in {0, 1}
        /\ Cardinality(Busy) \in Nat /\ Cardinality(Busy)' \in Nat
  BY <1>typ, <1>fin, CountsType DEF Out, Queued, Fetched
<1>idx. running /\ codec = 0 => index = None
  BY <1>bas DEF ControlInv, FlowInv, FeedInv, Finished, Released
<1>0. running => /\ codec # 0 => lost + Len(free) + Fetched + Cardinality(Busy) < made + Out
                 /\ codec = 0 => lost + Queued + Cardinality(Busy) <= made
                 /\ codec = 0 => lost = 0 \/ lost < made
  BY <1>bas DEF SurplusInv, Out, Queued
<1>1. ASSUME running' => running, codec' = codec, made' = made, Out' \in Nat, Queued' \in Nat, Len(free') \in Nat,
             running' /\ codec # 0 =>
               lost' + Len(free') + Fetched' + Cardinality(Busy)' + Out
                 <= lost + Len(free) + Fetched + Cardinality(Busy) + Out',
             running' /\ codec = 0 =>
               lost' = lost /\ Queued' + Cardinality(Busy)' <= Queued + Cardinality(Busy),
             lost' \in Nat
      PROVE  SurplusInv'
  <2>1. ASSUME running', codec # 0
        PROVE  lost' + Len(free') + Fetched' + Cardinality(Busy)' < made + Out'
    <3>. DEFINE T == lost + Len(free) + Fetched + Cardinality(Busy)
                T2 == lost' + Len(free') + Fetched' + Cardinality(Busy)'
    <3>1. T < made + Out
      BY <2>1, <1>1, <1>0
    <3>2. T2 + Out <= T + Out'
      BY <2>1, <1>1
    <3>3. T \in Int /\ Out \in Int /\ made \in Int
      BY <1>nat, <1>num
    <3>4. T2 \in Int /\ Out' \in Int
      BY ONLY <1>1, <1>nat
    <3>. HIDE DEF T, T2
    <3>5. \A o, o2 \in Int : T < made + o /\ T2 + o <= T + o2 => T2 < made + o2
      BY ONLY <3>3, <3>4
    <3>. QED BY <3>1, <3>2, <3>3, <3>4, <3>5, Zenon DEF T2
  <2>2. running' /\ codec = 0 => lost' + Queued' + Cardinality(Busy)' <= made /\ (lost' = 0 \/ lost' < made)
    BY ONLY <1>1, <1>0, <1>nat, <1>num
  <2>. QED BY ONLY <2>1, <2>2, <1>1 DEF SurplusInv, Out, Queued
<1>out. ASSUME UNCHANGED <<codec, avail, thrown>> PROVE Out' = Out
  BY <1>out DEF Out, Kept
<1>2. ASSUME UNCHANGED <<codec, made, lost, free, index, cb, avail, thrown>>, running' => running,
             Clearing' <=> Clearing
      PROVE  SurplusInv'
  <2>1. Cardinality(Busy)' = Cardinality(Busy)
    BY <1>2, CallbackStill
  <2>2. Out' = Out /\ Queued' = Queued /\ Fetched' = Fetched
    BY <1>2, <1>out DEF Queued, Fetched
  <2>. QED BY <2>1, <2>2, <1>1, <1>2, <1>nat, <1>typ
<1>run. ASSUME ~running' PROVE SurplusInv'
  BY <1>run DEF SurplusInv
<1>main. pc["main"] # "run" => ~running
  BY <1>bas DEF ControlInv
<1>3. CASE OnNewConnection \/ OnNal \/ UNCHANGED vars
  BY <1>3, <1>2 DEF OnNewConnection, OnNal, vars, feed, Clearing
<1>4. CASE TakeMarker \/ TakeNal
  <2>1. UNCHANGED <<codec, made, lost, free, index, cb, avail, thrown, running>>
    BY <1>4 DEF TakeMarker, TakeNal
  <2>2. PICK w \in {"gather", "configure", "take", "release"} : pc' = [pc EXCEPT !["feeder"] = w]
    BY <1>4 DEF TakeMarker, TakeNal
  <2>3. Clearing' <=> Clearing
    BY <1>4, <2>2, <1>typ DEF TakeMarker, TakeNal, Clearing, PcType
  <2>. QED BY <2>1, <2>3, <1>2
<1>5. CASE Configure
  <2>1. /\ UNCHANGED <<lost, thrown, free, index, cb, running>> /\ pc["feeder"] = "configure" /\ pc'["feeder"] = "gather"
        /\ codec = 0
    BY <1>5, <1>typ, <1>bas DEF Configure, PcType, ControlInv
  <2>2. CASE UNCHANGED <<codec, made, avail>>
    BY <2>1, <2>2, <1>2 DEF Clearing
  <2>3. CASE made' = made + 1 /\ codec' = made' /\ avail' = [avail EXCEPT ![made'] = Buffers]
    <3>1. Cardinality(Busy)' = Cardinality(Busy)
      BY <2>1, CallbackStill
    <3>2. Cardinality(Buffers \ Kept') = 0
      <4>1. codec' \in Conns
        <5>1. made < cur.conn
          BY <2>1, <1>bas DEF BasicInv, MadeInv
        <5>2. cur.conn \in 0..MaxConns /\ MaxConns \in Nat
          BY <1>bas, CurType, DecoderAssumption
        <5>. QED BY ONLY <5>1, <5>2, <2>3, <1>typ DEF Conns
      <4>2. Buffers \ Kept' = {}
        BY <4>1, <2>3, <1>typ DEF Kept
      <4>. QED BY <4>2, FS_EmptySet
    <3>3. Queued = Len(free)
      BY <2>1 DEF Queued, Clearing
    <3>4. running' => /\ codec' # 0
                      /\ lost' + Len(free') + Fetched' + Cardinality(Busy)' < made'
      <4>1. running' => Fetched' = 0
        BY <2>1, <1>idx DEF Fetched
      <4>. QED BY ONLY <4>1, <3>1, <3>3, <2>1, <2>3, <1>0, <1>nat, <1>num
    <3>5. running' => made' + Cardinality(Buffers \ Kept') = made'
      BY ONLY <3>2, <2>3, <1>typ
    <3>. QED BY <3>4, <3>5 DEF SurplusInv
  <2>. QED BY <2>2, <2>3, <1>5 DEF Configure
<1>6. CASE SubmitToCodec
  <2>0. UNCHANGED <<codec, made, lost, cb, avail, thrown, running>> /\ pc["feeder"] = "gather"
    BY <1>6 DEF SubmitToCodec
  <2>1. ~Clearing /\ ~Clearing'
    <3>1. PICK w \in {"gather", "offer", "queue"} : pc' = [pc EXCEPT !["feeder"] = w]
      BY <1>6 DEF SubmitToCodec
    <3>. QED BY <2>0, <3>1, <1>typ DEF Clearing, PcType
  <2>2. CASE codec = 0
    <3>1. UNCHANGED <<index, free>>
      BY <1>6, <2>2 DEF SubmitToCodec
    <3>. QED BY <3>1, <2>0, <2>1, <1>2
  <2>3. CASE codec # 0 /\ free = <<>>
    <3>1. UNCHANGED <<index, free>>
      BY <1>6, <2>3, <1>bas DEF SubmitToCodec, ControlInv
    <3>. QED BY <3>1, <2>0, <2>1, <1>2
  <2>4. CASE codec # 0 /\ free # <<>>
    <3>1. Len(free') = Len(free) - 1 /\ Len(free') \in Nat
      BY <1>6, <2>4, <1>typ, HeadTailProperties, EmptySeq DEF SubmitToCodec
    <3>2. Fetched = 0
      BY <2>0, <1>bas DEF Fetched, ControlInv
    <3>3. Cardinality(Busy)' = Cardinality(Busy)
      BY <2>0, CallbackStill
    <3>4. Out' = Out /\ Queued' = Len(free')
      BY <2>0, <2>4, <1>out DEF Queued
    <3>5. /\ running' => running /\ codec' = codec /\ made' = made /\ Out' \in Nat /\ Queued' \in Nat /\ lost' \in Nat
          /\ lost' + Len(free') + Fetched' + Cardinality(Busy)' + Out
               <= lost + Len(free) + Fetched + Cardinality(Busy) + Out'
      BY ONLY <3>1, <3>2, <3>3, <3>4, <2>0, <1>nat, <1>num
    <3>. QED BY <3>1, <3>4, <3>5, <2>0, <2>4, <1>1, <1>nat, <1>typ
  <2>. QED BY <2>2, <2>3, <2>4
<1>sub. ASSUME NEW g, NEW i \in Buffers, NEW u \in Units, Submit(g, i, u), UNCHANGED <<codec, made, running, free>>
        PROVE  /\ Out' \in Nat /\ lost' \in Nat /\ lost' + Out <= lost + 1 + Out'
               /\ cur.conn \notin u.conns /\ codec = 0 => lost' = lost
  <2>0. codec' = codec
    BY <1>sub
  <2>1. CASE UNCHANGED <<avail, thrown>>
    <3>1. Out' = Out
      BY <2>1, <2>0, <1>out
    <3>2. (lost' = lost \/ lost' = lost + 1) /\ (cur.conn \notin u.conns => lost' = lost)
      BY <1>sub, <2>0, <1>bas, SubmitKeeps
    <3>. QED BY ONLY <3>1, <3>2, <1>nat, <1>num
  <2>2. CASE ~UNCHANGED <<avail, thrown>>
    <3>1. codec # 0 /\ Kept' = Kept \cup {i} /\ lost' = lost
      BY <2>2, <1>sub, <2>0, <1>bas, SubmitKeeps
    <3>2. Buffers \ Kept' = (Buffers \ Kept) \ {i} /\ IsFiniteSet(Buffers \ Kept)
      BY <3>1, <1>fin
    <3>3. Cardinality(Buffers \ Kept) \in Nat /\ Cardinality(Buffers \ Kept') \in Nat
      BY <1>fin
    <3>4. Cardinality(Buffers \ Kept) <= Cardinality(Buffers \ Kept') + 1
      <4>1. CASE i \in Buffers \ Kept
        <5>1. Cardinality(Buffers \ Kept') = Cardinality(Buffers \ Kept) - 1
          BY <3>2, <4>1, FS_RemoveElement
        <5>. QED BY ONLY <5>1, <3>3
      <4>2. CASE i \notin Buffers \ Kept
        <5>1. Buffers \ Kept' = Buffers \ Kept
          BY <3>2, <4>2
        <5>. QED BY ONLY <5>1, <3>3
      <4>. QED BY <4>1, <4>2
    <3>5. Out = Cardinality(Buffers \ Kept) /\ Out' = Cardinality(Buffers \ Kept')
      BY <3>1, <2>0 DEF Out
    <3>. QED BY ONLY <3>1, <3>3, <3>4, <3>5, <1>num
  <2>. QED BY <2>1, <2>2
<1>7. CASE QueueUnit
  <2>1. /\ pc["feeder"] = "queue" /\ Submit(codec, index, Unit) /\ index' = None
        /\ UNCHANGED <<codec, made, free, cb, running>> /\ pc'["feeder"] = "gather"
    BY <1>7, <1>typ DEF QueueUnit, PcType
  <2>2. index \in Buffers /\ Unit \in Units
    BY <2>1, <1>bas, UnitType DEF TypeOK, ControlInv, Finished
  <2>3. running => codec # 0
    BY <2>1, <1>bas DEF ControlInv, FlowInv, FeedInv, Finished, Released
  <2>4. Fetched = 1 /\ Fetched' = 0
    BY <2>1, <1>bas DEF ControlInv, Fetched
  <2>5. Cardinality(Busy)' = Cardinality(Busy)
    BY <2>1, CallbackStill
  <2>6. Out' \in Nat /\ lost' \in Nat /\ lost' + Out <= lost + 1 + Out'
    <3>1. UNCHANGED <<codec, made, running, free>> /\ Submit(codec, index, Unit)
      BY <2>1
    <3>. QED BY ONLY <3>1, <2>2, <1>sub
  <2>7. Queued' \in Nat /\ Len(free') = Len(free)
    BY <2>1, <1>typ DEF Queued
  <2>8. lost' + Len(free') + Fetched' + Cardinality(Busy)' + Out
          <= lost + Len(free) + Fetched + Cardinality(Busy) + Out'
    <3>1. Fetched \in Nat /\ Fetched' \in Nat /\ Fetched' + Cardinality(Busy)' + 1 = Fetched + Cardinality(Busy)
      BY ONLY <2>4, <2>5, <1>nat
    <3>2. Len(free') \in Nat
      BY <2>7, <1>num
    <3>. QED BY ONLY <3>1, <3>2, <2>6, <2>7, <1>nat, <1>num, SpendsOne
  <2>. QED BY <2>1, <2>3, <2>6, <2>7, <2>8, <1>1, <1>typ
<1>8. CASE OfferUnit \/ Gather
  <2>1. UNCHANGED <<codec, made, lost, free, index, cb, avail, thrown, running>>
    BY <1>8 DEF OfferUnit, Gather
  <2>2. Clearing' <=> Clearing
    BY <1>8, <1>typ DEF OfferUnit, Gather, Clearing, PcType
  <2>. QED BY <2>1, <2>2, <1>2
<1>9. CASE FeederEnds \/ Stop \/ Join
  <2>1. UNCHANGED <<codec, made, lost, free, index, cb, avail, thrown>> /\ (running' => running)
    BY <1>9 DEF FeederEnds, Stop, Join, feed
  <2>2. Clearing' <=> Clearing
    BY <1>9, <1>typ DEF FeederEnds, Stop, Join, Clearing, PcType
  <2>. QED BY <2>1, <2>2, <1>2
<1>10. ASSUME NEW p \in {"feeder", "main"}, ReleaseCodec(p), running' PROVE SurplusInv'
  <2>1. /\ UNCHANGED <<made, lost, free, index, cb, running>> /\ codec' = 0 /\ p = "feeder"
        /\ pc["feeder"] = "release" /\ pc'["feeder"] = "clear_ready"
    BY <1>10, <1>main, <1>typ DEF ReleaseCodec, PcType
  <2>2. Cardinality(Busy)' = Cardinality(Busy)
    BY <2>1, CallbackStill
  <2>3. lost + Cardinality(Busy) <= made /\ (lost = 0 \/ lost < made)
    <3>1. CASE codec # 0
      BY <3>1, <2>1, <1>10, LostBound
    <3>2. CASE codec = 0
      BY <3>2, <2>1, <1>10, <1>0, <1>nat, <1>typ
    <3>. QED BY <3>1, <3>2
  <2>4. Clearing'
    BY <2>1 DEF Clearing
  <2>. QED BY <2>1, <2>2, <2>3, <2>4, <1>typ, <1>nat DEF SurplusInv
<1>11. ASSUME NEW p \in {"feeder", "main"}, ClearReady(p), running' PROVE SurplusInv'
  <2>1. UNCHANGED <<codec, made, lost, free, index, cb, avail, thrown, running>> /\ p = "feeder"
    BY <1>11, <1>main DEF ClearReady, feed
  <2>2. Clearing' <=> Clearing
    BY <1>11, <2>1, <1>typ DEF ClearReady, Clearing, PcType
  <2>. QED BY <2>1, <2>2, <1>2
<1>12. ASSUME NEW p \in {"feeder", "main"}, ClearFree(p), running' PROVE SurplusInv'
  <2>1. UNCHANGED <<codec, made, lost, index, cb, avail, thrown, running>> /\ p = "feeder" /\ Len(free') = 0 /\ codec = 0
    BY <1>12, <1>main, <1>bas DEF ClearFree, feed, ControlInv
  <2>2. Cardinality(Busy)' = Cardinality(Busy)
    BY <2>1, CallbackStill
  <2>3. Queued' = 0 /\ Out' = 0
    BY <2>1 DEF Queued, Out
  <2>. QED BY <2>1, <2>2, <2>3, <1>1, <1>typ, <1>nat
<1>13. ASSUME NEW g \in Conns, InputAvailable(g) PROVE SurplusInv'
  <2>0. /\ UNCHANGED <<codec, made, lost, thrown, free, index, pc, running>> /\ g = codec /\ cb[g] = Idle
    BY <1>13 DEF InputAvailable, feed
  <2>1. PICK i \in avail[g] : /\ avail' = [avail EXCEPT ![g] = @ \ {i}]
                              /\ cb' = [cb EXCEPT ![g] = [Idle EXCEPT !.at = "poll", !.i = i]]
    BY <1>13 DEF InputAvailable
  <2>2. Cardinality(Busy)' = Cardinality(Busy) + 1
    <3>1. Cardinality(Busy)' + Has(cb[g].at # "idle")
            = Cardinality(Busy) + Has([Idle EXCEPT !.at = "poll", !.i = i].at # "idle")
      BY <2>1, <1>bas, CallbackMove
    <3>2. Has(cb[g].at # "idle") = 0 /\ Has([Idle EXCEPT !.at = "poll", !.i = i].at # "idle") = 1
      BY <2>0 DEF Has, Idle
    <3>. QED BY ONLY <3>1, <3>2, <1>nat
  <2>3. Out' = Out + 1
    <3>1. codec # 0
      BY <2>0 DEF Conns
    <3>2. i \in Kept /\ Kept' = Kept \ {i}
      <4>1. avail'[codec] = avail[codec] \ {i} /\ i \in avail[codec] /\ i \notin thrown
        BY <2>0, <2>1, <3>1, <1>typ, <1>bas DEF FlowInv, LeftInv
      <4>. QED BY <4>1, <2>0 DEF Kept
    <3>3. i \in Buffers
      BY <2>1, <1>typ
    <3>4. Cardinality(Buffers \ Kept') = Cardinality(Buffers \ Kept) + 1
      <4>1. IsFiniteSet(Buffers \ Kept)
        BY <1>fin
      <4>2. Buffers \ Kept' = (Buffers \ Kept) \cup {i} /\ i \notin Buffers \ Kept
        BY ONLY <3>2, <3>3
      <4>. QED BY <4>1, <4>2, FS_AddElement
    <3>. QED BY <3>1, <3>4, <2>0 DEF Out
  <2>4. codec # 0 /\ Queued' = Queued
    BY <2>0 DEF Conns, Queued, Clearing
  <2>5. /\ Out' \in Nat /\ Queued' \in Nat /\ Len(free') \in Nat /\ lost' \in Nat
        /\ lost' + Len(free') + Fetched' + Cardinality(Busy)' + Out
             <= lost + Len(free) + Fetched + Cardinality(Busy) + Out'
    <3>1. Fetched' = Fetched
      BY <2>0 DEF Fetched
    <3>. QED BY ONLY <3>1, <2>0, <2>2, <2>3, <2>4, <1>nat, <1>num
  <2>. QED BY <2>0, <2>4, <2>5, <1>1
<1>14. ASSUME NEW g \in Conns, PollReady(g) PROVE SurplusInv'
  <2>0. UNCHANGED <<codec, made, lost, free, index, pc, running, avail, thrown>> /\ cb[g].at = "poll"
    BY <1>14 DEF PollReady, feed
  <2>1. Cardinality(Busy)' = Cardinality(Busy)
    <3>1. \A h \in Conns : cb'[h].at # "idle" <=> cb[h].at # "idle"
      BY <1>14, <2>0, <1>typ DEF PollReady
    <3>2. Busy' = Busy
      BY <3>1 DEF Busy
    <3>. QED BY <3>2
  <2>2. Out' = Out /\ Queued' = Queued /\ Fetched' = Fetched
    BY <2>0, <1>out DEF Queued, Clearing, Fetched
  <2>. QED BY <2>0, <2>1, <2>2, <1>1, <1>typ, <1>nat
<1>15. ASSUME NEW g \in Conns, ParkIndex(g) PROVE SurplusInv'
  <2>0. /\ UNCHANGED <<codec, made, lost, index, pc, running, avail, thrown>> /\ cb[g].at = "park"
        /\ cb' = [cb EXCEPT ![g] = Idle] /\ Len(free') = Len(free) + 1
    BY <1>15, <1>typ DEF ParkIndex, feed
  <2>1. Cardinality(Busy)' = Cardinality(Busy) - 1
    <3>1. Cardinality(Busy)' + Has(cb[g].at # "idle") = Cardinality(Busy) + Has(Idle.at # "idle")
      BY <2>0, <1>bas, CallbackMove
    <3>2. Has(cb[g].at # "idle") = 1 /\ Has(Idle.at # "idle") = 0
      BY <2>0 DEF Has, Idle
    <3>. QED BY ONLY <3>1, <3>2, <1>nat
  <2>2. Out' = Out /\ Fetched' = Fetched /\ (Queued' = Queued \/ Queued' = Queued + 1)
    BY <2>0, <1>typ, <1>out DEF Queued, Clearing, Fetched
  <2>3. /\ Out' \in Nat /\ Queued' \in Nat /\ Len(free') \in Nat
        /\ lost' + Len(free') + Fetched' + Cardinality(Busy)' + Out
             <= lost + Len(free) + Fetched + Cardinality(Busy) + Out'
        /\ Queued' + Cardinality(Busy)' <= Queued + Cardinality(Busy)
    BY ONLY <2>0, <2>1, <2>2, <1>nat, <1>num
  <2>. QED BY <2>0, <2>3, <1>1, <1>typ
<1>16. ASSUME NEW g \in Conns, SubmitReady(g) PROVE SurplusInv'
  <2>0. /\ UNCHANGED <<codec, made, index, pc, running, free>> /\ cb[g].at = "submit"
        /\ cb' = [cb EXCEPT ![g] = Idle] /\ Submit(g, cb[g].i, cb[g].unit)
        /\ cb[g].i \in Buffers /\ cb[g].unit \in Units
    BY <1>16, <1>bas DEF SubmitReady, feed, CbInv
  <2>1. Cardinality(Busy)' = Cardinality(Busy) - 1
    <3>1. Cardinality(Busy)' + Has(cb[g].at # "idle") = Cardinality(Busy) + Has(Idle.at # "idle")
      BY <2>0, <1>bas, CallbackMove
    <3>2. Has(cb[g].at # "idle") = 1 /\ Has(Idle.at # "idle") = 0
      BY <2>0 DEF Has, Idle
    <3>. QED BY ONLY <3>1, <3>2, <1>nat
  <2>2. /\ Out' \in Nat /\ lost' \in Nat /\ lost' + Out <= lost + 1 + Out'
        /\ cur.conn \notin cb[g].unit.conns /\ codec = 0 => lost' = lost
    BY <2>0, <1>sub
  <2>3. running /\ codec = 0 => cur.conn \notin cb[g].unit.conns
    <3>1. cb[g].unit \in Held
      BY <2>0 DEF Held, Submitting
    <3>2. cur.conn \in Nat
      BY <1>bas, CurType
    <3>. QED BY <3>1, <3>2, <1>bas DEF StaleInv
  <2>4. Fetched' = Fetched /\ Queued' = Queued
    BY <2>0 DEF Queued, Clearing, Fetched
  <2>5. /\ Queued' \in Nat /\ Len(free') \in Nat
        /\ lost' + Len(free') + Fetched' + Cardinality(Busy)' + Out
             <= lost + Len(free) + Fetched + Cardinality(Busy) + Out'
        /\ Queued' + Cardinality(Busy)' <= Queued + Cardinality(Busy)
    <3>1. /\ Fetched \in Nat /\ Fetched' \in Nat
          /\ Fetched' + Cardinality(Busy)' + 1 = Fetched + Cardinality(Busy)
          /\ Cardinality(Busy)' <= Cardinality(Busy)
      BY ONLY <2>1, <2>4, <1>nat
    <3>2. Len(free') \in Nat /\ Len(free') = Len(free)
      BY <2>0, <1>num
    <3>3. Queued' \in Nat /\ Queued' + Cardinality(Busy)' <= Queued + Cardinality(Busy)
      BY ONLY <3>1, <2>4, <1>nat
    <3>4. lost' + Len(free') + Fetched' + Cardinality(Busy)' + Out
            <= lost + Len(free) + Fetched + Cardinality(Busy) + Out'
      BY ONLY <3>1, <3>2, <2>2, <1>nat, <1>num, SpendsOne
    <3>. QED BY <3>2, <3>3, <3>4
  <2>. QED BY <2>0, <2>2, <2>3, <2>5, <1>1
<1>. QED BY NextSteps, <1>run, <1>3, <1>4, <1>5, <1>6, <1>7, <1>8, <1>9, <1>10, <1>11, <1>12, <1>13, <1>14, <1>15,
            <1>16 DEF Steps

\* VideoDecoder.kt 151-174: while the decoder runs, the access units lost to a
\* failed submit are fewer than the codecs made: a reset costs one at most, and
\* with a single codec none is lost.
THEOREM ResetsCostOneUnitEach == Spec => []OneLossPerReset
<1>1. Init => BufferInv /\ StaleInv /\ SurplusInv
  <2>. SUFFICES ASSUME Init PROVE BufferInv /\ StaleInv /\ SurplusInv
    OBVIOUS
  <2>1. Submitting = {} /\ Busy = {}
    BY DEF Init, Submitting, Busy, Idle
  <2>2. Held = {}
    BY <2>1 DEF Init, Held
  <2>. QED BY <2>1, <2>2, FS_EmptySet DEF Init, BufferInv, StaleInv, SurplusInv, Clearing
<1>2. LossInv /\ [Next]_vars => BufferInv' /\ StaleInv' /\ SurplusInv'
  BY BufferStep, StaleStep, SurplusStep DEF LossInv
<1>3. LossInv => OneLossPerReset
  BY LostBound DEF LossInv, SurplusInv, OneLossPerReset
<1>. QED BY <1>1, <1>2, <1>3, FlowHolds, PTL DEF Spec, LossInv

-----------------------------------------------------------------------------
(* The configuration of the decoder.                                       *)

\* A parameter set of a format is recognised as that format's: no HEVC
\* parameter set reads as one of H.264.
LEMMA Detects ==
  ASSUME NEW f \in Formats, NEW b \in 0..255, NalType(f, b) \in ParameterSets(f)
  PROVE  DetectCodec(b) = f
<1>1. CASE f = "H264"
  BY <1>1 DEF DetectCodec, NalType, ParameterSets
<1>2. CASE f = "HEVC"
  <2>1. HevcType(b) \in {32, 33, 34}
    BY <1>2 DEF NalType, ParameterSets
  <2>2. b \in 64..69 \/ b \in 192..197
    BY <2>1 DEF HevcType
  <2>3. H264Type(b) \in 0..5
    BY <2>2 DEF H264Type
  <2>. QED BY <1>2, <2>1, <2>3 DEF DetectCodec, ParameterSets
<1>. QED BY <1>1, <1>2 DEF Formats

\* While the feeder has a NAL of a connection in hand it reads it as the
\* connection's format, and what it stored since the reset is what it saw.
LEMMA BootStep ==
  ASSUME ~JoinsMidStream, BasicInv, BootInv, [Next]_vars
  PROVE  BootInv'
<1>inv. TypeOK /\ ControlInv /\ PendingInv
  BY DEF BasicInv
<1>typ. pc \in PcType
  BY <1>inv DEF TypeOK, PcType
<1>. USE DEF PcType
<1>1. ASSUME UNCHANGED <<cur, detected, params, seen, failed, codec>>, Released => Released',
             pc'["feeder"] = "release" <=> pc["feeder"] = "release",
             pc["feeder"] = "configure" => pc'["feeder"] = "configure"
      PROVE  BootInv'
  BY <1>1 DEF BootInv
<1>2. CASE OnNewConnection \/ OnNal \/ UNCHANGED vars
  BY <1>2, <1>1 DEF OnNewConnection, OnNal, vars, feed, Released
<1>3. CASE TakeMarker
  BY <1>3, <1>typ DEF TakeMarker, BootInv
<1>4. CASE TakeNal
  <2> DEFINE nal == Head(pending)
             s == StreamOf[cur.conn]
             k == NalType(s, nal.hdr)
  <2>1. /\ running /\ pending # <<>> /\ nal.hdr # Marker /\ pc["feeder"] = "take"
        /\ cur' = nal /\ UNCHANGED <<codec, failed>> /\ pc'["main"] = pc["main"] /\ pc'["feeder"] # "release"
    BY <1>4, <1>typ DEF TakeNal
  <2>2. nal \in Nals /\ nal.conn = cur.conn /\ cur.conn \in Conns /\ nal.hdr \in 0..255
        /\ (cur.hdr = Marker => k \in ParameterSets(s))
    <3>1. nal \in Nals /\ nal.conn = cur.conn /\ (cur.hdr = Marker => k \in ParameterSets(s))
      BY <2>1, <1>inv, TakenFollows
    <3>. QED BY <3>1 DEF Nals
  <2>3. s \in Formats
    BY <2>2, DecoderAssumption
  <2>. HIDE DEF nal, s, k
  <2>4. (IF detected = "none" THEN DetectCodec(nal.hdr) ELSE detected) = s
    <3>1. CASE cur.hdr = Marker
      <4>1. detected = "none"
        BY <2>1, <3>1 DEF BootInv
      <4>2. DetectCodec(nal.hdr) = s
        BY ONLY <2>2, <2>3, <3>1, Detects DEF k
      <4>. QED BY <4>1, <4>2
    <3>2. CASE cur.hdr # Marker
      <4>1. detected = s
        BY <2>1, <3>2, <1>inv DEF BootInv, ControlInv, Released, s
      <4>. QED BY <4>1, <2>3 DEF Formats
    <3>. QED BY <3>1, <3>2
  <2>5. /\ detected' = s /\ seen' = seen \cup ({k} \cap ParameterSets(s)) /\ params' = Store(s, nal)
        /\ pc'["feeder"] = CASE codec # 0 -> "gather"
                             [] codec = 0 /\ Complete(s, params') -> "configure"
                             [] OTHER -> "take"
    <3>1. s # "none"
      BY <2>3 DEF Formats
    <3>2. StreamOf[nal.conn] = s
      BY <2>2 DEF s
    <3>. QED BY <1>4, <1>typ, <2>4, <3>1, <3>2 DEF TakeNal, nal, k
  <2>6. {p[1] : p \in params'} = seen'
    <3>1. {p[1] : p \in params} = seen
      BY DEF BootInv
    <3>2. CASE k \in ParameterSets(s)
      <4>1. params' = {p \in params : p[1] # k} \cup {<<k, nal.conn>>}
        BY <2>5, <3>2 DEF Store, k
      <4>2. seen' = seen \cup {k}
        BY <2>5, <3>2
      <4>3. ASSUME NEW x PROVE x \in {p[1] : p \in params'} <=> x \in seen \cup {k}
        <5>1. CASE x = k
          <6>1. <<k, nal.conn>> \in params' /\ <<k, nal.conn>>[1] = k
            BY <4>1
          <6>. QED BY <5>1, <6>1
        <5>2. CASE x # k
          BY <3>1, <4>1, <5>2
        <5>. QED BY <5>1, <5>2
      <4>. QED BY <4>2, <4>3
    <3>3. CASE k \notin ParameterSets(s)
      BY <2>5, <3>1, <3>3 DEF Store, k
    <3>. QED BY <3>2, <3>3
  <2>7. cur'.hdr # Marker /\ StreamOf[cur'.conn] = s
    BY <2>1, <2>2 DEF s
  <2>8. seen' = ParameterSets(s) => codec' # 0 \/ pc'["feeder"] = "configure"
    <3>1. seen' = ParameterSets(s) => Complete(s, params')
      BY <2>6 DEF Complete
    <3>. QED BY <3>1, <2>1, <2>5
  <2>. QED BY <2>1, <2>5, <2>6, <2>7, <2>8 DEF BootInv
<1>5. CASE Configure
  <2>1. /\ pc'["feeder"] = "gather" /\ pc'["main"] = pc["main"] /\ pc["feeder"] = "configure"
        /\ UNCHANGED <<cur, detected, params, seen>>
    BY <1>5, <1>typ DEF Configure
  <2>2. codec' # 0 \/ failed'
    BY <1>5, <1>inv DEF Configure, TypeOK
  <2>. QED BY <2>1, <2>2 DEF BootInv, Released
<1>6. CASE Gather \/ SubmitToCodec \/ OfferUnit \/ QueueUnit \/ FeederEnds
  <2>1. /\ UNCHANGED <<cur, detected, params, seen, failed, codec>> /\ pc'["main"] = pc["main"]
        /\ pc["feeder"] \in {"gather", "offer", "queue", "take"}
    BY <1>6, <1>typ DEF Gather, SubmitToCodec, OfferUnit, QueueUnit, FeederEnds, feed
  <2>2. pc'["feeder"] \in {"gather", "offer", "queue", "take", "done"}
    BY <1>6, <1>typ DEF Gather, SubmitToCodec, OfferUnit, QueueUnit, FeederEnds
  <2>. QED BY <2>1, <2>2, <1>1 DEF Released
<1>7. CASE Stop \/ Join
  <2>1. /\ UNCHANGED <<cur, detected, params, seen, failed, codec>> /\ pc'["feeder"] = pc["feeder"]
        /\ pc["main"] \in {"run", "join"}
    BY <1>7, <1>typ DEF Stop, Join, feed
  <2>. QED BY <2>1, <1>1 DEF Released
<1>8. ASSUME NEW p \in {"feeder", "main"}, ReleaseCodec(p) PROVE BootInv'
  <2>1. /\ UNCHANGED cur /\ params' = {} /\ seen' = {} /\ detected' = "none"
        /\ pc[p] = "release" /\ pc' = [pc EXCEPT ![p] = "clear_ready"]
    BY <1>8 DEF ReleaseCodec
  <2>2. \A f : ParameterSets(f) # {}
    BY DEF ParameterSets
  <2>3. pc'["feeder"] = "release" => cur.hdr = Marker
    BY <2>1, <1>typ DEF BootInv
  <2>4. cur.hdr # Marker => Released'
    BY <2>1, <1>typ DEF BootInv, Released
  <2>. QED BY <2>1, <2>2, <2>3, <2>4 DEF BootInv
<1>9. ASSUME NEW p \in {"feeder", "main"}, ClearReady(p) \/ ClearFree(p) PROVE BootInv'
  <2>1. /\ UNCHANGED <<cur, detected, params, seen, failed, codec>>
        /\ pc[p] \in {"clear_ready", "clear_free"}
    BY <1>9 DEF ClearReady, ClearFree, feed
  <2>2. PICK w \in {"clear_free", "take", "done"} :
          pc' = [pc EXCEPT ![p] = w] /\ (p = "main" => w # "take")
    BY <1>9 DEF ClearReady, ClearFree
  <2>. QED BY <2>1, <2>2, <1>typ, <1>1 DEF Released
<1>10. ASSUME NEW g \in Conns, InputAvailable(g) \/ PollReady(g) \/ ParkIndex(g) \/ SubmitReady(g)
       PROVE  BootInv'
  <2>1. UNCHANGED <<pc, cur, detected, params, seen, failed, codec>>
    BY <1>10 DEF InputAvailable, PollReady, ParkIndex, SubmitReady, feed
  <2>. QED BY <2>1, <1>1 DEF Released
<1>. QED BY NextSteps, <1>2, <1>3, <1>4, <1>5, <1>6, <1>7, <1>8, <1>9, <1>10 DEF Steps

\* VideoDecoder.kt 22-37: when all the parameter sets of its stream have gone
\* by since a connection began, the decoder has been configured, if streams
\* begin where the sender makes them begin, with a parameter set.
THEOREM CompleteSetsConfigure ==
  ASSUME ~JoinsMidStream
  PROVE  Spec => []Bootstraps
<1>1. Init => BootInv
  BY DEF Init, BootInv
<1>2. BasicInv /\ BootInv /\ [Next]_vars => BootInv'
  BY BootStep
<1>3. BootInv => Bootstraps
  BY DEF BootInv, Bootstraps
<1>. QED BY <1>1, <1>2, <1>3, BasicHolds, PTL DEF Spec
=============================================================================
