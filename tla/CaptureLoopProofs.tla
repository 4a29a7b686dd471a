--------------------------- MODULE CaptureLoopProofs ---------------------------
(***************************************************************************)
(* Facts of the capture programs, for every number of instances, devices   *)
(* and desktops, every size of frame and cursor, and every place: the      *)
(* cursor is drawn where it is, the one duplication alive is the one the   *)
(* program holds, and dda-probe never gets over a loss.                    *)
(***************************************************************************)
EXTENDS CaptureLoop, TLAPS

-----------------------------------------------------------------------------
(* The cursor.                                                             *)

\* The rows, or columns, that are copied are those of the cursor that lie in
\* the frame.
LEMMA ClippedIs ==
  ASSUME NEW at \in Int, NEW frame \in Nat, NEW size \in Nat
  PROVE  Clipped(at, frame, size) =
           {p \in 0..size - 1 : at + p \in 0..frame - 1}
<1> QED
  BY DEF Clipped, Least

\* A bitmap that is complete has its pixels where the cursor covers the frame.
LEMMA InFrameIsCovered ==
  ASSUME NEW s \in Shapes, NEW x \in Int, NEW y \in Int,
         NEW state, state.hot = s, state.pixels = s, state.size = s
  PROVE  InFrame(state, x, y) = Covered(s, x, y)
<1> DEFINE cx == x - HotX[s]
           cy == y - HotY[s]
           cw == CursorW[s]
           ch == CursorH[s]
           Copied(py, px) == [dst |-> (cy + py) * FrameW + cx + px,
                              src |-> py * cw + px, of |-> s]
           Seen(fy, fx) == [dst |-> fy * FrameW + fx,
                            src |-> (fy - y + HotY[s]) * cw + (fx - x + HotX[s]),
                            of |-> s]
           Rows == {b \in 0..FrameH - 1 : b - y + HotY[s] \in 0..ch - 1}
           Columns == {a \in 0..FrameW - 1 : a - x + HotX[s] \in 0..cw - 1}
<1>1. /\ cx \in Int /\ cy \in Int /\ cw \in Nat /\ ch \in Nat
      /\ FrameW \in Nat /\ FrameH \in Nat /\ HotX[s] \in Nat /\ HotY[s] \in Nat
  BY OverlayAssumption
<1> HIDE DEF cw, ch
<1>2. \A py \in Int : py \in Clipped(cy, FrameH, ch) <=> cy + py \in Rows
  <2> SUFFICES ASSUME NEW py \in Int
               PROVE  py \in Clipped(cy, FrameH, ch) <=> cy + py \in Rows
    OBVIOUS
  <2>1. (cy + py) - y + HotY[s] = py
    BY <1>1
  <2>2. Clipped(cy, FrameH, ch) = {p \in 0..ch - 1 : cy + p \in 0..FrameH - 1}
    BY <1>1, ClippedIs
  <2> HIDE DEF cy
  <2> QED
    BY <1>1, <2>1, <2>2
<1>3. \A px \in Int : px \in Clipped(cx, FrameW, cw) <=> cx + px \in Columns
  <2> SUFFICES ASSUME NEW px \in Int
               PROVE  px \in Clipped(cx, FrameW, cw) <=> cx + px \in Columns
    OBVIOUS
  <2>1. (cx + px) - x + HotX[s] = px
    BY <1>1
  <2>2. Clipped(cx, FrameW, cw) = {p \in 0..cw - 1 : cx + p \in 0..FrameW - 1}
    BY <1>1, ClippedIs
  <2> HIDE DEF cx
  <2> QED
    BY <1>1, <2>1, <2>2
<1>4. \A py, px \in Int : Copied(py, px) = Seen(cy + py, cx + px)
  <2> SUFFICES ASSUME NEW py \in Int, NEW px \in Int
               PROVE  Copied(py, px) = Seen(cy + py, cx + px)
    OBVIOUS
  <2>1. (cy + py) - y + HotY[s] = py /\ (cx + px) - x + HotX[s] = px
    BY <1>1
  <2>2. (cy + py) * FrameW + cx + px = (cy + py) * FrameW + (cx + px)
    BY <1>1
  <2> QED
    BY <2>1, <2>2
<1>5. /\ Clipped(cy, FrameH, ch) \subseteq Int /\ Clipped(cx, FrameW, cw) \subseteq Int
      /\ Rows \subseteq Int /\ Columns \subseteq Int
  BY <1>1, ClippedIs
<1>6. InFrame(state, x, y) =
        {Copied(py, px) : py \in Clipped(cy, FrameH, ch), px \in Clipped(cx, FrameW, cw)}
  BY DEF InFrame, cw, ch
<1>7. Covered(s, x, y) = {Seen(fy, fx) : fy \in Rows, fx \in Columns}
  BY DEF Covered, cw, ch
<1> HIDE DEF cx, cy, Copied, Seen, Rows, Columns
<1>8. ASSUME NEW py \in Clipped(cy, FrameH, ch), NEW px \in Clipped(cx, FrameW, cw)
      PROVE  Copied(py, px) \in {Seen(fy, fx) : fy \in Rows, fx \in Columns}
  BY <1>2, <1>3, <1>4, <1>5
<1>9. ASSUME NEW fy \in Rows, NEW fx \in Columns
      PROVE  Seen(fy, fx) \in {Copied(py, px) : py \in Clipped(cy, FrameH, ch),
                                                px \in Clipped(cx, FrameW, cw)}
  <2>1. fy - cy \in Int /\ cy + (fy - cy) = fy /\ fx - cx \in Int /\ cx + (fx - cx) = fx
    BY <1>1, <1>5
  <2> QED
    BY <2>1, <1>2, <1>3, <1>4
<1> QED
  BY <1>6, <1>7, <1>8, <1>9

\* Such a bitmap is copied to where Overlay has it.
LEMMA BlitIsOverlay ==
  ASSUME NEW s \in Shapes, NEW x \in Int, NEW y \in Int,
         NEW state, state.hot = s, state.pixels = s, state.size = s
  PROVE  Blit(state, x, y) = Overlay(s, x, y)
<1> QED
  BY InFrameIsCovered DEF Blit, Overlay

\* What is kept of a cursor belongs together, and what is drawn is it.
CursorInv ==
  /\ cursor \in CursorStates
  /\ cursor.pixels # NoShape =>
       cursor.hot = cursor.handle /\ cursor.pixels = cursor.handle /\ cursor.size = cursor.handle
  /\ \/ drawn = NotDrawn
     \/ /\ drawn.shape \in Shapes /\ drawn.x \in Int /\ drawn.y \in Int
        /\ drawn.pixels = Draw(cursor, drawn.shape, drawn.x, drawn.y)
  /\ pc \notin {"got", "over"} => drawn = NotDrawn

\* A fetch that fails at any of its calls leaves the parts of a cursor together.
LEMMA FetchKeeps ==
  ASSUME CursorInv, NEW s \in Shapes, NEW failure \in Failures
  PROVE  LET c == Fetch(cursor, s, failure)
         IN  /\ c \in CursorStates
             /\ c.pixels # NoShape =>
                  c.hot = c.handle /\ c.pixels = c.handle /\ c.size = c.handle
<1>1. CASE Fetch(cursor, s, failure) = cursor
  BY <1>1 DEF CursorInv
<1>2. CASE Fetch(cursor, s, failure) =
             [cursor EXCEPT !.handle = s, !.hot = s, !.pixels = NoShape]
  BY <1>2 DEF CursorInv, CursorStates
<1>3. CASE Fetch(cursor, s, failure) = [handle |-> s, hot |-> s, pixels |-> s, size |-> s]
  BY <1>3 DEF CursorInv, CursorStates
<1> QED
  BY <1>1, <1>2, <1>3 DEF Fetch

LEMMA CursorInit == Init => CursorInv
<1> QED
  BY DEF Init, CursorInv, NoCursor, CursorStates

\* Only Read changes the cursor, and Deliver ends the frame it was drawn in.
LEMMA CursorStep == CursorInv /\ [Next]_vars => CursorInv'
<1> SUFFICES ASSUME CursorInv, [Next]_vars PROVE CursorInv'
  OBVIOUS
<1>1. CASE Read
  <2>1. CASE UNCHANGED <<cursor, drawn>>
    BY <1>1, <2>1 DEF Read, Goto, CursorInv, Draw, Blit, InFrame
  <2>2. CASE \E s \in Shapes, x \in Places, y \in Places, failure \in Failures :
               /\ cursor' = Fetch(cursor, s, failure)
               /\ drawn' = [shape |-> s, x |-> x, y |-> y, pixels |-> Draw(cursor', s, x, y)]
    <3>1. PICK s \in Shapes, x \in Places, y \in Places, failure \in Failures :
               /\ cursor' = Fetch(cursor, s, failure)
               /\ drawn' = [shape |-> s, x |-> x, y |-> y, pixels |-> Draw(cursor', s, x, y)]
      BY <2>2
    <3>2. x \in Int /\ y \in Int
      BY LoopAssumption
    <3>3. pc' = "got"
      BY <1>1 DEF Read, Goto
    <3>4. drawn'.shape = s /\ drawn'.x = x /\ drawn'.y = y /\ drawn'.pixels = Draw(cursor', s, x, y)
      BY <3>1
    <3> QED
      BY <3>1, <3>2, <3>3, <3>4, FetchKeeps DEF CursorInv, Draw, Blit, InFrame
  <2> QED
    BY <1>1, <2>1, <2>2 DEF Read
<1>2. CASE Deliver
  BY <1>2 DEF Deliver, CursorInv
<1>3. CASE UNCHANGED <<cursor, drawn>> /\ (pc' = pc \/ pc' = "over" \/ drawn = NotDrawn)
  BY <1>3 DEF CursorInv, Draw, Blit, InFrame
<1>4. pc' = pc \/ pc' = "over" \/ drawn = NotDrawn \/ Deliver
  BY DEF Next, Step, Stop, FfmpegEnds, Environment, vars, loopVars, Begin, Open, Tick, Acquire,
         AcquireFails, AcquireLost, Reduplicate, AcquireUnexpected, ReadFails, Read, Poll,
         PollLost, Rebuild, Goto, CursorInv
<1>5. Read \/ Deliver \/ UNCHANGED <<cursor, drawn>>
  BY DEF Next, Step, Stop, FfmpegEnds, Environment, vars, loopVars, Begin, Open, Tick, Acquire,
         AcquireFails, AcquireLost, Reduplicate, AcquireUnexpected, ReadFails, Poll, PollLost,
         Rebuild
<1> QED
  BY <1>1, <1>2, <1>3, <1>4, <1>5

\* capture-helper 449-627: whatever the cursor, wherever it is and however the
\* calls that fetch it fail, a frame has that cursor over it or none.
THEOREM CursorIsTrue == Spec => []CursorTrue
<1>1. CursorInv => CursorTrue
  <2> SUFFICES ASSUME CursorInv
               PROVE  CursorTrue
    OBVIOUS
  <2>1. CASE drawn = NotDrawn
    BY <2>1 DEF NotDrawn, CursorTrue
  <2>2. CASE drawn # NotDrawn
    <3>1. /\ drawn.shape \in Shapes /\ drawn.x \in Int /\ drawn.y \in Int
          /\ drawn.pixels = Draw(cursor, drawn.shape, drawn.x, drawn.y)
      BY <2>2 DEF CursorInv
    <3>2. drawn.shape # NoShape
      BY <3>1, OverlayAssumption
    <3>3. CASE cursor.handle = drawn.shape /\ cursor.pixels # NoShape
      <4>1. Blit(cursor, drawn.x, drawn.y) = Overlay(drawn.shape, drawn.x, drawn.y)
        BY <3>1, <3>3, BlitIsOverlay DEF CursorInv
      <4> QED
        BY <3>1, <3>2, <3>3, <4>1 DEF CursorTrue, Draw
    <3> QED
      BY <3>1, <3>2, <3>3 DEF CursorTrue, Draw
  <2> QED
    BY <2>1, <2>2
<1> QED
  BY <1>1, CursorInit, CursorStep, PTL DEF Spec

-----------------------------------------------------------------------------
(* The duplication.                                                        *)

\* What is alive is what the program holds, and it has a device from its first
\* duplication on.
LoopInv ==
  /\ DxgiTypeOK
  /\ program \in Programs
  /\ pc \in {"start", "open", "tick", "acquire", "again", "frame", "got", "over"}
  /\ dup \in Instances \cup {NoInst} /\ Live = {dup} \ {NoInst}
  /\ dev \in Devices \cup {NoDev}
  /\ lost \in BOOLEAN /\ ffmpeg \in BOOLEAN
  /\ pc \in {"start", "open"} => dup = NoInst
  /\ pc \notin {"start", "open", "over"} => dev \in Devices

LEMMA LoopInit == Init => LoopInv
<1> SUFFICES ASSUME Init PROVE LoopInv
  OBVIOUS
<1>1. inst \in [Instances -> LiveInst \cup {Free}] /\ Live = {}
  BY DEF Init, DxgiInit, Live, Free
<1>2. DxgiTypeOK
  BY <1>1, DxgiAssumption DEF Init, DxgiInit, DxgiTypeOK
<1>3. Live = {dup} \ {NoInst}
  BY <1>1 DEF Init
<1> QED
  BY <1>2, <1>3 DEF Init, LoopInv

\* A thread is attached to a desktop there is.
LEMMA AttachTypes ==
  ASSUME DxgiTypeOK, Attach \/ UNCHANGED tdesk
  PROVE  tdesk' \in [Threads -> Desktops]
<1> QED
  BY DEF DxgiTypeOK, Attach

\* A duplication that is lost is alive, and no other comes to life.
LEMMA LoseKeeps ==
  ASSUME DxgiTypeOK, NEW S, inst' = Lose(S)
  PROVE  inst' \in [Instances -> LiveInst \cup {Free}] /\ Live' = Live
<1>1. ASSUME NEW i \in Instances
      PROVE  /\ inst'[i] \in LiveInst \cup {Free}
             /\ inst'[i].st # "free" <=> inst[i].st # "free"
  <2>1. inst'[i] = IF i \in S /\ i \in Live THEN [inst[i] EXCEPT !.st = "lost"] ELSE inst[i]
    BY DEF Lose
  <2>2. inst[i] \in LiveInst \cup {Free}
    BY DEF DxgiTypeOK
  <2>3. CASE i \in S /\ i \in Live
    <3>1. inst[i] \in LiveInst
      BY <2>2, <2>3 DEF Live, Free
    <3>2. inst'[i] = [inst[i] EXCEPT !.st = "lost"]
      BY <2>1, <2>3
    <3> QED
      BY <2>3, <3>1, <3>2 DEF LiveInst, Health, Live
  <2> QED
    BY <2>1, <2>2, <2>3
<1>2. inst' \in [Instances -> LiveInst \cup {Free}]
  BY <1>1 DEF Lose
<1> QED
  BY <1>1, <1>2 DEF Live

\* Windows makes no duplication by itself.
LEMMA EnvironmentTypes ==
  ASSUME DxgiTypeOK, DxgiNext
  PROVE  DxgiTypeOK' /\ Live' = Live
<1>1. inst' = inst \/ \E S : inst' = Lose(S)
  BY DEF DxgiNext, BeginSwitch, EndSwitch, TearDown, Recreate, RemoveDevice
<1>2. inst' \in [Instances -> LiveInst \cup {Free}] /\ Live' = Live
  BY <1>1, LoseKeeps DEF DxgiTypeOK, Live
<1>3. /\ desktop' \in Desktops /\ settled' \in BOOLEAN
      /\ present' \subseteq Outputs /\ current' \in BOOLEAN
      /\ upToDate' \subseteq Captures /\ removed' \subseteq Devices
      /\ tdesk' = tdesk
  BY DEF DxgiTypeOK, DxgiNext, BeginSwitch, EndSwitch, TearDown, Recreate, RemoveDevice
<1> QED
  BY <1>2, <1>3 DEF DxgiTypeOK

\* The new duplication takes the old one's place: nothing is kept.
LEMMA DuplicateReplaces ==
  ASSUME DxgiTypeOK, dup \in Instances \cup {NoInst}, Live = {dup} \ {NoInst},
         NEW d \in Devices, NEW c, Duplicate(d, c)
  PROVE  /\ inst' \in [Instances -> LiveInst \cup {Free}]
         /\ dup' \in Instances \cup {NoInst} /\ Live' = {dup'} \ {NoInst}
         /\ dev' \in {dev, d} /\ (dup' # dup => dev' = d)
<1>1. PICK st \in DuplicateAnswers(Thread, d, Output0, c) :
        IF st = "fail" THEN UNCHANGED <<inst, dup, dev>>
        ELSE \E i \in Instances \ Live :
               /\ inst' = [j \in Instances |-> CASE j = i   -> Made(st, d)
                                                 [] j = dup -> Free
                                                 [] OTHER   -> inst[j]]
               /\ dup' = i /\ dev' = d
  BY DEF Duplicate
<1>2. CASE st = "fail"
  BY <1>1, <1>2 DEF DxgiTypeOK, Live
<1>3. CASE st # "fail"
  <2>1. PICK i \in Instances \ Live :
               /\ inst' = [j \in Instances |-> CASE j = i   -> Made(st, d)
                                                 [] j = dup -> Free
                                                 [] OTHER   -> inst[j]]
               /\ dup' = i /\ dev' = d
    BY <1>1, <1>3
  <2>2. Made(st, d) \in LiveInst /\ Made(st, d).st # "free"
    <3>1. st \in Health
      BY <1>3 DEF DuplicateAnswers, Health
    <3> QED
      BY <3>1, DxgiAssumption DEF Made, LiveInst, Health
  <2>3. ASSUME NEW j \in Instances
        PROVE  inst'[j] \in LiveInst \cup {Free} /\ (inst'[j].st # "free" <=> j = i)
    <3>1. CASE j = i
      <4>1. i # dup
        BY DxgiAssumption
      <4>2. inst'[i] = Made(st, d)
        BY <2>1, <4>1
      <4> QED
        BY <2>2, <3>1, <4>2
    <3>2. CASE j # i /\ j = dup
      <4>1. inst'[j] = Free /\ Free.st = "free"
        BY <2>1, <3>2 DEF Free
      <4> QED
        BY <3>2, <4>1
    <3>3. CASE j # i /\ j # dup
      <4>1. inst'[j] = inst[j] /\ j \notin Live
        BY <2>1, <3>3
      <4>2. inst[j] \in LiveInst \cup {Free} /\ inst[j].st = "free"
        BY <4>1 DEF Live, DxgiTypeOK
      <4> QED
        BY <3>3, <4>1, <4>2
    <3> QED
      BY <3>1, <3>2, <3>3
  <2>4. inst' \in [Instances -> LiveInst \cup {Free}]
    BY <2>1, <2>3
  <2>5. Live' = {i}
    BY <2>3 DEF Live
  <2> QED
    BY <2>1, <2>4, <2>5, DxgiAssumption
<1> QED
  BY <1>2, <1>3

\* A step makes, replaces or drops the one duplication, or leaves it alone.
LEMMA LoopStep == LoopInv /\ [Next]_vars => LoopInv'
<1> SUFFICES ASSUME LoopInv, [Next]_vars PROVE LoopInv'
  OBVIOUS
<1>1. CASE Open
  <2>1. PICK d \in Devices : Duplicate(d, TRUE)
    BY <1>1 DEF Open
  <2>2. /\ inst' \in [Instances -> LiveInst \cup {Free}]
        /\ dup' \in Instances \cup {NoInst} /\ Live' = {dup'} \ {NoInst}
        /\ dev' \in {dev, d} /\ (dup' # dup => dev' = d)
    BY <2>1, DuplicateReplaces DEF LoopInv
  <2>3. tdesk' \in [Threads -> Desktops]
    BY <1>1, AttachTypes DEF Open, LoopInv
  <2>4. upToDate' \subseteq Captures
    BY <1>1, LoopAssumption DEF Open, LoopInv, DxgiTypeOK
  <2>5. pc = "open" /\ pc' = IF dup' = NoInst THEN "over" ELSE "tick"
    BY <1>1 DEF Open, Goto
  <2>6. UNCHANGED <<desktop, settled, present, current, removed, program, lost, ffmpeg>>
    BY <1>1 DEF Open
  <2>7. DxgiTypeOK'
    BY <2>2, <2>3, <2>4, <2>6 DEF LoopInv, DxgiTypeOK
  <2> QED
    BY <2>2, <2>5, <2>6, <2>7 DEF LoopInv
<1>2. CASE Reduplicate \/ AcquireUnexpected \/ Rebuild
  <2>0. \E d \in Devices : \E c : Duplicate(d, c)
    BY <1>2 DEF Reduplicate, AcquireUnexpected, Rebuild, LoopInv, Goto
  <2>1. PICK d \in Devices : \E c : Duplicate(d, c)
    BY <2>0
  <2>2. /\ inst' \in [Instances -> LiveInst \cup {Free}]
        /\ dup' \in Instances \cup {NoInst} /\ Live' = {dup'} \ {NoInst}
        /\ dev' \in {dev, d}
    <3>1. PICK c : Duplicate(d, c)
      BY <2>1
    <3> QED
      BY <3>1, DuplicateReplaces DEF LoopInv
  <2>3. /\ UNCHANGED <<envVars, tdesk, program, lost, ffmpeg>>
        /\ pc \in {"again", "acquire"} /\ pc' = "tick"
    BY <1>2 DEF Reduplicate, AcquireUnexpected, Rebuild, Goto
  <2>4. DxgiTypeOK'
    BY <2>2, <2>3 DEF LoopInv, DxgiTypeOK, envVars
  <2> QED
    BY <2>2, <2>3, <2>4 DEF LoopInv
<1>3. CASE AcquireLost
  <2>1. /\ inst' = [i \in Instances |-> IF i = dup THEN Free ELSE inst[i]]
        /\ dup' = NoInst /\ lost' = TRUE
        /\ pc = "acquire" /\ pc' = "again"
        /\ UNCHANGED <<envVars, tdesk, program, dev, ffmpeg>>
    BY <1>3 DEF AcquireLost, Goto
  <2>2. inst' \in [Instances -> LiveInst \cup {Free}]
    BY <2>1 DEF LoopInv, DxgiTypeOK
  <2>3. Live' = {}
    BY <2>1 DEF LoopInv, Live, Free
  <2>4. DxgiTypeOK'
    BY <2>1, <2>2 DEF LoopInv, DxgiTypeOK, envVars
  <2> QED
    BY <2>1, <2>3, <2>4 DEF LoopInv
<1>4. CASE Poll
  <2>1. /\ inst' = [inst EXCEPT ![dup].frame = (inst[dup].st # "good")]
        /\ "ok" \in Answer
        /\ pc = "tick" /\ pc' = "got"
        /\ UNCHANGED <<envVars, tdesk, program, dup, dev, lost, ffmpeg>>
    BY <1>4 DEF Poll, Goto
  <2>2. dup \in Instances /\ inst[dup] \in LiveInst
    <3>1. dup # NoInst
      BY <2>1 DEF Answer
    <3> QED
      BY <3>1 DEF LoopInv, DxgiTypeOK, Live, Free
  <2>3. /\ inst' \in [Instances -> LiveInst \cup {Free}]
        /\ \A i \in Instances : inst'[i].st = inst[i].st
    BY <2>1, <2>2 DEF LoopInv, DxgiTypeOK, LiveInst
  <2>4. Live' = Live
    BY <2>3 DEF Live
  <2>5. DxgiTypeOK'
    BY <2>1, <2>3 DEF LoopInv, DxgiTypeOK, envVars
  <2> QED
    BY <2>1, <2>4, <2>5 DEF LoopInv
<1>5. CASE Environment
  <2>1. DxgiTypeOK' /\ Live' = Live
    BY <1>5, EnvironmentTypes DEF Environment, LoopInv
  <2>2. UNCHANGED <<program, pc, dup, dev, lost, ffmpeg>>
    BY <1>5 DEF Environment, loopVars
  <2> QED
    BY <2>1, <2>2 DEF LoopInv
<1>6. CASE Begin \/ Tick \/ Acquire \/ AcquireFails \/ ReadFails \/ Read \/ Deliver
           \/ PollLost \/ Stop \/ FfmpegEnds \/ UNCHANGED vars
  <2>1. /\ UNCHANGED <<desktop, settled, present, current, upToDate, removed, inst, program,
                       dup, dev>>
        /\ lost' \in {lost, TRUE} /\ ffmpeg' \in {ffmpeg, FALSE}
        /\ Attach \/ UNCHANGED tdesk
    BY <1>6 DEF Begin, Tick, Acquire, AcquireFails, ReadFails, Read, Deliver, PollLost, Stop,
                FfmpegEnds, vars, loopVars, envVars
  <2>2. DxgiTypeOK' /\ Live' = Live
    BY <2>1, AttachTypes DEF LoopInv, DxgiTypeOK, Live
  <2>3. /\ pc' \in {"start", "open", "tick", "acquire", "again", "frame", "got", "over"}
        /\ pc' \in {"start", "open"} => pc \in {"start", "open"}
        /\ pc' \notin {"start", "open", "over"} => pc \notin {"start", "open", "over"}
    BY <1>6 DEF Begin, Tick, Acquire, AcquireFails, ReadFails, Read, Deliver, PollLost, Stop,
                FfmpegEnds, Goto, vars, loopVars, LoopInv
  <2> QED
    BY <2>1, <2>2, <2>3 DEF LoopInv
<1> QED
  BY <1>1, <1>2, <1>3, <1>4, <1>5, <1>6 DEF Next, Step

\* The programs of poc/: each state they reach is well typed, and of all
\* duplications ever made the one alive is the one in the program's hands,
\* through every switch of the desktop and every loss.
THEOREM TypeCorrect == Spec => []TypeOK
<1>1. LoopInv /\ CursorInv => TypeOK
  BY DEF LoopInv, CursorInv, TypeOK
<1> QED
  BY <1>1, LoopInit, LoopStep, CursorInit, CursorStep, PTL DEF Spec

-----------------------------------------------------------------------------
(* dda-probe.                                                              *)

\* Its duplication is of the one output there is, and from the first loss on
\* it is one that will fail for ever, and is alive.
ProbeInv ==
  /\ DOMAIN inst = Instances
  /\ pc \in {"start", "open"} => ~lost /\ dup = NoInst
  /\ pc \in {"acquire", "frame"} => UsesCrate
  /\ ~UsesCrate /\ pc \notin {"start", "open", "over"} =>
       /\ dup \in Instances /\ inst[dup].out = Output0
       /\ {"st", "out"} \subseteq DOMAIN inst[dup]
       /\ inst[dup].st \in {"good", "lost", "doomed", "ghost"}
       /\ lost => pc # "got" /\ inst[dup].st \in {"lost", "doomed"}

LEMMA ProbeInit == Init => ProbeInv
<1> QED
  BY DEF Init, DxgiInit, ProbeInv

\* Windows cannot help: whatever happens to a duplication that failed, it has
\* failed.
LEMMA EnvironmentKeeps == ProbeInv /\ Environment => ProbeInv'
<1> SUFFICES ASSUME ProbeInv, Environment PROVE ProbeInv'
  OBVIOUS
<1>1. UNCHANGED <<pc, lost, dup, program>>
  BY DEF Environment, loopVars
<1>2. inst' = inst \/ \E S : inst' = Lose(S)
  BY DEF Environment, DxgiNext, BeginSwitch, EndSwitch, TearDown, Recreate, RemoveDevice
<1>3. CASE inst' = inst
  BY <1>1, <1>3 DEF ProbeInv, UsesCrate
<1>4. CASE \E S : inst' = Lose(S)
  <2>1. PICK S : inst' = Lose(S)
    BY <1>4
  <2>2. DOMAIN inst' = Instances
    BY <2>1 DEF Lose
  <2>3. ASSUME dup \in Instances
        PROVE  inst'[dup] = inst[dup] \/ inst'[dup] = [inst[dup] EXCEPT !.st = "lost"]
    BY <2>1, <2>3 DEF Lose
  <2>4. ASSUME dup \in Instances, {"st", "out"} \subseteq DOMAIN inst[dup],
               inst[dup].st \in Health
        PROVE  /\ inst'[dup].st \in Health
               /\ DOMAIN inst'[dup] = DOMAIN inst[dup] /\ inst'[dup].out = inst[dup].out
               /\ inst[dup].st \in {"lost", "doomed"} => inst'[dup].st \in {"lost", "doomed"}
    BY <2>3, <2>4 DEF Health
  <2> QED
    BY <1>1, <2>2, <2>3, <2>4 DEF ProbeInv, UsesCrate, Health
<1> QED
  BY <1>2, <1>3, <1>4

\* DuplicateOutput fails, or makes an object that takes dup's place.
LEMMA DuplicateMakes ==
  ASSUME DOMAIN inst = Instances, dup = NoInst \/ dup \in Live, NEW d, NEW c, Duplicate(d, c)
  PROVE  \/ UNCHANGED <<inst, dup>>
         \/ \E st \in DuplicateAnswers(Thread, d, Output0, c) \ {"fail"} :
              DOMAIN inst' = Instances /\ dup' \in Instances /\ inst'[dup'] = Made(st, d)
<1>1. PICK st \in DuplicateAnswers(Thread, d, Output0, c) :
        IF st = "fail" THEN UNCHANGED <<inst, dup, dev>>
        ELSE \E i \in Instances \ Live :
               /\ inst' = [j \in Instances |-> CASE j = i   -> Made(st, d)
                                                 [] j = dup -> Free
                                                 [] OTHER   -> inst[j]]
               /\ dup' = i /\ dev' = d
  BY DEF Duplicate
<1>2. CASE st = "fail"
  BY <1>1, <1>2
<1>3. CASE st # "fail"
  <2>1. PICK i \in Instances \ Live :
               /\ inst' = [j \in Instances |-> CASE j = i   -> Made(st, d)
                                                 [] j = dup -> Free
                                                 [] OTHER   -> inst[j]]
               /\ dup' = i
    BY <1>1, <1>3
  <2>2. i # dup
    BY DxgiAssumption
  <2>3. inst'[i] = Made(st, d) /\ DOMAIN inst' = Instances
    BY <2>1, <2>2
  <2> QED
    BY <1>3, <2>1, <2>3
<1> QED
  BY <1>2, <1>3

\* A second duplication of the output does not work while there is one.
LEMMA SecondIsDoomed ==
  ASSUME ProbeInv, ~UsesCrate, pc = "again", NEW d, NEW c, Duplicate(d, c)
  PROVE  /\ DOMAIN inst' = Instances
         /\ dup' \in Instances /\ inst'[dup'].out = Output0
         /\ {"st", "out"} \subseteq DOMAIN inst'[dup']
         /\ UNCHANGED <<inst, dup>> \/ inst'[dup'].st = "doomed"
<1>1. dup \in Live /\ dup \in LiveOn(Output0) /\ dup \in Instances
  BY DEF ProbeInv, LiveOn, Live, Free
<1>2. DuplicateAnswers(Thread, d, Output0, c) \ {"fail"} \subseteq {"doomed"}
  BY <1>1 DEF DuplicateAnswers
<1>3. CASE UNCHANGED <<inst, dup>>
  BY <1>3 DEF ProbeInv
<1>4. CASE \E st \in DuplicateAnswers(Thread, d, Output0, c) \ {"fail"} :
             DOMAIN inst' = Instances /\ dup' \in Instances /\ inst'[dup'] = Made(st, d)
  BY <1>2, <1>4 DEF Made
<1>5. DOMAIN inst = Instances
  BY DEF ProbeInv
<1> QED
  BY <1>1, <1>3, <1>4, <1>5, DuplicateMakes

\* A rebuild finds the lost duplication alive, so that the new one is doomed.
LEMMA ProbeStep == ProbeInv /\ [Next]_vars => ProbeInv'
<1> SUFFICES ASSUME ProbeInv, [Next]_vars PROVE ProbeInv'
  OBVIOUS
<1>1. CASE Open
  <2>1. DOMAIN inst' = Instances /\ ~lost' /\ UNCHANGED program
    BY <1>1 DEF Open, Goto, Duplicate, ProbeInv
  <2>2. ASSUME pc' # "over"
        PROVE  /\ dup' \in Instances /\ inst'[dup'].out = Output0 /\ inst'[dup'].st \in Health
               /\ {"st", "out"} \subseteq DOMAIN inst'[dup']
    <3>1. PICK d : Duplicate(d, TRUE)
      BY <1>1 DEF Open
    <3>2. dup = NoInst /\ dup' # NoInst
      BY <1>1, <2>2 DEF Open, Goto, ProbeInv
    <3>3. PICK st \in DuplicateAnswers(Thread, d, Output0, TRUE) \ {"fail"} :
            dup' \in Instances /\ inst'[dup'] = Made(st, d)
      BY <3>1, <3>2, DuplicateMakes DEF ProbeInv
    <3>4. st \in Health
      BY <3>3 DEF DuplicateAnswers, Health
    <3> QED
      BY <3>3, <3>4 DEF Made
  <2> QED
    BY <1>1, <2>1, <2>2 DEF Open, Goto, ProbeInv, Health, UsesCrate
<1>2. CASE Rebuild
  <2>1. PICK d, c : Duplicate(d, c)
    BY <1>2 DEF Rebuild
  <2>2. ~UsesCrate /\ pc = "again" /\ pc' = "tick" /\ UNCHANGED <<program, lost>>
    BY <1>2 DEF Rebuild, Goto
  <2> QED
    BY <2>1, <2>2, SecondIsDoomed DEF ProbeInv, UsesCrate
<1>3. CASE Poll
  BY <1>3 DEF Poll, Goto, Answer, AcquireAnswers, LostCodes, ProbeInv, UsesCrate, Live
<1>4. CASE PollLost
  BY <1>4, DxgiAssumption DEF PollLost, LostAccess, Answer, AcquireAnswers, LostCodes, ProbeInv, UsesCrate
<1>5. CASE Environment
  BY <1>5, EnvironmentKeeps
<1>6. CASE AcquireLost \/ Reduplicate \/ AcquireUnexpected
  BY <1>6 DEF AcquireLost, Reduplicate, AcquireUnexpected, Duplicate, Goto, ProbeInv, UsesCrate
<1>7. CASE Begin \/ Tick \/ Acquire \/ AcquireFails \/ ReadFails \/ Read \/ Deliver
           \/ Stop \/ FfmpegEnds \/ UNCHANGED vars
  BY <1>7 DEF Begin, Tick, Acquire, AcquireFails, ReadFails, Read, Deliver, Stop, FfmpegEnds, Goto,
              ProbeInv, UsesCrate, vars, loopVars
<1> QED
  BY <1>1, <1>2, <1>3, <1>4, <1>5, <1>6, <1>7 DEF Next, Step

\* dda-probe 191-266: with none of its four strategies, on any number of
\* devices, does a frame come after the first loss.
THEOREM ProbeNeverRecovers == Spec => []ProbeStaysDead
<1>1. ProbeInv => ProbeStaysDead
  BY DEF ProbeInv, ProbeStaysDead
<1> QED
  BY <1>1, ProbeInit, ProbeStep, PTL DEF Spec
=============================================================================
