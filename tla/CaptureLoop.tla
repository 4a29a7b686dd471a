----------------------------- MODULE CaptureLoop -----------------------------
(***************************************************************************)
(* The capture programs of poc/ that do without the hook DLL: capture-     *)
(* helper and desktop-shot, which use the win_desktop_duplication crate,   *)
(* and dda-probe with each of its four strategies.  Each is one thread     *)
(* with one duplication of one output.                                     *)
(***************************************************************************)
EXTENDS Dxgi, CursorOverlay

CONSTANTS Thread, Client, Places

\* dda-probe's strategies.
Probes == {"none", "reattach", "reduplicate", "full-rebuild"}
Programs == {"capture-helper", "desktop-shot"} \cup Probes

ASSUME LoopAssumption ==
  /\ Threads = {Thread} /\ Captures = {Client} /\ Places \subseteq Int

VARIABLES
  program,  \* the program that runs
  pc,       \* where its loop is
  dup,      \* its duplication
  dev,      \* the device it was made with
  lost,     \* AcquireNextFrame has said that access was lost
  ffmpeg,   \* capture-helper's child reads its standard input
  cursor,   \* CursorState
  drawn     \* the cursor over the last frame and the pixels copied into it

loopVars == <<program, pc, dup, dev, lost, ffmpeg, cursor, drawn>>
vars == <<envVars, inst, tdesk, loopVars>>

NotDrawn == [shape |-> NoShape, x |-> 0, y |-> 0, pixels |-> {}]

TypeOK ==
  /\ DxgiTypeOK
  /\ program \in Programs
  /\ pc \in {"start", "open", "tick", "acquire", "again", "frame", "got", "over"}
  /\ dup \in Instances \cup {NoInst} /\ Live = {dup} \ {NoInst}
  /\ dev \in Devices \cup {NoDev}
  /\ lost \in BOOLEAN /\ ffmpeg \in BOOLEAN
  /\ cursor \in CursorStates

Init ==
  /\ DxgiInit
  /\ program \in Programs /\ pc = "start"
  /\ dup = NoInst /\ dev = NoDev /\ lost = FALSE
  /\ ffmpeg = (program = "capture-helper")
  /\ cursor = NoCursor /\ drawn = NotDrawn

UsesCrate == program \in {"capture-helper", "desktop-shot"}

Goto(from, to) == pc = from /\ pc' = to

-----------------------------------------------------------------------------
(* Windows, and what the crate's calls come to.                            *)

\* OpenInputDesktop and SetThreadDesktop; if one of them fails the thread
\* stays where it is.
Attach == tdesk' = [tdesk EXCEPT ![Thread] = IF AttachSucceeds THEN desktop ELSE @]

Made(st, d) == [st |-> st, out |-> Output0, dev |-> d, frame |-> FALSE]

\* The old duplication is kept somewhere.
MutantLeaksOld(d, outputIsCurrent) ==
  \E st \in DuplicateAnswers(Thread, d, Output0, outputIsCurrent) :
    IF st = "fail" THEN UNCHANGED <<inst, dup, dev>>
    ELSE \E i \in Instances \ Live :
           /\ inst' = [inst EXCEPT ![i] = Made(st, d)]
           /\ dup' = i /\ dev' = d

\* DuplicateOutput while whatever dup is is still alive; the new duplication
\* takes its place.
Duplicate(d, outputIsCurrent) ==
  \E st \in DuplicateAnswers(Thread, d, Output0, outputIsCurrent) :
    IF st = "fail" THEN UNCHANGED <<inst, dup, dev>>
    ELSE \E i \in Instances \ Live :
           /\ inst' = [j \in Instances |-> CASE j = i   -> Made(st, d)
                                             [] j = dup -> Free
                                             [] OTHER   -> inst[j]]
           /\ dup' = i /\ dev' = d

Answer == IF dup = NoInst THEN {"access_lost"} ELSE AcquireAnswers(dup)
LostAccess == Answer \cap {"access_lost", "access_denied"} # {}

\* The objects are those of the topology they were found in, for good.
OutputIsCurrent == Client \in upToDate

-----------------------------------------------------------------------------
(* The programs' starts.                                                   *)

\* desktop-shot and dda-probe attach first, and give up if they cannot;
\* capture-helper duplicates from the desktop it was started on.
Begin ==
  /\ Goto("start", IF program = "capture-helper" \/ AttachSucceeds THEN "open" ELSE "over")
  /\ IF program = "capture-helper" THEN UNCHANGED tdesk ELSE Attach
  /\ UNCHANGED <<envVars, inst, program, dup, dev, lost, ffmpeg, cursor, drawn>>

\* capture-helper attaches now.
Open ==
  /\ \E d \in Devices \ removed : Duplicate(d, TRUE)
  /\ Goto("open", IF dup' = NoInst THEN "over" ELSE "tick")
  /\ IF program = "capture-helper" /\ dup' # NoInst THEN Attach ELSE UNCHANGED tdesk
  /\ upToDate' = upToDate \cup {Client}
  /\ UNCHANGED <<desktop, settled, present, current, removed, program,
                 lost, ffmpeg, cursor, drawn>>

-----------------------------------------------------------------------------
(* A tick of capture-helper and of desktop-shot.                           *)

\* A thread that attaches to the input desktop when it starts.
MutantAttachesOnce ==
  /\ Goto("tick", "acquire") /\ UsesCrate
  /\ UNCHANGED <<envVars, inst, tdesk, program, dup, dev, lost, ffmpeg, cursor, drawn>>

Tick ==
  /\ Goto("tick", "acquire") /\ UsesCrate
  /\ Attach
  /\ UNCHANGED <<envVars, inst, program, dup, dev, lost, ffmpeg, cursor, drawn>>

\* acquire_next_frame_now waits until there is a frame, copies and releases it.
Acquire ==
  /\ Goto("acquire", "frame") /\ UsesCrate
  /\ dup # NoInst /\ inst[dup].st = "good" /\ dev \notin removed
  /\ UNCHANGED <<envVars, inst, tdesk, program, dup, dev, lost, ffmpeg, cursor, drawn>>

\* AccessLost and AccessDenied: the crate drops the duplication ...
AcquireLost ==
  /\ Goto("acquire", "again") /\ UsesCrate /\ LostAccess
  /\ inst' = [i \in Instances |-> IF i = dup THEN Free ELSE inst[i]]
  /\ dup' = NoInst /\ lost' = TRUE
  /\ UNCHANGED <<envVars, tdesk, program, dev, ffmpeg, cursor, drawn>>

\* ... and makes another before it returns the error.
Reduplicate ==
  /\ Goto("again", "tick") /\ UsesCrate
  /\ Duplicate(dev, OutputIsCurrent)
  /\ UNCHANGED <<envVars, tdesk, program, lost, ffmpeg, cursor, drawn>>

\* Unexpected: a DesktopDuplicationApi with a device of its own replaces the old
\* one, which is alive until then.
AcquireUnexpected ==
  /\ Goto("acquire", "tick") /\ UsesCrate /\ dup # NoInst
  /\ \/ Answer \cap {"removed", "invalid_call"} # {}
     \/ inst[dup].st = "ghost"
  /\ \E d \in Devices \ removed : Duplicate(d, OutputIsCurrent)
  /\ UNCHANGED <<envVars, tdesk, program, lost, ffmpeg, cursor, drawn>>

\* An error that is none of these: the next tick tries again with what there is.
AcquireFails ==
  /\ Goto("acquire", "tick") /\ UsesCrate
  /\ UNCHANGED <<envVars, inst, tdesk, program, dup, dev, lost, ffmpeg, cursor, drawn>>

\* reader.get_data fails: capture-helper kills ffmpeg and ends, desktop-shot
\* goes on.
ReadFails ==
  /\ Goto("frame", IF program = "capture-helper" THEN "over" ELSE "tick")
  /\ dev \in removed
  /\ ffmpeg' = FALSE
  /\ UNCHANGED <<envVars, inst, tdesk, program, dup, dev, lost, cursor, drawn>>

\* desktop-shot saves the frame; capture-helper draws the cursor, wherever it
\* is, into it, if it is shown.
Read ==
  /\ Goto("frame", "got")
  /\ \/ UNCHANGED <<cursor, drawn>>
     \/ /\ program = "capture-helper"
        /\ \E s \in Shapes, x \in Places, y \in Places, failure \in Failures :
             /\ cursor' = Fetch(cursor, s, failure)
             /\ drawn' = [shape |-> s, x |-> x, y |-> y, pixels |-> Draw(cursor', s, x, y)]
  /\ UNCHANGED <<envVars, inst, tdesk, program, dup, dev, lost, ffmpeg>>

\* Once the frame is written, or saved; a write that fails ends the loop.
Deliver ==
  /\ Goto("got", IF program = "capture-helper" /\ ~ffmpeg THEN "over" ELSE "tick")
  /\ drawn' = NotDrawn
  /\ UNCHANGED <<envVars, inst, tdesk, program, dup, dev, lost, ffmpeg, cursor>>

-----------------------------------------------------------------------------
(* A tick of dda-probe.                                                    *)

\* AcquireNextFrame and ReleaseFrame succeed.
Poll ==
  /\ Goto("tick", "got") /\ ~UsesCrate /\ "ok" \in Answer
  /\ inst' = [inst EXCEPT ![dup].frame = (inst[dup].st # "good")]
  /\ UNCHANGED <<envVars, tdesk, program, dup, dev, lost, ffmpeg, cursor, drawn>>

\* AccessLost and AccessDenied: all strategies but one attach, and two rebuild,
\* on a secure desktop only if the command line allows it.
PollLost ==
  /\ pc = "tick" /\ ~UsesCrate /\ LostAccess
  /\ lost' = TRUE
  /\ IF program = "none" THEN UNCHANGED tdesk ELSE Attach
  /\ \/ pc' = "again" /\ program \in {"reduplicate", "full-rebuild"}
     \/ /\ pc' = "tick"
        /\ program \in {"none", "reattach"} \/ (AttachSucceeds /\ desktop # HomeDesktop)
  /\ UNCHANGED <<envVars, inst, program, dup, dev, ffmpeg, cursor, drawn>>

\* A strategy that drops the old duplication first.
MutantDropsFirst ==
  /\ Goto("again", "tick") /\ ~UsesCrate
  /\ IF settled /\ tdesk[Thread] = desktop /\ OutputIsCurrent
     THEN inst' = [inst EXCEPT ![dup] = Made("good", dev)]
     ELSE UNCHANGED inst
  /\ UNCHANGED <<envVars, tdesk, program, dup, dev, lost, ffmpeg, cursor, drawn>>

\* reduplicate uses the same output and device, full-rebuild new ones.
Rebuild ==
  /\ Goto("again", "tick") /\ ~UsesCrate
  /\ IF program = "reduplicate" THEN Duplicate(dev, OutputIsCurrent)
     ELSE \E d \in Devices \ removed : Duplicate(d, TRUE)
  /\ UNCHANGED <<envVars, tdesk, program, lost, ffmpeg, cursor, drawn>>

-----------------------------------------------------------------------------
\* The user stops the program; ffmpeg ends, by itself or at the end of its input.
Stop ==
  /\ pc # "over" /\ pc' = "over"
  /\ UNCHANGED <<envVars, inst, tdesk, program, dup, dev, lost, ffmpeg, cursor, drawn>>

FfmpegEnds ==
  /\ ffmpeg /\ ffmpeg' = FALSE
  /\ UNCHANGED <<envVars, inst, tdesk, program, pc, dup, dev, lost, cursor, drawn>>

Environment == DxgiNext /\ UNCHANGED loopVars

Step ==
  \/ Begin \/ Open \/ Tick \/ Acquire \/ AcquireLost \/ Reduplicate \/ AcquireUnexpected
  \/ ReadFails \/ Read \/ Deliver \/ Poll \/ PollLost \/ Rebuild

Next == Step \/ AcquireFails \/ Stop \/ FfmpegEnds \/ Environment

\* An error that asks for nothing but another try does not come at every try.
Answered == Acquire \/ AcquireLost \/ AcquireUnexpected

Spec == Init /\ [][Next]_vars /\ WF_vars(Step) /\ SF_vars(Answered)

-----------------------------------------------------------------------------
\* Every switch of the desktop is survived by the programs that attach at every
\* tick and whose crate drops the old duplication before it makes the new one:
\* once the desktop stays, with the display and the device they began with,
\* frames keep coming.
Calm == AttachSucceeds /\ OutputIsCurrent /\ removed = {}
Resumes ==
  (UsesCrate /\ <>[]Calm) => ([]<>(pc = "got") \/ <>(pc = "over"))

\* None of dda-probe's strategies sees a frame after the first loss: two
\* re-duplicate while the old duplication is alive, two do not re-duplicate.
ProbeStaysDead == ~UsesCrate /\ lost => pc # "got"

\* A frame with a cursor in it has that cursor's pixels at the places where it
\* lies over the frame, and all that are not transparent; one without has none
\* there, or the bitmap could not be fetched when the handle was new.
CursorTrue ==
  LET s == drawn.shape
      fetched == s # NoShape /\ cursor.handle = s /\ cursor.pixels # NoShape
  IN  drawn.pixels = IF fetched THEN Overlay(s, drawn.x, drawn.y) ELSE {}
=============================================================================
