-------------------------------- MODULE Session --------------------------------
(***************************************************************************)
(* A run of a script with both things it puts in place around ffmpeg: the  *)
(* DLLs of DllLayout and, for record_until_ctrlc.py, a virtual display.    *)
(***************************************************************************)
EXTENDS DllLayout, VirtualDisplay

VARIABLES
  mine,     \* the helper the script has started, 0 for none
  known,    \* add_virtual_display has returned: vdd_proc is set
  leaving,  \* the script is in remove_virtual_display
  captured  \* the output ffmpeg has opened at the index it was given, 0 for none

scriptVars == <<mine, known, leaving, captured>>
sessionVars == <<vars, helperVars, scriptVars>>

SessionTypeOK ==
  /\ TypeOK /\ HelperTypeOK
  /\ mine \in Helpers \cup {0} /\ captured \in Outputs \cup {0}
  /\ known \in BOOLEAN /\ leaving \in BOOLEAN

SessionInit ==
  /\ Init /\ HelperInit
  /\ mine = 0 /\ captured = 0 /\ known = FALSE /\ leaving = FALSE

-----------------------------------------------------------------------------
(* The steps of DllLayout.                                                 *)

\* The process ends, and with it the pipe to the helper it started.
Ends ==
  /\ IF mine = 0 THEN UNCHANGED stdin ELSE stdin' = [stdin EXCEPT ![mine] = "closed"]
  /\ IF mine # 0 /\ Printed(mine) THEN Forget(mine) ELSE UNCHANGED <<index, shifted>>
  /\ mine' = 0 /\ known' = FALSE /\ leaving' = FALSE /\ captured' = 0
  /\ UNCHANGED <<helper, outputs>>

\* ffmpeg is launched once the display is known, or with an index that was given.
LaunchOnDisplay ==
  /\ Launch
  /\ mine = 0 \/ known
  /\ UNCHANGED <<helperVars, scriptVars>>

\* ddagrab opens the output at the index of its command line; when there is
\* none, it fails and ffmpeg exits.
OpenOutput ==
  /\ pc = "run" /\ ffmpeg /\ known /\ captured = 0
  /\ index[mine] \in DOMAIN outputs /\ captured' = outputs[index[mine]]
  /\ UNCHANGED <<vars, helperVars, mine, known, leaving>>

\* After restore_dll_layout the script still has the display to remove.
RestoredThenRemove ==
  /\ RemoveStash /\ known
  /\ leaving' = TRUE
  /\ UNCHANGED <<helperVars, mine, known, captured>>

LayoutStep ==
  \/ LaunchOnDisplay \/ RestoredThenRemove
  \/ /\ Next /\ ~Launch /\ (leaving => FfmpegExits)
     /\ IF pc' = "idle" /\ pc # "idle" THEN ~(RemoveStash /\ known) /\ Ends
        ELSE UNCHANGED <<helperVars, scriptVars>>

-----------------------------------------------------------------------------
(* add_virtual_display and remove_virtual_display.                         *)

AddVirtualDisplay ==
  /\ pc = "launch" /\ script = "record" /\ mine = 0
  /\ \E h \in Helpers : helper[h] = "none" /\ (\A g \in Helpers : g < h => helper[g] # "none")
                        /\ Spawn(h) /\ mine' = h
  /\ UNCHANGED <<vars, known, leaving, captured>>

\* readline: the helper's first line.  Without it the script raises, which is
\* DllLayout's TryRaises.
ReadReport ==
  /\ pc = "launch" /\ mine # 0 /\ Printed(mine) /\ known' = TRUE
  /\ UNCHANGED <<vars, helperVars, mine, leaving, captured>>

\* "remove" is written, if the helper can still read it.
WriteRemove ==
  /\ leaving /\ stdin[mine] = "open" /\ Running(mine)
  /\ stdin' = [stdin EXCEPT ![mine] = "remove"]
  /\ UNCHANGED <<vars, helper, outputs, index, shifted, scriptVars>>

\* wait returns, within 5 s or after the kill.
HelperGone == leaving /\ ~Running(mine) /\ Ends /\ UNCHANGED vars

KillHelper ==
  /\ leaving /\ stdin[mine] = "remove" /\ HelperKilled(mine)
  /\ UNCHANGED <<vars, scriptVars>>

\* Ctrl+C or a kill in remove_virtual_display.
LeavingCut == leaving /\ Ends /\ UNCHANGED vars

Leave == WriteRemove \/ HelperGone

SessionNext ==
  \/ LayoutStep \/ AddVirtualDisplay \/ ReadReport \/ OpenOutput
  \/ Leave \/ KillHelper \/ LeavingCut
  \/ (Disturbance \/ \E h \in Helpers : HelperRuns(h)) /\ UNCHANGED <<vars, scriptVars>>

\* A process runs; the script inside remove_virtual_display goes on.
SessionSpec ==
  /\ SessionInit /\ [][SessionNext]_sessionVars
  /\ WF_sessionVars(Leave)
  /\ \A h \in Helpers : WF_sessionVars(HelperRuns(h) /\ UNCHANGED <<vars, scriptVars>>)

-----------------------------------------------------------------------------
\* vdd-helper 113-116, record_until_ctrlc.py 124-130: once the script is done
\* with a display, or has come to any other end, the display goes, even if the
\* restore of the DLLs has raised and remove_virtual_display is skipped.
DisplayGoes ==
  \A h \in Helpers :
    (helper[h] # "none" /\ (mine # h \/ leaving)) ~> (h \notin Listed /\ ~Running(h))

\* vdd-helper 1-13, 74-100: an index that is looked up by the display's name,
\* printed, read and put on ffmpeg's command line leads ffmpeg to another output
\* only if, since the lookup, an output has come or gone at its place or in
\* front of it: the display itself, before the watchdog keeps it or after, a
\* monitor, the display of a session before or after this one.
CapturesItsDisplay == captured # 0 => captured = mine \/ mine \in shifted
=============================================================================
