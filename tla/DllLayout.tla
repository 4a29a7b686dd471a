----------------------------- MODULE DllLayout -----------------------------
(***************************************************************************)
(* dll_layout.py and the scripts that use it: the genuine avfilter-12.dll  *)
(* of an ffmpeg build is stashed, swapped for the proxy while ffmpeg runs, *)
(* and restored.  Ctrl+C can arrive at any step that does not ignore it,   *)
(* a copy can fail, the process can be killed, and the script run again on *)
(* whatever was left behind.                                               *)
(***************************************************************************)
EXTENDS Naturals

CONSTANTS
  Scripts,    \* the scripts that run: see Kinds
  Layouts,    \* the layouts bin/ may have before the first run
  CopyMayFail \* whether a copy into bin/ can raise (a full disk, a scanner)

\* "record": record_until_ctrlc.py and start_stream.py, which kill ffmpeg.exe
\* by name on Ctrl+C; "send": send_stream.py, which stops only the process it
\* launched; "verify": verify_matrix.py and loop_normal_verify.py, several
\* cases one after the other and no handler.
Kinds == {"record", "send", "verify"}

Files == {"real", "orig", "backup"}
Order == <<"real", "orig", "backup">>
Contents == {"none", "genuine", "proxy"}
Layout == [Files -> Contents]

\* ffmpeg starts: the proxy forwards its exports to the original.
Loadable(l) == l["real"] = "genuine" \/ (l["real"] = "proxy" /\ l["orig"] = "genuine")

ASSUME DllAssumption ==
  /\ Scripts \subseteq Kinds /\ CopyMayFail \in BOOLEAN
  /\ Layouts \subseteq {l \in Layout : \E f \in Files : l[f] = "genuine"}

VARIABLES
  bin,     \* the three DLLs in bin/
  stash,   \* their copies in stash_dir
  pinned,  \* avfilter-12_genuine.dll in stash_dir
  spare,   \* a stash_dir some earlier run left holds a genuine copy
  pc, k,   \* the step the run is at, the file of Order it is about
  script, useProxy,
  ffmpeg,  \* ffmpeg runs, with the DLLs of bin/ loaded
  before,  \* bin/ as the run found it
  ended    \* how the last run ended, "none" before that and during a run

vars == <<bin, stash, pinned, spare, pc, k, script, useProxy, ffmpeg, before, ended>>
run == <<script, useProxy, before>>

Empty == [f \in Files |-> "none"]

Applying == {"unlink_real", "unlink_orig", "write_orig", "write_real"}
Restoring == {"unlink", "copy"}
Steps == {"idle", "copied", "stashed", "launch", "run", "handler", "finally", "cleanup"}
           \cup Applying \cup Restoring
Endings == {"none", "restored", "refused", "interrupted", "failed", "killed"}

TypeOK ==
  /\ bin \in Layout /\ stash \in Layout /\ pinned \in Contents
  /\ spare \in BOOLEAN
  /\ pc \in Steps /\ k \in 1..3
  /\ script \in Kinds /\ useProxy \in BOOLEAN
  /\ ffmpeg \in BOOLEAN /\ before \in Layout /\ ended \in Endings

Init ==
  /\ bin \in Layouts /\ before = bin
  /\ stash = Empty /\ pinned = "none" /\ spare = FALSE
  /\ pc = "idle" /\ k = 1
  /\ script \in Scripts /\ useProxy = FALSE
  /\ ffmpeg = FALSE /\ ended = "none"

Goto(from, to) == pc = from /\ pc' = to

\* The process ends; what it does not remove of its stash stays in %TEMP%.
StashHasGenuine == pinned = "genuine" \/ \E f \in Files : stash[f] = "genuine"
Exit(how, keepsStash) ==
  /\ pc' = "idle" /\ ended' = how
  /\ stash' = Empty /\ pinned' = "none"
  /\ spare' = (spare \/ (keepsStash /\ StashHasGenuine))
  /\ k' = 1
  /\ UNCHANGED <<run, ffmpeg>>

-----------------------------------------------------------------------------
(* stash_dll_layout.                                                       *)

StashCopies ==
  /\ Goto("idle", "copied")
  /\ script' \in Scripts
  /\ useProxy' \in BOOLEAN
  /\ before' = bin /\ stash' = bin
  /\ ended' = "none"
  /\ UNCHANGED <<bin, pinned, spare, k, ffmpeg>>

SourceForGenuine == IF stash["orig"] # "none" THEN stash["orig"] ELSE stash["real"]

\* A DLL too small to be genuine is refused.
PinGenuine ==
  /\ Goto("copied", "stashed")
  /\ SourceForGenuine = "genuine"
  /\ pinned' = "genuine"
  /\ UNCHANGED <<bin, stash, spare, k, run, ffmpeg, ended>>

\* BrokenDllLayoutError: no source, and the stash is removed; or a source
\* that is too small, and the stash stays.
Refuse ==
  /\ pc = "copied" /\ SourceForGenuine # "genuine"
  /\ Exit("refused", SourceForGenuine # "none")
  /\ UNCHANGED bin

-----------------------------------------------------------------------------
(* apply_dll_mode, inside the scripts' try.                                *)

EnterTry ==
  /\ Goto("stashed", "unlink_real")
  /\ UNCHANGED <<bin, stash, pinned, spare, k, run, ffmpeg, ended>>

\* Windows does not delete a DLL a process has loaded.
Loaded(f) == ffmpeg /\ bin[f] # "none"

ApplyUnlink(f, from, to) ==
  /\ Goto(from, to)
  /\ ~Loaded(f)
  /\ bin' = [bin EXCEPT ![f] = "none"]
  /\ UNCHANGED <<stash, pinned, spare, k, run, ffmpeg, ended>>

\* The proxy installed without the DLL it forwards to.
MutantNoOriginal ==
  /\ Goto("write_orig", "write_real")
  /\ UNCHANGED <<bin, stash, pinned, spare, k, run, ffmpeg, ended>>

ApplyOriginal ==
  /\ Goto("write_orig", "write_real")
  /\ bin' = IF useProxy THEN [bin EXCEPT !["orig"] = pinned] ELSE bin
  /\ UNCHANGED <<stash, pinned, spare, k, run, ffmpeg, ended>>

ApplyReal ==
  /\ Goto("write_real", "launch")
  /\ bin' = [bin EXCEPT !["real"] = IF useProxy THEN "proxy" ELSE pinned]
  /\ UNCHANGED <<stash, pinned, spare, k, run, ffmpeg, ended>>

\* Popen of ffmpeg, or of what starts it as SYSTEM.
Launch ==
  /\ Goto("launch", "run")
  /\ ffmpeg' = TRUE
  /\ UNCHANGED <<bin, stash, pinned, spare, k, run, ended>>

FfmpegExits ==
  /\ ffmpeg /\ ffmpeg' = FALSE
  /\ UNCHANGED <<bin, stash, pinned, spare, pc, k, run, ended>>

\* ffmpeg_proc.wait() returned and nothing is left to do.
LeaveTry ==
  /\ Goto("run", "finally") /\ ~ffmpeg
  /\ UNCHANGED <<bin, stash, pinned, spare, k, run, ffmpeg, ended>>

\* The next case of a verification run.
NextCase ==
  /\ script = "verify"
  /\ Goto("run", "unlink_real") /\ ~ffmpeg
  /\ useProxy' \in BOOLEAN
  /\ UNCHANGED <<bin, stash, pinned, spare, k, script, before, ffmpeg, ended>>

\* An error in the try: a loaded DLL, a failed copy, no proxy build, and what
\* comes before the launch, which may also return.
TryRaises ==
  /\ \/ pc = "unlink_real" /\ Loaded("real")
     \/ pc = "unlink_orig" /\ Loaded("orig")
     \/ pc \in {"write_orig", "write_real"} /\ CopyMayFail
     \/ pc = "write_real" /\ useProxy
     \/ pc = "launch"
  /\ pc' = "finally"
  /\ UNCHANGED <<bin, stash, pinned, spare, k, run, ffmpeg, ended>>

\* except KeyboardInterrupt: taskkill /f /im ffmpeg.exe.
KillFfmpeg ==
  /\ Goto("handler", "finally")
  /\ ffmpeg' = FALSE
  /\ UNCHANGED <<bin, stash, pinned, spare, k, run, ended>>

-----------------------------------------------------------------------------
(* restore_dll_layout, from the scripts' finally.                          *)

IgnoreSigint ==
  /\ Goto("finally", "unlink") /\ k' = 1
  /\ UNCHANGED <<bin, stash, pinned, spare, run, ffmpeg, ended>>

\* Only the DLL ffmpeg loads by name is removed.
MutantUnlinksReal ==
  /\ pc = "unlink" /\ ~Loaded("real")
  /\ bin' = [bin EXCEPT !["real"] = "none"]
  /\ pc' = "copy" /\ k' = 1
  /\ UNCHANGED <<stash, pinned, spare, run, ffmpeg, ended>>

RestoreUnlink ==
  /\ pc = "unlink" /\ ~Loaded(Order[k])
  /\ bin' = [bin EXCEPT ![Order[k]] = "none"]
  /\ IF k = 3 THEN pc' = "copy" /\ k' = 1 ELSE pc' = pc /\ k' = k + 1
  /\ UNCHANGED <<stash, pinned, spare, run, ffmpeg, ended>>

\* A copy straight to the DLL's own name, which a kill leaves half done.
MutantCopiesInPlace ==
  /\ pc = "copy"
  /\ bin' = [bin EXCEPT ![Order[k]] = "partial"]
  /\ UNCHANGED <<stash, pinned, spare, pc, k, run, ffmpeg, ended>>

\* Each copy goes to a temporary name and is renamed.
RestoreCopy ==
  /\ pc = "copy"
  /\ bin' = IF stash[Order[k]] = "none" THEN bin ELSE [bin EXCEPT ![Order[k]] = stash[Order[k]]]
  /\ IF k = 3 THEN pc' = "cleanup" /\ k' = 1 ELSE pc' = pc /\ k' = k + 1
  /\ UNCHANGED <<stash, pinned, spare, run, ffmpeg, ended>>

\* rmtree in the finally that also runs when the restore failed.
MutantRemovesStash ==
  /\ pc \in Restoring
  /\ IF pc = "unlink" THEN Loaded(Order[k]) ELSE CopyMayFail
  /\ Exit("failed", FALSE)
  /\ UNCHANGED bin

\* The unlink of a loaded DLL, or a copy, raises: the rest of the restore is
\* skipped, and so is the removal of the stash.
RestoreRaises ==
  /\ pc \in Restoring
  /\ IF pc = "unlink" THEN Loaded(Order[k]) ELSE CopyMayFail
  /\ Exit("failed", TRUE)
  /\ UNCHANGED bin

RemoveStash ==
  /\ pc = "cleanup"
  /\ Exit("restored", FALSE)
  /\ UNCHANGED bin

-----------------------------------------------------------------------------
(* Ctrl+C and kill.                                                        *)

\* KeyboardInterrupt in the try.
InterruptTry ==
  /\ pc \in Applying \cup {"launch", "run", "handler"}
  /\ pc' = IF script = "record" /\ pc # "handler" THEN "handler" ELSE "finally"
  /\ UNCHANGED <<bin, stash, pinned, spare, k, run, ffmpeg, ended>>

\* KeyboardInterrupt before the try, or in the finally while SIGINT is not
\* ignored: the process ends there.
InterruptOutside ==
  /\ pc \in {"copied", "stashed", "finally", "cleanup"}
  /\ Exit("interrupted", TRUE)
  /\ UNCHANGED bin

Kill ==
  /\ pc # "idle"
  /\ Exit("killed", TRUE)
  /\ UNCHANGED bin

Next ==
  \/ StashCopies \/ PinGenuine \/ Refuse \/ EnterTry
  \/ ApplyUnlink("real", "unlink_real", "unlink_orig")
  \/ ApplyUnlink("orig", "unlink_orig", "write_orig")
  \/ ApplyOriginal \/ ApplyReal \/ Launch \/ FfmpegExits \/ LeaveTry \/ NextCase \/ TryRaises
  \/ KillFfmpeg \/ IgnoreSigint \/ RestoreUnlink \/ RestoreCopy \/ RestoreRaises
  \/ RemoveStash \/ InterruptTry \/ InterruptOutside \/ Kill

Spec == Init /\ [][Next]_vars
-----------------------------------------------------------------------------
(* Properties.                                                             *)

\* dll_layout.py 13-20: whatever is interrupted, killed or fails, and however
\* often a script runs again on what is left, a genuine DLL exists in bin/ or
\* in a stash.
GenuineNeverLost ==
  spare \/ StashHasGenuine \/ \E f \in Files : bin[f] = "genuine"

\* dll_layout.py 111-134: a restore that ran to its end leaves bin/ as the
\* run found it, files the swap added included.
RestoredExactly ==
  pc = "cleanup" \/ (pc = "idle" /\ ended = "restored") => bin = before

\* dll_layout.py 7-12: while ffmpeg runs, the layout it was started from is a
\* loadable one and stays.
RunsLoadable == ffmpeg => Loadable(bin)

\* latency-poc/README.md 209-212: after an error the layout is restored.
ErrorRestores == pc = "idle" /\ ended = "failed" => bin = before
=============================================================================
