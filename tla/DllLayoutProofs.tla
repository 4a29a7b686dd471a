-------------------------- MODULE DllLayoutProofs --------------------------
(***************************************************************************)
(* The invariants of DllLayout for every set of scripts and every layout   *)
(* bin/ may start from, and that a session with virtual displays, however  *)
(* many, keeps them, captures the display it has made, and is well typed.  *)
(***************************************************************************)
EXTENDS Session, SequenceTheorems, FiniteSetTheorems, TLAPS

\* The stash is what the run found, and pinned came out of it.
StashInv ==
  /\ pc # "idle" => stash = before
  /\ pc = "copied" => bin = before /\ pinned = "none"
  /\ pc = "idle" => stash = Empty /\ pinned = "none"
  /\ pc \notin {"idle", "copied"} =>
       pinned = "genuine" /\ (stash["orig"] = "genuine" \/ stash["real"] = "genuine")

\* How far a restore has come.
RestoreInv ==
  /\ pc = "unlink" => \A j \in 1..3 : j < k => bin[Order[j]] = "none"
  /\ pc = "copy" => \A j \in 1..3 : bin[Order[j]] = IF j < k THEN before[Order[j]] ELSE "none"
  /\ RestoredExactly

\* Where ffmpeg cannot be running, because its DLL was unlinked.
LoadInv ==
  /\ RunsLoadable
  /\ pc \in {"unlink_orig", "write_orig", "write_real", "launch", "copy", "cleanup"}
       => ~ffmpeg
  /\ pc = "unlink" /\ k > 1 => ~ffmpeg
  /\ pc = "write_real" /\ useProxy => bin["orig"] = "genuine"
  /\ pc = "launch" => Loadable(bin)

Inv == TypeOK /\ StashInv /\ GenuineNeverLost /\ RestoreInv /\ LoadInv

\* Before the first run bin/ has a genuine DLL and no stash exists.
LEMMA InvInit == Init => Inv
<1> SUFFICES ASSUME Init PROVE Inv
  OBVIOUS
<1> USE DllAssumption DEF Init
<1>1. TypeOK
  <2>1. bin \in Layout /\ before \in Layout /\ script \in Kinds
    OBVIOUS
  <2>2. stash \in Layout /\ pinned \in Contents
    BY DEF Layout, Contents, Empty
  <2>3. spare \in BOOLEAN /\ useProxy \in BOOLEAN /\ ffmpeg \in BOOLEAN
    OBVIOUS
  <2>4. pc \in Steps /\ k \in 1..3 /\ ended \in Endings
    BY DEF Steps, Endings
  <2> QED
    BY <2>1, <2>2, <2>3, <2>4 DEF TypeOK
<1>2. StashInv /\ RestoreInv /\ LoadInv
  BY DEF StashInv, RestoreInv, LoadInv, RestoredExactly, RunsLoadable
<1>3. GenuineNeverLost
  BY DEF GenuineNeverLost
<1> QED
  BY <1>1, <1>2, <1>3 DEF Inv

\* Every step of a run, interrupts and kills included, keeps it.
LEMMA InvStep == Inv /\ [Next]_vars => Inv'
<1> SUFFICES ASSUME Inv, [Next]_vars PROVE Inv'
  OBVIOUS
<1> USE DllAssumption
        DEF Inv, TypeOK, Layout, Files, Contents, Steps, Endings, Applying, Restoring,
            run, Goto
<1>1. CASE StashCopies
  <2>1. TypeOK' /\ StashInv' /\ RestoreInv' /\ LoadInv'
    BY <1>1 DEF StashCopies, StashInv, RestoreInv, LoadInv, RestoredExactly, RunsLoadable,
                Loadable
  <2>2. GenuineNeverLost'
    BY <1>1 DEF StashCopies, GenuineNeverLost, StashHasGenuine, StashInv, Empty
  <2> QED
    BY <2>1, <2>2
<1>2. CASE PinGenuine
  <2>1. TypeOK' /\ StashInv' /\ RestoreInv' /\ LoadInv'
    BY <1>2 DEF PinGenuine, SourceForGenuine, StashInv, RestoreInv, LoadInv, RestoredExactly,
                RunsLoadable, Loadable
  <2>2. GenuineNeverLost'
    BY <1>2 DEF PinGenuine, GenuineNeverLost, StashHasGenuine
  <2> QED
    BY <2>1, <2>2
<1>3. CASE EnterTry \/ LeaveTry \/ NextCase \/ TryRaises \/ IgnoreSigint \/ InterruptTry
           \/ KillFfmpeg \/ FfmpegExits
  <2> USE <1>3 DEF EnterTry, LeaveTry, NextCase, TryRaises, IgnoreSigint, InterruptTry,
                   KillFfmpeg, FfmpegExits
  <2>1. TypeOK'
    <3>1. bin' \in Layout /\ stash' \in Layout /\ before' \in Layout /\ pinned' \in Contents
      OBVIOUS
    <3>2. pc' \in Steps /\ k' \in 1..3 /\ script' \in Kinds /\ ended' \in Endings
      OBVIOUS
    <3>3. spare' \in BOOLEAN /\ ffmpeg' \in BOOLEAN
      OBVIOUS
    <3>4. useProxy' \in BOOLEAN
      OBVIOUS
    <3> QED
      BY <3>1, <3>2, <3>3, <3>4
  <2>0. StashInv'
    BY DEF StashInv
  <2>2. RestoreInv' /\ LoadInv'
    BY DEF RestoreInv, LoadInv, RestoredExactly, RunsLoadable, Loadable
  <2>3. GenuineNeverLost'
    BY DEF GenuineNeverLost, StashHasGenuine
  <2> QED
    BY <2>0, <2>1, <2>2, <2>3
<1>4. CASE \/ ApplyUnlink("real", "unlink_real", "unlink_orig")
           \/ ApplyUnlink("orig", "unlink_orig", "write_orig")
           \/ ApplyOriginal \/ ApplyReal \/ Launch
  <2> USE <1>4 DEF ApplyUnlink, ApplyOriginal, ApplyReal, Launch
  <2>1. TypeOK'
    <3>1. bin' \in Layout /\ stash' \in Layout /\ before' \in Layout /\ pinned' \in Contents
      OBVIOUS
    <3>2. pc' \in Steps /\ k' \in 1..3 /\ script' \in Kinds /\ ended' \in Endings
      OBVIOUS
    <3>3. spare' \in BOOLEAN /\ ffmpeg' \in BOOLEAN
      OBVIOUS
    <3>4. useProxy' \in BOOLEAN
      OBVIOUS
    <3> QED
      BY <3>1, <3>2, <3>3, <3>4
  <2>0. StashInv'
    BY DEF StashInv
  <2>2. RestoreInv' /\ LoadInv'
    BY DEF RestoreInv, LoadInv, RestoredExactly, RunsLoadable, Loadable, Loaded, StashInv
  <2>3. GenuineNeverLost'
    BY DEF GenuineNeverLost, StashHasGenuine, StashInv
  <2> QED
    BY <2>0, <2>1, <2>2, <2>3
<1>5. CASE RestoreUnlink
  <2>1. TypeOK' /\ StashInv'
    BY <1>5 DEF RestoreUnlink, StashInv, Order
  <2>2. RestoreInv'
    BY <1>5 DEF RestoreUnlink, RestoreInv, RestoredExactly, Order
  <2>3. LoadInv'
    BY <1>5 DEF RestoreUnlink, LoadInv, RunsLoadable, Loadable, Loaded, Order
  <2>4. GenuineNeverLost'
    BY <1>5 DEF RestoreUnlink, GenuineNeverLost, StashHasGenuine, StashInv
  <2> QED
    BY <2>1, <2>2, <2>3, <2>4
<1>6. CASE RestoreCopy
  <2>1. TypeOK' /\ StashInv'
    BY <1>6 DEF RestoreCopy, StashInv, Order
  <2>2. RestoreInv'
    BY <1>6 DEF RestoreCopy, RestoreInv, RestoredExactly, StashInv, Order
  <2>3. LoadInv'
    BY <1>6 DEF RestoreCopy, LoadInv, RunsLoadable
  <2>4. GenuineNeverLost'
    BY <1>6 DEF RestoreCopy, GenuineNeverLost, StashHasGenuine, StashInv
  <2> QED
    BY <2>1, <2>2, <2>3, <2>4
<1>7. CASE Refuse \/ RestoreRaises \/ RemoveStash \/ InterruptOutside \/ Kill
  <2> USE <1>7 DEF Refuse, RestoreRaises, RemoveStash, InterruptOutside, Kill, Exit
  <2>1. TypeOK'
    <3>1. bin' \in Layout /\ stash' \in Layout /\ before' \in Layout /\ pinned' \in Contents
      BY DEF Empty
    <3>2. pc' \in Steps /\ k' \in 1..3 /\ script' \in Kinds /\ ended' \in Endings
      BY DEF Empty
    <3>3. spare' \in BOOLEAN /\ ffmpeg' \in BOOLEAN
      BY DEF Empty
    <3>4. useProxy' \in BOOLEAN
      BY DEF Empty
    <3> QED
      BY <3>1, <3>2, <3>3, <3>4
  <2>0. StashInv'
    BY DEF StashInv
  <2>2. RestoreInv'
    BY DEF RestoreInv, RestoredExactly
  <2>3. LoadInv'
    BY DEF LoadInv, RunsLoadable
  <2>4. GenuineNeverLost'
    <3>1. CASE RestoreRaises \/ InterruptOutside \/ Kill
      BY <3>1 DEF GenuineNeverLost
    <3>2. CASE Refuse
      BY <3>2 DEF GenuineNeverLost, StashHasGenuine, StashInv
    <3>3. CASE RemoveStash
      <4>1. bin = stash
        BY <3>3 DEF StashInv, RestoreInv, RestoredExactly
      <4> QED
        BY <3>3, <4>1 DEF GenuineNeverLost, StashInv
    <3> QED
      BY <3>1, <3>2, <3>3
  <2> QED
    BY <2>0, <2>1, <2>2, <2>3, <2>4
<1>8. CASE UNCHANGED vars
  BY <1>8 DEF vars, StashInv, RestoreInv, LoadInv, RestoredExactly, RunsLoadable, Loadable,
              GenuineNeverLost, StashHasGenuine
<1> QED
  BY <1>1, <1>2, <1>3, <1>4, <1>5, <1>6, <1>7, <1>8 DEF Next

\* Inv as a fact about behaviors.
LEMMA InvHolds == Spec => []Inv
<1> QED
  BY InvInit, InvStep, PTL DEF Spec

\* dll_layout.py 13-20: no interrupt, kill, failed copy or rerun destroys the
\* last genuine DLL.
THEOREM GenuineSurvives == Spec => []GenuineNeverLost
<1>1. Inv => GenuineNeverLost
  BY DEF Inv
<1> QED
  BY <1>1, InvHolds, PTL

\* dll_layout.py 111-134: a restore that ran to its end is exact, whatever the
\* swap did and wherever it stopped.
THEOREM RestoreIsExact == Spec => []RestoredExactly
<1>1. Inv => RestoredExactly
  BY DEF Inv, RestoreInv
<1> QED
  BY <1>1, InvHolds, PTL

\* dll_layout.py 7-12: a running ffmpeg has the DLLs it needs.
THEOREM FfmpegStaysLoadable == Spec => []RunsLoadable
<1>1. Inv => RunsLoadable
  BY DEF Inv, LoadInv
<1> QED
  BY <1>1, InvHolds, PTL

-----------------------------------------------------------------------------
\* A session is a run of the scripts on the DLLs: the steps of the helpers and of
\* the script around them leave bin/ and the stash alone.
THEOREM SessionKeepsLayout == SessionSpec => Spec
<1>1. SessionInit => Init
  BY DEF SessionInit
<1>2. [SessionNext]_sessionVars => [Next]_vars
  <2> SUFFICES ASSUME [SessionNext]_sessionVars PROVE [Next]_vars
    OBVIOUS
  <2>1. CASE LayoutStep
    BY <2>1 DEF LayoutStep, LaunchOnDisplay, RestoredThenRemove, Next
  <2>2. CASE AddVirtualDisplay \/ ReadReport \/ OpenOutput \/ KillHelper \/ Leave \/ LeavingCut
    BY <2>2 DEF AddVirtualDisplay, ReadReport, OpenOutput, KillHelper, Leave, WriteRemove, HelperGone,
                LeavingCut
  <2>3. CASE UNCHANGED sessionVars
    BY <2>3 DEF sessionVars
  <2> QED
    BY <2>1, <2>2, <2>3 DEF SessionNext
<1> QED
  BY <1>1, <1>2, PTL DEF SessionSpec, Spec

\* Whatever happens to the displays, the last genuine DLL survives.
THEOREM GenuineSurvivesSessions == SessionSpec => []GenuineNeverLost
<1> QED
  BY SessionKeepsLayout, GenuineSurvives, PTL

\* Where each helper's display is, as long as nothing has moved it since the
\* lookup.
Placed(g) ==
  index[g] # 0 /\ g \notin shifted => index[g] \in DOMAIN outputs /\ outputs[index[g]] = g

\* A number is that of a display that was there, and has been looked up.
HelpersInv ==
  /\ outputs \in Seq(Outputs)
  /\ helper \in [Helpers -> {"none", "adding", "finding", "reporting", "serving", "stopping", "over"}]
  /\ index \in [Helpers -> Nat]
  /\ \A h \in Helpers : index[h] # 0 => helper[h] \notin {"none", "adding", "finding"}
  /\ \A h \in Helpers : h \in Listed => helper[h] \notin {"none", "adding"}
  /\ \A h \in Helpers : Placed(h)

\* What the script and ffmpeg have is what was printed.
ScriptInv ==
  /\ mine \in Helpers \cup {0}
  /\ known => mine # 0 /\ Printed(mine)
  /\ leaving => known
  /\ captured # 0 => known
  /\ CapturesItsDisplay
SessionInv == HelpersInv /\ ScriptInv

\* 0 stands for no helper.
LEMMA HelpersAreNumbers == Helpers \subseteq Nat /\ 0 \notin Helpers
<1>1. \E n \in Nat : Helpers = 1..n
  BY HelpersAssumption
<1> QED
  BY <1>1

\* The outputs after one that goes move up by one.
LEMMA VanishIs ==
  ASSUME outputs \in Seq(Outputs), NEW o \in Listed, Vanishes(o)
  PROVE  \E n \in 1..Len(outputs) :
           /\ outputs[n] = o /\ ShiftedFrom(n)
           /\ outputs' \in Seq(Outputs) /\ Len(outputs') = Len(outputs) - 1
           /\ \A m \in 1..Len(outputs) - 1 :
                outputs'[m] = outputs[IF m < n THEN m ELSE m + 1]
<1>1. PICK n \in DOMAIN outputs :
        /\ outputs[n] = o /\ ShiftedFrom(n)
        /\ outputs' = SubSeq(outputs, 1, n - 1) \o SubSeq(outputs, n + 1, Len(outputs))
  BY DEF Vanishes
<1>2. n \in 1..Len(outputs) /\ Len(outputs) \in Nat
  BY <1>1
<1> DEFINE front == SubSeq(outputs, 1, n - 1)
           back == SubSeq(outputs, n + 1, Len(outputs))
<1>3. /\ front \in Seq(Outputs) /\ Len(front) = n - 1
      /\ \A m \in 1..Len(front) : front[m] = outputs[m]
  BY <1>2, SubSeqProperties
<1>4. /\ back \in Seq(Outputs) /\ Len(back) = Len(outputs) - n
      /\ \A m \in 1..Len(back) : back[m] = outputs[n + m]
  BY <1>2, SubSeqProperties
<1> HIDE DEF front, back
<1>5. /\ front \o back \in Seq(Outputs)
      /\ Len(front \o back) = Len(front) + Len(back)
      /\ \A m \in 1..Len(front) + Len(back) :
           (front \o back)[m] = IF m <= Len(front) THEN front[m] ELSE back[m - Len(front)]
  BY <1>3, <1>4, ConcatProperties
<1>6. outputs' = front \o back
  BY <1>1 DEF front, back
<1>7. Len(outputs') = Len(outputs) - 1
  BY <1>2, <1>3, <1>4, <1>5, <1>6
<1>8. ASSUME NEW m \in 1..Len(outputs) - 1
      PROVE  outputs'[m] = outputs[IF m < n THEN m ELSE m + 1]
  <2>1. m \in 1..Len(front) + Len(back)
    BY <1>2, <1>3, <1>4, <1>8
  <2>2. CASE m < n
    <3>1. m \in 1..Len(front)
      BY <2>2, <1>2, <1>3
    <3> QED
      BY <2>1, <2>2, <3>1, <1>3, <1>5, <1>6
  <2>3. CASE ~(m < n)
    <3> DEFINE i == m - (n - 1)
    <3>1. /\ i \in 1..Len(outputs) - n /\ n + i = m + 1
          /\ ~(m <= n - 1) /\ m - (n - 1) = i
      BY <2>3, <1>2
    <3>2. i \in 1..Len(back) /\ ~(m <= Len(front)) /\ m - Len(front) = i
      BY <3>1, <1>3, <1>4
    <3> HIDE DEF i
    <3>3. outputs'[m] = back[i] /\ back[i] = outputs[m + 1]
      BY <2>1, <3>1, <3>2, <1>4, <1>5, <1>6
    <3> QED
      BY <2>3, <3>3
  <2> QED
    BY <2>2, <2>3
<1> QED
  BY <1>1, <1>2, <1>5, <1>6, <1>7, <1>8

\* A display that goes takes no other with it and brings none.
LEMMA VanishShrinks ==
  ASSUME outputs \in Seq(Outputs), NEW o \in Outputs, Vanishes(o)
  PROVE  /\ outputs' \in Seq(Outputs) /\ Len(outputs') <= Len(outputs)
         /\ Listed' \subseteq Listed
         /\ IsInjective(outputs) => IsInjective(outputs')
<1>1. CASE o \notin Listed
  BY <1>1 DEF Vanishes, Listed
<1>2. CASE o \in Listed
  <2>1. PICK n \in 1..Len(outputs) :
           /\ outputs' \in Seq(Outputs) /\ Len(outputs') = Len(outputs) - 1
           /\ \A m \in 1..Len(outputs) - 1 :
                outputs'[m] = outputs[IF m < n THEN m ELSE m + 1]
    BY <1>2, VanishIs
  <2> DEFINE from(m) == IF m < n THEN m ELSE m + 1
  <2>2. /\ \A m \in 1..Len(outputs) - 1 : from(m) \in 1..Len(outputs)
        /\ \A m, l \in 1..Len(outputs) - 1 : from(m) = from(l) => m = l
    BY <2>1
  <2>3. DOMAIN outputs' = 1..Len(outputs) - 1 /\ DOMAIN outputs = 1..Len(outputs)
    BY <2>1
  <2>4. \A m \in 1..Len(outputs) - 1 : outputs'[m] = outputs[from(m)]
    BY <2>1
  <2> HIDE DEF from
  <2>5. Listed' \subseteq Listed
    BY <2>2, <2>3, <2>4 DEF Listed
  <2>6. IsInjective(outputs) => IsInjective(outputs')
    BY <2>2, <2>3, <2>4 DEF IsInjective
  <2> QED
    BY <2>1, <2>5, <2>6
<1> QED
  BY <1>1, <1>2

\* The outputs after the place of a new one move down by one.
LEMMA AppearIs ==
  ASSUME outputs \in Seq(Outputs), NEW o \in Outputs, Appears(o)
  PROVE  \E n \in 1..Len(outputs) + 1 :
           /\ ShiftedFrom(n)
           /\ outputs' \in Seq(Outputs) /\ Len(outputs') = Len(outputs) + 1
           /\ \A m \in 1..Len(outputs) + 1 :
                outputs'[m] = IF m = n THEN o ELSE outputs[IF m < n THEN m ELSE m - 1]
<1>1. PICK n \in 1..Len(outputs) + 1 :
        /\ ShiftedFrom(n)
        /\ outputs' = SubSeq(outputs, 1, n - 1) \o <<o>> \o SubSeq(outputs, n, Len(outputs))
  BY DEF Appears
<1>2. Len(outputs) \in Nat
  OBVIOUS
<1> DEFINE front == SubSeq(outputs, 1, n - 1)
           back == SubSeq(outputs, n, Len(outputs))
<1>3. /\ front \in Seq(Outputs) /\ Len(front) = n - 1
      /\ \A m \in 1..Len(front) : front[m] = outputs[m]
  BY <1>1, <1>2, SubSeqProperties
<1>4. /\ back \in Seq(Outputs) /\ Len(back) = Len(outputs) - n + 1
      /\ \A m \in 1..Len(back) : back[m] = outputs[n + m - 1]
  BY <1>1, <1>2, SubSeqProperties
<1> DEFINE upto == front \o <<o>>
<1>5. outputs' = upto \o back
  BY <1>1
<1>6. /\ upto \in Seq(Outputs) /\ Len(upto) = n
      /\ \A m \in 1..n : upto[m] = IF m < n THEN outputs[m] ELSE o
  <2> HIDE DEF front
  <2> QED
    BY <1>1, <1>3, ConcatProperties
<1> HIDE DEF upto, back
<1>7. /\ outputs' \in Seq(Outputs) /\ Len(outputs') = Len(outputs) + 1
      /\ \A m \in 1..Len(outputs') :
           outputs'[m] = IF m <= n THEN upto[m] ELSE back[m - n]
  <2>1. /\ upto \o back \in Seq(Outputs) /\ Len(upto \o back) = Len(upto) + Len(back)
        /\ \A m \in 1..Len(upto) + Len(back) :
             (upto \o back)[m] = IF m <= Len(upto) THEN upto[m] ELSE back[m - Len(upto)]
    BY <1>4, <1>6, ConcatProperties
  <2>2. Len(upto) + Len(back) = Len(outputs) + 1 /\ Len(upto) = n
    BY <1>1, <1>2, <1>4, <1>6
  <2> QED
    BY <2>1, <2>2, <1>5
<1>8. ASSUME NEW m \in 1..Len(outputs) + 1
      PROVE  outputs'[m] = IF m = n THEN o ELSE outputs[IF m < n THEN m ELSE m - 1]
  <2> Len(outputs') = Len(outputs) + 1
    BY <1>7
  <2> n \in Int
    BY <1>1
  <2>1. CASE m <= n
    <3>1. outputs'[m] = upto[m]
      BY <2>1, <1>7
    <3>2. upto[m] = IF m < n THEN outputs[m] ELSE o
      BY <2>1, <1>6
    <3>3. m < n \/ (m = n /\ ~(m < n))
      BY <2>1
    <3> QED
      BY <3>1, <3>2, <3>3
  <2>2. CASE m > n
    <3> DEFINE i == m - n
    <3>0. i \in 1..Len(back) /\ n + i - 1 = m - 1
      BY <2>2, <1>1, <1>2, <1>4
    <3>2. outputs'[m] = back[i]
      BY <2>2, <1>7
    <3> HIDE DEF i
    <3>1. outputs'[m] = outputs[m - 1]
      BY <1>2, <1>4, <3>0, <3>2
    <3> QED
      BY <2>2, <3>1
  <2>3. m <= n \/ m > n
    OBVIOUS
  <2> QED
    BY <2>1, <2>2, <2>3
<1> QED
  BY <1>1, <1>7, <1>8

\* A display that comes is the only new one.
LEMMA AppearAdds ==
  ASSUME outputs \in Seq(Outputs), NEW o \in Outputs, Appears(o)
  PROVE  /\ outputs' \in Seq(Outputs) /\ Len(outputs') = Len(outputs) + 1
         /\ Listed' \subseteq Listed \cup {o}
         /\ IsInjective(outputs) /\ o \notin Listed => IsInjective(outputs')
<1>1. PICK n \in 1..Len(outputs) + 1 :
           /\ outputs' \in Seq(Outputs) /\ Len(outputs') = Len(outputs) + 1
           /\ \A m \in 1..Len(outputs) + 1 :
                outputs'[m] = IF m = n THEN o ELSE outputs[IF m < n THEN m ELSE m - 1]
  BY AppearIs
<1> DEFINE from(m) == IF m < n THEN m ELSE m - 1
<1>2. /\ \A m \in 1..Len(outputs) + 1 : m # n => from(m) \in 1..Len(outputs)
      /\ \A m, l \in 1..Len(outputs) + 1 :
           m # n /\ l # n /\ from(m) = from(l) => m = l
  <2>1. Len(outputs) \in Nat /\ n \in Int
    BY <1>1
  <2> QED
    BY <2>1, <1>1
<1>3. DOMAIN outputs' = 1..Len(outputs) + 1 /\ DOMAIN outputs = 1..Len(outputs)
  BY <1>1
<1>4. \A m \in 1..Len(outputs) + 1 :
        outputs'[m] = IF m = n THEN o ELSE outputs[from(m)]
  BY <1>1
<1> HIDE DEF from
<1>5. \A m \in 1..Len(outputs) + 1 : m # n => outputs'[m] \in Listed
  BY <1>2, <1>3, <1>4 DEF Listed
<1>6. Listed' \subseteq Listed \cup {o}
  BY <1>3, <1>4, <1>5 DEF Listed
<1>7. ASSUME IsInjective(outputs), o \notin Listed
      PROVE  IsInjective(outputs')
  <2>1. ASSUME NEW m \in 1..Len(outputs) + 1, NEW l \in 1..Len(outputs) + 1,
               outputs'[m] = outputs'[l]
        PROVE  m = l
    <3>1. CASE m = n \/ l = n
      BY <1>4, <1>5, <1>7, <2>1, <3>1
    <3>2. CASE m # n /\ l # n
      <4>1. outputs[from(m)] = outputs[from(l)]
        BY <1>4, <2>1, <3>2
      <4>2. from(m) = from(l)
        BY <1>2, <1>3, <1>7, <3>2, <4>1 DEF IsInjective
      <4> QED
        BY <1>2, <3>2, <4>2
    <3> QED
      BY <3>1, <3>2
  <2> QED
    BY <1>3, <2>1 DEF IsInjective
<1> QED
  BY <1>1, <1>6, <1>7

\* What comes or goes behind a place leaves what is at the place.
LEMMA PlacesStay ==
  ASSUME outputs \in Seq(Outputs), NEW o \in Outputs, Appears(o) \/ Vanishes(o),
         UNCHANGED index, NEW g \in Helpers, index[g] \in Nat, Placed(g)
  PROVE  Placed(g)' /\ shifted \subseteq shifted'
<1>0. Len(outputs) \in Nat /\ DOMAIN outputs = 1..Len(outputs) /\ index' = index
  OBVIOUS
<1>1. CASE Appears(o)
  <2>1. PICK n \in 1..Len(outputs) + 1 :
           /\ ShiftedFrom(n)
           /\ outputs' \in Seq(Outputs) /\ Len(outputs') = Len(outputs) + 1
           /\ \A m \in 1..Len(outputs) + 1 :
                outputs'[m] = IF m = n THEN o ELSE outputs[IF m < n THEN m ELSE m - 1]
    BY <1>1, AppearIs
  <2>2. shifted' = shifted \cup {h \in Helpers : n <= index[h]}
    BY <2>1 DEF ShiftedFrom
  <2>3. ASSUME index[g] # 0, g \notin shifted'
        PROVE  index[g] \in DOMAIN outputs' /\ outputs'[index[g]] = g
    <3>1. index[g] \in 1..Len(outputs) /\ outputs[index[g]] = g /\ index[g] < n
      <4>1. g \notin shifted /\ ~(n <= index[g])
        BY <2>2, <2>3
      <4> QED
        BY <4>1, <2>1, <2>3, <1>0 DEF Placed
    <3>2. DOMAIN outputs' = 1..Len(outputs) + 1
      BY <2>1
    <3>3. index[g] \in 1..Len(outputs) + 1 /\ index[g] # n
      BY <3>1, <2>1, <1>0
    <3> QED
      BY <3>1, <3>2, <3>3, <2>1
  <2> QED
    BY <2>2, <2>3, <1>0 DEF Placed
<1>2. CASE Vanishes(o) /\ o \in Listed
  <2>1. PICK n \in 1..Len(outputs) :
           /\ outputs[n] = o /\ ShiftedFrom(n)
           /\ outputs' \in Seq(Outputs) /\ Len(outputs') = Len(outputs) - 1
           /\ \A m \in 1..Len(outputs) - 1 :
                outputs'[m] = outputs[IF m < n THEN m ELSE m + 1]
    BY <1>2, VanishIs
  <2>2. shifted' = shifted \cup {h \in Helpers : n <= index[h]}
    BY <2>1 DEF ShiftedFrom
  <2>3. ASSUME index[g] # 0, g \notin shifted'
        PROVE  index[g] \in DOMAIN outputs' /\ outputs'[index[g]] = g
    <3>1. index[g] \in 1..Len(outputs) /\ outputs[index[g]] = g /\ index[g] < n
      <4>1. g \notin shifted /\ ~(n <= index[g])
        BY <2>2, <2>3
      <4> QED
        BY <4>1, <2>1, <2>3, <1>0 DEF Placed
    <3>2. DOMAIN outputs' = 1..Len(outputs) - 1
      BY <2>1
    <3>3. index[g] \in 1..Len(outputs) - 1
      BY <3>1, <2>1, <1>0
    <3> QED
      BY <3>1, <3>2, <3>3, <2>1
  <2> QED
    BY <2>2, <2>3, <1>0 DEF Placed
<1>3. CASE Vanishes(o) /\ o \notin Listed
  BY <1>3 DEF Vanishes, Placed
<1> QED
  BY <1>1, <1>2, <1>3

\* A helper, the driver or a monitor: what has been printed stays as it is.
LEMMA HelperStep ==
  ASSUME HelpersInv,
         \/ \E h \in Helpers : HelperRuns(h)
         \/ Disturbance
  PROVE  /\ HelpersInv'
         /\ \A g \in Helpers : Printed(g) => Printed(g)' /\ (g \in shifted => g \in shifted')
<1> USE DEF HelpersInv, Goes, Printed
<1>1. ASSUME NEW h \in Helpers,
             \/ helper[h] \notin {"none", "over"} /\ helper' = [helper EXCEPT ![h] = "over"]
             \/ helper[h] = "reporting" /\ helper' = [helper EXCEPT ![h] = "serving"]
             \/ helper[h] = "serving" /\ helper' = [helper EXCEPT ![h] = "stopping"],
             UNCHANGED outputs,
             UNCHANGED <<index, shifted>> \/ (helper[h] = "reporting" /\ Forget(h))
      PROVE  /\ HelpersInv'
             /\ \A g \in Helpers : Printed(g) => Printed(g)' /\ (g \in shifted => g \in shifted')
  <2>1. Listed' = Listed
    BY <1>1 DEF Listed
  <2>2. CASE UNCHANGED <<index, shifted>>
    BY <1>1, <2>1, <2>2 DEF Placed
  <2>3. CASE helper[h] = "reporting" /\ Forget(h)
    BY <1>1, <2>1, <2>3 DEF Placed, Forget
  <2> QED
    BY <1>1, <2>2, <2>3
<1>2. ASSUME NEW o \in Outputs, UNCHANGED index,
             \/ Appears(o) /\ (o \in Helpers => helper'[o] \notin {"none", "adding"})
             \/ Vanishes(o),
             \/ UNCHANGED helper
             \/ o \in Helpers /\ helper[o] = "adding" /\ helper' = [helper EXCEPT ![o] = "finding"]
             \/ /\ o \in Helpers /\ helper[o] \in {"finding", "stopping"}
                /\ helper' = [helper EXCEPT ![o] = "over"]
      PROVE  /\ HelpersInv'
             /\ \A g \in Helpers : Printed(g) => Printed(g)' /\ (g \in shifted => g \in shifted')
  <2>1. /\ outputs' \in Seq(Outputs)
        /\ \/ Listed' \subseteq Listed
           \/ /\ Listed' \subseteq Listed \cup {o}
              /\ o \in Helpers => helper'[o] \notin {"none", "adding"}
    BY <1>2, AppearAdds, VanishShrinks
  <2>2. \A g \in Helpers : Placed(g)' /\ shifted \subseteq shifted'
    BY <1>2, PlacesStay
  <2>3. \A g \in Helpers :
          /\ helper'[g] \in {"none", "adding"} => helper'[g] = helper[g]
          /\ helper'[g] \in {"none", "adding", "finding"}
               => helper[g] \in {"none", "adding", "finding"}
          /\ helper'[g] = "reporting" => helper[g] = "reporting"
    BY <1>2
  <2>4. helper' \in [Helpers -> {"none", "adding", "finding", "reporting", "serving", "stopping", "over"}]
    BY <1>2
  <2>5. \A g \in Helpers : g \in Listed' => helper'[g] \notin {"none", "adding"}
    BY <1>2, <2>1, <2>3
  <2> QED
    BY <1>2, <2>1, <2>2, <2>3, <2>4, <2>5
<1>3. Helpers \subseteq Outputs /\ Monitors \subseteq Outputs /\ Monitors \cap Helpers = {}
  BY HelpersAssumption DEF Outputs
<1>4. ASSUME NEW h \in Helpers, AddFails(h) \/ StdinEnds(h) \/ Report(h) \/ HelperKilled(h)
      PROVE  /\ HelpersInv'
             /\ \A g \in Helpers : Printed(g) => Printed(g)' /\ (g \in shifted => g \in shifted')
  BY <1>1, <1>4 DEF AddFails, StdinEnds, Report, HelperKilled, Running
<1>5. ASSUME NEW h \in Helpers, AddDisplay(h)
      PROVE  /\ HelpersInv'
             /\ \A g \in Helpers : Printed(g) => Printed(g)' /\ (g \in shifted => g \in shifted')
  <2>1. /\ Appears(h) /\ UNCHANGED index /\ helper[h] = "adding"
        /\ helper' = [helper EXCEPT ![h] = "finding"]
    BY <1>5 DEF AddDisplay
  <2> QED
    BY <2>1, <1>2, <1>3
<1>6. ASSUME NEW h \in Helpers, IndexFails(h) \/ RemoveDisplay(h) \/ DriverDrops(h)
      PROVE  /\ HelpersInv'
             /\ \A g \in Helpers : Printed(g) => Printed(g)' /\ (g \in shifted => g \in shifted')
  <2>1. /\ Vanishes(h) /\ UNCHANGED index
        /\ \/ UNCHANGED helper
           \/ helper[h] \in {"finding", "stopping"} /\ helper' = [helper EXCEPT ![h] = "over"]
    BY <1>6 DEF IndexFails, RemoveDisplay, DriverDrops
  <2> QED
    BY <2>1, <1>2, <1>3
<1>7. ASSUME NEW m \in Monitors, MonitorOn(m) \/ MonitorOff(m)
      PROVE  /\ HelpersInv'
             /\ \A g \in Helpers : Printed(g) => Printed(g)' /\ (g \in shifted => g \in shifted')
  <2>1. (Appears(m) \/ Vanishes(m)) /\ UNCHANGED <<index, helper>>
    BY <1>7 DEF MonitorOn, MonitorOff
  <2>2. m \in Outputs /\ m \notin Helpers
    BY <1>3
  <2> QED
    BY <2>1, <2>2, <1>2
<1>8. ASSUME NEW h \in Helpers, FindIndex(h)
      PROVE  /\ HelpersInv'
             /\ \A g \in Helpers : Printed(g) => Printed(g)' /\ (g \in shifted => g \in shifted')
  <2>1. /\ helper[h] = "finding" /\ helper' = [helper EXCEPT ![h] = "reporting"]
        /\ UNCHANGED <<outputs, shifted>>
    BY <1>8 DEF FindIndex
  <2>2. PICK n \in DOMAIN outputs : outputs[n] = h /\ index' = [index EXCEPT ![h] = n]
    BY <1>8 DEF FindIndex
  <2>3. n \in Nat /\ Listed' = Listed
    BY <2>1 DEF Listed
  <2>4. \A g \in Helpers : Placed(g)'
    BY <2>1, <2>2 DEF Placed
  <2>5. \A g \in Helpers : Printed(g) => g # h
    BY <2>1
  <2> QED
    BY <2>1, <2>2, <2>3, <2>4, <2>5
<1> QED
  BY <1>4, <1>5, <1>6, <1>7, <1>8 DEF HelperRuns, Disturbance

LEMMA SessionInvInit == SessionInit => SessionInv
<1> QED
  BY HelpersAreNumbers DEF SessionInit, Init, HelperInit, SessionInv, HelpersInv, ScriptInv,
     CapturesItsDisplay, Listed, Placed

\* The steps of the script on the DLLs, of the script around them, of the helpers,
\* the driver and the monitors.
LEMMA SessionInvStep == SessionInv /\ [SessionNext]_sessionVars => SessionInv'
<1> SUFFICES ASSUME SessionInv, [SessionNext]_sessionVars PROVE SessionInv'
  OBVIOUS
<1>0. Helpers \subseteq Nat /\ 0 \notin Helpers /\ mine \in Helpers \cup {0}
  BY HelpersAreNumbers DEF SessionInv, ScriptInv
<1>1. CASE OpenOutput
  <2>1. UNCHANGED <<helperVars, mine, known, leaving>> /\ known
        /\ index[mine] \in DOMAIN outputs /\ captured' = outputs[index[mine]]
    BY <1>1 DEF OpenOutput
  <2>2. HelpersInv' /\ (Printed(mine) => Printed(mine)')
    BY <2>1 DEF SessionInv, HelpersInv, helperVars, Listed, Placed, Printed
  <2>3. mine \in Helpers /\ index[mine] # 0 /\ Placed(mine)
    BY <2>1, <1>0 DEF SessionInv, ScriptInv, HelpersInv, Printed
  <2>4. captured' = mine \/ mine \in shifted
    BY <2>1, <2>3 DEF Placed
  <2> QED
    BY <2>1, <2>2, <2>4 DEF SessionInv, ScriptInv, CapturesItsDisplay, helperVars
<1>2. CASE Ends
  <2>1. /\ helper' = helper /\ outputs' = outputs
        /\ mine' = 0 /\ known' = FALSE /\ leaving' = FALSE /\ captured' = 0
        /\ UNCHANGED <<index, shifted>> \/ (mine \in Helpers /\ Forget(mine))
    BY <1>2, <1>0 DEF Ends
  <2>2. Listed' = Listed
    BY <2>1 DEF Listed
  <2>3. HelpersInv'
    BY <2>1, <2>2, <1>0 DEF SessionInv, HelpersInv, Placed, Forget
  <2> QED
    BY <2>1, <2>3 DEF SessionInv, ScriptInv, CapturesItsDisplay
<1>3. CASE /\ UNCHANGED <<helper, outputs, index, shifted, mine, known, captured>>
           /\ leaving' => leaving \/ known
  <2>1. Listed' = Listed /\ HelpersInv' /\ (Printed(mine) => Printed(mine)')
    BY <1>3 DEF SessionInv, HelpersInv, Listed, Placed, Printed
  <2> QED
    BY <1>3, <2>1 DEF SessionInv, ScriptInv, CapturesItsDisplay
<1>4. CASE AddVirtualDisplay
  <2>1. PICK h \in Helpers : Spawn(h) /\ mine' = h
    BY <1>4 DEF AddVirtualDisplay
  <2>2. mine = 0 /\ UNCHANGED <<known, leaving, captured, outputs, index, shifted>>
        /\ helper[h] = "none" /\ helper' = [helper EXCEPT ![h] = "adding"]
    BY <1>4, <2>1 DEF AddVirtualDisplay, Spawn, Goes
  <2>3. Listed' = Listed
    BY <2>2 DEF Listed
  <2>4. HelpersInv'
    BY <2>2, <2>3 DEF SessionInv, HelpersInv, Placed
  <2> QED
    BY <2>1, <2>2, <2>4 DEF SessionInv, ScriptInv, CapturesItsDisplay
<1>5. CASE ReadReport
  <2>1. /\ UNCHANGED <<vars, helperVars, mine, leaving, captured>>
        /\ known' = TRUE /\ mine # 0 /\ Printed(mine)
    BY <1>5 DEF ReadReport
  <2>2. HelpersInv' /\ Printed(mine)'
    BY <2>1 DEF SessionInv, HelpersInv, helperVars, Listed, Placed, Printed
  <2> QED
    BY <2>1, <2>2 DEF SessionInv, ScriptInv, CapturesItsDisplay, helperVars
<1>6. CASE WriteRemove
  BY <1>6, <1>3 DEF WriteRemove, scriptVars
<1>7. ASSUME Disturbance \/ \E h \in Helpers : HelperRuns(h), UNCHANGED <<vars, scriptVars>>
      PROVE  SessionInv'
  <2>1. HelpersInv'
    BY <1>7, HelperStep DEF SessionInv
  <2>2. \A g \in Helpers : Printed(g) => Printed(g)' /\ (g \in shifted => g \in shifted')
    BY <1>7, HelperStep DEF SessionInv
  <2>3. mine' = mine /\ known' = known /\ leaving' = leaving /\ captured' = captured
    BY <1>7 DEF scriptVars
  <2>4. known => mine \in Helpers /\ Printed(mine)
    BY <1>0 DEF SessionInv, ScriptInv
  <2>5. ASSUME known
        PROVE  index'[mine] # 0 /\ helper'[mine] # "reporting"
               /\ (mine \in shifted => mine \in shifted')
    <3>1. PICK g \in Helpers : g = mine
      BY <2>4, <2>5
    <3>2. Printed(g)
      BY <2>4, <2>5, <3>1
    <3>3. Printed(g)' /\ (g \in shifted => g \in shifted')
      BY <2>2, <3>2
    <3> QED
      BY <3>1, <3>3 DEF Printed
  <2>6. known' => mine' # 0 /\ Printed(mine)'
    BY <2>3, <2>4, <2>5, <1>0 DEF Printed
  <2>7. CapturesItsDisplay'
    BY <2>3, <2>5 DEF SessionInv, ScriptInv, CapturesItsDisplay
  <2> QED
    BY <2>1, <2>3, <2>6, <2>7 DEF SessionInv, ScriptInv
<1>8. CASE LayoutStep
  <2>1. CASE RestoredThenRemove
    BY <2>1, <1>3 DEF RestoredThenRemove, helperVars
  <2>2. CASE UNCHANGED <<helperVars, scriptVars>>
    BY <2>2, <1>3 DEF helperVars, scriptVars
  <2> QED
    BY <1>8, <1>2, <2>1, <2>2 DEF LayoutStep, LaunchOnDisplay
<1>9. CASE UNCHANGED sessionVars
  BY <1>9, <1>3 DEF sessionVars, scriptVars, helperVars
<1>10. CASE KillHelper
  <2>1. mine \in Helpers /\ HelperKilled(mine) /\ UNCHANGED <<vars, scriptVars>>
    BY <1>10, <1>0 DEF KillHelper, SessionInv, ScriptInv
  <2> QED
    BY <2>1, <1>7 DEF Disturbance
<1> QED
  BY <1>1, <1>2, <1>4, <1>5, <1>6, <1>7, <1>8, <1>9, <1>10
     DEF SessionNext, Leave, HelperGone, LeavingCut

\* vdd-helper 74-100, record_until_ctrlc.py 97-121, 260-277, for any number of
\* helpers, sessions and monitors: the index that was looked up by name is the
\* one ffmpeg opens, and it leads to another display only if, since the lookup,
\* an output has come or gone at its place or in front of it.
THEOREM TheRightDisplay == SessionSpec => []CapturesItsDisplay
<1>1. SessionInv => CapturesItsDisplay
  BY DEF SessionInv, ScriptInv
<1> QED
  BY <1>1, SessionInvInit, SessionInvStep, PTL DEF SessionSpec

-----------------------------------------------------------------------------
(* The numbers of the outputs.                                             *)

\* No output is listed twice.
OutputsInv ==
  /\ IsInjective(outputs)
  /\ stdin \in [Helpers -> {"open", "remove", "closed"}]
  /\ index \in [Helpers -> 0..Cardinality(Outputs)]
  /\ shifted \subseteq Helpers
  /\ known \in BOOLEAN /\ leaving \in BOOLEAN
  /\ captured \in Outputs \cup {0}

LEMMA OutputsAreFinite == IsFiniteSet(Outputs) /\ Cardinality(Outputs) \in Nat
<1>1. IsFiniteSet(Helpers)
  BY HelpersAssumption, FS_Interval
<1>2. IsFiniteSet(Outputs)
  BY <1>1, HelpersAssumption, FS_Union DEF Outputs
<1> QED
  BY <1>2, FS_CardinalityType

\* As many places as outputs, and no more than there can be.
LEMMA OutputsAreCounted ==
  ASSUME outputs \in Seq(Outputs), IsInjective(outputs)
  PROVE  Len(outputs) = Cardinality(Listed) /\ Len(outputs) <= Cardinality(Outputs)
<1>1. Len(outputs) \in Nat /\ DOMAIN outputs = 1..Len(outputs)
  OBVIOUS
<1>2. Listed \subseteq Outputs
  BY DEF Listed
<1>3. outputs \in [1..Len(outputs) -> Listed]
  BY <1>1 DEF Listed
<1>4. outputs \in Bijection(1..Len(outputs), Listed)
  BY <1>1, <1>3 DEF Bijection, Injection, Surjection, Listed
<1>5. Cardinality(Listed) = Len(outputs)
  BY <1>1, <1>4, FS_CountingElements DEF ExistsBijection
<1>6. Cardinality(Listed) <= Cardinality(Outputs)
  BY <1>2, OutputsAreFinite, FS_Subset
<1> QED
  BY <1>5, <1>6

\* An output comes when it is not listed, and goes once.
LEMMA OutputsInvStep ==
  SessionInv /\ OutputsInv /\ [SessionNext]_sessionVars => OutputsInv'
<1> SUFFICES ASSUME SessionInv, OutputsInv, [SessionNext]_sessionVars PROVE OutputsInv'
  OBVIOUS
<1>0. outputs \in Seq(Outputs) /\ mine \in Helpers \cup {0} /\ 0 \in 0..Cardinality(Outputs)
  BY OutputsAreFinite DEF SessionInv, HelpersInv, ScriptInv
<1>1. CASE OpenOutput
  <2>1. UNCHANGED helperVars /\ known' = known /\ leaving' = leaving /\ captured' \in Outputs
    BY <1>0, <1>1 DEF OpenOutput
  <2> QED
    BY <2>1 DEF OutputsInv, helperVars
<1>2. CASE Ends
  BY <1>0, <1>2 DEF Ends, Forget, OutputsInv
<1>3. CASE UNCHANGED <<helperVars, captured>> /\ known' \in BOOLEAN /\ leaving' \in BOOLEAN
  BY <1>3 DEF OutputsInv, helperVars
<1>4. CASE AddVirtualDisplay
  <2>1. PICK h \in Helpers : Spawn(h)
    BY <1>4 DEF AddVirtualDisplay
  <2>2. UNCHANGED <<stdin, outputs, index, shifted>>
    BY <2>1 DEF Spawn
  <2>3. UNCHANGED <<known, leaving, captured>>
    BY <1>4 DEF AddVirtualDisplay
  <2> QED
    BY <2>2, <2>3 DEF OutputsInv
<1>5. CASE WriteRemove
  <2>1. /\ stdin' = [stdin EXCEPT ![mine] = "remove"]
        /\ UNCHANGED <<outputs, index, shifted, known, leaving, captured>>
    BY <1>5 DEF WriteRemove, scriptVars
  <2> QED
    BY <2>1 DEF OutputsInv
<1>6. ASSUME Disturbance \/ \E h \in Helpers : HelperRuns(h), UNCHANGED <<vars, scriptVars>>
      PROVE  OutputsInv'
  <2>1. UNCHANGED <<known, leaving, captured>>
    BY <1>6 DEF scriptVars
  <2>2. ASSUME NEW h \in Helpers,
               AddFails(h) \/ StdinEnds(h) \/ HelperKilled(h) \/ Report(h)
        PROVE  OutputsInv'
    <3>1. /\ UNCHANGED <<stdin, outputs>>
          /\ UNCHANGED <<index, shifted>> \/ Forget(h)
      BY <2>2 DEF AddFails, StdinEnds, HelperKilled, Report
    <3> QED
      BY <1>0, <2>1, <3>1 DEF OutputsInv, Forget
  <2>3. ASSUME NEW o \in Outputs, Vanishes(o) \/ (Appears(o) /\ o \notin Listed),
               UNCHANGED <<stdin, index>>
        PROVE  OutputsInv'
    <3>1. IsInjective(outputs')
      BY <1>0, <2>3, AppearAdds, VanishShrinks DEF OutputsInv
    <3>2. shifted' \subseteq Helpers
      BY <2>3 DEF Vanishes, Appears, ShiftedFrom, OutputsInv
    <3> QED
      BY <2>1, <2>3, <3>1, <3>2 DEF OutputsInv
  <2>4. ASSUME NEW h \in Helpers,
               AddDisplay(h) \/ IndexFails(h) \/ RemoveDisplay(h) \/ DriverDrops(h)
        PROVE  OutputsInv'
    <3>1. UNCHANGED <<stdin, index>>
      BY <2>4 DEF AddDisplay, IndexFails, RemoveDisplay, DriverDrops
    <3>2. Vanishes(h) \/ (Appears(h) /\ h \notin Listed)
      BY <2>4 DEF AddDisplay, IndexFails, RemoveDisplay, DriverDrops, Goes, SessionInv, HelpersInv
    <3> QED
      BY <2>3, <3>1, <3>2 DEF Outputs
  <2>5. ASSUME NEW m \in Monitors, MonitorOn(m) \/ MonitorOff(m)
        PROVE  OutputsInv'
    BY <2>3, <2>5 DEF MonitorOn, MonitorOff, Outputs
  <2>6. ASSUME NEW h \in Helpers, FindIndex(h) PROVE OutputsInv'
    <3>1. PICK n \in DOMAIN outputs : index' = [index EXCEPT ![h] = n]
      BY <2>6 DEF FindIndex
    <3>2. n \in 0..Cardinality(Outputs)
      <4>1. Len(outputs) <= Cardinality(Outputs) /\ Len(outputs) \in Nat
        BY <1>0, OutputsAreCounted DEF OutputsInv
      <4>2. DOMAIN outputs = 1..Len(outputs) /\ Cardinality(Outputs) \in Nat
        BY <1>0, OutputsAreFinite
      <4> QED
        BY <4>1, <4>2
    <3> QED
      BY <2>1, <2>6, <3>1, <3>2 DEF FindIndex, OutputsInv
  <2> QED
    BY <1>6, <2>2, <2>4, <2>5, <2>6 DEF HelperRuns, Disturbance
<1>7. CASE LayoutStep
  <2>1. CASE RestoredThenRemove
    BY <2>1, <1>3 DEF RestoredThenRemove, OutputsInv
  <2>2. CASE UNCHANGED <<helperVars, scriptVars>>
    BY <2>2, <1>3 DEF scriptVars, OutputsInv
  <2> QED
    BY <1>2, <1>7, <2>1, <2>2 DEF LayoutStep, LaunchOnDisplay
<1>8. CASE ReadReport \/ UNCHANGED sessionVars
  BY <1>8, <1>3 DEF ReadReport, sessionVars, scriptVars, OutputsInv
<1>9. CASE KillHelper
  <2>1. mine \in Helpers /\ HelperKilled(mine) /\ UNCHANGED <<vars, scriptVars>>
    BY <1>9, HelpersAreNumbers DEF KillHelper, SessionInv, ScriptInv
  <2> QED
    BY <2>1, <1>6 DEF Disturbance
<1> QED
  BY <1>1, <1>2, <1>4, <1>5, <1>6, <1>7, <1>8, <1>9
     DEF SessionNext, Leave, HelperGone, LeavingCut

\* vdd-helper 65-163: in whatever order helpers start, stop and die and outputs
\* come and go, no output is listed twice, and a number that is reported is one
\* there is room for.
THEOREM SessionTypeCorrect == SessionSpec => []SessionTypeOK
<1>1. SessionInit => SessionInv /\ OutputsInv
  <2>1. 0 \in 0..Cardinality(Outputs)
    BY OutputsAreFinite
  <2>3. IsInjective(<<>>)
    BY DEF IsInjective
  <2>4. SessionInit => OutputsInv
    BY <2>1, <2>3 DEF SessionInit, HelperInit, OutputsInv
  <2> QED
    BY <2>4, SessionInvInit
<1>2. SessionInv /\ OutputsInv /\ TypeOK => SessionTypeOK
  BY OutputsAreCounted
     DEF SessionInv, HelpersInv, ScriptInv, OutputsInv, SessionTypeOK, HelperTypeOK
<1>3. SessionSpec => []TypeOK
  <2>1. Inv => TypeOK
    BY DEF Inv
  <2> QED
    BY <2>1, SessionKeepsLayout, InvHolds, PTL
<1> QED
  BY <1>1, <1>2, <1>3, SessionInvStep, OutputsInvStep, PTL DEF SessionSpec
=============================================================================
