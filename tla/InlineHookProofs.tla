--------------------------- MODULE InlineHookProofs ---------------------------
(***************************************************************************)
(* One call of D3D11CreateDevice at a time, on any of any number of        *)
(* threads: the hook sees every device, and no thread dies in it.          *)
(***************************************************************************)
EXTENDS InlineHook, SequenceTheorems, FiniteSetTheorems, TLAPS

\* How far a call has got says what is in the shared bytes, how their page is
\* protected and what the thread has saved.
CallInv(t) ==
  /\ saved[t] = IF pc[t] \in {"out", "save", "shut2", "seen"} THEN <<>> ELSE <<"stub">>
  /\ ~Idle(t) =>
       /\ hook = "stored"
       /\ code = IF pc[t] \in {"shut1", "call", "open2", "write2"} THEN "genuine" ELSE "stub"
       /\ prot = IF pc[t] \in {"write1", "shut1", "write2", "shut2"} THEN "rwx" ELSE "rx"
       /\ prot = "rwx" => old[t] = "rx"

\* The calls so far have come one after the other, after the installation.
OneCall ==
  /\ ~crashed /\ missed = 0
  /\ \A t, u \in Threads : ~Idle(t) /\ ~Idle(u) => t = u
  /\ (\A t \in Threads : Idle(t)) => prot = "rx" /\ code = IF hook = "none" THEN "genuine" ELSE "stub"
  /\ \A t \in Threads : CallInv(t)

Shapes ==
  /\ pc \in [Threads -> Steps]
  /\ DOMAIN saved = Threads /\ DOMAIN old = Threads
  /\ hook \in {"none", "written", "stored"}

Inv == Shapes /\ (~raced => OneCall)

\* What call_through takes off is what it has put on.
LEMMA OneSaved ==
  /\ Append(<<>>, "stub") = <<"stub">>
  /\ Len(<<"stub">>) = 1 /\ <<"stub">>[1] = "stub"
  /\ SubSeq(<<"stub">>, 1, Len(<<"stub">>) - 1) = <<>>
<1>1. Append(<<>>, "stub") = <<"stub">>
  OBVIOUS
<1>2. Len(<<"stub">>) = 1 /\ <<"stub">>[1] = "stub"
  OBVIOUS
<1>3. SubSeq(<<"stub">>, 1, 0) = <<>>
  BY SubSeqEmpty
<1> QED
  BY <1>1, <1>2, <1>3

LEMMA InvInit == Init => Inv
<1> QED
  BY DEF Init, Inv, Shapes, OneCall, CallInv, Idle, Steps

\* A step inside the only call there is: thread t goes from one place in
\* call_through to the next.
LEMMA InsideStep ==
  ASSUME Inv, ~raced, NEW t \in Threads, NEW to \in Steps \ {"out"}, ~Idle(t),
         pc' = [pc EXCEPT ![t] = to], UNCHANGED <<hook, missed, raced, crashed>>,
         \A u \in Threads \ {t} : saved'[u] = saved[u],
         Shapes', CallInv(t)'
  PROVE  Inv'
<1>1. \A u \in Threads \ {t} : Idle(u) /\ saved[u] = <<>>
  BY DEF Inv, OneCall, CallInv, Idle
<1>2. \A u \in Threads \ {t} : pc'[u] = "out" /\ saved'[u] = <<>>
  BY <1>1 DEF Inv, Shapes, Idle
<1>3. pc'[t] = to /\ to # "out"
  BY DEF Inv, Shapes
<1>5. \A u \in Threads : CallInv(u)'
  BY <1>2 DEF CallInv, Idle
<1> QED
  BY <1>2, <1>3, <1>5 DEF Inv, OneCall, Idle

\* A call that does not overlap another moves its own thread only.
LEMMA InvStep == Inv /\ [Next]_vars => Inv'
<1> SUFFICES ASSUME Inv, [Next]_vars PROVE Inv'
  OBVIOUS
<1>1. Shapes'
  BY DEF Inv, Shapes, Next, vars, InstallBytes, InstallStore, Create, EnterGenuine, EnterHook,
         EnterTooEarly, CallThrough, Save, Unprotect, RestoreOriginal, Reprotect, CallGenuine,
         CallReenters, PutBack, WriteFaults, Observe, CreationFailed, Step, Steps, bytes
<1>2. raced => raced'
  BY DEF Next, vars, InstallBytes, InstallStore, Create, EnterGenuine, EnterHook,
         EnterTooEarly, CallThrough, Save, Unprotect, RestoreOriginal, Reprotect, CallGenuine,
         CallReenters, PutBack, WriteFaults, Observe, CreationFailed, Enter, tally
<1> SUFFICES ASSUME ~raced' PROVE OneCall'
  BY <1>1 DEF Inv
<1>3. ~raced /\ OneCall /\ Shapes
  BY <1>2 DEF Inv
<1>4. CASE InstallBytes
  <2>1. \A t \in Threads : Idle(t)
    BY <1>3, <1>4 DEF OneCall, CallInv, InstallBytes
  <2> QED
    BY <1>3, <1>4, <2>1 DEF OneCall, CallInv, InstallBytes, Idle, tally
<1>5. CASE InstallStore
  <2>1. \A t \in Threads : Idle(t)
    BY <1>3, <1>5 DEF OneCall, CallInv, InstallStore
  <2> QED
    BY <1>3, <1>5, <2>1 DEF OneCall, CallInv, InstallStore, Idle, tally
<1>6. ASSUME NEW t \in Threads, EnterGenuine(t) \/ EnterHook(t) \/ EnterTooEarly(t)
      PROVE  OneCall'
  <2>1. hook = "stored" /\ (\A u \in Threads : Idle(u))
    BY <1>6 DEF EnterGenuine, EnterHook, EnterTooEarly, Enter
  <2>2. code = "stub" /\ prot = "rx"
    BY <1>3, <2>1 DEF OneCall
  <2>3. EnterHook(t)
    BY <1>6, <2>1, <2>2 DEF EnterGenuine, EnterTooEarly
  <2>4. /\ pc' = [pc EXCEPT ![t] = "save"] /\ saved' = [saved EXCEPT ![t] = <<>>]
        /\ UNCHANGED <<code, prot, hook, old, missed, crashed>>
    BY <2>3 DEF EnterHook, Step, bytes
  <2>5. \A u \in Threads : pc[u] = "out" /\ saved[u] = <<>>
    BY <1>3, <2>1 DEF OneCall, CallInv, Idle
  <2>6. \A u \in Threads : saved'[u] = <<>> /\ pc'[u] = IF u = t THEN "save" ELSE "out"
    BY <1>3, <2>4, <2>5 DEF Shapes
  <2> QED
    BY <1>3, <2>1, <2>2, <2>4, <2>6 DEF OneCall, CallInv, Idle
<1>7. ASSUME NEW t \in Threads, CallThrough(t)
      PROVE  OneCall'
  <2>1. ~Idle(t)
    BY <1>7 DEF CallThrough, Save, Unprotect, RestoreOriginal, Reprotect, CallGenuine,
                CallReenters, PutBack, WriteFaults, Step, Idle
  <2>2. CallInv(t) /\ t \in DOMAIN pc /\ t \in DOMAIN saved /\ t \in DOMAIN old
    BY <1>3 DEF OneCall, Shapes
  <2> USE <1>3, <2>1, <2>2, OneSaved DEF CallInv, Idle, Step, bytes, tally
  <2> DEFINE Moved(to) ==
        /\ to \in Steps \ {"out"} /\ pc' = [pc EXCEPT ![t] = to]
        /\ UNCHANGED <<hook, missed, raced, crashed>>
        /\ \A u \in Threads \ {t} : saved'[u] = saved[u]
        /\ CallInv(t)'
  <2>3. CASE Save(t)
    <3> Moved("open1")
      BY <2>3 DEF Save, Shapes, Steps
    <3> QED
      BY <1>1, InsideStep DEF Inv
  <2>4. CASE Unprotect(t, "open1", "write1")
    <3> Moved("write1")
      BY <2>4 DEF Unprotect, Shapes, Steps
    <3> QED
      BY <1>1, InsideStep DEF Inv
  <2>5. CASE RestoreOriginal(t)
    <3> Moved("shut1")
      BY <2>5 DEF RestoreOriginal, Shapes, Steps
    <3> QED
      BY <1>1, InsideStep DEF Inv
  <2>6. CASE Reprotect(t, "shut1", "call")
    <3> Moved("call")
      BY <2>6 DEF Reprotect, Shapes, Steps
    <3> QED
      BY <1>1, InsideStep DEF Inv
  <2>7. CASE CallGenuine(t)
    <3> Moved("open2")
      BY <2>7 DEF CallGenuine, Shapes, Steps
    <3> QED
      BY <1>1, InsideStep DEF Inv
  <2>8. CASE CallReenters(t) \/ WriteFaults(t)
    BY <2>8 DEF CallReenters, WriteFaults
  <2>9. CASE Unprotect(t, "open2", "write2")
    <3> Moved("write2")
      BY <2>9 DEF Unprotect, Shapes, Steps
    <3> QED
      BY <1>1, InsideStep DEF Inv
  <2>10. CASE PutBack(t)
    <3> Moved("shut2")
      BY <2>10 DEF PutBack, Shapes, Steps
    <3> QED
      BY <1>1, InsideStep DEF Inv
  <2>11. CASE Reprotect(t, "shut2", "seen")
    <3> Moved("seen")
      BY <2>11 DEF Reprotect, Shapes, Steps
    <3> QED
      BY <1>1, InsideStep DEF Inv
  <2> QED
    BY <1>7, <2>3, <2>4, <2>5, <2>6, <2>7, <2>8, <2>9, <2>10, <2>11 DEF CallThrough
<1>8. ASSUME NEW t \in Threads, Observe(t) \/ CreationFailed(t)
      PROVE  OneCall'
  <2>1. /\ pc[t] = "seen" /\ saved[t] = <<>> /\ code = "stub" /\ prot = "rx" /\ hook = "stored"
        /\ \A u \in Threads \ {t} : pc[u] = "out" /\ saved[u] = <<>>
    BY <1>3, <1>8 DEF Observe, CreationFailed, Step, OneCall, CallInv, Idle
  <2>2. /\ pc' = [pc EXCEPT ![t] = "out"]
        /\ UNCHANGED <<code, prot, hook, saved, old, missed, crashed>>
    BY <1>8, <2>1 DEF Observe, CreationFailed, Step, bytes, tally
  <2>3. \A u \in Threads : pc'[u] = "out" /\ saved'[u] = <<>>
    BY <1>3, <2>1, <2>2 DEF Shapes
  <2> QED
    BY <1>3, <2>1, <2>2, <2>3 DEF OneCall, CallInv, Idle
<1>9. CASE UNCHANGED vars
  BY <1>3, <1>9 DEF vars, OneCall, CallInv, Idle
<1> QED
  BY <1>4, <1>5, <1>6, <1>7, <1>8, <1>9 DEF Next, Create

LEMMA InvHolds == Spec => []Inv
<1> QED
  BY InvInit, InvStep, PTL DEF Spec

\* vtable.rs 108-112, d3d11_device.rs 83-87: on any number of threads, however
\* many devices are created one after the other, no thread dies in the hook and
\* no call through ORIGINAL comes back to it.
THEOREM HookIsSafe == Spec => []NeverCrashes
<1>1. Inv => NeverCrashes
  <2> SUFFICES ASSUME Inv, ~raced
               PROVE  ~crashed /\ \A t \in Threads : Len(saved[t]) <= 1
    BY DEF NeverCrashes
  <2>1. ~crashed /\ \A t \in Threads : saved[t] = <<>> \/ saved[t] = <<"stub">>
    BY DEF Inv, OneCall, CallInv
  <2>2. Len(<<>>) = 0 /\ Len(<<"stub">>) = 1
    BY OneSaved
  <2>3. ASSUME NEW t \in Threads
        PROVE  Len(saved[t]) <= 1
    <3>1. CASE saved[t] = <<>>
      <4>1. Len(saved[t]) = 0
        BY <2>2, <3>1
      <4> QED
        BY <4>1
    <3>2. CASE saved[t] = <<"stub">>
      <4>1. Len(saved[t]) = 1
        BY <2>2, <3>2
      <4> QED
        BY <4>1
    <3> QED
      BY <2>1, <3>1, <3>2
  <2> QED
    BY <2>1, <2>3
<1> QED
  BY <1>1, InvHolds, PTL

\* d3d11_device.rs 33-35: and the hook sees every one of them.
THEOREM HookSeesAll == Spec => []EveryDeviceObserved
<1>1. Inv => EveryDeviceObserved
  BY DEF Inv, OneCall, EveryDeviceObserved
<1> QED
  BY <1>1, InvHolds, PTL

-----------------------------------------------------------------------------
(* However many calls overlap.                                             *)

\* A call that has saved the bytes has them until it puts them back, a call
\* inside another too; each device has room kept for it from the start.
Saved(t) ==
  pc[t] \in {"open1", "write1", "shut1", "call", "open2", "write2"} => saved[t] # <<>>

Counted ==
  /\ IsFiniteSet(Pending) /\ observed \in Nat /\ missed \in Nat /\ failed \in Nat
  /\ observed + missed + failed + Cardinality(Pending) <= MaxCalls

Scalars ==
  /\ code \in {"genuine", "stub"} /\ prot \in {"rx", "rwx"}
  /\ hook \in {"none", "written", "stored"}
  /\ pc \in [Threads -> Steps]
  /\ saved \in [Threads -> Seq({"genuine", "stub"})]
  /\ old \in [Threads -> {"rx", "rwx"}]
  /\ raced \in BOOLEAN /\ crashed \in BOOLEAN

TypeInv == Scalars /\ Counted /\ \A t \in Threads : Saved(t)

LEMMA TypeInit == Init => TypeInv
<1>. SUFFICES ASSUME Init PROVE TypeInv
  OBVIOUS
<1>1. Pending = {}
  BY DEF Init, Pending, Idle
<1>2. IsFiniteSet(Pending) /\ Cardinality(Pending) = 0
  BY <1>1, FS_EmptySet
<1>3. <<>> \in Seq({"genuine", "stub"})
  OBVIOUS
<1>4. Scalars
  BY <1>3 DEF Init, Scalars, Steps
<1>. QED BY <1>2, <1>4, InlineAssumption DEF Init, TypeInv, Counted, Saved

\* The bytes a call takes out and puts back.
LEMMA SavedBytes ==
  ASSUME NEW q \in Seq({"genuine", "stub"}), NEW b \in {"genuine", "stub"}
  PROVE  /\ Append(q, b) \in Seq({"genuine", "stub"}) /\ Append(q, b) # <<>>
         /\ q # <<>> => /\ q[Len(q)] \in {"genuine", "stub"}
                        /\ SubSeq(q, 1, Len(q) - 1) \in Seq({"genuine", "stub"})
<1>1. Append(q, b) \in Seq({"genuine", "stub"}) /\ Append(q, b) # <<>>
  BY AppendProperties
<1>2. ASSUME q # <<>>
      PROVE  /\ q[Len(q)] \in {"genuine", "stub"}
             /\ SubSeq(q, 1, Len(q) - 1) \in Seq({"genuine", "stub"})
  <2>1. Len(q) \in Nat /\ Len(q) > 0
    BY <1>2, EmptySeq
  <2>2. \A i \in 1..Len(q) : q[i] \in {"genuine", "stub"}
    BY ElementOfSeq
  <2>3. Len(q) \in 1..Len(q) /\ \A i \in 1 .. Len(q) - 1 : i \in 1..Len(q)
    BY <2>1
  <2>4. 1 \in Int /\ Len(q) - 1 \in Int
    BY <2>1
  <2>. QED BY <2>2, <2>3, <2>4, SubSeqProperties
<1>. QED BY <1>1, <1>2

\* Bytes, protection and program counters, step by step.
LEMMA ScalarsStep ==
  ASSUME Scalars, \A t \in Threads : Saved(t), [Next]_vars
  PROVE  Scalars' /\ \A t \in Threads : Saved(t)'
<1>. USE DEF Scalars, bytes, tally
<1>1. CASE UNCHANGED vars
  BY <1>1 DEF vars, Saved
<1>2. CASE InstallBytes \/ InstallStore
  BY <1>2 DEF InstallBytes, InstallStore, Saved
<1>3. ASSUME NEW t \in Threads, Create(t)
      PROVE  Scalars' /\ \A u \in Threads : Saved(u)'
  <2>1. CASE EnterGenuine(t) \/ EnterTooEarly(t) \/ WriteFaults(t)
    BY <2>1 DEF EnterGenuine, EnterTooEarly, WriteFaults, Enter, Saved
  <2>2. CASE EnterHook(t)
    <3>1. <<>> \in Seq({"genuine", "stub"})
      OBVIOUS
    <3>. QED BY <2>2, <3>1 DEF EnterHook, Step, Enter, Steps, Saved
  <2>3. CASE Save(t)
    <3>1. Append(saved[t], code) \in Seq({"genuine", "stub"}) /\ Append(saved[t], code) # <<>>
      BY SavedBytes
    <3>2. /\ saved' = [saved EXCEPT ![t] = Append(saved[t], code)]
          /\ pc' = [pc EXCEPT ![t] = "open1"]
          /\ UNCHANGED <<code, prot, hook, old, raced, crashed>>
      BY <2>3 DEF Save, Step
    <3>. QED BY <3>1, <3>2 DEF Steps, Saved
  <2>4. CASE Unprotect(t, "open1", "write1") \/ Unprotect(t, "open2", "write2")
             \/ Reprotect(t, "shut1", "call") \/ Reprotect(t, "shut2", "seen")
             \/ RestoreOriginal(t) \/ CallGenuine(t) \/ CallReenters(t)
    <3>1. Scalars'
      BY <2>4 DEF Unprotect, Reprotect, RestoreOriginal, CallGenuine, CallReenters, Step, Steps
    <3>2. \A u \in Threads : Saved(u)'
      BY <2>4 DEF Unprotect, Reprotect, RestoreOriginal, CallGenuine, CallReenters, Step, Saved
    <3>. QED BY <3>1, <3>2
  <2>5. CASE PutBack(t)
    <3>1. saved[t] # <<>>
      BY <2>5 DEF PutBack, Step, Saved
    <3>2. /\ saved[t][Len(saved[t])] \in {"genuine", "stub"}
          /\ SubSeq(saved[t], 1, Len(saved[t]) - 1) \in Seq({"genuine", "stub"})
      BY <3>1, SavedBytes
    <3>3. /\ code' = saved[t][Len(saved[t])]
          /\ saved' = [saved EXCEPT ![t] = SubSeq(saved[t], 1, Len(saved[t]) - 1)]
          /\ pc' = [pc EXCEPT ![t] = "shut2"]
          /\ UNCHANGED <<prot, hook, old, raced, crashed>>
      BY <2>5 DEF PutBack, Step
    <3>. QED BY <3>2, <3>3 DEF Steps, Saved
  <2>6. CASE Observe(t) \/ CreationFailed(t)
    <3>1. /\ pc' = [pc EXCEPT ![t] = IF saved[t] = <<>> THEN "out" ELSE "open2"]
          /\ UNCHANGED <<code, prot, hook, saved, old, raced, crashed>>
      BY <2>6 DEF Observe, CreationFailed, Step
    <3>. QED BY <3>1 DEF Steps, Saved
  <2>. QED BY <1>3, <2>1, <2>2, <2>3, <2>4, <2>5, <2>6 DEF Create, CallThrough
<1>. QED BY <1>1, <1>2, <1>3 DEF Next

\* A device is pending, observed or missed, and moves between them once.
LEMMA CountedStep ==
  ASSUME Scalars, Counted, [Next]_vars
  PROVE  Counted'
<1>. DEFINE n == Cardinality(Pending)
<1>1. n \in Nat /\ MaxCalls \in Nat
  BY FS_CardinalityType, InlineAssumption DEF Counted
<1>2. ASSUME UNCHANGED <<observed, missed, failed>>, Pending' = Pending PROVE Counted'
  BY <1>2 DEF Counted
<1>3. CASE UNCHANGED vars \/ InstallBytes \/ InstallStore
  BY <1>2, <1>3 DEF vars, InstallBytes, InstallStore, tally, Pending, Idle
<1>4. ASSUME NEW t \in Threads, Create(t)
      PROVE  Counted'
  <2>1. CASE EnterGenuine(t)
    <3>1. /\ observed + missed + failed + n < MaxCalls /\ UNCHANGED <<pc, observed>>
          /\ \/ UNCHANGED <<missed, failed>>
             \/ missed' = missed + 1 /\ UNCHANGED failed
             \/ failed' = failed + 1 /\ UNCHANGED missed
      BY <2>1 DEF EnterGenuine, Room
    <3>2. Pending' = Pending
      BY <3>1 DEF Pending, Idle
    <3>. QED BY <3>1, <3>2, <1>1 DEF Counted
  <2>2. CASE EnterHook(t)
    <3>1. /\ observed + missed + failed + n < MaxCalls /\ UNCHANGED <<observed, missed, failed>>
          /\ pc[t] = "out" /\ pc' = [pc EXCEPT ![t] = "save"]
      BY <2>2 DEF EnterHook, Room, Step
    <3>2. Pending' = Pending \cup {t} /\ t \notin Pending
      BY <3>1 DEF Pending, Idle, Scalars
    <3>3. IsFiniteSet(Pending') /\ Cardinality(Pending') = n + 1
      BY <3>2, FS_AddElement DEF Counted
    <3>. QED BY <3>1, <3>3, <1>1 DEF Counted
  <2>3. CASE Observe(t) \/ CreationFailed(t)
    <3>1. CASE saved[t] = <<>>
      <4>1. /\ UNCHANGED missed
            /\ \/ observed' = observed + 1 /\ UNCHANGED failed
               \/ failed' = failed + 1 /\ UNCHANGED observed
            /\ pc[t] = "seen" /\ pc' = [pc EXCEPT ![t] = "out"]
        BY <2>3, <3>1 DEF Observe, CreationFailed, Step
      <4>2. Pending' = Pending \ {t} /\ t \in Pending
        BY <4>1 DEF Pending, Idle, Scalars
      <4>3. IsFiniteSet(Pending') /\ Cardinality(Pending') = n - 1
        BY <4>2, FS_RemoveElement DEF Counted
      <4>. QED BY <4>1, <4>3, <1>1 DEF Counted
    <3>2. CASE saved[t] # <<>>
      <4>1. /\ UNCHANGED <<observed, missed, failed>>
            /\ pc[t] = "seen" /\ pc' = [pc EXCEPT ![t] = "open2"]
        BY <2>3, <3>2 DEF Observe, CreationFailed, Step
      <4>2. Pending' = Pending
        BY <4>1 DEF Pending, Idle, Scalars
      <4>. QED BY <4>1, <4>2, <1>2
    <3>. QED BY <3>1, <3>2
  <2>4. CASE EnterTooEarly(t) \/ CallThrough(t)
    <3>1. UNCHANGED <<observed, missed, failed>>
      BY <2>4 DEF EnterTooEarly, CallThrough, Save, Unprotect, Reprotect, RestoreOriginal,
                  CallGenuine, CallReenters, PutBack, WriteFaults, tally
    <3>2. UNCHANGED pc \/ (pc[t] # "out" /\ \E to \in Steps \ {"out"} : pc' = [pc EXCEPT ![t] = to])
      BY <2>4 DEF EnterTooEarly, CallThrough, Save, Unprotect, Reprotect, RestoreOriginal,
                  CallGenuine, CallReenters, PutBack, WriteFaults, Step, Steps
    <3>3. Pending' = Pending
      BY <3>2 DEF Pending, Idle, Scalars
    <3>. QED BY <3>1, <3>3, <1>2
  <2>. QED BY <1>4, <2>1, <2>2, <2>3, <2>4 DEF Create
<1>. QED BY <1>3, <1>4 DEF Next

\* The types, for calls that overlap and re-enter the hook too: what a call puts
\* back is what a call has saved, and no device is counted that has no call.
THEOREM TypeCorrect == Spec => []TypeOK
<1>1. TypeInv /\ [Next]_vars => TypeInv'
  BY ScalarsStep, CountedStep DEF TypeInv
<1>2. TypeInv => TypeOK
  <2>. SUFFICES ASSUME TypeInv PROVE TypeOK
    OBVIOUS
  <2>1. Cardinality(Pending) \in Nat
    BY FS_CardinalityType DEF TypeInv, Counted
  <2>2. observed \in 0..MaxCalls /\ missed \in 0..MaxCalls /\ failed \in 0..MaxCalls
    BY <2>1, InlineAssumption DEF TypeInv, Counted
  <2>. QED BY <2>2 DEF TypeInv, Scalars, TypeOK
<1>. QED BY TypeInit, <1>1, <1>2, PTL DEF Spec
=============================================================================
