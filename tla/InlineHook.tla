----------------------------- MODULE InlineHook -----------------------------
(***************************************************************************)
(* The inline hook on d3d11.dll!D3D11CreateDevice: installed once from     *)
(* DllMain, and taken out and put back around each call that passes        *)
(* through it, on whatever thread the host calls.  The function's first 12 *)
(* bytes and the protection of their page are shared by all threads.       *)
(***************************************************************************)
EXTENDS Naturals, Sequences, FiniteSets

CONSTANTS
  Threads,     \* the host's threads
  MaxCalls     \* bound: calls once the hook is installed

ASSUME InlineAssumption == MaxCalls \in Nat

VARIABLES
  code,     \* the first bytes of D3D11CreateDevice: genuine or stub (the jmp)
  prot,     \* protection of the page they are on
  hook,     \* HOOK: installed nothing, the bytes only, or HOOK is stored
  pc,       \* where each thread is
  saved,    \* per thread, call_through's saved, one per nested call
  old,      \* per thread, the protection VirtualProtect returned
  observed, \* devices whose creation the hook saw
  missed,   \* devices created without the hook once it was installed
  failed,   \* calls since then that created none
  raced,    \* a call came while another was in progress, or before HOOK was stored
  crashed   \* access violation, or a panic in an extern "system" function

vars == <<code, prot, hook, pc, saved, old, observed, missed, failed, raced, crashed>>
bytes == <<code, prot, hook>>
tally == <<observed, missed, failed, raced>>

Steps == {"out", "save", "open1", "write1", "shut1", "call", "open2", "write2", "shut2", "seen"}
Idle(t) == pc[t] = "out"

TypeOK ==
  /\ code \in {"genuine", "stub"} /\ prot \in {"rx", "rwx"}
  /\ hook \in {"none", "written", "stored"}
  /\ pc \in [Threads -> Steps]
  /\ saved \in [Threads -> Seq({"genuine", "stub"})]
  /\ old \in [Threads -> {"rx", "rwx"}]
  /\ observed \in 0..MaxCalls /\ missed \in 0..MaxCalls /\ failed \in 0..MaxCalls
  /\ raced \in BOOLEAN /\ crashed \in BOOLEAN

Init ==
  /\ code = "genuine" /\ prot = "rx" /\ hook = "none"
  /\ pc = [t \in Threads |-> "out"]
  /\ saved = [t \in Threads |-> <<>>]
  /\ old = [t \in Threads |-> "rx"]
  /\ observed = 0 /\ missed = 0 /\ failed = 0 /\ raced = FALSE /\ crashed = FALSE

-----------------------------------------------------------------------------
(* install(), from DllMain under INSTALL_LOCK.                             *)

InstallBytes ==
  /\ hook = "none"
  /\ code' = "stub" /\ hook' = "written"
  /\ UNCHANGED <<prot, pc, saved, old, tally, crashed>>

InstallStore ==
  /\ hook = "written"
  /\ hook' = "stored"
  /\ UNCHANGED <<code, prot, pc, saved, old, tally, crashed>>

-----------------------------------------------------------------------------
Step(t, from, to) == ~crashed /\ pc[t] = from /\ pc' = [pc EXCEPT ![t] = to]

Enter == raced' = (raced \/ hook # "stored" \/ \E u \in Threads : ~Idle(u))

Pending == {t \in Threads : ~Idle(t)}
Room == observed + missed + failed + Cardinality(Pending) < MaxCalls

\* A call lands on the genuine code: the hook does not see the device it
\* creates, if it does not fail.
EnterGenuine(t) ==
  /\ ~crashed /\ Idle(t) /\ Enter /\ Room
  /\ code = "genuine"
  /\ \/ hook # "stored" /\ UNCHANGED <<missed, failed>>
     \/ hook = "stored" /\ missed' = missed + 1 /\ UNCHANGED failed
     \/ hook = "stored" /\ failed' = failed + 1 /\ UNCHANGED missed
  /\ UNCHANGED <<bytes, pc, saved, old, observed, crashed>>

\* A call lands on the stub and jumps to hooked_d3d11_create_device.
EnterHook(t) ==
  /\ Step(t, "out", "save") /\ Enter /\ Room
  /\ code = "stub" /\ hook = "stored"
  /\ saved' = [saved EXCEPT ![t] = <<>>]
  /\ UNCHANGED <<bytes, old, observed, missed, failed, crashed>>

\* HOOK.get().expect: the stub is in place and HOOK is not.
EnterTooEarly(t) ==
  /\ ~crashed /\ Idle(t) /\ Enter
  /\ code = "stub" /\ hook = "written"
  /\ crashed' = TRUE
  /\ UNCHANGED <<bytes, pc, saved, old, observed, missed, failed>>

-----------------------------------------------------------------------------
(* call_through.                                                           *)

Save(t) ==
  /\ Step(t, "save", "open1")
  /\ saved' = [saved EXCEPT ![t] = Append(@, code)]
  /\ UNCHANGED <<bytes, old, tally, crashed>>

\* VirtualProtect to PAGE_EXECUTE_READWRITE returns what was there.
Unprotect(t, from, to) ==
  /\ Step(t, from, to)
  /\ old' = [old EXCEPT ![t] = prot]
  /\ prot' = "rwx"
  /\ UNCHANGED <<code, hook, saved, tally, crashed>>

Reprotect(t, from, to) ==
  /\ Step(t, from, to)
  /\ prot' = old[t]
  /\ UNCHANGED <<code, hook, saved, old, tally, crashed>>

\* Another thread put the protection back in between.
WriteFaults(t) ==
  /\ ~crashed /\ pc[t] \in {"write1", "write2"} /\ prot = "rx"
  /\ crashed' = TRUE
  /\ UNCHANGED <<bytes, pc, saved, old, tally>>

\* The stub left in place during the call.
MutantLeavesStub(t) ==
  /\ Step(t, "write1", "shut1") /\ prot = "rwx"
  /\ UNCHANGED <<bytes, saved, old, tally, crashed>>

RestoreOriginal(t) ==
  /\ Step(t, "write1", "shut1") /\ prot = "rwx"
  /\ code' = "genuine"
  /\ UNCHANGED <<prot, hook, saved, old, tally, crashed>>

\* f(): the call through ORIGINAL's address reaches the genuine code...
CallGenuine(t) ==
  /\ Step(t, "call", "open2")
  /\ code = "genuine"
  /\ UNCHANGED <<bytes, saved, old, tally, crashed>>

\* ... or the stub another thread has put back, and so the hook again.
CallReenters(t) ==
  /\ Step(t, "call", "save")
  /\ code = "stub"
  /\ UNCHANGED <<bytes, saved, old, tally, crashed>>

\* The bytes left as they are when the call fails or succeeds.
MutantLeavesGenuine(t) ==
  /\ Step(t, "write2", "shut2") /\ prot = "rwx"
  /\ saved' = [saved EXCEPT ![t] = SubSeq(@, 1, Len(@) - 1)]
  /\ UNCHANGED <<bytes, old, tally, crashed>>

PutBack(t) ==
  /\ Step(t, "write2", "shut2") /\ prot = "rwx"
  /\ code' = saved[t][Len(saved[t])]
  /\ saved' = [saved EXCEPT ![t] = SubSeq(@, 1, Len(@) - 1)]
  /\ UNCHANGED <<prot, hook, old, tally, crashed>>

\* A nested call taken for a device of its own.
MutantCountsNested(t) ==
  /\ Step(t, "seen", IF saved[t] = <<>> THEN "out" ELSE "open2")
  /\ observed' = observed + 1
  /\ UNCHANGED <<bytes, saved, old, missed, failed, raced, crashed>>

\* A failing HRESULT: there is no device to hook.
CreationFailed(t) ==
  /\ Step(t, "seen", IF saved[t] = <<>> THEN "out" ELSE "open2")
  /\ failed' = IF saved[t] = <<>> THEN failed + 1 ELSE failed
  /\ UNCHANGED <<bytes, saved, old, observed, missed, raced, crashed>>

\* install_device_hooks on the new device; an outer call then finishes its
\* own call_through.
Observe(t) ==
  /\ Step(t, "seen", IF saved[t] = <<>> THEN "out" ELSE "open2")
  /\ observed' = IF saved[t] = <<>> THEN observed + 1 ELSE observed
  /\ UNCHANGED <<bytes, saved, old, missed, failed, raced, crashed>>

-----------------------------------------------------------------------------
CallThrough(t) ==
  \/ Save(t)
  \/ Unprotect(t, "open1", "write1") \/ RestoreOriginal(t) \/ Reprotect(t, "shut1", "call")
  \/ CallGenuine(t) \/ CallReenters(t)
  \/ Unprotect(t, "open2", "write2") \/ PutBack(t) \/ Reprotect(t, "shut2", "seen")
  \/ WriteFaults(t)

Create(t) == EnterGenuine(t) \/ EnterHook(t) \/ EnterTooEarly(t) \/ CallThrough(t) \/ Observe(t)
             \/ CreationFailed(t)

Next == InstallBytes \/ InstallStore \/ \E t \in Threads : Create(t)

Spec == Init /\ [][Next]_vars
-----------------------------------------------------------------------------
(* Properties.                                                             *)

\* d3d11_device.rs 33-35, vtable.rs 108-112: with one call at a time the hook
\* observes every device the host creates, however many calls went through it
\* before, and between calls the page is protected as the loader left it.
EveryDeviceObserved ==
  ~raced => missed = 0 /\ ((\A t \in Threads : Idle(t)) => prot = "rx")

\* With one call at a time no thread dies of a write to a protected page or of
\* a missing HOOK (vtable.rs 108-112), and the call through ORIGINAL's address
\* does not land back in the hook (d3d11_device.rs 83-87).
NeverCrashes == ~raced => ~crashed /\ \A t \in Threads : Len(saved[t]) <= 1
=============================================================================
