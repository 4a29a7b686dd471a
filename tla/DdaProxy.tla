------------------------------ MODULE DdaProxy ------------------------------
(***************************************************************************)
(* dda-hook-core at run time: the DuplicationProxy a capture client holds  *)
(* in place of the real IDXGIOutputDuplication, the hooked calls that      *)
(* create it, and the recovery each AcquireNextFrame runs inline.  Each    *)
(* step of a call between two accesses to shared state is one action.      *)
(***************************************************************************)
EXTENDS Dxgi

CONSTANTS
  OpenThread, PollThread,  \* [Captures -> Threads]: duplicates from / polls from
  Target,      \* [Captures -> Outputs]: the output the client captures
  Dev,         \* [Captures -> Devices]: the device it captures with
  Enumerated,  \* [Captures -> SUBSET Outputs]: the outputs it enumerates
  Api,         \* [Captures -> {"V1", "V5"}]: DuplicateOutput or DuplicateOutput1
  HasOutput5,  \* whether this Windows implements IDXGIOutput5
  HoldAcross   \* whether clients may poll again while they hold a frame

ASSUME ProxyAssumption ==
  /\ OpenThread \in [Captures -> Threads] /\ PollThread \in [Captures -> Threads]
  /\ Target \in [Captures -> Outputs] /\ Dev \in [Captures -> Devices]
  /\ Enumerated \in [Captures -> SUBSET Outputs]
  /\ Api \in [Captures -> {"V1", "V5"}]
  /\ HasOutput5 \in BOOLEAN /\ HoldAcross \in BOOLEAN
  /\ \A c \in Captures : Api[c] = "V5" => HasOutput5

VARIABLES
  attached,    \* ATTACHED_THIS_THREAD
  lastSource,  \* the device in LAST_DUPLICATION_SOURCE
  lastIndex,   \* LAST_OUTPUT_INDEX
  dupLock,     \* holder of DUPLICATE_OUTPUT_LOCK
  wrapped,     \* the duplicate calls whose ORIGINAL_* is stored
  aborted,     \* a panic left an extern "system" function
  pc,          \* where each capture's current call stands
  retry,       \* the recovery under way began with real = None
  rdev, ridx,  \* its locals device and output_idx
  fresh,       \* its local Rebuilt.duplication
  real, owner, \* DuplicationProxy.real and .locked_frame_owner
  hostOut,     \* the output object the client has: none, output or typed
  held,        \* the client holds a frame it has not released
  ret          \* what the last finished call returned to the client

statics == <<attached, lastSource, lastIndex, dupLock, wrapped, aborted>>
locals  == <<retry, rdev, ridx, fresh>>
proxy   == <<real, owner>>
host    == <<hostOut, held, ret>>
vars == <<envVars, inst, tdesk, statics, pc, locals, proxy, host>>

Recovering == {"attach", "source", "index", "lock", "adapter", "enum", "dup", "store"}
Critical == {"open_call", "adapter", "enum", "dup"}
PCs == {"closed", "open_lock", "open_call", "idle", "acquire"} \cup Recovering
Ops == {"none", "duplicate", "acquire", "pointer", "release"}

TypeOK ==
  /\ DxgiTypeOK
  /\ attached \in [Threads -> BOOLEAN]
  /\ lastSource \in Devices \cup {NoDev} /\ lastIndex \in Outputs
  /\ dupLock \in Captures \cup {NoCap}
  /\ wrapped \subseteq {"V1", "V5"} /\ aborted \in BOOLEAN
  /\ pc \in [Captures -> PCs]
  /\ retry \in [Captures -> BOOLEAN]
  /\ rdev \in [Captures -> Devices \cup {NoDev}]
  /\ ridx \in [Captures -> Outputs \cup {NoOut}]
  /\ fresh \in [Captures -> Instances \cup {NoInst}]
  /\ real \in [Captures -> Instances \cup {NoInst}]
  /\ owner \in [Captures -> Instances \cup {NoInst}]
  /\ hostOut \in [Captures -> {"none", "output", "typed"}]
  /\ held \in [Captures -> BOOLEAN]
  /\ ret \in [Captures -> [op : Ops, hr : HResults]]

Init ==
  /\ DxgiInit
  /\ attached = [t \in Threads |-> FALSE]
  /\ lastSource = NoDev /\ lastIndex = Output0
  /\ dupLock = NoCap /\ wrapped = {} /\ aborted = FALSE
  /\ pc = [c \in Captures |-> "closed"]
  /\ retry = [c \in Captures |-> FALSE]
  /\ rdev = [c \in Captures |-> NoDev]
  /\ ridx = [c \in Captures |-> NoOut]
  /\ fresh = [c \in Captures |-> NoInst]
  /\ real = [c \in Captures |-> NoInst]
  /\ owner = [c \in Captures |-> NoInst]
  /\ hostOut = [c \in Captures |-> "none"]
  /\ held = [c \in Captures |-> FALSE]
  /\ ret = [c \in Captures |-> [op |-> "none", hr |-> "ok"]]

-----------------------------------------------------------------------------
(* Shared pieces of the actions.                                           *)

\* COM reference counts: an object lives while a proxy field or the local of
\* a recovery refers to it.
Referenced == {i \in Instances : \E c \in Captures : i \in {real[c], owner[c], fresh[c]}}
Collect(f) == inst' = [i \in Instances |-> IF i \in Referenced' THEN f[i] ELSE Free]

NewInst(st, o, d) == [st |-> st, out |-> o, dev |-> d, frame |-> FALSE]

At(c, where) == ~aborted /\ pc[c] = where
Goto(c, from, to) == At(c, from) /\ pc' = [pc EXCEPT ![c] = to]
Returns(c, op, hr) == ret' = [ret EXCEPT ![c] = [op |-> op, hr |-> hr]]
AcquireLock(c) == dupLock = NoCap /\ dupLock' = c

CallThread(c) == IF pc[c] \in {"open_lock", "open_call"} THEN OpenThread[c] ELSE PollThread[c]
ThreadIdle(t) == \A c \in Captures : pc[c] \in {"closed", "idle"} \/ CallThread(c) # t

AttachInputDesktop(t) ==
  tdesk' = IF AttachSucceeds THEN [tdesk EXCEPT ![t] = desktop] ELSE tdesk

AttachOnceThisThread(t) ==
  /\ attached' = [attached EXCEPT ![t] = TRUE]
  /\ IF attached[t] THEN UNCHANGED tdesk ELSE AttachInputDesktop(t)

-----------------------------------------------------------------------------
(* The client finds its output and duplicates it.                          *)

\* EnumOutputs(o) on the adapter of the client's device.
EnumOutputs(c, o) ==
  /\ At(c, "closed") \/ At(c, "idle")
  /\ o \in Enumerated[c] /\ (current => o \in present)
  /\ lastIndex' = o
  /\ hostOut' = [hostOut EXCEPT ![c] = IF o = Target[c] /\ @ = "none" THEN "output" ELSE @]
  /\ upToDate' = IF current THEN upToDate \cup {c} ELSE upToDate \ {c}
  /\ UNCHANGED <<desktop, settled, present, current, removed, inst, tdesk, attached,
                 lastSource, dupLock, wrapped, aborted, pc, locals, proxy, held, ret>>

\* QueryInterface for the interface that has the client's duplicate call.
OutputQueryInterface(c) ==
  /\ At(c, "closed") /\ hostOut[c] = "output"
  /\ hostOut' = [hostOut EXCEPT ![c] = "typed"]
  /\ wrapped' = wrapped \cup {Api[c]}
  /\ UNCHANGED <<envVars, inst, tdesk, attached, lastSource, lastIndex, dupLock, aborted,
                 pc, locals, proxy, held, ret>>

DuplicateBegin(c) ==
  /\ Goto(c, "closed", "open_lock")
  /\ hostOut[c] = "typed"
  /\ ThreadIdle(OpenThread[c])
  /\ AttachOnceThisThread(OpenThread[c])
  /\ UNCHANGED <<envVars, inst, lastSource, lastIndex, dupLock, wrapped, aborted,
                 locals, proxy, host>>

DuplicateLock(c) ==
  /\ Goto(c, "open_lock", "open_call")
  /\ AcquireLock(c)
  /\ UNCHANGED <<envVars, inst, tdesk, attached, lastSource, lastIndex, wrapped, aborted,
                 locals, proxy, host>>

\* The original call, and wrap_duplication when it succeeds.
DuplicateCall(c) ==
  /\ dupLock' = NoCap
  /\ \E st \in DuplicateAnswers(OpenThread[c], Dev[c], Target[c], c \in upToDate) :
       \/ /\ st = "fail"
          /\ Goto(c, "open_call", "closed")
          /\ Returns(c, "duplicate", "fail")
          /\ UNCHANGED <<inst, lastSource, real>>
       \/ /\ st # "fail"
          /\ Goto(c, "open_call", "idle")
          /\ \E i \in Instances \ Live :
               /\ inst' = [inst EXCEPT ![i] = NewInst(st, Target[c], Dev[c])]
               /\ real' = [real EXCEPT ![c] = i]
          /\ lastSource' = Dev[c]
          /\ Returns(c, "duplicate", "ok")
  /\ UNCHANGED <<envVars, tdesk, attached, lastIndex, wrapped, aborted, locals, owner,
                 hostOut, held>>

\* The client drops its last reference to the proxy.
CloseProxy(c) ==
  /\ Goto(c, "idle", "closed")
  /\ real' = [real EXCEPT ![c] = NoInst]
  /\ owner' = [owner EXCEPT ![c] = NoInst]
  /\ held' = [held EXCEPT ![c] = FALSE]
  /\ hostOut' = [hostOut EXCEPT ![c] = "none"]
  /\ Returns(c, "none", "ok")
  /\ UNCHANGED fresh
  /\ Collect(inst)
  /\ UNCHANGED <<envVars, tdesk, statics, retry, rdev, ridx>>

-----------------------------------------------------------------------------
(* AcquireNextFrame.                                                       *)

\* A proxy without a real instance only reports WAIT_TIMEOUT.
MutantNeverRetries(c) ==
  /\ Goto(c, "idle", IF real[c] = NoInst THEN "idle" ELSE "acquire")
  /\ held[c] => HoldAcross
  /\ ThreadIdle(PollThread[c])
  /\ AttachOnceThisThread(PollThread[c])
  /\ IF real[c] = NoInst THEN Returns(c, "acquire", "timeout") ELSE UNCHANGED ret
  /\ retry' = [retry EXCEPT ![c] = FALSE]
  /\ UNCHANGED <<envVars, inst, lastSource, lastIndex, dupLock, wrapped, aborted,
                 rdev, ridx, fresh, proxy, hostOut, held>>

\* Entry: a proxy without a real instance retries the recovery first.
AcquireBegin(c) ==
  /\ Goto(c, "idle", IF real[c] = NoInst THEN "attach" ELSE "acquire")
  /\ held[c] => HoldAcross
  /\ ThreadIdle(PollThread[c])
  /\ AttachOnceThisThread(PollThread[c])
  /\ retry' = [retry EXCEPT ![c] = (real[c] = NoInst)]
  /\ UNCHANGED <<envVars, inst, lastSource, lastIndex, dupLock, wrapped, aborted,
                 rdev, ridx, fresh, proxy, host>>

\* The real instance hands out a frame; it becomes locked_frame_owner.
AcquireFrame(c) ==
  /\ Goto(c, "acquire", "idle")
  /\ "ok" \in AcquireAnswers(real[c])
  /\ owner' = [owner EXCEPT ![c] = real[c]]
  /\ held' = [held EXCEPT ![c] = TRUE]
  /\ Returns(c, "acquire", "ok")
  /\ UNCHANGED <<real, fresh>>
  /\ Collect([inst EXCEPT ![real[c]].frame = TRUE])
  /\ UNCHANGED <<envVars, tdesk, statics, retry, rdev, ridx, hostOut>>

\* ACCESS_DENIED left out of the codes that mean a loss.
MutantPassesDenied(c) ==
  /\ Goto(c, "acquire", "idle")
  /\ \E hr \in AcquireAnswers(real[c]) \cap {"timeout", "removed", "access_denied"} :
       Returns(c, "acquire", hr)
  /\ UNCHANGED <<envVars, inst, tdesk, statics, locals, proxy, hostOut, held>>

\* WAIT_TIMEOUT, and any error outside the three lost codes, is passed on.
AcquirePassOn(c) ==
  /\ Goto(c, "acquire", "idle")
  /\ \E hr \in AcquireAnswers(real[c]) \ ({"ok"} \cup LostCodes) : Returns(c, "acquire", hr)
  /\ UNCHANGED <<envVars, inst, tdesk, statics, locals, proxy, hostOut, held>>

\* Recovery that replaces real only once it has a successor.
MutantKeepsDeadInstance(c) ==
  /\ Goto(c, "acquire", "attach")
  /\ AcquireAnswers(real[c]) \cap LostCodes # {}
  /\ retry' = [retry EXCEPT ![c] = FALSE]
  /\ UNCHANGED <<envVars, inst, tdesk, statics, rdev, ridx, fresh, proxy, host>>

\* Recovery that also forgets the owner of the frame the client holds.
MutantForgetsOwner(c) ==
  /\ Goto(c, "acquire", "attach")
  /\ AcquireAnswers(real[c]) \cap LostCodes # {}
  /\ real' = [real EXCEPT ![c] = NoInst]
  /\ owner' = [owner EXCEPT ![c] = NoInst]
  /\ retry' = [retry EXCEPT ![c] = FALSE]
  /\ UNCHANGED fresh
  /\ Collect(inst)
  /\ UNCHANGED <<envVars, tdesk, statics, rdev, ridx, host>>

\* A lost code: the dead instance is dropped before recovery starts.
AcquireLost(c) ==
  /\ Goto(c, "acquire", "attach")
  /\ AcquireAnswers(real[c]) \cap LostCodes # {}
  /\ real' = [real EXCEPT ![c] = NoInst]
  /\ retry' = [retry EXCEPT ![c] = FALSE]
  /\ UNCHANGED <<owner, fresh>>
  /\ Collect(inst)
  /\ UNCHANGED <<envVars, tdesk, statics, rdev, ridx, host>>

-----------------------------------------------------------------------------
(* renumerate_output_and_duplicate.                                        *)

RecoverAttach(c) ==
  /\ Goto(c, "attach", "source")
  /\ AttachInputDesktop(PollThread[c])
  /\ UNCHANGED <<envVars, inst, statics, locals, proxy, host>>

\* recreate_from_scratch: a recovery that makes a device of its own.
MutantRecreatesDevice(c) ==
  /\ Goto(c, "source", "index")
  /\ \E d \in Devices : rdev' = [rdev EXCEPT ![c] = d]
  /\ UNCHANGED <<envVars, inst, tdesk, statics, retry, ridx, fresh, proxy, host>>

RecoverSource(c) ==
  /\ Goto(c, "source", "index")
  /\ lastSource # NoDev
  /\ rdev' = [rdev EXCEPT ![c] = lastSource]
  /\ UNCHANGED <<envVars, inst, tdesk, statics, retry, ridx, fresh, proxy, host>>

\* Output 0 hardcoded.
MutantFirstOutput(c) ==
  /\ Goto(c, "index", "lock")
  /\ ridx' = [ridx EXCEPT ![c] = Output0]
  /\ UNCHANGED <<envVars, inst, tdesk, statics, retry, rdev, fresh, proxy, host>>

RecoverIndex(c) ==
  /\ Goto(c, "index", "lock")
  /\ ridx' = [ridx EXCEPT ![c] = lastIndex]
  /\ UNCHANGED <<envVars, inst, tdesk, statics, retry, rdev, fresh, proxy, host>>

RecoverLock(c) ==
  /\ Goto(c, "lock", "adapter")
  /\ AcquireLock(c)
  /\ UNCHANGED <<envVars, inst, tdesk, attached, lastSource, lastIndex, wrapped, aborted,
                 locals, proxy, host>>

\* get_parent_adapter: the device's own adapter while its factory is current,
\* else the adapter of the same LUID from a fresh factory.
AdapterFound(d) == current \/ d \notin removed

RecoverAdapter(c) ==
  /\ Goto(c, "adapter", "enum")
  /\ AdapterFound(rdev[c])
  /\ upToDate' = upToDate \cup {c}
  /\ UNCHANGED <<desktop, settled, present, current, removed, inst, tdesk, statics,
                 locals, proxy, host>>

\* A stale adapter still lists the outputs it knew.
OutputFound(c) == c \in upToDate => ridx[c] \in present

RecoverEnumOutput(c) ==
  /\ Goto(c, "enum", "dup")
  /\ OutputFound(c)
  /\ UNCHANGED <<envVars, inst, tdesk, statics, locals, proxy, host>>

\* Recovery by the legacy call, whatever the client used.
MutantLegacyRecovery == "V1"

\* QueryInterface through the original finds IDXGIOutput5 where Windows has
\* it, whatever interface the client used.
RecoveryApi == IF HasOutput5 THEN "V5" ELSE "V1"

RecoverDuplicate(c) ==
  /\ Goto(c, "dup", "store")
  /\ RecoveryApi \in wrapped
  /\ \E st \in DuplicateAnswers(PollThread[c], rdev[c], ridx[c], c \in upToDate) \ {"fail"},
        i \in Instances \ Live :
       /\ inst' = [inst EXCEPT ![i] = NewInst(st, ridx[c], rdev[c])]
       /\ fresh' = [fresh EXCEPT ![c] = i]
  /\ dupLock' = NoCap
  /\ UNCHANGED <<envVars, tdesk, attached, lastSource, lastIndex, wrapped, aborted,
                 retry, rdev, ridx, proxy, host>>

\* .expect on an ORIGINAL_* that was never stored.
RecoverPanic(c) ==
  /\ At(c, "dup") /\ RecoveryApi \notin wrapped
  /\ aborted' = TRUE
  /\ UNCHANGED <<envVars, inst, tdesk, attached, lastSource, lastIndex, dupLock, wrapped,
                 pc, locals, proxy, host>>

\* Recovery succeeded: after a loss the call reports WAIT_TIMEOUT, after a
\* retry it goes on to the new instance.
RecoverStore(c) ==
  /\ Goto(c, "store", IF retry[c] THEN "acquire" ELSE "idle")
  /\ lastSource' = rdev[c]
  /\ real' = [real EXCEPT ![c] = fresh[c]]
  /\ fresh' = [fresh EXCEPT ![c] = NoInst]
  /\ rdev' = [rdev EXCEPT ![c] = NoDev]
  /\ ridx' = [ridx EXCEPT ![c] = NoOut]
  /\ IF retry[c] THEN UNCHANGED ret ELSE Returns(c, "acquire", "timeout")
  /\ UNCHANGED <<envVars, inst, tdesk, attached, lastIndex, dupLock, wrapped, aborted,
                 retry, owner, hostOut, held>>

\* Any step of the recovery can fail; the proxy stays without an instance
\* and the call reports WAIT_TIMEOUT.
StepFails(c) ==
  \/ At(c, "source") /\ lastSource = NoDev
  \/ At(c, "adapter") /\ ~AdapterFound(rdev[c])
  \/ At(c, "enum") /\ ~OutputFound(c)
  \/ /\ At(c, "dup") /\ RecoveryApi \in wrapped
     /\ "fail" \in DuplicateAnswers(PollThread[c], rdev[c], ridx[c], c \in upToDate)

\* The inner error reaches the client.
MutantPropagatesError(c) ==
  /\ StepFails(c)
  /\ pc' = [pc EXCEPT ![c] = "idle"]
  /\ dupLock' = IF dupLock = c THEN NoCap ELSE dupLock
  /\ rdev' = [rdev EXCEPT ![c] = NoDev]
  /\ ridx' = [ridx EXCEPT ![c] = NoOut]
  /\ Returns(c, "acquire", "e_fail")
  /\ UNCHANGED <<envVars, inst, tdesk, attached, lastSource, lastIndex, wrapped, aborted,
                 retry, fresh, proxy, hostOut, held>>

\* An early return that keeps DUPLICATE_OUTPUT_LOCK.
MutantKeepsLock(c) ==
  /\ StepFails(c)
  /\ pc' = [pc EXCEPT ![c] = "idle"]
  /\ rdev' = [rdev EXCEPT ![c] = NoDev]
  /\ ridx' = [ridx EXCEPT ![c] = NoOut]
  /\ Returns(c, "acquire", "timeout")
  /\ UNCHANGED <<envVars, inst, tdesk, attached, lastSource, lastIndex, dupLock, wrapped,
                 aborted, retry, fresh, proxy, hostOut, held>>

RecoverFail(c) ==
  /\ StepFails(c)
  /\ pc' = [pc EXCEPT ![c] = "idle"]
  /\ dupLock' = IF dupLock = c THEN NoCap ELSE dupLock
  /\ rdev' = [rdev EXCEPT ![c] = NoDev]
  /\ ridx' = [ridx EXCEPT ![c] = NoOut]
  /\ Returns(c, "acquire", "timeout")
  /\ UNCHANGED <<envVars, inst, tdesk, attached, lastSource, lastIndex, wrapped, aborted,
                 retry, fresh, proxy, hostOut, held>>

-----------------------------------------------------------------------------
(* GetFramePointerShape and ReleaseFrame act on locked_frame_owner.        *)

\* The owner taken out by the pointer call.
MutantTakesOwner(c) ==
  /\ At(c, "idle")
  /\ \E hr \in (IF owner[c] = NoInst THEN {"ok"} ELSE PointerAnswers(owner[c])) :
       Returns(c, "pointer", hr)
  /\ owner' = [owner EXCEPT ![c] = NoInst]
  /\ UNCHANGED <<real, fresh>>
  /\ Collect(inst)
  /\ UNCHANGED <<envVars, tdesk, statics, pc, retry, rdev, ridx, hostOut, held>>

GetFramePointerShape(c) ==
  /\ At(c, "idle")
  /\ \E hr \in (IF owner[c] = NoInst THEN {"ok"} ELSE PointerAnswers(owner[c])) :
       Returns(c, "pointer", hr)
  /\ UNCHANGED <<envVars, inst, tdesk, statics, pc, locals, proxy, hostOut, held>>

\* Whatever the owner answers, the client is told ok.
ReleaseFrame(c) ==
  /\ At(c, "idle")
  /\ owner' = [owner EXCEPT ![c] = NoInst]
  /\ held' = [held EXCEPT ![c] = FALSE]
  /\ Returns(c, "release", "ok")
  /\ UNCHANGED <<real, fresh>>
  /\ IF owner[c] # NoInst /\ ReleaseAnswers(owner[c]) = {"ok"}
       THEN Collect([inst EXCEPT ![owner[c]].frame = FALSE])
       ELSE Collect(inst)
  /\ UNCHANGED <<envVars, tdesk, statics, pc, retry, rdev, ridx, hostOut>>

-----------------------------------------------------------------------------
Open(c) ==
  \/ \E o \in Outputs : EnumOutputs(c, o)
  \/ OutputQueryInterface(c) \/ DuplicateBegin(c) \/ DuplicateLock(c) \/ DuplicateCall(c)
  \/ CloseProxy(c)

Acquire(c) == AcquireFrame(c) \/ AcquirePassOn(c) \/ AcquireLost(c)

Recover(c) ==
  \/ RecoverAttach(c) \/ RecoverSource(c) \/ RecoverIndex(c) \/ RecoverLock(c)
  \/ RecoverAdapter(c) \/ RecoverEnumOutput(c) \/ RecoverDuplicate(c) \/ RecoverPanic(c)
  \/ RecoverStore(c) \/ RecoverFail(c)

CaptureNext(c) ==
  \/ Open(c) \/ AcquireBegin(c) \/ Acquire(c) \/ Recover(c)
  \/ GetFramePointerShape(c) \/ ReleaseFrame(c)

EnvNext ==
  /\ ~aborted
  /\ DxgiNext
  /\ UNCHANGED <<statics, pc, locals, proxy, host>>

Next == EnvNext \/ \E c \in Captures : CaptureNext(c)

Spec == Init /\ [][Next]_vars
-----------------------------------------------------------------------------
(* Properties.                                                             *)

\* state.rs 79-92, duplication_proxy.rs 229-232: DXGI allows one live
\* duplication per output, so whatever the interleaving of losses and
\* retries, nothing is duplicated beside a live object, unless that object
\* is the one whose frame a client still holds.
OneLivePerOutput ==
  \A i, j \in Live :
    inst[i].out = inst[j].out /\ i # j => \E c \in Captures : held[c] /\ owner[c] \in {i, j}

\* duplication_proxy.rs 63-77: the instance in locked_frame_owner is the one
\* whose frame the client holds, through every recovery that replaces real.
HeldFrameHasOwner ==
  \A c \in Captures :
    /\ held[c] <=> owner[c] # NoInst
    /\ held[c] => inst[owner[c]].frame

\* A frame nobody will release would make each later poll INVALID_CALL and
\* so cost a recovery: between calls a healthy instance is locked only while
\* its client holds the frame.
NoLeakedFrame ==
  \A i \in Live : inst[i].st = "good" /\ inst[i].frame /\ inst[i].dev \notin removed =>
                 \E c \in Captures : owner[c] = i

\* state.rs 65-70: recovery duplicates the output the client asked for,
\* not another display.
SameOutput ==
  \A c \in Captures : real[c] # NoInst => inst[real[c]].out = Target[c]

\* recovery.rs 86-98: recovery duplicates on the client's own device; frames
\* of another device cannot be copied by the client.
SameDevice ==
  \A c \in Captures : real[c] # NoInst => inst[real[c]].dev = Dev[c]

\* state.rs 79-92: at most one call is between an original DuplicateOutput's
\* preparation and its result, and a call that left that stretch, by any
\* exit, has let go of DUPLICATE_OUTPUT_LOCK.
LockHolder == \A c \in Captures : pc[c] \in Critical <=> dupLock = c

\* dxgi_output.rs 98-101: by the time a recovery runs, the original it calls
\* has been stored, so no hook panics into the host.
NoPanic == ~aborted

-----------------------------------------------------------------------------
(* Liveness: the host polls its proxies in a loop and releases the frames  *)
(* it got (duplication_proxy.rs 19-54), its threads are scheduled, and a   *)
(* parking_lot mutex is handed to each waiter in the end.                  *)

Poll(c) == AcquireBegin(c) \/ (held[c] /\ ReleaseFrame(c))
Fairness ==
  \A c \in Captures :
    /\ WF_vars(Poll(c))
    /\ WF_vars(Acquire(c) \/ Recover(c))
    /\ WF_vars(DuplicateCall(c))
    /\ SF_vars(DuplicateLock(c)) /\ SF_vars(RecoverLock(c))

FairSpec == Spec /\ Fairness

Capturing(c) == pc[c] \notin {"closed", "open_lock", "open_call"}
Undisturbed(c) ==
  settled /\ desktop \in Attachable /\ Target[c] \in present /\ Dev[c] \notin removed
Healthy(c) == real[c] # NoInst /\ inst[real[c]].st = "good"

\* state.rs 79-92: DUPLICATE_OUTPUT_LOCK is left on every path, so with two
\* captures in recovery at once both calls go on, for as long as the process
\* lives.
Waiting(c) == pc[c] \in {"open_lock", "lock"}
NobodyWaitsForEver == \A c \in Captures : Waiting(c) ~> ~Waiting(c) \/ aborted

\* duplication_proxy.rs 167-174: a recovery that failed is retried on the
\* next poll, so once the disturbance is over the capture comes back and
\* stays.
TopologyRests == <>[][UNCHANGED present]_vars
Heals ==
  \A c \in Captures :
    TopologyRests /\ <>[](Capturing(c) /\ Undisturbed(c)) => <>[]Healthy(c)
=============================================================================
