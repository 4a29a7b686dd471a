--------------------------- MODULE DdaProxyProofs ---------------------------
(***************************************************************************)
(* TLAPS proofs about DdaProxy for every number of captures, threads,      *)
(* outputs, devices and instances.  ProxyInv is the inductive invariant:   *)
(* the type invariant, what the locals of a recovery hold at each of its   *)
(* steps, and who refers to which duplication object.  Each safety         *)
(* property follows from it and a strengthening of its own, some for a     *)
(* class of hosts only; and DdaProxy implements CaptureService.            *)
(***************************************************************************)
EXTENDS DdaContract, TLAPS

Opening == {"closed", "open_lock", "open_call"}
HasDevice == {"index", "lock", "adapter", "enum", "dup", "store"}
HasIndex == {"lock", "adapter", "enum", "dup", "store"}

\* The locals of a recovery are set where a later step reads them.
LocalsOK ==
  \A c \in Captures :
    /\ pc[c] \in HasDevice => rdev[c] \in Devices
    /\ pc[c] \in HasIndex => ridx[c] \in Outputs
    /\ pc[c] = "store" <=> fresh[c] # NoInst

\* Where a call stands tells whether the proxy has a real instance.
FieldsOK ==
  \A c \in Captures :
    /\ pc[c] = "acquire" => real[c] # NoInst
    /\ pc[c] \in Opening \cup Recovering => real[c] = NoInst
    /\ pc[c] \in Opening => owner[c] = NoInst

Refs(c) == {real[c], owner[c], fresh[c]} \ {NoInst}

\* The live objects are those the captures refer to, each only one capture's.
RefsOK ==
  /\ \A c \in Captures : Refs(c) \subseteq Live
  /\ \A i \in Live : \E c \in Captures : i \in Refs(c)
  /\ \A c, d \in Captures : c # d => Refs(c) \cap Refs(d) = {}

ProxyInv == TypeOK /\ LocalsOK /\ FieldsOK /\ RefsOK

USE DEF envVars, statics, locals, proxy, host, Recovering, Critical, PCs, Ops,
        Opening, HasDevice, HasIndex

-----------------------------------------------------------------------------
(* What the environment answers and does to the duplication objects.       *)

\* Every answer of AcquireNextFrame is one of the codes the proxy tells apart.
LEMMA AcquireAnswersType ==
  ASSUME NEW i PROVE AcquireAnswers(i) \subseteq HResults
BY DEF AcquireAnswers, HResults, LostCodes

\* Likewise GetFramePointerShape.
LEMMA PointerAnswersType ==
  ASSUME NEW i PROVE PointerAnswers(i) \subseteq HResults
BY DEF PointerAnswers, HResults, LostCodes

\* A duplicate call that does not fail returns an object of a known health.
LEMMA DuplicateAnswersType ==
  ASSUME NEW t, NEW d, NEW o, NEW u
  PROVE  DuplicateAnswers(t, d, o, u) \ {"fail"} \subseteq Health
BY DEF DuplicateAnswers, Health

\* What a capture refers to is a live object, hence a full record.
LEMMA ReferencedIsLive ==
  ASSUME TypeOK, RefsOK, NEW c \in Captures, NEW i \in Refs(c)
  PROVE  i \in Instances /\ inst[i] \in LiveInst
BY DEF TypeOK, DxgiTypeOK, RefsOK, Live, Free

\* A loss of access changes the health of an object and nothing else.
LEMMA LoseKeepsObjects ==
  ASSUME DxgiTypeOK, NEW S, inst' = Lose(S)
  PROVE  /\ inst' \in [Instances -> LiveInst \cup {Free}]
         /\ Live' = Live
         /\ \A i \in Live : inst'[i] = [inst[i] EXCEPT !.st = "lost"] \/ inst'[i] = inst[i]
<1>1. ASSUME NEW i \in Instances
      PROVE  /\ Lose(S)[i] \in LiveInst \cup {Free}
             /\ Lose(S)[i].st = "free" <=> inst[i].st = "free"
  BY DEF DxgiTypeOK, Lose, Live, LiveInst, Free, Health
<1>2. inst' \in [Instances -> LiveInst \cup {Free}]
  BY <1>1 DEF Lose
<1>3. Live' = Live
  BY <1>1 DEF Live
<1>4. ASSUME NEW i \in Live
      PROVE  inst'[i] = [inst[i] EXCEPT !.st = "lost"] \/ inst'[i] = inst[i]
  BY DEF Lose, Live
<1>. QED BY <1>2, <1>3, <1>4

\* A step that only moves a reference between fields keeps them sound.
LEMMA RefsMove ==
  ASSUME RefsOK, Live' = Live, \A c \in Captures : Refs(c)' = Refs(c)
  PROVE  RefsOK'
BY DEF RefsOK

\* An action that drops references and updates a referred object leaves the
\* referred objects alive and frees the others: COM's last Release.
LEMMA CollectKeepsRefs ==
  ASSUME TypeOK, RefsOK, \A c \in Captures : Refs(c)' \subseteq Refs(c),
         NEW f, Collect(f),
         \A c \in Captures : \A i \in Refs(c) : f[i] \in LiveInst
  PROVE  /\ inst' \in [Instances -> LiveInst \cup {Free}]
         /\ \A c \in Captures : \A i \in Refs(c)' : inst'[i] = f[i]
         /\ RefsOK'
<1>1. \A i \in Instances : i \in Referenced' <=> \E c \in Captures : i \in Refs(c)'
  BY DxgiAssumption DEF Referenced, Refs
<1>2. \A c \in Captures : Refs(c) \subseteq Instances
  BY DEF RefsOK, Live
<1>3. \A c \in Captures : \A i \in Refs(c)' : inst'[i] = f[i]
  BY <1>1, <1>2 DEF Collect
<1>4. inst' \in [Instances -> LiveInst \cup {Free}]
  BY <1>1 DEF Collect
<1>5. \A c \in Captures : \A i \in Refs(c)' : i \in Live'
  <2>. SUFFICES ASSUME NEW c \in Captures, NEW i \in Refs(c)' PROVE i \in Live'
    OBVIOUS
  <2>1. i \in Instances /\ inst'[i] \in LiveInst
    BY <1>2, <1>3
  <2>. QED BY <2>1 DEF Live, LiveInst, Health
<1>6. \A i \in Live' : \E c \in Captures : i \in Refs(c)'
  BY <1>1 DEF Collect, Live, Free
<1>7. RefsOK'
  BY <1>5, <1>6 DEF RefsOK
<1>. QED BY <1>3, <1>4, <1>7

\* A new object is nobody's yet, and giving it to one capture that had no
\* reference in that place keeps every reference sound.
LEMMA NewInstKeepsRefs ==
  ASSUME TypeOK, RefsOK, NEW c \in Captures, NEW i \in Instances \ Live,
         NEW st \in Health, NEW o \in Outputs, NEW d \in Devices,
         inst' = [inst EXCEPT ![i] = NewInst(st, o, d)],
         Refs(c)' = Refs(c) \cup {i},
         \A e \in Captures \ {c} : Refs(e)' = Refs(e)
  PROVE  /\ inst' \in [Instances -> LiveInst \cup {Free}]
         /\ Live' = Live \cup {i}
         /\ RefsOK'
<1>1. NewInst(st, o, d) \in LiveInst /\ NewInst(st, o, d).st # "free"
  BY DEF NewInst, LiveInst, Health
<1>2. inst' \in [Instances -> LiveInst \cup {Free}]
  BY <1>1 DEF TypeOK, DxgiTypeOK
<1>3. Live' = Live \cup {i}
  BY <1>1 DEF TypeOK, DxgiTypeOK, Live
<1>4. RefsOK'
  BY <1>3 DEF RefsOK
<1>. QED BY <1>2, <1>3, <1>4

-----------------------------------------------------------------------------
(* The inductive invariant.                                                *)

\* Before the host has done anything, nothing is alive and nothing refers.
LEMMA ProxyInvInit == Init => ProxyInv
<1>. SUFFICES ASSUME Init PROVE ProxyInv
  OBVIOUS
<1>. USE DEF Init, DxgiInit
<1>1. TypeOK
  BY DxgiAssumption DEF TypeOK, DxgiTypeOK, HResults
<1>2. LocalsOK /\ FieldsOK
  BY DEF LocalsOK, FieldsOK
<1>3. RefsOK
  BY DEF RefsOK, Refs, Live, Free
<1>. QED BY <1>1, <1>2, <1>3 DEF ProxyInv

\* Every step of the client, of the proxy and of the system keeps it.
LEMMA ProxyInvStep == ProxyInv /\ [Next]_vars => ProxyInv'
<1>. SUFFICES ASSUME ProxyInv, [Next]_vars PROVE ProxyInv'
  OBVIOUS
<1>. USE DxgiAssumption, ProxyAssumption
<1>hr. {"ok", "timeout", "fail"} \subseteq HResults
  BY DEF HResults
<1>inv. TypeOK /\ LocalsOK /\ FieldsOK /\ RefsOK
  BY DEF ProxyInv
<1>refs. \A c \in Captures : Refs(c) \subseteq Instances
  BY <1>inv DEF RefsOK, Live
<1>1. ASSUME NEW c \in Captures, NEW o \in Outputs, EnumOutputs(c, o) PROVE ProxyInv'
  <2>. USE <1>1 DEF EnumOutputs, At
  <2>1. TypeOK'
    BY <1>inv, <1>hr DEF TypeOK, DxgiTypeOK, LocalsOK
  <2>2. LocalsOK' /\ FieldsOK'
    BY <1>inv DEF LocalsOK, FieldsOK, TypeOK, DxgiTypeOK
  <2>3. RefsOK'
    <3>1. Live' = Live /\ \A e \in Captures : Refs(e)' = Refs(e)
      BY <1>inv DEF Refs, Live
    <3>. QED BY <3>1, <1>inv, RefsMove
  <2>. QED BY <2>1, <2>2, <2>3 DEF ProxyInv
<1>2. ASSUME NEW c \in Captures, OutputQueryInterface(c) PROVE ProxyInv'
  <2>. USE <1>2 DEF OutputQueryInterface, At
  <2>1. TypeOK'
    BY <1>inv, <1>hr DEF TypeOK, DxgiTypeOK, LocalsOK
  <2>2. LocalsOK' /\ FieldsOK'
    BY <1>inv DEF LocalsOK, FieldsOK, TypeOK, DxgiTypeOK
  <2>3. RefsOK'
    <3>1. Live' = Live /\ \A e \in Captures : Refs(e)' = Refs(e)
      BY <1>inv DEF Refs, Live
    <3>. QED BY <3>1, <1>inv, RefsMove
  <2>. QED BY <2>1, <2>2, <2>3 DEF ProxyInv
<1>3. ASSUME NEW c \in Captures, DuplicateBegin(c) PROVE ProxyInv'
  <2>. USE <1>3 DEF DuplicateBegin, Goto, At, AttachOnceThisThread, AttachInputDesktop, AttachSucceeds
  <2>1. TypeOK'
    BY <1>inv, <1>hr DEF TypeOK, DxgiTypeOK, LocalsOK
  <2>2. LocalsOK' /\ FieldsOK'
    BY <1>inv DEF LocalsOK, FieldsOK, TypeOK, DxgiTypeOK
  <2>3. RefsOK'
    <3>1. Live' = Live /\ \A e \in Captures : Refs(e)' = Refs(e)
      BY <1>inv DEF Refs, Live
    <3>. QED BY <3>1, <1>inv, RefsMove
  <2>. QED BY <2>1, <2>2, <2>3 DEF ProxyInv
<1>4. ASSUME NEW c \in Captures, DuplicateLock(c) PROVE ProxyInv'
  <2>. USE <1>4 DEF DuplicateLock, Goto, At, AcquireLock
  <2>1. TypeOK'
    BY <1>inv, <1>hr DEF TypeOK, DxgiTypeOK, LocalsOK
  <2>2. LocalsOK' /\ FieldsOK'
    BY <1>inv DEF LocalsOK, FieldsOK, TypeOK, DxgiTypeOK
  <2>3. RefsOK'
    <3>1. Live' = Live /\ \A e \in Captures : Refs(e)' = Refs(e)
      BY <1>inv DEF Refs, Live
    <3>. QED BY <3>1, <1>inv, RefsMove
  <2>. QED BY <2>1, <2>2, <2>3 DEF ProxyInv
<1>5. ASSUME NEW c \in Captures, AcquireBegin(c) PROVE ProxyInv'
  <2>. USE <1>5 DEF AcquireBegin, Goto, At, AttachOnceThisThread, AttachInputDesktop, AttachSucceeds
  <2>1. TypeOK'
    BY <1>inv, <1>hr DEF TypeOK, DxgiTypeOK, LocalsOK
  <2>2. LocalsOK' /\ FieldsOK'
    BY <1>inv DEF LocalsOK, FieldsOK, TypeOK, DxgiTypeOK
  <2>3. RefsOK'
    <3>1. Live' = Live /\ \A e \in Captures : Refs(e)' = Refs(e)
      BY <1>inv DEF Refs, Live
    <3>. QED BY <3>1, <1>inv, RefsMove
  <2>. QED BY <2>1, <2>2, <2>3 DEF ProxyInv
<1>6. ASSUME NEW c \in Captures, AcquirePassOn(c) PROVE ProxyInv'
  <2>. USE <1>6 DEF AcquirePassOn, Goto, At, Returns
  <2>1. TypeOK'
    BY <1>inv, <1>hr, AcquireAnswersType DEF TypeOK, DxgiTypeOK, LocalsOK
  <2>2. LocalsOK' /\ FieldsOK'
    BY <1>inv DEF LocalsOK, FieldsOK, TypeOK, DxgiTypeOK
  <2>3. RefsOK'
    <3>1. Live' = Live /\ \A e \in Captures : Refs(e)' = Refs(e)
      BY <1>inv DEF Refs, Live
    <3>. QED BY <3>1, <1>inv, RefsMove
  <2>. QED BY <2>1, <2>2, <2>3 DEF ProxyInv
<1>7. ASSUME NEW c \in Captures, RecoverAttach(c) PROVE ProxyInv'
  <2>. USE <1>7 DEF RecoverAttach, Goto, At, AttachInputDesktop, AttachSucceeds
  <2>1. TypeOK'
    BY <1>inv, <1>hr DEF TypeOK, DxgiTypeOK, LocalsOK
  <2>2. LocalsOK' /\ FieldsOK'
    BY <1>inv DEF LocalsOK, FieldsOK, TypeOK, DxgiTypeOK
  <2>3. RefsOK'
    <3>1. Live' = Live /\ \A e \in Captures : Refs(e)' = Refs(e)
      BY <1>inv DEF Refs, Live
    <3>. QED BY <3>1, <1>inv, RefsMove
  <2>. QED BY <2>1, <2>2, <2>3 DEF ProxyInv
<1>8. ASSUME NEW c \in Captures, RecoverSource(c) PROVE ProxyInv'
  <2>. USE <1>8 DEF RecoverSource, Goto, At
  <2>1. TypeOK'
    BY <1>inv, <1>hr DEF TypeOK, DxgiTypeOK, LocalsOK
  <2>2. LocalsOK' /\ FieldsOK'
    BY <1>inv DEF LocalsOK, FieldsOK, TypeOK, DxgiTypeOK
  <2>3. RefsOK'
    <3>1. Live' = Live /\ \A e \in Captures : Refs(e)' = Refs(e)
      BY <1>inv DEF Refs, Live
    <3>. QED BY <3>1, <1>inv, RefsMove
  <2>. QED BY <2>1, <2>2, <2>3 DEF ProxyInv
<1>9. ASSUME NEW c \in Captures, RecoverIndex(c) PROVE ProxyInv'
  <2>. USE <1>9 DEF RecoverIndex, Goto, At
  <2>1. TypeOK'
    BY <1>inv, <1>hr DEF TypeOK, DxgiTypeOK, LocalsOK
  <2>2. LocalsOK' /\ FieldsOK'
    BY <1>inv DEF LocalsOK, FieldsOK, TypeOK, DxgiTypeOK
  <2>3. RefsOK'
    <3>1. Live' = Live /\ \A e \in Captures : Refs(e)' = Refs(e)
      BY <1>inv DEF Refs, Live
    <3>. QED BY <3>1, <1>inv, RefsMove
  <2>. QED BY <2>1, <2>2, <2>3 DEF ProxyInv
<1>10. ASSUME NEW c \in Captures, RecoverLock(c) PROVE ProxyInv'
  <2>. USE <1>10 DEF RecoverLock, Goto, At, AcquireLock
  <2>1. TypeOK'
    BY <1>inv, <1>hr DEF TypeOK, DxgiTypeOK, LocalsOK
  <2>2. LocalsOK' /\ FieldsOK'
    BY <1>inv DEF LocalsOK, FieldsOK, TypeOK, DxgiTypeOK
  <2>3. RefsOK'
    <3>1. Live' = Live /\ \A e \in Captures : Refs(e)' = Refs(e)
      BY <1>inv DEF Refs, Live
    <3>. QED BY <3>1, <1>inv, RefsMove
  <2>. QED BY <2>1, <2>2, <2>3 DEF ProxyInv
<1>11. ASSUME NEW c \in Captures, RecoverAdapter(c) PROVE ProxyInv'
  <2>. USE <1>11 DEF RecoverAdapter, Goto, At
  <2>1. TypeOK'
    BY <1>inv, <1>hr DEF TypeOK, DxgiTypeOK, LocalsOK
  <2>2. LocalsOK' /\ FieldsOK'
    BY <1>inv DEF LocalsOK, FieldsOK, TypeOK, DxgiTypeOK
  <2>3. RefsOK'
    <3>1. Live' = Live /\ \A e \in Captures : Refs(e)' = Refs(e)
      BY <1>inv DEF Refs, Live
    <3>. QED BY <3>1, <1>inv, RefsMove
  <2>. QED BY <2>1, <2>2, <2>3 DEF ProxyInv
<1>12. ASSUME NEW c \in Captures, RecoverEnumOutput(c) PROVE ProxyInv'
  <2>. USE <1>12 DEF RecoverEnumOutput, Goto, At
  <2>1. TypeOK'
    BY <1>inv, <1>hr DEF TypeOK, DxgiTypeOK, LocalsOK
  <2>2. LocalsOK' /\ FieldsOK'
    BY <1>inv DEF LocalsOK, FieldsOK, TypeOK, DxgiTypeOK
  <2>3. RefsOK'
    <3>1. Live' = Live /\ \A e \in Captures : Refs(e)' = Refs(e)
      BY <1>inv DEF Refs, Live
    <3>. QED BY <3>1, <1>inv, RefsMove
  <2>. QED BY <2>1, <2>2, <2>3 DEF ProxyInv
<1>13. ASSUME NEW c \in Captures, RecoverPanic(c) PROVE ProxyInv'
  <2>. USE <1>13 DEF RecoverPanic, At
  <2>1. TypeOK'
    BY <1>inv, <1>hr DEF TypeOK, DxgiTypeOK, LocalsOK
  <2>2. LocalsOK' /\ FieldsOK'
    BY <1>inv DEF LocalsOK, FieldsOK, TypeOK, DxgiTypeOK
  <2>3. RefsOK'
    <3>1. Live' = Live /\ \A e \in Captures : Refs(e)' = Refs(e)
      BY <1>inv DEF Refs, Live
    <3>. QED BY <3>1, <1>inv, RefsMove
  <2>. QED BY <2>1, <2>2, <2>3 DEF ProxyInv
<1>14. ASSUME NEW c \in Captures, RecoverStore(c) PROVE ProxyInv'
  <2>. USE <1>14 DEF RecoverStore, Goto, At, Returns
  <2>1. TypeOK'
    BY <1>inv, <1>hr DEF TypeOK, DxgiTypeOK, LocalsOK
  <2>2. LocalsOK' /\ FieldsOK'
    BY <1>inv DEF LocalsOK, FieldsOK, TypeOK, DxgiTypeOK
  <2>3. Refs(c)' = Refs(c) /\ \A e \in Captures \ {c} : Refs(e)' = Refs(e)
    BY <1>inv DEF Refs, TypeOK, FieldsOK
  <2>4. RefsOK'
    BY <1>inv, <2>3, RefsMove DEF Live
  <2>. QED BY <2>1, <2>2, <2>4 DEF ProxyInv
<1>15. ASSUME NEW c \in Captures, RecoverFail(c) PROVE ProxyInv'
  <2>. USE <1>15 DEF RecoverFail, StepFails, At, Returns
  <2>1. TypeOK'
    BY <1>inv, <1>hr DEF TypeOK, DxgiTypeOK, LocalsOK
  <2>2. LocalsOK' /\ FieldsOK'
    BY <1>inv DEF LocalsOK, FieldsOK, TypeOK, DxgiTypeOK
  <2>3. RefsOK'
    <3>1. Live' = Live /\ \A e \in Captures : Refs(e)' = Refs(e)
      BY <1>inv DEF Refs, Live
    <3>. QED BY <3>1, <1>inv, RefsMove
  <2>. QED BY <2>1, <2>2, <2>3 DEF ProxyInv
<1>16. ASSUME NEW c \in Captures, GetFramePointerShape(c) PROVE ProxyInv'
  <2>. USE <1>16 DEF GetFramePointerShape, At, Returns
  <2>1. TypeOK'
    BY <1>inv, <1>hr, PointerAnswersType DEF TypeOK, DxgiTypeOK, LocalsOK
  <2>2. LocalsOK' /\ FieldsOK'
    BY <1>inv DEF LocalsOK, FieldsOK, TypeOK, DxgiTypeOK
  <2>3. RefsOK'
    <3>1. Live' = Live /\ \A e \in Captures : Refs(e)' = Refs(e)
      BY <1>inv DEF Refs, Live
    <3>. QED BY <3>1, <1>inv, RefsMove
  <2>. QED BY <2>1, <2>2, <2>3 DEF ProxyInv
<1>20. ASSUME NEW c \in Captures, DuplicateCall(c) PROVE ProxyInv'
  <2>. USE <1>20 DEF DuplicateCall, Goto, At, Returns
  <2>1. LocalsOK' /\ FieldsOK'
    BY <1>inv DEF LocalsOK, FieldsOK, TypeOK, DxgiTypeOK
  <2>4. pc' \in [Captures -> PCs] /\ ret' \in [Captures -> [op : Ops, hr : HResults]]
    <3>1. PICK w \in {"closed", "idle"}, hr \in {"ok", "fail"} :
               /\ pc' = [pc EXCEPT ![c] = w]
               /\ ret' = [ret EXCEPT ![c] = [op |-> "duplicate", hr |-> hr]]
      BY Zenon
    <3>. QED BY <3>1, <1>inv, <1>hr DEF TypeOK
  <2>2. CASE inst' = inst /\ real' = real /\ lastSource' = lastSource
    <3>1. TypeOK'
      BY <2>2, <2>4, <1>inv DEF TypeOK, DxgiTypeOK
    <3>2. Live' = Live /\ \A e \in Captures : Refs(e)' = Refs(e)
      BY <2>2 DEF Refs, Live
    <3>3. RefsOK'
      BY <3>2, <1>inv, RefsMove
    <3>. QED BY <2>1, <3>1, <3>3 DEF ProxyInv
  <2>3. CASE \E st \in DuplicateAnswers(OpenThread[c], Dev[c], Target[c], c \in upToDate)
                         \ {"fail"}, i \in Instances \ Live :
               /\ inst' = [inst EXCEPT ![i] = NewInst(st, Target[c], Dev[c])]
               /\ real' = [real EXCEPT ![c] = i]
               /\ lastSource' = Dev[c]
    <3>1. PICK st \in Health, i \in Instances \ Live :
               /\ inst' = [inst EXCEPT ![i] = NewInst(st, Target[c], Dev[c])]
               /\ real' = [real EXCEPT ![c] = i]
               /\ lastSource' = Dev[c]
      BY <2>3, DuplicateAnswersType
    <3>2. Refs(c)' = Refs(c) \cup {i} /\ \A e \in Captures \ {c} : Refs(e)' = Refs(e)
      BY <3>1, <1>inv DEF Refs, TypeOK, FieldsOK
    <3>3. inst' \in [Instances -> LiveInst \cup {Free}] /\ RefsOK'
      BY <3>1, <3>2, <1>inv, NewInstKeepsRefs
    <3>4. TypeOK'
      BY <3>1, <3>3, <2>4, <1>inv DEF TypeOK, DxgiTypeOK
    <3>. QED BY <2>1, <3>3, <3>4 DEF ProxyInv
  <2>. QED BY <2>2, <2>3
<1>21. ASSUME NEW c \in Captures, CloseProxy(c) PROVE ProxyInv'
  <2>. USE <1>21 DEF CloseProxy, Goto, At, Returns
  <2>1. LocalsOK' /\ FieldsOK'
    BY <1>inv DEF LocalsOK, FieldsOK, TypeOK
  <2>2. \A e \in Captures : Refs(e)' \subseteq Refs(e)
    BY <1>inv DEF Refs, TypeOK
  <2>3. \A e \in Captures : \A i \in Refs(e) : inst[i] \in LiveInst
    BY <1>inv, ReferencedIsLive
  <2>4. inst' \in [Instances -> LiveInst \cup {Free}] /\ RefsOK'
    BY <2>2, <2>3, <1>inv, CollectKeepsRefs
  <2>5. TypeOK'
    BY <2>4, <1>inv, <1>hr DEF TypeOK, DxgiTypeOK
  <2>. QED BY <2>1, <2>4, <2>5 DEF ProxyInv
<1>22. ASSUME NEW c \in Captures, AcquireFrame(c) PROVE ProxyInv'
  <2>. DEFINE f == [inst EXCEPT ![real[c]].frame = TRUE]
  <2>. USE <1>22 DEF AcquireFrame, Goto, At, Returns
  <2>1. LocalsOK' /\ FieldsOK'
    BY <1>inv DEF LocalsOK, FieldsOK, TypeOK
  <2>2. real[c] \in Refs(c)
    BY <1>inv DEF FieldsOK, Refs
  <2>3. \A e \in Captures : Refs(e)' \subseteq Refs(e)
    BY <1>inv, <2>2 DEF Refs, TypeOK
  <2>4. ASSUME NEW e \in Captures, NEW i \in Refs(e) PROVE f[i] \in LiveInst
    <3>1. i \in Instances /\ inst[i] \in LiveInst
      BY <1>inv, ReferencedIsLive
    <3>. QED BY <3>1, <1>inv DEF TypeOK, DxgiTypeOK, LiveInst
  <2>5. Collect(f)
    OBVIOUS
  <2>6. inst' \in [Instances -> LiveInst \cup {Free}] /\ RefsOK'
    <3>. HIDE DEF f
    <3>. QED BY <2>3, <2>4, <2>5, <1>inv, CollectKeepsRefs
  <2>7. TypeOK'
    BY <2>2, <2>6, <1>inv, <1>hr, <1>refs DEF TypeOK, DxgiTypeOK
  <2>. QED BY <2>1, <2>6, <2>7 DEF ProxyInv
<1>23. ASSUME NEW c \in Captures, AcquireLost(c) PROVE ProxyInv'
  <2>. USE <1>23 DEF AcquireLost, Goto, At
  <2>1. LocalsOK' /\ FieldsOK'
    BY <1>inv DEF LocalsOK, FieldsOK, TypeOK
  <2>2. \A e \in Captures : Refs(e)' \subseteq Refs(e)
    BY <1>inv DEF Refs, TypeOK
  <2>3. \A e \in Captures : \A i \in Refs(e) : inst[i] \in LiveInst
    BY <1>inv, ReferencedIsLive
  <2>4. inst' \in [Instances -> LiveInst \cup {Free}] /\ RefsOK'
    BY <2>2, <2>3, <1>inv, CollectKeepsRefs
  <2>5. TypeOK'
    BY <2>4, <1>inv DEF TypeOK, DxgiTypeOK
  <2>. QED BY <2>1, <2>4, <2>5 DEF ProxyInv
<1>24. ASSUME NEW c \in Captures, RecoverDuplicate(c) PROVE ProxyInv'
  <2>. USE <1>24 DEF RecoverDuplicate, Goto, At
  <2>1. PICK st \in Health, i \in Instances \ Live :
             /\ inst' = [inst EXCEPT ![i] = NewInst(st, ridx[c], rdev[c])]
             /\ fresh' = [fresh EXCEPT ![c] = i]
    BY DuplicateAnswersType
  <2>2. LocalsOK' /\ FieldsOK'
    BY <2>1, <1>inv DEF LocalsOK, FieldsOK, TypeOK
  <2>3. Refs(c)' = Refs(c) \cup {i} /\ \A e \in Captures \ {c} : Refs(e)' = Refs(e)
    BY <2>1, <1>inv DEF Refs, TypeOK, LocalsOK
  <2>4. rdev[c] \in Devices /\ ridx[c] \in Outputs
    BY <1>inv DEF LocalsOK
  <2>5. inst' \in [Instances -> LiveInst \cup {Free}] /\ RefsOK'
    BY <2>1, <2>3, <2>4, <1>inv, NewInstKeepsRefs
  <2>6. TypeOK'
    BY <2>1, <2>5, <1>inv DEF TypeOK, DxgiTypeOK
  <2>. QED BY <2>2, <2>5, <2>6 DEF ProxyInv
<1>25. ASSUME NEW c \in Captures, ReleaseFrame(c) PROVE ProxyInv'
  <2>. USE <1>25 DEF ReleaseFrame, At, Returns
  <2>1. LocalsOK' /\ FieldsOK'
    BY <1>inv DEF LocalsOK, FieldsOK, TypeOK
  <2>2. \A e \in Captures : Refs(e)' \subseteq Refs(e)
    BY <1>inv DEF Refs, TypeOK
  <2>3. PICK f : f \in {inst, [inst EXCEPT ![owner[c]].frame = FALSE]} /\ Collect(f)
    OBVIOUS
  <2>4. ASSUME NEW e \in Captures, NEW i \in Refs(e) PROVE f[i] \in LiveInst
    <3>1. i \in Instances /\ inst[i] \in LiveInst
      BY <1>inv, ReferencedIsLive
    <3>2. f[i] \in {inst[i], [inst[i] EXCEPT !.frame = FALSE]}
      BY <3>1, <2>3, <1>inv DEF TypeOK, DxgiTypeOK
    <3>. QED BY <3>1, <3>2 DEF LiveInst
  <2>5. inst' \in [Instances -> LiveInst \cup {Free}] /\ RefsOK'
    BY <2>2, <2>3, <2>4, <1>inv, CollectKeepsRefs
  <2>6. TypeOK'
    BY <2>5, <1>inv, <1>hr DEF TypeOK, DxgiTypeOK
  <2>. QED BY <2>1, <2>5, <2>6 DEF ProxyInv
<1>26. ASSUME EnvNext PROVE ProxyInv'
  <2>. USE <1>26 DEF EnvNext
  <2>1. LocalsOK' /\ FieldsOK' /\ \A c \in Captures : Refs(c)' = Refs(c)
    BY <1>inv DEF LocalsOK, FieldsOK, Refs
  <2>2. inst' \in [Instances -> LiveInst \cup {Free}] /\ Live' = Live
    BY <1>inv, LoseKeepsObjects
       DEF TypeOK, DxgiTypeOK, Live, DxgiNext, BeginSwitch, EndSwitch, TearDown, Recreate,
           RemoveDevice
  <2>3. DxgiTypeOK'
    BY <2>2, <1>inv
       DEF TypeOK, DxgiTypeOK, DxgiNext, BeginSwitch, EndSwitch, TearDown, Recreate,
           RemoveDevice
  <2>4. TypeOK'
    BY <2>3, <1>inv DEF TypeOK
  <2>5. RefsOK'
    BY <2>1, <2>2, <1>inv, RefsMove
  <2>. QED BY <2>1, <2>4, <2>5 DEF ProxyInv
<1>27. CASE UNCHANGED vars
  BY <1>27, <1>inv
     DEF vars, ProxyInv, TypeOK, DxgiTypeOK, LocalsOK, FieldsOK, RefsOK, Refs, Live
<1>. QED
  BY <1>1, <1>2, <1>3, <1>4, <1>5, <1>6, <1>7, <1>8, <1>9, <1>10, <1>11, <1>12, <1>13, <1>14, <1>15, <1>16, <1>20, <1>21, <1>22, <1>23, <1>24, <1>25, <1>26, <1>27
     DEF Next, CaptureNext, Open, Acquire, Recover

\* The proxies, the statics and the duplication objects keep their types, and
\* ProxyInv holds, in every reachable state.
THEOREM TypeCorrect == Spec => []TypeOK
<1>1. ProxyInv => TypeOK
  BY DEF ProxyInv
<1>. QED BY <1>1, ProxyInvInit, ProxyInvStep, PTL DEF Spec

-----------------------------------------------------------------------------
(* The safety properties.                                                  *)

USE DEF envVars, statics, locals, proxy, host, Recovering, Critical, PCs, Ops,
        Opening, HasDevice, HasIndex

\* ProxyInv as a fact about behaviors, for the theorems below.
LEMMA ProxyInvHolds == Spec => []ProxyInv
BY ProxyInvInit, ProxyInvStep, PTL DEF Spec

-----------------------------------------------------------------------------
(* What the objects of a capture were made for.                            *)

\* An object keeps its output and its device; a capture gets a new one from
\* its client's own duplicate call or from the recovery it is in.
ObjectsFollow ==
  \A c \in Captures : \A i \in Refs(c)' :
    \/ i \in Refs(c) /\ inst'[i].out = inst[i].out /\ inst'[i].dev = inst[i].dev
    \/ inst'[i].out = Target[c] /\ inst'[i].dev = Dev[c]
    \/ pc[c] = "dup" /\ inst'[i].out = ridx[c] /\ inst'[i].dev = rdev[c]

\* No step gives a capture an object of another output or device.
LEMMA ObjectStep ==
  ASSUME ProxyInv, [Next]_vars
  PROVE  ObjectsFollow
<1>. USE DxgiAssumption, ProxyAssumption
<1>inv. TypeOK /\ LocalsOK /\ FieldsOK /\ RefsOK
  BY DEF ProxyInv
<1>rec. ASSUME NEW e \in Captures, NEW i \in Refs(e) PROVE i \in Instances /\ inst[i] \in LiveInst
  BY <1>inv, ReferencedIsLive
<1>1. ASSUME \A e \in Captures : Refs(e)' \subseteq Refs(e), inst' = inst PROVE ObjectsFollow
  BY <1>1 DEF ObjectsFollow
<1>2. ASSUME \A e \in Captures : Refs(e)' \subseteq Refs(e), NEW f, Collect(f),
             \A e \in Captures : \A i \in Refs(e) :
               f[i] \in {inst[i], [inst[i] EXCEPT !.frame = TRUE], [inst[i] EXCEPT !.frame = FALSE]}
      PROVE  ObjectsFollow
  <2>1. ASSUME NEW e \in Captures, NEW i \in Refs(e)
        PROVE  f[i] \in LiveInst /\ f[i].out = inst[i].out /\ f[i].dev = inst[i].dev
    <3>1. inst[i] \in LiveInst
      BY <2>1, <1>rec
    <3>2. CASE f[i] = inst[i]
      BY <3>1, <3>2 DEF LiveInst
    <3>3. CASE f[i] = [inst[i] EXCEPT !.frame = TRUE]
      BY <3>1, <3>3 DEF LiveInst
    <3>4. CASE f[i] = [inst[i] EXCEPT !.frame = FALSE]
      BY <3>1, <3>4 DEF LiveInst
    <3>. QED BY <1>2, <2>1, <3>2, <3>3, <3>4
  <2>2. \A e \in Captures : \A i \in Refs(e)' : inst'[i] = f[i]
    BY <1>2, <2>1, <1>inv, CollectKeepsRefs
  <2>. QED BY <1>2, <2>1, <2>2 DEF ObjectsFollow
<1>3. ASSUME NEW c \in Captures, NEW i \in Instances \ Live,
             \A j \in Instances \ {i} : inst'[j] = inst[j],
             Refs(c)' \subseteq Refs(c) \cup {i}, \A e \in Captures \ {c} : Refs(e)' \subseteq Refs(e),
             \/ inst'[i].out = Target[c] /\ inst'[i].dev = Dev[c]
             \/ pc[c] = "dup" /\ inst'[i].out = ridx[c] /\ inst'[i].dev = rdev[c]
      PROVE  ObjectsFollow
  <2>1. \A e \in Captures : i \notin Refs(e)
    BY <1>3, <1>inv DEF RefsOK
  <2>. QED BY <1>3, <2>1, <1>rec DEF ObjectsFollow
<1>new. ASSUME NEW i \in Instances, NEW st, NEW o, NEW d, inst' = [inst EXCEPT ![i] = NewInst(st, o, d)]
        PROVE  inst'[i].out = o /\ inst'[i].dev = d /\ \A j \in Instances \ {i} : inst'[j] = inst[j]
  BY <1>new, <1>inv DEF TypeOK, DxgiTypeOK, NewInst
<1>4. ASSUME NEW c \in Captures, DuplicateCall(c) PROVE ObjectsFollow
  <2>1. UNCHANGED <<owner, fresh>> /\ pc[c] = "open_call"
    BY <1>4 DEF DuplicateCall, Goto, At
  <2>2. CASE UNCHANGED <<inst, real>>
    BY <2>1, <2>2, <1>1 DEF Refs
  <2>3. CASE \E st \in Health, i \in Instances \ Live :
               /\ inst' = [inst EXCEPT ![i] = NewInst(st, Target[c], Dev[c])]
               /\ real' = [real EXCEPT ![c] = i]
    <3>1. PICK st \in Health, i \in Instances \ Live :
               /\ inst' = [inst EXCEPT ![i] = NewInst(st, Target[c], Dev[c])]
               /\ real' = [real EXCEPT ![c] = i]
      BY <2>3
    <3>2. Refs(c)' \subseteq Refs(c) \cup {i} /\ \A e \in Captures \ {c} : Refs(e)' \subseteq Refs(e)
      BY <2>1, <3>1, <1>inv DEF Refs, TypeOK
    <3>3. /\ inst'[i].out = Target[c] /\ inst'[i].dev = Dev[c]
          /\ \A j \in Instances \ {i} : inst'[j] = inst[j]
      BY <3>1, <1>new
    <3>. QED BY <3>2, <3>3, <1>3
  <2>. QED BY <1>4, <2>2, <2>3, DuplicateAnswersType DEF DuplicateCall
<1>5. ASSUME NEW c \in Captures, RecoverDuplicate(c) PROVE ObjectsFollow
  <2>1. UNCHANGED <<owner, real>> /\ pc[c] = "dup"
    BY <1>5 DEF RecoverDuplicate, Goto, At
  <2>2. PICK st \in Health, i \in Instances \ Live :
             /\ inst' = [inst EXCEPT ![i] = NewInst(st, ridx[c], rdev[c])]
             /\ fresh' = [fresh EXCEPT ![c] = i]
    BY <1>5, DuplicateAnswersType DEF RecoverDuplicate
  <2>3. Refs(c)' \subseteq Refs(c) \cup {i} /\ \A e \in Captures \ {c} : Refs(e)' \subseteq Refs(e)
    BY <2>1, <2>2, <1>inv DEF Refs, TypeOK
  <2>4. /\ inst'[i].out = ridx[c] /\ inst'[i].dev = rdev[c]
        /\ \A j \in Instances \ {i} : inst'[j] = inst[j]
    BY <2>2, <1>new
  <2>. QED BY <2>1, <2>3, <2>4, <1>3
<1>6. ASSUME NEW c \in Captures, CloseProxy(c) \/ AcquireLost(c) PROVE ObjectsFollow
  <2>1. Collect(inst) /\ \A e \in Captures : Refs(e)' \subseteq Refs(e)
    BY <1>6, <1>inv DEF CloseProxy, AcquireLost, Refs, TypeOK
  <2>. QED BY <2>1, <1>2
<1>7. ASSUME NEW c \in Captures, AcquireFrame(c) PROVE ObjectsFollow
  <2>1. real[c] \in Refs(c)
    BY <1>7, <1>inv DEF AcquireFrame, Goto, At, FieldsOK, Refs
  <2>2. \A e \in Captures : Refs(e)' \subseteq Refs(e)
    BY <1>7, <2>1, <1>inv DEF AcquireFrame, Refs, TypeOK
  <2>3. PICK f : f = [inst EXCEPT ![real[c]].frame = TRUE] /\ Collect(f)
    BY <1>7 DEF AcquireFrame
  <2>4. \A e \in Captures : \A i \in Refs(e) :
          f[i] \in {inst[i], [inst[i] EXCEPT !.frame = TRUE], [inst[i] EXCEPT !.frame = FALSE]}
    BY <2>3, <1>rec, <1>inv DEF TypeOK, DxgiTypeOK
  <2>. QED BY <2>2, <2>3, <2>4, <1>2
<1>8. ASSUME NEW c \in Captures, ReleaseFrame(c) PROVE ObjectsFollow
  <2>1. \A e \in Captures : Refs(e)' \subseteq Refs(e)
    BY <1>8, <1>inv DEF ReleaseFrame, Refs, TypeOK
  <2>2. PICK f : f \in {inst, [inst EXCEPT ![owner[c]].frame = FALSE]} /\ Collect(f)
    BY <1>8 DEF ReleaseFrame
  <2>3. \A e \in Captures : \A i \in Refs(e) :
          f[i] \in {inst[i], [inst[i] EXCEPT !.frame = TRUE], [inst[i] EXCEPT !.frame = FALSE]}
    BY <2>2, <1>rec, <1>inv DEF TypeOK, DxgiTypeOK
  <2>. QED BY <2>1, <2>2, <2>3, <1>2
<1>9. ASSUME NEW c \in Captures, RecoverStore(c) PROVE ObjectsFollow
  BY <1>9, <1>1, <1>inv DEF RecoverStore, Goto, At, Refs, TypeOK, FieldsOK
<1>10. ASSUME EnvNext PROVE ObjectsFollow
  <2>1. \A e \in Captures : Refs(e)' = Refs(e)
    BY <1>10 DEF EnvNext, Refs
  <2>2. CASE inst' = inst
    BY <2>1, <2>2, <1>1
  <2>3. CASE \E S : inst' = Lose(S)
    <3>1. \A i \in Live : inst'[i] = [inst[i] EXCEPT !.st = "lost"] \/ inst'[i] = inst[i]
      BY <2>3, <1>inv, LoseKeepsObjects DEF TypeOK
    <3>2. ASSUME NEW i \in Live, inst[i] \in LiveInst
          PROVE  inst'[i].out = inst[i].out /\ inst'[i].dev = inst[i].dev
      BY <3>1, <3>2 DEF LiveInst
    <3>. QED BY <3>2, <2>1, <1>rec, <1>inv DEF ObjectsFollow, RefsOK
  <2>. QED
    BY <1>10, <2>2, <2>3
       DEF EnvNext, DxgiNext, BeginSwitch, EndSwitch, TearDown, Recreate, RemoveDevice
<1>11. ASSUME NEW c \in Captures,
              \/ \E o \in Outputs : EnumOutputs(c, o)
              \/ OutputQueryInterface(c) \/ DuplicateBegin(c) \/ DuplicateLock(c)
              \/ AcquireBegin(c) \/ AcquirePassOn(c) \/ GetFramePointerShape(c)
       PROVE  ObjectsFollow
  BY <1>1, <1>11
     DEF EnumOutputs, OutputQueryInterface, DuplicateBegin, DuplicateLock, AcquireBegin,
         AcquirePassOn, GetFramePointerShape, Refs
<1>12. ASSUME NEW c \in Captures, Recover(c) PROVE ObjectsFollow
  <2>1. CASE RecoverDuplicate(c) \/ RecoverStore(c)
    BY <2>1, <1>5, <1>9
  <2>2. CASE RecoverPanic(c) \/ RecoverFail(c)
    BY <2>2, <1>1 DEF RecoverPanic, RecoverFail, Refs
  <2>3. CASE \/ RecoverAttach(c) \/ RecoverSource(c) \/ RecoverIndex(c) \/ RecoverLock(c)
             \/ RecoverAdapter(c) \/ RecoverEnumOutput(c)
    BY <2>3, <1>1
       DEF RecoverAttach, RecoverSource, RecoverIndex, RecoverLock, RecoverAdapter,
           RecoverEnumOutput, Refs
  <2>. QED BY <1>12, <2>1, <2>2, <2>3 DEF Recover
<1>13. CASE UNCHANGED vars
  BY <1>1, <1>13 DEF vars, Refs
<1>. QED
  BY <1>4, <1>6, <1>7, <1>8, <1>10, <1>11, <1>12, <1>13 DEF Next, CaptureNext, Open, Acquire

\* Hosts of one display: what any client enumerates is what every one captures.
OneOutput == \A c, d \in Captures : Enumerated[d] \subseteq {Target[c]}

\* Hosts of one device.
OneDevice == \A c, d \in Captures : Dev[c] = Dev[d]

\* LAST_OUTPUT_INDEX names the target before anything is duplicated, and the
\* index of a recovery and every object of a capture follow it.
OutputInv ==
  /\ \A c \in Captures :
       hostOut[c] # "none" \/ pc[c] # "closed" => \A d \in Captures : lastIndex = Target[d]
  /\ \A c \in Captures : ridx[c] # NoOut => ridx[c] = Target[c]
  /\ \A c \in Captures : \A i \in Refs(c) : inst[i].out = Target[c]

\* The same for the device in LAST_DUPLICATION_SOURCE.
DeviceInv ==
  /\ lastSource # NoDev => \A d \in Captures : lastSource = Dev[d]
  /\ \A c \in Captures : rdev[c] # NoDev => rdev[c] = Dev[c]
  /\ \A c \in Captures : \A i \in Refs(c) : inst[i].dev = Dev[c]

\* Only EnumOutputs moves the index and only RecoverIndex reads it.
LEMMA OutputStep ==
  ASSUME OneOutput, ProxyInv, OutputInv, [Next]_vars
  PROVE  OutputInv'
<1>. USE DxgiAssumption, ProxyAssumption
<1>inv. TypeOK /\ LocalsOK
  BY DEF ProxyInv
<1>obj. \A c \in Captures : \A i \in Refs(c)' : inst'[i].out = Target[c]
  <2>1. \A c \in Captures : pc[c] = "dup" => ridx[c] = Target[c]
    BY <1>inv DEF OutputInv, LocalsOK
  <2>2. ObjectsFollow
    BY ObjectStep
  <2>. QED BY <2>1, <2>2 DEF ObjectsFollow, OutputInv
<1>1. ASSUME UNCHANGED lastIndex,
             \A e \in Captures : hostOut'[e] # "none" \/ pc'[e] # "closed" =>
                                hostOut[e] # "none" \/ pc[e] # "closed",
             \A e \in Captures : ridx'[e] \in {ridx[e], NoOut}
      PROVE  OutputInv'
  BY <1>1, <1>obj DEF OutputInv
<1>2. ASSUME NEW c \in Captures, UNCHANGED <<lastIndex, hostOut, ridx>>, pc[c] # "closed",
             \A e \in Captures \ {c} : pc'[e] = pc[e]
      PROVE  OutputInv'
  BY <1>1, <1>2
<1>3. ASSUME UNCHANGED <<lastIndex, hostOut, pc, ridx>> PROVE OutputInv'
  BY <1>1, <1>3
<1>4. ASSUME NEW c \in Captures, NEW o \in Outputs, EnumOutputs(c, o) PROVE OutputInv'
  <2>1. lastIndex' = o /\ o \in Enumerated[c] /\ UNCHANGED ridx
    BY <1>4 DEF EnumOutputs
  <2>2. \A d \in Captures : lastIndex' = Target[d]
    BY <2>1 DEF OneOutput
  <2>. QED BY <2>1, <2>2, <1>obj DEF OutputInv
<1>5. ASSUME NEW c \in Captures, OutputQueryInterface(c) \/ DuplicateBegin(c) \/ CloseProxy(c) PROVE OutputInv'
  BY <1>5, <1>1, <1>inv
     DEF OutputQueryInterface, DuplicateBegin, CloseProxy, Goto, At, TypeOK
<1>6. ASSUME NEW c \in Captures, DuplicateLock(c) \/ DuplicateCall(c) PROVE OutputInv'
  BY <1>6, <1>2, <1>inv DEF DuplicateLock, DuplicateCall, Goto, At, TypeOK
<1>7. ASSUME NEW c \in Captures, AcquireBegin(c) \/ Acquire(c) PROVE OutputInv'
  BY <1>7, <1>2, <1>inv
     DEF AcquireBegin, Acquire, AcquireFrame, AcquirePassOn, AcquireLost, Goto, At, TypeOK
<1>8. ASSUME NEW c \in Captures, Recover(c) PROVE OutputInv'
  <2>1. CASE RecoverIndex(c)
    <3>1. /\ UNCHANGED <<lastIndex, hostOut>> /\ pc[c] = "index"
          /\ \A e \in Captures \ {c} : pc'[e] = pc[e] /\ ridx'[e] = ridx[e]
          /\ ridx'[c] = lastIndex
      BY <2>1, <1>inv DEF RecoverIndex, Goto, At, TypeOK
    <3>. QED BY <3>1, <1>obj DEF OutputInv
  <2>2. CASE RecoverPanic(c)
    BY <2>2, <1>3 DEF RecoverPanic
  <2>3. CASE RecoverStore(c)
    <3>1. UNCHANGED <<lastIndex, hostOut>> /\ pc[c] = "store" /\ ridx' = [ridx EXCEPT ![c] = NoOut]
          /\ \A e \in Captures \ {c} : pc'[e] = pc[e]
      BY <2>3, <1>inv DEF RecoverStore, Goto, At, TypeOK
    <3>. QED BY <3>1, <1>1, <1>inv DEF TypeOK
  <2>4. CASE RecoverFail(c)
    <3>1. UNCHANGED <<lastIndex, hostOut>> /\ pc[c] # "closed" /\ ridx' = [ridx EXCEPT ![c] = NoOut]
          /\ \A e \in Captures \ {c} : pc'[e] = pc[e]
      BY <2>4, <1>inv DEF RecoverFail, StepFails, At, TypeOK
    <3>. QED BY <3>1, <1>1, <1>inv DEF TypeOK
  <2>5. CASE \/ RecoverAttach(c) \/ RecoverSource(c) \/ RecoverLock(c)
             \/ RecoverAdapter(c) \/ RecoverEnumOutput(c) \/ RecoverDuplicate(c)
    BY <2>5, <1>2, <1>inv
       DEF RecoverAttach, RecoverSource, RecoverLock, RecoverAdapter, RecoverEnumOutput,
           RecoverDuplicate, Goto, At, TypeOK
  <2>. QED BY <1>8, <2>1, <2>2, <2>3, <2>4, <2>5 DEF Recover
<1>9. ASSUME NEW c \in Captures, GetFramePointerShape(c) \/ ReleaseFrame(c) PROVE OutputInv'
  BY <1>9, <1>3 DEF GetFramePointerShape, ReleaseFrame
<1>10. CASE EnvNext \/ UNCHANGED vars
  BY <1>10, <1>3 DEF EnvNext, vars
<1>. QED
  BY <1>4, <1>5, <1>6, <1>7, <1>8, <1>9, <1>10 DEF Next, CaptureNext, Open

\* state.rs 65-70: where every client enumerates the one display they all
\* capture, LAST_OUTPUT_INDEX leads every recovery back to it.
THEOREM RecoversSameOutput == ASSUME OneOutput PROVE Spec => []SameOutput
<1>1. Init => OutputInv
  BY DEF Init, OutputInv, Refs
<1>2. ProxyInv /\ OutputInv /\ [Next]_vars => OutputInv'
  BY OutputStep
<1>3. OutputInv => SameOutput
  BY DEF OutputInv, SameOutput, Refs
<1>. QED BY <1>1, <1>2, <1>3, ProxyInvHolds, PTL DEF Spec

\* The device goes from a duplicate call to LAST_DUPLICATION_SOURCE and from
\* there into a recovery and back.
LEMMA DeviceStep ==
  ASSUME OneDevice, ProxyInv, DeviceInv, [Next]_vars
  PROVE  DeviceInv'
<1>. USE DxgiAssumption, ProxyAssumption
<1>inv. TypeOK /\ LocalsOK
  BY DEF ProxyInv
<1>set. \A c \in Captures : pc[c] \in HasDevice => rdev[c] = Dev[c]
  BY <1>inv DEF DeviceInv, LocalsOK
<1>obj. \A c \in Captures : \A i \in Refs(c)' : inst'[i].dev = Dev[c]
  <2>1. ObjectsFollow
    BY ObjectStep
  <2>. QED BY <1>set, <2>1 DEF ObjectsFollow, DeviceInv
<1>1. ASSUME \/ UNCHANGED lastSource
             \/ \E c \in Captures : lastSource' = Dev[c],
             \A e \in Captures : rdev'[e] \in {rdev[e], NoDev}
      PROVE  DeviceInv'
  BY <1>1, <1>obj DEF DeviceInv, OneDevice
<1>2. ASSUME NEW c \in Captures, Open(c) PROVE DeviceInv'
  BY <1>2, <1>1
     DEF Open, EnumOutputs, OutputQueryInterface, DuplicateBegin, DuplicateLock, DuplicateCall,
         CloseProxy
<1>3. ASSUME NEW c \in Captures, AcquireBegin(c) \/ Acquire(c) PROVE DeviceInv'
  BY <1>3, <1>1 DEF AcquireBegin, Acquire, AcquireFrame, AcquirePassOn, AcquireLost
<1>4. ASSUME NEW c \in Captures, Recover(c) PROVE DeviceInv'
  <2>1. CASE RecoverSource(c)
    <3>1. /\ UNCHANGED lastSource /\ lastSource # NoDev /\ rdev'[c] = lastSource
          /\ \A e \in Captures \ {c} : rdev'[e] = rdev[e]
      BY <2>1, <1>inv DEF RecoverSource, TypeOK
    <3>. QED BY <3>1, <1>obj DEF DeviceInv
  <2>2. CASE RecoverStore(c)
    <3>1. lastSource' = Dev[c]
      BY <2>2, <1>set DEF RecoverStore, Goto, At
    <3>2. \A e \in Captures : rdev'[e] \in {rdev[e], NoDev}
      BY <2>2, <1>inv DEF RecoverStore, TypeOK
    <3>. QED BY <3>1, <3>2, <1>1
  <2>3. CASE RecoverFail(c)
    BY <2>3, <1>1, <1>inv DEF RecoverFail, TypeOK
  <2>4. CASE \/ RecoverAttach(c) \/ RecoverIndex(c) \/ RecoverLock(c) \/ RecoverAdapter(c)
             \/ RecoverEnumOutput(c) \/ RecoverDuplicate(c) \/ RecoverPanic(c)
    BY <2>4, <1>1
       DEF RecoverAttach, RecoverIndex, RecoverLock, RecoverAdapter, RecoverEnumOutput,
           RecoverDuplicate, RecoverPanic
  <2>. QED BY <1>4, <2>1, <2>2, <2>3, <2>4 DEF Recover
<1>5. ASSUME NEW c \in Captures, GetFramePointerShape(c) \/ ReleaseFrame(c) PROVE DeviceInv'
  BY <1>5, <1>1 DEF GetFramePointerShape, ReleaseFrame
<1>6. CASE EnvNext \/ UNCHANGED vars
  BY <1>6, <1>1 DEF EnvNext, vars
<1>. QED BY <1>2, <1>3, <1>4, <1>5, <1>6 DEF Next, CaptureNext

\* recovery.rs 86-98: where every client captures with the one device, every
\* recovery duplicates on it, and the frames stay copyable.
THEOREM RecoversSameDevice == ASSUME OneDevice PROVE Spec => []SameDevice
<1>1. Init => DeviceInv
  BY DEF Init, DeviceInv, Refs
<1>2. ProxyInv /\ DeviceInv /\ [Next]_vars => DeviceInv'
  BY DeviceStep
<1>3. DeviceInv => SameDevice
  BY DEF DeviceInv, SameDevice, Refs
<1>. QED BY <1>1, <1>2, <1>3, ProxyInvHolds, PTL DEF Spec

-----------------------------------------------------------------------------
(* locked_frame_owner.                                                     *)

\* The owner of a held frame is an object of its capture alone, so no step of
\* another capture, no recovery of its own and no loss unlocks it.
LEMMA HeldFrameStep ==
  ASSUME ProxyInv, HeldFrameHasOwner, [Next]_vars
  PROVE  HeldFrameHasOwner'
<1>. USE DxgiAssumption, ProxyAssumption
<1>inv. TypeOK /\ LocalsOK /\ FieldsOK /\ RefsOK
  BY DEF ProxyInv
<1>live. ASSUME NEW e \in Captures, owner[e] # NoInst
         PROVE  owner[e] \in Refs(e) /\ owner[e] \in Live
  BY <1>live, <1>inv DEF RefsOK, Refs
<1>rec. ASSUME NEW e \in Captures, NEW i \in Refs(e) PROVE i \in Instances /\ inst[i] \in LiveInst
  BY <1>inv, ReferencedIsLive
<1>1. ASSUME UNCHANGED <<inst, owner, held>> PROVE HeldFrameHasOwner'
  BY <1>1 DEF HeldFrameHasOwner
<1>2. ASSUME UNCHANGED <<owner, held>>,
             NEW i \in Instances \ Live, NEW r, inst' = [inst EXCEPT ![i] = r]
      PROVE  HeldFrameHasOwner'
  BY <1>2, <1>live, <1>inv DEF HeldFrameHasOwner, TypeOK, DxgiTypeOK
<1>3. ASSUME NEW c \in Captures, DuplicateCall(c) PROVE HeldFrameHasOwner'
  <2>1. UNCHANGED <<owner, held>>
    BY <1>3 DEF DuplicateCall
  <2>2. CASE inst' = inst
    BY <2>1, <2>2, <1>1
  <2>3. CASE \E i \in Instances \ Live : \E r : inst' = [inst EXCEPT ![i] = r]
    BY <2>1, <2>3, <1>2
  <2>. QED BY <1>3, <2>2, <2>3 DEF DuplicateCall
<1>4. ASSUME NEW c \in Captures, RecoverDuplicate(c) PROVE HeldFrameHasOwner'
  <2>1. UNCHANGED <<owner, held>>
    BY <1>4 DEF RecoverDuplicate
  <2>2. \E i \in Instances \ Live : \E r : inst' = [inst EXCEPT ![i] = r]
    BY <1>4 DEF RecoverDuplicate
  <2>. QED BY <2>1, <2>2, <1>2
<1>5. ASSUME NEW c \in Captures, CloseProxy(c) PROVE HeldFrameHasOwner'
  <2>. USE <1>5 DEF CloseProxy, Goto, At
  <2>1. \A e \in Captures : Refs(e)' \subseteq Refs(e)
    BY <1>inv DEF Refs, TypeOK
  <2>2. \A e \in Captures : \A i \in Refs(e)' : inst'[i] = inst[i]
    BY <2>1, <1>rec, <1>inv, CollectKeepsRefs
  <2>3. \A e \in Captures \ {c} : owner'[e] = owner[e] /\ held'[e] = held[e]
    BY <1>inv DEF TypeOK
  <2>4. owner'[c] = NoInst /\ ~held'[c]
    BY <1>inv DEF TypeOK
  <2>. QED BY <2>2, <2>3, <2>4 DEF HeldFrameHasOwner, Refs
<1>6. ASSUME NEW c \in Captures, AcquireLost(c) PROVE HeldFrameHasOwner'
  <2>. USE <1>6 DEF AcquireLost, Goto, At
  <2>1. \A e \in Captures : Refs(e)' \subseteq Refs(e)
    BY <1>inv DEF Refs, TypeOK
  <2>2. \A e \in Captures : \A i \in Refs(e)' : inst'[i] = inst[i]
    BY <2>1, <1>rec, <1>inv, CollectKeepsRefs
  <2>. QED BY <2>2 DEF HeldFrameHasOwner, Refs
<1>7. ASSUME NEW c \in Captures, AcquireFrame(c) PROVE HeldFrameHasOwner'
  <2>. DEFINE f == [inst EXCEPT ![real[c]].frame = TRUE]
  <2>. USE <1>7 DEF AcquireFrame, Goto, At
  <2>1. real[c] \in Refs(c)
    BY <1>inv DEF FieldsOK, Refs
  <2>2. \A e \in Captures : Refs(e)' \subseteq Refs(e)
    BY <1>inv, <2>1 DEF Refs, TypeOK
  <2>3. ASSUME NEW e \in Captures, NEW i \in Refs(e) PROVE f[i] \in LiveInst
    <3>1. f[i] \in {inst[i], [inst[i] EXCEPT !.frame = TRUE]}
      BY <1>rec, <1>inv DEF TypeOK, DxgiTypeOK
    <3>. HIDE DEF f
    <3>. QED BY <3>1, <1>rec DEF LiveInst
  <2>4. \A e \in Captures : \A i \in Refs(e)' : inst'[i] = f[i]
    <3>1. Collect(f)
      OBVIOUS
    <3>. HIDE DEF f
    <3>. QED BY <3>1, <2>2, <2>3, <1>inv, CollectKeepsRefs
  <2>5. owner'[c] = real[c] /\ held'[c] /\ real[c] # NoInst
    BY <1>inv DEF TypeOK, FieldsOK
  <2>6. inst'[real[c]].frame
    BY <2>1, <2>4, <2>5, <1>rec, <1>inv DEF Refs, TypeOK, DxgiTypeOK, LiveInst
  <2>7. ASSUME NEW e \in Captures, e # c, owner[e] # NoInst
        PROVE  inst'[owner[e]] = inst[owner[e]]
    <3>1. owner'[e] = owner[e] /\ owner[e] # real[c]
      BY <2>1, <2>7, <1>live, <1>inv DEF RefsOK, TypeOK
    <3>2. inst'[owner[e]] = f[owner[e]]
      BY <3>1, <2>4, <2>7 DEF Refs
    <3>. QED BY <3>1, <3>2, <2>7, <1>live, <1>inv DEF TypeOK, DxgiTypeOK, Live
  <2>8. \A e \in Captures \ {c} : owner'[e] = owner[e] /\ held'[e] = held[e]
    BY <1>inv DEF TypeOK
  <2>. QED BY <2>5, <2>6, <2>7, <2>8 DEF HeldFrameHasOwner
<1>8. ASSUME NEW c \in Captures, ReleaseFrame(c) PROVE HeldFrameHasOwner'
  <2>. USE <1>8 DEF ReleaseFrame, At
  <2>1. \A e \in Captures : Refs(e)' \subseteq Refs(e)
    BY <1>inv DEF Refs, TypeOK
  <2>2. PICK f : f \in {inst, [inst EXCEPT ![owner[c]].frame = FALSE]} /\ Collect(f)
    OBVIOUS
  <2>3. ASSUME NEW e \in Captures, NEW i \in Refs(e)
        PROVE  f[i] \in LiveInst /\ (i # owner[c] => f[i] = inst[i])
    <3>1. f[i] \in {inst[i], [inst[i] EXCEPT !.frame = FALSE]}
      BY <2>2, <1>rec, <1>inv DEF TypeOK, DxgiTypeOK
    <3>2. i # owner[c] => f[i] = inst[i]
      BY <2>2, <1>rec, <1>inv DEF TypeOK, DxgiTypeOK
    <3>. QED BY <3>1, <3>2, <1>rec DEF LiveInst
  <2>4. \A e \in Captures : \A i \in Refs(e)' : inst'[i] = f[i]
    BY <2>1, <2>2, <2>3, <1>inv, CollectKeepsRefs
  <2>5. owner'[c] = NoInst /\ ~held'[c]
    BY <1>inv DEF TypeOK
  <2>6. ASSUME NEW e \in Captures, e # c, owner[e] # NoInst
        PROVE  inst'[owner[e]] = inst[owner[e]]
    <3>1. owner'[e] = owner[e] /\ (owner[e] = owner[c] => FALSE)
      BY <2>6, <1>live, <1>inv DEF RefsOK, TypeOK
    <3>. QED BY <3>1, <2>3, <2>4, <2>6, <1>live DEF Refs
  <2>7. \A e \in Captures \ {c} : owner'[e] = owner[e] /\ held'[e] = held[e]
    BY <1>inv DEF TypeOK
  <2>. QED BY <2>5, <2>6, <2>7 DEF HeldFrameHasOwner
<1>9. ASSUME EnvNext PROVE HeldFrameHasOwner'
  <2>1. UNCHANGED <<owner, held>>
    BY <1>9 DEF EnvNext
  <2>2. CASE inst' = inst
    BY <2>1, <2>2, <1>1
  <2>3. CASE \E S : inst' = Lose(S)
    <3>1. \A i \in Live : inst'[i].frame = inst[i].frame
      <4>1. \A i \in Live : inst'[i] = [inst[i] EXCEPT !.st = "lost"] \/ inst'[i] = inst[i]
        BY <2>3, <1>inv, LoseKeepsObjects DEF TypeOK
      <4>2. \A i \in Live : inst[i] \in LiveInst
        BY <1>inv DEF TypeOK, DxgiTypeOK, Live, Free
      <4>. QED BY <4>1, <4>2 DEF LiveInst
    <3>. QED BY <3>1, <2>1, <1>live DEF HeldFrameHasOwner
  <2>. QED
    BY <1>9, <2>2, <2>3
       DEF EnvNext, DxgiNext, BeginSwitch, EndSwitch, TearDown, Recreate, RemoveDevice
<1>10. ASSUME NEW c \in Captures,
              \/ \E o \in Outputs : EnumOutputs(c, o)
              \/ OutputQueryInterface(c) \/ DuplicateBegin(c) \/ DuplicateLock(c)
              \/ AcquireBegin(c) \/ AcquirePassOn(c) \/ GetFramePointerShape(c)
       PROVE  HeldFrameHasOwner'
  BY <1>1, <1>10
     DEF EnumOutputs, OutputQueryInterface, DuplicateBegin, DuplicateLock, AcquireBegin,
         AcquirePassOn, GetFramePointerShape
<1>11. ASSUME NEW c \in Captures, Recover(c) PROVE HeldFrameHasOwner'
  BY <1>1, <1>4, <1>11
     DEF Recover, RecoverAttach, RecoverSource, RecoverIndex, RecoverLock, RecoverAdapter,
         RecoverEnumOutput, RecoverPanic, RecoverStore, RecoverFail
<1>12. CASE UNCHANGED vars
  BY <1>1, <1>12 DEF vars
<1>. QED
  BY <1>3, <1>5, <1>6, <1>7, <1>8, <1>9, <1>10, <1>11, <1>12
     DEF Next, CaptureNext, Open, Acquire

\* duplication_proxy.rs 63-77: in every host, through every recovery, the
\* instance in locked_frame_owner is the one whose frame the client holds.
THEOREM HeldFrameAlwaysHasOwner == Spec => []HeldFrameHasOwner
<1>1. Init => HeldFrameHasOwner
  BY DEF Init, HeldFrameHasOwner
<1>2. ProxyInv /\ HeldFrameHasOwner /\ [Next]_vars => HeldFrameHasOwner'
  BY HeldFrameStep
<1>. QED BY <1>1, <1>2, ProxyInvHolds, PTL DEF Spec

-----------------------------------------------------------------------------
(* How many objects a capture keeps alive, and their frames.               *)

\* Hosts with one capture.
OneCapture == \A c, d \in Captures : c = d

\* An object of a capture beside another of its own is there for the frame
\* its client holds.
LEMMA SecondObjectIsHeld ==
  ASSUME ProxyInv, HeldFrameHasOwner, NEW c \in Captures,
         NEW i \in Refs(c), NEW j \in Refs(c), i # j
  PROVE  held[c] /\ owner[c] \in {i, j}
<1>1. real[c] = NoInst \/ fresh[c] = NoInst
  BY DEF ProxyInv, LocalsOK, FieldsOK
<1>2. owner[c] # NoInst /\ owner[c] \in {i, j}
  BY <1>1 DEF Refs
<1>. QED BY <1>2 DEF HeldFrameHasOwner

\* state.rs 79-92: with one capture in the process, whatever the interleaving
\* of losses and retries, two duplications of an output are alive together
\* only while the client holds a frame of one of them.
THEOREM OneLiveForOneCapture == ASSUME OneCapture PROVE Spec => []OneLivePerOutput
<1>1. ProxyInv /\ HeldFrameHasOwner => OneLivePerOutput
  <2>. SUFFICES ASSUME ProxyInv, HeldFrameHasOwner, NEW i \in Live, NEW j \in Live, i # j
                PROVE  \E c \in Captures : held[c] /\ owner[c] \in {i, j}
    BY DEF OneLivePerOutput
  <2>1. PICK c \in Captures : i \in Refs(c) /\ j \in Refs(c)
    BY DEF ProxyInv, RefsOK, OneCapture
  <2>. QED BY <2>1, SecondObjectIsHeld
<1>. QED BY <1>1, ProxyInvHolds, HeldFrameAlwaysHasOwner, PTL

\* Whoever takes a frame becomes its object's owner, and dropping the owner
\* unlocks or frees the object.
LEMMA LeakStep ==
  ASSUME ProxyInv, NoLeakedFrame, [Next]_vars
  PROVE  NoLeakedFrame'
<1>. USE DxgiAssumption, ProxyAssumption
<1>inv. TypeOK /\ LocalsOK /\ FieldsOK /\ RefsOK
  BY DEF ProxyInv
<1>pos. RefsOK'
  BY ProxyInvStep DEF ProxyInv
<1>rec. ASSUME NEW e \in Captures, NEW i \in Refs(e)
        PROVE  i \in Instances /\ i \in Live /\ inst[i] \in LiveInst
  BY <1>inv, ReferencedIsLive DEF RefsOK
<1>1. ASSUME UNCHANGED <<inst, owner>>, removed \subseteq removed' PROVE NoLeakedFrame'
  BY <1>1 DEF NoLeakedFrame, Live
<1>2. ASSUME UNCHANGED <<owner, removed>>,
             NEW i \in Instances \ Live, NEW st, NEW o, NEW d, inst' = [inst EXCEPT ![i] = NewInst(st, o, d)]
      PROVE  NoLeakedFrame'
  <2>1. ~inst'[i].frame /\ \A j \in Instances \ {i} : inst'[j] = inst[j]
    BY <1>2, <1>inv DEF TypeOK, DxgiTypeOK, NewInst
  <2>. QED BY <2>1, <1>2 DEF NoLeakedFrame, Live
<1>3. ASSUME UNCHANGED removed, \A e \in Captures : Refs(e)' \subseteq Refs(e), NEW f, Collect(f),
             \A e \in Captures : \A i \in Refs(e) : f[i] \in LiveInst,
             \A e \in Captures : \A i \in Refs(e)' :
               owner'[e] # i => f[i] = inst[i] /\ owner[e] # i
      PROVE  NoLeakedFrame'
  <2>1. \A e \in Captures : \A i \in Refs(e)' : inst'[i] = f[i]
    BY <1>3, <1>inv, CollectKeepsRefs
  <2>2. SUFFICES ASSUME NEW i \in Live', inst'[i].st = "good", inst'[i].frame, inst'[i].dev \notin removed'
                 PROVE  \E c \in Captures : owner'[c] = i
    BY DEF NoLeakedFrame
  <2>3. PICK e \in Captures : i \in Refs(e)'
    BY <1>pos DEF RefsOK
  <2>4. CASE owner'[e] # i
    <3>1. inst'[i] = inst[i] /\ owner[e] # i /\ i \in Refs(e) /\ i \in Live
      BY <2>1, <2>3, <2>4, <1>3, <1>rec
    <3>2. PICK d \in Captures : owner[d] = i
      BY <3>1, <2>2, <1>3 DEF NoLeakedFrame
    <3>3. i \in Refs(d) /\ d # e
      BY <3>1, <3>2, <1>rec DEF Refs
    <3>. QED BY <3>1, <3>3, <1>inv DEF RefsOK
  <2>. QED BY <2>4
<1>4. ASSUME NEW c \in Captures, DuplicateCall(c) PROVE NoLeakedFrame'
  <2>1. UNCHANGED <<owner, removed>>
    BY <1>4 DEF DuplicateCall
  <2>2. CASE UNCHANGED inst
    BY <2>1, <2>2, <1>1
  <2>3. CASE \E st \in Health, i \in Instances \ Live : inst' = [inst EXCEPT ![i] = NewInst(st, Target[c], Dev[c])]
    BY <2>1, <2>3, <1>2
  <2>. QED BY <1>4, <2>2, <2>3, DuplicateAnswersType DEF DuplicateCall
<1>5. ASSUME NEW c \in Captures, RecoverDuplicate(c) PROVE NoLeakedFrame'
  <2>1. UNCHANGED <<owner, removed>>
    BY <1>5 DEF RecoverDuplicate
  <2>2. PICK st \in Health, i \in Instances \ Live : inst' = [inst EXCEPT ![i] = NewInst(st, ridx[c], rdev[c])]
    BY <1>5, DuplicateAnswersType DEF RecoverDuplicate
  <2>. QED BY <2>1, <2>2, <1>2
<1>6. ASSUME NEW c \in Captures, CloseProxy(c) \/ AcquireLost(c) PROVE NoLeakedFrame'
  <2>1. Collect(inst) /\ UNCHANGED removed /\ \A e \in Captures : Refs(e)' \subseteq Refs(e)
    BY <1>6, <1>inv DEF CloseProxy, AcquireLost, Refs, TypeOK
  <2>2. \A e \in Captures : \A i \in Refs(e)' : owner'[e] # i => owner[e] # i
    BY <1>6, <1>inv DEF CloseProxy, AcquireLost, Goto, At, Refs, TypeOK, LocalsOK
  <2>. QED BY <2>1, <2>2, <1>3, <1>rec
<1>7. ASSUME NEW c \in Captures, AcquireFrame(c) PROVE NoLeakedFrame'
  <2>0. real[c] \in Refs(c) /\ owner' = [owner EXCEPT ![c] = real[c]]
        /\ UNCHANGED <<real, fresh, removed>> /\ fresh[c] = NoInst
    BY <1>7, <1>inv DEF AcquireFrame, Goto, At, FieldsOK, LocalsOK, Refs
  <2>1. \A e \in Captures : Refs(e)' \subseteq Refs(e)
    BY <2>0, <1>inv DEF Refs, TypeOK
  <2>2. PICK f : f = [inst EXCEPT ![real[c]].frame = TRUE] /\ Collect(f)
    BY <1>7 DEF AcquireFrame
  <2>3. ASSUME NEW e \in Captures, NEW i \in Refs(e)
        PROVE  f[i] \in LiveInst /\ (i # real[c] => f[i] = inst[i])
    <3>1. f[i] \in {inst[i], [inst[i] EXCEPT !.frame = TRUE]} /\ (i # real[c] => f[i] = inst[i])
      BY <2>2, <1>rec, <1>inv DEF TypeOK, DxgiTypeOK
    <3>. QED BY <3>1, <1>rec DEF LiveInst
  <2>4. ASSUME NEW e \in Captures, NEW i \in Refs(e)', owner'[e] # i PROVE i # real[c] /\ owner[e] # i
    <3>1. CASE e = c
      BY <2>0, <2>4, <3>1, <1>inv DEF Refs, TypeOK
    <3>2. CASE e # c
      <4>1. owner'[e] = owner[e] /\ i \in Refs(e)
        BY <2>0, <2>1, <3>2, <1>inv DEF TypeOK
      <4>. QED BY <4>1, <2>0, <2>4, <3>2, <1>inv DEF RefsOK
    <3>. QED BY <3>1, <3>2
  <2>5. /\ \A e \in Captures : \A i \in Refs(e) : f[i] \in LiveInst
        /\ \A e \in Captures : \A i \in Refs(e)' : owner'[e] # i => f[i] = inst[i] /\ owner[e] # i
    BY ONLY <2>1, <2>3, <2>4
  <2>6. UNCHANGED removed /\ Collect(f)
    BY <2>0, <2>2
  <2>. QED BY ONLY <2>1, <2>5, <2>6, <1>3
<1>8. ASSUME NEW c \in Captures, ReleaseFrame(c) PROVE NoLeakedFrame'
  <2>0. owner' = [owner EXCEPT ![c] = NoInst] /\ UNCHANGED <<real, fresh, removed>>
    BY <1>8 DEF ReleaseFrame
  <2>1. \A e \in Captures : Refs(e)' \subseteq Refs(e)
    BY <2>0, <1>inv DEF Refs, TypeOK
  <2>2. PICK f : /\ Collect(f)
                 /\ \/ f = inst /\ (owner[c] = NoInst \/ ReleaseAnswers(owner[c]) # {"ok"})
                    \/ f = [inst EXCEPT ![owner[c]].frame = FALSE]
    BY <1>8 DEF ReleaseFrame
  <2>3. ASSUME NEW e \in Captures, NEW i \in Refs(e)
        PROVE  /\ f[i] \in LiveInst /\ (i # owner[c] => f[i] = inst[i])
               /\ i = owner[c] => ~(f[i].st = "good" /\ f[i].frame /\ f[i].dev \notin removed)
    <3>1. \/ f[i] = inst[i] /\ (owner[c] = NoInst \/ ReleaseAnswers(owner[c]) # {"ok"})
          \/ f[i] = [inst[i] EXCEPT !.frame = FALSE] /\ i = owner[c]
          \/ f[i] = inst[i] /\ i # owner[c]
      <4>1. CASE f = inst /\ (owner[c] = NoInst \/ ReleaseAnswers(owner[c]) # {"ok"})
        BY <4>1, <2>2, <1>rec
      <4>2. CASE f = [inst EXCEPT ![owner[c]].frame = FALSE]
        BY <4>2, <1>rec, <1>inv DEF TypeOK, DxgiTypeOK
      <4>. QED BY <2>2, <4>1, <4>2
    <3>2. i # NoInst /\ inst[i] \in LiveInst
      BY <1>rec
    <3>. QED BY <3>1, <3>2 DEF LiveInst, ReleaseAnswers
  <2>4. \A e \in Captures : \A i \in Refs(e)' : inst'[i] = f[i]
    BY <2>1, <2>2, <2>3, <1>inv, CollectKeepsRefs
  <2>5. SUFFICES ASSUME NEW i \in Live', inst'[i].st = "good", inst'[i].frame, inst'[i].dev \notin removed'
                 PROVE  \E e \in Captures : owner'[e] = i
    BY DEF NoLeakedFrame
  <2>6. PICK e \in Captures : i \in Refs(e)'
    BY <1>pos DEF RefsOK
  <2>7. i \in Refs(e) /\ inst'[i] = f[i] /\ i # NoInst
    BY <2>1, <2>4, <2>6 DEF Refs
  <2>8. i # owner[c] /\ inst'[i] = inst[i]
    BY <2>0, <2>3, <2>5, <2>7
  <2>9. PICK d \in Captures : owner[d] = i
    BY <2>0, <2>5, <2>7, <2>8, <1>rec DEF NoLeakedFrame
  <2>. QED BY <2>0, <2>8, <2>9, <1>inv DEF TypeOK
<1>9. ASSUME EnvNext PROVE NoLeakedFrame'
  <2>1. UNCHANGED owner /\ removed \subseteq removed'
    BY <1>9 DEF EnvNext, DxgiNext, BeginSwitch, EndSwitch, TearDown, Recreate, RemoveDevice
  <2>2. CASE inst' = inst
    BY <2>1, <2>2, <1>1
  <2>3. CASE \E S : inst' = Lose(S)
    <3>1. Live' = Live /\ \A i \in Live : inst'[i] = [inst[i] EXCEPT !.st = "lost"] \/ inst'[i] = inst[i]
      BY <2>3, <1>inv, LoseKeepsObjects DEF TypeOK
    <3>2. ASSUME NEW i \in Live, inst'[i].st = "good" PROVE inst'[i] = inst[i]
      <4>1. inst[i] \in LiveInst
        BY <1>inv DEF TypeOK, DxgiTypeOK, Live, Free
      <4>. QED BY <3>1, <3>2, <4>1 DEF LiveInst
    <3>. QED BY <3>1, <3>2, <2>1 DEF NoLeakedFrame
  <2>. QED
    BY <1>9, <2>2, <2>3
       DEF EnvNext, DxgiNext, BeginSwitch, EndSwitch, TearDown, Recreate, RemoveDevice
<1>10. ASSUME NEW c \in Captures,
              \/ \E o \in Outputs : EnumOutputs(c, o)
              \/ OutputQueryInterface(c) \/ DuplicateBegin(c) \/ DuplicateLock(c)
              \/ AcquireBegin(c) \/ AcquirePassOn(c) \/ GetFramePointerShape(c)
       PROVE  NoLeakedFrame'
  BY <1>1, <1>10
     DEF EnumOutputs, OutputQueryInterface, DuplicateBegin, DuplicateLock, AcquireBegin,
         AcquirePassOn, GetFramePointerShape
<1>11. ASSUME NEW c \in Captures, Recover(c) PROVE NoLeakedFrame'
  BY <1>1, <1>5, <1>11
     DEF Recover, RecoverAttach, RecoverSource, RecoverIndex, RecoverLock, RecoverAdapter,
         RecoverEnumOutput, RecoverPanic, RecoverStore, RecoverFail
<1>12. CASE UNCHANGED vars
  BY <1>1, <1>12 DEF vars
<1>. QED
  BY <1>4, <1>6, <1>7, <1>8, <1>9, <1>10, <1>11, <1>12 DEF Next, CaptureNext, Open, Acquire

\* duplication_proxy.rs 63-77: in every host a working object is locked by a
\* frame only while some client can release it.
THEOREM NoFrameLeaks == Spec => []NoLeakedFrame
<1>1. Init => NoLeakedFrame
  BY DEF Init, DxgiInit, NoLeakedFrame, Live, Free
<1>2. ProxyInv /\ NoLeakedFrame /\ [Next]_vars => NoLeakedFrame'
  BY LeakStep
<1>. QED BY <1>1, <1>2, ProxyInvHolds, PTL DEF Spec

-----------------------------------------------------------------------------
(* DUPLICATE_OUTPUT_LOCK.                                                  *)

\* Only the steps that enter and leave the locked stretch touch the lock.
LEMMA LockStep ==
  ASSUME ProxyInv, LockHolder, [Next]_vars
  PROVE  LockHolder'
<1>. USE DxgiAssumption DEF LockHolder
<1>inv. TypeOK
  BY DEF ProxyInv
<1>1. ASSUME NEW c \in Captures, DuplicateLock(c) \/ RecoverLock(c) PROVE LockHolder'
  BY <1>1, <1>inv DEF TypeOK, DuplicateLock, RecoverLock, AcquireLock, Goto, At
<1>2. ASSUME NEW c \in Captures, DuplicateCall(c) \/ RecoverDuplicate(c) PROVE LockHolder'
  <2>1. dupLock' = NoCap /\ pc[c] \in Critical
    BY <1>2 DEF DuplicateCall, RecoverDuplicate, Goto, At
  <2>2. PICK w \in {"closed", "idle", "store"} : pc' = [pc EXCEPT ![c] = w]
    BY <1>2, Zenon DEF DuplicateCall, RecoverDuplicate, Goto
  <2>. QED BY <2>1, <2>2, <1>inv DEF TypeOK
<1>3. ASSUME NEW c \in Captures, RecoverFail(c) PROVE LockHolder'
  BY <1>3, <1>inv DEF TypeOK, RecoverFail, StepFails, At
<1>4. ASSUME NEW c \in Captures, CaptureNext(c), UNCHANGED dupLock,
             NEW w \in PCs, pc' = [pc EXCEPT ![c] = w], w \in Critical <=> pc[c] \in Critical
      PROVE  LockHolder'
  BY <1>4, <1>inv DEF TypeOK
<1>5. ASSUME UNCHANGED <<dupLock, pc>> PROVE LockHolder'
  BY <1>5
<1>6. ASSUME NEW c \in Captures, Open(c) PROVE LockHolder'
  BY <1>1, <1>2, <1>4, <1>5, <1>6
     DEF CaptureNext, Open, EnumOutputs, OutputQueryInterface, DuplicateBegin, CloseProxy,
         Goto, At
<1>7. ASSUME NEW c \in Captures, AcquireBegin(c) PROVE LockHolder'
  BY <1>7, <1>inv DEF TypeOK, AcquireBegin, Goto, At
<1>8. ASSUME NEW c \in Captures, Acquire(c) PROVE LockHolder'
  BY <1>4, <1>8 DEF CaptureNext, Acquire, AcquireFrame, AcquirePassOn, AcquireLost, Goto, At
<1>9. ASSUME NEW c \in Captures, Recover(c) PROVE LockHolder'
  <2>1. ASSUME \/ RecoverAttach(c) \/ RecoverSource(c) \/ RecoverIndex(c)
               \/ RecoverAdapter(c) \/ RecoverEnumOutput(c)
        PROVE  LockHolder'
    BY <2>1, <1>inv
       DEF TypeOK, RecoverAttach, RecoverSource, RecoverIndex, RecoverAdapter,
           RecoverEnumOutput, Goto, At
  <2>2. ASSUME RecoverPanic(c) PROVE LockHolder'
    BY <2>2, <1>5 DEF RecoverPanic
  <2>3. ASSUME RecoverStore(c) PROVE LockHolder'
    BY <2>3, <1>inv DEF TypeOK, RecoverStore, Goto, At
  <2>. QED BY <1>1, <1>2, <1>3, <1>9, <2>1, <2>2, <2>3 DEF Recover
<1>10. ASSUME NEW c \in Captures, GetFramePointerShape(c) \/ ReleaseFrame(c) PROVE LockHolder'
  BY <1>5, <1>10 DEF GetFramePointerShape, ReleaseFrame
<1>11. CASE EnvNext \/ UNCHANGED vars
  BY <1>5, <1>11 DEF EnvNext, vars
<1>. QED BY <1>6, <1>7, <1>8, <1>9, <1>10, <1>11 DEF Next, CaptureNext

\* state.rs 79-92: in every host at most one call is inside the stretch that
\* DUPLICATE_OUTPUT_LOCK guards, and the lock is free when none is.
THEOREM LockAlwaysHeldInside == Spec => []LockHolder
<1>1. Init => LockHolder
  BY DxgiAssumption DEF Init, LockHolder
<1>2. ProxyInv /\ LockHolder /\ [Next]_vars => LockHolder'
  BY LockStep
<1>. QED BY <1>1, <1>2, ProxyInvHolds, PTL DEF Spec

-----------------------------------------------------------------------------
(* Hosts that duplicate by the call recovery uses.                         *)

\* Every client duplicates by IDXGIOutput5 where Windows has it, as ddagrab
\* does, so its own QueryInterface stored what recovery will call.
RecoveryApiOnly == \A c \in Captures : Api[c] = RecoveryApi

\* A client past its QueryInterface has had its duplicate call wrapped.
ApiWrapped ==
  \A c \in Captures : hostOut[c] = "typed" \/ pc[c] # "closed" => Api[c] \in wrapped

\* Only OutputQueryInterface makes a client typed, and it stores the call.
LEMMA ApiWrappedStep ==
  ASSUME ProxyInv, ApiWrapped, [Next]_vars
  PROVE  ApiWrapped'
<1>inv. TypeOK
  BY DEF ProxyInv
<1>1. wrapped \subseteq wrapped'
  <2>1. CASE EnvNext \/ UNCHANGED vars
    BY <2>1 DEF EnvNext, vars
  <2>2. ASSUME NEW c \in Captures, Open(c) PROVE wrapped \subseteq wrapped'
    BY <2>2 DEF Open, EnumOutputs, OutputQueryInterface, DuplicateBegin, DuplicateLock,
                DuplicateCall, CloseProxy
  <2>3. ASSUME NEW c \in Captures, AcquireBegin(c) \/ Acquire(c) PROVE UNCHANGED wrapped
    BY <2>3 DEF AcquireBegin, Acquire, AcquireFrame, AcquirePassOn, AcquireLost
  <2>4. ASSUME NEW c \in Captures, Recover(c) PROVE UNCHANGED wrapped
    <3>1. CASE RecoverDuplicate(c) \/ RecoverPanic(c) \/ RecoverStore(c) \/ RecoverFail(c)
      BY <3>1 DEF RecoverDuplicate, RecoverPanic, RecoverStore, RecoverFail
    <3>2. CASE \/ RecoverAttach(c) \/ RecoverSource(c) \/ RecoverIndex(c) \/ RecoverLock(c)
               \/ RecoverAdapter(c) \/ RecoverEnumOutput(c)
      BY <3>2 DEF RecoverAttach, RecoverSource, RecoverIndex, RecoverLock,
                  RecoverAdapter, RecoverEnumOutput
    <3>. QED BY <2>4, <3>1, <3>2 DEF Recover
  <2>5. ASSUME NEW c \in Captures, GetFramePointerShape(c) \/ ReleaseFrame(c)
        PROVE UNCHANGED wrapped
    BY <2>5 DEF GetFramePointerShape, ReleaseFrame
  <2>. QED BY <2>1, <2>2, <2>3, <2>4, <2>5 DEF Next, CaptureNext
<1>2. ASSUME NEW c \in Captures, OutputQueryInterface(c) PROVE ApiWrapped'
  BY <1>2, <1>inv DEF OutputQueryInterface, ApiWrapped, TypeOK
<1>3. ASSUME NEW c \in Captures, CloseProxy(c) PROVE ApiWrapped'
  BY <1>3, <1>inv DEF CloseProxy, Goto, At, ApiWrapped, TypeOK
<1>4. ASSUME NEW c \in Captures, NEW o \in Outputs, EnumOutputs(c, o) PROVE ApiWrapped'
  BY <1>4, <1>inv DEF EnumOutputs, ApiWrapped, TypeOK
<1>5. ASSUME NEW c \in Captures, DuplicateBegin(c) PROVE ApiWrapped'
  BY <1>5, <1>inv DEF DuplicateBegin, Goto, At, ApiWrapped, TypeOK
<1>6. ASSUME NEW c \in Captures, UNCHANGED hostOut, pc[c] # "closed",
             \A e \in Captures \ {c} : pc'[e] = pc[e]
      PROVE  ApiWrapped'
  BY <1>1, <1>6 DEF ApiWrapped
<1>7. ASSUME UNCHANGED <<hostOut, pc>> PROVE ApiWrapped'
  BY <1>1, <1>7 DEF ApiWrapped
<1>8. ASSUME NEW c \in Captures, DuplicateLock(c) \/ DuplicateCall(c) PROVE ApiWrapped'
  BY <1>6, <1>8, <1>inv DEF DuplicateLock, DuplicateCall, Goto, At, TypeOK
<1>9. ASSUME NEW c \in Captures, AcquireBegin(c) \/ Acquire(c) PROVE ApiWrapped'
  BY <1>6, <1>9, <1>inv
     DEF AcquireBegin, Acquire, AcquireFrame, AcquirePassOn, AcquireLost, Goto, At, TypeOK
<1>10. ASSUME NEW c \in Captures, Recover(c) PROVE ApiWrapped'
  <2>1. CASE RecoverPanic(c)
    BY <1>7, <2>1 DEF RecoverPanic
  <2>2. CASE RecoverFail(c)
    BY <1>6, <2>2, <1>inv DEF RecoverFail, StepFails, At, TypeOK
  <2>3. CASE RecoverDuplicate(c) \/ RecoverStore(c)
    BY <1>6, <2>3, <1>inv DEF RecoverDuplicate, RecoverStore, Goto, At, TypeOK
  <2>4. CASE \/ RecoverAttach(c) \/ RecoverSource(c) \/ RecoverIndex(c) \/ RecoverLock(c)
             \/ RecoverAdapter(c) \/ RecoverEnumOutput(c)
    BY <1>6, <2>4, <1>inv
       DEF RecoverAttach, RecoverSource, RecoverIndex, RecoverLock, RecoverAdapter,
           RecoverEnumOutput, Goto, At, TypeOK
  <2>. QED BY <1>10, <2>1, <2>2, <2>3, <2>4 DEF Recover
<1>11. ASSUME NEW c \in Captures, GetFramePointerShape(c) \/ ReleaseFrame(c)
       PROVE  ApiWrapped'
  BY <1>7, <1>11 DEF GetFramePointerShape, ReleaseFrame
<1>12. CASE EnvNext \/ UNCHANGED vars
  BY <1>7, <1>12 DEF EnvNext, vars
<1>. QED
  BY <1>2, <1>3, <1>4, <1>5, <1>8, <1>9, <1>10, <1>11, <1>12 DEF Next, CaptureNext, Open

\* The one step that panics needs a recovery whose call was never wrapped.
LEMMA NoPanicStep ==
  ASSUME RecoveryApiOnly, ApiWrapped, NoPanic, [Next]_vars
  PROVE  NoPanic'
<1>1. ASSUME NEW c \in Captures, RecoverPanic(c) PROVE FALSE
  BY <1>1 DEF RecoverPanic, At, ApiWrapped, RecoveryApiOnly
<1>2. CASE UNCHANGED aborted
  BY <1>2 DEF NoPanic
<1>3. CASE EnvNext \/ UNCHANGED vars
  BY <1>2, <1>3 DEF EnvNext, vars
<1>4. ASSUME NEW c \in Captures, Open(c) PROVE NoPanic'
  BY <1>2, <1>4 DEF Open, EnumOutputs, OutputQueryInterface, DuplicateBegin, DuplicateLock,
                    DuplicateCall, CloseProxy
<1>5. ASSUME NEW c \in Captures, AcquireBegin(c) \/ Acquire(c) PROVE NoPanic'
  BY <1>2, <1>5 DEF AcquireBegin, Acquire, AcquireFrame, AcquirePassOn, AcquireLost
<1>6. ASSUME NEW c \in Captures, Recover(c) PROVE NoPanic'
  <2>1. CASE RecoverPanic(c)
    BY <1>1, <2>1
  <2>2. CASE RecoverDuplicate(c) \/ RecoverStore(c) \/ RecoverFail(c)
    BY <1>2, <2>2 DEF RecoverDuplicate, RecoverStore, RecoverFail
  <2>3. CASE \/ RecoverAttach(c) \/ RecoverSource(c) \/ RecoverIndex(c) \/ RecoverLock(c)
             \/ RecoverAdapter(c) \/ RecoverEnumOutput(c)
    BY <1>2, <2>3 DEF RecoverAttach, RecoverSource, RecoverIndex, RecoverLock,
                      RecoverAdapter, RecoverEnumOutput
  <2>. QED BY <1>6, <2>1, <2>2, <2>3 DEF Recover
<1>7. ASSUME NEW c \in Captures, GetFramePointerShape(c) \/ ReleaseFrame(c) PROVE NoPanic'
  BY <1>2, <1>7 DEF GetFramePointerShape, ReleaseFrame
<1>. QED BY <1>3, <1>4, <1>5, <1>6, <1>7 DEF Next, CaptureNext

\* dxgi_output.rs 98-101: in such a host the precondition of the call_original
\* functions holds at every recovery, so none panics into the host.
THEOREM NoPanicWithRecoveryApi == ASSUME RecoveryApiOnly PROVE Spec => []NoPanic
<1>1. Init => ApiWrapped /\ NoPanic
  BY DEF Init, ApiWrapped, NoPanic
<1>2. ProxyInv /\ ApiWrapped /\ NoPanic /\ [Next]_vars => ApiWrapped' /\ NoPanic'
  BY ApiWrappedStep, NoPanicStep
<1>. QED BY <1>1, <1>2, ProxyInvHolds, PTL DEF Spec

-----------------------------------------------------------------------------
(* The proxy as a capture service, for every client that releases its      *)
(* frame before it polls again, as ddagrab does.                           *)

ReleasesFirst == ~HoldAcross

\* While a poll is under way such a client holds no frame.
PollsEmpty == \A c \in Captures : pc[c] \in {"acquire"} \cup Recovering => ~held[c]

MapInv == ProxyInv /\ HeldFrameHasOwner /\ PollsEmpty

opened == [c \in Captures |-> Capturing(c)]

USE DEF Capturing

\* A client without a proxy holds no frame either.
LEMMA OpeningHoldsNothing ==
  ASSUME MapInv, NEW c \in Captures, ~Capturing(c)
  PROVE  ~held[c]
BY DEF MapInv, ProxyInv, FieldsOK, Opening, HeldFrameHasOwner

\* Polling starts with empty hands and only the end of a poll fills them.
LEMMA PollsEmptyStep ==
  ASSUME ReleasesFirst, MapInv, [Next]_vars
  PROVE  PollsEmpty'
<1>inv. TypeOK /\ PollsEmpty
  BY DEF MapInv, ProxyInv
<1>1. ASSUME UNCHANGED <<pc, held>> PROVE PollsEmpty'
  BY <1>1, <1>inv DEF PollsEmpty
<1>2. ASSUME NEW c \in Captures, UNCHANGED held, NEW w \in PCs, pc' = [pc EXCEPT ![c] = w],
             w \in {"acquire"} \cup Recovering => ~held[c]
      PROVE  PollsEmpty'
  BY <1>2, <1>inv DEF PollsEmpty, TypeOK
<1>3. ASSUME NEW c \in Captures, Open(c) PROVE PollsEmpty'
  <2>1. CASE CloseProxy(c)
    BY <2>1, <1>inv DEF CloseProxy, Goto, At, PollsEmpty, TypeOK
  <2>2. CASE DuplicateCall(c)
    BY <2>2, <1>2 DEF DuplicateCall, Goto, At
  <2>3. CASE DuplicateBegin(c) \/ DuplicateLock(c)
    BY <2>3, <1>2 DEF DuplicateBegin, DuplicateLock, Goto, At
  <2>4. CASE OutputQueryInterface(c) \/ \E o \in Outputs : EnumOutputs(c, o)
    BY <2>4, <1>1 DEF OutputQueryInterface, EnumOutputs
  <2>. QED BY <1>3, <2>1, <2>2, <2>3, <2>4 DEF Open
<1>4. ASSUME NEW c \in Captures, AcquireBegin(c) PROVE PollsEmpty'
  BY <1>4, <1>2 DEF AcquireBegin, Goto, At, ReleasesFirst
<1>5. ASSUME NEW c \in Captures, Acquire(c) PROVE PollsEmpty'
  <2>1. CASE AcquireFrame(c)
    BY <2>1, <1>inv DEF AcquireFrame, Goto, At, PollsEmpty, TypeOK
  <2>2. CASE AcquirePassOn(c) \/ AcquireLost(c)
    BY <2>2, <1>2, <1>inv DEF AcquirePassOn, AcquireLost, Goto, At, PollsEmpty
  <2>. QED BY <1>5, <2>1, <2>2 DEF Acquire
<1>6. ASSUME NEW c \in Captures, Recover(c) PROVE PollsEmpty'
  <2>1. CASE RecoverPanic(c)
    BY <2>1, <1>1 DEF RecoverPanic
  <2>2. CASE RecoverFail(c)
    BY <2>2, <1>2 DEF RecoverFail
  <2>3. CASE RecoverStore(c)
    BY <2>3, <1>2, <1>inv DEF RecoverStore, Goto, At, PollsEmpty
  <2>4. CASE \/ RecoverAttach(c) \/ RecoverSource(c) \/ RecoverIndex(c) \/ RecoverLock(c)
             \/ RecoverAdapter(c) \/ RecoverEnumOutput(c) \/ RecoverDuplicate(c)
    BY <2>4, <1>2, <1>inv
       DEF RecoverAttach, RecoverSource, RecoverIndex, RecoverLock, RecoverAdapter,
           RecoverEnumOutput, RecoverDuplicate, Goto, At, PollsEmpty
  <2>. QED BY <1>6, <2>1, <2>2, <2>3, <2>4 DEF Recover
<1>7. ASSUME NEW c \in Captures, GetFramePointerShape(c) PROVE PollsEmpty'
  BY <1>7, <1>1 DEF GetFramePointerShape
<1>8. ASSUME NEW c \in Captures, ReleaseFrame(c) PROVE PollsEmpty'
  BY <1>8, <1>inv DEF ReleaseFrame, At, PollsEmpty, TypeOK
<1>9. CASE EnvNext \/ UNCHANGED vars
  BY <1>9, <1>1 DEF EnvNext, vars
<1>. QED
  BY <1>3, <1>4, <1>5, <1>6, <1>7, <1>8, <1>9 DEF Next, CaptureNext

\* MapInv as a fact about behaviors.
LEMMA MapInvHolds == ASSUME ReleasesFirst PROVE Spec => []MapInv
<1>1. Init => PollsEmpty
  BY DEF Init, PollsEmpty
<1>2. MapInv /\ [Next]_vars => PollsEmpty'
  BY PollsEmptyStep
<1>3. MapInv <=> ProxyInv /\ HeldFrameHasOwner /\ PollsEmpty
  BY DEF MapInv
<1>. QED BY <1>1, <1>2, <1>3, ProxyInvHolds, HeldFrameAlwaysHasOwner, PTL DEF Spec

-----------------------------------------------------------------------------
\* The steps of one capture, as steps of the service or stutters.
LEMMA CaptureStepMaps ==
  ASSUME MapInv, NEW c \in Captures, CaptureNext(c)
  PROVE  Service!Next \/ UNCHANGED <<opened, held, ret>>
<1>inv. TypeOK /\ LocalsOK /\ FieldsOK /\ HeldFrameHasOwner /\ PollsEmpty
  BY DEF MapInv, ProxyInv
<1>quiet. ASSUME UNCHANGED <<held, ret>>, Capturing(c)' = Capturing(c),
                 \A e \in Captures \ {c} : pc'[e] = pc[e]
          PROVE  UNCHANGED <<opened, held, ret>>
  BY <1>quiet DEF opened
<1>same. ASSUME NEW w \in PCs, pc' = [pc EXCEPT ![c] = w], Capturing(c),
                w \notin {"closed", "open_lock", "open_call"}
         PROVE  UNCHANGED opened
  BY <1>same, <1>inv DEF opened, TypeOK
<1>1. CASE DuplicateCall(c)
  <2>1. Service!Duplicate(c)
    <3>. USE <1>1 DEF DuplicateCall, Goto, At, Returns
    <3>1. pc[c] = "open_call" /\ ~opened[c] /\ UNCHANGED held
      BY DEF opened
    <3>2. \/ /\ pc' = [pc EXCEPT ![c] = "closed"]
             /\ ret' = [ret EXCEPT ![c] = [op |-> "duplicate", hr |-> "fail"]]
          \/ /\ pc' = [pc EXCEPT ![c] = "idle"]
             /\ ret' = [ret EXCEPT ![c] = [op |-> "duplicate", hr |-> "ok"]]
      BY Zenon
    <3>3. CASE pc' = [pc EXCEPT ![c] = "closed"]
      <4>1. opened' = opened
        BY <3>1, <3>3, <1>inv DEF opened, TypeOK
      <4>2. ret' = [ret EXCEPT ![c] = [op |-> "duplicate", hr |-> "fail"]]
        BY <3>1, <3>2, <3>3, <1>inv DEF TypeOK
      <4>. QED BY <4>1, <4>2, <3>1 DEF Service!Duplicate, Service!Returns, opened
    <3>4. CASE pc' = [pc EXCEPT ![c] = "idle"]
      <4>1. opened' = [opened EXCEPT ![c] = TRUE]
        BY <3>1, <3>4, <1>inv DEF opened, TypeOK
      <4>2. ret' = [ret EXCEPT ![c] = [op |-> "duplicate", hr |-> "ok"]]
        BY <3>1, <3>2, <3>4, <1>inv DEF TypeOK
      <4>. QED BY <4>1, <4>2, <3>1 DEF Service!Duplicate, Service!Returns, opened
    <3>. QED BY <3>2, <3>3, <3>4
  <2>. QED BY <2>1 DEF Service!Next
<1>2. CASE CloseProxy(c)
  <2>1. Service!Close(c)
    <3>. USE <1>2 DEF CloseProxy, Goto, At, Returns
    <3>1. opened[c] /\ opened' = [opened EXCEPT ![c] = FALSE]
      BY <1>inv DEF opened, TypeOK
    <3>. QED BY <3>1 DEF Service!Close, Service!Returns, opened
  <2>. QED BY <2>1 DEF Service!Next
<1>3. CASE AcquireFrame(c)
  <2>1. Service!Acquire(c)
    <3>. USE <1>3 DEF AcquireFrame, Goto, At, Returns
    <3>1. opened[c] /\ opened' = opened
      BY <1>same DEF opened
    <3>2. ~held[c]
      BY <1>inv DEF PollsEmpty
    <3>. QED BY <3>1, <3>2 DEF Service!Acquire, Service!Returns, opened
  <2>. QED BY <2>1 DEF Service!Next
<1>4. CASE AcquirePassOn(c)
  <2>1. Service!Acquire(c)
    <3>. USE <1>4 DEF AcquirePassOn, Goto, At, Returns
    <3>1. opened[c] /\ opened' = opened
      BY <1>same DEF opened
    <3>2. AcquireAnswers(real[c]) \ ({"ok"} \cup LostCodes) \subseteq {"timeout", "removed"}
      BY DEF AcquireAnswers, LostCodes
    <3>. QED BY <3>1, <3>2 DEF Service!Acquire, Service!Returns, opened
  <2>. QED BY <2>1 DEF Service!Next
<1>5. CASE RecoverStore(c) \/ RecoverFail(c)
  <2>1. opened[c] /\ opened' = opened /\ UNCHANGED held
    BY <1>5, <1>same DEF opened, RecoverStore, RecoverFail, StepFails, Goto, At
  <2>2. CASE UNCHANGED ret
    BY <2>1, <2>2
  <2>3. CASE ret' = [ret EXCEPT ![c] = [op |-> "acquire", hr |-> "timeout"]]
    <3>1. Service!Acquire(c)
      BY <2>1, <2>3 DEF Service!Acquire, Service!Returns, opened
    <3>. QED BY <3>1 DEF Service!Next
  <2>. QED BY <1>5, <2>2, <2>3 DEF RecoverStore, RecoverFail, Returns
<1>6. CASE GetFramePointerShape(c)
  <2>1. Service!PointerShape(c)
    <3>. USE <1>6 DEF GetFramePointerShape, At, Returns
    <3>1. opened[c] /\ opened' = opened /\ UNCHANGED held
      BY DEF opened
    <3>2. PICK hr : /\ hr \in (IF owner[c] = NoInst THEN {"ok"} ELSE PointerAnswers(owner[c]))
                    /\ ret' = [ret EXCEPT ![c] = [op |-> "pointer", hr |-> hr]]
      OBVIOUS
    <3>3. hr \in {"ok", "access_lost", "removed"} /\ (hr # "ok" => held[c])
      BY <3>2, <1>inv DEF PointerAnswers, HeldFrameHasOwner
    <3>. QED BY <3>1, <3>2, <3>3 DEF Service!PointerShape, Service!Returns, opened
  <2>. QED BY <2>1 DEF Service!Next
<1>7. CASE ReleaseFrame(c)
  <2>1. Service!Release(c)
    <3>. USE <1>7 DEF ReleaseFrame, At, Returns
    <3>1. opened[c] /\ opened' = opened
      BY DEF opened
    <3>. QED BY <3>1 DEF Service!Release, Service!Returns, opened
  <2>. QED BY <2>1 DEF Service!Next
<1>8. CASE \/ \E o \in Outputs : EnumOutputs(c, o)
           \/ OutputQueryInterface(c) \/ DuplicateBegin(c) \/ DuplicateLock(c)
  BY <1>8, <1>quiet, <1>inv
     DEF EnumOutputs, OutputQueryInterface, DuplicateBegin, DuplicateLock, Goto, At, TypeOK
<1>9. CASE AcquireBegin(c) \/ AcquireLost(c)
  BY <1>9, <1>quiet, <1>inv DEF AcquireBegin, AcquireLost, Goto, At, TypeOK
<1>10. CASE \/ RecoverAttach(c) \/ RecoverSource(c) \/ RecoverIndex(c) \/ RecoverLock(c)
            \/ RecoverAdapter(c) \/ RecoverEnumOutput(c) \/ RecoverDuplicate(c)
            \/ RecoverPanic(c)
  BY <1>10, <1>quiet, <1>inv
     DEF RecoverAttach, RecoverSource, RecoverIndex, RecoverLock, RecoverAdapter,
         RecoverEnumOutput, RecoverDuplicate, RecoverPanic, Goto, At, TypeOK
<1>. QED
  BY <1>1, <1>2, <1>3, <1>4, <1>5, <1>6, <1>7, <1>8, <1>9, <1>10
     DEF CaptureNext, Open, Acquire, Recover

\* duplication_proxy.rs 44-54: whatever the desktop, the displays and the
\* other captures do, such a client sees no loss but a WAIT_TIMEOUT.
THEOREM ProxyImplementsService == ASSUME ReleasesFirst PROVE Spec => Contract
<1>1. ASSUME Init PROVE Service!Init
  <2>1. pc = [c \in Captures |-> "closed"]
    BY <1>1 DEF Init
  <2>2. ASSUME NEW c \in Captures PROVE Capturing(c) = FALSE
    BY <2>1, <2>2
  <2>3. [c \in Captures |-> Capturing(c)] = [c \in Captures |-> FALSE]
    BY ONLY <2>2, Zenon DEF Capturing
  <2>4. /\ held = [c \in Captures |-> FALSE]
        /\ ret = [c \in Captures |-> [op |-> "none", hr |-> "ok"]]
    BY ONLY <1>1 DEF Init
  <2>. QED BY ONLY <2>3, <2>4 DEF Service!Init
<1>2. MapInv /\ [Next]_vars => [Service!Next]_(Service!vars)
  <2>1. ASSUME MapInv, EnvNext \/ UNCHANGED vars PROVE UNCHANGED <<opened, held, ret>>
    BY <2>1 DEF EnvNext, vars, opened
  <2>. QED BY <2>1, CaptureStepMaps DEF Next, Service!vars, opened
<1>3. Spec => []MapInv
  BY MapInvHolds
<1>. QED BY <1>1, <1>2, <1>3, PTL DEF Spec, Contract, Service!Spec
=============================================================================
