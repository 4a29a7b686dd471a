-------------------------- MODULE VtableHooksProofs --------------------------
(***************************************************************************)
(* TLAPS proofs for any number of threads and implementation classes: the  *)
(* mark in PATCHED, set before the slot is written, keeps every ORIGINAL_* *)
(* from becoming our own hook without any lock on the walk; and walks that *)
(* come one at a time, and never go back to a class the host has left, are *)
(* hooked at every call and run their own class's functions.               *)
(***************************************************************************)
EXTENDS VtableHooks, TLAPS

\* A hooked slot is marked, and so is one a thread is about to patch.
MarksInv ==
  /\ \A c \in Classes, k \in Calls : slot[<<c, k>>] = Hook => <<c, Table(k), k>> \in patched
  /\ \A t \in Threads : pc[t] = "patch" => Entry(t) \in patched

\* The thread about to patch a slot is the only one, and finds it genuine.
PatchInv ==
  /\ \A t \in Threads : pc[t] = "patch" => slot[Here(t)] # Hook
  /\ \A t, u \in Threads : pc[t] = "patch" /\ pc[u] = "patch" /\ Here(t) = Here(u) => t = u

\* So what it is about to store is genuine too.
StoreInv ==
  /\ \A t \in Threads : pc[t] = "store" => got[t] # Hook
  /\ NeverItsOwnOriginal

Inv == TypeOK /\ MarksInv /\ PatchInv /\ StoreInv

USE DEF Calls, Table, Here, Entry, tables, history

\* Before any walk no slot is hooked and no original stored.
LEMMA InvInit == Init => Inv
<1>. SUFFICES ASSUME Init PROVE Inv
  OBVIOUS
<1>1. TypeOK
  <2>1. \A s \in Classes \X Calls : s[1] \in Classes
    OBVIOUS
  <2>2. slot \in [Classes \X Calls -> Classes \cup {Hook}]
    BY <2>1 DEF Init
  <2>3. /\ original \in [Calls -> Classes \cup {None, Hook}]
        /\ pc \in [Threads -> {"out", "mark", "patch", "store", "call"}]
        /\ at \in [Threads -> Calls] /\ cls \in [Threads -> Classes]
        /\ got \in [Threads -> Classes \cup {None, Hook}]
        /\ outcome \in [Threads -> {"none", "proxy", "raw"}]
    BY DEF Init
  <2>4. /\ patched \subseteq Classes \X Calls \X Calls /\ latest \in Classes \cup {None}
        /\ raced \in BOOLEAN /\ reverted \in BOOLEAN /\ crashed \in BOOLEAN
    BY DEF Init
  <2>. QED BY ONLY <2>2, <2>3, <2>4 DEF TypeOK
<1>2. \A c \in Classes, k \in Calls : slot[<<c, k>>] = c
  BY DEF Init
<1>3. MarksInv /\ PatchInv
  BY <1>2, HooksAssumption DEF Init, MarksInv, PatchInv
<1>4. StoreInv
  BY HooksAssumption DEF Init, StoreInv, NeverItsOwnOriginal
<1>. QED BY <1>1, <1>3, <1>4 DEF Inv

\* Of the eight steps only the mark, the patch and the store touch what the
\* invariant relates; the others move a thread along.
LEMMA InvStep == Inv /\ [Next]_vars => Inv'
<1>. SUFFICES ASSUME Inv, [Next]_vars PROVE Inv'
  OBVIOUS
<1>type. TypeOK
  BY DEF Inv
<1>0. CASE UNCHANGED vars
  BY <1>0 DEF vars, Inv, TypeOK, MarksInv, PatchInv, StoreInv, NeverItsOwnOriginal
<1>1. ASSUME NEW t \in Threads, AlreadyPatched(t) PROVE Inv'
  <2>1. TypeOK'
    BY <1>1, <1>type DEF AlreadyPatched, Step, TypeOK
  <2>2. MarksInv'
    BY <1>1, <1>type DEF AlreadyPatched, Step, TypeOK, Inv, MarksInv
  <2>3. pc'[t] = "patch" => slot[Here(t)] # Hook
    <3>1. pc'[t] = "patch" => Entry(t) \notin patched
      BY <1>1, <1>type DEF AlreadyPatched, Step, TypeOK
    <3>2. cls[t] \in Classes /\ at[t] \in Calls
      BY <1>type DEF TypeOK
    <3>. QED BY <3>1, <3>2 DEF Inv, MarksInv
  <2>4. \A u \in Threads \ {t} : pc'[u] = pc[u]
    BY <1>1, <1>type DEF AlreadyPatched, Step, TypeOK
  <2>5. \A u \in Threads \ {t} : pc'[t] = "patch" /\ pc[u] = "patch" => Here(t) # Here(u)
    <3>1. pc'[t] = "patch" => Entry(t) \notin patched
      BY <1>1, <1>type DEF AlreadyPatched, Step, TypeOK
    <3>. QED BY <3>1 DEF Inv, MarksInv
  <2>6. PatchInv'
    BY <1>1, <2>3, <2>4, <2>5 DEF AlreadyPatched, Inv, PatchInv
  <2>7. StoreInv'
    BY <1>1, <1>type DEF AlreadyPatched, Step, TypeOK, Inv, StoreInv, NeverItsOwnOriginal
  <2>. QED BY <2>1, <2>2, <2>6, <2>7 DEF Inv
<1>2. ASSUME NEW t \in Threads, PatchSlot(t) PROVE Inv'
  <2>1. TypeOK'
    BY <1>2, <1>type DEF PatchSlot, Step, TypeOK
  <2>2. \A u \in Threads : pc'[u] = "patch" => u # t /\ pc[u] = "patch"
    BY <1>2, <1>type DEF PatchSlot, Step, TypeOK
  <2>3. pc[t] = "patch" /\ Entry(t) \in patched /\ slot[Here(t)] # Hook
    BY <1>2 DEF PatchSlot, Step, Inv, MarksInv, PatchInv
  <2>4. \A s \in Classes \X Calls : s # Here(t) => slot'[s] = slot[s]
    BY <1>2, <1>type DEF PatchSlot, TypeOK
  <2>5. \A u \in Threads : Here(u) \in Classes \X Calls
    BY <1>type DEF TypeOK
  <2>6. MarksInv'
    <3>1. ASSUME NEW c \in Classes, NEW k \in Calls, slot'[<<c, k>>] = Hook
          PROVE  <<c, Table(k), k>> \in patched
      <4>1. CASE <<c, k>> = Here(t)
        BY <4>1, <2>3
      <4>2. CASE <<c, k>> # Here(t)
        BY <4>2, <2>4, <3>1 DEF Inv, MarksInv
      <4>. QED BY <4>1, <4>2
    <3>. QED BY <1>2, <2>2, <3>1 DEF PatchSlot, Inv, MarksInv
  <2>7. PatchInv'
    <3>1. ASSUME NEW u \in Threads, pc'[u] = "patch" PROVE Here(u) # Here(t)
      BY <2>2, <2>3, <3>1 DEF Inv, PatchInv
    <3>2. ASSUME NEW u \in Threads, pc'[u] = "patch" PROVE slot'[Here(u)] # Hook
      BY <2>2, <2>4, <2>5, <3>1, <3>2 DEF Inv, PatchInv
    <3>. QED BY <1>2, <2>2, <3>2 DEF PatchSlot, Inv, PatchInv
  <2>8. StoreInv'
    BY <1>2, <1>type, <2>3 DEF PatchSlot, Step, TypeOK, Inv, StoreInv, NeverItsOwnOriginal
  <2>. QED BY <2>1, <2>6, <2>7, <2>8 DEF Inv
<1>3. ASSUME NEW t \in Threads, StoreOriginal(t) PROVE Inv'
  <2>1. TypeOK'
    BY <1>3, <1>type DEF StoreOriginal, Step, TypeOK
  <2>2. \A u \in Threads : pc'[u] \in {"patch", "store"} => pc'[u] = pc[u]
    BY <1>3, <1>type DEF StoreOriginal, Step, TypeOK
  <2>3. got[t] # Hook
    BY <1>3 DEF StoreOriginal, Step, Inv, StoreInv
  <2>4. MarksInv' /\ PatchInv'
    BY <1>3, <2>2 DEF StoreOriginal, Inv, MarksInv, PatchInv
  <2>5. NeverItsOwnOriginal'
    BY <1>3, <1>type, <2>3 DEF StoreOriginal, TypeOK, Inv, StoreInv, NeverItsOwnOriginal
  <2>6. \A u \in Threads : pc'[u] = "store" => got'[u] # Hook
    <3>1. \A u \in Threads : got'[u] = IF u = t THEN None ELSE got[u]
      BY <1>3, <1>type DEF StoreOriginal, TypeOK
    <3>. QED BY <3>1, <2>2, HooksAssumption DEF Inv, StoreInv
  <2>. QED BY <2>1, <2>4, <2>5, <2>6 DEF Inv, StoreInv
<1>4. ASSUME NEW t \in Threads, UNCHANGED <<tables, got>>, pc'[t] \notin {"patch", "store"},
             \A u \in Threads \ {t} : pc'[u] = pc[u] /\ at'[u] = at[u] /\ cls'[u] = cls[u],
             TypeOK'
      PROVE  Inv'
  <2>1. \A u \in Threads : pc'[u] \in {"patch", "store"} =>
          pc[u] = pc'[u] /\ at'[u] = at[u] /\ cls'[u] = cls[u]
    BY <1>4
  <2>2. MarksInv'
    BY <1>4, <2>1 DEF Inv, MarksInv
  <2>3. PatchInv'
    BY <1>4, <2>1 DEF Inv, PatchInv
  <2>4. StoreInv'
    BY <1>4, <2>1 DEF Inv, StoreInv, NeverItsOwnOriginal
  <2>. QED BY <1>4, <2>2, <2>3, <2>4 DEF Inv
<1>5. ASSUME NEW t \in Threads, CreateDevice(t) PROVE Inv'
  <2>1. TypeOK'
    BY <1>5, <1>type DEF CreateDevice, Step, TypeOK
  <2>. QED BY <1>4, <1>5, <1>type, <2>1 DEF CreateDevice, Step, TypeOK
<1>6. ASSUME NEW t \in Threads, CallHooked(t) PROVE Inv'
  <2>1. TypeOK'
    BY <1>6, <1>type DEF CallHooked, Step, TypeOK
  <2>. QED BY <1>4, <1>6, <1>type, <2>1 DEF CallHooked, Step, TypeOK
<1>7. ASSUME NEW t \in Threads, CallUnhooked(t) PROVE Inv'
  <2>1. TypeOK'
    BY <1>7, <1>type DEF CallUnhooked, Step, TypeOK
  <2>. QED BY <1>4, <1>7, <1>type, <2>1 DEF CallUnhooked, Step, TypeOK
<1>8. ASSUME NEW t \in Threads, CallCrashes(t) PROVE Inv'
  <2>1. TypeOK'
    BY <1>8, <1>type DEF CallCrashes, TypeOK
  <2>. QED BY <1>4, <1>8, <2>1 DEF CallCrashes
<1>9. ASSUME NEW t \in Threads, Leave(t) PROVE Inv'
  <2>1. TypeOK'
    BY <1>9, <1>type DEF Leave, Step, TypeOK
  <2>. QED BY <1>4, <1>9, <1>type, <2>1 DEF Leave, Step, TypeOK
<1>. QED BY <1>0, <1>1, <1>2, <1>3, <1>5, <1>6, <1>7, <1>8, <1>9 DEF Next, Walk

\* vtable.rs 7-10: no interleaving of walks ever stores the hook as the
\* original it is to call, which would be endless recursion.
THEOREM NoHookCallsItself == Spec => []NeverItsOwnOriginal
<1>1. Inv => NeverItsOwnOriginal
  BY DEF Inv, StoreInv
<1>. QED BY InvInit, InvStep, <1>1, PTL DEF Spec

\* The tables hold only what the installation puts there.
THEOREM TypeCorrect == Spec => []TypeOK
<1>1. Inv => TypeOK
  BY DEF Inv
<1>. QED BY InvInit, InvStep, <1>1, PTL DEF Spec

-----------------------------------------------------------------------------
(* One walk at a time, and no way back to a class left.                    *)

\* With thread t at most on the walk: a marked slot is hooked, and a hooked one
\* of the latest class has its own function stored, except for what t has still
\* to do about it; a class whose first slot is not marked has none marked.
Installed(t) ==
  \A c \in Classes, k \in Calls :
    /\ slot[<<c, k>>] \in {c, Hook}
    /\ <<c, Table(k), k>> \in patched =>
         slot[<<c, k>>] = Hook \/ (pc[t] = "patch" /\ Here(t) = <<c, k>>)
    /\ slot[<<c, k>>] = Hook /\ c = latest =>
         original[k] = c \/ (pc[t] = "store" /\ Here(t) = <<c, k>>)
    /\ <<c, Table(k), k>> \in patched => <<c, Table(1), 1>> \in patched

\* The walk is the latest class's; it has marked the slots behind it, and the
\* call t is about to make is hooked.
Ready(t) ==
  /\ pc[t] # "out" =>
       /\ cls[t] = latest
       /\ at[t] # 1 \/ pc[t] # "mark" => <<cls[t], Table(1), 1>> \in patched
  /\ pc[t] = "store" => got[t] = cls[t]
  /\ pc[t] \in {"store", "call"} => slot[Here(t)] = Hook

Serial ==
  /\ ~crashed /\ \A t \in Threads : outcome[t] # "raw"
  /\ \A t, u \in Threads : pc[t] # "out" /\ pc[u] # "out" => t = u
  /\ \A t \in Threads : (\A u \in Threads \ {t} : pc[u] = "out") => Installed(t) /\ Ready(t)

SerialInv == ~raced /\ ~reverted => Serial

\* The only walk there is takes the installation of each slot to its end
\* before the call through it.
LEMMA SerialStep ==
  ASSUME Inv, SerialInv, [Next]_vars
  PROVE  SerialInv'
<1>type. TypeOK
  BY DEF Inv
<1>0. CASE UNCHANGED vars
  <2>1. UNCHANGED <<slot, patched, original, pc, at, cls, got, outcome, latest, raced, reverted, crashed>>
    BY <1>0 DEF vars
  <2>2. \A t \in Threads : Installed(t)' <=> Installed(t)
    BY <2>1 DEF Installed
  <2>3. \A t \in Threads : Ready(t)' <=> Ready(t)
    BY <2>1 DEF Ready
  <2>. QED BY <2>1, <2>2, <2>3 DEF SerialInv, Serial
<1>. SUFFICES ASSUME NEW t \in Threads, Walk(t), ~raced', ~reverted' PROVE Serial'
  BY <1>0 DEF Next, SerialInv
<1>here. cls[t] \in Classes /\ at[t] \in Calls
  BY <1>type DEF TypeOK
<1>race. ~raced /\ ~reverted
  <2>1. CASE CreateDevice(t)
    BY <2>1 DEF CreateDevice
  <2>2. CASE ~CreateDevice(t)
    BY <2>2 DEF Walk, AlreadyPatched, PatchSlot, StoreOriginal, CallHooked, CallUnhooked, CallCrashes, Leave
  <2>. QED BY <2>1, <2>2
<1>ser. Serial
  BY <1>race DEF SerialInv
<1>others. \A u \in Threads \ {t} : pc[u] = "out"
  <2>1. CASE CreateDevice(t)
    BY <2>1 DEF CreateDevice
  <2>2. CASE pc[t] # "out"
    BY <2>2, <1>ser DEF Serial
  <2>. QED BY <2>1, <2>2 DEF Walk, AlreadyPatched, PatchSlot, StoreOriginal, CallHooked, CallUnhooked,
                             CallCrashes, Leave, Step
<1>was. Installed(t) /\ Ready(t)
  BY <1>ser, <1>others DEF Serial
<1>pcs. \A u \in Threads \ {t} : pc'[u] = "out"
  <2>1. \A u \in Threads \ {t} : pc'[u] = pc[u]
    <3>1. CASE UNCHANGED pc
      BY <3>1
    <3>2. CASE \E w : pc' = [pc EXCEPT ![t] = w]
      BY <3>2, <1>type DEF TypeOK
    <3>. QED BY <3>1, <3>2 DEF Walk, CreateDevice, AlreadyPatched, PatchSlot, StoreOriginal, CallHooked,
                               CallUnhooked, CallCrashes, Leave, Step
  <2>. QED BY <2>1, <1>others
<1>1. ASSUME Installed(t)', Ready(t)', ~crashed', \A u \in Threads : outcome'[u] # "raw"
      PROVE  Serial'
  <2>1. ASSUME NEW u \in Threads, \A v \in Threads \ {u} : pc'[v] = "out"
        PROVE  Installed(u)' /\ Ready(u)'
    <3>1. CASE u = t
      BY <3>1, <1>1
    <3>2. CASE u # t
      <4>1. pc'[t] = "out" /\ pc'[u] = "out"
        BY <2>1, <3>2, <1>pcs
      <4>. QED BY <4>1, <1>1 DEF Installed, Ready
    <3>. QED BY <3>1, <3>2
  <2>2. \A v, u \in Threads : pc'[v] # "out" /\ pc'[u] # "out" => v = u
    BY <1>pcs
  <2>. QED BY <2>1, <2>2, <1>1 DEF Serial
<1>2. CASE CreateDevice(t)
  <2>1. /\ pc[t] = "out" /\ pc'[t] = "mark" /\ at'[t] = 1 /\ cls'[t] = latest' /\ latest' \in Classes
        /\ latest' # latest => <<latest', Table(1), 1>> \notin patched
        /\ UNCHANGED <<slot, patched, original, got, outcome, crashed>>
    BY <1>2, <1>type, <1>race DEF CreateDevice, Step, TypeOK
  <2>2. \A c \in Classes, k \in Calls : slot[<<c, k>>] = Hook => <<c, Table(k), k>> \in patched
    BY DEF Inv, MarksInv
  <2>3. \A c \in Classes, k \in Calls :
          /\ slot[<<c, k>>] \in {c, Hook}
          /\ <<c, Table(k), k>> \in patched => slot[<<c, k>>] = Hook
          /\ slot[<<c, k>>] = Hook /\ c = latest' => original[k] = c
          /\ <<c, Table(k), k>> \in patched => <<c, Table(1), 1>> \in patched
    <3>. TAKE c \in Classes, k \in Calls
    <3>1. /\ slot[<<c, k>>] \in {c, Hook}
          /\ <<c, Table(k), k>> \in patched => slot[<<c, k>>] = Hook
          /\ slot[<<c, k>>] = Hook /\ c = latest => original[k] = c
          /\ <<c, Table(k), k>> \in patched => <<c, Table(1), 1>> \in patched
      BY <2>1, <1>was DEF Installed
    <3>2. slot[<<c, k>>] = Hook /\ c = latest' => c = latest
      BY <2>1, <2>2, <3>1
    <3>. QED BY <3>1, <3>2
  <2>5. Installed(t)'
    <3>1. slot' = slot /\ patched' = patched /\ original' = original
      BY <2>1
    <3>. QED BY ONLY <2>3, <3>1 DEF Installed
  <2>4. Ready(t)'
    BY <2>1 DEF Ready
  <2>. QED BY <2>1, <2>4, <2>5, <1>1, <1>ser DEF Serial
<1>3. CASE AlreadyPatched(t)
  <2>1. /\ UNCHANGED <<slot, original, at, cls, got, outcome, latest, crashed>>
        /\ patched' = patched \cup {Entry(t)} /\ pc[t] = "mark"
        /\ pc'[t] = IF Entry(t) \in patched THEN "call" ELSE "patch"
    BY <1>3, <1>type DEF AlreadyPatched, Step, TypeOK
  <2>2. <<cls[t], Table(1), 1>> \in patched'
    <3>1. at[t] = 1 => Entry(t) = <<cls[t], Table(1), 1>>
      OBVIOUS
    <3>. QED BY <2>1, <3>1, <1>was DEF Ready
  <2>3. Ready(t)'
    <3>1. Entry(t) \in patched => slot[Here(t)] = Hook
      BY <2>1, <1>here, <1>was DEF Installed
    <3>2. cls[t] = latest
      BY <2>1, <1>was DEF Ready
    <3>. QED BY <2>1, <2>2, <3>1, <3>2 DEF Ready
  <2>4. Installed(t)'
    <3>1. SUFFICES ASSUME NEW c \in Classes, NEW k \in Calls
                   PROVE  /\ slot[<<c, k>>] \in {c, Hook}
                          /\ <<c, Table(k), k>> \in patched' =>
                               slot[<<c, k>>] = Hook \/ (pc'[t] = "patch" /\ Here(t) = <<c, k>>)
                          /\ slot[<<c, k>>] = Hook /\ c = latest => original[k] = c
                          /\ <<c, Table(k), k>> \in patched' => <<c, Table(1), 1>> \in patched'
      BY <2>1 DEF Installed
    <3>2. /\ slot[<<c, k>>] \in {c, Hook}
          /\ <<c, Table(k), k>> \in patched => slot[<<c, k>>] = Hook
          /\ slot[<<c, k>>] = Hook /\ c = latest => original[k] = c
          /\ <<c, Table(k), k>> \in patched => <<c, Table(1), 1>> \in patched
      BY <2>1, <1>was DEF Installed
    <3>3. <<c, Table(k), k>> = Entry(t) => Here(t) = <<c, k>> /\ c = cls[t]
      OBVIOUS
    <3>. QED BY <3>2, <3>3, <2>1, <2>2
  <2>. QED BY <2>1, <2>3, <2>4, <1>1, <1>ser DEF Serial
<1>4. CASE PatchSlot(t)
  <2>1. /\ UNCHANGED <<patched, original, at, cls, outcome, latest, crashed>>
        /\ pc[t] = "patch" /\ pc'[t] = "store" /\ got'[t] = slot[Here(t)]
        /\ slot' = [slot EXCEPT ![Here(t)] = Hook]
    BY <1>4, <1>type DEF PatchSlot, Step, TypeOK
  <2>2. slot[Here(t)] = cls[t]
    <3>1. slot[Here(t)] # Hook
      BY <2>1 DEF Inv, PatchInv
    <3>2. slot[<<cls[t], at[t]>>] \in {cls[t], Hook}
      BY <1>here, <1>was DEF Installed
    <3>. QED BY <3>1, <3>2
  <2>3. \A c \in Classes, k \in Calls :
          slot'[<<c, k>>] = IF <<c, k>> = Here(t) THEN Hook ELSE slot[<<c, k>>]
    BY <2>1, <1>type DEF TypeOK
  <2>4. Installed(t)'
    <3>1. SUFFICES ASSUME NEW c \in Classes, NEW k \in Calls
                   PROVE  /\ slot'[<<c, k>>] \in {c, Hook}
                          /\ <<c, Table(k), k>> \in patched => slot'[<<c, k>>] = Hook
                          /\ slot'[<<c, k>>] = Hook /\ c = latest =>
                               original[k] = c \/ Here(t) = <<c, k>>
                          /\ <<c, Table(k), k>> \in patched => <<c, Table(1), 1>> \in patched
      BY <2>1 DEF Installed, Here
    <3>2. /\ slot[<<c, k>>] \in {c, Hook}
          /\ <<c, Table(k), k>> \in patched => slot[<<c, k>>] = Hook \/ Here(t) = <<c, k>>
          /\ slot[<<c, k>>] = Hook /\ c = latest => original[k] = c
          /\ <<c, Table(k), k>> \in patched => <<c, Table(1), 1>> \in patched
      BY <2>1, <1>was DEF Installed
    <3>. QED BY <3>2, <2>3
  <2>5. Ready(t)'
    <3>1. slot'[Here(t)] = Hook
      BY <2>3, <1>here
    <3>2. cls[t] = latest /\ <<cls[t], Table(1), 1>> \in patched
      BY <2>1, <1>was DEF Ready
    <3>. QED BY <2>1, <2>2, <3>1, <3>2 DEF Ready
  <2>. QED BY <2>1, <2>4, <2>5, <1>1, <1>ser DEF Serial
<1>5. CASE StoreOriginal(t)
  <2>1. /\ UNCHANGED <<slot, patched, at, cls, outcome, latest, crashed>>
        /\ pc[t] = "store" /\ pc'[t] = "call" /\ original' = [original EXCEPT ![at[t]] = got[t]]
    BY <1>5, <1>type DEF StoreOriginal, Step, TypeOK
  <2>2. \A k \in Calls : original'[k] = IF k = at[t] THEN got[t] ELSE original[k]
    BY <2>1, <1>type DEF TypeOK
  <2>3. /\ got[t] = cls[t] /\ cls[t] = latest /\ slot[Here(t)] = Hook
        /\ <<cls[t], Table(1), 1>> \in patched
    BY <2>1, <1>was DEF Ready
  <2>4. Installed(t)'
    <3>1. SUFFICES ASSUME NEW c \in Classes, NEW k \in Calls
                   PROVE  /\ slot[<<c, k>>] \in {c, Hook}
                          /\ <<c, Table(k), k>> \in patched => slot[<<c, k>>] = Hook
                          /\ slot[<<c, k>>] = Hook /\ c = latest => original'[k] = c
                          /\ <<c, Table(k), k>> \in patched => <<c, Table(1), 1>> \in patched
      BY <2>1 DEF Installed
    <3>2. /\ slot[<<c, k>>] \in {c, Hook}
          /\ <<c, Table(k), k>> \in patched => slot[<<c, k>>] = Hook
          /\ slot[<<c, k>>] = Hook /\ c = latest => original[k] = c \/ k = at[t]
          /\ <<c, Table(k), k>> \in patched => <<c, Table(1), 1>> \in patched
      BY <2>1, <1>was DEF Installed
    <3>. QED BY <3>2, <2>2, <2>3
  <2>5. Ready(t)'
    BY <2>1, <2>3 DEF Ready
  <2>. QED BY <2>1, <2>4, <2>5, <1>1, <1>ser DEF Serial
<1>6. CASE CallHooked(t) \/ Leave(t)
  <2>1. /\ UNCHANGED <<slot, patched, original, cls, got, latest, crashed>>
        /\ pc[t] = "call" /\ pc'[t] \in {"out", "mark"}
    BY <1>6, <1>type DEF CallHooked, Leave, Step, TypeOK
  <2>2. \A u \in Threads : outcome'[u] # "raw"
    BY <1>6, <1>type, <1>ser DEF CallHooked, Leave, TypeOK, Serial
  <2>3. \A c \in Classes, k \in Calls :
          /\ slot[<<c, k>>] \in {c, Hook}
          /\ <<c, Table(k), k>> \in patched => slot[<<c, k>>] = Hook
          /\ slot[<<c, k>>] = Hook /\ c = latest => original[k] = c
          /\ <<c, Table(k), k>> \in patched => <<c, Table(1), 1>> \in patched
    BY <2>1, <1>was DEF Installed
  <2>4. Installed(t)'
    <3>1. UNCHANGED <<slot, patched, original, latest>>
      BY <2>1
    <3>. QED BY <2>3, <3>1 DEF Installed
  <2>5. Ready(t)'
    <3>1. cls[t] = latest /\ <<cls[t], Table(1), 1>> \in patched
      BY <2>1, <1>was DEF Ready
    <3>. QED BY <2>1, <3>1 DEF Ready
  <2>. QED BY <2>1, <2>2, <2>4, <2>5, <1>1, <1>ser DEF Serial
<1>7. CASE CallUnhooked(t)
  BY <1>7, <1>was DEF CallUnhooked, Step, Ready
<1>8. CASE CallCrashes(t)
  <2>1. pc[t] = "call" /\ slot[<<cls[t], at[t]>>] = Hook /\ original[at[t]] # cls[t]
    BY <1>8 DEF CallCrashes
  <2>2. cls[t] = latest
    BY <2>1, <1>was DEF Ready
  <2>. QED BY <2>1, <2>2, <1>was, <1>here DEF Installed
<1>. QED BY <1>2, <1>3, <1>4, <1>5, <1>6, <1>7, <1>8 DEF Walk

\* vtable.rs 12-18, lib.rs 5-9, state.rs 73-77: with one thread on the walk at
\* a time, and no device of a class the host had left for another, no hook fires
\* without its original or with another class's, and every duplication a host
\* gets is a proxy.
THEOREM OneWalkAtATimeSuffices == Spec => []EveryDuplicateProxied
<1>1. Init => SerialInv
  <2>. SUFFICES ASSUME Init PROVE Serial
    BY DEF SerialInv
  <2>1. \A c \in Classes, k \in Calls : slot[<<c, k>>] = c /\ c # Hook
    BY HooksAssumption DEF Init
  <2>2. \A t \in Threads : Installed(t) /\ Ready(t)
    BY <2>1 DEF Init, Installed, Ready
  <2>. QED BY <2>2 DEF Init, Serial
<1>2. Inv /\ SerialInv /\ [Next]_vars => SerialInv'
  BY SerialStep
<1>3. SerialInv => EveryDuplicateProxied
  BY DEF SerialInv, Serial, EveryDuplicateProxied
<1>. QED BY <1>1, <1>2, <1>3, InvInit, InvStep, PTL DEF Spec
=============================================================================
