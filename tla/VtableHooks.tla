----------------------------- MODULE VtableHooks -----------------------------
(***************************************************************************)
(* How the vtable hooks get installed: every host thread that creates a    *)
(* device walks QueryInterface -> GetParent -> EnumOutputs ->              *)
(* QueryInterface -> DuplicateOutput, and each hook, when it sees the      *)
(* object the next call will be made on, patches that call's slot.  The    *)
(* vtables belong to classes, PATCHED and each ORIGINAL_* to the process:  *)
(* one ORIGINAL_* serves every class, and holds the function of the class  *)
(* patched last.                                                           *)
(***************************************************************************)
EXTENDS Naturals

CONSTANTS
  Threads,    \* the host's threads
  Classes,    \* implementations a device and its objects can have
  None, Hook  \* no value; our own function

ASSUME HooksAssumption ==
  None \notin Classes /\ Hook \notin Classes /\ None # Hook

\* The hooked calls in the order of the walk: device QueryInterface,
\* GetParent, EnumOutputs, output QueryInterface, DuplicateOutput(1).
Calls == 1..5

\* Which vtable the slot of call k is in: the whole IDXGIOutput chain of
\* interfaces shares one.
Table(k) == IF k = 5 THEN 4 ELSE k

VARIABLES
  slot,     \* [Classes \X Calls -> a class's own function or Hook]
  patched,  \* PATCHED
  original, \* [Calls -> ORIGINAL_*]: None, a class's function, or Hook
  pc,       \* what each thread does next ...
  at,       \* ... about call number at[t] ...
  cls,      \* ... on objects of this class
  got,      \* the local `original` of an installation
  outcome,  \* what the thread's last DuplicateOutput gave it
  latest,   \* class of the latest device
  raced,    \* two threads were on the walk at once
  reverted, \* a device of a class met before came after one of another class
  crashed   \* .expect on an ORIGINAL_* not stored yet, endless recursion, or
            \* another class's function run on an object

vars == <<slot, patched, original, pc, at, cls, got, outcome, latest, raced, reverted, crashed>>
tables == <<slot, patched, original>>
history == <<latest, raced, reverted>>

TypeOK ==
  /\ slot \in [Classes \X Calls -> Classes \cup {Hook}]
  /\ patched \subseteq Classes \X Calls \X Calls
  /\ original \in [Calls -> Classes \cup {None, Hook}]
  /\ pc \in [Threads -> {"out", "mark", "patch", "store", "call"}]
  /\ at \in [Threads -> Calls] /\ cls \in [Threads -> Classes]
  /\ got \in [Threads -> Classes \cup {None, Hook}]
  /\ outcome \in [Threads -> {"none", "proxy", "raw"}]
  /\ latest \in Classes \cup {None}
  /\ raced \in BOOLEAN /\ reverted \in BOOLEAN /\ crashed \in BOOLEAN

Init ==
  /\ slot = [s \in Classes \X Calls |-> s[1]]
  /\ patched = {} /\ original = [k \in Calls |-> None]
  /\ pc = [t \in Threads |-> "out"] /\ at = [t \in Threads |-> 1]
  /\ cls \in [Threads -> Classes]
  /\ got = [t \in Threads |-> None]
  /\ outcome = [t \in Threads |-> "none"]
  /\ latest = None /\ raced = FALSE /\ reverted = FALSE /\ crashed = FALSE

Step(t, from, to) == ~crashed /\ pc[t] = from /\ pc' = [pc EXCEPT ![t] = to]
Here(t) == <<cls[t], at[t]>>
Entry(t) == <<cls[t], Table(at[t]), at[t]>>

\* D3D11CreateDevice returned a device: install_device_hooks.
CreateDevice(t) ==
  /\ Step(t, "out", "mark")
  /\ raced' = (raced \/ \E u \in Threads : pc[u] # "out")
  /\ at' = [at EXCEPT ![t] = 1]
  /\ \E c \in Classes :
       /\ cls' = [cls EXCEPT ![t] = c]
       /\ latest' = c
       /\ reverted' = (reverted \/ (c # latest /\ <<c, Table(1), 1>> \in patched))
  /\ UNCHANGED <<tables, got, outcome, crashed>>

\* PATCHED keyed by the vtable alone.
MutantKeysByTable(t) ==
  /\ Step(t, "mark", IF <<cls[t], Table(at[t])>> \in patched THEN "call" ELSE "patch")
  /\ patched' = patched \cup {<<cls[t], Table(at[t])>>}
  /\ UNCHANGED <<slot, original, at, cls, got, outcome, history, crashed>>

\* already_patched that only looks.
MutantNeverMarks(t) ==
  /\ Step(t, "mark", IF Entry(t) \in patched THEN "call" ELSE "patch")
  /\ UNCHANGED <<tables, at, cls, got, outcome, history, crashed>>

\* already_patched: looks and inserts under one lock.
AlreadyPatched(t) ==
  /\ Step(t, "mark", IF Entry(t) \in patched THEN "call" ELSE "patch")
  /\ patched' = patched \cup {Entry(t)}
  /\ UNCHANGED <<slot, original, at, cls, got, outcome, history, crashed>>

PatchSlot(t) ==
  /\ Step(t, "patch", "store")
  /\ got' = [got EXCEPT ![t] = slot[Here(t)]]
  /\ slot' = [slot EXCEPT ![Here(t)] = Hook]
  /\ UNCHANGED <<patched, original, at, cls, outcome, history, crashed>>

\* ORIGINAL_* stored the first time only, as in a OnceCell.
MutantStoresOnce(t) ==
  /\ Step(t, "store", "call")
  /\ original' = [original EXCEPT ![at[t]] = IF @ = None THEN got[t] ELSE @]
  /\ got' = [got EXCEPT ![t] = None]
  /\ UNCHANGED <<slot, patched, at, cls, outcome, history, crashed>>

StoreOriginal(t) ==
  /\ Step(t, "store", "call")
  /\ original' = [original EXCEPT ![at[t]] = got[t]]
  /\ got' = [got EXCEPT ![t] = None]
  /\ UNCHANGED <<slot, patched, at, cls, outcome, history, crashed>>

\* The host's call at[t], made through the hook: the original, and then the
\* installation for the next call or the proxy.  When the original is another
\* class's, what running it on this object does is undefined: it may do what
\* the class's own would, as here, or bring the process down (CallCrashes).
CallHooked(t) ==
  /\ slot[Here(t)] = Hook /\ original[at[t]] \in Classes
  /\ IF at[t] = 5
       THEN /\ Step(t, "call", "out")
            /\ outcome' = [outcome EXCEPT ![t] = "proxy"]
            /\ UNCHANGED at
       ELSE /\ Step(t, "call", "mark")
            /\ at' = [at EXCEPT ![t] = at[t] + 1]
            /\ UNCHANGED outcome
  /\ UNCHANGED <<tables, cls, got, history, crashed>>

\* The slot is not patched yet: no hook sees the call or its result.
CallUnhooked(t) ==
  /\ slot[Here(t)] # Hook
  /\ IF at[t] = 5
       THEN /\ Step(t, "call", "out")
            /\ outcome' = [outcome EXCEPT ![t] = "raw"]
            /\ UNCHANGED at
       ELSE /\ Step(t, "call", "call")
            /\ at' = [at EXCEPT ![t] = at[t] + 1]
            /\ UNCHANGED outcome
  /\ UNCHANGED <<tables, cls, got, history, crashed>>

\* The hook fires and its original is not there, is the hook itself, or is the
\* function of another class.
CallCrashes(t) ==
  /\ ~crashed /\ pc[t] = "call"
  /\ slot[Here(t)] = Hook /\ original[at[t]] # cls[t]
  /\ crashed' = TRUE
  /\ UNCHANGED <<tables, pc, at, cls, got, outcome, history>>

\* The call fails, and the hook installs nothing on its result, or the host
\* does not make it.
Leave(t) ==
  /\ Step(t, "call", "out")
  /\ UNCHANGED <<tables, at, cls, got, outcome, history, crashed>>

Walk(t) ==
  \/ CreateDevice(t) \/ AlreadyPatched(t) \/ PatchSlot(t) \/ StoreOriginal(t)
  \/ CallHooked(t) \/ CallUnhooked(t) \/ CallCrashes(t) \/ Leave(t)

Next == \E t \in Threads : Walk(t)

Spec == Init /\ [][Next]_vars
-----------------------------------------------------------------------------
(* Properties.                                                             *)

\* vtable.rs 7-10: however the walks interleave, no slot is patched twice, so
\* no ORIGINAL_* is our own hook, which would call itself until the stack is
\* full.
NeverItsOwnOriginal == \A k \in Calls : original[k] # Hook

\* vtable.rs 12-18, lib.rs 5-9, state.rs 73-77: with one thread on the walk at
\* a time, and as long as the host has not gone back to a class of devices it
\* had left for another, no call goes unhooked, no hook fires without its
\* original or with another class's (one ORIGINAL_* serves them all,
\* dxgi_output.rs 31-33), and the host's duplication is a proxy.
EveryDuplicateProxied ==
  ~raced /\ ~reverted => ~crashed /\ \A t \in Threads : outcome[t] # "raw"
=============================================================================
