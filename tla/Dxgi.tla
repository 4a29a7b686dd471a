-------------------------------- MODULE Dxgi --------------------------------
(***************************************************************************)
(* What the hook DLL relies on outside src/: the Windows input desktop,    *)
(* DXGI's output topology, and the IDXGIOutputDuplication objects it hands *)
(* out.  Everything here is modelled from how dda-hook-core/src calls it   *)
(* and from what its comments record about it (recovery.rs 58-100 and      *)
(* 153-169, state.rs 79-92, duplication_proxy.rs 44-54 and 368-397).       *)
(***************************************************************************)
EXTENDS FiniteSets

CONSTANTS
  Captures,     \* the capture clients of the host, each with its own proxy
  Threads,      \* the threads the host calls from
  Instances,    \* identities a real IDXGIOutputDuplication can have
  Outputs,      \* indices IDXGIAdapter::EnumOutputs accepts
  Devices,      \* the host's ID3D11Device objects
  Desktops,     \* names an input desktop can have
  Attachable,   \* those this process may attach a thread to
  HomeDesktop,  \* the desktop the process was started on
  Removable,    \* devices that can be removed (driver reset, unplug)
  NoInst, NoDev, NoCap, NoOut,
  Output0       \* index 0, what LAST_OUTPUT_INDEX starts as

ASSUME DxgiAssumption ==
  /\ Attachable \subseteq Desktops /\ HomeDesktop \in Attachable
  /\ Removable \subseteq Devices
  /\ NoInst \notin Instances /\ NoDev \notin Devices
  /\ NoCap \notin Captures /\ NoOut \notin Outputs /\ Output0 \in Outputs

VARIABLES
  desktop,   \* the current input desktop
  settled,   \* FALSE while a desktop switch or a mode change is under way
  present,   \* the outputs the current topology has
  current,   \* IDXGIFactory1::IsCurrent of the factory the devices came from
  upToDate,  \* captures whose adapter/output objects predate no topology change
  removed,   \* devices that were removed
  inst,      \* the duplication objects
  tdesk      \* the desktop each thread is attached to

envVars == <<desktop, settled, present, current, upToDate, removed>>

(***************************************************************************)
(* "good"   works; "lost" answers ACCESS_LOST or ACCESS_DENIED for ever;   *)
(* "doomed" was made while another object of its output was alive, and     *)
(*          fails for ever; "ghost" was made on an output of a torn-down   *)
(*          topology: it hands out a frame and then fails to release it.   *)
(***************************************************************************)
Health == {"good", "lost", "doomed", "ghost"}

LiveInst == [st : Health, out : Outputs, dev : Devices, frame : BOOLEAN]
Free == [st |-> "free"]

LostCodes == {"access_lost", "access_denied", "invalid_call"}
HResults == {"ok", "timeout", "fail", "removed"} \cup LostCodes

Live == {i \in Instances : inst[i].st # "free"}
LiveOn(o) == {i \in Live : inst[i].out = o}

DxgiTypeOK ==
  /\ desktop \in Desktops /\ settled \in BOOLEAN
  /\ present \subseteq Outputs /\ current \in BOOLEAN
  /\ upToDate \subseteq Captures /\ removed \subseteq Devices
  /\ inst \in [Instances -> LiveInst \cup {Free}]
  /\ tdesk \in [Threads -> Desktops]

DxgiInit ==
  /\ desktop = HomeDesktop /\ settled = TRUE
  /\ present = Outputs /\ current = TRUE
  /\ upToDate = {} /\ removed = {}
  /\ inst = [i \in Instances |-> Free]
  /\ tdesk = [t \in Threads |-> HomeDesktop]

-----------------------------------------------------------------------------
(* What a call can answer.                                                 *)

\* OpenInputDesktop + SetThreadDesktop succeed once the desktop is settled
\* and this process has access to it.
AttachSucceeds == settled /\ desktop \in Attachable

AcquireAnswers(i) ==
  CASE inst[i].dev \in removed -> {"removed"}
    [] inst[i].st = "lost"     -> {"access_lost", "access_denied"}
    [] inst[i].st = "doomed"   -> LostCodes
    [] inst[i].frame           -> {"invalid_call"}
    [] inst[i].st = "ghost"    -> {"ok"}
    [] OTHER                   -> {"ok", "timeout"}

\* ReleaseFrame and GetFramePointerShape need a frame to be held.
ReleaseAnswers(i) ==
  CASE inst[i].dev \in removed -> {"removed"}
    [] inst[i].st = "lost"     -> {"access_lost"}
    [] inst[i].frame /\ inst[i].st = "good" -> {"ok"}
    [] OTHER                   -> {"invalid_call"}

PointerAnswers(i) ==
  CASE inst[i].dev \in removed -> {"removed"}
    [] inst[i].st = "lost"     -> {"access_lost"}
    [] inst[i].frame           -> {"ok"}
    [] OTHER                   -> {"invalid_call"}

\* The health of the object DuplicateOutput(1) on output o can return to
\* thread t, and "fail" for an error.
DuplicateAnswers(t, d, o, outputIsCurrent) ==
  IF ~settled \/ tdesk[t] # desktop \/ d \in removed
    THEN {"fail"}
  ELSE IF LiveOn(o) # {} THEN {"doomed", "fail"}
  ELSE IF ~outputIsCurrent THEN {"ghost", "fail"}
  ELSE IF o \in present THEN {"good"}
  ELSE {"fail"}

-----------------------------------------------------------------------------
(* The environment's own steps.                                            *)

Lose(S) == [i \in Instances |->
              IF i \in S /\ i \in Live THEN [inst[i] EXCEPT !.st = "lost"]
              ELSE inst[i]]

\* A switch to or from the secure desktop, or a mode change, starts: every
\* duplication loses access.
BeginSwitch ==
  /\ settled
  /\ settled' = FALSE
  /\ inst' = Lose(Instances)
  /\ UNCHANGED <<desktop, present, current, upToDate, removed, tdesk>>

EndSwitch ==
  /\ ~settled
  /\ settled' = TRUE
  /\ desktop' \in Desktops
  /\ UNCHANGED <<present, current, upToDate, removed, inst, tdesk>>

\* A virtual display adapter tears its display device down, and makes a new
\* one, across a rapid desktop switch.
TearDown(o) ==
  /\ o \in present
  /\ present' = present \ {o}
  /\ current' = FALSE /\ upToDate' = {}
  /\ inst' = Lose(LiveOn(o))
  /\ UNCHANGED <<desktop, settled, removed, tdesk>>

Recreate(o) ==
  /\ o \in Outputs \ present
  /\ present' = present \cup {o}
  /\ current' = FALSE /\ upToDate' = {}
  /\ UNCHANGED <<desktop, settled, removed, inst, tdesk>>

RemoveDevice(d) ==
  /\ d \in Removable \ removed
  /\ removed' = removed \cup {d}
  /\ UNCHANGED <<desktop, settled, present, current, upToDate, inst, tdesk>>

DxgiNext ==
  \/ BeginSwitch
  \/ EndSwitch
  \/ \E o \in Outputs : TearDown(o) \/ Recreate(o)
  \/ \E d \in Devices : RemoveDevice(d)
=============================================================================
