---------------------------- MODULE VirtualDisplay ----------------------------
(***************************************************************************)
(* vdd-helper: a process that plugs a display in, reports the DXGI output  *)
(* it is, and keeps it for as long as its caller holds its standard input  *)
(* open.  The driver takes a display away whose process is gone or has     *)
(* stopped updating it.                                                    *)
(***************************************************************************)
EXTENDS Naturals, FiniteSets, Sequences

CONSTANTS
  Helpers,  \* the processes there can be, in the order they start
  Monitors  \* the other outputs of the adapter

ASSUME HelpersAssumption ==
  /\ Cardinality(Helpers) \in Nat /\ Helpers = 1..Cardinality(Helpers)
  /\ IsFiniteSet(Monitors) /\ Monitors \cap (Helpers \cup {0}) = {}

VARIABLES
  helper,   \* where each process is in main
  stdin,    \* what the caller has done with its standard input
  outputs,  \* the monitors and virtual displays, in the order of EnumOutputs
  index,    \* the output_idx a process has found, from 1, or its caller has of it; 0 for none
  shifted   \* the processes before whose index, or at it, an output has come or gone since

helperVars == <<helper, stdin, outputs, index, shifted>>

Outputs == Helpers \cup Monitors
Listed == {outputs[n] : n \in DOMAIN outputs}
Running(h) == helper[h] \notin {"none", "over"}

HelperTypeOK ==
  /\ helper \in [Helpers -> {"none", "adding", "finding", "reporting", "serving", "stopping", "over"}]
  /\ stdin \in [Helpers -> {"open", "remove", "closed"}]
  /\ outputs \in Seq(Outputs) /\ Len(outputs) = Cardinality(Listed)
  /\ index \in [Helpers -> 0..Cardinality(Outputs)]
  /\ shifted \subseteq Helpers

HelperInit ==
  /\ helper = [h \in Helpers |-> "none"]
  /\ stdin = [h \in Helpers |-> "open"]
  /\ outputs = <<>>
  /\ index = [h \in Helpers |-> 0]
  /\ shifted = {}

-----------------------------------------------------------------------------
(* The outputs.                                                            *)

\* The places from n on have changed.
ShiftedFrom(n) == shifted' = shifted \cup {h \in Helpers : n <= index[h]}

\* Windows puts a new output anywhere among the others.
Appears(o) ==
  \E n \in 1..Len(outputs) + 1 :
    /\ outputs' = SubSeq(outputs, 1, n - 1) \o <<o>> \o SubSeq(outputs, n, Len(outputs))
    /\ ShiftedFrom(n)

Vanishes(o) ==
  IF o \notin Listed THEN UNCHANGED <<outputs, shifted>>
  ELSE \E n \in DOMAIN outputs :
         /\ outputs[n] = o
         /\ outputs' = SubSeq(outputs, 1, n - 1) \o SubSeq(outputs, n + 1, Len(outputs))
         /\ ShiftedFrom(n)

MonitorOn(m) ==
  /\ m \notin Listed /\ Appears(m)
  /\ UNCHANGED <<helper, stdin, index>>

MonitorOff(m) ==
  /\ m \in Listed /\ Vanishes(m)
  /\ UNCHANGED <<helper, stdin, index>>

\* The handle was closed, or nobody calls vdd_update.
DriverDrops(h) ==
  /\ h \in Listed /\ helper[h] # "serving"
  /\ Vanishes(h)
  /\ UNCHANGED <<helper, stdin, index>>

-----------------------------------------------------------------------------
(* main.                                                                   *)

\* The line is in the pipe to the caller.
Printed(h) == index[h] # 0 /\ helper[h] # "reporting"

\* The process, or the caller, is gone and its variables with it.
Forget(h) == index' = [index EXCEPT ![h] = 0] /\ shifted' = shifted \ {h}

Goes(h, from, to) == helper[h] = from /\ helper' = [helper EXCEPT ![h] = to]

\* The caller's Popen.
Spawn(h) ==
  /\ Goes(h, "none", "adding")
  /\ UNCHANGED <<stdin, outputs, index, shifted>>

\* No driver, or no display that can be told from those there were.
AddFails(h) ==
  /\ Goes(h, "adding", "over")
  /\ UNCHANGED <<stdin, outputs, index, shifted>>

AddDisplay(h) ==
  /\ Goes(h, "adding", "finding")
  /\ Appears(h)
  /\ UNCHANGED <<stdin, index>>

\* No device, or the display is not among its outputs: it is removed.
IndexFails(h) ==
  /\ Goes(h, "finding", "over")
  /\ Vanishes(h)
  /\ UNCHANGED <<stdin, index>>

\* The driver's own number of the display.
MutantSlotIndex(h) ==
  /\ h \in Listed /\ Goes(h, "finding", "reporting")
  /\ index' = [index EXCEPT ![h] = h]
  /\ UNCHANGED <<stdin, outputs, shifted>>

\* find_dxgi_output_index: the output with the display's device name.  An
\* adapter goes on listing the outputs there were when it was made.
FindIndex(h) ==
  /\ Goes(h, "finding", "reporting")
  /\ \E n \in DOMAIN outputs : outputs[n] = h /\ index' = [index EXCEPT ![h] = n]
  /\ UNCHANGED <<stdin, outputs, shifted>>

\* The index is printed and the watchdog started, whether or not the display
\* is still there.  The print panics when the caller, and so the pipe, is gone.
Report(h) ==
  /\ IF stdin[h] = "closed" THEN Goes(h, "reporting", "over") /\ Forget(h)
     ELSE Goes(h, "reporting", "serving") /\ UNCHANGED <<index, shifted>>
  /\ UNCHANGED <<stdin, outputs>>

\* A loop that waits for the command only.
MutantIgnoresEof(h) ==
  /\ stdin[h] = "remove" /\ Goes(h, "serving", "stopping")
  /\ UNCHANGED <<stdin, outputs, index, shifted>>

\* The line "remove", or the end of the input: the watchdog is stopped.
StdinEnds(h) ==
  /\ stdin[h] # "open" /\ Goes(h, "serving", "stopping")
  /\ UNCHANGED <<stdin, outputs, index, shifted>>

RemoveDisplay(h) ==
  /\ Goes(h, "stopping", "over")
  /\ Vanishes(h)
  /\ UNCHANGED <<stdin, index>>

\* Killed, or ended by the Ctrl+C that reaches every process of the console.
HelperKilled(h) ==
  /\ Running(h) /\ helper' = [helper EXCEPT ![h] = "over"]
  /\ IF helper[h] = "reporting" THEN Forget(h) ELSE UNCHANGED <<index, shifted>>
  /\ UNCHANGED <<stdin, outputs>>

\* What main does by itself, and the driver for a process that is gone.
HelperRuns(h) ==
  \/ AddFails(h) \/ AddDisplay(h) \/ IndexFails(h) \/ FindIndex(h) \/ Report(h)
  \/ StdinEnds(h) \/ RemoveDisplay(h) \/ (helper[h] = "over" /\ DriverDrops(h))

\* A process that is killed, a driver that misses the watchdog, the user's monitors.
Disturbance ==
  \/ \E h \in Helpers : HelperKilled(h) \/ DriverDrops(h)
  \/ \E m \in Monitors : MonitorOn(m) \/ MonitorOff(m)
=============================================================================
