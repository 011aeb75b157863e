------------------------------- MODULE MegaLoop -------------------------------
(****************************************************************************)
(* The planner in the arduino mega2560 firmware: the loop of                *)
(* arch/mega2560/main.c pre-calculates, reports and handles at most one     *)
(* command of the host per turn (hardware_loop), the step interrupt comes   *)
(* at any point of it, and gcode_handler.c maps a command to calls of the   *)
(* planner.                                                                 *)
(*                                                                          *)
(* The host is not modelled: any command may come at any turn, whatever the *)
(* firmware answered.                                                       *)
(****************************************************************************)
EXTENDS Planner, FiniteSets

VARIABLE pc    \* the part of the loop the main context is in

loop == <<vars, pc>>

LoopInit ==
    /\ Init
    /\ pc = "precalc"

-----------------------------------------------------------------------------
(* Commands                                                                 *)

\* G0 to G3, M3, M5. With no place left the answer is an error and a lock;
\* when locked it is an error.
MotionCommand(type) ==
    \/ Accept(type)
    \/ /\ ~locked
       /\ EmptySlots = 0
       /\ PlannerLock

\* M801, and whatever the handler cannot make sense of: no command number, an
\* unknown command, a line that does not parse.
LockCommand == PlannerLock

\* M800, M802, M803, M100
SetupCommand ==
    \/ PlannerUnlock
    \/ \E fail \in BOOLEAN : FailOnEndstops(fail)
    \/ Configure

\* Commands the planner's state does not depend on or is not changed by: a
\* motion of no length, a refused one, M114, M119, M80, M81, M995 to M997, a
\* bad checksum, M800 before M100, or no command at all.
OtherCommand == UNCHANGED vars

\* M999: the watchdog resets the board, main starts over.
Reboot ==
    /\ plan' = Mark([i \in Slots |-> Blank], 0, "finished")
    /\ plan_first' = 0
    /\ plan_cur' = 0
    /\ plan_last' = 0
    /\ plan_len' = 0
    /\ active_plan_len' = 0
    /\ locked' = TRUE
    /\ fail_on_endstops' = TRUE
    /\ configured' = FALSE
    /\ going' = FALSE
    /\ engine' = 0
    /\ barrier' = sent
    /\ UNCHANGED <<loopVars, sent, told>>

handle_g_command ==
    \/ \E type \in {"move", "tool"} : MotionCommand(type)
    \/ LockCommand
    \/ SetupCommand
    \/ OtherCommand
    \/ Reboot

-----------------------------------------------------------------------------
(* The main loop and the interrupt                                          *)

\* planner_pre_calculate. A tick moves plan_cur under the loop's index, so the
\* loop may end with queued moves left behind.
PreCalculate ==
    /\ pc = "precalc"
    /\ \/ /\ PreCalcBegin \/ PreCalcEnd
          /\ UNCHANGED pc
       \/ /\ calc = Nobody
          /\ BeginReport
          /\ pc' = "report"

\* planner_report_states
ReportStates ==
    /\ pc = "report"
    /\ ReportSlot \/ ReportClear
    /\ pc' = IF scan' = Nobody THEN "uart" ELSE "report"

\* hardware_loop
HardwareLoop ==
    /\ pc = "uart"
    /\ handle_g_command
    /\ pc' = "precalc"

Isr == Tick /\ UNCHANGED pc

Main == PreCalculate \/ ReportStates \/ HardwareLoop

LoopNext == Main \/ Isr

LoopSpec == LoopInit /\ [][LoopNext]_loop

\* The main loop is never starved, and a move that runs comes to its end.
FairLoopSpec ==
    /\ LoopSpec
    /\ WF_loop(Main)
    /\ WF_loop(Isr)

-----------------------------------------------------------------------------
(* The abstract queue                                                       *)

\* The ring, with its three indices and two counters, two contexts writing it
\* and reports freeing slots, implements the queue: nothing is executed out of
\* order, twice, or after a lock.
ImplementsQueue == Promise!Spec

-----------------------------------------------------------------------------
(* Safety                                                                   *)

Final(i) == plan[i].state \in {"finished", "failed"} /\ plan[i].changed

LoopTypeOK ==
    /\ TypeOK
    /\ pc \in {"precalc", "report", "uart"}

\* When a command is handled, plan_len has counted every slot still to execute
\* and every one whose end is still to be reported, so empty_slots never
\* promises a place that is taken.
PlacesCounted ==
    pc = "uart" /\ ~locked =>
        active_plan_len + Cardinality({i \in Slots : Final(i)}) <= plan_len

\* An accepted command is never put into a slot that waits, runs, or has an end
\* to report.
NoOverwrite ==
    [][sent' # sent => plan_last \notin Pending /\ ~Final(plan_last)]_loop

\* No command is called completed or failed while it waits or runs.
NoPrematureReport == \A i \in Pending : plan[i].nid \notin told \ {0}

\* A report blanks a slot that waits or runs only after plan_first has been left
\* behind by a lock: with the indices in step, freeing a slot is safe.
InStep == plan_last = At(plan_first, plan_len)

BlankedOnlyOutOfStep ==
    [][\A i \in Pending : plan[i].type # "none" /\ plan'[i] = Blank /\ ~locked'
            => ~InStep]_loop

\* The step interrupt always has an endstop check to make while touching an
\* endstop is an error (README: M803, on at start).
EndstopArmed == going /\ fail_on_endstops => plan[engine].type = "move"

\* With nothing to execute and nothing to report the whole queue is free, the
\* size it is configured to (Kconfig: QUEUE_SIZE).
PlacesReturned ==
    pc = "uart" /\ ~locked /\ active_plan_len = 0 /\ (\A i \in Slots : ~Final(i))
        => plan_len = 0

\* No axis moves before all of them are configured.
NoMotionUnconfigured == going => configured

-----------------------------------------------------------------------------
(* Liveness                                                                 *)

Waits(nid) == \E i \in Pending : plan[i].nid = nid

\* Every accepted command leaves the queue, executed or discarded.
QueueDrains == \A nid \in 1 .. MaxNid : Waits(nid) ~> ~Waits(nid)

\* Every change of a slot is looked at by the report.
ChangesSeen == \A i \in Slots : plan[i].changed ~> ~plan[i].changed

=============================================================================
