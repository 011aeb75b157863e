---------------------------- MODULE MegaLoopProofs ----------------------------
(****************************************************************************)
(* The firmware's loop around the planner, for every size of the ring.      *)
(*                                                                          *)
(* That a command always finds plan_len counting every place in use is not  *)
(* inductive: a lock sets plan_len to zero and leaves slots behind whose    *)
(* end is still to be reported, so the count is wrong until the next report *)
(* has gone over them.  LoopInv says so (Stale), and that nothing runs in   *)
(* the meantime.                                                            *)
(*                                                                          *)
(* That the ring implements the queue needs no more than LoopInv; what the  *)
(* queue then promises, order and at most once, follows from the steps of   *)
(* the queue alone.  That reports tell the truth needs that numbers are not *)
(* used twice, and that the slot plan_last points to has nothing left to    *)
(* say (FateInv).                                                           *)
(****************************************************************************)
EXTENDS MegaLoop, PlannerProofs

Places == active_plan_len + Cardinality(Done) <= plan_len

\* Left over from a lock, and the report has yet to come to it.
Stale ==
    /\ active_plan_len = 0
    /\ \/ pc = "precalc"
       \/ pc = "report" /\ \A i \in Done : i >= scan

Counted == locked \/ Places \/ Stale

LoopInv ==
    /\ Inv
    /\ pc \in {"precalc", "report", "uart"}
    /\ pc = "report" <=> scan # Nobody
    /\ calc # Nobody => pc = "precalc"
    /\ locked => plan_len = 0
    /\ ~locked => configured
    /\ Counted

-----------------------------------------------------------------------------
(* Counting                                                                 *)

\* A step that ends k slots more and takes k off the ones to execute.
LEMMA PlacesKept ==
    ASSUME Places, NEW c \in Slots, NEW k \in Nat,
           active_plan_len \in Nat, plan_len \in Nat,
           active_plan_len' \in Nat, plan_len' \in Nat,
           active_plan_len' + k + plan_len <= active_plan_len + plan_len',
           Done' \subseteq Done \cup Window(c, k)
    PROVE  Places'
<1>1. Done \in SUBSET Slots /\ Done' \in SUBSET Slots
  BY DEF Done, Finals
<1>2. Cardinality(Done') <= Cardinality(Done) + k
  BY <1>1, CountBound
<1>3. Cardinality(Done) \in Nat /\ Cardinality(Done') \in Nat
  BY <1>1, SlotsFinite
<1>4. active_plan_len + Cardinality(Done) <= plan_len
  BY DEF Places
<1>5. active_plan_len' + Cardinality(Done') <= plan_len'
  BY <1>2, <1>3, <1>4, CountTransfer
<1> QED BY <1>5 DEF Places

\* A step that ends no slot.
LEMMA PlacesUndisturbed ==
    ASSUME Places, active_plan_len \in Nat, plan_len \in Nat,
           active_plan_len' = active_plan_len, plan_len' = plan_len,
           Done' \subseteq Done
    PROVE  Places'
<1>1. 0 \in Slots /\ Done' \subseteq Done \cup Window(0, 0)
  BY QueueSizeAssumption DEF Slots
<1> QED BY <1>1, PlacesKept

-----------------------------------------------------------------------------
(* The building blocks                                                      *)

\* The end of the current action.
LEMMA LineFinishedCounts ==
    ASSUME LoopInv, going, LineFinished, UNCHANGED loopVars,
           plan_len' \in Nat, active_plan_len' \in Nat
    PROVE  /\ locked' => plan_len' = 0
           /\ Counted'
<1>1. /\ locked = FALSE /\ active_plan_len > 0 /\ active_plan_len \in Nat
      /\ plan_len \in Nat /\ plan_cur \in Slots /\ plan \in [Slots -> Actions]
      /\ Places
  BY QueueSizeAssumption
     DEF LoopInv, Inv, Ring, RingTypes, Safety, WorkConserving, NoMotionWhileLocked, Slots,
         Counted, Stale
<1>2. CASE Halted(plan)
  BY <1>2 DEF Halted, Halt, Counted
<1>3. ASSUME NEW k \in 1 .. active_plan_len, Moved(plan, plan_cur, active_plan_len, k),
             UNCHANGED <<plan_last, plan_len>>
      PROVE  locked' = FALSE /\ Places'
  <2>1. locked' = FALSE /\ active_plan_len' = active_plan_len - k /\ plan_len' = plan_len
    BY <1>1, <1>3 DEF Moved
  <2>2. Finals(plan') \subseteq Finals(plan) \cup Window(plan_cur, k)
    BY <1>1, <1>3, MovedFinals
  <2>3. Done' \subseteq Done \cup Window(plan_cur, k)
    BY <2>2 DEF Done, loopVars
  <2>4. active_plan_len' + k + plan_len <= active_plan_len + plan_len' /\ k \in Nat
    BY <1>1, <2>1
  <2>5. Places'
    BY <1>1, <2>3, <2>4, PlacesKept
  <2> QED BY <2>1, <2>5
<1> QED BY <1>1, <1>2, <1>3, LineFinishedEffect DEF Counted

-----------------------------------------------------------------------------
(* The steps                                                                *)

\* The watchdog's reset leaves the ring as it was at the start.
LEMMA RebootKeepsInv ==
    ASSUME Inv, Reboot
    PROVE  Inv'
<1>1. 0 \in Slots /\ At(0, 0) = 0 /\ Window(0, 0) = {}
  BY QueueSizeAssumption, AtZero, WindowEmpty DEF Slots
<1>2. plan' \in [Slots -> Actions]
  <2> DEFINE blanks == [i \in Slots |-> Blank]
  <2>1. blanks \in [Slots -> Actions] /\ plan' = Mark(blanks, 0, "finished")
    BY DEF Reboot, Blank, Actions, ActionStates, ActionTypes
  <2> HIDE DEF blanks
  <2> QED BY <1>1, <2>1, MarkType DEF ActionStates
<1>3. /\ plan_first' = 0 /\ plan_cur' = 0 /\ plan_last' = 0 /\ plan_len' = 0
      /\ active_plan_len' = 0 /\ engine' = 0 /\ barrier' = sent /\ sent' = sent
      /\ going' = FALSE /\ locked' = TRUE
  BY DEF Reboot
<1>4. Safety'
  BY <1>1, <1>3
     DEF Safety, RingWindow, WorkConserving, NoMotionWhileLocked,
         EngineMatchesQueue, PendingIsFresh, Pending
<1>5. sent \in Nat
  BY MaxNidAssumption DEF Inv, Rest
<1>6. locked' \in BOOLEAN /\ going' \in BOOLEAN
  BY <1>3
<1>7. Ring'
  BY <1>1, <1>2, <1>3, <1>4, <1>5, <1>6 DEF Ring, RingTypes
<1>8. Rest'
  BY DEF Inv, Rest, Reboot, loopVars
<1> QED BY <1>7, <1>8 DEF Inv

LEMMA LoopStepKeepsInv ==
    ASSUME Inv, [LoopNext]_loop
    PROVE  Inv'
<1>1. CASE Reboot
  BY <1>1, RebootKeepsInv
<1>2. CASE ~Reboot
  <2>1. [Next]_vars
    BY <1>2
       DEF LoopNext, Main, Isr, PreCalculate, ReportStates, HardwareLoop, loop,
           handle_g_command, MotionCommand, LockCommand, SetupCommand,
           OtherCommand, Next
  <2> QED BY <2>1, StepInv
<1> QED BY <1>1, <1>2

\* What the lemmas about the steps need of the invariant.
LEMMA Facts ==
    ASSUME LoopInv
    PROVE  /\ plan \in [Slots -> Actions] /\ plan_cur \in Slots /\ plan_len \in Nat
           /\ plan_first \in Slots /\ plan_last \in Slots
           /\ active_plan_len \in Nat /\ locked \in BOOLEAN /\ going \in BOOLEAN
           /\ scan \in Slots \cup {Nobody}
           /\ clearing \in BOOLEAN /\ (clearing => scan \in Slots)
           /\ Slots \in SUBSET Nat /\ Nobody \notin Slots
           /\ Done \in SUBSET Slots
  BY QueueSizeAssumption
     DEF LoopInv, Inv, Ring, RingTypes, Rest, Slots, Nobody, Done, Finals

\* A step that leaves the counters and the loop's place alone and ends nothing.
LEMMA CountedUndisturbed ==
    ASSUME LoopInv, UNCHANGED <<active_plan_len, plan_len, scan, pc, locked>>,
           Done' \subseteq Done
    PROVE  Counted'
<1>1. CASE Places
  BY <1>1, Facts, PlacesUndisturbed DEF Counted
<1>2. CASE Stale
  BY <1>2, Facts DEF Counted, Stale
<1> QED BY <1>1, <1>2 DEF LoopInv, Counted

LEMMA TickKeepsCount ==
    ASSUME LoopInv, Tick, plan_len' \in Nat, active_plan_len' \in Nat
    PROVE  /\ locked' => plan_len' = 0
           /\ Counted'
<1>1. going /\ UNCHANGED loopVars
  BY DEF Tick, TickFinish, TickTouch
<1>2. LineFinished \/ Halt(Mark(plan, plan_cur, "failed"))
  BY DEF Tick, TickFinish, TickTouch, EndstopsTouched
<1>3. CASE LineFinished
  BY <1>1, <1>3, LineFinishedCounts
<1>4. CASE Halt(Mark(plan, plan_cur, "failed"))
  BY <1>4 DEF Halt, Counted
<1> QED BY <1>2, <1>3, <1>4

LEMMA ReportSlotKeepsCount ==
    ASSUME LoopInv, pc = "report", ReportSlot, plan_len' \in Nat,
           pc' = IF scan' = Nobody THEN "uart" ELSE "report"
    PROVE  /\ locked' => plan_len' = 0
           /\ Counted'
<1>1. /\ scan \in Slots /\ scan \in Nat /\ clearing = FALSE
      /\ locked' = locked /\ active_plan_len' = active_plan_len
      /\ Done = Finals(plan) /\ IsFiniteSet(Done) /\ Cardinality(Done) \in Nat
  BY Facts, SlotsFinite DEF ReportSlot, LoopInv, PopCmd, ringVars, Done
<1>2. CASE plan[scan].state = "none" \/ ~plan[scan].changed
  <2>1. scan' = scan + 1 /\ UNCHANGED <<ringVars, clearing>>
    BY <1>2 DEF ReportSlot
  <2>2. scan \notin Done /\ Done' = Done
    BY <1>1, <1>2, <2>1 DEF Done, Finals, ringVars
  <2>3. locked' => plan_len' = 0
    BY <1>1, <2>1 DEF LoopInv, ringVars
  <2>4. CASE locked
    BY <1>1, <2>3, <2>4 DEF Counted
  <2>5. CASE Places
    <3>1. active_plan_len' = active_plan_len /\ plan_len' = plan_len
      BY <2>1 DEF ringVars
    <3>2. Places'
      BY <2>2, <2>5, <3>1, Facts, PlacesUndisturbed
    <3> QED BY <2>3, <3>2 DEF Counted
  <2>6. CASE Stale /\ ~locked
    <3>1. \A i \in Done' : i >= scan + 1
      <4>1. \A i \in Done : i \in Nat /\ i >= scan /\ i # scan
        BY <2>2, <2>6, Facts DEF Stale
      <4> QED BY <1>1, <2>2, <4>1
    <3>2. CASE scan' = Nobody
      <4>1. Done' = {}
        BY <2>1, <3>1, <3>2, <2>2, Facts, QueueSizeAssumption DEF Nobody, Slots
      <4>2. Cardinality(Done') = 0
        BY <4>1, FS_EmptySet
      <4>3. active_plan_len' + Cardinality(Done') <= plan_len'
        BY <1>1, <2>6, <4>2, QueueSizeAssumption DEF Stale
      <4> QED BY <2>3, <4>3 DEF Counted, Places
    <3>3. CASE scan' # Nobody
      BY <1>1, <2>1, <2>3, <2>6, <3>1, <3>3 DEF Counted, Stale
    <3> QED BY <3>2, <3>3
  <2> QED BY <2>3, <2>4, <2>5, <2>6 DEF LoopInv, Counted
<1>3. CASE ~(plan[scan].state = "none" \/ ~plan[scan].changed)
  <2>1. /\ clearing' = TRUE /\ scan' = scan /\ pc' = pc
        /\ IF plan[scan].state \in {"finished", "failed"}
           THEN PopCmd ELSE UNCHANGED ringVars
    BY <1>1, <1>3, Facts DEF ReportSlot
  <2>2. CASE plan[scan].state \notin {"finished", "failed"} \/ (PopCmd /\ ~(plan_len > 0))
    <3>1. UNCHANGED ringVars
      BY <2>1, <2>2 DEF PopCmd, ringVars
    <3>2. Done' \subseteq Done
      BY <1>1, <2>1, <3>1 DEF Done, ringVars
    <3>3. Counted'
      BY <1>1, <2>1, <3>1, <3>2, CountedUndisturbed DEF ringVars
    <3> QED BY <1>1, <3>1, <3>3 DEF LoopInv, ringVars
  <2>3. CASE plan[scan].state \in {"finished", "failed"} /\ PopCmd /\ plan_len > 0
    <3>1. /\ plan' = [plan EXCEPT ![plan_first] = Blank]
          /\ plan_len' = plan_len - 1 /\ locked = FALSE
      BY <2>3, Facts DEF PopCmd, LoopInv
    <3>2. scan \in Done
      BY <1>1, <1>3, <2>3 DEF Finals
    <3>3. Done' \subseteq Done \ {scan}
      <4>1. Finals(plan') \subseteq Finals(plan)
        BY <3>1, Facts DEF Finals, Blank
      <4> QED BY <1>1, <2>1, <4>1 DEF Done
    <3>4. CASE Places
      <4>1. IsFiniteSet(Done \ {scan}) /\ Cardinality(Done \ {scan}) = Cardinality(Done) - 1
        BY <1>1, <3>2, FS_RemoveElement
      <4>2. Cardinality(Done') <= Cardinality(Done \ {scan}) /\ Cardinality(Done') \in Nat
        BY <3>3, <4>1, FS_Subset, FS_CardinalityType
      <4>3. active_plan_len + Cardinality(Done) <= plan_len
        BY <3>4 DEF Places
      <4>4. active_plan_len' + Cardinality(Done') <= plan_len'
        BY <1>1, <3>1, <4>1, <4>2, <4>3, Facts
      <4> QED BY <1>1, <3>1, <4>4 DEF Counted, Places
    <3>5. CASE Stale
      BY <1>1, <2>1, <3>1, <3>3, <3>5 DEF Counted, Stale
    <3> QED BY <1>1, <3>1, <3>4, <3>5 DEF LoopInv, Counted
  <2> QED BY <2>1, <2>2, <2>3
<1> QED BY <1>2, <1>3

LEMMA ReportClearKeepsCount ==
    ASSUME LoopInv, pc = "report", ReportClear, plan_len' \in Nat,
           pc' = IF scan' = Nobody THEN "uart" ELSE "report"
    PROVE  /\ locked' => plan_len' = 0
           /\ Counted'
<1>1. /\ scan \in Slots /\ scan \in Nat /\ clearing = TRUE /\ clearing' = FALSE
      /\ scan' = scan + 1 /\ plan' = [plan EXCEPT ![scan].changed = FALSE]
      /\ UNCHANGED <<plan_len, active_plan_len, locked>>
  BY Facts, Zenon DEF ReportClear
<1>2. Done' \subseteq Done /\ scan \notin Done
  BY <1>1, Facts DEF Done, Finals, Actions
<1>3. locked' => plan_len' = 0
  BY <1>1 DEF LoopInv
<1>4. CASE locked
  BY <1>1, <1>3, <1>4 DEF Counted
<1>5. CASE Places
  <2>1. Places'
    BY <1>1, <1>2, <1>5, Facts, PlacesUndisturbed
  <2> QED BY <1>3, <2>1 DEF Counted
<1>6. CASE Stale
  <2>1. \A i \in Done' : i >= scan + 1
    <3>1. \A i \in Done : i \in Nat /\ i >= scan /\ i # scan
      BY <1>2, <1>6, Facts DEF Stale
    <3> QED BY <1>1, <1>2, <3>1
  <2>2. CASE scan' = Nobody
    <3>1. Done' = {}
      BY <1>1, <1>2, <2>1, <2>2, Facts, QueueSizeAssumption DEF Nobody, Slots
    <3>2. Cardinality(Done') = 0
      BY <3>1, FS_EmptySet
    <3>3. active_plan_len' + Cardinality(Done') <= plan_len'
      BY <1>1, <1>6, <3>2 DEF Stale
    <3> QED BY <1>3, <3>3 DEF Counted, Places
  <2>3. CASE scan' # Nobody
    BY <1>1, <1>3, <1>6, <2>1, <2>3 DEF Counted, Stale
  <2> QED BY <2>2, <2>3
<1> QED BY <1>4, <1>5, <1>6 DEF LoopInv, Counted

LEMMA PreCalculateKeepsCount ==
    ASSUME LoopInv, PreCalculate
    PROVE  /\ locked' => plan_len' = 0
           /\ Counted'
<1>1. pc = "precalc" /\ scan = Nobody /\ clearing = FALSE
  BY Facts DEF PreCalculate, LoopInv
<1>2. UNCHANGED <<plan_len, active_plan_len, locked, clearing>>
  BY DEF PreCalculate, PreCalcBegin, PreCalcEnd, BeginReport, ringVars
<1>3. Done' \subseteq Done
  <2>1. CASE plan' = plan
    BY <1>1, <1>2, <2>1 DEF Done
  <2>2. CASE calc # Nobody /\ plan' = Mark(plan, calc, "prepared")
    <3>1. calc \in Slots
      BY <2>2 DEF LoopInv, Inv, Rest
    <3>2. Finals(plan') \subseteq Finals(plan)
      BY <2>2, <3>1, Facts, FinalsOfMark DEF ActionStates
    <3> QED BY <1>1, <1>2, <3>2 DEF Done
  <2> QED BY <2>1, <2>2 DEF PreCalculate, PreCalcBegin, PreCalcEnd, BeginReport, ringVars
<1>4. CASE UNCHANGED <<scan, pc>>
  BY <1>2, <1>3, <1>4, CountedUndisturbed DEF LoopInv
<1>5. CASE scan' = 0 /\ pc' = "report"
  <2>1. CASE Places
    <3>1. Places'
      BY <1>2, <1>3, <2>1, Facts, PlacesUndisturbed
    <3> QED BY <1>2, <3>1 DEF LoopInv, Counted
  <2>2. CASE Stale
    <3>1. \A i \in Done' : i >= 0
      BY <1>3, Facts
    <3> QED BY <1>2, <1>5, <2>2, <3>1 DEF LoopInv, Counted, Stale
  <2> QED BY <1>2, <2>1, <2>2 DEF LoopInv, Counted
<1> QED BY <1>4, <1>5 DEF PreCalculate, PreCalcBegin, PreCalcEnd, BeginReport

LEMMA AcceptKeepsCount ==
    ASSUME LoopInv, pc = "uart", NEW type \in {"move", "tool"}, Accept(type),
           plan_len' \in Nat, active_plan_len' \in Nat
    PROVE  /\ locked' => plan_len' = 0
           /\ Counted'
<1> DEFINE command == [nid |-> sent + 1, state |-> "queued", changed |-> FALSE, type |-> type]
           p == [plan EXCEPT ![plan_last] = command]
           last == At(plan_last, 1)
<1>1. locked = FALSE /\ Places /\ UNCHANGED loopVars
  BY DEF LoopInv, Counted, Stale, Accept
<1>2. p \in [Slots -> Actions] /\ Finals(p) \subseteq Finals(plan)
  <2>1. command \in Actions /\ command.changed = FALSE
    BY MaxNidAssumption DEF Actions, ActionStates, ActionTypes, LoopInv, Inv, Rest
  <2> HIDE DEF command
  <2> QED BY <2>1, Facts DEF Finals
<1> HIDE DEF p
<1>3. CASE active_plan_len = 0
  <2>1. GetCmd(p, plan_cur, 1, last, plan_len + 1, going)
    BY <1>3 DEF Accept, p
  <2> HIDE DEF last
  <2>2. CASE Halted(p)
    BY <2>2 DEF Halted, Halt, Counted
  <2>3. ASSUME NEW k \in 0 .. 1, Moved(p, plan_cur, 1, k), plan_len' = plan_len + 1
        PROVE  locked' = FALSE /\ Places'
    <3>1. Finals(plan') \subseteq Finals(p) \cup Window(plan_cur, k)
      BY <1>2, <2>3, MovedFinals
    <3>2. Done' \subseteq Done \cup Window(plan_cur, k)
      BY <1>1, <1>2, <3>1 DEF Done, loopVars
    <3>3. active_plan_len' + k + plan_len <= active_plan_len + plan_len' /\ k \in Nat
      BY <1>3, <2>3, Facts DEF Moved
    <3>4. Places'
      BY <1>1, <3>2, <3>3, Facts, PlacesKept
    <3> QED BY <1>1, <2>3, <3>4 DEF Moved
  <2>4. Halted(p) \/ \E k \in 0 .. 1 : Moved(p, plan_cur, 1, k) /\ plan_len' = plan_len + 1
    <3>1. 1 \in Nat /\ going \in BOOLEAN /\ plan_cur \in Slots
      BY Facts
    <3> QED BY <1>2, <2>1, <3>1, GetCmdEffect
  <2> QED BY <2>2, <2>3, <2>4 DEF Counted
<1>4. CASE active_plan_len # 0
  <2>1. /\ plan' = p /\ plan_len' = plan_len + 1 /\ locked' = locked
        /\ active_plan_len' = active_plan_len + 1
    BY <1>4, Facts DEF Accept, p
  <2>2. Done' \subseteq Done \cup Window(plan_cur, 0)
    BY <1>1, <1>2, <2>1 DEF Done, loopVars
  <2>3. active_plan_len' + 0 + plan_len <= active_plan_len + plan_len'
    BY <2>1, Facts
  <2>4. Places'
    BY <1>1, <2>2, <2>3, Facts, PlacesKept
  <2> QED BY <1>1, <2>1, <2>4 DEF Counted
<1> QED BY <1>3, <1>4

\* Every command but an accepted motion leaves the counters alone or zeroes them.
LEMMA HardwareLoopKeepsCount ==
    ASSUME LoopInv, HardwareLoop, plan_len' \in Nat, active_plan_len' \in Nat
    PROVE  /\ locked' => plan_len' = 0
           /\ Counted'
<1>1. pc = "uart" /\ pc' = "precalc" /\ handle_g_command
  BY DEF HardwareLoop
<1>2. ASSUME NEW type \in {"move", "tool"}, Accept(type)
      PROVE  (locked' => plan_len' = 0) /\ Counted'
  BY <1>1, <1>2, AcceptKeepsCount
<1>3. CASE PlannerLock \/ Reboot
  BY <1>3 DEF PlannerLock, Halt, Reboot, Counted
<1>4. CASE PlannerUnlock
  <2>1. UNCHANGED <<plan, plan_len, active_plan_len, loopVars>> /\ locked' = FALSE
    BY <1>4 DEF PlannerUnlock, ringVars
  <2>2. Done' = Done
    BY <2>1 DEF Done, loopVars
  <2>3. CASE locked
    <3>1. active_plan_len = 0
      BY <2>3 DEF LoopInv, Inv, Ring, RingTypes, Safety, NoMotionWhileLocked
    <3> QED BY <1>1, <2>1, <3>1 DEF Counted, Stale
  <2>4. CASE Places
    BY <2>1, <2>2, <2>4, Facts, PlacesUndisturbed DEF Counted
  <2> QED BY <1>1, <2>3, <2>4 DEF LoopInv, Counted, Stale
<1>5. CASE \/ \E fail \in BOOLEAN : FailOnEndstops(fail)
           \/ Configure
           \/ OtherCommand
  <2>1. UNCHANGED <<plan, plan_len, active_plan_len, loopVars, locked>>
    BY <1>5 DEF FailOnEndstops, Configure, OtherCommand, vars, ringVars
  <2>2. Done' = Done
    BY <2>1 DEF Done, loopVars
  <2>3. CASE Places
    BY <2>1, <2>2, <2>3, Facts, PlacesUndisturbed DEF LoopInv, Counted
  <2> QED BY <1>1, <2>1, <2>3 DEF LoopInv, Counted, Stale
<1> QED BY <1>1, <1>2, <1>3, <1>4, <1>5
        DEF handle_g_command, MotionCommand, LockCommand, SetupCommand

-----------------------------------------------------------------------------
(* The invariant                                                            *)

\* Where the loop is, and that an unlocked planner has its axes configured.
LEMMA ControlKept ==
    ASSUME LoopInv, LoopNext
    PROVE  /\ pc' \in {"precalc", "report", "uart"}
           /\ pc' = "report" <=> scan' # Nobody
           /\ calc' # Nobody => pc' = "precalc"
           /\ ~locked' => configured'
<1>1. /\ pc \in {"precalc", "report", "uart"}
      /\ pc = "report" <=> scan # Nobody
      /\ calc # Nobody => pc = "precalc"
      /\ ~locked => configured
  BY DEF LoopInv
<1>2. CASE Isr
  <2>1. UNCHANGED <<scan, calc, pc, configured>> /\ (locked' = locked \/ locked' = TRUE)
    BY <1>2 DEF Isr, Tick, TickFinish, TickTouch, EndstopsTouched, LineFinished,
                GetCmd, Halt, loopVars, modeVars
  <2> QED BY <1>1, <2>1
<1>3. CASE PreCalculate
  <2>1. 0 # Nobody
    BY QueueSizeAssumption DEF Nobody
  <2> QED BY <1>1, <1>3, <2>1
          DEF PreCalculate, PreCalcBegin, PreCalcEnd, BeginReport, modeVars
<1>4. CASE ReportStates
  BY <1>1, <1>4 DEF ReportStates, ReportSlot, ReportClear, modeVars
<1>5. CASE HardwareLoop
  <2>1. pc = "uart" /\ pc' = "precalc" /\ UNCHANGED <<scan, calc>>
    BY <1>5 DEF HardwareLoop, handle_g_command, MotionCommand, LockCommand,
                SetupCommand, OtherCommand, Reboot, Accept, PlannerLock,
                PlannerUnlock, FailOnEndstops, Configure, loopVars, vars
  <2>2. ~locked' => configured'
    <3>1. ASSUME NEW type \in {"move", "tool"}, Accept(type)
          PROVE  ~locked' => configured'
      BY <1>1, <3>1 DEF Accept, GetCmd, Halt, modeVars
    <3>2. CASE PlannerLock \/ Reboot
      BY <3>2 DEF PlannerLock, Halt, Reboot
    <3>3. CASE SetupCommand \/ OtherCommand
      BY <1>1, <3>3 DEF SetupCommand, OtherCommand, PlannerUnlock, FailOnEndstops,
                        Configure, modeVars, vars
    <3> QED BY <1>5, <3>1, <3>2, <3>3
            DEF HardwareLoop, handle_g_command, MotionCommand, LockCommand
  <2> QED BY <1>1, <2>1, <2>2
<1> QED BY <1>2, <1>3, <1>4, <1>5 DEF LoopNext, Main

LEMMA InitLoopInv == LoopInit => LoopInv
<1> SUFFICES ASSUME LoopInit
             PROVE  LoopInv
  OBVIOUS
<1>1. Inv
  BY InitInv DEF LoopInit
<1> QED BY <1>1, Zenon DEF LoopInit, Init, LoopInv, Counted

LEMMA StepLoopInv == LoopInv /\ [LoopNext]_loop => LoopInv'
<1> SUFFICES ASSUME LoopInv, [LoopNext]_loop
             PROVE  LoopInv'
  OBVIOUS
<1>1. Inv'
  BY LoopStepKeepsInv DEF LoopInv
<1>2. plan_len' \in Nat /\ active_plan_len' \in Nat
  BY <1>1, QueueSizeAssumption DEF Inv, Ring, RingTypes, Slots
<1>3. CASE LoopNext
  <2>1. (locked' => plan_len' = 0) /\ Counted'
    <3>1. CASE Isr
      BY <1>2, <3>1, TickKeepsCount DEF Isr
    <3>2. CASE PreCalculate
      BY <3>2, PreCalculateKeepsCount
    <3>3. CASE ReportStates
      BY <1>2, <3>3, ReportSlotKeepsCount, ReportClearKeepsCount DEF ReportStates
    <3>4. CASE HardwareLoop
      BY <1>2, <3>4, HardwareLoopKeepsCount
    <3> QED BY <1>3, <3>1, <3>2, <3>3, <3>4 DEF LoopNext, Main
  <2>2. /\ pc' \in {"precalc", "report", "uart"}
        /\ pc' = "report" <=> scan' # Nobody
        /\ calc' # Nobody => pc' = "precalc"
        /\ ~locked' => configured'
    BY <1>3, ControlKept
  <2> QED BY <1>1, <2>1, <2>2 DEF LoopInv
<1>4. CASE UNCHANGED loop
  <2>1. UNCHANGED <<plan, plan_len, active_plan_len, locked, configured,
                    scan, clearing, calc, pc>>
    BY <1>4 DEF loop, vars, ringVars, modeVars, loopVars
  <2>2. Done' = Done
    BY <2>1 DEF Done
  <2>3. Counted'
    BY <2>1, <2>2, CountedUndisturbed
  <2> QED BY <1>1, <2>1, <2>3 DEF LoopInv
<1> QED BY <1>3, <1>4

LEMMA LoopInvariance == LoopSpec => []LoopInv
  BY InitLoopInv, StepLoopInv, PTL DEF LoopSpec

-----------------------------------------------------------------------------
(* The refinement                                                           *)

\* The slots to execute are fewer than the ring has.
LEMMA FewerThanRing ==
    ASSUME LoopInv
    PROVE  active_plan_len \in Slots
<1>1. active_plan_len \in Nat /\ plan_len \in 0 .. QUEUE_SIZE - 1
  BY DEF LoopInv, Inv, Ring, RingTypes, Slots
<1>2. CASE active_plan_len = 0
  BY <1>2, QueueSizeAssumption DEF Slots
<1>3. CASE active_plan_len # 0
  <2>1. Places
    BY <1>3, <1>1 DEF LoopInv, Counted, Stale, Inv, Ring, RingTypes, Safety, NoMotionWhileLocked
  <2>2. Cardinality(Done) \in Nat
    BY SlotsFinite, Facts
  <2>3. active_plan_len + Cardinality(Done) <= plan_len
    BY <2>1 DEF Places
  <2>4. active_plan_len <= plan_len
    BY <1>1, <2>2, <2>3
  <2> QED BY <1>1, <2>4, QueueSizeAssumption DEF Slots
<1> QED BY <1>2, <1>3

LEMMA InvQueueTyped == (Inv => QueueTyped) /\ (Inv' => QueueTyped')
  BY DEF Inv, Ring, RingTypes, QueueTyped

\* A command goes to a slot that does not wait.
LEMMA AcceptsIntoFree ==
    ASSUME Inv, active_plan_len \in Slots
    PROVE  plan_last \notin Pending
<1>1. plan_last = At(plan_cur, active_plan_len) /\ plan_cur \in Slots
  BY DEF Inv, Ring, RingTypes, Safety, RingWindow
<1>2. ASSUME NEW j \in 0 .. active_plan_len - 1
      PROVE  At(plan_cur, j) # plan_last
  <2>1. j \in Slots /\ j # active_plan_len
    BY QueueSizeAssumption DEF Slots
  <2> QED BY <1>1, <2>1, AtInjective
<1> QED BY <1>2 DEF Pending, Window

\* An accepted command waits behind the others; into an empty queue it goes to
\* its head, or is over at once.
LEMMA AcceptAppends ==
    ASSUME LoopInv, Inv', pc = "uart", NEW type \in {"move", "tool"}, Accept(type)
    PROVE  Promise!Accept \/ Promise!Serve \/ Promise!Discard
<1> DEFINE command == [nid |-> sent + 1, state |-> "queued", changed |-> FALSE, type |-> type]
           p == [plan EXCEPT ![plan_last] = command]
<1>1. /\ Inv /\ sent \in Nat /\ sent' = sent + 1 /\ locked = FALSE
      /\ active_plan_len \in Nat /\ active_plan_len \in Slots
      /\ plan_cur \in Slots /\ plan_last \in Slots
      /\ plan_last = At(plan_cur, active_plan_len)
      /\ plan \in [Slots -> Actions] /\ going \in BOOLEAN
  <2>1. Inv /\ active_plan_len \in Slots
    BY FewerThanRing DEF LoopInv
  <2>2. sent \in Nat /\ sent' = sent + 1 /\ locked = FALSE
    BY <2>1, MaxNidAssumption DEF Inv, Ring, RingTypes, Rest, Accept
  <2>3. /\ active_plan_len \in Nat /\ plan_cur \in Slots /\ plan_last \in Slots
        /\ plan_last = At(plan_cur, active_plan_len) /\ plan \in [Slots -> Actions]
        /\ going \in BOOLEAN
    BY <2>1 DEF Inv, Ring, RingTypes, Safety, RingWindow
  <2> QED BY <2>1, <2>2, <2>3
<1>2. /\ p \in [Slots -> Actions] /\ p[plan_last].nid = sent + 1
      /\ \A i \in Slots : i # plan_last => p[i] = plan[i]
  <2>1. command \in Actions /\ command.nid = sent + 1
    BY <1>1 DEF Actions, ActionStates, ActionTypes
  <2> HIDE DEF command
  <2> QED BY <1>1, <2>1
<1>3. CASE active_plan_len = 0
  <2>1. GetCmd(p, plan_cur, 1, At(plan_last, 1), plan_len + 1, going)
    BY <1>3 DEF Accept
  <2> HIDE DEF p
  <2>2. p[plan_cur].nid = sent + 1
    BY <1>1, <1>2, <1>3, AtZero
  <2>3. Halted(p) \/ \E k \in 0 .. 1 : Moved(p, plan_cur, 1, k)
    <3>1. 1 \in Nat
      OBVIOUS
    <3> QED BY <1>1, <1>2, <2>1, <3>1, GetCmdEffect
  <2> QED BY <1>1, <1>2, <1>3, <2>2, <2>3, HaltDiscards, MovedIntoEmpty, InvQueueTyped
<1>4. CASE active_plan_len # 0
  <2>1. /\ plan' = p /\ plan_cur' = plan_cur /\ locked' = FALSE
        /\ active_plan_len' = active_plan_len + 1
    BY <1>1, <1>4 DEF Accept
  <2> HIDE DEF p
  <2>2. \A i \in Pending : plan'[i].nid = plan[i].nid
    BY <1>1, <1>2, <2>1, AcceptsIntoFree, WindowType DEF Pending
  <2> QED BY <1>1, <1>2, <2>1, <2>2, QueueAppends, InvQueueTyped
<1> QED BY <1>3, <1>4

\* A step of the firmware is a step of the queue.
LEMMA StepRefines ==
    ASSUME LoopInv, Inv', [LoopNext]_loop
    PROVE  [Promise!Next]_(Promise!qvars)
<1>0. /\ Inv /\ sent \in Nat /\ plan \in [Slots -> Actions]
      /\ QueueTyped /\ QueueTyped'
  BY MaxNidAssumption, InvQueueTyped DEF LoopInv, Inv, Ring, RingTypes, Rest
<1>1. CASE Isr
  <2>1. going /\ sent' = sent /\ (LineFinished \/ Halt(Mark(plan, plan_cur, "failed")))
    BY <1>1 DEF Isr, Tick, TickFinish, TickTouch, EndstopsTouched
  <2>2. CASE Halt(Mark(plan, plan_cur, "failed"))
    <3>1. Halted(plan)
      BY <1>0, <2>2, MarkType DEF Halted, QueueTyped, ActionStates
    <3> QED BY <2>1, <3>1, HaltDiscards DEF Promise!Next
  <2>3. CASE LineFinished
    <3>1. ~locked /\ active_plan_len > 0
      BY <1>0, <2>1 DEF Inv, Ring, RingTypes, Safety, WorkConserving, NoMotionWhileLocked
    <3> QED BY <1>0, <2>1, <2>3, <3>1, LineFinishedEffect, HaltDiscards, MovedAdvances
            DEF Promise!Next, QueueTyped
  <2> QED BY <2>1, <2>2, <2>3
<1>2. CASE PreCalculate
  <2>1. UNCHANGED <<plan_cur, active_plan_len, locked, sent>>
    BY <1>2 DEF PreCalculate, PreCalcBegin, PreCalcEnd, BeginReport, ringVars
  <2>2. \A i \in Slots : plan'[i].nid = plan[i].nid
    <3>1. CASE plan' = plan
      BY <3>1
    <3>2. CASE calc # Nobody /\ plan' = Mark(plan, calc, "prepared")
      <4>1. calc \in Slots
        BY <3>2 DEF LoopInv, Inv, Rest
      <4> QED BY <1>0, <3>2, <4>1, MarkType DEF ActionStates
    <3> QED BY <1>2, <3>1, <3>2
            DEF PreCalculate, PreCalcBegin, PreCalcEnd, BeginReport, ringVars
  <2> QED BY <1>0, <2>1, <2>2, Stutter
<1>3. CASE ReportStates
  <2>1. pc = "report" /\ UNCHANGED <<locked, sent>>
    BY <1>3 DEF ReportStates, ReportSlot, ReportClear
  <2>2. CASE PopCmd
    <3>1. active_plan_len <= QUEUE_SIZE /\ plan_first \in Slots
      BY <2>1, FewerThanRing, QueueSizeAssumption DEF LoopInv, Inv, Ring, RingTypes, Slots
    <3> QED BY <1>0, <2>1, <2>2, <3>1, PopCmdVoids DEF Promise!Next
  <2>3. CASE UNCHANGED ringVars
    <3>1. UNCHANGED <<plan, plan_cur, active_plan_len>>
      BY <2>3 DEF ringVars
    <3> QED BY <1>0, <2>1, <3>1, Stutter
  <2>4. CASE ReportClear
    <3>1. scan \in Slots /\ UNCHANGED <<plan_cur, active_plan_len>>
      BY <2>4, Facts DEF ReportClear
    <3>2. \A i \in Slots : plan'[i].nid = plan[i].nid
      BY <1>0, <2>4, <3>1 DEF ReportClear, Actions
    <3> QED BY <1>0, <2>1, <3>1, <3>2, Stutter
  <2> QED BY <1>3, <2>2, <2>3, <2>4 DEF ReportStates, ReportSlot
<1>4. CASE HardwareLoop
  <2>1. pc = "uart" /\ handle_g_command
    BY <1>4 DEF HardwareLoop
  <2>2. ASSUME NEW type \in {"move", "tool"}, Accept(type)
        PROVE  Promise!Accept \/ Promise!Serve \/ Promise!Discard
    BY <2>1, <2>2, AcceptAppends
  <2>3. CASE PlannerLock
    <3>1. Halt(Mark(plan, 0, "finished")) /\ sent' = sent /\ 0 \in Slots
      BY <2>3, QueueSizeAssumption DEF PlannerLock, Slots
    <3>2. Halted(plan)
      BY <1>0, <3>1, MarkType DEF Halted, ActionStates
    <3> QED BY <3>1, <3>2, HaltDiscards DEF Promise!Next
  <2>4. CASE Reboot
    <3>1. active_plan_len' = 0 /\ locked' = TRUE /\ sent' = sent
      BY <2>4 DEF Reboot
    <3>2. Queue' = <<>>
      BY <1>0, <3>1, QueueGone
    <3> QED BY <3>1, <3>2 DEF Promise!Next, Promise!Discard
  <2>5. CASE SetupCommand \/ OtherCommand
    <3>1. UNCHANGED <<plan, plan_cur, active_plan_len, sent>>
      BY <2>5 DEF SetupCommand, OtherCommand, PlannerUnlock, FailOnEndstops,
                  Configure, ringVars, vars
    <3>2. Queue' = Queue
      BY <1>0, <3>1, QueueSame
    <3>3. locked' = locked \/ locked' = FALSE
      BY <2>5 DEF SetupCommand, OtherCommand, PlannerUnlock, FailOnEndstops,
                  Configure, vars
    <3> QED BY <3>1, <3>2, <3>3 DEF Promise!Next, Promise!Unlock, Promise!qvars
  <2> QED BY <2>1, <2>2, <2>3, <2>4, <2>5
          DEF handle_g_command, MotionCommand, LockCommand, Promise!Next
<1>5. CASE UNCHANGED loop
  <2>1. UNCHANGED <<plan, plan_cur, active_plan_len, locked, sent>>
    BY <1>5 DEF loop, vars, ringVars
  <2> QED BY <1>0, <2>1, Stutter
<1> QED BY <1>1, <1>2, <1>3, <1>4, <1>5 DEF LoopNext, Main

LEMMA InitRefines == LoopInit => Promise!Init
<1> SUFFICES ASSUME LoopInit
             PROVE  Promise!Init
  OBVIOUS
<1>1. Inv /\ active_plan_len = 0 /\ sent = 0 /\ locked = TRUE
  BY InitInv DEF LoopInit, Init
<1>2. Queue = <<>>
  BY <1>1, QueueShape, EmptySeq, InvQueueTyped
<1> QED BY <1>1, <1>2 DEF Promise!Init

-----------------------------------------------------------------------------
(* What becomes of a command                                                *)

\* No command is in two slots, and only accepted ones are in any or told of.
Names ==
    /\ Numbered(plan, sent)
    /\ told \in SUBSET (0 .. sent)

\* An end left in the slot for the next command is gone before one comes: it
\* dates from a lock, or from before the report went over it.
LastClear ==
    Final(plan_last) =>
        \/ locked
        \/ pc = "precalc"
        \/ pc = "report" /\ plan_last >= scan

FateInv == LoopInv /\ Names /\ Unreported(plan, Pending) /\ LastClear

LEMMA InitFate == LoopInit => FateInv
<1> SUFFICES ASSUME LoopInit
             PROVE  FateInv
  OBVIOUS
<1>1. LoopInv
  BY InitLoopInv
<1>2. sent = 0 /\ told = {} /\ locked = TRUE /\ active_plan_len = 0 /\ plan_cur = 0
  BY DEF LoopInit, Init
<1>3. \A i \in Slots : plan[i].nid = 0
  <2> DEFINE blanks == [i \in Slots |-> Blank]
  <2>1. plan = Mark(blanks, 0, "finished")
    BY DEF LoopInit, Init
  <2>2. blanks \in [Slots -> Actions] /\ \A i \in Slots : blanks[i].nid = 0
    BY DEF Blank, Actions, ActionStates, ActionTypes
  <2>3. 0 \in Slots /\ "finished" \in ActionStates
    BY QueueSizeAssumption DEF Slots, ActionStates
  <2> HIDE DEF blanks
  <2> QED BY <2>1, <2>2, <2>3, MarkType
<1>4. Names
  BY <1>2, <1>3 DEF Names, Numbered
<1>5. Pending = {}
  BY <1>2 DEF Pending, Window
<1> QED BY <1>1, <1>2, <1>4, <1>5 DEF FateInv, Unreported, LastClear

\* What a lock, by the host or an endstop, leaves.
LEMMA HaltFate ==
    ASSUME Names, plan \in [Slots -> Actions], sent \in Nat, UNCHANGED <<sent, told>>,
           Halted(plan)
    PROVE  Names' /\ Unreported(plan, Pending)' /\ LastClear'
<1>1. PICK q \in [Slots -> Actions] : (\A i \in Slots : q[i].nid = plan[i].nid) /\ Halt(q)
  BY DEF Halted
<1>2. plan' = q /\ active_plan_len' = 0 /\ locked' = TRUE
  BY <1>1 DEF Halt
<1>3. Numbered(q, sent)
  BY <1>1, NumberedKept DEF Names
<1>4. Pending' = {}
  BY <1>2 DEF Pending, Window
<1> QED BY <1>2, <1>3, <1>4 DEF Names, Unreported, LastClear

LEMMA TickFate ==
    ASSUME FateInv, Isr
    PROVE  Names' /\ Unreported(plan, Pending)' /\ LastClear'
<1>1. /\ plan \in [Slots -> Actions] /\ plan_cur \in Slots /\ active_plan_len \in Slots
      /\ active_plan_len \in Nat /\ plan_last = At(plan_cur, active_plan_len)
      /\ plan_last \in Slots /\ sent \in Nat /\ LoopInv
  BY FewerThanRing, MaxNidAssumption
     DEF FateInv, LoopInv, Inv, Ring, RingTypes, Rest, Safety, RingWindow
<1>2. /\ going /\ ~locked /\ active_plan_len > 0
      /\ UNCHANGED <<loopVars, sent, told, pc>>
      /\ LineFinished \/ Halt(Mark(plan, plan_cur, "failed"))
  BY DEF Isr, Tick, TickFinish, TickTouch, EndstopsTouched, FateInv, LoopInv, Inv, Ring, RingTypes,
         Safety, WorkConserving, NoMotionWhileLocked
<1>3. CASE Halted(plan)
  BY <1>1, <1>2, <1>3, HaltFate DEF FateInv
<1>4. CASE Halt(Mark(plan, plan_cur, "failed"))
  <2>1. Halted(plan)
    BY <1>1, <1>4, MarkType DEF Halted, ActionStates
  <2> QED BY <1>3, <2>1
<1>5. ASSUME NEW k \in 1 .. active_plan_len, Moved(plan, plan_cur, active_plan_len, k),
             UNCHANGED <<plan_last, plan_len>>
      PROVE  Names' /\ Unreported(plan, Pending)' /\ LastClear'
  <2>1. /\ plan' \in [Slots -> Actions] /\ locked' = locked
        /\ \A i \in Slots : plan'[i].nid = plan[i].nid
    BY <1>5 DEF Moved
  <2>2. Numbered(plan', sent)
    BY <1>1, <2>1, NumberedKept DEF FateInv, Names
  <2>3. Names'
    BY <1>2, <2>2 DEF FateInv, Names
  <2>4. Unreported(plan, Pending)'
    <3>1. active_plan_len \in 0 .. QUEUE_SIZE /\ k \in 0 .. active_plan_len /\ told' = told
      BY <1>1, <1>2, QueueSizeAssumption DEF Slots
    <3>2. Unreported(plan, Window(plan_cur, active_plan_len))
      BY DEF FateInv, Pending
    <3> QED BY <1>1, <1>5, <3>1, <3>2, MovedUnreported
  <2>5. LastClear'
    <3>1. plan_last \notin Window(plan_cur, k)
      <4>1. ASSUME NEW j \in 0 .. k - 1
            PROVE  At(plan_cur, j) # plan_last
        <5>1. j \in Slots /\ j # active_plan_len
          BY <1>1, QueueSizeAssumption DEF Slots
        <5> QED BY <1>1, <5>1, AtInjective
      <4> QED BY <4>1 DEF Window
    <3>2. plan'[plan_last] = plan[plan_last] \/ plan'[plan_last].state = "started"
      BY <1>1, <1>5, <3>1 DEF Moved
    <3>3. Final(plan_last)' => Final(plan_last)
      BY <1>5, <3>2 DEF Final
    <3> QED BY <1>2, <1>5, <2>1, <3>3 DEF FateInv, LastClear, loopVars
  <2> QED BY <2>3, <2>4, <2>5
<1> QED BY <1>1, <1>2, <1>3, <1>4, <1>5, LineFinishedEffect

\* Steps that leave the ring alone, but for states that end nothing.
LEMMA RelabelFate ==
    ASSUME FateInv, plan' \in [Slots -> Actions],
           UNCHANGED <<plan_cur, plan_last, active_plan_len, sent, told>>,
           \A i \in Slots :
              /\ plan'[i].nid = plan[i].nid
              /\ plan'[i].state \in {plan[i].state, "prepared"}
    PROVE  Names' /\ Unreported(plan, Pending)'
<1>1. plan \in [Slots -> Actions] /\ sent \in Nat /\ Pending \subseteq Slots
  BY WindowType, MaxNidAssumption DEF FateInv, LoopInv, Inv, Ring, RingTypes, Rest, Pending
<1>2. Numbered(plan', sent)
  BY <1>1, NumberedKept DEF FateInv, Names
<1>3. Pending' = Pending
  BY DEF Pending
<1> QED BY <1>1, <1>2, <1>3 DEF FateInv, Names, Unreported

LEMMA PreCalculateFate ==
    ASSUME FateInv, PreCalculate
    PROVE  Names' /\ Unreported(plan, Pending)' /\ LastClear'
<1>1. plan \in [Slots -> Actions] /\ calc \in Slots \cup {Nobody} /\ plan_last \in Slots
  BY DEF FateInv, LoopInv, Inv, Ring, RingTypes, Rest
<1>2. UNCHANGED <<plan_cur, plan_last, active_plan_len, sent, told>>
  BY DEF PreCalculate, PreCalcBegin, PreCalcEnd, BeginReport, ringVars
<1>3. CASE PreCalcEnd
  <2>1. calc \in Slots /\ plan' = Mark(plan, calc, "prepared") /\ pc' = "precalc"
    BY <1>1, <1>3 DEF PreCalculate, PreCalcEnd
  <2>2. "prepared" \in ActionStates
    BY DEF ActionStates
  <2>3. /\ plan' \in [Slots -> Actions]
        /\ \A i \in Slots : /\ plan'[i].nid = plan[i].nid
                            /\ plan'[i].state \in {plan[i].state, "prepared"}
    <3>1. /\ plan' \in [Slots -> Actions] /\ plan'[calc].state = "prepared"
          /\ \A i \in Slots : plan'[i].nid = plan[i].nid /\ (i # calc => plan'[i] = plan[i])
      BY <1>1, <2>1, <2>2, MarkType
    <3> QED BY <3>1
  <2> QED BY <1>2, <2>1, <2>3, RelabelFate DEF LastClear
<1>4. CASE ~PreCalcEnd
  <2>1. plan' = plan /\ (pc' = "precalc" \/ (pc' = "report" /\ scan' = 0))
    BY <1>4 DEF PreCalculate, PreCalcBegin, BeginReport, ringVars
  <2>2. LastClear'
    <3>1. plan_last >= 0 /\ plan_last' = plan_last
      BY <1>1, <1>2, QueueSizeAssumption DEF Slots
    <3> QED BY <2>1, <3>1 DEF LastClear
  <2> QED BY <1>1, <1>2, <2>1, <2>2, RelabelFate
<1> QED BY <1>3, <1>4

\* The report has come to the next slot, and this one's end is reported.
LEMMA ScanPasses ==
    ASSUME FateInv, pc = "report", scan \in Slots, scan' = scan + 1,
           UNCHANGED <<plan_last, locked>>,
           Final(plan_last)' => Final(plan_last) /\ plan_last # scan,
           pc' = IF scan' = Nobody THEN "uart" ELSE "report"
    PROVE  LastClear'
<1>1. plan_last \in Slots
  BY DEF FateInv, LoopInv, Inv, Ring, RingTypes
<1> QED BY <1>1, QueueSizeAssumption DEF FateInv, LastClear, Slots, Nobody

LEMMA ReportFate ==
    ASSUME FateInv, ReportStates
    PROVE  Names' /\ Unreported(plan, Pending)' /\ LastClear'
<1>1. /\ plan \in [Slots -> Actions] /\ plan_first \in Slots /\ plan_last \in Slots
      /\ plan_cur \in Slots /\ active_plan_len \in Nat
      /\ scan \in Slots /\ sent \in Nat /\ pc = "report" /\ LoopInv
      /\ Pending \in SUBSET Slots
  BY Facts, WindowType, MaxNidAssumption
     DEF FateInv, LoopInv, ReportStates, Inv, Rest, Ring, RingTypes, Pending
<1>2. pc' = IF scan' = Nobody THEN "uart" ELSE "report"
  BY DEF ReportStates
<1>3. CASE ReportClear
  <2>1. /\ plan' = [plan EXCEPT ![scan].changed = FALSE] /\ scan' = scan + 1
        /\ UNCHANGED <<plan_cur, plan_last, active_plan_len, sent, told, locked>>
    BY <1>3 DEF ReportClear
  <2>2. /\ plan' \in [Slots -> Actions]
        /\ \A i \in Slots : /\ plan'[i].nid = plan[i].nid
                            /\ plan'[i].state = plan[i].state
                            /\ i # scan => plan'[i] = plan[i]
        /\ plan'[scan].changed = FALSE
    BY <1>1, <2>1 DEF Actions
  <2>3. Final(plan_last)' => Final(plan_last) /\ plan_last # scan
    BY <1>1, <2>1, <2>2 DEF Final
  <2>4. LastClear'
    BY <1>1, <1>2, <2>1, <2>3, ScanPasses
  <2> QED BY <2>1, <2>2, <2>4, RelabelFate
<1>4. CASE ReportSlot /\ (plan[scan].state = "none" \/ ~plan[scan].changed)
  <2>1. scan' = scan + 1 /\ UNCHANGED <<ringVars, told, sent, locked>>
    BY <1>4 DEF ReportSlot
  <2>2. Final(plan_last)' => Final(plan_last) /\ plan_last # scan
    BY <1>4, <2>1 DEF Final, ringVars
  <2>3. LastClear'
    BY <1>1, <1>2, <2>1, <2>2, ScanPasses DEF ringVars
  <2> QED BY <1>1, <2>1, <2>3, RelabelFate DEF ringVars
<1>5. CASE ReportSlot /\ ~(plan[scan].state = "none" \/ ~plan[scan].changed)
  <2>1. /\ scan' = scan /\ UNCHANGED <<sent, locked, plan_cur, plan_last, active_plan_len>>
        /\ IF plan[scan].state \in {"finished", "failed"}
           THEN PopCmd /\ told' = told \cup {plan[scan].nid}
           ELSE UNCHANGED <<ringVars, told>>
    BY <1>5 DEF ReportSlot, ringVars, PopCmd
  <2>2. plan' = plan \/ plan' = [plan EXCEPT ![plan_first] = Blank]
    BY <2>1 DEF PopCmd, ringVars
  <2>3. Final(plan_last)' => Final(plan_last)
    BY <1>1, <2>1, <2>2 DEF Final, Blank
  <2>4. scan # Nobody
    BY <1>1, QueueSizeAssumption DEF Slots, Nobody
  <2>5. LastClear'
    BY <1>1, <1>2, <2>1, <2>3, <2>4 DEF FateInv, LastClear
  <2>6. CASE plan[scan].state \in {"finished", "failed"}
    <3>1. plan' \in [Slots -> Actions] /\ \A i \in Slots : plan'[i].nid = plan[i].nid \/ plan'[i].nid = 0
      <4>1. Blank \in Actions /\ Blank.nid = 0
        BY DEF Blank, Actions, ActionStates, ActionTypes
      <4> QED BY <1>1, <2>2, <4>1
    <3>2. Numbered(plan', sent)
      BY <1>1, <3>1, NumberedKept DEF FateInv, Names
    <3>3. plan[scan].nid \in 0 .. sent
      BY <1>1 DEF FateInv, Names, Numbered, Actions
    <3>4. Names'
      BY <2>1, <2>6, <3>2, <3>3 DEF FateInv, Names
    <3>5. Pending' = Pending
      BY <2>1 DEF Pending
    <3>6. \A i \in Pending : /\ plan'[i].state \notin {"finished", "failed"}
                             /\ plan'[i].nid \notin told' \ {0}
      BY <1>1, <2>1, <2>6, PopUnreported DEF FateInv, Names
    <3>7. Unreported(plan, Pending)'
      BY <3>5, <3>6 DEF Unreported
    <3> QED BY <2>5, <3>4, <3>7
  <2>7. CASE plan[scan].state \notin {"finished", "failed"}
    BY <1>1, <2>1, <2>5, <2>7, RelabelFate DEF ringVars
  <2> QED BY <2>6, <2>7
<1> QED BY <1>3, <1>4, <1>5 DEF ReportStates

LEMMA AcceptFate ==
    ASSUME FateInv, pc = "uart", NEW type \in {"move", "tool"}, Accept(type)
    PROVE  Names' /\ Unreported(plan, Pending)'
<1> DEFINE command == [nid |-> sent + 1, state |-> "queued", changed |-> FALSE, type |-> type]
           p == [plan EXCEPT ![plan_last] = command]
<1>1. /\ plan \in [Slots -> Actions] /\ plan_cur \in Slots /\ plan_last \in Slots
      /\ active_plan_len \in Slots /\ active_plan_len \in Nat
      /\ plan_last = At(plan_cur, active_plan_len)
      /\ sent \in Nat /\ sent' = sent + 1 /\ told' = told
      /\ Pending \subseteq Slots
  BY FewerThanRing, MaxNidAssumption, WindowType
     DEF FateInv, LoopInv, Inv, Ring, RingTypes, Rest, Safety, RingWindow, Accept, Pending
<1>2. /\ p \in [Slots -> Actions] /\ p[plan_last].nid = sent + 1
      /\ p[plan_last].state = "queued"
      /\ \A i \in Slots : i # plan_last => p[i] = plan[i]
  <2>1. command \in Actions /\ command.nid = sent + 1 /\ command.state = "queued"
    BY <1>1 DEF Actions, ActionStates, ActionTypes
  <2> HIDE DEF command
  <2> QED BY <1>1, <2>1
<1> HIDE DEF p
<1>3. Numbered(p, sent + 1)
  BY <1>1, <1>2, NumberedNext DEF FateInv, Names
<1>4. told' \in SUBSET (0 .. sent') /\ sent + 1 \notin told
  BY <1>1 DEF FateInv, Names
<1>5. Unreported(p, Pending \cup {plan_last})
  <2>1. plan_last \notin Pending
    BY <1>1, AcceptsIntoFree DEF FateInv, LoopInv
  <2>2. p[plan_last].state \notin {"finished", "failed"} /\ p[plan_last].nid \notin told \ {0}
    BY <1>2, <1>4
  <2> QED BY <1>1, <1>2, <2>1, <2>2 DEF FateInv, Unreported
<1>6. Pending \cup {plan_last} = Window(plan_cur, active_plan_len + 1)
  BY <1>1, WindowExtend DEF Pending
<1>7. CASE active_plan_len = 0
  <2>1. GetCmd(p, plan_cur, 1, At(plan_last, 1), plan_len + 1, going)
    BY <1>7 DEF Accept, p
  <2>2. CASE Halted(p)
    <3>1. PICK q \in [Slots -> Actions] : (\A i \in Slots : q[i].nid = p[i].nid) /\ Halt(q)
      BY <2>2 DEF Halted
    <3>2. plan' = q /\ active_plan_len' = 0
      BY <3>1 DEF Halt
    <3>3. Numbered(q, sent + 1)
      BY <1>1, <1>2, <1>3, <3>1, NumberedKept
    <3>4. Pending' = {}
      BY <3>2 DEF Pending, Window
    <3> QED BY <1>1, <1>4, <3>2, <3>3, <3>4 DEF Names, Unreported
  <2>3. ASSUME NEW k \in 0 .. 1, Moved(p, plan_cur, 1, k)
        PROVE  Names' /\ Unreported(plan, Pending)'
    <3>1. plan' \in [Slots -> Actions] /\ \A i \in Slots : plan'[i].nid = p[i].nid
      BY <2>3 DEF Moved
    <3>2. Numbered(plan', sent + 1)
      BY <1>1, <1>2, <1>3, <3>1, NumberedKept
    <3>3. 1 \in 0 .. QUEUE_SIZE /\ Unreported(p, Window(plan_cur, 1))
      BY <1>5, <1>6, <1>7, QueueSizeAssumption
    <3>4. Unreported(plan, Pending)'
      BY <1>1, <1>2, <2>3, <3>3, MovedUnreported
    <3> QED BY <1>1, <1>4, <3>2, <3>4 DEF Names
  <2>4. Halted(p) \/ \E k \in 0 .. 1 : Moved(p, plan_cur, 1, k)
    <3>1. 1 \in Nat /\ going \in BOOLEAN
      BY DEF FateInv, LoopInv, Inv, Ring, RingTypes
    <3> QED BY <1>1, <1>2, <2>1, <3>1, GetCmdEffect
  <2> QED BY <2>2, <2>3, <2>4
<1>8. CASE active_plan_len # 0
  <2>1. /\ plan' = p /\ plan_cur' = plan_cur /\ active_plan_len' = active_plan_len + 1
    BY <1>1, <1>8 DEF Accept, p
  <2>2. Pending' = Pending \cup {plan_last}
    BY <1>6, <2>1 DEF Pending
  <2> QED BY <1>1, <1>3, <1>4, <1>5, <2>1, <2>2 DEF Names, Unreported
<1> QED BY <1>7, <1>8

LEMMA HardwareLoopFate ==
    ASSUME FateInv, HardwareLoop
    PROVE  Names' /\ Unreported(plan, Pending)' /\ LastClear'
<1>1. pc = "uart" /\ handle_g_command /\ LastClear'
  BY DEF HardwareLoop, LastClear
<1>2. plan \in [Slots -> Actions] /\ sent \in Nat /\ 0 \in Slots
  BY MaxNidAssumption, QueueSizeAssumption DEF FateInv, LoopInv, Inv, Ring, RingTypes, Rest, Slots
<1>3. ASSUME NEW type \in {"move", "tool"}, Accept(type)
      PROVE  Names' /\ Unreported(plan, Pending)'
  BY <1>1, <1>3, AcceptFate
<1>4. CASE PlannerLock
  <2>1. Halt(Mark(plan, 0, "finished")) /\ UNCHANGED <<sent, told>>
    BY <1>4 DEF PlannerLock
  <2>2. Halted(plan)
    BY <1>2, <2>1, MarkType DEF Halted, ActionStates
  <2> QED BY <1>2, <2>1, <2>2, HaltFate DEF FateInv
<1>5. CASE Reboot
  <2> DEFINE blanks == [i \in Slots |-> Blank]
  <2>1. /\ plan' = Mark(blanks, 0, "finished") /\ active_plan_len' = 0
        /\ UNCHANGED <<sent, told>>
    BY <1>5 DEF Reboot
  <2>2. blanks \in [Slots -> Actions] /\ \A i \in Slots : blanks[i].nid = 0
    BY DEF Blank, Actions, ActionStates, ActionTypes
  <2> HIDE DEF blanks
  <2>3. \A i \in Slots : plan'[i].nid = 0
    BY <1>2, <2>1, <2>2, MarkType DEF ActionStates
  <2>4. Pending' = {}
    BY <2>1 DEF Pending, Window
  <2> QED BY <1>1, <1>2, <2>1, <2>3, <2>4 DEF FateInv, Names, Numbered, Unreported
<1>6. CASE SetupCommand \/ OtherCommand
  <2>1. UNCHANGED <<plan, plan_cur, plan_last, active_plan_len, sent, told>>
    BY <1>6 DEF SetupCommand, OtherCommand, PlannerUnlock, FailOnEndstops,
                Configure, ringVars, vars
  <2> QED BY <1>1, <1>2, <2>1, RelabelFate
<1> QED BY <1>1, <1>3, <1>4, <1>5, <1>6
        DEF handle_g_command, MotionCommand, LockCommand

LEMMA StepFate == FateInv /\ [LoopNext]_loop => FateInv'
<1> SUFFICES ASSUME FateInv, [LoopNext]_loop
             PROVE  FateInv'
  OBVIOUS
<1>1. LoopInv'
  BY StepLoopInv DEF FateInv
<1>2. Names' /\ Unreported(plan, Pending)' /\ LastClear'
  <2>1. CASE UNCHANGED loop
    BY <2>1 DEF loop, vars, ringVars, loopVars, FateInv, Names, Numbered, Unreported,
                Pending, LastClear, Final
  <2> QED BY <2>1, TickFate, PreCalculateFate, ReportFate, HardwareLoopFate DEF LoopNext, Main
<1> QED BY <1>1, <1>2 DEF FateInv

LEMMA FateInvariance == LoopSpec => []FateInv
  BY InitFate, StepFate, PTL DEF LoopSpec

-----------------------------------------------------------------------------
(* With the indices in step                                                 *)

\* While plan_first and plan_last are plan_len apart, a step frees no slot that
\* waits or runs.
LEMMA FreedOutOfStep ==
    ASSUME FateInv, LoopNext, NEW i \in Pending,
           plan[i].type # "none", plan'[i] = Blank, ~locked'
    PROVE  ~InStep
<1> SUFFICES ASSUME InStep PROVE FALSE
  OBVIOUS
<1>1. /\ LoopInv /\ plan \in [Slots -> Actions] /\ plan_cur \in Slots /\ plan_first \in Slots
      /\ plan_last \in Slots /\ plan_last = At(plan_cur, active_plan_len)
      /\ active_plan_len \in Slots /\ active_plan_len \in Nat /\ plan_len \in Slots
      /\ i \in Slots
  BY FewerThanRing, WindowType DEF FateInv, LoopInv, Inv, Ring, RingTypes, Safety, RingWindow, Pending
<1>2. active_plan_len > 0
  BY <1>1 DEF Pending, Window
<1>3. plan'[i].type # plan[i].type /\ ~Halted(plan)
  BY DEF Blank, Halted, Halt
<1>4. PICK j \in 0 .. active_plan_len - 1 : i = At(plan_cur, j)
  BY DEF Pending, Window
<1>5. CASE PopCmd /\ ReportStates /\ plan[scan].state \in {"finished", "failed"}
           /\ plan[scan].changed /\ ~clearing
  <2>1. plan_first = i /\ locked' = locked /\ scan \in Slots
    BY <1>1, <1>3, <1>5, Facts DEF PopCmd, ReportStates, ReportSlot, ReportClear, LoopInv
  <2>2. scan \in Done /\ Done \in SUBSET Slots
    BY <1>5, <2>1 DEF Done, Finals
  <2>3. IsFiniteSet(Done) /\ Cardinality(Done) \in Nat /\ Cardinality(Done) # 0
    BY <2>2, SlotsFinite, FS_EmptySet
  <2>4. active_plan_len + Cardinality(Done) <= plan_len
    BY <1>1, <1>2, <2>1 DEF LoopInv, Counted, Stale, Places
  <2> DEFINE d == j + plan_len - active_plan_len
             c == At(plan_cur, active_plan_len)
  <2>5. d \in Slots /\ d # 0 /\ j + plan_len = active_plan_len + d
        /\ j \in Int /\ plan_len \in Int /\ d \in Int /\ plan_cur \in Int /\ 0 \in Slots
    BY <1>1, <1>2, <2>3, <2>4, QueueSizeAssumption DEF Slots
  <2>6. plan_last = At(plan_first, plan_len)
    BY DEF InStep
  <2> HIDE DEF d
  <2>7. c = At(c, d)
    <3>1. At(At(plan_cur, j), plan_len) = At(plan_cur, j + plan_len)
      BY <2>5, AtAt
    <3>2. At(c, d) = At(plan_cur, active_plan_len + d)
      BY <1>1, <2>5, AtAt
    <3> QED BY <1>1, <1>4, <2>1, <2>5, <2>6, <3>1, <3>2
  <2>8. c \in Slots /\ At(c, 0) = c
    BY <1>1, AtZero
  <2> HIDE DEF c
  <2> QED BY <2>5, <2>7, <2>8, AtInjective
<1>6. CASE Isr
  <2>1. LineFinished \/ Halt(Mark(plan, plan_cur, "failed"))
    BY <1>6 DEF Isr, Tick, TickFinish, TickTouch, EndstopsTouched
  <2>2. ~locked
    BY <1>2 DEF FateInv, LoopInv, Inv, Ring, RingTypes, Safety, NoMotionWhileLocked
  <2>3. ~Halt(Mark(plan, plan_cur, "failed"))
    BY DEF Halt
  <2> QED BY <1>1, <1>2, <1>3, <2>1, <2>2, <2>3, LineFinishedEffect DEF Moved
<1>7. CASE PreCalculate
  <2>1. plan' = plan \/ (calc \in Slots /\ plan' = Mark(plan, calc, "prepared"))
    BY <1>1, <1>7 DEF PreCalculate, PreCalcBegin, PreCalcEnd, BeginReport, ringVars,
                      LoopInv, Inv, Rest
  <2>2. "prepared" \in ActionStates
    BY DEF ActionStates
  <2>3. plan'[i].type = plan[i].type
    <3>1. CASE calc \in Slots /\ plan' = Mark(plan, calc, "prepared")
      BY <1>1, <2>2, <3>1, MarkType
    <3> QED BY <2>1, <3>1
  <2> QED BY <1>3, <2>3
<1>8. CASE ReportStates
  <2>1. CASE ReportClear
    BY <1>1, <1>3, <2>1, Facts DEF ReportClear, Actions
  <2>2. CASE UNCHANGED ringVars
    BY <1>3, <2>2 DEF ringVars
  <2> QED BY <1>5, <1>8, <2>1, <2>2 DEF ReportStates, ReportSlot
<1>9. CASE HardwareLoop
  <2>1. ASSUME NEW type \in {"move", "tool"}, Accept(type)
        PROVE  FALSE
    <3>1. i # plan_last
      BY <1>1, AcceptsIntoFree DEF LoopInv
    <3>2. plan'[i] = plan[i]
      BY <1>1, <1>2, <2>1, <3>1 DEF Accept
    <3> QED BY <1>3, <3>2
  <2>2. CASE PlannerLock \/ Reboot
    BY <2>2 DEF PlannerLock, Halt, Reboot
  <2>3. CASE SetupCommand \/ OtherCommand
    BY <1>3, <2>3 DEF SetupCommand, OtherCommand, PlannerUnlock, FailOnEndstops,
                      Configure, ringVars, vars
  <2> QED BY <1>9, <2>1, <2>2, <2>3
          DEF HardwareLoop, handle_g_command, MotionCommand, LockCommand
<1> QED BY <1>6, <1>7, <1>8, <1>9 DEF LoopNext, Main

\* Freeing a slot and using one keep the indices in step.
LEMMA StepInStep ==
    ASSUME LoopInv, LoopNext, InStep, ~locked'
    PROVE  InStep'
<1>1. /\ plan_first \in Slots /\ plan_first \in Int /\ plan_len \in Nat /\ plan_len \in Int
      /\ plan \in [Slots -> Actions] /\ plan_cur \in Slots /\ active_plan_len \in Nat
      /\ plan_last = At(plan_first, plan_len)
      /\ sent \in Nat
  BY Facts, QueueSizeAssumption, MaxNidAssumption DEF InStep, Slots, LoopInv, Inv, Rest
<1>2. CASE UNCHANGED <<plan_first, plan_last, plan_len>>
  BY <1>2 DEF InStep, At
<1>3. CASE Isr
  <2>1. CASE Halt(Mark(plan, plan_cur, "failed"))
    BY <2>1 DEF Halt
  <2>2. CASE LineFinished
    <3>1. ~locked /\ active_plan_len > 0
      BY <1>3 DEF Isr, Tick, TickFinish, TickTouch, LoopInv, Inv, Ring, RingTypes, Safety,
                  NoMotionWhileLocked, WorkConserving
    <3>2. ~Halted(plan)
      BY DEF Halted, Halt
    <3> QED BY <1>1, <1>2, <2>2, <3>1, <3>2, LineFinishedEffect DEF Moved
  <2> QED BY <1>3, <2>1, <2>2 DEF Isr, Tick, TickFinish, TickTouch, EndstopsTouched
<1>4. CASE PreCalculate
  BY <1>2, <1>4 DEF PreCalculate, PreCalcBegin, PreCalcEnd, BeginReport, ringVars
<1>5. CASE ReportStates
  <2>1. CASE PopCmd /\ plan_len > 0
    <3>1. /\ plan_first' = At(plan_first, 1) /\ plan_last' = plan_last
          /\ plan_len' = plan_len - 1
      BY <2>1 DEF PopCmd
    <3>2. At(At(plan_first, 1), plan_len - 1) = At(plan_first, plan_len)
      <4> DEFINE m == plan_len - 1
      <4>1. m \in Int /\ 1 \in Int /\ 1 + m = plan_len
        BY <1>1
      <4> HIDE DEF m
      <4>2. At(At(plan_first, 1), m) = At(plan_first, 1 + m)
        BY <1>1, <4>1, AtAt
      <4> QED BY <4>1, <4>2 DEF m
    <3> QED BY <1>1, <3>1, <3>2 DEF InStep, At
  <2>2. CASE UNCHANGED <<plan_first, plan_len>> /\ plan_last' = plan_last
    BY <1>2, <2>2
  <2> QED BY <1>5, <2>1, <2>2 DEF ReportStates, ReportSlot, ReportClear, PopCmd, ringVars
<1>6. CASE HardwareLoop
  <2>1. ASSUME NEW type \in {"move", "tool"}, Accept(type)
        PROVE  InStep'
    <3>1. /\ plan_first' = plan_first /\ plan_last' = At(plan_last, 1)
          /\ plan_len' = plan_len + 1
      <4> DEFINE command == [nid |-> sent + 1, state |-> "queued", changed |-> FALSE, type |-> type]
                 p == [plan EXCEPT ![plan_last] = command]
                 last == At(plan_last, 1)
      <4>1. CASE active_plan_len + 1 = 1
        <5>1. GetCmd(p, plan_cur, 1, last, plan_len + 1, going)
          BY <2>1, <4>1 DEF Accept
        <5> HIDE DEF p, last
        <5>2. plan_first' = plan_first /\ plan_last' = last /\ plan_len' = plan_len + 1
          BY <5>1 DEF GetCmd, Halt
        <5> QED BY <5>2 DEF last
      <4>2. CASE active_plan_len + 1 # 1
        BY <2>1, <4>2 DEF Accept
      <4> QED BY <4>1, <4>2
    <3>2. At(At(plan_first, plan_len), 1) = At(plan_first, plan_len + 1)
      <4>1. 1 \in Int
        OBVIOUS
      <4> QED BY <1>1, <4>1, AtAt
    <3> QED BY <1>1, <3>1, <3>2 DEF InStep, At
  <2>2. CASE PlannerLock \/ Reboot
    BY <2>2 DEF PlannerLock, Halt, Reboot
  <2>3. CASE SetupCommand \/ OtherCommand
    BY <1>2, <2>3 DEF SetupCommand, OtherCommand, PlannerUnlock, FailOnEndstops,
                      Configure, ringVars, vars
  <2> QED BY <1>6, <2>1, <2>2, <2>3
          DEF HardwareLoop, handle_g_command, MotionCommand, LockCommand
<1> QED BY <1>3, <1>4, <1>5, <1>6 DEF LoopNext, Main

\* The slot that the engine steps is a move, which has a check to make.
RunsMove == going => plan[engine].type = "move"

\* get_cmd starts moves alone.
LEMMA StartsMove ==
    ASSUME NEW p \in [Slots -> Actions], NEW c \in Slots, NEW n \in Nat,
           NEW last, NEW len,
           GetCmd(p, c, n, last, len, FALSE)
    PROVE  RunsMove'
<1> DEFINE over(k) == [i \in Slots |->
                          IF i \in Window(c, k)
                          THEN [p[i] EXCEPT !.state = "finished", !.changed = TRUE]
                          ELSE p[i]]
<1>1. CASE going' = FALSE
  BY <1>1 DEF RunsMove
<1>2. ASSUME NEW k \in 0 .. n, p[At(c, k)].type = "move",
             plan' = Mark(over(k), At(c, k), "started"), engine' = At(c, k)
      PROVE  RunsMove'
  <2>1. At(c, k) \in Slots
    <3>1. c \in Int /\ k \in Int
      BY QueueSizeAssumption DEF Slots
    <3> QED BY <3>1, AtType
  <2>2. \A i \in Slots : over(k)[i] \in Actions /\ over(k)[i].type = p[i].type
    BY DEF Actions, ActionStates
  <2>3. over(k) \in [Slots -> Actions] /\ over(k)[At(c, k)].type = "move"
    BY <1>2, <2>1, <2>2
  <2>4. "started" \in ActionStates
    BY DEF ActionStates
  <2> HIDE DEF over
  <2>5. plan'[At(c, k)].type = "move"
    BY <1>2, <2>1, <2>3, <2>4, MarkType
  <2> QED BY <1>2, <2>5 DEF RunsMove
<1>3. \/ going' = FALSE
      \/ \E k \in 0 .. n : /\ p[At(c, k)].type = "move"
                           /\ plan' = Mark(over(k), At(c, k), "started")
                           /\ engine' = At(c, k)
  BY DEF GetCmd, Halt
<1> HIDE DEF over
<1> QED BY <1>1, <1>2, <1>3

LEMMA StepRunsMove ==
    ASSUME FateInv, InStep, RunsMove, [LoopNext]_loop
    PROVE  RunsMove'
<1>1. /\ LoopInv /\ plan \in [Slots -> Actions] /\ plan_cur \in Slots /\ plan_last \in Slots
      /\ active_plan_len \in Nat /\ sent \in Nat /\ MaxNid \in Nat
      /\ plan_first \in Slots /\ engine \in Slots /\ going \in BOOLEAN
      /\ going <=> active_plan_len > 0
      /\ locked => ~going
  BY Facts, MaxNidAssumption DEF FateInv, LoopInv, Inv, Ring, RingTypes, Rest, Safety,
                                 WorkConserving, NoMotionWhileLocked
<1>2. CASE going' = FALSE
  BY <1>2 DEF RunsMove
<1>3. ASSUME going' = going, engine' = engine, plan'[engine].type = plan[engine].type
      PROVE  RunsMove'
  BY <1>3 DEF RunsMove
<1>4. CASE Isr
  <2>1. going /\ (LineFinished \/ Halt(Mark(plan, plan_cur, "failed")))
    BY <1>4 DEF Isr, Tick, TickFinish, TickTouch, EndstopsTouched
  <2>2. CASE Halt(Mark(plan, plan_cur, "failed"))
    BY <1>2, <2>2 DEF Halt
  <2>3. CASE LineFinished
    <3> DEFINE p == Mark(plan, plan_cur, "finished")
               c == At(plan_cur, 1)
               n == active_plan_len - 1
    <3>1. GetCmd(p, c, n, plan_last, plan_len, FALSE)
      BY <1>1, <2>1, <2>3 DEF LineFinished
    <3>2. n \in Nat /\ active_plan_len > 0
      BY <1>1, <2>1
    <3>3. c \in Slots
      <4>1. plan_cur \in Int /\ 1 \in Int
        BY <1>1, QueueSizeAssumption DEF Slots
      <4> QED BY <4>1, AtType
    <3>4. "finished" \in ActionStates
      BY DEF ActionStates
    <3>5. p \in [Slots -> Actions]
      BY <1>1, <3>4, MarkType
    <3> HIDE DEF p, c, n
    <3> QED BY <3>1, <3>2, <3>3, <3>5, StartsMove
  <2> QED BY <2>1, <2>2, <2>3
<1>5. CASE PreCalculate
  <2>1. plan' = plan \/ (calc \in Slots /\ plan' = Mark(plan, calc, "prepared"))
    BY <1>1, <1>5 DEF PreCalculate, PreCalcBegin, PreCalcEnd, BeginReport, ringVars,
                      LoopInv, Inv, Rest
  <2>2. going' = going /\ engine' = engine
    BY <1>5 DEF PreCalculate, PreCalcBegin, PreCalcEnd, BeginReport, engineVars
  <2>3. "prepared" \in ActionStates
    BY DEF ActionStates
  <2>4. plan'[engine].type = plan[engine].type
    <3>1. CASE calc \in Slots /\ plan' = Mark(plan, calc, "prepared")
      BY <1>1, <2>3, <3>1, MarkType
    <3> QED BY <2>1, <3>1
  <2> QED BY <1>3, <2>2, <2>4
<1>6. CASE ReportStates
  <2>1. going' = going /\ engine' = engine /\ locked' = locked
    BY <1>6 DEF ReportStates, ReportSlot, ReportClear, engineVars
  <2>2. CASE ~going
    BY <1>1, <1>2, <2>1, <2>2
  <2>3. CASE going
    <3>1. plan[engine].type = "move" /\ ~locked'
      BY <1>1, <2>1, <2>3 DEF RunsMove
    <3>2. engine \in Pending
      <4>1. engine = plan_cur /\ active_plan_len > 0
        BY <1>1, <2>3 DEF LoopInv, Inv, Ring, Safety, EngineMatchesQueue
      <4>2. 0 \in 0 .. active_plan_len - 1 /\ At(plan_cur, 0) = plan_cur
        BY <1>1, <4>1, AtZero
      <4> QED BY <4>1, <4>2 DEF Pending, Window
    <3>3. plan'[engine] # Blank
      BY <1>6, <3>1, <3>2, FreedOutOfStep DEF LoopNext, Main
    <3>4. plan'[engine].type = plan[engine].type \/ plan'[engine] = Blank
      <4>1. CASE ReportClear
        BY <1>1, <4>1, Facts DEF ReportClear, Actions
      <4>2. CASE UNCHANGED ringVars
        BY <4>2 DEF ringVars
      <4>3. CASE PopCmd
        BY <1>1, <4>3 DEF PopCmd
      <4> QED BY <1>6, <4>1, <4>2, <4>3 DEF ReportStates, ReportSlot
    <3> QED BY <1>3, <2>1, <3>3, <3>4
  <2> QED BY <1>1, <2>2, <2>3
<1>7. CASE HardwareLoop
  <2>1. ASSUME NEW type \in {"move", "tool"}, Accept(type)
        PROVE  RunsMove'
    <3> DEFINE command == [nid |-> sent + 1, state |-> "queued", changed |-> FALSE, type |-> type]
               p == [plan EXCEPT ![plan_last] = command]
               last == At(plan_last, 1)
    <3>1. CASE active_plan_len = 0
      <4>1. GetCmd(p, plan_cur, 1, last, plan_len + 1, FALSE)
        <5>1. going = FALSE /\ active_plan_len + 1 = 1
          BY <1>1, <3>1
        <5>2. GetCmd(p, plan_cur, 1, last, plan_len + 1, going)
          BY <2>1, <5>1 DEF Accept
        <5> HIDE DEF p, last
        <5> QED BY <5>1, <5>2
      <4>2. p \in [Slots -> Actions]
        <5>1. sent + 1 \in Nat
          BY <1>1
        <5>2. command \in Actions
          BY <2>1, <5>1 DEF Actions, ActionStates, ActionTypes
        <5> HIDE DEF command
        <5> QED BY <1>1, <5>2
      <4> HIDE DEF p, last
      <4> QED BY <1>1, <4>1, <4>2, StartsMove
    <3>2. CASE active_plan_len # 0
      <4>1. plan_last \notin Pending /\ engine \in Pending
        <5>2. engine = plan_cur /\ active_plan_len > 0
          BY <1>1, <3>2 DEF LoopInv, Inv, Ring, Safety, EngineMatchesQueue
        <5>3. 0 \in 0 .. active_plan_len - 1 /\ At(plan_cur, 0) = plan_cur
          BY <1>1, <5>2, AtZero
        <5>4. engine \in Pending
          BY <5>2, <5>3 DEF Pending, Window
        <5>5. Inv
          BY <1>1 DEF LoopInv
        <5>6. active_plan_len \in Slots
          BY <1>1, FewerThanRing
        <5>7. plan_last \notin Pending
          BY <5>5, <5>6, AcceptsIntoFree
        <5> QED BY <5>4, <5>7
      <4>2. plan'[engine] = plan[engine] /\ going' = going /\ engine' = engine
        BY <1>1, <2>1, <3>2, <4>1 DEF Accept, engineVars
      <4> QED BY <1>3, <4>2
    <3> QED BY <3>1, <3>2
  <2>2. CASE PlannerLock \/ Reboot
    BY <1>2, <2>2 DEF PlannerLock, Halt, Reboot
  <2>3. CASE SetupCommand \/ OtherCommand
    <3>1. plan' = plan /\ going' = going /\ engine' = engine
      BY <2>3 DEF SetupCommand, OtherCommand, PlannerUnlock, FailOnEndstops,
                  Configure, ringVars, engineVars, vars
    <3> QED BY <1>3, <3>1
  <2> QED BY <1>7, <2>1, <2>2, <2>3
          DEF HardwareLoop, handle_g_command, MotionCommand, LockCommand
<1>8. CASE UNCHANGED loop
  BY <1>3, <1>8 DEF loop, vars, ringVars, engineVars
<1> QED BY <1>4, <1>5, <1>6, <1>7, <1>8 DEF LoopNext, Main

-----------------------------------------------------------------------------
(* Theorems                                                                 *)

\* The ring's indices stay in the ring and the loop in one of its three parts.
THEOREM LoopTypeCorrect == LoopSpec => []LoopTypeOK
<1>1. LoopInv => LoopTypeOK
  BY InvIsTypeOKAndSafety DEF LoopInv, LoopTypeOK
<1> QED BY <1>1, LoopInvariance, PTL

\* When a command is handled, empty_slots takes no place for free that holds a
\* command or an end still to be reported.
THEOREM PlacesAreCounted == LoopSpec => []PlacesCounted
<1>1. LoopInv => PlacesCounted
  <2> SUFFICES ASSUME LoopInv, pc = "uart", ~locked
               PROVE  active_plan_len + Cardinality({i \in Slots : Final(i)}) <= plan_len
    BY DEF PlacesCounted
  <2>1. Done = {i \in Slots : Final(i)}
    BY Facts DEF LoopInv, Done, Finals, Final
  <2> QED BY <2>1 DEF LoopInv, Counted, Stale, Places
<1> QED BY <1>1, LoopInvariance, PTL

\* The step timer never runs before the axes are configured (M100).
THEOREM ConfiguredFirst == LoopSpec => []NoMotionUnconfigured
<1>1. LoopInv => NoMotionUnconfigured
  BY DEF LoopInv, Inv, Ring, RingTypes, Safety, NoMotionWhileLocked, NoMotionUnconfigured
<1> QED BY <1>1, LoopInvariance, PTL

\* What the planner promises for calls in any order it keeps in the firmware,
\* which adds the watchdog's reset.
THEOREM LoopSafe == LoopSpec => []Safety
<1>1. LoopInv => Safety
  BY DEF LoopInv, Inv, Ring, RingTypes
<1> QED BY <1>1, LoopInvariance, PTL

\* No command is said to be completed or failed while it waits or runs.
THEOREM NoneReportedEarly == LoopSpec => []NoPrematureReport
<1>1. FateInv => NoPrematureReport
  BY DEF FateInv, Unreported, NoPrematureReport
<1> QED BY <1>1, FateInvariance, PTL

\* planner_line_to and its sisters never write to a slot in use.
THEOREM NoneOverwritten == LoopSpec => NoOverwrite
<1>1. FateInv /\ [LoopNext]_loop
        => [sent' # sent => plan_last \notin Pending /\ ~Final(plan_last)]_loop
  <2> SUFFICES ASSUME FateInv, [LoopNext]_loop, sent' # sent
               PROVE  plan_last \notin Pending /\ ~Final(plan_last)
    OBVIOUS
  <2>1. /\ pc = "uart" /\ ~locked
    BY DEF loop, vars, LoopNext, Main, Isr, Tick, TickFinish, TickTouch, PreCalculate,
           PreCalcBegin, PreCalcEnd, BeginReport, ReportStates, ReportSlot, ReportClear,
           HardwareLoop, handle_g_command, MotionCommand, Accept, LockCommand,
           SetupCommand, OtherCommand, Reboot, PlannerLock, PlannerUnlock,
           FailOnEndstops, Configure
  <2>2. plan_last \notin Pending
    BY FewerThanRing, AcceptsIntoFree DEF FateInv, LoopInv
  <2> QED BY <2>1, <2>2 DEF FateInv, LastClear
<1> QED BY <1>1, FateInvariance, PTL DEF LoopSpec, NoOverwrite

\* While plan_first and plan_last are plan_len apart, pop_cmd frees no slot that
\* waits or runs.
THEOREM FreesNoneInUse == LoopSpec => BlankedOnlyOutOfStep
<1> DEFINE Blanked == \A i \in Pending :
                        plan[i].type # "none" /\ plan'[i] = Blank /\ ~locked' => ~InStep
<1>1. FateInv /\ [LoopNext]_loop => [Blanked]_loop
  BY FreedOutOfStep
<1> QED BY <1>1, FateInvariance, PTL DEF LoopSpec, BlankedOnlyOutOfStep

\* plan_first and plan_last stay plan_len apart, whatever is accepted, executed,
\* reported and freed: only a lock, which forgets plan_first, parts them.
THEOREM OnlyLocksPart == LoopSpec => [][InStep /\ ~locked' => InStep']_loop
<1>1. LoopInv /\ [LoopNext]_loop => [InStep /\ ~locked' => InStep']_loop
  BY StepInStep
<1> QED BY <1>1, LoopInvariance, PTL DEF LoopSpec

\* As long as plan_first and plan_last stay plan_len apart, which a lock with
\* plan_first at slot 0 keeps, the step interrupt has an endstop check to make:
\* the index that _planner_lock forgets is all that disarms a running move.
THEOREM ArmedInStep == LoopSpec /\ []InStep => []EndstopArmed
<1>1. LoopInit => RunsMove
  BY DEF LoopInit, Init, RunsMove
<1>2. FateInv /\ InStep /\ RunsMove /\ [LoopNext]_loop => RunsMove'
  BY StepRunsMove
<1>3. RunsMove => EndstopArmed
  BY DEF RunsMove, EndstopArmed
<1> QED BY <1>1, <1>2, <1>3, FateInvariance, PTL DEF LoopSpec

\* Every interrupt that ends a move takes at least one command off those to
\* execute, and nothing but accepting one adds to them, one at a time: with the
\* order of QueueInOrder, what waits comes nearer to its turn with each move.
THEOREM TicksDrain ==
    LoopSpec => [][/\ Isr => active_plan_len' < active_plan_len
                   /\ active_plan_len' > active_plan_len =>
                         /\ active_plan_len' = active_plan_len + 1
                         /\ pc = "uart" /\ sent' = sent + 1]_loop
<1> DEFINE Drains ==
             /\ Isr => active_plan_len' < active_plan_len
             /\ active_plan_len' > active_plan_len =>
                   /\ active_plan_len' = active_plan_len + 1
                   /\ pc = "uart" /\ sent' = sent + 1
<1>1. LoopInv /\ [LoopNext]_loop => [Drains]_loop
  <2> SUFFICES ASSUME LoopInv, LoopNext PROVE Drains
    OBVIOUS
  <2>1. /\ plan \in [Slots -> Actions] /\ plan_cur \in Slots /\ active_plan_len \in Nat
        /\ going => active_plan_len > 0 /\ ~locked
    BY Facts DEF LoopInv, Inv, Ring, RingTypes, Safety, WorkConserving, NoMotionWhileLocked
  <2>2. CASE Isr
    <3>1. active_plan_len > 0 /\ ~locked
      BY <2>1, <2>2 DEF Isr, Tick, TickFinish, TickTouch
    <3>2. ASSUME NEW k \in 1 .. active_plan_len, active_plan_len' = active_plan_len - k
          PROVE  active_plan_len' \in Nat /\ active_plan_len' < active_plan_len
      BY <2>1, <3>2
    <3>3. ASSUME Halt(Mark(plan, plan_cur, "failed")) \/ Halted(plan)
          PROVE  active_plan_len' \in Nat /\ active_plan_len' < active_plan_len
      <4>1. active_plan_len' = 0
        BY <3>3 DEF Halted, Halt
      <4> QED BY <2>1, <3>1, <4>1
    <3>4. ASSUME LineFinished
          PROVE  active_plan_len' \in Nat /\ active_plan_len' < active_plan_len
      <4>1. Halted(plan) \/ \E k \in 1 .. active_plan_len : active_plan_len' = active_plan_len - k
        BY <2>1, <3>1, <3>4, LineFinishedEffect DEF Moved
      <4> QED BY <3>2, <3>3, <4>1
    <3>5. active_plan_len' \in Nat /\ active_plan_len' < active_plan_len
      BY <2>2, <3>3, <3>4 DEF Isr, Tick, TickFinish, TickTouch, EndstopsTouched
    <3> QED BY <2>1, <3>5
  <2>3. CASE UNCHANGED active_plan_len /\ ~Isr
    BY <2>1, <2>3
  <2>4. CASE Main /\ ~Isr
    <3>1. ASSUME pc = "uart", NEW type \in {"move", "tool"}, Accept(type)
          PROVE  Drains
      <4>1. sent' = sent + 1
        BY <3>1 DEF Accept
      <4>2. active_plan_len' = active_plan_len + 1 \/ ~(active_plan_len' > active_plan_len)
        <5> DEFINE command == [nid |-> sent + 1, state |-> "queued", changed |-> FALSE, type |-> type]
                   p == [plan EXCEPT ![plan_last] = command]
                   last == At(plan_last, 1)
        <5>1. CASE active_plan_len + 1 = 1
          <6>1. GetCmd(p, plan_cur, 1, last, plan_len + 1, going)
            BY <3>1, <5>1 DEF Accept
          <6> HIDE DEF p, last
          <6>2. \E k \in 0 .. 1 : active_plan_len' = 1 - k \/ active_plan_len' = 0
            BY <6>1 DEF GetCmd, Halt
          <6> QED BY <2>1, <5>1, <6>2
        <5>2. CASE active_plan_len + 1 # 1
          BY <3>1, <5>2 DEF Accept
        <5> QED BY <5>1, <5>2
      <4> QED BY <2>4, <3>1, <4>1, <4>2
    <3>2. CASE PlannerLock \/ Reboot
      <4>1. active_plan_len' = 0
        BY <3>2 DEF PlannerLock, Halt, Reboot
      <4> QED BY <2>1, <2>4, <4>1
    <3>3. CASE SetupCommand \/ OtherCommand
      BY <2>3, <2>4, <3>3 DEF SetupCommand, OtherCommand, PlannerUnlock, FailOnEndstops,
                              Configure, ringVars, vars
    <3>4. CASE PreCalculate \/ ReportStates
      BY <2>3, <2>4, <3>4 DEF PreCalculate, PreCalcBegin, PreCalcEnd, BeginReport, ReportStates,
                              ReportSlot, ReportClear, PopCmd, ringVars
    <3>5. HardwareLoop => pc = "uart"
      BY DEF HardwareLoop
    <3> QED BY <2>4, <3>1, <3>2, <3>3, <3>4, <3>5
            DEF Main, HardwareLoop, handle_g_command, MotionCommand, LockCommand
  <2> QED BY <2>2, <2>4 DEF LoopNext
<1> QED BY <1>1, LoopInvariance, PTL DEF LoopSpec

\* planner.c in the firmware's loop implements the queue of MotionQueue:
\* commands are executed in the order of their acceptance, at most once, and
\* never after a lock.
THEOREM RingImplementsQueue == LoopSpec => ImplementsQueue
<1>1. LoopInv' => Inv'
  BY DEF LoopInv
<1>2. LoopInv /\ LoopInv' /\ [LoopNext]_loop => [Promise!Next]_(Promise!qvars)
  BY <1>1, StepRefines
<1> QED BY <1>2, InitRefines, LoopInvariance, PTL DEF LoopSpec, ImplementsQueue, Promise!Spec

-----------------------------------------------------------------------------
(* What the queue's promise means                                           *)

\* The numbers in q rise, and n is the newest.
Ordered(q, n) ==
    /\ \A i \in 1 .. Len(q) : q[i] <= n
    /\ \A i, j \in 1 .. Len(q) : i < j /\ q[j] # 0 => q[i] < q[j]

\* The steps of the abstract queue, from q and n to q1 and n1.
QueueStep(q, n, q1, n1) ==
    \/ n1 = n + 1 /\ q1 = Append(q, n + 1)
    \/ n1 \in {n, n + 1} /\ q1 = <<>>
    \/ n1 = n /\ \E k \in 1 .. Len(q) : q1 = SubSeq(q, k + 1, Len(q))
    \/ n1 = n /\ \E k \in 1 .. Len(q) : q1 = [q EXCEPT ![k] = 0]
    \/ n1 = n /\ q1 = q

\* Every one keeps the order, and brings nothing back that has left.
LEMMA OrderKept ==
    ASSUME NEW q \in Seq(Nat), NEW n \in Nat, Ordered(q, n), NEW q1, NEW n1,
           QueueStep(q, n, q1, n1)
    PROVE  /\ q1 \in Seq(Nat) /\ n1 \in Nat /\ Ordered(q1, n1)
           /\ \A nid \in 1 .. n :
                  (\E i \in 1 .. Len(q1) : q1[i] = nid) => \E i \in 1 .. Len(q) : q[i] = nid
<1>0. /\ Len(q) \in Nat /\ \A i \in 1 .. Len(q) : q[i] \in Nat /\ q[i] <= n
      /\ \A i, j \in 1 .. Len(q) : i < j /\ q[j] # 0 => q[i] < q[j]
  BY DEF Ordered
<1>1. CASE n1 = n + 1 /\ q1 = Append(q, n + 1)
  <2>1. /\ q1 \in Seq(Nat) /\ Len(q1) = Len(q) + 1 /\ q1[Len(q) + 1] = n + 1
        /\ \A i \in 1 .. Len(q) : q1[i] = q[i]
    BY <1>0, <1>1
  <2>2. \A i \in 1 .. Len(q1) : i \in 1 .. Len(q) \/ i = Len(q) + 1
    BY <1>0, <2>1
  <2>3. \A i \in 1 .. Len(q1) : q1[i] <= n1
    BY <1>0, <1>1, <2>1, <2>2
  <2>4. \A i, j \in 1 .. Len(q1) : i < j /\ q1[j] # 0 => q1[i] < q1[j]
    BY <1>0, <1>1, <2>1, <2>2
  <2>5. \A nid \in 1 .. n :
            (\E i \in 1 .. Len(q1) : q1[i] = nid) => \E i \in 1 .. Len(q) : q[i] = nid
    <3> TAKE nid \in 1 .. n
    <3> HAVE \E i \in 1 .. Len(q1) : q1[i] = nid
    <3>1. PICK i \in 1 .. Len(q1) : q1[i] = nid
      OBVIOUS
    <3>2. i \in 1 .. Len(q)
      BY <2>1, <2>2, <3>1
    <3> QED BY <2>1, <3>1, <3>2
  <2> QED BY <1>1, <2>1, <2>3, <2>4, <2>5 DEF Ordered
<1>2. CASE n1 \in {n, n + 1} /\ q1 = <<>>
  BY <1>2 DEF Ordered
<1>3. CASE n1 = n /\ \E k \in 1 .. Len(q) : q1 = SubSeq(q, k + 1, Len(q))
  <2>1. PICK k \in 1 .. Len(q) : q1 = SubSeq(q, k + 1, Len(q))
    BY <1>3
  <2>2. /\ q1 \in Seq(Nat) /\ Len(q1) = Len(q) - k
        /\ \A i \in 1 .. Len(q1) : i + k \in 1 .. Len(q) /\ q1[i] = q[i + k]
    BY <1>0, <2>1
  <2>3. \A i \in 1 .. Len(q1) : q1[i] <= n1
    BY <1>0, <1>3, <2>2
  <2>4. ASSUME NEW i \in 1 .. Len(q1), NEW j \in 1 .. Len(q1), i < j, q1[j] # 0
        PROVE  q1[i] < q1[j]
    <3>1. i + k < j + k /\ i + k \in 1 .. Len(q) /\ j + k \in 1 .. Len(q)
      BY <2>2, <2>4
    <3> QED BY <1>0, <2>2, <2>4, <3>1
  <2>5. \A nid \in 1 .. n :
            (\E i \in 1 .. Len(q1) : q1[i] = nid) => \E i \in 1 .. Len(q) : q[i] = nid
    <3> TAKE nid \in 1 .. n
    <3> HAVE \E i \in 1 .. Len(q1) : q1[i] = nid
    <3>1. PICK i \in 1 .. Len(q1) : q1[i] = nid
      OBVIOUS
    <3>2. i + k \in 1 .. Len(q) /\ q[i + k] = nid
      BY <2>2, <3>1
    <3> QED BY <3>2
  <2> QED BY <1>3, <2>2, <2>3, <2>4, <2>5 DEF Ordered
<1>4. CASE n1 = n /\ \E k \in 1 .. Len(q) : q1 = [q EXCEPT ![k] = 0]
  <2>1. PICK k \in 1 .. Len(q) : q1 = [q EXCEPT ![k] = 0]
    BY <1>4
  <2>2. /\ q1 \in Seq(Nat) /\ Len(q1) = Len(q) /\ q1[k] = 0
        /\ \A i \in 1 .. Len(q) : i # k => q1[i] = q[i]
    BY <1>0, <2>1
  <2>3. \A i \in 1 .. Len(q1) : q1[i] <= n1
    BY <1>0, <1>4, <2>2
  <2>4. ASSUME NEW i \in 1 .. Len(q1), NEW j \in 1 .. Len(q1), i < j, q1[j] # 0
        PROVE  q1[i] < q1[j]
    <3>1. j # k /\ q1[j] = q[j] /\ q[i] < q[j]
      BY <1>0, <2>2, <2>4
    <3>2. CASE i = k
      BY <1>0, <2>2, <3>1, <3>2
    <3>3. CASE i # k
      BY <2>2, <3>1, <3>3
    <3> QED BY <3>2, <3>3
  <2>5. \A nid \in 1 .. n :
            (\E i \in 1 .. Len(q1) : q1[i] = nid) => \E i \in 1 .. Len(q) : q[i] = nid
    BY <2>2
  <2> QED BY <1>4, <2>2, <2>3, <2>4, <2>5 DEF Ordered
<1>5. CASE n1 = n /\ q1 = q
  BY <1>5
<1> QED BY <1>1, <1>2, <1>3, <1>4, <1>5 DEF QueueStep

\* The ring's steps are such steps.
LEMMA StepShape == [Promise!Next]_(Promise!qvars) => QueueStep(Queue, sent, Queue', sent')
BY DEF Promise!Next, Promise!qvars, Promise!Accept, Promise!Serve, Promise!Advance,
       Promise!Discard, Promise!Unlock, Promise!Void, QueueStep

InOrderInv == LoopInv /\ Queue \in Seq(Nat) /\ sent \in Nat /\ Ordered(Queue, sent)

LEMMA InOrderInvariance == LoopSpec => []InOrderInv
<1>1. LoopInit => InOrderInv
  <2> SUFFICES ASSUME LoopInit PROVE InOrderInv
    OBVIOUS
  <2>1. Queue = <<>> /\ sent = 0
    BY InitRefines DEF Promise!Init
  <2> QED BY <2>1, InitLoopInv DEF InOrderInv, Ordered
<1>2. InOrderInv /\ [LoopNext]_loop => InOrderInv'
  <2> SUFFICES ASSUME InOrderInv, [LoopNext]_loop PROVE InOrderInv'
    OBVIOUS
  <2>1. LoopInv'
    BY StepLoopInv DEF InOrderInv
  <2>2. QueueStep(Queue, sent, Queue', sent')
    BY <2>1, StepRefines, StepShape DEF InOrderInv, LoopInv
  <2> QED BY <2>1, <2>2, OrderKept DEF InOrderInv
<1> QED BY <1>1, <1>2, PTL DEF LoopSpec

\* The commands that wait in the ring are in the order the host sent them in.
THEOREM QueueInOrder == LoopSpec => []Promise!InOrder
<1>1. InOrderInv => Promise!InOrder
  BY DEF InOrderInv, Ordered, Promise!InOrder
<1> QED BY <1>1, InOrderInvariance, PTL

\* A command that was executed or discarded is never executed again, whatever
\* indices come round the ring.
THEOREM ExecutedAtMostOnce == LoopSpec => Promise!AtMostOnce
<1>1. ASSUME InOrderInv, InOrderInv', [LoopNext]_loop
      PROVE  [\A nid \in 1 .. sent : ~Promise!Holds(nid) => ~Promise!Holds(nid)']_(Promise!qvars)
  <2>1. QueueStep(Queue, sent, Queue', sent')
    BY <1>1, StepRefines, StepShape DEF InOrderInv, LoopInv
  <2>2. \A nid \in 1 .. sent : (\E i \in 1 .. Len(Queue') : Queue'[i] = nid)
                                 => \E i \in 1 .. Len(Queue) : Queue[i] = nid
    <3>1. Queue \in Seq(Nat) /\ sent \in Nat /\ Ordered(Queue, sent)
      BY <1>1 DEF InOrderInv
    <3> QED BY <2>1, <3>1, OrderKept
  <2> QED BY <2>2 DEF Promise!Holds
<1> QED BY <1>1, InOrderInvariance, PTL DEF LoopSpec, Promise!AtMostOnce

=============================================================================
