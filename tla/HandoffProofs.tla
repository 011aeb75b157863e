---------------------------- MODULE HandoffProofs ----------------------------
(****************************************************************************)
(* The calls of the handler in pieces, on the four firmwares, for every     *)
(* size of the ring.                                                        *)
(*                                                                          *)
(* What Planner keeps from call to call is broken within one: a slot is     *)
(* written before it is counted, counted before it is started.  Calls says  *)
(* what holds at each piece instead, as long as no interrupt comes where it *)
(* upsets the call; Schedule which of the contexts can be at work then; and *)
(* Room, for the two firmwares with a single loop, that the places counted  *)
(* as free are free.  Everything that an upset call may leave wrong is      *)
(* right again after the next lock, because Halt sets it from scratch.      *)
(****************************************************************************)
EXTENDS Handoff, PlannerProofs

\* The types of what Handoff adds to the planner.
HandlerTypes ==
    /\ board \in Boards
    /\ turn \in {"precalc", "report", "command"}
    /\ mutex \in {"free", "loop", "handler"}
    /\ hpc \in {"idle", "write", "load", "store", "mark", "test"}
    /\ htype \in {"move", "tool"}
    /\ cur \in Slots
    /\ loaded \in Nat
    /\ prof \in [Slots -> SUBSET Whole]
    /\ filled \in 0 .. Len(Fields)
    /\ hits \in SUBSET {"call", "profile", "ring"}

\* The types, and what the tests at the head of a call have found.
Types ==
    /\ RingTypes
    /\ Rest
    /\ HandlerTypes
    /\ hpc = "write" => plan_len < QUEUE_SIZE - 1
    /\ hpc \in {"write", "load", "store"} => sent < MaxNid

\* Which of the contexts can be at work together.
Schedule ==
    /\ Threaded => /\ mutex = "handler" <=> hpc # "idle"
                   /\ mutex = "loop" <=> UnderMutex(board, turn)
                   /\ turn # "command"
    /\ ~Threaded => (hpc # "idle" => turn = "command")
    /\ scan # Nobody => turn = "report"
    /\ calc # Nobody => turn = "precalc"
    /\ board = "stm32f103" => turn # "report"

\* The slot that the handler writes to has been written, and not been counted.
Reserving == hpc \in {"load", "store"}

\* The newest command with a slot.
Newest == IF Reserving THEN sent + 1 ELSE sent

\* No command is in two slots, and only those with a slot are told of.
Names ==
    /\ Numbered(plan, Newest)
    /\ told \in SUBSET (0 .. Newest)
    /\ Reserving /\ board # "emulation" => plan[cur].nid = sent + 1 /\ sent + 1 \notin told

\* What holds of the planner at each piece of a call.
Pieces ==
    /\ EngineMatchesQueue
    /\ hpc # "idle" => ~locked
    /\ hpc \in {"idle", "write", "mark", "test"} => RingWindow
    /\ hpc \in {"idle", "write", "load", "store"} => WorkConserving /\ NoMotionWhileLocked
    /\ Reserving => cur = At(plan_cur, active_plan_len) /\ plan_last = At(cur, 1)
    /\ hpc = "store" => loaded = active_plan_len
    /\ hpc \in {"mark", "test"} =>
          /\ active_plan_len > 0
          /\ going <=> active_plan_len > 1

Calls == Unhit => Pieces

\* No slot to execute is over, but for what an earlier command has left in the
\* one that is being queued; and none is told of.
Unended ==
    /\ active_plan_len <= QUEUE_SIZE
    /\ Reserving => active_plan_len < QUEUE_SIZE
    /\ \A i \in Pending :
          /\ plan[i].state \in {"finished", "failed"} => hpc = "mark" /\ i = cur
          /\ plan[i].nid \notin told \ {0}

Fates == Intact /\ board # "emulation" => Unended

\* The slots to execute and n more are counted in plan_len.
Counting(n) == active_plan_len + n <= plan_len

\* Ends left over from a lock, and the report has yet to come to them.
Leftover ==
    /\ active_plan_len = 0
    /\ hpc = "idle"
    /\ \/ turn = "precalc"
       \/ turn = "report" /\ \A i \in Done : i >= scan

Reserved == IF Reserving THEN 1 ELSE 0

\* The slots in use are counted, the one reserved with them; on the firmware
\* that reports, so are the ends to be reported.
Counted ==
    IF board = "mega2560"
    THEN locked \/ Leftover \/ Counting(Reserved + Cardinality(Done))
    ELSE Counting(Reserved)

Room ==
    ~Threaded /\ Unhit =>
        /\ "ring" \notin hits
        /\ locked => plan_len = 0
        /\ Counted

\* A profile is computed or not, except the one that the loop is at.
Profiles ==
    board # "stm32f302" =>
        /\ \A i \in Slots : prof[i] \in {{}, Whole} \/ i = calc
        /\ calc # Nobody => \A k \in 1 .. filled : Fields[k] \in prof[calc]

HandoffInv == Types /\ Schedule /\ Names /\ Calls /\ Fates /\ Room /\ Profiles

-----------------------------------------------------------------------------
(* The actions as relations of two states                                   *)

LEMMA TypesGiveTypeOK == Types => HandoffTypeOK
  BY DEF Types, RingTypes, Rest, HandlerTypes, HandoffTypeOK, TypeOK

LEMMA LockHalts ==
    ASSUME RingTypes, PlannerLock
    PROVE  Halted(plan) /\ UNCHANGED <<modeVars, loopVars, sent, told>>
<1>1. 0 \in Slots
  BY QueueSizeAssumption DEF Slots
<1>2. "finished" \in ActionStates
  BY DEF ActionStates
<1> QED BY <1>1, <1>2, MarkType DEF PlannerLock, Halted, RingTypes

\* The call that queues a command ends: its command is started, or fails at
\* once, or waits.
LEMMA EndEffect ==
    ASSUME RingTypes, AcceptEnd
    PROVE  \/ Halted(plan)
           \/ /\ active_plan_len = 1
              /\ \E k \in 0 .. 1 :
                    /\ Moved(plan, plan_cur, 1, k)
                    /\ UNCHANGED <<plan_last, plan_len>>
                    /\ k = 1 \/ locked => (going' => going)
           \/ /\ active_plan_len # 1
              /\ UNCHANGED <<ringVars, engineVars, locked, barrier>>
<1>1. CASE active_plan_len = 1
  <2>1. GetCmd(plan, plan_cur, 1, plan_last, plan_len, going)
    BY <1>1 DEF AcceptEnd
  <2>2. 1 \in Nat /\ plan \in [Slots -> Actions] /\ plan_cur \in Slots /\ going \in BOOLEAN
    BY DEF RingTypes
  <2>3. \/ Halted(plan)
        \/ \E k \in 0 .. 1 :
              /\ Moved(plan, plan_cur, 1, k)
              /\ plan_last' = plan_last
              /\ plan_len' = plan_len
              /\ k = 1 \/ locked => (going' => going)
    BY <2>1, <2>2, GetCmdEffect
  <2> QED BY <1>1, <2>3
<1>2. CASE active_plan_len # 1
  BY <1>2 DEF AcceptEnd
<1> QED BY <1>1, <1>2

\* A command that queues nothing locks, or leaves the ring alone.
LEMMA OtherEffect ==
    ASSUME RingTypes, OtherCommand
    PROVE  /\ UNCHANGED <<loopVars, sent, told>>
           /\ \/ Halted(plan) /\ hits' = {}
              \/ /\ UNCHANGED <<ringVars, engineVars, barrier, hits>>
                 /\ locked' \in {locked, FALSE}
<1>1. CASE PlannerLock /\ hits' = {}
  BY <1>1, LockHalts
<1>2. CASE PlannerUnlock /\ UNCHANGED hits
  BY <1>2 DEF PlannerUnlock
<1>3. CASE (\E fail \in BOOLEAN : FailOnEndstops(fail)) /\ UNCHANGED hits
  BY <1>3 DEF FailOnEndstops
<1>4. CASE Configure /\ UNCHANGED hits
  BY <1>4 DEF Configure
<1> QED BY <1>1, <1>2, <1>3, <1>4 DEF OtherCommand

\* Only states and flags of the ring's contents change while profiles are
\* computed, and none becomes an end.
LEMMA PrecalcEffect ==
    ASSUME RingTypes, Rest, Precalc
    PROVE  /\ plan' \in [Slots -> Actions]
           /\ \A i \in Slots : /\ plan'[i].nid = plan[i].nid
                               /\ plan'[i].state \in {plan[i].state, "prepared"}
           /\ Finals(plan') \subseteq Finals(plan)
           /\ calc' \in Slots \cup {Nobody}
           /\ UNCHANGED <<plan_first, plan_cur, plan_last, plan_len, active_plan_len, engineVars,
                          modeVars, scan, clearing, locked, sent, barrier, told>>
<1>1. CASE PreCalcBegin
  <2>1. Pending \subseteq Slots
    BY WindowType DEF RingTypes, Pending
  <2> QED BY <1>1, <2>1 DEF PreCalcBegin, RingTypes, ringVars
<1>2. CASE PreCalcEnd
  <2>1. calc \in Slots /\ "prepared" \in ActionStates
    BY <1>2 DEF PreCalcEnd, Rest, ActionStates
  <2>2. /\ plan' = Mark(plan, calc, "prepared") /\ plan \in [Slots -> Actions]
        /\ calc' = Nobody
        /\ UNCHANGED <<plan_first, plan_cur, plan_last, plan_len, active_plan_len, engineVars,
                       modeVars, scan, clearing, locked, sent, barrier, told>>
    BY <1>2 DEF PreCalcEnd, RingTypes
  <2>3. /\ plan' \in [Slots -> Actions]
        /\ \A i \in Slots : /\ plan'[i].nid = plan[i].nid
                            /\ i # calc => plan'[i] = plan[i]
        /\ plan'[calc].state = "prepared"
    BY <2>1, <2>2, MarkType
  <2>4. Finals(plan') \subseteq Finals(plan)
    BY <2>1, <2>2, FinalsOfMark
  <2>5. \A i \in Slots : plan'[i].state \in {plan[i].state, "prepared"}
    BY <2>3
  <2> QED BY <2>2, <2>3, <2>4, <2>5
<1> QED BY <1>1, <1>2 DEF Precalc

\* The report goes on by a slot, reports an end, or clears a flag.
LEMMA ReportEffect ==
    ASSUME RingTypes, Rest, Report
    PROVE  /\ scan \in Slots
           /\ UNCHANGED <<plan_cur, plan_last, active_plan_len, engineVars, modeVars, calc,
                          locked, sent, barrier>>
           /\ \/ UNCHANGED <<ringVars, told>>
              \/ /\ PopCmd
                 /\ plan[scan].state \in {"finished", "failed"}
                 /\ told' = told \cup {plan[scan].nid}
              \/ /\ plan' = [plan EXCEPT ![scan].changed = FALSE]
                 /\ UNCHANGED <<plan_first, plan_len, told>>
           /\ plan' \in [Slots -> Actions]
           /\ plan_first' \in Slots /\ plan_len' \in Slots
           /\ \A i \in Slots : plan'[i].nid \in {plan[i].nid, 0}
<1>1. scan \in Slots
  BY DEF Report, ReportSlot, ReportClear, Rest
<1>2. UNCHANGED <<plan_cur, plan_last, active_plan_len, engineVars, modeVars, calc,
                  locked, sent, barrier>>
  BY DEF Report, ReportSlot, ReportClear, PopCmd, ringVars
<1>3. \/ UNCHANGED <<ringVars, told>>
      \/ /\ PopCmd
         /\ plan[scan].state \in {"finished", "failed"}
         /\ told' = told \cup {plan[scan].nid}
      \/ /\ plan' = [plan EXCEPT ![scan].changed = FALSE]
         /\ UNCHANGED <<plan_first, plan_len, told>>
  BY DEF Report, ReportSlot, ReportClear
<1>4. /\ plan' \in [Slots -> Actions]
      /\ plan_first' \in Slots /\ plan_len' \in Slots
      /\ \A i \in Slots : plan'[i].nid \in {plan[i].nid, 0}
  <2>1. CASE UNCHANGED <<ringVars, told>>
    BY <2>1 DEF ringVars, RingTypes
  <2>2. CASE PopCmd
    <3>1. CASE plan_len > 0
      <4>1. /\ plan' = [plan EXCEPT ![plan_first] = Blank]
            /\ plan_first' = At(plan_first, 1) /\ plan_len' = plan_len - 1
        BY <2>2, <3>1 DEF PopCmd
      <4>2. Blank \in Actions /\ Blank.nid = 0
        BY DEF Blank, Actions, ActionStates, ActionTypes
      <4>3. plan_first \in Int /\ plan_len' \in Slots
        BY <3>1, <4>1, QueueSizeAssumption DEF RingTypes, Slots
      <4>4. plan_first' \in Slots
        BY <4>1, <4>3, AtType
      <4> QED BY <4>1, <4>2, <4>3, <4>4 DEF RingTypes
    <3>2. CASE ~(plan_len > 0)
      BY <2>2, <3>2 DEF PopCmd, RingTypes
    <3> QED BY <3>1, <3>2
  <2>3. CASE /\ plan' = [plan EXCEPT ![scan].changed = FALSE]
             /\ UNCHANGED <<plan_first, plan_len, told>>
    BY <1>1, <2>3 DEF RingTypes, Actions
  <2> QED BY <1>3, <2>1, <2>2, <2>3
<1> QED BY <1>1, <1>2, <1>3, <1>4

-----------------------------------------------------------------------------
(* Types                                                                    *)

LEMMA ProfilesTyped ==
    ASSUME HandlerTypes, NEW S, ProfileOnStart(S)
    PROVE  prof' \in [Slots -> SUBSET Whole] /\ filled' = filled
  BY DEF HandlerTypes, ProfileOnStart

LEMMA TypesKept ==
    ASSUME Types, HandoffNext
    PROVE  Types'
<1> USE DEF Types
<1>1. ASSUME NEW type \in {"move", "tool"}, AcceptBegin(type) PROVE Types'
  <2>1. RingTypes' /\ Rest'
    BY <1>1 DEF AcceptBegin, vars, ringVars, engineVars, modeVars, loopVars, RingTypes, Rest
  <2>2. HandlerTypes'
    BY <1>1 DEF AcceptBegin, profVars, HandlerTypes
  <2>3. plan_len < QUEUE_SIZE - 1 /\ sent' < MaxNid
    BY <1>1, QueueSizeAssumption DEF AcceptBegin, EmptySlots, RingTypes, Slots, vars
  <2> QED BY <1>1, <2>1, <2>2, <2>3 DEF AcceptBegin, vars, ringVars
<1>2. CASE AcceptWrite
  <2>1. RingTypes'
    <3>1. plan' \in [Slots -> Actions]
      <4>1. sent + 1 \in Nat /\ htype \in ActionTypes
        BY MaxNidAssumption DEF Rest, HandlerTypes, ActionTypes
      <4>2. plan' = [plan EXCEPT ![plan_last].nid = sent + 1, ![plan_last].type = htype]
        BY <1>2 DEF AcceptWrite
      <4> QED BY <4>1, <4>2 DEF RingTypes, Actions
    <3>2. plan_len' \in Slots
      BY <1>2, QueueSizeAssumption DEF AcceptWrite, RingTypes, Slots
    <3>3. plan_last' \in Slots
      <4>1. plan_last \in Int
        BY QueueSizeAssumption DEF RingTypes, Slots
      <4> QED BY <1>2, <4>1, AtType DEF AcceptWrite
    <3> QED BY <1>2, <3>1, <3>2, <3>3 DEF AcceptWrite, engineVars, RingTypes
  <2>2. Rest'
    BY <1>2 DEF AcceptWrite, modeVars, loopVars, Rest
  <2>3. HandlerTypes'
    BY <1>2 DEF AcceptWrite, schedVars, HandlerTypes, RingTypes
  <2> QED BY <1>2, <2>1, <2>2, <2>3 DEF AcceptWrite
<1>3. CASE AcceptLoad
  <2>1. RingTypes' /\ Rest'
    BY <1>3 DEF AcceptLoad, vars, ringVars, engineVars, modeVars, loopVars, RingTypes, Rest
  <2>2. HandlerTypes'
    BY <1>3 DEF AcceptLoad, schedVars, profVars, HandlerTypes, RingTypes
  <2> QED BY <1>3, <2>1, <2>2 DEF AcceptLoad, vars
<1>4. CASE AcceptStore
  <2>1. sent' \in 0 .. MaxNid /\ active_plan_len' \in Nat
    BY <1>4, MaxNidAssumption DEF AcceptStore, Rest, HandlerTypes
  <2>2. barrier' \in 0 .. sent'
    BY <1>4, <2>1, MaxNidAssumption DEF AcceptStore, RingTypes, Rest
  <2>3. RingTypes'
    BY <1>4, <2>1, <2>2 DEF AcceptStore, engineVars, RingTypes
  <2>4. Rest'
    BY <1>4, <2>1 DEF AcceptStore, modeVars, loopVars, Rest
  <2>5. HandlerTypes'
    BY <1>4 DEF AcceptStore, schedVars, profVars, HandlerTypes
  <2> QED BY <1>4, <2>3, <2>4, <2>5 DEF AcceptStore
<1>5. CASE AcceptMark
  <2>1. plan' \in [Slots -> Actions]
    <3>1. "queued" \in ActionStates
      BY DEF ActionStates
    <3> QED BY <1>5, <3>1 DEF AcceptMark, RingTypes, Actions, HandlerTypes
  <2>2. RingTypes'
    BY <1>5, <2>1 DEF AcceptMark, engineVars, RingTypes
  <2>3. Rest'
    BY <1>5 DEF AcceptMark, modeVars, loopVars, Rest
  <2>4. HandlerTypes'
    BY <1>5 DEF AcceptMark, schedVars, profVars, HandlerTypes
  <2> QED BY <1>5, <2>2, <2>3, <2>4 DEF AcceptMark
<1>6. CASE AcceptEnd
  <2>1. RingTypes'
    <3>1. sent' = sent /\ sent \in Nat
      BY <1>6, MaxNidAssumption DEF AcceptEnd, Rest
    <3>2. CASE Halted(plan)
      BY <3>1, <3>2, HaltedEffect
    <3>3. ASSUME active_plan_len = 1, NEW k \in 0 .. 1, Moved(plan, plan_cur, 1, k),
                 UNCHANGED <<plan_last, plan_len>>
          PROVE  RingTypes'
      BY <3>1, <3>3, MovedRelabels, RelabelledTypes
    <3>4. CASE UNCHANGED <<ringVars, engineVars, locked, barrier>>
      BY <3>1, <3>4 DEF ringVars, engineVars, RingTypes
    <3> QED BY <1>6, <3>2, <3>3, <3>4, EndEffect
  <2>2. Rest'
    BY <1>6 DEF AcceptEnd, modeVars, loopVars, Rest
  <2>3. /\ prof' \in [Slots -> SUBSET Whole] /\ filled' \in 0 .. Len(Fields)
        /\ hits' \in SUBSET {"call", "profile", "ring"}
    <3>1. CASE active_plan_len = 1
      BY <1>6, <3>1, ProfilesTyped DEF AcceptEnd, HandlerTypes
    <3>2. CASE active_plan_len # 1
      BY <1>6, <3>2 DEF AcceptEnd, profVars, HandlerTypes
    <3> QED BY <3>1, <3>2
  <2>4. mutex' \in {"free", "loop", "handler"} /\ turn' \in {"precalc", "report", "command"}
    BY <1>6 DEF AcceptEnd, Handled, After, HandlerTypes
  <2>5. HandlerTypes'
    BY <1>6, <2>3, <2>4 DEF AcceptEnd, HandlerTypes
  <2> QED BY <1>6, <2>1, <2>2, <2>5 DEF AcceptEnd
<1>7. CASE OtherCommand
  <2>1. sent' = sent /\ sent \in Nat /\ told' = told /\ UNCHANGED loopVars
    BY <1>7, OtherEffect, MaxNidAssumption DEF Rest
  <2>2. RingTypes'
    <3>1. CASE Halted(plan)
      BY <2>1, <3>1, HaltedEffect
    <3>2. CASE UNCHANGED <<ringVars, engineVars, barrier>> /\ locked' \in {locked, FALSE}
      <4>1. locked' \in BOOLEAN
        BY <3>2 DEF RingTypes
      <4> QED BY <2>1, <3>2, <4>1 DEF ringVars, engineVars, RingTypes
    <3> QED BY <1>7, <3>1, <3>2, OtherEffect
  <2>3. fail_on_endstops' \in BOOLEAN /\ configured' \in BOOLEAN
    BY <1>7 DEF OtherCommand, PlannerLock, PlannerUnlock, FailOnEndstops, Configure, modeVars, Rest
  <2>4. Rest'
    BY <2>1, <2>3 DEF loopVars, Rest
  <2>5. HandlerTypes'
    <3>1. hits' \in SUBSET {"call", "profile", "ring"}
      BY <1>7, OtherEffect DEF HandlerTypes
    <3>2. turn' \in {"precalc", "report", "command"}
      BY <1>7 DEF OtherCommand, Handled, After, HandlerTypes
    <3> QED BY <1>7, <3>1, <3>2 DEF OtherCommand, handlerVars, profVars, HandlerTypes
  <2> QED BY <1>7, <2>2, <2>4, <2>5 DEF OtherCommand, MayHandle, handlerVars
<1>8. CASE NextTurn
  <2>1. RingTypes'
    BY <1>8 DEF NextTurn, ringVars, engineVars, RingTypes
  <2>2. scan' \in Slots \cup {Nobody} /\ clearing = FALSE
    BY <1>8, QueueSizeAssumption DEF NextTurn, Rest, Slots, Nobody
  <2>3. Rest'
    BY <1>8, <2>2 DEF NextTurn, modeVars, Rest
  <2>4. mutex' \in {"free", "loop", "handler"} /\ turn' \in {"precalc", "report", "command"}
    BY <1>8 DEF NextTurn, After, HandlerTypes
  <2>5. HandlerTypes'
    BY <1>8, <2>4 DEF NextTurn, handlerVars, profVars, HandlerTypes
  <2> QED BY <1>8, <2>1, <2>3, <2>5 DEF NextTurn, handlerVars, ringVars
<1>9. CASE Fill
  <2>1. RingTypes' /\ Rest'
    BY <1>9 DEF Fill, vars, ringVars, engineVars, modeVars, loopVars, RingTypes, Rest
  <2>2. filled' \in 0 .. Len(Fields) /\ prof' \in [Slots -> SUBSET Whole]
    <3>1. PICK n \in IF filled = 0 THEN {1, Len(Fields)} ELSE {filled + 1} :
              /\ filled' = n
              /\ prof' = [prof EXCEPT ![calc] = @ \cup {Fields[k] : k \in filled + 1 .. n}]
      BY <1>9 DEF Fill
    <3>2. Len(Fields) = 3 /\ filled \in 0 .. 3 /\ filled < 3
      BY <1>9 DEF Fill, Fields, HandlerTypes
    <3>3. n \in 1 .. 3
      BY <3>2
    <3>4. \A k \in 1 .. 3 : Fields[k] \in Whole
      BY DEF Fields, Whole
    <3>5. {Fields[k] : k \in filled + 1 .. n} \in SUBSET Whole
      BY <3>2, <3>3, <3>4
    <3>6. prof' \in [Slots -> SUBSET Whole]
      BY <3>1, <3>5 DEF HandlerTypes
    <3> QED BY <3>1, <3>2, <3>3, <3>6
  <2>3. HandlerTypes'
    BY <1>9, <2>2 DEF Fill, schedVars, handlerVars, HandlerTypes
  <2> QED BY <1>9, <2>1, <2>3 DEF Fill, vars, ringVars, handlerVars
<1>10. CASE Precalc
  <2> DEFINE same == UNCHANGED <<plan_first, plan_cur, plan_last, plan_len, active_plan_len,
                                 engineVars, modeVars, scan, clearing, locked, sent, barrier, told>>
  <2>1. RingTypes' /\ Rest'
    <3>1. plan' \in [Slots -> Actions] /\ calc' \in Slots \cup {Nobody} /\ same
      BY <1>10, PrecalcEffect
    <3>2. RingTypes'
      BY <3>1 DEF engineVars, RingTypes
    <3> QED BY <3>1, <3>2 DEF modeVars, Rest
  <2>2. HandlerTypes'
    BY <1>10 DEF Precalc, schedVars, handlerVars, HandlerTypes, Fields
  <2> QED BY <1>10, <2>1, <2>2, PrecalcEffect DEF Precalc, handlerVars
<1>11. CASE Report
  <2>1. RingTypes'
    BY <1>11, ReportEffect DEF engineVars, RingTypes
  <2>2. told' \in SUBSET Nat
    BY <1>11, ReportEffect DEF Rest, RingTypes, Actions
  <2>3. scan' \in Slots \cup {Nobody} /\ clearing' \in BOOLEAN /\ (clearing' => scan' \in Slots)
    BY <1>11, ReportEffect, ScanAdvances DEF Report, ReportSlot, ReportClear, Rest
  <2>4. Rest'
    BY <1>11, <2>2, <2>3, ReportEffect DEF modeVars, Rest
  <2>5. HandlerTypes'
    BY <1>11 DEF Report, schedVars, handlerVars, profVars, HandlerTypes
  <2>6. plan_len' <= plan_len
    BY <1>11, QueueSizeAssumption DEF Report, ReportSlot, ReportClear, PopCmd, ringVars, RingTypes, Slots
  <2>7. hpc' = hpc /\ sent' = sent /\ plan_len \in Int /\ plan_len' \in Int
    BY <1>11, <2>1, ReportEffect, QueueSizeAssumption DEF Report, handlerVars, RingTypes, Slots
  <2> QED BY <2>1, <2>4, <2>5, <2>6, <2>7, QueueSizeAssumption
<1>12. CASE Isr
  <2>1. /\ UNCHANGED <<modeVars, loopVars, sent, told>>
        /\ Halted(plan) \/ Relabelled
    BY <1>12, TickEffect DEF Isr
  <2>2. RingTypes'
    <3>1. sent' \in Nat
      BY <2>1, MaxNidAssumption DEF Rest
    <3> QED BY <2>1, <3>1, HaltedEffect, RelabelledTypes
  <2>3. Rest'
    BY <2>1 DEF modeVars, loopVars, Rest
  <2>4. HandlerTypes'
    BY <1>12, ProfilesTyped DEF Isr, schedVars, handlerVars, HandlerTypes
  <2>5. plan_len' \in {plan_len, 0}
    <3>1. sent' \in Nat
      BY <2>1, MaxNidAssumption DEF Rest
    <3>2. CASE Halted(plan)
      BY <3>1, <3>2, HaltedEffect
    <3>3. CASE Relabelled
      BY <3>3 DEF Relabelled
    <3> QED BY <2>1, <3>2, <3>3
  <2>6. plan_len' = 0 => (hpc' = "write" => plan_len' < QUEUE_SIZE - 1)
    BY <1>12, QueueSizeAssumption DEF Isr, handlerVars, RingTypes, Slots
  <2> QED BY <1>12, <2>1, <2>2, <2>3, <2>4, <2>5, <2>6 DEF Isr, handlerVars
<1> QED BY <1>1, <1>2, <1>3, <1>4, <1>5, <1>6, <1>7, <1>8, <1>9, <1>10, <1>11, <1>12
        DEF HandoffNext, Queueing

-----------------------------------------------------------------------------
(* Who is at work                                                           *)

\* While the handler is in a call, the report is not, unless it is the
\* emulation's, and no profile is being computed, unless on the stm32f302.
LEMMA HandlerAlone ==
    ASSUME Types, Schedule, hpc # "idle"
    PROVE  /\ board # "emulation" => scan = Nobody /\ clearing = FALSE
           /\ board # "stm32f302" => calc = Nobody
           /\ ~Threaded => turn = "command"
<1>1. board \in AllBoards
  BY BoardsAssumption DEF Types, HandlerTypes
<1>2. board # "emulation" => scan = Nobody
  BY <1>1 DEF Schedule, Threaded, UnderMutex, AllBoards
<1>3. scan = Nobody => clearing = FALSE
  BY QueueSizeAssumption DEF Types, Rest, Nobody, Slots
<1>4. board # "stm32f302" => calc = Nobody
  BY <1>1 DEF Schedule, Threaded, UnderMutex, AllBoards
<1> QED BY <1>1, <1>2, <1>3, <1>4 DEF Schedule, Threaded

\* Which steps are none of the handler's.
LEMMA ScheduleUndisturbed ==
    ASSUME Schedule, UNCHANGED <<schedVars, hpc>>,
           scan' # Nobody => turn = "report", calc' # Nobody => turn = "precalc"
    PROVE  Schedule'
  BY DEF Schedule, Threaded, UnderMutex, schedVars

LEMMA ScheduleKept ==
    ASSUME Types, Schedule, HandoffNext
    PROVE  Schedule'
<1>0. /\ board \in AllBoards
      /\ turn \in {"precalc", "report", "command"}
      /\ mutex \in {"free", "loop", "handler"}
  BY BoardsAssumption DEF Types, HandlerTypes
<1>1. ASSUME NEW type \in {"move", "tool"}, AcceptBegin(type) PROVE Schedule'
  BY <1>0, <1>1 DEF AcceptBegin, MayHandle, vars, loopVars, Schedule, Threaded, UnderMutex, AllBoards
<1>2. CASE AcceptWrite
  BY <1>0, <1>2 DEF AcceptWrite, schedVars, loopVars, Schedule, Threaded, UnderMutex
<1>3. CASE AcceptLoad
  BY <1>0, <1>3 DEF AcceptLoad, schedVars, vars, loopVars, Schedule, Threaded, UnderMutex
<1>4. CASE AcceptStore
  BY <1>0, <1>4 DEF AcceptStore, schedVars, loopVars, Schedule, Threaded, UnderMutex
<1>5. CASE AcceptMark
  BY <1>0, <1>5 DEF AcceptMark, schedVars, loopVars, Schedule, Threaded, UnderMutex
<1>6. CASE AcceptEnd
  <2>1. /\ board' = board /\ UNCHANGED loopVars /\ hpc = "test" /\ hpc' = "idle"
        /\ mutex' = IF Threaded THEN "free" ELSE mutex
        /\ turn' = IF board = "mega2560" THEN After(board, turn) ELSE turn
    BY <1>6 DEF AcceptEnd, Handled
  <2>2. CASE Threaded
    BY <1>0, <2>1, <2>2 DEF loopVars, Schedule, Threaded, UnderMutex, AllBoards
  <2>3. CASE ~Threaded
    <3>1. turn = "command" /\ scan = Nobody /\ calc = Nobody
      BY <1>0, <2>1, <2>3, HandlerAlone DEF Threaded
    <3> QED BY <1>0, <2>1, <2>3, <3>1 DEF loopVars, Schedule, Threaded, After, AllBoards
  <2> QED BY <2>2, <2>3
<1>7. CASE OtherCommand
  <2>1. /\ board' = board /\ UNCHANGED <<loopVars, hpc, mutex>>
        /\ turn' = IF board = "mega2560" THEN After(board, turn) ELSE turn
        /\ ~Threaded => turn = "command"
        /\ hpc = "idle"
    BY <1>7, OtherEffect DEF OtherCommand, Handled, MayHandle, handlerVars, Types
  <2>2. CASE Threaded
    BY <1>0, <2>1, <2>2 DEF loopVars, Schedule, Threaded, UnderMutex, AllBoards
  <2>3. CASE ~Threaded
    <3>1. scan = Nobody /\ calc = Nobody
      BY <2>1, <2>3 DEF Schedule
    <3> QED BY <1>0, <2>1, <2>3, <3>1 DEF loopVars, Schedule, Threaded, After, AllBoards
  <2> QED BY <2>2, <2>3
<1>8. CASE NextTurn
  <2> DEFINE next == After(board, turn)
  <2>1. /\ hpc = "idle" \/ Threaded
        /\ calc = Nobody /\ scan = Nobody /\ calc' = calc
        /\ UnderMutex(board, next) => mutex = "free"
        /\ mutex' = IF UnderMutex(board, next) THEN "loop"
                    ELSE IF UnderMutex(board, turn) THEN "free" ELSE mutex
        /\ turn' = next
        /\ scan' = IF next = "report" THEN 0 ELSE scan
        /\ board' = board /\ hpc' = hpc
    BY <1>8 DEF NextTurn, handlerVars
  <2>2. CASE Threaded
    BY <1>0, <2>1, <2>2 DEF Schedule, Threaded, UnderMutex, After, AllBoards
  <2>3. CASE ~Threaded
    BY <1>0, <2>1, <2>3 DEF Schedule, Threaded, After, AllBoards
  <2> QED BY <2>2, <2>3
<1>9. CASE Fill
  <2>1. UNCHANGED <<schedVars, hpc, scan, calc>>
    BY <1>9 DEF Fill, handlerVars, vars, loopVars
  <2> QED BY <2>1, ScheduleUndisturbed DEF Schedule
<1>10. CASE Precalc
  <2>1. UNCHANGED <<schedVars, hpc, scan>> /\ turn = "precalc"
    BY <1>10 DEF Precalc, PreCalcBegin, PreCalcEnd, handlerVars
  <2> QED BY <2>1, ScheduleUndisturbed DEF Schedule
<1>11. CASE Report
  <2>1. UNCHANGED <<schedVars, hpc, calc>> /\ turn = "report"
    BY <1>11 DEF Report, ReportSlot, ReportClear, handlerVars
  <2> QED BY <2>1, ScheduleUndisturbed DEF Schedule
<1>12. CASE Isr
  <2>1. UNCHANGED <<schedVars, hpc, scan, calc>>
    BY <1>12, TickEffect DEF Isr, handlerVars, loopVars, Types
  <2> QED BY <2>1, ScheduleUndisturbed DEF Schedule
<1> QED BY <1>1, <1>2, <1>3, <1>4, <1>5, <1>6, <1>7, <1>8, <1>9, <1>10, <1>11, <1>12
        DEF HandoffNext, Queueing

-----------------------------------------------------------------------------
(* Numbers                                                                  *)

\* Steps that give no number out and take none from a slot in hand.
LEMMA NamesUndisturbed ==
    ASSUME Types, Names, plan' \in [Slots -> Actions], UNCHANGED <<told, board>>,
           Newest' = Newest, sent' = sent,
           Reserving' => Reserving /\ cur' = cur,
           \A i \in Slots : plan'[i].nid = plan[i].nid
    PROVE  Names'
<1>1. plan \in [Slots -> Actions] /\ Newest \in Nat /\ cur \in Slots
  BY MaxNidAssumption DEF Types, RingTypes, Rest, HandlerTypes, Newest
<1>2. Numbered(plan', Newest)
  BY <1>1, NumberedKept DEF Names
<1> QED BY <1>1, <1>2 DEF Names

LEMMA NamesKept ==
    ASSUME Types, Schedule, Names, HandoffNext
    PROVE  Names'
<1>0. /\ plan \in [Slots -> Actions] /\ cur \in Slots /\ plan_last \in Slots
      /\ sent \in Nat /\ Newest \in Nat
  BY MaxNidAssumption DEF Types, RingTypes, Rest, HandlerTypes, Newest
<1>1. ASSUME NEW type \in {"move", "tool"}, AcceptBegin(type) PROVE Names'
  <2>1. UNCHANGED <<plan, told, board, sent>> /\ ~Reserving /\ ~Reserving'
    BY <1>1 DEF AcceptBegin, MayHandle, vars, ringVars, Reserving
  <2>2. Newest' = Newest
    BY <2>1 DEF Newest
  <2> QED BY <1>0, <2>1, <2>2, NamesUndisturbed
<1>2. CASE AcceptWrite
  <2>1. /\ Newest = sent /\ Newest' = sent + 1 /\ sent' = sent
        /\ cur' = plan_last /\ told' = told
    BY <1>2 DEF AcceptWrite, Newest, Reserving
  <2>2. /\ plan'[plan_last].nid = sent + 1
        /\ \A i \in Slots : i # plan_last => plan'[i].nid = plan[i].nid
    BY <1>0, <1>2 DEF AcceptWrite, Actions
  <2>3. plan' \in [Slots -> Actions]
    BY TypesKept DEF Types, RingTypes
  <2>4. Numbered(plan', sent + 1)
    BY <1>0, <2>1, <2>2, <2>3, NumberedNext DEF Names
  <2>5. told \in SUBSET (0 .. sent)
    BY <2>1 DEF Names
  <2> QED BY <1>0, <2>1, <2>2, <2>4, <2>5 DEF Names
<1>3. CASE AcceptLoad
  <2>1. UNCHANGED <<plan, told, board, sent, cur>> /\ Reserving /\ Reserving'
    BY <1>3 DEF AcceptLoad, vars, ringVars, schedVars, Reserving
  <2>2. Newest' = Newest
    BY <2>1 DEF Newest
  <2> QED BY <1>0, <2>1, <2>2, NamesUndisturbed
<1>4. CASE AcceptStore
  <2>1. /\ UNCHANGED <<plan, told>> /\ ~Reserving'
        /\ Newest = sent + 1 /\ Newest' = sent + 1
    BY <1>4 DEF AcceptStore, Reserving, Newest
  <2> QED BY <2>1 DEF Names
<1>5. CASE AcceptMark
  <2>1. UNCHANGED <<told, board, sent>> /\ ~Reserving /\ ~Reserving'
    BY <1>5 DEF AcceptMark, schedVars, Reserving
  <2>2. Newest' = Newest
    BY <2>1 DEF Newest
  <2>3. \A i \in Slots : plan'[i].nid = plan[i].nid
    BY <1>0, <1>5 DEF AcceptMark, Actions
  <2>4. plan' \in [Slots -> Actions]
    BY TypesKept DEF Types, RingTypes
  <2> QED BY <2>1, <2>2, <2>3, <2>4, NamesUndisturbed
<1>6. CASE AcceptEnd
  <2>1. UNCHANGED <<told, board, sent>> /\ ~Reserving /\ ~Reserving'
    BY <1>6 DEF AcceptEnd, Reserving
  <2>2. Newest' = Newest
    BY <2>1 DEF Newest
  <2>3. \A i \in Slots : plan'[i].nid = plan[i].nid
    BY <1>0, <1>6, <2>1, EndEffect, HaltedEffect DEF Moved, Types, ringVars
  <2>4. plan' \in [Slots -> Actions]
    BY TypesKept DEF Types, RingTypes
  <2> QED BY <2>1, <2>2, <2>3, <2>4, NamesUndisturbed
<1>7. CASE OtherCommand
  <2>1. UNCHANGED <<told, board, sent>> /\ ~Reserving /\ ~Reserving'
    BY <1>7, OtherEffect DEF OtherCommand, MayHandle, handlerVars, Reserving, Types
  <2>2. Newest' = Newest
    BY <2>1 DEF Newest
  <2>3. \A i \in Slots : plan'[i].nid = plan[i].nid
    BY <1>0, <1>7, <2>1, OtherEffect, HaltedEffect DEF Types, ringVars
  <2>4. plan' \in [Slots -> Actions]
    BY TypesKept DEF Types, RingTypes
  <2> QED BY <2>1, <2>2, <2>3, <2>4, NamesUndisturbed
<1>8. CASE NextTurn \/ Fill
  <2>1. /\ UNCHANGED <<plan, told, board, sent, cur>>
        /\ Reserving' = Reserving
    BY <1>8 DEF NextTurn, Fill, vars, ringVars, schedVars, handlerVars, Reserving
  <2>2. Newest' = Newest
    BY <2>1 DEF Newest
  <2> QED BY <1>0, <2>1, <2>2, NamesUndisturbed
<1>9. CASE Precalc
  <2>1. UNCHANGED <<told, board, sent, cur>> /\ Reserving' = Reserving
    BY <1>9, PrecalcEffect DEF Precalc, schedVars, handlerVars, Reserving, Types
  <2>2. Newest' = Newest
    BY <2>1 DEF Newest
  <2> QED BY <1>9, <2>1, <2>2, PrecalcEffect, NamesUndisturbed DEF Types
<1>10. CASE Report
  <2>1. /\ UNCHANGED <<board, sent, cur, hpc>> /\ scan \in Slots
        /\ plan' \in [Slots -> Actions]
        /\ \A i \in Slots : plan'[i].nid \in {plan[i].nid, 0}
        /\ told' = told \/ told' = told \cup {plan[scan].nid}
    BY <1>10, ReportEffect DEF Report, schedVars, handlerVars, Types
  <2>2. Newest' = Newest /\ Reserving' = Reserving
    BY <2>1 DEF Newest, Reserving
  <2>3. Numbered(plan', Newest)
    BY <1>0, <2>1, NumberedKept DEF Names
  <2>4. plan[scan].nid \in 0 .. Newest
    BY <1>0, <2>1 DEF Names, Numbered, Actions
  <2>5. told' \in SUBSET (0 .. Newest)
    BY <2>1, <2>4 DEF Names
  <2>6. Reserving => board = "emulation"
    <3>1. scan # Nobody
      BY <2>1, QueueSizeAssumption DEF Nobody, Slots
    <3>2. Reserving => hpc # "idle"
      BY DEF Reserving
    <3> QED BY <3>1, <3>2, HandlerAlone
  <2> QED BY <2>1, <2>2, <2>3, <2>5, <2>6 DEF Names
<1>11. CASE Isr
  <2>1. UNCHANGED <<told, board, sent, cur>> /\ Reserving' = Reserving
    BY <1>11, TickEffect DEF Isr, schedVars, handlerVars, Reserving, Types
  <2>2. Newest' = Newest
    BY <2>1 DEF Newest
  <2>3. \A i \in Slots : plan'[i].nid = plan[i].nid
    BY <1>0, <1>11, <2>1, TickEffect, HaltedEffect DEF Isr, Relabelled, Types
  <2>4. plan' \in [Slots -> Actions]
    BY TypesKept DEF Types, RingTypes
  <2> QED BY <2>1, <2>2, <2>3, <2>4, NamesUndisturbed
<1> QED BY <1>1, <1>2, <1>3, <1>4, <1>5, <1>6, <1>7, <1>8, <1>9, <1>10, <1>11
        DEF HandoffNext, Queueing

-----------------------------------------------------------------------------
(* Profiles                                                                 *)

\* A move that starts makes the whole of its profile, or finds it made.
LEMMA StartKeepsProfiles ==
    ASSUME HandlerTypes, calc \in Slots \cup {Nobody}, Profiles,
           NEW S, ProfileOnStart(S), UNCHANGED <<board, calc>>
    PROVE  Profiles'
<1>1. \A i \in Slots : prof'[i] \in {prof[i], Whole}
  BY DEF ProfileOnStart, HandlerTypes
<1>2. \A k \in 1 .. filled : Fields[k] \in Whole
  BY DEF HandlerTypes, Fields, Whole
<1>3. filled' = filled
  BY DEF ProfileOnStart
<1>4. ASSUME board # "stm32f302", calc \in Slots
      PROVE  \A k \in 1 .. filled : Fields[k] \in prof'[calc]
  BY <1>1, <1>2, <1>4, QueueSizeAssumption DEF Profiles, Slots, Nobody
<1> QED BY <1>1, <1>3, <1>4 DEF Profiles

LEMMA ProfilesKept ==
    ASSUME Types, Schedule, Profiles, HandoffNext
    PROVE  Profiles'
<1>0. prof \in [Slots -> SUBSET Whole] /\ calc \in Slots \cup {Nobody} /\ HandlerTypes
      /\ Nobody \notin Slots
  BY QueueSizeAssumption DEF Types, Rest, HandlerTypes, Nobody, Slots
<1>1. CASE UNCHANGED <<prof, filled, calc, board>>
  BY <1>1 DEF Profiles
<1>2. CASE \/ \E type \in {"move", "tool"} : AcceptBegin(type)
           \/ AcceptLoad \/ AcceptStore \/ AcceptMark
           \/ OtherCommand \/ NextTurn \/ Report
  <2>1. UNCHANGED <<prof, filled, calc, board>>
    BY <1>2, OtherEffect
       DEF AcceptBegin, AcceptLoad, AcceptStore, AcceptMark, OtherCommand, NextTurn, Report,
           ReportSlot, ReportClear, profVars, schedVars, vars, loopVars, Types
  <2> QED BY <1>1, <2>1
<1>3. CASE AcceptWrite
  <2>1. /\ prof' = [prof EXCEPT ![plan_last] = {}] /\ UNCHANGED <<filled, calc, board>>
        /\ hpc # "idle"
    BY <1>3 DEF AcceptWrite, schedVars, loopVars
  <2> QED BY <1>0, <2>1, HandlerAlone DEF Profiles
<1>4. CASE AcceptEnd
  <2>1. UNCHANGED <<board, calc>>
    BY <1>4 DEF AcceptEnd, loopVars
  <2>2. CASE ProfileOnStart(Pending)
    BY <1>0, <2>1, <2>2, StartKeepsProfiles
  <2>3. CASE UNCHANGED profVars
    BY <1>1, <2>1, <2>3 DEF profVars
  <2> QED BY <1>4, <2>2, <2>3 DEF AcceptEnd
<1>5. CASE Fill
  <2>1. PICK n \in IF filled = 0 THEN {1, Len(Fields)} ELSE {filled + 1} :
            /\ filled' = n
            /\ prof' = [prof EXCEPT ![calc] = @ \cup {Fields[k] : k \in filled + 1 .. n}]
    BY <1>5 DEF Fill
  <2>2. calc \in Slots /\ UNCHANGED <<calc, board>>
    BY <1>0, <1>5 DEF Fill, vars, loopVars, schedVars
  <2>3. /\ \A i \in Slots : i # calc => prof'[i] = prof[i]
        /\ prof'[calc] = prof[calc] \cup {Fields[k] : k \in filled + 1 .. n}
    BY <1>0, <2>1, <2>2
  <2>4. filled \in Nat /\ n \in Nat
    BY DEF HandlerTypes, Types, Fields
  <2>5. ASSUME board # "stm32f302", NEW k \in 1 .. n
        PROVE  Fields[k] \in prof'[calc]
    <3>1. CASE k \in 1 .. filled
      BY <1>0, <2>2, <2>3, <2>5, <3>1 DEF Profiles
    <3>2. CASE k \in filled + 1 .. n
      BY <2>3, <3>2
    <3> QED BY <2>4, <3>1, <3>2
  <2> QED BY <2>1, <2>2, <2>3, <2>5 DEF Profiles
<1>6. CASE Precalc
  <2>1. UNCHANGED <<prof, board>>
    BY <1>6 DEF Precalc, schedVars
  <2>2. CASE PreCalcBegin /\ filled' = 0
    <3>1. calc = Nobody /\ \A k \in 1 .. filled' : FALSE
      BY <2>2 DEF PreCalcBegin
    <3> QED BY <1>0, <2>1, <3>1 DEF Profiles
  <2>3. CASE filled = Len(Fields) /\ PreCalcEnd
    <3>1. calc \in Slots /\ calc' = Nobody /\ filled = 3
      BY <1>0, <2>3 DEF PreCalcEnd, Fields
    <3>2. ASSUME board # "stm32f302"
          PROVE  prof[calc] = Whole
      <4>1. \A k \in 1 .. 3 : Fields[k] \in prof[calc]
        BY <1>0, <3>1, <3>2 DEF Profiles
      <4>2. Fields[1] = "len" /\ Fields[2] = "steps" /\ Fields[3] = "ramps"
        BY DEF Fields
      <4>3. 1 \in 1 .. 3 /\ 2 \in 1 .. 3 /\ 3 \in 1 .. 3
        OBVIOUS
      <4>4. {"len", "steps", "ramps"} \subseteq prof[calc]
        BY <4>1, <4>2, <4>3
      <4> QED BY <1>0, <3>1, <4>4 DEF Whole
    <3> QED BY <2>1, <3>1, <3>2 DEF Profiles
  <2> QED BY <1>6, <2>2, <2>3 DEF Precalc
<1>7. CASE Isr
  <2>1. UNCHANGED <<board, calc>> /\ ProfileOnStart(Pending \ {plan_cur})
    BY <1>7, TickEffect DEF Isr, schedVars, loopVars, Types
  <2> QED BY <1>0, <2>1, StartKeepsProfiles
<1> QED BY <1>2, <1>3, <1>4, <1>5, <1>6, <1>7 DEF HandoffNext, Queueing

-----------------------------------------------------------------------------
(* The pieces of a call                                                     *)

\* A tick that leaves a call as it was: it locks between two calls, or ends the
\* current action where the handler has not read active_plan_len.
LEMMA IsrEffect ==
    ASSUME Types, Calls, Isr, Unhit'
    PROVE  /\ UNCHANGED <<schedVars, handlerVars, modeVars, loopVars, sent, told>>
           /\ \/ Halted(plan) /\ hits' = {} /\ hpc = "idle"
              \/ /\ Unhit /\ ~locked /\ active_plan_len > 0
                 /\ hpc \in {"idle", "write", "load"}
                 /\ "ring" \in hits' <=> "ring" \in hits
                 /\ \E k \in 1 .. active_plan_len :
                       /\ Moved(plan, plan_cur, active_plan_len, k)
                       /\ UNCHANGED <<plan_last, plan_len>>
                       /\ k = active_plan_len => going' = FALSE
<1>1. /\ UNCHANGED <<schedVars, handlerVars, modeVars, loopVars, sent, told>>
      /\ going /\ Tick
      /\ Halted(plan) \/ Relabelled
  BY TickEffect DEF Isr, Types
<1>2. Halted(plan) => locked'
  BY DEF Halted, Halt
<1>3. CASE hpc = "idle" /\ ~locked /\ locked'
  <2>1. ~Relabelled
    BY <1>3 DEF Relabelled
  <2>2. hits' = {}
    BY <1>3 DEF Isr
  <2> QED BY <1>1, <1>3, <2>1, <2>2
<1>4. CASE ~(hpc = "idle" /\ ~locked /\ locked')
  <2>1. hits' = hits \cup (IF HitsCall THEN {"call"} ELSE {})
                     \cup (IF Half(Pending \ {plan_cur}) THEN {"profile"} ELSE {})
    BY <1>4 DEF Isr
  <2>2. Unhit /\ ~HitsCall /\ ("ring" \in hits' <=> "ring" \in hits)
    BY <2>1 DEF Unhit
  <2>3. hpc \in {"idle", "write", "load"} /\ (hpc = "idle" \/ ~locked')
    BY <2>2 DEF HitsCall, Types, HandlerTypes
  <2>4. ~locked /\ active_plan_len > 0
    BY <1>1, <2>2, <2>3 DEF Calls, Pieces, WorkConserving, NoMotionWhileLocked
  <2>5. ~Halted(plan)
    BY <1>2, <1>4, <2>3, <2>4
  <2> QED BY <1>1, <2>2, <2>3, <2>4, <2>5, TickMoves DEF Types
<1> QED BY <1>3, <1>4

\* A lock with no call begun sets right whatever was wrong.
LEMMA HaltedPieces ==
    ASSUME Types, sent' = sent, hpc' = "idle", Halted(plan)
    PROVE  Pieces' /\ Unended' /\ locked' = TRUE /\ plan_len' = 0 /\ active_plan_len' = 0
<1>1. /\ Safety' /\ Pending' = {} /\ active_plan_len' = 0 /\ locked' = TRUE
      /\ plan_len' = 0
  BY HaltedEffect, MaxNidAssumption DEF Types, Rest
<1>2. Pieces'
  BY <1>1 DEF Safety, Pieces, Reserving
<1>3. Unended'
  BY <1>1, QueueSizeAssumption DEF Unended, Reserving
<1> QED BY <1>1, <1>2, <1>3

\* What the planner keeps from call to call it keeps when the current action
\* ends.
LEMMA MovedPieces ==
    ASSUME Types, Pieces, NEW n \in Nat, NEW k \in 0 .. n, Moved(plan, plan_cur, n, k),
           k = n => going' = FALSE, ~locked
    PROVE  /\ EngineMatchesQueue' /\ WorkConserving' /\ NoMotionWhileLocked'
           /\ At(plan_cur', active_plan_len') = At(plan_cur, n)
           /\ locked' = FALSE
<1>1. /\ plan_cur' \in Slots /\ active_plan_len' \in Nat
      /\ At(plan_cur', active_plan_len') = At(plan_cur, n)
  BY MovedWindow DEF Types, RingTypes
<1>2. locked' = FALSE
  BY DEF Moved, Types, RingTypes
<1>3. CASE k = n
  BY <1>1, <1>2, <1>3 DEF Moved, EngineMatchesQueue, WorkConserving, NoMotionWhileLocked
<1>4. CASE k < n
  <2>1. going' = TRUE /\ engine' = plan_cur' /\ active_plan_len' > 0
    BY <1>4 DEF Moved
  <2> QED BY <1>1, <1>2, <2>1 DEF EngineMatchesQueue, WorkConserving, NoMotionWhileLocked
<1>5. k = n \/ k < n
  OBVIOUS
<1> QED BY <1>1, <1>2, <1>3, <1>4, <1>5

\* Steps that move none of the counters, and begin or end no call.
LEMMA CallsUndisturbed ==
    ASSUME Calls, hits' = hits, UNCHANGED <<plan_cur, plan_last, active_plan_len, engineVars, locked>>,
           UNCHANGED handlerVars
    PROVE  Calls'
  BY DEF Calls, Pieces, Unhit, handlerVars, engineVars, Reserving, EngineMatchesQueue, RingWindow,
         WorkConserving, NoMotionWhileLocked

LEMMA CallsKept ==
    ASSUME Types, Calls, HandoffNext
    PROVE  Calls'
<1>0. /\ plan_cur \in Slots /\ plan_cur \in Int /\ active_plan_len \in Nat
      /\ locked \in BOOLEAN /\ going \in BOOLEAN
  BY QueueSizeAssumption DEF Types, RingTypes, Slots
<1>1. ASSUME NEW type \in {"move", "tool"}, AcceptBegin(type) PROVE Calls'
  <2>1. /\ hits' = hits /\ UNCHANGED <<plan_cur, plan_last, active_plan_len, engineVars, locked>>
        /\ hpc = "idle" /\ hpc' = "write" /\ ~locked
    BY <1>1 DEF AcceptBegin, MayHandle, vars, ringVars
  <2> QED BY <2>1 DEF Calls, Pieces, Unhit, engineVars, Reserving, EngineMatchesQueue, RingWindow,
                      WorkConserving, NoMotionWhileLocked
<1>2. CASE AcceptWrite
  <2> SUFFICES ASSUME Unhit' PROVE Pieces'
    BY DEF Calls
  <2>1. /\ UNCHANGED <<plan_cur, active_plan_len, engineVars, locked>>
        /\ hpc = "write" /\ hpc' = "load" /\ cur' = plan_last /\ plan_last' = At(plan_last, 1)
        /\ Unhit
    BY <1>2 DEF AcceptWrite, Unhit
  <2>2. /\ EngineMatchesQueue /\ ~locked /\ RingWindow /\ WorkConserving /\ NoMotionWhileLocked
    BY <2>1 DEF Calls, Pieces
  <2>3. EngineMatchesQueue' /\ WorkConserving' /\ NoMotionWhileLocked'
    BY <2>1, <2>2 DEF engineVars, EngineMatchesQueue, WorkConserving, NoMotionWhileLocked
  <2>4. cur' = At(plan_cur', active_plan_len') /\ plan_last' = At(cur', 1)
    BY <2>1, <2>2 DEF RingWindow
  <2> QED BY <2>1, <2>2, <2>3, <2>4 DEF Pieces, Reserving
<1>3. CASE AcceptLoad
  <2>1. /\ UNCHANGED <<plan_cur, plan_last, active_plan_len, engineVars, locked, cur, hits>>
        /\ hpc = "load" /\ hpc' = "store" /\ loaded' = active_plan_len
    BY <1>3 DEF AcceptLoad, vars, ringVars
  <2> QED BY <2>1 DEF Calls, Pieces, Unhit, engineVars, Reserving, EngineMatchesQueue, RingWindow,
                      WorkConserving, NoMotionWhileLocked
<1>4. CASE AcceptStore
  <2> SUFFICES ASSUME Unhit' PROVE Pieces'
    BY DEF Calls
  <2>1. /\ UNCHANGED <<plan_cur, plan_last, engineVars, locked, cur>>
        /\ hpc = "store" /\ hpc' = "mark" /\ active_plan_len' = loaded + 1 /\ Unhit
    BY <1>4 DEF AcceptStore, Unhit
  <2>2. /\ EngineMatchesQueue /\ ~locked /\ WorkConserving /\ loaded = active_plan_len
        /\ cur = At(plan_cur, active_plan_len) /\ plan_last = At(cur, 1)
    BY <2>1 DEF Calls, Pieces, Reserving
  <2>3. plan_last = At(plan_cur, active_plan_len + 1)
    BY <1>0, <2>2, AtAt
  <2>4. RingWindow' /\ EngineMatchesQueue'
    BY <2>1, <2>2, <2>3 DEF RingWindow, EngineMatchesQueue, engineVars
  <2>5. active_plan_len' > 0 /\ (going' <=> active_plan_len' > 1)
    BY <1>0, <2>1, <2>2 DEF WorkConserving, engineVars
  <2> QED BY <2>1, <2>2, <2>4, <2>5 DEF Pieces, Reserving
<1>5. CASE AcceptMark
  <2>1. /\ UNCHANGED <<plan_cur, plan_last, active_plan_len, engineVars, locked, hits>>
        /\ hpc = "mark" /\ hpc' = "test"
    BY <1>5 DEF AcceptMark
  <2> QED BY <2>1 DEF Calls, Pieces, Unhit, engineVars, Reserving, EngineMatchesQueue, RingWindow
<1>6. CASE AcceptEnd
  <2> SUFFICES ASSUME Unhit' PROVE Pieces'
    BY DEF Calls
  <2>1. hpc = "test" /\ hpc' = "idle" /\ sent' = sent /\ Unhit
    BY <1>6 DEF AcceptEnd, Unhit
  <2>2. /\ EngineMatchesQueue /\ ~locked /\ RingWindow
        /\ active_plan_len > 0 /\ (going <=> active_plan_len > 1) /\ Pieces
    BY <2>1 DEF Calls, Pieces
  <2>3. CASE Halted(plan)
    BY <2>1, <2>3, HaltedPieces
  <2>4. ASSUME active_plan_len = 1, NEW k \in 0 .. 1, Moved(plan, plan_cur, 1, k),
               UNCHANGED <<plan_last, plan_len>>, k = 1 => (going' => going)
        PROVE  Pieces'
    <3>1. k = 1 => going' = FALSE
      BY <2>2, <2>4 DEF Moved
    <3>2. /\ EngineMatchesQueue' /\ WorkConserving' /\ NoMotionWhileLocked'
          /\ At(plan_cur', active_plan_len') = At(plan_cur, 1)
      BY <2>2, <2>4, <3>1, MovedPieces
    <3>3. RingWindow'
      BY <2>2, <2>4, <3>2 DEF RingWindow
    <3> QED BY <2>1, <3>2, <3>3 DEF Pieces, Reserving
  <2>5. CASE active_plan_len # 1 /\ UNCHANGED <<ringVars, engineVars, locked, barrier>>
    <3>1. active_plan_len > 1 /\ going
      BY <1>0, <2>2, <2>5
    <3>2. /\ RingWindow' /\ EngineMatchesQueue' /\ WorkConserving' /\ NoMotionWhileLocked'
      BY <2>2, <2>5, <3>1
         DEF ringVars, engineVars, RingWindow, EngineMatchesQueue, WorkConserving, NoMotionWhileLocked
    <3> QED BY <2>1, <3>2 DEF Pieces, Reserving
  <2> QED BY <1>6, <2>3, <2>4, <2>5, EndEffect DEF Types
<1>7. CASE OtherCommand
  <2>1. hpc = "idle" /\ UNCHANGED handlerVars /\ UNCHANGED <<sent, loopVars, told>>
    BY <1>7, OtherEffect DEF OtherCommand, MayHandle, Types
  <2>2. CASE Halted(plan)
    BY <2>1, <2>2, HaltedPieces DEF Calls, handlerVars
  <2>3. CASE UNCHANGED <<ringVars, engineVars, barrier, hits>> /\ locked' \in {locked, FALSE}
    BY <2>1, <2>3 DEF Calls, Pieces, Unhit, handlerVars, ringVars, engineVars, Reserving,
                      EngineMatchesQueue, RingWindow, WorkConserving, NoMotionWhileLocked
  <2> QED BY <1>7, <2>2, <2>3, OtherEffect DEF Types
<1>8. CASE NextTurn \/ Fill
  <2>1. /\ UNCHANGED <<plan_cur, plan_last, active_plan_len, engineVars, locked, hits>>
        /\ UNCHANGED handlerVars
    BY <1>8 DEF NextTurn, Fill, vars, ringVars
  <2> QED BY <2>1, CallsUndisturbed
<1>9. CASE Precalc
  BY <1>9, PrecalcEffect, CallsUndisturbed DEF Precalc, Types
<1>10. CASE Report
  BY <1>10, ReportEffect, CallsUndisturbed DEF Report, Types
<1>11. CASE Isr
  <2> SUFFICES ASSUME Unhit' PROVE Pieces'
    BY DEF Calls
  <2>1. UNCHANGED handlerVars /\ sent' = sent
    BY <1>11, IsrEffect
  <2>2. CASE Halted(plan) /\ hpc = "idle"
    BY <2>1, <2>2, HaltedPieces DEF handlerVars
  <2>3. ASSUME Unhit, ~locked, active_plan_len > 0, hpc \in {"idle", "write", "load"},
               NEW k \in 1 .. active_plan_len, Moved(plan, plan_cur, active_plan_len, k),
               UNCHANGED <<plan_last, plan_len>>, k = active_plan_len => going' = FALSE
        PROVE  Pieces'
    <3>1. Pieces /\ k \in 0 .. active_plan_len
      BY <1>0, <2>3 DEF Calls
    <3>2. /\ EngineMatchesQueue' /\ WorkConserving' /\ NoMotionWhileLocked'
          /\ At(plan_cur', active_plan_len') = At(plan_cur, active_plan_len)
          /\ locked' = FALSE
      BY <1>0, <2>3, <3>1, MovedPieces
    <3>3. hpc \in {"idle", "write"} => RingWindow'
      BY <2>3, <3>1, <3>2 DEF Pieces, RingWindow
    <3>4. hpc = "load" => cur' = At(plan_cur', active_plan_len') /\ plan_last' = At(cur', 1)
      BY <2>1, <2>3, <3>1, <3>2 DEF Pieces, Reserving, handlerVars
    <3> QED BY <2>1, <2>3, <3>2, <3>3, <3>4 DEF Pieces, Reserving, handlerVars
  <2> QED BY <1>11, <2>2, <2>3, IsrEffect
<1> QED BY <1>1, <1>2, <1>3, <1>4, <1>5, <1>6, <1>7, <1>8, <1>9, <1>10, <1>11
        DEF HandoffNext, Queueing

-----------------------------------------------------------------------------
(* Ends                                                                     *)

\* A full ring has no slot but takes for one the one it executes.
LEMMA FullRing ==
    ASSUME plan_cur \in Slots, active_plan_len = QUEUE_SIZE
    PROVE  At(plan_cur, active_plan_len) \in Pending
<1>1. At(plan_cur, QUEUE_SIZE) = At(plan_cur, 0)
  <2>1. plan_cur \in Int /\ QUEUE_SIZE \in Nat \ {0} /\ plan_cur \in 0 .. QUEUE_SIZE - 1
    BY QueueSizeAssumption DEF Slots
  <2>2. (plan_cur + QUEUE_SIZE) % QUEUE_SIZE = plan_cur
    <3> DEFINE r == (plan_cur + QUEUE_SIZE) % QUEUE_SIZE
               v == (plan_cur + QUEUE_SIZE) \div QUEUE_SIZE
    <3>1. r \in 0 .. QUEUE_SIZE - 1 /\ v \in Int /\ plan_cur + QUEUE_SIZE = QUEUE_SIZE * v + r
      <4>1. plan_cur + QUEUE_SIZE \in Int
        BY <2>1
      <4> QED BY <2>1, <4>1, ModRange
    <3>2. QUEUE_SIZE * 1 + plan_cur = QUEUE_SIZE * v + r
      BY <2>1, <3>1
    <3> HIDE DEF r, v
    <3>3. plan_cur = r
      BY <2>1, <3>1, <3>2, ModUnique
    <3> QED BY <3>3 DEF r
  <2>3. At(plan_cur, 0) = plan_cur
    BY AtZero
  <2> QED BY <2>2, <2>3 DEF At
<1>2. 0 \in 0 .. active_plan_len - 1
  BY QueueSizeAssumption
<1> QED BY <1>1, <1>2 DEF Pending, Window

\* Steps that end no slot and put none among those to execute.
LEMMA FatesUndisturbed ==
    ASSUME Types, Fates, hits' = hits, board' = board, UNCHANGED <<plan_cur, active_plan_len, told, cur>>,
           Reserving' = Reserving, hpc = "mark" <=> hpc' = "mark",
           \A i \in Slots : /\ plan'[i].nid = plan[i].nid
                            /\ plan'[i].state \in {plan[i].state, "prepared"}
    PROVE  Fates'
<1>1. Pending' = Pending /\ Pending \subseteq Slots
  BY WindowType DEF Pending, Types, RingTypes
<1> QED BY <1>1 DEF Fates, Unended, Intact, Unhit

\* The slots that remain of those to execute are as they were.
LEMMA MovedUnended ==
    ASSUME Types, Unended, NEW k \in 0 .. active_plan_len,
           Moved(plan, plan_cur, active_plan_len, k), told' = told, hpc # "mark",
           Reserving' => Reserving
    PROVE  Unended'
<1>1. /\ plan \in [Slots -> Actions] /\ plan_cur \in Slots
      /\ active_plan_len \in 0 .. QUEUE_SIZE
  BY DEF Types, RingTypes, Unended
<1>2. Unreported(plan, Window(plan_cur, active_plan_len))
  BY DEF Unreported, Unended, Pending
<1>3. Unreported(plan, Pending)'
  BY <1>1, <1>2, MovedUnreported
<1>4. active_plan_len' = active_plan_len - k
  BY DEF Moved
<1>5. active_plan_len' <= active_plan_len
  BY <1>1, <1>4
<1>6. active_plan_len' \in Nat
  BY <1>1, <1>4
<1>7. active_plan_len' <= QUEUE_SIZE /\ (Reserving' => active_plan_len' < QUEUE_SIZE)
  BY <1>1, <1>5, <1>6, QueueSizeAssumption DEF Unended
<1> QED BY <1>3, <1>7 DEF Unreported, Unended

LEMMA FatesKept ==
    ASSUME Types, Schedule, Names, Calls, Fates, HandoffNext
    PROVE  Fates'
<1>0. /\ plan \in [Slots -> Actions] /\ plan_cur \in Slots /\ active_plan_len \in Nat
      /\ plan_last \in Slots /\ cur \in Slots /\ sent \in Nat
      /\ Pending \subseteq Slots
  BY WindowType, MaxNidAssumption DEF Types, RingTypes, Rest, HandlerTypes, Pending
<1>1. ASSUME NEW type \in {"move", "tool"}, AcceptBegin(type) PROVE Fates'
  <2>1. /\ UNCHANGED <<plan, plan_cur, active_plan_len, told, cur, hits, board>>
        /\ hpc = "idle" /\ hpc' = "write"
    BY <1>1 DEF AcceptBegin, MayHandle, vars, ringVars
  <2> QED BY <2>1, FatesUndisturbed DEF Reserving
<1>2. CASE AcceptWrite
  <2> SUFFICES ASSUME Intact', board' # "emulation" PROVE Unended'
    BY DEF Fates
  <2>1. /\ UNCHANGED <<plan_cur, active_plan_len, told, board>> /\ hpc = "write" /\ hpc' = "load"
        /\ plan' = [plan EXCEPT ![plan_last].nid = sent + 1, ![plan_last].type = htype]
        /\ hits' = hits \cup (IF plan_last \in Pending THEN {"ring"} ELSE {})
    BY <1>2 DEF AcceptWrite, schedVars
  <2>2. Intact /\ plan_last \notin Pending
    BY <2>1 DEF Intact, Unhit
  <2>3. plan_last = At(plan_cur, active_plan_len)
    BY <2>1, <2>2 DEF Calls, Pieces, Intact, RingWindow
  <2>4. active_plan_len <= QUEUE_SIZE /\ \A i \in Pending : /\ plan[i].state \notin {"finished", "failed"}
                                                            /\ plan[i].nid \notin told \ {0}
    BY <2>1, <2>2 DEF Fates, Unended
  <2>5. active_plan_len < QUEUE_SIZE
    BY <1>0, <2>2, <2>3, <2>4, FullRing, QueueSizeAssumption
  <2>6. Pending' = Pending
    BY <2>1 DEF Pending
  <2>7. \A i \in Pending : plan'[i] = plan[i]
    BY <1>0, <2>1, <2>2
  <2> QED BY <2>1, <2>4, <2>5, <2>6, <2>7 DEF Unended
<1>3. CASE AcceptLoad
  <2>1. /\ UNCHANGED <<plan, plan_cur, active_plan_len, told, cur, hits, board>>
        /\ hpc = "load" /\ hpc' = "store"
    BY <1>3 DEF AcceptLoad, vars, ringVars, schedVars
  <2> QED BY <2>1, FatesUndisturbed DEF Reserving
<1>4. CASE AcceptStore
  <2> SUFFICES ASSUME Intact', board' # "emulation" PROVE Unended'
    BY DEF Fates
  <2>1. /\ UNCHANGED <<plan, plan_cur, told, board, cur, hits>> /\ hpc = "store" /\ hpc' = "mark"
        /\ active_plan_len' = loaded + 1
    BY <1>4 DEF AcceptStore, schedVars
  <2>2. Intact /\ board # "emulation"
    BY <2>1 DEF Intact, Unhit
  <2>3. /\ active_plan_len < QUEUE_SIZE
        /\ \A i \in Pending : /\ plan[i].state \notin {"finished", "failed"}
                              /\ plan[i].nid \notin told \ {0}
    BY <2>1, <2>2 DEF Fates, Unended, Reserving
  <2>4. loaded = active_plan_len /\ cur = At(plan_cur, active_plan_len)
    BY <2>1, <2>2 DEF Calls, Pieces, Reserving, Intact
  <2>5. Pending' = Pending \cup {cur}
    BY <1>0, <2>1, <2>4, WindowExtend DEF Pending
  <2>6. plan[cur].nid \notin told
    BY <2>1, <2>2 DEF Names, Reserving
  <2>7. active_plan_len' <= QUEUE_SIZE
    BY <1>0, <2>1, <2>3, <2>4, QueueSizeAssumption
  <2> QED BY <2>1, <2>3, <2>5, <2>6, <2>7 DEF Unended, Reserving
<1>5. CASE AcceptMark
  <2> SUFFICES ASSUME Intact', board' # "emulation" PROVE Unended'
    BY DEF Fates
  <2>1. /\ UNCHANGED <<plan_cur, active_plan_len, told, board, cur, hits>> /\ hpc = "mark" /\ hpc' = "test"
        /\ plan' = [plan EXCEPT ![cur].state = "queued", ![cur].changed = FALSE]
    BY <1>5 DEF AcceptMark, schedVars
  <2>2. Unended
    BY <2>1 DEF Fates, Intact, Unhit
  <2>3. Pending' = Pending
    BY <2>1 DEF Pending
  <2>4. /\ plan'[cur].state = "queued"
        /\ \A i \in Slots : plan'[i].nid = plan[i].nid /\ (i # cur => plan'[i] = plan[i])
    BY <1>0, <2>1 DEF Actions
  <2> QED BY <1>0, <2>1, <2>2, <2>3, <2>4 DEF Unended, Reserving
<1>6. CASE AcceptEnd
  <2> SUFFICES ASSUME Intact', board' # "emulation" PROVE Unended'
    BY DEF Fates
  <2>1. /\ hpc = "test" /\ hpc' = "idle" /\ UNCHANGED <<board, sent, told>>
        /\ Intact
    BY <1>6 DEF AcceptEnd, Intact, Unhit
  <2>2. Unended
    BY <2>1 DEF Fates
  <2>3. CASE Halted(plan)
    BY <2>1, <2>3, HaltedPieces
  <2>4. ASSUME active_plan_len = 1, NEW k \in 0 .. 1, Moved(plan, plan_cur, 1, k)
        PROVE  Unended'
    BY <2>1, <2>2, <2>4, MovedUnended DEF Reserving
  <2>5. CASE UNCHANGED <<ringVars, engineVars, locked, barrier>>
    <3>1. Pending' = Pending /\ plan' = plan /\ active_plan_len' = active_plan_len
      BY <2>5 DEF ringVars, Pending
    <3> QED BY <2>1, <2>2, <3>1 DEF Unended, Reserving
  <2> QED BY <1>6, <2>3, <2>4, <2>5, EndEffect DEF Types
<1>7. CASE OtherCommand
  <2>1. hpc = "idle" /\ UNCHANGED <<handlerVars, board, sent, loopVars, told>>
    BY <1>7, OtherEffect DEF OtherCommand, MayHandle, Types
  <2>2. CASE Halted(plan)
    BY <2>1, <2>2, HaltedPieces DEF Fates, handlerVars
  <2>3. CASE UNCHANGED <<ringVars, engineVars, barrier, hits>>
    BY <2>1, <2>3, FatesUndisturbed DEF handlerVars, ringVars, Reserving
  <2> QED BY <1>7, <2>2, <2>3, OtherEffect DEF Types
<1>8. CASE NextTurn \/ Fill
  <2>1. /\ UNCHANGED <<plan, plan_cur, active_plan_len, told, board, hits>>
        /\ UNCHANGED handlerVars
    BY <1>8 DEF NextTurn, Fill, vars, ringVars, schedVars
  <2> QED BY <2>1, FatesUndisturbed DEF handlerVars, Reserving
<1>9. CASE Precalc
  <2>1. UNCHANGED <<handlerVars, hits, board>>
    BY <1>9 DEF Precalc, schedVars
  <2> QED BY <1>9, <2>1, PrecalcEffect, FatesUndisturbed DEF handlerVars, Reserving, Types
<1>10. CASE Report
  <2> SUFFICES ASSUME Intact', board' # "emulation" PROVE Unended'
    BY DEF Fates
  <2>1. UNCHANGED <<handlerVars, hits, board>>
    BY <1>10 DEF Report, schedVars
  <2>2. scan \in Slots /\ UNCHANGED <<plan_cur, active_plan_len>>
    BY <1>10, ReportEffect DEF Types
  <2>3. hpc = "idle"
    <3>1. scan # Nobody /\ board # "emulation"
      BY <2>1, <2>2, QueueSizeAssumption DEF Nobody, Slots, schedVars
    <3> QED BY <3>1, HandlerAlone
  <2>4. Unended
    BY <2>1 DEF Fates, Intact, Unhit
  <2>5. Pending' = Pending /\ Unreported(plan, Pending)
    BY <2>2, <2>3, <2>4 DEF Pending, Unended, Unreported
  <2>6. \A i \in Pending : /\ plan'[i].state \notin {"finished", "failed"}
                           /\ plan'[i].nid \notin told' \ {0}
    <3>1. CASE UNCHANGED <<ringVars, told>>
      BY <2>5, <3>1 DEF ringVars, Unreported
    <3>2. CASE /\ PopCmd
               /\ plan[scan].state \in {"finished", "failed"}
               /\ told' = told \cup {plan[scan].nid}
      <4>1. Numbered(plan, Newest) /\ plan_first \in Slots
        BY DEF Names, Types, RingTypes
      <4> QED BY <1>0, <2>2, <2>5, <3>2, <4>1, PopUnreported
    <3>3. CASE plan' = [plan EXCEPT ![scan].changed = FALSE] /\ told' = told
      BY <1>0, <2>2, <2>5, <3>3 DEF Unreported, Actions
    <3> QED BY <1>10, <3>1, <3>2, <3>3, ReportEffect DEF Types
  <2> QED BY <2>1, <2>2, <2>3, <2>4, <2>5, <2>6 DEF Unended, Reserving, handlerVars
<1>11. CASE Isr
  <2> SUFFICES ASSUME Intact', board' # "emulation" PROVE Unended'
    BY DEF Fates
  <2>1. Unhit' /\ "ring" \notin hits'
    BY DEF Intact
  <2>2. UNCHANGED <<handlerVars, board, sent, told>>
    BY <1>11, <2>1, IsrEffect DEF schedVars
  <2>3. CASE Halted(plan) /\ hpc = "idle"
    BY <2>2, <2>3, HaltedPieces DEF handlerVars
  <2>4. ASSUME Unhit, hpc \in {"idle", "write", "load"}, "ring" \in hits' <=> "ring" \in hits,
               NEW k \in 1 .. active_plan_len, Moved(plan, plan_cur, active_plan_len, k)
        PROVE  Unended'
    <3>1. Unended
      BY <2>1, <2>2, <2>4 DEF Fates, Intact
    <3>2. k \in 0 .. active_plan_len /\ (Reserving' => Reserving)
      BY <1>0, <2>2 DEF handlerVars, Reserving
    <3> QED BY <2>2, <2>4, <3>1, <3>2, MovedUnended
  <2> QED BY <1>11, <2>1, <2>3, <2>4, IsrEffect
<1> QED BY <1>1, <1>2, <1>3, <1>4, <1>5, <1>6, <1>7, <1>8, <1>9, <1>10, <1>11
        DEF HandoffNext, Queueing

-----------------------------------------------------------------------------
(* Places                                                                   *)

\* The counters are numbers, and so are the ends.
LEMMA RoomFacts ==
    ASSUME Types
    PROVE  /\ plan_len \in Nat /\ active_plan_len \in Nat /\ Reserved \in Nat
           /\ Done \in SUBSET Slots /\ Cardinality(Done) \in Nat
           /\ Nobody \notin Slots /\ Slots \in SUBSET Nat
           /\ clearing => scan \in Slots
<1>1. Done \in SUBSET Slots
  BY DEF Done, Finals
<1>2. Cardinality(Done) \in Nat
  BY <1>1, SlotsFinite
<1>3. plan_len \in Nat /\ active_plan_len \in Nat /\ (clearing => scan \in Slots)
  BY DEF Types, RingTypes, Rest, Slots
<1>4. Nobody \notin Slots /\ Slots \in SUBSET Nat
  BY QueueSizeAssumption DEF Nobody, Slots
<1>5. Reserved \in Nat
  BY DEF Reserved
<1> QED BY <1>1, <1>2, <1>3, <1>4, <1>5

\* No more ends than before.
LEMMA CountingFewer ==
    ASSUME Types, Types', Counting(Reserved + Cardinality(Done)), Done' \subseteq Done,
           UNCHANGED <<active_plan_len, plan_len>>, Reserved' = Reserved
    PROVE  Counting(Reserved + Cardinality(Done))'
<1>1. /\ plan_len \in Nat /\ active_plan_len \in Nat /\ Reserved \in Nat
      /\ Cardinality(Done) \in Nat /\ Done \in SUBSET Slots
  BY RoomFacts
<1>2. Cardinality(Done') \in Nat
  <2>1. Done' \in SUBSET Slots
    BY DEF Done, Finals
  <2> QED BY <2>1, SlotsFinite
<1>3. Cardinality(Done') <= Cardinality(Done)
  BY <1>1, SlotsFinite, FS_Subset
<1>4. active_plan_len + (Reserved + Cardinality(Done)) <= plan_len
  BY DEF Counting
<1>5. active_plan_len + (Reserved + Cardinality(Done')) <= plan_len
  BY <1>1, <1>2, <1>3, <1>4
<1> QED BY <1>5 DEF Counting

\* Steps that count nothing else and end nothing.
LEMMA RoomUndisturbed ==
    ASSUME Types, Types', Room, hits' = hits, UNCHANGED <<board, active_plan_len, plan_len>>,
           locked' = locked, Reserved' = Reserved, Done' \subseteq Done,
           Leftover => Leftover'
    PROVE  Room'
<1> SUFFICES ASSUME ~Threaded', Unhit' PROVE "ring" \notin hits' /\ (locked' => plan_len' = 0) /\ Counted'
  BY DEF Room
<1>1. "ring" \notin hits /\ (locked => plan_len = 0) /\ Counted
  BY DEF Room, Threaded, Unhit
<1>2. Counting(Reserved + Cardinality(Done)) => Counting(Reserved + Cardinality(Done))'
  BY CountingFewer
<1>3. Counting(Reserved) => Counting(Reserved)'
  BY DEF Counting
<1> QED BY <1>1, <1>2, <1>3 DEF Counted

\* A lock.
LEMMA HaltedRoom ==
    ASSUME Types, sent' = sent, hpc' = "idle", Halted(plan), "ring" \notin hits'
    PROVE  Room'
<1>1. locked' = TRUE /\ plan_len' = 0 /\ active_plan_len' = 0
  BY HaltedPieces
<1>2. Reserved' = 0
  BY DEF Reserved, Reserving
<1> QED BY <1>1, <1>2 DEF Room, Counted, Counting

\* k of the slots to execute are over: there are k ends more at most.
LEMMA MovedRoom ==
    ASSUME Types, Types', "ring" \notin hits', ~locked, Counted, ~Leftover,
           NEW k \in 0 .. active_plan_len, Moved(plan, plan_cur, active_plan_len, k),
           plan_len' = plan_len, UNCHANGED <<board, scan, clearing>>,
           Reserved' = Reserved
    PROVE  Room'
<1>1. /\ plan_len \in Nat /\ active_plan_len \in Nat /\ Reserved \in Nat
      /\ Cardinality(Done) \in Nat /\ Done \in SUBSET Slots
  BY RoomFacts
<1>2. /\ active_plan_len' = active_plan_len - k /\ locked' = locked /\ k \in Nat
  BY <1>1 DEF Moved
<1>3. Counting(Reserved) => Counting(Reserved)'
  BY <1>1, <1>2 DEF Counting
<1>4. Counting(Reserved + Cardinality(Done)) => Counting(Reserved + Cardinality(Done))'
  <2>1. plan \in [Slots -> Actions] /\ plan_cur \in Slots
    BY DEF Types, RingTypes
  <2>2. Finals(plan') \subseteq Finals(plan) \cup Window(plan_cur, k)
    BY <2>1, MovedFinals
  <2>3. Done' \subseteq Done \cup Window(plan_cur, k)
    BY <2>2 DEF Done
  <2>4. Done' \in SUBSET Slots
    BY DEF Done, Finals
  <2>5. Cardinality(Done') \in Nat /\ Cardinality(Done') <= Cardinality(Done) + k
    BY <1>1, <1>2, <2>1, <2>3, <2>4, CountBound, SlotsFinite
  <2> QED BY <1>1, <1>2, <2>5 DEF Counting
<1> QED BY <1>2, <1>3, <1>4 DEF Room, Counted

\* The next command does not go to a slot to execute.
LEMMA WritesToFree ==
    ASSUME Types, Calls, Room, Unhit, ~Threaded, hpc = "write"
    PROVE  plan_last \notin Pending /\ Counted /\ ~locked /\ ~Leftover
<1>1. /\ plan_last = At(plan_cur, active_plan_len) /\ ~locked /\ Counted /\ ~Leftover
  BY DEF Calls, Pieces, RingWindow, Room, Leftover
<1>2. active_plan_len <= plan_len
  BY <1>1, RoomFacts DEF Counted, Counting
<1>3. active_plan_len \in Slots /\ plan_cur \in Slots
  BY <1>2, QueueSizeAssumption DEF Types, RingTypes, Slots
<1>4. ASSUME NEW k \in 0 .. active_plan_len - 1, plan_last = At(plan_cur, k)
      PROVE  FALSE
  <2>1. k \in Slots /\ k # active_plan_len
    BY <1>3, QueueSizeAssumption DEF Slots
  <2> QED BY <1>1, <1>3, <1>4, <2>1, AtInjective
<1> QED BY <1>1, <1>4 DEF Pending, Window

LEMMA RoomKept ==
    ASSUME Types, Types', Schedule, Calls, Room, HandoffNext
    PROVE  Room'
<1>0. /\ plan \in [Slots -> Actions] /\ cur \in Slots /\ plan_last \in Slots
      /\ plan_len \in Nat /\ active_plan_len \in Nat /\ Reserved \in Nat
      /\ Done \in SUBSET Slots /\ Cardinality(Done) \in Nat
      /\ plan' \in [Slots -> Actions] /\ locked \in BOOLEAN
  BY RoomFacts DEF Types, RingTypes, HandlerTypes
<1>1. ASSUME NEW type \in {"move", "tool"}, AcceptBegin(type) PROVE Room'
  <2> SUFFICES ASSUME ~Threaded' PROVE Room'
    BY DEF Room
  <2>1. /\ UNCHANGED <<plan, scan, clearing, hits, board, active_plan_len, plan_len, locked>>
        /\ hpc = "idle" /\ hpc' = "write"
        /\ (IF Threaded THEN mutex = "free" ELSE turn = "command")
    BY <1>1 DEF AcceptBegin, MayHandle, vars, ringVars, loopVars
  <2>2. ~Leftover /\ Reserved' = Reserved /\ Done' = Done
    BY <2>1 DEF Leftover, Threaded, Reserved, Reserving, Done
  <2> QED BY <2>1, <2>2, RoomUndisturbed
<1>2. CASE AcceptWrite
  <2> SUFFICES ASSUME ~Threaded', Unhit' PROVE Room'
    BY DEF Room
  <2>1. /\ UNCHANGED <<scan, clearing, board, active_plan_len, locked>>
        /\ hpc = "write" /\ hpc' = "load" /\ plan_len' = plan_len + 1
        /\ plan' = [plan EXCEPT ![plan_last].nid = sent + 1, ![plan_last].type = htype]
        /\ hits' = hits \cup (IF plan_last \in Pending THEN {"ring"} ELSE {})
    BY <1>2 DEF AcceptWrite, schedVars, loopVars
  <2>2. Unhit /\ ~Threaded
    BY <2>1 DEF Unhit, Threaded
  <2>3. plan_last \notin Pending /\ Counted /\ ~locked /\ ~Leftover /\ "ring" \notin hits
    BY <2>1, <2>2, WritesToFree DEF Room
  <2>4. "ring" \notin hits'
    BY <2>1, <2>3
  <2>5. \A i \in Slots : plan'[i].state = plan[i].state /\ plan'[i].changed = plan[i].changed
    BY <1>0, <2>1 DEF Actions
  <2>6. Done' = Done
    BY <2>1, <2>5 DEF Done, Finals
  <2>7. Reserved = 0 /\ Reserved' = 1
    BY <2>1 DEF Reserved, Reserving
  <2>8. Counting(Reserved + Cardinality(Done)) => Counting(Reserved + Cardinality(Done))'
    BY <1>0, <2>1, <2>6, <2>7 DEF Counting
  <2>9. Counting(Reserved) => Counting(Reserved)'
    BY <1>0, <2>1, <2>7 DEF Counting
  <2> QED BY <2>1, <2>3, <2>4, <2>8, <2>9 DEF Room, Counted
<1>3. CASE AcceptLoad
  <2>1. /\ UNCHANGED <<plan, scan, clearing, hits, board, active_plan_len, plan_len, locked>>
        /\ hpc = "load" /\ hpc' = "store"
    BY <1>3 DEF AcceptLoad, vars, ringVars, schedVars, loopVars
  <2>2. ~Leftover /\ Reserved' = Reserved /\ Done' = Done
    BY <2>1 DEF Leftover, Reserved, Reserving, Done
  <2> QED BY <2>1, <2>2, RoomUndisturbed
<1>4. CASE AcceptStore
  <2> SUFFICES ASSUME ~Threaded', Unhit' PROVE Room'
    BY DEF Room
  <2>1. /\ UNCHANGED <<plan, scan, clearing, hits, board, plan_len, locked>>
        /\ hpc = "store" /\ hpc' = "mark" /\ active_plan_len' = loaded + 1
    BY <1>4 DEF AcceptStore, schedVars, loopVars
  <2>2. Unhit /\ ~Threaded
    BY <2>1 DEF Unhit, Threaded
  <2>3. loaded = active_plan_len /\ ~locked /\ ~Leftover /\ Counted /\ "ring" \notin hits
    BY <2>1, <2>2 DEF Calls, Pieces, Leftover, Room
  <2>4. Reserved = 1 /\ Reserved' = 0 /\ Done' = Done
    BY <2>1 DEF Reserved, Reserving, Done
  <2>5. Counting(Reserved + Cardinality(Done)) => Counting(Reserved + Cardinality(Done))'
    BY <1>0, <2>1, <2>3, <2>4 DEF Counting
  <2>6. Counting(Reserved) => Counting(Reserved)'
    BY <1>0, <2>1, <2>3, <2>4 DEF Counting
  <2> QED BY <2>1, <2>3, <2>5, <2>6 DEF Room, Counted
<1>5. CASE AcceptMark
  <2>1. /\ UNCHANGED <<scan, clearing, hits, board, active_plan_len, plan_len, locked>>
        /\ hpc = "mark" /\ hpc' = "test"
        /\ plan' = [plan EXCEPT ![cur].state = "queued", ![cur].changed = FALSE]
    BY <1>5 DEF AcceptMark, schedVars, loopVars
  <2>2. ~Leftover /\ Reserved' = Reserved
    BY <2>1 DEF Leftover, Reserved, Reserving
  <2>3. plan'[cur].state = "queued" /\ \A i \in Slots : i # cur => plan'[i] = plan[i]
    BY <1>0, <2>1 DEF Actions
  <2>4. Done' \subseteq Done
    BY <2>1, <2>3 DEF Done, Finals
  <2> QED BY <2>1, <2>2, <2>4, RoomUndisturbed
<1>6. CASE AcceptEnd
  <2> SUFFICES ASSUME ~Threaded', Unhit' PROVE Room'
    BY DEF Room
  <2>1. /\ UNCHANGED <<board, scan, clearing, sent>> /\ hpc = "test" /\ hpc' = "idle"
        /\ "ring" \in hits' <=> "ring" \in hits
        /\ "call" \in hits' <=> "call" \in hits
    BY <1>6 DEF AcceptEnd, loopVars
  <2>2. "ring" \notin hits' /\ Counted /\ ~locked /\ ~Leftover /\ (locked => plan_len = 0)
    BY <2>1 DEF Room, Unhit, Threaded, Calls, Pieces, Leftover
  <2>3. Reserved' = Reserved
    BY <2>1 DEF Reserved, Reserving
  <2>4. CASE Halted(plan)
    BY <2>1, <2>2, <2>4, HaltedRoom
  <2>5. ASSUME active_plan_len = 1, NEW k \in 0 .. 1, Moved(plan, plan_cur, 1, k),
               UNCHANGED <<plan_last, plan_len>>
        PROVE  Room'
    BY <2>1, <2>2, <2>3, <2>5, MovedRoom
  <2>6. CASE UNCHANGED <<ringVars, engineVars, locked, barrier>>
    <3>1. UNCHANGED <<plan, active_plan_len, plan_len, locked>>
      BY <2>6 DEF ringVars
    <3>2. Done' = Done
      BY <2>1, <3>1 DEF Done
    <3>3. Counting(Reserved) => Counting(Reserved)'
      BY <2>3, <3>1 DEF Counting
    <3>4. Counting(Reserved + Cardinality(Done)) => Counting(Reserved + Cardinality(Done))'
      BY <2>3, <3>1, <3>2 DEF Counting
    <3> QED BY <2>1, <2>2, <3>1, <3>3, <3>4 DEF Room, Counted
  <2> QED BY <1>6, <2>4, <2>5, <2>6, EndEffect DEF Types
<1>7. CASE OtherCommand
  <2> SUFFICES ASSUME ~Threaded', Unhit' PROVE Room'
    BY DEF Room
  <2>1. /\ hpc = "idle" /\ UNCHANGED <<handlerVars, board, sent, scan, clearing>>
        /\ (IF Threaded THEN mutex = "free" ELSE turn = "command")
        /\ turn' = IF board = "mega2560" THEN After(board, turn) ELSE turn
    BY <1>7, OtherEffect DEF OtherCommand, MayHandle, Handled, loopVars, Types
  <2>2. CASE Halted(plan) /\ hits' = {}
    BY <2>1, <2>2, HaltedRoom DEF handlerVars
  <2>3. CASE UNCHANGED <<ringVars, engineVars, barrier, hits>> /\ locked' \in {locked, FALSE}
    <3>1. UNCHANGED <<plan, active_plan_len, plan_len, hits>>
      BY <2>3 DEF ringVars
    <3>2. Reserved' = Reserved /\ Done' = Done /\ Reserved = 0
      BY <2>1, <3>1 DEF Reserved, Reserving, Done, handlerVars
    <3>3. /\ "ring" \notin hits' /\ Counted /\ ~Leftover /\ (locked => plan_len = 0)
          /\ (locked => active_plan_len = 0)
      BY <2>1, <3>1 DEF Room, Unhit, Threaded, Calls, Pieces, NoMotionWhileLocked, Leftover
    <3>4. Counting(Reserved) => Counting(Reserved)'
      BY <3>1, <3>2 DEF Counting
    <3>5. Counting(Reserved + Cardinality(Done)) => Counting(Reserved + Cardinality(Done))'
      BY <3>1, <3>2 DEF Counting
    <3>6. CASE board = "mega2560"
      <4>1. turn' = "precalc"
        BY <2>1, <3>6 DEF After, Threaded
      <4>2. locked => Leftover'
        BY <2>1, <3>1, <3>3, <4>1 DEF Leftover, handlerVars
      <4> QED BY <2>1, <2>3, <3>1, <3>3, <3>5, <3>6, <4>2 DEF Room, Counted
    <3>7. CASE board # "mega2560"
      BY <2>1, <2>3, <3>1, <3>3, <3>4, <3>7 DEF Room, Counted
    <3> QED BY <3>6, <3>7
  <2> QED BY <1>7, <2>2, <2>3, OtherEffect DEF Types
<1>8. CASE NextTurn
  <2> SUFFICES ASSUME ~Threaded', Unhit' PROVE Room'
    BY DEF Room
  <2>1. /\ UNCHANGED <<plan, active_plan_len, plan_len, hits, clearing, board, hpc, locked>>
        /\ scan = Nobody /\ (hpc = "idle" \/ Threaded)
        /\ turn' = After(board, turn)
        /\ scan' = IF turn' = "report" THEN 0 ELSE scan
    BY <1>8 DEF NextTurn, ringVars, handlerVars
  <2>2. clearing = FALSE
    BY <2>1, RoomFacts DEF Types, Rest
  <2>3. Reserved' = Reserved /\ Done' = Done
    BY <2>1, <2>2 DEF Reserved, Reserving, Done
  <2>4. "ring" \notin hits /\ (locked => plan_len = 0) /\ Counted /\ ~Threaded /\ hpc = "idle"
    BY <2>1 DEF Room, Unhit, Threaded
  <2>5. Counting(Reserved) => Counting(Reserved)'
    BY <2>1, <2>3 DEF Counting
  <2>6. Counting(Reserved + Cardinality(Done)) => Counting(Reserved + Cardinality(Done))'
    BY <2>1, <2>3 DEF Counting
  <2>7. ASSUME board = "mega2560", Leftover
        PROVE  Leftover' \/ Counting(Reserved + Cardinality(Done))'
    <3>1. CASE turn = "precalc"
      <4>1. turn' = "report" /\ scan' = 0
        BY <2>1, <2>7, <3>1 DEF After
      <4>2. \A i \in Done' : i >= scan'
        BY <2>3, <4>1, RoomFacts
      <4> QED BY <2>1, <2>4, <2>7, <4>1, <4>2 DEF Leftover
    <3>2. CASE turn = "report"
      <4>1. \A i \in Done : i \in Slots /\ i >= Nobody
        BY <2>1, <2>7, <3>2, RoomFacts DEF Leftover
      <4>2. Done = {}
        BY <4>1, QueueSizeAssumption DEF Slots, Nobody
      <4>3. Cardinality(Done) = 0
        BY <4>2, FS_EmptySet
      <4>4. active_plan_len = 0 /\ Reserved = 0
        BY <2>4, <2>7 DEF Leftover, Reserved, Reserving
      <4> QED BY <1>0, <2>1, <2>3, <4>3, <4>4 DEF Counting
    <3> QED BY <2>7, <3>1, <3>2 DEF Leftover
  <2> QED BY <2>1, <2>4, <2>5, <2>6, <2>7 DEF Room, Counted
<1>9. CASE Fill
  <2>1. /\ UNCHANGED <<plan, scan, clearing, hits, board, active_plan_len, plan_len, locked, hpc, turn>>
    BY <1>9 DEF Fill, vars, ringVars, schedVars, loopVars, handlerVars
  <2>2. Reserved' = Reserved /\ Done' = Done
    BY <2>1 DEF Reserved, Reserving, Done
  <2>3. Leftover => Leftover'
    BY <2>1, <2>2 DEF Leftover
  <2> QED BY <2>1, <2>2, <2>3, RoomUndisturbed
<1>10. CASE Precalc
  <2>1. /\ UNCHANGED <<scan, clearing, hits, board, active_plan_len, plan_len, locked, hpc, turn>>
        /\ Finals(plan') \subseteq Finals(plan)
    BY <1>10, PrecalcEffect DEF Precalc, schedVars, handlerVars, Types
  <2>2. Reserved' = Reserved /\ Done' \subseteq Done
    BY <2>1 DEF Reserved, Reserving, Done
  <2>3. Leftover => Leftover'
    BY <2>1, <2>2 DEF Leftover
  <2> QED BY <2>1, <2>2, <2>3, RoomUndisturbed
<1>11. CASE Report
  <2> SUFFICES ASSUME ~Threaded', Unhit' PROVE Room'
    BY DEF Room
  <2>1. /\ UNCHANGED <<handlerVars, schedVars, hits, active_plan_len, locked>>
        /\ scan \in Slots /\ scan \in Nat /\ turn = "report"
    BY <1>11, ReportEffect, RoomFacts DEF Report, Types
  <2>2. /\ ~Threaded /\ board \in AllBoards /\ UNCHANGED <<board, turn, hpc>>
        /\ Reserved' = Reserved
    BY <2>1, BoardsAssumption DEF schedVars, handlerVars, Threaded, Reserved, Reserving, Types, HandlerTypes
  <2>3. board = "mega2560" /\ "ring" \notin hits /\ (locked => plan_len = 0) /\ Counted
    BY <2>1, <2>2 DEF Schedule, Threaded, AllBoards, Room, Unhit
  <2>4. Done' \subseteq Done /\ (Leftover => \A i \in Done' : i >= scan')
    <3>1. CASE /\ plan[scan].state = "none" \/ ~plan[scan].changed
               /\ scan' = scan + 1 /\ plan' = plan /\ ~clearing /\ ~clearing'
      <4>1. Done' = Done /\ scan \notin Done
        BY <3>1 DEF Done, Finals
      <4>2. ASSUME Leftover, NEW i \in Done
            PROVE  i >= scan'
        <5>1. i \in Nat /\ i >= scan /\ i # scan
          BY <2>1, <4>1, <4>2, RoomFacts DEF Leftover
        <5> QED BY <2>1, <3>1, <5>1
      <4> QED BY <4>1, <4>2
    <3>2. CASE ~clearing /\ clearing' /\ scan' = scan /\ \A i \in Slots : plan'[i] = plan[i] \/ plan'[i] = Blank
      <4>1. Done' \subseteq Done
        BY <3>2 DEF Done, Finals, Blank
      <4> QED BY <2>1, <3>2, <4>1, RoomFacts DEF Leftover
    <3>3. CASE /\ clearing /\ ~clearing' /\ scan' = scan + 1
               /\ plan' = [plan EXCEPT ![scan].changed = FALSE]
      <4>1. plan'[scan].changed = FALSE /\ \A i \in Slots : i # scan => plan'[i] = plan[i]
        BY <1>0, <2>1, <3>3 DEF Actions
      <4>2. Done' \subseteq Done /\ scan \notin Done'
        BY <3>3, <4>1 DEF Done, Finals
      <4>3. ASSUME Leftover, NEW i \in Done'
            PROVE  i >= scan'
        <5>1. i \in Nat /\ i >= scan /\ i # scan
          BY <2>1, <4>2, <4>3, RoomFacts DEF Leftover
        <5> QED BY <2>1, <3>3, <5>1
      <4> QED BY <4>2, <4>3
    <3>4. ReportSlot \/ ReportClear
      BY <1>11 DEF Report
    <3>5. ASSUME ReportSlot, ~(plan[scan].state = "none" \/ ~plan[scan].changed)
          PROVE  /\ ~clearing /\ clearing' /\ scan' = scan
                 /\ \A i \in Slots : plan'[i] = plan[i] \/ plan'[i] = Blank
      <4>1. ~clearing /\ clearing' /\ scan' = scan /\ (PopCmd \/ UNCHANGED ringVars)
        BY <3>5 DEF ReportSlot
      <4> QED BY <1>0, <4>1 DEF PopCmd, ringVars
    <3>6. ASSUME ReportSlot, plan[scan].state = "none" \/ ~plan[scan].changed
          PROVE  scan' = scan + 1 /\ plan' = plan /\ ~clearing /\ ~clearing'
      BY <3>6 DEF ReportSlot, ringVars
    <3> QED BY <3>1, <3>2, <3>3, <3>4, <3>5, <3>6 DEF ReportClear
  <2>5. Leftover => Leftover'
    BY <2>1, <2>2, <2>4 DEF Leftover
  <2>6. Counting(Reserved + Cardinality(Done)) => Counting(Reserved + Cardinality(Done))'
    <3>1. CASE plan_len' = plan_len
      BY <1>0, <2>1, <2>2, <2>4, <3>1, CountingFewer
    <3>2. CASE plan_len' # plan_len
      <4>1. /\ PopCmd /\ plan_len' = plan_len - 1 /\ plan_len > 0
            /\ plan[scan].state \in {"finished", "failed"} /\ plan[scan].changed
            /\ ~clearing /\ clearing' /\ scan' = scan
        BY <1>11, <3>2 DEF Report, ReportSlot, ReportClear, PopCmd, ringVars
      <4>2. scan \in Done /\ scan \notin Done'
        BY <2>1, <4>1 DEF Done, Finals
      <4>3. Done' \subseteq Done \ {scan}
        BY <2>4, <4>2
      <4>4. /\ IsFiniteSet(Done) /\ Cardinality(Done \ {scan}) = Cardinality(Done) - 1
            /\ Cardinality(Done) - 1 \in Nat
        BY <1>0, <4>2, SlotsFinite, FS_RemoveElement
      <4>5. Cardinality(Done') <= Cardinality(Done) - 1 /\ Cardinality(Done') \in Nat
        <5>1. IsFiniteSet(Done \ {scan}) /\ Done' \in SUBSET Slots
          BY <1>0, <4>3, SlotsFinite
        <5> QED BY <4>3, <4>4, <5>1, FS_Subset, SlotsFinite
      <4> QED BY <1>0, <2>1, <2>2, <4>1, <4>5 DEF Counting
    <3> QED BY <3>1, <3>2
  <2>7. locked' => plan_len' = 0
    <3>1. plan_len' = plan_len \/ plan_len > 0
      BY <1>11 DEF Report, ReportSlot, ReportClear, PopCmd, ringVars
    <3> QED BY <2>1, <2>3, <3>1
  <2> QED BY <2>1, <2>2, <2>3, <2>5, <2>6, <2>7 DEF Room, Counted
<1>12. CASE Isr
  <2> SUFFICES ASSUME ~Threaded', Unhit' PROVE Room'
    BY DEF Room
  <2>1. /\ UNCHANGED <<handlerVars, board, scan, clearing, sent>>
        /\ ~Threaded
    BY <1>12, IsrEffect DEF schedVars, loopVars, Threaded
  <2>2. CASE Halted(plan) /\ hits' = {} /\ hpc = "idle"
    BY <2>1, <2>2, HaltedRoom DEF handlerVars
  <2>3. ASSUME Unhit, ~locked, active_plan_len > 0, "ring" \in hits' <=> "ring" \in hits,
               NEW k \in 1 .. active_plan_len, Moved(plan, plan_cur, active_plan_len, k),
               UNCHANGED <<plan_last, plan_len>>
        PROVE  Room'
    <3>1. "ring" \notin hits' /\ Counted /\ ~Leftover
      BY <1>0, <2>1, <2>3 DEF Room, Leftover
    <3>2. k \in 0 .. active_plan_len /\ Reserved' = Reserved
      BY <1>0, <2>1 DEF handlerVars, Reserved, Reserving
    <3> QED BY <2>1, <2>3, <3>1, <3>2, MovedRoom
  <2> QED BY <1>12, <2>2, <2>3, IsrEffect
<1> QED BY <1>1, <1>2, <1>3, <1>4, <1>5, <1>6, <1>7, <1>8, <1>9, <1>10, <1>11, <1>12
        DEF HandoffNext, Queueing

-----------------------------------------------------------------------------
(* The invariant                                                            *)

LEMMA InitHandoffInv == HandoffInit => HandoffInv
<1> SUFFICES ASSUME HandoffInit PROVE HandoffInv
  OBVIOUS
<1>1. Ring /\ Rest
  BY InitInv DEF HandoffInit, Inv
<1>2. /\ \A i \in Slots : plan[i].nid = 0
      /\ plan_len = 0 /\ active_plan_len = 0 /\ locked = TRUE
      /\ scan = Nobody /\ calc = Nobody /\ sent = 0 /\ told = {}
  <2> DEFINE p == [i \in Slots |-> Blank]
  <2>1. 0 \in Slots /\ p \in [Slots -> Actions] /\ \A i \in Slots : p[i].nid = 0
    BY QueueSizeAssumption DEF Slots, Blank, Actions, ActionStates, ActionTypes
  <2>2. "finished" \in ActionStates
    BY DEF ActionStates
  <2>3. plan = Mark(p, 0, "finished")
    BY DEF HandoffInit, Init
  <2> HIDE DEF p
  <2>4. \A i \in Slots : plan[i].nid = 0
    BY <2>1, <2>2, <2>3, MarkType
  <2> QED BY <2>4 DEF HandoffInit, Init
<1>3. /\ board \in Boards /\ turn = "precalc" /\ hpc = "idle" /\ htype = "move"
      /\ mutex = IF UnderMutex(board, "precalc") THEN "loop" ELSE "free"
      /\ cur = 0 /\ loaded = 0 /\ prof = [i \in Slots |-> {}] /\ filled = 0 /\ hits = {}
  BY DEF HandoffInit
<1>4. Types
  <2>1. HandlerTypes
    BY <1>3, QueueSizeAssumption DEF HandlerTypes, Slots, Fields
  <2> QED BY <1>1, <1>3, <2>1 DEF Types, Ring
<1>5. Schedule
  BY <1>2, <1>3 DEF Schedule
<1>6. Names
  BY <1>2, <1>3 DEF Names, Numbered, Newest, Reserving
<1>7. Calls
  BY <1>1, <1>3 DEF Ring, Safety, Calls, Pieces, Reserving
<1>8. Pending = {}
  BY <1>1, <1>2, WindowEmpty DEF Pending, Ring, RingTypes
<1>9. Fates
  BY <1>2, <1>3, <1>8, QueueSizeAssumption DEF Fates, Unended, Reserving
<1>10. Room
  BY <1>2, <1>3 DEF Room, Counted, Counting, Reserved, Reserving
<1>11. Profiles
  BY <1>2, <1>3 DEF Profiles
<1> QED BY <1>4, <1>5, <1>6, <1>7, <1>9, <1>10, <1>11 DEF HandoffInv

LEMMA StutterKeepsInv ==
    ASSUME HandoffInv, UNCHANGED hvars
    PROVE  HandoffInv'
<1>1. /\ UNCHANGED <<plan, plan_first, plan_cur, plan_last, plan_len, active_plan_len, going, engine>>
      /\ UNCHANGED <<fail_on_endstops, configured, scan, clearing, calc, locked, sent, barrier, told>>
      /\ UNCHANGED <<board, turn, mutex, hpc, htype, cur, loaded, prof, filled, hits>>
  BY DEF hvars, vars, ringVars, engineVars, modeVars, loopVars, schedVars, handlerVars, profVars
<1>2. Types'
  BY <1>1 DEF HandoffInv, Types, RingTypes, Rest, HandlerTypes
<1>3. Schedule'
  BY <1>1 DEF HandoffInv, Schedule, Threaded, UnderMutex
<1>4. Names'
  BY <1>1 DEF HandoffInv, Names, Numbered, Newest, Reserving
<1>5. Calls'
  BY <1>1 DEF HandoffInv, Calls, Pieces, Unhit, Reserving, EngineMatchesQueue, RingWindow,
              WorkConserving, NoMotionWhileLocked
<1>6. Fates'
  BY <1>1 DEF HandoffInv, Fates, Unended, Intact, Unhit, Reserving, Pending
<1>7. Room'
  BY <1>1 DEF HandoffInv, Room, Threaded, Unhit, Counted, Counting, Leftover, Reserved, Reserving,
              Done, Finals
<1>8. Profiles'
  BY <1>1 DEF HandoffInv, Profiles
<1> QED BY <1>2, <1>3, <1>4, <1>5, <1>6, <1>7, <1>8 DEF HandoffInv

LEMMA StepHandoffInv == HandoffInv /\ [HandoffNext]_hvars => HandoffInv'
<1>1. ASSUME HandoffInv, HandoffNext PROVE HandoffInv'
  <2>1. Types'
    BY <1>1, TypesKept DEF HandoffInv
  <2>2. Schedule' /\ Names' /\ Profiles'
    BY <1>1, ScheduleKept, NamesKept, ProfilesKept DEF HandoffInv
  <2>3. Calls' /\ Fates'
    BY <1>1, CallsKept, FatesKept DEF HandoffInv
  <2>4. Room'
    BY <1>1, <2>1, RoomKept DEF HandoffInv
  <2> QED BY <2>1, <2>2, <2>3, <2>4 DEF HandoffInv
<1> QED BY <1>1, StutterKeepsInv

LEMMA HandoffInvariance == HandoffSpec => []HandoffInv
<1>1. HandoffInit => HandoffInv
  BY InitHandoffInv
<1>2. HandoffInv /\ [HandoffNext]_hvars => HandoffInv'
  BY StepHandoffInv
<1> QED BY <1>1, <1>2, PTL DEF HandoffSpec

-----------------------------------------------------------------------------
(* Profiles that are started                                                *)

LEMMA HalfStep ==
    ASSUME HandoffInv, hpc = "test", hpc' = "idle", Half(Pending)
    PROVE  board = "stm32f302"
<1>1. PICK i \in Starting(Pending) : "len" \in prof[i] /\ prof[i] # Whole
  BY DEF Half
<1>2. i \in Slots
  BY <1>1, WindowType DEF Starting, Pending, HandoffInv, Types, RingTypes
<1>3. CASE board # "stm32f302"
  <2>1. calc = Nobody
    BY <1>3, HandlerAlone DEF HandoffInv
  <2>2. i # calc
    BY <1>2, <2>1, QueueSizeAssumption DEF Slots, Nobody
  <2>3. prof[i] \in {{}, Whole}
    BY <1>2, <1>3, <2>2 DEF HandoffInv, Profiles
  <2> QED BY <1>1, <2>3
<1> QED BY <1>3

-----------------------------------------------------------------------------
(* The refinement                                                           *)

LEMMA TypesQueueTyped == (Types => QueueTyped) /\ (Types' => QueueTyped')
  BY DEF Types, RingTypes, QueueTyped

LEMMA StepKeepsPromise ==
    ASSUME HandoffInv, HandoffInv', HandoffNext, Intact', board # "emulation"
    PROVE  Promise!Next \/ UNCHANGED Promise!qvars
<1>0. /\ QueueTyped /\ QueueTyped' /\ Types /\ Types' /\ RingTypes
      /\ plan \in [Slots -> Actions] /\ plan_cur \in Slots /\ active_plan_len \in Nat
      /\ plan_last \in Slots /\ cur \in Slots /\ sent \in Nat
      /\ Pending \subseteq Slots
  BY TypesQueueTyped, WindowType, MaxNidAssumption
     DEF HandoffInv, Types, RingTypes, Rest, HandlerTypes, Pending
<1>1. CASE (\E type \in {"move", "tool"} : AcceptBegin(type)) \/ AcceptLoad \/ NextTurn \/ Fill
  <2>1. UNCHANGED <<plan, plan_cur, active_plan_len, locked, sent>>
    BY <1>1 DEF AcceptBegin, AcceptLoad, NextTurn, Fill, vars, ringVars
  <2> QED BY <1>0, <2>1, Stutter
<1>2. CASE AcceptWrite
  <2>1. /\ UNCHANGED <<plan_cur, active_plan_len, locked, sent>>
        /\ plan' = [plan EXCEPT ![plan_last].nid = sent + 1, ![plan_last].type = htype]
        /\ hits' = hits \cup (IF plan_last \in Pending THEN {"ring"} ELSE {})
    BY <1>2 DEF AcceptWrite
  <2>2. plan_last \notin Pending
    BY <2>1 DEF Intact
  <2>3. \A i \in Pending : plan'[i].nid = plan[i].nid
    BY <1>0, <2>1, <2>2
  <2>4. Queue' = Queue
    BY <1>0, <2>1, <2>3, QueueSame
  <2> QED BY <2>1, <2>4 DEF Promise!qvars
<1>3. CASE AcceptStore
  <2>1. /\ UNCHANGED <<plan, plan_cur, locked>> /\ sent' = sent + 1
        /\ hpc = "store" /\ active_plan_len' = loaded + 1 /\ hits' = hits
    BY <1>3 DEF AcceptStore
  <2>2. /\ loaded = active_plan_len /\ locked = FALSE
        /\ cur = At(plan_cur, active_plan_len)
    BY <2>1 DEF HandoffInv, Calls, Pieces, Intact, Unhit, Reserving, Types, RingTypes
  <2>3. plan'[At(plan_cur, active_plan_len)].nid = sent + 1
    BY <2>1, <2>2 DEF HandoffInv, Names, Reserving
  <2>4. Promise!Accept
    BY <1>0, <2>1, <2>2, <2>3, QueueAppends
  <2> QED BY <2>4 DEF Promise!Next
<1>4. CASE AcceptMark
  <2>1. /\ UNCHANGED <<plan_cur, active_plan_len, locked, sent>>
        /\ plan' = [plan EXCEPT ![cur].state = "queued", ![cur].changed = FALSE]
    BY <1>4 DEF AcceptMark
  <2>2. \A i \in Slots : plan'[i].nid = plan[i].nid
    BY <1>0, <2>1 DEF Actions
  <2> QED BY <1>0, <2>1, <2>2, Stutter
<1>5. CASE AcceptEnd
  <2>1. sent' = sent
    BY <1>5 DEF AcceptEnd
  <2>2. CASE Halted(plan)
    BY <2>1, <2>2, HaltDiscards DEF Promise!Next
  <2>3. ASSUME active_plan_len = 1, NEW k \in 0 .. 1, Moved(plan, plan_cur, 1, k)
        PROVE  Promise!Next \/ UNCHANGED Promise!qvars
    <3>1. CASE k = 0
      <4>1. /\ plan_cur' = At(plan_cur, 0) /\ active_plan_len' = 1 /\ locked' = locked
            /\ \A i \in Slots : plan'[i].nid = plan[i].nid
        BY <2>3, <3>1 DEF Moved
      <4>2. plan_cur' = plan_cur
        BY <1>0, <4>1, AtZero
      <4> QED BY <1>0, <2>1, <2>3, <4>1, <4>2, Stutter
    <3>2. CASE k = 1
      <4>1. k \in 1 .. active_plan_len
        BY <2>3, <3>2
      <4> QED BY <1>0, <2>1, <2>3, <4>1, MovedAdvances DEF Promise!Next
    <3> QED BY <2>3, <3>1, <3>2
  <2>4. CASE UNCHANGED <<ringVars, engineVars, locked, barrier>>
    BY <1>0, <2>1, <2>4, Stutter DEF ringVars
  <2> QED BY <1>0, <1>5, <2>2, <2>3, <2>4, EndEffect
<1>6. CASE OtherCommand
  <2>1. sent' = sent
    BY <1>0, <1>6, OtherEffect
  <2>2. CASE Halted(plan)
    BY <2>1, <2>2, HaltDiscards DEF Promise!Next
  <2>3. CASE UNCHANGED <<ringVars, engineVars, barrier, hits>> /\ locked' = FALSE
    <3>1. Queue' = Queue
      BY <1>0, <2>3, QueueSame DEF ringVars
    <3> QED BY <2>1, <2>3, <3>1 DEF Promise!Next, Promise!Unlock
  <2>4. CASE UNCHANGED <<ringVars, engineVars, barrier, hits>> /\ locked' = locked
    BY <1>0, <2>1, <2>4, Stutter DEF ringVars
  <2> QED BY <1>0, <1>6, <2>2, <2>3, <2>4, OtherEffect
<1>7. CASE Precalc
  <2>1. /\ UNCHANGED <<plan_cur, active_plan_len, locked, sent>>
        /\ \A i \in Slots : plan'[i].nid = plan[i].nid
    BY <1>0, <1>7, PrecalcEffect DEF Types
  <2> QED BY <1>0, <2>1, Stutter
<1>8. CASE Report
  <2>1. /\ UNCHANGED <<plan_cur, active_plan_len, locked, sent>> /\ scan \in Slots /\ hits' = hits
    BY <1>0, <1>8, ReportEffect DEF Types, Report
  <2>2. CASE PopCmd
    <3>1. active_plan_len <= QUEUE_SIZE /\ plan_first \in Slots
      BY <1>0, <2>1 DEF HandoffInv, Fates, Unended, Intact, Unhit, RingTypes
    <3> QED BY <1>0, <2>1, <2>2, <3>1, PopCmdVoids DEF Promise!Next
  <2>3. CASE UNCHANGED <<ringVars, told>>
    BY <1>0, <2>1, <2>3, Stutter DEF ringVars
  <2>4. CASE plan' = [plan EXCEPT ![scan].changed = FALSE]
    <3>1. \A i \in Slots : plan'[i].nid = plan[i].nid
      BY <1>0, <2>1, <2>4 DEF Actions
    <3> QED BY <1>0, <2>1, <3>1, Stutter
  <2> QED BY <1>0, <1>8, <2>2, <2>3, <2>4, ReportEffect DEF Types
<1>9. CASE Isr
  <2>1. sent' = sent
    BY <1>9, IsrEffect DEF HandoffInv, Intact
  <2>2. CASE Halted(plan)
    BY <2>1, <2>2, HaltDiscards DEF Promise!Next
  <2>3. ASSUME NEW k \in 1 .. active_plan_len, Moved(plan, plan_cur, active_plan_len, k)
        PROVE  Promise!Next
    BY <1>0, <2>1, <2>3, MovedAdvances DEF Promise!Next
  <2> QED BY <1>9, <2>2, <2>3, IsrEffect DEF HandoffInv, Intact
<1> QED BY <1>1, <1>2, <1>3, <1>4, <1>5, <1>6, <1>7, <1>8, <1>9 DEF HandoffNext, Queueing

-----------------------------------------------------------------------------
(* Theorems                                                                 *)

\* Every variable of the four firmwares has its type, in every piece of a call.
THEOREM HandoffTyped == HandoffSpec => []HandoffTypeOK
<1>1. HandoffInv => HandoffTypeOK
  BY TypesGiveTypeOK DEF HandoffInv
<1> QED BY <1>1, HandoffInvariance, PTL

\* planner_line_to and its sisters call get_cmd when nothing runs, unless an
\* interrupt has upset a call since the last lock: no command is started twice.
THEOREM StartedOnce == HandoffSpec => []StartsIdle
<1>1. HandoffInv => StartsIdle
  BY DEF HandoffInv, Calls, Pieces, StartsIdle
<1> QED BY <1>1, HandoffInvariance, PTL

\* Between two calls the planner is as whole calls leave it, on every board, and
\* a lock repairs what an interrupt in a call has upset.
THEOREM WholeBetweenCalls == HandoffSpec => []AtRest
<1>1. HandoffInv => AtRest
  BY DEF HandoffInv, Calls, Pieces, AtRest
<1> QED BY <1>1, HandoffInvariance, PTL

\* A lock holds through every piece of every call: the tick that locks stops the
\* timer, and what the handler starts after it goes through line_started.
LEMMA LockKept ==
    ASSUME Types, LockHolds, [HandoffNext]_hvars
    PROVE  LockHolds'
<1> SUFFICES ASSUME locked' PROVE going' = FALSE
  BY DEF LockHolds
<1>1. RingTypes /\ locked \in BOOLEAN /\ going \in BOOLEAN /\ (locked => ~going)
  BY DEF Types, RingTypes, LockHolds
<1>2. CASE UNCHANGED <<locked, going>>
  BY <1>1, <1>2
<1>3. CASE Halted(plan)
  BY <1>3 DEF Halted, Halt
<1>4. CASE AcceptEnd
  <2>1. ASSUME NEW k \in 0 .. 1, Moved(plan, plan_cur, 1, k), locked => (going' => going)
        PROVE  going' = FALSE
    <3>1. locked' = locked /\ going' \in BOOLEAN
      BY <2>1 DEF Moved
    <3> QED BY <1>1, <2>1, <3>1
  <2>2. CASE UNCHANGED <<ringVars, engineVars, locked, barrier>>
    BY <1>2, <2>2 DEF engineVars
  <2> QED BY <1>1, <1>3, <1>4, <2>1, <2>2, EndEffect
<1>5. CASE OtherCommand
  <2>1. Halted(plan) \/ (UNCHANGED engineVars /\ locked' \in {locked, FALSE})
    BY <1>1, <1>5, OtherEffect
  <2> QED BY <1>1, <1>3, <2>1 DEF engineVars
<1>6. CASE Isr
  <2>1. going /\ (Halted(plan) \/ Relabelled)
    BY <1>1, <1>6, TickEffect DEF Isr
  <2>2. CASE Relabelled
    <3>1. locked' = locked
      BY <2>2 DEF Relabelled
    <3> QED BY <1>1, <2>1, <3>1
  <2> QED BY <1>3, <2>1, <2>2
<1>7. CASE Queueing /\ ~AcceptEnd
  BY <1>2, <1>7 DEF Queueing, AcceptBegin, AcceptWrite, AcceptLoad, AcceptStore, AcceptMark,
                    vars, engineVars
<1>8. CASE NextTurn \/ Fill \/ Precalc \/ Report \/ UNCHANGED hvars
  BY <1>2, <1>8 DEF NextTurn, Fill, Precalc, PreCalcBegin, PreCalcEnd, Report, ReportSlot,
                    ReportClear, hvars, vars, engineVars
<1> QED BY <1>4, <1>5, <1>6, <1>7, <1>8 DEF HandoffNext

\* On every board a lock holds, though the handler tests it at the head of
\* planner_line_to and an interrupt can lock at any point behind: whatever upset the
\* call, no axis moves until the host unlocks.
THEOREM LockHoldsAnywhere == HandoffSpec => []LockHolds
<1>1. HandoffInit => LockHolds
  BY DEF HandoffInit, Init, LockHolds
<1>2. HandoffInv => Types
  BY DEF HandoffInv
<1> QED BY <1>1, <1>2, LockKept, HandoffInvariance, PTL DEF HandoffSpec

\* What waits or runs has not been reported as over, on the three boards.
THEOREM NoneReportedWhileQueued == HandoffSpec => []NoPremature
<1>1. HandoffInv => NoPremature
  BY DEF HandoffInv, Fates, Unended, NoPremature
<1> QED BY <1>1, HandoffInvariance, PTL

\* A single loop never puts a command into a slot that waits or runs.
THEOREM OneLoopKeepsRing == HandoffSpec => []RingKept
<1>1. HandoffInv => RingKept
  BY DEF HandoffInv, Room, RingKept
<1> QED BY <1>1, HandoffInvariance, PTL

\* Where precalc and the handler exclude each other, the handler starts no line
\* whose len alone is computed.
THEOREM HandlerStartsWhole == HandoffSpec => HalfOnlyByInterrupt
<1>1. HandoffInv /\ [HandoffNext]_hvars =>
        [hpc = "test" /\ hpc' = "idle" /\ Half(Pending) => board = "stm32f302"]_hvars
  BY HalfStep
<1> QED BY <1>1, HandoffInvariance, PTL DEF HandoffSpec, HalfOnlyByInterrupt

\* The calls in pieces implement the queue of MotionQueue, as long as no
\* interrupt upsets one and no slot in use is written to.
THEOREM PiecesKeepPromise == HandoffSpec => KeepsPromise
<1>1. HandoffInv /\ HandoffInv' /\ [HandoffNext]_hvars =>
        [(Intact)' /\ board # "emulation" => Promise!Next \/ UNCHANGED Promise!qvars]_hvars
  BY StepKeepsPromise
<1> QED BY <1>1, HandoffInvariance, PTL DEF HandoffSpec, KeepsPromise

\* The loop of the stm32f103 reports nothing and so frees nothing: nobody is told
\* of a command, and only a lock makes plan_len smaller, so that after
\* QUEUE_SIZE - 1 commands no place is left.
THEOREM NothingFreed ==
    HandoffSpec => [][board = "stm32f103" =>
                        /\ told' = told
                        /\ plan_first' = plan_first
                        /\ ~locked' => plan_len' >= plan_len]_hvars
<1> DEFINE Keeps == board = "stm32f103" =>
                      /\ told' = told
                      /\ plan_first' = plan_first
                      /\ ~locked' => plan_len' >= plan_len
<1>1. HandoffInv /\ [HandoffNext]_hvars => [Keeps]_hvars
  <2> SUFFICES ASSUME HandoffInv, HandoffNext, board = "stm32f103"
               PROVE  /\ told' = told
                      /\ plan_first' = plan_first
                      /\ ~locked' => plan_len' >= plan_len
    OBVIOUS
  <2>1. turn # "report" /\ plan_len \in Nat /\ board \notin {"mega2560", "stm32f302", "emulation"}
    BY QueueSizeAssumption DEF HandoffInv, Schedule, Types, RingTypes, Slots
  <2>2. ASSUME NEW p, NEW c, NEW n, NEW last, NEW running, GetCmd(p, c, n, last, plan_len, running)
        PROVE  plan_first' = plan_first /\ (~locked' => plan_len' = plan_len)
    BY <2>2 DEF GetCmd, Halt
  <2>3. CASE Queueing
    <3>1. CASE AcceptWrite
      BY <2>1, <3>1 DEF AcceptWrite
    <3>2. CASE AcceptEnd
      BY <2>1, <2>2, <3>2 DEF AcceptEnd, ringVars
    <3>3. CASE UNCHANGED <<told, plan_first, plan_len>>
      BY <2>1, <3>3
    <3> QED BY <2>3, <3>1, <3>2, <3>3
            DEF Queueing, AcceptBegin, AcceptLoad, AcceptStore, AcceptMark, vars, ringVars
  <2>4. CASE OtherCommand
    BY <2>1, <2>4 DEF OtherCommand, PlannerLock, Halt, PlannerUnlock, FailOnEndstops, Configure, ringVars
  <2>5. CASE NextTurn \/ Fill \/ Precalc
    BY <2>1, <2>5 DEF NextTurn, Fill, Precalc, PreCalcBegin, PreCalcEnd, vars, ringVars
  <2>6. CASE Report
    BY <2>1, <2>6 DEF Report
  <2>7. CASE Isr
    <3>1. told' = told
      BY <2>7 DEF Isr, Tick, TickFinish, TickTouch
    <3>2. CASE Halt(Mark(plan, plan_cur, "failed"))
      BY <3>1, <3>2 DEF Halt
    <3>3. CASE LineFinished
      <4> DEFINE p == Mark(plan, plan_cur, "finished")
                 step == IF active_plan_len > 0 THEN 1 ELSE 0
                 c == At(plan_cur, step)
                 n == active_plan_len - step
      <4>1. \/ plan_first' = plan_first /\ plan_len' = plan_len
            \/ GetCmd(p, c, n, plan_last, plan_len, FALSE)
        BY <3>3 DEF LineFinished
      <4> HIDE DEF p, step, c, n
      <4>2. plan_first' = plan_first /\ (~locked' => plan_len' = plan_len)
        BY <2>2, <4>1
      <4> QED BY <2>1, <3>1, <4>2
    <3> QED BY <2>7, <3>2, <3>3 DEF Isr, Tick, TickFinish, TickTouch, EndstopsTouched
  <2> QED BY <2>3, <2>4, <2>5, <2>6, <2>7 DEF HandoffNext
<1> QED BY <1>1, HandoffInvariance, PTL DEF HandoffSpec

=============================================================================
