------------------------------- MODULE Planner -------------------------------
(****************************************************************************)
(* The motion planner of core/control/planner/planner.c: a ring of          *)
(* QUEUE_SIZE actions, three indices into it, two counters, the lock, and   *)
(* the step interrupt that ends one move and starts the next.               *)
(*                                                                          *)
(* A call of the planner is one step, except the two loops that the main    *)
(* context spends its time in while the step interrupt goes on firing:      *)
(* planner_report_states sends a message between reading a slot and         *)
(* clearing its flag, and planner_pre_calculate computes a profile between  *)
(* testing a slot and marking it prepared.  Each is a pair of steps per     *)
(* slot.  Calls may come in any order here; MegaLoop adds the order of the  *)
(* main loop.                                                               *)
(*                                                                          *)
(* A "move" stands for ACTION_LINE and ACTION_ARC.  The host numbers the    *)
(* commands it sends 1, 2, 3, ...; 0 is the nid of a blank slot.            *)
(****************************************************************************)
EXTENDS Integers, Sequences

CONSTANTS
    QUEUE_SIZE,   \* places in the ring, CONFIG_QUEUE_SIZE
    MaxNid        \* bound: the commands the host numbers in one behaviour

ASSUME QueueSizeAssumption == QUEUE_SIZE \in Nat \ {0}
ASSUME MaxNidAssumption == MaxNid \in Nat

Slots == 0 .. QUEUE_SIZE - 1
Nobody == QUEUE_SIZE     \* an index that names no slot

ActionTypes == {"none", "move", "tool"}
ActionStates == {"none", "queued", "prepared", "started", "finished", "failed"}
Actions == [nid : Nat, state : ActionStates, changed : BOOLEAN, type : ActionTypes]

VARIABLES
    plan,               \* plan[]: the ring of actions
    plan_first,         \* oldest slot whose end has not been reported
    plan_cur,           \* slot being executed
    plan_last,          \* slot the next command goes to
    plan_len,           \* slots in use
    active_plan_len,    \* slots not executed yet
    locked,             \* no command is accepted or started
    fail_on_endstops,   \* a touched endstop is an error
    configured,         \* moves_common_def.configured
    going,              \* the step timer runs (steppers.c)
    engine,             \* slot that current_plan of line.c / arc.c points to
    scan,               \* slot planner_report_states is at, or Nobody
    clearing,           \* ... which has sent its message, flag not yet cleared
    calc,               \* slot planner_pre_calculate is at, or Nobody
    sent,               \* history: nid of the newest accepted command
    barrier,            \* history: value of sent when the planner last locked
    told                \* history: nids reported as completed or failed

ringVars == <<plan, plan_first, plan_cur, plan_last, plan_len, active_plan_len>>
engineVars == <<going, engine>>
modeVars == <<fail_on_endstops, configured>>
loopVars == <<scan, clearing, calc>>
vars == <<ringVars, engineVars, modeVars, loopVars, locked, sent, barrier, told>>

-----------------------------------------------------------------------------

Blank == [nid |-> 0, state |-> "none", changed |-> FALSE, type |-> "none"]

\* The slot k places after slot c.
At(c, k) == (c + k) % QUEUE_SIZE

\* The n slots from slot c on.
Window(c, n) == {At(c, k) : k \in 0 .. n - 1}

\* The slots accepted and not executed to their end.
Pending == Window(plan_cur, active_plan_len)

\* Mutants: no place kept free; only the slots to execute counted.
EmptySlotsAll == QUEUE_SIZE - plan_len
EmptySlotsActive == QUEUE_SIZE - active_plan_len - 1

EmptySlots == QUEUE_SIZE - plan_len - 1

\* Slot i is marked with a new state, to be reported.
Mark(p, i, state) == [p EXCEPT ![i].state = state, ![i].changed = TRUE]

\* After init_planner, planner_lock and moves_reset of main: locked, and the
\* lock has marked the blank slot 0 as finished.
Init ==
    /\ plan = Mark([i \in Slots |-> Blank], 0, "finished")
    /\ plan_first = 0
    /\ plan_cur = 0
    /\ plan_last = 0
    /\ plan_len = 0
    /\ active_plan_len = 0
    /\ locked = TRUE
    /\ fail_on_endstops = TRUE
    /\ configured = FALSE
    /\ going = FALSE
    /\ engine = 0
    /\ scan = Nobody
    /\ clearing = FALSE
    /\ calc = Nobody
    /\ sent = 0
    /\ barrier = 0
    /\ told = {}

-----------------------------------------------------------------------------
(* Starting and ending actions. Each of these fixes the ring, the engine,   *)
(* the lock and the barrier.                                                *)

\* Mutants: plan_last is not reset; the queue is kept.
HaltKeepsLast(p) ==
    /\ plan' = p
    /\ plan_cur' = 0
    /\ plan_len' = 0
    /\ active_plan_len' = 0
    /\ locked' = TRUE
    /\ going' = FALSE
    /\ barrier' = sent'
    /\ UNCHANGED <<plan_first, plan_last, engine>>

HaltKeepsQueue(p) ==
    /\ plan' = p
    /\ locked' = TRUE
    /\ going' = FALSE
    /\ barrier' = sent'
    /\ UNCHANGED <<plan_first, plan_cur, plan_last, plan_len, active_plan_len, engine>>

\* _planner_lock with ring contents p, then the callback that stops the timer.
Halt(p) ==
    /\ plan' = p
    /\ plan_cur' = 0
    /\ plan_last' = 0
    /\ plan_len' = 0
    /\ active_plan_len' = 0
    /\ locked' = TRUE
    /\ going' = FALSE
    /\ barrier' = sent'
    /\ UNCHANGED <<plan_first, engine>>

\* Mutant: the lock is not asked.
LineStartedAlways == TRUE

\* line_started of the planner: only without a lock does it go on to the board's,
\* which makes the first tick and starts the timer.
LineStarted == ~locked

\* get_cmd: from slot c, with n slots to execute, the first k are over at once
\* (a blank slot, a tool, a move that ends at its first tick or, with the timer
\* left as it is, one that finds no steps in its profile), and slot c + k is a move
\* that keeps running or that fails on an endstop at its first tick.  Under a lock
\* it is marked as started, and nothing runs.
GetCmd(p, c, n, last, len, running) ==
    \E k \in 0 .. n :
        LET over == [i \in Slots |->
                        IF i \in Window(c, k)
                        THEN [p[i] EXCEPT !.state = "finished", !.changed = TRUE]
                        ELSE p[i]]
            cur == At(c, k)
            idle ==
                /\ k = n
                /\ plan' = over
                /\ going' \in {running, running /\ \A i \in Window(c, k) : p[i].type # "move"}
                /\ UNCHANGED engine
            run ==
                /\ k < n
                /\ p[cur].type = "move"
                /\ plan' = Mark(over, cur, "started")
                /\ going' = (running \/ LineStarted)
                /\ engine' = cur
            fail ==
                /\ LineStarted
                /\ k < n
                /\ p[cur].type = "move"
                /\ fail_on_endstops
                /\ Halt(Mark(over, cur, "failed"))
        IN  \/ /\ idle \/ run
               /\ plan_cur' = cur
               /\ active_plan_len' = n - k
               /\ plan_last' = last
               /\ plan_len' = len
               /\ UNCHANGED <<plan_first, locked, barrier>>
            \/ fail

\* Mutant: the next command is not started.
LineFinishedIdle ==
    LET step == IF active_plan_len > 0 THEN 1 ELSE 0
    IN  /\ plan' = Mark(plan, plan_cur, "finished")
        /\ plan_cur' = At(plan_cur, step)
        /\ active_plan_len' = active_plan_len - step
        /\ going' = FALSE
        /\ UNCHANGED <<plan_first, plan_last, plan_len, engine, locked, barrier>>

\* line_finished: the action is over; next_cmd, and get_cmd unless locked.
LineFinished ==
    LET p == Mark(plan, plan_cur, "finished")
        step == IF active_plan_len > 0 THEN 1 ELSE 0
        c == At(plan_cur, step)
        n == active_plan_len - step
    IN  IF locked
        THEN /\ plan' = p
             /\ plan_cur' = c
             /\ active_plan_len' = n
             /\ going' = FALSE
             /\ UNCHANGED <<plan_first, plan_last, plan_len, engine, locked, barrier>>
        ELSE GetCmd(p, c, n, plan_last, plan_len, FALSE)

\* Mutant: a touch that is no error passes on to the next command while the
\* move goes on.
EndstopsTouchedNext ==
    IF fail_on_endstops \/ active_plan_len = 0
    THEN Halt(Mark(plan, plan_cur, "failed"))
    ELSE /\ plan' = Mark(plan, plan_cur, "finished")
         /\ plan_cur' = At(plan_cur, 1)
         /\ active_plan_len' = active_plan_len - 1
         /\ UNCHANGED <<plan_first, plan_last, plan_len, engineVars, locked, barrier>>

\* endstops_touched
EndstopsTouched ==
    IF fail_on_endstops
    THEN Halt(Mark(plan, plan_cur, "failed"))
    ELSE LineFinished

-----------------------------------------------------------------------------
(* The step interrupt                                                       *)

\* A tick that finds the move complete.
TickFinish ==
    /\ going
    /\ UNCHANGED <<modeVars, loopVars, sent, told>>
    /\ LineFinished

\* A tick that finds an endstop or the probe touched: the check goes through
\* check_break of the slot the engine points to, which a blank slot has not.
TickTouch ==
    /\ going
    /\ plan[engine].type = "move"
    /\ UNCHANGED <<modeVars, loopVars, sent, told>>
    /\ EndstopsTouched

-----------------------------------------------------------------------------
(* Calls of the command handler                                             *)

\* planner_line_to, planner_arc_to, planner_tool with something to do.
Accept(type) ==
    LET p == [plan EXCEPT ![plan_last] =
                [nid |-> sent + 1, state |-> "queued", changed |-> FALSE, type |-> type]]
        last == At(plan_last, 1)
    IN  /\ ~locked
        /\ EmptySlots # 0
        /\ sent < MaxNid
        /\ sent' = sent + 1
        /\ UNCHANGED <<modeVars, loopVars, told>>
        /\ IF active_plan_len + 1 = 1
           THEN GetCmd(p, plan_cur, 1, last, plan_len + 1, going)
           ELSE /\ plan' = p
                /\ plan_last' = last
                /\ plan_len' = plan_len + 1
                /\ active_plan_len' = active_plan_len + 1
                /\ UNCHANGED <<plan_first, plan_cur, engineVars, locked, barrier>>

\* Mutant: the lock is a flag and nothing else.
PlannerLockFlag ==
    /\ locked' = TRUE
    /\ barrier' = sent
    /\ UNCHANGED <<ringVars, engineVars, modeVars, loopVars, sent, told>>

\* planner_lock: _planner_lock, then line_finished, which finds slot 0 current.
PlannerLock ==
    /\ UNCHANGED <<modeVars, loopVars, sent, told>>
    /\ Halt(Mark(plan, 0, "finished"))

\* Mutant: the axes need not be configured.
PlannerUnlockAlways ==
    /\ locked' = FALSE
    /\ UNCHANGED <<ringVars, engineVars, modeVars, loopVars, sent, barrier, told>>

\* planner_unlock, without effect until the axes are configured.
PlannerUnlock ==
    /\ configured
    /\ locked' = FALSE
    /\ UNCHANGED <<ringVars, engineVars, modeVars, loopVars, sent, barrier, told>>

\* planner_fail_on_endstops
FailOnEndstops(fail) ==
    /\ fail_on_endstops' = fail
    /\ UNCHANGED <<ringVars, engineVars, loopVars, locked, configured, sent, barrier, told>>

\* M100 with all its parameters positive; nothing resets the flag.
Configure ==
    /\ configured' = TRUE
    /\ UNCHANGED <<ringVars, engineVars, loopVars, locked, fail_on_endstops, sent, barrier, told>>

-----------------------------------------------------------------------------
(* The main context's two loops over the ring                               *)

\* planner_pre_calculate finds a queued move ...
PreCalcBegin ==
    /\ calc = Nobody
    /\ \E i \in Pending :
        /\ plan[i].type = "move"
        /\ plan[i].state = "queued"
        /\ calc' = i
    /\ UNCHANGED <<ringVars, engineVars, modeVars, scan, clearing, locked, sent, barrier, told>>

\* ... and, its profile computed, marks it, whatever became of it meanwhile.
PreCalcEnd ==
    /\ calc # Nobody
    /\ plan' = Mark(plan, calc, "prepared")
    /\ calc' = Nobody
    /\ UNCHANGED <<plan_first, plan_cur, plan_last, plan_len, active_plan_len,
                   engineVars, modeVars, scan, clearing, locked, sent, barrier, told>>

BeginReport ==
    /\ scan = Nobody
    /\ scan' = 0
    /\ UNCHANGED <<ringVars, engineVars, modeVars, clearing, calc, locked, sent, barrier, told>>

\* pop_cmd: the slot at plan_first is freed, whichever slot was reported.
PopCmd ==
    /\ UNCHANGED <<plan_cur, plan_last, active_plan_len>>
    /\ IF plan_len > 0
       THEN /\ plan' = [plan EXCEPT ![plan_first] = Blank]
            /\ plan_first' = At(plan_first, 1)
            /\ plan_len' = plan_len - 1
       ELSE UNCHANGED <<plan, plan_first, plan_len>>

\* Mutant: the case of STATE_STARTED falls through to the next one.
ReportSlotFallsThrough ==
    /\ scan # Nobody
    /\ ~clearing
    /\ UNCHANGED <<engineVars, modeVars, calc, locked, sent, barrier>>
    /\ LET slot == plan[scan] IN
       IF slot.state = "none" \/ ~slot.changed
       THEN /\ scan' = scan + 1
            /\ UNCHANGED <<ringVars, clearing, told>>
       ELSE /\ clearing' = TRUE
            /\ UNCHANGED scan
            /\ IF slot.state \in {"started", "finished", "failed"}
               THEN PopCmd /\ told' = told \cup {slot.nid}
               ELSE UNCHANGED <<ringVars, told>>

\* One slot of planner_report_states, up to and including the message.
ReportSlot ==
    /\ scan # Nobody
    /\ ~clearing
    /\ UNCHANGED <<engineVars, modeVars, calc, locked, sent, barrier>>
    /\ LET slot == plan[scan] IN
       IF slot.state = "none" \/ ~slot.changed
       THEN /\ scan' = scan + 1
            /\ UNCHANGED <<ringVars, clearing, told>>
       ELSE /\ clearing' = TRUE
            /\ UNCHANGED scan
            /\ IF slot.state \in {"finished", "failed"}
               THEN PopCmd /\ told' = told \cup {slot.nid}
               ELSE UNCHANGED <<ringVars, told>>

\* Mutant: the flag stays.
ReportClearNot ==
    /\ clearing
    /\ clearing' = FALSE
    /\ scan' = scan + 1
    /\ UNCHANGED <<ringVars, engineVars, modeVars, calc, locked, sent, barrier, told>>

\* ... and the rest: the flag is cleared, whatever became of the slot meanwhile.
ReportClear ==
    /\ clearing
    /\ plan' = [plan EXCEPT ![scan].changed = FALSE]
    /\ clearing' = FALSE
    /\ scan' = scan + 1
    /\ UNCHANGED <<plan_first, plan_cur, plan_last, plan_len, active_plan_len,
                   engineVars, modeVars, calc, locked, sent, barrier, told>>

-----------------------------------------------------------------------------

Tick == TickFinish \/ TickTouch

Next ==
    \/ Tick
    \/ \E type \in {"move", "tool"} : Accept(type)
    \/ PlannerLock
    \/ PlannerUnlock
    \/ \E fail \in BOOLEAN : FailOnEndstops(fail)
    \/ Configure
    \/ PreCalcBegin
    \/ PreCalcEnd
    \/ BeginReport
    \/ ReportSlot
    \/ ReportClear

Spec == Init /\ [][Next]_vars

-----------------------------------------------------------------------------
(* The abstract queue                                                       *)

\* The nids waiting in the ring, the executing one first.
Queue == [k \in 1 .. active_plan_len |-> plan[At(plan_cur, k - 1)].nid]

Promise == INSTANCE MotionQueue WITH queue <- Queue, newest <- sent

-----------------------------------------------------------------------------
(* Properties                                                               *)

\* Every variable has its type; in particular the indices stay inside the ring
\* and one place of it stays free (the test of empty_slots is for zero only).
TypeOK ==
    /\ plan \in [Slots -> Actions]
    /\ plan_first \in Slots
    /\ plan_cur \in Slots
    /\ plan_last \in Slots
    /\ plan_len \in Slots
    /\ active_plan_len \in Nat
    /\ locked \in BOOLEAN
    /\ fail_on_endstops \in BOOLEAN
    /\ configured \in BOOLEAN
    /\ going \in BOOLEAN
    /\ engine \in Slots
    /\ scan \in Slots \cup {Nobody}
    /\ clearing \in BOOLEAN
    /\ clearing => scan \in Slots
    /\ calc \in Slots \cup {Nobody}
    /\ sent \in 0 .. MaxNid
    /\ barrier \in 0 .. sent
    /\ told \in SUBSET Nat

\* The slots to execute end where the next command goes, whatever mixture of
\* ticks, locks and calls came before: a command is never put behind a gap.
RingWindow == plan_last = At(plan_cur, active_plan_len)

\* The timer runs exactly when there is something to execute: the planner never
\* idles with accepted work left, and no tick comes for an empty queue.
WorkConserving == going <=> active_plan_len > 0

\* Once locked, by the host or by an endstop, nothing moves and nothing waits.
NoMotionWhileLocked == locked => ~going /\ active_plan_len = 0

\* The move the interrupt steps is the one the planner counts as current: the
\* end of a move is never credited to another slot.
EngineMatchesQueue == going => engine = plan_cur

\* Nothing accepted before a lock is executed after it: every slot to execute
\* holds a newer command, or was blanked.
PendingIsFresh ==
    \A i \in Pending : plan[i].nid = 0 \/ plan[i].nid > barrier

\* The five together.
Safety ==
    /\ RingWindow
    /\ WorkConserving
    /\ NoMotionWhileLocked
    /\ EngineMatchesQueue
    /\ PendingIsFresh

=============================================================================
