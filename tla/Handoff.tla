------------------------------- MODULE Handoff -------------------------------
(****************************************************************************)
(* How a command gets from the handler to the step interrupt: the calls of  *)
(* Planner that take it there, split where the interrupt can come between,  *)
(* on the four firmwares built from the same planner.                       *)
(*                                                                          *)
(* planner_line_to and its two sisters test the lock and the free places,   *)
(* write the slot, move plan_last, add one to active_plan_len (a read and a *)
(* write), mark the slot as queued, and start it if it is the only one.     *)
(* line_pre_calculate stores the fields of a profile one by one, len first, *)
(* and len is what line_move_to takes for the sign of a computed profile.   *)
(*                                                                          *)
(* What calls what differs:                                                 *)
(*   mega2560   one loop: profiles, reports, at most one command            *)
(*   stm32f103  one loop: profiles, commands; it never reports              *)
(*   stm32f302  a task for reports, under shellMutex, and profiles, under   *)
(*              none; a task for commands, under shellMutex; all tasks have *)
(*              one priority and share the processor by time slices         *)
(*   emulation  a thread for profiles, under the mutex, and reports, under  *)
(*              none; a thread for commands, under the mutex; ticks from a  *)
(*              third thread                                                *)
(* A tick is one step: on the boards it is an interrupt; the emulation's    *)
(* tick thread is taken to be as fast.                                      *)
(****************************************************************************)
EXTENDS Planner

CONSTANT Boards    \* the firmwares to look at

AllBoards == {"mega2560", "stm32f103", "stm32f302", "emulation"}

ASSUME BoardsAssumption == Boards \subseteq AllBoards

VARIABLES
    board,     \* the firmware that runs
    turn,      \* what the loop, or the task that is not the handler's, is at
    mutex,     \* shellMutex, or the emulation's mutex: who holds it
    hpc,       \* what the handler does next in the call it is in
    htype,     \* type of the command it is queueing
    cur,       \* the local cur: the slot it writes to
    loaded,    \* value of active_plan_len its increment has read
    prof,      \* per slot, the fields of its profile that are computed
    filled,    \* fields of the profile it is at that the loop has stored
    hits       \* history: what has gone wrong since the planner last locked:
               \*   "call"     an interrupt upset a call it came into
               \*   "profile"  a line was started half computed
               \*   "ring"     a command was put into a slot that waits or runs

handlerVars == <<hpc, htype, cur, loaded>>
schedVars == <<board, turn, mutex>>
profVars == <<prof, filled>>
hvars == <<vars, schedVars, handlerVars, profVars, hits>>

\* len; steps and maxi; acc_steps and dec_steps. In the order they are stored.
Fields == <<"len", "steps", "ramps">>
Whole == {"len", "steps", "ramps"}

-----------------------------------------------------------------------------
(* Who may run                                                              *)

\* The handler is a task of its own.
Threaded == board \in {"stm32f302", "emulation"}

\* What the loop does after turn.
After(b, t) ==
    CASE b = "mega2560" -> (CASE t = "precalc" -> "report"
                              [] t = "report" -> "command"
                              [] OTHER -> "precalc")
      [] b = "stm32f103" -> (IF t = "precalc" THEN "command" ELSE "precalc")
      [] OTHER -> (IF t = "precalc" THEN "report" ELSE "precalc")

\* Mutants: the emulation computes profiles, the stm32f302 reports, without it.
UnderMutexTask(b, t) == b = "stm32f302" /\ t = "report"
UnderMutexThread(b, t) == b = "emulation" /\ t = "precalc"

\* The turn that the mutex is held for.
UnderMutex(b, t) ==
    \/ b = "stm32f302" /\ t = "report"
    \/ b = "emulation" /\ t = "precalc"

\* The handler may take up a command.
MayHandle ==
    /\ hpc = "idle"
    /\ IF Threaded THEN mutex = "free" ELSE turn = "command"

\* It has handled it: hardware_loop takes one command a turn.
Handled == turn' = IF board = "mega2560" THEN After(board, turn) ELSE turn

HandoffInit ==
    /\ Init
    /\ board \in Boards
    /\ turn = "precalc"
    /\ mutex = IF UnderMutex(board, "precalc") THEN "loop" ELSE "free"
    /\ hpc = "idle"
    /\ htype = "move"
    /\ cur = 0
    /\ loaded = 0
    /\ prof = [i \in Slots |-> {}]
    /\ filled = 0
    /\ hits = {}

-----------------------------------------------------------------------------
(* The call that queues a command                                           *)

\* The tests at its head.
AcceptBegin(type) ==
    /\ MayHandle
    /\ ~locked
    /\ EmptySlots # 0
    /\ sent < MaxNid
    /\ hpc' = "write"
    /\ htype' = type
    /\ mutex' = IF Threaded THEN "handler" ELSE mutex
    /\ UNCHANGED <<vars, board, turn, cur, loaded, profVars, hits>>

\* Contents and number, not the state; then the index and the first counter.
AcceptWrite ==
    /\ hpc = "write"
    /\ cur' = plan_last
    /\ plan' = [plan EXCEPT ![plan_last].nid = sent + 1, ![plan_last].type = htype]
    /\ prof' = [prof EXCEPT ![plan_last] = {}]
    /\ plan_last' = At(plan_last, 1)
    /\ plan_len' = plan_len + 1
    /\ hpc' = "load"
    /\ hits' = hits \cup (IF plan_last \in Pending THEN {"ring"} ELSE {})
    /\ UNCHANGED <<plan_first, plan_cur, active_plan_len, engineVars, modeVars, loopVars,
                   locked, sent, barrier, told, schedVars, htype, loaded, filled>>

\* active_plan_len++
AcceptLoad ==
    /\ hpc = "load"
    /\ loaded' = active_plan_len
    /\ hpc' = "store"
    /\ UNCHANGED <<vars, schedVars, htype, cur, profVars, hits>>

AcceptStore ==
    /\ hpc = "store"
    /\ active_plan_len' = loaded + 1
    /\ sent' = sent + 1
    /\ hpc' = "mark"
    /\ UNCHANGED <<plan, plan_first, plan_cur, plan_last, plan_len, engineVars, modeVars,
                   loopVars, locked, barrier, told, schedVars, htype, cur, loaded, profVars, hits>>

AcceptMark ==
    /\ hpc = "mark"
    /\ plan' = [plan EXCEPT ![cur].state = "queued", ![cur].changed = FALSE]
    /\ hpc' = "test"
    /\ UNCHANGED <<plan_first, plan_cur, plan_last, plan_len, active_plan_len, engineVars,
                   modeVars, loopVars, locked, sent, barrier, told, schedVars, htype, cur,
                   loaded, profVars, hits>>

\* The slots whose move this step starts, of those that were to execute.
Starting(slots) == {i \in slots : plan[i].type = "move" /\ plan'[i] # plan[i]}

\* A line is started with its len and without the rest.
Half(slots) == \E i \in Starting(slots) : "len" \in prof[i] /\ prof[i] # Whole

\* A move that has no len yet makes its whole profile as it starts
\* (line_move_to, arc_move_to).
ProfileOnStart(slots) ==
    /\ prof' = [i \in Slots |->
                   IF i \in Starting(slots) /\ "len" \notin prof[i] THEN Whole ELSE prof[i]]
    /\ UNCHANGED filled

\* A move that get_cmd meets under a lock makes no tick: it is over at once only
\* if its line has a len and no steps.
OverOnlyWithoutSteps ==
    locked /\ plan[plan_cur].type = "move" /\ prof[plan_cur] # {"len"} => active_plan_len' = 1

\* active_slots() == 1, and get_cmd.
AcceptEnd ==
    /\ hpc = "test"
    /\ hpc' = "idle"
    /\ mutex' = IF Threaded THEN "free" ELSE mutex
    /\ Handled
    /\ UNCHANGED <<board, htype, cur, loaded, modeVars, loopVars, sent, told>>
    /\ IF active_plan_len = 1
       THEN /\ GetCmd(plan, plan_cur, 1, plan_last, plan_len, going)
            /\ OverOnlyWithoutSteps
            /\ ProfileOnStart(Pending)
            /\ hits' = hits \cup (IF Half(Pending) THEN {"profile"} ELSE {})
       ELSE UNCHANGED <<ringVars, engineVars, locked, barrier, profVars, hits>>

Queueing ==
    \/ \E type \in {"move", "tool"} : AcceptBegin(type)
    \/ AcceptWrite
    \/ AcceptLoad
    \/ AcceptStore
    \/ AcceptMark
    \/ AcceptEnd

\* The other commands are one step. A lock forgets what was wrong.
OtherCommand ==
    /\ MayHandle
    /\ Handled
    /\ \/ PlannerLock /\ hits' = {}
       \/ /\ \/ PlannerUnlock
             \/ \E fail \in BOOLEAN : FailOnEndstops(fail)
             \/ Configure
          /\ UNCHANGED hits
    /\ UNCHANGED <<board, mutex, handlerVars, profVars>>

-----------------------------------------------------------------------------
(* The loop, or the other task                                              *)

\* From one of its duties to the next, with the mutex when the next needs it.
NextTurn ==
    LET next == After(board, turn)
    IN  /\ hpc = "idle" \/ Threaded
        /\ calc = Nobody
        /\ scan = Nobody
        /\ UnderMutex(board, next) => mutex = "free"
        /\ mutex' = IF UnderMutex(board, next) THEN "loop"
                    ELSE IF UnderMutex(board, turn) THEN "free" ELSE mutex
        /\ turn' = next
        /\ scan' = IF next = "report" THEN 0 ELSE scan
        /\ UNCHANGED <<ringVars, engineVars, modeVars, clearing, calc, locked, sent, barrier,
                       told, board, handlerVars, profVars, hits>>

\* line_pre_calculate stores its next field; arc_pre_calculate sets ready
\* last, so that all of it comes at once.
Fill ==
    /\ turn = "precalc"
    /\ calc # Nobody
    /\ filled < Len(Fields)
    /\ \E n \in IF filled = 0 THEN {1, Len(Fields)} ELSE {filled + 1} :
        /\ filled' = n
        /\ prof' = [prof EXCEPT ![calc] = @ \cup {Fields[k] : k \in filled + 1 .. n}]
    /\ UNCHANGED <<vars, schedVars, handlerVars, hits>>

Precalc ==
    /\ turn = "precalc"
    /\ \/ PreCalcBegin /\ filled' = 0
       \/ filled = Len(Fields) /\ PreCalcEnd /\ UNCHANGED filled
    /\ UNCHANGED <<schedVars, handlerVars, prof, hits>>

Report ==
    /\ turn = "report"
    /\ ReportSlot \/ ReportClear
    /\ UNCHANGED <<schedVars, handlerVars, profVars, hits>>

-----------------------------------------------------------------------------
(* The interrupt                                                            *)

\* It ends a move between the handler's reading of active_plan_len and its
\* test of it, or locks anywhere in the call.
HitsCall == hpc \in {"store", "mark", "test"} \/ (hpc # "idle" /\ locked')

Isr ==
    /\ Tick
    /\ ProfileOnStart(Pending \ {plan_cur})
    /\ hits' = IF hpc = "idle" /\ ~locked /\ locked' THEN {}
               ELSE hits \cup (IF HitsCall THEN {"call"} ELSE {})
                         \cup (IF Half(Pending \ {plan_cur}) THEN {"profile"} ELSE {})
    /\ UNCHANGED <<schedVars, handlerVars>>

HandoffNext ==
    \/ Queueing
    \/ OtherCommand
    \/ NextTurn
    \/ Fill
    \/ Precalc
    \/ Report
    \/ Isr

HandoffSpec == HandoffInit /\ [][HandoffNext]_hvars

-----------------------------------------------------------------------------
(* Properties                                                               *)

HandoffTypeOK ==
    /\ TypeOK
    /\ board \in Boards
    /\ turn \in {"precalc", "report", "command"}
    /\ mutex \in {"free", "loop", "handler"}
    /\ hpc \in {"idle", "write", "load", "store", "mark", "test"}
    /\ htype \in {"move", "tool"}
    /\ cur \in Slots
    /\ loaded \in Nat
    /\ prof \in [Slots -> SUBSET Whole]
    /\ filled \in 0 .. Len(Fields)
    /\ hits \in SUBSET {"call", "profile", "ring"}

\* No interrupt has upset a call; nor has a full ring been written to.
Unhit == "call" \notin hits
Intact == Unhit /\ "ring" \notin hits

\* The handler finds its command the only one just when nothing runs, so that
\* get_cmd starts it, and starts it once.
StartsIdle == Unhit /\ hpc = "test" /\ active_plan_len = 1 => ~going

\* Between two calls the planner is as if calls were whole, on every board, and
\* the next lock repairs what an interrupt in a call has upset.
AtRest ==
    Unhit /\ hpc = "idle" =>
        RingWindow /\ WorkConserving /\ NoMotionWhileLocked /\ EngineMatchesQueue

\* Where the loop is alone or precalc holds the mutex, the handler never starts
\* a line that is half computed; only the interrupt can.
HalfOnlyByInterrupt ==
    [][hpc = "test" /\ hpc' = "idle" /\ Half(Pending) => board = "stm32f302"]_hvars

\* No command is called completed or failed before it is executed, except by the
\* emulation, which reports while a slot is being written.
NoPremature ==
    Intact /\ board # "emulation" => \A i \in Pending : plan[i].nid \notin told \ {0}

\* Where the handler and the report are one loop, no command is put into a slot
\* that waits or runs.  Where they are two tasks it is: after a lock the host can
\* unlock and send commands before the ends it left behind are reported, and each
\* of these takes one from plan_len that it has not been counted in.
RingKept == ~Threaded /\ Unhit => "ring" \notin hits

\* A lock holds, whatever the handler is in the middle of: planner_line_to tests it
\* at its head and calls get_cmd at its end, and when an interrupt has locked in
\* between it is line_started alone that keeps the axes still.
LockHolds == locked => ~going

\* An accepted command is executed: between two calls the machine moves if the
\* planner is not locked and something is left to execute (test_planner.c, after
\* planner_unlock and planner_line_to: assert(moving == 1)).
Moving == hpc = "idle" /\ ~locked /\ active_plan_len > 0 => going

\* The calls in pieces keep the promise the whole calls keep: a command counts
\* as accepted when active_plan_len is stored.
KeepsPromise ==
    [][(Intact)' /\ board # "emulation" => Promise!Next \/ UNCHANGED Promise!qvars]_hvars

=============================================================================
