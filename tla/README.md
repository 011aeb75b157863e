# A verification of cnccontrol_rt

cnccontrol_rt is the real-time half of a CNC controller: it takes commands from
a host, one text line each, queues motion, and makes the steps of three motors
in a timer interrupt. This directory holds TLA+ models of it, the TLC
configurations that check them on small instances, and theorems about them that
TLAPS checks. Paths below are relative to `src/`.

- `tlc -config MCMegaLoop.cfg MCMegaLoop` (and so on) runs a model;
- `tlapm PlannerProofs.tla` (and the other `*Proofs` modules) checks the proofs;
- `PROJECT.json` maps every definition to the lines it models, every property to
  the run that checks it and to a mutant of the code that it catches, and lists
  the hazards and the findings.

Contents: [1 Inventory](#1-inventory), [2 Modules and the code](#2-modules-and-the-code),
[3 Runs](#3-runs), [4 Fairness](#4-fairness), [5 Proofs](#5-proofs),
[6 Findings](#6-findings), [7 What is left out](#7-what-is-left-out),
[8 Plan](#8-plan).

## 1 Inventory

One step interrupt (or timer thread) and one main context (or a few tasks) share
the planner and the moves. The bare loops lock nothing; on the stm32f302 and the
emulation a mutex covers part of it.

    host --line--> uart/udp --> shell --> gcodes --> gcode_handler --> planner
                                  ^                                     |   ^
                                  |  messages      print_events <-------+   | callbacks
                                  +-------------------------------------+   v
                                            step interrupt --> moves --> line / arc

| component | state | operations | how it interacts |
|---|---|---|---|
| planner (`core/control/planner`) | ring `plan[]`; `plan_first`, `plan_cur`, `plan_last`; `plan_len`, `active_plan_len`; `locked`, `fail_on_endstops`, `break_on_probe`, `last_nid` | `planner_line_to`, `_arc_to`, `_tool`, `planner_lock`, `_unlock`, `planner_pre_calculate`, `planner_report_states`; callbacks `line_started`, `line_finished`, `line_error`, `endstops_touched` | called by the handler (commands), by the main loop (profiles, reports) and from inside the step interrupt (callbacks) |
| moves (`core/control/moves`) | `current_move_type`, `ready`; `position.pos`, `target_pos`; the current line or arc with its error, its steps and its speed | `moves_line_to`, `moves_arc_to`, `moves_break`, `moves_step_tick` | started by the planner, ticked by the interrupt, calls the planner back at the end or on an endstop |
| line, arc, acceleration | `current_plan`, `current_state`; profile of speeds | Bresenham in three axes; an ellipse stepped along its longer axis; ramps | `planner_pre_calculate` fills the profile, or the start does |
| g-code parser (`core/gcode`) | none | `parse_cmdline` | reads the shell's input buffer in place |
| g-code handler (`core/control/commands/gcode_handler`) | `configured` (in the moves) | one branch per G and M command | calls the planner, the moves, the tools and the events |
| events, status (`core/control/ioqueue`, `commands/status`) | none | one message each; `send_ok` three | write into the shell's ring |
| tools, system | output pins | on, off; reboot | called by the planner and the handler |
| shell (`libs/libshell`) | `input_buffer`, `input_pos`; ring `messages[]`, `mpos`, `mnum`, `spos`; `shell_fails` | `shell_data_received`, `shell_data_completed`, `shell_add_message`, `shell_pick_message`, `shell_send_completed` | filled by the receive interrupt, emptied by the loop |
| mega2560 (`arch/mega2560`) | `uart_message_received`, RXIE, the step timer | `hardware_loop`, `USART0_RX_vect`, `TIMER1_COMPA_vect`, watchdog | a bare loop and two interrupts |
| stm32f103 (`arch/stm32f103`) | as above, but UDP | main loop, `tim2_isr` | a bare loop and one interrupt; it never calls `planner_report_states` |
| stm32f302 (`arch/stm32f302`) | FreeRTOS tasks, `shellMutex`, UDP | `preCalculateTask`, `udp_packet_handler`, `shellSendTask`, `tim2_isr` | tasks of one priority and an interrupt; profiles are computed outside the mutex |
| emulation (`arch/emulation`) | pthreads, `mutex`, `line_st` | `receive`, `make_tick`, `main` | three threads; reports are made outside the mutex |
| modbus (`libmodbus`) | none | a frame with CRC16 | sent over a serial line |

### What is hard about it

- **Interleaving.** The interrupt ends moves, starts the next, and locks, while
  the main context computes profiles, sends reports and accepts commands. Both
  write slots, states, flags and counters with no lock, and each board divides the
  work differently among loops, tasks, threads and mutexes.
- **Time.** One timer makes the steps and ends their pulses; a late interrupt must
  not make two steps of one pulse.
- **Ordering.** Reports walk the ring by place, not by age, and free "the oldest
  slot", whichever they reported.
- **Protocol.** A lock empties the ring by resetting some of its variables. What
  is left over meets the next unlock.
- **Re-entrance.** A callback out of a tick ends the current move, starts the next
  one (and any number of tools after it) and returns into the tick.
- **Limits.** The ring of messages has 8 places for 10 slots; the input buffer is
  shared with the receive interrupt and never cleared.
- **Arithmetic.** Error-free stepping rests on integer comparisons of twice an
  error with an odd or even length.

### What makes each part correct

- planner: indices and counters agree (`RingWindow`, `PlacesCounted`); the timer
  runs exactly when there is work (`WorkConserving`); the interrupt and the queue
  mean the same move (`EngineMatchesQueue`); a lock stops everything and forgets
  everything (`NoMotionWhileLocked`, `PendingIsFresh`); commands are executed in
  order, once (`ImplementsQueue`); a slot in use is not overwritten
  (`NoOverwrite`); reports are true (`NoPrematureReport`) and come
  (`ChangesSeen`); every command leaves the queue (`QueueDrains`).
- a call of the planner with interrupts and other tasks inside it: a command is
  started once and only when nothing runs (`StartsIdle`); all is well between calls
  (`AtRest`, `NoPremature`); a lock holds also if it comes inside of a call
  (`LockHolds`); the pieces keep the promise of the whole (`KeepsPromise`); no half
  computed line is started (`HalfOnlyByInterrupt`); what is queued is executed
  (`Moving`, which the code does not keep: finding 5).
- moves: straight to half a step (`Straight`), exact at the end (`Exact`), no step
  owed (`Arrived`), no line through an endstop (`LineStopsInTime`), every line ends
  (`LineEnds`).
- pulses: every step the program counts is one the motor makes (`NoStepLost`), no pin
  left set (`PinsAtRest`), every pulse ends (`PulseEnds`), no step comes too soon
  (`NotTooSoon`, which is proved and not the subject of a run).
- acceleration: the feed within its limits (`FeedWithin`), down at the end
  (`ArrivesSlow`), changing no faster than asked (`BrakesGently`, `RisesGentlyFirst`).
- parser: nothing skipped (`NothingSkipped`), nothing read that was not sent
  (`StaleIgnored`), numbers as written (`NumbersRead`).
- console: commands whole, executed once, answered; no message lost.

## 2 Modules and the code

| module | models | uses |
|---|---|---|
| `Planner` | `planner.c`, the callbacks of `moves_common.c`, the tick of `steppers.c` as the planner sees it; `Queue`, the mapping to `MotionQueue` | `MotionQueue` |
| `MotionQueue` | what the planner promises: a FIFO of command numbers that a lock empties | |
| `MegaLoop` | `arch/mega2560/main.c`, `platform.c` and the commands of `gcode_handler.c`, around `Planner`; the refinement to `MotionQueue` | `Planner` |
| `Moves` | `moves.c`, `line.c`, the positions of `common.c`, the endstop test of `planner.c`, arcs in outline | |
| `Acceleration` | the profile of `line_pre_calculate` and `acceleration.c`, for a line along one axis | |
| `Handoff` | the calls that queue a command, in pieces, on the loops, tasks and threads of four firmwares (`planner.c`, `line_pre_calculate`, the `main.c` of each board) | `Planner` |
| `Pulses` | `steppers.c` of three boards: the step timer, its two interrupts, the STEP pins | |
| `Console` | `uart.c`, `shell.c` and the loop between them | |
| `Gcode` | `gcodes.c` | |
| `PlannerProofs`, `MegaLoopProofs`, `HandoffProofs`, `MovesProofs`, `PulsesProofs`, `AccelerationProofs`, `ConsoleProofs`, `GcodeProofs` | theorems | their modules |
| `MCMegaLoop`, ... | instances for TLC | |

**Planner.** Variables keep the names of `planner.c`. A slot is `[nid, state,
changed, type]`; "move" stands for a line and an arc, since the planner treats
them alike. A call is one step. Two loops are not: `planner_report_states` sends
a message between reading a slot and clearing its flag (`ReportSlot`,
`ReportClear`), and `planner_pre_calculate` computes for long between testing a
slot and marking it (`PreCalcBegin`, `PreCalcEnd`); the step interrupt comes
between the halves. `GetCmd` is `get_cmd` with the recursion through
`line_finished` and `line_started` unfolded: from the current slot, the first `k`
commands are over at once (blank slots, tools, moves that end at their first
tick), and the next one runs, or fails on its endstop, which locks. Under a lock the
planner's `line_started` returns before it calls the board (`LineStarted`): the slot
is marked as started, no timer is switched on and no first tick made. `engine` is
the slot that `current_plan` of `line.c` points to: after a lock and an unlock a
new move may occupy it. `going` is whether the step timer runs. Three history
variables, `sent`, `barrier` and `told`, say what was accepted, when the last lock
was, and what was reported as over.

**MotionQueue.** The abstract specification. `Void` lets a waiting command lose
its contents; it is there because the code can do that (finding 1), and the
refinement would be false without it.

**MegaLoop.** The main context runs pre-calculation, the reports and then at most
one command per turn; `Isr` comes at any point. The host sends anything at any
turn, so `handle_g_command` is a choice over the branches of the handler.
`Configure`, `PlannerUnlock`, ... are the planner's own calls; `OtherCommand` is
every branch that leaves the planner as it is; `Reboot` is M999, after which the
watchdog resets the board and `main` runs again.

**Moves.** One move from its start to its end, tick by tick. A line is the
three-axis Bresenham of `make_step`, with `err`, `steps` and `maxi` of the code.
An arc asks for any step of `ArcSteps` at each tick and may end at any tick: its
geometry is floating point, but what `moves.c` does with its steps and with its
endstop check is not. `CheckedDirection` is the direction the endstop check is
shown: the line's own, and for an arc a variable nobody assigns. Positions and
targets carry over from move to move; `Break` is the lock in the middle of a move.

**Handoff.** `planner_line_to` and its sisters are six steps: the tests at the head
(`AcceptBegin`), the contents of the slot and `plan_last` (`AcceptWrite`), the read
and the write of `active_plan_len++` (`AcceptLoad`, `AcceptStore`), the state of the
slot (`AcceptMark`), and the test that starts it (`AcceptEnd`). `line_pre_calculate`
stores the fields of a profile in three groups (`Fill`), the first of which is what
`line_move_to` takes for the sign of a whole one. When an interrupt has locked in the
middle of a call, the call still comes to `get_cmd`; the move makes no tick then, and is
over at once only if its profile has a length and no steps (`OverOnlyWithoutSteps`).
`board` picks the firmware;
`After` is the order of its loop or task, `UnderMutex` what it holds the mutex for,
`Threaded` whether commands come in a task of their own. A tick (`Isr`) comes between
any two steps; on the boards it cannot be interrupted, and the emulation's tick
thread, whose calls are short next to its sleeps, is taken to be as quick. `hits` is
a history: "call" when the interrupt has ended a move between the handler's
reading of `active_plan_len` and its test of it or has locked in the middle of a
call, "profile" when a half computed line was started, "ring" when a command was
written into a slot that waits or runs; a lock forgets them. The properties say
`Unhit` or `Intact` where they need it: they name exactly the windows in which the
code can go wrong, and show that it does not outside of them and that the next lock
repairs the rest. `RingKept` says that "ring" does not happen where one loop both
queues and reports; it does not hold on the stm32f302 (section 6). The mega2560 takes
at most one command per turn (`Handled`), as `hardware_loop` does.

**Pulses.** Time is in counts of the timer. `Clock` is one count, with at most
`TickTime` of them in a tick and at most `Latency` with an interrupt waiting. At its
period `UpdateInterrupt` begins a tick, which makes steps (`MakeSteps`: a step on a
pin that is still set is `lost`), asks for a delay (`SetDelay`) and sets the counter
to 0; at `Compare` `CompareInterrupt` clears the pins. `separate` tells the mega2560
(two vectors, the period's first) from the stm32 (one, with an "else if", and a timer
that is stopped when no move runs). A move may end, or the next begin, inside a tick
(`LineFinished`, `NextStarted`) and a lock may stop the timer at any count
(`Locked`). `Period` computes with 32 bits, as `make_tick` does.

**Acceleration.** Feeds are squares, so that a step at an acceleration adds a
constant, `Gain`, and the lengths of ramps are quotients of integers, cut off as the
code cuts them off. The code integrates less exactly (it adds `a * ds / v` to `v`);
the difference (`Excess`) is in the model, rounded either way. One step adds at most
`Surplus` by it; over a ramp of a hundred steps it comes to more than a `Gain`, so that
the limits of the feed are stated with it. Step counts are unsigned and take `UINT`
values, 256 in the run and 2^32 in the code. The conversion of a ramp that is negative
or too long to unsigned is undefined and modelled as either what x86 or what ARM makes
of it. A line is shorter than `UINT / 2` steps: the code counts them in a float, which
stops at 2^24 (section 6).

**Console.** A character is the number of its line. The host sends lines of any
length, up to `Window` of them ahead of their answers. `RxIsr` appends to the
input buffer or sets the flag; the loop is one action for each point where the
interrupt can matter: the test of the flag (which clears it), RXIE off, the
command, RXIE on, one message out. With RXIE off, characters stay in the two
registers of the UART and then are lost. A command makes one or three messages
and up to two reports for later.

**Gcode.** A buffer of characters, the length that was received, and the parser's
position in it. What lies behind the length is part of the state, because the
loops of the parser look at it. Numbers are `[num, scale]`, exact for the lengths
checked.

## 3 Runs

| run | expects | size | shows |
|---|---|---|---|
| `mega_loop` | pass | 3 slots, 4 commands; 81k states | types, the five safety properties, places, overwriting, reports, configuration, the refinement; with fairness, that every command leaves the queue and every change is looked at |
| `handoff` | pass | 4 boards, 3 slots, 3 commands; 1.3M states, half a minute | the six properties of calls in pieces |
| `pulses` | pass | 2 motors, delays below, at and above the least period and above the width of the product, both kinds of board; 4.5k states | the three properties of pulses |
| `moves` | pass | lines of up to 2 steps per axis within -1..2, three arc steps; 178k states | the five properties of lines, among arcs, breaks and touches |
| `acceleration` | pass | lines of 1 to 9 steps, five feeds for each of F, P and L; 10k states, 2.4M steps | the four properties of a profile |
| `console` | pass | 2 slots, 8 messages, buffer of 2, 3 lines of up to 3; 162k states | the four properties of the serial line |
| `gcode` | pass | all buffers of 5 of 7 characters, all lengths; 211k states | the three properties of the parser |
| `endstop_disarmed` | violation | 3 slots, 4 commands | finding 1 |
| `places_leak` | violation | 3 slots, 4 commands | finding 2 |
| `arc_endstops` | violation | lines of up to 3 steps within -1..2 | finding 3 |
| `acceleration_jump` | violation | as `acceleration` | finding 4 |
| `queue_stalls` | violation | mega2560, 3 slots, 2 commands | finding 5 |

### Why the bounds are enough

- *Slots and commands.* With three slots the ring has a slot that runs, one that
  waits and the one kept free; indices wrap after three commands, and four
  commands fill it, and refill it after a lock while the leftovers of the first fill
  still lie in it. All the safety properties of `mega_loop` and of `handoff` are proved for
  every size. `Handoff` needs a command that runs, one that is being queued and one
  in the slot that is written again: three commands on three slots.
- *Pulses.* The constants keep the proportions of the mega2560 (pulse 3, least
  period 5 counts of 4 microseconds) with the width of the product and the greatest
  period made small, so that the four delays give the least period, one of its own,
  one that wraps and a greater that wraps. `TimingAssumption` is met with equality
  for the shortest. The safety properties are proved for all constants.
- *Lines.* Two steps per axis give every order of the axes, odd and even lengths,
  ties, and an axis of no length; X goes up only and Z makes one step at most, as
  the axes are alike. A box of -1..2 gives lines from, to and across an endstop at
  0, and room for what makes `Arrived` hard: an arc is broken in a jump of two
  steps and the next line goes on in the same direction. For any length the
  theorems stand. The arc steps have two axes at a time and the jump either way.
- *Acceleration.* Nine steps hold two ramps of four, or one of eight; the feeds give
  ramps of no, two, six and eight steps and one with a remainder, feeds below the
  least and above the most, and lines too short for one ramp or both. For any
  lengths, feeds and acceleration the theorems stand.
- *Console.* Three lines of up to three characters with a buffer of two overflow
  the buffer and the registers. The ring has exactly the room that `NoneLost`
  names, two messages per slot and four; without its condition on the length, TLC
  finds a loss for a ring of seven (and with 3 and 4 slots for one of nine and
  eleven, with ten and twelve for none).
- *Gcode.* Five characters hold an element with a minus or a point, and the
  beginning of the next; two places in the frame are filled and overfilled.
  `StaleIgnored`, `NothingSkipped` and `NumbersRead` are proved for any length.
- `MaxNid`, `MaxLines`, `MaxLength`, `LineSteps`, `Travel`, `Lengths`, `Feeds`,
  `BufferLen`, `TickTime`, `Latency` and `Delays` are the only bounds; each is named
  as one where it is declared.

Every run leaves deadlock checking on, except `gcode`: a parser returns.
Each property of a passing run has a mutant of the code (`PROJECT.json`,
"mutants") that it catches. The mutants stand in the modules before what they
mutate and are named and commented as such; no specification uses them.

### The promises that are conditional

- `PlacesCounted` and `NoOverwrite` hold because a slot is freed at most as often
  as it is filled: that is why the wrong slot can be freed (finding 1) and no
  command overwritten.
- `BlankedOnlyOutOfStep` says when it can go wrong: only while `plan_last` is not
  `plan_len` places after `plan_first`, which only a lock can bring about.
- The properties of `Handoff`, but for `LockHolds`, which has no condition, leave out
  what an interrupt in the middle of a call upsets (`Unhit`), until the next lock. `NoPremature` and `KeepsPromise` leave out the
  emulation, which reports while a slot is being written, and what follows when a slot
  in use has been written to (`Intact`). With one loop that never happens; on the
  stm32f302 it takes four slots and nine commands, more than the run has, and it was
  the proof of `KeepsPromise` that asked for it.
- Everything in `Pulses` is for ticks and latencies that fit between two steps
  (`TimingAssumption`); the code does not make sure of it, since the least period is
  a constant and a tick in floating point takes as long as it takes. In particular the
  assumption excludes a period that is over while a pin is set, so `NoStepLost` says
  nothing of the order in which the two interrupts are then served. An arc tick
  without a step asks for a delay of 0, for which the mega2560 allows its least period,
  5 counts or 20 microseconds. `NotTooSoon` is for delays whose product with the
  frequency fits 32 bits.
- `CommandWhole`, `ExecutedOnce` and `LineAnswered` are for a host that waits for
  the whole answer before it sends on. A host that goes on at the first message
  of an answer of three (as `debugutils/sender.py` does) overruns any ring.
- `ArrivesSlow` and `RisesGentlyFirst` are for lines with room for both ramps, the
  latter for those whose first ramp is not the longer (finding 4); `FeedWithin` for lines
  with room to brake, as the code is undefined for the others. All four allow for
  `Surplus`, what the integration of `accelerate` adds to a step: `FeedWithin` and
  `BrakesGently` once for each step of the first ramp, `ArrivesSlow` for each of the
  line. With a least feed that is large next to the gain of one step it is nothing;
  with a small one the line really is that much too fast.
- `NumbersRead` leaves out the last place of a full frame: the parser stops there
  and never looks at what follows, so that `G-2.5` would be read as -2.

## 4 Fairness

- `FairLoopSpec`: `WF(Main)`, since the loop of `main.c` has no wait in it, and
  `WF(Isr)`, since a move that runs comes to its end: the timer fires while it is
  on, and `Moves` shows that every line ends (`LineEnds`). That an arc ends
  depends on floating point and is assumed.
- `Moves!FairSpec`: `WF(moves_step_tick)`, the timer again.
- `Pulses!FairSpec`: `WF(Clock)`, the timer counts; `WF` of the two interrupts, which
  are not masked for ever; `WF` of the rest of a tick, which has no loop that waits.
- `Console!FairSpec`: `WF(Arrive)`, what the host has begun to send arrives;
  `WF(RxIsr)` and `WF(Main)`, neither is switched off for ever.

No action of the host is fair: it may stop sending.

## 5 Proofs

The proofs hold for every value of the constants under the assumptions the modules
name: `QUEUE_SIZE` is at least 1 and `MaxNid` a natural number (`Planner`,
`MegaLoop`); `Travel` a natural number, `LineSteps` and `ArcSteps` any sets of vectors
(`Moves`); the timing assumption (`Pulses`); rings, buffers, slots and lines of at
least one (`Console`); any alphabet and buffer, and a frame of at least one place
(`Gcode`); a least feed and a gain of at least 1, a greatest feed that is not below the
least, and lines shorter than half of what the step counts hold (`Acceleration`).
`Handoff` adds no assumption to `Planner`'s but which boards there are. `MotionQueue`
has no constants.

**Planner** (`PlannerProofs`): `TypeCorrect`, `NoGapInRing`, `NeverIdle`,
`LockStops`, `EngineInStep`, `LockForgets`. The inductive invariant `Inv` is
`TypeOK /\ Safety`, all of it: none of the parts is inductive alone.
`LineFinished` moves `plan_cur` only if there is a current command, which
`WorkConserving` gives to a tick. `GetCmd` walks over the window of commands to
execute, and `RingWindow` makes the window end where the new command is put, so
`Accept` extends it by that slot and no other. `EngineMatchesQueue` gives a
failing move its slot. `PendingIsFresh` follows from the window being empty after a
lock and each new slot being newer. `Inv` is grouped into `Ring` (what a tick, a
lock and an accepted command change together) and `Rest`; a lemma for each of
`Halt`, `GetCmd`, `LineFinished` and `Accept` shows that it keeps `Ring`, from
`WindowSuffix` and `WindowExtend` about windows, which rest on the arithmetic of
`%` at the head of the module. Steps that only relabel slots (reports, profiles) go
through `RingRelabelled`: they may change states and flags, or blank a slot, but
never invent a number.

**MegaLoop** (`MegaLoopProofs`): `LoopTypeCorrect`, `PlacesAreCounted`,
`ConfiguredFirst`, `LoopSafe`, `NoneReportedEarly`, `NoneOverwritten`,
`FreesNoneInUse`, `OnlyLocksPart`, `ArmedInStep`, `TicksDrain`. `PlacesCounted` is not
inductive: a lock sets `plan_len` to zero and leaves slots behind whose end is still to
be reported. `LoopInv` says
that until the report has gone over them the planner is locked, or nothing is queued
and the report is still to come to them (`Stale`). The counting is done once, in
`PlacesKept`: a step that adds at most `k` ends to report and takes as many from what
is to execute keeps the count. `LoopInv` needs the order of the loop, so the theorems are
about `LoopSpec` and not about `Planner!Spec`, where they are false. That reports are
true and nothing is overwritten takes more (`FateInv`): no number is in two slots and
none newer than `sent` is anywhere; the slot that `plan_last` points to has no end left to
report when a command is handled (`LastClear`), since the ends and the commands to
execute fit into the ring together; and nothing that waits or runs has been told of.

Two theorems say how far finding 1 goes. `OnlyLocksPart`: `plan_first` and `plan_last`
stay `plan_len` apart (`InStep`) through every step that does not lock, since `pop_cmd`
and the accepting calls move the indices and the count together. `ArmedInStep`: as long
as they are, a running move keeps its endstop check. The invariant is that the slot the
engine steps is a move (`RunsMove`): `get_cmd` starts moves alone (`StartsMove`), a new
command goes to another slot (`AcceptsIntoFree`), and a slot that executes is freed only
out of step (`FreedOutOfStep`, which is also the core of `FreesNoneInUse`). So the
`plan_first` that `_planner_lock` forgets is the only way to the finding. `TicksDrain` is
the part of `QueueDrains` that is not fairness: each interrupt that ends a move makes the
queue shorter, and only accepting a command makes it longer, by one.

**The refinement** (`RingImplementsQueue`, in `MegaLoopProofs`): `LoopSpec` implements
`MotionQueue!Spec` under the mapping `Queue`. Each step of the planner is shown to
advance the queue, append to it, discard it, void one of its elements, or leave it
(`MovedAdvances`, `QueueAppends`, `HaltDiscards`, `PopCmdVoids`, `Stutter`, all in
`PlannerProofs`, since `HandoffProofs` needs them too). That the slot a step writes or
frees is at most one element of the queue needs the queue to be shorter than the ring (`FewerThanRing`), which is
where `LoopInv` comes in: `active_plan_len <= plan_len < QUEUE_SIZE`. What the queue
promises is then carried over to the firmware: `QueueInOrder` (the commands to execute
are in the order of their acceptance) and `ExecutedAtMostOnce` (none comes back), from
the shape of a step of the queue (`QueueStep`, `OrderKept`).

**Handoff** (`HandoffProofs`): `HandoffTyped`, `StartedOnce`, `WholeBetweenCalls`,
`LockHoldsAnywhere`, `NoneReportedWhileQueued`, `OneLoopKeepsRing`, `HandlerStartsWhole`,
`PiecesKeepPromise`, `NothingFreed`, for every size of the ring and all four firmwares. What `Planner`
keeps from call to call is broken inside of one: a slot is written before it is counted,
and counted before it is started. `HandoffInv` says what holds at each piece instead:

- `Schedule`: which contexts can be at work together, from the order of the loop on the
  bare boards and from the mutex on the others;
- `Pieces`, as long as no interrupt has upset a call: up to the store the ring is as
  whole calls leave it, with the slot behind it reserved; from the store on it has one
  command more, and the timer runs exactly if there was one before. So
  `active_plan_len` is 1 in the test at the end only if nothing runs;
- `Names` and `Unended`: no number is in two slots, the slots to execute are not over,
  but for what its last user left in the one that is being written, which no report looks
  at on a board where the report and the handler exclude each other;
- `Room`: on a single loop `plan_len` counts the slots to execute and the one reserved,
  and on the mega2560 the ends to report too (the stm32f103 never reports);
- `Profiles`: half a profile lies only in the slot that the loop is computing.

A lock sets everything from scratch (`Halt`), so that what an upset call leaves wrong
does not outlive it. `LockHoldsAnywhere` needs none of this and no condition: whatever an
interrupt has upset, the timer is off under a lock, since a lock stops it and only
`get_cmd` starts it, through the test of `line_started` (`LockKept`).
`NothingFreed` is about the stm32f103, whose loop never reports: only a lock makes
`plan_len` smaller. The effect of each action is stated once as a relation of two
states (`EndEffect`, `ReportEffect`, `IsrEffect`, ...), and every part of the invariant
is proved from these.

**Moves** (`MovesProofs`): `TypeCorrect`, `StaysStraight`, `EndsExactly`,
`LineArrives`, `LineStops`, `LineRunsDown`. The invariant is, for each axis, the balance `steps * made
= direction * (t * |x| - err)` with `-steps <= 2 err < steps` (and `err = 0` on the
longest axis). `AxisStep` shows that a tick keeps it, whether the axis steps or not; at
`t = steps` the balance leaves a multiple of `steps` smaller than `steps`, which is
zero (`SmallMultiple`), so the line is exact. `LineArrives` is not so simple, as a
line starts with `ready` set whatever is still owed: `Settled` says that a line that
has made a tick and is ready is where its target is (`ReadyArrives`), and a line ends
only after a tick. `LineStops` needs the whole tick: the check comes before the steps,
and an axis goes down only if it was open. `LineRunsDown` is the part of `LineEnds` that
is not fairness: `ToGo`, the ticks a line still has to make and the steps that wait to be
made, falls with every tick that does not end the line. A tick of the line moves each
target by at most a step and each axis by a step (`NoFurther`); a tick that catches up
finds an axis behind, as what is not ready owes a step (`Behind`).

**Pulses** (`PulsesProofs`): `EveryStepMade`, `PinsRest`,
`PulseEndsInTime`, `NeverTooSoon`, the last about `NotTooSoon`. The
invariant bounds the counter by what has been waited for: in a tick by
`Latency + busy`, with the end of a pulse due by `Compare + waited`. Under
`TimingAssumption` both are at most the period, so the period is never over while a pin
is set.

**Acceleration** (`AccelerationProofs`): `TypeCorrect`, `FeedStaysWithin`,
`LineArrivesSlow`, `NeverBrakesHard`, `NeverRisesHardFirst`. `Profile` says what
`line_pre_calculate` gives to the state machine, in 32 bits: the first ramp is no longer
than asked for, or so long that the line ends before it, and then the line is too short
to brake; with room for both ramps the first ends before the last begins, and the last
begins early enough. Of the correction of the two ramps (`BalancedIs`) it shows by the
way that its last line, which lengthens the first ramp, never runs. `Following` is what
the state machine keeps: on the first ramp the feed is what so many steps make of
`feed0`, up to the surplus; on the last what so many steps take from `feed`. The
excess of a step is at most `Surplus` and never makes up for the `Gain` it takes
(`ExcessIs`).

**Console** (`ConsoleProofs`): `ConsoleTyped`, `RingSuffices`, `CommandsWhole`,
`NeverTwice`. With a host that waits, one line is somewhere between the host and its
answer, in one place only: `Turn` says that while it is asked for (`Asking`) none of
its answer has been made, that the characters in the buffer and those on the wire make
up the line, and that the flag, the registers and the loop cannot each hold a part of
it. `Room` bounds the ring: with no answer in it there are only reports, and these and
those still owed are at most two for each slot; behind the last message of an answer
the same; an answer and the reports it makes owed add five, of which one has left
before the loop comes to the next. So four places more are enough.

**Gcode** (`GcodeProofs`): `LeftoversIgnored`, `EveryLetterRead`, `EveryNumberRead`. For
the first, the loop over digits stops at the same place whatever lies behind the text,
since it compares with the end (`SameDigits`), and the loop over spaces, which does not,
runs past the end only when the element is the end of the text wherever it stops
(`SameSpaces`). For the second, an element takes spaces, one letter and numerals
(`LetterRead`), so the letters before the parser's place are the frame (`Progress`),
and an element without a letter is one that ends the text (`EndStep`). That loops over
characters stop where they should rests on one lemma, `MinIsLeast`: every set of places
that is not empty has a first.

For the third, what a loop over digits makes is characterised without recursion, as a
prover without induction over data cannot follow it to its result: a value is the number
that the text shows if dividing it by the right power of ten leaves each of the digits
(`IsNumber`). The function that the loop computes is a step repeated (`Recursion`), and a
statement that holds at its start and is kept by a step holds at its end (`Onward`, an
induction over places of the frame, which takes no operator as a parameter). So each digit
of the value is the one that was read (`ValueDigits`, from `DivOfShifted` about division
and `TenTimes` about powers of ten); a number with a point is two such runs with their
scales added (`TwoRuns`). `Numbers` says that the elements read so far are, one by one,
the letters passed and the numbers behind them, and `NumbersComplete` that at the end these
are all there are.

### Only model-checked

Liveness (`QueueDrains`, `ChangesSeen`, `LineEnds`, `PulseEnds`, `LineAnswered`) stays
with TLC for good: the prover does not do liveness under fairness, nor ENABLED. What three
of them owe to the code and not to fairness is a theorem: the measures that fall
(`TicksDrain` for `QueueDrains`, `LineRunsDown` for `LineEnds`), and a bound on the length
of a pulse (`PulseEndsInTime`). Every other property that a passing run checks, invariant,
action property or refinement, is a theorem.

## 6 Findings

1. **A running move loses its endstop check** (`endstop_disarmed`, violating
   `EndstopArmed`).
   `_planner_lock` resets `plan_cur`, `plan_last` and both counters, but not
   `plan_first`. The report of the slot that the lock marked then frees the slot at
   `plan_first`, which after an unlock can be the one the interrupt is stepping. Its
   `check_break` is gone and the move runs through the endstop. By the same way a
   waiting move is emptied: it is not made, and is reported completed.
2. **Places leak** (`places_leak`, violating
   `PlacesReturned`). `planner_report_states` clears `state_changed`
   after it sent the message (`planner.c:118`); a completion marked in between is not
   reported and its place not freed until the next lock.
   An end can be lost by the order of the pass too, with the indices in step and no
   interrupt in it: `pop_cmd` frees the slot at `plan_first`, whichever slot is reported.
   When a move in the last slot of the ring and a tool in slot 0 end together, slot 0 is
   reported first and the slot of the move is blanked: the host is never told that the move
   is over, and the place of the tool stays counted. The same happens where the older of
   two commands ends behind the scan and the newer before it.
3. **Arcs ignore the endstops** (`arc_endstops`, violating
   `NeverThroughStop`). `arc_check_endstops` shows a
   direction that nothing assigns.
4. **The feed jumps** (`acceleration_jump`). `line_pre_calculate` takes the step at
   which braking begins for the length of the last ramp when it asks whether both ramps
   fit. When the first ramp is the longer one it is cut to a half, and at its end the
   feed is set to the target: with 100 steps per mm, `P1 F40 L40 T40` over 4000 steps
   rises by 11.7 mm/s in one step. When the ramps overlap nothing is corrected and
   the line never comes down to its last feed.
5. **The queue stops** (`queue_stalls`, violating
   `Moving`). `active_plan_len++` of `_planner_line_to` (`planner.c:332`) is a read and a
   write. When the running move ends between them, the decrement of `next_cmd` is lost:
   the counter says 2, the test at the end finds that the command is not the only one,
   and nothing runs. Every later command makes the counter greater, so `get_cmd` is not
   called again until a lock. An endstop that locks inside of the call leads to the same:
   the handler counts its command from 0, finds it the only one and calls `get_cmd`, which
   marks the slot as started; `line_started` starts nothing under the lock. The lock holds
   (`LockHolds`), but after `M800` one command is counted, none runs, and the later ones
   wait behind it. If it is the slot of the failed move that is marked, its failure is
   overwritten before it is reported.

Met while proving: **a full ring counts places as free** (stm32f302). A lock sets
`plan_len` to 0 and leaves ends to be reported. The loop of the mega2560 reports them
before it takes the next command; on the stm32f302 (`main.c:41-45`) the report is a task
of its own, and a host can unlock and send again before it runs. Each end it then reports
calls `pop_cmd`, which takes one from a `plan_len` that counts only the new commands.
`empty_slots` then promises places that are taken, and `planner_line_to` writes over a
command that waits. With four slots it takes nine commands. `KeepsPromise` and
`NoPremature` exclude it by name ("ring" in `hits`), and `OneLoopKeepsRing` shows that
it cannot happen where one loop does both.

Met while reading, and not the subject of a run:

- numbers without a decimal point are stored in `val_i` and read through `val_f` of the
  same union, and all the examples of `README.md` write feeds so;
- `delay_us * FTIMER` is computed in 32 bits: delays of more than 17179 microseconds on
  the mega2560, and 42949 on the stm32, wrap and the next step comes too soon; the
  default feed of `README.md:64` asks for longer ones. The greatest period, 65535, is never
  reached;
- a pulse whose compare flag was left pending by the move before lasts no count at all;
- a line that closes its endstop with its last step is failed and locks the planner on
  the next tick, though `test_planner.c` (which no longer builds) moves that way;
- a line shorter than its last ramp converts a negative number to `uint32_t`, and on x86
  speeds up past its feed;
- the steps of a line are counted in a float (`acceleration.h:20`), which stops at 2^24:
  a line of more steps never ends;
- the feed of a long first ramp goes past its target: `accelerate` adds `a * dt` with the
  `dt` of the feed before, more than the acceleration allows, and nothing compares it with
  the target until the ramp is over;
- a command without T divides by an acceleration of 0; the documented defaults of F and
  T are 0 in the code;
- the README's `M998` is an unknown command, and locks; the parser refuses `G0X`, which
  `test_gcode.c` accepts; signed numbers with a point (`-5.0`) are refused; the checksum
  branch of `parse_cmdline` cannot be reached, as `parse_element` refuses `*`;
- the stm32f103 loop never reports, so that no place is freed until a lock
  (`NothingFreed`);
- the emulation's `line_finished` joins its own thread when a move ends (`EDEADLK`,
  without harm), its tick thread ends silently when a delay rounds to 0, and a second
  client finds the planner as the first one left it, tick thread included
  (`emulation/main.c:284`).

## 7 What is left out

- **The interrupt inside a lock or a report.** `planner_lock` and `pop_cmd` are one
  step; `plan_len++` of `_planner_line_to` and `plan_len--` of `pop_cmd` too, which on the
  stm32f302 are kept apart by the mutex and in the emulation are not.
- **A profile torn field by field.** `Handoff` has three groups of fields; that
  `planner_pre_calculate` computes one again over a line that is running is in it, what the
  line makes of the mixture is not.
- **Delays of moves.** `Pulses` takes any delay of a set and `Acceleration` has feeds, not
  delays; profiles of arcs and of lines along several axes, whose steps differ in length,
  are left out.
- **Arc geometry**: floating point.
- **M997 and M100 during a move**, which write what the interrupt reads. After M997 the
  coordinates are not the machine's, so that `Moves` would need a second position for the
  endstops.
- **The emulation's tick thread** is as quick as an interrupt, and there is one of it;
  reconnecting clients are left out, as a tick in a move of no kind reads variables without
  a value.
- **The network** (`iface.c`, the task that sends messages, UDP): drivers and a stack that
  is not in the repository. A datagram that is lost is a line that was never sent.
- **The status register of the stm32's timer** is read once and written back in
  `tim2_isr`; a flag set in between is kept or lost by the timer's own rules, and taken to
  be kept.
- **Wording of messages, pins, registers.**
- **START:, EXIT: and MB: lines.** The first two are not answered; a modbus frame is a
  pure function of its command, with a CRC by table.
- Widths: `int32_t` positions are integers; `err * 2` overflows only for lines of
  2^30 steps. `int8_t delta` of `common.c:91` overflows for a lead of more than 127
  steps, which a line never has.

## 8 Plan

Done: `Planner`, `MotionQueue` and `MegaLoop` with the refinement; `Moves`; `Console`;
`Gcode`; `Acceleration`; `Handoff`; `Pulses`; and the proofs of section 5: a theorem for
every property of a passing run but those named under "Only model-checked".

Next, in this order:

1. `Console`: that the ring of messages holds what was put in, in the order it was
   put in, as a refinement of a queue.
2. M997 and M100 in `Moves`, with the machine's position beside the program's.
