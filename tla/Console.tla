------------------------------- MODULE Console -------------------------------
(****************************************************************************)
(* The serial line of the mega2560 firmware: the receive interrupt and its  *)
(* flag (arch/mega2560/uart.c), the input buffer and the ring of messages   *)
(* (libs/libshell/shell.c), and the loop that polls the one and empties the *)
(* other (arch/mega2560/platform.c, main.c).                                *)
(*                                                                          *)
(* The host sends lines and may have Window of them unanswered. A character *)
(* is the number of the line it belongs to, or the end of the line. What a  *)
(* command does is abstracted to the messages it makes: its answer, one or  *)
(* three (send_ok), and the reports it makes the planner owe. A line that   *)
(* has no answer (START:, EXIT:) is not sent.                               *)
(*                                                                          *)
(* Received characters wait in the UART when the interrupt is off, and are  *)
(* lost when there are too many. With the interrupt on, it is assumed to be *)
(* served in time: the step interrupt is short compared to two characters.  *)
(****************************************************************************)
EXTENDS Naturals, Sequences, FiniteSets

CONSTANTS
    SHELL_RING_LEN,   \* messages that wait to be sent
    SHELL_MSG_LEN,    \* characters of the input buffer
    QUEUE_SIZE,       \* slots of the planner
    Window,           \* lines the host sends without having an answer
    MaxLines,         \* bound: lines the host sends
    MaxLength         \* bound: characters of a line

ASSUME ConsoleAssumption ==
    /\ SHELL_RING_LEN \in Nat \ {0}
    /\ SHELL_MSG_LEN \in Nat \ {0}
    /\ QUEUE_SIZE \in Nat \ {0}
    /\ Window \in Nat \ {0}
    /\ MaxLines \in Nat
    /\ MaxLength \in Nat \ {0}

Lines == 1 .. MaxLines
Eol == MaxLines + 1
Report == 0
UartRegisters == 2     \* the receive buffer of the ATmega2560

\* A slot is reported started and finished, at most; a lock marks slot 0.
MaxOwed == 2 * QUEUE_SIZE

VARIABLES
    line,       \* the line the host sends, or sent last
    length,     \* its characters, without the end
    left,       \* those it still has to send, with the end
    ahead,      \* history: a line was begun before the one before was answered
    fifo,       \* characters in the UART
    rxie,       \* the receive interrupt is enabled
    input,      \* input_buffer up to input_pos
    received,   \* uart_message_received
    pc,         \* where hardware_loop is
    owed,       \* reports the planner has still to make
    ring,       \* messages[]: Report, or the line a message answers
    lost,       \* history: what shell_add_message refused (shell_fails)
    answered    \* the lines the host has had the whole answer to

hostVars == <<line, length, left, ahead>>
inputVars == <<fifo, rxie, input, received>>
outputVars == <<owed, ring, lost, answered>>
vars == <<hostVars, inputVars, pc, outputVars>>

Init ==
    /\ line = 0
    /\ length = 0
    /\ left = 0
    /\ ahead = FALSE
    /\ fifo = <<>>
    /\ rxie = TRUE
    /\ input = <<>>
    /\ received = FALSE
    /\ pc = "report"
    /\ owed = 1               \* the lock of main has marked slot 0
    /\ ring = <<Report>>      \* "Hello"
    /\ lost = {}
    /\ answered = {}

-----------------------------------------------------------------------------
(* The host and the wire                                                    *)

Unanswered == (1 .. line) \ answered

BeginLine ==
    /\ left = 0
    /\ line < MaxLines
    /\ Cardinality(Unanswered) < Window
    /\ line' = line + 1
    /\ \E k \in 1 .. MaxLength : length' = k /\ left' = k + 1
    /\ ahead' = (ahead \/ Unanswered # {})
    /\ UNCHANGED <<inputVars, pc, outputVars>>

\* A character arrives. With the interrupt off it may find no register free.
Arrive ==
    /\ left > 0
    /\ rxie => Len(fifo) < UartRegisters
    /\ left' = left - 1
    /\ fifo' = IF Len(fifo) < UartRegisters
               THEN Append(fifo, IF left = 1 THEN Eol ELSE line)
               ELSE fifo
    /\ UNCHANGED <<line, length, ahead, rxie, input, received, pc, outputVars>>

-----------------------------------------------------------------------------
(* The receive interrupt                                                    *)

RxPending == rxie /\ fifo # <<>>

\* shell_data_received: a character too many empties the buffer and is dropped.
shell_data_received(c) ==
    input' = IF Len(input) + 1 > SHELL_MSG_LEN THEN <<>> ELSE Append(input, c)

RxIsr ==
    /\ RxPending
    /\ fifo' = Tail(fifo)
    /\ IF Head(fifo) = Eol
       THEN received' = TRUE /\ UNCHANGED input
       ELSE shell_data_received(Head(fifo)) /\ UNCHANGED received
    /\ UNCHANGED <<hostVars, rxie, pc, outputVars>>

-----------------------------------------------------------------------------
(* The main context; a pending interrupt goes first                         *)

\* shell_add_message, for each of msgs in turn.
AddMessages(msgs) ==
    LET room == SHELL_RING_LEN - Len(ring)
        fits == IF Len(msgs) < room THEN Len(msgs) ELSE room
    IN  /\ ring' = ring \o SubSeq(msgs, 1, fits)
        /\ lost' = lost \cup {msgs[i] : i \in fits + 1 .. Len(msgs)}

Repeated(m, k) == [i \in 1 .. k |-> m]

\* Mutant: what is reported stays owed.
ReportAgain ==
    /\ pc = "report"
    /\ \E k \in 0 .. QUEUE_SIZE :
        /\ k <= owed
        /\ AddMessages(Repeated(Report, k))
    /\ pc' = "poll"
    /\ UNCHANGED <<hostVars, inputVars, owed, answered>>

\* planner_report_states: at most one message for a slot.
ReportStates ==
    /\ pc = "report"
    /\ \E k \in 0 .. QUEUE_SIZE :
        /\ k <= owed
        /\ owed' = owed - k
        /\ AddMessages(Repeated(Report, k))
    /\ pc' = "poll"
    /\ UNCHANGED <<hostVars, inputVars, answered>>

\* Mutant: the flag stays.
PollKeepsFlag ==
    /\ pc = "poll"
    /\ pc' = IF received THEN "off" ELSE "send"
    /\ UNCHANGED <<hostVars, inputVars, outputVars>>

\* hardware_loop, up to the test of the flag, which it clears.
Poll ==
    /\ pc = "poll"
    /\ received' = FALSE
    /\ pc' = IF received THEN "off" ELSE "send"
    /\ UNCHANGED <<hostVars, fifo, rxie, input, outputVars>>

RxOff ==
    /\ pc = "off"
    /\ rxie' = FALSE
    /\ pc' = "exec"
    /\ UNCHANGED <<hostVars, fifo, input, received, outputVars>>

\* shell_data_completed: the command in the buffer is executed and answered. An
\* empty buffer is answered too: "Unknown command".
Command == IF input = <<>> THEN line ELSE Head(input)

\* Mutant: input_pos is not reset.
shell_data_completed_again ==
    /\ pc = "exec"
    /\ \E answer \in {1, 3} : AddMessages(Repeated(Command, answer))
    /\ \E reports \in 0 .. 2 : owed + reports <= MaxOwed /\ owed' = owed + reports
    /\ pc' = "on"
    /\ UNCHANGED <<hostVars, inputVars, answered>>

shell_data_completed ==
    /\ pc = "exec"
    /\ \E answer \in {1, 3} : AddMessages(Repeated(Command, answer))
    /\ \E reports \in 0 .. 2 : owed + reports <= MaxOwed /\ owed' = owed + reports
    /\ input' = <<>>
    /\ pc' = "on"
    /\ UNCHANGED <<hostVars, fifo, rxie, received, answered>>

\* Mutant: the interrupt stays off.
RxOnNever ==
    /\ pc = "on"
    /\ pc' = "send"
    /\ UNCHANGED <<hostVars, inputVars, outputVars>>

RxOn ==
    /\ pc = "on"
    /\ rxie' = TRUE
    /\ pc' = "send"
    /\ UNCHANGED <<hostVars, fifo, input, received, outputVars>>

Messages(r) == {r[i] : i \in 1 .. Len(r)}

\* The rest of hardware_loop: one message goes out. The host has its answer with
\* the last message that answers its line.
Send ==
    /\ pc = "send"
    /\ pc' = "report"
    /\ IF ring = <<>>
       THEN UNCHANGED <<ring, answered>>
       ELSE /\ ring' = Tail(ring)
            /\ answered' = answered \cup
                    {n \in {Head(ring)} \ {Report} : n \notin Messages(Tail(ring))}
    /\ UNCHANGED <<hostVars, inputVars, owed, lost>>

Main ==
    /\ ~RxPending
    /\ ReportStates \/ Poll \/ RxOff \/ shell_data_completed \/ RxOn \/ Send

Next == BeginLine \/ Arrive \/ RxIsr \/ Main

Spec == Init /\ [][Next]_vars

\* A character on the wire arrives; neither the interrupt nor the loop starves.
FairSpec ==
    /\ Spec
    /\ WF_vars(Arrive)
    /\ WF_vars(RxIsr)
    /\ WF_vars(Main)

-----------------------------------------------------------------------------
(* Properties                                                               *)

TypeOK ==
    /\ line \in 0 .. MaxLines
    /\ length \in 0 .. MaxLength
    /\ left \in 0 .. MaxLength + 1
    /\ ahead \in BOOLEAN
    /\ fifo \in Seq(Lines \cup {Eol}) /\ Len(fifo) <= UartRegisters
    /\ rxie \in BOOLEAN
    /\ input \in Seq(Lines) /\ Len(input) <= SHELL_MSG_LEN
    /\ received \in BOOLEAN
    /\ pc \in {"report", "poll", "off", "exec", "on", "send"}
    /\ owed \in 0 .. MaxOwed
    /\ ring \in Seq({Report} \cup Lines) /\ Len(ring) <= SHELL_RING_LEN
    /\ lost \subseteq {Report} \cup Lines
    /\ answered \subseteq Lines

\* The text a command is read from is the line the host sent last, all of it
\* when it fits the buffer: nothing of an earlier line, no character missing.
\* A host that sends ahead of the answers gives this up.
Whole ==
    /\ \A i \in 1 .. Len(input) : input[i] = line
    /\ left = 0
    /\ length <= SHELL_MSG_LEN => Len(input) = length

CommandWhole == [][pc = "exec" /\ pc' = "on" => ahead \/ Whole]_vars

\* No line is executed a second time: what is executed has no answer on its way
\* yet, unless the host sends ahead.
ExecutedOnce ==
    [][pc = "exec" /\ pc' = "on" =>
        \/ ahead
        \/ line \notin answered \cup lost \cup Messages(ring)]_vars

\* No message is lost: two places for every slot of the planner and four more are
\* enough for a host that waits for whole answers. Kconfig gives 8 places for 10
\* slots, which is not.
NoneLost == SHELL_RING_LEN >= 2 * QUEUE_SIZE + 4 /\ ~ahead => lost = {}

\* Every line is answered, or its answer was one message too many for the ring.
LineAnswered ==
    \A n \in Lines : line = n /\ ~ahead ~> n \in answered \cup lost \/ ahead

=============================================================================
