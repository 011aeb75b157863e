---------------------------- MODULE ConsoleProofs ----------------------------
(****************************************************************************)
(* The serial line, for buffers, rings and lines of any length: with a host *)
(* that waits for its answers every command is whole and executed once, and *)
(* a ring of two places for every slot and four more never overflows.       *)
(****************************************************************************)
EXTENDS Console, SequenceTheorems, TLAPS

Values == {Report} \cup Lines

\* Nothing is about a line that has not been begun.
Past ==
    /\ answered \subseteq 1 .. line
    /\ lost \subseteq 0 .. line
    /\ \A i \in 1 .. Len(ring) : ring[i] <= line
    /\ \A i \in 1 .. Len(input) : input[i] <= line
    /\ \A i \in 1 .. Len(fifo) : fifo[i] <= line \/ fifo[i] = Eol
    /\ left > 0 => line >= 1

Types == TypeOK /\ Past /\ (rxie <=> pc \notin {"exec", "on"})

\* The line is somewhere between the host and its execution.
Asking == left > 0 \/ fifo # <<>> \/ received \/ pc \in {"off", "exec"}

\* Its characters that are still to be read.
OnTheWire == IF left > 0 THEN Len(fifo) + left - 1
             ELSE IF fifo # <<>> THEN Len(fifo) - 1 ELSE 0

\* Its answer is on the way.
Out == line >= 1 /\ \E i \in 1 .. Len(ring) : ring[i] = line

\* The order in which a line is sent, received, executed and answered, when the
\* host sends the next one after the answer.
FifoShape ==
    \A i \in 1 .. Len(fifo) : fifo[i] = IF left = 0 /\ i = Len(fifo) THEN Eol ELSE line

Stages ==
    /\ received \/ pc \in {"off", "exec"} => left = 0 /\ fifo = <<>>
    /\ received => pc \notin {"off", "exec"}
    /\ pc = "on" => line >= 1 /\ line \notin answered /\ ~Asking

Gathered ==
    /\ \A i \in 1 .. Len(input) : input[i] = line
    /\ ~Asking => input = <<>>
    /\ Asking /\ length <= SHELL_MSG_LEN => Len(input) + OnTheWire = length

Once ==
    /\ Asking => line >= 1 /\ line \notin answered \cup lost /\ ~Out
    /\ Out => line \notin answered

Turn == FifoShape /\ Stages /\ Gathered /\ Once

\* What is in the ring and what is owed: before the answer only reports, and no
\* more than can be owed; with it, five messages more until the next is sent.
Enough == SHELL_RING_LEN >= MaxOwed + 4

LastAnswer(j) ==
    /\ ring[j] = line
    /\ Len(ring) - j + owed <= MaxOwed
    /\ \A k \in j + 1 .. Len(ring) : ring[k] = Report

Room ==
    /\ lost = {}
    /\ Out => /\ Len(ring) + owed <= MaxOwed + (IF pc \in {"on", "send"} THEN 5 ELSE 4)
              /\ \E j \in 1 .. Len(ring) : LastAnswer(j)
    /\ ~Out => /\ \A i \in 1 .. Len(ring) : ring[i] = Report
               /\ Len(ring) + owed <= MaxOwed

Inv ==
    /\ Types
    /\ ~ahead => Turn
    /\ ~ahead /\ Enough => Room

-----------------------------------------------------------------------------
(* The ring                                                                 *)

\* shell_add_message, k times: the messages that fit come last in the ring, the
\* others are lost, and none is when there is room for all.
Added(m, k, fits) ==
    /\ ring' \in Seq(Values)
    /\ Len(ring') = Len(ring) + fits
    /\ Len(ring') <= SHELL_RING_LEN
    /\ \A i \in 1 .. Len(ring) : ring'[i] = ring[i]
    /\ \A i \in Len(ring) + 1 .. Len(ring') : ring'[i] = m
    /\ lost' = lost \cup (IF fits < k THEN {m} ELSE {})
    /\ Len(ring) + k <= SHELL_RING_LEN => fits = k

LEMMA MessagesAdded ==
    ASSUME Types, NEW m \in Values, NEW k \in Nat, AddMessages(Repeated(m, k))
    PROVE  \E fits \in 0 .. k : Added(m, k, fits)
<1> DEFINE msgs == Repeated(m, k)
           room == SHELL_RING_LEN - Len(ring)
           fits == IF k < room THEN k ELSE room
<1>1. /\ ring \in Seq(Values) /\ Len(ring) \in Nat /\ Len(ring) <= SHELL_RING_LEN
      /\ SHELL_RING_LEN \in Nat
  BY ConsoleAssumption, LenProperties DEF Types, TypeOK, Values
<1>2. /\ msgs = [i \in 1 .. k |-> m] /\ msgs \in Seq(Values) /\ Len(msgs) = k
      /\ \A i \in 1 .. k : msgs[i] = m
  BY DEF Repeated
<1>3. fits \in 0 .. k /\ room \in Nat /\ Len(ring) + fits <= SHELL_RING_LEN
  BY <1>1
<1>4. ring' = ring \o SubSeq(msgs, 1, fits) /\ lost' = lost \cup {msgs[i] : i \in fits + 1 .. k}
  BY <1>2 DEF AddMessages
<1> HIDE DEF msgs, fits
<1>5. /\ SubSeq(msgs, 1, fits) \in Seq(Values)
      /\ Len(SubSeq(msgs, 1, fits)) = fits
      /\ \A i \in 1 .. fits : SubSeq(msgs, 1, fits)[i] = m
  <2>1. \A i \in 1 .. fits : msgs[i] \in Values /\ msgs[i] = m
    BY <1>2, <1>3
  <2>2. fits \in Int /\ 1 \in Int
    BY <1>3
  <2>3. /\ SubSeq(msgs, 1, fits) \in Seq(Values)
        /\ Len(SubSeq(msgs, 1, fits)) = IF 1 <= fits THEN fits - 1 + 1 ELSE 0
        /\ \A i \in 1 .. fits - 1 + 1 : SubSeq(msgs, 1, fits)[i] = msgs[1 + i - 1]
    BY <2>1, <2>2, SubSeqProperties
  <2> QED BY <1>3, <2>1, <2>3
<1> DEFINE tail == SubSeq(msgs, 1, fits)
<1> HIDE DEF tail
<1>6. /\ ring \o tail \in Seq(Values)
      /\ Len(ring \o tail) = Len(ring) + fits
      /\ \A i \in 1 .. Len(ring) + fits :
            (ring \o tail)[i] = IF i <= Len(ring) THEN ring[i] ELSE tail[i - Len(ring)]
  BY <1>1, <1>5, ConcatProperties DEF tail
<1>7. \A i \in Len(ring) + 1 .. Len(ring) + fits : (ring \o tail)[i] = m
  <2> SUFFICES ASSUME NEW i \in Len(ring) + 1 .. Len(ring) + fits
               PROVE  (ring \o tail)[i] = m
    OBVIOUS
  <2>1. i \in 1 .. Len(ring) + fits /\ ~(i <= Len(ring)) /\ i - Len(ring) \in 1 .. fits
    BY <1>1, <1>3
  <2> QED BY <1>5, <1>6, <2>1 DEF tail
<1>8. {msgs[i] : i \in fits + 1 .. k} = IF fits < k THEN {m} ELSE {}
  <2>1. \A i \in fits + 1 .. k : msgs[i] = m
    BY <1>2, <1>3
  <2>2. fits < k => k \in fits + 1 .. k
    BY <1>3
  <2>3. ~(fits < k) => fits + 1 .. k = {}
    BY <1>3
  <2> QED BY <2>1, <2>2, <2>3
<1>9. Len(ring) + k <= SHELL_RING_LEN => fits = k
  BY <1>1 DEF fits
<1>10. Added(m, k, fits)
  <2>1. ring' = ring \o tail
    BY <1>4 DEF tail
  <2>2. Len(ring') = Len(ring) + fits /\ ring' \in Seq(Values) /\ Len(ring') <= SHELL_RING_LEN
    BY <1>3, <1>6, <2>1
  <2>3. \A i \in 1 .. Len(ring) : ring'[i] = ring[i]
    BY <1>1, <1>3, <1>6, <2>1
  <2>4. \A i \in Len(ring) + 1 .. Len(ring') : ring'[i] = m
    BY <1>7, <2>1, <2>2
  <2>5. lost' = lost \cup (IF fits < k THEN {m} ELSE {})
    BY <1>4, <1>8
  <2> QED BY <1>9, <2>2, <2>3, <2>4, <2>5 DEF Added
<1> QED BY <1>3, <1>10

LEMMA Bounds ==
    ASSUME Types
    PROVE  /\ QUEUE_SIZE \in Nat /\ QUEUE_SIZE > 0
           /\ MaxOwed \in Nat /\ MaxOwed = 2 * QUEUE_SIZE
           /\ SHELL_RING_LEN \in Nat /\ SHELL_MSG_LEN \in Nat /\ SHELL_MSG_LEN > 0
           /\ MaxLines \in Nat /\ MaxLength \in Nat /\ Eol = MaxLines + 1
           /\ line \in Nat /\ line <= MaxLines /\ owed \in Nat /\ owed <= MaxOwed
           /\ left \in Nat /\ length \in Nat
           /\ ring \in Seq(Values) /\ Len(ring) \in Nat /\ Len(ring) <= SHELL_RING_LEN
           /\ input \in Seq(Lines) /\ Len(input) \in Nat /\ Len(input) <= SHELL_MSG_LEN
           /\ fifo \in Seq(Lines \cup {Eol}) /\ Len(fifo) \in Nat /\ Len(fifo) <= 2
  BY ConsoleAssumption, LenProperties
     DEF Types, TypeOK, Values, MaxOwed, Eol, Lines, UartRegisters

-----------------------------------------------------------------------------
(* The loop                                                                 *)

\* Reports move from what is owed into the ring.
LEMMA ReportKeeps ==
    ASSUME Inv, ReportStates
    PROVE  Inv'
<1>0. Types
  BY DEF Inv
<1>1. PICK k \in 0 .. QUEUE_SIZE :
        /\ k <= owed /\ owed' = owed - k
        /\ AddMessages(Repeated(Report, k))
  BY DEF ReportStates
<1>2. /\ pc = "report" /\ pc' = "poll"
      /\ UNCHANGED <<line, length, left, ahead, fifo, rxie, input, received, answered>>
  BY DEF ReportStates, hostVars, inputVars
<1>3. k \in Nat
  BY <1>0, <1>1, Bounds
<1>4. PICK fits \in 0 .. k : Added(Report, k, fits)
  BY <1>0, <1>1, <1>3, MessagesAdded DEF Values
<1>5. owed' \in 0 .. MaxOwed /\ fits \in Nat
  <2>1. owed \in Nat /\ MaxOwed \in Nat /\ owed <= MaxOwed
    BY <1>0, Bounds
  <2> QED BY <1>1, <1>3, <2>1
<1>a. \A i \in 1 .. Len(ring) : ring'[i] = ring[i]
  BY <1>4 DEF Added
<1>b. \A i \in Len(ring) + 1 .. Len(ring') : ring'[i] = Report
  BY <1>4 DEF Added
<1>c. /\ Len(ring') = Len(ring) + fits /\ Len(ring') <= SHELL_RING_LEN
      /\ Len(ring) + k <= SHELL_RING_LEN => fits = k
  BY <1>4 DEF Added
<1>d. /\ Len(ring) \in Nat /\ owed \in Nat /\ k \in Nat /\ fits \in Nat
      /\ MaxOwed \in Nat /\ line \in Nat /\ SHELL_RING_LEN \in Nat
  BY <1>0, <1>1, <1>3, <1>5, Bounds
<1>6. Types'
  <2>1. \A i \in 1 .. Len(ring') : ring'[i] <= line
    <3> SUFFICES ASSUME NEW i \in 1 .. Len(ring')
                 PROVE  ring'[i] <= line
      OBVIOUS
    <3>1. CASE i \in 1 .. Len(ring)
      BY <1>0, <1>a, <3>1 DEF Types, Past
    <3>2. CASE i \in Len(ring) + 1 .. Len(ring')
      BY <1>b, <1>d, <3>2 DEF Report
    <3> QED BY <1>c, <1>d, <3>1, <3>2
  <2>2. lost' \subseteq 0 .. line /\ lost' \subseteq Values
    <3>1. Report \in 0 .. line /\ Report \in Values
      BY <1>0, Bounds DEF Report, Values
    <3> QED BY <1>0, <1>4, <3>1 DEF Added, Types, Past, TypeOK, Values
  <2>3. TypeOK'
    BY <1>0, <1>2, <1>4, <1>5, <2>2 DEF Types, TypeOK, Added, Values
  <2>4. Past'
    BY <1>0, <1>2, <2>1, <2>2 DEF Types, Past
  <2> QED BY <1>0, <1>2, <2>3, <2>4 DEF Types
<1>7. Out' <=> Out
  <2>1. ASSUME Out PROVE Out'
    <3>1. PICK i \in 1 .. Len(ring) : ring[i] = line
      BY <2>1 DEF Out
    <3>2. i \in 1 .. Len(ring') /\ ring'[i] = line
      BY <1>a, <1>c, <1>d, <3>1
    <3> QED BY <1>2, <2>1, <3>2 DEF Out
  <2>2. ASSUME Out' PROVE Out
    <3>1. PICK i \in 1 .. Len(ring') : ring'[i] = line /\ line >= 1
      BY <1>2, <2>2 DEF Out
    <3>2. i \notin Len(ring) + 1 .. Len(ring')
      BY <1>b, <3>1 DEF Report
    <3>3. i \in 1 .. Len(ring)
      BY <1>c, <1>d, <3>2
    <3> QED BY <1>a, <3>1, <3>3 DEF Out
  <2> QED BY <2>1, <2>2
<1>8. ASSUME ~ahead' PROVE Turn'
  <2>0. Turn
    BY <1>2, <1>8 DEF Inv
  <2>1. Asking' <=> Asking
    BY <1>2 DEF Asking
  <2>2. line >= 1 /\ line \notin lost => line \notin lost'
    BY <1>0, <1>4, Bounds DEF Added, Report
  <2>3. FifoShape' /\ Gathered' /\ Stages'
    BY <1>2, <2>0, <2>1 DEF Turn, FifoShape, Gathered, Stages, OnTheWire
  <2>4. Once'
    BY <1>2, <1>7, <2>0, <2>1, <2>2 DEF Turn, Once
  <2> QED BY <2>3, <2>4 DEF Turn
<1>9. ASSUME ~ahead', Enough' PROVE Room'
  <2>0. Room /\ Enough
    BY <1>2, <1>9 DEF Inv, Enough
  <2>1. Len(ring) + owed <= MaxOwed + 4
    <3>1. Len(ring) + owed <= MaxOwed \/ Len(ring) + owed <= MaxOwed + 4
      BY <1>2, <2>0 DEF Room
    <3> QED BY <1>d, <3>1
  <2>2. fits = k /\ lost' = {} /\ Len(ring') = Len(ring) + k
    <3>1. Len(ring) + k <= SHELL_RING_LEN
      BY <1>1, <1>d, <2>0, <2>1 DEF Enough
    <3>2. fits = k /\ Len(ring') = Len(ring) + k
      BY <1>c, <3>1
    <3> QED BY <1>4, <1>d, <2>0, <3>2 DEF Added, Room
  <2>3. Len(ring') + owed' = Len(ring) + owed
    <3>1. owed' = owed - k /\ Len(ring') = Len(ring) + k
      BY <1>1, <2>2
    <3> QED BY <1>d, <3>1
  <2>4. \A i \in Len(ring) + 1 .. Len(ring') : ring'[i] = Report
    BY <1>b
  <2>5. ASSUME NEW j \in 1 .. Len(ring), LastAnswer(j)
        PROVE  j \in 1 .. Len(ring') /\ LastAnswer(j)'
    <3>1. j \in 1 .. Len(ring') /\ ring'[j] = line' /\ Len(ring') - j + owed' <= MaxOwed
      <4>1. ring[j] = line /\ Len(ring) - j + owed <= MaxOwed
        BY <2>5 DEF LastAnswer
      <4>2. ring'[j] = line'
        BY <1>2, <1>a, <4>1
      <4>3. Len(ring') - j + owed' = Len(ring) - j + owed
        BY <1>1, <1>d, <2>2
      <4>4. j \in 1 .. Len(ring')
        BY <1>d, <2>2
      <4> QED BY <4>1, <4>2, <4>3, <4>4
    <3>2. \A i \in j + 1 .. Len(ring') : ring'[i] = Report
      <4> SUFFICES ASSUME NEW i \in j + 1 .. Len(ring')
                   PROVE  ring'[i] = Report
        OBVIOUS
      <4>1. CASE i <= Len(ring)
        <5>1. i \in 1 .. Len(ring) /\ i \in j + 1 .. Len(ring)
          BY <1>0, <4>1, Bounds
        <5>2. ring[i] = Report
          BY <2>5, <5>1 DEF LastAnswer
        <5> QED BY <1>a, <5>1, <5>2
      <4>2. CASE ~(i <= Len(ring))
        <5>1. i \in Len(ring) + 1 .. Len(ring')
          BY <1>0, <4>2, Bounds
        <5> QED BY <2>4, <5>1
      <4> QED BY <4>1, <4>2
    <3> QED BY <3>1, <3>2 DEF LastAnswer, MaxOwed
  <2>6. CASE Out
    <3>1. \E j \in 1 .. Len(ring) : LastAnswer(j)
      BY <2>0, <2>6 DEF Room
    <3>2. Len(ring') + owed' <= MaxOwed + 4
      BY <2>1, <2>3
    <3> QED BY <1>2, <1>7, <2>2, <2>5, <2>6, <3>1, <3>2 DEF Room, MaxOwed
  <2>7. CASE ~Out
    <3>1. \A i \in 1 .. Len(ring') : ring'[i] = Report
      <4> SUFFICES ASSUME NEW i \in 1 .. Len(ring')
                   PROVE  ring'[i] = Report
        OBVIOUS
      <4>1. i \in 1 .. Len(ring) \/ i \in Len(ring) + 1 .. Len(ring')
        BY <1>d, <2>2
      <4>2. \A n \in 1 .. Len(ring) : ring[n] = Report
        BY <2>0, <2>7 DEF Room
      <4> QED BY <1>a, <2>4, <4>1, <4>2
    <3>2. Len(ring') + owed' <= MaxOwed
      BY <2>0, <2>3, <2>7 DEF Room
    <3> QED BY <1>7, <2>2, <2>7, <3>1, <3>2 DEF Room, MaxOwed
  <2> QED BY <2>6, <2>7
<1> QED BY <1>6, <1>8, <1>9 DEF Inv

\* The steps that only move the loop on, and switch the interrupt.
LEMMA QuietKeeps ==
    ASSUME Inv, Poll \/ RxOff \/ RxOn
    PROVE  Inv'
<1>1. UNCHANGED <<line, length, left, ahead, fifo, input, owed, ring, lost, answered>>
  BY DEF Poll, RxOff, RxOn, hostVars, outputVars
<1>2. \/ pc = "poll" /\ received /\ pc' = "off" /\ received' = FALSE /\ rxie' = rxie
      \/ pc = "poll" /\ ~received /\ pc' = "send" /\ received' = FALSE /\ rxie' = rxie
      \/ pc = "off" /\ pc' = "exec" /\ received' = received /\ rxie' = FALSE
      \/ pc = "on" /\ pc' = "send" /\ received' = received /\ rxie' = TRUE
  BY DEF Poll, RxOff, RxOn, Inv, Types, TypeOK
<1>3. Types'
  <2>1. TypeOK'
    BY <1>1, <1>2 DEF Inv, Types, TypeOK
  <2>2. Past'
    BY <1>1 DEF Inv, Types, Past
  <2>3. (rxie <=> pc \notin {"exec", "on"})'
    BY <1>2 DEF Inv, Types
  <2> QED BY <2>1, <2>2, <2>3 DEF Types
<1>4. Out' <=> Out
  BY <1>1 DEF Out
<1>5. ASSUME ~ahead' PROVE Turn'
  <2>0. Turn
    BY <1>1, <1>5 DEF Inv
  <2>1. Asking' <=> Asking
    BY <1>1, <1>2 DEF Asking
  <2>2. FifoShape' /\ Gathered' /\ Once'
    BY <1>1, <1>4, <2>0, <2>1 DEF Turn, FifoShape, Gathered, OnTheWire, Once
  <2>3. Stages'
    BY <1>1, <1>2, <2>0 DEF Turn, Stages
  <2> QED BY <2>2, <2>3 DEF Turn
<1>6. ASSUME ~ahead', Enough' PROVE Room'
  <2>0. Room
    BY <1>1, <1>6 DEF Inv, Enough, MaxOwed
  <2>1. Types
    BY DEF Inv
  <2>2. Len(ring) \in Nat /\ owed \in Nat /\ MaxOwed \in Nat
    BY <2>1, Bounds
  <2>3. Out => Len(ring) + owed <= MaxOwed + (IF pc' \in {"on", "send"} THEN 5 ELSE 4)
    BY <1>2, <2>0, <2>2 DEF Room
  <2>4. \A j \in 1 .. Len(ring) : LastAnswer(j) <=> LastAnswer(j)'
    BY <1>1 DEF LastAnswer, MaxOwed
  <2> QED BY <1>1, <1>4, <2>0, <2>3, <2>4 DEF Room, MaxOwed
<1> QED BY <1>3, <1>5, <1>6 DEF Inv

\* The command is executed: its answer goes into the ring, and more may be owed.
LEMMA ExecKeeps ==
    ASSUME Inv, shell_data_completed
    PROVE  Inv'
<1>0. Types
  BY DEF Inv
<1>1. PICK k \in {1, 3} : AddMessages(Repeated(Command, k))
  BY DEF shell_data_completed
<1>2. PICK reports \in 0 .. 2 : owed + reports <= MaxOwed /\ owed' = owed + reports
  BY DEF shell_data_completed
<1>3. /\ pc = "exec" /\ pc' = "on" /\ input' = <<>>
      /\ UNCHANGED <<line, length, left, ahead, fifo, rxie, received, answered>>
  BY DEF shell_data_completed, hostVars
<1>4. Command \in Values /\ Command <= line
  <2>1. CASE input = <<>>
    BY <1>0, <2>1, Bounds DEF Command, Values, Report, Lines
  <2>2. CASE input # <<>>
    <3>1. input \in Seq(Lines) /\ Head(input) = input[1] /\ 1 \in 1 .. Len(input)
      BY <1>0, <2>2, EmptySeq, Bounds
    <3>2. input[1] \in Lines
      BY <3>1, ElementOfSeq
    <3> QED BY <1>0, <2>2, <3>1, <3>2 DEF Command, Values, Types, Past
  <2> QED BY <2>1, <2>2
<1>5. k \in Nat /\ k >= 1 /\ k <= 3
  BY <1>1
<1>6. PICK fits \in 0 .. k : Added(Command, k, fits)
  BY <1>0, <1>1, <1>4, <1>5, MessagesAdded
<1>a. \A i \in 1 .. Len(ring) : ring'[i] = ring[i]
  BY <1>6 DEF Added
<1>b. \A i \in Len(ring) + 1 .. Len(ring') : ring'[i] = Command
  BY <1>6 DEF Added
<1>c. /\ Len(ring') = Len(ring) + fits /\ Len(ring') <= SHELL_RING_LEN
      /\ Len(ring) + k <= SHELL_RING_LEN => fits = k
      /\ lost' = lost \cup (IF fits < k THEN {Command} ELSE {})
  BY <1>6 DEF Added
<1>d. /\ Len(ring) \in Nat /\ owed \in Nat /\ fits \in Nat /\ owed' \in Nat
      /\ MaxOwed \in Nat /\ line \in Nat /\ SHELL_RING_LEN \in Nat /\ Command \in Nat
  <2>1. /\ Len(ring) \in Nat /\ owed \in Nat /\ MaxOwed \in Nat /\ line \in Nat
        /\ SHELL_RING_LEN \in Nat /\ MaxLines \in Nat
    BY <1>0, Bounds
  <2>2. Command \in Nat
    BY <1>4, <2>1 DEF Values, Report, Lines
  <2>3. fits \in Nat /\ owed' \in Nat
    BY <1>2, <1>5, <2>1
  <2> QED BY <2>1, <2>2, <2>3
<1>7. Types'
  <2>1. \A i \in 1 .. Len(ring') : ring'[i] <= line
    <3> SUFFICES ASSUME NEW i \in 1 .. Len(ring')
                 PROVE  ring'[i] <= line
      OBVIOUS
    <3>1. CASE i \in 1 .. Len(ring)
      BY <1>0, <1>a, <3>1 DEF Types, Past
    <3>2. CASE i \in Len(ring) + 1 .. Len(ring')
      BY <1>4, <1>b, <3>2
    <3> QED BY <1>c, <1>d, <3>1, <3>2
  <2>2. lost' \subseteq 0 .. line /\ lost' \subseteq Values
    <3>1. Command \in 0 .. line
      BY <1>4, <1>d
    <3> QED BY <1>0, <1>4, <1>c, <3>1 DEF Types, Past, TypeOK, Values
  <2>3. ring' \in Seq(Values) /\ owed' \in 0 .. MaxOwed
    BY <1>2, <1>6, <1>d DEF Added
  <2>4. TypeOK'
    <3>1. input' \in Seq(Lines) /\ Len(input') <= SHELL_MSG_LEN
      BY <1>0, <1>3, EmptySeq, Bounds
    <3> QED BY <1>0, <1>3, <1>c, <2>2, <2>3, <3>1 DEF Types, TypeOK, Values
  <2>5. Past'
    BY <1>0, <1>3, <2>1, <2>2 DEF Types, Past
  <2> QED BY <1>0, <1>3, <2>4, <2>5 DEF Types
<1>8. ASSUME ~ahead'
      PROVE  /\ Turn /\ line >= 1 /\ line \notin answered /\ ~Out
             /\ left = 0 /\ fifo = <<>> /\ ~received /\ Command = line
  <2>1. Turn
    BY <1>3, <1>8 DEF Inv
  <2>2. Asking
    BY <1>3 DEF Asking
  <2>3. left = 0 /\ fifo = <<>> /\ ~received
    BY <1>3, <2>1 DEF Turn, Stages
  <2>4. Command = line
    <3>1. CASE input = <<>>
      BY <3>1 DEF Command
    <3>2. CASE input # <<>>
      <4>1. Head(input) = input[1] /\ 1 \in 1 .. Len(input)
        BY <1>0, <3>2, EmptySeq, Bounds
      <4> QED BY <2>1, <3>2, <4>1 DEF Command, Turn, Gathered
    <3> QED BY <3>1, <3>2
  <2> QED BY <2>1, <2>2, <2>3, <2>4 DEF Turn, Once
<1>9. ASSUME ~ahead' PROVE Turn'
  <2>1. ~Asking'
    BY <1>3, <1>8, <1>9 DEF Asking
  <2>2. FifoShape' /\ Stages' /\ Gathered' /\ Once'
    <3>1. FifoShape'
      BY <1>3, <1>8, <1>9 DEF Turn, FifoShape
    <3>2. Stages'
      BY <1>3, <1>8, <1>9, <2>1 DEF Stages
    <3>3. Gathered'
      BY <1>3, <2>1 DEF Gathered
    <3>4. Once'
      BY <1>3, <1>8, <1>9, <2>1 DEF Once
    <3> QED BY <3>1, <3>2, <3>3, <3>4
  <2> QED BY <2>2 DEF Turn
<1>10. ASSUME ~ahead', Enough' PROVE Room'
  <2>0. Room /\ Enough
    BY <1>3, <1>10 DEF Inv, Enough
  <2>1. Len(ring) + owed <= MaxOwed /\ lost = {}
    BY <1>8, <1>10, <2>0 DEF Room
  <2>2. fits = k /\ Len(ring') = Len(ring) + k /\ lost' = {}
    <3>1. Len(ring) + k <= SHELL_RING_LEN
      BY <1>5, <1>d, <2>0, <2>1 DEF Enough
    <3>2. fits = k /\ Len(ring') = Len(ring) + k
      BY <1>c, <3>1
    <3> QED BY <1>5, <1>c, <2>1, <3>2
  <2>3. ring'[Len(ring')] = line /\ Len(ring') \in 1 .. Len(ring')
    BY <1>5, <1>8, <1>10, <1>b, <1>d, <2>2
  <2>4. Out'
    BY <1>3, <1>8, <1>10, <2>3 DEF Out
  <2>5. Len(ring') + owed' <= MaxOwed + 5
    BY <1>2, <1>5, <1>d, <2>1, <2>2
  <2>6. LastAnswer(Len(ring))'
    <3>1. Len(ring') - Len(ring') + owed' <= MaxOwed
      BY <1>2, <1>d, <2>2
    <3>2. Len(ring') + 1 .. Len(ring') = {}
      BY <1>d, <2>2
    <3> QED BY <1>3, <2>3, <3>1, <3>2 DEF LastAnswer, MaxOwed
  <2> QED BY <1>3, <2>2, <2>3, <2>4, <2>5, <2>6 DEF Room, MaxOwed
<1> QED BY <1>7, <1>9, <1>10 DEF Inv

\* A message goes out. With the last one of the answer only reports are left.
LEMMA SendKeeps ==
    ASSUME Inv, Send, ring # <<>>
    PROVE  Inv'
<1>0. Types
  BY DEF Inv
<1>1. /\ pc = "send" /\ pc' = "report" /\ ring' = Tail(ring)
      /\ UNCHANGED <<line, length, left, ahead, fifo, rxie, input, received, owed, lost>>
  BY DEF Send, hostVars, inputVars
<1>2. /\ ring \in Seq(Values) /\ Len(ring) \in Nat /\ owed \in Nat /\ MaxOwed \in Nat
      /\ line \in Nat /\ MaxLines \in Nat /\ Len(ring) <= SHELL_RING_LEN
      /\ SHELL_RING_LEN \in Nat
  BY <1>0, Bounds
<1>3. /\ ring' \in Seq(Values) /\ Len(ring') = Len(ring) - 1
      /\ \A i \in 1 .. Len(ring') : ring'[i] = ring[i + 1]
  BY <1>1, <1>2, HeadTailProperties
<1>4. Len(ring) >= 1 /\ Head(ring) = ring[1]
  BY <1>2, EmptySeq
<1> DEFINE n == ring[1]
<1>5. n \in Values /\ n <= line
  <2>1. 1 \in 1 .. Len(ring)
    BY <1>2, <1>4
  <2> QED BY <1>0, <1>2, <2>1, ElementOfSeq DEF Types, Past
<1>6. \/ answered' = answered
      \/ n # Report /\ answered' = answered \cup {n} /\ \A i \in 1 .. Len(ring') : ring'[i] # n
  <2>1. answered' = answered \cup {m \in {n} \ {Report} : m \notin Messages(ring')}
    BY <1>1, <1>4 DEF Send
  <2>2. n \notin Messages(ring') => \A i \in 1 .. Len(ring') : ring'[i] # n
    BY DEF Messages
  <2> HIDE DEF n
  <2> QED BY <2>1, <2>2
<1>7. \A i \in 1 .. Len(ring') : i + 1 \in 1 .. Len(ring)
  BY <1>2, <1>3
<1>8. Out' => Out
  BY <1>1, <1>3, <1>7 DEF Out
<1>9. Types'
  <2>1. n # Report => n \in Lines /\ n \in 1 .. line
    BY <1>2, <1>5 DEF Values, Lines, Report
  <2>2. answered' \subseteq Lines /\ answered' \subseteq 1 .. line
    BY <1>0, <1>6, <2>1 DEF Types, TypeOK, Past
  <2>3. Len(ring') <= SHELL_RING_LEN
    BY <1>2, <1>3
  <2>4. TypeOK'
    BY <1>0, <1>1, <1>3, <2>2, <2>3 DEF Types, TypeOK, Values
  <2>5. \A i \in 1 .. Len(ring') : ring'[i] <= line
    BY <1>0, <1>3, <1>7 DEF Types, Past
  <2>6. Past'
    BY <1>0, <1>1, <2>2, <2>5 DEF Types, Past
  <2> QED BY <1>0, <1>1, <2>4, <2>6 DEF Types
<1>10. ASSUME ~ahead' PROVE Turn'
  <2>0. Turn
    BY <1>1, <1>10 DEF Inv
  <2>1. Asking' <=> Asking
    BY <1>1 DEF Asking
  <2>2. FifoShape' /\ Stages' /\ Gathered'
    BY <1>1, <2>0, <2>1 DEF Turn, FifoShape, Stages, Gathered, OnTheWire
  <2>3. Asking => line \notin answered'
    <3>1. 1 \in 1 .. Len(ring)
      BY <1>2, <1>4
    <3>2. Asking => n # line
      BY <2>0, <3>1 DEF Turn, Once, Out
    <3> QED BY <1>6, <2>0, <3>2 DEF Turn, Once
  <2>4. Out' => line \notin answered'
    <3>1. Out' => \E i \in 1 .. Len(ring') : ring'[i] = line
      BY <1>1 DEF Out
    <3> QED BY <1>6, <1>8, <2>0, <3>1 DEF Turn, Once
  <2>5. Once'
    BY <1>1, <1>8, <2>0, <2>1, <2>3, <2>4 DEF Turn, Once
  <2> QED BY <2>2, <2>5 DEF Turn
<1>11. ASSUME ~ahead', Enough' PROVE Room'
  <2>0. Room
    BY <1>1, <1>11 DEF Inv, Enough, MaxOwed
  <2>1. CASE ~Out
    <3>1. \A i \in 1 .. Len(ring') : ring'[i] = Report
      BY <1>3, <1>7, <2>0, <2>1 DEF Room
    <3>2. Len(ring') + owed <= MaxOwed
      BY <1>2, <1>3, <2>0, <2>1 DEF Room
    <3> QED BY <1>1, <1>8, <2>0, <2>1, <3>1, <3>2 DEF Room, MaxOwed
  <2>2. CASE Out
    <3>1. PICK j \in 1 .. Len(ring) : LastAnswer(j)
      BY <2>0, <2>2 DEF Room
    <3>2. /\ line >= 1 /\ ring[j] = line /\ Len(ring) - j + owed <= MaxOwed
          /\ \A k \in j + 1 .. Len(ring) : ring[k] = Report
      BY <2>2, <3>1 DEF LastAnswer, Out
    <3>3. Len(ring') + owed <= MaxOwed + 4
      <4>1. Len(ring) + owed <= MaxOwed + 5
        BY <1>1, <2>0, <2>2 DEF Room
      <4> QED BY <1>2, <1>3, <4>1
    <3>4. CASE j = 1
      <4>1. \A i \in 1 .. Len(ring') : ring'[i] = Report
        <5> SUFFICES ASSUME NEW i \in 1 .. Len(ring')
                     PROVE  ring'[i] = Report
          OBVIOUS
        <5>1. i + 1 \in j + 1 .. Len(ring)
          BY <1>2, <1>3, <3>4
        <5> QED BY <1>3, <3>2, <5>1
      <4>2. ~Out'
        BY <1>1, <1>2, <3>2, <4>1 DEF Out, Report
      <4>3. Len(ring') + owed <= MaxOwed
        BY <1>2, <1>3, <3>2, <3>4
      <4> QED BY <1>1, <2>0, <4>1, <4>2, <4>3 DEF Room, MaxOwed
    <3>5. CASE j # 1
      <4>1. j - 1 \in 1 .. Len(ring') /\ ring'[j - 1] = line
        <5>1. j - 1 \in 1 .. Len(ring') /\ (j - 1) + 1 = j
          BY <1>2, <1>3, <3>5
        <5> QED BY <1>3, <3>2, <5>1
      <4>2. Len(ring') - (j - 1) + owed <= MaxOwed
        BY <1>2, <1>3, <3>2
      <4>3. \A k \in (j - 1) + 1 .. Len(ring') : ring'[k] = Report
        <5> SUFFICES ASSUME NEW k \in (j - 1) + 1 .. Len(ring')
                     PROVE  ring'[k] = Report
          OBVIOUS
        <5>1. k \in 1 .. Len(ring') /\ k + 1 \in j + 1 .. Len(ring)
          BY <1>2, <1>3
        <5> QED BY <1>3, <3>2, <5>1
      <4>4. LastAnswer(j - 1)'
        BY <1>1, <4>1, <4>2, <4>3 DEF LastAnswer, MaxOwed
      <4>5. Out'
        BY <1>1, <3>2, <4>1 DEF Out
      <4> QED BY <1>1, <2>0, <3>3, <4>1, <4>4, <4>5 DEF Room, MaxOwed
    <3> QED BY <3>4, <3>5
  <2> QED BY <2>1, <2>2
<1> QED BY <1>9, <1>10, <1>11 DEF Inv

LEMMA SendNothingKeeps ==
    ASSUME Inv, Send, ring = <<>>
    PROVE  Inv'
<1>1. /\ pc = "send" /\ pc' = "report"
      /\ UNCHANGED <<line, length, left, ahead, fifo, rxie, input, received, owed, ring,
                     lost, answered>>
  BY DEF Send, hostVars, inputVars
<1>2. ~Out /\ ~Out'
  <2>1. 1 .. Len(ring) = {}
    BY DEF Inv
  <2> QED BY <1>1, <2>1 DEF Out
<1>3. Types'
  BY <1>1 DEF Inv, Types, TypeOK, Past
<1>4. ASSUME ~ahead' PROVE Turn'
  <2>1. Asking' <=> Asking
    BY <1>1 DEF Asking
  <2> QED BY <1>1, <1>2, <1>4, <2>1
          DEF Inv, Turn, FifoShape, Stages, Gathered, OnTheWire, Once
<1>5. ASSUME ~ahead', Enough' PROVE Room'
  BY <1>1, <1>2, <1>5 DEF Inv, Room, Enough, MaxOwed
<1> QED BY <1>3, <1>4, <1>5 DEF Inv

-----------------------------------------------------------------------------
(* The host, the wire and the interrupt                                     *)

\* A line is begun when the one before has been answered: nothing of it is left.
LEMMA BeginKeeps ==
    ASSUME Inv, BeginLine
    PROVE  Inv'
<1>0. Types
  BY DEF Inv
<1>1. /\ left = 0 /\ line < MaxLines /\ line' = line + 1
      /\ ahead' = (ahead \/ Unanswered # {})
      /\ UNCHANGED <<fifo, rxie, input, received, pc, owed, ring, lost, answered>>
  BY DEF BeginLine, inputVars, outputVars
<1>2. PICK k \in 1 .. MaxLength : length' = k /\ left' = k + 1
  BY DEF BeginLine
<1>3. /\ line \in Nat /\ MaxLines \in Nat /\ MaxLength \in Nat /\ Eol = MaxLines + 1
      /\ Len(ring) \in Nat /\ Len(input) \in Nat /\ Len(fifo) \in Nat
  BY <1>0, Bounds
<1>4. line' \in 0 .. MaxLines /\ line' \in Nat /\ line' >= 1 /\ k \in Nat
  BY <1>1, <1>2, <1>3
<1>5. ring \in Seq(Values) /\ input \in Seq(Lines) /\ fifo \in Seq(Lines \cup {Eol})
  BY <1>0, Bounds
<1>6. /\ \A i \in 1 .. Len(ring) : ring[i] \in Nat /\ ring[i] < line'
      /\ \A i \in 1 .. Len(input) : input[i] \in Nat /\ input[i] <= line'
      /\ \A i \in 1 .. Len(fifo) : fifo[i] <= line' \/ fifo[i] = Eol
  <2>1. \A i \in 1 .. Len(ring) : ring[i] \in Nat /\ ring[i] <= line
    BY <1>0, <1>5, ElementOfSeq DEF Types, Past, Values, Report, Lines
  <2>2. \A i \in 1 .. Len(input) : input[i] \in Nat /\ input[i] <= line
    BY <1>0, <1>3, <1>5, ElementOfSeq DEF Types, Past, Lines
  <2>3. \A i \in 1 .. Len(fifo) : fifo[i] \in Nat /\ (fifo[i] <= line \/ fifo[i] = Eol)
    BY <1>0, <1>3, <1>5, ElementOfSeq DEF Types, Past, Lines
  <2>4. \A n \in Nat : n <= line => n < line' /\ n <= line'
    BY <1>1, <1>3
  <2> QED BY <2>1, <2>2, <2>3, <2>4
<1>7. /\ answered \subseteq 1 .. line' /\ lost \subseteq 0 .. line'
      /\ line' \notin answered \cup lost
  <2>1. answered \subseteq 1 .. line /\ lost \subseteq 0 .. line
    BY <1>0 DEF Types, Past
  <2> QED BY <1>1, <1>3, <2>1
<1>8. Types'
  <2>1. TypeOK'
    <3>1. length' \in 0 .. MaxLength /\ left' \in 0 .. MaxLength + 1
      BY <1>2, <1>3
    <3>2. ahead' \in BOOLEAN
      BY <1>0, <1>1 DEF Types, TypeOK
    <3> QED BY <1>0, <1>1, <1>4, <3>1, <3>2 DEF Types, TypeOK
  <2>2. Past'
    BY <1>1, <1>4, <1>6, <1>7 DEF Past
  <2> QED BY <1>0, <1>1, <2>1, <2>2 DEF Types
<1>9. ASSUME ~ahead'
      PROVE  /\ ~ahead /\ fifo = <<>> /\ ~received /\ input = <<>> /\ ~Out
             /\ pc \notin {"off", "exec", "on"}
  <2>1. ~ahead /\ Unanswered = {}
    BY <1>0, <1>1, <1>9 DEF Types, TypeOK
  <2>2. line >= 1 => line \in answered
    BY <1>3, <2>1 DEF Unanswered
  <2>3. Turn
    BY <2>1 DEF Inv
  <2>4. ~Asking /\ ~Out /\ pc # "on"
    BY <2>2, <2>3 DEF Turn, Once, Stages, Out
  <2>5. fifo = <<>> /\ ~received /\ pc \notin {"off", "exec"}
    BY <2>4 DEF Asking
  <2> QED BY <2>1, <2>3, <2>4, <2>5 DEF Turn, Gathered
<1>10. ~Out'
  BY <1>1, <1>6 DEF Out
<1>11. ASSUME ~ahead' PROVE Turn'
  <2>1. /\ fifo' = <<>> /\ ~received' /\ input' = <<>> /\ pc' \notin {"off", "exec", "on"}
    BY <1>1, <1>9, <1>11
  <2>2. left' > 0 /\ Asking'
    <3>1. left' > 0
      BY <1>2, <1>4
    <3> QED BY <3>1 DEF Asking
  <2>3. FifoShape'
    BY <2>1 DEF FifoShape
  <2>4. Stages'
    BY <2>1 DEF Stages
  <2>5. Gathered'
    <3>1. OnTheWire' = length'
      BY <1>2, <1>4, <2>1, <2>2 DEF OnTheWire
    <3> QED BY <1>2, <1>4, <2>1, <2>2, <3>1 DEF Gathered
  <2>6. Once'
    BY <1>1, <1>4, <1>7, <1>10, <2>2 DEF Once
  <2> QED BY <2>3, <2>4, <2>5, <2>6 DEF Turn
<1>12. ASSUME ~ahead', Enough' PROVE Room'
  <2>1. Room /\ ~Out
    BY <1>9, <1>12 DEF Inv, Enough, MaxOwed
  <2> QED BY <1>1, <1>10, <2>1 DEF Room, MaxOwed
<1> QED BY <1>8, <1>11, <1>12 DEF Inv

\* A character of the line reaches the registers; none is lost, as the interrupt
\* is on until the line has ended.
LEMMA ArriveKeeps ==
    ASSUME Inv, Arrive
    PROVE  Inv'
<1>0. Types
  BY DEF Inv
<1> DEFINE c == IF left = 1 THEN Eol ELSE line
<1>1. /\ left > 0 /\ left' = left - 1
      /\ rxie => Len(fifo) < 2
      /\ fifo' = IF Len(fifo) < 2 THEN Append(fifo, c) ELSE fifo
      /\ UNCHANGED <<line, length, ahead, rxie, input, received, pc, owed, ring, lost, answered>>
  BY DEF Arrive, outputVars, UartRegisters
<1>2. /\ line \in Nat /\ line <= MaxLines /\ MaxLines \in Nat /\ left \in Nat
      /\ Eol = MaxLines + 1 /\ Len(fifo) \in Nat /\ Len(fifo) <= 2 /\ Len(input) \in Nat
      /\ length \in Nat /\ MaxLength \in Nat /\ fifo \in Seq(Lines \cup {Eol})
  BY <1>0, Bounds
<1>3. Out' <=> Out
  BY <1>1 DEF Out
<1> HIDE DEF c
<1>4. Len(fifo) < 2 => /\ Len(fifo') = Len(fifo) + 1
                       /\ \A i \in 1 .. Len(fifo) : fifo'[i] = fifo[i]
                       /\ fifo'[Len(fifo')] = c
  BY <1>1, <1>2, AppendProperties
<1>5. Types'
  <2>1. c \in Lines \cup {Eol} /\ (c <= line \/ c = Eol)
    BY <1>0, <1>1, <1>2 DEF c, Lines, Types, Past
  <2>2. fifo' \in Seq(Lines \cup {Eol}) /\ Len(fifo') <= 2
    <3>1. CASE Len(fifo) < 2
      BY <1>1, <1>2, <1>4, <2>1, <3>1, AppendProperties
    <3>2. CASE ~(Len(fifo) < 2)
      BY <1>1, <1>2, <3>2
    <3> QED BY <3>1, <3>2
  <2>3. \A i \in 1 .. Len(fifo') : fifo'[i] <= line \/ fifo'[i] = Eol
    <3>0. \A i \in 1 .. Len(fifo) : fifo[i] <= line \/ fifo[i] = Eol
      BY <1>0 DEF Types, Past
    <3>1. CASE Len(fifo) < 2
      <4>1. \A i \in 1 .. Len(fifo') : i \in 1 .. Len(fifo) \/ i = Len(fifo')
        BY <1>2, <1>4, <3>1
      <4> QED BY <1>4, <2>1, <3>0, <3>1, <4>1
    <3>2. CASE ~(Len(fifo) < 2)
      BY <1>1, <3>0, <3>2
    <3> QED BY <3>1, <3>2
  <2>4. left' \in 0 .. MaxLength + 1 /\ (left' > 0 => line >= 1)
    BY <1>0, <1>1, <1>2 DEF Types, TypeOK, Past
  <2>5. TypeOK'
    BY <1>0, <1>1, <2>2, <2>4 DEF Types, TypeOK, UartRegisters
  <2>6. Past'
    BY <1>0, <1>1, <2>3, <2>4 DEF Types, Past
  <2> QED BY <1>0, <1>1, <2>5, <2>6 DEF Types
<1>6. ASSUME ~ahead' PROVE Turn'
  <2>0. Turn
    BY <1>1, <1>6 DEF Inv
  <2>1. Asking
    BY <1>1 DEF Asking
  <2>2. ~received /\ pc \notin {"off", "exec", "on"}
    BY <1>1, <1>2, <2>0, <2>1 DEF Turn, Stages
  <2>3. Len(fifo) < 2
    BY <1>0, <1>1, <2>2 DEF Types
  <2>4. fifo' # <<>> /\ Len(fifo') = Len(fifo) + 1 /\ Asking'
    <3>1. Len(fifo') = Len(fifo) + 1
      BY <1>4, <2>3
    <3>2. fifo' # <<>>
      BY <1>2, <3>1
    <3> QED BY <3>1, <3>2 DEF Asking
  <2>5. FifoShape'
    <3> SUFFICES ASSUME NEW i \in 1 .. Len(fifo')
                 PROVE  fifo'[i] = IF left' = 0 /\ i = Len(fifo') THEN Eol ELSE line
      BY <1>1 DEF FifoShape, Eol
    <3>1. CASE i = Len(fifo')
      BY <1>1, <1>2, <1>4, <2>3, <3>1 DEF c
    <3>2. CASE i # Len(fifo')
      <4>1. i \in 1 .. Len(fifo)
        BY <1>2, <2>4, <3>2
      <4>2. fifo[i] = line
        BY <1>1, <1>2, <2>0, <4>1 DEF Turn, FifoShape
      <4> QED BY <1>4, <2>3, <3>2, <4>1, <4>2
    <3> QED BY <3>1, <3>2
  <2>6. Stages'
    BY <1>1, <2>2 DEF Stages
  <2>7. OnTheWire' = OnTheWire
    BY <1>1, <1>2, <2>4 DEF OnTheWire
  <2>8. Gathered' /\ Once'
    BY <1>1, <1>3, <2>0, <2>1, <2>4, <2>7 DEF Turn, Gathered, Once
  <2> QED BY <2>5, <2>6, <2>8 DEF Turn
<1>7. ASSUME ~ahead', Enough' PROVE Room'
  <2>1. Room
    BY <1>1, <1>7 DEF Inv, Enough, MaxOwed
  <2>2. \A j \in 1 .. Len(ring) : LastAnswer(j) <=> LastAnswer(j)'
    BY <1>1 DEF LastAnswer, MaxOwed
  <2> QED BY <1>1, <1>3, <2>1, <2>2 DEF Room, MaxOwed
<1> QED BY <1>5, <1>6, <1>7 DEF Inv

\* The interrupt takes a character into the buffer, or the end of the line.
LEMMA IsrKeeps ==
    ASSUME Inv, RxIsr
    PROVE  Inv'
<1>0. Types
  BY DEF Inv
<1>1. /\ rxie /\ fifo # <<>> /\ fifo' = Tail(fifo)
      /\ UNCHANGED <<line, length, left, ahead, rxie, pc, owed, ring, lost, answered>>
  BY DEF RxIsr, RxPending, hostVars, outputVars
<1>2. /\ line \in Nat /\ line <= MaxLines /\ MaxLines \in Nat /\ left \in Nat
      /\ Eol = MaxLines + 1 /\ Len(fifo) \in Nat /\ Len(fifo) <= 2 /\ Len(input) \in Nat
      /\ length \in Nat /\ fifo \in Seq(Lines \cup {Eol}) /\ input \in Seq(Lines)
      /\ SHELL_MSG_LEN \in Nat /\ Len(input) <= SHELL_MSG_LEN /\ SHELL_MSG_LEN > 0
  BY <1>0, Bounds
<1>3. /\ Len(fifo) >= 1 /\ Head(fifo) = fifo[1] /\ fifo' \in Seq(Lines \cup {Eol})
      /\ Len(fifo') = Len(fifo) - 1
      /\ \A i \in 1 .. Len(fifo') : fifo'[i] = fifo[i + 1]
  BY <1>1, <1>2, EmptySeq, HeadTailProperties
<1>4. \A i \in 1 .. Len(fifo') : i + 1 \in 1 .. Len(fifo)
  BY <1>2, <1>3
<1>5. 1 \in 1 .. Len(fifo)
  BY <1>2, <1>3
<1>6. Out' <=> Out
  BY <1>1 DEF Out
<1> DEFINE c == fifo[1]
<1>7. c \in Lines \cup {Eol} /\ (c <= line \/ c = Eol)
  BY <1>0, <1>2, <1>5, ElementOfSeq DEF Types, Past
<1> HIDE DEF c
<1>8. \/ c = Eol /\ received' = TRUE /\ input' = input
      \/ /\ c # Eol /\ received' = received
         /\ input' = IF Len(input) + 1 > SHELL_MSG_LEN THEN <<>> ELSE Append(input, c)
  BY <1>3 DEF RxIsr, shell_data_received, c
<1>9. \/ input' = input
      \/ input' = <<>> /\ Len(input) + 1 > SHELL_MSG_LEN
      \/ /\ c # Eol /\ input' \in Seq(Lines) /\ Len(input') = Len(input) + 1
         /\ Len(input') <= SHELL_MSG_LEN
         /\ \A i \in 1 .. Len(input) : input'[i] = input[i]
         /\ input'[Len(input')] = c
  <2>1. CASE c = Eol
    BY <1>8, <2>1
  <2>2. CASE c # Eol /\ Len(input) + 1 > SHELL_MSG_LEN
    BY <1>8, <2>2
  <2>3. CASE c # Eol /\ ~(Len(input) + 1 > SHELL_MSG_LEN)
    <3>1. input' = Append(input, c) /\ c \in Lines
      BY <1>7, <1>8, <2>3
    <3>2. /\ input' \in Seq(Lines) /\ Len(input') = Len(input) + 1
          /\ \A i \in 1 .. Len(input) : input'[i] = input[i]
          /\ input'[Len(input')] = c
      BY <1>2, <3>1, AppendProperties
    <3>3. Len(input') <= SHELL_MSG_LEN
      BY <1>2, <2>3, <3>2
    <3> QED BY <2>3, <3>2, <3>3
  <2> QED BY <2>1, <2>2, <2>3
<1>10. ASSUME NEW i \in 1 .. Len(input')
       PROVE  \/ i \in 1 .. Len(input) /\ input'[i] = input[i]
              \/ c # Eol /\ input'[i] = c
  <2>1. CASE input' = input
    BY <1>10, <2>1
  <2>2. CASE input' = <<>>
    <3>1. 1 .. Len(input') = {}
      BY <2>2
    <3> QED BY <1>10, <3>1
  <2>3. CASE input' # input /\ input' # <<>>
    <3>1. i \in 1 .. Len(input) \/ i = Len(input')
      BY <1>2, <1>9, <1>10, <2>3
    <3> QED BY <1>9, <2>3, <3>1
  <2> QED BY <2>1, <2>2, <2>3
<1>11. Types'
  <2>1. input' \in Seq(Lines) /\ Len(input') <= SHELL_MSG_LEN
    <3>1. CASE input' = <<>>
      <4>1. input' \in Seq(Lines) /\ Len(input') = 0
        BY <3>1, EmptySeq
      <4> QED BY <1>2, <4>1
    <3>2. CASE input' # <<>>
      BY <1>2, <1>9, <3>2
    <3> QED BY <3>1, <3>2
  <2>2. \A i \in 1 .. Len(input') : input'[i] <= line
    BY <1>0, <1>7, <1>10 DEF Types, Past
  <2>3. \A i \in 1 .. Len(fifo') : fifo'[i] <= line \/ fifo'[i] = Eol
    BY <1>0, <1>3, <1>4 DEF Types, Past
  <2>4. Len(fifo') <= 2 /\ received' \in BOOLEAN
    <3>1. Len(fifo') <= 2
      BY <1>2, <1>3
    <3>2. received \in BOOLEAN
      BY <1>0 DEF Types, TypeOK
    <3> QED BY <1>8, <3>1, <3>2
  <2>5. TypeOK'
    BY <1>0, <1>1, <1>3, <2>1, <2>4 DEF Types, TypeOK, UartRegisters
  <2>6. Past'
    BY <1>0, <1>1, <2>2, <2>3 DEF Types, Past, Eol
  <2> QED BY <1>0, <1>1, <2>5, <2>6 DEF Types
<1>12. ASSUME ~ahead' PROVE Turn'
  <2>0. Turn
    BY <1>1, <1>12 DEF Inv
  <2>1. Asking
    BY <1>1 DEF Asking
  <2>2. ~received /\ pc \notin {"off", "exec", "on"}
    BY <1>1, <2>0, <2>1 DEF Turn, Stages
  <2>3. c = IF left = 0 /\ Len(fifo) = 1 THEN Eol ELSE line
    BY <1>2, <1>5, <2>0 DEF Turn, FifoShape, c
  <2>4. line # Eol
    BY <1>2
  <2>5. \A i \in 1 .. Len(input') : input'[i] = line
    BY <1>10, <2>0, <2>3 DEF Turn, Gathered
  <2>6. CASE left = 0 /\ Len(fifo) = 1
    <3>1. c = Eol /\ received' = TRUE /\ input' = input
      BY <1>8, <2>3, <2>6
    <3>2. Len(fifo') = 0 /\ fifo' = <<>>
      <4>1. Len(fifo') = 0
        BY <1>3, <2>6
      <4> QED BY <1>3, <4>1, EmptySeq
    <3>3. OnTheWire = 0 /\ OnTheWire' = 0
      BY <1>1, <2>6, <3>2 DEF OnTheWire
    <3>4. Asking'
      BY <3>1 DEF Asking
    <3>5. FifoShape' /\ Stages'
      BY <1>1, <2>2, <2>6, <3>1, <3>2 DEF FifoShape, Stages
    <3>6. Gathered' /\ Once'
      BY <1>1, <1>6, <2>0, <2>1, <2>5, <3>1, <3>3, <3>4 DEF Turn, Gathered, Once
    <3> QED BY <3>5, <3>6 DEF Turn
  <2>7. CASE ~(left = 0 /\ Len(fifo) = 1)
    <3>1. /\ c = line /\ received' = FALSE
          /\ input' = IF Len(input) + 1 > SHELL_MSG_LEN THEN <<>> ELSE Append(input, c)
      BY <1>8, <2>2, <2>3, <2>4, <2>7
    <3>2. left > 0 \/ fifo' # <<>>
      BY <1>2, <1>3, <2>7
    <3>3. OnTheWire >= 1 /\ OnTheWire' = OnTheWire - 1 /\ OnTheWire \in Nat
      <4>1. CASE left > 0
        BY <1>1, <1>2, <1>3, <4>1 DEF OnTheWire
      <4>2. CASE ~(left > 0)
        BY <1>1, <1>2, <1>3, <2>7, <3>2, <4>2 DEF OnTheWire
      <4> QED BY <4>1, <4>2
    <3>4. Asking'
      BY <1>1, <3>2 DEF Asking
    <3>5. FifoShape'
      <4> SUFFICES ASSUME NEW i \in 1 .. Len(fifo')
                   PROVE  fifo'[i] = IF left = 0 /\ i = Len(fifo') THEN Eol ELSE line
        BY <1>1 DEF FifoShape, Eol
      <4>1. fifo[i + 1] = IF left = 0 /\ i + 1 = Len(fifo) THEN Eol ELSE line
        BY <1>4, <2>0 DEF Turn, FifoShape
      <4>2. i + 1 = Len(fifo) <=> i = Len(fifo')
        BY <1>2, <1>3
      <4> QED BY <1>3, <4>1, <4>2
    <3>6. Stages'
      BY <1>1, <2>2, <3>1 DEF Stages
    <3>7. length <= SHELL_MSG_LEN => Len(input') + OnTheWire' = length
      <4> SUFFICES ASSUME length <= SHELL_MSG_LEN
                   PROVE  Len(input') + OnTheWire' = length
        OBVIOUS
      <4>1. Len(input) + OnTheWire = length
        BY <2>0, <2>1 DEF Turn, Gathered
      <4>2. ~(Len(input) + 1 > SHELL_MSG_LEN)
        BY <1>2, <3>3, <4>1
      <4>3. c \in Lines
        BY <1>7, <2>4, <3>1
      <4>4. Len(input') = Len(input) + 1
        BY <1>2, <3>1, <4>2, <4>3, AppendProperties
      <4> QED BY <1>2, <3>3, <4>1, <4>4
    <3>8. Gathered'
      BY <1>1, <2>5, <3>4, <3>7 DEF Gathered
    <3>9. Once'
      BY <1>1, <1>6, <2>0, <2>1, <3>4 DEF Turn, Once
    <3> QED BY <3>5, <3>6, <3>8, <3>9 DEF Turn
  <2> QED BY <2>6, <2>7
<1>13. ASSUME ~ahead', Enough' PROVE Room'
  <2>1. Room
    BY <1>1, <1>13 DEF Inv, Enough, MaxOwed
  <2>2. \A j \in 1 .. Len(ring) : LastAnswer(j) <=> LastAnswer(j)'
    BY <1>1 DEF LastAnswer, MaxOwed
  <2> QED BY <1>1, <1>6, <2>1, <2>2 DEF Room, MaxOwed
<1> QED BY <1>11, <1>12, <1>13 DEF Inv

-----------------------------------------------------------------------------
(* The theorems                                                             *)

LEMMA InitInv == Init => Inv
<1> SUFFICES ASSUME Init
             PROVE  Inv
  OBVIOUS
<1>1. /\ QUEUE_SIZE \in Nat /\ QUEUE_SIZE > 0 /\ MaxOwed \in Nat /\ MaxOwed = 2 * QUEUE_SIZE
      /\ SHELL_RING_LEN \in Nat /\ SHELL_RING_LEN >= 1 /\ SHELL_MSG_LEN \in Nat
      /\ MaxLines \in Nat /\ MaxLength \in Nat
  BY ConsoleAssumption DEF MaxOwed
<1>2. /\ line = 0 /\ length = 0 /\ left = 0 /\ ahead = FALSE /\ fifo = <<>> /\ rxie = TRUE
      /\ input = <<>> /\ received = FALSE /\ pc = "report" /\ owed = 1 /\ ring = <<Report>>
      /\ lost = {} /\ answered = {}
  BY DEF Init
<1>3. ring \in Seq(Values) /\ Len(ring) = 1 /\ ring[1] = 0
  BY <1>2 DEF Values, Report
<1>4. ~Out /\ ~Asking
  BY <1>2 DEF Out, Asking
<1>5. Types
  <2>1. fifo \in Seq(Lines \cup {Eol}) /\ input \in Seq(Lines) /\ Len(fifo) = 0 /\ Len(input) = 0
    BY <1>2, EmptySeq
  <2>2. owed \in 0 .. MaxOwed /\ line \in 0 .. MaxLines /\ length \in 0 .. MaxLength
    BY <1>1, <1>2
  <2>3. left \in 0 .. MaxLength + 1 /\ 0 <= SHELL_MSG_LEN /\ 1 <= SHELL_RING_LEN
    BY <1>1, <1>2
  <2>4. rxie \in BOOLEAN /\ received \in BOOLEAN /\ ahead \in BOOLEAN
    BY <1>2
  <2>5. TypeOK
    BY <1>2, <1>3, <2>1, <2>2, <2>3, <2>4 DEF TypeOK, Values, UartRegisters
  <2>6. Past
    BY <1>2, <1>3, <2>1 DEF Past
  <2> QED BY <1>2, <2>5, <2>6 DEF Types
<1>6. Turn
  BY <1>2, <1>4 DEF Turn, FifoShape, Stages, Gathered, Once
<1>7. Room
  <2>1. Len(ring) + owed <= MaxOwed
    BY <1>1, <1>2, <1>3
  <2> QED BY <1>2, <1>3, <1>4, <2>1 DEF Room, Report
<1> QED BY <1>5, <1>6, <1>7 DEF Inv

LEMMA StepInv == Inv /\ [Next]_vars => Inv'
<1> SUFFICES ASSUME Inv, [Next]_vars
             PROVE  Inv'
  OBVIOUS
<1>1. CASE BeginLine
  BY <1>1, BeginKeeps
<1>2. CASE Arrive
  BY <1>2, ArriveKeeps
<1>3. CASE RxIsr
  BY <1>3, IsrKeeps
<1>4. CASE Main
  <2>1. CASE ReportStates
    BY <2>1, ReportKeeps
  <2>2. CASE Poll \/ RxOff \/ RxOn
    BY <2>2, QuietKeeps
  <2>3. CASE shell_data_completed
    BY <2>3, ExecKeeps
  <2>4. CASE Send
    BY <2>4, SendKeeps, SendNothingKeeps
  <2> QED BY <1>4, <2>1, <2>2, <2>3, <2>4 DEF Main
<1>5. CASE UNCHANGED vars
  BY <1>5 DEF vars, hostVars, inputVars, outputVars, Inv, Types, TypeOK, Past, Turn, FifoShape,
              Stages, Gathered, Once, Asking, OnTheWire, Out, Enough, Room, LastAnswer, MaxOwed
<1> QED BY <1>1, <1>2, <1>3, <1>4, <1>5 DEF Next

LEMMA Invariance == Spec => []Inv
BY InitInv, StepInv, PTL DEF Spec

\* Buffers, registers and rings stay in their bounds, with any host.
THEOREM ConsoleTyped == Spec => []TypeOK
<1>1. Inv => TypeOK
  BY DEF Inv, Types
<1> QED BY <1>1, Invariance, PTL

\* A ring of two places for every slot of the planner and four more refuses no
\* message while the host waits for its answers (shell_add_message).
THEOREM RingSuffices == Spec => []NoneLost
<1>1. Inv => NoneLost
  BY DEF Inv, Enough, Room, NoneLost, MaxOwed
<1> QED BY <1>1, Invariance, PTL

\* The only step from before a command to after it is its execution, with the
\* whole line in the buffer and none of its answer made.
LEMMA Executes ==
    ASSUME Inv, [Next]_vars, pc = "exec", pc' = "on"
    PROVE  ahead \/ (Whole /\ line \notin answered \cup lost \cup Messages(ring))
<1> SUFFICES ASSUME ~ahead
             PROVE  Whole /\ line \notin answered \cup lost \cup Messages(ring)
  BY DEF Inv, Types, TypeOK
<1>1. Types /\ Turn /\ Asking
  BY DEF Inv, Asking
<1>2. left = 0 /\ fifo = <<>> /\ OnTheWire = 0 /\ Len(input) \in Nat
  <2>1. left = 0 /\ fifo = <<>>
    BY <1>1 DEF Turn, Stages
  <2> QED BY <1>1, <2>1, Bounds DEF OnTheWire
<1>3. Whole
  BY <1>1, <1>2 DEF Turn, Gathered, Whole
<1>4. line \notin Messages(ring)
  BY <1>1 DEF Turn, Once, Out, Messages
<1> QED BY <1>1, <1>3, <1>4 DEF Turn, Once

\* What is executed is the line the host sent last, all of it when it fits the
\* buffer, while the host waits for its answers (hardware_loop clears the flag
\* and switches the interrupt off in two steps).
THEOREM CommandsWhole == Spec => CommandWhole
<1>1. Inv /\ [Next]_vars => [pc = "exec" /\ pc' = "on" => ahead \/ Whole]_vars
  BY Executes
<1> QED BY <1>1, Invariance, PTL DEF Spec, CommandWhole

\* No line is executed when a message that answers it has been made.
THEOREM NeverTwice == Spec => ExecutedOnce
<1>1. Inv /\ [Next]_vars =>
        [pc = "exec" /\ pc' = "on" =>
            \/ ahead
            \/ line \notin answered \cup lost \cup Messages(ring)]_vars
  BY Executes
<1> QED BY <1>1, Invariance, PTL DEF Spec, ExecutedOnce

=============================================================================
