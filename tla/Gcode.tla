-------------------------------- MODULE Gcode --------------------------------
(****************************************************************************)
(* The parser of core/gcode/gcodes.c: from the text of a command to a frame *)
(* of letters with numbers, one parse_element per step, and the way         *)
(* gcode_handler.c reads the numbers.                                       *)
(*                                                                          *)
(* The text is the first len characters of a buffer; what follows is what   *)
(* an earlier, longer line has left there (shell.c resets input_pos only).  *)
(* The parser looks at some of it, so it is part of the model.              *)
(*                                                                          *)
(* A number is an integer of tenths, hundredths, ...: [num, scale]. Lengths *)
(* are small, so int32_t and double are exact here.                         *)
(****************************************************************************)
EXTENDS Integers, Sequences, FiniteSets, FiniteSetsExt

CONSTANTS
    Alphabet,     \* the characters that occur, as strings of one
    BufferLen,    \* bound: characters of the buffer
    MAX_CMDS      \* places of a frame

ASSUME GcodeAssumption == BufferLen \in Nat /\ MAX_CMDS \in Nat \ {0}

Nul == "nul"      \* behind the buffer
Space == " "
Comment == ";"    \* begins one
\* The characters '0' to '9' and 'A' to 'Z'.
Digits == {"0", "1", "2", "3", "4", "5", "6", "7", "8", "9"}
Letters == {"A", "B", "C", "D", "E", "F", "G", "H", "I", "J", "K", "L", "M",
            "N", "O", "P", "Q", "R", "S", "T", "U", "V", "W", "X", "Y", "Z"}

VARIABLES
    buf,      \* the buffer, str of parse_cmdline on
    len,      \* end - str0
    str,      \* where the parser is
    frame,    \* the commands found
    rc        \* what parse_cmdline returns, "run" before it does

vars == <<buf, len, str, frame, rc>>

IsDigit(c) == c \in Digits
\* c - '0'
DigitValue ==
    [c \in Digits |-> CASE c = "0" -> 0 [] c = "1" -> 1 [] c = "2" -> 2 [] c = "3" -> 3
                       [] c = "4" -> 4 [] c = "5" -> 5 [] c = "6" -> 6 [] c = "7" -> 7
                       [] c = "8" -> 8 [] c = "9" -> 9]

\* islast
IsLast(c) == c \in {Nul, Comment}

-----------------------------------------------------------------------------
(* Scanning, in a buffer b                                                  *)

Char(b, k) == IF k \in DOMAIN b THEN b[k] ELSE Nul

\* Mutant: digits are read on behind the end.
SkipDigitsOn(b, k) == Min({j \in k .. BufferLen + 1 : ~IsDigit(Char(b, j))})

\* The loops over digits: they look at the character behind the end, and stop.
SkipDigits(b, k) == Min({j \in k .. BufferLen + 1 : ~IsDigit(Char(b, j)) \/ j > len} \cup {BufferLen + 2})

\* The loop over spaces does not stop at the end.
SkipSpaces(b, k) == Min({j \in k .. BufferLen + 2 : Char(b, j) # Space})

\* v = v * 10 + digit, for the digits d from k to before j.
Value(d, k, j) ==
    LET v[i \in k - 1 .. j - 1] == IF i < k THEN 0 ELSE v[i - 1] * 10 + d[i]
    IN  v[j - 1]

Decimal(b, k, j) == Value([i \in k .. j - 1 |-> DigitValue[b[i]]], k, j)

\* div of read_double, after n digits: the powers of ten.
Ten[n \in 0 .. BufferLen] == IF n = 0 THEN 1 ELSE 10 * Ten[n - 1]

Failed(code) == [rc |-> code]

\* Mutant: the minus is read and not applied.
read_int_unsigned(b, k) ==
    LET minus == Char(b, k) = "-"
        first == IF minus THEN k + 1 ELSE k
        last == SkipDigits(b, first)
    IN  IF k > len \/ ~(minus \/ IsDigit(Char(b, k))) \/ first > len
        THEN Failed("BADNUM")
        ELSE [rc |-> "OK", kind |-> "int", scale |-> 0, next |-> last,
              num |-> Decimal(b, first, last)]

\* read_int
read_int(b, k) ==
    LET minus == Char(b, k) = "-"
        first == IF minus THEN k + 1 ELSE k
        last == SkipDigits(b, first)
        value == Decimal(b, first, last)
    IN  IF k > len \/ ~(minus \/ IsDigit(Char(b, k))) \/ first > len
        THEN Failed("BADNUM")
        ELSE [rc |-> "OK", kind |-> "int", scale |-> 0, next |-> last,
              num |-> IF minus THEN -value ELSE value]

\* is_float: digits, then a point. A minus sign is neither.
is_float(b, k) ==
    LET last == SkipDigits(b, k)
    IN  last <= len /\ b[last] = "."

\* read_double, after is_float.
read_double(b, k) ==
    LET point == SkipDigits(b, k)
        last == SkipDigits(b, point + 1)
        scale == last - (point + 1)
    IN  [rc |-> "OK", kind |-> "float", scale |-> scale, next |-> last,
         num |-> Decimal(b, k, point) * Ten[scale] + Decimal(b, point + 1, last)]

\* A number with its letter.
Labelled(c, number) ==
    [f \in {"type"} \cup DOMAIN number |-> IF f = "type" THEN c ELSE number[f]]

\* Mutant: what is no letter is passed over.
parse_element_lax(b, k) ==
    LET start == SkipSpaces(b, k)
        c == Char(b, start)
    IN  IF start > len \/ c \notin Letters
        THEN [rc |-> "OK", type |-> Nul]
        ELSE Labelled(c, IF is_float(b, start + 1) THEN read_double(b, start + 1)
                                                  ELSE read_int(b, start + 1))

\* parse_element
parse_element(b, k) ==
    LET start == SkipSpaces(b, k)
        c == Char(b, start)
    IN  IF IsLast(c) \/ start > len THEN [rc |-> "OK", type |-> Nul]
        ELSE IF c \notin Letters THEN Failed("INCORRECT")
        ELSE Labelled(c, IF is_float(b, start + 1) THEN read_double(b, start + 1)
                                                  ELSE read_int(b, start + 1))

-----------------------------------------------------------------------------

Init ==
    /\ buf \in [1 .. BufferLen -> Alphabet]
    /\ len \in 0 .. BufferLen
    /\ str = 1
    /\ frame = <<>>
    /\ rc = "run"

Return(code) ==
    /\ rc' = code
    /\ UNCHANGED <<buf, len, str, frame>>

\* The loop of parse_cmdline goes on.
More == Char(buf, str) # Nul /\ Len(frame) < MAX_CMDS /\ str <= len

Step ==
    /\ rc = "run" /\ More
    /\ LET e == parse_element(buf, str)
       IN  IF e.rc # "OK" THEN Return(e.rc)
           ELSE IF e.type = Nul THEN Return("OK")
           ELSE /\ frame' = Append(frame, e)
                /\ str' = e.next
                /\ UNCHANGED <<buf, len, rc>>

Finish == rc = "run" /\ ~More /\ Return("OK")

Next == Step \/ Finish

Spec == Init /\ [][Next]_vars

-----------------------------------------------------------------------------
(* Properties                                                               *)

\* The same text with nothing left behind its end.
Canonical == [k \in 1 .. BufferLen |-> IF k <= len THEN buf[k] ELSE Comment]

Meaning(e) == IF e.rc # "OK" \/ e.type = Nul THEN e ELSE [e EXCEPT !.next = 0]

\* What an earlier line has left behind the end changes nothing, though the loops
\* over spaces and digits look at it.
StaleIgnored ==
    rc = "run" /\ More =>
        Meaning(parse_element(buf, str)) = Meaning(parse_element(Canonical, str))

\* Where the text ends: at a semicolon, a zero or the end of the line.
TextEnd == Min({k \in 1 .. len : IsLast(buf[k])} \cup {len + 1})

\* The letters among the first n characters.
LetterPlaces(n) == {k \in 1 .. n : buf[k] \in Letters}

\* Nothing is skipped: an accepted text has in its frame every letter before its
\* end, in order, up to the places of the frame.
NothingSkipped ==
    LET commands == LetterPlaces(TextEnd - 1)
        many == Cardinality(commands)
        place(k) == Cardinality(LetterPlaces(k))
    IN  rc = "OK" =>
          /\ Len(frame) = IF many < MAX_CMDS THEN many ELSE MAX_CMDS
          /\ \A k \in commands : place(k) <= MAX_CMDS => frame[place(k)].type = buf[k]

\* The characters of a number.
Numeral(c) == IsDigit(c) \/ c = "-" \/ c = "."

\* Where the number behind the letter at k ends.
NumberEnd(k) == Min({j \in k + 1 .. len : ~Numeral(buf[j])} \cup {len + 1})

\* e is the decimal number in the characters behind the letter at k and before n:
\* divided by the power of ten of a place it has the digit that is written there,
\* and it has no others; a minus comes first, the scale is the number of places
\* behind the point.
IsNumber(e, k, n) ==
    LET places == k + 1 .. n - 1
        behind(i) == Cardinality({j \in places : i < j /\ IsDigit(buf[j])})
        marks == {i \in places : ~IsDigit(buf[i])}
        amount == IF \E i \in marks : buf[i] = "-" THEN -e.num ELSE e.num
    IN  /\ \A i \in marks : marks = {i} /\ (buf[i] = "-" => i = k + 1)
        /\ amount \in 0 .. Ten[behind(k)] - 1
        /\ \A i \in places \ marks : (amount \div Ten[behind(i)]) % 10 = DigitValue[buf[i]]
        /\ IF \E i \in marks : buf[i] = "."
           THEN \A i \in marks : e.scale = behind(i)
           ELSE e.scale = 0

\* The number of every letter of an accepted text is the decimal number written
\* behind it. The last place of a full frame is left out: what follows there is
\* never looked at, and G-2.5 is read as -2.
NumbersRead ==
    LET place(k) == Cardinality(LetterPlaces(k))
    IN  rc = "OK" => \A k \in LetterPlaces(len) :
            place(k) <= Len(frame) /\ place(k) < MAX_CMDS =>
                IsNumber(frame[place(k)], k, NumberEnd(k))

=============================================================================
