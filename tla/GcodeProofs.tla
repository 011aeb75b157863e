------------------------------ MODULE GcodeProofs ------------------------------
(****************************************************************************)
(* The parser reads the text it is given and nothing else, for buffers of   *)
(* any length with anything in them.                                        *)
(*                                                                          *)
(* It does look at what an earlier line has left behind the end: the loops  *)
(* over spaces and digits stop at a character, not at the end. A loop over  *)
(* digits stops at the same place whatever the leftovers are, because it    *)
(* stops behind the end at once (SameDigits); a loop over spaces may run    *)
(* on, but then the element is the end of the text wherever it stopped      *)
(* (SameSpaces).                                                            *)
(*                                                                          *)
(* That nothing is skipped needs to know what an element reads: spaces, a   *)
(* letter and numerals (LetterRead), so that the letters before the         *)
(* parser's place are the commands in the frame (Progress), and an element  *)
(* without a letter ends the text (EndStep).                                *)
(*                                                                          *)
(* What number the digits make is about a loop: its values are a function   *)
(* over an interval that a first value and a step give (Recursion), and     *)
(* what holds at the start of an interval and is handed on holds on all of  *)
(* it (Onward). So the number has the digits it was read from, whatever     *)
(* their number (ValueDigits, TwoRuns). That it is the whole of what is     *)
(* written behind the letter is seen an element later only: Numbers says    *)
(* less of the last letter in the frame than of those before it.            *)
(****************************************************************************)
EXTENDS Gcode, FiniteSetTheorems, WellFoundedInduction, TLAPS

\* The buffer and the parser's place in it.
Placed ==
    /\ DOMAIN buf = 1 .. BufferLen
    /\ len \in 0 .. BufferLen
    /\ str \in 1 .. len + 1

-----------------------------------------------------------------------------
(* The first of a set of places                                             *)

\* Every set of numbers that is not empty has a smallest one, Min.
LEMMA MinIsLeast ==
    ASSUME NEW S \in SUBSET Nat, S # {}
    PROVE  Min(S) \in S /\ \A y \in S : Min(S) <= y
<1> DEFINE Below == OpToRel(<, Nat)
<1>1. IsWellFoundedOn(Below, Nat)
  BY NatLessThanWellFounded
<1>2. \A x, y \in Nat : y < x => <<y, x>> \in Below
  BY DEF OpToRel
<1> HIDE DEF Below
<1>3. PICK x \in S : \A y \in S : ~ (<<y, x>> \in Below)
  BY <1>1, WFMin
<1>4. ASSUME NEW y \in S PROVE x <= y
  <2>1. x \in Nat /\ y \in Nat
    OBVIOUS
  <2>2. ~ (y < x)
    BY <1>2, <1>3, <2>1
  <2> QED BY <2>1, <2>2
<1>5. \E z \in S : \A y \in S : z <= y
  BY <1>4
<1> QED BY <1>5 DEF Min

\* Only one number is the smallest.
LEMMA MinIs ==
    ASSUME NEW S \in SUBSET Nat, NEW x \in S, \A y \in S : x <= y
    PROVE  Min(S) = x
<1>1. Min(S) \in S /\ \A y \in S : Min(S) <= y
  BY MinIsLeast
<1>2. Min(S) <= x /\ x <= Min(S)
  BY <1>1
<1>3. Min(S) \in Nat /\ x \in Nat
  BY <1>1
<1> QED BY <1>2, <1>3

-----------------------------------------------------------------------------
(* The buffer with and without leftovers                                    *)

\* The texts are the same.
LEMMA SameText ==
    ASSUME Placed, NEW k \in Nat \ {0}, k <= len
    PROVE  Char(Canonical, k) = Char(buf, k) /\ Canonical[k] = buf[k]
<1>1. k \in 1 .. BufferLen
  BY GcodeAssumption DEF Placed
<1>2. DOMAIN buf = 1 .. BufferLen /\ DOMAIN Canonical = 1 .. BufferLen
  BY DEF Placed, Canonical
<1>3. Canonical[k] = buf[k]
  BY <1>1 DEF Canonical
<1> QED BY <1>1, <1>2, <1>3 DEF Char

\* A loop over digits stops at the same place.
LEMMA SameDigits ==
    ASSUME Placed, NEW k \in Nat \ {0}
    PROVE  SkipDigits(Canonical, k) = SkipDigits(buf, k)
<1>1. \A j \in k .. BufferLen + 1 :
          ~IsDigit(Char(Canonical, j)) \/ j > len <=> ~IsDigit(Char(buf, j)) \/ j > len
  <2> TAKE j \in k .. BufferLen + 1
  <2>1. j \in Nat \ {0}
    BY GcodeAssumption
  <2>2. len \in Int
    BY GcodeAssumption DEF Placed
  <2>3. CASE j <= len
    <3>1. Char(Canonical, j) = Char(buf, j)
      BY <2>1, <2>3, SameText
    <3> QED BY <3>1
  <2>4. CASE j > len
    BY <2>4
  <2> QED BY <2>1, <2>2, <2>3, <2>4
<1>2. {j \in k .. BufferLen + 1 : ~IsDigit(Char(Canonical, j)) \/ j > len}
        = {j \in k .. BufferLen + 1 : ~IsDigit(Char(buf, j)) \/ j > len}
  BY <1>1
<1> QED BY <1>2 DEF SkipDigits

\* It has read nothing but digits, and none of them behind the text.
LEMMA DigitsInside ==
    ASSUME Placed, NEW b, NEW k \in Nat \ {0}
    PROVE  /\ SkipDigits(b, k) \in Nat \ {0}
           /\ \A i \in k .. SkipDigits(b, k) - 1 : i \in Nat \ {0} /\ i <= len /\ IsDigit(Char(b, i))
           /\ k <= len + 1 => SkipDigits(b, k) \in k .. len + 1
<1> DEFINE S == {j \in k .. BufferLen + 1 : ~IsDigit(Char(b, j)) \/ j > len} \cup {BufferLen + 2}
           m == Min(S)
<1>1. m = SkipDigits(b, k)
  BY DEF SkipDigits
<1>2. S \in SUBSET Nat /\ S # {} /\ 0 \notin S
  BY GcodeAssumption
<1>3. \A i \in k .. BufferLen + 1 : i \notin S => ~(i > len) /\ IsDigit(Char(b, i))
  OBVIOUS
<1>4. \A y \in S : y <= BufferLen + 2 /\ (y >= k \/ y = BufferLen + 2)
  BY GcodeAssumption
<1>8. len \in Nat /\ len <= BufferLen
  BY GcodeAssumption DEF Placed
<1>9. k <= len + 1 => len + 1 \in S
  BY <1>8, GcodeAssumption
<1> HIDE DEF S
<1>5. m \in S /\ \A y \in S : m <= y
  BY <1>2, MinIsLeast
<1> HIDE DEF m
<1>6. m \in Nat \ {0} /\ m <= BufferLen + 2
  BY <1>2, <1>4, <1>5
<1>7. ASSUME NEW i \in k .. m - 1 PROVE i \in Nat \ {0} /\ i <= len /\ IsDigit(Char(b, i))
  <2>1. i \in Nat \ {0} /\ i < m
    BY <1>6
  <2>2. i \notin S
    <3>1. ~(m <= i)
      BY <2>1, <1>6
    <3> QED BY <3>1, <1>5
  <2>3. i \in k .. BufferLen + 1
    BY <1>6, <2>1, GcodeAssumption
  <2>4. len \in Int
    BY GcodeAssumption DEF Placed
  <2> QED BY <1>3, <2>1, <2>2, <2>3, <2>4
<1>10. k <= len + 1 => m \in k .. len + 1
  <2> SUFFICES ASSUME k <= len + 1 PROVE m \in k .. len + 1
    OBVIOUS
  <2>1. m <= len + 1
    BY <1>5, <1>9
  <2>2. m >= k
    BY <1>4, <1>5, <1>8, <2>1, GcodeAssumption
  <2> QED BY <1>6, <1>8, <2>1, <2>2
<1> QED BY <1>1, <1>6, <1>7, <1>10

\* So the number is the same.
LEMMA SameDecimal ==
    ASSUME Placed, NEW k \in Nat \ {0}, NEW j \in Nat,
           \A i \in k .. j - 1 : i \in Nat \ {0} /\ i <= len
    PROVE  Decimal(Canonical, k, j) = Decimal(buf, k, j)
<1>1. \A i \in k .. j - 1 : Canonical[i] = buf[i]
  BY SameText
<1>2. [i \in k .. j - 1 |-> DigitValue[Canonical[i]]] = [i \in k .. j - 1 |-> DigitValue[buf[i]]]
  BY <1>1
<1> QED BY <1>2 DEF Decimal

\* A loop over spaces stops at the same place, or behind the text.
LEMMA SameSpaces ==
    ASSUME Placed, NEW k \in Nat \ {0}, k <= len
    PROVE  \/ /\ SkipSpaces(buf, k) \in Nat \ {0}
              /\ SkipSpaces(buf, k) <= len
              /\ SkipSpaces(Canonical, k) = SkipSpaces(buf, k)
           \/ SkipSpaces(buf, k) > len /\ SkipSpaces(Canonical, k) > len
<1> DEFINE S(b) == {j \in k .. BufferLen + 2 : Char(b, j) # Space}
           s == Min(S(buf))
           t == Min(S(Canonical))
<1>1. s = SkipSpaces(buf, k) /\ t = SkipSpaces(Canonical, k)
  BY DEF SkipSpaces
<1>2. len \in Nat /\ len <= BufferLen
  BY GcodeAssumption DEF Placed
<1>3. DOMAIN buf = 1 .. BufferLen /\ DOMAIN Canonical = 1 .. BufferLen
  BY DEF Placed, Canonical
<1>4. BufferLen + 1 \in S(buf) /\ BufferLen + 1 \in S(Canonical)
  <2>1. BufferLen + 1 \notin 1 .. BufferLen /\ BufferLen + 1 \in k .. BufferLen + 2
    BY <1>2, GcodeAssumption
  <2> QED BY <1>3, <2>1 DEF Char, Nul, Space
<1>5. \A j \in Nat \ {0} : j <= len => (j \in S(buf) <=> j \in S(Canonical))
  BY SameText
<1>6. S(buf) \in SUBSET (Nat \ {0}) /\ S(Canonical) \in SUBSET (Nat \ {0})
  <2>1. k .. BufferLen + 2 \subseteq Nat \ {0}
    BY GcodeAssumption
  <2> QED BY <2>1
<1> HIDE DEF S
<1>7. s \in S(buf) /\ \A y \in S(buf) : s <= y
  BY <1>4, <1>6, MinIsLeast
<1>8. t \in S(Canonical) /\ \A y \in S(Canonical) : t <= y
  BY <1>4, <1>6, MinIsLeast
<1> HIDE DEF s, t
<1>9. s \in Nat \ {0} /\ t \in Nat \ {0}
  BY <1>6, <1>7, <1>8
<1>10. CASE s <= len
  <2>1. s \in S(Canonical)
    BY <1>5, <1>7, <1>9, <1>10
  <2>2. t <= s /\ t <= len
    BY <1>2, <1>8, <1>9, <1>10, <2>1
  <2>3. t \in S(buf)
    BY <1>5, <1>8, <1>9, <2>2
  <2>4. s <= t
    BY <1>7, <2>3
  <2> QED BY <1>1, <1>9, <1>10, <2>2, <2>4
<1>11. CASE s > len
  <2>1. t > len
    <3> SUFFICES ASSUME t <= len PROVE FALSE
      BY <1>2, <1>9
    <3>1. t \in S(buf)
      BY <1>5, <1>8, <1>9
    <3>2. s <= t
      BY <1>7, <3>1
    <3> QED BY <1>2, <1>9, <1>11, <3>2
  <2> QED BY <1>1, <1>11, <2>1
<1> QED BY <1>2, <1>9, <1>10, <1>11

\* It does not go back.
LEMMA SkipsForward ==
    ASSUME Placed, NEW k \in Nat \ {0}, k <= len
    PROVE  SkipSpaces(buf, k) \in Nat /\ SkipSpaces(buf, k) >= k
<1> DEFINE S == {j \in k .. BufferLen + 2 : Char(buf, j) # Space}
<1>1. len \in Nat /\ len <= BufferLen /\ DOMAIN buf = 1 .. BufferLen
  BY GcodeAssumption DEF Placed
<1>2. BufferLen + 1 \in S
  <2>1. BufferLen + 1 \notin 1 .. BufferLen /\ BufferLen + 1 \in k .. BufferLen + 2
    BY <1>1, GcodeAssumption
  <2> QED BY <1>1, <2>1 DEF Char, Nul, Space
<1>3. S \in SUBSET Nat /\ \A y \in S : y >= k
  BY GcodeAssumption
<1> HIDE DEF S
<1>4. Min(S) \in S
  BY <1>2, <1>3, MinIsLeast
<1> QED BY <1>3, <1>4 DEF SkipSpaces, S

-----------------------------------------------------------------------------
(* The numbers and the element                                              *)

\* read_int reads the same number.
LEMMA SameInt ==
    ASSUME Placed, NEW k \in Nat \ {0}
    PROVE  read_int(Canonical, k) = read_int(buf, k)
<1> DEFINE Rest(b, minus) ==
        LET first == IF minus THEN k + 1 ELSE k
            last == SkipDigits(b, first)
            value == Decimal(b, first, last)
        IN  [rc |-> "OK", kind |-> "int", scale |-> 0, next |-> last,
             num |-> IF minus THEN -value ELSE value]
<1>1. len \in Nat
  BY GcodeAssumption DEF Placed
<1>2. ASSUME NEW first \in Nat \ {0}
      PROVE  /\ SkipDigits(Canonical, first) = SkipDigits(buf, first)
             /\ Decimal(Canonical, first, SkipDigits(buf, first))
                  = Decimal(buf, first, SkipDigits(buf, first))
  <2>1. SkipDigits(buf, first) \in Nat
    BY DigitsInside
  <2>2. \A i \in first .. SkipDigits(buf, first) - 1 : i \in Nat \ {0} /\ i <= len
    BY DigitsInside
  <2> QED BY <2>1, <2>2, SameDigits, SameDecimal
<1>3. \A minus \in BOOLEAN : Rest(Canonical, minus) = Rest(buf, minus)
  <2> TAKE minus \in BOOLEAN
  <2> DEFINE first == IF minus THEN k + 1 ELSE k
  <2>1. first \in Nat \ {0}
    OBVIOUS
  <2> HIDE DEF first
  <2>2. /\ SkipDigits(Canonical, first) = SkipDigits(buf, first)
        /\ Decimal(Canonical, first, SkipDigits(buf, first))
             = Decimal(buf, first, SkipDigits(buf, first))
    BY <1>2, <2>1
  <2> QED BY <2>2 DEF first
<1>4. \A b : read_int(b, k) =
        LET minus == Char(b, k) = "-"
        IN  IF k > len \/ ~(minus \/ IsDigit(Char(b, k))) \/ (IF minus THEN k + 1 ELSE k) > len
            THEN Failed("BADNUM") ELSE Rest(b, minus)
  BY DEF read_int
<1> HIDE DEF Rest
<1>5. CASE k > len
  BY <1>4, <1>5
<1>6. CASE k <= len
  <2>1. Char(Canonical, k) = Char(buf, k)
    BY <1>6, SameText
  <2>2. Rest(Canonical, Char(buf, k) = "-") = Rest(buf, Char(buf, k) = "-")
    BY <1>3
  <2> QED BY <1>4, <2>1, <2>2
<1> QED BY <1>1, <1>5, <1>6

\* So does read_double, and is_float chooses between them in the same way.
LEMMA SameDouble ==
    ASSUME Placed, NEW k \in Nat \ {0}
    PROVE  /\ is_float(Canonical, k) = is_float(buf, k)
           /\ read_double(Canonical, k) = read_double(buf, k)
<1> DEFINE point == SkipDigits(buf, k)
           last == SkipDigits(buf, point + 1)
<1>1. SkipDigits(Canonical, k) = point
  BY SameDigits
<1>2. point \in Nat \ {0}
  BY DigitsInside
<1>3. Decimal(Canonical, k, point) = Decimal(buf, k, point)
  <2>1. \A i \in k .. point - 1 : i \in Nat \ {0} /\ i <= len
    BY DigitsInside
  <2> HIDE DEF point
  <2> QED BY <1>2, <2>1, SameDecimal
<1>4. point <= len => Canonical[point] = buf[point]
  BY <1>2, SameText
<1>5. is_float(Canonical, k) = is_float(buf, k)
  BY <1>1, <1>4 DEF is_float
<1>6. SkipDigits(Canonical, point + 1) = last
  BY <1>2, SameDigits
<1>7. Decimal(Canonical, point + 1, last) = Decimal(buf, point + 1, last)
  <2> HIDE DEF point
  <2>1. point + 1 \in Nat \ {0}
    BY <1>2
  <2>2. last \in Nat
    BY <2>1, DigitsInside
  <2>3. \A i \in point + 1 .. last - 1 : i \in Nat \ {0} /\ i <= len
    BY <2>1, DigitsInside
  <2> HIDE DEF last
  <2> QED BY <2>1, <2>2, <2>3, SameDecimal
<1>8. read_double(Canonical, k) = read_double(buf, k)
  BY <1>1, <1>3, <1>6, <1>7 DEF read_double
<1> QED BY <1>5, <1>8

\* Whatever the loop over spaces has run over, the element is the same.
LEMMA SameElement ==
    ASSUME Placed, NEW k \in Nat \ {0}, k <= len
    PROVE  parse_element(Canonical, k) = parse_element(buf, k)
<1> DEFINE s == SkipSpaces(buf, k)
           t == SkipSpaces(Canonical, k)
<1>1. CASE s > len /\ t > len
  BY <1>1 DEF parse_element
<1>2. CASE s \in Nat \ {0} /\ s <= len /\ t = s
  <2>1. Char(Canonical, s) = Char(buf, s)
    BY <1>2, SameText
  <2>2. s + 1 \in Nat \ {0}
    BY <1>2
  <2>3. /\ is_float(Canonical, s + 1) = is_float(buf, s + 1)
        /\ read_double(Canonical, s + 1) = read_double(buf, s + 1)
        /\ read_int(Canonical, s + 1) = read_int(buf, s + 1)
    BY <2>2, SameInt, SameDouble
  <2> QED BY <1>2, <2>1, <2>3 DEF parse_element
<1> QED BY <1>1, <1>2, SameSpaces

-----------------------------------------------------------------------------
(* The characters of an element                                             *)

\* What is read from k to before next is a number.
Reads(k, next) == next \in k .. len + 1 /\ \A i \in k .. next - 1 : Numeral(buf[i])

LEMMA CharIn ==
    ASSUME Placed, NEW k \in Nat \ {0}, k <= len
    PROVE  Char(buf, k) = buf[k]
BY GcodeAssumption DEF Placed, Char

\* A loop over digits.
LEMMA DigitsRead ==
    ASSUME Placed, NEW k \in Nat \ {0}, k <= len + 1
    PROVE  Reads(k, SkipDigits(buf, k))
<1>1. SkipDigits(buf, k) \in k .. len + 1
  BY DigitsInside
<1>2. ASSUME NEW i \in k .. SkipDigits(buf, k) - 1 PROVE Numeral(buf[i])
  <2>1. i \in Nat \ {0} /\ i <= len /\ IsDigit(Char(buf, i))
    BY DigitsInside
  <2> QED BY <2>1, CharIn DEF Numeral
<1> QED BY <1>1, <1>2 DEF Reads

\* read_int.
LEMMA IntRead ==
    ASSUME Placed, NEW k \in Nat \ {0}
    PROVE  \/ read_int(buf, k) = Failed("BADNUM")
           \/ /\ DOMAIN read_int(buf, k) = {"rc", "kind", "scale", "next", "num"}
              /\ Reads(k, read_int(buf, k).next)
<1> DEFINE minus == Char(buf, k) = "-"
           first == IF minus THEN k + 1 ELSE k
<1> SUFFICES ASSUME ~(k > len \/ ~(minus \/ IsDigit(Char(buf, k))) \/ first > len)
             PROVE  /\ DOMAIN read_int(buf, k) = {"rc", "kind", "scale", "next", "num"}
                    /\ Reads(k, read_int(buf, k).next)
  BY DEF read_int
<1>1. len \in Nat
  BY GcodeAssumption DEF Placed
<1>2. k <= len /\ first \in Nat \ {0} /\ first <= len + 1
  BY <1>1
<1>3. /\ DOMAIN read_int(buf, k) = {"rc", "kind", "scale", "next", "num"}
      /\ read_int(buf, k).next = SkipDigits(buf, first)
  BY DEF read_int
<1>4. ASSUME NEW i \in k .. first - 1 PROVE Numeral(buf[i])
  <2>1. i = k /\ minus
    BY <1>2
  <2> QED BY <1>2, <2>1, CharIn DEF Numeral
<1>5. k <= first
  OBVIOUS
<1> HIDE DEF first, minus
<1>6. Reads(first, SkipDigits(buf, first))
  BY <1>2, DigitsRead
<1>7. SkipDigits(buf, first) \in first .. len + 1
  BY <1>6 DEF Reads
<1>8. ASSUME NEW i \in k .. SkipDigits(buf, first) - 1 PROVE Numeral(buf[i])
  <2>1. i \in k .. first - 1 \/ i \in first .. SkipDigits(buf, first) - 1
    BY <1>2, <1>5, <1>7
  <2> QED BY <1>4, <1>6, <2>1 DEF Reads
<1>9. SkipDigits(buf, first) \in k .. len + 1
  BY <1>1, <1>2, <1>5, <1>7
<1> QED BY <1>3, <1>8, <1>9 DEF Reads

\* read_double.
LEMMA DoubleRead ==
    ASSUME Placed, NEW k \in Nat \ {0}, k <= len + 1, is_float(buf, k)
    PROVE  /\ DOMAIN read_double(buf, k) = {"rc", "kind", "scale", "next", "num"}
           /\ Reads(k, read_double(buf, k).next)
<1> DEFINE point == SkipDigits(buf, k)
           last == SkipDigits(buf, point + 1)
<1>1. /\ DOMAIN read_double(buf, k) = {"rc", "kind", "scale", "next", "num"}
      /\ read_double(buf, k).next = last
  BY DEF read_double
<1>2. len \in Nat
  BY GcodeAssumption DEF Placed
<1>3. point <= len /\ buf[point] = "."
  BY DEF is_float
<1>4. Reads(k, point)
  BY DigitsRead
<1> HIDE DEF point
<1>5. point \in k .. len + 1
  BY <1>4 DEF Reads
<1>6. point + 1 \in Nat \ {0} /\ point + 1 <= len + 1
  BY <1>2, <1>3, <1>5
<1>7. Reads(point + 1, last)
  BY <1>6, DigitsRead
<1> HIDE DEF last
<1>8. last \in point + 1 .. len + 1
  BY <1>7 DEF Reads
<1>9. ASSUME NEW i \in k .. last - 1 PROVE Numeral(buf[i])
  <2>1. i \in k .. point - 1 \/ i = point \/ i \in point + 1 .. last - 1
    BY <1>5, <1>8
  <2> QED BY <1>3, <1>4, <1>7, <2>1 DEF Reads, Numeral
<1>10. last \in k .. len + 1
  BY <1>2, <1>5, <1>8
<1> QED BY <1>1, <1>9, <1>10 DEF Reads

\* A loop over spaces.
LEMMA SpacesRead ==
    ASSUME Placed, NEW k \in Nat \ {0}
    PROVE  \A i \in k .. len : i < SkipSpaces(buf, k) => buf[i] = Space
<1> DEFINE S == {j \in k .. BufferLen + 2 : Char(buf, j) # Space}
<1>1. len \in Nat /\ len <= BufferLen /\ DOMAIN buf = 1 .. BufferLen
  BY GcodeAssumption DEF Placed
<1> SUFFICES ASSUME NEW i \in k .. len, i < Min(S), buf[i] # Space
             PROVE  FALSE
  BY DEF SkipSpaces
<1>2. i \in Nat \ {0} /\ i <= len
  BY <1>1
<1>3. i \in S
  BY <1>1, <1>2, CharIn, GcodeAssumption
<1>4. S \in SUBSET Nat
  BY GcodeAssumption
<1> HIDE DEF S
<1>5. Min(S) \in Nat /\ Min(S) <= i
  BY <1>3, <1>4, MinIsLeast
<1> QED BY <1>2, <1>5

\* A letter with its number, from the first character that is no space.
LEMMA LetterRead ==
    ASSUME Placed, NEW k \in Nat \ {0}, k <= len,
           parse_element(buf, k).rc = "OK", parse_element(buf, k).type # Nul
    PROVE  LET start == SkipSpaces(buf, k)
               e == parse_element(buf, k)
           IN  /\ start \in k .. len
               /\ buf[start] \in Letters /\ e.type = buf[start]
               /\ Reads(start + 1, e.next)
<1> DEFINE start == SkipSpaces(buf, k)
           c == Char(buf, start)
           number == IF is_float(buf, start + 1) THEN read_double(buf, start + 1)
                                                 ELSE read_int(buf, start + 1)
<1>1. ~(IsLast(c) \/ start > len)
  BY DEF parse_element
<1>2. start \in Nat \ {0}
  BY <1>1, SameSpaces
<1>3. c \in Letters /\ parse_element(buf, k) = Labelled(c, number)
  BY <1>1 DEF parse_element, Failed
<1>4. len \in Nat
  BY GcodeAssumption DEF Placed
<1>5. start <= len
  BY <1>1, <1>2, <1>4
<1>6. c = buf[start]
  BY <1>2, <1>5, CharIn
<1>7. start >= k
  BY <1>2, <1>5, SkipsForward
<1>8. \/ number = Failed("BADNUM")
      \/ DOMAIN number = {"rc", "kind", "scale", "next", "num"} /\ Reads(start + 1, number.next)
  <2> DEFINE k1 == start + 1
  <2>1. k1 \in Nat \ {0} /\ k1 <= len + 1
    BY <1>2, <1>4, <1>5
  <2> HIDE DEF k1
  <2> QED BY <2>1, IntRead, DoubleRead DEF k1
<1> HIDE DEF number
<1>9. number # Failed("BADNUM")
  BY <1>3 DEF Labelled, Failed
<1>10. parse_element(buf, k).next = number.next /\ parse_element(buf, k).type = c
  BY <1>3, <1>8, <1>9 DEF Labelled
<1> QED BY <1>2, <1>3, <1>4, <1>5, <1>6, <1>7, <1>8, <1>9, <1>10

-----------------------------------------------------------------------------
(* The parser stays in its text                                             *)

LEMMA PlacedInit == Init => Placed
BY GcodeAssumption DEF Init, Placed

LEMMA PlacedStep == Placed /\ [Next]_vars => Placed'
<1> SUFFICES ASSUME Placed, [Next]_vars PROVE Placed'
  OBVIOUS
<1>1. CASE Step
  <2> DEFINE e == parse_element(buf, str)
  <2>1. CASE \E code : Return(code)
    BY <2>1 DEF Return, Placed
  <2>2. CASE e.rc = "OK" /\ e.type # Nul
    <3>1. str \in Nat \ {0} /\ str <= len /\ len \in Nat
      BY <1>1, GcodeAssumption DEF Step, More, Placed
    <3>2. PICK start \in str .. len : Reads(start + 1, e.next)
      BY <2>2, <3>1, LetterRead
    <3>3. e.next \in 1 .. len + 1
      BY <3>1, <3>2 DEF Reads
    <3>4. str' = e.next /\ UNCHANGED <<buf, len>>
      BY <1>1, <2>2 DEF Step
    <3> QED BY <3>3, <3>4 DEF Placed
  <2> QED BY <1>1, <2>1, <2>2 DEF Step
<1>2. CASE Finish
  BY <1>2 DEF Finish, Return, Placed
<1>3. CASE UNCHANGED vars
  BY <1>3 DEF vars, Placed
<1> QED BY <1>1, <1>2, <1>3 DEF Next

\* What an earlier, longer line has left in the input buffer changes nothing of
\* how a line is read, however long the line and whatever the leftovers are:
\* shell.c takes input_pos back and clears nothing.
THEOREM LeftoversIgnored == Spec => []StaleIgnored
<1>1. Placed => StaleIgnored
  <2> SUFFICES ASSUME Placed, rc = "run", More
               PROVE  Meaning(parse_element(buf, str)) = Meaning(parse_element(Canonical, str))
    BY DEF StaleIgnored
  <2>1. str \in Nat \ {0} /\ str <= len
    BY GcodeAssumption DEF More, Placed
  <2> QED BY <2>1, SameElement
<1> QED BY <1>1, PlacedInit, PlacedStep, PTL DEF Spec

-----------------------------------------------------------------------------
(* No letter is left out                                                    *)

\* The frame holds the letters read so far, in order, and the text has not ended
\* before the parser's place.
Progress ==
    /\ frame \in Seq({frame[i] : i \in 1 .. Len(frame)})
    /\ Len(frame) <= MAX_CMDS
    /\ \A k \in 1 .. str - 1 : ~IsLast(buf[k])
    /\ Cardinality(LetterPlaces(str - 1)) = Len(frame)
    /\ \A k \in LetterPlaces(str - 1) : frame[Cardinality(LetterPlaces(k))].type = buf[k]

ReadInv ==
    /\ Placed
    /\ rc \in {"run", "OK"} => Progress
    /\ NothingSkipped

\* The letters of a text are counted.
LEMMA PlacesFinite ==
    ASSUME NEW n \in Int
    PROVE  /\ IsFiniteSet(LetterPlaces(n)) /\ Cardinality(LetterPlaces(n)) \in Nat
           /\ \A m \in Int : m <= n =>
                  /\ LetterPlaces(m) \subseteq LetterPlaces(n)
                  /\ Cardinality(LetterPlaces(m)) <= Cardinality(LetterPlaces(n))
<1>1. IsFiniteSet(1 .. n)
  BY FS_Interval
<1>2. LetterPlaces(n) \in SUBSET (1 .. n)
  BY DEF LetterPlaces
<1>3. IsFiniteSet(LetterPlaces(n))
  BY <1>1, <1>2, FS_Subset
<1>4. ASSUME NEW m \in Int, m <= n
      PROVE  LetterPlaces(m) \in SUBSET LetterPlaces(n)
  BY <1>4 DEF LetterPlaces
<1>5. Cardinality(LetterPlaces(n)) \in Nat
  BY <1>3, FS_CardinalityType
<1>6. \A m \in Int : m <= n => Cardinality(LetterPlaces(m)) <= Cardinality(LetterPlaces(n))
  BY <1>3, <1>4, FS_Subset
<1> QED BY <1>3, <1>4, <1>5, <1>6

\* Between two places without a letter there is nothing to count.
LEMMA NoPlaces ==
    ASSUME NEW m \in Nat, NEW n \in Nat, m <= n, \A i \in m + 1 .. n : buf[i] \notin Letters
    PROVE  LetterPlaces(n) = LetterPlaces(m)
BY DEF LetterPlaces

\* A letter is one more.
LEMMA OnePlace ==
    ASSUME NEW n \in Nat \ {0}, buf[n] \in Letters
    PROVE  /\ LetterPlaces(n) = LetterPlaces(n - 1) \cup {n}
           /\ Cardinality(LetterPlaces(n)) = Cardinality(LetterPlaces(n - 1)) + 1
<1>1. LetterPlaces(n) = LetterPlaces(n - 1) \cup {n}
  BY DEF LetterPlaces
<1>2. n \notin LetterPlaces(n - 1)
  BY DEF LetterPlaces
<1>3. IsFiniteSet(LetterPlaces(n - 1))
  BY PlacesFinite
<1> QED BY <1>1, <1>2, <1>3, FS_AddElement

\* What is no letter, and does not end a text either.
LEMMA NoLetters ==
    /\ Space \notin Letters /\ ~IsLast(Space)
    /\ \A c \in Letters : ~IsLast(c)
    /\ \A c : Numeral(c) => c \notin Letters /\ ~IsLast(c)
<1>1. Space \notin Letters /\ ~IsLast(Space)
  BY DEF Space, Letters, IsLast, Nul, Comment
<1>2. \A c \in Letters : ~IsLast(c)
  BY DEF Letters, IsLast, Nul, Comment
<1>3. "-" \notin Letters /\ ~IsLast("-") /\ "." \notin Letters /\ ~IsLast(".")
  BY DEF Letters, IsLast, Nul, Comment
<1>4. \A c \in Digits : c \notin Letters /\ ~IsLast(c)
  BY DEF Digits, Letters, IsLast, Nul, Comment
<1> QED BY <1>1, <1>2, <1>3, <1>4 DEF Numeral, IsDigit

\* The text ends at its first end.
LEMMA EndIs ==
    ASSUME Placed, NEW n \in 1 .. len + 1, n <= len => IsLast(buf[n]),
           \A k \in 1 .. n - 1 : ~IsLast(buf[k])
    PROVE  TextEnd = n
<1> DEFINE S == {k \in 1 .. len : IsLast(buf[k])} \cup {len + 1}
<1>1. len \in Nat
  BY GcodeAssumption DEF Placed
<1>2. S \in SUBSET Nat /\ n \in S /\ \A y \in S : n <= y
  BY <1>1
<1> HIDE DEF S
<1>3. Min(S) = n
  BY <1>2, MinIs
<1> QED BY <1>3 DEF TextEnd, S

LEMMA EndNotBefore ==
    ASSUME Placed, NEW n \in 1 .. len + 1, \A k \in 1 .. n - 1 : ~IsLast(buf[k])
    PROVE  TextEnd \in n .. len + 1
<1> DEFINE S == {k \in 1 .. len : IsLast(buf[k])} \cup {len + 1}
<1>1. len \in Nat
  BY GcodeAssumption DEF Placed
<1>2. S \in SUBSET Nat /\ S # {} /\ \A y \in S : n <= y /\ y <= len + 1
  BY <1>1
<1> HIDE DEF S
<1>3. Min(S) \in S
  BY <1>2, MinIsLeast
<1> QED BY <1>1, <1>2, <1>3 DEF TextEnd, S

\* When the rest of the text has no letter, the frame is complete.
LEMMA Complete ==
    ASSUME Placed, Progress, LetterPlaces(TextEnd - 1) = LetterPlaces(str - 1), rc' = "OK",
           UNCHANGED <<buf, len, str, frame>>
    PROVE  NothingSkipped'
<1>1. Len(frame) \in Nat /\ Len(frame) <= MAX_CMDS
  BY DEF Progress
<1>2. Cardinality(LetterPlaces(TextEnd - 1)) = Len(frame)
  BY DEF Progress
<1>3. /\ Len(frame) = IF Cardinality(LetterPlaces(TextEnd - 1)) < MAX_CMDS
                      THEN Cardinality(LetterPlaces(TextEnd - 1)) ELSE MAX_CMDS
      /\ \A k \in LetterPlaces(TextEnd - 1) :
             Cardinality(LetterPlaces(k)) <= MAX_CMDS => frame[Cardinality(LetterPlaces(k))].type = buf[k]
  BY <1>1, <1>2, GcodeAssumption DEF Progress
<1>4. TextEnd' = TextEnd
  BY DEF TextEnd
<1>5. \A n : LetterPlaces(n)' = LetterPlaces(n)
  BY DEF LetterPlaces
<1> QED BY <1>3, <1>4, <1>5 DEF NothingSkipped

\* When the frame is full, what follows has no place in it.
LEMMA Full ==
    ASSUME Placed, Progress, Len(frame) = MAX_CMDS, rc' = "OK",
           UNCHANGED <<buf, len, str, frame>>
    PROVE  NothingSkipped'
<1>1. len \in Nat /\ str \in 1 .. len + 1
  BY GcodeAssumption DEF Placed
<1>2. TextEnd \in str .. len + 1
  BY EndNotBefore DEF Placed, Progress
<1>3. /\ Cardinality(LetterPlaces(TextEnd - 1)) \in Nat
      /\ Cardinality(LetterPlaces(TextEnd - 1)) >= MAX_CMDS
  BY <1>1, <1>2, PlacesFinite DEF Progress
<1>4. ASSUME NEW k \in LetterPlaces(TextEnd - 1), Cardinality(LetterPlaces(k)) <= MAX_CMDS
      PROVE  frame[Cardinality(LetterPlaces(k))].type = buf[k]
  <2>1. k \in 1 .. TextEnd - 1 /\ buf[k] \in Letters
    BY DEF LetterPlaces
  <2>2. k \in Nat \ {0}
    BY <1>1, <1>2, <2>1
  <2>3. CASE k <= str - 1
    <3>1. k \in LetterPlaces(str - 1)
      BY <1>1, <2>1, <2>2, <2>3 DEF LetterPlaces
    <3> QED BY <3>1 DEF Progress
  <2>4. CASE k > str - 1
    <3>1. Cardinality(LetterPlaces(k)) = Cardinality(LetterPlaces(k - 1)) + 1
      BY <2>1, <2>2, OnePlace
    <3>2. Cardinality(LetterPlaces(k - 1)) >= Cardinality(LetterPlaces(str - 1))
      BY <1>1, <2>2, <2>4, PlacesFinite
    <3>3. Cardinality(LetterPlaces(k - 1)) \in Nat
      BY <2>2, PlacesFinite
    <3> QED BY <1>4, <3>1, <3>2, <3>3, GcodeAssumption DEF Progress
  <2> QED BY <1>1, <2>2, <2>3, <2>4
<1>5. TextEnd' = TextEnd
  BY DEF TextEnd
<1>6. \A n : LetterPlaces(n)' = LetterPlaces(n)
  BY DEF LetterPlaces
<1> QED BY <1>3, <1>4, <1>5, <1>6, GcodeAssumption DEF NothingSkipped

\* The step that finds the end of the text.
LEMMA EndStep ==
    ASSUME Placed, Progress, More, parse_element(buf, str).rc = "OK",
           parse_element(buf, str).type = Nul, Return("OK")
    PROVE  NothingSkipped'
<1> DEFINE start == SkipSpaces(buf, str)
           c == Char(buf, start)
<1>1. len \in Nat /\ str \in Nat \ {0} /\ str <= len
  BY GcodeAssumption DEF Placed, More
<1>2. start > len \/ (start \in Nat \ {0} /\ start <= len)
  BY <1>1, SameSpaces
<1>3. start \in Nat /\ start >= str
  BY <1>1, SkipsForward
<1>4. \A i \in str .. len : i < start => buf[i] = Space
  BY <1>1, SpacesRead
<1>5. IsLast(c) \/ start > len
  <2> SUFFICES ASSUME ~(IsLast(c) \/ start > len) PROVE FALSE
    OBVIOUS
  <2> DEFINE number == IF is_float(buf, start + 1) THEN read_double(buf, start + 1)
                                                   ELSE read_int(buf, start + 1)
  <2>1. c \in Letters /\ parse_element(buf, str) = Labelled(c, number)
    BY DEF parse_element, Failed
  <2>2. Labelled(c, number).type = c
    BY DEF Labelled
  <2>3. IsLast(Nul)
    BY DEF IsLast
  <2> QED BY <2>1, <2>2, <2>3, NoLetters
<1> HIDE DEF start
<1>6. PICK n \in str .. len + 1 :
          (n <= len => IsLast(buf[n])) /\ \A i \in str .. n - 1 : buf[i] = Space
  <2>1. CASE start > len
    <3>1. \A i \in str .. len : buf[i] = Space
      <4> TAKE i \in str .. len
      <4>1. i < start
        BY <1>1, <1>3, <2>1
      <4> QED BY <1>4, <4>1
    <3>2. len + 1 \in str .. len + 1 /\ ~(len + 1 <= len)
      BY <1>1
    <3> QED BY <1>1, <3>1, <3>2
  <2>2. CASE start \in Nat \ {0} /\ start <= len
    <3>1. IsLast(buf[start])
      BY <1>1, <1>5, <2>2, CharIn
    <3>2. start \in str .. len + 1
      BY <1>1, <1>3, <2>2
    <3> QED BY <1>1, <1>4, <2>2, <3>1, <3>2
  <2> QED BY <1>2, <2>1, <2>2
<1>7. TextEnd = n
  <2>1. \A k \in 1 .. n - 1 : ~IsLast(buf[k])
    <3> TAKE k \in 1 .. n - 1
    <3>1. k \in 1 .. str - 1 \/ k \in str .. n - 1
      BY <1>1
    <3> QED BY <1>6, <3>1, NoLetters DEF Progress
  <2>2. n \in 1 .. len + 1
    BY <1>1
  <2> QED BY <1>6, <2>1, <2>2, EndIs
<1>8. LetterPlaces(n - 1) = LetterPlaces(str - 1)
  <2>1. n - 1 \in Nat /\ str - 1 \in Nat /\ str - 1 <= n - 1 /\ (str - 1) + 1 = str
    BY <1>1
  <2>2. \A i \in (str - 1) + 1 .. n - 1 : buf[i] \notin Letters
    BY <1>6, <2>1, NoLetters
  <2> QED BY <2>1, <2>2, NoPlaces
<1> QED BY <1>7, <1>8, Complete DEF Return

\* The letters before the parser's place have a place in the frame.
LEMMA PlaceInFrame ==
    ASSUME Placed, Progress, NEW k \in LetterPlaces(str - 1)
    PROVE  k \in Nat \ {0} /\ k <= str - 1 /\ Cardinality(LetterPlaces(k)) \in 1 .. Len(frame)
<1>1. len \in Nat /\ str \in Nat \ {0} /\ Len(frame) \in Nat
  BY GcodeAssumption DEF Placed, Progress
<1>2. k \in Nat \ {0} /\ k <= str - 1 /\ buf[k] \in Letters
  BY <1>1 DEF LetterPlaces
<1>3. Cardinality(LetterPlaces(k)) \in Nat /\ Cardinality(LetterPlaces(k)) <= Len(frame)
  BY <1>1, <1>2, PlacesFinite DEF Progress
<1>4. Cardinality(LetterPlaces(k)) = Cardinality(LetterPlaces(k - 1)) + 1
  BY <1>2, OnePlace
<1>5. Cardinality(LetterPlaces(k - 1)) \in Nat
  BY <1>2, PlacesFinite
<1> QED BY <1>1, <1>2, <1>3, <1>4, <1>5

\* The step that finds a letter.
LEMMA LetterStep ==
    ASSUME Placed, Progress, More, parse_element(buf, str).rc = "OK",
           parse_element(buf, str).type # Nul,
           frame' = Append(frame, parse_element(buf, str)),
           str' = parse_element(buf, str).next, UNCHANGED <<buf, len, rc>>
    PROVE  /\ Progress'
           /\ LetterPlaces(str' - 1) = LetterPlaces(str - 1) \cup {SkipSpaces(buf, str)}
           /\ Cardinality(LetterPlaces(SkipSpaces(buf, str))) = Len(frame')
           /\ \A i \in 1 .. Len(frame) : frame'[i] = frame[i] /\ i < Len(frame')
           /\ frame'[Len(frame')] = parse_element(buf, str)
<1> DEFINE e == parse_element(buf, str)
           start == SkipSpaces(buf, str)
<1>1. len \in Nat /\ str \in Nat \ {0} /\ str <= len /\ Len(frame) < MAX_CMDS
  BY GcodeAssumption DEF Placed, More
<1>2. /\ start \in str .. len
      /\ buf[start] \in Letters /\ e.type = buf[start]
      /\ Reads(start + 1, e.next)
  BY <1>1, LetterRead
<1>3. \A i \in str .. len : i < start => buf[i] = Space
  BY <1>1, SpacesRead
<1>4. frame' = Append(frame, e) /\ str' = e.next
  OBVIOUS
<1> HIDE DEF e, start
<1>5. start \in Nat \ {0} /\ str' \in start + 1 .. len + 1 /\ str' \in Nat \ {0}
  BY <1>1, <1>2, <1>4 DEF Reads
<1>6. \A i \in start + 1 .. str' - 1 : Numeral(buf[i])
  BY <1>2, <1>4 DEF Reads
<1>7. LetterPlaces(start - 1) = LetterPlaces(str - 1)
  <2>1. start - 1 \in Nat /\ str - 1 \in Nat /\ str - 1 <= start - 1 /\ (str - 1) + 1 = str
    BY <1>1, <1>2, <1>5
  <2>2. \A i \in str .. start - 1 : i \in str .. len /\ i < start
    BY <1>1, <1>2, <1>5
  <2>3. \A i \in (str - 1) + 1 .. start - 1 : buf[i] \notin Letters
    BY <1>3, <2>1, <2>2, NoLetters
  <2> QED BY <2>1, <2>3, NoPlaces
<1>8. LetterPlaces(str' - 1) = LetterPlaces(start)
  <2>1. str' - 1 \in Nat /\ start \in Nat /\ start <= str' - 1
    BY <1>5
  <2>2. \A i \in start + 1 .. str' - 1 : buf[i] \notin Letters
    BY <1>6, NoLetters
  <2> QED BY <2>1, <2>2, NoPlaces
<1>9. /\ LetterPlaces(start) = LetterPlaces(str - 1) \cup {start}
      /\ Cardinality(LetterPlaces(start)) = Len(frame) + 1
  BY <1>2, <1>5, <1>7, OnePlace DEF Progress
<1>10. \A n : LetterPlaces(n)' = LetterPlaces(n)
  BY DEF LetterPlaces
<1>11. frame \in Seq({frame[i] : i \in 1 .. Len(frame)}) /\ Len(frame) \in Nat
  BY DEF Progress
<1>12. /\ Len(frame') = Len(frame) + 1
       /\ \A i \in 1 .. Len(frame) : frame'[i] = frame[i]
       /\ frame'[Len(frame) + 1] = e
       /\ frame' \in Seq({frame'[i] : i \in 1 .. Len(frame')})
  <2> DEFINE R == {frame[i] : i \in 1 .. Len(frame)} \cup {e}
  <2>1. frame \in Seq(R)
    BY <1>11
  <2>2. e \in R
    OBVIOUS
  <2> HIDE DEF R
  <2>3. /\ Len(frame') = Len(frame) + 1
        /\ \A i \in 1 .. Len(frame) : frame'[i] = frame[i]
        /\ frame'[Len(frame) + 1] = e
        /\ frame' \in Seq(R)
    BY <1>4, <2>1, <2>2
  <2> QED BY <2>3
<1>13. \A k \in 1 .. str' - 1 : ~IsLast(buf[k])
  <2> TAKE k \in 1 .. str' - 1
  <2>1. \/ k \in 1 .. str - 1
        \/ k \in str .. len /\ k < start
        \/ k = start
        \/ k \in start + 1 .. str' - 1
    BY <1>1, <1>2, <1>5
  <2> QED BY <1>2, <1>3, <1>6, <2>1, NoLetters DEF Progress
<1>14. ASSUME NEW k \in LetterPlaces(str' - 1)
       PROVE  frame'[Cardinality(LetterPlaces(k))].type = buf[k]
  <2>1. CASE k = start
    BY <1>2, <1>9, <1>12, <2>1
  <2>2. CASE k \in LetterPlaces(str - 1)
    <3>1. Cardinality(LetterPlaces(k)) \in 1 .. Len(frame)
      BY <2>2, PlaceInFrame
    <3> QED BY <1>12, <2>2, <3>1 DEF Progress
  <2> QED BY <1>8, <1>9, <2>1, <2>2
<1>15. Len(frame') <= MAX_CMDS
  BY <1>1, <1>11, <1>12, GcodeAssumption
<1>16. Cardinality(LetterPlaces(str' - 1)) = Len(frame')
  BY <1>8, <1>9, <1>12
<1>17. Progress'
  BY <1>10, <1>12, <1>13, <1>14, <1>15, <1>16 DEF Progress
<1> QED BY <1>8, <1>9, <1>11, <1>12, <1>17 DEF e, start

LEMMA ReadInit == Init => ReadInv
<1> SUFFICES ASSUME Init PROVE ReadInv
  OBVIOUS
<1>1. Placed
  BY PlacedInit
<1>2. Progress
  <2>1. frame = <<>> /\ Len(frame) = 0 /\ str - 1 = 0
    BY DEF Init
  <2>2. LetterPlaces(0) = {}
    BY DEF LetterPlaces
  <2>3. frame \in Seq({frame[i] : i \in 1 .. Len(frame)})
    BY <2>1
  <2> QED BY <2>1, <2>2, <2>3, FS_EmptySet, GcodeAssumption DEF Progress
<1>3. NothingSkipped
  BY DEF Init, NothingSkipped
<1> QED BY <1>1, <1>2, <1>3 DEF ReadInv

LEMMA ReadStep == ReadInv /\ [Next]_vars => ReadInv'
<1> SUFFICES ASSUME ReadInv, [Next]_vars PROVE ReadInv'
  OBVIOUS
<1>1. Placed'
  BY PlacedStep DEF ReadInv
<1>2. ASSUME UNCHANGED <<buf, len, str, frame>>, rc = "run"
      PROVE  Progress'
  <2>1. Progress
    BY <1>2 DEF ReadInv
  <2>2. \A n : LetterPlaces(n)' = LetterPlaces(n)
    BY <1>2 DEF LetterPlaces
  <2> QED BY <1>2, <2>1, <2>2 DEF Progress
<1>3. CASE Step
  <2> DEFINE e == parse_element(buf, str)
  <2>1. Placed /\ Progress /\ More /\ rc = "run"
    BY <1>3 DEF Step, ReadInv
  <2>2. CASE e.rc # "OK" /\ Return(e.rc)
    BY <1>1, <1>2, <2>1, <2>2 DEF Return, ReadInv, NothingSkipped
  <2>3. CASE e.rc = "OK" /\ e.type = Nul /\ Return("OK")
    BY <1>1, <1>2, <2>1, <2>3, EndStep DEF Return, ReadInv
  <2>4. CASE e.rc = "OK" /\ e.type # Nul
    <3>1. frame' = Append(frame, e) /\ str' = e.next /\ UNCHANGED <<buf, len, rc>>
      BY <1>3, <2>4 DEF Step
    <3>2. Progress'
      BY <2>1, <2>4, <3>1, LetterStep
    <3>3. NothingSkipped'
      BY <2>1, <3>1 DEF NothingSkipped
    <3> QED BY <1>1, <3>2, <3>3 DEF ReadInv
  <2> QED BY <1>3, <2>2, <2>3, <2>4 DEF Step
<1>4. CASE Finish
  <2>1. Placed /\ Progress /\ ~More /\ rc = "run" /\ Return("OK")
    BY <1>4 DEF Finish, ReadInv
  <2>2. UNCHANGED <<buf, len, str, frame>> /\ rc' = "OK"
    BY <2>1 DEF Return
  <2>3. len \in Nat /\ str \in 1 .. len + 1 /\ Len(frame) \in Nat /\ Len(frame) <= MAX_CMDS
    BY <2>1, GcodeAssumption DEF Placed, Progress
  <2>4. CASE Len(frame) = MAX_CMDS
    <3>1. NothingSkipped'
      BY <2>1, <2>2, <2>4, Full
    <3> QED BY <1>1, <1>2, <2>1, <2>2, <3>1 DEF ReadInv
  <2>5. CASE Len(frame) < MAX_CMDS
    <3>1. str <= len => IsLast(buf[str])
      <4> SUFFICES ASSUME str <= len PROVE IsLast(buf[str])
        OBVIOUS
      <4>1. Char(buf, str) = Nul
        BY <2>1, <2>5 DEF More
      <4> QED BY <2>1, <2>3, <4>1, CharIn DEF IsLast
    <3>2. TextEnd = str
      BY <2>1, <2>3, <3>1, EndIs DEF Progress
    <3>3. NothingSkipped'
      BY <2>1, <2>2, <3>2, Complete
    <3> QED BY <1>1, <1>2, <2>1, <2>2, <3>3 DEF ReadInv
  <2> QED BY <2>3, <2>4, <2>5, GcodeAssumption
<1>5. CASE UNCHANGED vars
  <2>1. UNCHANGED <<buf, len, str, frame, rc>>
    BY <1>5 DEF vars
  <2>2. \A n : LetterPlaces(n)' = LetterPlaces(n)
    BY <2>1 DEF LetterPlaces
  <2>3. TextEnd' = TextEnd
    BY <2>1 DEF TextEnd
  <2> QED BY <1>1, <2>1, <2>2, <2>3 DEF ReadInv, Progress, NothingSkipped
<1> QED BY <1>3, <1>4, <1>5 DEF Next

\* Every letter of an accepted command is in the frame, in order, as many as the
\* frame has places for: parse_cmdline skips nothing but spaces, and drops only
\* what does not fit.
THEOREM EveryLetterRead == Spec => []NothingSkipped
<1>1. ReadInv => NothingSkipped
  BY DEF ReadInv
<1> QED BY <1>1, ReadInit, ReadStep, PTL DEF Spec

-----------------------------------------------------------------------------
(* Division, and functions given by a step                                  *)

\* The quotient by its bounds.
LEMMA DivIs ==
    ASSUME NEW a \in Nat, NEW b \in Nat \ {0}, NEW q \in Nat, b * q <= a, a < b * q + b
    PROVE  a \div b = q
<1>1. /\ a % b \in 0 .. b - 1 /\ a \div b \in Int
      /\ a = b * (a \div b) + (a % b)
  OBVIOUS
<1> DEFINE p == a \div b
<1>2. p \in Int /\ b * p <= a /\ a < b * p + b
  BY <1>1
<1> HIDE DEF p
<1>3. ~(p < q)
  <2> SUFFICES ASSUME p + 1 <= q PROVE FALSE
    BY <1>2
  <2>1. b * (p + 1) <= b * q
    BY <1>2
  <2> QED BY <1>2, <2>1
<1>4. ~(q < p)
  <2> SUFFICES ASSUME q + 1 <= p PROVE FALSE
    BY <1>2
  <2>1. b * (q + 1) <= b * p
    BY <1>2
  <2> QED BY <1>2, <2>1
<1> QED BY <1>2, <1>3, <1>4 DEF p

\* The quotient does not see what is below the divisor.
LEMMA DivOfShifted ==
    ASSUME NEW x \in Nat, NEW r \in Nat, NEW t \in Nat \ {0}, NEW s \in Nat \ {0}, r < t
    PROVE  (x * t + r) \div (s * t) = x \div s
<1> DEFINE q == x \div s
           m == x % s
<1>1. m \in 0 .. s - 1 /\ q \in Int /\ x = s * q + m
  OBVIOUS
<1>2. q \in Nat
  BY <1>1
<1> HIDE DEF q, m
<1>3. s * t \in Nat \ {0} /\ x * t + r \in Nat
  OBVIOUS
<1>4. x * t = (s * t) * q + m * t
  BY <1>1, <1>2
<1>5. m * t >= 0 /\ m * t \in Int
  BY <1>1
<1>6. m * t + t <= s * t
  <2>1. m + 1 <= s
    BY <1>1
  <2>2. (m + 1) * t <= s * t
    BY <1>1, <2>1
  <2> QED BY <1>1, <2>2
<1>7. (s * t) * q <= x * t + r /\ x * t + r < (s * t) * q + s * t
  BY <1>2, <1>3, <1>4, <1>5, <1>6
<1>8. (x * t + r) \div (s * t) = q
  BY <1>2, <1>3, <1>7, DivIs
<1> QED BY <1>8 DEF q

\* A set with the start of an interval and with the place behind each of its own
\* places has the whole interval.
LEMMA Onward ==
    ASSUME NEW m \in Nat, NEW n \in Nat, m <= n, NEW S, m \in S,
           \A i \in m .. n : i > m /\ i - 1 \in S => i \in S
    PROVE  m .. n \subseteq S
<1> DEFINE Bad == {i \in m .. n : i \notin S}
           l == Min(Bad)
<1> SUFFICES ASSUME Bad # {} PROVE FALSE
  OBVIOUS
<1>1. Bad \in SUBSET Nat
  OBVIOUS
<1>2. l \in Bad /\ \A y \in Bad : l <= y
  BY <1>1, MinIsLeast
<1> HIDE DEF l
<1>3. l \in m .. n /\ l \notin S /\ l > m
  BY <1>2
<1>4. l - 1 \in m .. n /\ ~(l <= l - 1)
  BY <1>3
<1>5. l - 1 \in S
  BY <1>2, <1>4
<1> QED BY <1>3, <1>5

\* f starts with a, and the step G leads from each of its values to the next.
Steps(f, a, G, m, n) == f[m] = a /\ \A i \in m .. n : i > m => f[i] = G[<<i, f[i - 1]>>]

\* There is such a function over every interval.
LEMMA Recursion ==
    ASSUME NEW a \in Nat, NEW G \in [Nat \X Nat -> Nat], NEW m \in Nat, NEW n \in Nat, m <= n
    PROVE  \E f \in [m .. n -> Nat] : Steps(f, a, G, m, n)
<1> DEFINE Has(l) == \E f \in [m .. l -> Nat] : Steps(f, a, G, m, l)
           S == {l \in m .. n : Has(l)}
<1>1. Has(m)
  <2> DEFINE f == [i \in m .. m |-> a]
  <2>1. f \in [m .. m -> Nat] /\ f[m] = a /\ \A i \in m .. m : ~(i > m)
    OBVIOUS
  <2> QED BY <2>1 DEF Steps
<1>2. ASSUME NEW l \in Nat, m <= l, Has(l) PROVE Has(l + 1)
  <2>1. PICK f \in [m .. l -> Nat] : Steps(f, a, G, m, l)
    BY <1>2
  <2> DEFINE next == G[<<l + 1, f[l]>>]
             g == [i \in m .. l + 1 |-> IF i <= l THEN f[i] ELSE next]
  <2>2. l \in m .. l /\ f[l] \in Nat /\ next \in Nat
    BY <1>2, <2>1
  <2>3. g \in [m .. l + 1 -> Nat]
    BY <2>1, <2>2
  <2>4. g[m] = a
    BY <1>2, <2>1 DEF Steps
  <2>5. ASSUME NEW i \in m .. l + 1, i > m PROVE g[i] = G[<<i, g[i - 1]>>]
    <3>1. i - 1 \in m .. l /\ i - 1 \in m .. l + 1 /\ i - 1 <= l
      BY <1>2, <2>5
    <3>2. g[i - 1] = f[i - 1]
      BY <3>1
    <3>3. CASE i <= l
      <4>1. i \in m .. l /\ g[i] = f[i]
        BY <3>1, <3>3
      <4> QED BY <2>1, <2>5, <3>2, <4>1 DEF Steps
    <3>4. CASE i = l + 1
      <4>1. g[i] = next /\ i - 1 = l
        BY <3>1, <3>4
      <4> QED BY <3>2, <3>4, <4>1
    <3> QED BY <1>2, <3>3, <3>4
  <2> HIDE DEF g
  <2> QED BY <2>3, <2>4, <2>5 DEF Steps
<1>3. m \in S /\ \A l \in m .. n : l > m /\ l - 1 \in S => l \in S
  <2> HIDE DEF Has
  <2>1. ASSUME NEW l \in m .. n, l > m, Has(l - 1) PROVE Has(l)
    <3>1. l - 1 \in Nat /\ m <= l - 1 /\ (l - 1) + 1 = l
      BY <2>1
    <3> QED BY <1>2, <2>1, <3>1
  <2> QED BY <1>1, <2>1
<1> HIDE DEF S
<1>4. m .. n \subseteq S
  BY <1>3, Onward
<1> QED BY <1>4 DEF S

-----------------------------------------------------------------------------
(* The digits of a number                                                   *)

\* The powers of ten.
LEMMA TenIs ==
    /\ Ten[0] = 1
    /\ \A n \in 0 .. BufferLen : Ten[n] \in Nat \ {0}
    /\ \A n \in 1 .. BufferLen : Ten[n] = 10 * Ten[n - 1]
<1> DEFINE Is(f) == f = [n \in 0 .. BufferLen |-> IF n = 0 THEN 1 ELSE 10 * f[n - 1]]
           G == [p \in Nat \X Nat |-> 10 * p[2]]
<1>1. BufferLen \in Nat
  BY GcodeAssumption
<1>2. G \in [Nat \X Nat -> Nat] /\ \A i, x \in Nat : G[<<i, x>>] = 10 * x
  OBVIOUS
<1> HIDE DEF G
<1>3. PICK f \in [0 .. BufferLen -> Nat] : Steps(f, 1, G, 0, BufferLen)
  <2>1. \A a, m, n \in Nat : m <= n => \E f \in [m .. n -> Nat] : Steps(f, a, G, m, n)
    BY <1>2, Recursion
  <2>2. 0 \in Nat /\ 1 \in Nat /\ 0 <= BufferLen
    BY <1>1
  <2> QED BY <1>1, <2>1, <2>2, Zenon
<1>4. \A i \in 1 .. BufferLen : f[i] = 10 * f[i - 1]
  <2> TAKE i \in 1 .. BufferLen
  <2>1. i \in Nat /\ i > 0 /\ i - 1 \in 0 .. BufferLen /\ i \in 0 .. BufferLen
    BY <1>1
  <2>2. f[i - 1] \in Nat
    BY <2>1
  <2> QED BY <1>2, <1>3, <2>1, <2>2 DEF Steps
<1>5. \A i \in 0 .. BufferLen : f[i] = IF i = 0 THEN 1 ELSE 10 * f[i - 1]
  BY <1>1, <1>3, <1>4 DEF Steps
<1>6. Is(f)
  BY <1>5
<1>7. Is(Ten)
  <2>1. Ten = CHOOSE g : Is(g)
    BY DEF Ten
  <2> HIDE DEF Is
  <2> QED BY <1>6, <2>1
<1>8. Ten[0] = 1 /\ \A n \in 1 .. BufferLen : Ten[n] = 10 * Ten[n - 1]
  <2> HIDE DEF Ten
  <2>1. \A n \in 0 .. BufferLen : Ten[n] = IF n = 0 THEN 1 ELSE 10 * Ten[n - 1]
    BY <1>7
  <2> QED BY <1>1, <2>1
<1> HIDE DEF Ten
<1> DEFINE S == {n \in 0 .. BufferLen : Ten[n] \in Nat \ {0}}
<1>9. 0 \in S /\ \A n \in 0 .. BufferLen : n > 0 /\ n - 1 \in S => n \in S
  BY <1>1, <1>8
<1>10. 0 .. BufferLen \subseteq S
  <2> HIDE DEF S
  <2>1. 0 \in Nat /\ 0 <= BufferLen
    BY <1>1
  <2> QED BY <1>1, <1>9, <2>1, Onward
<1> QED BY <1>8, <1>10

\* They multiply.
LEMMA TenTimes ==
    ASSUME NEW a \in 0 .. BufferLen, NEW b \in 0 .. BufferLen - a
    PROVE  Ten[a + b] = Ten[a] * Ten[b]
<1> DEFINE B == BufferLen - a
           S == {n \in 0 .. B : Ten[a + n] = Ten[a] * Ten[n]}
<1>1. BufferLen \in Nat /\ a \in Nat /\ B \in Nat
  BY GcodeAssumption
<1>2. 0 \in S
  <2>1. a + 0 = a /\ Ten[a] \in Nat
    BY <1>1, TenIs
  <2> QED BY <1>1, <2>1, TenIs
<1>3. ASSUME NEW n \in 0 .. B, n > 0, n - 1 \in S PROVE n \in S
  <2>1. a + n \in 1 .. BufferLen /\ n \in 1 .. BufferLen /\ n - 1 \in 0 .. BufferLen
        /\ (a + n) - 1 = a + (n - 1)
    BY <1>1, <1>3
  <2>2. Ten[a + n] = 10 * Ten[a + (n - 1)]
    BY <2>1, TenIs
  <2>3. Ten[n] = 10 * Ten[n - 1]
    BY <2>1, TenIs
  <2>4. Ten[a + (n - 1)] = Ten[a] * Ten[n - 1]
    BY <1>3
  <2>5. Ten[a] \in Nat /\ Ten[n - 1] \in Nat
    BY <2>1, TenIs
  <2>6. \A x, y \in Nat : 10 * (x * y) = x * (10 * y)
    OBVIOUS
  <2> QED BY <2>2, <2>3, <2>4, <2>5, <2>6
<1> HIDE DEF S
<1>4. 0 .. B \subseteq S
  <2>1. 0 \in Nat /\ 0 <= B
    BY <1>1
  <2> HIDE DEF B
  <2> QED BY <1>1, <1>2, <1>3, <2>1, Onward
<1> QED BY <1>4 DEF S

\* The loop over digits leaves a number with these digits and no others.
LEMMA ValueDigits ==
    ASSUME NEW k \in Nat \ {0}, NEW j \in Nat, k <= j, j - k <= BufferLen,
           NEW d \in [k .. j - 1 -> 0 .. 9]
    PROVE  /\ Value(d, k, j) \in 0 .. Ten[j - k] - 1
           /\ \A h \in k .. j - 1 : (Value(d, k, j) \div Ten[j - 1 - h]) % 10 = d[h]
<1> DEFINE Is(f) == f = [i \in k - 1 .. j - 1 |-> IF i < k THEN 0 ELSE f[i - 1] * 10 + d[i]]
           G == [p \in Nat \X Nat |-> p[2] * 10 + (IF p[1] \in k .. j - 1 THEN d[p[1]] ELSE 0)]
           v == CHOOSE f : Is(f)
<1>1. BufferLen \in Nat /\ k - 1 \in Nat /\ j - 1 \in Nat /\ k - 1 <= j - 1
  BY GcodeAssumption
<1>2. Value(d, k, j) = v[j - 1]
  BY DEF Value
<1>3. \E f : Is(f)
  <2>1. G \in [Nat \X Nat -> Nat]
    OBVIOUS
  <2>2. \A i \in k .. j - 1, x \in Nat : G[<<i, x>>] = x * 10 + d[i]
    BY <1>1
  <2> HIDE DEF G
  <2>3. PICK f \in [k - 1 .. j - 1 -> Nat] : Steps(f, 0, G, k - 1, j - 1)
    <3>1. \A a, m, n \in Nat : m <= n => \E f \in [m .. n -> Nat] : Steps(f, a, G, m, n)
      BY <2>1, Recursion
    <3>2. 0 \in Nat
      OBVIOUS
    <3> QED BY <1>1, <3>1, <3>2, Zenon
  <2>4. ASSUME NEW i \in k - 1 .. j - 1
        PROVE  f[i] = IF i < k THEN 0 ELSE f[i - 1] * 10 + d[i]
    <3>1. CASE i < k
      <4>1. i = k - 1
        BY <1>1, <3>1
      <4> QED BY <2>3, <3>1, <4>1 DEF Steps
    <3>2. CASE i >= k
      <4>1. i \in k .. j - 1 /\ i > k - 1 /\ i - 1 \in k - 1 .. j - 1
        BY <1>1, <3>2
      <4>2. f[i - 1] \in Nat
        BY <4>1
      <4>3. f[i] = G[<<i, f[i - 1]>>]
        BY <2>3, <4>1 DEF Steps
      <4> QED BY <2>2, <4>1, <4>2, <4>3
    <3> QED BY <1>1, <3>1, <3>2
  <2>5. Is(f)
    BY <2>4
  <2> QED BY <2>5
<1>4. Is(v)
  <2> HIDE DEF Is
  <2> QED BY <1>3
<1> HIDE DEF v
<1>5. v[k - 1] = 0 /\ \A i \in k .. j - 1 : v[i] = v[i - 1] * 10 + d[i]
  <2>1. \A i \in k - 1 .. j - 1 : v[i] = IF i < k THEN 0 ELSE v[i - 1] * 10 + d[i]
    BY <1>4
  <2>2. k - 1 \in k - 1 .. j - 1 /\ k - 1 < k
    BY <1>1
  <2>3. \A i \in k .. j - 1 : i \in k - 1 .. j - 1 /\ ~(i < k)
    BY <1>1
  <2> QED BY <2>1, <2>2, <2>3
<1> HIDE DEF Is
<1> DEFINE Low(i) == v[i] \in 0 .. Ten[i + 1 - k] - 1
           Read(i) == \A h \in k .. i : (v[i] \div Ten[i - h]) % 10 = d[h]
           S == {i \in k - 1 .. j - 1 : Low(i) /\ Read(i)}
<1>6. k - 1 \in S
  <2>1. Low(k - 1)
    BY <1>1, <1>5, TenIs
  <2>2. Read(k - 1)
    OBVIOUS
  <2> QED BY <1>1, <2>1, <2>2
<1>7. ASSUME NEW i \in k - 1 .. j - 1, i > k - 1, i - 1 \in S PROVE i \in S
  <2> DEFINE x == v[i - 1]
             t == Ten[i - k]
  <2>1. i \in k .. j - 1 /\ i \in Nat /\ i - k \in 0 .. BufferLen /\ i + 1 - k \in 1 .. BufferLen
        /\ (i + 1 - k) - 1 = i - k /\ (i - 1) + 1 - k = i - k
    BY <1>1, <1>7
  <2>2. t \in Nat \ {0} /\ Ten[i + 1 - k] = 10 * t
    BY <2>1, TenIs
  <2>3. x \in 0 .. t - 1
    BY <1>7, <2>1
  <2>4. v[i] = x * 10 + d[i] /\ d[i] \in 0 .. 9
    BY <1>5, <2>1
  <2>5. ASSUME NEW h \in k .. i PROVE (v[i] \div Ten[i - h]) % 10 = d[h]
    <3> HIDE DEF t
    <3>1. x \in Nat
      BY <2>2, <2>3
    <3>2. CASE h = i
      <4>1. i - h = 0 /\ Ten[0] = 1
        BY <2>1, <3>2, TenIs
      <4> HIDE DEF x
      <4>2. \A y \in Nat, e \in 0 .. 9 : ((y * 10 + e) \div 1) % 10 = e
        OBVIOUS
      <4> QED BY <2>4, <3>1, <3>2, <4>1, <4>2
    <3>3. CASE h < i
      <4> DEFINE u == Ten[i - 1 - h]
      <4>1. h \in k .. i - 1 /\ i - h \in 1 .. BufferLen /\ (i - h) - 1 = i - 1 - h
            /\ i - 1 - h \in 0 .. BufferLen
        BY <1>1, <2>1, <3>3
      <4>2. u \in Nat \ {0} /\ Ten[i - h] = 10 * u
        BY <4>1, TenIs
      <4>3. (x \div u) % 10 = d[h]
        BY <1>7, <4>1
      <4> HIDE DEF x, u
      <4>4. Ten[i - h] = u * 10
        BY <4>2
      <4>5. \A y \in Nat, e \in 0 .. 9, s \in Nat \ {0} : (y * 10 + e) \div (s * 10) = y \div s
        <5> TAKE y \in Nat, e \in 0 .. 9, s \in Nat \ {0}
        <5>1. e \in Nat /\ 10 \in Nat \ {0} /\ e < 10
          OBVIOUS
        <5> QED BY <5>1, DivOfShifted
      <4> QED BY <2>4, <3>1, <4>2, <4>3, <4>4, <4>5
    <3> QED BY <2>1, <3>2, <3>3
  <2>6. v[i] \in 0 .. 10 * t - 1
    <3>1. \A a \in Nat, b \in Nat, c \in 0 .. 9 : b < a => b * 10 + c \in 0 .. 10 * a - 1
      OBVIOUS
    <3> HIDE DEF x, t
    <3>2. t \in Nat /\ x \in Nat /\ x < t
      BY <2>2, <2>3
    <3> QED BY <2>4, <3>1, <3>2
  <2> QED BY <2>2, <2>5, <2>6
<1> HIDE DEF S
<1>8. k - 1 .. j - 1 \subseteq S
  <2> DEFINE m == k - 1
             n == j - 1
  <2>1. m \in Nat /\ n \in Nat /\ m <= n /\ m \in S
        /\ \A i \in m .. n : i > m /\ i - 1 \in S => i \in S
    BY <1>1, <1>6, <1>7
  <2> HIDE DEF m, n
  <2>2. m .. n \subseteq S
    BY <2>1, Onward
  <2> QED BY <2>2 DEF m, n
<1>9. j - 1 \in k - 1 .. j - 1
  BY <1>1
<1>10. Low(j - 1) /\ Read(j - 1)
  BY <1>8, <1>9 DEF S
<1>11. (j - 1) + 1 - k = j - k
  BY <1>1
<1> QED BY <1>2, <1>10, <1>11

\* The digits of a text have values.
LEMMA DigitValues == \A c \in Digits : DigitValue[c] \in 0 .. 9
BY DEF Digits, DigitValue

\* The digits of a run of digits are its value.
LEMMA DecimalDigits ==
    ASSUME Placed, NEW k \in Nat \ {0}, NEW j \in Nat, k <= j, j <= len + 1,
           \A i \in k .. j - 1 : IsDigit(buf[i])
    PROVE  /\ Decimal(buf, k, j) \in 0 .. Ten[j - k] - 1
           /\ \A h \in k .. j - 1 : (Decimal(buf, k, j) \div Ten[j - 1 - h]) % 10 = DigitValue[buf[h]]
<1> DEFINE d == [i \in k .. j - 1 |-> DigitValue[buf[i]]]
<1>1. d \in [k .. j - 1 -> 0 .. 9]
  BY DigitValues DEF IsDigit
<1>2. j - k <= BufferLen
  BY GcodeAssumption DEF Placed
<1>3. Decimal(buf, k, j) = Value(d, k, j)
  BY DEF Decimal
<1>4. \A h \in k .. j - 1 : d[h] = DigitValue[buf[h]]
  OBVIOUS
<1> HIDE DEF d
<1>5. /\ Value(d, k, j) \in 0 .. Ten[j - k] - 1
      /\ \A h \in k .. j - 1 : (Value(d, k, j) \div Ten[j - 1 - h]) % 10 = d[h]
  BY <1>1, <1>2, ValueDigits
<1> QED BY <1>3, <1>4, <1>5

\* The places from m to before n.
LEMMA RunLength ==
    ASSUME NEW m \in Nat, NEW n \in Nat, m <= n
    PROVE  IsFiniteSet(m .. n - 1) /\ Cardinality(m .. n - 1) = n - m
<1>1. /\ IsFiniteSet(m .. n - 1)
      /\ Cardinality(m .. n - 1) = IF m > n - 1 THEN 0 ELSE (n - 1) - m + 1
  <2>1. m \in Int /\ n - 1 \in Int
    OBVIOUS
  <2> QED BY <2>1, FS_Interval
<1> QED BY <1>1

\* What read_int returns is the number behind the letter at k.
LEMMA IntNumber ==
    ASSUME Placed, NEW k \in Nat \ {0}, k <= len, read_int(buf, k + 1).rc = "OK"
    PROVE  IsNumber(read_int(buf, k + 1), k, read_int(buf, k + 1).next)
<1> DEFINE e == read_int(buf, k + 1)
           minus == Char(buf, k + 1) = "-"
           first == IF minus THEN k + 2 ELSE k + 1
           n == SkipDigits(buf, first)
           value == Decimal(buf, first, n)
<1>1. len \in Nat /\ k + 1 \in Nat \ {0}
  BY GcodeAssumption DEF Placed
<1>2. (k + 1) + 1 = k + 2
  OBVIOUS
<1>3. ~(k + 1 > len \/ ~(minus \/ IsDigit(Char(buf, k + 1))) \/ first > len)
  BY <1>2 DEF read_int, Failed
<1>4. e.next = n /\ e.scale = 0 /\ e.num = IF minus THEN -value ELSE value
  BY <1>2, <1>3 DEF read_int
<1>5. Char(buf, k + 1) = buf[k + 1]
  BY <1>1, <1>3, CharIn
<1>6. first \in Nat \ {0} /\ first <= len + 1
  BY <1>1, <1>3
<1>7. Reads(first, n) /\ \A i \in first .. n - 1 : IsDigit(buf[i])
  <2> HIDE DEF first
  <2>1. Reads(first, n)
    BY <1>6, DigitsRead
  <2>2. ASSUME NEW i \in first .. n - 1 PROVE IsDigit(buf[i])
    <3>1. i \in Nat \ {0} /\ i <= len /\ IsDigit(Char(buf, i))
      BY <1>6, DigitsInside
    <3> QED BY <3>1, CharIn
  <2> QED BY <2>1, <2>2
<1> HIDE DEF n
<1>8. n \in first .. len + 1 /\ n \in Nat
  BY <1>1, <1>6, <1>7 DEF Reads
<1>9. /\ value \in 0 .. Ten[n - first] - 1
      /\ \A i \in first .. n - 1 : (value \div Ten[n - 1 - i]) % 10 = DigitValue[buf[i]]
  <2> HIDE DEF first
  <2> QED BY <1>6, <1>7, <1>8, DecimalDigits
<1> HIDE DEF value, e
<1> DEFINE places == k + 1 .. n - 1
           behind(i) == Cardinality({j \in places : i < j /\ IsDigit(buf[j])})
           marks == {i \in places : ~IsDigit(buf[i])}
           amount == IF \E i \in marks : buf[i] = "-" THEN -e.num ELSE e.num
<1>10. ~IsDigit("-") /\ "-" # "." /\ ~IsDigit(".")
  BY DEF IsDigit, Digits
<1>11. /\ marks = IF minus THEN {k + 1} ELSE {}
       /\ \A i \in places : i \notin marks <=> i \in first .. n - 1
  <2>1. CASE minus
    <3>1. \A i \in places : i = k + 1 \/ i \in first .. n - 1
      BY <1>1, <1>8, <2>1
    <3>2. ~IsDigit(buf[k + 1]) /\ k + 1 \in places /\ k + 1 \notin first .. n - 1
      BY <1>1, <1>5, <1>8, <1>10, <2>1
    <3> QED BY <1>7, <2>1, <3>1, <3>2
  <2>2. CASE ~minus
    BY <1>7, <2>2
  <2> QED BY <2>1, <2>2
<1>12. amount = value
  <2>1. value \in Int
    BY <1>6, <1>8, <1>9, TenIs, GcodeAssumption DEF Placed
  <2>2. CASE minus
    BY <1>4, <1>5, <1>11, <2>1, <2>2
  <2>3. CASE ~minus
    BY <1>4, <1>11, <2>3
  <2> QED BY <2>2, <2>3
<1>13. behind(k) = n - first
  <2>1. {j \in places : k < j /\ IsDigit(buf[j])} = first .. n - 1
    BY <1>1, <1>7, <1>8, <1>11
  <2>2. first \in Nat /\ first <= n
    BY <1>6, <1>8
  <2> HIDE DEF first, places
  <2>3. Cardinality(first .. n - 1) = n - first
    BY <1>8, <2>2, RunLength
  <2> QED BY <2>1, <2>3
<1>14. ASSUME NEW i \in first .. n - 1 PROVE behind(i) = n - 1 - i
  <2>1. {j \in places : i < j /\ IsDigit(buf[j])} = i + 1 .. n - 1
    BY <1>1, <1>6, <1>7, <1>8
  <2>2. i + 1 \in Nat /\ i + 1 <= n /\ n - (i + 1) = n - 1 - i
    BY <1>6, <1>8
  <2> QED BY <1>8, <2>1, <2>2, RunLength
<1> HIDE DEF first
<1>15. \A i \in marks : marks = {i} /\ (buf[i] = "-" => i = k + 1) /\ buf[i] # "."
  BY <1>5, <1>10, <1>11
<1>16. \A i \in places \ marks : (amount \div Ten[behind(i)]) % 10 = DigitValue[buf[i]]
  BY <1>9, <1>11, <1>12, <1>14
<1> HIDE DEF marks, amount, behind
<1>17. amount \in 0 .. Ten[behind(k)] - 1
  BY <1>9, <1>12, <1>13
<1>18. IsNumber(e, k, n)
  BY <1>4, <1>15, <1>16, <1>17 DEF IsNumber, places, marks, amount, behind
<1> QED BY <1>4, <1>18 DEF e

\* Two runs of digits, one behind the other, are one number with their digits.
LEMMA TwoRuns ==
    ASSUME NEW p \in 0 .. BufferLen, NEW s \in 0 .. BufferLen - p,
           NEW x \in 0 .. Ten[p] - 1, NEW y \in 0 .. Ten[s] - 1
    PROVE  /\ x * Ten[s] + y \in 0 .. Ten[p + s] - 1
           /\ \A i \in 0 .. p - 1 : (x * Ten[s] + y) \div Ten[i + s] = x \div Ten[i]
           /\ \A i \in 0 .. s - 1 :
                  ((x * Ten[s] + y) \div Ten[i]) % 10 = (y \div Ten[i]) % 10
<1> DEFINE t == Ten[s]
<1>1. BufferLen \in Nat /\ p \in Nat /\ s \in Nat /\ s \in 0 .. BufferLen
  BY GcodeAssumption
<1>2. t \in Nat \ {0} /\ Ten[p] \in Nat \ {0} /\ Ten[p + s] = Ten[p] * t
  BY <1>1, TenIs, TenTimes
<1>3. x \in Nat /\ y \in Nat /\ y < t
  BY <1>2
<1>4. x * t + y \in 0 .. Ten[p + s] - 1
  <2> HIDE DEF t
  <2> DEFINE q == Ten[p]
  <2>1. q \in Nat \ {0} /\ x + 1 <= q
    BY <1>2, <1>3
  <2> HIDE DEF q
  <2>2. (x + 1) * t <= q * t /\ (x + 1) * t = x * t + t
    BY <1>2, <1>3, <2>1
  <2>3. x * t \in Nat /\ q * t \in Nat
    BY <1>2, <1>3, <2>1
  <2>4. x * t + y \in 0 .. q * t - 1
    BY <1>2, <1>3, <2>2, <2>3
  <2> QED BY <1>2, <2>4 DEF q
<1>5. ASSUME NEW i \in 0 .. p - 1 PROVE (x * t + y) \div Ten[i + s] = x \div Ten[i]
  <2> DEFINE u == Ten[i]
  <2>1. i \in 0 .. BufferLen /\ s \in 0 .. BufferLen - i
    BY <1>1
  <2>2. u \in Nat \ {0} /\ Ten[i + s] = u * t
    BY <2>1, TenIs, TenTimes
  <2> HIDE DEF u, t
  <2>3. (x * t + y) \div (u * t) = x \div u
    <3>1. \A a, r \in Nat, b, c \in Nat \ {0} : r < b => (a * b + r) \div (c * b) = a \div c
      BY DivOfShifted
    <3>2. x \in Nat /\ y \in Nat /\ t \in Nat \ {0} /\ u \in Nat \ {0} /\ y < t
      BY <1>2, <1>3, <2>2
    <3> QED BY <3>1, <3>2
  <2> QED BY <2>2, <2>3 DEF u
<1>6. ASSUME NEW i \in 0 .. s - 1 PROVE ((x * t + y) \div Ten[i]) % 10 = (y \div Ten[i]) % 10
  <2> DEFINE u == Ten[i]
             w == Ten[s - 1 - i]
             r == y % u
             z == y \div u
  <2>1. /\ i \in 0 .. BufferLen /\ s - 1 - i \in 0 .. BufferLen - i /\ i + (s - 1 - i) = s - 1
        /\ s \in 1 .. BufferLen /\ s - 1 - i \in 0 .. BufferLen
    BY <1>1
  <2>2. u \in Nat \ {0} /\ w \in Nat \ {0} /\ Ten[s - 1] = u * w /\ t = 10 * Ten[s - 1]
    <3>1. Ten[i + (s - 1 - i)] = Ten[i] * Ten[s - 1 - i]
      BY <2>1, TenTimes
    <3> QED BY <2>1, <3>1, TenIs
  <2> HIDE DEF u, w, t
  <2>3. r \in 0 .. u - 1 /\ z \in Int /\ y = u * z + r
    BY <1>3, <2>2
  <2>4. z \in Nat
    <3>1. y \div u >= 0
      BY <1>3, <2>2
    <3> QED BY <2>3, <3>1
  <2> HIDE DEF r, z
  <2> DEFINE g == x * w
             a == 10 * g + z
  <2>5. g \in Nat
    BY <1>3, <2>2
  <2>6. x * t = u * (10 * g)
    <3>1. \A b, c, e \in Nat : b * (10 * (c * e)) = c * (10 * (b * e))
      OBVIOUS
    <3> QED BY <1>3, <2>2, <3>1
  <2> HIDE DEF g
  <2>7. a \in Nat
    BY <2>4, <2>5
  <2>8. u * (10 * g) + u * z = u * a
    BY <2>2, <2>4, <2>5
  <2> HIDE DEF a
  <2>9. u * a \in Nat /\ x * t \in Nat
    BY <1>2, <1>3, <2>2, <2>7
  <2>10. x * t + y = u * a + r
    BY <1>3, <2>2, <2>3, <2>4, <2>6, <2>8, <2>9
  <2>11. (x * t + y) \div u = a
    <3>1. x * t + y \in Nat /\ u * a <= x * t + y /\ x * t + y < u * a + u
      BY <1>3, <2>2, <2>3, <2>9, <2>10
    <3> QED BY <2>2, <2>7, <3>1, DivIs
  <2>12. a % 10 = z % 10
    BY <2>4, <2>5 DEF a
  <2> QED BY <2>11, <2>12 DEF u, z
<1> QED BY <1>4, <1>5, <1>6

\* What read_double returns is the number behind the letter at k.
LEMMA DoubleNumber ==
    ASSUME Placed, NEW k \in Nat \ {0}, k <= len, is_float(buf, k + 1)
    PROVE  IsNumber(read_double(buf, k + 1), k, read_double(buf, k + 1).next)
<1> DEFINE e == read_double(buf, k + 1)
           first == k + 1
           point == SkipDigits(buf, first)
           n == SkipDigits(buf, point + 1)
           x == Decimal(buf, first, point)
           y == Decimal(buf, point + 1, n)
           p == point - first
           s == n - (point + 1)
<1>1. len \in Nat /\ first \in Nat \ {0} /\ first <= len + 1
  BY GcodeAssumption DEF Placed
<1>2. e.next = n /\ e.scale = s /\ e.num = x * Ten[s] + y
  BY DEF read_double
<1>3. point <= len /\ buf[point] = "."
  BY DEF is_float
<1> HIDE DEF first
<1>4. \A m \in Nat \ {0} : m <= len + 1 =>
          /\ SkipDigits(buf, m) \in m .. len + 1
          /\ \A i \in m .. SkipDigits(buf, m) - 1 : IsDigit(buf[i])
  <2> TAKE m \in Nat \ {0}
  <2> HAVE m <= len + 1
  <2>1. SkipDigits(buf, m) \in m .. len + 1
    BY DigitsInside
  <2>2. ASSUME NEW i \in m .. SkipDigits(buf, m) - 1 PROVE IsDigit(buf[i])
    <3>1. i \in Nat \ {0} /\ i <= len /\ IsDigit(Char(buf, i))
      BY DigitsInside
    <3> QED BY <3>1, CharIn
  <2> QED BY <2>1, <2>2
<1>5. point \in first .. len + 1 /\ \A i \in first .. point - 1 : IsDigit(buf[i])
  BY <1>1, <1>4
<1> HIDE DEF point
<1>6. /\ point \in first .. len /\ point \in Nat \ {0}
      /\ point + 1 \in Nat \ {0} /\ point + 1 <= len + 1
  BY <1>1, <1>3, <1>5
<1>7. n \in point + 1 .. len + 1 /\ \A i \in point + 1 .. n - 1 : IsDigit(buf[i])
  BY <1>4, <1>6
<1> HIDE DEF n
<1>8. n \in Nat /\ point <= n - 1
  BY <1>1, <1>6, <1>7
<1>9. /\ x \in 0 .. Ten[p] - 1
      /\ \A i \in first .. point - 1 : (x \div Ten[point - 1 - i]) % 10 = DigitValue[buf[i]]
  BY <1>1, <1>5, <1>6, DecimalDigits
<1>10. /\ y \in 0 .. Ten[s] - 1
       /\ \A i \in point + 1 .. n - 1 : (y \div Ten[n - 1 - i]) % 10 = DigitValue[buf[i]]
  <2> DEFINE m == point + 1
  <2>1. m \in Nat \ {0} /\ m <= n /\ n <= len + 1 /\ \A i \in m .. n - 1 : IsDigit(buf[i])
    BY <1>1, <1>6, <1>7
  <2> HIDE DEF m
  <2>2. /\ Decimal(buf, m, n) \in 0 .. Ten[n - m] - 1
        /\ \A i \in m .. n - 1 : (Decimal(buf, m, n) \div Ten[n - 1 - i]) % 10 = DigitValue[buf[i]]
    BY <1>8, <2>1, DecimalDigits
  <2> QED BY <2>2 DEF m
<1>11. BufferLen \in Nat /\ p \in 0 .. BufferLen /\ s \in 0 .. BufferLen - p
  BY <1>1, <1>6, <1>7, GcodeAssumption DEF Placed
<1> HIDE DEF x, y, e
<1>12. /\ p \in Nat /\ s \in Nat
       /\ Ten[p] \in Nat \ {0} /\ Ten[s] \in Nat \ {0} /\ Ten[p + s] \in Nat \ {0}
  BY <1>11, TenIs
<1>13. /\ x * Ten[s] + y \in 0 .. Ten[p + s] - 1
       /\ \A i \in 0 .. p - 1 : (x * Ten[s] + y) \div Ten[i + s] = x \div Ten[i]
       /\ \A i \in 0 .. s - 1 :
              ((x * Ten[s] + y) \div Ten[i]) % 10 = (y \div Ten[i]) % 10
  <2> HIDE DEF p, s
  <2> QED BY <1>9, <1>10, <1>11, TwoRuns
<1> DEFINE places == k + 1 .. n - 1
           behind(i) == Cardinality({j \in places : i < j /\ IsDigit(buf[j])})
           marks == {i \in places : ~IsDigit(buf[i])}
           amount == IF \E i \in marks : buf[i] = "-" THEN -e.num ELSE e.num
<1>14. ~IsDigit(".") /\ "-" # "."
  BY DEF IsDigit, Digits
<1>15. first = k + 1 /\ places = first .. n - 1
  BY DEF first
<1>16. /\ \A i \in places : i \in first .. point - 1 \/ i = point \/ i \in point + 1 .. n - 1
       /\ point \in places
  BY <1>6, <1>8, <1>15
<1>17. marks = {point}
  BY <1>3, <1>5, <1>7, <1>14, <1>16
<1>18. amount = e.num
  BY <1>3, <1>14, <1>17
<1>19. ASSUME NEW i \in k .. point - 1 PROVE behind(i) = n - 2 - i
  <2>1. {j \in places : i < j /\ IsDigit(buf[j])} = (i + 1 .. n - 1) \ {point}
    <3>1. \A j \in i + 1 .. n - 1 : j \in places
      BY <1>6, <1>8
    <3>2. \A j \in places : i < j <=> j \in i + 1 .. n - 1
      BY <1>6, <1>8
    <3>3. \A j \in places : IsDigit(buf[j]) <=> j # point
      BY <1>17
    <3> HIDE DEF places
    <3> QED BY <3>1, <3>2, <3>3
  <2>2. i + 1 \in Nat /\ i + 1 <= n /\ n - (i + 1) = n - 1 - i /\ point \in i + 1 .. n - 1
    BY <1>6, <1>8
  <2>3. IsFiniteSet(i + 1 .. n - 1) /\ Cardinality(i + 1 .. n - 1) = n - 1 - i
    BY <1>8, <2>2, RunLength
  <2>4. Cardinality((i + 1 .. n - 1) \ {point}) = (n - 1 - i) - 1
    <3> DEFINE run == i + 1 .. n - 1
    <3>1. IsFiniteSet(run) /\ Cardinality(run) = n - 1 - i /\ point \in run
      BY <2>2, <2>3
    <3> HIDE DEF run
    <3>2. Cardinality(run \ {point}) = (n - 1 - i) - 1
      BY <3>1, FS_RemoveElement
    <3> QED BY <3>2 DEF run
  <2>5. (n - 1 - i) - 1 = n - 2 - i
    BY <1>6, <1>8
  <2> QED BY <2>1, <2>4, <2>5
<1>20. ASSUME NEW i \in point .. n - 1 PROVE behind(i) = n - 1 - i
  <2>1. {j \in places : i < j /\ IsDigit(buf[j])} = i + 1 .. n - 1
    <3>1. \A j \in i + 1 .. n - 1 : j \in places /\ j \in point + 1 .. n - 1
      BY <1>6, <1>8, <1>15
    <3>2. \A j \in places : i < j <=> j \in i + 1 .. n - 1
      BY <1>6, <1>8
    <3> HIDE DEF places
    <3> QED BY <1>7, <3>1, <3>2
  <2>2. i + 1 \in Nat /\ i + 1 <= n /\ n - (i + 1) = n - 1 - i
    BY <1>6, <1>8
  <2> QED BY <1>8, <2>1, <2>2, RunLength
<1> HIDE DEF behind
<1>21. behind(k) = p + s /\ behind(point) = s
  <2>1. k \in k .. point - 1 /\ point \in point .. n - 1
    BY <1>6, <1>8, <1>15
  <2>2. n - 2 - k = p + s /\ n - 1 - point = s
    BY <1>6, <1>8, <1>15
  <2> QED BY <1>19, <1>20, <2>1, <2>2
<1>22. ASSUME NEW i \in places \ marks
       PROVE  (amount \div Ten[behind(i)]) % 10 = DigitValue[buf[i]]
  <2>1. CASE i \in first .. point - 1
    <3> DEFINE h == point - 1 - i
    <3>1. i \in k .. point - 1 /\ h \in 0 .. p - 1 /\ n - 2 - i = h + s
      BY <1>6, <1>8, <1>15, <2>1
    <3>2. behind(i) = h + s
      BY <1>19, <3>1
    <3>3. (x * Ten[s] + y) \div Ten[h + s] = x \div Ten[h]
      BY <1>13, <3>1
    <3>4. (x \div Ten[h]) % 10 = DigitValue[buf[i]]
      BY <1>9, <2>1
    <3> QED BY <1>2, <1>18, <3>2, <3>3, <3>4
  <2>2. CASE i \in point + 1 .. n - 1
    <3> DEFINE h == n - 1 - i
    <3>1. i \in point .. n - 1 /\ h \in 0 .. s - 1
      BY <1>6, <1>8, <2>2
    <3>2. behind(i) = h
      BY <1>20, <3>1
    <3>3. ((x * Ten[s] + y) \div Ten[h]) % 10 = (y \div Ten[h]) % 10
      BY <1>13, <3>1
    <3>4. (y \div Ten[h]) % 10 = DigitValue[buf[i]]
      BY <1>10, <2>2
    <3> QED BY <1>2, <1>18, <3>2, <3>3, <3>4
  <2> QED BY <1>16, <1>17, <2>1, <2>2
<1>23. amount \in 0 .. Ten[behind(k)] - 1
  BY <1>2, <1>13, <1>18, <1>21
<1>24. \A i \in marks : marks = {i} /\ buf[i] = "." /\ e.scale = behind(i)
  BY <1>2, <1>3, <1>17, <1>21
<1>25. \E i \in marks : buf[i] = "."
  BY <1>3, <1>17
<1> HIDE DEF marks, amount
<1>26. IsNumber(e, k, n)
  <2>1. \A i \in marks : marks = {i} /\ (buf[i] = "-" => i = k + 1)
    BY <1>14, <1>24
  <2> QED BY <1>22, <1>23, <1>24, <1>25, <2>1 DEF IsNumber, places, marks, amount, behind
<1> QED BY <1>2, <1>26 DEF e

-----------------------------------------------------------------------------
(* Every number is read                                                     *)

\* A letter of an element has its number behind it.
LEMMA ElementNumber ==
    ASSUME Placed, NEW k \in Nat \ {0}, k <= len,
           parse_element(buf, k).rc = "OK", parse_element(buf, k).type # Nul
    PROVE  IsNumber(parse_element(buf, k), SkipSpaces(buf, k), parse_element(buf, k).next)
<1> DEFINE start == SkipSpaces(buf, k)
           c == Char(buf, start)
           number == IF is_float(buf, start + 1) THEN read_double(buf, start + 1)
                                                 ELSE read_int(buf, start + 1)
           e == parse_element(buf, k)
<1>1. ~(IsLast(c) \/ start > len)
  BY DEF parse_element
<1>2. e = Labelled(c, number)
  BY <1>1 DEF parse_element, Failed
<1>3. start \in Nat \ {0} /\ start <= len
  BY <1>1, SameSpaces
<1>4. len \in Nat /\ start + 1 \in Nat \ {0} /\ start + 1 <= len + 1
  BY <1>3, GcodeAssumption DEF Placed
<1>5. e.rc = "OK"
  OBVIOUS
<1> HIDE DEF start, e
<1>6. \/ number = Failed("BADNUM")
      \/ DOMAIN number = {"rc", "kind", "scale", "next", "num"}
  BY <1>4, IntRead, DoubleRead
<1>7. DOMAIN number = {"rc", "kind", "scale", "next", "num"} /\ number.rc = "OK"
  <2> HIDE DEF number
  <2>1. number # Failed("BADNUM")
    BY <1>2, <1>5 DEF Labelled, Failed
  <2> QED BY <1>2, <1>5, <1>6, <2>1 DEF Labelled
<1>8. IsNumber(number, start, number.next)
  BY <1>3, <1>7, IntNumber, DoubleNumber
<1> HIDE DEF number
<1>9. e.num = number.num /\ e.scale = number.scale /\ e.next = number.next
  BY <1>2, <1>7 DEF Labelled
<1>10. IsNumber(e, start, e.next)
  BY <1>8, <1>9 DEF IsNumber
<1> QED BY <1>10 DEF e, start

\* The number ends where the parser has found no more of it.
LEMMA NumberEndIs ==
    ASSUME Placed, NEW k \in Nat \ {0}, NEW n \in k + 1 .. len + 1,
           \A i \in k + 1 .. n - 1 : Numeral(buf[i]), n <= len => ~Numeral(buf[n])
    PROVE  NumberEnd(k) = n
<1> DEFINE S == {j \in k + 1 .. len : ~Numeral(buf[j])} \cup {len + 1}
<1>1. len \in Nat
  BY GcodeAssumption DEF Placed
<1>2. S \in SUBSET Nat /\ n \in S /\ \A y \in S : n <= y
  BY <1>1
<1> HIDE DEF S
<1>3. Min(S) = n
  BY <1>2, MinIs
<1> QED BY <1>3 DEF NumberEnd, S

\* An element does not begin in the middle of a number: what is left of one is no
\* letter.
LEMMA NumberOver ==
    ASSUME Placed, str <= len, parse_element(buf, str).rc = "OK"
    PROVE  ~Numeral(buf[str])
<1> DEFINE start == SkipSpaces(buf, str)
<1>1. len \in Nat /\ str \in Nat \ {0}
  BY GcodeAssumption DEF Placed
<1>2. start \in Nat /\ start >= str
  BY <1>1, SkipsForward
<1>3. CASE start > str
  <2>1. buf[str] = Space
    BY <1>1, <1>3, SpacesRead
  <2>2. ~Numeral(Space)
    BY DEF Numeral, IsDigit, Digits, Space
  <2> QED BY <2>1, <2>2
<1>4. CASE start = str
  <2>1. Char(buf, start) = buf[str]
    BY <1>1, <1>4, CharIn
  <2>2. ~(start > len)
    BY <1>1, <1>4
  <2>3. IsLast(buf[str]) \/ buf[str] \in Letters
    BY <2>1, <2>2 DEF parse_element, Failed
  <2> QED BY <2>3, NoLetters
<1> QED BY <1>1, <1>2, <1>3, <1>4

\* The frame holds the numbers of the letters read so far; that the last of them
\* is over is seen with the next element.
Numbers ==
    \A k \in LetterPlaces(str - 1) :
        IF Cardinality(LetterPlaces(k)) = Len(frame)
        THEN /\ IsNumber(frame[Len(frame)], k, str)
             /\ \A i \in k + 1 .. str - 1 : Numeral(buf[i])
        ELSE IsNumber(frame[Cardinality(LetterPlaces(k))], k, NumberEnd(k))

NumberInv ==
    /\ ReadInv
    /\ rc \in {"run", "OK"} => Numbers
    /\ NumbersRead

\* When it is, all of them are there.
LEMMA NumbersOver ==
    ASSUME Placed, Progress, Numbers, str <= len => ~Numeral(buf[str]),
           NEW k \in LetterPlaces(str - 1)
    PROVE  IsNumber(frame[Cardinality(LetterPlaces(k))], k, NumberEnd(k))
<1>1. CASE Cardinality(LetterPlaces(k)) = Len(frame)
  <2>1. k \in Nat \ {0} /\ str \in k + 1 .. len + 1
    <3>1. len \in Nat /\ str \in 1 .. len + 1
      BY GcodeAssumption DEF Placed
    <3>2. k \in Nat \ {0} /\ k <= str - 1
      BY PlaceInFrame
    <3> QED BY <3>1, <3>2
  <2>2. IsNumber(frame[Len(frame)], k, str) /\ \A i \in k + 1 .. str - 1 : Numeral(buf[i])
    BY <1>1 DEF Numbers
  <2>3. NumberEnd(k) = str
    BY <2>1, <2>2, NumberEndIs
  <2> QED BY <1>1, <2>2, <2>3
<1>2. CASE Cardinality(LetterPlaces(k)) # Len(frame)
  BY <1>2 DEF Numbers
<1> QED BY <1>1, <1>2

\* The number of a letter depends on the text.
LEMMA SameNumber ==
    ASSUME UNCHANGED <<buf, len>>
    PROVE  /\ \A n : LetterPlaces(n)' = LetterPlaces(n)
           /\ \A k : NumberEnd(k)' = NumberEnd(k)
           /\ \A e, k, n : IsNumber(e, k, n)' <=> IsNumber(e, k, n)
<1>1. \A n : LetterPlaces(n)' = LetterPlaces(n)
  BY DEF LetterPlaces
<1>2. \A k : NumberEnd(k)' = NumberEnd(k)
  BY DEF NumberEnd
<1>3. \A e, k, n : IsNumber(e, k, n)' <=> IsNumber(e, k, n)
  BY DEF IsNumber
<1> QED BY <1>1, <1>2, <1>3

\* At the end of the text every letter in the frame has its number, unless the
\* frame is full: then its last one may not be over.
LEMMA NumbersComplete ==
    ASSUME Placed, Progress, Numbers, rc' = "OK", UNCHANGED <<buf, len, str, frame>>,
           Len(frame) < MAX_CMDS /\ str <= len => ~Numeral(buf[str])
    PROVE  NumbersRead'
<1>1. /\ len \in Nat /\ str \in Nat \ {0} /\ str <= len + 1
      /\ Len(frame) \in Nat /\ Len(frame) <= MAX_CMDS
  BY GcodeAssumption DEF Placed, Progress
<1>2. ASSUME NEW k \in LetterPlaces(len), Cardinality(LetterPlaces(k)) <= Len(frame),
             Cardinality(LetterPlaces(k)) < MAX_CMDS
      PROVE  IsNumber(frame[Cardinality(LetterPlaces(k))], k, NumberEnd(k))
  <2>1. k \in Nat \ {0} /\ k <= len /\ buf[k] \in Letters
    BY <1>1 DEF LetterPlaces
  <2>2. k <= str - 1
    <3> SUFFICES ASSUME k >= str PROVE FALSE
      BY <1>1, <2>1
    <3>1. Cardinality(LetterPlaces(k)) = Cardinality(LetterPlaces(k - 1)) + 1
      BY <2>1, OnePlace
    <3>2. k - 1 \in Int /\ str - 1 \in Int /\ str - 1 <= k - 1
      BY <1>1, <2>1
    <3>3. Cardinality(LetterPlaces(str - 1)) <= Cardinality(LetterPlaces(k - 1))
          /\ Cardinality(LetterPlaces(k - 1)) \in Nat
      BY <3>2, PlacesFinite
    <3> QED BY <1>1, <1>2, <3>1, <3>3 DEF Progress
  <2>3. k \in LetterPlaces(str - 1)
    BY <1>1, <2>1, <2>2 DEF LetterPlaces
  <2>4. CASE Cardinality(LetterPlaces(k)) = Len(frame)
    <3>1. str <= len => ~Numeral(buf[str])
      BY <1>2, <2>4
    <3> QED BY <2>3, <3>1, NumbersOver
  <2>5. CASE Cardinality(LetterPlaces(k)) # Len(frame)
    BY <2>3, <2>5 DEF Numbers
  <2> QED BY <2>4, <2>5
<1> QED BY <1>2, SameNumber DEF NumbersRead

LEMMA NumberInit == Init => NumberInv
<1> SUFFICES ASSUME Init PROVE NumberInv
  OBVIOUS
<1>1. ReadInv
  BY ReadInit
<1>2. Numbers
  <2>1. str - 1 = 0
    BY DEF Init
  <2>2. LetterPlaces(0) = {}
    BY DEF LetterPlaces
  <2> QED BY <2>1, <2>2 DEF Numbers
<1>3. NumbersRead
  BY DEF Init, NumbersRead
<1> QED BY <1>1, <1>2, <1>3 DEF NumberInv

\* The step that finds a letter.
LEMMA NumberLetter ==
    ASSUME Placed, Progress, Numbers, More, parse_element(buf, str).rc = "OK",
           parse_element(buf, str).type # Nul,
           frame' = Append(frame, parse_element(buf, str)),
           str' = parse_element(buf, str).next, UNCHANGED <<buf, len, rc>>
    PROVE  Numbers'
<1> DEFINE e == parse_element(buf, str)
           start == SkipSpaces(buf, str)
<1>1. str \in Nat \ {0} /\ str <= len
  BY GcodeAssumption DEF Placed, More
<1>2. /\ LetterPlaces(str' - 1) = LetterPlaces(str - 1) \cup {start}
      /\ Cardinality(LetterPlaces(start)) = Len(frame')
      /\ \A i \in 1 .. Len(frame) : frame'[i] = frame[i] /\ i < Len(frame')
      /\ frame'[Len(frame')] = e
  BY LetterStep
<1>3. ASSUME NEW k \in LetterPlaces(str - 1)
      PROVE  /\ Cardinality(LetterPlaces(k)) # Len(frame')
             /\ IsNumber(frame'[Cardinality(LetterPlaces(k))], k, NumberEnd(k))
  <2>1. ~Numeral(buf[str])
    BY <1>1, NumberOver
  <2>2. IsNumber(frame[Cardinality(LetterPlaces(k))], k, NumberEnd(k))
    BY <2>1, NumbersOver
  <2>3. Cardinality(LetterPlaces(k)) \in 1 .. Len(frame)
    BY PlaceInFrame
  <2>4. Len(frame') \in Nat /\ Len(frame) \in Nat
    BY LetterStep DEF Progress
  <2>5. frame'[Cardinality(LetterPlaces(k))] = frame[Cardinality(LetterPlaces(k))]
        /\ Cardinality(LetterPlaces(k)) < Len(frame')
    BY <1>2, <2>3
  <2> QED BY <2>2, <2>3, <2>4, <2>5
<1>4. IsNumber(e, start, str') /\ \A i \in start + 1 .. str' - 1 : Numeral(buf[i])
  <2>1. IsNumber(e, start, e.next)
    BY <1>1, ElementNumber
  <2>2. Reads(start + 1, e.next)
    BY <1>1, LetterRead
  <2> QED BY <2>1, <2>2 DEF Reads
<1> HIDE DEF e, start
<1>5. /\ \A n : LetterPlaces(n)' = LetterPlaces(n)
      /\ \A k : NumberEnd(k)' = NumberEnd(k)
      /\ \A x, k, n : IsNumber(x, k, n)' <=> IsNumber(x, k, n)
  BY SameNumber
<1>6. ASSUME NEW k \in LetterPlaces(str' - 1)
      PROVE  IF Cardinality(LetterPlaces(k)) = Len(frame')
             THEN /\ IsNumber(frame'[Len(frame')], k, str')
                  /\ \A i \in k + 1 .. str' - 1 : Numeral(buf[i])
             ELSE IsNumber(frame'[Cardinality(LetterPlaces(k))], k, NumberEnd(k))
  BY <1>2, <1>3, <1>4
<1> QED BY <1>5, <1>6 DEF Numbers

LEMMA NumberStep == NumberInv /\ [Next]_vars => NumberInv'
<1> SUFFICES ASSUME NumberInv, [Next]_vars PROVE NumberInv'
  OBVIOUS
<1>1. ReadInv'
  BY ReadStep DEF NumberInv
<1>2. ASSUME UNCHANGED <<buf, len, str, frame>>, rc = "run"
      PROVE  Numbers'
  <2>1. Numbers
    BY <1>2 DEF NumberInv
  <2>2. UNCHANGED <<buf, len>>
    BY <1>2
  <2> QED BY <1>2, <2>1, <2>2, SameNumber DEF Numbers
<1>3. CASE Step
  <2> DEFINE e == parse_element(buf, str)
  <2>1. Placed /\ Progress /\ Numbers /\ More /\ rc = "run"
    BY <1>3 DEF Step, NumberInv, ReadInv
  <2>2. CASE e.rc # "OK" /\ Return(e.rc)
    BY <1>1, <1>2, <2>1, <2>2 DEF Return, NumberInv, NumbersRead
  <2>3. CASE e.rc = "OK" /\ e.type = Nul /\ Return("OK")
    <3>1. str <= len => ~Numeral(buf[str])
      BY <2>1, <2>3, NumberOver
    <3>2. UNCHANGED <<buf, len, str, frame>> /\ rc' = "OK"
      BY <2>3 DEF Return
    <3>3. NumbersRead'
      BY <2>1, <3>1, <3>2, NumbersComplete
    <3> QED BY <1>1, <1>2, <2>1, <3>2, <3>3 DEF NumberInv
  <2>4. CASE e.rc = "OK" /\ e.type # Nul
    <3>1. frame' = Append(frame, e) /\ str' = e.next /\ UNCHANGED <<buf, len, rc>>
      BY <1>3, <2>4 DEF Step
    <3>2. Numbers'
      BY <2>1, <2>4, <3>1, NumberLetter
    <3>3. NumbersRead'
      BY <2>1, <3>1 DEF NumbersRead
    <3> QED BY <1>1, <3>2, <3>3 DEF NumberInv
  <2> QED BY <1>3, <2>2, <2>3, <2>4 DEF Step
<1>4. CASE Finish
  <2>1. Placed /\ Progress /\ Numbers /\ ~More /\ rc = "run" /\ Return("OK")
    BY <1>4 DEF Finish, NumberInv, ReadInv
  <2>2. UNCHANGED <<buf, len, str, frame>> /\ rc' = "OK"
    BY <2>1 DEF Return
  <2>3. Len(frame) < MAX_CMDS /\ str <= len => ~Numeral(buf[str])
    <3> SUFFICES ASSUME Len(frame) < MAX_CMDS, str <= len PROVE ~Numeral(buf[str])
      OBVIOUS
    <3>1. Char(buf, str) = Nul
      BY <2>1 DEF More
    <3>2. str \in Nat \ {0}
      BY <2>1, GcodeAssumption DEF Placed
    <3>3. buf[str] = Nul
      BY <2>1, <3>1, <3>2, CharIn
    <3> QED BY <3>3, NoLetters DEF IsLast
  <2>4. NumbersRead'
    BY <2>1, <2>2, <2>3, NumbersComplete
  <2> QED BY <1>1, <1>2, <2>1, <2>2, <2>4 DEF NumberInv
<1>5. CASE UNCHANGED vars
  <2>1. UNCHANGED <<buf, len, str, frame, rc>>
    BY <1>5 DEF vars
  <2> QED BY <1>1, <2>1, SameNumber DEF NumberInv, Numbers, NumbersRead
<1> QED BY <1>3, <1>4, <1>5 DEF Next

\* Every letter of an accepted command has the number that is written behind it,
\* with its sign and its places behind the point, however long it is: the loops of
\* read_int and read_double lose no digit and take no other, and a rest that they
\* leave is never taken for something else.
THEOREM EveryNumberRead == Spec => []NumbersRead
<1>1. NumberInv => NumbersRead
  BY DEF NumberInv
<1> QED BY <1>1, NumberInit, NumberStep, PTL DEF Spec
=============================================================================
