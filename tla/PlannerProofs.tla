---------------------------- MODULE PlannerProofs ----------------------------
(****************************************************************************)
(* The planner is safe for every size of the ring and every number of       *)
(* commands: TypeOK and Safety of Planner hold together as one inductive    *)
(* invariant.  None of the parts of Safety is inductive alone: a tick needs *)
(* WorkConserving to know that there is a current action, and RingWindow to *)
(* know that the slots after it hold commands and not leftovers.            *)
(****************************************************************************)
EXTENDS Planner, FiniteSetTheorems, SequenceTheorems, TLAPS

\* The types of what a tick, a lock and an accepted command change together ...
RingTypes ==
    /\ plan \in [Slots -> Actions]
    /\ plan_first \in Slots
    /\ plan_cur \in Slots
    /\ plan_last \in Slots
    /\ plan_len \in Slots
    /\ active_plan_len \in Nat
    /\ locked \in BOOLEAN
    /\ going \in BOOLEAN
    /\ engine \in Slots
    /\ barrier \in 0 .. sent

\* ... and of the rest.
Rest ==
    /\ fail_on_endstops \in BOOLEAN
    /\ configured \in BOOLEAN
    /\ scan \in Slots \cup {Nobody}
    /\ clearing \in BOOLEAN
    /\ clearing => scan \in Slots
    /\ calc \in Slots \cup {Nobody}
    /\ sent \in 0 .. MaxNid
    /\ told \in SUBSET Nat

Ring == RingTypes /\ Safety

Inv == Ring /\ Rest

LEMMA InvIsTypeOKAndSafety == Inv <=> TypeOK /\ Safety
  BY DEF Inv, Ring, RingTypes, Rest, TypeOK

-----------------------------------------------------------------------------
(* Remainders: the arithmetic behind every (i + k) % QUEUE_SIZE             *)

\* Division with remainder: what the quotient and the remainder are.
LEMMA ModRange ==
    ASSUME NEW a \in Int, NEW q \in Nat \ {0}
    PROVE  /\ a % q \in 0 .. q - 1
           /\ a \div q \in Int
           /\ a = q * (a \div q) + (a % q)
  OBVIOUS

\* The remainder is unique.
LEMMA ModUnique ==
    ASSUME NEW q \in Nat \ {0}, NEW u \in Int, NEW v \in Int,
           NEW r \in 0 .. q - 1, NEW s \in 0 .. q - 1,
           q * u + r = q * v + s
    PROVE  r = s
<1>1. CASE u = v
  BY <1>1
<1>2. CASE u > v
  <2>1. PICK d \in Nat : u = v + 1 + d
    <3>1. u - v - 1 \in Nat
      BY <1>2
    <3> QED BY <3>1
  <2>2. q * u = q * v + q + q * d
    BY <2>1
  <2>3. q * d \in Nat
    OBVIOUS
  <2> QED BY <2>2, <2>3
<1>3. CASE v > u
  <2>1. PICK d \in Nat : v = u + 1 + d
    <3>1. v - u - 1 \in Nat
      BY <1>3
    <3> QED BY <3>1
  <2>2. q * v = q * u + q + q * d
    BY <2>1
  <2>3. q * d \in Nat
    OBVIOUS
  <2> QED BY <2>2, <2>3
<1> QED BY <1>1, <1>2, <1>3

\* A place of the ring is its own remainder.
LEMMA ModSmall ==
    ASSUME NEW q \in Nat \ {0}, NEW a \in 0 .. q - 1
    PROVE  a % q = a
<1>1. /\ a % q \in 0 .. q - 1
      /\ a \div q \in Int
      /\ a = q * (a \div q) + (a % q)
  BY ModRange
<1>2. q * 0 + a = q * (a \div q) + (a % q)
  BY <1>1
<1> QED BY <1>1, <1>2, ModUnique

\* Going round in two steps is going round in one.
LEMMA ModMod ==
    ASSUME NEW q \in Nat \ {0}, NEW a \in Int, NEW b \in Int
    PROVE  ((a % q) + b) % q = (a + b) % q
<1> DEFINE r == a % q
           x == r + b
           y == a + b
<1>1. a = q * (a \div q) + r /\ r \in 0 .. q - 1 /\ a \div q \in Int
  BY ModRange
<1>2. x \in Int /\ y \in Int
  BY <1>1
<1>3. x = q * (x \div q) + (x % q) /\ x % q \in 0 .. q - 1 /\ x \div q \in Int
  <2> HIDE DEF x
  <2> QED BY <1>2, ModRange
<1>4. y = q * (y \div q) + (y % q) /\ y % q \in 0 .. q - 1 /\ y \div q \in Int
  <2> HIDE DEF y
  <2> QED BY <1>2, ModRange
<1> DEFINE u == (x \div q) + (a \div q)
           v == y \div q
           s == x % q
           t == y % q
<1>5. q * u = q * (x \div q) + q * (a \div q) /\ u \in Int
  BY <1>1, <1>3
<1>6. q * u + s = q * v + t
  BY <1>1, <1>3, <1>4, <1>5
<1>7. s \in 0 .. q - 1 /\ t \in 0 .. q - 1 /\ v \in Int
  BY <1>3, <1>4
<1> HIDE DEF u, v, s, t
<1>8. s = t
  BY <1>5, <1>6, <1>7, ModUnique
<1> QED BY <1>8 DEF s, t

-----------------------------------------------------------------------------
(* Indices                                                                  *)

LEMMA AtType ==
    ASSUME NEW c \in Int, NEW k \in Int
    PROVE  At(c, k) \in Slots
<1>1. c + k \in Int
  OBVIOUS
<1>2. (c + k) % QUEUE_SIZE \in 0 .. QUEUE_SIZE - 1
  BY <1>1, QueueSizeAssumption, ModRange
<1> QED BY <1>2 DEF At, Slots

LEMMA AtZero ==
    ASSUME NEW c \in Slots
    PROVE  At(c, 0) = c
<1>1. c \in 0 .. QUEUE_SIZE - 1 /\ c + 0 = c
  BY QueueSizeAssumption DEF Slots
<1>2. c % QUEUE_SIZE = c
  BY <1>1, QueueSizeAssumption, ModSmall
<1> QED BY <1>1, <1>2 DEF At

LEMMA AtAt ==
    ASSUME NEW c \in Int, NEW a \in Int, NEW b \in Int
    PROVE  At(At(c, a), b) = At(c, a + b)
<1>1. c + a \in Int /\ (c + a) + b = c + (a + b)
  OBVIOUS
<1>2. (((c + a) % QUEUE_SIZE) + b) % QUEUE_SIZE = ((c + a) + b) % QUEUE_SIZE
  BY <1>1, QueueSizeAssumption, ModMod
<1> QED BY <1>1, <1>2 DEF At

\* Going round the ring meets no slot twice.
LEMMA AtInjective ==
    ASSUME NEW c \in Slots, NEW a \in Slots, NEW b \in Slots, At(c, a) = At(c, b)
    PROVE  a = b
<1> DEFINE q == QUEUE_SIZE
           u == (c + a) \div q
           v == (c + b) \div q
           r == (c + a) % q
<1>1. q \in Nat \ {0} /\ c \in Int /\ a \in 0 .. q - 1 /\ b \in 0 .. q - 1
  BY QueueSizeAssumption DEF Slots
<1>2. /\ r \in Int /\ u \in Int /\ v \in Int
      /\ c + a = q * u + r /\ c + b = q * v + r
  <2>1. c + a \in Int /\ c + b \in Int /\ r = (c + b) % q
    BY <1>1 DEF At
  <2> HIDE DEF q
  <2>2. r \in 0 .. q - 1 /\ u \in Int /\ c + a = q * u + r
    BY <1>1, <2>1, ModRange
  <2>3. v \in Int /\ c + b = q * v + ((c + b) % q)
    BY <1>1, <2>1, ModRange
  <2> QED BY <1>1, <2>1, <2>2, <2>3
<1> HIDE DEF q, u, v, r
<1>3. q * u + b = q * v + a
  <2>1. q * u \in Int /\ q * v \in Int
    BY <1>1, <1>2
  <2> QED BY <1>1, <1>2, <2>1
<1> QED BY <1>1, <1>2, <1>3, ModUnique

\* What remains of a window after its first k slots is part of it, and ends
\* at the same slot.
LEMMA WindowSuffix ==
    ASSUME NEW c \in Slots, NEW n \in Nat, NEW k \in 0 .. n
    PROVE  /\ Window(At(c, k), n - k) \subseteq Window(c, n)
           /\ At(At(c, k), n - k) = At(c, n)
<1>0. c \in Int /\ k \in Int /\ n - k \in Int /\ k + (n - k) = n
  BY QueueSizeAssumption DEF Slots
<1>1. ASSUME NEW i \in Window(At(c, k), n - k)
      PROVE  i \in Window(c, n)
  <2>1. PICK j \in 0 .. (n - k) - 1 : i = At(At(c, k), j)
    BY DEF Window
  <2>2. j \in Int
    BY <1>0
  <2>3. i = At(c, k + j)
    BY <1>0, <2>1, <2>2, AtAt
  <2>4. k + j \in 0 .. n - 1
    BY <1>0
  <2> QED BY <2>3, <2>4 DEF Window
<1>2. At(At(c, k), n - k) = At(c, n)
  BY <1>0, AtAt
<1> QED BY <1>1, <1>2

\* A slot of a window is a slot.
LEMMA WindowType ==
    ASSUME NEW c \in Slots, NEW n \in Nat
    PROVE  Window(c, n) \subseteq Slots
<1> SUFFICES ASSUME NEW k \in 0 .. n - 1
             PROVE  At(c, k) \in Slots
  BY DEF Window
<1> c \in Int /\ k \in Int
  BY QueueSizeAssumption DEF Slots
<1> QED BY AtType

\* A window of no slots, and one slot more.
LEMMA WindowEmpty ==
    ASSUME NEW c \in Slots
    PROVE  Window(c, 0) = {}
  BY DEF Window

LEMMA WindowExtend ==
    ASSUME NEW c \in Slots, NEW n \in Nat
    PROVE  Window(c, n + 1) = Window(c, n) \cup {At(c, n)}
<1>1. 0 .. (n + 1) - 1 = (0 .. n - 1) \cup {n}
  OBVIOUS
<1> QED BY <1>1 DEF Window

-----------------------------------------------------------------------------
(* Counting                                                                 *)

LEMMA WindowCount ==
    ASSUME NEW c \in Slots, NEW k \in Nat
    PROVE  IsFiniteSet(Window(c, k)) /\ Cardinality(Window(c, k)) <= k
<1> DEFINE f == [j \in 0 .. k - 1 |-> At(c, j)]
<1>1. f \in Surjection(0 .. k - 1, Window(c, k))
  BY DEF Surjection, Window
<1>2. IsFiniteSet(0 .. k - 1) /\ Cardinality(0 .. k - 1) = k
  <2>1. /\ IsFiniteSet(0 .. k - 1)
        /\ Cardinality(0 .. k - 1) = IF 0 > k - 1 THEN 0 ELSE k - 1 - 0 + 1
    BY FS_Interval
  <2> QED BY <2>1
<1> HIDE DEF f
<1> QED BY <1>1, <1>2, FS_Surjection

LEMMA SlotsFinite == \A S \in SUBSET Slots : IsFiniteSet(S) /\ Cardinality(S) \in Nat
<1>1. IsFiniteSet(0 .. QUEUE_SIZE - 1)
  BY QueueSizeAssumption, FS_Interval
<1> QED BY <1>1, FS_Subset, FS_CardinalityType DEF Slots

\* At most k slots more.
LEMMA CountBound ==
    ASSUME NEW S \in SUBSET Slots, NEW T \in SUBSET Slots,
           NEW c \in Slots, NEW k \in Nat, T \subseteq S \cup Window(c, k)
    PROVE  Cardinality(T) <= Cardinality(S) + k
<1> DEFINE W == Window(c, k)
<1>1. IsFiniteSet(W) /\ Cardinality(W) <= k /\ Cardinality(W) \in Nat
  BY WindowCount, FS_CardinalityType
<1>2. IsFiniteSet(S) /\ Cardinality(S) \in Nat /\ Cardinality(T) \in Nat
  BY SlotsFinite
<1>3. /\ IsFiniteSet(S \cup W)
      /\ Cardinality(S \cup W) = Cardinality(S) + Cardinality(W) - Cardinality(S \cap W)
  BY <1>1, <1>2, FS_Union
<1>4. Cardinality(S \cap W) \in Nat
  BY SlotsFinite
<1>5. Cardinality(T) <= Cardinality(S \cup W) /\ Cardinality(S \cup W) \in Nat
  BY <1>3, FS_Subset, FS_CardinalityType
<1> HIDE DEF W
<1> QED BY <1>1, <1>2, <1>3, <1>4, <1>5

LEMMA CountTransfer ==
    ASSUME NEW a \in Nat, NEW l \in Nat, NEW x \in Nat, NEW k \in Nat,
           NEW b \in Nat, NEW m \in Nat, NEW y \in Nat,
           a + x <= l, y <= x + k, b + k + l <= a + m
    PROVE  b + y <= m
  OBVIOUS

-----------------------------------------------------------------------------
(* Ring contents                                                            *)

LEMMA MarkType ==
    ASSUME NEW p \in [Slots -> Actions], NEW i \in Slots, NEW state \in ActionStates
    PROVE  /\ Mark(p, i, state) \in [Slots -> Actions]
           /\ \A j \in Slots : /\ Mark(p, i, state)[j].nid = p[j].nid
                               /\ Mark(p, i, state)[j].type = p[j].type
                               /\ j # i => Mark(p, i, state)[j] = p[j]
           /\ Mark(p, i, state)[i].state = state
  BY DEF Mark, Actions

\* The slots of ring contents p whose end is to be reported ...
Finals(p) == {i \in Slots : p[i].state \in {"finished", "failed"} /\ p[i].changed}

\* ... except the one whose message has been sent.
Done == {i \in Finals(plan) : ~(clearing /\ i = scan)}

\* Marking slot i as over.
LEMMA FinalsOfMark ==
    ASSUME NEW p \in [Slots -> Actions], NEW i \in Slots, NEW state \in ActionStates
    PROVE  /\ Finals(Mark(p, i, state)) \subseteq Finals(p) \cup {i}
           /\ state \notin {"finished", "failed"} =>
                Finals(Mark(p, i, state)) \subseteq Finals(p)
  BY DEF Finals, Mark, Actions

\* No two slots of ring contents p hold the same command, and none holds one
\* newer than top.
Numbered(p, top) ==
    /\ \A i \in Slots : p[i].nid <= top
    /\ \A i, j \in Slots : i # j /\ p[i].nid = p[j].nid => p[i].nid = 0

LEMMA NumberedKept ==
    ASSUME NEW p \in [Slots -> Actions], NEW q \in [Slots -> Actions],
           NEW top \in Nat, NEW new \in Nat, top <= new,
           Numbered(p, top), \A i \in Slots : q[i].nid = p[i].nid \/ q[i].nid = 0
    PROVE  Numbered(q, new)
<1>1. \A i \in Slots : p[i].nid \in Nat /\ q[i].nid \in Nat
  BY DEF Actions
<1> QED BY <1>1 DEF Numbered

LEMMA NumberedNext ==
    ASSUME NEW p \in [Slots -> Actions], NEW q \in [Slots -> Actions],
           NEW top \in Nat, NEW s \in Slots,
           Numbered(p, top), q[s].nid = top + 1,
           \A i \in Slots : i # s => q[i].nid = p[i].nid
    PROVE  Numbered(q, top + 1)
<1>1. \A i \in Slots : p[i].nid \in Nat /\ q[i].nid \in Nat
  BY DEF Actions
<1> QED BY <1>1 DEF Numbered

-----------------------------------------------------------------------------
(* Starting and ending actions, as a relation of two states                 *)

\* Of the n slots from c on, with contents p, the first k are over, and the
\* next, if there is one, is a move that runs, or that is only marked so under a
\* lock.
Moved(p, c, n, k) ==
    /\ plan' \in [Slots -> Actions]
    /\ \A i \in Slots : plan'[i].nid = p[i].nid /\ plan'[i].type = p[i].type
    /\ \A i \in Slots \ Window(c, k) :
            \/ plan'[i] = p[i]
            \/ i = At(c, k) /\ k < n /\ plan'[i].state = "started"
    /\ plan_cur' = At(c, k)
    /\ active_plan_len' = n - k
    /\ going' \in BOOLEAN
    /\ k < n => engine' = At(c, k)
    /\ k < n /\ ~locked => going' = TRUE
    /\ k = n => engine' = engine
    /\ UNCHANGED <<plan_first, locked, barrier>>

\* The planner locks, with contents that differ from p in states and flags.
Halted(p) ==
    \E q \in [Slots -> Actions] :
        /\ \A i \in Slots : q[i].nid = p[i].nid /\ q[i].type = p[i].type
        /\ Halt(q)

LEMMA GetCmdEffect ==
    ASSUME NEW p \in [Slots -> Actions], NEW c \in Slots, NEW n \in Nat,
           NEW last, NEW len, NEW running \in BOOLEAN,
           GetCmd(p, c, n, last, len, running)
    PROVE  \/ Halted(p)
           \/ \E k \in 0 .. n :
                /\ Moved(p, c, n, k)
                /\ plan_last' = last
                /\ plan_len' = len
                /\ k = n \/ locked => (going' => running)
<1> DEFINE
    over(k) == [i \in Slots |->
                  IF i \in Window(c, k)
                  THEN [p[i] EXCEPT !.state = "finished", !.changed = TRUE]
                  ELSE p[i]]
<1>1. PICK k \in 0 .. n :
        \/ /\ \/ /\ k = n
                 /\ plan' = over(k)
                 /\ going' \in {running, running /\ \A i \in Window(c, k) : p[i].type # "move"}
                 /\ engine' = engine
              \/ /\ k < n
                 /\ plan' = Mark(over(k), At(c, k), "started")
                 /\ going' = (running \/ ~locked)
                 /\ engine' = At(c, k)
           /\ plan_cur' = At(c, k)
           /\ active_plan_len' = n - k
           /\ plan_last' = last
           /\ plan_len' = len
           /\ UNCHANGED <<plan_first, locked, barrier>>
        \/ Halt(Mark(over(k), At(c, k), "failed"))
  BY DEF GetCmd, LineStarted
<1>2. /\ over(k) \in [Slots -> Actions]
      /\ \A i \in Slots : over(k)[i].nid = p[i].nid /\ over(k)[i].type = p[i].type
      /\ \A i \in Slots \ Window(c, k) : over(k)[i] = p[i]
  BY DEF Actions, ActionStates
<1>3. At(c, k) \in Slots
  <2> c \in Int /\ k \in Int
    BY QueueSizeAssumption DEF Slots
  <2> QED BY AtType
<1> HIDE DEF over
<1>4. CASE Halt(Mark(over(k), At(c, k), "failed"))
  <2> DEFINE q == Mark(over(k), At(c, k), "failed")
  <2>1. /\ q \in [Slots -> Actions]
        /\ \A i \in Slots : q[i].nid = p[i].nid /\ q[i].type = p[i].type
    <3> DEFINE o == over(k)
               j == At(c, k)
    <3>1. o \in [Slots -> Actions] /\ j \in Slots /\ "failed" \in ActionStates
      BY <1>2, <1>3 DEF ActionStates
    <3>2. \A i \in Slots : o[i].nid = p[i].nid /\ o[i].type = p[i].type
      BY <1>2
    <3> HIDE DEF o, j
    <3>3. /\ Mark(o, j, "failed") \in [Slots -> Actions]
          /\ \A i \in Slots : /\ Mark(o, j, "failed")[i].nid = o[i].nid
                              /\ Mark(o, j, "failed")[i].type = o[i].type
      BY <3>1, MarkType
    <3>4. q = Mark(o, j, "failed")
      BY DEF o, j
    <3> QED BY <3>2, <3>3, <3>4
  <2> QED BY <1>4, <2>1 DEF Halted
<1>5. CASE /\ k = n
           /\ plan' = over(k)
           /\ going' \in {running, running /\ \A i \in Window(c, k) : p[i].type # "move"}
           /\ engine' = engine
           /\ plan_cur' = At(c, k)
           /\ active_plan_len' = n - k
           /\ plan_last' = last
           /\ plan_len' = len
           /\ UNCHANGED <<plan_first, locked, barrier>>
  <2>1. going' \in BOOLEAN /\ (going' => running)
    BY <1>5, Zenon
  <2>2. ~(k < n)
    BY <1>5
  <2>3. Moved(p, c, n, k)
    BY <1>2, <1>5, <2>1, <2>2, Zenon DEF Moved
  <2> QED BY <1>5, <2>1, <2>3
<1>6. CASE /\ k < n
           /\ plan' = Mark(over(k), At(c, k), "started")
           /\ going' = (running \/ ~locked)
           /\ engine' = At(c, k)
           /\ plan_cur' = At(c, k)
           /\ active_plan_len' = n - k
           /\ plan_last' = last
           /\ plan_len' = len
           /\ UNCHANGED <<plan_first, locked, barrier>>
  <2>1. /\ plan' \in [Slots -> Actions]
        /\ \A i \in Slots : /\ plan'[i].nid = over(k)[i].nid
                            /\ plan'[i].type = over(k)[i].type
                            /\ i # At(c, k) => plan'[i] = over(k)[i]
        /\ plan'[At(c, k)].state = "started"
    <3> DEFINE o == over(k)
    <3>1. o \in [Slots -> Actions] /\ plan' = Mark(o, At(c, k), "started")
      BY <1>2, <1>6
    <3> HIDE DEF o
    <3>2. "started" \in ActionStates
      BY DEF ActionStates
    <3>3. /\ plan' \in [Slots -> Actions]
          /\ \A i \in Slots : /\ plan'[i].nid = o[i].nid /\ plan'[i].type = o[i].type
                              /\ i # At(c, k) => plan'[i] = o[i]
          /\ plan'[At(c, k)].state = "started"
      BY <1>3, <3>1, <3>2, MarkType
    <3> QED BY <3>3 DEF o
  <2>2. \A i \in Slots : plan'[i].nid = p[i].nid /\ plan'[i].type = p[i].type
    BY <1>2, <2>1
  <2>3. \A i \in Slots \ Window(c, k) :
            \/ plan'[i] = p[i]
            \/ i = At(c, k) /\ k < n /\ plan'[i].state = "started"
    BY <1>2, <1>6, <2>1
  <2>4. k # n /\ going' \in BOOLEAN
    BY <1>6
  <2>5. Moved(p, c, n, k)
    BY <1>6, <2>1, <2>2, <2>3, <2>4, Zenon DEF Moved
  <2> QED BY <1>6, <2>4, <2>5
<1> QED BY <1>1, <1>4, <1>5, <1>6

\* The end of the current action, when there is one: it is over, and what is
\* over at once with it.
LEMMA LineFinishedEffect ==
    ASSUME plan \in [Slots -> Actions], plan_cur \in Slots, active_plan_len \in Nat,
           active_plan_len > 0, ~locked,
           LineFinished
    PROVE  \/ Halted(plan)
           \/ \E k \in 1 .. active_plan_len :
                /\ Moved(plan, plan_cur, active_plan_len, k)
                /\ UNCHANGED <<plan_last, plan_len>>
                /\ k = active_plan_len => going' = FALSE
<1> DEFINE p == Mark(plan, plan_cur, "finished")
           c == At(plan_cur, 1)
           n == active_plan_len - 1
<1>1. GetCmd(p, c, n, plan_last, plan_len, FALSE)
  BY DEF LineFinished
<1>2. plan_cur \in Int /\ c \in Slots /\ n \in Nat
  <2> plan_cur \in Int
    BY QueueSizeAssumption DEF Slots
  <2> QED BY AtType
<1>3. /\ p \in [Slots -> Actions]
      /\ \A i \in Slots : /\ p[i].nid = plan[i].nid /\ p[i].type = plan[i].type
                          /\ i # plan_cur => p[i] = plan[i]
  BY MarkType DEF ActionStates
<1> HIDE DEF p, c, n
<1>4. CASE Halted(p)
  BY <1>3, <1>4 DEF Halted
<1>5. ASSUME NEW k \in 0 .. n, Moved(p, c, n, k)
      PROVE  Moved(plan, plan_cur, active_plan_len, k + 1)
  <2>1. At(c, k) = At(plan_cur, k + 1)
    <3>1. k \in Int /\ 1 + k = k + 1
      OBVIOUS
    <3> QED BY <1>2, <3>1, AtAt DEF c
  <2>2. Window(c, k) \subseteq Window(plan_cur, k + 1) /\ plan_cur \in Window(plan_cur, k + 1)
    <3>1. k + 1 \in Nat /\ 1 \in 0 .. k + 1 /\ (k + 1) - 1 = k /\ 0 \in 0 .. (k + 1) - 1
      BY <1>2
    <3>2. Window(c, k) \subseteq Window(plan_cur, k + 1)
      BY <3>1, WindowSuffix DEF c
    <3> QED BY <3>1, <3>2, AtZero DEF Window
  <2>3. (k + 1 < active_plan_len <=> k < n) /\ (k + 1 = active_plan_len <=> k = n)
        /\ active_plan_len - (k + 1) = n - k
    BY <1>2 DEF n
  <2>4. \A i \in Slots \ Window(plan_cur, k + 1) :
            \/ plan'[i] = plan[i]
            \/ i = At(plan_cur, k + 1) /\ k + 1 < active_plan_len /\ plan'[i].state = "started"
    BY <1>3, <1>5, <2>1, <2>2, <2>3 DEF Moved
  <2>5. \A i \in Slots : plan'[i].nid = plan[i].nid /\ plan'[i].type = plan[i].type
    BY <1>3, <1>5 DEF Moved
  <2> QED BY <1>5, <2>1, <2>3, <2>4, <2>5, Zenon DEF Moved
<1>6. ASSUME NEW k \in 0 .. n, Moved(p, c, n, k), plan_last' = plan_last, plan_len' = plan_len,
             k = n => (going' => FALSE)
      PROVE  \E j \in 1 .. active_plan_len :
                /\ Moved(plan, plan_cur, active_plan_len, j)
                /\ UNCHANGED <<plan_last, plan_len>>
                /\ j = active_plan_len => going' = FALSE
  <2>1. k + 1 \in 1 .. active_plan_len /\ (k + 1 = active_plan_len => k = n)
    BY <1>2 DEF n
  <2>2. k + 1 = active_plan_len => going' = FALSE
    BY <1>6, <2>1 DEF Moved
  <2> QED BY <1>5, <1>6, <2>1, <2>2
<1>7. \/ Halted(p)
      \/ \E k \in 0 .. n :
            /\ Moved(p, c, n, k)
            /\ plan_last' = plan_last
            /\ plan_len' = plan_len
            /\ k = n => (going' => FALSE)
  <2>1. FALSE \in BOOLEAN
    OBVIOUS
  <2>2. \/ Halted(p)
        \/ \E k \in 0 .. n :
              /\ Moved(p, c, n, k)
              /\ plan_last' = plan_last
              /\ plan_len' = plan_len
              /\ k = n \/ locked => (going' => FALSE)
    BY <1>1, <1>2, <1>3, <2>1, GetCmdEffect, Zenon
  <2> QED BY <2>2
<1> QED BY <1>4, <1>6, <1>7

\* A slot still to execute is none of those that are over.
LEMMA MovedWindow ==
    ASSUME NEW p, NEW c \in Slots, NEW n \in Nat, NEW k \in 0 .. n, Moved(p, c, n, k)
    PROVE  /\ plan_cur' \in Slots /\ active_plan_len' \in Nat
           /\ At(plan_cur', active_plan_len') = At(c, n)
           /\ Pending' = {At(c, j) : j \in k .. n - 1}
           /\ Pending' \subseteq Window(c, n)
<1>1. plan_cur' = At(c, k) /\ active_plan_len' = n - k
  BY DEF Moved
<1>2. c \in Int /\ k \in Int /\ n - k \in Nat
  BY QueueSizeAssumption DEF Slots
<1>3. At(c, k) \in Slots
  BY <1>2, AtType
<1>4. Window(At(c, k), n - k) \subseteq Window(c, n) /\ At(At(c, k), n - k) = At(c, n)
  BY WindowSuffix
<1>5. Window(At(c, k), n - k) = {At(c, j) : j \in k .. n - 1}
  <2>1. ASSUME NEW j \in 0 .. (n - k) - 1
        PROVE  At(At(c, k), j) = At(c, k + j) /\ k + j \in k .. n - 1
    BY <1>2, AtAt
  <2>2. ASSUME NEW j \in k .. n - 1
        PROVE  j - k \in 0 .. (n - k) - 1 /\ At(c, j) = At(At(c, k), j - k)
    <3>1. j - k \in Int /\ k + (j - k) = j
      OBVIOUS
    <3> QED BY <1>2, <3>1, AtAt
  <2> QED BY <2>1, <2>2 DEF Window
<1>6. Pending' = Window(At(c, k), n - k)
  BY <1>1 DEF Pending
<1> QED BY <1>1, <1>2, <1>3, <1>4, <1>5, <1>6

\* The ends that are new belong to the slots that are over.
LEMMA MovedFinals ==
    ASSUME NEW p \in [Slots -> Actions], NEW c, NEW n, NEW k, Moved(p, c, n, k)
    PROVE  Finals(plan') \subseteq Finals(p) \cup Window(c, k)
  BY DEF Moved, Finals

-----------------------------------------------------------------------------
(* The building blocks of the actions                                       *)

\* Locking leaves an empty, safe ring whatever the ring was.
LEMMA HaltKeepsRing ==
    ASSUME plan_first \in Slots, engine \in Slots, sent' \in Nat,
           NEW p \in [Slots -> Actions],
           Halt(p)
    PROVE  Ring'
<1>1. 0 \in Slots
  BY QueueSizeAssumption DEF Slots
<1>2. At(0, 0) = 0
  BY <1>1, AtZero
<1>3. Window(0, 0) = {}
  BY <1>1, WindowEmpty
<1>4. /\ plan' \in [Slots -> Actions]
      /\ plan_first' \in Slots
      /\ plan_cur' = 0 /\ plan_last' = 0 /\ plan_len' = 0 /\ active_plan_len' = 0
      /\ locked' = TRUE /\ going' = FALSE /\ engine' \in Slots
      /\ barrier' = sent'
  BY DEF Halt
<1>5. Safety'
  BY <1>2, <1>3, <1>4
     DEF Safety, RingWindow, WorkConserving, NoMotionWhileLocked,
         EngineMatchesQueue, PendingIsFresh, Pending
<1>6. locked' \in BOOLEAN /\ going' \in BOOLEAN
  BY <1>4
<1>7. /\ plan_cur' \in Slots /\ plan_last' \in Slots /\ plan_len' \in Slots
      /\ active_plan_len' \in Nat /\ barrier' \in 0 .. sent'
  BY <1>1, <1>4
<1> QED BY <1>4, <1>5, <1>6, <1>7 DEF Ring, RingTypes

\* Work goes on with the slots that remain of those that end at the slot for
\* the next command and hold nothing from before the last lock.
LEMMA MovedKeepsRing ==
    ASSUME plan_first \in Slots, engine \in Slots, locked = FALSE,
           barrier \in 0 .. sent, sent \in Nat, sent' \in Nat, sent <= sent',
           NEW p \in [Slots -> Actions], NEW c \in Slots, NEW n \in Nat, NEW k \in 0 .. n,
           Moved(p, c, n, k),
           plan_last' = At(c, n), plan_last' \in Slots, plan_len' \in Slots,
           k = n => going' = FALSE,
           \A i \in Window(c, n) : p[i].nid = 0 \/ p[i].nid > barrier
    PROVE  Ring'
<1>1. /\ plan_cur' \in Slots /\ active_plan_len' \in Nat
      /\ At(plan_cur', active_plan_len') = At(c, n)
      /\ Pending' \subseteq Window(c, n)
  BY MovedWindow
<1>2. /\ plan' \in [Slots -> Actions]
      /\ \A i \in Slots : plan'[i].nid = p[i].nid
      /\ plan_cur' = At(c, k) /\ active_plan_len' = n - k
      /\ going' \in BOOLEAN
      /\ plan_first' = plan_first /\ locked' = FALSE /\ barrier' = barrier
  BY DEF Moved
<1>3. /\ engine' \in Slots
      /\ going' => engine' = plan_cur'
      /\ going' <=> active_plan_len' > 0
  <2>1. CASE k = n
    <3>1. engine' = engine /\ going' = FALSE /\ ~(active_plan_len' > 0)
      BY <1>2, <2>1 DEF Moved
    <3> QED BY <3>1
  <2>2. CASE k < n
    <3>1. engine' = At(c, k) /\ going' = TRUE /\ active_plan_len' > 0
      BY <1>2, <2>2 DEF Moved
    <3> QED BY <1>1, <1>2, <3>1
  <2> QED BY <2>1, <2>2
<1>4. Window(c, n) \subseteq Slots
  BY WindowType
<1>5. PendingIsFresh'
  BY <1>1, <1>2, <1>4 DEF PendingIsFresh
<1>6. Safety'
  BY <1>1, <1>2, <1>3, <1>5
     DEF Safety, RingWindow, WorkConserving, NoMotionWhileLocked, EngineMatchesQueue
<1>7. locked' \in BOOLEAN /\ barrier' \in 0 .. sent' /\ plan_first' \in Slots
  <2>1. plan_first' = plan_first /\ locked' = FALSE /\ barrier' = barrier
    BY <1>2
  <2>2. barrier' \in 0 .. sent'
    BY <2>1
  <2> QED BY <2>1, <2>2
<1> QED BY <1>1, <1>2, <1>3, <1>6, <1>7 DEF Ring, RingTypes

\* The end of the current action.
LEMMA LineFinishedKeepsRing ==
    ASSUME Ring, sent \in Nat, sent' = sent, going, LineFinished
    PROVE  Ring'
<1>1. /\ locked = FALSE
      /\ active_plan_len > 0
      /\ plan_last = At(plan_cur, active_plan_len)
      /\ plan \in [Slots -> Actions] /\ plan_first \in Slots /\ engine \in Slots
      /\ plan_cur \in Slots /\ active_plan_len \in Nat
      /\ plan_last \in Slots /\ plan_len \in Slots /\ barrier \in 0 .. sent
      /\ \A i \in Window(plan_cur, active_plan_len) : plan[i].nid = 0 \/ plan[i].nid > barrier
  BY DEF Ring, RingTypes, Safety, WorkConserving, NoMotionWhileLocked, RingWindow, PendingIsFresh, Pending
<1>2. sent' \in Nat /\ sent <= sent'
  OBVIOUS
<1>3. CASE Halted(plan)
  BY <1>1, <1>2, <1>3, HaltKeepsRing DEF Halted
<1>4. ASSUME NEW k \in 1 .. active_plan_len, Moved(plan, plan_cur, active_plan_len, k),
             UNCHANGED <<plan_last, plan_len>>, k = active_plan_len => going' = FALSE
      PROVE  Ring'
  <2>1. k \in 0 .. active_plan_len /\ plan_last' = plan_last /\ plan_len' = plan_len
    BY <1>1, <1>4
  <2> QED BY <1>1, <1>2, <1>4, <2>1, MovedKeepsRing
<1> QED BY <1>1, <1>3, <1>4, LineFinishedEffect

-----------------------------------------------------------------------------
(* What a lock and a tick do, whatever the ring is like                     *)

\* Contents, counters and engine are of their types, and no nid has changed.
Relabelled ==
    /\ plan' \in [Slots -> Actions]
    /\ \A i \in Slots : plan'[i].nid = plan[i].nid /\ plan'[i].type = plan[i].type
    /\ plan_cur' \in Slots
    /\ active_plan_len' \in Nat
    /\ going' \in BOOLEAN
    /\ engine' \in Slots
    /\ UNCHANGED <<plan_first, plan_last, plan_len, locked, barrier>>

LEMMA HaltedEffect ==
    ASSUME RingTypes, sent' \in Nat, Halted(plan)
    PROVE  /\ RingTypes' /\ Safety'
           /\ \A i \in Slots : plan'[i].nid = plan[i].nid /\ plan'[i].type = plan[i].type
           /\ Pending' = {} /\ active_plan_len' = 0 /\ plan_len' = 0
           /\ locked' = TRUE /\ going' = FALSE
<1>1. PICK q \in [Slots -> Actions] :
          /\ \A i \in Slots : q[i].nid = plan[i].nid /\ q[i].type = plan[i].type
          /\ Halt(q)
  BY DEF Halted
<1>2. Ring'
  BY <1>1, HaltKeepsRing DEF RingTypes
<1>3. /\ plan' = q /\ plan_cur' = 0 /\ active_plan_len' = 0 /\ plan_len' = 0
      /\ locked' = TRUE /\ going' = FALSE
  BY <1>1 DEF Halt
<1>4. 0 \in Slots
  BY QueueSizeAssumption DEF Slots
<1>5. Pending' = {}
  BY <1>3, <1>4, WindowEmpty DEF Pending
<1> QED BY <1>1, <1>2, <1>3, <1>5 DEF Ring

LEMMA RelabelledTypes ==
    ASSUME RingTypes, Relabelled, sent' = sent
    PROVE  RingTypes'
  BY DEF RingTypes, Relabelled

\* Work that goes on with what is left of the slots from plan_cur on.
LEMMA MovedRelabels ==
    ASSUME RingTypes, NEW n \in Nat, NEW k \in 0 .. n, Moved(plan, plan_cur, n, k),
           UNCHANGED <<plan_last, plan_len>>
    PROVE  Relabelled
<1>1. plan_cur' \in Slots /\ active_plan_len' \in Nat
  BY MovedWindow DEF RingTypes
<1>2. engine' \in Slots
  <2>1. CASE k = n
    BY <2>1 DEF Moved, RingTypes
  <2>2. CASE k < n
    BY <1>1, <2>2 DEF Moved
  <2> QED BY <2>1, <2>2
<1> QED BY <1>1, <1>2 DEF Moved, Relabelled

\* A tick, even one that finds the counters upset.
LEMMA TickEffect ==
    ASSUME RingTypes, Tick
    PROVE  /\ going /\ UNCHANGED <<modeVars, loopVars, sent, told>>
           /\ Halted(plan) \/ Relabelled
<1>1. going /\ UNCHANGED <<modeVars, loopVars, sent, told>>
  BY DEF Tick, TickFinish, TickTouch
<1>2. CASE Halt(Mark(plan, plan_cur, "failed"))
  <2>1. "failed" \in ActionStates
    BY DEF ActionStates
  <2> QED BY <1>1, <1>2, <2>1, MarkType DEF Halted, RingTypes
<1>3. CASE LineFinished
  <2> DEFINE p == Mark(plan, plan_cur, "finished")
             step == IF active_plan_len > 0 THEN 1 ELSE 0
             c == At(plan_cur, step)
             n == active_plan_len - step
  <2>1. step \in Nat /\ n \in Nat
    BY DEF RingTypes
  <2>2. c \in Slots
    <3>1. plan_cur \in Int /\ step \in Int
      BY QueueSizeAssumption DEF RingTypes, Slots
    <3> HIDE DEF step
    <3> QED BY <3>1, AtType
  <2>3. "finished" \in ActionStates
    BY DEF ActionStates
  <2>4. /\ p \in [Slots -> Actions]
        /\ \A i \in Slots : p[i].nid = plan[i].nid /\ p[i].type = plan[i].type
    BY <2>3, MarkType DEF RingTypes
  <2> HIDE DEF p, step, c, n
  <2>5. CASE locked
    <3>1. /\ plan' = p /\ plan_cur' = c /\ active_plan_len' = n /\ going' = FALSE
          /\ UNCHANGED <<plan_first, plan_last, plan_len, engine, locked, barrier>>
      BY <1>3, <2>5 DEF LineFinished, p, step, c, n
    <3>2. engine' \in Slots /\ going' \in BOOLEAN
      BY <3>1 DEF RingTypes
    <3> QED BY <1>1, <2>1, <2>2, <2>4, <3>1, <3>2 DEF Relabelled
  <2>6. CASE ~locked
    <3>1. GetCmd(p, c, n, plan_last, plan_len, FALSE)
      BY <1>3, <2>6 DEF LineFinished, p, step, c, n
    <3>2. CASE Halted(p)
      BY <1>1, <2>4, <3>2 DEF Halted
    <3>3. ASSUME NEW k \in 0 .. n, Moved(p, c, n, k),
                 UNCHANGED <<plan_last, plan_len>>
          PROVE  Relabelled
      <4>1. plan_cur' \in Slots /\ active_plan_len' \in Nat
        BY <2>1, <2>2, <3>3, MovedWindow
      <4>2. engine' \in Slots
        <5>1. CASE k = n
          BY <3>3, <5>1 DEF Moved, RingTypes
        <5>2. CASE k < n
          BY <3>3, <4>1, <5>2 DEF Moved
        <5> QED BY <2>1, <5>1, <5>2
      <4> QED BY <2>4, <3>3, <4>1, <4>2 DEF Moved, Relabelled
    <3>4. \/ Halted(p)
          \/ \E k \in 0 .. n : Moved(p, c, n, k) /\ UNCHANGED <<plan_last, plan_len>>
      <4>1. FALSE \in BOOLEAN
        OBVIOUS
      <4> QED BY <2>1, <2>2, <2>4, <3>1, <4>1, GetCmdEffect
    <3> QED BY <1>1, <3>2, <3>3, <3>4
  <2> QED BY <2>5, <2>6 DEF RingTypes
<1> QED BY <1>2, <1>3 DEF Tick, TickFinish, TickTouch, EndstopsTouched

\* A tick that ends the current move of an unlocked planner.
LEMMA TickMoves ==
    ASSUME RingTypes, ~locked, active_plan_len > 0, Tick
    PROVE  \/ Halted(plan)
           \/ \E k \in 1 .. active_plan_len :
                /\ Moved(plan, plan_cur, active_plan_len, k)
                /\ UNCHANGED <<plan_last, plan_len>>
                /\ k = active_plan_len => going' = FALSE
<1>1. CASE Halt(Mark(plan, plan_cur, "failed"))
  <2>1. "failed" \in ActionStates
    BY DEF ActionStates
  <2> QED BY <1>1, <2>1, MarkType DEF Halted, RingTypes
<1>2. CASE LineFinished
  BY <1>2, LineFinishedEffect DEF RingTypes
<1> QED BY <1>1, <1>2 DEF Tick, TickFinish, TickTouch, EndstopsTouched

-----------------------------------------------------------------------------
(* The queue read off the ring                                              *)

\* What the queue is read off.
QueueTyped ==
    /\ plan \in [Slots -> Actions]
    /\ plan_cur \in Slots
    /\ active_plan_len \in Nat

LEMMA QueueShape ==
    ASSUME QueueTyped
    PROVE  /\ Queue \in Seq(Nat) /\ Len(Queue) = active_plan_len
           /\ \A k \in 1 .. active_plan_len :
                /\ At(plan_cur, k - 1) \in Slots
                /\ Queue[k] = plan[At(plan_cur, k - 1)].nid
<1>1. active_plan_len \in Nat /\ plan_cur \in Int /\ plan \in [Slots -> Actions]
  BY QueueSizeAssumption DEF QueueTyped, Slots
<1>2. \A k \in 1 .. active_plan_len : At(plan_cur, k - 1) \in Slots
  BY <1>1, AtType
<1>3. \A k \in 1 .. active_plan_len : plan[At(plan_cur, k - 1)].nid \in Nat
  BY <1>1, <1>2 DEF Actions
<1> QED BY <1>1, <1>2, <1>3 DEF Queue

\* The same of the next state.
LEMMA QueueShapeNext ==
    ASSUME QueueTyped'
    PROVE  /\ Queue' \in Seq(Nat) /\ Len(Queue') = active_plan_len'
           /\ \A k \in 1 .. active_plan_len' :
                /\ At(plan_cur', k - 1) \in Slots
                /\ Queue'[k] = plan'[At(plan_cur', k - 1)].nid
<1>1. active_plan_len' \in Nat /\ plan_cur' \in Int /\ plan' \in [Slots -> Actions]
  BY QueueSizeAssumption DEF QueueTyped, Slots
<1>2. \A k \in 1 .. active_plan_len' : At(plan_cur', k - 1) \in Slots
  BY <1>1, AtType
<1>3. \A k \in 1 .. active_plan_len' : plan'[At(plan_cur', k - 1)].nid \in Nat
  BY <1>1, <1>2 DEF Actions
<1> QED BY <1>1, <1>2, <1>3 DEF Queue

\* No slot to execute, no queue.
LEMMA QueueGone ==
    ASSUME QueueTyped', active_plan_len' = 0
    PROVE  Queue' = <<>>
<1>1. Queue' \in Seq(Nat) /\ Len(Queue') = 0
  BY QueueShapeNext
<1> QED BY <1>1, EmptySeq

\* Moving plan_cur on by k slots takes k commands off the head of the queue.
LEMMA QueueSuffix ==
    ASSUME QueueTyped, QueueTyped', NEW k \in 0 .. active_plan_len,
           plan_cur' = At(plan_cur, k), active_plan_len' = active_plan_len - k,
           \A i \in Slots : plan'[i].nid = plan[i].nid
    PROVE  Queue' = SubSeq(Queue, k + 1, Len(Queue))
<1> DEFINE t == SubSeq(Queue, k + 1, Len(Queue))
<1>1. active_plan_len \in Nat /\ plan_cur \in Int /\ k \in Int
  BY QueueSizeAssumption DEF QueueTyped, Slots
<1>2. /\ t \in Seq(Nat) /\ Len(t) = active_plan_len - k
      /\ \A j \in 1 .. active_plan_len - k :
            j + k \in 1 .. active_plan_len /\ t[j] = Queue[j + k]
  BY <1>1, QueueShape
<1>3. Queue' \in Seq(Nat) /\ Len(Queue') = active_plan_len - k
  BY QueueShapeNext
<1>4. ASSUME NEW j \in 1 .. active_plan_len - k
      PROVE  Queue'[j] = t[j]
  <2>1. Queue'[j] = plan'[At(plan_cur', j - 1)].nid /\ At(plan_cur', j - 1) \in Slots
    BY QueueShapeNext
  <2>2. At(plan_cur', j - 1) = At(plan_cur, (j + k) - 1)
    <3>1. j - 1 \in Int /\ k + (j - 1) = (j + k) - 1
      BY <1>1
    <3> QED BY <1>1, <3>1, AtAt
  <2>3. Queue[j + k] = plan[At(plan_cur, (j + k) - 1)].nid
    BY <1>2, QueueShape
  <2> QED BY <1>2, <2>1, <2>2, <2>3
<1> HIDE DEF t
<1>5. Queue' = t
  BY <1>2, <1>3, <1>4, SeqEqual
<1> QED BY <1>5 DEF t

\* Nothing that the queue is read off has changed.
LEMMA QueueSame ==
    ASSUME QueueTyped, QueueTyped', UNCHANGED <<plan_cur, active_plan_len>>,
           \A i \in Pending : plan'[i].nid = plan[i].nid
    PROVE  Queue' = Queue
<1>1. \A k \in 1 .. active_plan_len : At(plan_cur, k - 1) \in Pending
  <2> SUFFICES ASSUME NEW k \in 1 .. active_plan_len
               PROVE  At(plan_cur, k - 1) \in Pending
    OBVIOUS
  <2>1. k - 1 \in 0 .. active_plan_len - 1
    BY DEF QueueTyped
  <2> QED BY <2>1 DEF Pending, Window
<1>2. /\ Queue \in Seq(Nat) /\ Queue' \in Seq(Nat)
      /\ Len(Queue) = active_plan_len /\ Len(Queue') = active_plan_len
  BY QueueShape, QueueShapeNext
<1>3. \A k \in 1 .. active_plan_len : Queue'[k] = Queue[k]
  BY <1>1, QueueShape, QueueShapeNext
<1> QED BY <1>2, <1>3, SeqEqual

-----------------------------------------------------------------------------
(* Steps of the ring as steps of the queue                                  *)

\* A step that changes no nid, no index and no counter is a stutter.
LEMMA Stutter ==
    ASSUME QueueTyped, QueueTyped', UNCHANGED <<plan_cur, active_plan_len, locked, sent>>,
           \A i \in Slots : plan'[i].nid = plan[i].nid
    PROVE  UNCHANGED Promise!qvars
<1>1. Pending \subseteq Slots
  BY WindowType DEF QueueTyped, Pending
<1>2. Queue' = Queue
  BY <1>1, QueueSame
<1> QED BY <1>2 DEF Promise!qvars

\* Locking discards the queue.
LEMMA HaltDiscards ==
    ASSUME NEW p, Halted(p), sent' = sent \/ (~locked /\ sent' = sent + 1)
    PROVE  Promise!Discard
<1>1. PICK q \in [Slots -> Actions] : Halt(q)
  BY DEF Halted
<1>2. active_plan_len' = 0 /\ locked' = TRUE /\ plan_cur' = 0 /\ plan' = q
  BY <1>1 DEF Halt
<1>3. QueueTyped'
  BY <1>2, QueueSizeAssumption DEF QueueTyped, Slots
<1>4. Queue' = <<>>
  BY <1>2, <1>3, QueueGone
<1> QED BY <1>2, <1>4 DEF Promise!Discard

\* The end of the current action takes it, and what is over at once, off the
\* head of the queue.
LEMMA MovedAdvances ==
    ASSUME QueueTyped, NEW k \in 1 .. active_plan_len,
           Moved(plan, plan_cur, active_plan_len, k), sent' = sent
    PROVE  Promise!Advance
<1>1. /\ k \in 0 .. active_plan_len /\ active_plan_len \in Nat /\ plan_cur \in Slots
      /\ plan \in [Slots -> Actions]
  BY DEF QueueTyped
<1>2. QueueTyped'
  BY <1>1, MovedWindow DEF QueueTyped, Moved
<1>3. Queue' = SubSeq(Queue, k + 1, Len(Queue))
  BY <1>1, <1>2, QueueSuffix DEF Moved
<1>4. Len(Queue) = active_plan_len
  BY QueueShape
<1> QED BY <1>3, <1>4 DEF Moved, Promise!Advance

\* A command accepted into an empty queue goes to its head or is over at once.
LEMMA MovedIntoEmpty ==
    ASSUME QueueTyped, active_plan_len = 0, locked = FALSE, sent \in Nat, sent' = sent + 1,
           NEW p \in [Slots -> Actions], p[plan_cur].nid = sent + 1,
           NEW k \in 0 .. 1, Moved(p, plan_cur, 1, k)
    PROVE  Promise!Accept \/ Promise!Serve
<1>1. Queue = <<>>
  BY QueueShape, EmptySeq
<1>2. plan_cur \in Slots /\ 1 \in Nat /\ k \in 0 .. 1
  BY DEF QueueTyped
<1>3. QueueTyped'
  BY <1>2, MovedWindow DEF QueueTyped, Moved
<1>4. locked' = FALSE /\ plan_cur' = At(plan_cur, k) /\ active_plan_len' = 1 - k
      /\ \A i \in Slots : plan'[i].nid = p[i].nid
  BY DEF Moved
<1>5. CASE k = 1
  <2>1. Queue' = <<>>
    BY <1>3, <1>4, <1>5, QueueGone
  <2> QED BY <1>1, <1>4, <2>1 DEF Promise!Serve
<1>6. CASE k = 0
  <2>1. plan_cur' = plan_cur /\ active_plan_len' = 1
    BY <1>2, <1>4, <1>6, AtZero
  <2>2. Queue' \in Seq(Nat) /\ Len(Queue') = 1 /\ Queue'[1] = plan'[At(plan_cur', 0)].nid
    BY <1>3, <2>1, QueueShapeNext
  <2>3. Queue'[1] = sent + 1
    BY <1>2, <1>4, <2>1, <2>2, AtZero
  <2>4. /\ Append(<<>>, sent + 1) \in Seq(Nat)
        /\ Len(Append(<<>>, sent + 1)) = 1
        /\ Append(<<>>, sent + 1)[1] = sent + 1
    OBVIOUS
  <2>5. Queue' = Append(Queue, sent')
    BY <1>1, <2>2, <2>3, <2>4, SeqEqual
  <2> QED BY <1>4, <2>5 DEF Promise!Accept
<1> QED BY <1>5, <1>6

\* A command counted behind the others waits there.
LEMMA QueueAppends ==
    ASSUME QueueTyped, QueueTyped', locked = FALSE, locked' = FALSE,
           sent \in Nat, sent' = sent + 1,
           plan_cur' = plan_cur, active_plan_len' = active_plan_len + 1,
           \A i \in Pending : plan'[i].nid = plan[i].nid,
           plan'[At(plan_cur, active_plan_len)].nid = sent + 1
    PROVE  Promise!Accept
<1> DEFINE t == Append(Queue, sent + 1)
           n == active_plan_len
<1>1. n \in Nat /\ Queue \in Seq(Nat) /\ Len(Queue) = n
  BY QueueShape DEF QueueTyped
<1>2. /\ t \in Seq(Nat) /\ Len(t) = n + 1 /\ t[n + 1] = sent + 1
      /\ \A k \in 1 .. n : t[k] = Queue[k]
  BY <1>1
<1>3. /\ Queue' \in Seq(Nat) /\ Len(Queue') = n + 1
      /\ \A k \in 1 .. n + 1 : Queue'[k] = plan'[At(plan_cur, k - 1)].nid
  BY QueueShapeNext
<1>4. ASSUME NEW k \in 1 .. n
      PROVE  Queue'[k] = t[k]
  <2>1. k \in 1 .. n + 1 /\ k - 1 \in 0 .. n - 1
    BY <1>1
  <2>2. At(plan_cur, k - 1) \in Pending
    BY <2>1 DEF Pending, Window
  <2>3. Queue[k] = plan[At(plan_cur, k - 1)].nid
    BY QueueShape
  <2> QED BY <1>2, <1>3, <2>1, <2>2, <2>3
<1>5. Queue'[n + 1] = t[n + 1]
  <2>1. n + 1 \in 1 .. n + 1 /\ (n + 1) - 1 = n
    BY <1>1
  <2> QED BY <1>2, <1>3, <2>1
<1>6. \A k \in 1 .. n + 1 : Queue'[k] = t[k]
  <2>1. \A k \in 1 .. n + 1 : k \in 1 .. n \/ k = n + 1
    BY <1>1
  <2> HIDE DEF t, n
  <2> QED BY <1>4, <1>5, <2>1
<1>7. Queue' = t
  <2> HIDE DEF t, n
  <2> QED BY <1>2, <1>3, <1>6, SeqEqual
<1> QED BY <1>7 DEF Promise!Accept

\* A report that frees a slot may take the contents of one command.
LEMMA PopCmdVoids ==
    ASSUME QueueTyped, active_plan_len <= QUEUE_SIZE, plan_first \in Slots,
           PopCmd, UNCHANGED <<locked, sent>>
    PROVE  Promise!Void \/ UNCHANGED Promise!qvars
<1>1. /\ UNCHANGED <<plan_cur, active_plan_len>>
      /\ active_plan_len \in Nat /\ plan_cur \in Slots /\ plan \in [Slots -> Actions]
  BY DEF QueueTyped, PopCmd
<1>2. QueueTyped'
  <2>1. Blank \in Actions
    BY DEF Blank, Actions, ActionStates, ActionTypes
  <2>2. plan' \in [Slots -> Actions]
    BY <1>1, <2>1 DEF PopCmd
  <2> QED BY <1>1, <2>2 DEF QueueTyped
<1>3. CASE plan' = plan
  <2>1. Queue' = Queue
    BY <1>1, <1>2, <1>3, QueueSame
  <2> QED BY <2>1 DEF Promise!qvars
<1>4. CASE plan' = [plan EXCEPT ![plan_first] = Blank]
  <2>1. CASE plan_first \notin Pending
    <3>1. \A i \in Pending : plan'[i].nid = plan[i].nid
      BY <1>1, <1>4, <2>1, WindowType DEF Pending
    <3>2. Queue' = Queue
      BY <1>1, <1>2, <3>1, QueueSame
    <3> QED BY <3>2 DEF Promise!qvars
  <2>2. CASE plan_first \in Pending
    <3>1. PICK j \in 0 .. active_plan_len - 1 : plan_first = At(plan_cur, j)
      BY <2>2 DEF Pending, Window
    <3> DEFINE m == j + 1
               t == [Queue EXCEPT ![m] = 0]
    <3>2. m \in 1 .. active_plan_len /\ m - 1 = j /\ j \in Slots
      BY <1>1, <3>1, QueueSizeAssumption DEF Slots
    <3> HIDE DEF m
    <3>3. /\ t \in Seq(Nat) /\ Len(t) = active_plan_len
          /\ \A k \in 1 .. active_plan_len : t[k] = IF k = m THEN 0 ELSE Queue[k]
      BY <1>1, <3>2, QueueShape, ExceptSeq
    <3>4. Queue' \in Seq(Nat) /\ Len(Queue') = active_plan_len
      BY <1>1, <1>2, QueueShapeNext
    <3>5. ASSUME NEW k \in 1 .. active_plan_len
          PROVE  Queue'[k] = t[k]
      <4>1. /\ At(plan_cur, k - 1) \in Slots
            /\ Queue[k] = plan[At(plan_cur, k - 1)].nid
            /\ Queue'[k] = plan'[At(plan_cur, k - 1)].nid
        BY <1>1, <1>2, QueueShape, QueueShapeNext
      <4>2. CASE k = m
        BY <1>1, <1>4, <3>1, <3>2, <3>3, <4>1, <4>2 DEF Blank
      <4>3. CASE k # m
        <5>1. k - 1 \in Slots /\ k - 1 # j
          BY <1>1, <3>2, <4>3, QueueSizeAssumption DEF Slots
        <5>2. At(plan_cur, k - 1) # plan_first
          BY <1>1, <3>1, <3>2, <5>1, AtInjective
        <5> QED BY <1>1, <1>4, <3>3, <4>1, <4>3, <5>2
      <4> QED BY <4>2, <4>3
    <3>6. Queue' = t
      <4> HIDE DEF t
      <4> QED BY <3>3, <3>4, <3>5, SeqEqual
    <3>7. Len(Queue) = active_plan_len
      BY <1>1, QueueShape
    <3> QED BY <3>2, <3>6, <3>7 DEF Promise!Void
  <2> QED BY <2>1, <2>2
<1> QED BY <1>3, <1>4 DEF PopCmd

-----------------------------------------------------------------------------
(* What has been reported                                                   *)

\* None of the slots in S is over, and none of their commands has been said to
\* be.
Unreported(p, S) ==
    \A i \in S : /\ p[i].state \notin {"finished", "failed"}
                 /\ p[i].nid \notin told \ {0}

\* Those that remain of the slots to execute are none of those that are over.
LEMMA MovedUnreported ==
    ASSUME NEW p \in [Slots -> Actions], NEW c \in Slots, NEW n \in 0 .. QUEUE_SIZE,
           NEW k \in 0 .. n, Moved(p, c, n, k), Unreported(p, Window(c, n)), told' = told
    PROVE  Unreported(plan, Pending)'
<1>1. n \in Nat
  BY QueueSizeAssumption
<1>2. Pending' = {At(c, j) : j \in k .. n - 1}
  BY <1>1, MovedWindow
<1>3. ASSUME NEW j \in k .. n - 1
      PROVE  /\ At(c, j) \in Window(c, n) /\ At(c, j) \in Slots
             /\ At(c, j) \notin Window(c, k)
  <2>1. j \in Slots /\ j \in 0 .. n - 1 /\ j \in Int /\ c \in Int
    BY <1>1, QueueSizeAssumption DEF Slots
  <2>2. ASSUME NEW l \in 0 .. k - 1
        PROVE  At(c, l) # At(c, j)
    <3>1. l \in Slots /\ l # j
      BY <1>1, QueueSizeAssumption DEF Slots
    <3> QED BY <2>1, <3>1, AtInjective
  <2> QED BY <2>1, <2>2, AtType DEF Window
<1>4. \A i \in Slots : plan'[i].nid = p[i].nid
  BY DEF Moved
<1>5. ASSUME NEW i \in Pending'
      PROVE  /\ plan'[i].state \notin {"finished", "failed"}
             /\ plan'[i].nid \notin told \ {0}
  <2>1. i \in Window(c, n) /\ i \in Slots /\ i \notin Window(c, k)
    BY <1>2, <1>3, <1>5
  <2>2. plan'[i] = p[i] \/ plan'[i].state = "started"
    BY <2>1 DEF Moved
  <2> QED BY <1>4, <2>1, <2>2 DEF Unreported
<1> QED BY <1>5 DEF Unreported

\* The end that is reported belongs to none of them.
LEMMA PopUnreported ==
    ASSUME plan \in [Slots -> Actions], plan_first \in Slots, NEW top, Numbered(plan, top),
           NEW S \in SUBSET Slots, Unreported(plan, S),
           scan \in Slots, plan[scan].state \in {"finished", "failed"},
           PopCmd, told' = told \cup {plan[scan].nid}
    PROVE  \A i \in S : /\ plan'[i].state \notin {"finished", "failed"}
                        /\ plan'[i].nid \notin told' \ {0}
<1> SUFFICES ASSUME NEW i \in S
             PROVE  /\ plan'[i].state \notin {"finished", "failed"}
                    /\ plan'[i].nid \notin told' \ {0}
  OBVIOUS
<1>1. plan[i].state \notin {"finished", "failed"} /\ plan[i].nid \notin told \ {0}
  BY DEF Unreported
<1>2. plan[i].nid = 0 \/ plan[i].nid # plan[scan].nid
  BY <1>1 DEF Numbered
<1>3. plan'[i] = plan[i] \/ plan'[i] = Blank
  BY DEF PopCmd
<1> QED BY <1>1, <1>2, <1>3 DEF Blank

-----------------------------------------------------------------------------
(* The actions                                                              *)

LEMMA InitInv == Init => Inv
<1> SUFFICES ASSUME Init
             PROVE  Inv
  OBVIOUS
<1>1. 0 \in Slots
  BY QueueSizeAssumption DEF Slots
<1>2. At(0, 0) = 0 /\ Window(0, 0) = {}
  BY <1>1, AtZero, WindowEmpty
<1>3. plan \in [Slots -> Actions]
  <2> DEFINE blanks == [i \in Slots |-> Blank]
  <2>1. blanks \in [Slots -> Actions]
    BY DEF Blank, Actions, ActionStates, ActionTypes
  <2>2. plan = Mark(blanks, 0, "finished")
    BY DEF Init
  <2> HIDE DEF blanks
  <2> QED BY <1>1, <2>1, <2>2, MarkType DEF ActionStates
<1>4. Safety
  BY <1>2 DEF Init, Safety, RingWindow, WorkConserving, NoMotionWhileLocked,
              EngineMatchesQueue, PendingIsFresh, Pending
<1>5. /\ locked \in BOOLEAN /\ going \in BOOLEAN /\ fail_on_endstops \in BOOLEAN
      /\ configured \in BOOLEAN /\ clearing \in BOOLEAN /\ ~clearing
  BY Zenon DEF Init
<1>6. /\ plan_first \in Slots /\ plan_cur \in Slots /\ plan_last \in Slots
      /\ plan_len \in Slots /\ active_plan_len \in Nat /\ engine \in Slots
      /\ barrier \in 0 .. sent /\ sent \in 0 .. MaxNid
  BY <1>1, MaxNidAssumption DEF Init
<1>7. scan \in Slots \cup {Nobody} /\ calc \in Slots \cup {Nobody} /\ told \in SUBSET Nat
  BY Zenon DEF Init
<1>8. Ring
  BY <1>3, <1>4, <1>5, <1>6 DEF Ring, RingTypes
<1>9. Rest
  BY <1>5, <1>6, <1>7 DEF Rest
<1> QED BY <1>8, <1>9 DEF Inv

\* Steps that leave the ring's contents and its counters alone keep it safe.
LEMMA RingUnchanged ==
    ASSUME Ring, UNCHANGED <<ringVars, engineVars, sent, barrier>>,
           locked' = locked \/ locked' = FALSE
    PROVE  Ring'
<1>1. /\ UNCHANGED <<plan, plan_first, plan_cur, plan_last, plan_len, active_plan_len>>
      /\ UNCHANGED <<going, engine, sent, barrier>>
  BY DEF ringVars, engineVars
<1>2. Pending' = Pending
  BY <1>1 DEF Pending
<1>3. locked' \in BOOLEAN
  BY DEF Ring, RingTypes
<1>4. Safety'
  <2>1. RingWindow' /\ WorkConserving' /\ EngineMatchesQueue'
    BY <1>1 DEF Ring, RingTypes, Safety, RingWindow, WorkConserving, EngineMatchesQueue
  <2>2. NoMotionWhileLocked'
    BY <1>1 DEF Ring, RingTypes, Safety, NoMotionWhileLocked
  <2>3. PendingIsFresh'
    BY <1>1, <1>2 DEF Ring, RingTypes, Safety, PendingIsFresh
  <2> QED BY <2>1, <2>2, <2>3 DEF Safety
<1> QED BY <1>1, <1>3, <1>4 DEF Ring, RingTypes

\* Steps that write no nid into a slot but 0, and otherwise only flags and
\* states, keep it safe: nothing in Safety looks at those.
LEMMA RingRelabelled ==
    ASSUME Ring, UNCHANGED <<plan_cur, plan_last, active_plan_len, engineVars, locked, sent, barrier>>,
           plan' \in [Slots -> Actions], plan_first' \in Slots, plan_len' \in Slots,
           \A i \in Slots : plan'[i].nid = plan[i].nid \/ plan'[i].nid = 0
    PROVE  Ring'
<1>1. UNCHANGED <<plan_cur, plan_last, active_plan_len, going, engine, locked, sent, barrier>>
  BY DEF engineVars
<1>2. Pending' = Pending
  BY <1>1 DEF Pending
<1>3. Pending \subseteq Slots
  BY WindowType DEF Ring, RingTypes, Pending
<1>4. Safety'
  <2>1. RingWindow' /\ WorkConserving' /\ EngineMatchesQueue' /\ NoMotionWhileLocked'
    BY <1>1 DEF Ring, RingTypes, Safety, RingWindow, WorkConserving, EngineMatchesQueue, NoMotionWhileLocked
  <2>2. PendingIsFresh'
    BY <1>1, <1>2, <1>3 DEF Ring, RingTypes, Safety, PendingIsFresh
  <2> QED BY <2>1, <2>2 DEF Safety
<1> QED BY <1>1, <1>4 DEF Ring, RingTypes

LEMMA AcceptKeepsRing ==
    ASSUME Inv, NEW type \in {"move", "tool"}, Accept(type)
    PROVE  Ring'
<1> DEFINE command == [nid |-> sent + 1, state |-> "queued", changed |-> FALSE, type |-> type]
           p == [plan EXCEPT ![plan_last] = command]
           last == At(plan_last, 1)
           len == plan_len + 1
           n == active_plan_len + 1
<1>1. /\ Ring /\ sent \in Nat /\ sent' = sent + 1 /\ locked = FALSE
      /\ plan_cur \in Slots /\ plan_last \in Slots /\ active_plan_len \in Nat
      /\ plan_last = At(plan_cur, active_plan_len)
      /\ barrier \in 0 .. sent /\ plan_first \in Slots /\ engine \in Slots
      /\ plan \in [Slots -> Actions]
  BY MaxNidAssumption DEF Inv, Ring, RingTypes, Rest, Safety, RingWindow, Accept
<1>2. last \in Slots /\ last = At(plan_cur, n)
  <2>1. plan_cur \in Int /\ plan_last \in Int /\ active_plan_len \in Int
    BY <1>1, QueueSizeAssumption DEF Slots
  <2>2. last \in Slots
    BY <2>1, AtType
  <2>3. At(At(plan_cur, active_plan_len), 1) = At(plan_cur, active_plan_len + 1)
    BY <2>1, AtAt
  <2> QED BY <1>1, <2>2, <2>3
<1>3. len \in Slots
  BY QueueSizeAssumption DEF Inv, Ring, RingTypes, Accept, EmptySlots, Slots
<1>4. command \in Actions
  BY <1>1 DEF Actions, ActionStates, ActionTypes
<1>5. /\ p \in [Slots -> Actions]
      /\ p[plan_last].nid = sent + 1
      /\ \A i \in Slots : i # plan_last => p[i] = plan[i]
  <2> HIDE DEF command
  <2>1. p \in [Slots -> Actions] /\ p[plan_last] = command
    BY <1>1, <1>4
  <2>2. \A i \in Slots : i # plan_last => p[i] = plan[i]
    BY <1>1
  <2>3. command.nid = sent + 1
    BY DEF command
  <2> QED BY <2>1, <2>2, <2>3
<1>6. \A i \in Window(plan_cur, n) : p[i].nid = 0 \/ p[i].nid > barrier
  <2>1. \A i \in Window(plan_cur, active_plan_len) :
            i \in Slots /\ (plan[i].nid = 0 \/ plan[i].nid > barrier)
    BY <1>1, WindowType DEF Ring, RingTypes, Safety, PendingIsFresh, Pending
  <2>2. Window(plan_cur, n) = Window(plan_cur, active_plan_len) \cup {plan_last}
    BY <1>1, WindowExtend
  <2>3. sent + 1 > barrier
    BY <1>1
  <2> HIDE DEF p
  <2> QED BY <1>5, <2>1, <2>2, <2>3
<1>7. CASE active_plan_len = 0
  <2>1. GetCmd(p, plan_cur, 1, last, len, going)
    BY <1>7 DEF Accept
  <2>2. going = FALSE
    BY <1>1, <1>7 DEF Ring, Safety, WorkConserving
  <2>3. n = 1 /\ sent' \in Nat /\ sent <= sent' /\ 1 \in Nat
    BY <1>1, <1>7
  <2> HIDE DEF p, last, len, n
  <2>4. CASE Halted(p)
    BY <1>1, <2>3, <2>4, HaltKeepsRing DEF Halted
  <2>5. ASSUME NEW k \in 0 .. 1, Moved(p, plan_cur, 1, k), plan_last' = last, plan_len' = len,
               k = 1 => (going' => going)
        PROVE  Ring'
    <3>1. k = 1 => going' = FALSE
      BY <2>2, <2>5 DEF Moved
    <3> QED BY <1>1, <1>2, <1>3, <1>5, <1>6, <2>3, <2>5, <3>1, MovedKeepsRing
  <2>6. going \in BOOLEAN /\ p \in [Slots -> Actions] /\ plan_cur \in Slots /\ 1 \in Nat
    BY <1>1, <1>5, <2>2, <2>3
  <2>7. \/ Halted(p)
        \/ \E k \in 0 .. 1 :
              /\ Moved(p, plan_cur, 1, k)
              /\ plan_last' = last
              /\ plan_len' = len
              /\ k = 1 => (going' => going)
    BY <2>1, <2>6, GetCmdEffect
  <2> QED BY <2>4, <2>5, <2>7
<1>8. CASE active_plan_len # 0
  <2>1. /\ plan' = p /\ plan_last' = last /\ plan_len' = len /\ active_plan_len' = n
        /\ UNCHANGED <<plan_first, plan_cur, going, engine, locked, barrier>>
    BY <1>1, <1>8 DEF Accept, engineVars
  <2>2. PendingIsFresh'
    <3> HIDE DEF p, n
    <3> QED BY <1>6, <2>1 DEF PendingIsFresh, Pending
  <2>3. RingWindow' /\ EngineMatchesQueue'
    BY <1>1, <1>2, <2>1 DEF Ring, RingTypes, Safety, RingWindow, EngineMatchesQueue
  <2>4. WorkConserving' /\ NoMotionWhileLocked'
    BY <1>1, <1>8, <2>1 DEF Ring, RingTypes, Safety, WorkConserving, NoMotionWhileLocked
  <2>5. Safety'
    BY <2>2, <2>3, <2>4 DEF Safety
  <2>6. barrier' \in 0 .. sent' /\ active_plan_len' \in Nat
    BY <1>1, <2>1
  <2> HIDE DEF p, last, len, n
  <2> QED BY <1>1, <1>2, <1>3, <1>5, <2>1, <2>5, <2>6 DEF Ring, RingTypes
<1> QED BY <1>7, <1>8

LEMMA ScanAdvances ==
    ASSUME scan \in Slots
    PROVE  scan + 1 \in Slots \cup {Nobody}
  BY QueueSizeAssumption DEF Slots, Nobody

LEMMA StepInv == Inv /\ [Next]_vars => Inv'
<1> SUFFICES ASSUME Inv, [Next]_vars
             PROVE  Inv'
  OBVIOUS
<1> USE DEF Inv
<1>0. sent \in Nat
  BY MaxNidAssumption DEF Rest
<1>1. CASE TickFinish
  <2>1. Ring'
    BY <1>0, <1>1, LineFinishedKeepsRing DEF TickFinish
  <2>2. Rest'
    BY <1>1 DEF TickFinish, modeVars, loopVars, Rest
  <2> QED BY <2>1, <2>2
<1>2. CASE TickTouch
  <2>1. Ring'
    <3>1. CASE fail_on_endstops
      <4>1. Halt(Mark(plan, plan_cur, "failed"))
        BY <1>2, <3>1 DEF TickTouch, EndstopsTouched
      <4>2. Mark(plan, plan_cur, "failed") \in [Slots -> Actions]
        BY MarkType DEF Ring, RingTypes, ActionStates
      <4>3. sent' \in Nat
        BY <1>0, <1>2 DEF TickTouch
      <4> QED BY <4>1, <4>2, <4>3, HaltKeepsRing DEF Ring, RingTypes
    <3>2. CASE ~fail_on_endstops
      <4>1. LineFinished /\ going /\ sent' = sent
        BY <1>2, <3>2 DEF TickTouch, EndstopsTouched
      <4> QED BY <1>0, <4>1, LineFinishedKeepsRing
    <3> QED BY <3>1, <3>2
  <2>2. Rest'
    BY <1>2 DEF TickTouch, modeVars, loopVars, Rest
  <2> QED BY <2>1, <2>2
<1>3. ASSUME NEW type \in {"move", "tool"}, Accept(type)
      PROVE  Inv'
  <2>1. Ring'
    BY <1>3, AcceptKeepsRing
  <2>2. UNCHANGED <<modeVars, loopVars, told>> /\ sent' = sent + 1 /\ sent < MaxNid
    BY <1>3 DEF Accept
  <2>3. sent' \in 0 .. MaxNid
    BY <1>0, <2>2, MaxNidAssumption
  <2>4. Rest'
    BY <2>2, <2>3 DEF modeVars, loopVars, Rest
  <2> QED BY <2>1, <2>4
<1>4. CASE PlannerLock
  <2>1. Ring'
    <3>1. 0 \in Slots
      BY QueueSizeAssumption DEF Slots
    <3>2. Mark(plan, 0, "finished") \in [Slots -> Actions]
      BY <3>1, MarkType DEF Ring, RingTypes, ActionStates
    <3>3. sent' \in Nat /\ Halt(Mark(plan, 0, "finished"))
      BY <1>0, <1>4 DEF PlannerLock
    <3> QED BY <3>2, <3>3, HaltKeepsRing DEF Ring, RingTypes
  <2>2. Rest'
    BY <1>4 DEF PlannerLock, modeVars, loopVars, Rest
  <2> QED BY <2>1, <2>2
<1>5. CASE PlannerUnlock
  <2>1. Ring'
    BY <1>5, RingUnchanged DEF PlannerUnlock
  <2>2. Rest'
    BY <1>5 DEF PlannerUnlock, modeVars, loopVars, Rest
  <2> QED BY <2>1, <2>2
<1>6. ASSUME NEW fail \in BOOLEAN, FailOnEndstops(fail)
      PROVE  Inv'
  <2>1. Ring'
    BY <1>6, RingUnchanged DEF FailOnEndstops
  <2>2. Rest'
    BY <1>6 DEF FailOnEndstops, loopVars, Rest
  <2> QED BY <2>1, <2>2
<1>7. CASE Configure
  <2>1. Ring'
    BY <1>7, RingUnchanged DEF Configure
  <2>2. Rest'
    BY <1>7 DEF Configure, loopVars, Rest
  <2> QED BY <2>1, <2>2
<1>8. CASE PreCalcBegin
  <2>1. Ring'
    BY <1>8, RingUnchanged DEF PreCalcBegin
  <2>2. calc' \in Slots
    BY <1>8, WindowType DEF PreCalcBegin, Pending, Ring, RingTypes
  <2>3. Rest'
    BY <1>8, <2>2 DEF PreCalcBegin, modeVars, Rest
  <2> QED BY <2>1, <2>3
<1>9. CASE PreCalcEnd
  <2>1. calc \in Slots
    BY <1>9 DEF PreCalcEnd, Rest
  <2>2. plan' \in [Slots -> Actions] /\ \A i \in Slots : plan'[i].nid = plan[i].nid
    BY <1>9, <2>1, MarkType DEF PreCalcEnd, Ring, RingTypes, ActionStates
  <2>3. Ring'
    BY <1>9, <2>2, RingRelabelled DEF PreCalcEnd, Ring, RingTypes
  <2>4. Rest'
    BY <1>9 DEF PreCalcEnd, modeVars, Rest
  <2> QED BY <2>3, <2>4
<1>10. CASE BeginReport
  <2>1. Ring'
    BY <1>10, RingUnchanged DEF BeginReport
  <2>2. scan' \in Slots /\ ~clearing'
    BY <1>10, QueueSizeAssumption DEF BeginReport, Rest, Slots, Nobody
  <2>3. Rest'
    BY <1>10, <2>2 DEF BeginReport, modeVars, Rest
  <2> QED BY <2>1, <2>3
<1>11. CASE ReportSlot
  <2>1. scan \in Slots /\ UNCHANGED <<engineVars, modeVars, calc, locked, sent, barrier>>
    BY <1>11 DEF ReportSlot, Rest
  <2>2. CASE plan[scan].state = "none" \/ ~plan[scan].changed
    <3>1. scan' = scan + 1 /\ UNCHANGED <<ringVars, clearing, told>> /\ ~clearing
      BY <1>11, <2>2 DEF ReportSlot
    <3>2. Ring'
      BY <2>1, <3>1, RingUnchanged
    <3>3. scan' \in Slots \cup {Nobody}
      BY <2>1, <3>1, ScanAdvances
    <3>4. Rest'
      BY <2>1, <3>1, <3>3 DEF modeVars, Rest
    <3> QED BY <3>2, <3>4
  <2>3. CASE ~(plan[scan].state = "none" \/ ~plan[scan].changed)
    <3>1. /\ clearing' = TRUE /\ UNCHANGED scan
          /\ \/ PopCmd /\ told' = told \cup {plan[scan].nid}
             \/ UNCHANGED <<ringVars, told>>
      BY <1>11, <2>3 DEF ReportSlot
    <3>2. told' \in SUBSET Nat
      <4>1. plan[scan].nid \in Nat
        BY <2>1 DEF Ring, RingTypes, Actions
      <4>2. told \in SUBSET Nat
        BY DEF Rest
      <4> QED BY <3>1, <4>1, <4>2 DEF PopCmd
    <3>3. Rest'
      BY <2>1, <3>1, <3>2 DEF modeVars, Rest
    <3>4. CASE UNCHANGED ringVars
      BY <2>1, <3>3, <3>4, RingUnchanged
    <3>5. CASE PopCmd /\ plan_len > 0
      <4>1. /\ plan' = [plan EXCEPT ![plan_first] = Blank]
            /\ plan_first' = At(plan_first, 1)
            /\ plan_len' = plan_len - 1
            /\ UNCHANGED <<plan_cur, plan_last, active_plan_len>>
        BY <3>5 DEF PopCmd
      <4>2. plan_first \in Int /\ plan_len - 1 \in Slots
        BY <3>5, QueueSizeAssumption DEF Ring, RingTypes, Slots
      <4>3. plan_first' \in Slots
        BY <4>1, <4>2, AtType
      <4>4. Blank \in Actions /\ Blank.nid = 0
        BY DEF Blank, Actions, ActionStates, ActionTypes
      <4>5. /\ plan' \in [Slots -> Actions]
            /\ \A i \in Slots : plan'[i].nid = plan[i].nid \/ plan'[i].nid = 0
        BY <4>1, <4>4 DEF Ring, RingTypes
      <4>6. Ring'
        BY <2>1, <4>1, <4>2, <4>3, <4>5, RingRelabelled
      <4> QED BY <3>3, <4>6
    <3>6. CASE PopCmd /\ ~(plan_len > 0)
      <4>1. UNCHANGED ringVars
        BY <3>6 DEF PopCmd, ringVars
      <4> QED BY <2>1, <3>3, <4>1, RingUnchanged
    <3> QED BY <3>1, <3>4, <3>5, <3>6
  <2> QED BY <2>2, <2>3
<1>12. CASE ReportClear
  <2>1. scan \in Slots
    BY <1>12 DEF ReportClear, Rest
  <2>2. plan' \in [Slots -> Actions] /\ \A i \in Slots : plan'[i].nid = plan[i].nid
    BY <1>12, <2>1 DEF ReportClear, Ring, RingTypes, Actions
  <2>3. Ring'
    BY <1>12, <2>2, RingRelabelled DEF ReportClear, Ring, RingTypes
  <2>4. scan' \in Slots \cup {Nobody}
    BY <1>12, <2>1, ScanAdvances DEF ReportClear
  <2>5. Rest'
    BY <1>12, <2>4 DEF ReportClear, modeVars, Rest
  <2> QED BY <2>3, <2>5
<1>13. CASE UNCHANGED vars
  <2>1. Ring'
    BY <1>13, RingUnchanged DEF vars
  <2>2. Rest'
    BY <1>13 DEF vars, modeVars, loopVars, Rest
  <2> QED BY <2>1, <2>2
<1> QED
  BY <1>1, <1>2, <1>3, <1>4, <1>5, <1>6, <1>7, <1>8, <1>9, <1>10, <1>11, <1>12, <1>13
     DEF Next, Tick

LEMMA Invariance == Spec => []Inv
  BY InitInv, StepInv, PTL DEF Spec

-----------------------------------------------------------------------------
(* Theorems                                                                 *)

\* The indices of planner.c stay inside the ring and plan_len leaves one place
\* free, for every ring size: empty_slots never goes below zero.
THEOREM TypeCorrect == Spec => []TypeOK
<1>1. Inv => TypeOK
  BY InvIsTypeOKAndSafety
<1> QED BY <1>1, Invariance, PTL

\* The slots to execute end where the next command is put.
THEOREM NoGapInRing == Spec => []RingWindow
<1>1. Inv => RingWindow
  BY DEF Inv, Ring, RingTypes, Safety
<1> QED BY <1>1, Invariance, PTL

\* The step timer runs exactly while there are slots to execute.
THEOREM NeverIdle == Spec => []WorkConserving
<1>1. Inv => WorkConserving
  BY DEF Inv, Ring, RingTypes, Safety
<1> QED BY <1>1, Invariance, PTL

\* planner_lock and a failing endstop stop the machine and empty the queue.
THEOREM LockStops == Spec => []NoMotionWhileLocked
<1>1. Inv => NoMotionWhileLocked
  BY DEF Inv, Ring, RingTypes, Safety
<1> QED BY <1>1, Invariance, PTL

\* The move being stepped is the current slot's.
THEOREM EngineInStep == Spec => []EngineMatchesQueue
<1>1. Inv => EngineMatchesQueue
  BY DEF Inv, Ring, RingTypes, Safety
<1> QED BY <1>1, Invariance, PTL

\* What was accepted before a lock is never executed after it.
THEOREM LockForgets == Spec => []PendingIsFresh
<1>1. Inv => PendingIsFresh
  BY DEF Inv, Ring, RingTypes, Safety
<1> QED BY <1>1, Invariance, PTL

=============================================================================
