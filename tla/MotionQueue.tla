----------------------------- MODULE MotionQueue -----------------------------
(****************************************************************************)
(* What the planner promises the host: commands wait in the order they were *)
(* accepted, leave the queue from its head and never come back; none        *)
(* survives a lock, and while it is locked there is none.  The promise      *)
(* leaves one thing open, because the code does: a waiting command may lose *)
(* its contents (see Void).                                                 *)
(*                                                                          *)
(* planner.c has no such queue; Planner!Queue reads it off the ring.        *)
(****************************************************************************)
EXTENDS Naturals, Sequences

VARIABLES
    queue,     \* nids of the commands to execute, head first; 0: contents lost
    newest,    \* nid of the newest accepted command
    locked     \* no command is accepted or executed

qvars == <<queue, newest, locked>>

Init ==
    /\ queue = <<>>
    /\ newest = 0
    /\ locked = TRUE

\* A command is accepted and waits, or is the first to run.
Accept ==
    /\ ~locked
    /\ newest' = newest + 1
    /\ queue' = Append(queue, newest')
    /\ UNCHANGED locked

\* A command is accepted into an empty queue and is over at once.
Serve ==
    /\ ~locked
    /\ queue = <<>>
    /\ newest' = newest + 1
    /\ UNCHANGED <<queue, locked>>

\* The command at the head ends, and some after it that are over at once.
Advance ==
    /\ \E k \in 1 .. Len(queue) : queue' = SubSeq(queue, k + 1, Len(queue))
    /\ UNCHANGED <<newest, locked>>

\* The planner locks, perhaps on a command it has only just accepted.
Discard ==
    /\ queue' = <<>>
    /\ locked' = TRUE
    /\ newest' = newest \/ (~locked /\ newest' = newest + 1)

Unlock ==
    /\ locked' = FALSE
    /\ UNCHANGED <<queue, newest>>

\* The contents of a command are lost, its place is not.
Void ==
    /\ \E i \in 1 .. Len(queue) : queue' = [queue EXCEPT ![i] = 0]
    /\ UNCHANGED <<newest, locked>>

Next == Accept \/ Serve \/ Advance \/ Discard \/ Unlock \/ Void

Spec == Init /\ [][Next]_qvars

-----------------------------------------------------------------------------

TypeOK ==
    /\ queue \in Seq(Nat)
    /\ newest \in Nat
    /\ locked \in BOOLEAN

\* The commands waiting are in the order they were accepted in, and were
\* accepted.
InOrder ==
    /\ \A i \in 1 .. Len(queue) : queue[i] <= newest
    /\ \A i, j \in 1 .. Len(queue) : i < j /\ queue[j] # 0 => queue[i] < queue[j]

\* A command that is not in the queue, though its number has been given out,
\* does not come back: commands are executed at most once.
Holds(nid) == \E i \in 1 .. Len(queue) : queue[i] = nid

AtMostOnce == [][\A nid \in 1 .. newest : ~Holds(nid) => ~Holds(nid)']_qvars

=============================================================================
