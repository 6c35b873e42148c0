----------------------------- MODULE BoundedFifo -----------------------------
(***************************************************************************)
(* What a pipe promises: a queue of at most Capacity bytes.  A write takes *)
(* as many bytes as there is room for and says how many; a read returns    *)
(* the oldest bytes, as many as there are and at most max.  Each call is   *)
(* one step.                                                               *)
(***************************************************************************)
EXTENDS Integers, Sequences

CONSTANTS Capacity, Writes, Reads

VARIABLES queue,  \* the bytes in the pipe, oldest first
          ret     \* the result of the last call: a count and the bytes read

vars == <<queue, ret>>

Smaller(m, n) == IF m <= n THEN m ELSE n

Init ==
    /\ queue = <<>>
    /\ ret = [n |-> 0, bytes |-> <<>>]

Write(data) ==
    LET n == Smaller(Len(data), Capacity - Len(queue))
    IN  /\ queue' = queue \o SubSeq(data, 1, n)
        /\ ret' = [n |-> n, bytes |-> <<>>]

Read(max) ==
    LET n == Smaller(max, Len(queue))
    IN  /\ queue' = SubSeq(queue, n + 1, Len(queue))
        /\ ret' = [n |-> n, bytes |-> SubSeq(queue, 1, n)]

Next ==
    \/ \E data \in Writes : Write(data)
    \/ \E max \in Reads : Read(max)

Spec == Init /\ [][Next]_vars
=============================================================================
