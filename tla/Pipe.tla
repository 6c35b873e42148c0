-------------------------------- MODULE Pipe --------------------------------
(***************************************************************************)
(* The circular byte buffer of kernel/pipe.c.  pipe_write and pipe_read    *)
(* are loops over bytes: a call starts, takes one step per byte that it    *)
(* moves, and returns when its loop ends.  The calls come from system      *)
(* calls, which run with interrupts off, so they do not overlap.           *)
(***************************************************************************)
EXTENDS Integers, Sequences

CONSTANTS PIPE_BUF_SIZE,  \* bytes of the buffer (pipe.h:13)
          Byte,           \* the bytes that are written
          Writes,         \* what callers pass to pipe_write
          Reads           \* what callers pass to pipe_read as max

ASSUME PipeAssumption ==
    /\ PIPE_BUF_SIZE \in Nat \ {0}
    /\ 0 \in Byte
    /\ Writes \subseteq Seq(Byte)
    /\ Reads \subseteq Nat

VARIABLES buf, read_pos, write_pos, count,  \* the pipe_t
          call,   \* the call in progress and its locals
          ret     \* the result of the last call that returned

pipe == <<buf, read_pos, write_pos, count>>
vars == <<buf, read_pos, write_pos, count, call, ret>>

Positions == 0..(PIPE_BUF_SIZE - 1)

\* op is the function, data the bytes it was given or has put into out so
\* far, max its len or max and done its written or n.
Idle == [op |-> "none", data |-> <<>>, max |-> 0, done |-> 0]

\* pipe_init
Init ==
    /\ buf = [i \in Positions |-> 0]
    /\ read_pos = 0 /\ write_pos = 0 /\ count = 0
    /\ call = Idle
    /\ ret = [n |-> 0, bytes |-> <<>>]

-----------------------------------------------------------------------------

\* Mutant: the positions wrap one byte early.
Mut_Advance(pos) == (pos + 1) % (PIPE_BUF_SIZE - 1)

Advance(pos) == (pos + 1) % PIPE_BUF_SIZE

\* The condition of pipe_write's loop.
WriteGoesOn == call.done < call.max /\ count < PIPE_BUF_SIZE

pipe_write(data) ==
    /\ call = Idle
    /\ call' = [op |-> "write", data |-> data, max |-> Len(data), done |-> 0]
    /\ UNCHANGED <<pipe, ret>>

WriteByte ==
    /\ call.op = "write" /\ WriteGoesOn
    /\ buf' = [buf EXCEPT ![write_pos] = call.data[call.done + 1]]
    /\ write_pos' = Advance(write_pos)
    /\ count' = count + 1
    /\ call' = [call EXCEPT !.done = call.done + 1]
    /\ UNCHANGED <<read_pos, ret>>

WriteReturn ==
    /\ call.op = "write" /\ ~ WriteGoesOn
    /\ ret' = [n |-> call.done, bytes |-> <<>>]
    /\ call' = Idle
    /\ UNCHANGED pipe

\* The condition of pipe_read's loop.
ReadGoesOn == call.done < call.max /\ count > 0

pipe_read(max) ==
    /\ call = Idle
    /\ call' = [op |-> "read", data |-> <<>>, max |-> max, done |-> 0]
    /\ UNCHANGED <<pipe, ret>>

ReadByte ==
    /\ call.op = "read" /\ ReadGoesOn
    /\ read_pos' = Advance(read_pos)
    /\ count' = count - 1
    /\ call' = [call EXCEPT !.data = Append(call.data, buf[read_pos]),
                            !.done = call.done + 1]
    /\ UNCHANGED <<buf, write_pos, ret>>

ReadReturn ==
    /\ call.op = "read" /\ ~ ReadGoesOn
    /\ ret' = [n |-> call.done, bytes |-> call.data]
    /\ call' = Idle
    /\ UNCHANGED pipe

Next ==
    \/ \E data \in Writes : pipe_write(data)
    \/ \E max \in Reads : pipe_read(max)
    \/ WriteByte \/ WriteReturn
    \/ ReadByte \/ ReadReturn

Spec == Init /\ [][Next]_vars

-----------------------------------------------------------------------------
(* Properties.                                                              *)

\* The positions index the buffer and the count never passes its size.
TypeOK ==
    /\ buf \in [Positions -> Byte]
    /\ read_pos \in Positions /\ write_pos \in Positions
    /\ count \in 0..PIPE_BUF_SIZE
    /\ call \in [op : {"none", "write", "read"}, data : Seq(Byte), max : Nat, done : Nat]
    /\ ret \in [n : Nat, bytes : Seq(Byte)]

\* The c bytes of b from position r on, around the end of the buffer.
Ring(b, r, c) == [i \in 1..c |-> b[(r + (i - 1)) % PIPE_BUF_SIZE]]

\* The bytes between read_pos and write_pos, oldest first.
Stored == Ring(buf, read_pos, count)

\* The bytes of the queue when the call in progress has not taken effect yet:
\* without those a write has stored, with those a read has taken out.
Queue ==
    CASE call.op = "write" -> SubSeq(Stored, 1, count - call.done)
      [] call.op = "read"  -> call.data \o Stored
      [] OTHER             -> Stored

Fifo == INSTANCE BoundedFifo WITH Capacity <- PIPE_BUF_SIZE, queue <- Queue

\* The pipe is a bounded FIFO queue whose calls are atomic: across wrap-around,
\* short writes and short reads no byte is lost, repeated or reordered, and
\* the counts returned are right (pipe.c:20-25, 32-36).
IsFifo == Fifo!Spec
=============================================================================
