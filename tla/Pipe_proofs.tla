----------------------------- MODULE Pipe_proofs -----------------------------
(***************************************************************************)
(* The pipe implements a bounded FIFO queue, for every size of the buffer  *)
(* and every sequence of calls.                                            *)
(***************************************************************************)
EXTENDS Pipe, TLAPS

\* The call in progress: a write has stored the first call.done bytes of its
\* data behind what was there, a read holds what it has taken out.
Writing ==
    /\ call.data \in Writes
    /\ call.max = Len(call.data)
    /\ call.done <= call.max
    /\ call.done <= count
    /\ \A i \in 1..call.done : Stored[count - call.done + i] = call.data[i]

Reading ==
    /\ call.max \in Reads
    /\ call.done = Len(call.data)
    /\ call.done <= call.max
    /\ call.done + count <= PIPE_BUF_SIZE

\* The inductive invariant: the positions are count apart, and the call in
\* progress is as described above.
IInv ==
    /\ TypeOK
    /\ write_pos = (read_pos + count) % PIPE_BUF_SIZE
    /\ call.op = "none" => call = Idle
    /\ call.op = "write" => Writing
    /\ call.op = "read" => Reading

-----------------------------------------------------------------------------

\* Once around the ring: what % is below twice the size of the buffer.
LEMMA Wrapped ==
    ASSUME NEW N \in Nat \ {0}, NEW x \in 0..(2 * N - 1)
    PROVE  x % N = IF x < N THEN x ELSE x - N
<1>1. CASE x < N
  BY <1>1, SMTT(30)
<1>2. CASE x >= N
  BY <1>2, SMTT(30)
<1> QED BY <1>1, <1>2

\* The position behind k bytes from position p, and the one after it.
LEMMA Positioned ==
    ASSUME NEW p \in Positions, NEW k \in 0..PIPE_BUF_SIZE
    PROVE  /\ (p + k) % PIPE_BUF_SIZE \in Positions
           /\ (p + k) % PIPE_BUF_SIZE =
                 IF p + k < PIPE_BUF_SIZE THEN p + k ELSE p + k - PIPE_BUF_SIZE
<1> DEFINE x == p + k
<1>1. PIPE_BUF_SIZE \in Nat \ {0} /\ x \in 0..(2 * PIPE_BUF_SIZE - 1)
  BY PipeAssumption DEF Positions
<1>2. x % PIPE_BUF_SIZE = IF x < PIPE_BUF_SIZE THEN x ELSE x - PIPE_BUF_SIZE
  <2> HIDE DEF x
  <2> QED BY <1>1, Wrapped
<1> QED BY <1>1, <1>2 DEF Positions

\* An index advanced by one stays in the ring.
LEMMA Advanced ==
    ASSUME NEW p \in Positions
    PROVE  /\ Advance(p) \in Positions
           /\ Advance(p) = IF p + 1 < PIPE_BUF_SIZE THEN p + 1 ELSE p + 1 - PIPE_BUF_SIZE
<1>1. 1 \in 0..PIPE_BUF_SIZE
  BY PipeAssumption
<1> QED BY <1>1, Positioned DEF Advance

\* The c bytes from r on are a sequence of c bytes.
LEMMA RingBytes ==
    ASSUME NEW b \in [Positions -> Byte], NEW r \in Positions, NEW c \in 0..PIPE_BUF_SIZE
    PROVE  /\ Ring(b, r, c) \in Seq(Byte)
           /\ Len(Ring(b, r, c)) = c
           /\ \A i \in 1..c : Ring(b, r, c)[i] = b[(r + (i - 1)) % PIPE_BUF_SIZE]
<1>1. c \in Nat
  BY PipeAssumption
<1>2. \A i \in 1..c : (r + (i - 1)) % PIPE_BUF_SIZE \in Positions
  BY Positioned, PipeAssumption
<1>3. Ring(b, r, c) \in [1..c -> Byte]
  BY <1>2 DEF Ring
<1> QED BY <1>1, <1>3 DEF Ring

-----------------------------------------------------------------------------

\* The fresh pipe satisfies the invariant.
THEOREM InitIInv == Init => IInv
<1> SUFFICES ASSUME Init PROVE IInv
  OBVIOUS
<1>1. TypeOK
  BY PipeAssumption DEF Init, TypeOK, Positions, Idle
<1>2. (0 + 0) % PIPE_BUF_SIZE = 0
  BY Positioned, PipeAssumption DEF Positions
<1> QED BY <1>1, <1>2, PipeAssumption DEF Init, IInv, Idle

\* A byte written: the bytes that were stored stay, the new one is the last.
LEMMA ByteWritten ==
    ASSUME IInv, WriteByte
    PROVE  /\ IInv'
           /\ \A i \in 1..count : Stored'[i] = Stored[i]
<1> USE PipeAssumption
<1>1. call.data \in Seq(Byte) /\ call.done + 1 \in 1..Len(call.data)
  BY DEF IInv, Writing, WriteByte, WriteGoesOn, TypeOK
<1>2. call.data[call.done + 1] \in Byte
  BY <1>1
<1>3. /\ write_pos \in Positions /\ read_pos \in Positions
      /\ count \in 0..PIPE_BUF_SIZE /\ count + 1 \in 0..PIPE_BUF_SIZE
      /\ Advance(write_pos) \in Positions
  BY Advanced DEF IInv, TypeOK, WriteByte, WriteGoesOn
<1>4. call' = [op |-> "write", data |-> call.data, max |-> call.max, done |-> call.done + 1]
  BY DEF WriteByte, IInv, TypeOK
<1>5. TypeOK'
  <2>1. call' \in [op : {"none", "write", "read"}, data : Seq(Byte), max : Nat, done : Nat]
    BY <1>4 DEF IInv, TypeOK
  <2>2. buf' \in [Positions -> Byte]
    BY <1>2 DEF IInv, TypeOK, WriteByte
  <2>3. read_pos' \in Positions /\ write_pos' \in Positions /\ count' \in 0..PIPE_BUF_SIZE
    BY <1>3 DEF WriteByte
  <2>4. ret' \in [n : Nat, bytes : Seq(Byte)]
    BY DEF IInv, TypeOK, WriteByte
  <2> QED BY <2>1, <2>2, <2>3, <2>4 DEF TypeOK
<1>6. Advance(write_pos) = (read_pos + (count + 1)) % PIPE_BUF_SIZE
  <2>1. write_pos = IF read_pos + count < PIPE_BUF_SIZE
                      THEN read_pos + count ELSE read_pos + count - PIPE_BUF_SIZE
    BY <1>3, Positioned DEF IInv, Positions
  <2>2. Advance(write_pos) = IF write_pos + 1 < PIPE_BUF_SIZE
                               THEN write_pos + 1 ELSE write_pos + 1 - PIPE_BUF_SIZE
    BY <1>3, Advanced
  <2>3. (read_pos + (count + 1)) % PIPE_BUF_SIZE =
           IF read_pos + (count + 1) < PIPE_BUF_SIZE
             THEN read_pos + (count + 1) ELSE read_pos + (count + 1) - PIPE_BUF_SIZE
    BY <1>3, Positioned DEF Positions
  <2> QED BY <2>1, <2>2, <2>3, <1>3 DEF Positions
<1>7. write_pos' = (read_pos' + count') % PIPE_BUF_SIZE
  BY <1>6 DEF WriteByte
<1>8. \A i \in 1..count : Stored'[i] = Stored[i]
  <2> SUFFICES ASSUME NEW i \in 1..count PROVE Stored'[i] = Stored[i]
    OBVIOUS
  <2>1. (read_pos + (i - 1)) % PIPE_BUF_SIZE # write_pos
    <3>1. (read_pos + (i - 1)) % PIPE_BUF_SIZE =
             IF read_pos + (i - 1) < PIPE_BUF_SIZE
               THEN read_pos + (i - 1) ELSE read_pos + (i - 1) - PIPE_BUF_SIZE
      BY <1>3, Positioned
    <3>2. write_pos = IF read_pos + count < PIPE_BUF_SIZE
                        THEN read_pos + count ELSE read_pos + count - PIPE_BUF_SIZE
      BY <1>3, Positioned DEF IInv
    <3> QED BY <3>1, <3>2, <1>3 DEF Positions
  <2>2. (read_pos + (i - 1)) % PIPE_BUF_SIZE \in Positions
    BY <1>3, Positioned
  <2>3. Stored[i] = buf[(read_pos + (i - 1)) % PIPE_BUF_SIZE]
    BY <1>3 DEF Stored, Ring
  <2>4. Stored'[i] = buf'[(read_pos + (i - 1)) % PIPE_BUF_SIZE]
    BY <1>3 DEF Stored, Ring, WriteByte
  <2> QED BY <2>1, <2>2, <2>3, <2>4 DEF WriteByte, IInv, TypeOK
<1>9. Stored'[count + 1] = call.data[call.done + 1]
  <2>1. Stored'[count + 1] = buf'[(read_pos + count) % PIPE_BUF_SIZE]
    BY <1>3 DEF Stored, Ring, WriteByte
  <2> QED BY <2>1, <1>3 DEF WriteByte, IInv, TypeOK
<1>10. Writing'
  <2>1. \A i \in 1..call.done + 1 : Stored'[count + 1 - (call.done + 1) + i] = call.data[i]
    <3> SUFFICES ASSUME NEW i \in 1..call.done + 1
                 PROVE  Stored'[count + 1 - (call.done + 1) + i] = call.data[i]
      OBVIOUS
    <3>1. /\ call.done \in Nat /\ call.done <= count /\ count \in Nat
          /\ \A k \in 1..call.done : Stored[count - call.done + k] = call.data[k]
      BY DEF IInv, TypeOK, Writing, WriteByte
    <3>2. CASE i = call.done + 1
      <4>1. count + 1 - (call.done + 1) + i = count + 1
        BY <3>1, <3>2
      <4> QED BY <4>1, <3>2, <1>9
    <3>3. CASE i \in 1..call.done
      <4>1. /\ count + 1 - (call.done + 1) + i = count - call.done + i
            /\ count - call.done + i \in 1..count
        BY <3>1, <3>3
      <4> QED BY <4>1, <3>1, <3>3, <1>8
    <3> QED BY <3>1, <3>2, <3>3
  <2>2. count' = count + 1
    BY DEF WriteByte
  <2>3. /\ call.data \in Writes /\ call.max = Len(call.data)
        /\ call.done + 1 <= call.max /\ call.done + 1 <= count + 1
    BY <1>1, <1>3 DEF IInv, TypeOK, Writing, WriteByte
  <2>4. /\ call'.done = call.done + 1 /\ call'.data = call.data /\ call'.max = call.max
    BY <1>4
  <2>5. \A i \in 1..call'.done : Stored'[count' - call'.done + i] = call'.data[i]
    <3> SUFFICES ASSUME NEW i \in 1..call'.done
                 PROVE  Stored'[count' - call'.done + i] = call'.data[i]
      OBVIOUS
    <3>1. i \in 1..call.done + 1
      BY <2>4
    <3>2. count' - call'.done + i = count + 1 - (call.done + 1) + i
      <4>1. count \in Nat /\ call.done \in Nat
        BY DEF IInv, TypeOK
      <4>2. count' - call'.done = (count + 1) - (call.done + 1)
        BY <2>2, <2>4
      <4> QED BY <4>1, <4>2
    <3>3. Stored'[count + 1 - (call.done + 1) + i] = call.data[i]
      BY <2>1, <3>1
    <3> QED BY <2>4, <3>2, <3>3
  <2> QED BY <2>2, <2>3, <2>4, <2>5 DEF Writing
<1> QED BY <1>5, <1>7, <1>8, <1>4, <1>10 DEF IInv

\* A byte read: it is the oldest one stored, and the others move up by one.
LEMMA ByteRead ==
    ASSUME IInv, ReadByte
    PROVE  /\ IInv'
           /\ call'.data \o Stored' = call.data \o Stored
<1> USE PipeAssumption
<1>1. /\ read_pos \in Positions /\ write_pos \in Positions
      /\ count \in 1..PIPE_BUF_SIZE
      /\ count \in 0..PIPE_BUF_SIZE /\ count - 1 \in 0..PIPE_BUF_SIZE
      /\ call.data \in Seq(Byte) /\ buf \in [Positions -> Byte]
  BY DEF IInv, TypeOK, ReadByte, ReadGoesOn, Positions
<1>2. /\ call' = [op |-> "read", data |-> Append(call.data, buf[read_pos]),
                  max |-> call.max, done |-> call.done + 1]
      /\ buf[read_pos] \in Byte
  BY <1>1 DEF ReadByte, IInv, TypeOK
<1>3. Advance(read_pos) \in Positions
  BY <1>1, Advanced
<1>4. TypeOK'
  <2>1. call' \in [op : {"none", "write", "read"}, data : Seq(Byte), max : Nat, done : Nat]
    <3>1. Append(call.data, buf[read_pos]) \in Seq(Byte)
      BY <1>1, <1>2
    <3> QED BY <3>1, <1>2 DEF IInv, TypeOK
  <2>2. read_pos' \in Positions /\ write_pos' \in Positions /\ count' \in 0..PIPE_BUF_SIZE
    BY <1>1, <1>3 DEF ReadByte
  <2>3. ret' \in [n : Nat, bytes : Seq(Byte)] /\ buf' \in [Positions -> Byte]
    BY DEF IInv, TypeOK, ReadByte
  <2> QED BY <2>1, <2>2, <2>3 DEF TypeOK
<1>5. Advance(read_pos) = IF read_pos + 1 < PIPE_BUF_SIZE
                            THEN read_pos + 1 ELSE read_pos + 1 - PIPE_BUF_SIZE
  BY <1>1, Advanced
<1>6. write_pos' = (read_pos' + count') % PIPE_BUF_SIZE
  <2>1. write_pos = IF read_pos + count < PIPE_BUF_SIZE
                      THEN read_pos + count ELSE read_pos + count - PIPE_BUF_SIZE
    BY <1>1, Positioned DEF IInv
  <2>2. (Advance(read_pos) + (count - 1)) % PIPE_BUF_SIZE =
           IF Advance(read_pos) + (count - 1) < PIPE_BUF_SIZE
             THEN Advance(read_pos) + (count - 1)
             ELSE Advance(read_pos) + (count - 1) - PIPE_BUF_SIZE
    BY <1>1, <1>3, Positioned
  <2>3. /\ write_pos' = write_pos
        /\ (read_pos' + count') % PIPE_BUF_SIZE
              = (Advance(read_pos) + (count - 1)) % PIPE_BUF_SIZE
    BY DEF ReadByte
  <2>4. (Advance(read_pos) + (count - 1)) % PIPE_BUF_SIZE = write_pos
    BY <2>1, <2>2, <1>1, <1>5 DEF Positions
  <2> QED BY <2>3, <2>4
<1>7. Reading'
  <2>1. /\ call.max \in Reads /\ call.done = Len(call.data)
        /\ call.done < call.max /\ call.done + count <= PIPE_BUF_SIZE
    BY DEF IInv, Reading, ReadByte, ReadGoesOn
  <2>2. count' = count - 1 /\ Len(Append(call.data, buf[read_pos])) = call.done + 1
    BY <1>1, <1>2, <2>1 DEF ReadByte
  <2>3. call.done \in Nat /\ call.max \in Nat
    BY DEF IInv, TypeOK
  <2> QED BY <2>1, <2>2, <2>3, <1>1, <1>2 DEF Reading
<1>8. /\ Stored \in Seq(Byte) /\ Len(Stored) = count
      /\ \A i \in 1..count : Stored[i] = buf[(read_pos + (i - 1)) % PIPE_BUF_SIZE]
  BY <1>1, RingBytes DEF Stored
<1>9. /\ Stored' \in Seq(Byte) /\ Len(Stored') = count - 1
      /\ \A i \in 1..(count - 1) :
            Stored'[i] = buf[(Advance(read_pos) + (i - 1)) % PIPE_BUF_SIZE]
  BY <1>1, <1>3, RingBytes DEF Stored, ReadByte
<1>10. \A i \in 1..(count - 1) : Stored'[i] = Stored[i + 1]
  <2> SUFFICES ASSUME NEW i \in 1..(count - 1) PROVE Stored'[i] = Stored[i + 1]
    OBVIOUS
  <2>1. (Advance(read_pos) + (i - 1)) % PIPE_BUF_SIZE =
           IF Advance(read_pos) + (i - 1) < PIPE_BUF_SIZE
             THEN Advance(read_pos) + (i - 1)
             ELSE Advance(read_pos) + (i - 1) - PIPE_BUF_SIZE
    BY <1>1, <1>3, Positioned
  <2>2. (read_pos + ((i + 1) - 1)) % PIPE_BUF_SIZE =
           IF read_pos + i < PIPE_BUF_SIZE THEN read_pos + i
             ELSE read_pos + i - PIPE_BUF_SIZE
    BY <1>1, Positioned
  <2>3. (Advance(read_pos) + (i - 1)) % PIPE_BUF_SIZE
           = (read_pos + ((i + 1) - 1)) % PIPE_BUF_SIZE
    BY <2>1, <2>2, <1>1, <1>5 DEF Positions
  <2>4. Stored[i + 1] = buf[(read_pos + ((i + 1) - 1)) % PIPE_BUF_SIZE]
    BY <1>1, <1>8
  <2> QED BY <2>3, <2>4, <1>9
<1>11. Stored[1] = buf[read_pos]
  <2>1. (read_pos + (1 - 1)) % PIPE_BUF_SIZE = read_pos
    <3>1. 1 - 1 \in 0..PIPE_BUF_SIZE
      OBVIOUS
    <3>2. (read_pos + (1 - 1)) % PIPE_BUF_SIZE =
            IF read_pos + (1 - 1) < PIPE_BUF_SIZE
              THEN read_pos + (1 - 1) ELSE read_pos + (1 - 1) - PIPE_BUF_SIZE
      BY <3>1, <1>1, Positioned
    <3> QED BY <3>2, <1>1 DEF Positions
  <2> QED BY <2>1, <1>1, <1>8
<1>12. Append(call.data, buf[read_pos]) \o Stored' = call.data \o Stored
  <2> DEFINE d == call.data
             x == buf[read_pos]
             t == Stored'
             s == Stored
  <2>1. /\ d \in Seq(Byte) /\ x \in Byte /\ s \in Seq(Byte) /\ t \in Seq(Byte)
        /\ Len(s) = Len(t) + 1 /\ s[1] = x
        /\ \A i \in 1..Len(t) : t[i] = s[i + 1]
    BY <1>1, <1>2, <1>8, <1>9, <1>10, <1>11
  <2> HIDE DEF d, x, s, t
  <2>2. Append(d, x) \o t \in Seq(Byte) /\ d \o s \in Seq(Byte)
    BY <2>1
  <2> DEFINE e == Append(d, x)
  <2>3. /\ e \in Seq(Byte) /\ Len(e) = Len(d) + 1 /\ e[Len(d) + 1] = x
        /\ \A i \in 1..Len(d) : e[i] = d[i]
    BY <2>1
  <2>4. /\ Len(d) \in Nat /\ Len(t) \in Nat
        /\ Len(e \o t) = Len(d) + 1 + Len(t) /\ Len(d \o s) = Len(d) + 1 + Len(t)
    <3> HIDE DEF e
    <3>1. Len(e \o t) = Len(e) + Len(t) /\ Len(d \o s) = Len(d) + Len(s)
      <4>1. e \in Seq(Byte) /\ t \in Seq(Byte) /\ d \in Seq(Byte) /\ s \in Seq(Byte)
        BY <2>1, <2>3
      <4> QED BY <4>1
    <3>2. Len(d) \in Nat /\ Len(t) \in Nat
      BY <2>1
    <3> QED BY <3>1, <3>2, <2>1, <2>3
  <2>5. Len(e \o t) = Len(d \o s)
    BY <2>4
  <2>6. \A i \in 1..Len(d \o s) : (e \o t)[i] = (d \o s)[i]
    <3> SUFFICES ASSUME NEW i \in 1..(Len(d) + 1 + Len(t)) PROVE (e \o t)[i] = (d \o s)[i]
      BY <2>4
    <3>1. CASE i <= Len(d)
      BY <3>1, <2>1, <2>3, <2>4 DEF e
    <3>2. CASE i = Len(d) + 1
      BY <3>2, <2>1, <2>3, <2>4 DEF e
    <3>3. CASE i > Len(d) + 1
      <4>1. (e \o t)[i] = t[i - Len(e)]
        BY <3>3, <2>1, <2>3, <2>4
      <4>2. (d \o s)[i] = s[i - Len(d)]
        BY <3>3, <2>1, <2>4
      <4>3. i - Len(e) \in 1..Len(t) /\ (i - Len(e)) + 1 = i - Len(d)
        BY <3>3, <2>3, <2>4
      <4> QED BY <4>1, <4>2, <4>3, <2>1
    <3> QED BY <3>1, <3>2, <3>3, <2>4
  <2>7. Append(d, x) \o t = d \o s
    BY <2>2, <2>5, <2>6
  <2> QED BY <2>7 DEF d, x, s, t
<1> QED BY <1>2, <1>4, <1>6, <1>7, <1>12 DEF IInv
-----------------------------------------------------------------------------
(* The invariant.                                                           *)

\* A call that starts or returns leaves the pipe_t alone.
LEMMA NextIInv == IInv /\ [Next]_vars => IInv'
<1> SUFFICES ASSUME IInv, [Next]_vars PROVE IInv'
  OBVIOUS
<1> USE PipeAssumption
<1>1. ASSUME NEW data \in Writes, pipe_write(data) PROVE IInv'
  <2>1. /\ call' = [op |-> "write", data |-> data, max |-> Len(data), done |-> 0]
        /\ UNCHANGED <<buf, read_pos, write_pos, count, ret>>
        /\ data \in Seq(Byte) /\ Len(data) \in Nat
    BY <1>1 DEF pipe_write, pipe
  <2>2. TypeOK'
    BY <2>1 DEF IInv, TypeOK
  <2>3. Writing'
    BY <2>1 DEF Writing, IInv, TypeOK
  <2> QED BY <2>1, <2>2, <2>3 DEF IInv
<1>2. ASSUME NEW max \in Reads, pipe_read(max) PROVE IInv'
  <2>1. /\ call' = [op |-> "read", data |-> <<>>, max |-> max, done |-> 0]
        /\ UNCHANGED <<buf, read_pos, write_pos, count, ret>>
        /\ max \in Nat /\ <<>> \in Seq(Byte) /\ Len(<<>>) = 0
    BY <1>2 DEF pipe_read, pipe
  <2>2. TypeOK'
    BY <2>1 DEF IInv, TypeOK
  <2>3. Reading'
    BY <2>1 DEF Reading, IInv, TypeOK
  <2> QED BY <2>1, <2>2, <2>3 DEF IInv
<1>3. CASE WriteByte
  BY <1>3, ByteWritten
<1>4. CASE ReadByte
  BY <1>4, ByteRead
<1>5. CASE WriteReturn \/ ReadReturn
  <2>1. /\ call' = Idle /\ UNCHANGED <<buf, read_pos, write_pos, count>>
        /\ Idle \in [op : {"none", "write", "read"}, data : Seq(Byte), max : Nat, done : Nat]
        /\ Idle.op = "none"
    BY <1>5 DEF WriteReturn, ReadReturn, pipe, Idle
  <2>2. ret' \in [n : Nat, bytes : Seq(Byte)]
    <3>1. call.done \in Nat /\ call.data \in Seq(Byte) /\ <<>> \in Seq(Byte)
      BY DEF IInv, TypeOK
    <3>2. \/ ret' = [n |-> call.done, bytes |-> <<>>]
          \/ ret' = [n |-> call.done, bytes |-> call.data]
      BY <1>5 DEF WriteReturn, ReadReturn
    <3>3. \A k \in Nat, b \in Seq(Byte) :
             [n |-> k, bytes |-> b] \in [n : Nat, bytes : Seq(Byte)]
      OBVIOUS
    <3> QED BY <3>1, <3>2, <3>3, Zenon
  <2>3. TypeOK'
    BY <2>1, <2>2 DEF IInv, TypeOK
  <2> QED BY <2>1, <2>3 DEF IInv
<1>6. CASE UNCHANGED vars
  BY <1>6 DEF vars, IInv, TypeOK, Writing, Reading, Stored
<1> QED BY <1>1, <1>2, <1>3, <1>4, <1>5, <1>6 DEF Next

\* The invariant holds after every byte that pipe_write and pipe_read move.
THEOREM Invariance == Spec => []IInv
BY InitIInv, NextIInv, PTL DEF Spec

\* The count never passes the size of the buffer and the positions stay in
\* it, whatever is written and read (pipe.c:20-25, 32-36).
THEOREM TypeCorrect == Spec => []TypeOK
<1>1. IInv => TypeOK
  BY DEF IInv
<1> QED BY <1>1, Invariance, PTL

-----------------------------------------------------------------------------
(* The refinement.                                                          *)

\* The bytes that a write in progress has not added: a prefix of the ring.
LEMMA QueueWriting ==
    ASSUME IInv, call.op = "write"
    PROVE  /\ Queue = SubSeq(Stored, 1, count - call.done)
           /\ Queue \in Seq(Byte)
           /\ Len(Queue) = count - call.done
           /\ \A i \in 1..(count - call.done) : Queue[i] = Stored[i]
<1>1. Stored \in Seq(Byte) /\ Len(Stored) = count
  BY RingBytes DEF Stored, IInv, TypeOK
<1>2. count \in Nat /\ call.done \in 0..count
  BY DEF IInv, TypeOK, Writing
<1>3. Queue = SubSeq(Stored, 1, count - call.done)
  BY DEF Queue
<1> QED BY <1>1, <1>2, <1>3

\* The fresh pipe is the empty queue.
LEMMA InitRefines == Init => Fifo!Init
<1> SUFFICES ASSUME Init PROVE Fifo!Init
  OBVIOUS
<1>1. Queue = Stored
  BY DEF Init, Queue, Idle
<1>2. Stored = <<>>
  BY DEF Init, Stored, Ring
<1> QED BY <1>1, <1>2 DEF Init, Fifo!Init

\* The return of a write is the atomic write of the abstract queue.
LEMMA WriteRefines ==
    ASSUME IInv, WriteReturn
    PROVE  Fifo!Write(call.data) /\ call.data \in Writes
<1> USE PipeAssumption
<1> DEFINE d == call.data
           n == call.done
           q == Queue
           s == Stored
<1>1. /\ d \in Seq(Byte) /\ n \in 0..Len(d) /\ n \in 0..count
      /\ count \in 0..PIPE_BUF_SIZE /\ (n = Len(d) \/ count = PIPE_BUF_SIZE)
      /\ d \in Writes
      /\ \A i \in 1..n : s[count - n + i] = d[i]
  BY DEF IInv, TypeOK, Writing, WriteReturn, WriteGoesOn
<1>2. /\ s \in Seq(Byte) /\ Len(s) = count
  BY RingBytes DEF Stored, IInv, TypeOK
<1>3. /\ q \in Seq(Byte) /\ Len(q) = count - n
      /\ \A i \in 1..(count - n) : q[i] = s[i]
  BY QueueWriting DEF WriteReturn
<1>4. Queue' = s /\ ret' = [n |-> n, bytes |-> <<>>]
  BY DEF WriteReturn, Queue, Stored, Idle, pipe
<1> HIDE DEF d, n, q, s
<1>5. Fifo!Smaller(Len(d), PIPE_BUF_SIZE - Len(q)) = n
  BY <1>1, <1>3 DEF Fifo!Smaller
<1>6. s = q \o SubSeq(d, 1, n)
  <2> DEFINE e == SubSeq(d, 1, n)
  <2>1. /\ e \in Seq(Byte) /\ Len(e) = n /\ \A i \in 1..n : e[i] = d[i]
    BY <1>1
  <2> HIDE DEF e
  <2>2. q \o e \in Seq(Byte) /\ Len(q \o e) = Len(q) + Len(e)
    BY <1>3, <2>1
  <2>3. Len(q \o e) = Len(s) /\ Len(q) = count - n
    BY <2>1, <2>2, <1>1, <1>2, <1>3
  <2>4. \A i \in 1..count : (q \o e)[i] = s[i]
    <3> SUFFICES ASSUME NEW i \in 1..count PROVE (q \o e)[i] = s[i]
      OBVIOUS
    <3>1. CASE i <= Len(q)
      BY <3>1, <1>1, <1>3, <2>1
    <3>2. CASE i > Len(q)
      <4>1. Len(q) \in Nat /\ Len(q) = count - n /\ n \in Nat /\ count \in Nat
        BY <1>1, <1>3
      <4>2. q \in Seq(Byte) /\ e \in Seq(Byte) /\ Len(e) = n
        BY <1>3, <2>1
      <4>3. i \in Len(q) + 1..Len(q) + Len(e)
        BY <3>2, <4>1, <4>2
      <4>4. (q \o e)[i] = e[i - Len(q)]
        BY <4>1, <4>2, <4>3
      <4>5. i - Len(q) \in 1..n /\ count - n + (i - Len(q)) = i
        BY <3>2, <4>1
      <4> QED BY <4>4, <4>5, <2>1, <1>1
    <3>3. Len(q) \in Nat /\ i \in Nat
      BY <1>1, <1>3
    <3>4. i <= Len(q) \/ i > Len(q)
      BY <3>3
    <3> QED BY <3>1, <3>2, <3>4
  <2>5. q \o e = s
    BY <2>2, <2>3, <2>4, <1>2
  <2> QED BY <2>5 DEF e
<1>7. Fifo!Write(d)
  BY <1>4, <1>5, <1>6 DEF Fifo!Write, q
<1> QED BY <1>1, <1>7 DEF d

\* The return of a read is the atomic read of the abstract queue.
LEMMA ReadRefines ==
    ASSUME IInv, ReadReturn
    PROVE  Fifo!Read(call.max) /\ call.max \in Reads
<1> USE PipeAssumption
<1> DEFINE d == call.data
           m == call.max
           q == Queue
           s == Stored
<1>1. /\ d \in Seq(Byte) /\ Len(d) = call.done /\ m \in Nat /\ m \in Reads
      /\ Len(d) <= m /\ count \in Nat /\ (Len(d) = m \/ count = 0)
  BY DEF IInv, TypeOK, Reading, ReadReturn, ReadGoesOn
<1>2. s \in Seq(Byte) /\ Len(s) = count
  BY RingBytes DEF Stored, IInv, TypeOK
<1>3. q = d \o s
  BY DEF Queue, ReadReturn
<1>4. Queue' = s /\ ret' = [n |-> Len(d), bytes |-> d]
  BY <1>1 DEF ReadReturn, Queue, Stored, Idle, pipe
<1> HIDE DEF d, m, q, s
<1>5. Len(q) = Len(d) + count /\ Len(d) \in Nat /\ count \in Nat
  <2>1. d \in Seq(Byte) /\ s \in Seq(Byte)
    BY <1>1, <1>2
  <2>2. Len(d \o s) = Len(d) + Len(s) /\ Len(d) \in Nat
    BY <2>1
  <2> QED BY <2>2, <1>1, <1>2, <1>3
<1>6. Fifo!Smaller(m, Len(q)) = Len(d)
  BY <1>1, <1>5 DEF Fifo!Smaller
<1>7. SubSeq(q, 1, Len(d)) = d
  <2>1. \A i \in 1..Len(d) : q[i] = d[i]
    BY <1>1, <1>2, <1>3
  <2>2. /\ SubSeq(q, 1, Len(d)) \in Seq(Byte) /\ Len(SubSeq(q, 1, Len(d))) = Len(d)
        /\ \A i \in 1..Len(d) : SubSeq(q, 1, Len(d))[i] = q[i]
    BY <1>1, <1>2, <1>3, <1>5
  <2> QED BY <2>1, <2>2, <1>1
<1>8. SubSeq(q, Len(d) + 1, Len(q)) = s
  <2> DEFINE t == SubSeq(q, Len(d) + 1, Len(q))
  <2>1. \A i \in 1..count : q[Len(d) + i] = s[i]
    <3>1. d \in Seq(Byte) /\ s \in Seq(Byte)
      BY <1>1, <1>2
    <3>2. \A i \in 1..Len(s) : (d \o s)[Len(d) + i] = s[i]
      BY <3>1
    <3> QED BY <3>2, <1>2, <1>3
  <2>2. q \in Seq(Byte)
    BY <1>1, <1>2, <1>3
  <2>3. t \in Seq(Byte) /\ Len(t) = count
    BY <2>2, <1>1, <1>5
  <2>4. \A i \in 1..count : t[i] = q[Len(d) + i]
    <3> SUFFICES ASSUME NEW i \in 1..count PROVE t[i] = q[Len(d) + i]
      OBVIOUS
    <3>1. t[i] = q[Len(d) + 1 + i - 1]
      BY <2>2, <1>5
    <3>2. Len(d) + 1 + i - 1 = Len(d) + i
      BY <1>5
    <3> QED BY <3>1, <3>2
  <2> HIDE DEF t
  <2>5. t = s
    BY <2>1, <2>3, <2>4, <1>2
  <2> QED BY <2>5 DEF t
<1>9. Fifo!Read(m)
  BY <1>4, <1>6, <1>7, <1>8 DEF Fifo!Read, q
<1> QED BY <1>1, <1>9 DEF m

\* The start of a call and the bytes it moves are invisible.
LEMMA StepRefines == IInv /\ [Next]_vars => [Fifo!Next]_(Fifo!vars)
<1> SUFFICES ASSUME IInv, [Next]_vars PROVE [Fifo!Next]_(Fifo!vars)
  OBVIOUS
<1> USE PipeAssumption
<1>0. Stored \in Seq(Byte) /\ Len(Stored) = count /\ count \in Nat
  <2>1. count \in Nat
    BY DEF IInv, TypeOK
  <2>2. Stored \in Seq(Byte) /\ Len(Stored) = count
    BY RingBytes DEF Stored, IInv, TypeOK
  <2> QED BY <2>1, <2>2
<1>1. ASSUME NEW data \in Writes, pipe_write(data) PROVE UNCHANGED <<Queue, ret>>
  <2>1. Queue = Stored /\ Stored' = Stored /\ ret' = ret
    BY <1>1 DEF pipe_write, Queue, Idle, Stored, pipe
  <2>2. Queue' = SubSeq(Stored, 1, count - 0)
    BY <1>1 DEF pipe_write, Queue, Idle, Stored, pipe
  <2>3. SubSeq(Stored, 1, count - 0) = Stored
    BY <1>0
  <2> QED BY <2>1, <2>2, <2>3
<1>2. ASSUME NEW max \in Reads, pipe_read(max) PROVE UNCHANGED <<Queue, ret>>
  <2>1. Queue = Stored /\ Stored' = Stored /\ ret' = ret
    BY <1>2 DEF pipe_read, Queue, Idle, Stored, pipe
  <2>2. Queue' = <<>> \o Stored
    BY <1>2 DEF pipe_read, Queue, Idle, Stored, pipe
  <2>3. <<>> \o Stored = Stored
    BY <1>0
  <2> QED BY <2>1, <2>2, <2>3
<1>3. CASE WriteByte
  <2>1. IInv' /\ \A i \in 1..count : Stored'[i] = Stored[i]
    BY <1>3, ByteWritten
  <2>2. /\ call'.op = "write" /\ call.op = "write"
        /\ call'.done = call.done + 1 /\ count' = count + 1 /\ ret' = ret
    BY <1>3 DEF WriteByte, IInv, TypeOK
  <2>3. Queue' = Queue
    <3>1. /\ Queue \in Seq(Byte) /\ Len(Queue) = count - call.done
          /\ \A i \in 1..(count - call.done) : Queue[i] = Stored[i]
      BY <2>2, QueueWriting
    <3>2. Stored' \in Seq(Byte) /\ Len(Stored') = count'
      BY <2>1, RingBytes DEF Stored, IInv, TypeOK
    <3>3. call.done \in 0..count
      BY <1>3 DEF WriteByte, IInv, TypeOK, Writing
    <3>4. count' - call'.done = count - call.done
      BY <2>2, <3>3, <1>0
    <3>5. Queue' = SubSeq(Stored', 1, count' - call'.done)
      BY <2>2 DEF Queue
    <3>6. Queue' = SubSeq(Stored', 1, count - call.done)
      BY <3>4, <3>5
    <3>7. /\ Queue' \in Seq(Byte) /\ Len(Queue') = count - call.done
          /\ \A i \in 1..(count - call.done) : Queue'[i] = Stored'[i]
      BY <3>2, <3>3, <3>6, <2>2, <1>0
    <3> DEFINE q == Queue
               p == Queue'
    <3>8. /\ q \in Seq(Byte) /\ p \in Seq(Byte) /\ Len(q) = Len(p)
          /\ \A i \in 1..Len(q) : q[i] = p[i]
      <4>1. 1..(count - call.done) \subseteq 1..count
        BY <3>3, <1>0
      <4> QED BY <4>1, <3>1, <3>7, <2>1
    <3> HIDE DEF q, p
    <3>9. q = p
      BY <3>8
    <3> QED BY <3>9 DEF q, p
  <2> QED BY <2>2, <2>3 DEF Fifo!vars
<1>4. CASE ReadByte
  <2>1. call'.data \o Stored' = call.data \o Stored
    BY <1>4, ByteRead
  <2>2. call'.op = "read" /\ call.op = "read" /\ ret' = ret
    BY <1>4 DEF ReadByte, IInv, TypeOK
  <2>3. Queue = call.data \o Stored /\ Queue' = call'.data \o Stored'
    BY <2>2 DEF Queue
  <2> QED BY <2>1, <2>2, <2>3 DEF Fifo!vars
<1>5. CASE WriteReturn
  BY <1>5, WriteRefines DEF Fifo!Next
<1>6. CASE ReadReturn
  BY <1>6, ReadRefines DEF Fifo!Next
<1>7. CASE UNCHANGED vars
  BY <1>7 DEF vars, Fifo!vars, Queue, Stored
<1> QED BY <1>1, <1>2, <1>3, <1>4, <1>5, <1>6, <1>7 DEF Next, Fifo!vars

\* The byte loops of pipe.c implement atomic writes and reads of a bounded FIFO
\* queue, for every buffer size: no byte is lost, repeated or reordered, and
\* the counts that pipe_write and pipe_read return are right.
THEOREM PipeIsFifo == Spec => IsFifo
BY InitRefines, StepRefines, Invariance, PTL DEF Spec, IsFifo, Fifo!Spec
=============================================================================
