--------------------------- MODULE ShellNet_proofs ---------------------------
(***************************************************************************)
(* Proofs about the driver, the network stack and the shell's commands on  *)
(* them, for rings and caches of every size, every set of frames, any      *)
(* number of polls and any typed text.                                     *)
(***************************************************************************)
EXTENDS ShellNet, TLAPS, FiniteSetTheorems

-----------------------------------------------------------------------------
(* Positions on a ring.                                                     *)

\* k places behind i on a ring of n.
Around(i, k, n) == IF i + k < n THEN i + k ELSE i + k - n

\* Stepping round a ring, without the remainder.
LEMMA ModuloIsAround ==
  ASSUME NEW n \in Nat \ {0}, NEW i \in 0..n - 1, NEW k \in 0..n
  PROVE  (i + k) % n = Around(i, k, n) /\ Around(i, k, n) \in 0..n - 1
<1> DEFINE x == i + k
<1>1. x \in 0..2 * n - 1
  OBVIOUS
<1>2. x % n = IF x < n THEN x ELSE x - n
  <2> HIDE DEF x
  <2>1. CASE x < n
    BY <1>1, <2>1, SMTT(30)
  <2>2. CASE x >= n
    BY <1>1, <2>2, SMTT(30)
  <2>3. QED
    BY <1>1, <2>1, <2>2
<1>3. QED
  BY <1>2 DEF Around

\* Different distances of less than a round lead to different places.
LEMMA AroundOnce ==
  ASSUME NEW n \in Nat \ {0}, NEW i \in 0..n - 1, NEW j \in 0..n - 1, NEW k \in 0..n - 1
  PROVE  Around(i, j, n) = Around(i, k, n) => j = k
BY DEF Around

\* The indices of the two rings step round them.
LEMMA NextIsAround ==
  /\ \A i \in TxIndex : NextTx(i) = Around(i, 1, NumTx) /\ NextTx(i) \in TxIndex
  /\ \A i \in RxIndex : NextRx(i) = Around(i, 1, NumRx) /\ NextRx(i) \in RxIndex
<1>1. NumTx \in Nat \ {0} /\ NumRx \in Nat \ {0}
  BY RingAssumption
<1>2. 1 \in 0..NumTx /\ 1 \in 0..NumRx
  BY <1>1
<1>3. QED
  BY <1>1, <1>2, ModuloIsAround DEF NextTx, NextRx, TxIndex, RxIndex

-----------------------------------------------------------------------------
(* The receive ring.                                                        *)

\* The frames that were put in and not yet read lie behind rx_tail, and the
\* card's registers are at their end and one place in front of rx_tail.
RxInv ==
    /\ rx_ring \in [RxIndex -> [frame : Frames \cup {NoFrame}, status : BOOLEAN]]
    /\ rx_tail \in RxIndex
    /\ queued \in Seq(Frames)
    /\ Len(queued) < NumRx
    /\ RDH = Around(rx_tail, Len(queued), NumRx)
    /\ RDT = Around(rx_tail, NumRx - 1, NumRx)
    /\ \A k \in 0..NumRx - 1 :
          LET d == rx_ring[Around(rx_tail, k, NumRx)]
          IN  /\ d.status <=> k < Len(queued)
              /\ k < Len(queued) => d.frame = queued[k + 1]

\* The receive ring starts empty.
LEMMA InitRx == Init => RxInv
<1> SUFFICES ASSUME Init PROVE RxInv
  OBVIOUS
<1>1. NumRx \in Nat \ {0}
  BY RingAssumption
<1>2. \A k \in 0..NumRx - 1 : Around(0, k, NumRx) = k
  BY <1>1 DEF Around
<1>3. QED
  BY <1>1, <1>2 DEF Init, e1000_init, RxInv, RxIndex

\* e1000_recv takes the oldest frame.
LEMMA RecvStep ==
  ASSUME RxInv, Received, e1000_recv, UNCHANGED RDH
  PROVE  RxInv'
<1>0. NumRx \in Nat \ {0} /\ rx_tail \in 0..NumRx - 1
  BY RingAssumption DEF RxInv, RxIndex
<1>1. Around(rx_tail, 0, NumRx) = rx_tail
  BY <1>0 DEF Around
<1>2. Len(queued) \in Nat /\ 0 < Len(queued)
  BY <1>0, <1>1 DEF RxInv, Received
<1>3. /\ Tail(queued) \in Seq(Frames) /\ Len(Tail(queued)) = Len(queued) - 1
      /\ \A k \in 1..Len(queued) - 1 : Tail(queued)[k] = queued[k + 1]
  BY <1>2 DEF RxInv
<1>4. rx_tail' = Around(rx_tail, 1, NumRx) /\ rx_tail' \in 0..NumRx - 1
  BY <1>0, NextIsAround DEF e1000_recv, RxIndex
<1>5. rx_ring' \in [RxIndex -> [frame : Frames \cup {NoFrame}, status : BOOLEAN]]
  BY DEF e1000_recv, RxInv
<1>6. RDH' = Around(rx_tail', Len(queued'), NumRx)
  <2>1. RDH' = Around(rx_tail, Len(queued), NumRx) /\ Len(queued) < NumRx /\ Len(queued') = Len(queued) - 1
    BY <1>3 DEF e1000_recv, RxInv
  <2>2. QED
    BY <1>0, <1>2, <1>4, <2>1 DEF Around
<1>7. RDT' = Around(rx_tail', NumRx - 1, NumRx)
  BY <1>0, <1>4 DEF e1000_recv, Around
<1>8. ASSUME NEW k \in 0..NumRx - 1
      PROVE  LET d == rx_ring'[Around(rx_tail', k, NumRx)]
             IN  /\ d.status <=> k < Len(queued')
                 /\ k < Len(queued') => d.frame = queued'[k + 1]
  <2>1. Around(rx_tail', k, NumRx) = Around(rx_tail, k + 1, NumRx) /\ Around(rx_tail', k, NumRx) \in RxIndex
    BY <1>0, <1>4 DEF Around, RxIndex
  <2>2. CASE k = NumRx - 1
    <3>1. Around(rx_tail', k, NumRx) = rx_tail
      BY <1>0, <1>4, <2>2 DEF Around
    <3>2. ~ rx_ring'[rx_tail].status
      BY <1>0 DEF e1000_recv, RxInv, RxIndex
    <3>3. ~ (k < Len(queued'))
      BY <1>0, <1>2, <1>3, <2>2 DEF e1000_recv, RxInv
    <3>4. QED
      BY <3>1, <3>2, <3>3
  <2>3. CASE k < NumRx - 1
    <3>1. Around(rx_tail, k + 1, NumRx) # rx_tail
      BY <1>0, <2>3 DEF Around
    <3>2. rx_ring'[Around(rx_tail', k, NumRx)] = rx_ring[Around(rx_tail, k + 1, NumRx)]
      BY <2>1, <3>1 DEF e1000_recv, RxInv
    <3>3. k + 1 \in 0..NumRx - 1
      BY <1>0, <2>3
    <3>4. /\ rx_ring[Around(rx_tail, k + 1, NumRx)].status <=> k + 1 < Len(queued)
          /\ k + 1 < Len(queued) => rx_ring[Around(rx_tail, k + 1, NumRx)].frame = queued[k + 2]
      BY <3>3 DEF RxInv
    <3>5. k + 1 < Len(queued) => queued'[k + 1] = queued[k + 2]
      BY <1>2, <1>3 DEF e1000_recv
    <3>6. k < Len(queued') <=> k + 1 < Len(queued)
      BY <1>0, <1>2, <1>3 DEF e1000_recv
    <3>7. QED
      BY <3>2, <3>4, <3>5, <3>6
  <2>4. QED
    BY <1>0, <2>2, <2>3
<1>9. QED
  BY <1>0, <1>2, <1>3, <1>4, <1>5, <1>6, <1>7, <1>8 DEF RxInv, e1000_recv, RxIndex

\* The card puts a frame behind the others, where a place is left.
LEMMA ArrivalStep ==
  ASSUME RxInv, NEW f \in Frames, CardReceives(f)
  PROVE  RxInv'
<1>0. NumRx \in Nat \ {0} /\ rx_tail \in 0..NumRx - 1 /\ Len(queued) \in 0..NumRx - 1
  BY RingAssumption DEF RxInv, RxIndex
<1>1. Len(queued) < NumRx - 1
  <2>1. RDH = Around(rx_tail, Len(queued), NumRx) /\ RDT = Around(rx_tail, NumRx - 1, NumRx) /\ RDH # RDT
    BY DEF RxInv, CardReceives
  <2>2. Len(queued) # NumRx - 1
    BY <2>1
  <2>3. QED
    BY <1>0, <2>2
<1>2. /\ queued' \in Seq(Frames) /\ Len(queued') = Len(queued) + 1
      /\ queued'[Len(queued) + 1] = f
      /\ \A k \in 1..Len(queued) : queued'[k] = queued[k]
  BY DEF CardReceives, RxInv
<1>3. RDH \in RxIndex /\ RDH' = Around(RDH, 1, NumRx)
  <2>1. RDH \in RxIndex
    BY <1>0 DEF RxInv, Around, RxIndex
  <2>2. QED
    BY <2>1, NextIsAround DEF CardReceives
<1>4. UNCHANGED <<rx_tail, RDT>>
  BY DEF CardReceives
<1>5. rx_ring' = [rx_ring EXCEPT ![RDH] = [frame |-> f, status |-> TRUE]]
  BY DEF CardReceives
<1>6. rx_ring' \in [RxIndex -> [frame : Frames \cup {NoFrame}, status : BOOLEAN]]
  BY <1>5 DEF RxInv
<1>7. RDH' = Around(rx_tail', Len(queued'), NumRx)
  BY <1>0, <1>1, <1>2, <1>3, <1>4 DEF RxInv, Around
<1>8. ASSUME NEW k \in 0..NumRx - 1
      PROVE  LET d == rx_ring'[Around(rx_tail', k, NumRx)]
             IN  /\ d.status <=> k < Len(queued')
                 /\ k < Len(queued') => d.frame = queued'[k + 1]
  <2>1. Around(rx_tail, k, NumRx) \in RxIndex
    BY <1>0 DEF Around, RxIndex
  <2>2. CASE k = Len(queued)
    <3>1. rx_ring'[Around(rx_tail', k, NumRx)] = [frame |-> f, status |-> TRUE]
      BY <1>3, <1>4, <1>5, <2>2 DEF RxInv
    <3>2. QED
      BY <1>0, <1>2, <2>2, <3>1
  <2>3. CASE k # Len(queued)
    <3>1. Around(rx_tail, k, NumRx) # RDH
      BY <1>0, <2>3, AroundOnce DEF RxInv
    <3>2. rx_ring'[Around(rx_tail', k, NumRx)] = rx_ring[Around(rx_tail, k, NumRx)]
      BY <1>4, <1>5, <2>1, <3>1 DEF RxInv
    <3>3. /\ rx_ring[Around(rx_tail, k, NumRx)].status <=> k < Len(queued)
          /\ k < Len(queued) => rx_ring[Around(rx_tail, k, NumRx)].frame = queued[k + 1]
      BY DEF RxInv
    <3>4. QED
      BY <1>0, <1>2, <2>3, <3>2, <3>3
  <2>4. QED
    BY <2>2, <2>3
<1>9. QED
  BY <1>0, <1>1, <1>2, <1>4, <1>6, <1>7, <1>8 DEF RxInv

\* RxInv is what RxIsQueue says, with the places counted from 0.
LEMMA RxInvIsQueue == RxInv => RxIsQueue
<1> SUFFICES ASSUME RxInv PROVE RxIsQueue
  OBVIOUS
<1>0. NumRx \in Nat \ {0} /\ rx_tail \in 0..NumRx - 1 /\ Len(queued) \in Nat
  BY RingAssumption DEF RxInv, RxIndex
<1>1. ASSUME NEW k \in 1..NumRx
      PROVE  LET d == rx_ring[(rx_tail + k - 1) % NumRx]
             IN  /\ d.status <=> k =< Len(queued)
                 /\ k =< Len(queued) => d.frame = queued[k]
  <2> DEFINE j == k - 1
  <2>1. j \in 0..NumRx - 1 /\ j \in 0..NumRx /\ rx_tail + k - 1 = rx_tail + j /\ j + 1 = k
    BY <1>0
  <2>2. (rx_tail + j) % NumRx = Around(rx_tail, j, NumRx)
    <3> HIDE DEF j
    <3> QED BY <1>0, <2>1, ModuloIsAround
  <2>3. /\ rx_ring[Around(rx_tail, j, NumRx)].status <=> j < Len(queued)
        /\ j < Len(queued) => rx_ring[Around(rx_tail, j, NumRx)].frame = queued[j + 1]
    <3> HIDE DEF j
    <3> QED BY <2>1 DEF RxInv
  <2>4. j < Len(queued) <=> k =< Len(queued)
    BY <1>0
  <2>5. QED
    <3> HIDE DEF j
    <3> QED BY <2>1, <2>2, <2>3, <2>4
<1>2. QED
  BY <1>1 DEF RxIsQueue, RxInv

-----------------------------------------------------------------------------
(* The transmit ring.                                                       *)

\* Descriptors that the driver has handed over and the card has not sent, as
\* the card counts them: when the ring comes round to TDH they are forgotten.
Pending == IF TDH =< tx_tail THEN tx_tail - TDH ELSE tx_tail - TDH + NumTx

IsDesc(d) ==
    /\ d = [no |-> d.no, frame |-> d.frame, status |-> d.status]
    /\ d.no \in Nat /\ d.status \in BOOLEAN

\* The pending descriptors hold the frames handed over last, in their order,
\* and their status is clear; the cable is behind them; and a status that is set
\* in the descriptor e1000_send waits for is about the frame it sent.
TxInv ==
    /\ tx_ring = [i \in TxIndex |-> tx_ring[i]]
    /\ \A i \in TxIndex : IsDesc(tx_ring[i])
    /\ tx_tail \in TxIndex /\ TDH \in TxIndex /\ TDT = tx_tail
    /\ handed \in Nat /\ wire \in Nat
    /\ wire + Pending =< handed
    /\ \A k \in 0..Pending - 1 :
          LET d == tx_ring[Around(TDH, k, NumTx)]
          IN  ~ d.status /\ d.no = handed - Pending + k + 1
    /\ tx_ring[Around(tx_tail, NumTx - 1, NumTx)].status => wire = handed

\* The transmit ring starts empty.
LEMMA InitTx == Init => TxInv
<1> SUFFICES ASSUME Init PROVE TxInv
  OBVIOUS
<1>1. NumTx \in Nat \ {0} /\ Around(0, NumTx - 1, NumTx) \in TxIndex /\ 0 \in TxIndex
  BY RingAssumption DEF Around, TxIndex
<1>2. Pending = 0
  BY DEF Init, e1000_init, Pending
<1>3. ASSUME NEW i \in TxIndex
      PROVE  tx_ring[i] = [no |-> 0, frame |-> NoFrame, status |-> FALSE]
  BY DEF Init, e1000_init
<1>4. tx_ring = [i \in TxIndex |-> tx_ring[i]]
  BY DEF Init, e1000_init
<1>5. \A i \in TxIndex : IsDesc(tx_ring[i])
  <2>1. IsDesc([no |-> 0, frame |-> NoFrame, status |-> FALSE])
    BY DEF IsDesc
  <2>2. QED
    BY <1>3, <2>1
<1>6. tx_tail = 0 /\ TDH = 0 /\ TDT = 0 /\ handed = 0 /\ wire = 0
  BY DEF Init, e1000_init
<1>7. \A k \in 0..Pending - 1 : FALSE
  BY <1>2
<1>8. ~ tx_ring[Around(tx_tail, NumTx - 1, NumTx)].status
  BY <1>1, <1>3, <1>6
<1>9. wire + Pending =< handed /\ tx_tail \in TxIndex /\ TDH \in TxIndex /\ TDT = tx_tail /\ handed \in Nat /\ wire \in Nat
  BY <1>1, <1>2, <1>6
<1>10. QED
  BY <1>4, <1>5, <1>7, <1>8, <1>9 DEF TxInv

\* e1000_send hands over a descriptor; one too many empties the ring.
LEMMA SendStep ==
  ASSUME TxInv, NEW f, SendStarts(f), UNCHANGED <<TDH, wire>>, mmio
  PROVE  TxInv' /\ handed' = handed + 1 /\ tx_ring'[tx_tail].frame = f
<1> DEFINE d == Descriptor(handed + 1, f)
<1>0. /\ NumTx \in Nat \ {0} /\ tx_tail \in 0..NumTx - 1 /\ TDH \in 0..NumTx - 1
      /\ handed \in Nat /\ wire \in Nat /\ wire + Pending =< handed
  BY RingAssumption DEF TxInv, TxIndex
<1>1. /\ tx_ring' = [tx_ring EXCEPT ![tx_tail] = d]
      /\ tx_tail' = Around(tx_tail, 1, NumTx) /\ tx_tail' \in TxIndex
      /\ TDT' = tx_tail' /\ handed' = handed + 1 /\ TDH' = TDH /\ wire' = wire
  BY <1>0, NextIsAround DEF SendStarts, TxIndex
<1>2. d = [no |-> handed + 1, frame |-> f, status |-> FALSE] /\ IsDesc(d)
  BY <1>0 DEF Descriptor, IsDesc
<1>3. /\ tx_ring'[tx_tail] = d
      /\ \A i \in TxIndex : i # tx_tail => tx_ring'[i] = tx_ring[i]
      /\ tx_ring' = [i \in TxIndex |-> tx_ring'[i]]
  <2> HIDE DEF d
  <2>1. tx_ring = [i \in TxIndex |-> tx_ring[i]] /\ tx_tail \in TxIndex
    BY DEF TxInv
  <2>2. QED
    BY <1>1, <2>1
<1>4. \A i \in TxIndex : IsDesc(tx_ring'[i])
  <2> HIDE DEF d
  <2> QED BY <1>2, <1>3 DEF TxInv
<1>5. Pending \in 0..NumTx - 1
  BY <1>0 DEF Pending
<1>6. Pending' = IF Pending = NumTx - 1 THEN 0 ELSE Pending + 1
  BY <1>0, <1>1 DEF Pending, Around
<1>7. wire' + Pending' =< handed'
  BY <1>0, <1>1, <1>5, <1>6
<1>8. Around(tx_tail', NumTx - 1, NumTx) = tx_tail
  BY <1>0, <1>1 DEF Around
<1>9. ~ tx_ring'[Around(tx_tail', NumTx - 1, NumTx)].status
  <2>1. tx_ring'[tx_tail] = [no |-> handed + 1, frame |-> f, status |-> FALSE]
    BY <1>2, <1>3
  <2>2. QED
    BY <1>8, <2>1
<1>10. ASSUME NEW k \in 0..Pending' - 1
       PROVE  /\ ~ tx_ring'[Around(TDH', k, NumTx)].status
              /\ tx_ring'[Around(TDH', k, NumTx)].no = handed' - Pending' + k + 1
  <2>1. Pending # NumTx - 1 /\ Pending' = Pending + 1 /\ k \in 0..Pending
    BY <1>5, <1>6
  <2>2. CASE k = Pending
    <3>1. Around(TDH, k, NumTx) = tx_tail
      BY <1>0, <2>2 DEF Around, Pending
    <3>2. tx_ring'[Around(TDH', k, NumTx)] = [no |-> handed + 1, frame |-> f, status |-> FALSE]
      BY <1>1, <1>2, <1>3, <3>1
    <3>3. handed' - Pending' + k + 1 = handed + 1
      BY <1>0, <1>1, <1>5, <2>1, <2>2
    <3>4. QED
      BY <3>2, <3>3
  <2>3. CASE k # Pending
    <3>1. k \in 0..Pending - 1
      BY <1>5, <2>1, <2>3
    <3>2. Around(TDH, k, NumTx) \in TxIndex /\ Around(TDH, k, NumTx) # tx_tail
      BY <1>0, <1>5, <2>1, <3>1 DEF Around, Pending, TxIndex
    <3>3. tx_ring'[Around(TDH', k, NumTx)] = tx_ring[Around(TDH, k, NumTx)]
      BY <1>1, <1>3, <3>2
    <3>4. ~ tx_ring[Around(TDH, k, NumTx)].status /\ tx_ring[Around(TDH, k, NumTx)].no = handed - Pending + k + 1
      BY <3>1 DEF TxInv
    <3>5. handed' - Pending' + k + 1 = handed - Pending + k + 1
      BY <1>0, <1>1, <1>5, <2>1
    <3>6. QED
      BY <3>3, <3>4, <3>5
  <2>4. QED
    BY <2>2, <2>3
<1>11. TDH' \in TxIndex /\ handed' \in Nat /\ wire' \in Nat /\ tx_tail' \in TxIndex /\ TDT' = tx_tail'
  BY <1>0, <1>1 DEF TxIndex
<1>12. TxInv'
  BY <1>3, <1>4, <1>7, <1>9, <1>10, <1>11 DEF TxInv
<1>13. tx_ring'[tx_tail].frame = f
  BY <1>2, <1>3
<1>14. QED
  BY <1>1, <1>12, <1>13

\* The card sends the first pending frame, which is newer than the last it sent.
LEMMA TransmitStep ==
  ASSUME TxInv, CardTransmits
  PROVE  TxInv' /\ wire' > wire
<1>0. /\ NumTx \in Nat \ {0} /\ tx_tail \in 0..NumTx - 1 /\ TDH \in 0..NumTx - 1
      /\ handed \in Nat /\ wire \in Nat /\ wire + Pending =< handed /\ TDH # tx_tail
  BY RingAssumption DEF TxInv, TxIndex, CardTransmits
<1>1. /\ tx_ring' = [tx_ring EXCEPT ![TDH].status = TRUE]
      /\ TDH' = Around(TDH, 1, NumTx) /\ TDH' \in TxIndex
      /\ wire' = tx_ring[TDH].no
      /\ UNCHANGED <<tx_tail, TDT, handed>>
  BY <1>0, NextIsAround DEF CardTransmits, TxIndex
<1>2. Pending \in 1..NumTx - 1 /\ Pending' = Pending - 1
  BY <1>0, <1>1 DEF Pending, Around
<1>3. Around(TDH, 0, NumTx) = TDH /\ 0 \in 0..Pending - 1
  BY <1>0, <1>2 DEF Around
<1>4. tx_ring[TDH].no = handed - Pending + 0 + 1
  BY <1>3 DEF TxInv
<1>5. wire' = handed - Pending + 1 /\ wire' > wire /\ wire' \in Nat /\ wire' + Pending' =< handed'
  BY <1>0, <1>1, <1>2, <1>4
<1>6. /\ tx_ring'[TDH] = [tx_ring[TDH] EXCEPT !.status = TRUE]
      /\ \A i \in TxIndex : i # TDH => tx_ring'[i] = tx_ring[i]
      /\ tx_ring' = [i \in TxIndex |-> tx_ring'[i]]
  <2>1. tx_ring = [i \in TxIndex |-> tx_ring[i]] /\ TDH \in TxIndex
    BY DEF TxInv
  <2>2. QED
    BY <1>1, <2>1
<1>7. \A i \in TxIndex : IsDesc(tx_ring'[i])
  <2>1. IsDesc(tx_ring[TDH])
    BY <1>0 DEF TxInv, TxIndex
  <2>2. IsDesc(tx_ring'[TDH])
    BY <1>6, <2>1 DEF IsDesc
  <2>3. QED
    BY <1>6, <2>2 DEF TxInv
<1>8. ASSUME NEW k \in 0..Pending' - 1
      PROVE  /\ ~ tx_ring'[Around(TDH', k, NumTx)].status
             /\ tx_ring'[Around(TDH', k, NumTx)].no = handed' - Pending' + k + 1
  <2>1. k + 1 \in 0..Pending - 1 /\ k \in Nat
    BY <1>2
  <2>2. /\ Around(TDH', k, NumTx) = Around(TDH, k + 1, NumTx)
        /\ Around(TDH, k + 1, NumTx) \in TxIndex /\ Around(TDH, k + 1, NumTx) # TDH
    BY <1>0, <1>1, <1>2, <2>1 DEF Around, TxIndex
  <2>3. tx_ring'[Around(TDH', k, NumTx)] = tx_ring[Around(TDH, k + 1, NumTx)]
    BY <1>6, <2>2
  <2>4. /\ ~ tx_ring[Around(TDH, k + 1, NumTx)].status
        /\ tx_ring[Around(TDH, k + 1, NumTx)].no = handed - Pending + (k + 1) + 1
    BY <2>1 DEF TxInv
  <2>5. handed' - Pending' + k + 1 = handed - Pending + (k + 1) + 1
    BY <1>0, <1>1, <1>2, <2>1
  <2>6. QED
    BY <2>3, <2>4, <2>5
<1>9. tx_ring'[Around(tx_tail', NumTx - 1, NumTx)].status => wire' = handed'
  <2> DEFINE last == Around(tx_tail, NumTx - 1, NumTx)
  <2>1. last \in TxIndex /\ last = Around(TDH, Pending - 1, NumTx) /\ Pending - 1 \in 0..Pending - 1
    BY <1>0, <1>2 DEF Around, Pending, TxIndex
  <2>2. ~ tx_ring[last].status
    <3>1. ~ tx_ring[Around(TDH, Pending - 1, NumTx)].status
      BY <2>1 DEF TxInv
    <3>2. QED
      BY <2>1, <3>1
  <2>3. CASE last = TDH
    <3>1. Pending = 1
      BY <1>0, <1>2, <2>1, <2>3 DEF Around
    <3>2. QED
      BY <1>0, <1>1, <1>5, <3>1
  <2>4. CASE last # TDH
    BY <1>1, <1>6, <2>1, <2>2, <2>4
  <2>5. QED
    BY <2>3, <2>4
<1>10. TDH' \in TxIndex /\ handed' \in Nat /\ tx_tail' \in TxIndex /\ TDT' = tx_tail'
  BY <1>0, <1>1 DEF TxIndex, TxInv
<1>11. QED
  BY <1>5, <1>6, <1>7, <1>8, <1>9, <1>10 DEF TxInv

\* What e1000_send returns the length of has left.
LEMMA SentWhenAcked ==
  ASSUME TxInv, SendEnds, acked' # acked
  PROVE  wire = acked'
<1>1. NumTx \in Nat \ {0} /\ tx_tail \in 0..NumTx - 1 /\ NumTx - 1 \in 0..NumTx
  BY RingAssumption DEF TxInv, TxIndex
<1>2. (tx_tail + (NumTx - 1)) % NumTx = Around(tx_tail, NumTx - 1, NumTx)
  BY <1>1, ModuloIsAround
<1>3. tx_tail + NumTx - 1 = tx_tail + (NumTx - 1)
  BY <1>1
<1>4. desc = tx_ring[Around(tx_tail, NumTx - 1, NumTx)]
  BY <1>2, <1>3 DEF desc
<1>5. desc.status /\ acked' = handed
  BY DEF SendEnds
<1>6. QED
  BY <1>4, <1>5 DEF TxInv

-----------------------------------------------------------------------------
(* The ARP cache.                                                           *)

\* No address is in the cache twice, every entry is the last announcement, and
\* while there is room every address that was announced is there.
CacheInv ==
    /\ arp_cache \in Seq([ip : Ips, mac : Macs])
    /\ Len(arp_cache) =< ARP_CACHE_SIZE
    /\ heard \in [Ips -> Macs \cup {NoMac}]
    /\ \A i, j \in 1..Len(arp_cache) : arp_cache[i].ip = arp_cache[j].ip => i = j
    /\ \A i \in 1..Len(arp_cache) : arp_cache[i].mac = heard[arp_cache[i].ip]
    /\ Len(arp_cache) < ARP_CACHE_SIZE => \A ip \in Ips : heard[ip] # NoMac => Known(ip)

\* The entries of the ARP cache are addresses.
LEMMA EntriesTyped ==
  ASSUME CacheInv
  PROVE  /\ Len(arp_cache) \in Nat
         /\ \A i \in 1..Len(arp_cache) : arp_cache[i] \in [ip : Ips, mac : Macs]
<1> DEFINE S == [ip : Ips, mac : Macs]
<1>1. arp_cache \in Seq(S)
  BY DEF CacheInv
<1>2. Len(arp_cache) \in Nat /\ \A i \in 1..Len(arp_cache) : arp_cache[i] \in S
  <2> HIDE DEF S
  <2> QED BY <1>1
<1>3. QED
  BY <1>2

\* The cache starts empty, with nothing heard.
LEMMA InitCache == Init => CacheInv
<1> SUFFICES ASSUME Init PROVE CacheInv
  OBVIOUS
<1> DEFINE e == [ip |-> gw_ip, mac |-> gw_mac]
<1>1. arp_cache = <<e>> /\ e \in [ip : Ips, mac : Macs] /\ e.ip = gw_ip /\ e.mac = gw_mac
  BY NetAssumption DEF Init
<1>2. heard = [ip \in Ips |-> IF ip = gw_ip THEN gw_mac ELSE NoMac]
  BY DEF Init
<1>3. arp_cache \in Seq([ip : Ips, mac : Macs]) /\ Len(arp_cache) = 1 /\ arp_cache[1] = e
  <2> HIDE DEF e
  <2> QED BY <1>1
<1>4. \A i \in 1..Len(arp_cache) : i = 1
  BY <1>3
<1>5. Len(arp_cache) =< ARP_CACHE_SIZE
  BY <1>3, NetAssumption
<1>6. heard \in [Ips -> Macs \cup {NoMac}] /\ heard[gw_ip] = gw_mac
  BY <1>2, NetAssumption
<1>7. \A i \in 1..Len(arp_cache) : arp_cache[i].mac = heard[arp_cache[i].ip]
  <2> HIDE DEF e
  <2> QED BY <1>1, <1>3, <1>4, <1>6
<1>8. \A ip \in Ips : heard[ip] # NoMac => Known(ip)
  <2> SUFFICES ASSUME NEW ip \in Ips, heard[ip] # NoMac PROVE Known(ip)
    OBVIOUS
  <2>1. ip = gw_ip
    BY <1>2
  <2>2. 1 \in 1..Len(arp_cache) /\ arp_cache[1].ip = ip
    <3> HIDE DEF e
    <3> QED BY <1>1, <1>3, <2>1
  <2>3. QED
    BY <2>2 DEF Known
<1>9. QED
  BY <1>3, <1>4, <1>5, <1>6, <1>7, <1>8 DEF CacheInv

\* arp_cache_set on an address that is there, on one that fits, on one that
\* does not.
LEMMA Learned ==
  ASSUME CacheInv, NEW ip \in Ips, NEW mac \in Macs,
         arp_cache' = arp_cache_set(ip, mac), heard' = [heard EXCEPT ![ip] = mac]
  PROVE  CacheInv'
<1> DEFINE n == Len(arp_cache)
<1>0. /\ arp_cache \in Seq([ip : Ips, mac : Macs]) /\ n \in Nat /\ n =< ARP_CACHE_SIZE
      /\ heard \in [Ips -> Macs \cup {NoMac}] /\ ARP_CACHE_SIZE \in Nat
      /\ \A i \in 1..n : arp_cache[i] \in [ip : Ips, mac : Macs]
  <2>1. /\ arp_cache \in Seq([ip : Ips, mac : Macs]) /\ n =< ARP_CACHE_SIZE
        /\ heard \in [Ips -> Macs \cup {NoMac}]
    BY DEF CacheInv
  <2>2. QED
    BY <2>1, EntriesTyped, NetAssumption
<1>1. heard' \in [Ips -> Macs \cup {NoMac}] /\ heard'[ip] = mac /\ \A j \in Ips : j # ip => heard'[j] = heard[j]
  BY <1>0
<1>2. CASE Known(ip)
  <2> DEFINE c == [i \in 1..n |-> IF arp_cache[i].ip = ip THEN [arp_cache[i] EXCEPT !.mac = mac] ELSE arp_cache[i]]
  <2>1. arp_cache' = c
    BY <1>2 DEF arp_cache_set
  <2>2. ASSUME NEW i \in 1..n
        PROVE  /\ c[i] \in [ip : Ips, mac : Macs]
               /\ c[i].ip = arp_cache[i].ip
               /\ c[i].mac = IF arp_cache[i].ip = ip THEN mac ELSE arp_cache[i].mac
    <3>1. arp_cache[i] \in [ip : Ips, mac : Macs]
      BY <1>0
    <3>2. c[i] = IF arp_cache[i].ip = ip THEN [arp_cache[i] EXCEPT !.mac = mac] ELSE arp_cache[i]
      OBVIOUS
    <3> HIDE DEF c
    <3>3. QED
      BY <3>1, <3>2
  <2>3. c \in Seq([ip : Ips, mac : Macs]) /\ Len(c) = n
    <3>1. c \in [1..n -> [ip : Ips, mac : Macs]]
      BY <2>2
    <3> HIDE DEF c
    <3>2. QED
      BY <1>0, <3>1
  <2> HIDE DEF c
  <2>4. \A i, j \in 1..n : c[i].ip = c[j].ip => i = j
    BY <2>2 DEF CacheInv
  <2>5. \A i \in 1..n : c[i].mac = heard'[c[i].ip]
    <3> SUFFICES ASSUME NEW i \in 1..n PROVE c[i].mac = heard'[c[i].ip]
      OBVIOUS
    <3>1. arp_cache[i].ip \in Ips /\ arp_cache[i].mac = heard[arp_cache[i].ip]
      BY <1>0 DEF CacheInv
    <3>2. QED
      BY <1>1, <2>2, <3>1
  <2>6. n < ARP_CACHE_SIZE => \A j \in Ips : heard'[j] # NoMac => \E i \in 1..n : c[i].ip = j
    <3> SUFFICES ASSUME n < ARP_CACHE_SIZE, NEW j \in Ips, heard'[j] # NoMac PROVE \E i \in 1..n : c[i].ip = j
      OBVIOUS
    <3>1. \E i \in 1..n : arp_cache[i].ip = j
      BY <1>1, <1>2 DEF CacheInv, Known
    <3>2. QED
      BY <2>2, <3>1
  <2>7. QED
    BY <1>0, <1>1, <2>1, <2>3, <2>4, <2>5, <2>6 DEF CacheInv, Known
<1>3. CASE ~ Known(ip) /\ n < ARP_CACHE_SIZE
  <2> DEFINE e == [ip |-> ip, mac |-> mac]
             c == Append(arp_cache, e)
  <2>1. arp_cache' = c
    BY <1>3 DEF arp_cache_set
  <2>2. e \in [ip : Ips, mac : Macs] /\ e.ip = ip /\ e.mac = mac
    OBVIOUS
  <2>3. /\ c \in Seq([ip : Ips, mac : Macs]) /\ Len(c) = n + 1 /\ c[n + 1] = e
        /\ \A i \in 1..n : c[i] = arp_cache[i]
    <3> HIDE DEF e
    <3> QED BY <1>0, <2>2
  <2>4. \A i \in 1..n : arp_cache[i].ip # ip
    BY <1>3 DEF Known
  <2> HIDE DEF c, e
  <2>5. \A i \in 1..n + 1 : i = n + 1 \/ i \in 1..n
    BY <1>0
  <2>6. \A i, j \in 1..n + 1 : c[i].ip = c[j].ip => i = j
    BY <2>2, <2>3, <2>4, <2>5 DEF CacheInv
  <2>7. \A i \in 1..n + 1 : c[i].mac = heard'[c[i].ip]
    <3> SUFFICES ASSUME NEW i \in 1..n + 1 PROVE c[i].mac = heard'[c[i].ip]
      OBVIOUS
    <3>1. CASE i = n + 1
      BY <1>1, <2>2, <2>3, <3>1
    <3>2. CASE i \in 1..n
      <4>1. arp_cache[i].ip \in Ips /\ arp_cache[i].mac = heard[arp_cache[i].ip] /\ arp_cache[i].ip # ip
        BY <1>0, <2>4, <3>2 DEF CacheInv
      <4>2. QED
        BY <1>1, <2>3, <3>2, <4>1
    <3>3. QED
      BY <2>5, <3>1, <3>2
  <2>8. \A j \in Ips : heard'[j] # NoMac => \E i \in 1..n + 1 : c[i].ip = j
    <3> SUFFICES ASSUME NEW j \in Ips, heard'[j] # NoMac PROVE \E i \in 1..n + 1 : c[i].ip = j
      OBVIOUS
    <3>1. CASE j = ip
      BY <1>0, <2>2, <2>3, <3>1
    <3>2. CASE j # ip
      <4>1. PICK i \in 1..n : arp_cache[i].ip = j
        BY <1>1, <1>3, <3>2 DEF CacheInv, Known
      <4>2. i \in 1..n + 1 /\ c[i].ip = j
        BY <1>0, <2>3, <4>1
      <4>3. QED
        BY <4>2
    <3>3. QED
      BY <3>1, <3>2
  <2>9. n + 1 =< ARP_CACHE_SIZE
    BY <1>0, <1>3
  <2>10. QED
    BY <1>1, <2>1, <2>3, <2>6, <2>7, <2>8, <2>9 DEF CacheInv, Known
<1>4. CASE ~ Known(ip) /\ ~ (n < ARP_CACHE_SIZE)
  <2>1. arp_cache' = arp_cache
    BY <1>4 DEF arp_cache_set
  <2>2. \A i \in 1..n : arp_cache[i].mac = heard'[arp_cache[i].ip]
    <3> SUFFICES ASSUME NEW i \in 1..n PROVE arp_cache[i].mac = heard'[arp_cache[i].ip]
      OBVIOUS
    <3>1. arp_cache[i].ip \in Ips /\ arp_cache[i].mac = heard[arp_cache[i].ip] /\ arp_cache[i].ip # ip
      BY <1>0, <1>4 DEF CacheInv, Known
    <3>2. QED
      BY <1>1, <3>1
  <2>3. QED
    BY <1>0, <1>1, <1>4, <2>1, <2>2 DEF CacheInv
<1>5. QED
  BY <1>2, <1>3, <1>4

\* What arp_cache_get returns for an address that is known.
LEMMA Looked ==
  ASSUME CacheInv, NEW ip, Known(ip)
  PROVE  arp_cache_get(ip) = heard[ip]
<1> DEFINE c == CHOOSE i \in 1..Len(arp_cache) : arp_cache[i].ip = ip
<1>1. c \in 1..Len(arp_cache) /\ arp_cache[c].ip = ip
  BY Zenon DEF Known
<1>2. arp_cache[c].mac = heard[arp_cache[c].ip]
  <2> HIDE DEF c
  <2> QED BY <1>1 DEF CacheInv
<1>3. arp_cache_get(ip) = arp_cache[c].mac
  BY DEF arp_cache_get
<1>4. QED
  BY <1>1, <1>2, <1>3

\* CacheInv is what CacheIsLatest says: the entries are counted by their index.
LEMMA CacheInvIsLatest == CacheInv => CacheIsLatest
<1> SUFFICES ASSUME CacheInv PROVE CacheIsLatest
  OBVIOUS
<1> DEFINE n == Len(arp_cache)
           announced == {ip \in Ips : heard[ip] # NoMac}
           cached == {arp_cache[i].ip : i \in 1..n}
           g == [i \in 1..n |-> arp_cache[i].ip]
<1>0. n \in Nat /\ \A i \in 1..n : arp_cache[i] \in [ip : Ips, mac : Macs]
  BY EntriesTyped
<1>1. Cardinality(cached) = n
  <2>1. g \in [1..n -> cached]
    OBVIOUS
  <2>2. \A i, j \in 1..n : g[i] = g[j] => i = j
    BY DEF CacheInv
  <2>3. \A x \in cached : \E i \in 1..n : g[i] = x
    OBVIOUS
  <2>4. g \in Bijection(1..n, cached)
    <3> HIDE DEF g, cached, n
    <3> QED BY <2>1, <2>2, <2>3 DEF Bijection, Injection, Surjection, IsInjective
  <2>5. ExistsBijection(1..n, cached)
    BY <2>4, Zenon DEF ExistsBijection
  <2>6. QED
    <3> HIDE DEF n, cached
    <3> QED BY <1>0, <2>5, FS_CountingElements
<1>2. cached \subseteq announced
  <2> SUFFICES ASSUME NEW i \in 1..n PROVE arp_cache[i].ip \in announced
    OBVIOUS
  <2>1. arp_cache[i].ip \in Ips /\ arp_cache[i].mac \in Macs /\ arp_cache[i].mac = heard[arp_cache[i].ip]
    BY <1>0 DEF CacheInv
  <2>2. QED
    BY <2>1, NetAssumption
<1>3. n < ARP_CACHE_SIZE => announced \subseteq cached
  BY DEF CacheInv, Known
<1>4. n = ARP_CACHE_SIZE \/ n < ARP_CACHE_SIZE
  BY <1>0, NetAssumption DEF CacheInv
<1>5. \A i \in 1..n : arp_cache[i].mac = heard[arp_cache[i].ip]
  BY DEF CacheInv
<1>6. cached = announced \/ (cached \subseteq announced /\ n = ARP_CACHE_SIZE)
  <2> HIDE DEF cached, announced, n
  <2> QED BY <1>2, <1>3, <1>4
<1>7. QED
  BY <1>1, <1>5, <1>6, Zenon DEF CacheIsLatest

-----------------------------------------------------------------------------
(* The calls.                                                               *)

\* A call in progress is one of the three.
CallInv == doing # "idle" => cmd.name \in {"arp", "ping", "udpsend"}

\* The inductive invariant.
IInv == RxInv /\ TxInv /\ CacheInv /\ CallInv

\* Every step is one of these.
LEMMA Steps ==
  ASSUME [Next]_vars
  PROVE  \/ \E name \in {"arp", "ping", "udpsend"} : \E ip : Call(name, ip)
         \/ SendReturns
         \/ net_poll
         \/ Resolved
         \/ Sleep \/ Wake
         \/ CardTransmits /\ UNCHANGED netVars
         \/ (\E f \in Frames : CardReceives(f)) /\ UNCHANGED netVars
         \/ UNCHANGED vars
<1>1. CASE Command
  BY <1>1 DEF Command, cmd_arp, cmd_ping, cmd_udpsend
<1>2. CASE Stack
  BY <1>2 DEF Stack
<1>3. CASE Card
  BY <1>3 DEF Card
<1>4. QED
  BY <1>1, <1>2, <1>3 DEF Next

\* What a step does to the transmit ring and to the register acked.
LEMMA TxParts ==
  ASSUME [Next]_vars
  PROVE  /\ UNCHANGED mmio
         /\ \/ (\E f : SendStarts(f)) /\ UNCHANGED <<TDH, wire>>
            \/ CardTransmits
            \/ UNCHANGED <<txVars, TDH, wire>>
         /\ SendEnds \/ UNCHANGED acked
<1>1. ASSUME NEW name, NEW ip, Call(name, ip)
      PROVE  UNCHANGED <<mmio, acked, TDH, wire>> /\ \E f : SendStarts(f)
  BY <1>1 DEF Call, Emit, cardVars
<1>2. CASE SendReturns
  BY <1>2 DEF SendReturns, cardVars
<1>3. CASE net_poll
  <2> DEFINE f == rx_ring[rx_tail].frame
  <2>1. UNCHANGED <<mmio, acked, TDH, wire>>
    BY <1>3 DEF net_poll, cardVars
  <2>2. handle_arp(f) \/ handle_ip(f)
    BY <1>3 DEF net_poll
  <2>3. (\E g : SendStarts(g)) \/ UNCHANGED txVars
    <3> HIDE DEF f
    <3> QED BY <2>2 DEF handle_arp, handle_ip, handle_icmp, handle_udp, Emit
  <2>4. QED
    BY <2>1, <2>3
<1>4. CASE Resolved
  <2>1. UNCHANGED <<mmio, acked, TDH, wire>>
    BY <1>4 DEF Resolved, cardVars
  <2>2. (\E f : SendStarts(f)) \/ UNCHANGED txVars
    BY <1>4 DEF Resolved, Emit
  <2>3. QED
    BY <2>1, <2>2
<1>5. CASE Sleep \/ Wake
  BY <1>5 DEF Sleep, Wake, e1000Vars, cardVars
<1>6. CASE CardTransmits
  BY <1>6 DEF CardTransmits
<1>7. CASE \E f \in Frames : CardReceives(f)
  BY <1>7 DEF CardReceives
<1>8. CASE UNCHANGED vars
  BY <1>8 DEF vars, e1000Vars, cardVars
<1>9. QED
  BY <1>1, <1>2, <1>3, <1>4, <1>5, <1>6, <1>7, <1>8, Steps

\* Every step keeps the part about the transmit ring.
LEMMA NextTxInv == TxInv /\ [Next]_vars => TxInv'
<1> SUFFICES ASSUME TxInv, [Next]_vars PROVE TxInv'
  OBVIOUS
<1>1. CASE (\E f : SendStarts(f)) /\ UNCHANGED <<TDH, wire>> /\ mmio
  BY <1>1, SendStep
<1>2. CASE CardTransmits
  BY <1>2, TransmitStep
<1>3. CASE UNCHANGED <<txVars, TDH, wire>>
  BY <1>3 DEF txVars, TxInv, Pending
<1>4. QED
  BY <1>1, <1>2, <1>3, TxParts DEF SendStarts

\* Every step keeps the part about the receive ring.
LEMMA NextRxInv == RxInv /\ [Next]_vars => RxInv'
<1> SUFFICES ASSUME RxInv, [Next]_vars PROVE RxInv'
  OBVIOUS
<1>1. CASE net_poll
  <2>1. Received /\ e1000_recv /\ UNCHANGED RDH
    BY <1>1 DEF net_poll, cardVars
  <2>2. QED
    BY <2>1, RecvStep
<1>2. CASE \E f \in Frames : CardReceives(f)
  BY <1>2, ArrivalStep
<1>3. CASE UNCHANGED <<rxVars, RDH>>
  BY <1>3 DEF rxVars, RxInv
<1>4. ASSUME NEW name, NEW ip, Call(name, ip) PROVE UNCHANGED <<rxVars, RDH>>
  BY <1>4 DEF Call, cardVars
<1>5. SendReturns => UNCHANGED <<rxVars, RDH>>
  BY DEF SendReturns, cardVars
<1>6. Resolved => UNCHANGED <<rxVars, RDH>>
  BY DEF Resolved, cardVars
<1>7. Sleep \/ Wake => UNCHANGED <<rxVars, RDH>>
  BY DEF Sleep, Wake, e1000Vars, cardVars
<1>8. CardTransmits => UNCHANGED <<rxVars, RDH>>
  BY DEF CardTransmits
<1>9. UNCHANGED vars => UNCHANGED <<rxVars, RDH>>
  BY DEF vars, e1000Vars, cardVars
<1>10. QED
  BY <1>1, <1>2, <1>3, <1>4, <1>5, <1>6, <1>7, <1>8, <1>9, Steps

\* Only a poll learns addresses, from a frame that arrived.
LEMMA NextCacheInv == RxInv /\ CacheInv /\ [Next]_vars => CacheInv'
<1> SUFFICES ASSUME RxInv, CacheInv, [Next]_vars PROVE CacheInv'
  OBVIOUS
<1>1. CASE UNCHANGED <<arp_cache, heard>>
  BY <1>1 DEF CacheInv, Known
<1>2. CASE net_poll
  <2> DEFINE f == rx_ring[rx_tail].frame
  <2>1. f \in Frames
    <3>0. NumRx \in Nat \ {0} /\ rx_tail \in 0..NumRx - 1 /\ 0 \in 0..NumRx - 1
      BY RingAssumption DEF RxInv, RxIndex
    <3>1. Around(rx_tail, 0, NumRx) = rx_tail
      BY <3>0 DEF Around
    <3>2. 0 < Len(queued) /\ f = queued[0 + 1]
      BY <1>2, <3>0, <3>1 DEF RxInv, net_poll, Received
    <3>3. queued \in Seq(Frames) /\ 1 \in 1..Len(queued)
      BY <3>2 DEF RxInv
    <3>4. QED
      BY <3>2, <3>3
  <2>2. CASE f.type = "arp"
    <3>1. f.spa \in Ips /\ f.sha \in Macs
      BY <2>1, <2>2, NetAssumption
    <3>2. arp_cache' = arp_cache_set(f.spa, f.sha) /\ heard' = [heard EXCEPT ![f.spa] = f.sha]
      BY <1>2, <2>2 DEF net_poll, handle_arp
    <3>3. QED
      <4> HIDE DEF f
      <4> QED BY <3>1, <3>2, Learned
  <2>3. CASE f.type # "arp"
    BY <1>1, <1>2, <2>3 DEF net_poll, handle_ip
  <2>4. QED
    BY <2>2, <2>3
<1>3. ASSUME NEW name, NEW ip, Call(name, ip) PROVE UNCHANGED <<arp_cache, heard>>
  BY <1>3 DEF Call
<1>4. SendReturns \/ Resolved \/ Sleep \/ Wake \/ UNCHANGED netVars => UNCHANGED <<arp_cache, heard>>
  BY DEF SendReturns, Resolved, Sleep, Wake, netVars
<1>5. UNCHANGED vars => UNCHANGED netVars
  BY DEF vars
<1>6. QED
  BY <1>1, <1>2, <1>3, <1>4, <1>5, Steps

\* Every step keeps the part about the command that waits.
LEMMA NextCallInv == CallInv /\ [Next]_vars => CallInv'
<1> SUFFICES ASSUME CallInv, [Next]_vars PROVE CallInv'
  OBVIOUS
<1>1. ASSUME NEW name \in {"arp", "ping", "udpsend"}, NEW ip, Call(name, ip) PROVE CallInv'
  <2>1. cmd' = [name |-> name, ip |-> ip]
    BY <1>1 DEF Call
  <2>2. QED
    BY <2>1 DEF CallInv
<1>2. SendReturns \/ net_poll \/ Resolved \/ Sleep \/ Wake => doing # "idle" /\ UNCHANGED cmd
  BY DEF SendReturns, net_poll, Resolved, Sleep, Wake
<1>3. UNCHANGED netVars \/ UNCHANGED vars => UNCHANGED <<doing, cmd>>
  BY DEF netVars, vars
<1>4. QED
  BY <1>1, <1>2, <1>3, Steps DEF CallInv

\* Init establishes the invariant.
LEMMA InitIInv == Init => IInv
BY InitRx, InitTx, InitCache DEF IInv, CallInv, Init

\* Every step keeps the invariant.
LEMMA NextIInv == IInv /\ [Next]_vars => IInv'
BY NextRxInv, NextTxInv, NextCacheInv, NextCallInv DEF IInv

\* The invariant of driver, cache and command holds in every reachable state, for
\* every size of the rings and of the cache.
THEOREM Invariance == Spec => []IInv
<1>1. QED
  BY InitIInv, NextIInv, PTL DEF Spec

-----------------------------------------------------------------------------

\* The receive ring is a queue for any ring size, however the card's arrivals
\* fall between the driver's reads (e1000.c:189-205).
THEOREM ReceiveRingIsQueue == Spec => []RxIsQueue
<1>1. IInv => RxIsQueue
  BY RxInvIsQueue DEF IInv
<1>2. QED
  BY <1>1, Invariance, PTL

\* The ARP cache holds the last announcement of every address in it, once, and
\* lacks an announced address only when it is full (net.c:65-84).
THEOREM CacheStaysLatest == Spec => []CacheIsLatest
<1>1. IInv => CacheIsLatest
  BY CacheInvIsLatest DEF IInv
<1>2. QED
  BY <1>1, Invariance, PTL

\* The length is returned only for the frame that has just left, for any ring
\* size and after any number of sends that were given up (e1000.c:183-186).
THEOREM ReportedIsSent == Spec => AckedIsSent
<1>1. IInv /\ [Next]_vars => [acked' # acked => wire = acked']_e1000Vars
  BY TxParts, SentWhenAcked DEF IInv
<1>2. QED
  BY <1>1, Invariance, PTL DEF Spec, AckedIsSent

\* Frames reach the cable in the order of the calls and never twice, also when
\* the ring has come round over descriptors that were never sent
\* (e1000.c:173-180).
THEOREM FramesInOrder == Spec => WireInOrder
<1>1. IInv /\ [Next]_vars => [TDH' # TDH => wire' > wire]_e1000Vars
  BY TxParts, TransmitStep DEF IInv
<1>2. QED
  BY <1>1, Invariance, PTL DEF Spec, WireInOrder

\* A step that hands over a packet hands over this one.
PacketToLatest ==
    handed' # handed /\ tx_ring'[tx_tail].frame.kind \in {"ping", "udpsend"}
    => tx_ring'[tx_tail].frame = [kind |-> cmd'.name, ip |-> cmd'.ip, mac |-> heard[cmd'.ip]]

\* What e1000_send hands over is the frame it was given.
LEMMA HandedOver ==
  ASSUME TxInv, NEW f, SendStarts(f), UNCHANGED <<TDH, wire>>, handed' # handed
  PROVE  tx_ring'[tx_tail].frame = f
<1>1. mmio
  BY DEF SendStarts, txVars
<1>2. QED
  BY <1>1, SendStep

\* A packet built from a cache hit carries the address heard last.
LEMMA PacketStep ==
  ASSUME CacheInv, Known(cmd'.ip), cmd'.name \in {"ping", "udpsend"}
  PROVE  Packet(cmd'.ip, arp_cache_get(cmd'.ip)) = [kind |-> cmd'.name, ip |-> cmd'.ip, mac |-> heard[cmd'.ip]]
<1>1. arp_cache_get(cmd'.ip) = heard[cmd'.ip]
  BY Looked
<1>2. QED
  BY <1>1, Zenon DEF Packet, EchoRequest, Datagram

\* Every packet of ping and udpsend goes to the last hardware address announced
\* for the address that was asked for (net.c:213-218, 300-305).
THEOREM PacketsGoToLatest == Spec => SentToLatest
<1>1. ASSUME IInv, [Next]_vars PROVE PacketToLatest
  <2> SUFFICES ASSUME handed' # handed, tx_ring'[tx_tail].frame.kind \in {"ping", "udpsend"}
               PROVE  tx_ring'[tx_tail].frame = [kind |-> cmd'.name, ip |-> cmd'.ip, mac |-> heard[cmd'.ip]]
    BY DEF PacketToLatest
  <2>0. TxInv /\ CacheInv /\ CallInv
    BY <1>1 DEF IInv
  <2>1. ASSUME NEW name \in {"arp", "ping", "udpsend"}, NEW ip, Call(name, ip)
        PROVE  tx_ring'[tx_tail].frame = [kind |-> cmd'.name, ip |-> cmd'.ip, mac |-> heard[cmd'.ip]]
    <3>1. cmd' = [name |-> name, ip |-> ip] /\ UNCHANGED <<TDH, wire>>
      BY <2>1 DEF Call, cardVars
    <3>2. CASE name # "arp" /\ Known(ip)
      <4>1. SendStarts(Packet(ip, arp_cache_get(ip)))
        BY <2>1, <3>2 DEF Call, Emit
      <4>2. tx_ring'[tx_tail].frame = Packet(ip, arp_cache_get(ip))
        BY <2>0, <3>1, <4>1, HandedOver
      <4>3. cmd'.name \in {"ping", "udpsend"} /\ cmd'.ip = ip
        BY <3>1, <3>2
      <4>4. QED
        BY <2>0, <3>2, <4>2, <4>3, PacketStep
    <3>3. CASE ~ (name # "arp" /\ Known(ip))
      <4>1. SendStarts(ArpRequest(ip))
        BY <2>1, <3>3 DEF Call, Emit
      <4>2. tx_ring'[tx_tail].frame = ArpRequest(ip)
        BY <2>0, <3>1, <4>1, HandedOver
      <4>3. tx_ring'[tx_tail].frame.kind = "arp"
        BY <4>2 DEF ArpRequest
      <4>4. QED
        BY <4>3
    <3>4. QED
      BY <3>2, <3>3
  <2>2. CASE Resolved
    <3>1. UNCHANGED <<cmd, TDH, wire>> /\ Known(cmd.ip) /\ doing = "poll"
      BY <2>2 DEF Resolved, cardVars
    <3>2. cmd.name # "arp"
      BY <2>2 DEF Resolved, txVars
    <3>3. SendStarts(Packet(cmd.ip, arp_cache_get(cmd.ip)))
      BY <2>2, <3>2 DEF Resolved, Emit
    <3>4. tx_ring'[tx_tail].frame = Packet(cmd.ip, arp_cache_get(cmd.ip))
      BY <2>0, <3>1, <3>3, HandedOver
    <3>5. cmd'.name \in {"ping", "udpsend"}
      BY <2>0, <3>1, <3>2 DEF CallInv
    <3>6. Known(cmd'.ip) /\ cmd'.ip = cmd.ip
      BY <3>1
    <3>7. Packet(cmd'.ip, arp_cache_get(cmd'.ip)) = [kind |-> cmd'.name, ip |-> cmd'.ip, mac |-> heard[cmd'.ip]]
      BY <2>0, <3>5, <3>6, PacketStep
    <3>8. QED
      BY <3>4, <3>6, <3>7
  <2>3. CASE net_poll
    <3> DEFINE f == rx_ring[rx_tail].frame
    <3>1. UNCHANGED <<TDH, wire>> /\ (handle_arp(f) \/ handle_ip(f))
      BY <2>3 DEF net_poll, cardVars
    <3>2. SendStarts(ArpReply(f)) \/ SendStarts(EchoReply(f))
      <4> HIDE DEF f
      <4> QED BY <3>1 DEF handle_arp, handle_ip, handle_icmp, handle_udp, Emit, txVars
    <3>3. tx_ring'[tx_tail].frame \in {ArpReply(f), EchoReply(f)}
      BY <2>0, <3>1, <3>2, HandedOver
    <3>4. tx_ring'[tx_tail].frame.kind \in {"arp reply", "echo reply"}
      <4>1. ArpReply(f).kind = "arp reply" /\ EchoReply(f).kind = "echo reply"
        BY DEF ArpReply, EchoReply
      <4>2. QED
        BY <3>3, <4>1
    <3>5. QED
      BY <3>4
  <2>4. SendReturns \/ Sleep \/ Wake \/ CardTransmits \/ (\E f \in Frames : CardReceives(f)) \/ UNCHANGED vars
        => UNCHANGED handed
    BY DEF SendReturns, Sleep, Wake, CardTransmits, CardReceives, vars, e1000Vars, txVars
  <2>5. QED
    BY <1>1, <2>1, <2>2, <2>3, <2>4, Steps
<1>2. IInv /\ [Next]_vars => [PacketToLatest]_vars
  BY <1>1
<1>3. QED
  BY <1>2, Invariance, PTL DEF Spec, SentToLatest, PacketToLatest
=============================================================================
