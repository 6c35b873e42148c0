------------------------------- MODULE E1000 -------------------------------
(***************************************************************************)
(* The network driver, kernel/e1000.c, and the card it shares two rings of *)
(* descriptors with.  The driver owns tx_tail and rx_tail, the card moves  *)
(* its head registers TDH and RDH, and each side tells the other by the    *)
(* tail registers TDT and RDT and the status byte of a descriptor.         *)
(*                                                                         *)
(* The driver runs only in the shell, so its steps interleave with the     *)
(* card's and with nothing else.  A frame is any value; the numbers that   *)
(* e1000_send gives to frames are there for the properties only.           *)
(***************************************************************************)
EXTENDS Naturals, Sequences

CONSTANTS NumTx,      \* E1000_NUM_TX
          NumRx,      \* E1000_NUM_RX
          NoFrame     \* what a descriptor holds before its first use

ASSUME RingAssumption == /\ NumTx \in Nat \ {0}
                         /\ NumRx \in Nat \ {0}

VARIABLES mmio,     \* mmio_base is set: e1000_init found a card
          tx_ring,  \* descriptors and their buffers
          tx_tail,  \* the next descriptor e1000_send uses
          TDH, TDT, \* the card's transmit registers
          rx_ring,  \* descriptors and their buffers
          rx_tail,  \* the next descriptor e1000_recv looks at
          RDH, RDT, \* the card's receive registers
          handed,   \* frames given to e1000_send so far
          acked,    \* number of the last one for which it returned the length
          wire,     \* number of the last frame on the cable
          queued    \* frames in the ring that e1000_recv has not returned yet

txVars == <<tx_ring, tx_tail, TDT, handed>>
rxVars == <<rx_ring, rx_tail, RDT, queued>>
cardVars == <<TDH, RDH, wire>>
e1000Vars == <<mmio, txVars, rxVars, cardVars, acked>>

TxIndex == 0..NumTx - 1
RxIndex == 0..NumRx - 1

NextTx(i) == (i + 1) % NumTx
NextRx(i) == (i + 1) % NumRx

-----------------------------------------------------------------------------
(* e1000_init: both rings are empty, and the card may fill all receive     *)
(* descriptors but the last.  Without a card nothing is set up.            *)
e1000_init ==
    /\ mmio \in BOOLEAN
    /\ tx_ring = [i \in TxIndex |-> [no |-> 0, frame |-> NoFrame, status |-> FALSE]]
    /\ rx_ring = [i \in RxIndex |-> [frame |-> NoFrame, status |-> FALSE]]
    /\ tx_tail = 0 /\ TDH = 0 /\ TDT = 0
    /\ rx_tail = 0 /\ RDH = 0 /\ RDT = NumRx - 1
    /\ handed = 0 /\ acked = 0 /\ wire = 0 /\ queued = <<>>

-----------------------------------------------------------------------------
(* e1000_send is two steps: it hands a descriptor to the card, then waits. *)

(* Mutant: the status byte is not cleared. *)
Mut_Descriptor(n, f) == [no |-> n, frame |-> f, status |-> tx_ring[tx_tail].status]

(* The descriptor for frame number n: its status is cleared. *)
Descriptor(n, f) == [no |-> n, frame |-> f, status |-> FALSE]

(* Mutant: the tail register is written one too far. *)
Mut_SendStarts(f) ==
    IF mmio
    THEN /\ tx_ring' = [tx_ring EXCEPT ![tx_tail] = Descriptor(handed + 1, f)]
         /\ tx_tail' = NextTx(tx_tail)
         /\ TDT' = NextTx(tx_tail')
         /\ handed' = handed + 1
    ELSE UNCHANGED txVars

(* The copy into the buffer up to the write of TDT.  Without a card the    *)
(* function returns before it touches anything.                            *)
SendStarts(f) ==
    IF mmio
    THEN /\ tx_ring' = [tx_ring EXCEPT ![tx_tail] = Descriptor(handed + 1, f)]
         /\ tx_tail' = NextTx(tx_tail)
         /\ TDT' = tx_tail'
         /\ handed' = handed + 1
    ELSE UNCHANGED txVars

(* desc, the descriptor that e1000_send waits for. *)
desc == tx_ring[(tx_tail + NumTx - 1) % NumTx]

(* Mutant: the wait has no timeout. *)
Mut_SendEnds == mmio /\ desc.status /\ acked' = handed

(* The wait ends when the card has set the status, or after 100000 looks.  *)
(* The number of the frame is recorded when the length is returned.        *)
SendEnds ==
    \/ /\ mmio
       /\ desc.status
       /\ acked' = handed
    \/ /\ ~mmio \/ ~desc.status
       /\ UNCHANGED acked

(* e1000_recv finds a frame. *)
Received == mmio /\ rx_ring[rx_tail].status

(* Mutant: the status byte is left set. *)
Mut_e1000_recv ==
    /\ RDT' = rx_tail
    /\ rx_tail' = NextRx(rx_tail)
    /\ queued' = Tail(queued)
    /\ UNCHANGED rx_ring

(* The descriptor goes back to the card. *)
e1000_recv ==
    /\ rx_ring' = [rx_ring EXCEPT ![rx_tail].status = FALSE]
    /\ RDT' = rx_tail
    /\ rx_tail' = NextRx(rx_tail)
    /\ queued' = Tail(queued)

-----------------------------------------------------------------------------
(* The card sends what the descriptor at its head holds, unless the head   *)
(* has reached the tail.                                                   *)
CardTransmits ==
    /\ mmio
    /\ TDH # TDT
    /\ wire' = tx_ring[TDH].no
    /\ tx_ring' = [tx_ring EXCEPT ![TDH].status = TRUE]
    /\ TDH' = NextTx(TDH)
    /\ UNCHANGED <<mmio, tx_tail, TDT, handed, rxVars, RDH, acked>>

(* The card stores a frame, unless the ring is full; then it drops it.     *)
CardReceives(f) ==
    /\ mmio
    /\ RDH # RDT
    /\ rx_ring' = [rx_ring EXCEPT ![RDH] = [frame |-> f, status |-> TRUE]]
    /\ RDH' = NextRx(RDH)
    /\ queued' = Append(queued, f)
    /\ UNCHANGED <<mmio, txVars, rx_tail, RDT, TDH, wire, acked>>

-----------------------------------------------------------------------------
(* The receive ring is a queue, e1000.c:189-205: the frames that were put  *)
(* into it and not yet read lie in order behind rx_tail, those descriptors *)
(* and no others are marked, and one descriptor always stays free.         *)
RxIsQueue ==
    /\ Len(queued) < NumRx
    /\ \A k \in 1..NumRx :
         LET d == rx_ring[(rx_tail + k - 1) % NumRx]
         IN  /\ d.status <=> k =< Len(queued)
             /\ k =< Len(queued) => d.frame = queued[k]

(* e1000_send returns the length only of the frame that has just left,     *)
(* e1000.c:186: a status byte that an earlier use of the descriptor left,  *)
(* or that belongs to a frame that was given up, is never taken for it.    *)
AckedIsSent == [][acked' # acked => wire = acked']_e1000Vars

(* Frames reach the cable in the order of the calls and never twice,       *)
(* e1000.c:173-180, also when calls were given up and the ring has come    *)
(* round over descriptors the card never sent.                             *)
WireInOrder == [][TDH' # TDH => wire' > wire]_e1000Vars
=============================================================================
