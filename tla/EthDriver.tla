------------------------------ MODULE EthDriver ------------------------------
(***************************************************************************)
(* platform/stm32/ethernet/driver.cpp: the buffers that the Ethernet MAC,   *)
(* the vendor's HAL and the network service pass to each other.             *)
(*                                                                         *)
(* External, as this file uses it: the HAL, which keeps a ring of receive   *)
(* descriptors, asks for buffers and links the parts of a frame through the *)
(* callbacks here, and a ring of frames to send; and the DMA, which fills   *)
(* and empties buffers at any time while the link runs.                     *)
(*                                                                         *)
(* A byte is <<n, i>>, byte i of frame n; EtBuffer bytes fill a buffer.     *)
(***************************************************************************)
EXTENDS Integers, Sequences

LOCAL INSTANCE SequencesExt

CONSTANTS
    EtDescs,        \* ETH_RX_DESC_CNT
    EtSlots,        \* receive buffers: twice as many
    EtSends,        \* ETH_TX_DESC_CNT, also the transmit buffers
    EtBuffer,       \* 1536, the bytes of a buffer and of the service's frame
    EtMaxSize,      \* the longest frame on the wire
    EtMaxFrames     \* frames received, and frames sent, in a behaviour

ASSUME EtAssumption == EtDescs \in Nat \ {0} /\ EtSlots >= EtDescs /\ EtBuffer > 0

VARIABLES
    et,             \* initialized, running, current, fault
    etRx,           \* dma.rx: used, size, next, and the bytes of each buffer
    etRing,         \* the receive descriptors: owner, buffer, frame, last part
    etHal,          \* the HAL's indices, and the head and tail of a packet
    etWire,         \* frames on the wire so far, and the part that comes next
    etSince,        \* frames before the link last came up (history)
    etOut,          \* what Receive returned last: size and bytes
    etTx,           \* dma.tx: used, and the frame in each buffer
    etQueue,        \* frames handed to the HAL: buffer, frame, whether sent
    etSent          \* frames given to Transmit so far

etRxVars == <<etRx, etRing, etHal>>
etTxVars == <<etTx, etQueue>>
etVars == <<et, etRxVars, etWire, etSince, etOut, etTxVars, etSent>>

-----------------------------------------------------------------------------

EtSlotSet == 1 .. EtSlots
EtFreeRx == [used |-> FALSE, size |-> 0, next |-> 0, bytes |-> <<>>]
EtNoDesc == [own |-> "cpu", slot |-> 0, last |-> FALSE]
EtResetHal == [read |-> 0, build |-> 0, missing |-> 0, start |-> 0, end |-> 0]

\* InitMac: descriptors, buffers and the handle are reset together.
EtInitMac ==
    /\ etRx' = [s \in EtSlotSet |-> EtFreeRx]
    /\ etRing' = [d \in 0 .. EtDescs - 1 |-> EtNoDesc]
    /\ etHal' = EtResetHal
    /\ etTx' = [s \in 1 .. EtSends |-> [used |-> FALSE, frame |-> 0]]
    /\ etQueue' = <<>>

EtInit ==
    /\ et = [initialized |-> FALSE, running |-> FALSE, link |-> "down", fault |-> FALSE]
    /\ etRx = [s \in EtSlotSet |-> EtFreeRx]
    /\ etRing = [d \in 0 .. EtDescs - 1 |-> EtNoDesc]
    /\ etHal = EtResetHal
    /\ etTx = [s \in 1 .. EtSends |-> [used |-> FALSE, frame |-> 0]]
    /\ etQueue = <<>>
    /\ etWire = [frame |-> 0, size |-> 0, part |-> 0] /\ etSince = 0 /\ etSent = 0
    /\ etOut = [size |-> 0, bytes |-> <<>>]

EtTypeOK ==
    /\ et.link \in {"down", "slow", "fast", "fault"}
    /\ \A s \in EtSlotSet : etRx[s].next \in 0 .. EtSlots
    /\ \A d \in DOMAIN etRing : etRing[d].slot \in 0 .. EtSlots
    /\ etHal.missing \in 0 .. EtDescs
    /\ Len(etQueue) <= EtSends

-----------------------------------------------------------------------------
(* The callbacks, and the HAL's use of them.                               *)

\* RxAllocateCallback: the first buffer not in use, or none.
EtFree(rx) == {s \in EtSlotSet : ~rx[s].used}
EtAllocated(rx) == CHOOSE s \in EtFree(rx) : \A t \in EtFree(rx) : s <= t

\* HAL, ETH_UpdateDescriptor: descriptors without a buffer get one, in order,
\* until there is none.
EtSupply(r, i) ==
    IF r.hal.missing = 0 \/ EtFree(r.rx) = {} THEN r
    ELSE LET s == EtAllocated(r.rx) IN
         [rx |-> [r.rx EXCEPT ![s] = [EtFreeRx EXCEPT !.used = TRUE]],
          ring |-> [r.ring EXCEPT ![r.hal.build] = [EtNoDesc EXCEPT !.own = "dma", !.slot = s]],
          hal |-> [r.hal EXCEPT !.build = (@ + 1) % EtDescs, !.missing = @ - 1]]

EtSupplied(rx, ring, hal) ==
    FoldLeft(EtSupply, [rx |-> rx, ring |-> ring, hal |-> hal], [i \in 1 .. EtDescs |-> i])

\* Mutant: the tail of the packet before decides, not the head.
EtLinkTail(h, d) ==
    [rx |-> [s \in EtSlotSet |->
               IF s = d.slot THEN [h.rx[s] EXCEPT !.size = Len(h.rx[s].bytes), !.next = 0]
               ELSE IF s = h.end THEN [h.rx[s] EXCEPT !.next = d.slot]
               ELSE h.rx[s]],
     start |-> IF h.end = 0 THEN d.slot ELSE h.start,
     end |-> d.slot]

\* RxLinkCallback: a part becomes the head of a packet, or follows the tail.
\* The tail of the packet before is still there when a new head is set.
EtLink(h, d) ==
    [rx |-> [s \in EtSlotSet |->
               IF s = d.slot
               THEN [h.rx[s] EXCEPT !.size = Len(h.rx[s].bytes), !.next = 0]
               ELSE IF h.start # 0 /\ s = h.end THEN [h.rx[s] EXCEPT !.next = d.slot]
               ELSE h.rx[s]],
     start |-> IF h.start = 0 THEN d.slot ELSE h.start,
     end |-> d.slot]

\* HAL_ETH_ReadData looks at descriptors the DMA has filled, up to the last
\* part of a packet.
EtAhead(k) == etRing[(etHal.read + k) % EtDescs]
EtParts ==
    LET filled == {c \in 0 .. EtDescs - etHal.missing :
                     \A k \in 0 .. c - 1 : /\ EtAhead(k).own = "cpu"
                                           /\ k < c - 1 => ~EtAhead(k).last}
        count == CHOOSE c \in filled : \A b \in filled : b <= c
    IN  [k \in 1 .. count |-> EtAhead(k - 1)]

\* The buffers of a packet, along next from its head.
EtChain(rx, head) ==
    LET walk[i \in 1 .. EtSlots] ==
          IF i = 1 THEN head ELSE IF walk[i - 1] = 0 THEN 0 ELSE rx[walk[i - 1]].next
    IN  SelectSeq(walk, LAMBDA s : s # 0)

-----------------------------------------------------------------------------
(* The driver's functions.                                                 *)

\* Init: the MAC, then the PHY; a failure leaves the driver stopped.
EtDriverInit ==
    /\ ~et.initialized
    /\ EtInitMac
    /\ \E ok \in BOOLEAN :
         et' = [et EXCEPT !.initialized = ok, !.fault = FALSE]
    /\ UNCHANGED <<etWire, etSince, etOut, etSent>>

\* Stop.
EtStop ==
    /\ et.initialized
    /\ et' = [et EXCEPT !.initialized = FALSE, !.running = FALSE, !.link = "down"]
    /\ UNCHANGED <<etRxVars, etWire, etSince, etOut, etTxVars, etSent>>

\* Mutant: the handle keeps the packet it was linking.
EtStartedStale ==
    LET fresh == EtSupplied([s \in EtSlotSet |-> EtFreeRx],
                            [d \in 0 .. EtDescs - 1 |-> EtNoDesc],
                            [EtResetHal EXCEPT !.missing = EtDescs,
                               !.start = etHal.start, !.end = etHal.end])
    IN  /\ etRx' = fresh.rx /\ etRing' = fresh.ring /\ etHal' = fresh.hal
        /\ etTx' = [s \in 1 .. EtSends |-> [used |-> FALSE, frame |-> 0]]
        /\ etQueue' = <<>>

\* HAL_ETH_Start_IT: a buffer for every descriptor.
EtStarted ==
    LET fresh == EtSupplied([s \in EtSlotSet |-> EtFreeRx],
                            [d \in 0 .. EtDescs - 1 |-> EtNoDesc],
                            [EtResetHal EXCEPT !.missing = EtDescs])
    IN  /\ etRx' = fresh.rx /\ etRing' = fresh.ring /\ etHal' = fresh.hal
        /\ etTx' = [s \in 1 .. EtSends |-> [used |-> FALSE, frame |-> 0]]
        /\ etQueue' = <<>>

\* ReadLink: a change of the link stops the MAC; a link that is up resets
\* ownership and starts it again with the new speed.
EtReadLink(next) ==
    /\ et.initialized /\ ~et.fault /\ next # et.link
    /\ \/ /\ next \in {"down", "fault"}
          /\ et' = [et EXCEPT !.running = FALSE, !.link = next]
          /\ UNCHANGED <<etRxVars, etTxVars, etWire, etSince>>
       \/ /\ next \in {"slow", "fast"}
          /\ et' = [et EXCEPT !.running = TRUE, !.link = next]
          /\ EtStarted
          /\ etWire' = [etWire EXCEPT !.size = 0, !.part = 0]
          /\ etSince' = etWire.frame
       \/ /\ next \in {"slow", "fast"}        \* HAL_ETH_Init or Start fails
          /\ et' = [et EXCEPT !.running = FALSE, !.fault = TRUE]
          /\ EtInitMac
          /\ UNCHANGED <<etWire, etSince>>
    /\ UNCHANGED <<etOut, etSent>>

\* HAL_ETH_ReleaseTxPacket and TxFreeCallback: the frames sent, in order.
EtSentPrefix ==
    CHOOSE n \in 0 .. Len(etQueue) :
        /\ \A i \in 1 .. n : etQueue[i].sent
        /\ n < Len(etQueue) => ~etQueue[n + 1].sent

EtReleased ==
    [tx |-> [s \in DOMAIN etTx |->
               IF \E i \in 1 .. EtSentPrefix : etQueue[i].slot = s
               THEN [etTx[s] EXCEPT !.used = FALSE] ELSE etTx[s]],
     queue |-> SubSeq(etQueue, EtSentPrefix + 1, Len(etQueue))]

\* Poll: a fault stops the MAC, otherwise buffers sent are released.
EtPoll ==
    /\ et.running
    /\ IF et.fault
       THEN et' = [et EXCEPT !.running = FALSE] /\ UNCHANGED etTxVars
       ELSE /\ etTx' = EtReleased.tx /\ etQueue' = EtReleased.queue
            /\ UNCHANGED et
    /\ UNCHANGED <<etRxVars, etWire, etSince, etOut, etSent>>

\* What Receive copies: parts as long as all so far fit.
EtCopied(rx, chain) ==
    LET before(i) == FoldLeft(LAMBDA n, s : n + rx[s].size, 0, SubSeq(chain, 1, i))
        fits(i) == before(i) <= EtBuffer
    IN  [size |-> before(Len(chain)),
         bytes |-> FoldLeft(LAMBDA b, i : IF fits(i) THEN b \o rx[chain[i]].bytes ELSE b,
                            <<>>, [i \in DOMAIN chain |-> i])]

\* Receive: ReadData links what has come and supplies new buffers; a packet
\* that is whole is copied and its buffers are freed.
EtReceive ==
    /\ et.running
    /\ LET parts == EtParts
           linked == FoldLeft(EtLink, [rx |-> etRx, start |-> etHal.start,
                                       end |-> etHal.end], parts)
           whole == parts # <<>> /\ parts[Len(parts)].last
           cleared == [d \in 0 .. EtDescs - 1 |->
                         IF \E k \in 1 .. Len(parts) : d = (etHal.read + k - 1) % EtDescs
                         THEN EtNoDesc ELSE etRing[d]]
           supplied == EtSupplied(linked.rx, cleared,
                         [read |-> (etHal.read + Len(parts)) % EtDescs,
                          build |-> etHal.build, missing |-> etHal.missing + Len(parts),
                          start |-> IF whole THEN 0 ELSE linked.start, end |-> linked.end])
           chain == IF whole THEN EtChain(supplied.rx, linked.start) ELSE <<>>
       IN  /\ parts # <<>> \/ etHal.missing # 0
           /\ etRx' = [s \in EtSlotSet |->
                         IF \E i \in DOMAIN chain : chain[i] = s
                         THEN [supplied.rx[s] EXCEPT !.used = FALSE] ELSE supplied.rx[s]]
           /\ etRing' = supplied.ring /\ etHal' = supplied.hal
           /\ etOut' = IF whole THEN EtCopied(supplied.rx, chain)
                       ELSE [size |-> 0, bytes |-> <<>>]
    /\ UNCHANGED <<et, etWire, etSince, etTxVars, etSent>>

\* Transmit: buffers sent are released, then a free one takes the frame.
EtTransmit ==
    /\ et.running /\ etSent < EtMaxFrames
    /\ LET r == EtReleased
           free == {s \in DOMAIN r.tx : ~r.tx[s].used}
           slot == CHOOSE s \in free : \A t \in free : s <= t
           accepted == free # {} /\ Len(r.queue) < EtSends
       IN  /\ etTx' = IF accepted
                      THEN [r.tx EXCEPT ![slot] = [used |-> TRUE, frame |-> etSent + 1]]
                      ELSE IF free = {} THEN r.tx
                      ELSE [r.tx EXCEPT ![slot].frame = etSent + 1]
           /\ etQueue' = IF accepted
                         THEN Append(r.queue, [slot |-> slot, frame |-> etSent + 1,
                                               sent |-> FALSE])
                         ELSE r.queue
    /\ etSent' = etSent + 1
    /\ UNCHANGED <<et, etRxVars, etWire, etSince, etOut>>

\* ErrorCallback from the interrupt: a fatal bus error needs a reset.
EtError ==
    /\ et.running /\ ~et.fault
    /\ et' = [et EXCEPT !.fault = TRUE]
    /\ UNCHANGED <<etRxVars, etWire, etSince, etOut, etTxVars, etSent>>

-----------------------------------------------------------------------------
(* The wire and the DMA.                                                   *)

\* The descriptor the DMA fills next: the first it owns after those the HAL
\* has still to read.
EtNextFill ==
    LET own == {k \in 0 .. EtDescs - etHal.missing - 1 : EtAhead(k).own = "dma"}
    IN  IF own = {} THEN -1
        ELSE (etHal.read + CHOOSE k \in own : \A j \in own : k <= j) % EtDescs

\* A frame begins; without a descriptor it is lost.
EtArrive ==
    /\ et.running /\ etWire.size = 0 /\ etWire.frame < EtMaxFrames
    /\ \E size \in 1 .. EtMaxSize :
         etWire' = [frame |-> etWire.frame + 1, part |-> 0,
                    size |-> IF EtNextFill = -1 THEN 0 ELSE size]
    /\ UNCHANGED <<et, etRxVars, etSince, etOut, etTxVars, etSent>>

\* The DMA fills one buffer with the next part of the frame.
EtFill ==
    /\ et.running /\ etWire.size > 0 /\ EtNextFill # -1
    /\ LET d == EtNextFill
           from == etWire.part
           to == IF etWire.size - from <= EtBuffer THEN etWire.size ELSE from + EtBuffer
       IN  /\ etRx' = [etRx EXCEPT ![etRing[d].slot].bytes =
                         [i \in 1 .. to - from |-> <<etWire.frame, from + i>>]]
           /\ etRing' = [etRing EXCEPT ![d].own = "cpu", ![d].last = to = etWire.size]
           /\ etWire' = IF to = etWire.size THEN [etWire EXCEPT !.size = 0, !.part = 0]
                        ELSE [etWire EXCEPT !.part = to]
    /\ UNCHANGED <<et, etHal, etSince, etOut, etTxVars, etSent>>

\* The DMA sends the first frame not sent yet.
EtSend ==
    /\ et.running
    /\ \E i \in DOMAIN etQueue :
         /\ ~etQueue[i].sent /\ \A j \in 1 .. i - 1 : etQueue[j].sent
         /\ etQueue' = [etQueue EXCEPT ![i].sent = TRUE]
    /\ UNCHANGED <<et, etRxVars, etWire, etSince, etOut, etTx, etSent>>

EtNext ==
    \/ EtDriverInit \/ EtStop \/ EtPoll \/ EtReceive \/ EtTransmit
    \/ \E next \in {"down", "slow", "fast", "fault"} : EtReadLink(next)
    \/ EtError \/ EtArrive \/ EtFill \/ EtSend

EtSpec == EtInit /\ [][EtNext]_etVars

-----------------------------------------------------------------------------
(* Properties.                                                             *)

\* While the MAC runs a receive buffer is in use exactly while one descriptor
\* or one place of the packet being linked has it, a transmit buffer exactly
\* while one queued frame has it, and what is queued is what will be sent: no
\* buffer leaks, none has two owners, none changes under the DMA.
EtOwned ==
    et.running =>
      LET chain == EtChain(etRx, etHal.start)
          descs(s) == {d \in DOMAIN etRing : etRing[d].slot = s}
          links(s) == {i \in DOMAIN chain : chain[i] = s}
          sends(s) == {i \in DOMAIN etQueue : etQueue[i].slot = s}
      IN  /\ \A s \in EtSlotSet :
               /\ etRx[s].used <=> descs(s) # {} \/ links(s) # {}
               /\ \A d \in descs(s) : links(s) = {} /\ descs(s) = {d}
          /\ \A s \in DOMAIN etTx :
               /\ etTx[s].used <=> sends(s) # {}
               /\ \A i \in sends(s) : sends(s) = {i} /\ etTx[s].frame = etQueue[i].frame

\* A frame that Receive returns and that fits is one frame of the wire, whole
\* and in order, that came after the link last came up: nothing is left over
\* from the frame before, from a frame cut off, or from the last connection.
EtWhole ==
    [][/\ etOut' # etOut /\ etOut'.size \in 1 .. EtBuffer =>
            /\ Len(etOut'.bytes) = etOut'.size
            /\ \A i \in 1 .. etOut'.size : etOut'.bytes[i] = <<etOut'.bytes[1][1], i>>
            /\ etOut'.bytes[1][1] > etSince]_etVars

\* Buffers and frames.
EtFrames == [](EtTypeOK /\ EtOwned) /\ EtWhole

=============================================================================
