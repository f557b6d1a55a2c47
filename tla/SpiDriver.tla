------------------------------ MODULE SpiDriver ------------------------------
(***************************************************************************)
(* SpiBus of platform/stm32/bus/driver.h, the interrupt-driven SPI driver   *)
(* below hal::Controller, with the DMA engines of the two boards            *)
(* (platform/stm32h7/spi_dma.h, platform/stm32h5/spi_dma.h).                *)
(*                                                                         *)
(* The controller begins a transaction, starts its actions one after the   *)
(* other, polls from the interrupts and finishes; its deadline may finish  *)
(* a transaction at any time.  Shifting, the FIFOs, the DMA channels and    *)
(* their flags belong to the hardware (external).  The byte at position i   *)
(* of the caller's transmit buffer is i, the fill byte is 0, and the k-th   *)
(* byte the device answers in an action is k.                               *)
(***************************************************************************)
EXTENDS Integers, Sequences, SequencesExt

CONSTANTS
    SpMaxTotal,     \* bytes of one action, at most
    SpMaxActions,   \* actions of one transaction, at most
    SpPioChunk,     \* 65535, the largest TSIZE
    SpCapacity,     \* bytes of one DMA staging buffer
    SpThreshold,    \* 32, the fewest bytes worth a DMA transfer
    SpFifo          \* depth of the hardware FIFOs

VARIABLES
    spPart,         \* the board: "h7", "h5", or "none" without DMA
    spPhase,        \* what the controller knows of the driver
    spOp,           \* operation and size of action_, and actions still to start
    spPos,          \* sent_, received_, chunk_end_
    spActive,       \* active_
    spDmaActive,    \* dma_active_
    spSelected,     \* selected_ and the chip select
    spReg,          \* the SPI registers and FIFOs
    spDma,          \* the two DMA channels
    spWire,         \* bytes clocked out in the current action
    spRx            \* the caller's receive buffer

spVars == <<spPart, spPhase, spOp, spPos, spActive, spDmaActive, spSelected,
            spReg, spDma, spWire, spRx>>

-----------------------------------------------------------------------------

SpKinds == {"write", "read", "exchange", "idle"}

SpNoOp == [kind |-> "idle", total |-> 0, left |-> 0]
SpNoPos == [sent |-> 0, received |-> 0, end |-> 0]

\* The registers after an RCC reset, or with SPE cleared: FIFOs empty.
SpResetReg == [ier |-> {}, dmaen |-> FALSE, size |-> 0, clocked |-> 0,
               eot |-> FALSE, err |-> FALSE, tx |-> <<>>, rx |-> <<>>]

\* One DMA channel: armed with what is left to move, its flags and NVIC enable.
SpIdleDma == [en |-> FALSE, irq |-> FALSE, tc |-> FALSE, err |-> FALSE,
              left |-> 0, staging |-> <<>>]

SpReads(kind) == kind \in {"read", "exchange"}
SpWrites(kind) == kind \in {"write", "exchange"}

\* The byte the driver sends at position i.
SpByte(kind, i) == IF SpWrites(kind) THEN i ELSE 0

SpTypeOK ==
    /\ spPart \in {"none", "h7", "h5"}
    /\ spPhase \in {"down", "ready", "begun", "running", "ok", "failed", "faulted"}
    /\ spOp \in [kind : SpKinds, total : 0 .. SpMaxTotal, left : 0 .. SpMaxActions]
    /\ spPos \in [sent : 0 .. SpMaxTotal, received : 0 .. SpMaxTotal,
                  end : 0 .. SpMaxTotal]
    /\ {spActive, spDmaActive, spSelected} \subseteq BOOLEAN
    /\ spReg.ier \subseteq {"eot", "err", "rxp", "txp"}
    /\ Len(spReg.tx) <= SpFifo /\ Len(spReg.rx) <= SpFifo
    /\ \A c \in {"tx", "rx"} : Len(spDma[c].staging) <= SpCapacity

SpInit ==
    /\ spPart \in {"none", "h7", "h5"}
    /\ spPhase = "down" /\ spOp = SpNoOp /\ spPos = SpNoPos
    /\ spActive = FALSE /\ spDmaActive = FALSE /\ spSelected = FALSE
    /\ spReg = SpResetReg
    /\ spDma = [tx |-> SpIdleDma, rx |-> SpIdleDma]
    /\ spWire = <<>> /\ spRx = <<>>

-----------------------------------------------------------------------------
\* The DMA engines.

\* Spi1Dma::Stop of the H7: both streams are disabled; a stream that does not
\* quiesce keeps its enable bit, and then no flag is cleared.
DmStopH7(wedged) ==
    [c \in {"tx", "rx"} |->
        IF wedged = {} THEN SpIdleDma
        ELSE [spDma[c] EXCEPT !.irq = FALSE, !.en = @ /\ c \in wedged]]

\* Stop of the H5: the channels are stopped separately.
DmStopH5(wedged) ==
    [c \in {"tx", "rx"} |->
        IF c \in wedged THEN [spDma[c] EXCEPT !.irq = FALSE] ELSE SpIdleDma]

\* The ways Stop can end; only an enabled channel can fail to quiesce.
DmStops ==
    {[ok |-> wedged = {},
      dma |-> IF spPart = "h7" THEN DmStopH7(wedged) ELSE DmStopH5(wedged)] :
        wedged \in IF spPart = "none" THEN {{}}
                   ELSE SUBSET {c \in {"tx", "rx"} : spDma[c].en}}

\* Start: stage the bytes and arm both channels.
DmArmed(bytes) ==
    [tx |-> [SpIdleDma EXCEPT !.en = TRUE, !.irq = TRUE, !.left = Len(bytes),
                              !.staging = bytes],
     rx |-> [SpIdleDma EXCEPT !.en = TRUE, !.irq = TRUE, !.left = Len(bytes)]]

\* Poll: an error, both transfers complete, or wait; a completed channel's
\* interrupt is switched off.
DmPoll ==
    [status |-> CASE spDma.tx.err \/ spDma.rx.err -> "failed"
                  [] ~(spDma.tx.err \/ spDma.rx.err) /\ spDma.tx.tc /\ spDma.rx.tc -> "ok"
                  [] OTHER -> "wait",
     dma |-> [c \in {"tx", "rx"} |->
                IF spDma.tx.err \/ spDma.rx.err THEN spDma[c]
                ELSE [spDma[c] EXCEPT !.irq = @ /\ ~spDma[c].tc]]]

-----------------------------------------------------------------------------
\* The driver.

\* Mutant: a programmed chunk relies on the receive interrupt alone.
SpEnabledNoEnd(byDma) ==
    {"err"} \union (IF byDma THEN {"eot"} ELSE {"rxp", "txp"})

\* The interrupts Chunk() enables.
SpEnabled(byDma) ==
    {"eot", "err"} \union (IF byDma THEN {} ELSE {"rxp", "txp"})

\* Chunk(): from "received" on, by DMA when at least SpThreshold bytes remain.
\* Both channels are stopped by then, so the DMA engine accepts.
SpChunk(op, pos, dma) ==
    LET remaining == op.total - pos.received
        byDma == spPart # "none" /\ remaining >= SpThreshold
        limit == IF byDma THEN SpCapacity ELSE SpPioChunk
        count == IF remaining < limit THEN remaining ELSE limit
        bytes == [i \in 1 .. count |-> SpByte(op.kind, pos.sent + i)]
    IN  [pos |-> [pos EXCEPT !.end = pos.received + count],
         byDma |-> byDma,
         dma |-> IF byDma THEN DmArmed(bytes) ELSE dma,
         reg |-> [SpResetReg EXCEPT
                    !.ier = SpEnabled(byDma),
                    !.size = count, !.dmaen = byDma]]

SpTakeChunk(c) ==
    /\ spPos' = c.pos /\ spDmaActive' = c.byDma /\ spDma' = c.dma
    /\ spReg' = c.reg
    /\ spPhase' = "running"

\* init(): prepare or the DMA engine may refuse.
SpSetUp ==
    /\ spPhase = "down"
    /\ spPhase' \in {"ready", "faulted"}
    /\ UNCHANGED <<spPart, spOp, spPos, spActive, spDmaActive, spSelected, spReg,
                   spDma, spWire, spRx>>

\* begin(): an idle-clocks transaction has that one action and no chip select.
SpBegin ==
    /\ spPhase = "ready"
    /\ \E n \in 1 .. SpMaxActions, idle \in BOOLEAN :
        /\ idle => n = 1
        /\ spOp' = [SpNoOp EXCEPT !.left = n]
        /\ spSelected' = ~idle
    /\ spPhase' = "begun"
    /\ spReg' = SpResetReg
    /\ UNCHANGED <<spPart, spPos, spActive, spDmaActive, spDma, spWire, spRx>>

\* start() of the next action of the transaction.
SpStart ==
    /\ spPhase \in {"begun", "ok"} /\ spOp.left > 0
    /\ \E kind \in SpKinds, n \in 1 .. SpMaxTotal :
        /\ spSelected <=> kind # "idle"
        /\ spOp' = [kind |-> kind, total |-> n, left |-> spOp.left - 1]
        /\ SpTakeChunk(SpChunk(spOp', SpNoPos, spDma))
        /\ spRx' = [i \in 1 .. n |-> 0]
    /\ spActive' = TRUE
    /\ spWire' = <<>>
    /\ UNCHANGED <<spPart, spSelected>>

\* NextChunk(): the chunk is complete.
SpNextChunk(pos, dma) ==
    IF pos.received < spOp.total
    THEN /\ SpTakeChunk(SpChunk(spOp, pos, dma))
         /\ UNCHANGED spActive
    ELSE /\ spPhase' = "ok" /\ spActive' = FALSE
         /\ spReg' = SpResetReg /\ spPos' = pos
         /\ spDma' = dma /\ spDmaActive' = FALSE

\* Mutant: every chunk is read to the front of the buffer.
SpReadPlaceFront == 0

\* Where poll() copies a finished DMA chunk to.
SpReadPlace == spPos.received

\* The receive buffer after Read() of n staged bytes.
SpRead(n) ==
    [i \in DOMAIN spRx |->
        IF i \in SpReadPlace + 1 .. SpReadPlace + n
        THEN spDma.rx.staging[i - SpReadPlace] ELSE spRx[i]]

\* poll() while a DMA chunk is under way.
SpPollDma ==
    /\ spActive /\ spDmaActive
    /\ CASE spReg.err ->
              spPhase' = "failed"
              /\ UNCHANGED <<spPos, spActive, spDmaActive, spReg, spDma, spRx>>
         [] ~spReg.err /\ DmPoll.status = "failed" ->
              spPhase' = "failed"
              /\ UNCHANGED <<spPos, spActive, spDmaActive, spReg, spDma, spRx>>
         [] ~spReg.err /\ DmPoll.status = "ok" /\ spReg.eot ->
              \E stop \in DmStops :
                IF stop.ok
                THEN /\ spRx' = IF SpReads(spOp.kind)
                                THEN SpRead(spPos.end - spPos.received) ELSE spRx
                     /\ SpNextChunk([spPos EXCEPT !.sent = spPos.end,
                                                  !.received = spPos.end],
                                    stop.dma)
                ELSE /\ spPhase' = "failed" /\ spDma' = stop.dma
                     /\ spReg' = [spReg EXCEPT !.ier = {}, !.dmaen = FALSE]
                     /\ UNCHANGED <<spPos, spActive, spDmaActive, spRx>>
         [] OTHER ->
              spDma' = DmPoll.dma
              /\ UNCHANGED <<spPhase, spPos, spActive, spDmaActive, spReg, spRx>>
    /\ UNCHANGED <<spPart, spOp, spSelected, spWire>>

SpLeast(a, b) == IF a < b THEN a ELSE b

\* poll() byte by byte: drain the receive FIFO, refill the other.
SpPollBytes ==
    /\ spActive /\ ~spDmaActive
    /\ IF spReg.err
       THEN /\ spPhase' = "failed" /\ spActive' = FALSE
            /\ UNCHANGED <<spPos, spDmaActive, spReg, spDma, spRx>>
       ELSE LET r == SpLeast(Len(spReg.rx), spPos.end - spPos.received)
                w == SpLeast(SpFifo - Len(spReg.tx), spPos.end - spPos.sent)
                pos == [spPos EXCEPT !.sent = @ + w, !.received = @ + r]
            IN  /\ spRx' = [i \in DOMAIN spRx |->
                              IF SpReads(spOp.kind)
                                 /\ i \in spPos.received + 1 .. pos.received
                              THEN spReg.rx[i - spPos.received] ELSE spRx[i]]
                /\ IF spReg.eot /\ pos.received = spPos.end
                   THEN SpNextChunk(pos, spDma)
                   ELSE /\ spPos' = pos
                        /\ spReg' =
                             [spReg EXCEPT
                                !.tx = @ \o [i \in 1 .. w |->
                                               SpByte(spOp.kind, spPos.sent + i)],
                                !.rx = SubSeq(@, r + 1, Len(@)),
                                !.ier = IF pos.sent = spPos.end
                                        THEN @ \ {"txp"} ELSE @]
                        /\ UNCHANGED <<spPhase, spActive, spDmaActive, spDma>>
    /\ UNCHANGED <<spPart, spOp, spSelected, spWire>>

\* The flags that request an interrupt, from the SPI or a DMA channel.
SpPending ==
    \/ "err" \in spReg.ier /\ spReg.err
    \/ "eot" \in spReg.ier /\ spReg.eot
    \/ "rxp" \in spReg.ier /\ spReg.rx # <<>>
    \/ "txp" \in spReg.ier /\ Len(spReg.tx) < SpFifo
    \/ \E c \in {"tx", "rx"} : spDma[c].irq /\ (spDma[c].tc \/ spDma[c].err)

SpInterrupt == SpPending /\ spPhase = "running" /\ (SpPollDma \/ SpPollBytes)

\* finish(), after the last action, a failure or the controller's deadline, and
\* again as reset().
SpFinish ==
    /\ \/ spPhase \in {"running", "failed", "faulted"}
       \/ spPhase = "ok" /\ spOp.left = 0
    /\ \E stop \in DmStops :
        /\ spDma' = stop.dma
        /\ spPhase' = IF stop.ok THEN "ready" ELSE "faulted"
    /\ spReg' = SpResetReg
    /\ spActive' = FALSE /\ spDmaActive' = FALSE /\ spSelected' = FALSE
    /\ spOp' = SpNoOp /\ spPos' = SpNoPos /\ spWire' = <<>> /\ spRx' = <<>>
    /\ UNCHANGED spPart

-----------------------------------------------------------------------------
\* The hardware.

\* One byte is exchanged; a full receive FIFO overruns.
SpClock ==
    /\ spReg.clocked < spReg.size /\ spReg.tx # <<>>
    /\ spWire' = Append(spWire, Head(spReg.tx))
    /\ spReg' = [spReg EXCEPT
                   !.tx = Tail(@),
                   !.clocked = @ + 1,
                   !.err = @ \/ Len(spReg.rx) = SpFifo,
                   !.rx = IF Len(@) = SpFifo THEN @ ELSE Append(@, Len(spWire) + 1)]
    /\ UNCHANGED <<spPart, spPhase, spOp, spPos, spActive, spDmaActive,
                   spSelected, spDma, spRx>>

\* The end of the chunk is flagged, after its last byte.
SpEndFlag ==
    /\ spReg.size > 0 /\ spReg.clocked = spReg.size /\ ~spReg.eot
    /\ spReg' = [spReg EXCEPT !.eot = TRUE]
    /\ UNCHANGED <<spPart, spPhase, spOp, spPos, spActive, spDmaActive,
                   spSelected, spDma, spWire, spRx>>

\* A transmit request served by its channel.
DmSend ==
    /\ spReg.dmaen /\ spDma.tx.en /\ spDma.tx.left > 0 /\ Len(spReg.tx) < SpFifo
    /\ LET done == Len(spDma.tx.staging) - spDma.tx.left IN
       spReg' = [spReg EXCEPT !.tx = Append(@, spDma.tx.staging[done + 1])]
    /\ spDma' = [spDma EXCEPT !.tx.left = @ - 1, !.tx.tc = spDma.tx.left = 1]
    /\ UNCHANGED <<spPart, spPhase, spOp, spPos, spActive, spDmaActive,
                   spSelected, spWire, spRx>>

\* A receive request served by its channel.
DmReceive ==
    /\ spReg.dmaen /\ spDma.rx.en /\ spDma.rx.left > 0 /\ spReg.rx # <<>>
    /\ spReg' = [spReg EXCEPT !.rx = Tail(@)]
    /\ spDma' = [spDma EXCEPT !.rx.left = @ - 1, !.rx.tc = spDma.rx.left = 1,
                              !.rx.staging = Append(@, Head(spReg.rx))]
    /\ UNCHANGED <<spPart, spPhase, spOp, spPos, spActive, spDmaActive,
                   spSelected, spWire, spRx>>

\* A bus or a DMA error while a chunk is under way.
SpGlitch ==
    /\ spPhase = "running"
    /\ \/ spReg' = [spReg EXCEPT !.err = TRUE] /\ UNCHANGED spDma
       \/ \E c \in {"tx", "rx"} :
            /\ spDma[c].en
            /\ spDma' = [spDma EXCEPT ![c].err = TRUE] /\ UNCHANGED spReg
    /\ UNCHANGED <<spPart, spPhase, spOp, spPos, spActive, spDmaActive,
                   spSelected, spWire, spRx>>

SpNext ==
    \/ SpSetUp \/ SpBegin \/ SpStart \/ SpInterrupt \/ SpFinish
    \/ SpClock \/ SpEndFlag \/ DmSend \/ DmReceive \/ SpGlitch

\* The peripheral and the DMA controller keep working, and an enabled interrupt
\* is taken.  The controller's deadline is not used.
SpFairness ==
    /\ WF_spVars(SpClock) /\ WF_spVars(DmSend) /\ WF_spVars(DmReceive)
    /\ WF_spVars(SpEndFlag) /\ WF_spVars(SpInterrupt)

SpSpec == SpInit /\ [][SpNext]_spVars /\ SpFairness

-----------------------------------------------------------------------------

\* However an action is cut into DMA and programmed chunks, the bytes on the
\* wire are the caller's in order and the receive buffer holds the device's
\* answer in order; an action that poll() reports ok is whole both ways, and
\* every byte is clocked with the chip select its transaction asked for.
SpExact ==
    /\ \A i \in DOMAIN spWire : spWire[i] = SpByte(spOp.kind, i)
    /\ \A i \in DOMAIN spRx : spRx[i] \in {0, i}
    /\ spPhase = "ok" =>
        /\ Len(spWire) = spOp.total
        /\ SpReads(spOp.kind) => \A i \in 1 .. spOp.total : spRx[i] = i
    /\ spWire # <<>> => (spSelected <=> spOp.kind # "idle")

\* An action that was started has not ended.
SpRunning == spPhase = "running"

==============================================================================
