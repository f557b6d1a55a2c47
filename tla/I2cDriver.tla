------------------------------ MODULE I2cDriver ------------------------------
(***************************************************************************)
(* I2cBus of platform/stm32/bus/driver.h below hal::Controller, with the    *)
(* bus-clear waveform of lib/hal/i2c/bus_clear.h that a reset runs on GPIO  *)
(* pins.                                                                    *)
(*                                                                         *)
(* The controller begins a transaction, starts its actions, polls from the *)
(* interrupts and finishes; its deadline may finish a transaction, or abort *)
(* a reset, at any time.  The peripheral and one device on the wire are     *)
(* external: the device may refuse a byte, stretch the clock, or hold SDA   *)
(* low for some clocks after a transaction was cut short.  The byte at      *)
(* position i of a buffer, or of the device's answer, is i.                 *)
(***************************************************************************)
EXTENDS Integers, Sequences

CONSTANTS
    IcMaxTotal,     \* bytes of one action, at most
    IcMaxActions,   \* actions of one transaction, at most
    IcChunkBytes,   \* 255, the largest NBYTES
    IcMaxHeld,      \* clocks a device may hold SDA for
    BcClocks        \* the clocks of a bus clear, 9

VARIABLES
    icPhase,        \* what the controller knows of the driver
    icOp,           \* direction and size of action_, and actions still to start
    icPos,          \* offset_ and chunk_end_
    icLast,         \* last_
    icActive,       \* active_
    icReg,          \* the peripheral: interrupts, the running chunk, flags
    icBus,          \* "free", or "held" from START to STOP
    icWire,         \* bytes moved on the wire in the current action
    icRx,           \* bytes stored in the caller's buffer
    icHeld,         \* clocks for which the device still holds SDA low
    icStretched,    \* the device holds SCL low
    bcState,        \* machine_
    bcRequested,    \* requested_
    bcResult,       \* result_
    bcPulses,       \* pulses_
    bcSettled,      \* kEdgeUs have passed since edge_
    bcPins          \* the pins: alternate function or GPIO, levels driven

icWireVars == <<icReg, icBus, icWire, icRx>>
icDriver == <<icOp, icPos, icLast, icActive>>
bcVars == <<bcState, bcRequested, bcResult, bcPulses, bcSettled, bcPins>>
icVars == <<icPhase, icDriver, icWireVars, icHeld, icStretched, bcVars>>

-----------------------------------------------------------------------------

IcKinds == {"write", "read", "probe"}

IcNoOp == [kind |-> "probe", total |-> 0, left |-> 0]
IcNoPos == [offset |-> 0, end |-> 0]

\* The peripheral out of reset, enabled, with no interrupt and no transfer.
IcResetReg == [irq |-> FALSE, phase |-> "idle", left |-> 0, stop |-> "soft",
               flags |-> {}]

BcReleased == [gpio |-> FALSE, scl |-> TRUE, sda |-> TRUE]

BcActive == {"initial", "low", "rising", "high", "stop_low", "stop_rising",
             "stop_high", "check"}

IcTypeOK ==
    /\ icPhase \in {"ready", "begun", "running", "ok", "failed", "faulted",
                    "resetting"}
    /\ icOp \in [kind : IcKinds, total : 0 .. IcMaxTotal, left : 0 .. IcMaxActions]
    /\ icPos \in [offset : 0 .. IcMaxTotal, end : 0 .. IcMaxTotal]
    /\ {icLast, icActive, icStretched, bcRequested, bcSettled} \subseteq BOOLEAN
    /\ icReg.flags \subseteq {"txis", "rxne", "tcr", "tc", "stopf", "error"}
    /\ icBus \in {"free", "held"}
    /\ icHeld \in 0 .. IcMaxHeld
    /\ bcState \in BcActive \union {"idle"}
    /\ bcResult \in {"none", "ok", "faulted", "timeout"}
    /\ bcPulses \in 0 .. BcClocks
    /\ bcPins \in [gpio : BOOLEAN, scl : BOOLEAN, sda : BOOLEAN]

\* The levels on the wire: a line is high when nobody pulls it low.
IcSclHigh == bcPins.scl /\ ~icStretched
IcSdaHigh == bcPins.sda /\ icHeld = 0

\* hardware_.idle.
IcIdle == IcSclHigh /\ IcSdaHigh

\* init(): the bus may be stuck from before, which faults the controller
\* (needs_reset()).
IcInit ==
    /\ icHeld \in 0 .. IcMaxHeld /\ icStretched = FALSE
    /\ icPhase = IF icHeld = 0 THEN "ready" ELSE "faulted"
    /\ icOp = IcNoOp /\ icPos = IcNoPos /\ icLast = FALSE /\ icActive = FALSE
    /\ icReg = IcResetReg /\ icBus = "free" /\ icWire = <<>> /\ icRx = <<>>
    /\ bcState = "idle" /\ bcRequested = FALSE /\ bcResult = "none"
    /\ bcPulses = 0 /\ bcSettled = FALSE /\ bcPins = BcReleased

-----------------------------------------------------------------------------
\* Transfers.

\* The bytes of the next chunk.
IcCount(total, offset) ==
    IF total - offset < IcChunkBytes THEN total - offset ELSE IcChunkBytes

\* Mutant: every action ends with a STOP.
IcEndingStops(total, end, last) == IF end < total THEN "reload" ELSE "autoend"

\* Mutant: the chunks before the last one are not marked to be continued.
IcEndingNoReload(total, end, last) ==
    IF end = total /\ last THEN "autoend" ELSE "soft"

\* How the peripheral ends a chunk: reload, STOP by itself, or wait for START.
IcEnding(total, end, last) ==
    CASE end < total -> "reload"
      [] end = total /\ last -> "autoend"
      [] OTHER -> "soft"

\* Chunk(): writes CR2; NBYTES holds at most IcChunkBytes.
IcChunk(op, last, offset, start) ==
    LET count == IcCount(op.total, offset)
        end == offset + count
    IN  /\ icPos' = [offset |-> offset, end |-> end]
        /\ icReg' = [irq |-> TRUE,
                     phase |-> IF start THEN "address" ELSE "data",
                     left |-> count % (IcChunkBytes + 1),
                     stop |-> IcEnding(op.total, end, last),
                     flags |-> {}]

\* begin() and begin_probe(): refused unless both lines are high.
IcBegin ==
    /\ icPhase = "ready"
    /\ \E n \in 1 .. IcMaxActions : icOp' = [IcNoOp EXCEPT !.left = n]
    /\ icPhase' = IF IcIdle THEN "begun" ELSE "failed"
    /\ UNCHANGED <<icPos, icLast, icActive, icWireVars, icHeld, icStretched, bcVars>>

\* start() of the next action; a probe is a transaction of its own.
IcStart ==
    /\ icPhase \in {"begun", "ok"} /\ icOp.left > 0
    /\ \E kind \in IcKinds, n \in 0 .. IcMaxTotal :
        /\ kind = "probe" => n = 0 /\ icOp.left = 1 /\ icPhase = "begun"
        /\ kind # "probe" => n > 0
        /\ icOp' = [kind |-> kind, total |-> n, left |-> icOp.left - 1]
        /\ icLast' = (icOp.left = 1)
        /\ IcChunk(icOp', icLast', 0, TRUE)
    /\ icActive' = TRUE /\ icPhase' = "running"
    /\ icBus' = "held" /\ icWire' = <<>> /\ icRx' = <<>>
    /\ UNCHANGED <<icHeld, icStretched, bcVars>>

\* poll() from an interrupt, on one reading of the flags.
IcPoll ==
    /\ icPhase = "running" /\ icActive /\ icReg.irq /\ icReg.flags # {}
    /\ LET flags == icReg.flags
           sends == "txis" \in flags /\ icPos.offset < icPos.end
                    /\ icOp.kind = "write"
           takes == "rxne" \in flags /\ icPos.offset < icPos.end
                    /\ icOp.kind = "read"
           offset == IF sends \/ takes THEN icPos.offset + 1 ELSE icPos.offset
       IN  IF "error" \in flags
           THEN /\ icActive' = FALSE /\ icPhase' = "failed"
                /\ UNCHANGED <<icOp, icPos, icLast, icWireVars>>
           ELSE /\ icRx' = IF takes THEN Append(icRx, Len(icWire)) ELSE icRx
                /\ icWire' = IF sends THEN Append(icWire, icPos.offset + 1)
                             ELSE icWire
                /\ CASE "stopf" \in flags \/ ("tc" \in flags /\ ~icLast) ->
                          /\ icActive' = FALSE
                          /\ icPos' = [icPos EXCEPT !.offset = offset]
                          /\ icReg' = [icReg EXCEPT !.irq = FALSE,
                                                    !.flags = @ \ {"stopf"}]
                          /\ icPhase' = IF offset = icOp.total
                                        THEN "ok" ELSE "failed"
                     [] ~("stopf" \in flags \/ ("tc" \in flags /\ ~icLast))
                        /\ "tcr" \in flags /\ offset = icPos.end ->
                          /\ IcChunk(icOp, icLast, offset, FALSE)
                          /\ UNCHANGED <<icActive, icPhase>>
                     [] OTHER ->
                          /\ icPos' = [icPos EXCEPT !.offset = offset]
                          /\ icReg' = [icReg EXCEPT
                                         !.flags = @ \ {"txis", "rxne"}]
                          /\ UNCHANGED <<icActive, icPhase>>
                /\ UNCHANGED <<icOp, icLast, icBus>>
    /\ UNCHANGED <<icHeld, icStretched, bcVars>>

\* reset() of the peripheral: a transfer cut off before its STOP may leave the
\* device holding SDA.
IcReset ==
    /\ icReg' = IcResetReg /\ icBus' = "free"
    /\ icActive' = FALSE /\ icOp' = IcNoOp /\ icPos' = IcNoPos /\ icLast' = FALSE
    /\ icWire' = <<>> /\ icRx' = <<>>
    /\ icHeld' \in IF icBus = "held" THEN icHeld .. IcMaxHeld ELSE {icHeld}

\* finish(), after the last action, a failure or the controller's deadline.
IcFinish ==
    /\ \/ icPhase \in {"running", "failed"}
       \/ icPhase = "ok" /\ icOp.left = 0
    /\ IcReset
    /\ icPhase' = IF IcSclHigh /\ bcPins.sda /\ icHeld' = 0 THEN "ready" ELSE "faulted"
    /\ UNCHANGED <<icStretched, bcVars>>

-----------------------------------------------------------------------------
\* The peripheral and the device.

\* The address is acknowledged, or not: the peripheral then sends STOP.
IcAddressed ==
    /\ icReg.phase = "address"
    /\ \/ icReg' = [icReg EXCEPT !.phase = "idle", !.flags = {"error", "stopf"}]
          /\ icBus' = "free"
       \/ icReg' = [icReg EXCEPT !.phase = "data"] /\ UNCHANGED icBus
    /\ UNCHANGED <<icPhase, icDriver, icWire, icRx, icHeld, icStretched, bcVars>>

\* The flags of a chunk with no byte left.
IcEnded ==
    CASE icReg.stop = "reload" -> "tcr"
      [] icReg.stop = "autoend" -> "stopf"
      [] OTHER -> "tc"

\* The next byte of the chunk: the device's is received, or ours is asked for.
IcData ==
    /\ icReg.phase = "data" /\ icReg.left > 0
    /\ icReg.flags \intersect {"txis", "rxne", "error"} = {}
    /\ icReg' = [icReg EXCEPT !.left = @ - 1,
                              !.flags = @ \union
                                IF icOp.kind = "read" THEN {"rxne"} ELSE {"txis"}]
    /\ icWire' = IF icOp.kind = "read" THEN Append(icWire, Len(icWire) + 1) ELSE icWire
    /\ UNCHANGED <<icPhase, icDriver, icBus, icRx, icHeld, icStretched, bcVars>>

\* After the last byte of the chunk was sent, or received (the last received
\* byte may still wait to be read).
IcChunkEnds ==
    /\ icReg.phase = "data" /\ icReg.left = 0
    /\ "txis" \notin icReg.flags
    /\ icReg' = [icReg EXCEPT !.phase = "idle", !.flags = @ \union {IcEnded}]
    /\ icBus' = IF icReg.stop = "autoend" THEN "free" ELSE icBus
    /\ UNCHANGED <<icPhase, icDriver, icWire, icRx, icHeld, icStretched, bcVars>>

\* The device refuses a byte, arbitration is lost or the bus misbehaves.
IcErrors ==
    /\ icReg.phase = "data" /\ icReg.irq
    /\ icReg' = [icReg EXCEPT !.phase = "idle", !.flags = @ \union {"error"}]
    /\ UNCHANGED <<icPhase, icDriver, icBus, icWire, icRx, icHeld, icStretched,
                   bcVars>>

\* The device starts or stops stretching the clock.
IcStretch ==
    /\ icPhase = "resetting"
    /\ icStretched' = ~icStretched
    /\ UNCHANGED <<icPhase, icDriver, icWireVars, icHeld, bcVars>>

-----------------------------------------------------------------------------
\* A reset of the controller: start_reset() and then poll_reset() every 10 us.

IcStartReset ==
    /\ icPhase \in {"ready", "faulted"}
    /\ icPhase' = "resetting"
    /\ IcReset
    /\ bcRequested' = TRUE /\ bcResult' = "none"
    /\ UNCHANGED <<icStretched, bcState, bcPulses, bcSettled, bcPins>>

\* Finish(): leave() releases both lines and gives the pins back.
BcFinish(result) ==
    /\ bcPins' = BcReleased /\ bcResult' = result /\ bcState' = "idle"

\* SCL as the machine drives it; a falling edge clocks the device.
BcClock(level) ==
    /\ bcPins' = [bcPins EXCEPT !.scl = level]
    /\ icHeld' = IF ~level /\ IcSclHigh /\ icHeld > 0 THEN icHeld - 1 ELSE icHeld
    /\ bcSettled' = FALSE

\* Mutant: SDA is pulled low before SCL.
BcStopLowFirst ==
    /\ bcPins' = [bcPins EXCEPT !.sda = FALSE] /\ bcSettled' = FALSE
    /\ UNCHANGED icHeld

\* The last clock ends and SDA goes low for the STOP.
BcStopLow ==
    /\ bcPins' = [bcPins EXCEPT !.scl = FALSE, !.sda = FALSE]
    /\ icHeld' = IF icHeld > 0 THEN icHeld - 1 ELSE 0
    /\ bcSettled' = FALSE

\* Step() of an active state whose interval has passed.
BcStep ==
    \/ /\ bcState = "initial" /\ IcSclHigh
       /\ IF IcSdaHigh
          THEN BcFinish("ok") /\ UNCHANGED <<icHeld, bcSettled>>
          ELSE /\ BcClock(FALSE) /\ bcState' = "low" /\ UNCHANGED bcResult
       /\ UNCHANGED bcPulses
    \/ /\ bcState \in {"low", "stop_low"}
       /\ BcClock(TRUE)
       /\ bcState' = IF bcState = "low" THEN "rising" ELSE "stop_rising"
       /\ UNCHANGED <<bcResult, bcPulses>>
    \/ /\ bcState \in {"rising", "stop_rising"} /\ IcSclHigh
       /\ bcState' = IF bcState = "rising" THEN "high" ELSE "stop_high"
       /\ bcSettled' = FALSE
       /\ UNCHANGED <<icHeld, bcResult, bcPulses, bcPins>>
    \/ /\ bcState \in {"high", "stop_high"} /\ ~IcSclHigh
       /\ bcState' = IF bcState = "high" THEN "rising" ELSE "stop_rising"
       /\ bcSettled' = FALSE
       /\ UNCHANGED <<icHeld, bcResult, bcPulses, bcPins>>
    \/ /\ bcState = "high" /\ IcSclHigh
       /\ bcPulses' = bcPulses + 1
       /\ IF IcSdaHigh \/ bcPulses' = BcClocks
          THEN BcStopLow /\ bcState' = "stop_low"
          ELSE BcClock(FALSE) /\ bcState' = "low"
       /\ UNCHANGED bcResult
    \/ /\ bcState = "stop_high" /\ IcSclHigh
       /\ bcPins' = [bcPins EXCEPT !.sda = TRUE]
       /\ bcSettled' = FALSE /\ bcState' = "check"
       /\ UNCHANGED <<icHeld, bcResult, bcPulses>>
    \/ /\ bcState = "check"
       /\ BcFinish(IF IcIdle THEN "ok" ELSE "faulted")
       /\ UNCHANGED <<icHeld, bcSettled, bcPulses>>

\* poll(): idle takes the request; an active state waits for its interval.
BcPoll ==
    \/ /\ bcState = "idle" /\ bcRequested
       /\ bcRequested' = FALSE /\ bcPulses' = 0
       /\ bcPins' = [gpio |-> TRUE, scl |-> TRUE, sda |-> TRUE]
       /\ bcSettled' = FALSE /\ bcState' = "initial"
       /\ UNCHANGED <<icHeld, bcResult>>
    \/ /\ bcState \in BcActive /\ bcSettled
       /\ BcStep
       /\ UNCHANGED bcRequested

\* poll_reset(): the waveform's result, then the peripheral's own reset.
IcPollReset ==
    /\ icPhase = "resetting"
    /\ BcPoll
    /\ UNCHANGED <<icDriver, icWireVars, icStretched>>
    /\ icPhase' = CASE bcResult' = "none" -> "resetting"
                    [] bcResult' = "ok" /\ IcIdle' -> "ready"
                    [] OTHER -> "faulted"

\* Mutant: a waveform that is aborted keeps its pins.
BcAbortKeeps ==
    /\ bcState' = "idle" /\ bcResult' = "timeout" /\ UNCHANGED bcPins

\* abort(): one tick from any state.
BcAbort ==
    IF bcState = "idle"
    THEN bcResult' = "timeout" /\ UNCHANGED <<bcPins, bcState>>
    ELSE BcFinish("timeout")

\* abort_reset(), at the controller's deadline or when its timer fails.
IcAbortReset ==
    /\ icPhase = "resetting"
    /\ icPhase' = "faulted"
    /\ BcAbort
    /\ bcRequested' = IF bcState = "idle" THEN FALSE ELSE bcRequested
    /\ UNCHANGED <<icDriver, icWireVars, icHeld, icStretched, bcPulses, bcSettled>>

\* kEdgeUs pass.
BcTime ==
    /\ bcState \in BcActive /\ ~bcSettled
    /\ bcSettled' = TRUE
    /\ UNCHANGED <<icPhase, icDriver, icWireVars, icHeld, icStretched, bcState,
                   bcRequested, bcResult, bcPulses, bcPins>>

-----------------------------------------------------------------------------

IcNext ==
    \/ IcBegin \/ IcStart \/ IcPoll \/ IcFinish
    \/ IcAddressed \/ IcData \/ IcChunkEnds \/ IcErrors \/ IcStretch
    \/ IcStartReset \/ IcPollReset \/ IcAbortReset \/ BcTime

\* The peripheral goes on and its interrupts are taken.
IcFairness ==
    /\ WF_icVars(IcAddressed) /\ WF_icVars(IcData) /\ WF_icVars(IcChunkEnds)
    /\ WF_icVars(IcPoll)

IcSpec == IcInit /\ [][IcNext]_icVars /\ IcFairness

-----------------------------------------------------------------------------

\* An action that poll() reports ok moved every byte exactly once, in order,
\* over all its NBYTES chunks; after the last one the bus is free, and between
\* two actions it is still ours for the repeated START.
IcExact ==
    icPhase = "ok" =>
        /\ icWire = [i \in 1 .. icOp.total |-> i]
        /\ icOp.kind = "read" => icRx = icWire
        /\ icBus = IF icOp.left = 0 THEN "free" ELSE "held"

\* The bus clear gives the lines back on every way out, the abort in the middle
\* of a clock included, and a device that holds SDA for no more than its nine
\* clocks and the one of the STOP is freed, early or late.
BcClears ==
    /\ bcState = "idle" => bcPins = BcReleased
    /\ bcState = "check" /\ icHeld > 0 =>
        bcPulses = BcClocks /\ icHeld <= IcMaxHeld - (BcClocks + 1)

\* The bus clear never makes a START: it pulls SDA low only while it holds SCL
\* low, so no device on the bus is addressed by it.
BcNoStart == [][bcPins.sda /\ ~bcPins'.sda => ~bcPins'.scl]_icVars

\* An action that was started has not ended.
IcRunning == icPhase = "running"

\* Transfers and the bus clear.
IcSafe == [](IcTypeOK /\ IcExact /\ BcClears) /\ BcNoStart

==============================================================================
