------------------------------ MODULE SdSession ------------------------------
(***************************************************************************)
(* One SPI SD card: storage::sd::Session (lib/storage/sd/session.h) with    *)
(* its Initializer and the Transport each block access builds, over the     *)
(* SPI device of lib/hal, wired as in platform/stm32/console/sd_card.hpp.   *)
(*                                                                         *)
(* A task ticks the session; the application requests probes and resets;   *)
(* one block consumer (a mounted volume) acquires the card, reads and      *)
(* writes sectors and releases it.  A block access is synchronous: while   *)
(* its transfer is pending it pumps the scheduler, so every other action   *)
(* may run inside it.  The SPI interrupt publishes results at any time.    *)
(*                                                                         *)
(* Abstracted: the bytes on the wire (what a response says is a free       *)
(* choice), sector contents, error texts.                                  *)
(***************************************************************************)
EXTENDS Integers, Sequences

CONSTANTS
    SdStartupLimit,     \* kStartupLimit, the ACMD41 idle responses allowed
    SdReadRepeats,      \* kReadRepeats of the probe
    SdPartitions,       \* partitions a probe may find
    SdSectors           \* sectors per block access, at most

ASSUME SdAssumption ==
    /\ SdStartupLimit \in Nat /\ SdReadRepeats \in Nat \ {0}
    /\ SdPartitions \in Nat /\ SdSectors \in Nat

VARIABLES
    sdProbe,        \* does the application observe with SdProbe (next hook)
    sdState,        \* machine_
    sdReady,        \* ready_
    sdRunning,      \* running_
    sdRequested,    \* requested_
    sdResetRequested,   \* reset_requested_
    sdLeased,       \* leased_
    sdReset,        \* reset_ready_ with reset_status_
    sdCommand,      \* command_
    sdInit,         \* initializer_
    sdWalk,         \* reads_ and partition_index_ of SdProbe
    sdRate,         \* maximum_hz of the bus configuration
    sdDone,         \* the completion_ of session, initializer and transport
    sdBus,          \* whose transfer the SPI controller is carrying out
    sdFault,        \* the controller is faulted
    sdOp,           \* the block access under way
    sdCard          \* is the card initialized and in step with its host

sdFlags == <<sdReady, sdRunning, sdRequested, sdResetRequested, sdLeased>>
sdWire == <<sdDone, sdBus>>
sdVars == <<sdProbe, sdState, sdFlags, sdReset, sdCommand, sdInit, sdWalk,
            sdRate, sdWire, sdFault, sdOp, sdCard>>

-----------------------------------------------------------------------------

SdOwners == {"session", "initializer", "transport"}
SdNobody == "nobody"

SdFinal == {"idle", "done", "failed"}

SdNoOp == [kind |-> "none", left |-> 0, step |-> 0, keep |-> TRUE]

\* The transfers of one sector: CMD17 and its data, or CMD24, the data and the
\* wait for ready, then CMD13; each is followed by idle clocks.
SdSteps(kind) == IF kind = "read" THEN 2 ELSE 4

SdIdleInit ==
    [state |-> "idle", requested |-> FALSE, active |-> FALSE, command |-> 0,
     attempts |-> 0, result |-> "none"]

SdInitializers ==
    [state : SdFinal \union {"clocks", "command", "gap"}, requested : BOOLEAN,
     active : BOOLEAN, command : {0, 8, 41, 55, 58}, attempts : 0 .. SdStartupLimit,
     result : {"none", "ok", "failed"}]
SdWalks == [reads : 0 .. 2 * SdReadRepeats, parts : 0 .. SdPartitions]
SdCommands == {0, 8, 9, 10, 17, 41, 55, 58}
SdResults == {"empty", "pending", "ok", "failed", "busy"}
SdOps == [kind : {"none", "read", "write"}, left : 0 .. SdSectors, step : 0 .. 4,
          keep : BOOLEAN]

SdTypeOK ==
    /\ sdProbe \in BOOLEAN /\ sdReady \in BOOLEAN /\ sdRunning \in BOOLEAN
    /\ sdRequested \in BOOLEAN /\ sdResetRequested \in BOOLEAN
    /\ sdLeased \in BOOLEAN /\ sdFault \in BOOLEAN
    /\ sdState \in SdFinal \union {"resetting", "initializing", "command", "gap"}
    /\ sdReset \in {"none", "pending", "ready"}
    /\ sdCommand \in SdCommands /\ sdInit \in SdInitializers /\ sdWalk \in SdWalks
    /\ sdRate \in {"startup", "data"}
    /\ sdDone \in [SdOwners -> SdResults]
    /\ sdBus \in SdOwners \union {SdNobody}
    /\ sdOp \in SdOps
    /\ sdCard \in {"unknown", "usable"}

SdInitial ==
    /\ sdProbe \in BOOLEAN
    /\ sdState = "idle"
    /\ sdReady = FALSE /\ sdRunning = FALSE /\ sdRequested = FALSE
    /\ sdResetRequested = FALSE /\ sdLeased = FALSE
    /\ sdReset = "none" /\ sdCommand = 0 /\ sdInit = SdIdleInit
    /\ sdWalk = [reads |-> 0, parts |-> 0] /\ sdRate = "startup"
    /\ sdDone = [o \in SdOwners |-> "empty"] /\ sdBus = SdNobody
    /\ sdFault = FALSE /\ sdOp = SdNoOp /\ sdCard = "unknown"

-----------------------------------------------------------------------------
\* The SPI device.

\* Completion::start: refused while its own transfer is pending; a submission
\* the controller rejects is published at once as a ready result.
SdStart(owner) ==
    /\ sdDone' = [sdDone EXCEPT ![owner] =
                    CASE @ = "pending" -> @
                      [] @ # "pending" /\ sdBus # SdNobody -> "busy"
                      [] @ # "pending" /\ sdBus = SdNobody /\ sdFault -> "failed"
                      [] OTHER -> "pending"]
    /\ sdBus' = IF sdDone'[owner] = "pending" THEN owner ELSE sdBus

\* The interrupt that completes the transfer, in time or at its deadline.  A
\* failure may leave the controller faulted; the card is out of step with its
\* host after any failed transfer.
SdBusCompletes ==
    /\ sdBus # SdNobody
    /\ sdBus' = SdNobody
    /\ \E status \in {"ok", "failed"}, fault \in BOOLEAN :
        /\ fault => status = "failed"
        /\ sdDone' = [sdDone EXCEPT ![sdBus] = status]
        /\ sdFault' = fault
        /\ sdCard' = IF status = "ok" THEN sdCard ELSE "unknown"
    /\ UNCHANGED <<sdProbe, sdState, sdFlags, sdReset, sdCommand, sdInit, sdWalk,
                   sdRate, sdOp>>

\* The controller finishes its reset and calls ResetDone.
SdResetCompletes ==
    /\ sdReset = "pending"
    /\ sdReset' = "ready"
    /\ sdFault' \in BOOLEAN
    /\ UNCHANGED <<sdProbe, sdState, sdFlags, sdCommand, sdInit, sdWalk, sdRate,
                   sdWire, sdOp, sdCard>>

-----------------------------------------------------------------------------
\* Requests of the application.

\* Mutant: the lease is not a reason to refuse a probe.
SdBusyUnleased == sdRunning \/ sdRequested \/ sdResetRequested

SdBusy == sdRunning \/ sdRequested \/ sdResetRequested \/ sdLeased

\* request(), also from Probe of the application.
SdRequest ==
    /\ ~SdBusy
    /\ sdReady' = FALSE /\ sdRequested' = TRUE
    /\ UNCHANGED <<sdProbe, sdState, sdRunning, sdResetRequested, sdLeased,
                   sdReset, sdCommand, sdInit, sdWalk, sdRate, sdWire, sdFault,
                   sdOp, sdCard>>

\* reset(), also from ResetBus of the application.
SdResetRequest ==
    /\ ~SdBusy
    /\ sdReady' = FALSE /\ sdResetRequested' = TRUE
    /\ UNCHANGED <<sdProbe, sdState, sdRunning, sdRequested, sdLeased, sdReset,
                   sdCommand, sdInit, sdWalk, sdRate, sdWire, sdFault, sdOp,
                   sdCard>>

-----------------------------------------------------------------------------
\* The initializer.

\* R1 within eight bytes: absent, 0, 1 or an error; "whole" when the bytes that
\* follow are there and right (the echo of CMD8, the OCR bits of CMD58).
SdResponses == [r1 : {"absent", "ready", "idle", "error"}, whole : BOOLEAN]

\* Outcomes that are not the index of a further command.
SdInitialized == 64
SdRejected == 65

\* Mutant: the idle responses are not counted.
SdCountedNot(p) == p.attempts

\* attempts_ after one more idle response to ACMD41.
SdCounted(p) == p.attempts + 1

\* The command after this one, or how initialization ends.
SdNextCommand(p, r) ==
    CASE p.command = 0 /\ r.r1 = "idle" -> 8
      [] p.command = 8 /\ r.r1 = "idle" /\ r.whole -> 55
      [] p.command = 55 /\ r.r1 \in {"ready", "idle"} -> 41
      [] p.command = 41 /\ r.r1 = "ready" -> 58
      [] p.command = 41 /\ r.r1 = "idle" /\ SdCounted(p) < SdStartupLimit -> 55
      [] p.command = 58 /\ r.r1 = "ready" /\ r.whole -> SdInitialized
      [] OTHER -> SdRejected

\* OnEnter of done or failed.
SdInitEnded(p, result) ==
    [p EXCEPT !.state = IF result = "ok" THEN "done" ELSE "failed",
              !.active = FALSE, !.result = result]

\* What one tick makes of the initializer when its transfer has answered "done",
\* or when it has just been requested.
SdInitSteps ==
    CASE sdInit.state \in SdFinal ->
            {[sdInit EXCEPT !.state = "clocks", !.requested = FALSE,
                            !.command = 0, !.attempts = 0]}
      [] sdInit.state \notin SdFinal /\ sdDone["initializer"] # "ok" ->
            {SdInitEnded(sdInit, "failed")}
      [] sdInit.state \in {"clocks", "gap"} /\ sdDone["initializer"] = "ok" ->
            {[sdInit EXCEPT !.state = "command"]}
      [] OTHER ->
            {LET next == SdNextCommand(sdInit, r) IN
             CASE next = SdInitialized -> SdInitEnded(sdInit, "ok")
               [] next = SdRejected -> SdInitEnded(sdInit, "failed")
               [] OTHER -> [sdInit EXCEPT !.state = "gap", !.command = next,
                                !.attempts = IF sdInit.command = 41 /\ next = 55
                                             THEN SdCounted(sdInit) ELSE @]
             : r \in SdResponses}

-----------------------------------------------------------------------------
\* One tick of the session, by state.

\* Mutant: the probe keeps the rate of the previous session.
SdStartupKept == sdRate

\* SetSpeed(kStartupHz), when a probe begins.
SdStartupRate == "startup"

\* idle, done or failed: a reset goes first.  A rejected start of the reset is
\* its result.
SdTickIdle ==
    /\ sdState \in SdFinal
    /\ sdRunning' = TRUE
    /\ \/ /\ sdResetRequested
          /\ sdResetRequested' = FALSE
          /\ sdState' = "resetting"
          /\ sdReset' \in {"pending", "ready"}
          /\ sdCard' = "unknown"
          /\ UNCHANGED <<sdRequested, sdCommand, sdInit, sdWalk, sdRate>>
       \/ /\ ~sdResetRequested /\ sdRequested
          /\ sdRequested' = FALSE
          /\ sdState' = "initializing"
          /\ sdRate' = SdStartupRate
          /\ sdCommand' = 0
          /\ sdWalk' = [reads |-> 0, parts |-> 0]
          /\ sdInit' = [sdInit EXCEPT !.requested = TRUE, !.active = TRUE,
                                      !.result = "none"]
          /\ sdCard' = "unknown"
          /\ UNCHANGED <<sdResetRequested, sdReset>>
    /\ UNCHANGED <<sdProbe, sdReady, sdLeased, sdWire, sdFault, sdOp>>

SdTickResetting ==
    /\ sdState = "resetting" /\ sdReset = "ready"
    /\ sdState' = "idle" /\ sdRunning' = FALSE /\ sdReset' = "none"
    /\ UNCHANGED <<sdProbe, sdReady, sdRequested, sdResetRequested, sdLeased,
                   sdCommand, sdInit, sdWalk, sdRate, sdWire, sdFault, sdOp,
                   sdCard>>

\* OnEnter of done or failed.
SdEnd(success) ==
    /\ sdState' = IF success THEN "done" ELSE "failed"
    /\ sdRunning' = FALSE
    /\ sdReady' = success
    /\ sdCard' = IF success THEN "usable" ELSE sdCard

SdTickInitializing ==
    /\ sdState = "initializing"
    /\ sdDone["initializer"] # "pending"
    /\ sdInit' \in SdInitSteps
    /\ CASE sdInit'.result = "none" ->
              /\ SdStart("initializer")
              /\ UNCHANGED <<sdState, sdRunning, sdReady, sdCommand, sdCard>>
         [] sdInit'.result = "ok" ->
              /\ sdCommand' = 9 /\ sdState' = "gap"
              /\ SdStart("session")
              /\ UNCHANGED <<sdRunning, sdReady, sdCard>>
         [] sdInit'.result = "failed" ->
              /\ sdCommand' = sdInit'.command
              /\ SdEnd(FALSE)
              /\ UNCHANGED sdWire
    /\ UNCHANGED <<sdProbe, sdRequested, sdResetRequested, sdLeased, sdReset,
                   sdWalk, sdRate, sdFault, sdOp>>

\* A failed transfer in "gap" or "command".
SdTickTransferFailed ==
    /\ sdState \in {"gap", "command"}
    /\ sdDone["session"] \in {"failed", "busy"}
    /\ SdEnd(FALSE)
    /\ UNCHANGED <<sdProbe, sdRequested, sdResetRequested, sdLeased, sdReset,
                   sdCommand, sdInit, sdWalk, sdRate, sdWire, sdFault, sdOp>>

SdTickGap ==
    /\ sdState = "gap" /\ sdDone["session"] = "ok"
    /\ sdState' = "command"
    /\ SdStart("session")
    /\ UNCHANGED <<sdProbe, sdFlags, sdReset, sdCommand, sdInit, sdWalk, sdRate,
                   sdFault, sdOp, sdCard>>

\* Inspect: after the second half of the reads, stop or go on to another
\* partition at the startup rate.
SdInspect(walk) ==
    {[kind |-> "finish", command |-> 17, walk |-> walk, rate |-> "data"]}
    \union {[kind |-> "read", command |-> 17, rate |-> "startup",
             walk |-> [reads |-> 0, parts |-> walk.parts + 1]] :
             p \in {q \in {walk.parts} : q < SdPartitions}}

\* Next of SdProbe after a verified read.
SdObserverNext ==
    LET walk == [sdWalk EXCEPT !.reads = @ + 1]
        read(c, w, rate) == [kind |-> "read", command |-> c, walk |-> w,
                             rate |-> rate]
        fail == [kind |-> "fail", command |-> sdCommand, walk |-> sdWalk,
                 rate |-> sdRate]
    IN  CASE sdCommand = 9 -> {read(10, sdWalk, sdRate)}
          [] sdCommand = 10 -> {read(17, sdWalk, sdRate)}
          [] OTHER ->
               (IF sdWalk.reads > 0 THEN {fail} ELSE {}) \union
               CASE walk.reads = SdReadRepeats -> {read(17, walk, "data")}
                 [] walk.reads = 2 * SdReadRepeats -> SdInspect(walk)
                 [] OTHER -> {read(17, walk, sdRate)}

\* Received: the block fails its CRC or its CSD does not parse, or the observer
\* chooses the next step; without one the session switches to its data rate and
\* finishes.
SdReceived ==
    {[kind |-> "fail", command |-> sdCommand, walk |-> sdWalk, rate |-> sdRate]}
    \union IF sdProbe THEN SdObserverNext
           ELSE {[kind |-> "finish", command |-> sdCommand, walk |-> sdWalk,
                  rate |-> "data"]}

SdTickCommand ==
    /\ sdState = "command" /\ sdDone["session"] = "ok"
    /\ \E step \in SdReceived :
        /\ sdWalk' = step.walk /\ sdRate' = step.rate
        /\ sdCommand' = step.command
        /\ IF step.kind = "read"
           THEN /\ sdState' = "gap" /\ SdStart("session")
                /\ UNCHANGED <<sdRunning, sdReady, sdCard>>
           ELSE /\ SdEnd(step.kind = "finish")
                /\ UNCHANGED sdWire
    /\ UNCHANGED <<sdProbe, sdRequested, sdResetRequested, sdLeased, sdReset,
                   sdInit, sdFault, sdOp>>

SdTick == SdTickIdle \/ SdTickResetting \/ SdTickInitializing \/ SdTickGap
          \/ SdTickTransferFailed \/ SdTickCommand

-----------------------------------------------------------------------------
\* The block device.

SdAcquire ==
    /\ sdReady /\ ~sdLeased /\ ~sdRunning /\ ~sdRequested
    /\ sdLeased' = TRUE
    /\ UNCHANGED <<sdProbe, sdState, sdReady, sdRunning, sdRequested,
                   sdResetRequested, sdReset, sdCommand, sdInit, sdWalk, sdRate,
                   sdWire, sdFault, sdOp, sdCard>>

\* The consumer is a volume: it does not release inside an access.
SdRelease ==
    /\ sdLeased /\ sdOp = SdNoOp
    /\ sdLeased' = FALSE
    /\ UNCHANGED <<sdProbe, sdState, sdReady, sdRunning, sdRequested,
                   sdResetRequested, sdReset, sdCommand, sdInit, sdWalk, sdRate,
                   sdWire, sdFault, sdOp, sdCard>>

\* Mutant: the failure is only reported to the caller.
SdReadyAfterFailureKept == sdReady

\* ready_ after an access that failed for any cause.
SdReadyAfterFailure == FALSE

\* An access returns; false clears ready_.
SdReturn(success) ==
    /\ sdOp' = SdNoOp
    /\ sdReady' = IF success THEN sdReady ELSE SdReadyAfterFailure

\* read() or write() is called: rejected for its range, size or rate, refused
\* by the pump, or its first transfer is submitted.
SdAccess(kind) ==
    /\ sdReady /\ sdLeased /\ sdOp = SdNoOp
    /\ \/ SdReturn(FALSE) /\ UNCHANGED sdWire
       \/ \E n \in 1 .. SdSectors :
            /\ SdStart("transport")
            /\ IF sdDone'["transport"] = "pending"
               THEN /\ sdOp' = [kind |-> kind, left |-> n, step |-> 1, keep |-> TRUE]
                    /\ UNCHANGED sdReady
               ELSE SdReturn(FALSE)
    /\ UNCHANGED <<sdProbe, sdState, sdRunning, sdRequested, sdResetRequested,
                   sdLeased, sdReset, sdCommand, sdInit, sdWalk, sdRate, sdFault,
                   sdCard>>

\* The pump asks for an abort while the transfer is pending: the transfer is
\* waited for all the same.
SdPumpAborts ==
    /\ sdOp.kind # "none" /\ sdOp.keep /\ sdDone["transport"] = "pending"
    /\ sdOp' = [sdOp EXCEPT !.keep = FALSE]
    /\ UNCHANGED <<sdProbe, sdState, sdFlags, sdReset, sdCommand, sdInit, sdWalk,
                   sdRate, sdWire, sdFault, sdCard>>

\* The card protocol was left half way, or the card answered badly.
SdOpFails ==
    SdReturn(FALSE) /\ sdCard' = "unknown" /\ UNCHANGED sdWire

\* A transfer of the access has completed: fail, go on with the next transfer
\* or sector, or return.
SdAccessStep ==
    /\ sdOp.kind # "none" /\ sdDone["transport"] # "pending"
    /\ IF sdDone["transport"] # "ok" \/ ~sdOp.keep
       THEN SdOpFails
       ELSE \/ SdOpFails
            \/ IF sdOp.step = SdSteps(sdOp.kind) /\ sdOp.left = 1
               THEN SdReturn(TRUE) /\ UNCHANGED <<sdWire, sdCard>>
               ELSE /\ SdStart("transport")
                    /\ UNCHANGED sdCard
                    /\ IF sdDone'["transport"] # "pending"
                       THEN SdReturn(FALSE)
                       ELSE /\ sdOp' =
                                IF sdOp.step = SdSteps(sdOp.kind)
                                THEN [sdOp EXCEPT !.step = 1, !.left = @ - 1]
                                ELSE [sdOp EXCEPT !.step = @ + 1]
                            /\ UNCHANGED sdReady
    /\ UNCHANGED <<sdProbe, sdState, sdRunning, sdRequested, sdResetRequested,
                   sdLeased, sdReset, sdCommand, sdInit, sdWalk, sdRate, sdFault>>

-----------------------------------------------------------------------------

SdNext ==
    \/ SdRequest \/ SdResetRequest \/ SdTick
    \/ SdAcquire \/ SdRelease
    \/ SdAccess("read") \/ SdAccess("write") \/ SdPumpAborts \/ SdAccessStep
    \/ SdBusCompletes \/ SdResetCompletes

\* The tick task is periodic and the waiting access keeps polling; the
\* controller's deadline completes every transfer and every reset.
SdFairness ==
    /\ WF_sdVars(SdTick) /\ WF_sdVars(SdAccessStep)
    /\ WF_sdVars(SdBusCompletes) /\ WF_sdVars(SdResetCompletes)

SdSpec == SdInitial /\ [][SdNext]_sdVars /\ SdFairness

-----------------------------------------------------------------------------

\* Between accesses, a card that says it is ready has been initialized since its last failed
\* transfer, bad answer, abandoned access or controller reset; block accesses
\* only start on such a card.
SdReadyMeansUsable == sdReady /\ sdOp = SdNoOp => sdCard = "usable"

\* The session, its initializer and the block accesses share one SPI device
\* without a queue: none of them ever finds it taken, and while a volume holds
\* the card no probe or reset is pending or running.
SdNeverContends ==
    /\ \A o \in SdOwners : sdDone[o] # "busy"
    /\ sdLeased => ~sdRunning /\ ~sdRequested /\ ~sdResetRequested
    /\ sdOp.kind # "none" => sdLeased

\* The identification commands of every probe, the first and the later ones,
\* run at the startup clock, and a ready card is left at its data rate.
SdClockRates ==
    /\ sdBus = "initializer" => sdRate = "startup"
    /\ sdReady => sdRate = "data"

\* A probe or reset that was accepted has not ended.
SdProbing == sdRequested \/ sdResetRequested \/ sdRunning

\* The card, its lease and its clock together.
SdCardKept == SdTypeOK /\ SdReadyMeansUsable /\ SdNeverContends /\ SdClockRates

==============================================================================
