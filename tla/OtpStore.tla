------------------------------ MODULE OtpStore -------------------------------
(***************************************************************************)
(* The one-time-programmable record store: otp::Store (lib/otp/store.cpp)   *)
(* over its three drivers, the H563 OTP area (platform/stm32h5/otp.cpp),    *)
(* the flash emulator (lib/otp/flash.cpp) and the host file                 *)
(* (platform/host/otp.cpp).                                                 *)
(*                                                                         *)
(* A block is a row of cells programmed one after the other, the completing *)
(* one (type field or commit marker) last, and of lock cells.  Power may    *)
(* fail at any time; an interrupted cell is untouched, complete, or torn:   *)
(* unreadable, or readable and wrong.  A record is valid when all its cells *)
(* are complete (its CRC holds), and is then the serial number or of a type *)
(* the store does not know.                                                 *)
(***************************************************************************)
EXTENDS Integers, Sequences, FiniteSets, FiniteSetsExt

CONSTANTS
    OtBlocks,       \* kBlockCount
    OtCells,        \* cells of a record
    OtLocks,        \* lock cells of a row; the H563 and the file have one bit
    OtSerials,      \* serial numbers
    OtMaxSets       \* calls of set_serial, at most

VARIABLES
    otBackend,      \* "h5", "flash" or "file"
    otDevice,       \* the blocks
    otInitialized,  \* initialized_
    otReady,        \* ready_
    otNext,         \* next_
    otKinds,        \* kinds_
    otSerial,       \* serial_ and serial_block_ (block 0: none)
    otLocked,       \* locked_
    otAttempted,    \* attempted_ of the driver
    otLockNext,     \* lock_next_ of the flash emulator
    otTimedOut,     \* timed_out_ of the driver
    otOp,           \* the set_serial under way
    otVerified,     \* the last block found or verified valid since the start
    otSets          \* calls so far

otRam == <<otInitialized, otReady, otNext, otKinds, otSerial, otLocked,
           otAttempted, otLockNext, otTimedOut>>
otVars == <<otBackend, otDevice, otRam, otOp, otVerified, otSets>>

-----------------------------------------------------------------------------

OtUnknown == "unknown type"
OtNone == "none"
OtNoSerial == [value |-> OtNone, block |-> 0]
OtIdle == [stage |-> "idle", block |-> 0, cell |-> 0, value |-> OtNone]

OtVirgin == [cells |-> [c \in 1 .. OtCells |-> "virgin"],
             locks |-> [c \in 1 .. OtLocks |-> "virgin"], value |-> OtNone]

OtForeign == [cells |-> [c \in 1 .. OtCells |-> "done"],
              locks |-> [c \in 1 .. OtLocks |-> IF c = 1 THEN "done" ELSE "virgin"],
              value |-> OtUnknown]

OtCellStates == {"virgin", "done", "unreadable", "wrong"}

\* A row has cells and a lock, and no serial number is the text of another.
ASSUME OtAssumption ==
    /\ {OtBlocks, OtCells, OtLocks} \subseteq Nat \ {0}
    /\ OtUnknown \notin OtSerials /\ OtNone \notin OtSerials

OtValues == OtSerials \union {OtUnknown, OtNone}

OtRows == [cells : [1 .. OtCells -> OtCellStates],
           locks : [1 .. OtLocks -> OtCellStates], value : OtValues]

OtTypeOK ==
    /\ otDevice \in [1 .. OtBlocks -> OtRows]
    /\ otInitialized \in BOOLEAN /\ otReady \in BOOLEAN
    /\ otLocked \in BOOLEAN /\ otTimedOut \in BOOLEAN
    /\ otNext \in 1 .. OtBlocks + 1
    /\ otKinds \in [1 .. OtBlocks ->
                     {"unused", "valid", "invalid", "unknown", "unreadable"}]
    /\ otAttempted \subseteq 1 .. OtBlocks
    /\ otLockNext \in [1 .. OtBlocks -> Nat \ {0}]
    /\ otSerial \in [value : OtValues, block : 0 .. OtBlocks]
    /\ otVerified \in [value : OtValues, block : 0 .. OtBlocks]
    /\ otOp \in [stage : {"idle", "program", "verify", "lock", "check"},
                 block : 0 .. OtBlocks, cell : 0 .. OtCells,
                 value : OtSerials \union {OtNone}]

\* RAM as the constructors leave it.
OtCold ==
    [initialized |-> FALSE, ready |-> FALSE, next |-> 1,
     kinds |-> [b \in 1 .. OtBlocks |-> "unused"], serial |-> OtNoSerial,
     locked |-> FALSE, attempted |-> {},
     lockNext |-> [b \in 1 .. OtBlocks |-> 1], timedOut |-> FALSE]

OtInit ==
    /\ otBackend \in {"h5", "flash", "file"}
    /\ otDevice \in {[b \in 1 .. OtBlocks |-> IF b \in used THEN OtForeign
                                              ELSE OtVirgin] :
                     used \in {{}, {1}}}
    /\ otInitialized = FALSE /\ otReady = FALSE /\ otNext = 1
    /\ otKinds = OtCold.kinds /\ otSerial = OtNoSerial /\ otLocked = FALSE
    /\ otAttempted = {} /\ otLockNext = OtCold.lockNext /\ otTimedOut = FALSE
    /\ otOp = OtIdle /\ otVerified = OtNoSerial /\ otSets = 0

-----------------------------------------------------------------------------
\* The drivers.

OtHas(block, state) == \E c \in 1 .. OtCells : otDevice[block].cells[c] = state
OtWhole(block) == \A c \in 1 .. OtCells : otDevice[block].cells[c] = "done"

\* Is the lock set: the OTPBLR bit or the file's lock byte, or, in the
\* emulator, a good lock word of a good record.
OtIsLocked(block) ==
    /\ \E c \in 1 .. OtLocks : otDevice[block].locks[c] = "done"
    /\ otBackend = "flash" => OtWhole(block)

\* Inspect of the H563: a cell counts by its ECC state.
OtStorageH5(block) ==
    CASE OtHas(block, "unreadable") -> "unreadable"
      [] ~OtHas(block, "unreadable") /\
         (OtHas(block, "done") \/ OtHas(block, "wrong") \/ OtIsLocked(block)
          \/ block \in otAttempted) -> "consumed"
      [] OTHER -> "unused"

\* Inspect of the emulator: unused only when every word of the row, the lock
\* words too, is erased and readable.
OtStorageFlash(block) ==
    CASE block \notin otAttempted /\ otDevice[block] = OtVirgin -> "unused"
      [] ~(block \notin otAttempted /\ otDevice[block] = OtVirgin)
         /\ OtHas(block, "unreadable") -> "unreadable"
      [] OTHER -> "consumed"

\* Inspect of the file.
OtStorageFile(block) ==
    CASE OtHas(block, "unreadable") -> "unreadable"
      [] ~OtHas(block, "unreadable") /\
         (OtHas(block, "done") \/ OtIsLocked(block)) -> "consumed"
      [] OTHER -> "unused"

OtStorage(block) ==
    CASE otBackend = "h5" -> OtStorageH5(block)
      [] otBackend = "flash" -> OtStorageFlash(block)
      [] OTHER -> OtStorageFile(block)

\* An interrupted or failed cell write: the file records the attempt first.
OtTorn == IF otBackend = "file" THEN {"virgin", "unreadable", "done"} ELSE OtCellStates

\* May an inspection fail as a whole: always after a time-out, and when the
\* controller is shared and busy.
OtInspections == IF otTimedOut THEN {"failed"} ELSE {"ok", "failed"}

-----------------------------------------------------------------------------
\* The store.

\* Classify.
OtClassify(block) ==
    CASE OtStorage(block) = "unreadable" -> "unreadable"
      [] OtStorage(block) = "unused" /\ ~OtIsLocked(block) -> "unused"
      [] OtStorage(block) = "consumed" /\ OtWhole(block) ->
            IF otDevice[block].value = OtUnknown THEN "unknown" ELSE "valid"
      [] OTHER -> "invalid"

\* Mutant: the first valid record wins.
OtFoundFirst(valid) == Min(valid)

\* The serial number of the scan: the valid record latest in the row order.
OtFound(valid) == Max(valid)

\* Module stage 1: init() of the driver and the scan, or a failure that leaves
\* the store unavailable.
OtScan ==
    /\ ~otInitialized
    /\ otInitialized' = TRUE
    /\ \/ UNCHANGED <<otReady, otNext, otKinds, otSerial, otLocked, otVerified>>
       \/ LET kinds == [b \in 1 .. OtBlocks |-> OtClassify(b)]
              used == {b \in 1 .. OtBlocks : kinds[b] # "unused"}
              valid == {b \in 1 .. OtBlocks : kinds[b] = "valid"}
          IN  /\ otReady' = TRUE
              /\ otKinds' = kinds
              /\ otNext' = IF used = {} THEN 1 ELSE Max(used) + 1
              /\ otSerial' = IF valid = {} THEN OtNoSerial
                             ELSE [value |-> otDevice[OtFound(valid)].value,
                                   block |-> OtFound(valid)]
              /\ otLocked' = (valid # {} /\ OtIsLocked(otSerial'.block))
              /\ otVerified' = IF valid = {} THEN otVerified ELSE
                               [value |-> otDevice[Max(valid)].value,
                                block |-> Max(valid)]
    /\ UNCHANGED <<otBackend, otDevice, otAttempted, otLockNext, otTimedOut,
                   otOp, otSets>>

\* set_serial of a valid value, confirmed at the console: an identical value
\* only retries the lock, another one takes the next block.
OtSet(v) ==
    /\ otReady /\ otOp = OtIdle /\ otSets < OtMaxSets
    /\ otSets' = otSets + 1
    /\ otOp' =
         CASE otSerial.value = v /\ otLocked -> OtIdle
           [] otSerial.value = v /\ ~otLocked ->
                [stage |-> "lock", block |-> otSerial.block, cell |-> 0, value |-> v]
           [] otSerial.value # v /\ otNext = OtBlocks + 1 -> OtIdle
           [] OTHER ->
                [stage |-> "program", block |-> otNext, cell |-> 1, value |-> v]
    /\ UNCHANGED <<otBackend, otDevice, otRam, otVerified>>

\* The block is given up: error after an attempt, or refused before one.
OtProgramFails(attempted) ==
    /\ otOp' = OtIdle
    /\ otNext' = IF attempted THEN otNext + 1 ELSE otNext
    /\ otKinds' = IF attempted THEN [otKinds EXCEPT ![otOp.block] = "invalid"]
                  ELSE otKinds

\* program() is refused before its first cell: inspection fails, the block is
\* not unused, the controller is busy, provisioning is not allowed.
OtRefused ==
    /\ otOp.stage = "program" /\ otOp.cell = 1
    /\ OtProgramFails(FALSE)
    /\ UNCHANGED <<otBackend, otDevice, otInitialized, otReady, otSerial,
                   otLocked, otAttempted, otLockNext, otTimedOut, otVerified,
                   otSets>>

\* One cell is written, with the value's bits.
OtWritten(state) ==
    otDevice' = [otDevice EXCEPT ![otOp.block].cells[otOp.cell] = state,
                                 ![otOp.block].value = otOp.value]

\* Program: the next cell, in order, the completing one last.
OtProgram ==
    /\ otOp.stage = "program"
    /\ otOp.cell = 1 => ~otTimedOut /\ OtStorage(otOp.block) = "unused"
                        /\ ~OtIsLocked(otOp.block)
    /\ otAttempted' = otAttempted \union {otOp.block}
    /\ \/ /\ OtWritten("done")
          /\ IF otOp.cell < OtCells
             THEN otOp' = [otOp EXCEPT !.cell = @ + 1] /\ UNCHANGED <<otNext, otKinds>>
             ELSE /\ otOp' = [otOp EXCEPT !.stage = "verify"]
                  /\ otNext' = otNext + 1
                  /\ otKinds' = [otKinds EXCEPT ![otOp.block] = "invalid"]
          /\ UNCHANGED otTimedOut
       \/ /\ \E state \in OtTorn : OtWritten(state)
          /\ OtProgramFails(TRUE)
          /\ otTimedOut' \in {otTimedOut, otBackend # "file"}
    /\ UNCHANGED <<otBackend, otInitialized, otReady, otSerial, otLocked,
                   otLockNext, otVerified, otSets>>

\* Reading the record back, before the cache is replaced.
OtVerify ==
    /\ otOp.stage = "verify"
    /\ \E inspected \in OtInspections :
         IF inspected = "ok" /\ OtClassify(otOp.block) = "valid"
         THEN /\ otKinds' = [otKinds EXCEPT ![otOp.block] = "valid"]
              /\ otSerial' = [value |-> otDevice[otOp.block].value,
                              block |-> otOp.block]
              /\ otLocked' = OtIsLocked(otOp.block)
              /\ otVerified' = otSerial'
              /\ otOp' = [otOp EXCEPT !.stage = "lock"]
         ELSE /\ otKinds' = [otKinds EXCEPT ![otOp.block] =
                              IF inspected = "failed" THEN "unreadable" ELSE @]
              /\ otOp' = OtIdle
              /\ UNCHANGED <<otSerial, otLocked, otVerified>>
    /\ UNCHANGED <<otBackend, otDevice, otInitialized, otReady, otNext,
                   otAttempted, otLockNext, otTimedOut, otSets>>

\* Mutant: an unreadable lock word reads as erased.
OtLockUsedErased(state) == state \in {"done", "wrong"}

\* Is a lock word of the row used up.
OtLockUsed(state) == state # "virgin"

\* The lock cell to write: the emulator takes a fresh word after the last one
\* tried; the others have one bit.
OtLockCell(block) ==
    IF otBackend # "flash" THEN 1
    ELSE Max({otLockNext[block]} \union
             {c + 1 : c \in {d \in 1 .. OtLocks :
                               OtLockUsed(otDevice[block].locks[d])}})

\* Lock of the driver: nothing to do, refused, or the cell is written, well or
\* not.  Either way the block is inspected next.
OtLock ==
    /\ otOp.stage = "lock"
    /\ otOp' = [otOp EXCEPT !.stage = "check"]
    /\ LET cell == OtLockCell(otOp.block) IN
       \/ UNCHANGED <<otDevice, otLockNext, otTimedOut>>
       \/ /\ ~otTimedOut /\ ~OtIsLocked(otOp.block) /\ cell <= OtLocks
          /\ OtStorage(otOp.block) = "consumed" /\ OtWhole(otOp.block)
          /\ \E state \in IF otBackend = "flash" THEN OtTorn ELSE {"virgin", "done"} :
                /\ otDevice' = [otDevice EXCEPT ![otOp.block].locks[cell] = state]
                /\ otTimedOut' \in {otTimedOut, state # "done" /\ otBackend # "file"}
          /\ otLockNext' = [otLockNext EXCEPT ![otOp.block] = cell + 1]
    /\ UNCHANGED <<otBackend, otInitialized, otReady, otNext, otKinds, otSerial,
                   otLocked, otAttempted, otVerified, otSets>>

\* Lock of the store: the lock as the device now reports it.
OtCheckLock ==
    /\ otOp.stage = "check"
    /\ \E inspected \in OtInspections :
         otLocked' = (inspected = "ok" /\ OtIsLocked(otOp.block))
    /\ otOp' = OtIdle
    /\ UNCHANGED <<otBackend, otDevice, otInitialized, otReady, otNext, otKinds,
                   otSerial, otAttempted, otLockNext, otTimedOut, otVerified,
                   otSets>>

\* Power fails: RAM is lost, and so is a cell that was being written.
OtPowerCut ==
    /\ otInitialized
    /\ \/ UNCHANGED otDevice
       \/ /\ otOp.stage = "program"
          /\ otOp.cell = 1 => OtStorage(otOp.block) = "unused"
          /\ \E state \in OtTorn : OtWritten(state)
       \/ /\ otOp.stage = "lock" /\ OtWhole(otOp.block) /\ ~OtIsLocked(otOp.block)
          /\ OtStorage(otOp.block) = "consumed"
          /\ OtLockCell(otOp.block) <= OtLocks
          /\ \E state \in IF otBackend = "flash" THEN OtTorn ELSE {"virgin", "done"} :
               otDevice' = [otDevice EXCEPT
                              ![otOp.block].locks[OtLockCell(otOp.block)] = state]
    /\ otInitialized' = FALSE /\ otReady' = FALSE /\ otNext' = 1
    /\ otKinds' = OtCold.kinds /\ otSerial' = OtNoSerial /\ otLocked' = FALSE
    /\ otAttempted' = {} /\ otLockNext' = OtCold.lockNext /\ otTimedOut' = FALSE
    /\ otOp' = OtIdle
    /\ UNCHANGED <<otBackend, otVerified, otSets>>

OtNext ==
    \/ OtScan \/ OtRefused \/ OtProgram \/ OtVerify \/ OtLock \/ OtCheckLock
    \/ OtPowerCut
    \/ \E v \in OtSerials : OtSet(v)

OtSpec == OtInit /\ [][OtNext]_otVars

-----------------------------------------------------------------------------

\* A serial number that was once verified is never lost to an older one, to a
\* torn record or to another restart: the store serves that record or a later
\* one that is whole; and it believes a record locked only if it is.
OtDurable ==
    otReady =>
        /\ otSerial.block >= otVerified.block
        /\ otSerial.block > 0 =>
            /\ OtWhole(otSerial.block)
            /\ otDevice[otSerial.block].value = otSerial.value
        /\ otLocked => otSerial.block > 0 /\ OtIsLocked(otSerial.block)

\* Fuses are burnt once: no cell of a record or of a lock that was touched is
\* written again, whatever was attempted before a restart.
OtWriteOnce ==
    [][\A b \in 1 .. OtBlocks :
        /\ \A c \in 1 .. OtCells :
            otDevice[b].cells[c] # "virgin" =>
                otDevice'[b].cells[c] = otDevice[b].cells[c]
        /\ \A c \in 1 .. OtLocks :
            otDevice[b].locks[c] # "virgin" =>
                otDevice'[b].locks[c] = otDevice[b].locks[c]]_otVars

\* What was verified last is never an older record than what was before.
OtForward == [][otVerified'.block >= otVerified.block]_otVars

\* Serial numbers stay, and nothing is burnt twice.
OtKept == [](OtTypeOK /\ OtDurable) /\ OtWriteOnce /\ OtForward

==============================================================================
