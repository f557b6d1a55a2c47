---------------------------- MODULE FlashDriver -----------------------------
(***************************************************************************)
(* The flash drivers of the two chips: platform/stm32h5/reliability.cpp    *)
(* (Flash, the ECC non-maskable interrupt and the guarded OTP read) and    *)
(* platform/stm32h7/flash.cpp.                                             *)
(*                                                                         *)
(* Several Flash objects (the journal's, the updater's, the OTP driver's)  *)
(* share the controller.  An erase or a program runs in the hardware while *)
(* its owner polls.  Reads go through the cache, which the hardware does   *)
(* not keep coherent with a write.  A word whose ECC fails latches its     *)
(* address; on stm32h5 the interrupt that reports it may come some time    *)
(* after the load, on stm32h7 the flag is read under a fault mask.         *)
(*                                                                         *)
(* External, from how the code uses it: the controller, the cache, the ECC *)
(* latch, and code that reads flash directly (FdTouch).                    *)
(***************************************************************************)
EXTENDS Integers

CONSTANTS
  FdUsers,      \* Flash objects
  FdWords,      \* flash words 0..FdWords-1
  FdPerBank,    \* words of a bank: on stm32h5 one sector, on stm32h7 a sector each
  FdMaxOps      \* bound: erases and programs started

ASSUME FdAssumption == /\ FdWords \in Nat \ {0} /\ FdPerBank \in Nat \ {0}
                       /\ FdMaxOps \in Nat /\ "none" \notin FdUsers

VARIABLES
  fdChip,       \* "h5" or "h7"
  fdExecuting,  \* ExecutingBank() of stm32h7; -1 when it runs from neither
  fdCells,      \* the flash: "erased", "data" or "bad" (ECC fails)
  fdOtp,        \* an OTP halfword (never written here)
  fdCache,      \* what the cache holds of each word, "none" when nothing
  fdOwner,      \* flash_owner
  fdPending,    \* pending_ of each object
  fdTarget,     \* address_ and size_ of the operation: its kind and word
  fdOp,         \* whether the hardware is at work (kBusy)
  fdErrors,     \* the error flags of the last operation
  fdRead,       \* the read under way: its region, range, next word, read_error, bytes
  fdEcc,        \* the ECC latch: the word it names, -1 when clear
  fdUp,         \* FALSE once a fault was captured
  fdReply,      \* what the last call returned
  fdOps         \* operations started

fdVars == <<fdChip, fdExecuting, fdOtp, fdCells, fdCache, fdOwner, fdPending, fdTarget, fdOp,
            fdErrors, fdRead, fdEcc, fdUp, fdReply, fdOps>>

FdAll == 0..(FdWords - 1)
FdBank(w) == w \div FdPerBank
FdJournal(w) == w % FdPerBank = 0   \* the journal sector of an stm32h7 bank
FdValues == {"erased", "data", "bad"}

\* The halfword of the OTP area that read_otp reads, after the flash.
FdOtpWord == FdWords
FdOtpValues == {"virgin", "programmed", "torn", "corrected"}

\* The words an erase at w erases.
FdErased(w) == IF fdChip = "h7" THEN {w} ELSE {v \in FdAll : FdBank(v) = FdBank(w)}

FdWritten == IF fdTarget.kind = "erase" THEN FdErased(fdTarget.word) ELSE {fdTarget.word}

FdNoRead == [region |-> "none", from |-> 0, end |-> 0, at |-> 0, error |-> FALSE,
             failed |-> "none", bytes |-> [w \in 0..FdWords |-> "none"]]
FdNoReply == [call |-> "none"]

FdInit ==
  /\ fdChip \in {"h5", "h7"} /\ fdExecuting \in (IF fdChip = "h7" THEN {-1, 0, 1} ELSE {-1})
  /\ fdCells \in [FdAll -> FdValues] /\ fdOtp \in (IF fdChip = "h5" THEN FdOtpValues ELSE {"virgin"})
  /\ fdCache = [w \in FdAll |-> "none"]
  /\ fdOwner = "none" /\ fdPending = [u \in FdUsers |-> FALSE]
  /\ fdTarget = [kind |-> "none", word |-> 0]
  /\ fdOp = FALSE /\ fdErrors = FALSE
  /\ fdRead = FdNoRead /\ fdEcc = -1
  /\ fdUp = TRUE /\ fdReply = FdNoReply /\ fdOps = 0

\* The task that calls the driver is not inside a read.
FdFree == fdUp /\ fdRead.region = "none"

-----------------------------------------------------------------------------
(* Erase, Program and Poll *)

FdUnlockIdle(u) == ~fdPending[u] /\ ~fdOp   \* mutant: ignores another's ownership

\* Unlock: one operation at a time, owned until its caller has polled the end.
FdUnlock(u) == fdOwner = "none" /\ ~fdPending[u] /\ ~fdOp

\* In the bank it runs from, stm32h7 programs the journal and nothing else.
FdAllowed(kind, w) ==
  fdChip = "h7" /\ FdBank(w) = fdExecuting => kind = "program" /\ FdJournal(w)

\* Erase and Program once the range and alignment are right.
FdBegin(u, kind, w) ==
  /\ FdFree /\ fdOps < FdMaxOps
  /\ FdAllowed(kind, w) /\ FdUnlock(u)
  /\ fdOwner' = u
  /\ fdPending' = [fdPending EXCEPT ![u] = TRUE]
  /\ fdTarget' = [kind |-> kind, word |-> w]
  /\ fdOp' = TRUE /\ fdErrors' = FALSE
  /\ fdOps' = fdOps + 1 /\ fdReply' = FdNoReply
  /\ UNCHANGED <<fdChip, fdExecuting, fdOtp, fdCells, fdCache, fdRead, fdEcc, fdUp>>

FdErase(u, w) == FdBegin(u, "erase", w)

FdProgram(u, w) == FdBegin(u, "program", w)

\* The hardware finishes: well, or with an error that leaves the words as they
\* were or unreadable.  Only erased words are programmed without an error.
FdDone ==
  LET after == IF fdTarget.kind = "erase" THEN "erased" ELSE "data"
  IN /\ fdUp /\ fdOp
     /\ fdOp' = FALSE
     /\ \/ /\ fdTarget.kind = "program" => fdCells[fdTarget.word] = "erased"
           /\ fdCells' = [w \in FdAll |-> IF w \in FdWritten THEN after ELSE fdCells[w]]
           /\ UNCHANGED fdErrors
        \/ /\ fdErrors' = TRUE
           /\ \/ UNCHANGED fdCells
              \/ fdCells' = [w \in FdAll |-> IF w \in FdWritten THEN "bad" ELSE fdCells[w]]
     /\ UNCHANGED <<fdChip, fdExecuting, fdOtp, fdCache, fdOwner, fdPending, fdTarget, fdRead,
                    fdEcc, fdUp, fdReply, fdOps>>

\* The cache after an operation: stm32h5 invalidates all of it, stm32h7 the
\* words of the operation.
FdInvalidated ==
  [w \in FdAll |-> IF fdChip = "h5" \/ w \in FdWritten THEN "none" ELSE fdCache[w]]

\* Poll of the owner after the hardware is done.  The stm32h5 cache may take
\* longer than the call waits for: timeout, the operation itself being over.
FdPoll(u) ==
  /\ FdFree /\ fdOwner \in {"none", u} /\ ~fdOp /\ fdPending[u]
  /\ fdPending' = [fdPending EXCEPT ![u] = FALSE]
  /\ fdOwner' = "none" /\ fdErrors' = FALSE
  /\ fdCache' = FdInvalidated
  /\ \E status \in {IF fdErrors THEN "io_error" ELSE "ok"}
                     \cup (IF fdChip = "h5" THEN {"timeout"} ELSE {}) :
       fdReply' = [call |-> "poll", status |-> status, kind |-> fdTarget.kind, word |-> fdTarget.word]
  /\ UNCHANGED <<fdChip, fdExecuting, fdOtp, fdCells, fdTarget, fdOp, fdRead, fdEcc, fdUp, fdOps>>

-----------------------------------------------------------------------------
(* Read *)

FdMayReadBusy == ~fdOp   \* mutant: looks at the hardware only

\* A read is refused until the owner has seen the end of its operation.
FdMayRead == fdOwner = "none" /\ ~fdOp

\* Read: the guard for the interrupt is set up.
FdReadStart(region, from, end) ==
  /\ FdFree /\ FdMayRead
  /\ fdRead' = [FdNoRead EXCEPT !.region = region, !.from = from, !.end = end, !.at = from]
  /\ fdEcc' = -1 /\ fdReply' = FdNoReply
  /\ UNCHANGED <<fdChip, fdExecuting, fdOtp, fdCells, fdCache, fdOwner, fdPending, fdTarget,
                 fdOp, fdErrors, fdUp, fdOps>>

\* read_otp, after its caller asked flash_busy.
FdReadOtp == fdChip = "h5" /\ FdReadStart("otp", FdOtpWord, FdOtpWord + 1)

\* What a load returns: from the cache or from the flash, and from the OTP area,
\* which is not cacheable.  A virgin OTP halfword reads as ones and fails.
FdLoaded(w) ==
  IF w = FdOtpWord THEN (IF fdOtp = "virgin" THEN "ones" ELSE "other")
  ELSE IF fdCache[w] # "none" THEN fdCache[w] ELSE fdCells[w]

FdFails(w) ==
  IF w = FdOtpWord THEN fdOtp \in {"virgin", "torn"} ELSE FdLoaded(w) = "bad"

\* The latch keeps the first failing word until it is cleared.
FdLatched(w) == IF FdFails(w) /\ fdEcc = -1 THEN w ELSE fdEcc

FdFilled(w) ==
  IF w = FdOtpWord \/ FdFails(w) THEN fdCache ELSE [fdCache EXCEPT ![w] = FdLoaded(w)]

\* One word of the copy; stm32h7 inspects the error flag before the next word.
FdLoad ==
  LET w == fdRead.at IN
  /\ fdUp /\ fdRead.region # "none" /\ w < fdRead.end
  /\ fdRead' = [fdRead EXCEPT !.at = w + 1, !.bytes[w] = FdLoaded(w),
                              !.error = @ \/ (fdChip = "h7" /\ FdFails(w))]
  /\ fdEcc' = IF fdChip = "h5" THEN FdLatched(w) ELSE fdEcc
  /\ fdCache' = FdFilled(w)
  /\ UNCHANGED <<fdChip, fdExecuting, fdOtp, fdCells, fdOwner, fdPending, fdTarget, fdOp,
                 fdErrors, fdUp, fdReply, fdOps>>

\* matches: the event is of the region and range being read.
FdMatches == fdRead.region # "none" /\ fdEcc >= fdRead.from /\ fdEcc < fdRead.end

\* The NMI: excused and acknowledged, or a fault.
FdNmi ==
  /\ fdUp /\ fdChip = "h5" /\ fdEcc # -1
  /\ IF FdMatches
     THEN /\ fdRead' = [fdRead EXCEPT !.error = TRUE, !.failed = FdLoaded(fdEcc)]
          /\ fdEcc' = -1
          /\ UNCHANGED fdUp
     ELSE /\ fdUp' = FALSE
          /\ UNCHANGED <<fdRead, fdEcc>>
  /\ fdReply' = FdNoReply
  /\ UNCHANGED <<fdChip, fdExecuting, fdOtp, fdCells, fdCache, fdOwner, fdPending, fdTarget, fdOp,
                 fdErrors, fdOps>>

\* FinishRead: wait until the latch is clear.
FdSettled == fdEcc = -1

\* classify: virgin only when both the value and the failing data are ones.
FdClass ==
  CASE fdOtp = "corrected" -> "unreadable"
    [] fdOtp # "corrected" /\ ~fdRead.error -> "programmed"
    [] OTHER -> IF fdRead.bytes[FdOtpWord] = "ones" /\ fdRead.failed = "ones"
                THEN "virgin" ELSE "unreadable"

\* The end of a read.
FdReadEnd ==
  /\ fdUp /\ fdRead.region # "none" /\ fdRead.at = fdRead.end
  /\ FdSettled
  /\ fdRead' = FdNoRead
  /\ fdReply' = IF fdRead.region = "otp" THEN [call |-> "otp", status |-> FdClass] ELSE
                [call |-> "read", status |-> IF fdRead.error THEN "io_error" ELSE "ok",
                 from |-> fdRead.from, end |-> fdRead.end, bytes |-> fdRead.bytes]
  /\ UNCHANGED <<fdChip, fdExecuting, fdOtp, fdCells, fdCache, fdOwner, fdPending, fdTarget, fdOp,
                 fdErrors, fdEcc, fdUp, fdOps>>

\* FinishRead gives up waiting: a fault.
FdGivesUp ==
  /\ fdUp /\ fdChip = "h5" /\ fdRead.region # "none" /\ fdRead.at = fdRead.end
  /\ fdEcc # -1
  /\ fdUp' = FALSE /\ fdReply' = FdNoReply
  /\ UNCHANGED <<fdChip, fdExecuting, fdOtp, fdCells, fdCache, fdOwner, fdPending, fdTarget, fdOp,
                 fdErrors, fdRead, fdEcc, fdOps>>

\* Other code, an interrupt handler included, reads a word of the flash for
\* itself.  The bus stalls a read of the bank being written.  On stm32h7 a
\* failing word is a bus fault at once.
FdTouch(w) ==
  /\ fdUp
  /\ fdOp => FdBank(w) # FdBank(fdTarget.word)
  /\ fdCache' = FdFilled(w)
  /\ IF fdChip = "h7" THEN fdUp' = ~FdFails(w) /\ UNCHANGED fdEcc
                      ELSE fdEcc' = FdLatched(w) /\ UNCHANGED fdUp
  /\ fdReply' = FdNoReply
  /\ UNCHANGED <<fdChip, fdExecuting, fdOtp, fdCells, fdOwner, fdPending, fdTarget, fdOp, fdErrors,
                 fdRead, fdOps>>

-----------------------------------------------------------------------------
FdNext ==
  \/ \E u \in FdUsers, w \in FdAll : FdErase(u, w) \/ FdProgram(u, w)
  \/ \E u \in FdUsers : FdPoll(u)
  \/ \E from \in FdAll, end \in 1..FdWords : from < end /\ FdReadStart("flash", from, end)
  \/ FdReadOtp
  \/ FdDone \/ FdLoad \/ FdNmi \/ FdReadEnd \/ FdGivesUp
  \/ \E w \in FdAll : FdTouch(w)

FdSpec == FdInit /\ [][FdNext]_fdVars

-----------------------------------------------------------------------------
FdBytes == {"none", "ones", "other"} \cup FdValues

FdReads == [region : {"none", "flash", "otp"}, from : 0..FdWords, end : 0..(FdWords + 1),
            at : 0..(FdWords + 1), error : BOOLEAN, failed : FdBytes,
            bytes : [0..FdWords -> FdBytes]]

FdTypeOK ==
  /\ fdChip \in {"h5", "h7"} /\ fdOtp \in FdOtpValues
  /\ fdCells \in [FdAll -> FdValues]
  /\ fdCache \in [FdAll -> {"none", "erased", "data"}]
  /\ fdOwner \in FdUsers \cup {"none"}
  /\ fdPending \in [FdUsers -> BOOLEAN]
  /\ fdTarget \in [kind : {"none", "erase", "program"}, word : FdAll]
  /\ fdOp \in BOOLEAN /\ fdErrors \in BOOLEAN
  /\ fdRead \in FdReads
  /\ fdEcc \in -1..FdWords

\* The controller is never worked by two Flash objects: an operation in the
\* hardware has an owner, and an object that waits for an operation is that
\* owner, from Unlock until its Poll saw the end.
FdExclusive ==
  /\ fdOp => fdOwner # "none"
  /\ \A u \in FdUsers : fdPending[u] <=> fdOwner = u

\* What a call reports is true of the flash.  An ok read returned what the flash
\* holds, not what the cache kept from before a write, and no word of it failed
\* its ECC, however late the interrupt came; a read error means a word of this
\* very range fails, not one some other code touched meanwhile; an OTP halfword
\* is called virgin, or programmed, only when it is; an operation reported ok
\* has taken effect.
FdHonest ==
  /\ fdReply.call = "read" /\ fdReply.status = "ok" =>
       \A w \in fdReply.from..(fdReply.end - 1) :
         fdReply.bytes[w] = fdCells[w] /\ fdCells[w] # "bad"
  /\ fdReply.call = "read" /\ fdReply.status = "io_error" =>
       \E w \in fdReply.from..(fdReply.end - 1) : fdCells[w] = "bad"
  /\ fdReply.call = "poll" /\ fdReply.status = "ok" =>
       IF fdReply.kind = "erase"
       THEN \A w \in FdErased(fdReply.word) : fdCells[w] = "erased"
       ELSE fdCells[fdReply.word] = "data"
  /\ fdReply.call = "otp" => fdReply.status = (IF fdOtp \in {"virgin", "programmed"}
                                              THEN fdOtp ELSE "unreadable")

-----------------------------------------------------------------------------
(* The strengthening that makes FdHonest inductive. *)

\* The cache differs from the flash only in the words of an operation whose
\* owner has not yet polled its end.
FdCoherent ==
  \A w \in FdAll : fdCache[w] # "none" /\ fdCache[w] # fdCells[w] =>
                     fdOwner # "none" /\ w \in FdWritten

\* An operation that is over without an error has taken effect.
FdEffective ==
  fdOwner # "none" /\ ~fdOp /\ ~fdErrors =>
    IF fdTarget.kind = "erase" THEN \A w \in FdErased(fdTarget.word) : fdCells[w] = "erased"
    ELSE fdCells[fdTarget.word] = "data"

\* During a read nobody owns the controller, the latch names a failing word,
\* and a failing word that was copied is in the latch or already noted.
FdGuarded ==
  fdRead.region # "none" =>
    /\ fdOwner = "none"
    /\ fdRead.from <= fdRead.at /\ fdRead.at <= fdRead.end /\ fdRead.from < fdRead.end
    /\ fdRead.region = "flash" => fdRead.end <= FdWords
    /\ fdRead.region = "otp" => fdRead.from = FdOtpWord /\ fdChip = "h5"
    /\ fdEcc # -1 => FdFails(fdEcc)
    /\ \A w \in 0..FdWords : fdRead.from <= w /\ w < fdRead.at =>
         /\ fdRead.bytes[w] = FdLoaded(w)
         /\ FdFails(w) => fdRead.error \/ fdEcc # -1
    /\ fdRead.error => \E w \in 0..FdWords : /\ fdRead.from <= w /\ w < fdRead.end /\ FdFails(w)
                                             /\ fdRead.region = "otp" => fdRead.failed = FdLoaded(w)

\* What was returned is about a controller at rest.
FdAtRest == fdReply.call # "none" => ~fdOp

FdInvariant ==
  FdTypeOK /\ FdExclusive /\ FdCoherent /\ FdEffective /\ FdGuarded /\ FdAtRest /\ FdHonest
=============================================================================
