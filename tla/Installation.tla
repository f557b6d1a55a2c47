----------------------------- MODULE Installation -----------------------------
(***************************************************************************)
(* Installing, booting and confirming an image: update::Engine and         *)
(* update::Writer, boot::Control and the confirmation gate of the health   *)
(* module, over one flash device and a journal that commits atomically     *)
(* (Journal.tla shows that it does).  The device may be reset at any time. *)
(***************************************************************************)
EXTENDS Integers

CONSTANTS
    Packages,      \* contents of an image
    Factory,       \* the package the factory tool installs
    SectorBlocks,  \* blocks per erase sector
    Cases          \* the sizes and bounds to be explored, see below

ASSUME PackageAssumption == Factory \in Packages
ASSUME CaseAssumption ==
    /\ SectorBlocks \in Nat \ {0}
    /\ \A c \in Cases : /\ c.blocks \in Nat \ {0} /\ c.counter \in Nat \ {0}
                        /\ c.totals \subseteq Nat

VARIABLES
    case,        \* one of Cases; constant
    current,     \* the durable snapshot
    slots,       \* the blocks of both image slots
    op,          \* the flash operation in progress, until its owner polls
    journal,     \* one Journal object in the engine, one in boot::Control
    running,     \* executing slot, 2 in the boot loader
    boot,        \* progress of Control::select() and the jump
    gate,        \* watchdog::Confirmation
    confirming,  \* the caller blocked in confirm_image()
    engine,      \* update::Engine
    writer,      \* update::Writer
    burnt,       \* installations a reset has ended as a trial (history)
    started      \* the counter when the upload began (history)

vars == <<case, current, slots, op, journal, running, boot, gate, confirming, engine,
          writer, burnt, started>>
history == <<burnt, started>>
system  == <<running, boot, gate, confirming>>

Blocks     == case.blocks    \* package blocks of an image
Totals     == case.totals    \* numbers of blocks a header may declare
MaxCounter == case.counter   \* bound on the installation counter

Slots   == {0, 1}
Owners  == {"engine", "control"}
Erased  == "erased"
Bad     == "bad"

NoImage    == [installation |-> 0, package |-> Factory, state |-> "empty"]
NoSnapshot == [counter |-> 0, images |-> [s \in Slots |-> NoImage]]
FreshJournal == [status |-> "ok", next |-> NoSnapshot, landed |-> FALSE]

NoOp == [kind |-> "none", slot |-> 0, block |-> 0, value |-> Erased]

FreshWriter == [state |-> "idle", status |-> "ok", requested |-> FALSE,
                cancelled |-> FALSE, offset |-> 0, written |-> FALSE,
                erased_until |-> 0, data |-> Erased, result |-> "ok"]
FreshEngine ==
    [state |-> "disabled", enabled |-> FALSE, requested |-> FALSE,
     abort_requested |-> FALSE, status |-> "not_running",
     snapshot |-> NoSnapshot, package |-> Factory, total |-> 0,
     received |-> 0, rx |-> Erased, reader |-> "header", offset |-> 0,
     verify_offset |-> 0, verify_crc |-> TRUE]

Init ==
    /\ case \in Cases
    /\ current = [counter |-> 1, images |-> [s \in Slots |->
         IF s = 0 THEN [installation |-> 1, package |-> Factory,
                        state |-> "confirmed"] ELSE NoImage]]
    /\ slots = [s \in Slots |-> [b \in 0..(Blocks - 1) |->
                                   IF s = 0 THEN Factory ELSE Erased]]
    /\ op = NoOp
    /\ journal = [o \in Owners |-> FreshJournal]
    /\ running = 2 /\ boot = "load" /\ gate = "observing"
    /\ confirming = "none"
    /\ engine = FreshEngine /\ writer = FreshWriter
    /\ burnt = {} /\ started = 0

(***************************************************************************)
(* The journal as its users see it.                                        *)
(***************************************************************************)
DeviceIdle == op = NoOp

\* begin(): refused while this object or the device is busy.
JournalReady(o) == journal[o].status # "busy" /\ DeviceIdle

Started(o, next) ==
    [journal EXCEPT ![o] = [status |-> "busy", next |-> next, landed |-> FALSE]]

\* One tick: the next flash operation, the end of the commit, or a failure
\* that may leave an operation in progress behind.
JournalTick(o) ==
    /\ journal[o].status = "busy"
    /\ \/ /\ DeviceIdle /\ ~journal[o].landed
          /\ op' = [NoOp EXCEPT !.kind = o] /\ UNCHANGED journal
       \/ /\ DeviceIdle /\ journal[o].landed
          /\ journal' = [journal EXCEPT ![o].status = "ok"] /\ UNCHANGED op
       \/ /\ journal' = [journal EXCEPT ![o].status = "failed"] /\ UNCHANGED op
       \/ UNCHANGED <<op, journal>>

(***************************************************************************)
(* Control::select() and the jump.  An operation of select() that fails    *)
(* ends in diagnostics and a reset.                                        *)
(***************************************************************************)
Verifies(s) ==
    /\ current.images[s].installation # 0
    /\ \A b \in 0..(Blocks - 1) : slots[s][b] = current.images[s].package

WithState(snapshot, s, state) == [snapshot EXCEPT !.images[s].state = state]

\* Mutant: a trial that was not confirmed becomes eligible again.
RejectedRetry(image) ==
    IF image.state = "trial" THEN [image EXCEPT !.state = "pending"] ELSE image

Rejected(image) ==
    IF image.state = "trial" THEN [image EXCEPT !.state = "rejected"] ELSE image

BootLoad ==
    /\ running = 2 /\ boot = "load"
    /\ IF \E s \in Slots : current.images[s].state = "trial"
       THEN /\ boot' = "rejecting"
            /\ journal' = Started("control", [current EXCEPT !.images =
                 [s \in Slots |-> Rejected(current.images[s])]])
       ELSE boot' = "choose" /\ UNCHANGED journal
    /\ UNCHANGED <<current, slots, op, running, gate, confirming, engine,
                   writer, history>>

BootRejected ==
    /\ running = 2 /\ boot = "rejecting" /\ journal["control"].status # "busy"
    /\ boot' = IF journal["control"].status = "ok" THEN "choose" ELSE "halt"
    /\ UNCHANGED <<current, slots, op, journal, running, gate, confirming,
                   engine, writer, history>>

Newer(s) == IF current.images[1].installation > current.images[0].installation
            THEN s = 1 ELSE s = 0

Eligible(s) == /\ current.images[s].state \in {"pending", "confirmed"}
               /\ Verifies(s)

BootChoose ==
    /\ running = 2 /\ boot = "choose"
    /\ \/ /\ ~\E s \in Slots : Eligible(s)
          /\ boot' = "halt" /\ UNCHANGED journal
       \/ \E s \in Slots :
            /\ Eligible(s) /\ (Newer(s) \/ ~Eligible(1 - s))
            /\ boot' = IF s = 0 THEN "slot0" ELSE "slot1"
            /\ IF current.images[s].state = "pending"
               THEN journal' = Started("control", WithState(current, s, "trial"))
               ELSE UNCHANGED journal
    /\ UNCHANGED <<current, slots, op, running, gate, confirming, engine,
                   writer, history>>

Jump ==
    /\ running = 2 /\ boot \in {"slot0", "slot1"}
    /\ journal["control"].status = "ok"
    /\ running' = IF boot = "slot0" THEN 0 ELSE 1
    /\ boot' = "done"
    /\ UNCHANGED <<current, slots, op, journal, gate, confirming, engine,
                   writer, history>>

BootFails ==
    /\ running = 2 /\ boot \in {"slot0", "slot1"}
    /\ journal["control"].status = "failed"
    /\ boot' = "halt"
    /\ UNCHANGED <<current, slots, op, journal, running, gate, confirming,
                   engine, writer, history>>

(***************************************************************************)
(* confirm_image(), called once by the health gate and at will by the      *)
(* console command.  It blocks the scheduler until its commit ends.        *)
(***************************************************************************)
Foreground == running < 2 /\ confirming = "none" /\ gate # "failed"

GateAfter(caller, ok) ==
    IF caller = "command" THEN gate ELSE IF ok THEN "confirmed" ELSE "failed"

Confirm(caller) ==
    /\ Foreground /\ (caller = "gate" => gate = "observing")
    /\ LET state == current.images[running].state
       IN  IF DeviceIdle /\ state = "trial"
           THEN /\ confirming' = caller /\ UNCHANGED gate
                /\ journal' = Started("control",
                     WithState(current, running, "confirmed"))
           ELSE /\ gate' = GateAfter(caller, DeviceIdle /\ state = "confirmed")
                /\ UNCHANGED <<confirming, journal>>
    /\ UNCHANGED <<current, slots, op, running, boot, engine, writer, history>>

ConfirmEnds ==
    /\ confirming # "none" /\ journal["control"].status # "busy"
    /\ gate' = GateAfter(confirming, journal["control"].status = "ok")
    /\ confirming' = "none"
    /\ UNCHANGED <<current, slots, op, journal, running, boot, engine, writer,
                   history>>

ControlTick ==
    /\ running = 2 \/ confirming # "none"
    /\ JournalTick("control")
    /\ UNCHANGED <<current, slots, running, boot, gate, confirming, engine,
                   writer, history>>

(***************************************************************************)
(* update::Writer: one block, erasing each sector when it is reached.      *)
(***************************************************************************)
Destination == 1 - running

\* Mutant: what was erased for an earlier upload still counts as erased.
ErasedBeforeStale(offset) == writer.erased_until

\* Writer::begin() forgets earlier erases when an image starts over.
ErasedBefore(offset) == IF offset = 0 THEN 0 ELSE writer.erased_until

WriterBegin(offset, data) ==
    writer' = [writer EXCEPT !.offset = offset, !.data = data,
                 !.erased_until = ErasedBefore(offset), !.written = FALSE,
                 !.requested = TRUE, !.cancelled = FALSE, !.status = "busy"]

WriterEnds(w, state, status) ==
    /\ writer' = [w EXCEPT !.state = state, !.status = status]
    /\ UNCHANGED op

SectorEnd(block) == (block \div SectorBlocks + 1) * SectorBlocks

\* The driver may refuse the operation.
WriterPrepare(w) ==
    IF w.cancelled THEN WriterEnds(w, "done", "rejected")
    ELSE IF w.written THEN WriterEnds(w, "done", "ok")
    ELSE LET erase == w.offset >= w.erased_until
             next  == IF erase
                      THEN [w EXCEPT !.erased_until = SectorEnd(w.offset)]
                      ELSE w
         IN  \/ WriterEnds(next, "failed", "failed")
             \/ /\ DeviceIdle
                /\ op' = [kind |-> IF erase THEN "erase" ELSE "program",
                          slot |-> Destination, block |-> w.offset,
                          value |-> w.data]
                /\ writer' = [next EXCEPT !.state =
                                IF erase THEN "erase_wait" ELSE "program_wait"]

\* poll() is terminal, or the operation timed out and goes on without us.
WriterWait(w) ==
    \/ ~DeviceIdle /\ writer' = w /\ UNCHANGED op
    \/ ~DeviceIdle /\ WriterEnds(w, "failed", "failed")
    \/ /\ DeviceIdle
       /\ IF w.result = "error" THEN WriterEnds(w, "failed", "failed")
          ELSE IF w.cancelled THEN WriterEnds(w, "done", "rejected")
          ELSE /\ writer' = [w EXCEPT !.state = "prepare",
                                      !.written = w.state = "program_wait"]
               /\ UNCHANGED op

WriterTick(w) ==
    CASE w.state \in {"idle", "done", "failed"} ->
           /\ writer' = [w EXCEPT !.requested = FALSE,
                           !.state = IF w.requested THEN "prepare" ELSE @]
           /\ UNCHANGED op
      [] w.state = "prepare" -> WriterPrepare(w)
      [] OTHER -> WriterWait(w)

(***************************************************************************)
(* update::Engine requests.  Authorized() is the enable flag or a          *)
(* reservation; both are "enabled" here.                                   *)
(***************************************************************************)
Active == engine.requested
          \/ engine.state \notin {"disabled", "idle", "done", "failed"}

EngineOnly == UNCHANGED <<current, slots, op, journal, system, writer, history>>

Enable(on) ==
    /\ Foreground /\ engine.enabled # on
    /\ engine' = [engine EXCEPT !.enabled = on]
    /\ EngineOnly

\* Mutant: an upload is accepted by an image that is still on trial.
ConfirmedRunningAny == TRUE

ConfirmedRunning == current.images[running].state = "confirmed"

Begin(package, total) ==
    /\ Foreground /\ engine.enabled /\ ~Active
    /\ DeviceIdle /\ ConfirmedRunning /\ current.counter < MaxCounter
    /\ engine' = [engine EXCEPT !.requested = TRUE, !.abort_requested = FALSE,
                    !.status = "busy", !.package = package, !.total = total,
                    !.snapshot = current, !.received = 0, !.rx = Erased,
                    !.verify_offset = 0, !.verify_crc = TRUE]
    /\ started' = current.counter
    /\ UNCHANGED <<current, slots, op, journal, system, writer, burnt>>

Chunk(data) ==
    /\ Foreground /\ engine.enabled /\ ~engine.abort_requested
    /\ engine.state = "receiving" /\ engine.rx = Erased
    /\ engine.received < engine.total /\ engine.reader # "released"
    /\ engine' = [engine EXCEPT !.rx = data, !.received = @ + 1]
    /\ EngineOnly

Abort ==
    /\ Foreground /\ Active
    /\ engine' = [engine EXCEPT !.abort_requested = TRUE]
    /\ EngineOnly

(***************************************************************************)
(* Engine::Step(), one action per state.                                   *)
(***************************************************************************)
Stopped == ~engine.enabled \/ engine.abort_requested

To(state) == engine' = [engine EXCEPT !.state = state]
Fail      == engine' = [engine EXCEPT !.state = "aborting",
                                      !.abort_requested = TRUE]

\* An upload is over; begin() assigns the other members before they are used.
Ends(state, status) ==
    engine' = [FreshEngine EXCEPT !.enabled = engine.enabled, !.state = state,
                                  !.status = status]

\* Journal::begin() with the engine's snapshot; it may be refused.
Commit(snapshot, state) ==
    /\ JournalReady("engine")
    /\ journal' = Started("engine", snapshot)
    /\ engine' = [engine EXCEPT !.state = state, !.snapshot = snapshot,
                                !.requested = FALSE]

TickIdle ==
    /\ Foreground /\ engine.state \in {"disabled", "idle", "done", "failed"}
    /\ \/ /\ engine.requested
          /\ Commit(WithState(engine.snapshot, Destination, "incomplete"),
                    "invalidating")
       \/ /\ engine.requested
          /\ Ends("failed", "failed") /\ UNCHANGED journal
       \/ /\ ~engine.requested /\ ~engine.enabled
          /\ To("disabled") /\ UNCHANGED journal
       \/ /\ ~engine.requested /\ engine.enabled /\ engine.state = "disabled"
          /\ engine' = [engine EXCEPT !.state = "idle", !.status = "ok"]
          /\ UNCHANGED journal
    /\ UNCHANGED <<current, slots, op, system, writer, history>>

\* Mutant: the upload starts although its invalidation failed.
InvalidatedAnyhow(status) == status # "busy"

Invalidated(status) == status = "ok"

TickInvalidating ==
    /\ Foreground /\ engine.state = "invalidating"
    /\ JournalTick("engine")
    /\ LET status == journal'["engine"].status
       IN  IF Stopped THEN To("aborting")
           ELSE IF Invalidated(status)
           THEN engine' = [engine EXCEPT !.state = "receiving",
                             !.reader = "header", !.offset = 0]
           ELSE IF status = "busy" THEN UNCHANGED engine
           ELSE Ends("failed", "failed")
    /\ UNCHANGED <<current, slots, system, writer, history>>

\* The reader consumes a block or, after its release, moves on; a malformed
\* block, a package that does not end with its image and inactivity abort.
TickReceiving ==
    /\ Foreground /\ engine.state = "receiving"
    /\ LET next == engine.offset + 1
       IN  \/ Stopped /\ To("aborting") /\ UNCHANGED writer
           \/ /\ ~Stopped /\ engine.reader = "released" /\ next < Blocks
              /\ engine' = [engine EXCEPT !.reader = "header", !.offset = next,
                   !.state = IF engine.received = engine.total THEN "aborting"
                                                               ELSE @,
                   !.abort_requested = engine.received = engine.total]
              /\ UNCHANGED writer
           \/ /\ ~Stopped /\ engine.reader = "released" /\ next = Blocks
              /\ IF engine.received = engine.total THEN To("verifying") ELSE Fail
              /\ UNCHANGED writer
           \/ /\ ~Stopped /\ engine.reader = "header" /\ engine.rx # Erased
              /\ \/ Fail /\ UNCHANGED writer
                 \/ /\ DeviceIdle /\ writer.status # "busy"
                    /\ WriterBegin(engine.offset, engine.rx)
                    /\ engine' = [engine EXCEPT !.state = "writing",
                                    !.rx = Erased, !.reader = "ready"]
           \/ /\ ~Stopped /\ engine.reader = "header" /\ engine.rx = Erased
              /\ Fail /\ UNCHANGED writer
    /\ UNCHANGED <<current, slots, op, journal, system, history>>

TickWriting ==
    /\ Foreground /\ engine.state = "writing"
    /\ IF Stopped
       THEN /\ To("aborting") /\ UNCHANGED op
            /\ writer' = [writer EXCEPT !.cancelled = TRUE]
       ELSE /\ WriterTick(writer)
            /\ CASE writer'.status = "busy" -> UNCHANGED engine
                 [] writer'.status = "ok" ->
                      engine' = [engine EXCEPT !.state = "receiving",
                                               !.reader = "released"]
                 [] OTHER -> Fail
    /\ UNCHANGED <<current, slots, journal, system, history>>

\* Mutant: the readback is not compared with the declared checksum.
MatchesAny(crc) == TRUE

Matches(crc) == crc

\* The snapshot that makes the new image bootable, read again from flash.
Installed == [counter |-> current.counter + 1, images |->
    [current.images EXCEPT ![Destination] =
       [installation |-> current.counter + 1, package |-> engine.package,
        state |-> "pending"]]]

TickVerifying ==
    /\ Foreground /\ engine.state = "verifying"
    /\ LET at  == engine.verify_offset
           crc == /\ engine.verify_crc
                  /\ slots[Destination][at] = engine.package
       IN  \/ Stopped /\ To("aborting") /\ UNCHANGED journal
           \/ ~Stopped /\ Fail /\ UNCHANGED journal
           \/ /\ ~Stopped /\ DeviceIdle /\ at + 1 < Blocks
              /\ engine' = [engine EXCEPT !.verify_offset = at + 1,
                                          !.verify_crc = crc]
              /\ UNCHANGED journal
           \/ /\ ~Stopped /\ DeviceIdle /\ at + 1 = Blocks /\ Matches(crc)
              /\ current.counter < MaxCounter
              /\ Commit(Installed, "committing")
    /\ UNCHANGED <<current, slots, op, system, writer, history>>

TickCommitting ==
    /\ Foreground /\ engine.state = "committing"
    /\ JournalTick("engine")
    /\ LET status == journal'["engine"].status
       IN  CASE Stopped -> To("aborting")
             [] ~Stopped /\ status = "busy" -> UNCHANGED engine
             [] ~Stopped /\ status = "ok" -> Ends("done", "ok")
             [] OTHER -> Fail
    /\ UNCHANGED <<current, slots, system, writer, history>>

\* Mutant: a candidate that became durable under the abort is left alone.
NeedsInvalidationNever == FALSE

NeedsInvalidation == current.images[Destination].state = "pending"

\* Everything in progress ends first; then a candidate that was committed
\* meanwhile is invalidated.
TickAborting ==
    /\ Foreground /\ engine.state = "aborting"
    /\ CASE writer.status = "busy" ->
              /\ WriterTick([writer EXCEPT !.cancelled = TRUE])
              /\ UNCHANGED <<engine, journal>>
         [] writer.status # "busy" /\ journal["engine"].status = "busy" ->
              JournalTick("engine") /\ UNCHANGED <<engine, writer>>
         [] OTHER ->
              /\ DeviceIdle /\ UNCHANGED <<op, writer>>
              /\ IF NeedsInvalidation
                 THEN \/ Commit(WithState(current, Destination, "incomplete"),
                                "aborting")
                      \/ Ends("failed", "failed") /\ UNCHANGED journal
                 ELSE Ends("failed", "aborted") /\ UNCHANGED journal
    /\ UNCHANGED <<current, slots, system, history>>

(***************************************************************************)
(* The flash device and resets.                                            *)
(***************************************************************************)
InSector(block) == {b \in 0..(Blocks - 1) : SectorEnd(b) = SectorEnd(block)}

\* What an operation makes of the blocks it touches.
Written(done) ==
    [s \in Slots |-> [b \in 0..(Blocks - 1) |->
        CASE op.kind = "erase" /\ s = op.slot /\ b \in InSector(op.block) ->
               IF done THEN Erased ELSE Bad
          [] op.kind = "program" /\ s = op.slot /\ b = op.block ->
               IF done /\ slots[s][b] = Erased THEN op.value ELSE Bad
          [] OTHER -> slots[s][b]]]

\* A journal operation may be the one that makes the commit durable.
Lands == /\ op.kind \in Owners /\ ~journal[op.kind].landed
         /\ current' = journal[op.kind].next

FlashDone(result) ==
    /\ ~DeviceIdle /\ op' = NoOp
    /\ \/ /\ Lands /\ journal' = [journal EXCEPT ![op.kind].landed = TRUE]
       \/ UNCHANGED <<current, journal>>
    /\ slots' = Written(result = "ok")
    /\ writer' = [writer EXCEPT !.result = result]
    /\ UNCHANGED <<system, engine, history>>

\* A reset ends every trial that is not durably confirmed.
Restart ==
    /\ Lands \/ UNCHANGED current
    /\ slots' \in {slots, Written(FALSE), Written(TRUE)}
    /\ burnt' = burnt \cup {current'.images[s].installation :
                   s \in {t \in Slots : current'.images[t].state = "trial"}}
    /\ op' = NoOp /\ journal' = [o \in Owners |-> FreshJournal]
    /\ running' = 2 /\ boot' = "load" /\ gate' = "observing"
    /\ confirming' = "none" /\ engine' = FreshEngine /\ writer' = FreshWriter
    /\ started' = 0

BootStep   == BootLoad \/ BootRejected \/ BootChoose
              \/ Jump \/ BootFails
Request    == \/ \E on \in BOOLEAN : Enable(on)
              \/ \E p \in Packages, n \in Totals : Begin(p, n)
              \/ \E p \in Packages : Chunk(p)
              \/ Abort
              \/ \E caller \in {"gate", "command"} : Confirm(caller)
EngineTick == TickIdle \/ TickInvalidating \/ TickReceiving \/ TickWriting
              \/ TickVerifying \/ TickCommitting \/ TickAborting

Next == \/ BootStep \/ Request \/ EngineTick \/ ControlTick \/ ConfirmEnds
        \/ \E result \in {"ok", "error"} : FlashDone(result)
        \/ Restart

Spec == Init /\ [][Next /\ UNCHANGED case]_vars

(***************************************************************************)
(* Properties.                                                             *)
(***************************************************************************)
\* The device can always boot: in every state, so after a reset at any
\* moment, some slot is confirmed and its contents pass Control::verify().
FallbackSurvives ==
    \E s \in Slots : current.images[s].state = "confirmed" /\ Verifies(s)

\* Durable metadata never offers an image whose contents are not complete,
\* whatever upload, abort, late flash operation or reset came before.
EligibleIsComplete ==
    \A s \in Slots :
        current.images[s].state \in {"pending", "trial", "confirmed"} => Verifies(s)

\* services.md: "any reset before confirmation ... rejects that installation.
\* Do not automatically retry it."  An installation whose trial a reset ended
\* never executes again, nor does one that is not durably a trial.
TrialOnce ==
    running < 2 =>
        /\ current.images[running].installation \notin burnt
        /\ current.images[running].state \in {"trial", "confirmed"}

\* An upload that reports it was aborted leaves no bootable candidate, even if
\* its commit became durable under the abort, and nothing in progress that
\* could still make it one.
AbortInvalidates ==
    engine.state = "failed" /\ engine.status = "aborted" =>
        /\ current.images[Destination].state # "pending"
        /\ op.kind = "engine" =>
             journal["engine"].next.images[Destination].state # "pending"

\* The users of the one flash device keep out of each other's way.  The Journal
\* objects of the engine and of boot::Control never commit at the same time:
\* the second record would reuse the first one's sequence number.  And the
\* writer, whose idea of what it has erased outlives an upload, programs
\* erased blocks only.
FlashShared ==
    /\ ~(journal["engine"].status = "busy" /\ journal["control"].status = "busy")
    /\ op.kind = "program" => slots[op.slot][op.block] = Erased

\* services.md: confirmation "is idempotent without another write when already
\* confirmed": the health gate does not fail, and reset, a confirmed image.
ConfirmIdempotent ==
    running < 2 /\ gate = "failed" => current.images[running].state # "confirmed"

\* services.md: "aborted uploads do not consume a number."
AbortKeepsCounter ==
    engine.state = "failed" /\ engine.status = "aborted" =>
        current.counter = started
===============================================================================
