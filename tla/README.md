# TLA+ specification of DaveOS

DaveOS is a cooperative scheduler for microcontrollers with the services built
around it: a boot loader with two image slots, over-the-air updates, a
watchdog, bus controllers, storage, a console and a network stack. This
directory holds TLA+ modules translated from the C++ sources, TLC configurations
that check them on small instances, and TLAPS proofs for every instance.

## The system and its modules

| Part | Module | What is hard about it |
|---|---|---|
| Scheduler (`lib/core/schedule`) on its platforms | `Scheduler` | every operation but `init`, `run` and `yield` may come from an interrupt or another thread; work and sleep are checked under different critical sections |
| STM32 clock (`platform/detail`) | `Tim2Clock` | a counter that rolls over between two reads, a compare value that has passed before it is written |
| Logger and queues (`lib/core/logging`, `queue`) | `LogQueue` | writers in interrupts, a full ring, a mutex that is only tried |
| Commands (`lib/core/command`) | `Command` | arguments that borrow one buffer, a handler that submits a command, limits of integers |
| Journal (`lib/boot/journal.cpp`) | `Journal`, `AtomicSnapshot` | power loss in any flash operation, late operations after a timeout, the executing bank must not be erased |
| Boot control, update engine, block writer | `Installation` | one trial per installation, a fallback at all times, aborts during a commit, two journals on one flash |
| Update package (`lib/update/package.cpp`, `tools/package.py`) | `Package` | any fragmentation, a restart in the middle of a block, relocation |
| Update sources (`protocol.cpp`, `file.cpp`, `net/update.cpp`) | `UpdateSources` | a session that ends inside a frame, two sources of one engine |
| Flash drivers (`platform/stm32h5`, `stm32h7`) | `FlashDriver` | several owners, a cache, ECC interrupts that come late |
| Watchdog and health (`lib/watchdog`, `lib/util/fault.cpp`) | `Health` | off-by-one in expected iterations, the record that must name this boot's failure |
| HAL controller (`lib/hal`) | `BusController` | deadline against completion, late alarms, failed cleanup |
| Time arithmetic (`duration.hpp`, `actions.hpp`, watchdog ticks) | `Timing` | products that wrap, rounding |
| SPI driver with DMA (`platform/stm32/bus`, `spi_dma.h`) | `SpiDriver` | chunks of two engines in one action, an early end |
| I2C driver and bus clear | `I2cDriver` | NBYTES chunks, repeated start, an abort in the middle of a clock |
| Scanner, display, converter (`hal/adapters`, `lib/drivers`) | `BusClients` | leases of several buses, completions between ticks |
| Bus registry and application (`registry.hpp`, `application.hpp`) | `Startup` | an initialization that fails half-way, is repeated, or meets a controller that is up |
| OTP store (`lib/otp`) | `OtpStore` | power loss between program, verify and lock of write-once cells |
| Console (`lib/console`, UART, USB) | `Console` | interrupt-side producer, two output halves, an echoed line around log lines |
| Network service and TCP server (`lib/net`) | `TcpServer` | callbacks that end the session they run for, a window to give back |
| Ethernet driver | `EthDriver` | buffers owned by DMA, HAL or stack across link changes |
| Volume, storage commands, file transfer (`lib/storage`) | `FileService` | every media access yields; a client may leave at any step |
| SD card (`lib/storage/sd`) | `SdSession` | a failed or reset card inside an access that pumps the scheduler |

How they meet: the scheduler runs the ticks of every service and relies on the
platform's timer. Services reach hardware through `BusController`, above
`SpiDriver` and `I2cDriver`; `SdSession` uses it for the card, `FileService` uses the
card, and an update comes either from `TcpServer` or from a file, through
`UpdateSources` and `Package`, into `Installation`, which stores images with
`FlashDriver` and metadata with `Journal`. `Health` confirms an installed image
or resets it.

Where two parts meet, the upper module contains what the lower one promises
and the lower module is checked for that promise. `Installation` has the journal
as a commit that lands at one of its flash operations or never, which is
`AtomicSnapshot`; `BusClients` and `SdSession` have one transaction at a time that
always completes, which are `AnsweredTruly` and `TransfersEnd`; `UpdateSources` has a
stream of one client, which is `TcSessions`, and a file system whose calls
succeed or fail, which is `FileService`'s.

`PROJECT.json` lists each part with its status, each hazard at its line, and the
source lines of each definition.

### How state and actions correspond to the code

* `Scheduler`: one thread owns `init()` and `run()`, its control point is `pc`. A
  stretch of code under one `Guard` is one action. Operations are enabled in every
  control state, as a callback, another thread or an interrupt may call them there.
  `armed` is the deadline of the platform timer, `isr`/`callback` the progress of
  `Fire()`, `notified` whether the notification sequence has moved since `run()`
  sampled it, `stack` the tasks nested by `yield()`. `posted` and `received` are
  history.
* `Tim2Clock`: each register access is a step and the counter advances between any
  two. Thread calls and the interrupt mask each other, not the counter.
* `LogQueue`: what one `Guard` covers is a step; a call that holds only a mutex is
  several (lock, copy, index, unlock).
* `Command`: a submission splits the line, matches module and command, and converts
  the arguments, each by the kind of its parameter (text, integers, enumerations,
  booleans) out of the table of all commands; the handler is running until `CmReturn` and may submit another
  line (`CmReenter`). Matching and conversion are compared with definitions that
  say what a name and a numeral mean.
* `Journal`: a record area is erased, partly written, unreadable or rejected
  (`Torn`), or valid; a snapshot is its sequence number and installation counter.
  The device completes, fails, corrupts silently, or is cut off by `Restart`.
  `AtomicSnapshot` is what it promises: a register that a commit replaces completely
  or not at all, checked as a refinement.
* `Installation`: engine, writer, boot selection and confirmation gate over one
  flash device. Engine and `boot::Control` own separate journal objects;
  `FlashShared` checks that they never commit together, which justifies the single
  object of `Journal`.
* `Package`: `pkStream` is what `build_package` makes of two linked images; `PkTick`
  gives the reader any fragment, the owner programs a block, an element may be
  damaged.
* `UpdateSources`: `pr` is `Protocol`, `srv` the server with its client's fragments,
  `fu` `FileUpdate`; a call of the file source is a call and a return, between which
  everything else may run.
* `FlashDriver`: Flash objects share one owner variable. A read is one step per
  word, so an operation of other code, a latched ECC address and the H563's
  interrupt fall between words.
* `Health`: heartbeat, check and a working task that may hang share the processor;
  `hlDog` counts down to the reset, `hlRecord` survives it.
* `BusController`: a submission is three steps (try-lock, decide and release, pend),
  so that interrupts and other callers meet it in each window. Each tick of the
  bounded loop is one action per branch of `Machine::Step`; the callback is a step
  outside the lock. Selecting a due alarm (`Fire`) is separate from the interrupt it
  causes. The two reads of the clock in one tick return the same time.
* `Timing`: a state is one call and what it returned; the code's word arithmetic is
  compared with the same calculation on integers.
* `SpiDriver`, `I2cDriver`: `begin`, `start`, `poll` and `finish` as the controller calls
  them, with FIFOs, DMA channels, flags and wire as external actions. The byte at
  position i is i, so a lost, repeated or misplaced byte shows.
* `EthDriver`: a byte is its frame and place; the HAL's ring and the callbacks the
  file gives it are modelled, the DMA fills and sends at any time.
* `BusClients`: each client's state machine tick is an action, a transaction
  completes in between. A framebuffer is one of a few images.
* `Startup`: one thread calls the registry's and the application's `init` and `run` in
  any order; a step is one controller or one stage of one module, which may fail.
* `OtpStore`: a block is a row of cells programmed in order; an interrupted cell is
  untouched, complete or torn. Three drivers are variants.
* `Console`: a character is the number of its line. The terminal (`cnScreen`) is what
  the transmitted frames leave on it.
* `TcpServer`: link, address and session states; lwIP is external and calls back only
  inside `poll()`.
* `FileService`: a volume operation is a call and a return. The command worker, the
  transfer and the reader are its users; FatFs calls succeed or fail.
* `SdSession`: the tick, the application's requests and a block consumer whose access
  pumps the scheduler, so that all other actions run inside it.

The `MC` modules give constants their values. `MCServices`, `MCTransports`, `MCDevices`
and `MCBusController` hold several components; a constant variable (`service`,
`device`, `layer`) names the one that runs while the others rest in an initial
state.

## Runs

Every bound is a constant of the configuration or of the `MC` module.

| Run | Instance | Shows |
|---|---|---|
| `scheduler_tasks` | 2 tasks (one periodic), 2 schedule/cancel calls each, nesting 2, clock to 2 | `NoReentry`, `ProgressAccounting` |
| `scheduler_timers` | 1 task, 2 callbacks in 2 slots, a delay that saturates | `TimersCovered`, `NoLostWakeup` |
| `scheduler_events` | 2 modules, 3 posts into 2 places, a logger, failing initialization | `EventsConserved`, `Quiescent` |
| `scheduler_live` | 1 task, 1 timer, 1 event | `StopTerminates`, `WorkServed` |
| `journal` | 2 records per sector, 2 units per record; 6 sequence numbers without and 3 with an executing bank | `LoadsCommitted`, `FlashUsedSafely`, `CommitsAtomically` (refinement of `AtomicSnapshot`) |
| `installation` | one upload of 2 blocks in 2 sectors from packages of 1 to 3 blocks; and uploads of 1 block up to the third installation | `FallbackSurvives`, `EligibleIsComplete`, `AbortInvalidates`, `TrialOnce`, `FlashShared` |
| `bus` | controller: 2 callers, 4 action lists, polled reset, budget 2, timeouts 1 and 2; clients: 2 buses, 2 addresses, 2 pages; start-up: 3 controllers in 5 tables, 2 modules | `AnsweredTruly`, `Contained`, `NeverStalls`, `ClientsOrderly` |
| `services` | files: 4 loads of clients, commands, reader and stop; card: 3 idle answers, 2 sectors; update: 2 clients, 3 commands, 2 chunks; health: 2 boots of 14 ticks on both boards | `FsOneUser`, `FtNoDebris`, `FtPublishes`, `SdCardKept`, `UpSeparate`, `HlJudges`, `ServicesEnd` |
| `transports` | controller with 1 caller; SPI with each DMA and none; I2C with a device that holds SDA; Ethernet with 4 receive buffers and 2 frames; TCP with 2 connections | `DriversExact`, `EtFrames`, `TcSessions`, `TransfersEnd` |
| `devices` | OTP: 3 blocks, 3 drivers; clock: period 8 over almost 3 rollovers; console: 3 keys, 2 log lines, 1 fault; commands: 5 handlers, texts and words up to 2, numerals up to 4 characters; packages of up to 2 blocks; words of 10 bits; rings of 2; 2 flash banks of a word, 2 owners | `OtKept`, `TmKeepsTime`, `CnTerminal`, `CmDispatches`, `PkImage`, `TgExact`, `QuOrdered`, `FdExclusive`, `FdHonest` |
| `confirm_during_upload` | of `Installation`, one block | a violation, see Findings |
| `abort_consumes_number` | of `Installation`, one block | a violation, see Findings |

A property that names several facts is their conjunction, each with its own
comment in its module (for example `HlJudges`: types, no false alarm, a true record,
fed only when healthy), and has a mutant for the parts that a different mistake
would break.

The bounds let the interesting cases happen: a full queue, a swap removal with
another event behind, a task rescheduled while nested, each sector reclaimed in
turn, a checkpoint followed by an erase, a third installation over the first slot,
a transfer list longer than the budget of an interrupt, a second operation started
before the alarm of the first was handled, an action of several chunks on either
engine, a frame of more than one buffer, a ring that wraps, a second client on the
heels of the first, a second boot after a recorded failure, an OTP block torn at each
cell with one left to write. Callbacks are symmetric because the scheduler only
compares them, callers of the bus because each is compared only with itself.

Deadlock is checked in `journal` and `installation`, whose systems can always be
reset. In the scheduler runs `run()` returns and the bounded clock ends; in `bus` the
clients may fail to initialize and stop; in the group runs the bounded inputs of a
component are used up, a pure call ends with its result, and a stopped service rests.
There, `NeverStalls`, `ServicesEnd` and `TransfersEnd` say what must not get stuck.

### Fairness

* `Scheduler`: the thread that owns `run()` keeps running and callbacks return, an
  expired platform timer interrupts and its handler finishes, and time passes. The
  first is what a cooperative scheduler assumes of its tasks, the others what the
  platform interface promises. Nothing is assumed of callers, of `yield()` or of
  waking by deadline.
* `BusController`: a pended interrupt is strongly fair: a caller's lock masks it and
  it stays pending, so it runs once the lock is free. Interrupts and submissions
  that have begun continue, due alarms are selected and time passes; the peripheral
  owes nothing.
* `SpiDriver`, `I2cDriver`: the peripheral and its DMA go on and an enabled interrupt
  is taken. The controller's deadline is not used, so a transfer must end by its own
  interrupts.
* `TcpServer`: the consumer's task is periodic and TCP retransmits.
* `FileService`, `SdSession`, `UpdateSources`: tasks run when due, media calls return
  because every bus transfer has a deadline, and engine phases end because each
  flash step has one. Clients owe nothing.
* `Health`: time passes and the early-warning interrupt is taken.

`service` never changes, so weak fairness of a disjunction with one disjunct for each
service is weak fairness of the disjunct that runs; the `MC` modules use this to
state the fairness of several modules in a few conjuncts. The steps of one task (of the
file worker, of the transfer, of the file source) exclude each other and stay enabled, so
fairness of the task is fairness of each. In the same way
`ServicesEnd` and `TransfersEnd` say of whichever component runs that what it has
begun ends.

## Findings

* `docs/spec/services.md` says confirmation "is idempotent without another write
  when already confirmed". `confirm_image()` loads the journal first, and that
  returns `busy` while an upload has a flash operation in progress. The
  confirmation gate tries once and the health module resets on any error, so an
  upload in the first seconds can reset a healthy, confirmed image
  (`confirm_during_upload`).
* The same document says "aborted uploads do not consume a number". An abort
  while the final record is being programmed lets it land with the advanced
  counter and then invalidates the image, keeping the counter
  (`abort_consumes_number`).

Exceptions that the properties state where they occur, and for which no document
says otherwise: a second time-out notice of the file transfer is unsolicited and may
outlive its session (`FtOneSession`); setting an OTP serial number to the value it
already has writes no record and only locks the one there is (`store.cpp:102`); a malformed frame header
aborts the engine even when a file installation holds it (`protocol.cpp:132`); the
cancellation of a file installation may lose to a commit (`file.cpp:95`). `now()` is
true only if a rollover is served within half a period, which `TmLatency` states.

## Proofs

Every theorem holds for all values of the constants that satisfy the named
assumptions of its module. Each follows from an inductive invariant, which is
larger than the properties because they speak of results and it must also speak of
what is under way. A leaf that names `Zenon` is one that prover finds at once.

**Scheduler** (`SchedulerProofs`; every number of tasks, modules, slots and
callbacks, every capacity):

* `TypeCorrect`: `TypeOK` is invariant. It is inductive by itself; its four parts
  (control, tasks, queues, timers) are one lemma each.
* `TimersAlwaysCovered`, `WakeupsNeverLost`, `StopQuiescent`: `TimersCovered`,
  `NoLostWakeup` and `Quiescent` are invariant.
* `TasksNeverReentered`, `ProgressAlwaysExact`, `EventsNeverLost`: `NoReentry`,
  `ProgressAccounting` and `EventsConserved` are invariant.

The second group follows from `IInv`, the conjunction of `TypeOK`, `Phase` (which
control points belong to which lifecycle state), `TimersWhileRunning` (timers and
handlers exist only while running), `WorkDiscarded` (nothing is left after a stop or
failure, and the task stack is empty outside a task), `DueTimes` (events are never
due in the future, a running task is never due at `Forever`), `IdlePass` (what the
loop has established on its way to `idle()` unless it was notified) and
`TimersCovered`. `NoLostWakeup` is not inductive because it says nothing until the
loop sleeps: `IdlePass` carries the facts from the sample of the notification
sequence to the sleep.

The third group adds two invariants to `IInv`. `TaskInv` is `NoReentry` and
`ProgressAccounting` with two facts they need: a frame on the stack is never of a
later request than its task's current one (`FramesNotNewer`), so that a callback
that reschedules its own task starts an empty account; and nothing completes before
`run()` (`NothingCompleted`), so that all accounts start empty. `SelectTask` does not
look at `executing`; it needs no such test because the stack is empty whenever the
loop selects (`WorkDiscarded`). `EventInv` states the three places an event can be
in without sets, and adds that no event carries a number not yet given out and that
the event in delivery is in no other place; `RemoveEvent`, which fills the hole with
the last event, is where it is needed.

**Flash drivers** (`PlatformProofs`; every set of Flash objects, every flash
size, both chips): `FdExclusiveHolds` and `FdHonestHolds`, that `FdExclusive` and
`FdHonest` are invariant. Both follow from `FdInvariant`. `FdHonest` speaks only of
the reply of the last call, so the invariant adds what must be true while a call is
under way: `FdCoherent` (the cache differs from the flash only in words of an
operation whose end its owner has not polled), `FdEffective` (an operation that is
over without an error has taken effect), `FdGuarded` (during a read nobody owns the
controller, every word copied so far is the flash's, and a failing one is latched or
noted) and `FdAtRest` (a reply is about a controller at rest).

**Bus controller** (`BusControllerProofs`; every set of callers, every set of
action lists, timeouts, poll and loop limits, both kinds of backend):
`OperationsAnsweredTruly`, `FaultsContained` and `OperationsNeverStall`, that
`AnsweredTruly`, `Contained` and `NeverStalls` are invariant. The invariant adds
`LockKept` (submissions and the ticking interrupt exclude each other),
`MachinePhase` and `Position` (where an operation can be in the machine and in its
list), `Waiting` (what will call `interrupt()`, in the middle of a tick too),
`StatusHonest` (what a status is worth before it is reported) and `Outbox` and
`Placement` (a result is in one place on its way out). `CompletesOnce` says only
where an operation is; that it moves and is never copied needs `Placement`.

**Boot journal** (`JournalProofs`; every number of records per sector, of program operations per record, and every bound on sequence numbers):

* `CommittedAlwaysLoads`, `FlashAlwaysUsedSafely`: `LoadsCommitted` and
  `FlashUsedSafely` are invariant.
* `JournalIsAtomic`: `Spec => CommitsAtomically`, the refinement of
  `AtomicSnapshot`. Initial states map to initial states, and every step, a power
  loss in the middle of a flash operation included, to a step of the register or a
  stutter.

The first lemmas are about a flash image alone: which record `load()` finds, and
what erasing a sector, tearing a record or completing one does to that. `load()` takes
the first newest record it meets, so they need that a set of numbers has a least
element: `WellOrdered` is their hypothesis, and `LeastNatural` proves it from the library's well-foundedness of the naturals. The
invariant adds to the types `Control` and `Borrowed` (the machine's state fits the
operation in progress, or one that timed out and still borrows the buffers),
`Sectors` (a sector to be erased is backed by a newest record in the other one, the
area to be written is erased), `Records` (what is written is a copy of the newest
snapshot or its successor, and a checkpoint postpones the successor), `Executing`
and `Preparing`.

**Installation** (`InstallationProofs`; every set of packages, every image and sector size, every bound on the installation counter):
`AlwaysBoots`, `OffersCompleteImages`, `TrialsNeverRepeat`,
`AbortedUploadsWithdrawn` and `FlashAlwaysShared`, that `FallbackSurvives`,
`EligibleIsComplete`, `TrialOnce`, `AbortInvalidates` and `FlashShared` are
invariant. A commit may become durable at any moment, also after its owner gave it
up or in a reset, so what the properties say of the durable snapshot must hold of
every snapshot in flight as well. The invariant therefore has:

* `Recorded`: the durable snapshot and each one in flight are `Sound` (a confirmed
  image, complete images, installation numbers that tell installations apart), and
  an ended trial is a trial only in a boot loader that is about to reject it;
* `Committing`: one commit in flight at a time, and a commit that is reported ok is
  the durable one;
* `Booting` and `Running`: what the boot loader has chosen, and what the running
  image and a confirmation in flight may be;
* `Uploading`: the upload's stage, the commit it waits for, what verification has
  compared so far, and that the destination is incomplete while it is written;
* `Writing`: the writer erases ahead of what it programs (`ClearFrom`), also across
  sectors, which needs a lemma on sector arithmetic (`SameSector`).

**File service** (`FileServiceProofs`; every set of file names, every file size and
every load): `FileServiceOneUser`, `FileServiceNoDebris` and `FileServicePublishes`,
that `FsOneUser` and `FtNoDebris` are invariant and every step satisfies
`FtPublishes`. The properties speak of a request that is over; the invariant must say
what is true while one is under way, at each point where another user's turn may
come: `FsHeld` (who holds the reservation, who may be inside the volume, whose handle
can be open), `FtFragments` (the bytes gathered so far are of one session),
`FtPhase` (which stage, operation and reply fit together) and `FtFile` (what the
upload has left on the volume: nothing, a file it still has to close or remove, or
the whole file). `FtPublishes` follows because only a finish whose sync and close
succeeded leaves `FtFile` with a whole file and a good status.

**SD card session** (`ServiceProofs`; every limit on start-up polls, repeats,
partitions and sectors): `SdCardAlwaysKept`, that `SdCardKept` is invariant. The
invariant adds `SdWireHeld` (a transfer on the wire belongs to the one owner that
waits for it), `SdTurns` (a probe, a reset and a lease exclude each other, requested
or running), `SdOpOK` (how far a block access is) and `SdCardOK` (a ready card is
usable but for the time between a failed transfer and its notice). A block access
pumps the scheduler while it waits, so every other action may come in the middle of
one; `SdTurns` is why none of them touches the card.

**Queues** (`ServiceProofs`; every capacity, message size, set of formatted lengths
and list of subscribers): `QueuesOrdered`, that `QuOrdered` is invariant. The lemmas
on the ring come first (`QuCountedAdds`, `QuAdvancedTakes`: what a push and a pop do
to the contents, across a wrap). The logger's part is inductive with its types. That
of `ThreadSafeQueue` speaks only of moments when nobody is inside a call;
`TqInvariant` states it inside calls too, with `TqInside`: the context inside is the
one that holds the mutex, and what it copied is still in the slot it copied to or
from, though the other context may try the lock meanwhile.

**OTP store** (`OtpStoreProofs`; every number of rows, cells and locks, every set of
serial numbers, all three drivers): `OtpStoreKeeps`, that `OtSpec` implies `OtKept`:
`OtDurable` is invariant, and no step breaks `OtWriteOnce` or `OtForward`. RAM is
lost in a reset and the scan has only the cells, so the invariant says what the cells
can be: `OtBurns` (what each driver can leave in a cell), `OtStage` (a row being
programmed is the next one and blank from the cell reached) and `OtRemembers` (the
row verified last is whole, before the next row, and what a ready store serves). The
scan takes the last valid row, so the proof needs that a bounded set of numbers has a
greatest element (`OtGreatest`, from the library's well-foundedness).

**Embedded clock** (`PlatformProofs`; every period of at least two, every set of
delays, every latency and duration of a call that together are less than a period):
`Tim2KeepsTime`, that `TmSpec` implies `TmKeepsTime`. `TmEpochs` says that all
rollovers but a flagged one are counted; `TmCalling` what the words `now()` has read
are worth at each of its steps, a rollover between any two of them included;
`TmDeadlines` that outside `ProgramCompare()` and the interrupt an armed deadline is
watched for (`TmWatched`), and inside it that the compare register holds the target
and that a match not flagged is ahead or was already past when the clock was read
again (`TmProgrammed`), which is what the last reading of `ProgramCompare()` is for.

Only model-checked, and why:

* `StopTerminates`, `WorkServed`, `ServicesEnd`, `TransfersEnd`: liveness under
  fairness is outside the prover.
* `CmDispatches`, `PkImage`: their operators are recursive over data (tokens, package
  bytes), and what a recursive definition computes cannot be proved here.
* `CnTerminal`, `TgExact`, `UpSeparate`, `HlJudges`, `TcSessions`, `DriversExact`,
  `EtFrames`, `ClientsOrderly`: safety of drivers and services whose data the runs
  enumerate (keystrokes, tick rates, frames, sessions). Nothing but the work is in
  the way of most of them; the terminal's screen is a fold over what was typed.

## Not modelled

* Formatting and wording: log texts, help, status lines, fonts, enum names.
* Byte layouts where a property only asks whether they decode: journal records,
  package header digests, SD responses, FAT structures.
* `FatFs`, `lwIP` and the vendor's HAL are external: what the code relies on is
  modelled, not how they do it.
* Transient read errors of flash: an unreadable journal record stays unreadable.
* Vendor-generated start-up code, interrupt tables, HAL configuration headers,
  pin and clock set-up and linker layout: straight-line register writes that happen
  once and have no state of their own. They are most of the remaining lines.
* Test doubles (`platform/fake`, `platform/host/flash.cpp`), compile-time composition
  (module tables, device aliases), examples and the host scripts other than the
  package builder.
* Statistics and counters that nothing reads back.
* The H563 boot loader's own `main.cpp`, which repeats the H755's without its
  watchdog and without `prepare_runtime` (the unconstrained case of `Journal`).
