------------------------- MODULE InstallationProofs --------------------------
(***************************************************************************)
(* For every set of packages, every image and sector size and every bound  *)
(* on the installation counter: the device can always boot an image that   *)
(* was confirmed, no image is offered whose contents are not complete, a   *)
(* trial is never repeated, an aborted upload leaves no candidate, and     *)
(* the users of the flash device keep out of each other's way. The         *)
(* inductive invariant and what it needs of the model's operators come     *)
(* first, then the steps of the boot loader, of the requests, of an        *)
(* upload, of the flash device and of a reset.                             *)
(***************************************************************************)
EXTENDS Installation, TLAPS

(***************************************************************************)
(* Types.                                                                  *)
(***************************************************************************)
ImageStates == {"empty", "incomplete", "pending", "trial", "confirmed", "rejected"}
Bootable    == {"pending", "trial", "confirmed"}

Image    == [installation : Nat, package : Packages, state : ImageStates]
Snapshot == [counter : Nat, images : [Slots -> Image]]
Data     == Packages \cup {Erased}

Commits      == [status : {"ok", "busy", "failed"}, next : Snapshot, landed : BOOLEAN]
Operations   == [kind : {"none", "engine", "control", "erase", "program"},
                 slot : Slots, block : Nat, value : Data]
WriterStates == [state : {"idle", "prepare", "erase_wait", "program_wait", "done",
                          "failed"},
                 status : {"ok", "busy", "failed", "rejected"},
                 requested : BOOLEAN, cancelled : BOOLEAN, offset : Nat,
                 written : BOOLEAN, erased_until : Nat, data : Data,
                 result : {"ok", "error"}]
Stages       == {"disabled", "idle", "invalidating", "receiving", "writing",
                 "verifying", "committing", "aborting", "done", "failed"}
EngineStates == [state : Stages,
                 enabled : BOOLEAN, requested : BOOLEAN, abort_requested : BOOLEAN,
                 status : {"not_running", "ok", "busy", "failed", "aborted"},
                 snapshot : Snapshot, package : Packages, total : Nat,
                 received : Nat, rx : Data, reader : {"header", "ready", "released"},
                 offset : Nat, verify_offset : Nat, verify_crc : BOOLEAN]

DeviceOK == /\ case \in Cases /\ Blocks \in Nat \ {0}
            /\ current \in Snapshot
            /\ slots \in [Slots -> [0..(Blocks - 1) -> Data \cup {Bad}]]
            /\ op \in Operations /\ (op.kind = "none" => op = NoOp)
            /\ journal \in [Owners -> Commits]
SystemOK == /\ running \in 0..2
            /\ boot \in {"load", "rejecting", "choose", "slot0", "slot1", "halt", "done"}
            /\ confirming \in {"none", "gate", "command"}
UploadOK == engine \in EngineStates /\ writer \in WriterStates
TypeOK   == DeviceOK /\ SystemOK /\ UploadOK /\ burnt \in SUBSET Nat

(***************************************************************************)
(* The inductive invariant.                                                *)
(***************************************************************************)
\* A commit that is under way, or was given up while its flash operation goes on.
InFlight(o) == journal[o].status = "busy" \/ op.kind = o

\* The contents of slot s of a flash are those a snapshot declares.
Holds(snapshot, flash, s) ==
    /\ snapshot.images[s].installation # 0
    /\ \A b \in DOMAIN flash[s] : flash[s][b] = snapshot.images[s].package

\* A snapshot the device can live with: something to fall back on, complete
\* images, and installation numbers that tell the installations apart.
Sound(snapshot, flash, ended) ==
    /\ \E s \in Slots : snapshot.images[s].state = "confirmed"
    /\ \A s \in Slots : snapshot.images[s].state \in Bootable => Holds(snapshot, flash, s)
    /\ \A s \in Slots : /\ snapshot.images[s].installation <= snapshot.counter
                        /\ snapshot.images[s].installation # 0 =>
                             snapshot.images[1 - s].installation
                               # snapshot.images[s].installation
    /\ \A n \in ended : 0 < n /\ n <= snapshot.counter

\* No trial that a reset ended can be booted from a snapshot.
Unburnt(snapshot, ended) ==
    \A s \in Slots : snapshot.images[s].installation \in ended =>
                       snapshot.images[s].state \in {"rejected", "incomplete"}

\* Where a trial that a reset ended may still be recorded as a trial.
Ending == running = 2 /\ boot \in {"load", "rejecting", "halt"}

Recorded ==
    /\ Sound(current, slots, burnt)
    /\ \A o \in Owners : InFlight(o) =>
         Sound(journal[o].next, slots, burnt) /\ Unburnt(journal[o].next, burnt)
    /\ \A s \in Slots : current.images[s].installation \in burnt =>
         \/ current.images[s].state \in {"rejected", "incomplete"}
         \/ current.images[s].state = "trial" /\ Ending

\* The end of a commit.
Committing ==
    /\ \A o \in Owners : journal[o].status = "busy" /\ journal[o].landed =>
                           op = NoOp /\ current = journal[o].next
    /\ \A o \in Owners : journal[o].status = "ok" => op.kind # o
    /\ ~(InFlight("engine") /\ InFlight("control"))
    /\ op.kind \in {"erase", "program"} =>
         \A o \in Owners : journal[o].status # "busy"

\* In the boot loader.
Chosen(s) == boot = (IF s = 0 THEN "slot0" ELSE "slot1")
Booting ==
    running = 2 =>
        /\ engine.state = "disabled" /\ ~engine.requested
        /\ engine.status = "not_running" /\ writer.status # "busy"
        /\ op.kind \in {"none", "control"} /\ confirming = "none"
        /\ boot \in {"load", "choose"} => journal["control"].status = "ok"
        /\ boot \in {"rejecting", "choose"} /\ journal["control"].status = "ok" =>
             Unburnt(current, burnt)
        /\ \A s \in Slots : Chosen(s) =>
             /\ journal["control"].status = "ok" =>
                  current.images[s].state \in {"trial", "confirmed"}
             /\ InFlight("control") =>
                  journal["control"].next.images[s].state \in {"trial", "confirmed"}

\* In an application.
Running ==
    running # 2 =>
        /\ boot = "done" /\ current.images[running].state \in {"trial", "confirmed"}
        /\ journal["control"].status = "busy" => confirming # "none"
        /\ InFlight("control") =>
             /\ journal["control"].next.images[running].state = "confirmed"
             /\ journal["control"].next.images[Destination].state =
                  current.images[Destination].state

\* An upload, from its request to its end.
Uploading ==
    /\ Active => engine.status = "busy"
    /\ Active \/ InFlight("engine") =>
         /\ running # 2 /\ ~InFlight("control")
         /\ current.images[running].state = "confirmed"
    /\ InFlight("engine") => journal["engine"].next.images[running].state = "confirmed"
    /\ journal["engine"].status = "busy" =>
         engine.state \in {"invalidating", "committing", "aborting"}
    /\ engine.requested =>
         /\ engine.state \in {"disabled", "idle", "done", "failed"}
         /\ engine.snapshot = current /\ op = NoOp
    /\ engine.requested \/ engine.state \in {"invalidating", "receiving", "writing"} =>
         engine.verify_offset = 0
    /\ engine.state = "invalidating" =>
         /\ journal["engine"].status = "busy"
         /\ journal["engine"].next.images[Destination].state = "incomplete"
    /\ engine.state \in {"receiving", "writing", "verifying"} =>
         op.kind \notin Owners /\ current.images[Destination].state = "incomplete"
    /\ engine.state = "verifying" =>
         /\ engine.verify_offset < Blocks
         /\ engine.verify_crc => \A b \in 0..(engine.verify_offset - 1) :
              slots[Destination][b] = engine.package
    /\ engine.status = "aborted" =>
         /\ running # 2 /\ op.kind # "engine"
         /\ current.images[Destination].state # "pending"

\* The blocks of a slot from n up to the end of what was erased are erased.
Clear(flash, n, end) ==
    \A b \in DOMAIN flash : n <= b /\ b < end => flash[b] = Erased
ClearFrom(n) == Clear(slots[Destination], n, writer.erased_until)

\* The writer erases ahead of what it programs.
AtRest == IF writer.status = "busy" THEN engine.state \in {"writing", "aborting"}
                                     ELSE writer.state \in {"idle", "done", "failed"}
Writing ==
    /\ AtRest
    /\ op.kind \in {"erase", "program"} =>
         /\ engine.state \in {"writing", "aborting"} /\ op.slot = Destination
         /\ running # 2 /\ current.images[Destination].state = "incomplete"
    /\ op.kind = "program" => slots[op.slot][op.block] = Erased
    /\ engine.state = "receiving" =>
         /\ engine.offset < Blocks /\ engine.reader \in {"header", "released"}
         /\ engine.reader = "header" => engine.offset = 0 \/ ClearFrom(engine.offset)
         /\ engine.reader = "released" => ClearFrom(engine.offset + 1)
    /\ engine.state = "writing" =>
         /\ engine.offset < Blocks /\ writer.offset = engine.offset
         /\ writer.status = "busy"
         /\ op.kind = "erase" => writer.state = "erase_wait" /\ op.block = writer.offset
         /\ op.kind = "program" => writer.state = "program_wait"
                                   /\ op.block = writer.offset
         /\ writer.state \in {"idle", "done", "failed"} =>
              ~writer.written /\ ClearFrom(writer.offset)
         /\ writer.state = "prepare" /\ ~writer.written => ClearFrom(writer.offset)
         /\ writer.state = "prepare" /\ writer.written => ClearFrom(writer.offset + 1)
         /\ writer.state = "program_wait" => ClearFrom(writer.offset + 1)
         /\ writer.state = "erase_wait" =>
              /\ writer.erased_until = SectorEnd(writer.offset)
              /\ op = NoOp /\ writer.result = "ok" => ClearFrom(writer.offset)

IInv == TypeOK /\ Recorded /\ Committing /\ Booting /\ Running /\ Uploading /\ Writing

(***************************************************************************)
(* Lemmas about commits, snapshots and the flash.                          *)
(***************************************************************************)
LEMMA SlotFacts ==
  /\ Slots = {0, 1}
  /\ \A s \in Slots : 1 - s \in Slots /\ 1 - s # s /\ 1 - (1 - s) = s
  /\ "engine" \in Owners /\ "control" \in Owners /\ "engine" # "control"
BY DEF Slots, Owners

LEMMA NothingTyped ==
  /\ NoSnapshot \in Snapshot /\ FreshJournal \in Commits
  /\ NoOp \in Operations /\ NoOp.kind = "none"
<1>1. NoImage \in Image
  BY PackageAssumption, Zenon DEF NoImage, Image, ImageStates
<1>2. NoSnapshot \in Snapshot
  BY <1>1, Zenon DEF NoSnapshot, Snapshot
<1>3. FreshJournal \in Commits
  BY <1>2, Zenon DEF FreshJournal, Commits
<1>4. NoOp \in Operations /\ NoOp.kind = "none"
  BY Zenon DEF NoOp, Operations, Slots, Data, Erased
<1> QED
  BY <1>2, <1>3, <1>4, Zenon

LEMMA FreshTyped ==
  FreshEngine \in EngineStates /\ FreshWriter \in WriterStates
<1>1. FreshEngine \in EngineStates
  BY NothingTyped, PackageAssumption, Zenon DEF FreshEngine, EngineStates, Stages, Data
<1>2. FreshWriter \in WriterStates
  BY Zenon DEF FreshWriter, WriterStates, Data
<1> QED
  BY <1>1, <1>2, Zenon

\* A commit that is started is under way, and changes nothing of the other one.
LEMMA StartedIs ==
  ASSUME journal \in [Owners -> Commits], NEW o \in Owners, NEW next \in Snapshot,
         journal' = Started(o, next)
  PROVE  /\ journal' \in [Owners -> Commits]
         /\ journal'[o].status = "busy" /\ journal'[o].next = next
         /\ ~journal'[o].landed
         /\ \A p \in Owners : p # o => journal'[p] = journal[p]
<1> DEFINE started0 == [status |-> "busy", next |-> next, landed |-> FALSE]
<1>1. started0 \in Commits
  BY Zenon DEF Commits
<1>2. journal' = [journal EXCEPT ![o] = started0]
  BY Zenon DEF Started
<1>3. started0.status = "busy" /\ started0.next = next /\ ~started0.landed
  BY Zenon
<1> HIDE DEF started0
<1>4. journal' \in [Owners -> Commits] /\ journal'[o] = started0
      /\ \A p \in Owners : p # o => journal'[p] = journal[p]
  BY <1>1, <1>2, Zenon
<1> QED
  BY <1>3, <1>4, Zenon

\* One tick of a Journal object.
LEMMA TickIs ==
  ASSUME journal \in [Owners -> Commits], op \in Operations, NEW o \in Owners,
         op.kind = "none" => op = NoOp, JournalTick(o)
  PROVE  /\ journal[o].status = "busy"
         /\ journal' \in [Owners -> Commits]
         /\ op' \in Operations /\ (op'.kind = "none" => op' = NoOp)
         /\ journal'[o].next = journal[o].next /\ journal'[o].landed = journal[o].landed
         /\ \A p \in Owners : p # o => journal'[p] = journal[p]
         /\ \/ op' = op
            \/ op = NoOp /\ op'.kind = o /\ ~journal[o].landed /\ journal' = journal
         /\ \/ journal'[o].status = "busy"
            \/ journal'[o].status = "failed" /\ op' = op
            \/ journal'[o].status = "ok" /\ op' = NoOp /\ op = NoOp /\ journal[o].landed
<1>1. journal[o].status = "busy" /\ journal[o] \in Commits
  BY Zenon DEF JournalTick
<1>2. CASE DeviceIdle /\ ~journal[o].landed /\ op' = [NoOp EXCEPT !.kind = o]
           /\ UNCHANGED journal
  <2>1. op' \in Operations /\ op'.kind = o /\ o \in {"engine", "control"}
    BY <1>2, NothingTyped, Zenon DEF Operations, Owners
  <2> QED
    BY <1>1, <1>2, <2>1, Zenon DEF DeviceIdle
<1>3. ASSUME NEW status \in {"ok", "failed"}, UNCHANGED op,
             journal' = [journal EXCEPT ![o].status = status]
      PROVE  /\ journal' \in [Owners -> Commits] /\ journal'[o].status = status
             /\ journal'[o].next = journal[o].next
             /\ journal'[o].landed = journal[o].landed
             /\ \A p \in Owners : p # o => journal'[p] = journal[p]
  <2> DEFINE c == [journal[o] EXCEPT !.status = status]
  <2>1. c \in Commits /\ c.status = status /\ c.next = journal[o].next
        /\ c.landed = journal[o].landed
    BY <1>1, Zenon DEF Commits
  <2>2. journal' = [journal EXCEPT ![o] = c]
    BY <1>3, Zenon
  <2> HIDE DEF c
  <2> QED
    BY <2>1, <2>2, Zenon
<1>4. CASE DeviceIdle /\ journal[o].landed
           /\ journal' = [journal EXCEPT ![o].status = "ok"] /\ UNCHANGED op
  BY <1>1, <1>3, <1>4, Zenon DEF DeviceIdle
<1>5. CASE journal' = [journal EXCEPT ![o].status = "failed"] /\ UNCHANGED op
  BY <1>1, <1>3, <1>5, Zenon
<1>6. CASE UNCHANGED <<op, journal>>
  BY <1>1, <1>6, Zenon
<1> QED
  BY <1>2, <1>4, <1>5, <1>6, Zenon DEF JournalTick

LEMMA ImagesTyped ==
  ASSUME NEW x \in Snapshot, NEW s \in Slots
  PROVE  /\ x.counter \in Nat /\ x.images[s] \in Image
         /\ x.images[s].installation \in Nat /\ x.images[s].package \in Packages
         /\ x.images[s].state \in ImageStates
<1>1. x.counter \in Nat /\ x.images[s] \in Image
  BY Zenon DEF Snapshot
<1> QED
  BY <1>1, Zenon DEF Image, ImageStates

\* A change of one image's state.
LEMMA WithStateIs ==
  ASSUME NEW x \in Snapshot, NEW s \in Slots, NEW state \in ImageStates,
         NEW y, y = WithState(x, s, state)
  PROVE  /\ y \in Snapshot /\ y.counter = x.counter
         /\ y.images[s].state = state
         /\ y.images[s].installation = x.images[s].installation
         /\ y.images[s].package = x.images[s].package
         /\ y.images[1 - s] = x.images[1 - s]
<1> DEFINE image  == [x.images[s] EXCEPT !.state = state]
           images == [x.images EXCEPT ![s] = image]
<1>1. x.images[s] \in Image /\ x.images \in [Slots -> Image]
  BY Zenon DEF Snapshot
<1>2. /\ image \in Image /\ image.state = state
      /\ image.installation = x.images[s].installation
      /\ image.package = x.images[s].package
  BY <1>1, Zenon DEF Image, ImageStates
<1> HIDE DEF image
<1>3. images \in [Slots -> Image] /\ images[s] = image /\ images[1 - s] = x.images[1 - s]
  BY <1>1, <1>2, SlotFacts, Zenon
<1>4. y = [x EXCEPT !.images = images]
  BY <1>1, Zenon DEF WithState, image
<1> HIDE DEF images
<1>5. y \in Snapshot /\ y.counter = x.counter /\ y.images = images
  BY <1>3, <1>4, Zenon DEF Snapshot
<1> QED
  BY <1>2, <1>3, <1>5, Zenon

LEMMA OtherSlot ==
  ASSUME NEW s \in Slots, NEW t \in Slots
  PROVE  t = s \/ t = 1 - s
BY DEF Slots

\* It keeps a snapshot sound when no image becomes bootable by it and one that
\* is confirmed remains.
LEMMA SoundWithState ==
  ASSUME NEW x \in Snapshot, NEW s \in Slots, NEW state \in ImageStates,
         NEW y, y = WithState(x, s, state), NEW flash, NEW ended,
         Sound(x, flash, ended),
         state \in Bootable => x.images[s].state \in Bootable,
         state = "confirmed" \/ x.images[1 - s].state = "confirmed"
  PROVE  Sound(y, flash, ended)
<1>1. \A t \in Slots : y.images[t].installation = x.images[t].installation
                       /\ y.images[t].package = x.images[t].package
  BY WithStateIs, OtherSlot
<1>2. y.counter = x.counter /\ y.images[s].state = state
      /\ y.images[1 - s].state = x.images[1 - s].state
  BY WithStateIs
<1>3. \E t \in Slots : y.images[t].state = "confirmed"
  BY <1>2, SlotFacts, Zenon
<1>4. ASSUME NEW t \in Slots, y.images[t].state \in Bootable
      PROVE  Holds(y, flash, t)
  <2>1. x.images[t].state \in Bootable
    BY <1>2, <1>4, OtherSlot, Zenon
  <2>2. Holds(x, flash, t)
    BY <2>1, Zenon DEF Sound, Bootable
  <2> QED
    BY <1>1, <2>2, Zenon DEF Holds
<1>5. \A t \in Slots : /\ y.images[t].installation <= y.counter
                       /\ y.images[t].installation # 0 =>
                            y.images[1 - t].installation # y.images[t].installation
  BY <1>1, <1>2, SlotFacts DEF Sound
<1> QED
  BY <1>2, <1>3, <1>4, <1>5, Zenon DEF Sound, Bootable

LEMMA UnburntWithState ==
  ASSUME NEW x \in Snapshot, NEW s \in Slots, NEW state \in ImageStates,
         NEW y, y = WithState(x, s, state), NEW ended, Unburnt(x, ended),
         state = "incomplete" \/ x.images[s].state \notin {"rejected", "incomplete"}
  PROVE  Unburnt(y, ended)
<1>1. \A t \in Slots : y.images[t].installation = x.images[t].installation
  BY WithStateIs, OtherSlot
<1>2. y.images[s].state = state /\ y.images[1 - s].state = x.images[1 - s].state
  BY WithStateIs
<1> QED
  BY <1>1, <1>2, OtherSlot, Zenon DEF Unburnt

\* What flash operations do to a slot that is not bootable does no harm.
LEMMA SoundFlash ==
  ASSUME NEW x, NEW flash, NEW next, NEW ended, Sound(x, flash, ended),
         \A s \in Slots : x.images[s].state \in Bootable => next[s] = flash[s]
  PROVE  Sound(x, next, ended)
<1>1. ASSUME NEW s \in Slots, x.images[s].state \in Bootable
      PROVE  Holds(x, next, s)
  <2>1. Holds(x, flash, s) /\ next[s] = flash[s]
    BY <1>1, Zenon DEF Sound, Bootable
  <2> QED
    BY <2>1, Zenon DEF Holds
<1> QED
  BY <1>1, Zenon DEF Sound, Bootable

\* BootLoad's snapshot.
LEMMA RejectingIs ==
  ASSUME NEW x \in Snapshot, NEW y, NEW flash, NEW ended, Sound(x, flash, ended),
         y = [x EXCEPT !.images = [s \in Slots |-> Rejected(x.images[s])]],
         \A s \in Slots : x.images[s].installation \in ended =>
           x.images[s].state \in {"rejected", "incomplete", "trial"}
  PROVE  y \in Snapshot /\ Sound(y, flash, ended) /\ Unburnt(y, ended)
<1>1. ASSUME NEW s \in Slots
      PROVE  /\ Rejected(x.images[s]) \in Image
             /\ Rejected(x.images[s]).installation = x.images[s].installation
             /\ Rejected(x.images[s]).package = x.images[s].package
             /\ Rejected(x.images[s]).state = IF x.images[s].state = "trial"
                                              THEN "rejected" ELSE x.images[s].state
  BY ImagesTyped, Zenon DEF Rejected, Image, ImageStates
<1> DEFINE images == [s \in Slots |-> Rejected(x.images[s])]
<1>2. images \in [Slots -> Image]
  BY <1>1, Zenon
<1>3. \A s \in Slots : images[s] = Rejected(x.images[s])
  BY Zenon
<1> HIDE DEF images
<1>4. y \in Snapshot /\ y.counter = x.counter /\ y.images = images
  BY <1>2, Zenon DEF Snapshot, images
<1>5. \A s \in Slots : /\ y.images[s].installation = x.images[s].installation
                       /\ y.images[s].package = x.images[s].package
                       /\ y.images[s].state = IF x.images[s].state = "trial"
                                              THEN "rejected" ELSE x.images[s].state
  BY <1>1, <1>3, <1>4, Zenon
<1>6. \E s \in Slots : y.images[s].state = "confirmed"
  BY <1>5, Zenon DEF Sound
<1>7. ASSUME NEW s \in Slots, y.images[s].state \in Bootable
      PROVE  Holds(y, flash, s)
  <2>1. x.images[s].state \in Bootable
    BY <1>5, <1>7, Zenon DEF Bootable
  <2>2. Holds(x, flash, s)
    BY <2>1, Zenon DEF Sound, Bootable
  <2> QED
    BY <1>5, <2>2, Zenon DEF Holds
<1>8. \A s \in Slots : /\ y.images[s].installation <= y.counter
                       /\ y.images[s].installation # 0 =>
                            y.images[1 - s].installation # y.images[s].installation
  BY <1>4, <1>5, SlotFacts DEF Sound
<1>9. Sound(y, flash, ended)
  BY <1>4, <1>6, <1>7, <1>8, Zenon DEF Sound, Bootable
<1>10. Unburnt(y, ended)
  BY <1>5, Zenon DEF Unburnt
<1> QED
  BY <1>4, <1>9, <1>10, Zenon

\* TickVerifying's snapshot.
LEMMA InstalledIs ==
  ASSUME NEW x \in Snapshot, NEW flash, NEW ended \in SUBSET Nat,
         Sound(x, flash, ended), Unburnt(x, ended), NEW d \in Slots, x.images[1 - d].state = "confirmed",
         NEW p \in Packages, \A b \in DOMAIN flash[d] : flash[d][b] = p,
         NEW y,
         y = [counter |-> x.counter + 1, images |-> [x.images EXCEPT ![d] =
                [installation |-> x.counter + 1, package |-> p, state |-> "pending"]]]
  PROVE  /\ y \in Snapshot /\ Sound(y, flash, ended) /\ Unburnt(y, ended)
         /\ y.images[1 - d] = x.images[1 - d]
<1> DEFINE image  == [installation |-> x.counter + 1, package |-> p, state |-> "pending"]
           images == [x.images EXCEPT ![d] = image]
<1>1. x.counter \in Nat /\ x.images \in [Slots -> Image]
  BY Zenon DEF Snapshot
<1>2. image \in Image /\ image.installation = x.counter + 1 /\ image.package = p
      /\ image.state = "pending"
  BY <1>1 DEF Image, ImageStates
<1> HIDE DEF image
<1>3. images \in [Slots -> Image] /\ images[d] = image /\ images[1 - d] = x.images[1 - d]
  BY <1>1, <1>2, SlotFacts, Zenon
<1>4. y = [counter |-> x.counter + 1, images |-> images]
  BY Zenon DEF image, images
<1> HIDE DEF images
<1>5. y \in Snapshot /\ y.counter = x.counter + 1 /\ y.images = images
  BY <1>1, <1>3, <1>4 DEF Snapshot
<1>6. /\ y.images[1 - d] = x.images[1 - d] /\ y.images[d].installation = y.counter
      /\ y.images[d].package = p /\ y.images[d].state = "pending"
      /\ y.images[1 - d].installation \in Nat
      /\ y.images[1 - d].installation < y.counter
  <2>1. x.images[1 - d].installation <= x.counter
        /\ x.images[1 - d].installation \in Nat
    BY SlotFacts, ImagesTyped, Zenon DEF Sound
  <2> QED
    BY <1>1, <1>2, <1>3, <1>5, <2>1
<1>7. \E s \in Slots : y.images[s].state = "confirmed"
  BY <1>6, SlotFacts, Zenon
<1>8. ASSUME NEW s \in Slots, y.images[s].state \in Bootable
      PROVE  Holds(y, flash, s)
  <2>1. CASE s = d
    BY <1>1, <1>5, <1>6, <2>1 DEF Holds
  <2>2. CASE s = 1 - d
    <3>1. Holds(x, flash, s)
      BY <1>6, <1>8, <2>2, Zenon DEF Sound
    <3> QED
      BY <1>6, <2>2, <3>1, Zenon DEF Holds
  <2> QED
    BY <2>1, <2>2, OtherSlot, Zenon
<1>9. \A s \in Slots : /\ y.images[s].installation <= y.counter
                       /\ y.images[s].installation # 0 =>
                            y.images[1 - s].installation # y.images[s].installation
  BY <1>1, <1>5, <1>6, OtherSlot, SlotFacts
<1>10. \A n \in ended : 0 < n /\ n <= x.counter
  BY Zenon DEF Sound
<1>11. \A n \in ended : 0 < n /\ n <= y.counter /\ n # y.counter
  <2> SUFFICES ASSUME NEW n \in ended, 0 < n, n <= x.counter
               PROVE  n <= y.counter /\ n # y.counter
    BY <1>10, Zenon
  <2> QED
    BY <1>1, <1>5
<1>12. Sound(y, flash, ended)
  BY <1>7, <1>8, <1>9, <1>11, Zenon DEF Sound
<1>13. Unburnt(y, ended)
  BY <1>6, <1>11, OtherSlot, Zenon DEF Unburnt
<1> QED
  BY <1>5, <1>6, <1>12, <1>13, Zenon

\* A reset adds the trials it ends to those that must not be repeated.
LEMMA EndedIs ==
  ASSUME NEW x \in Snapshot, NEW flash, NEW ended, Sound(x, flash, ended), NEW more,
         more = ended \cup {x.images[s].installation :
                              s \in {t \in Slots : x.images[t].state = "trial"}},
         \A s \in Slots : x.images[s].installation \in ended =>
           x.images[s].state \in {"rejected", "incomplete", "trial"}
  PROVE  /\ Sound(x, flash, more)
         /\ \A s \in Slots : x.images[s].installation \in more =>
              x.images[s].state \in {"rejected", "incomplete", "trial"}
<1>1. ASSUME NEW n \in more
      PROVE  \/ n \in ended
             \/ \E s \in Slots : x.images[s].state = "trial"
                                 /\ n = x.images[s].installation
  BY Zenon
<1>2. ASSUME NEW s \in Slots, x.images[s].state = "trial"
      PROVE  /\ x.images[s].installation # 0 /\ x.images[s].installation \in Nat
             /\ x.images[s].installation <= x.counter
             /\ x.images[1 - s].installation # x.images[s].installation
  <2>1. Holds(x, flash, s)
    BY <1>2, Zenon DEF Sound, Bootable
  <2>2. x.images[s].installation # 0
    BY <2>1, Zenon DEF Holds
  <2> QED
    BY <2>2, ImagesTyped, Zenon DEF Sound
<1>3. \A n \in more : 0 < n /\ n <= x.counter
  BY <1>1, <1>2 DEF Sound
<1>4. Sound(x, flash, more)
  BY <1>3, Zenon DEF Sound
<1>5. ASSUME NEW s \in Slots, x.images[s].installation \in more
      PROVE  x.images[s].state \in {"rejected", "incomplete", "trial"}
  BY <1>1, <1>2, <1>5, OtherSlot
<1> QED
  BY <1>4, <1>5, Zenon

(***************************************************************************)
(* What a step that only starts or continues a commit keeps.               *)
(***************************************************************************)
LEMMA StartKeeps ==
  ASSUME IInv, NEW o \in Owners, op = NoOp,
         \A p \in Owners : p # o => journal[p].status # "busy",
         NEW next \in Snapshot, Sound(next, slots, burnt), Unburnt(next, burnt),
         journal' = Started(o, next), Ending => Ending',
         UNCHANGED <<case, current, slots, burnt, op>>
  PROVE  /\ DeviceOK' /\ Recorded' /\ Committing'
         /\ \A p \in Owners : InFlight(p)' => p = o
         /\ journal'[o].status = "busy" /\ journal'[o].next = next
         /\ \A p \in Owners : p # o => journal'[p] = journal[p]
<1>1. /\ journal' \in [Owners -> Commits] /\ journal'[o].status = "busy"
      /\ journal'[o].next = next /\ ~journal'[o].landed
      /\ \A p \in Owners : p # o => journal'[p] = journal[p]
  BY StartedIs, Zenon DEF IInv, TypeOK, DeviceOK
<1>2. DeviceOK'
  BY <1>1, Zenon DEF IInv, TypeOK, DeviceOK, Blocks
<1>3. op'.kind = "none"
  BY NothingTyped, Zenon
<1>4. \A p \in Owners : InFlight(p)' => p = o
  BY <1>1, <1>3, Zenon DEF InFlight, Owners
<1>5. Recorded'
  BY <1>1, <1>4, Zenon DEF IInv, Recorded
<1>6. Committing'
  BY <1>1, <1>3, <1>4, SlotFacts, Zenon DEF IInv, Committing, Owners
<1> QED
  BY <1>1, <1>2, <1>4, <1>5, <1>6, Zenon

LEMMA TickKeeps ==
  ASSUME IInv, NEW o \in Owners, JournalTick(o),
         UNCHANGED <<case, current, slots, burnt, running, boot>>
  PROVE  /\ DeviceOK' /\ Recorded' /\ Committing'
         /\ journal[o].status = "busy"
         /\ \A p \in Owners : InFlight(p)' => InFlight(p)
         /\ \A p \in Owners : journal'[p].next = journal[p].next
         /\ \A p \in Owners : p # o => journal'[p] = journal[p]
         /\ journal'[o].status = "ok" => current = journal[o].next /\ op' = NoOp
         /\ op' = op \/ (op = NoOp /\ op'.kind = o)
         /\ op'.kind \notin {"erase", "program"}
<1> USE DEF InFlight
<1>1. /\ journal[o].status = "busy"
      /\ journal' \in [Owners -> Commits]
      /\ op' \in Operations /\ (op'.kind = "none" => op' = NoOp)
      /\ journal'[o].next = journal[o].next /\ journal'[o].landed = journal[o].landed
      /\ \A p \in Owners : p # o => journal'[p] = journal[p]
      /\ \/ op' = op
         \/ op = NoOp /\ op'.kind = o /\ ~journal[o].landed /\ journal' = journal
      /\ \/ journal'[o].status = "busy"
         \/ journal'[o].status = "failed" /\ op' = op
         \/ journal'[o].status = "ok" /\ op' = NoOp /\ op = NoOp /\ journal[o].landed
  BY TickIs, Zenon DEF IInv, TypeOK, DeviceOK
<1>2. DeviceOK'
  BY <1>1, Zenon DEF IInv, TypeOK, DeviceOK, Blocks
<1>3. \A p \in Owners : InFlight(p)' => InFlight(p)
  BY <1>1, Zenon
<1>4. \A p \in Owners : journal'[p].next = journal[p].next
  BY <1>1, Zenon
<1>5. Recorded'
  BY <1>3, <1>4, Zenon DEF IInv, Recorded, Ending
<1>6. /\ \A p \in Owners : op.kind = p => p = o
      /\ op.kind \notin {"erase", "program"}
      /\ \A p \in Owners : p # o => journal[p].status # "busy"
  BY <1>1, SlotFacts, Zenon DEF IInv, Committing, Owners
<1>7. op'.kind \notin {"erase", "program"} /\ \A p \in Owners : op'.kind = p => p = o
  BY <1>1, <1>6, NothingTyped, Zenon DEF Owners
<1>8. Committing'
  <2>1. \A p \in Owners : journal'[p].status = "busy" /\ journal'[p].landed =>
                            op' = NoOp /\ current' = journal'[p].next
    BY <1>1, <1>6, Zenon DEF IInv, Committing
  <2>2. \A p \in Owners : journal'[p].status = "ok" => op'.kind # p
    <3>1. CASE journal'[o].status = "ok"
      BY <1>1, <3>1, NothingTyped, Zenon DEF Owners
    <3>2. CASE journal'[o].status # "ok"
      BY <1>7, <3>2, Zenon
    <3> QED
      BY <3>1, <3>2, Zenon
  <2>3. ~(InFlight("engine")' /\ InFlight("control")')
    BY <1>3, SlotFacts, Zenon DEF IInv, Committing
  <2> QED
    BY <1>7, <2>1, <2>2, <2>3, Zenon DEF Committing
<1>9. journal'[o].status = "ok" => current = journal[o].next /\ op' = NoOp
  BY <1>1, Zenon DEF IInv, Committing
<1>10. op' = op \/ (op = NoOp /\ op'.kind = o)
  BY <1>1, Zenon
<1> HIDE DEF InFlight
<1> QED
  BY <1>1, <1>2, <1>3, <1>4, <1>5, <1>7, <1>8, <1>9, <1>10, Zenon

(***************************************************************************)
(* The boot loader.                                                        *)
(***************************************************************************)
LEMMA LoaderIdle ==
  running = 2 /\ Booting /\ ~InFlight("engine") /\ AtRest
    => Running /\ Uploading /\ Writing
<1> SUFFICES ASSUME running = 2, Booting, ~InFlight("engine"), AtRest
             PROVE  Running /\ Uploading /\ Writing
  BY Zenon
<1>1. /\ engine.state = "disabled" /\ ~engine.requested /\ ~Active
      /\ engine.status = "not_running" /\ op.kind \in {"none", "control"}
  BY Zenon DEF Booting, Active
<1>2. Running
  BY Zenon DEF Running
<1>3. Uploading
  BY <1>1, Zenon DEF Uploading, InFlight
<1>4. Writing
  BY <1>1, Zenon DEF Writing
<1> QED
  BY <1>2, <1>3, <1>4, Zenon

LEMMA LoaderIdleNext ==
  (running = 2 /\ Booting /\ ~InFlight("engine") /\ AtRest
     => Running /\ Uploading /\ Writing)'
BY LoaderIdle, PTL

\* What holds in the boot loader.
LEMMA Loader ==
  ASSUME IInv, running = 2
  PROVE  /\ ~InFlight("engine") /\ AtRest /\ confirming = "none"
         /\ op.kind \in {"none", "control"} /\ writer.status # "busy"
         /\ engine.state = "disabled" /\ ~engine.requested
         /\ engine.status = "not_running"
         /\ boot \in {"load", "choose"} =>
              op = NoOp /\ journal["control"].status = "ok"
         /\ journal["engine"].status # "busy"
<1>1. ~InFlight("engine") /\ AtRest
  BY Zenon DEF IInv, Uploading, Writing
<1>2. /\ confirming = "none" /\ op.kind \in {"none", "control"}
      /\ writer.status # "busy" /\ engine.state = "disabled" /\ ~engine.requested
      /\ engine.status = "not_running"
      /\ boot \in {"load", "choose"} => journal["control"].status = "ok"
  BY Zenon DEF IInv, Booting
<1>3. journal["control"].status = "ok" => op = NoOp
  BY <1>2, SlotFacts, Zenon DEF IInv, TypeOK, DeviceOK, Committing
<1> QED
  BY <1>1, <1>2, <1>3, Zenon DEF InFlight

LEMMA BootLoadStep ==
  ASSUME IInv, BootLoad, UNCHANGED case
  PROVE  IInv'
<1>1. running = 2 /\ boot = "load"
      /\ UNCHANGED <<current, slots, op, running, confirming, engine, writer, burnt>>
  BY Zenon DEF BootLoad, history
<1>2. Ending /\ current \in Snapshot /\ Sound(current, slots, burnt)
  BY <1>1, Zenon DEF IInv, Ending, TypeOK, DeviceOK, Recorded
<1>3. \A s \in Slots : current.images[s].installation \in burnt =>
        current.images[s].state \in {"rejected", "incomplete", "trial"}
  BY Zenon DEF IInv, Recorded
<1>4. op = NoOp /\ journal["control"].status = "ok" /\ journal["engine"].status # "busy"
      /\ ~InFlight("engine") /\ AtRest
  BY <1>1, Loader, Zenon
<1>5. CASE \E s \in Slots : current.images[s].state = "trial"
  <2> DEFINE next == [current EXCEPT !.images =
                        [s \in Slots |-> Rejected(current.images[s])]]
  <2>1. boot' = "rejecting" /\ journal' = Started("control", next)
    BY <1>5, Zenon DEF BootLoad
  <2>2. next \in Snapshot /\ Sound(next, slots, burnt) /\ Unburnt(next, burnt)
    BY <1>2, <1>3, RejectingIs, Zenon
  <2> HIDE DEF next
  <2>3. Ending'
    BY <1>1, <2>1, Zenon DEF Ending
  <2>4. \A p \in Owners : p # "control" => journal[p].status # "busy"
    BY <1>4, Zenon DEF Owners
  <2>5. /\ DeviceOK' /\ Recorded' /\ Committing' /\ ~InFlight("engine")'
        /\ journal'["control"].status = "busy"
    BY <1>1, <1>4, <2>1, <2>2, <2>3, <2>4, StartKeeps, SlotFacts, Zenon
  <2>6. TypeOK' /\ AtRest'
    BY <1>1, <1>4, <2>1, <2>5, Zenon DEF IInv, TypeOK, SystemOK, UploadOK, AtRest
  <2>7. Booting'
    BY <1>1, <2>1, <2>5, Loader, Zenon DEF Booting, Chosen
  <2> QED
    BY <1>1, <2>5, <2>6, <2>7, LoaderIdleNext, Zenon DEF IInv
<1>6. CASE ~\E s \in Slots : current.images[s].state = "trial"
  <2>1. boot' = "choose" /\ journal' = journal
    BY <1>6, Zenon DEF BootLoad
  <2>2. Unburnt(current, burnt)
    BY <1>3, <1>6, Zenon DEF Unburnt
  <2>3. Recorded'
    BY <1>1, <2>1, <2>2, Zenon DEF IInv, Recorded, InFlight, Unburnt
  <2>4. TypeOK' /\ Committing' /\ AtRest' /\ ~InFlight("engine")'
    BY <1>1, <1>4, <2>1, Zenon
       DEF IInv, TypeOK, DeviceOK, SystemOK, UploadOK, AtRest, Blocks, Committing,
           InFlight
  <2>5. Booting'
    BY <1>1, <1>4, <2>1, <2>2, Loader, Zenon DEF Booting, Chosen
  <2> QED
    BY <1>1, <2>3, <2>4, <2>5, LoaderIdleNext, Zenon DEF IInv
<1> QED
  BY <1>5, <1>6, Zenon

\* Control::select() moves on without a commit.
LEMMA BootMoves ==
  ASSUME IInv, running = 2, Booting', Ending' \/ Unburnt(current, burnt),
         boot' \in {"load", "rejecting", "choose", "slot0", "slot1", "halt", "done"},
         UNCHANGED <<case, current, slots, op, journal, running, confirming, engine,
                     writer, burnt>>
  PROVE  IInv'
<1>1. Recorded'
  BY Zenon DEF IInv, Recorded, InFlight, Unburnt
<1>2. TypeOK' /\ Committing' /\ AtRest' /\ ~InFlight("engine")'
  BY Loader, Zenon DEF IInv, TypeOK, DeviceOK, SystemOK, UploadOK, AtRest, Blocks,
     Committing, InFlight
<1> QED
  BY <1>1, <1>2, LoaderIdleNext, Zenon DEF IInv

LEMMA BootRejectedStep ==
  ASSUME IInv, BootRejected, UNCHANGED case
  PROVE  IInv'
<1>1. /\ running = 2 /\ boot = "rejecting" /\ journal["control"].status # "busy"
      /\ boot' = IF journal["control"].status = "ok" THEN "choose" ELSE "halt"
      /\ UNCHANGED <<current, slots, op, journal, running, confirming, engine, writer,
                     burnt>>
  BY Zenon DEF BootRejected, history
<1>2. journal["control"].status = "ok" => Unburnt(current, burnt)
  BY <1>1, Zenon DEF IInv, Booting
<1>3. Ending' \/ Unburnt(current, burnt)
  BY <1>1, <1>2, Zenon DEF Ending
<1>4. Booting'
  BY <1>1, <1>2, Loader, Zenon DEF Booting, Chosen
<1> QED
  BY <1>1, <1>3, <1>4, BootMoves, Zenon

LEMMA BootFailsStep ==
  ASSUME IInv, BootFails, UNCHANGED case
  PROVE  IInv'
<1>1. /\ running = 2 /\ boot' = "halt"
      /\ UNCHANGED <<current, slots, op, journal, running, confirming, engine, writer,
                     burnt>>
  BY Zenon DEF BootFails, history
<1>2. Ending' /\ Booting'
  BY <1>1, Loader, Zenon DEF Ending, Booting, Chosen
<1> QED
  BY <1>1, <1>2, BootMoves, Zenon

LEMMA BootChooseStep ==
  ASSUME IInv, BootChoose, UNCHANGED case
  PROVE  IInv'
<1>1. running = 2 /\ boot = "choose"
      /\ UNCHANGED <<current, slots, op, running, confirming, engine, writer, burnt>>
  BY Zenon DEF BootChoose, history
<1>2. op = NoOp /\ journal["control"].status = "ok" /\ journal["engine"].status # "busy"
      /\ ~InFlight("engine") /\ AtRest
  BY <1>1, Loader, Zenon
<1>3. Unburnt(current, burnt) /\ current \in Snapshot /\ Sound(current, slots, burnt)
  BY <1>1, <1>2, Zenon DEF IInv, Booting, Recorded, TypeOK, DeviceOK
<1>4. CASE boot' = "halt" /\ UNCHANGED journal
  <2>1. Booting' /\ Ending'
    BY <1>1, <1>4, Loader, Zenon DEF Ending, Booting, Chosen
  <2> QED
    BY <1>1, <1>4, <2>1, BootMoves, Zenon
<1>5. ASSUME NEW s \in Slots, Eligible(s),
             boot' = IF s = 0 THEN "slot0" ELSE "slot1",
             IF current.images[s].state = "pending"
             THEN journal' = Started("control", WithState(current, s, "trial"))
             ELSE UNCHANGED journal
      PROVE  IInv'
  <2>1. current.images[s].state \in {"pending", "confirmed"}
        /\ \A t \in Slots : Chosen(t)' => t = s
    BY <1>5, Zenon DEF Eligible, Chosen, Slots
  <2>2. CASE current.images[s].state = "confirmed"
    <3>1. journal' = journal
      BY <1>5, <2>2, Zenon
    <3>2. ~InFlight("control")'
      BY <1>1, <1>2, <3>1, NothingTyped, Zenon DEF InFlight
    <3>3. Booting'
      BY <1>1, <1>5, <2>1, <2>2, <3>1, <3>2, Loader, Zenon DEF Booting
    <3> QED
      BY <1>1, <1>3, <1>5, <3>1, <3>3, BootMoves, Zenon
  <2>3. CASE current.images[s].state = "pending"
    <3> DEFINE next == WithState(current, s, "trial")
    <3>1. journal' = Started("control", next)
      BY <1>5, <2>3, Zenon
    <3>2. next \in Snapshot /\ next.images[s].state = "trial"
      BY <1>3, WithStateIs DEF ImageStates
    <3>3. current.images[1 - s].state = "confirmed"
      BY <1>3, <2>3, OtherSlot, Zenon DEF Sound
    <3>4. Sound(next, slots, burnt) /\ Unburnt(next, burnt)
      BY <1>3, <2>3, <3>3, SoundWithState, UnburntWithState, Zenon
         DEF ImageStates, Bootable
    <3> HIDE DEF next
    <3>5. ~Ending
      BY <1>1, Zenon DEF Ending
    <3>6. \A p \in Owners : p # "control" => journal[p].status # "busy"
      BY <1>2, Zenon DEF Owners
    <3>7. /\ DeviceOK' /\ Recorded' /\ Committing' /\ ~InFlight("engine")'
          /\ journal'["control"].status = "busy" /\ journal'["control"].next = next
      BY <1>1, <1>2, <3>1, <3>2, <3>4, <3>5, <3>6, StartKeeps, SlotFacts, Zenon
    <3>8. TypeOK' /\ AtRest'
      BY <1>1, <1>2, <1>5, <3>7, Zenon DEF IInv, TypeOK, SystemOK, UploadOK, AtRest
    <3>9. Booting'
      BY <1>1, <1>5, <2>1, <3>2, <3>7, Loader, Zenon DEF Booting
    <3> QED
      BY <1>1, <3>7, <3>8, <3>9, LoaderIdleNext, Zenon DEF IInv
  <2> QED
    BY <2>1, <2>2, <2>3, Zenon
<1> QED
  BY <1>4, <1>5, <1>1, Zenon DEF BootChoose

LEMMA JumpStep ==
  ASSUME IInv, Jump, UNCHANGED case
  PROVE  IInv'
<1>1. /\ running = 2 /\ boot \in {"slot0", "slot1"} /\ journal["control"].status = "ok"
      /\ running' = (IF boot = "slot0" THEN 0 ELSE 1) /\ boot' = "done"
      /\ UNCHANGED <<current, slots, op, journal, confirming, engine, writer, burnt>>
  BY Zenon DEF Jump, history
<1>2. running' \in Slots /\ running' # 2 /\ Chosen(running')
  BY <1>1 DEF Slots, Chosen
<1>3. current.images[running'].state \in {"trial", "confirmed"}
  BY <1>1, <1>2, Zenon DEF IInv, Booting
<1>4. /\ ~InFlight("engine") /\ AtRest /\ op = NoOp /\ engine.state = "disabled"
      /\ ~engine.requested /\ engine.status = "not_running"
  BY <1>1, Loader, SlotFacts, Zenon DEF IInv, Committing, TypeOK, DeviceOK
<1>5. TypeOK' /\ Committing'
  BY <1>1 DEF IInv, TypeOK, DeviceOK, SystemOK, UploadOK, Blocks, Committing, InFlight
<1>6. Recorded' /\ Booting'
  BY <1>1, <1>2, Zenon DEF IInv, Recorded, InFlight, Booting, Ending
<1>7. ~InFlight("control")' /\ ~InFlight("engine")' /\ ~Active'
  BY <1>1, <1>4, NothingTyped, Zenon DEF InFlight, Active
<1>8. Running'
  BY <1>1, <1>3, <1>7, Zenon DEF Running
<1>9. Uploading'
  BY <1>1, <1>4, <1>7, Zenon DEF Uploading, InFlight
<1>10. Writing'
  BY <1>1, <1>4, NothingTyped, Zenon DEF Writing, AtRest
<1> QED
  BY <1>5, <1>6, <1>8, <1>9, <1>10, Zenon DEF IInv

(***************************************************************************)
(* confirm_image() and the commits of boot::Control.                       *)
(***************************************************************************)
\* What an application that has work in the foreground can rely on.
LEMMA Application ==
  ASSUME IInv, running # 2
  PROVE  /\ running \in Slots /\ Destination \in Slots /\ 1 - Destination = running
         /\ Destination # running /\ ~Ending
         /\ current.images[running].state \in {"trial", "confirmed"}
         /\ Unburnt(current, burnt) /\ Sound(current, slots, burnt)
         /\ current \in Snapshot
<1>1. running \in Slots /\ Destination \in Slots /\ 1 - Destination = running
      /\ Destination # running
  BY DEF IInv, TypeOK, SystemOK, Slots, Destination
<1>2. ~Ending
  BY Zenon DEF Ending
<1>3. Unburnt(current, burnt) /\ Sound(current, slots, burnt)
  BY <1>2, Zenon DEF IInv, Recorded, Unburnt
<1> QED
  BY <1>1, <1>2, <1>3, Zenon DEF IInv, Running, TypeOK, DeviceOK

\* The invariant says nothing of the gate and of the history of the counter.
seen == <<case, current, slots, op, journal, running, boot, confirming, engine, writer,
          burnt>>

LEMMA Unseen ==
  ASSUME IInv, UNCHANGED seen
  PROVE  IInv'
<1> USE DEF seen
<1>1. TypeOK'
  BY Zenon DEF IInv, TypeOK, DeviceOK, SystemOK, UploadOK, Blocks
<1>2. Recorded'
  BY Zenon DEF IInv, Recorded, InFlight, Ending
<1>3. Committing'
  BY Zenon DEF IInv, Committing, InFlight
<1>4. Booting' /\ Running'
  BY Zenon DEF IInv, Booting, Running, InFlight, Chosen, Destination
<1>5. Uploading'
  BY Zenon DEF IInv, Uploading, InFlight, Active, Destination, Blocks
<1>6. Writing'
  BY Zenon DEF IInv, Writing, AtRest, ClearFrom, Destination, SectorEnd, Blocks
<1> QED
  BY <1>1, <1>2, <1>3, <1>4, <1>5, <1>6, Zenon DEF IInv

Withdrawn == engine.status = "aborted" =>
               /\ running # 2 /\ op.kind # "engine"
               /\ current.images[Destination].state # "pending"

LEMMA UploadIdle ==
  ~Active /\ ~InFlight("engine") /\ Withdrawn => Uploading
BY Zenon DEF Uploading, Active, InFlight, Withdrawn

LEMMA UploadIdleNext ==
  (~Active /\ ~InFlight("engine") /\ Withdrawn => Uploading)'
BY UploadIdle, PTL

\* No upload is under way while an image on trial is confirmed.
LEMMA ConfirmStep ==
  ASSUME IInv, NEW caller \in {"gate", "command"}, Confirm(caller), UNCHANGED case
  PROVE  IInv'
<1>1. /\ running # 2 /\ confirming = "none"
      /\ UNCHANGED <<current, slots, op, running, boot, engine, writer, burnt>>
  BY DEF Confirm, Foreground, history
<1>2. CASE op = NoOp /\ current.images[running].state = "trial"
  <2> DEFINE next == WithState(current, running, "confirmed")
  <2>1. confirming' = caller /\ journal' = Started("control", next)
    BY <1>2, Zenon DEF Confirm, DeviceIdle
  <2>2. /\ next \in Snapshot /\ next.images[running].state = "confirmed"
        /\ next.images[Destination].state = current.images[Destination].state
    <3>1. running \in Slots /\ current \in Snapshot
      BY <1>1, Application, Zenon
    <3>2. /\ next \in Snapshot /\ next.images[running].state = "confirmed"
          /\ next.images[1 - running] = current.images[1 - running]
      BY <3>1, WithStateIs DEF ImageStates
    <3> QED
      BY <3>2, Zenon DEF Destination
  <2>3. Sound(next, slots, burnt) /\ Unburnt(next, burnt)
    BY <1>1, <1>2, Application, SoundWithState, UnburntWithState, Zenon
       DEF ImageStates, Bootable
  <2> HIDE DEF next
  <2>4. ~Active /\ ~InFlight("engine")
    BY <1>2, Zenon DEF IInv, Uploading
  <2>5. \A p \in Owners : p # "control" => journal[p].status # "busy"
    BY <2>4, Zenon DEF Owners, InFlight
  <2>6. /\ DeviceOK' /\ Recorded' /\ Committing' /\ ~InFlight("engine")'
        /\ journal'["control"].status = "busy" /\ journal'["control"].next = next
    BY <1>1, <1>2, <2>1, <2>2, <2>3, <2>5, Application, StartKeeps, SlotFacts
  <2>7. TypeOK' /\ Booting'
    BY <1>1, <2>1, <2>6, Zenon DEF IInv, TypeOK, SystemOK, UploadOK, Booting
  <2>8. Running'
    BY <1>1, <2>1, <2>2, <2>6, Zenon DEF IInv, Running, Destination
  <2>9. ~Active' /\ Withdrawn'
    BY <1>1, <2>4, Zenon DEF Active, IInv, Uploading, Withdrawn, Destination
  <2>10. Uploading'
    BY <2>6, <2>9, UploadIdleNext, Zenon
  <2>11. Writing'
    BY <1>1, Zenon DEF IInv, Writing, AtRest, ClearFrom, Destination, SectorEnd, Blocks
  <2> QED
    BY <2>6, <2>7, <2>8, <2>10, <2>11, Zenon DEF IInv
<1>3. CASE ~(op = NoOp /\ current.images[running].state = "trial")
  <2>1. UNCHANGED <<confirming, journal>>
    BY <1>3, Zenon DEF Confirm, DeviceIdle
  <2> QED
    BY <1>1, <2>1, Unseen, Zenon DEF seen
<1> QED
  BY <1>2, <1>3, Zenon

LEMMA ConfirmEndsStep ==
  ASSUME IInv, ConfirmEnds, UNCHANGED case
  PROVE  IInv'
<1>1. /\ confirming' = "none" /\ journal["control"].status # "busy" /\ confirming # "none"
      /\ UNCHANGED <<current, slots, op, journal, running, boot, engine, writer, burnt>>
  BY Zenon DEF ConfirmEnds, history
<1>2. TypeOK'
  BY <1>1, Zenon DEF IInv, TypeOK, DeviceOK, SystemOK, UploadOK, Blocks
<1>3. Recorded' /\ Committing'
  BY <1>1, Zenon DEF IInv, Recorded, Committing, InFlight, Ending
<1>4. Booting' /\ Running'
  BY <1>1, Zenon DEF IInv, Booting, Running, InFlight, Destination
<1>5. Uploading'
  BY <1>1, Zenon DEF IInv, Uploading, InFlight, Active, Destination, Blocks
<1>6. Writing'
  BY <1>1, Zenon DEF IInv, Writing, AtRest, ClearFrom, Destination, SectorEnd, Blocks
<1> QED
  BY <1>2, <1>3, <1>4, <1>5, <1>6, Zenon DEF IInv

LEMMA WriteIdle ==
  /\ engine.state \notin {"receiving", "writing"} /\ AtRest
  /\ op.kind \notin {"erase", "program"}
  => Writing
BY Zenon DEF Writing

LEMMA WriteIdleNext ==
  (/\ engine.state \notin {"receiving", "writing"} /\ AtRest
   /\ op.kind \notin {"erase", "program"}
   => Writing)'
BY WriteIdle, PTL

LEMMA ControlTickStep ==
  ASSUME IInv, ControlTick, UNCHANGED case
  PROVE  IInv'
<1>1. /\ running = 2 \/ confirming # "none"
      /\ JournalTick("control")
      /\ UNCHANGED <<current, slots, running, boot, confirming, engine, writer, burnt>>
  BY Zenon DEF ControlTick, history
<1>2. /\ DeviceOK' /\ Recorded' /\ Committing' /\ journal["control"].status = "busy"
      /\ InFlight("engine")' => InFlight("engine")
      /\ InFlight("control")
      /\ journal'["control"].next = journal["control"].next
      /\ journal'["engine"] = journal["engine"]
      /\ journal'["control"].status = "ok" =>
           current = journal["control"].next /\ op' = NoOp
      /\ op' = op \/ op'.kind = "control"
      /\ op'.kind \notin {"erase", "program"}
  BY <1>1, TickKeeps, SlotFacts DEF InFlight
<1>3. ~Active /\ ~InFlight("engine") /\ Withdrawn
  BY <1>2, Zenon DEF IInv, Uploading, Withdrawn
<1>4. ~Active' /\ ~InFlight("engine")' /\ Withdrawn'
  BY <1>1, <1>2, <1>3, Zenon DEF Active, Withdrawn, Destination
<1>5. engine'.state \notin {"receiving", "writing"} /\ AtRest'
  BY <1>1, <1>3, Zenon DEF IInv, Writing, AtRest, Active
<1>6. Uploading' /\ Writing'
  BY <1>2, <1>4, <1>5, UploadIdleNext, WriteIdleNext, Zenon
<1>7. TypeOK'
  BY <1>1, <1>2, Zenon DEF IInv, TypeOK, SystemOK, UploadOK
<1>8. Booting'
  <2> SUFFICES ASSUME running = 2 PROVE Booting'
    BY <1>1, Zenon DEF Booting
  <2>1. op'.kind \in {"none", "control"}
    BY <1>2, Loader, Zenon
  <2>2. boot \notin {"load", "choose"}
    BY <1>2, Loader, Zenon
  <2>3. boot = "rejecting" /\ journal'["control"].status = "ok" =>
          Unburnt(current, burnt)
    BY <1>2, SlotFacts, Zenon DEF IInv, Recorded
  <2>4. \A s \in Slots : Chosen(s) =>
          journal["control"].next.images[s].state \in {"trial", "confirmed"}
    BY <1>2, Zenon DEF IInv, Booting
  <2>5. \A s \in Slots : Chosen(s)' => Chosen(s)
    BY <1>1, Zenon DEF Chosen
  <2> QED
    BY <1>1, <1>2, <2>1, <2>2, <2>3, <2>4, <2>5, Loader, Zenon DEF Booting
<1>9. Running'
  BY <1>1, <1>2, Zenon DEF IInv, Running, Destination
<1> QED
  BY <1>2, <1>6, <1>7, <1>8, <1>9, Zenon DEF IInv

(***************************************************************************)
(* Requests to the update engine.                                          *)
(***************************************************************************)
LEMMA EngineMoves ==
  ASSUME IInv, running # 2, UploadOK', Uploading', Writing',
         UNCHANGED <<case, current, slots, op, journal, running, boot, confirming, burnt>>
  PROVE  IInv'
<1>1. TypeOK'
  BY Zenon DEF IInv, TypeOK, DeviceOK, SystemOK, Blocks
<1>2. Recorded' /\ Committing'
  BY Zenon DEF IInv, Recorded, Committing, InFlight, Ending
<1>3. Booting' /\ Running'
  BY Zenon DEF IInv, Booting, Running, InFlight, Destination
<1> QED
  BY <1>1, <1>2, <1>3, Zenon DEF IInv

\* Nothing the invariant looks at changes.
LEMMA EngineSame ==
  ASSUME IInv, running # 2, engine' \in EngineStates,
         engine'.state = engine.state, engine'.requested = engine.requested,
         engine'.status = engine.status, engine'.snapshot = engine.snapshot,
         engine'.package = engine.package, engine'.reader = engine.reader,
         engine'.offset = engine.offset,
         engine'.verify_offset = engine.verify_offset,
         engine'.verify_crc = engine.verify_crc,
         UNCHANGED <<case, current, slots, op, journal, running, boot, confirming, burnt,
                     writer>>
  PROVE  IInv'
<1>1. UploadOK'
  BY Zenon DEF IInv, TypeOK, UploadOK
<1>2. Uploading'
  BY Zenon DEF IInv, Uploading, InFlight, Active, Destination, Blocks
<1>3. Writing'
  BY Zenon DEF IInv, Writing, AtRest, ClearFrom, Destination, SectorEnd, Blocks
<1> QED
  BY <1>1, <1>2, <1>3, EngineMoves, Zenon

LEMMA EnableStep ==
  ASSUME IInv, NEW on \in BOOLEAN, Enable(on), UNCHANGED case
  PROVE  IInv'
<1>1. engine \in EngineStates /\ running # 2 /\ engine' = [engine EXCEPT !.enabled = on]
      /\ UNCHANGED <<current, slots, op, journal, running, boot, confirming, burnt, writer>>
  BY DEF IInv, TypeOK, UploadOK, Enable, Foreground, EngineOnly, system, history
<1>2. engine' \in EngineStates
  BY <1>1, Zenon DEF EngineStates
<1>3. /\ engine'.state = engine.state /\ engine'.requested = engine.requested
      /\ engine'.status = engine.status /\ engine'.snapshot = engine.snapshot
      /\ engine'.package = engine.package /\ engine'.reader = engine.reader
      /\ engine'.offset = engine.offset
      /\ engine'.verify_offset = engine.verify_offset
      /\ engine'.verify_crc = engine.verify_crc
  BY <1>1, Zenon DEF EngineStates
<1> QED
  BY <1>1, <1>2, <1>3, EngineSame, Zenon

LEMMA AbortStep ==
  ASSUME IInv, Abort, UNCHANGED case
  PROVE  IInv'
<1>1. /\ engine \in EngineStates /\ running # 2
      /\ engine' = [engine EXCEPT !.abort_requested = TRUE]
      /\ UNCHANGED <<current, slots, op, journal, running, boot, confirming, burnt, writer>>
  BY DEF IInv, TypeOK, UploadOK, Abort, Foreground, EngineOnly, system, history
<1>2. engine' \in EngineStates
  BY <1>1, Zenon DEF EngineStates
<1>3. /\ engine'.state = engine.state /\ engine'.requested = engine.requested
      /\ engine'.status = engine.status /\ engine'.snapshot = engine.snapshot
      /\ engine'.package = engine.package /\ engine'.reader = engine.reader
      /\ engine'.offset = engine.offset
      /\ engine'.verify_offset = engine.verify_offset
      /\ engine'.verify_crc = engine.verify_crc
  BY <1>1, Zenon DEF EngineStates
<1> QED
  BY <1>1, <1>2, <1>3, EngineSame, Zenon

LEMMA ChunkStep ==
  ASSUME IInv, NEW data \in Packages, Chunk(data), UNCHANGED case
  PROVE  IInv'
<1>1. /\ engine \in EngineStates /\ running # 2
      /\ engine' = [engine EXCEPT !.rx = data, !.received = @ + 1]
      /\ UNCHANGED <<current, slots, op, journal, running, boot, confirming, burnt, writer>>
  BY DEF IInv, TypeOK, UploadOK, Chunk, Foreground, EngineOnly, system, history
<1>2. engine' \in EngineStates
  <2>1. engine.received + 1 \in Nat
    BY <1>1 DEF EngineStates
  <2> QED
    BY <1>1, <2>1, Zenon DEF EngineStates, Data
<1>3. /\ engine'.state = engine.state /\ engine'.requested = engine.requested
      /\ engine'.status = engine.status /\ engine'.snapshot = engine.snapshot
      /\ engine'.package = engine.package /\ engine'.reader = engine.reader
      /\ engine'.offset = engine.offset
      /\ engine'.verify_offset = engine.verify_offset
      /\ engine'.verify_crc = engine.verify_crc
  BY <1>1, Zenon DEF EngineStates
<1> QED
  BY <1>1, <1>2, <1>3, EngineSame, Zenon

LEMMA BeginStep ==
  ASSUME IInv, NEW package \in Packages, NEW total \in Nat, Begin(package, total),
         UNCHANGED case
  PROVE  IInv'
<1>1. /\ engine \in EngineStates /\ running # 2 /\ confirming = "none" /\ ~Active
      /\ op = NoOp /\ current.images[running].state = "confirmed"
      /\ engine' = [engine EXCEPT !.requested = TRUE, !.abort_requested = FALSE,
                      !.status = "busy", !.package = package, !.total = total,
                      !.snapshot = current, !.received = 0, !.rx = Erased,
                      !.verify_offset = 0, !.verify_crc = TRUE]
      /\ UNCHANGED <<current, slots, op, journal, running, boot, confirming, burnt, writer>>
  BY DEF IInv, TypeOK, UploadOK, Begin, Foreground, DeviceIdle, ConfirmedRunning, system
<1>2. engine' \in EngineStates
  BY <1>1, Application, Zenon DEF EngineStates, Data, IInv, TypeOK, DeviceOK
<1>3. /\ engine'.state = engine.state /\ engine'.requested
      /\ engine'.status = "busy" /\ engine'.snapshot = current
      /\ engine'.verify_offset = 0
  BY <1>1, Zenon DEF EngineStates
<1>4. engine.state \in {"disabled", "idle", "done", "failed"}
  BY <1>1, Zenon DEF Active
<1>5. ~InFlight("engine") /\ ~InFlight("control")
  BY <1>1, <1>4, NothingTyped, Zenon DEF IInv, InFlight, Uploading, Running
<1>6. ~InFlight("engine")' /\ ~InFlight("control")'
  BY <1>1, <1>5, Zenon DEF InFlight
<1>7. Uploading'
  BY <1>1, <1>3, <1>4, <1>6, Zenon DEF Uploading, InFlight
<1>8. UploadOK' /\ AtRest'
  BY <1>1, <1>2 DEF IInv, TypeOK, UploadOK, Writing, AtRest
<1>9. Writing'
  BY <1>1, <1>3, <1>4, <1>8, NothingTyped, WriteIdleNext, Zenon
<1> QED
  BY <1>1, <1>7, <1>8, <1>9, EngineMoves, Zenon

(***************************************************************************)
(* The update engine's steps.                                              *)
(***************************************************************************)
LEMMA ToIs ==
  ASSUME engine \in EngineStates, NEW stage \in Stages,
         \/ To(stage)
         \/ Fail /\ stage = "aborting"
  PROVE  /\ engine' \in EngineStates /\ engine'.state = stage
         /\ engine'.requested = engine.requested /\ engine'.status = engine.status
         /\ engine'.package = engine.package /\ engine'.reader = engine.reader
         /\ engine'.offset = engine.offset
         /\ engine'.verify_offset = engine.verify_offset
         /\ engine'.verify_crc = engine.verify_crc
<1>1. engine' \in EngineStates
  <2>1. CASE To(stage)
    BY <2>1, Zenon DEF To, EngineStates
  <2>2. CASE Fail /\ stage = "aborting"
    BY <2>2, Zenon DEF Fail, EngineStates
  <2> QED
    BY <2>1, <2>2, Zenon
<1> QED
  BY <1>1 DEF To, Fail, EngineStates

LEMMA EndsIs ==
  ASSUME engine \in EngineStates, NEW stage \in {"done", "failed"},
         NEW status \in {"ok", "failed", "aborted"}, Ends(stage, status)
  PROVE  /\ engine' \in EngineStates /\ engine'.state = stage
         /\ engine'.status = status /\ ~engine'.requested
<1>1. engine' \in EngineStates
  BY FreshTyped, Zenon DEF Ends, EngineStates, Stages
<1>2. /\ engine' = [FreshEngine EXCEPT !.enabled = engine.enabled, !.state = stage,
                                       !.status = status]
      /\ FreshEngine.requested = FALSE /\ FreshEngine \in EngineStates
  BY FreshTyped, Zenon DEF Ends, FreshEngine
<1>3. engine'.state = stage /\ engine'.status = status
      /\ engine'.requested = FreshEngine.requested
  BY <1>2, Zenon DEF EngineStates
<1> QED
  BY <1>1, <1>2, <1>3, Zenon

LEMMA CommitIs ==
  ASSUME engine \in EngineStates, NEW next \in Snapshot, NEW stage \in Stages,
         Commit(next, stage)
  PROVE  /\ journal["engine"].status # "busy" /\ op = NoOp
         /\ journal' = Started("engine", next)
         /\ engine' \in EngineStates /\ engine'.state = stage /\ ~engine'.requested
         /\ engine'.status = engine.status
         /\ engine'.verify_offset = engine.verify_offset
<1>1. /\ journal["engine"].status # "busy" /\ op = NoOp
      /\ journal' = Started("engine", next)
      /\ engine' = [engine EXCEPT !.state = stage, !.snapshot = next,
                                  !.requested = FALSE]
  BY Zenon DEF Commit, JournalReady, DeviceIdle
<1>2. engine' \in EngineStates
  BY <1>1, Zenon DEF EngineStates
<1>3. engine'.state = stage /\ engine'.requested = FALSE
      /\ engine'.status = engine.status
      /\ engine'.verify_offset = engine.verify_offset
  BY <1>1, Zenon DEF EngineStates
<1> QED
  BY <1>1, <1>2, <1>3, Zenon

\* The engine starts a commit that keeps the running image confirmed.
LEMMA CommitKeeps ==
  ASSUME IInv, running # 2, Active, NEW next \in Snapshot,
         NEW stage \in {"invalidating", "committing", "aborting"},
         Commit(next, stage), Sound(next, slots, burnt), Unburnt(next, burnt),
         next.images[running].state = "confirmed",
         stage = "invalidating" => /\ next.images[Destination].state = "incomplete"
                                   /\ engine.verify_offset = 0,
         writer.status # "busy",
         UNCHANGED <<case, current, slots, op, running, boot, confirming, burnt, writer>>
  PROVE  IInv'
<1>1. /\ journal["engine"].status # "busy" /\ op = NoOp
      /\ journal' = Started("engine", next)
      /\ engine' \in EngineStates /\ engine'.state = stage /\ ~engine'.requested
      /\ engine'.status = engine.status
      /\ engine'.verify_offset = engine.verify_offset
  BY CommitIs, Zenon DEF IInv, TypeOK, UploadOK, Stages
<1>2. /\ engine.status = "busy" /\ ~InFlight("control")
      /\ current.images[running].state = "confirmed"
  BY Zenon DEF IInv, Uploading
<1>3. \A p \in Owners : p # "engine" => journal[p].status # "busy"
  BY <1>2, Zenon DEF Owners, InFlight
<1>4. ~Ending
  BY Application, Zenon
<1>5. /\ DeviceOK' /\ Recorded' /\ Committing' /\ ~InFlight("control")'
      /\ journal'["engine"].status = "busy" /\ journal'["engine"].next = next
      /\ journal'["control"] = journal["control"]
  BY <1>1, <1>3, <1>4, StartKeeps, SlotFacts
<1>6. TypeOK' /\ Booting'
  BY <1>1, <1>5, Zenon DEF IInv, TypeOK, SystemOK, UploadOK, Booting
<1>7. Running'
  BY <1>2, <1>5, Zenon DEF IInv, Running
<1>8. Uploading'
  BY <1>1, <1>2, <1>5, Zenon DEF Uploading, Destination
<1>9. AtRest'
  BY Zenon DEF IInv, Writing, AtRest
<1>10. Writing'
  BY <1>1, <1>9, NothingTyped, WriteIdleNext, Zenon
<1> QED
  BY <1>5, <1>6, <1>7, <1>8, <1>10, Zenon DEF IInv

\* An upload ends with nothing in progress that could still change the device.
LEMMA EndsKeeps ==
  ASSUME IInv, running # 2, NEW stage \in {"done", "failed"},
         NEW status \in {"ok", "failed", "aborted"}, Ends(stage, status),
         writer.status # "busy", journal["engine"].status # "busy",
         op.kind \notin {"erase", "program"},
         status = "aborted" => op = NoOp /\ current.images[Destination].state # "pending",
         UNCHANGED <<case, current, slots, op, journal, running, boot, confirming, burnt,
                     writer>>
  PROVE  IInv'
<1>1. /\ engine' \in EngineStates /\ engine'.state = stage
      /\ engine'.status = status /\ ~engine'.requested
  BY EndsIs, Zenon DEF IInv, TypeOK, UploadOK
<1>2. UploadOK' /\ AtRest'
  BY <1>1, Zenon DEF IInv, TypeOK, UploadOK, Writing, AtRest
<1>3. Writing'
  BY <1>1, <1>2, WriteIdleNext, Zenon
<1>4. Uploading'
  <2>1. ~Active' /\ engine'.state \notin {"receiving", "writing", "verifying"}
    BY <1>1, Zenon DEF Active
  <2>2. InFlight("engine")' => InFlight("engine")
    BY Zenon DEF InFlight
  <2>3. InFlight("control")' => InFlight("control")
    BY Zenon DEF InFlight
  <2> QED
    BY <1>1, <2>1, <2>2, <2>3, NothingTyped, Zenon DEF IInv, Uploading, Destination
<1> QED
  BY <1>2, <1>3, <1>4, EngineMoves, Zenon

\* The engine has no upload, before and after.
LEMMA IdleKeeps ==
  ASSUME IInv, running # 2, ~Active, engine' \in EngineStates,
         engine'.state \in {"disabled", "idle", "done", "failed"}, ~engine'.requested,
         engine'.status = "aborted" => engine.status = "aborted",
         UNCHANGED <<case, current, slots, op, journal, running, boot, confirming, burnt,
                     writer>>
  PROVE  IInv'
<1>1. /\ ~Active' /\ engine'.state \notin {"receiving", "writing", "verifying"}
      /\ engine.state \in {"disabled", "idle", "done", "failed"}
  BY Zenon DEF Active
<1>2. UploadOK' /\ AtRest'
  BY <1>1, Zenon DEF IInv, TypeOK, UploadOK, Writing, AtRest
<1>3. op.kind \notin {"erase", "program"}
  BY <1>1, Zenon DEF IInv, Writing
<1>4. Writing'
  BY <1>1, <1>2, <1>3, WriteIdleNext, Zenon
<1>5. (InFlight("engine")' => InFlight("engine"))
      /\ (InFlight("control")' => InFlight("control"))
  BY Zenon DEF InFlight
<1>6. Uploading'
  BY <1>1, <1>5, Zenon DEF IInv, Uploading, Destination
<1> QED
  BY <1>2, <1>4, <1>6, EngineMoves, Zenon

LEMMA TickIdleStep ==
  ASSUME IInv, TickIdle, UNCHANGED case
  PROVE  IInv'
<1>1. /\ running # 2 /\ engine.state \in {"disabled", "idle", "done", "failed"}
      /\ engine \in EngineStates
      /\ UNCHANGED <<current, slots, op, running, boot, confirming, burnt, writer>>
  BY DEF IInv, TypeOK, UploadOK, TickIdle, Foreground, system, history
<1>2. writer.status # "busy"
  BY <1>1, Zenon DEF IInv, Writing, AtRest
<1>3. ASSUME engine.requested
      PROVE  /\ Active /\ engine.snapshot = current /\ op = NoOp
             /\ engine.verify_offset = 0 /\ journal["engine"].status # "busy"
             /\ current.images[running].state = "confirmed"
  BY <1>1, <1>3, Zenon DEF IInv, Uploading, Active
<1>4. CASE engine.requested
           /\ Commit(WithState(engine.snapshot, Destination, "incomplete"), "invalidating")
  <2> DEFINE next == WithState(current, Destination, "incomplete")
  <2>1. Commit(next, "invalidating")
    BY <1>3, <1>4, Zenon
  <2>2. Destination \in Slots /\ 1 - Destination = running /\ current \in Snapshot
        /\ Sound(current, slots, burnt) /\ Unburnt(current, burnt)
    BY <1>1, Application, Zenon
  <2>3. /\ next \in Snapshot /\ next.images[Destination].state = "incomplete"
        /\ next.images[1 - Destination] = current.images[1 - Destination]
    <3>1. Destination \in Slots /\ current \in Snapshot
      BY <2>2, Zenon
    <3> QED
      BY <3>1, WithStateIs DEF ImageStates
  <2>4. Sound(next, slots, burnt) /\ Unburnt(next, burnt)
    BY <1>3, <1>4, <2>2, SoundWithState, UnburntWithState DEF ImageStates, Bootable
  <2> HIDE DEF next
  <2> QED
    BY <1>1, <1>2, <1>3, <1>4, <2>1, <2>2, <2>3, <2>4, CommitKeeps, Zenon
<1>5. CASE engine.requested /\ Ends("failed", "failed") /\ UNCHANGED journal
  BY <1>1, <1>2, <1>3, <1>5, NothingTyped, EndsKeeps, Zenon
<1>6. CASE ~engine.requested /\ To("disabled") /\ UNCHANGED journal
  <2>1. ~Active
    BY <1>1, <1>6, Zenon DEF Active
  <2>2. engine' \in EngineStates /\ engine'.state = "disabled" /\ ~engine'.requested
        /\ engine'.status = engine.status
    BY <1>1, <1>6, ToIs, Zenon DEF Stages
  <2> QED
    BY <1>1, <1>6, <2>1, <2>2, IdleKeeps, Zenon
<1>7. CASE ~engine.requested /\ UNCHANGED journal
           /\ engine' = [engine EXCEPT !.state = "idle", !.status = "ok"]
  <2>1. ~Active
    BY <1>1, <1>7, Zenon DEF Active
  <2>2. engine' \in EngineStates
    BY <1>1, <1>7, Zenon DEF EngineStates, Stages
  <2>3. engine'.state = "idle" /\ engine'.requested = engine.requested
        /\ engine'.status = "ok"
    BY <1>1, <1>7, Zenon DEF EngineStates
  <2> QED
    BY <1>1, <1>7, <2>1, <2>2, <2>3, IdleKeeps, Zenon
<1> QED
  BY <1>4, <1>5, <1>6, <1>7, Zenon DEF TickIdle

(***************************************************************************)
(* The steps of an upload, of the flash device and of a reset.             *)
(***************************************************************************)
\* The upload is given up; what it has in progress goes on.
LEMMA GiveUpKeeps ==
  ASSUME IInv, running # 2,
         engine.state \in {"receiving", "verifying"},
         engine' \in EngineStates, engine'.state = "aborting",
         engine'.requested = engine.requested, engine'.status = engine.status,
         UNCHANGED <<case, current, slots, op, journal, running, boot, confirming, burnt,
                     writer>>
  PROVE  IInv'
<1>1. Active /\ ~engine.requested /\ op.kind \notin {"erase", "program"}
  BY Zenon DEF Active, IInv, Uploading, Writing
<1>2. UploadOK' /\ AtRest'
  BY Zenon DEF IInv, TypeOK, UploadOK, Writing, AtRest
<1>3. Writing'
  BY <1>1, <1>2, WriteIdleNext, Zenon
<1>4. (InFlight("engine")' => InFlight("engine"))
      /\ (InFlight("control")' => InFlight("control"))
  BY Zenon DEF InFlight
<1>5. Uploading'
  BY <1>1, <1>4, Zenon DEF IInv, Uploading, Destination
<1> QED
  BY <1>2, <1>3, <1>5, EngineMoves, Zenon

LEMMA TickReceivingStep ==
  ASSUME IInv, TickReceiving, UNCHANGED case
  PROVE  IInv'
<1>1. /\ running # 2 /\ engine.state = "receiving" /\ engine \in EngineStates
      /\ UNCHANGED <<current, slots, op, journal, running, boot, confirming, burnt>>
  BY DEF IInv, TypeOK, UploadOK, TickReceiving, Foreground, system, history
<1>2. /\ Active /\ ~engine.requested /\ engine.status = "busy" /\ writer.status # "busy"
      /\ writer.state \in {"idle", "done", "failed"}
      /\ op.kind \notin {"erase", "program"} /\ op.kind \notin Owners
      /\ journal["engine"].status # "busy" /\ engine.verify_offset = 0
      /\ current.images[Destination].state = "incomplete"
  BY <1>1, Zenon DEF Active, IInv, Uploading, Writing, AtRest
<1>3. ~InFlight("engine") /\ ~InFlight("control")
      /\ current.images[running].state = "confirmed"
  BY <1>2, SlotFacts, Zenon DEF IInv, Uploading, InFlight
<1>4. ~InFlight("engine")' /\ ~InFlight("control")' /\ journal'["engine"].status # "busy"
  BY <1>1, <1>2, <1>3, Zenon DEF InFlight
<1>5. /\ engine.offset \in Nat /\ engine.offset < Blocks /\ Blocks \in Nat
      /\ engine.reader = "header" => engine.offset = 0 \/ ClearFrom(engine.offset)
      /\ engine.reader = "released" => ClearFrom(engine.offset + 1)
  BY <1>1, Zenon DEF IInv, Writing, EngineStates, TypeOK, DeviceOK
<1>6. ASSUME engine' \in EngineStates, engine'.state = "aborting",
             engine'.requested = engine.requested, engine'.status = engine.status,
             UNCHANGED writer
      PROVE  IInv'
  BY <1>1, <1>6, GiveUpKeeps, Zenon
<1>7. CASE (To("aborting") \/ Fail) /\ UNCHANGED writer
  BY <1>1, <1>6, <1>7, ToIs, Zenon DEF Stages
<1>8. CASE /\ engine.reader = "released" /\ engine.offset + 1 < Blocks /\ UNCHANGED writer
           /\ engine' = [engine EXCEPT !.reader = "header", !.offset = engine.offset + 1,
                !.state = IF engine.received = engine.total THEN "aborting" ELSE @,
                !.abort_requested = engine.received = engine.total]
  <2>1. engine' \in EngineStates
    <3>1. engine.offset + 1 \in Nat /\ (engine.received = engine.total) \in BOOLEAN
      BY <1>5
    <3>2. (IF engine.received = engine.total THEN "aborting" ELSE engine.state) \in Stages
      BY <1>1, Zenon DEF Stages
    <3> QED
      BY <1>1, <1>8, <3>1, <3>2, Zenon DEF EngineStates
  <2>2. /\ engine'.state \in {"receiving", "aborting"}
        /\ engine'.requested = engine.requested /\ engine'.status = engine.status
        /\ engine'.reader = "header" /\ engine'.offset = engine.offset + 1
        /\ engine'.verify_offset = engine.verify_offset
    BY <1>1, <1>8, Zenon DEF EngineStates
  <2>3. CASE engine'.state = "receiving"
    <3>1. UploadOK' /\ AtRest'
      BY <1>2, <1>8, <2>1, Zenon DEF IInv, TypeOK, UploadOK, AtRest
    <3>2. ClearFrom(engine.offset)' /\ Blocks' = Blocks
      BY <1>1, <1>5, <1>8, <2>2, Zenon DEF ClearFrom, Destination, Blocks
    <3>3. Writing'
      BY <1>1, <1>2, <1>5, <1>8, <2>2, <2>3, <3>1, <3>2, Zenon DEF Writing
    <3>4. Uploading'
      BY <1>1, <1>2, <1>3, <1>4, <2>2, <2>3, Zenon DEF Uploading, Destination
    <3> QED
      BY <1>1, <3>1, <3>3, <3>4, EngineMoves, Zenon
  <2> QED
    BY <1>6, <1>8, <2>1, <2>2, <2>3, Zenon
<1>9. CASE To("verifying") /\ UNCHANGED writer
  <2>1. /\ engine' \in EngineStates /\ engine'.state = "verifying"
        /\ engine'.requested = engine.requested /\ engine'.status = engine.status
        /\ engine'.verify_offset = 0
    BY <1>1, <1>2, <1>9, ToIs, Zenon DEF Stages
  <2>2. UploadOK' /\ AtRest'
    BY <1>2, <1>9, <2>1, Zenon DEF IInv, TypeOK, UploadOK, AtRest
  <2>3. Writing'
    BY <1>1, <1>2, <2>1, <2>2, WriteIdleNext, Zenon
  <2>4. 0 < Blocks' /\ 0..(engine'.verify_offset - 1) = {}
    BY <1>1, <1>5, <2>1 DEF Blocks
  <2>5. Uploading'
    BY <1>1, <1>2, <1>3, <1>4, <2>1, <2>4, Zenon DEF Uploading, Destination
  <2> QED
    BY <1>1, <2>2, <2>3, <2>5, EngineMoves, Zenon
<1>10. CASE /\ engine.reader = "header" /\ WriterBegin(engine.offset, engine.rx)
            /\ op = NoOp
            /\ engine' = [engine EXCEPT !.state = "writing", !.rx = Erased,
                                        !.reader = "ready"]
  <2>1. engine' \in EngineStates
    BY <1>1, <1>10, Zenon DEF EngineStates, Stages, Data
  <2>2. /\ engine'.state = "writing" /\ engine'.requested = engine.requested
        /\ engine'.status = engine.status /\ engine'.offset = engine.offset
        /\ engine'.verify_offset = engine.verify_offset
    BY <1>1, <1>10, Zenon DEF EngineStates
  <2> DEFINE until == ErasedBefore(engine.offset)
  <2>3. /\ writer \in WriterStates
        /\ writer' = [writer EXCEPT !.offset = engine.offset, !.data = engine.rx,
                        !.erased_until = until, !.written = FALSE,
                        !.requested = TRUE, !.cancelled = FALSE, !.status = "busy"]
        /\ until \in Nat /\ (until = 0 \/ until = writer.erased_until)
        /\ engine.offset = 0 => until = 0
    BY <1>10, Zenon DEF WriterBegin, ErasedBefore, IInv, TypeOK, UploadOK, WriterStates
  <2> HIDE DEF until
  <2>4. writer' \in WriterStates
    <3>1. engine.rx \in Data
      BY <1>1, Zenon DEF EngineStates
    <3> QED
      BY <1>5, <2>3, <3>1, Zenon DEF WriterStates
  <2>5. /\ writer'.offset = engine.offset /\ writer'.erased_until = until
        /\ writer'.written = FALSE /\ writer'.status = "busy"
        /\ writer'.state = writer.state
    BY <2>3, Zenon DEF WriterStates
  <2>6. UploadOK' /\ AtRest'
    BY <2>1, <2>2, <2>4, <2>5, Zenon DEF UploadOK, AtRest
  <2>7. ClearFrom(engine.offset)'
    <3>1. CASE engine.offset = 0
      BY <1>1, <2>3, <2>5, <3>1, SlotFacts, Application
         DEF ClearFrom, Clear, Destination, IInv, TypeOK, DeviceOK
    <3>2. CASE engine.offset # 0
      <4>1. ClearFrom(engine.offset) /\ slots' = slots /\ Destination' = Destination
        BY <1>1, <1>5, <1>10, <3>2, Zenon DEF Destination
      <4>2. until = writer.erased_until
        BY <1>10, <3>2, <2>3, Zenon DEF until, ErasedBefore
      <4> QED
        BY <1>1, <2>2, <2>5, <4>1, <4>2, Zenon DEF ClearFrom
    <3> QED
      BY <3>1, <3>2, Zenon
  <2>8. Writing'
    <3>1. op'.kind = "none" /\ Blocks' = Blocks
      BY <1>1, <1>10, NothingTyped, Zenon DEF Blocks
    <3>2. writer'.state \in {"idle", "done", "failed"} /\ ~writer'.written
          /\ ClearFrom(writer.offset)'
      BY <1>2, <2>2, <2>5, <2>7, Zenon DEF ClearFrom
    <3> QED
      BY <1>5, <2>2, <2>5, <2>6, <3>1, <3>2, Zenon DEF Writing
  <2>9. Uploading'
    BY <1>1, <1>2, <1>3, <1>4, <2>2, Zenon DEF Uploading, Destination
  <2> QED
    BY <1>1, <2>6, <2>8, <2>9, EngineMoves, Zenon
<1> QED
  BY <1>7, <1>8, <1>9, <1>10, Zenon DEF TickReceiving, DeviceIdle

LEMMA TickVerifyingStep ==
  ASSUME IInv, TickVerifying, UNCHANGED case
  PROVE  IInv'
<1>1. /\ running # 2 /\ engine.state = "verifying" /\ engine \in EngineStates
      /\ UNCHANGED <<current, slots, op, running, boot, confirming, burnt, writer>>
  BY DEF IInv, TypeOK, UploadOK, TickVerifying, Foreground, system, history
<1>2. /\ Active /\ ~engine.requested /\ engine.status = "busy" /\ writer.status # "busy"
      /\ op.kind \notin {"erase", "program"} /\ op.kind \notin Owners
      /\ journal["engine"].status # "busy"
      /\ current.images[Destination].state = "incomplete"
      /\ current.images[running].state = "confirmed" /\ ~InFlight("control")
  BY <1>1, Zenon DEF Active, IInv, Uploading, Writing, AtRest
<1>3. /\ engine.verify_offset \in Nat /\ engine.verify_offset < Blocks /\ Blocks \in Nat
      /\ engine.verify_crc => \A b \in 0..(engine.verify_offset - 1) :
           slots[Destination][b] = engine.package
  BY <1>1, Zenon DEF IInv, Uploading, EngineStates, TypeOK, DeviceOK
<1> DEFINE at  == engine.verify_offset
           crc == engine.verify_crc /\ slots[Destination][at] = engine.package
<1>4. crc => \A b \in 0..at : slots[Destination][b] = engine.package
  <2> SUFFICES ASSUME crc, NEW b \in 0..at
               PROVE  slots[Destination][b] = engine.package
    BY Zenon
  <2>1. b = at \/ b \in 0..(at - 1)
    BY <1>3
  <2> QED
    BY <1>3, <2>1, Zenon
<1>5. CASE (To("aborting") \/ Fail) /\ UNCHANGED journal
  BY <1>1, <1>5, ToIs, GiveUpKeeps, Zenon DEF Stages
<1>6. CASE /\ at + 1 < Blocks /\ UNCHANGED journal
           /\ engine' = [engine EXCEPT !.verify_offset = at + 1, !.verify_crc = crc]
  <2>1. engine' \in EngineStates
    <3>1. at + 1 \in Nat /\ crc \in BOOLEAN
      BY <1>3
    <3> HIDE DEF at, crc
    <3> QED
      BY <1>1, <1>6, <3>1, Zenon DEF EngineStates
  <2>2. /\ engine'.state = "verifying" /\ engine'.requested = engine.requested
        /\ engine'.status = engine.status /\ engine'.package = engine.package
        /\ engine'.verify_offset = at + 1 /\ (engine'.verify_crc <=> crc)
    BY <1>1, <1>6, Zenon DEF EngineStates
  <2>3. UploadOK' /\ AtRest'
    BY <1>1, <1>2, <2>1, Zenon DEF IInv, TypeOK, UploadOK, Writing, AtRest
  <2>4. Writing'
    BY <1>1, <1>2, <2>2, <2>3, WriteIdleNext, Zenon
  <2>5. engine'.verify_crc => \A b \in 0..(engine'.verify_offset - 1) :
          slots'[Destination'][b] = engine'.package
    BY <1>1, <1>3, <1>4, <2>2 DEF Destination
  <2>6. ~InFlight("engine")' /\ ~InFlight("control")' /\ Blocks' = Blocks
    BY <1>1, <1>2, <1>6, SlotFacts, Zenon DEF InFlight, Blocks
  <2> HIDE DEF at, crc
  <2>7. Uploading'
    BY <1>1, <1>2, <1>6, <2>2, <2>5, <2>6, Zenon DEF Uploading, Destination, at
  <2> QED
    BY <1>1, <1>6, <2>3, <2>4, <2>7, EngineMoves, Zenon
<1>7. CASE at + 1 = Blocks /\ Matches(crc) /\ Commit(Installed, "committing")
  <2>1. Destination \in Slots /\ 1 - Destination = running /\ current \in Snapshot
        /\ Sound(current, slots, burnt) /\ Unburnt(current, burnt)
    BY <1>1, Application, Zenon
  <2>2. \A b \in DOMAIN slots[Destination] : slots[Destination][b] = engine.package
    <3>1. DOMAIN slots[Destination] = 0..(Blocks - 1)
      BY <2>1, Zenon DEF IInv, TypeOK, DeviceOK
    <3>2. Blocks - 1 = at
      BY <1>3, <1>7
    <3> QED
      BY <1>4, <1>7, <3>1, <3>2, Zenon DEF Matches
  <2>3. engine.package \in Packages /\ burnt \in SUBSET Nat
    BY <1>1, Zenon DEF EngineStates, IInv, TypeOK
  <2>4. /\ Installed \in Snapshot /\ Sound(Installed, slots, burnt)
        /\ Unburnt(Installed, burnt)
        /\ Installed.images[1 - Destination] = current.images[1 - Destination]
    <3>1. Installed = [counter |-> current.counter + 1, images |->
            [current.images EXCEPT ![Destination] =
               [installation |-> current.counter + 1, package |-> engine.package,
                state |-> "pending"]]]
      BY Zenon DEF Installed
    <3>2. current.images[1 - Destination].state = "confirmed"
      BY <1>2, <2>1, Zenon
    <3> QED
      BY <2>1, <2>2, <2>3, <3>1, <3>2, InstalledIs
  <2> QED
    BY <1>1, <1>2, <1>7, <2>1, <2>4, CommitKeeps, Zenon
<1> QED
  BY <1>5, <1>6, <1>7, Zenon DEF TickVerifying

\* The engine's Journal object ticks.
LEMMA TickMoves ==
  ASSUME IInv, running # 2, JournalTick("engine"), UploadOK', Uploading', Writing',
         UNCHANGED <<case, current, slots, running, boot, confirming, burnt>>
  PROVE  IInv'
<1>1. /\ DeviceOK' /\ Recorded' /\ Committing'
      /\ InFlight("control")' => InFlight("control")
      /\ journal'["control"] = journal["control"]
  BY TickKeeps, SlotFacts
<1>2. TypeOK' /\ Booting'
  BY <1>1, Zenon DEF IInv, TypeOK, SystemOK, Booting
<1>3. Running'
  BY <1>1, Zenon DEF IInv, Running, Destination
<1> QED
  BY <1>1, <1>2, <1>3, Zenon DEF IInv

\* What the commit under way has settled when its tick ends.
LEMMA EngineTicked ==
  ASSUME IInv, running # 2, JournalTick("engine"), writer.status # "busy",
         UNCHANGED <<case, current, slots, running, boot, confirming, burnt, writer>>
  PROVE  /\ Active /\ ~engine.requested /\ engine.status = "busy" /\ engine \in EngineStates
         /\ current'.images[running'].state = "confirmed" /\ ~InFlight("control")'
         /\ journal'["engine"].next.images[running'].state = "confirmed"
         /\ journal'["engine"].next = journal["engine"].next
         /\ journal'["engine"].status = "ok" =>
              current' = journal["engine"].next /\ op' = NoOp
         /\ op'.kind \notin {"erase", "program"}
         /\ writer'.status # "busy" /\ writer'.state \in {"idle", "done", "failed"}
<1>1. /\ InFlight("control")' => InFlight("control")
      /\ journal["engine"].status = "busy"
      /\ journal'["engine"].next = journal["engine"].next
      /\ journal'["engine"].status = "ok" => current = journal["engine"].next /\ op' = NoOp
      /\ op'.kind \notin {"erase", "program"}
  BY TickKeeps, SlotFacts, Zenon
<1>2. InFlight("engine") /\ engine.state \in {"invalidating", "committing", "aborting"}
  BY <1>1, Zenon DEF InFlight, IInv, Uploading
<1>3. Active
  BY <1>2, Zenon DEF Active
<1>4. /\ ~engine.requested /\ engine.status = "busy"
      /\ current.images[running].state = "confirmed" /\ ~InFlight("control")
      /\ journal["engine"].next.images[running].state = "confirmed"
  BY <1>2, <1>3, Zenon DEF IInv, Uploading
<1>5. engine \in EngineStates /\ writer.state \in {"idle", "done", "failed"}
  BY Zenon DEF IInv, TypeOK, UploadOK, Writing, AtRest
<1> QED
  BY <1>1, <1>3, <1>4, <1>5, Zenon

\* The upload goes on where it is, or is given up.
LEMMA TickStays ==
  ASSUME IInv, running # 2, JournalTick("engine"), writer.status # "busy",
         UNCHANGED <<case, current, slots, running, boot, confirming, burnt, writer>>,
         \/ UNCHANGED engine /\ (engine.state = "invalidating" =>
                                   journal'["engine"].status = "busy")
         \/ To("aborting") \/ Fail
  PROVE  IInv'
<1>1. /\ Active /\ ~engine.requested /\ engine.status = "busy" /\ engine \in EngineStates
      /\ current'.images[running'].state = "confirmed" /\ ~InFlight("control")'
      /\ journal'["engine"].next.images[running'].state = "confirmed"
      /\ journal'["engine"].next = journal["engine"].next
      /\ op'.kind \notin {"erase", "program"}
      /\ writer'.status # "busy" /\ writer'.state \in {"idle", "done", "failed"}
  BY EngineTicked, Zenon
<1>2. engine.state \in {"invalidating", "committing", "aborting"}
  BY TickKeeps, SlotFacts, Zenon DEF IInv, Uploading
<1>3. /\ engine' \in EngineStates /\ engine'.requested = engine.requested
      /\ engine'.status = engine.status
      /\ engine'.verify_offset = engine.verify_offset
      /\ \/ engine'.state = "aborting"
         \/ engine'.state = engine.state /\ (engine.state = "invalidating" =>
                                               journal'["engine"].status = "busy")
  <2>1. CASE To("aborting") \/ Fail
    BY <1>1, <2>1, ToIs, Zenon DEF Stages
  <2> QED
    BY <1>1, <2>1, Zenon
<1>4. UploadOK' /\ AtRest'
  BY <1>1, <1>3, Zenon DEF IInv, TypeOK, UploadOK, AtRest
<1>5. Writing'
  BY <1>1, <1>2, <1>3, <1>4, WriteIdleNext, Zenon
<1>6. engine.state = "invalidating" =>
        /\ engine.verify_offset = 0
        /\ journal["engine"].next.images[Destination].state = "incomplete"
  BY Zenon DEF IInv, Uploading
<1>7. Uploading'
  BY <1>1, <1>2, <1>3, <1>6, Zenon DEF Uploading, Destination
<1> QED
  BY <1>4, <1>5, <1>7, TickMoves, Zenon

\* The upload ends with the commit.
LEMMA TickEnds ==
  ASSUME IInv, running # 2, JournalTick("engine"), writer.status # "busy",
         UNCHANGED <<case, current, slots, running, boot, confirming, burnt, writer>>,
         NEW stage \in {"done", "failed"}, NEW status \in {"ok", "failed"},
         Ends(stage, status), journal'["engine"].status # "busy"
  PROVE  IInv'
<1>1. /\ engine \in EngineStates
      /\ current'.images[running'].state = "confirmed" /\ ~InFlight("control")'
      /\ journal'["engine"].next.images[running'].state = "confirmed"
      /\ op'.kind \notin {"erase", "program"}
      /\ writer'.status # "busy" /\ writer'.state \in {"idle", "done", "failed"}
  BY EngineTicked, Zenon
<1>2. /\ engine' \in EngineStates /\ engine'.state = stage /\ engine'.status = status
      /\ ~engine'.requested
  BY <1>1, EndsIs, Zenon
<1>3. UploadOK' /\ AtRest'
  BY <1>1, <1>2, Zenon DEF IInv, TypeOK, UploadOK, AtRest
<1>4. Writing'
  BY <1>1, <1>2, <1>3, WriteIdleNext, Zenon
<1>5. ~Active'
  BY <1>2, Zenon DEF Active
<1>6. Uploading'
  BY <1>1, <1>2, <1>5, Zenon DEF Uploading
<1> QED
  BY <1>3, <1>4, <1>6, TickMoves, Zenon

LEMMA TickInvalidatingStep ==
  ASSUME IInv, TickInvalidating, UNCHANGED case
  PROVE  IInv'
<1>1. /\ running # 2 /\ engine.state = "invalidating" /\ JournalTick("engine")
      /\ UNCHANGED <<current, slots, running, boot, confirming, burnt, writer>>
  BY DEF TickInvalidating, Foreground, system, history
<1>2. writer.status # "busy"
  BY <1>1, Zenon DEF IInv, Writing, AtRest
<1>3. CASE To("aborting")
  BY <1>1, <1>2, <1>3, TickStays, Zenon
<1>4. CASE journal'["engine"].status = "busy" /\ UNCHANGED engine
  BY <1>1, <1>2, <1>4, TickStays, Zenon
<1>5. CASE journal'["engine"].status # "busy" /\ Ends("failed", "failed")
  BY <1>1, <1>2, <1>5, TickEnds, Zenon
<1>6. CASE journal'["engine"].status = "ok"
           /\ engine' = [engine EXCEPT !.state = "receiving", !.reader = "header",
                                       !.offset = 0]
  <2>1. /\ Active /\ ~engine.requested /\ engine.status = "busy" /\ engine \in EngineStates
        /\ current'.images[running'].state = "confirmed" /\ ~InFlight("control")'
        /\ current' = journal["engine"].next /\ op' = NoOp
        /\ op'.kind = "none"
        /\ writer'.status # "busy" /\ writer'.state \in {"idle", "done", "failed"}
    BY <1>1, <1>2, <1>6, EngineTicked, NothingTyped, Zenon
  <2>2. engine' \in EngineStates
    BY <1>6, <2>1, Zenon DEF EngineStates, Stages
  <2>3. /\ engine'.state = "receiving" /\ engine'.requested = engine.requested
        /\ engine'.status = engine.status /\ engine'.reader = "header"
        /\ engine'.offset = 0 /\ engine'.verify_offset = engine.verify_offset
    BY <1>6, <2>1, Zenon DEF EngineStates
  <2>4. UploadOK' /\ AtRest'
    BY <1>1, <2>1, <2>2, Zenon DEF IInv, TypeOK, UploadOK, AtRest
  <2>5. 0 < Blocks'
    BY <1>1 DEF Blocks, IInv, TypeOK, DeviceOK
  <2>6. Writing'
    BY <2>1, <2>3, <2>4, <2>5, Zenon DEF Writing
  <2>7. /\ engine.verify_offset = 0
        /\ journal["engine"].next.images[Destination].state = "incomplete"
    BY <1>1, Zenon DEF IInv, Uploading
  <2>8. ~InFlight("engine")'
    BY <1>6, <2>1, Zenon DEF InFlight
  <2>9. Uploading'
    BY <1>1, <1>6, <2>1, <2>3, <2>7, <2>8, Zenon DEF Uploading, Destination, Owners
  <2> QED
    BY <1>1, <2>4, <2>6, <2>9, TickMoves, Zenon
<1> QED
  BY <1>3, <1>4, <1>5, <1>6, Zenon DEF TickInvalidating, Invalidated

LEMMA TickCommittingStep ==
  ASSUME IInv, TickCommitting, UNCHANGED case
  PROVE  IInv'
<1>1. /\ running # 2 /\ engine.state = "committing" /\ JournalTick("engine")
      /\ UNCHANGED <<current, slots, running, boot, confirming, burnt, writer>>
  BY DEF TickCommitting, Foreground, system, history
<1>2. writer.status # "busy"
  BY <1>1, Zenon DEF IInv, Writing, AtRest
<1>3. CASE To("aborting") \/ Fail \/ UNCHANGED engine
  BY <1>1, <1>2, <1>3, TickStays, Zenon
<1>4. CASE journal'["engine"].status = "ok" /\ Ends("done", "ok")
  BY <1>1, <1>2, <1>4, TickEnds, Zenon
<1> QED
  BY <1>3, <1>4, Zenon DEF TickCommitting

\* One tick of the writer, by what it does.
WriterSame(w)      == /\ op' = op /\ writer'.erased_until = w.erased_until
                      /\ writer'.written = w.written /\ writer'.result = w.result
                      /\ writer'.status = w.status
WriterArms(w)      == /\ w.state \in {"idle", "done", "failed"} /\ WriterSame(w)
                      /\ writer'.state \in {"prepare", w.state}
WriterDelivers(w)  == /\ w.state = "prepare" /\ w.written /\ writer'.status = "ok"
                      /\ op' = op /\ writer'.erased_until = w.erased_until
                      /\ writer'.state = "done"
WriterGivesUp(w)   == /\ op' = op /\ writer'.status \in {"failed", "rejected"}
                      /\ writer'.state \in {"done", "failed"}
WriterStarts(w, k) == /\ w.state = "prepare" /\ ~w.written /\ ~w.cancelled
                      /\ op = NoOp /\ op'.kind = k
                      /\ op'.slot = Destination /\ op'.block = w.offset
                      /\ writer'.status = w.status
WriterErases(w)    == /\ WriterStarts(w, "erase") /\ writer'.state = "erase_wait"
                      /\ writer'.erased_until = SectorEnd(w.offset)
WriterPrograms(w)  == /\ WriterStarts(w, "program") /\ writer'.state = "program_wait"
                      /\ w.offset < w.erased_until
                      /\ writer'.erased_until = w.erased_until
WriterPasses(w)    == /\ w.state \in {"erase_wait", "program_wait"}
                      /\ op = NoOp /\ op' = op /\ w.result = "ok"
                      /\ writer'.state = "prepare" /\ writer'.status = w.status
                      /\ writer'.written = (w.state = "program_wait")
                      /\ writer'.erased_until = w.erased_until

LEMMA WriterEndsIs ==
  ASSUME NEW w \in WriterStates, NEW state \in {"done", "failed"},
         NEW status \in {"ok", "failed", "rejected"}, WriterEnds(w, state, status)
  PROVE  /\ writer' \in WriterStates /\ writer'.state = state /\ writer'.status = status
         /\ writer'.offset = w.offset /\ writer'.erased_until = w.erased_until
         /\ op' = op
<1>1. writer' \in WriterStates
  BY Zenon DEF WriterEnds, WriterStates
<1> QED
  BY <1>1, Zenon DEF WriterEnds, WriterStates

LEMMA SectorEndTyped ==
  ASSUME NEW n \in Nat
  PROVE  SectorEnd(n) \in Nat
<1>1. n \div SectorBlocks \in Nat /\ SectorBlocks \in Nat
  BY CaseAssumption
<1> QED
  BY <1>1 DEF SectorEnd

LEMMA WriterTickIs ==
  ASSUME NEW w \in WriterStates, w.status = "busy", Destination \in Slots,
         op \in Operations, op.kind = "none" => op = NoOp, WriterTick(w)
  PROVE  /\ writer' \in WriterStates /\ writer'.offset = w.offset
         /\ op' \in Operations /\ (op'.kind = "none" => op' = NoOp)
         /\ \/ WriterArms(w) \/ WriterDelivers(w) \/ WriterGivesUp(w)
            \/ WriterErases(w) \/ WriterPrograms(w) \/ WriterPasses(w)
            \/ op # NoOp /\ op' = op /\ writer' = w
<1> USE DEF WriterSame, WriterArms, WriterDelivers, WriterGivesUp, WriterStarts,
            WriterErases, WriterPrograms, WriterPasses
<1>1. CASE w.state \in {"idle", "done", "failed"}
  <2>1. /\ writer' = [w EXCEPT !.requested = FALSE,
                        !.state = IF w.requested THEN "prepare" ELSE @]
        /\ op' = op
    BY <1>1, Zenon DEF WriterTick
  <2>2. writer' \in WriterStates
    BY <2>1, Zenon DEF WriterStates
  <2>3. /\ writer'.offset = w.offset /\ writer'.erased_until = w.erased_until
        /\ writer'.result = w.result /\ writer'.status = w.status
        /\ writer'.written = w.written /\ writer'.state \in {"prepare", w.state}
    BY <2>1, Zenon DEF WriterStates
  <2> QED
    BY <1>1, <2>1, <2>2, <2>3, Zenon
<1>2. CASE w.state = "prepare"
  <2>1. WriterPrepare(w)
    BY <1>2, Zenon DEF WriterTick
  <2>2. CASE w.cancelled \/ w.written
    BY <1>2, <2>1, <2>2, WriterEndsIs, Zenon DEF WriterPrepare
  <2>3. CASE ~w.cancelled /\ ~w.written
    <3> DEFINE erase == w.offset >= w.erased_until
               next  == IF erase THEN [w EXCEPT !.erased_until = SectorEnd(w.offset)]
                                 ELSE w
               until == IF erase THEN SectorEnd(w.offset) ELSE w.erased_until
    <3>1. \/ WriterEnds(next, "failed", "failed")
          \/ /\ op = NoOp
             /\ op' = [kind |-> IF erase THEN "erase" ELSE "program",
                       slot |-> Destination, block |-> w.offset, value |-> w.data]
             /\ writer' = [next EXCEPT !.state =
                             IF erase THEN "erase_wait" ELSE "program_wait"]
      BY <2>1, <2>3, Zenon DEF WriterPrepare, DeviceIdle
    <3>2. w.offset \in Nat /\ w.erased_until \in Nat /\ w.data \in Data
          /\ SectorEnd(w.offset) \in Nat
      BY SectorEndTyped, Zenon DEF WriterStates
    <3>3. /\ next \in WriterStates /\ next.erased_until = until
          /\ next.offset = w.offset /\ next.status = w.status
      <4>1. CASE erase
        <5>1. next \in WriterStates
          BY <3>2, <4>1, Zenon DEF WriterStates
        <5> QED
          BY <4>1, <5>1, Zenon DEF WriterStates
      <4> QED
        BY <4>1, Zenon
    <3>4. CASE WriterEnds(next, "failed", "failed")
      <4> HIDE DEF next
      <4> QED
        BY <3>3, <3>4, WriterEndsIs, Zenon
    <3>5. CASE /\ op = NoOp
               /\ op' = [kind |-> IF erase THEN "erase" ELSE "program",
                         slot |-> Destination, block |-> w.offset, value |-> w.data]
               /\ writer' = [next EXCEPT !.state =
                               IF erase THEN "erase_wait" ELSE "program_wait"]
      <4>1. op' \in Operations
        BY <3>2, <3>5, Zenon DEF Operations
      <4>2. /\ op'.kind = (IF erase THEN "erase" ELSE "program")
            /\ op'.slot = Destination /\ op'.block = w.offset
        BY <3>5, Zenon
      <4> HIDE DEF next
      <4>3. writer' \in WriterStates
        BY <3>3, <3>5, Zenon DEF WriterStates
      <4>4. /\ writer'.offset = w.offset /\ writer'.status = w.status
            /\ writer'.erased_until = until
            /\ writer'.state = (IF erase THEN "erase_wait" ELSE "program_wait")
        BY <3>3, <3>5, Zenon DEF WriterStates
      <4> QED
        BY <1>2, <2>3, <3>2, <3>5, <4>1, <4>2, <4>3, <4>4
    <3> QED
      BY <3>1, <3>4, <3>5, Zenon
  <2> QED
    BY <2>2, <2>3, Zenon
<1>3. CASE w.state \in {"erase_wait", "program_wait"}
  <2>1. WriterWait(w)
    BY <1>3, Zenon DEF WriterTick
  <2>2. CASE op # NoOp /\ writer' = w /\ UNCHANGED op
    BY <2>2, Zenon
  <2>3. CASE WriterEnds(w, "failed", "failed") \/ WriterEnds(w, "done", "rejected")
    BY <2>3, WriterEndsIs, Zenon
  <2>4. CASE /\ op = NoOp /\ w.result # "error" /\ UNCHANGED op
             /\ writer' = [w EXCEPT !.state = "prepare",
                                    !.written = w.state = "program_wait"]
    <3>1. (w.state = "program_wait") \in BOOLEAN
      BY Zenon
    <3>2. writer' \in WriterStates
      BY <2>4, <3>1, Zenon DEF WriterStates
    <3>3. /\ writer'.offset = w.offset /\ writer'.status = w.status
          /\ writer'.erased_until = w.erased_until /\ writer'.state = "prepare"
          /\ writer'.written = (w.state = "program_wait") /\ w.result = "ok"
      BY <2>4, Zenon DEF WriterStates
    <3> QED
      BY <1>3, <2>4, <3>2, <3>3, Zenon
  <2> QED
    BY <2>1, <2>2, <2>3, <2>4, Zenon DEF WriterWait, DeviceIdle
<1> QED
  BY <1>1, <1>2, <1>3, Zenon DEF WriterStates

LEMMA TickAbortingStep ==
  ASSUME IInv, TickAborting, UNCHANGED case
  PROVE  IInv'
<1>1. /\ running # 2 /\ engine.state = "aborting" /\ engine \in EngineStates
      /\ writer \in WriterStates
      /\ UNCHANGED <<current, slots, running, boot, confirming, burnt>>
  BY DEF IInv, TypeOK, UploadOK, TickAborting, Foreground, system, history
<1>2. /\ Active /\ Destination \in Slots /\ 1 - Destination = running
      /\ Destination # running /\ current \in Snapshot
      /\ Sound(current, slots, burnt) /\ Unburnt(current, burnt)
  BY <1>1, Application, Zenon DEF Active
<1>3. CASE /\ writer.status = "busy" /\ UNCHANGED <<engine, journal>>
           /\ WriterTick([writer EXCEPT !.cancelled = TRUE])
  <2> DEFINE w == [writer EXCEPT !.cancelled = TRUE]
  <2>1. w \in WriterStates
    BY <1>1, Zenon DEF WriterStates
  <2>2. w.status = "busy" /\ w.cancelled
    BY <1>1, <1>3, Zenon DEF WriterStates
  <2>3. WriterTick(w)
    BY <1>3, Zenon
  <2> HIDE DEF w
  <2>4. op \in Operations /\ (op.kind = "none" => op = NoOp)
    BY Zenon DEF IInv, TypeOK, DeviceOK
  <2>5. /\ writer' \in WriterStates /\ op' = op
        /\ writer'.status # "busy" => writer'.state \in {"done", "failed"}
    BY <1>2, <2>1, <2>2, <2>3, <2>4, WriterTickIs, Zenon
       DEF WriterSame, WriterArms, WriterDelivers, WriterGivesUp, WriterStarts,
           WriterErases, WriterPrograms, WriterPasses
  <2>6. UploadOK' /\ AtRest'
    BY <1>1, <1>3, <2>5, Zenon DEF UploadOK, AtRest
  <2>7. Writing'
    BY <1>1, <1>3, <2>5, <2>6, Zenon DEF IInv, Writing, Destination
  <2>8. Uploading'
    BY <1>1, <1>3, <2>5, Zenon DEF IInv, Uploading, InFlight, Active, Destination
  <2> QED
    BY <1>1, <1>3, <2>5, <2>6, <2>7, <2>8, EngineMoves, Zenon
<1>4. CASE writer.status # "busy" /\ JournalTick("engine") /\ UNCHANGED <<engine, writer>>
  BY <1>1, <1>4, TickStays, Zenon
<1>5. CASE /\ writer.status # "busy" /\ journal["engine"].status # "busy"
           /\ op = NoOp /\ UNCHANGED <<op, writer>>
           /\ current.images[Destination].state = "pending"
           /\ Commit(WithState(current, Destination, "incomplete"), "aborting")
  <2> DEFINE next == WithState(current, Destination, "incomplete")
  <2>1. next \in Snapshot /\ next.images[running].state = current.images[running].state
    BY <1>2, WithStateIs, SlotFacts DEF ImageStates
  <2>2. current.images[running].state = "confirmed"
    BY <1>2, Zenon DEF IInv, Uploading
  <2>3. Sound(next, slots, burnt)
    BY <1>2, <2>2, SoundWithState, Zenon DEF ImageStates, Bootable
  <2>4. Unburnt(next, burnt)
    BY <1>2, UnburntWithState, Zenon DEF ImageStates
  <2> HIDE DEF next
  <2>5. Commit(next, "aborting")
    BY <1>5, Zenon DEF next
  <2> QED
    BY <1>1, <1>2, <1>5, <2>1, <2>2, <2>3, <2>4, <2>5, CommitKeeps, Zenon
<1>6. ASSUME NEW status \in {"failed", "aborted"}, Ends("failed", status),
             writer.status # "busy", journal["engine"].status # "busy",
             op = NoOp, UNCHANGED <<op, writer, journal>>,
             status = "aborted" => current.images[Destination].state # "pending"
      PROVE  IInv'
  BY <1>1, <1>6, EndsKeeps, NothingTyped, Zenon
<1> QED
  BY <1>3, <1>4, <1>5, <1>6, Zenon DEF TickAborting, NeedsInvalidation, DeviceIdle

\* The writer starts an operation while nothing is being committed.
LEMMA WriterMoves ==
  ASSUME IInv, running # 2, engine.state = "writing",
         op' \in Operations, op'.kind = "none" => op' = NoOp,
         op' = op \/ op'.kind \in {"erase", "program"},
         UploadOK', Uploading', Writing',
         UNCHANGED <<case, current, slots, journal, running, boot, confirming, burnt>>
  PROVE  IInv'
<1>1. /\ op.kind \notin Owners /\ op'.kind \notin Owners
      /\ \A o \in Owners : journal[o].status # "busy"
  BY Zenon DEF IInv, Uploading, Active, InFlight, Owners
<1>2. TypeOK'
  BY Zenon DEF IInv, TypeOK, DeviceOK, SystemOK, Blocks
<1>3. Recorded' /\ Committing'
  BY <1>1, Zenon DEF IInv, Recorded, Committing, InFlight, Ending, Owners
<1>4. Booting' /\ Running'
  BY <1>1, SlotFacts, Zenon DEF IInv, Booting, Running, InFlight, Destination
<1> QED
  BY <1>2, <1>3, <1>4, Zenon DEF IInv

LEMMA TickWritingStep ==
  ASSUME IInv, TickWriting, UNCHANGED case
  PROVE  IInv'
<1>1. /\ running # 2 /\ engine.state = "writing" /\ engine \in EngineStates
      /\ writer \in WriterStates
      /\ UNCHANGED <<current, slots, journal, running, boot, confirming, burnt>>
  BY DEF IInv, TypeOK, UploadOK, TickWriting, Foreground, system, history
<1>2. /\ Active /\ ~engine.requested /\ engine.status = "busy"
      /\ op.kind \notin Owners /\ engine.verify_offset = 0
      /\ current.images[Destination].state = "incomplete"
      /\ current.images[running].state = "confirmed"
      /\ journal["engine"].status # "busy" /\ journal["control"].status # "busy"
  BY <1>1, Zenon DEF Active, IInv, Uploading, InFlight
<1>3. /\ Destination \in Slots /\ op \in Operations /\ (op.kind = "none" => op = NoOp)
      /\ DOMAIN slots[Destination] = 0..(Blocks - 1) /\ Blocks \in Nat
  BY <1>1, Application, Zenon DEF IInv, TypeOK, DeviceOK
<1>4. /\ writer.status = "busy" /\ writer.offset = engine.offset /\ writer.offset \in Nat
      /\ engine.offset < Blocks
  BY <1>1, Zenon DEF IInv, Writing, WriterStates
<1>5. ASSUME op'.kind \notin Owners, engine'.requested = engine.requested,
             engine'.status = engine.status, engine'.verify_offset = engine.verify_offset,
             engine'.state \in {"receiving", "writing", "aborting"}
      PROVE  Uploading'
  <2>1. ~InFlight("engine")' /\ ~InFlight("control")'
    BY <1>1, <1>2, <1>5, Zenon DEF InFlight, Owners
  <2> QED
    BY <1>1, <1>2, <1>5, <2>1, Zenon DEF Uploading, Destination, InFlight
<1>6. /\ op.kind = "erase" => writer.state = "erase_wait"
      /\ op.kind = "program" => writer.state = "program_wait"
                                /\ slots[op.slot][op.block] = Erased
      /\ op.kind \in {"erase", "program"} => op.slot = Destination
  BY <1>1, Zenon DEF IInv, Writing
<1>7. ASSUME engine' \in EngineStates, engine'.state = "aborting",
             engine'.requested = engine.requested, engine'.status = engine.status,
             engine'.verify_offset = engine.verify_offset, op' = op,
             writer' \in WriterStates,
             writer'.status = "busy" \/ writer'.state \in {"done", "failed"}
      PROVE  IInv'
  <2>1. UploadOK' /\ AtRest'
    BY <1>7, Zenon DEF UploadOK, AtRest
  <2>2. Writing'
    BY <1>1, <1>2, <1>6, <1>7, <2>1, Zenon DEF Writing, Destination
  <2> QED
    BY <1>1, <1>2, <1>5, <1>7, <2>1, <2>2, EngineMoves, Zenon
<1>8. CASE Stopped
  <2>1. To("aborting") /\ op' = op /\ writer' = [writer EXCEPT !.cancelled = TRUE]
    BY <1>8, Zenon DEF TickWriting
  <2>2. writer' \in WriterStates
    BY <1>1, <2>1, Zenon DEF WriterStates
  <2>3. writer'.status = "busy"
    BY <1>1, <1>4, <2>1, Zenon DEF WriterStates
  <2> QED
    BY <1>1, <1>7, <2>1, <2>2, <2>3, ToIs, Zenon DEF Stages
<1>9. CASE ~Stopped
  <2>1. /\ WriterTick(writer)
        /\ writer'.status = "busy" => UNCHANGED engine
        /\ writer'.status = "ok" =>
             engine' = [engine EXCEPT !.state = "receiving", !.reader = "released"]
        /\ writer'.status \notin {"busy", "ok"} => Fail
    BY <1>9, Zenon DEF TickWriting
  <2>2. /\ writer' \in WriterStates /\ writer'.offset = writer.offset
        /\ op' \in Operations /\ (op'.kind = "none" => op' = NoOp)
        /\ \/ WriterArms(writer) \/ WriterDelivers(writer) \/ WriterGivesUp(writer)
           \/ WriterErases(writer) \/ WriterPrograms(writer) \/ WriterPasses(writer)
           \/ op # NoOp /\ op' = op /\ writer' = writer
    BY <1>1, <1>3, <1>4, <2>1, WriterTickIs, Zenon
  \* The engine waits.
  <2>3. ASSUME writer'.status = "busy",
               op' = op \/ op'.kind \in {"erase", "program"}, Writing'
        PROVE  IInv'
    <3>1. engine' = engine /\ op'.kind \notin Owners
      BY <1>2, <2>1, <2>3, Zenon DEF Owners
    <3>2. UploadOK' /\ Uploading'
      BY <1>1, <1>5, <2>2, <3>1, Zenon DEF UploadOK
    <3> QED
      BY <1>1, <2>2, <2>3, <3>2, WriterMoves, Zenon
  <2>4. ClearFrom(writer.offset) => ClearFrom(writer.offset + 1)
    BY <1>1, <1>3, <1>4 DEF ClearFrom, Clear, WriterStates
  <2>5. /\ writer'.erased_until = writer.erased_until =>
             /\ ClearFrom(writer.offset) => ClearFrom(writer.offset)'
             /\ ClearFrom(writer.offset + 1) => ClearFrom(writer.offset + 1)'
        /\ Blocks' = Blocks /\ Destination' = Destination
    BY <1>1, <2>2, Zenon DEF ClearFrom, Blocks, Destination
  <2>6. CASE WriterArms(writer)
    <3>1. /\ writer.state \in {"idle", "done", "failed"} /\ op' = op
          /\ writer'.status = "busy" /\ ~writer.written /\ ~writer'.written
          /\ ClearFrom(writer.offset)' /\ writer'.state \in {"idle", "done", "failed", "prepare"}
      BY <1>1, <1>4, <2>5, <2>6, Zenon DEF WriterArms, WriterSame, IInv, Writing
    <3>2. op.kind \notin {"erase", "program"} /\ engine' = engine
      BY <1>6, <2>1, <3>1, Zenon
    <3>3. Writing'
      BY <1>1, <1>2, <1>4, <2>2, <2>5, <3>1, <3>2, Zenon DEF Writing, AtRest
    <3> QED
      BY <2>3, <3>1, <3>3, Zenon
  <2>7. CASE WriterDelivers(writer)
    <3>1. /\ writer.state = "prepare" /\ writer'.status = "ok" /\ op' = op
          /\ writer'.state = "done" /\ ClearFrom(writer.offset + 1)'
      BY <1>1, <2>5, <2>7, Zenon DEF WriterDelivers, IInv, Writing
    <3>2. op.kind \notin {"erase", "program"}
      BY <1>6, <3>1, Zenon
    <3>3. engine' = [engine EXCEPT !.state = "receiving", !.reader = "released"]
      BY <2>1, <3>1, Zenon
    <3>4. engine' \in EngineStates
      BY <1>1, <3>3, Zenon DEF EngineStates, Stages
    <3>5. /\ engine'.state = "receiving" /\ engine'.requested = engine.requested
          /\ engine'.status = engine.status /\ engine'.reader = "released"
          /\ engine'.offset = engine.offset
          /\ engine'.verify_offset = engine.verify_offset
      BY <1>1, <3>3, Zenon DEF EngineStates
    <3>6. UploadOK' /\ AtRest' /\ Uploading'
      BY <1>2, <1>5, <2>2, <3>1, <3>4, <3>5, Zenon DEF UploadOK, AtRest
    <3>7. ClearFrom(engine.offset + 1)'
      BY <1>4, <2>2, <3>1, <3>5, Zenon DEF ClearFrom
    <3>8. Writing'
      BY <1>4, <2>5, <3>1, <3>2, <3>5, <3>6, <3>7, Zenon DEF Writing
    <3> QED
      BY <1>1, <3>1, <3>6, <3>8, EngineMoves, Zenon
  <2>8. CASE WriterGivesUp(writer)
    BY <1>1, <1>7, <2>1, <2>2, <2>8, ToIs, Zenon DEF WriterGivesUp, Stages
  <2>9. CASE WriterErases(writer)
    <3>1. /\ op'.kind = "erase" /\ op'.slot = Destination /\ op'.block = writer.offset
          /\ writer'.status = "busy" /\ writer'.state = "erase_wait"
          /\ writer'.erased_until = SectorEnd(writer'.offset)
      BY <1>4, <2>2, <2>9, Zenon DEF WriterErases, WriterStarts
    <3>2. engine' = engine /\ op' # NoOp
      BY <2>1, <3>1, NothingTyped, Zenon
    <3>3. writer'.erased_until = SectorEnd(writer.offset)'
      BY <3>1, Zenon DEF SectorEnd
    <3>4. Writing'
      BY <1>1, <1>2, <1>4, <2>2, <2>5, <3>1, <3>2, <3>3, Zenon DEF Writing, AtRest
    <3> QED
      BY <2>3, <3>1, <3>4, Zenon
  <2>10. CASE WriterPrograms(writer)
    <3>1. /\ op'.kind = "program" /\ op'.slot = Destination /\ op'.block = writer.offset
          /\ writer'.status = "busy" /\ writer'.state = "program_wait"
          /\ writer.offset < writer.erased_until
          /\ writer'.erased_until = writer.erased_until
          /\ ClearFrom(writer.offset)
      BY <1>1, <1>4, <2>2, <2>10, Zenon DEF WriterPrograms, WriterStarts, IInv, Writing
    <3>2. engine' = engine
      BY <2>1, <3>1, Zenon
    <3>3. slots'[op'.slot][op'.block] = Erased
      BY <1>1, <1>3, <1>4, <3>1 DEF ClearFrom, Clear
    <3>4. ClearFrom(writer.offset + 1)'
      BY <2>4, <2>5, <3>1, Zenon
    <3>5. Writing'
      BY <1>1, <1>2, <1>4, <2>2, <2>5, <3>1, <3>2, <3>3, <3>4, Zenon DEF Writing, AtRest
    <3> QED
      BY <2>3, <3>1, <3>5, Zenon
  <2>11. CASE WriterPasses(writer)
    <3>1. /\ op = NoOp /\ op' = op /\ writer'.status = "busy" /\ writer'.state = "prepare"
          /\ IF writer'.written THEN ClearFrom(writer.offset + 1)'
                                ELSE ClearFrom(writer.offset)'
      BY <1>1, <1>4, <2>5, <2>11, Zenon DEF WriterPasses, IInv, Writing
    <3>2. op'.kind = "none" /\ engine' = engine
      BY <2>1, <3>1, NothingTyped, Zenon
    <3>3. Writing'
      BY <1>1, <1>4, <2>2, <2>5, <3>1, <3>2, Zenon DEF Writing, AtRest
    <3> QED
      BY <2>3, <3>1, <3>3, Zenon
  <2>12. CASE op' = op /\ writer' = writer
    <3>1. engine' = engine
      BY <1>4, <2>1, <2>12, Zenon
    <3> QED
      BY <1>1, <2>12, <3>1, Unseen, Zenon DEF seen
  <2> QED
    BY <2>2, <2>6, <2>7, <2>8, <2>9, <2>10, <2>11, <2>12, Zenon
<1> QED
  BY <1>8, <1>9, Zenon

LEMMA SameSector ==
  ASSUME NEW n \in Nat, NEW b \in Nat, n <= b, b < SectorEnd(n)
  PROVE  SectorEnd(b) = SectorEnd(n)
<1> DEFINE q == n \div SectorBlocks
           p == b \div SectorBlocks
<1>1. SectorBlocks \in Nat /\ SectorBlocks > 0
  BY CaseAssumption
<1>2. q \in Nat /\ SectorBlocks * q <= n
  BY <1>1
<1>3. p \in Nat /\ SectorBlocks * p <= b /\ b < SectorBlocks * (p + 1)
  BY <1>1
<1>4. SectorEnd(n) = (q + 1) * SectorBlocks
  BY Zenon DEF SectorEnd
<1> HIDE DEF q, p
<1>5. p = q
  <2>1. SectorBlocks * p < SectorBlocks * (q + 1)
    BY <1>1, <1>2, <1>3, <1>4
  <2>2. SectorBlocks * q < SectorBlocks * (p + 1)
    BY <1>1, <1>2, <1>3
  <2>3. ASSUME NEW x \in Nat, NEW y \in Nat, SectorBlocks * x < SectorBlocks * y
        PROVE  x < y
    BY <1>1, <2>3
  <2>4. p < q + 1 /\ q < p + 1
    BY <1>2, <1>3, <2>1, <2>2, <2>3
  <2> QED
    BY <1>2, <1>3, <2>4
<1> QED
  BY <1>5, Zenon DEF SectorEnd, q, p

\* What a flash operation leaves of the slots.
LEMMA WrittenIs ==
  ASSUME IInv, NEW done \in BOOLEAN, NEW next, next = Written(done)
  PROVE  /\ next \in [Slots -> [0..(Blocks - 1) -> Data \cup {Bad}]]
         /\ \A s \in Slots : op.kind \notin {"erase", "program"} \/ s # op.slot =>
              next[s] = slots[s]
         /\ op.kind = "erase" /\ done =>
              \A b \in 0..(Blocks - 1) :
                SectorEnd(b) = SectorEnd(op.block) => next[op.slot][b] = Erased
         /\ op.kind = "program" =>
              \A b \in 0..(Blocks - 1) : b # op.block =>
                next[op.slot][b] = slots[op.slot][b]
<1>1. /\ slots \in [Slots -> [0..(Blocks - 1) -> Data \cup {Bad}]]
      /\ op.slot \in Slots /\ op.value \in Data
  BY Zenon DEF IInv, TypeOK, DeviceOK, Operations
<1> DEFINE cell(s, b) ==
             CASE op.kind = "erase" /\ s = op.slot /\ b \in InSector(op.block) ->
                    IF done THEN Erased ELSE Bad
               [] op.kind = "program" /\ s = op.slot /\ b = op.block ->
                    IF done /\ slots[s][b] = Erased THEN op.value ELSE Bad
               [] OTHER -> slots[s][b]
<1>2. next = [s \in Slots |-> [b \in 0..(Blocks - 1) |-> cell(s, b)]]
  BY Zenon DEF Written
<1>3. ASSUME NEW s \in Slots, NEW b \in 0..(Blocks - 1)
      PROVE  /\ cell(s, b) \in Data \cup {Bad}
             /\ op.kind \notin {"erase", "program"} \/ s # op.slot =>
                  cell(s, b) = slots[s][b]
             /\ op.kind = "erase" /\ done /\ SectorEnd(b) = SectorEnd(op.block)
                /\ s = op.slot => cell(s, b) = Erased
             /\ op.kind = "program" /\ b # op.block => cell(s, b) = slots[s][b]
  <2>1. /\ slots[s][b] \in Data \cup {Bad} /\ op.value \in Data \cup {Bad}
        /\ Erased \in Data \cup {Bad} /\ Bad \in Data \cup {Bad}
    BY <1>1, Zenon DEF Data
  <2>2. b \in InSector(op.block) <=> SectorEnd(b) = SectorEnd(op.block)
    BY Zenon DEF InSector
  <2>3. CASE op.kind = "erase"
    BY <2>1, <2>2, <2>3, Zenon
  <2>4. CASE op.kind = "program"
    BY <2>1, <2>4, Zenon
  <2>5. CASE op.kind \notin {"erase", "program"}
    BY <2>1, <2>5, Zenon
  <2> QED
    BY <2>3, <2>4, <2>5, Zenon
<1> HIDE DEF cell
<1>4. \A s \in Slots : next[s] = [b \in 0..(Blocks - 1) |-> cell(s, b)]
  BY <1>2, Zenon
<1>5. next \in [Slots -> [0..(Blocks - 1) -> Data \cup {Bad}]]
  BY <1>2, <1>3
<1>6. ASSUME NEW s \in Slots, op.kind \notin {"erase", "program"} \/ s # op.slot
      PROVE  next[s] = slots[s]
  <2>1. slots[s] = [b \in 0..(Blocks - 1) |-> slots[s][b]]
    BY <1>1, Zenon
  <2>2. \A b \in 0..(Blocks - 1) : cell(s, b) = slots[s][b]
    BY <1>3, <1>6, Zenon
  <2> QED
    BY <1>4, <2>1, <2>2, Zenon
<1>7. \A b \in 0..(Blocks - 1) : next[op.slot][b] = cell(op.slot, b)
  BY <1>1, <1>4, Zenon
<1>8. op.kind = "erase" /\ done =>
        \A b \in 0..(Blocks - 1) :
          SectorEnd(b) = SectorEnd(op.block) => next[op.slot][b] = Erased
  BY <1>1, <1>3, <1>7, Zenon
<1>9. op.kind = "program" =>
        \A b \in 0..(Blocks - 1) : b # op.block =>
          next[op.slot][b] = slots[op.slot][b]
  BY <1>1, <1>3, <1>7, Zenon
<1> QED
  BY <1>5, <1>6, <1>8, <1>9, Zenon

\* It spares what is bootable, now or once a commit has ended.
LEMMA FlashKeeps ==
  ASSUME IInv, NEW next,
         \A s \in Slots : op.kind \notin {"erase", "program"} \/ s # op.slot =>
           next[s] = slots[s]
  PROVE  /\ Sound(current, next, burnt)
         /\ \A o \in Owners : InFlight(o) => Sound(journal[o].next, next, burnt)
<1>1. /\ Sound(current, slots, burnt)
      /\ \A o \in Owners : InFlight(o) => Sound(journal[o].next, slots, burnt)
  BY Zenon DEF IInv, Recorded
<1>2. CASE op.kind \notin {"erase", "program"}
  BY <1>1, <1>2, SoundFlash, Zenon
<1>3. CASE op.kind \in {"erase", "program"}
  <2>1. current.images[op.slot].state \notin Bootable
    BY <1>3, Zenon DEF IInv, Writing, Bootable
  <2>2. Sound(current, next, burnt)
    BY <1>1, <2>1, SoundFlash, Zenon
  <2>3. \A o \in Owners : ~InFlight(o)
    BY <1>3, Zenon DEF IInv, Committing, InFlight, Owners
  <2> QED
    BY <2>2, <2>3, Zenon
<1> QED
  BY <1>2, <1>3, Zenon

\* A journal operation makes its commit durable.
LEMMA LandingStep ==
  ASSUME IInv, ~DeviceIdle, op' = NoOp, Lands, slots' = slots,
         journal' = [journal EXCEPT ![op.kind].landed = TRUE],
         writer' \in WriterStates, writer'.state = writer.state,
         writer'.status = writer.status,
         UNCHANGED <<case, running, boot, confirming, engine, burnt>>
  PROVE  IInv'
<1> DEFINE o == op.kind
<1>1. /\ o \in Owners /\ ~journal[o].landed /\ current' = journal[o].next
      /\ InFlight(o) /\ op # NoOp
      /\ current' \in Snapshot
      /\ Sound(current', slots, burnt) /\ Unburnt(current', burnt)
  BY Zenon DEF Lands, InFlight, DeviceIdle, IInv, Recorded, TypeOK, DeviceOK, Commits
<1>2. /\ journal' \in [Owners -> Commits]
      /\ \A p \in Owners : journal'[p].status = journal[p].status
                           /\ journal'[p].next = journal[p].next
      /\ \A p \in Owners : p # o => journal'[p] = journal[p]
  <2> DEFINE c == [journal[o] EXCEPT !.landed = TRUE]
  <2>1. journal \in [Owners -> Commits] /\ journal[o] \in Commits
    BY <1>1, Zenon DEF IInv, TypeOK, DeviceOK
  <2>2. c \in Commits
    BY <2>1, Zenon DEF Commits
  <2>3. c.status = journal[o].status /\ c.next = journal[o].next
    BY <2>1, Zenon DEF Commits
  <2>4. journal' = [journal EXCEPT ![o] = c]
    BY Zenon
  <2> HIDE DEF c, o
  <2> QED
    BY <1>1, <2>1, <2>2, <2>3, <2>4, Zenon
<1>3. op' \in Operations /\ op'.kind = "none"
  BY NothingTyped, Zenon
<1>4. journal[o].status # "ok" /\ \A p \in Owners : p # o => ~InFlight(p)
  BY <1>1, SlotFacts, Zenon DEF IInv, Committing, Owners
<1>5. \A p \in Owners : InFlight(p)' => p = o
  BY <1>1, <1>2, <1>3, <1>4, Zenon DEF InFlight, Owners
<1> HIDE DEF o
<1>6. TypeOK'
  BY <1>1, <1>2, <1>3, Zenon DEF IInv, TypeOK, DeviceOK, SystemOK, UploadOK, Blocks
<1>7. Recorded'
  <2>1. ASSUME NEW p \in Owners, InFlight(p)'
        PROVE  (Sound(journal[p].next, slots, burnt) /\ Unburnt(journal[p].next, burnt))'
    BY <1>1, <1>2, <1>5, <2>1, Zenon
  <2>2. Sound(current, slots, burnt)' /\ Unburnt(current, burnt)'
    BY <1>1, Zenon
  <2> QED
    BY <2>1, <2>2, Zenon DEF Recorded, Unburnt
<1>8. Committing'
  <2>1. \A p \in Owners : journal'[p].status = "busy" => p = o
    BY <1>2, <1>4, Zenon DEF InFlight
  <2>2. ~(InFlight("engine")' /\ InFlight("control")')
    BY <1>5, SlotFacts, Zenon
  <2> QED
    BY <1>1, <1>2, <1>3, <2>1, <2>2, SlotFacts, Zenon DEF Committing, Owners
<1>9. Booting'
  <2> SUFFICES ASSUME running' = 2
               PROVE  Booting'
    BY Zenon DEF Booting
  <2>1. o = "control"
    BY <1>1, Loader, Zenon DEF o, Owners
  <2>2. /\ InFlight("control") /\ journal'["control"].status # "ok"
        /\ journal["control"].status # "ok"
        /\ journal'["control"].next = journal["control"].next
    BY <1>1, <1>2, <1>4, <2>1, SlotFacts, Zenon
  <2> QED
    BY <1>3, <2>2, Zenon DEF IInv, Booting, Chosen
<1>10. ASSUME running # 2
       PROVE  current'.images[running].state = "confirmed"
  BY <1>1, <1>10, Zenon DEF Owners, IInv, Running, Uploading
<1>11. Running'
  <2>1. ASSUME running # 2, InFlight("control")'
        PROVE  /\ journal'["control"].next.images[running].state = "confirmed"
               /\ current' = journal'["control"].next
    BY <1>1, <1>2, <1>5, <1>10, <2>1, SlotFacts, Zenon
  <2> QED
    BY <1>2, <1>10, <2>1, SlotFacts, Zenon DEF IInv, Running, Destination
<1>12. engine.state \notin {"receiving", "writing", "verifying"} /\ ~engine.requested
  BY <1>1, Zenon DEF o, IInv, Uploading
<1>13. Uploading'
  <2>1. ASSUME Active \/ InFlight("engine")'
        PROVE  o = "engine" /\ running # 2 /\ ~InFlight("control")'
    <3>1. o # "control"
      BY <1>1, <1>5, <2>1, SlotFacts, Zenon DEF IInv, Uploading
    <3>2. o = "engine"
      BY <1>1, <3>1, Zenon DEF Owners
    <3> QED
      BY <1>1, <1>5, <3>2, SlotFacts, Zenon DEF IInv, Uploading
  <2>2. ASSUME engine.status = "aborted"
        PROVE  running # 2 /\ current'.images[Destination].state # "pending"
    <3>1. running # 2 /\ o = "control" /\ current.images[Destination].state # "pending"
      BY <1>1, <2>2, Zenon DEF IInv, Uploading, o, Owners
    <3> QED
      BY <1>1, <3>1, Zenon DEF IInv, Running
  <2>3. InFlight("engine")' => journal'["engine"].next.images[running].state = "confirmed"
    BY <1>1, <1>2, <1>5, <1>10, <2>1, SlotFacts, Zenon
  <2>4. /\ Active' = Active /\ Destination' = Destination
        /\ engine.state = "invalidating" =>
             /\ journal'["engine"].status = "busy"
             /\ journal'["engine"].next.images[Destination].state = "incomplete"
             /\ engine.verify_offset = 0
        /\ journal'["engine"].status = "busy" =>
             engine.state \in {"invalidating", "committing", "aborting"}
        /\ Active => engine.status = "busy"
    BY <1>2, SlotFacts, Zenon DEF IInv, Uploading, Active, Destination
  <2> QED
    BY <1>3, <1>10, <1>12, <2>1, <2>2, <2>3, <2>4, Zenon DEF Uploading
<1>14. Writing'
  BY <1>3, <1>12, WriteIdleNext, Zenon DEF IInv, Writing, AtRest
<1> QED
  BY <1>6, <1>7, <1>8, <1>9, <1>11, <1>13, <1>14, Zenon DEF IInv

LEMMA FlashDoneStep ==
  ASSUME IInv, NEW result \in {"ok", "error"}, FlashDone(result), UNCHANGED case
  PROVE  IInv'
<1> DEFINE done == result = "ok"
<1>1. /\ op # NoOp /\ op' = NoOp /\ slots' = Written(done)
      /\ writer' = [writer EXCEPT !.result = result]
      /\ UNCHANGED <<running, boot, confirming, engine, burnt>>
  BY Zenon DEF FlashDone, DeviceIdle, system, history
<1>2. /\ slots' \in [Slots -> [0..(Blocks - 1) -> Data \cup {Bad}]]
      /\ \A s \in Slots : op.kind \notin {"erase", "program"} \/ s # op.slot =>
           slots'[s] = slots[s]
      /\ op.kind = "erase" /\ done =>
           \A b \in 0..(Blocks - 1) :
             SectorEnd(b) = SectorEnd(op.block) => slots'[op.slot][b] = Erased
      /\ op.kind = "program" =>
           \A b \in 0..(Blocks - 1) : b # op.block =>
             slots'[op.slot][b] = slots[op.slot][b]
  BY <1>1, WrittenIs, Zenon
<1>3. writer \in WriterStates /\ writer' \in WriterStates
  <2>1. writer \in WriterStates
    BY Zenon DEF IInv, TypeOK, UploadOK
  <2> QED
    BY <1>1, <2>1, Zenon DEF WriterStates
<1>4. /\ writer'.state = writer.state /\ writer'.status = writer.status
      /\ writer'.offset = writer.offset /\ writer'.written = writer.written
      /\ writer'.erased_until = writer.erased_until /\ writer'.result = result
  BY <1>1, <1>3, Zenon DEF WriterStates
<1>5. slots \in [Slots -> [0..(Blocks - 1) -> Data \cup {Bad}]] /\ op.kind # "none"
      /\ op' \in Operations /\ op'.kind = "none"
  BY <1>1, NothingTyped, Zenon DEF IInv, TypeOK, DeviceOK
<1>6. CASE Lands /\ journal' = [journal EXCEPT ![op.kind].landed = TRUE]
  <2>1. op.kind \notin {"erase", "program"}
    BY <1>6, Zenon DEF Lands, Owners
  <2>2. slots' = slots
    BY <1>2, <1>5, <2>1
  <2> QED
    BY <1>1, <1>3, <1>4, <1>6, <2>2, LandingStep, Zenon DEF DeviceIdle
<1>7. CASE UNCHANGED <<current, journal>>
  <2>1. /\ Sound(current, slots', burnt)
        /\ \A o \in Owners : InFlight(o) => Sound(journal[o].next, slots', burnt)
    BY <1>2, FlashKeeps, Zenon
  <2>2. \A o \in Owners : InFlight(o)' => InFlight(o)
    BY <1>5, <1>7, Zenon DEF InFlight, Owners
  <2>3. TypeOK'
    BY <1>1, <1>2, <1>3, <1>5, <1>7, Zenon
       DEF IInv, TypeOK, DeviceOK, SystemOK, UploadOK, Blocks
  <2>4. Recorded'
    <3>1. ASSUME NEW o \in Owners, InFlight(o)'
          PROVE  (Sound(journal[o].next, slots, burnt) /\ Unburnt(journal[o].next, burnt))'
      BY <1>1, <1>7, <2>1, <2>2, <3>1, Zenon DEF IInv, Recorded
    <3>2. Sound(current, slots, burnt)'
      BY <1>1, <1>7, <2>1, Zenon
    <3> QED
      BY <1>1, <1>7, <3>1, <3>2, Zenon DEF IInv, Recorded, Ending
  <2>5. Committing'
    BY <1>1, <1>5, <1>7, <2>2, SlotFacts, Zenon DEF IInv, Committing, Owners
  <2>6. Booting' /\ Running'
    BY <1>1, <1>4, <1>5, <1>7, <2>2, SlotFacts, Zenon
       DEF IInv, Booting, Running, Chosen, Destination
  <2>7. engine.state \notin {"receiving", "verifying"} /\ ~engine.requested
        /\ (engine.state = "writing" => op.kind \in {"erase", "program"})
    BY <1>1, <1>5, Zenon
       DEF IInv, Uploading, Writing, TypeOK, DeviceOK, Operations, Owners
  <2>8. Uploading'
    BY <1>1, <1>5, <1>7, <2>2, <2>7, SlotFacts, Zenon
       DEF IInv, Uploading, Active, Destination, Owners
  <2>9. AtRest'
    BY <1>1, <1>4, Zenon DEF IInv, Writing, AtRest
  <2>10. ASSUME engine.state = "writing"
         PROVE  Writing'
    <3>1. /\ op.slot = Destination /\ op.block = writer.offset /\ engine.offset < Blocks
          /\ writer.offset = engine.offset /\ writer.status = "busy"
          /\ op.kind = "erase" => writer.state = "erase_wait"
          /\ op.kind = "program" => writer.state = "program_wait"
          /\ writer.state = "program_wait" => ClearFrom(writer.offset + 1)
          /\ writer.state = "erase_wait" => writer.erased_until = SectorEnd(writer.offset)
      BY <2>7, <2>10, Zenon DEF IInv, Writing
    <3>2. Destination \in Slots /\ Destination' = Destination /\ Blocks' = Blocks
          /\ writer.offset \in Nat /\ Blocks \in Nat
          /\ DOMAIN slots[Destination] = 0..(Blocks - 1)
          /\ DOMAIN slots'[Destination] = 0..(Blocks - 1)
      BY <1>1, <1>2, <1>3, <1>5, <2>10, Application, Loader, Zenon
         DEF Destination, Blocks, WriterStates, IInv, TypeOK, DeviceOK
    <3>3. CASE op.kind = "erase"
      <4>1. writer'.erased_until = SectorEnd(writer'.offset)
        BY <1>4, <3>1, <3>3, Zenon
      <4>2. ASSUME result = "ok"
            PROVE  ClearFrom(writer.offset)'
        <5>1. ASSUME NEW b \in 0..(Blocks - 1), writer.offset <= b,
                     b < writer.erased_until
              PROVE  slots'[Destination][b] = Erased
          <6>1. SectorEnd(b) = SectorEnd(writer.offset)
            BY <3>1, <3>2, <3>3, <5>1, SameSector
          <6> QED
            BY <1>2, <3>1, <3>3, <4>2, <6>1, Zenon
        <5> QED
          BY <1>4, <3>2, <5>1, Zenon DEF ClearFrom, Clear
      <4>3. writer'.erased_until = SectorEnd(writer.offset)'
        BY <4>1, Zenon DEF SectorEnd
      <4> QED
        BY <1>1, <1>4, <1>5, <2>9, <2>10, <3>1, <3>2, <3>3, <4>2, <4>3, Zenon
           DEF Writing
    <3>4. CASE op.kind = "program"
      <4>1. ClearFrom(writer.offset + 1)'
        <5>1. ASSUME NEW b \in 0..(Blocks - 1), writer.offset + 1 <= b,
                     b < writer.erased_until
              PROVE  slots'[Destination][b] = Erased
          <6>1. slots[Destination][b] = Erased
            BY <3>1, <3>2, <3>4, <5>1, Zenon DEF ClearFrom, Clear
          <6>2. b # op.block
            BY <3>1, <3>2, <5>1
          <6> QED
            BY <1>2, <3>1, <3>4, <6>1, <6>2, Zenon
        <5> QED
          BY <1>4, <3>2, <5>1, Zenon DEF ClearFrom, Clear
      <4> QED
        BY <1>1, <1>4, <1>5, <2>9, <2>10, <3>1, <3>2, <3>4, <4>1, Zenon DEF Writing
    <3> QED
      BY <2>7, <2>10, <3>3, <3>4, Zenon
  <2>11. ASSUME engine.state # "writing"
         PROVE  Writing'
    BY <1>1, <1>5, <2>7, <2>9, <2>11, WriteIdleNext, Zenon
  <2> QED
    BY <2>3, <2>4, <2>5, <2>6, <2>8, <2>10, <2>11, Zenon DEF IInv
<1> QED
  BY <1>6, <1>7, Zenon DEF FlashDone

\* A reset, whatever it interrupts.
LEMMA RestartStep ==
  ASSUME IInv, Restart, UNCHANGED case
  PROVE  IInv'
<1>1. /\ op' = NoOp /\ journal' = [o \in Owners |-> FreshJournal]
      /\ running' = 2 /\ boot' = "load" /\ confirming' = "none"
      /\ engine' = FreshEngine /\ writer' = FreshWriter
      /\ Lands \/ UNCHANGED current
  BY Zenon DEF Restart
<1>2. /\ slots' \in [Slots -> [0..(Blocks - 1) -> Data \cup {Bad}]]
      /\ \A s \in Slots : op.kind \notin {"erase", "program"} \/ s # op.slot =>
           slots'[s] = slots[s]
  <2>1. CASE slots' = slots
    BY <2>1, Zenon DEF IInv, TypeOK, DeviceOK
  <2>2. CASE slots' = Written(TRUE) \/ slots' = Written(FALSE)
    BY <2>2, WrittenIs, Zenon
  <2> QED
    BY <2>1, <2>2, Zenon DEF Restart
<1>3. /\ current' \in Snapshot /\ Sound(current', slots', burnt)
      /\ \A s \in Slots : current'.images[s].installation \in burnt =>
           current'.images[s].state \in {"rejected", "incomplete", "trial"}
  <2>1. /\ Sound(current, slots', burnt)
        /\ \A o \in Owners : InFlight(o) => Sound(journal[o].next, slots', burnt)
    BY <1>2, FlashKeeps, Zenon
  <2>2. CASE Lands
    <3>1. /\ op.kind \in Owners /\ InFlight(op.kind) /\ current' = journal[op.kind].next
          /\ Unburnt(current', burnt) /\ current' \in Snapshot
      BY <2>2, Zenon DEF Lands, InFlight, IInv, Recorded, TypeOK, DeviceOK, Commits
    <3> QED
      BY <2>1, <3>1, Zenon DEF Unburnt
  <2>3. CASE UNCHANGED current
    BY <2>1, <2>3, Zenon DEF IInv, Recorded, TypeOK, DeviceOK
  <2> QED
    BY <1>1, <2>2, <2>3, Zenon
<1>4. burnt' = burnt \cup {current'.images[s].installation :
                 s \in {t \in Slots : current'.images[t].state = "trial"}}
  BY Zenon DEF Restart
<1>5. /\ Sound(current', slots', burnt')
      /\ \A s \in Slots : current'.images[s].installation \in burnt' =>
           current'.images[s].state \in {"rejected", "incomplete", "trial"}
  BY <1>3, <1>4, EndedIs
<1>6. burnt' \in SUBSET Nat
  <2>1. \A s \in Slots : current'.images[s].installation \in Nat
    BY <1>3, ImagesTyped, Zenon
  <2> QED
    BY <1>4, <2>1, Zenon DEF IInv, TypeOK
<1>7. /\ op'.kind = "none" /\ op' \in Operations
      /\ journal' \in [Owners -> Commits]
      /\ \A o \in Owners : journal'[o].status = "ok"
      /\ engine' \in EngineStates /\ writer' \in WriterStates
      /\ engine'.state = "disabled" /\ ~engine'.requested
      /\ engine'.status = "not_running" /\ writer'.status = "ok"
      /\ writer'.state = "idle"
  <2>1. \A o \in Owners : journal'[o] = FreshJournal
    BY <1>1, Zenon
  <2>2. FreshJournal.status = "ok"
    BY Zenon DEF FreshJournal
  <2>3. /\ FreshEngine.state = "disabled" /\ ~FreshEngine.requested
        /\ FreshEngine.status = "not_running"
        /\ FreshWriter.status = "ok" /\ FreshWriter.state = "idle"
    BY Zenon DEF FreshEngine, FreshWriter
  <2> QED
    BY <1>1, <2>1, <2>2, <2>3, NothingTyped, FreshTyped, Zenon
<1>8. \A o \in Owners : ~InFlight(o)'
  BY <1>7, Zenon DEF InFlight, Owners
<1>9. TypeOK'
  BY <1>1, <1>2, <1>3, <1>6, <1>7 DEF IInv, TypeOK, DeviceOK, SystemOK, UploadOK, Blocks
<1>10. Recorded'
  <2>1. Sound(current, slots, burnt)' /\ Ending'
    BY <1>1, <1>5, Zenon DEF Ending
  <2> QED
    BY <1>5, <1>8, <2>1, Zenon DEF Recorded
<1>11. Committing'
  BY <1>7, <1>8, SlotFacts, Zenon DEF Committing, Owners
<1>12. Booting'
  BY <1>1, <1>7, <1>8, SlotFacts, Zenon DEF Booting, Chosen
<1>13. AtRest'
  BY <1>7, Zenon DEF AtRest
<1> QED
  BY <1>1, <1>8, <1>9, <1>10, <1>11, <1>12, <1>13, LoaderIdleNext, SlotFacts, Zenon
     DEF IInv

LEMMA InvInit ==
  ASSUME Init
  PROVE  IInv
<1> DEFINE first == [installation |-> 1, package |-> Factory, state |-> "confirmed"]
<1>1. /\ case \in Cases /\ op = NoOp /\ journal = [o \in Owners |-> FreshJournal]
      /\ running = 2 /\ boot = "load" /\ confirming = "none"
      /\ engine = FreshEngine /\ writer = FreshWriter /\ burnt = {}
      /\ current = [counter |-> 1,
                    images |-> [s \in Slots |-> IF s = 0 THEN first ELSE NoImage]]
      /\ slots = [s \in Slots |-> [b \in 0..(Blocks - 1) |->
                                     IF s = 0 THEN Factory ELSE Erased]]
  BY Zenon DEF Init
<1>2. Blocks \in Nat \ {0}
  BY <1>1, CaseAssumption, Zenon DEF Blocks
<1>3. first \in Image /\ NoImage \in Image
  BY PackageAssumption, Zenon DEF Image, ImageStates, NoImage
<1>4. /\ current.counter = 1
      /\ \A s \in Slots : current.images[s] = IF s = 0 THEN first ELSE NoImage
  BY <1>1, Zenon
<1>5. current \in Snapshot
  <2> HIDE DEF first
  <2> QED
    BY <1>1, <1>3, Zenon DEF Snapshot
<1>6. slots \in [Slots -> [0..(Blocks - 1) -> Data \cup {Bad}]]
  BY <1>1, PackageAssumption, Zenon DEF Data
<1>7. /\ op.kind = "none" /\ op \in Operations
      /\ journal \in [Owners -> Commits]
      /\ \A o \in Owners : journal[o].status = "ok"
      /\ engine \in EngineStates /\ writer \in WriterStates
      /\ engine.state = "disabled" /\ ~engine.requested
      /\ engine.status = "not_running" /\ writer.status = "ok"
      /\ writer.state = "idle"
  <2>1. \A o \in Owners : journal[o] = FreshJournal
    BY <1>1, Zenon
  <2>2. FreshJournal.status = "ok"
    BY Zenon DEF FreshJournal
  <2>3. /\ FreshEngine.state = "disabled" /\ ~FreshEngine.requested
        /\ FreshEngine.status = "not_running"
        /\ FreshWriter.status = "ok" /\ FreshWriter.state = "idle"
    BY Zenon DEF FreshEngine, FreshWriter
  <2> QED
    BY <1>1, <2>1, <2>2, <2>3, NothingTyped, FreshTyped, Zenon
<1>8. \A o \in Owners : ~InFlight(o)
  BY <1>7, Zenon DEF InFlight, Owners
<1>9. TypeOK
  <2>1. DeviceOK
    BY <1>1, <1>2, <1>5, <1>6, <1>7, Zenon DEF DeviceOK
  <2> HIDE DEF first
  <2>2. SystemOK /\ UploadOK /\ burnt \in SUBSET Nat
    BY <1>1, <1>7 DEF SystemOK, UploadOK
  <2> QED
    BY <2>1, <2>2, Zenon DEF TypeOK
<1>10. Recorded
  <2>1. /\ current.images[0] = first /\ current.images[1] = NoImage
        /\ \A b \in DOMAIN slots[0] : slots[0][b] = Factory
    BY <1>1, <1>4 DEF Slots
  <2>2. Sound(current, slots, burnt)
    <3>1. Holds(current, slots, 0)
      BY <2>1 DEF Holds
    <3>2. \A s \in Slots : current.images[s].state \in Bootable => s = 0
      BY <2>1 DEF Slots, NoImage, Bootable
    <3> QED
      BY <1>1, <1>4, <2>1, <3>1, <3>2 DEF Sound, Slots, NoImage, Bootable
  <2> QED
    BY <1>1, <1>8, <2>2, Zenon DEF Recorded
<1>11. Committing
  BY <1>7, <1>8, SlotFacts, Zenon DEF Committing, Owners
<1>12. Booting
  BY <1>1, <1>7, <1>8, SlotFacts, Zenon DEF Booting, Chosen
<1>13. AtRest
  BY <1>7, Zenon DEF AtRest
<1> QED
  BY <1>1, <1>8, <1>9, <1>10, <1>11, <1>12, <1>13, LoaderIdle, SlotFacts, Zenon DEF IInv

LEMMA InvStep ==
  ASSUME IInv, [Next /\ UNCHANGED case]_vars
  PROVE  IInv'
<1>1. CASE UNCHANGED vars
  BY <1>1, Unseen, Zenon DEF vars, seen
<1>2. CASE Next /\ UNCHANGED case
  <2>1. CASE BootStep
    BY <1>2, <2>1, BootLoadStep, BootRejectedStep, BootChooseStep, JumpStep,
       BootFailsStep, Zenon DEF BootStep
  <2>2. CASE Request
    <3>1. Totals \subseteq Nat
      BY CaseAssumption, Zenon DEF Totals, IInv, TypeOK, DeviceOK
    <3> QED
      BY <1>2, <2>2, <3>1, EnableStep, BeginStep, ChunkStep, AbortStep, ConfirmStep,
         Zenon
         DEF Request
  <2>3. CASE EngineTick
    BY <1>2, <2>3, TickIdleStep, TickInvalidatingStep, TickReceivingStep,
       TickWritingStep, TickVerifyingStep, TickCommittingStep, TickAbortingStep, Zenon
       DEF EngineTick
  <2>4. CASE ControlTick
    BY <1>2, <2>4, ControlTickStep, Zenon
  <2>5. CASE ConfirmEnds
    BY <1>2, <2>5, ConfirmEndsStep, Zenon
  <2>6. CASE \E result \in {"ok", "error"} : FlashDone(result)
    BY <1>2, <2>6, FlashDoneStep, Zenon
  <2>7. CASE Restart
    BY <1>2, <2>7, RestartStep, Zenon
  <2> QED
    BY <1>2, <2>1, <2>2, <2>3, <2>4, <2>5, <2>6, <2>7, Zenon DEF Next
<1> QED
  BY <1>1, <1>2, Zenon

LEMMA InvAlways == Spec => []IInv
<1>1. Init => IInv
  BY InvInit, Zenon
<1>2. IInv /\ [Next /\ UNCHANGED case]_vars => IInv'
  BY InvStep, Zenon
<1> QED
  BY <1>1, <1>2, PTL DEF Spec

(***************************************************************************)
(* The theorems.                                                           *)
(***************************************************************************)
LEMMA HoldsVerifies ==
  ASSUME IInv, NEW s \in Slots, Holds(current, slots, s)
  PROVE  Verifies(s)
<1>1. DOMAIN slots[s] = 0..(Blocks - 1)
  BY Zenon DEF IInv, TypeOK, DeviceOK
<1> QED
  BY <1>1, Zenon DEF Holds, Verifies

\* Whatever upload, abort, confirmation, late flash operation or reset came
\* before, durable metadata offers Control::select() complete images only.
THEOREM OffersCompleteImages == Spec => []EligibleIsComplete
<1>1. IInv => EligibleIsComplete
  BY HoldsVerifies, Zenon DEF EligibleIsComplete, IInv, Recorded, Sound, Bootable
<1> QED
  BY <1>1, InvAlways, PTL

\* In every state, so after a reset at any moment, some slot holds a confirmed
\* image that passes Control::verify().
THEOREM AlwaysBoots == Spec => []FallbackSurvives
<1>1. IInv => FallbackSurvives
  <2> SUFFICES ASSUME IInv
               PROVE  FallbackSurvives
    BY Zenon
  <2>1. PICK s \in Slots : current.images[s].state = "confirmed"
    BY Zenon DEF IInv, Recorded, Sound
  <2>2. Holds(current, slots, s)
    BY <2>1, Zenon DEF IInv, Recorded, Sound, Bootable
  <2> QED
    BY <2>1, <2>2, HoldsVerifies, Zenon DEF FallbackSurvives
<1> QED
  BY <1>1, InvAlways, PTL

\* Control::select() never starts an installation whose trial a reset has
\* ended, nor an image that is not durably a trial or confirmed.
THEOREM TrialsNeverRepeat == Spec => []TrialOnce
<1>1. IInv => TrialOnce
  <2> SUFFICES ASSUME IInv, running < 2
               PROVE  TrialOnce
    BY Zenon DEF TrialOnce
  <2>1. /\ running # 2 /\ running \in Slots /\ Unburnt(current, burnt)
        /\ current.images[running].state \in {"trial", "confirmed"}
    BY Application DEF IInv, TypeOK, SystemOK
  <2> QED
    BY <2>1, Zenon DEF TrialOnce, Unburnt
<1> QED
  BY <1>1, InvAlways, PTL

\* Once Engine::Step() reports an upload aborted, its image is not a boot
\* candidate, and no flash operation is left that would make it one.
THEOREM AbortedUploadsWithdrawn == Spec => []AbortInvalidates
<1>1. IInv => AbortInvalidates
  BY Zenon DEF AbortInvalidates, IInv, Uploading
<1> QED
  BY <1>1, InvAlways, PTL

\* The engine's and boot::Control's Journal objects never commit at the same
\* time, and update::Writer programs erased blocks only.
THEOREM FlashAlwaysShared == Spec => []FlashShared
<1>1. IInv => FlashShared
  BY Zenon DEF FlashShared, IInv, Committing, InFlight, Writing
<1> QED
  BY <1>1, InvAlways, PTL
==============================================================================
