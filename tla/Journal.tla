------------------------------- MODULE Journal -------------------------------
(***************************************************************************)
(* The boot metadata journal of lib/boot/journal.cpp over a flash device:  *)
(* two sectors of fixed-size records, one operation at a time, power loss  *)
(* at any moment.  A record is programmed in Units writes of which the     *)
(* last one holds the commit trailer.  On some boards (constrained) the    *)
(* flash driver names an executing bank (STM32H7) and the boot loader      *)
(* calls prepare_runtime() before it starts an application.                *)
(***************************************************************************)
EXTENDS Integers

CONSTANTS
    Positions,       \* records per metadata sector
    Units,           \* program operations per record
    MaxSequence,     \* largest sequence number
    MaxConstrained,  \* the same for a constrained board
    MaxCounter       \* bound on the installation counter

ASSUME SizeAssumption  == Positions \in Nat \ {0} /\ Units \in Nat \ {0}
ASSUME CountAssumption == /\ MaxSequence \in Nat \ {0} /\ MaxCounter \in Nat
                          /\ MaxConstrained \in 1..MaxSequence

VARIABLES
    constrained,     \* whether the driver provides executing_bank(); constant
    cells,           \* the records of both sectors
    op,              \* the flash operation in progress
    outcome,         \* what poll() will report for the finished operation
    executing,       \* executing_bank(), 2 in the boot loader
    machine,         \* machine_.state()
    status,          \* status_
    requested, erase_needed, erase_only, checkpoint, timed_out,
    record, pending_record,   \* record_ and pending_record_
    target, pending_target,   \* target_ and pending_target_
    offset,          \* offset_ in write units
    prepare          \* progress of prepare_runtime()

device  == <<cells, op, outcome>>
flags   == <<requested, erase_needed, erase_only, checkpoint, timed_out>>
buffers == <<record, pending_record, target, pending_target, offset>>
vars == <<constrained, cells, op, outcome, executing, machine, status, requested,
          erase_needed, erase_only, checkpoint, timed_out, record,
          pending_record, target, pending_target, offset, prepare>>

Banks     == {0, 1}
Locations == Banks \X (1..Positions)
Snapshot  == [sequence : 1..MaxSequence, counter : 0..MaxCounter]
Nothing   == [sequence |-> 0, counter |-> 0]

\* A record area is erased, holds the first units of a record, holds bytes
\* that decode() rejects or read() refuses, or holds a snapshot.
Valid(s) == [kind |-> "valid", snapshot |-> s]
Erased   == [kind |-> "erased", snapshot |-> Nothing]
Partial  == [kind |-> "partial", snapshot |-> Nothing]
Torn     == [kind |-> "torn", snapshot |-> Nothing]
Cell     == {Erased, Partial, Torn} \cup {Valid(s) : s \in Snapshot}

NoOp == [kind |-> "none", at |-> <<0, 1>>, unit |-> 0, snapshot |-> Nothing]
Idle == [phase |-> "idle", bank |-> 0]

\* The factory tool installed one record.
Init ==
    /\ constrained \in BOOLEAN
    /\ \E s \in Snapshot :
         /\ s.sequence = 1
         /\ cells = [l \in Locations |-> IF l = <<0, 1>> THEN Valid(s) ELSE Erased]
    /\ op = NoOp /\ outcome = "ok" /\ executing = 2
    /\ machine = "idle" /\ status = "ok"
    /\ requested = FALSE /\ erase_needed = FALSE /\ erase_only = FALSE
    /\ checkpoint = FALSE /\ timed_out = FALSE
    /\ record = Nothing /\ pending_record = Nothing
    /\ target = <<0, 1>> /\ pending_target = <<0, 1>> /\ offset = 0
    /\ prepare = Idle

(***************************************************************************)
(* load(): the valid record with the largest sequence number, the first    *)
(* one the scan meets when several have it; two that differ are an error.  *)
(***************************************************************************)
ValidAt == {l \in Locations : cells[l].kind = "valid"}

Newest ==
    LET valid == ValidAt
    IN  {l \in valid : \A k \in valid :
           cells[k].snapshot.sequence <= cells[l].snapshot.sequence}

Loads == LET newest == Newest
         IN  newest # {} /\ \A k, l \in newest : cells[k] = cells[l]

\* The scan visits bank 0 first and each bank from its end.
Latest ==
    LET newest == Newest
    IN  CHOOSE l \in newest : \A k \in newest :
          l[1] < k[1] \/ (l[1] = k[1] /\ l[2] >= k[2])

Current == cells[Latest].snapshot

\* Mutant: takes the remains of an interrupted write for free space.
FirstFreeNotValid(b, p) ==
    LET free == {q \in 1..Positions : q >= p /\ cells[<<b, q>>].kind # "valid"}
    IN  IF free = {} THEN 0 ELSE CHOOSE q \in free : \A r \in free : q <= r

\* The first erased record of a bank from position p on; 0 if there is none.
FirstFree(b, p) ==
    LET free == {q \in 1..Positions : q >= p /\ cells[<<b, q>>] = Erased}
    IN  IF free = {} THEN 0 ELSE CHOOSE q \in free : \A r \in free : q <= r

(***************************************************************************)
(* begin().  A plan says what is written where, whether the sector is      *)
(* erased first, and whether it is only the checkpoint that precedes it.   *)
(***************************************************************************)
Plan(what, where, erase, first) ==
    [record |-> what, target |-> where, erase |-> erase, checkpoint |-> first]

\* Mutant: reclaims the sector that holds the newest record.
BootPlanSameBank(next) ==
    LET p == FirstFree(Latest[1], Latest[2] + 1)
    IN  IF p # 0 THEN Plan(next, <<Latest[1], p>>, FALSE, FALSE)
                 ELSE Plan(next, <<Latest[1], 1>>, TRUE, FALSE)

\* Append after the newest record, or start over in the other sector.
BootPlan(next) ==
    LET p == FirstFree(Latest[1], Latest[2] + 1)
    IN  IF p # 0 THEN Plan(next, <<Latest[1], p>>, FALSE, FALSE)
                 ELSE Plan(next, <<1 - Latest[1], 1>>, TRUE, FALSE)

\* Mutant: the inactive sector is reclaimed without a checkpoint.
RuntimePlanNoCheckpoint(next) ==
    LET p == FirstFree(1 - executing, 1)
    IN  IF p # 0 THEN Plan(next, <<1 - executing, p>>, FALSE, FALSE)
                 ELSE Plan(next, <<1 - executing, 1>>, TRUE, FALSE)

\* Mutant: takes the other sector whatever bank is executing.
RuntimePlanAnyBank(next) == BootPlan(next)

\* Only the inactive bank is written or erased; its newest record is copied
\* into the executing bank before it is erased, if there is room.
RuntimePlan(next) ==
    LET inactive == 1 - executing
        p == FirstFree(inactive, 1)
        q == FirstFree(executing, 1)
    IN  CASE p # 0 -> Plan(next, <<inactive, p>>, FALSE, FALSE)
          [] p = 0 /\ Latest[1] # inactive ->
               Plan(next, <<inactive, 1>>, TRUE, FALSE)
          [] OTHER -> Plan(Current, <<executing, q>>, FALSE, TRUE)

\* Mutant: the sequence number is not advanced.
SuccessorSame(n) == n

Successor(n) == n + 1

\* Mutant: a request is taken while the device still programs.
DeviceIdleAlways == TRUE

DeviceIdle == op = NoOp

\* load() refuses while the device is busy; begin() refuses without room for
\* a checkpoint.
Begin(c) ==
    /\ status # "busy" /\ prepare = Idle
    /\ DeviceIdle /\ Loads
    /\ Current.sequence < IF constrained THEN MaxConstrained ELSE MaxSequence
    /\ c >= Current.counter
    /\ LET next == [sequence |-> Successor(Current.sequence), counter |-> c]
           plan == IF executing = 2 THEN BootPlan(next) ELSE RuntimePlan(next)
       IN  /\ plan.target[2] # 0
           /\ record' = plan.record /\ target' = plan.target
           /\ erase_needed' = plan.erase /\ checkpoint' = plan.checkpoint
           /\ IF plan.checkpoint
              THEN /\ pending_record' = next
                   /\ pending_target' = <<1 - executing, 1>>
              ELSE UNCHANGED <<pending_record, pending_target>>
    /\ erase_only' = FALSE /\ timed_out' = FALSE /\ offset' = 0
    /\ requested' = TRUE /\ status' = "busy" /\ outcome' = "ok"
    /\ UNCHANGED <<cells, op, executing, machine, prepare>>

(***************************************************************************)
(* tick(): the deadline, then one Step() of the machine.                   *)
(***************************************************************************)
Timeout ==
    /\ status = "busy" /\ ~timed_out
    /\ timed_out' = TRUE
    /\ UNCHANGED <<device, executing, machine, status, requested, erase_needed,
                   erase_only, checkpoint, buffers, prepare>>

Fail == machine' = "failed" /\ status' = "failed"

StartRequest ==
    /\ machine \in {"idle", "done", "failed"} /\ requested
    /\ requested' = FALSE
    /\ machine' = IF erase_needed THEN "erase" ELSE "write"
    /\ UNCHANGED <<device, executing, status, erase_needed, erase_only,
                   checkpoint, timed_out, buffers, prepare>>

\* The driver may refuse either operation; then nothing is in progress.
StartOperation ==
    /\ machine \in {"erase", "write"}
    /\ \/ Fail /\ UNCHANGED op
       \/ /\ ~timed_out /\ op = NoOp
          /\ op' = [kind |-> machine, at |-> target, unit |-> offset,
                    snapshot |-> record]
          /\ machine' = IF machine = "erase" THEN "erase_wait" ELSE "write_wait"
          /\ UNCHANGED status
    /\ UNCHANGED <<cells, outcome, executing, flags, buffers, prepare>>

RecordDone(n) == n = Units

\* poll() reports an operation's end once; a deadline wins over its success.
Wait ==
    /\ machine \in {"erase_wait", "write_wait"}
    /\ op = NoOp \/ timed_out
    /\ IF op # NoOp \/ outcome # "ok" \/ timed_out
       THEN Fail /\ UNCHANGED offset
       ELSE IF machine = "erase_wait"
       THEN /\ machine' = IF erase_only THEN "done" ELSE "write"
            /\ status' = IF erase_only THEN "ok" ELSE status
            /\ UNCHANGED offset
       ELSE /\ offset' = offset + 1
            /\ machine' = IF RecordDone(offset + 1) THEN "verify" ELSE "write"
            /\ UNCHANGED status
    /\ UNCHANGED <<device, executing, flags, record, pending_record, target,
                   pending_target, prepare>>

\* Mutant: the readback is not compared.
ReadsBackAnything == TRUE

ReadsBack == cells[target] = Valid(record)

\* After a verified checkpoint the postponed record follows.
Verify ==
    /\ machine = "verify"
    /\ IF ~ReadsBack
       THEN Fail /\ UNCHANGED <<checkpoint, record, target, offset>>
       ELSE IF checkpoint
       THEN /\ record' = pending_record /\ target' = pending_target
            /\ offset' = 0 /\ checkpoint' = FALSE
            /\ machine' = "erase" /\ UNCHANGED status
       ELSE /\ machine' = "done" /\ status' = "ok"
            /\ UNCHANGED <<checkpoint, record, target, offset>>
    /\ UNCHANGED <<device, executing, requested, erase_needed, erase_only,
                   timed_out, pending_record, pending_target, prepare>>

(***************************************************************************)
(* prepare_runtime(): boot loader only.  First the newest record moves to  *)
(* the other bank, then the bank about to execute is erased.               *)
(***************************************************************************)
Request(what, where, erase, only) ==
    /\ record' = what /\ target' = where
    /\ erase_needed' = erase /\ erase_only' = only
    /\ offset' = 0 /\ timed_out' = FALSE /\ checkpoint' = FALSE
    /\ requested' = TRUE /\ status' = "busy"
    /\ UNCHANGED <<pending_record, pending_target>>

\* The bank is erased unless it is blank already.
EraseBank(b) ==
    IF \A p \in 1..Positions : cells[<<b, p>>] = Erased
    THEN /\ prepare' = [phase |-> "ready", bank |-> b]
         /\ UNCHANGED <<status, flags, buffers>>
    ELSE /\ prepare' = [phase |-> "erase", bank |-> b]
         /\ Request(record, <<b, 1>>, TRUE, TRUE)

\* Mutant: the bank is erased although the newest record is in it.
CopyNeededNever(b) == FALSE

CopyNeeded(b) == Latest[1] = b

PrepareRuntime(b) ==
    /\ constrained /\ executing = 2 /\ prepare = Idle
    /\ status # "busy" /\ op = NoOp /\ Loads
    /\ IF CopyNeeded(b)
       THEN LET p == FirstFree(1 - b, 1)
            IN  /\ prepare' = [phase |-> "copy", bank |-> b]
                /\ Request(Current, <<1 - b, IF p = 0 THEN 1 ELSE p>>, p = 0,
                           FALSE)
       ELSE EraseBank(b)
    /\ UNCHANGED <<device, executing, machine>>

PrepareCopied ==
    /\ prepare.phase = "copy" /\ status = "ok"
    /\ EraseBank(prepare.bank)
    /\ UNCHANGED <<device, executing, machine>>

PrepareErased ==
    /\ prepare.phase = "erase" /\ status = "ok"
    /\ prepare' = [prepare EXCEPT !.phase = "ready"]
    /\ UNCHANGED <<device, executing, machine, status, flags, buffers>>

(***************************************************************************)
(* The device, power and control hand-over.                                *)
(***************************************************************************)
\* The record area once a program operation has succeeded.
Programmed(cell) ==
    IF cell \notin {Erased, Partial} THEN Torn
    ELSE IF op.unit + 1 = Units THEN Valid(op.snapshot) ELSE Partial

\* What a program operation that failed or was cut short may leave.
Leftovers(cell) ==
    {IF cell = Erased THEN Erased ELSE Torn, Torn}
    \cup (IF op.unit + 1 = Units THEN {Programmed(cell)} ELSE {})

\* An interrupted erase leaves each record of its sector as it was, torn or
\* erased.
Disturb ==
    \/ op = NoOp /\ UNCHANGED cells
    \/ /\ op.kind = "write"
       /\ \E c \in Leftovers(cells[op.at]) : cells' = [cells EXCEPT ![op.at] = c]
    \/ /\ op.kind = "erase"
       /\ \E kept, torn \in SUBSET (1..Positions) :
            /\ kept \cap torn = {}
            /\ cells' = [l \in Locations |->
                 IF l[1] # op.at[1] \/ l[2] \in kept THEN cells[l]
                 ELSE IF l[2] \in torn THEN Torn ELSE Erased]

FlashDone ==
    /\ op # NoOp
    /\ cells' = [l \in Locations |->
                   CASE op.kind = "erase" /\ l[1] = op.at[1] -> Erased
                     [] op.kind = "write" /\ l = op.at -> Programmed(cells[l])
                     [] OTHER -> cells[l]]
    /\ op' = NoOp /\ outcome' = "ok"
    /\ UNCHANGED <<executing, machine, status, flags, buffers, prepare>>

FlashError ==
    /\ op # NoOp /\ Disturb
    /\ op' = NoOp /\ outcome' = "error"
    /\ UNCHANGED <<executing, machine, status, flags, buffers, prepare>>

\* A program operation that reports success and left wrong bytes.
FlashCorrupts ==
    /\ op.kind = "write"
    /\ cells' = [cells EXCEPT ![op.at] = Torn]
    /\ op' = NoOp /\ outcome' = "ok"
    /\ UNCHANGED <<executing, machine, status, flags, buffers, prepare>>

\* A fresh Journal object.
Fresh == /\ machine' = "idle" /\ status' = "ok"
         /\ requested' = FALSE /\ erase_needed' = FALSE /\ erase_only' = FALSE
         /\ checkpoint' = FALSE /\ timed_out' = FALSE
         /\ record' = Nothing /\ pending_record' = Nothing
         /\ target' = <<0, 1>> /\ pending_target' = <<0, 1>> /\ offset' = 0
         /\ prepare' = Idle /\ outcome' = "ok"

\* Power loss or reset: memory is gone, a flash operation is cut short.
Restart ==
    /\ Disturb /\ op' = NoOp /\ executing' = 2 /\ Fresh

\* The boot loader jumps to the application in slot b.
Handoff(b) ==
    /\ executing = 2 /\ constrained
    /\ prepare = [phase |-> "ready", bank |-> b]
    /\ executing' = b /\ Fresh
    /\ UNCHANGED <<cells, op>>

JournalStep == StartRequest \/ StartOperation \/ Wait \/ Verify
Next == \/ \E c \in 0..MaxCounter : Begin(c)
        \/ Timeout \/ JournalStep
        \/ \E b \in Banks : PrepareRuntime(b)
        \/ PrepareCopied \/ PrepareErased
        \/ FlashDone \/ FlashError \/ FlashCorrupts \/ Restart
        \/ \E b \in Banks : Handoff(b)

Spec == Init /\ [][Next /\ UNCHANGED constrained]_vars

\* The state of every variable.  In particular record_ is only programmed at
\* a location of the two metadata sectors and within the record.
TypeOK ==
    /\ constrained \in BOOLEAN
    /\ cells \in [Locations -> Cell]
    /\ op \in [kind : {"none", "erase", "write"}, at : Locations,
               unit : 0..(Units - 1), snapshot : Snapshot \cup {Nothing}]
    /\ outcome \in {"ok", "error"}
    /\ executing \in 0..2
    /\ machine \in {"idle", "erase", "erase_wait", "write", "write_wait",
                    "verify", "done", "failed"}
    /\ status \in {"ok", "busy", "failed"}
    /\ requested \in BOOLEAN /\ erase_needed \in BOOLEAN
    /\ erase_only \in BOOLEAN /\ checkpoint \in BOOLEAN
    /\ timed_out \in BOOLEAN
    /\ record \in Snapshot \cup {Nothing}
    /\ pending_record \in Snapshot \cup {Nothing}
    /\ target \in Locations /\ pending_target \in Locations
    /\ offset \in 0..Units
    /\ prepare \in [phase : {"idle", "copy", "erase", "ready"}, bank : Banks]

\* load() succeeds in every state a power loss can expose: some record decodes
\* and no two records that carry the newest sequence number differ.
AlwaysLoads == Loads

\* What a flash operation, a late one after a timeout included, may never do.
\* journal.h: "the last valid committed record is never erased until an
\* equivalent or newer snapshot has been committed and verified in the other
\* region": while a sector is being erased the other one holds the newest.
\* An application never erases the bank it executes from, and writes nothing
\* into it but a copy of the newest snapshot.  A program operation only meets
\* erased flash or the units of its own record, and record_, which it borrows
\* until poll() is terminal, does not change under it.
FlashUsedSafely ==
    /\ op.kind = "erase" => \E l \in Newest : l[1] # op.at[1]
    /\ executing < 2 /\ op # NoOp /\ op.at[1] = executing =>
         op.kind = "write" /\ op.snapshot = Current
    /\ op.kind = "write" =>
         /\ cells[op.at].kind \in
              IF op.unit = 0 THEN {"erased"} ELSE {"partial", "torn"}
         /\ op.snapshot = record

\* A commit that reported ok is what load() returns.
CommitReported ==
    machine = "done" /\ status = "ok" /\ ~erase_only => Current = record

\* Whatever fails, a restart finds a snapshot, and the one reported committed.
LoadsCommitted == TypeOK /\ AlwaysLoads /\ CommitReported

\* The journal implements the atomic snapshot register.  The proposed value
\* is the record being committed, until its last unit makes it the newest;
\* after a timeout only a last unit that is still being programmed counts.
Candidate ==
    IF status = "busy" THEN (IF checkpoint THEN pending_record ELSE record)
    ELSE IF op.kind = "write" /\ op.unit + 1 = Units THEN op.snapshot
    ELSE Nothing

Proposed == IF Candidate.sequence > Current.sequence THEN Candidate ELSE Nothing

Register == INSTANCE AtomicSnapshot WITH current <- Current, proposed <- Proposed

\* A commit happens completely or not at all whatever fails, and no failure
\* brings an older snapshot back.
CommitsAtomically == Register!Spec
==============================================================================
