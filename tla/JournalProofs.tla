---------------------------- MODULE JournalProofs ----------------------------
(***************************************************************************)
(* The inductive invariant of the boot journal, and the proof that every   *)
(* action keeps it, for every value of the constants; then the properties  *)
(* and the refinement that follow from it.                                 *)
(***************************************************************************)
EXTENDS Journal, TLAPS, WellFoundedInduction

(***************************************************************************)
(* What load() finds in a flash image.                                     *)
(***************************************************************************)
NewestOf(c) == {l \in Locations :
                  /\ c[l].kind = "valid"
                  /\ \A k \in Locations : c[k].kind = "valid" =>
                       c[k].snapshot.sequence <= c[l].snapshot.sequence}

FirstMet(S) == CHOOSE l \in S : \A k \in S :
                 l[1] < k[1] \/ (l[1] = k[1] /\ l[2] >= k[2])

CurrentOf(c) == c[FirstMet(NewestOf(c))].snapshot

LoadsOf(c) == NewestOf(c) # {} /\ \A k, l \in NewestOf(c) : c[k] = c[l]

\* The model's operators are these for the image in the flash.
LEMMA LoadNames ==
  /\ Newest = NewestOf(cells) /\ Newest' = NewestOf(cells')
  /\ Latest = FirstMet(Newest)
  /\ Current = CurrentOf(cells) /\ Current' = CurrentOf(cells')
  /\ Loads <=> LoadsOf(cells)
  /\ Loads' <=> LoadsOf(cells')
<1>1. Newest = NewestOf(cells) /\ Newest' = NewestOf(cells')
  BY Zenon DEF Newest, NewestOf, ValidAt
<1>2. Latest = FirstMet(Newest) /\ Latest' = FirstMet(Newest')
  BY Zenon DEF Latest, FirstMet
<1> QED
  BY <1>1, <1>2, Zenon DEF Current, CurrentOf, Loads, LoadsOf

\* A set of natural numbers that is not empty has a least element: proved from
\* the library at the end of this module, a hypothesis until then.
WellOrdered == \A T \in SUBSET Nat : T # {} => \E n \in T : \A m \in T : n <= m

\* The scan meets one of the newest records first.
LEMMA FirstMetIn ==
  ASSUME WellOrdered, NEW S \in SUBSET Locations, S # {}
  PROVE  FirstMet(S) \in S
<1> DEFINE rank(l) == l[1] * (Positions + 1) + (Positions - l[2])
           ranks == {rank(l) : l \in S}
<1>1. \A l \in Locations : l[1] \in {0, 1} /\ l[2] \in 1..Positions
  BY Zenon DEF Locations, Banks
<1>2. \A l \in Locations : rank(l) \in Nat
  BY <1>1, SizeAssumption
<1>3. ranks \subseteq Nat /\ ranks # {}
  BY <1>2, Zenon
<1>4. PICK n \in ranks : \A m \in ranks : n <= m
  <2> HIDE DEF ranks
  <2> QED
    BY <1>3, Zenon DEF WellOrdered
<1>5. PICK l \in S : n = rank(l)
  BY <1>4, Zenon
<1>6. ASSUME NEW k \in S
      PROVE  l[1] < k[1] \/ (l[1] = k[1] /\ l[2] >= k[2])
  <2>1. rank(l) <= rank(k)
    BY <1>4, <1>5, Zenon
  <2>2. l[1] \in {0, 1} /\ l[2] \in 1..Positions /\ k[1] \in {0, 1} /\ k[2] \in 1..Positions
    BY <1>1, Zenon
  <2> QED
    BY <2>1, <2>2, SizeAssumption
<1> QED
  BY <1>6, Zenon DEF FirstMet

\* What a record area holds.
LEMMA CellKinds ==
  ASSUME NEW x \in Cell
  PROVE  /\ x.kind = "valid" => x.snapshot \in Snapshot /\ x = Valid(x.snapshot)
         /\ x.kind # "valid" => x \in {Erased, Partial, Torn}
         /\ x.kind = "erased" => x = Erased
BY DEF Cell, Valid, Erased, Partial, Torn

\* load() returns the snapshot of every newest record.
LEMMA LoadFinds ==
  ASSUME WellOrdered, NEW c \in [Locations -> Cell], LoadsOf(c)
  PROVE  /\ FirstMet(NewestOf(c)) \in NewestOf(c)
         /\ CurrentOf(c) \in Snapshot
         /\ \A l \in NewestOf(c) : c[l] = Valid(CurrentOf(c))
         /\ \A l \in Locations : c[l].kind = "valid" =>
              c[l].snapshot.sequence <= CurrentOf(c).sequence
<1> DEFINE f == FirstMet(NewestOf(c))
<1>1. NewestOf(c) \in SUBSET Locations /\ NewestOf(c) # {}
  BY Zenon DEF NewestOf, LoadsOf
<1>2. f \in NewestOf(c)
  BY <1>1, FirstMetIn, Zenon
<1>3. f \in Locations /\ c[f].kind = "valid" /\ c[f] \in Cell
      /\ \A l \in Locations : c[l].kind = "valid" =>
              c[l].snapshot.sequence <= c[f].snapshot.sequence
  BY <1>2, Zenon DEF NewestOf
<1>4. c[f].snapshot \in Snapshot /\ c[f] = Valid(c[f].snapshot)
  BY <1>3, CellKinds, Zenon
<1>5. CurrentOf(c) = c[f].snapshot
  BY Zenon DEF CurrentOf
<1>6. \A l \in NewestOf(c) : c[l] = c[f]
  BY <1>2, Zenon DEF LoadsOf
<1> QED
  BY <1>2, <1>3, <1>4, <1>5, <1>6, Zenon

\* The snapshot of any newest record is the one load() returns.
LEMMA LoadIs ==
  ASSUME WellOrdered, NEW c \in [Locations -> Cell], LoadsOf(c), NEW l \in NewestOf(c),
         NEW s, c[l] = Valid(s)
  PROVE  CurrentOf(c) = s
<1>1. Valid(CurrentOf(c)) = Valid(s)
  BY LoadFinds, Zenon
<1> QED
  BY <1>1, Zenon DEF Valid

(***************************************************************************)
(* What changes of the image do to the newest record.                      *)
(***************************************************************************)
\* Losing records of one sector while the other one holds a newest record.
LEMMA ErasedImage ==
  ASSUME WellOrdered, NEW c \in [Locations -> Cell], NEW d \in [Locations -> Cell], LoadsOf(c),
         NEW b, NEW n \in NewestOf(c), n[1] # b,
         \A l \in Locations : l[1] # b => d[l] = c[l],
         \A l \in Locations : d[l] \in {c[l], Torn, Erased}
  PROVE  /\ LoadsOf(d) /\ CurrentOf(d) = CurrentOf(c)
         /\ n \in NewestOf(d)
<1>1. \A l \in Locations : d[l].kind = "valid" => d[l] = c[l]
  BY DEF Torn, Erased
<1>2. n \in Locations /\ d[n] = c[n]
  BY Zenon DEF NewestOf
<1>3. n \in NewestOf(d)
  BY <1>1, <1>2, Zenon DEF NewestOf
<1>4. ASSUME NEW l \in NewestOf(d)
      PROVE  l \in NewestOf(c) /\ d[l] = c[l]
  <2>1. l \in Locations /\ d[l].kind = "valid" /\ d[l] = c[l] /\ c[l] \in Cell
        /\ d[n].snapshot.sequence <= d[l].snapshot.sequence
    BY <1>1, <1>2, <1>3, <1>4, Zenon DEF NewestOf
  <2>2. \A k \in Locations : c[k].kind = "valid" =>
          c[k].snapshot.sequence <= c[n].snapshot.sequence
    BY Zenon DEF NewestOf
  <2>3. \A k \in Locations : c[k].kind = "valid" => c[k].snapshot.sequence \in Int
    BY CellKinds DEF Snapshot
  <2> QED
    BY <1>2, <2>1, <2>2, <2>3 DEF NewestOf
<1>5. LoadsOf(d)
  BY <1>3, <1>4, Zenon DEF LoadsOf
<1>6. d[n] = Valid(CurrentOf(c))
  BY <1>2, LoadFinds, Zenon
<1> QED
  BY <1>3, <1>5, <1>6, LoadIs, Zenon

\* Bytes that do not decode, in an area that held no record.
LEMMA SpoiledImage ==
  ASSUME WellOrdered, NEW c \in [Locations -> Cell], LoadsOf(c), NEW at \in Locations,
         c[at].kind # "valid", NEW x \in {Erased, Partial, Torn}
  PROVE  /\ LoadsOf([c EXCEPT ![at] = x])
         /\ CurrentOf([c EXCEPT ![at] = x]) = CurrentOf(c)
<1> DEFINE d == [c EXCEPT ![at] = x]
<1>1. d \in [Locations -> Cell] /\ d[at] = x /\ x.kind # "valid"
      /\ \A l \in Locations : l # at => d[l] = c[l]
  BY DEF Cell, Erased, Partial, Torn
<1> HIDE DEF d
<1>2. NewestOf(d) = NewestOf(c) /\ \A l \in NewestOf(c) : d[l] = c[l]
  BY <1>1, Zenon DEF NewestOf
<1>3. LoadsOf(d)
  BY <1>2, Zenon DEF LoadsOf
<1>4. PICK n \in NewestOf(d) : d[n] = Valid(CurrentOf(c))
  BY <1>2, LoadFinds, Zenon DEF LoadsOf
<1>5. CurrentOf(d) = CurrentOf(c)
  BY <1>1, <1>3, <1>4, LoadIs, Zenon
<1> QED
  BY <1>3, <1>5, Zenon DEF d

\* A record that completes: a copy of the newest, or one with a larger number.
LEMMA LandedImage ==
  ASSUME WellOrdered, NEW c \in [Locations -> Cell], LoadsOf(c), NEW at \in Locations,
         c[at].kind # "valid", NEW s \in Snapshot,
         s = CurrentOf(c) \/ s.sequence > CurrentOf(c).sequence
  PROVE  /\ LoadsOf([c EXCEPT ![at] = Valid(s)])
         /\ CurrentOf([c EXCEPT ![at] = Valid(s)]) = s
<1> DEFINE d == [c EXCEPT ![at] = Valid(s)]
<1>1. d \in [Locations -> Cell] /\ d[at] = Valid(s)
      /\ \A l \in Locations : l # at => d[l] = c[l]
  BY Zenon DEF Cell
<1>2. Valid(s).kind = "valid" /\ Valid(s).snapshot = s
  BY Zenon DEF Valid
<1> HIDE DEF d
<1>3. /\ CurrentOf(c) \in Snapshot
      /\ \A l \in NewestOf(c) : c[l] = Valid(CurrentOf(c))
      /\ \A l \in Locations : c[l].kind = "valid" =>
              c[l].snapshot.sequence <= CurrentOf(c).sequence
  BY LoadFinds, Zenon
<1>4. s.sequence \in Int /\ CurrentOf(c).sequence \in Int
      /\ \A l \in Locations : c[l].kind = "valid" => c[l].snapshot.sequence \in Int
  BY <1>3, CellKinds DEF Snapshot
<1>5. at \in NewestOf(d)
  BY <1>1, <1>2, <1>3, <1>4 DEF NewestOf
<1>6. ASSUME NEW l \in NewestOf(d), l # at
      PROVE  d[l] = Valid(s)
  <2>1. /\ l \in Locations /\ d[l] = c[l] /\ c[l].kind = "valid"
        /\ s.sequence <= c[l].snapshot.sequence
    BY <1>1, <1>2, <1>6, Zenon DEF NewestOf
  <2>2. s = CurrentOf(c) /\ c[l].snapshot.sequence = CurrentOf(c).sequence
    BY <2>1, <1>3, <1>4
  <2>3. l \in NewestOf(c)
    BY <2>1, <2>2, <1>3, Zenon DEF NewestOf
  <2> QED
    BY <2>1, <2>2, <2>3, <1>3, Zenon
<1>7. LoadsOf(d)
  BY <1>1, <1>5, <1>6, Zenon DEF LoadsOf
<1>8. CurrentOf(d) = s
  BY <1>1, <1>5, <1>7, LoadIs, Zenon
<1> QED
  BY <1>7, <1>8, Zenon DEF d

(***************************************************************************)
(* The inductive invariant.                                                *)
(***************************************************************************)
FlagsOK == /\ constrained \in BOOLEAN /\ requested \in BOOLEAN
           /\ erase_needed \in BOOLEAN /\ erase_only \in BOOLEAN
           /\ checkpoint \in BOOLEAN /\ timed_out \in BOOLEAN

DeviceOK == /\ cells \in [Locations -> Cell]
            /\ op \in [kind : {"none", "erase", "write"}, at : Locations,
                       unit : 0..(Units - 1), snapshot : Snapshot \cup {Nothing}]
            /\ outcome \in {"ok", "error"}

StateOK == /\ executing \in 0..2
           /\ machine \in {"idle", "erase", "erase_wait", "write", "write_wait",
                           "verify", "done", "failed"}
           /\ status \in {"ok", "busy", "failed"}
           /\ prepare \in [phase : {"idle", "copy", "erase", "ready"}, bank : Banks]

BuffersOK == /\ record \in Snapshot \cup {Nothing}
             /\ pending_record \in Snapshot \cup {Nothing}
             /\ target \in Locations /\ pending_target \in Locations
             /\ offset \in 0..Units

Resting == {"idle", "done", "failed"}

\* A request is busy until the machine is done with it.
Control ==
    /\ status = "busy" <=> requested \/ machine \notin Resting
    /\ requested => machine \in Resting
    /\ status = "ok" => machine \in {"idle", "done"}

\* The operation in progress is the one the machine waits for, or one it gave
\* up on, and the buffers it was started with are as they were.
Borrowed ==
    /\ op.kind = "none" => op = NoOp
    /\ op.kind = "erase" => machine = "erase_wait" \/ (machine = "failed" /\ ~requested)
    /\ op.kind = "write" => machine = "write_wait" \/ (machine = "failed" /\ ~requested)
    /\ op # NoOp => op.at = target /\ op.snapshot = record /\ op.unit = offset

Erasing == \/ requested /\ erase_needed
           \/ machine \in {"erase", "erase_wait"}
           \/ op.kind = "erase"
Writing == \/ requested /\ ~erase_needed
           \/ machine = "write"
           \/ op.kind = "write"

\* The sector other than b's holds a newest record.
Backed(b) == \E l \in Newest : l[1] # b

\* The target area before program operation n.
Room(n) == cells[target].kind \in IF n = 0 THEN {"erased"} ELSE {"partial", "torn"}

\* A sector to be erased is backed, an area to be written is ready for it.
Sectors ==
    /\ status = "busy" /\ erase_only => Erasing
    /\ Erasing => offset = 0 /\ Backed(target[1])
    /\ machine = "erase_wait" /\ op = NoOp /\ outcome = "ok" => cells[target] = Erased
    /\ requested => offset = 0
    /\ Writing => Room(offset)
    /\ machine \in {"write", "write_wait"} => offset < Units
    /\ machine = "write_wait" /\ op = NoOp /\ outcome = "ok" /\ offset + 1 < Units =>
         Room(offset + 1)

\* A snapshot that a commit may make the next one.
Newer(s) == /\ s \in Snapshot
            /\ s.sequence = Current.sequence + 1 /\ s.counter >= Current.counter

\* What is written is a copy of the newest snapshot or its successor; a
\* checkpoint is such a copy and postpones the successor.
Records ==
    /\ record.sequence <= Current.sequence \/ Newer(record)
    /\ (status = "busy" /\ ~erase_only) \/ op.kind = "write" =>
         record = Current \/ Newer(record)
    /\ status = "busy" /\ checkpoint =>
         /\ record = Current /\ Newer(pending_record)
         /\ executing < 2 /\ target[1] = executing
         /\ pending_target = <<1 - executing, 1>>
         /\ ~Erasing /\ ~erase_only

\* An application writes to its own bank only what a checkpoint copies.
Executing ==
    /\ executing < 2 => prepare = Idle
    /\ executing < 2 /\ status = "busy" /\ ~checkpoint => target[1] # executing
    /\ executing < 2 /\ op # NoOp /\ op.at[1] = executing =>
         op.kind = "write" /\ record = Current

\* prepare_runtime() erases the bank once the copy is in the other one.
Preparing ==
    /\ prepare.phase = "ready" => status # "busy" /\ op = NoOp
    /\ prepare.phase = "copy" =>
         /\ target[1] # prepare.bank /\ ~checkpoint /\ ~erase_only
         /\ status = "busy" => record = Current
         /\ status = "ok" => Backed(prepare.bank)

IInv == /\ FlagsOK /\ DeviceOK /\ StateOK /\ BuffersOK
        /\ Loads /\ Control /\ Borrowed /\ Sectors /\ Records /\ Executing
        /\ Preparing /\ CommitReported

LEMMA Types == TypeOK <=> FlagsOK /\ DeviceOK /\ StateOK /\ BuffersOK
BY Zenon DEF TypeOK, FlagsOK, DeviceOK, StateOK, BuffersOK

LEMMA Constants ==
  /\ Locations = {0, 1} \X (1..Positions)
  /\ Positions \in Nat \ {0} /\ Units \in Nat \ {0}
  /\ <<0, 1>> \in Locations /\ <<1, 1>> \in Locations
  /\ \A s \in Snapshot : s.sequence \in Nat \ {0} /\ s.counter \in Nat
  /\ Nothing.sequence = 0 /\ Nothing.counter = 0 /\ Nothing \notin Snapshot
  /\ NoOp.kind = "none"
BY SizeAssumption, CountAssumption
   DEF Locations, Banks, Snapshot, Nothing, NoOp

\* What load() finds, in terms of the model.
LEMMA CurrentFound ==
  ASSUME WellOrdered, DeviceOK, Loads
  PROVE  /\ Latest \in Newest /\ Latest \in Locations
         /\ Current \in Snapshot
         /\ \A l \in Newest : cells[l] = Valid(Current)
         /\ \A l \in Locations : cells[l].kind = "valid" =>
              cells[l].snapshot.sequence <= Current.sequence
<1>1. cells \in [Locations -> Cell] /\ LoadsOf(cells)
  BY LoadNames, Zenon DEF DeviceOK
<1>2. NewestOf(cells) \subseteq Locations
  BY Zenon DEF NewestOf
<1> QED
  BY <1>1, <1>2, LoadNames, LoadFinds, Zenon

\* A record that reads back as the current snapshot is a newest one.
LEMMA CopyIsNewest ==
  ASSUME WellOrdered, DeviceOK, Loads, NEW l \in Locations, cells[l] = Valid(Current)
  PROVE  l \in Newest
<1>1. cells[l].kind = "valid" /\ cells[l].snapshot = Current
  BY DEF Valid
<1>2. \A k \in Locations : cells[k].kind = "valid" =>
              cells[k].snapshot.sequence <= Current.sequence
  BY CurrentFound, Zenon
<1> QED
  BY <1>1, <1>2, Zenon DEF Newest, ValidAt

\* A record that reads back cannot be a successor yet.
LEMMA ReadBackIsCurrent ==
  ASSUME WellOrdered, DeviceOK, Loads, target \in Locations, cells[target] = Valid(record),
         record = Current \/ Newer(record)
  PROVE  record = Current
<1>1. cells[target].kind = "valid" /\ cells[target].snapshot = record
  BY DEF Valid
<1>2. record.sequence <= Current.sequence /\ Current \in Snapshot
  BY <1>1, CurrentFound, Zenon
<1> QED
  BY <1>2, Constants DEF Newer

\* The first erased area of a bank.
LEMMA FirstFreeErased ==
  ASSUME WellOrdered, NEW b \in Banks, NEW p \in Nat, FirstFree(b, p) # 0
  PROVE  /\ FirstFree(b, p) \in 1..Positions
         /\ <<b, FirstFree(b, p)>> \in Locations
         /\ cells[<<b, FirstFree(b, p)>>] = Erased
<1> DEFINE free == {q \in 1..Positions : q >= p /\ cells[<<b, q>>] = Erased}
<1>1. FirstFree(b, p) = IF free = {} THEN 0
                        ELSE CHOOSE q \in free : \A r \in free : q <= r
  BY Zenon DEF FirstFree
<1>2. free # {} /\ free \subseteq Nat
  BY <1>1, Constants
<1>3. \E q \in free : \A r \in free : q <= r
  <2> HIDE DEF free
  <2> QED
    BY <1>2, Zenon DEF WellOrdered
<1>4. FirstFree(b, p) \in free
  <2> HIDE DEF free
  <2> QED
    BY <1>1, <1>2, <1>3, Zenon
<1> QED
  BY <1>4, Zenon DEF Locations

\* While the image stays as it is, so does what load() finds in it.
LEMMA SameImage ==
  ASSUME UNCHANGED cells
  PROVE  /\ Newest' = Newest /\ Current' = Current /\ (Loads' <=> Loads)
         /\ \A b : Backed(b)' <=> Backed(b)
         /\ \A s : Newer(s)' <=> Newer(s)
<1>1. Newest' = Newest /\ Current' = Current /\ (Loads' <=> Loads)
  BY LoadNames, Zenon
<1> QED
  BY <1>1, Zenon DEF Backed, Newer

(***************************************************************************)
(* What the flash operation in progress can do to the image, whether it    *)
(* succeeds, fails or is cut short.                                        *)
(***************************************************************************)
EraseEffect == /\ cells' \in [Locations -> Cell]
               /\ \A l \in Locations : l[1] # op.at[1] => cells'[l] = cells[l]
               /\ \A l \in Locations : cells'[l] \in {cells[l], Torn, Erased}

WriteEffect(x) == /\ cells' = [cells EXCEPT ![op.at] = x]
                  /\ \/ x \in {Erased, Partial, Torn}
                     \/ x = Valid(op.snapshot) /\ op.unit + 1 = Units

Effect == /\ op.kind = "none" => UNCHANGED cells
          /\ op.kind = "erase" => EraseEffect
          /\ op.kind = "write" => \E x : WriteEffect(x)

LEMMA DisturbEffect ==
  ASSUME IInv, Disturb
  PROVE  Effect
<1>1. DeviceOK /\ Borrowed
  BY Zenon DEF IInv
<1>2. CASE op.kind = "none"
  BY <1>1, <1>2, Constants, Zenon DEF Disturb, Effect
<1>3. CASE op.kind = "erase"
  <2>1. PICK kept, torn \in SUBSET (1..Positions) :
          cells' = [l \in Locations |->
                 IF l[1] # op.at[1] \/ l[2] \in kept THEN cells[l]
                 ELSE IF l[2] \in torn THEN Torn ELSE Erased]
    BY <1>3, Constants, Zenon DEF Disturb
  <2>2. Torn \in Cell /\ Erased \in Cell
    BY Zenon DEF Cell
  <2>3. EraseEffect
    BY <1>1, <2>1, <2>2, Zenon DEF EraseEffect, DeviceOK
  <2> QED
    BY <1>3, <2>3, Zenon DEF Effect
<1>4. CASE op.kind = "write"
  <2>1. PICK x \in Leftovers(cells[op.at]) : cells' = [cells EXCEPT ![op.at] = x]
    BY <1>4, Constants, Zenon DEF Disturb
  <2>2. WriteEffect(x)
    BY <2>1, Zenon DEF WriteEffect, Leftovers, Programmed
  <2> QED
    BY <1>4, <2>2, Zenon DEF Effect
<1> QED
  BY <1>1, <1>2, <1>3, <1>4, Zenon DEF DeviceOK

\* In addition, an operation that succeeded leaves what it was asked for.
LEMMA DoneEffect ==
  ASSUME IInv, FlashDone
  PROVE  /\ Effect
         /\ op.kind = "erase" => cells'[target] = Erased
         /\ op.kind = "write" /\ op.unit + 1 < Units =>
              cells'[target].kind \in {"partial", "torn"}
<1>1. DeviceOK /\ Borrowed /\ op # NoOp /\ op.at = target /\ target \in Locations
      /\ op.kind \in {"none", "erase", "write"} /\ op.kind # "none"
  BY Zenon DEF IInv, FlashDone, Borrowed, BuffersOK, DeviceOK
<1>2. CASE op.kind = "erase"
  <2>1. cells' = [l \in Locations |-> IF l[1] = op.at[1] THEN Erased ELSE cells[l]]
    BY <1>2, Zenon DEF FlashDone
  <2>2. Torn \in Cell /\ Erased \in Cell
    BY Zenon DEF Cell
  <2>3. EraseEffect
    BY <1>1, <2>1, <2>2, Zenon DEF EraseEffect, DeviceOK
  <2> QED
    BY <1>1, <1>2, <2>1, <2>3, Zenon DEF Effect
<1>3. CASE op.kind = "write"
  <2> DEFINE x == Programmed(cells[op.at])
  <2>1. cells' = [l \in Locations |-> IF l = op.at THEN Programmed(cells[l]) ELSE cells[l]]
    BY <1>3, Zenon DEF FlashDone
  <2>2. cells' = [cells EXCEPT ![op.at] = x] /\ cells'[target] = x
    BY <1>1, <2>1, Zenon DEF DeviceOK
  <2>3. WriteEffect(x)
    BY <2>2, Zenon DEF WriteEffect, Programmed
  <2>4. op.unit + 1 < Units => x \in {Partial, Torn}
    BY <1>1, Constants DEF Programmed, DeviceOK
  <2> QED
    BY <1>3, <2>2, <2>3, <2>4 DEF Effect, Partial, Torn
<1> QED
  BY <1>1, <1>2, <1>3, Zenon

LEMMA CorruptEffect ==
  ASSUME IInv, FlashCorrupts
  PROVE  Effect /\ cells'[target] = Torn
<1>1. DeviceOK /\ op.at = target /\ target \in Locations
  BY Constants, Zenon DEF IInv, FlashCorrupts, Borrowed, BuffersOK
<1>2. WriteEffect(Torn)
  BY Zenon DEF FlashCorrupts, WriteEffect
<1> QED
  BY <1>1, <1>2, Zenon DEF Effect, FlashCorrupts, DeviceOK

\* Whatever it does, load() goes on to succeed, with the snapshot as before or
\* the one that was being committed; a sector's backing survives its erasure.
LEMMA EffectKeeps ==
  ASSUME WellOrdered, IInv, Effect
  PROVE  /\ cells' \in [Locations -> Cell] /\ Loads'
         /\ \/ Current' = Current
            \/ /\ op.kind = "write" /\ op.unit + 1 = Units
               /\ Newer(record) /\ Current' = record
         /\ op.kind = "erase" => \E n \in Newest' : n[1] # target[1]
         /\ op.kind = "none" => UNCHANGED cells
<1>1. /\ DeviceOK /\ Loads /\ Borrowed /\ cells \in [Locations -> Cell]
      /\ target \in Locations /\ LoadsOf(cells)
      /\ op.kind \in {"none", "erase", "write"}
  BY LoadNames, Zenon DEF IInv, DeviceOK, BuffersOK
<1>2. CASE op.kind = "none"
  BY <1>1, <1>2, SameImage, Zenon DEF Effect
<1>3. CASE op.kind = "erase"
  <2>1. op.at = target /\ EraseEffect
    BY <1>1, <1>3, Constants, Zenon DEF Borrowed, Effect
  <2>2. PICK n \in Newest : n[1] # target[1]
    BY <1>3, Zenon DEF IInv, Sectors, Erasing, Backed
  <2>3. n \in NewestOf(cells)
    BY <2>2, LoadNames, Zenon
  <2>4. /\ cells' \in [Locations -> Cell]
        /\ \A l \in Locations : l[1] # target[1] => cells'[l] = cells[l]
        /\ \A l \in Locations : cells'[l] \in {cells[l], Torn, Erased}
    BY <2>1, Zenon DEF EraseEffect
  <2>5. /\ LoadsOf(cells') /\ CurrentOf(cells') = CurrentOf(cells)
        /\ n \in NewestOf(cells')
    BY <1>1, <2>2, <2>3, <2>4, ErasedImage, Zenon
  <2>6. Loads' /\ Current' = Current /\ n \in Newest'
    BY <2>5, LoadNames, Zenon
  <2> QED
    BY <1>3, <2>2, <2>4, <2>6, Zenon
<1>4. CASE op.kind = "write"
  <2>1. op.at = target /\ op.snapshot = record
    BY <1>1, <1>4, Constants, Zenon DEF Borrowed
  <2>2. PICK x : WriteEffect(x)
    BY <1>4, Zenon DEF Effect
  <2>3. cells' = [cells EXCEPT ![target] = x]
    BY <2>1, <2>2, Zenon DEF WriteEffect
  <2>4. cells[target].kind # "valid"
    BY <1>4, Zenon DEF IInv, Sectors, Writing, Room
  <2>5. CASE x \in {Erased, Partial, Torn}
    <3>1. LoadsOf(cells') /\ CurrentOf(cells') = CurrentOf(cells)
      BY <1>1, <2>3, <2>4, <2>5, SpoiledImage, Zenon
    <3>2. cells' \in [Locations -> Cell]
      BY <1>1, <2>3, <2>5, Zenon DEF Cell
    <3> QED
      BY <1>4, <3>1, <3>2, LoadNames, Zenon
  <2>6. CASE x = Valid(op.snapshot) /\ op.unit + 1 = Units
    <3>1. (record = Current \/ Newer(record)) /\ Current \in Snapshot
      BY <1>1, <1>4, CurrentFound, Zenon DEF IInv, Records
    <3>2. record \in Snapshot /\ (record = Current \/ record.sequence > Current.sequence)
      BY <3>1, Constants DEF Newer
    <3>3. LoadsOf(cells') /\ CurrentOf(cells') = record
      BY <1>1, <2>1, <2>3, <2>4, <2>6, <3>2, LandedImage, LoadNames, Zenon
    <3>4. cells' \in [Locations -> Cell]
      BY <1>1, <2>1, <2>3, <2>6, <3>2, Zenon DEF Cell
    <3> QED
      BY <1>4, <2>6, <3>1, <3>3, <3>4, LoadNames, Zenon
  <2> QED
    BY <2>2, <2>5, <2>6, Zenon DEF WriteEffect
<1> QED
  BY <1>1, <1>2, <1>3, <1>4, Zenon

(***************************************************************************)
(* The machine's steps.  None of them touches the image.                   *)
(***************************************************************************)
LEMMA TimeoutStep ==
  ASSUME IInv, Timeout, UNCHANGED constrained
  PROVE  IInv'
<1>1. UNCHANGED <<cells, op, outcome, executing, machine, status, requested,
                  erase_needed, erase_only, checkpoint, record, pending_record,
                  target, pending_target, offset, prepare>>
  BY Zenon DEF Timeout, device, buffers
<1>2. timed_out' \in BOOLEAN
  BY Zenon DEF Timeout
<1>3. Newest' = Newest /\ Current' = Current /\ (Loads' <=> Loads)
  BY <1>1, SameImage, Zenon
<1>4. FlagsOK' /\ DeviceOK' /\ StateOK' /\ BuffersOK'
  BY <1>1, <1>2 DEF IInv, FlagsOK, DeviceOK, StateOK, BuffersOK
<1>5. Control' /\ Borrowed' /\ Sectors'
  BY <1>1, <1>3, Zenon
     DEF IInv, Control, Borrowed, Sectors, Erasing, Writing, Backed, Room
<1>6. Records' /\ Executing' /\ Preparing' /\ CommitReported'
  BY <1>1, <1>3, Zenon DEF IInv, Records, Newer, Erasing, Executing, Preparing, Backed,
                    CommitReported
<1> QED
  BY <1>3, <1>4, <1>5, <1>6, Zenon DEF IInv

LEMMA StartRequestStep ==
  ASSUME IInv, StartRequest, UNCHANGED constrained
  PROVE  IInv'
<1>1. UNCHANGED <<cells, op, outcome, executing, status,
                  erase_needed, erase_only, checkpoint, timed_out, record,
                  pending_record, target, pending_target, offset, prepare>>
  BY Zenon DEF StartRequest, device, buffers
<1>2. requested' \in BOOLEAN
  BY Zenon DEF StartRequest
<1>3. Newest' = Newest /\ Current' = Current /\ (Loads' <=> Loads)
  BY <1>1, SameImage, Zenon
<1>4. /\ requested /\ ~requested' /\ machine \in Resting /\ status = "busy"
      /\ machine' = IF erase_needed THEN "erase" ELSE "write"
      /\ op = NoOp /\ op.kind = "none" /\ offset = 0
  BY Constants, Zenon
     DEF StartRequest, IInv, Control, Resting, Borrowed, DeviceOK, Sectors
<1>5. FlagsOK' /\ DeviceOK' /\ StateOK' /\ BuffersOK'
  BY <1>1, <1>2, <1>4 DEF IInv, FlagsOK, DeviceOK, StateOK, BuffersOK
<1>6. Control' /\ Borrowed'
  BY <1>1, <1>4, Zenon DEF IInv, Control, Borrowed, Resting
<1>7. Sectors'
  BY <1>1, <1>3, <1>4, Constants
     DEF IInv, Sectors, Erasing, Writing, Backed, Room, Resting
<1>8. Records' /\ Executing' /\ Preparing' /\ CommitReported'
  BY <1>1, <1>3, <1>4, Zenon
     DEF IInv, Records, Newer, Erasing, Executing, Preparing, Backed, CommitReported
<1> QED
  BY <1>3, <1>5, <1>6, <1>7, <1>8, Zenon DEF IInv

\* A step that fails changes nothing but the machine and its status.
LEMMA FailStep ==
  ASSUME IInv, status = "busy", ~requested, Fail, UNCHANGED constrained,
         UNCHANGED <<cells, op, outcome, executing, requested, erase_needed,
                     erase_only, checkpoint, timed_out, record, pending_record,
                     target, pending_target, offset, prepare>>
  PROVE  IInv'
<1>1. Newest' = Newest /\ Current' = Current /\ (Loads' <=> Loads)
  BY SameImage, Zenon
<1>2. machine' = "failed" /\ status' = "failed"
  BY Zenon DEF Fail
<1>3. FlagsOK' /\ DeviceOK' /\ StateOK' /\ BuffersOK'
  BY <1>2 DEF IInv, FlagsOK, DeviceOK, StateOK, BuffersOK
<1>4. Control' /\ Borrowed'
  BY <1>2, Zenon DEF IInv, Control, Borrowed, Resting
<1>5. Sectors'
  BY <1>1, <1>2, Zenon DEF IInv, Sectors, Erasing, Writing, Backed, Room
<1>6. Records' /\ Executing' /\ Preparing' /\ CommitReported'
  BY <1>1, <1>2, Zenon DEF IInv, Records, Newer, Erasing, Executing, Preparing, Backed,
                    CommitReported
<1> QED
  BY <1>1, <1>3, <1>4, <1>5, <1>6, Zenon DEF IInv

LEMMA StartOperationStep ==
  ASSUME IInv, StartOperation, UNCHANGED constrained
  PROVE  IInv'
<1>1. UNCHANGED <<cells, outcome, executing, requested, erase_needed, erase_only,
                  checkpoint, timed_out, record, pending_record, target,
                  pending_target, offset, prepare>>
  BY Zenon DEF StartOperation, flags, buffers
<1>2. machine \in {"erase", "write"} /\ status = "busy" /\ ~requested
  BY Zenon DEF StartOperation, IInv, Control, Resting
<1>3. CASE Fail /\ UNCHANGED op
  BY <1>1, <1>2, <1>3, FailStep, Zenon
<1>4. CASE /\ ~timed_out /\ op = NoOp
           /\ op' = [kind |-> machine, at |-> target, unit |-> offset,
                     snapshot |-> record]
           /\ machine' = IF machine = "erase" THEN "erase_wait" ELSE "write_wait"
           /\ UNCHANGED status
  <2>1. Newest' = Newest /\ Current' = Current /\ (Loads' <=> Loads)
    BY <1>1, SameImage, Zenon
  <2>2. /\ op'.kind = machine /\ op'.at = target /\ op'.unit = offset
        /\ op'.snapshot = record /\ op' # NoOp
    BY <1>2, <1>4, Constants
  <2>3. offset \in 0..(Units - 1)
    BY <1>2, Constants DEF IInv, Sectors, Erasing, BuffersOK
  <2>4. FlagsOK' /\ StateOK' /\ BuffersOK'
    BY <1>1, <1>4 DEF IInv, FlagsOK, StateOK, BuffersOK
  <2>5. DeviceOK'
    BY <1>1, <1>2, <1>4, <2>3, Zenon DEF IInv, DeviceOK, BuffersOK
  <2>6. Control' /\ Borrowed'
    BY <1>1, <1>2, <1>4, <2>2, Zenon DEF IInv, Control, Borrowed, Resting
  <2>7. ~erase_only \/ machine = "erase"
    BY <1>2, <1>4, Constants, Zenon DEF IInv, Sectors, Erasing
  <2>8. Sectors'
    BY <1>1, <1>2, <1>4, <2>1, <2>2, <2>3, <2>7, Zenon
       DEF IInv, Sectors, Erasing, Writing, Backed, Room
  <2>9. Records'
    BY <1>1, <1>2, <1>4, <2>1, <2>2, <2>7, Zenon DEF IInv, Records, Newer, Erasing
  <2>10. Executing' /\ Preparing' /\ CommitReported'
    BY <1>1, <1>2, <1>4, <2>1, <2>2, Zenon
       DEF IInv, Records, Erasing, Executing, Preparing, Backed, CommitReported
  <2> QED
    BY <2>1, <2>4, <2>5, <2>6, <2>8, <2>9, <2>10, Zenon DEF IInv
<1> QED
  BY <1>3, <1>4, Zenon DEF StartOperation

LEMMA WaitStep ==
  ASSUME IInv, Wait, UNCHANGED constrained
  PROVE  IInv'
<1>1. UNCHANGED <<cells, op, outcome, executing, requested, erase_needed, erase_only,
                  checkpoint, timed_out, record, pending_record, target,
                  pending_target, prepare>>
  BY Zenon DEF Wait, device, flags
<1>2. machine \in {"erase_wait", "write_wait"} /\ status = "busy" /\ ~requested
  BY Zenon DEF Wait, IInv, Control, Resting
<1>3. CASE op # NoOp \/ outcome # "ok" \/ timed_out
  <2>1. Fail /\ UNCHANGED offset
    BY <1>3, Zenon DEF Wait
  <2> QED
    BY <1>1, <1>2, <2>1, FailStep, Zenon
<1>4. CASE ~(op # NoOp \/ outcome # "ok" \/ timed_out)
  <2>1. Newest' = Newest /\ Current' = Current /\ (Loads' <=> Loads)
    BY <1>1, SameImage, Zenon
  <2>2. op.kind = "none" /\ op = NoOp /\ outcome = "ok"
    BY <1>4, Constants, Zenon
  <2>3. FlagsOK' /\ DeviceOK'
    BY <1>1, Zenon DEF IInv, FlagsOK, DeviceOK
  <2>4. CASE machine = "erase_wait"
    <3>1. /\ machine' = IF erase_only THEN "done" ELSE "write"
          /\ status' = IF erase_only THEN "ok" ELSE status
          /\ UNCHANGED offset
      BY <1>4, <2>4, Zenon DEF Wait
    <3>2. cells[target] = Erased /\ offset = 0
      BY <2>2, <2>4, Zenon DEF IInv, Sectors, Erasing
    <3>3. StateOK' /\ BuffersOK'
      BY <1>1, <3>1, Zenon DEF IInv, StateOK, BuffersOK
    <3>4. Control' /\ Borrowed'
      BY <1>1, <1>2, <2>2, <3>1, Zenon DEF IInv, Control, Borrowed, Resting
    <3>5. Sectors'
      BY <1>1, <1>2, <2>1, <2>2, <2>4, <3>1, <3>2, Constants
         DEF IInv, Sectors, Erasing, Writing, Backed, Room, Erased
    <3>6. Records'
      BY <1>1, <1>2, <2>1, <2>2, <2>4, <3>1, Zenon DEF IInv, Records, Newer, Erasing
    <3>7. Executing' /\ Preparing' /\ CommitReported'
      BY <1>1, <1>2, <2>1, <2>2, <2>4, <3>1, Zenon
         DEF IInv, Executing, Preparing, Backed, CommitReported
    <3> QED
      BY <2>1, <2>3, <3>3, <3>4, <3>5, <3>6, <3>7, Zenon DEF IInv
  <2>5. CASE machine = "write_wait"
    <3>1. /\ offset' = offset + 1
          /\ machine' = IF offset + 1 = Units THEN "verify" ELSE "write"
          /\ UNCHANGED status
      BY <1>4, <2>5, Zenon DEF Wait, RecordDone
    <3>2. offset \in Nat /\ offset < Units /\ (offset + 1 < Units => Room(offset + 1))
      BY <2>2, <2>5, Constants DEF IInv, Sectors, BuffersOK
    <3>3. StateOK' /\ BuffersOK'
      BY <1>1, <3>1, <3>2, Constants DEF IInv, StateOK, BuffersOK
    <3>4. Control' /\ Borrowed'
      BY <1>1, <1>2, <2>2, <3>1, Zenon DEF IInv, Control, Borrowed, Resting
    <3>5. Sectors'
      BY <1>1, <1>2, <2>1, <2>2, <2>5, <3>1, <3>2, Constants
         DEF IInv, Sectors, Erasing, Writing, Backed, Room
    <3>6. Records'
      BY <1>1, <1>2, <2>1, <2>2, <2>5, <3>1, Zenon DEF IInv, Records, Newer, Erasing
    <3>7. Executing' /\ Preparing' /\ CommitReported'
      BY <1>1, <1>2, <2>1, <2>2, <2>5, <3>1, Zenon
         DEF IInv, Executing, Preparing, Backed, CommitReported
    <3> QED
      BY <2>1, <2>3, <3>3, <3>4, <3>5, <3>6, <3>7, Zenon DEF IInv
  <2> QED
    BY <1>2, <2>4, <2>5, Zenon
<1> QED
  BY <1>3, <1>4, Zenon

LEMMA VerifyStep ==
  ASSUME WellOrdered, IInv, Verify, UNCHANGED constrained
  PROVE  IInv'
<1>1. UNCHANGED <<cells, op, outcome, executing, requested, erase_needed, erase_only,
                  timed_out, pending_record, pending_target, prepare>>
  BY Zenon DEF Verify, device
<1>2. machine = "verify" /\ status = "busy" /\ ~requested /\ op = NoOp /\ op.kind = "none"
  BY Constants, Zenon DEF Verify, IInv, Control, Resting, Borrowed, DeviceOK
<1>3. CASE ~ReadsBack
  <2>1. Fail /\ UNCHANGED <<checkpoint, record, target, offset>>
    BY <1>3, Zenon DEF Verify
  <2> QED
    BY <1>1, <1>2, <2>1, FailStep, Zenon
<1>4. CASE ReadsBack
  <2>1. Newest' = Newest /\ Current' = Current /\ (Loads' <=> Loads)
    BY <1>1, SameImage, Zenon
  <2>2. ~erase_only
    BY <1>2, Zenon DEF IInv, Sectors, Erasing
  <2>3. cells[target] = Valid(record) /\ target \in Locations /\ DeviceOK /\ Loads
        /\ (record = Current \/ Newer(record))
    BY <1>2, <1>4, <2>2, Zenon DEF ReadsBack, IInv, BuffersOK, Records
  <2>4. record = Current
    BY <2>3, ReadBackIsCurrent, Zenon
  <2>5. target \in Newest
    BY <2>3, <2>4, CopyIsNewest, Zenon
  <2>6. CASE checkpoint
    <3>1. /\ record' = pending_record /\ target' = pending_target
          /\ offset' = 0 /\ checkpoint' = FALSE
          /\ machine' = "erase" /\ UNCHANGED status
      BY <1>4, <2>6, Zenon DEF Verify
    <3>2. /\ Newer(pending_record) /\ executing < 2 /\ target[1] = executing
          /\ pending_target = <<1 - executing, 1>>
      BY <1>2, <2>6, Zenon DEF IInv, Records
    <3>3. checkpoint' \in BOOLEAN
      BY <3>1, Zenon
    <3>4. executing \in {0, 1} /\ target'[1] = 1 - executing
      BY <3>1, <3>2 DEF IInv, StateOK
    <3>5. Backed(target[1])'
      BY <2>1, <2>5, <3>2, <3>4 DEF Backed
    <3>6. FlagsOK' /\ DeviceOK' /\ StateOK' /\ BuffersOK'
      BY <1>1, <3>1, <3>3, Constants DEF IInv, FlagsOK, DeviceOK, StateOK, BuffersOK
    <3>7. Control' /\ Borrowed'
      BY <1>1, <1>2, <3>1, Zenon DEF IInv, Control, Borrowed, Resting
    <3>8. Sectors'
      BY <1>1, <1>2, <3>1, <3>5, Zenon DEF IInv, Sectors, Erasing, Writing
    <3>9. Records'
      BY <1>1, <1>2, <2>1, <3>1, <3>2, Zenon DEF IInv, Records, Newer
    <3>10. Executing' /\ Preparing' /\ CommitReported'
      BY <1>1, <1>2, <2>1, <3>1, <3>2, <3>4
         DEF IInv, Executing, Preparing, CommitReported, Idle
    <3> QED
      BY <2>1, <3>6, <3>7, <3>8, <3>9, <3>10, Zenon DEF IInv
  <2>7. CASE ~checkpoint
    <3>1. /\ machine' = "done" /\ status' = "ok"
          /\ UNCHANGED <<checkpoint, record, target, offset>>
      BY <1>4, <2>7, Zenon DEF Verify
    <3>2. FlagsOK' /\ DeviceOK' /\ StateOK' /\ BuffersOK'
      BY <1>1, <3>1 DEF IInv, FlagsOK, DeviceOK, StateOK, BuffersOK
    <3>3. Control' /\ Borrowed'
      BY <1>1, <1>2, <3>1, Zenon DEF IInv, Control, Borrowed, Resting
    <3>4. Sectors'
      BY <1>1, <1>2, <2>1, <3>1, Zenon DEF IInv, Sectors, Erasing, Writing
    <3>5. Records'
      BY <1>1, <1>2, <2>1, <3>1, Zenon DEF IInv, Records, Newer
    <3>6. Executing' /\ Preparing' /\ CommitReported'
      BY <1>1, <1>2, <2>1, <2>4, <2>5, <3>1, Zenon
         DEF IInv, Executing, Preparing, CommitReported, Backed
    <3> QED
      BY <2>1, <3>2, <3>3, <3>4, <3>5, <3>6, Zenon DEF IInv
  <2> QED
    BY <2>6, <2>7, Zenon
<1> QED
  BY <1>3, <1>4, Zenon

(***************************************************************************)
(* Requests: begin() and prepare_runtime().                                *)
(***************************************************************************)
\* A request that finds the device idle: what has to hold of its plan.
LEMMA RequestStep ==
  ASSUME IInv, status # "busy", op = NoOp, UNCHANGED constrained,
         UNCHANGED <<cells, op, executing, machine>>,
         outcome' \in {"ok", "error"},
         prepare' \in [phase : {"idle", "copy", "erase", "ready"}, bank : Banks],
         requested' = TRUE, status' = "busy", offset' = 0,
         requested' \in BOOLEAN, erase_needed' \in BOOLEAN, erase_only' \in BOOLEAN,
         checkpoint' \in BOOLEAN, timed_out' \in BOOLEAN,
         record' \in Snapshot \cup {Nothing},
         pending_record' \in Snapshot \cup {Nothing},
         target' \in Locations, pending_target' \in Locations,
         erase_needed' => \E l \in Newest : l[1] # target'[1],
         ~erase_needed' => cells[target'] = Erased,
         erase_only' => erase_needed',
         record'.sequence <= Current.sequence \/ Newer(record'),
         erase_only' \/ record' = Current \/ Newer(record'),
         checkpoint' => /\ record' = Current /\ Newer(pending_record')
                        /\ executing < 2 /\ target'[1] = executing
                        /\ pending_target' = <<1 - executing, 1>>
                        /\ ~erase_needed',
         executing < 2 => prepare' = Idle,
         executing < 2 /\ ~checkpoint' => target'[1] # executing,
         prepare'.phase # "ready",
         prepare'.phase = "copy" =>
           target'[1] # prepare'.bank /\ ~checkpoint' /\ ~erase_only' /\ record' = Current
  PROVE  IInv'
<1>1. Newest' = Newest /\ Current' = Current /\ (Loads' <=> Loads)
  BY SameImage, Zenon
<1>2. machine \in Resting /\ ~requested /\ op.kind = "none"
  BY Constants, Zenon DEF IInv, Control
<1>3. FlagsOK' /\ DeviceOK' /\ StateOK' /\ BuffersOK'
  BY Constants DEF IInv, FlagsOK, DeviceOK, StateOK, BuffersOK
<1>4. Control' /\ Borrowed'
  BY <1>2, Zenon DEF IInv, Control, Borrowed
<1>5. Sectors'
  BY <1>1, <1>2 DEF Sectors, Erasing, Writing, Backed, Room, Resting, Erased
<1>6. Records'
  BY <1>1, <1>2, Zenon DEF Records, Newer, Erasing, Resting
<1>7. Executing' /\ Preparing' /\ CommitReported'
  BY <1>1, <1>2, Zenon DEF Executing, Preparing, CommitReported
<1> QED
  BY <1>1, <1>3, <1>4, <1>5, <1>6, <1>7, Zenon DEF IInv

(***************************************************************************)
(* Every operation of the boot journal, of its clients and of the device   *)
(* keeps the inductive invariant.                                          *)
(***************************************************************************)
\* The plans of begin().
LEMMA PlanSafe ==
  ASSUME WellOrdered, IInv, NEW next, Newer(next), NEW plan,
         plan = IF executing = 2 THEN BootPlan(next) ELSE RuntimePlan(next),
         plan.target[2] # 0
  PROVE  /\ plan.target \in Locations
         /\ plan.erase \in BOOLEAN /\ plan.checkpoint \in BOOLEAN
         /\ plan.erase => \E l \in Newest : l[1] # plan.target[1]
         /\ ~plan.erase => cells[plan.target] = Erased
         /\ plan.record = IF plan.checkpoint THEN Current ELSE next
         /\ plan.checkpoint => executing < 2 /\ plan.target[1] = executing /\ ~plan.erase
         /\ executing < 2 /\ ~plan.checkpoint => plan.target[1] # executing
<1>1. Latest \in Newest /\ Latest \in Locations
  BY CurrentFound, Zenon DEF IInv
<1>2. Latest[1] \in Banks /\ Latest[1] \in {0, 1} /\ Latest[2] \in 1..Positions
      /\ 1 - Latest[1] \in Banks
      /\ 1 - Latest[1] # Latest[1]
  BY <1>1, Constants DEF Banks
<1>3. \A b \in Banks : <<b, 1>> \in Locations
  BY Constants, Zenon DEF Banks
<1>4. CASE executing = 2
  <2> DEFINE p == FirstFree(Latest[1], Latest[2] + 1)
  <2>1. plan = BootPlan(next)
    BY <1>4, Zenon
  <2>2. CASE p # 0
    <3>1. plan = Plan(next, <<Latest[1], p>>, FALSE, FALSE)
      BY <2>1, <2>2, Zenon DEF BootPlan
    <3>2. <<Latest[1], p>> \in Locations /\ cells[<<Latest[1], p>>] = Erased
      BY <1>2, <2>2, FirstFreeErased
    <3>4. plan.record = next /\ plan.target = <<Latest[1], p>>
      BY <3>1 DEF Plan
    <3>5. plan.erase = FALSE /\ plan.checkpoint = FALSE
      BY <3>1 DEF Plan
    <3>6. plan.erase \in BOOLEAN /\ plan.checkpoint \in BOOLEAN
      BY <3>5, Zenon
    <3> QED
      BY <1>4, <3>2, <3>4, <3>5, <3>6
  <2>3. CASE p = 0
    <3>1. plan = Plan(next, <<1 - Latest[1], 1>>, TRUE, FALSE)
      BY <2>1, <2>3, Zenon DEF BootPlan
    <3>4. plan.record = next /\ plan.target = <<1 - Latest[1], 1>>
      BY <3>1 DEF Plan
    <3>5. plan.erase = TRUE /\ plan.checkpoint = FALSE
      BY <3>1 DEF Plan
    <3>6. plan.erase \in BOOLEAN /\ plan.checkpoint \in BOOLEAN
      BY <3>5, Zenon
    <3>7. plan.target \in Locations
      BY <1>2, <1>3, <3>4, Zenon
    <3>8. Latest[1] # plan.target[1]
      BY <1>2, <3>4
    <3> QED
      BY <1>1, <1>4, <3>4, <3>5, <3>6, <3>7, <3>8
  <2> QED
    BY <2>2, <2>3, Zenon
<1>5. CASE executing # 2
  <2> DEFINE inactive == 1 - executing
             p == FirstFree(inactive, 1)
             q == FirstFree(executing, 1)
  <2>1. executing \in Banks /\ executing \in {0, 1} /\ inactive \in Banks
        /\ inactive # executing /\ plan = RuntimePlan(next)
    BY <1>5 DEF IInv, StateOK, Banks
  <2>2. CASE p # 0
    <3>1. plan = Plan(next, <<inactive, p>>, FALSE, FALSE)
      BY <2>1, <2>2, Zenon DEF RuntimePlan
    <3>2. <<inactive, p>> \in Locations /\ cells[<<inactive, p>>] = Erased
      BY <2>1, <2>2, FirstFreeErased, Zenon
    <3>4. plan.record = next /\ plan.target = <<inactive, p>>
      BY <3>1 DEF Plan
    <3>5. plan.erase = FALSE /\ plan.checkpoint = FALSE
      BY <3>1 DEF Plan
    <3>6. plan.erase \in BOOLEAN /\ plan.checkpoint \in BOOLEAN
      BY <3>5, Zenon
    <3> QED
      BY <2>1, <3>2, <3>4, <3>5, <3>6
  <2>3. CASE p = 0 /\ Latest[1] # inactive
    <3>1. plan = Plan(next, <<inactive, 1>>, TRUE, FALSE)
      BY <2>1, <2>3, Zenon DEF RuntimePlan
    <3>4. plan.record = next /\ plan.target = <<inactive, 1>>
      BY <3>1 DEF Plan
    <3>5. plan.erase = TRUE /\ plan.checkpoint = FALSE
      BY <3>1 DEF Plan
    <3>6. plan.erase \in BOOLEAN /\ plan.checkpoint \in BOOLEAN
      BY <3>5, Zenon
    <3>7. plan.target \in Locations
      BY <1>3, <2>1, <3>4, Zenon
    <3>8. Latest[1] # plan.target[1]
      BY <2>1, <2>3, <3>4
    <3> QED
      BY <1>1, <2>1, <3>4, <3>5, <3>6, <3>7, <3>8
  <2>4. CASE p = 0 /\ Latest[1] = inactive
    <3>1. plan = Plan(Current, <<executing, q>>, FALSE, TRUE)
      BY <2>1, <2>4, Zenon DEF RuntimePlan
    <3>2. plan.target = <<executing, q>> /\ q # 0
      BY <3>1 DEF Plan
    <3>3. <<executing, q>> \in Locations /\ cells[<<executing, q>>] = Erased
      BY <2>1, <3>2, FirstFreeErased, Zenon
    <3>4. plan.record = Current /\ plan.target = <<executing, q>>
      BY <3>1 DEF Plan
    <3>5. plan.erase = FALSE /\ plan.checkpoint = TRUE
      BY <3>1 DEF Plan
    <3>6. plan.erase \in BOOLEAN /\ plan.checkpoint \in BOOLEAN
      BY <3>5, Zenon
    <3> QED
      BY <2>1, <3>3, <3>4, <3>5, <3>6
  <2> QED
    BY <2>2, <2>3, <2>4, Zenon
<1> QED
  BY <1>4, <1>5, Zenon

LEMMA BeginStep ==
  ASSUME WellOrdered, IInv, NEW n \in 0..MaxCounter, Begin(n), UNCHANGED constrained
  PROVE  IInv'
<1> DEFINE next == [sequence |-> Current.sequence + 1, counter |-> n]
           plan == IF executing = 2 THEN BootPlan(next) ELSE RuntimePlan(next)
<1>1. /\ status # "busy" /\ op = NoOp /\ prepare = Idle
      /\ UNCHANGED <<cells, op, executing, machine, prepare>>
      /\ offset' = 0 /\ status' = "busy" /\ outcome' = "ok"
  BY Zenon DEF Begin, DeviceIdle
<1>2. requested' = TRUE /\ erase_only' = FALSE /\ timed_out' = FALSE
  BY Zenon DEF Begin
<1>3. requested' \in BOOLEAN /\ erase_only' \in BOOLEAN /\ timed_out' \in BOOLEAN
  BY <1>2, Zenon
<1>4. Current \in Snapshot
  BY CurrentFound, Zenon DEF IInv
<1>5. Newer(next)
  <2>1. /\ Current.sequence < IF constrained THEN MaxConstrained ELSE MaxSequence
        /\ n >= Current.counter
    BY Zenon DEF Begin
  <2>2. Current.sequence \in Nat /\ Current.sequence + 1 \in 1..MaxSequence
    BY <1>4, <2>1, CountAssumption DEF Snapshot
  <2> QED
    BY <2>1, <2>2, CountAssumption, Zenon DEF Newer, Snapshot
<1>6. /\ plan.target[2] # 0
      /\ record' = plan.record /\ target' = plan.target
      /\ erase_needed' = plan.erase /\ checkpoint' = plan.checkpoint
      /\ IF plan.checkpoint
         THEN /\ pending_record' = next
              /\ pending_target' = <<1 - executing, 1>>
         ELSE UNCHANGED <<pending_record, pending_target>>
  BY Zenon DEF Begin, Successor
<1> HIDE DEF next
<1>7. /\ plan.target \in Locations
      /\ plan.erase \in BOOLEAN /\ plan.checkpoint \in BOOLEAN
      /\ plan.erase => \E l \in Newest : l[1] # plan.target[1]
      /\ ~plan.erase => cells[plan.target] = Erased
      /\ plan.record = IF plan.checkpoint THEN Current ELSE next
      /\ plan.checkpoint => executing < 2 /\ plan.target[1] = executing /\ ~plan.erase
      /\ executing < 2 /\ ~plan.checkpoint => plan.target[1] # executing
  BY <1>5, <1>6, PlanSafe, Zenon
<1> HIDE DEF plan
<1>8. erase_needed' \in BOOLEAN /\ checkpoint' \in BOOLEAN
  BY <1>6, <1>7, Zenon
<1>9. executing < 2 => <<1 - executing, 1>> \in Locations
  BY Constants DEF IInv, StateOK
<1>10. /\ record' \in Snapshot \cup {Nothing}
       /\ pending_record' \in Snapshot \cup {Nothing}
       /\ target' \in Locations /\ pending_target' \in Locations
  BY <1>4, <1>5, <1>6, <1>7, <1>9, Zenon DEF IInv, BuffersOK, Newer
<1>11. /\ record'.sequence <= Current.sequence \/ Newer(record')
       /\ record' = Current \/ Newer(record')
  BY <1>4, <1>5, <1>6, <1>7, Constants
<1>12. checkpoint' => /\ record' = Current /\ Newer(pending_record')
                      /\ executing < 2 /\ target'[1] = executing
                      /\ pending_target' = <<1 - executing, 1>>
                      /\ ~erase_needed'
  BY <1>5, <1>6, <1>7, Zenon
<1>13. /\ erase_needed' => \E l \in Newest : l[1] # target'[1]
       /\ ~erase_needed' => cells[target'] = Erased
       /\ executing < 2 /\ ~checkpoint' => target'[1] # executing
  BY <1>6, <1>7, Zenon
<1>14. prepare' = Idle /\ prepare'.phase = "idle" /\ outcome' \in {"ok", "error"}
       /\ prepare' \in [phase : {"idle", "copy", "erase", "ready"}, bank : Banks]
  BY <1>1, Zenon DEF Idle, Banks
<1> QED
  BY <1>1, <1>2, <1>3, <1>8, <1>10, <1>11, <1>12, <1>13, <1>14, RequestStep, Zenon

\* A request of prepare_runtime() that erases, or finds nothing to erase.
LEMMA EraseBankStep ==
  ASSUME WellOrdered, IInv, NEW b \in Banks, EraseBank(b), Backed(b), executing = 2, op = NoOp,
         status # "busy", UNCHANGED <<device, executing, machine>>, UNCHANGED constrained
  PROVE  IInv'
<1>1. UNCHANGED <<cells, op, outcome, executing, machine>>
  BY Zenon DEF device
<1>2. CASE \A p \in 1..Positions : cells[<<b, p>>] = Erased
  <2>1. prepare' = [phase |-> "ready", bank |-> b] /\ UNCHANGED <<status, flags, buffers>>
    BY <1>2, Zenon DEF EraseBank
  <2>2. UNCHANGED <<status, requested, erase_needed, erase_only, checkpoint, timed_out,
                    record, pending_record, target, pending_target, offset>>
    BY <2>1, Zenon DEF flags, buffers
  <2>3. Newest' = Newest /\ Current' = Current /\ (Loads' <=> Loads)
    BY <1>1, SameImage, Zenon
  <2>4. FlagsOK' /\ DeviceOK' /\ StateOK' /\ BuffersOK'
    BY <1>1, <2>1, <2>2 DEF IInv, FlagsOK, DeviceOK, StateOK, BuffersOK
  <2>5. Control' /\ Borrowed' /\ Sectors'
    BY <1>1, <2>2, <2>3, Zenon
       DEF IInv, Control, Borrowed, Sectors, Erasing, Writing, Backed, Room
  <2>6. Records'
    BY <1>1, <2>2, <2>3, Zenon DEF IInv, Records, Newer, Erasing
  <2>7. Executing' /\ Preparing' /\ CommitReported'
    BY <1>1, <2>1, <2>2, <2>3 DEF IInv, Executing, Preparing, CommitReported
  <2> QED
    BY <2>3, <2>4, <2>5, <2>6, <2>7, Zenon DEF IInv
<1>3. CASE ~(\A p \in 1..Positions : cells[<<b, p>>] = Erased)
  <2>1. prepare' = [phase |-> "erase", bank |-> b] /\ Request(record, <<b, 1>>, TRUE, TRUE)
    BY <1>3, Zenon DEF EraseBank
  <2>2. /\ UNCHANGED <<record, pending_record, pending_target>>
        /\ target' = <<b, 1>> /\ offset' = 0 /\ status' = "busy"
    BY <2>1, Zenon DEF Request
  <2>3. erase_needed' = TRUE /\ erase_only' = TRUE /\ timed_out' = FALSE
        /\ checkpoint' = FALSE /\ requested' = TRUE
    BY <2>1, Zenon DEF Request
  <2>4. erase_needed' \in BOOLEAN /\ erase_only' \in BOOLEAN /\ timed_out' \in BOOLEAN
        /\ checkpoint' \in BOOLEAN /\ requested' \in BOOLEAN
    BY <2>3, Zenon
  <2>5. target' \in Locations /\ target'[1] = b
    BY <2>2, Constants, Zenon DEF Banks
  <2>6. /\ record' \in Snapshot \cup {Nothing}
        /\ pending_record' \in Snapshot \cup {Nothing}
        /\ pending_target' \in Locations
        /\ record'.sequence <= Current.sequence \/ Newer(record')
        /\ outcome' \in {"ok", "error"}
    BY <1>1, <2>2, Zenon DEF IInv, BuffersOK, Records, DeviceOK
  <2>7. \E l \in Newest : l[1] # target'[1]
    BY <2>5, Zenon DEF Backed
  <2>8. /\ prepare' \in [phase : {"idle", "copy", "erase", "ready"}, bank : Banks]
        /\ prepare'.phase = "erase"
    BY <2>1, Zenon
  <2> QED
    BY <1>1, <2>2, <2>3, <2>4, <2>5, <2>6, <2>7, <2>8, RequestStep
<1> QED
  BY <1>2, <1>3, Zenon

LEMMA PrepareRuntimeStep ==
  ASSUME WellOrdered, IInv, NEW b \in Banks, PrepareRuntime(b), UNCHANGED constrained
  PROVE  IInv'
<1>1. /\ executing = 2 /\ status # "busy" /\ op = NoOp
      /\ UNCHANGED <<device, executing, machine>>
  BY Zenon DEF PrepareRuntime
<1>2. Latest \in Newest /\ Current \in Snapshot
  BY CurrentFound, Zenon DEF IInv
<1>3. CASE ~CopyNeeded(b)
  <2>1. EraseBank(b) /\ Backed(b)
    BY <1>2, <1>3, Zenon DEF PrepareRuntime, CopyNeeded, Backed
  <2> QED
    BY <1>1, <2>1, EraseBankStep, Zenon
<1>4. CASE CopyNeeded(b)
  <2> DEFINE p == FirstFree(1 - b, 1)
             where == <<1 - b, IF p = 0 THEN 1 ELSE p>>
  <2>1. prepare' = [phase |-> "copy", bank |-> b] /\ Request(Current, where, p = 0, FALSE)
    BY <1>4, Zenon DEF PrepareRuntime
  <2>2. 1 - b \in Banks /\ b \in Banks /\ 1 - b # b
    BY DEF Banks
  <2>3. where \in Locations /\ where[1] # b /\ (p # 0 => cells[where] = Erased)
    BY <2>2, FirstFreeErased, Constants, Zenon DEF Banks
  <2> HIDE DEF where, p
  <2>4. /\ record' = Current /\ target' = where /\ offset' = 0 /\ status' = "busy"
        /\ UNCHANGED <<pending_record, pending_target>>
    BY <2>1, Zenon DEF Request
  <2>5. erase_only' = FALSE /\ timed_out' = FALSE /\ checkpoint' = FALSE
        /\ requested' = TRUE
    BY <2>1, Zenon DEF Request
  <2>6. erase_needed' \in BOOLEAN /\ erase_only' \in BOOLEAN /\ timed_out' \in BOOLEAN
        /\ checkpoint' \in BOOLEAN /\ requested' \in BOOLEAN
    BY <2>1, Zenon DEF Request
  <2>10. ~erase_needed' => cells[target'] = Erased
    BY <2>1, <2>3, <2>4, Zenon DEF Request
  <2>7. \E l \in Newest : l[1] # target'[1]
    BY <1>2, <1>4, <2>3, <2>4, Zenon DEF CopyNeeded
  <2>8. /\ UNCHANGED <<cells, op, executing, machine>>
        /\ outcome' \in {"ok", "error"}
        /\ record' \in Snapshot \cup {Nothing}
        /\ pending_record' \in Snapshot \cup {Nothing}
        /\ target' \in Locations /\ pending_target' \in Locations
        /\ record'.sequence <= Current.sequence
    BY <1>1, <1>2, <2>3, <2>4, Constants DEF device, IInv, BuffersOK, DeviceOK
  <2>9. /\ prepare' \in [phase : {"idle", "copy", "erase", "ready"}, bank : Banks]
        /\ prepare'.phase = "copy" /\ prepare'.bank = b
    BY <2>1, Zenon
  <2> QED
    BY <1>1, <2>3, <2>4, <2>5, <2>6, <2>7, <2>8, <2>9, <2>10, RequestStep
<1> QED
  BY <1>3, <1>4, Zenon

LEMMA PrepareCopiedStep ==
  ASSUME WellOrdered, IInv, PrepareCopied, UNCHANGED constrained
  PROVE  IInv'
<1>1. /\ prepare.phase = "copy" /\ status = "ok" /\ EraseBank(prepare.bank)
      /\ UNCHANGED <<device, executing, machine>>
  BY Zenon DEF PrepareCopied
<1>2. executing = 2
  BY <1>1 DEF IInv, Executing, StateOK, Idle
<1>3. op = NoOp
  BY <1>1, Zenon DEF IInv, Control, Borrowed, DeviceOK
<1>4. prepare.bank \in Banks /\ Backed(prepare.bank)
  BY <1>1, Zenon DEF IInv, Preparing, StateOK
<1> QED
  BY <1>1, <1>2, <1>3, <1>4, EraseBankStep, Zenon

LEMMA PrepareErasedStep ==
  ASSUME IInv, PrepareErased, UNCHANGED constrained
  PROVE  IInv'
<1>1. /\ prepare.phase = "erase" /\ status = "ok"
      /\ prepare' = [prepare EXCEPT !.phase = "ready"]
      /\ UNCHANGED <<cells, op, outcome, executing, machine, status, requested,
                     erase_needed, erase_only, checkpoint, timed_out, record,
                     pending_record, target, pending_target, offset>>
  BY Zenon DEF PrepareErased, device, flags, buffers
<1>2. Newest' = Newest /\ Current' = Current /\ (Loads' <=> Loads)
  BY <1>1, SameImage, Zenon
<1>3. op = NoOp
  BY <1>1, Zenon DEF IInv, Control, Borrowed, DeviceOK
<1>4. executing = 2 /\ prepare'.phase = "ready"
  BY <1>1 DEF IInv, Executing, StateOK, Idle
<1>5. FlagsOK' /\ DeviceOK' /\ StateOK' /\ BuffersOK'
  BY <1>1 DEF IInv, FlagsOK, DeviceOK, StateOK, BuffersOK
<1>6. Control' /\ Borrowed' /\ Sectors'
  BY <1>1, <1>2, Zenon
     DEF IInv, Control, Borrowed, Sectors, Erasing, Writing, Backed, Room
<1>7. Records'
  BY <1>1, <1>2, Zenon DEF IInv, Records, Newer, Erasing
<1>8. Executing' /\ Preparing' /\ CommitReported'
  BY <1>1, <1>2, <1>3, <1>4 DEF IInv, Executing, Preparing, CommitReported
<1> QED
  BY <1>2, <1>5, <1>6, <1>7, <1>8, Zenon DEF IInv

(***************************************************************************)
(* The device, power and control hand-over.                                *)
(***************************************************************************)
\* A flash operation ends, well or not.
LEMMA OperationEnds ==
  ASSUME WellOrdered, IInv, Effect, op # NoOp, op' = NoOp, outcome' \in {"ok", "error"},
         UNCHANGED constrained,
         UNCHANGED <<executing, machine, status, flags, buffers, prepare>>,
         outcome' = "ok" /\ op.kind = "erase" => cells'[target] = Erased,
         outcome' = "ok" /\ op.kind = "write" /\ op.unit + 1 < Units =>
           cells'[target].kind \in {"partial", "torn"}
  PROVE  IInv'
<1>1. UNCHANGED <<executing, machine, status, requested, erase_needed, erase_only,
                  checkpoint, timed_out, record, pending_record, target,
                  pending_target, offset, prepare>>
  BY Zenon DEF flags, buffers
<1>2. /\ cells' \in [Locations -> Cell] /\ Loads'
      /\ \/ Current' = Current
         \/ /\ op.kind = "write" /\ op.unit + 1 = Units
            /\ Newer(record) /\ Current' = record
      /\ op.kind = "erase" => \E n \in Newest' : n[1] # target[1]
  BY EffectKeeps, Zenon
<1>3. /\ op.kind \in {"erase", "write"} /\ op'.kind = "none"
      /\ op.unit = offset /\ op.at = target
      /\ machine \in {"erase_wait", "write_wait", "failed"} /\ ~requested
      /\ op.kind = "erase" => machine # "write_wait"
      /\ op.kind = "write" => machine # "erase_wait"
  BY Constants, Zenon DEF IInv, Borrowed, DeviceOK, Control, Resting
<1>4. FlagsOK' /\ StateOK' /\ BuffersOK'
  BY <1>1 DEF IInv, FlagsOK, StateOK, BuffersOK
<1>5. DeviceOK'
  BY <1>2, Constants DEF DeviceOK, NoOp
<1>6. Control' /\ Borrowed'
  BY <1>1, <1>3, Zenon DEF IInv, Control, Borrowed
<1>7. Sectors'
  <2>1. Erasing' => op.kind = "erase" /\ Erasing
    BY <1>1, <1>3, Zenon DEF Erasing
  <2>2. Erasing' => offset' = 0 /\ Backed(target[1])'
    BY <1>1, <1>2, <2>1, Zenon DEF IInv, Sectors, Backed
  <2>3. ~Writing'
    BY <1>1, <1>3, Zenon DEF Writing
  <2>4. status' = "busy" /\ erase_only' => Erasing'
    BY <1>1, <1>3, Zenon DEF IInv, Sectors, Erasing, Control, Resting
  <2>5. machine' = "write_wait" /\ outcome' = "ok" /\ offset' + 1 < Units =>
          Room(offset + 1)'
    <3>1. offset \in Nat
      BY DEF IInv, BuffersOK
    <3> QED
      BY <1>1, <1>3, <3>1 DEF Room
  <2> QED
    BY <1>1, <1>3, <2>2, <2>3, <2>4, <2>5, Zenon DEF IInv, Sectors
<1>8. Current \in Snapshot
  BY CurrentFound, Zenon DEF IInv
<1>9. CASE Current' = Current
  <2>1. Records'
    BY <1>1, <1>3, <1>9, Zenon DEF IInv, Records, Newer, Erasing
  <2>2. Executing' /\ CommitReported'
    BY <1>1, <1>3, <1>9, Zenon DEF IInv, Executing, CommitReported
  <2>3. Preparing'
    BY <1>1, <1>3, <1>9, Zenon DEF IInv, Preparing, Control
  <2> QED
    BY <1>2, <1>4, <1>5, <1>6, <1>7, <2>1, <2>2, <2>3, Zenon DEF IInv
<1>10. CASE Newer(record) /\ Current' = record /\ op.kind = "write"
  <2>1. record \in Snapshot /\ record # Current /\ record.sequence \in Int
    BY <1>8, <1>10, Constants DEF Newer
  <2>2. ~(status = "busy" /\ checkpoint)
    BY <2>1, Zenon DEF IInv, Records
  <2>3. Records'
    BY <1>1, <1>3, <1>10, <2>1, <2>2 DEF Records
  <2>4. Executing' /\ CommitReported'
    BY <1>1, <1>3, <1>10, Zenon DEF IInv, Executing, CommitReported
  <2>5. Preparing'
    BY <1>1, <1>3, <1>10, Zenon DEF IInv, Preparing, Control
  <2> QED
    BY <1>2, <1>4, <1>5, <1>6, <1>7, <2>3, <2>4, <2>5, Zenon DEF IInv
<1> QED
  BY <1>2, <1>9, <1>10, Zenon

LEMMA FlashDoneStep ==
  ASSUME WellOrdered, IInv, FlashDone, UNCHANGED constrained
  PROVE  IInv'
<1>1. /\ op # NoOp /\ op' = NoOp /\ outcome' = "ok"
      /\ UNCHANGED <<executing, machine, status, flags, buffers, prepare>>
  BY Zenon DEF FlashDone
<1> QED
  BY <1>1, DoneEffect, OperationEnds, Zenon

LEMMA FlashErrorStep ==
  ASSUME WellOrdered, IInv, FlashError, UNCHANGED constrained
  PROVE  IInv'
<1>1. /\ op # NoOp /\ Disturb /\ op' = NoOp /\ outcome' = "error"
      /\ UNCHANGED <<executing, machine, status, flags, buffers, prepare>>
  BY Zenon DEF FlashError
<1> QED
  BY <1>1, DisturbEffect, OperationEnds, Zenon

LEMMA FlashCorruptsStep ==
  ASSUME WellOrdered, IInv, FlashCorrupts, UNCHANGED constrained
  PROVE  IInv'
<1>1. /\ op.kind = "write" /\ op # NoOp /\ op' = NoOp /\ outcome' = "ok"
      /\ UNCHANGED <<executing, machine, status, flags, buffers, prepare>>
  BY Constants, Zenon DEF FlashCorrupts
<1>2. Effect /\ cells'[target].kind = "torn"
  BY CorruptEffect DEF Torn
<1> QED
  BY <1>1, <1>2, OperationEnds, Zenon

\* A fresh Journal object over an idle device.
LEMMA FreshStep ==
  ASSUME WellOrdered, IInv, Fresh, op' = NoOp, cells' \in [Locations -> Cell], Loads',
         executing' \in 0..2, UNCHANGED constrained
  PROVE  IInv'
<1>1. /\ machine' = "idle" /\ status' = "ok" /\ record' = Nothing
      /\ pending_record' = Nothing /\ target' = <<0, 1>> /\ pending_target' = <<0, 1>>
      /\ offset' = 0 /\ prepare' = Idle /\ outcome' = "ok"
  BY Zenon DEF Fresh
<1>2. ~requested' /\ ~erase_needed' /\ ~erase_only' /\ ~checkpoint' /\ ~timed_out'
  BY Zenon DEF Fresh
<1>3. requested' \in BOOLEAN /\ erase_needed' \in BOOLEAN /\ erase_only' \in BOOLEAN
      /\ checkpoint' \in BOOLEAN /\ timed_out' \in BOOLEAN
  BY Zenon DEF Fresh
<1>4. FlagsOK'
  BY <1>3, Zenon DEF IInv, FlagsOK
<1>5. DeviceOK' /\ op'.kind = "none"
  BY <1>1, Constants DEF DeviceOK, NoOp
<1>6. StateOK' /\ BuffersOK'
  BY <1>1, Constants DEF StateOK, BuffersOK, Idle, Banks
<1>7. Control' /\ Borrowed' /\ Sectors'
  BY <1>1, <1>2, <1>5, Zenon DEF Control, Borrowed, Resting, Sectors, Erasing, Writing
<1>8. Current' \in Snapshot
  BY <1>5, LoadNames, LoadFinds, Zenon
<1>9. record'.sequence <= Current'.sequence
  BY <1>1, <1>8, Constants
<1>10. Records'
  BY <1>1, <1>2, <1>5, <1>9, Zenon DEF Records
<1>11. Executing' /\ Preparing' /\ CommitReported'
  BY <1>1, <1>2, Zenon DEF Executing, Preparing, CommitReported, Idle
<1> QED
  BY <1>4, <1>5, <1>6, <1>7, <1>10, <1>11, Zenon DEF IInv

LEMMA RestartStep ==
  ASSUME WellOrdered, IInv, Restart, UNCHANGED constrained
  PROVE  IInv'
<1>1. Disturb /\ op' = NoOp /\ executing' = 2 /\ Fresh
  BY Zenon DEF Restart
<1>2. cells' \in [Locations -> Cell] /\ Loads'
  BY <1>1, DisturbEffect, EffectKeeps, Zenon
<1> QED
  BY <1>1, <1>2, FreshStep

LEMMA HandoffStep ==
  ASSUME WellOrdered, IInv, NEW b \in Banks, Handoff(b), UNCHANGED constrained
  PROVE  IInv'
<1>1. /\ prepare = [phase |-> "ready", bank |-> b] /\ executing' = b /\ Fresh
      /\ UNCHANGED <<cells, op>>
  BY Zenon DEF Handoff
<1>2. op' = NoOp /\ executing' \in 0..2
  BY <1>1 DEF IInv, Preparing, Banks
<1>3. cells' \in [Locations -> Cell] /\ Loads'
  BY <1>1, SameImage, Zenon DEF IInv, DeviceOK
<1> QED
  BY <1>1, <1>2, <1>3, FreshStep, Zenon

(***************************************************************************)
(* The invariant holds.                                                    *)
(***************************************************************************)
LEMMA InvInit ==
  ASSUME WellOrdered, Init
  PROVE  IInv
<1>1. PICK s \in Snapshot :
        cells = [l \in Locations |-> IF l = <<0, 1>> THEN Valid(s) ELSE Erased]
  BY Zenon DEF Init
<1>2. /\ op = NoOp /\ outcome = "ok" /\ executing = 2 /\ machine = "idle" /\ status = "ok"
      /\ record = Nothing /\ pending_record = Nothing
      /\ target = <<0, 1>> /\ pending_target = <<0, 1>> /\ offset = 0 /\ prepare = Idle
  BY Zenon DEF Init
<1>3. ~requested /\ ~erase_needed /\ ~erase_only /\ ~checkpoint /\ ~timed_out
  BY Zenon DEF Init
<1>4. FlagsOK
  BY Zenon DEF Init, FlagsOK
<1>5. DeviceOK /\ op.kind = "none"
  BY <1>1, <1>2, Constants DEF DeviceOK, NoOp, Cell
<1>6. StateOK /\ BuffersOK
  BY <1>2, Constants DEF StateOK, BuffersOK, Idle, Banks
<1>7. Loads
  <2>1. \A l \in Locations : cells[l].kind = "valid" <=> l = <<0, 1>>
    BY <1>1, Zenon DEF Valid, Erased
  <2>2. Newest = {<<0, 1>>}
    <3>1. cells[<<0, 1>>].snapshot.sequence \in Int
      BY <1>1, Constants DEF Valid
    <3> QED
      BY <2>1, <3>1, Constants DEF Newest, ValidAt
  <2> QED
    BY <2>2, Zenon DEF Loads
<1>8. Control /\ Borrowed /\ Sectors
  BY <1>2, <1>3, <1>5, Zenon DEF Control, Borrowed, Resting, Sectors, Erasing, Writing
<1>9. Current \in Snapshot
  BY <1>5, <1>7, CurrentFound, Zenon
<1>10. record.sequence <= Current.sequence
  BY <1>2, <1>9, Constants
<1>11. Records
  BY <1>2, <1>3, <1>5, <1>10, Zenon DEF Records
<1>12. Executing /\ Preparing /\ CommitReported
  BY <1>2, <1>3, Zenon DEF Executing, Preparing, CommitReported, Idle
<1> QED
  BY <1>4, <1>5, <1>6, <1>7, <1>8, <1>11, <1>12, Zenon DEF IInv

LEMMA StutterStep ==
  ASSUME IInv, UNCHANGED vars
  PROVE  IInv'
<1>1. UNCHANGED <<constrained, cells, op, outcome, executing, machine, status,
                  requested, erase_needed, erase_only, checkpoint, timed_out, record,
                  pending_record, target, pending_target, offset, prepare>>
  BY Zenon DEF vars
<1>2. Newest' = Newest /\ Current' = Current /\ (Loads' <=> Loads)
  BY <1>1, SameImage, Zenon
<1>3. FlagsOK' /\ DeviceOK' /\ StateOK' /\ BuffersOK'
  BY <1>1 DEF IInv, FlagsOK, DeviceOK, StateOK, BuffersOK
<1>4. Control' /\ Borrowed' /\ Sectors'
  BY <1>1, <1>2, Zenon
     DEF IInv, Control, Borrowed, Sectors, Erasing, Writing, Backed, Room
<1>5. Records' /\ Executing' /\ Preparing' /\ CommitReported'
  BY <1>1, <1>2, Zenon DEF IInv, Records, Newer, Erasing, Executing, Preparing, Backed,
                    CommitReported
<1> QED
  BY <1>2, <1>3, <1>4, <1>5, Zenon DEF IInv

LEMMA InvStep ==
  ASSUME WellOrdered, IInv, [Next /\ UNCHANGED constrained]_vars
  PROVE  IInv'
<1>1. CASE UNCHANGED vars
  BY <1>1, StutterStep, Zenon
<1>2. ASSUME Next, UNCHANGED constrained
      PROVE  IInv'
  BY <1>2, BeginStep, TimeoutStep, StartRequestStep, StartOperationStep, WaitStep,
     VerifyStep, PrepareRuntimeStep, PrepareCopiedStep, PrepareErasedStep,
     FlashDoneStep, FlashErrorStep, FlashCorruptsStep, RestartStep, HandoffStep, Zenon
     DEF Next, JournalStep
<1> QED
  BY <1>1, <1>2, Zenon

(***************************************************************************)
(* For every size of a metadata sector, every number of program operations *)
(* per record and every bound on sequence numbers and counters: load()     *)
(* always finds the committed snapshot (LoadsCommitted), flash operations  *)
(* are used safely (FlashUsedSafely), and the journal implements the       *)
(* atomic snapshot register (CommitsAtomically).                           *)
(***************************************************************************)
\* A set of natural numbers that is not empty has a least element.
LEMMA LeastNatural == WellOrdered
<1> SUFFICES ASSUME NEW T \in SUBSET Nat, T # {}
             PROVE  \E n \in T : \A m \in T : n <= m
  BY Zenon DEF WellOrdered
<1> DEFINE R == OpToRel(<, Nat)
<1>1. \A m, n \in Nat : <<m, n>> \in R <=> m < n
  BY Zenon DEF OpToRel
<1>2. IsWellFoundedOn(R, Nat)
  BY NatLessThanWellFounded, Zenon
<1> HIDE DEF R
<1>3. PICK n \in T : \A m \in T : ~(<<m, n>> \in R)
  BY <1>2, WFMin, Zenon
<1>4. ASSUME NEW m \in T
      PROVE  n <= m
  <2>1. m \in Nat /\ n \in Nat /\ ~(<<m, n>> \in R)
    BY <1>3, Zenon
  <2>2. ~(m < n)
    BY <1>1, <2>1, Zenon
  <2> QED
    BY <2>1, <2>2
<1> QED
  BY <1>4, Zenon

LEMMA InvAlways == Spec => []IInv
<1>1. Init => IInv
  BY LeastNatural, InvInit, Zenon
<1>2. IInv /\ [Next /\ UNCHANGED constrained]_vars => IInv'
  BY LeastNatural, InvStep, Zenon
<1> QED
  BY <1>1, <1>2, PTL DEF Spec

\* Whatever fails, load() succeeds, and returns what the last commit that
\* reported ok wrote (journal.cpp load(), tick()).
THEOREM CommittedAlwaysLoads == Spec => []LoadsCommitted
<1>1. IInv => LoadsCommitted
  BY Types, Zenon DEF IInv, LoadsCommitted, AlwaysLoads
<1> QED
  BY <1>1, InvAlways, PTL

\* The only newest record is never erased, an application's own bank only
\* receives copies of the newest snapshot, and program operations only meet
\* erased flash or the units of their own record (journal.cpp begin(), tick()).
THEOREM FlashAlwaysUsedSafely == Spec => []FlashUsedSafely
<1>1. IInv => FlashUsedSafely
  <2> SUFFICES ASSUME IInv PROVE FlashUsedSafely
    BY Zenon
  <2>1. op # NoOp => op.at = target /\ op.snapshot = record /\ op.unit = offset
    BY Zenon DEF IInv, Borrowed
  <2>2. op.kind # "none" => op # NoOp
    BY Constants, Zenon
  <2>3. op.kind = "erase" => Backed(target[1])
    BY Zenon DEF IInv, Sectors, Erasing
  <2>4. op.kind = "write" => Room(offset)
    BY Zenon DEF IInv, Sectors, Writing
  <2>5. executing < 2 /\ op # NoOp /\ op.at[1] = executing =>
          op.kind = "write" /\ record = Current
    BY Zenon DEF IInv, Executing
  <2> QED
    BY <2>1, <2>2, <2>3, <2>4, <2>5 DEF FlashUsedSafely, Backed, Room
<1> QED
  BY <1>1, InvAlways, PTL

(***************************************************************************)
(* The journal implements the atomic snapshot register.                    *)
(***************************************************************************)
\* What may still become durable follows the durable snapshot or is old.
LEMMA CandidateSane ==
  IInv => /\ Current \in Snapshot
          /\ Candidate.sequence <= Current.sequence \/ Newer(Candidate)
<1> SUFFICES ASSUME IInv
             PROVE  /\ Current \in Snapshot
                    /\ Candidate.sequence <= Current.sequence \/ Newer(Candidate)
  BY Zenon
<1>1. Current \in Snapshot /\ Nothing.sequence <= Current.sequence
  BY LeastNatural, CurrentFound, Constants DEF IInv
<1>2. op.kind = "write" => op.snapshot = record
  BY Constants, Zenon DEF IInv, Borrowed
<1>3. /\ record.sequence <= Current.sequence \/ Newer(record)
      /\ status = "busy" /\ checkpoint => Newer(pending_record)
  BY Zenon DEF IInv, Records
<1> QED
  BY <1>1, <1>2, <1>3, Zenon DEF Candidate

\* Nothing can become durable while nothing was requested.
LEMMA NoCandidate ==
  IInv /\ status # "busy" /\ op = NoOp => Candidate.sequence <= Current.sequence
<1> SUFFICES ASSUME IInv, status # "busy", op = NoOp
             PROVE  Candidate.sequence <= Current.sequence
  BY Zenon
<1>1. Candidate = Nothing
  BY Constants, Zenon DEF Candidate
<1> QED
  BY <1>1, CandidateSane, Constants

\* The same in the state after a step.
LEMMA NoCandidateNext ==
  (IInv /\ status # "busy" /\ op = NoOp => Candidate.sequence <= Current.sequence)'
BY NoCandidate, PTL

LEMMA CandidateSaneNext ==
  (IInv => /\ Current \in Snapshot
           /\ Candidate.sequence <= Current.sequence \/ Newer(Candidate))'
BY CandidateSane, PTL

\* Steps that leave the durable snapshot alone propose, abandon or stutter.
LEMMA SameCurrent ==
  ASSUME IInv, IInv', Current' = Current,
         \/ Candidate' = Candidate
         \/ Candidate.sequence <= Current.sequence
         \/ Candidate'.sequence <= Current'.sequence
  PROVE  [Register!Next]_<<Current, Proposed>>
<1>1. Current \in Snapshot /\ Current.sequence \in Nat
  BY CandidateSane, Constants, Zenon
<1>2. CASE Candidate' = Candidate
  <2>1. Proposed' = Proposed
    BY <1>2, Zenon DEF Proposed
  <2> QED
    BY <2>1, Zenon
<1>3. CASE Candidate'.sequence <= Current'.sequence
  <2>1. Candidate'.sequence \in Int
    <3>1. record' \in Snapshot \cup {Nothing} /\ pending_record' \in Snapshot \cup {Nothing}
          /\ op'.snapshot \in Snapshot \cup {Nothing}
      BY Zenon DEF IInv, BuffersOK, DeviceOK
    <3>2. Candidate' \in Snapshot \cup {Nothing}
      BY <3>1, Zenon DEF Candidate
    <3> QED
      BY <3>2, Constants
  <2>2. Proposed' = Nothing
    BY <1>1, <1>3, <2>1 DEF Proposed
  <2>3. CASE Proposed = Nothing
    BY <2>2, <2>3, Zenon
  <2>4. CASE Proposed # Nothing
    <3>1. Register!Abandon
      BY <2>2, <2>4, Zenon DEF Register!Abandon, Register!Nothing, Nothing
    <3> QED
      BY <3>1, Zenon DEF Register!Next
  <2> QED
    BY <2>3, <2>4, Zenon
<1>4. CASE Candidate.sequence <= Current.sequence /\ Newer(Candidate)'
  <2>1. /\ Candidate' \in Snapshot
        /\ Candidate'.sequence = Current.sequence + 1
        /\ Candidate'.counter >= Current.counter
    BY <1>4, Zenon DEF Newer
  <2>2. Candidate.sequence \in Int
    <3>1. record \in Snapshot \cup {Nothing} /\ pending_record \in Snapshot \cup {Nothing}
          /\ op.snapshot \in Snapshot \cup {Nothing}
      BY Zenon DEF IInv, BuffersOK, DeviceOK
    <3>2. Candidate \in Snapshot \cup {Nothing}
      BY <3>1, Zenon DEF Candidate
    <3> QED
      BY <3>2, Constants
  <2>3. Proposed = Nothing /\ Proposed' = Candidate'
    BY <1>1, <1>4, <2>1, <2>2 DEF Proposed
  <2>4. Register!Propose
    BY <2>1, <2>3, Zenon DEF Register!Propose, Register!Nothing, Register!Snapshot,
                      Nothing, Snapshot
  <2> QED
    BY <2>4, Zenon DEF Register!Next
<1> QED
  BY <1>2, <1>3, <1>4, CandidateSaneNext, Zenon

\* What the device does to the durable snapshot: nothing, or it lands the
\* proposed one.
LEMMA DeviceRefines ==
  ASSUME IInv, IInv', Effect, op' = NoOp,
         \/ status' # "busy"
         \/ op # NoOp /\ UNCHANGED <<status, checkpoint, record, pending_record>>
  PROVE  [Register!Next]_<<Current, Proposed>>
<1>1. Current \in Snapshot /\ Current.sequence \in Nat
  BY CandidateSane, Constants, Zenon
<1>2. CASE Current' = Current
  <2>1. \/ Candidate' = Candidate
        \/ Candidate'.sequence <= Current'.sequence
    <3>1. CASE status' # "busy"
      BY <3>1, NoCandidateNext, Zenon
    <3>2. CASE status' = "busy"
      BY <3>2 DEF Candidate
    <3> QED
      BY <3>1, <3>2, Zenon
  <2> QED
    BY <1>2, <2>1, SameCurrent, Zenon
<1>3. CASE /\ op.kind = "write" /\ op.unit + 1 = Units
           /\ Newer(record) /\ Current' = record
  <2>1. op.snapshot = record /\ op # NoOp
    BY <1>3, Constants, Zenon DEF IInv, Borrowed
  <2>2. record \in Snapshot /\ record.sequence > Current.sequence /\ record.sequence \in Nat
    BY <1>1, <1>3, Constants DEF Newer
  <2>3. ~(status = "busy" /\ checkpoint)
    BY <1>1, <2>2 DEF IInv, Records
  <2>4. Candidate = record
    BY <1>3, <2>1, <2>3, Zenon DEF Candidate
  <2>5. Proposed = record /\ record # Nothing
    BY <2>2, <2>4, Constants, Zenon DEF Proposed
  <2>6. Candidate'.sequence <= Current'.sequence /\ Candidate'.sequence \in Int
    <3>1. CASE status' # "busy"
      <4>1. Candidate' = Nothing
        BY <3>1, Constants, Zenon DEF Candidate
      <4> QED
        BY <1>3, <2>2, <4>1, Constants
    <3>2. CASE status' = "busy"
      <4>1. Candidate' = record
        BY <2>3, <3>2 DEF Candidate
      <4> QED
        BY <1>3, <2>2, <4>1
    <3> QED
      BY <3>1, <3>2, Zenon
  <2>7. Proposed' = Nothing
    BY <1>3, <2>2, <2>6 DEF Proposed
  <2>8. Register!Land
    BY <1>3, <2>5, <2>7, Zenon DEF Register!Land, Register!Nothing, Nothing
  <2> QED
    BY <2>8, Zenon DEF Register!Next
<1> QED
  BY <1>2, <1>3, LeastNatural, EffectKeeps, Zenon

\* The machine's steps keep the candidate, or give it up.
LEMMA MachineRefines ==
  ASSUME IInv, IInv', Timeout \/ JournalStep
  PROVE  [Register!Next]_<<Current, Proposed>>
<1>1. UNCHANGED cells /\ status = "busy"
  BY Zenon DEF Timeout, JournalStep, StartRequest, StartOperation, Wait, Verify, device,
         IInv, Control, Resting
<1>2. Current' = Current
  BY <1>1, SameImage, Zenon
<1>3. CASE Timeout \/ StartRequest
  <2>1. UNCHANGED <<status, op, checkpoint, record, pending_record>>
    BY <1>3, Zenon DEF Timeout, StartRequest, device, buffers
  <2>2. Candidate' = Candidate
    BY <2>1, Zenon DEF Candidate
  <2> QED
    BY <1>2, <2>2, SameCurrent, Zenon
<1>4. CASE StartOperation
  <2>1. op = NoOp /\ UNCHANGED <<checkpoint, record, pending_record>>
    BY <1>4, Zenon DEF StartOperation, flags, buffers, IInv, Borrowed, DeviceOK
  <2>2. (op' = NoOp /\ status' = "failed") \/ UNCHANGED status
    BY <1>4, <2>1, Zenon DEF StartOperation, Fail
  <2>3. Candidate' = Candidate \/ Candidate'.sequence <= Current'.sequence
    BY <1>1, <2>1, <2>2, NoCandidateNext, Zenon DEF Candidate
  <2> QED
    BY <1>2, <2>3, SameCurrent, Zenon
<1>5. CASE Wait
  <2>1. UNCHANGED <<op, checkpoint, record, pending_record>>
    BY <1>5, Zenon DEF Wait, device, flags
  <2>2. \/ UNCHANGED status
        \/ status' = "failed"
        \/ status' = "ok" /\ op' = NoOp
    BY <1>5, <2>1, Zenon DEF Wait, Fail
  <2>3. CASE UNCHANGED status \/ (status' = "ok" /\ op' = NoOp)
    <3>1. Candidate' = Candidate \/ Candidate'.sequence <= Current'.sequence
      BY <1>1, <2>1, <2>3, NoCandidateNext, Zenon DEF Candidate
    <3> QED
      BY <1>2, <3>1, SameCurrent, Zenon
  <2>4. CASE status' = "failed"
    <3>1. Current.sequence \in Nat
      BY CandidateSane, Constants, Zenon
    <3>2. op.kind = "write" => op.snapshot = record
      BY Constants, Zenon DEF IInv, Borrowed
    <3>3. checkpoint => record = Current
      BY <1>1, Zenon DEF IInv, Records
    <3>4. CASE op.kind = "write" /\ op.unit + 1 = Units
      <4>1. Candidate' = record
        BY <2>1, <2>4, <3>2, <3>4, Zenon DEF Candidate
      <4>2. Candidate = IF checkpoint THEN pending_record ELSE record
        BY <1>1, Zenon DEF Candidate
      <4>3. Candidate' = Candidate \/ Candidate'.sequence <= Current'.sequence
        BY <1>2, <3>1, <3>3, <4>1, <4>2
      <4> QED
        BY <1>2, <4>3, SameCurrent, Zenon
    <3>5. CASE ~(op.kind = "write" /\ op.unit + 1 = Units)
      <4>1. Candidate' = Nothing
        BY <2>1, <2>4, <3>5, Zenon DEF Candidate
      <4>2. Candidate'.sequence <= Current'.sequence
        BY <1>2, <3>1, <4>1, Constants
      <4> QED
        BY <1>2, <4>2, SameCurrent, Zenon
    <3> QED
      BY <3>4, <3>5, Zenon
  <2> QED
    BY <2>2, <2>3, <2>4, Zenon
<1>6. CASE Verify
  <2>1. op' = NoOp /\ UNCHANGED pending_record
    BY <1>6, Constants, Zenon DEF Verify, device, IInv, Borrowed, DeviceOK
  <2>2. \/ status' \in {"failed", "ok"}
        \/ checkpoint /\ ~checkpoint' /\ record' = pending_record /\ UNCHANGED status
    BY <1>6, Zenon DEF Verify, Fail
  <2>3. Candidate' = Candidate \/ Candidate'.sequence <= Current'.sequence
    BY <1>1, <2>1, <2>2, NoCandidateNext, Zenon DEF Candidate
  <2> QED
    BY <1>2, <2>3, SameCurrent, Zenon
<1> QED
  BY <1>3, <1>4, <1>5, <1>6, Zenon DEF JournalStep

\* Requests and the hand-over start from an idle device.
LEMMA RequestRefines ==
  ASSUME IInv, IInv', UNCHANGED cells, status # "busy", op = NoOp
  PROVE  [Register!Next]_<<Current, Proposed>>
<1>1. Current' = Current
  BY SameImage, Zenon
<1> QED
  BY <1>1, NoCandidate, SameCurrent, Zenon

LEMMA StepRefines ==
  IInv /\ IInv' /\ [Next /\ UNCHANGED constrained]_vars =>
    [Register!Next]_<<Current, Proposed>>
<1> SUFFICES ASSUME IInv, IInv', [Next /\ UNCHANGED constrained]_vars
             PROVE  [Register!Next]_<<Current, Proposed>>
  BY Zenon
<1>1. CASE UNCHANGED vars
  <2>1. UNCHANGED <<cells, status, op, checkpoint, record, pending_record>>
    BY <1>1, Zenon DEF vars
  <2>2. Current' = Current /\ Candidate' = Candidate
    BY <2>1, SameImage, Zenon DEF Candidate
  <2> QED
    BY <2>2, SameCurrent, Zenon
<1>2. CASE Timeout \/ JournalStep
  BY <1>2, MachineRefines, Zenon
<1>3. CASE \E n \in 0..MaxCounter : Begin(n)
  <2>1. UNCHANGED cells /\ status # "busy" /\ op = NoOp
    BY <1>3, Zenon DEF Begin, DeviceIdle
  <2> QED
    BY <2>1, RequestRefines, Zenon
<1>4. CASE \E b \in Banks : PrepareRuntime(b)
  <2>1. UNCHANGED cells /\ status # "busy" /\ op = NoOp
    BY <1>4, Zenon DEF PrepareRuntime, device
  <2> QED
    BY <2>1, RequestRefines, Zenon
<1>5. CASE PrepareCopied \/ PrepareErased
  <2>1. UNCHANGED cells /\ status = "ok"
    BY <1>5, Zenon DEF PrepareCopied, PrepareErased, device
  <2>2. op = NoOp
    BY <2>1, Zenon DEF IInv, Control, Borrowed, DeviceOK
  <2> QED
    BY <2>1, <2>2, RequestRefines, Zenon
<1>6. CASE FlashDone \/ FlashError \/ FlashCorrupts
  <2>1. Effect
    BY <1>6, DoneEffect, DisturbEffect, CorruptEffect, Zenon DEF FlashError
  <2>2. op # NoOp /\ op' = NoOp /\ UNCHANGED <<status, checkpoint, record, pending_record>>
    BY <1>6, Constants, Zenon DEF FlashDone, FlashError, FlashCorrupts, flags, buffers
  <2> QED
    BY <2>1, <2>2, DeviceRefines, Zenon
<1>7. CASE Restart
  <2>1. Effect /\ op' = NoOp /\ status' # "busy"
    BY <1>7, DisturbEffect, Zenon DEF Restart, Fresh
  <2> QED
    BY <2>1, DeviceRefines, Zenon
<1>8. CASE \E b \in Banks : Handoff(b)
  <2>1. UNCHANGED cells /\ prepare.phase = "ready"
    BY <1>8 DEF Handoff
  <2>2. status # "busy" /\ op = NoOp
    BY <2>1, Zenon DEF IInv, Preparing
  <2> QED
    BY <2>1, <2>2, RequestRefines, Zenon
<1> QED
  BY <1>1, <1>2, <1>3, <1>4, <1>5, <1>6, <1>7, <1>8, Zenon DEF Next

LEMMA InitRefines == Init => Register!Init
<1> SUFFICES ASSUME Init PROVE Register!Init
  BY Zenon
<1>1. IInv /\ status = "ok" /\ op = NoOp
  BY LeastNatural, InvInit, Zenon DEF Init
<1>2. Current \in Snapshot /\ Current.sequence \in Nat
  BY <1>1, CandidateSane, Constants, Zenon
<1>3. Candidate = Nothing
  BY <1>1, Constants, Zenon DEF Candidate
<1>4. Proposed = Nothing
  BY <1>2, <1>3, Constants, Zenon DEF Proposed
<1> QED
  BY <1>2, <1>4, Zenon
     DEF Register!Init, Register!Snapshot, Register!Nothing, Snapshot, Nothing

\* The journal implements the register that a commit replaces atomically: no
\* failure, timeout or power loss leaves half a commit or brings an older
\* snapshot back (journal.cpp begin(), tick(), load()).
THEOREM JournalIsAtomic == Spec => CommitsAtomically
BY InitRefines, InvAlways, StepRefines, PTL
   DEF Spec, CommitsAtomically, Register!Spec
==============================================================================
