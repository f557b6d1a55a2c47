------------------------------ MODULE Package ------------------------------
(***************************************************************************)
(* The update package: tools/package.py builds it from two images that     *)
(* were linked for the two slots, and lib/update/package.cpp unpacks it    *)
(* from a stream that arrives in fragments of any size, relocating each    *)
(* block for the slot it is written to.  An image is a sequence of digits; *)
(* PkWord of them make a relocatable word, the lowest digit first.  The    *)
(* fields of a block's header and a patch record take one element of the   *)
(* stream each.                                                            *)
(***************************************************************************)
EXTENDS Integers, Sequences, FiniteSets, SequencesExt

CONSTANTS PkDigit,      \* values of a digit of an image (256)
          PkWord,       \* digits of a word (4)
          PkBlockSize,  \* kBlockSize
          PkDelta,      \* addresses[1] - addresses[0]
          PkPairs,      \* images linked for A and B: packed with patches
          PkFixedPairs, \* images packed for one slot only
          PkFragment,   \* longest input of one tick
          PkMaxStarts,  \* uploads of the package
          PkDamage      \* values that a damaged stream element may take

VARIABLES pkA, pkB,      \* the images linked for slot A and for slot B
          pkFixed,       \* --fixed-slot: 0 none, 1 slot A, 2 slot B
          pkDestination, \* destination_
          pkStream,      \* the package after its header
          pkHeader,      \* header_
          pkDamaged,     \* an element of the stream was damaged
          pkState, pkStatus, pkOffset, pkLength, pkCount,
          pkPart,        \* the filled_ elements of the part being collected
          pkPatches,     \* patches_
          pkBlock,       \* data_
          pkStart, pkRelease,  \* start_requested_, release_requested_
          pkSent,        \* elements of the stream consumed
          pkOut,         \* what the owner has programmed
          pkStarts

pkInput == <<pkA, pkB, pkFixed, pkDestination>>
pkReader == <<pkState, pkStatus, pkOffset, pkLength, pkCount, pkPart,
              pkPatches, pkBlock>>
pkVars == <<pkInput, pkReader, pkStream, pkHeader, pkDamaged, pkStart,
            pkRelease, pkSent, pkOut, pkStarts>>

PkModulus == PkDigit^PkWord
PkMaxPatches == PkBlockSize \div PkWord
PkSubtract == 1000   \* bit 15 of a patch record

PkLeast(m, n) == IF m < n THEN m ELSE n

(* A little-endian word at offset "at", and its digits.                     *)
PkRead(image, at) ==
  LET Value[i \in 0..PkWord] ==
        IF i = 0 THEN 0
        ELSE PkDigit * Value[i - 1] + image[at + PkWord + 1 - i]
  IN  Value[PkWord]

PkWritten(image, at, value) ==
  [i \in 1..Len(image) |->
     IF i \in (at + 1)..(at + PkWord)
     THEN (value \div PkDigit^(i - at - 1)) % PkDigit ELSE image[i]]

PkMoved(value, code) ==
  (IF code >= PkSubtract THEN value - PkDelta ELSE value + PkDelta) % PkModulus

-----------------------------------------------------------------------------
(* build_package.                                                          *)
PkBase == IF pkFixed = 2 THEN pkB ELSE pkA
PkOffsets(image) == {n * PkBlockSize : n \in 0..((Len(image) - 1) \div PkBlockSize)}

PkSlice(image, offset) ==
  SubSeq(image, offset + 1, PkLeast(offset + PkBlockSize, Len(image)))

PkDiffers(before, after, at) ==
  SubSeq(before, at + 1, PkLeast(at + PkWord, Len(before)))
    # SubSeq(after, at + 1, PkLeast(at + PkWord, Len(after)))

PkChanges(before, after) ==
  {at \in 0..(Len(before) - 1) : at % PkWord = 0 /\ PkDiffers(before, after, at)}

PkChange(before, after, at) ==
  (PkRead(after, at) - PkRead(before, at)) % PkModulus

PkSupported(before, after) ==
  \A at \in PkChanges(before, after) :
    /\ at + PkWord <= Len(before)
    /\ PkChange(before, after, at) \in {PkDelta, (-PkDelta) % PkModulus}

PkCodes(before, after) ==
  LET order == SetToSortSeq(PkChanges(before, after), LAMBDA m, n : m < n)
  IN  [i \in 1..Len(order) |->
         order[i] \div PkWord
           + (IF PkChange(before, after, order[i]) = PkDelta THEN 0
              ELSE PkSubtract)]

PkPacked(base, other, offset) ==
  LET block == PkSlice(base, offset)
      codes == IF pkFixed = 0 THEN PkCodes(block, PkSlice(other, offset))
               ELSE <<>>
  IN  <<offset, Len(block), Len(codes)>> \o codes \o block

PkBuildable ==
  /\ PkDelta % PkModulus # 0
  /\ (2 * PkDelta) % PkModulus # 0
  /\ pkFixed = 0 => /\ Len(pkA) = Len(pkB)
                    /\ \A o \in PkOffsets(pkA) :
                         PkSupported(PkSlice(pkA, o), PkSlice(pkB, o))

PkPayload ==
  LET order == SetToSortSeq(PkOffsets(PkBase), LAMBDA m, n : m < n)
  IN  FlattenSeq([i \in 1..Len(order) |-> PkPacked(PkBase, pkB, order[i])])

-----------------------------------------------------------------------------
(* decode_header: the package fits the layout, and a fixed one its slot.     *)
PkBlocks(size) == (size + PkBlockSize - 1) \div PkBlockSize
PkMinimum(size) == 3 * PkBlocks(size) + size

PkDecodesAnySlot(header) ==
  /\ header.size > 0
  /\ header.encoding <= 2
  /\ header.package >= PkMinimum(header.size)

PkDecodes(header) ==
  /\ header.size > 0
  /\ header.encoding <= 2
  /\ header.encoding # 0 => header.encoding = pkDestination + 1
  /\ header.package >= PkMinimum(header.size)
  /\ header.package <= PkMinimum(header.size)
                         + PkBlocks(header.size) * PkMaxPatches

PkInit ==
  /\ pkFixed \in 0..2
  /\ \E pair \in IF pkFixed = 0 THEN PkPairs ELSE PkFixedPairs :
       pkA = pair[1] /\ pkB = pair[2]
  /\ pkDestination \in 0..1
  /\ PkBuildable
  /\ pkStream = PkPayload
  /\ pkHeader = [size |-> Len(PkBase), encoding |-> pkFixed,
                 package |-> Len(pkStream)]
  /\ pkDamaged = FALSE
  /\ pkState = "idle" /\ pkStatus = "ok"
  /\ pkOffset = 0 /\ pkLength = 0 /\ pkCount = 0
  /\ pkPart = <<>> /\ pkPatches = <<>> /\ pkBlock = <<>>
  /\ pkStart = FALSE /\ pkRelease = FALSE
  /\ pkSent = 0 /\ pkOut = <<>> /\ pkStarts = 0

(* start: the owner accepted the header of a new upload.                     *)
PkBegin ==
  /\ pkStarts < PkMaxStarts
  /\ PkDecodes(pkHeader)
  /\ pkStart' = TRUE
  /\ pkSent' = 0
  /\ pkOut' = <<>>
  /\ pkStarts' = pkStarts + 1
  /\ UNCHANGED <<pkInput, pkReader, pkStream, pkHeader, pkDamaged, pkRelease>>

(* Step with start_requested_.                                               *)
PkRestartKeeps ==
  /\ pkStart' = FALSE
  /\ pkState' = "header" /\ pkStatus' = "ok"
  /\ pkOffset' = 0 /\ pkLength' = 0 /\ pkCount' = 0
  /\ pkPart' = <<>>
  /\ UNCHANGED <<pkPatches, pkBlock, pkSent, pkRelease>>

PkRestart ==
  /\ pkStart' = FALSE /\ pkRelease' = FALSE
  /\ pkState' = "header" /\ pkStatus' = "ok"
  /\ pkOffset' = 0 /\ pkLength' = 0 /\ pkCount' = 0
  /\ pkPart' = <<>>
  /\ UNCHANGED <<pkPatches, pkBlock, pkSent>>

(* Copy: as much of the input as the part still needs.                       *)
PkTake(input, size) == PkLeast(Len(input), size - Len(pkPart))
PkFilled(input, size) == pkPart \o SubSeq(input, 1, PkTake(input, size))

PkFails ==
  /\ pkState' = "failed" /\ pkStatus' = "parse_error"

PkHeaderStep(input) ==
  LET part == PkFilled(input, 3) IN
  /\ pkSent' = pkSent + PkTake(input, 3)
  /\ IF Len(part) < 3
     THEN /\ pkPart' = part
          /\ UNCHANGED <<pkState, pkStatus, pkLength, pkCount>>
     ELSE /\ pkLength' = part[2] /\ pkCount' = part[3]
          /\ IF \/ part[1] # pkOffset \/ pkOffset >= pkHeader.size
                \/ part[2] # PkLeast(PkBlockSize, pkHeader.size - pkOffset)
                \/ part[3] > PkMaxPatches
             THEN PkFails /\ pkPart' = part
             ELSE /\ pkPart' = <<>>
                  /\ pkState' = IF part[3] > 0 THEN "patches" ELSE "data"
                  /\ UNCHANGED pkStatus
  /\ UNCHANGED <<pkOffset, pkPatches, pkBlock, pkStart, pkRelease>>

PkPatchesStep(input) ==
  LET part == PkFilled(input, pkCount) IN
  /\ pkSent' = pkSent + PkTake(input, pkCount)
  /\ IF Len(part) < pkCount
     THEN pkPart' = part /\ UNCHANGED <<pkState, pkPatches>>
     ELSE pkPart' = <<>> /\ pkPatches' = part /\ pkState' = "data"
  /\ UNCHANGED <<pkStatus, pkOffset, pkLength, pkCount, pkBlock, pkStart,
                 pkRelease>>

(* Apply: patches in order, each inside the block, and none in an image      *)
(* that is for one slot only.                                               *)
PkAt(i) == (pkPatches[i] % PkSubtract) * PkWord

PkApplies ==
  \A i \in 1..pkCount :
    /\ PkAt(i) + PkWord <= pkLength
    /\ i > 1 => PkAt(i) > PkAt(i - 1)
    /\ pkHeader.encoding = 0

PkApplied(block) ==
  LET Done[i \in 0..pkCount] ==
        IF i = 0 THEN block
        ELSE PkWritten(Done[i - 1], PkAt(i),
                       PkMoved(PkRead(Done[i - 1], PkAt(i)), pkPatches[i]))
  IN  IF pkDestination = 1 THEN Done[pkCount] ELSE block

PkDataStep(input) ==
  LET part == PkFilled(input, pkLength) IN
  /\ pkSent' = pkSent + PkTake(input, pkLength)
  /\ pkPart' = part
  /\ IF Len(part) < pkLength
     THEN UNCHANGED <<pkState, pkStatus, pkBlock>>
     ELSE IF PkApplies
     THEN pkState' = "ready" /\ pkBlock' = PkApplied(part) /\ UNCHANGED pkStatus
     ELSE PkFails /\ pkBlock' = part
  /\ UNCHANGED <<pkOffset, pkLength, pkCount, pkPatches, pkStart, pkRelease>>

PkReadyStep ==
  /\ pkRelease
  /\ pkRelease' = FALSE
  /\ pkOffset' = pkOffset + pkLength
  /\ pkPart' = <<>>
  /\ pkState' = IF pkOffset' = pkHeader.size THEN "done" ELSE "header"
  /\ UNCHANGED <<pkStatus, pkLength, pkCount, pkPatches, pkBlock, pkStart,
                 pkSent>>

(* tick with the next n elements of the stream.                              *)
PkTick(n) ==
  LET input == SubSeq(pkStream, pkSent + 1, pkSent + n) IN
  /\ pkSent + n <= Len(pkStream)
  /\ \/ pkStart /\ PkRestart
     \/ ~pkStart /\ pkState = "header" /\ PkHeaderStep(input)
     \/ ~pkStart /\ pkState = "patches" /\ PkPatchesStep(input)
     \/ ~pkStart /\ pkState = "data" /\ PkDataStep(input)
     \/ ~pkStart /\ pkState = "ready" /\ PkReadyStep
  /\ UNCHANGED <<pkInput, pkStream, pkHeader, pkDamaged, pkOut, pkStarts>>

(* The owner programs the block that is ready and releases it.              *)
PkProgram ==
  /\ pkState = "ready" /\ ~pkStart /\ ~pkRelease
  /\ pkOut' = pkOut \o pkBlock
  /\ pkRelease' = TRUE
  /\ UNCHANGED <<pkInput, pkReader, pkStream, pkHeader, pkDamaged, pkStart,
                 pkSent, pkStarts>>

(* An element of the package file changes before it is first sent.           *)
PkDamages(i, value) ==
  /\ ~pkDamaged
  /\ pkStarts = 0
  /\ pkStream[i] # value
  /\ pkStream' = [pkStream EXCEPT ![i] = value]
  /\ pkDamaged' = TRUE
  /\ UNCHANGED <<pkInput, pkReader, pkHeader, pkStart, pkRelease, pkSent,
                 pkOut, pkStarts>>

PkNext ==
  \/ PkBegin
  \/ \E n \in 0..PkFragment : PkTick(n)
  \/ PkProgram
  \/ \E i \in 1..Len(pkStream), value \in PkDamage : PkDamages(i, value)

PkSpec == PkInit /\ [][PkNext]_pkVars

-----------------------------------------------------------------------------
PkTypeOK ==
  /\ pkState \in {"idle", "header", "patches", "data", "ready", "done", "failed"}
  /\ pkSent \in 0..Len(pkStream)

PkWanted == IF pkDestination = 0 THEN pkA ELSE pkB

(* From an undamaged package, however it is fragmented and even when the     *)
(* upload is started again half way, what is programmed is a prefix of the   *)
(* very image that was linked for the destination slot; the reader never     *)
(* fails, and it is done only when the image is whole (PackageReader against *)
(* build_package).                                                          *)
PkRelocates ==
  (~pkDamaged /\ ~pkStart) =>
    /\ IsPrefix(pkOut, PkWanted)
    /\ pkState # "failed"
    /\ pkState = "done" => pkOut = PkWanted

(* A block that is handed over lies inside the image and inside the block    *)
(* buffer even when the package is damaged, so that the owner never programs *)
(* past the slot (the checks of the block header and of Apply).              *)
PkInside ==
  pkState = "ready" => /\ Len(pkBlock) = pkLength
                       /\ pkLength <= PkBlockSize
                       /\ pkOffset + pkLength <= pkHeader.size
                       /\ ~pkStart => Len(pkOut) + (IF pkRelease THEN 0 ELSE pkLength)
                                        = pkOffset + pkLength

(* What is programmed, from a good package and from a damaged one.           *)
PkImage == PkTypeOK /\ PkRelocates /\ PkInside

=============================================================================
