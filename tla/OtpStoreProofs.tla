--------------------------- MODULE OtpStoreProofs ----------------------------
(***************************************************************************)
(* The one-time programmable store, for every number of rows, cells and    *)
(* lock words and every set of serial numbers: across resets, torn writes  *)
(* and failed inspections the record verified last, or a later whole one,  *)
(* is served, and no burnt cell is written again.                          *)
(***************************************************************************)
EXTENDS OtpStore, WellFoundedInduction, TLAPS

\* A set of natural numbers with a bound has a greatest element.
LEMMA OtGreatest ==
  ASSUME NEW S \in SUBSET Nat, S # {}, NEW N \in Nat, \A x \in S : x <= N
  PROVE  Max(S) \in S /\ \A y \in S : y <= Max(S)
<1> DEFINE R == OpToRel(<, Nat)
           T == {n \in Nat : \E x \in S : n = N - x}
<1>1. \A m, n \in Nat : <<m, n>> \in R <=> m < n
  BY Zenon DEF OpToRel
<1>2. IsWellFoundedOn(R, Nat)
  BY NatLessThanWellFounded, Zenon
<1>3. T \in SUBSET Nat /\ \A x \in S : N - x \in T
  BY DEF T
<1>4. T # {}
  BY <1>3, Zenon
<1> HIDE DEF R, T
<1>5. PICK n \in T : \A m \in T : ~(<<m, n>> \in R)
  BY <1>2, <1>3, <1>4, WFMin, Zenon
<1>6. PICK x \in S : n = N - x
  BY <1>5, Zenon DEF T
<1>7. ASSUME NEW y \in S
      PROVE  x >= y
  <2>1. N - y \in Nat /\ N - x \in Nat /\ ~(N - y < N - x)
    BY <1>1, <1>3, <1>5, <1>6, Zenon
  <2> QED
    BY <2>1
<1>8. \E z \in S : \A y \in S : z >= y
  BY <1>7, Zenon
<1>9. Max(S) \in S /\ \A y \in S : Max(S) >= y
  BY <1>8, Zenon DEF Max
<1> QED
  BY <1>9, Zenon

\* What each driver can leave in a cell.
OtBurns ==
  /\ otBackend \in {"h5", "flash", "file"}
  /\ otBackend # "flash" =>
       \A b \in 1 .. OtBlocks, c \in 1 .. OtLocks : otDevice[b].locks[c] \in {"virgin", "done"}
  /\ otBackend = "file" =>
       \A b \in 1 .. OtBlocks, c \in 1 .. OtCells : otDevice[b].cells[c] # "wrong"

\* How far set_serial is: a block being programmed is the next one, and blank
\* from the cell it is at; one being locked is the one served.
OtStage ==
  \/ otOp = OtIdle
  \/ /\ otReady /\ otOp.block \in 1 .. OtBlocks /\ otOp.value \in OtSerials
     /\ \/ /\ otOp.stage = "program" /\ otOp.block = otNext /\ otOp.cell \in 1 .. OtCells
           /\ otOp.cell > 1 =>
                \A c \in otOp.cell .. OtCells : otDevice[otOp.block].cells[c] = "virgin"
        \/ otOp.stage = "verify" /\ otVerified.block < otOp.block /\ otOp.block < otNext
        \/ otOp.stage \in {"lock", "check"} /\ otOp.block = otSerial.block

\* The record verified last is whole, is what a store that is ready serves, and
\* lies before the next block.
OtRemembers ==
  /\ otVerified.block > 0 =>
       OtWhole(otVerified.block) /\ otDevice[otVerified.block].value # OtUnknown
  /\ otSerial.block = 0 => otSerial = OtNoSerial
  /\ otReady =>
       /\ otInitialized
       /\ otSerial.block = otVerified.block /\ otVerified.block < otNext
       /\ otSerial.block > 0 => otDevice[otSerial.block].value = otSerial.value
  /\ otLocked => otReady /\ otSerial.block > 0 /\ OtIsLocked(otSerial.block)

OtInvariant == OtTypeOK /\ OtBurns /\ OtStage /\ OtRemembers

\* The sizes of the store.
LEMMA OtSizes ==
  /\ OtBlocks \in Nat /\ OtBlocks >= 1 /\ OtCells \in Nat /\ OtCells >= 1
  /\ OtLocks \in Nat /\ OtLocks >= 1
  /\ 1 \in 1 .. OtCells /\ 1 \in 1 .. OtLocks
<1>1. /\ OtBlocks \in Nat \ {0} /\ OtCells \in Nat \ {0} /\ OtLocks \in Nat \ {0}
  BY OtAssumption, Zenon
<1> QED
  BY <1>1

\* A row after one of its cells, or lock cells, was written.
OtCellSet(r, c, state, v) == [r EXCEPT !.cells[c] = state, !.value = v]
OtLockSet(r, c, state) == [r EXCEPT !.locks[c] = state]

LEMMA OtWrittenRow ==
  ASSUME NEW r \in OtRows, NEW c \in 1 .. OtCells, NEW state \in OtCellStates,
         NEW v \in OtValues
  PROVE  LET w == OtCellSet(r, c, state, v)
         IN /\ w \in OtRows /\ w.locks = r.locks /\ w.value = v /\ w.cells[c] = state
            /\ \A d \in 1 .. OtCells : d # c => w.cells[d] = r.cells[d]
<1> DEFINE cells == [r.cells EXCEPT ![c] = state]
           w == OtCellSet(r, c, state, v)
<1>1. r.cells \in [1 .. OtCells -> OtCellStates] /\ r.locks \in [1 .. OtLocks -> OtCellStates]
  BY Zenon DEF OtRows
<1>2. /\ cells \in [1 .. OtCells -> OtCellStates] /\ cells[c] = state
      /\ \A d \in 1 .. OtCells : d # c => cells[d] = r.cells[d]
  BY <1>1, Zenon
<1>3. w = [cells |-> cells, locks |-> r.locks, value |-> v]
  <2> DEFINE u == [r EXCEPT !.cells[c] = state]
  <2>1. u = [cells |-> cells, locks |-> r.locks, value |-> r.value]
    BY DEF OtRows
  <2>2. w = [u EXCEPT !.value = v]
    BY Zenon DEF OtCellSet
  <2> HIDE DEF u, w, cells
  <2> QED
    BY <2>1, <2>2, Zenon
<1> HIDE DEF cells
<1>4. w \in OtRows /\ w.locks = r.locks /\ w.value = v /\ w.cells = cells
  BY <1>1, <1>2, <1>3 DEF OtRows
<1> QED
  BY <1>2, <1>4, Zenon

LEMMA OtLockedRow ==
  ASSUME NEW r \in OtRows, NEW c \in 1 .. OtLocks, NEW state \in OtCellStates
  PROVE  LET w == OtLockSet(r, c, state)
         IN /\ w \in OtRows /\ w.cells = r.cells /\ w.value = r.value /\ w.locks[c] = state
            /\ \A d \in 1 .. OtLocks : d # c => w.locks[d] = r.locks[d]
<1> DEFINE locks == [r.locks EXCEPT ![c] = state]
           w == OtLockSet(r, c, state)
<1>1. /\ r.cells \in [1 .. OtCells -> OtCellStates] /\ r.locks \in [1 .. OtLocks -> OtCellStates]
      /\ r.value \in OtValues
  BY Zenon DEF OtRows
<1>2. /\ locks \in [1 .. OtLocks -> OtCellStates] /\ locks[c] = state
      /\ \A d \in 1 .. OtLocks : d # c => locks[d] = r.locks[d]
  BY <1>1, Zenon
<1>3. w = [cells |-> r.cells, locks |-> locks, value |-> r.value]
  BY DEF OtRows, OtLockSet
<1> HIDE DEF locks
<1>4. w \in OtRows /\ w.cells = r.cells /\ w.value = r.value /\ w.locks = locks
  BY <1>1, <1>2, <1>3 DEF OtRows
<1> QED
  BY <1>2, <1>4, Zenon

\* A step that burns only what is blank, and leaves a whole record's value.
OtBurnt ==
  \A b \in 1 .. OtBlocks :
    /\ \A c \in 1 .. OtCells : otDevice[b].cells[c] # "virgin" =>
                                 otDevice'[b].cells[c] = otDevice[b].cells[c]
    /\ \A c \in 1 .. OtLocks : otDevice[b].locks[c] # "virgin" =>
                                 otDevice'[b].locks[c] = otDevice[b].locks[c]
    /\ OtWhole(b) => otDevice'[b].value = otDevice[b].value

\* The block that program() may write is blank from the cell it is at.
LEMMA OtBlank ==
  ASSUME OtInvariant, otOp.stage = "program",
         otOp.cell = 1 => OtStorage(otOp.block) = "unused"
  PROVE  /\ otOp.block \in 1 .. OtBlocks /\ otOp.cell \in 1 .. OtCells
         /\ otOp.value \in OtSerials /\ otReady /\ otOp.block = otNext
         /\ \A c \in otOp.cell .. OtCells : otDevice[otOp.block].cells[c] = "virgin"
<1>1. otOp # OtIdle
  BY DEF OtIdle
<1>2. /\ otOp.block \in 1 .. OtBlocks /\ otOp.cell \in 1 .. OtCells
      /\ otOp.value \in OtSerials /\ otReady /\ otOp.block = otNext
      /\ otOp.cell > 1 =>
           \A c \in otOp.cell .. OtCells : otDevice[otOp.block].cells[c] = "virgin"
  BY <1>1, Zenon DEF OtInvariant, OtStage
<1>3. CASE otOp.cell = 1
  <2> DEFINE b == otOp.block
  <2>1. OtStorage(b) = "unused"
    BY <1>3, Zenon
  <2>2. ASSUME NEW c \in 1 .. OtCells, otDevice[b].cells[c] # "virgin"
        PROVE  FALSE
    <3>6. otDevice[b] \in OtRows
      BY <1>2, Zenon DEF OtInvariant, OtTypeOK
    <3> HIDE DEF b
    <3>1. otDevice[b].cells[c] \in OtCellStates
      BY <3>6, Zenon DEF OtRows
    <3> USE DEF b
    <3>2. OtHas(b, "done") \/ OtHas(b, "wrong") \/ OtHas(b, "unreadable")
      BY <2>2, <3>1, Zenon DEF OtHas, OtCellStates
    <3>3. CASE otBackend = "h5"
      <4>1. OtStorageH5(b) = "unused"
        BY <2>1, <3>3, Zenon DEF OtStorage
      <4> QED
        BY <3>2, <4>1, Zenon DEF OtStorageH5
    <3>4. CASE otBackend = "flash"
      <4>1. OtStorageFlash(b) = "unused"
        BY <2>1, <3>4, Zenon DEF OtStorage
      <4>2. otDevice[b] = OtVirgin
        BY <4>1, Zenon DEF OtStorageFlash
      <4>3. OtVirgin.cells[c] = "virgin"
        BY Zenon DEF OtVirgin
      <4> QED
        BY <2>2, <4>2, <4>3, Zenon
    <3>5. CASE otBackend = "file"
      <4>1. OtStorageFile(b) = "unused"
        BY <2>1, <3>5, Zenon DEF OtStorage
      <4>2. ~OtHas(b, "wrong")
        BY <1>2, <3>5, Zenon DEF OtInvariant, OtBurns, OtHas
      <4> QED
        BY <3>2, <4>1, <4>2, Zenon DEF OtStorageFile
    <3> QED
      BY <3>3, <3>4, <3>5, Zenon DEF OtInvariant, OtBurns
  <2>3. otOp.cell .. OtCells = 1 .. OtCells
    BY <1>3, Zenon
  <2> QED
    BY <1>2, <2>2, <2>3, Zenon
<1> QED
  BY <1>2, <1>3

LEMMA OtWriteEffect ==
  ASSUME OtInvariant, otOp.stage = "program",
         otOp.cell = 1 => OtStorage(otOp.block) = "unused",
         NEW state \in OtTorn, OtWritten(state), otBackend' = otBackend
  PROVE  /\ otDevice' \in [1 .. OtBlocks -> OtRows] /\ OtBurns' /\ OtBurnt
         /\ \A c \in otOp.cell + 1 .. OtCells : otDevice'[otOp.block].cells[c] = "virgin"
<1> DEFINE b == otOp.block
           k == otOp.cell
           r == otDevice[b]
           w == OtCellSet(r, k, state, otOp.value)
<1>1. /\ b \in 1 .. OtBlocks /\ k \in 1 .. OtCells /\ otOp.value \in OtSerials
      /\ \A c \in k .. OtCells : r.cells[c] = "virgin"
  BY OtBlank, Zenon
<1>2. otDevice \in [1 .. OtBlocks -> OtRows] /\ r \in OtRows
  BY <1>1, Zenon DEF OtInvariant, OtTypeOK
<1>3. state \in OtCellStates /\ (otBackend = "file" => state # "wrong")
  BY Zenon DEF OtTorn, OtCellStates
<1>4. otOp.value \in OtValues
  BY <1>1, Zenon DEF OtValues
<1>5. /\ w \in OtRows /\ w.locks = r.locks /\ w.value = otOp.value /\ w.cells[k] = state
      /\ \A d \in 1 .. OtCells : d # k => w.cells[d] = r.cells[d]
  BY <1>1, <1>2, <1>3, <1>4, OtWrittenRow
<1>6. otDevice' = [otDevice EXCEPT ![b] = w]
  BY <1>2, Zenon DEF OtWritten, OtCellSet
<1> HIDE DEF w
<1>7. /\ otDevice' \in [1 .. OtBlocks -> OtRows] /\ otDevice'[b] = w
      /\ \A a \in 1 .. OtBlocks : a # b => otDevice'[a] = otDevice[a]
  BY <1>1, <1>2, <1>5, <1>6, Zenon
<1>8. k \in k .. OtCells /\ \A c \in k + 1 .. OtCells : c # k /\ c \in k .. OtCells /\ c \in 1 .. OtCells
  BY <1>1, OtSizes
<1>9. r.cells[k] = "virgin" /\ ~OtWhole(b)
  <2>1. "virgin" # "done"
    BY Zenon
  <2> QED
    BY <1>1, <1>8, <2>1, Zenon DEF OtWhole
<1>10. OtBurnt
  <2> SUFFICES ASSUME NEW a \in 1 .. OtBlocks
               PROVE  /\ \A c \in 1 .. OtCells : otDevice[a].cells[c] # "virgin" =>
                                 otDevice'[a].cells[c] = otDevice[a].cells[c]
                      /\ \A c \in 1 .. OtLocks : otDevice[a].locks[c] # "virgin" =>
                                 otDevice'[a].locks[c] = otDevice[a].locks[c]
                      /\ OtWhole(a) => otDevice'[a].value = otDevice[a].value
    BY Zenon DEF OtBurnt
  <2>1. CASE a = b
    BY <1>5, <1>7, <1>9, <2>1, Zenon
  <2>2. CASE a # b
    BY <1>7, <2>2, Zenon
  <2> QED
    BY <2>1, <2>2, Zenon
<1>11. OtBurns'
  <2>1. otBackend' # "flash" => \A a \in 1 .. OtBlocks, c \in 1 .. OtLocks :
                                   otDevice'[a].locks[c] \in {"virgin", "done"}
    <3> SUFFICES ASSUME otBackend # "flash", NEW a \in 1 .. OtBlocks, NEW c \in 1 .. OtLocks
                 PROVE  otDevice'[a].locks[c] \in {"virgin", "done"}
      BY Zenon
    <3>1. otDevice'[a].locks = otDevice[a].locks
      BY <1>5, <1>7, Zenon
    <3> QED
      BY <3>1, Zenon DEF OtInvariant, OtBurns
  <2>2. otBackend' = "file" => \A a \in 1 .. OtBlocks, c \in 1 .. OtCells :
                                  otDevice'[a].cells[c] # "wrong"
    <3> SUFFICES ASSUME otBackend = "file", NEW a \in 1 .. OtBlocks, NEW c \in 1 .. OtCells
                 PROVE  otDevice'[a].cells[c] # "wrong"
      BY Zenon
    <3>1. otDevice'[a].cells[c] = otDevice[a].cells[c] \/ otDevice'[a].cells[c] = state
      BY <1>5, <1>7, Zenon
    <3> QED
      BY <1>3, <3>1, Zenon DEF OtInvariant, OtBurns
  <2> QED
    BY <2>1, <2>2, Zenon DEF OtInvariant, OtBurns
<1>12. \A c \in k + 1 .. OtCells : otDevice'[b].cells[c] = "virgin"
  BY <1>1, <1>5, <1>7, <1>8, Zenon
<1> QED
  BY <1>7, <1>10, <1>11, <1>12, Zenon

\* The lock cell the driver takes is blank.
LEMMA OtLockBlank ==
  ASSUME OtInvariant, NEW b \in 1 .. OtBlocks, OtWhole(b), ~OtIsLocked(b),
         OtLockCell(b) <= OtLocks
  PROVE  OtLockCell(b) \in 1 .. OtLocks /\ otDevice[b].locks[OtLockCell(b)] = "virgin"
<1> DEFINE cell == OtLockCell(b)
           used == {d \in 1 .. OtLocks : OtLockUsed(otDevice[b].locks[d])}
           S == {otLockNext[b]} \union {c + 1 : c \in used}
<1>1. CASE otBackend # "flash"
  <2>1. cell = 1 /\ cell \in 1 .. OtLocks
    BY <1>1, OtSizes, Zenon DEF OtLockCell
  <2>2. otDevice[b].locks[1] # "done"
    BY <1>1, OtSizes, Zenon DEF OtIsLocked
  <2>3. otDevice[b].locks[1] \in {"virgin", "done"}
    BY <1>1, OtSizes, Zenon DEF OtInvariant, OtBurns
  <2> QED
    BY <2>1, <2>2, <2>3, Zenon
<1>2. CASE otBackend = "flash"
  <2>1. otLockNext[b] \in Nat \ {0}
    BY Zenon DEF OtInvariant, OtTypeOK
  <2>2. \A x \in S : x = otLockNext[b] \/ \E c \in used : x = c + 1
    BY Zenon
  <2>3. otLockNext[b] \in S /\ \A c \in used : c + 1 \in S
    BY Zenon
  <2>4. cell = Max(S)
    BY <1>2, Zenon DEF OtLockCell
  <2>5. used \subseteq 1 .. OtLocks
    BY Zenon
  <2>6. ASSUME NEW c \in 1 .. OtLocks, otDevice[b].locks[c] # "virgin"
        PROVE  c \in used
    BY <2>6, Zenon DEF OtLockUsed
  <2> HIDE DEF S, used, cell
  <2>7. \A x \in S : x \in Nat \ {0} /\ x <= otLockNext[b] + OtLocks + 1
    BY <2>1, <2>2, <2>5, OtSizes
  <2>8. otLockNext[b] + OtLocks + 1 \in Nat /\ S \in SUBSET Nat /\ S # {}
    BY <2>1, <2>3, <2>7, OtSizes
  <2>9. Max(S) \in S /\ \A y \in S : y <= Max(S)
    BY <2>7, <2>8, OtGreatest, Zenon
  <2>10. cell \in Nat \ {0} /\ \A y \in S : y <= cell
    BY <2>4, <2>7, <2>9, Zenon
  <2>11. cell \in 1 .. OtLocks
    BY <2>10, OtSizes DEF cell
  <2>12. cell \notin used
    BY <2>3, <2>10
  <2> QED
    BY <2>6, <2>11, <2>12, Zenon DEF cell
<1> QED
  BY <1>1, <1>2, Zenon

LEMMA OtLockEffect ==
  ASSUME OtInvariant, NEW b \in 1 .. OtBlocks, OtWhole(b), ~OtIsLocked(b),
         OtLockCell(b) <= OtLocks,
         NEW state \in IF otBackend = "flash" THEN OtTorn ELSE {"virgin", "done"},
         otDevice' = [otDevice EXCEPT ![b].locks[OtLockCell(b)] = state],
         otBackend' = otBackend
  PROVE  otDevice' \in [1 .. OtBlocks -> OtRows] /\ OtBurns' /\ OtBurnt
<1> DEFINE k == OtLockCell(b)
           r == otDevice[b]
           w == OtLockSet(r, k, state)
<1>1. k \in 1 .. OtLocks /\ r.locks[k] = "virgin"
  BY OtLockBlank, Zenon
<1>2. otDevice \in [1 .. OtBlocks -> OtRows] /\ r \in OtRows
  BY Zenon DEF OtInvariant, OtTypeOK
<1>3. state \in OtCellStates /\ (otBackend # "flash" => state \in {"virgin", "done"})
  BY Zenon DEF OtTorn, OtCellStates
<1> HIDE DEF k
<1>5. /\ w \in OtRows /\ w.cells = r.cells /\ w.value = r.value /\ w.locks[k] = state
      /\ \A d \in 1 .. OtLocks : d # k => w.locks[d] = r.locks[d]
  BY <1>1, <1>2, <1>3, OtLockedRow, Zenon
<1>6. otDevice' = [otDevice EXCEPT ![b] = w]
  BY <1>2, Zenon DEF k, OtLockSet
<1> HIDE DEF w
<1>7. /\ otDevice' \in [1 .. OtBlocks -> OtRows] /\ otDevice'[b] = w
      /\ \A a \in 1 .. OtBlocks : a # b => otDevice'[a] = otDevice[a]
  BY <1>2, <1>5, <1>6, Zenon
<1>8. ASSUME NEW a \in 1 .. OtBlocks
      PROVE  otDevice'[a].cells = otDevice[a].cells /\ otDevice'[a].value = otDevice[a].value
  BY <1>5, <1>7, Zenon
<1>10. OtBurnt
  <2>1. ASSUME NEW a \in 1 .. OtBlocks, NEW c \in 1 .. OtLocks, otDevice[a].locks[c] # "virgin"
        PROVE  otDevice'[a].locks[c] = otDevice[a].locks[c]
    BY <1>1, <1>5, <1>7, <2>1, Zenon
  <2> QED
    BY <1>8, <2>1, Zenon DEF OtBurnt
<1>11. OtBurns'
  <2>1. ASSUME otBackend # "flash", NEW a \in 1 .. OtBlocks, NEW c \in 1 .. OtLocks
        PROVE  otDevice'[a].locks[c] \in {"virgin", "done"}
    <3>1. otDevice'[a].locks[c] = otDevice[a].locks[c] \/ otDevice'[a].locks[c] = state
      BY <1>5, <1>7, Zenon
    <3> QED
      BY <1>3, <2>1, <3>1, Zenon DEF OtInvariant, OtBurns
  <2> QED
    BY <1>8, <2>1, Zenon DEF OtInvariant, OtBurns
<1> QED
  BY <1>7, <1>10, <1>11, Zenon

\* A whole record stays whole and a set lock set.
LEMMA OtWholeStays ==
  ASSUME OtBurnt, otBackend' = otBackend, NEW b \in 1 .. OtBlocks
  PROVE  /\ OtWhole(b) => OtWhole(b)' /\ otDevice'[b].value = otDevice[b].value
         /\ OtIsLocked(b) => OtIsLocked(b)'
<1>1. "done" # "virgin"
  BY Zenon
<1>2. OtWhole(b) => OtWhole(b)' /\ otDevice'[b].value = otDevice[b].value
  BY <1>1, Zenon DEF OtBurnt, OtWhole
<1>3. OtIsLocked(b) => OtIsLocked(b)'
  BY <1>1, <1>2, Zenon DEF OtBurnt, OtIsLocked
<1> QED
  BY <1>2, <1>3, Zenon

LEMMA OtRemembersStill ==
  ASSUME OtInvariant, OtBurnt, otBackend' = otBackend,
         otInitialized => otInitialized',
         UNCHANGED <<otSerial, otVerified, otReady, otLocked>>, otNext' >= otNext,
         otNext' \in Nat
  PROVE  OtRemembers'
<1>1. /\ otSerial.block \in 0 .. OtBlocks /\ otVerified.block \in 0 .. OtBlocks
      /\ otNext \in 1 .. OtBlocks + 1
  BY Zenon DEF OtInvariant, OtTypeOK
<1>2. \A n \in 0 .. OtBlocks : n > 0 => n \in 1 .. OtBlocks
  BY OtSizes
<1>3. otVerified.block < otNext => otVerified.block < otNext'
  BY <1>1, OtSizes
<1>4. otVerified'.block > 0 =>
        OtWhole(otVerified.block)' /\ otDevice'[otVerified'.block].value # OtUnknown
  <2> SUFFICES ASSUME otVerified.block > 0
               PROVE  OtWhole(otVerified.block)' /\ otDevice'[otVerified.block].value # OtUnknown
    BY Zenon
  <2> DEFINE b == otVerified.block
  <2>1. b \in 1 .. OtBlocks /\ OtWhole(b) /\ otDevice[b].value # OtUnknown
    BY <1>1, <1>2, Zenon DEF OtInvariant, OtRemembers
  <2>2. (\A c \in 1 .. OtCells : otDevice'[b].cells[c] = "done")
        /\ otDevice'[b].value = otDevice[b].value
    BY <2>1, OtWholeStays, Zenon DEF OtWhole
  <2> QED
    BY <2>1, <2>2, Zenon DEF OtWhole
<1>5. otReady' =>
       /\ otInitialized'
       /\ otSerial'.block = otVerified'.block /\ otVerified'.block < otNext'
       /\ otSerial'.block > 0 => otDevice'[otSerial'.block].value = otSerial'.value
  BY <1>1, <1>2, <1>3, OtWholeStays, Zenon DEF OtInvariant, OtRemembers
<1>6. otLocked' => otReady' /\ otSerial'.block > 0 /\ OtIsLocked(otSerial.block)'
  <2> SUFFICES ASSUME otLocked
               PROVE  otReady /\ otSerial.block > 0 /\ OtIsLocked(otSerial.block)'
    BY Zenon
  <2> DEFINE b == otSerial.block
  <2>1. b \in 1 .. OtBlocks /\ OtIsLocked(b) /\ otReady /\ otSerial.block > 0
    BY <1>1, <1>2, Zenon DEF OtInvariant, OtRemembers
  <2>2. /\ \E c \in 1 .. OtLocks : otDevice'[b].locks[c] = "done"
        /\ otBackend' = "flash" => \A c \in 1 .. OtCells : otDevice'[b].cells[c] = "done"
    BY <2>1, OtWholeStays, Zenon DEF OtIsLocked, OtWhole
  <2> QED
    BY <2>1, <2>2, Zenon DEF OtIsLocked, OtWhole
<1>7. otSerial'.block = 0 => otSerial' = OtNoSerial
  BY Zenon DEF OtInvariant, OtRemembers
<1> QED
  BY <1>4, <1>5, <1>6, <1>7, Zenon DEF OtRemembers, OtWhole, OtIsLocked

\* Nothing is burnt where the device is left alone.
LEMMA OtUntouched ==
  ASSUME otDevice' = otDevice, otBackend' = otBackend, OtInvariant
  PROVE  OtBurnt /\ OtBurns' /\ otDevice' \in [1 .. OtBlocks -> OtRows]
BY Zenon DEF OtBurnt, OtBurns, OtInvariant, OtTypeOK

\* The operation under way, by its parts.
OtOps == [stage : {"idle", "program", "verify", "lock", "check"},
          block : 0 .. OtBlocks, cell : 0 .. OtCells, value : OtSerials \union {OtNone}]

LEMMA OtOpTypes ==
  /\ OtIdle \in OtOps
  /\ \A s \in {"idle", "program", "verify", "lock", "check"}, b \in 0 .. OtBlocks,
        c \in 0 .. OtCells, v \in OtSerials :
       LET op == [stage |-> s, block |-> b, cell |-> c, value |-> v]
       IN op \in OtOps /\ op.stage = s /\ op.block = b /\ op.cell = c /\ op.value = v
  /\ \A op \in OtOps, s \in {"idle", "program", "verify", "lock", "check"} :
       LET next == [op EXCEPT !.stage = s]
       IN /\ next \in OtOps /\ next.stage = s /\ next.block = op.block
          /\ next.cell = op.cell /\ next.value = op.value
  /\ \A op \in OtOps, c \in 0 .. OtCells :
       LET next == [op EXCEPT !.cell = c]
       IN /\ next \in OtOps /\ next.stage = op.stage /\ next.block = op.block
          /\ next.cell = c /\ next.value = op.value
<1>1. OtIdle \in OtOps
  BY OtSizes DEF OtIdle, OtOps
<1>2. \A s \in {"idle", "program", "verify", "lock", "check"}, b \in 0 .. OtBlocks,
        c \in 0 .. OtCells, v \in OtSerials :
       LET op == [stage |-> s, block |-> b, cell |-> c, value |-> v]
       IN op \in OtOps /\ op.stage = s /\ op.block = b /\ op.cell = c /\ op.value = v
  BY DEF OtOps
<1>3. \A op \in OtOps, s \in {"idle", "program", "verify", "lock", "check"} :
       LET next == [op EXCEPT !.stage = s]
       IN /\ next \in OtOps /\ next.stage = s /\ next.block = op.block
          /\ next.cell = op.cell /\ next.value = op.value
  BY Zenon DEF OtOps
<1>4. \A op \in OtOps, c \in 0 .. OtCells :
       LET next == [op EXCEPT !.cell = c]
       IN /\ next \in OtOps /\ next.stage = op.stage /\ next.block = op.block
          /\ next.cell = c /\ next.value = op.value
  BY Zenon DEF OtOps
<1> QED
  BY <1>1, <1>2, <1>3, <1>4, Zenon

LEMMA OtInitially == OtInit => OtInvariant
<1> SUFFICES ASSUME OtInit PROVE OtInvariant
  BY Zenon
<1>1. /\ 0 \in 0 .. OtBlocks /\ 1 \in 1 .. OtBlocks + 1 /\ 1 \in Nat \ {0}
  BY OtSizes
<1>2. /\ OtVirgin \in OtRows /\ OtForeign \in OtRows
      /\ \A c \in 1 .. OtLocks : OtVirgin.locks[c] \in {"virgin", "done"}
                                 /\ OtForeign.locks[c] \in {"virgin", "done"}
      /\ \A c \in 1 .. OtCells : OtVirgin.cells[c] # "wrong" /\ OtForeign.cells[c] # "wrong"
  BY Zenon DEF OtVirgin, OtForeign, OtRows, OtCellStates, OtValues
<1>3. /\ otDevice \in [1 .. OtBlocks -> OtRows]
      /\ \A b \in 1 .. OtBlocks : otDevice[b] = OtVirgin \/ otDevice[b] = OtForeign
  BY <1>2, Zenon DEF OtInit
<1>4. OtNoSerial \in [value : OtValues, block : 0 .. OtBlocks] /\ OtNoSerial.block = 0
  BY <1>1, Zenon DEF OtNoSerial, OtValues
<1>5. otKinds \in [1 .. OtBlocks -> {"unused", "valid", "invalid", "unknown", "unreadable"}]
  BY Zenon DEF OtInit, OtCold
<1>6. otLockNext \in [1 .. OtBlocks -> Nat \ {0}]
  BY <1>1, Zenon DEF OtInit, OtCold
<1>7. OtTypeOK
  BY <1>1, <1>3, <1>4, <1>5, <1>6, OtOpTypes, Zenon DEF OtInit, OtTypeOK, OtOps
<1>8. OtBurns
  BY <1>2, <1>3, Zenon DEF OtInit, OtBurns
<1>9. OtRemembers
  <2>1. ~(0 > 0)
    OBVIOUS
  <2> QED
    BY <1>4, <2>1, Zenon DEF OtInit, OtRemembers
<1> QED
  BY <1>7, <1>8, <1>9, Zenon DEF OtInvariant, OtInit, OtStage

LEMMA OtSetKeeps ==
  ASSUME OtInvariant, NEW v \in OtSerials, OtSet(v)
  PROVE  OtInvariant' /\ OtBurnt
<1>1. /\ otDevice' = otDevice /\ otBackend' = otBackend /\ otReady /\ otOp = OtIdle
      /\ UNCHANGED <<otInitialized, otReady, otNext, otKinds, otSerial, otLocked, otAttempted,
                     otLockNext, otTimedOut, otVerified>>
  BY Zenon DEF OtSet, otRam
<1>2. OtBurnt /\ OtBurns'
  BY <1>1, OtUntouched, Zenon
<1>3. otNext \in Nat /\ otNext >= otNext /\ otNext \in 1 .. OtBlocks + 1
  BY OtSizes DEF OtInvariant, OtTypeOK
<1>4. OtRemembers'
  BY <1>1, <1>2, <1>3, OtRemembersStill, Zenon
<1>5. otOp' \in OtOps /\ OtStage'
  <2>1. CASE otOp' = OtIdle
    BY <2>1, OtOpTypes, Zenon DEF OtStage
  <2>2. CASE /\ otSerial.value = v
             /\ otOp' = [stage |-> "lock", block |-> otSerial.block, cell |-> 0, value |-> v]
    <3>1. otSerial.block \in 0 .. OtBlocks /\ 0 \in 0 .. OtCells
      BY OtSizes DEF OtInvariant, OtTypeOK
    <3>2. otSerial # OtNoSerial
      BY <2>2, OtAssumption DEF OtNoSerial
    <3>3. otSerial.block # 0
      BY <3>2, Zenon DEF OtInvariant, OtRemembers
    <3>4. otSerial.block \in 1 .. OtBlocks
      BY <3>1, <3>3, OtSizes
    <3>5. /\ otOp' \in OtOps /\ otOp'.stage = "lock" /\ otOp'.block = otSerial.block
          /\ otOp'.value = v
      BY <2>2, <3>1, OtOpTypes, Zenon
    <3> QED
      BY <1>1, <3>4, <3>5, Zenon DEF OtStage
  <2>3. CASE /\ otNext # OtBlocks + 1
             /\ otOp' = [stage |-> "program", block |-> otNext, cell |-> 1, value |-> v]
    <3>1. otNext \in 0 .. OtBlocks /\ 1 \in 0 .. OtCells /\ otNext \in 1 .. OtBlocks /\ ~(1 > 1)
      BY <1>3, <2>3, OtSizes
    <3>2. /\ otOp' \in OtOps /\ otOp'.stage = "program" /\ otOp'.block = otNext
          /\ otOp'.value = v /\ otOp'.cell = 1
      BY <2>3, <3>1, OtOpTypes, Zenon
    <3> QED
      BY <1>1, <3>1, <3>2, OtSizes, Zenon DEF OtStage
  <2> QED
    BY <2>1, <2>2, <2>3, Zenon DEF OtSet
<1>6. OtTypeOK'
  BY <1>1, <1>5, Zenon DEF OtInvariant, OtTypeOK, OtOps
<1> QED
  BY <1>2, <1>4, <1>5, <1>6, Zenon DEF OtInvariant

LEMMA OtRefusedKeeps ==
  ASSUME OtInvariant, OtRefused
  PROVE  OtInvariant' /\ OtBurnt
<1>1. /\ otDevice' = otDevice /\ otBackend' = otBackend /\ otOp' = OtIdle
      /\ UNCHANGED <<otInitialized, otReady, otNext, otKinds, otSerial, otLocked, otAttempted,
                     otLockNext, otTimedOut, otVerified>>
  BY Zenon DEF OtRefused, OtProgramFails
<1>2. OtBurnt /\ OtBurns'
  BY <1>1, OtUntouched, Zenon
<1>3. otNext \in Nat /\ otNext >= otNext
  BY OtSizes DEF OtInvariant, OtTypeOK
<1>4. OtRemembers'
  BY <1>1, <1>2, <1>3, OtRemembersStill, Zenon
<1>5. OtTypeOK'
  BY <1>1, OtOpTypes, Zenon DEF OtInvariant, OtTypeOK, OtOps
<1> QED
  BY <1>1, <1>2, <1>4, <1>5, Zenon DEF OtInvariant, OtStage

LEMMA OtProgramKeeps ==
  ASSUME OtInvariant, OtProgram
  PROVE  OtInvariant' /\ OtBurnt
<1> DEFINE b == otOp.block
<1>1. /\ otOp.stage = "program"
      /\ otOp.cell = 1 => OtStorage(otOp.block) = "unused"
      /\ otBackend' = otBackend /\ otAttempted' = otAttempted \union {b}
      /\ UNCHANGED <<otInitialized, otReady, otSerial, otLocked, otLockNext, otVerified>>
  BY Zenon DEF OtProgram
<1>2. /\ b \in 1 .. OtBlocks /\ otOp.cell \in 1 .. OtCells
      /\ otOp.value \in OtSerials /\ otReady /\ b = otNext
  BY <1>1, OtBlank, Zenon
<1>3. PICK state \in OtTorn : OtWritten(state)
  <2>1. "done" \in OtTorn
    BY Zenon DEF OtTorn, OtCellStates
  <2> QED
    BY <2>1, Zenon DEF OtProgram
<1>4. /\ otDevice' \in [1 .. OtBlocks -> OtRows] /\ OtBurns' /\ OtBurnt
      /\ \A c \in otOp.cell + 1 .. OtCells : otDevice'[b].cells[c] = "virgin"
  BY <1>1, <1>3, OtWriteEffect, Zenon
<1>5. otAttempted' \subseteq 1 .. OtBlocks
  BY <1>1, <1>2, Zenon DEF OtInvariant, OtTypeOK
<1>6. /\ otNext + 1 \in 1 .. OtBlocks + 1 /\ otNext \in 1 .. OtBlocks + 1
      /\ otNext + 1 >= otNext /\ otNext >= otNext /\ otNext \in Nat /\ otNext + 1 \in Nat
  BY <1>2, OtSizes
<1>7. [otKinds EXCEPT ![b] = "invalid"]
        \in [1 .. OtBlocks -> {"unused", "valid", "invalid", "unknown", "unreadable"}]
  BY Zenon DEF OtInvariant, OtTypeOK
<1>8. otTimedOut' \in BOOLEAN
  BY Zenon DEF OtProgram, OtInvariant, OtTypeOK
<1>9. otOp \in OtOps
  BY Zenon DEF OtInvariant, OtTypeOK, OtOps
<1>10. CASE /\ otOp.cell < OtCells /\ otOp' = [otOp EXCEPT !.cell = otOp.cell + 1]
            /\ UNCHANGED <<otNext, otKinds>>
  <2>1. otOp.cell + 1 \in 1 .. OtCells /\ otOp.cell + 1 \in 0 .. OtCells
    BY <1>2, <1>10, OtSizes
  <2>2. /\ otOp' \in OtOps /\ otOp'.stage = "program" /\ otOp'.block = b
        /\ otOp'.cell = otOp.cell + 1 /\ otOp'.value = otOp.value
    BY <1>1, <1>9, <1>10, <2>1, Zenon DEF OtOps
  <2>3. OtStage'
    BY <1>1, <1>2, <1>4, <1>10, <2>1, <2>2, Zenon DEF OtStage
  <2>4. OtRemembers'
    BY <1>1, <1>4, <1>6, <1>10, OtRemembersStill, Zenon
  <2>5. OtTypeOK'
    BY <1>1, <1>4, <1>5, <1>8, <1>10, <2>2, Zenon DEF OtInvariant, OtTypeOK, OtOps
  <2> QED
    BY <1>4, <2>3, <2>4, <2>5, Zenon DEF OtInvariant
<1>11. CASE /\ otOp' = [otOp EXCEPT !.stage = "verify"] /\ otNext' = otNext + 1
            /\ otKinds' = [otKinds EXCEPT ![b] = "invalid"]
  <2>2. /\ otOp' \in OtOps /\ otOp'.stage = "verify" /\ otOp'.block = b
        /\ otOp'.value = otOp.value
    BY <1>9, <1>11, OtOpTypes, Zenon
  <2>6. otVerified.block < b
    BY <1>2, Zenon DEF OtInvariant, OtRemembers
  <2>7. b < otNext + 1
    BY <1>2, OtSizes
  <2>3. OtStage'
    BY <1>1, <1>2, <1>11, <2>2, <2>6, <2>7, Zenon DEF OtStage
  <2>4. OtRemembers'
    BY <1>1, <1>4, <1>6, <1>11, OtRemembersStill, Zenon
  <2>5. OtTypeOK'
    BY <1>1, <1>4, <1>5, <1>6, <1>7, <1>8, <1>11, <2>2, Zenon
       DEF OtInvariant, OtTypeOK, OtOps
  <2> QED
    BY <1>4, <2>3, <2>4, <2>5, Zenon DEF OtInvariant
<1>12. CASE OtProgramFails(TRUE)
  <2>1. /\ otOp' = OtIdle /\ otNext' = otNext + 1
        /\ otKinds' = [otKinds EXCEPT ![b] = "invalid"]
    BY <1>12, Zenon DEF OtProgramFails
  <2>4. OtRemembers'
    BY <1>1, <1>4, <1>6, <2>1, OtRemembersStill, Zenon
  <2>5. OtTypeOK'
    BY <1>1, <1>4, <1>5, <1>6, <1>7, <1>8, <2>1, OtOpTypes, Zenon
       DEF OtInvariant, OtTypeOK, OtOps
  <2> QED
    BY <1>4, <2>1, <2>4, <2>5, Zenon DEF OtInvariant, OtStage
<1> QED
  BY <1>10, <1>11, <1>12, Zenon DEF OtProgram

\* A record that is whole is consumed, not blank, to every driver: the scan and
\* the read-back classify it by its value alone.
LEMMA OtClassified ==
  ASSUME OtTypeOK, otBackend \in {"h5", "flash", "file"}, NEW b \in 1 .. OtBlocks
  PROVE  /\ OtWhole(b) /\ otDevice[b].value # OtUnknown => OtClassify(b) = "valid"
         /\ OtClassify(b) = "valid" => OtWhole(b) /\ otDevice[b].value # OtUnknown
         /\ OtClassify(b) \in {"unused", "valid", "invalid", "unknown", "unreadable"}
<1>1. ASSUME OtWhole(b)
      PROVE  OtStorage(b) = "consumed"
  <2>1. OtHas(b, "done") /\ ~OtHas(b, "unreadable")
    <3>1. "done" # "unreadable"
      BY Zenon
    <3> QED
      BY <1>1, <3>1, OtSizes, Zenon DEF OtWhole, OtHas
  <2>2. otDevice[b] # OtVirgin
    <3>1. otDevice[b].cells[1] = "done"
      BY <1>1, OtSizes, Zenon DEF OtWhole
    <3>2. OtVirgin.cells[1] = "virgin"
      BY OtSizes, Zenon DEF OtVirgin
    <3> QED
      BY <3>1, <3>2, Zenon
  <2>3. OtStorageH5(b) = "consumed"
    BY <2>1, Zenon DEF OtStorageH5
  <2>4. OtStorageFlash(b) = "consumed"
    BY <2>1, <2>2, Zenon DEF OtStorageFlash
  <2>5. OtStorageFile(b) = "consumed"
    BY <2>1, Zenon DEF OtStorageFile
  <2> QED
    BY <2>3, <2>4, <2>5, Zenon DEF OtStorage
<1>2. OtWhole(b) /\ otDevice[b].value # OtUnknown => OtClassify(b) = "valid"
  BY <1>1, Zenon DEF OtClassify
<1>3. OtClassify(b) = "valid" => OtWhole(b) /\ otDevice[b].value # OtUnknown
  BY Zenon DEF OtClassify
<1>4. OtClassify(b) \in {"unused", "valid", "invalid", "unknown", "unreadable"}
  BY Zenon DEF OtClassify
<1> QED
  BY <1>2, <1>3, <1>4, Zenon

LEMMA OtVerifyKeeps ==
  ASSUME OtInvariant, OtVerify
  PROVE  OtInvariant' /\ OtBurnt /\ otVerified'.block >= otVerified.block
<1> DEFINE b == otOp.block
<1>1. /\ otDevice' = otDevice /\ otBackend' = otBackend /\ otOp.stage = "verify"
      /\ UNCHANGED <<otInitialized, otReady, otNext, otAttempted, otLockNext, otTimedOut>>
  BY Zenon DEF OtVerify
<1>2. OtBurnt /\ OtBurns' /\ otDevice' \in [1 .. OtBlocks -> OtRows]
  BY <1>1, OtUntouched, Zenon
<1>3. otOp # OtIdle
  BY <1>1 DEF OtIdle
<1>4. /\ b \in 1 .. OtBlocks /\ otReady /\ otOp.value \in OtSerials
      /\ otVerified.block < b /\ b < otNext /\ otInitialized
  BY <1>1, <1>3, Zenon DEF OtInvariant, OtStage, OtRemembers
<1>5. otOp \in OtOps /\ otVerified.block \in 0 .. OtBlocks
  BY Zenon DEF OtInvariant, OtTypeOK, OtOps
<1>6. CASE /\ OtClassify(b) = "valid"
           /\ otKinds' = [otKinds EXCEPT ![b] = "valid"]
           /\ otSerial' = [value |-> otDevice[b].value, block |-> b]
           /\ otLocked' = OtIsLocked(b) /\ otVerified' = otSerial'
           /\ otOp' = [otOp EXCEPT !.stage = "lock"]
  <2>1. OtWhole(b) /\ otDevice[b].value # OtUnknown
    BY <1>4, <1>6, OtClassified, Zenon DEF OtInvariant, OtBurns
  <2>2. otDevice[b] \in OtRows /\ b \in 0 .. OtBlocks
    BY <1>4, Zenon DEF OtInvariant, OtTypeOK
  <2>3. otDevice[b].value \in OtValues
    BY <2>2, Zenon DEF OtRows
  <2>4. /\ otSerial' \in [value : OtValues, block : 0 .. OtBlocks]
        /\ otSerial'.block = b /\ otSerial'.value = otDevice[b].value
    BY <1>6, <2>2, <2>3, Zenon
  <2>5. otKinds' \in [1 .. OtBlocks -> {"unused", "valid", "invalid", "unknown", "unreadable"}]
    BY <1>6, Zenon DEF OtInvariant, OtTypeOK
  <2>6. otLocked' \in BOOLEAN
    BY <1>6, Zenon DEF OtIsLocked
  <2>7. /\ otOp' \in OtOps /\ otOp'.stage = "lock" /\ otOp'.block = b
        /\ otOp'.value = otOp.value
    BY <1>5, <1>6, OtOpTypes, Zenon
  <2>8. OtTypeOK'
    BY <1>1, <1>2, <1>6, <2>4, <2>5, <2>6, <2>7, Zenon DEF OtInvariant, OtTypeOK, OtOps
  <2>9. OtStage'
    BY <1>1, <1>4, <2>4, <2>7, Zenon DEF OtStage
  <2>10. OtWhole(otVerified.block)' /\ (otLocked' => OtIsLocked(otSerial.block)')
    BY <1>1, <1>6, <2>1, <2>4, Zenon DEF OtWhole, OtIsLocked
  <2>11. b > 0 /\ b # 0 /\ b >= otVerified.block
    BY <1>4, <1>5, OtSizes
  <2>12. OtRemembers'
    BY <1>1, <1>4, <1>6, <2>1, <2>4, <2>10, <2>11, Zenon DEF OtRemembers
  <2> QED
    BY <1>2, <1>6, <2>4, <2>8, <2>9, <2>11, <2>12, Zenon DEF OtInvariant
<1>7. CASE /\ \E kind \in {"unreadable", otKinds[b]} : otKinds' = [otKinds EXCEPT ![b] = kind]
           /\ otOp' = OtIdle /\ UNCHANGED <<otSerial, otLocked, otVerified>>
  <2>1. otKinds' \in [1 .. OtBlocks -> {"unused", "valid", "invalid", "unknown", "unreadable"}]
    BY <1>4, <1>7, Zenon DEF OtInvariant, OtTypeOK
  <2>2. OtTypeOK'
    BY <1>1, <1>2, <1>7, <2>1, OtOpTypes, Zenon DEF OtInvariant, OtTypeOK, OtOps
  <2>3. otNext \in Nat /\ otNext >= otNext /\ otVerified.block >= otVerified.block
    BY <1>5, OtSizes DEF OtInvariant, OtTypeOK
  <2>4. OtRemembers'
    BY <1>1, <1>2, <1>7, <2>3, OtRemembersStill, Zenon
  <2> QED
    BY <1>2, <1>7, <2>2, <2>3, <2>4, Zenon DEF OtInvariant, OtStage
<1> QED
  BY <1>6, <1>7, Zenon DEF OtVerify

LEMMA OtLockKeeps ==
  ASSUME OtInvariant, OtLock
  PROVE  OtInvariant' /\ OtBurnt
<1> DEFINE b == otOp.block
           cell == OtLockCell(b)
<1>1. /\ otOp.stage = "lock" /\ otBackend' = otBackend
      /\ otOp' = [otOp EXCEPT !.stage = "check"]
      /\ UNCHANGED <<otInitialized, otReady, otNext, otKinds, otSerial, otLocked, otAttempted,
                     otVerified>>
  BY Zenon DEF OtLock
<1>2. otOp # OtIdle
  BY <1>1 DEF OtIdle
<1>3. /\ b \in 1 .. OtBlocks /\ otReady /\ otOp.value \in OtSerials /\ b = otSerial.block
  BY <1>1, <1>2, Zenon DEF OtInvariant, OtStage
<1>4. /\ otDevice' \in [1 .. OtBlocks -> OtRows] /\ OtBurns' /\ OtBurnt
      /\ otLockNext' \in [1 .. OtBlocks -> Nat \ {0}] /\ otTimedOut' \in BOOLEAN
  <2>1. CASE UNCHANGED <<otDevice, otLockNext, otTimedOut>>
    BY <1>1, <2>1, OtUntouched, Zenon DEF OtInvariant, OtTypeOK
  <2>2. CASE /\ ~OtIsLocked(b) /\ cell <= OtLocks /\ OtWhole(b)
             /\ \E state \in IF otBackend = "flash" THEN OtTorn ELSE {"virgin", "done"} :
                  /\ otDevice' = [otDevice EXCEPT ![b].locks[cell] = state]
                  /\ otTimedOut' \in {otTimedOut, state # "done" /\ otBackend # "file"}
             /\ otLockNext' = [otLockNext EXCEPT ![b] = cell + 1]
    <3>1. cell \in 1 .. OtLocks
      BY <1>3, <2>2, OtLockBlank, Zenon
    <3>2. cell + 1 \in Nat \ {0}
      BY <3>1, OtSizes
    <3>3. otLockNext' \in [1 .. OtBlocks -> Nat \ {0}]
      BY <2>2, <3>2, Zenon DEF OtInvariant, OtTypeOK
    <3>4. otTimedOut' \in BOOLEAN
      BY <2>2, Zenon DEF OtInvariant, OtTypeOK
    <3>5. otDevice' \in [1 .. OtBlocks -> OtRows] /\ OtBurns' /\ OtBurnt
      BY <1>1, <1>3, <2>2, OtLockEffect, Zenon
    <3> QED
      BY <3>3, <3>4, <3>5, Zenon
  <2> QED
    BY <2>1, <2>2, Zenon DEF OtLock
<1>5. otOp \in OtOps
  BY Zenon DEF OtInvariant, OtTypeOK, OtOps
<1>6. /\ otOp' \in OtOps /\ otOp'.stage = "check" /\ otOp'.block = b /\ otOp'.value = otOp.value
  BY <1>1, <1>5, OtOpTypes, Zenon
<1>7. OtStage'
  BY <1>1, <1>3, <1>6, Zenon DEF OtStage
<1>8. OtTypeOK'
  BY <1>1, <1>4, <1>6, Zenon DEF OtInvariant, OtTypeOK, OtOps
<1>9. otNext \in Nat /\ otNext >= otNext
  BY OtSizes DEF OtInvariant, OtTypeOK
<1>10. OtRemembers'
  BY <1>1, <1>4, <1>9, OtRemembersStill, Zenon
<1> QED
  BY <1>4, <1>7, <1>8, <1>10, Zenon DEF OtInvariant

LEMMA OtCheckLockKeeps ==
  ASSUME OtInvariant, OtCheckLock
  PROVE  OtInvariant' /\ OtBurnt
<1> DEFINE b == otOp.block
<1>1. /\ otDevice' = otDevice /\ otBackend' = otBackend /\ otOp.stage = "check"
      /\ otOp' = OtIdle /\ otLocked' \in BOOLEAN /\ (otLocked' => OtIsLocked(b))
      /\ UNCHANGED <<otInitialized, otReady, otNext, otKinds, otSerial, otAttempted, otLockNext,
                     otTimedOut, otVerified>>
  BY Zenon DEF OtCheckLock
<1>2. OtBurnt /\ OtBurns'
  BY <1>1, OtUntouched, Zenon
<1>3. otOp # OtIdle
  BY <1>1 DEF OtIdle
<1>4. b \in 1 .. OtBlocks /\ otReady /\ b = otSerial.block
  BY <1>1, <1>3, Zenon DEF OtInvariant, OtStage
<1>5. b > 0
  BY <1>4, OtSizes
<1>6. otLocked' => OtIsLocked(otSerial.block)'
  BY <1>1, <1>4, Zenon DEF OtIsLocked, OtWhole
<1>7. OtWhole(otVerified.block)' <=> OtWhole(otVerified.block)
  BY <1>1, Zenon DEF OtWhole
<1>8. OtRemembers'
  BY <1>1, <1>4, <1>5, <1>6, <1>7, Zenon DEF OtInvariant, OtRemembers
<1>9. OtTypeOK'
  BY <1>1, OtOpTypes, Zenon DEF OtInvariant, OtTypeOK, OtOps
<1> QED
  BY <1>1, <1>2, <1>8, <1>9, Zenon DEF OtInvariant, OtStage

\* RAM as a power cut leaves it.
LEMMA OtColdTypes ==
  /\ 1 \in 1 .. OtBlocks + 1 /\ OtNoSerial \in [value : OtValues, block : 0 .. OtBlocks]
  /\ OtNoSerial.block = 0
  /\ OtCold.kinds \in [1 .. OtBlocks -> {"unused", "valid", "invalid", "unknown", "unreadable"}]
  /\ OtCold.lockNext \in [1 .. OtBlocks -> Nat \ {0}]
<1>1. 1 \in 1 .. OtBlocks + 1 /\ 0 \in 0 .. OtBlocks /\ 1 \in Nat \ {0}
  BY OtSizes
<1>2. OtNoSerial \in [value : OtValues, block : 0 .. OtBlocks] /\ OtNoSerial.block = 0
  BY <1>1, Zenon DEF OtNoSerial, OtValues
<1>3. OtCold.kinds \in [1 .. OtBlocks -> {"unused", "valid", "invalid", "unknown", "unreadable"}]
  BY Zenon DEF OtCold
<1>4. OtCold.lockNext \in [1 .. OtBlocks -> Nat \ {0}]
  BY <1>1, Zenon DEF OtCold
<1> QED
  BY <1>1, <1>2, <1>3, <1>4, Zenon

LEMMA OtPowerCutKeeps ==
  ASSUME OtInvariant, OtPowerCut
  PROVE  OtInvariant' /\ OtBurnt
<1> DEFINE b == otOp.block
<1>1. /\ otInitialized' = FALSE /\ otReady' = FALSE /\ otNext' = 1
      /\ otKinds' = OtCold.kinds /\ otSerial' = OtNoSerial /\ otLocked' = FALSE
      /\ otAttempted' = {} /\ otLockNext' = OtCold.lockNext /\ otTimedOut' = FALSE
      /\ otOp' = OtIdle /\ otBackend' = otBackend /\ otVerified' = otVerified
  BY Zenon DEF OtPowerCut
<1>2. otDevice' \in [1 .. OtBlocks -> OtRows] /\ OtBurns' /\ OtBurnt
  <2>1. CASE UNCHANGED otDevice
    BY <1>1, <2>1, OtUntouched, Zenon
  <2>2. CASE /\ otOp.stage = "program"
             /\ otOp.cell = 1 => OtStorage(otOp.block) = "unused"
             /\ \E state \in OtTorn : OtWritten(state)
    BY <1>1, <2>2, OtWriteEffect, Zenon
  <2>3. CASE /\ otOp.stage = "lock" /\ OtWhole(b) /\ ~OtIsLocked(b) /\ OtLockCell(b) <= OtLocks
             /\ \E state \in IF otBackend = "flash" THEN OtTorn ELSE {"virgin", "done"} :
                  otDevice' = [otDevice EXCEPT ![b].locks[OtLockCell(b)] = state]
    <3>1. otOp # OtIdle
      BY <2>3 DEF OtIdle
    <3>2. b \in 1 .. OtBlocks
      BY <3>1, Zenon DEF OtInvariant, OtStage
    <3> QED
      BY <1>1, <2>3, <3>2, OtLockEffect, Zenon
  <2> QED
    BY <2>1, <2>2, <2>3, Zenon DEF OtPowerCut
<1>3. OtTypeOK'
  BY <1>1, <1>2, OtColdTypes, OtOpTypes, Zenon DEF OtInvariant, OtTypeOK, OtOps
<1>4. otVerified.block \in 0 .. OtBlocks /\ (otVerified.block > 0 => otVerified.block \in 1 .. OtBlocks)
  BY OtSizes DEF OtInvariant, OtTypeOK
<1>5. otVerified.block > 0 =>
        OtWhole(otVerified.block)' /\ otDevice'[otVerified.block].value # OtUnknown
  <2> SUFFICES ASSUME otVerified.block > 0
               PROVE  OtWhole(otVerified.block)' /\ otDevice'[otVerified.block].value # OtUnknown
    BY Zenon
  <2> DEFINE a == otVerified.block
  <2>1. a \in 1 .. OtBlocks /\ OtWhole(a) /\ otDevice[a].value # OtUnknown
    BY <1>4, Zenon DEF OtInvariant, OtRemembers
  <2>2. (\A c \in 1 .. OtCells : otDevice'[a].cells[c] = "done")
        /\ otDevice'[a].value = otDevice[a].value
    BY <1>1, <1>2, <2>1, OtWholeStays, Zenon DEF OtWhole
  <2> QED
    BY <1>1, <2>1, <2>2, Zenon DEF OtWhole
<1>6. OtRemembers'
  BY <1>1, <1>5, Zenon DEF OtRemembers
<1> QED
  BY <1>1, <1>2, <1>3, <1>6, Zenon DEF OtInvariant, OtStage

LEMMA OtScanKeeps ==
  ASSUME OtInvariant, OtScan
  PROVE  OtInvariant' /\ OtBurnt /\ otVerified'.block >= otVerified.block
<1> DEFINE kinds == [b \in 1 .. OtBlocks |-> OtClassify(b)]
           used == {b \in 1 .. OtBlocks : kinds[b] # "unused"}
           valid == {b \in 1 .. OtBlocks : kinds[b] = "valid"}
<1>1. /\ otDevice' = otDevice /\ otBackend' = otBackend /\ otInitialized' = TRUE
      /\ UNCHANGED <<otAttempted, otLockNext, otTimedOut, otOp>>
  BY Zenon DEF OtScan
<1>2. OtBurnt /\ OtBurns' /\ otDevice' \in [1 .. OtBlocks -> OtRows]
  BY <1>1, OtUntouched, Zenon
<1>3. /\ otVerified.block \in 0 .. OtBlocks /\ otNext \in Nat /\ otNext >= otNext
      /\ otVerified.block >= otVerified.block
  BY OtSizes DEF OtInvariant, OtTypeOK
<1>4. CASE UNCHANGED <<otReady, otNext, otKinds, otSerial, otLocked, otVerified>>
  <2>1. OtTypeOK'
    BY <1>1, <1>2, <1>4, Zenon DEF OtInvariant, OtTypeOK
  <2>2. OtStage'
    BY <1>1, <1>4, Zenon DEF OtInvariant, OtStage
  <2>3. OtRemembers'
    BY <1>1, <1>2, <1>3, <1>4, OtRemembersStill, Zenon
  <2> QED
    BY <1>2, <1>3, <1>4, <2>1, <2>2, <2>3, Zenon DEF OtInvariant
<1>5. CASE /\ otReady' = TRUE /\ otKinds' = kinds
           /\ otNext' = IF used = {} THEN 1 ELSE Max(used) + 1
           /\ otSerial' = IF valid = {} THEN OtNoSerial
                          ELSE [value |-> otDevice[OtFound(valid)].value, block |-> OtFound(valid)]
           /\ otLocked' = (valid # {} /\ OtIsLocked(otSerial'.block))
           /\ otVerified' = IF valid = {} THEN otVerified
                            ELSE [value |-> otDevice[Max(valid)].value, block |-> Max(valid)]
           /\ otOp = OtIdle
  <2>1. \A b \in 1 .. OtBlocks :
          /\ kinds[b] \in {"unused", "valid", "invalid", "unknown", "unreadable"}
          /\ OtWhole(b) /\ otDevice[b].value # OtUnknown <=> kinds[b] = "valid"
    BY OtClassified, Zenon DEF OtInvariant, OtBurns
  <2>2. kinds \in [1 .. OtBlocks -> {"unused", "valid", "invalid", "unknown", "unreadable"}]
    BY <2>1, Zenon
  <2>3. /\ \A b \in 1 .. OtBlocks :
             b \in valid <=> OtWhole(b) /\ otDevice[b].value # OtUnknown
        /\ valid \subseteq used /\ used \subseteq 1 .. OtBlocks
    <3>1. "valid" # "unused"
      BY Zenon
    <3> QED
      BY <2>1, <3>1, Zenon
  <2>4. otVerified.block > 0 => otVerified.block \in valid
    <3>1. otVerified.block > 0 => otVerified.block \in 1 .. OtBlocks
      BY <1>3, OtSizes
    <3> QED
      BY <2>3, <3>1, Zenon DEF OtInvariant, OtRemembers
  <2> HIDE DEF kinds, used, valid
  <2>5. ASSUME NEW S \in SUBSET (1 .. OtBlocks), S # {}
        PROVE  Max(S) \in S /\ \A y \in S : y <= Max(S)
    <3>1. S \in SUBSET Nat /\ \A x \in S : x <= OtBlocks
      BY OtSizes
    <3> QED
      BY <2>5, <3>1, OtGreatest, OtSizes, Zenon
  <2>6. /\ otNext' \in 1 .. OtBlocks + 1 /\ \A b \in used : b < otNext'
    <3>1. CASE used = {}
      BY <1>5, <3>1, OtSizes
    <3>2. CASE used # {}
      <4>1. Max(used) \in 1 .. OtBlocks /\ \A y \in used : y <= Max(used) /\ y \in 1 .. OtBlocks
        BY <2>3, <2>5, <3>2, Zenon
      <4> HIDE DEF Max
      <4> QED
        BY <1>5, <3>2, <4>1, OtSizes
    <3> QED
      BY <3>1, <3>2, Zenon
  <2>7. CASE valid = {}
    <3>5. ~(otVerified.block > 0)
      BY <2>4, <2>7, Zenon
    <3>6. otVerified.block = 0
      BY <1>3, <3>5, OtSizes
    <3>1. otVerified.block = 0 /\ otVerified' = otVerified /\ otSerial' = OtNoSerial
          /\ otLocked' = FALSE
      BY <1>5, <2>7, <3>6, Zenon
    <3>2. OtTypeOK'
      BY <1>1, <1>2, <1>5, <2>2, <2>6, <3>1, OtColdTypes, Zenon
         DEF OtInvariant, OtTypeOK
    <3>3. 0 < otNext' /\ ~(0 > 0)
      BY <2>6, OtSizes
    <3>4. OtRemembers'
      BY <1>1, <1>5, <3>1, <3>3, OtColdTypes, Zenon DEF OtRemembers
    <3> QED
      BY <1>1, <1>2, <1>3, <1>5, <3>1, <3>2, <3>4, Zenon DEF OtInvariant, OtStage
  <2>8. CASE valid # {}
    <3> DEFINE m == Max(valid)
    <3>1. /\ m \in valid /\ \A y \in valid : y <= m
      BY <2>3, <2>5, <2>8, Zenon
    <3> HIDE DEF m
    <3>2. /\ m \in 1 .. OtBlocks /\ OtWhole(m) /\ otDevice[m].value # OtUnknown /\ m < otNext'
      BY <2>3, <2>6, <3>1, Zenon
    <3>3. otSerial' = [value |-> otDevice[m].value, block |-> m] /\ otVerified' = otSerial'
      BY <1>5, <2>8, Zenon DEF OtFound, m
    <3>4. otDevice[m] \in OtRows
      BY <3>2, Zenon DEF OtInvariant, OtTypeOK
    <3>5. otDevice[m].value \in OtValues /\ m \in 0 .. OtBlocks /\ m > 0 /\ m # 0
      BY <3>2, <3>4, OtSizes DEF OtRows
    <3>6. /\ otSerial' \in [value : OtValues, block : 0 .. OtBlocks]
          /\ otSerial'.block = m /\ otSerial'.value = otDevice[m].value
      BY <3>3, <3>5, Zenon
    <3>7. otLocked' = OtIsLocked(m) /\ otLocked' \in BOOLEAN
      BY <1>5, <2>8, <3>6, Zenon DEF OtIsLocked
    <3>8. OtTypeOK'
      BY <1>1, <1>2, <1>5, <2>2, <2>6, <3>3, <3>6, <3>7, Zenon DEF OtInvariant, OtTypeOK
    <3>9. OtWhole(otVerified.block)' /\ (otLocked' => OtIsLocked(otSerial.block)')
      BY <1>1, <3>2, <3>3, <3>6, <3>7, Zenon DEF OtWhole, OtIsLocked
    <3>10. OtRemembers'
      BY <1>1, <1>5, <3>2, <3>3, <3>5, <3>6, <3>9, Zenon DEF OtRemembers
    <3>11. m >= otVerified.block
      <4>1. CASE otVerified.block > 0
        BY <1>3, <2>4, <3>1, <3>2, <4>1, Zenon
      <4>2. CASE ~(otVerified.block > 0)
        BY <1>3, <3>2, <4>2, OtSizes
      <4> QED
        BY <4>1, <4>2, Zenon
    <3> QED
      BY <1>1, <1>2, <1>5, <3>3, <3>6, <3>8, <3>10, <3>11, Zenon
         DEF OtInvariant, OtStage
  <2> QED
    BY <2>7, <2>8, Zenon
<1>6. otOp = OtIdle
  BY Zenon DEF OtScan, OtInvariant, OtStage, OtRemembers
<1> QED
  BY <1>4, <1>5, <1>6, Zenon DEF OtScan

LEMMA OtStep ==
  ASSUME OtInvariant, [OtNext]_otVars
  PROVE  OtInvariant' /\ OtBurnt /\ otVerified'.block >= otVerified.block
<1>1. ASSUME otVerified' = otVerified
      PROVE  otVerified'.block >= otVerified.block
  <2>1. otVerified.block \in 0 .. OtBlocks
    BY Zenon DEF OtInvariant, OtTypeOK
  <2> QED
    BY <1>1, <2>1, OtSizes
<1>2. CASE UNCHANGED otVars
  <2>1. UNCHANGED <<otBackend, otDevice, otInitialized, otReady, otNext, otKinds, otSerial,
                    otLocked, otAttempted, otLockNext, otTimedOut, otOp, otVerified>>
    BY <1>2, Zenon DEF otVars, otRam
  <2>2. OtBurnt /\ OtBurns'
    BY <2>1, OtUntouched, Zenon
  <2>3. otNext \in Nat /\ otNext >= otNext
    BY OtSizes DEF OtInvariant, OtTypeOK
  <2>4. OtRemembers'
    BY <2>1, <2>2, <2>3, OtRemembersStill, Zenon
  <2>5. OtTypeOK' /\ OtStage'
    BY <2>1, Zenon DEF OtInvariant, OtTypeOK, OtStage
  <2> QED
    BY <1>1, <2>1, <2>2, <2>4, <2>5, Zenon DEF OtInvariant
<1>3. CASE OtRefused
  BY <1>1, <1>3, OtRefusedKeeps, Zenon DEF OtRefused
<1>4. CASE OtProgram
  BY <1>1, <1>4, OtProgramKeeps, Zenon DEF OtProgram
<1>5. CASE OtLock
  BY <1>1, <1>5, OtLockKeeps, Zenon DEF OtLock
<1>6. CASE OtCheckLock
  BY <1>1, <1>6, OtCheckLockKeeps, Zenon DEF OtCheckLock
<1>7. CASE OtPowerCut
  BY <1>1, <1>7, OtPowerCutKeeps, Zenon DEF OtPowerCut
<1>8. CASE \E v \in OtSerials : OtSet(v)
  BY <1>1, <1>8, OtSetKeeps, Zenon DEF OtSet
<1> QED
  BY <1>2, <1>3, <1>4, <1>5, <1>6, <1>7, <1>8, OtScanKeeps, OtVerifyKeeps, Zenon
     DEF OtNext

\* The store keeps its record: through every order of scans, set_serial calls,
\* failed and torn writes and power cuts, a serial number once verified is
\* served until a later one is, and no touched cell is written again.
THEOREM OtpStoreKeeps == OtSpec => OtKept
<1>1. OtInvariant => OtTypeOK /\ OtDurable
  <2> SUFFICES ASSUME OtInvariant PROVE OtDurable
    BY Zenon DEF OtInvariant
  <2>1. otSerial.block \in 0 .. OtBlocks
    BY Zenon DEF OtInvariant, OtTypeOK
  <2>2. otSerial.block = otVerified.block => otSerial.block >= otVerified.block
    BY <2>1, OtSizes
  <2> QED
    BY <2>2, Zenon DEF OtInvariant, OtRemembers, OtDurable
<1>2. OtInvariant /\ [OtNext]_otVars => OtInvariant'
  BY OtStep, Zenon
<1>3. OtInvariant /\ [OtNext]_otVars =>
        [\A b \in 1 .. OtBlocks :
          /\ \A c \in 1 .. OtCells :
               otDevice[b].cells[c] # "virgin" => otDevice'[b].cells[c] = otDevice[b].cells[c]
          /\ \A c \in 1 .. OtLocks :
               otDevice[b].locks[c] # "virgin" => otDevice'[b].locks[c] = otDevice[b].locks[c]]_otVars
  BY OtStep, Zenon DEF OtBurnt
<1>4. OtInvariant /\ [OtNext]_otVars => [otVerified'.block >= otVerified.block]_otVars
  BY OtStep, Zenon
<1> QED
  BY <1>1, <1>2, <1>3, <1>4, OtInitially, PTL DEF OtSpec, OtKept, OtWriteOnce, OtForward
==============================================================================
