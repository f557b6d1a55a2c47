--------------------------- MODULE PlatformProofs ----------------------------
(***************************************************************************)
(* The embedded clock, for every period, latency and set of delays, and    *)
(* the flash driver, for every number of flash words, every size of a      *)
(* bank and every set of Flash objects.                                    *)
(***************************************************************************)
EXTENDS Tim2Clock, FlashDriver, TLAPS

(***************************************************************************)
(* Stm32Tim2: the time it reads and the deadline it watches.               *)
(***************************************************************************)
\* The clock has counted every rollover but one that is still flagged, and that
\* one is recent.
TmEpochs ==
  /\ tmEpoch % TmPeriod = 0 /\ tmEpoch <= tmReal
  /\ tmInitialized /\ ~tmUif => tmReal < tmEpoch + TmPeriod
  /\ tmInitialized /\ tmUif =>
       tmEpoch + TmPeriod <= tmReal /\ tmReal <= tmEpoch + TmPeriod + TmLatency

\* How far now() is, and what its reading is worth.
TmCalling ==
  /\ tmPc # "out" => /\ tmInitialized /\ tmStart <= tmReal
                     /\ tmReal <= tmStart + TmCallTime
  /\ tmPc = "out" => tmFor = "caller"
  /\ tmPc = "test" /\ ~tmUif => tmStart <= TmReading /\ TmReading <= tmReal
  /\ tmPc = "clear" => tmUif
  /\ tmPc = "again" => ~tmUif /\ tmStart <= tmEpoch + TmLatency
  /\ tmPc = "result" => tmStart <= TmReading /\ TmReading <= tmReal
  /\ tmPc = "enable" => tmFor = "current"
  /\ tmFor = "passed" => tmCc1ie

\* A compare still to come by the deadline.
TmAhead == \E at \in tmReal + 1 .. tmDue : at % TmPeriod = tmCcr1

\* A deadline is watched for: by a pended interrupt or by the compare.
TmWatched == tmPend \/ (tmCc1ie /\ (tmCc1if \/ TmAhead))

\* The compare as ProgramCompare() wrote it, at the time given: a match not yet
\* flagged is still to come, by the deadline, or its time had come by then.
TmProgrammed(written) ==
  /\ tmCcr1 = tmTarget % TmPeriod
  /\ tmTarget <= tmDue \/ tmTarget <= written
  /\ tmCc1if \/ tmReal < tmTarget \/ tmTarget <= written

\* Outside ProgramCompare() and the interrupt a deadline is watched for.
TmDeadlines ==
  /\ ~tmInitialized => ~tmArmed
  /\ tmArmed /\ tmFor = "caller" => TmWatched
  /\ tmPc = "enable" => TmProgrammed(tmReal)
  /\ tmFor = "passed" => TmProgrammed(tmStart)

TmInvariant == TmTypeOK /\ TmEpochs /\ TmCalling /\ TmDeadlines

\* The constants, and what the variables count.
LEMMA TmConstants ==
  /\ TmPeriod \in Nat \ {0} /\ TmPeriod >= 2 /\ TmLatency \in Nat /\ TmCallTime \in Nat
  /\ TmMaxTime \in Nat /\ TmLatency + TmCallTime < TmPeriod
  /\ \A delay \in TmDelays : delay \in Nat
  /\ TmHalf \in Nat
<1>1. /\ TmPeriod \in Nat /\ TmPeriod >= 2 /\ TmLatency \in Nat /\ TmCallTime \in Nat
      /\ TmMaxTime \in Nat /\ TmLatency + TmCallTime < TmPeriod
      /\ \A delay \in TmDelays : delay \in Nat
  BY TmAssumption, Zenon
<1>2. TmPeriod \in Nat \ {0}
  BY <1>1
<1>3. TmHalf \in Nat
  BY <1>1 DEF TmHalf
<1> QED
  BY <1>1, <1>2, <1>3, Zenon

LEMMA TmNumbers ==
  ASSUME TmTypeOK
  PROVE  /\ tmReal \in Nat /\ tmReal <= TmMaxTime /\ tmEpoch \in Nat /\ tmCcr1 \in Nat
         /\ tmLow \in Nat /\ tmTarget \in Nat /\ tmStart \in Nat /\ tmDue \in Nat
         /\ TmReading = tmEpoch + tmLow /\ TmReading \in Nat
<1>1. /\ tmReal \in Nat /\ tmReal <= TmMaxTime /\ tmEpoch \in Nat /\ tmCcr1 \in Nat
      /\ tmLow \in Nat /\ tmTarget \in Nat /\ tmStart \in Nat /\ tmDue \in Nat
  BY TmConstants DEF TmTypeOK
<1> QED
  BY <1>1 DEF TmReading

\* Remainders: of a multiple of the period, of the next one, and between them.
LEMMA TmMultiple ==
  ASSUME NEW k \in Nat
  PROVE  (TmPeriod * k) % TmPeriod = 0
BY TmConstants

LEMMA TmRemainders ==
  ASSUME NEW e \in Nat, e % TmPeriod = 0
  PROVE  /\ \A d \in Nat : d < TmPeriod => (e + d) % TmPeriod = d
         /\ (e + TmPeriod) % TmPeriod = 0
<1>1. TmPeriod \in Nat \ {0}
  BY TmConstants, Zenon
<1>2. \A d \in Nat : d < TmPeriod => (e + d) % TmPeriod = d
  BY <1>1
<1>3. PICK k \in Nat : e = TmPeriod * k
  BY <1>1
<1>4. e + TmPeriod = TmPeriod * (k + 1) /\ k + 1 \in Nat
  BY <1>1, <1>3
<1>5. (e + TmPeriod) % TmPeriod = 0
  <2> DEFINE j == k + 1
  <2>1. j \in Nat /\ e + TmPeriod = TmPeriod * j
    BY <1>4, Zenon
  <2> HIDE DEF j
  <2>2. (TmPeriod * j) % TmPeriod = 0
    BY <2>1, TmMultiple, Zenon
  <2> QED
    BY <2>1, <2>2, Zenon
<1> QED
  BY <1>2, <1>5, Zenon

LEMMA TmRemainderRange ==
  ASSUME NEW n \in Nat
  PROVE  n % TmPeriod \in 0 .. TmPeriod - 1 /\ n % TmPeriod \in Nat
<1>1. TmPeriod \in Nat \ {0}
  BY TmConstants, Zenon
<1> QED
  BY <1>1

\* The counter, by the epoch.
LEMMA TmCounter ==
  ASSUME TmTypeOK, TmEpochs, tmInitialized
  PROVE  /\ ~tmUif => TmCnt = tmReal - tmEpoch
         /\ tmUif => TmCnt = tmReal - (tmEpoch + TmPeriod)
         /\ TmCnt \in Nat
         /\ ~tmUif => ((tmReal + 1) % TmPeriod = 0 <=> tmReal + 1 = tmEpoch + TmPeriod)
<1>1. tmReal \in Nat /\ tmEpoch \in Nat /\ tmEpoch % TmPeriod = 0
  BY TmNumbers, Zenon DEF TmEpochs
<1>2. /\ \A d \in Nat : d < TmPeriod => (tmEpoch + d) % TmPeriod = d
      /\ (tmEpoch + TmPeriod) % TmPeriod = 0
  BY <1>1, TmRemainders, Zenon
<1>3. ASSUME ~tmUif
      PROVE  /\ TmCnt = tmReal - tmEpoch
             /\ ((tmReal + 1) % TmPeriod = 0 <=> tmReal + 1 = tmEpoch + TmPeriod)
  <2>1. tmEpoch <= tmReal /\ tmReal < tmEpoch + TmPeriod
    BY <1>3, Zenon DEF TmEpochs
  <2>2. /\ tmReal - tmEpoch \in Nat /\ tmReal - tmEpoch < TmPeriod
        /\ tmEpoch + (tmReal - tmEpoch) = tmReal
    BY <1>1, <2>1, TmConstants
  <2>3. TmCnt = tmReal - tmEpoch
    BY <1>2, <2>2, Zenon DEF TmCnt
  <2>4. CASE tmReal + 1 = tmEpoch + TmPeriod
    BY <1>2, <2>3, <2>4, Zenon
  <2>5. CASE tmReal + 1 # tmEpoch + TmPeriod
    <3>1. /\ tmReal + 1 - tmEpoch \in Nat /\ tmReal + 1 - tmEpoch < TmPeriod
          /\ tmEpoch + (tmReal + 1 - tmEpoch) = tmReal + 1 /\ tmReal + 1 - tmEpoch # 0
      BY <1>1, <2>1, <2>5, TmConstants
    <3>2. (tmReal + 1) % TmPeriod = tmReal + 1 - tmEpoch
      BY <1>2, <3>1, Zenon
    <3> QED
      BY <2>3, <2>5, <3>1, <3>2, Zenon
  <2> QED
    BY <2>4, <2>5, Zenon
<1>4. ASSUME tmUif
      PROVE  TmCnt = tmReal - (tmEpoch + TmPeriod)
  <2>1. tmEpoch + TmPeriod <= tmReal /\ tmReal <= tmEpoch + TmPeriod + TmLatency
    BY <1>4, Zenon DEF TmEpochs
  <2> DEFINE e == tmEpoch + TmPeriod
  <2>2. /\ e \in Nat /\ e % TmPeriod = 0 /\ tmReal - e \in Nat /\ tmReal - e < TmPeriod
        /\ e + (tmReal - e) = tmReal
    BY <1>1, <1>2, <2>1, TmConstants
  <2> HIDE DEF e
  <2>3. (e + (tmReal - e)) % TmPeriod = tmReal - e
    BY <2>2, TmRemainders, Zenon
  <2> QED
    BY <2>2, <2>3, Zenon DEF TmCnt, e
<1>5. TmCnt \in Nat
  BY <1>1, TmRemainderRange, Zenon DEF TmCnt
<1> QED
  BY <1>3, <1>4, <1>5, Zenon

LEMMA TmTickKeeps ==
  ASSUME TmInvariant, TmTick
  PROVE  TmInvariant'
<1> DEFINE next == (tmReal + 1) % TmPeriod
<1>1. /\ tmInitialized /\ tmReal < TmMaxTime /\ (tmUif => TmCnt < TmLatency)
      /\ (tmPc # "out" => tmReal - tmStart < TmCallTime)
      /\ tmUif' = (tmUif \/ next = 0) /\ tmCc1if' = (tmCc1if \/ next = tmCcr1)
      /\ tmReal' = tmReal + 1
      /\ UNCHANGED <<tmCc1ie, tmCcr1, tmPend, tmInitialized, tmEpoch, tmArmed, tmDue,
                     tmPc, tmFor, tmLow, tmTarget, tmStart>>
  BY Zenon DEF TmTick, tmSoftware, tmLocal
<1>2. TmTypeOK /\ TmEpochs /\ TmCalling /\ TmDeadlines
  BY Zenon DEF TmInvariant
<1>3. /\ tmReal \in Nat /\ tmEpoch \in Nat /\ tmCcr1 \in Nat /\ tmLow \in Nat /\ tmTarget \in Nat
      /\ tmStart \in Nat /\ tmDue \in Nat /\ TmReading \in Nat
  BY <1>2, TmNumbers, Zenon
<1>4. TmTypeOK'
  <2>1. tmReal + 1 \in 0 .. TmMaxTime
    BY <1>1, <1>3, TmConstants
  <2> QED
    BY <1>1, <1>2, <2>1, Zenon DEF TmTypeOK
<1>5. TmEpochs'
  <2>1. tmEpoch <= tmReal + 1
    BY <1>2, <1>3 DEF TmEpochs
  <2>2. CASE tmUif
    <3>1. tmEpoch + TmPeriod <= tmReal /\ TmCnt = tmReal - (tmEpoch + TmPeriod) /\ TmCnt < TmLatency
      BY <1>1, <1>2, <2>2, TmCounter, Zenon DEF TmEpochs
    <3>2. /\ tmEpoch + TmPeriod <= tmReal + 1
          /\ tmReal + 1 <= tmEpoch + TmPeriod + TmLatency
      BY <1>3, <3>1, TmConstants
    <3>3. tmUif'
      BY <1>1, <2>2, Zenon
    <3> QED
      BY <1>1, <1>2, <2>1, <3>2, <3>3, Zenon DEF TmEpochs
  <2>3. CASE ~tmUif
    <3>1. tmReal < tmEpoch + TmPeriod
      BY <1>1, <1>2, <2>3, Zenon DEF TmEpochs
    <3>2. tmUif' <=> tmReal + 1 = tmEpoch + TmPeriod
      BY <1>1, <1>2, <2>3, TmCounter, Zenon
    <3>3. tmReal + 1 # tmEpoch + TmPeriod => tmReal + 1 < tmEpoch + TmPeriod
      BY <1>3, <3>1, TmConstants
    <3>4. tmReal + 1 = tmEpoch + TmPeriod =>
            /\ tmEpoch + TmPeriod <= tmReal + 1
            /\ tmReal + 1 <= tmEpoch + TmPeriod + TmLatency
      BY <1>3, TmConstants
    <3> QED
      BY <1>1, <1>2, <2>1, <3>2, <3>3, <3>4, Zenon DEF TmEpochs
  <2> QED
    BY <2>2, <2>3, Zenon
<1>6. TmCalling'
  <2>1. TmReading' = TmReading
    BY <1>1, Zenon DEF TmReading
  <2>2. tmPc # "out" => tmStart <= tmReal + 1 /\ tmReal + 1 <= tmStart + TmCallTime
    <3> SUFFICES ASSUME tmPc # "out"
                 PROVE  tmStart <= tmReal + 1 /\ tmReal + 1 <= tmStart + TmCallTime
      BY Zenon
    <3>1. tmStart <= tmReal /\ tmReal - tmStart < TmCallTime
      BY <1>1, <1>2, Zenon DEF TmCalling
    <3> QED
      BY <1>3, <3>1, TmConstants
  <2>3. TmReading <= tmReal => TmReading <= tmReal + 1
    BY <1>3
  <2>4. ~tmUif' => ~tmUif
    BY <1>1, Zenon
  <2>5. tmPc = "again" => ~tmUif'
    <3> SUFFICES ASSUME tmPc = "again" PROVE ~tmUif'
      BY Zenon
    <3>1. ~tmUif /\ tmStart <= tmEpoch + TmLatency
      BY <1>2, Zenon DEF TmCalling
    <3>2. tmReal + 1 <= tmStart + TmCallTime
      BY <2>2, Zenon
    <3>3. tmReal + 1 # tmEpoch + TmPeriod
      BY <1>3, <3>1, <3>2, TmConstants
    <3> QED
      BY <1>1, <1>2, <3>1, <3>3, TmCounter, Zenon
  <2> QED
    BY <1>1, <1>2, <2>1, <2>2, <2>3, <2>4, <2>5, Zenon DEF TmCalling
<1>7. TmWatched => TmWatched'
  <2> SUFFICES ASSUME TmAhead PROVE tmCc1if' \/ TmAhead'
    BY <1>1, Zenon DEF TmWatched
  <2>1. PICK at \in tmReal + 1 .. tmDue : at % TmPeriod = tmCcr1
    BY Zenon DEF TmAhead
  <2>2. CASE at = tmReal + 1
    BY <1>1, <2>1, <2>2, Zenon
  <2>3. CASE at # tmReal + 1
    <3>1. at \in (tmReal + 1) + 1 .. tmDue
      BY <1>3, <2>1, <2>3
    <3> QED
      BY <1>1, <2>1, <3>1, Zenon DEF TmAhead
  <2> QED
    BY <2>2, <2>3, Zenon
<1>8. ASSUME NEW w \in Nat, TmProgrammed(w)
      PROVE  /\ tmCcr1 = tmTarget % TmPeriod
             /\ tmTarget <= tmDue \/ tmTarget <= w
             /\ tmCc1if' \/ tmReal + 1 < tmTarget \/ tmTarget <= w
  <2>1. CASE tmReal + 1 = tmTarget
    BY <1>1, <1>8, <2>1, Zenon DEF TmProgrammed
  <2>2. CASE tmReal + 1 # tmTarget
    <3>1. tmReal < tmTarget => tmReal + 1 < tmTarget
      BY <1>3, <2>2
    <3> QED
      BY <1>1, <1>8, <3>1, Zenon DEF TmProgrammed
  <2> QED
    BY <2>1, <2>2, Zenon
<1>9. TmDeadlines'
  <2>1. tmTarget <= tmReal => tmTarget <= tmReal + 1
    BY <1>3
  <2>2. tmPc = "enable" => TmProgrammed(tmReal)'
    BY <1>1, <1>2, <1>3, <1>8, <2>1, Zenon DEF TmDeadlines, TmProgrammed
  <2>3. tmFor = "passed" => TmProgrammed(tmStart)'
    BY <1>1, <1>2, <1>3, <1>8, Zenon DEF TmDeadlines, TmProgrammed
  <2> QED
    BY <1>1, <1>2, <1>7, <2>2, <2>3, Zenon DEF TmDeadlines
<1> QED
  BY <1>4, <1>5, <1>6, <1>9, Zenon DEF TmInvariant

\* A step of now() leaves the timer's registers and the deadline.
LEMMA TmReadingStep ==
  ASSUME TmInvariant,
         UNCHANGED <<tmReal, tmCc1if, tmCc1ie, tmCcr1, tmPend, tmInitialized, tmArmed, tmDue,
                     tmFor, tmTarget, tmStart>>,
         tmPc' # "enable"
  PROVE  TmDeadlines'
<1>1. TmWatched' <=> TmWatched
  BY Zenon DEF TmWatched, TmAhead
<1>2. TmProgrammed(tmStart)' <=> TmProgrammed(tmStart)
  BY Zenon DEF TmProgrammed
<1> QED
  BY <1>1, <1>2, Zenon DEF TmInvariant, TmDeadlines

LEMMA TmNowKeeps ==
  ASSUME TmInvariant, TmReadLow \/ TmTestRollover \/ TmCountRollover \/ TmReadAgain
  PROVE  TmInvariant'
<1>1. TmTypeOK /\ TmEpochs /\ TmCalling /\ TmDeadlines
  BY Zenon DEF TmInvariant
<1>2. /\ tmReal \in Nat /\ tmEpoch \in Nat /\ tmLow \in Nat /\ tmReal <= TmMaxTime
      /\ tmStart \in Nat /\ TmReading \in Nat
  BY <1>1, TmNumbers, Zenon
<1>3. /\ tmInitialized /\ tmStart <= tmReal /\ tmReal <= tmStart + TmCallTime /\ tmPc # "out"
  <2>1. tmPc # "out"
    BY Zenon DEF TmReadLow, TmTestRollover, TmCountRollover, TmReadAgain
  <2> QED
    BY <1>1, <2>1, Zenon DEF TmCalling
<1>4. CASE TmReadLow
  <2>1. /\ tmPc = "low" /\ tmLow' = TmCnt /\ tmPc' = "test" /\ UNCHANGED <<tmReal, tmUif, tmCc1if, tmCc1ie, tmCcr1, tmPend,
            tmInitialized, tmEpoch, tmArmed, tmDue, tmCalls, tmFor, tmTarget, tmStart>>
    BY <1>4, Zenon DEF TmReadLow, tmHardware, tmSoftware
  <2>2. TmCnt \in Nat /\ (~tmUif => TmCnt = tmReal - tmEpoch)
    BY <1>1, <1>3, TmCounter, Zenon
  <2>3. TmTypeOK'
    BY <1>1, <2>1, <2>2, Zenon DEF TmTypeOK
  <2>4. TmReading' = tmEpoch + TmCnt
    BY <2>1, Zenon DEF TmReading
  <2>5. TmCnt = tmReal - tmEpoch => tmStart <= tmEpoch + TmCnt /\ tmEpoch + TmCnt <= tmReal
    BY <1>2, <1>3
  <2>6. TmCalling'
    <3>1. "test" \notin {"out", "clear", "again", "result", "enable"}
      BY Zenon
    <3> QED
      BY <1>1, <1>3, <2>1, <2>2, <2>4, <2>5, <3>1, Zenon DEF TmCalling
  <2>7. TmDeadlines'
    BY <2>1, TmReadingStep, Zenon
  <2> QED
    BY <1>1, <2>1, <2>3, <2>6, <2>7, Zenon DEF TmInvariant, TmEpochs
<1>5. CASE TmTestRollover
  <2>1. /\ tmPc = "test" /\ tmPc' = (IF tmUif THEN "clear" ELSE "result")
        /\ UNCHANGED <<tmReal, tmUif, tmCc1if, tmCc1ie, tmCcr1, tmPend,
            tmInitialized, tmEpoch, tmArmed, tmDue, tmCalls, tmFor, tmLow, tmTarget, tmStart>>
    BY <1>5, Zenon DEF TmTestRollover, tmHardware, tmSoftware
  <2>2. (tmUif /\ tmPc' = "clear") \/ (~tmUif /\ tmPc' = "result")
    BY <2>1, Zenon
  <2>3. TmTypeOK'
    BY <1>1, <2>1, <2>2, Zenon DEF TmTypeOK
  <2>4. TmReading' = TmReading
    BY <2>1, Zenon DEF TmReading
  <2>6. TmCalling'
    <3>1. /\ "clear" \notin {"out", "test", "again", "result", "enable"}
          /\ "result" \notin {"out", "test", "again", "clear", "enable"}
      BY Zenon
    <3> QED
      BY <1>1, <1>3, <2>1, <2>2, <2>4, <3>1, Zenon DEF TmCalling
  <2>7. TmDeadlines'
    BY <2>1, <2>2, TmReadingStep, Zenon
  <2> QED
    BY <1>1, <2>1, <2>3, <2>6, <2>7, Zenon DEF TmInvariant, TmEpochs
<1>6. CASE TmCountRollover
  <2>1. /\ tmPc = "clear" /\ tmUif' = FALSE /\ tmEpoch' = tmEpoch + TmPeriod /\ tmPc' = "again"
        /\ UNCHANGED <<tmReal, tmCc1if, tmCc1ie, tmCcr1, tmPend, tmInitialized, tmArmed,
                       tmDue, tmFor, tmLow, tmTarget, tmStart>>
    BY <1>6, Zenon DEF TmCountRollover
  <2>2. tmEpoch + TmPeriod <= tmReal /\ tmReal <= tmEpoch + TmPeriod + TmLatency
    BY <1>1, <1>3, <2>1, Zenon DEF TmCalling, TmEpochs
  <2>3. tmEpoch' \in 0 .. TmMaxTime
    BY <1>2, <2>1, <2>2, TmConstants
  <2>4. TmTypeOK'
    BY <1>1, <2>1, <2>3, Zenon DEF TmTypeOK
  <2>5. (tmEpoch + TmPeriod) % TmPeriod = 0
    BY <1>1, <1>2, TmRemainders, Zenon DEF TmEpochs
  <2>6. /\ tmReal < tmEpoch + TmPeriod + TmPeriod
        /\ tmStart <= tmEpoch + TmPeriod + TmLatency
    BY <1>2, <1>3, <2>2, TmConstants
  <2>7. TmEpochs'
    BY <2>1, <2>2, <2>5, <2>6, Zenon DEF TmEpochs
  <2>8. TmCalling'
    <3>1. "again" \notin {"out", "test", "result", "clear", "enable"}
      BY Zenon
    <3> QED
      BY <1>1, <1>3, <2>1, <2>6, <3>1, Zenon DEF TmCalling
  <2>9. TmDeadlines'
    BY <2>1, TmReadingStep, Zenon
  <2> QED
    BY <2>4, <2>7, <2>8, <2>9, Zenon DEF TmInvariant
<1>7. CASE TmReadAgain
  <2>1. /\ tmPc = "again" /\ tmLow' = TmCnt /\ tmPc' = "result"
        /\ UNCHANGED <<tmReal, tmUif, tmCc1if, tmCc1ie, tmCcr1, tmPend,
            tmInitialized, tmEpoch, tmArmed, tmDue, tmCalls, tmFor, tmTarget, tmStart>>
    BY <1>7, Zenon DEF TmReadAgain, TmLowAgain, tmHardware, tmSoftware
  <2>2. TmCnt \in Nat /\ TmCnt = tmReal - tmEpoch
    BY <1>1, <1>3, <2>1, TmCounter, Zenon DEF TmCalling
  <2>3. TmTypeOK'
    BY <1>1, <2>1, <2>2, Zenon DEF TmTypeOK
  <2>4. TmReading' = tmEpoch + TmCnt
    BY <2>1, Zenon DEF TmReading
  <2>5. tmStart <= tmEpoch + TmCnt /\ tmEpoch + TmCnt <= tmReal
    BY <1>2, <1>3, <2>2
  <2>6. TmCalling'
    <3>1. "result" \notin {"out", "test", "again", "clear", "enable"}
      BY Zenon
    <3> QED
      BY <1>1, <1>3, <2>1, <2>4, <2>5, <3>1, Zenon DEF TmCalling
  <2>7. TmDeadlines'
    BY <2>1, TmReadingStep, Zenon
  <2> QED
    BY <1>1, <2>1, <2>3, <2>6, <2>7, Zenon DEF TmInvariant, TmEpochs
<1> QED
  BY <1>4, <1>5, <1>6, <1>7, Zenon

LEMMA TmInitially ==
  ASSUME TmInit
  PROVE  TmInvariant
<1>1. /\ tmReal = 0 /\ tmInitialized = FALSE /\ tmEpoch = 0
      /\ tmUif = FALSE /\ tmCc1if = FALSE /\ tmCc1ie = FALSE /\ tmCcr1 = 0
      /\ tmPend = FALSE /\ tmArmed = FALSE /\ tmDue = 1000
      /\ tmPc = "out" /\ tmFor = "caller" /\ tmLow = 0 /\ tmTarget = 0 /\ tmStart = 0
  BY Zenon DEF TmInit, TmForever
<1>2. /\ 0 \in 0 .. TmMaxTime /\ 0 \in 0 .. TmPeriod - 1 /\ 0 \in Nat /\ 1000 \in Nat
      /\ 0 % TmPeriod = 0 /\ 0 <= 0
  BY TmConstants
<1>3. TmTypeOK
  BY <1>1, <1>2, Zenon DEF TmTypeOK
<1>4. TmEpochs
  BY <1>1, <1>2, Zenon DEF TmEpochs
<1>5. TmCalling
  BY <1>1, Zenon DEF TmCalling
<1>6. TmDeadlines
  BY <1>1, Zenon DEF TmDeadlines
<1> QED
  BY <1>3, <1>4, <1>5, <1>6, Zenon DEF TmInvariant

\* A call of now() begins, from masked code that leaves the rollovers alone.
LEMMA TmCallBegins ==
  ASSUME TmInvariant, NEW for \in {"caller", "due", "current", "interrupt", "passed"},
         TmCallNow(for), tmInitialized, UNCHANGED <<tmReal, tmUif, tmInitialized, tmEpoch>>,
         for = "passed" => tmCc1ie'
  PROVE  TmEpochs' /\ TmCalling'
<1>1. TmTypeOK /\ TmEpochs
  BY Zenon DEF TmInvariant
<1>2. /\ tmPc' = "low" /\ tmFor' = for /\ tmStart' = tmReal /\ tmReal' = tmReal
      /\ tmUif' = tmUif /\ tmInitialized' = tmInitialized /\ tmEpoch' = tmEpoch
  BY Zenon DEF TmCallNow
<1>3. tmReal <= tmReal /\ tmReal <= tmReal + TmCallTime
  BY <1>1, TmNumbers, TmConstants
<1>4. TmEpochs'
  BY <1>1, <1>2 DEF TmEpochs
<1>5. TmCalling'
  <2>1. "low" \notin {"out", "test", "clear", "again", "result", "enable"}
    BY Zenon
  <2> QED
    BY <1>2, <1>3, <2>1 DEF TmCalling
<1> QED
  BY <1>4, <1>5, Zenon

\* The masked code is left.
LEMMA TmCallEnds ==
  ASSUME TmInvariant, TmLeave, UNCHANGED <<tmReal, tmUif, tmInitialized, tmEpoch>>
  PROVE  TmEpochs' /\ TmCalling'
<1>1. TmEpochs
  BY Zenon DEF TmInvariant
<1>2. /\ tmPc' = "out" /\ tmFor' = "caller" /\ tmReal' = tmReal
      /\ tmUif' = tmUif /\ tmInitialized' = tmInitialized /\ tmEpoch' = tmEpoch
  BY Zenon DEF TmLeave
<1>3. TmEpochs'
  BY <1>1, <1>2 DEF TmEpochs
<1>4. TmCalling'
  <2>1. /\ "out" \notin {"low", "test", "clear", "again", "result", "enable"}
        /\ "caller" # "passed"
    BY Zenon
  <2> QED
    BY <1>2, <2>1, Zenon DEF TmCalling
<1> QED
  BY <1>3, <1>4, Zenon

LEMMA TmReadKeeps ==
  ASSUME TmInvariant, TmRead
  PROVE  TmInvariant'
<1>1. /\ tmPc = "out" /\ tmInitialized /\ TmCallNow("caller")
      /\ UNCHANGED <<tmReal, tmUif, tmCc1if, tmCc1ie, tmCcr1, tmPend, tmInitialized,
                     tmEpoch, tmArmed, tmDue, tmLow, tmTarget>>
  BY Zenon DEF TmRead, tmHardware
<1>2. TmTypeOK /\ TmCalling /\ TmDeadlines
  BY Zenon DEF TmInvariant
<1>3. tmPc' = "low" /\ tmFor' = "caller" /\ tmStart' = tmReal /\ tmFor = "caller"
  BY <1>1, <1>2, Zenon DEF TmCallNow, TmCalling
<1>4. tmReal \in Nat
  BY <1>2, TmNumbers, Zenon
<1>5. TmTypeOK'
  BY <1>1, <1>2, <1>3, <1>4, Zenon DEF TmTypeOK
<1>6. TmEpochs' /\ TmCalling'
  BY <1>1, TmCallBegins, Zenon
<1>7. TmDeadlines'
  <2>1. TmWatched' <=> TmWatched
    BY <1>1, Zenon DEF TmWatched, TmAhead
  <2> QED
    BY <1>1, <1>2, <1>3, <2>1, Zenon DEF TmDeadlines
<1> QED
  BY <1>5, <1>6, <1>7, Zenon DEF TmInvariant

LEMMA TmArmKeeps ==
  ASSUME TmInvariant, NEW delay \in TmDelays, TmArm(delay)
  PROVE  TmInvariant'
<1>1. /\ tmInitialized /\ TmCallNow("due") /\ tmArmed' = TRUE /\ tmDue' = delay
      /\ UNCHANGED <<tmReal, tmUif, tmCc1if, tmCc1ie, tmCcr1, tmPend, tmInitialized,
                     tmEpoch, tmLow, tmTarget>>
  BY Zenon DEF TmArm, tmHardware
<1>2. TmTypeOK
  BY Zenon DEF TmInvariant
<1>3. tmPc' = "low" /\ tmFor' = "due" /\ tmStart' = tmReal
  BY <1>1, Zenon DEF TmCallNow
<1>4. tmReal \in Nat /\ delay \in Nat
  BY <1>2, TmNumbers, TmConstants, Zenon
<1>5. TmTypeOK'
  BY <1>1, <1>2, <1>3, <1>4, Zenon DEF TmTypeOK
<1>6. TmEpochs' /\ TmCalling'
  BY <1>1, TmCallBegins, Zenon
<1>7. TmDeadlines'
  BY <1>1, <1>3, Zenon DEF TmDeadlines
<1> QED
  BY <1>5, <1>6, <1>7, Zenon DEF TmInvariant

LEMMA TmInterruptKeeps ==
  ASSUME TmInvariant, TmInterrupt
  PROVE  TmInvariant'
<1>1. /\ tmInitialized /\ tmPend' = FALSE /\ TmCallNow("interrupt")
      /\ UNCHANGED <<tmReal, tmUif, tmCc1if, tmCc1ie, tmCcr1, tmInitialized,
                     tmEpoch, tmArmed, tmDue, tmLow, tmTarget>>
  BY Zenon DEF TmInterrupt, tmSoftware
<1>2. TmTypeOK
  BY Zenon DEF TmInvariant
<1>3. tmPc' = "low" /\ tmFor' = "interrupt" /\ tmStart' = tmReal
  BY <1>1, Zenon DEF TmCallNow
<1>4. tmReal \in Nat
  BY <1>2, TmNumbers, Zenon
<1>5. TmTypeOK'
  BY <1>1, <1>2, <1>3, <1>4, Zenon DEF TmTypeOK
<1>6. TmEpochs' /\ TmCalling'
  BY <1>1, TmCallBegins, Zenon
<1>7. TmDeadlines'
  BY <1>1, <1>3, Zenon DEF TmDeadlines
<1> QED
  BY <1>5, <1>6, <1>7, Zenon DEF TmInvariant

LEMMA TmStartKeeps ==
  ASSUME TmInvariant, TmStartTimer
  PROVE  TmInvariant'
<1>1. /\ tmPc = "out" /\ ~tmInitialized
      /\ tmReal' = 0 /\ tmUif' = FALSE /\ tmCc1if' = FALSE /\ tmCc1ie' = FALSE
      /\ tmEpoch' = 0 /\ tmInitialized' = TRUE /\ tmPend' = FALSE
      /\ UNCHANGED <<tmCcr1, tmArmed, tmDue, tmPc, tmFor, tmLow, tmTarget, tmStart>>
  BY Zenon DEF TmStartTimer, tmLocal
<1>2. TmTypeOK /\ TmCalling /\ TmDeadlines
  BY Zenon DEF TmInvariant
<1>3. 0 \in 0 .. TmMaxTime /\ 0 % TmPeriod = 0 /\ 0 <= 0 /\ 0 < 0 + TmPeriod
  BY TmConstants
<1>4. TmTypeOK'
  BY <1>1, <1>2, <1>3, Zenon DEF TmTypeOK
<1>5. TmEpochs'
  BY <1>1, <1>3, Zenon DEF TmEpochs
<1>6. tmFor = "caller" /\ ~tmArmed
  BY <1>1, <1>2, Zenon DEF TmCalling, TmDeadlines
<1>7. TmCalling'
  BY <1>1, <1>6, Zenon DEF TmCalling
<1>8. TmDeadlines'
  BY <1>1, <1>6, Zenon DEF TmDeadlines
<1> QED
  BY <1>4, <1>5, <1>7, <1>8, Zenon DEF TmInvariant

LEMMA TmDisarmKeeps ==
  ASSUME TmInvariant, TmDisarm
  PROVE  TmInvariant'
<1>1. /\ tmPc = "out" /\ tmCc1ie' = FALSE /\ tmCc1if' = FALSE
      /\ tmArmed' = FALSE /\ tmDue' = 1000
      /\ UNCHANGED <<tmReal, tmUif, tmCcr1, tmPend, tmInitialized, tmEpoch, tmPc, tmFor,
                     tmLow, tmTarget, tmStart>>
  BY Zenon DEF TmDisarm, tmLocal, TmForever
<1>2. TmTypeOK /\ TmEpochs /\ TmCalling
  BY Zenon DEF TmInvariant
<1>3. 1000 \in Nat
  OBVIOUS
<1>4. TmTypeOK'
  BY <1>1, <1>2, <1>3, Zenon DEF TmTypeOK
<1>5. TmEpochs'
  BY <1>1, <1>2, Zenon DEF TmEpochs
<1>6. tmFor = "caller"
  BY <1>1, <1>2, Zenon DEF TmCalling
<1>7. TmCalling'
  BY <1>1, <1>6, Zenon DEF TmCalling
<1>8. TmDeadlines'
  BY <1>1, <1>6, Zenon DEF TmDeadlines
<1> QED
  BY <1>4, <1>5, <1>7, <1>8, Zenon DEF TmInvariant

LEMMA TmQuiesceKeeps ==
  ASSUME TmInvariant, TmQuiesce
  PROVE  TmInvariant'
<1>1. /\ tmPc = "out" /\ tmCc1ie' = FALSE /\ tmCc1if' = FALSE /\ tmUif' = FALSE
      /\ tmPend' = FALSE /\ tmArmed' = FALSE /\ tmDue' = 1000 /\ tmInitialized' = FALSE
      /\ UNCHANGED <<tmReal, tmCcr1, tmEpoch, tmPc, tmFor, tmLow, tmTarget, tmStart>>
  BY Zenon DEF TmQuiesce, tmLocal, TmForever
<1>2. TmTypeOK /\ TmEpochs /\ TmCalling
  BY Zenon DEF TmInvariant
<1>3. 1000 \in Nat
  OBVIOUS
<1>4. TmTypeOK'
  BY <1>1, <1>2, <1>3, Zenon DEF TmTypeOK
<1>5. TmEpochs'
  BY <1>1, <1>2, Zenon DEF TmEpochs
<1>6. tmFor = "caller"
  BY <1>1, <1>2, Zenon DEF TmCalling
<1>7. TmCalling'
  BY <1>1, <1>6, Zenon DEF TmCalling
<1>8. TmDeadlines'
  BY <1>1, <1>6, Zenon DEF TmDeadlines
<1> QED
  BY <1>4, <1>5, <1>7, <1>8, Zenon DEF TmInvariant

LEMMA TmReturnCallerKeeps ==
  ASSUME TmInvariant, TmReturnCaller
  PROVE  TmInvariant'
<1>1. /\ tmFor = "caller" /\ tmLow' = 0 /\ TmLeave
      /\ UNCHANGED <<tmReal, tmUif, tmCc1if, tmCc1ie, tmCcr1, tmPend, tmInitialized,
                     tmEpoch, tmArmed, tmDue, tmTarget>>
  BY Zenon DEF TmReturnCaller, TmReturn, tmHardware, tmSoftware
<1>2. TmTypeOK /\ TmDeadlines
  BY Zenon DEF TmInvariant
<1>3. tmPc' = "out" /\ tmFor' = "caller" /\ tmStart' = 0 /\ 0 \in Nat
  BY <1>1, Zenon DEF TmLeave
<1>4. TmTypeOK'
  BY <1>1, <1>2, <1>3, Zenon DEF TmTypeOK
<1>5. TmEpochs' /\ TmCalling'
  BY <1>1, TmCallEnds, Zenon
<1>6. TmWatched' <=> TmWatched
  BY <1>1, Zenon DEF TmWatched, TmAhead
<1>7. TmDeadlines'
  BY <1>1, <1>2, <1>3, <1>6, Zenon DEF TmDeadlines
<1> QED
  BY <1>4, <1>5, <1>7, Zenon DEF TmInvariant

LEMMA TmReturnDueKeeps ==
  ASSUME TmInvariant, TmReturnDue
  PROVE  TmInvariant'
<1>1. /\ tmPc = "result" /\ tmLow' = 0 /\ tmDue' = TmReading + tmDue /\ tmCc1ie' = FALSE
      /\ tmCc1if' = FALSE /\ TmCallNow("current")
      /\ UNCHANGED <<tmReal, tmUif, tmCcr1, tmPend, tmInitialized, tmEpoch, tmArmed,
                     tmTarget>>
  BY Zenon DEF TmReturnDue, TmReturn, TmProgram
<1>2. TmTypeOK /\ TmCalling /\ TmDeadlines
  BY Zenon DEF TmInvariant
<1>3. tmPc' = "low" /\ tmFor' = "current" /\ tmStart' = tmReal
  BY <1>1, Zenon DEF TmCallNow
<1>4. /\ tmReal \in Nat /\ 0 \in Nat /\ tmInitialized
      /\ tmDue' \in Nat
  <2>1. tmInitialized
    BY <1>1, <1>2, Zenon DEF TmCalling
  <2> QED
    BY <1>1, <1>2, <2>1, TmNumbers
<1>5. TmTypeOK'
  BY <1>1, <1>2, <1>3, <1>4, Zenon DEF TmTypeOK
<1>6. TmEpochs' /\ TmCalling'
  BY <1>1, <1>4, TmCallBegins, Zenon
<1>7. TmDeadlines'
  BY <1>1, <1>2, <1>3, Zenon DEF TmDeadlines
<1> QED
  BY <1>5, <1>6, <1>7, Zenon DEF TmInvariant

\* The compare is programmed no farther than asked.
LEMMA TmFarthestWithin ==
  ASSUME NEW d \in Nat
  PROVE  TmFarthest(d) \in Nat /\ TmFarthest(d) <= d
<1>1. TmHalf \in Nat
  BY TmConstants, Zenon
<1>2. \E x \in {d, TmHalf} : \A y \in {d, TmHalf} : x <= y
  BY <1>1
<1> DEFINE m == Min({d, TmHalf})
<1>3. m \in {d, TmHalf} /\ \A y \in {d, TmHalf} : m <= y
  BY <1>2, Zenon DEF Min
<1> HIDE DEF m
<1>4. m \in Nat /\ m <= d
  BY <1>1, <1>3, Zenon
<1> QED
  BY <1>4, Zenon DEF m, TmFarthest

LEMMA TmReturnCurrentKeeps ==
  ASSUME TmInvariant, TmReturnCurrent
  PROVE  TmInvariant'
<1> DEFINE delay == IF tmDue > TmReading THEN tmDue - TmReading ELSE 0
           target == TmReading + TmFarthest(delay)
<1>1. /\ tmPc = "result" /\ tmFor = "current" /\ tmLow' = 0
      /\ tmTarget' = target /\ tmCcr1' = target % TmPeriod /\ tmPc' = "enable"
      /\ UNCHANGED <<tmReal, tmUif, tmCc1if, tmCc1ie, tmPend, tmInitialized, tmEpoch,
                     tmArmed, tmDue, tmFor, tmStart>>
  BY Zenon DEF TmReturnCurrent, TmReturn, tmSoftware
<1>2. TmTypeOK /\ TmEpochs /\ TmCalling /\ TmDeadlines
  BY Zenon DEF TmInvariant
<1>3. tmReal \in Nat /\ tmDue \in Nat /\ TmReading \in Nat /\ 0 \in Nat
  BY <1>2, TmNumbers, Zenon
<1>4. /\ tmInitialized /\ tmStart <= tmReal /\ tmReal <= tmStart + TmCallTime
      /\ tmStart <= TmReading /\ TmReading <= tmReal
  BY <1>1, <1>2, Zenon DEF TmCalling
<1>5. delay \in Nat /\ (tmDue <= TmReading => delay = 0)
      /\ (tmDue > TmReading => delay = tmDue - TmReading)
  BY <1>3
<1>6. TmFarthest(delay) \in Nat /\ TmFarthest(delay) <= delay
  BY <1>5, TmFarthestWithin, Zenon
<1> HIDE DEF delay
<1>7. /\ target \in Nat
      /\ target <= tmDue \/ target <= tmReal
      /\ tmReal < target \/ target <= tmReal
  BY <1>3, <1>4, <1>5, <1>6
<1> HIDE DEF target
<1>8. target % TmPeriod \in 0 .. TmPeriod - 1
  BY <1>7, TmRemainderRange, Zenon
<1>9. TmTypeOK'
  BY <1>1, <1>2, <1>3, <1>7, <1>8, Zenon DEF TmTypeOK
<1>10. TmEpochs'
  BY <1>1, <1>2, Zenon DEF TmEpochs
<1>11. TmCalling'
  BY <1>1, <1>4, Zenon DEF TmCalling
<1>12. TmDeadlines'
  <2>1. TmProgrammed(tmReal)'
    BY <1>1, <1>7, Zenon DEF TmProgrammed
  <2> QED
    BY <1>1, <1>2, <2>1, Zenon DEF TmDeadlines
<1> QED
  BY <1>9, <1>10, <1>11, <1>12, Zenon DEF TmInvariant

LEMMA TmEnableKeeps ==
  ASSUME TmInvariant, TmEnable
  PROVE  TmInvariant'
<1>1. /\ tmPc = "enable" /\ tmCc1ie' = TRUE /\ TmCallNow("passed")
      /\ UNCHANGED <<tmReal, tmUif, tmCc1if, tmCcr1, tmPend, tmInitialized, tmEpoch,
                     tmArmed, tmDue, tmLow, tmTarget>>
  BY Zenon DEF TmEnable, tmSoftware
<1>2. TmTypeOK /\ TmCalling /\ TmDeadlines
  BY Zenon DEF TmInvariant
<1>3. tmPc' = "low" /\ tmFor' = "passed" /\ tmStart' = tmReal
  BY <1>1, Zenon DEF TmCallNow
<1>4. tmReal \in Nat /\ tmInitialized /\ TmProgrammed(tmReal)
  <2>1. tmInitialized /\ TmProgrammed(tmReal)
    BY <1>1, <1>2, Zenon DEF TmCalling, TmDeadlines
  <2> QED
    BY <1>2, <2>1, TmNumbers, Zenon
<1>5. TmTypeOK'
  BY <1>1, <1>2, <1>3, <1>4, Zenon DEF TmTypeOK
<1>6. TmEpochs' /\ TmCalling'
  BY <1>1, <1>4, TmCallBegins, Zenon
<1>7. TmDeadlines'
  <2>1. TmProgrammed(tmStart)'
    BY <1>1, <1>3, <1>4, Zenon DEF TmProgrammed
  <2> QED
    BY <1>1, <1>2, <1>3, <1>4, <2>1, Zenon DEF TmDeadlines
<1> QED
  BY <1>5, <1>6, <1>7, Zenon DEF TmInvariant

LEMMA TmReturnPassedKeeps ==
  ASSUME TmInvariant, TmReturnPassed
  PROVE  TmInvariant'
<1>1. /\ tmPc = "result" /\ tmFor = "passed" /\ tmLow' = 0
      /\ tmPend' = (tmPend \/ TmReading >= tmTarget) /\ tmTarget' = 0 /\ TmLeave
      /\ UNCHANGED <<tmReal, tmUif, tmCc1if, tmCc1ie, tmCcr1, tmInitialized, tmEpoch,
                     tmArmed, tmDue>>
  BY Zenon DEF TmReturnPassed, TmReturn, TmPassed, tmSoftware
<1>2. TmTypeOK /\ TmCalling /\ TmDeadlines
  BY Zenon DEF TmInvariant
<1>3. tmPc' = "out" /\ tmFor' = "caller" /\ tmStart' = 0 /\ 0 \in Nat
  BY <1>1, Zenon DEF TmLeave
<1>4. /\ tmReal \in Nat /\ tmDue \in Nat /\ TmReading \in Nat /\ tmTarget \in Nat
      /\ tmStart \in Nat
  BY <1>2, TmNumbers, Zenon
<1>5. /\ tmInitialized /\ tmStart <= TmReading /\ TmReading <= tmReal /\ tmCc1ie
      /\ TmProgrammed(tmStart)
  BY <1>1, <1>2, Zenon DEF TmCalling, TmDeadlines
<1>6. tmPend' \in BOOLEAN
  BY <1>1, Zenon
<1>7. TmTypeOK'
  BY <1>1, <1>2, <1>3, <1>6, Zenon DEF TmTypeOK
<1>8. TmEpochs' /\ TmCalling'
  BY <1>1, TmCallEnds, Zenon
<1>9. TmWatched'
  <2>1. CASE TmReading >= tmTarget
    BY <1>1, <2>1, Zenon DEF TmWatched
  <2>2. CASE ~(TmReading >= tmTarget)
    <3>1. ~(tmTarget <= tmStart)
      BY <1>4, <1>5, <2>2
    <3>2. tmCcr1 = tmTarget % TmPeriod /\ tmTarget <= tmDue /\ (tmCc1if \/ tmReal < tmTarget)
      BY <1>5, <3>1, Zenon DEF TmProgrammed
    <3>3. tmReal < tmTarget => tmTarget \in tmReal + 1 .. tmDue
      BY <1>4, <3>2
    <3>4. tmCc1if \/ TmAhead
      BY <3>2, <3>3, Zenon DEF TmAhead
    <3>5. TmAhead' <=> TmAhead
      BY <1>1, Zenon DEF TmAhead
    <3> QED
      BY <1>1, <1>5, <3>4, <3>5, Zenon DEF TmWatched
  <2> QED
    BY <2>1, <2>2, Zenon
<1>10. TmDeadlines'
  BY <1>1, <1>3, <1>5, <1>9, Zenon DEF TmDeadlines
<1> QED
  BY <1>7, <1>8, <1>10, Zenon DEF TmInvariant

LEMMA TmReturnInterruptKeeps ==
  ASSUME TmInvariant, TmReturnInterrupt
  PROVE  TmInvariant'
<1>1. /\ tmPc = "result" /\ tmLow' = 0 /\ tmCc1if' = FALSE
      /\ UNCHANGED <<tmReal, tmUif, tmCcr1, tmPend, tmInitialized, tmEpoch, tmTarget>>
  BY Zenon DEF TmReturnInterrupt, TmReturn, TmProgram
<1>2. TmTypeOK /\ TmCalling /\ TmDeadlines
  BY Zenon DEF TmInvariant
<1>3. tmInitialized /\ tmReal \in Nat /\ 0 \in Nat /\ 1000 \in Nat
  <2>1. tmInitialized
    BY <1>1, <1>2, Zenon DEF TmCalling
  <2> QED
    BY <1>2, <2>1, TmNumbers
<1>4. CASE tmArmed /\ TmReading < tmDue
  <2>1. tmCc1ie' = FALSE /\ TmCallNow("current") /\ UNCHANGED <<tmArmed, tmDue>>
    BY <1>4, Zenon DEF TmReturnInterrupt, TmProgram
  <2>2. tmPc' = "low" /\ tmFor' = "current" /\ tmStart' = tmReal
    BY <2>1, Zenon DEF TmCallNow
  <2>3. TmTypeOK'
    BY <1>1, <1>2, <1>3, <2>1, <2>2, Zenon DEF TmTypeOK
  <2>4. TmEpochs' /\ TmCalling'
    BY <1>1, <1>3, <2>1, TmCallBegins
  <2>5. TmDeadlines'
    BY <1>1, <1>3, <2>2 DEF TmDeadlines
  <2> QED
    BY <2>3, <2>4, <2>5, Zenon DEF TmInvariant
<1>5. CASE ~(tmArmed /\ TmReading < tmDue)
  <2>1. /\ tmCc1ie' = (tmCc1ie /\ ~tmArmed) /\ tmArmed' = FALSE /\ TmLeave
        /\ tmDue' = IF tmArmed THEN 1000 ELSE tmDue
    BY <1>5, Zenon DEF TmReturnInterrupt, TmForever
  <2>2. /\ tmPc' = "out" /\ tmFor' = "caller" /\ tmStart' = 0
    BY <2>1, Zenon DEF TmLeave
  <2>3. tmCc1ie' \in BOOLEAN /\ tmDue' \in Nat
    <3>1. tmDue \in Nat
      BY <1>2, TmNumbers, Zenon
    <3>2. tmCc1ie' \in BOOLEAN
      BY <2>1, Zenon
    <3>3. tmDue' = 1000 \/ tmDue' = tmDue
      BY <2>1, Zenon
    <3>4. tmDue' \in Nat
      BY <3>1, <3>3
    <3> QED
      BY <3>2, <3>4, Zenon
  <2>4. TmTypeOK'
    BY <1>1, <1>2, <1>3, <2>1, <2>2, <2>3, Zenon DEF TmTypeOK
  <2>5. TmEpochs' /\ TmCalling'
    BY <1>1, <2>1, TmCallEnds, Zenon
  <2>6. TmDeadlines'
    BY <2>1, <2>2, Zenon DEF TmDeadlines
  <2> QED
    BY <2>4, <2>5, <2>6, Zenon DEF TmInvariant
<1> QED
  BY <1>4, <1>5, Zenon

LEMMA TmStutterKeeps ==
  ASSUME TmInvariant, UNCHANGED tmVars
  PROVE  TmInvariant'
<1>1. UNCHANGED <<tmReal, tmUif, tmCc1if, tmCc1ie, tmCcr1, tmPend, tmInitialized, tmEpoch,
                  tmArmed, tmDue, tmPc, tmFor, tmLow, tmTarget, tmStart>>
  BY Zenon DEF tmVars, tmHardware, tmSoftware, tmLocal
<1>2. TmTypeOK'
  BY <1>1, Zenon DEF TmTypeOK, TmInvariant
<1>3. TmEpochs' <=> TmEpochs
  BY <1>1, Zenon DEF TmEpochs
<1>4. TmCalling' <=> TmCalling
  BY <1>1, Zenon DEF TmCalling, TmReading
<1>5. TmWatched' <=> TmWatched
  BY <1>1, Zenon DEF TmWatched, TmAhead
<1>6. TmDeadlines' <=> TmDeadlines
  <2>1. TmProgrammed(tmReal)' <=> TmProgrammed(tmReal)
    BY <1>1, Zenon DEF TmProgrammed
  <2>2. TmProgrammed(tmStart)' <=> TmProgrammed(tmStart)
    BY <1>1, Zenon DEF TmProgrammed
  <2> QED
    BY <1>1, <1>5, <2>1, <2>2, Zenon DEF TmDeadlines
<1> QED
  BY <1>2, <1>3, <1>4, <1>6, Zenon DEF TmInvariant

LEMMA TmStepKeeps ==
  ASSUME TmInvariant, [TmNext]_tmVars
  PROVE  TmInvariant'
<1>1. CASE TmNext
  BY <1>1, TmTickKeeps, TmInterruptKeeps, TmNowKeeps, TmReturnCallerKeeps,
     TmReturnDueKeeps, TmReturnCurrentKeeps, TmEnableKeeps, TmReturnPassedKeeps,
     TmReturnInterruptKeeps, TmStartKeeps, TmReadKeeps, TmDisarmKeeps, TmQuiesceKeeps,
     TmArmKeeps, Zenon DEF TmNext, TmStep
<1>2. CASE UNCHANGED tmVars
  BY <1>2, TmStutterKeeps, Zenon
<1> QED
  BY <1>1, <1>2, Zenon

LEMMA TmReturnsTrue ==
  ASSUME TmInvariant, NEW for, TmReturn(for)
  PROVE  TmReading \in tmStart .. tmReal
<1>1. tmStart <= TmReading /\ TmReading <= tmReal
  BY Zenon DEF TmReturn, TmInvariant, TmCalling
<1>2. tmStart \in Nat /\ tmReal \in Nat /\ TmReading \in Nat
  BY TmNumbers, Zenon DEF TmInvariant
<1> QED
  BY <1>1, <1>2

LEMMA TmInvariantCovers ==
  ASSUME TmInvariant
  PROVE  TmTypeOK /\ TmCovered
<1>1. TmTypeOK /\ TmCalling /\ TmDeadlines
  BY Zenon DEF TmInvariant
<1>2. ASSUME tmInitialized, tmArmed, tmPc = "out", ~TmPending
      PROVE  tmCc1ie /\ TmAhead
  <2>1. TmWatched
    BY <1>1, <1>2, Zenon DEF TmCalling, TmDeadlines
  <2> QED
    BY <1>2, <2>1, Zenon DEF TmWatched, TmPending
<1> QED
  BY <1>1, <1>2, Zenon DEF TmCovered, TmAhead

\* Stm32Tim2 for every period, latency and set of delays: every value now() returns
\* was the true time at some moment of the call, wherever a rollover falls between
\* its register accesses, and whenever neither arm() nor interrupt() is under way an
\* armed callback has its interrupt pending or a compare match ahead of it, not later
\* than its deadline.
THEOREM Tim2KeepsTime == TmSpec => TmKeepsTime
<1>1. TmInit => TmInvariant
  BY TmInitially, Zenon
<1>2. TmInvariant /\ [TmNext]_tmVars => TmInvariant'
  BY TmStepKeeps, Zenon
<1>3. TmInvariant => TmTypeOK /\ TmCovered
  BY TmInvariantCovers, Zenon
<1>4. TmInvariant /\ [TmNext]_tmVars =>
        [\A for \in {"caller", "due", "current", "passed", "interrupt"} :
          TmReturn(for) => TmReading \in tmStart .. tmReal]_tmVars
  BY TmReturnsTrue, Zenon
<1> QED
  BY <1>1, <1>2, <1>3, <1>4, PTL DEF TmSpec, TmKeepsTime, TmTrueTime

(***************************************************************************)
(* Flash: the controller has one owner (FdExclusive) and what the driver   *)
(* reports is true of the flash (FdHonest).                                *)
(***************************************************************************)
USE DEF FdAll, FdOtpWord

\* While nobody owns the controller a load returns what the flash holds.
LEMMA LoadsFlash ==
  ASSUME FdTypeOK, FdCoherent, fdOwner = "none", NEW w \in FdAll
  PROVE  FdLoaded(w) = fdCells[w] /\ (FdFails(w) <=> fdCells[w] = "bad")
<1>1. w # FdOtpWord
  BY FdAssumption
<1>2. fdCache[w] = "none" \/ fdCache[w] = fdCells[w]
  BY Zenon DEF FdCoherent
<1>3. fdCache[w] # "bad"
  BY Zenon DEF FdTypeOK
<1> QED
  BY <1>1, <1>2, <1>3, Zenon DEF FdLoaded, FdFails

\* What a load returns has the type of a byte.
LEMMA LoadedType ==
  ASSUME FdTypeOK, NEW w \in 0..FdWords
  PROVE  FdLoaded(w) \in FdBytes
<1>1. CASE w = FdOtpWord
  BY <1>1, Zenon DEF FdLoaded, FdBytes
<1>2. CASE w # FdOtpWord
  <2>1. w \in FdAll
    BY <1>2, FdAssumption
  <2> QED
    BY <1>2, <2>1, Zenon DEF FdLoaded, FdTypeOK, FdValues, FdBytes
<1> QED
  BY <1>1, <1>2, Zenon

\* The cache after a word was loaded: still of its type, and no new difference
\* from the flash unless the word was one of an unfinished operation; what
\* loads return and which fail is the same as before.
LEMMA FilledCache ==
  ASSUME FdTypeOK, FdCoherent, NEW w \in 0..FdWords,
         fdCache' = FdFilled(w), fdCells' = fdCells, fdOtp' = fdOtp
  PROVE  /\ fdCache' \in [FdAll -> {"none", "erased", "data"}]
         /\ \A v \in FdAll : fdCache'[v] # "none" /\ fdCache'[v] # fdCells[v]
                             => fdCache[v] # "none" /\ fdCache[v] # fdCells[v]
         /\ \A v \in 0..FdWords : FdLoaded(v)' = FdLoaded(v) /\ (FdFails(v)' <=> FdFails(v))
<1>1. CASE w = FdOtpWord \/ FdFails(w)
  BY <1>1, Zenon DEF FdFilled, FdTypeOK, FdLoaded, FdFails
<1>2. CASE ~(w = FdOtpWord \/ FdFails(w))
  <2>1. w \in FdAll /\ w # FdOtpWord
    BY <1>2, FdAssumption
  <2>2. FdLoaded(w) \in {"erased", "data"}
    BY <1>2, <2>1, Zenon DEF FdLoaded, FdFails, FdTypeOK, FdValues
  <2>3. fdCache' = [fdCache EXCEPT ![w] = FdLoaded(w)]
    BY <1>2, Zenon DEF FdFilled
  <2>4. fdCache' \in [FdAll -> {"none", "erased", "data"}]
    BY <2>1, <2>2, <2>3, Zenon DEF FdTypeOK
  <2>5. FdLoaded(w) = fdCache[w] \/ (fdCache[w] = "none" /\ FdLoaded(w) = fdCells[w])
    BY <2>1, Zenon DEF FdLoaded
  <2>6. \A v \in FdAll : fdCache'[v] = IF v = w THEN FdLoaded(w) ELSE fdCache[v]
    BY <2>3, <2>1, Zenon DEF FdTypeOK
  <2>7. \A v \in FdAll : fdCache'[v] # "none" /\ fdCache'[v] # fdCells[v]
                         => fdCache[v] # "none" /\ fdCache[v] # fdCells[v]
    BY <2>5, <2>6, <2>2, Zenon
  <2>8. \A v \in 0..FdWords : FdLoaded(v)' = FdLoaded(v)
    BY <2>6, <2>5, <2>2, FdAssumption DEF FdLoaded
  <2> QED
    BY <2>4, <2>7, <2>8, Zenon DEF FdFails
<1> QED
  BY <1>1, <1>2, Zenon

\* The driver at rest.
LEMMA NoReadType == FdNoRead \in FdReads
<1>1. [w \in 0..FdWords |-> "none"] \in [0..FdWords -> FdBytes]
  BY Zenon DEF FdBytes
<1> QED
  BY <1>1, FdAssumption DEF FdNoRead, FdReads, FdBytes

\* After a reset the driver starts inside the invariant.
LEMMA FdInitInvariant == FdInit => FdInvariant
<1> SUFFICES ASSUME FdInit PROVE FdInvariant
  BY Zenon
<1> USE FdAssumption
<1>1. FdTypeOK
  <2>1. FdNoRead \in FdReads
    BY NoReadType, Zenon
  <2>2. fdTarget \in [kind : {"none", "erase", "program"}, word : FdAll]
    BY DEF FdInit
  <2>3. fdOtp \in FdOtpValues /\ fdChip \in {"h5", "h7"}
    BY Zenon DEF FdInit, FdOtpValues
  <2>4. fdRead \in FdReads /\ fdEcc \in -1..FdWords
    BY <2>1 DEF FdInit
  <2>5. /\ fdCells \in [FdAll -> FdValues] /\ fdCache \in [FdAll -> {"none", "erased", "data"}]
        /\ fdPending \in [FdUsers -> BOOLEAN] /\ fdOwner \in FdUsers \cup {"none"}
        /\ fdOp \in BOOLEAN /\ fdErrors \in BOOLEAN
    BY Zenon DEF FdInit
  <2> QED
    BY <2>2, <2>3, <2>4, <2>5, Zenon DEF FdTypeOK
<1>2. FdExclusive /\ FdCoherent /\ FdEffective /\ FdGuarded /\ FdAtRest /\ FdHonest
  BY Zenon
     DEF FdInit, FdExclusive, FdCoherent, FdEffective, FdGuarded, FdAtRest, FdHonest,
         FdNoRead, FdNoReply
<1> QED
  BY <1>1, <1>2, Zenon DEF FdInvariant

\* Erase and Program.
LEMMA BeginKeeps ==
  ASSUME FdInvariant, NEW u \in FdUsers, NEW kind \in {"erase", "program"}, NEW w \in FdAll,
         FdBegin(u, kind, w)
  PROVE  FdInvariant'
<1> USE DEF FdInvariant
<1>1. fdOwner = "none" /\ fdOwner' = u /\ u # "none" /\ fdOp' = TRUE /\ fdRead.region = "none"
  BY FdAssumption, Zenon DEF FdBegin, FdUnlock, FdFree
<1>2. FdTypeOK'
  BY Zenon DEF FdBegin, FdTypeOK
<1>3. FdExclusive'
  <2>1. \A v \in FdUsers : ~fdPending[v]
    BY <1>1, FdAssumption, Zenon DEF FdExclusive
  <2>2. \A v \in FdUsers : fdPending'[v] = IF v = u THEN TRUE ELSE fdPending[v]
    BY Zenon DEF FdBegin, FdTypeOK
  <2>3. \A v \in FdUsers : fdPending'[v] <=> v = u
    BY <2>1, <2>2, Zenon
  <2> QED
    BY <1>1, <2>3, Zenon DEF FdExclusive
<1>4. FdCoherent'
  <2>1. \A v \in FdAll : fdCache[v] = "none" \/ fdCache[v] = fdCells[v]
    BY <1>1, Zenon DEF FdCoherent
  <2> QED
    BY <2>1, Zenon DEF FdBegin, FdCoherent
<1>5. FdEffective' /\ FdGuarded'
  BY <1>1, Zenon DEF FdBegin, FdEffective, FdGuarded
<1>6. FdAtRest' /\ FdHonest'
  BY Zenon DEF FdBegin, FdAtRest, FdHonest, FdNoReply
<1> QED
  BY <1>2, <1>3, <1>4, <1>5, <1>6, Zenon

\* The hardware finishes.
LEMMA DoneKeeps ==
  ASSUME FdInvariant, FdDone
  PROVE  FdInvariant'
<1> USE DEF FdInvariant
<1>1. fdOp /\ fdOwner # "none" /\ fdOwner' = fdOwner /\ fdOp' = FALSE
  BY Zenon DEF FdDone, FdExclusive, FdTypeOK
<1>2. fdRead.region = "none" /\ fdReply.call = "none"
  BY <1>1, Zenon DEF FdGuarded, FdAtRest
<1>3. \A w \in FdAll : w \notin FdWritten => fdCells'[w] = fdCells[w]
  BY Zenon DEF FdDone, FdTypeOK
<1>4. fdCells' \in [FdAll -> FdValues] /\ fdErrors' \in BOOLEAN
  BY Zenon DEF FdDone, FdTypeOK, FdValues
<1>5. FdTypeOK'
  BY <1>4, Zenon DEF FdDone, FdTypeOK
<1>6. FdExclusive'
  BY <1>1, Zenon DEF FdDone, FdExclusive
<1>7. FdWritten' = FdWritten /\ \A w : FdErased(w)' = FdErased(w)
  BY Zenon DEF FdDone, FdWritten, FdErased
<1>8. FdCoherent'
  <2> SUFFICES ASSUME NEW w \in FdAll, fdCache'[w] # "none", fdCache'[w] # fdCells'[w]
               PROVE  w \in FdWritten
    BY <1>1, <1>7, Zenon DEF FdCoherent
  <2> QED
    BY <1>3, Zenon DEF FdCoherent, FdDone
<1>9. FdEffective'
  <2> SUFFICES ASSUME ~fdErrors'
               PROVE  (IF fdTarget.kind = "erase"
                       THEN \A w \in FdErased(fdTarget.word) : fdCells'[w] = "erased"
                       ELSE fdCells'[fdTarget.word] = "data")
    BY <1>7, Zenon DEF FdEffective, FdDone
  <2>1. \A w \in FdWritten : w \in FdAll
    BY Zenon DEF FdWritten, FdErased, FdTypeOK
  <2>2. fdCells' = [w \in FdAll |-> IF w \in FdWritten
                      THEN (IF fdTarget.kind = "erase" THEN "erased" ELSE "data") ELSE fdCells[w]]
    BY Zenon DEF FdDone
  <2> QED
    BY <2>1, <2>2, Zenon DEF FdWritten
<1>10. FdGuarded' /\ FdAtRest' /\ FdHonest'
  BY <1>1, <1>2, Zenon DEF FdDone, FdGuarded, FdAtRest, FdHonest
<1> QED
  BY <1>5, <1>6, <1>8, <1>9, <1>10, Zenon

\* Poll sees the end of the operation.
LEMMA PollKeeps ==
  ASSUME FdInvariant, NEW u \in FdUsers, FdPoll(u)
  PROVE  FdInvariant'
<1> USE DEF FdInvariant
<1>1. fdOwner = u /\ fdOwner' = "none" /\ u # "none" /\ ~fdOp /\ fdRead.region = "none"
  BY FdAssumption, Zenon DEF FdPoll, FdExclusive, FdFree
<1>2. fdCache' = FdInvalidated
  BY Zenon DEF FdPoll
<1>3. fdCache' \in [FdAll -> {"none", "erased", "data"}]
  BY <1>2, Zenon DEF FdInvalidated, FdTypeOK
<1>4. FdTypeOK'
  BY <1>3, <1>1, Zenon DEF FdPoll, FdTypeOK
<1>5. FdExclusive'
  BY <1>1, FdAssumption, Zenon DEF FdPoll, FdExclusive, FdTypeOK
<1>6. FdCoherent'
  <2>1. \A w \in FdAll : fdCache'[w] # "none" => w \notin FdWritten /\ fdCache'[w] = fdCache[w]
    BY <1>2, Zenon DEF FdInvalidated
  <2> QED
    BY <2>1, Zenon DEF FdPoll, FdCoherent
<1>7. FdEffective' /\ FdGuarded'
  BY <1>1, Zenon DEF FdPoll, FdEffective, FdGuarded
<1>8. FdAtRest'
  BY <1>1, Zenon DEF FdPoll, FdAtRest
<1>9. FdHonest'
  <2>1. PICK status \in {"ok", "io_error", "timeout"} :
          /\ fdReply' = [call |-> "poll", status |-> status, kind |-> fdTarget.kind, word |-> fdTarget.word]
          /\ status = "ok" => ~fdErrors
    BY Zenon DEF FdPoll
  <2>2. fdReply'.call = "poll" /\ fdReply'.status = status /\ fdReply'.kind = fdTarget.kind
        /\ fdReply'.word = fdTarget.word
    BY <2>1, Zenon
  <2>3. status = "ok" => IF fdTarget.kind = "erase"
                         THEN \A w \in FdErased(fdTarget.word) : fdCells[w] = "erased"
                         ELSE fdCells[fdTarget.word] = "data"
    BY <1>1, <2>1, Zenon DEF FdEffective
  <2>4. fdCells' = fdCells /\ \A w : FdErased(w)' = FdErased(w)
    BY Zenon DEF FdPoll, FdErased
  <2> QED
    BY <2>2, <2>3, <2>4, Zenon DEF FdHonest
<1> QED
  BY <1>4, <1>5, <1>6, <1>7, <1>8, <1>9, Zenon

\* A read begins.
LEMMA ReadStartKeeps ==
  ASSUME FdInvariant, NEW region \in {"flash", "otp"}, NEW from \in 0..FdWords,
         NEW end \in 1..(FdWords + 1), from < end,
         region = "flash" => end <= FdWords,
         region = "otp" => from = FdOtpWord /\ fdChip = "h5",
         FdReadStart(region, from, end)
  PROVE  FdInvariant'
<1> USE DEF FdInvariant
<1>1. fdOwner = "none" /\ ~fdOp
  BY Zenon DEF FdReadStart, FdMayRead
<1>2. fdRead' = [region |-> region, from |-> from, end |-> end, at |-> from, error |-> FALSE,
                 failed |-> "none", bytes |-> [w \in 0..FdWords |-> "none"]]
  BY Zenon DEF FdReadStart, FdNoRead
<1>3. FdTypeOK'
  <2>1. [w \in 0..FdWords |-> "none"] \in [0..FdWords -> FdBytes]
    BY Zenon DEF FdBytes
  <2>2. fdRead' \in FdReads
    BY <1>2, <2>1, FdAssumption DEF FdReads, FdBytes
  <2>3. fdEcc' \in -1..FdWords
    BY FdAssumption DEF FdReadStart
  <2> QED
    BY <2>2, <2>3, Zenon DEF FdReadStart, FdTypeOK
<1>4. FdExclusive' /\ FdCoherent' /\ FdEffective'
  BY <1>1, Zenon DEF FdReadStart, FdExclusive, FdCoherent, FdEffective
<1>5. FdGuarded'
  <2>1. fdEcc' = -1 /\ fdOwner' = "none" /\ fdChip' = fdChip
    BY <1>1, Zenon DEF FdReadStart
  <2> QED
    BY <1>2, <2>1, FdAssumption DEF FdGuarded
<1>6. FdAtRest' /\ FdHonest'
  BY Zenon DEF FdReadStart, FdAtRest, FdHonest, FdNoReply
<1> QED
  BY <1>3, <1>4, <1>5, <1>6, Zenon

\* One word is copied.
LEMMA LoadKeeps ==
  ASSUME FdInvariant, FdLoad
  PROVE  FdInvariant'
<1> USE DEF FdInvariant
<1> DEFINE w == fdRead.at
<1>1. fdRead.region # "none" /\ w < fdRead.end /\ fdRead \in FdReads /\ fdOwner = "none"
  BY Zenon DEF FdLoad, FdGuarded, FdTypeOK
<1>2. /\ fdRead.region \in {"flash", "otp"} /\ fdRead.from \in 0..FdWords
      /\ fdRead.end \in 0..(FdWords + 1) /\ w \in 0..FdWords
      /\ fdRead.error \in BOOLEAN /\ fdRead.failed \in FdBytes
      /\ fdRead.bytes \in [0..FdWords -> FdBytes]
  BY <1>1, FdAssumption DEF FdReads
<1>3. fdRead' = [region |-> fdRead.region, from |-> fdRead.from, end |-> fdRead.end, at |-> w + 1,
                 error |-> (fdRead.error \/ (fdChip = "h7" /\ FdFails(w))), failed |-> fdRead.failed,
                 bytes |-> [fdRead.bytes EXCEPT ![w] = FdLoaded(w)]]
  BY <1>1, Zenon DEF FdLoad, FdReads
<1>4. fdCache' = FdFilled(w) /\ fdCells' = fdCells /\ fdOtp' = fdOtp /\ fdOwner' = fdOwner
      /\ fdTarget' = fdTarget /\ fdChip' = fdChip /\ fdReply' = fdReply /\ fdOp' = fdOp
  BY Zenon DEF FdLoad
<1>5. /\ fdCache' \in [FdAll -> {"none", "erased", "data"}]
      /\ \A v \in FdAll : fdCache'[v] # "none" /\ fdCache'[v] # fdCells[v]
                          => fdCache[v] # "none" /\ fdCache[v] # fdCells[v]
      /\ \A v \in 0..FdWords : FdLoaded(v)' = FdLoaded(v) /\ (FdFails(v)' <=> FdFails(v))
  BY <1>2, <1>4, FilledCache, Zenon
<1>6. fdEcc' = (IF fdChip = "h5" THEN FdLatched(w) ELSE fdEcc) /\ fdEcc' \in -1..FdWords
  BY <1>2 DEF FdLoad, FdLatched, FdTypeOK
<1>7. FdTypeOK'
  <2>1. fdRead' \in FdReads
    <3>1. [fdRead.bytes EXCEPT ![w] = FdLoaded(w)] \in [0..FdWords -> FdBytes]
      BY <1>2, LoadedType, Zenon
    <3>2. (fdRead.error \/ (fdChip = "h7" /\ FdFails(w))) \in BOOLEAN
      BY Zenon
    <3>3. w + 1 \in 0..(FdWords + 1)
      BY <1>2, FdAssumption
    <3> QED
      BY <1>2, <1>3, <3>1, <3>2, <3>3, Zenon DEF FdReads
  <2> QED
    BY <1>5, <1>6, <2>1, Zenon DEF FdLoad, FdTypeOK
<1>8. FdExclusive' /\ FdEffective' /\ FdAtRest' /\ FdHonest'
  BY Zenon DEF FdLoad, FdExclusive, FdEffective, FdAtRest, FdHonest, FdErased
<1>9. FdCoherent'
  BY <1>4, <1>5, <1>1, Zenon DEF FdCoherent
<1>10. FdGuarded'
  <2>1. /\ fdRead'.region = fdRead.region /\ fdRead'.from = fdRead.from /\ fdRead'.end = fdRead.end
        /\ fdRead'.at = w + 1 /\ fdRead'.failed = fdRead.failed
        /\ fdRead'.error <=> (fdRead.error \/ (fdChip = "h7" /\ FdFails(w)))
        /\ fdRead'.bytes = [fdRead.bytes EXCEPT ![w] = FdLoaded(w)]
    BY <1>3, Zenon
  <2>2. fdRead.from <= w /\ w + 1 <= fdRead.end /\ fdRead.from <= w + 1
    BY <1>1, <1>2 DEF FdGuarded
  <2>3. fdEcc' # -1 => fdEcc' \in 0..FdWords /\ FdFails(fdEcc')
    <3>1. fdEcc # -1 => fdEcc \in 0..FdWords /\ FdFails(fdEcc)
      BY <1>1 DEF FdGuarded, FdTypeOK
    <3> QED
      BY <3>1, <1>6, <1>2, Zenon DEF FdLatched
  <2>4. fdEcc' # -1 => FdFails(fdEcc)'
    BY <2>3, <1>4, <1>5, Zenon DEF FdFails, FdLoaded
  <2>5. ASSUME NEW v \in 0..FdWords, fdRead.from <= v, v < w + 1
        PROVE  /\ fdRead'.bytes[v] = FdLoaded(v)'
               /\ FdFails(v)' => fdRead'.error \/ fdEcc' # -1
    <3>1. CASE v = w
      <4>1. fdRead'.bytes[v] = FdLoaded(v)
        BY <3>1, <2>1, <1>2, Zenon
      <4>2. FdFails(v) => fdRead'.error \/ fdEcc' # -1
        <5>1. CASE fdChip = "h7"
          BY <5>1, <3>1, <2>1, Zenon
        <5>2. CASE fdChip = "h5"
          BY <5>2, <3>1, <1>6, <1>2 DEF FdLatched
        <5> QED
          BY <5>1, <5>2, Zenon DEF FdTypeOK
      <4> QED
        BY <4>1, <4>2, <1>5, Zenon
    <3>2. CASE v # w
      <4>1. v < w
        BY <3>2, <2>5, <1>2
      <4>2. fdRead.bytes[v] = FdLoaded(v) /\ (FdFails(v) => fdRead.error \/ fdEcc # -1)
        BY <4>1, <2>5, <1>1, Zenon DEF FdGuarded
      <4>3. fdRead'.bytes[v] = fdRead.bytes[v]
        BY <3>2, <2>1, <1>2, Zenon
      <4>4. fdEcc # -1 => fdEcc' # -1
        BY <1>6, Zenon DEF FdLatched
      <4> QED
        BY <4>2, <4>3, <4>4, <1>5, <2>1, Zenon
    <3> QED
      BY <3>1, <3>2, Zenon
  <2>6. fdRead'.error => \E v \in 0..FdWords : /\ fdRead.from <= v /\ v < fdRead.end /\ FdFails(v)'
                                               /\ fdRead.region = "otp" => fdRead.failed = FdLoaded(v)'
    <3>1. CASE fdRead.error
      <4>1. PICK v \in 0..FdWords : /\ fdRead.from <= v /\ v < fdRead.end /\ FdFails(v)
                                    /\ fdRead.region = "otp" => fdRead.failed = FdLoaded(v)
        BY <3>1, <1>1, Zenon DEF FdGuarded
      <4> QED
        BY <4>1, <1>5, Zenon
    <3>2. CASE fdChip = "h7" /\ FdFails(w)
      <4>1. fdRead.region # "otp"
        BY <3>2, <1>1, Zenon DEF FdGuarded
      <4> QED
        BY <3>2, <4>1, <1>5, <1>2, <1>1, <2>2, Zenon
    <3> QED
      BY <3>1, <3>2, <2>1, Zenon
  <2>7. /\ fdRead.region = "flash" => fdRead.end <= FdWords
        /\ fdRead.region = "otp" => fdRead.from = FdOtpWord /\ fdChip' = "h5"
        /\ fdRead.from < fdRead.end
    BY <1>1, <1>4, Zenon DEF FdGuarded
  <2> QED
    BY <1>1, <1>4, <2>1, <2>2, <2>4, <2>5, <2>6, <2>7, Zenon DEF FdGuarded
<1> QED
  BY <1>7, <1>8, <1>9, <1>10, Zenon

\* The interrupt.
LEMMA NmiKeeps ==
  ASSUME FdInvariant, FdNmi
  PROVE  FdInvariant'
<1> USE DEF FdInvariant
<1>1. /\ fdCells' = fdCells /\ fdOtp' = fdOtp /\ fdCache' = fdCache /\ fdChip' = fdChip
      /\ fdOwner' = fdOwner /\ fdOp' = fdOp /\ fdErrors' = fdErrors /\ fdTarget' = fdTarget
      /\ fdPending' = fdPending /\ fdReply' = FdNoReply
  BY Zenon DEF FdNmi
<1>2. FdExclusive' /\ FdCoherent' /\ FdEffective'
  BY <1>1, Zenon DEF FdExclusive, FdCoherent, FdEffective, FdWritten, FdErased
<1>3. FdAtRest' /\ FdHonest'
  BY <1>1, Zenon DEF FdAtRest, FdHonest, FdNoReply
<1>4. \A v : FdLoaded(v)' = FdLoaded(v) /\ (FdFails(v)' <=> FdFails(v))
  BY <1>1, Zenon DEF FdLoaded, FdFails
<1>5. CASE ~FdMatches
  <2>1. fdRead' = fdRead /\ fdEcc' = fdEcc
    BY <1>5, Zenon DEF FdNmi
  <2>2. FdTypeOK'
    BY <1>1, <2>1, Zenon DEF FdTypeOK
  <2>3. FdGuarded'
    BY <1>1, <1>4, <2>1, Zenon DEF FdGuarded, FdLoaded, FdFails
  <2> QED
    BY <1>2, <1>3, <2>2, <2>3, Zenon
<1>6. CASE FdMatches
  <2>1. fdRead.region # "none" /\ fdEcc >= fdRead.from /\ fdEcc < fdRead.end /\ fdEcc # -1
    BY <1>6, Zenon DEF FdMatches, FdNmi
  <2>2. fdEcc \in 0..FdWords /\ FdFails(fdEcc)
    BY <2>1 DEF FdTypeOK, FdGuarded
  <2>3. /\ fdRead.region \in {"none", "flash", "otp"} /\ fdRead.from \in 0..FdWords
        /\ fdRead.end \in 0..(FdWords + 1) /\ fdRead.at \in 0..(FdWords + 1)
        /\ fdRead.bytes \in [0..FdWords -> FdBytes]
    BY Zenon DEF FdTypeOK, FdReads
  <2>4. fdRead' = [region |-> fdRead.region, from |-> fdRead.from, end |-> fdRead.end,
                   at |-> fdRead.at, error |-> TRUE, failed |-> FdLoaded(fdEcc),
                   bytes |-> fdRead.bytes]
    BY <1>6, Zenon DEF FdNmi, FdTypeOK, FdReads
  <2>5. fdEcc' = -1
    BY <1>6, Zenon DEF FdNmi
  <2>6. fdRead' \in FdReads
    <3>1. FdLoaded(fdEcc) \in FdBytes
      BY <2>2, LoadedType, Zenon
    <3> QED
      BY <2>3, <2>4, <3>1, Zenon DEF FdReads
  <2>7. FdTypeOK'
    BY <1>1, <2>5, <2>6, FdAssumption DEF FdTypeOK
  <2>8. FdGuarded'
    <3>1. /\ fdRead'.region = fdRead.region /\ fdRead'.from = fdRead.from
          /\ fdRead'.end = fdRead.end /\ fdRead'.at = fdRead.at /\ fdRead'.bytes = fdRead.bytes
          /\ fdRead'.error /\ fdRead'.failed = FdLoaded(fdEcc)
      BY <2>4, Zenon
    <3>2. \E v \in 0..FdWords : /\ fdRead.from <= v /\ v < fdRead.end /\ FdFails(v)'
                                /\ fdRead.region = "otp" => fdRead'.failed = FdLoaded(v)'
      BY <2>1, <2>2, <3>1, <1>4, Zenon
    <3>3. \A v \in 0..FdWords : fdRead.from <= v /\ v < fdRead.at => fdRead.bytes[v] = FdLoaded(v)'
      BY <2>1, <1>4, Zenon DEF FdGuarded
    <3> QED
      BY <1>1, <2>1, <2>5, <3>1, <3>2, <3>3, Zenon DEF FdGuarded
  <2> QED
    BY <1>2, <1>3, <2>7, <2>8, Zenon
<1> QED
  BY <1>5, <1>6, Zenon

\* A read ends.
LEMMA ReadEndKeeps ==
  ASSUME FdInvariant, FdReadEnd
  PROVE  FdInvariant'
<1> USE DEF FdInvariant
<1>1. /\ fdCells' = fdCells /\ fdOtp' = fdOtp /\ fdCache' = fdCache /\ fdChip' = fdChip
      /\ fdOwner' = fdOwner /\ fdOp' = fdOp /\ fdErrors' = fdErrors /\ fdTarget' = fdTarget
      /\ fdPending' = fdPending /\ fdEcc' = fdEcc /\ fdRead' = FdNoRead
  BY Zenon DEF FdReadEnd
<1>2. fdRead.region # "none" /\ fdRead.at = fdRead.end /\ fdEcc = -1 /\ fdOwner = "none"
  BY Zenon DEF FdReadEnd, FdSettled, FdGuarded
<1>3. FdTypeOK'
  BY <1>1, NoReadType, Zenon DEF FdTypeOK
<1>4. FdExclusive' /\ FdCoherent' /\ FdEffective'
  BY <1>1, Zenon DEF FdExclusive, FdCoherent, FdEffective, FdWritten, FdErased
<1>5. FdGuarded'
  BY <1>1, Zenon DEF FdGuarded, FdNoRead
<1>6. FdAtRest'
  BY <1>1, <1>2, Zenon DEF FdAtRest, FdExclusive
<1>7. /\ fdRead.region \in {"flash", "otp"} /\ fdRead.from \in 0..FdWords
      /\ fdRead.end \in 0..(FdWords + 1) /\ fdRead.error \in BOOLEAN
  BY <1>2, Zenon DEF FdTypeOK, FdReads
<1>8. \A w \in 0..FdWords : fdRead.from <= w /\ w < fdRead.end =>
         fdRead.bytes[w] = FdLoaded(w) /\ (FdFails(w) => fdRead.error)
  BY <1>2, Zenon DEF FdGuarded
<1>9. fdRead.error => \E w \in 0..FdWords : /\ fdRead.from <= w /\ w < fdRead.end /\ FdFails(w)
                                            /\ fdRead.region = "otp" => fdRead.failed = FdLoaded(w)
  BY <1>2, Zenon DEF FdGuarded
<1>10. CASE fdRead.region = "flash"
  <2>1. fdReply' = [call |-> "read", status |-> IF fdRead.error THEN "io_error" ELSE "ok",
                    from |-> fdRead.from, end |-> fdRead.end, bytes |-> fdRead.bytes]
    BY <1>10, Zenon DEF FdReadEnd
  <2>2. /\ fdReply'.call = "read" /\ fdReply'.from = fdRead.from /\ fdReply'.end = fdRead.end
        /\ fdReply'.bytes = fdRead.bytes
        /\ fdReply'.status = IF fdRead.error THEN "io_error" ELSE "ok"
    BY <2>1, Zenon
  <2>3. fdRead.end <= FdWords
    BY <1>10, Zenon DEF FdGuarded
  <2>4. \A w \in fdRead.from..(fdRead.end - 1) : w \in FdAll
    BY <1>7, <2>3, FdAssumption
  <2>5. \A w \in FdAll : FdLoaded(w) = fdCells[w] /\ (FdFails(w) <=> fdCells[w] = "bad")
    BY <1>2, LoadsFlash, Zenon
  <2>6. ~fdRead.error => \A w \in fdRead.from..(fdRead.end - 1) :
                            fdRead.bytes[w] = fdCells[w] /\ fdCells[w] # "bad"
    BY <1>7, <1>8, <2>4, <2>5, FdAssumption
  <2>7. fdRead.error => \E w \in fdRead.from..(fdRead.end - 1) : fdCells[w] = "bad"
    BY <1>7, <1>9, <2>4, <2>5, FdAssumption
  <2>8. FdHonest'
    BY <1>1, <2>2, <2>6, <2>7, Zenon DEF FdHonest
  <2> QED
    BY <1>3, <1>4, <1>5, <1>6, <2>8, Zenon
<1>11. CASE fdRead.region = "otp"
  <2>1. fdRead.from = FdOtpWord /\ fdRead.from < fdRead.end /\ fdRead.end = FdOtpWord + 1
    BY <1>11, <1>7, FdAssumption DEF FdGuarded
  <2>2. fdRead.bytes[FdOtpWord] = FdLoaded(FdOtpWord) /\ (FdFails(FdOtpWord) => fdRead.error)
    BY <1>8, <2>1, FdAssumption
  <2>3. fdRead.error => FdFails(FdOtpWord) /\ fdRead.failed = FdLoaded(FdOtpWord)
    BY <1>9, <1>11, <2>1, FdAssumption
  <2>4. FdFails(FdOtpWord) <=> fdOtp \in {"virgin", "torn"}
    BY Zenon DEF FdFails
  <2>5. FdLoaded(FdOtpWord) = IF fdOtp = "virgin" THEN "ones" ELSE "other"
    BY Zenon DEF FdLoaded
  <2>6. FdClass = IF fdOtp \in {"virgin", "programmed"} THEN fdOtp ELSE "unreadable"
    <3>1. fdOtp \in {"virgin", "programmed", "torn", "corrected"}
      BY Zenon DEF FdTypeOK, FdOtpValues
    <3>2. CASE fdOtp = "corrected"
      BY <3>2, Zenon DEF FdClass
    <3>3. CASE fdOtp = "programmed"
      BY <3>3, <2>3, <2>4, Zenon DEF FdClass
    <3>4. CASE fdOtp = "virgin"
      BY <3>4, <2>2, <2>3, <2>4, <2>5, Zenon DEF FdClass
    <3>5. CASE fdOtp = "torn"
      BY <3>5, <2>2, <2>3, <2>4, <2>5, Zenon DEF FdClass
    <3> QED
      BY <3>1, <3>2, <3>3, <3>4, <3>5, Zenon
  <2>7. fdReply' = [call |-> "otp", status |-> FdClass]
    BY <1>11, Zenon DEF FdReadEnd
  <2>8. FdHonest'
    BY <1>1, <2>6, <2>7, Zenon DEF FdHonest
  <2> QED
    BY <1>3, <1>4, <1>5, <1>6, <2>8, Zenon
<1> QED
  BY <1>7, <1>10, <1>11, Zenon

\* Waiting for the interrupt is given up.
LEMMA GivesUpKeeps ==
  ASSUME FdInvariant, FdGivesUp
  PROVE  FdInvariant'
<1> USE DEF FdInvariant
<1>1. FdTypeOK' /\ FdExclusive' /\ FdCoherent' /\ FdEffective'
  BY Zenon
     DEF FdGivesUp, FdTypeOK, FdExclusive, FdCoherent, FdEffective, FdWritten,
         FdErased
<1>2. FdGuarded'
  BY Zenon DEF FdGivesUp, FdGuarded, FdLoaded, FdFails
<1>3. FdAtRest' /\ FdHonest'
  BY Zenon DEF FdGivesUp, FdAtRest, FdHonest, FdNoReply
<1> QED
  BY <1>1, <1>2, <1>3, Zenon

\* Other code reads a word.
LEMMA TouchKeeps ==
  ASSUME FdInvariant, NEW w \in FdAll, FdTouch(w)
  PROVE  FdInvariant'
<1> USE DEF FdInvariant
<1>1. /\ fdCells' = fdCells /\ fdOtp' = fdOtp /\ fdCache' = FdFilled(w) /\ fdChip' = fdChip
      /\ fdOwner' = fdOwner /\ fdOp' = fdOp /\ fdErrors' = fdErrors /\ fdTarget' = fdTarget
      /\ fdPending' = fdPending /\ fdReply' = FdNoReply /\ fdRead' = fdRead
  BY Zenon DEF FdTouch
<1>2. w \in 0..FdWords
  BY FdAssumption
<1>3. /\ fdCache' \in [FdAll -> {"none", "erased", "data"}]
      /\ \A v \in FdAll : fdCache'[v] # "none" /\ fdCache'[v] # fdCells[v]
                          => fdCache[v] # "none" /\ fdCache[v] # fdCells[v]
      /\ \A v \in 0..FdWords : FdLoaded(v)' = FdLoaded(v) /\ (FdFails(v)' <=> FdFails(v))
  BY <1>1, <1>2, FilledCache, Zenon
<1>4. fdEcc' \in {fdEcc, FdLatched(w)}
  BY Zenon DEF FdTouch
<1>5. fdEcc' \in -1..FdWords
  BY <1>2, <1>4 DEF FdLatched, FdTypeOK
<1>6. FdTypeOK'
  BY <1>1, <1>3, <1>5, Zenon DEF FdTypeOK
<1>7. FdExclusive' /\ FdEffective'
  BY <1>1, Zenon DEF FdExclusive, FdEffective, FdErased
<1>8. FdCoherent'
  BY <1>1, <1>3, Zenon DEF FdCoherent, FdWritten, FdErased
<1>9. FdAtRest' /\ FdHonest'
  BY <1>1, Zenon DEF FdAtRest, FdHonest, FdNoReply
<1>10. FdGuarded'
  <2> SUFFICES ASSUME fdRead.region # "none" PROVE FdGuarded'
    BY <1>1, Zenon DEF FdGuarded
  <2>1. fdEcc' # -1 => FdFails(fdEcc)'
    <3>1. fdEcc' # -1 => fdEcc' \in 0..FdWords /\ FdFails(fdEcc')
      BY <1>2, <1>4, <1>5 DEF FdLatched, FdGuarded
    <3> QED
      BY <3>1, <1>1, <1>3, Zenon DEF FdFails, FdLoaded
  <2>2. fdEcc # -1 => fdEcc' # -1
    BY <1>4, Zenon DEF FdLatched
  <2>3. \A v \in 0..FdWords : fdRead.from <= v /\ v < fdRead.at =>
           fdRead.bytes[v] = FdLoaded(v)' /\ (FdFails(v)' => fdRead.error \/ fdEcc' # -1)
    BY <1>3, <2>2, Zenon DEF FdGuarded
  <2>4. fdRead.error => \E v \in 0..FdWords : /\ fdRead.from <= v /\ v < fdRead.end /\ FdFails(v)'
                                              /\ fdRead.region = "otp" => fdRead.failed = FdLoaded(v)'
    BY <1>3, Zenon DEF FdGuarded
  <2> QED
    BY <1>1, <2>1, <2>3, <2>4, Zenon DEF FdGuarded
<1> QED
  BY <1>6, <1>7, <1>8, <1>9, <1>10, Zenon

\* Every step of the users, the driver and the controller keeps it.
LEMMA FdStepKeeps == FdInvariant /\ [FdNext]_fdVars => FdInvariant'
<1> SUFFICES ASSUME FdInvariant, [FdNext]_fdVars PROVE FdInvariant'
  BY Zenon
<1>1. CASE UNCHANGED fdVars
  <2> USE DEF fdVars, FdInvariant
  <2>1. FdTypeOK' /\ FdExclusive' /\ FdAtRest'
    BY <1>1, Zenon DEF FdTypeOK, FdExclusive, FdAtRest
  <2>2. FdCoherent' /\ FdEffective'
    BY <1>1, Zenon DEF FdCoherent, FdEffective, FdWritten, FdErased
  <2>3. FdGuarded'
    BY <1>1, Zenon DEF FdGuarded, FdLoaded, FdFails
  <2>4. FdHonest'
    BY <1>1, Zenon DEF FdHonest, FdErased
  <2> QED
    BY <2>1, <2>2, <2>3, <2>4, Zenon
<1>2. ASSUME NEW u \in FdUsers, NEW w \in FdAll, FdErase(u, w) \/ FdProgram(u, w)
      PROVE  FdInvariant'
  BY <1>2, BeginKeeps, Zenon DEF FdErase, FdProgram
<1>3. ASSUME NEW u \in FdUsers, FdPoll(u) PROVE FdInvariant'
  BY <1>3, PollKeeps, Zenon
<1>4. ASSUME NEW from \in FdAll, NEW end \in 1..FdWords, from < end, FdReadStart("flash", from, end)
      PROVE  FdInvariant'
  <2>1. from \in 0..FdWords /\ end \in 1..(FdWords + 1) /\ end <= FdWords
    BY FdAssumption
  <2> QED
    BY <1>4, <2>1, ReadStartKeeps, Zenon
<1>5. CASE FdReadOtp
  <2>1. FdOtpWord \in 0..FdWords /\ FdOtpWord + 1 \in 1..(FdWords + 1) /\ FdOtpWord < FdOtpWord + 1
    BY FdAssumption
  <2> QED
    BY <1>5, <2>1, ReadStartKeeps, Zenon DEF FdReadOtp
<1>6. CASE FdDone \/ FdLoad \/ FdNmi \/ FdReadEnd \/ FdGivesUp
  BY <1>6, DoneKeeps, LoadKeeps, NmiKeeps, ReadEndKeeps, GivesUpKeeps, Zenon
<1>7. ASSUME NEW w \in FdAll, FdTouch(w) PROVE FdInvariant'
  BY <1>7, TouchKeeps, Zenon
<1> QED
  BY <1>1, <1>2, <1>3, <1>4, <1>5, <1>6, <1>7, Zenon DEF FdNext

\* The strengthened invariant holds throughout.
THEOREM FdInvariantHolds == FdSpec => []FdInvariant
<1> QED
  BY FdInitInvariant, FdStepKeeps, PTL DEF FdSpec

\* Unlock, Erase, Program and Poll: the controller is never worked by two Flash
\* objects.
THEOREM FdExclusiveHolds == FdSpec => []FdExclusive
<1>1. FdInvariant => FdExclusive
  BY Zenon DEF FdInvariant
<1> QED
  BY <1>1, FdInvariantHolds, PTL

\* Read, read_otp and Poll: what the driver reports is true of the flash, with
\* stale cache lines and late ECC interrupts, for any number of words.
THEOREM FdHonestHolds == FdSpec => []FdHonest
<1>1. FdInvariant => FdHonest
  BY Zenon DEF FdInvariant
<1> QED
  BY <1>1, FdInvariantHolds, PTL
==============================================================================
