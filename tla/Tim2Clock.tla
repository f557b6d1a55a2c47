------------------------------ MODULE Tim2Clock ------------------------------
(***************************************************************************)
(* The embedded clock and wake-up timer: Stm32Tim2                          *)
(* (platform/detail/stm32_tim2_impl.hpp).  A counter of TmPeriod values     *)
(* (2^32 in the hardware) runs on between any two instructions; now()       *)
(* extends it by the rollovers it has counted, and arm() programs one       *)
(* compare register for a deadline that may be many periods away.           *)
(*                                                                         *)
(* Each register access is a step.  The thread's calls and the interrupt    *)
(* handler mask interrupts, so they exclude each other, but not the         *)
(* counter.  tmReal, the true time since init(), is only compared with what *)
(* the code computes.                                                       *)
(***************************************************************************)
EXTENDS Integers, FiniteSetsExt

CONSTANTS
    TmPeriod,       \* values of the counter
    TmDelays,       \* delays given to arm()
    TmLatency,      \* a rollover is served before the counter gets here
    TmCallTime,     \* longest time one now() takes
    TmMaxTime,      \* bound on the time between two init()s
    TmMaxCalls      \* bound on the calls of the thread

\* A rollover is served, and a reading taken, well within a period.
ASSUME TmAssumption ==
    /\ {TmPeriod, TmLatency, TmCallTime, TmMaxTime} \union TmDelays \subseteq Nat
    /\ TmPeriod >= 2 /\ TmLatency + TmCallTime < TmPeriod

VARIABLES
    tmReal,         \* true time since init(); CNT is this modulo the period
    tmInitialized,  \* initialized_
    tmEpoch,        \* epoch_
    tmUif,          \* SR: update flag
    tmCc1if,        \* SR: compare flag
    tmCc1ie,        \* DIER: compare interrupt enabled
    tmCcr1,         \* CCR1
    tmPend,         \* pended in the NVIC by software
    tmArmed,        \* callback_ is set
    tmDue,          \* due_
    tmPc,           \* next step of the masked code
    tmFor,          \* what the now() under way is for
    tmLow,          \* now(): low
    tmTarget,       \* ProgramCompare(): target
    tmStart,        \* true time when this now() began
    tmCalls         \* calls of the thread so far

tmHardware == <<tmReal, tmUif, tmCc1if, tmCc1ie, tmCcr1, tmPend>>
tmSoftware == <<tmInitialized, tmEpoch, tmArmed, tmDue, tmCalls>>
tmLocal == <<tmPc, tmFor, tmLow, tmTarget, tmStart>>
tmVars == <<tmHardware, tmSoftware, tmLocal>>

-----------------------------------------------------------------------------

TmCnt == tmReal % TmPeriod
\* The longest single compare, 0x7fffffff.
TmHalf == TmPeriod \div 2 - 1
TmForever == 1000

TmTypeOK ==
    /\ tmReal \in 0 .. TmMaxTime /\ tmEpoch \in 0 .. TmMaxTime
    /\ tmInitialized \in BOOLEAN /\ tmUif \in BOOLEAN /\ tmCc1if \in BOOLEAN
    /\ tmCc1ie \in BOOLEAN /\ tmPend \in BOOLEAN /\ tmArmed \in BOOLEAN
    /\ tmCcr1 \in 0 .. TmPeriod - 1
    /\ tmPc \in {"out", "low", "test", "clear", "again", "result", "enable"}
    /\ tmFor \in {"caller", "due", "current", "passed", "interrupt"}
    /\ tmLow \in Nat /\ tmTarget \in Nat /\ tmStart \in Nat /\ tmDue \in Nat

TmInit ==
    /\ tmReal = 0 /\ tmInitialized = FALSE /\ tmEpoch = 0
    /\ tmUif = FALSE /\ tmCc1if = FALSE /\ tmCc1ie = FALSE /\ tmCcr1 = 0
    /\ tmPend = FALSE /\ tmArmed = FALSE /\ tmDue = TmForever
    /\ tmPc = "out" /\ tmFor = "caller" /\ tmLow = 0 /\ tmTarget = 0
    /\ tmStart = 0 /\ tmCalls = 0

-----------------------------------------------------------------------------
\* The hardware.

\* The counter advances.  Interrupts are not masked for anything like a whole
\* period, as now() requires: a rollover is served, and a call returns, in time.
TmTick ==
    /\ tmInitialized /\ tmReal < TmMaxTime
    /\ tmUif => TmCnt < TmLatency
    /\ tmPc # "out" => tmReal - tmStart < TmCallTime
    /\ LET next == (tmReal + 1) % TmPeriod IN
        /\ tmUif' = (tmUif \/ next = 0)
        /\ tmCc1if' = (tmCc1if \/ next = tmCcr1)
    /\ tmReal' = tmReal + 1
    /\ UNCHANGED <<tmCc1ie, tmCcr1, tmPend, tmSoftware, tmLocal>>

\* Is the interrupt line active or pended.
TmPending == tmPend \/ tmUif \/ (tmCc1if /\ tmCc1ie)

-----------------------------------------------------------------------------
\* now(), for a caller named in tmFor.

TmCallNow(for) ==
    /\ tmPc' = "low" /\ tmFor' = for /\ tmStart' = tmReal

TmReadLow ==
    /\ tmPc = "low"
    /\ tmLow' = TmCnt /\ tmPc' = "test"
    /\ UNCHANGED <<tmHardware, tmSoftware, tmFor, tmTarget, tmStart>>

TmTestRollover ==
    /\ tmPc = "test"
    /\ tmPc' = IF tmUif THEN "clear" ELSE "result"
    /\ UNCHANGED <<tmHardware, tmSoftware, tmFor, tmLow, tmTarget, tmStart>>

TmCountRollover ==
    /\ tmPc = "clear"
    /\ tmUif' = FALSE /\ tmEpoch' = tmEpoch + TmPeriod /\ tmPc' = "again"
    /\ UNCHANGED <<tmReal, tmCc1if, tmCc1ie, tmCcr1, tmPend, tmInitialized, tmArmed,
                   tmDue, tmCalls, tmFor, tmLow, tmTarget, tmStart>>

\* Mutant: the low word read before the rollover is kept.
TmLowAgainKept == tmLow

\* The counter, sampled again after a rollover.
TmLowAgain == TmCnt

TmReadAgain ==
    /\ tmPc = "again"
    /\ tmLow' = TmLowAgain /\ tmPc' = "result"
    /\ UNCHANGED <<tmHardware, tmSoftware, tmFor, tmTarget, tmStart>>

TmReading == tmEpoch + tmLow

-----------------------------------------------------------------------------
\* The callers.

\* init().
TmStartTimer ==
    /\ tmPc = "out" /\ ~tmInitialized /\ tmCalls < TmMaxCalls
    /\ tmCalls' = tmCalls + 1
    /\ tmReal' = 0 /\ tmUif' = FALSE /\ tmCc1if' = FALSE /\ tmCc1ie' = FALSE
    /\ tmEpoch' = 0 /\ tmInitialized' = TRUE /\ tmPend' = FALSE
    /\ UNCHANGED <<tmCcr1, tmArmed, tmDue, tmLocal>>

\* A thread reads the clock.
TmRead ==
    /\ tmPc = "out" /\ tmInitialized /\ tmCalls < TmMaxCalls
    /\ tmCalls' = tmCalls + 1
    /\ TmCallNow("caller")
    /\ UNCHANGED <<tmHardware, tmInitialized, tmEpoch, tmArmed, tmDue, tmLow,
                   tmTarget>>

\* arm(), up to its reading of the clock: tmDue holds the delay until then.
TmArm(delay) ==
    /\ tmPc = "out" /\ tmInitialized /\ tmCalls < TmMaxCalls
    /\ tmReal + delay + TmPeriod < TmMaxTime
    /\ tmCalls' = tmCalls + 1
    /\ tmArmed' = TRUE /\ tmDue' = delay
    /\ TmCallNow("due")
    /\ UNCHANGED <<tmHardware, tmInitialized, tmEpoch, tmLow, tmTarget>>

\* disarm(), from a thread.
TmDisarm ==
    /\ tmPc = "out" /\ tmInitialized /\ tmCalls < TmMaxCalls
    /\ tmCalls' = tmCalls + 1
    /\ tmCc1ie' = FALSE /\ tmCc1if' = FALSE
    /\ tmArmed' = FALSE /\ tmDue' = TmForever
    /\ UNCHANGED <<tmReal, tmUif, tmCcr1, tmPend, tmInitialized, tmEpoch, tmLocal>>

\* quiesce().
TmQuiesce ==
    /\ tmPc = "out" /\ tmInitialized /\ tmCalls < TmMaxCalls
    /\ tmCalls' = tmCalls + 1
    /\ tmCc1ie' = FALSE /\ tmCc1if' = FALSE /\ tmUif' = FALSE /\ tmPend' = FALSE
    /\ tmArmed' = FALSE /\ tmDue' = TmForever /\ tmInitialized' = FALSE
    /\ UNCHANGED <<tmReal, tmCcr1, tmEpoch, tmLocal>>

\* interrupt() is entered: nobody masks it, and its pending bit is taken.
TmInterrupt ==
    /\ tmPc = "out" /\ tmInitialized /\ TmPending
    /\ tmPend' = FALSE
    /\ TmCallNow("interrupt")
    /\ UNCHANGED <<tmReal, tmUif, tmCc1if, tmCc1ie, tmCcr1, tmSoftware, tmLow,
                   tmTarget>>

\* ProgramCompare(), up to its reading of the clock.
TmProgram ==
    /\ tmCc1ie' = FALSE /\ tmCc1if' = FALSE
    /\ TmCallNow("current")

\* Leaving the masked code.
TmLeave == tmPc' = "out" /\ tmFor' = "caller" /\ tmStart' = 0

TmReturn(for) ==
    /\ tmPc = "result" /\ tmFor = for
    /\ tmLow' = 0

TmReturnCaller ==
    /\ TmReturn("caller")
    /\ TmLeave
    /\ UNCHANGED <<tmHardware, tmSoftware, tmTarget>>

\* arm(): due_ = now() + delay.
TmReturnDue ==
    /\ TmReturn("due")
    /\ tmDue' = TmReading + tmDue
    /\ TmProgram
    /\ UNCHANGED <<tmReal, tmUif, tmCcr1, tmPend, tmInitialized, tmEpoch, tmArmed,
                   tmCalls, tmTarget>>

\* The longest compare that can be told from one already past.
TmFarthest(delay) == Min({delay, TmHalf})

\* ProgramCompare(): the compare register is written.
TmReturnCurrent ==
    /\ TmReturn("current")
    /\ LET delay == IF tmDue > TmReading THEN tmDue - TmReading ELSE 0
           target == TmReading + TmFarthest(delay)
       IN  tmTarget' = target /\ tmCcr1' = target % TmPeriod
    /\ tmPc' = "enable"
    /\ UNCHANGED <<tmReal, tmUif, tmCc1if, tmCc1ie, tmPend, tmSoftware, tmFor, tmStart>>

\* ProgramCompare(): the interrupt is enabled, and the clock read once more.
TmEnable ==
    /\ tmPc = "enable"
    /\ tmCc1ie' = TRUE
    /\ TmCallNow("passed")
    /\ UNCHANGED <<tmReal, tmUif, tmCc1if, tmCcr1, tmPend, tmSoftware, tmLow, tmTarget>>

\* Mutant: a compare that passed meanwhile is left to the hardware.
TmPassedIgnored(now) == FALSE

\* The compare passed while it was programmed.
TmPassed(now) == now >= tmTarget

TmReturnPassed ==
    /\ TmReturn("passed")
    /\ tmPend' = (tmPend \/ TmPassed(TmReading))
    /\ tmTarget' = 0
    /\ TmLeave
    /\ UNCHANGED <<tmReal, tmUif, tmCc1if, tmCc1ie, tmCcr1, tmSoftware>>

\* interrupt(): the callback is taken and called, or the compare moved on.
TmReturnInterrupt ==
    /\ TmReturn("interrupt")
    /\ IF tmArmed /\ TmReading < tmDue
       THEN TmProgram /\ UNCHANGED <<tmArmed, tmDue>>
       ELSE /\ tmCc1if' = FALSE
            /\ tmCc1ie' = (tmCc1ie /\ ~tmArmed)
            /\ tmArmed' = FALSE
            /\ tmDue' = IF tmArmed THEN TmForever ELSE tmDue
            /\ TmLeave
    /\ UNCHANGED <<tmReal, tmUif, tmCcr1, tmPend, tmInitialized, tmEpoch, tmCalls,
                   tmTarget>>

TmStep ==
    \/ TmReadLow \/ TmTestRollover \/ TmCountRollover \/ TmReadAgain
    \/ TmReturnCaller \/ TmReturnDue \/ TmReturnCurrent \/ TmEnable
    \/ TmReturnPassed \/ TmReturnInterrupt

TmNext ==
    \/ TmTick \/ TmInterrupt \/ TmStep
    \/ TmStartTimer \/ TmRead \/ TmDisarm \/ TmQuiesce
    \/ \E delay \in TmDelays : TmArm(delay)

TmSpec == TmInit /\ [][TmNext]_tmVars

-----------------------------------------------------------------------------

\* Every value now() returns was the true time at some moment of the call,
\* however rollovers fall between its reads: never a period off, never older
\* than the call.
TmTrueTime ==
    [][\A for \in {"caller", "due", "current", "passed", "interrupt"} :
        TmReturn(for) => TmReading \in tmStart .. tmReal]_tmVars

\* No deadline is lost: outside the masked code an armed callback has an
\* interrupt pending, or a compare that will match by its deadline.
TmCovered ==
    tmInitialized /\ tmArmed /\ tmPc = "out" /\ ~TmPending =>
        /\ tmCc1ie
        /\ \E at \in tmReal + 1 .. tmDue : at % TmPeriod = tmCcr1

\* Time is true and no deadline is lost.
TmKeepsTime == [](TmTypeOK /\ TmCovered) /\ TmTrueTime

==============================================================================
