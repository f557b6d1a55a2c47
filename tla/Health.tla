------------------------------- MODULE Health --------------------------------
(***************************************************************************)
(* Watchdog supervision: HealthModule and watchdog::Controller              *)
(* (lib/watchdog), the confirmation gate, the independent watchdog of the   *)
(* two boards and the failure record in RAM that survives a reset           *)
(* (platform/stm32h5 and stm32h7, reliability.cpp; lib/util/fault.cpp).     *)
(*                                                                         *)
(* Three repeating tasks share the processor: the heartbeat, the check that *)
(* feeds the watchdog, and a task that takes time and may hang.  Time is    *)
(* counted in ticks; a due task is started before time passes, unless one   *)
(* is running.                                                              *)
(***************************************************************************)
EXTENDS Integers, FiniteSets

CONSTANTS
    HlPeriod,       \* period of each task
    HlAllowance,    \* kProgressAllowance
    HlMaxAge,       \* kHeartbeatMaxAge
    HlTimeout,      \* kWatchdogTimeout
    HlEarly,        \* early warning of the H563, this long before the reset
    HlDelay,        \* kConfirmationDelay
    HlMaxTime,      \* bound on the time of one boot
    HlMaxBoots      \* bound on the number of boots

VARIABLES
    hlBoard,        \* "h5" or "h7"
    hlBoot,         \* boots so far
    hlPhase,        \* early, init, run, halted (in the warning handler), reset
    hlTime,         \* platform time
    hlDog,          \* ticks until the watchdog resets; -1: not started
    hlController,   \* Controller: stopped, running, failed
    hlDispatching,  \* dispatching_
    hlBeat,         \* last_heartbeat_
    hlGate,         \* Confirmation: waiting, observing, confirmed, failed
    hlSince,        \* since_
    hlFirst,        \* time at which the tasks were scheduled
    hlCompleted,    \* completed iterations of each task
    hlWork,         \* the working task: idle, running, hung
    hlRecord,       \* the retained record
    hlRecorded,     \* watchdog_failure_recorded of the H563
    hlLate,         \* an iteration was late by more than the allowance
    hlLatched       \* the check that failed in this boot, until cleared

hlTasks == <<hlDispatching, hlBeat, hlGate, hlSince, hlFirst, hlCompleted, hlWork>>
hlFailure == <<hlRecord, hlRecorded, hlLatched>>
hlVars == <<hlBoard, hlBoot, hlPhase, hlTime, hlDog, hlController, hlTasks, hlFailure,
            hlLate>>

-----------------------------------------------------------------------------

HlTasks == {"beat", "check", "work"}
HlNoRecord == [kind |-> "none", check |-> "none"]
HlNone == "none"

HlTypeOK ==
    /\ hlPhase \in {"early", "init", "run", "halted", "reset"}
    /\ hlDog \in -1 .. HlTimeout
    /\ hlController \in {"stopped", "running", "failed"}
    /\ hlGate \in {"waiting", "observing", "confirmed", "failed"}
    /\ hlWork \in {"idle", "running", "hung"}
    /\ hlCompleted \in [HlTasks -> Nat]
    /\ hlRecord.kind \in {"none", "watchdog", "initialization", "fault"}
    /\ hlRecorded \in BOOLEAN

HlInit ==
    /\ hlBoard \in {"h5", "h7"} /\ hlBoot = 1
    /\ hlPhase = "early" /\ hlTime = 0 /\ hlDog = -1
    /\ hlController = "stopped"
    /\ hlDispatching = FALSE /\ hlBeat = 0 /\ hlGate = "waiting" /\ hlSince = 0
    /\ hlFirst = 0 /\ hlCompleted = [t \in HlTasks |-> 0] /\ hlWork = "idle"
    /\ hlRecord = HlNoRecord /\ hlRecorded = FALSE /\ hlLatched = HlNone
    /\ hlLate = FALSE

-----------------------------------------------------------------------------
\* Records and resets.

\* Mutant: the flag of the early warning is not set.
HlRememberNot(kind) == FALSE

\* H563 record_failure(): does the early warning keep this record.
HlRemember(kind) == kind = "watchdog" /\ hlBoard = "h5"

\* record_failure(): the latest failure wins.
HlRecord(kind, check) ==
    /\ hlRecord' = [kind |-> kind, check |-> check]
    /\ hlRecorded' = HlRemember(kind)

HlReset == hlPhase' = "reset"

\* DaveOS_FaultCapture(): an exception in the working task.
HlFault ==
    /\ hlPhase = "run" /\ hlWork = "running"
    /\ hlRecord' = [kind |-> "fault", check |-> "exception"]
    /\ HlReset
    /\ UNCHANGED <<hlBoard, hlBoot, hlTime, hlDog, hlController, hlTasks, hlRecorded,
                   hlLatched, hlLate>>

\* Mutant: the record of any boot is taken up.
HlEnrichedStale == IF hlRecord.kind # "none" THEN hlRecord.check ELSE "early warning"

\* The name the early warning gives its record: that of the health failure
\* recorded in this boot, if it is still there.
HlEnriched == IF hlRecorded /\ hlRecord.kind # "none" THEN hlRecord.check
              ELSE "early warning"

\* IWDG_IRQHandler: the early warning records the interrupted frame and never
\* returns.
HlWarn ==
    /\ hlBoard = "h5" /\ hlPhase \in {"init", "run"} /\ hlDog \in 0 .. HlEarly
    /\ hlRecord' = [kind |-> "watchdog", check |-> HlEnriched]
    /\ hlPhase' = "halted"
    /\ UNCHANGED <<hlBoard, hlBoot, hlTime, hlDog, hlController, hlTasks, hlRecorded,
                   hlLatched, hlLate>>

\* The next boot: RAM is cleared, the record is not.
HlReboot ==
    /\ hlPhase = "reset" /\ hlBoot < HlMaxBoots
    /\ hlBoot' = hlBoot + 1
    /\ hlPhase' = "early" /\ hlTime' = 0 /\ hlDog' = -1
    /\ hlController' = "stopped"
    /\ hlDispatching' = FALSE /\ hlBeat' = 0 /\ hlGate' = "waiting" /\ hlSince' = 0
    /\ hlFirst' = 0 /\ hlCompleted' = [t \in HlTasks |-> 0] /\ hlWork' = "idle"
    /\ hlRecorded' = FALSE /\ hlLatched' = HlNone /\ hlLate' = FALSE
    /\ UNCHANGED <<hlBoard, hlRecord>>

\* initialization_failed(): of a module, of the watchdog, or of confirmation.
HlInitializationFailed ==
    /\ HlRecord("initialization", "initialization")
    /\ HlReset

-----------------------------------------------------------------------------
\* Progress and health.

\* The next deadline of a task: repeating tasks catch up, so each iteration has
\* one.
HlDue(t) == hlFirst + (hlCompleted[t] + 1) * HlPeriod[t]

\* Mutant: deadlines at the cutoff count too.
HlExpectedAtCutoff(t, cutoff) == (cutoff - (hlFirst + HlPeriod[t])) \div HlPeriod[t] + 1

\* check_progress(): iterations due strictly before the cutoff.
HlExpected(t, cutoff) ==
    (cutoff - 1 - (hlFirst + HlPeriod[t])) \div HlPeriod[t] + 1

HlBehind(t) ==
    /\ hlTime > HlAllowance
    /\ LET cutoff == hlTime - HlAllowance IN
        /\ hlFirst + HlPeriod[t] < cutoff
        /\ hlCompleted[t] < HlExpected(t, cutoff)

\* The first check that fails, in the order of checks_; HlNone if all pass.
HlCheckHealth(dispatching, beat) ==
    IF ~dispatching THEN HlNone
    ELSE IF hlTime - beat > HlMaxAge THEN "heartbeat"
    ELSE IF \E t \in HlTasks : HlBehind(t) THEN "progress" ELSE HlNone

-----------------------------------------------------------------------------
\* Starting up.

\* early(): the watchdog is started before anything else; failing to start it
\* latches the controller, and that is terminal.
HlStart ==
    /\ hlPhase = "early" /\ hlController = "stopped"
    /\ \/ /\ hlController' = "running" /\ hlDog' = HlTimeout
          /\ hlPhase' = "init"
          /\ UNCHANGED hlFailure
       \/ /\ hlController' = "failed"
          /\ hlDog' \in {-1, HlTimeout}
          /\ HlInitializationFailed
          /\ hlLatched' = "start"
    /\ UNCHANGED <<hlBoard, hlBoot, hlTime, hlTasks, hlLate>>

\* Modules are initialized, or one of them fails; the tasks are scheduled.
HlInitialize ==
    /\ hlPhase = "init"
    /\ \/ /\ hlBeat' = hlTime /\ hlFirst' = hlTime /\ hlPhase' = "run"
          /\ UNCHANGED hlFailure
       \/ /\ HlInitializationFailed
          /\ UNCHANGED <<hlBeat, hlFirst, hlLatched>>
    /\ UNCHANGED <<hlBoard, hlBoot, hlTime, hlDog, hlController, hlDispatching, hlGate,
                   hlSince, hlCompleted, hlWork, hlLate>>

-----------------------------------------------------------------------------
\* Running.

HlDone(t) == hlCompleted' = [hlCompleted EXCEPT ![t] = @ + 1]
HlMayRun(t) == hlPhase = "run" /\ hlWork = "idle" /\ HlDue(t) <= hlTime

\* Heartbeat().
HlHeartbeat ==
    /\ HlMayRun("beat")
    /\ hlBeat' = hlTime
    /\ HlDone("beat")
    /\ UNCHANGED <<hlBoard, hlBoot, hlPhase, hlTime, hlDog, hlController, hlDispatching,
                   hlGate, hlSince, hlFirst, hlWork, hlFailure, hlLate>>

\* Confirmation::tick(): waiting, observing for the delay, then one attempt.
HlGateTick(healthy, confirmed) ==
    CASE hlGate \in {"waiting", "observing"} /\ ~healthy -> "failed"
      [] hlGate = "waiting" /\ healthy -> "observing"
      [] hlGate = "observing" /\ healthy /\ hlTime - hlSince >= HlDelay ->
            IF confirmed THEN "confirmed" ELSE "failed"
      [] OTHER -> hlGate

\* Mutant: a failed controller recovers with the condition.
HlLatchNot == FALSE

\* A failure is never forgotten before the reset.
HlLatch == hlController = "failed"

\* Check(): the controller's tick, the gate's, and their consequences.
HlCheck ==
    /\ HlMayRun("check")
    /\ hlDispatching' = TRUE
    /\ hlBeat' = IF hlDispatching THEN hlBeat ELSE hlTime
    /\ LET failed == HlCheckHealth(TRUE, hlBeat')
           latched == HlLatch
           healthy == ~latched /\ failed = HlNone
       IN  \E confirmed \in BOOLEAN :
            LET gate == HlGateTick(healthy, confirmed) IN
            /\ hlController' = IF healthy THEN "running" ELSE "failed"
            /\ hlDog' = IF healthy THEN HlTimeout ELSE hlDog
            /\ hlGate' = gate
            /\ hlSince' = IF hlGate = "waiting" /\ healthy THEN hlTime ELSE hlSince
            /\ IF healthy /\ gate = "failed" THEN
                  HlInitializationFailed /\ UNCHANGED <<hlLatched, hlCompleted>>
               ELSE
                  /\ HlDone("check")
                  /\ UNCHANGED hlPhase
                  /\ IF ~latched /\ ~healthy
                     THEN HlRecord("watchdog", failed) /\ hlLatched' = failed
                     ELSE UNCHANGED hlFailure
    /\ UNCHANGED <<hlBoard, hlBoot, hlTime, hlFirst, hlWork, hlLate>>

\* The working task starts, ends, or never ends.
HlBegin ==
    /\ HlMayRun("work")
    /\ \/ hlWork' = "running"
       \/ hlWork' = "hung" /\ hlTime + HlTimeout < HlMaxTime
    /\ UNCHANGED <<hlBoard, hlBoot, hlPhase, hlTime, hlDog, hlController, hlDispatching,
                   hlBeat, hlGate, hlSince, hlFirst, hlCompleted, hlFailure, hlLate>>

HlEnd ==
    /\ hlPhase = "run" /\ hlWork = "running"
    /\ hlWork' = "idle"
    /\ HlDone("work")
    /\ UNCHANGED <<hlBoard, hlBoot, hlPhase, hlTime, hlDog, hlController, hlDispatching,
                   hlBeat, hlGate, hlSince, hlFirst, hlFailure, hlLate>>

\* The console command that acknowledges the record.
HlClear ==
    /\ hlPhase = "run" /\ hlWork = "idle" /\ hlRecord # HlNoRecord
    /\ hlRecord' = HlNoRecord
    /\ hlLatched' = HlNone
    /\ UNCHANGED <<hlBoard, hlBoot, hlPhase, hlTime, hlDog, hlController, hlTasks,
                   hlRecorded, hlLate>>

\* Time passes; the watchdog counts down, and resets the chip.
HlTick ==
    /\ hlTime < HlMaxTime
    /\ \/ hlPhase \in {"init", "halted"}
       \/ hlPhase = "run" /\ hlWork # "idle"
       \/ hlPhase = "run" /\ \A t \in HlTasks : HlDue(t) > hlTime
    /\ hlPhase # "halted" /\ hlBoard = "h5" => hlDog > HlEarly
    /\ hlTime' = hlTime + 1
    /\ hlDog' = hlDog - 1
    /\ hlPhase' = IF hlDog = 1 THEN "reset" ELSE hlPhase
    /\ hlLate' = (hlLate \/ (hlPhase = "run" /\
                    \E t \in HlTasks : HlDue(t) + HlAllowance < hlTime'))
    /\ UNCHANGED <<hlBoard, hlBoot, hlController, hlTasks, hlFailure>>

HlNext ==
    \/ HlFault \/ HlWarn \/ HlReboot \/ HlStart \/ HlInitialize \/ HlHeartbeat
    \/ HlCheck \/ HlBegin \/ HlEnd \/ HlClear \/ HlTick

HlFairness == WF_hlVars(HlTick) /\ WF_hlVars(HlWarn)

HlSpec == HlInit /\ [][HlNext]_hlVars /\ HlFairness

-----------------------------------------------------------------------------

\* The watchdog is fed only while every task has completed every iteration due
\* more than the allowance ago, and never again once a check has failed.
HlFedHealthy ==
    [][HlCheck /\ hlDog' > hlDog =>
        /\ hlController # "failed"
        /\ \A t \in HlTasks : HlDue(t) + HlAllowance >= hlTime]_hlVars

\* No false alarm: in a boot in which no iteration was ever late by more than
\* the allowance, the checks never fail and the image is never reset by them.
HlNoFalseAlarm ==
    ~hlLate => hlLatched \in {HlNone, "start"}

\* After a reset by the H563's watchdog the record names the check that failed
\* in that boot, or the early warning if none had: never another boot's.
HlRecordTrue ==
    hlPhase = "halted" =>
        hlRecord.check = IF hlLatched = HlNone THEN "early warning" ELSE hlLatched

\* A task hangs and no reset has ended it.
HlHung == hlPhase \in {"run", "halted"} /\ hlWork = "hung"

\* The watchdog is fed for good reason, and resets for good reason.
HlJudges == [](HlTypeOK /\ HlNoFalseAlarm /\ HlRecordTrue) /\ HlFedHealthy

==============================================================================
