--------------------------- MODULE SchedulerProofs ---------------------------
(***************************************************************************)
(* Type correctness and safety of the scheduler for every number of        *)
(* tasks, modules, timers and callbacks and every queue capacity: the      *)
(* timers and the wake-up first, then what the scheduler does with the     *)
(* work it accepted. Tasks are never reentered, no iteration of a          *)
(* repeating task is lost or counted twice, and no event is lost or        *)
(* delivered twice.                                                        *)
(***************************************************************************)
EXTENDS Scheduler, TLAPS

\* An empty sequence is one of length zero, whatever it could hold.
LEMMA EmptyQueue ==
  ASSUME NEW S
  PROVE  <<>> \in Seq(S) /\ \A s \in Seq(S) : Len(s) = 0 => s = <<>>
  OBVIOUS

\* A deadline computed with saturation is a time before Forever.
LEMMA AfterType ==
    ASSUME NEW t \in Nat, NEW d \in Times
    PROVE  After(t, d) \in 0..(Forever - 1) /\ After(t, d) \in Times
  BY TimeAssumption, BoundAssumption DEF After, Times

\* Rearm() leaves the platform deadline a time or Forever.
LEMMA RearmType ==
    ASSUME TypeOK, NEW tm \in [Slots -> TimerRecord], Rearm(tm)
    PROVE  armed' \in 0..Forever
  BY TimeAssumption, BoundAssumption DEF TypeOK, TimersOK, Rearm, TimerRecord

\* Taking a task off the schedule keeps its record well typed.
LEMMA TakeTaskType ==
    ASSUME TypeOK, NEW t \in Tasks, TakeTask(t)
    PROVE  task' \in [Tasks -> TaskRecord] /\ stack' \in Seq(FrameRecord)
  <1>1. task \in [Tasks -> TaskRecord] /\ stack \in Seq(FrameRecord)
    BY Zenon DEF TypeOK, TasksOK
  <1>2. task[t] \in TaskRecord
    BY <1>1, Zenon
  <1>a. task[t].due \in Times /\ task[t].interval \in Times
    BY <1>2, Zenon DEF TaskRecord
  <1>b. task[t].due \in Nat
    BY <1>a, TimeAssumption DEF Times
  <1>3. After(task[t].due, task[t].interval) \in Times
    BY <1>a, <1>b, AfterType, Zenon
  <1>4. [task |-> t, generation |-> task[t].generation] \in FrameRecord
    BY <1>2, Zenon DEF TaskRecord, FrameRecord
  <1>5. stack' \in Seq(FrameRecord)
    BY <1>1, <1>4 DEF TakeTask
  <1>6. task' \in [Tasks -> TaskRecord]
    BY <1>1, <1>2, <1>3, Zenon DEF TakeTask, TaskRecord
  <1> QED
    BY <1>5, <1>6, Zenon

\* Removing an event by moving the last one into its place keeps the queue a
\* sequence within its capacity.
LEMMA PopType ==
    ASSUME NEW S, NEW s \in Seq(S), s # <<>>
    PROVE  /\ Len(s) \in Nat \ {0} /\ s[Len(s)] \in S
           /\ SubSeq(s, 1, Len(s) - 1) \in Seq(S)
           /\ Len(SubSeq(s, 1, Len(s) - 1)) = Len(s) - 1
           /\ \A i \in 1..(Len(s) - 1) : SubSeq(s, 1, Len(s) - 1)[i] = s[i]
  <1> DEFINE n == Len(s) - 1
             f == SubSeq(s, 1, n)
  <1>1. Len(s) \in Nat \ {0} /\ s[Len(s)] \in S
    OBVIOUS
  <1>2. n \in Nat
    BY <1>1
  <1>3. /\ f \in Seq(S) /\ Len(f) = IF 1 <= n THEN n - 1 + 1 ELSE 0
        /\ \A i \in 1..(n - 1 + 1) : f[i] = s[1 + i - 1]
    BY <1>1, <1>2
  <1> HIDE DEF n, f
  <1>4. Len(f) = n
    BY <1>2, <1>3
  <1>5. ASSUME NEW i \in 1..n PROVE f[i] = s[i]
    <2>1. 1 + i - 1 = i /\ n - 1 + 1 = n
      BY <1>2
    <2> QED
      BY <1>3, <2>1, Zenon
  <1> QED
    BY <1>1, <1>3, <1>4, <1>5, Zenon DEF n, f

\* Accounting a completed task keeps its record well typed.
LEMMA ReturnTaskType ==
    ASSUME TypeOK, ReturnTask
    PROVE  task' \in [Tasks -> TaskRecord] /\ stack' \in Seq(FrameRecord)
  <1> DEFINE frame == stack[Len(stack)]
             t == frame.task
             n == IF Counts(frame) THEN task[t].completed + 1
                                   ELSE task[t].completed
  <1>1. frame \in FrameRecord /\ stack' \in Seq(FrameRecord)
    BY PopType, Zenon DEF TypeOK, TasksOK, ReturnTask
  <1>2. t \in Tasks
    BY <1>1, Zenon DEF FrameRecord
  <1>3. task \in [Tasks -> TaskRecord] /\ task[t] \in TaskRecord
    BY <1>2, Zenon DEF TypeOK, TasksOK
  <1>4. task' = [task EXCEPT ![t].executing = FALSE, ![t].completed = n]
    BY Zenon DEF ReturnTask
  <1>5. n \in Nat
    BY <1>3 DEF TaskRecord
  <1> HIDE DEF t, n
  <1> QED
    BY <1>1, <1>3, <1>4, <1>5, Zenon DEF TaskRecord

\* Scheduling a task slot keeps its record well typed.
LEMMA ScheduleType ==
    ASSUME TypeOK, NEW t \in Tasks, NEW d \in Delays,
           NEW mode \in {"once", "repeat"}, ScheduleSlot(t, d, mode)
    PROVE  task' \in [Tasks -> TaskRecord]
  <1>1. task \in [Tasks -> TaskRecord] /\ now \in 0..MaxTime
    BY Zenon DEF TypeOK, TasksOK, TimersOK
  <1>2. now \in Nat /\ d \in Times
    BY <1>1, BoundAssumption, TimeAssumption
  <1>3. After(now, d) \in Times
    BY <1>2, AfterType, Zenon
  <1> QED
    <2>1. task[t] \in TaskRecord /\ task[t].generation < MaxGeneration
      BY <1>1, Zenon DEF ScheduleSlot
    <2>2. Scheduled(task[t], d, mode) \in TaskRecord
      <3>1. (IF life = "running" THEN After(now, d) ELSE d) \in Times
        BY <1>2, <1>3, Zenon
      <3>2. task[t].generation + 1 \in 0..MaxGeneration
        BY <2>1, BoundAssumption DEF TaskRecord
      <3>3. task[t].executing \in BOOLEAN
        BY <2>1, Zenon DEF TaskRecord
      <3> QED
        BY <1>2, <3>1, <3>2, <3>3, Zenon DEF Scheduled, TaskRecord
    <2> QED
      BY <1>1, <2>2, Zenon DEF ScheduleSlot

\* Cancelling a task slot keeps its record well typed.
LEMMA CancelType ==
    ASSUME TypeOK, NEW t \in Tasks, CancelSlot(t)
    PROVE  task' \in [Tasks -> TaskRecord]
  <1>1. task \in [Tasks -> TaskRecord]
    BY Zenon DEF TypeOK, TasksOK
  <1> QED
    BY <1>1, BoundAssumption DEF CancelSlot, TaskRecord

\* Activating the default-periodic tasks keeps the task table well typed.
LEMMA ActivateType ==
    ASSUME TypeOK, ActivateDefaults
    PROVE  task' \in [Tasks -> TaskRecord]
  <1>1. ASSUME NEW t \in Tasks
        PROVE  (IF Period[t] # 0 /\ ~task[t].explicitly_scheduled
                THEN [task[t] EXCEPT !.active = TRUE, !.mode = "repeat",
                        !.interval = Period[t], !.due = Period[t]]
                ELSE task[t]) \in TaskRecord
    <2>1. task[t] \in TaskRecord
      BY Zenon DEF TypeOK, TasksOK
    <2>2. Period[t] \in Times
      BY TimeAssumption, Zenon
    <2> QED
      BY <2>1, <2>2, Zenon DEF TaskRecord
  <1> QED
    BY <1>1, Zenon DEF ActivateDefaults

\* Starting the delays at the run start keeps the task table well typed.
LEMMA StartRunType ==
    ASSUME TypeOK, StartRun
    PROVE  task' \in [Tasks -> TaskRecord]
  <1>1. ASSUME NEW t \in Tasks
        PROVE  (IF task[t].active
                THEN [task[t] EXCEPT !.due = After(now, task[t].interval),
                                     !.first_due = After(now, task[t].interval)]
                ELSE task[t]) \in TaskRecord
    <2>1. task[t] \in TaskRecord /\ now \in Nat
      BY BoundAssumption DEF TypeOK, TasksOK, TimersOK
    <2>2. After(now, task[t].interval) \in Times
      BY <2>1, AfterType, Zenon DEF TaskRecord
    <2> QED
      BY <2>1, <2>2, Zenon DEF TaskRecord
  <1> QED
    BY <1>1, Zenon DEF StartRun

\* Deactivating every task keeps the task table well typed.
LEMMA DeactivateType ==
    ASSUME TypeOK, task' = [t \in Tasks |-> [task[t] EXCEPT !.active = FALSE]]
    PROVE  task' \in [Tasks -> TaskRecord]
  <1>1. ASSUME NEW t \in Tasks
        PROVE  [task[t] EXCEPT !.active = FALSE] \in TaskRecord
    <2>1. task[t] \in TaskRecord
      BY Zenon DEF TypeOK, TasksOK
    <2> QED
      BY <2>1, Zenon DEF TaskRecord
  <1> QED
    BY <1>1, Zenon

\* The empty event queue is well typed.
LEMMA NoEventsType == <<>> \in Seq(EventRecord) /\ Len(<<>>) <= EventCapacity
  BY SizeAssumption

\* schedule() changes the task table and notifies; nothing else.
LEMMA ScheduleFrame ==
    ASSUME \E t \in Tasks, d \in Delays, mode \in {"once", "repeat"} :
             ScheduleSlot(t, d, mode)
    PROVE  /\ AcceptsWork /\ notified' = TRUE
           /\ UNCHANGED <<life, used, stop_requested, events, timers, stack, pc,
                          cursor, event, logs, deadline, now, armed, isr,
                          callback, posted, received>>
  <1>1. PICK t \in Tasks, d \in Delays, mode \in {"once", "repeat"} :
          ScheduleSlot(t, d, mode)
    BY Zenon
  <1>2. AcceptsWork /\ Notify
    BY <1>1, Zenon DEF ScheduleSlot
  <1>3. UNCHANGED <<status, locals, platform, history, events, timers, pc, logs>>
    BY <1>1, Zenon DEF ScheduleSlot
  <1> QED
    BY <1>2, <1>3, Zenon DEF Notify, status, locals, platform, history

\* cancel() changes the task table and notifies; nothing else.
LEMMA CancelFrame ==
    ASSUME \E t \in Tasks : CancelSlot(t)
    PROVE  /\ AcceptsWork /\ notified' = TRUE
           /\ UNCHANGED <<life, used, stop_requested, events, timers, stack, pc,
                          cursor, event, logs, deadline, now, armed, isr,
                          callback, posted, received>>
  <1>1. PICK t \in Tasks : CancelSlot(t)
    BY Zenon
  <1>2. AcceptsWork /\ Notify
    BY <1>1, Zenon DEF CancelSlot
  <1>3. UNCHANGED <<status, locals, platform, history, events, timers, pc, logs>>
    BY <1>1, Zenon DEF CancelSlot
  <1> QED
    BY <1>2, <1>3, Zenon DEF Notify, status, locals, platform, history

\* Delivery of an event takes it from the queue; the rest of the queue and the
\* event are well typed, and no due time of the queue is new.
LEMMA SelectEventQueue ==
    ASSUME TypeOK, SelectEvent
    PROVE  /\ event' \in EventRecord
           /\ events' \in Seq(EventRecord) /\ Len(events') <= EventCapacity
           /\ \A k \in DOMAIN events' : \E j \in DOMAIN events : events'[k] = events[j]
  <1>1. events \in Seq(EventRecord) /\ Len(events) <= EventCapacity
    BY Zenon DEF TypeOK, QueuesOK
  <1>2. PICK i \in DOMAIN events : event' = events[i] /\ events' = RemoveEvent(i)
    BY Zenon DEF SelectEvent
  <1>3. Len(events) \in Nat \ {0} /\ DOMAIN events = 1..Len(events)
    BY <1>1, <1>2
  <1> DEFINE n == Len(events) - 1
             pick(k) == IF k = i THEN Len(events) ELSE k
  <1>4. n \in Nat
    BY <1>3
  <1>5. ASSUME NEW k \in 1..n PROVE pick(k) \in DOMAIN events
    BY <1>3, <1>5
  <1>6. events' = [k \in 1..n |-> events[pick(k)]]
    BY <1>2, Zenon DEF RemoveEvent
  <1>7. ASSUME NEW k \in 1..n PROVE events[pick(k)] \in EventRecord
    BY <1>1, <1>5
  <1> HIDE DEF n, pick
  <1>8. events' \in Seq(EventRecord) /\ Len(events') = n /\ DOMAIN events' = 1..n
    BY <1>4, <1>6, <1>7
  <1>9. n <= EventCapacity
    BY <1>1, <1>3, SizeAssumption DEF n
  <1> QED
    <2>1. event' \in EventRecord
      BY <1>1, <1>2
    <2>2. ASSUME NEW k \in DOMAIN events'
          PROVE  \E j \in DOMAIN events : events'[k] = events[j]
      <3>1. k \in 1..n /\ pick(k) \in DOMAIN events
        BY <1>5, <1>8, Zenon
      <3>2. events'[k] = events[pick(k)]
        BY <1>6, <3>1, Zenon
      <3> QED
        BY <3>1, <3>2, Zenon
    <2> QED
      BY <1>8, <1>9, <2>1, <2>2, Zenon

\* The initial state is well typed.
LEMMA TypeInit == Init => TypeOK
  <1> SUFFICES ASSUME Init PROVE TypeOK
    BY Zenon
  <1>1. ControlOK
    BY Zenon DEF Init, ControlOK
  <1>2. TasksOK
    <2>1. task \in [Tasks -> TaskRecord]
      BY BoundAssumption, TimeAssumption DEF Init, TaskRecord, Times
    <2>2. stack \in Seq(FrameRecord)
      BY EmptyQueue, Zenon DEF Init
    <2> QED
      BY <2>1, <2>2, Zenon DEF TasksOK
  <1>3. QueuesOK
    BY TaskAssumption, SizeAssumption, BoundAssumption, NoEventsType
    DEF Init, QueuesOK
  <1>4. TimersOK
    BY BoundAssumption, TimeAssumption DEF Init, TimersOK, TimerRecord, NoTimer
  <1> QED
    BY <1>1, <1>2, <1>3, <1>4, Zenon DEF TypeOK

\* Every step keeps the control state well typed.
LEMMA ControlStep ==
    ASSUME TypeOK, [Next]_vars
    PROVE  ControlOK'
  <1> USE DEF ControlOK, status, Notify
  <1>1. ControlOK
    BY Zenon DEF TypeOK
  <1>2. CASE InitStep
    BY <1>1, <1>2, Zenon DEF InitStep, BeginInit, RejectRegistration,
       ActivateDefaults, InitModule, InitModuleFails, FinishInit, FailInit,
       ReportFailure
  <1>3. CASE Run \/ RunAfterFailure \/ StartRun \/ Sample \/ SelectStop
    BY <1>1, <1>3, Zenon DEF Run, RunAfterFailure, StartRun, Sample, SelectStop
  <1>4. CASE SelectEvent \/ SelectTask \/ SelectNothing \/ Deliver \/ ReturnTask
    BY <1>1, <1>4, Zenon
    DEF SelectEvent, SelectTask, SelectNothing, Deliver, ReturnTask
  <1>5. CASE Yield \/ DispatchLog \/ PrepareIdle \/ EnterIdle
    BY <1>1, <1>5, Zenon DEF Yield, DispatchLog, PrepareIdle, EnterIdle
  <1>6. CASE WakeNotified \/ WakeDeadline \/ BeginStop \/ Quiesce \/ Flush
    BY <1>1, <1>6, Zenon DEF WakeNotified, WakeDeadline, BeginStop, Quiesce, Flush
  <1>7. CASE Interrupt \/ Tick
    BY <1>1, <1>7, Zenon DEF Interrupt, TimerInterrupt, FireScan, FireCallback,
       InterruptReturn, Tick
  <1>8. CASE Operation
    BY <1>1, <1>8, Zenon DEF Operation, Post, ScheduleSlot, CancelSlot,
       TimerSlot, CancelTimer, Stop, LogWrite
  <1>9. CASE UNCHANGED vars
    BY <1>1, <1>9, Zenon DEF vars
  <1> QED
    BY <1>2, <1>3, <1>4, <1>5, <1>6, <1>7, <1>8, <1>9, Zenon DEF Next, RunStep

\* A step that changes neither the task table nor the stack keeps them typed.
LEMMA TasksFrame == ASSUME TypeOK, UNCHANGED <<task, stack>> PROVE TasksOK'
  BY Zenon DEF TypeOK, TasksOK

\* Every step keeps the task table and the stack well typed.
LEMMA TasksStep ==
    ASSUME TypeOK, [Next]_vars
    PROVE  TasksOK'
  <1> USE DEF work, locals
  <1>1. task \in [Tasks -> TaskRecord] /\ stack \in Seq(FrameRecord)
    BY Zenon DEF TypeOK, TasksOK
  <1>2. CASE ActivateDefaults
    BY <1>1, <1>2, ActivateType, Zenon DEF ActivateDefaults, TasksOK
  <1>3. CASE FailInit
    BY <1>1, <1>3, DeactivateType, Zenon DEF FailInit, TasksOK
  <1>4. CASE StartRun
    BY <1>1, <1>4, StartRunType, Zenon DEF StartRun, TasksOK
  <1>5. CASE SelectTask \/ Yield
    BY <1>5, TakeTaskType, Zenon DEF SelectTask, Yield, TasksOK
  <1>6. CASE ReturnTask
    BY <1>6, ReturnTaskType, Zenon DEF TasksOK
  <1>7. CASE BeginStop
    BY <1>1, <1>7, DeactivateType, Zenon DEF BeginStop, TasksOK
  <1>8. CASE \E t \in Tasks, d \in Delays, mode \in {"once", "repeat"} :
               ScheduleSlot(t, d, mode)
    <2>1. task' \in [Tasks -> TaskRecord]
      BY <1>8, ScheduleType, Zenon
    <2>2. stack' = stack
      BY <1>8, ScheduleFrame, Zenon
    <2> QED
      BY <1>1, <2>1, <2>2, Zenon DEF TasksOK
  <1>9. CASE \E t \in Tasks : CancelSlot(t)
    <2>1. task' \in [Tasks -> TaskRecord]
      BY <1>9, CancelType, Zenon
    <2>2. stack' = stack
      BY <1>9, CancelFrame, Zenon
    <2> QED
      BY <1>1, <2>1, <2>2, Zenon DEF TasksOK
  <1>10. CASE \/ BeginInit \/ RejectRegistration \/ InitModule \/ InitModuleFails
              \/ FinishInit \/ ReportFailure \/ Run \/ RunAfterFailure
    BY <1>10, TasksFrame, Zenon DEF BeginInit, RejectRegistration, InitModule,
       InitModuleFails, FinishInit, ReportFailure, Run, RunAfterFailure
  <1>11. CASE \/ Sample \/ SelectStop \/ SelectEvent \/ SelectNothing \/ Deliver
              \/ DispatchLog \/ PrepareIdle
    BY <1>11, TasksFrame, Zenon DEF Sample, SelectStop, SelectEvent,
       SelectNothing, Deliver, DispatchLog, PrepareIdle
  <1>12. CASE EnterIdle \/ WakeNotified \/ WakeDeadline \/ Quiesce \/ Flush
    BY <1>12, TasksFrame, Zenon DEF EnterIdle, WakeNotified, WakeDeadline,
       Quiesce, Flush
  <1>13. CASE Interrupt \/ Tick
    BY <1>13, TasksFrame, Zenon DEF Interrupt, TimerInterrupt, FireScan,
       FireCallback, InterruptReturn, Tick
  <1>14. CASE \/ Stop \/ LogWrite
              \/ \E m \in 0..NModules : Post(m)
              \/ \E d \in Delays, c \in Callbacks : TimerSlot(d, c)
              \/ \E c \in Callbacks : CancelTimer(c)
    BY <1>14, TasksFrame, Zenon DEF Stop, LogWrite, Post, TimerSlot, CancelTimer
  <1>15. CASE UNCHANGED vars
    BY <1>15, TasksFrame, Zenon DEF vars
  <1> QED
    BY <1>2, <1>3, <1>4, <1>5, <1>6, <1>7, <1>8, <1>9, <1>10, <1>11, <1>12,
       <1>13, <1>14, <1>15, Zenon DEF Next, InitStep, RunStep, Operation

\* A step that changes no queue, counter or loop index keeps them typed.
LEMMA QueuesFrame ==
    ASSUME TypeOK, UNCHANGED <<events, event, cursor, logs, posted, received>>
    PROVE  QueuesOK'
  BY Zenon DEF TypeOK, QueuesOK

\* Every step keeps the event queue, the event being delivered and the log well
\* typed and within their capacities.
LEMMA QueuesStep ==
    ASSUME TypeOK, [Next]_vars
    PROVE  QueuesOK'
  <1> USE DEF work, locals, history
  <1>1. QueuesOK
    BY Zenon DEF TypeOK
  <1>2. CASE ActivateDefaults \/ InitModule \/ InitModuleFails
    <2>1. cursor' \in 0..NModules
      <3>1. \/ cursor' \in {0, 1}
            \/ cursor < NModules /\ cursor' = cursor + 1
        BY <1>2, Zenon DEF ActivateDefaults, InitModule, InitModuleFails
      <3> QED
        BY <1>1, <3>1, TaskAssumption DEF QueuesOK
    <2>2. UNCHANGED <<events, event, logs, posted, received>>
      BY <1>2, Zenon DEF ActivateDefaults, InitModule, InitModuleFails
    <2> QED
      BY <1>1, <2>1, <2>2, Zenon DEF QueuesOK
  <1>3. CASE FailInit \/ BeginStop
    <2>1. events' = <<>> /\ UNCHANGED <<event, cursor, logs, posted, received>>
      BY <1>3, Zenon DEF FailInit, BeginStop
    <2> QED
      BY <1>1, <2>1, NoEventsType, Zenon DEF QueuesOK
  <1>4. CASE ReportFailure \/ DispatchLog \/ Flush \/ LogWrite
    <2>1. logs' \in 0..LogCapacity
      BY <1>1, <1>4, SizeAssumption
      DEF QueuesOK, ReportFailure, DispatchLog, Flush, LogWrite
    <2>2. UNCHANGED <<events, event, cursor, posted, received>>
      BY <1>4, Zenon DEF ReportFailure, DispatchLog, Flush, LogWrite
    <2> QED
      BY <1>1, <2>1, <2>2, Zenon DEF QueuesOK
  <1>5. CASE SelectEvent
    <2>1. /\ event' \in EventRecord
          /\ events' \in Seq(EventRecord) /\ Len(events') <= EventCapacity
      BY <1>5, SelectEventQueue, Zenon
    <2>2. cursor' = 1 /\ UNCHANGED <<logs, posted, received>>
      BY <1>5, Zenon DEF SelectEvent
    <2> QED
      BY <1>1, <2>1, <2>2, TaskAssumption DEF QueuesOK
  <1>6. CASE Deliver
    <2>1. event.value \in 0..MaxPosts
      BY <1>1, BoundAssumption DEF QueuesOK, EventRecord, NoEvent
    <2>2. received' \in SUBSET ((0..MaxPosts) \X (0..NModules))
      BY <1>1, <1>6, <2>1 DEF Deliver, QueuesOK
    <2>3. cursor' \in 0..NModules /\ event' \in {event, NoEvent}
      BY <1>1, <1>6, TaskAssumption DEF Deliver, QueuesOK
    <2>4. UNCHANGED <<events, logs, posted>>
      BY <1>6, Zenon DEF Deliver
    <2> QED
      BY <1>1, <2>2, <2>3, <2>4, Zenon DEF QueuesOK
  <1>7. CASE \E m \in 0..NModules : Post(m)
    <2>1. PICK m \in 0..NModules : Post(m)
      BY <1>7, Zenon
    <2>2. [value |-> posted + 1, sender |-> m, due |-> now] \in EventRecord
      <3>1. posted + 1 \in 1..MaxPosts
        BY <1>1, <2>1, BoundAssumption DEF Post, QueuesOK
      <3>2. now \in 0..MaxTime
        BY Zenon DEF TypeOK, TimersOK
      <3> QED
        BY <3>1, <3>2, Zenon DEF EventRecord
    <2>3. events' \in Seq(EventRecord) /\ Len(events') <= EventCapacity
      BY <1>1, <2>1, <2>2, SizeAssumption DEF Post, QueueHasRoom, QueuesOK
    <2>4. posted' \in 0..MaxPosts
      BY <1>1, <2>1, BoundAssumption DEF Post, QueuesOK
    <2>5. UNCHANGED <<event, cursor, logs, received>>
      BY <2>1, Zenon DEF Post
    <2> QED
      BY <1>1, <2>3, <2>4, <2>5, Zenon DEF QueuesOK
  <1>8. CASE BeginInit \/ RejectRegistration \/ FinishInit \/ Run \/ RunAfterFailure
    BY <1>8, QueuesFrame, Zenon
    DEF BeginInit, RejectRegistration, FinishInit, Run, RunAfterFailure
  <1>9. CASE \/ StartRun \/ Sample \/ SelectStop \/ SelectTask \/ SelectNothing
             \/ ReturnTask \/ Yield
    BY <1>9, QueuesFrame, Zenon DEF StartRun, Sample, SelectStop, SelectTask,
       SelectNothing, ReturnTask, Yield
  <1>10. CASE PrepareIdle \/ EnterIdle \/ WakeNotified \/ WakeDeadline \/ Quiesce
    BY <1>10, QueuesFrame, Zenon
    DEF PrepareIdle, EnterIdle, WakeNotified, WakeDeadline, Quiesce
  <1>11. CASE Interrupt \/ Tick
    BY <1>11, QueuesFrame, Zenon DEF Interrupt, TimerInterrupt, FireScan,
       FireCallback, InterruptReturn, Tick
  <1>12. CASE \E t \in Tasks, d \in Delays, mode \in {"once", "repeat"} :
                ScheduleSlot(t, d, mode)
    BY <1>12, ScheduleFrame, QueuesFrame, Zenon
  <1>13. CASE \E t \in Tasks : CancelSlot(t)
    BY <1>13, CancelFrame, QueuesFrame, Zenon
  <1>14. CASE \/ Stop
              \/ \E d \in Delays, c \in Callbacks : TimerSlot(d, c)
              \/ \E c \in Callbacks : CancelTimer(c)
    BY <1>14, QueuesFrame, Zenon DEF Stop, TimerSlot, CancelTimer
  <1>15. CASE UNCHANGED vars
    BY <1>15, QueuesFrame, Zenon DEF vars
  <1> QED
    BY <1>2, <1>3, <1>4, <1>5, <1>6, <1>7, <1>8, <1>9, <1>10, <1>11, <1>12,
       <1>13, <1>14, <1>15, Zenon DEF Next, InitStep, RunStep, Operation

\* A step that changes no timer, clock or interrupt state keeps them typed.
LEMMA TimersFrame ==
    ASSUME TypeOK, UNCHANGED <<timers, deadline, now, armed, isr, callback>>
    PROVE  TimersOK'
  BY Zenon DEF TypeOK, TimersOK

\* Every step keeps the timers, the clock and the interrupt state well typed.
LEMMA TimersStep ==
    ASSUME TypeOK, [Next]_vars
    PROVE  TimersOK'
  <1> USE DEF work, locals, platform
  <1>1. TimersOK
    BY Zenon DEF TypeOK
  <1>2. NoTimer \in TimerRecord
    BY TimeAssumption DEF NoTimer, TimerRecord
  <1>3. CASE PrepareIdle
    <2>1. UNCHANGED <<now, isr, callback>>
      BY <1>3, Zenon DEF PrepareIdle
    <2>2. CASE stop_requested \/ logs > 0
      <3>1. UNCHANGED <<timers, deadline, armed>>
        BY <1>3, <2>2, Zenon DEF PrepareIdle
      <3> QED
        BY <2>1, <3>1, TimersFrame, Zenon
    <2>3. CASE ~(stop_requested \/ logs > 0)
      <3>1. PICK d \in 0..Forever : timers' = [timers EXCEPT ![Wake] = WakeTimer(d)]
        BY <1>3, <2>3, Zenon DEF PrepareIdle
      <3>2. WakeTimer(d) \in TimerRecord
        BY <1>2, Zenon DEF WakeTimer, TimerRecord
      <3>3. timers' \in [Slots -> TimerRecord]
        BY <1>1, <3>1, <3>2, Zenon DEF TimersOK
      <3>4. armed' \in 0..Forever
        BY <1>3, <2>3, <3>3, RearmType, Zenon DEF PrepareIdle
      <3>5. deadline' \in 0..Forever
        BY <1>3, <2>3, Zenon DEF PrepareIdle
      <3> QED
        BY <1>1, <2>1, <3>3, <3>4, <3>5, Zenon DEF TimersOK
    <2> QED
      BY <2>2, <2>3, Zenon
  <1>4. CASE EnterIdle \/ WakeNotified \/ WakeDeadline
    <2>1. /\ UNCHANGED <<timers, now, armed, isr, callback>>
          /\ deadline' = Forever \/ deadline' = deadline
      BY <1>4, Zenon DEF EnterIdle, WakeNotified, WakeDeadline
    <2> QED
      BY <1>1, <2>1, TimeAssumption DEF TimersOK
  <1>5. CASE BeginStop
    <2>1. timers' = [s \in Slots |-> NoTimer] /\ armed' = Forever
          /\ UNCHANGED <<deadline, now, isr, callback>>
      BY <1>5, Zenon DEF BeginStop
    <2> QED
      BY <1>1, <1>2, <2>1, TimeAssumption DEF TimersOK
  <1>6. CASE Quiesce \/ TimerInterrupt
    <2>1. /\ armed' = Forever /\ isr' \in {isr, "scan"}
          /\ UNCHANGED <<timers, deadline, now, callback>>
      BY <1>6, Zenon DEF Quiesce, TimerInterrupt
    <2> QED
      BY <1>1, <2>1, TimeAssumption DEF TimersOK
  <1>7. CASE FireScan
    <2>1. timers' \in [Slots -> TimerRecord]
      BY <1>1, <1>2, <1>7, Zenon DEF FireScan, TimersOK
    <2>2. armed' = armed \/ Rearm(timers)
      BY <1>7, Zenon DEF FireScan
    <2>3. armed' \in 0..Forever
      BY <1>1, <2>2, RearmType, Zenon DEF TimersOK
    <2>4. callback' = callback \/ \E s \in Slots : callback' = timers[s].callback
      BY <1>7, Zenon DEF FireScan, DueTimers
    <2>5. callback' \in Callbacks \cup {NoCallback}
      BY <1>1, <2>4, Zenon DEF TimersOK, TimerRecord
    <2>6. isr' \in {"call", "exit"} /\ UNCHANGED <<deadline, now>>
      BY <1>7, Zenon DEF FireScan
    <2> QED
      BY <1>1, <2>1, <2>3, <2>5, <2>6, Zenon DEF TimersOK
  <1>8. CASE FireCallback \/ InterruptReturn
    <2>1. /\ isr' \in {"scan", "none"} /\ callback' \in {callback, NoCallback}
          /\ UNCHANGED <<timers, deadline, now, armed>>
      BY <1>8, Zenon DEF FireCallback, InterruptReturn
    <2> QED
      BY <1>1, <2>1, Zenon DEF TimersOK
  <1>9. CASE Tick
    <2>1. now' \in 0..MaxTime
      BY <1>1, <1>9, BoundAssumption DEF Tick, TimersOK
    <2>2. UNCHANGED <<timers, deadline, armed, isr, callback>>
      BY <1>9, Zenon DEF Tick
    <2> QED
      BY <1>1, <2>1, <2>2, Zenon DEF TimersOK
  <1>10. CASE \/ \E d \in Delays, c \in Callbacks : TimerSlot(d, c)
              \/ \E c \in Callbacks : CancelTimer(c)
    <2>1. timers' \in [Slots -> TimerRecord]
      <3>1. CASE \E c \in Callbacks : CancelTimer(c)
        BY <1>1, <1>2, <3>1, Zenon DEF CancelTimer, TimersOK
      <3>2. CASE \E d \in Delays, c \in Callbacks : TimerSlot(d, c)
        <4>1. PICK d \in Delays, c \in Callbacks : TimerSlot(d, c)
          BY <3>2, Zenon
        <4>2. now \in Nat /\ d \in Times
          BY <1>1, BoundAssumption, TimeAssumption DEF TimersOK
        <4>3. [active |-> TRUE, due |-> After(now, d), callback |-> c] \in TimerRecord
          BY <4>2, AfterType, Zenon DEF TimerRecord, Times
        <4> QED
          BY <1>1, <4>1, <4>3, Zenon DEF TimerSlot, TimersOK
      <3> QED
        BY <1>10, <3>1, <3>2, Zenon
    <2>2. Rearm(timers') /\ UNCHANGED <<deadline, now, isr, callback>>
      BY <1>10, Zenon DEF TimerSlot, CancelTimer
    <2>3. armed' \in 0..Forever
      BY <2>1, <2>2, RearmType, Zenon
    <2> QED
      BY <1>1, <2>1, <2>2, <2>3, Zenon DEF TimersOK
  <1>11. CASE InitStep
    BY <1>11, TimersFrame, Zenon DEF InitStep, BeginInit, RejectRegistration,
       ActivateDefaults, InitModule, InitModuleFails, FinishInit, FailInit,
       ReportFailure
  <1>12. CASE Run \/ RunAfterFailure \/ StartRun \/ Sample \/ SelectStop \/ SelectEvent
    BY <1>12, TimersFrame, Zenon
    DEF Run, RunAfterFailure, StartRun, Sample, SelectStop, SelectEvent
  <1>13. CASE \/ SelectTask \/ SelectNothing \/ Deliver \/ ReturnTask \/ Yield
              \/ DispatchLog \/ Flush
    BY <1>13, TimersFrame, Zenon DEF SelectTask, SelectNothing, Deliver,
       ReturnTask, Yield, DispatchLog, Flush
  <1>14. CASE \E t \in Tasks, d \in Delays, mode \in {"once", "repeat"} :
                ScheduleSlot(t, d, mode)
    BY <1>14, ScheduleFrame, TimersFrame, Zenon
  <1>15. CASE \E t \in Tasks : CancelSlot(t)
    BY <1>15, CancelFrame, TimersFrame, Zenon
  <1>16. CASE Stop \/ LogWrite \/ \E m \in 0..NModules : Post(m)
    BY <1>16, TimersFrame, Zenon DEF Stop, LogWrite, Post
  <1>17. CASE UNCHANGED vars
    BY <1>17, TimersFrame, Zenon DEF vars
  <1> QED
    BY <1>3, <1>4, <1>5, <1>6, <1>7, <1>8, <1>9, <1>10, <1>11, <1>12, <1>13,
       <1>14, <1>15, <1>16, <1>17, Zenon
    DEF Next, RunStep, Interrupt, Operation

\* Every step keeps every variable well typed.
LEMMA TypeStep == TypeOK /\ [Next]_vars => TypeOK'
  BY ControlStep, TasksStep, QueuesStep, TimersStep, Zenon DEF TypeOK

\* Every variable keeps its type, for every size of the system: no queue exceeds
\* its capacity and no deadline computation leaves the range of times.
THEOREM TypeCorrect == Spec => []TypeOK
  BY TypeInit, TypeStep, PTL DEF Spec

(***************************************************************************)
(* Safety.                                                                 *)
(***************************************************************************)
\* Which control points each lifecycle state allows.
Phase ==
    /\ life = "fresh" => pc \in {"outside", "init"}
    /\ life = "initializing" =>
         pc \in {"validate", "stage1", "stage2", "init_done", "init_failed"}
    /\ life = "ready" => pc \in {"outside", "start"}
    /\ life = "running" =>
         pc \in {"sample", "select", "deliver", "task", "log", "prepare",
                 "enter_idle", "idle", "stop"}
    /\ life = "stopping" => pc \in {"quiesce", "flush"}
    /\ life = "stopped" => pc = "done"
    /\ life = "failed" => pc \in {"report", "flush", "done"}

\* Timers, and the interrupt they cause, exist only while run() is dispatching;
\* an interrupt may still be in progress until quiesce() has waited for it.
TimersWhileRunning ==
    /\ life # "running" => /\ \A s \in Slots : ~timers[s].active
                           /\ armed = Forever
    /\ isr # "none" => life = "running" \/ pc = "quiesce"

\* After a stop or a failure there is no work, and callbacks run in "task" only.
WorkDiscarded ==
    /\ life \in {"stopping", "stopped", "failed"} =>
         (\A t \in Tasks : ~task[t].active) /\ events = <<>>
    /\ pc # "task" => stack = <<>>

\* Events are never due in the future, running tasks never due at Forever.
DueTimes ==
    /\ \A i \in DOMAIN events : events[i].due <= now
    /\ life = "running" =>
         \A t \in Tasks : task[t].active => task[t].due < Forever

\* What an idle pass has established, as long as no notification intervened.
IdlePass ==
    ~notified =>
        /\ pc \in {"log", "prepare", "enter_idle", "idle"} =>
             ~stop_requested /\ events = <<>>
        /\ pc \in {"prepare", "enter_idle", "idle"} => logs = 0
        /\ pc \in {"enter_idle", "idle"} =>
             \/ isr # "none"
             \/ \A t \in Tasks : task[t].active =>
                  timers[Wake].active /\ timers[Wake].due <= task[t].due

\* The inductive invariant: what TimersCovered, NoLostWakeup and Quiescent need
\* to know of the control point, the interrupt and the current idle pass.
IInv == /\ TypeOK /\ Phase /\ TimersWhileRunning /\ WorkDiscarded /\ DueTimes
        /\ IdlePass /\ TimersCovered

\* Every step keeps the program counter consistent with the life cycle.
LEMMA PhaseStep ==
    ASSUME TypeOK, Phase, TypeOK', [Next]_vars
    PROVE  Phase'
  <1> USE DEF Phase, status, work, locals, platform, history
  <1>1. CASE InitStep
    BY <1>1, Zenon DEF InitStep, BeginInit, RejectRegistration, ActivateDefaults,
       InitModule, InitModuleFails, FinishInit, FailInit, ReportFailure
  <1>2. CASE Run \/ RunAfterFailure
    BY <1>2, Zenon DEF Run, RunAfterFailure
  <1>3. CASE StartRun
    BY <1>3, Zenon DEF StartRun
  <1>4. CASE Sample \/ SelectStop \/ SelectNothing
    BY <1>4, Zenon DEF Sample, SelectStop, SelectNothing
  <1>5. CASE SelectEvent
    BY <1>5, Zenon DEF SelectEvent
  <1>6. CASE SelectTask \/ Yield
    BY <1>6, Zenon DEF SelectTask, Yield
  <1>7. CASE Deliver \/ ReturnTask \/ DispatchLog
    BY <1>7, Zenon DEF Deliver, ReturnTask, DispatchLog
  <1>8. CASE PrepareIdle
    BY <1>8, Zenon DEF PrepareIdle
  <1>9. CASE EnterIdle \/ WakeNotified \/ WakeDeadline
    BY <1>9, Zenon DEF EnterIdle, WakeNotified, WakeDeadline
  <1>10. CASE BeginStop
    BY <1>10, Zenon DEF BeginStop, NoTimer
  <1>11. CASE Quiesce \/ Flush
    BY <1>11, Zenon DEF Quiesce, Flush, Notify
  <1>12. CASE TimerInterrupt
    BY <1>12, Zenon DEF TimerInterrupt
  <1>13. CASE FireScan
    BY <1>13, Zenon DEF FireScan, NoTimer, DueTimers
  <1>14. CASE FireCallback \/ InterruptReturn
    BY <1>14, Zenon DEF FireCallback, InterruptReturn, Notify
  <1>15. CASE \E m \in 0..NModules : Post(m)
    BY <1>15, Zenon DEF Post, Notify
  <1>16. CASE \E t \in Tasks, d \in Delays, mode \in {"once", "repeat"} :
              ScheduleSlot(t, d, mode)
    BY <1>16, ScheduleFrame, Zenon DEF AcceptsWork
  <1>17. CASE \E t \in Tasks : CancelSlot(t)
    BY <1>17, CancelFrame, Zenon DEF AcceptsWork
  <1>18. CASE \/ \E d \in Delays, c \in Callbacks : TimerSlot(d, c)
           \/ \E c \in Callbacks : CancelTimer(c)
    BY <1>18, Zenon DEF TimerSlot, CancelTimer, Notify, NoTimer
  <1>19. CASE Stop \/ LogWrite
    BY <1>19, Zenon DEF Stop, LogWrite, Notify
  <1>20. CASE Tick
    BY <1>20, Zenon DEF Tick
  <1>21. CASE UNCHANGED vars
    BY <1>21, Zenon DEF vars
  <1> QED
    BY <1>1, <1>2, <1>3, <1>4, <1>5, <1>6, <1>7, <1>8, <1>9, <1>10, <1>11,
       <1>12, <1>13, <1>14, <1>15, <1>16, <1>17, <1>18, <1>19, <1>20, <1>21,
       Zenon
    DEF Next, RunStep, Interrupt, Operation

\* Inside the dispatch loop the scheduler is running.
LEMMA LoopRuns ==
    ASSUME TypeOK, Phase,
           pc \in {"sample", "select", "deliver", "task", "log", "prepare",
                   "enter_idle", "idle", "stop"}
    PROVE  life = "running"
  BY Zenon DEF TypeOK, ControlOK, Phase

\* After Rearm() the platform deadline is no later than any active timer.
LEMMA RearmCovers ==
    ASSUME TypeOK, NEW tm \in [Slots -> TimerRecord], Rearm(tm),
           NEW s \in Slots, tm[s].active
    PROVE  armed' <= tm[s].due \/ armed' <= now
  <1>1. PICK r \in Slots :
          /\ tm[r].active /\ tm[r].due <= tm[s].due
          /\ armed' = IF tm[r].due > now THEN tm[r].due ELSE now
    BY Zenon DEF Rearm
  <1>2. tm[r].due \in Nat /\ tm[s].due \in Nat /\ now \in Nat
    BY TimeAssumption, BoundAssumption DEF TypeOK, TimersOK, TimerRecord
  <1> QED
    BY <1>1, <1>2

\* Taking a task makes none active, and gives none a due time of Forever.
LEMMA TakeTaskDue ==
    ASSUME TypeOK, NEW t \in Tasks, TakeTask(t), NEW u \in Tasks,
           task'[u].active
    PROVE  task[u].active /\ (task'[u].due = task[u].due \/ task'[u].due < Forever)
  <1>1. /\ task \in [Tasks -> TaskRecord]
        /\ task[t] \in TaskRecord /\ task[u] \in TaskRecord
    BY Zenon DEF TypeOK, TasksOK
  <1>2. task[t].due \in Nat /\ task[t].interval \in Times
    BY <1>1, TimeAssumption DEF TaskRecord, Times
  <1>3. After(task[t].due, task[t].interval) < Forever
    BY <1>2, AfterType, TimeAssumption
  <1> QED
    BY <1>1, <1>3, Zenon DEF TakeTask, TaskRecord

\* Accounting a completed task changes no task's activity or due time.
LEMMA ReturnTaskFrame ==
    ASSUME TypeOK, ReturnTask, NEW u \in Tasks
    PROVE  task'[u].active = task[u].active /\ task'[u].due = task[u].due
  <1> DEFINE t == stack[Len(stack)].task
  <1>1. task \in [Tasks -> TaskRecord] /\ task[u] \in TaskRecord
    BY Zenon DEF TypeOK, TasksOK
  <1> QED
    BY <1>1, Zenon DEF ReturnTask, TaskRecord

\* No step leaves a timer active outside the dispatch loop.
LEMMA TimersWhileRunningStep ==
    ASSUME TypeOK, Phase, TimersWhileRunning, TypeOK', [Next]_vars
    PROVE  TimersWhileRunning'
  <1> USE DEF TimersWhileRunning, status, work, locals, platform, history
  <1>1. CASE InitStep
    BY <1>1, Zenon DEF Phase, InitStep, BeginInit, RejectRegistration,
       ActivateDefaults, InitModule, InitModuleFails, FinishInit, FailInit,
       ReportFailure
  <1>2. CASE Run \/ RunAfterFailure
    BY <1>2, Zenon DEF Run, RunAfterFailure
  <1>3. CASE StartRun
    BY <1>3, Zenon DEF StartRun
  <1>4. CASE Sample \/ SelectStop \/ SelectNothing
    BY <1>4, Zenon DEF Sample, SelectStop, SelectNothing
  <1>5. CASE SelectEvent
    BY <1>5, Zenon DEF SelectEvent
  <1>6. CASE SelectTask \/ Yield
    BY <1>6, Zenon DEF SelectTask, Yield
  <1>7. CASE Deliver \/ ReturnTask \/ DispatchLog
    BY <1>7, Zenon DEF Deliver, ReturnTask, DispatchLog
  <1>8. CASE PrepareIdle
    <2>1. life = "running" /\ life' = "running"
      BY <1>8, LoopRuns, Zenon DEF PrepareIdle
    <2> QED
      BY <1>8, <2>1, Zenon DEF PrepareIdle
  <1>9. CASE EnterIdle \/ WakeNotified \/ WakeDeadline
    BY <1>9, Zenon DEF EnterIdle, WakeNotified, WakeDeadline
  <1>10. CASE BeginStop
    BY <1>10, Zenon DEF BeginStop, NoTimer
  <1>11. CASE Quiesce \/ Flush
    BY <1>11, Zenon DEF Quiesce, Flush, Notify
  <1>12. CASE TimerInterrupt
    <2>1. armed # Forever
      BY <1>12, TimeAssumption, BoundAssumption
      DEF TimerInterrupt, TypeOK, TimersOK
    <2> QED
      BY <1>12, <2>1, Zenon DEF TimerInterrupt
  <1>13. CASE FireScan
    BY <1>13, Zenon DEF FireScan, NoTimer, DueTimers
  <1>14. CASE FireCallback \/ InterruptReturn
    BY <1>14, Zenon DEF FireCallback, InterruptReturn, Notify
  <1>15. CASE \E m \in 0..NModules : Post(m)
    BY <1>15, Zenon DEF Post, Notify
  <1>16. CASE \E t \in Tasks, d \in Delays, mode \in {"once", "repeat"} :
              ScheduleSlot(t, d, mode)
    BY <1>16, ScheduleFrame, Zenon DEF AcceptsWork
  <1>17. CASE \E t \in Tasks : CancelSlot(t)
    BY <1>17, CancelFrame, Zenon DEF AcceptsWork
  <1>18. CASE \/ \E d \in Delays, c \in Callbacks : TimerSlot(d, c)
           \/ \E c \in Callbacks : CancelTimer(c)
    BY <1>18, Zenon DEF TimerSlot, CancelTimer, Notify, NoTimer
  <1>19. CASE Stop \/ LogWrite
    BY <1>19, Zenon DEF Stop, LogWrite, Notify
  <1>20. CASE Tick
    BY <1>20, Zenon DEF Tick
  <1>21. CASE UNCHANGED vars
    BY <1>21, Zenon DEF vars
  <1> QED
    BY <1>1, <1>2, <1>3, <1>4, <1>5, <1>6, <1>7, <1>8, <1>9, <1>10, <1>11,
       <1>12, <1>13, <1>14, <1>15, <1>16, <1>17, <1>18, <1>19, <1>20, <1>21,
       Zenon
    DEF Next, RunStep, Interrupt, Operation

\* After the scheduler stops, discarded work never comes back.
LEMMA WorkDiscardedStep ==
    ASSUME TypeOK, Phase, WorkDiscarded, TypeOK', [Next]_vars
    PROVE  WorkDiscarded'
  <1> USE DEF WorkDiscarded, status, work, locals, platform, history
  <1>1. CASE InitStep
    <2>1. CASE FailInit
      <3>1. \A t \in Tasks : ~task'[t].active
        BY <2>1 DEF FailInit, TypeOK, TasksOK, TaskRecord
      <3> QED
        BY <2>1, <3>1, Zenon DEF FailInit
    <2> QED
      BY <1>1, <2>1, Zenon DEF Phase, InitStep, BeginInit, RejectRegistration,
         ActivateDefaults, InitModule, InitModuleFails, FinishInit, ReportFailure
  <1>2. CASE Run \/ RunAfterFailure
    BY <1>2, Zenon DEF Run, RunAfterFailure
  <1>3. CASE StartRun
    BY <1>3, Zenon DEF StartRun
  <1>4. CASE Sample \/ SelectStop \/ SelectNothing
    BY <1>4, Zenon DEF Sample, SelectStop, SelectNothing
  <1>5. CASE SelectEvent
    <2>1. pc = "select" /\ life' = life /\ stack' = stack
      BY <1>5, Zenon DEF SelectEvent
    <2>2. life = "running"
      BY <2>1, LoopRuns, Zenon
    <2> QED
      BY <2>1, <2>2, Zenon
  <1>6. CASE SelectTask \/ Yield
    BY <1>6, Zenon
    DEF SelectTask, Yield, TakeTask, FirstDue, YieldTasks, DueTasks, Due
  <1>7. CASE Deliver \/ ReturnTask \/ DispatchLog
    <2>1. CASE ReturnTask
      <3>1. life = "running" /\ life' = "running"
        BY <2>1, LoopRuns, Zenon DEF ReturnTask
      <3>2. pc' # "task" => Len(stack') = 0 /\ stack' \in Seq(FrameRecord)
        BY <2>1, PopType DEF ReturnTask, TypeOK, TasksOK
      <3> QED
        BY <3>1, <3>2, EmptyQueue, Zenon
    <2> QED
      BY <1>7, <2>1, Zenon DEF Deliver, DispatchLog
  <1>8. CASE PrepareIdle
    BY <1>8, Zenon DEF PrepareIdle
  <1>9. CASE EnterIdle \/ WakeNotified \/ WakeDeadline
    BY <1>9, Zenon DEF EnterIdle, WakeNotified, WakeDeadline
  <1>10. CASE BeginStop
    <2>1. \A t \in Tasks : ~task'[t].active
      BY <1>10 DEF BeginStop, TypeOK, TasksOK, TaskRecord
    <2> QED
      BY <1>10, <2>1, Zenon DEF BeginStop
  <1>11. CASE Quiesce \/ Flush
    BY <1>11, Zenon DEF Quiesce, Flush, Notify
  <1>12. CASE TimerInterrupt
    BY <1>12, Zenon DEF TimerInterrupt
  <1>13. CASE FireScan
    BY <1>13, Zenon DEF FireScan, NoTimer, DueTimers
  <1>14. CASE FireCallback \/ InterruptReturn
    BY <1>14, Zenon DEF FireCallback, InterruptReturn, Notify
  <1>15. CASE \E m \in 0..NModules : Post(m)
    BY <1>15, Zenon DEF Post, AcceptsWork
  <1>16. CASE \E t \in Tasks, d \in Delays, mode \in {"once", "repeat"} :
              ScheduleSlot(t, d, mode)
    BY <1>16, ScheduleFrame, Zenon DEF AcceptsWork
  <1>17. CASE \E t \in Tasks : CancelSlot(t)
    BY <1>17, CancelFrame, Zenon DEF AcceptsWork
  <1>18. CASE \/ \E d \in Delays, c \in Callbacks : TimerSlot(d, c)
           \/ \E c \in Callbacks : CancelTimer(c)
    BY <1>18, Zenon DEF TimerSlot, CancelTimer, Notify, NoTimer
  <1>19. CASE Stop \/ LogWrite
    BY <1>19, Zenon DEF Stop, LogWrite, Notify
  <1>20. CASE Tick
    BY <1>20, Zenon DEF Tick
  <1>21. CASE UNCHANGED vars
    BY <1>21, Zenon DEF vars
  <1> QED
    BY <1>1, <1>2, <1>3, <1>4, <1>5, <1>6, <1>7, <1>8, <1>9, <1>10, <1>11,
       <1>12, <1>13, <1>14, <1>15, <1>16, <1>17, <1>18, <1>19, <1>20, <1>21,
       Zenon
    DEF Next, RunStep, Interrupt, Operation

\* No step makes an event due in the future or a task due at Forever.
LEMMA DueTimesStep ==
    ASSUME TypeOK, DueTimes, Phase, TypeOK', [Next]_vars
    PROVE  DueTimes'
  <1> USE DEF DueTimes, status, work, locals, platform, history
  <1>1. CASE InitStep
    <2>1. life' # "running"
      BY <1>1, Zenon DEF Phase, InitStep, BeginInit, RejectRegistration,
         ActivateDefaults, InitModule, InitModuleFails, FinishInit, FailInit,
         ReportFailure
    <2>2. (events' = events \/ events' = <<>>) /\ now' = now
      BY <1>1, Zenon DEF InitStep, BeginInit, RejectRegistration, ActivateDefaults,
         InitModule, InitModuleFails, FinishInit, FailInit, ReportFailure
    <2> QED
      BY <2>1, <2>2
  <1>2. CASE Run \/ RunAfterFailure
    BY <1>2, Zenon DEF Run, RunAfterFailure
  <1>3. CASE StartRun
    <2>1. ASSUME NEW t \in Tasks, task'[t].active PROVE task'[t].due < Forever
      <3>1. task[t] \in TaskRecord /\ now \in Nat
        BY BoundAssumption DEF TypeOK, TasksOK, TimersOK
      <3>a. task[t].interval \in Times
        BY <3>1, Zenon DEF TaskRecord
      <3>b. After(now, task[t].interval) \in 0..(Forever - 1)
        BY <3>1, <3>a, AfterType, Zenon
      <3>2. After(now, task[t].interval) < Forever
        BY <3>b, TimeAssumption
      <3> QED
        BY <1>3, <2>1, <3>1, <3>2, Zenon DEF StartRun, TaskRecord
    <2> QED
      BY <1>3, <2>1, Zenon DEF StartRun
  <1>4. CASE Sample \/ SelectStop \/ SelectNothing
    BY <1>4, Zenon DEF Sample, SelectStop, SelectNothing
  <1>5. CASE SelectEvent
    <2>1. UNCHANGED <<life, task, now>>
      BY <1>5, Zenon DEF SelectEvent
    <2> QED
      BY <1>5, <2>1, SelectEventQueue, Zenon
  <1>6. CASE SelectTask \/ Yield
    <2>1. PICK t \in Tasks : TakeTask(t)
      BY <1>6, Zenon DEF SelectTask, Yield
    <2>2. events' = events /\ now' = now /\ life' = life
      BY <1>6, Zenon DEF SelectTask, Yield
    <2> QED
      BY <2>1, <2>2, TakeTaskDue, Zenon
  <1>7. CASE Deliver \/ ReturnTask \/ DispatchLog
    <2>1. CASE ReturnTask
      <3>1. events' = events /\ now' = now /\ life' = life
        BY <2>1, Zenon DEF ReturnTask
      <3> QED
        BY <2>1, <3>1, ReturnTaskFrame, Zenon
    <2> QED
      BY <1>7, <2>1, Zenon DEF Deliver, DispatchLog
  <1>8. CASE PrepareIdle
    BY <1>8, Zenon DEF PrepareIdle
  <1>9. CASE EnterIdle \/ WakeNotified \/ WakeDeadline
    BY <1>9, Zenon DEF EnterIdle, WakeNotified, WakeDeadline
  <1>10. CASE BeginStop
    <2>1. life' = "stopping" /\ events' = <<>>
      BY <1>10, Zenon DEF BeginStop
    <2> QED
      BY <2>1
  <1>11. CASE Quiesce \/ Flush
    BY <1>11, Zenon DEF Quiesce, Flush, Notify
  <1>12. CASE TimerInterrupt
    BY <1>12, Zenon DEF TimerInterrupt
  <1>13. CASE FireScan
    BY <1>13, Zenon DEF FireScan, NoTimer, DueTimers
  <1>14. CASE FireCallback \/ InterruptReturn
    BY <1>14, Zenon DEF FireCallback, InterruptReturn, Notify
  <1>15. CASE \E m \in 0..NModules : Post(m)
    <2>1. PICK m \in 0..NModules : Post(m)
      BY <1>15, Zenon
    <2>2. ASSUME NEW i \in DOMAIN events' PROVE events'[i].due <= now'
      <3>1. events \in Seq(EventRecord) /\ now \in Nat
        BY BoundAssumption DEF TypeOK, QueuesOK, TimersOK
      <3>2. i = Len(events) + 1 \/ i \in DOMAIN events
        BY <2>1, <3>1 DEF Post
      <3> QED
        BY <2>1, <3>1, <3>2 DEF Post
    <2> QED
      BY <2>1, <2>2, Zenon DEF Post
  <1>16. CASE \E t \in Tasks, d \in Delays, mode \in {"once", "repeat"} :
              ScheduleSlot(t, d, mode)
    <2>1. PICK t \in Tasks, d \in Delays, mode \in {"once", "repeat"} :
            ScheduleSlot(t, d, mode)
      BY <1>16, Zenon
    <2>2. task \in [Tasks -> TaskRecord] /\ now \in Nat /\ d \in Times
      BY BoundAssumption, TimeAssumption DEF TypeOK, TasksOK, TimersOK
    <2>3. After(now, d) < Forever
      <3>1. After(now, d) \in 0..(Forever - 1)
        BY <2>2, AfterType, Zenon
      <3> QED
        BY <3>1, TimeAssumption
    <2>4. ASSUME life = "running", NEW u \in Tasks, task'[u].active
          PROVE  task'[u].due < Forever
      <3>1. task' = [task EXCEPT ![t] = Scheduled(task[t], d, mode)]
        BY <2>1, Zenon DEF ScheduleSlot
      <3>2. task[t] \in TaskRecord /\ task[u] \in TaskRecord
        BY <2>2, Zenon
      <3>3. Scheduled(task[t], d, mode).due = After(now, d)
        BY <2>4, <3>2, Zenon DEF Scheduled, TaskRecord
      <3> QED
        BY <2>2, <2>3, <2>4, <3>1, <3>3, Zenon
    <2> QED
      BY <1>16, <2>4, ScheduleFrame, Zenon
  <1>17. CASE \E t \in Tasks : CancelSlot(t)
    <2>1. PICK t \in Tasks : CancelSlot(t)
      BY <1>17, Zenon
    <2>2. task \in [Tasks -> TaskRecord]
      BY Zenon DEF TypeOK, TasksOK
    <2>3. ASSUME NEW u \in Tasks, task'[u].active
          PROVE  task[u].active /\ task'[u].due = task[u].due
      BY <2>1, <2>2, <2>3, Zenon DEF CancelSlot, TaskRecord
    <2> QED
      BY <1>17, <2>3, CancelFrame, Zenon
  <1>18. CASE \/ \E d \in Delays, c \in Callbacks : TimerSlot(d, c)
           \/ \E c \in Callbacks : CancelTimer(c)
    BY <1>18, Zenon DEF TimerSlot, CancelTimer, Notify, NoTimer
  <1>19. CASE Stop \/ LogWrite
    BY <1>19, Zenon DEF Stop, LogWrite, Notify
  <1>20. CASE Tick
    <2>1. ASSUME NEW i \in DOMAIN events PROVE events[i].due <= now + 1
      <3>0. events \in Seq(EventRecord)
        BY Zenon DEF TypeOK, QueuesOK
      <3>1. events[i] \in EventRecord /\ now \in Nat
        BY <3>0, BoundAssumption DEF TypeOK, TimersOK
      <3>2. events[i].due \in Nat /\ events[i].due <= now
        BY <3>1 DEF EventRecord
      <3> QED
        BY <3>1, <3>2
    <2> QED
      BY <1>20, <2>1, Zenon DEF Tick
  <1>21. CASE UNCHANGED vars
    BY <1>21, Zenon DEF vars
  <1> QED
    BY <1>1, <1>2, <1>3, <1>4, <1>5, <1>6, <1>7, <1>8, <1>9, <1>10, <1>11,
       <1>12, <1>13, <1>14, <1>15, <1>16, <1>17, <1>18, <1>19, <1>20, <1>21,
       Zenon
    DEF Next, RunStep, Interrupt, Operation

\* While run() prepares to idle, its deadline covers every task and timer it
\* saw, or a notification announces the change.
LEMMA IdlePassStep ==
    ASSUME TypeOK, IdlePass, DueTimes, Phase, TypeOK', [Next]_vars
    PROVE  IdlePass'
  <1> USE DEF IdlePass, status, work, locals, platform, history
  <1>1. CASE InitStep
    BY <1>1, Zenon DEF InitStep, BeginInit, RejectRegistration, ActivateDefaults,
       InitModule, InitModuleFails, FinishInit, FailInit, ReportFailure
  <1>2. CASE Run \/ RunAfterFailure
    BY <1>2, Zenon DEF Run, RunAfterFailure
  <1>3. CASE StartRun
    BY <1>3, Zenon DEF StartRun
  <1>4. CASE Sample \/ SelectStop \/ SelectNothing
    <2>1. CASE SelectNothing
      <3>1. events \in Seq(EventRecord) /\ now \in Nat
        BY BoundAssumption DEF TypeOK, QueuesOK, TimersOK
      <3>2. ASSUME NEW i \in DOMAIN events PROVE FALSE
        <4>1. events[i] \in EventRecord
          BY <3>1
        <4>2. events[i].due \in Nat
          BY <4>1, BoundAssumption DEF EventRecord
        <4> QED
          BY <2>1, <3>1, <4>2 DEF SelectNothing, DueTimes
      <3>3. Len(events) = 0
        <4>1. Len(events) \in Nat /\ DOMAIN events = 1..Len(events)
          BY <3>1
        <4>2. Len(events) > 0 => 1 \in DOMAIN events
          BY <4>1
        <4> QED
          BY <3>2, <4>1, <4>2
      <3>4. events = <<>>
        BY <3>1, <3>3, EmptyQueue, Zenon
      <3> QED
        BY <2>1, <3>4, Zenon DEF SelectNothing
    <2> QED
      BY <1>4, <2>1, Zenon DEF Sample, SelectStop
  <1>5. CASE SelectEvent
    BY <1>5, Zenon DEF SelectEvent
  <1>6. CASE SelectTask \/ Yield
    BY <1>6, Zenon DEF SelectTask, Yield
  <1>7. CASE Deliver \/ ReturnTask \/ DispatchLog
    <2>1. CASE DispatchLog
      BY <2>1 DEF DispatchLog, TypeOK, QueuesOK
    <2> QED
      BY <1>7, <2>1, Zenon DEF Deliver, ReturnTask
  <1>8. CASE PrepareIdle
    <2>1. CASE stop_requested \/ logs > 0
      BY <1>8, <2>1, Zenon DEF PrepareIdle
    <2>2. CASE ~(stop_requested \/ logs > 0)
      <3>1. PICK d \in 0..Forever :
              /\ \/ d = Forever /\ \A t \in Tasks : ~task[t].active
                 \/ /\ \E t \in Tasks : task[t].active /\ task[t].due = d
                    /\ \A t \in Tasks : task[t].active => d <= task[t].due
              /\ timers' = [timers EXCEPT ![Wake] = WakeTimer(d)]
        BY <1>8, <2>2, Zenon DEF PrepareIdle
      <3>2. life = "running"
        BY <1>8, LoopRuns, Zenon DEF PrepareIdle
      <3>3. Wake \in Slots /\ timers \in [Slots -> TimerRecord]
        BY SizeAssumption DEF Wake, Slots, TypeOK, TimersOK
      <3>4. timers'[Wake] = WakeTimer(d)
        BY <3>1, <3>3, Zenon
      <3>5. ASSUME NEW t \in Tasks, task[t].active
            PROVE  timers'[Wake].active /\ timers'[Wake].due <= task[t].due
        <4>1. task[t].due < Forever /\ d <= task[t].due
          BY <3>1, <3>2, <3>5, Zenon DEF DueTimes
        <4>2. d # Forever
          <5>0. task[t] \in TaskRecord
            BY Zenon DEF TypeOK, TasksOK
          <5>1. task[t].due \in Nat
            BY <5>0, TimeAssumption DEF TaskRecord, Times
          <5> QED
            BY <4>1, <5>1, TimeAssumption
        <4> QED
          BY <3>4, <4>1, <4>2 DEF WakeTimer
      <3>6. logs = 0
        BY <2>2 DEF TypeOK, QueuesOK
      <3> QED
        BY <1>8, <2>2, <3>5, <3>6, Zenon DEF PrepareIdle
    <2> QED
      BY <2>1, <2>2, Zenon
  <1>9. CASE EnterIdle \/ WakeNotified \/ WakeDeadline
    BY <1>9, Zenon DEF EnterIdle, WakeNotified, WakeDeadline
  <1>10. CASE BeginStop
    BY <1>10, Zenon DEF BeginStop, NoTimer
  <1>11. CASE Quiesce \/ Flush
    BY <1>11, Zenon DEF Quiesce, Flush, Notify
  <1>12. CASE TimerInterrupt
    BY <1>12, Zenon DEF TimerInterrupt
  <1>13. CASE FireScan
    BY <1>13, Zenon DEF FireScan, NoTimer, DueTimers
  <1>14. CASE FireCallback \/ InterruptReturn
    BY <1>14, Zenon DEF FireCallback, InterruptReturn, Notify
  <1>15. CASE \E m \in 0..NModules : Post(m)
    BY <1>15, Zenon DEF Post, Notify
  <1>16. CASE \E t \in Tasks, d \in Delays, mode \in {"once", "repeat"} :
              ScheduleSlot(t, d, mode)
    BY <1>16, ScheduleFrame, Zenon
  <1>17. CASE \E t \in Tasks : CancelSlot(t)
    BY <1>17, CancelFrame, Zenon DEF AcceptsWork
  <1>18. CASE \/ \E d \in Delays, c \in Callbacks : TimerSlot(d, c)
           \/ \E c \in Callbacks : CancelTimer(c)
    BY <1>18, Zenon DEF TimerSlot, CancelTimer, Notify, NoTimer
  <1>19. CASE Stop \/ LogWrite
    BY <1>19, Zenon DEF Stop, LogWrite, Notify
  <1>20. CASE Tick
    BY <1>20, Zenon DEF Tick
  <1>21. CASE UNCHANGED vars
    BY <1>21, Zenon DEF vars
  <1> QED
    BY <1>1, <1>2, <1>3, <1>4, <1>5, <1>6, <1>7, <1>8, <1>9, <1>10, <1>11,
       <1>12, <1>13, <1>14, <1>15, <1>16, <1>17, <1>18, <1>19, <1>20, <1>21,
       Zenon
    DEF Next, RunStep, Interrupt, Operation

\* Every step keeps the platform timer no later than the earliest active
\* timer, or an interrupt in progress will rescan.
LEMMA TimersCoveredStep ==
    ASSUME TypeOK, TimersWhileRunning, TimersCovered, Phase, TypeOK', [Next]_vars
    PROVE  TimersCovered'
  <1> USE DEF TimersCovered, status, work, locals, platform, history
  <1>1. CASE InitStep
    BY <1>1, Zenon DEF InitStep, BeginInit, RejectRegistration, ActivateDefaults,
       InitModule, InitModuleFails, FinishInit, FailInit, ReportFailure
  <1>2. CASE Run \/ RunAfterFailure
    BY <1>2, Zenon DEF Run, RunAfterFailure
  <1>3. CASE StartRun
    BY <1>3, Zenon DEF StartRun, TimersWhileRunning, Phase
  <1>4. CASE Sample \/ SelectStop \/ SelectNothing
    BY <1>4, Zenon DEF Sample, SelectStop, SelectNothing
  <1>5. CASE SelectEvent
    BY <1>5, Zenon DEF SelectEvent
  <1>6. CASE SelectTask \/ Yield
    BY <1>6, Zenon DEF SelectTask, Yield
  <1>7. CASE Deliver \/ ReturnTask \/ DispatchLog
    BY <1>7, Zenon DEF Deliver, ReturnTask, DispatchLog
  <1>8. CASE PrepareIdle
    <2>1. CASE stop_requested \/ logs > 0
      BY <1>8, <2>1, Zenon DEF PrepareIdle
    <2>2. CASE ~(stop_requested \/ logs > 0)
      <3>1. timers' \in [Slots -> TimerRecord] /\ now' = now
        BY <1>8, Zenon DEF TypeOK, TimersOK, PrepareIdle
      <3>2. Rearm(timers')
        BY <1>8, <2>2, Zenon DEF PrepareIdle
      <3> QED
        BY <3>1, <3>2, RearmCovers, Zenon
    <2> QED
      BY <2>1, <2>2, Zenon
  <1>9. CASE EnterIdle \/ WakeNotified \/ WakeDeadline
    BY <1>9, Zenon DEF EnterIdle, WakeNotified, WakeDeadline
  <1>10. CASE BeginStop
    BY <1>10, Zenon DEF BeginStop, NoTimer
  <1>11. CASE Quiesce \/ Flush
    BY <1>11, Zenon DEF Quiesce, Flush, Phase
  <1>12. CASE TimerInterrupt
    BY <1>12, Zenon DEF TimerInterrupt
  <1>13. CASE FireScan
    <2>1. now' = now /\ life' = life /\ timers \in [Slots -> TimerRecord]
      BY <1>13, Zenon DEF FireScan, TypeOK, TimersOK
    <2>2. CASE life = "running" /\ Rearm(timers) /\ timers' = timers
      BY <2>1, <2>2, RearmCovers, Zenon
    <2> QED
      BY <1>13, <2>1, <2>2, Zenon DEF FireScan
  <1>14. CASE FireCallback \/ InterruptReturn
    BY <1>14, Zenon DEF FireCallback, InterruptReturn, Notify
  <1>15. CASE \E m \in 0..NModules : Post(m)
    BY <1>15, Zenon DEF Post, Notify
  <1>16. CASE \E t \in Tasks, d \in Delays, mode \in {"once", "repeat"} :
              ScheduleSlot(t, d, mode)
    BY <1>16, ScheduleFrame, Zenon DEF AcceptsWork
  <1>17. CASE \E t \in Tasks : CancelSlot(t)
    BY <1>17, CancelFrame, Zenon DEF AcceptsWork
  <1>18. CASE \/ \E d \in Delays, c \in Callbacks : TimerSlot(d, c)
           \/ \E c \in Callbacks : CancelTimer(c)
    <2>1. timers' \in [Slots -> TimerRecord] /\ now' = now /\ Rearm(timers')
      BY <1>18, Zenon DEF TypeOK, TimersOK, TimerSlot, CancelTimer
    <2> QED
      BY <2>1, RearmCovers, Zenon
  <1>19. CASE Stop \/ LogWrite
    BY <1>19, Zenon DEF Stop, LogWrite, Notify
  <1>20. CASE Tick
    <2>1. now \in Nat /\ armed \in Nat /\ now' = now + 1 /\ armed' = armed
      BY <1>20, BoundAssumption, TimeAssumption DEF Tick, TypeOK, TimersOK
    <2>2. armed <= now => armed' <= now'
      BY <2>1
    <2> QED
      BY <1>20, <2>1, <2>2, Zenon DEF Tick
  <1>21. CASE UNCHANGED vars
    BY <1>21, Zenon DEF vars
  <1> QED
    BY <1>1, <1>2, <1>3, <1>4, <1>5, <1>6, <1>7, <1>8, <1>9, <1>10, <1>11,
       <1>12, <1>13, <1>14, <1>15, <1>16, <1>17, <1>18, <1>19, <1>20, <1>21,
       Zenon
    DEF Next, RunStep, Interrupt, Operation

\* The inductive invariant holds initially.
LEMMA InvInit == Init => IInv
  <1> SUFFICES ASSUME Init PROVE IInv
    BY Zenon
  <1>1. TypeOK
    BY TypeInit, Zenon
  <1>2. Phase /\ IdlePass /\ WorkDiscarded
    BY Zenon DEF Init, Phase, IdlePass, WorkDiscarded
  <1>3. TimersWhileRunning /\ TimersCovered
    BY Zenon DEF Init, NoTimer, TimersWhileRunning, TimersCovered
  <1>4. DueTimes
    BY DEF Init, DueTimes
  <1> QED
    BY <1>1, <1>2, <1>3, <1>4, Zenon DEF IInv

\* The inductive invariant is preserved by every step.
LEMMA InvStep == IInv /\ [Next]_vars => IInv'
  BY TypeStep, PhaseStep, TimersWhileRunningStep, WorkDiscardedStep,
     DueTimesStep, IdlePassStep, TimersCoveredStep, Zenon
  DEF IInv

\* The inductive invariant holds in every reachable state.
LEMMA InvAlways == Spec => []IInv
  BY InvInit, InvStep, PTL DEF Spec

\* The platform timer always covers the earliest active timer: Rearm() after
\* every change, and the rescan in Fire(), leave no gap for any number of
\* timers and callers.
THEOREM TimersAlwaysCovered == Spec => []TimersCovered
  <1>1. IInv => TimersCovered
    BY Zenon DEF IInv
  <1> QED
    BY <1>1, InvAlways, PTL

\* run() never blocks in idle() on work that nobody will announce, for any
\* number of tasks, timers, queue sizes and interrupting callers.
THEOREM WakeupsNeverLost == Spec => []NoLostWakeup
  <1>1. IInv => NoLostWakeup
    BY Zenon DEF IInv, IdlePass, NoLostWakeup
  <1> QED
    BY <1>1, InvAlways, PTL

\* After a stop, or a failed initialization, no work and no timer is left, and
\* run() has waited for the interrupt handler and for every callback.
THEOREM StopQuiescent == Spec => []Quiescent
  <1>1. IInv => Quiescent
    BY Zenon DEF IInv, Phase, TimersWhileRunning, WorkDiscarded, Quiescent
  <1> QED
    BY <1>1, InvAlways, PTL

(***************************************************************************)
(* The task stack and the progress accounts.                               *)
(***************************************************************************)
\* A frame on the stack was pushed under its task's request or an earlier one.
FramesNotNewer ==
    \A i \in DOMAIN stack : stack[i].generation <= task[stack[i].task].generation

\* No iteration completes before run().
NothingCompleted ==
    life \in {"fresh", "initializing", "ready"} =>
        \A t \in Tasks : task[t].completed = 0

TaskInv == NoReentry /\ FramesNotNewer /\ NothingCompleted /\ ProgressAccounting

(***************************************************************************)
(* Where event v is, as EventsConserved says it, without sets.             *)
(***************************************************************************)
Waits(v) ==
    /\ \E i \in DOMAIN events :
         \A j \in DOMAIN events : events[j].value = v <=> j = i
    /\ \A m \in Modules : <<v, m>> \notin received

Removed(v) == \A j \in DOMAIN events : events[j].value # v

InDelivery(v) ==
    /\ Removed(v) /\ pc = "deliver" /\ event.value = v
    /\ cursor \in Modules
    /\ \A m \in Modules :
         <<v, m>> \in received <=> m < cursor /\ m # event.sender

WasDelivered(v) ==
    /\ Removed(v)
    /\ \E m \in 0..NModules : \A n \in Modules : n # m => <<v, n>> \in received

\* No event carries a number that was not given out yet, and the event that is
\* being delivered is in no other place.
EventInv ==
    AcceptsWork =>
        /\ \A i \in DOMAIN events : events[i].value <= posted
        /\ \A v \in 1..MaxPosts, m \in Modules : <<v, m>> \in received => v <= posted
        /\ pc = "deliver" => event.value \in 1..posted /\ InDelivery(event.value)
        /\ \A v \in 1..posted : Waits(v) \/ InDelivery(v) \/ WasDelivered(v)

(***************************************************************************)
(* Steps that concern tasks.                                               *)
(***************************************************************************)
\* The steps that touch the task table or the stack.
LEMMA TaskSteps ==
    ASSUME [Next]_vars
    PROVE  \/ ActivateDefaults \/ FailInit \/ StartRun \/ SelectTask \/ Yield
           \/ ReturnTask \/ BeginStop
           \/ \E t \in Tasks, d \in Delays, mode \in {"once", "repeat"} :
                ScheduleSlot(t, d, mode)
           \/ \E t \in Tasks : CancelSlot(t)
           \/ UNCHANGED <<task, stack>>
  <1> USE DEF work, locals
  <1>1. CASE \/ BeginInit \/ RejectRegistration \/ InitModule \/ InitModuleFails
             \/ FinishInit \/ ReportFailure \/ Run \/ RunAfterFailure
    BY <1>1, Zenon DEF BeginInit, RejectRegistration, InitModule,
       InitModuleFails, FinishInit, ReportFailure, Run, RunAfterFailure
  <1>2. CASE \/ Sample \/ SelectStop \/ SelectEvent \/ SelectNothing \/ Deliver
             \/ DispatchLog \/ PrepareIdle
    BY <1>2, Zenon DEF Sample, SelectStop, SelectEvent, SelectNothing, Deliver,
       DispatchLog, PrepareIdle
  <1>3. CASE EnterIdle \/ WakeNotified \/ WakeDeadline \/ Quiesce \/ Flush
    BY <1>3, Zenon DEF EnterIdle, WakeNotified, WakeDeadline, Quiesce, Flush
  <1>4. CASE Interrupt \/ Tick
    BY <1>4, Zenon DEF Interrupt, TimerInterrupt, FireScan, FireCallback,
       InterruptReturn, Tick
  <1>5. CASE \/ Stop \/ LogWrite
             \/ \E m \in 0..NModules : Post(m)
             \/ \E d \in Delays, c \in Callbacks : TimerSlot(d, c)
             \/ \E c \in Callbacks : CancelTimer(c)
    BY <1>5, Zenon DEF Stop, LogWrite, Post, TimerSlot, CancelTimer
  <1>6. CASE UNCHANGED vars
    BY <1>6, Zenon DEF vars
  <1> QED
    BY <1>1, <1>2, <1>3, <1>4, <1>5, <1>6, Zenon
    DEF Next, InitStep, RunStep, Operation

\* Only StartRun enters the dispatch loop, and nothing leads back before it.
LEMMA LifeForward ==
    ASSUME TypeOK, Phase, [Next]_vars
    PROVE  /\ life' = "running" => life = "running" \/ StartRun
           /\ life' \in {"fresh", "initializing", "ready"} =>
                life \in {"fresh", "initializing", "ready"}
           /\ AcceptsWork' => AcceptsWork
  <1> USE DEF status, AcceptsWork
  <1>1. CASE BeginInit \/ FinishInit \/ FailInit
    <2>1. life \in {"fresh", "initializing", "ready", "running", "stopping",
                    "stopped", "failed"}
      BY Zenon DEF TypeOK, ControlOK
    <2>2. FinishInit => life = "initializing"
      BY <2>1, Zenon DEF Phase, FinishInit
    <2> QED
      BY <1>1, <2>2, Zenon DEF BeginInit, FinishInit, FailInit
  <1>2. CASE StartRun
    <2>1. life \in {"fresh", "initializing", "ready", "running", "stopping",
                    "stopped", "failed"}
      BY Zenon DEF TypeOK, ControlOK
    <2>2. life = "ready"
      BY <1>2, <2>1, Zenon DEF Phase, StartRun
    <2>3. life' = "running"
      BY <1>2, Zenon DEF StartRun
    <2> QED
      BY <1>2, <2>2, <2>3, Zenon
  <1>3. CASE BeginStop \/ Flush
    BY <1>3, Zenon DEF BeginStop, Flush
  <1>4. CASE \/ RejectRegistration \/ ActivateDefaults \/ InitModule
             \/ InitModuleFails \/ ReportFailure \/ Run \/ RunAfterFailure
    BY <1>4, Zenon DEF RejectRegistration, ActivateDefaults, InitModule,
       InitModuleFails, ReportFailure, Run, RunAfterFailure
  <1>5. CASE \/ Sample \/ SelectStop \/ SelectEvent \/ SelectTask \/ SelectNothing
             \/ Deliver \/ ReturnTask \/ Yield \/ DispatchLog \/ PrepareIdle
    BY <1>5, Zenon DEF Sample, SelectStop, SelectEvent, SelectTask,
       SelectNothing, Deliver, ReturnTask, Yield, DispatchLog, PrepareIdle
  <1>6. CASE EnterIdle \/ WakeNotified \/ WakeDeadline \/ Quiesce
    BY <1>6, Zenon DEF EnterIdle, WakeNotified, WakeDeadline, Quiesce
  <1>7. CASE Interrupt \/ Tick
    BY <1>7, Zenon DEF Interrupt, TimerInterrupt, FireScan, FireCallback,
       InterruptReturn, Tick
  <1>8. CASE Operation
    BY <1>8, Zenon DEF Operation, Stop, LogWrite, Post, TimerSlot, CancelTimer,
       ScheduleSlot, CancelSlot
  <1>9. CASE UNCHANGED vars
    BY <1>9, Zenon DEF vars
  <1> QED
    BY <1>1, <1>2, <1>3, <1>4, <1>5, <1>6, <1>7, <1>8, <1>9, Zenon
    DEF Next, InitStep, RunStep

\* Taking task t pushes its frame and changes the record of t only.
LEMMA TakeTaskFields ==
    ASSUME TypeOK, NEW t \in Tasks, TakeTask(t)
    PROVE  /\ \A u \in Tasks : u # t => task'[u] = task[u]
           /\ task'[t].executing
           /\ task'[t].mode = task[t].mode /\ task'[t].interval = task[t].interval
           /\ task'[t].first_due = task[t].first_due
           /\ task'[t].completed = task[t].completed
           /\ task'[t].generation = task[t].generation
           /\ task[t].mode = "repeat" =>
                task'[t].due = After(task[t].due, task[t].interval)
           /\ task[t].mode # "repeat" => ~task'[t].active
  <1>1. task \in [Tasks -> TaskRecord] /\ task[t] \in TaskRecord
    BY Zenon DEF TypeOK, TasksOK
  <1>2. CASE task[t].mode = "repeat"
    BY <1>1, <1>2, Zenon DEF TakeTask, TaskRecord
  <1>3. CASE task[t].mode # "repeat"
    BY <1>1, <1>3, Zenon DEF TakeTask, TaskRecord
  <1> QED
    BY <1>2, <1>3, Zenon

\* ... with the request under which it was claimed.
LEMMA TakeTaskStack ==
    ASSUME TypeOK, NEW t \in Tasks, TakeTask(t)
    PROVE  /\ Len(stack) \in Nat /\ DOMAIN stack = 1..Len(stack)
           /\ Len(stack') = Len(stack) + 1 /\ DOMAIN stack' = 1..Len(stack')
           /\ \A i \in DOMAIN stack : stack'[i] = stack[i]
           /\ stack'[Len(stack')].task = t
           /\ stack'[Len(stack')].generation = task[t].generation
  <1>1. stack \in Seq(FrameRecord)
    BY Zenon DEF TypeOK, TasksOK
  <1>2. stack' = Append(stack, [task |-> t, generation |-> task[t].generation])
    BY Zenon DEF TakeTask
  <1> QED
    BY <1>1, <1>2

\* The innermost frame is popped, and its task's record changes in two fields.
LEMMA ReturnTaskFields ==
    ASSUME TypeOK, ReturnTask
    PROVE  LET frame == stack[Len(stack)] IN
           /\ frame.task \in Tasks
           /\ \A u \in Tasks : u # frame.task => task'[u] = task[u]
           /\ ~task'[frame.task].executing
           /\ \A u \in Tasks : /\ task'[u].active = task[u].active
                               /\ task'[u].mode = task[u].mode
                               /\ task'[u].interval = task[u].interval
                               /\ task'[u].due = task[u].due
                               /\ task'[u].first_due = task[u].first_due
                               /\ task'[u].generation = task[u].generation
           /\ task'[frame.task].completed =
                IF Counts(frame) THEN task[frame.task].completed + 1
                ELSE task[frame.task].completed
  <1> DEFINE frame == stack[Len(stack)]
  <1>1. task \in [Tasks -> TaskRecord] /\ stack \in Seq(FrameRecord)
    BY Zenon DEF TypeOK, TasksOK
  <1>2. frame \in FrameRecord
    BY <1>1, PopType, Zenon DEF ReturnTask
  <1>3. frame.task \in Tasks
    BY <1>2, Zenon DEF FrameRecord
  <1>4. task' = [task EXCEPT ![frame.task].executing = FALSE,
                   ![frame.task].completed =
                      IF Counts(frame) THEN @ + 1 ELSE @]
    BY Zenon DEF ReturnTask
  <1> HIDE DEF frame
  <1>5. \A u \in Tasks : task[u] \in TaskRecord
    BY <1>1, Zenon
  <1>6. \A u \in Tasks : u # frame.task => task'[u] = task[u]
    BY <1>1, <1>3, <1>4, Zenon
  <1>7. /\ ~task'[frame.task].executing
        /\ task'[frame.task].completed =
             IF Counts(frame) THEN task[frame.task].completed + 1
             ELSE task[frame.task].completed
    BY <1>1, <1>3, <1>4, <1>5, Zenon DEF TaskRecord
  <1>8. /\ task'[frame.task].active = task[frame.task].active
        /\ task'[frame.task].mode = task[frame.task].mode
        /\ task'[frame.task].interval = task[frame.task].interval
        /\ task'[frame.task].due = task[frame.task].due
        /\ task'[frame.task].first_due = task[frame.task].first_due
        /\ task'[frame.task].generation = task[frame.task].generation
    BY <1>1, <1>3, <1>4, <1>5, Zenon DEF TaskRecord
  <1> QED
    BY <1>3, <1>6, <1>7, <1>8, Zenon DEF frame

\* The frames below the innermost one stay.
LEMMA ReturnTaskStack ==
    ASSUME TypeOK, ReturnTask
    PROVE  /\ Len(stack) \in Nat \ {0} /\ DOMAIN stack = 1..Len(stack)
           /\ Len(stack') = Len(stack) - 1 /\ DOMAIN stack' = 1..Len(stack')
           /\ \A i \in DOMAIN stack' : stack'[i] = stack[i]
  <1>1. stack \in Seq(FrameRecord) /\ stack # <<>>
    BY Zenon DEF TypeOK, TasksOK, ReturnTask
  <1>2. stack' = SubSeq(stack, 1, Len(stack) - 1)
    BY Zenon DEF ReturnTask
  <1>3. Len(stack) \in Nat \ {0} /\ stack' \in Seq(FrameRecord)
        /\ Len(stack') = Len(stack) - 1
        /\ \A i \in 1..(Len(stack) - 1) : stack'[i] = stack[i]
    BY <1>1, <1>2, PopType, Zenon
  <1> QED
    BY <1>1, <1>3

\* The steps that change the table but not the stack keep who is executing, take
\* no generation back, and count no iteration.
LEMMA TableSteps ==
    ASSUME TypeOK,
           \/ ActivateDefaults \/ FailInit \/ StartRun \/ BeginStop
           \/ \E t \in Tasks, d \in Delays, mode \in {"once", "repeat"} :
                ScheduleSlot(t, d, mode)
           \/ \E t \in Tasks : CancelSlot(t)
    PROVE  /\ stack' = stack
           /\ \A u \in Tasks :
                /\ task'[u].executing = task[u].executing
                /\ task[u].generation <= task'[u].generation
                /\ task'[u].completed \in {0, task[u].completed}
  <1>1. task \in [Tasks -> TaskRecord] /\ \A u \in Tasks : task[u] \in TaskRecord
    BY Zenon DEF TypeOK, TasksOK
  <1>2. \A u \in Tasks : task[u].generation \in Nat
    BY <1>1 DEF TaskRecord
  <1>3. \A u \in Tasks : task[u].generation <= task[u].generation
    BY <1>2
  <1>4. CASE ActivateDefaults
    <2>1. stack' = stack
      BY <1>4, Zenon DEF ActivateDefaults
    <2>2. ASSUME NEW u \in Tasks
          PROVE  /\ task'[u].executing = task[u].executing
                 /\ task'[u].generation = task[u].generation
                 /\ task'[u].completed = task[u].completed
      BY <1>1, <1>4, Zenon DEF ActivateDefaults, TaskRecord
    <2> QED
      BY <1>3, <2>1, <2>2, Zenon
  <1>5. CASE FailInit \/ BeginStop
    <2>1. stack' = stack
      BY <1>5, Zenon DEF FailInit, BeginStop, locals
    <2>2. ASSUME NEW u \in Tasks
          PROVE  /\ task'[u].executing = task[u].executing
                 /\ task'[u].generation = task[u].generation
                 /\ task'[u].completed = task[u].completed
      <3>1. task' = [t \in Tasks |-> [task[t] EXCEPT !.active = FALSE]]
        BY <1>5, Zenon DEF FailInit, BeginStop
      <3> QED
        BY <1>1, <3>1, Zenon DEF TaskRecord
    <2> QED
      BY <1>3, <2>1, <2>2, Zenon
  <1>6. CASE StartRun
    <2>1. stack' = stack
      BY <1>6, Zenon DEF StartRun, locals
    <2>2. ASSUME NEW u \in Tasks
          PROVE  /\ task'[u].executing = task[u].executing
                 /\ task'[u].generation = task[u].generation
                 /\ task'[u].completed = task[u].completed
      BY <1>1, <1>6, Zenon DEF StartRun, TaskRecord
    <2> QED
      BY <1>3, <2>1, <2>2, Zenon
  <1>7. CASE \E t \in Tasks, d \in Delays, mode \in {"once", "repeat"} :
               ScheduleSlot(t, d, mode)
    <2>1. PICK t \in Tasks, d \in Delays, mode \in {"once", "repeat"} :
            ScheduleSlot(t, d, mode)
      BY <1>7, Zenon
    <2>2. task' = [task EXCEPT ![t] = Scheduled(task[t], d, mode)] /\ stack' = stack
      BY <2>1, Zenon DEF ScheduleSlot, locals
    <2>3. \A u \in Tasks : u # t => task'[u] = task[u]
      BY <1>1, <2>2, Zenon
    <2>4. /\ task'[t].executing = task[t].executing /\ task'[t].completed = 0
          /\ task'[t].generation = task[t].generation + 1
      BY <1>1, <2>2, Zenon DEF Scheduled
    <2>5. task[t].generation <= task'[t].generation
      BY <1>2, <2>4
    <2> QED
      BY <1>3, <2>2, <2>3, <2>4, <2>5, Zenon
  <1>8. CASE \E t \in Tasks : CancelSlot(t)
    <2>1. PICK t \in Tasks : CancelSlot(t)
      BY <1>8, Zenon
    <2>2. /\ task' = [task EXCEPT ![t].active = FALSE,
                        ![t].explicitly_scheduled = TRUE, ![t].generation = @ + 1]
          /\ stack' = stack
      BY <2>1, Zenon DEF CancelSlot, locals
    <2>3. \A u \in Tasks : u # t => task'[u] = task[u]
      BY <1>1, <2>2, Zenon
    <2>4. /\ task'[t].executing = task[t].executing
          /\ task'[t].completed = task[t].completed
          /\ task'[t].generation = task[t].generation + 1
      BY <1>1, <2>2, Zenon DEF TaskRecord
    <2>5. task[t].generation <= task'[t].generation
      BY <1>2, <2>4
    <2> QED
      BY <1>3, <2>2, <2>3, <2>4, <2>5, Zenon
  <1> QED
    BY <1>4, <1>5, <1>6, <1>7, <1>8, Zenon

\* A task that is not on the stack is pushed.
LEMMA PushReentry ==
    ASSUME TypeOK, NoReentry, NEW t \in Tasks, TakeTask(t), ~task[t].executing,
           Len(stack) = 0 \/ Len(stack) < YieldLimit
    PROVE  NoReentry'
  <1> DEFINE n == Len(stack)
  <1>1. /\ n \in Nat /\ DOMAIN stack = 1..n
        /\ Len(stack') = n + 1 /\ DOMAIN stack' = 1..(n + 1)
        /\ \A i \in 1..n : stack'[i] = stack[i]
        /\ stack'[n + 1].task = t
    BY TakeTaskStack, Zenon
  <1>2. (\A u \in Tasks : u # t => task'[u] = task[u]) /\ task'[t].executing
    BY TakeTaskFields, Zenon
  <1>3. /\ \A u \in Tasks : task[u].executing <=> \E i \in 1..n : stack[i].task = u
        /\ \A i, j \in 1..n : stack[i].task = stack[j].task => i = j
    BY <1>1, Zenon DEF NoReentry
  <1>4. Len(stack') <= 1 \/ Len(stack') <= YieldLimit
    BY <1>1, SizeAssumption
  <1> HIDE DEF n
  <1>5. \A i \in 1..(n + 1) : i \in 1..n \/ i = n + 1
    BY <1>1
  <1>6. (\A i \in 1..n : i \in 1..(n + 1)) /\ n + 1 \in 1..(n + 1)
    BY <1>1
  <1>7. \A i \in 1..n : stack[i].task # t
    BY <1>3, Zenon
  <1>8. ASSUME NEW u \in Tasks
        PROVE  task'[u].executing <=> \E i \in 1..(n + 1) : stack'[i].task = u
    <2>1. CASE u = t
      BY <1>1, <1>2, <1>6, <2>1, Zenon
    <2>2. CASE u # t
      BY <1>1, <1>2, <1>3, <1>5, <1>6, <2>2
    <2> QED
      BY <2>1, <2>2, Zenon
  <1>9. \A i, j \in 1..(n + 1) : stack'[i].task = stack'[j].task => i = j
    BY <1>1, <1>3, <1>5, <1>7
  <1> QED
    BY <1>1, <1>4, <1>8, <1>9, Zenon DEF NoReentry

\* The innermost frame is popped.
LEMMA PopReentry ==
    ASSUME TypeOK, NoReentry, ReturnTask
    PROVE  NoReentry'
  <1> DEFINE n == Len(stack)
             t == stack[n].task
  <1>1. /\ n \in Nat \ {0} /\ DOMAIN stack = 1..n
        /\ Len(stack') = n - 1 /\ DOMAIN stack' = 1..(n - 1)
        /\ \A i \in 1..(n - 1) : stack'[i] = stack[i]
    BY ReturnTaskStack, Zenon
  <1>2. /\ t \in Tasks /\ (\A u \in Tasks : u # t => task'[u] = task[u])
        /\ ~task'[t].executing
    BY ReturnTaskFields, Zenon
  <1>3. /\ \A u \in Tasks : task[u].executing <=> \E i \in 1..n : stack[i].task = u
        /\ \A i, j \in 1..n : stack[i].task = stack[j].task => i = j
        /\ n <= 1 \/ n <= YieldLimit
    BY <1>1, Zenon DEF NoReentry
  <1>4. Len(stack') <= 1 \/ Len(stack') <= YieldLimit
    BY <1>1, <1>3, SizeAssumption
  <1>5. /\ \A i \in 1..n : i \in 1..(n - 1) \/ i = n
        /\ \A i \in 1..(n - 1) : i \in 1..n /\ i # n
        /\ n \in 1..n
    <2> HIDE DEF n
    <2> QED
      BY <1>1
  <1> HIDE DEF n, t
  <1>6. \A i \in 1..(n - 1) : stack[i].task # t
    BY <1>3, <1>5, Zenon DEF t
  <1>7. ASSUME NEW u \in Tasks
        PROVE  task'[u].executing <=> \E i \in 1..(n - 1) : stack'[i].task = u
    <2>1. CASE u = t
      BY <1>1, <1>2, <1>6, <2>1, Zenon
    <2>2. CASE u # t
      BY <1>1, <1>2, <1>3, <1>5, <2>2 DEF t
    <2> QED
      BY <2>1, <2>2, Zenon
  <1>8. \A i, j \in 1..(n - 1) : stack'[i].task = stack'[j].task => i = j
    BY <1>1, <1>3, <1>5
  <1> QED
    BY <1>1, <1>4, <1>7, <1>8, Zenon DEF NoReentry, n

\* A task that was claimed by the dispatch loop or by yield() was not on the stack.
LEMMA TakeSteps ==
    ASSUME TypeOK, Phase, WorkDiscarded, NoReentry, SelectTask \/ Yield
    PROVE  /\ life = "running" /\ life' = life
           /\ \E t \in Tasks : /\ TakeTask(t) /\ task[t].active
                               /\ ~task[t].executing
                               /\ Len(stack) = 0 \/ Len(stack) < YieldLimit
  <1>1. CASE SelectTask
    <2>1. pc = "select" /\ life' = life
      BY <1>1, Zenon DEF SelectTask, status
    <2>2. PICK t \in Tasks : FirstDue(t, DueTasks) /\ TakeTask(t)
      BY <1>1, Zenon DEF SelectTask
    <2>3. task[t].active
      BY <2>2, Zenon DEF FirstDue, DueTasks, Due
    <2>4. stack = <<>>
      BY <2>1, Zenon DEF WorkDiscarded
    <2>5. Len(stack) = 0 /\ DOMAIN stack = {}
      BY <2>4
    <2>6. ~task[t].executing
      BY <2>5, Zenon DEF NoReentry
    <2>7. life = "running"
      BY <2>1, LoopRuns, Zenon
    <2> QED
      BY <2>1, <2>2, <2>3, <2>5, <2>6, <2>7, Zenon
  <1>2. CASE Yield
    <2>1. life = "running" /\ life' = life /\ Len(stack) < YieldLimit
      BY <1>2, Zenon DEF Yield, status
    <2>2. PICK t \in Tasks : FirstDue(t, YieldTasks) /\ TakeTask(t)
      BY <1>2, Zenon DEF Yield
    <2>3. task[t].active /\ ~task[t].executing
      BY <2>2, Zenon DEF FirstDue, YieldTasks, DueTasks, Due
    <2> QED
      BY <2>1, <2>2, <2>3, Zenon
  <1> QED
    BY <1>1, <1>2, Zenon

\* No step enters a task that is on the stack, or nests deeper than the limit.
LEMMA NoReentryStep ==
    ASSUME TypeOK, Phase, WorkDiscarded, NoReentry, [Next]_vars
    PROVE  NoReentry'
  <1>1. CASE SelectTask \/ Yield
    BY <1>1, TakeSteps, PushReentry, Zenon
  <1>2. CASE ReturnTask
    BY <1>2, PopReentry, Zenon
  <1>3. CASE UNCHANGED <<task, stack>>
    BY <1>3, Zenon DEF NoReentry
  <1>4. CASE stack' = stack /\ \A u \in Tasks : task'[u].executing = task[u].executing
    BY <1>4, Zenon DEF NoReentry
  <1> QED
    BY <1>1, <1>2, <1>3, <1>4, TaskSteps, TableSteps, Zenon

\* No step puts a frame of a later request on the stack.
LEMMA FramesStep ==
    ASSUME TypeOK, Phase, WorkDiscarded, NoReentry, FramesNotNewer, [Next]_vars
    PROVE  FramesNotNewer'
  <1>1. /\ stack \in Seq(FrameRecord)
        /\ \A u \in Tasks : task[u] \in TaskRecord
    BY Zenon DEF TypeOK, TasksOK
  <1>2. \A i \in DOMAIN stack : stack[i].task \in Tasks /\ stack[i].generation \in Nat
    <2>1. \A i \in DOMAIN stack : stack[i] \in FrameRecord
      BY <1>1
    <2> QED
      BY <2>1, BoundAssumption DEF FrameRecord
  <1>3. \A u \in Tasks : task[u].generation \in Nat
    BY <1>1 DEF TaskRecord
  <1>4. CASE SelectTask \/ Yield
    <2>1. PICK t \in Tasks : TakeTask(t)
      BY <1>4, TakeSteps, Zenon
    <2>2. \A u \in Tasks : task'[u].generation = task[u].generation
      BY <2>1, TakeTaskFields, Zenon
    <2>3. ASSUME NEW i \in DOMAIN stack'
          PROVE  stack'[i].generation <= task'[stack'[i].task].generation
      <3>1. CASE i \in DOMAIN stack
        BY <1>2, <2>1, <2>2, <3>1, TakeTaskStack, Zenon DEF FramesNotNewer
      <3>2. CASE i \notin DOMAIN stack
        <4>1. i = Len(stack')
          BY <2>1, <3>2, TakeTaskStack
        <4>2. stack'[i].task = t /\ stack'[i].generation = task[t].generation
          BY <2>1, <4>1, TakeTaskStack, Zenon
        <4> QED
          BY <1>3, <2>2, <4>2
      <3> QED
        BY <3>1, <3>2, Zenon
    <2> QED
      BY <2>3, Zenon DEF FramesNotNewer
  <1>5. CASE ReturnTask
    <2>1. \A u \in Tasks : task'[u].generation = task[u].generation
      BY <1>5, ReturnTaskFields, Zenon
    <2>2. \A i \in DOMAIN stack' : i \in DOMAIN stack /\ stack'[i] = stack[i]
      BY <1>5, ReturnTaskStack
    <2> QED
      BY <1>2, <2>1, <2>2, Zenon DEF FramesNotNewer
  <1>6. CASE UNCHANGED <<task, stack>>
    BY <1>6, Zenon DEF FramesNotNewer
  <1>7. CASE /\ stack' = stack
             /\ \A u \in Tasks : task[u].generation <= task'[u].generation
    <2>1. \A u \in Tasks : task'[u] \in TaskRecord
      BY TypeStep, Zenon DEF TypeOK, TasksOK
    <2>2. \A u \in Tasks : task'[u].generation \in Nat
      BY <2>1 DEF TaskRecord
    <2> QED
      BY <1>2, <1>3, <1>7, <2>2 DEF FramesNotNewer
  <1> QED
    BY <1>4, <1>5, <1>6, <1>7, TaskSteps, TableSteps, Zenon

\* No step counts an iteration before run().
LEMMA NothingCompletedStep ==
    ASSUME TypeOK, Phase, WorkDiscarded, NoReentry, NothingCompleted, [Next]_vars
    PROVE  NothingCompleted'
  <1>1. SUFFICES ASSUME life' \in {"fresh", "initializing", "ready"}
                 PROVE  \A t \in Tasks : task'[t].completed = 0
    BY Zenon DEF NothingCompleted
  <1>2. life \in {"fresh", "initializing", "ready"}
    BY <1>1, LifeForward, Zenon
  <1>3. \A t \in Tasks : task[t].completed = 0
    BY <1>2, Zenon DEF NothingCompleted
  <1>4. ~(SelectTask \/ Yield)
    BY <1>2, TakeSteps, Zenon
  <1>5. ~ReturnTask
    BY <1>2, LoopRuns, Zenon DEF ReturnTask
  <1> QED
    BY <1>3, <1>4, <1>5, TaskSteps, TableSteps, Zenon

\* One more iteration is one more interval.
LEMMA OneMoreInterval ==
    ASSUME NEW f \in Nat, NEW c \in Nat, NEW d \in Nat
    PROVE  f + (c + 1) * d = (f + (c + 0) * d) + d
  BY SMT

\* A deadline that does not saturate is the exact sum.
LEMMA AfterExact ==
    ASSUME NEW t \in Times, NEW d \in Times, After(t, d) < Forever - 1
    PROVE  t < Forever - 1 /\ After(t, d) = t + d
  BY TimeAssumption DEF After, Times

\* Claiming an iteration moves the due time by one interval and puts one
\* iteration in flight.
LEMMA PushAccounts ==
    ASSUME TypeOK, NoReentry, ProgressAccounting, NEW t \in Tasks, TakeTask(t),
           task[t].active, ~task[t].executing, life' = life
    PROVE  ProgressAccounting'
  <1> DEFINE n == Len(stack)
             Flies(u, i) == /\ stack[i].task = u
                            /\ stack[i].generation = task[u].generation
  <1>1. /\ n \in Nat /\ DOMAIN stack = 1..n
        /\ Len(stack') = n + 1 /\ DOMAIN stack' = 1..(n + 1)
        /\ \A i \in 1..n : stack'[i] = stack[i]
        /\ stack'[n + 1].task = t
        /\ stack'[n + 1].generation = task[t].generation
    BY TakeTaskStack, Zenon
  <1>2. /\ \A i \in 1..(n + 1) : i \in 1..n \/ i = n + 1
        /\ \A i \in 1..n : i \in 1..(n + 1)
        /\ n + 1 \in 1..(n + 1)
    <2> HIDE DEF n
    <2> QED
      BY <1>1
  <1>3. \A u \in Tasks : u # t => task'[u] = task[u]
    BY TakeTaskFields, Zenon
  <1>4. ASSUME NEW u \in Tasks, u # t
        PROVE  InFlight(u)' = InFlight(u)
    <2>1. (\E i \in 1..(n + 1) : /\ stack'[i].task = u
                                 /\ stack'[i].generation = task'[u].generation)
          <=> \E i \in 1..n : Flies(u, i)
      <3> HIDE DEF n
      <3> QED
        BY <1>1, <1>2, <1>3, <1>4, Zenon
    <2> QED
      BY <1>1, <2>1, Zenon DEF InFlight
  <1>5. InFlight(t) = 0
    <2>1. ~\E i \in DOMAIN stack : stack[i].task = t
      BY Zenon DEF NoReentry
    <2> QED
      BY <2>1, Zenon DEF InFlight
  <1>6. InFlight(t)' = 1
    <2>1. task'[t].generation = task[t].generation
      BY TakeTaskFields, Zenon
    <2> QED
      BY <1>1, <1>2, <2>1, Zenon DEF InFlight
  <1>7. ASSUME life = "running", task'[t].active, task'[t].mode = "repeat",
               task'[t].due < Forever - 1
        PROVE  task'[t].due = task'[t].first_due
                 + (task'[t].completed + InFlight(t)') * task'[t].interval
    <2>1. /\ task'[t].mode = task[t].mode /\ task'[t].interval = task[t].interval
          /\ task'[t].first_due = task[t].first_due
          /\ task'[t].completed = task[t].completed
          /\ task[t].mode = "repeat" =>
               task'[t].due = After(task[t].due, task[t].interval)
      BY TakeTaskFields, Zenon
    <2>2. task[t] \in TaskRecord
      BY Zenon DEF TypeOK, TasksOK
    <2>3. /\ task[t].due \in Times /\ task[t].interval \in Times
          /\ task[t].first_due \in Times /\ task[t].completed \in Nat
      BY <2>2, Zenon DEF TaskRecord
    <2>4. task[t].interval \in Nat /\ task[t].first_due \in Nat
      BY <2>3, TimeAssumption DEF Times
    <2>5. /\ task[t].due < Forever - 1
          /\ task'[t].due = task[t].due + task[t].interval
      BY <1>7, <2>1, <2>3, AfterExact, Zenon
    <2>6. task[t].due = task[t].first_due
            + (task[t].completed + InFlight(t)) * task[t].interval
      BY <1>7, <2>1, <2>5, Zenon DEF ProgressAccounting
    <2>7. task[t].first_due + (task[t].completed + 1) * task[t].interval
            = (task[t].first_due + (task[t].completed + 0) * task[t].interval)
              + task[t].interval
      BY <2>3, <2>4, OneMoreInterval, Zenon
    <2> QED
      BY <1>5, <1>6, <2>1, <2>5, <2>6, <2>7, Zenon
  <1> QED
    BY <1>3, <1>4, <1>7, Zenon DEF ProgressAccounting

\* A returning iteration of the current request is counted and no longer in
\* flight; one of an earlier request was in no account.
LEMMA PopAccounts ==
    ASSUME TypeOK, NoReentry, ProgressAccounting, ReturnTask
    PROVE  ProgressAccounting'
  <1> DEFINE n == Len(stack)
  <1>t. PICK t \in Tasks : t = stack[n].task
    BY ReturnTaskFields, Zenon
  <1>1. /\ n \in Nat \ {0} /\ DOMAIN stack = 1..n
        /\ Len(stack') = n - 1 /\ DOMAIN stack' = 1..(n - 1)
        /\ \A i \in 1..(n - 1) : stack'[i] = stack[i]
    BY ReturnTaskStack, Zenon
  <1>2. /\ \A i \in 1..n : i \in 1..(n - 1) \/ i = n
        /\ \A i \in 1..(n - 1) : i \in 1..n /\ i # n
        /\ n \in 1..n
    <2> HIDE DEF n
    <2> QED
      BY <1>1
  <1>3. /\ \A u \in Tasks : u # t => task'[u] = task[u]
        /\ \A u \in Tasks : /\ task'[u].active = task[u].active
                            /\ task'[u].mode = task[u].mode
                            /\ task'[u].interval = task[u].interval
                            /\ task'[u].due = task[u].due
                            /\ task'[u].first_due = task[u].first_due
                            /\ task'[u].generation = task[u].generation
        /\ task'[t].completed = IF Counts(stack[n]) THEN task[t].completed + 1
                                ELSE task[t].completed
    BY <1>t, ReturnTaskFields, Zenon
  <1>4. \A i, j \in 1..n : stack[i].task = stack[j].task => i = j
    BY <1>1, Zenon DEF NoReentry
  <1>5. life' = life
    BY Zenon DEF ReturnTask, status
  <1>6. ASSUME NEW u \in Tasks, u # t
        PROVE  InFlight(u)' = InFlight(u)
    <2>1. (\E i \in 1..(n - 1) : /\ stack'[i].task = u
                                 /\ stack'[i].generation = task'[u].generation)
          <=> \E i \in 1..n : /\ stack[i].task = u
                              /\ stack[i].generation = task[u].generation
      <3>1. \A i \in 1..n : stack[i].task = u => i \in 1..(n - 1)
        BY <1>t, <1>2, <1>6, Zenon
      <3> HIDE DEF n
      <3> QED
        BY <1>1, <1>2, <1>3, <3>1, Zenon
    <2> QED
      BY <1>1, <2>1, Zenon DEF InFlight
  <1>7. InFlight(t)' = 0
    <2>1. \A i \in 1..(n - 1) : stack'[i].task # t
      BY <1>t, <1>1, <1>2, <1>4, Zenon
    <2> QED
      BY <1>1, <2>1, Zenon DEF InFlight
  <1>8. InFlight(t) = IF Counts(stack[n]) THEN 1 ELSE 0
    <2>1. \A i \in 1..n : stack[i].task = t => i = n
      BY <1>t, <1>2, <1>4, Zenon
    <2>2. Counts(stack[n]) <=> stack[n].generation = task[t].generation
      BY <1>t, Zenon DEF Counts
    <2> QED
      BY <1>t, <1>1, <1>2, <2>1, <2>2, Zenon DEF InFlight
  <1>9. task'[t].completed + InFlight(t)' = task[t].completed + InFlight(t)
    <2>1. task[t] \in TaskRecord
      BY Zenon DEF TypeOK, TasksOK
    <2>2. task[t].completed \in Nat
      BY <2>1, Zenon DEF TaskRecord
    <2> QED
      BY <1>3, <1>7, <1>8, <2>2
  <1>10. ASSUME NEW u \in Tasks
         PROVE  task'[u].completed + InFlight(u)' = task[u].completed + InFlight(u)
    BY <1>3, <1>6, <1>9, Zenon
  <1>11. ASSUME NEW u \in Tasks, life' = "running", task'[u].active,
                task'[u].mode = "repeat", task'[u].due < Forever - 1
         PROVE  task'[u].due = task'[u].first_due
                  + (task'[u].completed + InFlight(u)') * task'[u].interval
    <2>1. task[u].due = task[u].first_due
            + (task[u].completed + InFlight(u)) * task[u].interval
      BY <1>3, <1>5, <1>11, Zenon DEF ProgressAccounting
    <2> QED
      BY <1>3, <1>10, <2>1, Zenon
  <1> QED
    BY <1>11, Zenon DEF ProgressAccounting

\* A new request starts with an empty account: frames on the stack, if any, are
\* of earlier requests.
LEMMA ScheduleAccounts ==
    ASSUME TypeOK, FramesNotNewer, ProgressAccounting, NEW t \in Tasks,
           NEW d \in Delays, NEW mode \in {"once", "repeat"}, ScheduleSlot(t, d, mode)
    PROVE  ProgressAccounting'
  <1>1. task \in [Tasks -> TaskRecord] /\ \A u \in Tasks : task[u] \in TaskRecord
    BY Zenon DEF TypeOK, TasksOK
  <1>2. /\ task' = [task EXCEPT ![t] = Scheduled(task[t], d, mode)]
        /\ stack' = stack /\ life' = life
    BY Zenon DEF ScheduleSlot, locals, status
  <1>3. \A u \in Tasks : u # t => task'[u] = task[u]
    BY <1>1, <1>2, Zenon
  <1>4. task'[t] = Scheduled(task[t], d, mode)
    BY <1>1, <1>2, Zenon
  <1>5. /\ task'[t].completed = 0 /\ task'[t].interval = d
        /\ task'[t].due = task'[t].first_due
        /\ task'[t].generation = task[t].generation + 1
    BY <1>4 DEF Scheduled
  <1>6. InFlight(t)' = 0
    <2>1. task[t].generation \in Nat
      BY <1>1 DEF TaskRecord
    <2>2. stack \in Seq(FrameRecord)
      BY Zenon DEF TypeOK, TasksOK
    <2>3. ASSUME NEW i \in DOMAIN stack, stack[i].task = t
          PROVE  stack[i].generation # task'[t].generation
      <3>1. stack[i] \in FrameRecord
        BY <2>2
      <3>2. stack[i].generation \in Nat
        BY <3>1, BoundAssumption DEF FrameRecord
      <3>3. stack[i].generation <= task[t].generation
        BY <2>3, Zenon DEF FramesNotNewer
      <3> QED
        BY <1>5, <2>1, <3>2, <3>3
    <2> QED
      BY <1>2, <2>3, Zenon DEF InFlight
  <1>7. task'[t].due = task'[t].first_due
          + (task'[t].completed + InFlight(t)') * task'[t].interval
    <2>1. task'[t] \in TaskRecord
      BY ScheduleType, Zenon
    <2>2. task'[t].first_due \in Times /\ task'[t].interval \in Times
      BY <2>1, Zenon DEF TaskRecord
    <2>3. task'[t].first_due \in Nat /\ task'[t].interval \in Nat
      BY <2>2, TimeAssumption DEF Times
    <2>4. task'[t].first_due + (0 + 0) * task'[t].interval = task'[t].first_due
      BY <2>3
    <2> QED
      BY <1>5, <1>6, <2>4, Zenon
  <1>8. ASSUME NEW u \in Tasks, u # t
        PROVE  InFlight(u)' = InFlight(u)
    BY <1>2, <1>3, <1>8, Zenon DEF InFlight
  <1> QED
    BY <1>2, <1>3, <1>7, <1>8, Zenon DEF ProgressAccounting

\* run() starts every account at the common start time.
LEMMA StartAccounts ==
    ASSUME TypeOK, Phase, WorkDiscarded, NothingCompleted, StartRun
    PROVE  ProgressAccounting'
  <1>1. \A u \in Tasks : task[u] \in TaskRecord
    BY Zenon DEF TypeOK, TasksOK
  <1>2. stack' = <<>>
    BY Zenon DEF StartRun, locals, WorkDiscarded
  <1>3. \A u \in Tasks : InFlight(u)' = 0
    <2>1. DOMAIN stack' = {}
      BY <1>2
    <2> QED
      BY <2>1, Zenon DEF InFlight
  <1>4. life \in {"fresh", "initializing", "ready"}
    BY Zenon DEF StartRun, Phase, TypeOK, ControlOK
  <1>5. ASSUME NEW u \in Tasks, task'[u].active
        PROVE  task'[u].due = task'[u].first_due
                 + (task'[u].completed + InFlight(u)') * task'[u].interval
    <2>1. task'[u] = IF task[u].active
                     THEN [task[u] EXCEPT
                             !.due = After(now, task[u].interval),
                             !.first_due = After(now, task[u].interval)]
                     ELSE task[u]
      BY Zenon DEF StartRun
    <2>2. task[u].active
      BY <1>5, <2>1, Zenon
    <2>3. /\ task'[u].due = task'[u].first_due
          /\ task'[u].completed = task[u].completed
      BY <1>1, <2>1, <2>2, Zenon DEF TaskRecord
    <2>4. task[u].completed = 0
      BY <1>4, Zenon DEF NothingCompleted
    <2>5. task'[u] \in TaskRecord
      BY StartRunType, Zenon
    <2>6. task'[u].first_due \in Times /\ task'[u].interval \in Times
      BY <2>5, Zenon DEF TaskRecord
    <2>7. task'[u].first_due \in Nat /\ task'[u].interval \in Nat
      BY <2>6, TimeAssumption DEF Times
    <2>8. task'[u].first_due + (0 + 0) * task'[u].interval = task'[u].first_due
      BY <2>7
    <2> QED
      BY <1>3, <2>3, <2>4, <2>8, Zenon
  <1> QED
    BY <1>5, Zenon DEF ProgressAccounting

\* Every step keeps the accounts of the repeating tasks.
LEMMA AccountsStep ==
    ASSUME TypeOK, Phase, WorkDiscarded, TaskInv, [Next]_vars
    PROVE  ProgressAccounting'
  <1> USE DEF TaskInv
  <1>1. CASE SelectTask \/ Yield
    BY <1>1, TakeSteps, PushAccounts, Zenon
  <1>2. CASE ReturnTask
    BY <1>2, PopAccounts, Zenon
  <1>3. CASE StartRun
    BY <1>3, StartAccounts, Zenon
  <1>4. CASE \E t \in Tasks, d \in Delays, mode \in {"once", "repeat"} :
               ScheduleSlot(t, d, mode)
    BY <1>4, ScheduleAccounts, Zenon
  <1>5. CASE \E t \in Tasks : CancelSlot(t)
    <2>1. PICK t \in Tasks : CancelSlot(t)
      BY <1>5, Zenon
    <2>2. task \in [Tasks -> TaskRecord] /\ task[t] \in TaskRecord
      BY Zenon DEF TypeOK, TasksOK
    <2>3. /\ task' = [task EXCEPT ![t].active = FALSE,
                        ![t].explicitly_scheduled = TRUE, ![t].generation = @ + 1]
          /\ stack' = stack /\ life' = life
      BY <2>1, Zenon DEF CancelSlot, locals, status
    <2>4. ~task'[t].active
      BY <2>2, <2>3, Zenon DEF TaskRecord
    <2>5. \A u \in Tasks : u # t => task'[u] = task[u]
      BY <2>2, <2>3, Zenon
    <2>6. \A u \in Tasks : u # t => InFlight(u)' = InFlight(u)
      BY <2>3, <2>5, Zenon DEF InFlight
    <2> QED
      BY <2>3, <2>4, <2>5, <2>6, Zenon DEF ProgressAccounting
  <1>6. CASE ActivateDefaults \/ FailInit \/ BeginStop
    <2>1. life' # "running"
      <3>1. CASE ActivateDefaults
        BY <3>1, Zenon DEF ActivateDefaults, status, Phase
      <3> QED
        BY <1>6, <3>1, Zenon DEF FailInit, BeginStop
    <2> QED
      BY <2>1, Zenon DEF ProgressAccounting
  <1>7. CASE UNCHANGED <<task, stack>> /\ ~StartRun
    <2>1. life' = "running" => life = "running"
      BY <1>7, LifeForward, Zenon
    <2>2. \A u \in Tasks : InFlight(u)' = InFlight(u)
      BY <1>7, Zenon DEF InFlight
    <2> QED
      BY <1>7, <2>1, <2>2, Zenon DEF ProgressAccounting
  <1> QED
    BY <1>1, <1>2, <1>3, <1>4, <1>5, <1>6, <1>7, TaskSteps, Zenon

(***************************************************************************)
(* Steps that concern events.                                              *)
(***************************************************************************)
\* The steps that touch the queue, the delivery or the record of the events.
LEMMA EventSteps ==
    ASSUME [Next]_vars
    PROVE  \/ FailInit \/ BeginStop \/ SelectEvent \/ Deliver
           \/ \E m \in 0..NModules : Post(m)
           \/ /\ UNCHANGED <<events, event, posted, received>>
              /\ pc # "deliver" /\ pc' # "deliver"
           \/ UNCHANGED <<events, event, posted, received, pc, cursor>>
  <1> USE DEF work, locals, history
  <1>1. CASE \/ BeginInit \/ RejectRegistration \/ ActivateDefaults \/ InitModule
             \/ InitModuleFails \/ FinishInit
    <2>1. UNCHANGED <<events, event, posted, received>>
      BY <1>1, Zenon DEF BeginInit, RejectRegistration, ActivateDefaults,
         InitModule, InitModuleFails, FinishInit
    <2>2. pc # "deliver" /\ pc' # "deliver"
      BY <1>1, Zenon DEF BeginInit, RejectRegistration, ActivateDefaults, InitModule,
         InitModuleFails, FinishInit
    <2> QED
      BY <2>1, <2>2, Zenon
  <1>2. CASE \/ ReportFailure \/ Run \/ StartRun \/ Sample \/ SelectStop
             \/ SelectTask \/ SelectNothing \/ ReturnTask
    <2>1. UNCHANGED <<events, event, posted, received>>
      BY <1>2, Zenon DEF ReportFailure, Run, StartRun, Sample, SelectStop,
         SelectTask, SelectNothing, ReturnTask
    <2>2. pc # "deliver" /\ pc' # "deliver"
      BY <1>2, Zenon DEF ReportFailure, Run, StartRun, Sample, SelectStop, SelectTask,
         SelectNothing, ReturnTask
    <2> QED
      BY <2>1, <2>2, Zenon
  <1>3. CASE \/ DispatchLog \/ PrepareIdle \/ EnterIdle \/ WakeNotified
             \/ WakeDeadline \/ Quiesce \/ Flush
    <2>1. UNCHANGED <<events, event, posted, received>>
      BY <1>3, Zenon DEF DispatchLog, PrepareIdle, EnterIdle, WakeNotified,
         WakeDeadline, Quiesce, Flush
    <2>2. pc # "deliver" /\ pc' # "deliver"
      BY <1>3, Zenon DEF DispatchLog, PrepareIdle, EnterIdle, WakeNotified,
         WakeDeadline, Quiesce, Flush
    <2> QED
      BY <2>1, <2>2, Zenon
  <1>4. CASE RunAfterFailure \/ Yield \/ Interrupt \/ Tick
    BY <1>4, Zenon DEF RunAfterFailure, Yield, Interrupt, TimerInterrupt,
       FireScan, FireCallback, InterruptReturn, Tick
  <1>5. CASE \/ Stop \/ LogWrite
             \/ \E t \in Tasks, d \in Delays, mode \in {"once", "repeat"} :
                  ScheduleSlot(t, d, mode)
             \/ \E t \in Tasks : CancelSlot(t)
             \/ \E d \in Delays, c \in Callbacks : TimerSlot(d, c)
             \/ \E c \in Callbacks : CancelTimer(c)
    BY <1>5, Zenon DEF Stop, LogWrite, TimerSlot, CancelTimer, ScheduleSlot,
       CancelSlot
  <1>6. CASE UNCHANGED vars
    BY <1>6, Zenon DEF vars
  <1> QED
    BY <1>1, <1>2, <1>3, <1>4, <1>5, <1>6, Zenon
    DEF Next, InitStep, RunStep, Operation

\* An accepted event gets the next number and the last place in the queue; the
\* others stay where they are.
LEMMA PostEvent ==
    ASSUME TypeOK, EventInv, NEW s \in 0..NModules, Post(s)
    PROVE  EventInv'
  <1> DEFINE n == Len(events)
  <1>0. posted \in Nat /\ posted < MaxPosts
    BY BoundAssumption DEF Post, TypeOK, QueuesOK
  <1>w. PICK w \in 1..MaxPosts : w = posted + 1
    BY <1>0, BoundAssumption
  <1>1. /\ AcceptsWork /\ posted' = w
        /\ events' = Append(events, [value |-> w, sender |-> s, due |-> now])
        /\ UNCHANGED <<pc, event, cursor, received, life>>
    BY <1>w, Zenon DEF Post, locals, status
  <1>2. events \in Seq(EventRecord)
    BY Zenon DEF TypeOK, QueuesOK
  <1>3. n \in Nat /\ DOMAIN events = 1..n
    BY <1>2
  <1>4. /\ DOMAIN events' = 1..(n + 1)
        /\ \A i \in 1..n : events'[i] = events[i]
        /\ events'[n + 1].value = w
    BY <1>1, <1>2, <1>3
  <1>5. /\ \A i \in 1..(n + 1) : i \in 1..n \/ i = n + 1
        /\ \A i \in 1..n : i \in 1..(n + 1) /\ i # n + 1
        /\ n + 1 \in 1..(n + 1)
    <2> HIDE DEF n
    <2> QED
      BY <1>3
  <1>6. /\ \A i \in 1..n : events[i].value <= posted
        /\ \A v \in 1..MaxPosts, m \in Modules : <<v, m>> \in received => v <= posted
        /\ pc = "deliver" => event.value \in 1..posted /\ InDelivery(event.value)
        /\ \A v \in 1..posted : Waits(v) \/ InDelivery(v) \/ WasDelivered(v)
    BY <1>1, <1>3, Zenon DEF EventInv
  <1>7. \A i \in 1..n : events[i].value \in Nat
    <2>1. \A i \in 1..n : events[i] \in EventRecord
      BY <1>2, <1>3
    <2> QED
      BY <2>1, BoundAssumption DEF EventRecord
  <1> HIDE DEF n
  <1>8. \A i \in 1..n : events[i].value # w /\ events[i].value <= w
    BY <1>0, <1>w, <1>6, <1>7
  <1>9. w <= w /\ \A v \in Nat : v <= posted => v <= w
    BY <1>0, <1>w
  <1>10. /\ \A v \in 1..posted : v # w /\ v \in 1..w
         /\ \A v \in 1..w : v \in 1..posted \/ v = w
    BY <1>0, <1>w
  <1>11. \A m \in Modules : <<w, m>> \notin received
    <2>1. ~(w <= posted)
      BY <1>0, <1>w
    <2> QED
      BY <1>6, <2>1, Zenon
  <1>12. Waits(w)'
    <2>1. \A j \in 1..(n + 1) : events'[j].value = w <=> j = n + 1
      BY <1>4, <1>5, <1>8, Zenon
    <2> QED
      BY <1>1, <1>4, <1>5, <1>11, <2>1 DEF Waits
  <1>13. ASSUME NEW v \in 1..posted, Removed(v)
         PROVE  Removed(v)'
    BY <1>3, <1>4, <1>5, <1>10, <1>13, Zenon DEF Removed
  <1>14. ASSUME NEW v \in 1..posted, Waits(v)
         PROVE  Waits(v)'
    <2>1. PICK i \in DOMAIN events :
            \A j \in DOMAIN events : events[j].value = v <=> j = i
      BY <1>14, Zenon DEF Waits
    <2>2. v # w
      BY <1>10, Zenon
    <2>3. i \in 1..n /\ \A j \in 1..n : events[j].value = v <=> j = i
      BY <1>3, <2>1, Zenon
    <2>4. \A j \in 1..(n + 1) : events'[j].value = v <=> j = i
      BY <1>4, <1>5, <2>2, <2>3, Zenon
    <2>5. /\ i \in DOMAIN events'
          /\ \A j \in DOMAIN events' : events'[j].value = v <=> j = i
      BY <1>4, <1>5, <2>3, <2>4, Zenon
    <2>6. \A m \in Modules : <<v, m>> \notin received'
      BY <1>1, <1>14, Zenon DEF Waits
    <2> QED
      BY <2>5, <2>6, Zenon DEF Waits
  <1>15. ASSUME NEW v \in 1..posted, InDelivery(v)
         PROVE  InDelivery(v)'
    BY <1>1, <1>13, <1>15, Zenon DEF InDelivery
  <1>16. ASSUME NEW v \in 1..posted, WasDelivered(v)
         PROVE  WasDelivered(v)'
    BY <1>1, <1>13, <1>16, Zenon DEF WasDelivered
  <1>17. \A i \in DOMAIN events' : events'[i].value <= posted'
    BY <1>1, <1>4, <1>5, <1>8, <1>9, Zenon
  <1>18. \A v \in 1..MaxPosts, m \in Modules : <<v, m>> \in received' => v <= posted'
    <2>1. \A v \in 1..MaxPosts : v \in Nat
      BY BoundAssumption
    <2> QED
      BY <1>1, <1>6, <1>9, <2>1, Zenon
  <1>19. pc' = "deliver" => event'.value \in 1..posted' /\ InDelivery(event.value)'
    <2>1. SUFFICES ASSUME pc = "deliver"
                   PROVE  event'.value \in 1..posted' /\ InDelivery(event.value)'
      BY <1>1, Zenon
    <2>2. PICK v \in 1..posted : v = event.value /\ InDelivery(v)
      BY <1>6, <2>1, Zenon
    <2>3. v = event'.value
      BY <1>1, <2>2, Zenon
    <2>4. InDelivery(v)' /\ v \in 1..w
      BY <1>10, <1>15, <2>2, Zenon
    <2> QED
      BY <1>1, <2>3, <2>4, Zenon DEF InDelivery, Removed
  <1>20. \A v \in 1..posted' : Waits(v)' \/ InDelivery(v)' \/ WasDelivered(v)'
    BY <1>1, <1>6, <1>10, <1>12, <1>14, <1>15, <1>16, Zenon
  <1> QED
    BY <1>17, <1>18, <1>19, <1>20, Zenon DEF EventInv

\* The event that is selected leaves the queue, where it was alone under its
\* number; the last event takes its place and every other one keeps its own.
LEMMA SelectEventPlaces ==
    ASSUME TypeOK, EventInv, SelectEvent, AcceptsWork
    PROVE  EventInv'
  <1> DEFINE n == Len(events)
  <1>i. PICK i \in DOMAIN events : event' = events[i] /\ events' = RemoveEvent(i)
    BY Zenon DEF SelectEvent
  <1>1. /\ pc = "select" /\ pc' = "deliver" /\ cursor' = 1
        /\ UNCHANGED <<posted, received>>
    BY Zenon DEF SelectEvent, history
  <1>2. events \in Seq(EventRecord) /\ posted \in 0..MaxPosts
    BY Zenon DEF TypeOK, QueuesOK
  <1>3. n \in Nat \ {0} /\ DOMAIN events = 1..n /\ i \in 1..n
    BY <1>i, <1>2
  <1> DEFINE pick(k) == IF k = i THEN n ELSE k
  <1>4. /\ DOMAIN events' = 1..(n - 1)
        /\ \A k \in 1..(n - 1) : events'[k] = events[pick(k)]
    BY <1>i, Zenon DEF RemoveEvent
  <1> HIDE DEF n
  <1>5. \A k \in 1..(n - 1) : pick(k) \in 1..n /\ pick(k) # i
    BY <1>3
  <1>6. /\ \A j \in 1..n : events[j].value <= posted
        /\ \A v \in 1..MaxPosts, m \in Modules : <<v, m>> \in received => v <= posted
        /\ \A v \in 1..posted : Waits(v) \/ InDelivery(v) \/ WasDelivered(v)
    BY <1>3, Zenon DEF EventInv
  <1>7. \A v \in 1..posted : Waits(v) \/ WasDelivered(v)
    <2>1. pc # "deliver"
      BY <1>1, Zenon
    <2> QED
      BY <1>6, <2>1, Zenon DEF InDelivery
  <1>w. PICK w \in 1..posted : w = events[i].value
    <2>1. events[i] \in EventRecord
      BY <1>2, <1>3
    <2>2. events[i].value \in 1..MaxPosts
      BY <2>1, Zenon DEF EventRecord
    <2> QED
      BY <1>2, <1>3, <1>6, <2>2, BoundAssumption
  <1>8. Waits(w)
    BY <1>i, <1>7, <1>w, Zenon DEF WasDelivered, Removed
  <1>9. \A j \in 1..n : events[j].value = w => j = i
    <2>1. PICK k \in DOMAIN events :
            \A j \in DOMAIN events : events[j].value = w <=> j = k
      BY <1>8, Zenon DEF Waits
    <2> QED
      BY <1>i, <1>3, <1>w, <2>1, Zenon
  <1>10. InDelivery(w)'
    <2>1. Removed(w)'
      BY <1>4, <1>5, <1>9, Zenon DEF Removed
    <2>2. 1 \in Modules /\ \A m \in Modules : ~(m < 1)
      BY TaskAssumption DEF Modules
    <2>3. \A m \in Modules : <<w, m>> \notin received
      BY <1>8, Zenon DEF Waits
    <2> QED
      BY <1>i, <1>1, <1>w, <2>1, <2>2, <2>3, Zenon DEF InDelivery
  <1>11. ASSUME NEW v \in 1..posted, v # w, Waits(v)
         PROVE  Waits(v)'
    <2>1. PICK j \in DOMAIN events :
            \A k \in DOMAIN events : events[k].value = v <=> k = j
      BY <1>11, Zenon DEF Waits
    <2>2. j \in 1..n /\ \A k \in 1..n : events[k].value = v <=> k = j
      BY <1>3, <2>1, Zenon
    <2>3. j # i
      BY <1>3, <1>w, <1>11, <2>2, Zenon
    <2> DEFINE new == IF j = n THEN i ELSE j
    <2>4. new \in 1..(n - 1) /\ \A k \in 1..(n - 1) : pick(k) = j <=> k = new
      BY <1>3, <2>2, <2>3
    <2> HIDE DEF new, pick
    <2>5. \A k \in 1..(n - 1) : events'[k].value = v <=> k = new
      BY <1>4, <1>5, <2>2, <2>4, Zenon
    <2>6. /\ new \in DOMAIN events'
          /\ \A k \in DOMAIN events' : events'[k].value = v <=> k = new
      BY <1>4, <2>4, <2>5, Zenon
    <2>7. \A m \in Modules : <<v, m>> \notin received'
      BY <1>1, <1>11, Zenon DEF Waits
    <2> QED
      BY <2>6, <2>7, Zenon DEF Waits
  <1>12. ASSUME NEW v \in 1..posted, WasDelivered(v)
         PROVE  WasDelivered(v)'
    <2>1. \A j \in 1..n : events[j].value # v
      BY <1>3, <1>12, Zenon DEF WasDelivered, Removed
    <2>2. Removed(v)'
      BY <1>4, <1>5, <2>1, Zenon DEF Removed
    <2> QED
      BY <1>1, <1>12, <2>2, Zenon DEF WasDelivered
  <1>13. \A k \in DOMAIN events' : events'[k].value <= posted'
    <2> HIDE DEF pick
    <2> QED
      BY <1>1, <1>4, <1>5, <1>6, Zenon
  <1>14. event'.value \in 1..posted' /\ InDelivery(event.value)'
    <2>1. w = event'.value
      BY <1>i, <1>w, Zenon
    <2> QED
      BY <1>1, <1>10, <2>1, Zenon DEF InDelivery, Removed
  <1>15. \A v \in 1..posted' : Waits(v)' \/ InDelivery(v)' \/ WasDelivered(v)'
    BY <1>1, <1>7, <1>10, <1>11, <1>12, Zenon
  <1> QED
    BY <1>1, <1>6, <1>13, <1>14, <1>15, Zenon DEF EventInv

\* The next module receives the event, unless it sent it; after the last one the
\* event was delivered.
LEMMA DeliverPlaces ==
    ASSUME TypeOK, EventInv, Deliver, AcceptsWork
    PROVE  EventInv'
  <1>1. /\ pc = "deliver" /\ UNCHANGED <<events, posted>>
        /\ received' = IF cursor = event.sender THEN received
                       ELSE received \cup {<<event.value, cursor>>}
        /\ IF cursor < NModules
           THEN pc' = pc /\ cursor' = cursor + 1 /\ event' = event
           ELSE pc' = "sample" /\ cursor' = 0 /\ event' = NoEvent
    BY Zenon DEF Deliver, work
  <1>2. /\ \A j \in DOMAIN events : events[j].value <= posted
        /\ \A v \in 1..MaxPosts, m \in Modules : <<v, m>> \in received => v <= posted
        /\ event.value \in 1..posted /\ InDelivery(event.value)
        /\ \A v \in 1..posted : Waits(v) \/ InDelivery(v) \/ WasDelivered(v)
    BY <1>1, Zenon DEF EventInv
  <1>w. PICK w \in 1..posted : w = event.value /\ InDelivery(w)
    BY <1>2, Zenon
  <1>3. /\ Removed(w) /\ cursor \in Modules
        /\ \A m \in Modules :
             <<w, m>> \in received <=> m < cursor /\ m # event.sender
    BY <1>w, Zenon DEF InDelivery
  <1>4. /\ \A v, m : v # w => (<<v, m>> \in received' <=> <<v, m>> \in received)
        /\ \A m : <<w, m>> \in received' <=>
                    <<w, m>> \in received \/ (m = cursor /\ m # event.sender)
    BY <1>1, <1>w, Zenon
  <1>5. event \in EventRecord \cup {NoEvent} /\ posted \in 0..MaxPosts
    BY Zenon DEF TypeOK, QueuesOK
  <1>6. event.sender \in 0..NModules
    BY <1>5, TaskAssumption DEF EventRecord, NoEvent
  <1>7. \A v \in 1..posted : v # w => Waits(v) \/ WasDelivered(v)
    BY <1>2, <1>w, Zenon DEF InDelivery
  <1>8. Removed(w)'
    BY <1>1, <1>3, Zenon DEF Removed
  <1>9. ASSUME NEW v \in 1..posted, v # w
        PROVE  Waits(v)' \/ WasDelivered(v)'
    <2>1. \A m \in Modules : <<v, m>> \in received' <=> <<v, m>> \in received
      BY <1>4, <1>9, Zenon
    <2>2. CASE Waits(v)
      <3>1. \E i \in DOMAIN events :
              \A j \in DOMAIN events : events[j].value = v <=> j = i
        BY <2>2, Zenon DEF Waits
      <3>2. \A m \in Modules : <<v, m>> \notin received'
        BY <2>1, <2>2, Zenon DEF Waits
      <3> QED
        BY <1>1, <3>1, <3>2, Zenon DEF Waits
    <2>3. CASE WasDelivered(v)
      BY <1>1, <2>1, <2>3, Zenon DEF WasDelivered, Removed
    <2> QED
      BY <1>7, <1>9, <2>2, <2>3, Zenon
  <1>10. ASSUME cursor < NModules
         PROVE  pc' = "deliver" /\ event' = event /\ InDelivery(w)'
    <2>1. pc' = "deliver" /\ event' = event /\ cursor' = cursor + 1
      BY <1>1, <1>10, Zenon
    <2>2. cursor + 1 \in Modules
      BY <1>3, <1>10, TaskAssumption DEF Modules
    <2>3. \A m \in Modules : m < cursor + 1 <=> m < cursor \/ m = cursor
      BY <1>3, TaskAssumption DEF Modules
    <2>4. \A m \in Modules :
            <<w, m>> \in received' <=> m < cursor + 1 /\ m # event.sender
      BY <1>3, <1>4, <2>3, Zenon
    <2> QED
      BY <1>w, <1>8, <2>1, <2>2, <2>4, Zenon DEF InDelivery
  <1>11. ASSUME ~(cursor < NModules)
         PROVE  pc' = "sample" /\ WasDelivered(w)'
    <2>1. \A m \in Modules : m < cursor \/ m = cursor
      BY <1>3, <1>11, TaskAssumption DEF Modules
    <2>2. \A m \in Modules : m # event.sender => <<w, m>> \in received'
      BY <1>3, <1>4, <2>1, Zenon
    <2> QED
      BY <1>1, <1>6, <1>8, <1>11, <2>2, Zenon DEF WasDelivered
  <1>12. \A v \in 1..MaxPosts, m \in Modules : <<v, m>> \in received' => v <= posted'
    <2>1. w <= posted
      BY <1>5, BoundAssumption
    <2> QED
      BY <1>1, <1>2, <1>4, <2>1, Zenon
  <1>13. pc' = "deliver" => event'.value \in 1..posted' /\ InDelivery(event.value)'
    <2>1. SUFFICES ASSUME pc' = "deliver"
                   PROVE  event'.value \in 1..posted' /\ InDelivery(event.value)'
      BY Zenon
    <2>2. event' = event /\ InDelivery(w)'
      BY <1>10, <1>11, <2>1, Zenon
    <2> QED
      BY <1>1, <1>w, <2>2, Zenon DEF InDelivery, Removed
  <1>14. \A v \in 1..posted' : Waits(v)' \/ InDelivery(v)' \/ WasDelivered(v)'
    BY <1>1, <1>9, <1>10, <1>11, Zenon
  <1>15. \A j \in DOMAIN events' : events'[j].value <= posted'
    BY <1>1, <1>2, Zenon
  <1> QED
    BY <1>12, <1>13, <1>14, <1>15, Zenon DEF EventInv

\* Every step keeps every accepted event in one place.
LEMMA EventStep ==
    ASSUME TypeOK, Phase, EventInv, [Next]_vars
    PROVE  EventInv'
  <1>1. CASE ~AcceptsWork'
    BY <1>1, Zenon DEF EventInv
  <1>2. CASE AcceptsWork'
    <2>1. AcceptsWork
      BY <1>2, LifeForward, Zenon
    <2>2. CASE FailInit \/ BeginStop
      BY <1>2, <2>2, Zenon DEF FailInit, BeginStop, AcceptsWork
    <2>3. CASE SelectEvent
      BY <2>1, <2>3, SelectEventPlaces, Zenon
    <2>4. CASE Deliver
      BY <2>1, <2>4, DeliverPlaces, Zenon
    <2>5. CASE \E m \in 0..NModules : Post(m)
      BY <2>5, PostEvent, Zenon
    <2>6. /\ \A i \in DOMAIN events : events[i].value <= posted
          /\ \A v \in 1..MaxPosts, m \in Modules :
               <<v, m>> \in received => v <= posted
          /\ pc = "deliver" => event.value \in 1..posted /\ InDelivery(event.value)
          /\ \A v \in 1..posted : Waits(v) \/ InDelivery(v) \/ WasDelivered(v)
      BY <2>1, Zenon DEF EventInv
    <2>7. ASSUME UNCHANGED <<events, received>>, NEW v
          PROVE  /\ Waits(v) => Waits(v)'
                 /\ WasDelivered(v) => WasDelivered(v)'
                 /\ InDelivery(v) /\ UNCHANGED <<event, pc, cursor>> => InDelivery(v)'
      <3>1. Waits(v) => Waits(v)'
        BY <2>7, Zenon DEF Waits
      <3>2. Removed(v)' <=> Removed(v)
        BY <2>7, Zenon DEF Removed
      <3> QED
        BY <2>7, <3>1, <3>2, Zenon DEF WasDelivered, InDelivery
    <2>8. CASE /\ UNCHANGED <<events, event, posted, received>>
               /\ pc # "deliver" /\ pc' # "deliver"
      <3>1. \A v \in 1..posted : Waits(v)' \/ WasDelivered(v)'
        BY <2>6, <2>7, <2>8, Zenon DEF InDelivery
      <3> QED
        BY <2>6, <2>8, <3>1, Zenon DEF EventInv
    <2>9. CASE UNCHANGED <<events, event, posted, received, pc, cursor>>
      <3>1. \A v \in 1..posted : Waits(v)' \/ InDelivery(v)' \/ WasDelivered(v)'
        BY <2>6, <2>7, <2>9, Zenon
      <3>2. InDelivery(event.value) => InDelivery(event.value)'
        BY <2>9, Zenon DEF InDelivery, Removed
      <3> QED
        BY <2>6, <2>9, <3>1, <3>2, Zenon DEF EventInv
    <2> QED
      BY <2>2, <2>3, <2>4, <2>5, <2>8, <2>9, EventSteps, Zenon
  <1> QED
    BY <1>1, <1>2, Zenon

\* The place of every event is what EventsConserved states with sets.
LEMMA EventPlaces ==
    ASSUME EventInv
    PROVE  EventsConserved
  <1>1. SUFFICES ASSUME AcceptsWork, NEW v \in 1..posted
                 PROVE  LET queued == {i \in DOMAIN events : events[i].value = v}
                            seen   == {m \in Modules : <<v, m>> \in received}
                        IN  \/ /\ \E i \in DOMAIN events : queued = {i}
                               /\ seen = {}
                            \/ /\ queued = {} /\ pc = "deliver" /\ event.value = v
                               /\ seen = {m \in 1..(cursor - 1) : m # event.sender}
                            \/ /\ queued = {}
                               /\ \E m \in 0..NModules : Modules \ {m} \subseteq seen
    BY Zenon DEF EventsConserved, AcceptsWork
  <1> DEFINE queued == {i \in DOMAIN events : events[i].value = v}
             seen   == {m \in Modules : <<v, m>> \in received}
  <1>2. Waits(v) \/ InDelivery(v) \/ WasDelivered(v)
    BY <1>1, Zenon DEF EventInv
  <1>3. CASE Waits(v)
    <2>1. PICK i \in DOMAIN events :
            \A j \in DOMAIN events : events[j].value = v <=> j = i
      BY <1>3, Zenon DEF Waits
    <2>2. queued = {i}
      BY <2>1, Zenon
    <2>3. seen = {}
      BY <1>3, Zenon DEF Waits
    <2> QED
      BY <2>2, <2>3, Zenon
  <1>4. CASE InDelivery(v)
    <2>1. queued = {}
      BY <1>4, Zenon DEF InDelivery, Removed
    <2>2. /\ pc = "deliver" /\ event.value = v /\ cursor \in Modules
          /\ \A m \in Modules :
               <<v, m>> \in received <=> m < cursor /\ m # event.sender
      BY <1>4, Zenon DEF InDelivery
    <2>3. \A m : m \in 1..(cursor - 1) <=> m \in Modules /\ m < cursor
      BY <2>2, TaskAssumption DEF Modules
    <2>4. seen = {m \in 1..(cursor - 1) : m # event.sender}
      BY <2>2, <2>3, Zenon
    <2> QED
      BY <2>1, <2>2, <2>4, Zenon
  <1>5. CASE WasDelivered(v)
    BY <1>5, Zenon DEF WasDelivered, Removed
  <1> QED
    BY <1>2, <1>3, <1>4, <1>5, Zenon

(***************************************************************************)
(* The theorems.                                                           *)
(***************************************************************************)
\* The invariants hold initially, and every step keeps them.
LEMMA WorkInit == Init => TaskInv /\ EventInv
  <1> SUFFICES ASSUME Init PROVE TaskInv /\ EventInv
    BY Zenon
  <1>1. stack = <<>> /\ events = <<>> /\ posted = 0 /\ received = {}
    BY Zenon DEF Init
  <1>2. /\ DOMAIN stack = {} /\ Len(stack) = 0 /\ DOMAIN events = {}
        /\ 1..posted = {}
    BY <1>1
  <1>3. \A t \in Tasks : ~task[t].executing /\ ~task[t].active /\ task[t].completed = 0
    BY Zenon DEF Init
  <1>4. Len(stack) <= 1
    BY <1>2
  <1>5. NoReentry
    BY <1>2, <1>3, <1>4, Zenon DEF NoReentry
  <1>6. FramesNotNewer /\ NothingCompleted /\ ProgressAccounting
    BY <1>2, <1>3, Zenon DEF FramesNotNewer, NothingCompleted, ProgressAccounting
  <1>7. pc # "deliver"
    BY Zenon DEF Init
  <1>8. EventInv
    BY <1>1, <1>2, <1>7, Zenon DEF EventInv
  <1> QED
    BY <1>5, <1>6, <1>8, Zenon DEF TaskInv

LEMMA WorkStep ==
    IInv /\ TaskInv /\ EventInv /\ [Next]_vars => TaskInv' /\ EventInv'
  BY NoReentryStep, FramesStep, NothingCompletedStep, AccountsStep, EventStep,
     Zenon DEF TaskInv, IInv

LEMMA WorkAlways == Spec => [](TaskInv /\ EventInv)
  BY WorkInit, WorkStep, InvAlways, PTL DEF Spec

\* However callbacks reschedule themselves and yield to each other, no task is
\* entered while one of its iterations is on the stack, and yield() nests no
\* deeper than yield_limit_.
THEOREM TasksNeverReentered == Spec => []NoReentry
  <1>1. TaskInv => NoReentry
    BY Zenon DEF TaskInv
  <1> QED
    BY <1>1, WorkAlways, PTL

\* The progress() snapshot accounts for every iteration of a repeating task, for
\* all sets of tasks and all schedule(), cancel() and yield() interleavings.
THEOREM ProgressAlwaysExact == Spec => []ProgressAccounting
  <1>1. TaskInv => ProgressAccounting
    BY Zenon DEF TaskInv
  <1> QED
    BY <1>1, WorkAlways, PTL

\* Whatever is posted while others are delivered, an accepted event is queued
\* once and unseen, or in delivery in module order, or was received by every
\* module but its sender.
THEOREM EventsNeverLost == Spec => []EventsConserved
  <1>1. EventInv => EventsConserved
    BY EventPlaces, Zenon
  <1> QED
    BY <1>1, WorkAlways, PTL
==============================================================================
