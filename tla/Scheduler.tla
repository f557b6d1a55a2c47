------------------------------ MODULE Scheduler ------------------------------
(***************************************************************************)
(* The cooperative scheduler of lib/core/schedule/scheduler.hpp together   *)
(* with the part of the platform contract it relies on: a critical section *)
(* (Guard), one asynchronous timer, a retained notification and idle().    *)
(*                                                                         *)
(* One thread owns init() and run(); its control point is pc.  Timer       *)
(* interrupts (isr), other threads and the callbacks themselves call the   *)
(* public operations at any moment, so each operation that the code runs   *)
(* under one Guard is one action that is enabled in every control state,   *)
(* and every stretch of run() between two Guards is a step of its own.     *)
(***************************************************************************)
EXTENDS Integers, Sequences

CONSTANTS
    NTasks,          \* kTasks: registered tasks, indices 1..NTasks
    NModules,        \* sizeof...(Modules)
    Period,          \* default_period of each task, 0 when it has none
    EventCapacity,   \* template parameter EventCapacity
    TimerCapacity,   \* template parameter TimerCapacity
    LogCapacity,     \* records the attached logger holds, 0 without a logger
    YieldLimit,      \* yield_limit_
    Callbacks,       \* identities of application timer callbacks
    Delays,          \* delays the callers pass to schedule() and timer()
    Forever,         \* kForever
    MaxTime,         \* bound on the clock
    MaxGeneration,   \* bound on schedule() and cancel() calls per task
    MaxPosts         \* bound on accepted events

Tasks   == 1..NTasks
Modules == 1..NModules
Slots   == 0..TimerCapacity
Wake    == TimerCapacity          \* the scheduler's own wake timer
NoCallback == "no_callback"       \* a null TimerCallback
Times   == 0..Forever

ASSUME TaskAssumption   == NTasks \in Nat /\ NModules \in Nat \ {0}
ASSUME SizeAssumption   == /\ EventCapacity \in Nat /\ TimerCapacity \in Nat
                           /\ LogCapacity \in Nat /\ YieldLimit \in Nat
ASSUME BoundAssumption  == /\ MaxTime \in Nat /\ MaxGeneration \in Nat
                           /\ MaxPosts \in Nat
ASSUME TimeAssumption   == /\ Forever \in Nat /\ MaxTime < Forever - 1
                           /\ Delays \subseteq Times
                           /\ Period \in [Tasks -> Times]
ASSUME CallbackAssumption == NoCallback \notin Callbacks

VARIABLES
    life,            \* lifecycle_.state()
    used,            \* used_
    stop_requested,  \* stop_requested_
    task,            \* tasks_
    events,          \* events_[0 .. event_count_ - 1]
    timers,          \* timers_
    stack,           \* the RunTask frames on the C++ stack, innermost last
    pc,              \* control point of the thread that owns init() and run()
    cursor,          \* loop index over modules_
    event,           \* the event run() took from the queue
    logs,            \* records in the logger's queue
    deadline,        \* deadline handed to platform_.idle()
    now,             \* platform_.now()
    armed,           \* due time of the one platform timer, Forever if disarmed
    isr,             \* control point of the timer interrupt
    callback,        \* the callback Fire() is about to invoke
    notified,        \* sequence() has moved since run() sampled it
    posted,          \* history: number of accepted events
    received         \* history: which module received which event

status   == <<life, used, stop_requested>>
work     == <<task, events, timers>>
locals   == <<cursor, event, stack, deadline>>     \* of init() and run()
platform == <<now, armed, isr, callback>>
history  == <<posted, received>>
vars == <<life, used, stop_requested, task, events, timers, stack, pc, cursor,
          event, logs, deadline, now, armed, isr, callback, notified, posted,
          received>>

TaskRecord  == [active : BOOLEAN, executing : BOOLEAN,
                mode : {"once", "repeat"}, interval : Times, due : Times,
                first_due : Times, explicitly_scheduled : BOOLEAN,
                completed : Nat, generation : 0..MaxGeneration]
EventRecord == [value : 1..MaxPosts, sender : 0..NModules, due : 0..MaxTime]
\* A cleared slot; the fields of an inactive timer are never read.
NoTimer     == [active |-> FALSE, due |-> 0, callback |-> NoCallback]
TimerRecord == [active : BOOLEAN, due : 0..Forever,
                callback : Callbacks \cup {NoCallback}]
FrameRecord == [task : Tasks, generation : 0..MaxGeneration]
NoEvent     == [value |-> 0, sender |-> 0, due |-> 0]

Init ==
    /\ life = "fresh" /\ used = FALSE /\ stop_requested = FALSE
    /\ task = [t \in Tasks |->
                 [active |-> FALSE, executing |-> FALSE, mode |-> "once",
                  interval |-> 0, due |-> 0, first_due |-> 0,
                  explicitly_scheduled |-> FALSE, completed |-> 0,
                  generation |-> 0]]
    /\ events = <<>> /\ event = NoEvent /\ posted = 0 /\ received = {}
    /\ timers = [s \in Slots |-> NoTimer]
    /\ stack = <<>> /\ pc = "outside" /\ cursor = 0
    /\ logs = 0 /\ deadline = Forever /\ now = 0
    /\ armed = Forever /\ isr = "none" /\ callback = NoCallback
    /\ notified = FALSE

(***************************************************************************)
(* Helpers.                                                                *)
(***************************************************************************)
\* Saturating deadline addition: Forever is never a deadline.
After(t, d) == IF d >= Forever - t THEN Forever - 1 ELSE t + d

\* Mutant: the notification is lost.
NotifyLost == notified' = notified

\* platform_.notify(): sequence() moves on.
Notify == notified' = TRUE

AcceptsWork == life \in {"fresh", "initializing", "ready", "running"}

\* Mutant: the platform timer is left alone while it is armed.
RearmOnlyIfIdle(tm) ==
    IF armed # Forever THEN armed' = armed
    ELSE \/ (\A s \in Slots : ~tm[s].active) /\ armed' = Forever
         \/ \E s \in Slots : tm[s].active /\ armed' = tm[s].due

\* The one platform timer is set to the earliest active timer of tm, or disarmed.
Rearm(tm) ==
    \/ /\ \A s \in Slots : ~tm[s].active
       /\ armed' = Forever
    \/ \E s \in Slots :
         /\ tm[s].active
         /\ \A r \in Slots : tm[r].active => tm[s].due <= tm[r].due
         /\ armed' = IF tm[s].due > now THEN tm[s].due ELSE now

Due(t) == task[t].active /\ task[t].due <= now

DueTasks == {t \in Tasks : Due(t)}

\* Mutant: yield() forgets to skip the tasks on the stack.
YieldTasksAll == DueTasks

\* What yield() may dispatch.
YieldTasks == {t \in DueTasks : ~task[t].executing}

\* Mutant: every returning iteration counts as progress.
CountsAlways(frame) == TRUE

\* A generation that moved while the callback ran means that it was rescheduled
\* or cancelled meanwhile: the old iteration is no progress of the new request.
Counts(frame) == task[frame.task].generation = frame.generation

\* Mutant: the last event is dropped instead of filling the hole.
RemoveEventNoSwap(i) == [k \in 1..(Len(events) - 1) |-> events[k]]

\* events_[i] is overwritten by the last event.
RemoveEvent(i) == [k \in 1..(Len(events) - 1) |->
                     IF k = i THEN events[Len(events)] ELSE events[k]]

\* Mutant: the wake timer is never set.
WakeTimerNever(d) == NoTimer

\* The wake timer for the earliest task deadline d.
WakeTimer(d) == IF d = Forever THEN NoTimer
                ELSE [active |-> TRUE, due |-> d, callback |-> NoCallback]

\* Mutant: a timer due right now is not considered due.
DueTimersStrict == {s \in Slots : timers[s].active /\ timers[s].due < now}

DueTimers == {s \in Slots : timers[s].active /\ timers[s].due <= now}

\* Task t is what a scan for the smallest due time over the set S finds.
FirstDue(t, S) ==
    /\ t \in S
    /\ \A u \in S : \/ task[t].due < task[u].due
                    \/ task[t].due = task[u].due /\ t <= u

\* Claim the iteration and push its frame; the callback runs outside the Guard.
TakeTask(t) ==
    /\ task' = IF task[t].mode = "repeat"
               THEN [task EXCEPT ![t].executing = TRUE,
                       ![t].due = After(task[t].due, task[t].interval)]
               ELSE [task EXCEPT ![t].executing = TRUE, ![t].active = FALSE]
    /\ stack' = Append(stack, [task |-> t, generation |-> task[t].generation])

(***************************************************************************)
(* init(): called by the application, or by run() on a fresh scheduler.    *)
(***************************************************************************)
BeginInit ==
    /\ pc \in {"outside", "init"} /\ life = "fresh"
    /\ life' = "initializing" /\ pc' = "validate"
    /\ UNCHANGED <<work, locals, platform, history, used, stop_requested, logs,
                   notified>>

\* Validate() rejects the registration.
RejectRegistration ==
    /\ pc = "validate"
    /\ pc' = "init_failed"
    /\ UNCHANGED <<work, status, locals, platform, history, logs, notified>>

\* Validate() succeeds; default-periodic tasks nobody touched become active.
ActivateDefaults ==
    /\ pc = "validate"
    /\ task' = [t \in Tasks |->
                  IF Period[t] # 0 /\ ~task[t].explicitly_scheduled
                  THEN [task[t] EXCEPT !.active = TRUE, !.mode = "repeat",
                          !.interval = Period[t], !.due = Period[t]]
                  ELSE task[t]]
    /\ pc' = "stage1" /\ cursor' = 1
    /\ UNCHANGED <<status, platform, history, events, timers, stack, event,
                   logs, deadline, notified>>

\* One module's init(stage) returns ok.
InitModule ==
    /\ pc \in {"stage1", "stage2"}
    /\ IF cursor < NModules
       THEN pc' = pc /\ cursor' = cursor + 1
       ELSE IF pc = "stage1" THEN pc' = "stage2" /\ cursor' = 1
                             ELSE pc' = "init_done" /\ cursor' = 0
    /\ UNCHANGED <<work, status, platform, history, stack, event, logs,
                   deadline, notified>>

\* One module's init(stage) fails; no later module or stage is initialized.
InitModuleFails ==
    /\ pc \in {"stage1", "stage2"}
    /\ pc' = "init_failed" /\ cursor' = 0
    /\ UNCHANGED <<work, status, platform, history, stack, event, logs,
                   deadline, notified>>

FinishInit ==
    /\ pc = "init_done"
    /\ life' = "ready"
    /\ pc' = IF used THEN "start" ELSE "outside"
    /\ UNCHANGED <<work, locals, platform, history, used, stop_requested, logs,
                   notified>>

\* Mutant: a failing initialization keeps the queued events.
FailInitKeepsEvents ==
    /\ pc = "init_failed"
    /\ life' = "failed" /\ pc' = "report"
    /\ task' = [t \in Tasks |-> [task[t] EXCEPT !.active = FALSE]]
    /\ UNCHANGED <<locals, platform, history, used, stop_requested, events,
                   timers, logs, notified>>

FailInit ==
    /\ pc = "init_failed"
    /\ life' = "failed" /\ pc' = "report"
    /\ task' = [t \in Tasks |-> [task[t] EXCEPT !.active = FALSE]]
    /\ events' = <<>>
    /\ UNCHANGED <<locals, platform, history, used, stop_requested, timers,
                   logs, notified>>

\* The failure is logged, then the log is flushed.
ReportFailure ==
    /\ pc = "report"
    /\ logs' = IF logs < LogCapacity THEN logs + 1 ELSE logs
    /\ notified' = (notified \/ logs < LogCapacity)
    /\ pc' = "flush"
    /\ UNCHANGED <<work, status, locals, platform, history>>

(***************************************************************************)
(* run().                                                                  *)
(***************************************************************************)
Run ==
    /\ pc = "outside" /\ ~used /\ life \in {"fresh", "ready"}
    /\ used' = TRUE
    /\ pc' = IF life = "fresh" THEN "init" ELSE "start"
    /\ UNCHANGED <<work, locals, platform, history, life, stop_requested, logs,
                   notified>>

\* run() after a failed init() only reports the failure.
RunAfterFailure ==
    /\ pc = "done" /\ ~used /\ life = "failed"
    /\ used' = TRUE
    /\ UNCHANGED <<work, locals, platform, history, life, stop_requested, pc,
                   logs, notified>>

\* Delays requested before run() start at the common run start time.
StartRun ==
    /\ pc = "start"
    /\ life' = "running" /\ pc' = "sample"
    /\ task' = [t \in Tasks |->
                  IF task[t].active
                  THEN [task[t] EXCEPT !.due = After(now, task[t].interval),
                                       !.first_due = After(now, task[t].interval)]
                  ELSE task[t]]
    /\ UNCHANGED <<locals, platform, history, used, stop_requested, events,
                   timers, logs, notified>>

Sample ==
    /\ pc = "sample"
    /\ notified' = FALSE /\ pc' = "select"
    /\ UNCHANGED <<work, status, locals, platform, history, logs>>

SelectStop ==
    /\ pc = "select" /\ stop_requested
    /\ pc' = "stop"
    /\ UNCHANGED <<work, status, locals, platform, history, logs, notified>>

\* The earliest due event wins only against tasks that are due strictly later.
SelectEvent ==
    /\ pc = "select" /\ ~stop_requested
    /\ \E i \in DOMAIN events :
         /\ events[i].due <= now
         /\ \A j \in DOMAIN events :
              \/ events[i].due < events[j].due
              \/ events[i].due = events[j].due /\ i <= j
         /\ \A t \in DueTasks : events[i].due < task[t].due
         /\ event' = events[i]
         /\ events' = RemoveEvent(i)
    /\ pc' = "deliver" /\ cursor' = 1
    /\ UNCHANGED <<status, platform, history, task, timers, stack, logs,
                   deadline, notified>>

SelectTask ==
    /\ pc = "select" /\ ~stop_requested
    /\ \E t \in Tasks :
         /\ FirstDue(t, DueTasks)
         /\ \A i \in DOMAIN events :
              events[i].due <= now => task[t].due <= events[i].due
         /\ TakeTask(t)
    /\ pc' = "task"
    /\ UNCHANGED <<status, platform, history, events, timers, cursor, event,
                   logs, deadline, notified>>

SelectNothing ==
    /\ pc = "select" /\ ~stop_requested
    /\ DueTasks = {}
    /\ \A i \in DOMAIN events : events[i].due > now
    /\ pc' = "log"
    /\ UNCHANGED <<work, status, locals, platform, history, logs, notified>>

\* on_event() of the next module, unless it is the sender.
Deliver ==
    /\ pc = "deliver"
    /\ received' = IF cursor = event.sender THEN received
                   ELSE received \cup {<<event.value, cursor>>}
    /\ IF cursor < NModules
       THEN pc' = pc /\ cursor' = cursor + 1 /\ event' = event
       ELSE pc' = "sample" /\ cursor' = 0 /\ event' = NoEvent
    /\ UNCHANGED <<work, status, platform, stack, logs, deadline, notified,
                   posted>>

\* The innermost callback returns.
ReturnTask ==
    /\ pc = "task" /\ stack # <<>>
    /\ LET frame == stack[Len(stack)] IN
         /\ task' = [task EXCEPT ![frame.task].executing = FALSE,
                       ![frame.task].completed =
                          IF Counts(frame) THEN @ + 1 ELSE @]
         /\ stack' = SubSeq(stack, 1, Len(stack) - 1)
         /\ pc' = IF Len(stack) = 1 THEN "sample" ELSE "task"
    /\ UNCHANGED <<status, platform, history, events, timers, cursor, event,
                   logs, deadline, notified>>

\* A running task yields to another due task, nested on the same stack.  The
\* calls that find nothing to do or exceed the limit change no scheduling state.
Yield ==
    /\ pc = "task" /\ stack # <<>>
    /\ ~stop_requested /\ life = "running"
    /\ Len(stack) < YieldLimit
    /\ \E t \in Tasks :
         /\ FirstDue(t, YieldTasks)
         /\ TakeTask(t)
    /\ UNCHANGED <<status, platform, history, events, timers, pc, cursor,
                   event, logs, deadline, notified>>

\* logging_.dispatch(): one record when no task or event is due.
DispatchLog ==
    /\ pc = "log"
    /\ IF logs > 0 THEN logs' = logs - 1 /\ pc' = "sample"
                   ELSE logs' = logs /\ pc' = "prepare"
    /\ UNCHANGED <<work, status, locals, platform, history, notified>>

\* Second critical section of an idle pass: look again, then cover the earliest
\* task with the wake timer and the earliest timer with the platform timer.
PrepareIdle ==
    /\ pc = "prepare"
    /\ IF stop_requested \/ logs > 0
       THEN /\ pc' = "sample"
            /\ UNCHANGED <<timers, deadline, armed>>
       ELSE /\ pc' = "enter_idle"
            /\ \E d \in 0..Forever :
                 /\ \/ d = Forever /\ \A t \in Tasks : ~task[t].active
                    \/ /\ \E t \in Tasks : task[t].active /\ task[t].due = d
                       /\ \A t \in Tasks : task[t].active => d <= task[t].due
                 /\ timers' = [timers EXCEPT ![Wake] = WakeTimer(d)]
            /\ \E d \in 0..Forever :
                 /\ \/ d = Forever /\ \A s \in Slots : ~timers'[s].active
                    \/ /\ \E s \in Slots : timers'[s].active /\ timers'[s].due = d
                       /\ \A s \in Slots : timers'[s].active => d <= timers'[s].due
                 /\ deadline' = d
            /\ Rearm(timers')
    /\ UNCHANGED <<status, history, task, events, stack, cursor, event, logs,
                   now, isr, callback, notified>>

\* platform_.idle(): returns at once when a module vetoed sleep, a notification
\* arrived since the sample, or the deadline passed; otherwise it blocks.
EnterIdle ==
    /\ pc = "enter_idle"
    /\ \/ pc' = "sample" /\ deadline' = Forever
       \/ ~notified /\ now < deadline /\ pc' = "idle" /\ UNCHANGED deadline
    /\ UNCHANGED <<work, status, platform, history, stack, cursor, event, logs,
                   notified>>

\* Every adapter wakes on a notification.
WakeNotified ==
    /\ pc = "idle" /\ notified
    /\ pc' = "sample" /\ deadline' = Forever
    /\ UNCHANGED <<work, status, platform, history, stack, cursor, event, logs,
                   notified>>

\* Host and fake adapters also wake at the deadline; WFI does not.
WakeDeadline ==
    /\ pc = "idle" /\ now >= deadline
    /\ pc' = "sample" /\ deadline' = Forever
    /\ UNCHANGED <<work, status, platform, history, stack, cursor, event, logs,
                   notified>>

(***************************************************************************)
(* Shutdown, at the end of run().                                          *)
(***************************************************************************)
BeginStop ==
    /\ pc = "stop"
    /\ life' = "stopping" /\ pc' = "quiesce"
    /\ timers' = [s \in Slots |-> NoTimer]
    /\ armed' = Forever
    /\ task' = [t \in Tasks |-> [task[t] EXCEPT !.active = FALSE]]
    /\ events' = <<>>
    /\ UNCHANGED <<locals, history, used, stop_requested, logs, now, isr,
                   callback, notified>>

\* Mutant: quiesce() does not wait for the interrupt handler.
QuiesceNoWait ==
    /\ pc = "quiesce"
    /\ armed' = Forever /\ Notify
    /\ pc' = "flush"
    /\ UNCHANGED <<work, status, locals, history, logs, now, isr, callback>>

\* quiesce() waits for an interrupt handler in progress.
Quiesce ==
    /\ pc = "quiesce" /\ isr = "none"
    /\ armed' = Forever /\ Notify
    /\ pc' = "flush"
    /\ UNCHANGED <<work, status, locals, history, logs, now, isr, callback>>

\* logging_.flush(), then the last lifecycle request.
Flush ==
    /\ pc = "flush"
    /\ IF logs > 0
       THEN logs' = logs - 1 /\ UNCHANGED <<life, pc>>
       ELSE /\ logs' = logs /\ pc' = "done"
            /\ life' = IF life = "stopping" THEN "stopped" ELSE life
    /\ UNCHANGED <<work, locals, platform, history, used, stop_requested,
                   notified>>

(***************************************************************************)
(* Public operations, from any context.                                    *)
(***************************************************************************)
\* A full queue drops the new event.
QueueHasRoom == Len(events) < EventCapacity

Post(m) ==
    /\ AcceptsWork /\ posted < MaxPosts
    /\ QueueHasRoom
    /\ events' = Append(events, [value |-> posted + 1, sender |-> m, due |-> now])
    /\ posted' = posted + 1
    /\ Notify
    /\ UNCHANGED <<status, locals, platform, task, timers, pc, logs, received>>

\* A slot's record after schedule(), which spares only executing; before run()
\* the delay is kept as it is.
Scheduled(slot, d, mode) ==
    LET due == IF life = "running" THEN After(now, d) ELSE d IN
    [active |-> TRUE, executing |-> slot.executing, mode |-> mode,
     interval |-> d, due |-> due, first_due |-> due,
     explicitly_scheduled |-> TRUE, completed |-> 0,
     generation |-> slot.generation + 1]

ScheduleSlot(t, d, mode) ==
    /\ AcceptsWork /\ task[t].generation < MaxGeneration
    /\ ~(mode = "repeat" /\ d = 0)
    /\ task' = [task EXCEPT ![t] = Scheduled(task[t], d, mode)]
    /\ Notify
    /\ UNCHANGED <<status, locals, platform, history, events, timers, pc,
                   logs>>

CancelSlot(t) ==
    /\ AcceptsWork /\ task[t].generation < MaxGeneration
    /\ task[t].active
    /\ task' = [task EXCEPT ![t].active = FALSE,
                  ![t].explicitly_scheduled = TRUE, ![t].generation = @ + 1]
    /\ Notify
    /\ UNCHANGED <<status, locals, platform, history, events, timers, pc,
                   logs>>

\* The slot timer() uses: the active one with this callback, else the last
\* inactive one.
SlotFor(s, c) ==
    LET same == {r \in Slots \ {Wake} : timers[r].active /\ timers[r].callback = c}
        free == {r \in Slots \ {Wake} : ~timers[r].active}
    IN  IF same # {} THEN s \in same /\ \A r \in same : s <= r
                     ELSE s \in free /\ \A r \in free : r <= s

TimerSlot(d, c) ==
    /\ life = "running" /\ d # 0
    /\ \E s \in Slots :
         /\ SlotFor(s, c)
         /\ timers' = [timers EXCEPT ![s] = [active |-> TRUE,
                                             due |-> After(now, d),
                                             callback |-> c]]
    /\ Rearm(timers')
    /\ Notify
    /\ UNCHANGED <<status, locals, history, task, events, pc, logs, now, isr,
                   callback>>

CancelTimer(c) ==
    /\ life = "running"
    /\ \E s \in Slots \ {Wake} :
         /\ timers[s].active /\ timers[s].callback = c
         /\ \A r \in Slots \ {Wake} :
              timers[r].active /\ timers[r].callback = c => s <= r
         /\ timers' = [timers EXCEPT ![s] = NoTimer]
    /\ Rearm(timers')
    /\ Notify
    /\ UNCHANGED <<status, locals, history, task, events, pc, logs, now, isr,
                   callback>>

Stop ==
    /\ life = "running"
    /\ stop_requested' = TRUE /\ Notify
    /\ UNCHANGED <<work, locals, platform, history, life, used, pc, logs>>

\* Logger::write() of an accepted record; a full logger drops it.
LogWrite ==
    /\ logs < LogCapacity
    /\ logs' = logs + 1 /\ Notify
    /\ UNCHANGED <<work, status, locals, platform, history, pc>>

(***************************************************************************)
(* The timer interrupt and Fire().                                         *)
(***************************************************************************)
\* The platform timer expires: it is disarmed before the handler is entered.
TimerInterrupt ==
    /\ isr = "none" /\ armed <= now
    /\ armed' = Forever /\ isr' = "scan"
    /\ UNCHANGED <<work, status, locals, history, pc, logs, now, callback,
                   notified>>

\* One pass of the loop in Fire(): a due timer is removed before its callback
\* is invoked; with none left the platform timer is set again.
FireScan ==
    /\ isr = "scan"
    /\ \/ /\ life # "running"
          /\ isr' = "exit" /\ UNCHANGED <<timers, armed, callback>>
       \/ /\ life = "running" /\ DueTimers # {}
          /\ \E s \in DueTimers :
               /\ \A r \in DueTimers :
                    \/ timers[s].due < timers[r].due
                    \/ timers[s].due = timers[r].due /\ s <= r
               /\ callback' = timers[s].callback
               /\ timers' = [timers EXCEPT ![s] = NoTimer]
          /\ isr' = "call" /\ UNCHANGED armed
       \/ /\ life = "running" /\ DueTimers = {}
          /\ Rearm(timers)
          /\ isr' = "exit" /\ UNCHANGED <<timers, callback>>
    /\ UNCHANGED <<status, locals, history, task, events, pc, logs, now,
                   notified>>

\* The callback has run (what it called are steps of their own); notify.
FireCallback ==
    /\ isr = "call"
    /\ isr' = "scan" /\ callback' = NoCallback /\ Notify
    /\ UNCHANGED <<work, status, locals, history, pc, logs, now, armed>>

\* The adapter notifies once more when the handler returns.
InterruptReturn ==
    /\ isr = "exit"
    /\ isr' = "none" /\ Notify
    /\ UNCHANGED <<work, status, locals, history, pc, logs, now, armed,
                   callback>>

Tick ==
    /\ now < MaxTime
    /\ now' = now + 1
    /\ UNCHANGED <<work, status, locals, history, pc, logs, armed, isr,
                   callback, notified>>

InitStep  == \/ BeginInit \/ RejectRegistration \/ ActivateDefaults
             \/ InitModule \/ InitModuleFails \/ FinishInit \/ FailInit
             \/ ReportFailure
RunStep   == \/ StartRun \/ Sample \/ SelectStop \/ SelectEvent \/ SelectTask
             \/ SelectNothing \/ Deliver \/ ReturnTask \/ DispatchLog
             \/ PrepareIdle \/ EnterIdle \/ WakeNotified
             \/ BeginStop \/ Quiesce \/ Flush
Interrupt == TimerInterrupt \/ FireScan \/ FireCallback \/ InterruptReturn
Operation == \/ \E m \in 0..NModules : Post(m)
             \/ \E t \in Tasks, d \in Delays, mode \in {"once", "repeat"} :
                  ScheduleSlot(t, d, mode)
             \/ \E t \in Tasks : CancelSlot(t)
             \/ \E d \in Delays, c \in Callbacks : TimerSlot(d, c)
             \/ \E c \in Callbacks : CancelTimer(c)
             \/ Stop \/ LogWrite

Next == InitStep \/ Run \/ RunAfterFailure \/ RunStep \/ Yield \/ WakeDeadline
        \/ Interrupt \/ Operation \/ Tick

Spec == Init /\ [][Next]_vars

(***************************************************************************)
(* The owning thread keeps running and its callbacks return, an expired    *)
(* platform timer interrupts and its handler runs to the end, time passes. *)
(* Nothing is assumed of the callers, of yield() or of waking by deadline. *)
(***************************************************************************)
Fairness == /\ WF_vars(RunStep) /\ WF_vars(Interrupt) /\ WF_vars(Tick)

LiveSpec == Spec /\ Fairness
(***************************************************************************)
(* Safety.                                                                 *)
(***************************************************************************)
\* The types of the control state, of the tasks, of the queues and of the timers.
ControlOK ==
    /\ life \in {"fresh", "initializing", "ready", "running", "stopping",
                 "stopped", "failed"}
    /\ used \in BOOLEAN /\ stop_requested \in BOOLEAN /\ notified \in BOOLEAN
    /\ pc \in {"outside", "init", "validate", "stage1", "stage2", "init_done",
               "init_failed", "report", "start", "sample", "select", "deliver",
               "task", "log", "prepare", "enter_idle", "idle", "stop",
               "quiesce", "flush", "done"}

TasksOK ==
    task \in [Tasks -> TaskRecord] /\ stack \in Seq(FrameRecord)

QueuesOK ==
    /\ events \in Seq(EventRecord) /\ Len(events) <= EventCapacity
    /\ event \in EventRecord \cup {NoEvent} /\ cursor \in 0..NModules
    /\ logs \in 0..LogCapacity
    /\ posted \in 0..MaxPosts
    /\ received \in SUBSET ((0..MaxPosts) \X (0..NModules))

TimersOK ==
    /\ timers \in [Slots -> TimerRecord]
    /\ deadline \in 0..Forever /\ now \in 0..MaxTime /\ armed \in 0..Forever
    /\ isr \in {"none", "scan", "call", "exit"}
    /\ callback \in Callbacks \cup {NoCallback}

\* Every variable holds a value of its type; in particular the event queue and
\* the logger never exceed their capacities.
TypeOK == ControlOK /\ TasksOK /\ QueuesOK /\ TimersOK

\* Whoever armed, replaced, cancelled or fired a timer last, the one platform
\* timer expires no later than every active timer (or as soon as it can when
\* that time has passed), unless Fire() is still going to look again.
TimersCovered ==
    life = "running" /\ isr \in {"none", "exit"} =>
        \A s \in Slots : timers[s].active =>
            armed <= timers[s].due \/ armed <= now

\* The scheduler never sleeps on work: when it blocks in platform_.idle()
\* without a notification to wake it, no stop request, event or log record is
\* waiting, and every active task is covered by the wake timer, or an interrupt
\* handler is running and notifies when it returns.
NoLostWakeup ==
    pc = "idle" /\ ~notified =>
        /\ ~stop_requested /\ events = <<>> /\ logs = 0
        /\ \/ isr # "none"
           \/ \A t \in Tasks : task[t].active =>
                timers[Wake].active /\ timers[Wake].due <= task[t].due

\* No task is entered again while one of its iterations is on the stack, and
\* yield() nests no deeper than its limit.
NoReentry ==
    /\ \A t \in Tasks :
         task[t].executing <=> \E i \in DOMAIN stack : stack[i].task = t
    /\ \A i, j \in DOMAIN stack : stack[i].task = stack[j].task => i = j
    /\ Len(stack) <= 1 \/ Len(stack) <= YieldLimit

\* Iterations of the current request that were taken and have not returned.
InFlight(t) ==
    IF \E i \in DOMAIN stack : /\ stack[i].task = t
                               /\ stack[i].generation = task[t].generation
    THEN 1 ELSE 0

\* A repeating task loses and gains no iteration, however it is rescheduled,
\* cancelled, yielded to or late: its next due time is its first one plus one
\* interval per iteration that completed or is running.  The watchdog's
\* progress check computes exactly this from the progress() snapshot.
ProgressAccounting ==
    \A t \in Tasks :
        life = "running" /\ task[t].active /\ task[t].mode = "repeat"
        /\ task[t].due < Forever - 1 =>
            task[t].due = task[t].first_due
                          + (task[t].completed + InFlight(t)) * task[t].interval

\* An accepted event is neither lost nor duplicated by the swap that removes
\* its predecessor: until the scheduler stops it is queued once and unseen, or
\* being delivered in module order, or was received by all but its sender.
EventsConserved ==
    life \in {"fresh", "initializing", "ready", "running"} =>
        \A v \in 1..posted :
            LET queued == {i \in DOMAIN events : events[i].value = v}
                seen   == {m \in Modules : <<v, m>> \in received}
            IN  \/ /\ \E i \in DOMAIN events : queued = {i}
                   /\ seen = {}
                \/ /\ queued = {} /\ pc = "deliver" /\ event.value = v
                   /\ seen = {m \in 1..(cursor - 1) : m # event.sender}
                \/ /\ queued = {}
                   /\ \E m \in 0..NModules : Modules \ {m} \subseteq seen

\* Once work is refused none is left, whatever raced with the stop or with the
\* failing initialization, and run() returns only after the last interrupt
\* handler did.
Quiescent ==
    /\ life \in {"stopping", "stopped", "failed"} =>
         /\ \A t \in Tasks : ~task[t].active
         /\ events = <<>>
         /\ \A s \in Slots : ~timers[s].active
         /\ armed = Forever
    /\ life = "stopped" => isr = "none" /\ stack = <<>>

(***************************************************************************)
(* Liveness, of LiveSpec.                                                  *)
(***************************************************************************)
\* A stop request ends run().
StopTerminates == stop_requested ~> life = "stopped"

\* A due task is entered, unless it is cancelled, rescheduled or discarded by a
\* stop request first; in particular a sleeping scheduler wakes for it.
DueTaskRuns ==
    \A t \in Tasks : life = "running" /\ Due(t) ~>
        task[t].executing \/ ~Due(t) \/ stop_requested

\* A due timer fires, unless it is cancelled, replaced or discarded first.
DueTimerFires ==
    \A s \in Slots :
        life = "running" /\ timers[s].active /\ timers[s].due <= now ~>
            ~timers[s].active \/ timers[s].due > now \/ life # "running"

\* An accepted event is received by every module but its sender, unless a stop
\* request discards it.
EventDelivered ==
    \A v \in 1..MaxPosts : life = "running" /\ v <= posted ~>
        \/ \E m \in 0..NModules :
             \A n \in Modules \ {m} : <<v, n>> \in received
        \/ stop_requested

\* Whatever the scheduler accepted is served: tasks, timers and events.
WorkServed == DueTaskRuns /\ DueTimerFires /\ EventDelivered
==============================================================================
