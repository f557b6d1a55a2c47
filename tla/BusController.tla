---------------------------- MODULE BusController ----------------------------
(***************************************************************************)
(* The transaction engine of the HAL: hal::Controller of                   *)
(* lib/hal/controller.hpp, one per I2C or SPI peripheral.                  *)
(*                                                                         *)
(* Callers submit a transfer (a list of actions) or a reset from task or   *)
(* interrupt context.  A submission takes the try-lock, arms a deadline    *)
(* alarm, becomes the active operation, releases the lock and pends the    *)
(* interrupt.  interrupt() is the only place the operation advances: under *)
(* the lock it ticks the state machine at most Budget times, then leaves   *)
(* the lock and calls the application back.  It is entered by the          *)
(* peripheral, by a pend, by either alarm, or for no reason at all.        *)
(*                                                                         *)
(* Abstracted: the bytes moved (whether a check or a poll matches is a     *)
(* free choice), the devices and their configuration, the statistics.      *)
(***************************************************************************)
EXTENDS Integers, Sequences

CONSTANTS
    Callers,        \* contexts that submit work
    Programs,       \* the action lists they submit
    Timeouts,       \* the timeouts they choose
    PauseTime,      \* length of a pause action
    PollTime,       \* kResetPollUs
    PollLimit,      \* attempts of an "until" action
    Budget,         \* ticks per interrupt, 8 in the code
    AsyncReset,     \* does the backend have poll_reset()
    MaxTime,        \* the largest time, detail::kMaximumTime
    MaxRequests     \* bound on the accepted operations

\* What an action does: move data, move data until it matches (with or
\* without a limit), compare data already read, or wait.
Kinds == {"transfer", "poll", "until", "check", "pause"}

ASSUME ControllerAssumption ==
    /\ Programs \subseteq Seq(Kinds)
    /\ Timeouts \subseteq Nat \ {0}
    /\ {PauseTime, PollTime, PollLimit, Budget} \subseteq Nat \ {0}
    /\ MaxTime \in Nat
    /\ MaxRequests \in Nat
    /\ AsyncReset \in BOOLEAN

VARIABLES
    now,            \* timing_.now()
    alarm,          \* due time of Alarm() and of PauseAlarm(), or Never
    pending,        \* an invocation of interrupt() is on its way
    hw,             \* the peripheral: "off", "ready", "busy", "done", "failed"
    recovering,     \* the backend's reset drives the pins
    caller,         \* where each caller is inside Start() or reset()
    isr,            \* where interrupt() is
    budget,         \* ticks left in this interrupt
    again,          \* again_, and the first pass of the loop
    initialized,    \* initialized_
    faulted,        \* faulted_
    state,          \* the state of machine_
    active,         \* active_
    resetting,      \* resetting_
    resetStarted,   \* reset_started_
    setupFailed,    \* setup_failed_
    started,        \* started_
    completed,      \* completed_
    pollCount,      \* poll_count_
    deadline,       \* deadline_
    pauseDue,       \* pause_due_
    status,         \* status_
    actions,        \* actions_
    request,        \* the operation whose callback_ or reset_callback_ is held
    notification,   \* notification_ or reset_notification_ with its result
    calling,        \* the callback interrupt() copied before it unlocked
    issued,         \* number of accepted operations (history)
    delivered       \* results passed to application callbacks (history)

timing == <<now, alarm>>
backend == <<hw, recovering>>
loop == <<isr, budget, again>>
operation == <<active, resetting, resetStarted, setupFailed, started, completed,
               pollCount, deadline, pauseDue, status, actions, request>>
outbox == <<notification, calling, delivered>>
vars == <<timing, pending, backend, caller, loop, initialized, faulted, state,
          operation, outbox, issued>>

-----------------------------------------------------------------------------

Alarms == {"deadline", "pause"}
Never == MaxTime + 1
NoAlarms == [a \in Alarms |-> Never]

Statuses == {"ok", "timeout", "mismatch", "timer_error", "hardware"}
Requests == 1 .. MaxRequests
NoRequest == 0

\* A TransferResult or ResetResult with the operation it answers, the time it
\* was decided and the deadline that applied.
Results == [request : Requests, kind : {"transfer", "reset"}, status : Statuses,
            completed : Nat, actions : Programs \union {<<>>},
            at : 0 .. MaxTime, due : 0 .. MaxTime]
NoResult == [request |-> NoRequest]

ControlOK ==
    /\ pending \in BOOLEAN /\ recovering \in BOOLEAN /\ again \in BOOLEAN
    /\ initialized \in BOOLEAN /\ faulted \in BOOLEAN /\ active \in BOOLEAN
    /\ resetting \in BOOLEAN /\ resetStarted \in BOOLEAN
    /\ setupFailed \in BOOLEAN /\ started \in BOOLEAN
    /\ hw \in {"off", "ready", "busy", "done", "failed"}
    /\ caller \in [Callers -> {"idle", "locked", "pend"}]
    /\ isr \in {"idle", "tick", "notify"}
    /\ state \in {"idle", "transfer", "pause", "finish", "reset", "faulted"}
    /\ status \in Statuses

TimingOK ==
    /\ now \in 0 .. MaxTime
    /\ alarm \in [Alarms -> 0 .. Never]
    /\ deadline \in 0 .. MaxTime /\ pauseDue \in 0 .. MaxTime

ProgressOK ==
    /\ budget \in 0 .. Budget
    /\ actions \in Programs \union {<<>>}
    /\ completed \in Nat
    /\ active /\ ~resetting => completed <= Len(actions)
    /\ pollCount \in 0 .. PollLimit

OutboxOK ==
    /\ issued \in 0 .. MaxRequests
    /\ request \in Requests \union {NoRequest}
    /\ notification \in Results \union {NoResult}
    /\ calling \in Results \union {NoResult}
    /\ delivered \in Seq(Results)

\* The types of the control state, of the clock and its alarms, of the progress
\* of the operation and of what has been answered.
TypeOK == ControlOK /\ TimingOK /\ ProgressOK /\ OutboxOK

Init ==
    /\ now = 0 /\ alarm = NoAlarms /\ pending = FALSE
    /\ hw = "off" /\ recovering = FALSE
    /\ caller = [c \in Callers |-> "idle"]
    /\ isr = "idle" /\ budget = 0 /\ again = FALSE
    /\ initialized = FALSE /\ faulted = FALSE /\ state = "idle"
    /\ active = FALSE /\ resetting = FALSE /\ resetStarted = FALSE
    /\ setupFailed = FALSE /\ started = FALSE
    /\ completed = 0 /\ pollCount = 0 /\ deadline = 0 /\ pauseDue = 0
    /\ status = "ok" /\ actions = <<>> /\ request = NoRequest
    /\ notification = NoResult /\ calling = NoResult
    /\ issued = 0 /\ delivered = <<>>

-----------------------------------------------------------------------------
\* Initialization (task context, before any submission).

\* init(): a failed validation or backend init leaves everything as it was.  A
\* backend may ask for a reset before its first transfer.
Initialize ==
    /\ ~initialized
    /\ initialized' = TRUE
    /\ faulted' \in BOOLEAN
    /\ UNCHANGED <<timing, pending, backend, caller, loop, state, operation,
                   outbox, issued>>

\* deinit(): rollback, before transfers are allowed.
Deinit ==
    /\ initialized /\ issued = 0
    /\ \A c \in Callers : caller[c] = "idle"
    /\ initialized' = FALSE
    /\ UNCHANGED <<timing, pending, backend, caller, loop, faulted, state,
                   operation, outbox, issued>>

-----------------------------------------------------------------------------
\* Submission.  The try-lock is held by a caller or by the ticking interrupt; a
\* caller that finds it taken is refused and changes nothing.

Locked == isr = "tick" \/ \E c \in Callers : caller[c] = "locked"

\* detail::Add refuses a time past the largest one.  timing_.arm() may refuse any
\* time: each use has an alternative (Refuse, timer_error) for that.
CanArm(delay) == now + delay <= MaxTime

\* Mutant: a transfer is accepted by a faulted controller.
AvailableFaulted == ~active

\* What Start() asks of the controller.
Available == ~active /\ ~faulted

\* Mutant: the deadline is recorded and no alarm armed for it.
ArmDeadlineUnarmed(delay) ==
    CanArm(delay) /\ deadline' = now + delay /\ UNCHANGED alarm

\* Both submissions arm the deadline alarm and remember its time.
ArmDeadline(delay) ==
    /\ CanArm(delay)
    /\ alarm' = [alarm EXCEPT !["deadline"] = now + delay]
    /\ deadline' = now + delay

\* A transfer begins with its first action.
Rewind == completed' = 0 /\ pollCount' = 0

\* The call of Start() or reset() up to a successful TryLock().
Lock(c) ==
    /\ initialized /\ issued < MaxRequests
    /\ caller[c] = "idle" /\ ~Locked
    /\ caller' = [caller EXCEPT ![c] = "locked"]
    /\ UNCHANGED <<timing, pending, backend, loop, initialized, faulted, state,
                   operation, outbox, issued>>

\* Every early return after the lock: an operation is active, the controller is
\* faulted, the actions or the timeout are invalid, the alarm is refused.
Refuse(c) ==
    /\ caller[c] = "locked"
    /\ caller' = [caller EXCEPT ![c] = "idle"]
    /\ UNCHANGED <<timing, pending, backend, loop, initialized, faulted, state,
                   operation, outbox, issued>>

\* The rest of an accepted Start(), up to Unlock().  A backend begin() that
\* fails is reported later, through the interrupt.
Start(c, program, delay) ==
    /\ caller[c] = "locked"
    /\ Available /\ ArmDeadline(delay) /\ Rewind
    /\ actions' = program
    /\ active' = TRUE /\ resetting' = FALSE /\ started' = FALSE
    /\ issued' = issued + 1 /\ request' = issued + 1
    /\ \/ status' = "ok" /\ setupFailed' = FALSE
       \/ status' = "hardware" /\ setupFailed' = TRUE
    /\ hw' = "ready"
    /\ caller' = [caller EXCEPT ![c] = "pend"]
    /\ UNCHANGED <<now, pending, recovering, loop, initialized, faulted, state,
                   resetStarted, pauseDue, outbox>>

\* The rest of an accepted reset(), up to Unlock().  A faulted controller takes it.
Reset(c, delay) ==
    /\ caller[c] = "locked"
    /\ ~active /\ ArmDeadline(delay)
    /\ active' = TRUE /\ resetting' = TRUE /\ resetStarted' = FALSE
    /\ issued' = issued + 1 /\ request' = issued + 1
    /\ caller' = [caller EXCEPT ![c] = "pend"]
    /\ UNCHANGED <<now, pending, backend, loop, initialized, faulted, state,
                   setupFailed, started, completed, pollCount, pauseDue, status,
                   actions, outbox>>

\* backend_.pend() after Unlock(): an interrupt may already have run in between.
Pend(c) ==
    /\ caller[c] = "pend"
    /\ pending' = TRUE
    /\ caller' = [caller EXCEPT ![c] = "idle"]
    /\ UNCHANGED <<timing, backend, loop, initialized, faulted, state, operation,
                   outbox, issued>>

-----------------------------------------------------------------------------
\* interrupt().  An entry that cannot take the lock pends itself again, which
\* leaves the invocation on its way: there is nothing to do until the unlock.

Enter ==
    /\ isr = "idle" /\ initialized /\ ~Locked
    /\ isr' = "tick" /\ budget' = Budget /\ again' = TRUE
    /\ pending' = FALSE
    /\ UNCHANGED <<timing, backend, caller, initialized, faulted, state,
                   operation, outbox, issued>>

Ticking(s) == isr = "tick" /\ active /\ again /\ budget > 0 /\ state = s

\* What every tick does besides its own effect.
Tick(next, more) ==
    /\ state' = next /\ again' = more
    /\ budget' = budget - 1
    /\ UNCHANGED <<now, isr, caller, initialized, resetting, deadline, calling,
                   delivered, issued>>

\* State::idle and State::faulted.
TickIdle ==
    /\ Ticking("idle") \/ Ticking("faulted")
    /\ Tick(IF resetting THEN "reset" ELSE "transfer", TRUE)
    /\ UNCHANGED <<alarm, pending, backend, faulted, active, resetStarted,
                   setupFailed, started, completed, pollCount, pauseDue, status,
                   actions, request, notification>>

\* Mutant: a deadline has passed one unit early.
ExpiredEarly == now + 1 >= deadline

Expired == now >= deadline

\* A transfer or a pause that ends early.
Fail(why) ==
    /\ status' = why
    /\ Tick("finish", TRUE)
    /\ UNCHANGED <<alarm, pending, backend, faulted, active, resetStarted,
                   started, completed, pauseDue, actions, request, notification>>

TransferSetupFailed ==
    /\ Ticking("transfer") /\ setupFailed
    /\ setupFailed' = FALSE
    /\ Fail(status)
    /\ UNCHANGED pollCount

TransferTimeout ==
    /\ Ticking("transfer") /\ ~setupFailed /\ Expired
    /\ Fail("timeout")
    /\ UNCHANGED <<setupFailed, pollCount>>

Transferring == Ticking("transfer") /\ ~setupFailed /\ ~Expired

TransferFails ==
    /\ Transferring /\ started /\ hw = "failed"
    /\ Fail("hardware")
    /\ UNCHANGED <<setupFailed, pollCount>>

\* poll() has no result yet.
TransferWaits ==
    /\ Transferring /\ started /\ hw = "busy"
    /\ Tick("transfer", FALSE)
    /\ UNCHANGED <<alarm, pending, backend, faulted, active, resetStarted,
                   setupFailed, started, completed, pollCount, pauseDue, status,
                   actions, request, notification>>

\* The last allowed attempt of a limited poll did not match.
TransferPollExhausted ==
    /\ Transferring /\ started /\ hw = "done"
    /\ actions[completed + 1] = "until" /\ pollCount + 1 >= PollLimit
    /\ pollCount' = pollCount + 1
    /\ Fail("mismatch")
    /\ UNCHANGED setupFailed

\* The part of State::transfer that begins the action after the first n.
Begin(n) ==
    /\ UNCHANGED <<recovering, faulted, active, resetStarted, setupFailed,
                   actions, request, notification>>
    /\ \/ /\ n = Len(actions)
          /\ Tick("finish", TRUE)
          /\ started' = FALSE /\ completed' = n
          /\ UNCHANGED <<alarm, pending, hw, pauseDue, status>>
       \/ /\ n < Len(actions) /\ actions[n + 1] = "check"
          /\ \/ Tick("transfer", TRUE) /\ completed' = n + 1 /\ UNCHANGED status
             \/ Tick("finish", TRUE) /\ completed' = n /\ status' = "mismatch"
          /\ started' = FALSE
          /\ UNCHANGED <<alarm, pending, hw, pauseDue>>
       \/ /\ n < Len(actions) /\ actions[n + 1] = "pause"
          /\ \/ /\ CanArm(PauseTime)
                /\ Tick("pause", FALSE)
                /\ pauseDue' = now + PauseTime
                /\ alarm' = [alarm EXCEPT !["pause"] = now + PauseTime]
                /\ UNCHANGED status
             \/ /\ Tick("finish", TRUE)
                /\ status' = "timer_error"
                /\ UNCHANGED <<alarm, pauseDue>>
          /\ started' = FALSE /\ completed' = n
          /\ UNCHANGED <<pending, hw>>
       \/ /\ n < Len(actions) /\ actions[n + 1] \in {"transfer", "poll", "until"}
          /\ started' = TRUE /\ completed' = n
          /\ \/ Tick("transfer", FALSE) /\ hw' = "busy" /\ UNCHANGED status
             \/ Tick("finish", TRUE) /\ status' = "hardware" /\ UNCHANGED hw
          /\ UNCHANGED <<alarm, pending, pauseDue>>

\* No action is in progress.
TransferBegins ==
    /\ Transferring /\ ~started
    /\ Begin(completed)
    /\ UNCHANGED pollCount

\* The action in progress is complete; the same tick begins the next one.
TransferAdvances ==
    /\ Transferring /\ started /\ hw = "done"
    /\ pollCount' = 0
    /\ Begin(completed + 1)

\* The data did not match; the same tick repeats the action.
TransferRetries ==
    /\ Transferring /\ started /\ hw = "done"
    /\ \/ actions[completed + 1] = "poll" /\ UNCHANGED pollCount
       \/ /\ actions[completed + 1] = "until" /\ pollCount + 1 < PollLimit
          /\ pollCount' = pollCount + 1
    /\ Begin(completed)

PauseTimeout ==
    /\ Ticking("pause") /\ Expired
    /\ Fail("timeout")
    /\ UNCHANGED <<setupFailed, pollCount>>

PauseEnds ==
    /\ Ticking("pause") /\ ~Expired /\ now >= pauseDue
    /\ completed' = completed + 1
    /\ Tick("transfer", TRUE)
    /\ UNCHANGED <<alarm, pending, backend, faulted, active, resetStarted,
                   setupFailed, started, pollCount, pauseDue, status, actions,
                   request, notification>>

PauseWaits ==
    /\ Ticking("pause") /\ ~Expired /\ now < pauseDue
    /\ Tick("pause", FALSE)
    /\ UNCHANGED <<alarm, pending, backend, faulted, active, resetStarted,
                   setupFailed, started, completed, pollCount, pauseDue, status,
                   actions, request, notification>>

\* The end of an operation, common to State::finish and State::reset.
Conclude(kind, final, usable) ==
    /\ alarm' = NoAlarms
    /\ faulted' = ~usable
    /\ notification' = [request |-> request, kind |-> kind, status |-> final,
                        completed |-> completed, actions |-> actions,
                        at |-> now, due |-> deadline]
    /\ active' = FALSE /\ request' = NoRequest
    /\ state' = IF usable THEN "idle" ELSE "faulted"
    /\ again' = FALSE /\ budget' = budget - 1
    /\ UNCHANGED <<now, pending, isr, caller, initialized, setupFailed, started,
                   pollCount, deadline, pauseDue, calling, delivered, issued>>

\* State::finish: the backend stops using the buffers even when its cleanup fails.
Finish ==
    /\ Ticking("finish")
    /\ hw' = "off"
    /\ \E cleaned \in BOOLEAN :
          LET final == IF status = "ok" /\ ~cleaned THEN "hardware" ELSE status
          IN  Conclude("transfer", final, cleaned) /\ status' = final
    /\ actions' = <<>>
    /\ UNCHANGED <<recovering, resetting, resetStarted, completed>>

\* State::reset with a backend whose reset() is one bounded call.
ResetNow ==
    /\ Ticking("reset") /\ ~AsyncReset
    /\ \E result \in {"ok", "hardware"} :
          LET final == IF Expired THEN "timeout" ELSE result
          IN  Conclude("reset", final, final = "ok")
    /\ resetting' = FALSE
    /\ UNCHANGED <<backend, resetStarted, completed, status, actions>>

\* Mutant: an abandoned reset keeps driving the pins.
AbortResetNot == UNCHANGED recovering

\* abort_reset() releases the pins.
AbortReset == recovering' = FALSE

\* State::reset with a backend that is polled: expired, and aborted.
ResetExpires ==
    /\ Ticking("reset") /\ AsyncReset /\ Expired
    /\ Conclude("reset", "timeout", FALSE)
    /\ resetStarted' = TRUE /\ AbortReset /\ resetting' = FALSE
    /\ UNCHANGED <<hw, completed, status, actions>>

\* poll_reset() has a result.
ResetEnds ==
    /\ Ticking("reset") /\ AsyncReset /\ ~Expired
    /\ \E result \in {"ok", "hardware"} : Conclude("reset", result, result = "ok")
    /\ resetStarted' = TRUE /\ recovering' = FALSE /\ resetting' = FALSE
    /\ UNCHANGED <<hw, completed, status, actions>>

\* poll_reset() has none, and the timer for the next poll is refused.
ResetTimerFails ==
    /\ Ticking("reset") /\ AsyncReset /\ ~Expired
    /\ Conclude("reset", "timer_error", FALSE)
    /\ resetStarted' = TRUE /\ AbortReset /\ resetting' = FALSE
    /\ UNCHANGED <<hw, completed, status, actions>>

\* poll_reset() has none: look again after PollTime.
ResetWaits ==
    /\ Ticking("reset") /\ AsyncReset /\ ~Expired /\ CanArm(PollTime)
    /\ resetStarted' = TRUE /\ recovering' = TRUE
    /\ alarm' = [alarm EXCEPT !["pause"] = now + PollTime]
    /\ Tick("reset", FALSE)
    /\ UNCHANGED <<pending, hw, faulted, active, setupFailed, started, completed,
                   pollCount, pauseDue, status, actions, request, notification>>

\* Mutant: work left over when the budget is used up waits for another interrupt.
MoreNever == FALSE

\* The operation has more to do than this interrupt was allowed to.
More == again /\ active

\* Mutant: the notification is copied and not cleared.
TakeNotificationTwice == calling' = notification /\ UNCHANGED notification

TakeNotification == calling' = notification /\ notification' = NoResult

\* The loop ends; the notification is copied out, the lock released, and the
\* interrupt pended again when the operation has more to do.
Leave ==
    /\ isr = "tick" /\ ~(active /\ again /\ budget > 0)
    /\ pending' = (pending \/ More)
    /\ TakeNotification
    /\ isr' = IF notification = NoResult THEN "idle" ELSE "notify"
    /\ budget' = 0 /\ again' = FALSE
    /\ UNCHANGED <<timing, backend, caller, initialized, faulted, state,
                   operation, delivered, issued>>

\* The application's callback, outside the lock: it may submit the next operation
\* (Lock, Start and Reset are enabled) before it returns.
Notify ==
    /\ isr = "notify"
    /\ delivered' = Append(delivered, calling)
    /\ calling' = NoResult
    /\ isr' = "idle"
    /\ UNCHANGED <<timing, pending, backend, caller, budget, again, initialized,
                   faulted, state, operation, notification, issued>>

-----------------------------------------------------------------------------
\* The environment.

\* The peripheral completes the action in progress, or reports an error.
Hardware ==
    /\ hw = "busy"
    /\ hw' \in {"done", "failed"}
    /\ pending' = TRUE
    /\ UNCHANGED <<timing, recovering, caller, loop, initialized, faulted, state,
                   operation, outbox, issued>>

\* The timer service selects a due alarm.  The call of interrupt() follows later,
\* when the operation it was armed for may be over and another one active.
Fire(a) ==
    /\ alarm[a] <= now
    /\ alarm' = [alarm EXCEPT ![a] = Never]
    /\ pending' = TRUE
    /\ UNCHANGED <<now, backend, caller, loop, initialized, faulted, state,
                   operation, outbox, issued>>

TimePasses ==
    /\ now < MaxTime
    /\ now' = now + 1
    /\ UNCHANGED <<alarm, pending, backend, caller, loop, initialized, faulted,
                   state, operation, outbox, issued>>

-----------------------------------------------------------------------------

Accept(c) ==
    \E delay \in Timeouts :
        \/ \E program \in Programs : Start(c, program, delay)
        \/ Reset(c, delay)

TickMachine ==
    \/ TickIdle
    \/ TransferSetupFailed \/ TransferTimeout \/ TransferFails \/ TransferWaits
    \/ TransferPollExhausted \/ TransferBegins \/ TransferAdvances
    \/ TransferRetries
    \/ PauseTimeout \/ PauseEnds \/ PauseWaits
    \/ Finish
    \/ ResetNow \/ ResetExpires \/ ResetEnds \/ ResetTimerFails \/ ResetWaits

Next ==
    \/ Initialize \/ Deinit
    \/ \E c \in Callers : Lock(c) \/ Refuse(c) \/ Accept(c) \/ Pend(c)
    \/ Enter \/ TickMachine \/ Leave \/ Notify
    \/ Hardware \/ (\E a \in Alarms : Fire(a)) \/ TimePasses

Spec == Init /\ [][Next]_vars

\* A pended interrupt runs once the lock is free, however often callers take it
\* (a caller's lock masks the interrupt, which stays pending); an interrupt or a
\* submission that has begun continues; due alarms are selected; time passes.
\* Nothing obliges the peripheral to answer.
Fairness ==
    /\ SF_vars(pending /\ Enter)
    /\ WF_vars(TickMachine \/ Leave \/ Notify)
    /\ \A c \in Callers : WF_vars(Refuse(c) \/ Accept(c) \/ Pend(c))
    /\ \A a \in Alarms : WF_vars(Fire(a))
    /\ WF_vars(TimePasses)

LiveSpec == Spec /\ Fairness

-----------------------------------------------------------------------------
\* Properties.

DeliveredRequests == {delivered[i].request : i \in DOMAIN delivered}

\* An accepted operation is in exactly one place: active, waiting in the
\* notification, in the hands of interrupt(), or answered; and none is answered
\* twice.  "Each accepted transfer completes exactly once" in spite of late
\* alarms, pends after the unlock, and callbacks that submit the next operation
\* (Start, reset and interrupt in controller.hpp).
CompletesOnce ==
    LET places == <<IF active THEN request ELSE NoRequest,
                    notification.request, calling.request>>
    IN  /\ \A i, j \in DOMAIN delivered :
             delivered[i].request = delivered[j].request => i = j
        /\ \A r \in 1 .. issued :
             IF r \in DeliveredRequests THEN \A p \in 1..3 : places[p] # r
             ELSE \E p \in 1..3 : \A q \in 1..3 : places[q] = r <=> q = p

\* The peripheral uses buffers, and the reset drives pins, only for the operation
\* that is active: nothing is still running when the application is called back
\* and owns its buffers again (State::finish and State::reset).
BuffersReleased ==
    /\ hw # "off" => active /\ ~resetting
    /\ recovering => active /\ resetting

\* Between interrupts an active operation waits for something that will call
\* interrupt(): a pend, a caller about to pend, or, with the deadline alarm armed
\* behind it, the busy peripheral or the pause alarm.  In particular the bounded
\* loop never strands work, and no alarm outlives its operation.
NeverStalls ==
    /\ isr # "tick" /\ active =>
          \/ pending \/ \E c \in Callers : caller[c] = "pend"
          \/ /\ alarm["deadline"] = deadline
             /\ \/ state = "transfer" /\ started /\ hw = "busy"
                \/ state \in {"pause", "reset"} /\ alarm["pause"] # Never
    /\ ~active => alarm = NoAlarms

\* Every result that reached the application or is on its way to it.
Answers == {notification, calling} \ {NoResult}

\* A result tells the truth: a timeout is never reported before the operation's
\* own deadline, whichever alarm or interrupt brought it about, and "ok" means
\* that every action of the list was completed ("cannot complete a new operation
\* early", controller.hpp interrupt()).
ResultsTrue ==
    \A r \in Answers :
        /\ r.status = "timeout" => r.at >= r.due
        /\ r.kind = "transfer" /\ r.status = "ok" =>
              r.completed = Len(r.actions)

\* A controller whose cleanup or reset failed runs no transfer until a reset
\* succeeds, and only a successful operation leaves it usable (Start and
\* faulted_).
FaultBlocksTransfers ==
    /\ active /\ ~resetting => ~faulted
    /\ state = "faulted" => faulted

\* Every operation is answered once, and truly.
AnsweredTruly == TypeOK /\ CompletesOnce /\ ResultsTrue

\* Neither the peripheral nor a fault outlasts the operation it belongs to.
Contained == BuffersReleased /\ FaultBlocksTransfers

\* An accepted operation has not been answered yet.
RequestsOwed == \E r \in 1 .. issued : r \notin DeliveredRequests

==============================================================================
