------------------------ MODULE BusControllerProofs ------------------------
(***************************************************************************)
(* Safety of the bus controller for every number of callers, every list of *)
(* actions, every timeout and budget, and both kinds of backend: an        *)
(* accepted operation is answered once and truly, nothing of it outlasts   *)
(* it, and it never waits for an interrupt that nobody will raise.         *)
(***************************************************************************)
EXTENDS BusController, TLAPS

\* The lock keeps submissions and the ticking interrupt apart, and nothing is
\* submitted to a controller that is not initialized.
LockKept ==
    /\ \A c \in Callers : caller[c] = "locked" =>
         /\ isr # "tick" /\ issued < MaxRequests
         /\ \A d \in Callers : caller[d] = "locked" => d = c
    /\ ~initialized => issued = 0 /\ \A c \in Callers : caller[c] = "idle"
    /\ issued = 0 => ~active /\ state = "idle"

\* Which states of the machine each kind of operation goes through.
MachinePhase ==
    /\ ~active => state \in {"idle", "faulted"}
    /\ active /\ resetting => state \in {"idle", "faulted", "reset"}
    /\ active /\ ~resetting => state \in {"idle", "transfer", "pause", "finish"}
    /\ ~AsyncReset => ~recovering

\* Where a transfer is in its list of actions.
Position ==
    active /\ ~resetting =>
        /\ started \/ state = "pause" => completed < Len(actions)
        /\ state = "pause" => ~started
        /\ state # "finish" => pollCount < PollLimit

\* What will call interrupt() for an active operation.
Awaited ==
    \/ pending
    \/ \E c \in Callers : caller[c] = "pend"
    \/ /\ alarm["deadline"] = deadline
       /\ \/ state = "transfer" /\ started /\ hw = "busy"
          \/ state \in {"pause", "reset"} /\ alarm["pause"] # Never

Waiting ==
    /\ active /\ ~(isr = "tick" /\ again) => Awaited
    /\ active => alarm["deadline"] = deadline \/ deadline <= now
    /\ active /\ state = "pause" => alarm["pause"] = pauseDue \/ pauseDue <= now
    /\ ~active => alarm = NoAlarms

\* What the status of a transfer that has not been answered is worth.
StatusHonest ==
    active /\ ~resetting =>
        /\ state = "finish" =>
             /\ status = "timeout" => now >= deadline
             /\ status = "ok" => completed = Len(actions)
        /\ state # "finish" => status = IF setupFailed THEN "hardware" ELSE "ok"

\* Where results are.
Outbox ==
    /\ active <=> request # NoRequest
    /\ notification # NoResult => isr = "tick" /\ ~active
    /\ calling # NoResult <=> isr = "notify"

\* Every accepted operation is in exactly one place.
Placed(r) ==
    \/ /\ r = request /\ r # notification.request /\ r # calling.request
       /\ r \notin DeliveredRequests
    \/ /\ r # request /\ r = notification.request /\ r # calling.request
       /\ r \notin DeliveredRequests
    \/ /\ r # request /\ r # notification.request /\ r = calling.request
       /\ r \notin DeliveredRequests
    \/ /\ r # request /\ r # notification.request /\ r # calling.request
       /\ r \in DeliveredRequests

\* No operation is answered twice.
Distinct == \A i, j \in DOMAIN delivered :
              delivered[i].request = delivered[j].request => i = j

Placement ==
    /\ {request, notification.request, calling.request} \subseteq 0 .. issued
    /\ DeliveredRequests \subseteq 1 .. issued
    /\ \A r \in 1 .. issued : Placed(r)
    /\ Distinct

\* The inductive invariant.  The properties speak of the operation's answer; the
\* lock, the phase of the machine, the place in the list and what the operation
\* waits for are what makes them inductive.
IInv == /\ TypeOK /\ LockKept /\ MachinePhase /\ Position /\ Contained /\ Waiting
        /\ StatusHonest /\ ResultsTrue /\ Outbox /\ Placement

\* The parts of ControllerAssumption as separate facts.
LEMMA Sizes ==
    /\ MaxTime \in Nat /\ MaxRequests \in Nat /\ AsyncReset \in BOOLEAN
    /\ Timeouts \subseteq Nat
    /\ PauseTime \in Nat /\ PollTime \in Nat
    /\ PollLimit \in Nat /\ PollLimit > 0 /\ Budget \in Nat
    /\ \A a \in Programs \union {<<>>} : a \in Seq(Kinds) /\ Len(a) \in Nat
  <1>1. <<>> \in Seq(Kinds) /\ Programs \subseteq Seq(Kinds)
    BY ControllerAssumption
  <1>2. \A a \in Seq(Kinds) : Len(a) \in Nat
    OBVIOUS
  <1>3. PollLimit \in Nat \ {0} /\ PauseTime \in Nat \ {0} /\ PollTime \in Nat \ {0}
        /\ Budget \in Nat \ {0}
    BY ControllerAssumption, Zenon
  <1>4. MaxTime \in Nat /\ MaxRequests \in Nat /\ AsyncReset \in BOOLEAN
        /\ Timeouts \subseteq Nat
    BY ControllerAssumption, Zenon
  <1>5. \A a \in Programs \union {<<>>} : a \in Seq(Kinds) /\ Len(a) \in Nat
    BY <1>1, <1>2, Zenon
  <1>6. PollLimit > 0
    BY <1>3
  <1> QED
    BY <1>3, <1>4, <1>5, <1>6, Zenon

\* The ticks by what becomes of the operation: it goes on, begins an action,
\* is about to end early, or ends.
StepTick  == TickIdle \/ TransferWaits \/ PauseEnds \/ PauseWaits \/ ResetWaits
BeginTick == TransferBegins \/ TransferAdvances \/ TransferRetries
FailTick  == TransferSetupFailed \/ TransferTimeout \/ TransferFails
             \/ TransferPollExhausted \/ PauseTimeout
EndTick   == Finish \/ ResetNow \/ ResetExpires \/ ResetEnds \/ ResetTimerFails

\* What the part of State::transfer that begins action n + 1 may come to: the
\* list is complete, a check matched, the action failed, a pause was armed, or
\* the peripheral is busy.
BeginOutcome(n) ==
    \/ /\ n = Len(actions)
       /\ state' = "finish" /\ again' = TRUE /\ started' = FALSE
       /\ completed' = n /\ UNCHANGED <<alarm, hw, pauseDue, status>>
    \/ /\ n < Len(actions)
       /\ state' = "transfer" /\ again' = TRUE /\ started' = FALSE
       /\ completed' = n + 1 /\ UNCHANGED <<alarm, hw, pauseDue, status>>
    \/ /\ n < Len(actions)
       /\ state' = "finish" /\ again' = TRUE /\ started' \in BOOLEAN
       /\ completed' = n /\ status' \in {"mismatch", "timer_error", "hardware"}
       /\ UNCHANGED <<alarm, hw, pauseDue>>
    \/ /\ n < Len(actions) /\ CanArm(PauseTime)
       /\ state' = "pause" /\ again' = FALSE /\ started' = FALSE
       /\ completed' = n /\ pauseDue' = now + PauseTime
       /\ alarm' = [alarm EXCEPT !["pause"] = now + PauseTime]
       /\ UNCHANGED <<hw, status>>
    \/ /\ n < Len(actions)
       /\ state' = "transfer" /\ again' = FALSE /\ started' = TRUE
       /\ completed' = n /\ hw' = "busy" /\ UNCHANGED <<alarm, pauseDue, status>>

\* Begin(n) has one of those outcomes and changes nothing else.
LEMMA BeginOutcomes ==
    ASSUME NEW n, Begin(n)
    PROVE  /\ BeginOutcome(n)
           /\ budget' = budget - 1
           /\ UNCHANGED <<now, pending, recovering, caller, isr, initialized,
                          faulted, active, resetting, resetStarted, setupFailed,
                          deadline, actions, request, notification, calling,
                          delivered, issued>>
  <1>1. budget' = budget - 1 /\ UNCHANGED <<now, isr, caller, initialized,
          resetting, deadline, calling, delivered, issued>>
    BY Zenon DEF Begin, Tick
  <1>2. UNCHANGED <<pending, recovering, faulted, active, resetStarted,
          setupFailed, actions, request, notification>>
    BY Zenon DEF Begin
  <1>3. BeginOutcome(n)
    BY Zenon DEF Begin, BeginOutcome, Tick
  <1> QED
    BY <1>1, <1>2, <1>3, Zenon

\* The three ways into Begin(): no action in progress, the action complete, the
\* action repeated.  The number of attempts stays below its limit.
LEMMA BeginStep ==
    ASSUME TypeOK, Position, MachinePhase,
           BeginTick
    PROVE  /\ Transferring /\ active /\ ~resetting /\ state = "transfer"
           /\ \E n \in Nat : n <= Len(actions) /\ Begin(n)
           /\ pollCount' \in Nat /\ pollCount' < PollLimit
  <1> USE Sizes DEF TypeOK, ControlOK, ProgressOK
  <1>1. Transferring /\ active /\ ~resetting /\ state = "transfer"
    BY Zenon DEF BeginTick, TransferBegins, TransferAdvances, TransferRetries,
       Transferring, Ticking, MachinePhase
  <1>2. pollCount \in Nat /\ pollCount < PollLimit /\ completed \in Nat
        /\ completed <= Len(actions) /\ Len(actions) \in Nat
        /\ (started => completed < Len(actions))
    BY <1>1 DEF Position
  <1>3. \E n \in Nat : n <= Len(actions) /\ Begin(n)
    <2>1. Begin(completed) \/ (started /\ Begin(completed + 1))
      BY Zenon DEF BeginTick, TransferBegins, TransferAdvances, TransferRetries
    <2>2. completed + 1 \in Nat /\ (started => completed + 1 <= Len(actions))
      BY <1>2
    <2> QED
      BY <1>2, <2>1, <2>2, Zenon
  <1>4. pollCount' \in Nat /\ pollCount' < PollLimit
    BY <1>2 DEF BeginTick, TransferBegins, TransferAdvances, TransferRetries
  <1> QED
    BY <1>1, <1>3, <1>4, Zenon

\* Until it ends, an operation keeps its identity, its deadline and its actions,
\* and nothing is answered.
LEMMA OngoingFrame ==
    ASSUME StepTick \/ BeginTick \/ FailTick
    PROVE  /\ isr = "tick" /\ active /\ again /\ budget > 0 /\ budget' = budget - 1
           /\ UNCHANGED <<now, caller, isr, initialized, faulted, active,
                          resetting, deadline, actions, request, notification,
                          calling, delivered, issued>>
  <1>1. CASE StepTick
    BY <1>1, Zenon DEF StepTick, TickIdle, TransferWaits, PauseEnds, PauseWaits,
       ResetWaits, Ticking, Transferring, Tick
  <1>2. CASE BeginTick
    <2>1. isr = "tick" /\ active /\ again /\ budget > 0
      BY <1>2, Zenon DEF BeginTick, TransferBegins, TransferAdvances,
         TransferRetries, Transferring, Ticking
    <2>2. \E n : Begin(n)
      BY <1>2, Zenon DEF BeginTick, TransferBegins, TransferAdvances,
         TransferRetries
    <2> QED
      BY <2>1, <2>2, BeginOutcomes, Zenon
  <1>3. CASE FailTick
    BY <1>3, Zenon DEF FailTick, TransferSetupFailed, TransferTimeout,
       TransferFails, TransferPollExhausted, PauseTimeout, Ticking, Transferring,
       Fail, Tick
  <1> QED
    BY <1>1, <1>2, <1>3, Zenon

\* A transfer that fails does so with a reason that is true, and nothing of it
\* is changed but the reason.
LEMMA FailOutcome ==
    ASSUME TypeOK, MachinePhase, Position, FailTick
    PROVE  /\ active /\ ~resetting /\ state # "finish" /\ state' = "finish"
           /\ again' = TRUE /\ budget' = budget - 1
           /\ UNCHANGED <<alarm, pending, hw, recovering, resetStarted, started,
                          completed, pauseDue>>
           /\ \/ setupFailed /\ status' = status
              \/ now >= deadline /\ status' = "timeout"
              \/ status' \in {"hardware", "mismatch"}
           /\ setupFailed' \in BOOLEAN /\ pollCount' \in 0 .. PollLimit
  <1>1. /\ active /\ (state = "transfer" \/ state = "pause") /\ state' = "finish"
        /\ again' = TRUE /\ budget' = budget - 1
        /\ UNCHANGED <<alarm, pending, hw, recovering, resetStarted, started,
                       completed, pauseDue>>
    BY Zenon DEF FailTick, TransferSetupFailed, TransferTimeout, TransferFails,
       TransferPollExhausted, PauseTimeout, Transferring, Ticking, Fail, Tick,
       backend
  <1>2. ~resetting /\ state # "finish"
    BY <1>1, Zenon DEF MachinePhase
  <1>3. \/ setupFailed /\ status' = status
        \/ now >= deadline /\ status' = "timeout"
        \/ status' \in {"hardware", "mismatch"}
    BY Zenon DEF FailTick, TransferSetupFailed, TransferTimeout, TransferFails,
       TransferPollExhausted, PauseTimeout, Fail, Expired
  <1>4. setupFailed' \in BOOLEAN
    BY Zenon DEF FailTick, TransferSetupFailed, TransferTimeout, TransferFails,
       TransferPollExhausted, PauseTimeout, TypeOK, ControlOK, ProgressOK
  <1>5. pollCount' = pollCount \/ pollCount' = pollCount + 1
    BY Zenon DEF FailTick, TransferSetupFailed, TransferTimeout, TransferFails,
       TransferPollExhausted, PauseTimeout
  <1>6. pollCount \in Nat /\ pollCount < PollLimit
    BY <1>1, <1>2, Sizes DEF Position, TypeOK, ControlOK, ProgressOK
  <1> QED
    BY <1>1, <1>2, <1>3, <1>4, <1>5, <1>6, Sizes

\* An operation ends with one result, which is true, and with the peripheral and
\* the pins released.
LEMMA EndOutcome ==
    ASSUME TypeOK, MachinePhase, Contained, StatusHonest, EndTick
    PROVE  /\ isr = "tick" /\ active /\ again
           /\ \E kind \in {"transfer", "reset"}, final \in Statuses,
                 usable \in BOOLEAN :
                /\ Conclude(kind, final, usable)
                /\ final = "timeout" => now >= deadline
                /\ kind = "transfer" /\ final = "ok" => completed = Len(actions)
           /\ hw' = "off" /\ recovering' = FALSE /\ completed' = completed
           /\ resetting' \in BOOLEAN /\ resetStarted' \in BOOLEAN
           /\ status' \in Statuses /\ actions' \in {actions, <<>>}
  <1>0. /\ recovering \in BOOLEAN /\ resetting \in BOOLEAN
        /\ resetStarted \in BOOLEAN /\ status \in Statuses
    BY Zenon DEF TypeOK, ControlOK, ProgressOK
  <1>1. CASE Finish
    <2>1. isr = "tick" /\ active /\ again /\ state = "finish"
      BY <1>1, Zenon DEF Finish, Ticking
    <2>2. ~resetting /\ ~recovering
      BY <2>1, Zenon DEF MachinePhase, Contained, BuffersReleased
    <2>3. PICK cleaned \in BOOLEAN :
            LET final == IF status = "ok" /\ ~cleaned THEN "hardware" ELSE status
            IN  Conclude("transfer", final, cleaned) /\ status' = final
      BY <1>1, Zenon DEF Finish
    <2> DEFINE final == IF status = "ok" /\ ~cleaned THEN "hardware" ELSE status
    <2>4. final \in Statuses /\ (final = "timeout" => now >= deadline)
          /\ (final = "ok" => completed = Len(actions))
      BY <1>0, <2>1, <2>2, Zenon DEF StatusHonest, Statuses
    <2>5. UNCHANGED <<recovering, resetting, resetStarted, completed>>
          /\ hw' = "off" /\ actions' = <<>>
      BY <1>1, Zenon DEF Finish
    <2> HIDE DEF final
    <2>6. Conclude("transfer", final, cleaned) /\ status' = final
      BY <2>3, Zenon DEF final
    <2>7. \E kind \in {"transfer", "reset"}, f \in Statuses, usable \in BOOLEAN :
                /\ Conclude(kind, f, usable)
                /\ f = "timeout" => now >= deadline
                /\ kind = "transfer" /\ f = "ok" => completed = Len(actions)
      BY <2>4, <2>6, Zenon
    <2>8. recovering' = FALSE
      BY <1>0, <2>2, <2>5, Zenon
    <2> QED
      BY <1>0, <2>1, <2>4, <2>5, <2>6, <2>7, <2>8, Zenon
  <1>2. ASSUME ResetNow \/ ResetExpires \/ ResetEnds \/ ResetTimerFails
        PROVE  /\ isr = "tick" /\ active /\ again /\ state = "reset"
               /\ \E final \in Statuses, usable \in BOOLEAN :
                    /\ Conclude("reset", final, usable)
                    /\ final = "timeout" => now >= deadline
    <2>1. isr = "tick" /\ active /\ again /\ state = "reset"
      BY <1>2, Zenon DEF ResetNow, ResetExpires, ResetEnds, ResetTimerFails, Ticking
    <2>2. CASE ResetNow
      <3>1. PICK result \in {"ok", "hardware"} :
              LET final == IF Expired THEN "timeout" ELSE result
              IN  Conclude("reset", final, final = "ok")
        BY <2>2, Zenon DEF ResetNow
      <3> DEFINE final == IF Expired THEN "timeout" ELSE result
      <3>2. final \in Statuses /\ (final = "timeout" => now >= deadline)
        BY Zenon DEF Statuses, Expired
      <3> HIDE DEF final
      <3>3. Conclude("reset", final, final = "ok") /\ (final = "ok") \in BOOLEAN
        BY <3>1, Zenon DEF final
      <3> QED
        BY <2>1, <3>2, <3>3, Zenon
    <2>3. CASE ResetExpires \/ ResetEnds \/ ResetTimerFails
      <3>1. \/ Conclude("reset", "timeout", FALSE) /\ now >= deadline
            \/ \E r \in {"ok", "hardware"} : Conclude("reset", r, r = "ok")
            \/ Conclude("reset", "timer_error", FALSE)
        BY <2>3, Zenon DEF ResetExpires, ResetEnds, ResetTimerFails, Expired
      <3>2. CASE \E r \in {"ok", "hardware"} : Conclude("reset", r, r = "ok")
        <4>1. PICK r \in {"ok", "hardware"} : Conclude("reset", r, r = "ok")
          BY <3>2, Zenon
        <4>2. r \in Statuses /\ r # "timeout" /\ (r = "ok") \in BOOLEAN
          BY Zenon DEF Statuses
        <4> QED
          BY <2>1, <4>1, <4>2, Zenon
      <3>3. "timeout" \in Statuses /\ "timer_error" \in Statuses
            /\ "timer_error" # "timeout" /\ FALSE \in BOOLEAN
        BY Zenon DEF Statuses
      <3> QED
        BY <2>1, <3>1, <3>2, <3>3, Zenon
    <2> QED
      BY <1>2, <2>2, <2>3, Zenon
  <1>3. CASE ResetNow \/ ResetExpires \/ ResetEnds \/ ResetTimerFails
    <2>1. resetting /\ hw = "off"
      BY <1>2, <1>3, Zenon DEF MachinePhase, Contained, BuffersReleased
    <2>2. hw' = hw /\ UNCHANGED <<completed, status, actions>>
      BY <1>3, Zenon DEF ResetNow, ResetExpires, ResetEnds, ResetTimerFails, backend
    <2>3. /\ resetting' = FALSE
          /\ \/ recovering' = FALSE /\ resetStarted' = TRUE
             \/ ~AsyncReset /\ recovering' = recovering /\ resetStarted' = resetStarted
      BY <1>3, Zenon DEF ResetNow, ResetExpires, ResetEnds, ResetTimerFails, backend,
         AbortReset
    <2>4. recovering' = FALSE /\ resetStarted' \in BOOLEAN /\ resetting' \in BOOLEAN
      BY <1>0, <2>3, Zenon DEF MachinePhase
    <2>5. \E kind \in {"transfer", "reset"}, final \in Statuses,
             usable \in BOOLEAN :
                /\ Conclude(kind, final, usable)
                /\ final = "timeout" => now >= deadline
                /\ kind = "transfer" /\ final = "ok" => completed = Len(actions)
      <3>1. "reset" # "transfer"
        BY Zenon
      <3> QED
        BY <1>2, <1>3, <3>1, Zenon
    <2>6. actions' \in {actions, <<>>} /\ status' \in Statuses
      BY <1>0, <2>2, Zenon
    <2>7. isr = "tick" /\ active /\ again
      BY <1>2, <1>3, Zenon
    <2> QED
      BY <2>1, <2>2, <2>4, <2>5, <2>6, <2>7, Zenon
  <1> QED
    BY <1>1, <1>3, Zenon DEF EndTick

\* The ticks are of those four sorts.
LEMMA TickSorts == TickMachine => StepTick \/ BeginTick \/ FailTick \/ EndTick
  BY Zenon DEF TickMachine, StepTick, BeginTick, FailTick, EndTick

\* What leaves the operation and its answer alone: initialization, the lock, the
\* entry of the interrupt, the peripheral, the alarms and the clock.
Quiet ==
    \/ Initialize \/ Deinit
    \/ \E c \in Callers : Lock(c) \/ Refuse(c) \/ Pend(c)
    \/ Enter \/ Hardware \/ (\E a \in Alarms : Fire(a)) \/ TimePasses
    \/ UNCHANGED vars

\* The variables such a step does not touch, and the clock it does not turn back.
LEMMA QuietFrame ==
    ASSUME TypeOK, Quiet
    PROVE  /\ UNCHANGED <<recovering, state, active, resetting, resetStarted,
                          setupFailed, started, completed, pollCount, deadline,
                          pauseDue, status, actions, request, notification,
                          calling, delivered, issued>>
           /\ now' \in Nat /\ now \in Nat /\ now <= now'
  <1>1. UNCHANGED <<recovering, state, active, resetting, resetStarted,
                    setupFailed, started, completed, pollCount, deadline,
                    pauseDue, status, actions, request, notification, calling,
                    delivered, issued>>
    BY Zenon DEF Quiet, Initialize, Deinit, Lock, Refuse, Pend, Enter, Hardware,
       Fire, TimePasses, vars, backend, operation, outbox
  <1>2. now' = now \/ now' = now + 1
    BY Zenon DEF Quiet, Initialize, Deinit, Lock, Refuse, Pend, Enter, Hardware,
       Fire, TimePasses, vars, timing
  <1>3. now \in Nat
    BY Sizes DEF TypeOK, TimingOK
  <1> QED
    BY <1>1, <1>2, <1>3

\* The clock, the alarms and the two deadlines stay in range: CanArm() is asked
\* before any of them is set.
LEMMA TimingStep ==
    ASSUME TypeOK, MachinePhase, Position, Contained, StatusHonest, [Next]_vars
    PROVE  TimingOK'
  <1> USE Sizes DEF TypeOK, TimingOK, Alarms, Never, NoAlarms
  <1>1. CASE Initialize \/ Deinit
    BY <1>1, Zenon DEF Initialize, Deinit, timing, backend, loop, operation, outbox
  <1>2. ASSUME NEW c \in Callers, Lock(c) \/ Refuse(c) \/ Pend(c)
        PROVE  TimingOK'
    BY <1>2, Zenon DEF Lock, Refuse, Pend, timing, backend, loop, operation, outbox
  <1>3. ASSUME NEW c \in Callers, Accept(c)
        PROVE  TimingOK'
    BY <1>3 DEF Accept, Start, Reset, ArmDeadline, CanArm, Rewind
  <1>4. CASE Enter
    BY <1>4, Zenon DEF Enter, timing, backend, loop, operation, outbox
  <1>5. CASE StepTick
    BY <1>5 DEF StepTick, TickIdle, TransferWaits, PauseEnds, PauseWaits,
       ResetWaits, Tick, CanArm
  <1>6. CASE BeginTick
    <2>1. PICK n \in Nat : Begin(n)
      BY <1>6, BeginStep, Zenon
    <2>2. UNCHANGED <<now, deadline>> /\ BeginOutcome(n)
      BY <2>1, BeginOutcomes, Zenon
    <2>3. \/ UNCHANGED <<alarm, pauseDue>>
          \/ /\ CanArm(PauseTime) /\ pauseDue' = now + PauseTime
             /\ alarm' = [alarm EXCEPT !["pause"] = now + PauseTime]
      BY <2>2, Zenon DEF BeginOutcome
    <2> QED
      BY <2>2, <2>3 DEF CanArm
  <1>7. CASE FailTick
    BY <1>7, OngoingFrame, FailOutcome, Zenon
  <1>8. CASE EndTick
    <2>1. UNCHANGED <<now, deadline, pauseDue>> /\ alarm' = NoAlarms
      BY <1>8, EndOutcome, Zenon DEF Conclude
    <2> QED
      BY <2>1
  <1>9. CASE Leave
    BY <1>9, Zenon
       DEF Leave, TakeNotification, More, timing, backend, loop, operation, outbox
  <1>10. CASE Notify
    BY <1>10, Zenon DEF Notify, timing, backend, loop, operation, outbox
  <1>11. CASE Hardware
    BY <1>11, Zenon DEF Hardware, timing, backend, loop, operation, outbox
  <1>12. ASSUME NEW a \in Alarms, Fire(a)
        PROVE  TimingOK'
    BY <1>12 DEF Fire, timing, backend, loop, operation, outbox
  <1>13. CASE TimePasses
    BY <1>13 DEF TimePasses, timing, backend, loop, operation, outbox
  <1>14. CASE UNCHANGED vars
    BY <1>14, Zenon DEF vars, timing, backend, loop, operation, outbox
  <1> QED
    BY <1>1, <1>2, <1>3, <1>4, <1>5, <1>6, <1>7, <1>8,
       <1>9, <1>10, <1>11, <1>12, <1>13, <1>14, TickSorts, Zenon
    DEF Next

\* Callers, the interrupt and the machine are always at one of their control
\* points.
LEMMA ControlStep ==
    ASSUME TypeOK, MachinePhase, Position, Contained, StatusHonest, [Next]_vars
    PROVE  ControlOK'
  <1> USE DEF TypeOK, ControlOK
  <1>1. CASE Initialize \/ Deinit
    <2>1. initialized' \in BOOLEAN /\ faulted' \in BOOLEAN
      BY <1>1, Zenon DEF Initialize, Deinit
    <2> QED
      BY <1>1, <2>1 DEF Initialize, Deinit, timing, backend, loop, operation, outbox
  <1>2. ASSUME NEW c \in Callers, Lock(c) \/ Refuse(c) \/ Pend(c)
        PROVE  ControlOK'
    <2>1. CASE Lock(c)
      BY <2>1 DEF Lock, timing, backend, loop, operation, outbox
    <2>2. CASE Refuse(c)
      BY <2>2 DEF Refuse, timing, backend, loop, operation, outbox
    <2>3. CASE Pend(c)
      BY <2>3 DEF Pend, timing, backend, loop, operation, outbox
    <2> QED
      BY <1>2, <2>1, <2>2, <2>3, Zenon
  <1>3. ASSUME NEW c \in Callers, Accept(c)
        PROVE  ControlOK'
    <2>1. PICK delay \in Timeouts :
            \/ \E program \in Programs : Start(c, program, delay)
            \/ Reset(c, delay)
      BY <1>3, Zenon DEF Accept
    <2>2. CASE \E program \in Programs : Start(c, program, delay)
      <3>1. resetting' \in BOOLEAN /\ started' \in BOOLEAN /\ setupFailed' \in BOOLEAN
        BY <2>2, Zenon DEF Start
      <3> QED
        BY <2>2, <3>1 DEF Start, Statuses, loop, outbox
    <2>3. CASE Reset(c, delay)
      <3>1. resetStarted' \in BOOLEAN
        BY <2>3, Zenon DEF Reset
      <3> QED
        BY <2>3, <3>1 DEF Reset, backend, loop, outbox
    <2> QED
      BY <2>1, <2>2, <2>3, Zenon
  <1>4. CASE Enter
    <2>1. pending' \in BOOLEAN
      BY <1>4, Zenon DEF Enter
    <2> QED
      BY <1>4, <2>1 DEF Enter, timing, backend, operation, outbox
  <1>5. CASE StepTick
    <2>1. again' \in BOOLEAN /\ resetStarted' \in BOOLEAN /\ recovering' \in BOOLEAN
      BY <1>5, Zenon DEF StepTick, TickIdle, TransferWaits, PauseEnds, PauseWaits,
         ResetWaits, Tick, backend
    <2>2. state' \in {"reset", "transfer", "pause"}
      BY <1>5, Zenon DEF StepTick, TickIdle, TransferWaits, PauseEnds, PauseWaits,
         ResetWaits, Tick
    <2>3. UNCHANGED <<pending, hw, setupFailed, started, status>>
      BY <1>5, Zenon DEF StepTick, TickIdle, TransferWaits, PauseEnds, PauseWaits,
         ResetWaits, backend
    <2> QED
      BY <1>5, <2>1, <2>2, <2>3, OngoingFrame
  <1>6. CASE BeginTick
    <2>1. PICK n \in Nat : Begin(n)
      BY <1>6, BeginStep, Zenon
    <2>2. BeginOutcome(n) /\ UNCHANGED <<pending, recovering, caller, isr,
            initialized, faulted, active, resetting, resetStarted, setupFailed>>
      BY <2>1, BeginOutcomes, Zenon
    <2>3. again' \in BOOLEAN /\ started' \in BOOLEAN
      BY <2>2, Zenon DEF BeginOutcome
    <2>4. state' \in {"finish", "transfer", "pause"} /\ hw' \in {hw, "busy"}
          /\ status' \in {status, "mismatch", "timer_error", "hardware"}
      BY <2>2, Zenon DEF BeginOutcome
    <2> QED
      BY <2>2, <2>3, <2>4 DEF Statuses
  <1>7. CASE FailTick
    <2>1. again' \in BOOLEAN /\ setupFailed' \in BOOLEAN /\ state' = "finish"
          /\ UNCHANGED <<pending, hw, recovering, resetStarted, started>>
          /\ status' \in {status, "timeout", "hardware", "mismatch"}
      BY <1>7, FailOutcome, Zenon
    <2> QED
      BY <1>7, <2>1, OngoingFrame DEF Statuses
  <1>8. CASE EndTick
    <2>1. PICK kind \in {"transfer", "reset"}, final \in Statuses,
               usable \in BOOLEAN : Conclude(kind, final, usable)
      BY <1>8, EndOutcome, Zenon
    <2>2. active' \in BOOLEAN /\ again' \in BOOLEAN /\ faulted' \in BOOLEAN
          /\ recovering' \in BOOLEAN
      BY <1>8, <2>1, EndOutcome, Zenon DEF Conclude
    <2>3. UNCHANGED <<pending, isr, caller, initialized, setupFailed, started>>
          /\ state' \in {"idle", "faulted"}
      BY <2>1, Zenon DEF Conclude
    <2>4. hw' = "off" /\ resetting' \in BOOLEAN /\ resetStarted' \in BOOLEAN
          /\ status' \in Statuses
      BY <1>8, EndOutcome, Zenon
    <2> QED
      BY <2>2, <2>3, <2>4, Zenon
  <1>9. CASE Leave
    <2>1. pending' \in BOOLEAN /\ again' \in BOOLEAN
      BY <1>9, Zenon DEF Leave
    <2> QED
      BY <1>9, <2>1 DEF Leave, timing, backend, operation
  <1>10. CASE Notify
    BY <1>10 DEF Notify, timing, backend, loop, operation, outbox
  <1>11. CASE Hardware
    BY <1>11 DEF Hardware, timing, backend, loop, operation, outbox
  <1>12. ASSUME NEW a \in Alarms, Fire(a)
        PROVE  ControlOK'
    BY <1>12 DEF Fire, timing, backend, loop, operation, outbox
  <1>13. CASE TimePasses
    BY <1>13 DEF TimePasses, timing, backend, loop, operation, outbox
  <1>14. CASE UNCHANGED vars
    BY <1>14 DEF vars, timing, backend, loop, operation, outbox
  <1> QED
    BY <1>1, <1>2, <1>3, <1>4, <1>5, <1>6, <1>7, <1>8,
       <1>9, <1>10, <1>11, <1>12, <1>13, <1>14, TickSorts, Zenon
    DEF Next

\* The budget of an interrupt is never overdrawn, and a transfer never runs past
\* the end of its list or the limit of its attempts.
LEMMA ProgressStep ==
    ASSUME TypeOK, MachinePhase, Position, Contained, StatusHonest, [Next]_vars
    PROVE  ProgressOK'
  <1> USE Sizes DEF TypeOK, ProgressOK
  <1>1. CASE Initialize \/ Deinit
    BY <1>1 DEF Initialize, Deinit, timing, backend, loop, operation, outbox
  <1>2. ASSUME NEW c \in Callers, Lock(c) \/ Refuse(c) \/ Pend(c)
        PROVE  ProgressOK'
    BY <1>2 DEF Lock, Refuse, Pend, timing, backend, loop, operation, outbox
  <1>3. ASSUME NEW c \in Callers, Accept(c)
        PROVE  ProgressOK'
    BY <1>3 DEF Accept, Start, Reset, Rewind, loop
  <1>4. CASE Enter
    BY <1>4 DEF Enter, timing, backend, loop, operation, outbox
  <1>5. CASE StepTick
    <2>1. CASE TickIdle \/ TransferWaits \/ PauseWaits \/ ResetWaits
      <3>1. UNCHANGED <<completed, pollCount>>
        BY <2>1, Zenon DEF TickIdle, TransferWaits, PauseWaits, ResetWaits
      <3> QED
        BY <1>5, <3>1, OngoingFrame
    <2>2. CASE PauseEnds
      <3>1. completed' = completed + 1 /\ pollCount' = pollCount /\ state = "pause"
        BY <2>2, Zenon DEF PauseEnds, Ticking
      <3> QED
        BY <1>5, <3>1, OngoingFrame DEF Position
    <2> QED
      BY <1>5, <2>1, <2>2, Zenon DEF StepTick
  <1>6. CASE BeginTick
    <2>1. PICK n \in Nat : n <= Len(actions) /\ Begin(n)
      BY <1>6, BeginStep, Zenon
    <2>2. BeginOutcome(n)
      BY <2>1, BeginOutcomes, Zenon
    <2>3. completed' = n \/ (completed' = n + 1 /\ n < Len(actions))
      BY <2>2, Zenon DEF BeginOutcome
    <2> QED
      BY <1>6, <2>1, <2>3, BeginStep, OngoingFrame
  <1>7. CASE FailTick
    <2>1. budget' = budget - 1 /\ completed' = completed
          /\ pollCount' \in 0 .. PollLimit
      BY <1>7, FailOutcome, Zenon
    <2> QED
      BY <1>7, <2>1, OngoingFrame
  <1>8. CASE EndTick
    <2>1. budget > 0 /\ pollCount' = pollCount /\ budget' = budget - 1
      BY <1>8, Zenon DEF EndTick, Finish, ResetNow, ResetExpires, ResetEnds,
         ResetTimerFails, Ticking, Conclude
    <2>2. ~active'
      BY <1>8, EndOutcome, Zenon DEF Conclude
    <2>3. completed' = completed /\ actions' \in {actions, <<>>}
      BY <1>8, EndOutcome, Zenon
    <2> QED
      BY <2>1, <2>2, <2>3
  <1>9. CASE Leave
    BY <1>9 DEF Leave, TakeNotification, More, timing, backend, loop, operation, outbox
  <1>10. CASE Notify
    BY <1>10, Zenon DEF Notify, timing, backend, loop, operation, outbox
  <1>11. CASE Hardware
    BY <1>11, Zenon DEF Hardware, timing, backend, loop, operation, outbox
  <1>12. ASSUME NEW a \in Alarms, Fire(a)
        PROVE  ProgressOK'
    BY <1>12, Zenon DEF Fire, timing, backend, loop, operation, outbox
  <1>13. CASE TimePasses
    BY <1>13, Zenon DEF TimePasses, timing, backend, loop, operation, outbox
  <1>14. CASE UNCHANGED vars
    BY <1>14, Zenon DEF vars, timing, backend, loop, operation, outbox
  <1> QED
    BY <1>1, <1>2, <1>3, <1>4, <1>5, <1>6, <1>7, <1>8,
       <1>9, <1>10, <1>11, <1>12, <1>13, <1>14, TickSorts, Zenon
    DEF Next

\* Operations are numbered within their bound, and every result on its way or
\* delivered is a complete record.
LEMMA OutboxStep ==
    ASSUME TypeOK, MachinePhase, Position, Contained, StatusHonest, Outbox,
           LockKept, [Next]_vars
    PROVE  OutboxOK'
  <1> USE DEF TypeOK, OutboxOK
  <1>1. CASE Quiet
    BY <1>1, QuietFrame, Zenon
  <1>2. ASSUME NEW c \in Callers, Accept(c)
        PROVE  OutboxOK'
    <2>1. issued' = issued + 1 /\ request' = issued + 1 /\ caller[c] = "locked"
          /\ UNCHANGED <<notification, calling, delivered>>
      BY <1>2, Zenon DEF Accept, Start, Reset, outbox
    <2> QED
      BY <2>1, Sizes DEF LockKept, Requests
  <1>3. CASE StepTick
    BY <1>3, OngoingFrame, Zenon
  <1>4. CASE BeginTick
    BY <1>4, OngoingFrame, Zenon
  <1>5. CASE FailTick
    BY <1>5, OngoingFrame, Zenon
  <1>6. CASE EndTick
    <2>1. PICK kind \in {"transfer", "reset"}, final \in Statuses,
               usable \in BOOLEAN : Conclude(kind, final, usable)
      BY <1>6, EndOutcome, Zenon
    <2>2. /\ UNCHANGED <<calling, delivered, issued>> /\ request' = NoRequest
          /\ notification' = [request |-> request, kind |-> kind, status |-> final,
                              completed |-> completed, actions |-> actions,
                              at |-> now, due |-> deadline]
      BY <2>1, Zenon DEF Conclude
    <2>3. active
      BY <1>6, EndOutcome, Zenon
    <2>4. request \in Requests /\ completed \in Nat /\ now \in 0 .. MaxTime
          /\ deadline \in 0 .. MaxTime /\ actions \in Programs \union {<<>>}
      BY <2>3, Zenon DEF Outbox, TimingOK, ProgressOK
    <2>5. notification' \in Results
      BY <2>2, <2>4, Zenon DEF Results
    <2> QED
      BY <2>2, <2>5, Zenon
  <1>7. CASE Leave
    <2>1. UNCHANGED <<delivered, issued, request>> /\ calling' = notification
          /\ notification' = NoResult
      BY <1>7, Zenon DEF Leave, TakeNotification, operation
    <2> QED
      BY <2>1, Zenon
  <1>8. CASE Notify
    <2>1. UNCHANGED <<notification, issued, request>> /\ calling' = NoResult
          /\ delivered' = Append(delivered, calling) /\ calling \in Results
      BY <1>8, Zenon DEF Notify, operation, Outbox
    <2> QED
      BY <2>1
  <1> QED
    BY <1>1, <1>2, <1>3, <1>4, <1>5, <1>6, <1>7, <1>8, TickSorts, Zenon
    DEF Next, Quiet

\* TryLock() and Unlock() bracket every submission and every ticking interrupt.
LEMMA LockStep ==
    ASSUME TypeOK, MachinePhase, Position, Contained, StatusHonest, Outbox,
           LockKept, [Next]_vars
    PROVE  LockKept'
  <1> USE DEF TypeOK, ControlOK, LockKept
  <1>1. CASE Initialize \/ Deinit
    BY <1>1 DEF Initialize, Deinit, timing, backend, loop, operation, outbox
  <1>2. ASSUME NEW c \in Callers, Lock(c) \/ Refuse(c) \/ Pend(c)
        PROVE  LockKept'
    <2>1. CASE Lock(c)
      BY <2>1, Zenon DEF Lock, Locked, loop, operation
    <2>2. CASE Refuse(c)
      BY <2>2, Zenon DEF Refuse, loop, operation
    <2>3. CASE Pend(c)
      BY <2>3, Zenon DEF Pend, loop, operation
    <2> QED
      BY <1>2, <2>1, <2>2, <2>3, Zenon
  <1>3. ASSUME NEW c \in Callers, Accept(c)
        PROVE  LockKept'
    <2>1. issued' = issued + 1 /\ caller[c] = "locked" /\ initialized' = initialized
          /\ caller' = [caller EXCEPT ![c] = "pend"] /\ isr' = isr
      BY <1>3, Zenon DEF Accept, Start, Reset, loop
    <2>2. initialized /\ issued \in Nat
      BY <2>1, Sizes DEF OutboxOK
    <2> QED
      BY <2>1, <2>2
  <1>4. CASE Enter
    BY <1>4, Zenon DEF Enter, Locked, operation, outbox
  <1>5. CASE StepTick
    <2>1. issued # 0
      BY <1>5, OngoingFrame, Zenon
    <2> QED
      BY <1>5, <2>1, OngoingFrame, Zenon
  <1>6. CASE BeginTick
    <2>1. issued # 0
      BY <1>6, OngoingFrame, Zenon
    <2> QED
      BY <1>6, <2>1, OngoingFrame, Zenon
  <1>7. CASE FailTick
    <2>1. issued # 0
      BY <1>7, OngoingFrame, Zenon
    <2> QED
      BY <1>7, <2>1, OngoingFrame, Zenon
  <1>8. CASE EndTick
    <2>1. UNCHANGED <<isr, caller, initialized, issued>>
      BY <1>8, EndOutcome, Zenon DEF Conclude
    <2>2. issued # 0
      BY <1>8, EndOutcome, Zenon
    <2> QED
      BY <2>1, <2>2, Zenon
  <1>9. CASE Leave
    BY <1>9, Zenon
       DEF Leave, TakeNotification, More, timing, backend, loop, operation, outbox
  <1>10. CASE Notify
    BY <1>10, Zenon DEF Notify, timing, backend, loop, operation, outbox
  <1>11. CASE Hardware
    BY <1>11, Zenon DEF Hardware, timing, backend, loop, operation, outbox
  <1>12. ASSUME NEW a \in Alarms, Fire(a)
        PROVE  LockKept'
    BY <1>12, Zenon DEF Fire, timing, backend, loop, operation, outbox
  <1>13. CASE TimePasses
    BY <1>13, Zenon DEF TimePasses, timing, backend, loop, operation, outbox
  <1>14. CASE UNCHANGED vars
    BY <1>14, Zenon DEF vars, timing, backend, loop, operation, outbox
  <1> QED
    BY <1>1, <1>2, <1>3, <1>4, <1>5, <1>6, <1>7, <1>8,
       <1>9, <1>10, <1>11, <1>12, <1>13, <1>14, TickSorts, Zenon
    DEF Next

\* The state machine takes a transfer and a reset through their own states and
\* comes to rest when neither is active.
LEMMA PhaseStep ==
    ASSUME TypeOK, MachinePhase, Position, Contained, StatusHonest, LockKept, [Next]_vars
    PROVE  MachinePhase'
  <1> USE DEF TypeOK, ControlOK, MachinePhase
  <1>1. CASE Quiet
    BY <1>1, QuietFrame
  <1>2. ASSUME NEW c \in Callers, Accept(c)
        PROVE  MachinePhase'
    <2>1. ~active /\ state' = state /\ recovering' = recovering
          /\ (~resetting' => ~faulted)
      BY <1>2, Zenon DEF Accept, Start, Reset, Available, backend
    <2> QED
      BY <2>1, Zenon DEF Contained, FaultBlocksTransfers
  <1>3. CASE StepTick
    <2>1. CASE TickIdle
      <3>1. state' = (IF resetting THEN "reset" ELSE "transfer")
            /\ recovering' = recovering
        BY <2>1, Zenon DEF TickIdle, Tick, backend
      <3> QED
        BY <1>3, <3>1, OngoingFrame
    <2>2. CASE TransferWaits \/ PauseEnds \/ PauseWaits
      <3>1. state \in {"transfer", "pause"} /\ state' \in {"transfer", "pause"}
            /\ recovering' = recovering
        BY <2>2, Zenon DEF TransferWaits, PauseEnds, PauseWaits, Transferring,
           Ticking, Tick, backend
      <3> QED
        BY <1>3, <3>1, OngoingFrame
    <2>3. CASE ResetWaits
      <3>1. state = "reset" /\ state' = "reset" /\ AsyncReset
        BY <2>3, Zenon DEF ResetWaits, Ticking, Tick
      <3> QED
        BY <1>3, <3>1, OngoingFrame, Zenon
    <2> QED
      BY <1>3, <2>1, <2>2, <2>3, Zenon DEF StepTick
  <1>4. CASE BeginTick
    <2>1. PICK n \in Nat : Begin(n)
      BY <1>4, BeginStep, Zenon
    <2>2. recovering' = recovering /\ BeginOutcome(n)
      BY <2>1, BeginOutcomes, Zenon
    <2>3. state' \in {"transfer", "pause", "finish"}
      BY <2>2, Zenon DEF BeginOutcome
    <2> QED
      BY <1>4, <2>2, <2>3, BeginStep, OngoingFrame
  <1>5. CASE FailTick
    <2>1. active /\ ~resetting /\ state' = "finish" /\ recovering' = recovering
      BY <1>5, FailOutcome, Zenon
    <2> QED
      BY <1>5, <2>1, OngoingFrame
  <1>6. CASE EndTick
    <2>1. ~active' /\ ~recovering' /\ state' \in {"idle", "faulted"}
      BY <1>6, EndOutcome, Zenon DEF Conclude
    <2> QED
      BY <2>1, Zenon
  <1>7. CASE Leave
    BY <1>7, Zenon
       DEF Leave, TakeNotification, More, timing, backend, loop, operation, outbox
  <1>8. CASE Notify
    BY <1>8, Zenon DEF Notify, timing, backend, loop, operation, outbox
  <1> QED
    BY <1>1, <1>2, <1>3, <1>4, <1>5, <1>6, <1>7, <1>8, TickSorts, Zenon
    DEF Next, Quiet

\* An action in progress, or a pause, is one of the list, and its attempts are
\* not used up.
LEMMA PositionStep ==
    ASSUME TypeOK, MachinePhase, Position, Contained, StatusHonest, [Next]_vars
    PROVE  Position'
  <1> USE DEF TypeOK, ControlOK, ProgressOK, Position
  <1>1. CASE Quiet
    BY <1>1, QuietFrame, Zenon
  <1>2. ASSUME NEW c \in Callers, Accept(c)
        PROVE  Position'
    <2>1. \/ completed' = 0 /\ pollCount' = 0 /\ ~started'
          \/ resetting' = TRUE
      BY <1>2, Zenon DEF Accept, Start, Reset, Rewind
    <2>2. ~active /\ state' = state
      BY <1>2, Zenon DEF Accept, Start, Reset, Available
    <2> QED
      BY <2>1, <2>2, Sizes, Zenon DEF MachinePhase
  <1>3. CASE StepTick
    <2>1. CASE TickIdle
      <3>1. state \in {"idle", "faulted"} /\ state' \in {"reset", "transfer"}
            /\ UNCHANGED <<started, completed, pollCount>>
        BY <2>1, Zenon DEF TickIdle, Ticking, Tick
      <3> QED
        BY <1>3, <3>1, OngoingFrame, Zenon
    <2>2. CASE TransferWaits \/ PauseWaits \/ ResetWaits
      <3>1. state' = state /\ UNCHANGED <<started, completed, pollCount>>
        BY <2>2, Zenon DEF TransferWaits, PauseWaits, ResetWaits, Transferring,
           Ticking, Tick
      <3> QED
        BY <1>3, <3>1, OngoingFrame, Zenon
    <2>3. CASE PauseEnds
      <3>1. state = "pause" /\ state' = "transfer" /\ UNCHANGED <<started, pollCount>>
        BY <2>3, Zenon DEF PauseEnds, Ticking, Tick
      <3> QED
        BY <1>3, <3>1, OngoingFrame, Zenon
    <2> QED
      BY <1>3, <2>1, <2>2, <2>3, Zenon DEF StepTick
  <1>4. CASE BeginTick
    <2>1. PICK n \in Nat : Begin(n)
      BY <1>4, BeginStep, Zenon
    <2>2. BeginOutcome(n)
      BY <2>1, BeginOutcomes, Zenon
    <2>3. started' \/ state' = "pause" => completed' = n /\ n < Len(actions)
      BY <2>2, Zenon DEF BeginOutcome
    <2>4. state' = "pause" => ~started'
      BY <2>2, Zenon DEF BeginOutcome
    <2> QED
      BY <1>4, <2>3, <2>4, BeginStep, OngoingFrame, Zenon
  <1>5. CASE FailTick
    <2>1. state' = "finish" /\ UNCHANGED <<started, completed>>
      BY <1>5, FailOutcome, Zenon
    <2> QED
      BY <1>5, <2>1, OngoingFrame, Zenon
  <1>6. CASE EndTick
    <2>1. ~active'
      BY <1>6, EndOutcome, Zenon DEF Conclude
    <2> QED
      BY <2>1, Zenon
  <1>7. CASE Leave
    BY <1>7, Zenon
       DEF Leave, TakeNotification, More, timing, backend, loop, operation, outbox
  <1>8. CASE Notify
    BY <1>8, Zenon DEF Notify, timing, backend, loop, operation, outbox
  <1> QED
    BY <1>1, <1>2, <1>3, <1>4, <1>5, <1>6, <1>7, <1>8, TickSorts, Zenon
    DEF Next, Quiet

\* Whatever ends an operation releases the peripheral and the pins, and a fault
\* outlasts everything but a successful operation.
LEMMA ContainedStep ==
    ASSUME TypeOK, MachinePhase, Position, Contained, StatusHonest, LockKept, [Next]_vars
    PROVE  Contained'
  <1> USE DEF TypeOK, ControlOK, Contained, BuffersReleased, FaultBlocksTransfers
  <1>1. CASE Initialize \/ Deinit
    <2>1. state = "faulted" => initialized
      BY Zenon DEF LockKept
    <2>2. active => initialized
      BY Zenon DEF LockKept
    <2> QED
      BY <1>1, <2>1, <2>2 DEF Initialize, Deinit, backend, operation
  <1>2. ASSUME NEW c \in Callers, Lock(c) \/ Refuse(c) \/ Pend(c)
        PROVE  Contained'
    BY <1>2 DEF Lock, Refuse, Pend, timing, backend, loop, operation, outbox
  <1>3. ASSUME NEW c \in Callers, Accept(c)
        PROVE  Contained'
    <2>1. ~active /\ active' /\ UNCHANGED <<recovering, faulted, state>>
          /\ ((resetting' /\ hw' = hw) \/ (~resetting' /\ ~faulted))
      BY <1>3, Zenon DEF Accept, Start, Reset, Available, backend
    <2> QED
      BY <2>1, Zenon
  <1>4. CASE Enter
    BY <1>4, Zenon DEF Enter, timing, backend, loop, operation, outbox
  <1>5. CASE StepTick
    <2>1. hw' = hw /\ state' # "faulted"
      BY <1>5, Zenon DEF StepTick, TickIdle, TransferWaits, PauseEnds, PauseWaits,
         ResetWaits, Tick, backend
    <2>2. recovering' = recovering \/ state = "reset"
      BY <1>5, Zenon DEF StepTick, TickIdle, TransferWaits, PauseEnds, PauseWaits,
         ResetWaits, Ticking, backend
    <2> QED
      BY <1>5, <2>1, <2>2, OngoingFrame DEF MachinePhase
  <1>6. CASE BeginTick
    <2>1. PICK n \in Nat : Begin(n)
      BY <1>6, BeginStep, Zenon
    <2>2. recovering' = recovering /\ BeginOutcome(n)
      BY <2>1, BeginOutcomes, Zenon
    <2>3. state' # "faulted"
      BY <2>2, Zenon DEF BeginOutcome
    <2> QED
      BY <1>6, <2>2, <2>3, BeginStep, OngoingFrame
  <1>7. CASE FailTick
    <2>1. state' = "finish" /\ UNCHANGED <<hw, recovering>>
      BY <1>7, FailOutcome, Zenon
    <2> QED
      BY <1>7, <2>1, OngoingFrame
  <1>8. CASE EndTick
    <2>1. ~active' /\ hw' = "off" /\ ~recovering'
      BY <1>8, EndOutcome, Zenon DEF Conclude
    <2>2. PICK usable \in BOOLEAN : faulted' = ~usable
            /\ state' = IF usable THEN "idle" ELSE "faulted"
      BY <1>8, EndOutcome, Zenon DEF Conclude
    <2> QED
      BY <2>1, <2>2, Zenon
  <1>9. CASE Leave
    BY <1>9, Zenon
       DEF Leave, TakeNotification, More, timing, backend, loop, operation, outbox
  <1>10. CASE Notify
    BY <1>10, Zenon DEF Notify, timing, backend, loop, operation, outbox
  <1>11. CASE Hardware
    BY <1>11, Zenon DEF Hardware, timing, backend, loop, operation, outbox
  <1>12. ASSUME NEW a \in Alarms, Fire(a)
        PROVE  Contained'
    BY <1>12, Zenon DEF Fire, timing, backend, loop, operation, outbox
  <1>13. CASE TimePasses
    BY <1>13, Zenon DEF TimePasses, timing, backend, loop, operation, outbox
  <1>14. CASE UNCHANGED vars
    BY <1>14, Zenon DEF vars, timing, backend, loop, operation, outbox
  <1> QED
    BY <1>1, <1>2, <1>3, <1>4, <1>5, <1>6, <1>7, <1>8,
       <1>9, <1>10, <1>11, <1>12, <1>13, <1>14, TickSorts, Zenon
    DEF Next

\* No step takes away the last thing that will call interrupt() for an active
\* operation.
LEMMA WaitingStep ==
    ASSUME TypeOK, MachinePhase, Position, Contained, StatusHonest, Waiting, [Next]_vars
    PROVE  Waiting'
  <1> USE Sizes DEF TypeOK, ControlOK, TimingOK, Waiting
  <1>1. CASE Initialize \/ Deinit
    BY <1>1 DEF Initialize, Deinit, Awaited, timing, backend, loop, operation
  <1>2. ASSUME NEW c \in Callers, Lock(c) \/ Refuse(c) \/ Pend(c)
        PROVE  Waiting'
    <2>1. CASE Lock(c)
      BY <2>1, Zenon DEF Lock, Awaited, timing, backend, loop, operation
    <2>2. CASE Refuse(c)
      BY <2>2, Zenon DEF Refuse, Awaited, timing, backend, loop, operation
    <2>3. CASE Pend(c)
      BY <2>3, Zenon DEF Pend, Awaited, timing, loop, operation
    <2> QED
      BY <1>2, <2>1, <2>2, <2>3, Zenon
  <1>3. ASSUME NEW c \in Callers, Accept(c)
        PROVE  Waiting'
    <2>1. PICK delay \in Timeouts :
            ArmDeadline(delay) /\ caller' = [caller EXCEPT ![c] = "pend"]
            /\ ~active /\ active' /\ state' = state
      BY <1>3, Zenon DEF Accept, Start, Reset, Available
    <2>2. alarm'["deadline"] = deadline' /\ caller'[c] = "pend"
      BY <2>1, Zenon DEF ArmDeadline, Alarms
    <2> QED
      BY <2>1, <2>2, Zenon DEF Awaited, MachinePhase
  <1>4. CASE Enter
    BY <1>4, Zenon DEF Enter, timing, operation
  <1>5. CASE StepTick
    <2>1. CASE TickIdle
      <3>1. again' /\ state' \in {"reset", "transfer"} /\ UNCHANGED <<alarm, pauseDue>>
        BY <2>1, Zenon DEF TickIdle, Tick
      <3> QED
        BY <1>5, <3>1, OngoingFrame, Zenon
    <2>2. CASE TransferWaits
      <3>1. now < deadline /\ state' = "transfer" /\ started' /\ hw' = "busy"
            /\ UNCHANGED <<alarm, pauseDue>>
        BY <2>2 DEF TransferWaits, Transferring, Expired, Tick, backend
      <3> QED
        BY <1>5, <3>1, OngoingFrame DEF Awaited
    <2>3. CASE PauseEnds
      <3>1. again' /\ state' = "transfer" /\ UNCHANGED <<alarm, pauseDue>>
        BY <2>3, Zenon DEF PauseEnds, Tick
      <3> QED
        BY <1>5, <3>1, OngoingFrame, Zenon
    <2>4. CASE PauseWaits
      <3>1. now < deadline /\ now < pauseDue /\ state = "pause" /\ state' = "pause"
            /\ UNCHANGED <<alarm, pauseDue>>
        BY <2>4 DEF PauseWaits, Expired, Ticking, Tick
      <3>2. alarm["pause"] # Never
        BY <1>5, <3>1, OngoingFrame DEF Never
      <3> QED
        BY <1>5, <3>1, <3>2, OngoingFrame DEF Awaited
    <2>5. CASE ResetWaits
      <3>1. now < deadline /\ state' = "reset" /\ now + PollTime <= MaxTime
            /\ alarm' = [alarm EXCEPT !["pause"] = now + PollTime]
        BY <2>5 DEF ResetWaits, Expired, CanArm, Tick
      <3>2. alarm'["pause"] # Never /\ alarm'["deadline"] = alarm["deadline"]
        BY <3>1 DEF Alarms, Never
      <3> QED
        BY <1>5, <3>1, <3>2, OngoingFrame DEF Awaited
    <2> QED
      BY <1>5, <2>1, <2>2, <2>3, <2>4, <2>5, Zenon DEF StepTick
  <1>6. CASE BeginTick
    <2>1. PICK n \in Nat : Begin(n)
      BY <1>6, BeginStep, Zenon
    <2>2. BeginOutcome(n)
      BY <2>1, BeginOutcomes, Zenon
    <2>3. now < deadline /\ active
      BY <1>6, BeginStep DEF Transferring, Expired
    <2>4. CASE again' = TRUE /\ state' \in {"finish", "transfer"} /\ alarm' = alarm
      BY <1>6, <2>4, OngoingFrame, Zenon
    <2>5. CASE /\ CanArm(PauseTime) /\ state' = "pause" /\ pauseDue' = now + PauseTime
               /\ alarm' = [alarm EXCEPT !["pause"] = now + PauseTime]
      <3>1. alarm'["pause"] = pauseDue' /\ alarm'["pause"] # Never
            /\ alarm'["deadline"] = alarm["deadline"]
        BY <2>5 DEF CanArm, Alarms, Never
      <3> QED
        BY <1>6, <2>3, <2>5, <3>1, OngoingFrame DEF Awaited
    <2>6. CASE state' = "transfer" /\ started' /\ hw' = "busy" /\ alarm' = alarm
      BY <1>6, <2>3, <2>6, OngoingFrame DEF Awaited
    <2> QED
      BY <2>2, <2>4, <2>5, <2>6, Zenon DEF BeginOutcome
  <1>7. CASE FailTick
    <2>1. state' = "finish" /\ again' /\ UNCHANGED <<alarm, pauseDue>>
      BY <1>7, FailOutcome, Zenon
    <2> QED
      BY <1>7, <2>1, OngoingFrame, Zenon
  <1>8. CASE EndTick
    <2>1. ~active' /\ alarm' = NoAlarms
      BY <1>8, EndOutcome, Zenon DEF Conclude
    <2> QED
      BY <2>1, Zenon
  <1>9. CASE Leave
    <2>1. UNCHANGED <<now, alarm, hw, caller, state, active, started, deadline, pauseDue>>
      BY <1>9, Zenon DEF Leave, timing, backend, operation
    <2>2. pending \/ (again /\ active) => pending'
      BY <1>9, Zenon DEF Leave, More
    <2>3. active => Awaited \/ again
      BY Zenon
    <2>4. active => Awaited'
      BY <2>1, <2>2, <2>3, Zenon DEF Awaited
    <2> QED
      BY <2>1, <2>4, Zenon
  <1>10. CASE Notify
    BY <1>10, Zenon DEF Notify, Awaited, timing, backend, operation
  <1>11. CASE Hardware
    BY <1>11, Zenon DEF Hardware, Awaited, timing, loop, operation
  <1>12. ASSUME NEW a \in Alarms, Fire(a)
        PROVE  Waiting'
    <2>1. UNCHANGED <<now, active, state, deadline, pauseDue>> /\ pending'
          /\ alarm[a] <= now /\ alarm' = [alarm EXCEPT ![a] = Never]
      BY <1>12, Zenon DEF Fire, operation
    <2>2. active
      BY <2>1 DEF NoAlarms, Never
    <2>3. alarm'["deadline"] = deadline' \/ deadline' <= now'
      BY <2>1, <2>2, Zenon DEF Alarms
    <2>4. state' = "pause" => alarm'["pause"] = pauseDue' \/ pauseDue' <= now'
      BY <2>1, <2>2, Zenon DEF Alarms
    <2> QED
      BY <2>1, <2>2, <2>3, <2>4, Zenon DEF Awaited
  <1>13. CASE TimePasses
    BY <1>13 DEF TimePasses, Awaited, backend, loop, operation
  <1>14. CASE UNCHANGED vars
    BY <1>14, Zenon DEF vars, Awaited, timing, backend, loop, operation
  <1> QED
    BY <1>1, <1>2, <1>3, <1>4, <1>5, <1>6, <1>7, <1>8,
       <1>9, <1>10, <1>11, <1>12, <1>13, <1>14, TickSorts, Zenon
    DEF Next

\* The status of a transfer says ok until something fails, and a timeout only
\* once the deadline has passed.
LEMMA StatusStep ==
    ASSUME TypeOK, MachinePhase, Position, Contained, StatusHonest, [Next]_vars
    PROVE  StatusHonest'
  <1> USE Sizes DEF TypeOK, ControlOK, TimingOK, ProgressOK, StatusHonest
  <1>1. CASE Quiet
    <2>1. /\ UNCHANGED <<state, active, resetting, setupFailed, completed,
                         deadline, status, actions>>
          /\ now' \in Nat /\ now \in Nat /\ now <= now'
      BY <1>1, QuietFrame, Zenon
    <2> QED
      BY <2>1
  <1>2. ASSUME NEW c \in Callers, Accept(c)
        PROVE  StatusHonest'
    <2>1. ~active /\ state' = state
      BY <1>2, Zenon DEF Accept, Start, Reset, Available
    <2>2. \/ resetting'
          \/ (setupFailed' /\ status' = "hardware")
          \/ (~setupFailed' /\ status' = "ok")
      BY <1>2, Zenon DEF Accept, Start, Reset
    <2> QED
      BY <2>1, <2>2, Zenon DEF MachinePhase
  <1>3. CASE StepTick
    <2>1. state # "finish" /\ state' # "finish"
      BY <1>3, Zenon DEF StepTick, TickIdle, TransferWaits, PauseEnds, PauseWaits,
         ResetWaits, Transferring, Ticking, Tick
    <2>2. UNCHANGED <<status, setupFailed>>
      BY <1>3, Zenon DEF StepTick, TickIdle, TransferWaits, PauseEnds, PauseWaits,
         ResetWaits
    <2> QED
      BY <1>3, <2>1, <2>2, OngoingFrame, Zenon
  <1>4. CASE BeginTick
    <2>1. PICK n \in Nat : Begin(n)
      BY <1>4, BeginStep, Zenon
    <2>2. setupFailed' = setupFailed /\ BeginOutcome(n)
      BY <2>1, BeginOutcomes, Zenon
    <2>3. active /\ ~resetting /\ state = "transfer" /\ ~setupFailed
      BY <1>4, BeginStep, Zenon DEF Transferring
    <2>4. status = "ok"
      BY <2>3, Zenon
    <2>5. \/ state' = "finish" /\ completed' = Len(actions) /\ status' = status
          \/ state' # "finish" /\ status' = status
          \/ state' = "finish" /\ status' \in {"mismatch", "timer_error", "hardware"}
      BY <2>2, Zenon DEF BeginOutcome
    <2> QED
      BY <1>4, <2>2, <2>3, <2>4, <2>5, OngoingFrame, Zenon
  <1>5. CASE FailTick
    <2>1. state' = "finish" /\ state # "finish" /\ active /\ ~resetting
          /\ UNCHANGED completed
          /\ \/ setupFailed /\ status' = status
             \/ now >= deadline /\ status' = "timeout"
             \/ status' \in {"hardware", "mismatch"}
      BY <1>5, FailOutcome, Zenon
    <2> QED
      BY <1>5, <2>1, OngoingFrame, Zenon
  <1>6. CASE EndTick
    <2>1. ~active'
      BY <1>6, EndOutcome, Zenon DEF Conclude
    <2> QED
      BY <2>1, Zenon
  <1>7. CASE Leave
    BY <1>7, Zenon DEF Leave, timing, operation
  <1>8. CASE Notify
    BY <1>8, Zenon DEF Notify, timing, operation
  <1> QED
    BY <1>1, <1>2, <1>3, <1>4, <1>5, <1>6, <1>7, <1>8, TickSorts, Zenon
    DEF Next, Quiet

\* The result an operation ends with is true, and nothing alters it on its way
\* to the application.
LEMMA ResultsStep ==
    ASSUME TypeOK, MachinePhase, Position, Contained, StatusHonest, ResultsTrue, [Next]_vars
    PROVE  ResultsTrue'
  <1> USE DEF ResultsTrue, Answers
  <1>1. CASE Quiet
    BY <1>1, QuietFrame, Zenon
  <1>2. ASSUME NEW c \in Callers, Accept(c)
        PROVE  ResultsTrue'
    <2>1. UNCHANGED <<notification, calling>>
      BY <1>2, Zenon DEF Accept, Start, Reset, outbox
    <2> QED
      BY <2>1, Zenon
  <1>3. CASE StepTick
    <2>1. UNCHANGED <<notification, calling>>
      BY <1>3, OngoingFrame, Zenon
    <2> QED
      BY <2>1, Zenon
  <1>4. CASE BeginTick
    <2>1. UNCHANGED <<notification, calling>>
      BY <1>4, OngoingFrame, Zenon
    <2> QED
      BY <2>1, Zenon
  <1>5. CASE FailTick
    <2>1. UNCHANGED <<notification, calling>>
      BY <1>5, OngoingFrame, Zenon
    <2> QED
      BY <2>1, Zenon
  <1>6. CASE EndTick
    <2>1. PICK kind \in {"transfer", "reset"}, final \in Statuses,
               usable \in BOOLEAN :
            /\ Conclude(kind, final, usable)
            /\ final = "timeout" => now >= deadline
            /\ kind = "transfer" /\ final = "ok" => completed = Len(actions)
      BY <1>6, EndOutcome, Zenon
    <2>2. /\ calling' = calling
          /\ notification' = [request |-> request, kind |-> kind, status |-> final,
                              completed |-> completed, actions |-> actions,
                              at |-> now, due |-> deadline]
      BY <2>1, Zenon DEF Conclude
    <2>3. ASSUME NEW r \in Answers'
          PROVE  /\ r.status = "timeout" => r.at >= r.due
                 /\ r.kind = "transfer" /\ r.status = "ok" =>
                       r.completed = Len(r.actions)
      <3>1. CASE r = notification'
        BY <2>1, <2>2, <3>1, Zenon
      <3>2. CASE r # notification'
        BY <2>2, <2>3, <3>2, Zenon
      <3> QED
        BY <3>1, <3>2, Zenon
    <2> QED
      BY <2>3, Zenon
  <1>7. CASE Leave
    <2>1. calling' = notification /\ notification' = NoResult
      BY <1>7, Zenon DEF Leave, TakeNotification
    <2> QED
      BY <2>1, Zenon
  <1>8. CASE Notify
    <2>1. calling' = NoResult /\ notification' = notification
      BY <1>8, Zenon DEF Notify
    <2> QED
      BY <2>1, Zenon
  <1> QED
    BY <1>1, <1>2, <1>3, <1>4, <1>5, <1>6, <1>7, <1>8, TickSorts, Zenon
    DEF Next, Quiet

\* A result is made when its operation ends and the lock is held, copied when
\* the interrupt unlocks, and handed over before the next interrupt.
LEMMA PendingStep ==
    ASSUME TypeOK, MachinePhase, Position, Contained, StatusHonest, LockKept,
           Outbox, [Next]_vars
    PROVE  Outbox'
  <1> USE DEF TypeOK, ControlOK, Outbox
  <1>1. CASE Initialize \/ Deinit
    BY <1>1 DEF Initialize, Deinit, loop, operation, outbox
  <1>2. ASSUME NEW c \in Callers, Lock(c) \/ Refuse(c) \/ Pend(c)
        PROVE  Outbox'
    BY <1>2 DEF Lock, Refuse, Pend, loop, operation, outbox
  <1>3. ASSUME NEW c \in Callers, Accept(c)
        PROVE  Outbox'
    <2>1. issued' = issued + 1 /\ request' = issued + 1 /\ active'
          /\ caller[c] = "locked" /\ UNCHANGED <<isr, notification, calling>>
      BY <1>3, Zenon DEF Accept, Start, Reset, loop, outbox
    <2>2. request' # NoRequest /\ isr # "tick"
      BY <2>1, Sizes DEF LockKept, OutboxOK, NoRequest
    <2> QED
      BY <2>1, <2>2, Zenon
  <1>4. CASE Enter
    BY <1>4, Zenon DEF Enter, operation, outbox
  <1>5. CASE StepTick
    BY <1>5, OngoingFrame, Zenon
  <1>6. CASE BeginTick
    BY <1>6, OngoingFrame, Zenon
  <1>7. CASE FailTick
    BY <1>7, OngoingFrame, Zenon
  <1>8. CASE EndTick
    <2>1. ~active' /\ request' = NoRequest /\ UNCHANGED <<isr, calling>>
      BY <1>8, EndOutcome, Zenon DEF Conclude
    <2>2. isr = "tick"
      BY <1>8, EndOutcome, Zenon
    <2> QED
      BY <2>1, <2>2, Zenon
  <1>9. CASE Leave
    <2>1. /\ isr = "tick" /\ calling' = notification /\ notification' = NoResult
          /\ isr' = IF notification = NoResult THEN "idle" ELSE "notify"
          /\ UNCHANGED <<active, request>>
      BY <1>9, Zenon DEF Leave, TakeNotification, operation
    <2> QED
      BY <2>1, Zenon
  <1>10. CASE Notify
    <2>1. /\ isr = "notify" /\ calling' = NoResult /\ isr' = "idle"
          /\ UNCHANGED <<active, request, notification>>
      BY <1>10, Zenon DEF Notify, operation
    <2> QED
      BY <2>1, Zenon
  <1>11. CASE Hardware
    BY <1>11, Zenon DEF Hardware, loop, operation, outbox
  <1>12. ASSUME NEW a \in Alarms, Fire(a)
        PROVE  Outbox'
    BY <1>12, Zenon DEF Fire, loop, operation, outbox
  <1>13. CASE TimePasses
    BY <1>13, Zenon DEF TimePasses, loop, operation, outbox
  <1>14. CASE UNCHANGED vars
    BY <1>14, Zenon DEF vars, loop, operation, outbox
  <1> QED
    BY <1>1, <1>2, <1>3, <1>4, <1>5, <1>6, <1>7, <1>8,
       <1>9, <1>10, <1>11, <1>12, <1>13, <1>14, TickSorts, Zenon
    DEF Next

\* Delivering a result adds its operation to the ones answered.
LEMMA DeliverOne ==
    ASSUME delivered \in Seq(Results), NEW r \in Results,
           delivered' = Append(delivered, r)
    PROVE  /\ DeliveredRequests' = DeliveredRequests \union {r.request}
           /\ Distinct /\ r.request \notin DeliveredRequests => Distinct'
  <1>1. Len(delivered) \in Nat /\ DOMAIN delivered = 1 .. Len(delivered)
        /\ DOMAIN delivered' = 1 .. (Len(delivered) + 1)
        /\ delivered'[Len(delivered) + 1] = r
        /\ \A i \in 1 .. Len(delivered) : delivered'[i] = delivered[i]
    OBVIOUS
  <1>2. DOMAIN delivered' = DOMAIN delivered \union {Len(delivered) + 1}
    BY <1>1
  <1>3. DeliveredRequests' = DeliveredRequests \union {r.request}
    BY <1>1, <1>2 DEF DeliveredRequests
  <1>4. ASSUME Distinct, r.request \notin DeliveredRequests
        PROVE  Distinct'
    <2>1. \A i \in 1 .. Len(delivered) : delivered[i].request # r.request
      BY <1>1, <1>4, Zenon DEF DeliveredRequests
    <2> QED
      BY <1>1, <1>4, <2>1 DEF Distinct
  <1> QED
    BY <1>3, <1>4, Zenon

\* Where the operations are depends on five variables.
LEMMA PlacementFrame ==
    ASSUME Placement, UNCHANGED <<request, notification, calling, delivered, issued>>
    PROVE  Placement'
  <1>1. DeliveredRequests' = DeliveredRequests
    BY Zenon DEF DeliveredRequests
  <1> QED
    BY <1>1, Zenon DEF Placement, Placed, Distinct

\* An operation enters when it is accepted and moves from the machine to the
\* notification, to interrupt() and to the application, one place at a time.
LEMMA PlacementStep ==
    ASSUME TypeOK, MachinePhase, Position, Contained, StatusHonest, Outbox,
           Placement, [Next]_vars
    PROVE  Placement'
  <1>1. CASE Quiet
    BY <1>1, QuietFrame, PlacementFrame, Zenon
  <1>2. ASSUME NEW c \in Callers, Accept(c)
        PROVE  Placement'
    <2>1. issued' = issued + 1 /\ request' = issued + 1 /\ ~active
          /\ UNCHANGED <<notification, calling, delivered>>
      BY <1>2, Zenon DEF Accept, Start, Reset, Available, outbox
    <2>2. request = 0 /\ issued \in Nat
      BY <2>1, Sizes DEF TypeOK, OutboxOK, Outbox, NoRequest
    <2>3. DeliveredRequests' = DeliveredRequests
      BY <2>1, Zenon DEF DeliveredRequests
    <2>4. \A r \in 1 .. issued' : Placed(r)'
      BY <2>1, <2>2, <2>3 DEF Placement, Placed
    <2> QED
      BY <2>1, <2>2, <2>3, <2>4 DEF Placement, Distinct
  <1>3. CASE StepTick
    <2>1. UNCHANGED <<request, notification, calling, delivered, issued>>
      BY <1>3, OngoingFrame, Zenon
    <2> QED
      BY <2>1, PlacementFrame, Zenon
  <1>4. CASE BeginTick
    <2>1. UNCHANGED <<request, notification, calling, delivered, issued>>
      BY <1>4, OngoingFrame, Zenon
    <2> QED
      BY <2>1, PlacementFrame, Zenon
  <1>5. CASE FailTick
    <2>1. UNCHANGED <<request, notification, calling, delivered, issued>>
      BY <1>5, OngoingFrame, Zenon
    <2> QED
      BY <2>1, PlacementFrame, Zenon
  <1>6. CASE EndTick
    <2>1. PICK kind, final, usable : Conclude(kind, final, usable)
      BY <1>6, EndOutcome, Zenon
    <2>2. request' = NoRequest /\ notification'.request = request
          /\ UNCHANGED <<calling, delivered, issued>>
      BY <2>1, Zenon DEF Conclude
    <2>3. notification.request = 0
      BY <1>6, EndOutcome DEF Outbox, NoResult, NoRequest
    <2>4. DeliveredRequests' = DeliveredRequests
      BY <2>2, Zenon DEF DeliveredRequests
    <2>5. \A r \in 1 .. issued' : Placed(r)'
      BY <2>2, <2>3, <2>4, Sizes, Zenon
         DEF Placement, Placed, NoRequest, TypeOK, OutboxOK
    <2> QED
      BY <2>2, <2>4, <2>5, Sizes DEF Placement, Distinct, NoRequest, TypeOK, OutboxOK
  <1>7. CASE Leave
    <2>1. calling' = notification /\ notification' = NoResult /\ isr = "tick"
          /\ UNCHANGED <<request, delivered, issued>>
      BY <1>7, Zenon DEF Leave, TakeNotification, operation
    <2>2. calling.request = 0 /\ notification'.request = 0
      BY <2>1 DEF Outbox, NoResult, NoRequest
    <2>3. DeliveredRequests' = DeliveredRequests
      BY <2>1, Zenon DEF DeliveredRequests
    <2>4. \A r \in 1 .. issued' : Placed(r)'
      BY <2>1, <2>2, <2>3, Sizes, Zenon DEF Placement, Placed, TypeOK, OutboxOK
    <2> QED
      BY <2>1, <2>2, <2>3, <2>4, Sizes, Zenon DEF Placement, Distinct, TypeOK, OutboxOK
  <1>8. CASE Notify
    <2>1. calling' = NoResult /\ isr = "notify" /\ delivered' = Append(delivered, calling)
          /\ UNCHANGED <<request, notification, issued>>
      BY <1>8, Zenon DEF Notify, operation
    <2>2. calling \in Results /\ calling'.request = 0 /\ issued \in Nat
          /\ delivered \in Seq(Results)
      BY <2>1, Sizes DEF Outbox, NoResult, NoRequest, TypeOK, OutboxOK
    <2> DEFINE q == calling.request
    <2>3. q \in 1 .. issued
      BY <2>2, Sizes DEF Placement, Results, Requests
    <2>4. /\ DeliveredRequests' = DeliveredRequests \union {q}
          /\ Distinct /\ q \notin DeliveredRequests => Distinct'
      BY <2>1, <2>2, DeliverOne, Zenon
    <2>5. q \notin DeliveredRequests /\ q # request /\ q # notification.request
      BY <2>3, Zenon DEF Placement, Placed
    <2>6. \A r \in 1 .. issued' : Placed(r)'
      <3> SUFFICES ASSUME NEW r \in 1 .. issued PROVE Placed(r)'
        BY <2>1, Zenon
      <3>1. Placed(r) /\ r # 0
        BY <2>2 DEF Placement
      <3> QED
        BY <2>1, <2>2, <2>4, <2>5, <3>1, Zenon DEF Placed
    <2>7. Distinct'
      BY <2>4, <2>5, Zenon DEF Placement
    <2>8. {request, notification.request, 0} \subseteq 0 .. issued
          /\ DeliveredRequests \union {q} \subseteq 1 .. issued
      <3>1. request \in 0 .. issued /\ notification.request \in 0 .. issued
            /\ DeliveredRequests \subseteq 1 .. issued
        BY Zenon DEF Placement
      <3>2. 0 \in 0 .. issued
        BY <2>2
      <3> HIDE DEF q
      <3> QED
        BY <2>3, <3>1, <3>2, Zenon
    <2> QED
      BY <2>1, <2>2, <2>4, <2>6, <2>7, <2>8, Zenon DEF Placement
  <1> QED
    BY <1>1, <1>2, <1>3, <1>4, <1>5, <1>6, <1>7, <1>8, TickSorts, Zenon
    DEF Next, Quiet

\* The inductive invariant holds initially.
LEMMA InvInit == Init => IInv
  <1> SUFFICES ASSUME Init PROVE IInv
    BY Zenon
  <1> USE Sizes DEF Init
  <1>1. ControlOK
    BY Zenon DEF ControlOK, Statuses
  <1>2. TimingOK /\ ProgressOK
    BY DEF TimingOK, ProgressOK, NoAlarms, Never
  <1>3. OutboxOK
    BY DEF OutboxOK, NoRequest
  <1>4. LockKept /\ MachinePhase /\ Position
    BY Zenon DEF LockKept, MachinePhase, Position
  <1>5. Contained /\ Waiting /\ StatusHonest
    BY Zenon DEF Contained, BuffersReleased, FaultBlocksTransfers, Waiting, StatusHonest
  <1>6. ResultsTrue /\ Outbox
    BY Zenon DEF ResultsTrue, Answers, Outbox
  <1>7. Placement
    <2>1. DeliveredRequests = {}
      BY DEF DeliveredRequests
    <2>2. 1 .. 0 = {} /\ 0 \in 0 .. 0
      OBVIOUS
    <2> QED
      BY <2>1, <2>2 DEF Placement, Distinct, NoResult, NoRequest
  <1> QED
    BY <1>1, <1>2, <1>3, <1>4, <1>5, <1>6, <1>7, Zenon DEF IInv, TypeOK

\* Every step preserves the inductive invariant.
LEMMA InvStep == IInv /\ [Next]_vars => IInv'
  <1> SUFFICES ASSUME IInv, [Next]_vars PROVE IInv'
    BY Zenon
  <1>1. /\ TypeOK /\ LockKept /\ MachinePhase /\ Position /\ Contained /\ Waiting
        /\ StatusHonest /\ ResultsTrue /\ Outbox /\ Placement
    BY Zenon DEF IInv
  <1>2. TypeOK'
    BY <1>1, ControlStep, TimingStep, ProgressStep, OutboxStep, Zenon DEF TypeOK
  <1>3. LockKept' /\ MachinePhase' /\ Position' /\ Contained'
    BY <1>1, LockStep, PhaseStep, PositionStep, ContainedStep, Zenon
  <1>4. Waiting' /\ StatusHonest' /\ ResultsTrue' /\ Outbox' /\ Placement'
    BY <1>1, WaitingStep, StatusStep, ResultsStep, PendingStep, PlacementStep, Zenon
  <1> QED
    BY <1>2, <1>3, <1>4, Zenon DEF IInv

\* The inductive invariant holds in every reachable state.
LEMMA InvAlways == Spec => []IInv
  BY InvInit, InvStep, PTL DEF Spec

\* What Placement says of the places an operation can be in.
LEMMA PlacementCounts ==
    ASSUME TypeOK, Outbox, Placement
    PROVE  CompletesOnce
  <1> DEFINE here == IF active THEN request ELSE NoRequest
             places == <<here, notification.request, calling.request>>
  <1>1. here = request
    BY Zenon DEF Outbox
  <1>2. places[1] = request /\ places[2] = notification.request
        /\ places[3] = calling.request /\ 1..3 = {1, 2, 3}
    BY <1>1
  <1> HIDE DEF places
  <1>3. ASSUME NEW r \in 1 .. issued
        PROVE  IF r \in DeliveredRequests THEN \A p \in 1..3 : places[p] # r
               ELSE \E p \in 1..3 : \A q \in 1..3 : places[q] = r <=> q = p
    <2>1. Placed(r)
      BY Zenon DEF Placement
    <2>2. CASE r \in DeliveredRequests
      BY <1>2, <2>1, <2>2, Zenon DEF Placed
    <2>3. CASE r = request /\ r \notin DeliveredRequests
      <3>1. \A q \in 1..3 : places[q] = r <=> q = 1
        BY <1>2, <2>1, <2>3, Zenon DEF Placed
      <3> QED
        BY <2>3, <3>1
    <2>4. CASE r = notification.request /\ r \notin DeliveredRequests
      <3>1. \A q \in 1..3 : places[q] = r <=> q = 2
        BY <1>2, <2>1, <2>4, Zenon DEF Placed
      <3> QED
        BY <2>4, <3>1
    <2>5. CASE r = calling.request /\ r \notin DeliveredRequests
      <3>1. \A q \in 1..3 : places[q] = r <=> q = 3
        BY <1>2, <2>1, <2>5, Zenon DEF Placed
      <3> QED
        BY <2>5, <3>1
    <2> QED
      BY <2>1, <2>2, <2>3, <2>4, <2>5, Zenon DEF Placed
  <1> QED
    BY <1>3, Zenon DEF CompletesOnce, Placement, Distinct, places

\* Every accepted operation is answered at most once and is lost nowhere on the
\* way, and what the answer says is true: Start(), reset() and interrupt() of
\* controller.hpp, for every number of callers, every list of actions and every
\* timeout.
THEOREM OperationsAnsweredTruly == Spec => []AnsweredTruly
  <1>1. IInv => AnsweredTruly
    BY PlacementCounts, Zenon DEF IInv, AnsweredTruly
  <1> QED
    BY <1>1, InvAlways, PTL

\* The peripheral and the reset's pins are in use only for the operation they
\* belong to, and a fault keeps transfers out: State::finish and State::reset of
\* controller.hpp.
THEOREM FaultsContained == Spec => []Contained
  <1>1. IInv => Contained
    BY Zenon DEF IInv
  <1> QED
    BY <1>1, InvAlways, PTL

\* Between interrupts an active operation always has something that will call
\* interrupt(), whatever the budget, the timeouts and the order of alarms, pends
\* and submissions.
THEOREM OperationsNeverStall == Spec => []NeverStalls
  <1>1. IInv => NeverStalls
    BY Zenon DEF IInv, Waiting, Awaited, NeverStalls
  <1> QED
    BY <1>1, InvAlways, PTL
=============================================================================
