------------------------------ MODULE LogQueue ------------------------------
(***************************************************************************)
(* The fixed-capacity FIFO of core/queue/queue.hpp and its two shared      *)
(* uses: the logger's record buffer (core/logging/logger.hpp), written     *)
(* from tasks and interrupts and drained by the scheduler, and             *)
(* ThreadSafeQueue, guarded by a mutex that is only ever tried or, where   *)
(* the platform has none, by a critical section.                           *)
(*                                                                         *)
(* A Guard makes the code under it one step.  Between two guarded parts of *)
(* one call, and anywhere while only a mutex is held, another context may  *)
(* run.  A logging interrupt runs to completion before the task goes on.   *)
(***************************************************************************)
EXTENDS Integers, Sequences

CONSTANTS
  QuCapacity,      \* Capacity of both queues
  LgMessageSize,   \* MessageSize, the terminator included
  LgLengths,       \* formatted lengths, -1 for a format that fails
  LgSubscribers,   \* the subscriber list: for each, whether it has a write callback
  LgMaxWrites,     \* bound: calls of Logger::write
  TqMaxCalls       \* bound: calls on the thread-safe queue

\* A Queue has at least one slot and a record room for its terminator.
ASSUME QuAssumption ==
  /\ QuCapacity \in Nat \ {0} /\ LgMessageSize \in Nat \ {0}
  /\ LgLengths \subseteq Int /\ LgSubscribers \in Seq(BOOLEAN)

VARIABLES
  lgRecords,   \* records_
  lgMinimum,   \* minimum_
  lgCounters,  \* counters_
  lgWriting,   \* per context, the record between the filter and the push
  lgView,      \* the record dispatch() delivers, and the next subscriber
  lgWrites,    \* calls of write() so far
  lgAccepted,  \* every record queued, in order
  lgSeen,      \* what each subscriber was given, in order
  tqQueue,     \* queue_
  tqMutex,     \* whether the platform supplies a mutex (fixed)
  tqHolder,    \* who holds the mutex
  tqAt,        \* per context, the call under way
  tqCalls,     \* calls so far
  tqPushed, tqPopped   \* what was queued since the last clear, what was taken

lgVars == <<lgRecords, lgMinimum, lgCounters, lgWriting, lgView, lgWrites, lgAccepted, lgSeen>>
tqVars == <<tqQueue, tqMutex, tqHolder, tqAt, tqCalls, tqPushed, tqPopped>>
quVars == <<lgVars, tqVars>>

QuContexts == {"task", "interrupt"}
QuLevels == {"info", "error"}

QuNone == [id |-> 0]

-----------------------------------------------------------------------------
(* Queue *)

QuEmpty == [items |-> [i \in 0..(QuCapacity - 1) |-> QuNone], head |-> 0, count |-> 0]

QuFull(q) == q.count = QuCapacity

\* The two halves of push: the copy to the tail, then the count.
QuStoredFront(q, item) == [q EXCEPT !.items[q.count] = item]   \* mutant: forgets the head

QuStored(q, item) == [q EXCEPT !.items[(q.head + q.count) % QuCapacity] = item]

QuCounted(q) == [q EXCEPT !.count = @ + 1]

QuPush(q, item) == QuCounted(QuStored(q, item))

\* pop copies items_[head_] and then advances.
QuHead(q) == q.items[q.head]

QuAdvanced(q) == [q EXCEPT !.head = (@ + 1) % QuCapacity, !.count = @ - 1]

QuCleared(q) == [q EXCEPT !.head = 0, !.count = 0]

\* The queued items, oldest first.
QuContents(q) == [i \in 1..q.count |-> q.items[(q.head + i - 1) % QuCapacity]]

-----------------------------------------------------------------------------
(* Logger *)

LgInit ==
  /\ lgRecords = QuEmpty
  /\ lgMinimum = "info"
  /\ lgCounters = [dropped |-> 0, truncated |-> 0]
  /\ lgWriting = [c \in QuContexts |-> QuNone]
  /\ lgView = [record |-> QuNone, next |-> 0]
  /\ lgWrites = 0 /\ lgAccepted = <<>>
  /\ lgSeen = [s \in DOMAIN LgSubscribers |-> <<>>]

\* A context runs when it is not inside a write, and the task only when no
\* interrupt is.
LgRuns(c) == lgWriting[c] = QuNone /\ (c = "task" => lgWriting["interrupt"] = QuNone)

\* write() up to its first guard: the record is stamped, and filtered.
LgWrite(c, level, length) ==
  /\ LgRuns(c) /\ lgWrites < LgMaxWrites
  /\ lgWrites' = lgWrites + 1
  /\ lgWriting' = IF (lgMinimum = "error" /\ level = "info") \/ LgSubscribers = <<>>
                  THEN lgWriting
                  ELSE [lgWriting EXCEPT ![c] = [id |-> lgWrites + 1, length |-> length]]
  /\ UNCHANGED <<lgRecords, lgMinimum, lgCounters, lgView, lgAccepted, lgSeen>>

\* The formatted record under the second guard: dropped when the queue is full,
\* shortened when the text does not fit.  A failed format is not queued.
LgPush(c) ==
  LET record    == lgWriting[c]
      truncated == record.length >= LgMessageSize
      stored    == [record EXCEPT !.length = IF truncated THEN LgMessageSize - 1 ELSE @]
  IN /\ record # QuNone
     /\ c = "task" => lgWriting["interrupt"] = QuNone
     /\ lgWriting' = [lgWriting EXCEPT ![c] = QuNone]
     /\ \/ /\ record.length < 0
           /\ UNCHANGED <<lgRecords, lgCounters, lgAccepted>>
        \/ /\ record.length >= 0 /\ QuFull(lgRecords)
           /\ lgCounters' = [lgCounters EXCEPT !.dropped = @ + 1]
           /\ UNCHANGED <<lgRecords, lgAccepted>>
        \/ /\ record.length >= 0 /\ ~QuFull(lgRecords)
           /\ lgCounters' = [lgCounters EXCEPT !.truncated = @ + (IF truncated THEN 1 ELSE 0)]
           /\ lgRecords' = QuPush(lgRecords, stored)
           /\ lgAccepted' = Append(lgAccepted, stored)
     /\ UNCHANGED <<lgMinimum, lgView, lgWrites, lgSeen>>

\* dispatch(), called by the scheduler and in a loop by flush(): pop under the guard.
LgDispatch ==
  /\ LgRuns("task") /\ lgView.next = 0 /\ lgRecords.count > 0
  /\ lgView' = [record |-> QuHead(lgRecords), next |-> 1]
  /\ lgRecords' = QuAdvanced(lgRecords)
  /\ UNCHANGED <<lgMinimum, lgCounters, lgWriting, lgWrites, lgAccepted, lgSeen>>

\* One subscriber's callback, outside the guard; it may itself write.
LgDeliver ==
  LET s == lgView.next IN
  /\ LgRuns("task") /\ s # 0
  /\ lgSeen' = IF LgSubscribers[s] THEN [lgSeen EXCEPT ![s] = Append(@, lgView.record)] ELSE lgSeen
  /\ lgView' = IF s = Len(LgSubscribers) THEN [record |-> QuNone, next |-> 0]
                                         ELSE [lgView EXCEPT !.next = @ + 1]
  /\ UNCHANGED <<lgRecords, lgMinimum, lgCounters, lgWriting, lgWrites, lgAccepted>>

\* minimum(level): leaves the queued records.
LgSetMinimum(level) ==
  /\ LgRuns("task") /\ lgMinimum' = level
  /\ UNCHANGED <<lgRecords, lgCounters, lgWriting, lgView, lgWrites, lgAccepted, lgSeen>>

\* reset(): the counters only.
LgReset ==
  /\ LgRuns("task") /\ lgCounters' = [dropped |-> 0, truncated |-> 0]
  /\ UNCHANGED <<lgRecords, lgMinimum, lgWriting, lgView, lgWrites, lgAccepted, lgSeen>>

-----------------------------------------------------------------------------
(* ThreadSafeQueue *)

TqIdle == [step |-> "idle", op |-> "none", item |-> QuNone]

TqInit ==
  /\ tqQueue = QuEmpty
  /\ tqMutex \in BOOLEAN
  /\ tqHolder = "none"
  /\ tqAt = [c \in QuContexts |-> TqIdle]
  /\ tqCalls = 0 /\ tqPushed = <<>> /\ tqPopped = <<>>

\* An operation on the ring by itself: what it leaves, and what it is known to
\* have queued and taken.  A full push, an empty pop or peek, and the queries
\* size(), empty() and full() leave everything.
TqDo(op, item) ==
  \/ /\ op = "push" /\ ~QuFull(tqQueue)
     /\ tqQueue' = QuPush(tqQueue, item)
     /\ tqPushed' = Append(tqPushed, item) /\ UNCHANGED tqPopped
  \/ /\ op = "pop" /\ tqQueue.count > 0
     /\ tqQueue' = QuAdvanced(tqQueue)
     /\ tqPopped' = Append(tqPopped, QuHead(tqQueue)) /\ UNCHANGED tqPushed
  \/ /\ op = "clear"
     /\ tqQueue' = QuCleared(tqQueue)
     /\ tqPushed' = tqPopped /\ UNCHANGED tqPopped
  \/ /\ \/ op \in {"peek", "query"}
        \/ op = "push" /\ QuFull(tqQueue)
        \/ op = "pop" /\ tqQueue.count = 0
     /\ UNCHANGED <<tqQueue, tqPushed, tqPopped>>

TqTryLockAnyway(c, op) ==   \* mutant: goes on when the mutex is taken
  /\ tqHolder' = c
  /\ tqAt' = [tqAt EXCEPT ![c] = [step |-> "locked", op |-> op, item |-> [id |-> tqCalls + 1]]]

\* A single try_lock: busy changes nothing.
TqTryLock(c, op) ==
  IF tqHolder # "none" THEN UNCHANGED <<tqHolder, tqAt>>
  ELSE /\ tqHolder' = c
       /\ tqAt' = [tqAt EXCEPT ![c] = [step |-> "locked", op |-> op, item |-> [id |-> tqCalls + 1]]]

\* WithLock: under the mutex when there is one, else in a critical section.
TqCall(c, op) ==
  /\ tqAt[c] = TqIdle /\ tqCalls < TqMaxCalls
  /\ tqCalls' = tqCalls + 1
  /\ \/ tqMutex /\ TqTryLock(c, op) /\ UNCHANGED <<tqQueue, tqPushed, tqPopped>>
     \/ ~tqMutex /\ TqDo(op, [id |-> tqCalls + 1]) /\ UNCHANGED <<tqHolder, tqAt>>
  /\ UNCHANGED tqMutex

\* function() under the mutex, first half: the check and the copy.
TqCopy(c) ==
  LET op == tqAt[c].op IN
  /\ tqAt[c].step = "locked"
  /\ \/ /\ op = "push" /\ ~QuFull(tqQueue)
        /\ tqQueue' = QuStored(tqQueue, tqAt[c].item)
        /\ tqAt' = [tqAt EXCEPT ![c].step = "copied"]
     \/ /\ op = "pop" /\ tqQueue.count > 0
        /\ tqAt' = [tqAt EXCEPT ![c].step = "copied", ![c].item = QuHead(tqQueue)]
        /\ UNCHANGED tqQueue
     \/ /\ \/ op \in {"peek", "query"}
           \/ op = "push" /\ QuFull(tqQueue)
           \/ op = "pop" /\ tqQueue.count = 0
        /\ tqAt' = [tqAt EXCEPT ![c].step = "done"]
        /\ UNCHANGED tqQueue
     \/ /\ op = "clear"
        /\ tqAt' = [tqAt EXCEPT ![c].step = "copied"]
        /\ UNCHANGED tqQueue
  /\ UNCHANGED <<tqMutex, tqHolder, tqCalls, tqPushed, tqPopped>>

\* Second half: head_ and count_.
TqIndex(c) ==
  LET op == tqAt[c].op IN
  /\ tqAt[c].step = "copied"
  /\ tqQueue' = CASE op = "push" -> QuCounted(tqQueue)
                  [] op = "pop"  -> QuAdvanced(tqQueue)
                  [] op = "clear" -> QuCleared(tqQueue)
  /\ tqPushed' = CASE op = "push" -> Append(tqPushed, tqAt[c].item)
                   [] op = "clear" -> tqPopped
                   [] OTHER -> tqPushed
  /\ tqPopped' = IF op = "pop" THEN Append(tqPopped, tqAt[c].item) ELSE tqPopped
  /\ tqAt' = [tqAt EXCEPT ![c].step = "done"]
  /\ UNCHANGED <<tqMutex, tqHolder, tqCalls>>

TqUnlock(c) ==
  /\ tqAt[c].step = "done"
  /\ tqHolder' = "none"
  /\ tqAt' = [tqAt EXCEPT ![c] = TqIdle]
  /\ UNCHANGED <<tqQueue, tqMutex, tqCalls, tqPushed, tqPopped>>

-----------------------------------------------------------------------------
QuInit == LgInit /\ TqInit

LgNext ==
  \/ \E c \in QuContexts, l \in QuLevels, n \in LgLengths : LgWrite(c, l, n)
  \/ \E c \in QuContexts : LgPush(c)
  \/ LgDispatch \/ LgDeliver \/ LgReset
  \/ \E l \in QuLevels : LgSetMinimum(l)

TqNext ==
  \E c \in QuContexts :
    \/ \E op \in {"push", "pop", "peek", "clear", "query"} : TqCall(c, op)
    \/ TqCopy(c) \/ TqIndex(c) \/ TqUnlock(c)

\* The two uses share no state: a behaviour of one leaves the other at rest.
QuNext ==
  \/ LgNext /\ tqCalls = 0 /\ UNCHANGED tqVars
  \/ TqNext /\ lgWrites = 0 /\ UNCHANGED lgVars

QuSpec == QuInit /\ [][QuNext]_quVars

-----------------------------------------------------------------------------
\* Every subscriber with a callback is given exactly the accepted records, each
\* once and in the order they were queued, whichever contexts wrote them and
\* whatever was written while another record was being delivered: what it has
\* seen, the record still on its way to it and the queue make up all that was
\* accepted.
LgDelivered ==
  \A s \in DOMAIN LgSubscribers : LgSubscribers[s] =>
    lgAccepted = lgSeen[s]
                 \o (IF lgView.next # 0 /\ lgView.next <= s THEN <<lgView.record>> ELSE <<>>)
                 \o QuContents(lgRecords)

\* Whenever nobody is inside a call, what the thread-safe queue gave out and
\* what it still holds are what was pushed since the last clear, in order.
TqFifo ==
  (\A c \in QuContexts : tqAt[c] = TqIdle) => tqPushed = tqPopped \o QuContents(tqQueue)

\* No accepted item is lost, repeated or reordered in either queue, across a
\* wrap of the ring and under every interleaving of the contexts that use it.
QuOrdered == LgDelivered /\ TqFifo
=============================================================================
