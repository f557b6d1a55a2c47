---------------------------- MODULE AtomicSnapshot ----------------------------
(***************************************************************************)
(* What the journal of lib/boot promises its callers: one durable snapshot *)
(* that a commit replaces atomically.  A commit that fails, times out or   *)
(* is cut short by a power loss has either happened completely or not at   *)
(* all, and no failure brings an older snapshot back.                      *)
(***************************************************************************)
EXTENDS Integers

CONSTANTS MaxSequence, MaxCounter

VARIABLES
    current,     \* the snapshot load() returns
    proposed     \* the snapshot a commit may still make durable, or Nothing

Snapshot == [sequence : 1..MaxSequence, counter : 0..MaxCounter]
Nothing  == [sequence |-> 0, counter |-> 0]

Init == /\ current \in Snapshot
        /\ proposed = Nothing

\* A commit numbers its snapshot after the durable one and never reduces the
\* installation counter.
Propose == /\ proposed = Nothing
           /\ \E s \in Snapshot : /\ s.sequence = current.sequence + 1
                                  /\ s.counter >= current.counter
                                  /\ proposed' = s
           /\ UNCHANGED current

Land    == /\ proposed # Nothing
           /\ current' = proposed /\ proposed' = Nothing

Abandon == /\ proposed # Nothing
           /\ proposed' = Nothing /\ UNCHANGED current

Next == Propose \/ Land \/ Abandon

Spec == Init /\ [][Next]_<<current, proposed>>
===============================================================================
