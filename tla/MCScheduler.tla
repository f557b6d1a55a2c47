----------------------------- MODULE MCScheduler -----------------------------
(* Small instances of Scheduler: the values the .cfg files name.           *)
EXTENDS Scheduler, TLC

OnePeriodic  == <<1>>
MixedPeriods == <<1, 0>>
NoPeriod     == <<0>>

\* The scheduler compares callbacks for equality only.
CallbackSymmetry == Permutations(Callbacks)
==============================================================================
