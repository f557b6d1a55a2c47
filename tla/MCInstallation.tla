---------------------------- MODULE MCInstallation ----------------------------
(***************************************************************************)
(* Small instances of the installation model for TLC.                      *)
(***************************************************************************)
EXTENDS Installation

\* One image of two blocks in two sectors, from packages of right and wrong
\* lengths.
Upload == [blocks |-> 2, totals |-> {1, 2, 3}, counter |-> 2]

\* Several installations of small images from alternating slots.
Repeat == [blocks |-> 1, totals |-> {1}, counter |-> 3]

BothCases  == {Upload, Repeat}
RepeatOnly == {Repeat}
===============================================================================
