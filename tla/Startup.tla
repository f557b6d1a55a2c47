------------------------------ MODULE Startup ------------------------------
(***************************************************************************)
(* How an application comes up: BusRegistry::init of lib/hal/registry.hpp   *)
(* brings up the controllers of its buses, and Application::init and run of *)
(* lib/core/schedule/application.hpp bring up the modules, then the command *)
(* sources, then the dispatch loop.                                         *)
(*                                                                         *)
(* One thread makes these calls, in any order and as often as it likes.  A  *)
(* step is the initialization of one controller or one stage of a module:   *)
(* each may fail.  The dispatch loop itself is Scheduler's.                 *)
(***************************************************************************)
EXTENDS Naturals, Sequences, FiniteSetsExt

CONSTANTS
    RgTables,     \* sequences of [identity, pins, valid]: what may be bound
    ApModules,    \* number of modules
    ApRoutes      \* the names of the modules' commands, in their order

ASSUME StAssumption ==
    /\ ApModules \in Nat \ {0} /\ \A r \in ApRoutes : Len(r) = ApModules
    /\ \A t \in RgTables : Len(t) > 0

VARIABLES
    rgTable,      \* bindings_; constant
    rgUp,         \* the controllers that are initialized_
    rgLive,       \* the controllers whose peripheral is enabled
    rgOwn,        \* the controllers the application brought up by itself
    rgInit,       \* initialized_ of the registry
    rgFailure,    \* failure_: its entry, 0 when there is none
    rgAt,         \* the controller init is at, 0 outside init
    apRoute,      \* Route of each module; constant
    apCall,       \* the call under way: "none", "init" or "run"
    apLife,       \* lifecycle_ of the scheduler
    apStage,      \* the stage init is in
    apAt,         \* the module init is at
    apDone,       \* the stages each module has completed
    apBound,      \* the command sources are bound
    apInit,       \* initialized_
    apUsed,       \* used_
    apClash,      \* commands_failure_ is set
    apFailure     \* initialization_failure_ of the scheduler

rgVars == <<rgTable, rgUp, rgLive, rgOwn, rgInit, rgFailure, rgAt>>
apVars == <<apRoute, apCall, apLife, apStage, apAt, apDone, apBound, apInit,
            apUsed, apClash, apFailure>>
stVars == <<rgVars, apVars>>

RgEntries == 1 .. Len(rgTable)
ApAll == 1 .. ApModules
ApOk == [module |-> 0, stage |-> 0, ok |-> TRUE]

StTypeOK ==
    /\ {rgUp, rgLive, rgOwn} \subseteq SUBSET RgEntries
    /\ {rgAt, rgFailure} \subseteq 0 .. Len(rgTable)
    /\ {rgInit, apBound, apInit, apUsed, apClash} \subseteq BOOLEAN
    /\ apCall \in {"none", "init", "run"}
    /\ apLife \in {"fresh", "initializing", "ready", "running", "stopped", "failed"}
    /\ apStage \in 1 .. 2 /\ apAt \in ApAll /\ apDone \in [ApAll -> 0 .. 2]

StInit ==
    /\ rgTable \in RgTables /\ rgUp = {} /\ rgLive = {} /\ rgOwn = {}
    /\ rgInit = FALSE /\ rgFailure = 0 /\ rgAt = 0
    /\ apRoute \in ApRoutes
    /\ apCall = "none" /\ apLife = "fresh" /\ apStage = 1 /\ apAt = 1
    /\ apDone = [m \in ApAll |-> 0]
    /\ apBound = FALSE /\ apInit = FALSE /\ apUsed = FALSE /\ apClash = FALSE
    /\ apFailure = ApOk

-----------------------------------------------------------------------------
(* The registry of buses.                                                  *)

\* The pins listed before the k-th of entry i, those of its own list included.
RgPinsBefore(i, k) ==
    UNION {{rgTable[j].pins[l] : l \in DOMAIN rgTable[j].pins} : j \in 1 .. i - 1}
    \union {rgTable[i].pins[l] : l \in 1 .. k - 1}

\* Mutant: pins are compared within a controller only, which validate does.
RgSoundAlone(i) ==
    rgTable[i].valid /\ \A j \in 1 .. i - 1 : rgTable[j].identity # rgTable[i].identity

\* A valid table, a peripheral nobody has bound before, chip selects (0: none)
\* nobody has listed before.
RgSound(i) ==
    /\ rgTable[i].valid
    /\ \A j \in 1 .. i - 1 : rgTable[j].identity # rgTable[i].identity
    /\ \A k \in DOMAIN rgTable[i].pins :
         rgTable[i].pins[k] = 0 \/ rgTable[i].pins[k] \notin RgPinsBefore(i, k)

\* init: every table is checked before any controller is touched; the first
\* bad entry is the failure.  A registry that is up refuses.
RgValidate ==
    /\ rgAt = 0 /\ apCall = "none" /\ ~rgInit
    /\ LET bad == {i \in RgEntries : ~RgSound(i)} IN
       IF bad = {} THEN rgFailure' = 0 /\ rgAt' = 1
       ELSE rgFailure' = Min(bad) /\ rgAt' = 0
    /\ UNCHANGED <<rgTable, rgUp, rgLive, rgOwn, rgInit, apVars>>

\* Controller::init succeeds.
RgInitialized ==
    /\ rgAt # 0 /\ rgAt \notin rgUp
    /\ rgUp' = rgUp \union {rgAt} /\ rgLive' = rgLive \union {rgAt}
    /\ rgAt' = IF rgAt = Len(rgTable) THEN 0 ELSE rgAt + 1
    /\ rgInit' = (rgAt = Len(rgTable))
    /\ UNCHANGED <<rgTable, rgOwn, rgFailure, apVars>>

\* Mutant: the entry that failed is taken down as well.
RgTakenDownToo(entry) == 1 .. entry

\* The controllers a failure takes down: those before it.
RgTakenDown(entry) == 1 .. entry - 1

\* Controller::init fails: busy when it is up already, or its backend does not
\* start and is disabled again.  What this init has brought up is taken down.
RgFails ==
    /\ rgAt # 0
    /\ rgFailure' = rgAt /\ rgAt' = 0
    /\ rgUp' = rgUp \ RgTakenDown(rgAt)
    /\ rgLive' = (rgLive \ RgTakenDown(rgAt)) \ (IF rgAt \in rgUp THEN {} ELSE {rgAt})
    /\ UNCHANGED <<rgTable, rgOwn, rgInit, apVars>>

\* The application initializes a controller by itself.
RgDirect(i) ==
    /\ rgAt = 0 /\ apCall = "none" /\ i \notin rgUp /\ rgTable[i].valid
    /\ rgUp' = rgUp \union {i} /\ rgLive' = rgLive \union {i}
    /\ rgOwn' = rgOwn \union {i}
    /\ UNCHANGED <<rgTable, rgInit, rgFailure, rgAt, apVars>>

-----------------------------------------------------------------------------
(* The application.                                                        *)

\* validate of the dispatcher: valid names, none of them help, no two alike
\* (case aside).
ApRoutesValid ==
    \A i \in ApAll :
        /\ apRoute[i] \notin {"invalid", "help"}
        /\ \A j \in 1 .. i - 1 : apRoute[i] # apRoute[j]

\* The scheduler runs when it is ready; run() then does not return until it
\* stops.
ApLoop == apLife' = "running" /\ apCall' = "run"

\* Mutant: the routes are left to the binding of the sources.
ApBeginUnchecked(call) ==
    /\ UNCHANGED apClash
    /\ IF apLife = "fresh"
       THEN apLife' = "initializing" /\ apCall' = call
       ELSE apCall' = "none" /\ UNCHANGED apLife

\* init(): an earlier clash of routes is reported again; a new one is
\* recorded, and no module starts.  A scheduler that is not fresh reports
\* what it is.
ApBegin(call) ==
    IF apClash \/ ~ApRoutesValid
    THEN apClash' = TRUE /\ apCall' = "none" /\ UNCHANGED apLife
    ELSE /\ UNCHANGED apClash
         /\ IF apLife = "fresh"
            THEN apLife' = "initializing" /\ apCall' = call
            ELSE apCall' = "none" /\ UNCHANGED apLife

ApCallsInit ==
    /\ rgAt = 0 /\ apCall = "none"
    /\ ApBegin("init")
    /\ UNCHANGED <<rgVars, apRoute, apStage, apAt, apDone, apBound, apInit,
                   apUsed, apFailure>>

\* run(): once; it initializes what is not initialized yet.
ApCallsRun ==
    /\ rgAt = 0 /\ apCall = "none" /\ ~apUsed
    /\ apUsed' = TRUE
    /\ IF apInit THEN ApLoop /\ UNCHANGED apClash ELSE ApBegin("run")
    /\ UNCHANGED <<rgVars, apRoute, apStage, apAt, apDone, apBound, apInit,
                   apFailure>>

\* After stage 2 the sources are bound, their routes checked once more.
ApBind ==
    /\ apBound' = ApRoutesValid /\ apInit' = ApRoutesValid
    /\ IF apCall = "run" /\ ApRoutesValid THEN ApLoop
       ELSE apLife' = "ready" /\ apCall' = "none"

\* init(stage) of one module succeeds.
ApModuleStarts ==
    /\ apLife = "initializing"
    /\ apDone' = [apDone EXCEPT ![apAt] = apStage]
    /\ IF apAt < ApModules
       THEN apAt' = apAt + 1 /\ UNCHANGED <<apStage, apCall, apLife, apBound, apInit>>
       ELSE /\ apAt' = 1
            /\ IF apStage = 1
               THEN apStage' = 2 /\ UNCHANGED <<apCall, apLife, apBound, apInit>>
               ELSE apStage' = 1 /\ ApBind
    /\ UNCHANGED <<rgVars, apRoute, apUsed, apClash, apFailure>>

\* init(stage) of one module fails, or the registration is rejected before
\* any module starts (module 0); the first failure stays.
ApModuleFails(m) ==
    /\ apLife = "initializing"
    /\ m = apAt \/ (m = 0 /\ apStage = 1 /\ apAt = 1)
    /\ apFailure' = [module |-> m, stage |-> IF m = 0 THEN 0 ELSE apStage, ok |-> FALSE]
    /\ apLife' = "failed" /\ apCall' = "none" /\ apStage' = 1 /\ apAt' = 1
    /\ UNCHANGED <<rgVars, apRoute, apDone, apBound, apInit, apUsed, apClash>>

\* The dispatch loop ends.
ApStops ==
    /\ apLife = "running"
    /\ apLife' = "stopped" /\ apCall' = "none"
    /\ UNCHANGED <<rgVars, apRoute, apStage, apAt, apDone, apBound, apInit,
                   apUsed, apClash, apFailure>>

StNext ==
    \/ RgValidate \/ RgInitialized \/ RgFails \/ \E i \in RgEntries : RgDirect(i)
    \/ ApCallsInit \/ ApCallsRun \/ ApModuleStarts \/ ApStops
    \/ \E m \in 0 .. ApModules : ApModuleFails(m)

StSpec == StInit /\ [][StNext]_stVars

-----------------------------------------------------------------------------
(* Properties.                                                             *)

\* Outside its init a registry is all or nothing: up with every controller,
\* no two of them sharing a peripheral or a chip select, or down with only
\* those the application brought up by itself, which a failed attempt leaves
\* alone, however often it is repeated.  A peripheral is enabled exactly while
\* its controller is initialized.
RgAllOrNothing ==
    /\ rgLive = rgUp
    /\ rgAt = 0 /\ ~rgInit => rgUp = rgOwn
    /\ rgInit => rgUp = RgEntries /\ rgFailure = 0
    /\ rgInit \/ rgAt # 0 =>
         \A i, j \in RgEntries : i # j =>
            /\ rgTable[i].identity # rgTable[j].identity
            /\ \A k \in DOMAIN rgTable[i].pins, l \in DOMAIN rgTable[j].pins :
                 rgTable[i].pins[k] = rgTable[j].pins[l] => rgTable[i].pins[k] = 0

\* Commands arrive, and the loop runs, only when every module has completed
\* both stages; stage 2 of a module follows stage 1 of all; routes that clash
\* start no module; a run that never started has a failure to report, and the
\* report names the stage that failed: modules before it had completed it.
ApOrderly ==
    /\ apBound \/ apLife \in {"ready", "running", "stopped"} =>
         apBound /\ \A m \in ApAll : apDone[m] = 2
    /\ (\E m \in ApAll : apDone[m] = 2) => \A m \in ApAll : apDone[m] >= 1
    /\ (\E i, j \in ApAll : i # j /\ apRoute[i] = apRoute[j]) =>
         \A m \in ApAll : apDone[m] = 0
    /\ apUsed /\ apCall = "none" /\ apLife # "stopped" => apClash \/ ~apFailure.ok
    /\ ~apFailure.ok /\ apFailure.module # 0 =>
         \A m \in ApAll :
            apDone[m] = IF m < apFailure.module THEN apFailure.stage
                        ELSE apFailure.stage - 1

\* Bringing the application up.
StOrderly == StTypeOK /\ RgAllOrNothing /\ ApOrderly

=============================================================================
