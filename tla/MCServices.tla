------------------------------ MODULE MCServices -----------------------------
(***************************************************************************)
(* Small instances of the file service, the SD card session below it, the  *)
(* sources of an update and the health service.  One behaviour is about    *)
(* one of them.                                                            *)
(***************************************************************************)
EXTENDS FileService, SdSession, UpdateSources, Health

VARIABLE service   \* the one that runs; constant

allVars == <<service, fsVars, sdVars, upVars, hlVars>>

\* Clients that come and go; a client and the reader of an update while the service
\* stops; a client against a command; commands against the reader.
Loads == {
    [sessions |-> 2, commands |-> 0, asks |-> {}, reads |-> FALSE, stops |-> FALSE],
    [sessions |-> 1, commands |-> 0, asks |-> {}, reads |-> TRUE, stops |-> TRUE],
    [sessions |-> 1, commands |-> 1, asks |-> {"mount", "unmount", "create", "remove"},
     reads |-> FALSE, stops |-> FALSE],
    [sessions |-> 0, commands |-> 2, asks |-> WkOperations, reads |-> TRUE, stops |-> FALSE]}
AnyLoad == CHOOSE load \in Loads : TRUE

\* The supervised tasks' periods.
Periods == [beat |-> 2, check |-> 2, work |-> 3]

\* A service that does not run is in one of its initial states.
MCInit ==
    /\ service \in {"files", "card", "update", "health"}
    /\ fsLoad \in IF service = "files" THEN Loads ELSE {AnyLoad}
    /\ fsMounted \in IF service = "files" THEN BOOLEAN ELSE {FALSE}
    /\ FsInit /\ (service # "files" => ~fsWritable)
    /\ sdProbe \in IF service = "card" THEN BOOLEAN ELSE {FALSE}
    /\ SdInitial
    /\ UpInit
    /\ hlBoard \in IF service = "health" THEN {"h5", "h7"} ELSE {"h5"}
    /\ HlInit

MCNext ==
    /\ UNCHANGED service
    /\ \/ service = "files" /\ FsNext /\ UNCHANGED <<sdVars, upVars, hlVars>>
       \/ service = "card" /\ SdNext /\ UNCHANGED <<fsVars, upVars, hlVars>>
       \/ service = "update" /\ UpNext /\ UNCHANGED <<fsVars, sdVars, hlVars>>
       \/ service = "health" /\ HlNext /\ UNCHANGED <<fsVars, sdVars, upVars>>

\* The state of the service that runs, and a step of it.
running ==
    CASE service = "files" -> fsVars [] service = "card" -> sdVars
      [] service = "update" -> upVars [] service = "health" -> hlVars
Files(A) == service = "files" /\ service' = service /\ UNCHANGED fsLoad /\ A
Card(A) == service = "card" /\ service' = service /\ A
Upd(A) == service = "update" /\ service' = service /\ A
Hlth(A) == service = "health" /\ service' = service /\ A

\* The fairness of each module, for the service that runs: service is constant,
\* so fairness of a disjunction is fairness of the disjunct that service names.
MCFairness ==
    /\ WF_running(Files(WkStep) \/ Card(SdTick) \/ Upd(EnPoll) \/ Hlth(HlTick))
    /\ WF_running(Files(FtTaskStep) \/ Card(SdAccessStep) \/ Upd(SrvPoll) \/ Hlth(HlWarn))
    /\ WF_running(Card(SdBusCompletes) \/ Upd(FuStep))
    /\ WF_running(Card(SdResetCompletes))

MCSpec == MCInit /\ [][MCNext]_allVars /\ MCFairness

\* What the service that runs still has to bring to an end.
Unfinished == FtHolds \/ SdProbing \/ FuCancelling \/ SrvStray \/ HlHung

\* What was begun ends.  A client that leaves, however far its transfer was, does
\* not keep the volume, and a service that was asked to stop stops; a probe or
\* reset of the card ends; a file update that was cancelled and an upload whose
\* client left end; a task that hangs is ended by a reset.
ServicesEnd == Unfinished ~> ~Unfinished
==============================================================================
