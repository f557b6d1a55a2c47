---------------------------- MODULE UpdateSources ----------------------------
(***************************************************************************)
(* The two sources of a firmware update and their shared engine: the TCP   *)
(* update server with its framed protocol (lib/net/update.cpp,             *)
(* lib/update/protocol.cpp), the installation from a file                  *)
(* (lib/update/file.cpp) and the commands and tasks that drive them        *)
(* (lib/update/module.hpp).                                                *)
(*                                                                         *)
(* Abstracted: the engine (Installation.tla has it in full) to who began   *)
(* the upload, how many chunks it has, and its phases; the stream          *)
(* (TcpServer.tla) to fragments of the connected client, of which a frame  *)
(* has a header of two and a payload of at most one; the file system       *)
(* (FileService.tla) to calls that succeed or fail and may yield.          *)
(***************************************************************************)
EXTENDS Integers

CONSTANTS
    UpChunks,       \* chunks of a package
    UpMaxClients,   \* bound on the connections
    UpMaxCommands,  \* bound on the console commands
    UpMaxInputs     \* bound on both together

VARIABLES
    en,         \* update::Engine
    enBy,       \* who began the last upload (history)
    srv,        \* UpdateServer, its TcpServer's session and the client's bytes
    pr,         \* Protocol
    fu,         \* FileUpdate
    fuPc,       \* where FilePoll is: outside, or in a call of the source
    fuDue,      \* FilePoll is scheduled
    fuSource,   \* the source is reserved for the update
    upCommands  \* commands so far (history)

upVars == <<en, enBy, srv, pr, fu, fuPc, fuDue, fuSource, upCommands>>
enVars == <<en, enBy>>
netUpVars == <<srv, pr>>
fuVars == <<fu, fuPc, fuDue, fuSource>>

UpClients == 1 .. UpMaxClients
UpNobody == 0
UpFile == UpMaxClients + 1

EnFresh == [state |-> "disabled", enabled |-> FALSE, owner |-> FALSE,
            requested |-> FALSE, abort |-> FALSE, received |-> 0, rx |-> FALSE]

PrFresh == [state |-> "header", filled |-> 0, length |-> 0, from |-> {},
            reset |-> FALSE, sent |-> FALSE, op |-> "none"]

FuFresh == [state |-> "idle", busy |-> FALSE, opened |-> FALSE,
            requested |-> FALSE, install |-> FALSE, cancel |-> FALSE,
            installing |-> FALSE, ok |-> TRUE, received |-> 0]

FuStates == {"idle", "opening", "header", "validating", "eof", "prepared",
             "rewind", "checking", "starting", "installing", "cleanup", "done",
             "failed"}

UpTypeOK ==
    /\ en \in [state : {"disabled", "idle", "invalidating", "receiving",
                        "finishing", "done", "aborting", "failed"},
               enabled : BOOLEAN, owner : BOOLEAN, requested : BOOLEAN,
               abort : BOOLEAN, received : 0 .. UpChunks, rx : BOOLEAN]
    /\ enBy \in 0 .. UpFile
    /\ srv.client \in 0 .. UpMaxClients /\ srv.in \in 0 .. 1
    /\ pr \in [state : {"header", "payload", "reply", "failed"}, filled : 0 .. 1,
               length : 0 .. 1, from : SUBSET UpClients, reset : BOOLEAN,
               sent : BOOLEAN,
               op : {"none", "begin", "data", "status", "abort", "reboot"}]
    /\ fu \in [state : FuStates, busy : BOOLEAN, opened : BOOLEAN,
               requested : BOOLEAN, install : BOOLEAN, cancel : BOOLEAN,
               installing : BOOLEAN, ok : BOOLEAN, received : 0 .. UpChunks]
    /\ fuPc \in {"idle", "call", "extra", "close"}
    /\ {fuDue, fuSource} \subseteq BOOLEAN

UpInit ==
    /\ en = EnFresh /\ enBy = UpNobody
    /\ srv = [client |-> 0, session |-> 0, seen |-> 0, in |-> 0, number |-> 0]
    /\ pr = PrFresh
    /\ fu = FuFresh /\ fuPc = "idle" /\ fuDue = FALSE /\ fuSource = FALSE
    /\ upCommands = 0

-----------------------------------------------------------------------------
\* The engine.

EnActive(e) == e.requested \/ e.state \notin {"disabled", "idle", "done", "failed"}
EnAuthorized(e) == e.enabled \/ e.owner
EnReady(e) == /\ EnAuthorized(e) /\ ~e.abort /\ e.state = "receiving" /\ ~e.rx
              /\ e.received < UpChunks

EnAbort(e) == IF EnActive(e) THEN [e EXCEPT !.abort = TRUE] ELSE e

\* begin(), past its check of the owner; the header, the journal and the flash
\* may refuse.
EnMayBegin(e) == EnAuthorized(e) /\ ~EnActive(e)
EnBegun(e) == [e EXCEPT !.requested = TRUE, !.abort = FALSE, !.received = 0,
                        !.rx = FALSE]

EnChunk(e) == [e EXCEPT !.rx = TRUE, !.received = @ + 1]

EnTo(state) == en' = [en EXCEPT !.state = state]

\* A malformed block, a flash error, inactivity, a failed commit.
EnFails == en' = [en EXCEPT !.abort = TRUE, !.state = "aborting"]

\* tick().
EnTick ==
    LET stopped == ~EnAuthorized(en) \/ en.abort IN
    \/ /\ en.state \in {"disabled", "idle", "done", "failed"}
       /\ IF en.requested
          THEN \E state \in {"invalidating", "failed"} :
                 en' = [en EXCEPT !.requested = FALSE, !.state = state]
          ELSE IF ~EnAuthorized(en) THEN EnTo("disabled")
          ELSE EnTo(IF en.state = "disabled" THEN "idle" ELSE en.state)
    \/ /\ en.state = "invalidating"
       /\ IF stopped THEN EnTo("aborting")
          ELSE EnTo("invalidating") \/ EnTo("receiving") \/ EnTo("failed")
    \/ /\ en.state = "receiving"
       /\ \/ stopped /\ EnTo("aborting")
          \/ ~stopped /\ en.rx /\ en' = [en EXCEPT !.rx = FALSE]
          \/ ~stopped /\ ~en.rx /\ en.received = UpChunks /\ EnTo("finishing")
          \/ ~stopped /\ (EnFails \/ UNCHANGED en)
    \/ /\ en.state = "finishing"
       /\ IF stopped THEN EnTo("aborting")
          ELSE EnTo("finishing") \/ EnTo("done") \/ EnFails
    \/ /\ en.state = "aborting"
       /\ \/ UNCHANGED en
          \/ en' = [en EXCEPT !.state = "failed", !.abort = FALSE, !.rx = FALSE]

-----------------------------------------------------------------------------
\* The protocol over one poll of the server.

\* Dispatch(): what a complete frame may make of the engine.
PrDispatch(e, op) ==
    IF e.owner THEN {e}
    ELSE CASE op = "begin" -> {e} \union (IF EnMayBegin(e) THEN {EnBegun(e)} ELSE {})
           [] op = "data" -> {e} \union (IF EnReady(e) THEN {EnChunk(e)} ELSE {})
           [] op = "abort" -> {EnAbort(e)}
           [] OTHER -> {e}

\* Operations with a payload, and without.
PrOperations == <<{"status", "abort", "reboot"}, {"begin", "data"}>>

\* Mutant: a frame that was cut off is completed by the next client.
PrResetKeeps(p) == [p EXCEPT !.reset = FALSE, !.sent = FALSE,
                             !.state = IF @ = "payload" THEN "payload" ELSE "header"]

\* Step() with reset_ set.
PrReset(p) == PrFresh

PrOutcome(p, e, used) == [pr |-> p, en |-> e, used |-> used]

\* Step() in the header: a frame that is not ours aborts the upload.
PrHeader(p, e, used) ==
    IF p.filled + used < 2 THEN {PrOutcome([p EXCEPT !.filled = @ + used], e, used)}
    ELSE {PrOutcome([p EXCEPT !.state = "failed"], EnAbort(e), used)}
         \union {PrOutcome([p EXCEPT !.filled = 0, !.length = length,
                                     !.state = "payload"], e, used) :
                     length \in 0 .. 1}

\* Step() in the payload.
PrPayload(p, e, used) ==
    IF used < p.length THEN {PrOutcome(p, e, used)}
    ELSE UNION {{PrOutcome([p EXCEPT !.state = "reply", !.op = op], f, used) :
                    f \in PrDispatch(e, op)} : op \in PrOperations[p.length + 1]}

\* One tick with the fragments that are available.
PrTick(p, e, available, client) ==
    LET used == CASE p.state = "header" -> available
                  [] p.state = "payload" -> IF p.length = 0 THEN 0 ELSE available
                  [] OTHER -> 0
        q == IF used > 0 THEN [p EXCEPT !.from = @ \union {client}] ELSE p
    IN  CASE p.reset -> {PrOutcome(PrReset(p), e, 0)}
          [] ~p.reset /\ p.state = "header" -> PrHeader(q, e, used)
          [] ~p.reset /\ p.state = "payload" -> PrPayload(q, e, used)
          [] ~p.reset /\ p.state = "reply" ->
                {PrOutcome(IF p.sent THEN PrFresh ELSE p, e, 0)}
          [] OTHER -> {PrOutcome(p, e, 0)}

\* TcpServer::stop(), as seen here.
SrvStopped(s) == [s EXCEPT !.client = 0, !.in = 0,
                           !.session = IF s.client = 0 THEN @ ELSE @ + 1]

\* stop()
SrvStop(s, e, p) ==
    /\ srv' = SrvStopped(s)
    /\ pr' = [p EXCEPT !.reset = TRUE]
    /\ en' = IF e.owner THEN e ELSE EnAbort(e)

\* Mutant: an upload goes on although its client left.
SrvLeftKeeps(e) == e

\* A new session: the network's own upload is abandoned.
SrvLeft(e) == IF e.owner THEN e ELSE EnAbort(e)

\* poll(), with or without room for the reply in the server's queue.
SrvPoll ==
    /\ IF ~en.enabled
       THEN SrvStop(srv, en, pr) /\ UNCHANGED enBy
       ELSE LET new == srv.session # srv.seen
                e == IF new THEN SrvLeft(en) ELSE en
                p == IF new THEN [pr EXCEPT !.reset = TRUE] ELSE pr
            IN  \E o \in PrTick(p, e, srv.in, srv.client) :
                LET s == [srv EXCEPT !.seen = srv.session, !.in = @ - o.used] IN
                /\ enBy' = IF o.en.requested /\ ~e.requested THEN srv.client ELSE enBy
                /\ \/ /\ o.pr.state # "failed" /\ srv' = s /\ en' = o.en
                      /\ \/ pr' = o.pr
                         \/ o.pr.state = "reply" /\ s.client # 0
                            /\ pr' = [o.pr EXCEPT !.sent = TRUE]
                   \/ o.pr.state = "failed" /\ SrvStop(s, o.en, o.pr)
    /\ UNCHANGED <<fuVars, upCommands>>

UpMore == srv.number + upCommands < UpMaxInputs

\* The client, and the network underneath.
SrvConnect ==
    /\ srv.client = 0 /\ en.enabled /\ UpMore /\ srv.number < UpMaxClients
    /\ srv' = [srv EXCEPT !.client = srv.number + 1, !.number = @ + 1,
                          !.session = @ + 1, !.in = 0]
    /\ UNCHANGED <<enVars, pr, fuVars, upCommands>>

SrvSend ==
    /\ srv.client # 0 /\ srv.in = 0
    /\ srv' = [srv EXCEPT !.in = 1]
    /\ UNCHANGED <<enVars, pr, fuVars, upCommands>>

SrvDisconnect ==
    /\ srv.client # 0 /\ srv' = SrvStopped(srv)
    /\ UNCHANGED <<enVars, pr, fuVars, upCommands>>

\* Poll() of the update module: the engine, then the transport; they touch
\* nothing in common in between, so they are two steps.
EnPoll == EnTick /\ UNCHANGED <<enBy, netUpVars, fuVars, upCommands>>

-----------------------------------------------------------------------------
\* FileUpdate.  Step() is a call of the source and its return, or one step.

FuReturn(f, state, ok) == [f EXCEPT !.state = state, !.ok = ok]

\* The tick is over: run again unless idle or waiting for "install".
FuEnds(f) ==
    /\ fu' = f /\ fuPc' = "idle"
    /\ fuDue' = (fuDue \/ (f.busy /\ f.state # "prepared"))

\* Mutant: an update that waits for "install" does not look for a cancellation.
FuCancelledLate(f) == f.cancel /\ f.state \notin {"cleanup", "prepared"}

\* Is a cancellation acted upon now?
FuCancelled(f) == f.cancel /\ f.state # "cleanup"

\* Does the state call the source?
FuCalls(f) ==
    \/ f.state \in {"opening", "header", "eof", "rewind", "checking"}
    \/ f.state = "validating" /\ f.received < UpChunks
    \/ f.state = "installing" /\ EnReady(en)
    \/ f.state = "cleanup" /\ ~EnActive(en) /\ f.opened

\* Mutant: a reservation is forgotten when the close fails.
FuReleaseOnSuccess(f) ==
    /\ fuSource' = (fuSource /\ ~f.ok)
    /\ en' = IF f.ok THEN [en EXCEPT !.owner = FALSE] ELSE en

\* The end of cleanup: both reservations are returned.
FuRelease(f) ==
    /\ fuSource' = FALSE
    /\ en' = [en EXCEPT !.owner = FALSE]

FuCleaned(f) ==
    /\ FuRelease(f)
    /\ FuEnds([f EXCEPT !.opened = FALSE, !.cancel = FALSE, !.busy = FALSE,
                        !.state = IF f.ok THEN "done" ELSE "failed"])

\* FilePoll(), up to the call of the source if there is one.
FuPoll ==
    /\ fuDue /\ fuPc = "idle" /\ fu.busy
    /\ \/ /\ FuCancelled(fu)
          /\ FuEnds([FuReturn(fu, "cleanup", FALSE) EXCEPT
                        !.cancel = FALSE, !.requested = FALSE, !.install = FALSE])
          /\ UNCHANGED <<en, enBy, fuSource>>
       \/ /\ ~FuCancelled(fu) /\ FuCalls(fu)
          /\ fuPc' = "call" /\ fuDue' = FALSE
          /\ UNCHANGED <<en, enBy, fu, fuSource>>
       \/ /\ ~FuCancelled(fu) /\ ~FuCalls(fu) /\ fuSource' = fuSource
          /\ \/ /\ fu.state \in {"idle", "done", "failed"} /\ fu.requested
                /\ FuEnds([fu EXCEPT !.requested = FALSE, !.state = "opening"])
                /\ UNCHANGED <<en, enBy>>
             \/ /\ fu.state = "validating" \* everything read: length and CRC
                /\ \E ok \in BOOLEAN :
                     FuEnds(FuReturn(fu, IF ok THEN "eof" ELSE "cleanup", ok))
                /\ UNCHANGED <<en, enBy>>
             \/ /\ fu.state = "prepared"
                /\ fu' = IF fu.install
                         THEN [fu EXCEPT !.install = FALSE, !.state = "rewind"]
                         ELSE fu
                /\ fuDue' = fu.install
                /\ UNCHANGED <<en, enBy, fuPc>>
             \/ /\ fu.state = "starting"
                /\ \/ /\ EnMayBegin(en)
                      /\ en' = EnBegun(en) /\ enBy' = UpFile
                      /\ FuEnds([fu EXCEPT !.installing = TRUE,
                                           !.state = "installing"])
                   \/ /\ FuEnds(FuReturn(fu, "cleanup", FALSE))
                      /\ UNCHANGED <<en, enBy>>
             \/ /\ fu.state = "installing" /\ ~EnActive(en)
                /\ FuEnds(FuReturn(fu, "cleanup", en.state = "done"))
                /\ UNCHANGED <<en, enBy>>
             \/ /\ fu.state = "installing" /\ EnActive(en)
                /\ FuEnds(fu) /\ UNCHANGED <<en, enBy>>
             \/ /\ fu.state = "cleanup" /\ EnActive(en)
                /\ en' = EnAbort(en) /\ FuEnds(fu) /\ UNCHANGED enBy
       \/ /\ ~FuCancelled(fu) /\ ~FuCalls(fu) /\ fu.state = "cleanup"
          /\ ~EnActive(en) /\ FuCleaned(fu) /\ UNCHANGED enBy
    /\ UNCHANGED <<netUpVars, upCommands>>

\* Mutant: the last chunk is treated like the others.
FuLastNot(e) == FALSE

\* Does the next chunk complete the package?
FuLast(e) == e.received + 1 = UpChunks

\* The source returns.
FuAfter == [opening |-> "header", eof |-> "prepared", rewind |-> "checking"]

FuCallReturns ==
    /\ fuPc = "call"
    /\ \/ /\ fu.state \in {"opening", "eof", "rewind"}
          /\ \E ok \in BOOLEAN :
                FuEnds([FuReturn(fu, IF ok THEN FuAfter[fu.state] ELSE "cleanup", ok)
                        EXCEPT !.opened = IF fu.state = "opening" THEN ok ELSE @])
          /\ UNCHANGED <<en, fuSource>>
       \/ /\ fu.state \in {"header", "checking"} \* partial, whole or refused
          /\ \E next \in {fu.state, "cleanup",
                          IF fu.state = "header" THEN "validating" ELSE "starting"} :
                FuEnds([FuReturn(fu, next, next # "cleanup") EXCEPT
                           !.received = IF next = "validating" THEN 0 ELSE @])
          /\ UNCHANGED <<en, fuSource>>
       \/ /\ fu.state = "validating"
          /\ \E ok \in BOOLEAN :
                FuEnds(IF ok THEN [fu EXCEPT !.received = @ + 1]
                       ELSE FuReturn(fu, "cleanup", FALSE))
          /\ UNCHANGED <<en, fuSource>>
       \/ /\ fu.state = "installing"
          /\ \/ FuEnds(FuReturn(fu, "cleanup", FALSE)) /\ UNCHANGED <<en, fuSource>>
             \/ /\ FuLast(en) \* check the end of the file first
                /\ fuPc' = "extra" /\ UNCHANGED <<en, fu, fuDue, fuSource>>
             \/ /\ ~FuLast(en)
                /\ en' = IF EnReady(en) THEN EnChunk(en) ELSE en
                /\ FuEnds(IF EnReady(en) THEN fu ELSE FuReturn(fu, "cleanup", FALSE))
                /\ UNCHANGED fuSource
       \/ /\ fu.state = "cleanup"
          /\ \E ok \in BOOLEAN : FuCleaned([fu EXCEPT !.ok = @ /\ ok])
    /\ UNCHANGED <<enBy, netUpVars, upCommands>>

\* installing: the read past the end returns, then the close.
FuExtraReturns ==
    /\ fuPc = "extra"
    /\ \/ fuPc' = "close" /\ UNCHANGED <<fu, fuDue>>
       \/ FuEnds(FuReturn(fu, "cleanup", FALSE))
    /\ UNCHANGED <<enVars, netUpVars, fuSource, upCommands>>

FuCloseReturns ==
    /\ fuPc = "close"
    /\ LET f == [fu EXCEPT !.opened = FALSE] IN
       \/ FuEnds(FuReturn(f, "cleanup", FALSE)) /\ UNCHANGED en
       \/ /\ en' = IF EnReady(en) THEN EnChunk(en) ELSE en
          /\ FuEnds(IF EnReady(en) THEN f ELSE FuReturn(f, "cleanup", FALSE))
    /\ UNCHANGED <<enBy, netUpVars, fuSource, upCommands>>

-----------------------------------------------------------------------------
\* Commands.

UpCommand == UpMore /\ upCommands < UpMaxCommands /\ upCommands' = upCommands + 1

\* "enable"
OtaEnable ==
    /\ UpCommand /\ en' = [en EXCEPT !.enabled = TRUE]
    /\ UNCHANGED <<enBy, netUpVars, fuVars>>

\* "disable": FilePoll is scheduled, and the file update cancelled unless its
\* image is committed.
OtaDisable ==
    /\ UpCommand /\ en' = [en EXCEPT !.enabled = FALSE]
    /\ LET late == fu.state = "cleanup" \/ (fu.installing /\ en.state = "done")
       IN  fu' = IF fu.busy /\ ~late THEN [fu EXCEPT !.cancel = TRUE] ELSE fu
    /\ fuDue' = (fuDue \/ fu.busy)
    /\ UNCHANGED <<enBy, netUpVars, fuPc, fuSource>>

\* "init": both reservations, or none.
OtaPrepare ==
    /\ UpCommand /\ fuDue' = TRUE
    /\ \/ /\ ~fu.busy /\ ~en.owner /\ ~EnActive(en)
          /\ en' = [en EXCEPT !.owner = TRUE] /\ fuSource' = TRUE
          /\ fu' = [FuFresh EXCEPT !.state = fu.state, !.requested = TRUE,
                                   !.busy = TRUE]
       \/ UNCHANGED <<en, fu, fuSource>>
    /\ UNCHANGED <<enBy, netUpVars, fuPc>>

\* "install"
OtaInstall ==
    /\ UpCommand /\ fuDue' = TRUE
    /\ fu' = IF fu.state = "prepared" /\ fu.busy /\ ~fu.cancel
             THEN [fu EXCEPT !.install = TRUE] ELSE fu
    /\ UNCHANGED <<enVars, netUpVars, fuPc, fuSource>>

\* FilePoll() with nothing to do.
FuIdlePoll ==
    /\ fuDue /\ fuPc = "idle" /\ ~fu.busy /\ fuDue' = FALSE
    /\ UNCHANGED <<enVars, netUpVars, fu, fuPc, fuSource, upCommands>>

-----------------------------------------------------------------------------

UpNext ==
    \/ EnPoll \/ SrvPoll \/ SrvConnect \/ SrvSend \/ SrvDisconnect
    \/ FuPoll \/ FuCallReturns \/ FuExtraReturns \/ FuCloseReturns \/ FuIdlePoll
    \/ OtaEnable \/ OtaDisable \/ OtaPrepare \/ OtaInstall

\* The steps of the file source's task, of which at most one is enabled.
FuStep == FuPoll \/ FuCallReturns \/ FuExtraReturns \/ FuCloseReturns

\* Both tasks run when they are due; the engine's phases end (each flash step
\* has a deadline), and the calls of the source return.
UpFairness ==
    /\ WF_upVars(EnPoll) /\ WF_upVars(SrvPoll)
    /\ WF_upVars(FuStep)

UpSpec == UpInit /\ [][UpNext]_upVars /\ UpFairness

-----------------------------------------------------------------------------

\* The parts of a frame come from one client, and a reply is held only for the
\* client that asked, whenever a session ends: in a header, in a payload, or
\* with the reply unsent.
UpOneClient ==
    /\ \A a, b \in pr.from : a = b
    /\ pr.state = "reply" /\ ~pr.reset /\ srv.seen = srv.session
        => pr.from \subseteq {srv.client}

\* The chunks of a network upload all come from the client that began it.
UpSameClient ==
    [][en'.received > en.received /\ enBy # UpFile => srv.client = enBy]_upVars

\* A file update that is over, however it ended, holds neither the engine nor
\* the source, and one that is not over holds both.
FuReleased ==
    /\ fu.busy <=> fuSource
    /\ fu.busy <=> en.owner
    /\ fu.opened => fu.busy
    /\ fuPc # "idle" => fu.busy

\* The file was read to its end and closed before the engine has the last
\* chunk, so that no file error can follow the commit.
FuClosesFirst ==
    enBy = UpFile /\ en.received = UpChunks /\ EnActive(en) => ~fu.opened

\* A file update that was cancelled has not ended.
FuCancelling == fu.busy /\ fu.cancel

\* The installer works on an upload whose client has left.
SrvStray == EnActive(en) /\ enBy \in UpClients /\ srv.client # enBy

\* The clients, and the two sources, are kept apart.
UpSeparate ==
    /\ [](UpTypeOK /\ UpOneClient /\ FuReleased /\ FuClosesFirst)
    /\ UpSameClient

==============================================================================
