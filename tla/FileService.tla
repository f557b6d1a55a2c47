----------------------------- MODULE FileService -----------------------------
(***************************************************************************)
(* The file system and its users: storage::Volume over FatFs               *)
(* (lib/storage/volume.cpp), the command module that owns it               *)
(* (lib/storage/module.hpp), the network file transfer                     *)
(* (lib/storage/transfer.cpp, run by lib/net/file_transfer.hpp) and a      *)
(* reader that borrows it through ReadFile (the update source).            *)
(*                                                                         *)
(* Every volume operation may yield while media I/O is pending, so each is *)
(* two steps, a call and a return, and everything else may happen between  *)
(* them: commands, network polls, a client leaving and another arriving.   *)
(*                                                                         *)
(* Abstracted: FatFs (external: a call succeeds or fails, and only         *)
(* succeeds while the media answers), file contents (whether the announced *)
(* data has been written and synchronized), paths, message bytes (a        *)
(* request is two fragments, of which the first is the header).            *)
(***************************************************************************)
EXTENDS Integers

CONSTANTS
    FsNames,        \* file names
    FsMaxSize,      \* upload and download sizes, in chunks
    FsEntries,      \* kMaximumEntries, and the chunks of a preview
    FsLoads         \* what the users do: bounds on the client connections and
                    \* on the commands, which commands are given, and whether
                    \* the reader and stop() come

VARIABLES
    fsLoad,         \* the load of this behaviour
    fsMounted,      \* mounted_, which is also the lease on the device
    fsWritable,     \* writable_
    fsOpen,         \* file_open_ or directory_open_
    fsCall,         \* busy_ of Volume: who is inside an operation
    fsDisk,         \* each file: absent, written by a command or an upload, whole
    fsHolder,       \* busy_ of the module, with its holder
    wk,             \* the command worker: machine_, operation_, path_ ...
    wkHalted,       \* the scheduler has refused to run the worker again
    wkCommands,     \* commands accepted (history)
    ft,             \* FileTransfer
    ftPc,           \* where Poll of FileTransferModule is
    ftSession,      \* session_ of FileTransferModule
    ftStopping,     \* stopping_
    ftStopped,      \* stopped_
    ftReported,     \* files named in a cleanup_failed report (history)
    netSession,     \* session() of the TCP server
    netClient,      \* connected()
    netIn,          \* a fragment was received and is not consumed
    rd              \* where the update reader is

fsVolume == <<fsMounted, fsWritable, fsOpen, fsDisk>>
wkVars == <<wk, wkHalted, wkCommands>>
netVars == <<netSession, netClient, netIn>>
ftVars == <<ft, ftPc, ftSession, ftStopping, ftStopped, ftReported>>
fsVars == <<fsVolume, fsCall, fsHolder, wkVars, ftVars, netVars, rd,
            fsLoad>>

FsSessions == UNION {0 .. 2 * load.sessions : load \in FsLoads}

-----------------------------------------------------------------------------

WkOperations == {"mount", "unmount", "list", "read", "create", "remove"}

\* "none" stands for no name.
ASSUME FsAssumption ==
    /\ FsMaxSize \in Nat /\ FsEntries \in Nat /\ "none" \notin FsNames
    /\ \A load \in FsLoads : /\ load.sessions \in Nat /\ load.commands \in Nat
                             /\ load.asks \subseteq WkOperations

FsUsers == {"worker", "transfer", "reader"}
FsNobody == "nobody"
FsResults == {"ok", "locked", "not_ready", "protected", "invalid", "error"}

WkIdle == [state |-> "idle", op |-> "mount", rw |-> FALSE, name |-> "none",
           requested |-> FALSE, scheduled |-> FALSE, left |-> 0, pc |-> "ready"]

FtBegin == {"upload", "download", "list", "mutate"}
FtContinue == {"write", "finish", "read", "next"}

\* A reply waiting to be sent; a notice is one to no request.
FtReplies == {"none", "good", "bad"}

\* Here and in WkIdle: fields the code rewrites before it reads them go back to
\* these values when a request ends.
FtIdle == [state |-> "receiving", received |-> 0, needed |-> 1,
           malformed |-> FALSE, reply |-> "none", status |-> "ok", op |-> "none", leased |-> FALSE,
           opened |-> FALSE, created |-> FALSE, mode |-> "none", name |-> "none",
           size |-> 0, offset |-> 0, gone |-> FALSE, from |-> {}]

\* The states of the worker and of the transfer.
WkStates == {"idle", "failed", "mount", "unmount", "open_directory", "list", "open_file",
             "read", "remove", "create", "write", "sync", "close"}
WkWorkers ==
    [state : WkStates, op : WkOperations, rw : BOOLEAN, name : FsNames \union {"none"},
     requested : BOOLEAN, scheduled : BOOLEAN, left : 0 .. FsEntries,
     pc : {"ready", "call", "close"}]
FtTransfers ==
    [state : {"receiving", "executing", "cleanup"}, received : 0 .. 2, needed : 1 .. 2,
     malformed : BOOLEAN, reply : FtReplies, gone : BOOLEAN,
     status : {"ok", "failed", "cleanup"}, op : FtBegin \union FtContinue \union {"none"},
     leased : BOOLEAN, opened : BOOLEAN, created : BOOLEAN,
     mode : {"none", "upload", "download", "list", "mutate"},
     name : FsNames \union {"none"}, size : 0 .. FsMaxSize, offset : 0 .. FsMaxSize,
     from : SUBSET FsSessions]

FsHandles == {"none", "read", "write", "directory"}
FsContents == {"absent", "worker", "transfer", "whole"}

FsTypeOK ==
    /\ fsMounted \in BOOLEAN /\ fsWritable \in BOOLEAN /\ wkHalted \in BOOLEAN
    /\ ftStopping \in BOOLEAN /\ ftStopped \in BOOLEAN /\ netClient \in BOOLEAN
    /\ fsOpen \in FsHandles
    /\ fsCall \in FsUsers \union {FsNobody} /\ fsHolder \in FsUsers \union {FsNobody}
    /\ fsDisk \in [FsNames -> FsContents]
    /\ wk \in WkWorkers /\ ft \in FtTransfers
    /\ ftPc \in {"idle", "execute", "close", "remove", "after"}
    /\ ftReported \subseteq FsNames
    /\ ftSession \in FsSessions /\ netSession \in FsSessions
    /\ netIn \in 0 .. 1
    /\ rd \in {"idle", "reserved", "open", "opening", "reading", "seeking",
               "closing"}
    /\ wkCommands \in 0 .. fsLoad.commands

\* A command may have mounted the volume already.
FsInit ==
    /\ fsLoad \in FsLoads
    /\ fsMounted \in BOOLEAN /\ fsWritable \in BOOLEAN
    /\ fsWritable => fsMounted
    /\ fsOpen = "none" /\ fsCall = FsNobody /\ fsHolder = FsNobody
    /\ fsDisk = [n \in FsNames |-> "absent"]
    /\ wk = WkIdle /\ wkHalted = FALSE /\ wkCommands = 0
    /\ ft = FtIdle /\ ftPc = "idle" /\ ftSession = 0
    /\ ftStopping = FALSE /\ ftStopped = FALSE /\ ftReported = {}
    /\ netSession = 0 /\ netClient = FALSE /\ netIn = 0
    /\ rd = "idle"

-----------------------------------------------------------------------------
\* Volume.  An operation holds the guard from its call to its return; what it
\* returns and does is decided at the return.

FsEnter(user) == fsCall = FsNobody /\ fsCall' = user
FsLeave(user) == fsCall = user /\ fsCall' = FsNobody

FsKeep == UNCHANGED fsVolume

\* mount(): also acquires the device.
FsMount(rw, r) ==
    IF fsOpen # "none" THEN r = "locked" /\ FsKeep
    ELSE IF fsMounted
    THEN r \in {"not_ready", IF rw = fsWritable THEN "ok" ELSE "locked"} /\ FsKeep
    ELSE \/ /\ r = "ok" /\ fsMounted' = TRUE /\ fsWritable' = rw
            /\ UNCHANGED <<fsOpen, fsDisk>>
         \/ r \in {"error", "protected", "locked", "not_ready"} /\ FsKeep

\* Mutant: a failed close keeps the handle.
FsCloseKeeps(r) ==
    /\ r \in {"ok", "error"} /\ (r = "error" => fsOpen # "none")
    /\ fsOpen' = IF r = "ok" THEN "none" ELSE fsOpen
    /\ UNCHANGED <<fsMounted, fsWritable, fsDisk>>

\* close(): the handle is given up whatever FatFs says.
FsClose(r) ==
    /\ r \in {"ok", "error"} /\ (r = "error" => fsOpen # "none")
    /\ fsOpen' = "none"
    /\ UNCHANGED <<fsMounted, fsWritable, fsDisk>>

\* unmount(): closes, then releases the device.
FsUnmount(r) ==
    /\ r \in {"ok", "error"} /\ (r = "error" => fsOpen # "none")
    /\ fsOpen' = "none" /\ fsMounted' = FALSE /\ fsWritable' = FALSE
    /\ UNCHANGED fsDisk

\* Path(): the drive of a mounted volume and a name without colon or NUL.
FsPath == IF fsMounted THEN {"ok", "invalid"} ELSE {"not_ready"}

\* open(): a file that exists; an offset past its end closes it again.
FsOpenFile(name, r) ==
    IF fsOpen # "none" THEN r = "locked" /\ FsKeep
    ELSE \E path \in FsPath :
        \/ path # "ok" /\ r = path /\ FsKeep
        \/ path = "ok" /\ r \in {"error", "invalid"} /\ FsKeep
        \/ /\ path = "ok" /\ r = "ok" /\ fsDisk[name] # "absent"
           /\ fsOpen' = "read" /\ UNCHANGED <<fsMounted, fsWritable, fsDisk>>

FsOpenDirectory(r) ==
    IF fsOpen # "none" THEN r = "locked" /\ FsKeep
    ELSE \E path \in FsPath :
        \/ path # "ok" /\ r = path /\ FsKeep
        \/ path = "ok" /\ r = "error" /\ FsKeep
        \/ /\ path = "ok" /\ r = "ok"
           /\ fsOpen' = "directory" /\ UNCHANGED <<fsMounted, fsWritable, fsDisk>>

\* The checks of create() and Mutate(), and their failures.
FsModify(r) ==
    /\ FsKeep
    /\ r \in CASE fsOpen # "none" -> {"locked"}
               [] fsOpen = "none" /\ ~fsMounted -> {"not_ready"}
               [] fsOpen = "none" /\ fsMounted /\ ~fsWritable -> {"protected"}
               [] OTHER -> {"error"} \union (FsPath \ {"ok"})

FsMayModify == fsOpen = "none" /\ fsMounted /\ fsWritable

\* create(): new files only.
FsCreate(user, name, r) ==
    \/ FsModify(r)
    \/ /\ FsMayModify /\ r = "ok" /\ fsDisk[name] = "absent"
       /\ fsOpen' = "write"
       /\ fsDisk' = [fsDisk EXCEPT ![name] = user]
       /\ UNCHANGED <<fsMounted, fsWritable>>

\* mkdir(), rmdir(): the checks of remove(), and no file to show.
FsDirectories(r) == FsModify(r) \/ (FsMayModify /\ r = "ok" /\ FsKeep)

\* remove(): not a directory.
FsRemove(name, r) ==
    \/ FsModify(r)
    \/ /\ FsMayModify /\ r = "ok" /\ fsDisk[name] # "absent"
       /\ fsDisk' = [fsDisk EXCEPT ![name] = "absent"]
       /\ UNCHANGED <<fsMounted, fsWritable, fsOpen>>

\* Mutant: an error of the final write-out goes unnoticed.
FsSyncUnchecked(name, r) ==
    \/ fsOpen \notin {"read", "write"} /\ r = "invalid" /\ FsKeep
    \/ fsOpen \in {"read", "write"} /\ r = "ok" /\ FsKeep

\* write(), sync(): sync of everything announced makes the file whole.
FsWrite(r) ==
    /\ FsKeep
    /\ IF ~fsMounted \/ ~fsWritable THEN r = "protected"
       ELSE IF fsOpen \notin {"read", "write"} THEN r = "invalid"
       ELSE r = "error" \/ (r = "ok" /\ fsOpen = "write")

FsSync(name, r) ==
    \/ fsOpen \notin {"read", "write"} /\ r = "invalid" /\ FsKeep
    \/ fsOpen \in {"read", "write"} /\ r = "error" /\ FsKeep
    \/ /\ fsOpen = "write" /\ r = "ok"
       /\ fsDisk' = [fsDisk EXCEPT ![name] = "whole"]
       /\ UNCHANGED <<fsMounted, fsWritable, fsOpen>>

FsRead(r) ==
    /\ FsKeep
    /\ r \in IF fsOpen \in {"read", "write"} THEN {"error", "ok"} ELSE {"invalid"}

\* seek(): not past the end.
FsSeek(r) ==
    /\ FsKeep
    /\ r \in IF fsOpen \in {"read", "write"} THEN {"error", "ok", "invalid"}
            ELSE {"invalid"}

\* next()
FsReadDirectory(r) ==
    /\ FsKeep
    /\ r \in IF fsOpen = "directory" THEN {"error", "ok"} ELSE {"invalid"}

-----------------------------------------------------------------------------
\* The command module.

\* Submit(), for every command: one request at a time.
WkSubmit(op, rw, name) ==
    /\ fsHolder = FsNobody /\ ~wkHalted /\ wkCommands < fsLoad.commands
    /\ wkCommands' = wkCommands + 1
    /\ fsHolder' = "worker"
    /\ wk' = [wk EXCEPT !.op = op, !.rw = rw, !.name = name, !.requested = TRUE,
                        !.scheduled = TRUE]
    /\ UNCHANGED <<fsVolume, fsCall, wkHalted, ftVars, netVars, rd>>

WkFirst == [mount |-> "mount", unmount |-> "unmount", list |-> "open_directory",
            remove |-> "remove", create |-> "create", read |-> "open_file"]

WkAfter == [mount |-> "done", unmount |-> "done", open_directory |-> "list",
            open_file |-> "read", remove |-> "done", create |-> "write",
            write |-> "sync", sync |-> "close", close |-> "done"]

\* The volume operation of a state.
WkOperation(r) ==
    CASE wk.state = "mount" -> FsMount(wk.rw, r)
      [] wk.state = "unmount" -> FsUnmount(r)
      [] wk.state = "open_directory" -> FsOpenDirectory(r)
      [] wk.state = "open_file" -> FsOpenFile(wk.name, r)
      [] wk.state = "list" -> FsReadDirectory(r)
      [] wk.state = "read" -> FsRead(r)
      [] wk.state = "remove" -> FsRemove(wk.name, r)
      [] wk.state = "create" -> FsCreate("worker", wk.name, r)
      [] wk.state = "write" -> FsWrite(r)
      [] wk.state = "sync" -> FsSync(wk.name, r)
      [] wk.state = "close" -> FsClose(r)

\* The worker goes on in "state".  It is scheduled again unless it is done; if
\* the scheduler refuses, the worker closes and gives up.
WkContinue(state, left) ==
    CASE state = "done" ->
            /\ wk' = WkIdle
            /\ fsHolder' = FsNobody
            /\ UNCHANGED wkHalted
      [] state = "failed" ->
            /\ wk' = [wk EXCEPT !.state = state, !.pc = "close", !.scheduled = FALSE]
            /\ UNCHANGED <<fsHolder, wkHalted>>
      [] OTHER ->
            /\ wkHalted' \in BOOLEAN
            /\ wk' = [wk EXCEPT !.state = state, !.left = left, !.requested = FALSE,
                                !.pc = IF wkHalted' THEN "close" ELSE "ready",
                                !.scheduled = ~wkHalted']
            /\ UNCHANGED fsHolder

\* Poll(): accept the request, or call the volume.
WkPoll ==
    /\ wk.scheduled /\ wk.pc = "ready"
    /\ IF wk.state = "idle"
       THEN /\ wk.requested
            /\ WkContinue(WkFirst[wk.op], FsEntries)
            /\ UNCHANGED fsCall
       ELSE /\ FsEnter("worker")
            /\ wk' = [wk EXCEPT !.pc = "call", !.scheduled = FALSE]
            /\ UNCHANGED <<fsHolder, wkHalted>>
    /\ UNCHANGED <<fsVolume, wkCommands, ftVars, netVars, rd>>

\* The volume returns: Step chooses the next state.  A listing or a preview
\* repeats until its end or its limit.
WkReturn ==
    /\ wk.pc = "call" /\ FsLeave("worker")
    /\ \E r \in FsResults :
        /\ WkOperation(r)
        /\ IF r # "ok" THEN WkContinue("failed", wk.left)
           ELSE IF wk.state \in {"list", "read"}
           THEN \/ wk.left > 1 /\ WkContinue(wk.state, wk.left - 1)
                \/ WkContinue("close", wk.left)
           ELSE WkContinue(WkAfter[wk.state], wk.left)
    /\ UNCHANGED <<wkCommands, ftVars, netVars, rd>>

\* The close() of a failed request or of a worker that cannot go on.
WkGiveUpCall ==
    /\ wk.pc = "close" /\ FsEnter("worker")
    /\ UNCHANGED <<fsVolume, fsHolder, wkVars, ftVars, netVars, rd>>

WkGiveUp ==
    /\ wk.pc = "close" /\ FsLeave("worker")
    /\ \E r \in FsResults : FsClose(r)
    /\ wk' = WkIdle
    /\ fsHolder' = FsNobody
    /\ UNCHANGED <<wkHalted, wkCommands, ftVars, netVars, rd>>

-----------------------------------------------------------------------------
\* The TCP server, as its one client sees it; any poll of the network may do
\* these, also inside a volume operation.

NetConnect ==
    /\ ~netClient /\ ~ftStopping /\ netSession + 1 < 2 * fsLoad.sessions
    /\ netClient' = TRUE /\ netSession' = netSession + 1 /\ netIn' = 0
    /\ UNCHANGED <<fsVolume, fsCall, fsHolder, wkVars, ftVars, rd>>

NetSend ==
    /\ netClient /\ netIn = 0
    /\ netIn' = 1
    /\ UNCHANGED <<fsVolume, fsCall, fsHolder, wkVars, ftVars, netSession,
                   netClient, rd>>

NetDisconnect ==
    /\ netClient
    /\ netClient' = FALSE /\ netSession' = netSession + 1 /\ netIn' = 0
    /\ UNCHANGED <<fsVolume, fsCall, fsHolder, wkVars, ftVars, rd>>

-----------------------------------------------------------------------------
\* FileTransfer.

\* Mutant: bytes received and not yet complete are forgotten.
FtBusyWhole(t) == t.leased \/ t.gone

\* busy(), and a reply to send.
FtBusy(t) == t.leased \/ t.received > 0 \/ t.gone

\* Session(): a new session number abandons whatever is under way.
FtCheckSession(t, session) ==
    IF session # ftSession /\ (FtBusy(t) \/ t.reply # "none")
    THEN [t EXCEPT !.gone = TRUE]
    ELSE t

\* sent()
FtSent(t) == [t EXCEPT !.reply = "none", !.received = 0, !.needed = 1,
                       !.malformed = FALSE, !.from = {}, !.op = "none"]

FtFeeds(t) == t.reply = "none" /\ ~t.gone /\ ~t.malformed
              /\ t.state = "receiving" /\ t.received < t.needed

\* feed(): one fragment, since the length is not known before the header.
FtFeed(t, payload, malformed) ==
    [t EXCEPT !.received = @ + 1, !.from = @ \union {netSession},
              !.malformed = malformed,
              !.needed = IF t.received = 0 /\ payload /\ ~malformed THEN 2 ELSE @]

\* Reply()
FtReply(t) == [t EXCEPT !.reply = IF t.status = "ok" THEN "good" ELSE "bad"]

FtCleanupDue(t, status) == [t EXCEPT !.status = status, !.state = "cleanup"]

\* reserve() of file_access().
FtReserve(write) ==
    IF fsHolder # FsNobody THEN "locked"
    ELSE IF ~fsMounted THEN "not_ready"
    ELSE IF write /\ ~fsWritable THEN "protected"
    ELSE "ok"

\* Execute() up to its volume operation: a request that begins a transfer.
FtBegins(t, op, name, size) ==
    IF ~t.leased /\ FtReserve(op \in {"upload", "mutate"}) = "ok"
    THEN /\ ft' = [t EXCEPT !.op = op, !.name = name, !.mode = op, !.size = size,
                            !.offset = 0, !.leased = TRUE]
         /\ fsHolder' = "transfer" /\ FsEnter("transfer")
         /\ ftPc' = "execute"
    ELSE /\ ft' = FtCleanupDue(t, "failed") /\ ftPc' = "after"
         /\ UNCHANGED <<fsCall, fsHolder>>

\* The requests that call the volume for the transfer that was begun.
FtCalls(t, op) ==
    \/ op = "write" /\ t.mode = "upload" /\ t.offset < t.size
    \/ op = "next" /\ t.mode = "list"
    \/ op = "read" /\ t.mode = "download" /\ t.offset < t.size
    \/ op = "finish" /\ t.mode = "upload" /\ t.offset = t.size

\* A request that continues it, or that does not fit and fails.
FtContinues(t, op) ==
    /\ UNCHANGED fsHolder
    /\ \/ /\ t.leased /\ FtCalls(t, op)
          /\ FsEnter("transfer") /\ ftPc' = "execute"
          /\ ft' = [t EXCEPT !.op = op, !.status = "ok"]
       \/ /\ t.leased /\ op = "read" /\ t.mode = "download" /\ t.offset = t.size
          /\ ft' = FtCleanupDue(t, "ok") /\ ftPc' = "after" /\ UNCHANGED fsCall
       \/ ft' = FtCleanupDue(t, "failed") /\ ftPc' = "after" /\ UNCHANGED fsCall

FtExecute(t) ==
    \/ \E op \in FtBegin, name \in FsNames :
        \E size \in IF op = "upload" THEN 0 .. FsMaxSize ELSE {0} : FtBegins(t, op, name, size)
    \/ \E op \in FtContinue : FtContinues(t, op)

\* Mutant: the lease is released only when nothing failed.
FtCleanedKeeps(t, failed) ==
    LET status == IF failed THEN "cleanup" ELSE t.status
        u == [t EXCEPT !.created = FALSE, !.leased = failed /\ @, !.status = status,
                       !.state = "receiving", !.mode = "none", !.size = 0,
                       !.offset = 0]
    IN  /\ ft' = IF t.gone THEN [FtSent(u) EXCEPT !.gone = FALSE] ELSE FtReply(u)
        /\ fsHolder' = IF t.leased /\ ~failed THEN FsNobody ELSE fsHolder
        /\ ftPc' = "after"

\* The end of Cleanup(): release the lease, count the failure, then answer or,
\* for a client that is gone, forget the request.
FtCleaned(t, failed) ==
    LET status == IF failed THEN "cleanup" ELSE t.status
        u == [t EXCEPT !.created = FALSE, !.leased = FALSE, !.status = status,
                       !.state = "receiving", !.mode = "none", !.size = 0,
                       !.offset = 0]
    IN  /\ ft' = IF t.gone THEN [FtSent(u) EXCEPT !.gone = FALSE] ELSE FtReply(u)
        /\ fsHolder' = IF t.leased THEN FsNobody ELSE fsHolder
        /\ ftPc' = "after"

\* One Step() of the transfer, begun by Poll; "expired" is the idle timeout.
FtStep(t) ==
    \/ \E expired \in BOOLEAN :
        /\ t.state = "receiving"
        /\ expired => t.leased \/ t.received > 0 \/ t.reply # "none"
        /\ ftPc' = "after"
        /\ ft' = IF t.gone \/ expired \/ t.malformed
                 THEN [FtCleanupDue(t, "failed")
                       EXCEPT !.reply = "none"]
                 ELSE IF t.reply = "none" /\ t.received = t.needed
                 THEN [t EXCEPT !.state = "executing"]
                 ELSE t
        /\ UNCHANGED <<fsCall, fsHolder>>
    \/ /\ t.state = "executing" /\ t.gone
       /\ ft' = FtCleanupDue(t, "failed") /\ ftPc' = "after"
       /\ UNCHANGED <<fsCall, fsHolder>>
    \/ t.state = "executing" /\ ~t.gone /\ FtExecute(t)
    \/ /\ t.state = "cleanup" /\ t.opened
       /\ FsEnter("transfer") /\ ft' = t /\ ftPc' = "close"
       /\ UNCHANGED fsHolder
    \/ /\ t.state = "cleanup" /\ ~t.opened /\ FtCleaned(t, FALSE)
       /\ UNCHANGED fsCall

\* Poll(): stop or poll the server, notice a new session, feed, then tick.
FtPoll ==
    /\ ftPc = "idle" /\ ~ftStopped
    /\ IF ftStopping
       THEN /\ netClient' = FALSE /\ netIn' = 0
            /\ netSession' = IF netClient THEN netSession + 1 ELSE netSession
            /\ ftSession' = netSession'
            /\ FtStep([ft EXCEPT !.gone = TRUE])
       ELSE LET t == FtCheckSession(ft, netSession) IN
            /\ ftSession' = netSession
            /\ UNCHANGED <<netSession, netClient>>
            /\ IF netIn > 0 /\ FtFeeds(t)
               THEN /\ netIn' = netIn - 1
                    /\ \E payload, malformed \in BOOLEAN :
                        /\ malformed => t.received = 0
                        /\ FtStep(FtFeed(t, payload, malformed))
               ELSE UNCHANGED netIn /\ FtStep(t)
    /\ UNCHANGED <<fsVolume, wkVars, ftStopping, ftStopped, ftReported, rd>>

\* The volume operation of a request.
FtOperation(r) ==
    CASE ft.op = "upload" -> FsCreate("transfer", ft.name, r)
      [] ft.op = "download" -> FsOpenFile(ft.name, r)
      [] ft.op = "list" -> FsOpenDirectory(r)
      [] ft.op = "mutate" -> FsRemove(ft.name, r) \/ FsDirectories(r)
      [] ft.op = "write" -> FsWrite(r)
      [] ft.op = "finish" -> FsSync(ft.name, r)
      [] ft.op = "next" -> FsReadDirectory(r)
      [] ft.op = "read" -> FsRead(r)

\* Execute() after its volume operation: reply and receive again, or clean up
\* (after a failure, and at the end of a transfer).
FtExecuteReturns ==
    /\ ftPc = "execute" /\ FsLeave("transfer") /\ ftPc' = "after"
    /\ \E r \in FsResults :
        LET t == [ft EXCEPT !.status = IF r = "ok" THEN "ok" ELSE "failed"]
            on(u) == [FtReply(u) EXCEPT !.state = "receiving"]
        IN  /\ FtOperation(r)
            /\ IF r # "ok" \/ ft.op \in {"mutate", "finish"}
               THEN ft' = FtCleanupDue(t, t.status)
               ELSE IF ft.op \in FtBegin
               THEN \E size \in IF ft.op = "download" THEN 0 .. FsMaxSize
                                 ELSE {ft.size} :
                        ft' = on([t EXCEPT !.opened = TRUE, !.size = size,
                                           !.created = ft.op = "upload"])
               ELSE IF ft.op = "next"
               THEN ft' = FtCleanupDue(t, "ok") \/ ft' = on(t)
               ELSE ft' = on([t EXCEPT !.offset = @ + 1])
    /\ UNCHANGED <<fsHolder, wkVars, ftSession, ftStopping, ftStopped, ftReported,
                   netVars, rd>>

\* Mutant: only a client that left has its file removed.
FtRemovesNot(t, failed) == t.created /\ (t.gone \/ failed)

\* Does Cleanup() remove the file: it is ours, and the upload did not succeed.
FtRemoves(t, failed) == t.created /\ (t.status # "ok" \/ t.gone \/ failed)

\* Cleanup() after close().
FtCloseReturns ==
    /\ ftPc = "close" /\ FsLeave("transfer")
    /\ \E r \in FsResults :
        /\ FsClose(r)
        /\ LET t == [ft EXCEPT !.opened = FALSE] IN
           IF FtRemoves(t, r # "ok")
           THEN /\ ft' = IF r = "ok" THEN t ELSE [t EXCEPT !.status = "cleanup"]
                /\ ftPc' = "remove" /\ UNCHANGED fsHolder
           ELSE FtCleaned(t, r # "ok")
    /\ UNCHANGED <<wkVars, ftSession, ftStopping, ftStopped, ftReported, netVars,
                   rd>>

\* Cleanup(): remove(); ft.status is "cleanup" when close() failed.
FtRemoveCalls ==
    /\ ftPc = "remove" /\ FsEnter("transfer")
    /\ UNCHANGED <<fsVolume, fsHolder, wkVars, ftVars, netVars, rd>>

FtRemoveReturns ==
    /\ ftPc = "remove" /\ FsLeave("transfer")
    /\ \E r \in FsResults :
        /\ FsRemove(ft.name, r)
        /\ FtCleaned(ft, r # "ok" \/ ft.status = "cleanup")
    /\ UNCHANGED <<wkVars, ftSession, ftStopping, ftStopped, ftReported, netVars,
                   rd>>

\* Poll() after the tick: notice a session that changed meanwhile, report, send
\* the reply if the server has room for it, and run again unless stopped.
FtAfter ==
    /\ ftPc = "after" /\ ftPc' = "idle"
    /\ ftSession' = netSession
    /\ ftReported' = IF ft.status = "cleanup" /\ ft.name # "none"
                     THEN ftReported \union {ft.name} ELSE ftReported
    /\ LET u == FtCheckSession(ft, netSession)
           t == IF u.state = "receiving" /\ ~u.leased
                THEN [u EXCEPT !.name = "none", !.status = "ok"] ELSE u
       IN
       \/ /\ ~ftStopping /\ netClient /\ t.reply # "none" /\ ~t.gone
          /\ ft' = FtSent(t)
       \/ ft' = t
    /\ ftStopped' = (ftStopping /\ ~FtBusy(ft'))
    /\ UNCHANGED <<fsVolume, fsCall, fsHolder, wkVars, ftStopping, netVars, rd>>

\* stop()
FtStop ==
    /\ fsLoad.stops /\ ~ftStopping /\ ftStopping' = TRUE
    /\ UNCHANGED <<fsVolume, fsCall, fsHolder, wkVars, ft, ftPc, ftSession,
                   ftStopped, ftReported, netVars, rd>>

-----------------------------------------------------------------------------
\* The reader of an update package, through read_file(): reserve needs a
\* read-only mount; whatever happens, the reader closes and releases.

RdReserve ==
    /\ fsLoad.reads /\ rd = "idle" /\ fsHolder = FsNobody /\ fsMounted /\ ~fsWritable
    /\ fsHolder' = "reader" /\ rd' = "reserved"
    /\ UNCHANGED <<fsVolume, fsCall, wkVars, ftVars, netVars>>

RdCall ==
    /\ \/ rd = "reserved" /\ rd' = "opening"
       \/ rd = "open" /\ rd' \in {"reading", "seeking", "closing"}
    /\ FsEnter("reader")
    /\ UNCHANGED <<fsVolume, fsHolder, wkVars, ftVars, netVars>>

RdReturn ==
    /\ FsLeave("reader")
    /\ \E r \in FsResults :
        \/ /\ rd = "opening" /\ \E n \in FsNames : FsOpenFile(n, r)
           /\ IF r = "ok" THEN rd' = "open" /\ UNCHANGED fsHolder
              ELSE rd' = "idle" /\ fsHolder' = FsNobody
        \/ /\ \/ rd = "reading" /\ FsRead(r)
              \/ rd = "seeking" /\ FsSeek(r)
           /\ rd' = "open" /\ UNCHANGED fsHolder
        \/ /\ rd = "closing" /\ FsClose(r)
           /\ rd' = "idle" /\ fsHolder' = FsNobody
    /\ UNCHANGED <<wkVars, ftVars, netVars>>

-----------------------------------------------------------------------------

FsNext ==
    /\ UNCHANGED fsLoad
    /\ \/ \E op \in fsLoad.asks, rw \in BOOLEAN, name \in FsNames :
            /\ rw => op = "mount"
            /\ WkSubmit(op, rw, name)
       \/ WkPoll \/ WkReturn \/ WkGiveUpCall \/ WkGiveUp
       \/ NetConnect \/ NetSend \/ NetDisconnect
       \/ FtPoll \/ FtExecuteReturns \/ FtCloseReturns \/ FtRemoveCalls
       \/ FtRemoveReturns \/ FtAfter \/ FtStop
       \/ RdReserve \/ RdCall \/ RdReturn

\* The steps of the worker and those of the transfer task.  At most one of each is
\* enabled, and it stays enabled: fairness of the task is fairness of its steps.
WkStep == WkPoll \/ WkReturn \/ WkGiveUpCall \/ WkGiveUp
FtTaskStep ==
    FtPoll \/ FtExecuteReturns \/ FtCloseReturns \/ FtRemoveCalls \/ FtRemoveReturns \/ FtAfter

\* Tasks run when they are due and every volume operation returns (the block
\* device has a deadline for each transfer).
FsFairness ==
    /\ WF_fsVars(UNCHANGED fsLoad /\ WkStep)
    /\ WF_fsVars(UNCHANGED fsLoad /\ FtTaskStep)

FsSpec == FsInit /\ [][FsNext]_fsVars /\ FsFairness

-----------------------------------------------------------------------------

\* Only the holder of the module's reservation is ever inside the volume or
\* has a handle open, so the volume's own guard never turns a user away; a
\* reservation that ends leaves no handle behind (a forgotten one would lock
\* the volume for good).
FsReserved ==
    /\ fsCall # FsNobody => fsCall = fsHolder
    /\ fsOpen # "none" => fsHolder # FsNobody
    /\ fsHolder = "transfer" <=> ft.leased
    /\ fsHolder = "reader" <=> rd # "idle"
    /\ wk.pc # "ready" \/ wk.state # "idle" => fsHolder = "worker"

\* An incomplete upload is still being worked on, or was removed, or was
\* reported by name as one that could not be removed.
FtNoDebris ==
    \A n \in FsNames :
        fsDisk[n] = "transfer" =>
            \/ ft.created /\ ft.name = n
            \/ n \in ftReported
            \/ ft.name = n /\ ft.status = "cleanup" /\ ftPc = "after"

\* The bytes of one request come from one session, and the reply to a request
\* is only kept for that session.  (A second time-out notice, one nobody asked
\* for, may outlive its session: nothing marks it as pending.)
FtOneSession ==
    /\ \A a, b \in ft.from : a = b
    /\ ft.reply # "none" /\ ~ft.gone /\ ftPc = "idle" => ft.from \subseteq {ftSession}

\* An upload is acknowledged only when the file is whole, closed, and the
\* volume released.
FtPublishes ==
    [][ft'.reply # ft.reply /\ ft'.op = "finish" /\ ft'.reply = "good"
        => fsDisk'[ft'.name] = "whole" /\ fsOpen' = "none"
           /\ fsHolder' # "transfer"]_fsVars

\* The transfer of a client that left keeps the volume, or the service was
\* asked to stop and has not.
FtHolds == (fsHolder = "transfer" /\ ~netClient) \/ (ftStopping /\ ~ftStopped)

\* One user of the volume, one session of a request.
FsOneUser == FsTypeOK /\ FsReserved /\ FtOneSession

==============================================================================
