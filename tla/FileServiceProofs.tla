-------------------------- MODULE FileServiceProofs --------------------------
(***************************************************************************)
(* For every set of file names, every file size and every load: the        *)
(* volume has one user at a time, no incomplete upload is forgotten, and   *)
(* an upload is acknowledged only when the whole file is on the volume.    *)
(* The inductive invariant says who holds the reservation and may have a   *)
(* handle open, where the bytes of a request came from, how far the        *)
(* request is, and what its upload has left on the volume.                 *)
(***************************************************************************)
EXTENDS FileService, TLAPS

\* Types, and the bound on the clients' sessions.
FsTyped ==
  /\ FsTypeOK /\ fsLoad \in FsLoads
  /\ netSession <= 2 * fsLoad.sessions
  /\ netClient => netSession < 2 * fsLoad.sessions

\* Who holds the reservation, and which handles its holder may have open.
FsHeld ==
  /\ FsReserved
  /\ wk.requested => fsHolder = "worker"
  /\ wk.pc = "call" => wk.state # "idle"
  /\ wk.state = "failed" => wk.pc = "close"
  /\ fsCall = "transfer" => ftPc \in {"execute", "close", "remove"}
  /\ fsHolder = "transfer" /\ fsOpen # "none" => ft.opened
  /\ fsHolder = "reader" /\ fsOpen # "none" => rd \in {"open", "reading", "seeking", "closing"}

\* A request's bytes, and the session they came from.
FtFragments(t, session) ==
  /\ \A a, b \in t.from : a = b
  /\ t.received = 0 => t.from = {}
  /\ t.received <= t.needed
  /\ ~t.gone => t.from \subseteq {session}

\* What the volume operation of a request belongs to.
FtMode(op) ==
  CASE op \in FtBegin -> op
    [] op \in {"write", "finish"} -> "upload"
    [] op = "next" -> "list"
    [] op = "read" -> "download"

\* How far a request is.
FtPhase(t, pc) ==
  /\ t.state # "receiving" => t.reply = "none"
  /\ t.reply = "none" /\ t.state # "cleanup" /\ pc # "execute" => t.op = "none"
  /\ pc = "execute" =>
       /\ t.state = "executing" /\ t.leased /\ t.op # "none" /\ t.mode = FtMode(t.op)
       /\ t.op \in FtBegin => ~t.created /\ t.name \in FsNames
       /\ t.op \in {"write", "read"} => t.offset < t.size
  /\ pc = "close" => t.state = "cleanup"
  /\ pc = "remove" =>
       t.state = "cleanup" /\ t.created /\ ~t.opened /\ (t.status # "ok" \/ t.gone)

\* The file an upload has created, until the upload ends.
FtFile(t, pc) ==
  /\ t.opened => t.leased
  /\ t.created => /\ t.leased /\ t.mode = "upload" /\ t.name \in FsNames
                  /\ pc # "remove" => t.opened
  /\ /\ t.leased /\ t.mode = "upload" /\ t.state # "cleanup"
     /\ ~(pc = "execute" /\ t.op = "upload")
     => t.created
  /\ t.state = "cleanup" /\ t.status = "ok" /\ t.created => fsDisk[t.name] = "whole"
  /\ t.state = "cleanup" /\ t.status = "ok" /\ t.op = "finish" => t.created

FtRequest(t, pc, session) ==
  t \in FtTransfers /\ FtFragments(t, session) /\ FtPhase(t, pc) /\ FtFile(t, pc)

FsInvariant == FsTyped /\ FsHeld /\ FtRequest(ft, ftPc, ftSession) /\ FtNoDebris

\* A session number within the bound of the load.
LEMMA SessionInRange ==
  ASSUME fsLoad \in FsLoads, NEW n \in Nat, n <= 2 * fsLoad.sessions
  PROVE  n \in FsSessions
<1>1. n \in 0 .. 2 * fsLoad.sessions
  BY FsAssumption
<1> QED
  BY <1>1, Zenon DEF FsSessions

\* Session numbers are natural numbers.
LEMMA SessionsNatural == FsSessions \subseteq Nat
<1> SUFFICES ASSUME NEW load \in FsLoads, NEW n \in 0 .. 2 * load.sessions PROVE n \in Nat
  BY Zenon DEF FsSessions
<1> QED
  BY FsAssumption

LEMMA FsInitInvariant == FsInit => FsInvariant
<1> SUFFICES ASSUME FsInit PROVE FsInvariant
  BY Zenon
<1> USE DEF FsInit
<1>1. fsLoad.sessions \in Nat /\ fsLoad.commands \in Nat
  BY FsAssumption, Zenon
<1>2. 0 \in FsSessions
  BY <1>1, SessionInRange
<1>3. ft \in FtTransfers
  BY FsAssumption DEF FtIdle, FtTransfers, FtReplies, FtBegin, FtContinue
<1>4. wk \in WkWorkers
  BY FsAssumption DEF WkIdle, WkWorkers, WkStates, WkOperations
<1>5. FsTyped
  <2>3. /\ fsMounted \in BOOLEAN /\ fsWritable \in BOOLEAN /\ wkHalted \in BOOLEAN
        /\ ftStopping \in BOOLEAN /\ ftStopped \in BOOLEAN /\ netClient \in BOOLEAN
    BY Zenon
  <2>4. fsDisk \in [FsNames -> FsContents] /\ fsOpen \in FsHandles
    BY Zenon DEF FsContents, FsHandles
  <2>5. wkCommands \in 0 .. fsLoad.commands /\ netIn \in 0 .. 1
    BY <1>1
  <2>1. FsTypeOK
    BY <1>2, <1>3, <1>4, <2>3, <2>4, <2>5, Zenon DEF FsTypeOK, FsUsers, FsNobody
  <2>2. netSession <= 2 * fsLoad.sessions
    BY <1>1
  <2> QED
    BY <2>1, <2>2, Zenon DEF FsTyped
<1>6. FsHeld
  BY Zenon DEF FsHeld, FsReserved, FsNobody, WkIdle, FtIdle
<1>7. FtFragments(ft, ftSession) /\ FtPhase(ft, ftPc) /\ FtFile(ft, ftPc)
  BY DEF FtFragments, FtPhase, FtFile, FtIdle
<1>8. FtNoDebris
  BY Zenon DEF FtNoDebris
<1> QED
  BY <1>3, <1>5, <1>6, <1>7, <1>8, Zenon DEF FsInvariant, FtRequest

-----------------------------------------------------------------------------
(* The volume *)

\* Types of the volume's state, and what no operation of the worker or the reader does: make
\* a file look like an unfinished upload.
FsVolumeOK == /\ fsMounted \in BOOLEAN /\ fsWritable \in BOOLEAN
              /\ fsOpen \in FsHandles /\ fsDisk \in [FsNames -> FsContents]

\* What the worker's operation may do to the volume.  One that ends a request leaves no handle.
LEMMA WorkerOperates ==
  ASSUME FsVolumeOK, wk \in WkWorkers, wk.state \notin {"idle", "failed"},
         NEW r \in FsResults, WkOperation(r)
  PROVE  /\ FsVolumeOK'
         /\ \A n \in FsNames : fsDisk'[n] = "transfer" => fsDisk[n] = "transfer"
         /\ r = "ok" /\ wk.state \in {"mount", "unmount", "remove", "close"} => fsOpen' = "none"
<1> USE DEF FsVolumeOK, FsHandles, FsContents, FsKeep, fsVolume
<1>1. CASE wk.state = "mount"
  <2>1. wk.rw \in BOOLEAN
    BY Zenon DEF WkWorkers
  <2> QED
    BY <1>1, <2>1, Zenon DEF WkOperation, FsMount
<1>2. CASE wk.state \in {"unmount", "close"}
  BY <1>2, Zenon DEF WkOperation, FsUnmount, FsClose
<1>3. CASE wk.state = "open_directory"
  BY <1>3, Zenon DEF WkOperation, FsOpenDirectory
<1>4. CASE wk.state = "open_file"
  BY <1>4, Zenon DEF WkOperation, FsOpenFile
<1>5. CASE wk.state \in {"list", "read", "write"}
  BY <1>5, Zenon DEF WkOperation, FsReadDirectory, FsRead, FsWrite
<1>6. CASE wk.state = "remove"
  BY <1>6, Zenon DEF WkOperation, FsRemove, FsModify, FsMayModify
<1>7. CASE wk.state = "create"
  BY <1>7, Zenon DEF WkOperation, FsCreate, FsModify, FsMayModify
<1>8. CASE wk.state = "sync"
  BY <1>8, Zenon DEF WkOperation, FsSync
<1> QED
  BY <1>1, <1>2, <1>3, <1>4, <1>5, <1>6, <1>7, <1>8, Zenon DEF WkWorkers, WkStates

-----------------------------------------------------------------------------
(* The worker, the network and the reader: they leave the transfer alone *)

\* The transfer's part of the invariant survives the steps of others: they make no file look
\* like an unfinished upload, and while an upload has a file they change none.
LEMMA TransferUntouched ==
  ASSUME FsInvariant, UNCHANGED <<ft, ftPc, ftSession, ftReported>>,
         \A n \in FsNames : fsDisk'[n] = "transfer" => fsDisk[n] = "transfer",
         ft.created => fsDisk' = fsDisk
  PROVE  FtRequest(ft, ftPc, ftSession)' /\ FtNoDebris'
<1>1. FtFragments(ft, ftSession)' /\ FtPhase(ft, ftPc)' /\ (ft \in FtTransfers)'
  BY Zenon DEF FsInvariant, FtRequest, FtFragments, FtPhase
<1>2. FtFile(ft, ftPc)'
  BY Zenon DEF FsInvariant, FtRequest, FtFile
<1>3. FtNoDebris'
  BY Zenon DEF FsInvariant, FtNoDebris
<1> QED
  BY <1>1, <1>2, <1>3, Zenon DEF FtRequest

LEMMA NetworkKeeps ==
  ASSUME FsInvariant, UNCHANGED fsLoad, NetConnect \/ NetSend \/ NetDisconnect
  PROVE  FsInvariant'
<1> USE DEF fsVolume, wkVars, ftVars
<1>1. UNCHANGED <<fsVolume, fsCall, fsHolder, wkVars, ftVars, rd>>
  BY Zenon DEF NetConnect, NetSend, NetDisconnect
<1>2. netSession \in Nat /\ fsLoad.sessions \in Nat
  BY SessionsNatural, FsAssumption, Zenon DEF FsInvariant, FsTyped, FsTypeOK
<1>3. /\ netSession' \in Nat /\ netSession' <= 2 * fsLoad.sessions
      /\ netClient' => netSession' < 2 * fsLoad.sessions
      /\ netClient' \in BOOLEAN /\ netIn' \in 0 .. 1
  <2> USE <1>2 DEF FsInvariant, FsTyped, FsTypeOK
  <2>1. CASE NetConnect
    BY <2>1 DEF NetConnect
  <2>2. CASE NetSend
    BY <2>2 DEF NetSend
  <2>3. CASE NetDisconnect
    <3>1. netSession' = netSession + 1 /\ netSession < 2 * fsLoad.sessions /\ netClient' = FALSE
      BY <2>3, Zenon DEF NetDisconnect
    <3>2. netSession' \in Nat /\ netSession' <= 2 * fsLoad.sessions
      BY <3>1
    <3>3. netClient' \in BOOLEAN /\ ~netClient'
      BY <3>1, Zenon
    <3>4. netIn' \in 0 .. 1
      BY <2>3 DEF NetDisconnect
    <3> QED
      BY <3>2, <3>3, <3>4, Zenon
  <2> QED
    BY <2>1, <2>2, <2>3, Zenon
<1>4. netSession' \in FsSessions
  BY <1>2, <1>3, SessionInRange, Zenon DEF FsInvariant, FsTyped
<1>5. FsTyped'
  BY <1>1, <1>3, <1>4 DEF FsInvariant, FsTyped, FsTypeOK
<1>6. FsHeld'
  BY <1>1, Zenon DEF FsInvariant, FsHeld, FsReserved
<1>7. FtRequest(ft, ftPc, ftSession)' /\ FtNoDebris'
  BY <1>1, TransferUntouched, Zenon
<1> QED
  BY <1>5, <1>6, <1>7, Zenon DEF FsInvariant

LEMMA SubmitKeeps ==
  ASSUME FsInvariant, UNCHANGED fsLoad, NEW op \in fsLoad.asks, NEW rw \in BOOLEAN,
         NEW name \in FsNames, WkSubmit(op, rw, name)
  PROVE  FsInvariant'
<1> USE DEF fsVolume, ftVars, netVars
<1>1. UNCHANGED <<fsVolume, fsCall, wkHalted, ftVars, netVars, rd>>
  BY Zenon DEF WkSubmit
<1>2. op \in WkOperations
  BY FsAssumption, Zenon DEF FsInvariant, FsTyped
<1>3. wk' \in WkWorkers
  BY <1>2, Zenon DEF FsInvariant, FsTyped, FsTypeOK, WkSubmit, WkWorkers
<1>4. wkCommands' \in 0 .. fsLoad.commands
  BY FsAssumption DEF FsInvariant, FsTyped, FsTypeOK, WkSubmit
<1>5. FsTyped'
  BY <1>1, <1>3, <1>4 DEF FsInvariant, FsTyped, FsTypeOK, WkSubmit, FsUsers
<1>6. wk'.pc = wk.pc /\ wk'.state = wk.state
  BY Zenon DEF WkSubmit, FsInvariant, FsTyped, FsTypeOK, WkWorkers
<1>7. FsHeld'
  BY <1>1, <1>6, Zenon DEF FsInvariant, FsHeld, FsReserved, WkSubmit, FsNobody
<1>8. FtRequest(ft, ftPc, ftSession)' /\ FtNoDebris'
  BY <1>1, TransferUntouched, Zenon
<1> QED
  BY <1>5, <1>7, <1>8, Zenon DEF FsInvariant

\* Where the worker goes on.
LEMMA WorkerContinues ==
  ASSUME wk \in WkWorkers, NEW state \in (WkStates \ {"idle"}) \union {"done"},
         NEW left \in 0 .. FsEntries, WkContinue(state, left), wkHalted \in BOOLEAN
  PROVE  /\ wk' \in WkWorkers /\ wkHalted' \in BOOLEAN
         /\ wk'.pc # "call" /\ (wk'.state = "failed" => wk'.pc = "close")
         /\ \/ state = "done" /\ wk' = WkIdle /\ fsHolder' = FsNobody
            \/ state # "done" /\ fsHolder' = fsHolder
<1>1. CASE state = "done"
  <2>1. WkIdle \in WkWorkers /\ WkIdle.pc = "ready" /\ WkIdle.state = "idle"
    BY FsAssumption DEF WkIdle, WkWorkers, WkStates, WkOperations
  <2> QED
    BY <1>1, <2>1, Zenon DEF WkContinue
<1>2. CASE state = "failed"
  <2>1. /\ wk' = [wk EXCEPT !.state = "failed", !.pc = "close", !.scheduled = FALSE]
        /\ fsHolder' = fsHolder /\ wkHalted' = wkHalted
    BY <1>2 DEF WkContinue
  <2>2. "failed" \in WkStates /\ FALSE \in BOOLEAN
    BY DEF WkStates
  <2>3. wk' \in WkWorkers
    BY <2>1, <2>2, Zenon DEF WkWorkers
  <2>4. wk'.pc = "close"
    BY <2>1, Zenon DEF WkWorkers
  <2> QED
    BY <1>2, <2>1, <2>3, <2>4
<1>3. CASE state \notin {"done", "failed"}
  <2>1. wkHalted' \in BOOLEAN /\ fsHolder' = fsHolder
    BY <1>3, Zenon DEF WkContinue
  <2>2. wk' = [wk EXCEPT !.state = state, !.left = left, !.requested = FALSE,
                         !.pc = IF wkHalted' THEN "close" ELSE "ready",
                         !.scheduled = ~wkHalted']
    BY <1>3, Zenon DEF WkContinue
  <2>3. (IF wkHalted' THEN "close" ELSE "ready") \in {"ready", "close"} /\ (~wkHalted') \in BOOLEAN
    BY <2>1, Zenon
  <2> QED
    BY <1>3, <2>1, <2>2, <2>3, Zenon DEF WkWorkers
<1> QED
  BY <1>1, <1>2, <1>3, Zenon

LEMMA WorkerPollKeeps ==
  ASSUME FsInvariant, UNCHANGED fsLoad, WkPoll
  PROVE  FsInvariant'
<1> USE DEF fsVolume, ftVars, netVars
<1>1. UNCHANGED <<fsVolume, wkCommands, ftVars, netVars, rd>>
  BY Zenon DEF WkPoll
<1>2. wk \in WkWorkers /\ wkHalted \in BOOLEAN
  BY Zenon DEF FsInvariant, FsTyped, FsTypeOK
<1>3. CASE wk.state = "idle"
  <2>1. wk.requested /\ WkContinue(WkFirst[wk.op], FsEntries) /\ UNCHANGED fsCall
    BY <1>3, Zenon DEF WkPoll
  <2>2. WkFirst[wk.op] \in WkStates \ {"idle", "failed"}
    BY <1>2 DEF WkFirst, WkWorkers, WkOperations, WkStates
  <2>3. FsEntries \in 0 .. FsEntries
    BY FsAssumption
  <2>4. WkFirst[wk.op] # "done"
    BY <2>2, Zenon DEF WkStates
  <2>5. /\ wk' \in WkWorkers /\ wkHalted' \in BOOLEAN /\ fsHolder' = fsHolder
        /\ wk'.pc # "call" /\ (wk'.state = "failed" => wk'.pc = "close")
    BY <1>2, <2>1, <2>2, <2>3, <2>4, WorkerContinues, Zenon
  <2>6. fsHolder = "worker"
    BY <2>1, Zenon DEF FsInvariant, FsHeld
  <2>7. FsTyped'
    BY <1>1, <2>1, <2>5 DEF FsInvariant, FsTyped, FsTypeOK
  <2>8. FsHeld'
    BY <1>1, <2>1, <2>5, <2>6, Zenon DEF FsInvariant, FsHeld, FsReserved
  <2> QED
    BY <1>1, <2>7, <2>8, TransferUntouched, Zenon DEF FsInvariant
<1>4. CASE wk.state # "idle"
  <2>1. /\ fsCall = FsNobody /\ fsCall' = "worker"
        /\ wk' = [wk EXCEPT !.pc = "call", !.scheduled = FALSE]
        /\ UNCHANGED <<fsHolder, wkHalted>> /\ wk.pc = "ready"
    BY <1>4, Zenon DEF WkPoll, FsEnter
  <2>2. wk' \in WkWorkers /\ wk'.state = wk.state /\ wk'.pc = "call" /\ wk'.requested = wk.requested
    BY <1>2, <2>1, Zenon DEF WkWorkers
  <2>3. wk.state # "failed"
    BY <2>1, Zenon DEF FsInvariant, FsHeld
  <2>4. FsTyped'
    BY <1>1, <2>1, <2>2 DEF FsInvariant, FsTyped, FsTypeOK, FsUsers
  <2>5. FsHeld'
    BY <1>1, <1>4, <2>1, <2>2, <2>3, Zenon DEF FsInvariant, FsHeld, FsReserved
  <2> QED
    BY <1>1, <2>4, <2>5, TransferUntouched, Zenon DEF FsInvariant
<1> QED
  BY <1>3, <1>4, Zenon

LEMMA WorkerReturnKeeps ==
  ASSUME FsInvariant, UNCHANGED fsLoad, WkReturn
  PROVE  FsInvariant'
<1> USE DEF ftVars, netVars
<1>1. UNCHANGED <<wkCommands, ftVars, netVars, rd>> /\ fsCall = "worker" /\ fsCall' = FsNobody
  BY Zenon DEF WkReturn, FsLeave
<1>2. /\ wk \in WkWorkers /\ wkHalted \in BOOLEAN /\ wk.state \notin {"idle", "failed"}
      /\ fsHolder = "worker" /\ ~ft.leased /\ ~ft.created /\ rd = "idle"
  BY <1>1, Zenon
     DEF FsInvariant, FsTyped, FsTypeOK, FsHeld, FsReserved, FsNobody, WkReturn,
         FtRequest, FtFile
<1>3. PICK r \in FsResults :
        /\ WkOperation(r)
        /\ IF r # "ok" THEN WkContinue("failed", wk.left)
           ELSE IF wk.state \in {"list", "read"}
           THEN \/ wk.left > 1 /\ WkContinue(wk.state, wk.left - 1)
                \/ WkContinue("close", wk.left)
           ELSE WkContinue(WkAfter[wk.state], wk.left)
  BY Zenon DEF WkReturn
<1>4. /\ FsVolumeOK'
      /\ \A n \in FsNames : fsDisk'[n] = "transfer" => fsDisk[n] = "transfer"
      /\ r = "ok" /\ wk.state \in {"mount", "unmount", "remove", "close"} => fsOpen' = "none"
  <2>1. FsVolumeOK
    BY Zenon DEF FsVolumeOK, FsInvariant, FsTyped, FsTypeOK
  <2> QED
    BY <1>2, <1>3, <2>1, WorkerOperates, Zenon
<1>5. PICK state \in (WkStates \ {"idle"}) \union {"done"}, left \in 0 .. FsEntries :
        /\ WkContinue(state, left)
        /\ state = "done" => r = "ok" /\ wk.state \in {"mount", "unmount", "remove", "close"}
  <2>1. wk.left \in 0 .. FsEntries /\ (wk.left > 1 => wk.left - 1 \in 0 .. FsEntries)
    BY <1>2, FsAssumption DEF WkWorkers
  <2>2. CASE r # "ok" \/ wk.state \in {"list", "read"}
    BY <1>2, <1>3, <2>1, <2>2 DEF WkStates
  <2>3. CASE r = "ok" /\ wk.state \notin {"list", "read"}
    <3>1. WkContinue(WkAfter[wk.state], wk.left)
      BY <1>3, <2>3, Zenon
    <3>2. /\ WkAfter[wk.state] \in (WkStates \ {"idle"}) \union {"done"}
          /\ WkAfter[wk.state] = "done" => wk.state \in {"mount", "unmount", "remove", "close"}
      BY <1>2, <2>3 DEF WkAfter, WkWorkers, WkStates
    <3> QED
      BY <2>1, <2>3, <3>1, <3>2, Zenon
  <2> QED
    BY <2>2, <2>3, Zenon
<1>6. /\ wk' \in WkWorkers /\ wkHalted' \in BOOLEAN
      /\ wk'.pc # "call" /\ (wk'.state = "failed" => wk'.pc = "close")
      /\ \/ state = "done" /\ wk' = WkIdle /\ fsHolder' = FsNobody
         \/ state # "done" /\ fsHolder' = fsHolder
  BY <1>2, <1>5, WorkerContinues, Zenon
<1>7. FsTyped'
  BY <1>1, <1>4, <1>6 DEF FsInvariant, FsTyped, FsTypeOK, FsVolumeOK, FsUsers, FsNobody
<1>8. FsHeld'
  <2>1. CASE fsHolder' = fsHolder
    BY <1>1, <1>2, <1>6, <2>1, Zenon DEF FsInvariant, FsHeld, FsReserved, FsNobody
  <2>2. CASE state = "done" /\ wk' = WkIdle /\ fsHolder' = FsNobody
    <3>1. fsOpen' = "none"
      BY <1>4, <1>5, <2>2, Zenon
    <3> QED
      BY <1>1, <1>2, <2>2, <3>1, Zenon DEF FsHeld, FsReserved, FsNobody, WkIdle
  <2> QED
    BY <1>6, <2>1, <2>2, Zenon
<1> QED
  BY <1>1, <1>2, <1>4, <1>7, <1>8, TransferUntouched, Zenon DEF FsInvariant

LEMMA WorkerGivesUpKeeps ==
  ASSUME FsInvariant, UNCHANGED fsLoad, WkGiveUpCall \/ WkGiveUp
  PROVE  FsInvariant'
<1> USE DEF fsVolume, ftVars, netVars, wkVars
<1>1. fsHolder = "worker" /\ ~ft.leased /\ rd = "idle"
  BY Zenon DEF FsInvariant, FsHeld, FsReserved, WkGiveUpCall, WkGiveUp
<1>2. CASE WkGiveUpCall
  <2>1. UNCHANGED <<fsVolume, fsHolder, wkVars, ftVars, netVars, rd>> /\ fsCall' = "worker"
    BY <1>2, Zenon DEF WkGiveUpCall, FsEnter
  <2>2. FsTyped'
    BY <2>1 DEF FsInvariant, FsTyped, FsTypeOK, FsUsers
  <2>3. FsHeld'
    BY <1>1, <2>1, Zenon DEF FsInvariant, FsHeld, FsReserved
  <2> QED
    BY <2>1, <2>2, <2>3, TransferUntouched, Zenon DEF FsInvariant
<1>3. CASE WkGiveUp
  <2>1. /\ UNCHANGED <<fsMounted, fsWritable, fsDisk, wkHalted, wkCommands, ftVars, netVars, rd>>
        /\ fsCall' = FsNobody /\ fsHolder' = FsNobody /\ fsOpen' = "none" /\ wk' = WkIdle
    BY <1>3, Zenon DEF WkGiveUp, FsLeave, FsClose
  <2>2. WkIdle \in WkWorkers
    BY FsAssumption DEF WkIdle, WkWorkers, WkStates, WkOperations
  <2>3. FsTyped'
    BY <2>1, <2>2 DEF FsInvariant, FsTyped, FsTypeOK, FsNobody, FsHandles
  <2>4. FsHeld'
    BY <1>1, <2>1, Zenon DEF FsHeld, FsReserved, FsNobody, WkIdle
  <2> QED
    BY <2>1, <2>3, <2>4, TransferUntouched, Zenon DEF FsInvariant
<1> QED
  BY <1>2, <1>3, Zenon

LEMMA ReaderKeeps ==
  ASSUME FsInvariant, UNCHANGED fsLoad, RdReserve \/ RdCall \/ RdReturn
  PROVE  FsInvariant'
<1> USE DEF fsVolume, ftVars, netVars, wkVars
<1>1. CASE RdReserve
  <2>1. /\ UNCHANGED <<fsVolume, fsCall, wkVars, ftVars, netVars>> /\ fsHolder = FsNobody
        /\ fsHolder' = "reader" /\ rd' = "reserved"
    BY <1>1, Zenon DEF RdReserve
  <2>2. FsTyped'
    BY <2>1 DEF FsInvariant, FsTyped, FsTypeOK, FsUsers
  <2>3. FsHeld'
    BY <2>1, Zenon DEF FsInvariant, FsHeld, FsReserved, FsNobody
  <2> QED
    BY <2>1, <2>2, <2>3, TransferUntouched, Zenon DEF FsInvariant
<1>2. CASE RdCall
  <2>1. /\ UNCHANGED <<fsVolume, fsHolder, wkVars, ftVars, netVars>> /\ fsCall' = "reader"
        /\ \/ rd = "reserved" /\ rd' = "opening"
           \/ rd = "open" /\ rd' \in {"reading", "seeking", "closing"}
    BY <1>2, Zenon DEF RdCall, FsEnter
  <2>2. FsTyped'
    BY <2>1 DEF FsInvariant, FsTyped, FsTypeOK, FsUsers
  <2>3. FsHeld'
    BY <2>1, Zenon DEF FsInvariant, FsHeld, FsReserved
  <2> QED
    BY <2>1, <2>2, <2>3, TransferUntouched, Zenon DEF FsInvariant
<1>3. CASE RdReturn
  <2>1. /\ UNCHANGED <<wkVars, ftVars, netVars>> /\ fsCall = "reader" /\ fsCall' = FsNobody
        /\ fsHolder = "reader"
    BY <1>3, Zenon DEF RdReturn, FsLeave, FsInvariant, FsHeld, FsReserved, FsNobody
  <2>2. /\ UNCHANGED <<fsMounted, fsWritable, fsDisk>> /\ fsOpen' \in FsHandles
        /\ \/ rd' = "idle" /\ fsHolder' = FsNobody /\ fsOpen' = "none"
           \/ rd' = "open" /\ fsHolder' = fsHolder
    <3>1. PICK r \in FsResults :
            \/ /\ rd = "opening" /\ \E n \in FsNames : FsOpenFile(n, r)
               /\ IF r = "ok" THEN rd' = "open" /\ UNCHANGED fsHolder
                  ELSE rd' = "idle" /\ fsHolder' = FsNobody
            \/ /\ \/ rd = "reading" /\ FsRead(r)
                  \/ rd = "seeking" /\ FsSeek(r)
               /\ rd' = "open" /\ UNCHANGED fsHolder
            \/ /\ rd = "closing" /\ FsClose(r)
               /\ rd' = "idle" /\ fsHolder' = FsNobody
      BY <1>3, Zenon DEF RdReturn
    <3>2. fsOpen \in FsHandles /\ (rd = "opening" => fsOpen = "none")
      BY <2>1, Zenon DEF FsInvariant, FsHeld, FsTyped, FsTypeOK
    <3>3. CASE rd = "opening"
      BY <3>1, <3>2, <3>3, Zenon DEF FsOpenFile, FsKeep, FsHandles
    <3>4. CASE rd # "opening"
      BY <3>1, <3>2, <3>4, Zenon DEF FsRead, FsSeek, FsClose, FsKeep, FsHandles
    <3> QED
      BY <3>3, <3>4, Zenon
  <2>3. FsTyped'
    BY <2>1, <2>2 DEF FsInvariant, FsTyped, FsTypeOK, FsUsers, FsNobody
  <2>4. FsHeld'
    BY <2>1, <2>2, Zenon DEF FsInvariant, FsHeld, FsReserved, FsNobody
  <2> QED
    BY <2>1, <2>2, <2>3, <2>4, TransferUntouched, Zenon DEF FsInvariant
<1> QED
  BY <1>1, <1>2, <1>3, Zenon

LEMMA StopKeeps ==
  ASSUME FsInvariant, UNCHANGED fsLoad, FtStop
  PROVE  FsInvariant'
<1> USE DEF fsVolume, netVars, wkVars
<1>1. /\ UNCHANGED <<fsVolume, fsCall, fsHolder, wkVars, ft, ftPc, ftSession, ftStopped, ftReported,
                     netVars, rd>>
      /\ ftStopping' = TRUE
  BY Zenon DEF FtStop
<1>2. FsTyped'
  BY <1>1 DEF FsInvariant, FsTyped, FsTypeOK
<1>3. FsHeld'
  BY <1>1, Zenon DEF FsInvariant, FsHeld, FsReserved
<1> QED
  BY <1>1, <1>2, <1>3, TransferUntouched, Zenon DEF FsInvariant

-----------------------------------------------------------------------------
(* The transfer *)

\* sent()
LEMMA SentType == \A t \in FtTransfers : FtSent(t) \in FtTransfers
<1> SUFFICES ASSUME NEW t \in FtTransfers PROVE FtSent(t) \in FtTransfers
  BY Zenon
<1>1. /\ {} \in SUBSET FsSessions /\ "none" \in FtReplies /\ 0 \in 0 .. 2 /\ 1 \in 1 .. 2
      /\ "none" \in FtBegin \union FtContinue \union {"none"} /\ FALSE \in BOOLEAN
  BY DEF FtReplies
<1> QED
  BY <1>1, Zenon DEF FtSent, FtTransfers

\* A request released.
LEMMA ReleasedType ==
  \A t \in FtTransfers, status \in {"ok", "failed", "cleanup"} :
    [t EXCEPT !.created = FALSE, !.leased = FALSE, !.status = status,
              !.state = "receiving", !.mode = "none", !.size = 0, !.offset = 0] \in FtTransfers
<1>1. 0 \in 0 .. FsMaxSize
  BY FsAssumption
<1> SUFFICES ASSUME NEW t \in FtTransfers, NEW status \in {"ok", "failed", "cleanup"}
             PROVE  [t EXCEPT !.created = FALSE, !.leased = FALSE, !.status = status,
                              !.state = "receiving", !.mode = "none", !.size = 0,
                              !.offset = 0] \in FtTransfers
  BY Zenon
<1> QED
  BY <1>1, Zenon DEF FtTransfers

\* A request forgotten, once it is reported.
LEMMA ForgottenType ==
  \A t \in FtTransfers : [t EXCEPT !.name = "none", !.status = "ok"] \in FtTransfers
<1> SUFFICES ASSUME NEW t \in FtTransfers
             PROVE  [t EXCEPT !.name = "none", !.status = "ok"] \in FtTransfers
  BY Zenon
<1> QED
  BY Zenon DEF FtTransfers

\* The end of Cleanup(): nothing of the request is left, and only one that succeeded for a
\* client still there is answered well.
LEMMA CleanedUp ==
  ASSUME NEW t \in FtTransfers, NEW session, FtFragments(t, session), NEW failed \in BOOLEAN,
         FtCleaned(t, failed), ~t.opened
  PROVE  /\ FtRequest(ft', "after", session) /\ ftPc' = "after"
         /\ ~ft'.created /\ ~ft'.leased /\ ft'.name = t.name
         /\ failed => ft'.status = "cleanup"
         /\ fsHolder' = IF t.leased THEN FsNobody ELSE fsHolder
         /\ ft'.reply = "good" => ~t.gone /\ ~failed /\ t.status = "ok" /\ ft'.op = t.op
<1> DEFINE status == IF failed THEN "cleanup" ELSE t.status
           u == [t EXCEPT !.created = FALSE, !.leased = FALSE, !.status = status,
                          !.state = "receiving", !.mode = "none", !.size = 0, !.offset = 0]
<1>1. /\ ft' = IF t.gone THEN [FtSent(u) EXCEPT !.gone = FALSE] ELSE FtReply(u)
      /\ fsHolder' = IF t.leased THEN FsNobody ELSE fsHolder
      /\ ftPc' = "after"
  BY Zenon DEF FtCleaned
<1>2. status \in {"ok", "failed", "cleanup"}
  BY Zenon DEF FtTransfers
<1>3. /\ u \in FtTransfers /\ ~u.created /\ ~u.leased /\ u.status = status /\ u.state = "receiving"
      /\ u.mode = "none" /\ u.from = t.from /\ u.received = t.received /\ u.needed = t.needed
      /\ u.gone = t.gone /\ u.op = t.op /\ u.name = t.name /\ u.opened = t.opened
  <2>2. u \in FtTransfers
    BY <1>2, ReleasedType, Zenon
  <2>3. u.created = FALSE /\ u.leased = FALSE
    BY Zenon DEF FtTransfers
  <2>4. /\ u.status = status /\ u.state = "receiving"
        /\ u.mode = "none" /\ u.from = t.from /\ u.received = t.received /\ u.needed = t.needed
        /\ u.gone = t.gone /\ u.op = t.op /\ u.name = t.name /\ u.opened = t.opened
    BY Zenon DEF FtTransfers
  <2> QED
    BY <2>2, <2>3, <2>4, Zenon
<1> HIDE DEF u
<1>4. CASE t.gone
  <2>1. ft' = [FtSent(u) EXCEPT !.gone = FALSE]
    BY <1>1, <1>4, Zenon
  <2>2. /\ ft' \in FtTransfers /\ ~ft'.created /\ ~ft'.leased /\ ft'.status = status
        /\ ft'.state = "receiving" /\ ft'.mode = "none" /\ ft'.from = {} /\ ft'.received = 0
        /\ ft'.needed = 1 /\ ft'.op = "none" /\ ft'.reply = "none" /\ ft'.name = t.name
        /\ ft'.opened = t.opened
    <3>1. ft' \in FtTransfers
      <4>1. FtSent(u) \in FtTransfers
        BY <1>3, SentType, Zenon
      <4> QED
        BY <2>1, <4>1, Zenon DEF FtTransfers
    <3>2. /\ ft'.created = u.created /\ ft'.leased = u.leased /\ ft'.status = u.status
          /\ ft'.state = u.state /\ ft'.mode = u.mode /\ ft'.from = {} /\ ft'.received = 0
          /\ ft'.needed = 1 /\ ft'.op = "none" /\ ft'.reply = "none" /\ ft'.name = u.name
          /\ ft'.opened = u.opened
      BY <1>3, <2>1, Zenon DEF FtSent, FtTransfers
    <3> QED
      BY <1>3, <3>1, <3>2, Zenon
  <2>3. FtRequest(ft', "after", session)
    BY <2>2 DEF FtRequest, FtFragments, FtPhase, FtFile
  <2> QED
    BY <1>1, <2>2, <2>3, Zenon
<1>5. CASE ~t.gone
  <2>1. ft' = FtReply(u)
    BY <1>1, <1>5, Zenon
  <2>2. /\ ft' \in FtTransfers /\ ~ft'.created /\ ~ft'.leased /\ ft'.status = status
        /\ ft'.state = "receiving" /\ ft'.mode = "none" /\ ft'.from = t.from
        /\ ft'.received = t.received /\ ft'.needed = t.needed /\ ft'.op = t.op
        /\ ft'.reply = (IF status = "ok" THEN "good" ELSE "bad") /\ ft'.name = t.name
        /\ ft'.gone = t.gone /\ ft'.opened = t.opened
    BY <1>3, <2>1 DEF FtReply, FtTransfers, FtReplies
  <2>3. FtRequest(ft', "after", session)
    BY <2>2, Zenon DEF FtRequest, FtFragments, FtPhase, FtFile
  <2> QED
    BY <1>1, <1>5, <2>2, <2>3, Zenon
<1> QED
  BY <1>4, <1>5, Zenon

\* A request that is to be cleaned up.
LEMMA CleanupDueKeeps ==
  ASSUME NEW t, NEW session, FtRequest(t, "idle", session), NEW status \in {"ok", "failed"},
         status = "ok" => t.mode = "download" /\ t.state = "executing",
         NEW u \in {FtCleanupDue(t, status), [FtCleanupDue(t, status) EXCEPT !.reply = "none"]},
         t.state = "receiving" => u # FtCleanupDue(t, status) \/ t.reply = "none"
  PROVE  /\ FtRequest(u, "after", session) /\ u.leased = t.leased /\ u.opened = t.opened
         /\ u.created = t.created /\ u.name = t.name /\ u.reply = "none"
<1>1. t \in FtTransfers /\ FtFragments(t, session) /\ FtPhase(t, "idle") /\ FtFile(t, "idle")
  BY Zenon DEF FtRequest
<1>2. u \in FtTransfers /\ u.state = "cleanup" /\ u.status = status
  <2> DEFINE due == FtCleanupDue(t, status)
  <2>1. due \in FtTransfers
    BY <1>1 DEF FtCleanupDue, FtTransfers
  <2>2. due.state = "cleanup" /\ due.status = status
    BY <1>1, Zenon DEF FtCleanupDue, FtTransfers
  <2> HIDE DEF due
  <2>3. [due EXCEPT !.reply = "none"] \in FtTransfers
    BY <2>1 DEF FtTransfers, FtReplies
  <2>4. [due EXCEPT !.reply = "none"].state = due.state
        /\ [due EXCEPT !.reply = "none"].status = due.status
    BY <2>1, Zenon DEF FtTransfers
  <2>5. u = due \/ u = [due EXCEPT !.reply = "none"]
    BY DEF due
  <2> QED
    BY <2>1, <2>2, <2>3, <2>4, <2>5
<1>3. /\ u.leased = t.leased /\ u.opened = t.opened /\ u.created = t.created /\ u.name = t.name
      /\ u.mode = t.mode /\ u.op = t.op /\ u.from = t.from /\ u.received = t.received
      /\ u.needed = t.needed /\ u.gone = t.gone
  BY <1>1, Zenon DEF FtCleanupDue, FtTransfers
<1>4. u.reply = "none"
  BY <1>1, Zenon DEF FtCleanupDue, FtTransfers, FtPhase
<1>5. FtFragments(u, session)
  BY <1>1, <1>3 DEF FtFragments
<1>6. FtPhase(u, "after")
  BY <1>2, <1>4, Zenon DEF FtPhase
<1>7. FtFile(u, "after")
  BY <1>1, <1>2, <1>3, Zenon DEF FtFile, FtPhase
<1> QED
  BY <1>2, <1>3, <1>4, <1>5, <1>6, <1>7, Zenon DEF FtRequest

\* What one Step() of a request t may do to it, to the volume's guard and to the reservation:
\* nothing outside; begin, continue or close with a volume operation; or release.
FtReached(t, session) ==
  /\ FtRequest(ft', ftPc', session)
  /\ t.created => ft'.created /\ ft'.name = t.name
  /\ ft'.reply = "good" /\ ft'.reply # t.reply => ft'.op # "finish"
  /\ \/ /\ fsHolder' = fsHolder /\ fsCall' = fsCall /\ ftPc' = "after"
        /\ ft'.leased = t.leased /\ ft'.opened = t.opened
     \/ /\ fsHolder = FsNobody /\ fsHolder' = "transfer" /\ fsCall = FsNobody
        /\ fsCall' = "transfer" /\ ft'.leased /\ ftPc' = "execute"
     \/ /\ fsHolder' = fsHolder /\ fsCall = FsNobody /\ fsCall' = "transfer"
        /\ t.leased /\ ft'.leased /\ ft'.opened = t.opened /\ ftPc' = "execute"
     \/ /\ fsHolder' = fsHolder /\ fsCall = FsNobody /\ fsCall' = "transfer"
        /\ ft' = t /\ t.opened /\ ftPc' = "close"
     \/ /\ fsHolder' = (IF t.leased THEN FsNobody ELSE fsHolder) /\ fsCall' = fsCall
        /\ ~t.opened /\ ~ft'.leased /\ ftPc' = "after"

LEMMA TransferSteps ==
  ASSUME NEW t, NEW session, FtRequest(t, "idle", session), FtStep(t)
  PROVE  FtReached(t, session)
<1> DEFINE Goal == /\ FtRequest(ft', ftPc', session) /\ ft'.reply \in {t.reply, "none"}
                   /\ t.created => ft'.created /\ ft'.name = t.name
                   /\ fsHolder' = fsHolder /\ fsCall' = fsCall /\ ftPc' = "after"
                   /\ ft'.leased = t.leased /\ ft'.opened = t.opened
<1>0. Goal => FtReached(t, session)
  BY Zenon DEF FtReached
<1>1. t \in FtTransfers /\ FtFragments(t, session) /\ FtPhase(t, "idle") /\ FtFile(t, "idle")
  BY Zenon DEF FtRequest
<1>2. ASSUME t.state = "receiving", NEW expired \in BOOLEAN, ftPc' = "after",
             UNCHANGED <<fsCall, fsHolder>>,
             ft' = IF t.gone \/ expired \/ t.malformed
                   THEN [FtCleanupDue(t, "failed") EXCEPT !.reply = "none"]
                   ELSE IF t.reply = "none" /\ t.received = t.needed
                   THEN [t EXCEPT !.state = "executing"]
                   ELSE t
      PROVE  Goal
  <2>1. CASE ft' = [FtCleanupDue(t, "failed") EXCEPT !.reply = "none"]
    <3>1. ft' # FtCleanupDue(t, "failed") \/ t.reply = "none"
      BY <1>1, <2>1, Zenon DEF FtCleanupDue, FtTransfers
    <3>2. ft' \in {FtCleanupDue(t, "failed"), [FtCleanupDue(t, "failed") EXCEPT !.reply = "none"]}
      BY <2>1, Zenon
    <3>3. /\ FtRequest(ft', "after", session) /\ ft'.leased = t.leased /\ ft'.opened = t.opened
          /\ ft'.created = t.created /\ ft'.name = t.name /\ ft'.reply = "none"
      BY <3>1, <3>2, CleanupDueKeeps, Zenon
    <3> QED
      BY <1>2, <3>3, Zenon
  <2>2. CASE ft' = [t EXCEPT !.state = "executing"] /\ t.reply = "none"
    <3>1. /\ ft' \in FtTransfers /\ ft'.state = "executing" /\ ft'.reply = "none"
      BY <1>1, <2>2, Zenon DEF FtTransfers
    <3>2. /\ ft'.leased = t.leased /\ ft'.opened = t.opened /\ ft'.created = t.created
          /\ ft'.name = t.name /\ ft'.mode = t.mode /\ ft'.op = t.op /\ ft'.from = t.from
          /\ ft'.received = t.received /\ ft'.needed = t.needed /\ ft'.gone = t.gone
      BY <1>1, <2>2, Zenon DEF FtTransfers
    <3>3. FtFragments(ft', session)
      BY <1>1, <3>2, Zenon DEF FtFragments
    <3>4. FtPhase(ft', "after")
      BY <1>1, <1>2, <2>2, <3>1, <3>2, Zenon DEF FtPhase
    <3>5. FtFile(ft', "after")
      BY <1>1, <1>2, <3>1, <3>2, Zenon DEF FtFile
    <3> QED
      BY <1>2, <3>1, <3>2, <3>3, <3>4, <3>5, Zenon DEF FtRequest
  <2>3. CASE ft' = t
    <3>1. FtPhase(t, "after") /\ FtFile(t, "after")
      BY <1>1, Zenon DEF FtPhase, FtFile
    <3> QED
      BY <1>1, <1>2, <2>3, <3>1, Zenon DEF FtRequest
  <2> QED
    BY <1>2, <2>1, <2>2, <2>3, Zenon
<1>3. ASSUME t.state = "executing", ftPc' = "after", UNCHANGED <<fsCall, fsHolder>>,
             \/ ft' = FtCleanupDue(t, "failed")
             \/ ft' = FtCleanupDue(t, "ok") /\ t.mode = "download"
      PROVE  Goal
  <2>1. CASE ft' = FtCleanupDue(t, "failed")
    <3>1. /\ FtRequest(ft', "after", session) /\ ft'.leased = t.leased /\ ft'.opened = t.opened
          /\ ft'.created = t.created /\ ft'.name = t.name /\ ft'.reply = "none"
      BY <1>3, <2>1, CleanupDueKeeps, Zenon
    <3> QED
      BY <1>3, <3>1, Zenon
  <2>2. CASE ft' = FtCleanupDue(t, "ok") /\ t.mode = "download"
    <3>1. /\ FtRequest(ft', "after", session) /\ ft'.leased = t.leased /\ ft'.opened = t.opened
          /\ ft'.created = t.created /\ ft'.name = t.name /\ ft'.reply = "none"
      BY <1>3, <2>2, CleanupDueKeeps, Zenon
    <3> QED
      BY <1>3, <3>1, Zenon
  <2> QED
    BY <1>3, <2>1, <2>2, Zenon
<1>4. CASE t.state = "executing" /\ ~t.gone /\ FtExecute(t)
  <2>1. ASSUME NEW op \in FtBegin, NEW name \in FsNames,
               NEW size \in (IF op = "upload" THEN 0 .. FsMaxSize ELSE {0}),
               FtBegins(t, op, name, size), ~t.leased, FtReserve(op \in {"upload", "mutate"}) = "ok"
        PROVE  FtReached(t, session)
    <3>0. /\ ft' = [t EXCEPT !.op = op, !.name = name, !.mode = op, !.size = size, !.offset = 0,
                             !.leased = TRUE]
          /\ fsHolder' = "transfer" /\ FsEnter("transfer") /\ ftPc' = "execute"
      BY <2>1, Zenon DEF FtBegins
    <3>1. fsHolder = FsNobody /\ ~t.created
      BY <1>1, <2>1, Zenon DEF FtReserve, FtFile
    <3>2. size \in 0 .. FsMaxSize /\ 0 \in 0 .. FsMaxSize
      BY FsAssumption
    <3>3. ft' \in FtTransfers
      BY <1>1, <3>0, <3>2, Zenon DEF FtTransfers, FtBegin
    <3>4. /\ ft'.leased = TRUE /\ ft'.op = op /\ ft'.mode = op /\ ft'.name = name
          /\ ft'.created = t.created /\ ft'.from = t.from /\ ft'.received = t.received
          /\ ft'.needed = t.needed /\ ft'.gone = t.gone /\ ft'.state = t.state
          /\ ft'.reply = t.reply /\ ft'.opened = t.opened
      BY <1>1, <3>0, Zenon DEF FtTransfers
    <3>5. FtFragments(ft', session)
      BY <1>1, <3>4, Zenon DEF FtFragments
    <3>6. FtPhase(ft', "execute")
      BY <1>1, <1>4, <3>1, <3>4, Zenon DEF FtPhase, FtMode, FtBegin
    <3>7. FtFile(ft', "execute")
      BY <1>4, <3>1, <3>4, Zenon DEF FtFile
    <3> QED
      BY <3>0, <3>1, <3>3, <3>4, <3>5, <3>6, <3>7, Zenon
         DEF FtReached, FtRequest, FsEnter
  <2>2. ASSUME NEW op \in FtContinue, t.leased, FtCalls(t, op), FsEnter("transfer"), UNCHANGED fsHolder,
               ftPc' = "execute", ft' = [t EXCEPT !.op = op, !.status = "ok"]
        PROVE  FtReached(t, session)
    <3>1. ft' \in FtTransfers
      BY <1>1, <2>2, Zenon DEF FtTransfers
    <3>2. /\ ft'.leased = t.leased /\ ft'.op = op /\ ft'.mode = t.mode /\ ft'.name = t.name
          /\ ft'.created = t.created /\ ft'.from = t.from /\ ft'.received = t.received
          /\ ft'.needed = t.needed /\ ft'.gone = t.gone /\ ft'.state = t.state
          /\ ft'.reply = t.reply /\ ft'.opened = t.opened /\ ft'.offset = t.offset /\ ft'.size = t.size
      BY <1>1, <2>2, Zenon DEF FtTransfers
    <3>3. FtFragments(ft', session)
      BY <1>1, <3>2, Zenon DEF FtFragments
    <3>4. FtPhase(ft', "execute")
      BY <1>1, <1>4, <2>2, <3>2 DEF FtCalls, FtPhase, FtMode, FtBegin, FtContinue
    <3>5. FtFile(ft', "execute")
      BY <1>1, <1>4, <3>2, Zenon DEF FtFile
    <3> QED
      BY <2>2, <3>1, <3>2, <3>3, <3>4, <3>5, Zenon DEF FtReached, FtRequest, FsEnter
  <2>3. ASSUME NEW op \in FtBegin, NEW name \in FsNames,
               NEW size \in (IF op = "upload" THEN 0 .. FsMaxSize ELSE {0}), FtBegins(t, op, name, size)
        PROVE  FtReached(t, session)
    <3>1. CASE ~t.leased /\ FtReserve(op \in {"upload", "mutate"}) = "ok"
      BY <2>1, <2>3, <3>1, Zenon
    <3>2. CASE ~(~t.leased /\ FtReserve(op \in {"upload", "mutate"}) = "ok")
      BY <1>0, <1>3, <1>4, <2>3, <3>2, Zenon DEF FtBegins
    <3> QED
      BY <3>1, <3>2, Zenon
  <2>4. ASSUME NEW op \in FtContinue, FtContinues(t, op)
        PROVE  FtReached(t, session)
    BY <1>0, <1>3, <1>4, <2>2, <2>4, Zenon DEF FtContinues
  <2> QED
    BY <1>4, <2>3, <2>4, Zenon DEF FtExecute
<1>5. CASE t.state = "cleanup" /\ t.opened /\ FsEnter("transfer") /\ ft' = t /\ ftPc' = "close"
           /\ UNCHANGED fsHolder
  <2>1. FtPhase(t, "close") /\ FtFile(t, "close")
    BY <1>1, <1>5, Zenon DEF FtPhase, FtFile
  <2> QED
    BY <1>1, <1>5, <2>1, Zenon DEF FtReached, FtRequest, FsEnter
<1>6. CASE t.state = "cleanup" /\ ~t.opened /\ FtCleaned(t, FALSE) /\ UNCHANGED fsCall
  <2>1. ~t.created
    BY <1>1, <1>6, Zenon DEF FtFile
  <2>2. t.op = "finish" => t.status # "ok"
    BY <1>1, <1>6, <2>1, Zenon DEF FtFile
  <2>3. /\ FtRequest(ft', "after", session) /\ ftPc' = "after" /\ ~ft'.leased
        /\ fsHolder' = IF t.leased THEN FsNobody ELSE fsHolder
        /\ ft'.reply = "good" => t.status = "ok" /\ ft'.op = t.op
    BY <1>1, <1>6, CleanedUp, Zenon
  <2> QED
    BY <1>6, <2>1, <2>2, <2>3, Zenon DEF FtReached
<1> QED
  BY <1>0, <1>2, <1>3, <1>4, <1>5, <1>6, Zenon DEF FtStep

\* A client that has left: the request is only to be cleaned up.
LEMMA GoneKeeps ==
  ASSUME NEW t, NEW pc, NEW old, NEW session, FtRequest(t, pc, old)
  PROVE  LET u == [t EXCEPT !.gone = TRUE]
         IN  /\ FtRequest(u, pc, session) /\ u.leased = t.leased /\ u.opened = t.opened
             /\ u.created = t.created /\ u.name = t.name /\ u.reply = t.reply /\ u.state = t.state
<1> DEFINE u == [t EXCEPT !.gone = TRUE]
<1>1. t \in FtTransfers /\ FtFragments(t, old) /\ FtPhase(t, pc) /\ FtFile(t, pc)
  BY Zenon DEF FtRequest
<1>2. u \in FtTransfers /\ u.gone = TRUE
  BY <1>1, Zenon DEF FtTransfers
<1>3. /\ u.leased = t.leased /\ u.opened = t.opened /\ u.created = t.created /\ u.name = t.name
      /\ u.reply = t.reply /\ u.state = t.state /\ u.op = t.op /\ u.mode = t.mode
      /\ u.status = t.status /\ u.offset = t.offset /\ u.size = t.size
      /\ u.from = t.from /\ u.received = t.received /\ u.needed = t.needed
  BY <1>1, Zenon DEF FtTransfers
<1> HIDE DEF u
<1>4. FtFragments(u, session)
  BY <1>1, <1>2, <1>3, Zenon DEF FtFragments
<1>5. FtPhase(u, pc)
  BY <1>1, <1>2, <1>3, Zenon DEF FtPhase
<1>6. FtFile(u, pc)
  BY <1>1, <1>3, Zenon DEF FtFile
<1> QED
  BY <1>2, <1>3, <1>4, <1>5, <1>6, Zenon DEF FtRequest, u

\* Session() marks a request of another session; the others have no bytes of one.
LEMMA SessionChecked ==
  ASSUME FsInvariant, ftPc \in {"idle", "after"}, NEW session \in FsSessions
  PROVE  LET t == FtCheckSession(ft, session)
         IN  /\ FtRequest(t, ftPc, session) /\ t.leased = ft.leased /\ t.opened = ft.opened
             /\ t.created = ft.created /\ t.name = ft.name /\ t.reply = ft.reply
             /\ t.state = ft.state
<1> DEFINE t == FtCheckSession(ft, session)
<1>1. /\ ft \in FtTransfers /\ FtFragments(ft, ftSession) /\ FtPhase(ft, ftPc) /\ FtFile(ft, ftPc)
  BY Zenon DEF FsInvariant, FtRequest
<1>2. CASE session # ftSession /\ (FtBusy(ft) \/ ft.reply # "none")
  <2>1. t = [ft EXCEPT !.gone = TRUE]
    BY <1>2, Zenon DEF FtCheckSession
  <2> QED
    BY <2>1, GoneKeeps, Zenon DEF FsInvariant
<1>3. CASE ~(session # ftSession /\ (FtBusy(ft) \/ ft.reply # "none"))
  <2>1. t = ft
    BY <1>3, Zenon DEF FtCheckSession
  <2>2. FtFragments(ft, session)
    <3>1. CASE session = ftSession
      BY <1>1, <3>1, Zenon
    <3>2. CASE ~FtBusy(ft)
      <4>1. ft.received = 0
        BY <1>1, <3>2 DEF FtBusy, FtTransfers
      <4> QED
        BY <1>1, <4>1, Zenon DEF FtFragments
    <3> QED
      BY <1>3, <3>1, <3>2, Zenon
  <2> QED
    BY <1>1, <2>1, <2>2, Zenon DEF FtRequest
<1> QED
  BY <1>2, <1>3, Zenon

\* feed(): a fragment of the session the request is in.
LEMMA Fed ==
  ASSUME NEW t, NEW session, FtRequest(t, "idle", session), FtFeeds(t), netSession = session,
         session \in FsSessions, NEW payload \in BOOLEAN, NEW malformed \in BOOLEAN
  PROVE  LET u == FtFeed(t, payload, malformed)
         IN  /\ FtRequest(u, "idle", session) /\ u.leased = t.leased /\ u.opened = t.opened
             /\ u.created = t.created /\ u.name = t.name /\ u.reply = t.reply
<1> DEFINE u == FtFeed(t, payload, malformed)
<1>1. /\ t \in FtTransfers /\ FtFragments(t, session) /\ FtPhase(t, "idle") /\ FtFile(t, "idle")
  BY Zenon DEF FtRequest
<1>2. t.received \in 0 .. 2 /\ t.needed \in 1 .. 2 /\ t.received < t.needed /\ ~t.gone
  BY <1>1, Zenon DEF FtTransfers, FtFeeds
<1>3. /\ t.received + 1 \in 0 .. 2 /\ t.from \union {session} \in SUBSET FsSessions
      /\ (IF t.received = 0 /\ payload /\ ~malformed THEN 2 ELSE t.needed) \in 1 .. 2
  BY <1>1, <1>2 DEF FtTransfers
<1>4. u \in FtTransfers
  BY <1>1, <1>3 DEF FtFeed, FtTransfers
<1>5. /\ u.leased = t.leased /\ u.opened = t.opened /\ u.created = t.created /\ u.name = t.name
      /\ u.reply = t.reply /\ u.state = t.state /\ u.op = t.op /\ u.mode = t.mode
      /\ u.status = t.status /\ u.offset = t.offset /\ u.size = t.size /\ u.gone = t.gone
      /\ u.from = t.from \union {session} /\ u.received = t.received + 1
      /\ u.needed = (IF t.received = 0 /\ payload /\ ~malformed THEN 2 ELSE t.needed)
  BY <1>1, Zenon DEF FtFeed, FtTransfers
<1> HIDE DEF u
<1>6. FtFragments(u, session)
  BY <1>1, <1>2, <1>5 DEF FtFragments
<1>7. FtPhase(u, "idle")
  BY <1>1, <1>5, Zenon DEF FtPhase
<1>8. FtFile(u, "idle")
  BY <1>1, <1>5, Zenon DEF FtFile
<1> QED
  BY <1>4, <1>5, <1>6, <1>7, <1>8, Zenon DEF FtRequest, u

\* Poll() is a Step() of the request as it is after the session was checked and a fragment fed.
LEMMA PollReaches ==
  ASSUME FsInvariant, FtPoll
  PROVE  /\ \E t : /\ FtReached(t, ftSession') /\ t.leased = ft.leased /\ t.opened = ft.opened
                   /\ t.created = ft.created /\ t.name = ft.name /\ t.reply = ft.reply
         /\ netSession' \in {netSession, netSession + 1} /\ netClient' \in BOOLEAN
         /\ netClient' => netClient /\ netSession' = netSession
         /\ netSession' # netSession => netClient
         /\ netIn' \in 0 .. 1 /\ ftSession' = netSession'
<1>1. /\ netSession \in FsSessions /\ netClient \in BOOLEAN /\ netIn \in 0 .. 1 /\ ftPc = "idle"
      /\ ft \in FtTransfers
  BY Zenon DEF FsInvariant, FsTyped, FsTypeOK, FtPoll
<1>2. CASE ftStopping
  <2>1. /\ netClient' = FALSE /\ netIn' = 0
        /\ netSession' = (IF netClient THEN netSession + 1 ELSE netSession)
        /\ ftSession' = netSession' /\ FtStep([ft EXCEPT !.gone = TRUE])
    BY <1>2, Zenon DEF FtPoll
  <2>2. /\ FtRequest([ft EXCEPT !.gone = TRUE], "idle", ftSession')
        /\ [ft EXCEPT !.gone = TRUE].leased = ft.leased /\ [ft EXCEPT !.gone = TRUE].opened = ft.opened
        /\ [ft EXCEPT !.gone = TRUE].created = ft.created /\ [ft EXCEPT !.gone = TRUE].name = ft.name
        /\ [ft EXCEPT !.gone = TRUE].reply = ft.reply
    BY <1>1, GoneKeeps, Zenon DEF FsInvariant
  <2>3. FtReached([ft EXCEPT !.gone = TRUE], ftSession')
    BY <2>1, <2>2, TransferSteps, Zenon
  <2>4. netClient' \in BOOLEAN /\ ~netClient'
    BY <2>1, Zenon
  <2>5. netSession' \in {netSession, netSession + 1} /\ (netSession' # netSession => netClient)
    BY <2>1, Zenon
  <2>6. netIn' \in 0 .. 1
    BY <2>1
  <2> QED
    BY <2>1, <2>2, <2>3, <2>4, <2>5, <2>6, Zenon
<1>3. CASE ~ftStopping
  <2> DEFINE t == FtCheckSession(ft, netSession)
  <2>1. /\ ftSession' = netSession /\ UNCHANGED <<netSession, netClient>>
        /\ IF netIn > 0 /\ FtFeeds(t)
           THEN /\ netIn' = netIn - 1
                /\ \E payload, malformed \in BOOLEAN :
                     /\ malformed => t.received = 0
                     /\ FtStep(FtFeed(t, payload, malformed))
           ELSE UNCHANGED netIn /\ FtStep(t)
    BY <1>3, Zenon DEF FtPoll
  <2>2. /\ FtRequest(t, "idle", netSession) /\ t.leased = ft.leased /\ t.opened = ft.opened
        /\ t.created = ft.created /\ t.name = ft.name /\ t.reply = ft.reply
    BY <1>1, SessionChecked, Zenon
  <2> HIDE DEF t
  <2>3. CASE netIn > 0 /\ FtFeeds(t)
    <3>1. PICK payload, malformed \in BOOLEAN : FtStep(FtFeed(t, payload, malformed))
      BY <2>1, <2>3, Zenon
    <3> DEFINE u == FtFeed(t, payload, malformed)
    <3>2. /\ FtRequest(u, "idle", netSession) /\ u.leased = t.leased /\ u.opened = t.opened
          /\ u.created = t.created /\ u.name = t.name /\ u.reply = t.reply
      BY <1>1, <2>2, <2>3, Fed, Zenon
    <3> HIDE DEF u
    <3>3. FtReached(u, netSession)
      BY <3>1, <3>2, TransferSteps, Zenon DEF u
    <3>4. netIn' \in 0 .. 1
      BY <1>1, <2>1, <2>3
    <3> QED
      BY <1>1, <2>1, <2>2, <3>2, <3>3, <3>4, Zenon
  <2>4. CASE ~(netIn > 0 /\ FtFeeds(t))
    <3>1. FtReached(t, netSession)
      BY <2>1, <2>2, <2>4, TransferSteps, Zenon
    <3> QED
      BY <1>1, <2>1, <2>2, <2>4, <3>1, Zenon
  <2> QED
    BY <2>3, <2>4, Zenon
<1> QED
  BY <1>2, <1>3, Zenon

LEMMA PollKeeps ==
  ASSUME FsInvariant, UNCHANGED fsLoad, FtPoll
  PROVE  FsInvariant'
<1> USE DEF fsVolume, wkVars
<1>1. UNCHANGED <<fsVolume, wkVars, ftStopping, ftStopped, ftReported, rd>> /\ ftPc = "idle"
  BY Zenon DEF FtPoll
<1>2. PICK t : /\ FtReached(t, ftSession') /\ t.leased = ft.leased /\ t.opened = ft.opened
               /\ t.created = ft.created /\ t.name = ft.name
  BY PollReaches, Zenon
<1>3. /\ netSession' \in FsSessions /\ ftSession' = netSession' /\ netClient' \in BOOLEAN
      /\ netSession' <= 2 * fsLoad.sessions
      /\ netClient' => netSession' < 2 * fsLoad.sessions
      /\ netIn' \in 0 .. 1
  <2>1. netSession \in Nat /\ fsLoad.sessions \in Nat /\ fsLoad \in FsLoads
    BY SessionsNatural, FsAssumption, Zenon DEF FsInvariant, FsTyped, FsTypeOK
  <2>2. netSession' \in Nat /\ netSession' <= 2 * fsLoad.sessions
    BY <2>1, PollReaches DEF FsInvariant, FsTyped
  <2>3. netSession' \in FsSessions
    BY <2>1, <2>2, SessionInRange, Zenon
  <2> QED
    BY <2>1, <2>2, <2>3, PollReaches, Zenon DEF FsInvariant, FsTyped
<1>4. FtRequest(ft, ftPc, ftSession)'
  <2>1. FtRequest(ft', ftPc', ftSession')
    BY <1>2, Zenon DEF FtReached
  <2> QED
    BY <1>1, <2>1, Zenon DEF FtRequest, FtFile, FtFragments, FtPhase
<1>5. FsTyped'
  <2>1. ft' \in FtTransfers /\ ftPc' \in {"idle", "execute", "close", "remove", "after"}
    BY <1>2, <1>4, Zenon DEF FtRequest, FtReached
  <2>2. fsCall' \in FsUsers \union {FsNobody} /\ fsHolder' \in FsUsers \union {FsNobody}
    BY <1>2, Zenon DEF FtReached, FsUsers, FsInvariant, FsTyped, FsTypeOK
  <2> QED
    BY <1>1, <1>3, <2>1, <2>2, Zenon DEF FsInvariant, FsTyped, FsTypeOK
<1>6. FsHeld'
  <2>0. t.opened => t.leased
    BY <1>2, Zenon DEF FsInvariant, FtRequest, FtFile
  <2> USE <1>1, <1>2 DEF FsInvariant, FsHeld, FsReserved, FsNobody
  <2>1. CASE /\ fsHolder' = fsHolder /\ fsCall' = fsCall /\ ftPc' = "after"
             /\ ft'.leased = t.leased /\ ft'.opened = t.opened
    BY <2>1, Zenon
  <2>2. CASE /\ fsHolder = FsNobody /\ fsHolder' = "transfer" /\ fsCall = FsNobody
             /\ fsCall' = "transfer" /\ ft'.leased /\ ftPc' = "execute"
    BY <2>2, Zenon
  <2>3. CASE /\ fsHolder' = fsHolder /\ fsCall = FsNobody /\ fsCall' = "transfer"
             /\ t.leased /\ ft'.leased /\ ft'.opened = t.opened /\ ftPc' = "execute"
    BY <2>3, Zenon
  <2>4. CASE /\ fsHolder' = fsHolder /\ fsCall = FsNobody /\ fsCall' = "transfer"
             /\ ft' = t /\ t.opened /\ ftPc' = "close"
    BY <2>0, <2>4, Zenon
  <2>5. CASE /\ fsHolder' = (IF t.leased THEN FsNobody ELSE fsHolder) /\ fsCall' = fsCall
             /\ ~t.opened /\ ~ft'.leased /\ ftPc' = "after"
    BY <2>5, Zenon
  <2> QED
    BY <2>1, <2>2, <2>3, <2>4, <2>5, Zenon DEF FtReached
<1>7. FtNoDebris'
  BY <1>1, <1>2, Zenon DEF FsInvariant, FtNoDebris, FtReached
<1> QED
  BY <1>4, <1>5, <1>6, <1>7, Zenon DEF FsInvariant

\* What the volume operation of a request may do.
LEMMA TransferOperates ==
  ASSUME FsVolumeOK, ft \in FtTransfers, ft.op \in FtBegin \union FtContinue,
         NEW r \in FsResults, FtOperation(r)
  PROVE  /\ FsVolumeOK'
         /\ \A n \in FsNames : fsDisk'[n] = "transfer" =>
              fsDisk[n] = "transfer" \/ (n = ft.name /\ ft.op = "upload" /\ r = "ok")
         /\ r = "ok" /\ ft.op = "finish" /\ ft.name \in FsNames => fsDisk'[ft.name] = "whole"
         /\ fsOpen' # "none" =>
              fsOpen # "none" \/ (r = "ok" /\ ft.op \in {"upload", "download", "list"})
<1> USE DEF FsVolumeOK, FsHandles, FsContents, FsKeep, fsVolume
<1>1. CASE ft.op = "upload"
  BY <1>1, Zenon DEF FtOperation, FsCreate, FsModify, FsMayModify
<1>2. CASE ft.op = "download"
  BY <1>2, Zenon DEF FtOperation, FsOpenFile
<1>3. CASE ft.op = "list"
  BY <1>3, Zenon DEF FtOperation, FsOpenDirectory
<1>4. CASE ft.op = "mutate"
  BY <1>4, Zenon DEF FtOperation, FsRemove, FsDirectories, FsModify, FsMayModify
<1>5. CASE ft.op = "finish"
  BY <1>5, Zenon DEF FtOperation, FsSync
<1>6. CASE ft.op \in {"write", "next", "read"}
  BY <1>6, Zenon DEF FtOperation, FsWrite, FsReadDirectory, FsRead
<1> QED
  BY <1>1, <1>2, <1>3, <1>4, <1>5, <1>6, Zenon DEF FtBegin, FtContinue

\* The request after the volume operation of Execute(), if it goes on.
LEMMA ExecuteReturnKeeps ==
  ASSUME FsInvariant, UNCHANGED fsLoad, FtExecuteReturns
  PROVE  FsInvariant' /\ (ft'.reply = "good" => ft'.op # "finish")
<1> USE DEF wkVars, netVars
<1>1. /\ UNCHANGED <<fsHolder, wkVars, ftSession, ftStopping, ftStopped, ftReported, netVars, rd>>
      /\ ftPc = "execute" /\ ftPc' = "after" /\ fsCall = "transfer" /\ fsCall' = FsNobody
  BY Zenon DEF FtExecuteReturns, FsLeave
<1>2. /\ ft \in FtTransfers /\ FtFragments(ft, ftSession) /\ FtPhase(ft, "execute")
      /\ FtFile(ft, "execute") /\ FsVolumeOK
  BY <1>1, Zenon DEF FsInvariant, FtRequest, FsTyped, FsTypeOK, FsVolumeOK
<1>3. /\ fsHolder = "transfer" /\ ft.leased = TRUE /\ ft.state = "executing" /\ ft.reply = "none"
      /\ ft.op \in FtBegin \union FtContinue /\ ft.name \in FsNames \union {"none"}
      /\ fsOpen # "none" => ft.opened
  BY <1>1, <1>2, Zenon
     DEF FtPhase, FtTransfers, FsInvariant, FsHeld, FsReserved, FsNobody
<1>4. PICK r \in FsResults :
        LET t == [ft EXCEPT !.status = IF r = "ok" THEN "ok" ELSE "failed"]
            on(u) == [FtReply(u) EXCEPT !.state = "receiving"]
        IN  /\ FtOperation(r)
            /\ IF r # "ok" \/ ft.op \in {"mutate", "finish"}
               THEN ft' = FtCleanupDue(t, t.status)
               ELSE IF ft.op \in FtBegin
               THEN \E size \in IF ft.op = "download" THEN 0 .. FsMaxSize ELSE {ft.size} :
                        ft' = on([t EXCEPT !.opened = TRUE, !.size = size,
                                           !.created = ft.op = "upload"])
               ELSE IF ft.op = "next"
               THEN ft' = FtCleanupDue(t, "ok") \/ ft' = on(t)
               ELSE ft' = on([t EXCEPT !.offset = @ + 1])
  BY Zenon DEF FtExecuteReturns
<1>5. /\ FsVolumeOK'
      /\ \A n \in FsNames : fsDisk'[n] = "transfer" =>
           fsDisk[n] = "transfer" \/ (n = ft.name /\ ft.op = "upload" /\ r = "ok")
      /\ r = "ok" /\ ft.op = "finish" /\ ft.name \in FsNames => fsDisk'[ft.name] = "whole"
      /\ fsOpen' # "none" => ft.opened \/ (r = "ok" /\ ft.op \in {"upload", "download", "list"})
  BY <1>2, <1>3, <1>4, TransferOperates, Zenon
<1>6. /\ ft' \in FtTransfers /\ ft'.leased = TRUE /\ ft'.name = ft.name /\ ft'.mode = ft.mode
      /\ ft'.op = ft.op /\ ft'.from = ft.from /\ ft'.received = ft.received
      /\ ft'.needed = ft.needed /\ ft'.gone = ft.gone
      /\ \/ /\ ft'.state = "cleanup" /\ ft'.reply = "none"
            /\ ft'.opened = ft.opened /\ ft'.created = ft.created
            /\ ft'.status = "ok" => r = "ok" /\ ft.op \in {"mutate", "finish", "next"}
            /\ r # "ok" \/ ft.op \in {"mutate", "finish", "next"}
         \/ /\ ft'.state = "receiving" /\ ft'.reply # "none" /\ r = "ok"
            /\ \/ /\ ft.op \in {"upload", "download", "list"}
                  /\ ft'.opened = TRUE /\ ft'.created = (ft.op = "upload")
               \/ /\ ft.op \in {"write", "next", "read"}
                  /\ ft'.opened = ft.opened /\ ft'.created = ft.created
  <2> DEFINE t == [ft EXCEPT !.status = IF r = "ok" THEN "ok" ELSE "failed"]
             on(u) == [FtReply(u) EXCEPT !.state = "receiving"]
  <2>1. t \in FtTransfers /\ t.status = (IF r = "ok" THEN "ok" ELSE "failed")
    BY <1>2, Zenon DEF FtTransfers
  <2>2. /\ t.leased = ft.leased /\ t.name = ft.name /\ t.mode = ft.mode /\ t.op = ft.op
        /\ t.from = ft.from /\ t.received = ft.received /\ t.needed = ft.needed /\ t.gone = ft.gone
        /\ t.reply = ft.reply /\ t.opened = ft.opened /\ t.created = ft.created
        /\ t.offset = ft.offset /\ t.size = ft.size
    BY <1>2, Zenon DEF FtTransfers
  <2>3. /\ IF r # "ok" \/ ft.op \in {"mutate", "finish"}
           THEN ft' = FtCleanupDue(t, t.status)
           ELSE IF ft.op \in FtBegin
           THEN \E size \in IF ft.op = "download" THEN 0 .. FsMaxSize ELSE {ft.size} :
                    ft' = on([t EXCEPT !.opened = TRUE, !.size = size, !.created = ft.op = "upload"])
           ELSE IF ft.op = "next"
           THEN ft' = FtCleanupDue(t, "ok") \/ ft' = on(t)
           ELSE ft' = on([t EXCEPT !.offset = @ + 1])
    BY <1>4, Zenon
  <2> HIDE DEF t
  <2>4. ASSUME NEW status \in {"ok", "failed"}, ft' = FtCleanupDue(t, status)
        PROVE  /\ ft' \in FtTransfers /\ ft'.leased = t.leased /\ ft'.name = t.name
               /\ ft'.mode = t.mode /\ ft'.op = t.op /\ ft'.from = t.from
               /\ ft'.received = t.received /\ ft'.needed = t.needed /\ ft'.gone = t.gone
               /\ ft'.state = "cleanup" /\ ft'.reply = t.reply /\ ft'.status = status
               /\ ft'.opened = t.opened /\ ft'.created = t.created
    BY <2>1, <2>4, Zenon DEF FtCleanupDue, FtTransfers
  <2>5. ASSUME NEW u \in FtTransfers, ft' = on(u)
        PROVE  /\ ft' \in FtTransfers /\ ft'.leased = u.leased /\ ft'.name = u.name
               /\ ft'.mode = u.mode /\ ft'.op = u.op /\ ft'.from = u.from
               /\ ft'.received = u.received /\ ft'.needed = u.needed /\ ft'.gone = u.gone
               /\ ft'.state = "receiving" /\ ft'.reply # "none"
               /\ ft'.opened = u.opened /\ ft'.created = u.created
    BY <2>5 DEF FtReply, FtTransfers, FtReplies
  <2>6. CASE r # "ok" \/ ft.op \in {"mutate", "finish"}
    <3>1. ft' = FtCleanupDue(t, t.status) /\ t.status \in {"ok", "failed"}
      BY <2>1, <2>3, <2>6, Zenon
    <3> QED
      BY <1>3, <2>1, <2>2, <2>4, <2>6, <3>1, Zenon
  <2>7. CASE r = "ok" /\ ft.op \in {"upload", "download", "list"}
    <3>1. PICK size \in (IF ft.op = "download" THEN 0 .. FsMaxSize ELSE {ft.size}) :
            ft' = on([t EXCEPT !.opened = TRUE, !.size = size, !.created = ft.op = "upload"])
      BY <2>3, <2>7, Zenon DEF FtBegin
    <3> DEFINE u == [t EXCEPT !.opened = TRUE, !.size = size, !.created = ft.op = "upload"]
    <3>2. size \in 0 .. FsMaxSize
      BY <1>2, Zenon DEF FtTransfers
    <3>3. u \in FtTransfers
      BY <2>1, <3>2, Zenon DEF FtTransfers
    <3>4. /\ u.leased = t.leased /\ u.name = t.name /\ u.mode = t.mode /\ u.op = t.op
          /\ u.from = t.from /\ u.received = t.received /\ u.needed = t.needed /\ u.gone = t.gone
          /\ u.opened = TRUE /\ u.created = (ft.op = "upload")
      BY <2>1, Zenon DEF FtTransfers
    <3> HIDE DEF u
    <3>5. ft' = on(u)
      BY <3>1, Zenon DEF u
    <3> QED
      BY <1>3, <2>2, <2>5, <2>7, <3>3, <3>4, <3>5
  <2>8. CASE r = "ok" /\ ft.op = "next"
    BY <1>3, <2>1, <2>2, <2>3, <2>4, <2>5, <2>8, Zenon DEF FtBegin
  <2>9. CASE r = "ok" /\ ft.op \in {"write", "read"}
    <3> DEFINE u == [t EXCEPT !.offset = @ + 1]
    <3>5. ft.offset < ft.size
      BY <1>2, <2>9, Zenon DEF FtPhase
    <3>6. ft.offset \in 0 .. FsMaxSize /\ ft.size \in 0 .. FsMaxSize
      BY <1>2, Zenon DEF FtTransfers
    <3>1. t.offset + 1 \in 0 .. FsMaxSize
      BY <2>2, <3>5, <3>6, FsAssumption
    <3>2. u \in FtTransfers
      BY <2>1, <3>1, Zenon DEF FtTransfers
    <3>3. /\ u.leased = t.leased /\ u.name = t.name /\ u.mode = t.mode /\ u.op = t.op
          /\ u.from = t.from /\ u.received = t.received /\ u.needed = t.needed /\ u.gone = t.gone
          /\ u.opened = t.opened /\ u.created = t.created
      BY <2>1, Zenon DEF FtTransfers
    <3> HIDE DEF u
    <3>4. ft' = on(u)
      BY <2>3, <2>9, Zenon DEF FtBegin, u
    <3> QED
      BY <1>3, <2>2, <2>5, <2>9, <3>2, <3>3, <3>4
  <2> QED
    BY <1>3, <2>6, <2>7, <2>8, <2>9, Zenon DEF FtBegin, FtContinue
<1>7. FtFragments(ft', ftSession')
  BY <1>1, <1>2, <1>6, Zenon DEF FtFragments
<1>8. FtPhase(ft', "after")
  BY <1>6, Zenon DEF FtPhase
<1>9. FtFile(ft, ftPc)'
  BY <1>1, <1>2, <1>3, <1>5, <1>6, Zenon
     DEF FtFile, FtPhase, FtMode, FtBegin, FtContinue
<1>10. FtRequest(ft, ftPc, ftSession)'
  BY <1>1, <1>6, <1>7, <1>8, <1>9, Zenon DEF FtRequest, FtFragments, FtPhase
<1>11. FsTyped'
  BY <1>1, <1>5, <1>6, Zenon DEF FsInvariant, FsTyped, FsTypeOK, FsVolumeOK, FsNobody
<1>12. FsHeld'
  BY <1>1, <1>3, <1>5, <1>6, Zenon DEF FsInvariant, FsHeld, FsReserved, FsNobody
<1>13. FtNoDebris'
  <2> SUFFICES ASSUME NEW n \in FsNames, fsDisk'[n] = "transfer"
               PROVE  (ft'.created /\ ft'.name = n) \/ n \in ftReported'
    BY Zenon DEF FtNoDebris
  <2>1. CASE fsDisk[n] = "transfer"
    <3>1. (ft.created /\ ft.name = n) \/ n \in ftReported
      BY <1>1, <2>1, Zenon DEF FsInvariant, FtNoDebris
    <3>2. ft.created => ft'.created
      BY <1>2, <1>6, Zenon DEF FtPhase, FtBegin
    <3> QED
      BY <1>1, <1>6, <3>1, <3>2, Zenon
  <2>2. CASE n = ft.name /\ ft.op = "upload" /\ r = "ok"
    BY <1>6, <2>2, Zenon
  <2> QED
    BY <1>5, <2>1, <2>2, Zenon
<1>14. ft'.reply = "good" => ft'.op # "finish"
  BY <1>6, Zenon
<1> QED
  BY <1>10, <1>11, <1>12, <1>13, <1>14, Zenon DEF FsInvariant

\* What the transfer service promises of a step, as in FtPublishes.
FtPublished ==
  ft'.reply # ft.reply /\ ft'.op = "finish" /\ ft'.reply = "good"
    => fsDisk'[ft'.name] = "whole" /\ fsOpen' = "none" /\ fsHolder' # "transfer"

\* Cleanup() ends: what is left of the request, with the volume as it is now.
LEMMA CleanedUpKeeps ==
  ASSUME FsInvariant, UNCHANGED fsLoad, fsCall = "transfer", fsCall' = FsNobody, fsOpen' = "none",
         UNCHANGED <<wkVars, ftSession, ftStopping, ftStopped, ftReported, netVars, rd>>, FsVolumeOK',
         NEW t \in FtTransfers, FtFragments(t, ftSession), NEW failed \in BOOLEAN,
         FtCleaned(t, failed), ~t.opened, t.leased, t.name = ft.name,
         \A n \in FsNames : fsDisk'[n] = "transfer" => n \in ftReported \/ (n = t.name /\ failed)
  PROVE  FsInvariant'
<1> USE DEF wkVars, netVars
<1>1. /\ FtRequest(ft', "after", ftSession) /\ ftPc' = "after"
      /\ ~ft'.created /\ ~ft'.leased /\ ft'.name = t.name
      /\ failed => ft'.status = "cleanup"
      /\ fsHolder' = FsNobody
  BY CleanedUp, Zenon
<1>2. fsHolder = "transfer"
  BY Zenon DEF FsInvariant, FsHeld, FsReserved, FsNobody
<1>3. FtRequest(ft, ftPc, ftSession)'
  <2>1. ft' \in FtTransfers /\ FtFragments(ft', ftSession') /\ FtPhase(ft', ftPc')
    BY <1>1, Zenon DEF FtRequest
  <2>2. FtFile(ft, ftPc)'
    BY <1>1, Zenon DEF FtRequest, FtFile
  <2> QED
    BY <2>1, <2>2, Zenon DEF FtRequest, FtFragments, FtPhase
<1>4. FsTyped'
  <2>1. ft' \in FtTransfers
    BY <1>1, Zenon DEF FtRequest
  <2> QED
    BY <1>1, <2>1, Zenon DEF FsInvariant, FsTyped, FsTypeOK, FsVolumeOK
<1>5. FsHeld'
  BY <1>1, <1>2, Zenon DEF FsInvariant, FsHeld, FsReserved, FsNobody
<1>6. FtNoDebris'
  BY <1>1, Zenon DEF FtNoDebris
<1> QED
  BY <1>3, <1>4, <1>5, <1>6, Zenon DEF FsInvariant

\* Cleanup() after close().
LEMMA CloseReturnKeeps ==
  ASSUME FsInvariant, UNCHANGED fsLoad, FtCloseReturns
  PROVE  FsInvariant' /\ FtPublished
<1> USE DEF wkVars, netVars
<1>1. /\ UNCHANGED <<wkVars, ftSession, ftStopping, ftStopped, ftReported, netVars, rd>>
      /\ ftPc = "close" /\ fsCall = "transfer" /\ fsCall' = FsNobody
  BY Zenon DEF FtCloseReturns, FsLeave
<1>2. /\ ft \in FtTransfers /\ FtFragments(ft, ftSession) /\ FtPhase(ft, "close")
      /\ FtFile(ft, "close") /\ FsVolumeOK
  BY <1>1, Zenon DEF FsInvariant, FtRequest, FsTyped, FsTypeOK, FsVolumeOK
<1>3. fsHolder = "transfer" /\ ft.leased /\ ft.state = "cleanup" /\ ft.reply = "none"
  BY <1>1, <1>2, Zenon
     DEF FtPhase, FtTransfers, FsInvariant, FsHeld, FsReserved, FsNobody
<1> DEFINE t == [ft EXCEPT !.opened = FALSE]
<1>4. PICK r \in FsResults :
        /\ FsClose(r)
        /\ IF FtRemoves(t, r # "ok")
           THEN /\ ft' = IF r = "ok" THEN t ELSE [t EXCEPT !.status = "cleanup"]
                /\ ftPc' = "remove" /\ UNCHANGED fsHolder
           ELSE FtCleaned(t, r # "ok")
  BY Zenon DEF FtCloseReturns
<1>5. t \in FtTransfers /\ t.opened = FALSE
  BY <1>2, Zenon DEF FtTransfers
<1>6. /\ t.leased = ft.leased /\ t.name = ft.name /\ t.mode = ft.mode /\ t.op = ft.op
      /\ t.from = ft.from /\ t.received = ft.received /\ t.needed = ft.needed /\ t.gone = ft.gone
      /\ t.reply = ft.reply /\ t.created = ft.created /\ t.state = ft.state
      /\ t.status = ft.status
  BY <1>2, Zenon DEF FtTransfers
<1> HIDE DEF t
<1>7. fsOpen' = "none" /\ fsDisk' = fsDisk /\ FsVolumeOK'
  BY <1>2, <1>4, Zenon DEF FsClose, FsVolumeOK, FsHandles
<1>8. FtFragments(t, ftSession)
  BY <1>2, <1>6, Zenon DEF FtFragments
<1>9. \A n \in FsNames : fsDisk[n] = "transfer" => (ft.created /\ ft.name = n) \/ n \in ftReported
  BY <1>1, Zenon DEF FsInvariant, FtNoDebris
<1>10. CASE FtRemoves(t, r # "ok")
  <2>1. /\ ft' = IF r = "ok" THEN t ELSE [t EXCEPT !.status = "cleanup"]
        /\ ftPc' = "remove" /\ fsHolder' = fsHolder
    BY <1>4, <1>10, Zenon
  <2>2. ft' \in FtTransfers
    BY <1>5, <2>1, Zenon DEF FtTransfers
  <2>3. /\ ft'.leased = ft.leased /\ ft'.name = ft.name /\ ft'.mode = ft.mode /\ ft'.op = ft.op
        /\ ft'.from = ft.from /\ ft'.received = ft.received /\ ft'.needed = ft.needed
        /\ ft'.gone = ft.gone /\ ft'.reply = ft.reply /\ ft'.created = ft.created
        /\ ft'.state = ft.state /\ ft'.opened = FALSE
        /\ ft'.status = IF r = "ok" THEN ft.status ELSE "cleanup"
    BY <1>5, <1>6, <2>1, Zenon DEF FtTransfers
  <2>4. ft'.created /\ (ft'.status # "ok" \/ ft'.gone)
    BY <1>6, <1>10, <2>3, Zenon DEF FtRemoves
  <2>5. FtFragments(ft, ftSession)'
    BY <1>1, <1>2, <2>3, Zenon DEF FtFragments
  <2>6. FtPhase(ft, ftPc)'
    BY <1>3, <2>1, <2>3, <2>4, Zenon DEF FtPhase
  <2>7. FtFile(ft, ftPc)'
    BY <1>2, <1>3, <1>7, <2>1, <2>3, <2>4, Zenon DEF FtFile
  <2>8. FsTyped'
    BY <1>1, <1>7, <2>1, <2>2, Zenon DEF FsInvariant, FsTyped, FsTypeOK, FsVolumeOK
  <2>9. FsHeld'
    BY <1>1, <1>3, <1>7, <2>1, <2>3, Zenon DEF FsInvariant, FsHeld, FsReserved, FsNobody
  <2>10. FtNoDebris'
    BY <1>1, <1>7, <1>9, <2>3, Zenon DEF FtNoDebris
  <2> QED
    BY <2>2, <2>3, <2>5, <2>6, <2>7, <2>8, <2>9, <2>10, Zenon
       DEF FsInvariant, FtRequest, FtPublished
<1>11. CASE ~FtRemoves(t, r # "ok")
  <2>1. FtCleaned(t, r # "ok") /\ (r # "ok") \in BOOLEAN
    BY <1>4, <1>11, Zenon
  <2>2. ft.created => ft.status = "ok" /\ ~ft.gone /\ r = "ok" /\ fsDisk[ft.name] = "whole"
    BY <1>2, <1>3, <1>6, <1>11, Zenon DEF FtRemoves, FtFile
  <2>3. \A n \in FsNames : fsDisk'[n] # "transfer" \/ n \in ftReported
    BY <1>7, <1>9, <2>2, Zenon
  <2>4. FsInvariant'
    BY <1>1, <1>3, <1>5, <1>6, <1>7, <1>8, <2>1, <2>3, CleanedUpKeeps, Zenon
  <2>5. /\ ft'.reply = "good" => t.status = "ok" /\ ft'.op = t.op
        /\ ft'.name = t.name /\ fsHolder' = FsNobody
    BY <1>3, <1>5, <1>6, <1>8, <2>1, CleanedUp, Zenon
  <2>6. FtPublished
    <3> SUFFICES ASSUME ft'.op = "finish", ft'.reply = "good"
                 PROVE  fsDisk'[ft'.name] = "whole" /\ fsOpen' = "none" /\ fsHolder' # "transfer"
      BY Zenon DEF FtPublished
    <3>1. ft.created
      BY <1>2, <1>3, <1>6, <2>5, Zenon DEF FtFile
    <3> QED
      BY <1>6, <1>7, <2>2, <2>5, <3>1, Zenon DEF FsNobody
  <2> QED
    BY <2>4, <2>6, Zenon
<1> QED
  BY <1>10, <1>11, Zenon

\* Cleanup(): remove().
LEMMA RemoveCallKeeps ==
  ASSUME FsInvariant, UNCHANGED fsLoad, FtRemoveCalls
  PROVE  FsInvariant' /\ FtPublished
<1> USE DEF wkVars, netVars, ftVars, fsVolume
<1>1. /\ UNCHANGED <<fsVolume, fsHolder, wkVars, ftVars, netVars, rd>>
      /\ ftPc = "remove" /\ fsCall = FsNobody /\ fsCall' = "transfer"
  BY Zenon DEF FtRemoveCalls, FsEnter
<1>2. ft.leased
  BY <1>1, Zenon DEF FsInvariant, FtRequest, FtPhase, FtFile
<1>3. FtRequest(ft, ftPc, ftSession)' /\ FtNoDebris'
  BY <1>1, TransferUntouched, Zenon
<1>4. FsTyped'
  BY <1>1 DEF FsInvariant, FsTyped, FsTypeOK, FsUsers
<1>5. FsHeld'
  BY <1>1, <1>2, Zenon DEF FsInvariant, FsHeld, FsReserved, FsNobody
<1> QED
  BY <1>1, <1>3, <1>4, <1>5, Zenon DEF FsInvariant, FtPublished

LEMMA RemoveReturnKeeps ==
  ASSUME FsInvariant, UNCHANGED fsLoad, FtRemoveReturns
  PROVE  FsInvariant' /\ FtPublished
<1> USE DEF wkVars, netVars
<1>1. /\ UNCHANGED <<wkVars, ftSession, ftStopping, ftStopped, ftReported, netVars, rd>>
      /\ ftPc = "remove" /\ fsCall = "transfer" /\ fsCall' = FsNobody
  BY Zenon DEF FtRemoveReturns, FsLeave
<1>2. /\ ft \in FtTransfers /\ FtFragments(ft, ftSession) /\ FtPhase(ft, "remove")
      /\ FtFile(ft, "remove") /\ FsVolumeOK
  BY <1>1, Zenon DEF FsInvariant, FtRequest, FsTyped, FsTypeOK, FsVolumeOK
<1>3. /\ fsHolder = "transfer" /\ ft.leased /\ ~ft.opened /\ ft.name \in FsNames
      /\ fsOpen = "none" /\ (ft.status # "ok" \/ ft.gone)
  BY <1>1, <1>2, Zenon DEF FtPhase, FtFile, FsInvariant, FsHeld, FsReserved, FsNobody
<1>4. PICK r \in FsResults :
        FsRemove(ft.name, r) /\ FtCleaned(ft, r # "ok" \/ ft.status = "cleanup")
  BY Zenon DEF FtRemoveReturns
<1>5. /\ FsVolumeOK' /\ fsOpen' = "none"
      /\ \A n \in FsNames : fsDisk'[n] = "transfer" =>
           fsDisk[n] = "transfer" /\ (n = ft.name => r # "ok")
  BY <1>2, <1>3, <1>4, Zenon
     DEF FsRemove, FsModify, FsMayModify, FsKeep, fsVolume, FsVolumeOK, FsContents,
         FsPath
<1>6. \A n \in FsNames : fsDisk'[n] = "transfer" =>
        n \in ftReported \/ (n = ft.name /\ (r # "ok" \/ ft.status = "cleanup"))
  BY <1>1, <1>5, Zenon DEF FsInvariant, FtNoDebris
<1>7. (r # "ok" \/ ft.status = "cleanup") \in BOOLEAN
  BY Zenon
<1>8. FsInvariant'
  BY <1>1, <1>2, <1>3, <1>4, <1>5, <1>6, <1>7, CleanedUpKeeps, Zenon
<1>9. ft'.reply = "good" => ~ft.gone /\ ft.status = "ok"
  BY <1>2, <1>3, <1>4, <1>7, CleanedUp, Zenon
<1> QED
  BY <1>3, <1>8, <1>9, Zenon DEF FtPublished

\* Poll() after the tick.
LEMMA AfterKeeps ==
  ASSUME FsInvariant, UNCHANGED fsLoad, FtAfter
  PROVE  FsInvariant' /\ FtPublished
<1> USE DEF wkVars, netVars, fsVolume
<1> DEFINE u == FtCheckSession(ft, netSession)
           t == IF u.state = "receiving" /\ ~u.leased
                THEN [u EXCEPT !.name = "none", !.status = "ok"] ELSE u
<1>1. /\ UNCHANGED <<fsVolume, fsCall, fsHolder, wkVars, ftStopping, netVars, rd>>
      /\ ftPc = "after" /\ ftPc' = "idle" /\ ftSession' = netSession
      /\ ftReported' = IF ft.status = "cleanup" /\ ft.name # "none"
                       THEN ftReported \union {ft.name} ELSE ftReported
      /\ (ft' = FtSent(t) /\ t.reply # "none") \/ ft' = t
  BY Zenon DEF FtAfter
<1>2. ftStopped' \in BOOLEAN
  BY Zenon DEF FtAfter
<1>3. netSession \in FsSessions
  BY Zenon DEF FsInvariant, FsTyped, FsTypeOK
<1>4. /\ FtRequest(u, "after", netSession) /\ u.leased = ft.leased /\ u.opened = ft.opened
      /\ u.created = ft.created /\ u.name = ft.name /\ u.reply = ft.reply /\ u.state = ft.state
  BY <1>1, <1>3, SessionChecked, Zenon
<1>5. u \in FtTransfers /\ FtFragments(u, netSession) /\ FtPhase(u, "after") /\ FtFile(u, "after")
  BY <1>4, Zenon DEF FtRequest
<1> HIDE DEF u
<1>6. t \in FtTransfers
  BY <1>5, ForgottenType, Zenon
<1>7. /\ t.leased = u.leased /\ t.mode = u.mode /\ t.op = u.op /\ t.from = u.from
      /\ t.received = u.received /\ t.needed = u.needed /\ t.gone = u.gone
      /\ t.reply = u.reply /\ t.created = u.created /\ t.state = u.state /\ t.opened = u.opened
      /\ u.leased \/ u.state # "receiving" => t.name = u.name /\ t.status = u.status
  BY <1>5, Zenon DEF FtTransfers
<1> HIDE DEF t
<1>8. FtFragments(t, netSession) /\ FtPhase(t, "idle")
  BY <1>5, <1>7, Zenon DEF FtFragments, FtPhase
<1>9. FtFile(t, "idle")
  BY <1>5, <1>7, Zenon DEF FtFile
<1>10. /\ ft' \in FtTransfers /\ ft'.leased = ft.leased /\ ft'.opened = ft.opened
       /\ ft'.created = ft.created /\ (ft.leased => ft'.name = ft.name)
       /\ ft'.reply \in {"none", ft.reply}
       /\ FtFragments(ft', netSession) /\ FtPhase(ft', "idle") /\ FtFile(ft', "idle")
  <2>1. CASE ft' = t
    BY <1>4, <1>6, <1>7, <1>8, <1>9, <2>1, Zenon
  <2>2. CASE ft' = FtSent(t) /\ t.reply # "none"
    <3>1. ft' \in FtTransfers
      BY <1>6, <2>2, SentType, Zenon
    <3>2. /\ ft'.leased = t.leased /\ ft'.opened = t.opened /\ ft'.created = t.created
          /\ ft'.name = t.name /\ ft'.state = t.state /\ ft'.mode = t.mode
          /\ ft'.reply = "none" /\ ft'.from = {} /\ ft'.received = 0 /\ ft'.needed = 1
          /\ ft'.op = "none" /\ ft'.status = t.status
      BY <1>6, <2>2, Zenon DEF FtSent, FtTransfers
    <3>3. t.state = "receiving"
      BY <1>8, <2>2, Zenon DEF FtPhase
    <3>4. FtFragments(ft', netSession) /\ FtPhase(ft', "idle")
      BY <3>2, <3>3 DEF FtFragments, FtPhase
    <3>5. FtFile(ft', "idle")
      BY <1>9, <3>2, <3>3, Zenon DEF FtFile
    <3> QED
      BY <1>4, <1>7, <3>1, <3>2, <3>4, <3>5, Zenon
  <2> QED
    BY <1>1, <2>1, <2>2, Zenon
<1>11. FtRequest(ft, ftPc, ftSession)'
  <2>1. FtFile(ft, ftPc)'
    BY <1>1, <1>10, Zenon DEF FtFile
  <2> QED
    BY <1>1, <1>10, <2>1, Zenon DEF FtRequest, FtFragments, FtPhase
<1>12. FsTyped'
  <2>1. ft.name \in FsNames \union {"none"} /\ ftReported \subseteq FsNames
    BY Zenon DEF FsInvariant, FsTyped, FsTypeOK, FtTransfers
  <2>2. ftReported' \subseteq FsNames
    BY <1>1, <2>1, Zenon
  <2> QED
    BY <1>1, <1>2, <1>3, <1>10, <2>2 DEF FsInvariant, FsTyped, FsTypeOK
<1>13. FsHeld'
  BY <1>1, <1>10, Zenon DEF FsInvariant, FsHeld, FsReserved, FsNobody
<1>14. FtNoDebris'
  <2> SUFFICES ASSUME NEW n \in FsNames, fsDisk[n] = "transfer"
               PROVE  (ft'.created /\ ft'.name = n) \/ n \in ftReported'
    BY <1>1, Zenon DEF FtNoDebris
  <2>1. CASE ft.created /\ ft.name = n
    BY <1>4, <1>5, <1>10, <2>1, Zenon DEF FtFile
  <2>2. CASE n \in ftReported
    BY <1>1, <2>2, Zenon
  <2>3. CASE ft.name = n /\ ft.status = "cleanup"
    BY <1>1, <2>3, FsAssumption, Zenon
  <2> QED
    BY <2>1, <2>2, <2>3, Zenon DEF FsInvariant, FtNoDebris
<1> QED
  BY <1>10, <1>11, <1>12, <1>13, <1>14, Zenon DEF FsInvariant, FtPublished

-----------------------------------------------------------------------------
(* The file service *)

LEMMA FsStepKeeps == FsInvariant /\ [FsNext]_fsVars => FsInvariant' /\ FtPublished
<1> SUFFICES ASSUME FsInvariant, [FsNext]_fsVars PROVE FsInvariant' /\ FtPublished
  BY Zenon
<1>1. CASE UNCHANGED fsVars
  <2> USE <1>1 DEF fsVars, fsVolume, wkVars, ftVars, netVars
  <2>1. FtRequest(ft, ftPc, ftSession)' /\ FtNoDebris'
    BY TransferUntouched, Zenon
  <2>2. FsTyped' /\ FsHeld'
    BY DEF FsInvariant, FsTyped, FsTypeOK, FsHeld, FsReserved
  <2> QED
    BY <2>1, <2>2, Zenon DEF FsInvariant, FtPublished
<1>2. ASSUME UNCHANGED fsLoad, ft' = ft PROVE FtPublished
  BY <1>2, Zenon DEF FtPublished
<1>3. ASSUME UNCHANGED fsLoad,
             NEW op \in fsLoad.asks, NEW rw \in BOOLEAN, NEW name \in FsNames, WkSubmit(op, rw, name)
      PROVE  FsInvariant' /\ FtPublished
  BY <1>2, <1>3, SubmitKeeps, Zenon DEF WkSubmit, ftVars
<1>4. ASSUME UNCHANGED fsLoad, WkPoll PROVE FsInvariant' /\ FtPublished
  BY <1>2, <1>4, WorkerPollKeeps, Zenon DEF WkPoll, ftVars
<1>5. ASSUME UNCHANGED fsLoad, WkReturn PROVE FsInvariant' /\ FtPublished
  BY <1>2, <1>5, WorkerReturnKeeps, Zenon DEF WkReturn, ftVars
<1>6. ASSUME UNCHANGED fsLoad, WkGiveUpCall \/ WkGiveUp PROVE FsInvariant' /\ FtPublished
  BY <1>2, <1>6, WorkerGivesUpKeeps, Zenon DEF WkGiveUpCall, WkGiveUp, ftVars
<1>7. ASSUME UNCHANGED fsLoad, NetConnect \/ NetSend \/ NetDisconnect
      PROVE  FsInvariant' /\ FtPublished
  BY <1>2, <1>7, NetworkKeeps, Zenon DEF NetConnect, NetSend, NetDisconnect, ftVars
<1>8. ASSUME UNCHANGED fsLoad, FtPoll PROVE FsInvariant' /\ FtPublished
  <2>1. PICK t : FtReached(t, ftSession') /\ t.reply = ft.reply
    BY <1>8, PollReaches, Zenon
  <2> QED
    BY <1>8, <2>1, PollKeeps, Zenon DEF FtReached, FtPublished
<1>9. ASSUME UNCHANGED fsLoad, FtExecuteReturns PROVE FsInvariant' /\ FtPublished
  BY <1>9, ExecuteReturnKeeps, Zenon DEF FtPublished
<1>10. ASSUME UNCHANGED fsLoad, FtStop PROVE FsInvariant' /\ FtPublished
  BY <1>2, <1>10, StopKeeps, Zenon DEF FtStop
<1>11. ASSUME UNCHANGED fsLoad, RdReserve \/ RdCall \/ RdReturn PROVE FsInvariant' /\ FtPublished
  BY <1>2, <1>11, ReaderKeeps, Zenon DEF RdReserve, RdCall, RdReturn, ftVars
<1> QED
  BY <1>1, <1>3, <1>4, <1>5, <1>6, <1>7, <1>8, <1>9, <1>10, <1>11,
     CloseReturnKeeps, RemoveCallKeeps, RemoveReturnKeeps, AfterKeeps, Zenon DEF FsNext

\* The invariant of the file service: the worker (command.cpp), the transfer service
\* (transfer.cpp) and the package reader (module.cpp) keep it in every interleaving.
THEOREM FsInvariantHolds == FsSpec => []FsInvariant
  BY FsInitInvariant, FsStepKeeps, PTL DEF FsSpec

\* One user at a time: only the holder of the reservation is inside the volume or has a handle
\* open, and no handle outlives the reservation (Module::Reserve, Release).  The bytes of one
\* request come from one session, and so does the session its reply goes to.
THEOREM FileServiceOneUser == FsSpec => []FsOneUser
<1>1. FsInvariant => FsOneUser
  BY Zenon
     DEF FsInvariant, FsTyped, FsHeld, FtRequest, FtFragments, FsOneUser, FtOneSession
<1> QED
  BY <1>1, FsInvariantHolds, PTL

\* No incomplete upload is forgotten: its file is still being worked on, was removed, or is
\* reported by name (TransferService::Cleanup and Report), whatever fails and whenever the
\* client leaves.
THEOREM FileServiceNoDebris == FsSpec => []FtNoDebris
<1>1. FsInvariant => FtNoDebris
  BY Zenon DEF FsInvariant
<1> QED
  BY <1>1, FsInvariantHolds, PTL

\* A client told that its upload is finished has the whole file on the volume, closed, and the
\* reservation is free for the next user (TransferService::Execute, then Cleanup).
THEOREM FileServicePublishes == FsSpec => FtPublishes
<1>1. FsInvariant /\ [FsNext]_fsVars
        => [ft'.reply # ft.reply /\ ft'.op = "finish" /\ ft'.reply = "good"
              => fsDisk'[ft'.name] = "whole" /\ fsOpen' = "none" /\ fsHolder' # "transfer"]_fsVars
  BY FsStepKeeps, Zenon DEF FtPublished
<1> QED
  BY <1>1, FsInvariantHolds, PTL DEF FsSpec, FtPublishes
==============================================================================
