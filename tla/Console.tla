------------------------------ MODULE Console --------------------------------
(***************************************************************************)
(* The serial consoles: console::Input, BufferedOutput and LineDisplay      *)
(* (lib/console) under the UART and the USB transport                       *)
(* (platform/stm32/console).  Interrupts receive characters, finish and     *)
(* fail transmissions and end USB sessions; the task takes lines, echoes    *)
(* the unfinished one and prints log records around it.                     *)
(*                                                                         *)
(* A character is the number of the line it was typed in.  A frame is a     *)
(* sequence of characters, erasures of the terminal's line, and log lines,  *)
(* each one unit of buffer space.                                           *)
(***************************************************************************)
EXTENDS Integers, Sequences, SequencesExt

CONSTANTS
    CnLineSize,     \* bytes of a Line, the overlength marker included
    CnLines,        \* LineCapacity
    CnCapacity,     \* Capacity of one half of the output storage
    CnFrame,        \* FrameCapacity
    CnMaxKeys,      \* characters typed, at most
    CnMaxLogs,      \* log records, at most
    CnMaxFaults     \* line errors, DMA errors and session ends, at most

VARIABLES
    cnKind,         \* "uart" or "usb"
    cnOpened,       \* the USB host has opened the port (always, on the UART)
    cnQueue,        \* lines_
    cnLine,         \* line_
    cnCr,           \* previous_cr_
    cnDiscard,      \* discard_
    cnDropped,      \* dropped_
    cnStorage,      \* storage_, two halves
    cnFilling,      \* filling_
    cnPending,      \* pending_
    cnActive,       \* active_
    cnShown,        \* shown_
    cnResetDisplay, \* reset_display_
    cnTx,           \* the transfer of the hardware: half, size; size 0: none
    cnOwned,        \* what that half held when the transfer began
    cnScreen,       \* the terminal's current line
    cnLost,         \* output of this session was dropped or cut
    cnTyped,        \* lines ended so far
    cnAccounted,    \* lines delivered, reported as dropped or ended by a reset
    cnKeys, cnLogs, cnFaults

cnInput == <<cnQueue, cnLine, cnCr, cnDiscard, cnDropped, cnTyped, cnAccounted>>
cnBuffers == <<cnStorage, cnFilling, cnPending, cnActive, cnTx, cnOwned>>
cnDisplay == <<cnShown, cnResetDisplay>>
cnCounts == <<cnKeys, cnLogs, cnFaults>>
cnVars == <<cnKind, cnOpened, cnInput, cnBuffers, cnDisplay, cnScreen, cnLost, cnCounts>>

-----------------------------------------------------------------------------

CnErase == -1
CnRecord == -2
CnNoTx == [half |-> 0, size |-> 0]
CnBlank == [i \in 1 .. CnCapacity |-> 0]

CnTypeOK ==
    /\ Len(cnQueue) <= CnLines /\ Len(cnLine) <= CnLineSize
    /\ cnFilling \in {1, 2}
    /\ {cnPending, cnActive, cnTx.size} \subseteq 0 .. CnCapacity
    /\ {cnCr, cnDiscard, cnResetDisplay, cnLost, cnOpened} \subseteq BOOLEAN

CnInit ==
    /\ cnKind \in {"uart", "usb"} /\ cnOpened = (cnKind = "uart")
    /\ cnQueue = <<>> /\ cnLine = <<>> /\ cnCr = FALSE /\ cnDiscard = FALSE
    /\ cnDropped = 0
    /\ cnStorage = <<CnBlank, CnBlank>> /\ cnFilling = 1 /\ cnPending = 0
    /\ cnActive = 0 /\ cnShown = <<>> /\ cnResetDisplay = FALSE
    /\ cnTx = CnNoTx /\ cnOwned = <<>> /\ cnScreen = <<>> /\ cnLost = FALSE
    /\ cnTyped = 0 /\ cnAccounted = 0 /\ cnKeys = 0 /\ cnLogs = 0 /\ cnFaults = 0

-----------------------------------------------------------------------------
\* Input, from interrupts.

\* Mutant: the rest of a spoilt line is joined to the next one.
CnNextLineJoined(line, discard) == IF discard THEN line ELSE <<>>

\* The line collected after a terminator.
CnNextLine(line, discard) == <<>>

\* Receive(): a terminator, an erasure or a character.
CnReceive(key) ==
    /\ cnOpened /\ cnKeys < CnMaxKeys
    /\ cnKeys' = cnKeys + 1
    /\ cnCr' = (key = "cr")
    /\ CASE key = "lf" /\ cnCr ->
              UNCHANGED <<cnQueue, cnLine, cnDiscard, cnDropped, cnTyped, cnAccounted>>
         [] key = "cr" \/ (key = "lf" /\ ~cnCr) ->
              /\ cnQueue' = IF ~cnDiscard /\ Len(cnQueue) < CnLines
                            THEN Append(cnQueue, cnLine) ELSE cnQueue
              /\ LET full == ~cnDiscard /\ Len(cnQueue) = CnLines IN
                 /\ cnDropped' = IF full THEN cnDropped + 1 ELSE cnDropped
                 /\ cnAccounted' = IF full THEN cnAccounted + 1 ELSE cnAccounted
              /\ cnLine' = CnNextLine(cnLine, cnDiscard)
              /\ cnDiscard' = FALSE
              /\ cnTyped' = cnTyped + 1
         [] key = "backspace" ->
              /\ cnLine' = IF ~cnDiscard /\ Len(cnLine) \in 1 .. CnLineSize - 1
                           THEN Front(cnLine) ELSE cnLine
              /\ UNCHANGED <<cnQueue, cnDiscard, cnDropped, cnTyped, cnAccounted>>
         [] OTHER ->
              /\ cnLine' = IF ~cnDiscard /\ Len(cnLine) < CnLineSize
                           THEN Append(cnLine, cnTyped) ELSE cnLine
              /\ UNCHANGED <<cnQueue, cnDiscard, cnDropped, cnTyped, cnAccounted>>
    /\ UNCHANGED <<cnKind, cnOpened, cnBuffers, cnDisplay, cnScreen, cnLost, cnLogs,
                   cnFaults>>

\* A UART error: the line is lost up to its terminator.
CnLineError ==
    /\ cnKind = "uart" /\ cnFaults < CnMaxFaults
    /\ cnFaults' = cnFaults + 1
    /\ cnDiscard' = TRUE
    /\ cnDropped' = IF cnDiscard THEN cnDropped ELSE cnDropped + 1
    /\ cnAccounted' = IF cnDiscard THEN cnAccounted ELSE cnAccounted + 1
    /\ UNCHANGED <<cnKind, cnOpened, cnQueue, cnLine, cnCr, cnTyped, cnBuffers,
                   cnDisplay, cnScreen, cnLost, cnKeys, cnLogs>>

-----------------------------------------------------------------------------
\* Output.

\* Mutant: the half that is being transmitted is filled on.
CnOtherSame(half) == half

\* The half that is filled while the other one is transmitted.
CnOther(half) == 3 - half

\* Start(): hand the filled half to the hardware, unless it is busy or empty;
\* if that fails, what was queued is discarded.
CnStart(storage, pending, active, tx) ==
    IF active > 0 \/ pending = 0
    THEN /\ cnPending' = pending /\ cnActive' = active /\ cnTx' = tx
         /\ cnOwned' = IF tx = CnNoTx THEN <<>> ELSE cnOwned
         /\ UNCHANGED <<cnFilling, cnLost>>
    ELSE \/ /\ tx = CnNoTx
            /\ cnActive' = pending /\ cnPending' = 0 /\ cnFilling' = CnOther(cnFilling)
            /\ cnTx' = [half |-> cnFilling, size |-> pending]
            /\ cnOwned' = SubSeq(storage[cnFilling], 1, pending)
            /\ UNCHANGED cnLost
         \/ /\ cnPending' = 0 /\ cnActive' = 0 /\ cnLost' = TRUE
            /\ cnTx' = tx /\ cnOwned' = IF tx = CnNoTx THEN <<>> ELSE cnOwned
            /\ UNCHANGED cnFilling

\* write() of all the parts of a frame, then flush(): the frame goes into the
\* filling half whole, or not at all.
CnFlush(frame) ==
    IF Len(frame) > CnFrame \/ Len(frame) > CnCapacity - cnPending
    THEN cnLost' = TRUE /\ UNCHANGED cnBuffers
    ELSE LET half == [i \in 1 .. CnCapacity |->
                        IF i > cnPending /\ i <= cnPending + Len(frame)
                        THEN frame[i - cnPending] ELSE cnStorage[cnFilling][i]]
             storage == [cnStorage EXCEPT ![cnFilling] = half]
         IN  /\ cnStorage' = storage
             /\ CnStart(storage, cnPending + Len(frame), cnActive, cnTx)

\* The transfer ends: the terminal obeys what the half holds by now.
CnObey(screen, bytes) ==
    LET last == SelectLastInSeq(bytes, LAMBDA b : b < 0)
    IN  IF last = 0 THEN screen \o bytes ELSE SubSeq(bytes, last + 1, Len(bytes))

\* Completion interrupt: complete().
CnComplete ==
    /\ cnTx # CnNoTx /\ cnActive > 0
    /\ cnScreen' = CnObey(cnScreen, SubSeq(cnStorage[cnTx.half], 1, cnTx.size))
    /\ CnStart(cnStorage, cnPending, 0, CnNoTx)
    /\ UNCHANGED <<cnKind, cnOpened, cnInput, cnStorage, cnDisplay, cnCounts>>

\* DMA error interrupt: the transfer stops somewhere, the queued tail is
\* discarded.
CnTransferError ==
    /\ cnKind = "uart" /\ cnTx # CnNoTx /\ cnFaults < CnMaxFaults
    /\ cnFaults' = cnFaults + 1
    /\ cnPending' = 0 /\ cnActive' = 0 /\ cnTx' = CnNoTx /\ cnOwned' = <<>>
    /\ cnLost' = TRUE
    /\ UNCHANGED <<cnKind, cnOpened, cnInput, cnStorage, cnFilling, cnDisplay, cnScreen,
                   cnKeys, cnLogs>>

-----------------------------------------------------------------------------
\* The task.

\* LineDisplay::show(): nothing, the new characters, or an erasure and the line.
CnShow(shown, line) ==
    CASE shown = line -> <<>>
      [] shown # line /\ IsPrefix(shown, line) ->
            SubSeq(line, Len(shown) + 1, Len(line))
      [] OTHER -> (IF shown = <<>> THEN <<>> ELSE <<CnErase>>) \o line

\* The display as ResetDisplay() leaves it.
CnDisplayed == IF cnResetDisplay THEN <<>> ELSE cnShown

CnPreview == IF cnDiscard THEN <<>> ELSE cnLine

\* poll_line() and the dispatch of its line: the echo is cleared for a
\* complete line, and brought up to date otherwise.
CnPoll ==
    /\ cnOpened
    /\ cnResetDisplay' = FALSE
    /\ cnDropped' = 0
    /\ IF cnQueue # <<>>
       THEN /\ cnQueue' = Tail(cnQueue) /\ cnAccounted' = cnAccounted + 1
            /\ cnShown' = <<>>
            /\ CnFlush(CnShow(CnDisplayed, <<>>))
       ELSE /\ UNCHANGED <<cnQueue, cnAccounted>>
            /\ cnShown' = CnPreview
            /\ CnFlush(CnShow(CnDisplayed, CnPreview))
    /\ UNCHANGED <<cnKind, cnOpened, cnLine, cnCr, cnDiscard, cnTyped, cnScreen,
                   cnCounts>>

\* output(): before_log(), the record, after_log().
CnLogFrame(shown) ==
    (IF shown = <<>> THEN <<>> ELSE <<CnErase>>) \o <<CnRecord>> \o shown

CnLog ==
    /\ cnOpened /\ cnLogs < CnMaxLogs
    /\ cnLogs' = cnLogs + 1
    /\ cnResetDisplay' = FALSE /\ cnShown' = CnDisplayed
    /\ CnFlush(CnLogFrame(CnDisplayed))
    /\ UNCHANGED <<cnKind, cnOpened, cnInput, cnScreen, cnKeys, cnFaults>>

-----------------------------------------------------------------------------
\* USB sessions.

\* Input::reset(), BufferedOutput::discard() and the flag for the display: the
\* line under way ends here.
CnReset ==
    /\ cnQueue' = <<>> /\ cnLine' = <<>> /\ cnCr' = FALSE /\ cnDiscard' = FALSE
    /\ cnTyped' = cnTyped + 1
    /\ cnAccounted' = cnAccounted + Len(cnQueue) + (IF cnDiscard THEN 0 ELSE 1)
    /\ cnPending' = 0 /\ cnActive' = 0 /\ cnTx' = CnNoTx /\ cnOwned' = <<>>
    /\ cnResetDisplay' = TRUE

\* DTR rises: a terminal opens the port.
CnOpen ==
    /\ cnKind = "usb" /\ ~cnOpened
    /\ cnOpened' = TRUE
    /\ UNCHANGED <<cnKind, cnInput, cnBuffers, cnDisplay, cnScreen, cnLost, cnCounts>>

\* DTR falls, the bus is reset or the cable is pulled: the transfer is aborted
\* and the session ends.
CnClose ==
    /\ cnKind = "usb" /\ cnOpened /\ cnFaults < CnMaxFaults
    /\ cnFaults' = cnFaults + 1
    /\ cnOpened' = FALSE
    /\ CnReset
    /\ cnScreen' = <<>> /\ cnLost' = FALSE
    /\ UNCHANGED <<cnKind, cnDropped, cnStorage, cnFilling, cnShown, cnKeys, cnLogs>>

\* The H563's bus is suspended: the session is cut but stays open.
CnSuspend ==
    /\ cnKind = "usb" /\ cnOpened /\ cnFaults < CnMaxFaults
    /\ cnFaults' = cnFaults + 1
    /\ CnReset
    /\ cnLost' = TRUE
    /\ UNCHANGED <<cnKind, cnOpened, cnDropped, cnStorage, cnFilling, cnShown, cnScreen,
                   cnKeys, cnLogs>>

CnKeys == {"char", "cr", "lf", "backspace"}

CnNext ==
    \/ \E key \in CnKeys : CnReceive(key)
    \/ CnLineError \/ CnComplete \/ CnTransferError \/ CnPoll \/ CnLog \/ CnOpen
    \/ CnClose \/ CnSuspend

CnSpec == CnInit /\ [][CnNext]_cnVars

-----------------------------------------------------------------------------

\* No line is lost silently, and no two are mixed: every ended line is waiting,
\* was delivered, was counted as dropped or belonged to an ended session; and
\* each holds characters of one line only.
CnLinesWhole ==
    /\ cnTyped + (IF cnDiscard THEN 1 ELSE 0) = cnAccounted + Len(cnQueue)
    /\ \A line \in Range(cnQueue) \union {CnPreview} :
        \A i, j \in DOMAIN line : line[i] = line[j]
    /\ CnPreview # <<>> => CnPreview[1] = cnTyped

\* What is being transmitted is not written over; and once everything was
\* sent, unless a frame was dropped, the terminal shows below the log what the
\* console believes it shows.
CnEcho ==
    /\ cnTx # CnNoTx => SubSeq(cnStorage[cnTx.half], 1, cnTx.size) = cnOwned
    /\ cnTx = CnNoTx /\ cnPending = 0 /\ ~cnLost => cnScreen = CnDisplayed

\* Input and output of the terminal.
CnTerminal == CnTypeOK /\ CnLinesWhole /\ CnEcho

==============================================================================
