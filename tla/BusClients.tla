----------------------------- MODULE BusClients -----------------------------
(***************************************************************************)
(* The modules that share the I2C buses of an application: the scanner of  *)
(* lib/hal/adapters/i2c_module.hpp, the SSD1306 panel with its module and   *)
(* the status view of lib/drivers, and the MCP3425 reader.                  *)
(*                                                                         *)
(* Each client leases a bus for a sequence of transactions.  Its task ticks *)
(* a state machine; transactions complete from an interrupt in between.     *)
(* The bus below the lease is what hal::Controller promises: one            *)
(* transaction at a time, refused while faulted.  A framebuffer is one of   *)
(* a few images, the same on each page.  A value that the code overwrites   *)
(* before it reads it again is cleared when its sequence ends.              *)
(***************************************************************************)
EXTENDS Integers, Sequences

CONSTANTS
    BlBuses,        \* kBusCount
    BlDisplayBus,   \* the bus of the panel
    BlAdcBus,       \* the bus of the converter
    ScFirst,        \* 0x08, the first address probed
    ScEnd,          \* 0x78, past the last
    BlPresent,      \* the addresses that answer on each bus
    DpPages,        \* kHeight / 8
    DpColumns,      \* kDisplayColumns
    AdTimeout,      \* kConversionTimeoutUs, in units of time
    AdPoll,         \* kPollIntervalUs
    AdRaws          \* 16-bit words the converter may measure

ASSUME BlAssumption ==
    /\ BlBuses \in Nat \ {0} /\ {BlDisplayBus, BlAdcBus} \subseteq 1 .. BlBuses
    /\ ScFirst < ScEnd
    /\ AdRaws \subseteq 0 .. 65535

VARIABLES
    blUp,           \* "cold", "up" or "failed": init of I2cModule
    blLeased,       \* leased_ of each bus
    blTx,           \* the transaction each controller runs
    blFault,        \* the buses that are faulted
    blDone,         \* what each client knows of its transaction
    sc,             \* the scanner: state, requests, position, map
    dpState,        \* machine_ of the panel
    dpPanel,        \* the panel's flags
    dpPage,         \* page_
    dpFrame,        \* framebuffer_
    dpResult,       \* result_ of the panel
    dpModule,       \* pending_ and live_ of the module
    dpGlass,        \* what the panel holds: its pages, and whether it is lit
    ad,             \* the reader: state, flags, ages, bytes
    adDevice        \* the converter: last and coming word, conversion done

dpVars == <<dpState, dpPanel, dpPage, dpFrame, dpResult, dpModule, dpGlass>>
adVars == <<ad, adDevice>>
blBus == <<blLeased, blTx, blFault, blDone>>
blVars == <<blUp, blBus, sc, dpVars, adVars>>

-----------------------------------------------------------------------------

BlAll == 1 .. BlBuses
BlClients == {"scanner", "display", "adc"}
BlNoTx == [who |-> "none", what |-> "none", arg |-> 0]
BlIdle == [phase |-> "empty", status |-> "ok"]
ScIdle == [state |-> "idle", requested |-> FALSE, reset |-> FALSE, index |-> 1,
           address |-> ScFirst, map |-> {}]
AdIdle == [state |-> "idle", active |-> FALSE, requested |-> FALSE,
           pending |-> FALSE, age |-> 0, polled |-> 0,
           bytes |-> [raw |-> 0, ready |-> TRUE, match |-> TRUE]]
DpPageSet == 0 .. DpPages - 1

BlTypeOK ==
    /\ blLeased \in [BlAll -> BOOLEAN] /\ blFault \subseteq BlAll
    /\ \A c \in BlClients : blDone[c].phase \in {"empty", "pending", "ready"}
    /\ sc.state \in {"idle", "probing", "resetting"}
    /\ sc.index \in BlAll /\ sc.address \in ScFirst .. ScEnd - 1
    /\ dpState \in {"idle", "configuring", "addressing", "writing", "enabling"}
    /\ dpPage \in 0 .. DpPages
    /\ ad.state \in {"idle", "writing", "waiting", "reading"}
    /\ ad.age \in 0 .. AdTimeout /\ ad.polled \in 0 .. AdPoll

\* After reset nothing is leased; a panel that kept its power may still be
\* lit, and what it holds is not known.
BlInit ==
    /\ blUp = "cold"
    /\ blLeased = [b \in BlAll |-> FALSE]
    /\ blTx = [b \in BlAll |-> BlNoTx]
    /\ blFault \in SUBSET BlAll
    /\ blDone = [c \in BlClients |-> BlIdle]
    /\ sc = ScIdle
    /\ dpState = "idle" /\ dpPage = 0 /\ dpFrame = "blank"
    /\ dpResult = "none"
    /\ dpPanel = [requested |-> FALSE, busy |-> FALSE,
                  initialized |-> FALSE, initialize |-> FALSE]
    /\ dpModule = [pending |-> FALSE, live |-> TRUE]
    /\ dpGlass \in [pages : {[p \in DpPageSet |-> "noise"]}, lit : BOOLEAN]
    /\ ad = AdIdle
    /\ adDevice \in [raw : AdRaws, next : AdRaws, done : {TRUE}]

-----------------------------------------------------------------------------
(* Transactions.                                                           *)

\* Completion::start on a device, or probe and reset of the scanner: the
\* answer to come is forgotten first, and a refusal is an answer at once.
BlStart(client, bus, what, arg) ==
    IF blTx[bus].who = "none" /\ (bus \notin blFault \/ what = "reset")
    THEN /\ blTx' = [blTx EXCEPT ![bus] = [who |-> client, what |-> what, arg |-> arg]]
         /\ blDone' = [blDone EXCEPT ![client] = [phase |-> "pending", status |-> "ok"]]
    ELSE /\ blDone' = [blDone EXCEPT ![client] = [phase |-> "ready", status |-> "rejected"]]
         /\ UNCHANGED blTx

BlReady(client) == blDone[client].phase = "ready"
BlStatus(client) == blDone[client].status

\* What a transaction may end with.
BlOutcomes(bus, tx) ==
    IF tx.what = "probe"
    THEN {"error", IF tx.arg \in BlPresent[bus] THEN "ok" ELSE "nack"}
    ELSE {"ok", "error"}

\* The panel takes a command or a page; a page cut short is spoilt.
DpTakes(tx, status) ==
    dpGlass' =
      CASE tx.what = "configure" /\ status = "ok" -> [dpGlass EXCEPT !.lit = FALSE]
        [] tx.what = "enable" /\ status = "ok" -> [dpGlass EXCEPT !.lit = TRUE]
        [] tx.what = "page" ->
             [dpGlass EXCEPT !.pages[tx.arg.page] =
                IF status = "ok" THEN tx.arg.image ELSE "noise"]
        [] OTHER -> dpGlass

\* A configuration begins a conversion; a read returns the last word, whether
\* it is new, and the configuration the converter has now.
AdTakes(tx, status) ==
    /\ IF tx.what = "write" /\ status = "ok"
       THEN \E raw \in AdRaws \ {adDevice.raw} :
              adDevice' = [adDevice EXCEPT !.next = raw, !.done = FALSE]
       ELSE UNCHANGED adDevice
    /\ IF tx.what = "read" /\ status = "ok"
       THEN \E match \in BOOLEAN :
              ad' = [ad EXCEPT !.bytes = [raw |-> adDevice.raw,
                                          ready |-> adDevice.done,
                                          match |-> match]]
       ELSE UNCHANGED ad

\* The controller ends a transaction from an interrupt and calls the client
\* back.  A failed cleanup faults the bus; a reset that succeeds repairs it.
BlComplete(bus) ==
    /\ blTx[bus].who # "none"
    /\ \E status \in BlOutcomes(bus, blTx[bus]) :
         /\ blDone' = [blDone EXCEPT ![blTx[bus].who] =
                         [phase |-> "ready", status |-> status]]
         /\ IF status = "error"
            THEN blFault' \in {blFault, blFault \union {bus}}
            ELSE blFault' = IF blTx[bus].what = "reset" THEN blFault \ {bus}
                            ELSE blFault
         /\ DpTakes(blTx[bus], status)
         /\ AdTakes(blTx[bus], status)
    /\ blTx' = [blTx EXCEPT ![bus] = BlNoTx]
    /\ UNCHANGED <<blUp, blLeased, sc, dpState, dpPanel, dpPage, dpFrame,
                   dpResult, dpModule>>

-----------------------------------------------------------------------------
(* The scanner.                                                            *)

\* Mutant: what was acquired is kept.
ScRolledBackNot(taken) ==
    [b \in BlAll |-> blLeased[b] \/ \A t \in taken : b < t]

\* The buses leased when Request finds one taken: those acquired so far are
\* given back.
ScRolledBack(taken) ==
    [b \in BlAll |-> blLeased[b] /\ \E t \in taken : t <= b]

\* Request: all buses, or none.
ScRequest(reset) ==
    /\ blUp = "up" /\ ~sc.requested
    /\ LET taken == {b \in BlAll : blLeased[b]} IN
       IF taken = {}
       THEN /\ blLeased' = [b \in BlAll |-> TRUE]
            /\ sc' = [sc EXCEPT !.reset = reset, !.requested = TRUE]
       ELSE /\ blLeased' = ScRolledBack(taken)
            /\ UNCHANGED sc
    /\ UNCHANGED <<blUp, blTx, blFault, blDone, dpVars, adVars>>

\* init: every bus in turn, all of them given up when one fails; a bus found
\* faulted asks for the reset that the task will run.
ScInit ==
    /\ blUp = "cold"
    /\ \/ /\ blUp' = "failed"
          /\ UNCHANGED <<blLeased, sc>>
       \/ /\ blUp' = "up"
          /\ blLeased' = [b \in BlAll |-> blFault # {}]
          /\ sc' = [sc EXCEPT !.reset = blFault # {}, !.requested = blFault # {}]
    /\ UNCHANGED <<blTx, blFault, blDone, dpVars, adVars>>

\* Mutant: the map of the bus before is kept.
ScBeginBusUncleared(index, state) ==
    /\ sc' = [sc EXCEPT !.state = state, !.index = index, !.address = ScFirst]
    /\ BlStart("scanner", index, IF sc.reset THEN "reset" ELSE "probe", ScFirst)
    /\ UNCHANGED blLeased

\* BeginBus: an empty map, and the reset or the first probe.
ScBeginBus(index, state) ==
    /\ sc' = [sc EXCEPT !.state = state, !.index = index, !.address = ScFirst,
                        !.map = {}]
    /\ BlStart("scanner", index, IF sc.reset THEN "reset" ELSE "probe", ScFirst)
    /\ UNCHANGED blLeased

\* The next bus, or Finish after the last.
ScNextBus ==
    IF sc.index = BlBuses
    THEN /\ blLeased' = [b \in BlAll |-> FALSE]
         /\ sc' = ScIdle
         /\ blDone' = [blDone EXCEPT !["scanner"] = BlIdle]
         /\ UNCHANGED blTx
    ELSE ScBeginBus(sc.index + 1, sc.state)

\* An answer to a probe: other than an acknowledgement or none, the scan of
\* the bus is given up.
ScAnswered == sc.state = "probing" /\ BlReady("scanner")
ScError == BlStatus("scanner") \notin {"ok", "nack"}
ScLast == sc.address + 1 = ScEnd
ScMap ==
    IF BlStatus("scanner") = "ok" THEN sc.map \union {sc.address} ELSE sc.map

ScTick ==
    /\ blUp = "up"
    /\ \/ /\ sc.state = "idle" /\ sc.requested
          /\ ScBeginBus(1, IF sc.reset THEN "resetting" ELSE "probing")
       \/ /\ ScAnswered /\ (ScError \/ ScLast)
          /\ ScNextBus
       \/ /\ ScAnswered /\ ~ScError /\ ~ScLast
          /\ sc' = [sc EXCEPT !.address = @ + 1, !.map = ScMap]
          /\ BlStart("scanner", sc.index, "probe", sc.address + 1)
          /\ UNCHANGED blLeased
       \/ /\ sc.state = "resetting" /\ BlReady("scanner")
          /\ ScNextBus
    /\ UNCHANGED <<blUp, blFault, dpVars, adVars>>

-----------------------------------------------------------------------------
(* The panel and its module.                                               *)

\* Acquire: no update of its own pending, and the bus free.
DpMayAcquire == ~dpModule.pending /\ ~blLeased[BlDisplayBus]

\* Submit of an accepted request: the lease is kept until the task sees the
\* result.
DpAccepted(initialize, live) ==
    /\ dpPanel' = [dpPanel EXCEPT !.initialize = initialize, !.requested = TRUE,
                                  !.busy = TRUE,
                                  !.initialized = @ /\ ~initialize]
    /\ dpResult' = "none"
    /\ dpModule' = [pending |-> TRUE, live |-> live]
    /\ blLeased' = [blLeased EXCEPT ![BlDisplayBus] = TRUE]

\* The frame is drawn at once; a panel that is not initialized refuses the
\* refresh, which turns the live view off.
DpRefresh(image, live) ==
    /\ dpFrame' = image
    /\ IF dpPanel.initialized
       THEN DpAccepted(FALSE, live)
       ELSE /\ dpModule' = [dpModule EXCEPT !.live = FALSE]
            /\ UNCHANGED <<dpPanel, dpResult, blLeased>>

DpOthers == <<blUp, blTx, blFault, blDone, sc, dpState, dpPage, dpGlass, adVars>>

\* Init.
DpInitialize ==
    /\ blUp = "up"
    /\ IF DpMayAcquire
       THEN DpAccepted(TRUE, FALSE) /\ dpFrame' = "blank"
       ELSE /\ dpModule' = [dpModule EXCEPT !.live = FALSE]
            /\ UNCHANGED <<dpPanel, dpResult, dpFrame, blLeased>>
    /\ UNCHANGED DpOthers

\* Text, Pattern and Clear: the automatic view stops even when the bus is busy.
DpDraw(image) ==
    /\ blUp = "up"
    /\ IF DpMayAcquire
       THEN DpRefresh(image, FALSE)
       ELSE /\ dpModule' = [dpModule EXCEPT !.live = FALSE]
            /\ UNCHANGED <<dpPanel, dpResult, dpFrame, blLeased>>
    /\ UNCHANGED DpOthers

\* Live.
DpLive(enabled) ==
    /\ blUp = "up"
    /\ dpModule' = [dpModule EXCEPT !.live = enabled]
    /\ UNCHANGED <<blLeased, dpPanel, dpResult, dpFrame, DpOthers>>

\* Mutant: the row as it was written.
DbFillAsIs(row) == row

\* Fill: what the application wrote into a row, cut at the last cell, with
\* "?" for what the font lacks.
DbFill(row) ==
    [i \in 1 .. (IF Len(row) > DpColumns THEN DpColumns ELSE Len(row)) |-> "plain"]

\* text: the whole row fits and every character is in the font.
DpShowable(row) == Len(row) <= DpColumns /\ \A i \in DOMAIN row : row[i] = "plain"

\* show(lines): a busy bus skips the frame; the first one initializes; a row
\* the font cannot show leaves the frame cleared and nothing submitted.
DpShow(row) ==
    /\ DpMayAcquire
    /\ IF ~dpPanel.initialized
       THEN DpAccepted(TRUE, TRUE) /\ dpFrame' = "blank"
       ELSE IF DpShowable(row)
       THEN DpRefresh("live", TRUE)
       ELSE dpFrame' = "blank" /\ UNCHANGED <<blLeased, dpPanel, dpResult, dpModule>>

\* Update of the status view, once a second.
DbUpdate(row) ==
    /\ blUp = "up" /\ dpModule.live
    /\ DpShow(DbFill(row))
    /\ UNCHANGED DpOthers

\* Address of a page, and its bytes out of the frame.
DpAddress == BlStart("display", BlDisplayBus, "address", dpPage')

\* Mutant: the last page is left out.
DpNextPageEarly ==
    IF dpPage + 1 < DpPages - 1 THEN "addressing"
    ELSE IF dpPanel.initialize THEN "enabling" ELSE "idle"

\* After a page: the next one, the command that lights the panel, or the end.
DpNextPage ==
    IF dpPage + 1 < DpPages THEN "addressing"
    ELSE IF dpPanel.initialize THEN "enabling" ELSE "idle"

\* The state after an answer that is ok.
DpNext ==
    CASE dpState = "configuring" -> "addressing"
      [] dpState = "addressing" -> "writing"
      [] dpState = "writing" -> DpNextPage
      [] dpState = "enabling" -> "idle"

\* Finish, and the module's tick that reports it in the same call.
DpFinish(status) ==
    /\ dpResult' = IF status = "ok" THEN "ok" ELSE "failed"
    /\ dpPanel' = [dpPanel EXCEPT !.busy = FALSE, !.initialize = FALSE,
                                  !.initialized = status = "ok"]
    /\ dpModule' = [pending |-> FALSE, live |-> dpModule.live /\ status = "ok"]
    /\ blLeased' = [blLeased EXCEPT ![BlDisplayBus] = FALSE]
    /\ blDone' = [blDone EXCEPT !["display"] = BlIdle]
    /\ UNCHANGED blTx

DpTick ==
    /\ blUp = "up"
    /\ \/ /\ dpState = "idle" /\ dpPanel.requested
          /\ dpPage' = 0
          /\ dpPanel' = [dpPanel EXCEPT !.requested = FALSE]
          /\ IF dpPanel.initialize
             THEN /\ dpState' = "configuring"
                  /\ BlStart("display", BlDisplayBus, "configure", 0)
             ELSE dpState' = "addressing" /\ DpAddress
          /\ UNCHANGED <<blLeased, dpResult, dpModule>>
       \/ /\ dpState # "idle" /\ BlReady("display")
          /\ dpState' = IF BlStatus("display") = "ok" THEN DpNext ELSE "idle"
          /\ dpPage' = IF dpState' = "idle" THEN 0
                       ELSE IF dpState = "writing" THEN dpPage + 1 ELSE dpPage
          /\ IF dpState' = "idle"
             THEN DpFinish(BlStatus("display"))
             ELSE /\ CASE dpState' = "addressing" -> DpAddress
                       [] dpState' = "writing" ->
                            BlStart("display", BlDisplayBus, "page",
                                    [page |-> dpPage, image |-> dpFrame])
                       [] dpState' = "enabling" ->
                            BlStart("display", BlDisplayBus, "enable", 0)
                  /\ UNCHANGED <<blLeased, dpPanel, dpResult, dpModule>>
    /\ UNCHANGED <<blUp, blFault, sc, dpFrame, dpGlass, adVars>>

-----------------------------------------------------------------------------
(* The converter.                                                          *)

\* The word as int16_t, and its microvolts: 62.5 per unit, the division of
\* C++ rounding toward zero.
AdCode(raw) == IF raw >= 32768 THEN raw - 65536 ELSE raw
AdMicrovolts(code) ==
    IF code < 0 THEN -((-code * 125) \div 2) ELSE (code * 125) \div 2

\* Sample.
AdSample ==
    /\ blUp = "up" /\ ~ad.pending /\ ~blLeased[BlAdcBus] /\ ~ad.active
    /\ blLeased' = [blLeased EXCEPT ![BlAdcBus] = TRUE]
    /\ ad' = [ad EXCEPT !.active = TRUE, !.requested = TRUE, !.pending = TRUE]
    /\ UNCHANGED <<blUp, blTx, blFault, blDone, sc, dpVars, adDevice>>

\* Finish, and the task that reports it in the same call.
AdFinish ==
    /\ ad' = AdIdle
    /\ blLeased' = [blLeased EXCEPT ![BlAdcBus] = FALSE]
    /\ blDone' = [blDone EXCEPT !["adc"] = BlIdle]
    /\ UNCHANGED blTx

\* The step waits: for the next poll.
AdWait == /\ ad' = [ad EXCEPT !.state = "waiting", !.polled = 0]
          /\ UNCHANGED <<blLeased, blTx, blDone>>

\* Mutant: a word that is not new counts.
AdSampledAny ==
    /\ ad.state = "reading" /\ BlReady("adc") /\ BlStatus("adc") = "ok"
    /\ ad.age < AdTimeout /\ ad.bytes.match

\* The answer to a read in time, with the configuration asked for and a word
\* that is new, is the sample.
AdSampled ==
    /\ ad.state = "reading" /\ BlReady("adc") /\ BlStatus("adc") = "ok"
    /\ ad.age < AdTimeout /\ ad.bytes.match /\ ad.bytes.ready

\* A failed transfer, the time allowed, and another configuration end the
\* reading too, in that order.
AdFails ==
    /\ ad.state = "reading" /\ BlReady("adc")
    /\ BlStatus("adc") # "ok" \/ ad.age = AdTimeout \/ ~ad.bytes.match

AdTick ==
    /\ blUp = "up"
    /\ \/ /\ ad.state = "idle" /\ ad.requested
          /\ ad' = [ad EXCEPT !.state = "writing", !.requested = FALSE, !.age = 0]
          /\ BlStart("adc", BlAdcBus, "write", 0)
          /\ UNCHANGED <<blLeased>>
       \/ /\ ad.state = "writing" /\ BlReady("adc")
          /\ IF BlStatus("adc") # "ok" THEN AdFinish ELSE AdWait
       \/ /\ ad.state = "waiting" /\ ad.age = AdTimeout
          /\ AdFinish
       \/ /\ ad.state = "waiting" /\ ad.age < AdTimeout /\ ad.polled = AdPoll
          /\ ad' = [ad EXCEPT !.state = "reading"]
          /\ BlStart("adc", BlAdcBus, "read", 0)
          /\ UNCHANGED blLeased
       \/ /\ AdSampled \/ AdFails
          /\ AdFinish
       \/ /\ ad.state = "reading" /\ BlReady("adc") /\ ~AdSampled /\ ~AdFails
          /\ AdWait
    /\ UNCHANGED <<blUp, blFault, sc, dpVars, adDevice>>

\* Time passes while a conversion is under way.
AdTime ==
    /\ ad.state # "idle" /\ (ad.age < AdTimeout \/ ad.polled < AdPoll)
    /\ ad' = [ad EXCEPT !.age = IF @ < AdTimeout THEN @ + 1 ELSE @,
                        !.polled = IF @ < AdPoll THEN @ + 1 ELSE @]
    /\ UNCHANGED <<blUp, blBus, sc, dpVars, adDevice>>

\* The converter finishes: its word is new until the next configuration.
AdConverts ==
    /\ ~adDevice.done
    /\ adDevice' = [adDevice EXCEPT !.raw = adDevice.next, !.done = TRUE]
    /\ UNCHANGED <<blUp, blBus, sc, dpVars, ad>>

-----------------------------------------------------------------------------

DbRows == UNION {[1 .. n -> {"plain", "other"}] : n \in 0 .. DpColumns + 1}

BlNext ==
    \/ ScInit \/ ScTick \/ DpTick \/ AdTick
    \/ \E reset \in BOOLEAN : ScRequest(reset)
    \/ \E b \in BlAll : BlComplete(b)
    \/ DpInitialize \/ \E image \in {"manual"} : DpDraw(image)
    \/ \E enabled \in BOOLEAN : DpLive(enabled)
    \/ \E row \in DbRows : DbUpdate(row)
    \/ AdSample \/ AdTime \/ AdConverts

BlSpec == BlInit /\ [][BlNext]_blVars

-----------------------------------------------------------------------------
(* Properties.                                                             *)

\* The clients whose sequence on a bus is open.
BlHolders(bus) ==
    {c \in BlClients :
        \/ c = "scanner" /\ sc.requested
        \/ c = "display" /\ dpModule.pending /\ bus = BlDisplayBus
        \/ c = "adc" /\ ad.pending /\ bus = BlAdcBus}

\* A bus is leased exactly while one client is in its sequence, whatever was
\* refused or failed on the way, and what runs on it is that client's: no scan
\* starts between two transfers of a client, and no lease outlives its owner.
BlExclusive ==
    \A b \in BlAll :
        /\ \A c, d \in BlHolders(b) : c = d
        /\ blLeased[b] <=> BlHolders(b) # {}
        /\ blTx[b].who # "none" => blTx[b].who \in BlHolders(b)

\* After an update reported complete the panel is lit and every page shows the
\* frame, also when the application's rows hold what the font lacks.
DpShows ==
    dpResult = "ok" =>
        dpGlass.lit /\ \A p \in DpPageSet : dpGlass.pages[p] = dpFrame

\* A sample about to be reported is the word of the conversion this request
\* began, not one left from before, and its microvolts are within half a
\* microvolt and never past it; a map about to be printed holds the addresses
\* that answer on that bus.
BlReports ==
    /\ AdSampled =>
         LET code == AdCode(ad.bytes.raw)
             uv == AdMicrovolts(code)
         IN  /\ ad.bytes.raw = adDevice.next
             /\ 2 * uv - 125 * code \in {-1, 0, 1} /\ uv * code >= 0
    /\ ScAnswered /\ ~ScError /\ ScLast => ScMap = BlPresent[sc.index]

\* The leases of the buses, and what their clients tell.
BlOrderly == BlTypeOK /\ BlExclusive /\ DpShows /\ BlReports

=============================================================================
