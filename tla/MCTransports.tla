---------------------------- MODULE MCTransports ----------------------------
(***************************************************************************)
(* Small instances of the services that move data for others: the bus      *)
(* controller, the SPI and I2C drivers, the Ethernet driver and the TCP    *)
(* server.  One behaviour is about one of them.                            *)
(***************************************************************************)
EXTENDS BusController, SpiDriver, I2cDriver, EthDriver, TcpServer

VARIABLE service   \* the one that runs; constant

allVars == <<service, vars, spVars, icVars, etVars, tcVars>>

\* One program with a comparison, one with a pause; resets are one bounded call.
Short == {<<"check", "transfer">>, <<"pause">>}

\* A service that does not run is in one of its initial states.
MCInit ==
    /\ service \in {"bus", "spi", "i2c", "ethernet", "tcp"}
    /\ Init
    /\ service # "spi" => spPart = "none"
    /\ SpInit
    /\ service # "i2c" => icHeld = 0
    /\ IcInit /\ EtInit
    /\ service # "tcp" => nwDhcp = FALSE
    /\ TcInit

MCNext ==
    /\ UNCHANGED service
    /\ \/ service = "bus" /\ Next /\ UNCHANGED <<spVars, icVars, etVars, tcVars>>
       \/ service = "spi" /\ SpNext /\ UNCHANGED <<vars, icVars, etVars, tcVars>>
       \/ service = "i2c" /\ IcNext /\ UNCHANGED <<vars, spVars, etVars, tcVars>>
       \/ service = "ethernet" /\ EtNext /\ UNCHANGED <<vars, spVars, icVars, tcVars>>
       \/ service = "tcp" /\ TcNext /\ UNCHANGED <<vars, spVars, icVars, etVars>>

\* The state of the service that runs, and a step of it.
running ==
    CASE service = "bus" -> vars [] service = "spi" -> spVars
      [] service = "i2c" -> icVars [] service = "ethernet" -> etVars
      [] service = "tcp" -> tcVars
Bus(A) == service = "bus" /\ service' = service /\ A
Spi(A) == service = "spi" /\ service' = service /\ A
I2c(A) == service = "i2c" /\ service' = service /\ A
Tcp(A) == service = "tcp" /\ service' = service /\ A

\* The fairness of each module, for the service that runs: service is constant,
\* so fairness of a disjunction is fairness of the disjunct that service names.
MCFairness ==
    /\ SF_running(Bus(pending /\ Enter))
    /\ WF_running(Bus(TickMachine \/ Leave \/ Notify) \/ Spi(SpClock)
                     \/ I2c(IcAddressed) \/ Tcp(TcAppPoll))
    /\ WF_running(Bus(\E c \in Callers : Refuse(c) \/ Accept(c) \/ Pend(c))
                     \/ Spi(DmSend) \/ I2c(IcData) \/ Tcp(NwDeliver))
    /\ WF_running(Bus(Fire("deadline")) \/ Spi(DmReceive) \/ I2c(IcChunkEnds))
    /\ WF_running(Bus(Fire("pause")) \/ Spi(SpEndFlag) \/ I2c(IcPoll))
    /\ WF_running(Bus(TimePasses) \/ Spi(SpInterrupt))

MCSpec == MCInit /\ [][MCNext]_allVars /\ MCFairness

\* The bytes of a transfer arrive as they are, whichever driver moves them, and
\* a bus clear frees the bus without addressing a device.
DriversExact == [](SpTypeOK /\ SpExact) /\ IcSafe

\* What the service that runs still owes somebody.
Unfinished == RequestsOwed \/ SpRunning \/ IcRunning \/ TcUnread

\* What was begun ends.  A bus operation is answered even when the peripheral
\* never is, through the deadline, re-pended interrupts and the bounded loop; a
\* driver's transfer ends from its own interrupts, none of which it leaves
\* disabled; the window given back lets every received byte be consumed.
TransfersEnd == Unfinished ~> ~Unfinished
=============================================================================
