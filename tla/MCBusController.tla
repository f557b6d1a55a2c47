--------------------------- MODULE MCBusController ---------------------------
(***************************************************************************)
(* Small instances of the bus controller, of the clients above it (the     *)
(* scanner, the display and the converter) and of the start-up that brings *)
(* them up.  One behaviour is about one of the three.                      *)
(***************************************************************************)
EXTENDS BusController, BusClients, Startup, TLC

VARIABLE layer   \* the one that runs; constant

allVars == <<layer, vars, blVars, stVars>>

\* Action lists that begin and end with each kind of action, long enough to
\* exhaust the budget.
MCPrograms ==
    {<<"transfer", "check">>, <<"pause", "until">>, <<"poll">>, <<"check", "pause">>}

\* Callers are compared only with themselves.
Symmetry == Permutations(Callers)

\* One device answers on each bus.
Present == [b \in 1 .. 2 |-> {7 + b}]

\* Bindings that are sound, share a peripheral, share a chip select within or
\* between controllers, or hold a bad table; routes that are good or not.
Binding(id, pins, valid) == [identity |-> id, pins |-> pins, valid |-> valid]
Good == <<Binding("a", <<1, 0>>, TRUE), Binding("b", <<2>>, TRUE), Binding("c", <<0>>, TRUE)>>
Tables ==
    {Good, [Good EXCEPT ![3].valid = FALSE], [Good EXCEPT ![3].identity = "a"]}
    \union {[Good EXCEPT ![2].pins = <<2, p>>] : p \in {1, 2}}
Routes == {<<"x", "y">>, <<"x", "x">>, <<"y", "help">>, <<"invalid", "x">>}

\* A layer that does not run is in one of its initial states.
Noise == [p \in DpPageSet |-> "noise"]
MCInit ==
    /\ layer \in {"controller", "clients", "startup"}
    /\ Init
    /\ \/ layer = "clients"
       \/ /\ layer # "clients" /\ blFault = {}
          /\ dpGlass = [pages |-> Noise, lit |-> FALSE]
          /\ adDevice = [raw |-> 1, next |-> 1, done |-> TRUE]
    /\ BlInit
    /\ StInit
    /\ layer # "startup" => rgTable = Good /\ apRoute = <<"x", "y">>

MCNext ==
    /\ UNCHANGED layer
    /\ \/ layer = "controller" /\ Next /\ UNCHANGED <<blVars, stVars>>
       \/ layer = "clients" /\ BlNext /\ UNCHANGED <<vars, stVars>>
       \/ layer = "startup" /\ StNext /\ UNCHANGED <<vars, blVars>>

MCSpec == MCInit /\ [][MCNext]_allVars

\* Everything above the controllers is in order: the buses and their clients
\* once they are up (BlOrderly), and how they, the modules and the command
\* sources come up (StOrderly).
ClientsOrderly == BlOrderly /\ StOrderly
==============================================================================
