-------------------------- MODULE MCExternalService --------------------------
(* Instances of ExternalService for TLC.                                     *)
EXTENDS ExternalService

\* Ports and addresses are alike: the first of each may be fixed.  The configured port
\* is only applied by the load balancer manager.
CONSTANTS FirstPort, SecondAddress

MCInit ==
    /\ Init
    /\ target = FirstPort /\ tagged # SecondAddress
    /\ "eip" \in managers => setting = 0

MCSpec == MCInit /\ [][Next]_vars /\ Fairness

\* Two managers follow each other's writes without end; one change or failure on top of
\* that makes their graph the larger part by far, and is left to each alone.
UndisturbedBoth == managers = {"eip", "lb"} => changes + faults = 0
=============================================================================
