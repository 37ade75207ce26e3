--------------------------- MODULE MCOrchestrator ---------------------------
(***************************************************************************)
(* The scenarios in which TLC checks module Orchestrator.  A behaviour has *)
(* one of them, so that each may be as large as it needs to be.            *)
(***************************************************************************)
EXTENDS Orchestrator

Reliable(sfcis, requests, pending) ==
    [sfcis |-> sfcis, requests |-> requests, pending |-> pending, mayRaise |-> FALSE,
     admin |-> {}, redeliveries |-> 0]

\* Two SFCIs make a batch that is full, and one that is sent by the timer.
Concurrent  == Reliable(2, 3, 3)
\* Add an SFC, give it an SFCI, take that away and delete the SFC.
Sequential  == Reliable(1, 4, 1)
Redelivered == [Reliable(1, 3, 1) EXCEPT !.redeliveries = 1]
Exceptions  == [Reliable(1, 2, 2) EXCEPT !.mayRaise = TRUE, !.admin = AllAdminCmds]

SafetyScenarios   == {Concurrent, Sequential, Redelivered, Exceptions}
LivenessScenarios == {Reliable(1, 3, 2)}
OneByOne          == {Reliable(1, 3, 1)}
=============================================================================
