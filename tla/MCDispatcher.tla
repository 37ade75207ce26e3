---------------------------- MODULE MCDispatcher ----------------------------
(***************************************************************************)
(* The scenarios in which TLC checks module Dispatcher.                    *)
(***************************************************************************)
EXTENDS Dispatcher

\* Two orchestrators, with r requests, c reports and l losses.
Two(r, c, l) == [podNum |-> 2, orchNum |-> 2, requests |-> r, cmds |-> c, losses |-> l]

\* Failures and resumptions are reported to two orchestrators between requests, SFCs
\* migrate, and a request, a report or an answer is lost.
Reported == {Two(3, 1, 1), Two(2, 2, 0), Two(1, 2, 1)}

\* A later report makes up for an answer that was lost, or not for a report.
Lossy == {Two(0, 3, 1), Two(0, 2, 2)}

\* Every way to split pods; orchestrators that stay fit.
Splits == {[podNum |-> p, orchNum |-> o, requests |-> 4, cmds |-> 0, losses |-> 0] :
                p \in 1..8, o \in 1..5}

DispatcherScenarios == Reported \cup Lossy \cup Splits
=============================================================================
