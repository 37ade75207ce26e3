----------------------------- MODULE MCScaling ------------------------------
(***************************************************************************)
(* The scenarios in which TLC checks module Scaling.                       *)
(***************************************************************************)
EXTENDS Scaling

RiseAndFall  == [initialSFCIs |-> 1, maxScalingInstanceNumber |-> 2, loadChanges |-> 2,
                 restarts |-> 0, underway |-> 2, losses |-> 0, cmdsMayFail |-> FALSE]
Quick        == [RiseAndFall EXCEPT !.maxScalingInstanceNumber = 3, !.underway = 0]
QuickSeveral == [Quick EXCEPT !.initialSFCIs = 3, !.loadChanges = 1]
Several      == [RiseAndFall EXCEPT !.initialSFCIs = 2, !.loadChanges = 1, !.losses = 1]
AtLimit      == [RiseAndFall EXCEPT !.losses = 1, !.cmdsMayFail = TRUE]
Restarted    == [RiseAndFall EXCEPT !.restarts = 1]
RestartedOnce == [Several EXCEPT !.initialSFCIs = 1, !.restarts = 1]

ScalingScenarios ==
    {RiseAndFall, Quick, QuickSeveral, Several, AtLimit, Restarted, RestartedOnce}
=============================================================================
