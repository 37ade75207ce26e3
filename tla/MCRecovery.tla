----------------------------- MODULE MCRecovery -----------------------------
(***************************************************************************)
(* The scenarios in which TLC checks module Recovery.                      *)
(***************************************************************************)
EXTENDS Recovery

OneSFCIEach == {<<1, 1>>, <<2, 1>>}
TwoOfOne    == {<<1, 1>>, <<1, 2>>}

Quiescent(sfcis, number) ==
    [sfcis |-> sfcis, autoScaling |-> {}, notices |-> number, timeMayPass |-> FALSE, mayResume |-> FALSE,
     losses |-> 0, cmdsMayFail |-> FALSE]

Disturbed == [Quiescent(OneSFCIEach, 1) EXCEPT !.autoScaling = {2}, !.losses = 1,
                                                   !.cmdsMayFail = TRUE, !.mayResume = TRUE]
TimedOut  == [Quiescent(OneSFCIEach, 1) EXCEPT !.autoScaling = {2}, !.losses = 1,
                                                   !.timeMayPass = TRUE]
WholeSFC  == [Quiescent(TwoOfOne, 1) EXCEPT !.losses = 1]

RecoveryScenarios == {Quiescent(OneSFCIEach, 2), Disturbed, TimedOut, WholeSFC}
=============================================================================
