------------------------------- MODULE Scaling -------------------------------
(***************************************************************************)
(* regulator/scaling/sfcScalingProcessor.py: the regulator compares the    *)
(* number of SFCIs of an SFC with the number its traffic calls for, and    *)
(* adds or deletes SFCIs.  The model has one SFC with AUTO_SCALE.          *)
(*                                                                         *)
(* The load is measured: the bandwidth of an SFCI is the growth of its     *)
(* counters between two replies of the measurer, so that the first sample  *)
(* of an SFCI gives none, and one taken while SFCIs come or go misses the  *)
(* share that is moving.                                                   *)
(*                                                                         *)
(* A reply of the measurer is handled in two steps, because the tables     *)
(* change between the counting of the SFCIs and the decision.  The SFCIs   *)
(* at the start were added by a user; the identifiers of new ones come     *)
(* from an allocator in the regulator's memory.  A regulator that is       *)
(* started again has lost it, the samples, the load list and the scaling   *)
(* tasks.                                                                  *)
(***************************************************************************)
EXTENDS RequestPath, FiniteSetsExt, SequencesExt

CONSTANTS
    MaxIDs,                        \* bound: identifiers of SFCIs
    MAX_OVER_LOAD_NUM_THRESHOLD,
    MAX_UNDER_LOAD_NUM_THRESHOLD,
    Scenarios                      \* what may happen, one per behaviour

\* initialSFCIs: how many there are at the start; loadChanges, restarts: bounds on
\* changes of the traffic and on restarts of the regulator; underway: bound on requests
\* under way when a reply is handled; losses, cmdsMayFail: see RequestPath.
Scenario == [initialSFCIs : 1..MaxIDs, maxScalingInstanceNumber : Nat \ {0},
             loadChanges : Nat, restarts : Nat, underway : Nat, losses : Nat,
             cmdsMayFail : BOOLEAN]

ASSUME ScalingAssumption ==
    /\ MaxIDs \in Nat
    /\ \A c \in Scenarios : c \in Scenario
    /\ MAX_OVER_LOAD_NUM_THRESHOLD \in Nat \ {0} /\ MAX_UNDER_LOAD_NUM_THRESHOLD \in Nat \ {0}

InitialSFCIs == scenario.initialSFCIs
maxScalingInstanceNumber == scenario.maxScalingInstanceNumber

theSFC == 1
SFCIs  == {theSFC} \X (1..MaxIDs)

STATE_SCALING_OUT_MODE == "STATE_SCALING_OUT_MODE"
STATE_SCALING_IN_MODE  == "STATE_SCALING_IN_MODE"

VARIABLES
    traffic,                \* the number of SFCIs it calls for
    peak,                   \* the most since the last samples
    moved,                  \* it has changed, or SFCIs came or went, since then
    sampled,                \* the SFCIs with samples (sfciLoadDict)
    loadList,
    loadState,              \* the numbers recorded for the reply being handled, else None
    scalingOutTaskDict,     \* the SFCIs waited for, None without a task
    scalingInTaskDict,
    nextID,                 \* of the allocator
    loadChanges, restarts

loadVars   == <<traffic, loadChanges, scenario>>
sampleVars == <<peak, moved, sampled>>
taskVars == <<scalingOutTaskDict, scalingInTaskDict>>
vars == <<db, loadVars, sampleVars, loadList, loadState, taskVars, nextID, restarts, orchVars>>

Init ==
    LET initial == {i \in SFCIs : i[2] <= InitialSFCIs}
    IN  /\ scenario \in Scenarios
        /\ db = [SFC  |-> (theSFC :> [state |-> STATE_ACTIVE, sfciIDList |-> initial]),
                 SFCI |-> [i \in SFCIs |-> IF i \in initial THEN [state |-> STATE_ACTIVE] ELSE None]]
        /\ traffic = InitialSFCIs
        /\ peak = traffic /\ moved = FALSE /\ sampled = {}
        /\ loadList = <<>> /\ loadState = None
        /\ scalingOutTaskDict = None /\ scalingInTaskDict = None
        /\ nextID = InitialSFCIs + 1
        /\ loadChanges = 0 /\ restarts = 0
        /\ NoRequests

sfciIDList == db.SFC[theSFC].sfciIDList
Sorted(S)  == SetToSortSeq(S, LAMBDA i, j : i[2] < j[2])

LoadChanges(n) ==
    /\ loadChanges < scenario.loadChanges
    /\ n # traffic
    /\ traffic' = n
    /\ loadChanges' = loadChanges + 1
    /\ peak' = Max({peak, n})
    /\ moved' = TRUE
    /\ UNCHANGED <<db, sampled, loadList, loadState, taskVars, nextID, restarts, scenario, orchVars>>
-----------------------------------------------------------------------------
(***************************************************************************)
(* scalingHandler                                                          *)
(***************************************************************************)
Active == {i \in sfciIDList : SFCIState(i) = STATE_ACTIVE}
Valid  == {i \in sfciIDList : SFCIState(i) \in {STATE_ACTIVE, STATE_IN_PROCESSING}}

\* Wrong variant: as many SFCIs as are called for count as too many.
LoadStateForInclusive(current, target) ==
    IF current >= target THEN "UNDERLOAD_STATE" ELSE "OVERLOAD_STATE"

LoadStateFor(current, target) ==
    CASE current > target -> "UNDERLOAD_STATE"
      [] current = target -> "NORMALLOAD_STATE"
      [] current < target -> "OVERLOAD_STATE"

maxLoadListLength == Max({MAX_OVER_LOAD_NUM_THRESHOLD, MAX_UNDER_LOAD_NUM_THRESHOLD})
LastOf(s, n)      == SubSeq(s, Max({1, Len(s) - n + 1}), Len(s))

\* computeTargetSFCINum, for the sum of the bandwidths updateSFCILoad finds.  The
\* performance model calls for one SFCI if there is no bandwidth.  While traffic moves
\* the sum may be too low, and not above the most there was.
Targets ==
    CASE Active \cap sampled = {}                                       -> {1}
      [] Active \cap sampled # {} /\ Active \subseteq sampled /\ ~moved -> {traffic}
      [] OTHER                                                          -> 1..peak

UpdateSFCLoad ==
    LET current == Cardinality(Valid)
    IN  /\ loadState = None
        /\ Len(orchQueue) + Len(batch) + BagCardinality(inMediator) + BagCardinality(failedReqs) <= scenario.underway
        /\ \E target \in Targets :
              /\ loadState' = [currentValidSFCINum |-> current, targetSFCINum |-> target]
              /\ loadList' = LastOf(Append(loadList, LoadStateFor(current, target)), maxLoadListLength)
        /\ sampled' = sampled \cup Active
        /\ peak' = traffic /\ moved' = FALSE
        /\ UNCHANGED <<db, loadVars, taskVars, nextID, restarts, orchVars>>

\* A list that is shorter than the threshold is looked at as a whole.
isOverLoadCondition ==
    /\ loadState.currentValidSFCINum < maxScalingInstanceNumber
    /\ SFCState(theSFC) = STATE_ACTIVE
    /\ \/ ToSet(LastOf(loadList, MAX_OVER_LOAD_NUM_THRESHOLD)) = {"OVERLOAD_STATE"}
       \/ loadState.currentValidSFCINum = 0

isUnderLoadCondition ==
    /\ SFCState(theSFC) = STATE_ACTIVE
    /\ ToSet(LastOf(loadList, MAX_UNDER_LOAD_NUM_THRESHOLD)) = {"UNDERLOAD_STATE"}

\* Wrong variant: one SFCI fewer than the traffic calls for.
getDeltaSFCINumLow ==
    Min({loadState.targetSFCINum, maxScalingInstanceNumber}) - 1 - loadState.currentValidSFCINum

getDeltaSFCINum ==
    Max({1, Min({loadState.targetSFCINum, maxScalingInstanceNumber})}) - loadState.currentValidSFCINum

abs(n) == IF n < 0 THEN -n ELSE n

\* getDeletedOrInitFailedStateSFCIIDList
Reusable == {i \in sfciIDList : SFCIState(i) \in Absent}

\* SFCIs that are deleted are used first, then new identifiers.  Each task takes the
\* place of the one before: only the last SFCI is waited for.
ScalingOutSFC ==
    LET delta  == abs(getDeltaSFCINum)
        reused == LET s == Sorted(Reusable) IN SubSeq(s, 1, Min({delta, Len(s)}))
        fresh  == delta - Len(reused)
        chosen == reused \o [n \in 1..fresh |-> <<theSFC, nextID + n - 1>>]
    IN  /\ isOverLoadCondition
        /\ nextID + fresh - 1 <= MaxIDs
        /\ nextID' = nextID + fresh
        /\ db' = updateSFCState(db, theSFC, STATE_SCALING_OUT_MODE)
        /\ Send([n \in 1..delta |-> request("ADD_SFCI", theSFC, chosen[n])])
        /\ scalingOutTaskDict' = IF delta = 0 THEN scalingOutTaskDict ELSE {chosen[delta]}
        /\ UNCHANGED scalingInTaskDict

\* The first SFCIs of the list are deleted, in whatever state they are.  The task is
\* put into the other dictionary; in its own the SFC gets an empty one.
ScalingInSFC ==
    LET ids    == Sorted(sfciIDList)
        chosen == SubSeq(ids, 1, Min({abs(getDeltaSFCINum), Len(ids)}))
    IN  /\ ~isOverLoadCondition /\ isUnderLoadCondition
        /\ db' = updateSFCState(db, theSFC, STATE_SCALING_IN_MODE)
        /\ Send([n \in DOMAIN chosen |-> request("DEL_SFCI", theSFC, chosen[n])])
        /\ IF chosen = <<>> THEN UNCHANGED taskVars
           ELSE scalingInTaskDict' = {} /\ scalingOutTaskDict' = {Last(chosen)}
        /\ UNCHANGED nextID

ProcessAbnormalLoadSFC ==
    /\ loadState # None
    /\ loadState' = None
    /\ \/ ScalingOutSFC
       \/ ScalingInSFC
       \/ /\ ~isOverLoadCondition /\ ~isUnderLoadCondition
          /\ UNCHANGED <<db, taskVars, nextID, orchVars>>
    /\ UNCHANGED <<loadVars, sampleVars, loadList, restarts>>
-----------------------------------------------------------------------------
\* processAllScalingTasks
IsFinished(dict, state) == dict # None /\ \A i \in dict : SFCIState(i) = state

ProcessAllScalingTasks ==
    LET outDone == IsFinished(scalingOutTaskDict, STATE_ACTIVE)
        inDone  == IsFinished(scalingInTaskDict, STATE_DELETED)
    IN  /\ loadState = None
        /\ outDone \/ inDone
        /\ db' = updateSFCState(db, theSFC, STATE_ACTIVE)
        /\ scalingOutTaskDict' = IF outDone THEN None ELSE scalingOutTaskDict
        /\ scalingInTaskDict'  = IF inDone THEN None ELSE scalingInTaskDict
        /\ UNCHANGED <<loadVars, sampleVars, loadList, loadState, nextID, restarts, orchVars>>

\* The regulator is started again.
Restart ==
    /\ restarts < scenario.restarts
    /\ restarts' = restarts + 1
    /\ sampled' = {} /\ loadList' = <<>> /\ loadState' = None
    /\ scalingOutTaskDict' = None /\ scalingInTaskDict' = None
    /\ nextID' = InitialSFCIs + 1
    /\ UNCHANGED <<db, loadVars, peak, moved, orchVars>>

OnTheWay(A) ==
    /\ A
    /\ moved' = (moved \/ Active' # Active)
    /\ UNCHANGED <<loadVars, peak, sampled, loadList, loadState, taskVars, nextID, restarts>>

Replies == \E req \in BagToSet(inMediator), cmdState \in CmdStates : Reply(req, cmdState)
-----------------------------------------------------------------------------
Next ==
    \/ \E n \in 1..(maxScalingInstanceNumber + 1) : LoadChanges(n)
    \/ UpdateSFCLoad \/ ProcessAbnormalLoadSFC \/ ProcessAllScalingTasks \/ Restart
    \/ OnTheWay(TakeRequest) \/ OnTheWay(BatchStep) \/ OnTheWay(Replies)
    \/ OnTheWay(RetryFailureRequest) \/ OnTheWay(Lose)

Spec == Init /\ [][Next]_vars

\* The measurer answers, the regulator goes round its loop, and the orchestrator and
\* the mediator go on with what they have.
FairSpec ==
    /\ Spec
    /\ SF_vars(UpdateSFCLoad) /\ WF_vars(ProcessAbnormalLoadSFC) /\ SF_vars(ProcessAllScalingTasks)
    /\ WF_vars(OnTheWay(TakeRequest)) /\ WF_vars(OnTheWay(BatchStep)) /\ WF_vars(OnTheWay(Replies))
    /\ WF_vars(OnTheWay(RetryFailureRequest))
-----------------------------------------------------------------------------
(***************************************************************************)
(* Properties                                                              *)
(***************************************************************************)
\* As long as no command fails, scaling in never takes the last SFCI away, however
\* late the requests it has sent before are carried out or are lost, and though a
\* regulator that is started again has forgotten them (getDeltaSFCINum, scalingInSFC).
AtLeastOneValid == ~scenario.cmdsMayFail => Cardinality(Valid) >= 1

\* A regulator that is started again hands out identifiers that are in use; their
\* ADD_SFCI requests fail and are repeated later, when the SFCI may be gone.
ReusesIDs == scenario.restarts > 0 /\ (scenario.loadChanges > 1 \/ scenario.cmdsMayFail)

\* There are never more active SFCIs than the SFC allows, nor will there be when the
\* ADD_SFCI requests under way are carried out (getDeltaSFCINum, scalingOutSFC).  From
\* a limit of 3 on there may be: only the last of several added SFCIs is waited for.
NotTooMany ==
    LET active == {i \in SFCIs : SFCIState(i) = STATE_ACTIVE}
        added  == {req.sfci : req \in {q \in Underway : q.type = "ADD_SFCI"}}
    IN  maxScalingInstanceNumber <= 2 /\ ~ReusesIDs
            => Cardinality(active \cup added) <= maxScalingInstanceNumber

\* The number of SFCIs stays between one and what the SFC allows (getDeltaSFCINum),
\* although it is computed from a count that may be out of date.
WithinLimits == AtLeastOneValid /\ NotTooMany

\* The deletion of all but one of several SFCIs without samples is a change as well.
Undisturbed ==
    /\ scenario.losses = 0 /\ ~scenario.cmdsMayFail /\ scenario.restarts = 0
    /\ scenario.loadChanges <= IF InitialSFCIs = 1 THEN 2 ELSE 1
    /\ scenario.underway > 0 => InitialSFCIs = 1 /\ maxScalingInstanceNumber <= 2

\* "Auto scaling for SFC" (readme.md:2): as the traffic rises and falls once the number
\* of SFCIs becomes what it calls for, although samples taken meanwhile are too low, an
\* SFCI that is being deleted still counts, and a regulator that has no samples yet
\* scales in (updateSFCILoad, getCurrentValidSFCINum, isUnderLoadCondition).  While
\* requests are under way when replies are handled this needs an SFC of one or two
\* SFCIs and samples from the start: deletions that are sent again while they are
\* carried out can overtake the additions that follow.
TargetReached ==
    Undisturbed => <>[](Cardinality({i \in SFCIs : SFCIState(i) = STATE_ACTIVE})
                            = Min({traffic, maxScalingInstanceNumber}))
=============================================================================
