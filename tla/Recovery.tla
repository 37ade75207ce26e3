------------------------------- MODULE Recovery -------------------------------
(***************************************************************************)
(* regulator/recovery: when equipment fails, the regulator deletes the     *)
(* SFCIs whose paths cross it and adds them again; when the classifier of  *)
(* an SFC fails, it deletes and adds the SFC as well.  Progress is kept in *)
(* one task per SFCI, which moves on as the tables of the orchestrators    *)
(* (OrchInfoBaseMaintainer) change.                                        *)
(*                                                                         *)
(* The regulator is one thread.  A round of processAllRecoveryTasks takes  *)
(* one step for each task, because the tables change while it runs; it     *)
(* goes by the list of tasks and their states made at its start.  The way  *)
(* of its requests is in module RequestPath.                               *)
(***************************************************************************)
EXTENDS RequestPath, SequencesExt

CONSTANTS
    NumSFCs,        \* SFCs 1, 2, ...: the earlier, the higher the availability it asks for
    SFCIsPerSFC,
    AutoRecovery,   \* SFCs with isAutoRecovery()
    Scenarios       \* what may happen, one per behaviour

SFCs  == 1..NumSFCs
SFCIs == SFCs \X (1..SFCIsPerSFC)

\* sfcis: those there are; autoScaling: SFCs with isAutoScaling(); notices: bound on
\* the failures reported; timeMayPass: whether a task may get older than
\* RECOVERY_TASK_TIMEOUT; mayResume: whether equipment that failed may work again;
\* losses, cmdsMayFail: see RequestPath.
Scenario == [sfcis : SUBSET SFCIs, autoScaling : SUBSET SFCs, notices : Nat,
             timeMayPass : BOOLEAN, mayResume : BOOLEAN, losses : Nat, cmdsMayFail : BOOLEAN]

ASSUME RecoveryAssumption ==
    /\ NumSFCs \in Nat /\ SFCIsPerSFC \in Nat
    /\ AutoRecovery \subseteq SFCs
    /\ \A c \in Scenarios : c \in Scenario

READY                 == "RECOVERY_TASK_STATE_READY"
DELETING_SFCI         == "RECOVERY_TASK_STATE_DELETING_SFCI"
WAITING_TO_DELETE_SFC == "RECOVERY_TASK_STATE_WAITING_TO_DELETE_SFC"
DELETING_SFC          == "RECOVERY_TASK_STATE_DELETING_SFC"
ADDING_SFCI           == "RECOVERY_TASK_STATE_ADDING_SFCI"
WAITING               == "RECOVERY_TASK_STATE_WAITING"
FAILED                == "RECOVERY_TASK_STATE_FAILED"
FINISH                == "RECOVERY_TASK_STATE_FINISH"

TYPE_SFC  == "RECOVERY_TASK_TYPE_SFC"
TYPE_SFCI == "RECOVERY_TASK_TYPE_SFCI"
TaskType  == {TYPE_SFC, TYPE_SFCI}

TaskState == {READY, DELETING_SFCI, WAITING_TO_DELETE_SFC, DELETING_SFC, ADDING_SFCI, WAITING,
              FAILED, FINISH}

Task    == [state : TaskState, addSFCSent : BOOLEAN, old : BOOLEAN]
SFCRow  == [state : ResourceState, sfciIDList : SUBSET SFCIs]
SFCIRow == [state : ResourceState]

ASSUME NoneAssumption ==
    None \notin SFCIs /\ None \notin Task /\ None \notin SFCRow /\ None \notin SFCIRow

VARIABLES
    taskDict,     \* task type -> SFCI -> task, None without one
    todo,         \* the rest of the list of a round: <<type, SFCI, task state>>
    known,        \* what the path of an SFCI crosses of the recorded failures (dM)
    down,         \* the SFCIs whose path crosses equipment that does not work
    cut,          \* the SFCs whose ingress or egress switch, of their ADD_SFC, has failed
    unaware,      \* additions the orchestrator may deal with before the last notice reaches it
    resumed,      \* some recorded failure is over
    notices

pathVars  == <<known, down, cut, unaware>>
tableVars == <<pathVars, resumed, notices, scenario>>
vars == <<db, taskDict, todo, tableVars, orchVars>>

RecoveryTask(state) == [state |-> state, addSFCSent |-> FALSE, old |-> FALSE]

Init ==
    /\ scenario \in Scenarios
    /\ db = [SFC  |-> [s \in SFCs |-> [state      |-> STATE_ACTIVE,
                                       sfciIDList |-> {i \in scenario.sfcis : i[1] = s}]],
             SFCI |-> [i \in SFCIs |-> IF i \in scenario.sfcis THEN [state |-> STATE_ACTIVE]
                                                               ELSE None]]
    /\ taskDict = [type \in TaskType |-> [i \in SFCIs |-> None]]
    /\ todo = {}
    /\ known = [i \in SFCIs |-> "nothing"]
    /\ down = {}
    /\ cut = {}
    /\ unaware = {}
    /\ resumed = FALSE
    /\ notices = 0
    /\ NoRequests
-----------------------------------------------------------------------------
(***************************************************************************)
(* RecoveryTaskMaintainer                                                  *)
(***************************************************************************)
hasRecoveryTask(tasks, type, i) == tasks[type][i] # None

\* updateRecoveryTask puts a new task in place of the old one: its requests are
\* forgotten and its age starts again.
updateRecoveryTask(tasks, type, i, state) == [tasks EXCEPT ![type][i] = RecoveryTask(state)]

\* Wrong variant: a task that waits for its SFC to be deleted does not time out.
clearTimeOutTasksKeeping(tasks) ==
    [type \in TaskType |-> [i \in SFCIs |->
        IF hasRecoveryTask(tasks, type, i) /\ tasks[type][i].old /\ tasks[type][i].state # DELETING_SFC
        THEN [tasks[type][i] EXCEPT !.state = FAILED] ELSE tasks[type][i]]]

clearTimeOutTasks(tasks) ==
    [type \in TaskType |-> [i \in SFCIs |->
        IF hasRecoveryTask(tasks, type, i) /\ tasks[type][i].old
        THEN [tasks[type][i] EXCEPT !.state = FAILED] ELSE tasks[type][i]]]

\* Wrong variant: an active SFCI is taken for one that is being deleted.
MigratedStateActiveToo(i) ==
    IF SFCIState(i) \in {STATE_INACTIVE, STATE_UNDELETED} THEN READY ELSE DELETING_SFCI

\* migrateSFCITask2SFCTask
MigratedState(i) ==
    CASE SFCIState(i) = STATE_ACTIVE                         -> WAITING
      [] SFCIState(i) \in {STATE_INACTIVE, STATE_UNDELETED}  -> READY
      [] OTHER                                               -> DELETING_SFCI

\* The tasks of an SFC become tasks of the kind that deletes the SFC once it has
\* one of these.
clearRedundantTasks(tasks) ==
    LET redundant == {i \in SFCIs : /\ hasRecoveryTask(tasks, TYPE_SFCI, i)
                                    /\ \E j \in SFCIs : /\ j[1] = i[1]
                                                        /\ hasRecoveryTask(tasks, TYPE_SFC, j)}
    IN  [type \in TaskType |-> [i \in SFCIs |->
            CASE i \notin redundant -> tasks[type][i]
              [] i \in redundant /\ type = TYPE_SFCI -> None
              [] i \in redundant /\ type = TYPE_SFC  ->
                    [tasks[TYPE_SFCI][i] EXCEPT !.state = MigratedState(i), !.old = FALSE]]]
-----------------------------------------------------------------------------
(***************************************************************************)
(* Notices                                                                 *)
(***************************************************************************)
\* NoticeAnalyzer: an SFCI that is not active counts only if its task has failed.
Affected(notice) ==
    {i \in SFCIs : /\ notice[i] # "nothing"
                   /\ \/ SFCIState(i) = STATE_ACTIVE
                      \/ /\ hasRecoveryTask(taskDict, TYPE_SFCI, i)
                         /\ taskDict[TYPE_SFCI][i].state = FAILED}

TypeFor(notice, i) == IF notice[i] = "classifier" THEN TYPE_SFC ELSE TYPE_SFCI

Precedes(i, j) == i[1] < j[1] \/ (i[1] = j[1] /\ i[2] < j[2])

\* handleDetectionDict.  For an SFCI that has a task addWaitingRecoveryTask raises
\* KeyError, and those after it in the list get none.
handleDetectionDict(notice) ==
    LET wanted   == {i \in Affected(notice) : i[1] \in AutoRecovery}
        repeated == {i \in wanted : hasRecoveryTask(taskDict, TypeFor(notice, i), i)}
        reached  == {i \in wanted : \A j \in repeated : Precedes(i, j)}
    IN  [type \in TaskType |-> [i \in SFCIs |->
            IF i \in reached /\ type = TypeFor(notice, i) THEN RecoveryTask(WAITING)
                                                         ELSE taskDict[type][i]]]

\* The equipment that fails is on the paths of some SFCIs; the classifier of an
\* SFC is on all of its paths.
Notices ==
    {notice \in [SFCIs -> {"nothing", "equipment", "classifier"}] :
        /\ {i \in SFCIs : notice[i] # "nothing"} \in SUBSET scenario.sfcis \ {{}}
        /\ \A i, j \in SFCIs : 
              i[1] = j[1] /\ j \in scenario.sfcis /\ notice[i] = "classifier" => notice[j] = "classifier"}

Additions == {<<req.sfc, req.sfci>> : req \in {r \in Queued : r.type \in {"ADD_SFC", "ADD_SFCI"}}}

\* failureAbnormalHandler.  addDetectionDict looks a list up among the kinds of
\* notice, where it is not, and puts the new list in place of the recorded one.  The
\* notice is forwarded to the orchestrators, behind the requests sent before it.
FailureAbnormalHandler(notice) ==
    /\ todo = {}
    /\ notices < scenario.notices
    /\ notices' = notices + 1
    /\ known' = notice
    /\ down' = down \cup {i \in SFCIs : notice[i] # "nothing"}
    /\ cut' = cut \cup {i[1] : i \in {j \in SFCIs : notice[j] = "classifier"}}
    /\ unaware' = Additions
    /\ taskDict' = handleDetectionDict(notice)
    /\ UNCHANGED <<db, todo, resumed, scenario, orchVars>>

\* processAllDetectionNotice, every GLOBAL_DETECTION_SCAN_TIMEOUT.
ProcessAllDetectionNotice ==
    /\ todo = {}
    /\ taskDict' = handleDetectionDict(known)
    /\ taskDict' # taskDict
    /\ UNCHANGED <<db, todo, tableVars, orchVars>>

\* resumeHandler: processResumeData looks for the equipment in the list of resumed
\* equipment, where it is not, and raises.  The record of the failure stays.
ResumeHandler ==
    /\ scenario.mayResume
    /\ todo = {}
    /\ down # {}
    /\ down' = {}
    /\ cut' = {}
    /\ resumed' = TRUE
    /\ UNCHANGED <<db, taskDict, todo, known, unaware, notices, scenario, orchVars>>
-----------------------------------------------------------------------------
(***************************************************************************)
(* processAllRecoveryTasks                                                 *)
(***************************************************************************)
\* A task has not changed for RECOVERY_TASK_TIMEOUT.
TimePasses(type, i) ==
    /\ scenario.timeMayPass
    /\ hasRecoveryTask(taskDict, type, i)
    /\ taskDict[type][i].state # FAILED
    /\ ~taskDict[type][i].old
    /\ taskDict' = [taskDict EXCEPT ![type][i].old = TRUE]
    /\ UNCHANGED <<db, todo, tableVars, orchVars>>

\* No waiting task is ever loaded: see handleDetectionDict.
StartRound ==
    LET tasks == clearRedundantTasks(clearTimeOutTasks(taskDict))
    IN  /\ todo = {}
        /\ taskDict' = tasks
        /\ todo' = {<<e[1], e[2], tasks[e[1]][e[2]].state>> :
                        e \in {f \in TaskType \X SFCIs : hasRecoveryTask(tasks, f[1], f[2])}}
        /\ UNCHANGED <<db, tableVars, orchVars>>

\* The tasks that delete an SFC come first.
Turn(e, state) ==
    /\ e \in todo
    /\ e[3] = state
    /\ e[1] = TYPE_SFCI => \A f \in todo : f[1] = TYPE_SFCI
    /\ UNCHANGED tableVars
Done(e) == todo' = todo \ {e}
Raise   == todo' = {}    \* the rest of the round is skipped

GoTo(e, state) == taskDict' = updateRecoveryTask(taskDict, e[1], e[2], state)
Stay == UNCHANGED <<db, taskDict>> /\ SendNothing

isReadyToRecover(i) ==
    SFCIState(i) = STATE_ACTIVE /\ SFCState(i[1]) \in {STATE_ACTIVE, STATE_RECOVER_MODE}

Waiting(e) ==
    LET i == e[2]
    IN  /\ Turn(e, WAITING)
        /\ Done(e)
        /\ \/ /\ isReadyToRecover(i)
              /\ db' = updateSFCIState(updateSFCState(db, i[1], STATE_RECOVER_MODE), i, STATE_INACTIVE)
              /\ GoTo(e, READY)
              /\ SendNothing
           \/ ~isReadyToRecover(i) /\ Stay

\* Wrong variant: the task does not note that its DEL_SFCI was sent.
ReadyStays(e) ==
    LET i == e[2]
    IN  /\ Turn(e, READY)
        /\ Done(e)
        /\ \/ /\ isDelSFCIValidState(db, i)
              /\ Send(<<request("DEL_SFCI", i[1], i)>>)
              /\ UNCHANGED <<db, taskDict>>
           \/ /\ SFCIState(i) \in Absent
              /\ GoTo(e, DELETING_SFCI)
              /\ UNCHANGED db /\ SendNothing
           \/ ~isDelSFCIValidState(db, i) /\ SFCIState(i) \notin Absent /\ Stay

Ready(e) ==
    LET i == e[2]
    IN  /\ Turn(e, READY)
        /\ Done(e)
        /\ \/ /\ isDelSFCIValidState(db, i)
              /\ Send(<<request("DEL_SFCI", i[1], i)>>)
              /\ GoTo(e, DELETING_SFCI)
              /\ UNCHANGED db
           \/ /\ SFCIState(i) \in Absent
              /\ GoTo(e, DELETING_SFCI)
              /\ UNCHANGED db /\ SendNothing
           \/ ~isDelSFCIValidState(db, i) /\ SFCIState(i) \notin Absent /\ Stay

isAllSFCIDeletedOrInitFailed(s) == \A i \in db.SFC[s].sfciIDList : SFCIState(i) \in Absent

\* Wrong variant: an SFCI of an SFC that must be deleted is added again without
\* waiting for the SFC to be deleted and added.
DeletingSFCIHasty(e) ==
    LET i == e[2]
        s == i[1]
    IN  /\ Turn(e, DELETING_SFCI)
        /\ Done(e)
        /\ \/ SFCIState(i) \notin Absent /\ Stay
           \/ /\ SFCIState(i) \in Absent
              /\ IF e[1] = TYPE_SFC /\ isAllSFCIDeletedOrInitFailed(s)
                 THEN Send(<<request("DEL_SFC", s, None), request("ADD_SFCI", s, i)>>) /\ GoTo(e, DELETING_SFC)
                 ELSE Send(<<request("ADD_SFCI", s, i)>>) /\ GoTo(e, ADDING_SFCI)
              /\ UNCHANGED db

DeletingSFCI(e) ==
    LET i == e[2]
        s == i[1]
    IN  /\ Turn(e, DELETING_SFCI)
        /\ Done(e)
        /\ \/ SFCIState(i) \notin Absent /\ Stay
           \/ /\ SFCIState(i) \in Absent /\ e[1] = TYPE_SFCI
              /\ Send(<<request("ADD_SFCI", s, i)>>)
              /\ GoTo(e, ADDING_SFCI)
              /\ UNCHANGED db
           \/ /\ SFCIState(i) \in Absent /\ e[1] = TYPE_SFC
              /\ IF isAllSFCIDeletedOrInitFailed(s)
                 THEN Send(<<request("DEL_SFC", s, None)>>) /\ GoTo(e, DELETING_SFC)
                 ELSE SendNothing /\ GoTo(e, WAITING_TO_DELETE_SFC)
              /\ UNCHANGED db

\* WAITING_TO_DELETE_SFC and FAILED: nothing is done.
Resting(e) ==
    /\ Turn(e, WAITING_TO_DELETE_SFC) \/ Turn(e, FAILED)
    /\ Done(e)
    /\ Stay

\* The ADD_SFC request is kept in the task, so that it is sent once.  As long as it
\* has no row in the table getRequestRetryCnt raises; a row never has a count
\* above MAX_RETRY_NUM.
SFCDeleted(e) ==
    LET i == e[2]
    IN  /\ Turn(e, DELETING_SFC)
        /\ SFCState(i[1]) = STATE_DELETED
        /\ \/ /\ ~taskDict[e[1]][i].addSFCSent
              /\ taskDict' = [taskDict EXCEPT ![e[1]][i].addSFCSent = TRUE]
              /\ Send(<<request("ADD_SFC", i[1], None)>>)
              /\ UNCHANGED db
              /\ Done(e)
           \/ taskDict[e[1]][i].addSFCSent /\ Stay /\ (Done(e) \/ Raise)

\* The SFC is there again: all of its tasks go on, or this one is finished and the
\* rest is left to scaling.
SFCAdded(e) ==
    LET s == e[2][1]
        tasks == {i \in SFCIs : i[1] = s /\ hasRecoveryTask(taskDict, e[1], i)}
    IN  /\ Turn(e, DELETING_SFC)
        /\ SFCState(s) = STATE_ACTIVE
        /\ \/ s \in scenario.autoScaling /\ GoTo(e, FINISH) /\ SendNothing
           \/ /\ s \notin scenario.autoScaling
              /\ Send(SetToSeq({request("ADD_SFCI", s, i) : i \in tasks}))
              /\ taskDict' = [taskDict EXCEPT ![e[1]] = [i \in SFCIs |->
                                IF i \in tasks THEN RecoveryTask(ADDING_SFCI) ELSE @[i]]]
        /\ UNCHANGED db
        /\ Done(e)

SFCNotYet(e) ==
    /\ Turn(e, DELETING_SFC)
    /\ SFCState(e[2][1]) \notin {STATE_DELETED, STATE_ACTIVE}
    /\ Stay
    /\ IF SFCState(e[2][1]) \in {STATE_UNDELETED, STATE_RECOVER_MODE, STATE_INIT_FAILED}
       THEN Done(e) ELSE Raise    \* "Unexpected SFC state"

\* isAllSFCIRecovered asks for a dictionary without tasks, but this one is still
\* in it: the state of the SFC is not written.
AddingSFCI(e) ==
    /\ Turn(e, ADDING_SFCI)
    /\ Done(e)
    /\ \/ SFCIState(e[2]) = STATE_ACTIVE /\ GoTo(e, FINISH) /\ UNCHANGED db /\ SendNothing
       \/ SFCIState(e[2]) # STATE_ACTIVE /\ Stay

Finished(e) ==
    /\ Turn(e, FINISH)
    /\ Done(e)
    /\ taskDict' = [taskDict EXCEPT ![e[1]][e[2]] = None]
    /\ UNCHANGED db /\ SendNothing

RoundStep ==
    \E e \in todo : \/ Waiting(e) \/ Ready(e) \/ DeletingSFCI(e) \/ Resting(e)
                    \/ SFCDeleted(e) \/ SFCAdded(e) \/ SFCNotYet(e)
                    \/ AddingSFCI(e) \/ Finished(e)
-----------------------------------------------------------------------------
(***************************************************************************)
(* The orchestrator and the mediator                                       *)
(***************************************************************************)
\* The path of an SFCI is chosen before its command is sent and stays until the next
\* ADD_SFCI.  It goes from the ingress to the egress of the SFC and avoids what the
\* orchestrator knows to have failed: not what it is still to be told of, and not
\* equipment that works again, whose failure stays recorded.
Crossed(i) ==
    LET isUnaware == <<i[1], i>> \in unaware
    IN  IF i[1] \in cut THEN {c \in {"classifier"} : isUnaware /\ known[i] = c}
        ELSE {"nothing"} \cup {c \in {"equipment"} : resumed \/ isUnaware} \cup {c \in {"classifier"} : resumed}

NewPath(i) ==
    \E crossed \in Crossed(i) :
        /\ known' = [known EXCEPT ![i] = crossed]
        /\ down' = IF crossed = "nothing" \/ <<i[1], i>> \notin unaware THEN down \ {i} ELSE down \cup {i}

Told(req) == unaware' = unaware \ {<<req.sfc, req.sfci>>}

\* Mapping of one SFCI.
AddSFCIStep ==
    /\ \/ /\ PathFound
          /\ IF isAddSFCIValidState(db, Head(batch).sfci) THEN NewPath(Head(batch).sfci)
                                                          ELSE UNCHANGED <<known, down>>
       \/ /\ NoPathFound
          /\ scenario.cmdsMayFail \/ Head(batch).sfc \in cut
          /\ UNCHANGED <<known, down>>
    /\ Told(Head(batch))
    /\ UNCHANGED <<taskDict, todo, cut, resumed, notices, scenario>>

\* Any other request.  With ADD_SFC an ingress and an egress are chosen among the
\* switches not known to have failed.
RequestStep ==
    /\ TakeRequest
    /\ LET req == Head(orchQueue)
       IN  IF req.type = "ADD_SFC" /\ isAddSFCValidState(db, req.sfc)
           THEN /\ Told(req)
                /\ \/ cut' = cut \ {req.sfc}
                   \/ <<req.sfc, req.sfci>> \in unaware /\ cut' = cut \cup {req.sfc}
           ELSE UNCHANGED <<cut, unaware>>
    /\ UNCHANGED <<taskDict, todo, known, down, resumed, notices, scenario>>

Replies == \E req \in BagToSet(inMediator), cmdState \in CmdStates : Reply(req, cmdState)

OnTheWay(A) == A /\ UNCHANGED <<taskDict, todo, tableVars>>
-----------------------------------------------------------------------------
Next ==
    \/ \E notice \in Notices : FailureAbnormalHandler(notice)
    \/ ProcessAllDetectionNotice \/ ResumeHandler
    \/ \E type \in TaskType, i \in SFCIs : TimePasses(type, i)
    \/ StartRound \/ RoundStep
    \/ RequestStep \/ AddSFCIStep
    \/ OnTheWay(Replies) \/ OnTheWay(RetryFailureRequest) \/ OnTheWay(Lose)

Spec == Init /\ [][Next]_vars

\* The regulator goes round its loop, time passes, and the orchestrator and the
\* mediator go on with what they have.
FairSpec ==
    /\ Spec
    /\ WF_vars(StartRound \/ RoundStep) /\ SF_vars(ProcessAllDetectionNotice)
    /\ WF_vars(\E type \in TaskType, i \in SFCIs : TimePasses(type, i))
    /\ WF_vars(RequestStep) /\ WF_vars(AddSFCIStep)
    /\ WF_vars(OnTheWay(Replies)) /\ WF_vars(OnTheWay(RetryFailureRequest))
-----------------------------------------------------------------------------
(***************************************************************************)
(* Properties                                                              *)
(***************************************************************************)
HasSingleSFCI(s) == \A i, j \in scenario.sfcis : i[1] = s /\ j[1] = s => i = j

\* As long as no task times out, the mediator never works on two commands about one
\* SFC or SFCI at a time, whatever fails, is lost or is repeated by the regulator
\* (isDelSFCIValidState, isAddSFCIValidState, processAllRecoveryTasks).  If an SFC has
\* two SFCIs the task of each adds the SFC and all of its SFCIs again.
OneCommandAtATime ==
    ~scenario.timeMayPass =>
    \A a, b \in {req \in BagToSet(inMediator) : HasSingleSFCI(req.sfc)} :
        <<a.sfc, a.sfci>> = <<b.sfc, b.sfci>> => a = b /\ inMediator[a] = 1

Unfinished ==
    {e \in TaskType \X SFCIs : /\ hasRecoveryTask(taskDict, e[1], e[2])
                               /\ taskDict[e[1]][e[2]].state # FAILED}

\* As time passes all tasks are finished or given up, also while an SFC in an
\* unexpected state ends every round early (processAllRecoveryTasks, clearTimeOutTasks).
TasksEnd == (scenario.timeMayPass /\ Unfinished # {}) ~> Unfinished = {}

Undisturbed ==
    /\ scenario.losses = 0 /\ ~scenario.cmdsMayFail
    /\ ~scenario.timeMayPass /\ ~scenario.mayResume
    /\ scenario.notices <= 2 /\ scenario.autoScaling = {}
    /\ \A s \in SFCs : HasSingleSFCI(s)

\* Its ingress or egress failed while the SFCI was being moved: as it is not active the
\* notice passes it over, no path is found for its ADD_SFCI, and no task adds its SFC.
Stranded(i) == i[1] \in cut /\ SFCIState(i) = STATE_INIT_FAILED

\* After one or two failures all SFCIs whose path crosses failed equipment are moved
\* away from it and are active in the end, whether or not their SFCs must be deleted as
\* well ("Auto recovery for SFCI", "Auto recovery for SFC").  The second failure may hit
\* the new path of an SFCI before its ADD_SFCI is answered, or before the orchestrator
\* hears of it: processAllDetectionNotice finds it once the SFCI is active.  Only an SFCI
\* whose ingress or egress fails meanwhile is stranded.  This holds if nothing is lost,
\* no command fails, no task times out, and the SFCs have no other SFCI and are not
\* scaled automatically.
EventuallyRecovered ==
    (Undisturbed /\ down # {})
        ~> \A i \in scenario.sfcis : (i \notin down /\ SFCIState(i) = STATE_ACTIVE) \/ Stranded(i)

\* "All resource of this sfc/sfci has been released" (sfcConstant.py:29): after one
\* failure no SFCI of a deleted SFC is active (clearRedundantTasks,
\* isAllSFCIDeletedOrInitFailed).  If the SFC has several SFCIs this needs the failure
\* to last: its record stays when it is over (resumeHandler), and a new path that may
\* cross that equipment again counts as one more failure.
DeletedSFCIsReleased ==
    notices <= 1 =>
    \A i \in scenario.sfcis :
        (SFCState(i[1]) = STATE_DELETED /\ (HasSingleSFCI(i[1]) \/ ~resumed))
        => SFCIState(i) # STATE_ACTIVE
=============================================================================
