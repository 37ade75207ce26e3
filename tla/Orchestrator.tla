---------------------------- MODULE Orchestrator ----------------------------
(***************************************************************************)
(* orchestration/orchestrator.py with its tables (OrchInfoBaseMaintainer), *)
(* its command table (CommandMaintainer) and its surroundings: the clients *)
(* whose requests the dispatcher routes to it, the regulator, which shares *)
(* the tables, repeats failed requests and changes the state of SFCs, and  *)
(* the mediator, which answers every command.                              *)
(*                                                                         *)
(* The orchestrator is one thread.  An iteration of its loop takes one     *)
(* message, then looks at the batch timer, then empties the queue of       *)
(* requests that came in while it was turned off: `phase' says where in    *)
(* the iteration it is.  Handling one request, one reply or one entry of a *)
(* batch is one step.  The regulator is another process: it first reads    *)
(* the tables and then writes, and the orchestrator may run in between.    *)
(***************************************************************************)
EXTENDS OrchInfoBaseMaintainer, Sequences, FiniteSets

CONSTANTS
    SFCs,             \* identifiers of SFCs
    SFCIsPerSFC,      \* number of SFCIs an SFC may have
    MaxRequests,      \* bound: requests the clients send
    BatchSize,        \* _batchSize
    MAX_RETRY_NUM,    \* how often the regulator repeats a failed request
    Scenarios         \* what clients and surroundings do, one per behaviour

\* sfcis, requests, pending: bounds on the SFCIs of an SFC, on the requests and on
\* those the clients have open at a time; mayRaise: whether generating commands may
\* raise an exception; admin: commands the dispatcher may send once each;
\* redeliveries: bound on the messages the broker delivers again.
AllAdminCmds == {"TURN_ON", "TURN_OFF", "KILL"}
Scenario == [sfcis : Nat, requests : Nat, pending : Nat, mayRaise : BOOLEAN,
             admin : SUBSET AllAdminCmds, redeliveries : Nat]

ASSUME OrchestratorAssumption ==
    /\ SFCIsPerSFC \in Nat
    /\ MaxRequests \in Nat
    /\ BatchSize \in Nat \ {0}
    /\ MAX_RETRY_NUM \in Nat
    /\ \A c \in Scenarios : c \in Scenario

Requests == 1..MaxRequests
SFCIs    == SFCs \X (1..SFCIsPerSFC)

\* A request.  valid: what _isValidAddSFCIRequest finds (ingress, egress, SFCI).
Request ==
    [type : {"ADD_SFC", "DEL_SFC"}, sfc : SFCs, sfci : {None}, valid : {TRUE}] \cup
    UNION {[type : {"DEL_SFCI"}, sfc : {i[1]}, sfci : {i}, valid : {TRUE}] \cup
           [type : {"ADD_SFCI"}, sfc : {i[1]}, sfci : {i}, valid : BOOLEAN] : i \in SFCIs}

\* The k-th command generated for request r is <<r, k>> (uuid1 in the code).
CmdID == Requests \X Nat

Msg == [kind : {"request"}, id : Requests] \cup
       [kind : {"rply"}, id : CmdID, cmdState : {CMD_STATE_SUCCESSFUL, CMD_STATE_FAIL}] \cup
       [kind : {"cmd"}, id : AllAdminCmds]

\* The columns of the tables that the model keeps.
RequestRow == [state : RequestState, cmdID : CmdID \cup {None}, retryCnt : Nat]
SFCRow     == [state : ResourceState, sfciIDList : SUBSET SFCIs]
SFCIRow    == [state : ResourceState]

\* Python's None is no request, no identifier and no row.
ASSUME NoneAssumption ==
    /\ None \notin Request /\ None \notin SFCIs /\ None \notin CmdID
    /\ None \notin RequestRow /\ None \notin SFCRow /\ None \notin SFCIRow

VARIABLES
    db,                   \* the shared tables
    commandsInfo,         \* Orchestrator._cm._commandsInfo
    orchestratorQueue,    \* ORCHESTRATOR_QUEUE_<name>
    requestBatchQueue,    \* _requestBatchQueue
    batch,                \* requests of a mapped batch still to be sent, with their positions
    requestWaitingQueue,  \* requestWaitingQueue
    runningState,         \* runningState
    recvKillCommand,      \* recvKillCommand
    phase,                \* where the loop is
    regulator,            \* what the regulator has read and not yet written
    submitted,            \* the requests the clients have sent
    cmdCnt,               \* commands generated for each request
    inMediator,           \* commands sent to the mediator and not yet answered
    deployed,             \* SFCIs some controller holds resources for
    adminSent,            \* commands the dispatcher has sent
    redeliveries,         \* number of redeliveries so far
    scenario              \* the scenario of this behaviour

loopVars   == <<requestBatchQueue, batch, requestWaitingQueue, runningState,
                recvKillCommand, phase>>
tableVars  == <<db, commandsInfo>>
serverVars == <<inMediator, deployed>>
clientVars == <<submitted, adminSent, redeliveries, scenario>>
vars == <<loopVars, tableVars, serverVars, clientVars, orchestratorQueue, regulator, cmdCnt>>

Idle == [task |-> "none"]

\* The dispatcher starts an orchestrator turned off and turns it on after it
\* has sent it the state of the network.
Init ==
    /\ db = [Request |-> [r \in Requests |-> None],
             SFC     |-> [s \in SFCs |-> None],
             SFCI    |-> [i \in SFCIs |-> None]]
    /\ commandsInfo = NoCommands
    /\ orchestratorQueue = <<[kind |-> "cmd", id |-> "TURN_ON"]>>
    /\ requestBatchQueue = <<>>
    /\ batch = {}
    /\ requestWaitingQueue = <<>>
    /\ runningState = FALSE
    /\ recvKillCommand = FALSE
    /\ phase = "recv"
    /\ regulator = Idle
    /\ submitted = [r \in Requests |-> None]
    /\ cmdCnt = [r \in Requests |-> 0]
    /\ inMediator = {}
    /\ deployed = {}
    /\ adminSent = {}
    /\ redeliveries = 0
    /\ scenario \in Scenarios
-----------------------------------------------------------------------------
(***************************************************************************)
(* Clients and dispatcher                                                  *)
(***************************************************************************)
\* The outcome of a request is final.
Settled(r) ==
    /\ hasRequest(db, r)
    /\ \/ db.Request[r].state = REQUEST_STATE_SUCCESSFUL
       \/ /\ db.Request[r].state = REQUEST_STATE_FAILED
          /\ db.Request[r].retryCnt >= MAX_RETRY_NUM

Open == {r \in Requests : submitted[r] # None /\ ~Settled(r)}

\* The dispatcher knows an orchestrator for an SFC once it has routed an ADD_SFC
\* for it; other requests for an unknown SFC never reach an orchestrator.
Submit(r, request) ==
    /\ submitted[r] = None
    /\ \A q \in 1..(r - 1) : submitted[q] # None
    /\ r <= scenario.requests /\ Cardinality(Open) < scenario.pending
    /\ request.sfci # None => request.sfci[2] <= scenario.sfcis
    /\ request.type # "ADD_SFC" =>
          \E q \in 1..(r - 1) : submitted[q].type = "ADD_SFC" /\ submitted[q].sfc = request.sfc
    /\ submitted' = [submitted EXCEPT ![r] = request]
    /\ orchestratorQueue' = Append(orchestratorQueue, [kind |-> "request", id |-> r])
    /\ UNCHANGED <<loopVars, tableVars, serverVars, adminSent, redeliveries, scenario, regulator,
                   cmdCnt>>

SendAdminCmd(c) ==
    /\ c \in scenario.admin /\ c \notin adminSent
    /\ adminSent' = adminSent \cup {c}
    /\ orchestratorQueue' = Append(orchestratorQueue, [kind |-> "cmd", id |-> c])
    /\ UNCHANGED <<loopVars, tableVars, serverVars, submitted, redeliveries, scenario, regulator,
                   cmdCnt>>
-----------------------------------------------------------------------------
(***************************************************************************)
(* _requestHandler                                                         *)
(***************************************************************************)
NextCmdID(r) == <<r, cmdCnt[r] + 1>>
GenCmd(r)    == cmdCnt' = [cmdCnt EXCEPT ![r] = @ + 1]

\* The command is entered in the table and sent to the mediator.
SendCmd(r) ==
    /\ commandsInfo' = addCmd(commandsInfo, NextCmdID(r), submitted[r])
    /\ inMediator' = inMediator \cup {NextCmdID(r)}

SendNothing == UNCHANGED <<commandsInfo, inMediator>>

\* What the three kinds of requests that are handled at once have in common: the
\* command is generated, sent if the state allows it, and the tables written.
GenAndSend(r, isValid, dbIfSent, dbIfNot) ==
    /\ GenCmd(r)
    /\ IF isValid THEN SendCmd(r) /\ db' = dbIfSent
                  ELSE SendNothing /\ db' = dbIfNot
    /\ UNCHANGED <<requestBatchQueue, batch>>

HandleAddSFC(r) ==
    LET s == submitted[r].sfc
        write(reqState, sfcState) ==
            addSFCRequestHandler(db, r, s, NextCmdID(r), reqState, sfcState)
    IN  /\ submitted[r].type = "ADD_SFC"
        /\ GenAndSend(r, isAddSFCValidState(db, s),
                      write(REQUEST_STATE_IN_PROCESSING, STATE_IN_PROCESSING),
                      write(REQUEST_STATE_FAILED, STATE_INIT_FAILED))

HandleDelSFCI(r) ==
    LET i == submitted[r].sfci
        write(reqState, sfciState) ==
            delSFCIRequestHandler(db, r, i, NextCmdID(r), reqState, sfciState)
    IN  /\ submitted[r].type = "DEL_SFCI"
        /\ hasSFC(db, submitted[r].sfc) /\ hasSFCI(db, i)
        /\ GenAndSend(r, isDelSFCIValidState(db, i),
                      write(REQUEST_STATE_IN_PROCESSING, STATE_IN_PROCESSING),
                      write(REQUEST_STATE_FAILED, STATE_UNDELETED))

HandleDelSFC(r) ==
    LET s == submitted[r].sfc
        write(reqState, sfcState) ==
            delSFCRequestHandler(db, r, s, NextCmdID(r), reqState, sfcState)
    IN  /\ submitted[r].type = "DEL_SFC"
        /\ hasSFC(db, s)
        /\ GenAndSend(r, isDelSFCValidState(db, s),
                      write(REQUEST_STATE_IN_PROCESSING, STATE_IN_PROCESSING),
                      write(REQUEST_STATE_FAILED, STATE_UNDELETED))

\* Generating the command raises: there is no gateway for the SFC to add, or no
\* row for what is to be deleted.
HandleRaises(r) ==
    /\ \/ submitted[r].type = "ADD_SFC" /\ scenario.mayRaise
       \/ /\ submitted[r].type = "DEL_SFCI"
          /\ ~(hasSFC(db, submitted[r].sfc) /\ hasSFCI(db, submitted[r].sfci))
       \/ submitted[r].type = "DEL_SFC" /\ ~hasSFC(db, submitted[r].sfc)
    /\ db' = updateRequestState2DB(db, r, REQUEST_STATE_FAILED)
    /\ SendNothing
    /\ UNCHANGED <<cmdCnt, requestBatchQueue, batch>>

\* processInvalidAddSFCIRequests: an invalid request is recorded as failed; one
\* that already has a row, because it is being repeated, is left as it is.
Rejected(queue) ==
    {r \in {queue[n] : n \in 1..Len(queue)} : ~submitted[r].valid}
WithRejected(queue) ==
    [db EXCEPT !.Request = [r \in Requests |->
        IF r \in Rejected(queue) THEN addRequest(db, r, REQUEST_STATE_FAILED, None).Request[r]
                                 ELSE @[r]]]

\* processAllAddSFCIRequests up to the mapping of the batch.
MapBatch(queue) ==
    /\ batch' = {<<n, queue[n]>> : n \in {k \in 1..Len(queue) : submitted[queue[k]].valid}}
    /\ db' = WithRejected(queue)
    /\ requestBatchQueue' = <<>>
    /\ SendNothing
    /\ UNCHANGED cmdCnt

\* The mapping raises: the requests are no longer in any queue.
MapBatchRaises(queue, dbAfter) ==
    /\ scenario.mayRaise
    /\ db' = dbAfter
    /\ requestBatchQueue' = <<>>
    /\ SendNothing
    /\ UNCHANGED <<cmdCnt, batch>>

\* An ADD_SFCI joins the batch; a full batch is processed at once.
HandleAddSFCI(r) ==
    LET queue == Append(requestBatchQueue, r)
    IN  /\ submitted[r].type = "ADD_SFCI"
        /\ \/ /\ Len(queue) < BatchSize
              /\ requestBatchQueue' = queue
              /\ SendNothing
              /\ UNCHANGED <<db, cmdCnt, batch>>
           \/ /\ Len(queue) >= BatchSize
              /\ \/ MapBatch(queue)
                 \/ MapBatchRaises(queue, updateRequestState2DB(WithRejected(queue), r,
                                                                REQUEST_STATE_FAILED))

RequestHandler(r) ==
    /\ \/ HandleAddSFC(r)
       \/ HandleAddSFCI(r)
       \/ HandleDelSFCI(r)
       \/ HandleDelSFC(r)
       \/ HandleRaises(r)
    /\ UNCHANGED <<runningState, recvKillCommand, deployed, clientVars, regulator>>

\* The next request of a mapped batch, with the path that was found for it or
\* without one.
BatchStep ==
    /\ \E entry \in batch :
          /\ \A other \in batch : entry[1] <= other[1]
          /\ batch' = batch \ {entry}
          /\ LET r == entry[2]
                 i == submitted[r].sfci
             IN  \/ /\ GenCmd(r)
                    /\ db' = addSFCIRequestHandler(db, r, i, NextCmdID(r),
                                                   REQUEST_STATE_IN_PROCESSING)
                    /\ IF isAddSFCIValidState(db, i) THEN SendCmd(r) ELSE SendNothing
                 \/ /\ db' = addSFCIRequestHandlerNoCmd(db, r, i)
                    /\ SendNothing
                    /\ UNCHANGED cmdCnt
    /\ UNCHANGED <<requestBatchQueue, requestWaitingQueue, runningState, recvKillCommand,
                   phase, orchestratorQueue, deployed, clientVars, regulator>>
-----------------------------------------------------------------------------
(***************************************************************************)
(* startOrchestrator                                                       *)
(***************************************************************************)
\* The loop takes a message of the given kind.
Take(kind) ==
    /\ phase = "recv" /\ batch = {}
    /\ orchestratorQueue # <<>>
    /\ Head(orchestratorQueue).kind = kind
    /\ orchestratorQueue' = Tail(orchestratorQueue)
    /\ phase' = "timer"

TakeRequest ==
    /\ Take("request")
    /\ runningState
    /\ RequestHandler(Head(orchestratorQueue).id)
    /\ UNCHANGED requestWaitingQueue

PostponeRequest ==
    /\ Take("request")
    /\ ~runningState
    /\ requestWaitingQueue' = Append(requestWaitingQueue, Head(orchestratorQueue).id)
    /\ UNCHANGED <<tableVars, serverVars, clientVars, requestBatchQueue, batch,
                   runningState, recvKillCommand, regulator, cmdCnt>>

\* _commandHandler
TakeCmd ==
    /\ Take("cmd")
    /\ LET c == Head(orchestratorQueue).id
       IN  /\ runningState' = IF c = "KILL" THEN runningState ELSE c = "TURN_ON"
           /\ recvKillCommand' = (recvKillCommand \/ c = "KILL")
    /\ UNCHANGED <<tableVars, serverVars, clientVars, requestBatchQueue, batch,
                   requestWaitingQueue, regulator, cmdCnt>>

\* _commandReplyHandler: a reply to a command that is not in the table is
\* ignored.  If no row of Request has the command's identifier any more, or the
\* tables cannot be written, the handler stops and the entry stays.
TakeRply ==
    /\ Take("rply")
    /\ LET m        == Head(orchestratorQueue)
           r        == m.id[1]
           recorded == addCmdRply(changeCmdState(commandsInfo, m.id, m.cmdState), m.id, m)
       IN  \/ /\ ~hasCmd(commandsInfo, m.id)
              /\ UNCHANGED tableVars
           \/ /\ hasCmd(commandsInfo, m.id)
              /\ RequestsByCmdID(db, m.id) = {}
              /\ commandsInfo' = recorded
              /\ UNCHANGED db
           \/ /\ hasCmd(commandsInfo, m.id)
              /\ r \in RequestsByCmdID(db, m.id)
              /\ db' = cmdRplyHandler(db, r, submitted[r], m.cmdState)
              /\ commandsInfo' = IF CmdRplyRaises(db, submitted[r]) THEN recorded
                                 ELSE delCmdwithChildCmd(recorded, m.id)
    /\ UNCHANGED <<serverVars, clientVars, requestBatchQueue, batch, requestWaitingQueue,
                   runningState, recvKillCommand, regulator, cmdCnt>>

\* No message: a killed orchestrator leaves its loop.
NoMsg ==
    /\ phase = "recv" /\ batch = {}
    /\ orchestratorQueue = <<>>
    /\ phase' = IF recvKillCommand THEN "stopped" ELSE "timer"
    /\ UNCHANGED <<tableVars, serverVars, clientVars, orchestratorQueue, requestBatchQueue,
                   batch, requestWaitingQueue, runningState, recvKillCommand, regulator, cmdCnt>>

\* Where the loop goes once the batch timer is dealt with:
\* processAllWaitingRequest has something to do or the iteration ends.
AfterTimer == IF runningState /\ requestWaitingQueue # <<>> THEN "waiting" ELSE "recv"

\* The batch timer has not expired, or there is nothing to do when it has.
NoTimeout ==
    /\ phase = "timer" /\ batch = {}
    /\ phase' = AfterTimer
    /\ UNCHANGED <<tableVars, serverVars, clientVars, orchestratorQueue, requestBatchQueue,
                   batch, requestWaitingQueue, runningState, recvKillCommand, regulator, cmdCnt>>

\* Wrong variant of the action below: the timer is ignored unless the batch is full.
BatchTimeoutIfFull ==
    /\ phase = "timer" /\ batch = {}
    /\ Len(requestBatchQueue) >= BatchSize /\ runningState
    /\ MapBatch(requestBatchQueue) /\ phase' = AfterTimer
    /\ UNCHANGED <<deployed, clientVars, orchestratorQueue, requestWaitingQueue, runningState,
                   recvKillCommand, regulator>>

\* An exception here skips processAllWaitingRequest in this iteration.
BatchTimeout ==
    /\ phase = "timer" /\ batch = {}
    /\ requestBatchQueue # <<>> /\ runningState
    /\ \/ MapBatch(requestBatchQueue) /\ phase' = AfterTimer
       \/ /\ MapBatchRaises(requestBatchQueue, WithRejected(requestBatchQueue))
          /\ phase' = "recv"
    /\ UNCHANGED <<deployed, clientVars, orchestratorQueue, requestWaitingQueue, runningState,
                   recvKillCommand, regulator>>

\* processAllWaitingRequest
TakeWaitingRequest ==
    /\ phase = "waiting" /\ batch = {}
    /\ RequestHandler(Head(requestWaitingQueue))
    /\ requestWaitingQueue' = Tail(requestWaitingQueue)
    /\ phase' = IF Len(requestWaitingQueue) = 1 THEN "recv" ELSE "waiting"
    /\ UNCHANGED orchestratorQueue

StartOrchestrator ==
    \/ TakeRequest \/ PostponeRequest \/ TakeCmd \/ TakeRply \/ NoMsg
    \/ NoTimeout \/ BatchTimeout \/ BatchStep
    \/ TakeWaitingRequest
-----------------------------------------------------------------------------
(***************************************************************************)
(* The mediator, the regulator and the broker                              *)
(***************************************************************************)
\* The SFCIs some controller holds resources for once request has been carried
\* out or has failed half way.
DeployedAfter(request, cmdState) ==
    LET touched == IF request.sfci = None THEN {} ELSE {request.sfci}
    IN  CASE request.type = "ADD_SFCI" /\ cmdState = CMD_STATE_SUCCESSFUL ->
                {deployed \cup touched}
          [] request.type = "DEL_SFCI" /\ cmdState = CMD_STATE_SUCCESSFUL ->
                {deployed \ touched}
          [] request.type = "ADD_SFCI" /\ cmdState = CMD_STATE_FAIL ->
                {deployed, deployed \cup touched}
          [] request.type = "DEL_SFCI" /\ cmdState = CMD_STATE_FAIL ->
                {deployed, deployed \ touched}
          [] OTHER -> {deployed}

\* The mediator answers the commands in any order.
MediatorAnswer(c) ==
    /\ c \in inMediator
    /\ inMediator' = inMediator \ {c}
    /\ \E cmdState \in {CMD_STATE_SUCCESSFUL, CMD_STATE_FAIL} :
          /\ deployed' \in DeployedAfter(submitted[c[1]], cmdState)
          /\ orchestratorQueue' =
               Append(orchestratorQueue, [kind |-> "rply", id |-> c, cmdState |-> cmdState])
    /\ UNCHANGED <<loopVars, tableVars, clientVars, regulator, cmdCnt>>

\* Wrong variant of the action below: every unsuccessful request is read.
RetryReadUnsuccessful ==
    /\ regulator = Idle
    /\ LET failed == {r \in Requests : /\ hasRequest(db, r)
                                       /\ db.Request[r].state # REQUEST_STATE_SUCCESSFUL
                                       /\ db.Request[r].retryCnt < MAX_RETRY_NUM}
       IN  /\ failed # {}
           /\ regulator' = [task |-> "retry", todo |-> failed]
    /\ UNCHANGED <<loopVars, tableVars, serverVars, clientVars, orchestratorQueue, cmdCnt>>

\* retryFailureRequests reads the failed requests ...
RetryRead ==
    /\ regulator = Idle
    /\ LET failed == {r \in Requests : /\ hasRequest(db, r)
                                       /\ db.Request[r].state = REQUEST_STATE_FAILED
                                       /\ db.Request[r].retryCnt < MAX_RETRY_NUM}
       IN  /\ failed # {}
           /\ regulator' = [task |-> "retry", todo |-> failed]
    /\ UNCHANGED <<loopVars, tableVars, serverVars, clientVars, orchestratorQueue, cmdCnt>>

\* ... and repeats them one after the other.
RetryWrite(r) ==
    /\ regulator.task = "retry" /\ r \in regulator.todo
    /\ db' = incRequestRetryCnt(updateRequestState2DB(db, r, REQUEST_STATE_INITIAL), r)
    /\ orchestratorQueue' = Append(orchestratorQueue, [kind |-> "request", id |-> r])
    /\ regulator' = IF regulator.todo = {r} THEN Idle
                    ELSE [regulator EXCEPT !.todo = @ \ {r}]
    /\ UNCHANGED <<loopVars, commandsInfo, serverVars, clientVars, cmdCnt>>

\* UPDATE_SFC_STATE: the regulator reads the state of the SFC and checks it ...
isValidToTransSFCState(curSFCState, newSFCState) ==
    \/ curSFCState = STATE_ACTIVE /\ newSFCState = STATE_MANUAL
    \/ curSFCState = STATE_MANUAL /\ newSFCState = STATE_ACTIVE

UpdateRead(s, newState) ==
    /\ regulator = Idle
    /\ hasSFC(db, s) /\ isValidToTransSFCState(db.SFC[s].state, newState)
    /\ regulator' = [task |-> "update", sfc |-> s, newState |-> newState]
    /\ UNCHANGED <<loopVars, tableVars, serverVars, clientVars, orchestratorQueue, cmdCnt>>

\* ... and then writes the new one.
UpdateWrite ==
    /\ regulator.task = "update"
    /\ db' = updateSFCState(db, regulator.sfc, regulator.newState)
    /\ regulator' = Idle
    /\ UNCHANGED <<loopVars, commandsInfo, serverVars, clientVars, orchestratorQueue, cmdCnt>>

Regulator ==
    \/ RetryRead
    \/ \E r \in Requests : RetryWrite(r)
    \/ \E s \in SFCs, newState \in {STATE_ACTIVE, STATE_MANUAL} : UpdateRead(s, newState)
    \/ UpdateWrite

\* The connection is lost between QueueReciever.callback's put and its ack.
Redeliver ==
    /\ redeliveries < scenario.redeliveries
    /\ orchestratorQueue # <<>>
    /\ redeliveries' = redeliveries + 1
    /\ orchestratorQueue' = <<Head(orchestratorQueue)>> \o orchestratorQueue
    /\ UNCHANGED <<loopVars, tableVars, serverVars, submitted, adminSent, scenario, regulator, cmdCnt>>

Next ==
    \/ \E r \in Requests, request \in Request : Submit(r, request)
    \/ \E c \in AllAdminCmds : SendAdminCmd(c)
    \/ StartOrchestrator
    \/ \E c \in inMediator : MediatorAnswer(c)
    \/ Regulator
    \/ Redeliver

Spec == Init /\ [][Next]_vars

\* The loop runs for ever; a timer that is looked at in every iteration of a loop
\* (the batch timer, and the regulator's retry timer) is found expired again and
\* again; the mediator answers; the regulator ends what it has begun.
Fairness ==
    /\ WF_vars(StartOrchestrator)
    /\ SF_vars(BatchTimeout)
    /\ \A c \in Requests \X (1..MAX_RETRY_NUM + 1) : WF_vars(MediatorAnswer(c))
    /\ SF_vars(RetryRead)
    /\ WF_vars(\E r \in Requests : RetryWrite(r))
    /\ WF_vars(UpdateWrite)

FairSpec == Spec /\ Fairness
-----------------------------------------------------------------------------
(***************************************************************************)
(* Properties                                                              *)
(***************************************************************************)
\* The reply to command c is still to come.
Awaited(c) ==
    /\ hasCmd(commandsInfo, c)
    /\ \/ c \in inMediator
       \/ \E n \in 1..Len(orchestratorQueue) :
             orchestratorQueue[n].kind = "rply" /\ orchestratorQueue[n].id = c

\* A request is shown as being processed only while the reply that will end this
\* is still to come and will be recognised.
RequestsAreAwaited ==
    \A r \in Requests :
        (hasRequest(db, r) /\ db.Request[r].state = REQUEST_STATE_IN_PROCESSING)
        => Awaited(db.Request[r].cmdID)

\* An SFC or SFCI is IN_PROCESSING only while a command about it is outstanding.
\* A request delivered twice, and an exception before a row is written, leave it
\* there for ever.
ResourcesAreAwaited ==
    (redeliveries = 0 /\ ~scenario.mayRaise) =>
    /\ \A s \in SFCs :
          (hasSFC(db, s) /\ db.SFC[s].state = STATE_IN_PROCESSING) =>
          \E c \in DOMAIN commandsInfo :
             /\ commandsInfo[c].cmd.type \in {"ADD_SFC", "DEL_SFC"}
             /\ commandsInfo[c].cmd.sfc = s
             /\ Awaited(c)
    /\ \A i \in SFCIs :
          (hasSFCI(db, i) /\ db.SFCI[i].state = STATE_IN_PROCESSING) =>
          \E c \in DOMAIN commandsInfo : commandsInfo[c].cmd.sfci = i /\ Awaited(c)

\* No interleaving of requests, repetitions and replies leaves a request, an SFC or
\* an SFCI in processing for ever: the reply that will end this is to come and will
\* be recognised (_cmdRplyHandler, addCmdInfo2Request).
NoneStuckInProcessing == RequestsAreAwaited /\ ResourcesAreAwaited

\* The test of DEL_SFC looks at the SFCIs on the SFC's list only: an SFCI shown
\* as active is on it, also after its SFC was added a second time.
ActiveIsListed ==
    \A i \in SFCIs :
        (hasSFCI(db, i) /\ db.SFCI[i].state = STATE_ACTIVE)
        => hasSFC(db, i[1]) /\ i \in db.SFC[i[1]].sfciIDList

\* A request goes from being processed to success or failure, only a failed one
\* is repeated, and success is final, unless the broker delivers one again.
RequestLifecycle ==
    [][\A r \in Requests :
          (redeliveries = 0 /\ hasRequest(db, r)) =>
            LET from == db.Request[r].state
                to   == db'.Request[r].state
            IN  \/ to = from
                \/ from = REQUEST_STATE_IN_PROCESSING /\
                      to \in {REQUEST_STATE_SUCCESSFUL, REQUEST_STATE_FAILED}
                \/ from = REQUEST_STATE_FAILED /\ to = REQUEST_STATE_INITIAL
                \/ from = REQUEST_STATE_INITIAL /\
                      to \in {REQUEST_STATE_IN_PROCESSING, REQUEST_STATE_FAILED}]_vars

\* For a client that waits for each request to be settled before it sends the
\* next one, the SFCI table tells the truth: an active SFCI is deployed and a
\* deleted one holds no resources.
TableTellsTruth ==
    \A i \in SFCIs : (scenario.pending = 1 /\ redeliveries = 0 /\ hasSFCI(db, i)) =>
        /\ db.SFCI[i].state = STATE_ACTIVE => i \in deployed
        /\ db.SFCI[i].state = STATE_DELETED => i \notin deployed

\* Every well-formed request is settled in the end.
EventuallySettled ==
    \A r \in Requests :
        (submitted[r] # None /\ submitted[r].valid) ~> Settled(r)

\* "All resource of this sfc/sfci has been released": no SFCI of a deleted SFC
\* holds resources.
DeletedIsReleased ==
    \A i \in SFCIs :
        (hasSFC(db, i[1]) /\ db.SFC[i[1]].state = STATE_DELETED) => i \notin deployed
=============================================================================
