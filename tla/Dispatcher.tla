------------------------------ MODULE Dispatcher ------------------------------
(***************************************************************************)
(* dispatcher/dispatcher.py and dispatcher/orchestratorManager: the        *)
(* dispatcher of a zone splits the pods over orchestrators, sends every    *)
(* request to the orchestrator that has the SFC, and tells all of them     *)
(* about equipment that fails or resumes.                                  *)
(*                                                                         *)
(* The dispatcher is one thread; each handler is one step.  Requests,      *)
(* commands and replies come from different processes, so that they are    *)
(* handled in any order, except that the replies of one orchestrator keep  *)
(* theirs.  Of an orchestrator (module Orchestrator) the model has what    *)
(* the dispatcher depends on: the state of the SFCIs in the shared table,  *)
(* and the runtime state it computes.                                      *)
(***************************************************************************)
EXTENDS Integers, Sequences, FiniteSets, SequencesExt, FiniteSetsExt

CONSTANTS
    SFCs,
    SFCIsPerSFC,
    Scenarios,    \* what may happen, one per behaviour
    None

\* The zone and its orchestrators, and the bounds: requests, commands about equipment,
\* messages between the dispatcher and an orchestrator that are lost.
Scenario == [podNum : Nat \ {0}, orchNum : Nat \ {0}, requests : Nat, cmds : Nat, losses : Nat]

ASSUME DispatcherAssumption ==
    SFCIsPerSFC \in Nat /\ None \notin Nat /\ \A c \in Scenarios : c \in Scenario

SFCIs == SFCs \X (1..SFCIsPerSFC)
SFCSymmetry == Permutations(SFCs)

STATE_ACTIVE      == "STATE_ACTIVE"
STATE_DELETED     == "STATE_DELETED"
STATE_UNDELETED   == "STATE_UNDELETED"
STATE_INIT_FAILED == "STATE_INIT_FAILED"

VARIABLES
    scenario,           \* chosen at the start
    sfcDict, sfciDict,  \* per orchestrator: its SFCs; SFC -> its SFCIs, None without a key
    runtimeState,       \* per orchestrator: isValidRuntimeState() of what it told last
    roundRobinCounter,
    commandsInfo,       \* Dispatcher._cm: the commands it keeps, <<n, orchestrator>>
    orchQueue,          \* per orchestrator: ORCHESTRATOR_QUEUE_<name>
    rplyQueue,          \* per orchestrator: its replies on their way
    sfciState,          \* table SFCI: the state of each SFCI, None without a row
    equipment,          \* history, per orchestrator: the last effect on its equipment
    requests, cmds, losses,
    missing,            \* history, per orchestrator: a command that told it something new
                        \* was lost, or else its last answer
    unanswered          \* history: commands that get no answer

dictVars  == <<sfcDict, sfciDict, roundRobinCounter>>
countVars == <<requests, cmds, losses>>
vars == <<scenario, dictVars, runtimeState, commandsInfo, orchQueue, rplyQueue, sfciState,
          equipment, countVars, missing, unanswered>>

podNum  == scenario.podNum
orchNum == scenario.orchNum
Orch == 0..(orchNum - 1)    \* positions in the sorted list of names
-----------------------------------------------------------------------------
(***************************************************************************)
(* Which pods an orchestrator has.                                         *)
(***************************************************************************)
\* Wrong variant: the larger parts come one too early.
splitIntegerEarly(x, n) ==
    [i \in 0..(n - 1) |-> IF x % n # 0 /\ i + 1 >= n - (x % n) THEN x \div n + 1 ELSE x \div n]

splitInteger(x, n) ==
    [i \in 0..(n - 1) |-> IF x % n # 0 /\ i >= n - (x % n) THEN x \div n + 1 ELSE x \div n]

\* sum(oPodNumList[:i]) for i up to the length of the list.
PodsBefore ==
    LET oPodNumList == splitInteger(podNum, orchNum)
        sum[i \in 0..orchNum] == IF i = 0 THEN 0 ELSE sum[i - 1] + oPodNumList[i - 1]
    IN  sum
minPodIdx(i) == PodsBefore[i]
maxPodIdx(i) == minPodIdx(i) + splitInteger(podNum, orchNum)[i] - 1

\* initOrchestratorManager; splitInteger raises if there are more orchestrators
\* than pods, and then the dispatcher does not start.
Init ==
    /\ scenario \in {c \in Scenarios : c.orchNum <= c.podNum}
    /\ sfcDict = [o \in Orch |-> {}]
    /\ sfciDict = [o \in Orch |-> [s \in SFCs |-> None]]
    /\ runtimeState = [o \in Orch |-> TRUE]
    /\ roundRobinCounter = 0
    /\ commandsInfo = {}
    /\ orchQueue = [o \in Orch |-> <<>>]
    /\ rplyQueue = [o \in Orch |-> <<>>]
    /\ sfciState = [i \in SFCIs |-> None]
    /\ equipment = [o \in Orch |-> "valid"]
    /\ requests = 0 /\ cmds = 0 /\ losses = 0
    /\ missing = [o \in Orch |-> "nothing"]
    /\ unanswered = {}
-----------------------------------------------------------------------------
(***************************************************************************)
(* OrchestratorManager                                                     *)
(***************************************************************************)
\* Wrong variant: the counter stays at the orchestrator that was chosen.
selectOrchStays(counter) ==
    LET tries == {k \in 0..orchNum : runtimeState[(counter + k) % orchNum]}
    IN  IF tries = {} THEN [orch |-> None, counter |-> counter]
        ELSE [orch    |-> (counter + Min(tries)) % orchNum,
              counter |-> (counter + Min(tries)) % orchNum]

\* The loop looks at orchNum + 1 orchestrators, the first one twice.
selectOrchInRoundRobin(counter) ==
    LET tries == {k \in 0..orchNum : runtimeState[(counter + k) % orchNum]}
    IN  IF tries = {} THEN [orch |-> None, counter |-> (counter + orchNum + 1) % orchNum]
        ELSE [orch    |-> (counter + Min(tries)) % orchNum,
              counter |-> (counter + Min(tries) + 1) % orchNum]

OrchsOfSFC(s) == {o \in Orch : s \in sfcDict[o]}
getOrchestratorNameBySFC(s) == IF OrchsOfSFC(s) = {} THEN None ELSE Min(OrchsOfSFC(s))

\* Read from the table that the orchestrators write.
isAllSFCIsOfASFCAreDeletedOrInitFailed(o, s) ==
    \A i \in sfciDict[o][s] : sfciState[i] \in {STATE_DELETED, STATE_INIT_FAILED}
-----------------------------------------------------------------------------
(***************************************************************************)
(* _requestHandler.  An exception is logged and the request is gone.       *)
(***************************************************************************)
Request == requests < scenario.requests /\ requests' = requests + 1

\* sendMsg may lose the message.
Send(o, msg) ==
    \/ orchQueue' = [orchQueue EXCEPT ![o] = Append(@, msg)] /\ UNCHANGED losses
    \/ losses < scenario.losses /\ losses' = losses + 1 /\ UNCHANGED orchQueue

reqRest == <<scenario, runtimeState, commandsInfo, rplyQueue, sfciState, equipment, cmds, missing,
             unanswered>>

\* ADD_SFC, once the SFC is in the given dictionaries of no orchestrator: one is
\* selected, or none is available and ValueError is raised.
AssignAndSend(s, dict) ==
    LET chosen == selectOrchInRoundRobin(roundRobinCounter)
    IN  /\ roundRobinCounter' = chosen.counter
        /\ IF chosen.orch = None
           THEN sfcDict' = dict /\ UNCHANGED <<orchQueue, losses>>
           ELSE /\ sfcDict' = [dict EXCEPT ![chosen.orch] = @ \cup {s}]
                /\ Send(chosen.orch, [type |-> "ADD_SFC", sfc |-> s])
        /\ UNCHANGED sfciDict

AddSFCNew(s) ==
    /\ Request
    /\ getOrchestratorNameBySFC(s) = None
    /\ AssignAndSend(s, sfcDict)
    /\ UNCHANGED reqRest

\* The orchestrator is valid, or still has SFCIs of the SFC.
AddSFCKnown(s) ==
    LET o == getOrchestratorNameBySFC(s)
    IN  /\ Request
        /\ o # None
        /\ \/ runtimeState[o]
           \/ sfciDict[o][s] # None /\ ~isAllSFCIsOfASFCAreDeletedOrInitFailed(o, s)
        /\ Send(o, [type |-> "ADD_SFC", sfc |-> s])
        /\ UNCHANGED <<dictVars, reqRest>>

\* The orchestrator is not valid and never had an SFCI of the SFC: KeyError.
AddSFCRaises(s) ==
    LET o == getOrchestratorNameBySFC(s)
    IN  /\ Request
        /\ o # None
        /\ ~runtimeState[o]
        /\ sfciDict[o][s] = None
        /\ UNCHANGED <<dictVars, orchQueue, losses, reqRest>>

\* Wrong variant: the SFC stays with the old orchestrator as well.
AddSFCCopy(s) ==
    LET o == getOrchestratorNameBySFC(s)
    IN  /\ Request
        /\ o # None
        /\ ~runtimeState[o]
        /\ sfciDict[o][s] # None
        /\ isAllSFCIsOfASFCAreDeletedOrInitFailed(o, s)
        /\ AssignAndSend(s, sfcDict)
        /\ UNCHANGED reqRest

AddSFCMigrate(s) ==
    LET o == getOrchestratorNameBySFC(s)
    IN  /\ Request
        /\ o # None
        /\ ~runtimeState[o]
        /\ sfciDict[o][s] # None
        /\ isAllSFCIsOfASFCAreDeletedOrInitFailed(o, s)
        /\ AssignAndSend(s, [sfcDict EXCEPT ![o] = @ \ {s}])
        /\ UNCHANGED reqRest

AddSFCI(i) ==
    LET o == getOrchestratorNameBySFC(i[1])
    IN  /\ Request
        /\ o # None
        /\ sfciDict' = [sfciDict EXCEPT ![o][i[1]] = IF @ = None THEN {i} ELSE @ \cup {i}]
        /\ Send(o, [type |-> "ADD_SFCI", sfci |-> i])
        /\ UNCHANGED <<sfcDict, roundRobinCounter, reqRest>>

DelSFCI(i) ==
    LET o == getOrchestratorNameBySFC(i[1])
    IN  /\ Request
        /\ o # None
        /\ Send(o, [type |-> "DEL_SFCI", sfci |-> i])
        /\ UNCHANGED <<dictVars, reqRest>>

DelSFC(s) ==
    LET o == getOrchestratorNameBySFC(s)
    IN  /\ Request
        /\ o # None
        /\ Send(o, [type |-> "DEL_SFC", sfc |-> s])
        /\ UNCHANGED <<dictVars, reqRest>>

\* Nobody has the SFC: ADD_SFCI raises KeyError, DEL_SFCI and DEL_SFC go to
\* ORCHESTRATOR_QUEUE_None, which nobody reads.
RequestOfUnknownSFC(s) ==
    /\ Request
    /\ getOrchestratorNameBySFC(s) = None
    /\ UNCHANGED <<dictVars, orchQueue, losses, reqRest>>

RequestHandler(s) ==
    \/ AddSFCNew(s) \/ AddSFCKnown(s) \/ AddSFCRaises(s) \/ AddSFCMigrate(s)
    \/ \E k \in 1..SFCIsPerSFC : AddSFCI(<<s, k>>) \/ DelSFCI(<<s, k>>)
    \/ DelSFC(s) \/ RequestOfUnknownSFC(s)
-----------------------------------------------------------------------------
(***************************************************************************)
(* _commandHandler and _commandReplyHandler                                *)
(***************************************************************************)
Effects == {"none", "valid", "invalid", "noLinks"}

\* What the orchestrator finds: updateEquipmentState knows whether its equipment is
\* concerned, but after a command it missed computeRuntimeState may be wrong about it.
Finds(o, effect) ==
    IF missing[o] = "command" /\ effect # "none" THEN Effects \ {"none"} ELSE {effect}

\* HANDLE_FAILURE_ABNORMAL or FAILURE_ABNORMAL_RESUME with the given effect on the
\* equipment of each orchestrator: a command of its own to each of those told.  It
\* is in the table before sendMsg, which may lose it.
Tell(told, effect) ==
    /\ cmds < scenario.cmds
    /\ cmds' = cmds + 1
    /\ equipment' = [o \in Orch |-> IF effect[o] = "none" THEN equipment[o] ELSE effect[o]]
    /\ commandsInfo' = commandsInfo \cup {<<cmds', o>> : o \in told}
    /\ \E lost \in SUBSET told, found \in [Orch -> Effects] :
          /\ losses' = losses + Cardinality(lost) /\ losses' <= scenario.losses
          /\ \A o \in Orch : found[o] \in Finds(o, effect[o])
          /\ orchQueue' = [o \in Orch |->
                IF o \in told \ lost
                THEN Append(orchQueue[o], [type |-> "EQUIPMENT", id |-> cmds', effect |-> found[o]])
                ELSE orchQueue[o]]
          /\ missing' = [o \in Orch |->
                IF o \in lost /\ effect[o] # "none" THEN "command" ELSE missing[o]]
          /\ unanswered' = unanswered \cup {<<cmds', o>> : o \in lost}
    /\ UNCHANGED <<scenario, dictVars, runtimeState, rplyQueue, sfciState, requests>>

\* Wrong variant: only orchestrators in a valid state are told.
CommandHandlerToValid(effect) == Tell({o \in Orch : runtimeState[o]}, effect)

CommandHandler(effect) == Tell(Orch, effect)

\* Wrong variant: the command stays in the table.
CommandReplyKeeps(o) ==
    /\ rplyQueue[o] # <<>>
    /\ rplyQueue' = [rplyQueue EXCEPT ![o] = Tail(@)]
    /\ LET rply == Head(rplyQueue[o])
       IN  runtimeState' = IF <<rply.id, o>> \in commandsInfo
                           THEN [runtimeState EXCEPT ![o] = rply.valid] ELSE runtimeState
    /\ UNCHANGED <<scenario, dictVars, commandsInfo, orchQueue, sfciState,
                   equipment, countVars, missing, unanswered>>

\* A reply to a command that is not in the table is ignored.
CommandReplyHandler(o) ==
    /\ rplyQueue[o] # <<>>
    /\ rplyQueue' = [rplyQueue EXCEPT ![o] = Tail(@)]
    /\ LET rply == Head(rplyQueue[o])
       IN  /\ <<rply.id, o>> \in commandsInfo
           /\ runtimeState' = [runtimeState EXCEPT ![o] = rply.valid]
           /\ commandsInfo' = commandsInfo \ {<<rply.id, o>>}
    /\ UNCHANGED <<scenario, dictVars, orchQueue, sfciState, equipment, countVars,
                   missing, unanswered>>
-----------------------------------------------------------------------------
(***************************************************************************)
(* The orchestrators.                                                      *)
(***************************************************************************)
Takes(o, type) ==
    /\ orchQueue[o] # <<>>
    /\ Head(orchQueue[o]).type = type
    /\ orchQueue' = [orchQueue EXCEPT ![o] = Tail(@)]

OrchSFC(o) ==
    /\ Takes(o, "ADD_SFC") \/ Takes(o, "DEL_SFC")
    /\ UNCHANGED <<scenario, dictVars, runtimeState, commandsInfo, rplyQueue, sfciState,
                   equipment, countVars, missing, unanswered>>

\* The request leaves the state as it is, or its mapping or its command fails;
\* isAddSFCIValidState is needed for it to succeed.
OrchAddSFCI(o) ==
    /\ Takes(o, "ADD_SFCI")
    /\ LET i == Head(orchQueue[o]).sfci
       IN  \/ /\ sfciState[i] \in {None, STATE_DELETED, STATE_INIT_FAILED}
              /\ sfciState' = [sfciState EXCEPT ![i] = STATE_ACTIVE]
           \/ sfciState' \in {sfciState, [sfciState EXCEPT ![i] = STATE_INIT_FAILED]}
    /\ UNCHANGED <<scenario, dictVars, runtimeState, commandsInfo, rplyQueue, equipment,
                   countVars, missing, unanswered>>

\* The command may fail; if isDelSFCIValidState is false none is sent.
OrchDelSFCI(o) ==
    /\ Takes(o, "DEL_SFCI")
    /\ LET i == Head(orchQueue[o]).sfci
       IN  \/ sfciState[i] = None /\ UNCHANGED sfciState
           \/ sfciState[i] # None /\ sfciState' = [sfciState EXCEPT ![i] = STATE_UNDELETED]
           \/ /\ sfciState[i] \in {STATE_ACTIVE, STATE_UNDELETED}
              /\ sfciState' = [sfciState EXCEPT ![i] = STATE_DELETED]
    /\ UNCHANGED <<scenario, dictVars, runtimeState, commandsInfo, rplyQueue,
                   equipment, countVars, missing, unanswered>>

\* CMD_TYPE_ORCHESTRATION_UPDATE_EQUIPMENT_STATE: it does not answer if none of its
\* equipment is concerned, or if computeRuntimeState raises because no link is left.
\* sendMsg may lose the answer; the next one makes up for it.
OrchEquipment(o) ==
    /\ Takes(o, "EQUIPMENT")
    /\ LET cmd    == Head(orchQueue[o])
           answer == [id |-> cmd.id, valid |-> (cmd.effect = "valid")]
           Missing(what) == missing' =
                IF missing[o] = "command" THEN missing ELSE [missing EXCEPT ![o] = what]
           NoAnswer == unanswered' = unanswered \cup {<<cmd.id, o>>} /\ UNCHANGED rplyQueue
       IN  \/ /\ cmd.effect \in {"none", "noLinks"}
              /\ NoAnswer
              /\ UNCHANGED <<losses, missing>>
           \/ /\ cmd.effect \in {"valid", "invalid"}
              /\ rplyQueue' = [rplyQueue EXCEPT ![o] = Append(@, answer)]
              /\ Missing("nothing")
              /\ UNCHANGED <<losses, unanswered>>
           \/ /\ cmd.effect \in {"valid", "invalid"}
              /\ losses < scenario.losses /\ losses' = losses + 1
              /\ NoAnswer
              /\ Missing("answer")
    /\ UNCHANGED <<scenario, dictVars, runtimeState, commandsInfo, sfciState, equipment, requests,
                   cmds>>

OrchStep(o) == OrchSFC(o) \/ OrchAddSFCI(o) \/ OrchDelSFCI(o) \/ OrchEquipment(o)
-----------------------------------------------------------------------------
Next ==
    \/ \E s \in SFCs : RequestHandler(s)
    \/ \E effect \in [Orch -> Effects] : CommandHandler(effect)
    \/ \E o \in Orch : CommandReplyHandler(o) \/ OrchStep(o)

Spec == Init /\ [][Next]_vars
-----------------------------------------------------------------------------
(***************************************************************************)
(* Properties                                                              *)
(***************************************************************************)
\* Every pod is given to exactly one orchestrator, and the shares differ by one
\* pod at most; they are computed once, at the start (splitInteger,
\* _computeOrchInstanceInfoList).
PodsArePartitioned ==
    requests = 0 /\ cmds = 0 =>
        /\ \A pod \in 0..(podNum - 1) : \E o \in Orch :
              /\ pod \in minPodIdx(o)..maxPodIdx(o)
              /\ \A p \in Orch \ {o} : pod \notin minPodIdx(p)..maxPodIdx(p)
        /\ \A o \in Orch : minPodIdx(o) \in 0..maxPodIdx(o) /\ maxPodIdx(o) < podNum
        /\ \A o, p \in Orch : maxPodIdx(o) - minPodIdx(o) <= maxPodIdx(p) - minPodIdx(p) + 1

\* An SFC belongs to one orchestrator at a time, also when it migrates
\* (_requestHandler).
OneOrchestratorPerSFC == \A s \in SFCs : Cardinality(OrchsOfSFC(s)) <= 1

\* As long as all orchestrators are fit, SFCs are spread evenly over them
\* (selectOrchInRoundRobin).
RoundRobinBalances ==
    cmds = 0 => \A o, p \in Orch : Cardinality(sfcDict[o]) <= Cardinality(sfcDict[p]) + 1

\* When nothing is under way the dispatcher knows whether the equipment of an
\* orchestrator is in a valid state, whatever order failures and resumptions were
\* reported in; also when answers were lost, if a later one came through.  Not if the
\* orchestrator missed a command, and it is not told when no link is left
\* (_commandHandler, _commandReplyHandler, computeRuntimeState).
RuntimeStateSettles ==
    \A o \in Orch :
        /\ rplyQueue[o] = <<>>
        /\ \A k \in DOMAIN orchQueue[o] : orchQueue[o][k].type # "EQUIPMENT"
        /\ equipment[o] # "noLinks"
        /\ missing[o] = "nothing"
        => runtimeState[o] = (equipment[o] = "valid")

\* A command leaves the table with its answer.  Those that an orchestrator has no
\* reason to answer, and those lost on the way there or back, stay in the table for
\* ever (_commandHandler, addCmd).
OnlyUnansweredRemain ==
    \A entry \in commandsInfo :
        LET o == entry[2]
        IN  \/ entry \in unanswered
            \/ \E k \in DOMAIN orchQueue[o] :
                  orchQueue[o][k].type = "EQUIPMENT" /\ orchQueue[o][k].id = entry[1]
            \/ \E k \in DOMAIN rplyQueue[o] : rplyQueue[o][k].id = entry[1]
=============================================================================
