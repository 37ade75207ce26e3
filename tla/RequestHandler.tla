---------------------------- MODULE RequestHandler ----------------------------
(***************************************************************************)
(* regulator/requestHandler.py: what users ask of the regulator.  A        *)
(* request whose time has not come waits in _taskDict and is handled again *)
(* in every pass of the regulator's loop.                                  *)
(*                                                                         *)
(* The states of the SFC and its SFCIs change meanwhile: the orchestrator  *)
(* carries out what was sent to it (see module Orchestrator), and a        *)
(* failure puts the SFC into recovery mode (see module Recovery).          *)
(***************************************************************************)
EXTENDS OrchInfoBaseMaintainer, Sequences, SequencesExt

CONSTANTS
    NumSFCIs,                 \* SFCIs of the one SFC
    NumRequests,              \* bound: requests the users send
    Types,                    \* their types
    REQUEST_WAITING_TIMEOUT,  \* in ticks of the clock
    LoopTime,                 \* bound: ticks between two passes of the loop
    FailureMayHappen          \* whether the SFC may go into recovery mode

theSFC == 1
SFCIs  == {theSFC} \X (1..NumSFCIs)
IDs    == 1..NumRequests

REQUEST_STATE_REJECT == "REQUEST_STATE_REJECT"

\* The keys of _taskDict.
RequestTypes == {"UPDATE_SFC_STATE", "ADD_SFC", "ADD_SFCI", "DEL_SFCI", "DEL_SFC"}

ASSUME RequestHandlerAssumption ==
    /\ NumSFCIs \in Nat /\ NumRequests \in Nat /\ LoopTime \in Nat
    /\ REQUEST_WAITING_TIMEOUT \in Nat
    /\ Types \subseteq RequestTypes
    /\ FailureMayHappen \in BOOLEAN

VARIABLES
    db,           \* tables Request, SFC and SFCI
    requests,     \* the requests the users have sent
    queue,        \* those on their way to the regulator
    taskDict,     \* those that wait
    age,          \* how long ago the timestamp of a request was taken
    todo,         \* the rest of a pass of processAllRequestTask
    ticks,        \* since the last pass
    orchQueue,    \* requests sent to the dispatcher
    inMediator,   \* requests whose command is being carried out
    ends          \* what became of each request, in order: "sent", "applied", "rejected"

handlerVars == <<queue, taskDict, age, todo, ticks>>
orchVars    == <<orchQueue, inMediator>>
vars == <<db, requests, handlerVars, orchVars, ends>>

Init ==
    /\ \E row \in {None, [state |-> STATE_ACTIVE, sfciIDList |-> SFCIs]} :
          db = [Request |-> [r \in IDs |-> None],
                SFC     |-> (theSFC :> row),
                SFCI    |-> [i \in SFCIs |-> IF row = None THEN None ELSE [state |-> STATE_ACTIVE]]]
    /\ requests = <<>> /\ queue = <<>>
    /\ taskDict = {} /\ age = [r \in IDs |-> 0]
    /\ todo = {} /\ ticks = 0
    /\ orchQueue = <<>> /\ inMediator = {}
    /\ ends = [r \in IDs |-> <<>>]

SFCState == IF hasSFC(db, theSFC) THEN db.SFC[theSFC].state ELSE None

request(type, i, newState) == [type |-> type, sfc |-> theSFC, sfci |-> i, newState |-> newState]

UserRequests ==
    {request("UPDATE_SFC_STATE", None, state) : state \in {STATE_ACTIVE, STATE_MANUAL}}
    \cup {request(type, None, None) : type \in {"ADD_SFC", "DEL_SFC"}}
    \cup {request(type, i, None) : type \in {"ADD_SFCI", "DEL_SFCI"}, i \in SFCIs}

SendRequest(req) ==
    /\ Len(requests) < NumRequests
    /\ req.type \in Types
    /\ requests' = Append(requests, req)
    /\ queue' = Append(queue, Len(requests) + 1)
    /\ UNCHANGED <<db, taskDict, age, todo, ticks, orchVars, ends>>
-----------------------------------------------------------------------------
(***************************************************************************)
(* handle                                                                  *)
(***************************************************************************)
IsWaiting(r) == r \in taskDict
End(r, how)  == ends' = [ends EXCEPT ![r] = Append(@, how)]

\* The request waits, with a new timestamp each time.
Wait(r) ==
    /\ taskDict' = taskDict \cup {r}
    /\ age' = [age EXCEPT ![r] = 0]
    /\ UNCHANGED <<db, orchVars, ends>>

Forget(r) == taskDict' = taskDict \ {r} /\ UNCHANGED age

isSFCStateAlreadyTransed(newState) == SFCState = newState
isValidToTransSFCState(newState)   == <<SFCState, newState>> \in {<<STATE_ACTIVE, STATE_MANUAL>>,
                                                                  <<STATE_MANUAL, STATE_ACTIVE>>}

\* A request for the state the SFC is in is rejected but, if it waits, goes on
\* waiting.
HandleUpdateSFCState(r) ==
    LET newState == requests[r].newState
    IN  /\ requests[r].type = "UPDATE_SFC_STATE"
        /\ \/ /\ isSFCStateAlreadyTransed(newState)
              /\ db' = updateRequestState2DB(db, r, REQUEST_STATE_REJECT)
              /\ IF "rejected" \in ToSet(ends[r]) THEN UNCHANGED ends ELSE End(r, "rejected")
              /\ UNCHANGED <<taskDict, age, orchVars>>
           \/ /\ isValidToTransSFCState(newState)
              /\ db' = updateSFCState(db, theSFC, newState)
              /\ Forget(r)
              /\ End(r, "applied")
              /\ UNCHANGED orchVars
           \/ /\ ~isSFCStateAlreadyTransed(newState) /\ ~isValidToTransSFCState(newState)
              /\ Wait(r)

\* When a request may be sent to the dispatcher.
IsValidNow(req) ==
    CASE req.type = "ADD_SFC"  -> isAddSFCValidState(db, theSFC)
      [] req.type = "DEL_SFC"  -> isDelSFCValidState(db, theSFC)
      [] req.type = "DEL_SFCI" -> SFCState = STATE_MANUAL /\ isDelSFCIValidState(db, req.sfci)
      [] OTHER                 -> FALSE

\* Wrong variant: a request that waited is sent and goes on waiting.
HandleAndSendKeeps(r) ==
    /\ requests[r].type \in {"ADD_SFC", "DEL_SFCI", "DEL_SFC"}
    /\ \/ /\ IsValidNow(requests[r])
          /\ orchQueue' = Append(orchQueue, r)
          /\ End(r, "sent")
          /\ UNCHANGED <<db, inMediator, taskDict, age>>
       \/ ~IsValidNow(requests[r]) /\ Wait(r)

HandleAndSend(r) ==
    /\ requests[r].type \in {"ADD_SFC", "DEL_SFCI", "DEL_SFC"}
    /\ \/ /\ IsValidNow(requests[r])
          /\ orchQueue' = Append(orchQueue, r)
          /\ Forget(r)
          /\ End(r, "sent")
          /\ UNCHANGED <<db, inMediator>>
       \/ ~IsValidNow(requests[r]) /\ Wait(r)

\* For an ADD_SFCI the state of the SFC is not read before it is used: handle raises.
HandleAddSFCI(r) ==
    /\ requests[r].type = "ADD_SFCI"
    /\ UNCHANGED <<db, taskDict, age, orchVars, ends>>

handle(r) == HandleUpdateSFCState(r) \/ HandleAndSend(r) \/ HandleAddSFCI(r)

\* msgHandlerRoutine takes one message in each pass of the loop.
GetMsg ==
    /\ todo = {}
    /\ queue # <<>>
    /\ queue' = Tail(queue)
    /\ handle(Head(queue))
    /\ UNCHANGED <<requests, todo, ticks>>
-----------------------------------------------------------------------------
(***************************************************************************)
(* processAllRequestTask                                                   *)
(***************************************************************************)
\* Wrong variant: only the requests of one type are handled again.
StartPassOneType ==
    /\ todo = {}
    /\ todo' = {r \in taskDict : requests[r].type = "UPDATE_SFC_STATE"}
    /\ ticks' = 0
    /\ UNCHANGED <<db, requests, queue, taskDict, age, orchVars, ends>>

StartPass ==
    /\ todo = {}
    /\ todo' = taskDict
    /\ ticks' = 0
    /\ UNCHANGED <<db, requests, queue, taskDict, age, orchVars, ends>>

IsTooOld(r) == age[r] > REQUEST_WAITING_TIMEOUT

\* In the order of the dictionaries, which Python 2.7 leaves open.
PassStep ==
    \E r \in todo :
        /\ todo' = todo \ {r}
        /\ \/ /\ IsTooOld(r)
              /\ db' = updateRequestState2DB(db, r, REQUEST_STATE_REJECT)
              /\ Forget(r)
              /\ End(r, "rejected")
              /\ UNCHANGED orchVars
           \/ ~IsTooOld(r) /\ handle(r)
        /\ UNCHANGED <<requests, queue, ticks>>

\* Time passes for the requests that wait.
Tick ==
    /\ ticks < LoopTime
    /\ ticks' = ticks + 1
    /\ age' = [r \in IDs |-> IF IsWaiting(r) /\ ~IsTooOld(r) THEN age[r] + 1 ELSE age[r]]
    /\ UNCHANGED <<db, requests, queue, taskDict, todo, orchVars, ends>>
-----------------------------------------------------------------------------
(***************************************************************************)
(* The orchestrator, the mediator and recovery                             *)
(***************************************************************************)
OrchTakes ==
    /\ orchQueue # <<>>
    /\ orchQueue' = Tail(orchQueue)
    /\ LET r   == Head(orchQueue)
           req == requests[r]
           IsValid == CASE req.type = "ADD_SFC"  -> isAddSFCValidState(db, theSFC)
                        [] req.type = "DEL_SFC"  -> isDelSFCValidState(db, theSFC)
                        [] req.type = "DEL_SFCI" -> isDelSFCIValidState(db, req.sfci)
           Write(reqState, sent, notSent) ==
               CASE req.type = "ADD_SFC"  -> addSFCRequestHandler(db, r, theSFC, r, reqState,
                                                 IF IsValid THEN sent ELSE STATE_INIT_FAILED)
                 [] req.type = "DEL_SFC"  -> delSFCRequestHandler(db, r, theSFC, r, reqState,
                                                 IF IsValid THEN sent ELSE notSent)
                 [] req.type = "DEL_SFCI" -> delSFCIRequestHandler(db, r, req.sfci, r, reqState,
                                                 IF IsValid THEN sent ELSE notSent)
       IN  /\ db' = Write(IF IsValid THEN REQUEST_STATE_IN_PROCESSING ELSE REQUEST_STATE_FAILED,
                          STATE_IN_PROCESSING, STATE_UNDELETED)
           /\ inMediator' = IF IsValid THEN inMediator \cup {r} ELSE inMediator
    /\ UNCHANGED <<requests, handlerVars, ends>>

OrchReplies(r, cmdState) ==
    /\ r \in inMediator
    /\ inMediator' = inMediator \ {r}
    /\ db' = cmdRplyHandler(db, r, requests[r], cmdState)
    /\ UNCHANGED <<requests, handlerVars, orchQueue, ends>>

\* updateSFCIAndSFCState2RecoveryMode; nothing takes the SFC out of recovery mode again.
Failure ==
    /\ FailureMayHappen
    /\ SFCState = STATE_ACTIVE
    /\ db' = updateSFCState(db, theSFC, STATE_RECOVER_MODE)
    /\ UNCHANGED <<requests, handlerVars, orchVars, ends>>
-----------------------------------------------------------------------------
Next ==
    \/ \E req \in UserRequests : SendRequest(req)
    \/ GetMsg \/ StartPass \/ PassStep \/ Tick
    \/ OrchTakes
    \/ \E r \in IDs, cmdState \in {CMD_STATE_SUCCESSFUL, CMD_STATE_FAIL} : OrchReplies(r, cmdState)
    \/ Failure

Spec == Init /\ [][Next]_vars

\* The clock, the regulator, the orchestrator and the mediator go on.
FairSpec ==
    /\ Spec
    /\ WF_vars(GetMsg) /\ WF_vars(StartPass) /\ WF_vars(PassStep) /\ WF_vars(Tick)
    /\ WF_vars(OrchTakes)
    /\ WF_vars(\E r \in IDs, cmdState \in {CMD_STATE_SUCCESSFUL, CMD_STATE_FAIL} :
                   OrchReplies(r, cmdState))
-----------------------------------------------------------------------------
(***************************************************************************)
(* Properties                                                              *)
(***************************************************************************)
IsHandled(r) == r \in DOMAIN requests /\ ~Contains(queue, r)

\* Each request is sent to the dispatcher at most once, however often it is handled
\* (handle, processAllRequestTask).
SentAtMostOnce ==
    \A r \in IDs : \A m, n \in DOMAIN ends[r] :
        ends[r][m] = "sent" /\ ends[r][n] = "sent" => m = n

\* None is forgotten: a request that was handled and does not wait was sent, applied
\* or rejected (handle, processAllRequestTask).  An ADD_SFCI is the exception: handle
\* raises on the attribute it reads, and the request is gone.
NoneForgotten ==
    \A r \in IDs :
        (IsHandled(r) /\ requests[r].type # "ADD_SFCI" /\ ~IsWaiting(r)) => ends[r] # <<>>

\* A request leaves the regulator once, and not without a trace, however many passes
\* it waits for and whatever becomes of its SFC meanwhile (handle,
\* processAllRequestTask).
LeavesOnce == SentAtMostOnce /\ NoneForgotten

\* A deletion or an ADD_SFC that waits, and from some time on has nothing to wait for,
\* is sent, unless a pass found its timestamp too old: processAllRequestTask looks at
\* the time first and rejects such a request though it could be sent (handle,
\* processAllRequestTask).
ServedWhenValid ==
    \A r \in IDs :
        (IsWaiting(r) /\ requests[r].type # "UPDATE_SFC_STATE")
            ~> /\ r \in DOMAIN requests
               /\ \/ "sent" \in ToSet(ends[r])
                  \/ "rejected" \in ToSet(ends[r]) /\ IsTooOld(r)
                  \/ ~IsValidNow(requests[r])
=============================================================================
