----------------------- MODULE OrchInfoBaseMaintainer -----------------------
(***************************************************************************)
(* orchestration/orchInfoBaseMaintainer.py: the MySQL tables the           *)
(* orchestrators, the regulator and the dispatcher share.  A table is a    *)
(* function from the keys of its rows to the rows, None where there is no  *)
(* row; the tables together are a record `db'.  Of a row the model keeps   *)
(* the columns some decision reads.  A method that writes is an operator   *)
(* from the old tables to the new ones.                                    *)
(*                                                                         *)
(* An SFCI is a pair whose first component is the SFC it belongs to.       *)
(***************************************************************************)
EXTENDS CommandMaintainer, Naturals

REQUEST_STATE_INITIAL       == "REQUEST_STATE_INITIAL"
REQUEST_STATE_IN_PROCESSING == "REQUEST_STATE_IN_PROCESSING"
REQUEST_STATE_SUCCESSFUL    == "REQUEST_STATE_SUCCESSFUL"
REQUEST_STATE_FAILED        == "REQUEST_STATE_FAILED"
RequestState == {REQUEST_STATE_INITIAL, REQUEST_STATE_IN_PROCESSING,
                 REQUEST_STATE_SUCCESSFUL, REQUEST_STATE_FAILED}

STATE_IN_PROCESSING == "STATE_IN_PROCESSING"
STATE_INIT_FAILED   == "STATE_INIT_FAILED"
STATE_ACTIVE        == "STATE_ACTIVE"
STATE_INACTIVE      == "STATE_INACTIVE"
STATE_DELETED       == "STATE_DELETED"
STATE_UNDELETED     == "STATE_UNDELETED"
STATE_MANUAL        == "STATE_MANUAL"
STATE_RECOVER_MODE  == "STATE_RECOVER_MODE"
ResourceState == {STATE_IN_PROCESSING, STATE_INIT_FAILED, STATE_ACTIVE, STATE_INACTIVE,
                  STATE_DELETED, STATE_UNDELETED, STATE_MANUAL, STATE_RECOVER_MODE}
Absent == {STATE_DELETED, STATE_INIT_FAILED}
-----------------------------------------------------------------------------
(***************************************************************************)
(* Table Request                                                           *)
(***************************************************************************)
hasRequest(db, r) == db.Request[r] # None

addRequest(db, r, state, cmdID) ==
    IF hasRequest(db, r) THEN db
    ELSE [db EXCEPT !.Request[r] = [state |-> state, cmdID |-> cmdID, retryCnt |-> 0]]

\* Wrong variant: the row keeps the identifier of the first command.
updateRequestKeepingCmd(db, r, state, cmdID) ==
    [db EXCEPT !.Request[r].state = state,
               !.Request[r].cmdID = IF @ = None THEN cmdID ELSE @]

\* A column whose argument is None keeps its value.
updateRequest(db, r, state, cmdID) ==
    [db EXCEPT !.Request[r].state = state,
               !.Request[r].cmdID = IF cmdID = None THEN @ ELSE cmdID]

addCmdInfo2Request(db, r, state, cmdID) ==
    IF hasRequest(db, r) THEN updateRequest(db, r, state, cmdID)
                         ELSE addRequest(db, r, state, cmdID)

updateRequestState2DB(db, r, state) ==
    IF hasRequest(db, r) THEN [db EXCEPT !.Request[r].state = state]
                         ELSE addRequest(db, r, state, None)

incRequestRetryCnt(db, r) == [db EXCEPT !.Request[r].retryCnt = @ + 1]

\* getRequestByCmdID indexes the first row of the result: it raises if there is
\* none.
RequestsByCmdID(db, cmdID) ==
    {r \in DOMAIN db.Request : hasRequest(db, r) /\ db.Request[r].cmdID = cmdID}
-----------------------------------------------------------------------------
(***************************************************************************)
(* Tables SFC and SFCI                                                     *)
(***************************************************************************)
hasSFC(db, s)  == db.SFC[s] # None
hasSFCI(db, i) == db.SFCI[i] # None

\* An UPDATE without a matching row changes nothing.
updateSFCState(db, s, state) ==
    IF hasSFC(db, s) THEN [db EXCEPT !.SFC[s].state = state] ELSE db

updateSFCIState(db, i, state) ==
    IF hasSFCI(db, i) THEN [db EXCEPT !.SFCI[i].state = state] ELSE db

\* Wrong variant: an SFC that is added again starts with an empty list.
addSFC2DBWithEmptyList(db, s, state) ==
    [db EXCEPT !.SFC[s] = [state |-> state, sfciIDList |-> {}]]

\* updateSFC2DB is called without a list and keeps the one in the row.
addSFC2DB(db, s, state) ==
    IF hasSFC(db, s) THEN updateSFCState(db, s, state)
    ELSE [db EXCEPT !.SFC[s] = [state |-> state, sfciIDList |-> {}]]

addSFCI2SFCInDB(db, i) == [db EXCEPT !.SFC[i[1]].sfciIDList = @ \cup {i}]

isAddSFCValidState(db, s)  == hasSFC(db, s) => db.SFC[s].state \in Absent
isAddSFCIValidState(db, i) == hasSFCI(db, i) => db.SFCI[i].state \in Absent

isDelSFCIValidState(db, i) ==
    /\ hasSFCI(db, i)
    /\ db.SFCI[i].state \in {STATE_INACTIVE, STATE_ACTIVE, STATE_UNDELETED}

isDelSFCValidState(db, s) ==
    /\ hasSFC(db, s)
    /\ db.SFC[s].state \in {STATE_MANUAL, STATE_RECOVER_MODE}
    /\ \A i \in db.SFC[s].sfciIDList :
          hasSFCI(db, i) /\ db.SFCI[i].state \in Absent
-----------------------------------------------------------------------------
(***************************************************************************)
(* What the orchestrator writes when it has dealt with a request.          *)
(***************************************************************************)
addSFCRequestHandler(db, r, s, cmdID, reqState, sfcState) ==
    addSFC2DB(addCmdInfo2Request(db, r, reqState, cmdID), s, sfcState)

\* With a command: the state of the SFCI is read again here.
addSFCIRequestHandler(db, r, i, cmdID, reqState) ==
    IF isAddSFCIValidState(db, i)
    THEN addCmdInfo2Request([db EXCEPT !.SFCI[i] = [state |-> STATE_IN_PROCESSING]],
                            r, reqState, cmdID)
    ELSE addCmdInfo2Request(db, r, REQUEST_STATE_FAILED, cmdID)

\* Without a command: no path was found.  A row the SFCI already has is marked
\* whatever its state is.
addSFCIRequestHandlerNoCmd(db, r, i) ==
    updateSFCIState(addCmdInfo2Request(db, r, REQUEST_STATE_FAILED, None),
                    i, STATE_INIT_FAILED)

delSFCIRequestHandler(db, r, i, cmdID, reqState, sfciState) ==
    updateSFCIState(addCmdInfo2Request(db, r, reqState, cmdID), i, sfciState)

delSFCRequestHandler(db, r, s, cmdID, reqState, sfcState) ==
    LET requestDone == addCmdInfo2Request(db, r, reqState, cmdID)
    IN  IF sfcState = STATE_IN_PROCESSING THEN updateSFCState(requestDone, s, sfcState)
                                          ELSE requestDone

\* Wrong variant: a failed deletion counts as a deletion.
ResourceStateIgnoringFailure(requestType, cmdState) ==
    CASE requestType \in {"ADD_SFC", "ADD_SFCI"} ->
            IF cmdState = CMD_STATE_SUCCESSFUL THEN STATE_ACTIVE ELSE STATE_INIT_FAILED
      [] requestType \in {"DEL_SFC", "DEL_SFCI"} -> STATE_DELETED

\* _genRequestSFCAndSFCIState
RequestStateAfter(cmdState) ==
    IF cmdState = CMD_STATE_SUCCESSFUL THEN REQUEST_STATE_SUCCESSFUL
                                       ELSE REQUEST_STATE_FAILED

ResourceStateAfter(requestType, cmdState) ==
    CASE requestType \in {"ADD_SFC", "ADD_SFCI"} ->
            IF cmdState = CMD_STATE_SUCCESSFUL THEN STATE_ACTIVE ELSE STATE_INIT_FAILED
      [] requestType \in {"DEL_SFC", "DEL_SFCI"} ->
            IF cmdState = CMD_STATE_SUCCESSFUL THEN STATE_DELETED ELSE STATE_UNDELETED

\* _addSFCI2SFCInDB indexes the row of the SFC: if there is none it raises and
\* the state of the SFCI is not written.
CmdRplyRaises(db, request) == request.type = "ADD_SFCI" /\ ~hasSFC(db, request.sfc)

cmdRplyHandler(db, r, request, cmdState) ==
    LET requestDone == updateRequestState2DB(db, r, RequestStateAfter(cmdState))
        state       == ResourceStateAfter(request.type, cmdState)
    IN  CASE request.type \in {"ADD_SFC", "DEL_SFC"} ->
                updateSFCState(requestDone, request.sfc, state)
          [] request.type = "DEL_SFCI" ->
                updateSFCIState(requestDone, request.sfci, state)
          [] request.type = "ADD_SFCI" ->
                IF CmdRplyRaises(db, request) THEN requestDone
                ELSE updateSFCIState(addSFCI2SFCInDB(requestDone, request.sfci),
                                     request.sfci, state)
=============================================================================
