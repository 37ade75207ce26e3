-------------------------- MODULE CommandMaintainer --------------------------
(***************************************************************************)
(* base/commandMaintainer.py: the table a component keeps of the commands  *)
(* it has issued or is working on.  The table `_commandsInfo' is a Python  *)
(* dictionary, here a function `info' from the identifiers of the known    *)
(* commands to their entries.  Every method is an operator: a method that  *)
(* changes the table takes the old table and returns the new one.  A       *)
(* method that indexes the dictionary raises KeyError on an identifier     *)
(* that is not in it; callers guard such a use by membership in the        *)
(* DOMAIN and model the exception by an action of their own.               *)
(***************************************************************************)
CONSTANT None    \* Python's None

\* The states of a command (base/command.py).
CMD_STATE_WAITING    == "CMD_STATE_WAITING"
CMD_STATE_PROCESSING == "CMD_STATE_PROCESSING"
CMD_STATE_SUCCESSFUL == "CMD_STATE_SUCCESSFUL"
CMD_STATE_FAIL       == "CMD_STATE_FAIL"
CmdState == {CMD_STATE_WAITING, CMD_STATE_PROCESSING,
             CMD_STATE_SUCCESSFUL, CMD_STATE_FAIL}

NoCommands == [id \in {} |-> None]
-----------------------------------------------------------------------------
\* The entry of a command: `children' maps the name of a child command to its
\* identifier.
CmdEntry(cmd, state, parent, children) ==
    [cmd         |-> cmd,
     state       |-> state,
     cmdReply    |-> None,
     parentCmdID |-> parent,
     childCmdID  |-> children]

addCmd(info, cmdID, cmd) ==
    [id \in DOMAIN info \cup {cmdID} |->
        IF id = cmdID
        THEN CmdEntry(cmd, CMD_STATE_WAITING, None, NoCommands)
        ELSE info[id]]

hasCmd(info, cmdID) == cmdID \in DOMAIN info

ChildCmdIDs(info, cmdID) ==
    {info[cmdID].childCmdID[name] : name \in DOMAIN info[cmdID].childCmdID}

delCmdwithChildCmd(info, cmdID) ==
    [id \in DOMAIN info \ (ChildCmdIDs(info, cmdID) \cup {cmdID}) |-> info[id]]

changeCmdState(info, cmdID, state) ==
    [info EXCEPT ![cmdID].state = state]

transitCmdState(info, cmdID, statePrev, stateNext) ==
    IF hasCmd(info, cmdID) /\ info[cmdID].state = statePrev
    THEN [info EXCEPT ![cmdID].state = stateNext]
    ELSE info

addCmdRply(info, cmdID, cmdRply) ==
    [info EXCEPT ![cmdID].cmdReply = cmdRply]

isChildCmdHasCmdRply(info, cmdID) == info[cmdID].cmdReply # None

getChildCmdState(info, cmdID, name) == info[info[cmdID].childCmdID[name]].state
-----------------------------------------------------------------------------
\* The questions the mediator asks about the children of a command.
ChildrenIn(info, cmdID, states) ==
    {id \in ChildCmdIDs(info, cmdID) : info[id].state \in states}

\* Wrong variant: a child that was never sent counts as done.
isNoChildCmdProcessing(info, cmdID) ==
    ChildrenIn(info, cmdID, {CMD_STATE_PROCESSING, CMD_STATE_FAIL}) = {}

isParentCmdSuccessful(info, cmdID) ==
    ChildCmdIDs(info, cmdID) = ChildrenIn(info, cmdID, {CMD_STATE_SUCCESSFUL})

isParentCmdFailed(info, cmdID) ==
    ChildrenIn(info, cmdID, {CMD_STATE_FAIL}) # {}

\* The code counts the failed children and compares the count with 1.
isOnlyOneChildCmdFailed(info, cmdID) ==
    \E id \in ChildCmdIDs(info, cmdID) :
        ChildrenIn(info, cmdID, {CMD_STATE_FAIL}) = {id}

isAllChildCmdDetermined(info, cmdID) ==
    ChildrenIn(info, cmdID, {CMD_STATE_WAITING, CMD_STATE_PROCESSING}) = {}

isParentCmdWaiting(info, cmdID) ==
    ChildrenIn(info, cmdID, {CMD_STATE_WAITING}) # {}
=============================================================================
