------------------------------ MODULE Mediator ------------------------------
(***************************************************************************)
(* mediator/mediator.py: the mediator takes a command off MEDIATOR_QUEUE,  *)
(* splits it into one child command per controller that has to act, sends  *)
(* the children to the controllers' queues, collects the controllers'      *)
(* replies from the same MEDIATOR_QUEUE and answers the component the      *)
(* command came from.                                                      *)
(*                                                                         *)
(* The mediator is one thread around one queue, so each handler is one     *)
(* step.  The controllers are processes of their own: each takes the       *)
(* commands of its queue in order, acts, and sends one reply per command.  *)
(* Queues are RabbitMQ queues: first in first out, a message is put into   *)
(* the consumer's memory before it is acknowledged, so that a connection   *)
(* lost in between delivers it again; a send that raises is swallowed by   *)
(* sendMsg, so that the message is lost.                                   *)
(***************************************************************************)
EXTENDS CommandMaintainer, Naturals, Sequences

CONSTANTS
    Cmds,             \* identifiers (uuid1) of the commands sent to the mediator
    Zones,            \* zones those commands may carry
    CmdTypes,         \* types those commands may have
    ClassifierType,   \* mode['classifierType']: "Server" or "Switch"
    Redeliverable,    \* kinds of messages the broker may deliver again
    MaxRedeliveries,  \* bound: redeliveries in one behaviour
    MaxLosses         \* bound: messages lost in one behaviour

\* Child commands are named after the controller they are for.
SIMULATOR      == "SIMULATOR_CMD"
CLASSIFIER     == "CLASSIFIER_CONTROLLER_CMD"
NETWORK        == "NETWORK_CONTROLLER_CMD"
SFF            == "SFF_CONTROLLER_CMD"
P4             == "P4CONTROLLER_CMD"
VNF            == "VNF_CONTROLLER_CMD"
SERVER_MANAGER == "SERVER_MANAGER_CMD"
Controller     == {SIMULATOR, CLASSIFIER, NETWORK, SFF, P4, VNF, SERVER_MANAGER}

AllZones    == {"SIMULATOR_ZONE", "TURBONET_ZONE", "PUFFER_ZONE", "UNKNOWN_ZONE"}
SFCCmdTypes == {"ADD_SFC", "ADD_SFCI", "DEL_SFCI", "DEL_SFC"}
AllCmdTypes == SFCCmdTypes \cup
               {"GET_SERVER_SET", "GET_TOPOLOGY", "GET_SFCI_STATE", "UNKNOWN_TYPE"}

\* A command, reduced to the two fields the mediator branches on.
Command == [cmdType : CmdTypes, zone : Zones]

\* The k-th time command p is taken from the queue, its child for controller n
\* gets the fresh identifier <<p, n, k>> (uuid1 in the code).
ChildID == Cmds \X Controller \X Nat

Determined  == {CMD_STATE_SUCCESSFUL, CMD_STATE_FAIL}
CmdMsg      == [type : {"cmd"}, cmdID : Cmds]
RplyMsg     == [type : {"rply"}, cmdID : ChildID, cmdState : Determined]
MediatorMsg == CmdMsg \cup RplyMsg

ASSUME MediatorAssumption ==
    /\ Zones \subseteq AllZones
    /\ CmdTypes \subseteq AllCmdTypes
    /\ ClassifierType \in {"Server", "Switch"}
    /\ Redeliverable \subseteq {"cmd", "childCmd", "rply"}
    /\ MaxRedeliveries \in Nat
    /\ MaxLosses \in Nat
    /\ \A p \in Cmds : p \notin ChildID
    /\ None \notin Cmds \cup ChildID
    /\ None \notin Command
    /\ None \notin RplyMsg

VARIABLES
    commandsInfo,     \* Mediator._cm._commandsInfo
    mediatorQueue,    \* MEDIATOR_QUEUE
    controllerQueue,  \* the controllers' queues, one per controller and zone
    issued,           \* the command sent under each identifier, None before
    handled,          \* how often each command was taken from the queue
    rplyLog,          \* replies sent to the queue named by cmd.attributes['source']
    outcomes,         \* history: what the controllers did, child by child
    redeliveries,     \* number of redeliveries so far
    losses            \* number of lost messages so far

vars == <<commandsInfo, mediatorQueue, controllerQueue, issued, handled,
          rplyLog, outcomes, redeliveries, losses>>
-----------------------------------------------------------------------------
(***************************************************************************)
(* Which controllers a command concerns.                                   *)
(***************************************************************************)
Classifiers == IF ClassifierType = "Server" THEN {CLASSIFIER} ELSE {}

\* Wrong variant: the VNF child of ADD_SFCI is sent along with the others.
TurbonetTargetsAllAtOnce(cmdType) ==
    CASE cmdType \in {"ADD_SFC", "DEL_SFC"}   -> {P4}
      [] cmdType \in {"ADD_SFCI", "DEL_SFCI"} -> {SFF, P4, VNF}
      [] OTHER                                -> {}

\* _processCmdInTurbonetZone: the children sent at once.
TurbonetTargets(cmdType) ==
    CASE cmdType \in {"ADD_SFC", "DEL_SFC"} -> {P4}
      [] cmdType = "ADD_SFCI"               -> {SFF, P4}
      [] cmdType = "DEL_SFCI"               -> {SFF, P4, VNF}
      [] OTHER                              -> {}

\* _processCmdInPufferZone: the children sent at once.
PufferTargets(cmdType) ==
    CASE cmdType \in {"ADD_SFC", "DEL_SFC"} -> Classifiers \cup {NETWORK}
      [] cmdType = "ADD_SFCI"               -> Classifiers \cup {SFF, NETWORK}
      [] cmdType = "DEL_SFCI"               -> Classifiers \cup {SFF, NETWORK, VNF}
      [] cmdType = "GET_SERVER_SET"         -> {SERVER_MANAGER}
      [] cmdType = "GET_TOPOLOGY"           -> {NETWORK}
      [] cmdType = "GET_SFCI_STATE"         -> {SFF}
      [] OTHER                              -> {}

\* _commandHandler's choice by zone.
ForwardedTo(cmd) ==
    CASE cmd.zone = "SIMULATOR_ZONE" -> {SIMULATOR}
      [] cmd.zone = "TURBONET_ZONE"  -> TurbonetTargets(cmd.cmdType)
      [] cmd.zone = "PUFFER_ZONE"    -> PufferTargets(cmd.cmdType)
      [] OTHER                       -> {}

\* The child that is prepared and kept back until the SFF controller has
\* installed its entry.
PreparedFor(cmd) ==
    IF cmd.cmdType = "ADD_SFCI" /\ cmd.zone \in {"TURBONET_ZONE", "PUFFER_ZONE"}
    THEN {VNF} ELSE {}

Children(cmd) == ForwardedTo(cmd) \cup PreparedFor(cmd)

\* What a controller may answer: the P4 controller accepts ADD_SFC and DEL_SFC
\* without doing anything, the SFF controller serves GET_SFCI_STATE over gRPC
\* only and refuses it on its queue, GET_TOPOLOGY cannot fail, and the server
\* manager listens to gRPC only: a child in its queue is never taken.
Outcome(n, cmd) ==
    CASE n = P4 /\ cmd.cmdType \in {"ADD_SFC", "DEL_SFC"}       -> {CMD_STATE_SUCCESSFUL}
      [] n = SFF /\ cmd.cmdType = "GET_SFCI_STATE"              -> {CMD_STATE_FAIL}
      [] n = SERVER_MANAGER                                     -> {}
      [] n = NETWORK /\ cmd.cmdType = "GET_TOPOLOGY"            -> {CMD_STATE_SUCCESSFUL}
      [] OTHER                                                  -> Determined

\* attributes['source'] of a controller's reply, None where it sets none.
RplySource(n) ==
    CASE n = SFF        -> "sffController"
      [] n = CLASSIFIER -> "classifierController"
      [] n = NETWORK    -> "ryu"
      [] n = SIMULATOR  -> "simulator"
      [] OTHER          -> None
-----------------------------------------------------------------------------
Init ==
    /\ commandsInfo = NoCommands
    /\ mediatorQueue = <<>>
    /\ controllerQueue = [q \in Controller \X Zones |-> <<>>]
    /\ issued = [p \in Cmds |-> None]
    /\ handled = [p \in Cmds |-> 0]
    /\ rplyLog = [p \in Cmds |-> <<>>]
    /\ outcomes = {}
    /\ redeliveries = 0
    /\ losses = 0

\* An orchestrator (or the measurer) puts a command under a fresh identifier on
\* MEDIATOR_QUEUE.
SendCmd(p, cmd) ==
    /\ issued[p] = None
    /\ issued' = [issued EXCEPT ![p] = cmd]
    /\ mediatorQueue' = Append(mediatorQueue, [type |-> "cmd", cmdID |-> p])
    /\ UNCHANGED <<commandsInfo, controllerQueue, handled, rplyLog, outcomes,
                   redeliveries, losses>>
-----------------------------------------------------------------------------
(***************************************************************************)
(* _commandHandler                                                         *)
(***************************************************************************)
\* The mediator's loop takes a message of the given type from its queue.
Take(type) ==
    /\ mediatorQueue # <<>>
    /\ Head(mediatorQueue).type = type
    /\ mediatorQueue' = Tail(mediatorQueue)

\* The table after the command and its children are registered: the forwarded
\* children and the command itself are PROCESSING, a prepared child is WAITING.
WithChildren(info, p, k, cmd) ==
    LET ids == {<<p, n, k>> : n \in Children(cmd)}
    IN  [id \in DOMAIN info \cup {p} \cup ids |->
            IF id = p
            THEN CmdEntry(cmd, CMD_STATE_PROCESSING, None,
                          [n \in Children(cmd) |-> <<p, n, k>>])
            ELSE IF id \in ids
            THEN CmdEntry(cmd,
                          IF id[2] \in ForwardedTo(cmd) THEN CMD_STATE_PROCESSING
                                                        ELSE CMD_STATE_WAITING,
                          p, NoCommands)
            ELSE info[id]]

\* A command some controller has to act on.
ForwardCmd ==
    /\ Take("cmd")
    /\ LET p   == Head(mediatorQueue).cmdID
           cmd == issued[p]
           k   == handled[p] + 1
       IN  /\ ForwardedTo(cmd) # {}
           /\ handled' = [handled EXCEPT ![p] = k]
           /\ commandsInfo' = WithChildren(commandsInfo, p, k, cmd)
           /\ controllerQueue' =
                [q \in Controller \X Zones |->
                    IF q[1] \in ForwardedTo(cmd) /\ q[2] = cmd.zone
                    THEN Append(controllerQueue[q], <<p, q[1], k>>)
                    ELSE controllerQueue[q]]
    /\ UNCHANGED <<issued, rplyLog, outcomes, redeliveries, losses>>

\* A command with an unknown zone stays in the table; one with an unknown type
\* is removed from it again.  Nobody is told in either case.
RejectCmd ==
    /\ Take("cmd")
    /\ LET p   == Head(mediatorQueue).cmdID
           cmd == issued[p]
       IN  /\ ForwardedTo(cmd) = {}
           /\ handled' = [handled EXCEPT ![p] = @ + 1]
           /\ commandsInfo' =
                LET added == addCmd(commandsInfo, p, cmd)
                IN  IF cmd.zone = "UNKNOWN_ZONE" THEN added
                    ELSE delCmdwithChildCmd(added, p)
    /\ UNCHANGED <<controllerQueue, issued, rplyLog, outcomes, redeliveries, losses>>
-----------------------------------------------------------------------------
(***************************************************************************)
(* _commandReplyHandler and _exeCmdStateAction                             *)
(***************************************************************************)
\* _getMixedAttributes asserts that two replies agree on a key both have.
MixedAttributesClash(info, p) ==
    \E c, d \in ChildCmdIDs(info, p) :
        /\ info[c].cmdReply # None /\ RplySource(c[2]) # None
        /\ info[d].cmdReply # None /\ RplySource(d[2]) # None
        /\ RplySource(c[2]) # RplySource(d[2])

\* Generating or sending the reply to the command's source raises: nothing is
\* sent and the rest of the handler is skipped.
RplyRaises(info, p) ==
    \/ MixedAttributesClash(info, p)
    \/ info[p].cmd.cmdType \notin SFCCmdTypes

\* Wrong variant: only a successful command is forgotten.
SettleIfSuccessful(info, p) ==
    IF isParentCmdSuccessful(info, p) THEN delCmdwithChildCmd(info, p) ELSE info

\* The last statement of _exeCmdStateAction.
Settle(info, p) ==
    IF isAllChildCmdDetermined(info, p) THEN delCmdwithChildCmd(info, p) ELSE info

\* The table once the reply m is recorded in the child's entry.
Recorded(m) ==
    addCmdRply(changeCmdState(commandsInfo, m.cmdID, m.cmdState), m.cmdID, m)

\* The child is in the table (otherwise KeyError) and not yet answered.
IsAwaited(c) == hasCmd(commandsInfo, c) /\ ~isChildCmdHasCmdRply(commandsInfo, c)

NewRply == Take("rply") /\ IsAwaited(Head(mediatorQueue).cmdID)

ParentOfRply == commandsInfo[Head(mediatorQueue).cmdID].parentCmdID

\* A reply without consequences: nobody awaits it, or the parent is no longer in
\* the table, so that the reply is recorded and reading the parent raises.
DropRply ==
    /\ Take("rply")
    /\ LET m == Head(mediatorQueue)
       IN  /\ IsAwaited(m.cmdID) => ~hasCmd(commandsInfo, ParentOfRply)
           /\ commandsInfo' = IF IsAwaited(m.cmdID) THEN Recorded(m) ELSE commandsInfo
    /\ UNCHANGED <<controllerQueue, issued, handled, rplyLog, outcomes,
                   redeliveries, losses>>

\* Wrong variant: the reply carries the state the parent had before.
ConcludeWithOldState(info, p, state) ==
    /\ commandsInfo' = Settle(changeCmdState(info, p, state), p)
    /\ rplyLog' = [rplyLog EXCEPT ![p] = Append(@, info[p].state)]

\* The parent's state becomes `state' and the reply is sent to its source,
\* unless that raises.
Conclude(info, p, state) ==
    LET concluded == changeCmdState(info, p, state)
    IN  IF RplyRaises(concluded, p)
        THEN /\ commandsInfo' = concluded
             /\ UNCHANGED rplyLog
        ELSE /\ commandsInfo' = Settle(concluded, p)
             /\ rplyLog' = [rplyLog EXCEPT ![p] = Append(@, state)]

\* The last child succeeded.
LastSuccess ==
    /\ NewRply
    /\ LET info == Recorded(Head(mediatorQueue))
           p    == ParentOfRply
       IN  /\ hasCmd(commandsInfo, p)
           /\ isParentCmdSuccessful(info, p)
           /\ Conclude(info, p, CMD_STATE_SUCCESSFUL)
    /\ UNCHANGED <<controllerQueue, issued, handled, outcomes, redeliveries, losses>>

\* Wrong variant: every failure is taken for the first one.
IsAnyFailure(info, m, p) == m.cmdState = CMD_STATE_FAIL

\* The first failure among the children.
IsFirstFailure(info, m, p) ==
    /\ isOnlyOneChildCmdFailed(info, p)
    /\ m.cmdState = CMD_STATE_FAIL

FirstFailure ==
    /\ NewRply
    /\ LET m    == Head(mediatorQueue)
           info == Recorded(m)
           p    == ParentOfRply
       IN  /\ hasCmd(commandsInfo, p)
           /\ ~isParentCmdSuccessful(info, p)
           /\ isParentCmdFailed(info, p)
           /\ IsFirstFailure(info, m, p)
           /\ Conclude(info, p, CMD_STATE_FAIL)
    /\ UNCHANGED <<controllerQueue, issued, handled, outcomes, redeliveries, losses>>

\* Wrong variants of the test below: the SFF controller's answer is not awaited,
\* or another type of command is meant.
ReleasesVNFWithoutSFF(info, p) ==
    /\ isParentCmdWaiting(info, p)
    /\ info[p].cmd.cmdType = "ADD_SFCI"
    /\ getChildCmdState(info, p, VNF) = CMD_STATE_WAITING
ReleasesVNFOfDel(info, p) ==
    /\ isParentCmdWaiting(info, p)
    /\ info[p].cmd.cmdType = "DEL_SFCI"
    /\ getChildCmdState(info, p, SFF) = CMD_STATE_SUCCESSFUL
    /\ getChildCmdState(info, p, VNF) = CMD_STATE_WAITING

\* _waitingParentCmdHandler: the prepared VNF child may go.
ReleasesVNF(info, p) ==
    /\ isParentCmdWaiting(info, p)
    /\ info[p].cmd.cmdType = "ADD_SFCI"
    /\ getChildCmdState(info, p, SFF) = CMD_STATE_SUCCESSFUL
    /\ getChildCmdState(info, p, VNF) = CMD_STATE_WAITING

\* Wrong variant of the action below: a failed command still releases its VNF
\* child when the SFF controller has succeeded.
AfterFailureReleasing ==
    /\ NewRply
    /\ LET m    == Head(mediatorQueue)
           info == Recorded(m)
           p    == ParentOfRply
           v    == info[p].childCmdID[VNF]
           q    == <<VNF, info[p].cmd.zone>>
       IN  /\ hasCmd(commandsInfo, p)
           /\ isParentCmdFailed(info, p)
           /\ ~IsFirstFailure(info, m, p)
           /\ ReleasesVNF(info, p)
           /\ commandsInfo' =
                transitCmdState(info, v, CMD_STATE_WAITING, CMD_STATE_PROCESSING)
           /\ controllerQueue' = [controllerQueue EXCEPT ![q] = Append(@, v)]
    /\ UNCHANGED <<issued, handled, rplyLog, outcomes, redeliveries, losses>>

\* The parent has already failed.
AfterFailure ==
    /\ NewRply
    /\ LET m    == Head(mediatorQueue)
           info == Recorded(m)
           p    == ParentOfRply
       IN  /\ hasCmd(commandsInfo, p)
           /\ ~isParentCmdSuccessful(info, p)
           /\ isParentCmdFailed(info, p)
           /\ ~IsFirstFailure(info, m, p)
           /\ commandsInfo' = Settle(info, p)
    /\ UNCHANGED <<controllerQueue, issued, handled, rplyLog, outcomes,
                   redeliveries, losses>>

\* A success that leaves the command undecided.
PartialSuccess ==
    /\ NewRply
    /\ LET info == Recorded(Head(mediatorQueue))
           p    == ParentOfRply
           v    == info[p].childCmdID[VNF]
           q    == <<VNF, info[p].cmd.zone>>
       IN  /\ hasCmd(commandsInfo, p)
           /\ ~isParentCmdSuccessful(info, p)
           /\ ~isParentCmdFailed(info, p)
           /\ IF ReleasesVNF(info, p)
              THEN /\ commandsInfo' =
                        transitCmdState(transitCmdState(info,
                            p, CMD_STATE_WAITING, CMD_STATE_PROCESSING),
                            v, CMD_STATE_WAITING, CMD_STATE_PROCESSING)
                   /\ controllerQueue' =
                        [controllerQueue EXCEPT ![q] = Append(@, v)]
              ELSE /\ commandsInfo' = Settle(info, p)
                   /\ UNCHANGED controllerQueue
    /\ UNCHANGED <<issued, handled, rplyLog, outcomes, redeliveries, losses>>

CommandReplyHandler ==
    \/ DropRply
    \/ LastSuccess
    \/ FirstFailure
    \/ AfterFailure
    \/ PartialSuccess

StartMediator == ForwardCmd \/ RejectCmd \/ CommandReplyHandler
-----------------------------------------------------------------------------
(***************************************************************************)
(* The controllers and the message queues.                                 *)
(***************************************************************************)
\* A controller takes the oldest command of its queue, acts and answers.
ControllerStep(q) ==
    /\ controllerQueue[q] # <<>>
    /\ LET c == Head(controllerQueue[q])
       IN  \E state \in Outcome(c[2], issued[c[1]]) :
               /\ outcomes' = outcomes \cup {<<c, state>>}
               /\ mediatorQueue' =
                    Append(mediatorQueue,
                           [type |-> "rply", cmdID |-> c, cmdState |-> state])
    /\ controllerQueue' = [controllerQueue EXCEPT ![q] = Tail(@)]
    /\ UNCHANGED <<commandsInfo, issued, handled, rplyLog, redeliveries, losses>>

\* The connection is lost between QueueReciever.callback's put and its
\* basic_ack: the broker delivers the message once more.
Redeliver ==
    /\ redeliveries < MaxRedeliveries
    /\ redeliveries' = redeliveries + 1
    /\ \/ /\ mediatorQueue # <<>>
          /\ Head(mediatorQueue).type \in Redeliverable
          /\ mediatorQueue' = <<Head(mediatorQueue)>> \o mediatorQueue
          /\ UNCHANGED controllerQueue
       \/ /\ "childCmd" \in Redeliverable
          /\ \E q \in Controller \X Zones :
                /\ controllerQueue[q] # <<>>
                /\ controllerQueue' =
                     [controllerQueue EXCEPT ![q] = <<Head(@)>> \o @]
          /\ UNCHANGED mediatorQueue
    /\ UNCHANGED <<commandsInfo, issued, handled, rplyLog, outcomes, losses>>

\* sendMsg raised and logged: the message never reaches its queue.
LoseMsg ==
    /\ losses < MaxLosses
    /\ losses' = losses + 1
    /\ \/ /\ mediatorQueue # <<>>
          /\ mediatorQueue' = Tail(mediatorQueue)
          /\ UNCHANGED controllerQueue
       \/ /\ \E q \in Controller \X Zones :
                /\ controllerQueue[q] # <<>>
                /\ controllerQueue' = [controllerQueue EXCEPT ![q] = Tail(@)]
          /\ UNCHANGED mediatorQueue
    /\ UNCHANGED <<commandsInfo, issued, handled, rplyLog, outcomes, redeliveries>>

Next ==
    \/ \E p \in Cmds, cmd \in Command : SendCmd(p, cmd)
    \/ StartMediator
    \/ \E q \in Controller \X Zones : ControllerStep(q)
    \/ Redeliver
    \/ LoseMsg

Spec == Init /\ [][Next]_vars

\* The mediator and every controller poll their queue for ever.
Fairness ==
    /\ WF_vars(StartMediator)
    /\ \A q \in Controller \X Zones : WF_vars(ControllerStep(q))

FairSpec == Spec /\ Fairness
-----------------------------------------------------------------------------
(***************************************************************************)
(* Properties                                                              *)
(***************************************************************************)
IsCmdEntry(e) ==
    /\ e \in [cmd         : Command,
              state       : CmdState,
              cmdReply    : RplyMsg \cup {None},
              parentCmdID : Cmds \cup {None},
              childCmdID  : {e.childCmdID}]
    /\ DOMAIN e.childCmdID \subseteq Controller
    /\ \A n \in DOMAIN e.childCmdID : e.childCmdID[n] \in ChildID

\* Every variable holds a value of its type; in particular the table only has
\* well-formed entries and the queues only identifiers of children.
TypeOK ==
    /\ DOMAIN commandsInfo \subseteq Cmds \cup ChildID
    /\ \A id \in DOMAIN commandsInfo : IsCmdEntry(commandsInfo[id])
    /\ mediatorQueue \in Seq(MediatorMsg)
    /\ controllerQueue \in [Controller \X Zones -> Seq(ChildID)]
    /\ issued \in [Cmds -> Command \cup {None}]
    /\ handled \in [Cmds -> Nat]
    /\ rplyLog \in [Cmds -> Seq(Determined)]
    /\ outcomes \subseteq ChildID \X Determined
    /\ redeliveries \in Nat
    /\ losses \in Nat

\* "if mediator haven't send cmd rply, send cmd rply": the source of a command
\* is answered at most once, however many children fail, whatever the order of
\* the replies, and even if child commands or replies are delivered twice.
AtMostOneRply == \A p \in Cmds : Len(rplyLog[p]) <= 1

\* A success reply is sent only after every controller the command concerns has
\* carried out its child of one and the same handling of the command; the reply
\* of an earlier handling, or of another command, never counts.
SuccessIsJustified ==
    \A p \in Cmds : \A i \in 1..Len(rplyLog[p]) :
        rplyLog[p][i] = CMD_STATE_SUCCESSFUL =>
            \E k \in 1..handled[p] : \A n \in Children(issued[p]) :
                <<<<p, n, k>>, CMD_STATE_SUCCESSFUL>> \in outcomes

\* A failure reply is sent only if some controller failed the command.
FailureIsJustified ==
    \A p \in Cmds : \A i \in 1..Len(rplyLog[p]) :
        rplyLog[p][i] = CMD_STATE_FAIL =>
            \E n \in Children(issued[p]), k \in 1..handled[p] :
                <<<<p, n, k>>, CMD_STATE_FAIL>> \in outcomes

\* What the source is told happened (_commandReplyHandler, _exeCmdStateAction):
\* success only if all concerned controllers succeeded in one handling of the
\* command, failure only if one failed.
VerdictIsJustified == SuccessIsJustified /\ FailureIsJustified

\* The SFF child of the handling of c succeeded; c is a child that had to wait.
HasSFF(c) == <<<<c[1], SFF, c[3]>>, CMD_STATE_SUCCESSFUL>> \in outcomes
HeldBack(c) == c[2] \in PreparedFor(issued[c[1]])

\* "we need install entry to sff before install vnf": the VNF child of ADD_SFCI
\* is on its way to, or was carried out by, the VNF controller only if the SFF
\* controller carried out its child of the same handling.
VNFAfterSFF ==
    /\ \A q \in Controller \X Zones : \A i \in 1..Len(controllerQueue[q]) :
          HeldBack(controllerQueue[q][i]) => HasSFF(controllerQueue[q][i])
    /\ \A o \in outcomes : HeldBack(o[1]) => HasSFF(o[1])

\* Once the source has been told the verdict, a child that is still held back
\* is never released: no VNF is installed for an SFCI already reported failed.
NoReleaseAfterRply ==
    [][\A c \in DOMAIN commandsInfo \cap DOMAIN commandsInfo' :
          (/\ c \in ChildID
           /\ commandsInfo[c].state = CMD_STATE_WAITING
           /\ rplyLog[c[1]] # <<>>)
          => commandsInfo'[c].state = CMD_STATE_WAITING]_vars

\* No message about command p is in any queue.
Quiet(p) ==
    /\ \A i \in 1..Len(mediatorQueue) :
          /\ mediatorQueue[i].cmdID # p
          /\ mediatorQueue[i].type = "rply" => mediatorQueue[i].cmdID[1] # p
    /\ \A q \in Controller \X Zones : \A i \in 1..Len(controllerQueue[q]) :
          controllerQueue[q][i][1] # p

\* If nothing is lost a command is forgotten when its last child is answered (outside
\* the puffer zone, where merging the replies may raise before _exeCmdStateAction
\* deletes it).  The exception is an ADD_SFCI one of whose children failed while its
\* VNF child was held back: that child is never sent, never answered, and the entries
\* stay for ever.
ForgottenUnlessVNFHeldBack ==
    \A p \in Cmds \cap DOMAIN commandsInfo :
        (/\ losses = 0
         /\ Quiet(p)
         /\ issued[p].cmdType \in SFCCmdTypes /\ issued[p].zone # "PUFFER_ZONE"
         /\ ForwardedTo(issued[p]) # {}) =>
            /\ rplyLog[p] = <<CMD_STATE_FAIL>>
            /\ \E c \in ChildCmdIDs(commandsInfo, p) :
                  c[2] = VNF /\ commandsInfo[c].state = CMD_STATE_WAITING

\* Every accepted command is eventually answered, unless a message is lost or
\* merging the replies raises: those of the puffer zone differ in `source'.
EventuallyAnswered ==
    \A p \in Cmds :
        (/\ issued[p] # None
         /\ issued[p].cmdType \in SFCCmdTypes /\ issued[p].zone # "PUFFER_ZONE"
         /\ ForwardedTo(issued[p]) # {})
        ~> (rplyLog[p] # <<>> \/ losses > 0)

\* The mediator implements FanOut: forget the queues, the table and which
\* handling of a command a child belongs to.
PrerequisitesOf(cmd, n) == IF n \in PreparedFor(cmd) THEN {SFF} ELSE {}
Service == INSTANCE FanOut WITH
    Participant  <- Controller,
    Participants <- Children,
    DependsOn    <- PrerequisitesOf,
    Success      <- CMD_STATE_SUCCESSFUL,
    Failure      <- CMD_STATE_FAIL,
    acted        <- {<<o[1][1], o[1][2], o[2]>> : o \in outcomes},
    verdict      <- rplyLog

\* Every step of the mediator, the controllers and the queues is a step of the
\* service or leaves what the service shows unchanged.
ImplementsFanOut == Service!ServiceSpec
=============================================================================
