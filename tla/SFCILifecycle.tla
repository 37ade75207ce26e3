---------------------------- MODULE SFCILifecycle ----------------------------
(***************************************************************************)
(* One SFCI from end to end: the row the orchestrator keeps of it, the     *)
(* mediator, and what the SFF controller and the VNF controller remember.  *)
(* The mediator is module Mediator; the orchestrator adds and deletes the  *)
(* SFCI when the row allows it, and writes the row when the mediator has   *)
(* answered; the controllers answer by what they have in their tables.     *)
(***************************************************************************)
EXTENDS Mediator, OrchInfoBaseMaintainer, SequencesExt

VARIABLES
    db,       \* the tables of OrchInfoBaseMaintainer
    sffSFCI,  \* SIBMS._sfciDict has the SFCI
    vnfSFCI   \* VNFIMaintainer._vnfiSet: "absent", or the SFCI's VNFIs are
              \* "deployed" or have "failed"

lifecycleVars == <<vars, db, sffSFCI, vnfSFCI>>

theSFC  == "sfc"
theSFCI == <<theSFC, 1>>

\* The rows of the tables.
RequestRow == [state : RequestState, cmdID : Cmds, retryCnt : {0}]
SFCRow     == [state : {STATE_ACTIVE}, sfciIDList : SUBSET {theSFCI}]
SFCIRow    == [state : ResourceState]

ASSUME NoneAssumption ==
    /\ None \notin RequestRow /\ None \notin SFCRow /\ None \notin SFCIRow
    /\ None \notin ResourceState

LifecycleInit ==
    /\ Init
    /\ db = [Request |-> [p \in Cmds |-> None],
             SFC     |-> [s \in {theSFC} |-> [state |-> STATE_ACTIVE, sfciIDList |-> {}]],
             SFCI    |-> [i \in {theSFCI} |-> None]]
    /\ sffSFCI = FALSE
    /\ vnfSFCI = "absent"
-----------------------------------------------------------------------------
(***************************************************************************)
(* The orchestrator.  Request p leads to command p.                        *)
(***************************************************************************)
MayDel == isDelSFCIValidState(db, theSFCI)

AddSFCI(p, cmd) ==
    /\ cmd.cmdType = "ADD_SFCI"
    /\ isAddSFCIValidState(db, theSFCI)
    /\ SendCmd(p, cmd)
    /\ db' = addSFCIRequestHandler(db, p, theSFCI, p, REQUEST_STATE_IN_PROCESSING)
    /\ UNCHANGED <<sffSFCI, vnfSFCI>>

DelSFCI(p, cmd) ==
    /\ cmd.cmdType = "DEL_SFCI"
    /\ MayDel
    /\ SendCmd(p, cmd)
    /\ db' = delSFCIRequestHandler(db, p, theSFCI, p, REQUEST_STATE_IN_PROCESSING,
                                   STATE_IN_PROCESSING)
    /\ UNCHANGED <<sffSFCI, vnfSFCI>>

\* The mediator's answer to command p reaches the orchestrator.
CmdRply(p) ==
    /\ rplyLog[p] # <<>>
    /\ db.Request[p].state = REQUEST_STATE_IN_PROCESSING
    /\ db' = cmdRplyHandler(db, p, [type |-> issued[p].cmdType, sfc |-> theSFC, sfci |-> theSFCI],
                            Head(rplyLog[p]))
    /\ UNCHANGED <<vars, sffSFCI, vnfSFCI>>
-----------------------------------------------------------------------------
(***************************************************************************)
(* What the controllers' tables are before and after a child command.      *)
(***************************************************************************)
Succeeds == Last(mediatorQueue').cmdState = CMD_STATE_SUCCESSFUL

\* addSFCIHandler and delSFCIHandler record the SFCI, or take it out, before they
\* touch BESS, which may raise; taking out what is not there raises.
SFFTable(cmdType) ==
    /\ cmdType = "DEL_SFCI" => (Succeeds => sffSFCI)
    /\ sffSFCI' = (cmdType = "ADD_SFCI")
    /\ UNCHANGED vnfSFCI

\* Wrong variant: an SFCI that is not there counts as deleted, and one that is
\* there stays.
VNFTableKeeps(cmdType) ==
    /\ vnfSFCI' = IF vnfSFCI = "absent" /\ cmdType = "ADD_SFCI" /\ Succeeds
                  THEN "deployed" ELSE vnfSFCI
    /\ UNCHANGED sffSFCI

\* Wrong variant: the answer is given before the VNFIs are deployed.
VNFTableHasty(cmdType) ==
    /\ vnfSFCI = "absent" /\ cmdType = "DEL_SFCI" => ~Succeeds
    /\ vnfSFCI' \in IF cmdType = "DEL_SFCI" THEN {"absent"} ELSE {"deployed", "failed"}
    /\ UNCHANGED sffSFCI

\* Module VNFController: an SFCI that is in the table is "added" without a look at
\* its VNFIs, and deleting one that is there succeeds.
VNFTable(cmdType) ==
    /\ vnfSFCI # "absent" => Succeeds
    /\ vnfSFCI = "absent" /\ cmdType = "DEL_SFCI" => ~Succeeds
    /\ vnfSFCI' = IF cmdType = "DEL_SFCI" THEN "absent"
                  ELSE IF vnfSFCI # "absent" THEN vnfSFCI
                  ELSE IF Succeeds THEN "deployed" ELSE "failed"
    /\ UNCHANGED sffSFCI

Control(q) ==
    /\ ControllerStep(q)
    /\ LET cmdType == issued[Head(controllerQueue[q])[1]].cmdType
       IN  CASE q[1] = SFF -> SFFTable(cmdType)
             [] q[1] = VNF -> VNFTable(cmdType)
             [] OTHER      -> UNCHANGED <<sffSFCI, vnfSFCI>>
    /\ UNCHANGED db

Mediate == (StartMediator \/ Redeliver \/ LoseMsg) /\ UNCHANGED <<db, sffSFCI, vnfSFCI>>

LifecycleNext ==
    \/ \E p \in Cmds, cmd \in Command : AddSFCI(p, cmd) \/ DelSFCI(p, cmd)
    \/ \E p \in Cmds : CmdRply(p)
    \/ \E q \in Controller \X Zones : Control(q)
    \/ Mediate

\* The identifiers of commands are interchangeable.
CmdSymmetry == Permutations(Cmds)

LifecycleSpec == LifecycleInit /\ [][LifecycleNext]_lifecycleVars
-----------------------------------------------------------------------------
(***************************************************************************)
(* Properties                                                              *)
(***************************************************************************)
AllQuiet == \A p \in Cmds : Quiet(p)
StateOfSFCI == IF hasSFCI(db, theSFCI) THEN db.SFCI[theSFCI].state ELSE None

\* The VNF child of an ADD_SFCI is sent late (_addSFCIs2Server), and a DEL_SFCI
\* that comes in between would be overtaken by it.  The row of the SFCI keeps
\* that from happening (isDelSFCIValidState): when everything has been handled,
\* VNFs are recorded only where the SFF controller knows the SFCI too, whatever
\* failed before.  A child that got lost is the exception.
VNFsHaveSFF == AllQuiet /\ losses = 0 => (vnfSFCI # "absent" => sffSFCI)

\* "STATE_DELETED  # All resource of this sfc/sfci has been released": an SFCI
\* with that state is in no controller's table (cmdRplyHandler, delSFCIHandler,
\* _sfciDeleteHandler).
DeletedIsGone == StateOfSFCI = STATE_DELETED => vnfSFCI = "absent" /\ ~sffSFCI

\* The tables of orchestrator, SFF controller and VNF controller agree about the
\* SFCI, although each learns of a deletion at a time of its own (_addSFCIs2Server,
\* cmdRplyHandler, _sfciDeleteHandler).
TablesAgree == VNFsHaveSFF /\ DeletedIsGone

\* An SFCI whose VNFs are not running is ACTIVE only if it was added a second
\* time: the VNF controller takes the SFCI it failed to deploy for deployed
\* (_sfciAddHandler, hasSFCI).  Delivering the child again has the same effect if
\* the first reply, the failure, was lost.
ActiveIsDeployedAtFirst ==
    StateOfSFCI = STATE_ACTIVE /\ (losses = 0 \/ redeliveries = 0) =>
        \/ sffSFCI /\ vnfSFCI = "deployed"
        \/ \E p \in Cmds : issued[p] # None /\ issued[p].cmdType = "ADD_SFCI"
                           /\ rplyLog[p] = <<CMD_STATE_FAIL>>

\* A deletion that failed cannot be repeated with success once the SFF
\* controller has handled its child, which takes the SFCI out of the table whatever
\* happens then, so that delSFCI raises KeyError the next time: the SFCI never
\* becomes DELETED, and can never be added again.
UndeletedForEver ==
    (\E p \in Cmds : /\ issued[p] # None /\ issued[p].cmdType = "DEL_SFCI"
                     /\ rplyLog[p] = <<CMD_STATE_FAIL>>
                     /\ \E o \in outcomes : o[1][1] = p /\ o[1][2] = SFF)
        => StateOfSFCI \in {STATE_UNDELETED, STATE_IN_PROCESSING}
=============================================================================
