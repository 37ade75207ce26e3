---------------------------- MODULE VNFController ----------------------------
(***************************************************************************)
(* serverController/vnfController: the controller that runs the VNFs of an *)
(* SFCI as containers on a server.  It is one thread, which handles one    *)
(* command at a time; a handler deploys or deletes the VNFIs of an SFCI    *)
(* one after the other, each of which may fail on its own.  What runs      *)
(* beside it is Docker, whose calls may raise and whose containers may     *)
(* stop.                                                                   *)
(*                                                                         *)
(* One server is modelled: the allocators of different servers share       *)
(* nothing.  The VNFIs of an SFCI are its own (an ID is a fresh UUID), so  *)
(* that the branch "Reassign!" of _sfciAddHandler is never taken.          *)
(***************************************************************************)
EXTENDS SourceAllocator

CONSTANTS
    SFCIs,
    SFCLength,        \* VNFIs of an SFCI
    maxCPUNum,        \* cores of a VNFI
    MAX_VIO_NUM,      \* virtio IDs of the server
    Sockets,          \* NUMA sockets of the server
    CoresPerSocket,   \* cores of a socket that VNFIs may use
    MaxPort,          \* bound: ports of the host
    MaxCmds,          \* bound: commands
    MaxFaults,        \* bound: Docker calls that raise, containers that stop
    None

ASSUME VNFControllerAssumption ==
    /\ SFCLength \in Nat \ {0} /\ maxCPUNum \in Nat \ {0}
    /\ MAX_VIO_NUM \in Nat \ {0} /\ Sockets \in Nat \ {0} /\ CoresPerSocket \in Nat
    /\ MaxPort \in Nat /\ MaxCmds \in Nat /\ MaxFaults \in Nat

CMD_TYPE_ADD_SFCI == "CMD_TYPE_ADD_SFCI"
CMD_TYPE_DEL_SFCI == "CMD_TYPE_DEL_SFCI"
CmdTypes == {CMD_TYPE_ADD_SFCI, CMD_TYPE_DEL_SFCI}

VNFI_STATE_PROCESSING == "VNFI_STATE_PROCESSING"
VNFI_STATE_DEPLOYED   == "VNFI_STATE_DEPLOYED"
VNFI_STATE_FAILED     == "VNFI_STATE_FAILED"

VNFIs == SFCIs \X (1..SFCLength)
vnfiSequence(s) == [i \in 1..SFCLength |-> <<s, i>>]
Cores == (1..Sockets) \X (1..CoresPerSocket)

Cmd == [cmdType : CmdTypes, sfci : SFCIs]
Job == [cmd : Cmd, todo : Seq(VNFIs), success : BOOLEAN]
VNFIDeployStatus ==
    [state : {VNFI_STATE_DEPLOYED}, cpus : Seq(Seq(Cores)), vioStart : Int, port : 1..MaxPort]
    \cup [state : {VNFI_STATE_FAILED}]

\* Python's None is neither a command in hand nor the status of a VNFI.
ASSUME NoneAssumption == None \notin Job /\ None \notin VNFIDeployStatus

VARIABLES
    sfciDict,     \* the keys of _vnfiSet
    vnfiSet,      \* VNFI -> its VNFIDeployStatus, or None
    vioAllo, cpuAllo, socketPortAllo,   \* what the allocators have left
    container,    \* Docker: VNFI -> the host port of its running container, or None
    inbox,        \* commands not read yet
    job,          \* the command in hand, the VNFIs left to handle and `success'; or None
    rplys,        \* replies sent
    cmds, faults, \* counted against MaxCmds and MaxFaults
    exhausted,    \* history: allocateSource has found no virtio IDs
    stranded      \* history: cores of VNFIs whose host port could not be read

alloVars  == <<vioAllo, cpuAllo, socketPortAllo>>
tableVars == <<sfciDict, vnfiSet>>
vars == <<tableVars, alloVars, container, inbox, job, rplys, cmds, faults, exhausted, stranded>>

Init ==
    /\ sfciDict = {}
    /\ vnfiSet = [v \in VNFIs |-> None]
    /\ vioAllo = <<<<0, MAX_VIO_NUM>>>>
    /\ cpuAllo = [i \in 1..Sockets |-> [k \in 1..CoresPerSocket |-> <<i, k>>]]
    /\ socketPortAllo = <<<<1, MaxPort>>>>
    /\ container = [v \in VNFIs |-> None]
    /\ inbox = <<>>
    /\ job = None
    /\ rplys = <<>>
    /\ cmds = 0 /\ faults = 0
    /\ exhausted = FALSE
    /\ stranded = {}
-----------------------------------------------------------------------------
(***************************************************************************)
(* Docker (external).                                                      *)
(***************************************************************************)
Fault == faults < MaxFaults /\ faults' = faults + 1

UnusedPorts == (1..MaxPort) \ {container[v] : v \in VNFIs}

\* A container ends by itself; remove=True makes Docker forget it.
ContainerStops(v) ==
    /\ container[v] # None
    /\ Fault
    /\ container' = [container EXCEPT ![v] = None]
    /\ UNCHANGED <<tableVars, alloVars, inbox, job, rplys, cmds, exhausted, stranded>>
-----------------------------------------------------------------------------
(***************************************************************************)
(* The loop.  The mediator sends commands in any order.                    *)
(***************************************************************************)
SendCmd(s, cmdType) ==
    /\ cmds < MaxCmds
    /\ cmds' = cmds + 1
    /\ inbox' = Append(inbox, [cmdType |-> cmdType, sfci |-> s])
    /\ UNCHANGED <<tableVars, alloVars, container, job, rplys, faults, exhausted, stranded>>

Got(cmdType) ==
    /\ job = None
    /\ inbox # <<>>
    /\ Head(inbox).cmdType = cmdType
    /\ inbox' = Tail(inbox)

Rply(cmd, success) == Append(rplys, [cmd |-> cmd, success |-> success])

\* The SFCI is in the table: success, whatever became of its VNFIs.
AddKnown ==
    /\ Got(CMD_TYPE_ADD_SFCI)
    /\ Head(inbox).sfci \in sfciDict
    /\ rplys' = Rply(Head(inbox), TRUE)
    /\ UNCHANGED <<tableVars, alloVars, container, job, cmds, faults, exhausted, stranded>>

AddStart ==
    /\ Got(CMD_TYPE_ADD_SFCI)
    /\ LET s == Head(inbox).sfci
       IN  /\ s \notin sfciDict
           /\ sfciDict' = sfciDict \cup {s}
           /\ job' = [cmd |-> Head(inbox), todo |-> vnfiSequence(s), success |-> TRUE]
    /\ UNCHANGED <<vnfiSet, alloVars, container, rplys, cmds, faults, exhausted, stranded>>

DelUnknown ==
    /\ Got(CMD_TYPE_DEL_SFCI)
    /\ Head(inbox).sfci \notin sfciDict
    /\ rplys' = Rply(Head(inbox), FALSE)
    /\ UNCHANGED <<tableVars, alloVars, container, job, cmds, faults, exhausted, stranded>>

DelStart ==
    /\ Got(CMD_TYPE_DEL_SFCI)
    /\ Head(inbox).sfci \in sfciDict
    /\ job' = [cmd |-> Head(inbox), todo |-> vnfiSequence(Head(inbox).sfci), success |-> TRUE]
    /\ UNCHANGED <<tableVars, alloVars, container, rplys, cmds, faults, exhausted, stranded>>

Handling(cmdType, v) ==
    /\ job # None
    /\ job.cmd.cmdType = cmdType
    /\ job.todo # <<>>
    /\ v = Head(job.todo)

Deployed(cpus, vioStart, port) ==
    [state |-> VNFI_STATE_DEPLOYED, cpus |-> cpus, vioStart |-> vioStart, port |-> port]
Failed == [state |-> VNFI_STATE_FAILED]
-----------------------------------------------------------------------------
(***************************************************************************)
(* addVNFI of vnfiAdder, and what _sfciAddHandler makes of its outcome.    *)
(***************************************************************************)
\* Wrong variant: the handler goes on as if the VNFI had been deployed.
FailVNFIUnnoticed(v) ==
    /\ vnfiSet' = [vnfiSet EXCEPT ![v] = Failed]
    /\ job' = [job EXCEPT !.todo = Tail(@)]

FailVNFI(v) ==
    /\ vnfiSet' = [vnfiSet EXCEPT ![v] = Failed]
    /\ job' = [job EXCEPT !.todo = Tail(@), !.success = FALSE]

cpus == allocateCPU(cpuAllo, maxCPUNum)
vio  == allocateSource(vioAllo, 2)
cpuAlloLess == [i \in DOMAIN cpuAllo |-> RestOf(cpuAllo[i], cpus[i])]

\* allocateCPU returns no list of cores, and walking through it raises.
AddNoCPU(v) ==
    /\ Handling(CMD_TYPE_ADD_SFCI, v)
    /\ cpus = NoCPU
    /\ FailVNFI(v)
    /\ UNCHANGED <<sfciDict, alloVars, container, inbox, rplys, cmds, faults, exhausted, stranded>>

\* CPU and virtio IDs are allocated; nobody looks whether virtio IDs were left.
Allocate(v) ==
    /\ Handling(CMD_TYPE_ADD_SFCI, v)
    /\ cpus # NoCPU
    /\ exhausted' = (exhausted \/ vio.result = NoSource)

FreeBoth ==
    /\ cpuAllo' = freeCPU(cpuAlloLess, cpus)
    /\ vioAllo' = freeSource(vio.list, vio.result, 2)

\* Wrong variant: the cores are not freed.
AddRunRaisesKeeps(v) ==
    /\ Allocate(v)
    /\ IF container[v] # None THEN UNCHANGED faults ELSE Fault
    /\ vioAllo' = freeSource(vio.list, vio.result, 2)
    /\ cpuAllo' = cpuAlloLess
    /\ FailVNFI(v)
    /\ UNCHANGED <<sfciDict, socketPortAllo, container, inbox, rplys, cmds, stranded>>

\* containers.run raises: always if a container of this name is there.
AddRunRaises(v) ==
    /\ Allocate(v)
    /\ IF container[v] # None THEN UNCHANGED faults ELSE Fault
    /\ FreeBoth
    /\ FailVNFI(v)
    /\ UNCHANGED <<sfciDict, socketPortAllo, container, inbox, rplys, cmds, stranded>>

\* The container runs; asking it for its logs raises.
AddLogsRaise(v) ==
    /\ Allocate(v)
    /\ container[v] = None
    /\ Fault
    /\ \E port \in UnusedPorts : container' = [container EXCEPT ![v] = port]
    /\ FreeBoth
    /\ FailVNFI(v)
    /\ UNCHANGED <<sfciDict, socketPortAllo, inbox, rplys, cmds, stranded>>

CoresIn(lists) == {c \in Cores : \E i \in DOMAIN lists : c \in Range(lists[i])}

\* The container runs; its host port cannot be read, which nobody cleans up after.
AddPortRaises(v) ==
    /\ Allocate(v)
    /\ container[v] = None
    /\ Fault
    /\ \E port \in UnusedPorts : container' = [container EXCEPT ![v] = port]
    /\ cpuAllo' = cpuAlloLess
    /\ vioAllo' = vio.list
    /\ stranded' = stranded \cup CoresIn(cpus)
    /\ FailVNFI(v)
    /\ UNCHANGED <<sfciDict, socketPortAllo, inbox, rplys, cmds>>

AddOk(v) ==
    /\ Allocate(v)
    /\ container[v] = None
    /\ cpuAllo' = cpuAlloLess
    /\ vioAllo' = vio.list
    /\ \E port \in UnusedPorts :
          /\ container' = [container EXCEPT ![v] = port]
          /\ socketPortAllo' = allocateSpecificSource(socketPortAllo, port, 1)
          /\ vnfiSet' = [vnfiSet EXCEPT ![v] = Deployed(cpus, vio.result, port)]
    /\ job' = [job EXCEPT !.todo = Tail(@)]
    /\ UNCHANGED <<sfciDict, inbox, rplys, cmds, faults, stranded>>
-----------------------------------------------------------------------------
(***************************************************************************)
(* deleteVNFI of vnfiDeleter and of the table.                             *)
(***************************************************************************)
DropVNFI(v) ==
    /\ vnfiSet' = [vnfiSet EXCEPT ![v] = None]
    /\ job' = [job EXCEPT !.todo = Tail(@)]

\* The VNFI has an error: nothing is killed and nothing freed.
DelFailed(v) ==
    /\ Handling(CMD_TYPE_DEL_SFCI, v)
    /\ vnfiSet[v].state = VNFI_STATE_FAILED
    /\ DropVNFI(v)
    /\ UNCHANGED <<sfciDict, alloVars, container, inbox, rplys, cmds, faults, exhausted, stranded>>

\* Killing the container may raise, which is swallowed; then everything is freed.
DelDeployed(v) ==
    /\ Handling(CMD_TYPE_DEL_SFCI, v)
    /\ vnfiSet[v].state = VNFI_STATE_DEPLOYED
    /\ \/ container' = [container EXCEPT ![v] = None] /\ UNCHANGED faults
       \/ container[v] # None /\ Fault /\ UNCHANGED container
    /\ vioAllo' = freeSource(vioAllo, vnfiSet[v].vioStart, 2)
    /\ cpuAllo' = freeCPU(cpuAllo, vnfiSet[v].cpus)
    /\ socketPortAllo' = freeSource(socketPortAllo, vnfiSet[v].port, 1)
    /\ DropVNFI(v)
    /\ UNCHANGED <<sfciDict, inbox, rplys, cmds, exhausted, stranded>>

\* All VNFIs are handled; a deletion takes the SFCI out of the table.
Done ==
    /\ job # None
    /\ job.todo = <<>>
    /\ sfciDict' = IF job.cmd.cmdType = CMD_TYPE_DEL_SFCI
                   THEN sfciDict \ {job.cmd.sfci} ELSE sfciDict
    /\ rplys' = Rply(job.cmd, job.success)
    /\ job' = None
    /\ UNCHANGED <<vnfiSet, alloVars, container, inbox, cmds, faults, exhausted, stranded>>
-----------------------------------------------------------------------------
HandlerStep ==
    \/ AddKnown \/ AddStart \/ DelUnknown \/ DelStart \/ Done
    \/ \E v \in VNFIs :
          \/ AddNoCPU(v) \/ AddRunRaises(v) \/ AddLogsRaise(v) \/ AddPortRaises(v) \/ AddOk(v)
          \/ DelFailed(v) \/ DelDeployed(v)

Next ==
    \/ \E s \in SFCIs, cmdType \in CmdTypes : SendCmd(s, cmdType)
    \/ \E v \in VNFIs : ContainerStops(v)
    \/ HandlerStep

Spec == Init /\ [][Next]_vars
-----------------------------------------------------------------------------
(***************************************************************************)
(* Properties                                                              *)
(***************************************************************************)
IsDeployed(v) == vnfiSet[v] # None /\ vnfiSet[v].state = VNFI_STATE_DEPLOYED
VioOf(v) == {vnfiSet[v].vioStart, vnfiSet[v].vioStart + 1}
IdleVio == UNION {vioAllo[i][1]..(vioAllo[i][2] - 1) : i \in DOMAIN vioAllo}

\* Whatever call of Docker raises and whatever is deleted and added again, a core
\* is given to one VNFI at a time, and none that is given is in a list of the
\* allocator (allocateCPU, freeCPU, the exception handlers of addVNFI).
CoresAreExclusive ==
    /\ \A v \in VNFIs : IsDeployed(v) =>
          /\ CoresIn(vnfiSet[v].cpus) \cap (CoresIn(cpuAllo) \cup stranded) = {}
          /\ \A w \in VNFIs \ {v} :
                IsDeployed(w) => CoresIn(vnfiSet[v].cpus) \cap CoresIn(vnfiSet[w].cpus) = {}
    /\ \A i \in DOMAIN cpuAllo : IsInjective(cpuAllo[i])

\* No core gets lost: it can be allocated, or a deployed VNFI has it, or it went
\* with a container whose host port could not be read (_getContainerHostPort is
\* called outside the try of addVNFI).
CoresAreAccountedFor ==
    Cores = CoresIn(cpuAllo) \cup stranded
            \cup UNION {CoresIn(vnfiSet[v].cpus) : v \in {w \in VNFIs : IsDeployed(w)}}

\* Each core of the server is idle, lost with a container, or one VNFI's own
\* (allocateCPU, freeCPU, addVNFI, deleteVNFI).
CoresArePartitioned == CoresAreExclusive /\ CoresAreAccountedFor

\* The same for virtio IDs, as long as there were always some left:
\* allocateSource answers -1 when there are none, addVNFI uses and later frees
\* "-1" and "0", and from then on two containers may share an ID.
VioIsExclusive ==
    ~exhausted =>
        \A v \in VNFIs : IsDeployed(v) =>
            /\ VioOf(v) \cap IdleVio = {}
            /\ \A w \in VNFIs \ {v} : IsDeployed(w) => VioOf(v) \cap VioOf(w) = {}

\* An ADD_SFCI that is answered with success has been carried out, or the SFCI
\* was in the table already, where a failed VNFI may be found of an ADD_SFCI that
\* was answered with failure before (_sfciAddHandler, hasSFCI).
SuccessIsTrueOrRepeated ==
    [][\A s \in SFCIs :
          /\ Len(rplys') > Len(rplys)
          /\ Last(rplys') = [cmd |-> [cmdType |-> CMD_TYPE_ADD_SFCI, sfci |-> s], success |-> TRUE]
          => \/ \A i \in 1..SFCLength : IsDeployed(<<s, i>>)
             \/ \E k \in 1..Len(rplys) :
                   /\ rplys[k] = [cmd |-> [cmdType |-> CMD_TYPE_ADD_SFCI, sfci |-> s],
                                  success |-> FALSE]
                   /\ \A l \in k..Len(rplys) :
                         rplys[l] # [cmd |-> [cmdType |-> CMD_TYPE_DEL_SFCI, sfci |-> s],
                                     success |-> TRUE]]_vars

=============================================================================
