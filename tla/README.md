# SelfAdaptiveMano: a TLA+ model of its control plane

SelfAdaptiveMano (`src/sam`) manages service function chains (SFCs) and their
instances (SFCIs) in a data centre. This directory holds a TLA+ model of how a
request becomes commands, how commands become actions of the controllers, and
how the outcome gets back into the tables. TLC checks the model on small
instances; TLAPS proves the safety properties of the mediator, the orchestrator, the
dispatcher, the message agent, the VNF controller and the dashboard for every value of
the constants. The recovery and scaling of SFCs have modules of their own, too.

## 1. The system

### 1.1 Parts and how they interact

All parts are processes of their own. They exchange pickled messages over
RabbitMQ queues (`base/messageAgent.py`; some queries use gRPC) and share a
MySQL database through `OrchInfoBaseMaintainer`.

```
 dashboard -> REGULATOR_QUEUE -> regulator --+            recovery, scaling (in the regulator)
                                             v                |
                                      DISPATCHER_QUEUE <------+
                                             v
                                        dispatcher
                                             v  ORCHESTRATOR_QUEUE_<name>
   MySQL: Request, SFC, SFCI <----->   orchestrators
        ^                                    v  MEDIATOR_QUEUE          replies back
        +---- regulator (retry, state)   mediator ------------------------> source queue
                                             v  one queue per controller and zone
              simulator | classifier, network, SFF, VNF, P4 controllers, server manager
                                             |  replies to MEDIATOR_QUEUE
```

| part | state it keeps | operations | what makes it correct |
|---|---|---|---|
| command table (`base/commandMaintainer.py`) | command, state, reply, parent and children per identifier | add, delete with children, change state, questions about the children | its users never conclude a command too early, twice or not at all |
| mediator (`mediator/mediator.py`) | a command table | split a command into children; collect replies; answer the source | one truthful verdict per command; VNF installed only after its SFF entry; entries are forgotten |
| tables (`orchestration/orchInfoBaseMaintainer.py`) | rows of Request, SFC, SFCI | validity tests and writes | states follow their life cycle; lists are complete |
| orchestrator (`orchestration/orchestrator.py`) | command table, batch, waiting queue, running state, copy of the network | requests, replies, turn on/off, kill, batch timer | nothing stays in processing; the tables agree with what is deployed; every request is settled |
| regulator (`regulator/`) | waiting requests, recovery and scaling tasks | forward requests when the state allows, repeat failed ones, change SFC states, recover, scale | bounded repetition; no check on stale state |
| dispatcher (`dispatcher/`) | SFC to orchestrator assignment, command table | assign, route, migrate, start and stop orchestrators | every request of an SFC meets the same orchestrator |
| message agent (`base/messageAgent.py`) | in-memory queue per RabbitMQ queue, one lock | send, receive thread, get | no message lost silently, no thread blocked for ever |
| controllers (`serverController`, `switchController`, `ryu`, `simulator`) | what they have installed | act on a child command, answer it | an answer tells what was done; a repetition is harmless |
| dashboard (`dashboard/`) | table of a page, answers a thread waits for, session | load and refresh, request and wait, navigate and log out | the table shows what it says; an answer reaches who asked; nothing hangs |
| mapping algorithms, measurer, server agent, topology generator | | | not protocol logic |

### 1.2 What is hard

* Replies of several controllers arrive in any order, while one child (the VNF
  child of ADD_SFCI) may only be sent after another has been answered.
* A message is put into memory before it is acknowledged (`QueueReciever.callback`),
  so that a connection lost in between delivers it again. `sendMsg` logs and
  swallows every exception, so that a message can be lost although the sender's
  table says it is on its way.
* Handlers catch exceptions at the top: whatever was done before stays.
* The regulator reads the shared tables and writes to them later while the
  orchestrator goes on; it repeats failed requests under the same identifier, so
  that the row of a request belongs to a new command from then on.
* ADD_SFCI requests wait in a batch for a timer or for company; an orchestrator
  that is turned off keeps requests in yet another queue.
* One lock guards all queues of a component; an exception inside the receiver or
  `getMsg` leaves it locked.
* Recovery and scaling advance by what they read in the tables, which tells neither
  who wrote it nor whether a request of theirs is still under way.
* A regulator that is started again has lost its tasks and hands out SFCI
  identifiers from the beginning.
* Answers to the dashboard come late, twice or not at all, while the user goes on.

The list of hazards, each with its line and the properties about it, is in
`PROJECT.json`.

## 2. The modules

| module | models |
|---|---|
| `CommandMaintainer` | the command table, method by method, as operators on tables |
| `Mediator` | mediator, controllers as answering processes, their queues with loss and redelivery |
| `FanOut` | what the mediator promises: the abstract service |
| `OrchInfoBaseMaintainer` | the rows and writes of the shared tables, as operators on tables |
| `Orchestrator` | orchestrator loop, regulator's retry and state change, dispatcher's routing condition, the mediator as an answering process |
| `SFCILifecycle` | composition of `Mediator`, the tables and what the SFF and VNF controllers remember, for one SFCI |
| `SourceAllocator`, `VNFController` | allocation of virtio IDs, ports and cores; adding and deleting the VNFIs of an SFCI |
| `MessageAgent` | RabbitMQ receivers, the lock, `getMsg`, gRPC `Store` |
| `Dispatcher` | dispatcher with its orchestrator manager: assignment, migration, equipment commands, splitting of pods |
| `RequestHandler` | what the regulator does with requests of users, and those that wait |
| `RequestPath` | the way of a request of the regulator to the tables; shared by the next two |
| `Recovery` | the regulator's recovery tasks |
| `Scaling` | the regulator's scaling tasks |
| `DashboardTable`, `DashboardRequester`, `DashboardSession`, `Dashboard` | the table of a page, the backend's requester, the session; `Dashboard` puts them together |
| `MCOrchestrator`, `MCDispatcher`, `MCRecovery`, `MCScaling` | the scenarios TLC checks |
| `SFCILifecycleProofs` | theorems about `Mediator`, always and when commands are delivered once, and with them about `SFCILifecycle` |
| `OrchestratorProofs` | theorems about `Orchestrator`: always, when nothing is delivered twice, and for one request at a time |
| `DispatcherProofs`, `MessageAgentProofs`, `VNFControllerProofs`, `RequestHandlerProofs`, `RecoveryProofs`, `DashboardProofs` | theorems about the module of that name |

In several modules the surroundings (bounds, faults, initial population) are one
record, `scenario`, chosen at the start from the constant `Scenarios` and never
changed. A run covers several such records, each as large as it needs to be, and a
property can say under which of them it holds.

### 2.1 Mediator

`commandsInfo` is the table; `mediatorQueue` is MEDIATOR_QUEUE, which carries both
commands and replies; `controllerQueue` has one queue per controller and zone.
`issued`, `handled`, `outcomes` and `rplyLog` are what the outside has seen: the
commands sent, how often each was taken from the queue, what controllers did,
and the verdicts sent.

The mediator is single-threaded, so a handler is one step. `_commandHandler` is
`ForwardCmd` (some controller is concerned) or `RejectCmd` (unknown zone or type).
`_commandReplyHandler` with `_exeCmdStateAction` splits along its conditions:
`DropRply` (unknown or already answered child, or the parent is gone),
`LastSuccess`, `FirstFailure`, `AfterFailure` and `PartialSuccess`, which may
release the VNF child. An exception is modelled by what is left undone: when
`_getMixedAttributes` or `_sendParentCmdRply` raises, the parent's state has
changed, nothing is sent and the entry is not deleted (`Conclude`).

A child is named `<<command, controller, k>>` for the k-th handling of the command,
in place of the uuid. A command is reduced to its type and zone. A reply carries
its state; of its attributes only `source` matters, because it decides whether
merging raises (`RplySource`, `MixedAttributesClash`).

`ControllerStep` is any controller: it takes the oldest child of its queue and
answers success or failure, as far as its code allows both (`Outcome`). The
server manager takes messages over gRPC only, so that a child in its queue stays.
`Redeliver` repeats the message at the head of a queue, which is the one put but
not yet acknowledged. `LoseMsg` removes one from a queue, which stands for a send
that raised.

`FanOut` has no queues and no table: participants act, a participant acts after
those it depends on have succeeded, and one verdict is given, success only if all
succeeded and failure only if one failed. The refinement mapping forgets which
handling of a command an action belonged to.

### 2.2 Orchestrator and tables

`db` has the three tables. Of a row the model keeps what decisions read: state,
command identifier and retry counter of a request; state and list of SFCIs of an
SFC; state of an SFCI. The list is a set here, because the code only iterates
over it. `deployed` is the set of SFCIs some controller holds resources for.

An iteration of `startOrchestrator` takes a message (`TakeRequest`,
`PostponeRequest`, `TakeCmd`, `TakeRply`, `NoMsg`), looks at the batch timer
(`BatchTimeout`, `NoTimeout`) and empties the waiting queue (`TakeWaitingRequest`);
`phase` says where it is. A batch is mapped in one step (`MapBatch`) and then its
requests are dealt with one after the other (`BatchStep`), each with or without a
path. All requests of a batch use the same mapping type, so that the batch keeps its
order: `batch` has the requests that are left with their positions, and `BatchStep` takes
the first. `scenario.mayRaise` says whether generating commands may raise.

Requests reach the orchestrator as the dispatcher sends them: an SFC it has never
seen an ADD_SFC for has no orchestrator. They need not have passed the regulator's
own test, since recovery, scaling and the integration tests send requests
straight to the dispatcher; and the regulator's ADD_SFCI branch always raises
(`requestHandler.py:63` reads `sfcState` before it is assigned).

The regulator's `retryFailureRequests` is `RetryRead` followed by one `RetryWrite`
per request, and UPDATE_SFC_STATE is `UpdateRead` followed by `UpdateWrite`: the
orchestrator may run in between. The mediator answers the commands in any order
with any verdict, and a failed ADD_SFCI or DEL_SFCI may have had its effect or not.

### 2.3 One SFCI from end to end

`SFCILifecycle` extends `Mediator` and the tables. `AddSFCI` and `DelSFCI` send a
command when the row allows it, a verdict of the mediator writes the row, and the
SFF and VNF controllers answer by what is in their tables (`sffSFCI`, `vnfSFCI`)
instead of at will. A controller keeps an SFCI it failed to deploy, and the SFF
controller forgets one before it touches BESS.

### 2.4 VNF controller

`SourceAllocator` has `allocateSource`, `freeSource` and the CPU allocator as
operators on lists of ranges and cores, with the gaps the code leaves. A command is a
`job` whose VNFIs are dealt with one after the other; every call of Docker may raise,
and what the code then gives back, or does not, is in the action of that call.
`stranded` are the cores of containers whose port could not be read, `exhausted` says
that virtio IDs ran out once.

### 2.5 Message agent

A RabbitMQ queue has the broker's list, a receiver thread that goes through lock, put,
unlock and acknowledge, and the in-memory queue. `getMsg` takes the lock, looks and
releases it. An exception leaves the lock as it is. A gRPC socket has a pool of
workers that test the size and put in two steps, and a caller that repeats a call
without answer. Message n of a queue is the number n.

### 2.6 Dispatcher

A handler is a step. An orchestrator is reduced to its queues, the state of its
equipment and the SFCI states in the shared table. Requests, commands and answers go
through the same `sendMsg`, which may lose each; an orchestrator that missed a command
about its equipment may find anything when the next one arrives (`Finds`). Splitting pods and the round-robin
choice are operators, evaluated for every split of up to 8 pods over up to 5
orchestrators.

### 2.7 Regulator: request handler, recovery, scaling

`RequestHandler` has the dictionary of waiting requests and a clock; a pass over the
dictionary takes one step per request, because the tables change meanwhile. The order of
a Python 2.7 dictionary is open, so the dictionary and the rest of a pass are sets.
`RequestPath` reduces orchestrator, batch, mediator and repetition to what they do to
the rows. `Recovery` has the two dictionaries of tasks; a round takes a step per task
from a list made at its start, and an exception ends the round. The network is reduced
to which SFCIs a failure hits (`known`, `down`) and whether it hits their classifier,
which is the ingress or egress switch of the SFC. The path of an SFCI is chosen when
the orchestrator maps its ADD_SFCI (`AddSFCIStep`, `orchestrator.py:258-286`) and is the
one its command carries; the default mapping (`oConfig.py:5`) prunes the equipment the
orchestrator knows to be inactive (`multiLayerGraph.py:88-106`). The dispatcher forwards
a notice to the orchestrators behind the requests sent before it, so that an addition
queued at that time may be mapped in ignorance of it (`unaware`). If the ingress or
egress of an SFC fails (`cut`) no path is found until an ADD_SFC chooses others.

`Scaling` has one SFC, the samples, the list of load states, the two dictionaries of
tasks and the allocator of identifiers. The target is computed from what is measured
(`Targets`): no bandwidth, and so one SFCI, if no active SFCI has a sample yet; what the
traffic calls for if all have samples and nothing has moved since; in between anything up
to the most there was, as the first sample of an SFCI is zero, the share of an SFCI that
left is missed and a counter that starts again gives a negative growth. The measurer asks
every 2.5 s (`mConfig.py`), the regulator every 5 s (`config.py:10`), so that an active
SFCI is in every reply. The arithmetic of the performance model is an input. `Restart`
clears what the regulator has in memory, the samples as well.

### 2.8 Dashboard

`DashboardTable` is `components/Table/index.js` as the monitoring pages use it: loads in
flight, pagination, the step back from an empty page. `DashboardRequester` is
`backend/dashboard/message.py`: threads of the web server that share class variables and
start the requester when they find none, and its message loop. Each request makes a
`Queue()`, a number in the model; it travels in the `Message`, the loop keeps it in
`response_queue_list_dict` and puts the answer into it. `DashboardSession` is the
navigation guard with the store's `GetInfo` and `Logout` and the error handler of
requests; a redirection by a guard whose navigation was overtaken is pushed all the same. The three share nothing; `Dashboard` has one of them run in each behaviour
(`part`).

## 3. What the runs check

| run | instance | distinct states | result |
|---|---|---|---|
| `MediatorOneCommand` | 1 command of any zone and type; 1 redelivery of a child command or reply, 1 loss; fair | 113 000 | pass |
| `SFCILifecycle` | 3 commands for one SFCI, 1 redelivery, 1 loss, controllers that fail | 744 000 | pass |
| `Orchestrator` | 1 SFC; 3 requests open at once on 2 SFCIs, 4 in sequence, 3 with a redelivery, 2 with exceptions, turning off and killing | 1 950 000 | pass |
| `OrchestratorSettles` | 3 requests, 2 open at a time, fair | 135 000 | pass |
| `OrchestratorDeletedHeld` | 3 requests one after the other | | violation |
| `MessageAgent` | 1 RabbitMQ queue, 1 socket with 2 workers, limit 1, 2 messages each, one of which cannot be decoded; 1 lost acknowledgement, outage and answer; fair | 32 000 | pass |
| `VNFController` | 2 SFCIs of 2 VNFs, 2 sockets of 3 cores, 6 virtio IDs, 4 commands, 1 fault | 490 000 | pass |
| `Dispatcher` | 2 orchestrators: up to 3 requests, 3 equipment commands and 2 losses; all splits of pods with 4 requests | 852 000 | pass |
| `RequestHandler` | 3 requests of all types for one SFC, timeout 1, passes up to 2 ticks apart; fair | 174 000 | pass |
| `Recovery` | 2 SFCs with an SFCI each: 2 notices; failing commands and resumption; timeouts; 1 SFC with 2 SFCIs; fair | 264 000 | pass |
| `Scaling` | 1 SFC with 1 to 3 SFCIs; a rise and a fall of the load with late and with quick requests; SFCIs without samples; a loss; failing commands; a restart; fair | 535 000 | pass |
| `Dashboard` | 4 rows in pages of 2, 3 loads in flight; 2 threads, 2 requests, 1 repetition; 4 navigations of the user, 2 failed calls; fair | 261 000 | pass |

`MediatorOneCommand`:

* `TypeOK`: the types of the variables.
* `AtMostOneRply`: a source is answered at most once. The code has no flag for
  this; it relies on "exactly one child has failed and it is this one".
* `VerdictIsJustified`: a verdict is backed by what the controllers did in one
  handling of the command.
* `VNFAfterSFF`: no VNF child is on its way without its SFF entry.
* `NoReleaseAfterRply`: once the verdict is out no child is released any more.
* `EventuallyAnswered`: with a reliable broker every accepted command is answered.
* `ImplementsFanOut`: the mediator implements `FanOut`.

`SFCILifecycle`:

* `TablesAgree`: the row, the SFF controller and the VNF controller agree, although
  the VNF child of an ADD_SFCI is sent late and could overtake a deletion.
* `ActiveIsDeployedAtFirst`: ACTIVE means deployed, unless an ADD_SFCI failed before.
* `UndeletedForEver`: what a failed deletion leads to once the SFF controller has
  forgotten the SFCI: no repetition succeeds.
* `ForgottenUnlessVNFHeldBack`: when nothing about a command is under way its
  entries are gone, except for an ADD_SFCI that failed while its VNF child was
  held back. That exception is a leak of the code.

`Orchestrator`, `OrchestratorSettles`:

* `NoneStuckInProcessing`: a request, SFC or SFCI in processing has a reply to come
  that will be recognised through the identifier in the row.
* `ActiveIsListed`: the list DEL_SFC looks at has every active SFCI.
* `RequestLifecycle`: only failed requests are repeated, success is final.
* `TableTellsTruth`: for a client that waits for each request to be settled,
  ACTIVE means deployed and DELETED means released.
* `EventuallySettled`: every well-formed request succeeds or fails for good.

`MessageAgent`:

* `NothingLost`: a message the broker accepted or `Store` answered is somewhere.
* `OverrunIsBounded`: the unlocked size test overruns the limit by less than the
  number of workers.
* `EventuallyGot`: a message arrives, unless a receiver kept the lock on a full queue,
  `getMsg` kept it on an undecodable message, or the broker could not be reached again.

`VNFController`:

* `CoresArePartitioned`: a core is idle, one VNFI's own, or lost with a container whose
  port could not be read.
* `VioIsExclusive`: a virtio ID is given to one VNFI, as long as they never ran out.
* `SuccessIsTrueOrRepeated`: an ADD_SFCI answered with success was carried out, or
  one of the same SFCI had failed before.

`Dispatcher`:

* `OneOrchestratorPerSFC`: also while an SFC migrates.
* `RuntimeStateSettles`: when nothing is under way the dispatcher's view of an
  orchestrator is right, unless the orchestrator missed a command or its last answer was
  lost; an answer lost before makes no difference.
* `OnlyUnansweredRemain`: the command table keeps what was not answered or was lost,
  nothing else.
* `PodsArePartitioned`, `RoundRobinBalances`: pods and SFCs are spread evenly.

`RequestHandler`:

* `LeavesOnce`: a request is sent at most once and does not vanish.
* `ServedWhenValid`: a waiting request whose time has come and stays is sent, unless the
  pass that reaches it comes after its timeout: such a request is rejected unseen.

`Recovery`:

* `OneCommandAtATime`: never two commands about one SFC or SFCI, while no task times out.
* `DeletedSFCIsReleased`: after one failure a deleted SFC has no active SFCI; with several
  SFCIs, as long as the failure lasts.
* `EventuallyRecovered`: the SFCIs one or two failures hit are active again, away from
  them. The second failure may hit the path chosen because of the first before its command
  is answered, or before the orchestrator has heard of it. The SFCI is not active then and
  the notice passes it over; the periodic scan of recorded failures finds it later. One is
  excepted whose ingress or egress fails at that time (3.2).
* `TasksEnd`: with time all tasks finish or are given up.

`Scaling`:

* `WithinLimits`: at least one SFCI stays, and there are not more than allowed.
* `TargetReached`: a rise and a fall of the load lead to the number it calls for, although
  the load is measured and SFCIs come and go meanwhile; also if the regulator first scales
  in to one SFCI for want of samples.

`Dashboard`:

* `ShownIsCurrent`, `SettlesOnTruth`: rows and page number belong together, and in the
  end the table shows what the backend has.
* `OwnAnswer`: the queue a thread waits at never holds the answer to another command.
* `WaitEnds`: a thread gets an answer, or gives up.
* `NavigationEnds`: the guard always decides, unless a Logout failed.

### 3.1 The violation

`sfcConstant.py:29` says of STATE_DELETED "All resource of this sfc/sfci has been
released". An ADD_SFCI for a deleted SFC is accepted and deployed, because only the
state of the SFCI is tested (`DeletedIsReleased` in `OrchestratorDeletedHeld`).

### 3.2 Restrictions, and what happens without them

* Mediator: a command the broker delivers twice is split twice and answered twice, so
  that `AtMostOneRply` needs commands to be delivered once. In the puffer zone the
  replies differ in `source`, the assertion of `_getMixedAttributes` fails and the
  source is never answered and the entries stay: `EventuallyAnswered` and
  `ForgottenUnlessVNFHeldBack` are about the other zones.
* Orchestrator: a request delivered twice overwrites the command identifier of its row
  and the first reply finds no row; ADD_SFC may raise before its row is written. With
  two open requests a refused DEL_SFCI writes UNDELETED over IN_PROCESSING, which
  `TableTellsTruth` excludes. Malformed ADD_SFCIs stay INITIAL for ever when they are
  repeated, and a batch whose mapping raised is lost.
* Message agent: a full queue does not "Drop new msg" (`messageAgent.py:684`): the
  exception leaves the lock taken, and the component receives nothing any more.
* Virtio IDs: a block freed into the gap before the last range is lost, and after the
  IDs have run out two containers may share one.
* Dispatcher: an ADD_SFCI still queued at the old orchestrator is carried out there
  after its SFC has moved. A command about equipment that is lost is not sent again, and
  the dispatcher may be wrong about that orchestrator for good; so it is after the loss of
  an answer until the next one.
* Request handler: handling an ADD_SFCI raises, and the request is gone; a waiting
  UPDATE_SFC_STATE renews its timestamp in every pass and may wait for ever.
* Recovery: a second notice replaces what the first one said; the tasks of two SFCIs of
  one SFC both add the SFC and all its SFCIs again; a task that timed out may leave a
  command under way while the next one is sent. The record of a failure stays when the
  equipment works again, so that a new path across it counts as a failure once more; of
  an SFC with several SFCIs one may then be active when the SFC is deleted. An SFCI whose
  ingress or egress fails while it is being moved, and is thus not active, is passed over
  by `noticeAnalyzer.py:85-95`. No path is found for its ADD_SFCI, which is repeated
  MAX_RETRY_NUM times, and it stays INIT_FAILED: nothing adds its SFC again.
* Scaling: only the last of several added SFCIs is waited for
  (`sfcScalingProcessor.py:299`), so that a limit of three or more can be exceeded. The
  first samples of a regulator show no load: as a load list that is shorter than the
  threshold is looked at as a whole (277-281), an SFC with several SFCIs is scaled in to
  one at once. While its deletions are carried out their SFCIs still count, and are
  deleted again; a DEL_SFCI that comes late then deletes an SFCI that has been added
  again, and the SFC stays in a scaling mode, or is scaled in and out without end.
  So it may be after several changes of the load when requests take longer than the time
  between replies, and with a limit of three when the SFCIs that come first in the sorted
  list are deleted already. A restart while a task is open leaves the SFC in its mode,
  too, and one after which an identifier in use is handed out again makes ADD_SFCIs
  fail that are repeated later and exceed the limit.
* Dashboard: with two page sizes an answer for the old size can end below the new one; a
  failed Logout clears nothing and its navigation never ends, and one refused with status
  401 sends another, over and over; a second answer to a request ends the message loop.

### 3.3 Bounds

A command's children interact only through their parent's entry and the single
mediator queue, so one command already shows every order of replies and every
redelivery or loss; `SFCILifecycle` has three, so that commands for one SFCI meet. One
loss and one redelivery in one behaviour reach every place of the protocol, and the
theorems remove the bound. For the orchestrator one SFC is enough because no decision
relates two SFCs; two SFCIs make a batch (`BatchSize` is 2) with both a full batch and a
timeout; `MAX_RETRY_NUM` is the code's 1. Three requests make add, delete and a
competitor; the sequential scenario has four, so that an SFC can be added, get an SFCI,
lose it and be deleted. A limit of one message makes queues full, and two workers
overrun it. Two sockets of three cores and VNFIs of two cores make allocation succeed on one socket,
over two, and fail. Two SFCs make recovery tasks compete for one round; one fault per
behaviour reaches every call. The thresholds of the load lists are 1 and 3 where the code
has 3 and 5: each change of an SFCI spoils one sample, and a list of three is longer than
the changes one decision makes, as it is in the code for the usual limits. A reply of the
measurer is handled while at most `underway` requests are under way, 2 or, where
requests are carried out in time, 0.

Symmetry is declared for commands in `SFCILifecycle` and for SFCs in `Dispatcher`, which
check invariants only. Deadlock is not checked where a finite supply ends or a killed
orchestrator or a leaked lock stops the system.

### 3.4 Fairness

`Mediator`: weak fairness of the mediator's loop and of each controller's loop,
which poll their queues for ever. `Orchestrator`: weak fairness of the loop, of
the mediator's answer to each command, and of the regulator's writes, which follow
its reads in the same call; strong fairness of `BatchTimeout` and of `RetryRead`,
because these timers are looked at in every iteration and stay expired until they
are, although other steps may disable the action in between. `MessageAgent`: strong
fairness of taking the lock, since every holder sleeps between two attempts, and of a
call finding an idle worker; weak fairness of every thread. `RequestHandler`,
`Recovery`: weak fairness of the loops, the clock and the orchestrator; in `Recovery`
strong fairness of `ProcessAllDetectionNotice`, because its timer
(`regulator.py:152-155`) stays expired until the loop looks at it between two rounds. `Scaling`:
strong fairness of `UpdateSFCLoad`, whose reply comes periodically, and of
`ProcessAllScalingTasks`, which the loop calls in every iteration. `Dashboard`: strong
fairness of the periodic refresh; weak fairness of answers, threads, loops and
scheduled reloads. Nothing is assumed about clients, users, losses, redeliveries,
failures or UPDATE_SFC_STATE requests.

## 4. What is proved

Every theorem holds for all values of the constants that satisfy the named assumptions of
the module it is about, in particular for any number of commands, requests, threads,
orchestrators or faults. The assumptions say that bounds are natural numbers, that sets
of types and zones are among those the code knows, and that `None` differs from the values
it stands beside. They are evaluated in every run. Where a theorem needs more, its statement
says so and the section about it explains what it is for.

### 4.1 Mediator

From `MediatorAssumption` alone, whatever is lost or redelivered: `TypeCorrect`,
`VNFNeverBeforeSFF` and `VerdictJustified`, from `SuccessJustified` and
`FailureJustified` (first part of `SFCILifecycleProofs`).

If commands themselves are not redelivered (`"cmd" \notin Redeliverable`; child commands
and replies may be): `AnsweredAtMostOnce`, `NeverReleasedAfterRply`,
`ForgottenInTheEnd` and `MediatorImplementsFanOut` (second part of the module). The
assumption is needed: a command delivered twice is split twice and answered twice.

The inductive invariant of the first group is `IInv`: the types; `TableOK`, which
says what each entry of the table means (the entry of a command has exactly the
children of its latest handling; the entry of a child points back to its command;
only a prepared child waits; a child whose state is SUCCESSFUL or FAIL has a reply,
and its controller did just that); and `QueueInv`, which says that every child under
way or carried out is one the mediator made, with its SFF outcome if it had been
held back, and that every reply under way reports an outcome that happened. None
of the properties is inductive without it: what a verdict says is derived from
states in the table, which are derived from replies in the queue. `RplyInv` then
carries the verdicts along.

The second group adds `FirstDelivery` (a command is in the queue at most once, and
then it was never handled), `AnsweredInv` (a command that has been answered has left
the table, or has a failed child there, so that no second first failure and no last
success can come) and `HeldBackInv` (a child that is still held back was never sent,
so that no reply can change its state). That commands are forgotten needs two more:
`AwaitedInv` (as long as nothing is lost, a child in processing is in its controller's
queue or its reply is in the mediator's) and `OpenInv` (a command in the table has an open
child; a child that waits although the SFF controller succeeded belongs to a failed
command; a failed command was answered). `AwaitedInv` leaves only a waiting child to be
open when all is quiet, and `OpenInv` says what became of its command. The refinement
theorem maps each action of the mediator to `Issue`, `Act`, `AnswerSuccess`,
`AnswerFailure` or a stuttering step.

### 4.2 Orchestrator

`OrchestratorProofs`, whatever is redelivered or raised: `ActiveSFCIsAreListed`, and
`ProcessingEnds`, the part of `NoneStuckInProcessing` about requests. The invariant
`AllInv` has the types, `LoopInv`, and `TablesInv`: the command identifier in the row of a
request is one generated for it (`CmdIDsAreOwn`), the command table has what the client
asked for (`EntriesAreOwn`), a request in processing has its command in the table and the
reply still to come (`RequestsAreAwaited`), and `ActiveIsListed`. The property about lists
would be inductive only with what the reply to a command can refer to, and the one about
requests only with whose command an identifier is, since a repetition replaces it.

The second part is about behaviours in which the broker delivers nothing twice.
`RequestsAreInOnePlace` (`OnceInv`): a request is in at most one of the places where one
can be, and its row tells which. `RequestsFollowLifecycle` follows: between the
regulator's reading of the failed requests and its writing nobody else touches one of
them. `NothingStuckInProcessing` proves `NoneStuckInProcessing` for requests, SFCs and
SFCIs. For the last two it needs `Ordered`, which holds without redeliveries and
exceptions: the waiting requests are emptied before the loop goes on
(`WaitingIsEmptied`), every request comes after the ADD_SFC of its SFC, in each of the
queues it passes through (`AddedBefore`), and what is in processing has a command about it
under way (`WorkingInv`).

`TheTableTellsTheTruth` proves `TableTellsTruth` on top of `OnceInv`, for a client that waits
for each request to be settled. Its invariant is `TruthInv`: one request at most is not
settled (`OneOpen`), and since a request that is anywhere in the system is not settled
(`HolderLemma`), a request that waits excludes every command under way (`AloneLemma`) and two
commands are never under way together; an SFCI whose command is under way is
IN_PROCESSING (`Marked`); a reply that reports success is right about what is
deployed (`RpliesHonest`), and stays right because nothing is carried out before it is read.
The regulator repeats only what is not settled (`MayRepeat`), so that no row that has ended
moves.

### 4.3 Dispatcher

`OneOrchestrator`, `RuntimeStateIsLearnt`, `TableKeepsUnanswered`, `SFCsAreBalanced` and
`EveryPodHasOneOrchestrator`, from `DispatcherAssumption`. The invariant has `OneOwner`;
`NoneMissing`, by which a command in the table is in a queue, in a reply, lost or needs no
answer; `NewsInv`, which follows the last news about an orchestrator's equipment from the
orchestrator's queue to its reply and to the dispatcher's view of it, as long as `missing`
says that none of them was lost; and `InTurn` with `NothingTold`, by which the
orchestrators before the round-robin counter have one SFC more than those after it as
long as nothing was reported. The balance is not inductive without the counter's position.

`PodsArePartitioned` is arithmetic: `_computeOrchInstanceInfoList` adds up the parts that
`splitInteger` makes, and the theorem is about every number of pods and orchestrators.
`Before` is a closed form of the sums. That the recursive function `PodsBefore` equals it is
proved by looking at the least argument for which it would not (`PodsBeforeLemma`); that the
ranges cover every pod once follows from the closed form's growing by one part at a time.

### 4.4 Message agent

`NeverLost`, `CriticalSectionsExclude` and `OverrunBound`, from `MessageAgentAssumption`.
Besides the types the invariant has `HeadIsHandled` (a receiver inside its callback has the
broker's first message, and has put it before it acknowledges), `BusyHasMessage` and
`HolderHasLock`: a message leaves the broker only by an acknowledgement. For the bound the
number of messages in the in-memory queue is taken together with the number of workers
that have found room and have not put theirs (`Putters`).

### 4.5 VNF controller

`CoresAreNeverShared`, `VioIDsAreNeverShared` and `SuccessIsNeverMadeUp`, from
`VNFControllerAssumption` and `NoneAssumption`, whatever call of Docker raises. `LoopInv`
relates the command in hand to the table: entries are there just for the VNFIs the loop
has dealt with (`TableInv`). `CoreInv` says that the lists of idle cores have no core twice
and none that is in use; `VioInv` that the ranges of idle virtio IDs are disjoint, not empty
and without those in use, until they have run out once; `FailureInv` that a failed VNFI is
in the table only if the failure was or is going to be answered. Lemmas of their own
establish what `allocateSource`, `freeSource`, `allocateCPU` and `freeCPU` do to lists.

### 4.6 Dashboard

`AnswersAreOwn` and `RowsBelongToPage`. A queue is known in four places: to the thread that
made it, in the request queues, in the dictionaries of the loops and, through the answers
in it, in itself. `OneCommandPerQueue` says that all of them connect it with the same
command, and `OnlyQueuesMade` that none knows a queue that has not been made, so that a new
one brings no connection of an earlier command; `NothingNewLemma` leaves to each action only
that it makes no new connection. `Started` is needed because several threads may start the
Requester: what a loop reads from the class was set before it began. The second theorem needs `SizesAreOffered`: a request
in flight asks for a page size the user can choose.

### 4.7 Request handler

`RequestsLeaveOnce` proves `LeavesOnce`, from the assumptions of the module. A request is on
its way to the regulator once (`OnTheWay`); one that waits has arrived and was not sent
(`Waiting`); and what is left of a pass still waits (`PassOfWaiting`): messages are handled
between the steps of a pass, and this says that no message handled meanwhile takes a waiting
request away or sends it. `HandleLemma` says once for all types and branches of `handle` what
becomes of a request: it waits, it was sent, applied or rejected, or it is left as it was.

### 4.8 One SFCI from end to end

`DeletedMeansGone`, `TheTablesAgree`, `NeverDeletedAgain` and `DeployedAtFirst` are about
`SFCILifecycle`, for any number of commands, redelivered children and replies, and losses.
They assume `OneZone` (the SFCI lies in one zone, and that zone has an SFF and a VNF
controller, as TURBONET_ZONE and PUFFER_ZONE have) and that commands themselves are delivered
once. In SIMULATOR_ZONE one process is all controllers, so that there are no two tables to
compare; a command delivered twice is split twice, and its second half meets the tables of a
later time.

A lifecycle step is a step of the mediator or leaves it alone (`LifecycleIsMediator`), so that
the invariants of 4.1 hold. `LifecycleInv` adds four facts. The orchestrator has one command
open at most, and the row is IN_PROCESSING just then (`TableInv`). The queues are FIFO, so that
the children of the open command are the last ones in each, whatever old children are
delivered again before them (`OrderInv`); hence, once a controller has carried out a child of
the open command, its table is as that command wants it and stays so (`ActedInv`). A verdict
of success needs both children to have been carried out, which gives `SettledInv`: when the
row says ACTIVE or DELETED, both tables and both queues are done with the command before. None
of this follows from the row alone, because old children may be repeated at any time.

`DeletedIsGone` is part of `SettledInv`. `TablesAgree` also needs that, when nothing is lost,
the VNFs go wherever the SFCI goes (`VNFGoesInv`). `UndeletedForEver` follows a failed deletion
from the verdict on: the SFF controller has forgotten the SFCI, or will, and no later command
can be anything but a deletion, which it fails (`UndeletedInv`). `ActiveIsDeployedAtFirst` is
the hardest: the failure of a VNF child must be the first the mediator hears of it, although
the child is repeated and its repetition reports success (`FirstAnswerInv`, `RepeatInv`, by
which repetitions of a child lie side by side in a queue).

### 4.9 Recovery

`RecoveryMakesOneCommand` proves `OneCommandAtATime`, for any number of SFCs and SFCIs, of
notices, losses, failing commands and repetitions. The property itself excludes tasks that
time out and SFCs with several SFCIs, and it is false with either (section 3.2).

The regulator has no record of what it sent. The invariant `InStep` makes the record explicit:
for an SFCI that is alone in its SFC, `Fits` says for each state of its task which states the
two rows can have and which one request can be under way. A request is followed through queue,
batch, mediator and repetition by what happens to an SFC's requests in each place: a place
keeps, loses or gains one (`KeepsOf`, `LosesOf`, `GainsOf`, and the same for sequences), and
every step of orchestrator and mediator is a `PathStep`: one request stays, moves or ends, and
the state it was made for is written only as it ends. So when the regulator reads that state,
nothing is under way (`Quiet`), and what it sends next is alone again. An SFCI may for a
moment have tasks of both types, of a notice about the equipment and one about the classifier;
then it is active, nothing is under way, and `clearRedundantTasks` merges them before either is
looked at (`StartRoundLemma`).

From the same invariant `DeletedAreReleased` proves `DeletedSFCIsReleased` if the scenarios have
one SFCI per SFC and no timeouts, and not only after one notice (`SingleReleased`).

### 4.10 Only model-checked

* All liveness properties, which need fairness and ENABLED: `EventuallyAnswered`,
  `EventuallySettled`, `EventuallyGot`, `ServedWhenValid`, `EventuallyRecovered`,
  `TasksEnd`, `TargetReached`, `SettlesOnTruth`, `WaitEnds`, `NavigationEnds`.
* `WithinLimits` of `Scaling`. Its second half holds from an initial number within the limit
  and for limits up to two only; with more, the scenarios decide. Its first half rests on which
  SFCIs come first in a sorted list, and what a sort computes is induction over data.
* `DeletedSFCIsReleased` of `Recovery` for SFCs with several SFCIs, and while tasks time out:
  tasks then compete for the rows of one SFC and several requests about it are under way, so
  that the argument of 4.9, which follows one request, does not apply.

## 5. What is not modelled

* The measurer and the gRPC queries: polling without protocol state.
* The mapping algorithms and performance models: optimisation over real numbers. Where
  their result matters it is left open.
* What controllers install in BESS, P4 and OpenFlow switches; the classifier and network
  controllers, the P4 controller and the simulator appear as processes that answer.
* The copy of the network state in the orchestrator with its pruning, and starting and
  killing orchestrator processes.
* Server agent, topology generator and toolkit: start-up scripts and data generation.
* Most of the dashboard's JavaScript: `echarts`, `bootstrap` and `bootstrap-table` are
  third-party libraries, and most of `frontend/src` is the views, demo pages and router of
  the ant-design-pro template (its `MultiTab` is placed in no layout). They are by far the
  most lines of JavaScript in the repository, and hold no logic of this system.
* Several orchestrators and zones are composed only in `Dispatcher`; otherwise they share
  tables but no SFC.

## 6. Plan

Done: all modules of section 2, the proofs of section 4.

What could come next:

1. An invariant for SFCs with several SFCIs in `Recovery`, by counting the requests of each.
2. The first half of `WithinLimits` of `Scaling`: the last SFCI on the list is valid and has no
   DEL_SFCI under way.
