-------------------------- MODULE DashboardRequester --------------------------
(***************************************************************************)
(* backend/dashboard/message.py: class Requester.  A thread of the web     *)
(* server that needs an answer of the simulator puts its request into a    *)
(* queue and waits, with a timeout, at a queue of its own; a message loop  *)
(* in the background sends the requests and hands the answers out by the   *)
(* identifier of the command.                                              *)
(*                                                                         *)
(* The first request starts the queue, the message agent and the loop.     *)
(* Nothing keeps two threads from finding them missing at the same time;   *)
(* then there are two queues, agents and loops, of which the class keeps   *)
(* the later ones.                                                         *)
(***************************************************************************)
EXTENDS Naturals, Sequences, FiniteSets, Bags, TLC

CONSTANTS
    None,
    Threads,            \* threads of the web server
    MaxRequests,        \* bound: requests of all threads
    MaxRepetitions      \* bound: commands stored twice because an RPC answer was lost

ASSUME RequesterAssumption ==
    Threads # {} /\ None \notin Threads /\ MaxRequests \in Nat \ {0} /\ MaxRepetitions \in Nat

cmdIDs == Threads \X (1..MaxRequests)

\* Every request makes a Queue() for its answer; they are numbered as they are made.
Queues == 1..MaxRequests

VARIABLES
    pc,              \* of a thread of the web server
    made,            \* number of commands of a thread
    asked,           \* latest Message of a thread: its command and the queue for the answer
    numQueues,       \* number of Queue() so far
    contents,        \* contents of these queues
    request_queue,   \* the class's queue: the thread that made it, or None
    message_agent,   \* likewise
    listening,       \* agents whose RPC server is started
    requests,        \* contents of the request queue a thread made
    loop,            \* state of the loop a thread started
    response_queue_list_dict, \* of a loop: the queues waiting for the answer to a command
    toSimulator,     \* bag of commands
    inbox,           \* replies at an agent
    repetitions

threadVars == <<pc, made, asked, numQueues>>
classVars  == <<request_queue, message_agent, listening>>
loopVars   == <<loop, response_queue_list_dict>>
requesterVars == <<threadVars, contents, classVars, requests, loopVars, toSimulator, inbox, repetitions>>

Message(id, queue) == [cmdID |-> id, response_queue |-> queue]

RequesterInit ==
    /\ pc = [t \in Threads |-> "idle"] /\ made = [t \in Threads |-> 0]
    /\ asked = [t \in Threads |-> None]
    /\ numQueues = 0 /\ contents = [q \in Queues |-> <<>>]
    /\ request_queue = None /\ message_agent = None /\ listening = {}
    /\ requests = [t \in Threads |-> <<>>]
    /\ loop = [t \in Threads |-> "none"]
    /\ response_queue_list_dict = [t \in Threads |-> [id \in cmdIDs |-> <<>>]]
    /\ toSimulator = EmptyBag
    /\ inbox = [t \in Threads |-> <<>>]
    /\ repetitions = 0
-----------------------------------------------------------------------------
(***************************************************************************)
(* _request, in a thread of the web server                                 *)
(***************************************************************************)
GoTo(t, label) == pc' = [pc EXCEPT ![t] = label]

MakeCommand(t) ==
    /\ pc[t] = "idle" /\ numQueues < MaxRequests
    /\ made' = [made EXCEPT ![t] = @ + 1]
    /\ GoTo(t, IF message_agent = None THEN "initQueue" ELSE "put")
    /\ UNCHANGED <<contents, classVars, requests, loopVars, toSimulator, inbox, repetitions>>

\* Wrong variant: a thread has one queue for all its answers.
RequestAtSameQueue(t) ==
    /\ MakeCommand(t) /\ made[t] < MaxRequests
    /\ IF asked[t] = None
       THEN numQueues' = numQueues + 1 /\ asked' = [asked EXCEPT ![t] = Message(<<t, made'[t]>>, numQueues')]
       ELSE asked' = [asked EXCEPT ![t].cmdID = <<t, made'[t]>>] /\ UNCHANGED numQueues

\* Message(SIMULATOR_IP, SIMULATOR_PORT, Queue(), SAMMessage(.., Command(.., uuid1()))).
Request(t) ==
    /\ MakeCommand(t)
    /\ numQueues' = numQueues + 1
    /\ asked' = [asked EXCEPT ![t] = Message(<<t, made'[t]>>, numQueues')]

InitQueue(t) ==
    /\ pc[t] = "initQueue"
    /\ request_queue' = t
    /\ GoTo(t, "initAgent")
    /\ UNCHANGED <<made, asked, numQueues, contents, message_agent, listening, requests, loopVars,
                   toSimulator, inbox, repetitions>>

InitAgent(t) ==
    /\ pc[t] = "initAgent"
    /\ message_agent' = t
    /\ GoTo(t, "initServer")
    /\ UNCHANGED <<made, asked, numQueues, contents, request_queue, listening, requests, loopVars,
                   toSimulator, inbox, repetitions>>

\* startMsgReceiverRPCServer of the agent the class has by now.
InitServer(t) ==
    /\ pc[t] = "initServer"
    /\ listening' = listening \cup {message_agent}
    /\ GoTo(t, "initThread")
    /\ UNCHANGED <<made, asked, numQueues, contents, request_queue, message_agent, requests, loopVars,
                   toSimulator, inbox, repetitions>>

InitThread(t) ==
    /\ pc[t] = "initThread"
    /\ loop' = [loop EXCEPT ![t] = "check"]
    /\ GoTo(t, "put")
    /\ UNCHANGED <<made, asked, numQueues, contents, classVars, requests, response_queue_list_dict,
                   toSimulator, inbox, repetitions>>

Put(t) ==
    /\ pc[t] = "put"
    /\ requests' = [requests EXCEPT ![request_queue] = Append(@, asked[t])]
    /\ GoTo(t, "wait")
    /\ UNCHANGED <<made, asked, numQueues, contents, classVars, loopVars, toSimulator, inbox, repetitions>>

\* What thread t finds at the queue it waits at.
AnswersFor(t) == contents[asked[t].response_queue]

Get(t) ==
    /\ pc[t] = "wait" /\ AnswersFor(t) # <<>>
    /\ contents' = [contents EXCEPT ![asked[t].response_queue] = Tail(@)]
    /\ GoTo(t, "idle")
    /\ UNCHANGED <<made, asked, numQueues, classVars, requests, loopVars, toSimulator, inbox, repetitions>>

\* Nothing has come within ten seconds; the view answers with status 500.  The queue is
\* still known to the loop.
TimeOut(t) ==
    /\ pc[t] = "wait" /\ AnswersFor(t) = <<>>
    /\ GoTo(t, "idle")
    /\ UNCHANGED <<made, asked, numQueues, contents, classVars, requests, loopVars, toSimulator,
                   inbox, repetitions>>
-----------------------------------------------------------------------------
(***************************************************************************)
(* _message_loop, in the thread that t has started                         *)
(***************************************************************************)
LoopTo(t, label) == loop' = [loop EXCEPT ![t] = label]

LoopCheck(t) ==
    /\ loop[t] = "check"
    /\ LoopTo(t, IF requests[request_queue] = <<>> THEN "receive" ELSE "get")
    /\ UNCHANGED <<threadVars, contents, classVars, requests, response_queue_list_dict, toSimulator,
                   inbox, repetitions>>

\* get blocks if another loop was faster.  An agent without RPC server raises; an RPC
\* whose answer is lost is repeated and the simulator has the command twice.
LoopSend(t) ==
    /\ loop[t] = "get" /\ requests[request_queue] # <<>>
    /\ requests' = [requests EXCEPT ![request_queue] = Tail(@)]
    /\ LET asks == Head(requests[request_queue])
           id   == asks.cmdID
       IN  \/ /\ message_agent \notin listening
              /\ LoopTo(t, "dead")
              /\ UNCHANGED <<response_queue_list_dict, toSimulator, repetitions>>
           \/ /\ message_agent \in listening
              /\ \/ toSimulator' = toSimulator (+) SetToBag({id}) /\ UNCHANGED repetitions
                 \/ /\ repetitions < MaxRepetitions
                    /\ repetitions' = repetitions + 1
                    /\ toSimulator' = toSimulator (+) SetToBag({id}) (+) SetToBag({id})
              /\ response_queue_list_dict' =
                     [response_queue_list_dict EXCEPT ![t][id] = Append(@, asks.response_queue)]
              /\ LoopTo(t, "receive")
    /\ UNCHANGED <<threadVars, contents, classVars, inbox>>

\* The answer is put into the queue that has waited for it longest.  One that nothing
\* waits for, in this loop, raises and ends it.
LoopAnswered(t, id) ==
    LET response_queues == response_queue_list_dict[t][id]
    IN  /\ inbox' = [inbox EXCEPT ![message_agent] = Tail(@)]
        /\ \/ /\ response_queues # <<>>
              /\ contents' = [contents EXCEPT ![Head(response_queues)] = Append(@, id)]
              /\ response_queue_list_dict' = [response_queue_list_dict EXCEPT ![t][id] = Tail(@)]
              /\ LoopTo(t, "check")
           \/ /\ response_queues = <<>>
              /\ LoopTo(t, "dead")
              /\ UNCHANGED <<contents, response_queue_list_dict>>

\* Wrong variant: the loop waits until an answer comes.
LoopReceiveBlocking(t) ==
    /\ loop[t] = "receive"
    /\ inbox[message_agent] # <<>>
    /\ LoopAnswered(t, Head(inbox[message_agent]))
    /\ UNCHANGED <<threadVars, classVars, requests, toSimulator, repetitions>>

LoopReceive(t) ==
    /\ loop[t] = "receive"
    /\ IF inbox[message_agent] = <<>>
       THEN LoopTo(t, "check") /\ UNCHANGED <<inbox, contents, response_queue_list_dict>>
       ELSE LoopAnswered(t, Head(inbox[message_agent]))
    /\ UNCHANGED <<threadVars, classVars, requests, toSimulator, repetitions>>

\* The simulator answers to the address of the dashboard, where any RPC server that
\* has been started may take the reply.
SimulatorAnswers(id) ==
    /\ BagIn(id, toSimulator)
    /\ toSimulator' = toSimulator (-) SetToBag({id})
    /\ \E agent \in listening : inbox' = [inbox EXCEPT ![agent] = Append(@, id)]
    /\ UNCHANGED <<threadVars, contents, classVars, requests, loopVars, repetitions>>
-----------------------------------------------------------------------------
ThreadStep(t) == Request(t) \/ InitQueue(t) \/ InitAgent(t) \/ InitServer(t) \/ InitThread(t)
                 \/ Put(t) \/ Get(t) \/ TimeOut(t)
LoopStep(t)   == LoopCheck(t) \/ LoopSend(t) \/ LoopReceive(t)
SimulatorStep == \E id \in cmdIDs : SimulatorAnswers(id)

RequesterNext == (\E t \in Threads : ThreadStep(t) \/ LoopStep(t)) \/ SimulatorStep
=============================================================================
