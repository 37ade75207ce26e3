---------------------------- MODULE MessageAgent ----------------------------
(***************************************************************************)
(* base/messageAgent.py: how a message gets from its sender into a         *)
(* component.  A component has one in-memory queue for each RabbitMQ queue *)
(* it listens on, filled by a receiver thread (QueueReciever), and one for *)
(* each gRPC socket, filled by a pool of worker threads (Store).  Its main *)
(* thread takes messages out by polling (getMsg).  getMsg and the          *)
(* receivers share `threadLock', one lock for the whole process that is    *)
(* not re-entrant; the workers do not use it.                              *)
(*                                                                         *)
(* Python has no ownership of a Lock.  `threadLock' holds the thread that  *)
(* acquired it, so that the properties can tell a lock that is in use from *)
(* one that nobody will release any more.                                  *)
(***************************************************************************)
EXTENDS Naturals, Sequences, FiniteSets, Functions

CONSTANTS
    Queues,                        \* RabbitMQ queues the component listens on
    Sockets,                       \* gRPC sockets it listens on
    Workers,                       \* threads of a socket's pool (12 in the code)
    MESSAGE_AGENT_MAX_QUEUE_SIZE,
    MaxMsgs,                       \* bound: messages sent to each queue or socket
    Undecodable,                   \* numbers of messages _decodeMessage raises on
    MaxAckFailures,                \* bound: connections lost before an acknowledgement
    MaxOutages,                    \* bound: times the broker cannot be reached again
    MaxLostAnswers,                \* bound: answers of Store that do not reach the caller
    None

ASSUME MessageAgentAssumption ==
    /\ Queues \cap Sockets = {}
    /\ IsFiniteSet(Workers)
    /\ MESSAGE_AGENT_MAX_QUEUE_SIZE \in Nat \ {0}
    /\ MaxMsgs \in Nat
    /\ Undecodable \subseteq 1..MaxMsgs
    /\ MaxAckFailures \in Nat
    /\ MaxOutages \in Nat
    /\ MaxLostAnswers \in Nat
    /\ None \notin Queues \cup Sockets
    /\ None # "main"
    /\ "main" \notin Queues

Inbox == Queues \cup Sockets    \* the keys of msgQueues

\* The n-th message sent to an inbox is n.
Msgs == 1..MaxMsgs

VARIABLES
    sent,        \* per inbox: number of messages sent to it so far
    lost,        \* per RabbitMQ queue: messages whose sendMsg raised
    broker,      \* per RabbitMQ queue: messages RabbitMQ has and nobody has acknowledged
    receiver,    \* per RabbitMQ queue: where its receiver thread is
    msgQueues,   \* per inbox: the in-memory queue
    threadLock,  \* None, "main" or the queue whose receiver acquired it
    reading,     \* the inbox getMsg was called for, None between two calls
    got,         \* per inbox: what getMsg has taken out of its queue
    call,        \* per socket and message: where its sendMsgByRPC is
    worker,      \* per socket and worker: what it is doing
    ackFailures, outages, lostAnswers

faultVars == <<ackFailures, outages, lostAnswers>>
rpcVars   == <<call, worker>>
mqVars    == <<lost, broker, receiver>>
mainVars  == <<reading, got>>
vars == <<sent, mqVars, msgQueues, threadLock, mainVars, rpcVars, faultVars>>

Idle == [doing |-> "nothing", msg |-> 0]

Init ==
    /\ sent = [b \in Inbox |-> 0]
    /\ lost = [q \in Queues |-> {}]
    /\ broker = [q \in Queues |-> <<>>]
    /\ receiver = [q \in Queues |-> "consuming"]
    /\ msgQueues = [b \in Inbox |-> <<>>]
    /\ threadLock = None
    /\ reading = None
    /\ got = [b \in Inbox |-> <<>>]
    /\ call = [s \in Sockets |-> [m \in Msgs |-> "notYet"]]
    /\ worker = [s \in Sockets |-> [w \in Workers |-> Idle]]
    /\ ackFailures = 0 /\ outages = 0 /\ lostAnswers = 0
-----------------------------------------------------------------------------
(***************************************************************************)
(* sendMsg: an exception is logged and swallowed, and the message is gone. *)
(***************************************************************************)
sendMsg(q) ==
    /\ sent[q] < MaxMsgs
    /\ sent' = [sent EXCEPT ![q] = @ + 1]
    /\ \/ /\ broker' = [broker EXCEPT ![q] = Append(@, sent'[q])]
          /\ UNCHANGED lost
       \/ /\ lost' = [lost EXCEPT ![q] = @ \cup {sent'[q]}]
          /\ UNCHANGED broker
    /\ UNCHANGED <<receiver, msgQueues, threadLock, mainVars, rpcVars, faultVars>>
-----------------------------------------------------------------------------
(***************************************************************************)
(* The receiver thread.  RabbitMQ hands it the oldest message, which stays *)
(* at the head of `broker' until it is acknowledged: a new connection gets *)
(* it again.                                                               *)
(***************************************************************************)
GoTo(q, here, there) ==
    /\ receiver[q] = here
    /\ receiver' = [receiver EXCEPT ![q] = there]

\* callback, up to the lock.
CallbackAcquire(q) ==
    /\ broker[q] # <<>>
    /\ threadLock = None
    /\ GoTo(q, "consuming", "locked")
    /\ threadLock' = q
    /\ UNCHANGED <<sent, lost, broker, msgQueues, mainVars, rpcVars, faultVars>>

IsFull(b) == Len(msgQueues[b]) >= MESSAGE_AGENT_MAX_QUEUE_SIZE

\* callback, the lock is released after the message has been put.
CallbackPut(q) ==
    /\ ~IsFull(q)
    /\ GoTo(q, "locked", "toAck")
    /\ msgQueues' = [msgQueues EXCEPT ![q] = Append(@, Head(broker[q]))]
    /\ threadLock' = None
    /\ UNCHANGED <<sent, lost, broker, mainVars, rpcVars, faultVars>>

\* Wrong variant: the message is acknowledged and dropped.
CallbackDrop(q) ==
    /\ IsFull(q)
    /\ GoTo(q, "locked", "toAck")
    /\ threadLock' = None
    /\ UNCHANGED <<sent, lost, broker, msgQueues, mainVars, rpcVars, faultVars>>

\* callback raises ValueError between acquire and release: the lock stays taken.
CallbackRaise(q) ==
    /\ IsFull(q)
    /\ GoTo(q, "locked", "reopen")
    /\ UNCHANGED <<sent, lost, broker, msgQueues, threadLock, mainVars, rpcVars, faultVars>>

\* basic_ack
CallbackAck(q) ==
    /\ GoTo(q, "toAck", "consuming")
    /\ broker' = [broker EXCEPT ![q] = Tail(@)]
    /\ UNCHANGED <<sent, lost, msgQueues, threadLock, mainVars, rpcVars, faultVars>>

\* The connection is lost before the acknowledgement has reached the broker.
AckFails(q) ==
    /\ ackFailures < MaxAckFailures
    /\ GoTo(q, "toAck", "reopen")
    /\ ackFailures' = ackFailures + 1
    /\ UNCHANGED <<sent, lost, broker, msgQueues, threadLock, mainVars, rpcVars,
                   outages, lostAnswers>>

\* Wrong variant: the new channel does not consume.
ReopenWithoutConsume(q) ==
    /\ GoTo(q, "reopen", "ended")
    /\ UNCHANGED <<sent, lost, broker, msgQueues, threadLock, mainVars, rpcVars, faultVars>>

\* _recvMsg after an exception: a new connection and a new channel.
Reopen(q) ==
    /\ GoTo(q, "reopen", "consuming")
    /\ UNCHANGED <<sent, lost, broker, msgQueues, threadLock, mainVars, rpcVars, faultVars>>

\* _openConnection raises inside the handler of the exception: the thread ends.
ReopenRaises(q) ==
    /\ outages < MaxOutages
    /\ GoTo(q, "reopen", "ended")
    /\ outages' = outages + 1
    /\ UNCHANGED <<sent, lost, broker, msgQueues, threadLock, mainVars, rpcVars,
                   ackFailures, lostAnswers>>
-----------------------------------------------------------------------------
(***************************************************************************)
(* getMsg.  The component's loop calls it for its inboxes over and over;   *)
(* it sleeps before it acquires the lock.                                  *)
(***************************************************************************)
GetMsgAcquire(b) ==
    /\ reading = None
    /\ threadLock = None
    /\ threadLock' = "main"
    /\ reading' = b
    /\ UNCHANGED <<sent, mqVars, msgQueues, got, rpcVars, faultVars>>

GetMsgEmpty ==
    /\ reading # None
    /\ msgQueues[reading] = <<>>
    /\ threadLock' = None
    /\ reading' = None
    /\ UNCHANGED <<sent, mqVars, msgQueues, got, rpcVars, faultVars>>

\* _decodeMessage raises before the lock is released.
GetMsgRaise ==
    /\ reading # None
    /\ msgQueues[reading] # <<>>
    /\ Head(msgQueues[reading]) \in Undecodable
    /\ msgQueues' = [msgQueues EXCEPT ![reading] = Tail(@)]
    /\ got' = [got EXCEPT ![reading] = Append(@, Head(msgQueues[reading]))]
    /\ reading' = None
    /\ UNCHANGED <<sent, mqVars, threadLock, rpcVars, faultVars>>

GetMsg ==
    /\ reading # None
    /\ msgQueues[reading] # <<>>
    /\ Head(msgQueues[reading]) \notin Undecodable
    /\ msgQueues' = [msgQueues EXCEPT ![reading] = Tail(@)]
    /\ got' = [got EXCEPT ![reading] = Append(@, Head(msgQueues[reading]))]
    /\ reading' = None
    /\ threadLock' = None
    /\ UNCHANGED <<sent, mqVars, rpcVars, faultVars>>
-----------------------------------------------------------------------------
(***************************************************************************)
(* sendMsgByRPC and Store.  The sender repeats the call until it has been  *)
(* answered.  Senders of different messages run concurrently.              *)
(***************************************************************************)
sendMsgByRPC(s) ==
    /\ sent[s] < MaxMsgs
    /\ sent' = [sent EXCEPT ![s] = @ + 1]
    /\ call' = [call EXCEPT ![s][sent'[s]] = "toSend"]
    /\ UNCHANGED <<mqVars, msgQueues, threadLock, mainVars, worker, faultVars>>

StoreCalled(s, w, m) ==
    /\ call[s][m] = "toSend"
    /\ worker[s][w] = Idle
    /\ call' = [call EXCEPT ![s][m] = "waiting"]
    /\ worker' = [worker EXCEPT ![s][w] = [doing |-> "check", msg |-> m]]
    /\ UNCHANGED <<sent, mqVars, msgQueues, threadLock, mainVars, faultVars>>

\* Wrong variant: the limit is not looked at.
StoreUnchecked(s, w) ==
    /\ worker[s][w].doing = "check"
    /\ worker' = [worker EXCEPT ![s][w].doing = "put"]
    /\ UNCHANGED <<sent, mqVars, msgQueues, threadLock, mainVars, call, faultVars>>

StoreCheck(s, w) ==
    /\ worker[s][w].doing = "check"
    /\ ~IsFull(s)
    /\ worker' = [worker EXCEPT ![s][w].doing = "put"]
    /\ UNCHANGED <<sent, mqVars, msgQueues, threadLock, mainVars, call, faultVars>>

\* The queue is full: the caller gets an RpcError and tries again.
StoreRaise(s, w) ==
    /\ worker[s][w].doing = "check"
    /\ IsFull(s)
    /\ call' = [call EXCEPT ![s][worker[s][w].msg] = "toSend"]
    /\ worker' = [worker EXCEPT ![s][w] = Idle]
    /\ UNCHANGED <<sent, mqVars, msgQueues, threadLock, mainVars, faultVars>>

StorePut(s, w) ==
    /\ worker[s][w].doing = "put"
    /\ msgQueues' = [msgQueues EXCEPT ![s] = Append(@, worker[s][w].msg)]
    /\ worker' = [worker EXCEPT ![s][w] = Idle]
    /\ \/ /\ call' = [call EXCEPT ![s][worker[s][w].msg] = "answered"]
          /\ UNCHANGED lostAnswers
       \/ /\ lostAnswers < MaxLostAnswers
          /\ lostAnswers' = lostAnswers + 1
          /\ call' = [call EXCEPT ![s][worker[s][w].msg] = "toSend"]
    /\ UNCHANGED <<sent, mqVars, threadLock, mainVars, ackFailures, outages>>
-----------------------------------------------------------------------------
ReceiverStep(q) ==
    \/ CallbackAcquire(q) \/ CallbackPut(q) \/ CallbackRaise(q)
    \/ CallbackAck(q) \/ AckFails(q) \/ Reopen(q) \/ ReopenRaises(q)

MainStep == (\E b \in Inbox : GetMsgAcquire(b)) \/ GetMsgEmpty \/ GetMsgRaise \/ GetMsg

WorkerStep(s, w) == StoreCheck(s, w) \/ StoreRaise(s, w) \/ StorePut(s, w)

Next ==
    \/ \E q \in Queues : sendMsg(q) \/ ReceiverStep(q)
    \/ \E s \in Sockets : sendMsgByRPC(s)
    \/ \E s \in Sockets, w \in Workers :
          WorkerStep(s, w) \/ \E m \in Msgs : StoreCalled(s, w, m)
    \/ MainStep

Spec == Init /\ [][Next]_vars

(***************************************************************************)
(* The threads run.  getMsg sleeps for a millisecond or more before it     *)
(* acquires the lock, and a message is handled in less, so that a thread   *)
(* that waits for the lock gets it in the end: strong fairness of the two  *)
(* acquisitions.  The loop of a component reads all its inboxes in turn.   *)
(* A sender that was refused tries again after a second.                   *)
(***************************************************************************)
Fairness ==
    /\ \A q \in Queues :
          /\ SF_vars(CallbackAcquire(q))
          /\ WF_vars(CallbackPut(q) \/ CallbackRaise(q))
          /\ WF_vars(CallbackAck(q))
          /\ WF_vars(Reopen(q))
    /\ \A b \in Inbox : SF_vars(GetMsgAcquire(b))
    /\ WF_vars(GetMsgEmpty \/ GetMsgRaise \/ GetMsg)
    /\ \A s \in Sockets, m \in Msgs : SF_vars(\E w \in Workers : StoreCalled(s, w, m))
    /\ \A s \in Sockets, w \in Workers : WF_vars(WorkerStep(s, w))

FairSpec == Spec /\ Fairness
-----------------------------------------------------------------------------
(***************************************************************************)
(* Properties                                                              *)
(***************************************************************************)
\* No message RabbitMQ has accepted and no message whose Store was answered gets
\* lost on its way to the component, whatever connection breaks and whatever
\* queue is full: callback acknowledges after it has put the message, and a sender
\* repeats a refused call (QueueReciever.callback, sendMsgByRPC).
NothingLost ==
    /\ \A q \in Queues : \A m \in 1..sent[q] :
          m \in lost[q] \cup Range(broker[q]) \cup Range(msgQueues[q]) \cup Range(got[q])
    /\ \A s \in Sockets : \A m \in Msgs :
          call[s][m] = "answered" => m \in Range(msgQueues[s]) \cup Range(got[s])

\* The lock is held by a thread outside its critical section: nobody releases it.
LeakedBy(t) ==
    /\ threadLock = t
    /\ IF t = "main" THEN reading = None ELSE receiver[t] # "locked"

\* Store tests the size and puts the message in two steps without a lock, so that
\* a socket's queue may grow beyond the limit, but by less than the number of
\* workers (MsgStorageServicer.Store).
OverrunIsBounded ==
    \A s \in Sockets :
        Len(msgQueues[s]) + Cardinality({w \in Workers : worker[s][w].doing = "put"})
            < MESSAGE_AGENT_MAX_QUEUE_SIZE + Cardinality(Workers)

\* Every message that has been stored or accepted by RabbitMQ reaches the component,
\* however often connections break and answers are lost, with three exceptions: a
\* receiver found its queue full and keeps the lock; getMsg keeps it, having met a
\* message it could not decode; the broker could not be reached again, which ends the
\* receiver (QueueReciever.callback, _recvMsg, getMsg, sendMsgByRPC).
EventuallyGot ==
    \A b \in Inbox : \A m \in Msgs :
        (m <= sent[b] /\ (b \in Queues => m \notin lost[b]))
            ~> \/ m \in Range(got[b])
               \/ \E q \in Queues : LeakedBy(q) /\ IsFull(q)
               \/ LeakedBy("main") /\ \E c \in Inbox : Range(got[c]) \cap Undecodable # {}
               \/ b \in Queues /\ receiver[b] = "ended" /\ outages > 0
=============================================================================
