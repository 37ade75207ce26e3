------------------------- MODULE MessageAgentProofs -------------------------
(***************************************************************************)
(* Proofs about the message agent for any number of queues, sockets,       *)
(* workers and messages, any limit of a queue and any number of faults.    *)
(***************************************************************************)
EXTENDS MessageAgent, FiniteSetTheorems, TLAPS

-----------------------------------------------------------------------------
(***************************************************************************)
(* The inductive invariant.                                                *)
(***************************************************************************)
ReceiverLabel == {"consuming", "locked", "toAck", "reopen", "ended"}
CallLabel     == {"notYet", "toSend", "waiting", "answered"}
WorkerState   == [doing : {"nothing", "check", "put"}, msg : 0..MaxMsgs]

TypeOK ==
    /\ sent \in [Inbox -> 0..MaxMsgs]
    /\ lost \in [Queues -> SUBSET Msgs]
    /\ broker \in [Queues -> Seq(Msgs)]
    /\ receiver \in [Queues -> ReceiverLabel]
    /\ msgQueues \in [Inbox -> Seq(Msgs)]
    /\ threadLock \in Queues \cup {"main", None}
    /\ reading \in Inbox \cup {None}
    /\ got \in [Inbox -> Seq(Msgs)]
    /\ call \in [Sockets -> [Msgs -> CallLabel]]
    /\ worker \in [Sockets -> [Workers -> WorkerState]]
    /\ ackFailures \in Nat /\ outages \in Nat /\ lostAnswers \in Nat

\* The messages that have reached the component's side of inbox b.
Arrived(b) == Range(msgQueues[b]) \cup Range(got[b])

\* A receiver inside callback has its message at the head of the broker's queue, and
\* has put it once it is about to acknowledge.
HeadIsHandled ==
    \A q \in Queues :
        /\ receiver[q] \in {"locked", "toAck"} => broker[q] # <<>>
        /\ receiver[q] = "toAck" => Head(broker[q]) \in Arrived(q)

\* A worker in Store has a message.
BusyHasMessage ==
    \A s \in Sockets, w \in Workers :
        worker[s][w].doing # "nothing" => worker[s][w].msg \in Msgs

\* A thread inside its critical section is the one the lock belongs to.
HolderHasLock ==
    /\ \A q \in Queues : receiver[q] = "locked" => threadLock = q
    /\ reading # None => threadLock = "main"

IInv == TypeOK /\ HeadIsHandled /\ BusyHasMessage /\ HolderHasLock /\ NothingLost
-----------------------------------------------------------------------------
(***************************************************************************)
(* Lemmas about the messages in a queue.                                   *)
(***************************************************************************)
\* Putting a message into a queue adds it to the messages in it and keeps the head.
LEMMA AppendLemma ==
    ASSUME NEW S, NEW s \in Seq(S), NEW e \in S
    PROVE  /\ Append(s, e) \in Seq(S)
           /\ Append(s, e) # <<>>
           /\ Len(Append(s, e)) = Len(s) + 1
           /\ s # <<>> => Head(Append(s, e)) = Head(s)
           /\ Range(Append(s, e)) = Range(s) \cup {e}
  <1>1. /\ Append(s, e) \in Seq(S)
        /\ Len(Append(s, e)) = Len(s) + 1
        /\ Len(s) \in Nat
    OBVIOUS
  <1>0. Append(s, e) # <<>>
    BY <1>1
  <1>2. /\ DOMAIN s = 1..Len(s)
        /\ DOMAIN Append(s, e) = 1..(Len(s) + 1)
        /\ Len(s) \in Nat
        /\ \A k \in 1..Len(s) : Append(s, e)[k] = s[k]
        /\ Append(s, e)[Len(s) + 1] = e
    OBVIOUS
  <1>3. Range(Append(s, e)) = Range(s) \cup {e}
    BY <1>2 DEF Range
  <1>4. ASSUME s # <<>> PROVE Head(Append(s, e)) = Head(s)
    <2>1. Head(s) = s[1] /\ 1 \in 1..Len(s)
      BY <1>4
    <2>2. Head(Append(s, e)) = Append(s, e)[1]
      BY <1>0, <1>1
    <2>3. QED BY <1>2, <2>1, <2>2
  <1>5. QED BY <1>0, <1>1, <1>3, <1>4

\* Taking the head out of a queue leaves the other messages in it.
LEMMA TailLemma ==
    ASSUME NEW S, NEW s \in Seq(S), s # <<>>
    PROVE  /\ Head(s) \in S
           /\ Tail(s) \in Seq(S)
           /\ Len(Tail(s)) = Len(s) - 1
           /\ Head(s) \in Range(s)
           /\ Range(s) = {Head(s)} \cup Range(Tail(s))
  <1>1. /\ Head(s) \in S
        /\ Tail(s) \in Seq(S)
        /\ Len(Tail(s)) = Len(s) - 1
    OBVIOUS
  <1>2. /\ Len(s) \in Nat \ {0}
        /\ DOMAIN s = 1..Len(s)
        /\ DOMAIN Tail(s) = 1..(Len(s) - 1)
        /\ Head(s) = s[1]
        /\ \A k \in 1..(Len(s) - 1) : Tail(s)[k] = s[k + 1]
    OBVIOUS
  <1>3. Head(s) \in Range(s)
    BY <1>2 DEF Range
  <1>4. Range(Tail(s)) \subseteq Range(s)
    BY <1>2 DEF Range
  <1>5. ASSUME NEW x \in Range(s) PROVE x \in {Head(s)} \cup Range(Tail(s))
    <2>1. PICK k \in 1..Len(s) : x = s[k]
      BY <1>2 DEF Range
    <2>2. CASE k = 1
      BY <1>2, <2>1, <2>2
    <2>3. CASE k # 1
      <3>1. k - 1 \in 1..(Len(s) - 1) /\ Tail(s)[k - 1] = s[k]
        BY <1>2, <2>1, <2>3
      <3>2. QED BY <1>2, <2>1, <3>1 DEF Range
    <2>4. QED BY <2>2, <2>3
  <1>6. QED BY <1>1, <1>3, <1>4, <1>5
-----------------------------------------------------------------------------
(***************************************************************************)
(* The invariant holds at the start and every step keeps it.               *)
(***************************************************************************)
LEMMA InitLemma == Init => IInv
  <1> SUFFICES ASSUME Init PROVE IInv
    OBVIOUS
  <1>1. TypeOK
    BY MessageAgentAssumption
    DEF Init, TypeOK, Inbox, ReceiverLabel, CallLabel, WorkerState, Idle
  <1>2. HeadIsHandled /\ BusyHasMessage /\ HolderHasLock
    BY DEF Init, HeadIsHandled, BusyHasMessage, HolderHasLock, Idle
  <1>3. NothingLost
    <2>1. ASSUME NEW q \in Queues, NEW m \in 1..sent[q] PROVE FALSE
      <3>1. sent[q] = 0
        BY <2>1 DEF Init, Inbox
      <3>2. QED BY <2>1, <3>1
    <2>2. ASSUME NEW s \in Sockets, NEW m \in Msgs PROVE call[s][m] # "answered"
      BY <2>2 DEF Init
    <2>3. QED BY <2>1, <2>2 DEF NothingLost
  <1>4. QED BY <1>1, <1>2, <1>3 DEF IInv

\* sendMsg: the broker's queue keeps its head.
LEMMA sendMsgLemma ==
    ASSUME IInv, NEW q \in Queues, sendMsg(q)
    PROVE  IInv'
  <1> DEFINE n == sent[q] + 1
  <1>0. q \in Inbox /\ n \in Msgs /\ sent[q] \in 0..MaxMsgs /\ MaxMsgs \in Nat
    BY MessageAgentAssumption DEF IInv, TypeOK, sendMsg, Inbox, Msgs
  <1>1. sent' = [sent EXCEPT ![q] = n] /\ sent'[q] = n
    BY <1>0 DEF IInv, TypeOK, sendMsg
  <1>2. /\ broker[q] \in Seq(Msgs) /\ Append(broker[q], n) \in Seq(Msgs)
        /\ Append(broker[q], n) # <<>>
        /\ broker[q] # <<>> => Head(Append(broker[q], n)) = Head(broker[q])
        /\ Range(Append(broker[q], n)) = Range(broker[q]) \cup {n}
    BY <1>0, AppendLemma DEF IInv, TypeOK
  <1>3. /\ sent' \in [Inbox -> 0..MaxMsgs]
        /\ lost' \in [Queues -> SUBSET Msgs]
        /\ broker' \in [Queues -> Seq(Msgs)]
    <2>1. n \in 0..MaxMsgs
      BY <1>0 DEF Msgs
    <2>2. sent' \in [Inbox -> 0..MaxMsgs]
      BY <1>0, <1>1, <2>1 DEF IInv, TypeOK
    <2>3. \/ broker' = [broker EXCEPT ![q] = Append(@, n)] /\ UNCHANGED lost
          \/ lost' = [lost EXCEPT ![q] = @ \cup {n}] /\ UNCHANGED broker
      BY <1>1 DEF sendMsg
    <2>4. lost' \in [Queues -> SUBSET Msgs]
      <3>1. lost \in [Queues -> SUBSET Msgs]
        BY DEF IInv, TypeOK
      <3>2. lost[q] \cup {n} \in SUBSET Msgs
        BY <3>1, <1>0
      <3>3. lost' = lost \/ lost' = [lost EXCEPT ![q] = lost[q] \cup {n}]
        BY <2>3
      <3>4. QED BY <3>1, <3>2, <3>3
    <2>5. broker' \in [Queues -> Seq(Msgs)]
      BY <1>2, <2>3 DEF IInv, TypeOK
    <2>6. QED BY <2>2, <2>4, <2>5
  <1>4. TypeOK'
    BY <1>3 DEF IInv, TypeOK, sendMsg, mainVars, rpcVars, faultVars
  <1>5. HeadIsHandled'
    <2> SUFFICES ASSUME NEW p \in Queues
                 PROVE  /\ receiver[p] \in {"locked", "toAck"} => broker'[p] # <<>>
                        /\ receiver[p] = "toAck" => Head(broker'[p]) \in Arrived(p)
      BY DEF HeadIsHandled, sendMsg, mainVars, Arrived
    <2>1. broker'[p] = broker[p] \/ (p = q /\ broker'[p] = Append(broker[q], n))
      BY <1>1 DEF sendMsg, IInv, TypeOK
    <2>2. QED BY <2>1, <1>2 DEF IInv, HeadIsHandled
  <1>6. BusyHasMessage' /\ HolderHasLock'
    BY DEF IInv, BusyHasMessage, HolderHasLock, sendMsg, mainVars, rpcVars
  <1>7. ASSUME NEW p \in Queues, NEW m \in 1..sent'[p]
        PROVE  m \in lost'[p] \cup Range(broker'[p]) \cup Arrived(p)
    <2>1. CASE p # q
      BY <2>1, <1>1 DEF sendMsg, IInv, TypeOK, NothingLost, Arrived, Inbox
    <2>2. CASE p = q
      <3>1. m \in 1..sent[q] \/ m = n
        BY <2>2, <1>0, <1>1, <1>7
      <3>2. \/ lost'[p] = lost[q] /\ broker'[p] = Append(broker[q], n)
            \/ lost'[p] = lost[q] \cup {n} /\ broker'[p] = broker[q]
        BY <2>2, <1>1 DEF sendMsg, IInv, TypeOK
      <3>3. m \in 1..sent[q] => m \in lost[q] \cup Range(broker[q]) \cup Arrived(q)
        BY DEF IInv, NothingLost, Arrived
      <3>4. QED BY <2>2, <3>1, <3>2, <3>3, <1>2
    <2>3. QED BY <2>1, <2>2
  <1>8. NothingLost'
    BY <1>7 DEF NothingLost, IInv, Arrived, sendMsg, mainVars, rpcVars
  <1>9. QED BY <1>4, <1>5, <1>6, <1>8 DEF IInv

\* The steps of a receiver that put, acknowledge and send nothing.
LEMMA ReceiverMovesLemma ==
    ASSUME IInv, NEW q \in Queues,
           \/ CallbackAcquire(q) \/ CallbackRaise(q) \/ AckFails(q)
           \/ Reopen(q) \/ ReopenRaises(q)
    PROVE  IInv'
  <1>1. /\ UNCHANGED <<sent, lost, broker, msgQueues, reading, got, call, worker, lostAnswers>>
        /\ \E label \in {"locked", "reopen", "consuming", "ended"} :
              /\ receiver' = [receiver EXCEPT ![q] = label]
              /\ label = "locked" => broker[q] # <<>> /\ threadLock = None /\ threadLock' = q
        /\ threadLock' = threadLock \/ (threadLock = None /\ threadLock' = q)
        /\ ackFailures' \in Nat /\ outages' \in Nat
    BY DEF CallbackAcquire, CallbackRaise, AckFails, Reopen, ReopenRaises, GoTo,
           mainVars, rpcVars, faultVars, IInv, TypeOK
  <1>2. TypeOK'
    BY <1>1 DEF IInv, TypeOK, ReceiverLabel
  <1>3. HeadIsHandled'
    BY <1>1 DEF IInv, TypeOK, HeadIsHandled, Arrived
  <1>4. BusyHasMessage'
    BY <1>1 DEF IInv, BusyHasMessage
  <1>5. HolderHasLock'
    BY <1>1, MessageAgentAssumption DEF IInv, TypeOK, HolderHasLock
  <1>6. NothingLost'
    BY <1>1 DEF IInv, NothingLost
  <1>7. QED BY <1>2, <1>3, <1>4, <1>5, <1>6 DEF IInv

\* callback puts its message, which stays at the head of the broker's queue.
LEMMA CallbackPutLemma ==
    ASSUME IInv, NEW q \in Queues, CallbackPut(q)
    PROVE  IInv'
  <1> DEFINE m == Head(broker[q])
  <1>0. /\ q \in Inbox /\ broker[q] \in Seq(Msgs) /\ broker[q] # <<>>
        /\ msgQueues[q] \in Seq(Msgs) /\ threadLock = q
    BY DEF IInv, TypeOK, Inbox, HeadIsHandled, HolderHasLock, CallbackPut, GoTo
  <1>1. m \in Msgs
    BY <1>0, TailLemma
  <1>2. /\ Append(msgQueues[q], m) \in Seq(Msgs)
        /\ Range(Append(msgQueues[q], m)) = Range(msgQueues[q]) \cup {m}
    BY <1>0, <1>1, AppendLemma
  <1>3. /\ msgQueues' \in [Inbox -> Seq(Msgs)]
        /\ \A b \in Inbox : msgQueues'[b] = IF b = q THEN Append(msgQueues[q], m) ELSE msgQueues[b]
    BY <1>0, <1>2 DEF IInv, TypeOK, CallbackPut
  <1>4. /\ UNCHANGED <<sent, lost, broker, reading, got, call, worker, ackFailures, outages,
                       lostAnswers>>
        /\ receiver[q] = "locked" /\ receiver' = [receiver EXCEPT ![q] = "toAck"]
        /\ threadLock' = None
    BY DEF CallbackPut, GoTo, mainVars, rpcVars, faultVars
  <1>5. TypeOK'
    BY <1>3, <1>4 DEF IInv, TypeOK, ReceiverLabel
  <1>6. \A b \in Inbox : Arrived(b) \subseteq Arrived(b)'
    BY <1>2, <1>3, <1>4 DEF Arrived
  <1>7. HeadIsHandled'
    <2>1. m \in Arrived(q)'
      BY <1>0, <1>2, <1>3, <1>4 DEF Arrived
    <2>2. QED BY <1>0, <1>4, <1>6, <2>1 DEF IInv, TypeOK, HeadIsHandled, Inbox
  <1>8. BusyHasMessage' /\ HolderHasLock'
    <2>1. BusyHasMessage'
      BY <1>4 DEF IInv, BusyHasMessage
    <2>2. \A p \in Queues : receiver'[p] # "locked"
      BY <1>0, <1>4 DEF IInv, TypeOK, HolderHasLock
    <2>3. reading = None
      BY <1>0, <1>4, MessageAgentAssumption DEF IInv, HolderHasLock
    <2>4. QED BY <1>4, <2>1, <2>2, <2>3 DEF HolderHasLock
  <1>9. NothingLost'
    BY <1>4, <1>6 DEF IInv, NothingLost, Arrived, Inbox
  <1>10. QED BY <1>5, <1>7, <1>8, <1>9 DEF IInv

\* basic_ack: the message that leaves the broker has arrived.
LEMMA CallbackAckLemma ==
    ASSUME IInv, NEW q \in Queues, CallbackAck(q)
    PROVE  IInv'
  <1>0. /\ broker[q] \in Seq(Msgs) /\ broker[q] # <<>>
        /\ Head(broker[q]) \in Arrived(q)
    BY DEF IInv, TypeOK, HeadIsHandled, CallbackAck, GoTo
  <1>1. /\ Tail(broker[q]) \in Seq(Msgs)
        /\ Range(broker[q]) = {Head(broker[q])} \cup Range(Tail(broker[q]))
    BY <1>0, TailLemma
  <1>2. /\ UNCHANGED <<sent, lost, msgQueues, threadLock, reading, got, call, worker,
                       ackFailures, outages, lostAnswers>>
        /\ receiver' = [receiver EXCEPT ![q] = "consuming"]
        /\ broker' = [broker EXCEPT ![q] = Tail(broker[q])]
    BY DEF CallbackAck, GoTo, mainVars, rpcVars, faultVars
  <1>3. TypeOK'
    BY <1>1, <1>2 DEF IInv, TypeOK, ReceiverLabel
  <1>4. HeadIsHandled' /\ BusyHasMessage' /\ HolderHasLock'
    BY <1>2 DEF IInv, TypeOK, HeadIsHandled, BusyHasMessage, HolderHasLock, Arrived
  <1>5. ASSUME NEW p \in Queues, NEW m \in 1..sent[p]
        PROVE  m \in lost[p] \cup Range(broker'[p]) \cup Arrived(p)
    <2>1. m \in lost[p] \cup Range(broker[p]) \cup Arrived(p)
      BY DEF IInv, NothingLost, Arrived
    <2>2. broker'[p] = IF p = q THEN Tail(broker[q]) ELSE broker[p]
      BY <1>2 DEF IInv, TypeOK
    <2>3. QED BY <1>0, <1>1, <2>1, <2>2
  <1>6. NothingLost'
    BY <1>2, <1>5 DEF IInv, NothingLost, Arrived
  <1>7. QED BY <1>3, <1>4, <1>6 DEF IInv

\* getMsg takes a message out of an in-memory queue, or finds it empty; after an
\* exception it keeps the lock.
LEMMA MainLemma ==
    ASSUME IInv, MainStep
    PROVE  IInv'
  <1>1. CASE (\E b \in Inbox : GetMsgAcquire(b)) \/ GetMsgEmpty
    <2>1. /\ UNCHANGED <<sent, lost, broker, receiver, msgQueues, got, call, worker,
                         ackFailures, outages, lostAnswers>>
          /\ \/ threadLock = None /\ threadLock' = "main" /\ reading' \in Inbox
             \/ reading # None /\ threadLock' = None /\ reading' = None
      BY <1>1 DEF GetMsgAcquire, GetMsgEmpty, mqVars, rpcVars, faultVars
    <2>2. TypeOK'
      BY <2>1 DEF IInv, TypeOK
    <2>3. HeadIsHandled' /\ BusyHasMessage' /\ NothingLost'
      BY <2>1 DEF IInv, HeadIsHandled, BusyHasMessage, NothingLost, Arrived
    <2>4. HolderHasLock'
      BY <2>1, MessageAgentAssumption DEF IInv, TypeOK, HolderHasLock
    <2>5. QED BY <2>2, <2>3, <2>4 DEF IInv
  <1>2. CASE GetMsgRaise \/ GetMsg
    <2> DEFINE b == reading
    <2>0. /\ UNCHANGED <<sent, lost, broker, receiver, call, worker,
                         ackFailures, outages, lostAnswers>>
          /\ reading # None /\ msgQueues[b] # <<>> /\ reading' = None
          /\ msgQueues' = [msgQueues EXCEPT ![b] = Tail(msgQueues[b])]
          /\ got' = [got EXCEPT ![b] = Append(got[b], Head(msgQueues[b]))]
          /\ threadLock' \in {None, threadLock}
      BY <1>2 DEF GetMsgRaise, GetMsg, mqVars, rpcVars, faultVars
    <2>1. /\ b \in Inbox /\ msgQueues[b] \in Seq(Msgs) /\ got[b] \in Seq(Msgs)
          /\ threadLock = "main"
      BY <2>0 DEF IInv, TypeOK, HolderHasLock
    <2>2. /\ Head(msgQueues[b]) \in Msgs /\ Tail(msgQueues[b]) \in Seq(Msgs)
          /\ Range(msgQueues[b]) = {Head(msgQueues[b])} \cup Range(Tail(msgQueues[b]))
      BY <2>0, <2>1, TailLemma
    <2>3. /\ Append(got[b], Head(msgQueues[b])) \in Seq(Msgs)
          /\ Range(Append(got[b], Head(msgQueues[b]))) = Range(got[b]) \cup {Head(msgQueues[b])}
      BY <2>1, <2>2, AppendLemma
    <2>4. TypeOK'
      BY <2>0, <2>1, <2>2, <2>3 DEF IInv, TypeOK
    <2>5. \A c \in Inbox : Arrived(c)' = Arrived(c)
      <3> SUFFICES ASSUME NEW c \in Inbox PROVE Arrived(c)' = Arrived(c)
        OBVIOUS
      <3>1. CASE c = b
        <4>1. msgQueues'[c] = Tail(msgQueues[b]) /\ got'[c] = Append(got[b], Head(msgQueues[b]))
          BY <3>1, <2>0, <2>1 DEF IInv, TypeOK
        <4>2. QED BY <4>1, <3>1, <2>2, <2>3 DEF Arrived
      <3>2. CASE c # b
        BY <3>2, <2>0 DEF Arrived, IInv, TypeOK
      <3>3. QED BY <3>1, <3>2
    <2>6. HeadIsHandled' /\ BusyHasMessage'
      BY <2>0, <2>5 DEF IInv, HeadIsHandled, BusyHasMessage, Inbox
    <2>7. HolderHasLock'
      <3>1. \A q \in Queues : receiver[q] # "locked"
        BY <2>1, MessageAgentAssumption DEF IInv, HolderHasLock
      <3>2. QED BY <2>0, <3>1 DEF HolderHasLock
    <2>8. NothingLost'
      BY <2>0, <2>5 DEF IInv, NothingLost, Arrived, Inbox
    <2>9. QED BY <2>4, <2>6, <2>7, <2>8 DEF IInv
  <1>3. QED BY <1>1, <1>2 DEF MainStep

\* sendMsgByRPC and Store: a message counts as answered once a worker has put it.
LEMMA sendMsgByRPCLemma ==
    ASSUME IInv, NEW s \in Sockets, sendMsgByRPC(s)
    PROVE  IInv'
  <1> DEFINE n == sent[s] + 1
  <1>0. s \in Inbox /\ n \in Msgs /\ sent[s] \in 0..MaxMsgs /\ MaxMsgs \in Nat /\ n \in 0..MaxMsgs
    BY MessageAgentAssumption DEF IInv, TypeOK, sendMsgByRPC, Inbox, Msgs
  <1>1. /\ sent' = [sent EXCEPT ![s] = n] /\ sent'[s] = n
        /\ call' = [call EXCEPT ![s][n] = "toSend"]
        /\ UNCHANGED <<lost, broker, receiver, msgQueues, threadLock, reading, got, worker,
                       ackFailures, outages, lostAnswers>>
    BY <1>0 DEF IInv, TypeOK, sendMsgByRPC, mqVars, mainVars, faultVars
  <1>2. TypeOK'
    BY <1>0, <1>1 DEF IInv, TypeOK, CallLabel
  <1>3. HeadIsHandled' /\ BusyHasMessage' /\ HolderHasLock'
    BY <1>1 DEF IInv, HeadIsHandled, BusyHasMessage, HolderHasLock, Arrived
  <1>4. \A q \in Queues : sent'[q] = sent[q]
    BY <1>1, MessageAgentAssumption DEF IInv, TypeOK, Inbox
  <1>5. \A t \in Sockets, m \in Msgs : call'[t][m] = "answered" => call[t][m] = "answered"
    BY <1>0, <1>1 DEF IInv, TypeOK
  <1>6. NothingLost'
    BY <1>1, <1>4, <1>5 DEF IInv, NothingLost
  <1>7. QED BY <1>2, <1>3, <1>6 DEF IInv

\* The steps of a worker that put nothing.
LEMMA WorkerMovesLemma ==
    ASSUME IInv, NEW s \in Sockets, NEW w \in Workers,
           \/ \E m \in Msgs : StoreCalled(s, w, m)
           \/ StoreCheck(s, w)
           \/ StoreRaise(s, w)
    PROVE  IInv'
  <1>0. /\ UNCHANGED <<sent, lost, broker, receiver, msgQueues, threadLock, reading, got,
                       ackFailures, outages, lostAnswers>>
        /\ \E state \in WorkerState :
              /\ state.doing # "nothing" => state.msg \in Msgs
              /\ worker' = [worker EXCEPT ![s][w] = state]
        /\ \/ call' = call
           \/ \E m \in Msgs, label \in {"toSend", "waiting"} : call' = [call EXCEPT ![s][m] = label]
    <2> DEFINE now == worker[s][w]
    <2>0. now \in WorkerState /\ MaxMsgs \in Nat /\ Msgs \subseteq 0..MaxMsgs
      BY MessageAgentAssumption DEF IInv, TypeOK, Msgs
    <2>1. CASE \E m \in Msgs : StoreCalled(s, w, m)
      <3>1. PICK m \in Msgs : StoreCalled(s, w, m)
        BY <2>1
      <3>2. [doing |-> "check", msg |-> m] \in WorkerState
        BY <2>0 DEF WorkerState
      <3>3. QED BY <3>1, <3>2 DEF StoreCalled, mqVars, mainVars, faultVars
    <2>2. CASE StoreCheck(s, w)
      <3>1. [doing |-> "put", msg |-> now.msg] \in WorkerState /\ now.msg \in Msgs
        BY <2>0, <2>2 DEF WorkerState, StoreCheck, IInv, BusyHasMessage
      <3>2. worker' = [worker EXCEPT ![s][w] = [doing |-> "put", msg |-> now.msg]]
        <4>1. [now EXCEPT !.doing = "put"] = [doing |-> "put", msg |-> now.msg]
          BY <2>0 DEF WorkerState
        <4>2. QED BY <2>2, <4>1 DEF StoreCheck
      <3>3. QED BY <2>2, <3>1, <3>2 DEF StoreCheck, mqVars, mainVars, faultVars
    <2>3. CASE StoreRaise(s, w)
      <3>1. Idle \in WorkerState /\ Idle.doing = "nothing" /\ now.msg \in Msgs
        BY <2>0, <2>3 DEF Idle, WorkerState, StoreRaise, IInv, BusyHasMessage
      <3>2. QED BY <2>3, <3>1 DEF StoreRaise, mqVars, mainVars, faultVars
    <2>4. QED BY <2>1, <2>2, <2>3
  <1>1. TypeOK'
    <2>1. worker' \in [Sockets -> [Workers -> WorkerState]]
      BY <1>0 DEF IInv, TypeOK
    <2>2. call' \in [Sockets -> [Msgs -> CallLabel]]
      <3>1. CASE call' = call
        BY <3>1 DEF IInv, TypeOK
      <3>2. ASSUME NEW m \in Msgs, NEW label \in {"toSend", "waiting"},
                   call' = [call EXCEPT ![s][m] = label]
            PROVE  call' \in [Sockets -> [Msgs -> CallLabel]]
        BY <3>2 DEF IInv, TypeOK, CallLabel
      <3>3. QED BY <1>0, <3>1, <3>2
    <2>3. QED BY <1>0, <2>1, <2>2 DEF IInv, TypeOK
  <1>2. BusyHasMessage'
    BY <1>0 DEF IInv, TypeOK, BusyHasMessage
  <1>3. HeadIsHandled' /\ HolderHasLock'
    BY <1>0 DEF IInv, HeadIsHandled, HolderHasLock, Arrived
  <1>4. \A t \in Sockets, m \in Msgs : call'[t][m] = "answered" => call[t][m] = "answered"
    <2>1. ASSUME NEW n \in Msgs, NEW label \in {"toSend", "waiting"},
                 call' = [call EXCEPT ![s][n] = label],
                 NEW t \in Sockets, NEW m \in Msgs, call'[t][m] = "answered"
          PROVE  call[t][m] = "answered"
      BY <2>1 DEF IInv, TypeOK
    <2>2. QED BY <1>0, <2>1
  <1>5. NothingLost'
    BY <1>0, <1>4 DEF IInv, NothingLost
  <1>6. QED BY <1>1, <1>2, <1>3, <1>5 DEF IInv

LEMMA StorePutLemma ==
    ASSUME IInv, NEW s \in Sockets, NEW w \in Workers, StorePut(s, w)
    PROVE  IInv'
  <1> DEFINE m == worker[s][w].msg
  <1>0. s \in Inbox /\ m \in Msgs /\ msgQueues[s] \in Seq(Msgs)
    BY DEF IInv, TypeOK, BusyHasMessage, StorePut, Inbox
  <1>1. /\ Append(msgQueues[s], m) \in Seq(Msgs)
        /\ Range(Append(msgQueues[s], m)) = Range(msgQueues[s]) \cup {m}
    BY <1>0, AppendLemma
  <1>2. /\ UNCHANGED <<sent, lost, broker, receiver, threadLock, reading, got,
                       ackFailures, outages>>
        /\ lostAnswers' \in Nat
        /\ msgQueues' = [msgQueues EXCEPT ![s] = Append(msgQueues[s], m)]
        /\ worker' = [worker EXCEPT ![s][w] = Idle]
        /\ \E label \in {"answered", "toSend"} : call' = [call EXCEPT ![s][m] = label]
    BY DEF StorePut, mqVars, mainVars, faultVars, IInv, TypeOK
  <1>3. Idle \in WorkerState /\ Idle.doing = "nothing"
    BY MessageAgentAssumption DEF Idle, WorkerState
  <1>4. TypeOK'
    BY <1>0, <1>1, <1>2, <1>3 DEF IInv, TypeOK, CallLabel
  <1>5. BusyHasMessage'
    BY <1>2, <1>3 DEF IInv, TypeOK, BusyHasMessage
  <1>6. /\ \A b \in Inbox : Arrived(b) \subseteq Arrived(b)'
        /\ m \in Arrived(s)'
    <2>1. \A b \in Inbox : msgQueues'[b] = IF b = s THEN Append(msgQueues[s], m) ELSE msgQueues[b]
      BY <1>2 DEF IInv, TypeOK
    <2>2. QED BY <1>0, <1>1, <1>2, <2>1 DEF Arrived
  <1>7. HeadIsHandled' /\ HolderHasLock'
    BY <1>2, <1>6 DEF IInv, HeadIsHandled, HolderHasLock, Inbox
  <1>8. \A t \in Sockets, k \in Msgs :
            call'[t][k] = "answered" => call[t][k] = "answered" \/ (t = s /\ k = m)
    BY <1>0, <1>2 DEF IInv, TypeOK
  <1>9. NothingLost'
    <2>1. \A b \in Inbox : Arrived(b)' = Range(msgQueues'[b]) \cup Range(got'[b])
      BY DEF Arrived
    <2>2. \A q \in Queues : \A k \in 1..sent[q] :
              k \in lost[q] \cup Range(broker[q]) \cup Arrived(q)'
      BY <1>6 DEF IInv, NothingLost, Arrived, Inbox
    <2>3. \A t \in Sockets : \A k \in Msgs : call'[t][k] = "answered" => k \in Arrived(t)'
      BY <1>6, <1>8 DEF IInv, NothingLost, Arrived, Inbox
    <2>4. QED BY <1>2, <2>1, <2>2, <2>3 DEF NothingLost, Inbox
  <1>10. QED BY <1>4, <1>5, <1>7, <1>9 DEF IInv

LEMMA NextLemma == IInv /\ [Next]_vars => IInv'
  <1> SUFFICES ASSUME IInv, [Next]_vars PROVE IInv'
    OBVIOUS
  <1>1. ASSUME NEW q \in Queues, sendMsg(q) \/ ReceiverStep(q) PROVE IInv'
    BY <1>1, sendMsgLemma, ReceiverMovesLemma, CallbackPutLemma, CallbackAckLemma
    DEF ReceiverStep
  <1>2. ASSUME NEW s \in Sockets, sendMsgByRPC(s) PROVE IInv'
    BY <1>2, sendMsgByRPCLemma
  <1>3. ASSUME NEW s \in Sockets, NEW w \in Workers,
               WorkerStep(s, w) \/ \E m \in Msgs : StoreCalled(s, w, m)
        PROVE  IInv'
    BY <1>3, WorkerMovesLemma, StorePutLemma DEF WorkerStep
  <1>4. CASE MainStep
    BY <1>4, MainLemma
  <1>5. CASE UNCHANGED vars
    BY <1>5 DEF vars, mqVars, mainVars, rpcVars, faultVars, IInv, TypeOK, HeadIsHandled,
                BusyHasMessage, HolderHasLock, NothingLost, Arrived
  <1>6. QED BY <1>1, <1>2, <1>3, <1>4, <1>5 DEF Next
-----------------------------------------------------------------------------
(***************************************************************************)
(* What follows for every behaviour.                                       *)
(***************************************************************************)
LEMMA Invariance == Spec => []IInv
  BY InitLemma, NextLemma, PTL DEF Spec

\* No message that RabbitMQ accepted, and none whose Store was answered, is ever lost
\* between the broker or the socket and the component, whatever queue is full and
\* however often connections break (QueueReciever.callback, sendMsgByRPC).
THEOREM NeverLost == Spec => []NothingLost
  <1>1. IInv => NothingLost
    BY DEF IInv
  <1>2. QED BY <1>1, Invariance, PTL

\* getMsg and the receiver threads exclude each other: never are two of them between
\* acquire and release of threadLock, exceptions and lost connections included.
OneInCriticalSection ==
    /\ \A p, q \in Queues : receiver[p] = "locked" /\ receiver[q] = "locked" => p = q
    /\ reading # None => \A q \in Queues : receiver[q] # "locked"

\* The exclusion holds in every state (QueueReciever.callback, getMsg).
THEOREM CriticalSectionsExclude == Spec => []OneInCriticalSection
  <1>1. IInv => OneInCriticalSection
    BY MessageAgentAssumption DEF IInv, HolderHasLock, OneInCriticalSection
  <1>2. QED BY <1>1, Invariance, PTL
-----------------------------------------------------------------------------
(***************************************************************************)
(* How far a queue can grow.                                               *)
(***************************************************************************)
\* The workers of a socket that have found room and have not put their message yet.
Putters(s) == {w \in Workers : worker[s][w].doing = "put"}

\* No more workers than there are hold a message to put, and the set is finite.
LEMMA PuttersLemma ==
    ASSUME NEW s \in Sockets
    PROVE  /\ IsFiniteSet(Putters(s)) /\ Cardinality(Putters(s)) \in Nat
           /\ Cardinality(Workers) \in Nat
           /\ Cardinality(Putters(s)) <= Cardinality(Workers)
           /\ \A w \in Workers \ Putters(s) : Cardinality(Putters(s)) < Cardinality(Workers)
  <1>1. IsFiniteSet(Workers) /\ Putters(s) \subseteq Workers
    BY MessageAgentAssumption DEF Putters
  <1>2. IsFiniteSet(Putters(s)) /\ Cardinality(Putters(s)) <= Cardinality(Workers)
    BY <1>1, FS_Subset
  <1>3. Cardinality(Putters(s)) \in Nat /\ Cardinality(Workers) \in Nat
    BY <1>1, <1>2, FS_CardinalityType
  <1>4. ASSUME NEW w \in Workers \ Putters(s)
        PROVE  Cardinality(Putters(s)) # Cardinality(Workers)
    BY <1>1, <1>4, FS_Subset
  <1>5. QED BY <1>2, <1>3, <1>4

\* A step that lengthens no socket's queue and adds no putter keeps the bound.
LEMMA NoGrowthLemma ==
    ASSUME IInv, IInv', OverrunIsBounded,
           \A s \in Sockets : /\ Len(msgQueues'[s]) <= Len(msgQueues[s])
                              /\ Putters(s)' = Putters(s)
    PROVE  OverrunIsBounded'
  <1> SUFFICES ASSUME NEW s \in Sockets
               PROVE  Len(msgQueues'[s]) + Cardinality(Putters(s)')
                        < MESSAGE_AGENT_MAX_QUEUE_SIZE + Cardinality(Workers)
    BY DEF OverrunIsBounded, Putters
  <1>1. Len(msgQueues[s]) + Cardinality(Putters(s))
            < MESSAGE_AGENT_MAX_QUEUE_SIZE + Cardinality(Workers)
    BY DEF OverrunIsBounded, Putters
  <1>2. Len(msgQueues[s]) \in Nat /\ Len(msgQueues'[s]) \in Nat
    <2>1. msgQueues \in [Inbox -> Seq(Msgs)] /\ msgQueues' \in [Inbox -> Seq(Msgs)] /\ s \in Inbox
      BY DEF IInv, TypeOK, Inbox
    <2>2. QED BY <2>1
  <1>3. Putters(s)' = Putters(s) /\ Len(msgQueues'[s]) <= Len(msgQueues[s])
    OBVIOUS
  <1>4. Cardinality(Putters(s)) \in Nat /\ Cardinality(Workers) \in Nat
    BY PuttersLemma
  <1>5. QED BY <1>1, <1>2, <1>3, <1>4, MessageAgentAssumption

\* Store's check adds a putter only while there is room in the queue.
LEMMA StoreCheckBounded ==
    ASSUME IInv, OverrunIsBounded, NEW s \in Sockets, NEW w \in Workers, StoreCheck(s, w)
    PROVE  OverrunIsBounded'
  <1>1. /\ \A t \in Sockets \ {s} : Putters(t)' = Putters(t)
        /\ Putters(s)' = Putters(s) \cup {w}
        /\ w \in Workers \ Putters(s)
    <2>1. [worker[s][w] EXCEPT !.doing = "put"].doing = "put"
      BY DEF IInv, TypeOK, WorkerState
    <2>2. /\ worker[s][w].doing = "check"
          /\ worker' = [worker EXCEPT ![s][w] = [worker[s][w] EXCEPT !.doing = "put"]]
      BY DEF StoreCheck
    <2>3. QED BY <2>1, <2>2 DEF Putters, IInv, TypeOK
  <1>2. msgQueues' = msgQueues /\ Len(msgQueues[s]) < MESSAGE_AGENT_MAX_QUEUE_SIZE
    BY MessageAgentAssumption DEF StoreCheck, IsFull, IInv, TypeOK, Inbox
  <1>3. Cardinality(Putters(s)') = Cardinality(Putters(s)) + 1
    BY <1>1, PuttersLemma, FS_AddElement
  <1>4. Cardinality(Putters(s)) < Cardinality(Workers) /\ Cardinality(Putters(s)) \in Nat
        /\ Cardinality(Workers) \in Nat
    BY <1>1, PuttersLemma
  <1>5. Len(msgQueues[s]) \in Nat
    BY DEF IInv, TypeOK, Inbox
  <1>6. Len(msgQueues'[s]) + Cardinality(Putters(s)')
            < MESSAGE_AGENT_MAX_QUEUE_SIZE + Cardinality(Workers)
    BY <1>2, <1>3, <1>4, <1>5, MessageAgentAssumption
  <1>7. ASSUME NEW t \in Sockets \ {s}
        PROVE  Len(msgQueues'[t]) + Cardinality(Putters(t)')
                 < MESSAGE_AGENT_MAX_QUEUE_SIZE + Cardinality(Workers)
    BY <1>1, <1>2 DEF OverrunIsBounded, Putters
  <1>8. QED BY <1>6, <1>7 DEF OverrunIsBounded, Putters

\* A put makes a message in the queue out of a putter.
LEMMA StorePutBounded ==
    ASSUME IInv, OverrunIsBounded, NEW s \in Sockets, NEW w \in Workers, StorePut(s, w)
    PROVE  OverrunIsBounded'
  <1>1. /\ \A t \in Sockets \ {s} : Putters(t)' = Putters(t)
        /\ Putters(s)' = Putters(s) \ {w}
        /\ w \in Putters(s)
    BY DEF Putters, StorePut, IInv, TypeOK, WorkerState, Idle
  <1>2. /\ \A t \in Sockets \ {s} : msgQueues'[t] = msgQueues[t]
        /\ Len(msgQueues'[s]) = Len(msgQueues[s]) + 1
        /\ Len(msgQueues[s]) \in Nat
    <2>1. worker[s][w].msg \in Msgs /\ msgQueues[s] \in Seq(Msgs) /\ s \in Inbox
      BY DEF IInv, TypeOK, BusyHasMessage, StorePut, Inbox
    <2>2. Len(Append(msgQueues[s], worker[s][w].msg)) = Len(msgQueues[s]) + 1
      BY <2>1, AppendLemma
    <2>3. QED BY <2>1, <2>2 DEF StorePut, IInv, TypeOK, Inbox
  <1>3. Cardinality(Putters(s)') = Cardinality(Putters(s)) - 1
    BY <1>1, PuttersLemma, FS_RemoveElement
  <1>4. Cardinality(Putters(s)) \in Nat /\ Cardinality(Workers) \in Nat
    BY PuttersLemma
  <1>5. Len(msgQueues[s]) + Cardinality(Putters(s))
            < MESSAGE_AGENT_MAX_QUEUE_SIZE + Cardinality(Workers)
    BY DEF OverrunIsBounded, Putters
  <1>6. Len(msgQueues'[s]) + Cardinality(Putters(s)')
            < MESSAGE_AGENT_MAX_QUEUE_SIZE + Cardinality(Workers)
    BY <1>2, <1>3, <1>4, <1>5, MessageAgentAssumption
  <1>7. ASSUME NEW t \in Sockets \ {s}
        PROVE  Len(msgQueues'[t]) + Cardinality(Putters(t)')
                 < MESSAGE_AGENT_MAX_QUEUE_SIZE + Cardinality(Workers)
    BY <1>1, <1>2 DEF OverrunIsBounded, Putters
  <1>8. QED BY <1>6, <1>7 DEF OverrunIsBounded, Putters

LEMMA OverrunStep == IInv /\ IInv' /\ OverrunIsBounded /\ [Next]_vars => OverrunIsBounded'
  <1> SUFFICES ASSUME IInv, IInv', OverrunIsBounded, [Next]_vars PROVE OverrunIsBounded'
    OBVIOUS
  <1>1. ASSUME NEW q \in Queues, sendMsg(q) \/ ReceiverStep(q) PROVE OverrunIsBounded'
    <2>1. worker' = worker
      BY <1>1 DEF sendMsg, ReceiverStep, CallbackAcquire, CallbackPut, CallbackRaise, CallbackAck,
                  AckFails, Reopen, ReopenRaises, rpcVars
    <2>2. \A s \in Sockets : msgQueues'[s] = msgQueues[s]
      <3>1. msgQueues' = msgQueues \/ msgQueues' = [msgQueues EXCEPT ![q] = Append(@, Head(broker[q]))]
        BY <1>1 DEF sendMsg, ReceiverStep, CallbackAcquire, CallbackPut, CallbackRaise, CallbackAck,
                    AckFails, Reopen, ReopenRaises
      <3>2. \A s \in Sockets : s # q /\ s \in Inbox
        BY MessageAgentAssumption DEF Inbox
      <3>3. QED BY <3>1, <3>2 DEF IInv, TypeOK
    <2>3. \A s \in Sockets : Len(msgQueues[s]) \in Nat
      BY DEF IInv, TypeOK, Inbox
    <2>4. QED BY <2>1, <2>2, <2>3, NoGrowthLemma DEF Putters
  <1>2. ASSUME NEW s \in Sockets, sendMsgByRPC(s) PROVE OverrunIsBounded'
    BY <1>2, NoGrowthLemma DEF sendMsgByRPC, OverrunIsBounded
  <1>3. ASSUME NEW s \in Sockets, NEW w \in Workers,
               StoreRaise(s, w) \/ \E m \in Msgs : StoreCalled(s, w, m)
        PROVE  OverrunIsBounded'
    <2>1. msgQueues' = msgQueues
      BY <1>3 DEF StoreRaise, StoreCalled
    <2>2. /\ worker[s][w].doing # "put"
          /\ \E state : worker' = [worker EXCEPT ![s][w] = state] /\ state.doing # "put"
      BY <1>3 DEF StoreRaise, StoreCalled, Idle
    <2>3. \A t \in Sockets : Putters(t)' = Putters(t)
      <3>1. PICK state : worker' = [worker EXCEPT ![s][w] = state] /\ state.doing # "put"
        BY <2>2
      <3>2. \A t \in Sockets, x \in Workers :
                worker'[t][x].doing = "put" <=> worker[t][x].doing = "put"
        BY <2>2, <3>1 DEF IInv, TypeOK
      <3>3. QED BY <3>2 DEF Putters
    <2>4. \A t \in Sockets : Len(msgQueues[t]) \in Nat
      BY DEF IInv, TypeOK, Inbox
    <2>5. QED BY <2>1, <2>3, <2>4, NoGrowthLemma
  <1>4. ASSUME NEW s \in Sockets, NEW w \in Workers, StoreCheck(s, w) \/ StorePut(s, w)
        PROVE  OverrunIsBounded'
    BY <1>4, StoreCheckBounded, StorePutBounded
  <1>5. CASE MainStep
    <2>1. worker' = worker
      BY <1>5 DEF MainStep, GetMsgAcquire, GetMsgEmpty, GetMsgRaise, GetMsg, rpcVars
    <2>2. \/ msgQueues' = msgQueues
          \/ /\ reading \in Inbox /\ msgQueues[reading] # <<>>
             /\ msgQueues' = [msgQueues EXCEPT ![reading] = Tail(@)]
      BY <1>5 DEF MainStep, GetMsgAcquire, GetMsgEmpty, GetMsgRaise, GetMsg, IInv, TypeOK
    <2>3. ASSUME NEW s \in Sockets PROVE Len(msgQueues'[s]) <= Len(msgQueues[s])
      <3>1. msgQueues[s] \in Seq(Msgs) /\ Len(msgQueues[s]) \in Nat
        BY DEF IInv, TypeOK, Inbox
      <3>2. CASE msgQueues'[s] = msgQueues[s]
        BY <3>1, <3>2
      <3>3. CASE msgQueues[s] # <<>> /\ msgQueues'[s] = Tail(msgQueues[s])
        BY <3>1, <3>3, TailLemma
      <3>4. QED BY <2>2, <3>2, <3>3 DEF IInv, TypeOK, Inbox
    <2>4. QED BY <2>1, <2>3, NoGrowthLemma DEF Putters
  <1>6. CASE UNCHANGED vars
    BY <1>6 DEF vars, rpcVars, OverrunIsBounded
  <1>7. QED BY <1>1, <1>2, <1>3, <1>4, <1>5, <1>6 DEF Next, WorkerStep

\* The in-memory queue of a socket outgrows MESSAGE_AGENT_MAX_QUEUE_SIZE by less than
\* the number of workers of its pool, although Store tests the size and puts the message
\* in two steps that no lock joins (MsgStorageServicer.Store).
THEOREM OverrunBound == Spec => []OverrunIsBounded
  <1>1. Init => OverrunIsBounded
    <2> SUFFICES ASSUME Init, NEW s \in Sockets
                 PROVE  Len(msgQueues[s]) + Cardinality(Putters(s))
                          < MESSAGE_AGENT_MAX_QUEUE_SIZE + Cardinality(Workers)
      BY DEF OverrunIsBounded, Putters
    <2>1. msgQueues[s] = <<>> /\ Putters(s) = {}
      BY DEF Init, Inbox, Putters, Idle
    <2>2. Len(msgQueues[s]) = 0 /\ Cardinality(Putters(s)) = 0
      BY <2>1, FS_EmptySet
    <2>3. QED BY <2>2, PuttersLemma, MessageAgentAssumption
  <1>2. QED BY <1>1, OverrunStep, Invariance, PTL DEF Spec
=============================================================================
