--------------------------- MODULE DashboardProofs ---------------------------
(***************************************************************************)
(* Proofs about the dashboard, for any number of rows, requests, threads   *)
(* and faults: what a waiting thread of the web server is given, and what  *)
(* the table of a monitoring page shows.                                   *)
(***************************************************************************)
EXTENDS Dashboard, FiniteSetTheorems, TLAPS

-----------------------------------------------------------------------------
(***************************************************************************)
(* The requester                                                           *)
(***************************************************************************)
Has(s, x) == \E n \in DOMAIN s : s[n] = x

LEMMA AppendLemma ==
    ASSUME NEW S, NEW s \in Seq(S), NEW x \in S
    PROVE  /\ Append(s, x) \in Seq(S)
           /\ \A y : Has(Append(s, x), y) => y = x \/ Has(s, y)
  BY DEF Has

LEMMA TailLemma ==
    ASSUME NEW S, NEW s \in Seq(S), s # <<>>
    PROVE  /\ Head(s) \in S /\ Tail(s) \in Seq(S)
           /\ Has(s, Head(s))
           /\ \A y : Has(Tail(s), y) => Has(s, y)
  <1>1. Len(s) \in Nat \ {0} /\ DOMAIN s = 1..Len(s) /\ Head(s) = s[1]
    OBVIOUS
  <1>2. /\ Tail(s) \in Seq(S) /\ DOMAIN Tail(s) = 1..(Len(s) - 1)
        /\ \A n \in DOMAIN Tail(s) : Tail(s)[n] = s[n + 1]
    BY <1>1
  <1>3. QED BY <1>1, <1>2 DEF Has

Messages  == [cmdID : cmdIDs, response_queue : Queues]
InitSteps == {"initQueue", "initAgent", "initServer", "initThread"}

RequesterTypes ==
    /\ pc \in [Threads -> InitSteps \cup {"idle", "put", "wait"}]
    /\ made \in [Threads -> Nat] /\ numQueues \in Nat
    /\ numQueues <= MaxRequests /\ \A t \in Threads : made[t] <= numQueues
    /\ contents \in [Queues -> Seq(cmdIDs)]
    /\ requests \in [Threads -> Seq(Messages)]
    /\ loop \in [Threads -> {"none", "check", "get", "receive", "dead"}]
    /\ response_queue_list_dict \in [Threads -> [cmdIDs -> Seq(Queues)]]
    /\ inbox \in [Threads -> Seq(cmdIDs)]

\* What a thread or a loop relies on was set by an earlier step.
Started ==
    /\ DOMAIN asked = Threads
    /\ \A t \in Threads : pc[t] # "idle" => asked[t] \in Messages
    /\ \A t \in Threads :
          (loop[t] # "none" \/ pc[t] \in InitSteps \ {"initQueue"}) => request_queue \in Threads
    /\ \A t \in Threads :
          (loop[t] # "none" \/ pc[t] \in {"initServer", "initThread"}) => message_agent \in Threads

\* A thread at work, a request queue, the dictionary of a loop or the queue itself
\* connects command id with queue q.
Connects(id, q) ==
    \/ \E t \in Threads : pc[t] # "idle" /\ asked[t] = Message(id, q)
    \/ \E t \in Threads : Has(requests[t], Message(id, q))
    \/ \E t \in Threads : Has(response_queue_list_dict[t][id], q)
    \/ Has(contents[q], id)

\* Whatever they are doing, they never disagree about the command a queue was made for.
OneCommandPerQueue ==
    \A q \in Queues : \A id1, id2 \in cmdIDs : Connects(id1, q) /\ Connects(id2, q) => id1 = id2

OnlyQueuesMade == \A q \in Queues : \A id \in cmdIDs : Connects(id, q) => q <= numQueues

AnswerInv == RequesterTypes /\ Started /\ OneCommandPerQueue /\ OnlyQueuesMade

\* A step that connects no command with a queue anew keeps the invariant.
LEMMA NothingNewLemma ==
    ASSUME AnswerInv, numQueues' = numQueues, (RequesterTypes /\ Started)',
           \A q \in Queues : \A id \in cmdIDs : Connects(id, q)' => Connects(id, q)
    PROVE  AnswerInv'
  BY DEF AnswerInv, OneCommandPerQueue, OnlyQueuesMade

\* A request brings a queue that nothing knows yet.
LEMMA RequestKeeps ==
    ASSUME AnswerInv, NEW t \in Threads, Request(t)
    PROVE  AnswerInv'
  <1> DEFINE new == <<t, made[t] + 1>>
             q0  == numQueues + 1
  <1>1. /\ made' = [made EXCEPT ![t] = made[t] + 1]
        /\ numQueues' = q0 /\ numQueues < MaxRequests
        /\ asked' = [asked EXCEPT ![t] = Message(new, q0)]
        /\ \E label \in {"initQueue", "put"} : pc' = [pc EXCEPT ![t] = label]
        /\ UNCHANGED <<contents, classVars, requests, loopVars, inbox>>
    BY DEF Request, MakeCommand, GoTo, AnswerInv, RequesterTypes
  <1>2. new \in cmdIDs /\ q0 \in Queues /\ Message(new, q0) \in Messages
    BY <1>1, RequesterAssumption DEF cmdIDs, Queues, Messages, Message, AnswerInv, RequesterTypes
  <1>3. RequesterTypes'
    BY <1>1, RequesterAssumption DEF AnswerInv, RequesterTypes, InitSteps, classVars, loopVars
  <1>4. Started'
    BY <1>1, <1>2 DEF AnswerInv, Started, RequesterTypes, InitSteps, classVars, loopVars
  <1>5. ASSUME NEW q \in Queues, NEW id \in cmdIDs, Connects(id, q)'
        PROVE  Connects(id, q) \/ (id = new /\ q = q0)
    <2> HIDE DEF new, q0
    <2>1. CASE \E u \in Threads : pc'[u] # "idle" /\ asked'[u] = Message(id, q)
      <3>1. PICK u \in Threads : pc'[u] # "idle" /\ asked'[u] = Message(id, q)
        BY <2>1
      <3>2. CASE u = t
        BY <1>1, <3>1, <3>2 DEF Message, AnswerInv, Started
      <3>3. CASE u # t
        BY <1>1, <3>1, <3>3 DEF Connects, AnswerInv, Started, RequesterTypes
      <3>4. QED BY <3>2, <3>3
    <2>2. CASE ~\E u \in Threads : pc'[u] # "idle" /\ asked'[u] = Message(id, q)
      BY <1>1, <1>5, <2>2 DEF Connects, classVars, loopVars
    <2>3. QED BY <2>1, <2>2
  <1>6. \A id \in cmdIDs : ~Connects(id, q0)
    BY <1>1, <1>2 DEF AnswerInv, OnlyQueuesMade, RequesterTypes
  <1>7. OneCommandPerQueue'
    BY <1>5, <1>6 DEF OneCommandPerQueue, AnswerInv
  <1>8. OnlyQueuesMade'
    BY <1>1, <1>2, <1>5, <1>6 DEF OnlyQueuesMade, AnswerInv, RequesterTypes, Queues
  <1>9. QED BY <1>3, <1>4, <1>7, <1>8 DEF AnswerInv

\* The other steps of a thread move its message on, or take an answer out of a queue.
LEMMA ThreadKeepsAnswers ==
    ASSUME AnswerInv, NEW t \in Threads, ThreadStep(t)
    PROVE  AnswerInv'
  <1>1. CASE InitQueue(t) \/ InitAgent(t) \/ InitServer(t) \/ InitThread(t) \/ TimeOut(t)
    <2>1. UNCHANGED <<made, asked, numQueues, contents, requests, response_queue_list_dict, inbox>>
      BY <1>1 DEF InitQueue, InitAgent, InitServer, InitThread, TimeOut, loopVars
    <2>2. RequesterTypes'
      BY <1>1, <2>1 DEF AnswerInv, RequesterTypes, InitSteps, GoTo, InitQueue, InitAgent, InitServer,
                        InitThread, TimeOut, loopVars
    <2>3. Started'
      <3>1. CASE InitQueue(t)
        BY <3>1, <2>1 DEF AnswerInv, RequesterTypes, Started, InitSteps, GoTo, InitQueue, loopVars
      <3>2. CASE InitAgent(t)
        BY <3>2, <2>1 DEF AnswerInv, RequesterTypes, Started, InitSteps, GoTo, InitAgent, loopVars
      <3>3. CASE InitServer(t)
        BY <3>3, <2>1 DEF AnswerInv, RequesterTypes, Started, InitSteps, GoTo, InitServer, loopVars
      <3>4. CASE InitThread(t)
        BY <3>4, <2>1 DEF AnswerInv, RequesterTypes, Started, InitSteps, GoTo, InitThread, classVars
      <3>5. CASE TimeOut(t)
        BY <3>5, <2>1 DEF AnswerInv, RequesterTypes, Started, InitSteps, GoTo, TimeOut, classVars, loopVars
      <3>6. QED BY <1>1, <3>1, <3>2, <3>3, <3>4, <3>5
    <2>4. \A u \in Threads : pc'[u] # "idle" => pc[u] # "idle"
      BY <1>1 DEF AnswerInv, RequesterTypes, GoTo, InitQueue, InitAgent, InitServer, InitThread, TimeOut
    <2>5. QED BY <2>1, <2>2, <2>3, <2>4, NothingNewLemma DEF Connects
  <1>2. CASE Put(t)
    <2>1. /\ pc[t] = "put" /\ pc' = [pc EXCEPT ![t] = "wait"]
          /\ requests' = [requests EXCEPT ![request_queue] = Append(requests[request_queue], asked[t])]
          /\ UNCHANGED <<made, asked, numQueues, contents, classVars, loopVars, inbox>>
      BY <1>2 DEF Put, GoTo, AnswerInv, RequesterTypes
    <2>2. asked[t] \in Messages
      BY <2>1 DEF AnswerInv, Started
    <2>3. \A u \in Threads :
             /\ requests'[u] \in Seq(Messages)
             /\ \A m : Has(requests'[u], m) => m = asked[t] \/ Has(requests[u], m)
      BY <2>1, <2>2, AppendLemma DEF AnswerInv, RequesterTypes
    <2>4. RequesterTypes' /\ Started'
      BY <2>1, <2>3 DEF AnswerInv, RequesterTypes, Started, InitSteps, classVars, loopVars
    <2>5. \A u \in Threads : pc'[u] # "idle" => pc[u] # "idle"
      BY <2>1 DEF AnswerInv, RequesterTypes
    <2>6. \A id, p : Connects(id, p)' => Connects(id, p)
      BY <2>1, <2>3, <2>5 DEF Connects, loopVars
    <2>7. QED BY <2>1, <2>4, <2>6, NothingNewLemma
  <1>3. CASE Get(t)
    <2> DEFINE q == asked[t].response_queue
    <2>1. /\ pc' = [pc EXCEPT ![t] = "idle"]
          /\ contents[q] # <<>>
          /\ contents' = [contents EXCEPT ![q] = Tail(contents[q])]
          /\ UNCHANGED <<made, asked, numQueues, classVars, requests, loopVars, inbox>>
      BY <1>3 DEF Get, GoTo, AnswersFor, AnswerInv, RequesterTypes
    <2> HIDE DEF q
    <2>2. \A p \in Queues :
             /\ contents'[p] \in Seq(cmdIDs)
             /\ \A id : Has(contents'[p], id) => Has(contents[p], id)
      BY <2>1, TailLemma DEF AnswerInv, RequesterTypes
    <2>3. RequesterTypes' /\ Started'
      BY <2>1, <2>2 DEF AnswerInv, RequesterTypes, Started, InitSteps, classVars, loopVars
    <2>4. \A u \in Threads : pc'[u] # "idle" => pc[u] # "idle"
      BY <2>1 DEF AnswerInv, RequesterTypes
    <2>5. QED BY <2>1, <2>2, <2>3, <2>4, NothingNewLemma DEF Connects, loopVars
  <1>4. QED BY <1>1, <1>2, <1>3, RequestKeeps DEF ThreadStep

\* A loop connects a queue with the command it came with, and with an answer only
\* through its dictionary.
LEMMA LoopKeepsAnswers ==
    ASSUME AnswerInv, NEW t \in Threads, LoopStep(t)
    PROVE  AnswerInv'
  <1>1. CASE LoopCheck(t)
    <2>1. /\ loop' = [loop EXCEPT ![t] = IF requests[request_queue] = <<>> THEN "receive" ELSE "get"]
          /\ loop[t] = "check"
          /\ UNCHANGED <<threadVars, contents, classVars, requests, response_queue_list_dict, inbox>>
      BY <1>1 DEF LoopCheck, LoopTo
    <2>2. RequesterTypes' /\ Started'
      BY <2>1 DEF AnswerInv, RequesterTypes, Started, InitSteps, classVars, threadVars
    <2>3. QED BY <2>1, <2>2, NothingNewLemma DEF Connects, threadVars
  <1>2. CASE LoopSend(t)
    <2> DEFINE asks == Head(requests[request_queue])
    <2>1. /\ loop[t] = "get" /\ requests[request_queue] # <<>>
          /\ requests' = [requests EXCEPT ![request_queue] = Tail(requests[request_queue])]
          /\ \/ response_queue_list_dict' = response_queue_list_dict
             \/ response_queue_list_dict' =
                    [response_queue_list_dict EXCEPT ![t] =
                        [response_queue_list_dict[t] EXCEPT ![asks.cmdID] =
                            Append(response_queue_list_dict[t][asks.cmdID], asks.response_queue)]]
          /\ \E label \in {"dead", "receive"} : loop' = [loop EXCEPT ![t] = label]
          /\ UNCHANGED <<threadVars, contents, classVars, inbox>>
      BY <1>2 DEF LoopSend, LoopTo, AnswerInv, RequesterTypes
    <2>2. request_queue \in Threads
      BY <2>1 DEF AnswerInv, Started
    <2>3. asks \in Messages /\ Has(requests[request_queue], asks)
      BY <2>1, <2>2, TailLemma DEF AnswerInv, RequesterTypes
    <2>4. asks = Message(asks.cmdID, asks.response_queue) /\ asks.cmdID \in cmdIDs /\ asks.response_queue \in Queues
      BY <2>3 DEF Messages, Message
    <2>5. \A u \in Threads :
             /\ requests'[u] \in Seq(Messages)
             /\ \A m : Has(requests'[u], m) => Has(requests[u], m)
      BY <2>1, <2>2, TailLemma DEF AnswerInv, RequesterTypes
    <2> HIDE DEF asks
    <2>6. \A u \in Threads, id \in cmdIDs :
             /\ response_queue_list_dict'[u][id] \in Seq(Queues)
             /\ \A q : Has(response_queue_list_dict'[u][id], q) =>
                          \/ id = asks.cmdID /\ q = asks.response_queue
                          \/ Has(response_queue_list_dict[u][id], q)
      <3> SUFFICES ASSUME NEW u \in Threads, NEW id \in cmdIDs
                   PROVE  /\ response_queue_list_dict'[u][id] \in Seq(Queues)
                          /\ \A q : Has(response_queue_list_dict'[u][id], q) =>
                                       \/ id = asks.cmdID /\ q = asks.response_queue
                                       \/ Has(response_queue_list_dict[u][id], q)
        OBVIOUS
      <3>1. \/ response_queue_list_dict'[u][id] = response_queue_list_dict[u][id]
            \/ /\ id = asks.cmdID
               /\ response_queue_list_dict'[u][id] =
                      Append(response_queue_list_dict[u][id], asks.response_queue)
        <4>1. response_queue_list_dict \in [Threads -> [cmdIDs -> Seq(Queues)]]
          BY DEF AnswerInv, RequesterTypes
        <4>2. CASE response_queue_list_dict' = response_queue_list_dict
          BY <4>2
        <4>3. CASE response_queue_list_dict' # response_queue_list_dict
          <5> DEFINE new == [response_queue_list_dict[t] EXCEPT ![asks.cmdID] =
                                Append(response_queue_list_dict[t][asks.cmdID], asks.response_queue)]
          <5>1. new[id] = IF id = asks.cmdID
                          THEN Append(response_queue_list_dict[t][id], asks.response_queue)
                          ELSE response_queue_list_dict[t][id]
            BY <4>1
          <5>2. response_queue_list_dict'[u] = IF u = t THEN new ELSE response_queue_list_dict[u]
            BY <2>1, <4>1, <4>3
          <5> HIDE DEF new
          <5>3. QED BY <5>1, <5>2
        <4>4. QED BY <4>2, <4>3
      <3>2. response_queue_list_dict[u][id] \in Seq(Queues)
        BY DEF AnswerInv, RequesterTypes
      <3>3. CASE response_queue_list_dict'[u][id] = response_queue_list_dict[u][id]
        BY <3>2, <3>3
      <3>4. CASE /\ id = asks.cmdID
                 /\ response_queue_list_dict'[u][id] =
                        Append(response_queue_list_dict[u][id], asks.response_queue)
        <4>1. /\ Append(response_queue_list_dict[u][id], asks.response_queue) \in Seq(Queues)
              /\ \A q : Has(Append(response_queue_list_dict[u][id], asks.response_queue), q) =>
                           q = asks.response_queue \/ Has(response_queue_list_dict[u][id], q)
          BY <3>2, <2>4, AppendLemma
        <4>2. QED BY <3>4, <4>1
      <3>5. QED BY <3>1, <3>3, <3>4
    <2>7. RequesterTypes' /\ Started'
      <3>1. response_queue_list_dict' \in [Threads -> [cmdIDs -> Seq(Queues)]]
        <4>1. response_queue_list_dict \in [Threads -> [cmdIDs -> Seq(Queues)]]
          BY DEF AnswerInv, RequesterTypes
        <4>2. Append(response_queue_list_dict[t][asks.cmdID], asks.response_queue) \in Seq(Queues)
          BY <2>4, <4>1, AppendLemma
        <4>3. [response_queue_list_dict[t] EXCEPT ![asks.cmdID] =
                  Append(response_queue_list_dict[t][asks.cmdID], asks.response_queue)] \in [cmdIDs -> Seq(Queues)]
          BY <4>1, <4>2
        <4>4. QED BY <2>1, <4>1, <4>3
      <3>2. QED BY <2>1, <2>2, <2>5, <3>1 DEF AnswerInv, RequesterTypes, Started, InitSteps, classVars, threadVars
    <2>8. ASSUME NEW q \in Queues, NEW id \in cmdIDs, Connects(id, q)' PROVE Connects(id, q)
      <3>1. CASE id = asks.cmdID /\ q = asks.response_queue
        BY <2>2, <2>3, <2>4, <3>1 DEF Connects
      <3>2. CASE ~(id = asks.cmdID /\ q = asks.response_queue)
        BY <2>1, <2>5, <2>6, <2>8, <3>2 DEF Connects, threadVars
      <3>3. QED BY <3>1, <3>2
    <2>9. QED BY <2>1, <2>7, <2>8, NothingNewLemma DEF threadVars
  <1>3. CASE LoopReceive(t)
    <2>1. /\ loop[t] = "receive"
          /\ \E label \in {"check", "dead"} : loop' = [loop EXCEPT ![t] = label]
          /\ UNCHANGED <<threadVars, classVars, requests>>
      BY <1>3 DEF LoopReceive, LoopAnswered, LoopTo
    <2>2. message_agent \in Threads
      BY <2>1 DEF AnswerInv, Started
    <2>3. CASE UNCHANGED <<contents, response_queue_list_dict>> /\ inbox' \in [Threads -> Seq(cmdIDs)]
      <3>1. RequesterTypes' /\ Started'
        BY <2>1, <2>3 DEF AnswerInv, RequesterTypes, Started, InitSteps, classVars, threadVars
      <3>2. QED BY <2>1, <2>3, <3>1, NothingNewLemma DEF Connects, threadVars
    <2>4. CASE inbox[message_agent] # <<>>
      <3> DEFINE id0    == Head(inbox[message_agent])
                 queues == response_queue_list_dict[t][id0]
      <3>1. id0 \in cmdIDs /\ Tail(inbox[message_agent]) \in Seq(cmdIDs)
        BY <2>2, <2>4, TailLemma DEF AnswerInv, RequesterTypes
      <3>2. queues \in Seq(Queues)
        BY <3>1 DEF AnswerInv, RequesterTypes
      <3>3. inbox' = [inbox EXCEPT ![message_agent] = Tail(inbox[message_agent])]
        BY <1>3, <2>4 DEF LoopReceive, LoopAnswered
      <3>4. inbox' \in [Threads -> Seq(cmdIDs)]
        BY <3>1, <3>3 DEF AnswerInv, RequesterTypes
      <3>5. \/ UNCHANGED <<contents, response_queue_list_dict>>
            \/ /\ queues # <<>>
               /\ contents' = [contents EXCEPT ![Head(queues)] = Append(contents[Head(queues)], id0)]
               /\ response_queue_list_dict' =
                      [response_queue_list_dict EXCEPT ![t] = [response_queue_list_dict[t] EXCEPT ![id0] = Tail(queues)]]
        BY <1>3, <2>4, <3>1 DEF LoopReceive, LoopAnswered, AnswerInv, RequesterTypes
      <3> HIDE DEF id0, queues
      <3>6. CASE UNCHANGED <<contents, response_queue_list_dict>>
        BY <2>3, <3>4, <3>6
      <3>7. CASE ~UNCHANGED <<contents, response_queue_list_dict>>
        <4>1. /\ Head(queues) \in Queues /\ Tail(queues) \in Seq(Queues)
              /\ Has(queues, Head(queues)) /\ \A q : Has(Tail(queues), q) => Has(queues, q)
          BY <3>2, <3>5, <3>7, TailLemma
        <4>2. \A q \in Queues :
                 /\ contents'[q] \in Seq(cmdIDs)
                 /\ \A id : Has(contents'[q], id) => (q = Head(queues) /\ id = id0) \/ Has(contents[q], id)
          <5>1. contents \in [Queues -> Seq(cmdIDs)]
            BY DEF AnswerInv, RequesterTypes
          <5>2. \A q \in Queues : /\ Append(contents[q], id0) \in Seq(cmdIDs)
                                  /\ \A id : Has(Append(contents[q], id0), id) => id = id0 \/ Has(contents[q], id)
            BY <3>1, <5>1, AppendLemma
          <5>3. \A q \in Queues : contents'[q] = IF q = Head(queues) THEN Append(contents[q], id0) ELSE contents[q]
            BY <3>5, <3>7, <5>1
          <5>4. QED BY <5>1, <5>2, <5>3
        <4>3. [response_queue_list_dict[t] EXCEPT ![id0] = Tail(queues)] \in [cmdIDs -> Seq(Queues)]
          BY <4>1 DEF AnswerInv, RequesterTypes
        <4>4. response_queue_list_dict' \in [Threads -> [cmdIDs -> Seq(Queues)]]
          BY <3>5, <3>7, <4>3 DEF AnswerInv, RequesterTypes
        <4>5. \A u \in Threads, id \in cmdIDs : \A q :
                 Has(response_queue_list_dict'[u][id], q) => Has(response_queue_list_dict[u][id], q)
          <5>1. \A u \in Threads, id \in cmdIDs :
                   response_queue_list_dict'[u][id] =
                       IF u = t /\ id = id0 THEN Tail(queues) ELSE response_queue_list_dict[u][id]
            <6>1. response_queue_list_dict \in [Threads -> [cmdIDs -> Seq(Queues)]]
              BY DEF AnswerInv, RequesterTypes
            <6>2. \A u \in Threads :
                     response_queue_list_dict'[u] =
                         IF u = t THEN [response_queue_list_dict[t] EXCEPT ![id0] = Tail(queues)]
                                  ELSE response_queue_list_dict[u]
              BY <3>5, <3>7, <6>1
            <6>3. \A id \in cmdIDs :
                     [response_queue_list_dict[t] EXCEPT ![id0] = Tail(queues)][id] =
                         IF id = id0 THEN Tail(queues) ELSE response_queue_list_dict[t][id]
              BY <6>1
            <6>4. QED BY <6>2, <6>3
          <5>2. queues = response_queue_list_dict[t][id0]
            BY DEF queues
          <5>3. QED BY <5>1, <5>2, <4>1
        <4>6. RequesterTypes' /\ Started'
          <5>1. contents' \in [Queues -> Seq(cmdIDs)]
            BY <3>5, <3>7, <4>2 DEF AnswerInv, RequesterTypes
          <5>2. RequesterTypes'
            BY <2>1, <3>4, <4>4, <5>1 DEF AnswerInv, RequesterTypes, threadVars
          <5>3. Started'
            BY <2>1, <2>2 DEF AnswerInv, RequesterTypes, Started, InitSteps, classVars, threadVars
          <5>4. QED BY <5>2, <5>3
        <4>7. Connects(id0, Head(queues))
          BY <4>1 DEF Connects, queues
        <4>8. \A q \in Queues : \A id \in cmdIDs : Connects(id, q)' => Connects(id, q)
          <5> SUFFICES ASSUME NEW q \in Queues, NEW id \in cmdIDs, Connects(id, q)'
                       PROVE  Connects(id, q)
            OBVIOUS
          <5>1. CASE \/ \E u \in Threads : pc'[u] # "idle" /\ asked'[u] = Message(id, q)
                     \/ \E u \in Threads : Has(requests'[u], Message(id, q))
            BY <2>1, <5>1 DEF Connects, threadVars
          <5>2. CASE \E u \in Threads : Has(response_queue_list_dict'[u][id], q)
            BY <4>5, <5>2 DEF Connects
          <5>3. CASE Has(contents'[q], id)
            <6>1. (q = Head(queues) /\ id = id0) \/ Has(contents[q], id)
              BY <4>2, <5>3
            <6>2. Has(contents[q], id) => Connects(id, q)
              BY DEF Connects
            <6>3. QED BY <4>7, <6>1, <6>2
          <5>4. QED BY <5>1, <5>2, <5>3 DEF Connects
        <4>9. QED BY <2>1, <4>6, <4>8, NothingNewLemma DEF threadVars
      <3>8. QED BY <3>6, <3>7
    <2>5. CASE inbox[message_agent] = <<>>
      BY <1>3, <2>3, <2>5 DEF LoopReceive, AnswerInv, RequesterTypes
    <2>6. QED BY <2>4, <2>5
  <1>4. QED BY <1>1, <1>2, <1>3 DEF LoopStep

\* The simulator only names commands.
LEMMA SimulatorKeepsAnswers ==
    ASSUME AnswerInv, SimulatorStep
    PROVE  AnswerInv'
  <1>1. PICK id \in cmdIDs : SimulatorAnswers(id)
    BY DEF SimulatorStep
  <1>2. PICK agent : inbox' = [inbox EXCEPT ![agent] = Append(inbox[agent], id)]
    BY <1>1 DEF SimulatorAnswers
  <1>3. UNCHANGED <<threadVars, contents, classVars, requests, loopVars>>
    BY <1>1 DEF SimulatorAnswers
  <1>4. inbox' \in [Threads -> Seq(cmdIDs)]
    <2>1. inbox \in [Threads -> Seq(cmdIDs)]
      BY DEF AnswerInv, RequesterTypes
    <2>2. \A u \in Threads : Append(inbox[u], id) \in Seq(cmdIDs)
      BY <1>1, <2>1, AppendLemma
    <2>3. QED BY <1>2, <2>1, <2>2
  <1>5. RequesterTypes' /\ Started'
    BY <1>3, <1>4 DEF AnswerInv, RequesterTypes, Started, threadVars, classVars, loopVars
  <1>6. QED BY <1>3, <1>5, NothingNewLemma DEF Connects, threadVars, loopVars

LEMMA AnswerInvGivesOwn == AnswerInv => OwnAnswer
  <1> SUFFICES ASSUME AnswerInv, NEW t \in Threads, pc[t] = "wait", NEW n \in DOMAIN AnswersFor(t)
               PROVE  AnswersFor(t)[n] = asked[t].cmdID
    BY DEF OwnAnswer
  <1>1. asked[t] \in Messages
    BY DEF AnswerInv, Started
  <1> DEFINE q  == asked[t].response_queue
             id == asked[t].cmdID
  <1>2. q \in Queues /\ id \in cmdIDs /\ asked[t] = Message(id, q)
    BY <1>1 DEF Messages, Message
  <1>3. contents[q][n] \in cmdIDs /\ Has(contents[q], contents[q][n])
    BY <1>2 DEF AnswersFor, Has, AnswerInv, RequesterTypes
  <1>4. Connects(id, q) /\ Connects(contents[q][n], q)
    BY <1>2, <1>3 DEF Connects
  <1>5. QED BY <1>2, <1>3, <1>4 DEF AnswerInv, OneCommandPerQueue, AnswersFor

\* What a thread of the web server finds at the queue it waits at is the answer to the
\* command it has sent last, however many of its earlier requests timed out and are
\* answered late, and also when several loops and agents run because threads started the
\* Requester at once (_request, _message_loop).
THEOREM AnswersAreOwn == Spec => []OwnAnswer
  <1>1. Init => AnswerInv
    <2> SUFFICES ASSUME Init PROVE AnswerInv
      OBVIOUS
    <2>1. RequesterTypes
      BY RequesterAssumption DEF Init, RequesterInit, RequesterTypes, InitSteps
    <2>2. Started
      BY DEF Init, RequesterInit, Started, InitSteps
    <2>3. \A q \in Queues : \A id \in cmdIDs : ~Connects(id, q)
      <3>1. \A x : ~Has(<<>>, x)
        BY DEF Has
      <3>2. QED BY <3>1 DEF Init, RequesterInit, Connects
    <2>4. QED BY <2>1, <2>2, <2>3 DEF AnswerInv, OneCommandPerQueue, OnlyQueuesMade
  <1>2. AnswerInv /\ [Next]_vars => AnswerInv'
    <2> SUFFICES ASSUME AnswerInv, [Next]_vars PROVE AnswerInv'
      OBVIOUS
    <2>1. CASE UNCHANGED requesterVars
      BY <2>1, NothingNewLemma DEF AnswerInv, RequesterTypes, Started, Connects, requesterVars, threadVars,
                                   classVars, loopVars
    <2>2. CASE RequesterNext
      BY <2>2, ThreadKeepsAnswers, LoopKeepsAnswers, SimulatorKeepsAnswers DEF RequesterNext
    <2>3. QED BY <2>1, <2>2 DEF Next, Table, Requester, Session, vars
  <1>3. QED BY <1>1, <1>2, AnswerInvGivesOwn, PTL DEF Spec
-----------------------------------------------------------------------------
(***************************************************************************)
(* The table                                                               *)
(***************************************************************************)
\* A request of loadData asks for a page size the user can choose.
IsRequest(req) == "pageSize" \in DOMAIN req /\ req.pageSize \in PageSizes

SizesAreOffered ==
    /\ localPagination.pageSize \in PageSizes
    /\ \A req \in inFlight : IsRequest(req)

TableInv == failures \in Nat /\ SizesAreOffered /\ ShownIsCurrent

\* A new request takes its page size from a page whose size is offered.
LEMMA NewRequestLemma ==
    ASSUME NEW id, NEW wanted, NEW given, wanted.pageSize \in PageSizes
    PROVE  IsRequest(request(id, wanted, given))
  BY DEF IsRequest, request

\* loadData leaves a request under way.
LEMMA LoadLemma ==
    ASSUME TableInv, NEW wanted, NEW given, NEW loading, NEW others \in SUBSET inFlight,
           wanted.pageSize \in PageSizes, localPagination'.pageSize \in PageSizes,
           failures' = failures, loadData(wanted, given, loading, others)
    PROVE  TableInv'
  <1>1. inFlight' # {} /\ \A req \in inFlight' : req \in inFlight \/ IsRequest(req)
    BY NewRequestLemma DEF loadData
  <1>2. QED BY <1>1 DEF TableInv, SizesAreOffered, ShownIsCurrent, IsRequest

\* The answer that is shown: rows and pagination are written together.
LEMMA ShowLemma ==
    ASSUME TableInv, NEW req \in inFlight,
           localPagination' = PaginationAfter(req),
           localDataSource' = Slice(req.answer, req.pageNo, req.pageSize),
           inFlight' = inFlight \ {req}, failures' = failures
    PROVE  TableInv'
  <1>1. req.pageSize \in PageSizes /\ localPagination.pageSize \in PageSizes
    BY DEF TableInv, SizesAreOffered, IsRequest
  <1>2. /\ localPagination'.current = req.pageNo
        /\ localPagination'.total = req.answer
        /\ localPagination'.pageSize \in {req.pageSize, localPagination.pageSize}
    BY DEF PaginationAfter
  <1>3. SizesAreOffered'
    BY <1>1, <1>2 DEF TableInv, SizesAreOffered, IsRequest
  <1>4. Cardinality(PageSizes) = 1 => localPagination'.pageSize = req.pageSize
    <2> SUFFICES ASSUME Cardinality(PageSizes) = 1
                 PROVE  localPagination'.pageSize = req.pageSize
      OBVIOUS
    <2>1. PICK size : PageSizes = {size}
      BY TableAssumption, FS_Singleton
    <2>2. QED BY <1>1, <1>2, <2>1
  <1>5. ShownIsCurrent'
    BY <1>2, <1>4 DEF ShownIsCurrent
  <1>6. QED BY <1>3, <1>5 DEF TableInv

\* An answer that comes is shown, or the page before it is loaded.
LEMMA ReceiveLemma ==
    ASSUME TableInv, NEW req \in inFlight, Receive(req)
    PROVE  TableInv'
  <1> DEFINE data == Slice(req.answer, req.pageNo, req.pageSize)
             back == [PaginationAfter(req) EXCEPT !.current = @ - 1]
  <1>1. failures' = failures
    BY DEF Receive, boundVars
  <1>2. back.pageSize \in PageSizes
    <2>1. back.pageSize = PaginationAfter(req).pageSize
      BY DEF PaginationAfter
    <2>2. QED BY <2>1 DEF PaginationAfter, TableInv, SizesAreOffered, IsRequest
  <1>3. CASE localPagination' = back /\ loadData(back, FALSE, TRUE, inFlight \ {req})
    <2>1. localPagination'.pageSize \in PageSizes /\ inFlight \ {req} \in SUBSET inFlight
      BY <1>2, <1>3
    <2> HIDE DEF back
    <2>2. QED BY <1>1, <1>2, <1>3, <2>1, LoadLemma
  <1>4. CASE /\ localPagination' = PaginationAfter(req)
             /\ localDataSource' = data
             /\ inFlight' = inFlight \ {req}
    BY <1>1, <1>4, ShowLemma
  <1>5. QED BY <1>3, <1>4 DEF Receive

\* Every step of the page keeps the invariant.
LEMMA TableNextLemma ==
    ASSUME TableInv, TableNext, UNCHANGED part
    PROVE  TableInv'
  <1>1. CASE Refresh
    BY <1>1, LoadLemma DEF Refresh, boundVars, TableInv, SizesAreOffered
  <1>2. ASSUME NEW pageNo \in 1..MaxRows, NEW pageSize \in PageSizes, Turn(pageNo, pageSize)
        PROVE  TableInv'
    <2> DEFINE wanted == [current |-> pageNo, pageSize |-> pageSize]
    <2>1. /\ loadData(wanted, TRUE, TRUE, inFlight)
          /\ UNCHANGED <<localPagination, failures>>
      BY <1>2 DEF Turn
    <2>2. wanted.pageSize \in PageSizes
      OBVIOUS
    <2> HIDE DEF wanted
    <2>3. QED BY <2>1, <2>2, LoadLemma DEF TableInv, SizesAreOffered
  <1>3. ASSUME NEW req \in inFlight, Answer(req) PROVE TableInv'
    <2>1. /\ inFlight' = (inFlight \ {req}) \cup {[req EXCEPT !.answered = TRUE, !.answer = rows]}
          /\ UNCHANGED <<localPagination, localDataSource, failures>>
      BY <1>3 DEF Answer, boundVars
    <2>2. IsRequest([req EXCEPT !.answered = TRUE, !.answer = rows])
      BY DEF TableInv, SizesAreOffered, IsRequest
    <2>3. \A r \in inFlight' : IsRequest(r)
      BY <2>1, <2>2 DEF TableInv, SizesAreOffered
    <2>4. inFlight' # {}
      BY <2>1
    <2>5. QED BY <2>1, <2>3, <2>4 DEF TableInv, SizesAreOffered, ShownIsCurrent, IsRequest
  <1>4. ASSUME NEW req \in inFlight, Receive(req) PROVE TableInv'
    BY <1>4, ReceiveLemma
  <1>5. ASSUME NEW req \in inFlight, Fail(req) PROVE TableInv'
    <2>1. /\ failures' = failures + 1 /\ inFlight' = inFlight \ {req}
          /\ UNCHANGED <<localPagination, localDataSource>>
      BY <1>5 DEF Fail
    <2>2. failures' \in Nat /\ failures' # 0
      BY <2>1 DEF TableInv
    <2>3. QED BY <2>1, <2>2 DEF TableInv, SizesAreOffered, ShownIsCurrent, IsRequest
  <1>6. ASSUME NEW n \in 0..MaxRows, RowsChange(n) PROVE TableInv'
    BY <1>6 DEF RowsChange, tableVars, TableInv, SizesAreOffered, ShownIsCurrent, IsRequest
  <1>7. QED BY <1>1, <1>2, <1>3, <1>4, <1>5, <1>6 DEF TableNext

\* With a single page size and no failed request the rows below the pagination are those
\* of the page and the total it names whenever all answers are there, in whatever order
\* they came (loadData of components/Table/index.js).
THEOREM RowsBelongToPage == Spec => []ShownIsCurrent
  <1>1. Init => TableInv
    <2> SUFFICES ASSUME Init PROVE TableInv
      OBVIOUS
    <2>1. localPagination.pageSize \in PageSizes
      BY TableAssumption DEF Init, TableInit, defaultPageSize
    <2>2. inFlight = {request(1, localPagination, FALSE)}
      BY DEF Init, TableInit
    <2>3. \A req \in inFlight : IsRequest(req)
      BY <2>1, <2>2, NewRequestLemma
    <2>4. failures = 0 /\ inFlight # {}
      BY <2>2 DEF Init, TableInit
    <2>5. QED BY <2>1, <2>3, <2>4 DEF TableInv, SizesAreOffered, ShownIsCurrent
  <1>2. TableInv /\ [Next]_vars => TableInv'
    <2> SUFFICES ASSUME TableInv, [Next]_vars PROVE TableInv'
      OBVIOUS
    <2>1. CASE Table(TableNext)
      BY <2>1, TableNextLemma DEF Table
    <2>2. CASE UNCHANGED <<part, pageVars>>
      BY <2>2 DEF pageVars, tableVars, boundVars, TableInv, SizesAreOffered, ShownIsCurrent, IsRequest
    <2>3. QED BY <2>1, <2>2 DEF Next, Requester, Session, vars
  <1>3. QED BY <1>1, <1>2, PTL DEF Spec, TableInv
=============================================================================
