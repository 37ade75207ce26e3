-------------------------- MODULE DispatcherProofs --------------------------
(***************************************************************************)
(* Proofs about the dispatcher, for any number of pods, orchestrators,     *)
(* SFCs, requests, commands and losses.                                    *)
(***************************************************************************)
EXTENDS Dispatcher, FiniteSetTheorems, WellFoundedInduction, TLAPS

-----------------------------------------------------------------------------
(***************************************************************************)
(* The inductive invariant.                                                *)
(***************************************************************************)
Msg == [type : {"ADD_SFC", "DEL_SFC"}, sfc : SFCs]
       \cup [type : {"ADD_SFCI", "DEL_SFCI"}, sfci : SFCIs]
       \cup [type : {"EQUIPMENT"}, id : Nat, effect : Effects]
Rply == [id : Nat, valid : BOOLEAN]

TypeOK ==
    /\ scenario \in Scenarios
    /\ sfcDict \in [Orch -> SUBSET SFCs]
    /\ runtimeState \in [Orch -> BOOLEAN]
    /\ roundRobinCounter \in Orch
    /\ commandsInfo \subseteq Nat \X Orch
    /\ orchQueue \in [Orch -> Seq(Msg)]
    /\ rplyQueue \in [Orch -> Seq(Rply)]
    /\ equipment \in [Orch -> {"valid", "invalid", "noLinks"}]
    /\ missing \in [Orch -> {"nothing", "answer", "command"}]
    /\ cmds \in Nat

\* An orchestrator that has an SFC is the only one.
OneOwner == \A s \in SFCs : \A o, p \in Orch : s \in sfcDict[o] /\ s \in sfcDict[p] => o = p

\* A message that tells an orchestrator something new about its equipment.
IsNews(m) == m.type = "EQUIPMENT" /\ m.effect # "none"

\* What an orchestrator that missed nothing was told last is what happened last.
LastNewsIsTrue(o) ==
    missing[o] # "command" =>
    \A k \in 1..Len(orchQueue[o]) :
        /\ IsNews(orchQueue[o][k])
        /\ \A j \in (k + 1)..Len(orchQueue[o]) : ~IsNews(orchQueue[o][j])
        => orchQueue[o][k].effect = equipment[o]

\* Once it has heard all, its last reply or else the dispatcher's table says so, unless
\* its last answer was lost.
LastRplyIsTrue(o) ==
    /\ missing[o] = "nothing"
    /\ \A k \in 1..Len(orchQueue[o]) : ~IsNews(orchQueue[o][k])
    /\ equipment[o] # "noLinks"
    => /\ rplyQueue[o] = <<>> => (runtimeState[o] <=> equipment[o] = "valid")
       /\ rplyQueue[o] # <<>> =>
            (rplyQueue[o][Len(rplyQueue[o])].valid <=> equipment[o] = "valid")

NewsInv == \A o \in Orch : LastNewsIsTrue(o) /\ LastRplyIsTrue(o)

\* As long as nothing was reported every orchestrator is fit, and the SFCs were handed out
\* in turn: those before the counter have one more than the others.
InTurn ==
    cmds = 0 =>
        /\ \A o \in Orch : runtimeState[o] /\ rplyQueue[o] = <<>>
        /\ \E n \in Nat : \A o \in Orch :
              /\ IsFiniteSet(sfcDict[o])
              /\ Cardinality(sfcDict[o]) = IF o < roundRobinCounter THEN n + 1 ELSE n

\* No orchestrator has anything to read about equipment before the first command.
NothingTold ==
    cmds = 0 => \A o \in Orch :
                    \A k \in 1..Len(orchQueue[o]) : orchQueue[o][k].type # "EQUIPMENT"

\* The n-th command is still on its way to orchestrator o, or the reply of o to it.
Told(o, n)    == \E k \in 1..Len(orchQueue[o]) :
                    orchQueue[o][k].type = "EQUIPMENT" /\ orchQueue[o][k].id = n
Replied(o, n) == \E k \in 1..Len(rplyQueue[o]) : rplyQueue[o][k].id = n

NoneMissing ==
    \A n \in Nat, o \in Orch :
        <<n, o>> \in commandsInfo => <<n, o>> \in unanswered \/ Told(o, n) \/ Replied(o, n)

IInv == TypeOK /\ OneOwner /\ NoneMissing /\ NewsInv /\ InTurn /\ NothingTold
-----------------------------------------------------------------------------
(***************************************************************************)
(* Lemmas about numbers, the operators of the model and queues.            *)
(***************************************************************************)
\* Every non-empty set of natural numbers has its minimum.
LEMMA MinLemma ==
    ASSUME NEW S \in SUBSET Nat, S # {}
    PROVE  Min(S) \in S /\ \A y \in S : Min(S) <= y
  <1> DEFINE R == OpToRel(<, Nat)
  <1>1. IsWellFoundedOn(R, Nat)
    BY NatLessThanWellFounded
  <1>2. \A x, y \in Nat : <<y, x>> \in R <=> y < x
    BY DEF OpToRel
  <1> HIDE DEF R
  <1>3. PICK x \in S : \A y \in S : ~(<<y, x>> \in R)
    BY <1>1, WFMin
  <1>4. ASSUME NEW y \in S PROVE x <= y
    <2>1. x \in Nat /\ y \in Nat
      OBVIOUS
    <2>2. ~(y < x)
      BY <1>2, <1>3, <2>1, Zenon
    <2>3. QED BY <2>1, <2>2
  <1>5. QED BY <1>4 DEF Min

LEMMA ModLemma ==
    ASSUME NEW n \in Nat \ {0}
    PROVE  /\ \A a \in Nat : a % n \in 0..(n - 1)
           /\ \A a \in 0..(n - 1) : a % n = a /\ (a + 1) % n = IF a + 1 = n THEN 0 ELSE a + 1
  OBVIOUS

LEMMA OrchLemma ==
    ASSUME TypeOK
    PROVE  orchNum \in Nat \ {0} /\ Orch \subseteq Nat
  <1>1. orchNum \in Nat \ {0}
    BY DispatcherAssumption DEF TypeOK, Scenario, orchNum
  <1>2. QED BY <1>1 DEF Orch

\* The orchestrator that getOrchestratorNameBySFC finds has the SFC, and there is one if
\* any has it.
LEMMA OwnerLemma ==
    ASSUME TypeOK, NEW s \in SFCs
    PROVE  /\ getOrchestratorNameBySFC(s) = None <=> \A o \in Orch : s \notin sfcDict[o]
           /\ getOrchestratorNameBySFC(s) # None =>
                /\ getOrchestratorNameBySFC(s) \in Orch
                /\ s \in sfcDict[getOrchestratorNameBySFC(s)]
  <1>1. OrchsOfSFC(s) \in SUBSET Nat
    BY OrchLemma DEF OrchsOfSFC
  <1>2. CASE OrchsOfSFC(s) = {}
    BY <1>2 DEF OrchsOfSFC, getOrchestratorNameBySFC
  <1>3. CASE OrchsOfSFC(s) # {}
    <2>1. Min(OrchsOfSFC(s)) \in OrchsOfSFC(s)
      BY <1>1, <1>3, MinLemma
    <2>2. getOrchestratorNameBySFC(s) = Min(OrchsOfSFC(s))
      BY <1>3 DEF getOrchestratorNameBySFC
    <2>3. Min(OrchsOfSFC(s)) # None
      BY <1>1, <2>1, DispatcherAssumption
    <2>4. QED BY <1>3, <2>1, <2>2, <2>3 DEF OrchsOfSFC
  <1>4. QED BY <1>2, <1>3

\* The round robin chooses an orchestrator or none, and its counter stays in range; when
\* all are fit it takes the one at the counter and goes one further.
LEMMA SelectLemma ==
    ASSUME TypeOK, NEW chosen, chosen = selectOrchInRoundRobin(roundRobinCounter)
    PROVE  /\ chosen.counter \in Orch
           /\ chosen.orch # None => chosen.orch \in Orch
           /\ (\A o \in Orch : runtimeState[o]) =>
                /\ chosen.orch = roundRobinCounter
                /\ chosen.orch # None
                /\ chosen.counter = IF roundRobinCounter + 1 = orchNum THEN 0
                                    ELSE roundRobinCounter + 1
  <1> DEFINE counter == roundRobinCounter
             tries == {k \in 0..orchNum : runtimeState[(counter + k) % orchNum]}
  <1>1. orchNum \in Nat \ {0} /\ counter \in Nat /\ counter \in 0..(orchNum - 1)
    BY OrchLemma DEF TypeOK, Orch
  <1>2. \A k \in Nat : (counter + k) % orchNum \in Orch /\ (counter + k + 1) % orchNum \in Orch
    BY <1>1, ModLemma DEF Orch
  <1>0. 0 \in 0..orchNum /\ (counter + 0) % orchNum \in Orch
    <2>1. 0 \in Nat /\ 0 \in 0..orchNum
      BY <1>1
    <2>2. QED BY <1>2, <2>1, Zenon
  <1>3. CASE tries = {}
    <2>1. chosen = [orch |-> None, counter |-> (counter + orchNum + 1) % orchNum]
      BY <1>3 DEF selectOrchInRoundRobin
    <2>2. ~(\A o \in Orch : runtimeState[o])
      BY <1>0, <1>3
    <2>3. QED BY <1>1, <1>2, <2>1, <2>2
  <1>4. CASE tries # {}
    <2>1. tries \in SUBSET Nat
      BY <1>1
    <2>2. Min(tries) \in tries /\ \A y \in tries : Min(tries) <= y
      BY <1>4, <2>1, MinLemma
    <2>3. /\ chosen = [orch    |-> (counter + Min(tries)) % orchNum,
                       counter |-> (counter + Min(tries) + 1) % orchNum]
      BY <1>4 DEF selectOrchInRoundRobin
    <2>4. Min(tries) \in Nat
      BY <2>1, <2>2
    <2>5. ASSUME \A o \in Orch : runtimeState[o] PROVE Min(tries) = 0
      <3>1. 0 \in tries
        BY <1>0, <2>5
      <3>2. Min(tries) <= 0
        BY <2>2, <3>1
      <3>3. QED BY <2>4, <3>2
    <2>6. None \notin Nat
      BY DispatcherAssumption
    <2> HIDE DEF tries
    <2>7. chosen.orch \in Orch /\ chosen.counter \in Orch
      BY <1>2, <2>3, <2>4
    <2>8. ASSUME \A o \in Orch : runtimeState[o]
          PROVE  /\ chosen.orch = counter
                 /\ chosen.counter = IF counter + 1 = orchNum THEN 0 ELSE counter + 1
      <3>1. counter + Min(tries) = counter
        BY <1>1, <2>5, <2>8
      <3>2. chosen.orch = counter % orchNum /\ chosen.counter = (counter + 1) % orchNum
        BY <2>3, <3>1
      <3>3. QED BY <1>1, <3>2, ModLemma
    <2>9. QED BY <1>1, <2>6, <2>7, <2>8
  <1>5. QED BY <1>3, <1>4
-----------------------------------------------------------------------------
(***************************************************************************)
(* Requests                                                                *)
(***************************************************************************)
\* What a request may do to the queues: nothing, or a message that is no news about
\* equipment goes to an orchestrator.
QueuesKeepNews ==
    \/ orchQueue' = orchQueue
    \/ \E o \in Orch, m \in Msg :
          m.type # "EQUIPMENT" /\ orchQueue' = [orchQueue EXCEPT ![o] = Append(@, m)]

\* What a request leaves alone besides.
RequestLeaves ==
    UNCHANGED <<scenario, runtimeState, commandsInfo, rplyQueue, equipment, cmds, missing, unanswered>>

LEMMA QueuesKeepNewsLemma ==
    ASSUME IInv, RequestLeaves, QueuesKeepNews
    PROVE  orchQueue' \in [Orch -> Seq(Msg)] /\ NoneMissing' /\ NewsInv' /\ NothingTold'
  <1>0. /\ UNCHANGED <<runtimeState, commandsInfo, rplyQueue, equipment, cmds, missing, unanswered>>
        /\ Orch' = Orch
    BY DEF RequestLeaves, Orch, orchNum
  <1>1. CASE orchQueue' = orchQueue
    <2>1. orchQueue' \in [Orch -> Seq(Msg)] /\ NoneMissing'
      BY <1>0, <1>1 DEF IInv, TypeOK, NoneMissing, Told, Replied
    <2>2. \A p \in Orch : LastNewsIsTrue(p)'
      BY <1>0, <1>1 DEF IInv, NewsInv, LastNewsIsTrue
    <2>3. \A p \in Orch : LastRplyIsTrue(p)'
      BY <1>0, <1>1 DEF IInv, NewsInv, LastRplyIsTrue
    <2>4. NothingTold'
      BY <1>0, <1>1 DEF IInv, NothingTold
    <2>5. QED BY <1>0, <2>1, <2>2, <2>3, <2>4 DEF NewsInv
  <1>2. ASSUME NEW o \in Orch, NEW m \in Msg, m.type # "EQUIPMENT",
               orchQueue' = [orchQueue EXCEPT ![o] = Append(@, m)]
        PROVE  orchQueue' \in [Orch -> Seq(Msg)] /\ NoneMissing' /\ NewsInv' /\ NothingTold'
    <2>1. orchQueue \in [Orch -> Seq(Msg)] /\ orchQueue[o] \in Seq(Msg)
      BY DEF IInv, TypeOK
    <2>2. /\ orchQueue' \in [Orch -> Seq(Msg)]
          /\ orchQueue'[o] = Append(orchQueue[o], m)
          /\ \A p \in Orch \ {o} : orchQueue'[p] = orchQueue[p]
      BY <1>2, <2>1
    <2>3. /\ Len(orchQueue[o]) \in Nat
          /\ Len(orchQueue'[o]) = Len(orchQueue[o]) + 1
          /\ \A k \in 1..Len(orchQueue[o]) : orchQueue'[o][k] = orchQueue[o][k]
          /\ orchQueue'[o][Len(orchQueue[o]) + 1] = m
      BY <2>1, <2>2
    <2>4. NoneMissing'
      <3>1. \A p \in Orch, n \in Nat : Told(p, n) => Told(p, n)'
        BY <2>2, <2>3 DEF Told
      <3>2. \A p \in Orch, n \in Nat : Replied(p, n) => Replied(p, n)'
        BY <1>0 DEF Replied
      <3>3. QED BY <1>0, <3>1, <3>2 DEF IInv, NoneMissing
    <2>5. \A p \in Orch \ {o} : LastNewsIsTrue(p)' /\ LastRplyIsTrue(p)'
      <3> SUFFICES ASSUME NEW p \in Orch \ {o} PROVE LastNewsIsTrue(p)' /\ LastRplyIsTrue(p)'
        OBVIOUS
      <3>1. orchQueue'[p] = orchQueue[p] /\ LastNewsIsTrue(p) /\ LastRplyIsTrue(p)
        BY <2>2 DEF IInv, NewsInv
      <3>2. LastNewsIsTrue(p)'
        BY <1>0, <3>1 DEF LastNewsIsTrue
      <3>3. LastRplyIsTrue(p)'
        BY <1>0, <3>1 DEF LastRplyIsTrue
      <3>4. QED BY <3>2, <3>3
    <2>6. LastNewsIsTrue(o)'
      <3> SUFFICES ASSUME NEW k \in 1..Len(orchQueue'[o]), IsNews(orchQueue'[o][k]),
                          \A j \in (k + 1)..Len(orchQueue'[o]) : ~IsNews(orchQueue'[o][j]),
                          missing[o] # "command"
                   PROVE  orchQueue'[o][k].effect = equipment[o]
        BY <1>0 DEF LastNewsIsTrue, IsNews
      <3>1. k \in 1..Len(orchQueue[o])
        BY <1>2, <2>3 DEF IsNews
      <3>2. \A j \in (k + 1)..Len(orchQueue[o]) : ~IsNews(orchQueue[o][j])
        BY <2>3, <3>1
      <3>3. QED BY <2>3, <3>1, <3>2 DEF IInv, NewsInv, LastNewsIsTrue
    <2>7. LastRplyIsTrue(o)'
      <3>1. (\A k \in 1..Len(orchQueue'[o]) : ~IsNews(orchQueue'[o][k]))
                => \A k \in 1..Len(orchQueue[o]) : ~IsNews(orchQueue[o][k])
        BY <2>3
      <3>2. QED BY <1>0, <3>1 DEF IInv, NewsInv, LastRplyIsTrue, IsNews
    <2>8. NothingTold'
      <3> SUFFICES ASSUME cmds = 0, NEW p \in Orch, NEW k \in 1..Len(orchQueue'[p])
                   PROVE  orchQueue'[p][k].type # "EQUIPMENT"
        BY <1>0 DEF NothingTold
      <3>1. \A j \in 1..Len(orchQueue[p]) : orchQueue[p][j].type # "EQUIPMENT"
        BY DEF IInv, NothingTold
      <3>2. CASE p # o
        BY <2>2, <3>1, <3>2
      <3>3. CASE p = o /\ k = Len(orchQueue[o]) + 1
        BY <1>2, <2>3, <3>3
      <3>4. CASE p = o /\ k # Len(orchQueue[o]) + 1
        BY <2>3, <3>1, <3>4
      <3>5. QED BY <3>2, <3>3, <3>4
    <2>9. QED BY <1>0, <2>2, <2>4, <2>5, <2>6, <2>7, <2>8 DEF NewsInv
  <1>3. QED BY <1>1, <1>2 DEF QueuesKeepNews

\* A request that changes no dictionary.
LEMMA DictsKeptLemma ==
    ASSUME IInv, RequestLeaves, QueuesKeepNews, UNCHANGED <<sfcDict, roundRobinCounter>>
    PROVE  IInv'
  <1>0. /\ UNCHANGED <<scenario, runtimeState, commandsInfo, rplyQueue, equipment, cmds, missing>>
        /\ Orch' = Orch
    BY DEF RequestLeaves, Orch, orchNum
  <1>1. orchQueue' \in [Orch -> Seq(Msg)] /\ NoneMissing' /\ NewsInv' /\ NothingTold'
    BY QueuesKeepNewsLemma
  <1>2. TypeOK'
    BY <1>0, <1>1 DEF IInv, TypeOK
  <1>3. OneOwner' /\ InTurn'
    BY <1>0 DEF IInv, OneOwner, InTurn
  <1>4. QED BY <1>1, <1>2, <1>3 DEF IInv

\* A message about an SFC or an SFCI, sent to an orchestrator or lost.
LEMMA SendLemma ==
    ASSUME NEW o \in Orch, NEW m \in Msg, m.type # "EQUIPMENT", Send(o, m)
    PROVE  QueuesKeepNews
  BY DEF Send, QueuesKeepNews

LEMMA MessagesLemma ==
    /\ \A s \in SFCs : /\ [type |-> "ADD_SFC", sfc |-> s] \in Msg
                       /\ [type |-> "DEL_SFC", sfc |-> s] \in Msg
    /\ \A i \in SFCIs : /\ [type |-> "ADD_SFCI", sfci |-> i] \in Msg
                        /\ [type |-> "DEL_SFCI", sfci |-> i] \in Msg
  BY DEF Msg

\* AssignAndSend gives an SFC that no orchestrator has to one; as long as all are fit that
\* is the one whose turn it is.
LEMMA AssignLemma ==
    ASSUME IInv, RequestLeaves, NEW s \in SFCs,
           NEW dict \in [Orch -> SUBSET SFCs],
           \A o \in Orch : s \notin dict[o],
           \A t \in SFCs : \A o, p \in Orch : t \in dict[o] /\ t \in dict[p] => o = p,
           cmds = 0 => dict = sfcDict,
           AssignAndSend(s, dict)
    PROVE  IInv'
  <1>0. /\ UNCHANGED <<scenario, runtimeState, commandsInfo, rplyQueue, equipment, cmds, missing>>
        /\ Orch' = Orch
    BY DEF RequestLeaves, Orch, orchNum
  <1> DEFINE chosen == selectOrchInRoundRobin(roundRobinCounter)
             c == chosen.orch
  <1>1. /\ chosen.counter \in Orch
        /\ c # None => c \in Orch
        /\ (\A o \in Orch : runtimeState[o]) =>
                /\ c = roundRobinCounter /\ c # None
                /\ chosen.counter = IF roundRobinCounter + 1 = orchNum THEN 0
                                    ELSE roundRobinCounter + 1
    BY SelectLemma DEF IInv
  <1>2. /\ roundRobinCounter' = chosen.counter
        /\ \/ c = None /\ sfcDict' = dict /\ orchQueue' = orchQueue
           \/ /\ c # None
              /\ sfcDict' = [dict EXCEPT ![c] = @ \cup {s}]
              /\ Send(c, [type |-> "ADD_SFC", sfc |-> s])
    BY DEF AssignAndSend
  <1> HIDE DEF chosen, c
  <1>3. QueuesKeepNews
    <2>1. CASE orchQueue' = orchQueue
      BY <2>1 DEF QueuesKeepNews
    <2>2. CASE c # None /\ Send(c, [type |-> "ADD_SFC", sfc |-> s])
      BY <1>1, <2>2, SendLemma, MessagesLemma
    <2>3. QED BY <1>2, <2>1, <2>2
  <1>4. orchQueue' \in [Orch -> Seq(Msg)] /\ NoneMissing' /\ NewsInv' /\ NothingTold'
    BY <1>3, QueuesKeepNewsLemma
  <1>5. sfcDict' \in [Orch -> SUBSET SFCs] /\ roundRobinCounter' \in Orch
    BY <1>1, <1>2
  <1>6. TypeOK'
    BY <1>0, <1>4, <1>5 DEF IInv, TypeOK
  <1>7. OneOwner'
    <2>1. CASE sfcDict' = dict
      BY <1>0, <2>1 DEF OneOwner
    <2>2. CASE c # None /\ sfcDict' = [dict EXCEPT ![c] = @ \cup {s}]
      <3>1. \A o \in Orch : sfcDict'[o] = IF o = c THEN dict[o] \cup {s} ELSE dict[o]
        BY <2>2
      <3>2. ASSUME NEW t \in SFCs, NEW o \in Orch, NEW p \in Orch,
                   t \in sfcDict'[o], t \in sfcDict'[p]
            PROVE  o = p
        <4>1. CASE t = s
          BY <3>1, <3>2, <4>1
        <4>2. CASE t # s
          BY <3>1, <3>2, <4>2
        <4>3. QED BY <4>1, <4>2
      <3>3. QED BY <1>0, <3>2 DEF OneOwner
    <2>3. QED BY <1>2, <2>1, <2>2
  <1>8. InTurn'
    <2> SUFFICES ASSUME cmds = 0
                 PROVE  /\ \A o \in Orch : runtimeState[o] /\ rplyQueue[o] = <<>>
                        /\ \E n \in Nat : \A o \in Orch :
                              /\ IsFiniteSet(sfcDict'[o])
                              /\ Cardinality(sfcDict'[o]) =
                                    IF o < roundRobinCounter' THEN n + 1 ELSE n
      BY <1>0 DEF InTurn
    <2> DEFINE i == roundRobinCounter
    <2>1. /\ \A o \in Orch : runtimeState[o] /\ rplyQueue[o] = <<>>
          /\ \E n \in Nat : \A o \in Orch :
                /\ IsFiniteSet(sfcDict[o])
                /\ Cardinality(sfcDict[o]) = IF o < i THEN n + 1 ELSE n
      BY DEF IInv, InTurn
    <2>2. /\ c = i /\ c # None /\ c \in Orch
          /\ roundRobinCounter' = IF i + 1 = orchNum THEN 0 ELSE i + 1
          /\ sfcDict' = [sfcDict EXCEPT ![i] = @ \cup {s}]
      BY <1>1, <1>2, <2>1
    <2>3. i \in Orch /\ orchNum \in Nat \ {0} /\ Orch = 0..(orchNum - 1)
      BY <2>2, OrchLemma DEF IInv, Orch
    <2>4. PICK n \in Nat : \A o \in Orch :
                /\ IsFiniteSet(sfcDict[o])
                /\ Cardinality(sfcDict[o]) = IF o < i THEN n + 1 ELSE n
      BY <2>1
    <2>5. \A o \in Orch : sfcDict'[o] = IF o = i THEN sfcDict[i] \cup {s} ELSE sfcDict[o]
      BY <2>2 DEF IInv, TypeOK
    <2>6. IsFiniteSet(sfcDict[i] \cup {s}) /\ Cardinality(sfcDict[i] \cup {s}) = n + 1
      <3>1. s \notin sfcDict[i]
        BY <2>3
      <3>2. Cardinality(sfcDict[i]) = n /\ IsFiniteSet(sfcDict[i])
        BY <2>3, <2>4
      <3>3. QED BY <3>1, <3>2, FS_AddElement
    <2>7. \A o \in Orch : /\ IsFiniteSet(sfcDict'[o])
                          /\ Cardinality(sfcDict'[o]) = IF o <= i THEN n + 1 ELSE n
      BY <2>3, <2>4, <2>5, <2>6
    <2>8. CASE i + 1 = orchNum
      <3>1. \A o \in Orch : o <= i /\ ~(o < roundRobinCounter')
        BY <2>2, <2>3, <2>8
      <3>2. n + 1 \in Nat
        OBVIOUS
      <3>3. \A o \in Orch : /\ IsFiniteSet(sfcDict'[o])
                            /\ Cardinality(sfcDict'[o]) =
                                  IF o < roundRobinCounter' THEN (n + 1) + 1 ELSE n + 1
        BY <2>7, <3>1
      <3>4. QED BY <2>1, <3>2, <3>3
    <2>9. CASE i + 1 # orchNum
      <3>1. \A o \in Orch : o <= i <=> o < roundRobinCounter'
        BY <2>2, <2>3, <2>9
      <3>2. QED BY <2>1, <2>7, <3>1
    <2>10. QED BY <2>8, <2>9
  <1>9. QED BY <1>4, <1>6, <1>7, <1>8 DEF IInv

\* _requestHandler keeps the invariant whatever it is asked.
LEMMA RequestHandlerLemma ==
    ASSUME IInv, NEW s \in SFCs, RequestHandler(s)
    PROVE  IInv'
  <1> DEFINE o == getOrchestratorNameBySFC(s)
  <1>0. /\ o = None <=> \A p \in Orch : s \notin sfcDict[p]
        /\ o # None => o \in Orch /\ s \in sfcDict[o]
    BY OwnerLemma DEF IInv
  <1>1. RequestLeaves
    BY DEF RequestHandler, AddSFCNew, AddSFCKnown, AddSFCRaises, AddSFCMigrate, AddSFCI, DelSFCI,
           DelSFC, RequestOfUnknownSFC, reqRest, RequestLeaves
  <1> HIDE DEF o
  <1>2. CASE AddSFCNew(s)
    <2>1. AssignAndSend(s, sfcDict) /\ o = None
      BY <1>2 DEF AddSFCNew, o
    <2>2. QED BY <1>0, <1>1, <2>1, AssignLemma DEF IInv, TypeOK, OneOwner
  <1>3. CASE AddSFCMigrate(s)
    <2> DEFINE dict == [sfcDict EXCEPT ![o] = @ \ {s}]
    <2>1. AssignAndSend(s, dict) /\ o # None /\ ~runtimeState[o]
      BY <1>3 DEF AddSFCMigrate, o
    <2>2. /\ dict \in [Orch -> SUBSET SFCs]
          /\ \A p \in Orch : dict[p] = IF p = o THEN sfcDict[o] \ {s} ELSE sfcDict[p]
      BY <1>0, <2>1 DEF IInv, TypeOK
    <2>3. /\ \A p \in Orch : s \notin dict[p]
          /\ \A t \in SFCs : \A p, q \in Orch : t \in dict[p] /\ t \in dict[q] => p = q
      BY <1>0, <2>1, <2>2 DEF IInv, OneOwner
    <2>4. cmds # 0
      BY <1>0, <2>1 DEF IInv, InTurn
    <2> HIDE DEF dict
    <2>5. QED BY <1>1, <2>1, <2>2, <2>3, <2>4, AssignLemma
  <1>4. CASE AddSFCKnown(s) \/ DelSFC(s)
    <2>1. /\ o # None
          /\ Send(o, [type |-> "ADD_SFC", sfc |-> s]) \/ Send(o, [type |-> "DEL_SFC", sfc |-> s])
          /\ UNCHANGED <<sfcDict, roundRobinCounter>>
      BY <1>4 DEF AddSFCKnown, DelSFC, dictVars, o
    <2>2. QueuesKeepNews
      BY <1>0, <2>1, SendLemma, MessagesLemma
    <2>3. QED BY <1>1, <2>1, <2>2, DictsKeptLemma
  <1>5. ASSUME NEW k \in 1..SFCIsPerSFC, AddSFCI(<<s, k>>) \/ DelSFCI(<<s, k>>)
        PROVE  IInv'
    <2> DEFINE i == <<s, k>>
    <2>1. i \in SFCIs /\ getOrchestratorNameBySFC(i[1]) = o
      BY DEF SFCIs, o
    <2>2. /\ o # None
          /\ Send(o, [type |-> "ADD_SFCI", sfci |-> i]) \/ Send(o, [type |-> "DEL_SFCI", sfci |-> i])
          /\ UNCHANGED <<sfcDict, roundRobinCounter>>
      BY <1>5, <2>1 DEF AddSFCI, DelSFCI, dictVars
    <2> HIDE DEF i
    <2>3. QueuesKeepNews
      BY <1>0, <2>1, <2>2, SendLemma, MessagesLemma
    <2>4. QED BY <1>1, <2>2, <2>3, DictsKeptLemma
  <1>6. CASE AddSFCRaises(s) \/ RequestOfUnknownSFC(s)
    <2>1. UNCHANGED <<sfcDict, roundRobinCounter, orchQueue>>
      BY <1>6 DEF AddSFCRaises, RequestOfUnknownSFC, dictVars
    <2>2. QED BY <1>1, <2>1, DictsKeptLemma DEF QueuesKeepNews
  <1>7. QED BY <1>2, <1>3, <1>4, <1>5, <1>6 DEF RequestHandler
-----------------------------------------------------------------------------
(***************************************************************************)
(* Commands about equipment and the replies to them                        *)
(***************************************************************************)
\* _commandHandler: what is told last to an orchestrator is what happened last.
LEMMA CommandHandlerLemma ==
    ASSUME IInv, NEW effect \in [Orch -> Effects], CommandHandler(effect)
    PROVE  IInv'
  <1>a. PICK lost \in SUBSET Orch, found \in [Orch -> Effects] :
            /\ \A o \in Orch : found[o] \in Finds(o, effect[o])
            /\ orchQueue' = [o \in Orch |->
                    IF o \in Orch \ lost
                    THEN Append(orchQueue[o],
                                [type |-> "EQUIPMENT", id |-> cmds', effect |-> found[o]])
                    ELSE orchQueue[o]]
            /\ missing' = [o \in Orch |->
                    IF o \in lost /\ effect[o] # "none" THEN "command" ELSE missing[o]]
            /\ unanswered' = unanswered \cup {<<cmds', o>> : o \in lost}
    BY DEF CommandHandler, Tell
  <1> DEFINE news(o) == [type |-> "EQUIPMENT", id |-> cmds + 1, effect |-> found[o]]
  <1>0. /\ UNCHANGED <<scenario, sfcDict, roundRobinCounter, runtimeState, rplyQueue>>
        /\ Orch' = Orch
        /\ cmds' = cmds + 1
        /\ equipment' = [o \in Orch |-> IF effect[o] = "none" THEN equipment[o] ELSE effect[o]]
        /\ commandsInfo' = commandsInfo \cup {<<cmds + 1, o>> : o \in Orch}
    BY DEF CommandHandler, Tell, dictVars, Orch, orchNum
  <1>1. /\ cmds + 1 \in Nat /\ cmds + 1 # 0
        /\ \A o \in Orch : /\ news(o) \in Msg
                           /\ news(o).type = "EQUIPMENT"
                           /\ news(o).id = cmds + 1
                           /\ news(o).effect = found[o]
    BY DEF IInv, TypeOK, Msg
  <1>2. /\ orchQueue' \in [Orch -> Seq(Msg)]
        /\ \A o \in lost : orchQueue'[o] = orchQueue[o]
        /\ \A o \in Orch \ lost :
              /\ Len(orchQueue[o]) \in Nat
              /\ Len(orchQueue'[o]) = Len(orchQueue[o]) + 1
              /\ \A k \in 1..Len(orchQueue[o]) : orchQueue'[o][k] = orchQueue[o][k]
              /\ orchQueue'[o][Len(orchQueue[o]) + 1] = news(o)
    <2>1. \A o \in Orch : orchQueue[o] \in Seq(Msg)
      BY DEF IInv, TypeOK
    <2>2. \A o \in Orch : orchQueue'[o] = IF o \in lost THEN orchQueue[o]
                                          ELSE Append(orchQueue[o], news(o))
      BY <1>0, <1>a
    <2>3. DOMAIN orchQueue' = Orch /\ orchQueue' = [o \in Orch |-> orchQueue'[o]]
      BY <1>a
    <2> HIDE DEF news
    <2>4. ASSUME NEW o \in Orch \ lost
          PROVE  /\ Len(orchQueue[o]) \in Nat
                 /\ Len(orchQueue'[o]) = Len(orchQueue[o]) + 1
                 /\ \A k \in 1..Len(orchQueue[o]) : orchQueue'[o][k] = orchQueue[o][k]
                 /\ orchQueue'[o][Len(orchQueue[o]) + 1] = news(o)
                 /\ orchQueue'[o] \in Seq(Msg)
      <3>1. orchQueue'[o] = Append(orchQueue[o], news(o)) /\ orchQueue[o] \in Seq(Msg)
        BY <2>1, <2>2
      <3>2. news(o) \in Msg
        BY <1>1
      <3>3. QED BY <3>1, <3>2
    <2>5. orchQueue' \in [Orch -> Seq(Msg)]
      BY <2>1, <2>2, <2>3, <2>4
    <2>6. QED BY <2>2, <2>4, <2>5
  <1> HIDE DEF news
  <1>b. /\ missing' \in [Orch -> {"nothing", "answer", "command"}]
        /\ \A o \in Orch : /\ missing[o] = "command" => missing'[o] = "command"
                           /\ missing'[o] # "command" => missing'[o] = missing[o]
                           /\ missing'[o] # "command" /\ o \in lost => effect[o] = "none"
    BY <1>a DEF IInv, TypeOK
  <1>c. \A o \in Orch : missing'[o] # "command" => found[o] = effect[o]
    BY <1>a, <1>b DEF Finds
  <1>3. TypeOK'
    <2>1. commandsInfo' \subseteq Nat \X Orch
      BY <1>0, <1>1 DEF IInv, TypeOK
    <2>2. equipment' \in [Orch -> {"valid", "invalid", "noLinks"}]
      BY <1>0 DEF IInv, TypeOK, Effects
    <2>3. QED BY <1>0, <1>1, <1>2, <1>b, <2>1, <2>2 DEF IInv, TypeOK
  <1>4. OneOwner' /\ InTurn' /\ NothingTold'
    BY <1>0, <1>1 DEF IInv, OneOwner, InTurn, NothingTold
  <1>5. NoneMissing'
    <2> SUFFICES ASSUME NEW n \in Nat, NEW o \in Orch, <<n, o>> \in commandsInfo'
                 PROVE  <<n, o>> \in unanswered' \/ Told(o, n)' \/ Replied(o, n)
      BY <1>0 DEF NoneMissing, Replied
    <2>a. CASE o \in lost /\ n = cmds + 1
      BY <1>0, <1>a, <2>a
    <2>b. CASE o \in lost /\ n # cmds + 1
      <3>1. <<n, o>> \in commandsInfo
        BY <1>0, <2>b
      <3>2. Told(o, n) => Told(o, n)'
        BY <1>2, <2>b DEF Told
      <3>3. QED BY <1>a, <3>1, <3>2 DEF IInv, NoneMissing
    <2> SUFFICES ASSUME o \notin lost
                 PROVE  <<n, o>> \in unanswered' \/ Told(o, n)' \/ Replied(o, n)
      BY <2>a, <2>b
    <2>0. /\ Len(orchQueue[o]) \in Nat
          /\ Len(orchQueue'[o]) = Len(orchQueue[o]) + 1
          /\ \A k \in 1..Len(orchQueue[o]) : orchQueue'[o][k] = orchQueue[o][k]
          /\ orchQueue'[o][Len(orchQueue[o]) + 1] = news(o)
          /\ news(o).type = "EQUIPMENT" /\ news(o).id = cmds + 1 /\ news(o).effect = found[o]
      BY <1>1, <1>2
    <2>1. CASE n = cmds + 1
      <3>1. Len(orchQueue[o]) + 1 \in 1..Len(orchQueue'[o])
        BY <2>0
      <3>2. QED BY <2>0, <2>1, <3>1 DEF Told
    <2>2. CASE n # cmds + 1
      <3>1. <<n, o>> \in commandsInfo
        BY <1>0, <2>2
      <3>2. Told(o, n) => Told(o, n)'
        BY <2>0 DEF Told
      <3>3. QED BY <1>a, <3>1, <3>2 DEF IInv, NoneMissing
    <2>3. QED BY <2>1, <2>2
  <1>6. ASSUME NEW o \in Orch PROVE LastNewsIsTrue(o)'
    <2> SUFFICES ASSUME NEW k \in 1..Len(orchQueue'[o]), IsNews(orchQueue'[o][k]),
                        \A j \in (k + 1)..Len(orchQueue'[o]) : ~IsNews(orchQueue'[o][j]),
                        missing'[o] # "command"
                 PROVE  orchQueue'[o][k].effect = equipment'[o]
      BY DEF LastNewsIsTrue
    <2>a. CASE o \in lost
      <3>1. equipment'[o] = equipment[o] /\ orchQueue'[o] = orchQueue[o] /\ missing[o] # "command"
        BY <1>0, <1>2, <1>b, <2>a
      <3>2. QED BY <3>1 DEF IInv, NewsInv, LastNewsIsTrue
    <2> SUFFICES ASSUME o \notin lost PROVE orchQueue'[o][k].effect = equipment'[o]
      BY <2>a
    <2>c. missing[o] # "command" /\ found[o] = effect[o]
      BY <1>b, <1>c
    <2>0. /\ Len(orchQueue[o]) \in Nat
          /\ Len(orchQueue'[o]) = Len(orchQueue[o]) + 1
          /\ \A j \in 1..Len(orchQueue[o]) : orchQueue'[o][j] = orchQueue[o][j]
          /\ orchQueue'[o][Len(orchQueue[o]) + 1] = news(o)
          /\ news(o).type = "EQUIPMENT" /\ news(o).id = cmds + 1 /\ news(o).effect = found[o]
      BY <1>1, <1>2
    <2>1. CASE k = Len(orchQueue[o]) + 1
      <3>1. effect[o] # "none" /\ orchQueue'[o][k].effect = effect[o]
        BY <2>0, <2>1, <2>c DEF IsNews
      <3>2. QED BY <1>0, <3>1
    <2>2. CASE k # Len(orchQueue[o]) + 1
      <3>1. k \in 1..Len(orchQueue[o]) /\ Len(orchQueue[o]) + 1 \in (k + 1)..Len(orchQueue'[o])
        BY <2>0, <2>2
      <3>2. effect[o] = "none"
        BY <2>0, <2>c, <3>1 DEF IsNews
      <3>3. \A j \in (k + 1)..Len(orchQueue[o]) : ~IsNews(orchQueue[o][j])
        BY <2>0, <3>1
      <3>4. orchQueue[o][k].effect = equipment[o]
        BY <2>0, <2>c, <3>1, <3>3 DEF IInv, NewsInv, LastNewsIsTrue
      <3>5. equipment'[o] = equipment[o]
        BY <1>0, <3>2
      <3>6. QED BY <2>0, <3>1, <3>4, <3>5
    <2>3. QED BY <2>1, <2>2
  <1>7. ASSUME NEW o \in Orch PROVE LastRplyIsTrue(o)'
    <2> SUFFICES ASSUME \A k \in 1..Len(orchQueue'[o]) : ~IsNews(orchQueue'[o][k]),
                        missing'[o] = "nothing"
                 PROVE  LastRplyIsTrue(o)'
      BY DEF LastRplyIsTrue
    <2>a. CASE o \in lost
      <3>1. equipment'[o] = equipment[o] /\ orchQueue'[o] = orchQueue[o] /\ missing[o] = "nothing"
        BY <1>0, <1>2, <1>b, <2>a
      <3>2. LastRplyIsTrue(o)
        BY DEF IInv, NewsInv
      <3>3. QED BY <1>0, <3>1, <3>2 DEF LastRplyIsTrue
    <2> SUFFICES ASSUME o \notin lost PROVE LastRplyIsTrue(o)'
      BY <2>a
    <2>c. missing[o] = "nothing" /\ found[o] = effect[o]
      BY <1>b, <1>c
    <2>0. /\ Len(orchQueue[o]) \in Nat
          /\ Len(orchQueue'[o]) = Len(orchQueue[o]) + 1
          /\ \A k \in 1..Len(orchQueue[o]) : orchQueue'[o][k] = orchQueue[o][k]
          /\ orchQueue'[o][Len(orchQueue[o]) + 1] = news(o)
          /\ news(o).type = "EQUIPMENT" /\ news(o).id = cmds + 1 /\ news(o).effect = found[o]
      BY <1>1, <1>2
    <2>1. Len(orchQueue[o]) + 1 \in 1..Len(orchQueue'[o])
      BY <2>0
    <2>2. equipment'[o] = equipment[o]
      <3>1. effect[o] = "none"
        BY <2>0, <2>1, <2>c DEF IsNews
      <3>2. QED BY <1>0, <3>1
    <2>3. \A k \in 1..Len(orchQueue[o]) : ~IsNews(orchQueue[o][k])
      BY <2>0
    <2>4. LastRplyIsTrue(o)
      BY DEF IInv, NewsInv
    <2>5. QED BY <1>0, <2>2, <2>3, <2>4, <2>c DEF LastRplyIsTrue
  <1>8. QED BY <1>0, <1>3, <1>4, <1>5, <1>6, <1>7 DEF IInv, NewsInv

\* _commandReplyHandler: a command leaves the table with its reply.
LEMMA CommandReplyLemma ==
    ASSUME IInv, NEW o \in Orch, CommandReplyHandler(o)
    PROVE  IInv'
  <1> DEFINE rply == Head(rplyQueue[o])
  <1>0. /\ UNCHANGED <<scenario, sfcDict, roundRobinCounter, orchQueue, equipment, cmds, missing,
                      unanswered>>
        /\ Orch' = Orch
        /\ rplyQueue[o] # <<>>
        /\ rplyQueue' = [rplyQueue EXCEPT ![o] = Tail(@)]
        /\ runtimeState' = [runtimeState EXCEPT ![o] = rply.valid]
        /\ commandsInfo' = commandsInfo \ {<<rply.id, o>>}
    BY DEF CommandReplyHandler, dictVars, countVars, Orch, orchNum
  <1>1. /\ rplyQueue[o] \in Seq(Rply) /\ Len(rplyQueue[o]) \in Nat \ {0}
        /\ rply = rplyQueue[o][1] /\ rply \in Rply
        /\ Tail(rplyQueue[o]) \in Seq(Rply)
        /\ Len(Tail(rplyQueue[o])) = Len(rplyQueue[o]) - 1
        /\ \A k \in 1..(Len(rplyQueue[o]) - 1) : Tail(rplyQueue[o])[k] = rplyQueue[o][k + 1]
    <2>1. rplyQueue[o] \in Seq(Rply)
      BY DEF IInv, TypeOK
    <2>2. QED BY <1>0, <2>1
  <1>2. /\ rplyQueue'[o] = Tail(rplyQueue[o])
        /\ \A p \in Orch \ {o} : rplyQueue'[p] = rplyQueue[p]
        /\ runtimeState'[o] = rply.valid
        /\ \A p \in Orch \ {o} : runtimeState'[p] = runtimeState[p]
    BY <1>0 DEF IInv, TypeOK
  <1>3. TypeOK'
    <2>1. rply.valid \in BOOLEAN
      BY <1>1 DEF Rply
    <2>2. runtimeState' \in [Orch -> BOOLEAN]
      BY <1>0, <2>1 DEF IInv, TypeOK
    <2>3. rplyQueue' \in [Orch -> Seq(Rply)]
      BY <1>0, <1>1 DEF IInv, TypeOK
    <2>4. commandsInfo' \subseteq Nat \X Orch
      BY <1>0 DEF IInv, TypeOK
    <2>5. QED BY <1>0, <2>2, <2>3, <2>4 DEF IInv, TypeOK
  <1>4. OneOwner' /\ NothingTold'
    BY <1>0 DEF IInv, OneOwner, NothingTold
  <1>5. InTurn'
    <2>1. cmds # 0
      BY <1>0 DEF IInv, InTurn
    <2>2. QED BY <1>0, <2>1 DEF InTurn
  <1>6. NoneMissing'
    <2> SUFFICES ASSUME NEW n \in Nat, NEW p \in Orch, <<n, p>> \in commandsInfo'
                 PROVE  <<n, p>> \in unanswered \/ Told(p, n) \/ Replied(p, n)'
      BY <1>0 DEF NoneMissing, Told
    <2>1. <<n, p>> \in commandsInfo /\ (p # o \/ n # rply.id)
      BY <1>0
    <2>2. Replied(p, n) => Replied(p, n)'
      <3>1. CASE p # o
        BY <1>2, <3>1 DEF Replied
      <3>2. CASE p = o
        <4>1. ASSUME NEW k \in 1..Len(rplyQueue[o]), rplyQueue[o][k].id = n
              PROVE  Replied(o, n)'
          <5>1. k # 1
            BY <1>1, <2>1, <3>2, <4>1
          <5>2. k - 1 \in 1..(Len(rplyQueue[o]) - 1) /\ rplyQueue'[o][k - 1] = rplyQueue[o][k]
            BY <1>1, <1>2, <5>1
          <5>3. QED BY <1>1, <1>2, <4>1, <5>2 DEF Replied
        <4>2. QED BY <3>2, <4>1 DEF Replied
      <3>3. QED BY <3>1, <3>2
    <2>3. QED BY <2>1, <2>2 DEF IInv, NoneMissing
  <1>7. ASSUME NEW p \in Orch PROVE LastNewsIsTrue(p)'
    BY <1>0 DEF IInv, NewsInv, LastNewsIsTrue
  <1>8. ASSUME NEW p \in Orch PROVE LastRplyIsTrue(p)'
    <2>0. LastRplyIsTrue(p)
      BY DEF IInv, NewsInv
    <2>1. CASE p # o
      BY <1>0, <1>2, <2>0, <2>1 DEF LastRplyIsTrue
    <2>2. CASE p = o
      <3> SUFFICES ASSUME \A k \in 1..Len(orchQueue[o]) : ~IsNews(orchQueue[o][k]),
                          equipment[o] # "noLinks", missing[o] = "nothing"
                   PROVE  /\ rplyQueue'[o] = <<>> => (runtimeState'[o] <=> equipment[o] = "valid")
                          /\ rplyQueue'[o] # <<>> =>
                               (rplyQueue'[o][Len(rplyQueue'[o])].valid <=> equipment[o] = "valid")
        BY <1>0, <2>2 DEF LastRplyIsTrue
      <3>1. rplyQueue[o][Len(rplyQueue[o])].valid <=> equipment[o] = "valid"
        BY <1>0, <2>0, <2>2 DEF LastRplyIsTrue
      <3>2. CASE Len(rplyQueue[o]) = 1
        <4>1. Len(rplyQueue'[o]) = 0 /\ rplyQueue'[o] \in Seq(Rply)
          BY <1>1, <1>2, <3>2
        <4>2. rplyQueue'[o] = <<>>
          BY <4>1
        <4>3. QED BY <1>1, <1>2, <3>1, <3>2, <4>2
      <3>3. CASE Len(rplyQueue[o]) # 1
        <4> DEFINE n == Len(rplyQueue[o])
        <4>0. n \in Nat /\ n # 0 /\ n # 1
          BY <1>1, <3>3
        <4>1. \A k \in 1..(n - 1) : rplyQueue'[o][k] = rplyQueue[o][k + 1]
          BY <1>1, <1>2
        <4>2. Len(rplyQueue'[o]) = n - 1
          BY <1>1, <1>2
        <4> HIDE DEF n
        <4>3. n - 1 \in 1..(n - 1) /\ (n - 1) + 1 = n /\ n - 1 # 0
          BY <4>0
        <4>4. rplyQueue'[o][n - 1] = rplyQueue[o][n]
          BY <4>1, <4>3
        <4>5. rplyQueue'[o] # <<>>
          BY <4>2, <4>3
        <4>6. QED BY <3>1, <4>2, <4>4, <4>5 DEF n
      <3>4. QED BY <3>2, <3>3
    <2>3. QED BY <2>1, <2>2
  <1>9. QED BY <1>0, <1>3, <1>4, <1>5, <1>6, <1>7, <1>8 DEF IInv, NewsInv
-----------------------------------------------------------------------------
(***************************************************************************)
(* The orchestrators                                                       *)
(***************************************************************************)
\* The queue of an orchestrator that takes its first message.
LEMMA TakesLemma ==
    ASSUME TypeOK, NEW o \in Orch, NEW type, Takes(o, type)
    PROVE  /\ orchQueue' \in [Orch -> Seq(Msg)]
           /\ \A p \in Orch \ {o} : orchQueue'[p] = orchQueue[p]
           /\ Len(orchQueue[o]) \in Nat \ {0}
           /\ orchQueue[o][1] = Head(orchQueue[o])
           /\ orchQueue[o][1] \in Msg
           /\ orchQueue[o][1].type = type
           /\ Len(orchQueue'[o]) = Len(orchQueue[o]) - 1
           /\ \A k \in 1..Len(orchQueue'[o]) :
                 k + 1 \in 1..Len(orchQueue[o]) /\ orchQueue'[o][k] = orchQueue[o][k + 1]
           /\ \A k \in 1..Len(orchQueue[o]) :
                 k # 1 => k - 1 \in 1..Len(orchQueue'[o]) /\ orchQueue'[o][k - 1] = orchQueue[o][k]
  <1>1. /\ orchQueue \in [Orch -> Seq(Msg)] /\ orchQueue[o] \in Seq(Msg)
        /\ orchQueue[o] # <<>> /\ Head(orchQueue[o]).type = type
        /\ orchQueue' = [orchQueue EXCEPT ![o] = Tail(@)]
    BY DEF TypeOK, Takes
  <1>2. /\ Len(orchQueue[o]) \in Nat \ {0}
        /\ orchQueue[o][1] = Head(orchQueue[o])
        /\ orchQueue[o][1] \in Msg
        /\ Tail(orchQueue[o]) \in Seq(Msg)
        /\ Len(Tail(orchQueue[o])) = Len(orchQueue[o]) - 1
        /\ \A k \in 1..(Len(orchQueue[o]) - 1) : Tail(orchQueue[o])[k] = orchQueue[o][k + 1]
    BY <1>1
  <1>3. /\ orchQueue' \in [Orch -> Seq(Msg)]
        /\ orchQueue'[o] = Tail(orchQueue[o])
        /\ \A p \in Orch \ {o} : orchQueue'[p] = orchQueue[p]
    BY <1>1, <1>2
  <1> DEFINE n == Len(orchQueue[o])
  <1>4. n \in Nat \ {0} /\ Len(orchQueue'[o]) = n - 1
    BY <1>2, <1>3
  <1>5. \A k \in 1..(n - 1) : orchQueue'[o][k] = orchQueue[o][k + 1]
    BY <1>2, <1>3
  <1> HIDE DEF n
  <1>6. \A k \in 1..(n - 1) : k + 1 \in 1..n
    BY <1>4
  <1>7. \A k \in 1..n : k # 1 => k - 1 \in 1..(n - 1) /\ (k - 1) + 1 = k
    BY <1>4
  <1>8. \A k \in 1..n : k # 1 => orchQueue'[o][k - 1] = orchQueue[o][k]
    <2> SUFFICES ASSUME NEW k \in 1..n, k # 1 PROVE orchQueue'[o][k - 1] = orchQueue[o][k]
      OBVIOUS
    <2>1. k - 1 \in 1..(n - 1) /\ (k - 1) + 1 = k
      BY <1>7
    <2>2. orchQueue'[o][k - 1] = orchQueue[o][(k - 1) + 1]
      BY <1>5, <2>1
    <2>3. QED BY <2>1, <2>2
  <1>9. QED BY <1>1, <1>2, <1>3, <1>4, <1>5, <1>6, <1>7, <1>8 DEF n

\* What the orchestrator has not read yet stays as true as it was.
LEMMA TakesKeepsNewsLemma ==
    ASSUME IInv, NEW o \in Orch, NEW type, Takes(o, type), UNCHANGED <<scenario, equipment>>,
           \A p \in Orch : missing'[p] # "command" => missing[p] # "command"
    PROVE  /\ \A p \in Orch : LastNewsIsTrue(p)'
           /\ ~IsNews(orchQueue[o][1]) /\ (\A k \in 1..Len(orchQueue'[o]) : ~IsNews(orchQueue'[o][k]))
                => \A k \in 1..Len(orchQueue[o]) : ~IsNews(orchQueue[o][k])
           /\ missing[o] # "command" /\ IsNews(orchQueue[o][1])
                /\ (\A k \in 1..Len(orchQueue'[o]) : ~IsNews(orchQueue'[o][k]))
                    => orchQueue[o][1].effect = equipment[o]
  <1>0. Orch' = Orch /\ equipment' = equipment
    BY DEF Orch, orchNum
  <1>1. /\ \A p \in Orch \ {o} : orchQueue'[p] = orchQueue[p]
        /\ Len(orchQueue[o]) \in Nat \ {0}
        /\ Len(orchQueue'[o]) = Len(orchQueue[o]) - 1
        /\ \A k \in 1..Len(orchQueue'[o]) :
              k + 1 \in 1..Len(orchQueue[o]) /\ orchQueue'[o][k] = orchQueue[o][k + 1]
        /\ \A k \in 1..Len(orchQueue[o]) :
              k # 1 => k - 1 \in 1..Len(orchQueue'[o]) /\ orchQueue'[o][k - 1] = orchQueue[o][k]
    BY TakesLemma DEF IInv
  <1>2. LastNewsIsTrue(o)
    BY DEF IInv, NewsInv
  <1>3. ASSUME NEW p \in Orch \ {o} PROVE LastNewsIsTrue(p)'
    <2>1. LastNewsIsTrue(p) /\ orchQueue'[p] = orchQueue[p]
      BY <1>1 DEF IInv, NewsInv
    <2>2. QED BY <1>0, <2>1 DEF LastNewsIsTrue
  <1>4. LastNewsIsTrue(o)'
    <2> SUFFICES ASSUME NEW k \in 1..Len(orchQueue'[o]), IsNews(orchQueue'[o][k]),
                        \A j \in (k + 1)..Len(orchQueue'[o]) : ~IsNews(orchQueue'[o][j]),
                        missing[o] # "command"
                 PROVE  orchQueue'[o][k].effect = equipment[o]
      BY <1>0 DEF LastNewsIsTrue
    <2>1. k + 1 \in 1..Len(orchQueue[o]) /\ orchQueue'[o][k] = orchQueue[o][k + 1]
      BY <1>1
    <2>2. ASSUME NEW j \in (k + 1 + 1)..Len(orchQueue[o]) PROVE ~IsNews(orchQueue[o][j])
      <3>1. j \in 1..Len(orchQueue[o]) /\ j # 1 /\ j - 1 \in (k + 1)..Len(orchQueue'[o])
        BY <1>1
      <3>2. orchQueue'[o][j - 1] = orchQueue[o][j]
        BY <1>1, <3>1
      <3>3. ~IsNews(orchQueue'[o][j - 1])
        BY <3>1
      <3>4. QED BY <3>2, <3>3
    <2>3. IsNews(orchQueue[o][k + 1])
      BY <2>1
    <2>4. orchQueue[o][k + 1].effect = equipment[o]
      BY <1>2, <2>1, <2>2, <2>3 DEF LastNewsIsTrue
    <2>5. QED BY <2>1, <2>4
  <1>5. ASSUME \A k \in 1..Len(orchQueue'[o]) : ~IsNews(orchQueue'[o][k])
        PROVE  \A k \in 1..Len(orchQueue[o]) : k # 1 => ~IsNews(orchQueue[o][k])
    <2> SUFFICES ASSUME NEW k \in 1..Len(orchQueue[o]), k # 1 PROVE ~IsNews(orchQueue[o][k])
      OBVIOUS
    <2>1. k - 1 \in 1..Len(orchQueue'[o]) /\ orchQueue'[o][k - 1] = orchQueue[o][k]
      BY <1>1
    <2>2. ~IsNews(orchQueue'[o][k - 1])
      BY <1>5, <2>1
    <2>3. QED BY <2>1, <2>2
  <1>6. ASSUME \A k \in 1..Len(orchQueue'[o]) : ~IsNews(orchQueue'[o][k]),
               IsNews(orchQueue[o][1]), missing[o] # "command"
        PROVE  orchQueue[o][1].effect = equipment[o]
    <2>1. 1 \in 1..Len(orchQueue[o])
      BY <1>1
    <2>2. ASSUME NEW j \in (1 + 1)..Len(orchQueue[o]) PROVE ~IsNews(orchQueue[o][j])
      <3>1. j \in 1..Len(orchQueue[o]) /\ j # 1
        BY <1>1
      <3>2. QED BY <1>5, <1>6, <3>1
    <2>3. QED BY <1>2, <1>6, <2>1, <2>2 DEF LastNewsIsTrue
  <1>7. \A p \in Orch : LastNewsIsTrue(p)'
    BY <1>3, <1>4
  <1>8. ASSUME \A k \in 1..Len(orchQueue'[o]) : ~IsNews(orchQueue'[o][k]),
               ~IsNews(orchQueue[o][1])
        PROVE  \A k \in 1..Len(orchQueue[o]) : ~IsNews(orchQueue[o][k])
    BY <1>5, <1>8
  <1>9. QED
    <2>1. ~IsNews(orchQueue[o][1]) /\ (\A k \in 1..Len(orchQueue'[o]) : ~IsNews(orchQueue'[o][k]))
                => \A k \in 1..Len(orchQueue[o]) : ~IsNews(orchQueue[o][k])
      BY <1>8
    <2>2. missing[o] # "command" /\ IsNews(orchQueue[o][1])
            /\ (\A k \in 1..Len(orchQueue'[o]) : ~IsNews(orchQueue'[o][k]))
                => orchQueue[o][1].effect = equipment[o]
      BY <1>6
    <2>3. QED BY <1>7, <2>1, <2>2

\* A message about an SFC or an SFCI.
LEMMA OrchOtherLemma ==
    ASSUME IInv, NEW o \in Orch, NEW type, type # "EQUIPMENT", Takes(o, type),
           UNCHANGED <<scenario, sfcDict, roundRobinCounter, runtimeState, commandsInfo, rplyQueue,
                       equipment, cmds, missing, unanswered>>
    PROVE  IInv'
  <1>0. Orch' = Orch
    BY DEF Orch, orchNum
  <1>1. /\ orchQueue' \in [Orch -> Seq(Msg)]
        /\ \A p \in Orch \ {o} : orchQueue'[p] = orchQueue[p]
        /\ Len(orchQueue[o]) \in Nat \ {0}
        /\ orchQueue[o][1].type = type
        /\ \A k \in 1..Len(orchQueue'[o]) :
              k + 1 \in 1..Len(orchQueue[o]) /\ orchQueue'[o][k] = orchQueue[o][k + 1]
        /\ \A k \in 1..Len(orchQueue[o]) :
              k # 1 => k - 1 \in 1..Len(orchQueue'[o]) /\ orchQueue'[o][k - 1] = orchQueue[o][k]
    BY TakesLemma DEF IInv
  <1>2. TypeOK'
    BY <1>0, <1>1 DEF IInv, TypeOK
  <1>3. OneOwner' /\ InTurn'
    BY <1>0 DEF IInv, OneOwner, InTurn
  <1>4. NothingTold'
    <2> SUFFICES ASSUME cmds = 0, NEW p \in Orch, NEW k \in 1..Len(orchQueue'[p])
                 PROVE  orchQueue'[p][k].type # "EQUIPMENT"
      BY <1>0 DEF NothingTold
    <2>1. \A j \in 1..Len(orchQueue[p]) : orchQueue[p][j].type # "EQUIPMENT"
      BY DEF IInv, NothingTold
    <2>2. CASE p # o
      BY <1>1, <2>1, <2>2
    <2>3. CASE p = o
      <3>1. k + 1 \in 1..Len(orchQueue[o]) /\ orchQueue'[o][k] = orchQueue[o][k + 1]
        BY <1>1, <2>3
      <3>2. QED BY <2>1, <2>3, <3>1
    <2>4. QED BY <2>2, <2>3
  <1>5. NoneMissing'
    <2> SUFFICES ASSUME NEW n \in Nat, NEW p \in Orch, Told(p, n) PROVE Told(p, n)'
      BY <1>0 DEF IInv, NoneMissing, Replied
    <2>1. CASE p # o
      BY <1>1, <2>1 DEF Told
    <2>2. CASE p = o
      <3>1. PICK k \in 1..Len(orchQueue[o]) : orchQueue[o][k].type = "EQUIPMENT" /\ orchQueue[o][k].id = n
        BY <2>2 DEF Told
      <3>2. k # 1
        BY <1>1, <3>1
      <3>3. k - 1 \in 1..Len(orchQueue'[o]) /\ orchQueue'[o][k - 1] = orchQueue[o][k]
        BY <1>1, <3>2
      <3>4. QED BY <2>2, <3>1, <3>3 DEF Told
    <2>3. QED BY <2>1, <2>2
  <1>6. \A p \in Orch : LastNewsIsTrue(p)'
    BY TakesKeepsNewsLemma
  <1>7. ASSUME NEW p \in Orch PROVE LastRplyIsTrue(p)'
    <2>0. LastRplyIsTrue(p)
      BY DEF IInv, NewsInv
    <2>1. CASE p # o
      <3>1. orchQueue'[p] = orchQueue[p]
        BY <1>1, <2>1
      <3>2. QED BY <2>0, <3>1 DEF LastRplyIsTrue
    <2>2. CASE p = o
      <3>1. ~IsNews(orchQueue[o][1])
        BY <1>1 DEF IsNews
      <3>2. (\A k \in 1..Len(orchQueue'[o]) : ~IsNews(orchQueue'[o][k]))
                => \A k \in 1..Len(orchQueue[o]) : ~IsNews(orchQueue[o][k])
        BY <3>1, TakesKeepsNewsLemma
      <3>3. QED BY <2>0, <2>2, <3>2 DEF LastRplyIsTrue, IsNews
    <2>3. QED BY <2>1, <2>2
  <1>8. QED BY <1>0, <1>2, <1>3, <1>4, <1>5, <1>6, <1>7 DEF IInv, NewsInv

\* CMD_TYPE_ORCHESTRATION_UPDATE_EQUIPMENT_STATE: the command is answered with the effect,
\* or the orchestrator has no reason to answer.
LEMMA OrchEquipmentLemma ==
    ASSUME IInv, NEW o \in Orch, OrchEquipment(o)
    PROVE  IInv'
  <1> DEFINE cmd == orchQueue[o][1]
             answer == [id |-> cmd.id, valid |-> (cmd.effect = "valid")]
             Answers == /\ cmd.effect \notin {"none", "noLinks"}
                        /\ rplyQueue' = [rplyQueue EXCEPT ![o] = Append(@, answer)]
  <1>0. /\ UNCHANGED <<scenario, sfcDict, roundRobinCounter, runtimeState, commandsInfo, equipment, cmds>>
        /\ Orch' = Orch
        /\ Takes(o, "EQUIPMENT")
    BY DEF OrchEquipment, dictVars, countVars, Orch, orchNum
  <1>1. /\ orchQueue' \in [Orch -> Seq(Msg)]
        /\ \A p \in Orch \ {o} : orchQueue'[p] = orchQueue[p]
        /\ Len(orchQueue[o]) \in Nat \ {0}
        /\ cmd = Head(orchQueue[o])
        /\ cmd \in Msg
        /\ cmd.type = "EQUIPMENT"
        /\ \A k \in 1..Len(orchQueue'[o]) :
              k + 1 \in 1..Len(orchQueue[o]) /\ orchQueue'[o][k] = orchQueue[o][k + 1]
        /\ \A k \in 1..Len(orchQueue[o]) :
              k # 1 => k - 1 \in 1..Len(orchQueue'[o]) /\ orchQueue'[o][k - 1] = orchQueue[o][k]
    BY <1>0, TakesLemma DEF IInv
  <1>2. cmd.id \in Nat /\ cmd.effect \in Effects
    BY <1>1 DEF Msg
  <1>3. \/ /\ cmd.effect \in {"none", "noLinks"}
           /\ unanswered' = unanswered \cup {<<cmd.id, o>>}
           /\ rplyQueue' = rplyQueue
           /\ missing' = missing
        \/ /\ Answers
           /\ unanswered' = unanswered
           /\ missing' = IF missing[o] = "command" THEN missing
                         ELSE [missing EXCEPT ![o] = "nothing"]
        \/ /\ cmd.effect \notin {"none", "noLinks"}
           /\ unanswered' = unanswered \cup {<<cmd.id, o>>}
           /\ rplyQueue' = rplyQueue
           /\ missing' = IF missing[o] = "command" THEN missing
                         ELSE [missing EXCEPT ![o] = "answer"]
    BY <1>1 DEF OrchEquipment
  <1>a. /\ missing' \in [Orch -> {"nothing", "answer", "command"}]
        /\ \A p \in Orch : missing'[p] # "command" => missing[p] # "command"
        /\ \A p \in Orch \ {o} : missing'[p] = missing[p]
    BY <1>3 DEF IInv, TypeOK
  <1>b. missing'[o] = "nothing" =>
            \/ cmd.effect \in {"none", "noLinks"} /\ rplyQueue' = rplyQueue /\ missing[o] = "nothing"
            \/ Answers
    BY <1>3 DEF IInv, TypeOK
  <1>4. answer \in Rply /\ answer.id = cmd.id /\ (answer.valid <=> cmd.effect = "valid")
    BY <1>2 DEF Rply
  <1>5. Answers =>
            /\ rplyQueue' \in [Orch -> Seq(Rply)]
            /\ \A p \in Orch \ {o} : rplyQueue'[p] = rplyQueue[p]
            /\ rplyQueue'[o] # <<>>
            /\ Len(rplyQueue[o]) \in Nat
            /\ Len(rplyQueue'[o]) = Len(rplyQueue[o]) + 1
            /\ rplyQueue'[o][Len(rplyQueue'[o])] = answer
            /\ \A k \in 1..Len(rplyQueue[o]) : rplyQueue'[o][k] = rplyQueue[o][k]
    <2>0. SUFFICES ASSUME Answers
          PROVE  /\ rplyQueue' \in [Orch -> Seq(Rply)]
                 /\ \A p \in Orch \ {o} : rplyQueue'[p] = rplyQueue[p]
                 /\ rplyQueue'[o] # <<>>
                 /\ Len(rplyQueue[o]) \in Nat
                 /\ Len(rplyQueue'[o]) = Len(rplyQueue[o]) + 1
                 /\ rplyQueue'[o][Len(rplyQueue'[o])] = answer
                 /\ \A k \in 1..Len(rplyQueue[o]) : rplyQueue'[o][k] = rplyQueue[o][k]
      OBVIOUS
    <2>1. rplyQueue \in [Orch -> Seq(Rply)] /\ rplyQueue[o] \in Seq(Rply)
      BY DEF IInv, TypeOK
    <2>2. rplyQueue' = [rplyQueue EXCEPT ![o] = Append(@, answer)]
      BY <2>0
    <2> HIDE DEF answer, cmd, Answers
    <2>3. /\ rplyQueue' \in [Orch -> Seq(Rply)]
          /\ \A p \in Orch \ {o} : rplyQueue'[p] = rplyQueue[p]
          /\ rplyQueue'[o] = Append(rplyQueue[o], answer)
      BY <1>4, <2>1, <2>2
    <2>4. QED BY <1>4, <2>1, <2>3
  <1>c. Answers => cmd.effect \notin {"none", "noLinks"}
    OBVIOUS
  <1> HIDE DEF answer, Answers
  <1>6. TypeOK'
    <2>1. rplyQueue' \in [Orch -> Seq(Rply)]
      BY <1>3, <1>5 DEF IInv, TypeOK
    <2>2. QED BY <1>0, <1>1, <1>a, <2>1 DEF IInv, TypeOK
  <1>7. OneOwner'
    BY <1>0 DEF IInv, OneOwner
  <1>8. cmds # 0
    <2>1. 1 \in 1..Len(orchQueue[o])
      BY <1>1
    <2>2. QED BY <1>1, <2>1 DEF IInv, NothingTold
  <1>9. InTurn' /\ NothingTold'
    BY <1>0, <1>8 DEF InTurn, NothingTold
  <1>10. NoneMissing'
    <2> SUFFICES ASSUME NEW n \in Nat, NEW p \in Orch, <<n, p>> \in commandsInfo
                 PROVE  <<n, p>> \in unanswered' \/ Told(p, n)' \/ Replied(p, n)'
      BY <1>0 DEF NoneMissing
    <2>1. <<n, p>> \in unanswered \/ Told(p, n) \/ Replied(p, n)
      BY DEF IInv, NoneMissing
    <2>2. unanswered \subseteq unanswered'
      BY <1>3
    <2>3. Replied(p, n) => Replied(p, n)'
      <3>1. CASE rplyQueue' = rplyQueue
        BY <3>1 DEF Replied
      <3>2. CASE Answers /\ p # o
        <4>1. rplyQueue'[p] = rplyQueue[p]
          BY <1>5, <3>2
        <4>2. QED BY <4>1 DEF Replied
      <3>3. CASE Answers /\ p = o
        BY <1>5, <3>3 DEF Replied
      <3>4. QED BY <1>3, <3>1, <3>2, <3>3
    <2>4. CASE Told(p, n)
      <3>1. CASE p # o
        BY <1>1, <2>4, <3>1 DEF Told
      <3>2. CASE p = o
        <4>1. PICK k \in 1..Len(orchQueue[o]) :
                    orchQueue[o][k].type = "EQUIPMENT" /\ orchQueue[o][k].id = n
          BY <2>4, <3>2 DEF Told
        <4>2. CASE k # 1
          <5>1. k - 1 \in 1..Len(orchQueue'[o]) /\ orchQueue'[o][k - 1] = orchQueue[o][k]
            BY <1>1, <4>2
          <5>2. QED BY <3>2, <4>1, <5>1 DEF Told
        <4>3. CASE k = 1
          <5>1. n = cmd.id
            BY <4>1, <4>3
          <5>2. CASE ~Answers
            BY <1>3, <3>2, <5>1, <5>2
          <5>3. CASE Answers
            <6>1. Len(rplyQueue'[o]) \in 1..Len(rplyQueue'[o])
              BY <1>5, <5>3
            <6>2. rplyQueue'[o][Len(rplyQueue'[o])].id = n
              BY <1>4, <1>5, <5>1, <5>3
            <6>3. QED BY <3>2, <6>1, <6>2 DEF Replied
          <5>4. QED BY <5>2, <5>3
        <4>4. QED BY <4>2, <4>3
      <3>3. QED BY <3>1, <3>2
    <2>5. QED BY <2>1, <2>2, <2>3, <2>4
  <1>11. \A p \in Orch : LastNewsIsTrue(p)'
    BY <1>0, <1>a, TakesKeepsNewsLemma
  <1>12. ASSUME NEW p \in Orch PROVE LastRplyIsTrue(p)'
    <2>0. LastRplyIsTrue(p)
      BY DEF IInv, NewsInv
    <2>1. CASE p # o
      <3>1. orchQueue'[p] = orchQueue[p] /\ rplyQueue'[p] = rplyQueue[p]
        BY <1>1, <1>3, <1>5, <2>1
      <3>2. QED BY <1>0, <1>a, <2>0, <2>1, <3>1 DEF LastRplyIsTrue
    <2>2. CASE p = o
      <3> SUFFICES ASSUME \A k \in 1..Len(orchQueue'[o]) : ~IsNews(orchQueue'[o][k]),
                          equipment[o] # "noLinks", missing'[o] = "nothing"
                   PROVE  /\ rplyQueue'[o] = <<>> => (runtimeState[o] <=> equipment[o] = "valid")
                          /\ rplyQueue'[o] # <<>> =>
                               (rplyQueue'[o][Len(rplyQueue'[o])].valid <=> equipment[o] = "valid")
        BY <1>0, <2>2 DEF LastRplyIsTrue
      <3>1. CASE cmd.effect = "none"
        <4>1. ~IsNews(orchQueue[o][1])
          BY <3>1 DEF IsNews
        <4>2. \A k \in 1..Len(orchQueue[o]) : ~IsNews(orchQueue[o][k])
          BY <1>0, <1>a, <4>1, TakesKeepsNewsLemma
        <4>3. rplyQueue' = rplyQueue /\ missing[o] = "nothing"
          BY <1>b, <1>c, <3>1
        <4>4. QED BY <2>0, <2>2, <4>2, <4>3 DEF LastRplyIsTrue
      <3>2. CASE cmd.effect # "none"
        <4>1. IsNews(orchQueue[o][1])
          BY <1>1, <3>2 DEF IsNews
        <4>2. cmd.effect = equipment[o]
          <5>1. missing[o] # "command"
            BY <1>a, <1>b
          <5>2. QED BY <1>0, <1>a, <4>1, <5>1, TakesKeepsNewsLemma
        <4>3. Answers
          BY <1>b, <3>2, <4>2
        <4>4. QED BY <1>4, <1>5, <4>2, <4>3
      <3>3. QED BY <3>1, <3>2
    <2>3. QED BY <2>1, <2>2
  <1>13. QED BY <1>0, <1>6, <1>7, <1>9, <1>10, <1>11, <1>12 DEF IInv, NewsInv
-----------------------------------------------------------------------------
(***************************************************************************)
(* The invariant, and what follows from it                                 *)
(***************************************************************************)
LEMMA InitLemma == Init => IInv
  <1> SUFFICES ASSUME Init PROVE IInv
    OBVIOUS
  <1>1. scenario \in Scenarios /\ orchNum \in Nat \ {0} /\ 0 \in Orch
    BY DispatcherAssumption DEF Init, Scenario, orchNum, Orch
  <1>2. TypeOK
    BY <1>1 DEF Init, TypeOK
  <1>3. OneOwner /\ NoneMissing
    BY DEF Init, OneOwner, NoneMissing
  <1>4. NewsInv /\ NothingTold
    BY DEF Init, NewsInv, LastNewsIsTrue, LastRplyIsTrue, NothingTold
  <1>5. InTurn
    <2>1. \A o \in Orch : /\ IsFiniteSet(sfcDict[o])
                          /\ Cardinality(sfcDict[o]) = IF o < roundRobinCounter THEN 0 + 1 ELSE 0
      <3>1. \A o \in Orch : sfcDict[o] = {} /\ ~(o < roundRobinCounter)
        BY <1>1 DEF Init, Orch
      <3>2. QED BY <3>1, FS_EmptySet
    <2>2. \A o \in Orch : runtimeState[o] /\ rplyQueue[o] = <<>>
      BY DEF Init
    <2>3. 0 \in Nat
      OBVIOUS
    <2>4. QED BY <2>1, <2>2, <2>3 DEF InTurn
  <1>6. QED BY <1>2, <1>3, <1>4, <1>5 DEF IInv

LEMMA NextLemma == IInv /\ [Next]_vars => IInv'
  <1> SUFFICES ASSUME IInv, [Next]_vars PROVE IInv'
    OBVIOUS
  <1>1. ASSUME NEW s \in SFCs, RequestHandler(s) PROVE IInv'
    BY <1>1, RequestHandlerLemma
  <1>2. ASSUME NEW effect \in [Orch -> Effects], CommandHandler(effect) PROVE IInv'
    BY <1>2, CommandHandlerLemma
  <1>3. ASSUME NEW o \in Orch, CommandReplyHandler(o) PROVE IInv'
    BY <1>3, CommandReplyLemma
  <1>4. ASSUME NEW o \in Orch, OrchStep(o) PROVE IInv'
    <2>1. CASE OrchEquipment(o)
      BY <2>1, OrchEquipmentLemma
    <2>2. CASE OrchSFC(o) \/ OrchAddSFCI(o) \/ OrchDelSFCI(o)
      <3>1. /\ \E type \in {"ADD_SFC", "DEL_SFC", "ADD_SFCI", "DEL_SFCI"} : Takes(o, type)
            /\ UNCHANGED <<scenario, sfcDict, roundRobinCounter, runtimeState, commandsInfo,
                           rplyQueue, equipment, cmds, missing, unanswered>>
        BY <2>2 DEF OrchSFC, OrchAddSFCI, OrchDelSFCI, dictVars, countVars
      <3>2. PICK type \in {"ADD_SFC", "DEL_SFC", "ADD_SFCI", "DEL_SFCI"} : Takes(o, type)
        BY <3>1
      <3>3. QED BY <3>1, <3>2, OrchOtherLemma
    <2>3. QED BY <1>4, <2>1, <2>2 DEF OrchStep
  <1>5. CASE UNCHANGED vars
    <2>1. /\ UNCHANGED <<scenario, sfcDict, roundRobinCounter, runtimeState, commandsInfo, rplyQueue,
                         equipment, cmds, missing, unanswered, orchQueue>>
      BY <1>5 DEF vars, dictVars, countVars
    <2>2. RequestLeaves /\ QueuesKeepNews
      BY <2>1 DEF RequestLeaves, QueuesKeepNews
    <2>3. QED BY <2>1, <2>2, DictsKeptLemma
  <1>6. QED BY <1>1, <1>2, <1>3, <1>4, <1>5 DEF Next

LEMMA Invariance == Spec => []IInv
  <1>1. QED BY InitLemma, NextLemma, PTL DEF Spec

\* An SFC belongs to one orchestrator at a time, also when it migrates, for any number of
\* orchestrators and any order of requests and failures (_requestHandler).
THEOREM OneOrchestrator == Spec => []OneOrchestratorPerSFC
  <1>1. IInv => OneOrchestratorPerSFC
    <2> SUFFICES ASSUME IInv, NEW s \in SFCs PROVE Cardinality(OrchsOfSFC(s)) <= 1
      BY DEF OneOrchestratorPerSFC
    <2>1. CASE OrchsOfSFC(s) = {}
      BY <2>1, FS_EmptySet
    <2>2. CASE OrchsOfSFC(s) # {}
      <3>1. PICK o : o \in OrchsOfSFC(s)
        BY <2>2
      <3>2. OrchsOfSFC(s) = {o}
        BY <3>1 DEF IInv, OneOwner, OrchsOfSFC
      <3>3. Cardinality({o}) = 1
        BY FS_Singleton
      <3>4. QED BY <3>2, <3>3
    <2>3. QED BY <2>1, <2>2
  <1>2. QED BY <1>1, Invariance, PTL

\* When nothing is under way the dispatcher knows whether the equipment of an orchestrator
\* is in a valid state, however failures, resumptions and replies overlapped and although
\* answers were lost, if a later one came through (_commandHandler, _commandReplyHandler).
THEOREM RuntimeStateIsLearnt == Spec => []RuntimeStateSettles
  <1>1. IInv => RuntimeStateSettles
    <2> SUFFICES ASSUME IInv, NEW o \in Orch, rplyQueue[o] = <<>>,
                        \A k \in DOMAIN orchQueue[o] : orchQueue[o][k].type # "EQUIPMENT",
                        equipment[o] # "noLinks", missing[o] = "nothing"
                 PROVE  runtimeState[o] = (equipment[o] = "valid")
      BY DEF RuntimeStateSettles
    <2>1. orchQueue[o] \in Seq(Msg) /\ runtimeState[o] \in BOOLEAN
      BY DEF IInv, TypeOK
    <2>2. \A k \in 1..Len(orchQueue[o]) : ~IsNews(orchQueue[o][k])
      BY <2>1 DEF IsNews
    <2>3. runtimeState[o] <=> equipment[o] = "valid"
      BY <2>2 DEF IInv, NewsInv, LastRplyIsTrue
    <2>4. QED BY <2>1, <2>3
  <1>2. QED BY <1>1, Invariance, PTL

\* A command leaves the dispatcher's table with its answer: the ones that stay are on their
\* way or lost, or their orchestrator had no reason to answer (_commandHandler,
\* delCmdwithChildCmd).
THEOREM TableKeepsUnanswered == Spec => []OnlyUnansweredRemain
  <1>1. IInv => OnlyUnansweredRemain
    <2> SUFFICES ASSUME IInv, NEW entry \in commandsInfo
                 PROVE  LET o == entry[2]
                        IN  \/ entry \in unanswered
                            \/ \E k \in DOMAIN orchQueue[o] :
                                  orchQueue[o][k].type = "EQUIPMENT" /\ orchQueue[o][k].id = entry[1]
                            \/ \E k \in DOMAIN rplyQueue[o] : rplyQueue[o][k].id = entry[1]
      BY DEF OnlyUnansweredRemain
    <2>1. PICK n \in Nat, o \in Orch : entry = <<n, o>>
      BY DEF IInv, TypeOK
    <2>2. orchQueue[o] \in Seq(Msg) /\ rplyQueue[o] \in Seq(Rply)
      BY DEF IInv, TypeOK
    <2>3. <<n, o>> \in unanswered \/ Told(o, n) \/ Replied(o, n)
      BY <2>1 DEF IInv, NoneMissing
    <2>4. QED BY <2>1, <2>2, <2>3 DEF Told, Replied
  <1>2. QED BY <1>1, Invariance, PTL

\* As long as all orchestrators are fit no orchestrator has two SFCs more than another
\* (selectOrchInRoundRobin).
THEOREM SFCsAreBalanced == Spec => []RoundRobinBalances
  <1>1. IInv => RoundRobinBalances
    <2> SUFFICES ASSUME IInv, cmds = 0, NEW o \in Orch, NEW p \in Orch
                 PROVE  Cardinality(sfcDict[o]) <= Cardinality(sfcDict[p]) + 1
      BY DEF RoundRobinBalances
    <2>1. PICK n \in Nat : \A q \in Orch :
                /\ IsFiniteSet(sfcDict[q])
                /\ Cardinality(sfcDict[q]) = IF q < roundRobinCounter THEN n + 1 ELSE n
      BY DEF IInv, InTurn
    <2>2. QED BY <2>1
  <1>2. QED BY <1>1, Invariance, PTL
\* The n parts of x add up to x: before part i there are i parts of x \div n and one more
\* for each of the larger parts, which come last.
Before(x, n, i) == i * (x \div n) + (IF i > n - (x % n) THEN i - (n - (x % n)) ELSE 0)

LEMMA BeforeLemma ==
    ASSUME NEW x \in Nat, NEW n \in Nat \ {0}, n <= x
    PROVE  /\ Before(x, n, 0) = 0 /\ Before(x, n, n) = x
           /\ \A i \in 0..(n - 1) :
                /\ splitInteger(x, n)[i] \in {x \div n, x \div n + 1}
                /\ Before(x, n, i + 1) = Before(x, n, i) + splitInteger(x, n)[i]
           /\ \A i \in 0..n : Before(x, n, i) \in Nat
           /\ \A i, j \in 0..n : i <= j => Before(x, n, i) <= Before(x, n, j)
           /\ x \div n \in Nat \ {0}
  <1> DEFINE q == x \div n
             r == x % n
  <1>1. q \in Nat /\ r \in 0..(n - 1) /\ x = n * q + r
    OBVIOUS
  <1>2. q # 0
    BY <1>1
  <1>3. \A i \in 0..(n - 1) : splitInteger(x, n)[i] = IF i >= n - r THEN q + 1 ELSE q
    BY <1>1 DEF splitInteger
  <1>4. \A i : Before(x, n, i) = i * q + (IF i > n - r THEN i - (n - r) ELSE 0)
    BY DEF Before
  <1> HIDE DEF q, r
  <1>5. Before(x, n, 0) = 0 /\ Before(x, n, n) = x
    BY <1>1, <1>4
  <1>6. \A i \in Nat : (i + 1) * q = i * q + q
    BY <1>1
  <1>7. \A i \in 0..(n - 1) : Before(x, n, i + 1) = Before(x, n, i) + splitInteger(x, n)[i]
    <2> TAKE i \in 0..(n - 1)
    <2>1. PICK m \in Nat : m = i * q
      BY <1>1
    <2>2. (i + 1) * q = m + q
      BY <1>6, <2>1
    <2>3. Before(x, n, i) = m + (IF i > n - r THEN i - (n - r) ELSE 0)
      BY <1>4, <2>1
    <2>4. Before(x, n, i + 1) = m + q + (IF i + 1 > n - r THEN i + 1 - (n - r) ELSE 0)
      <3>1. PICK k \in Nat : k = i + 1
        OBVIOUS
      <3>2. k * q = m + q
        BY <2>2, <3>1
      <3>3. Before(x, n, k) = k * q + (IF k > n - r THEN k - (n - r) ELSE 0)
        BY <1>4
      <3>4. Before(x, n, k) = m + q + (IF k > n - r THEN k - (n - r) ELSE 0)
        BY <3>2, <3>3
      <3> QED
        BY <1>1, <3>1, <3>4
    <2> QED
      BY <1>1, <1>3, <2>3, <2>4
  <1>8. \A i, j \in 0..n : i <= j => i * q <= j * q
    <2> TAKE i, j \in 0..n
    <2>1. i <= j => (j - i) * q \in Nat /\ j * q = i * q + (j - i) * q
      BY <1>1
    <2>2. i * q \in Nat /\ j * q \in Nat
      BY <1>1
    <2> QED
      BY <2>1, <2>2
  <1>9. \A i \in 0..n : i * q \in Nat
    BY <1>1
  <1>10. \A i \in 0..n : Before(x, n, i) \in Nat
    BY <1>1, <1>4, <1>9
  <1>11. \A i, j \in 0..n : i <= j => Before(x, n, i) <= Before(x, n, j)
    <2> TAKE i, j \in 0..n
    <2>1. PICK a, b \in Nat : a = i * q /\ b = j * q /\ (i <= j => a <= b)
      BY <1>8, <1>9
    <2>2. Before(x, n, i) = a + (IF i > n - r THEN i - (n - r) ELSE 0)
      BY <1>4, <2>1
    <2>3. Before(x, n, j) = b + (IF j > n - r THEN j - (n - r) ELSE 0)
      BY <1>4, <2>1
    <2> QED
      BY <1>1, <2>1, <2>2, <2>3
  <1> QED
    BY <1>1, <1>2, <1>3, <1>5, <1>7, <1>10, <1>11 DEF q

\* A function that starts at zero and grows by the parts is the one of BeforeLemma.
LEMMA SumLemma ==
    ASSUME NEW x \in Nat, NEW n \in Nat \ {0}, n <= x, NEW f,
           f = [i \in 0..n |-> IF i = 0 THEN 0 ELSE f[i - 1] + splitInteger(x, n)[i - 1]]
    PROVE  \A i \in 0..n : f[i] = Before(x, n, i)
  <1> DEFINE Differ == {i \in 0..n : f[i] # Before(x, n, i)}
  <1>1. f[0] = 0 /\ \A i \in 1..n : f[i] = f[i - 1] + splitInteger(x, n)[i - 1]
    <2>1. \A i \in 0..n : f[i] = IF i = 0 THEN 0 ELSE f[i - 1] + splitInteger(x, n)[i - 1]
      OBVIOUS
    <2>2. 0 \in 0..n /\ 1..n \subseteq 0..n /\ 0 \notin 1..n
      OBVIOUS
    <2> QED
      BY <2>1, <2>2
  <1>2. SUFFICES ASSUME Differ # {} PROVE FALSE
    OBVIOUS
  <1>3. PICK i \in Differ : \A j \in Differ : i <= j
    <2>1. Differ \in SUBSET Nat
      OBVIOUS
    <2> QED
      BY <1>2, <2>1, MinLemma
  <1>4. i # 0
    BY <1>1, <1>3, BeforeLemma
  <1>5. i - 1 \in 0..(n - 1) /\ i - 1 \in 0..n /\ i - 1 \notin Differ /\ i \in 1..n
    BY <1>3, <1>4
  <1>6. f[i - 1] = Before(x, n, i - 1)
    BY <1>5
  <1>7. Before(x, n, i - 1 + 1) = Before(x, n, i - 1) + splitInteger(x, n)[i - 1]
    <2>1. \A k \in 0..(n - 1) : Before(x, n, k + 1) = Before(x, n, k) + splitInteger(x, n)[k]
      BY BeforeLemma
    <2> QED
      BY <1>5, <2>1
  <1>8. i - 1 + 1 = i
    BY <1>5
  <1> QED
    BY <1>1, <1>3, <1>5, <1>6, <1>7, <1>8

LEMMA PodsBeforeLemma ==
    ASSUME podNum \in Nat, orchNum \in Nat \ {0}, orchNum <= podNum
    PROVE  \A i \in 0..orchNum : PodsBefore[i] = Before(podNum, orchNum, i)
  <1> DEFINE part == splitInteger(podNum, orchNum)
             eq(f) == f = [i \in 0..orchNum |-> IF i = 0 THEN 0 ELSE f[i - 1] + part[i - 1]]
             sum   == CHOOSE f : eq(f)
             g     == [i \in 0..orchNum |-> Before(podNum, orchNum, i)]
  <1>1. PodsBefore = sum
    BY Zenon DEF PodsBefore
  <1>2. g = [i \in 0..orchNum |-> IF i = 0 THEN 0 ELSE g[i - 1] + part[i - 1]]
    <2>1. \A i \in 0..orchNum : g[i] = IF i = 0 THEN 0 ELSE g[i - 1] + part[i - 1]
      <3> TAKE i \in 0..orchNum
      <3>1. CASE i = 0
        BY <3>1, BeforeLemma
      <3>2. CASE i # 0
        <4>1. i - 1 \in 0..(orchNum - 1) /\ i - 1 \in 0..orchNum /\ i - 1 + 1 = i
          BY <3>2
        <4>2. Before(podNum, orchNum, i - 1 + 1)
              = Before(podNum, orchNum, i - 1) + part[i - 1]
          <5>1. \A k \in 0..(orchNum - 1) :
                   Before(podNum, orchNum, k + 1) = Before(podNum, orchNum, k) + part[k]
            BY BeforeLemma
          <5> QED
            BY <4>1, <5>1
        <4> QED
          BY <3>2, <4>1, <4>2
      <3> QED
        BY <3>1, <3>2
    <2> HIDE DEF part
    <2> QED
      BY <2>1
  <1>3. eq(sum)
    <2>1. eq(g)
      BY <1>2
    <2> HIDE DEF eq
    <2> QED
      BY <2>1
  <1> QED
    BY <1>1, <1>3, SumLemma

\* Every pod is given to exactly one orchestrator, and the shares differ by one pod at
\* most (splitInteger, _computeOrchInstanceInfoList).
THEOREM EveryPodHasOneOrchestrator == Spec => []PodsArePartitioned
  <1>1. Init => orchNum <= podNum
    BY DispatcherAssumption DEF Init, orchNum, podNum, Scenario
  <1>2. orchNum <= podNum /\ [Next]_vars => (orchNum <= podNum)'
    BY DEF vars, orchNum, podNum, Next, RequestHandler, AddSFCNew, AddSFCKnown, AddSFCRaises,
       AddSFCMigrate, AddSFCI, DelSFCI, DelSFC, RequestOfUnknownSFC, reqRest, CommandHandler,
       Tell, CommandReplyHandler, OrchStep, OrchSFC, OrchAddSFCI, OrchDelSFCI, OrchEquipment
  <1>3. TypeOK /\ orchNum <= podNum => PodsArePartitioned
    <2> SUFFICES ASSUME TypeOK, orchNum <= podNum
                 PROVE  PodsArePartitioned
      OBVIOUS
    <2> DEFINE B(i) == Before(podNum, orchNum, i)
    <2>1. podNum \in Nat /\ orchNum \in Nat \ {0} /\ Orch = 0..(orchNum - 1)
      BY DispatcherAssumption DEF TypeOK, Scenario, orchNum, podNum, Orch
    <2>2. \A o \in Orch : /\ o \in 0..orchNum /\ o + 1 \in 0..orchNum
                          /\ minPodIdx(o) = B(o)
                          /\ maxPodIdx(o) = B(o + 1) - 1
                          /\ B(o) \in Nat /\ B(o + 1) \in Nat
      <3> TAKE o \in Orch
      <3>1. o \in 0..orchNum /\ o + 1 \in 0..orchNum
        BY <2>1
      <3>2. B(o) \in Nat /\ B(o + 1) \in Nat
        BY <2>1, <3>1, BeforeLemma
      <3>3. minPodIdx(o) = B(o)
        BY <2>1, <3>1, PodsBeforeLemma DEF minPodIdx
      <3>4. B(o + 1) = B(o) + splitInteger(podNum, orchNum)[o]
        <4>1. \A k \in 0..(orchNum - 1) :
                 Before(podNum, orchNum, k + 1)
                 = Before(podNum, orchNum, k) + splitInteger(podNum, orchNum)[k]
          BY <2>1, BeforeLemma
        <4> QED
          BY <2>1, <4>1
      <3>5. splitInteger(podNum, orchNum)[o] \in Nat
        <4>1. \A k \in 0..(orchNum - 1) : splitInteger(podNum, orchNum)[k]
                                            \in {podNum \div orchNum, podNum \div orchNum + 1}
          BY <2>1, BeforeLemma
        <4>2. podNum \div orchNum \in Nat
          BY <2>1, BeforeLemma
        <4> QED
          BY <2>1, <4>1, <4>2
      <3>6. maxPodIdx(o) = B(o + 1) - 1
        <4>1. maxPodIdx(o) = minPodIdx(o) + splitInteger(podNum, orchNum)[o] - 1
          BY Zenon DEF maxPodIdx
        <4> QED
          BY <3>2, <3>3, <3>4, <3>5, <4>1
      <3> QED
        BY <3>1, <3>2, <3>3, <3>6
    <2>3. \A o \in Orch : B(o + 1) - B(o) \in {podNum \div orchNum, podNum \div orchNum + 1}
      <3> TAKE o \in Orch
      <3>1. PICK k \in Nat : /\ k \in {podNum \div orchNum, podNum \div orchNum + 1}
                             /\ B(o + 1) = B(o) + k
        <4>1. splitInteger(podNum, orchNum)[o] \in {podNum \div orchNum, podNum \div orchNum + 1}
              /\ B(o + 1) = B(o) + splitInteger(podNum, orchNum)[o]
          <5>1. \A k \in 0..(orchNum - 1) :
                   /\ splitInteger(podNum, orchNum)[k]
                        \in {podNum \div orchNum, podNum \div orchNum + 1}
                   /\ Before(podNum, orchNum, k + 1)
                        = Before(podNum, orchNum, k) + splitInteger(podNum, orchNum)[k]
            BY <2>1, BeforeLemma
          <5> QED
            BY <2>1, <5>1
        <4>2. podNum \div orchNum \in Nat
          BY <2>1, BeforeLemma
        <4> QED
          BY <4>1, <4>2
      <3> QED
        BY <2>2, <3>1
    <2>4. /\ podNum \div orchNum \in Nat \ {0}
          /\ B(0) = 0 /\ B(orchNum) = podNum
          /\ \A i, j \in 0..orchNum : i <= j => B(i) <= B(j)
          /\ \A i \in 0..orchNum : B(i) \in Nat
      BY <2>1, BeforeLemma
    <2> HIDE DEF B
    <2>5. \A o, p \in Orch : p # o => p + 1 <= o \/ o + 1 <= p
      BY <2>1
    <2>6. \A o, p \in Orch, pod \in Nat :
            /\ p # o
            /\ pod \in minPodIdx(o)..maxPodIdx(o)
            => pod \notin minPodIdx(p)..maxPodIdx(p)
      <3> SUFFICES ASSUME NEW o \in Orch, NEW p \in Orch, NEW pod \in Nat, p # o,
                          B(o) <= pod, pod < B(o + 1), B(p) <= pod, pod < B(p + 1)
                   PROVE  FALSE
        BY <2>2
      <3>1. CASE p + 1 <= o
        <4>1. B(p + 1) <= B(o)
          BY <2>2, <2>4, <3>1
        <4> QED
          BY <2>2, <4>1
      <3>2. CASE o + 1 <= p
        <4>1. B(o + 1) <= B(p)
          BY <2>2, <2>4, <3>2
        <4> QED
          BY <2>2, <4>1
      <3> QED
        BY <2>5, <3>1, <3>2
    <2>7. \A pod \in 0..(podNum - 1) : \E o \in Orch : pod \in minPodIdx(o)..maxPodIdx(o)
      <3> TAKE pod \in 0..(podNum - 1)
      <3> DEFINE Above == {i \in 0..orchNum : pod < B(i)}
      <3>1. orchNum \in Above
        BY <2>1, <2>4
      <3>2. PICK i \in Above : \A j \in Above : i <= j
        <4>1. Above \in SUBSET Nat
          OBVIOUS
        <4> QED
          BY <3>1, <4>1, MinLemma
      <3>3. i # 0
        BY <2>4, <3>2
      <3>4. i - 1 \in Orch /\ i - 1 \notin Above /\ i - 1 + 1 = i
        BY <2>1, <3>2, <3>3
      <3>5. B(i - 1) \in Nat /\ B(i) \in Nat /\ ~(pod < B(i - 1)) /\ pod < B(i)
        BY <2>2, <3>2, <3>4
      <3>6. minPodIdx(i - 1) = B(i - 1) /\ maxPodIdx(i - 1) = B(i) - 1
        BY <2>2, <3>4
      <3> QED
        BY <3>4, <3>5, <3>6
    <2>8. \A o \in Orch : minPodIdx(o) \in 0..maxPodIdx(o) /\ maxPodIdx(o) < podNum
      <3> TAKE o \in Orch
      <3>1. orchNum \in 0..orchNum /\ o + 1 <= orchNum
        BY <2>1
      <3>2. B(o + 1) <= podNum
        BY <2>2, <2>4, <3>1
      <3>3. B(o + 1) - B(o) >= 1
        BY <2>3, <2>4
      <3> QED
        BY <2>1, <2>2, <3>2, <3>3
    <2>9. \A o, p \in Orch : maxPodIdx(o) - minPodIdx(o) <= maxPodIdx(p) - minPodIdx(p) + 1
      <3> TAKE o, p \in Orch
      <3>1. B(o + 1) - B(o) <= B(p + 1) - B(p) + 1
        BY <2>3, <2>4
      <3> QED
        BY <2>2, <3>1
    <2>10. \A pod \in 0..(podNum - 1) : \E o \in Orch :
              /\ pod \in minPodIdx(o)..maxPodIdx(o)
              /\ \A p \in Orch \ {o} : pod \notin minPodIdx(p)..maxPodIdx(p)
      <3> TAKE pod \in 0..(podNum - 1)
      <3>1. PICK o \in Orch : pod \in minPodIdx(o)..maxPodIdx(o)
        BY <2>7
      <3>2. \A p \in Orch \ {o} : pod \notin minPodIdx(p)..maxPodIdx(p)
        BY <2>6, <3>1
      <3> QED
        BY <3>1, <3>2
    <2> QED
      BY <2>8, <2>9, <2>10 DEF PodsArePartitioned
  <1> QED
    BY <1>1, <1>2, <1>3, Invariance, PTL DEF Spec, IInv
=============================================================================
