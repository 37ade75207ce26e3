------------------------- MODULE OrchestratorProofs -------------------------
(***************************************************************************)
(* Proofs about the orchestrator and the regulator, for any number of      *)
(* SFCs, SFCIs, requests and repetitions, any size of a batch, and any     *)
(* exceptions, administrative commands and redeliveries.                   *)
(***************************************************************************)
EXTENDS Orchestrator, FiniteSetTheorems, TLAPS

-----------------------------------------------------------------------------
(***************************************************************************)
(* The tables: what the methods of OrchInfoBaseMaintainer write.           *)
(***************************************************************************)
DB == [Request : [Requests -> RequestRow \cup {None}],
       SFC     : [SFCs -> SFCRow \cup {None}],
       SFCI    : [SFCIs -> SFCIRow \cup {None}]]

\* From d to e the row of request r was written, and nothing else.
WroteRequest(d, e, r, state) ==
    /\ e \in DB /\ e.SFC = d.SFC /\ e.SFCI = d.SFCI
    /\ \A q \in Requests : q # r => e.Request[q] = d.Request[q]
    /\ hasRequest(e, r) /\ e.Request[r].state = state

\* From d to e the row of SFC s was written, and nothing else; it keeps its list.
WroteSFC(d, e, s) ==
    /\ e \in DB /\ e.Request = d.Request /\ e.SFCI = d.SFCI
    /\ \A t \in SFCs : t # s => e.SFC[t] = d.SFC[t]
    /\ hasSFC(d, s) => hasSFC(e, s) /\ e.SFC[s].sfciIDList = d.SFC[s].sfciIDList

WroteSFCI(d, e, i) ==
    /\ e \in DB /\ e.Request = d.Request /\ e.SFC = d.SFC
    /\ \A j \in SFCIs : j # i => e.SFCI[j] = d.SFCI[j]
    /\ hasSFCI(d, i) => hasSFCI(e, i)

\* SFCI i is one of SFC s.
SFCIOf(i, s) == s = i[1]

\* From d to e SFCI i was added to the list of SFC s.
WroteList(d, e, s, i) ==
    /\ e \in DB /\ e.Request = d.Request /\ e.SFCI = d.SFCI
    /\ \A t \in SFCs : t # s => e.SFC[t] = d.SFC[t]
    /\ hasSFC(e, s) /\ e.SFC[s].state = d.SFC[s].state
    /\ e.SFC[s].sfciIDList = d.SFC[s].sfciIDList \cup {i}

LEMMA RowsLemma ==
    ASSUME NEW d \in DB
    PROVE  /\ \A r \in Requests : hasRequest(d, r) => d.Request[r] \in RequestRow
           /\ \A s \in SFCs : hasSFC(d, s) => d.SFC[s] \in SFCRow
           /\ \A i \in SFCIs : hasSFCI(d, i) => d.SFCI[i] \in SFCIRow
  BY DEF DB, hasRequest, hasSFC, hasSFCI

LEMMA addRequestLemma ==
    ASSUME NEW d \in DB, NEW r \in Requests, ~hasRequest(d, r),
           NEW state \in RequestState, NEW cmdID \in CmdID \cup {None},
           NEW e, e = addRequest(d, r, state, cmdID)
    PROVE  WroteRequest(d, e, r, state) /\ e.Request[r].cmdID = cmdID
  <1> DEFINE row == [state |-> state, cmdID |-> cmdID, retryCnt |-> 0]
  <1>1. row \in RequestRow /\ row # None /\ row.state = state /\ row.cmdID = cmdID
    BY NoneAssumption DEF RequestRow
  <1>2. e = [d EXCEPT !.Request[r] = row]
    BY DEF addRequest
  <1> HIDE DEF row
  <1>3. QED BY <1>1, <1>2 DEF DB, WroteRequest, hasRequest

LEMMA updateRequestLemma ==
    ASSUME NEW d \in DB, NEW r \in Requests, hasRequest(d, r),
           NEW state \in RequestState, NEW cmdID \in CmdID \cup {None},
           NEW e, e = updateRequest(d, r, state, cmdID)
    PROVE  /\ WroteRequest(d, e, r, state)
           /\ e.Request[r].cmdID = IF cmdID = None THEN d.Request[r].cmdID ELSE cmdID
  <1>1. d.Request[r] \in RequestRow
    BY RowsLemma
  <1> DEFINE row == [d.Request[r] EXCEPT !.state = state, !.cmdID = IF cmdID = None THEN @ ELSE cmdID]
  <1>2. /\ row \in RequestRow /\ row.state = state
        /\ row.cmdID = IF cmdID = None THEN d.Request[r].cmdID ELSE cmdID
    BY <1>1 DEF RequestRow
  <1>3. row # None
    BY <1>2, NoneAssumption
  <1>0. e = [d EXCEPT !.Request[r] = row]
    BY DEF updateRequest, DB
  <1> HIDE DEF row
  <1>4. QED BY <1>0, <1>2, <1>3 DEF DB, WroteRequest, hasRequest

LEMMA addCmdInfo2RequestLemma ==
    ASSUME NEW d \in DB, NEW r \in Requests,
           NEW state \in RequestState, NEW cmdID \in CmdID \cup {None},
           NEW e, e = addCmdInfo2Request(d, r, state, cmdID)
    PROVE  /\ WroteRequest(d, e, r, state)
           /\ cmdID # None => e.Request[r].cmdID = cmdID
           /\ cmdID = None => \/ e.Request[r].cmdID = None
                              \/ hasRequest(d, r) /\ e.Request[r].cmdID = d.Request[r].cmdID
  <1>1. CASE hasRequest(d, r)
    BY <1>1, updateRequestLemma DEF addCmdInfo2Request
  <1>2. CASE ~hasRequest(d, r)
    BY <1>2, addRequestLemma DEF addCmdInfo2Request
  <1>3. QED BY <1>1, <1>2

LEMMA updateRequestStateLemma ==
    ASSUME NEW d \in DB, NEW r \in Requests, NEW state \in RequestState,
           NEW e, e = updateRequestState2DB(d, r, state)
    PROVE  /\ WroteRequest(d, e, r, state)
           /\ IF hasRequest(d, r) THEN e.Request[r].cmdID = d.Request[r].cmdID
                                  ELSE e.Request[r].cmdID = None
  <1>1. CASE ~hasRequest(d, r)
    BY <1>1, addRequestLemma DEF updateRequestState2DB
  <1>2. CASE hasRequest(d, r)
    <2> DEFINE row == [d.Request[r] EXCEPT !.state = state]
    <2>1. d.Request[r] \in RequestRow
      BY <1>2, RowsLemma
    <2>2. row \in RequestRow /\ row.state = state /\ row.cmdID = d.Request[r].cmdID
      BY <2>1 DEF RequestRow
    <2>3. row # None
      BY <2>2, NoneAssumption
    <2>4. e = [d EXCEPT !.Request[r] = row]
      BY <1>2 DEF updateRequestState2DB
    <2> HIDE DEF row
    <2>5. QED BY <1>2, <2>2, <2>3, <2>4 DEF DB, WroteRequest, hasRequest
  <1>3. QED BY <1>1, <1>2

LEMMA incRequestRetryCntLemma ==
    ASSUME NEW d \in DB, NEW r \in Requests, hasRequest(d, r),
           NEW e, e = incRequestRetryCnt(d, r)
    PROVE  WroteRequest(d, e, r, d.Request[r].state) /\ e.Request[r].cmdID = d.Request[r].cmdID
  <1> DEFINE row == [d.Request[r] EXCEPT !.retryCnt = @ + 1]
  <1>1. d.Request[r] \in RequestRow
    BY RowsLemma
  <1>2. row \in RequestRow /\ row.state = d.Request[r].state /\ row.cmdID = d.Request[r].cmdID
    BY <1>1 DEF RequestRow
  <1>3. row # None
    BY <1>2, NoneAssumption
  <1>4. e = [d EXCEPT !.Request[r] = row]
    BY DEF incRequestRetryCnt
  <1> HIDE DEF row
  <1>5. QED BY <1>2, <1>3, <1>4 DEF DB, WroteRequest, hasRequest

LEMMA updateSFCStateLemma ==
    ASSUME NEW d \in DB, NEW s \in SFCs, NEW state \in ResourceState,
           NEW e, e = updateSFCState(d, s, state)
    PROVE  WroteSFC(d, e, s) /\ hasSFC(e, s) = hasSFC(d, s)
           /\ (hasSFC(d, s) => e.SFC[s].state = state)
  <1>1. CASE ~hasSFC(d, s)
    BY <1>1 DEF updateSFCState, WroteSFC
  <1>2. CASE hasSFC(d, s)
    <2> DEFINE row == [d.SFC[s] EXCEPT !.state = state]
    <2>1. d.SFC[s] \in SFCRow
      BY <1>2, RowsLemma
    <2>2. row \in SFCRow /\ row.state = state /\ row.sfciIDList = d.SFC[s].sfciIDList
      BY <2>1 DEF SFCRow
    <2>3. row # None
      BY <2>2, NoneAssumption
    <2>4. e = [d EXCEPT !.SFC[s] = row]
      BY <1>2 DEF updateSFCState
    <2> HIDE DEF row
    <2>5. WroteSFC(d, e, s) /\ hasSFC(e, s) /\ e.SFC[s].state = state
      BY <2>2, <2>3, <2>4 DEF DB, WroteSFC, hasSFC
    <2>6. QED BY <1>2, <2>5 DEF hasSFC
  <1>3. QED BY <1>1, <1>2

LEMMA addSFC2DBLemma ==
    ASSUME NEW d \in DB, NEW s \in SFCs, NEW state \in ResourceState,
           NEW e, e = addSFC2DB(d, s, state)
    PROVE  WroteSFC(d, e, s) /\ hasSFC(e, s) /\ e.SFC[s].state = state
  <1>1. CASE hasSFC(d, s)
    BY <1>1, updateSFCStateLemma DEF addSFC2DB
  <1>2. CASE ~hasSFC(d, s)
    <2> DEFINE row == [state |-> state, sfciIDList |-> {}]
    <2>1. row \in SFCRow /\ row.state = state
      BY DEF SFCRow
    <2>2. row # None
      BY <2>1, NoneAssumption
    <2>3. e = [d EXCEPT !.SFC[s] = row]
      BY <1>2 DEF addSFC2DB
    <2> HIDE DEF row
    <2>4. QED BY <1>2, <2>1, <2>2, <2>3 DEF DB, WroteSFC, hasSFC
  <1>3. QED BY <1>1, <1>2

LEMMA updateSFCIStateLemma ==
    ASSUME NEW d \in DB, NEW i \in SFCIs, NEW state \in ResourceState,
           NEW e, e = updateSFCIState(d, i, state)
    PROVE  WroteSFCI(d, e, i) /\ hasSFCI(e, i) = hasSFCI(d, i)
           /\ (hasSFCI(d, i) => e.SFCI[i].state = state)
  <1>1. CASE ~hasSFCI(d, i)
    BY <1>1 DEF updateSFCIState, WroteSFCI
  <1>2. CASE hasSFCI(d, i)
    <2> DEFINE row == [d.SFCI[i] EXCEPT !.state = state]
    <2>1. d.SFCI[i] \in SFCIRow
      BY <1>2, RowsLemma
    <2>2. row \in SFCIRow /\ row.state = state
      BY <2>1 DEF SFCIRow
    <2>3. row # None
      BY <2>2, NoneAssumption
    <2>4. e = [d EXCEPT !.SFCI[i] = row]
      BY <1>2 DEF updateSFCIState
    <2> HIDE DEF row
    <2>5. WroteSFCI(d, e, i) /\ hasSFCI(e, i) /\ e.SFCI[i].state = state
      BY <2>2, <2>3, <2>4 DEF DB, WroteSFCI, hasSFCI
    <2>6. QED BY <1>2, <2>5 DEF hasSFCI
  <1>3. QED BY <1>1, <1>2

LEMMA addSFCI2SFCLemma ==
    ASSUME NEW d \in DB, NEW i \in SFCIs, NEW s \in SFCs, SFCIOf(i, s), hasSFC(d, s),
           NEW e, e = addSFCI2SFCInDB(d, i)
    PROVE  WroteList(d, e, s, i)
  <1> DEFINE row == [d.SFC[s] EXCEPT !.sfciIDList = @ \cup {i}]
  <1>1. d.SFC[s] \in SFCRow
    BY RowsLemma
  <1>2. row \in SFCRow /\ row.state = d.SFC[s].state
        /\ row.sfciIDList = d.SFC[s].sfciIDList \cup {i}
    BY <1>1 DEF SFCRow
  <1>3. row # None
    BY <1>2, NoneAssumption
  <1>4. e = [d EXCEPT !.SFC[s] = row]
    BY DEF addSFCI2SFCInDB, SFCIOf
  <1> HIDE DEF row
  <1>5. /\ e \in DB /\ e.Request = d.Request /\ e.SFCI = d.SFCI
        /\ \A t \in SFCs : t # s => e.SFC[t] = d.SFC[t]
        /\ e.SFC[s] = row
    BY <1>2, <1>4 DEF DB
  <1>6. QED BY <1>2, <1>3, <1>5 DEF WroteList, hasSFC
-----------------------------------------------------------------------------
(***************************************************************************)
(* What holds in every scenario.                                           *)
(***************************************************************************)
Pos      == Nat \ {0}
Sent     == {r \in Requests : submitted[r] # None}
SentSFCI == {r \in Sent : submitted[r].type = "ADD_SFCI"}
SentCmd  == Sent \X Pos
SentMsg  == [kind : {"request"}, id : Sent] \cup
            [kind : {"rply"}, id : SentCmd, cmdState : {CMD_STATE_SUCCESSFUL, CMD_STATE_FAIL}] \cup
            [kind : {"cmd"}, id : AllAdminCmds]
Entry    == [cmd : Request, state : CmdState, cmdReply : Msg \cup {None}, parentCmdID : {None},
             childCmdID : {NoCommands}]

\* The requests and commands that are anywhere in the system were sent by a client.
TypeOK ==
    /\ db \in DB
    /\ DOMAIN commandsInfo \subseteq SentCmd
    /\ orchestratorQueue \in Seq(SentMsg)
    /\ requestBatchQueue \in Seq(SentSFCI)
    /\ batch \subseteq Pos \X SentSFCI
    /\ requestWaitingQueue \in Seq(Sent)
    /\ phase \in {"recv", "timer", "waiting", "stopped"}
    /\ regulator \in [task : {"none"}] \cup [task : {"retry"}, todo : SUBSET Sent]
                     \cup [task : {"update"}, sfc : SFCs, newState : {STATE_ACTIVE, STATE_MANUAL}]
    /\ submitted \in [Requests -> Request \cup {None}]
    /\ cmdCnt \in [Requests -> Nat]
    /\ inMediator \subseteq SentCmd
    /\ redeliveries \in Nat
    /\ scenario \in Scenarios

\* processAllWaitingRequest has a request to take.
LoopInv == phase = "waiting" => requestWaitingQueue # <<>>

\* The row of a request names one of the commands that were generated for it.
CmdIDsAreOwn ==
    \A r \in Requests : hasRequest(db, r) =>
        /\ r \in Sent
        /\ \/ db.Request[r].cmdID = None
           \/ db.Request[r].cmdID \in SentCmd /\ db.Request[r].cmdID[1] = r

\* The command table holds what the client asked for, and no child commands.
EntriesAreOwn ==
    \A c \in DOMAIN commandsInfo :
        commandsInfo[c] \in Entry /\ commandsInfo[c].cmd = submitted[c[1]]
-----------------------------------------------------------------------------
(***************************************************************************)
(* Lemmas about what is sent, queues and the command table.                *)
(***************************************************************************)
LEMMA SentLemma ==
    ASSUME TypeOK
    PROVE  /\ \A r \in Sent : /\ r \in Requests
                              /\ submitted[r] \in Request
                              /\ submitted[r].sfc \in SFCs
                              /\ submitted[r].type \in {"ADD_SFC", "DEL_SFC", "ADD_SFCI", "DEL_SFCI"}
                              /\ submitted[r].type \in {"ADD_SFCI", "DEL_SFCI"} =>
                                    submitted[r].sfci \in SFCIs /\ submitted[r].sfci[1] = submitted[r].sfc
           /\ SentCmd \subseteq CmdID /\ SentMsg \subseteq Msg
  <1>1. ASSUME NEW r \in Sent
        PROVE  r \in Requests /\ submitted[r] \in Request
    BY DEF TypeOK, Sent
  <1>2. ASSUME NEW q \in Request
        PROVE  /\ q.sfc \in SFCs
               /\ q.type \in {"ADD_SFC", "DEL_SFC", "ADD_SFCI", "DEL_SFCI"}
               /\ q.type \in {"ADD_SFCI", "DEL_SFCI"} => q.sfci \in SFCIs /\ q.sfci[1] = q.sfc
    <2>1. CASE q \in [type : {"ADD_SFC", "DEL_SFC"}, sfc : SFCs, sfci : {None}, valid : {TRUE}]
      BY <2>1
    <2>2. ASSUME NEW i \in SFCIs,
                 q \in [type : {"DEL_SFCI"}, sfc : {i[1]}, sfci : {i}, valid : {TRUE}] \cup
                       [type : {"ADD_SFCI"}, sfc : {i[1]}, sfci : {i}, valid : BOOLEAN]
          PROVE  /\ q.sfc \in SFCs
                 /\ q.type \in {"ADD_SFC", "DEL_SFC", "ADD_SFCI", "DEL_SFCI"}
                 /\ q.type \in {"ADD_SFCI", "DEL_SFCI"} => q.sfci \in SFCIs /\ q.sfci[1] = q.sfc
      <3>1. i[1] \in SFCs
        BY DEF SFCIs
      <3>2. QED BY <2>2, <3>1
    <2>3. QED BY <2>1, <2>2 DEF Request
  <1>3. SentCmd \subseteq CmdID
    BY DEF SentCmd, CmdID, Sent, Pos
  <1>4. SentMsg \subseteq Msg
    BY <1>3 DEF SentMsg, Msg, Sent
  <1>5. QED BY <1>1, <1>2, <1>3, <1>4

\* A message of the queue.
LEMMA MsgLemma ==
    ASSUME NEW m \in SentMsg
    PROVE  /\ m.kind \in {"request", "rply", "cmd"}
           /\ m.kind = "request" => m.id \in Sent
           /\ m.kind = "rply" => m.id \in SentCmd /\ m.id[1] \in Sent
                                 /\ m.cmdState \in {CMD_STATE_SUCCESSFUL, CMD_STATE_FAIL}
           /\ m.kind = "cmd" => m.id \in AllAdminCmds
  BY DEF SentMsg, SentCmd

\* The first element of a sequence, and the others.
LEMMA TailLemma ==
    ASSUME NEW S, NEW s \in Seq(S), s # <<>>, NEW t, t = Tail(s)
    PROVE  /\ Head(s) \in S /\ Head(s) = s[1]
           /\ Len(s) \in Pos
           /\ t \in Seq(S) /\ Len(t) = Len(s) - 1
           /\ \A k \in 1..Len(t) : k + 1 \in 1..Len(s) /\ t[k] = s[k + 1]
           /\ \A k \in 1..Len(s) : k # 1 => k - 1 \in 1..Len(t) /\ t[k - 1] = s[k]
  <1>1. /\ Head(s) \in S /\ Head(s) = s[1] /\ Len(s) \in Pos
        /\ t \in Seq(S) /\ Len(t) = Len(s) - 1
        /\ \A k \in 1..(Len(s) - 1) : t[k] = s[k + 1]
    BY DEF Pos
  <1> DEFINE n == Len(s)
  <1>2. n \in Nat /\ n # 0 /\ Len(t) = n - 1
    BY <1>1 DEF Pos
  <1>3. \A k \in 1..(n - 1) : t[k] = s[k + 1]
    BY <1>1
  <1> HIDE DEF n
  <1>4. \A k \in 1..(n - 1) : k + 1 \in 1..n
    BY <1>2
  <1>5. ASSUME NEW k \in 1..n, k # 1 PROVE k - 1 \in 1..(n - 1) /\ t[k - 1] = s[k]
    <2>1. k - 1 \in 1..(n - 1) /\ (k - 1) + 1 = k
      BY <1>2, <1>5
    <2>2. t[k - 1] = s[(k - 1) + 1]
      BY <1>3, <2>1
    <2>3. QED BY <2>1, <2>2
  <1>6. QED BY <1>1, <1>2, <1>3, <1>4, <1>5 DEF n

LEMMA AppendLemma ==
    ASSUME NEW S, NEW s \in Seq(S), NEW x \in S, NEW t, t = Append(s, x)
    PROVE  /\ t \in Seq(S) /\ Len(s) \in Nat /\ Len(t) = Len(s) + 1 /\ t # <<>>
           /\ \A k \in 1..Len(s) : t[k] = s[k] /\ k \in 1..Len(t)
           /\ t[Len(s) + 1] = x
           /\ \A k \in 1..Len(t) : k # Len(s) + 1 => k \in 1..Len(s)
  OBVIOUS

\* addCmd, and the command tables that _commandReplyHandler leaves.
LEMMA addCmdLemma ==
    ASSUME TypeOK, EntriesAreOwn, NEW c \in SentCmd, NEW q \in Request, q = submitted[c[1]],
           NEW e, e = addCmd(commandsInfo, c, q)
    PROVE  /\ DOMAIN e = DOMAIN commandsInfo \cup {c}
           /\ e[c] \in Entry /\ e[c].cmd = q
           /\ \A b \in DOMAIN commandsInfo : b # c => e[b] = commandsInfo[b]
  <1> DEFINE entry == CmdEntry(q, CMD_STATE_WAITING, None, NoCommands)
  <1>1. entry \in Entry /\ entry.cmd = q
    BY DEF CmdEntry, Entry, CmdState
  <1>2. e = [id \in DOMAIN commandsInfo \cup {c} |-> IF id = c THEN entry ELSE commandsInfo[id]]
    BY DEF addCmd
  <1> HIDE DEF entry
  <1>3. QED BY <1>1, <1>2

LEMMA recordedLemma ==
    ASSUME TypeOK, EntriesAreOwn, NEW m \in SentMsg, m.kind = "rply", m.id \in DOMAIN commandsInfo,
           NEW e, e = addCmdRply(changeCmdState(commandsInfo, m.id, m.cmdState), m.id, m)
    PROVE  /\ DOMAIN e = DOMAIN commandsInfo
           /\ \A b \in DOMAIN commandsInfo : b # m.id => e[b] = commandsInfo[b]
           /\ e[m.id] \in Entry /\ e[m.id].cmd = commandsInfo[m.id].cmd
  <1> DEFINE c == m.id
             old == commandsInfo[c]
             new == [old EXCEPT !.state = m.cmdState]
             newer == [new EXCEPT !.cmdReply = m]
  <1>0. m \in Msg /\ m.cmdState \in CmdState
    BY SentLemma, MsgLemma DEF CmdState
  <1>1. old \in Entry
    BY DEF EntriesAreOwn
  <1>2. new \in Entry /\ new.cmd = old.cmd
    BY <1>0, <1>1 DEF Entry
  <1>3. newer \in Entry /\ newer.cmd = new.cmd
    <2> HIDE DEF new
    <2>1. QED BY <1>0, <1>2 DEF Entry
  <1>4. e = [[commandsInfo EXCEPT ![c] = new] EXCEPT ![c] = newer]
    BY DEF addCmdRply, changeCmdState
  <1>5. c \in DOMAIN commandsInfo
    OBVIOUS
  <1> HIDE DEF c, new, newer
  <1>6. /\ DOMAIN e = DOMAIN commandsInfo
        /\ \A b \in DOMAIN commandsInfo : b # c => e[b] = commandsInfo[b]
        /\ e[c] = newer
    BY <1>4, <1>5
  <1>7. QED BY <1>2, <1>3, <1>6 DEF c

LEMMA delCmdLemma ==
    ASSUME NEW info, NEW c \in DOMAIN info, info[c] \in Entry,
           NEW e, e = delCmdwithChildCmd(info, c)
    PROVE  /\ DOMAIN e = DOMAIN info \ {c}
           /\ \A b \in DOMAIN e : e[b] = info[b]
  <1>1. info[c].childCmdID = NoCommands
    BY DEF Entry
  <1>2. DOMAIN NoCommands = {}
    BY DEF NoCommands
  <1>3. ChildCmdIDs(info, c) = {}
    BY <1>1, <1>2 DEF ChildCmdIDs
  <1>4. QED BY <1>3 DEF delCmdwithChildCmd
-----------------------------------------------------------------------------
(***************************************************************************)
(* Handling a request: the command is sent and the rows show IN_PROCESSING, *)
(* or the request has failed.                                              *)
(***************************************************************************)
RowStarted(r) ==
    /\ hasRequest(db', r)
    /\ db'.Request[r].state = REQUEST_STATE_IN_PROCESSING
    /\ db'.Request[r].cmdID = NextCmdID(r)

RowFailed(r) ==
    /\ hasRequest(db', r)
    /\ db'.Request[r].state = REQUEST_STATE_FAILED
    /\ \/ db'.Request[r].cmdID \in {None, NextCmdID(r)}
       \/ hasRequest(db, r) /\ db'.Request[r].cmdID = db.Request[r].cmdID

\* Only what the command is about begins to be processed, nothing becomes active or
\* deleted.
ResourcesAfter(r, isSent) ==
    /\ \A s \in SFCs : hasSFC(db, s) =>
          hasSFC(db', s) /\ db'.SFC[s].sfciIDList = db.SFC[s].sfciIDList
    /\ \A s \in SFCs : hasSFC(db', s) /\ db'.SFC[s].state = STATE_IN_PROCESSING =>
          \/ hasSFC(db, s) /\ db.SFC[s].state = STATE_IN_PROCESSING
          \/ isSent /\ submitted[r].type \in {"ADD_SFC", "DEL_SFC"} /\ s = submitted[r].sfc
    /\ \A i \in SFCIs : hasSFCI(db', i) /\ db'.SFCI[i].state = STATE_ACTIVE =>
          hasSFCI(db, i) /\ db.SFCI[i].state = STATE_ACTIVE
    /\ \A i \in SFCIs : hasSFCI(db', i) /\ db'.SFCI[i].state = STATE_IN_PROCESSING =>
          \/ hasSFCI(db, i) /\ db.SFCI[i].state = STATE_IN_PROCESSING
          \/ isSent /\ i = submitted[r].sfci
    /\ \A i \in SFCIs : hasSFCI(db', i) /\ db'.SFCI[i].state = STATE_DELETED =>
          hasSFCI(db, i) /\ db.SFCI[i].state = STATE_DELETED
    /\ isSent /\ submitted[r].type \in {"ADD_SFCI", "DEL_SFCI"} =>
          /\ hasSFCI(db', submitted[r].sfci)
          /\ db'.SFCI[submitted[r].sfci].state = STATE_IN_PROCESSING

Handled(r) ==
    /\ db' \in DB
    /\ \A q \in Requests : q # r => db'.Request[q] = db.Request[q]
    /\ cmdCnt' \in [Requests -> Nat]
    /\ \/ RowStarted(r) /\ SendCmd(r) /\ ResourcesAfter(r, TRUE)
       \/ RowFailed(r) /\ SendNothing /\ ResourcesAfter(r, FALSE)
    /\ submitted[r].type = "ADD_SFC" /\ ~scenario.mayRaise => hasSFC(db', submitted[r].sfc)

LEMMA NextCmdIDLemma ==
    ASSUME TypeOK, NEW r \in Sent
    PROVE  /\ NextCmdID(r) \in SentCmd /\ NextCmdID(r) \in CmdID /\ NextCmdID(r) # None
           /\ NextCmdID(r)[1] = r
           /\ GenCmd(r) => cmdCnt' \in [Requests -> Nat]
  <1>1. r \in Requests /\ cmdCnt[r] \in Nat /\ cmdCnt \in [Requests -> Nat]
    BY DEF TypeOK, Sent
  <1>2. cmdCnt[r] + 1 \in Pos /\ cmdCnt[r] + 1 \in Nat
    BY <1>1 DEF Pos
  <1>3. NextCmdID(r) \in SentCmd /\ NextCmdID(r) \in CmdID /\ NextCmdID(r)[1] = r
    BY <1>1, <1>2 DEF NextCmdID, SentCmd, CmdID
  <1>4. NextCmdID(r) # None
    BY <1>3, NoneAssumption
  <1>5. QED BY <1>1, <1>2, <1>3, <1>4 DEF GenCmd

LEMMA HandledSFCLemma ==
    ASSUME TypeOK, NEW r \in Sent, HandleAddSFC(r) \/ HandleDelSFC(r)
    PROVE  Handled(r)
  <1> DEFINE s == submitted[r].sfc
             c == NextCmdID(r)
  <1>1. r \in Requests /\ s \in SFCs /\ db \in DB
    BY SentLemma DEF TypeOK
  <1>2. c \in CmdID /\ c # None /\ (GenCmd(r) => cmdCnt' \in [Requests -> Nat])
    BY NextCmdIDLemma
  <1>3. ASSUME NEW reqState \in RequestState, NEW e, e = addCmdInfo2Request(db, r, reqState, c)
        PROVE  WroteRequest(db, e, r, reqState) /\ e.Request[r].cmdID = c /\ e \in DB
    BY <1>1, <1>2, <1>3, addCmdInfo2RequestLemma DEF WroteRequest
  <1>4. CASE HandleAddSFC(r)
    <2>1. /\ GenCmd(r) /\ submitted[r].type = "ADD_SFC"
          /\ \/ SendCmd(r) /\ db' = addSFCRequestHandler(db, r, s, c, REQUEST_STATE_IN_PROCESSING,
                                                         STATE_IN_PROCESSING)
             \/ SendNothing /\ db' = addSFCRequestHandler(db, r, s, c, REQUEST_STATE_FAILED,
                                                          STATE_INIT_FAILED)
      BY <1>4 DEF HandleAddSFC, GenAndSend
    <2>2. ASSUME NEW reqState \in RequestState, NEW sfcState \in ResourceState,
                 db' = addSFCRequestHandler(db, r, s, c, reqState, sfcState)
          PROVE  /\ db' \in DB
                 /\ \A q \in Requests : q # r => db'.Request[q] = db.Request[q]
                 /\ hasRequest(db', r) /\ db'.Request[r].state = reqState
                 /\ db'.Request[r].cmdID = c
                 /\ hasSFC(db', s) /\ db'.SFC[s].state = sfcState
                 /\ hasSFC(db, s) => db'.SFC[s].sfciIDList = db.SFC[s].sfciIDList
                 /\ \A t \in SFCs : t # s => db'.SFC[t] = db.SFC[t]
                 /\ db'.SFCI = db.SFCI
      <3> DEFINE e == addCmdInfo2Request(db, r, reqState, c)
      <3>1. WroteRequest(db, e, r, reqState) /\ e.Request[r].cmdID = c /\ e \in DB
        BY <1>3
      <3>2. db' = addSFC2DB(e, s, sfcState)
        BY <2>2 DEF addSFCRequestHandler
      <3> HIDE DEF e
      <3>3. WroteSFC(e, db', s) /\ hasSFC(db', s) /\ db'.SFC[s].state = sfcState
        BY <1>1, <3>1, <3>2, addSFC2DBLemma
      <3>4. QED BY <3>1, <3>3 DEF WroteRequest, WroteSFC, hasRequest, hasSFC
    <2>3. CASE SendCmd(r) /\ db' = addSFCRequestHandler(db, r, s, c, REQUEST_STATE_IN_PROCESSING,
                                                        STATE_IN_PROCESSING)
      <3>1. ResourcesAfter(r, TRUE)
        BY <1>1, <2>1, <2>2, <2>3 DEF ResourcesAfter, RequestState, ResourceState, hasSFC, hasSFCI
      <3>2. RowStarted(r) /\ db' \in DB /\ hasSFC(db', s)
            /\ \A q \in Requests : q # r => db'.Request[q] = db.Request[q]
        BY <2>2, <2>3 DEF RowStarted, RequestState, ResourceState
      <3>3. QED BY <1>2, <2>1, <2>3, <3>1, <3>2 DEF Handled
    <2>4. CASE SendNothing /\ db' = addSFCRequestHandler(db, r, s, c, REQUEST_STATE_FAILED,
                                                         STATE_INIT_FAILED)
      <3>1. ResourcesAfter(r, FALSE)
        BY <1>1, <2>1, <2>2, <2>4 DEF ResourcesAfter, RequestState, ResourceState, hasSFC, hasSFCI,
               STATE_INIT_FAILED, STATE_IN_PROCESSING
      <3>2. RowFailed(r) /\ db' \in DB /\ hasSFC(db', s)
            /\ \A q \in Requests : q # r => db'.Request[q] = db.Request[q]
        BY <2>2, <2>4 DEF RowFailed, RequestState, ResourceState
      <3>3. QED BY <1>2, <2>1, <2>4, <3>1, <3>2 DEF Handled
    <2>5. QED BY <2>1, <2>3, <2>4
  <1>5. CASE HandleDelSFC(r)
    <2>1. /\ GenCmd(r) /\ submitted[r].type = "DEL_SFC"
          /\ \/ SendCmd(r) /\ db' = delSFCRequestHandler(db, r, s, c, REQUEST_STATE_IN_PROCESSING,
                                                         STATE_IN_PROCESSING)
             \/ SendNothing /\ db' = delSFCRequestHandler(db, r, s, c, REQUEST_STATE_FAILED,
                                                          STATE_UNDELETED)
      BY <1>5 DEF HandleDelSFC, GenAndSend
    <2>2. CASE SendCmd(r) /\ db' = delSFCRequestHandler(db, r, s, c, REQUEST_STATE_IN_PROCESSING,
                                                        STATE_IN_PROCESSING)
      <3> DEFINE e == addCmdInfo2Request(db, r, REQUEST_STATE_IN_PROCESSING, c)
      <3>1. WroteRequest(db, e, r, REQUEST_STATE_IN_PROCESSING) /\ e.Request[r].cmdID = c /\ e \in DB
        BY <1>3 DEF RequestState
      <3>2. db' = updateSFCState(e, s, STATE_IN_PROCESSING)
        BY <2>2 DEF delSFCRequestHandler
      <3> HIDE DEF e
      <3>3. WroteSFC(e, db', s) /\ hasSFC(db', s) = hasSFC(e, s)
        BY <1>1, <3>1, <3>2, updateSFCStateLemma DEF ResourceState
      <3>4. RowStarted(r) /\ db' \in DB
            /\ \A q \in Requests : q # r => db'.Request[q] = db.Request[q]
        BY <3>1, <3>3 DEF RowStarted, WroteRequest, WroteSFC, hasRequest
      <3>5. ResourcesAfter(r, TRUE)
        BY <2>1, <3>1, <3>3 DEF ResourcesAfter, WroteRequest, WroteSFC, hasSFC, hasSFCI
      <3>6. QED BY <1>2, <2>1, <2>2, <3>4, <3>5 DEF Handled
    <2>3. CASE SendNothing /\ db' = delSFCRequestHandler(db, r, s, c, REQUEST_STATE_FAILED,
                                                         STATE_UNDELETED)
      <3>1. db' = addCmdInfo2Request(db, r, REQUEST_STATE_FAILED, c)
        BY <2>3 DEF delSFCRequestHandler, STATE_UNDELETED, STATE_IN_PROCESSING
      <3>2. WroteRequest(db, db', r, REQUEST_STATE_FAILED) /\ db'.Request[r].cmdID = c
        BY <1>3, <3>1 DEF RequestState
      <3>3. RowFailed(r) /\ db' \in DB
            /\ \A q \in Requests : q # r => db'.Request[q] = db.Request[q]
        BY <3>2 DEF RowFailed, WroteRequest
      <3>4. ResourcesAfter(r, FALSE)
        BY <3>2 DEF ResourcesAfter, WroteRequest, hasSFC, hasSFCI
      <3>5. QED BY <1>2, <2>1, <2>3, <3>3, <3>4 DEF Handled
    <2>4. QED BY <2>1, <2>2, <2>3
  <1>6. QED BY <1>4, <1>5

LEMMA HandledSFCILemma ==
    ASSUME TypeOK, NEW r \in Sent, HandleDelSFCI(r)
    PROVE  Handled(r)
  <1> DEFINE i == submitted[r].sfci
             c == NextCmdID(r)
  <1>1. /\ GenCmd(r) /\ submitted[r].type = "DEL_SFCI" /\ hasSFCI(db, i)
        /\ \/ SendCmd(r) /\ db' = delSFCIRequestHandler(db, r, i, c, REQUEST_STATE_IN_PROCESSING,
                                                        STATE_IN_PROCESSING)
           \/ SendNothing /\ db' = delSFCIRequestHandler(db, r, i, c, REQUEST_STATE_FAILED,
                                                         STATE_UNDELETED)
    BY DEF HandleDelSFCI, GenAndSend
  <1>2. r \in Requests /\ i \in SFCIs /\ db \in DB
    BY <1>1, SentLemma DEF TypeOK
  <1>3. c \in CmdID /\ c # None /\ cmdCnt' \in [Requests -> Nat]
    BY <1>1, NextCmdIDLemma
  <1>4. ASSUME NEW reqState \in RequestState, NEW sfciState \in ResourceState,
               db' = delSFCIRequestHandler(db, r, i, c, reqState, sfciState)
        PROVE  /\ db' \in DB
               /\ \A q \in Requests : q # r => db'.Request[q] = db.Request[q]
               /\ hasRequest(db', r) /\ db'.Request[r].state = reqState
               /\ db'.Request[r].cmdID = c
               /\ db'.SFC = db.SFC
               /\ hasSFCI(db', i) /\ db'.SFCI[i].state = sfciState
               /\ \A j \in SFCIs : j # i => db'.SFCI[j] = db.SFCI[j]
    <2> DEFINE e == addCmdInfo2Request(db, r, reqState, c)
    <2>1. WroteRequest(db, e, r, reqState) /\ e.Request[r].cmdID = c /\ e \in DB
      BY <1>2, <1>3, addCmdInfo2RequestLemma DEF WroteRequest
    <2>2. db' = updateSFCIState(e, i, sfciState)
      BY <1>4 DEF delSFCIRequestHandler
    <2> HIDE DEF e
    <2>0. hasSFCI(e, i)
      BY <1>1, <2>1 DEF WroteRequest, hasSFCI
    <2>3. WroteSFCI(e, db', i) /\ hasSFCI(db', i) /\ db'.SFCI[i].state = sfciState
      BY <1>2, <2>0, <2>1, <2>2, updateSFCIStateLemma
    <2>4. QED BY <2>1, <2>3 DEF WroteRequest, WroteSFCI, hasRequest
  <1>5. CASE SendCmd(r) /\ db' = delSFCIRequestHandler(db, r, i, c, REQUEST_STATE_IN_PROCESSING,
                                                       STATE_IN_PROCESSING)
    <2>0. REQUEST_STATE_IN_PROCESSING \in RequestState /\ STATE_IN_PROCESSING \in ResourceState
      BY DEF RequestState, ResourceState
    <2>1. ResourcesAfter(r, TRUE)
      BY <1>2, <1>4, <1>5, <2>0
         DEF ResourcesAfter, hasSFC, hasSFCI, STATE_IN_PROCESSING, STATE_ACTIVE, STATE_DELETED
    <2>2. RowStarted(r) /\ db' \in DB /\ \A q \in Requests : q # r => db'.Request[q] = db.Request[q]
      BY <1>4, <1>5, <2>0 DEF RowStarted
    <2>3. QED BY <1>1, <1>3, <1>5, <2>1, <2>2 DEF Handled
  <1>6. CASE SendNothing /\ db' = delSFCIRequestHandler(db, r, i, c, REQUEST_STATE_FAILED,
                                                        STATE_UNDELETED)
    <2>0. REQUEST_STATE_FAILED \in RequestState /\ STATE_UNDELETED \in ResourceState
      BY DEF RequestState, ResourceState
    <2>1. ResourcesAfter(r, FALSE)
      BY <1>2, <1>4, <1>6, <2>0
         DEF ResourcesAfter, hasSFC, hasSFCI, STATE_IN_PROCESSING, STATE_ACTIVE, STATE_UNDELETED,
             STATE_DELETED
    <2>2. RowFailed(r) /\ db' \in DB /\ \A q \in Requests : q # r => db'.Request[q] = db.Request[q]
      BY <1>4, <1>6, <2>0 DEF RowFailed
    <2>3. QED BY <1>1, <1>3, <1>6, <2>1, <2>2 DEF Handled
  <1>7. QED BY <1>1, <1>5, <1>6

LEMMA HandledRaisesLemma ==
    ASSUME TypeOK, NEW r \in Sent, HandleRaises(r)
    PROVE  Handled(r)
  <1>1. /\ db' = updateRequestState2DB(db, r, REQUEST_STATE_FAILED)
        /\ SendNothing /\ cmdCnt' = cmdCnt
        /\ submitted[r].type = "ADD_SFC" => scenario.mayRaise
    BY DEF HandleRaises
  <1>2. r \in Requests /\ db \in DB /\ cmdCnt' \in [Requests -> Nat]
    BY <1>1, SentLemma DEF TypeOK
  <1>3. /\ WroteRequest(db, db', r, REQUEST_STATE_FAILED)
        /\ \/ db'.Request[r].cmdID = None
           \/ hasRequest(db, r) /\ db'.Request[r].cmdID = db.Request[r].cmdID
    BY <1>1, <1>2, updateRequestStateLemma DEF RequestState
  <1>4. RowFailed(r) /\ db' \in DB /\ \A q \in Requests : q # r => db'.Request[q] = db.Request[q]
    BY <1>3 DEF RowFailed, WroteRequest
  <1>5. ResourcesAfter(r, FALSE)
    BY <1>3 DEF ResourcesAfter, WroteRequest, hasSFC, hasSFCI
  <1>6. QED BY <1>1, <1>2, <1>4, <1>5 DEF Handled

\* A request of a mapped batch: with a path or without one.
LEMMA HandledBatchLemma ==
    ASSUME TypeOK, NEW r \in SentSFCI, NEW i, i = submitted[r].sfci,
           \/ /\ GenCmd(r)
              /\ db' = addSFCIRequestHandler(db, r, i, NextCmdID(r), REQUEST_STATE_IN_PROCESSING)
              /\ IF isAddSFCIValidState(db, i) THEN SendCmd(r) ELSE SendNothing
           \/ /\ db' = addSFCIRequestHandlerNoCmd(db, r, i)
              /\ SendNothing
              /\ UNCHANGED cmdCnt
    PROVE  Handled(r)
  <1> DEFINE c == NextCmdID(r)
  <1>1. r \in Sent /\ r \in Requests /\ i \in SFCIs /\ db \in DB /\ submitted[r].type = "ADD_SFCI"
    BY SentLemma DEF TypeOK, SentSFCI
  <1>2. c \in CmdID /\ c # None /\ cmdCnt' \in [Requests -> Nat]
    BY <1>1, NextCmdIDLemma DEF TypeOK
  <1>3. CASE isAddSFCIValidState(db, i) /\ SendCmd(r)
             /\ db' = addSFCIRequestHandler(db, r, i, c, REQUEST_STATE_IN_PROCESSING)
    <2> DEFINE row == [state |-> STATE_IN_PROCESSING]
               e == [db EXCEPT !.SFCI[i] = row]
    <2>1. db' = addCmdInfo2Request(e, r, REQUEST_STATE_IN_PROCESSING, c)
      BY <1>3 DEF addSFCIRequestHandler
    <2>2. row \in SFCIRow /\ row.state = STATE_IN_PROCESSING
      BY DEF SFCIRow, ResourceState
    <2> HIDE DEF row
    <2>0. WroteSFCI(db, e, i) /\ hasSFCI(e, i) /\ e.SFCI[i].state = STATE_IN_PROCESSING
      <3>1. row # None
        BY <2>2, NoneAssumption
      <3>2. QED BY <1>1, <2>2, <3>1 DEF DB, WroteSFCI, hasSFCI
    <2> HIDE DEF e
    <2>3. WroteRequest(e, db', r, REQUEST_STATE_IN_PROCESSING) /\ db'.Request[r].cmdID = c
      BY <1>1, <1>2, <2>0, <2>1, addCmdInfo2RequestLemma DEF WroteSFCI, RequestState
    <2>4. RowStarted(r) /\ db' \in DB /\ \A q \in Requests : q # r => db'.Request[q] = db.Request[q]
      BY <2>0, <2>3 DEF RowStarted, WroteRequest, WroteSFCI
    <2>5. ResourcesAfter(r, TRUE)
      BY <1>1, <2>0, <2>3
         DEF ResourcesAfter, WroteRequest, WroteSFCI, hasSFC, hasSFCI, STATE_IN_PROCESSING, STATE_ACTIVE,
             STATE_DELETED
    <2>6. QED BY <1>1, <1>2, <1>3, <2>4, <2>5 DEF Handled
  <1>4. CASE ~isAddSFCIValidState(db, i) /\ SendNothing
             /\ db' = addSFCIRequestHandler(db, r, i, c, REQUEST_STATE_IN_PROCESSING)
    <2>1. db' = addCmdInfo2Request(db, r, REQUEST_STATE_FAILED, c)
      BY <1>4 DEF addSFCIRequestHandler
    <2>2. WroteRequest(db, db', r, REQUEST_STATE_FAILED) /\ db'.Request[r].cmdID = c
      BY <1>1, <1>2, <2>1, addCmdInfo2RequestLemma DEF RequestState
    <2>3. RowFailed(r) /\ db' \in DB /\ \A q \in Requests : q # r => db'.Request[q] = db.Request[q]
      BY <2>2 DEF RowFailed, WroteRequest
    <2>4. ResourcesAfter(r, FALSE)
      BY <2>2 DEF ResourcesAfter, WroteRequest, hasSFC, hasSFCI
    <2>5. QED BY <1>1, <1>2, <1>4, <2>3, <2>4 DEF Handled
  <1>5. CASE SendNothing /\ db' = addSFCIRequestHandlerNoCmd(db, r, i)
    <2> DEFINE e == addCmdInfo2Request(db, r, REQUEST_STATE_FAILED, None)
    <2>1. db' = updateSFCIState(e, i, STATE_INIT_FAILED)
      BY <1>5 DEF addSFCIRequestHandlerNoCmd
    <2>2. /\ WroteRequest(db, e, r, REQUEST_STATE_FAILED)
          /\ \/ e.Request[r].cmdID = None
             \/ hasRequest(db, r) /\ e.Request[r].cmdID = db.Request[r].cmdID
      BY <1>1, addCmdInfo2RequestLemma DEF RequestState
    <2> HIDE DEF e
    <2>3. WroteSFCI(e, db', i) /\ (hasSFCI(db', i) => db'.SFCI[i].state = STATE_INIT_FAILED)
      BY <1>1, <2>1, <2>2, updateSFCIStateLemma DEF WroteRequest, ResourceState
    <2>4. RowFailed(r) /\ db' \in DB /\ \A q \in Requests : q # r => db'.Request[q] = db.Request[q]
      BY <2>2, <2>3 DEF RowFailed, WroteRequest, WroteSFCI, hasRequest
    <2>5. ResourcesAfter(r, FALSE)
      BY <1>1, <2>2, <2>3
         DEF ResourcesAfter, WroteRequest, WroteSFCI, hasSFC, hasSFCI, STATE_IN_PROCESSING,
             STATE_ACTIVE, STATE_INIT_FAILED, STATE_DELETED
    <2>6. QED BY <1>1, <1>2, <1>5, <2>4, <2>5 DEF Handled
  <1>6. QED BY <1>3, <1>4, <1>5

LEMMA HandledLemma ==
    ASSUME TypeOK, NEW r \in Sent,
           HandleAddSFC(r) \/ HandleDelSFCI(r) \/ HandleDelSFC(r) \/ HandleRaises(r)
    PROVE  Handled(r) /\ UNCHANGED <<requestBatchQueue, batch>>
  <1>1. Handled(r)
    BY HandledSFCLemma, HandledSFCILemma, HandledRaisesLemma
  <1>2. QED BY <1>1 DEF HandleAddSFC, HandleDelSFCI, HandleDelSFC, HandleRaises, GenAndSend
-----------------------------------------------------------------------------
(***************************************************************************)
(* The tables: requests in processing are awaited, active SFCIs are listed.*)
(***************************************************************************)
TablesInv ==
    /\ db \in DB
    /\ DOMAIN commandsInfo \subseteq SentCmd
    /\ inMediator \subseteq SentCmd
    /\ CmdIDsAreOwn /\ EntriesAreOwn
    /\ RequestsAreAwaited /\ ActiveIsListed

\* The reply to command c is in the queue.
RplyIn(c) ==
    \E n \in 1..Len(orchestratorQueue) :
        orchestratorQueue[n].kind = "rply" /\ orchestratorQueue[n].id = c

LEMMA AwaitedLemma ==
    \A c : Awaited(c) <=> c \in DOMAIN commandsInfo /\ (c \in inMediator \/ RplyIn(c))
  BY DEF Awaited, RplyIn, hasCmd

\* Steps that do not change the table SFC or make an SFCI active.
LEMMA ListedLemma ==
    ASSUME TypeOK, ActiveIsListed, db' \in DB,
           \A s \in SFCs : hasSFC(db, s) =>
                hasSFC(db', s) /\ db.SFC[s].sfciIDList \subseteq db'.SFC[s].sfciIDList,
           \A i \in SFCIs : hasSFCI(db', i) /\ db'.SFCI[i].state = STATE_ACTIVE =>
                \/ hasSFCI(db, i) /\ db.SFCI[i].state = STATE_ACTIVE
                \/ hasSFC(db', i[1]) /\ i \in db'.SFC[i[1]].sfciIDList
    PROVE  ActiveIsListed'
  <1>1. \A i \in SFCIs : i[1] \in SFCs
    BY DEF SFCIs
  <1>2. QED BY <1>1 DEF ActiveIsListed

\* A request is handled: sent or failed.
LEMMA HandledTablesLemma ==
    ASSUME TypeOK, TablesInv, NEW r \in Sent, Handled(r), UNCHANGED submitted,
           \A c \in SentCmd : RplyIn(c) => RplyIn(c)'
    PROVE  TablesInv'
  <1> DEFINE n == NextCmdID(r)
  <1>0. Sent' = Sent /\ SentCmd' = SentCmd
    BY DEF Sent, SentCmd
  <1>1. n \in SentCmd /\ n # None /\ n[1] = r /\ r \in Requests /\ submitted[r] \in Request
    BY NextCmdIDLemma, SentLemma
  <1> HIDE DEF n
  <1>2. /\ db' \in DB
        /\ \A q \in Requests : q # r => db'.Request[q] = db.Request[q]
        /\ \/ RowStarted(r) /\ SendCmd(r)
           \/ RowFailed(r) /\ SendNothing
        /\ ResourcesAfter(r, TRUE) \/ ResourcesAfter(r, FALSE)
    BY DEF Handled
  <1>3. ActiveIsListed'
    BY <1>2, ListedLemma DEF ResourcesAfter, TablesInv
  <1>4. CASE RowStarted(r) /\ SendCmd(r)
    <2>1. /\ commandsInfo' = addCmd(commandsInfo, n, submitted[r])
          /\ inMediator' = inMediator \cup {n}
          /\ hasRequest(db', r) /\ db'.Request[r].state = REQUEST_STATE_IN_PROCESSING
          /\ db'.Request[r].cmdID = n
      BY <1>4 DEF SendCmd, RowStarted, n
    <2>2. /\ DOMAIN commandsInfo' = DOMAIN commandsInfo \cup {n}
          /\ commandsInfo'[n] \in Entry /\ commandsInfo'[n].cmd = submitted[r]
          /\ \A b \in DOMAIN commandsInfo : b # n => commandsInfo'[b] = commandsInfo[b]
      <3>1. EntriesAreOwn /\ submitted[r] = submitted[n[1]]
        BY <1>1 DEF TablesInv
      <3>2. QED BY <1>1, <2>1, <3>1, addCmdLemma
    <2>3. DOMAIN commandsInfo' \subseteq SentCmd /\ inMediator' \subseteq SentCmd
      BY <1>1, <2>1, <2>2 DEF TablesInv
    <2>4. CmdIDsAreOwn'
      BY <1>0, <1>1, <1>2, <2>1 DEF CmdIDsAreOwn, TablesInv, hasRequest
    <2>5. EntriesAreOwn'
      BY <1>1, <2>2 DEF EntriesAreOwn, TablesInv
    <2>6. RequestsAreAwaited'
      <3> SUFFICES ASSUME NEW q \in Requests, hasRequest(db', q),
                          db'.Request[q].state = REQUEST_STATE_IN_PROCESSING,
                          NEW c, c = db'.Request[q].cmdID
                   PROVE  c \in DOMAIN commandsInfo' /\ (c \in inMediator' \/ RplyIn(c)')
        BY DEF RequestsAreAwaited, Awaited, hasCmd, RplyIn
      <3>1. CASE q = r
        BY <2>1, <2>2, <3>1
      <3>2. CASE q # r
        <4>1. db'.Request[q] = db.Request[q] /\ hasRequest(db, q)
          BY <1>2, <3>2 DEF hasRequest
        <4>2. Awaited(c)
          BY <4>1 DEF TablesInv, RequestsAreAwaited
        <4>3. c \in DOMAIN commandsInfo /\ (c \in inMediator \/ RplyIn(c)) /\ c \in SentCmd
          BY <4>2, AwaitedLemma DEF TablesInv
        <4>4. QED BY <2>1, <2>2, <4>3
      <3>3. QED BY <3>1, <3>2
    <2>7. QED BY <1>0, <1>2, <1>3, <2>3, <2>4, <2>5, <2>6 DEF TablesInv
  <1>5. CASE RowFailed(r) /\ SendNothing
    <2>1. /\ UNCHANGED <<commandsInfo, inMediator>>
          /\ hasRequest(db', r) /\ db'.Request[r].state = REQUEST_STATE_FAILED
          /\ \/ db'.Request[r].cmdID \in {None, n}
             \/ hasRequest(db, r) /\ db'.Request[r].cmdID = db.Request[r].cmdID
      BY <1>5 DEF SendNothing, RowFailed, n
    <2>2. CmdIDsAreOwn'
      BY <1>0, <1>1, <1>2, <2>1 DEF CmdIDsAreOwn, TablesInv, hasRequest
    <2>3. EntriesAreOwn'
      BY <2>1 DEF EntriesAreOwn, TablesInv
    <2>4. RequestsAreAwaited'
      <3> SUFFICES ASSUME NEW q \in Requests, hasRequest(db', q),
                          db'.Request[q].state = REQUEST_STATE_IN_PROCESSING,
                          NEW c, c = db'.Request[q].cmdID
                   PROVE  c \in DOMAIN commandsInfo' /\ (c \in inMediator' \/ RplyIn(c)')
        BY DEF RequestsAreAwaited, Awaited, hasCmd, RplyIn
      <3>1. q # r
        BY <2>1 DEF REQUEST_STATE_FAILED, REQUEST_STATE_IN_PROCESSING
      <3>2. db'.Request[q] = db.Request[q] /\ hasRequest(db, q)
        BY <1>2, <3>1 DEF hasRequest
      <3>3. Awaited(c)
        BY <3>2 DEF TablesInv, RequestsAreAwaited
      <3>4. c \in DOMAIN commandsInfo /\ (c \in inMediator \/ RplyIn(c)) /\ c \in SentCmd
        BY <3>3, AwaitedLemma DEF TablesInv
      <3>5. QED BY <2>1, <3>4
    <2>5. QED BY <1>0, <1>2, <1>3, <2>1, <2>2, <2>3, <2>4 DEF TablesInv
  <1>6. QED BY <1>2, <1>4, <1>5

\* Only rows of Request were written, for requests of S, and none of them is started.
RequestsWritten(S) ==
    /\ db' \in DB /\ db'.SFC = db.SFC /\ db'.SFCI = db.SFCI
    /\ \A q \in Requests :
          \/ db'.Request[q] = db.Request[q]
          \/ /\ q \in S
             /\ hasRequest(db', q)
             /\ db'.Request[q].state \in {REQUEST_STATE_FAILED, REQUEST_STATE_INITIAL}
             /\ \/ db'.Request[q].cmdID = None
                \/ hasRequest(db, q) /\ db'.Request[q].cmdID = db.Request[q].cmdID

LEMMA WrittenTablesLemma ==
    ASSUME TypeOK, TablesInv, NEW S \in SUBSET Sent, RequestsWritten(S),
           UNCHANGED <<submitted, commandsInfo>>, inMediator' \subseteq SentCmd,
           \A c \in DOMAIN commandsInfo :
                c \in inMediator \/ RplyIn(c) => c \in inMediator' \/ RplyIn(c)'
    PROVE  TablesInv'
  <1>0. Sent' = Sent /\ SentCmd' = SentCmd /\ db' \in DB
    BY DEF Sent, SentCmd, RequestsWritten
  <1>1. CmdIDsAreOwn'
    BY <1>0 DEF RequestsWritten, CmdIDsAreOwn, TablesInv, hasRequest
  <1>2. EntriesAreOwn'
    BY DEF EntriesAreOwn, TablesInv
  <1>3. RequestsAreAwaited'
    <2> SUFFICES ASSUME NEW q \in Requests, hasRequest(db', q),
                        db'.Request[q].state = REQUEST_STATE_IN_PROCESSING,
                        NEW c, c = db'.Request[q].cmdID
                 PROVE  c \in DOMAIN commandsInfo /\ (c \in inMediator' \/ RplyIn(c)')
      BY DEF RequestsAreAwaited, Awaited, hasCmd, RplyIn
    <2>1. db'.Request[q] = db.Request[q] /\ hasRequest(db, q)
      BY DEF RequestsWritten, hasRequest, REQUEST_STATE_FAILED, REQUEST_STATE_IN_PROCESSING,
             REQUEST_STATE_INITIAL
    <2>2. Awaited(c)
      BY <2>1 DEF TablesInv, RequestsAreAwaited
    <2>3. c \in DOMAIN commandsInfo /\ (c \in inMediator \/ RplyIn(c))
      BY <2>2, AwaitedLemma
    <2>4. QED BY <2>3
  <1>4. ActiveIsListed'
    BY DEF RequestsWritten, ActiveIsListed, TablesInv, hasSFC, hasSFCI
  <1>5. QED BY <1>0, <1>1, <1>2, <1>3, <1>4 DEF TablesInv

\* What _cmdRplyHandler writes for the request r of the command.
RplyWritten(r) ==
    /\ db' \in DB
    /\ \A q \in Requests : q # r => db'.Request[q] = db.Request[q]
    /\ hasRequest(db', r)
    /\ db'.Request[r].state \in {REQUEST_STATE_SUCCESSFUL, REQUEST_STATE_FAILED}
    /\ db'.Request[r].cmdID = db.Request[r].cmdID
    /\ \A s \in SFCs : hasSFC(db, s) =>
          hasSFC(db', s) /\ db.SFC[s].sfciIDList \subseteq db'.SFC[s].sfciIDList
    /\ \A s \in SFCs : hasSFC(db', s) /\ db'.SFC[s].state = STATE_IN_PROCESSING =>
          /\ hasSFC(db, s) /\ db.SFC[s].state = STATE_IN_PROCESSING
          /\ submitted[r].type \in {"ADD_SFC", "DEL_SFC"} => s # submitted[r].sfc
    /\ \A i \in SFCIs : hasSFCI(db', i) /\ db'.SFCI[i].state = STATE_ACTIVE =>
          \/ hasSFCI(db, i) /\ db.SFCI[i].state = STATE_ACTIVE
          \/ hasSFC(db', i[1]) /\ i \in db'.SFC[i[1]].sfciIDList
    /\ \A i \in SFCIs : hasSFCI(db', i) /\ db'.SFCI[i].state = STATE_IN_PROCESSING =>
          /\ hasSFCI(db, i) /\ db.SFCI[i].state = STATE_IN_PROCESSING
          /\ submitted[r].type \in {"ADD_SFCI", "DEL_SFCI"} /\ ~CmdRplyRaises(db, submitted[r]) =>
                i # submitted[r].sfci

LEMMA RplyWrittenLemma ==
    ASSUME TypeOK, NEW r \in Sent, hasRequest(db, r),
           NEW cmdState \in {CMD_STATE_SUCCESSFUL, CMD_STATE_FAIL},
           db' = cmdRplyHandler(db, r, submitted[r], cmdState)
    PROVE  RplyWritten(r)
  <1> DEFINE q == submitted[r]
             reqState == RequestStateAfter(cmdState)
             state == ResourceStateAfter(q.type, cmdState)
             d == updateRequestState2DB(db, r, reqState)
  <1>1. /\ r \in Requests /\ db \in DB /\ q.sfc \in SFCs
        /\ q.type \in {"ADD_SFC", "DEL_SFC", "ADD_SFCI", "DEL_SFCI"}
        /\ q.type \in {"ADD_SFCI", "DEL_SFCI"} => q.sfci \in SFCIs /\ q.sfci[1] = q.sfc
    BY SentLemma DEF TypeOK
  <1>2. reqState \in RequestState /\ reqState \in {REQUEST_STATE_SUCCESSFUL, REQUEST_STATE_FAILED}
    BY DEF RequestStateAfter, RequestState
  <1>3. /\ state \in ResourceState /\ state # STATE_IN_PROCESSING
        /\ q.type # "ADD_SFCI" /\ q.type # "ADD_SFC" => state # STATE_ACTIVE
    BY <1>1 DEF ResourceStateAfter, ResourceState, STATE_IN_PROCESSING, STATE_ACTIVE, STATE_INIT_FAILED,
                STATE_DELETED, STATE_UNDELETED
  <1>4. WroteRequest(db, d, r, reqState) /\ d.Request[r].cmdID = db.Request[r].cmdID /\ d \in DB
    BY <1>1, <1>2, updateRequestStateLemma DEF WroteRequest
  <1>5. db' = CASE q.type \in {"ADD_SFC", "DEL_SFC"} -> updateSFCState(d, q.sfc, state)
                [] q.type = "DEL_SFCI" -> updateSFCIState(d, q.sfci, state)
                [] q.type = "ADD_SFCI" ->
                      IF CmdRplyRaises(db, q) THEN d
                      ELSE updateSFCIState(addSFCI2SFCInDB(d, q.sfci), q.sfci, state)
    BY DEF cmdRplyHandler
  <1> HIDE DEF reqState, state, d
  <1>6. CASE q.type \in {"ADD_SFC", "DEL_SFC"}
    <2>1. db' = updateSFCState(d, q.sfc, state)
      BY <1>5, <1>6
    <2>2. WroteSFC(d, db', q.sfc) /\ hasSFC(db', q.sfc) = hasSFC(d, q.sfc)
          /\ (hasSFC(d, q.sfc) => db'.SFC[q.sfc].state = state)
      BY <1>1, <1>3, <1>4, <2>1, updateSFCStateLemma
    <2>3. QED BY <1>2, <1>3, <1>4, <1>6, <2>2
              DEF WroteRequest, WroteSFC, RplyWritten, hasRequest, hasSFC, hasSFCI
  <1>7. CASE q.type = "DEL_SFCI"
    <2>1. db' = updateSFCIState(d, q.sfci, state)
      BY <1>5, <1>7
    <2>2. WroteSFCI(d, db', q.sfci) /\ hasSFCI(db', q.sfci) = hasSFCI(d, q.sfci)
          /\ (hasSFCI(d, q.sfci) => db'.SFCI[q.sfci].state = state)
      BY <1>1, <1>3, <1>4, <1>7, <2>1, updateSFCIStateLemma
    <2>3. QED BY <1>2, <1>3, <1>4, <1>7, <2>2
              DEF WroteRequest, WroteSFCI, RplyWritten, hasRequest, hasSFC, hasSFCI
  <1>8. CASE q.type = "ADD_SFCI" /\ CmdRplyRaises(db, q)
    <2>1. db' = d
      BY <1>5, <1>8
    <2>2. QED BY <1>2, <1>4, <1>8, <2>1 DEF WroteRequest, RplyWritten, hasRequest, hasSFC, hasSFCI
  <1>9. CASE q.type = "ADD_SFCI" /\ ~CmdRplyRaises(db, q)
    <2> DEFINE e == addSFCI2SFCInDB(d, q.sfci)
    <2>1. db' = updateSFCIState(e, q.sfci, state)
      BY <1>5, <1>9
    <2>2. hasSFC(db, q.sfc) /\ hasSFC(d, q.sfc) /\ q.sfci \in SFCIs /\ q.sfci[1] = q.sfc
      BY <1>1, <1>4, <1>9 DEF CmdRplyRaises, WroteRequest, hasSFC
    <2>3. WroteList(d, e, q.sfc, q.sfci) /\ e \in DB
      <3>1. SFCIOf(q.sfci, q.sfc)
        BY <2>2 DEF SFCIOf
      <3>2. QED BY <1>1, <1>4, <2>2, <3>1, addSFCI2SFCLemma DEF WroteList
    <2> HIDE DEF e
    <2>4. WroteSFCI(e, db', q.sfci) /\ hasSFCI(db', q.sfci) = hasSFCI(e, q.sfci)
          /\ (hasSFCI(e, q.sfci) => db'.SFCI[q.sfci].state = state)
      BY <1>3, <2>1, <2>2, <2>3, updateSFCIStateLemma
    <2>5. /\ db' \in DB
          /\ \A p \in Requests : p # r => db'.Request[p] = db.Request[p]
          /\ hasRequest(db', r)
          /\ db'.Request[r].state \in {REQUEST_STATE_SUCCESSFUL, REQUEST_STATE_FAILED}
          /\ db'.Request[r].cmdID = db.Request[r].cmdID
      BY <1>2, <1>4, <2>3, <2>4 DEF WroteRequest, WroteList, WroteSFCI, hasRequest
    <2>6. /\ \A t \in SFCs : t # q.sfc => db'.SFC[t] = db.SFC[t]
          /\ hasSFC(db', q.sfc) /\ db'.SFC[q.sfc].state = db.SFC[q.sfc].state
          /\ db'.SFC[q.sfc].sfciIDList = db.SFC[q.sfc].sfciIDList \cup {q.sfci}
      BY <1>4, <2>3, <2>4 DEF WroteRequest, WroteList, WroteSFCI, hasSFC
    <2>7. /\ \A j \in SFCIs : j # q.sfci => db'.SFCI[j] = db.SFCI[j]
          /\ hasSFCI(db', q.sfci) => db'.SFCI[q.sfci].state = state
      BY <1>4, <2>3, <2>4 DEF WroteRequest, WroteList, WroteSFCI, hasSFCI
    <2>8. QED BY <1>3, <1>9, <2>2, <2>5, <2>6, <2>7 DEF RplyWritten, hasSFC, hasSFCI
  <1>10. QED BY <1>1, <1>6, <1>7, <1>8, <1>9
-----------------------------------------------------------------------------
(***************************************************************************)
(* The batch.                                                              *)
(***************************************************************************)
\* processInvalidAddSFCIRequests: e has a row more for some requests of the queue.
WroteRejected(e, queue) ==
    /\ e \in DB /\ e.SFC = db.SFC /\ e.SFCI = db.SFCI
    /\ \A q \in Requests :
          \/ e.Request[q] = db.Request[q]
          \/ /\ \E n \in 1..Len(queue) : queue[n] = q
             /\ ~submitted[q].valid
             /\ ~hasRequest(db, q) /\ hasRequest(e, q)
             /\ e.Request[q].state = REQUEST_STATE_FAILED /\ e.Request[q].cmdID = None

LEMMA WithRejectedLemma ==
    ASSUME TypeOK, NEW queue \in Seq(SentSFCI), NEW e, e = WithRejected(queue)
    PROVE  WroteRejected(e, queue)
  <1> DEFINE rows == [q \in Requests |->
                        IF q \in Rejected(queue)
                        THEN addRequest(db, q, REQUEST_STATE_FAILED, None).Request[q]
                        ELSE db.Request[q]]
  <1>1. db \in DB /\ e = [db EXCEPT !.Request = rows]
    BY DEF TypeOK, WithRejected
  <1>2. ASSUME NEW q \in Requests
        PROVE  /\ rows[q] \in RequestRow \cup {None}
               /\ \/ rows[q] = db.Request[q]
                  \/ /\ \E n \in 1..Len(queue) : queue[n] = q
                     /\ ~submitted[q].valid
                     /\ ~hasRequest(db, q) /\ rows[q] # None
                     /\ rows[q].state = REQUEST_STATE_FAILED /\ rows[q].cmdID = None
    <2>0. db.Request[q] \in RequestRow \cup {None}
      BY <1>1 DEF DB
    <2>1. CASE q \notin Rejected(queue)
      BY <2>0, <2>1
    <2>2. CASE q \in Rejected(queue) /\ hasRequest(db, q)
      <3>1. rows[q] = db.Request[q]
        BY <2>2 DEF addRequest
      <3>2. QED BY <2>0, <3>1
    <2>3. CASE q \in Rejected(queue) /\ ~hasRequest(db, q)
      <3> DEFINE d == addRequest(db, q, REQUEST_STATE_FAILED, None)
      <3>1. rows[q] = d.Request[q]
        BY <2>3
      <3>2. WroteRequest(db, d, q, REQUEST_STATE_FAILED) /\ d.Request[q].cmdID = None
        BY <1>1, <2>3, addRequestLemma DEF RequestState
      <3> HIDE DEF d, rows
      <3>3. d.Request[q] \in RequestRow \cup {None} /\ d.Request[q] # None
            /\ d.Request[q].state = REQUEST_STATE_FAILED
        BY <3>2 DEF WroteRequest, DB, hasRequest
      <3>4. (\E n \in 1..Len(queue) : queue[n] = q) /\ ~submitted[q].valid
        BY <2>3 DEF Rejected
      <3>5. QED BY <2>3, <3>1, <3>2, <3>3, <3>4
    <2>4. QED BY <2>1, <2>2, <2>3
  <1>3. rows = [q \in Requests |-> rows[q]]
    OBVIOUS
  <1> HIDE DEF rows
  <1>4. rows \in [Requests -> RequestRow \cup {None}]
    BY <1>2, <1>3
  <1>5. e \in DB /\ e.SFC = db.SFC /\ e.SFCI = db.SFCI /\ e.Request = rows
    BY <1>1, <1>4 DEF DB
  <1>6. QED BY <1>2, <1>5 DEF WroteRejected, hasRequest

\* Only rows of requests that were sent are written.
LEMMA RejectedLemma ==
    ASSUME TypeOK, NEW queue \in Seq(SentSFCI), NEW e, WroteRejected(e, queue)
    PROVE  /\ e \in DB /\ e.SFC = db.SFC /\ e.SFCI = db.SFCI
           /\ \A q \in Requests :
                 \/ e.Request[q] = db.Request[q]
                 \/ /\ q \in Sent
                    /\ ~hasRequest(db, q) /\ hasRequest(e, q)
                    /\ e.Request[q].state = REQUEST_STATE_FAILED /\ e.Request[q].cmdID = None
  <1>1. \A n \in 1..Len(queue) : queue[n] \in Sent
    BY DEF SentSFCI
  <1>2. QED BY <1>1 DEF WroteRejected

\* processAllAddSFCIRequests up to the mapping of the batch.
LEMMA MapBatchLemma ==
    ASSUME TypeOK, NEW queue \in Seq(SentSFCI), MapBatch(queue)
    PROVE  /\ WroteRejected(db', queue)
           /\ RequestsWritten(Sent)
           /\ UNCHANGED <<commandsInfo, inMediator, cmdCnt>>
           /\ requestBatchQueue' \in Seq(SentSFCI)
           /\ batch' \subseteq Pos \X SentSFCI
           /\ requestBatchQueue' = <<>>
           /\ \A entry \in batch' : /\ entry[1] \in 1..Len(queue) /\ entry[2] = queue[entry[1]]
                                    /\ submitted[entry[2]].valid
  <1>1. /\ db' = WithRejected(queue) /\ requestBatchQueue' = <<>>
        /\ UNCHANGED <<commandsInfo, inMediator, cmdCnt>>
        /\ batch' = {<<n, queue[n]>> : n \in {k \in 1..Len(queue) : submitted[queue[k]].valid}}
    BY DEF MapBatch, SendNothing
  <1>2. WroteRejected(db', queue)
    BY <1>1, WithRejectedLemma
  <1>3. RequestsWritten(Sent)
    BY <1>2, RejectedLemma DEF RequestsWritten
  <1>4. \A n \in 1..Len(queue) : n \in Pos /\ queue[n] \in SentSFCI
    BY DEF Pos
  <1>5. \A entry \in batch' : /\ entry[1] \in 1..Len(queue) /\ entry[2] = queue[entry[1]]
                              /\ submitted[entry[2]].valid
    BY <1>1
  <1>6. batch' \subseteq Pos \X SentSFCI
    BY <1>1, <1>4
  <1>7. QED BY <1>1, <1>2, <1>3, <1>5, <1>6

\* An ADD_SFCI joins the batch, or the batch is mapped.
LEMMA AddSFCILemma ==
    ASSUME TypeOK, NEW r \in Sent, HandleAddSFCI(r)
    PROVE  /\ r \in SentSFCI
           /\ RequestsWritten(Sent)
           /\ UNCHANGED <<commandsInfo, inMediator, cmdCnt>>
           /\ requestBatchQueue' \in Seq(SentSFCI)
           /\ batch' \subseteq Pos \X SentSFCI
  <1> DEFINE queue == Append(requestBatchQueue, r)
             e == WithRejected(queue)
  <1>1. r \in SentSFCI /\ db \in DB /\ r \in Requests /\ batch \subseteq Pos \X SentSFCI
    BY SentLemma DEF HandleAddSFCI, SentSFCI, TypeOK
  <1>2. queue \in Seq(SentSFCI)
    BY <1>1 DEF TypeOK
  <1>3. WroteRejected(e, queue)
    BY <1>2, WithRejectedLemma
  <1>4. \/ /\ requestBatchQueue' = queue
           /\ UNCHANGED <<commandsInfo, inMediator, cmdCnt, db, batch>>
        \/ MapBatch(queue)
        \/ MapBatchRaises(queue, updateRequestState2DB(e, r, REQUEST_STATE_FAILED))
    BY DEF HandleAddSFCI, SendNothing
  <1> HIDE DEF queue, e
  <1>5. CASE requestBatchQueue' = queue /\ UNCHANGED <<commandsInfo, inMediator, cmdCnt, db, batch>>
    BY <1>1, <1>2, <1>5 DEF RequestsWritten
  <1>6. CASE MapBatch(queue)
    BY <1>1, <1>2, <1>3, <1>6, MapBatchLemma
  <1>7. CASE MapBatchRaises(queue, updateRequestState2DB(e, r, REQUEST_STATE_FAILED))
    <2>1. /\ db' = updateRequestState2DB(e, r, REQUEST_STATE_FAILED)
          /\ requestBatchQueue' = <<>> /\ UNCHANGED <<commandsInfo, inMediator, cmdCnt, batch>>
      BY <1>7 DEF MapBatchRaises, SendNothing
    <2>2. e \in DB
      BY <1>3 DEF WroteRejected
    <2>3. /\ WroteRequest(e, db', r, REQUEST_STATE_FAILED)
          /\ IF hasRequest(e, r) THEN db'.Request[r].cmdID = e.Request[r].cmdID
                                 ELSE db'.Request[r].cmdID = None
      BY <1>1, <2>1, <2>2, updateRequestStateLemma DEF RequestState
    <2>4. RequestsWritten(Sent)
      BY <1>1, <1>2, <1>3, <2>3, RejectedLemma DEF WroteRequest, RequestsWritten, hasRequest
    <2>5. QED BY <1>1, <2>1, <2>4
  <1>8. QED BY <1>4, <1>5, <1>6, <1>7
-----------------------------------------------------------------------------
(***************************************************************************)
(* A reply: the request of its command leaves processing.                  *)
(***************************************************************************)
\* The loop takes the first message of its queue.
LEMMA TakeLemma ==
    ASSUME TypeOK, NEW kind, Take(kind), NEW m, m = Head(orchestratorQueue)
    PROVE  /\ m \in SentMsg /\ m.kind = kind
           /\ orchestratorQueue' \in Seq(SentMsg)
           /\ phase' = "timer" /\ batch = {} /\ phase = "recv"
           /\ \A c : RplyIn(c) /\ ~(m.kind = "rply" /\ m.id = c) => RplyIn(c)'
  <1>1. /\ orchestratorQueue \in Seq(SentMsg) /\ orchestratorQueue # <<>>
        /\ orchestratorQueue' = Tail(orchestratorQueue) /\ m.kind = kind
        /\ phase' = "timer" /\ batch = {} /\ phase = "recv"
    BY DEF Take, TypeOK
  <1>2. /\ m \in SentMsg /\ m = orchestratorQueue[1] /\ orchestratorQueue' \in Seq(SentMsg)
        /\ \A k \in 1..Len(orchestratorQueue) : k # 1 =>
              k - 1 \in 1..Len(orchestratorQueue') /\ orchestratorQueue'[k - 1] = orchestratorQueue[k]
    BY <1>1, TailLemma
  <1>3. ASSUME NEW c, RplyIn(c), ~(m.kind = "rply" /\ m.id = c)
        PROVE  RplyIn(c)'
    <2>1. PICK n \in 1..Len(orchestratorQueue) :
              orchestratorQueue[n].kind = "rply" /\ orchestratorQueue[n].id = c
      BY <1>3 DEF RplyIn
    <2>2. n # 1
      BY <1>2, <1>3, <2>1
    <2>3. QED BY <1>2, <2>1, <2>2 DEF RplyIn
  <1>4. QED BY <1>1, <1>2, <1>3

\* The tables after the reply to command c: no request in processing lost its command.
RplyTables(c) ==
    /\ DOMAIN commandsInfo' \subseteq DOMAIN commandsInfo
    /\ \A b \in DOMAIN commandsInfo :
          b # c => b \in DOMAIN commandsInfo' /\ commandsInfo'[b] = commandsInfo[b]
    /\ c \in DOMAIN commandsInfo' =>
          commandsInfo'[c] \in Entry /\ commandsInfo'[c].cmd = commandsInfo[c].cmd
    /\ db' \in DB
    /\ \A q \in Requests : hasRequest(db', q) =>
          hasRequest(db, q) /\ db'.Request[q].cmdID = db.Request[q].cmdID
    /\ \A q \in Requests :
          hasRequest(db', q) /\ db'.Request[q].state = REQUEST_STATE_IN_PROCESSING =>
          /\ db.Request[q].state = REQUEST_STATE_IN_PROCESSING
          /\ c \in DOMAIN commandsInfo => db.Request[q].cmdID # c
    /\ ActiveIsListed'

LEMMA TakeRplyTablesLemma ==
    ASSUME TypeOK, TablesInv, TakeRply
    PROVE  TablesInv' /\ UNCHANGED <<submitted, inMediator>>
  <1> DEFINE m == Head(orchestratorQueue)
             c == m.id
             r == c[1]
             recorded == addCmdRply(changeCmdState(commandsInfo, c, m.cmdState), c, m)
  <1>1. /\ m \in SentMsg /\ m.kind = "rply"
        /\ \A b : RplyIn(b) /\ b # c => RplyIn(b)'
    BY TakeLemma DEF TakeRply
  <1>2. /\ c \in SentCmd /\ r \in Sent /\ r \in Requests
        /\ m.cmdState \in {CMD_STATE_SUCCESSFUL, CMD_STATE_FAIL}
    BY <1>1, MsgLemma DEF Sent
  <1>3. /\ UNCHANGED <<submitted, inMediator>>
        /\ \/ c \notin DOMAIN commandsInfo /\ UNCHANGED <<db, commandsInfo>>
           \/ /\ c \in DOMAIN commandsInfo /\ RequestsByCmdID(db, c) = {}
              /\ commandsInfo' = recorded /\ UNCHANGED db
           \/ /\ c \in DOMAIN commandsInfo /\ r \in RequestsByCmdID(db, c)
              /\ db' = cmdRplyHandler(db, r, submitted[r], m.cmdState)
              /\ commandsInfo' = recorded \/ commandsInfo' = delCmdwithChildCmd(recorded, c)
    BY DEF TakeRply, tableVars, serverVars, clientVars, hasCmd
  <1>4. Sent' = Sent /\ SentCmd' = SentCmd
    BY <1>3 DEF Sent, SentCmd
  <1>5. /\ db \in DB /\ DOMAIN commandsInfo \subseteq SentCmd /\ inMediator \subseteq SentCmd
        /\ CmdIDsAreOwn /\ EntriesAreOwn /\ RequestsAreAwaited /\ ActiveIsListed
    BY DEF TablesInv
  <1>6. c \in DOMAIN commandsInfo =>
           /\ DOMAIN recorded = DOMAIN commandsInfo
           /\ \A b \in DOMAIN commandsInfo : b # c => recorded[b] = commandsInfo[b]
           /\ recorded[c] \in Entry /\ recorded[c].cmd = commandsInfo[c].cmd
    BY <1>1, <1>5, recordedLemma
  <1> HIDE DEF m, c, r, recorded
  <1>7. ASSUME RplyTables(c)
        PROVE  TablesInv'
    <2>1. CmdIDsAreOwn'
      BY <1>4, <1>5, <1>7 DEF CmdIDsAreOwn, RplyTables
    <2>2. EntriesAreOwn'
      BY <1>3, <1>5, <1>7 DEF EntriesAreOwn, RplyTables
    <2>3. RequestsAreAwaited'
      <3> SUFFICES ASSUME NEW q \in Requests, hasRequest(db', q),
                          db'.Request[q].state = REQUEST_STATE_IN_PROCESSING,
                          NEW b, b = db'.Request[q].cmdID
                   PROVE  b \in DOMAIN commandsInfo' /\ (b \in inMediator' \/ RplyIn(b)')
        BY DEF RequestsAreAwaited, Awaited, hasCmd, RplyIn
      <3>1. /\ hasRequest(db, q) /\ b = db.Request[q].cmdID
            /\ db.Request[q].state = REQUEST_STATE_IN_PROCESSING
            /\ c \in DOMAIN commandsInfo => b # c
        BY <1>7 DEF RplyTables
      <3>2. Awaited(b)
        BY <1>5, <3>1 DEF RequestsAreAwaited
      <3>3. b \in DOMAIN commandsInfo /\ (b \in inMediator \/ RplyIn(b)) /\ b # c
        BY <3>1, <3>2, AwaitedLemma
      <3>4. QED BY <1>1, <1>3, <1>7, <3>3 DEF RplyTables
    <2>4. QED BY <1>3, <1>4, <1>5, <1>7, <2>1, <2>2, <2>3 DEF TablesInv, RplyTables
  <1>8. CASE c \notin DOMAIN commandsInfo /\ UNCHANGED <<db, commandsInfo>>
    <2>1. ActiveIsListed'
      BY <1>5, <1>8 DEF ActiveIsListed
    <2>2. RplyTables(c)
      BY <1>5, <1>8, <2>1 DEF RplyTables, EntriesAreOwn
    <2>3. QED BY <1>3, <1>7, <2>2
  <1>9. CASE /\ c \in DOMAIN commandsInfo /\ RequestsByCmdID(db, c) = {}
             /\ commandsInfo' = recorded /\ UNCHANGED db
    <2>1. ActiveIsListed'
      BY <1>5, <1>9 DEF ActiveIsListed
    <2>2. DOMAIN db.Request = Requests
      BY <1>5 DEF DB
    <2>3. \A q \in Requests : hasRequest(db, q) => db.Request[q].cmdID # c
      BY <1>9, <2>2 DEF RequestsByCmdID
    <2>4. RplyTables(c)
      BY <1>5, <1>6, <1>9, <2>1, <2>3 DEF RplyTables
    <2>5. QED BY <1>3, <1>7, <2>4
  <1>10. CASE /\ c \in DOMAIN commandsInfo /\ r \in RequestsByCmdID(db, c)
              /\ db' = cmdRplyHandler(db, r, submitted[r], m.cmdState)
              /\ commandsInfo' = recorded \/ commandsInfo' = delCmdwithChildCmd(recorded, c)
    <2>1. hasRequest(db, r) /\ db.Request[r].cmdID = c
      BY <1>10 DEF RequestsByCmdID
    <2>2. RplyWritten(r)
      BY <1>2, <1>10, <2>1, RplyWrittenLemma
    <2>3. /\ DOMAIN commandsInfo' \subseteq DOMAIN commandsInfo
          /\ \A b \in DOMAIN commandsInfo :
                b # c => b \in DOMAIN commandsInfo' /\ commandsInfo'[b] = commandsInfo[b]
          /\ c \in DOMAIN commandsInfo' =>
                commandsInfo'[c] \in Entry /\ commandsInfo'[c].cmd = commandsInfo[c].cmd
      <3>1. CASE commandsInfo' = recorded
        BY <1>6, <1>10, <3>1
      <3>2. CASE commandsInfo' = delCmdwithChildCmd(recorded, c)
        <4>1. /\ DOMAIN commandsInfo' = DOMAIN recorded \ {c}
              /\ \A b \in DOMAIN commandsInfo' : commandsInfo'[b] = recorded[b]
          BY <1>6, <1>10, <3>2, delCmdLemma
        <4>2. QED BY <1>6, <1>10, <4>1
      <3>3. QED BY <1>10, <3>1, <3>2
    <2>4. ActiveIsListed'
      BY <1>5, <2>2, ListedLemma DEF RplyWritten
    <2>5. /\ db' \in DB
          /\ \A q \in Requests : hasRequest(db', q) =>
                hasRequest(db, q) /\ db'.Request[q].cmdID = db.Request[q].cmdID
      BY <2>1, <2>2 DEF RplyWritten, hasRequest
    <2>6. ASSUME NEW q \in Requests, hasRequest(db', q),
                 db'.Request[q].state = REQUEST_STATE_IN_PROCESSING
          PROVE  db.Request[q].state = REQUEST_STATE_IN_PROCESSING /\ db.Request[q].cmdID # c
      <3>1. q # r
        BY <2>2, <2>6 DEF RplyWritten, REQUEST_STATE_IN_PROCESSING, REQUEST_STATE_SUCCESSFUL,
                          REQUEST_STATE_FAILED
      <3>2. db'.Request[q] = db.Request[q] /\ hasRequest(db, q)
        BY <2>2, <2>6, <3>1 DEF RplyWritten, hasRequest
      <3>3. db.Request[q].cmdID = None \/ db.Request[q].cmdID[1] = q
        BY <1>5, <3>2 DEF CmdIDsAreOwn
      <3>4. c # None
        <4>1. c \in CmdID
          BY <1>2, SentLemma
        <4>2. QED BY <4>1, NoneAssumption
      <3>5. QED BY <2>6, <3>1, <3>2, <3>3, <3>4 DEF r
    <2>7. RplyTables(c)
      BY <2>3, <2>4, <2>5, <2>6 DEF RplyTables
    <2>8. QED BY <1>3, <1>7, <2>7
  <1>11. QED BY <1>3, <1>8, <1>9, <1>10
-----------------------------------------------------------------------------
(***************************************************************************)
(* Every step.                                                             *)
(***************************************************************************)
AllInv == TypeOK /\ LoopInv /\ TablesInv

LEMMA InitLemma ==
    ASSUME Init
    PROVE  AllInv
  <1>0. Sent = {} /\ DOMAIN commandsInfo = {}
    BY DEF Init, Sent, NoCommands
  <1>1. db \in DB /\ db.Request = [r \in Requests |-> None] /\ db.SFCI = [i \in SFCIs |-> None]
    BY DEF Init, DB
  <1>2. orchestratorQueue \in Seq(SentMsg)
    <2> DEFINE m == [kind |-> "cmd", id |-> "TURN_ON"]
    <2>1. m \in SentMsg
      BY DEF SentMsg, AllAdminCmds
    <2> HIDE DEF m
    <2>2. <<m>> \in Seq(SentMsg)
      BY <2>1
    <2>3. QED BY <2>2 DEF Init, m
  <1>3. \A r \in Requests : ~hasRequest(db, r)
    BY <1>1 DEF hasRequest
  <1>4. \A i \in SFCIs : ~hasSFCI(db, i)
    BY <1>1 DEF hasSFCI
  <1>5. TypeOK
    BY <1>0, <1>1, <1>2 DEF Init, TypeOK, Idle
  <1>6. TablesInv
    <2>1. inMediator = {}
      BY DEF Init
    <2>2. CmdIDsAreOwn /\ RequestsAreAwaited
      BY <1>3 DEF CmdIDsAreOwn, RequestsAreAwaited
    <2>3. EntriesAreOwn
      BY <1>0 DEF EntriesAreOwn
    <2>4. ActiveIsListed
      BY <1>4 DEF ActiveIsListed
    <2>5. QED BY <1>0, <1>1, <2>1, <2>2, <2>3, <2>4 DEF TablesInv
  <1>7. LoopInv
    BY DEF Init, LoopInv
  <1>8. QED BY <1>5, <1>6, <1>7 DEF AllInv

LEMMA SameSentLemma ==
    ASSUME UNCHANGED submitted
    PROVE  Sent' = Sent /\ SentSFCI' = SentSFCI /\ SentCmd' = SentCmd /\ SentMsg' = SentMsg
  <1>1. Sent' = Sent
    BY DEF Sent
  <1>2. QED BY <1>1 DEF SentSFCI, SentCmd, SentMsg

\* The type invariant, for a step that submits no request.
LEMMA SameSentTypeOK ==
    ASSUME UNCHANGED submitted, submitted \in [Requests -> Request \cup {None}],
           db' \in DB, DOMAIN commandsInfo' \subseteq SentCmd,
           orchestratorQueue' \in Seq(SentMsg), requestBatchQueue' \in Seq(SentSFCI),
           batch' \subseteq Pos \X SentSFCI, requestWaitingQueue' \in Seq(Sent),
           phase' \in {"recv", "timer", "waiting", "stopped"},
           regulator' \in [task : {"none"}] \cup [task : {"retry"}, todo : SUBSET Sent]
                     \cup [task : {"update"}, sfc : SFCs, newState : {STATE_ACTIVE, STATE_MANUAL}],
           cmdCnt' \in [Requests -> Nat], inMediator' \subseteq SentCmd,
           redeliveries' \in Nat, scenario' \in Scenarios
    PROVE  TypeOK'
  BY SameSentLemma DEF TypeOK

\* _requestHandler, on a request from the queue or from those that waited.
LEMMA RequestHandlerLemma ==
    ASSUME TypeOK, TablesInv, NEW r \in Sent, RequestHandler(r),
           \A c : RplyIn(c) => RplyIn(c)'
    PROVE  /\ TablesInv'
           /\ DOMAIN commandsInfo' \subseteq SentCmd /\ inMediator' \subseteq SentCmd /\ db' \in DB
           /\ cmdCnt' \in [Requests -> Nat]
           /\ requestBatchQueue' \in Seq(SentSFCI)
           /\ batch' \subseteq Pos \X SentSFCI
           /\ UNCHANGED <<submitted, redeliveries, scenario, regulator, runningState>>
  <1>0. /\ UNCHANGED <<submitted, redeliveries, scenario, regulator, runningState>>
        /\ \/ HandleAddSFCI(r)
           \/ HandleAddSFC(r) \/ HandleDelSFCI(r) \/ HandleDelSFC(r) \/ HandleRaises(r)
    BY DEF RequestHandler, clientVars
  <1>1. /\ cmdCnt \in [Requests -> Nat] /\ requestBatchQueue \in Seq(SentSFCI)
        /\ batch \subseteq Pos \X SentSFCI /\ inMediator \subseteq SentCmd
    BY DEF TypeOK
  <1>2. SentCmd' = SentCmd
    BY <1>0, SameSentLemma
  <1>3. CASE HandleAddSFCI(r)
    <2>1. /\ RequestsWritten(Sent) /\ UNCHANGED <<commandsInfo, inMediator, cmdCnt>>
          /\ requestBatchQueue' \in Seq(SentSFCI) /\ batch' \subseteq Pos \X SentSFCI
      BY <1>3, AddSFCILemma
    <2>2. TablesInv'
      BY <1>0, <1>1, <2>1, WrittenTablesLemma
    <2>3. QED BY <1>0, <1>1, <1>2, <2>1, <2>2 DEF TablesInv
  <1>4. CASE HandleAddSFC(r) \/ HandleDelSFCI(r) \/ HandleDelSFC(r) \/ HandleRaises(r)
    <2>1. Handled(r) /\ UNCHANGED <<requestBatchQueue, batch>>
      BY <1>4, HandledLemma
    <2>2. TablesInv'
      BY <1>0, <2>1, HandledTablesLemma
    <2>3. cmdCnt' \in [Requests -> Nat]
      BY <2>1 DEF Handled
    <2>4. QED BY <1>0, <1>1, <1>2, <2>1, <2>2, <2>3 DEF TablesInv
  <1>5. QED BY <1>0, <1>3, <1>4

\* Steps that leave the tables alone and lose no reply.
LEMMA SameTablesLemma ==
    ASSUME TypeOK, TablesInv, UNCHANGED <<db, commandsInfo, submitted>>,
           inMediator' \subseteq SentCmd,
           \A c \in DOMAIN commandsInfo :
                c \in inMediator \/ RplyIn(c) => c \in inMediator' \/ RplyIn(c)'
    PROVE  TablesInv' /\ DOMAIN commandsInfo' \subseteq SentCmd /\ db' \in DB
  <1>1. RequestsWritten({})
    BY DEF RequestsWritten, TablesInv
  <1>2. QED BY <1>1, WrittenTablesLemma DEF TablesInv

\* A message is appended to the queue.
LEMMA AppendMsgLemma ==
    ASSUME TypeOK, NEW m \in SentMsg, orchestratorQueue' = Append(orchestratorQueue, m)
    PROVE  /\ orchestratorQueue' \in Seq(SentMsg)
           /\ \A c : RplyIn(c) => RplyIn(c)'
           /\ m.kind = "rply" => RplyIn(m.id)'
  <1>1. /\ orchestratorQueue' \in Seq(SentMsg)
        /\ \A k \in 1..Len(orchestratorQueue) :
              orchestratorQueue'[k] = orchestratorQueue[k] /\ k \in 1..Len(orchestratorQueue')
        /\ orchestratorQueue'[Len(orchestratorQueue) + 1] = m
        /\ Len(orchestratorQueue) + 1 \in 1..Len(orchestratorQueue')
    BY AppendLemma DEF TypeOK
  <1>2. QED BY <1>1 DEF RplyIn

LEMMA SubmitLemma ==
    ASSUME AllInv, NEW r \in Requests, NEW request \in Request, Submit(r, request)
    PROVE  AllInv'
  <1> DEFINE m == [kind |-> "request", id |-> r]
  <1>1. /\ TypeOK /\ LoopInv /\ TablesInv
    BY DEF AllInv
  <1>2. /\ submitted[r] = None /\ submitted' = [submitted EXCEPT ![r] = request]
        /\ orchestratorQueue' = Append(orchestratorQueue, m)
        /\ UNCHANGED <<requestBatchQueue, batch, requestWaitingQueue, phase, db, commandsInfo,
                       inMediator, redeliveries, scenario, regulator, cmdCnt>>
    BY DEF Submit, loopVars, tableVars, serverVars
  <1>3. /\ submitted' \in [Requests -> Request \cup {None}]
        /\ r \in Sent' /\ Sent \subseteq Sent' /\ r \notin Sent
        /\ \A q \in Sent : submitted'[q] = submitted[q]
    BY <1>1, <1>2, NoneAssumption DEF TypeOK, Sent
  <1>4. SentSFCI \subseteq SentSFCI' /\ SentCmd \subseteq SentCmd'
    BY <1>3 DEF SentSFCI, SentCmd
  <1>5. SentMsg \subseteq SentMsg'
    BY <1>3, <1>4 DEF SentMsg
  <1>6. m \in SentMsg'
    BY <1>3 DEF SentMsg
  <1> HIDE DEF m
  <1>7. orchestratorQueue \in Seq(SentMsg')
    BY <1>1, <1>5 DEF TypeOK
  <1>8. /\ orchestratorQueue' \in Seq(SentMsg')
        /\ \A k \in 1..Len(orchestratorQueue) :
              orchestratorQueue'[k] = orchestratorQueue[k] /\ k \in 1..Len(orchestratorQueue')
    BY <1>2, <1>6, <1>7, AppendLemma
  <1>9. \A c : RplyIn(c) => RplyIn(c)'
    BY <1>8 DEF RplyIn
  <1>10. TypeOK'
    <2>1. requestBatchQueue' \in Seq(SentSFCI') /\ requestWaitingQueue' \in Seq(Sent')
      BY <1>1, <1>2, <1>3, <1>4 DEF TypeOK
    <2>2. batch' \subseteq Pos \X SentSFCI'
      BY <1>1, <1>2, <1>4 DEF TypeOK
    <2>3. regulator' \in [task : {"none"}] \cup [task : {"retry"}, todo : SUBSET Sent']
               \cup [task : {"update"}, sfc : SFCs, newState : {STATE_ACTIVE, STATE_MANUAL}]
      BY <1>1, <1>2, <1>3 DEF TypeOK
    <2>4. DOMAIN commandsInfo' \subseteq SentCmd' /\ inMediator' \subseteq SentCmd'
      BY <1>1, <1>2, <1>4 DEF TypeOK
    <2>5. QED BY <1>1, <1>2, <1>3, <1>8, <2>1, <2>2, <2>3, <2>4 DEF TypeOK
  <1>11. LoopInv'
    BY <1>1, <1>2 DEF LoopInv
  <1>12. TablesInv'
    <2>1. CmdIDsAreOwn'
      BY <1>1, <1>2, <1>3, <1>4 DEF TablesInv, CmdIDsAreOwn
    <2>2. EntriesAreOwn'
      <3> SUFFICES ASSUME NEW c \in DOMAIN commandsInfo
                   PROVE  commandsInfo[c] \in Entry /\ commandsInfo[c].cmd = submitted'[c[1]]
        BY <1>2 DEF EntriesAreOwn
      <3>1. c[1] \in Sent
        BY <1>1 DEF TablesInv, SentCmd
      <3>2. QED BY <1>1, <1>3, <3>1 DEF TablesInv, EntriesAreOwn
    <2>3. RequestsAreAwaited'
      <3> SUFFICES ASSUME NEW q \in Requests, hasRequest(db', q),
                          db'.Request[q].state = REQUEST_STATE_IN_PROCESSING,
                          NEW c, c = db'.Request[q].cmdID
                   PROVE  c \in DOMAIN commandsInfo' /\ (c \in inMediator' \/ RplyIn(c)')
        BY DEF RequestsAreAwaited, Awaited, hasCmd, RplyIn
      <3>1. Awaited(c)
        BY <1>1, <1>2 DEF TablesInv, RequestsAreAwaited
      <3>2. QED BY <1>2, <1>9, <3>1, AwaitedLemma
    <2>4. ActiveIsListed'
      BY <1>1, <1>2 DEF TablesInv, ActiveIsListed
    <2>5. QED BY <1>1, <1>2, <1>4, <2>1, <2>2, <2>3, <2>4 DEF TablesInv
  <1>13. QED BY <1>10, <1>11, <1>12 DEF AllInv

LEMMA AroundLemma ==
    ASSUME AllInv,
           \/ \E c \in AllAdminCmds : SendAdminCmd(c)
           \/ \E c \in inMediator : MediatorAnswer(c)
           \/ Redeliver
    PROVE  AllInv'
  <1>1. /\ TypeOK /\ LoopInv /\ TablesInv
    BY DEF AllInv
  <1>2. /\ UNCHANGED <<requestBatchQueue, batch, requestWaitingQueue, phase, db, commandsInfo,
                       scenario, regulator, cmdCnt, submitted>>
    BY DEF SendAdminCmd, MediatorAnswer, Redeliver, loopVars, tableVars, serverVars, clientVars
  <1>3. ASSUME orchestratorQueue' \in Seq(SentMsg), inMediator' \subseteq inMediator,
               redeliveries' \in Nat,
               \A c \in DOMAIN commandsInfo :
                    c \in inMediator \/ RplyIn(c) => c \in inMediator' \/ RplyIn(c)'
        PROVE  AllInv'
    <2>1. inMediator' \subseteq SentCmd
      BY <1>1, <1>3 DEF TypeOK
    <2>2. TablesInv' /\ DOMAIN commandsInfo' \subseteq SentCmd /\ db' \in DB
      BY <1>1, <1>2, <1>3, <2>1, SameTablesLemma
    <2>3. TypeOK'
      <3>1. /\ submitted \in [Requests -> Request \cup {None}]
            /\ requestBatchQueue' \in Seq(SentSFCI) /\ batch' \subseteq Pos \X SentSFCI
            /\ requestWaitingQueue' \in Seq(Sent)
            /\ phase' \in {"recv", "timer", "waiting", "stopped"}
            /\ cmdCnt' \in [Requests -> Nat] /\ scenario' \in Scenarios
        BY <1>1, <1>2 DEF TypeOK
      <3>2. regulator' \in [task : {"none"}] \cup [task : {"retry"}, todo : SUBSET Sent]
               \cup [task : {"update"}, sfc : SFCs, newState : {STATE_ACTIVE, STATE_MANUAL}]
        BY <1>1, <1>2 DEF TypeOK
      <3>3. QED BY <1>2, <1>3, <2>1, <2>2, <3>1, <3>2, SameSentTypeOK
    <2>4. LoopInv'
      BY <1>1, <1>2 DEF LoopInv
    <2>5. QED BY <2>2, <2>3, <2>4 DEF AllInv
  <1>4. ASSUME NEW c \in AllAdminCmds, SendAdminCmd(c)
        PROVE  AllInv'
    <2> DEFINE m == [kind |-> "cmd", id |-> c]
    <2>1. /\ orchestratorQueue' = Append(orchestratorQueue, m)
          /\ UNCHANGED <<inMediator, redeliveries>>
      BY <1>4 DEF SendAdminCmd, serverVars
    <2>2. m \in SentMsg
      BY DEF SentMsg
    <2> HIDE DEF m
    <2>3. orchestratorQueue' \in Seq(SentMsg) /\ \A b : RplyIn(b) => RplyIn(b)'
      BY <1>1, <2>1, <2>2, AppendMsgLemma
    <2>4. inMediator' \subseteq inMediator /\ redeliveries' \in Nat
      BY <1>1, <2>1 DEF TypeOK
    <2>5. QED BY <1>3, <2>1, <2>3, <2>4
  <1>5. ASSUME NEW c \in inMediator, MediatorAnswer(c)
        PROVE  AllInv'
    <2>1. PICK cmdState \in {CMD_STATE_SUCCESSFUL, CMD_STATE_FAIL} :
              orchestratorQueue' =
                Append(orchestratorQueue, [kind |-> "rply", id |-> c, cmdState |-> cmdState])
      BY <1>5 DEF MediatorAnswer
    <2> DEFINE m == [kind |-> "rply", id |-> c, cmdState |-> cmdState]
    <2>2. m \in SentMsg /\ m.kind = "rply" /\ m.id = c /\ orchestratorQueue' = Append(orchestratorQueue, m)
      BY <1>1, <2>1 DEF SentMsg, TypeOK
    <2> HIDE DEF m
    <2>3. orchestratorQueue' \in Seq(SentMsg) /\ RplyIn(c)' /\ \A b : RplyIn(b) => RplyIn(b)'
      BY <1>1, <2>2, AppendMsgLemma
    <2>4. inMediator' = inMediator \ {c} /\ redeliveries' \in Nat
      BY <1>1, <1>5 DEF MediatorAnswer, clientVars, TypeOK
    <2>5. \A b \in DOMAIN commandsInfo :
             b \in inMediator \/ RplyIn(b) => b \in inMediator' \/ RplyIn(b)'
      BY <2>3, <2>4
    <2>6. QED BY <1>3, <2>3, <2>4, <2>5
  <1>6. CASE Redeliver
    <2>1. /\ orchestratorQueue' = <<Head(orchestratorQueue)>> \o orchestratorQueue
          /\ orchestratorQueue # <<>> /\ orchestratorQueue \in Seq(SentMsg)
          /\ inMediator' = inMediator /\ redeliveries' \in Nat
      BY <1>1, <1>6 DEF Redeliver, serverVars, TypeOK
    <2>2. /\ orchestratorQueue' \in Seq(SentMsg)
          /\ \A k \in 1..Len(orchestratorQueue) :
                k + 1 \in 1..Len(orchestratorQueue') /\ orchestratorQueue'[k + 1] = orchestratorQueue[k]
      <3> DEFINE h == Head(orchestratorQueue)
      <3>1. h \in SentMsg
        BY <2>1
      <3> HIDE DEF h
      <3>2. QED BY <2>1, <3>1 DEF h
    <2>3. \A c : RplyIn(c) => RplyIn(c)'
      <3> SUFFICES ASSUME NEW c, RplyIn(c) PROVE RplyIn(c)'
        OBVIOUS
      <3>1. PICK n \in 1..Len(orchestratorQueue) :
                orchestratorQueue[n].kind = "rply" /\ orchestratorQueue[n].id = c
        BY DEF RplyIn
      <3>2. n + 1 \in 1..Len(orchestratorQueue') /\ orchestratorQueue'[n + 1] = orchestratorQueue[n]
        BY <2>2
      <3>3. QED BY <3>1, <3>2 DEF RplyIn
    <2>4. QED BY <1>3, <2>1, <2>2, <2>3
  <1>7. QED BY <1>4, <1>5, <1>6

\* Steps of the loop that change neither the tables nor what the batch holds.
LEMMA LoopLemma ==
    ASSUME AllInv, PostponeRequest \/ TakeCmd \/ TakeRply \/ NoMsg \/ NoTimeout
    PROVE  AllInv'
  <1>1. TypeOK /\ LoopInv /\ TablesInv
    BY DEF AllInv
  <1>2. UNCHANGED <<submitted, requestBatchQueue, batch, inMediator, redeliveries, scenario,
                    regulator, cmdCnt>>
    BY DEF PostponeRequest, TakeCmd, TakeRply, NoMsg, NoTimeout, serverVars, clientVars
  <1>3. ASSUME TablesInv', orchestratorQueue' \in Seq(SentMsg), requestWaitingQueue' \in Seq(Sent),
               phase' \in {"recv", "timer", "waiting", "stopped"}, LoopInv'
        PROVE  AllInv'
    <2>1. SentCmd' = SentCmd
      BY <1>2, SameSentLemma
    <2>2. DOMAIN commandsInfo' \subseteq SentCmd /\ inMediator' \subseteq SentCmd /\ db' \in DB
      BY <1>3, <2>1 DEF TablesInv
    <2>3. /\ submitted \in [Requests -> Request \cup {None}]
          /\ requestBatchQueue' \in Seq(SentSFCI) /\ batch' \subseteq Pos \X SentSFCI
          /\ cmdCnt' \in [Requests -> Nat] /\ scenario' \in Scenarios /\ redeliveries' \in Nat
      BY <1>1, <1>2 DEF TypeOK
    <2>4. regulator' \in [task : {"none"}] \cup [task : {"retry"}, todo : SUBSET Sent]
             \cup [task : {"update"}, sfc : SFCs, newState : {STATE_ACTIVE, STATE_MANUAL}]
      BY <1>1, <1>2 DEF TypeOK
    <2>5. TypeOK'
      BY <1>2, <1>3, <2>2, <2>3, <2>4, SameSentTypeOK
    <2>6. QED BY <1>3, <2>5 DEF AllInv
  <1>4. CASE PostponeRequest
    <2> DEFINE m == Head(orchestratorQueue)
    <2>1. /\ m \in SentMsg /\ m.kind = "request" /\ orchestratorQueue' \in Seq(SentMsg)
          /\ phase' = "timer" /\ \A c : RplyIn(c) => RplyIn(c)'
      BY <1>1, <1>4, TakeLemma DEF PostponeRequest
    <2>2. requestWaitingQueue' \in Seq(Sent)
      BY <1>1, <1>4, <2>1, MsgLemma, AppendLemma DEF PostponeRequest, TypeOK
    <2>3. TablesInv'
      BY <1>1, <1>2, <1>4, <2>1, SameTablesLemma DEF PostponeRequest, tableVars, TypeOK
    <2>4. QED BY <1>3, <2>1, <2>2, <2>3 DEF LoopInv
  <1>5. CASE TakeCmd
    <2>1. /\ orchestratorQueue' \in Seq(SentMsg)
          /\ phase' = "timer" /\ \A c : RplyIn(c) => RplyIn(c)'
      BY <1>1, <1>5, TakeLemma DEF TakeCmd
    <2>2. requestWaitingQueue' \in Seq(Sent)
      BY <1>1, <1>5 DEF TakeCmd, TypeOK
    <2>3. TablesInv'
      BY <1>1, <1>2, <1>5, <2>1, SameTablesLemma DEF TakeCmd, tableVars, TypeOK
    <2>4. QED BY <1>3, <2>1, <2>2, <2>3 DEF LoopInv
  <1>6. CASE TakeRply
    <2>1. orchestratorQueue' \in Seq(SentMsg) /\ phase' = "timer"
      BY <1>1, <1>6, TakeLemma DEF TakeRply
    <2>2. requestWaitingQueue' \in Seq(Sent)
      BY <1>1, <1>6 DEF TakeRply, TypeOK
    <2>3. TablesInv'
      BY <1>1, <1>6, TakeRplyTablesLemma
    <2>4. QED BY <1>3, <2>1, <2>2, <2>3 DEF LoopInv
  <1>7. CASE NoMsg \/ NoTimeout
    <2>1. /\ UNCHANGED <<orchestratorQueue, requestWaitingQueue, db, commandsInfo, runningState>>
          /\ phase' \in {"stopped", "timer"} \/ phase' = AfterTimer
      BY <1>7 DEF NoMsg, NoTimeout, tableVars
    <2>2. LoopInv' /\ phase' \in {"recv", "timer", "waiting", "stopped"}
      BY <2>1 DEF LoopInv, AfterTimer
    <2>3. orchestratorQueue' \in Seq(SentMsg) /\ requestWaitingQueue' \in Seq(Sent)
      BY <1>1, <2>1 DEF TypeOK
    <2>4. \A c : RplyIn(c) => RplyIn(c)'
      BY <2>1 DEF RplyIn
    <2>5. TablesInv'
      BY <1>1, <1>2, <2>1, <2>4, SameTablesLemma DEF TypeOK
    <2>6. QED BY <1>3, <2>2, <2>3, <2>5
  <1>8. QED BY <1>4, <1>5, <1>6, <1>7

\* The entry of the batch is the first one and is handled.
BatchEntry(entry) ==
    /\ \A other \in batch : entry[1] <= other[1]
    /\ batch' = batch \ {entry}
    /\ LET r == entry[2]
           i == submitted[r].sfci
       IN  \/ /\ GenCmd(r)
              /\ db' = addSFCIRequestHandler(db, r, i, NextCmdID(r), REQUEST_STATE_IN_PROCESSING)
              /\ IF isAddSFCIValidState(db, i) THEN SendCmd(r) ELSE SendNothing
           \/ /\ db' = addSFCIRequestHandlerNoCmd(db, r, i)
              /\ SendNothing
              /\ UNCHANGED cmdCnt

\* Steps of the loop that handle requests.
LEMMA HandleLemma ==
    ASSUME AllInv, TakeRequest \/ TakeWaitingRequest \/ BatchTimeout \/ BatchStep
    PROVE  AllInv'
  <1>1. TypeOK /\ LoopInv /\ TablesInv
    BY DEF AllInv
  <1>2. UNCHANGED <<submitted, redeliveries, scenario, regulator, runningState>>
    BY DEF TakeRequest, TakeWaitingRequest, BatchTimeout, BatchStep, RequestHandler, clientVars
  <1>3. ASSUME TablesInv', orchestratorQueue' \in Seq(SentMsg), requestWaitingQueue' \in Seq(Sent),
               requestBatchQueue' \in Seq(SentSFCI), batch' \subseteq Pos \X SentSFCI,
               cmdCnt' \in [Requests -> Nat],
               phase' \in {"recv", "timer", "waiting", "stopped"}, LoopInv'
        PROVE  AllInv'
    <2>1. SentCmd' = SentCmd
      BY <1>2, SameSentLemma
    <2>2. DOMAIN commandsInfo' \subseteq SentCmd /\ inMediator' \subseteq SentCmd /\ db' \in DB
      BY <1>3, <2>1 DEF TablesInv
    <2>3. /\ submitted \in [Requests -> Request \cup {None}]
          /\ scenario' \in Scenarios /\ redeliveries' \in Nat
      BY <1>1, <1>2 DEF TypeOK
    <2>4. regulator' \in [task : {"none"}] \cup [task : {"retry"}, todo : SUBSET Sent]
             \cup [task : {"update"}, sfc : SFCs, newState : {STATE_ACTIVE, STATE_MANUAL}]
      BY <1>1, <1>2 DEF TypeOK
    <2>5. TypeOK'
      BY <1>2, <1>3, <2>2, <2>3, <2>4, SameSentTypeOK
    <2>6. QED BY <1>3, <2>5 DEF AllInv
  <1>4. CASE TakeRequest
    <2> DEFINE m == Head(orchestratorQueue)
               r == m.id
    <2>1. /\ m \in SentMsg /\ m.kind = "request" /\ orchestratorQueue' \in Seq(SentMsg)
          /\ phase' = "timer" /\ \A c : RplyIn(c) => RplyIn(c)'
      BY <1>1, <1>4, TakeLemma DEF TakeRequest
    <2>2. r \in Sent /\ RequestHandler(r)
      BY <1>4, <2>1, MsgLemma DEF TakeRequest
    <2> HIDE DEF r
    <2>3. /\ TablesInv' /\ cmdCnt' \in [Requests -> Nat]
          /\ requestBatchQueue' \in Seq(SentSFCI) /\ batch' \subseteq Pos \X SentSFCI
      BY <1>1, <2>1, <2>2, RequestHandlerLemma
    <2>4. requestWaitingQueue' \in Seq(Sent) /\ LoopInv'
      BY <1>1, <1>4, <2>1 DEF TakeRequest, TypeOK, LoopInv
    <2>5. QED BY <1>3, <2>1, <2>3, <2>4
  <1>5. CASE TakeWaitingRequest
    <2> DEFINE r == Head(requestWaitingQueue)
    <2>1. /\ phase = "waiting" /\ RequestHandler(r) /\ UNCHANGED orchestratorQueue
          /\ requestWaitingQueue' = Tail(requestWaitingQueue)
          /\ phase' = IF Len(requestWaitingQueue) = 1 THEN "recv" ELSE "waiting"
      BY <1>5 DEF TakeWaitingRequest
    <2>2. requestWaitingQueue # <<>> /\ requestWaitingQueue \in Seq(Sent)
          /\ orchestratorQueue' \in Seq(SentMsg)
      BY <1>1, <2>1 DEF LoopInv, TypeOK
    <2>3. /\ r \in Sent /\ requestWaitingQueue' \in Seq(Sent)
          /\ Len(requestWaitingQueue') = Len(requestWaitingQueue) - 1
          /\ Len(requestWaitingQueue) \in Nat
      BY <2>1, <2>2, TailLemma DEF Pos
    <2> HIDE DEF r
    <2>4. \A c : RplyIn(c) => RplyIn(c)'
      BY <2>1 DEF RplyIn
    <2>5. /\ TablesInv' /\ cmdCnt' \in [Requests -> Nat]
          /\ requestBatchQueue' \in Seq(SentSFCI) /\ batch' \subseteq Pos \X SentSFCI
      BY <1>1, <2>1, <2>3, <2>4, RequestHandlerLemma
    <2>6. LoopInv' /\ phase' \in {"recv", "timer", "waiting", "stopped"}
      <3>1. CASE Len(requestWaitingQueue) = 1
        BY <2>1, <3>1 DEF LoopInv
      <3>2. CASE Len(requestWaitingQueue) # 1
        <4>1. Len(requestWaitingQueue') # 0
          BY <2>3, <3>2
        <4>2. requestWaitingQueue' # <<>>
          BY <4>1
        <4>3. QED BY <2>1, <3>2, <4>2 DEF LoopInv
      <3>3. QED BY <3>1, <3>2
    <2>7. QED BY <1>3, <2>2, <2>3, <2>5, <2>6
  <1>6. CASE BatchTimeout
    <2>1. /\ UNCHANGED <<orchestratorQueue, requestWaitingQueue>>
          /\ requestBatchQueue \in Seq(SentSFCI)
          /\ \/ MapBatch(requestBatchQueue) /\ phase' = AfterTimer
             \/ /\ MapBatchRaises(requestBatchQueue, WithRejected(requestBatchQueue))
                /\ phase' = "recv"
      BY <1>1, <1>6 DEF BatchTimeout, TypeOK
    <2>2. LoopInv' /\ phase' \in {"recv", "timer", "waiting", "stopped"}
      BY <2>1 DEF LoopInv, AfterTimer
    <2>3. /\ RequestsWritten(Sent) /\ UNCHANGED <<commandsInfo, inMediator, cmdCnt>>
          /\ requestBatchQueue' \in Seq(SentSFCI) /\ batch' \subseteq Pos \X SentSFCI
      <3>1. CASE MapBatch(requestBatchQueue)
        BY <1>1, <2>1, <3>1, MapBatchLemma
      <3>2. CASE MapBatchRaises(requestBatchQueue, WithRejected(requestBatchQueue))
        <4>1. /\ db' = WithRejected(requestBatchQueue) /\ requestBatchQueue' = <<>>
              /\ UNCHANGED <<commandsInfo, inMediator, cmdCnt, batch>>
          BY <3>2 DEF MapBatchRaises, SendNothing
        <4>2. WroteRejected(db', requestBatchQueue)
          BY <1>1, <2>1, <4>1, WithRejectedLemma
        <4>3. RequestsWritten(Sent)
          BY <1>1, <2>1, <4>2, RejectedLemma DEF RequestsWritten
        <4>4. QED BY <1>1, <4>1, <4>3 DEF TypeOK
      <3>3. QED BY <2>1, <3>1, <3>2
    <2>4. /\ orchestratorQueue' \in Seq(SentMsg) /\ requestWaitingQueue' \in Seq(Sent)
          /\ cmdCnt' \in [Requests -> Nat] /\ inMediator' \subseteq SentCmd
      BY <1>1, <2>1, <2>3 DEF TypeOK
    <2>5. \A c : RplyIn(c) => RplyIn(c)'
      BY <2>1 DEF RplyIn
    <2>6. TablesInv'
      BY <1>1, <1>2, <2>3, <2>4, <2>5, WrittenTablesLemma
    <2>7. QED BY <1>3, <2>2, <2>3, <2>4, <2>6
  <1>7. CASE BatchStep
    <2>1. PICK entry \in batch : BatchEntry(entry)
      BY <1>7 DEF BatchStep, BatchEntry
    <2> DEFINE r == entry[2]
    <2>2. r \in SentSFCI /\ r \in Sent
      BY <1>1 DEF TypeOK, SentSFCI
    <2>3. Handled(r) /\ batch' = batch \ {entry}
      BY <1>1, <2>1, <2>2, HandledBatchLemma DEF BatchEntry
    <2> HIDE DEF r
    <2>4. UNCHANGED <<requestBatchQueue, requestWaitingQueue, phase, orchestratorQueue>>
      BY <1>7 DEF BatchStep
    <2>5. \A c : RplyIn(c) => RplyIn(c)'
      BY <2>4 DEF RplyIn
    <2>6. TablesInv'
      BY <1>1, <1>2, <2>2, <2>3, <2>5, HandledTablesLemma
    <2>7. cmdCnt' \in [Requests -> Nat]
      BY <2>3 DEF Handled
    <2>8. /\ orchestratorQueue' \in Seq(SentMsg) /\ requestWaitingQueue' \in Seq(Sent)
          /\ requestBatchQueue' \in Seq(SentSFCI) /\ batch' \subseteq Pos \X SentSFCI
          /\ phase' \in {"recv", "timer", "waiting", "stopped"} /\ LoopInv'
      BY <1>1, <2>3, <2>4 DEF TypeOK, LoopInv
    <2>9. QED BY <1>3, <2>6, <2>7, <2>8
  <1>8. QED BY <1>4, <1>5, <1>6, <1>7

\* The regulator's reads and writes.
LEMMA RegulatorLemma ==
    ASSUME AllInv, Regulator
    PROVE  AllInv'
  <1> DEFINE Reg == [task : {"none"}] \cup [task : {"retry"}, todo : SUBSET Sent]
                    \cup [task : {"update"}, sfc : SFCs, newState : {STATE_ACTIVE, STATE_MANUAL}]
  <1>1. TypeOK /\ LoopInv /\ TablesInv
    BY DEF AllInv
  <1>2. UNCHANGED <<submitted, requestBatchQueue, batch, requestWaitingQueue, phase, commandsInfo,
                    inMediator, redeliveries, scenario, cmdCnt>>
    BY DEF Regulator, RetryRead, RetryWrite, UpdateRead, UpdateWrite, loopVars, tableVars, serverVars,
           clientVars
  <1>3. ASSUME TablesInv', orchestratorQueue' \in Seq(SentMsg), regulator' \in Reg
        PROVE  AllInv'
    <2>1. SentCmd' = SentCmd
      BY <1>2, SameSentLemma
    <2>2. DOMAIN commandsInfo' \subseteq SentCmd /\ inMediator' \subseteq SentCmd /\ db' \in DB
      BY <1>3, <2>1 DEF TablesInv
    <2>3. /\ submitted \in [Requests -> Request \cup {None}]
          /\ requestBatchQueue' \in Seq(SentSFCI) /\ batch' \subseteq Pos \X SentSFCI
          /\ requestWaitingQueue' \in Seq(Sent) /\ phase' \in {"recv", "timer", "waiting", "stopped"}
          /\ cmdCnt' \in [Requests -> Nat] /\ scenario' \in Scenarios /\ redeliveries' \in Nat
      BY <1>1, <1>2 DEF TypeOK
    <2>4. TypeOK'
      BY <1>2, <1>3, <2>2, <2>3, SameSentTypeOK
    <2>5. LoopInv'
      BY <1>1, <1>2 DEF LoopInv
    <2>6. QED BY <1>3, <2>4, <2>5 DEF AllInv
  <1>4. regulator \in Reg /\ orchestratorQueue \in Seq(SentMsg) /\ inMediator \subseteq SentCmd
    BY <1>1 DEF TypeOK
  <1>5. CASE RetryRead
    <2> DEFINE failed == {r \in Requests : /\ hasRequest(db, r)
                                           /\ db.Request[r].state = REQUEST_STATE_FAILED
                                           /\ db.Request[r].retryCnt < MAX_RETRY_NUM}
    <2>1. /\ regulator' = [task |-> "retry", todo |-> failed]
          /\ UNCHANGED <<db, orchestratorQueue>>
      BY <1>5 DEF RetryRead, tableVars
    <2>2. failed \in SUBSET Sent
      BY <1>1 DEF TablesInv, CmdIDsAreOwn
    <2> HIDE DEF failed
    <2>3. regulator' \in Reg
      BY <2>1, <2>2
    <2>4. \A c : RplyIn(c) => RplyIn(c)'
      BY <2>1 DEF RplyIn
    <2>5. TablesInv'
      BY <1>1, <1>2, <1>4, <2>1, <2>4, SameTablesLemma
    <2>6. QED BY <1>3, <1>4, <2>1, <2>3, <2>5
  <1>6. ASSUME NEW r \in Requests, RetryWrite(r)
        PROVE  AllInv'
    <2> DEFINE m == [kind |-> "request", id |-> r]
               e == updateRequestState2DB(db, r, REQUEST_STATE_INITIAL)
    <2>1. /\ regulator.task = "retry" /\ r \in regulator.todo
          /\ db' = incRequestRetryCnt(e, r)
          /\ orchestratorQueue' = Append(orchestratorQueue, m)
          /\ regulator' = IF regulator.todo = {r} THEN [task |-> "none"]
                          ELSE [regulator EXCEPT !.todo = @ \ {r}]
      BY <1>6 DEF RetryWrite, Idle
    <2>2. regulator \in [task : {"retry"}, todo : SUBSET Sent] /\ r \in Sent
      BY <1>4, <2>1
    <2>3. regulator' \in Reg
      BY <2>1, <2>2
    <2>4. m \in SentMsg
      BY <2>2 DEF SentMsg
    <2>5. /\ WroteRequest(db, e, r, REQUEST_STATE_INITIAL)
          /\ IF hasRequest(db, r) THEN e.Request[r].cmdID = db.Request[r].cmdID
                                  ELSE e.Request[r].cmdID = None
      BY <1>1, updateRequestStateLemma DEF TypeOK, RequestState
    <2> HIDE DEF m, e
    <2>6. orchestratorQueue' \in Seq(SentMsg) /\ \A c : RplyIn(c) => RplyIn(c)'
      BY <1>1, <2>1, <2>4, AppendMsgLemma
    <2>7. e \in DB /\ hasRequest(e, r) /\ e.Request[r].state = REQUEST_STATE_INITIAL
      BY <2>5 DEF WroteRequest
    <2>8. WroteRequest(e, db', r, REQUEST_STATE_INITIAL) /\ db'.Request[r].cmdID = e.Request[r].cmdID
      BY <2>1, <2>7, incRequestRetryCntLemma
    <2>9. RequestsWritten(Sent)
      BY <2>2, <2>5, <2>8 DEF RequestsWritten, WroteRequest
    <2>10. TablesInv'
      BY <1>1, <1>2, <1>4, <2>6, <2>9, WrittenTablesLemma
    <2>11. QED BY <1>3, <2>3, <2>6, <2>10
  <1>7. ASSUME NEW s \in SFCs, NEW newState \in {STATE_ACTIVE, STATE_MANUAL}, UpdateRead(s, newState)
        PROVE  AllInv'
    <2>1. /\ regulator' = [task |-> "update", sfc |-> s, newState |-> newState]
          /\ UNCHANGED <<db, orchestratorQueue>>
      BY <1>7 DEF UpdateRead, tableVars
    <2>2. regulator' \in Reg
      BY <2>1
    <2>3. \A c : RplyIn(c) => RplyIn(c)'
      BY <2>1 DEF RplyIn
    <2>4. TablesInv'
      BY <1>1, <1>2, <1>4, <2>1, <2>3, SameTablesLemma
    <2>5. QED BY <1>3, <1>4, <2>1, <2>2, <2>4
  <1>8. CASE UpdateWrite
    <2> DEFINE s == regulator.sfc
    <2>1. /\ regulator.task = "update" /\ db' = updateSFCState(db, s, regulator.newState)
          /\ regulator' = [task |-> "none"] /\ UNCHANGED orchestratorQueue
      BY <1>8 DEF UpdateWrite, Idle
    <2>2. regulator.sfc \in SFCs /\ regulator.newState \in ResourceState
      BY <1>4, <2>1 DEF ResourceState
    <2>3. regulator' \in Reg
      BY <2>1
    <2>4. WroteSFC(db, db', s) /\ hasSFC(db', s) = hasSFC(db, s)
      BY <1>1, <2>1, <2>2, updateSFCStateLemma DEF TypeOK
    <2> HIDE DEF s
    <2>5. db' \in DB /\ db'.Request = db.Request /\ db'.SFCI = db.SFCI
      BY <2>4 DEF WroteSFC
    <2>6. ActiveIsListed'
      <3>1. \A t \in SFCs : hasSFC(db, t) =>
               hasSFC(db', t) /\ db.SFC[t].sfciIDList \subseteq db'.SFC[t].sfciIDList
        BY <2>4 DEF WroteSFC, hasSFC
      <3>2. \A i \in SFCIs : hasSFCI(db', i) /\ db'.SFCI[i].state = STATE_ACTIVE =>
               hasSFCI(db, i) /\ db.SFCI[i].state = STATE_ACTIVE
        BY <2>5 DEF hasSFCI
      <3>3. QED BY <1>1, <2>5, <3>1, <3>2, ListedLemma DEF TablesInv
    <2>7. Sent' = Sent /\ SentCmd' = SentCmd
      BY <1>2, SameSentLemma
    <2>8. CmdIDsAreOwn'
      BY <1>1, <2>5, <2>7 DEF TablesInv, CmdIDsAreOwn, hasRequest
    <2>9. EntriesAreOwn'
      BY <1>1, <1>2 DEF TablesInv, EntriesAreOwn
    <2>10. RequestsAreAwaited'
      BY <1>1, <1>2, <2>1, <2>5 DEF TablesInv, RequestsAreAwaited, Awaited, hasRequest
    <2>11. TablesInv'
      BY <1>1, <1>2, <2>5, <2>6, <2>7, <2>8, <2>9, <2>10 DEF TablesInv
    <2>12. QED BY <1>3, <1>4, <2>1, <2>3, <2>11
  <1>9. QED BY <1>5, <1>6, <1>7, <1>8 DEF Regulator

LEMMA StutterLemma ==
    ASSUME AllInv, UNCHANGED vars
    PROVE  AllInv'
  <1>1. UNCHANGED <<db, commandsInfo, orchestratorQueue, requestBatchQueue, batch, requestWaitingQueue,
                    runningState, phase, regulator, submitted, cmdCnt, inMediator, redeliveries, scenario>>
    BY DEF vars, loopVars, tableVars, serverVars, clientVars
  <1>2. Sent' = Sent /\ SentCmd' = SentCmd /\ SentSFCI' = SentSFCI /\ SentMsg' = SentMsg
    BY <1>1, SameSentLemma
  <1>3. TypeOK'
    BY <1>1, <1>2 DEF AllInv, TypeOK
  <1>4. LoopInv'
    BY <1>1 DEF AllInv, LoopInv
  <1>5. TablesInv'
    <2>1. \A c : RplyIn(c) => RplyIn(c)'
      BY <1>1 DEF RplyIn
    <2>2. QED BY <1>1, <2>1, SameTablesLemma DEF AllInv, TypeOK
  <1>6. QED BY <1>3, <1>4, <1>5 DEF AllInv

LEMMA AllInvLemma == Spec => []AllInv
  <1>1. Init => AllInv
    BY InitLemma
  <1>2. AllInv /\ [Next]_vars => AllInv'
    BY SubmitLemma, AroundLemma, LoopLemma, HandleLemma, RegulatorLemma, StutterLemma
       DEF Next, StartOrchestrator
  <1>3. QED BY <1>1, <1>2, PTL DEF Spec

\* An SFCI that the tables show as active is on the list of its SFC, the one the test of
\* DEL_SFC looks at, whatever is repeated, raised or delivered twice (addSFC2DB keeps
\* the list of an SFC that is added again).
THEOREM ActiveSFCIsAreListed == Spec => []ActiveIsListed
  <1>1. AllInv => ActiveIsListed
    BY DEF AllInv, TablesInv
  <1>2. QED BY <1>1, AllInvLemma, PTL

\* A request is shown as being processed only while the reply that ends this is to come
\* and will be recognised: repeating a request, whose row then names a new command,
\* and a second delivery of the request or of a reply leave none behind.
THEOREM ProcessingEnds == Spec => []RequestsAreAwaited
  <1>1. AllInv => RequestsAreAwaited
    BY DEF AllInv, TablesInv
  <1>2. QED BY <1>1, AllInvLemma, PTL
-----------------------------------------------------------------------------
(***************************************************************************)
(* From here on the broker delivers nothing twice: a request is in one     *)
(* place at a time and its row says in which, so its state goes through    *)
(* the intended steps; if no exception is raised either, no SFC or SFCI is *)
(* left in processing; and if besides the clients wait for each other, the *)
(* table tells which SFCIs are deployed.                                   *)
(***************************************************************************)

(***************************************************************************)
(* The places a request can be in.                                         *)
(***************************************************************************)
Place == {"queue", "waiting", "batchQueue", "batch", "mediator", "todo"} \X Pos

QueuedAt(n, kind, id) ==
    /\ n \in 1..Len(orchestratorQueue)
    /\ orchestratorQueue[n].kind = kind /\ orchestratorQueue[n].id = id

\* Place p has request r, which is still to be handled.
Waits(p, r) ==
    \/ p[1] = "queue" /\ QueuedAt(p[2], "request", r)
    \/ p[1] = "waiting" /\ p[2] \in 1..Len(requestWaitingQueue) /\ requestWaitingQueue[p[2]] = r
    \/ p[1] = "batchQueue" /\ p[2] \in 1..Len(requestBatchQueue) /\ requestBatchQueue[p[2]] = r
    \/ p[1] = "batch" /\ <<p[2], r>> \in batch

\* Place p has command c or the reply to it.
Runs(p, c) ==
    \/ p[1] = "queue" /\ QueuedAt(p[2], "rply", c)
    \/ p[1] = "mediator" /\ c \in inMediator /\ p[2] = c[2]

\* The regulator has read request r and will repeat it.
Repeats(p, r) == p = <<"todo", 1>> /\ regulator.task = "retry" /\ r \in regulator.todo

CmdOf(c, r) == c \in CmdID /\ c[1] = r

Holds(p, r) == Waits(p, r) \/ Repeats(p, r) \/ \E c \in CmdID : CmdOf(c, r) /\ Runs(p, c)

OnePlace(r) == \A p, q \in Place : Holds(p, r) /\ Holds(q, r) => p = q

NotStarted(r) == hasRequest(db, r) => db.Request[r].state = REQUEST_STATE_INITIAL
Failed(r)     == hasRequest(db, r) /\ db.Request[r].state = REQUEST_STATE_FAILED
Running(c, r) == /\ c \in DOMAIN commandsInfo
                 /\ hasRequest(db, r)
                 /\ db.Request[r].state = REQUEST_STATE_IN_PROCESSING
                 /\ db.Request[r].cmdID = c

\* A request that waits has not been started, a command that is carried out or was
\* answered is that of a request in processing, and the regulator repeats failed requests.
RowTells(r) ==
    \A p \in Place :
        /\ Waits(p, r) => NotStarted(r)
        /\ Repeats(p, r) => Failed(r)
        /\ \A c \in CmdID : CmdOf(c, r) /\ Runs(p, c) => Running(c, r)

OnceInv == redeliveries = 0 => \A r \in Requests : OnePlace(r) /\ RowTells(r)

\* What one step may do to the row of request r.
Life(r) ==
    hasRequest(db, r) =>
        LET from == db.Request[r].state
            to   == db'.Request[r].state
        IN  \/ to = from
            \/ from = REQUEST_STATE_IN_PROCESSING /\
                  to \in {REQUEST_STATE_SUCCESSFUL, REQUEST_STATE_FAILED}
            \/ from = REQUEST_STATE_FAILED /\ to = REQUEST_STATE_INITIAL
            \/ from = REQUEST_STATE_INITIAL /\
                  to \in {REQUEST_STATE_IN_PROCESSING, REQUEST_STATE_FAILED}

Good(r) == OnePlace(r)' /\ RowTells(r)' /\ Life(r)
-----------------------------------------------------------------------------
(***************************************************************************)
(* A request that stays: the place p of the next state was the place       *)
(* back[p] before.                                                         *)
(***************************************************************************)
Back == {f \in [Place -> Place] : \A p, q \in Place : f[p] = f[q] => p = q}

Stays(r, back) ==
    /\ db'.Request[r] = db.Request[r]
    /\ \A c \in DOMAIN commandsInfo : CmdOf(c, r) => c \in DOMAIN commandsInfo'
    /\ \A p \in Place :
          /\ Waits(p, r)' => Waits(back[p], r)
          /\ Repeats(p, r)' => Repeats(back[p], r)
          /\ \A c \in CmdID : CmdOf(c, r) /\ Runs(p, c)' => Runs(back[p], c)

LEMMA StaysLemma ==
    ASSUME NEW r \in Requests, NEW back \in Back, OnePlace(r), RowTells(r), Stays(r, back)
    PROVE  Good(r)
  <1>1. \A p \in Place : back[p] \in Place
    BY DEF Back
  <1>2. ASSUME NEW p \in Place, Holds(p, r)'
        PROVE  Holds(back[p], r)
    BY <1>2 DEF Holds, Stays, CmdOf
  <1>3. OnePlace(r)'
    BY <1>1, <1>2 DEF OnePlace, Back
  <1>4. RowTells(r)'
    <2> SUFFICES ASSUME NEW p \in Place
                 PROVE  /\ Waits(p, r)' => NotStarted(r)'
                        /\ Repeats(p, r)' => Failed(r)'
                        /\ \A c \in CmdID : CmdOf(c, r) /\ Runs(p, c)' => Running(c, r)'
      BY DEF RowTells, CmdOf
    <2>1. Waits(p, r)' => NotStarted(r)'
      BY <1>1 DEF Stays, RowTells, NotStarted, hasRequest
    <2>2. Repeats(p, r)' => Failed(r)'
      BY <1>1 DEF Stays, RowTells, Failed, hasRequest
    <2>3. ASSUME NEW c \in CmdID, CmdOf(c, r), Runs(p, c)'
          PROVE  Running(c, r)'
      <3>1. Running(c, r)
        BY <1>1, <2>3 DEF Stays, RowTells
      <3>2. QED BY <2>3, <3>1 DEF Stays, Running, hasRequest
    <2>4. QED BY <2>1, <2>2, <2>3
  <1>5. QED BY <1>3, <1>4 DEF Good, Life, Stays
-----------------------------------------------------------------------------
(***************************************************************************)
(* Where the requests were before a step.  Shift: the first element of     *)
(* queue x was removed; Mapped: the batch became a mapped one besides.     *)
(***************************************************************************)
Shift(x) == [p \in Place |-> IF p[1] = x THEN <<x, p[2] + 1>> ELSE p]

Mapped(x) == [p \in Place |-> IF p[1] = x THEN <<x, p[2] + 1>>
                              ELSE IF p[1] = "batch" THEN <<"batchQueue", p[2]>>
                              ELSE IF p[1] = "batchQueue" THEN <<"batch", p[2]>> ELSE p]

LEMMA PlaceLemma ==
    ASSUME NEW p \in Place
    PROVE  /\ p = <<p[1], p[2]>> /\ p[2] \in Pos /\ p[2] + 1 \in Pos
           /\ p[1] \in {"queue", "waiting", "batchQueue", "batch", "mediator", "todo"}
  BY DEF Place, Pos

LEMMA ShiftLemma ==
    ASSUME NEW x
    PROVE  /\ Shift(x) \in Back
           /\ \A p \in Place : /\ p[1] = x => Shift(x)[p] = <<x, p[2] + 1>>
                               /\ p[1] # x => Shift(x)[p] = p
                               /\ Shift(x)[p] # <<x, 1>>
  <1> DEFINE f == Shift(x)
  <1>1. ASSUME NEW p \in Place
        PROVE  /\ p[1] = x => f[p] = <<x, p[2] + 1>>
               /\ p[1] # x => f[p] = p
               /\ f[p] \in Place
               /\ p[2] \in Nat /\ p[2] # 0 /\ p = <<p[1], p[2]>>
    BY DEF Shift, Place, Pos
  <1>2. f \in [Place -> Place]
    BY <1>1 DEF Shift
  <1>3. ASSUME NEW p \in Place, NEW q \in Place, f[p] = f[q]
        PROVE  p = q
    <2> HIDE DEF f
    <2>1. p[1] = q[1]
      BY <1>1, <1>3
    <2>2. CASE p[1] = x
      <3>1. p[2] + 1 = q[2] + 1
        BY <1>1, <1>3, <2>1, <2>2
      <3>2. p[2] = q[2]
        BY <1>1, <3>1
      <3>3. QED BY <1>1, <2>1, <3>2
    <2>3. CASE p[1] # x
      BY <1>1, <1>3, <2>1, <2>3
    <2>4. QED BY <2>2, <2>3
  <1>4. ASSUME NEW p \in Place PROVE f[p] # <<x, 1>>
    <2> HIDE DEF f
    <2>1. CASE p[1] = x
      <3>1. p[2] + 1 # 1
        BY <1>1
      <3>2. QED BY <1>1, <2>1, <3>1
    <2>2. CASE p[1] # x
      BY <1>1, <2>2
    <2>3. QED BY <2>1, <2>2
  <1>5. QED BY <1>1, <1>2, <1>3, <1>4 DEF Back

LEMMA MappedLemma ==
    ASSUME NEW x, x # "batch", x # "batchQueue"
    PROVE  /\ Mapped(x) \in Back
           /\ \A p \in Place : /\ p[1] = x => Mapped(x)[p] = <<x, p[2] + 1>>
                               /\ p[1] = "batch" => Mapped(x)[p] = <<"batchQueue", p[2]>>
                               /\ p[1] \notin {x, "batch", "batchQueue"} => Mapped(x)[p] = p
                               /\ Mapped(x)[p] # <<x, 1>>
  <1> DEFINE f == Mapped(x)
  <1>1. ASSUME NEW p \in Place
        PROVE  /\ p[1] = x => f[p] = <<x, p[2] + 1>>
               /\ p[1] = "batch" => f[p] = <<"batchQueue", p[2]>>
               /\ p[1] = "batchQueue" => f[p] = <<"batch", p[2]>>
               /\ p[1] \notin {x, "batch", "batchQueue"} => f[p] = p
               /\ f[p] \in Place
               /\ p[2] \in Nat /\ p[2] # 0 /\ p = <<p[1], p[2]>>
    BY DEF Mapped, Place, Pos
  <1>2. f \in [Place -> Place]
    BY <1>1 DEF Mapped
  <1>3. ASSUME NEW p \in Place, NEW q \in Place, f[p] = f[q]
        PROVE  p = q
    <2> HIDE DEF f
    <2>1. p[1] = q[1]
      BY <1>1, <1>3
    <2>2. CASE p[1] = x
      <3>1. p[2] + 1 = q[2] + 1
        BY <1>1, <1>3, <2>1, <2>2
      <3>2. p[2] = q[2]
        BY <1>1, <3>1
      <3>3. QED BY <1>1, <2>1, <3>2
    <2>3. CASE p[1] # x
      BY <1>1, <1>3, <2>1, <2>3
    <2>4. QED BY <2>2, <2>3
  <1>4. ASSUME NEW p \in Place PROVE f[p] # <<x, 1>>
    <2> HIDE DEF f
    <2>1. CASE p[1] = x
      <3>1. p[2] + 1 # 1
        BY <1>1
      <3>2. QED BY <1>1, <2>1, <3>1
    <2>2. CASE p[1] # x
      BY <1>1, <2>2
    <2>3. QED BY <2>1, <2>2
  <1>5. QED BY <1>1, <1>2, <1>3, <1>4 DEF Back

\* The places of request r after a step that removes the first element of queue x, if
\* it removes any.
QueueStays(r, x) ==
    \A n \in Pos :
        /\ QueuedAt(n, "request", r)' => QueuedAt(IF x = "queue" THEN n + 1 ELSE n, "request", r)
        /\ \A c \in CmdID : CmdOf(c, r) /\ QueuedAt(n, "rply", c)' =>
              QueuedAt(IF x = "queue" THEN n + 1 ELSE n, "rply", c)

WaitingAt(n, r) == n \in 1..Len(requestWaitingQueue) /\ requestWaitingQueue[n] = r
WaitingStays(r, x) ==
    \A n \in Pos : WaitingAt(n, r)' => WaitingAt(IF x = "waiting" THEN n + 1 ELSE n, r)

BatchedAt(n, r) == n \in 1..Len(requestBatchQueue) /\ requestBatchQueue[n] = r
BatchStays(r) ==
    \A n \in Pos : /\ BatchedAt(n, r)' => BatchedAt(n, r)
                   /\ <<n, r>> \in batch' => <<n, r>> \in batch

MediatorStays(r) == \A c \in CmdID : CmdOf(c, r) /\ c \in inMediator' => c \in inMediator

TodoStays(r) ==
    regulator'.task = "retry" /\ r \in regulator'.todo => regulator.task = "retry" /\ r \in regulator.todo

RowStays(r) ==
    /\ db'.Request[r] = db.Request[r]
    /\ \A c \in DOMAIN commandsInfo : CmdOf(c, r) => c \in DOMAIN commandsInfo'

LEMMA ShiftStaysLemma ==
    ASSUME NEW r \in Requests, NEW x \in {"none", "queue", "waiting"}, OnePlace(r), RowTells(r),
           RowStays(r), QueueStays(r, x), WaitingStays(r, x), BatchStays(r), MediatorStays(r),
           TodoStays(r)
    PROVE  Good(r)
  <1> DEFINE f == Shift(x)
  <1>1. /\ f \in Back
        /\ \A p \in Place : /\ p[1] = x => f[p] = <<x, p[2] + 1>>
                            /\ p[1] # x => f[p] = p
    BY ShiftLemma
  <1> HIDE DEF f
  <1>2. ASSUME NEW p \in Place
        PROVE  /\ Waits(p, r)' => Waits(f[p], r)
               /\ Repeats(p, r)' => Repeats(f[p], r)
               /\ \A c \in CmdID : CmdOf(c, r) /\ Runs(p, c)' => Runs(f[p], c)
    <2>1. p[2] \in Pos
      BY PlaceLemma
    <2>2. Waits(p, r)' => Waits(f[p], r)
      BY <1>1, <2>1 DEF Waits, QueueStays, WaitingStays, BatchStays, WaitingAt, BatchedAt
    <2>3. Repeats(p, r)' => Repeats(f[p], r)
      BY <1>1 DEF Repeats, TodoStays
    <2>4. \A c \in CmdID : CmdOf(c, r) /\ Runs(p, c)' => Runs(f[p], c)
      BY <1>1, <2>1 DEF Runs, QueueStays, MediatorStays
    <2>5. QED BY <2>2, <2>3, <2>4
  <1>3. Stays(r, f)
    BY <1>2 DEF Stays, RowStays
  <1>4. QED BY <1>1, <1>3, StaysLemma
-----------------------------------------------------------------------------
(***************************************************************************)
(* The queue.                                                              *)
(***************************************************************************)
LEMMA TakeQueuedLemma ==
    ASSUME TypeOK, NEW kind, Take(kind), NEW m, m = Head(orchestratorQueue)
    PROVE  /\ QueuedAt(1, kind, m.id)
           /\ \A n \in Pos : \A k, id : QueuedAt(n, k, id)' => QueuedAt(n + 1, k, id)
  <1>1. /\ orchestratorQueue \in Seq(SentMsg) /\ orchestratorQueue # <<>>
        /\ orchestratorQueue' = Tail(orchestratorQueue) /\ m.kind = kind
    BY DEF Take, TypeOK
  <1>2. /\ m = orchestratorQueue[1] /\ Len(orchestratorQueue) \in Pos
        /\ \A k \in 1..Len(orchestratorQueue') :
              k + 1 \in 1..Len(orchestratorQueue) /\ orchestratorQueue'[k] = orchestratorQueue[k + 1]
    BY <1>1, TailLemma
  <1>3. 1 \in 1..Len(orchestratorQueue)
    BY <1>2 DEF Pos
  <1>4. QED BY <1>1, <1>2, <1>3 DEF QueuedAt

LEMMA AppendQueuedLemma ==
    ASSUME TypeOK, NEW m, orchestratorQueue' = Append(orchestratorQueue, m),
           NEW end, end = Len(orchestratorQueue) + 1
    PROVE  /\ end \in Pos /\ QueuedAt(end, m.kind, m.id)'
           /\ \A n \in Pos : \A k, id : QueuedAt(n, k, id)' =>
                 QueuedAt(n, k, id) \/ (n = end /\ k = m.kind /\ id = m.id)
           /\ \A k, id : ~QueuedAt(end, k, id)
  <1>1. orchestratorQueue \in Seq(SentMsg)
    BY DEF TypeOK
  <1>2. /\ Len(orchestratorQueue) \in Nat /\ Len(orchestratorQueue') = Len(orchestratorQueue) + 1
        /\ \A k \in 1..Len(orchestratorQueue) : orchestratorQueue'[k] = orchestratorQueue[k]
        /\ orchestratorQueue'[end] = m
    BY <1>1
  <1>3. /\ end \in Pos /\ end \in 1..Len(orchestratorQueue') /\ end \notin 1..Len(orchestratorQueue)
        /\ \A k \in 1..Len(orchestratorQueue') : k # end => k \in 1..Len(orchestratorQueue)
    BY <1>2 DEF Pos
  <1>4. QED BY <1>2, <1>3 DEF QueuedAt

SameQueue == \A n \in Pos : \A k, id : QueuedAt(n, k, id)' => QueuedAt(n, k, id)

LEMMA SameQueueLemma ==
    ASSUME UNCHANGED orchestratorQueue
    PROVE  SameQueue
  BY DEF SameQueue, QueuedAt

LEMMA SameBatchLemma ==
    ASSUME UNCHANGED <<requestBatchQueue, batch>>
    PROVE  \A r \in Requests : BatchStays(r)
  BY DEF BatchStays, BatchedAt
-----------------------------------------------------------------------------
(***************************************************************************)
(* Steps that move no request.                                             *)
(***************************************************************************)
LEMMA QuietLemma ==
    ASSUME AllInv, OnceInv, redeliveries = 0,
           \/ \E c \in AllAdminCmds : SendAdminCmd(c)
           \/ TakeCmd \/ NoMsg \/ NoTimeout \/ UpdateWrite \/ UNCHANGED vars
           \/ \E s \in SFCs, newState \in {STATE_ACTIVE, STATE_MANUAL} : UpdateRead(s, newState)
    PROVE  \A r \in Requests : Good(r)
  <1>1. /\ TypeOK /\ \A r \in Requests : OnePlace(r) /\ RowTells(r)
    BY DEF AllInv, OnceInv
  <1>2. /\ UNCHANGED <<requestBatchQueue, batch, requestWaitingQueue, commandsInfo, inMediator>>
    BY DEF SendAdminCmd, TakeCmd, NoMsg, NoTimeout, UpdateWrite, UpdateRead, vars, loopVars, tableVars,
           serverVars
  <1>3. db'.Request = db.Request
    <2>1. CASE UpdateWrite
      <3> DEFINE s == regulator.sfc
                 state == regulator.newState
      <3>1. s \in SFCs /\ state \in ResourceState /\ db \in DB /\ db' = updateSFCState(db, s, state)
        BY <1>1, <2>1 DEF UpdateWrite, TypeOK, ResourceState
      <3> HIDE DEF s, state
      <3>2. WroteSFC(db, db', s)
        BY <3>1, updateSFCStateLemma
      <3>3. QED BY <3>2 DEF WroteSFC
    <2>2. CASE ~UpdateWrite
      BY <2>2 DEF SendAdminCmd, TakeCmd, NoMsg, NoTimeout, UpdateRead, vars, tableVars
    <2>3. QED BY <2>1, <2>2
  <1>4. \A r \in Requests : TodoStays(r)
    <2>1. UNCHANGED regulator \/ regulator'.task = "none" \/ regulator'.task = "update"
      <3>1. ASSUME NEW s \in SFCs, NEW newState \in {STATE_ACTIVE, STATE_MANUAL}, UpdateRead(s, newState)
            PROVE  regulator'.task = "update"
        BY <3>1 DEF UpdateRead
      <3>2. UpdateWrite => regulator'.task = "none"
        BY DEF UpdateWrite, Idle
      <3>3. (\E c \in AllAdminCmds : SendAdminCmd(c)) \/ TakeCmd \/ NoMsg \/ NoTimeout \/ UNCHANGED vars
            => UNCHANGED regulator
        BY DEF SendAdminCmd, TakeCmd, NoMsg, NoTimeout, vars
      <3>4. QED BY <3>1, <3>2, <3>3
    <2>2. QED BY <2>1 DEF TodoStays
  <1>5. \A r \in Requests : RowStays(r) /\ BatchStays(r) /\ MediatorStays(r)
    BY <1>2, <1>3, SameBatchLemma DEF RowStays, MediatorStays
  <1>6. \A r \in Requests : WaitingStays(r, "none") /\ WaitingStays(r, "queue")
    BY <1>2 DEF WaitingStays, WaitingAt
  <1>7. \/ \A r \in Requests : QueueStays(r, "none")
        \/ \A r \in Requests : QueueStays(r, "queue")
    <2>1. CASE TakeCmd
      <3>1. Take("cmd")
        BY <2>1 DEF TakeCmd
      <3>2. \A n \in Pos : \A k, id : QueuedAt(n, k, id)' => QueuedAt(n + 1, k, id)
        BY <1>1, <3>1, TakeQueuedLemma
      <3>3. QED BY <3>2 DEF QueueStays
    <2>2. ASSUME NEW c \in AllAdminCmds, SendAdminCmd(c)
          PROVE  \A r \in Requests : QueueStays(r, "none")
      <3> DEFINE m == [kind |-> "cmd", id |-> c]
      <3>1. orchestratorQueue' = Append(orchestratorQueue, m) /\ m.kind = "cmd"
        BY <2>2 DEF SendAdminCmd
      <3> HIDE DEF m
      <3>2. \A n \in Pos : \A k, id : QueuedAt(n, k, id)' => QueuedAt(n, k, id) \/ k = "cmd"
        BY <1>1, <3>1, AppendQueuedLemma
      <3>3. QED BY <3>2 DEF QueueStays
    <2>3. CASE UNCHANGED orchestratorQueue
      BY <2>3, SameQueueLemma DEF QueueStays, SameQueue
    <2>4. QED BY <2>1, <2>2, <2>3 DEF NoMsg, NoTimeout, UpdateRead, UpdateWrite, vars
  <1>8. QED BY <1>1, <1>4, <1>5, <1>6, <1>7, ShiftStaysLemma
-----------------------------------------------------------------------------
(***************************************************************************)
(* A request that moves: it is at most in place number m of x.             *)
(***************************************************************************)
Repeated(r) == regulator.task = "retry" /\ r \in regulator.todo

OnlyAt(r, x, m) ==
    /\ \A n \in Pos :
          /\ QueuedAt(n, "request", r) => x = "queue" /\ n = m
          /\ \A c \in CmdID : CmdOf(c, r) /\ QueuedAt(n, "rply", c) => x = "queue" /\ n = m
          /\ WaitingAt(n, r) => x = "waiting" /\ n = m
          /\ BatchedAt(n, r) => x = "batchQueue" /\ n = m
          /\ <<n, r>> \in batch => x = "batch" /\ n = m
    /\ \A c \in CmdID : CmdOf(c, r) /\ c \in inMediator => x = "mediator" /\ c[2] = m
    /\ Repeated(r) => x = "todo" /\ m = 1

LEMMA OnlyAtLemma ==
    ASSUME TypeOK, NEW r \in Requests, OnePlace(r), NEW x, NEW m, <<x, m>> \in Place, Holds(<<x, m>>, r)
    PROVE  OnlyAt(r, x, m)
  <1>1. \A p \in Place : Holds(p, r) => p = <<x, m>>
    BY DEF OnePlace
  <1>2. ASSUME NEW n \in Pos
        PROVE  /\ QueuedAt(n, "request", r) => x = "queue" /\ n = m
               /\ WaitingAt(n, r) => x = "waiting" /\ n = m
               /\ BatchedAt(n, r) => x = "batchQueue" /\ n = m
               /\ <<n, r>> \in batch => x = "batch" /\ n = m
    <2>1. QueuedAt(n, "request", r) => Holds(<<"queue", n>>, r) /\ <<"queue", n>> \in Place
      BY DEF Holds, Waits, Place
    <2>2. WaitingAt(n, r) => Holds(<<"waiting", n>>, r) /\ <<"waiting", n>> \in Place
      BY DEF Holds, Waits, Place, WaitingAt
    <2>3. BatchedAt(n, r) => Holds(<<"batchQueue", n>>, r) /\ <<"batchQueue", n>> \in Place
      BY DEF Holds, Waits, Place, BatchedAt
    <2>4. <<n, r>> \in batch => Holds(<<"batch", n>>, r) /\ <<"batch", n>> \in Place
      BY DEF Holds, Waits, Place
    <2>5. QED BY <1>1, <2>1, <2>2, <2>3, <2>4
  <1>3. ASSUME NEW n \in Pos, NEW c \in CmdID, CmdOf(c, r), QueuedAt(n, "rply", c)
        PROVE  x = "queue" /\ n = m
    <2>1. Holds(<<"queue", n>>, r) /\ <<"queue", n>> \in Place
      BY <1>3 DEF Holds, Runs, Place
    <2>2. QED BY <1>1, <2>1
  <1>4. ASSUME NEW c \in CmdID, CmdOf(c, r), c \in inMediator
        PROVE  x = "mediator" /\ c[2] = m
    <2>1. c[2] \in Pos
      BY <1>4 DEF TypeOK, SentCmd
    <2>2. Holds(<<"mediator", c[2]>>, r) /\ <<"mediator", c[2]>> \in Place
      BY <1>4, <2>1 DEF Holds, Runs, Place
    <2>3. QED BY <1>1, <2>2
  <1>5. Repeated(r) => x = "todo" /\ m = 1
    <2>1. Repeated(r) => Holds(<<"todo", 1>>, r) /\ <<"todo", 1>> \in Place
      BY DEF Holds, Repeats, Place, Repeated, Pos
    <2>2. QED BY <1>1, <2>1
  <1>6. QED BY <1>2, <1>3, <1>4, <1>5 DEF OnlyAt

\* What the row of request r tells if it is at the given place.
TellsAt(r, x, m) ==
    /\ x \in {"waiting", "batchQueue", "batch"} => NotStarted(r)
    /\ x = "queue" => /\ QueuedAt(m, "request", r) => NotStarted(r)
                      /\ \A c \in CmdID : CmdOf(c, r) /\ QueuedAt(m, "rply", c) => Running(c, r)
    /\ x = "mediator" => \A c \in CmdID : CmdOf(c, r) /\ c \in inMediator => Running(c, r)
    /\ x = "todo" => Failed(r)

LEMMA MovedLemma ==
    ASSUME NEW r \in Requests, NEW x, NEW m, OnlyAt(r, x, m), TellsAt(r, x, m)
    PROVE  OnePlace(r) /\ RowTells(r)
  <1>1. ASSUME NEW p \in Place, Waits(p, r)
        PROVE  p = <<x, m>> /\ NotStarted(r)
    <2>1. p = <<p[1], p[2]>> /\ p[2] \in Pos
      BY PlaceLemma
    <2>2. CASE p[1] = "queue" /\ QueuedAt(p[2], "request", r)
      <3>1. x = "queue" /\ p[2] = m
        BY <2>1, <2>2 DEF OnlyAt
      <3>2. NotStarted(r)
        BY <2>2, <3>1 DEF TellsAt
      <3>3. QED BY <2>1, <2>2, <3>1, <3>2
    <2>3. CASE p[1] = "waiting" /\ WaitingAt(p[2], r)
      <3>1. x = "waiting" /\ p[2] = m
        BY <2>1, <2>3 DEF OnlyAt
      <3>2. NotStarted(r)
        BY <2>3, <3>1 DEF TellsAt
      <3>3. QED BY <2>1, <2>3, <3>1, <3>2
    <2>4. CASE p[1] = "batchQueue" /\ BatchedAt(p[2], r)
      <3>1. x = "batchQueue" /\ p[2] = m
        BY <2>1, <2>4 DEF OnlyAt
      <3>2. NotStarted(r)
        BY <2>4, <3>1 DEF TellsAt
      <3>3. QED BY <2>1, <2>4, <3>1, <3>2
    <2>5. CASE p[1] = "batch" /\ <<p[2], r>> \in batch
      <3>1. x = "batch" /\ p[2] = m
        BY <2>1, <2>5 DEF OnlyAt
      <3>2. NotStarted(r)
        BY <2>5, <3>1 DEF TellsAt
      <3>3. QED BY <2>1, <2>5, <3>1, <3>2
    <2>6. QED BY <1>1, <2>2, <2>3, <2>4, <2>5 DEF Waits, WaitingAt, BatchedAt
  <1>2. ASSUME NEW p \in Place, Repeats(p, r)
        PROVE  p = <<x, m>> /\ Failed(r)
    BY <1>2 DEF Repeats, OnlyAt, TellsAt, Repeated
  <1>3. ASSUME NEW p \in Place, NEW c \in CmdID, CmdOf(c, r), Runs(p, c)
        PROVE  p = <<x, m>> /\ Running(c, r)
    <2>1. p = <<p[1], p[2]>> /\ p[2] \in Pos
      BY PlaceLemma
    <2>2. CASE p[1] = "queue" /\ QueuedAt(p[2], "rply", c)
      BY <1>3, <2>1, <2>2 DEF OnlyAt, TellsAt
    <2>3. CASE p[1] = "mediator" /\ c \in inMediator /\ p[2] = c[2]
      BY <1>3, <2>1, <2>3 DEF OnlyAt, TellsAt
    <2>4. QED BY <1>3, <2>2, <2>3 DEF Runs
  <1>4. \A p \in Place : Holds(p, r) => p = <<x, m>>
    BY <1>1, <1>2, <1>3 DEF Holds
  <1>5. QED BY <1>1, <1>2, <1>3, <1>4 DEF OnePlace, RowTells

LEMMA MovedPrime ==
    ASSUME NEW r \in Requests, NEW x, NEW m
    PROVE  (OnlyAt(r, x, m) /\ TellsAt(r, x, m) => OnePlace(r) /\ RowTells(r))'
  <1>1. OnlyAt(r, x, m) /\ TellsAt(r, x, m) => OnePlace(r) /\ RowTells(r)
    BY MovedLemma
  <1>2. QED BY <1>1, PTL

\* After a step; x = "gone" if the request is nowhere.
LEMMA MovedGood ==
    ASSUME NEW r \in Requests, NEW x, NEW m, OnlyAt(r, x, m)', TellsAt(r, x, m)', Life(r)
    PROVE  Good(r)
  BY MovedPrime DEF Good
-----------------------------------------------------------------------------
(***************************************************************************)
(* Requests are handled.                                                   *)
(***************************************************************************)
\* Neither the queue nor the list of waiting requests has request r.
NotQueued(r) ==
    \A n \in Pos : /\ ~QueuedAt(n, "request", r) /\ ~WaitingAt(n, r)
                   /\ \A c \in CmdID : CmdOf(c, r) => ~QueuedAt(n, "rply", c)
NotBatched(r)  == \A n \in Pos : ~BatchedAt(n, r) /\ <<n, r>> \notin batch
NotSent(r)     == \A c \in CmdID : CmdOf(c, r) => c \notin inMediator

LEMMA HeadLeaves ==
    ASSUME NEW r \in Requests, NEW x \in {"queue", "waiting"}, OnlyAt(r, x, 1),
           QueueStays(r, x), WaitingStays(r, x)
    PROVE  NotQueued(r)' /\ NotBatched(r) /\ NotSent(r) /\ ~Repeated(r)
  <1>1. \A n \in Pos : n + 1 \in Pos /\ n + 1 # 1
    BY DEF Pos
  <1>2. ASSUME NEW n \in Pos
        PROVE  /\ ~QueuedAt(n, "request", r)' /\ ~WaitingAt(n, r)'
               /\ \A c \in CmdID : CmdOf(c, r) => ~QueuedAt(n, "rply", c)'
    <2>1. ~QueuedAt(n, "request", r)'
      BY <1>1 DEF OnlyAt, QueueStays
    <2>2. ~WaitingAt(n, r)'
      BY <1>1 DEF OnlyAt, WaitingStays
    <2>3. \A c \in CmdID : CmdOf(c, r) => ~QueuedAt(n, "rply", c)'
      BY <1>1 DEF OnlyAt, QueueStays
    <2>4. QED BY <2>1, <2>2, <2>3
  <1>3. NotQueued(r)'
    BY <1>2 DEF NotQueued, CmdOf
  <1>4. QED BY <1>3 DEF OnlyAt, NotBatched, NotSent

LEMMA HandledGood ==
    ASSUME TypeOK, TablesInv, NEW r \in Sent, Handled(r), NotStarted(r), NotSent(r), UNCHANGED submitted,
           NotQueued(r)', NotBatched(r)', ~Repeated(r)'
    PROVE  Good(r)
  <1> DEFINE c0 == NextCmdID(r)
  <1>1. c0 \in SentCmd /\ c0[1] = r /\ r \in Requests /\ c0 \in CmdID
    BY NextCmdIDLemma, SentLemma
  <1>0. PICK m \in Pos : m = c0[2]
    BY <1>1 DEF SentCmd
  <1> HIDE DEF c0
  <1>2. CASE RowStarted(r) /\ SendCmd(r)
    <2>1. /\ commandsInfo' = addCmd(commandsInfo, c0, submitted[r]) /\ inMediator' = inMediator \cup {c0}
          /\ hasRequest(db', r) /\ db'.Request[r].state = REQUEST_STATE_IN_PROCESSING
          /\ db'.Request[r].cmdID = c0
      BY <1>2 DEF SendCmd, RowStarted, c0
    <2>2. DOMAIN commandsInfo' = DOMAIN commandsInfo \cup {c0}
      <3>1. EntriesAreOwn /\ submitted[r] = submitted[c0[1]] /\ submitted[r] \in Request
        BY <1>1, SentLemma DEF TablesInv
      <3>2. commandsInfo' = addCmd(commandsInfo, c0, submitted[r])
        BY <2>1
      <3>3. QED BY <1>1, <3>1, <3>2, addCmdLemma
    <2>3. OnlyAt(r, "mediator", m)'
      <3>1. \A c \in CmdID : CmdOf(c, r) /\ c \in inMediator' => c[2] = m
        BY <1>0, <2>1 DEF NotSent
      <3>2. QED BY <3>1 DEF OnlyAt, NotQueued, NotBatched, CmdOf
    <2>4. \A c \in CmdID : CmdOf(c, r) /\ c \in inMediator' => Running(c, r)'
      BY <2>1, <2>2 DEF NotSent, Running
    <2>5. TellsAt(r, "mediator", m)'
      BY <2>4 DEF TellsAt, CmdOf
    <2>6. Life(r)
      BY <2>1 DEF Life, NotStarted
    <2>7. QED BY <1>1, <2>3, <2>5, <2>6, MovedGood
  <1>3. CASE RowFailed(r) /\ SendNothing
    <2>1. /\ inMediator' = inMediator /\ hasRequest(db', r)
          /\ db'.Request[r].state = REQUEST_STATE_FAILED
      BY <1>3 DEF SendNothing, RowFailed
    <2>2. OnlyAt(r, "gone", 0)'
      BY <2>1 DEF OnlyAt, NotQueued, NotBatched, NotSent, CmdOf
    <2>3. TellsAt(r, "gone", 0)'
      BY DEF TellsAt
    <2>4. Life(r)
      BY <2>1 DEF Life, NotStarted
    <2>5. QED BY <1>1, <2>2, <2>3, <2>4, MovedGood
  <1>4. QED BY <1>2, <1>3 DEF Handled

\* The other requests.
LEMMA HandledOthers ==
    ASSUME TypeOK, TablesInv, NEW r \in Sent, Handled(r), NEW q \in Requests, q # r
    PROVE  RowStays(q) /\ MediatorStays(q)
  <1> DEFINE c0 == NextCmdID(r)
  <1>1. c0 \in SentCmd /\ c0[1] = r /\ r \in Requests
    BY NextCmdIDLemma, SentLemma
  <1> HIDE DEF c0
  <1>2. db'.Request[q] = db.Request[q]
    BY DEF Handled
  <1>3. CASE SendCmd(r)
    <2>1. commandsInfo' = addCmd(commandsInfo, c0, submitted[r]) /\ inMediator' = inMediator \cup {c0}
      BY <1>3 DEF SendCmd, c0
    <2>2. DOMAIN commandsInfo' = DOMAIN commandsInfo \cup {c0}
      <3>1. EntriesAreOwn /\ submitted[r] = submitted[c0[1]] /\ submitted[r] \in Request
        BY <1>1, SentLemma DEF TablesInv
      <3>2. QED BY <1>1, <2>1, <3>1, addCmdLemma
    <2>3. QED BY <1>1, <1>2, <2>1, <2>2 DEF RowStays, MediatorStays, CmdOf
  <1>4. CASE SendNothing
    BY <1>2, <1>4 DEF SendNothing, RowStays, MediatorStays
  <1>5. QED BY <1>3, <1>4 DEF Handled

\* A request whose batch is mapped, or given up.
LEMMA BatchGood ==
    ASSUME TypeOK, NEW r \in Requests, NEW x \in {"none", "queue", "waiting"}, OnePlace(r), RowTells(r),
           QueueStays(r, x), WaitingStays(r, x), UNCHANGED <<commandsInfo, inMediator, regulator>>,
           \A n \in Pos : ~BatchedAt(n, r)',
           \A n \in Pos : <<n, r>> \in batch' => BatchedAt(n, r),
           \/ db'.Request[r] = db.Request[r]
           \/ /\ ~hasRequest(db, r)
              /\ \E n \in Pos : BatchedAt(n, r)
              /\ \A n \in Pos : <<n, r>> \notin batch'
    PROVE  Good(r)
  <1>0. RowStays(r) \/ db'.Request[r] # db.Request[r]
    BY DEF RowStays
  <1>1. CASE db'.Request[r] = db.Request[r]
    <2> DEFINE f == Mapped(x)
    <2>1. /\ f \in Back
          /\ \A p \in Place : /\ p[1] = x => f[p] = <<x, p[2] + 1>>
                              /\ p[1] = "batch" => f[p] = <<"batchQueue", p[2]>>
                              /\ p[1] \notin {x, "batch", "batchQueue"} => f[p] = p
      BY MappedLemma
    <2> HIDE DEF f
    <2>2. ASSUME NEW p \in Place
          PROVE  /\ Waits(p, r)' => Waits(f[p], r)
                 /\ Repeats(p, r)' => Repeats(f[p], r)
                 /\ \A c \in CmdID : CmdOf(c, r) /\ Runs(p, c)' => Runs(f[p], c)
      <3>1. p[2] \in Pos
        BY PlaceLemma
      <3>2. CASE p[1] = "batch"
        BY <2>1, <3>1, <3>2 DEF Waits, Repeats, Runs, BatchedAt
      <3>3. CASE p[1] = "batchQueue"
        BY <3>1, <3>3 DEF Waits, Repeats, Runs, BatchedAt
      <3>4. CASE p[1] \notin {"batch", "batchQueue"}
        <4>1. Waits(p, r)' => Waits(f[p], r)
          BY <2>1, <3>1, <3>4 DEF Waits, QueueStays, WaitingStays, WaitingAt
        <4>2. Repeats(p, r)' => Repeats(f[p], r)
          BY <2>1, <3>4 DEF Repeats
        <4>3. \A c \in CmdID : CmdOf(c, r) /\ Runs(p, c)' => Runs(f[p], c)
          BY <2>1, <3>1, <3>4 DEF Runs, QueueStays
        <4>4. QED BY <4>1, <4>2, <4>3
      <3>5. QED BY <3>2, <3>3, <3>4
    <2>3. Stays(r, f)
      BY <1>1, <2>2 DEF Stays
    <2>4. QED BY <2>1, <2>3, StaysLemma
  <1>2. CASE ~hasRequest(db, r) /\ (\E n \in Pos : BatchedAt(n, r)) /\ \A n \in Pos : <<n, r>> \notin batch'
    <2>1. PICK n \in Pos : BatchedAt(n, r)
      BY <1>2
    <2>2. Holds(<<"batchQueue", n>>, r) /\ <<"batchQueue", n>> \in Place
      BY <2>1 DEF Holds, Waits, BatchedAt, Place
    <2>3. OnlyAt(r, "batchQueue", n)
      BY <2>2, OnlyAtLemma
    <2>4. OnlyAt(r, "gone", 0)'
      <3>1. ASSUME NEW k \in Pos
            PROVE  /\ ~QueuedAt(k, "request", r)' /\ ~WaitingAt(k, r)'
                   /\ \A c \in CmdID : CmdOf(c, r) => ~QueuedAt(k, "rply", c)'
        <4>1. k + 1 \in Pos
          BY DEF Pos
        <4>2. QED BY <2>3, <4>1 DEF OnlyAt, QueueStays, WaitingStays
      <3>2. \A c \in CmdID : CmdOf(c, r) => c \notin inMediator'
        BY <2>3 DEF OnlyAt
      <3>3. ~Repeated(r)'
        BY <2>3 DEF OnlyAt, Repeated
      <3>4. QED BY <1>2, <3>1, <3>2, <3>3 DEF OnlyAt, CmdOf
    <2>5. TellsAt(r, "gone", 0)'
      BY DEF TellsAt
    <2>6. Life(r)
      BY <1>2 DEF Life
    <2>7. QED BY <2>4, <2>5, <2>6, MovedGood
  <1>3. QED BY <1>1, <1>2

\* processAllAddSFCIRequests, for the requests whose batch it is.
LEMMA MapBatchGood ==
    ASSUME TypeOK, batch = {}, NEW queue \in Seq(SentSFCI), MapBatch(queue),
           UNCHANGED regulator, NEW r \in Requests,
           OnePlace(r), RowTells(r), NEW x \in {"none", "queue", "waiting"},
           QueueStays(r, x), WaitingStays(r, x),
           \A n \in 1..Len(queue) : queue[n] = r => BatchedAt(n, r)
    PROVE  Good(r)
  <1>1. /\ WroteRejected(db', queue) /\ UNCHANGED <<commandsInfo, inMediator>>
        /\ requestBatchQueue' = <<>>
        /\ \A entry \in batch' : /\ entry[1] \in 1..Len(queue) /\ entry[2] = queue[entry[1]]
                                 /\ submitted[entry[2]].valid
    BY MapBatchLemma
  <1>2. \A n \in Pos : ~BatchedAt(n, r)'
    <2>1. Len(requestBatchQueue') = 0
      BY <1>1
    <2>2. QED BY <2>1 DEF BatchedAt, Pos
  <1>3. ASSUME NEW n \in Pos, <<n, r>> \in batch'
        PROVE  BatchedAt(n, r) /\ submitted[r].valid
    <2> DEFINE entry == <<n, r>>
    <2>1. entry \in batch' /\ entry[1] = n /\ entry[2] = r
      BY <1>3
    <2> HIDE DEF entry
    <2>2. n \in 1..Len(queue) /\ r = queue[n] /\ submitted[r].valid
      BY <1>1, <2>1
    <2>3. QED BY <2>2
  <1>4. \/ db'.Request[r] = db.Request[r]
        \/ /\ ~hasRequest(db, r) /\ ~submitted[r].valid
           /\ \E n \in 1..Len(queue) : queue[n] = r
    BY <1>1 DEF WroteRejected
  <1>5. \A n \in 1..Len(queue) : n \in Pos
    BY DEF Pos
  <1>6. QED BY <1>1, <1>2, <1>3, <1>4, <1>5, BatchGood

\* The same when the mapping raises: the requests are given up.
LEMMA MapBatchRaisesGood ==
    ASSUME TypeOK, batch = {}, NEW queue \in Seq(SentSFCI), NEW e, e = WithRejected(queue),
           UNCHANGED <<regulator, commandsInfo, inMediator, batch>>, requestBatchQueue' = <<>>,
           NEW r \in Requests, db'.Request[r] = e.Request[r],
           OnePlace(r), RowTells(r), NEW x \in {"none", "queue", "waiting"},
           QueueStays(r, x), WaitingStays(r, x),
           \A n \in 1..Len(queue) : queue[n] = r => BatchedAt(n, r)
    PROVE  Good(r)
  <1>1. WroteRejected(e, queue)
    BY WithRejectedLemma
  <1>2. \A n \in Pos : ~BatchedAt(n, r)'
    <2>1. Len(requestBatchQueue') = 0
      OBVIOUS
    <2>2. QED BY <2>1 DEF BatchedAt, Pos
  <1>3. \A n \in Pos : <<n, r>> \notin batch'
    OBVIOUS
  <1>4. \/ db'.Request[r] = db.Request[r]
        \/ ~hasRequest(db, r) /\ \E n \in 1..Len(queue) : queue[n] = r
    BY <1>1 DEF WroteRejected
  <1>5. \A n \in 1..Len(queue) : n \in Pos
    BY DEF Pos
  <1>6. QED BY <1>2, <1>3, <1>4, <1>5, BatchGood

\* _requestHandler takes the first request of the queue or of those that waited.
LEMMA HandlerGood ==
    ASSUME TypeOK, TablesInv, NEW r \in Sent, RequestHandler(r), batch = {},
           \A q \in Requests : OnePlace(q) /\ RowTells(q),
           NEW x \in {"queue", "waiting"}, Waits(<<x, 1>>, r),
           \A q \in Requests : QueueStays(q, x) /\ WaitingStays(q, x)
    PROVE  \A q \in Requests : Good(q)
  <1>0. /\ UNCHANGED <<submitted, regulator>>
        /\ \/ HandleAddSFCI(r)
           \/ HandleAddSFC(r) \/ HandleDelSFCI(r) \/ HandleDelSFC(r) \/ HandleRaises(r)
    BY DEF RequestHandler, clientVars
  <1>1. r \in Requests /\ <<x, 1>> \in Place
    BY SentLemma DEF Place, Pos
  <1>2. OnlyAt(r, x, 1)
    BY <1>1, OnlyAtLemma DEF Holds
  <1>3. NotStarted(r)
    BY <1>1 DEF RowTells
  <1>4. NotQueued(r)' /\ NotBatched(r) /\ NotSent(r) /\ ~Repeated(r)
    BY <1>1, <1>2, HeadLeaves
  <1>5. ~Repeated(r)' /\ \A q \in Requests : TodoStays(q)
    BY <1>0, <1>4 DEF Repeated, TodoStays
  <1>6. CASE HandleAddSFC(r) \/ HandleDelSFCI(r) \/ HandleDelSFC(r) \/ HandleRaises(r)
    <2>1. Handled(r) /\ UNCHANGED <<requestBatchQueue, batch>>
      BY <1>6, HandledLemma
    <2>2. NotBatched(r)' /\ \A q \in Requests : BatchStays(q)
      BY <1>4, <2>1, SameBatchLemma DEF NotBatched, BatchedAt
    <2>3. Good(r)
      BY <1>0, <1>3, <1>4, <1>5, <2>1, <2>2, HandledGood
    <2>4. ASSUME NEW q \in Requests, q # r PROVE Good(q)
      BY <1>5, <2>1, <2>2, <2>4, HandledOthers, ShiftStaysLemma
    <2>5. QED BY <2>3, <2>4
  <1>7. CASE HandleAddSFCI(r)
    <2> DEFINE queue == Append(requestBatchQueue, r)
               e == WithRejected(queue)
    <2>1. /\ r \in SentSFCI /\ requestBatchQueue \in Seq(SentSFCI) /\ db \in DB
      BY <1>7, AddSFCILemma DEF TypeOK
    <2>2. PICK end : end = Len(requestBatchQueue) + 1
      OBVIOUS
    <2>3. /\ queue \in Seq(SentSFCI) /\ end \in Pos /\ queue[end] = r /\ Len(queue) = end
          /\ \A k \in 1..Len(queue) : k # end => k \in 1..Len(requestBatchQueue) /\ queue[k] = requestBatchQueue[k]
          /\ \A k \in 1..Len(requestBatchQueue) : k # end
      BY <2>1, <2>2 DEF Pos
    <2>4. \/ /\ requestBatchQueue' = queue
             /\ UNCHANGED <<commandsInfo, inMediator, db, batch>>
          \/ MapBatch(queue)
          \/ MapBatchRaises(queue, updateRequestState2DB(e, r, REQUEST_STATE_FAILED))
      BY <1>7 DEF HandleAddSFCI, SendNothing
    <2> HIDE DEF queue, e
    <2>5. \A q \in Requests : q # r => \A n \in 1..Len(queue) : queue[n] = q => BatchedAt(n, q)
      BY <2>3 DEF BatchedAt
    <2>6. \A n \in 1..Len(queue) : queue[n] = r => n = end
      <3>1. \A n \in 1..Len(requestBatchQueue) : n \in Pos
        BY DEF Pos
      <3>2. QED BY <1>4, <2>3, <3>1 DEF NotBatched, BatchedAt
    <2>7. CASE requestBatchQueue' = queue /\ UNCHANGED <<commandsInfo, inMediator, db, batch>>
      <3>1. ASSUME NEW q \in Requests, q # r PROVE Good(q)
        <4>1. BatchStays(q)
          BY <2>5, <2>7, <3>1 DEF BatchStays, BatchedAt
        <4>2. RowStays(q) /\ MediatorStays(q)
          BY <2>7 DEF RowStays, MediatorStays
        <4>3. QED BY <1>5, <4>1, <4>2, ShiftStaysLemma
      <3>2. OnlyAt(r, "batchQueue", end)'
        <4>1. \A n \in Pos : BatchedAt(n, r)' => n = end
          BY <2>6, <2>7 DEF BatchedAt
        <4>2. NotSent(r)' /\ \A n \in Pos : <<n, r>> \notin batch'
          BY <1>4, <2>7 DEF NotSent, NotBatched
        <4>3. QED BY <1>4, <1>5, <4>1, <4>2 DEF OnlyAt, NotQueued, NotSent, CmdOf
      <3>3. TellsAt(r, "batchQueue", end)'
        BY <1>3, <2>7 DEF TellsAt, NotStarted
      <3>4. Life(r)
        BY <2>7 DEF Life
      <3>5. QED BY <1>1, <3>1, <3>2, <3>3, <3>4, MovedGood
    <2>8. CASE MapBatch(queue)
      <3>1. /\ WroteRejected(db', queue) /\ UNCHANGED <<commandsInfo, inMediator>>
            /\ requestBatchQueue' = <<>>
            /\ \A entry \in batch' : /\ entry[1] \in 1..Len(queue) /\ entry[2] = queue[entry[1]]
                                     /\ submitted[entry[2]].valid
        BY <2>3, <2>8, MapBatchLemma
      <3>2. ASSUME NEW q \in Requests, q # r PROVE Good(q)
        BY <1>0, <2>3, <2>5, <2>8, <3>2, MapBatchGood
      <3>3. ASSUME NEW n \in Pos, <<n, r>> \in batch'
            PROVE  n = end /\ submitted[r].valid
        <4> DEFINE entry == <<n, r>>
        <4>1. entry \in batch' /\ entry[1] = n /\ entry[2] = r
          BY <3>3
        <4> HIDE DEF entry
        <4>2. n \in 1..Len(queue) /\ r = queue[n] /\ submitted[r].valid
          BY <3>1, <4>1
        <4>3. QED BY <2>6, <4>2
      <3>4. OnlyAt(r, "batch", end)'
        <4>1. \A n \in Pos : ~BatchedAt(n, r)'
          <5>1. Len(requestBatchQueue') = 0
            BY <3>1
          <5>2. QED BY <5>1 DEF BatchedAt, Pos
        <4>2. NotSent(r)'
          BY <1>4, <3>1 DEF NotSent
        <4>3. QED BY <1>4, <1>5, <3>3, <4>1, <4>2 DEF OnlyAt, NotQueued, NotSent, CmdOf
      <3>5. db'.Request[r] = db.Request[r] \/ (~hasRequest(db, r) /\ ~submitted[r].valid)
        BY <1>1, <3>1 DEF WroteRejected
      <3>6. CASE db'.Request[r] = db.Request[r]
        <4>1. TellsAt(r, "batch", end)'
          BY <1>3, <3>6 DEF TellsAt, NotStarted, hasRequest
        <4>2. Life(r)
          BY <3>6 DEF Life
        <4>3. QED BY <1>1, <3>2, <3>4, <4>1, <4>2, MovedGood
      <3>7. CASE ~hasRequest(db, r) /\ ~submitted[r].valid
        <4>1. OnlyAt(r, "gone", 0)'
          BY <3>3, <3>4, <3>7 DEF OnlyAt, CmdOf
        <4>2. TellsAt(r, "gone", 0)'
          BY DEF TellsAt
        <4>3. Life(r)
          BY <3>7 DEF Life
        <4>4. QED BY <1>1, <3>2, <4>1, <4>2, <4>3, MovedGood
      <3>8. QED BY <3>5, <3>6, <3>7
    <2>9. CASE MapBatchRaises(queue, updateRequestState2DB(e, r, REQUEST_STATE_FAILED))
      <3>1. /\ db' = updateRequestState2DB(e, r, REQUEST_STATE_FAILED)
            /\ requestBatchQueue' = <<>> /\ UNCHANGED <<commandsInfo, inMediator, batch>>
        BY <2>9 DEF MapBatchRaises, SendNothing
      <3>2. e = WithRejected(queue)
        BY DEF e
      <3>3. e \in DB
        BY <2>3, <3>2, WithRejectedLemma DEF WroteRejected
      <3>4. WroteRequest(e, db', r, REQUEST_STATE_FAILED)
        BY <1>1, <3>1, <3>3, updateRequestStateLemma DEF RequestState
      <3>5. ASSUME NEW q \in Requests, q # r PROVE Good(q)
        <4>1. db'.Request[q] = e.Request[q]
          BY <3>4, <3>5 DEF WroteRequest
        <4>2. QED BY <1>0, <2>3, <2>5, <3>1, <3>2, <3>5, <4>1, MapBatchRaisesGood
      <3>6. OnlyAt(r, "gone", 0)'
        <4>1. \A n \in Pos : ~BatchedAt(n, r)'
          <5>1. Len(requestBatchQueue') = 0
            BY <3>1
          <5>2. QED BY <5>1 DEF BatchedAt, Pos
        <4>2. NotSent(r)' /\ \A n \in Pos : <<n, r>> \notin batch'
          BY <1>4, <3>1 DEF NotSent, NotBatched
        <4>3. QED BY <1>4, <1>5, <4>1, <4>2 DEF OnlyAt, NotQueued, NotSent, CmdOf
      <3>7. TellsAt(r, "gone", 0)'
        BY DEF TellsAt
      <3>8. Life(r)
        BY <1>3, <3>4 DEF Life, NotStarted, WroteRequest
      <3>9. QED BY <1>1, <3>5, <3>6, <3>7, <3>8, MovedGood
    <2>10. QED BY <2>4, <2>7, <2>8, <2>9
  <1>8. QED BY <1>0, <1>6, <1>7
-----------------------------------------------------------------------------
(***************************************************************************)
(* The steps of the loop.                                                  *)
(***************************************************************************)
LEMMA LoopGood ==
    ASSUME AllInv, OnceInv, redeliveries = 0,
           TakeRequest \/ PostponeRequest \/ BatchTimeout \/ BatchStep \/ TakeWaitingRequest
    PROVE  \A r \in Requests : Good(r)
  <1>1. /\ TypeOK /\ LoopInv /\ TablesInv
        /\ \A r \in Requests : OnePlace(r) /\ RowTells(r)
    BY DEF AllInv, OnceInv
  <1>2. CASE TakeRequest
    <2>1. PICK r : r = Head(orchestratorQueue).id
      OBVIOUS
    <2>2. Take("request") /\ RequestHandler(r) /\ UNCHANGED requestWaitingQueue
      BY <1>2, <2>1 DEF TakeRequest
    <2>3. r \in Sent /\ batch = {}
      BY <1>1, <2>1, <2>2, TakeLemma, MsgLemma
    <2>4. /\ QueuedAt(1, "request", r)
          /\ \A n \in Pos : \A k, id : QueuedAt(n, k, id)' => QueuedAt(n + 1, k, id)
      BY <1>1, <2>1, <2>2, TakeQueuedLemma
    <2>5. Waits(<<"queue", 1>>, r)
      BY <2>4 DEF Waits
    <2>6. \A q \in Requests : QueueStays(q, "queue") /\ WaitingStays(q, "queue")
      BY <2>2, <2>4 DEF QueueStays, WaitingStays, WaitingAt
    <2>7. QED BY <1>1, <2>2, <2>3, <2>5, <2>6, HandlerGood
  <1>3. CASE TakeWaitingRequest
    <2>1. PICK r : r = Head(requestWaitingQueue)
      OBVIOUS
    <2>2. /\ RequestHandler(r) /\ UNCHANGED orchestratorQueue /\ batch = {}
          /\ requestWaitingQueue' = Tail(requestWaitingQueue)
          /\ requestWaitingQueue \in Seq(Sent) /\ requestWaitingQueue # <<>>
      BY <1>1, <1>3, <2>1 DEF TakeWaitingRequest, LoopInv, TypeOK
    <2>3. /\ r \in Sent /\ r = requestWaitingQueue[1] /\ Len(requestWaitingQueue) \in Pos
          /\ \A k \in 1..Len(requestWaitingQueue') :
                k + 1 \in 1..Len(requestWaitingQueue) /\ requestWaitingQueue'[k] = requestWaitingQueue[k + 1]
      BY <2>1, <2>2, TailLemma
    <2>4. Waits(<<"waiting", 1>>, r)
      <3>1. 1 \in 1..Len(requestWaitingQueue)
        BY <2>3 DEF Pos
      <3>2. QED BY <2>3, <3>1 DEF Waits
    <2>5. \A q \in Requests : QueueStays(q, "waiting") /\ WaitingStays(q, "waiting")
      BY <2>2, <2>3, SameQueueLemma DEF SameQueue, QueueStays, WaitingStays, WaitingAt
    <2>6. QED BY <1>1, <2>2, <2>3, <2>4, <2>5, HandlerGood
  <1>4. CASE PostponeRequest
    <2>1. PICK r : r = Head(orchestratorQueue).id
      OBVIOUS
    <2>2. /\ Take("request") /\ requestWaitingQueue' = Append(requestWaitingQueue, r)
          /\ UNCHANGED <<db, commandsInfo, inMediator, requestBatchQueue, batch, regulator>>
      BY <1>4, <2>1 DEF PostponeRequest, tableVars, serverVars
    <2>3. r \in Sent /\ r \in Requests
      BY <1>1, <2>1, <2>2, TakeLemma, MsgLemma, SentLemma
    <2>4. /\ QueuedAt(1, "request", r)
          /\ \A n \in Pos : \A k, id : QueuedAt(n, k, id)' => QueuedAt(n + 1, k, id)
      BY <1>1, <2>1, <2>2, TakeQueuedLemma
    <2>5. PICK end : end = Len(requestWaitingQueue) + 1
      OBVIOUS
    <2>6. /\ requestWaitingQueue'[end] = r /\ end \in Pos
          /\ \A k \in 1..Len(requestWaitingQueue') :
                k # end => k \in 1..Len(requestWaitingQueue) /\ requestWaitingQueue'[k] = requestWaitingQueue[k]
      <3>1. requestWaitingQueue \in Seq(Sent)
        BY <1>1 DEF TypeOK
      <3>2. QED BY <2>2, <2>3, <2>5, <3>1 DEF Pos
    <2>7. \A q \in Requests : /\ QueueStays(q, "queue") /\ BatchStays(q) /\ RowStays(q)
                              /\ MediatorStays(q) /\ TodoStays(q)
      BY <2>2, <2>4, SameBatchLemma DEF QueueStays, RowStays, MediatorStays, TodoStays
    <2>8. ASSUME NEW q \in Requests, q # r PROVE Good(q)
      <3>1. WaitingStays(q, "queue")
        BY <2>6, <2>8 DEF WaitingStays, WaitingAt
      <3>2. QED BY <1>1, <2>7, <3>1, ShiftStaysLemma
    <2>9. OnlyAt(r, "queue", 1) /\ NotStarted(r)
      <3>1. Waits(<<"queue", 1>>, r) /\ <<"queue", 1>> \in Place
        BY <2>4 DEF Waits, Place, Pos
      <3>2. QED BY <1>1, <2>3, <3>1, OnlyAtLemma DEF Holds, RowTells
    <2>10. OnlyAt(r, "waiting", end)'
      <3>1. \A n \in Pos : n + 1 \in Pos /\ n + 1 # 1
        BY DEF Pos
      <3>2. \A n \in Pos : ~QueuedAt(n, "request", r)'
        BY <2>4, <2>9, <3>1 DEF OnlyAt
      <3>3. \A n \in Pos : \A c \in CmdID : CmdOf(c, r) => ~QueuedAt(n, "rply", c)'
        BY <2>4, <2>9, <3>1 DEF OnlyAt
      <3>4. \A n \in Pos : WaitingAt(n, r)' => n = end
        BY <2>6, <2>9 DEF OnlyAt, WaitingAt
      <3>5. \A n \in Pos : ~BatchedAt(n, r)' /\ <<n, r>> \notin batch'
        BY <2>2, <2>9 DEF OnlyAt, BatchedAt
      <3>6. NotSent(r)' /\ ~Repeated(r)'
        BY <2>2, <2>9 DEF OnlyAt, NotSent, Repeated
      <3>7. QED BY <3>2, <3>3, <3>4, <3>5, <3>6 DEF OnlyAt, NotSent, CmdOf
    <2>11. TellsAt(r, "waiting", end)' /\ Life(r)
      BY <2>2, <2>9 DEF TellsAt, NotStarted, Life
    <2>12. QED BY <2>3, <2>8, <2>10, <2>11, MovedGood
  <1>5. CASE BatchTimeout
    <2>1. /\ batch = {} /\ UNCHANGED <<orchestratorQueue, requestWaitingQueue, regulator>>
          /\ requestBatchQueue \in Seq(SentSFCI)
          /\ \/ MapBatch(requestBatchQueue)
             \/ MapBatchRaises(requestBatchQueue, WithRejected(requestBatchQueue))
      BY <1>1, <1>5 DEF BatchTimeout, TypeOK
    <2>2. \A q \in Requests : QueueStays(q, "none") /\ WaitingStays(q, "none")
      BY <2>1, SameQueueLemma DEF SameQueue, QueueStays, WaitingStays, WaitingAt
    <2>3. \A q \in Requests : \A n \in 1..Len(requestBatchQueue) : requestBatchQueue[n] = q => BatchedAt(n, q)
      BY DEF BatchedAt
    <2>4. CASE MapBatch(requestBatchQueue)
      BY <1>1, <2>1, <2>2, <2>3, <2>4, MapBatchGood
    <2>5. CASE MapBatchRaises(requestBatchQueue, WithRejected(requestBatchQueue))
      <3>1. /\ db' = WithRejected(requestBatchQueue) /\ requestBatchQueue' = <<>>
            /\ UNCHANGED <<commandsInfo, inMediator, batch>>
        BY <2>5 DEF MapBatchRaises, SendNothing
      <3>2. QED BY <1>1, <2>1, <2>2, <2>3, <3>1, MapBatchRaisesGood
    <2>6. QED BY <2>1, <2>4, <2>5
  <1>6. CASE BatchStep
    <2>1. PICK entry \in batch : BatchEntry(entry)
      BY <1>6 DEF BatchStep, BatchEntry
    <2>2. PICK n0 \in Pos, r \in SentSFCI : entry = <<n0, r>>
      BY <1>1 DEF TypeOK
    <2>3. Handled(r) /\ batch' = batch \ {entry} /\ r \in Sent /\ r \in Requests
      <3>1. r = entry[2] /\ r \in SentSFCI
        BY <2>2
      <3>2. Handled(r)
        BY <1>1, <2>1, <3>1, HandledBatchLemma DEF BatchEntry
      <3>3. QED BY <1>1, <2>1, <3>1, <3>2, SentLemma DEF BatchEntry, SentSFCI
    <2>4. UNCHANGED <<requestBatchQueue, requestWaitingQueue, orchestratorQueue, regulator, submitted>>
      BY <1>6 DEF BatchStep, clientVars
    <2>5. OnlyAt(r, "batch", n0) /\ NotStarted(r)
      <3>1. Waits(<<"batch", n0>>, r) /\ <<"batch", n0>> \in Place
        BY <2>2 DEF Waits, Place
      <3>2. QED BY <1>1, <2>3, <3>1, OnlyAtLemma DEF Holds, RowTells
    <2>6. SameQueue
      BY <2>4, SameQueueLemma
    <2>7. \A q \in Requests : /\ QueueStays(q, "none") /\ WaitingStays(q, "none")
                              /\ BatchStays(q) /\ TodoStays(q)
      <3>1. \A q \in Requests : QueueStays(q, "none")
        BY <2>6 DEF SameQueue, QueueStays
      <3>2. \A q \in Requests : WaitingStays(q, "none") /\ TodoStays(q)
        BY <2>4 DEF WaitingStays, WaitingAt, TodoStays
      <3>3. \A q \in Requests : BatchStays(q)
        BY <2>3, <2>4 DEF BatchStays, BatchedAt
      <3>4. QED BY <3>1, <3>2, <3>3
    <2>8. Good(r)
      <3>1. NotQueued(r)'
        <4>1. \A n \in Pos : ~QueuedAt(n, "request", r)'
          BY <2>5, <2>6 DEF OnlyAt, SameQueue
        <4>2. \A n \in Pos : \A c \in CmdID : CmdOf(c, r) => ~QueuedAt(n, "rply", c)'
          BY <2>5, <2>6 DEF OnlyAt, SameQueue
        <4>3. \A n \in Pos : ~WaitingAt(n, r)'
          BY <2>4, <2>5 DEF OnlyAt, WaitingAt
        <4>4. QED BY <4>1, <4>2, <4>3 DEF NotQueued, CmdOf
      <3>2. NotBatched(r)'
        <4>1. \A n \in Pos : ~BatchedAt(n, r)'
          BY <2>4, <2>5 DEF OnlyAt, BatchedAt
        <4>2. \A n \in Pos : <<n, r>> \notin batch'
          BY <2>2, <2>3, <2>5 DEF OnlyAt
        <4>3. QED BY <4>1, <4>2 DEF NotBatched
      <3>3. NotSent(r) /\ ~Repeated(r)'
        BY <2>4, <2>5 DEF OnlyAt, NotSent, Repeated
      <3>4. QED BY <1>1, <2>3, <2>4, <2>5, <3>1, <3>2, <3>3, HandledGood
    <2>9. ASSUME NEW q \in Requests, q # r PROVE Good(q)
      BY <1>1, <2>3, <2>7, <2>9, HandledOthers, ShiftStaysLemma
    <2>10. QED BY <2>8, <2>9
  <1>7. QED BY <1>2, <1>3, <1>4, <1>5, <1>6
-----------------------------------------------------------------------------
(***************************************************************************)
(* The replies, the mediator, the regulator and the clients.               *)
(***************************************************************************)
\* The reply to command c of request r is taken and written.
RplyTaken(c, r) ==
    /\ c \in CmdID /\ c \in SentCmd /\ r \in Sent /\ r \in Requests /\ CmdOf(c, r)
    /\ Running(c, r) /\ OnlyAt(r, "queue", 1) /\ RplyWritten(r)
    /\ Head(orchestratorQueue).id = c
    /\ db' = cmdRplyHandler(db, r, submitted[r], Head(orchestratorQueue).cmdState)
    /\ \A b \in DOMAIN commandsInfo : b # c => b \in DOMAIN commandsInfo'
    /\ \A b : RplyIn(b) /\ b # c => RplyIn(b)'
    /\ UNCHANGED <<submitted, inMediator, requestBatchQueue, batch, requestWaitingQueue, runningState,
                   regulator>>

LEMMA TakeRplyLemma ==
    ASSUME AllInv, OnceInv, redeliveries = 0, TakeRply
    PROVE  \E c, r : RplyTaken(c, r)
  <1>1. /\ TypeOK /\ EntriesAreOwn /\ db \in DB
        /\ \A r \in Requests : OnePlace(r) /\ RowTells(r)
    BY DEF AllInv, OnceInv, TablesInv
  <1>2. PICK m : m = Head(orchestratorQueue)
    OBVIOUS
  <1>3. PICK c, r : c = m.id /\ r = c[1]
    OBVIOUS
  <1>4. /\ Take("rply") /\ m \in SentMsg /\ m.kind = "rply"
        /\ \A b : RplyIn(b) /\ b # c => RplyIn(b)'
    BY <1>1, <1>2, <1>3, TakeLemma DEF TakeRply
  <1>5. /\ c \in CmdID /\ c \in SentCmd /\ r \in Sent /\ r \in Requests /\ CmdOf(c, r)
        /\ m.cmdState \in {CMD_STATE_SUCCESSFUL, CMD_STATE_FAIL}
    BY <1>1, <1>3, <1>4, MsgLemma, SentLemma DEF CmdOf
  <1>6. QueuedAt(1, "rply", c)
    BY <1>1, <1>2, <1>3, <1>4, TakeQueuedLemma
  <1>7. Runs(<<"queue", 1>>, c) /\ <<"queue", 1>> \in Place
    BY <1>6 DEF Runs, Place, Pos
  <1>8. OnlyAt(r, "queue", 1) /\ Running(c, r)
    BY <1>1, <1>5, <1>7, OnlyAtLemma DEF Holds, RowTells
  <1>9. PICK recorded : recorded = addCmdRply(changeCmdState(commandsInfo, c, m.cmdState), c, m)
    OBVIOUS
  <1>10. /\ db' = cmdRplyHandler(db, r, submitted[r], m.cmdState)
         /\ commandsInfo' = recorded \/ commandsInfo' = delCmdwithChildCmd(recorded, c)
         /\ UNCHANGED <<submitted, inMediator, requestBatchQueue, batch, requestWaitingQueue,
                        runningState, regulator>>
    <2>1. hasCmd(commandsInfo, c) /\ hasRequest(db, r) /\ db.Request[r].cmdID = c
      BY <1>8 DEF Running, hasCmd
    <2>2. r \in RequestsByCmdID(db, c)
      BY <1>1, <1>5, <2>1 DEF RequestsByCmdID, DB
    <2>3. QED BY <1>2, <1>3, <1>9, <2>1, <2>2 DEF TakeRply, serverVars, clientVars
  <1>11. RplyWritten(r)
    BY <1>1, <1>5, <1>8, <1>10, RplyWrittenLemma DEF Running
  <1>12. \A b \in DOMAIN commandsInfo : b # c => b \in DOMAIN commandsInfo'
    <2>1. c \in DOMAIN commandsInfo
      BY <1>8 DEF Running
    <2>2. DOMAIN recorded = DOMAIN commandsInfo /\ recorded[c] \in Entry
      BY <1>1, <1>3, <1>4, <1>9, <2>1, recordedLemma
    <2>3. commandsInfo' = delCmdwithChildCmd(recorded, c) => DOMAIN commandsInfo' = DOMAIN recorded \ {c}
      BY <2>1, <2>2, delCmdLemma
    <2>4. QED BY <1>10, <2>2, <2>3
  <1>13. RplyTaken(c, r)
    BY <1>2, <1>3, <1>4, <1>5, <1>8, <1>10, <1>11, <1>12 DEF RplyTaken
  <1>14. QED BY <1>13

LEMMA TakeRplyGood ==
    ASSUME AllInv, OnceInv, redeliveries = 0, TakeRply
    PROVE  \A r \in Requests : Good(r)
  <1>1. TypeOK /\ \A r \in Requests : OnePlace(r) /\ RowTells(r)
    BY DEF AllInv, OnceInv
  <1>2. PICK c, r : RplyTaken(c, r)
    BY TakeRplyLemma
  <1>3. /\ c \in CmdID /\ r \in Requests /\ CmdOf(c, r) /\ Running(c, r) /\ OnlyAt(r, "queue", 1)
        /\ RplyWritten(r) /\ \A b \in DOMAIN commandsInfo : b # c => b \in DOMAIN commandsInfo'
        /\ UNCHANGED <<inMediator, requestBatchQueue, batch, requestWaitingQueue, regulator>>
    BY <1>2 DEF RplyTaken
  <1>4. \A n \in Pos : \A k, id : QueuedAt(n, k, id)' => QueuedAt(n + 1, k, id)
    BY <1>1, TakeQueuedLemma DEF TakeRply
  <1>5. \A q \in Requests : /\ QueueStays(q, "queue") /\ WaitingStays(q, "queue") /\ BatchStays(q)
                            /\ MediatorStays(q) /\ TodoStays(q)
    BY <1>3, <1>4, SameBatchLemma
       DEF QueueStays, WaitingStays, WaitingAt, MediatorStays, TodoStays
  <1>6. ASSUME NEW q \in Requests, q # r PROVE Good(q)
    <2>1. RowStays(q)
      BY <1>3, <1>6 DEF RowStays, RplyWritten, CmdOf
    <2>2. QED BY <1>1, <1>5, <2>1, ShiftStaysLemma
  <1>7. Good(r)
    <2>1. NotQueued(r)' /\ NotBatched(r) /\ NotSent(r) /\ ~Repeated(r)
      BY <1>3, <1>5, HeadLeaves
    <2>2. NotBatched(r)' /\ NotSent(r)' /\ ~Repeated(r)'
      BY <1>3, <2>1 DEF NotBatched, BatchedAt, NotSent, Repeated
    <2>3. OnlyAt(r, "gone", 0)'
      BY <2>1, <2>2 DEF OnlyAt, NotQueued, NotBatched, NotSent, CmdOf
    <2>4. TellsAt(r, "gone", 0)'
      BY DEF TellsAt
    <2>5. Life(r)
      BY <1>3 DEF Life, Running, RplyWritten
    <2>6. QED BY <1>3, <2>3, <2>4, <2>5, MovedGood
  <1>8. QED BY <1>6, <1>7

LEMMA MediatorGood ==
    ASSUME AllInv, OnceInv, redeliveries = 0, NEW c \in inMediator, MediatorAnswer(c)
    PROVE  \A r \in Requests : Good(r)
  <1>1. TypeOK /\ \A r \in Requests : OnePlace(r) /\ RowTells(r)
    BY DEF AllInv, OnceInv
  <1>2. /\ inMediator' = inMediator \ {c}
        /\ UNCHANGED <<db, commandsInfo, requestBatchQueue, batch, requestWaitingQueue, regulator>>
    BY DEF MediatorAnswer, loopVars, tableVars
  <1>3. PICK m : orchestratorQueue' = Append(orchestratorQueue, m) /\ m.kind = "rply" /\ m.id = c
    <2>1. PICK cmdState \in {CMD_STATE_SUCCESSFUL, CMD_STATE_FAIL} :
              orchestratorQueue' =
                Append(orchestratorQueue, [kind |-> "rply", id |-> c, cmdState |-> cmdState])
      BY DEF MediatorAnswer
    <2>2. QED BY <2>1
  <1>4. PICK r, k : r = c[1] /\ k = c[2]
    OBVIOUS
  <1>5. /\ c \in CmdID /\ r \in Requests /\ CmdOf(c, r) /\ k \in Pos
        /\ c = <<r, k>>
    BY <1>1, <1>4, SentLemma DEF TypeOK, SentCmd, CmdOf
  <1>6. PICK end : end = Len(orchestratorQueue) + 1
    OBVIOUS
  <1>7. /\ end \in Pos /\ QueuedAt(end, "rply", c)'
        /\ \A n \in Pos : \A kind, id : QueuedAt(n, kind, id)' =>
              QueuedAt(n, kind, id) \/ (n = end /\ kind = "rply" /\ id = c)
    BY <1>1, <1>3, <1>6, AppendQueuedLemma
  <1>8. \A q \in Requests : /\ WaitingStays(q, "none") /\ BatchStays(q) /\ RowStays(q)
                            /\ MediatorStays(q) /\ TodoStays(q)
    BY <1>2, SameBatchLemma DEF WaitingStays, WaitingAt, RowStays, MediatorStays, TodoStays
  <1>9. ASSUME NEW q \in Requests, q # r PROVE Good(q)
    <2>1. QueueStays(q, "none")
      BY <1>4, <1>7, <1>9 DEF QueueStays, CmdOf
    <2>2. QED BY <1>1, <1>8, <2>1, ShiftStaysLemma
  <1>10. OnlyAt(r, "mediator", k) /\ Running(c, r)
    <2>1. Runs(<<"mediator", k>>, c) /\ <<"mediator", k>> \in Place
      BY <1>4, <1>5 DEF Runs, Place
    <2>2. QED BY <1>1, <1>5, <2>1, OnlyAtLemma DEF Holds, RowTells
  <1>0. ASSUME NEW n \in Pos
        PROVE  /\ ~QueuedAt(n, "request", r)'
               /\ \A b \in CmdID : CmdOf(b, r) /\ QueuedAt(n, "rply", b)' => n = end /\ b = c
    <2>1. ~QueuedAt(n, "request", r) /\ \A b \in CmdID : CmdOf(b, r) => ~QueuedAt(n, "rply", b)
      BY <1>10 DEF OnlyAt
    <2>2. \A kind, id : QueuedAt(n, kind, id)' =>
             QueuedAt(n, kind, id) \/ (n = end /\ kind = "rply" /\ id = c)
      BY <1>7
    <2>3. "request" # "rply"
      OBVIOUS
    <2>4. QED BY <2>1, <2>2, <2>3
  <1>11. OnlyAt(r, "queue", end)'
    <2>1. \A n \in Pos : ~QueuedAt(n, "request", r)'
      BY <1>0
    <2>2. \A n \in Pos : \A b \in CmdID : CmdOf(b, r) /\ QueuedAt(n, "rply", b)' => n = end
      BY <1>0
    <2>3. \A n \in Pos : ~WaitingAt(n, r)' /\ ~BatchedAt(n, r)' /\ <<n, r>> \notin batch'
      BY <1>2, <1>10 DEF OnlyAt, WaitingAt, BatchedAt
    <2>4. \A b \in CmdID : CmdOf(b, r) => b \notin inMediator'
      <3> SUFFICES ASSUME NEW b \in CmdID, CmdOf(b, r), b \in inMediator', b # c PROVE FALSE
        BY <1>2
      <3>1. b[1] = r /\ b[2] = k
        BY <1>2, <1>10 DEF OnlyAt, CmdOf
      <3>2. b = <<b[1], b[2]>>
        BY DEF CmdID
      <3>3. QED BY <1>5, <3>1, <3>2
    <2>5. ~Repeated(r)'
      BY <1>2, <1>10 DEF OnlyAt, Repeated
    <2>6. QED BY <2>1, <2>2, <2>3, <2>4, <2>5 DEF OnlyAt, CmdOf
  <1>12. TellsAt(r, "queue", end)'
    <2>1. ~QueuedAt(end, "request", r)'
      BY <1>0, <1>7
    <2>2. ASSUME NEW b \in CmdID, CmdOf(b, r), QueuedAt(end, "rply", b)'
          PROVE  Running(b, r)'
      <3>1. b = c
        BY <1>0, <1>7, <2>2
      <3>2. QED BY <1>2, <1>10, <3>1 DEF Running
    <2>3. QED BY <2>1, <2>2 DEF TellsAt, CmdOf
  <1>13. Life(r)
    BY <1>2 DEF Life
  <1>14. QED BY <1>5, <1>9, <1>11, <1>12, <1>13, MovedGood

LEMMA RetryReadGood ==
    ASSUME AllInv, OnceInv, redeliveries = 0, RetryRead
    PROVE  \A r \in Requests : Good(r)
  <1>1. TypeOK /\ \A r \in Requests : OnePlace(r) /\ RowTells(r)
    BY DEF AllInv, OnceInv
  <1>2. PICK failed : failed = {r \in Requests : /\ hasRequest(db, r)
                                                 /\ db.Request[r].state = REQUEST_STATE_FAILED
                                                 /\ db.Request[r].retryCnt < MAX_RETRY_NUM}
    OBVIOUS
  <1>3. /\ regulator = [task |-> "none"] /\ regulator' = [task |-> "retry", todo |-> failed]
        /\ UNCHANGED <<db, commandsInfo, orchestratorQueue, requestBatchQueue, batch,
                       requestWaitingQueue, inMediator>>
    BY <1>2 DEF RetryRead, Idle, tableVars, loopVars, serverVars
  <1>4. \A q \in Requests : /\ QueueStays(q, "none") /\ WaitingStays(q, "none") /\ BatchStays(q)
                            /\ RowStays(q) /\ MediatorStays(q)
    BY <1>3, SameBatchLemma, SameQueueLemma
       DEF SameQueue, QueueStays, WaitingStays, WaitingAt, RowStays, MediatorStays
  <1>5. ASSUME NEW r \in Requests, r \notin failed PROVE Good(r)
    <2>1. TodoStays(r)
      BY <1>3, <1>5 DEF TodoStays
    <2>2. QED BY <1>1, <1>4, <2>1, ShiftStaysLemma
  <1>6. ASSUME NEW r \in failed PROVE Good(r)
    <2>1. /\ r \in Requests /\ hasRequest(db, r) /\ db.Request[r].state = REQUEST_STATE_FAILED
      BY <1>2
    <2>2. ~NotStarted(r) /\ \A c : ~Running(c, r)
      BY <2>1 DEF NotStarted, Running, REQUEST_STATE_FAILED, REQUEST_STATE_INITIAL,
                  REQUEST_STATE_IN_PROCESSING
    <2>3. \A p \in Place : ~Waits(p, r) /\ \A c \in CmdID : CmdOf(c, r) => ~Runs(p, c)
      BY <1>1, <2>1, <2>2 DEF RowTells
    <2>4. ASSUME NEW n \in Pos
          PROVE  /\ ~QueuedAt(n, "request", r) /\ ~WaitingAt(n, r) /\ ~BatchedAt(n, r)
                 /\ <<n, r>> \notin batch
                 /\ \A c \in CmdID : CmdOf(c, r) => ~QueuedAt(n, "rply", c)
      <3>1. \A x \in {"queue", "waiting", "batchQueue", "batch"} : <<x, n>> \in Place
        BY DEF Place
      <3>2. ~QueuedAt(n, "request", r)
        BY <2>3, <3>1 DEF Waits
      <3>3. ~WaitingAt(n, r)
        BY <2>3, <3>1 DEF Waits, WaitingAt
      <3>4. ~BatchedAt(n, r)
        BY <2>3, <3>1 DEF Waits, BatchedAt
      <3>5. <<n, r>> \notin batch
        BY <2>3, <3>1 DEF Waits
      <3>6. \A c \in CmdID : CmdOf(c, r) => ~QueuedAt(n, "rply", c)
        BY <2>3, <3>1 DEF Runs
      <3>7. QED BY <3>2, <3>3, <3>4, <3>5, <3>6
    <2>5. ASSUME NEW c \in CmdID, CmdOf(c, r), c \in inMediator PROVE FALSE
      <3>1. c[2] \in Pos
        BY <1>1, <2>5 DEF TypeOK, SentCmd
      <3>2. Runs(<<"mediator", c[2]>>, c) /\ <<"mediator", c[2]>> \in Place
        BY <2>5, <3>1 DEF Runs, Place
      <3>3. QED BY <2>3, <2>5, <3>2
    <2>6. OnlyAt(r, "todo", 1)'
      <3>1. \A n \in Pos :
               /\ ~QueuedAt(n, "request", r)' /\ ~WaitingAt(n, r)' /\ ~BatchedAt(n, r)'
               /\ <<n, r>> \notin batch'
               /\ \A c \in CmdID : CmdOf(c, r) => ~QueuedAt(n, "rply", c)'
        BY <1>3, <2>4 DEF QueuedAt, WaitingAt, BatchedAt
      <3>2. \A c \in CmdID : CmdOf(c, r) => c \notin inMediator'
        BY <1>3, <2>5
      <3>3. QED BY <3>1, <3>2 DEF OnlyAt, CmdOf
    <2>7. TellsAt(r, "todo", 1)' /\ Life(r)
      BY <1>3, <2>1 DEF TellsAt, Failed, Life
    <2>8. QED BY <2>1, <2>6, <2>7, MovedGood
  <1>7. QED BY <1>5, <1>6

LEMMA RetryWriteGood ==
    ASSUME AllInv, OnceInv, redeliveries = 0, NEW r \in Requests, RetryWrite(r)
    PROVE  \A q \in Requests : Good(q)
  <1>1. /\ TypeOK /\ db \in DB
        /\ \A q \in Requests : OnePlace(q) /\ RowTells(q)
    BY DEF AllInv, OnceInv, TypeOK
  <1>2. PICK m : m = [kind |-> "request", id |-> r]
    OBVIOUS
  <1>3. PICK e : e = updateRequestState2DB(db, r, REQUEST_STATE_INITIAL)
    OBVIOUS
  <1>4. /\ regulator.task = "retry" /\ r \in regulator.todo
        /\ db' = incRequestRetryCnt(e, r)
        /\ orchestratorQueue' = Append(orchestratorQueue, m)
        /\ regulator' = IF regulator.todo = {r} THEN [task |-> "none"]
                        ELSE [regulator EXCEPT !.todo = @ \ {r}]
        /\ UNCHANGED <<commandsInfo, requestBatchQueue, batch, requestWaitingQueue, inMediator>>
    BY <1>2, <1>3 DEF RetryWrite, Idle, loopVars, serverVars
  <1>5. m.kind = "request" /\ m.id = r
    BY <1>2
  <1>6. \A q \in Requests : Repeated(q)' => Repeated(q) /\ q # r
    <2>1. regulator \in [task : {"retry"}, todo : SUBSET Sent]
      BY <1>1, <1>4 DEF TypeOK
    <2>2. QED BY <1>4, <2>1 DEF Repeated
  <1>7. WroteRequest(db, e, r, REQUEST_STATE_INITIAL)
    BY <1>1, <1>3, updateRequestStateLemma DEF RequestState
  <1>8. WroteRequest(e, db', r, REQUEST_STATE_INITIAL)
    <2>1. e \in DB /\ hasRequest(e, r) /\ e.Request[r].state = REQUEST_STATE_INITIAL
      BY <1>7 DEF WroteRequest
    <2>2. QED BY <1>4, <2>1, incRequestRetryCntLemma
  <1>9. PICK end : end = Len(orchestratorQueue) + 1
    OBVIOUS
  <1>10. /\ end \in Pos
         /\ \A n \in Pos : \A kind, id : QueuedAt(n, kind, id)' =>
               QueuedAt(n, kind, id) \/ (n = end /\ kind = "request" /\ id = r)
    BY <1>1, <1>4, <1>5, <1>9, AppendQueuedLemma
  <1>11. \A q \in Requests : /\ WaitingStays(q, "none") /\ BatchStays(q) /\ MediatorStays(q)
                             /\ TodoStays(q)
    BY <1>4, <1>6, SameBatchLemma DEF WaitingStays, WaitingAt, MediatorStays, TodoStays, Repeated
  <1>12. ASSUME NEW q \in Requests, q # r PROVE Good(q)
    <2>1. QueueStays(q, "none")
      BY <1>10, <1>12 DEF QueueStays
    <2>2. RowStays(q)
      BY <1>4, <1>7, <1>8, <1>12 DEF RowStays, WroteRequest
    <2>3. QED BY <1>1, <1>11, <2>1, <2>2, ShiftStaysLemma
  <1>13. OnlyAt(r, "todo", 1) /\ Failed(r)
    <2>1. Repeats(<<"todo", 1>>, r) /\ <<"todo", 1>> \in Place
      BY <1>4 DEF Repeats, Place, Pos
    <2>2. QED BY <1>1, <2>1, OnlyAtLemma DEF Holds, RowTells
  <1>14. ASSUME NEW n \in Pos
         PROVE  /\ QueuedAt(n, "request", r)' => n = end
                /\ \A b \in CmdID : CmdOf(b, r) => ~QueuedAt(n, "rply", b)'
    <2>1. ~QueuedAt(n, "request", r) /\ \A b \in CmdID : CmdOf(b, r) => ~QueuedAt(n, "rply", b)
      BY <1>13 DEF OnlyAt
    <2>2. \A kind, id : QueuedAt(n, kind, id)' =>
             QueuedAt(n, kind, id) \/ (n = end /\ kind = "request" /\ id = r)
      BY <1>10
    <2>3. "request" # "rply"
      OBVIOUS
    <2>4. QED BY <2>1, <2>2, <2>3
  <1>15. OnlyAt(r, "queue", end)'
    <2>1. \A n \in Pos : ~WaitingAt(n, r)' /\ ~BatchedAt(n, r)' /\ <<n, r>> \notin batch'
      BY <1>4, <1>13 DEF OnlyAt, WaitingAt, BatchedAt
    <2>2. \A b \in CmdID : CmdOf(b, r) => b \notin inMediator'
      BY <1>4, <1>13 DEF OnlyAt
    <2>3. QED BY <1>6, <1>14, <2>1, <2>2 DEF OnlyAt, CmdOf
  <1>16. TellsAt(r, "queue", end)'
    <2>1. NotStarted(r)'
      BY <1>8 DEF NotStarted, WroteRequest
    <2>2. QED BY <1>10, <1>14, <2>1 DEF TellsAt, CmdOf
  <1>17. Life(r)
    BY <1>8, <1>13 DEF Life, Failed, WroteRequest
  <1>18. QED BY <1>12, <1>15, <1>16, <1>17, MovedGood

LEMMA SubmitGood ==
    ASSUME AllInv, OnceInv, redeliveries = 0,
           NEW r \in Requests, NEW request \in Request, Submit(r, request)
    PROVE  \A q \in Requests : Good(q)
  <1>1. /\ TypeOK /\ CmdIDsAreOwn
        /\ \A q \in Requests : OnePlace(q) /\ RowTells(q)
    BY DEF AllInv, OnceInv, TablesInv
  <1>2. PICK m : m = [kind |-> "request", id |-> r]
    OBVIOUS
  <1>3. /\ submitted[r] = None /\ orchestratorQueue' = Append(orchestratorQueue, m)
        /\ m.kind = "request" /\ m.id = r
        /\ UNCHANGED <<db, commandsInfo, requestBatchQueue, batch, requestWaitingQueue, inMediator,
                       regulator>>
    BY <1>2 DEF Submit, loopVars, tableVars, serverVars
  <1>4. r \notin Sent
    BY <1>3 DEF Sent
  <1>5. PICK end : end = Len(orchestratorQueue) + 1
    OBVIOUS
  <1>6. /\ end \in Pos
        /\ \A n \in Pos : \A kind, id : QueuedAt(n, kind, id)' =>
              QueuedAt(n, kind, id) \/ (n = end /\ kind = "request" /\ id = r)
    BY <1>1, <1>3, <1>5, AppendQueuedLemma
  <1>7. \A q \in Requests : /\ WaitingStays(q, "none") /\ BatchStays(q) /\ MediatorStays(q)
                            /\ TodoStays(q) /\ RowStays(q)
    BY <1>3, SameBatchLemma DEF WaitingStays, WaitingAt, MediatorStays, TodoStays, RowStays
  <1>8. ASSUME NEW q \in Requests, q # r PROVE Good(q)
    <2>1. QueueStays(q, "none")
      BY <1>6, <1>8 DEF QueueStays
    <2>2. QED BY <1>1, <1>7, <2>1, ShiftStaysLemma
  <1>9. ASSUME NEW n \in Pos
        PROVE  /\ ~QueuedAt(n, "request", r)
               /\ \A b \in CmdID : CmdOf(b, r) => ~QueuedAt(n, "rply", b)
    <2>1. orchestratorQueue \in Seq(SentMsg)
      BY <1>1 DEF TypeOK
    <2>2. n \in 1..Len(orchestratorQueue) => orchestratorQueue[n] \in SentMsg
      BY <2>1
    <2>3. ~QueuedAt(n, "request", r)
      BY <1>4, <2>2, MsgLemma DEF QueuedAt
    <2>4. \A b \in CmdID : CmdOf(b, r) => ~QueuedAt(n, "rply", b)
      BY <1>4, <2>2, MsgLemma DEF QueuedAt, CmdOf
    <2>5. QED BY <2>3, <2>4
  <1>10. ASSUME NEW n \in Pos
         PROVE  /\ QueuedAt(n, "request", r)' => n = end
                /\ \A b \in CmdID : CmdOf(b, r) => ~QueuedAt(n, "rply", b)'
    <2>1. \A kind, id : QueuedAt(n, kind, id)' =>
             QueuedAt(n, kind, id) \/ (n = end /\ kind = "request" /\ id = r)
      BY <1>6
    <2>2. "request" # "rply"
      OBVIOUS
    <2>3. QED BY <1>9, <2>1, <2>2
  <1>11. OnlyAt(r, "queue", end)'
    <2>1. \A n \in Pos : ~WaitingAt(n, r)' /\ ~BatchedAt(n, r)'
      <3>1. \A n \in 1..Len(requestWaitingQueue) : requestWaitingQueue[n] \in Sent
        BY <1>1 DEF TypeOK
      <3>2. \A n \in 1..Len(requestBatchQueue) : requestBatchQueue[n] \in Sent
        BY <1>1 DEF TypeOK, SentSFCI
      <3>3. QED BY <1>3, <1>4, <3>1, <3>2 DEF WaitingAt, BatchedAt
    <2>2. \A n \in Pos : <<n, r>> \notin batch'
      BY <1>1, <1>3, <1>4 DEF TypeOK, SentSFCI
    <2>3. \A b \in CmdID : CmdOf(b, r) => b \notin inMediator'
      BY <1>1, <1>3, <1>4 DEF TypeOK, SentCmd, CmdOf
    <2>4. ~Repeated(r)'
      BY <1>1, <1>3, <1>4 DEF TypeOK, Repeated
    <2>5. QED BY <1>10, <2>1, <2>2, <2>3, <2>4 DEF OnlyAt, CmdOf
  <1>12. ~hasRequest(db, r)
    BY <1>1, <1>4 DEF CmdIDsAreOwn
  <1>13. TellsAt(r, "queue", end)'
    <2>1. NotStarted(r)'
      BY <1>3, <1>12 DEF NotStarted
    <2>2. QED BY <1>6, <1>10, <2>1 DEF TellsAt, CmdOf
  <1>14. Life(r)
    BY <1>12 DEF Life
  <1>15. QED BY <1>8, <1>11, <1>13, <1>14, MovedGood
-----------------------------------------------------------------------------
(***************************************************************************)
(* Every step.                                                             *)
(***************************************************************************)
LEMMA StepGood ==
    ASSUME AllInv, OnceInv, [Next]_vars, redeliveries = 0, ~Redeliver
    PROVE  \A r \in Requests : Good(r)
  BY QuietLemma, LoopGood, TakeRplyGood, MediatorGood, RetryReadGood, RetryWriteGood, SubmitGood
     DEF Next, StartOrchestrator, Regulator

LEMMA OnceInvLemma == Spec => [](AllInv /\ OnceInv)
  <1>1. Init => OnceInv
    <2> SUFFICES ASSUME Init, NEW r \in Requests
                 PROVE  OnePlace(r) /\ RowTells(r)
      BY DEF OnceInv
    <2>1. /\ orchestratorQueue = <<[kind |-> "cmd", id |-> "TURN_ON"]>>
          /\ requestBatchQueue = <<>> /\ batch = {} /\ requestWaitingQueue = <<>>
          /\ inMediator = {} /\ regulator = [task |-> "none"]
      BY DEF Init, Idle
    <2>2. \A n \in Pos : \A id : ~QueuedAt(n, "request", id) /\ ~QueuedAt(n, "rply", id)
      BY <2>1 DEF QueuedAt
    <2>3. \A n \in Pos : ~WaitingAt(n, r) /\ ~BatchedAt(n, r)
      <3>1. Len(requestWaitingQueue) = 0 /\ Len(requestBatchQueue) = 0
        BY <2>1
      <3>2. QED BY <3>1 DEF WaitingAt, BatchedAt, Pos
    <2>4. OnlyAt(r, "gone", 0)
      BY <2>1, <2>2, <2>3 DEF OnlyAt, Repeated
    <2>5. TellsAt(r, "gone", 0)
      BY DEF TellsAt
    <2>6. QED BY <2>4, <2>5, MovedLemma
  <1>2. AllInv /\ OnceInv /\ [Next]_vars => OnceInv'
    <2> SUFFICES ASSUME AllInv, OnceInv, [Next]_vars, redeliveries' = 0
                 PROVE  \A r \in Requests : OnePlace(r)' /\ RowTells(r)'
      BY DEF OnceInv
    <2>1. redeliveries \in Nat
      BY DEF AllInv, TypeOK
    <2>2. ~Redeliver
      BY <2>1 DEF Redeliver
    <2>3. redeliveries = 0
      <3>1. UNCHANGED redeliveries
        BY <2>2 DEF Next, Submit, SendAdminCmd, StartOrchestrator, TakeRequest, PostponeRequest, TakeCmd,
                    TakeRply, NoMsg, NoTimeout, BatchTimeout, BatchStep, TakeWaitingRequest,
                    RequestHandler, MediatorAnswer, Regulator, RetryRead, RetryWrite, UpdateRead,
                    UpdateWrite, clientVars, vars
      <3>2. QED BY <3>1
    <2>4. \A r \in Requests : Good(r)
      BY <2>2, <2>3, StepGood
    <2>5. QED BY <2>4 DEF Good
  <1>3. QED BY <1>1, <1>2, AllInvLemma, PTL DEF Spec

\* Unless the broker delivers something twice, a request is in one place at a time: in the
\* orchestrator's queue, set aside while it is turned off, in the batch, with the mediator
\* or in the list of those the regulator repeats; and its row tells which of these.
THEOREM RequestsAreInOnePlace == Spec => []OnceInv
  BY OnceInvLemma, PTL

\* The state of a request goes from being processed to success or failure and success is
\* final, although the regulator, another process, works on a list of failed requests it
\* read earlier: the orchestrator does not touch a request of that list in between.
THEOREM RequestsFollowLifecycle == Spec => RequestLifecycle
  <1>1. AllInv /\ OnceInv /\ [Next]_vars =>
           [\A r \in Requests :
              (redeliveries = 0 /\ hasRequest(db, r)) =>
                LET from == db.Request[r].state
                    to   == db'.Request[r].state
                IN  \/ to = from
                    \/ from = REQUEST_STATE_IN_PROCESSING /\
                          to \in {REQUEST_STATE_SUCCESSFUL, REQUEST_STATE_FAILED}
                    \/ from = REQUEST_STATE_FAILED /\ to = REQUEST_STATE_INITIAL
                    \/ from = REQUEST_STATE_INITIAL /\
                          to \in {REQUEST_STATE_IN_PROCESSING, REQUEST_STATE_FAILED}]_vars
    <2> SUFFICES ASSUME AllInv, OnceInv, [Next]_vars,
                        NEW r \in Requests, redeliveries = 0
                 PROVE  Life(r)
      BY DEF Life
    <2>1. CASE Redeliver
      BY <2>1 DEF Redeliver, tableVars, Life
    <2>2. CASE ~Redeliver
      BY <2>2, StepGood DEF Good
    <2>3. QED BY <2>1, <2>2
  <1>2. QED BY <1>1, OnceInvLemma, PTL DEF Spec, RequestLifecycle
-----------------------------------------------------------------------------
(***************************************************************************)
(* If besides no exception is raised, the requests for an SFC are handled  *)
(* after the one that adds it, and the SFC has its row.                    *)
(***************************************************************************)
Strict == redeliveries = 0 /\ ~scenario.mayRaise

Adds(r, s) == r \in Sent /\ submitted[r].type = "ADD_SFC" /\ submitted[r].sfc = s

\* A request that adds SFC s is among the first n that wait, or among the first n messages.
WaitsBy(n, s)  == \E j \in Pos, q \in Requests : j <= n /\ WaitingAt(j, q) /\ Adds(q, s)
QueuedBy(n, s) == \E j \in Pos, q \in Requests : j <= n /\ QueuedAt(j, "request", q) /\ Adds(q, s)
SomeWaits(s)   == \E n \in Pos : WaitsBy(n, s)
SomeQueued(s)  == \E n \in Pos : QueuedBy(n, s)

\* The requests that wait do so in the order of their arrival.
WaitingIsEmptied == /\ phase = "recv" /\ runningState => requestWaitingQueue = <<>>
                    /\ phase = "waiting" => runningState

RowsHaveSFC == \A r \in Requests : hasRequest(db, r) => hasSFC(db, submitted[r].sfc)
BatchHasSFC ==
    \A n \in Pos, r \in Sent : BatchedAt(n, r) \/ <<n, r>> \in batch => hasSFC(db, submitted[r].sfc)
WaitingInOrder ==
    \A n \in Pos, r \in Sent : WaitingAt(n, r) =>
        hasSFC(db, submitted[r].sfc) \/ WaitsBy(n, submitted[r].sfc)
QueueInOrder ==
    \A n \in Pos, r \in Sent : QueuedAt(n, "request", r) =>
        \/ hasSFC(db, submitted[r].sfc) \/ SomeWaits(submitted[r].sfc)
        \/ QueuedBy(n, submitted[r].sfc)
AddsCome ==
    \A r \in Sent : \A s : Adds(r, s) => hasSFC(db, s) \/ SomeWaits(s) \/ SomeQueued(s)

AddedBefore == RowsHaveSFC /\ BatchHasSFC /\ WaitingInOrder /\ QueueInOrder /\ AddsCome

\* What a step leaves alone.
SentKept == Sent \subseteq Sent' /\ \A r \in Sent : submitted'[r] = submitted[r]
SFCsKept == \A s \in SFCs : hasSFC(db, s) => hasSFC(db', s)
WaitsKept == \A s \in SFCs : SomeWaits(s) => SomeWaits(s)' \/ hasSFC(db', s)

LEMMA AddsKept ==
    ASSUME SentKept
    PROVE  /\ \A q, s : Adds(q, s) => Adds(q, s)'
           /\ \A r \in Sent : submitted'[r].sfc = submitted[r].sfc
  BY DEF SentKept, Adds

LEMMA WaitSame ==
    ASSUME TypeOK, WaitingInOrder, SentKept, SFCsKept, UNCHANGED requestWaitingQueue
    PROVE  WaitingInOrder' /\ WaitsKept
  <1>1. \A n \in Pos : \A q : WaitingAt(n, q)' <=> WaitingAt(n, q)
    BY DEF WaitingAt
  <1>2. \A n \in Pos : \A s : WaitsBy(n, s) => WaitsBy(n, s)'
    BY <1>1, AddsKept DEF WaitsBy
  <1>3. WaitingInOrder'
    <2> SUFFICES ASSUME NEW n \in Pos, NEW r \in Sent', WaitingAt(n, r)',
                        NEW s, s = submitted'[r].sfc
                 PROVE  hasSFC(db', s) \/ WaitsBy(n, s)'
      BY DEF WaitingInOrder
    <2>1. WaitingAt(n, r) /\ r \in Sent
      BY <1>1 DEF WaitingAt, TypeOK
    <2>2. s = submitted[r].sfc /\ s \in SFCs
      BY <2>1, AddsKept, SentLemma
    <2>3. QED BY <1>2, <2>1, <2>2 DEF WaitingInOrder, SFCsKept
  <1>4. QED BY <1>2, <1>3 DEF WaitsKept, SomeWaits

\* The first of the waiting requests leaves.
LEMMA WaitShift ==
    ASSUME TypeOK, WaitingInOrder, SentKept, SFCsKept,
           \A n \in Pos : \A q : WaitingAt(n, q)' <=> WaitingAt(n + 1, q),
           \A q, s : WaitingAt(1, q) /\ Adds(q, s) => hasSFC(db', s)
    PROVE  WaitingInOrder' /\ WaitsKept
  <1>1. ASSUME NEW n \in Pos, NEW s, WaitsBy(n + 1, s)
        PROVE  WaitsBy(n, s)' \/ hasSFC(db', s)
    <2>1. PICK j \in Pos, q \in Requests : j <= n + 1 /\ WaitingAt(j, q) /\ Adds(q, s)
      BY <1>1 DEF WaitsBy
    <2>2. CASE j = 1
      BY <2>1, <2>2
    <2>3. CASE j # 1
      <3>1. PICK k \in Pos : j = k + 1 /\ k <= n
        BY <2>1, <2>3 DEF Pos
      <3>2. WaitingAt(k, q)' /\ Adds(q, s)'
        BY <2>1, <3>1, AddsKept
      <3>3. QED BY <3>1, <3>2 DEF WaitsBy
    <2>4. QED BY <2>2, <2>3
  <1>2. \A n \in Pos : n + 1 \in Pos /\ \A s : WaitsBy(n, s) => WaitsBy(n + 1, s)
    <2> SUFFICES ASSUME NEW n \in Pos, NEW s, WaitsBy(n, s)
                 PROVE  n + 1 \in Pos /\ WaitsBy(n + 1, s)
      BY DEF Pos
    <2>1. PICK j \in Pos, q \in Requests : j <= n /\ WaitingAt(j, q) /\ Adds(q, s)
      BY DEF WaitsBy
    <2>2. j <= n + 1 /\ n + 1 \in Pos
      BY <2>1 DEF Pos
    <2>3. QED BY <2>1, <2>2 DEF WaitsBy
  <1>3. WaitingInOrder'
    <2> SUFFICES ASSUME NEW n \in Pos, NEW r \in Sent', WaitingAt(n, r)',
                        NEW s, s = submitted'[r].sfc
                 PROVE  hasSFC(db', s) \/ WaitsBy(n, s)'
      BY DEF WaitingInOrder
    <2>1. WaitingAt(n + 1, r) /\ r \in Sent
      <3>1. WaitingAt(n + 1, r)
        OBVIOUS
      <3>2. QED BY <3>1 DEF WaitingAt, TypeOK
    <2>2. s = submitted[r].sfc /\ s \in SFCs
      BY <2>1, AddsKept, SentLemma
    <2>3. QED BY <1>1, <1>2, <2>1, <2>2 DEF WaitingInOrder, SFCsKept
  <1>4. WaitsKept
    BY <1>1, <1>2 DEF WaitsKept, SomeWaits
  <1>5. QED BY <1>3, <1>4

\* The queue: what AddedBefore says of it after a step.
QueueOrdered == QueueInOrder' /\ AddsCome'

LEMMA QueueSame ==
    ASSUME TypeOK, QueueInOrder, AddsCome, UNCHANGED submitted, SFCsKept, WaitsKept,
           UNCHANGED orchestratorQueue
    PROVE  QueueOrdered
  <1>1. /\ \A n \in Pos : \A k, id : QueuedAt(n, k, id)' <=> QueuedAt(n, k, id)
        /\ Sent' = Sent /\ \A q, s : Adds(q, s)' <=> Adds(q, s)
    BY DEF QueuedAt, Sent, Adds
  <1>2. \A n \in Pos : \A s : QueuedBy(n, s) => QueuedBy(n, s)'
    BY <1>1 DEF QueuedBy
  <1>3. \A r \in Sent : submitted[r].sfc \in SFCs
    BY SentLemma
  <1>4. QueueInOrder'
    BY <1>1, <1>2, <1>3 DEF QueueInOrder, SFCsKept, WaitsKept
  <1>5. \A s : SomeQueued(s) => SomeQueued(s)'
    BY <1>2 DEF SomeQueued
  <1>6. \A r \in Sent : \A s : Adds(r, s) => s \in SFCs
    BY <1>3 DEF Adds
  <1>7. AddsCome'
    BY <1>1, <1>5, <1>6 DEF AddsCome, SFCsKept, WaitsKept
  <1>8. QED BY <1>4, <1>7 DEF QueueOrdered

\* The first message leaves.
LEMMA QueueShift ==
    ASSUME TypeOK, QueueInOrder, AddsCome, UNCHANGED submitted, SFCsKept, WaitsKept,
           \A n \in Pos : \A k, id : QueuedAt(n, k, id)' <=> QueuedAt(n + 1, k, id),
           \A q, s : QueuedAt(1, "request", q) /\ Adds(q, s) => hasSFC(db', s) \/ SomeWaits(s)'
    PROVE  QueueOrdered
  <1>0. Sent' = Sent /\ (\A q, s : Adds(q, s)' <=> Adds(q, s)) /\ \A r \in Sent : submitted[r].sfc \in SFCs
    BY SentLemma DEF Sent, Adds
  <1>1. ASSUME NEW n \in Pos, NEW s, QueuedBy(n + 1, s)
        PROVE  QueuedBy(n, s)' \/ hasSFC(db', s) \/ SomeWaits(s)'
    <2>1. PICK j \in Pos, q \in Requests : j <= n + 1 /\ QueuedAt(j, "request", q) /\ Adds(q, s)
      BY <1>1 DEF QueuedBy
    <2>2. CASE j = 1
      BY <2>1, <2>2
    <2>3. CASE j # 1
      <3>1. PICK k \in Pos : j = k + 1 /\ k <= n
        BY <2>1, <2>3 DEF Pos
      <3>2. QueuedAt(k, "request", q)' /\ Adds(q, s)'
        BY <1>0, <2>1, <3>1
      <3>3. QED BY <3>1, <3>2 DEF QueuedBy
    <2>4. QED BY <2>2, <2>3
  <1>2. \A n \in Pos : n + 1 \in Pos /\ \A s : QueuedBy(n, s) => QueuedBy(n + 1, s)
    <2> SUFFICES ASSUME NEW n \in Pos, NEW s, QueuedBy(n, s)
                 PROVE  n + 1 \in Pos /\ QueuedBy(n + 1, s)
      BY DEF Pos
    <2>1. PICK j \in Pos, q \in Requests : j <= n /\ QueuedAt(j, "request", q) /\ Adds(q, s)
      BY DEF QueuedBy
    <2>2. j <= n + 1 /\ n + 1 \in Pos
      BY <2>1 DEF Pos
    <2>3. QED BY <2>1, <2>2 DEF QueuedBy
  <1>3. QueueInOrder'
    <2> SUFFICES ASSUME NEW n \in Pos, NEW r \in Sent, QueuedAt(n, "request", r)',
                        NEW s, s = submitted[r].sfc
                 PROVE  hasSFC(db', s) \/ SomeWaits(s)' \/ QueuedBy(n, s)'
      BY <1>0 DEF QueueInOrder
    <2>1. s \in SFCs /\ QueuedAt(n + 1, "request", r) /\ n + 1 \in Pos
      BY <1>0, <1>2
    <2>2. hasSFC(db, s) \/ SomeWaits(s) \/ QueuedBy(n + 1, s)
      BY <2>1 DEF QueueInOrder
    <2>3. QED BY <1>1, <2>1, <2>2 DEF SFCsKept, WaitsKept
  <1>4. \A s : SomeQueued(s) => SomeQueued(s)' \/ hasSFC(db', s) \/ SomeWaits(s)'
    BY <1>1, <1>2 DEF SomeQueued
  <1>5. \A r \in Sent : \A s : Adds(r, s) => s \in SFCs
    BY <1>0 DEF Adds
  <1>6. AddsCome'
    BY <1>0, <1>4, <1>5 DEF AddsCome, SFCsKept, WaitsKept
  <1>7. QED BY <1>3, <1>6 DEF QueueOrdered

\* A message is appended: a request only if its SFC has a row, will have one or it adds it.
LEMMA QueueAppend ==
    ASSUME TypeOK, QueueInOrder, AddsCome, SentKept, SFCsKept, WaitsKept,
           NEW m, orchestratorQueue' = Append(orchestratorQueue, m),
           \A r \in Sent' : r \in Sent \/ (m.kind = "request" /\ r = m.id),
           m.kind = "request" =>
             /\ m.id \in Requests /\ m.id \in Sent'
             /\ \E s : /\ s = submitted'[m.id].sfc
                       /\ hasSFC(db', s) \/ SomeWaits(s)' \/ SomeQueued(s) \/ Adds(m.id, s)'
    PROVE  QueueOrdered
  <1>1. PICK end : end = Len(orchestratorQueue) + 1
    OBVIOUS
  <1>2. /\ end \in Pos /\ QueuedAt(end, m.kind, m.id)'
        /\ \A n \in Pos : \A k, id : QueuedAt(n, k, id)' =>
              QueuedAt(n, k, id) \/ (n = end /\ k = m.kind /\ id = m.id)
    BY <1>1, AppendQueuedLemma
  <1>3. \A n \in Pos : \A k, id : QueuedAt(n, k, id) => QueuedAt(n, k, id)' /\ n <= end
    <2>1. orchestratorQueue \in Seq(SentMsg)
      BY DEF TypeOK
    <2>2. /\ Len(orchestratorQueue) \in Nat /\ Len(orchestratorQueue') = Len(orchestratorQueue) + 1
          /\ \A k \in 1..Len(orchestratorQueue) : orchestratorQueue'[k] = orchestratorQueue[k]
      BY <2>1
    <2>3. \A k \in 1..Len(orchestratorQueue) : k \in 1..Len(orchestratorQueue') /\ k <= end
      BY <1>1, <2>2
    <2>4. QED BY <2>2, <2>3 DEF QueuedAt
  <1>4. \A n \in Pos : \A s : QueuedBy(n, s) => QueuedBy(n, s)' /\ QueuedBy(end, s)'
    <2> SUFFICES ASSUME NEW n \in Pos, NEW s, QueuedBy(n, s)
                 PROVE  QueuedBy(n, s)' /\ QueuedBy(end, s)'
      OBVIOUS
    <2>1. PICK j \in Pos, q \in Requests : j <= n /\ QueuedAt(j, "request", q) /\ Adds(q, s)
      BY DEF QueuedBy
    <2>2. QueuedAt(j, "request", q)' /\ j <= end /\ Adds(q, s)'
      BY <1>3, <2>1, AddsKept
    <2>3. QED BY <2>1, <2>2 DEF QueuedBy
  <1>5. \A s : SomeQueued(s) => SomeQueued(s)' /\ QueuedBy(end, s)'
    BY <1>4 DEF SomeQueued
  <1>6. ASSUME NEW s, Adds(m.id, s)', m.kind = "request"
        PROVE  QueuedBy(end, s)' /\ SomeQueued(s)'
    <2>1. end <= end /\ m.id \in Requests /\ QueuedAt(end, "request", m.id)'
      BY <1>2, <1>6 DEF Pos
    <2>2. QueuedBy(end, s)'
      BY <1>2, <1>6, <2>1 DEF QueuedBy
    <2>3. QED BY <1>2, <2>2 DEF SomeQueued
  <1>7. QueueInOrder'
    <2> SUFFICES ASSUME NEW n \in Pos, NEW r \in Sent', QueuedAt(n, "request", r)',
                        NEW s, s = submitted'[r].sfc
                 PROVE  hasSFC(db', s) \/ SomeWaits(s)' \/ QueuedBy(n, s)'
      BY DEF QueueInOrder
    <2>1. CASE QueuedAt(n, "request", r)
      <3>1. r \in Sent
        <4>1. orchestratorQueue \in Seq(SentMsg)
          BY DEF TypeOK
        <4>2. n \in 1..Len(orchestratorQueue) => orchestratorQueue[n] \in SentMsg
          BY <4>1
        <4>3. QED BY <2>1, <4>2, MsgLemma DEF QueuedAt
      <3>2. s = submitted[r].sfc /\ s \in SFCs
        BY <3>1, AddsKept, SentLemma
      <3>3. hasSFC(db, s) \/ SomeWaits(s) \/ QueuedBy(n, s)
        BY <2>1, <3>1, <3>2 DEF QueueInOrder
      <3>4. QED BY <1>4, <3>2, <3>3 DEF SFCsKept, WaitsKept
    <2>2. CASE n = end /\ "request" = m.kind /\ r = m.id
      BY <1>5, <1>6, <2>2
    <2>3. QED BY <1>2, <2>1, <2>2
  <1>8. AddsCome'
    <2> SUFFICES ASSUME NEW r \in Sent', NEW s, Adds(r, s)'
                 PROVE  hasSFC(db', s) \/ SomeWaits(s)' \/ SomeQueued(s)'
      BY DEF AddsCome
    <2>1. CASE r \in Sent
      <3>1. Adds(r, s)
        BY <2>1 DEF SentKept, Adds
      <3>2. s \in SFCs
        BY <2>1, <3>1, SentLemma DEF Adds
      <3>3. QED BY <1>5, <2>1, <3>1, <3>2 DEF AddsCome, SFCsKept, WaitsKept
    <2>2. CASE r \notin Sent
      BY <1>6, <2>2
    <2>3. QED BY <2>1, <2>2
  <1>9. QED BY <1>7, <1>8 DEF QueueOrdered
-----------------------------------------------------------------------------
(***************************************************************************)
(* An SFC or SFCI in processing has a command about it that is answered.   *)
(***************************************************************************)
Working(c)      == c \in DOMAIN commandsInfo /\ (c \in inMediator \/ RplyIn(c))
AboutSFC(c, s)  == /\ c \in SentCmd
                   /\ submitted[c[1]].type \in {"ADD_SFC", "DEL_SFC"} /\ submitted[c[1]].sfc = s
AboutSFCI(c, i) == c \in SentCmd /\ submitted[c[1]].sfci = i
SFCInWork(s)    == hasSFC(db, s) /\ db.SFC[s].state = STATE_IN_PROCESSING
SFCIInWork(i)   == hasSFCI(db, i) /\ db.SFCI[i].state = STATE_IN_PROCESSING

WorkingInv ==
    /\ \A s \in SFCs : SFCInWork(s) => \E c : Working(c) /\ AboutSFC(c, s)
    /\ \A i \in SFCIs : SFCIInWork(i) => \E c : Working(c) /\ AboutSFCI(c, i)

\* The invariant of the behaviours without redeliveries and exceptions.
Ordered == WaitingIsEmptied /\ AddedBefore /\ WorkingInv

LEMMA WorkingAwaited ==
    ASSUME TablesInv, WorkingInv
    PROVE  ResourcesAreAwaited
  <1>1. \A c : Working(c) => c \in DOMAIN commandsInfo /\ Awaited(c)
    BY AwaitedLemma DEF Working
  <1>2. \A c \in DOMAIN commandsInfo : commandsInfo[c].cmd = submitted[c[1]]
    BY DEF TablesInv, EntriesAreOwn
  <1>3. \A s \in SFCs :
           (hasSFC(db, s) /\ db.SFC[s].state = STATE_IN_PROCESSING) =>
           \E c \in DOMAIN commandsInfo :
              /\ commandsInfo[c].cmd.type \in {"ADD_SFC", "DEL_SFC"}
              /\ commandsInfo[c].cmd.sfc = s
              /\ Awaited(c)
    BY <1>1, <1>2 DEF WorkingInv, SFCInWork, AboutSFC
  <1>4. \A i \in SFCIs :
           (hasSFCI(db, i) /\ db.SFCI[i].state = STATE_IN_PROCESSING) =>
           \E c \in DOMAIN commandsInfo : commandsInfo[c].cmd.sfci = i /\ Awaited(c)
    BY <1>1, <1>2 DEF WorkingInv, SFCIInWork, AboutSFCI
  <1>5. QED BY <1>3, <1>4 DEF ResourcesAreAwaited

LEMMA WorkingKept ==
    ASSUME WorkingInv, SentKept,
           \A c : Working(c) => Working(c)',
           \A s \in SFCs : SFCInWork(s)' => SFCInWork(s) \/ \E c : Working(c)' /\ AboutSFC(c, s)',
           \A i \in SFCIs : SFCIInWork(i)' => SFCIInWork(i) \/ \E c : Working(c)' /\ AboutSFCI(c, i)'
    PROVE  WorkingInv'
  <1>1. \A c \in SentCmd : c \in SentCmd' /\ submitted'[c[1]] = submitted[c[1]]
    BY DEF SentKept, SentCmd
  <1>2. /\ \A c, s : AboutSFC(c, s) => AboutSFC(c, s)'
        /\ \A c, i : AboutSFCI(c, i) => AboutSFCI(c, i)'
    BY <1>1 DEF AboutSFC, AboutSFCI
  <1>3. \A s \in SFCs : SFCInWork(s)' => \E c : Working(c)' /\ AboutSFC(c, s)'
    BY <1>2 DEF WorkingInv
  <1>4. \A i \in SFCIs : SFCIInWork(i)' => \E c : Working(c)' /\ AboutSFCI(c, i)'
    BY <1>2 DEF WorkingInv
  <1>5. QED BY <1>3, <1>4 DEF WorkingInv

LEMMA RowsKept ==
    ASSUME TypeOK, CmdIDsAreOwn, RowsHaveSFC, SentKept, SFCsKept,
           \A r \in Requests : hasRequest(db', r) =>
                hasRequest(db, r) \/ (r \in Sent /\ hasSFC(db', submitted[r].sfc))
    PROVE  RowsHaveSFC'
  <1> SUFFICES ASSUME NEW r \in Requests, hasRequest(db', r)
               PROVE  hasSFC(db', submitted'[r].sfc)
    BY DEF RowsHaveSFC
  <1>1. r \in Sent
    BY DEF CmdIDsAreOwn
  <1>2. submitted'[r] = submitted[r] /\ submitted[r].sfc \in SFCs
    BY <1>1, SentLemma DEF SentKept
  <1>3. QED BY <1>2 DEF RowsHaveSFC, SFCsKept

LEMMA BatchKept ==
    ASSUME TypeOK, BatchHasSFC, SentKept, SFCsKept,
           \A n \in Pos : \A r \in Sent' : (BatchedAt(n, r)' \/ <<n, r>> \in batch') =>
                /\ r \in Sent
                /\ BatchedAt(n, r) \/ <<n, r>> \in batch \/ hasSFC(db', submitted[r].sfc)
    PROVE  BatchHasSFC'
  <1> SUFFICES ASSUME NEW n \in Pos, NEW r \in Sent', BatchedAt(n, r)' \/ <<n, r>> \in batch'
               PROVE  hasSFC(db', submitted'[r].sfc)
    BY DEF BatchHasSFC
  <1>1. r \in Sent /\ (BatchedAt(n, r) \/ <<n, r>> \in batch \/ hasSFC(db', submitted[r].sfc))
    OBVIOUS
  <1>2. submitted'[r] = submitted[r] /\ submitted[r].sfc \in SFCs
    BY <1>1, SentLemma DEF SentKept
  <1>3. QED BY <1>1, <1>2 DEF BatchHasSFC, SFCsKept

\* Steps that handle no request.
LEMMA NoneHandled ==
    ASSUME AllInv, Ordered, SentKept, SFCsKept,
           UNCHANGED <<commandsInfo, requestBatchQueue, batch>>,
           \A c \in DOMAIN commandsInfo :
                c \in inMediator \/ RplyIn(c) => c \in inMediator' \/ RplyIn(c)',
           db'.SFCI = db.SFCI, \A s \in SFCs : SFCInWork(s)' => SFCInWork(s),
           \A r \in Requests : hasRequest(db', r) => hasRequest(db, r)
    PROVE  RowsHaveSFC' /\ BatchHasSFC' /\ WorkingInv'
  <1>1. TypeOK /\ CmdIDsAreOwn /\ RowsHaveSFC /\ BatchHasSFC /\ WorkingInv
    BY DEF AllInv, TablesInv, Ordered, AddedBefore
  <1>2. RowsHaveSFC'
    BY <1>1, RowsKept
  <1>3. BatchHasSFC'
    <2>1. \A n \in Pos : \A r : BatchedAt(n, r) \/ <<n, r>> \in batch => r \in Sent
      <3>1. requestBatchQueue \in Seq(SentSFCI) /\ batch \subseteq Pos \X SentSFCI
        BY <1>1 DEF TypeOK
      <3>2. QED BY <3>1 DEF BatchedAt, SentSFCI
    <2>2. \A n \in Pos : \A r : BatchedAt(n, r)' <=> BatchedAt(n, r)
      BY DEF BatchedAt
    <2>3. QED BY <1>1, <2>1, <2>2, BatchKept
  <1>4. WorkingInv'
    <2>1. \A c : Working(c) => Working(c)'
      BY DEF Working
    <2>2. \A i \in SFCIs : SFCIInWork(i)' => SFCIInWork(i)
      BY DEF SFCIInWork, hasSFCI
    <2>3. QED BY <1>1, <2>1, <2>2, WorkingKept
  <1>5. QED BY <1>2, <1>3, <1>4

LEMMA TakeShiftLemma ==
    ASSUME TypeOK, NEW kind, Take(kind)
    PROVE  /\ \A n \in Pos : \A k, id : QueuedAt(n, k, id)' <=> QueuedAt(n + 1, k, id)
           /\ \A k, id : QueuedAt(1, k, id) => k = kind /\ id = Head(orchestratorQueue).id
  <1>1. /\ orchestratorQueue \in Seq(SentMsg) /\ orchestratorQueue # <<>>
        /\ orchestratorQueue' = Tail(orchestratorQueue) /\ Head(orchestratorQueue).kind = kind
    BY DEF Take, TypeOK
  <1>2. /\ Head(orchestratorQueue) = orchestratorQueue[1]
        /\ Len(orchestratorQueue) \in Pos /\ Len(orchestratorQueue') = Len(orchestratorQueue) - 1
        /\ \A k \in 1..Len(orchestratorQueue') : orchestratorQueue'[k] = orchestratorQueue[k + 1]
    BY <1>1, TailLemma
  <1>3. \A n \in Pos : n \in 1..Len(orchestratorQueue') <=> n + 1 \in 1..Len(orchestratorQueue)
    BY <1>2 DEF Pos
  <1>4. QED BY <1>1, <1>2, <1>3 DEF QueuedAt

\* Steps that leave the order of the requests alone or append a message.
LEMMA AroundOrdered ==
    ASSUME AllInv, OnceInv, Strict, Ordered,
           \/ \E c \in AllAdminCmds : SendAdminCmd(c)
           \/ \E c \in inMediator : MediatorAnswer(c)
           \/ Regulator \/ UNCHANGED vars
    PROVE  Ordered'
  <1>1. /\ TypeOK /\ CmdIDsAreOwn /\ WaitingIsEmptied /\ RowsHaveSFC /\ WaitingInOrder /\ QueueInOrder
        /\ AddsCome /\ db \in DB
    BY DEF AllInv, TablesInv, Ordered, AddedBefore
  <1>2. UNCHANGED <<submitted, commandsInfo, requestBatchQueue, batch, requestWaitingQueue, phase,
                    runningState>>
    BY DEF SendAdminCmd, MediatorAnswer, Regulator, RetryRead, RetryWrite, UpdateRead, UpdateWrite,
           loopVars, tableVars, clientVars, vars
  <1>3. SentKept /\ Sent' = Sent /\ \A r \in Sent : r \in Requests /\ submitted[r].sfc \in SFCs
    BY <1>1, <1>2, SentLemma DEF SentKept, Sent
  <1>4. ASSUME \/ UNCHANGED orchestratorQueue
               \/ \E m : /\ orchestratorQueue' = Append(orchestratorQueue, m)
                         /\ m.kind = "request" => m.id \in Sent /\ hasSFC(db', submitted[m.id].sfc),
               \A c \in DOMAIN commandsInfo :
                    c \in inMediator \/ RplyIn(c) => c \in inMediator' \/ RplyIn(c)',
               db'.SFCI = db.SFCI, \A s \in SFCs : SFCInWork(s)' => SFCInWork(s), SFCsKept,
               \A r \in Requests : hasRequest(db', r) => hasRequest(db, r)
        PROVE  Ordered'
    <2>1. RowsHaveSFC' /\ BatchHasSFC' /\ WorkingInv'
      BY <1>2, <1>3, <1>4, NoneHandled
    <2>2. WaitingInOrder' /\ WaitsKept
      BY <1>1, <1>2, <1>3, <1>4, WaitSame
    <2>3. CASE UNCHANGED orchestratorQueue
      <3>1. QueueOrdered
        BY <1>1, <1>2, <1>4, <2>2, <2>3, QueueSame
      <3>2. QED BY <1>1, <1>2, <2>1, <2>2, <3>1
                DEF Ordered, AddedBefore, QueueOrdered, WaitingIsEmptied
    <2>4. ASSUME NEW m, orchestratorQueue' = Append(orchestratorQueue, m),
                 m.kind = "request" => m.id \in Sent /\ hasSFC(db', submitted[m.id].sfc)
          PROVE  Ordered'
      <3>1. QueueOrdered
        BY <1>1, <1>2, <1>3, <1>4, <2>2, <2>4, QueueAppend
      <3>2. QED BY <1>1, <1>2, <2>1, <2>2, <3>1
                DEF Ordered, AddedBefore, QueueOrdered, WaitingIsEmptied
    <2>5. QED BY <1>4, <2>3, <2>4
  <1>5. ASSUME NEW c \in AllAdminCmds, SendAdminCmd(c)
        PROVE  Ordered'
    <2> DEFINE m == [kind |-> "cmd", id |-> c]
    <2>1. /\ orchestratorQueue' = Append(orchestratorQueue, m) /\ m.kind # "request" /\ m \in SentMsg
          /\ UNCHANGED <<db, inMediator>>
      BY <1>5 DEF SendAdminCmd, tableVars, serverVars, SentMsg
    <2> HIDE DEF m
    <2>2. \A b : RplyIn(b) => RplyIn(b)'
      BY <1>1, <2>1, AppendMsgLemma
    <2>3. QED BY <1>4, <2>1, <2>2 DEF SFCsKept, SFCInWork
  <1>6. ASSUME NEW c \in inMediator, MediatorAnswer(c)
        PROVE  Ordered'
    <2>1. PICK cmdState \in {CMD_STATE_SUCCESSFUL, CMD_STATE_FAIL} :
              orchestratorQueue' =
                Append(orchestratorQueue, [kind |-> "rply", id |-> c, cmdState |-> cmdState])
      BY <1>6 DEF MediatorAnswer
    <2> DEFINE m == [kind |-> "rply", id |-> c, cmdState |-> cmdState]
    <2>2. /\ orchestratorQueue' = Append(orchestratorQueue, m) /\ m.kind = "rply" /\ m.id = c
          /\ inMediator' = inMediator \ {c} /\ UNCHANGED db
      BY <1>6, <2>1 DEF MediatorAnswer, tableVars
    <2>3. m \in SentMsg
      BY <1>1 DEF SentMsg, TypeOK
    <2> HIDE DEF m
    <2>4. RplyIn(c)' /\ \A b : RplyIn(b) => RplyIn(b)'
      BY <1>1, <2>2, <2>3, AppendMsgLemma
    <2>5. QED BY <1>4, <2>2, <2>4 DEF SFCsKept, SFCInWork
  <1>7. CASE RetryRead \/ UNCHANGED vars
             \/ \E s \in SFCs, newState \in {STATE_ACTIVE, STATE_MANUAL} : UpdateRead(s, newState)
    <2>1. UNCHANGED <<db, orchestratorQueue, inMediator>>
      BY <1>7 DEF RetryRead, UpdateRead, vars, tableVars, serverVars
    <2>2. \A c : RplyIn(c) => RplyIn(c)'
      BY <2>1 DEF RplyIn
    <2>3. QED BY <1>4, <2>1, <2>2 DEF SFCsKept, SFCInWork
  <1>8. CASE UpdateWrite
    <2>1. PICK s, state : s = regulator.sfc /\ state = regulator.newState
      OBVIOUS
    <2>2. /\ s \in SFCs /\ state \in ResourceState /\ state # STATE_IN_PROCESSING
          /\ db' = updateSFCState(db, s, state) /\ UNCHANGED <<orchestratorQueue, inMediator>>
      BY <1>1, <1>8, <2>1
         DEF UpdateWrite, TypeOK, ResourceState, serverVars, STATE_IN_PROCESSING, STATE_ACTIVE, STATE_MANUAL
    <2>3. /\ WroteSFC(db, db', s) /\ hasSFC(db', s) = hasSFC(db, s)
          /\ hasSFC(db, s) => db'.SFC[s].state = state
      BY <1>1, <2>2, updateSFCStateLemma
    <2>4. /\ db'.Request = db.Request /\ db'.SFCI = db.SFCI
          /\ \A t \in SFCs : t # s => db'.SFC[t] = db.SFC[t]
      BY <2>3 DEF WroteSFC
    <2>5. SFCsKept
      BY <2>3, <2>4 DEF SFCsKept, hasSFC
    <2>6. \A t \in SFCs : SFCInWork(t)' => SFCInWork(t)
      BY <2>2, <2>3, <2>4 DEF SFCInWork, hasSFC
    <2>7. \A c : RplyIn(c) => RplyIn(c)'
      BY <2>2 DEF RplyIn
    <2>8. QED BY <1>4, <2>2, <2>4, <2>5, <2>6, <2>7 DEF hasRequest
  <1>9. ASSUME NEW r \in Requests, RetryWrite(r)
        PROVE  Ordered'
    <2>1. PICK m, e : /\ m = [kind |-> "request", id |-> r]
                      /\ e = updateRequestState2DB(db, r, REQUEST_STATE_INITIAL)
      OBVIOUS
    <2>2. /\ regulator.task = "retry" /\ r \in regulator.todo /\ db' = incRequestRetryCnt(e, r)
          /\ orchestratorQueue' = Append(orchestratorQueue, m) /\ UNCHANGED inMediator
      BY <1>9, <2>1 DEF RetryWrite, serverVars
    <2>3. m.kind = "request" /\ m.id = r
      BY <2>1
    <2>4. r \in Sent
      BY <1>1, <2>2 DEF TypeOK
    <2>5. hasRequest(db, r)
      <3>1. Repeats(<<"todo", 1>>, r) /\ <<"todo", 1>> \in Place
        BY <2>2 DEF Repeats, Place, Pos
      <3>2. QED BY <3>1 DEF OnceInv, Strict, RowTells, Failed
    <2>6. WroteRequest(db, e, r, REQUEST_STATE_INITIAL)
      BY <1>1, <2>1, updateRequestStateLemma DEF RequestState
    <2>7. WroteRequest(e, db', r, REQUEST_STATE_INITIAL)
      <3>1. e \in DB /\ hasRequest(e, r) /\ e.Request[r].state = REQUEST_STATE_INITIAL
        BY <2>6 DEF WroteRequest
      <3>2. QED BY <2>2, <3>1, incRequestRetryCntLemma
    <2>8. /\ db'.SFC = db.SFC /\ db'.SFCI = db.SFCI
          /\ \A q \in Requests : hasRequest(db', q) => hasRequest(db, q)
      BY <2>5, <2>6, <2>7 DEF WroteRequest, hasRequest
    <2>9. SFCsKept /\ \A t \in SFCs : SFCInWork(t)' => SFCInWork(t)
      BY <2>8 DEF SFCsKept, SFCInWork, hasSFC
    <2>10. hasSFC(db', submitted[r].sfc)
      BY <1>1, <1>3, <2>4, <2>5, <2>9 DEF RowsHaveSFC, SFCsKept
    <2>11. \A c : RplyIn(c) => RplyIn(c)'
      <3>1. m \in SentMsg
        BY <2>1, <2>4 DEF SentMsg
      <3>2. QED BY <1>1, <2>2, <3>1, AppendMsgLemma
    <2>12. QED BY <1>4, <2>2, <2>3, <2>4, <2>8, <2>9, <2>10, <2>11
  <1>10. QED BY <1>5, <1>6, <1>7, <1>8, <1>9 DEF Regulator

\* Steps of the loop that handle no request.
LEMMA LoopOrdered ==
    ASSUME AllInv, Strict, Ordered, TakeCmd \/ NoMsg \/ NoTimeout \/ PostponeRequest
    PROVE  Ordered'
  <1>1. /\ TypeOK /\ CmdIDsAreOwn /\ WaitingIsEmptied /\ RowsHaveSFC /\ WaitingInOrder /\ QueueInOrder
        /\ AddsCome /\ db \in DB
    BY DEF AllInv, TablesInv, Ordered, AddedBefore
  <1>2. UNCHANGED <<submitted, db, commandsInfo, inMediator, requestBatchQueue, batch>>
    BY DEF TakeCmd, NoMsg, NoTimeout, PostponeRequest, tableVars, clientVars, serverVars
  <1>3. SentKept /\ SFCsKept /\ \A r \in Sent : r \in Requests /\ submitted[r].sfc \in SFCs
    BY <1>1, <1>2, SentLemma DEF SentKept, SFCsKept, Sent
  <1>4. ASSUME \A c : RplyIn(c) => RplyIn(c)', WaitingIsEmptied', WaitingInOrder', QueueOrdered
        PROVE  Ordered'
    <2>1. RowsHaveSFC' /\ BatchHasSFC' /\ WorkingInv'
      BY <1>2, <1>3, <1>4, NoneHandled DEF SFCInWork
    <2>2. QED BY <1>4, <2>1 DEF Ordered, AddedBefore, QueueOrdered
  <1>5. CASE TakeCmd
    <2>1. Take("cmd") /\ phase' = "timer" /\ UNCHANGED requestWaitingQueue
      BY <1>5 DEF TakeCmd, Take
    <2>2. \A c : RplyIn(c) => RplyIn(c)'
      BY <1>1, <2>1, TakeLemma
    <2>3. WaitingInOrder' /\ WaitsKept
      BY <1>1, <1>3, <2>1, WaitSame
    <2>4. /\ \A n \in Pos : \A k, id : QueuedAt(n, k, id)' <=> QueuedAt(n + 1, k, id)
          /\ \A q : ~QueuedAt(1, "request", q)
      BY <1>1, <2>1, TakeShiftLemma
    <2>5. QueueOrdered
      BY <1>1, <1>2, <1>3, <2>3, <2>4, QueueShift
    <2>6. WaitingIsEmptied'
      BY <2>1 DEF WaitingIsEmptied
    <2>7. QED BY <1>4, <2>2, <2>3, <2>5, <2>6
  <1>6. CASE NoMsg \/ NoTimeout
    <2>1. UNCHANGED <<requestWaitingQueue, orchestratorQueue, runningState>>
      BY <1>6 DEF NoMsg, NoTimeout
    <2>2. \A c : RplyIn(c) => RplyIn(c)'
      BY <2>1 DEF RplyIn
    <2>3. WaitingInOrder' /\ WaitsKept
      BY <1>1, <1>3, <2>1, WaitSame
    <2>4. QueueOrdered
      BY <1>1, <1>2, <1>3, <2>1, <2>3, QueueSame
    <2>5. WaitingIsEmptied'
      BY <1>6, <2>1 DEF WaitingIsEmptied, NoMsg, NoTimeout, AfterTimer
    <2>6. QED BY <1>4, <2>2, <2>3, <2>4, <2>5
  <1>7. CASE PostponeRequest
    <2>1. PICK r : r = Head(orchestratorQueue).id
      OBVIOUS
    <2>2. /\ Take("request") /\ requestWaitingQueue' = Append(requestWaitingQueue, r)
          /\ phase' = "timer"
      BY <1>7, <2>1 DEF PostponeRequest, Take
    <2>3. r \in Sent /\ \A c : RplyIn(c) => RplyIn(c)'
      BY <1>1, <2>1, <2>2, TakeLemma, MsgLemma
    <2>4. /\ QueuedAt(1, "request", r)
          /\ \A n \in Pos : \A k, id : QueuedAt(n, k, id)' <=> QueuedAt(n + 1, k, id)
          /\ \A q : QueuedAt(1, "request", q) => q = r
      BY <1>1, <2>1, <2>2, TakeShiftLemma, TakeQueuedLemma
    <2>5. PICK end : end = Len(requestWaitingQueue) + 1
      OBVIOUS
    <2>6. /\ end \in Pos /\ WaitingAt(end, r)'
          /\ \A n \in Pos : \A q : WaitingAt(n, q) => WaitingAt(n, q)' /\ n <= end
          /\ \A n \in Pos : \A q : WaitingAt(n, q)' => WaitingAt(n, q) \/ (n = end /\ q = r)
      <3>1. requestWaitingQueue \in Seq(Sent)
        BY <1>1 DEF TypeOK
      <3>2. /\ Len(requestWaitingQueue) \in Nat
            /\ Len(requestWaitingQueue') = Len(requestWaitingQueue) + 1
            /\ \A k \in 1..Len(requestWaitingQueue) : requestWaitingQueue'[k] = requestWaitingQueue[k]
            /\ requestWaitingQueue'[end] = r
        BY <2>2, <2>3, <2>5, <3>1
      <3>3. /\ end \in Pos /\ end \in 1..Len(requestWaitingQueue')
            /\ \A k \in 1..Len(requestWaitingQueue) : k \in 1..Len(requestWaitingQueue') /\ k <= end
            /\ \A k \in 1..Len(requestWaitingQueue') : k # end => k \in 1..Len(requestWaitingQueue)
        BY <2>5, <3>2 DEF Pos
      <3>4. QED BY <3>2, <3>3 DEF WaitingAt
    <2>7. \A q, s : Adds(q, s)' <=> Adds(q, s)
      BY <1>2 DEF Adds, Sent
    <2>8. \A n \in Pos : \A s : WaitsBy(n, s) => WaitsBy(n, s)' /\ WaitsBy(end, s)'
      <3> SUFFICES ASSUME NEW n \in Pos, NEW s, WaitsBy(n, s)
                   PROVE  WaitsBy(n, s)' /\ WaitsBy(end, s)'
        OBVIOUS
      <3>1. PICK j \in Pos, q \in Requests : j <= n /\ WaitingAt(j, q) /\ Adds(q, s)
        BY DEF WaitsBy
      <3>2. WaitingAt(j, q)' /\ j <= end /\ Adds(q, s)'
        BY <2>6, <2>7, <3>1
      <3>3. QED BY <2>6, <3>1, <3>2 DEF WaitsBy
    <2>9. \A s : SomeWaits(s) => SomeWaits(s)' /\ WaitsBy(end, s)'
      BY <2>8 DEF SomeWaits
    <2>10. \A s : Adds(r, s) => WaitsBy(end, s)' /\ SomeWaits(s)'
      <3> SUFFICES ASSUME NEW s, Adds(r, s) PROVE WaitsBy(end, s)' /\ SomeWaits(s)'
        OBVIOUS
      <3>1. end <= end /\ r \in Requests /\ Adds(r, s)'
        BY <1>3, <2>3, <2>6, <2>7 DEF Pos
      <3>2. WaitsBy(end, s)'
        BY <2>6, <3>1 DEF WaitsBy
      <3>3. QED BY <2>6, <3>2 DEF SomeWaits
    <2>11. QueueOrdered
      <3>1. WaitsKept
        BY <2>9 DEF WaitsKept
      <3>2. QED BY <1>1, <1>2, <1>3, <2>4, <2>10, <3>1, QueueShift
    <2>12. WaitingInOrder'
      <3> SUFFICES ASSUME NEW n \in Pos, NEW q \in Sent, WaitingAt(n, q)',
                          NEW s, s = submitted[q].sfc
                   PROVE  hasSFC(db, s) \/ WaitsBy(n, s)'
        BY <1>2 DEF WaitingInOrder, Sent
      <3>1. CASE WaitingAt(n, q)
        BY <1>1, <2>8, <3>1 DEF WaitingInOrder
      <3>2. CASE n = end /\ q = r
        <4>1. hasSFC(db, s) \/ SomeWaits(s) \/ QueuedBy(1, s)
          <5>1. 1 \in Pos
            BY DEF Pos
          <5>2. QED BY <1>1, <2>3, <2>4, <3>2, <5>1 DEF QueueInOrder
        <4>2. QueuedBy(1, s) => Adds(r, s)
          <5>1. \A j \in Pos : j <= 1 => j = 1
            BY DEF Pos
          <5>2. QED BY <2>4, <5>1 DEF QueuedBy
        <4>3. QED BY <2>9, <2>10, <3>2, <4>1, <4>2
      <3>3. QED BY <2>6, <3>1, <3>2
    <2>13. WaitingIsEmptied'
      BY <2>2 DEF WaitingIsEmptied
    <2>14. QED BY <1>4, <2>3, <2>11, <2>12, <2>13
  <1>8. QED BY <1>5, <1>6, <1>7

LEMMA SubmitOrdered ==
    ASSUME AllInv, Strict, Ordered,
           NEW r \in Requests, NEW request \in Request, Submit(r, request)
    PROVE  Ordered'
  <1>1. /\ TypeOK /\ CmdIDsAreOwn /\ WaitingIsEmptied /\ RowsHaveSFC /\ WaitingInOrder /\ QueueInOrder
        /\ AddsCome /\ db \in DB
    BY DEF AllInv, TablesInv, Ordered, AddedBefore
  <1>2. PICK m : m = [kind |-> "request", id |-> r]
    OBVIOUS
  <1>3. /\ submitted[r] = None /\ submitted' = [submitted EXCEPT ![r] = request]
        /\ orchestratorQueue' = Append(orchestratorQueue, m) /\ m.kind = "request" /\ m.id = r
        /\ UNCHANGED <<requestBatchQueue, batch, requestWaitingQueue, phase, runningState, db,
                       commandsInfo, inMediator>>
    BY <1>2 DEF Submit, loopVars, tableVars, serverVars
  <1>4. /\ SentKept /\ r \in Sent' /\ submitted'[r] = request
        /\ \A q \in Sent' : q \in Sent \/ q = r
    BY <1>1, <1>3, NoneAssumption DEF TypeOK, Sent, SentKept
  <1>5. SFCsKept
    BY <1>3 DEF SFCsKept
  <1>6. \A c : RplyIn(c) => RplyIn(c)'
    <2>1. orchestratorQueue \in Seq(SentMsg)
      BY <1>1 DEF TypeOK
    <2>2. \A k \in 1..Len(orchestratorQueue) :
             orchestratorQueue'[k] = orchestratorQueue[k] /\ k \in 1..Len(orchestratorQueue')
      BY <1>3, <2>1
    <2>3. QED BY <2>2 DEF RplyIn
  <1>7. RowsHaveSFC' /\ BatchHasSFC' /\ WorkingInv'
    BY <1>3, <1>4, <1>5, <1>6, NoneHandled DEF SFCInWork
  <1>8. WaitingInOrder' /\ WaitsKept
    BY <1>1, <1>3, <1>4, <1>5, WaitSame
  <1>9. PICK s : s = request.sfc
    OBVIOUS
  <1>10. hasSFC(db', s) \/ SomeWaits(s)' \/ SomeQueued(s) \/ Adds(r, s)'
    <2>1. CASE request.type = "ADD_SFC"
      BY <1>4, <1>9, <2>1 DEF Adds
    <2>2. CASE request.type # "ADD_SFC"
      <3>1. PICK q \in 1..(r - 1) : submitted[q].type = "ADD_SFC" /\ submitted[q].sfc = s
        BY <1>9, <2>2 DEF Submit
      <3>2. q \in Requests
        BY OrchestratorAssumption DEF Requests
      <3>3. submitted[q] # None
        BY DEF Submit
      <3>4. Adds(q, s) /\ q \in Sent
        BY <3>1, <3>2, <3>3 DEF Adds, Sent
      <3>5. s \in SFCs
        BY <1>1, <3>1, <3>4, SentLemma
      <3>6. hasSFC(db, s) \/ SomeWaits(s) \/ SomeQueued(s)
        BY <1>1, <3>4 DEF AddsCome
      <3>7. QED BY <1>5, <1>8, <3>5, <3>6 DEF WaitsKept, SFCsKept
    <2>3. QED BY <2>1, <2>2
  <1>11. QueueOrdered
    BY <1>1, <1>3, <1>4, <1>5, <1>8, <1>9, <1>10, QueueAppend
  <1>12. WaitingIsEmptied'
    BY <1>1, <1>3 DEF WaitingIsEmptied
  <1>13. QED BY <1>7, <1>8, <1>11, <1>12 DEF Ordered, AddedBefore, QueueOrdered

\* A reply ends the processing of what its command is about.
LEMMA TakeRplyOrdered ==
    ASSUME AllInv, OnceInv, Strict, Ordered, TakeRply
    PROVE  Ordered'
  <1>1. /\ TypeOK /\ CmdIDsAreOwn /\ EntriesAreOwn /\ WaitingIsEmptied /\ RowsHaveSFC /\ BatchHasSFC
        /\ WaitingInOrder /\ QueueInOrder /\ AddsCome /\ WorkingInv
    BY DEF AllInv, TablesInv, Ordered, AddedBefore
  <1>2. PICK c, r : RplyTaken(c, r)
    BY TakeRplyLemma DEF Strict
  <1>3. /\ c \in SentCmd /\ r \in Sent /\ r \in Requests /\ r = c[1]
        /\ Running(c, r) /\ RplyWritten(r)
        /\ \A b \in DOMAIN commandsInfo : b # c => b \in DOMAIN commandsInfo'
        /\ \A b : RplyIn(b) /\ b # c => RplyIn(b)'
        /\ UNCHANGED <<submitted, inMediator, requestBatchQueue, batch, requestWaitingQueue>>
    BY <1>2 DEF RplyTaken, CmdOf
  <1>4. SentKept /\ SFCsKept
    BY <1>3 DEF SentKept, SFCsKept, RplyWritten, Sent
  <1>5. /\ Take("rply") /\ phase' = "timer"
        /\ \A n \in Pos : \A k, id : QueuedAt(n, k, id)' <=> QueuedAt(n + 1, k, id)
        /\ \A q : ~QueuedAt(1, "request", q)
    BY <1>1, TakeShiftLemma DEF TakeRply, Take
  <1>6. RowsHaveSFC'
    <2>1. \A q \in Requests : hasRequest(db', q) => hasRequest(db, q)
      BY <1>3 DEF RplyWritten, hasRequest, Running
    <2>2. QED BY <1>1, <1>4, <2>1, RowsKept
  <1>7. BatchHasSFC'
    BY <1>1, <1>3, <1>4, BatchKept DEF BatchedAt, Sent
  <1>8. WaitingInOrder' /\ WaitsKept
    BY <1>1, <1>3, <1>4, WaitSame
  <1>9. QueueOrdered
    BY <1>1, <1>3, <1>4, <1>5, <1>8, QueueShift
  <1>10. WorkingInv'
    <2>1. \A b : Working(b) /\ b # c => Working(b)'
      BY <1>3 DEF Working
    <2>2. \A b, s : AboutSFC(b, s) => AboutSFC(b, s)'
      BY <1>3 DEF AboutSFC, SentCmd, Sent
    <2>3. \A b, i : AboutSFCI(b, i) => AboutSFCI(b, i)'
      BY <1>3 DEF AboutSFCI, SentCmd, Sent
    <2>4. ASSUME NEW s \in SFCs, SFCInWork(s)'
          PROVE  \E b : Working(b)' /\ AboutSFC(b, s)'
      <3>1. SFCInWork(s) /\ (submitted[r].type \in {"ADD_SFC", "DEL_SFC"} => s # submitted[r].sfc)
        BY <1>3, <2>4 DEF SFCInWork, RplyWritten
      <3>2. PICK b : Working(b) /\ AboutSFC(b, s)
        BY <1>1, <3>1 DEF WorkingInv
      <3>3. b # c
        BY <1>3, <3>1, <3>2 DEF AboutSFC
      <3>4. QED BY <2>1, <2>2, <3>2, <3>3
    <2>5. ASSUME NEW i \in SFCIs, SFCIInWork(i)'
          PROVE  \E b : Working(b)' /\ AboutSFCI(b, i)'
      <3>1. ~CmdRplyRaises(db, submitted[r])
        BY <1>1, <1>3 DEF CmdRplyRaises, RowsHaveSFC, Running
      <3>2. SFCIInWork(i) /\ (submitted[r].type \in {"ADD_SFCI", "DEL_SFCI"} => i # submitted[r].sfci)
        BY <1>3, <2>5, <3>1 DEF SFCIInWork, RplyWritten
      <3>3. PICK b : Working(b) /\ AboutSFCI(b, i)
        BY <1>1, <3>2 DEF WorkingInv
      <3>4. submitted[r].type \in {"ADD_SFC", "DEL_SFC"} => submitted[r].sfci = None
        <4>1. PICK q \in Request : q = submitted[r]
          BY <1>1, <1>3, SentLemma
        <4>2. CASE q \in [type : {"ADD_SFC", "DEL_SFC"}, sfc : SFCs, sfci : {None}, valid : {TRUE}]
          BY <4>1, <4>2
        <4>3. ASSUME NEW j \in SFCIs,
                     q \in [type : {"DEL_SFCI"}, sfc : {j[1]}, sfci : {j}, valid : {TRUE}] \cup
                           [type : {"ADD_SFCI"}, sfc : {j[1]}, sfci : {j}, valid : BOOLEAN]
              PROVE  q.type \in {"ADD_SFCI", "DEL_SFCI"}
          BY <4>3
        <4>4. QED BY <4>1, <4>2, <4>3 DEF Request
      <3>5. b # c
        <4>1. submitted[r].type \in {"ADD_SFC", "DEL_SFC", "ADD_SFCI", "DEL_SFCI"}
          BY <1>1, <1>3, SentLemma
        <4>2. QED BY <1>3, <3>2, <3>3, <3>4, <4>1, NoneAssumption DEF AboutSFCI
      <3>6. QED BY <2>1, <2>3, <3>3, <3>5
    <2>6. QED BY <2>4, <2>5 DEF WorkingInv
  <1>11. WaitingIsEmptied'
    BY <1>5 DEF WaitingIsEmptied
  <1>12. QED BY <1>6, <1>7, <1>8, <1>9, <1>10, <1>11 DEF Ordered, AddedBefore, QueueOrdered

\* A request is handled whose SFC has a row or that adds it.
LEMMA HandledWorking ==
    ASSUME TypeOK, EntriesAreOwn, WorkingInv, NEW r \in Sent, Handled(r), UNCHANGED submitted,
           \A c : RplyIn(c) => RplyIn(c)'
    PROVE  WorkingInv'
  <1>1. PICK c0 : c0 = NextCmdID(r)
    OBVIOUS
  <1>2. /\ c0 \in SentCmd /\ c0[1] = r /\ SentKept /\ SentCmd' = SentCmd
    BY <1>1, NextCmdIDLemma DEF SentKept, Sent, SentCmd
  <1>3. CASE SendCmd(r) /\ ResourcesAfter(r, TRUE)
    <2>1. commandsInfo' = addCmd(commandsInfo, c0, submitted[r]) /\ inMediator' = inMediator \cup {c0}
      BY <1>1, <1>3 DEF SendCmd
    <2>2. DOMAIN commandsInfo' = DOMAIN commandsInfo \cup {c0}
      <3>1. submitted[r] = submitted[c0[1]] /\ submitted[r] \in Request
        BY <1>2, SentLemma
      <3>2. QED BY <1>2, <2>1, <3>1, addCmdLemma
    <2>3. Working(c0)' /\ \A c : Working(c) => Working(c)'
      BY <2>1, <2>2 DEF Working
    <2>4. \A s \in SFCs : SFCInWork(s)' => SFCInWork(s) \/ AboutSFC(c0, s)'
      BY <1>2, <1>3 DEF ResourcesAfter, SFCInWork, AboutSFC
    <2>5. \A i \in SFCIs : SFCIInWork(i)' => SFCIInWork(i) \/ AboutSFCI(c0, i)'
      BY <1>2, <1>3 DEF ResourcesAfter, SFCIInWork, AboutSFCI
    <2>6. QED BY <1>2, <2>3, <2>4, <2>5, WorkingKept
  <1>4. CASE SendNothing /\ ResourcesAfter(r, FALSE)
    <2>1. \A c : Working(c) => Working(c)'
      BY <1>4 DEF Working, SendNothing
    <2>2. \A s \in SFCs : SFCInWork(s)' => SFCInWork(s)
      BY <1>4 DEF ResourcesAfter, SFCInWork
    <2>3. \A i \in SFCIs : SFCIInWork(i)' => SFCIInWork(i)
      BY <1>4 DEF ResourcesAfter, SFCIInWork
    <2>4. QED BY <1>2, <2>1, <2>2, <2>3, WorkingKept
  <1>5. QED BY <1>3, <1>4 DEF Handled

\* A step that only writes rows of requests whose SFC has a row.
LEMMA WrittenWorking ==
    ASSUME TypeOK, WorkingInv, RequestsWritten(Sent), UNCHANGED <<submitted, commandsInfo, inMediator>>,
           \A c : RplyIn(c) => RplyIn(c)'
    PROVE  WorkingInv' /\ SFCsKept
  <1>1. SentKept /\ \A c : Working(c) => Working(c)'
    BY DEF SentKept, Sent, Working
  <1>2. /\ SFCsKept /\ \A s \in SFCs : SFCInWork(s)' => SFCInWork(s)
        /\ \A i \in SFCIs : SFCIInWork(i)' => SFCIInWork(i)
    BY DEF RequestsWritten, SFCsKept, SFCInWork, SFCIInWork, hasSFC, hasSFCI
  <1>3. QED BY <1>1, <1>2, WorkingKept

\* The batch is mapped: its requests have their SFC.
LEMMA MapBatchOrdered ==
    ASSUME TypeOK, CmdIDsAreOwn, RowsHaveSFC, WorkingInv, UNCHANGED submitted,
           NEW queue \in Seq(SentSFCI), MapBatch(queue),
           \A n \in 1..Len(queue) : hasSFC(db, submitted[queue[n]].sfc),
           \A c : RplyIn(c) => RplyIn(c)'
    PROVE  RowsHaveSFC' /\ BatchHasSFC' /\ WorkingInv' /\ SFCsKept
  <1>1. /\ RequestsWritten(Sent) /\ WroteRejected(db', queue) /\ UNCHANGED <<commandsInfo, inMediator>>
        /\ requestBatchQueue' = <<>>
        /\ \A entry \in batch' : entry[1] \in 1..Len(queue) /\ entry[2] = queue[entry[1]]
    BY MapBatchLemma
  <1>2. WorkingInv' /\ SFCsKept
    BY <1>1, WrittenWorking
  <1>3. Sent' = Sent /\ SentKept /\ (\A r \in Sent : submitted[r].sfc \in SFCs)
        /\ \A n \in 1..Len(queue) : queue[n] \in Sent
    BY SentLemma DEF Sent, SentKept, SentSFCI
  <1>4. RowsHaveSFC'
    <2>1. \A r \in Requests : hasRequest(db', r) =>
             hasRequest(db, r) \/ (r \in Sent /\ hasSFC(db', submitted[r].sfc))
      <3> SUFFICES ASSUME NEW r \in Requests, hasRequest(db', r), ~hasRequest(db, r)
                   PROVE  r \in Sent /\ hasSFC(db', submitted[r].sfc)
        OBVIOUS
      <3>1. PICK n \in 1..Len(queue) : queue[n] = r
        BY <1>1 DEF WroteRejected, hasRequest
      <3>2. QED BY <1>2, <1>3, <3>1 DEF SFCsKept
    <2>2. QED BY <1>2, <1>3, <2>1, RowsKept
  <1>5. BatchHasSFC'
    <2> SUFFICES ASSUME NEW n \in Pos, NEW r \in Sent, BatchedAt(n, r)' \/ <<n, r>> \in batch'
                 PROVE  hasSFC(db', submitted[r].sfc)
      BY <1>3 DEF BatchHasSFC
    <2>1. ~BatchedAt(n, r)'
      <3>1. Len(requestBatchQueue') = 0
        BY <1>1
      <3>2. QED BY <3>1 DEF BatchedAt, Pos
    <2>2. n \in 1..Len(queue) /\ r = queue[n]
      <3> DEFINE entry == <<n, r>>
      <3>1. entry \in batch' /\ entry[1] = n /\ entry[2] = r
        BY <2>1
      <3> HIDE DEF entry
      <3>2. QED BY <1>1, <3>1
    <2>3. QED BY <1>2, <1>3, <2>2 DEF SFCsKept
  <1>6. QED BY <1>2, <1>4, <1>5

\* _requestHandler.
LEMMA HandlerOrdered ==
    ASSUME AllInv, Strict, Ordered, NEW r \in Sent, RequestHandler(r),
           hasSFC(db, submitted[r].sfc) \/ Adds(r, submitted[r].sfc),
           \A c : RplyIn(c) => RplyIn(c)'
    PROVE  /\ RowsHaveSFC' /\ BatchHasSFC' /\ WorkingInv' /\ SFCsKept
           /\ \A s : Adds(r, s) => hasSFC(db', s)
           /\ UNCHANGED <<submitted, runningState>>
  <1>1. /\ TypeOK /\ CmdIDsAreOwn /\ EntriesAreOwn /\ RowsHaveSFC /\ BatchHasSFC /\ WorkingInv
    BY DEF AllInv, TablesInv, Ordered, AddedBefore
  <1>2. /\ UNCHANGED <<submitted, scenario, runningState>> /\ ~scenario.mayRaise
        /\ \/ HandleAddSFCI(r)
           \/ HandleAddSFC(r) \/ HandleDelSFCI(r) \/ HandleDelSFC(r) \/ HandleRaises(r)
    BY DEF RequestHandler, clientVars, Strict
  <1>3. SentKept /\ r \in Requests /\ submitted[r].sfc \in SFCs
    BY <1>1, <1>2, SentLemma DEF SentKept, Sent
  <1>4. CASE HandleAddSFC(r) \/ HandleDelSFCI(r) \/ HandleDelSFC(r) \/ HandleRaises(r)
    <2>1. Handled(r) /\ UNCHANGED <<requestBatchQueue, batch>>
      BY <1>1, <1>4, HandledLemma
    <2>2. WorkingInv'
      BY <1>1, <1>2, <2>1, HandledWorking
    <2>3. SFCsKept
      BY <2>1 DEF Handled, ResourcesAfter, SFCsKept
    <2>4. hasSFC(db', submitted[r].sfc)
      BY <1>2, <1>3, <2>1, <2>3 DEF Adds, Handled, SFCsKept
    <2>5. RowsHaveSFC'
      <3>1. \A q \in Requests : q # r => db'.Request[q] = db.Request[q]
        BY <2>1 DEF Handled
      <3>2. QED BY <1>1, <1>3, <2>3, <2>4, <3>1, RowsKept DEF hasRequest
    <2>6. BatchHasSFC'
      BY <1>1, <1>2, <1>3, <2>1, <2>3, BatchKept DEF BatchedAt, Sent
    <2>7. QED BY <1>2, <2>2, <2>3, <2>4, <2>5, <2>6 DEF Adds
  <1>5. CASE HandleAddSFCI(r)
    <2> DEFINE queue == Append(requestBatchQueue, r)
    <2>1. r \in SentSFCI /\ requestBatchQueue \in Seq(SentSFCI) /\ submitted[r].type = "ADD_SFCI"
      BY <1>1, <1>5, AddSFCILemma DEF TypeOK, SentSFCI
    <2>2. hasSFC(db, submitted[r].sfc) /\ \A s : ~Adds(r, s)
      BY <2>1 DEF Adds
    <2>3. queue \in Seq(SentSFCI) /\ \A n \in 1..Len(queue) : queue[n] = r \/ BatchedAt(n, queue[n])
      BY <2>1 DEF BatchedAt
    <2>4. \/ /\ requestBatchQueue' = queue
             /\ UNCHANGED <<commandsInfo, inMediator, db, batch>>
          \/ MapBatch(queue)
      BY <1>2, <1>5 DEF HandleAddSFCI, SendNothing, MapBatchRaises
    <2> HIDE DEF queue
    <2>5. \A n \in 1..Len(queue) : queue[n] \in Sent /\ hasSFC(db, submitted[queue[n]].sfc)
      <3>1. \A n \in 1..Len(queue) : n \in Pos /\ queue[n] \in Sent
        BY <2>3 DEF Pos, SentSFCI
      <3>2. QED BY <1>1, <2>2, <2>3, <3>1 DEF BatchHasSFC
    <2>6. CASE MapBatch(queue)
      BY <1>1, <1>2, <2>2, <2>3, <2>5, <2>6, MapBatchOrdered
    <2>7. CASE requestBatchQueue' = queue /\ UNCHANGED <<commandsInfo, inMediator, db, batch>>
      <3>1. SFCsKept /\ RowsHaveSFC'
        BY <1>1, <1>2, <2>7 DEF SFCsKept, RowsHaveSFC
      <3>2. WorkingInv'
        <4>1. RequestsWritten(Sent)
          BY <1>1, <1>5, AddSFCILemma
        <4>2. QED BY <1>1, <1>2, <2>7, <4>1, WrittenWorking
      <3>3. BatchHasSFC'
        <4>1. \A n \in Pos : \A q \in Sent' : (BatchedAt(n, q)' \/ <<n, q>> \in batch') =>
                /\ q \in Sent
                /\ BatchedAt(n, q) \/ <<n, q>> \in batch \/ hasSFC(db', submitted[q].sfc)
          BY <1>2, <2>5, <2>7 DEF BatchedAt, Sent
        <4>2. QED BY <1>1, <1>3, <3>1, <4>1, BatchKept
      <3>4. QED BY <1>2, <2>2, <3>1, <3>2, <3>3
    <2>8. QED BY <2>4, <2>6, <2>7
  <1>6. QED BY <1>2, <1>4, <1>5

\* Steps of the loop that handle requests.
LEMMA HandleOrdered ==
    ASSUME AllInv, Strict, Ordered, TakeRequest \/ TakeWaitingRequest \/ BatchTimeout \/ BatchStep
    PROVE  Ordered'
  <1>1. /\ TypeOK /\ LoopInv /\ CmdIDsAreOwn /\ EntriesAreOwn /\ WaitingIsEmptied /\ RowsHaveSFC
        /\ BatchHasSFC /\ WaitingInOrder /\ QueueInOrder /\ AddsCome /\ WorkingInv
    BY DEF AllInv, TablesInv, Ordered, AddedBefore
  <1>2. UNCHANGED <<submitted, runningState>> /\ SentKept /\ ~scenario.mayRaise
    BY DEF TakeRequest, TakeWaitingRequest, BatchTimeout, BatchStep, RequestHandler, clientVars, SentKept,
           Sent, Strict
  <1>3. 1 \in Pos /\ \A j \in Pos : j <= 1 => j = 1
    BY DEF Pos
  <1>4. CASE TakeRequest
    <2>1. PICK r : r = Head(orchestratorQueue).id
      OBVIOUS
    <2>2. /\ Take("request") /\ phase = "recv" /\ phase' = "timer" /\ runningState
          /\ RequestHandler(r) /\ UNCHANGED requestWaitingQueue
      BY <1>4, <2>1 DEF TakeRequest, Take
    <2>3. r \in Sent /\ \A c : RplyIn(c) => RplyIn(c)'
      BY <1>1, <2>1, <2>2, TakeLemma, MsgLemma
    <2>4. /\ QueuedAt(1, "request", r)
          /\ \A n \in Pos : \A k, id : QueuedAt(n, k, id)' <=> QueuedAt(n + 1, k, id)
          /\ \A q : QueuedAt(1, "request", q) => q = r
      BY <1>1, <2>1, <2>2, TakeShiftLemma, TakeQueuedLemma
    <2>5. PICK s : s = submitted[r].sfc
      OBVIOUS
    <2>6. hasSFC(db, s) \/ Adds(r, s)
      <3>1. ~SomeWaits(s)
        <4>1. Len(requestWaitingQueue) = 0
          BY <1>1, <2>2 DEF WaitingIsEmptied
        <4>2. \A n \in Pos : \A q : ~WaitingAt(n, q)
          BY <4>1 DEF WaitingAt, Pos
        <4>3. QED BY <4>2 DEF SomeWaits, WaitsBy
      <3>2. hasSFC(db, s) \/ QueuedBy(1, s)
        BY <1>1, <1>3, <2>3, <2>4, <2>5, <3>1 DEF QueueInOrder
      <3>3. QueuedBy(1, s) => Adds(r, s)
        BY <1>3, <2>4 DEF QueuedBy
      <3>4. QED BY <3>2, <3>3
    <2>7. /\ RowsHaveSFC' /\ BatchHasSFC' /\ WorkingInv' /\ SFCsKept
          /\ \A t : Adds(r, t) => hasSFC(db', t)
      BY <2>2, <2>3, <2>5, <2>6, HandlerOrdered
    <2>8. WaitingInOrder' /\ WaitsKept
      BY <1>1, <1>2, <2>2, <2>7, WaitSame
    <2>9. QueueOrdered
      BY <1>1, <1>2, <2>4, <2>7, <2>8, QueueShift
    <2>10. WaitingIsEmptied'
      BY <2>2 DEF WaitingIsEmptied
    <2>11. QED BY <2>7, <2>8, <2>9, <2>10 DEF Ordered, AddedBefore, QueueOrdered
  <1>5. CASE TakeWaitingRequest
    <2>1. PICK r : r = Head(requestWaitingQueue)
      OBVIOUS
    <2>2. /\ phase = "waiting" /\ RequestHandler(r) /\ UNCHANGED orchestratorQueue
          /\ requestWaitingQueue' = Tail(requestWaitingQueue)
          /\ phase' = IF Len(requestWaitingQueue) = 1 THEN "recv" ELSE "waiting"
          /\ requestWaitingQueue \in Seq(Sent) /\ requestWaitingQueue # <<>>
      BY <1>1, <1>5, <2>1 DEF TakeWaitingRequest, LoopInv, TypeOK
    <2>3. /\ r \in Sent /\ r = requestWaitingQueue[1] /\ Len(requestWaitingQueue) \in Pos
          /\ requestWaitingQueue' \in Seq(Sent)
          /\ Len(requestWaitingQueue') = Len(requestWaitingQueue) - 1
          /\ \A k \in 1..Len(requestWaitingQueue') : requestWaitingQueue'[k] = requestWaitingQueue[k + 1]
      BY <2>1, <2>2, TailLemma
    <2>4. /\ WaitingAt(1, r) /\ \A q : WaitingAt(1, q) => q = r
          /\ \A n \in Pos : \A q : WaitingAt(n, q)' <=> WaitingAt(n + 1, q)
      <3>1. /\ 1 \in 1..Len(requestWaitingQueue)
            /\ \A n \in Pos : n \in 1..Len(requestWaitingQueue') <=> n + 1 \in 1..Len(requestWaitingQueue)
        BY <2>3 DEF Pos
      <3>2. QED BY <2>3, <3>1 DEF WaitingAt
    <2>5. PICK s : s = submitted[r].sfc
      OBVIOUS
    <2>6. hasSFC(db, s) \/ Adds(r, s)
      <3>1. hasSFC(db, s) \/ WaitsBy(1, s)
        BY <1>1, <1>3, <2>3, <2>4, <2>5 DEF WaitingInOrder
      <3>2. WaitsBy(1, s) => Adds(r, s)
        BY <1>3, <2>4 DEF WaitsBy
      <3>3. QED BY <3>1, <3>2
    <2>7. \A c : RplyIn(c) => RplyIn(c)'
      BY <2>2 DEF RplyIn
    <2>8. /\ RowsHaveSFC' /\ BatchHasSFC' /\ WorkingInv' /\ SFCsKept
          /\ \A t : Adds(r, t) => hasSFC(db', t)
      BY <2>2, <2>3, <2>5, <2>6, <2>7, HandlerOrdered
    <2>9. WaitingInOrder' /\ WaitsKept
      BY <1>1, <1>2, <2>4, <2>8, WaitShift
    <2>10. QueueOrdered
      BY <1>1, <1>2, <2>2, <2>8, <2>9, QueueSame
    <2>11. WaitingIsEmptied'
      <3>1. CASE Len(requestWaitingQueue) = 1
        <4>1. Len(requestWaitingQueue') = 0
          BY <2>3, <3>1
        <4>2. requestWaitingQueue' = <<>>
          BY <2>3, <4>1
        <4>3. QED BY <2>2, <3>1, <4>2 DEF WaitingIsEmptied
      <3>2. CASE Len(requestWaitingQueue) # 1
        BY <1>1, <1>2, <2>2, <3>2 DEF WaitingIsEmptied
      <3>3. QED BY <3>1, <3>2
    <2>12. QED BY <2>8, <2>9, <2>10, <2>11 DEF Ordered, AddedBefore, QueueOrdered
  <1>6. ASSUME RowsHaveSFC', BatchHasSFC', WorkingInv', SFCsKept, WaitingIsEmptied',
               UNCHANGED <<requestWaitingQueue, orchestratorQueue>>
        PROVE  Ordered'
    <2>1. WaitingInOrder' /\ WaitsKept
      BY <1>1, <1>2, <1>6, WaitSame
    <2>2. QueueOrdered
      BY <1>1, <1>2, <1>6, <2>1, QueueSame
    <2>3. QED BY <1>6, <2>1, <2>2 DEF Ordered, AddedBefore, QueueOrdered
  <1>7. CASE BatchTimeout
    <2>1. /\ MapBatch(requestBatchQueue) /\ phase' = AfterTimer
          /\ UNCHANGED <<requestWaitingQueue, orchestratorQueue>>
          /\ requestBatchQueue \in Seq(SentSFCI)
      BY <1>1, <1>2, <1>7 DEF BatchTimeout, MapBatchRaises, TypeOK
    <2>2. \A n \in 1..Len(requestBatchQueue) : hasSFC(db, submitted[requestBatchQueue[n]].sfc)
      <3>1. \A n \in 1..Len(requestBatchQueue) :
               n \in Pos /\ requestBatchQueue[n] \in Sent /\ BatchedAt(n, requestBatchQueue[n])
        BY <2>1 DEF Pos, SentSFCI, BatchedAt
      <3>2. QED BY <1>1, <3>1 DEF BatchHasSFC
    <2>3. \A c : RplyIn(c) => RplyIn(c)'
      BY <2>1 DEF RplyIn
    <2>4. RowsHaveSFC' /\ BatchHasSFC' /\ WorkingInv' /\ SFCsKept
      BY <1>1, <1>2, <2>1, <2>2, <2>3, MapBatchOrdered
    <2>5. WaitingIsEmptied'
      BY <1>2, <2>1 DEF WaitingIsEmptied, AfterTimer
    <2>6. QED BY <1>6, <2>1, <2>4, <2>5
  <1>8. CASE BatchStep
    <2>1. PICK entry \in batch : BatchEntry(entry)
      BY <1>8 DEF BatchStep, BatchEntry
    <2>2. PICK n0 \in Pos, r \in SentSFCI : entry = <<n0, r>>
      BY <1>1 DEF TypeOK
    <2>3. Handled(r) /\ batch' = batch \ {entry} /\ r \in Sent /\ r \in Requests
          /\ submitted[r].sfc \in SFCs
      <3>1. r = entry[2] /\ r \in SentSFCI
        BY <2>2
      <3>2. Handled(r)
        BY <1>1, <2>1, <3>1, HandledBatchLemma DEF BatchEntry
      <3>3. QED BY <1>1, <2>1, <3>1, <3>2, SentLemma DEF BatchEntry, SentSFCI
    <2>4. UNCHANGED <<requestBatchQueue, requestWaitingQueue, phase, orchestratorQueue>>
      BY <1>8 DEF BatchStep
    <2>5. \A c : RplyIn(c) => RplyIn(c)'
      BY <2>4 DEF RplyIn
    <2>6. WorkingInv'
      BY <1>1, <1>2, <2>3, <2>5, HandledWorking
    <2>7. SFCsKept
      BY <2>3 DEF Handled, ResourcesAfter, SFCsKept
    <2>8. hasSFC(db', submitted[r].sfc)
      BY <1>1, <2>2, <2>3, <2>7 DEF BatchHasSFC, SFCsKept
    <2>9. RowsHaveSFC'
      <3>1. \A q \in Requests : q # r => db'.Request[q] = db.Request[q]
        BY <2>3 DEF Handled
      <3>2. QED BY <1>1, <1>2, <2>3, <2>7, <2>8, <3>1, RowsKept DEF hasRequest
    <2>10. BatchHasSFC'
      BY <1>1, <1>2, <2>3, <2>4, <2>7, BatchKept DEF BatchedAt, Sent
    <2>11. WaitingIsEmptied'
      BY <1>1, <1>2, <2>4 DEF WaitingIsEmptied
    <2>12. QED BY <1>6, <2>4, <2>6, <2>7, <2>9, <2>10, <2>11
  <1>9. QED BY <1>4, <1>5, <1>7, <1>8

LEMMA OrderedLemma == Spec => [](Strict => Ordered)
  <1>1. Init => Ordered
    <2> SUFFICES ASSUME Init PROVE Ordered
      OBVIOUS
    <2>1. /\ db = [Request |-> [r \in Requests |-> None], SFC |-> [s \in SFCs |-> None],
                   SFCI |-> [i \in SFCIs |-> None]]
          /\ orchestratorQueue = <<[kind |-> "cmd", id |-> "TURN_ON"]>>
          /\ requestBatchQueue = <<>> /\ batch = {} /\ requestWaitingQueue = <<>>
          /\ phase = "recv" /\ submitted = [r \in Requests |-> None]
      BY DEF Init
    <2>2. Sent = {}
      BY <2>1 DEF Sent
    <2>3. AddedBefore
      BY <2>1, <2>2 DEF AddedBefore, RowsHaveSFC, BatchHasSFC, WaitingInOrder, QueueInOrder, AddsCome,
                        hasRequest
    <2>4. WorkingInv
      BY <2>1 DEF WorkingInv, SFCInWork, SFCIInWork, hasSFC, hasSFCI
    <2>5. WaitingIsEmptied
      BY <2>1 DEF WaitingIsEmptied
    <2>6. QED BY <2>3, <2>4, <2>5 DEF Ordered
  <1>2. AllInv /\ OnceInv /\ (Strict => Ordered) /\ [Next]_vars => (Strict => Ordered)'
    <2> SUFFICES ASSUME AllInv, OnceInv, Strict => Ordered, [Next]_vars, Strict'
                 PROVE  Ordered'
      OBVIOUS
    <2>1. ~Redeliver
      <3>1. redeliveries \in Nat /\ redeliveries' = 0
        BY DEF AllInv, TypeOK, Strict
      <3>2. QED BY <3>1 DEF Redeliver
    <2>2. UNCHANGED <<redeliveries, scenario>>
      BY <2>1 DEF Next, Submit, SendAdminCmd, StartOrchestrator, TakeRequest, PostponeRequest, TakeCmd,
                  TakeRply, NoMsg, NoTimeout, BatchTimeout, BatchStep, TakeWaitingRequest,
                  RequestHandler, MediatorAnswer, Regulator, RetryRead, RetryWrite, UpdateRead,
                  UpdateWrite, clientVars, vars
    <2>3. Strict /\ Ordered
      BY <2>2 DEF Strict
    <2>4. QED BY <2>1, <2>3, AroundOrdered, LoopOrdered, SubmitOrdered, TakeRplyOrdered, HandleOrdered
              DEF Next, StartOrchestrator
  <1>3. QED BY <1>1, <1>2, OnceInvLemma, PTL DEF Spec

\* No interleaving of requests, repetitions and replies leaves a request, an SFC or an SFCI
\* in processing for ever: the reply that ends this is to come and will be recognised.  For
\* a request this holds whatever is delivered twice or raised, for an SFC or SFCI as long as
\* neither happens.
THEOREM NothingStuckInProcessing == Spec => []NoneStuckInProcessing
  <1>1. AllInv /\ (Strict => Ordered) => NoneStuckInProcessing
    <2> SUFFICES ASSUME AllInv, Strict => Ordered PROVE NoneStuckInProcessing
      OBVIOUS
    <2>1. TablesInv /\ RequestsAreAwaited
      BY DEF AllInv, TablesInv
    <2>2. ResourcesAreAwaited
      <3>1. CASE Strict
        BY <2>1, <3>1, WorkingAwaited DEF Ordered
      <3>2. CASE ~Strict
        BY <3>2 DEF Strict, ResourcesAreAwaited
      <3>3. QED BY <3>1, <3>2
    <2>3. QED BY <2>1, <2>2 DEF NoneStuckInProcessing
  <1>2. QED BY <1>1, AllInvLemma, OrderedLemma, PTL
-----------------------------------------------------------------------------
(***************************************************************************)
(* A client that waits until a request is settled before it sends the      *)
(* next one: at most one request is open, the SFCI of its command is       *)
(* marked, and the reply to the command tells what is deployed.            *)
(***************************************************************************)
OneAtATime == scenario.pending = 1 /\ redeliveries = 0

Unsettled(r) == r \in Sent /\ ~Settled(r)
OneOpen      == \A r, q \in Requests : Unsettled(r) /\ Unsettled(q) => r = q

\* Command c is carried out or was answered.
Serves(c) == c \in inMediator \/ RplyIn(c)
OnSFCI(r) == submitted[r].type \in {"ADD_SFCI", "DEL_SFCI"}
Marked    == \A c \in SentCmd : Serves(c) /\ OnSFCI(c[1]) => SFCIInWork(submitted[c[1]].sfci)

\* A reply that reports success is right about the SFCI.
Honest(m) ==
    m.kind = "rply" /\ m.cmdState = CMD_STATE_SUCCESSFUL =>
        /\ submitted[m.id[1]].type = "ADD_SFCI" => submitted[m.id[1]].sfci \in deployed
        /\ submitted[m.id[1]].type = "DEL_SFCI" => submitted[m.id[1]].sfci \notin deployed
RpliesHonest == \A n \in 1..Len(orchestratorQueue) : Honest(orchestratorQueue[n])

\* The regulator repeats only requests that are not settled.
MayRepeat == \A r \in Requests : Repeated(r) => db.Request[r].retryCnt < MAX_RETRY_NUM

RowTrue(i) == hasSFCI(db, i) => /\ db.SFCI[i].state = STATE_ACTIVE => i \in deployed
                                /\ db.SFCI[i].state = STATE_DELETED => i \notin deployed
RowsTrue   == \A i \in SFCIs : RowTrue(i)

TruthInv == OneOpen /\ Marked /\ RpliesHonest /\ MayRepeat /\ RowsTrue

\* What a step may not touch: the rows of requests that have ended.
RowsFinal ==
    \A q \in Requests :
        hasRequest(db, q) /\ db.Request[q].state \in {REQUEST_STATE_FAILED, REQUEST_STATE_SUCCESSFUL} =>
        db'.Request[q] = db.Request[q]

\* A request that is anywhere in the system is not settled.
LEMMA HolderLemma ==
    ASSUME TypeOK, MayRepeat, NEW r \in Sent, RowTells(r), NEW p \in Place, Holds(p, r)
    PROVE  Unsettled(r)
  <1>1. r \in Requests /\ db \in DB
    BY SentLemma DEF TypeOK
  <1>2. hasRequest(db, r) => db.Request[r].retryCnt \in Nat
    BY <1>1, RowsLemma DEF RequestRow
  <1>3. CASE Waits(p, r)
    BY <1>3 DEF RowTells, NotStarted, Unsettled, Settled, REQUEST_STATE_INITIAL,
                REQUEST_STATE_SUCCESSFUL, REQUEST_STATE_FAILED
  <1>4. CASE Repeats(p, r)
    <2>1. Failed(r) /\ Repeated(r)
      BY <1>4 DEF RowTells, Repeats, Repeated
    <2>2. db.Request[r].retryCnt < MAX_RETRY_NUM
      BY <1>1, <2>1 DEF MayRepeat
    <2>3. ~(db.Request[r].retryCnt >= MAX_RETRY_NUM)
      BY <1>2, <2>1, <2>2, OrchestratorAssumption DEF Failed
    <2>4. QED BY <2>1, <2>3 DEF Failed, Unsettled, Settled, REQUEST_STATE_SUCCESSFUL, REQUEST_STATE_FAILED
  <1>5. ASSUME NEW c \in CmdID, CmdOf(c, r), Runs(p, c)
        PROVE  Unsettled(r)
    BY <1>5 DEF RowTells, Running, Unsettled, Settled, REQUEST_STATE_IN_PROCESSING,
                REQUEST_STATE_SUCCESSFUL, REQUEST_STATE_FAILED
  <1>6. QED BY <1>3, <1>4, <1>5 DEF Holds

\* A command that is under way is that of a request in processing.
LEMMA ServesLemma ==
    ASSUME TypeOK, \A q \in Requests : OnePlace(q) /\ RowTells(q), NEW c \in SentCmd, Serves(c),
           NEW r, r = c[1]
    PROVE  /\ c \in CmdID /\ r \in Sent /\ r \in Requests /\ CmdOf(c, r) /\ Running(c, r)
           /\ \E p \in Place : Runs(p, c) /\ Holds(p, r)
  <1>1. c \in CmdID /\ r \in Sent /\ r \in Requests /\ CmdOf(c, r) /\ c[2] \in Pos
    BY SentLemma DEF SentCmd, CmdOf
  <1>2. \E p \in Place : Runs(p, c)
    <2>1. CASE c \in inMediator
      <3>1. <<"mediator", c[2]>> \in Place /\ Runs(<<"mediator", c[2]>>, c)
        BY <1>1, <2>1 DEF Place, Runs
      <3>2. QED BY <3>1
    <2>2. CASE RplyIn(c)
      <3>1. PICK n \in 1..Len(orchestratorQueue) :
                orchestratorQueue[n].kind = "rply" /\ orchestratorQueue[n].id = c
        BY <2>2 DEF RplyIn
      <3>2. n \in Pos
        BY <3>1 DEF Pos
      <3>3. <<"queue", n>> \in Place /\ Runs(<<"queue", n>>, c)
        BY <3>1, <3>2 DEF Place, Runs, QueuedAt
      <3>4. QED BY <3>3
    <2>3. QED BY <2>1, <2>2 DEF Serves
  <1>3. PICK p \in Place : Runs(p, c)
    BY <1>2
  <1>4. Holds(p, r) /\ Running(c, r)
    BY <1>1, <1>3 DEF Holds, RowTells
  <1>5. QED BY <1>1, <1>3, <1>4

\* While a request waits to be handled no command is under way.
LEMMA AloneLemma ==
    ASSUME TypeOK, \A q \in Requests : OnePlace(q) /\ RowTells(q), TruthInv,
           NEW r \in Sent, NEW p \in Place, Waits(p, r)
    PROVE  \A c \in SentCmd : ~Serves(c)
  <1> SUFFICES ASSUME NEW c \in SentCmd, Serves(c) PROVE FALSE
    OBVIOUS
  <1>1. r \in Requests /\ Holds(p, r) /\ RowTells(r)
    BY SentLemma DEF Holds
  <1>2. PICK q : q = c[1]
    OBVIOUS
  <1>3. q \in Sent /\ q \in Requests /\ Running(c, q) /\ \E t \in Place : Holds(t, q)
    BY <1>2, ServesLemma
  <1>4. Unsettled(r) /\ Unsettled(q)
    BY <1>1, <1>3, HolderLemma DEF TruthInv
  <1>5. r = q
    BY <1>1, <1>3, <1>4 DEF TruthInv, OneOpen
  <1>6. QED BY <1>1, <1>3, <1>5
            DEF RowTells, NotStarted, Running, REQUEST_STATE_INITIAL, REQUEST_STATE_IN_PROCESSING

\* At most one command is under way.
LEMMA OneServedLemma ==
    ASSUME TypeOK, \A q \in Requests : OnePlace(q) /\ RowTells(q), TruthInv,
           NEW c \in SentCmd, NEW b \in SentCmd, Serves(c), Serves(b)
    PROVE  b = c
  <1>1. PICK r, q : r = c[1] /\ q = b[1]
    OBVIOUS
  <1>2. r \in Sent /\ r \in Requests /\ Running(c, r) /\ \E t \in Place : Holds(t, r)
    BY <1>1, ServesLemma
  <1>3. q \in Sent /\ q \in Requests /\ Running(b, q) /\ \E t \in Place : Holds(t, q)
    BY <1>1, ServesLemma
  <1>4. Unsettled(r) /\ Unsettled(q)
    BY <1>2, <1>3, HolderLemma DEF TruthInv
  <1>5. r = q
    BY <1>2, <1>3, <1>4 DEF TruthInv, OneOpen
  <1>6. QED BY <1>2, <1>3, <1>5 DEF Running

\* Nothing becomes unsettled as long as the rows of requests that have ended stay.
LEMMA FinalLemma ==
    ASSUME TruthInv, \A q \in Requests : RowTells(q), RowsFinal, UNCHANGED submitted,
           \A q \in Requests : Repeated(q)' => Repeated(q)
    PROVE  OneOpen' /\ MayRepeat'
  <1>1. \A q \in Requests : Settled(q) => Settled(q)'
    BY DEF Settled, RowsFinal, hasRequest
  <1>2. Sent' = Sent
    BY SameSentLemma
  <1>3. OneOpen'
    BY <1>1, <1>2 DEF TruthInv, OneOpen, Unsettled
  <1>4. ASSUME NEW q \in Requests, Repeated(q)
        PROVE  Failed(q)
    <2>1. Repeats(<<"todo", 1>>, q) /\ <<"todo", 1>> \in Place
      BY <1>4 DEF Repeats, Repeated, Place, Pos
    <2>2. QED BY <2>1 DEF RowTells
  <1>5. MayRepeat'
    BY <1>4 DEF TruthInv, MayRepeat, Failed, RowsFinal
  <1>6. QED BY <1>3, <1>5

\* The replies in the queue were there before the step.
RpliesFrom ==
    \A n \in 1..Len(orchestratorQueue') : orchestratorQueue'[n].kind = "rply" =>
        \E k \in 1..Len(orchestratorQueue) : orchestratorQueue[k] = orchestratorQueue'[n]

LEMMA HonestKept ==
    ASSUME RpliesHonest, UNCHANGED <<submitted, deployed>>, RpliesFrom
    PROVE  RpliesHonest'
  <1> SUFFICES ASSUME NEW n \in 1..Len(orchestratorQueue'), NEW m, m = orchestratorQueue'[n]
               PROVE  Honest(m)'
    BY DEF RpliesHonest
  <1>1. CASE m.kind = "rply"
    <2>1. PICK k \in 1..Len(orchestratorQueue) : orchestratorQueue[k] = m
      BY <1>1 DEF RpliesFrom
    <2>2. Honest(m)
      BY <2>1 DEF RpliesHonest
    <2>3. QED BY <2>2 DEF Honest
  <1>2. CASE m.kind # "rply"
    BY <1>2 DEF Honest
  <1>3. QED BY <1>1, <1>2

\* Steps that neither send nor answer a command and leave the SFCIs alone.
LEMMA CalmLemma ==
    ASSUME TruthInv, OneOpen', MayRepeat', UNCHANGED <<submitted, deployed>>, db'.SFCI = db.SFCI,
           inMediator' \subseteq inMediator, RpliesFrom
    PROVE  TruthInv'
  <1>1. SentCmd' = SentCmd
    BY SameSentLemma
  <1>2. \A c \in SentCmd : Serves(c)' => Serves(c)
    BY DEF Serves, RplyIn, RpliesFrom
  <1>3. Marked'
    BY <1>1, <1>2 DEF TruthInv, Marked, OnSFCI, SFCIInWork, hasSFCI
  <1>4. RpliesHonest'
    BY HonestKept DEF TruthInv
  <1>5. RowsTrue'
    BY DEF TruthInv, RowsTrue, RowTrue, hasSFCI
  <1>6. QED BY <1>3, <1>4, <1>5 DEF TruthInv

\* The queue after the loop took a message, and after a message that is no reply came in.
LEMMA RpliesFromLemma ==
    ASSUME TypeOK,
           \/ UNCHANGED orchestratorQueue
           \/ \E kind : Take(kind)
           \/ \E m : m.kind # "rply" /\ orchestratorQueue' = Append(orchestratorQueue, m)
    PROVE  RpliesFrom
  <1>1. CASE UNCHANGED orchestratorQueue
    BY <1>1 DEF RpliesFrom
  <1>2. CASE \E kind : Take(kind)
    <2>1. /\ orchestratorQueue' = Tail(orchestratorQueue) /\ orchestratorQueue # <<>>
          /\ orchestratorQueue \in Seq(SentMsg)
      BY <1>2 DEF Take, TypeOK
    <2>2. QED BY <2>1, TailLemma DEF RpliesFrom
  <1>3. CASE \E m : m.kind # "rply" /\ orchestratorQueue' = Append(orchestratorQueue, m)
    <2>1. PICK m : m.kind # "rply" /\ orchestratorQueue' = Append(orchestratorQueue, m)
      BY <1>3
    <2>2. orchestratorQueue \in Seq(SentMsg)
      BY DEF TypeOK
    <2>3. \A n \in 1..Len(orchestratorQueue') :
             \/ orchestratorQueue'[n] = m
             \/ n \in 1..Len(orchestratorQueue) /\ orchestratorQueue[n] = orchestratorQueue'[n]
      BY <2>1, <2>2
    <2>4. QED BY <2>1, <2>3 DEF RpliesFrom
  <1>4. QED BY <1>1, <1>2, <1>3

\* The rows of Request after an ADD_SFCI joined the batch or the batch was processed.
LEMMA AddSFCIRows ==
    ASSUME TypeOK, NEW r \in Sent, HandleAddSFCI(r)
    PROVE  \A q \in Requests : q = r \/ ~hasRequest(db, q) \/ db'.Request[q] = db.Request[q]
  <1> DEFINE queue == Append(requestBatchQueue, r)
             e == WithRejected(queue)
  <1>1. r \in SentSFCI /\ r \in Requests
    BY SentLemma DEF HandleAddSFCI, SentSFCI
  <1>2. queue \in Seq(SentSFCI)
    BY <1>1 DEF TypeOK
  <1>3. WroteRejected(e, queue)
    BY <1>2, WithRejectedLemma
  <1>4. db' = db \/ db' = e \/ db' = updateRequestState2DB(e, r, REQUEST_STATE_FAILED)
    BY DEF HandleAddSFCI, MapBatch, MapBatchRaises
  <1> HIDE DEF queue, e
  <1>5. e \in DB /\ \A q \in Requests : ~hasRequest(db, q) \/ e.Request[q] = db.Request[q]
    BY <1>3 DEF WroteRejected
  <1>6. CASE db' = updateRequestState2DB(e, r, REQUEST_STATE_FAILED)
    <2>1. WroteRequest(e, db', r, REQUEST_STATE_FAILED)
      BY <1>1, <1>5, <1>6, updateRequestStateLemma DEF RequestState
    <2>2. QED BY <1>5, <2>1 DEF WroteRequest
  <1>7. QED BY <1>4, <1>5, <1>6

\* A request is handled: its command, if there is one, is the only one under way.
LEMMA HandledTruth ==
    ASSUME TypeOK, \A q \in Requests : OnePlace(q) /\ RowTells(q), TruthInv,
           NEW r \in Sent, NEW p \in Place, Waits(p, r), Handled(r), RpliesFrom,
           UNCHANGED <<submitted, deployed, regulator>>
    PROVE  TruthInv'
  <1>1. /\ r \in Requests /\ NotStarted(r) /\ SentCmd' = SentCmd
        /\ OnSFCI(r) => submitted[r].sfci \in SFCIs
    BY SentLemma, SameSentLemma DEF RowTells, OnSFCI
  <1>2. RowsFinal
    BY <1>1 DEF RowsFinal, Handled, NotStarted, REQUEST_STATE_INITIAL, REQUEST_STATE_FAILED,
                REQUEST_STATE_SUCCESSFUL
  <1>3. OneOpen' /\ MayRepeat'
    BY <1>2, FinalLemma DEF Repeated
  <1>4. RpliesHonest'
    BY HonestKept DEF TruthInv
  <1>5. \A c \in SentCmd : c \notin inMediator /\ ~RplyIn(c)'
    <2>1. \A c \in SentCmd : ~Serves(c)
      BY AloneLemma
    <2>2. \A c : RplyIn(c)' => RplyIn(c)
      BY DEF RpliesFrom, RplyIn
    <2>3. QED BY <2>1, <2>2 DEF Serves
  <1>6. PICK c0 : c0 = NextCmdID(r)
    OBVIOUS
  <1>7. c0[1] = r
    BY <1>6, NextCmdIDLemma
  <1>8. /\ \A i \in SFCIs : hasSFCI(db', i) /\ db'.SFCI[i].state = STATE_ACTIVE =>
              hasSFCI(db, i) /\ db.SFCI[i].state = STATE_ACTIVE
        /\ \A i \in SFCIs : hasSFCI(db', i) /\ db'.SFCI[i].state = STATE_DELETED =>
              hasSFCI(db, i) /\ db.SFCI[i].state = STATE_DELETED
    BY DEF Handled, ResourcesAfter
  <1>9. RowsTrue'
    BY <1>8 DEF TruthInv, RowsTrue, RowTrue
  <1>10. Marked'
    <2> SUFFICES ASSUME NEW c \in SentCmd, Serves(c)', OnSFCI(c[1])
                 PROVE  hasSFCI(db', submitted[c[1]].sfci)
                        /\ db'.SFCI[submitted[c[1]].sfci].state = STATE_IN_PROCESSING
      BY <1>1 DEF Marked, OnSFCI, SFCIInWork
    <2>1. c \in inMediator'
      BY <1>5 DEF Serves
    <2>2. SendCmd(r) /\ ResourcesAfter(r, TRUE) /\ c = c0
      BY <1>5, <1>6, <2>1 DEF Handled, SendNothing, SendCmd
    <2>3. QED BY <1>7, <2>2 DEF ResourcesAfter, OnSFCI
  <1>11. QED BY <1>3, <1>4, <1>9, <1>10 DEF TruthInv

LEMMA HandlerTruth ==
    ASSUME TypeOK, \A q \in Requests : OnePlace(q) /\ RowTells(q), TruthInv,
           NEW r \in Sent, NEW p \in Place, Waits(p, r), RequestHandler(r), RpliesFrom
    PROVE  TruthInv'
  <1>1. UNCHANGED <<submitted, deployed, regulator>>
    BY DEF RequestHandler, clientVars
  <1>2. CASE HandleAddSFC(r) \/ HandleDelSFCI(r) \/ HandleDelSFC(r) \/ HandleRaises(r)
    BY <1>1, <1>2, HandledLemma, HandledTruth
  <1>3. CASE HandleAddSFCI(r)
    <2>1. r \in Requests /\ NotStarted(r)
      BY SentLemma DEF RowTells
    <2>2. RequestsWritten(Sent) /\ UNCHANGED inMediator
      BY <1>3, AddSFCILemma
    <2>3. \A q \in Requests : q = r \/ ~hasRequest(db, q) \/ db'.Request[q] = db.Request[q]
      BY <1>3, AddSFCIRows
    <2>4. RowsFinal
      BY <2>1, <2>3 DEF RowsFinal, NotStarted, REQUEST_STATE_INITIAL, REQUEST_STATE_FAILED,
                        REQUEST_STATE_SUCCESSFUL
    <2>5. OneOpen' /\ MayRepeat'
      BY <1>1, <2>4, FinalLemma DEF Repeated
    <2>6. QED BY <1>1, <2>2, <2>5, CalmLemma DEF RequestsWritten
  <1>4. QED BY <1>2, <1>3 DEF RequestHandler
\* The steps of the loop, except the replies.
LEMMA LoopTruth ==
    ASSUME AllInv, OnceInv, redeliveries = 0, TruthInv,
           \/ TakeRequest \/ PostponeRequest \/ TakeCmd \/ NoMsg
           \/ NoTimeout \/ BatchTimeout \/ BatchStep \/ TakeWaitingRequest
    PROVE  TruthInv'
  <1>1. /\ TypeOK /\ LoopInv
        /\ \A r \in Requests : OnePlace(r) /\ RowTells(r)
    BY DEF AllInv, OnceInv
  <1>2. CASE TakeRequest
    <2>1. PICK r : r = Head(orchestratorQueue).id
      OBVIOUS
    <2>2. Take("request") /\ RequestHandler(r)
      BY <1>2, <2>1 DEF TakeRequest
    <2>3. r \in Sent
      BY <1>1, <2>1, <2>2, TakeLemma, MsgLemma
    <2>4. QueuedAt(1, "request", r)
      BY <1>1, <2>1, <2>2, TakeQueuedLemma
    <2>5. Waits(<<"queue", 1>>, r) /\ <<"queue", 1>> \in Place
      BY <2>4 DEF Waits, Place, Pos
    <2>6. RpliesFrom
      BY <1>1, <2>2, RpliesFromLemma
    <2>7. QED BY <1>1, <2>2, <2>3, <2>5, <2>6, HandlerTruth
  <1>3. CASE TakeWaitingRequest
    <2>1. PICK r : r = Head(requestWaitingQueue)
      OBVIOUS
    <2>2. /\ RequestHandler(r) /\ UNCHANGED orchestratorQueue
          /\ requestWaitingQueue \in Seq(Sent) /\ requestWaitingQueue # <<>>
      BY <1>1, <1>3, <2>1 DEF TakeWaitingRequest, LoopInv, TypeOK
    <2>3. r \in Sent /\ r = requestWaitingQueue[1] /\ Len(requestWaitingQueue) \in Pos
      BY <2>1, <2>2, TailLemma
    <2>4. Waits(<<"waiting", 1>>, r) /\ <<"waiting", 1>> \in Place
      <3>1. 1 \in 1..Len(requestWaitingQueue) /\ 1 \in Pos
        BY <2>3 DEF Pos
      <3>2. QED BY <2>3, <3>1 DEF Waits, Place
    <2>5. RpliesFrom
      BY <1>1, <2>2, RpliesFromLemma
    <2>6. QED BY <1>1, <2>2, <2>3, <2>4, <2>5, HandlerTruth
  <1>4. CASE PostponeRequest \/ TakeCmd \/ NoMsg \/ NoTimeout
    <2>1. UNCHANGED <<db, submitted, deployed, inMediator, regulator>>
      BY <1>4 DEF PostponeRequest, TakeCmd, NoMsg, NoTimeout, tableVars, serverVars, clientVars
    <2>2. RpliesFrom
      <3>1. UNCHANGED orchestratorQueue \/ \E kind : Take(kind)
        BY <1>4 DEF PostponeRequest, TakeCmd, NoMsg, NoTimeout
      <3>2. QED BY <1>1, <3>1, RpliesFromLemma
    <2>3. RowsFinal
      BY <2>1 DEF RowsFinal
    <2>4. OneOpen' /\ MayRepeat'
      BY <1>1, <2>1, <2>3, FinalLemma DEF Repeated
    <2>5. QED BY <2>1, <2>2, <2>4, CalmLemma
  <1>5. CASE BatchTimeout
    <2>1. PICK e : e = WithRejected(requestBatchQueue)
      OBVIOUS
    <2>2. /\ db' = e /\ UNCHANGED <<submitted, deployed, inMediator, regulator, orchestratorQueue>>
          /\ requestBatchQueue \in Seq(SentSFCI)
      BY <1>1, <1>5, <2>1
         DEF BatchTimeout, MapBatch, MapBatchRaises, SendNothing, clientVars, TypeOK
    <2>3. WroteRejected(e, requestBatchQueue)
      BY <1>1, <2>1, <2>2, WithRejectedLemma
    <2>4. RowsFinal /\ db'.SFCI = db.SFCI
      BY <2>2, <2>3 DEF RowsFinal, WroteRejected
    <2>5. OneOpen' /\ MayRepeat'
      BY <1>1, <2>2, <2>4, FinalLemma DEF Repeated
    <2>6. RpliesFrom
      BY <1>1, <2>2, RpliesFromLemma
    <2>7. QED BY <2>2, <2>4, <2>5, <2>6, CalmLemma
  <1>6. CASE BatchStep
    <2>1. PICK entry \in batch : BatchEntry(entry)
      BY <1>6 DEF BatchStep, BatchEntry
    <2>2. PICK n0 \in Pos, r \in SentSFCI : entry = <<n0, r>>
      BY <1>1 DEF TypeOK
    <2>3. Handled(r) /\ r \in Sent
      <3>1. r = entry[2] /\ r \in SentSFCI
        BY <2>2
      <3>2. Handled(r)
        BY <1>1, <2>1, <3>1, HandledBatchLemma DEF BatchEntry
      <3>3. QED BY <3>1, <3>2 DEF SentSFCI
    <2>4. UNCHANGED <<submitted, deployed, regulator, orchestratorQueue>>
      BY <1>6 DEF BatchStep, clientVars
    <2>5. Waits(<<"batch", n0>>, r) /\ <<"batch", n0>> \in Place
      BY <2>2 DEF Waits, Place
    <2>6. RpliesFrom
      BY <1>1, <2>4, RpliesFromLemma
    <2>7. QED BY <1>1, <2>3, <2>4, <2>5, <2>6, HandledTruth
  <1>7. QED BY <1>2, <1>3, <1>4, <1>5, <1>6

\* The mediator answers the only command under way.
LEMMA MediatorTruth ==
    ASSUME AllInv, OnceInv, redeliveries = 0, TruthInv, NEW c \in inMediator, MediatorAnswer(c)
    PROVE  TruthInv'
  <1>1. TypeOK /\ \A r \in Requests : OnePlace(r) /\ RowTells(r)
    BY DEF AllInv, OnceInv
  <1>2. /\ inMediator' = inMediator \ {c} /\ UNCHANGED <<db, submitted, regulator>>
    BY DEF MediatorAnswer, loopVars, tableVars, clientVars
  <1>3. PICK r, q : r = c[1] /\ q = submitted[r]
    OBVIOUS
  <1>4. c \in SentCmd /\ Serves(c) /\ r \in Sent /\ SentCmd' = SentCmd
    BY <1>1, <1>2, <1>3, SameSentLemma DEF TypeOK, Serves, SentCmd
  <1>5. /\ q.type \in {"ADD_SFC", "DEL_SFC", "ADD_SFCI", "DEL_SFCI"}
        /\ OnSFCI(r) => q.sfci \in SFCIs /\ SFCIInWork(q.sfci)
    BY <1>1, <1>3, <1>4, SentLemma DEF TruthInv, Marked, OnSFCI
  <1>6. PICK cmdState \in {CMD_STATE_SUCCESSFUL, CMD_STATE_FAIL} :
            /\ deployed' \in DeployedAfter(q, cmdState)
            /\ orchestratorQueue' =
                 Append(orchestratorQueue, [kind |-> "rply", id |-> c, cmdState |-> cmdState])
    BY <1>3 DEF MediatorAnswer
  <1>0. PICK m : m = [kind |-> "rply", id |-> c, cmdState |-> cmdState]
    OBVIOUS
  <1>7. orchestratorQueue' = Append(orchestratorQueue, m) /\ m.kind = "rply" /\ m.id = c /\ m.cmdState = cmdState
    BY <1>0, <1>6
  <1>8. /\ \A i : OnSFCI(r) => (i # q.sfci => (i \in deployed' <=> i \in deployed))
        /\ ~OnSFCI(r) => deployed' = deployed
        /\ cmdState = CMD_STATE_SUCCESSFUL /\ q.type = "ADD_SFCI" => q.sfci \in deployed'
        /\ cmdState = CMD_STATE_SUCCESSFUL /\ q.type = "DEL_SFCI" => q.sfci \notin deployed'
    <2> DEFINE touched == IF q.sfci = None THEN {} ELSE {q.sfci}
    <2>0. q.type \in {"ADD_SFCI", "DEL_SFCI"} => touched = {q.sfci}
      BY <1>3, <1>5, NoneAssumption DEF OnSFCI
    <2> HIDE DEF touched
    <2>1. CASE q.type = "ADD_SFCI" /\ cmdState = CMD_STATE_SUCCESSFUL
      <3>1. deployed' = deployed \cup touched
        BY <1>6, <2>1 DEF DeployedAfter, touched, CMD_STATE_FAIL, CMD_STATE_SUCCESSFUL
      <3>2. QED BY <1>3, <2>0, <2>1, <3>1 DEF OnSFCI
    <2>2. CASE q.type = "DEL_SFCI" /\ cmdState = CMD_STATE_SUCCESSFUL
      <3>1. deployed' = deployed \ touched
        BY <1>6, <2>2 DEF DeployedAfter, touched, CMD_STATE_FAIL, CMD_STATE_SUCCESSFUL
      <3>2. QED BY <1>3, <2>0, <2>2, <3>1 DEF OnSFCI
    <2>3. CASE q.type = "ADD_SFCI" /\ cmdState = CMD_STATE_FAIL
      <3>1. deployed' \in {deployed, deployed \cup touched}
        BY <1>6, <2>3 DEF DeployedAfter, touched, CMD_STATE_FAIL, CMD_STATE_SUCCESSFUL
      <3>2. QED BY <1>3, <2>0, <2>3, <3>1 DEF OnSFCI, CMD_STATE_FAIL, CMD_STATE_SUCCESSFUL
    <2>4. CASE q.type = "DEL_SFCI" /\ cmdState = CMD_STATE_FAIL
      <3>1. deployed' \in {deployed, deployed \ touched}
        BY <1>6, <2>4 DEF DeployedAfter, touched, CMD_STATE_FAIL, CMD_STATE_SUCCESSFUL
      <3>2. QED BY <1>3, <2>0, <2>4, <3>1 DEF OnSFCI, CMD_STATE_FAIL, CMD_STATE_SUCCESSFUL
    <2>5. CASE q.type \in {"ADD_SFC", "DEL_SFC"}
      <3>1. deployed' = deployed
        BY <1>6, <2>5 DEF DeployedAfter
      <3>2. QED BY <1>3, <2>5, <3>1 DEF OnSFCI
    <2>6. QED BY <1>5, <1>6, <2>1, <2>2, <2>3, <2>4, <2>5
  <1>9. OneOpen' /\ MayRepeat'
    BY <1>1, <1>2, FinalLemma DEF Repeated, RowsFinal
  <1>10. /\ orchestratorQueue \in Seq(SentMsg)
         /\ \A n \in 1..Len(orchestratorQueue') :
              \/ orchestratorQueue'[n] = m
              \/ n \in 1..Len(orchestratorQueue) /\ orchestratorQueue[n] = orchestratorQueue'[n]
    BY <1>1, <1>7 DEF TypeOK
  <1>11. Marked'
    <2>1. \A b \in SentCmd : Serves(b)' => Serves(b)
      BY <1>2, <1>4, <1>7, <1>10 DEF Serves, RplyIn
    <2>2. QED BY <1>2, <1>4, <2>1 DEF TruthInv, Marked, OnSFCI, SFCIInWork
  <1>12. RpliesHonest'
    <2> SUFFICES ASSUME NEW n \in 1..Len(orchestratorQueue'), NEW msg, msg = orchestratorQueue'[n],
                        msg.kind = "rply"
                 PROVE  Honest(msg)'
      BY DEF RpliesHonest, Honest
    <2>1. CASE msg = m
      BY <1>2, <1>3, <1>7, <1>8, <2>1 DEF Honest
    <2>2. CASE n \in 1..Len(orchestratorQueue) /\ orchestratorQueue[n] = msg
      <3>1. msg \in SentMsg
        BY <1>10, <2>2
      <3>2. PICK b : b = msg.id
        OBVIOUS
      <3>3. b \in SentCmd /\ Serves(b)
        BY <2>2, <3>1, <3>2, MsgLemma DEF Serves, RplyIn
      <3>4. b = c
        BY <1>1, <1>4, <3>3, OneServedLemma
      <3>5. c \in CmdID /\ r \in Requests /\ CmdOf(c, r) /\ c[2] \in Pos
        BY <1>1, <1>3, <1>4, SentLemma DEF CmdOf, SentCmd
      <3>6. n \in Pos
        BY DEF Pos
      <3>7. <<"queue", n>> \in Place /\ <<"mediator", c[2]>> \in Place
        BY <3>5, <3>6 DEF Place
      <3>8. Runs(<<"queue", n>>, c) /\ Runs(<<"mediator", c[2]>>, c)
        BY <2>2, <3>2, <3>4 DEF Runs, QueuedAt
      <3>9. Holds(<<"queue", n>>, r) /\ Holds(<<"mediator", c[2]>>, r)
        BY <3>5, <3>8 DEF Holds
      <3>10. <<"queue", n>> = <<"mediator", c[2]>>
        BY <1>1, <3>5, <3>7, <3>9 DEF OnePlace
      <3>11. QED BY <3>10
    <2>3. QED BY <1>10, <2>1, <2>2
  <1>13. RowsTrue'
    <2> SUFFICES ASSUME NEW i \in SFCIs, hasSFCI(db, i)
                 PROVE  /\ db.SFCI[i].state = STATE_ACTIVE => i \in deployed'
                        /\ db.SFCI[i].state = STATE_DELETED => i \notin deployed'
      BY <1>2 DEF RowsTrue, RowTrue
    <2>1. CASE OnSFCI(r) /\ i = q.sfci
      BY <1>5, <2>1 DEF SFCIInWork, STATE_IN_PROCESSING, STATE_ACTIVE, STATE_DELETED
    <2>2. CASE ~(OnSFCI(r) /\ i = q.sfci)
      BY <1>8, <2>2 DEF TruthInv, RowsTrue, RowTrue
    <2>3. QED BY <2>1, <2>2
  <1>14. QED BY <1>9, <1>11, <1>12, <1>13 DEF TruthInv
\* What _cmdRplyHandler writes into the table SFCI.
LEMMA SFCIRowWritten ==
    ASSUME TypeOK, NEW r \in Sent, NEW cmdState \in {CMD_STATE_SUCCESSFUL, CMD_STATE_FAIL},
           db' = cmdRplyHandler(db, r, submitted[r], cmdState)
    PROVE  \A i \in SFCIs :
              \/ db'.SFCI[i] = db.SFCI[i]
              \/ /\ OnSFCI(r) /\ i = submitted[r].sfci
                 /\ hasSFCI(db', i) =>
                       db'.SFCI[i].state = ResourceStateAfter(submitted[r].type, cmdState)
  <1> DEFINE q == submitted[r]
             reqState == RequestStateAfter(cmdState)
             state == ResourceStateAfter(q.type, cmdState)
             d == updateRequestState2DB(db, r, reqState)
  <1>1. /\ r \in Requests /\ db \in DB /\ q.sfc \in SFCs
        /\ q.type \in {"ADD_SFC", "DEL_SFC", "ADD_SFCI", "DEL_SFCI"}
        /\ q.type \in {"ADD_SFCI", "DEL_SFCI"} => q.sfci \in SFCIs /\ q.sfci[1] = q.sfc
    BY SentLemma DEF TypeOK
  <1>2. reqState \in RequestState
    BY DEF RequestStateAfter, RequestState
  <1>3. state \in ResourceState
    BY <1>1 DEF ResourceStateAfter, ResourceState
  <1>4. WroteRequest(db, d, r, reqState) /\ d \in DB /\ d.SFCI = db.SFCI /\ d.SFC = db.SFC
    BY <1>1, <1>2, updateRequestStateLemma DEF WroteRequest
  <1>5. db' = CASE q.type \in {"ADD_SFC", "DEL_SFC"} -> updateSFCState(d, q.sfc, state)
                [] q.type = "DEL_SFCI" -> updateSFCIState(d, q.sfci, state)
                [] q.type = "ADD_SFCI" ->
                      IF CmdRplyRaises(db, q) THEN d
                      ELSE updateSFCIState(addSFCI2SFCInDB(d, q.sfci), q.sfci, state)
    BY DEF cmdRplyHandler
  <1> HIDE DEF reqState, state, d
  <1>6. CASE q.type \in {"ADD_SFC", "DEL_SFC"}
    <2>1. db' = updateSFCState(d, q.sfc, state)
      BY <1>5, <1>6
    <2>2. WroteSFC(d, db', q.sfc)
      BY <1>1, <1>3, <1>4, <2>1, updateSFCStateLemma
    <2>3. QED BY <1>4, <2>2 DEF WroteSFC
  <1>7. CASE q.type = "DEL_SFCI"
    <2>1. db' = updateSFCIState(d, q.sfci, state)
      BY <1>5, <1>7
    <2>2. WroteSFCI(d, db', q.sfci) /\ hasSFCI(db', q.sfci) = hasSFCI(d, q.sfci)
          /\ (hasSFCI(d, q.sfci) => db'.SFCI[q.sfci].state = state)
      BY <1>1, <1>3, <1>4, <1>7, <2>1, updateSFCIStateLemma
    <2>3. QED BY <1>4, <1>7, <2>2 DEF WroteSFCI, OnSFCI, state
  <1>8. CASE q.type = "ADD_SFCI" /\ CmdRplyRaises(db, q)
    BY <1>4, <1>5, <1>8
  <1>9. CASE q.type = "ADD_SFCI" /\ ~CmdRplyRaises(db, q)
    <2> DEFINE e == addSFCI2SFCInDB(d, q.sfci)
    <2>1. db' = updateSFCIState(e, q.sfci, state)
      BY <1>5, <1>9
    <2>2. hasSFC(d, q.sfc) /\ q.sfci \in SFCIs /\ SFCIOf(q.sfci, q.sfc)
      BY <1>1, <1>4, <1>9 DEF CmdRplyRaises, hasSFC, SFCIOf
    <2>3. WroteList(d, e, q.sfc, q.sfci)
      BY <1>1, <1>4, <2>2, addSFCI2SFCLemma
    <2> HIDE DEF e
    <2>4. WroteSFCI(e, db', q.sfci) /\ hasSFCI(db', q.sfci) = hasSFCI(e, q.sfci)
          /\ (hasSFCI(e, q.sfci) => db'.SFCI[q.sfci].state = state)
      BY <1>3, <2>1, <2>2, <2>3, updateSFCIStateLemma DEF WroteList
    <2>5. QED BY <1>4, <1>9, <2>3, <2>4 DEF WroteSFCI, WroteList, OnSFCI, state
  <1>10. QED BY <1>1, <1>6, <1>7, <1>8, <1>9

\* The reply is the last trace of the command, and what it writes is true.
LEMMA TakeRplyTruth ==
    ASSUME AllInv, OnceInv, redeliveries = 0, TruthInv, TakeRply
    PROVE  TruthInv'
  <1>1. TypeOK /\ \A r \in Requests : OnePlace(r) /\ RowTells(r)
    BY DEF AllInv, OnceInv
  <1>2. PICK c, r : RplyTaken(c, r)
    BY TakeRplyLemma
  <1>3. PICK m : m = Head(orchestratorQueue)
    OBVIOUS
  <1>4. /\ c \in CmdID /\ c \in SentCmd /\ r \in Sent /\ r \in Requests /\ CmdOf(c, r)
        /\ Running(c, r) /\ OnlyAt(r, "queue", 1) /\ RplyWritten(r)
        /\ m.id = c /\ db' = cmdRplyHandler(db, r, submitted[r], m.cmdState)
        /\ UNCHANGED <<submitted, inMediator, regulator>> /\ SentCmd' = SentCmd
    BY <1>2, <1>3, SameSentLemma DEF RplyTaken
  <1>5. UNCHANGED deployed
    BY DEF TakeRply, serverVars
  <1>6. m \in SentMsg /\ m.kind = "rply" /\ m.cmdState \in {CMD_STATE_SUCCESSFUL, CMD_STATE_FAIL}
    <2>1. Take("rply")
      BY DEF TakeRply
    <2>2. QED BY <1>1, <1>3, <2>1, TakeLemma, MsgLemma
  <1>7. RpliesFrom
    BY <1>1, RpliesFromLemma DEF TakeRply
  <1>8. QueuedAt(1, "rply", c) /\ \A n \in Pos : \A k, id : QueuedAt(n, k, id)' => QueuedAt(n + 1, k, id)
    BY <1>1, <1>3, <1>4, TakeQueuedLemma DEF TakeRply
  <1>9. Serves(c) /\ Honest(m)
    <2>1. orchestratorQueue # <<>> /\ orchestratorQueue \in Seq(SentMsg)
      BY <1>1 DEF TakeRply, Take, TypeOK
    <2>2. m = orchestratorQueue[1] /\ 1 \in 1..Len(orchestratorQueue)
      BY <1>3, <2>1
    <2>3. QED BY <1>4, <1>6, <2>2 DEF TruthInv, RpliesHonest, Serves, RplyIn
  <1>10. RowsFinal
    BY <1>4 DEF RowsFinal, RplyWritten, Running, REQUEST_STATE_IN_PROCESSING, REQUEST_STATE_FAILED,
                REQUEST_STATE_SUCCESSFUL
  <1>11. OneOpen' /\ MayRepeat'
    BY <1>1, <1>4, <1>10, FinalLemma DEF Repeated
  <1>12. RpliesHonest'
    BY <1>4, <1>5, <1>7, HonestKept DEF TruthInv
  <1>13. \A b \in SentCmd : ~Serves(b)'
    <2> SUFFICES ASSUME NEW b \in SentCmd, Serves(b)' PROVE FALSE
      OBVIOUS
    <2>1. Serves(b)
      BY <1>4, <1>7 DEF Serves, RplyIn, RpliesFrom
    <2>2. b = c
      BY <1>1, <1>4, <1>9, <2>1, OneServedLemma
    <2>3. c \notin inMediator'
      BY <1>4 DEF OnlyAt
    <2>4. PICK n \in 1..Len(orchestratorQueue') :
              orchestratorQueue'[n].kind = "rply" /\ orchestratorQueue'[n].id = c
      BY <2>2, <2>3 DEF Serves, RplyIn
    <2>5. n \in Pos /\ n + 1 \in Pos /\ n + 1 # 1
      BY DEF Pos
    <2>6. QueuedAt(n, "rply", c)'
      BY <2>4 DEF QueuedAt
    <2>7. QueuedAt(n + 1, "rply", c)
      BY <1>8, <2>5, <2>6
    <2>8. QED BY <1>4, <2>5, <2>7 DEF OnlyAt
  <1>14. Marked'
    BY <1>4, <1>13 DEF Marked
  <1>15. RowsTrue'
    <2> SUFFICES ASSUME NEW i \in SFCIs, hasSFCI(db', i)
                 PROVE  /\ db'.SFCI[i].state = STATE_ACTIVE => i \in deployed
                        /\ db'.SFCI[i].state = STATE_DELETED => i \notin deployed
      BY <1>5 DEF RowsTrue, RowTrue
    <2>1. \/ db'.SFCI[i] = db.SFCI[i]
          \/ /\ OnSFCI(r) /\ i = submitted[r].sfci
             /\ db'.SFCI[i].state = ResourceStateAfter(submitted[r].type, m.cmdState)
      BY <1>1, <1>4, <1>6, SFCIRowWritten
    <2>2. CASE db'.SFCI[i] = db.SFCI[i]
      BY <2>2 DEF TruthInv, RowsTrue, RowTrue, hasSFCI
    <2>3. CASE /\ OnSFCI(r) /\ i = submitted[r].sfci
               /\ db'.SFCI[i].state = ResourceStateAfter(submitted[r].type, m.cmdState)
      <3>1. c[1] = r
        BY <1>4 DEF CmdOf
      <3>2. m.cmdState = CMD_STATE_SUCCESSFUL =>
               /\ submitted[r].type = "ADD_SFCI" => i \in deployed
               /\ submitted[r].type = "DEL_SFCI" => i \notin deployed
        BY <1>4, <1>6, <1>9, <2>3, <3>1 DEF Honest
      <3>3. /\ db'.SFCI[i].state = STATE_ACTIVE =>
                  submitted[r].type = "ADD_SFCI" /\ m.cmdState = CMD_STATE_SUCCESSFUL
            /\ db'.SFCI[i].state = STATE_DELETED =>
                  submitted[r].type = "DEL_SFCI" /\ m.cmdState = CMD_STATE_SUCCESSFUL
        BY <2>3 DEF OnSFCI, ResourceStateAfter, STATE_ACTIVE, STATE_DELETED, STATE_INIT_FAILED,
                    STATE_UNDELETED
      <3>4. QED BY <3>2, <3>3
    <2>4. QED BY <2>1, <2>2, <2>3
  <1>16. QED BY <1>11, <1>12, <1>14, <1>15 DEF TruthInv
\* The regulator.
LEMMA RegulatorTruth ==
    ASSUME AllInv, OnceInv, redeliveries = 0, TruthInv, Regulator
    PROVE  TruthInv'
  <1>1. TypeOK /\ db \in DB /\ \A r \in Requests : OnePlace(r) /\ RowTells(r)
    BY DEF AllInv, OnceInv, TypeOK
  <1>2. UNCHANGED <<submitted, deployed, inMediator>>
    BY DEF Regulator, RetryRead, RetryWrite, UpdateRead, UpdateWrite, clientVars, serverVars
  <1>3. CASE RetryRead
    <2>1. /\ UNCHANGED <<db, orchestratorQueue>>
          /\ \A r \in Requests : Repeated(r)' => db.Request[r].retryCnt < MAX_RETRY_NUM
      BY <1>3 DEF RetryRead, Repeated, tableVars
    <2>2. MayRepeat'
      BY <2>1 DEF MayRepeat
    <2>3. OneOpen'
      <3>1. Sent' = Sent /\ \A q : Settled(q)' <=> Settled(q)
        BY <1>2, <2>1, SameSentLemma DEF Settled
      <3>2. QED BY <3>1 DEF TruthInv, OneOpen, Unsettled
    <2>4. RpliesFrom
      BY <1>1, <2>1, RpliesFromLemma
    <2>5. QED BY <1>2, <2>1, <2>2, <2>3, <2>4, CalmLemma
  <1>4. ASSUME NEW r \in Requests, RetryWrite(r) PROVE TruthInv'
    <2>1. PICK e : e = updateRequestState2DB(db, r, REQUEST_STATE_INITIAL)
      OBVIOUS
    <2>2. PICK m : m = [kind |-> "request", id |-> r]
      OBVIOUS
    <2>3. /\ regulator.task = "retry" /\ r \in regulator.todo
          /\ db' = incRequestRetryCnt(e, r)
          /\ orchestratorQueue' = Append(orchestratorQueue, m)
          /\ regulator' = IF regulator.todo = {r} THEN [task |-> "none"]
                          ELSE [regulator EXCEPT !.todo = @ \ {r}]
      BY <1>4, <2>1, <2>2 DEF RetryWrite, Idle
    <2>4. \A q \in Requests : Repeated(q)' => Repeated(q) /\ q # r
      <3>1. regulator \in [task : {"retry"}, todo : SUBSET Sent]
        BY <1>1, <2>3 DEF TypeOK
      <3>2. QED BY <2>3, <3>1 DEF Repeated
    <2>5. WroteRequest(db, e, r, REQUEST_STATE_INITIAL)
      BY <1>1, <2>1, updateRequestStateLemma DEF RequestState
    <2>6. WroteRequest(e, db', r, REQUEST_STATE_INITIAL)
      <3>1. e \in DB /\ hasRequest(e, r) /\ e.Request[r].state = REQUEST_STATE_INITIAL
        BY <2>5 DEF WroteRequest
      <3>2. QED BY <2>3, <3>1, incRequestRetryCntLemma
    <2>7. db'.SFCI = db.SFCI /\ \A q \in Requests : q # r => db'.Request[q] = db.Request[q]
      BY <2>5, <2>6 DEF WroteRequest
    <2>8. Unsettled(r)
      <3>1. Repeats(<<"todo", 1>>, r) /\ <<"todo", 1>> \in Place
        BY <2>3 DEF Repeats, Place, Pos
      <3>2. r \in Sent /\ Holds(<<"todo", 1>>, r)
        BY <1>1, <2>3, <3>1 DEF TypeOK, Holds
      <3>3. QED BY <1>1, <3>1, <3>2, HolderLemma DEF TruthInv
    <2>9. OneOpen'
      <3>1. Sent' = Sent
        BY <1>2, SameSentLemma
      <3>2. \A q \in Requests : q # r => (Settled(q) => Settled(q)')
        BY <2>7 DEF Settled, hasRequest
      <3>3. QED BY <2>8, <3>1, <3>2 DEF TruthInv, OneOpen, Unsettled
    <2>10. MayRepeat'
      BY <2>4, <2>7 DEF TruthInv, MayRepeat
    <2>11. RpliesFrom
      <3>1. m.kind # "rply"
        BY <2>2
      <3>2. QED BY <1>1, <2>3, <3>1, RpliesFromLemma
    <2>12. QED BY <1>2, <2>7, <2>9, <2>10, <2>11, CalmLemma
  <1>5. CASE UpdateWrite \/ \E s \in SFCs, newState \in {STATE_ACTIVE, STATE_MANUAL} :
                               UpdateRead(s, newState)
    <2>1. UNCHANGED orchestratorQueue /\ \A q \in Requests : ~Repeated(q)'
      BY <1>5 DEF UpdateWrite, UpdateRead, Repeated, Idle
    <2>2. db'.SFCI = db.SFCI /\ db'.Request = db.Request
      <3>1. CASE UpdateWrite
        <4>1. regulator.sfc \in SFCs /\ regulator.newState \in ResourceState
          BY <1>1, <3>1 DEF TypeOK, UpdateWrite, ResourceState
        <4>2. WroteSFC(db, db', regulator.sfc)
          BY <1>1, <3>1, <4>1, updateSFCStateLemma DEF UpdateWrite
        <4>3. QED BY <4>2 DEF WroteSFC
      <3>2. CASE ~UpdateWrite
        BY <1>5, <3>2 DEF UpdateRead, tableVars
      <3>3. QED BY <3>1, <3>2
    <2>3. OneOpen' /\ MayRepeat'
      BY <1>1, <1>2, <2>1, <2>2, FinalLemma DEF RowsFinal
    <2>4. RpliesFrom
      BY <1>1, <2>1, RpliesFromLemma
    <2>5. QED BY <1>2, <2>2, <2>3, <2>4, CalmLemma
  <1>6. QED BY <1>3, <1>4, <1>5 DEF Regulator

\* The client sends a request when all earlier ones are settled.
LEMMA SubmitTruth ==
    ASSUME AllInv, OnceInv, redeliveries = 0, scenario.pending = 1, TruthInv,
           NEW r \in Requests, NEW request \in Request, Submit(r, request)
    PROVE  TruthInv'
  <1>1. TypeOK
    BY DEF AllInv
  <1>2. PICK m : m = [kind |-> "request", id |-> r]
    OBVIOUS
  <1>3. /\ submitted[r] = None /\ orchestratorQueue' = Append(orchestratorQueue, m)
        /\ submitted' = [submitted EXCEPT ![r] = request]
        /\ Cardinality(Open) < 1
        /\ UNCHANGED <<db, deployed, inMediator, regulator>>
    BY <1>2 DEF Submit, tableVars, serverVars
  <1>4. Open = {}
    <2>1. IsFiniteSet(Requests)
      BY FS_Interval, OrchestratorAssumption DEF Requests
    <2>2. Open \subseteq Requests
      BY DEF Open
    <2>3. IsFiniteSet(Open)
      BY <2>1, <2>2, FS_Subset
    <2>4. Cardinality(Open) \in Nat
      BY <2>3, FS_CardinalityType
    <2>5. Cardinality(Open) = 0
      BY <1>3, <2>4
    <2>6. QED BY <2>3, <2>5, FS_EmptySet
  <1>5. /\ r \notin Sent /\ Sent' \subseteq Sent \cup {r}
        /\ \A q \in Sent : submitted'[q] = submitted[q]
    BY <1>1, <1>3 DEF Sent, TypeOK
  <1>6. \A q : Settled(q)' <=> Settled(q)
    BY <1>3 DEF Settled
  <1>7. OneOpen'
    BY <1>4, <1>5, <1>6 DEF OneOpen, Unsettled, Open, Sent
  <1>8. MayRepeat'
    BY <1>3 DEF TruthInv, MayRepeat, Repeated
  <1>9. RpliesFrom
    <2>1. m.kind # "rply"
      BY <1>2
    <2>2. QED BY <1>1, <1>3, <2>1, RpliesFromLemma
  <1>10. orchestratorQueue \in Seq(SentMsg) /\ inMediator \subseteq SentCmd
    BY <1>1 DEF TypeOK
  <1>11. \A c : RplyIn(c) => c \in SentCmd
    BY <1>10, MsgLemma DEF RplyIn
  <1>12. Marked'
    <2> SUFFICES ASSUME NEW c, Serves(c)', OnSFCI(c[1])' PROVE SFCIInWork(submitted[c[1]].sfci)'
      BY DEF Marked
    <2>1. Serves(c)
      BY <1>3, <1>9 DEF Serves, RplyIn, RpliesFrom
    <2>2. c \in SentCmd /\ c[1] \in Sent
      BY <1>10, <1>11, <2>1 DEF Serves, SentCmd
    <2>3. QED BY <1>3, <1>5, <2>1, <2>2 DEF TruthInv, Marked, OnSFCI, SFCIInWork
  <1>13. RpliesHonest'
    <2> SUFFICES ASSUME NEW n \in 1..Len(orchestratorQueue'), NEW msg, msg = orchestratorQueue'[n],
                        msg.kind = "rply"
                 PROVE  Honest(msg)'
      BY DEF RpliesHonest, Honest
    <2>1. PICK k \in 1..Len(orchestratorQueue) : orchestratorQueue[k] = msg
      BY <1>9 DEF RpliesFrom
    <2>2. Honest(msg) /\ msg \in SentMsg
      BY <1>10, <2>1 DEF TruthInv, RpliesHonest
    <2>3. msg.id[1] \in Sent
      BY <2>2, MsgLemma
    <2>4. submitted'[msg.id[1]] = submitted[msg.id[1]]
      BY <1>5, <2>3
    <2>5. PICK row : row = submitted[msg.id[1]]
      OBVIOUS
    <2>6. submitted'[msg.id[1]] = row /\ deployed' = deployed
      BY <1>3, <2>4, <2>5
    <2>7. msg.cmdState = CMD_STATE_SUCCESSFUL =>
             /\ row.type = "ADD_SFCI" => row.sfci \in deployed
             /\ row.type = "DEL_SFCI" => row.sfci \notin deployed
      BY <2>2, <2>5 DEF Honest
    <2>8. QED BY <2>6, <2>7 DEF Honest
  <1>14. RowsTrue'
    BY <1>3 DEF TruthInv, RowsTrue, RowTrue
  <1>15. QED BY <1>7, <1>8, <1>12, <1>13, <1>14 DEF TruthInv

LEMMA OtherTruth ==
    ASSUME AllInv, OnceInv, redeliveries = 0, TruthInv,
           UNCHANGED vars \/ \E c \in AllAdminCmds : SendAdminCmd(c)
    PROVE  TruthInv'
  <1>1. TypeOK /\ \A r \in Requests : OnePlace(r) /\ RowTells(r)
    BY DEF AllInv, OnceInv
  <1>2. UNCHANGED <<db, submitted, deployed, inMediator, regulator>>
    BY DEF vars, SendAdminCmd, tableVars, serverVars, clientVars
  <1>3. RpliesFrom
    <2>1. CASE UNCHANGED vars
      BY <1>1, <2>1, RpliesFromLemma DEF vars
    <2>2. ASSUME NEW c \in AllAdminCmds, SendAdminCmd(c) PROVE RpliesFrom
      <3>1. PICK m : m = [kind |-> "cmd", id |-> c]
        OBVIOUS
      <3>2. m.kind # "rply" /\ orchestratorQueue' = Append(orchestratorQueue, m)
        BY <2>2, <3>1 DEF SendAdminCmd
      <3>3. QED BY <1>1, <3>2, RpliesFromLemma
    <2>3. QED BY <2>1, <2>2
  <1>4. OneOpen' /\ MayRepeat'
    BY <1>1, <1>2, FinalLemma DEF RowsFinal, Repeated
  <1>5. QED BY <1>2, <1>3, <1>4, CalmLemma

LEMMA TruthInvLemma == Spec => [](OneAtATime => TruthInv)
  <1>1. Init => TruthInv
    <2> SUFFICES ASSUME Init PROVE TruthInv
      OBVIOUS
    <2>1. /\ db.SFCI = [i \in SFCIs |-> None] /\ inMediator = {} /\ Sent = {}
          /\ orchestratorQueue = <<[kind |-> "cmd", id |-> "TURN_ON"]>> /\ regulator.task = "none"
      BY DEF Init, Idle, Sent
    <2>2. OneOpen /\ MayRepeat /\ RowsTrue
      BY <2>1 DEF OneOpen, Unsettled, MayRepeat, Repeated, RowsTrue, RowTrue, hasSFCI
    <2>3. \A n \in 1..Len(orchestratorQueue) : orchestratorQueue[n].kind = "cmd"
      BY <2>1
    <2>4. Marked /\ RpliesHonest
      BY <2>1, <2>3 DEF Marked, SentCmd, RpliesHonest, Honest
    <2>5. QED BY <2>2, <2>4 DEF TruthInv
  <1>2. AllInv /\ OnceInv /\ (OneAtATime => TruthInv) /\ [Next]_vars => (OneAtATime => TruthInv)'
    <2> SUFFICES ASSUME AllInv, OnceInv, OneAtATime => TruthInv, [Next]_vars, OneAtATime'
                 PROVE  TruthInv'
      OBVIOUS
    <2>1. redeliveries \in Nat
      BY DEF AllInv, TypeOK
    <2>2. ~Redeliver
      BY <2>1 DEF Redeliver, OneAtATime
    <2>3. UNCHANGED <<redeliveries, scenario>>
      BY <2>2 DEF Next, Submit, SendAdminCmd, StartOrchestrator, TakeRequest, PostponeRequest, TakeCmd,
                  TakeRply, NoMsg, NoTimeout, BatchTimeout, BatchStep, TakeWaitingRequest,
                  RequestHandler, MediatorAnswer, Regulator, RetryRead, RetryWrite, UpdateRead,
                  UpdateWrite, clientVars, vars
    <2>4. redeliveries = 0 /\ scenario.pending = 1 /\ TruthInv
      BY <2>3 DEF OneAtATime
    <2>5. CASE \E r \in Requests, request \in Request : Submit(r, request)
      BY <2>4, <2>5, SubmitTruth
    <2>6. CASE StartOrchestrator
      BY <2>4, <2>6, LoopTruth, TakeRplyTruth DEF StartOrchestrator
    <2>7. CASE \E c \in inMediator : MediatorAnswer(c)
      BY <2>4, <2>7, MediatorTruth
    <2>8. CASE Regulator
      BY <2>4, <2>8, RegulatorTruth
    <2>9. CASE UNCHANGED vars \/ \E c \in AllAdminCmds : SendAdminCmd(c)
      BY <2>4, <2>9, OtherTruth
    <2>10. QED BY <2>2, <2>5, <2>6, <2>7, <2>8, <2>9 DEF Next
  <1>3. QED BY <1>1, <1>2, OnceInvLemma, PTL DEF Spec

\* For a client that waits for the outcome of each request (and repeats none itself), an
\* SFCI that the table shows as active is deployed and one it shows as deleted holds no
\* resources, whatever the regulator repeats, the mediator answers and exceptions lose.
THEOREM TheTableTellsTheTruth == Spec => []TableTellsTruth
  <1>1. (OneAtATime => TruthInv) => TableTellsTruth
    BY DEF OneAtATime, TruthInv, RowsTrue, RowTrue, TableTellsTruth
  <1>2. QED BY <1>1, TruthInvLemma, PTL
=========================================================================
