--------------------------- MODULE RecoveryProofs ---------------------------
(***************************************************************************)
(* Proofs about recovery and the way of its requests, for any number of    *)
(* SFCs and SFCIs, any failures, losses and repetitions, as long as no     *)
(* task times out.                                                         *)
(***************************************************************************)
EXTENDS Recovery, FiniteSetTheorems, TLAPS

-----------------------------------------------------------------------------
(***************************************************************************)
(* The inductive invariant.                                                *)
(***************************************************************************)
Request == {r \in [type : {"ADD_SFC", "DEL_SFC"}, sfc : SFCs, sfci : {None}, retryCnt : Nat] :
                  \E i \in scenario.sfcis : i[1] = r.sfc}
           \cup {r \in [type : {"ADD_SFCI", "DEL_SFCI"}, sfc : SFCs, sfci : SFCIs,
                        retryCnt : Nat] : r.sfci \in scenario.sfcis /\ r.sfci[1] = r.sfc}

Bag(B) == DOMAIN B \subseteq Request /\ B \in [DOMAIN B -> Nat \ {0}]

TypeOK ==
    /\ scenario \in Scenario
    /\ db \in [SFC : [SFCs -> SFCRow], SFCI : [SFCIs -> SFCIRow \cup {None}]]
    /\ \A i \in scenario.sfcis : db.SFCI[i] # None
    /\ \A s \in SFCs : db.SFC[s].sfciIDList \subseteq scenario.sfcis
    /\ taskDict \in [TaskType -> [SFCIs -> Task \cup {None}]]
    /\ \A type \in TaskType, i \in SFCIs : hasRecoveryTask(taskDict, type, i) => i \in scenario.sfcis
    /\ todo \subseteq TaskType \X scenario.sfcis \X TaskState
    /\ \A e \in todo : hasRecoveryTask(taskDict, e[1], e[2])
    /\ \A e, f \in todo : e[1] = f[1] /\ e[2] = f[2] => e = f
    /\ orchQueue \in Seq(Request) /\ batch \in Seq(Request)
    /\ \A n \in 1..Len(batch) : batch[n].type = "ADD_SFCI"
    /\ Bag(inMediator) /\ Bag(failedReqs)
    /\ known \in [SFCIs -> {"nothing", "equipment", "classifier"}]
    /\ \A i \in SFCIs : known[i] # "nothing" => i \in scenario.sfcis

\* Where a sequence, or a bag, has no request about SFC s, and where it has one at most.
NoneIn(q, s)   == \A n \in 1..Len(q) : q[n].sfc # s
OneIn(q, s)    == \A m, n \in 1..Len(q) : q[m].sfc = s /\ q[n].sfc = s => m = n
NoneOf(B, s)   == \A r \in DOMAIN B : r.sfc # s
OneOf(B, s)    == \A r, t \in DOMAIN B : r.sfc = s /\ t.sfc = s => r = t /\ B[r] = 1

\* Those about s that they have are of one type.
TypeIn(q, s, type) == \A n \in 1..Len(q) : q[n].sfc = s => q[n].type = type
TypeOf(B, s, type) == \A r \in DOMAIN B : r.sfc = s => r.type = type

\* No request about SFC s is under way.
Quiet(s) == NoneIn(orchQueue, s) /\ NoneIn(batch, s) /\ NoneOf(inMediator, s) /\ NoneOf(failedReqs, s)

\* At most one is.
AtMostOne(s) ==
    /\ OneIn(orchQueue, s) /\ OneIn(batch, s) /\ OneOf(inMediator, s) /\ OneOf(failedReqs, s)
    /\ NoneIn(orchQueue, s) \/ (NoneIn(batch, s) /\ NoneOf(inMediator, s) /\ NoneOf(failedReqs, s))
    /\ NoneIn(batch, s) \/ (NoneOf(inMediator, s) /\ NoneOf(failedReqs, s))
    /\ NoneOf(inMediator, s) \/ NoneOf(failedReqs, s)

AllOfType(s, type) ==
    /\ TypeIn(orchQueue, s, type) /\ TypeIn(batch, s, type)
    /\ TypeOf(inMediator, s, type) /\ TypeOf(failedReqs, s, type)

Only(s, type) == AtMostOne(s) /\ AllOfType(s, type)

\* What the state of a task says about the tables and the requests under way.
Fits(task, i) ==
    LET s == i[1]
    IN  /\ ~task.old /\ task.state # FAILED
        /\ task.state = WAITING => SFCIState(i) = STATE_ACTIVE
        /\ task.state = READY =>
              SFCIState(i) = STATE_INACTIVE /\ SFCState(s) = STATE_RECOVER_MODE /\ Quiet(s)
        /\ task.state = DELETING_SFCI =>
              /\ SFCIState(i) \in {STATE_INACTIVE, STATE_IN_PROCESSING, STATE_UNDELETED, STATE_DELETED}
              /\ SFCState(s) = STATE_RECOVER_MODE
              /\ Only(s, "DEL_SFCI")
              /\ SFCIState(i) = STATE_DELETED => Quiet(s)
        /\ task.state = WAITING_TO_DELETE_SFC => SFCIState(i) = STATE_DELETED /\ Quiet(s)
        /\ task.state = DELETING_SFC /\ ~task.addSFCSent =>
              /\ SFCIState(i) = STATE_DELETED
              /\ SFCState(s) \in {STATE_RECOVER_MODE, STATE_IN_PROCESSING, STATE_UNDELETED, STATE_DELETED}
              /\ Only(s, "DEL_SFC")
              /\ SFCState(s) = STATE_DELETED => Quiet(s)
        /\ task.state = DELETING_SFC /\ task.addSFCSent =>
              /\ SFCIState(i) = STATE_DELETED
              /\ SFCState(s) \in {STATE_DELETED, STATE_IN_PROCESSING, STATE_INIT_FAILED, STATE_ACTIVE}
              /\ Only(s, "ADD_SFC")
              /\ SFCState(s) = STATE_ACTIVE => Quiet(s)
        /\ task.state = ADDING_SFCI =>
              /\ SFCIState(i) \in {STATE_DELETED, STATE_INIT_FAILED, STATE_IN_PROCESSING, STATE_ACTIVE}
              /\ SFCState(s) \in {STATE_RECOVER_MODE, STATE_ACTIVE}
              /\ Only(s, "ADD_SFCI")
        /\ task.state = FINISH => SFCIState(i) \in Absent \cup {STATE_ACTIVE} /\ Quiet(s)

Alone(i) == \A j \in scenario.sfcis : j[1] = i[1] => j = i

\* For an SFCI that its SFC has no other beside, the task tells where its request is; one
\* that is active has none, and only then may it have two tasks, until the next round.
InStep(i) ==
    /\ \A type \in TaskType : hasRecoveryTask(taskDict, type, i) => Fits(taskDict[type][i], i)
    /\ (\A type \in TaskType : hasRecoveryTask(taskDict, type, i)) =>
          SFCIState(i) = STATE_ACTIVE /\ todo = {}
    /\ (\A type \in TaskType : ~hasRecoveryTask(taskDict, type, i)) =>
          SFCIState(i) \in Absent \cup {STATE_ACTIVE} /\ Quiet(i[1])
    /\ SFCIState(i) = STATE_ACTIVE => SFCState(i[1]) \in {STATE_ACTIVE, STATE_RECOVER_MODE} /\ Quiet(i[1])
    /\ \A e \in todo : e[2] = i =>
          hasRecoveryTask(taskDict, e[1], i) /\ taskDict[e[1]][i].state = e[3]

IInv == /\ TypeOK
        /\ ~scenario.timeMayPass => \A i \in scenario.sfcis : Alone(i) => InStep(i)
-----------------------------------------------------------------------------
(***************************************************************************)
(* Sequences and bags of requests.                                         *)
(***************************************************************************)
LEMMA TailLemma ==
    ASSUME NEW S, NEW q \in Seq(S), q # <<>>, NEW s
    PROVE  /\ Tail(q) \in Seq(S) /\ Head(q) \in S
           /\ NoneIn(q, s) => NoneIn(Tail(q), s)
           /\ OneIn(q, s) => OneIn(Tail(q), s)
           /\ \A type : TypeIn(q, s, type) => TypeIn(Tail(q), s, type)
           /\ Head(q).sfc = s => /\ ~NoneIn(q, s)
                                 /\ OneIn(q, s) => NoneIn(Tail(q), s)
                                 /\ \A type : TypeIn(q, s, type) => type = Head(q).type
  <1>1. /\ Len(q) \in Nat \ {0} /\ Len(Tail(q)) = Len(q) - 1 /\ Head(q) = q[1] /\ Head(q) \in S
        /\ Tail(q) \in Seq(S)
        /\ \A n \in 1..(Len(q) - 1) : Tail(q)[n] = q[n + 1]
    OBVIOUS
  <1>2. /\ 1 \in 1..Len(q)
        /\ \A n \in 1..(Len(q) - 1) : n + 1 \in 1..Len(q) /\ n + 1 # 1
        /\ \A m, n \in 1..(Len(q) - 1) : m + 1 = n + 1 => m = n
    BY <1>1
  <1>3. NoneIn(q, s) => NoneIn(Tail(q), s)
    BY <1>1, <1>2 DEF NoneIn
  <1>4. OneIn(q, s) => OneIn(Tail(q), s)
    BY <1>1, <1>2 DEF OneIn
  <1>5. \A type : TypeIn(q, s, type) => TypeIn(Tail(q), s, type)
    BY <1>1, <1>2 DEF TypeIn
  <1>6. Head(q).sfc = s => /\ ~NoneIn(q, s)
                           /\ OneIn(q, s) => NoneIn(Tail(q), s)
                           /\ \A type : TypeIn(q, s, type) => type = Head(q).type
    BY <1>1, <1>2 DEF NoneIn, OneIn, TypeIn
  <1> QED
    BY <1>1, <1>3, <1>4, <1>5, <1>6

\* Two sequences one after the other have the requests of both.
LEMMA ConcatLemma ==
    ASSUME NEW S, NEW q \in Seq(S), NEW p \in Seq(S), NEW s
    PROVE  /\ q \o p \in Seq(S)
           /\ NoneIn(q, s) /\ NoneIn(p, s) => NoneIn(q \o p, s)
           /\ OneIn(q, s) /\ NoneIn(p, s) => OneIn(q \o p, s)
           /\ NoneIn(q, s) /\ OneIn(p, s) => OneIn(q \o p, s)
           /\ \A type : TypeIn(q, s, type) /\ TypeIn(p, s, type) => TypeIn(q \o p, s, type)
  <1>1. /\ q \o p \in Seq(S) /\ Len(q) \in Nat /\ Len(p) \in Nat
        /\ Len(q \o p) = Len(q) + Len(p)
        /\ \A n \in 1..Len(q) : (q \o p)[n] = q[n]
        /\ \A n \in (Len(q) + 1)..(Len(q) + Len(p)) : (q \o p)[n] = p[n - Len(q)]
    OBVIOUS
  <1>2. \A n \in 1..(Len(q) + Len(p)) :
            \/ n \in 1..Len(q) /\ (q \o p)[n] = q[n]
            \/ n - Len(q) \in 1..Len(p) /\ (q \o p)[n] = p[n - Len(q)]
    BY <1>1
  <1>3. \A m, n \in 1..(Len(q) + Len(p)) : m - Len(q) = n - Len(q) => m = n
    BY <1>1
  <1>4. NoneIn(q, s) /\ NoneIn(p, s) => NoneIn(q \o p, s)
    BY <1>1, <1>2 DEF NoneIn
  <1>5. OneIn(q, s) /\ NoneIn(p, s) => OneIn(q \o p, s)
    <2> SUFFICES ASSUME OneIn(q, s), NoneIn(p, s),
                        NEW m \in 1..(Len(q) + Len(p)), NEW n \in 1..(Len(q) + Len(p)),
                        (q \o p)[m].sfc = s, (q \o p)[n].sfc = s
                 PROVE  m = n
      BY <1>1 DEF OneIn
    <2>1. m \in 1..Len(q) /\ n \in 1..Len(q) /\ q[m].sfc = s /\ q[n].sfc = s
      BY <1>2 DEF NoneIn
    <2> QED
      BY <2>1 DEF OneIn
  <1>6. NoneIn(q, s) /\ OneIn(p, s) => OneIn(q \o p, s)
    <2> SUFFICES ASSUME NoneIn(q, s), OneIn(p, s),
                        NEW m \in 1..(Len(q) + Len(p)), NEW n \in 1..(Len(q) + Len(p)),
                        (q \o p)[m].sfc = s, (q \o p)[n].sfc = s
                 PROVE  m = n
      BY <1>1 DEF OneIn
    <2>1. /\ m - Len(q) \in 1..Len(p) /\ n - Len(q) \in 1..Len(p)
          /\ p[m - Len(q)].sfc = s /\ p[n - Len(q)].sfc = s
      BY <1>2 DEF NoneIn
    <2> QED
      BY <1>3, <2>1 DEF OneIn
  <1>7. \A type : TypeIn(q, s, type) /\ TypeIn(p, s, type) => TypeIn(q \o p, s, type)
    BY <1>1, <1>2 DEF TypeIn
  <1> QED
    BY <1>1, <1>4, <1>5, <1>6, <1>7

\* A sequence of one request has just that.
LEMMA SingleLemma ==
    ASSUME NEW S, NEW r \in S, NEW s
    PROVE  /\ <<r>> \in Seq(S)
           /\ OneIn(<<r>>, s)
           /\ r.sfc # s => NoneIn(<<r>>, s)
           /\ \A type : TypeIn(<<r>>, s, type) <=> (r.sfc = s => r.type = type)
  <1>1. <<r>> \in Seq(S) /\ Len(<<r>>) = 1 /\ <<r>>[1] = r
    OBVIOUS
  <1>2. \A n \in 1..1 : n = 1
    OBVIOUS
  <1>3. 1 \in 1..1
    OBVIOUS
  <1> QED
    BY <1>1, <1>2, <1>3 DEF NoneIn, OneIn, TypeIn

\* A request at the end of a sequence is one more.
LEMMA AppendLemma ==
    ASSUME NEW S, NEW q \in Seq(S), NEW r \in S, NEW s
    PROVE  /\ Append(q, r) \in Seq(S)
           /\ NoneIn(q, s) => OneIn(Append(q, r), s)
           /\ r.sfc # s => /\ NoneIn(q, s) => NoneIn(Append(q, r), s)
                           /\ OneIn(q, s) => OneIn(Append(q, r), s)
           /\ \A type : TypeIn(q, s, type) /\ (r.sfc = s => r.type = type)
                            => TypeIn(Append(q, r), s, type)
  <1>1. Append(q, r) = q \o <<r>>
    OBVIOUS
  <1>2. <<r>> \in Seq(S)
    OBVIOUS
  <1>3. PICK p \in Seq(S) : p = <<r>>
    BY <1>2
  <1>4. /\ OneIn(p, s)
        /\ r.sfc # s => NoneIn(p, s)
        /\ \A type : TypeIn(p, s, type) <=> (r.sfc = s => r.type = type)
    BY <1>3, SingleLemma
  <1>5. /\ q \o p \in Seq(S)
        /\ NoneIn(q, s) /\ NoneIn(p, s) => NoneIn(q \o p, s)
        /\ OneIn(q, s) /\ NoneIn(p, s) => OneIn(q \o p, s)
        /\ NoneIn(q, s) /\ OneIn(p, s) => OneIn(q \o p, s)
        /\ \A type : TypeIn(q, s, type) /\ TypeIn(p, s, type) => TypeIn(q \o p, s, type)
    BY ConcatLemma
  <1> QED
    BY <1>1, <1>3, <1>4, <1>5

\* A request put into a bag is one more.
LEMMA PutLemma ==
    ASSUME NEW S, NEW B, DOMAIN B \subseteq S, B \in [DOMAIN B -> Nat \ {0}], NEW r \in S, NEW s,
           NEW C, C = B (+) SetToBag({r})
    PROVE  /\ DOMAIN C \subseteq S /\ C \in [DOMAIN C -> Nat \ {0}]
           /\ NoneOf(B, s) => OneOf(C, s)
           /\ r.sfc # s => /\ NoneOf(B, s) => NoneOf(C, s)
                           /\ OneOf(B, s) => OneOf(C, s)
           /\ \A type : TypeOf(B, s, type) /\ (r.sfc = s => r.type = type) => TypeOf(C, s, type)
  <1>1. /\ DOMAIN C = DOMAIN B \cup {r}
        /\ C = [t \in DOMAIN B \cup {r} |-> (IF t \in DOMAIN B THEN B[t] ELSE 0)
                                            + (IF t \in {r} THEN 1 ELSE 0)]
    BY DEF (+), SetToBag, BagIn, BagToSet
  <1>2. /\ C \in [DOMAIN C -> Nat \ {0}]
        /\ \A t \in DOMAIN B : t # r => C[t] = B[t]
        /\ r \notin DOMAIN B => C[r] = 1
    <2>1. \A t \in DOMAIN B : B[t] \in Nat \ {0}
      OBVIOUS
    <2>2. \A t \in DOMAIN B \cup {r} : C[t] = (IF t \in DOMAIN B THEN B[t] ELSE 0)
                                              + (IF t \in {r} THEN 1 ELSE 0)
      BY <1>1
    <2>3. \A t \in DOMAIN B \cup {r} : C[t] \in Nat \ {0}
      BY <2>1, <2>2
    <2>4. (\A t \in DOMAIN B : t # r => C[t] = B[t]) /\ (r \notin DOMAIN B => C[r] = 1)
      BY <2>1, <2>2
    <2> QED
      BY <1>1, <2>3, <2>4
  <1>3. \A t \in DOMAIN C : t \in DOMAIN B \/ t = r
    BY <1>1
  <1>4. NoneOf(B, s) => OneOf(C, s)
    <2> SUFFICES ASSUME NoneOf(B, s), NEW a \in DOMAIN C, NEW b \in DOMAIN C, a.sfc = s, b.sfc = s
                 PROVE  a = b /\ C[a] = 1
      BY DEF OneOf
    <2>1. a = r /\ b = r /\ r \notin DOMAIN B
      BY <1>3 DEF NoneOf
    <2> QED
      BY <1>2, <2>1
  <1>5. ASSUME r.sfc # s
        PROVE  /\ NoneOf(B, s) => NoneOf(C, s)
               /\ OneOf(B, s) => OneOf(C, s)
    <2>1. NoneOf(B, s) => NoneOf(C, s)
      BY <1>3, <1>5 DEF NoneOf
    <2>2. ASSUME OneOf(B, s), NEW a \in DOMAIN C, NEW b \in DOMAIN C, a.sfc = s, b.sfc = s
          PROVE  a = b /\ C[a] = 1
      <3>1. a \in DOMAIN B /\ b \in DOMAIN B /\ a # r
        BY <1>3, <1>5, <2>2
      <3>2. a = b /\ B[a] = 1
        BY <2>2, <3>1 DEF OneOf
      <3>3. C[a] = B[a]
        BY <1>2, <3>1
      <3> QED
        BY <3>2, <3>3
    <2> QED
      BY <2>1, <2>2 DEF OneOf
  <1>6. \A type : TypeOf(B, s, type) /\ (r.sfc = s => r.type = type) => TypeOf(C, s, type)
    BY <1>3 DEF TypeOf
  <1> QED
    BY <1>1, <1>2, <1>4, <1>5, <1>6

\* A request taken from a bag is one less.
LEMMA TakeLemma ==
    ASSUME NEW B, B \in [DOMAIN B -> Nat \ {0}], NEW r \in DOMAIN B, NEW s,
           NEW C, C = B (-) SetToBag({r})
    PROVE  /\ DOMAIN C \subseteq DOMAIN B /\ C \in [DOMAIN C -> Nat \ {0}]
           /\ NoneOf(B, s) => NoneOf(C, s)
           /\ OneOf(B, s) => OneOf(C, s)
           /\ \A type : TypeOf(B, s, type) => TypeOf(C, s, type)
           /\ r.sfc = s => /\ ~NoneOf(B, s)
                           /\ OneOf(B, s) => NoneOf(C, s)
                           /\ \A type : TypeOf(B, s, type) => type = r.type
  <1> DEFINE D == [t \in DOMAIN B |-> B[t] - (IF t \in {r} THEN 1 ELSE 0)]
  <1>1. C = [t \in {d \in DOMAIN D : D[d] > 0} |-> D[t]]
    BY DEF (-), SetToBag, BagIn, BagToSet
  <1>2. /\ DOMAIN C = {d \in DOMAIN B : D[d] > 0}
        /\ \A t \in DOMAIN C : C[t] = D[t]
    BY <1>1
  <1>3. \A t \in DOMAIN B : /\ t # r => D[t] = B[t]
                            /\ t = r => D[t] = B[t] - 1
                            /\ B[t] \in Nat \ {0}
    OBVIOUS
  <1> HIDE DEF D
  <1>4. C \in [DOMAIN C -> Nat \ {0}]
    <2>1. ASSUME NEW t \in DOMAIN C
          PROVE  C[t] \in Nat \ {0}
      <3>1. t \in DOMAIN B /\ C[t] = D[t] /\ D[t] > 0
        BY <1>2
      <3>2. D[t] = B[t] \/ D[t] = B[t] - 1
        BY <1>3, <3>1
      <3>3. B[t] \in Nat
        BY <1>3, <3>1
      <3> QED
        BY <3>1, <3>2, <3>3
    <2> QED
      BY <1>1, <2>1
  <1>5. \A t \in DOMAIN C : t \in DOMAIN B /\ (t # r => C[t] = B[t])
    BY <1>2, <1>3
  <1>6. B[r] = 1 => r \notin DOMAIN C
    BY <1>2, <1>3
  <1>7. NoneOf(B, s) => NoneOf(C, s)
    BY <1>5 DEF NoneOf
  <1>8. OneOf(B, s) => OneOf(C, s)
    <2> SUFFICES ASSUME OneOf(B, s), NEW a \in DOMAIN C, NEW b \in DOMAIN C, a.sfc = s, b.sfc = s
                 PROVE  a = b /\ C[a] = 1
      BY DEF OneOf
    <2>1. a \in DOMAIN B /\ b \in DOMAIN B /\ a = b /\ B[a] = 1
      BY <1>5 DEF OneOf
    <2> QED
      BY <1>5, <1>6, <2>1
  <1>9. \A type : TypeOf(B, s, type) => TypeOf(C, s, type)
    BY <1>5 DEF TypeOf
  <1>10. r.sfc = s => /\ ~NoneOf(B, s)
                      /\ OneOf(B, s) => NoneOf(C, s)
                      /\ \A type : TypeOf(B, s, type) => type = r.type
    <2>1. r.sfc = s /\ OneOf(B, s) => NoneOf(C, s)
      BY <1>5, <1>6 DEF OneOf, NoneOf
    <2> QED
      BY <2>1 DEF NoneOf, TypeOf
  <1> QED
    BY <1>4, <1>5, <1>7, <1>8, <1>9, <1>10
-----------------------------------------------------------------------------
(***************************************************************************)
(* The way of a request: what a step does to the requests about SFC s in a *)
(* sequence or a bag, before and after it.                                 *)
(***************************************************************************)
KeepsIn(q, p, s) ==
    /\ NoneIn(q, s) => NoneIn(p, s)
    /\ OneIn(q, s) => OneIn(p, s)
    /\ \A type : TypeIn(q, s, type) => TypeIn(p, s, type)
LosesIn(q, p, s, t) ==
    /\ KeepsIn(q, p, s) /\ ~NoneIn(q, s)
    /\ OneIn(q, s) => NoneIn(p, s)
    /\ \A type : TypeIn(q, s, type) => type = t
GainsIn(q, p, s, t) ==
    /\ NoneIn(q, s) => OneIn(p, s)
    /\ TypeIn(q, s, t) => TypeIn(p, s, t)

KeepsOf(B, C, s) ==
    /\ NoneOf(B, s) => NoneOf(C, s)
    /\ OneOf(B, s) => OneOf(C, s)
    /\ \A type : TypeOf(B, s, type) => TypeOf(C, s, type)
LosesOf(B, C, s, t) ==
    /\ KeepsOf(B, C, s) /\ ~NoneOf(B, s)
    /\ OneOf(B, s) => NoneOf(C, s)
    /\ \A type : TypeOf(B, s, type) => type = t
GainsOf(B, C, s, t) ==
    /\ NoneOf(B, s) => OneOf(C, s)
    /\ TypeOf(B, s, t) => TypeOf(C, s, t)

\* All requests about s stay where they are, or some are gone.
AllKeep(s) ==
    /\ KeepsIn(orchQueue, orchQueue', s) /\ KeepsIn(batch, batch', s)
    /\ KeepsOf(inMediator, inMediator', s) /\ KeepsOf(failedReqs, failedReqs', s)

\* A request of type t about s is gone.
Gone(s, t) ==
    /\ AllKeep(s)
    /\ \/ LosesIn(orchQueue, orchQueue', s, t) \/ LosesIn(batch, batch', s, t)
       \/ LosesOf(inMediator, inMediator', s, t) \/ LosesOf(failedReqs, failedReqs', s, t)

\* It is gone, or it went from one place to another.
Moved(s, t) ==
    LET K1 == KeepsIn(orchQueue, orchQueue', s)
        K2 == KeepsIn(batch, batch', s)
        K3 == KeepsOf(inMediator, inMediator', s)
        K4 == KeepsOf(failedReqs, failedReqs', s)
    IN  \/ Gone(s, t)
        \/ /\ LosesIn(orchQueue, orchQueue', s, t)
           /\ \/ K3 /\ K4 /\ GainsIn(batch, batch', s, t)
              \/ K2 /\ K4 /\ GainsOf(inMediator, inMediator', s, t)
              \/ K2 /\ K3 /\ GainsOf(failedReqs, failedReqs', s, t)
        \/ /\ LosesIn(batch, batch', s, t)
           /\ \/ K1 /\ K4 /\ GainsOf(inMediator, inMediator', s, t)
              \/ K1 /\ K3 /\ GainsOf(failedReqs, failedReqs', s, t)
        \/ LosesOf(inMediator, inMediator', s, t) /\ K1 /\ K2 /\ GainsOf(failedReqs, failedReqs', s, t)
        \/ LosesOf(failedReqs, failedReqs', s, t) /\ K2 /\ K3 /\ GainsIn(orchQueue, orchQueue', s, t)

Kept(s) == (Quiet(s) => Quiet(s)') /\ \A type : Only(s, type) => Only(s, type)'

\* If every queue and bag keeps what it has about an SFC, the SFC keeps its requests.
LEMMA KeptLemma ==
    ASSUME NEW s, AllKeep(s)
    PROVE  Kept(s)
  BY DEF AllKeep, KeepsIn, KeepsOf, Kept, Quiet, Only, AtMostOne, AllOfType

\* If the one request about an SFC goes, none is left.
LEMMA GoneLemma ==
    ASSUME NEW s, NEW t, Gone(s, t), AtMostOne(s)
    PROVE  Quiet(s)'
  <1>1. AllKeep(s)
    BY DEF Gone
  <1>2. \/ LosesIn(orchQueue, orchQueue', s, t) \/ LosesIn(batch, batch', s, t)
        \/ LosesOf(inMediator, inMediator', s, t) \/ LosesOf(failedReqs, failedReqs', s, t)
    BY DEF Gone
  <1> QED
    BY <1>1, <1>2 DEF AllKeep, LosesIn, LosesOf, KeepsIn, KeepsOf, Quiet, AtMostOne

\* A request that goes from one place to another is still the only one of its type.
LEMMA MovedLemma ==
    ASSUME NEW s, NEW t, Moved(s, t)
    PROVE  Kept(s) /\ ~Quiet(s) /\ \A type : AllOfType(s, type) => type = t
  <1>1. ~Quiet(s) /\ \A type : AllOfType(s, type) => type = t
    BY DEF Moved, Gone, LosesIn, LosesOf, Quiet, AllOfType
  <1>2. AtMostOne(s) => AtMostOne(s)'
    BY DEF Moved, Gone, AllKeep, LosesIn, LosesOf, GainsIn, GainsOf, KeepsIn, KeepsOf, AtMostOne
  <1>3. AllOfType(s, t) => AllOfType(s, t)'
    BY DEF Moved, Gone, AllKeep, LosesIn, LosesOf, GainsIn, GainsOf, KeepsIn, KeepsOf, AllOfType
  <1> QED
    BY <1>1, <1>2, <1>3 DEF Kept, Only

\* What TailLemma, AppendLemma, PutLemma and TakeLemma say in these terms.
LEMMA QueueMoves ==
    ASSUME NEW S, NEW q \in Seq(S), NEW s
    PROVE  /\ KeepsIn(q, q, s)
           /\ q # <<>> =>
                 /\ Head(q) \in S /\ Tail(q) \in Seq(S)
                 /\ KeepsIn(q, Tail(q), s)
                 /\ Head(q).sfc = s => LosesIn(q, Tail(q), s, Head(q).type)
           /\ \A r \in S : /\ Append(q, r) \in Seq(S)
                           /\ r.sfc # s => KeepsIn(q, Append(q, r), s)
                           /\ r.sfc = s => GainsIn(q, Append(q, r), s, r.type)
  <1>1. ASSUME q # <<>>
        PROVE  /\ Head(q) \in S /\ Tail(q) \in Seq(S)
               /\ KeepsIn(q, Tail(q), s)
               /\ Head(q).sfc = s => LosesIn(q, Tail(q), s, Head(q).type)
    BY <1>1, TailLemma DEF KeepsIn, LosesIn
  <1>2. ASSUME NEW r \in S
        PROVE  /\ Append(q, r) \in Seq(S)
               /\ r.sfc # s => KeepsIn(q, Append(q, r), s)
               /\ r.sfc = s => GainsIn(q, Append(q, r), s, r.type)
    BY AppendLemma DEF KeepsIn, GainsIn
  <1> QED
    BY <1>1, <1>2 DEF KeepsIn

\* Putting a request into a bag and taking it out matter to its SFC alone.
LEMMA BagMoves ==
    ASSUME TypeOK, NEW B, Bag(B), NEW r \in Request, NEW s
    PROVE  /\ KeepsOf(B, B, s)
           /\ Bag(B (+) SetToBag({r}))
           /\ r.sfc # s => KeepsOf(B, B (+) SetToBag({r}), s)
           /\ r.sfc = s => GainsOf(B, B (+) SetToBag({r}), s, r.type)
           /\ r \in DOMAIN B =>
                 /\ Bag(B (-) SetToBag({r}))
                 /\ KeepsOf(B, B (-) SetToBag({r}), s)
                 /\ r.sfc = s => LosesOf(B, B (-) SetToBag({r}), s, r.type)
  <1>1. DOMAIN B \subseteq Request /\ B \in [DOMAIN B -> Nat \ {0}]
    BY DEF Bag
  <1>2. /\ Bag(B (+) SetToBag({r}))
        /\ r.sfc # s => KeepsOf(B, B (+) SetToBag({r}), s)
        /\ r.sfc = s => GainsOf(B, B (+) SetToBag({r}), s, r.type)
    <2>1. PICK C : C = B (+) SetToBag({r})
      OBVIOUS
    <2>2. /\ DOMAIN C \subseteq Request /\ C \in [DOMAIN C -> Nat \ {0}]
          /\ NoneOf(B, s) => OneOf(C, s)
          /\ r.sfc # s => /\ NoneOf(B, s) => NoneOf(C, s)
                          /\ OneOf(B, s) => OneOf(C, s)
          /\ \A type : TypeOf(B, s, type) /\ (r.sfc = s => r.type = type) => TypeOf(C, s, type)
      BY <1>1, <2>1, PutLemma
    <2> QED
      BY <2>1, <2>2 DEF Bag, KeepsOf, GainsOf
  <1>3. ASSUME r \in DOMAIN B
        PROVE  /\ Bag(B (-) SetToBag({r}))
               /\ KeepsOf(B, B (-) SetToBag({r}), s)
               /\ r.sfc = s => LosesOf(B, B (-) SetToBag({r}), s, r.type)
    <2>1. PICK C : C = B (-) SetToBag({r})
      OBVIOUS
    <2>2. /\ DOMAIN C \subseteq DOMAIN B /\ C \in [DOMAIN C -> Nat \ {0}]
          /\ NoneOf(B, s) => NoneOf(C, s)
          /\ OneOf(B, s) => OneOf(C, s)
          /\ \A type : TypeOf(B, s, type) => TypeOf(C, s, type)
          /\ r.sfc = s => /\ ~NoneOf(B, s)
                          /\ OneOf(B, s) => NoneOf(C, s)
                          /\ \A type : TypeOf(B, s, type) => type = r.type
      BY <1>1, <1>3, <2>1, TakeLemma
    <2> QED
      BY <1>1, <2>1, <2>2 DEF Bag, KeepsOf, LosesOf
  <1> QED
    BY <1>2, <1>3 DEF KeepsOf
-----------------------------------------------------------------------------
(***************************************************************************)
(* The tables.                                                             *)
(***************************************************************************)
\* The tables without rows for SFCIs there are not.
DB(sfcis) == {d \in [SFC : [SFCs -> SFCRow], SFCI : [SFCIs -> SFCIRow \cup {None}]] :
                /\ \A i \in sfcis : d.SFCI[i] # None
                /\ \A s \in SFCs : d.SFC[s].sfciIDList \subseteq sfcis}

\* From d to e the state of SFC s became x, or that of SFCI i, and no other state changed.
WroteSFC(d, e, s, x) ==
    /\ e.SFC[s].state = x /\ e.SFCI = d.SFCI
    /\ \A t \in SFCs \ {s} : e.SFC[t].state = d.SFC[t].state
WroteSFCI(d, e, i, x) ==
    /\ e.SFCI[i] # None /\ e.SFCI[i].state = x
    /\ \A j \in SFCIs \ {i} : e.SFCI[j] = d.SFCI[j]
    /\ \A t \in SFCs : e.SFC[t].state = d.SFC[t].state

\* updateSFCState and updateSFCIState write one state, in one row.
LEMMA StateLemma ==
    ASSUME NEW sfcis \in SUBSET SFCIs, NEW d \in DB(sfcis), NEW x \in ResourceState
    PROVE  /\ \A s \in SFCs : /\ hasSFC(d, s)
                              /\ updateSFCState(d, s, x) \in DB(sfcis)
                              /\ WroteSFC(d, updateSFCState(d, s, x), s, x)
           /\ \A i \in sfcis : /\ hasSFCI(d, i)
                               /\ updateSFCIState(d, i, x) \in DB(sfcis)
                               /\ WroteSFCI(d, updateSFCIState(d, i, x), i, x)
                               /\ [d EXCEPT !.SFCI[i] = [state |-> x]] \in DB(sfcis)
                               /\ WroteSFCI(d, [d EXCEPT !.SFCI[i] = [state |-> x]], i, x)
  <1>1. /\ d = [SFC |-> d.SFC, SFCI |-> d.SFCI]
        /\ d.SFC \in [SFCs -> SFCRow] /\ d.SFCI \in [SFCIs -> SFCIRow \cup {None}]
        /\ \A i \in sfcis : d.SFCI[i] # None
        /\ \A s \in SFCs : d.SFC[s].sfciIDList \subseteq sfcis
    BY DEF DB
  <1>2. ASSUME NEW s \in SFCs
        PROVE  /\ hasSFC(d, s)
               /\ updateSFCState(d, s, x) \in DB(sfcis)
               /\ WroteSFC(d, updateSFCState(d, s, x), s, x)
    <2>1. hasSFC(d, s)
      BY <1>1, NoneAssumption DEF hasSFC
    <2> DEFINE row == [d.SFC[s] EXCEPT !.state = x]
               SFC == [d.SFC EXCEPT ![s] = row]
               e   == [SFC |-> SFC, SFCI |-> d.SFCI]
    <2>2. updateSFCState(d, s, x) = e
      BY <1>1, <2>1 DEF updateSFCState
    <2>3. row \in SFCRow /\ row.state = x /\ row.sfciIDList = d.SFC[s].sfciIDList
      BY <1>1 DEF SFCRow
    <2> HIDE DEF row
    <2>4. SFC \in [SFCs -> SFCRow] /\ SFC[s] = row /\ \A t \in SFCs \ {s} : SFC[t] = d.SFC[t]
      BY <1>1, <2>3
    <2> HIDE DEF SFC
    <2>5. e \in DB(sfcis)
      <3>1. \A t \in SFCs : SFC[t].sfciIDList \subseteq sfcis
        BY <1>1, <2>3, <2>4
      <3> QED
        BY <1>1, <2>4, <3>1 DEF DB
    <2>6. WroteSFC(d, e, s, x)
      BY <2>3, <2>4 DEF WroteSFC
    <2> QED
      BY <2>1, <2>2, <2>5, <2>6
  <1>3. ASSUME NEW i \in sfcis
        PROVE  /\ [d EXCEPT !.SFCI[i] = [state |-> x]] \in DB(sfcis)
               /\ WroteSFCI(d, [d EXCEPT !.SFCI[i] = [state |-> x]], i, x)
               /\ hasSFCI(d, i)
               /\ updateSFCIState(d, i, x) = [d EXCEPT !.SFCI[i] = [state |-> x]]
    <2>1. hasSFCI(d, i) /\ i \in SFCIs /\ d.SFCI[i] \in SFCIRow
      BY <1>1 DEF hasSFCI
    <2> DEFINE row  == [state |-> x]
               SFCI == [d.SFCI EXCEPT ![i] = row]
               e    == [SFC |-> d.SFC, SFCI |-> SFCI]
    <2>2. [d EXCEPT !.SFCI[i] = [state |-> x]] = e
      BY <1>1
    <2>3. [d.SFCI[i] EXCEPT !.state = x] = row
      BY <2>1 DEF SFCIRow
    <2>4. updateSFCIState(d, i, x) = e
      <3>1. updateSFCIState(d, i, x) = [SFC |-> d.SFC, SFCI |-> [d.SFCI EXCEPT ![i] = [d.SFCI[i] EXCEPT !.state = x]]]
        BY <1>1, <2>1 DEF updateSFCIState
      <3> QED
        BY <2>3, <3>1
    <2>5. row \in SFCIRow /\ row.state = x /\ row # None
      BY NoneAssumption DEF SFCIRow
    <2> HIDE DEF row
    <2>6. /\ SFCI \in [SFCIs -> SFCIRow \cup {None}] /\ SFCI[i] = row
          /\ \A j \in SFCIs \ {i} : SFCI[j] = d.SFCI[j]
      BY <1>1, <2>1, <2>5
    <2> HIDE DEF SFCI
    <2>7. e \in DB(sfcis)
      <3>1. \A j \in sfcis : SFCI[j] # None
        BY <1>1, <2>5, <2>6
      <3> QED
        BY <1>1, <2>6, <3>1 DEF DB
    <2>8. WroteSFCI(d, e, i, x)
      BY <2>5, <2>6 DEF WroteSFCI
    <2> QED
      BY <2>1, <2>2, <2>4, <2>7, <2>8
  <1> QED
    BY <1>2, <1>3

\* addSFCI2SFCInDB changes no state.
LEMMA ListLemma ==
    ASSUME NEW sfcis \in SUBSET SFCIs, NEW d \in DB(sfcis), NEW i \in sfcis, i[1] \in SFCs
    PROVE  /\ addSFCI2SFCInDB(d, i) \in DB(sfcis)
           /\ addSFCI2SFCInDB(d, i).SFCI = d.SFCI
           /\ \A t \in SFCs : addSFCI2SFCInDB(d, i).SFC[t].state = d.SFC[t].state
  <1>1. /\ d = [SFC |-> d.SFC, SFCI |-> d.SFCI]
        /\ d.SFC \in [SFCs -> SFCRow] /\ d.SFCI \in [SFCIs -> SFCIRow \cup {None}]
        /\ \A j \in sfcis : d.SFCI[j] # None
        /\ \A s \in SFCs : d.SFC[s].sfciIDList \subseteq sfcis
    BY DEF DB
  <1> DEFINE s   == i[1]
             row == [d.SFC[s] EXCEPT !.sfciIDList = @ \cup {i}]
             SFC == [d.SFC EXCEPT ![s] = row]
             e   == [SFC |-> SFC, SFCI |-> d.SFCI]
  <1>2. addSFCI2SFCInDB(d, i) = e
    BY <1>1 DEF addSFCI2SFCInDB
  <1>3. row \in SFCRow /\ row.state = d.SFC[s].state /\ row.sfciIDList \subseteq sfcis
    BY <1>1 DEF SFCRow
  <1> HIDE DEF row
  <1>4. SFC \in [SFCs -> SFCRow] /\ SFC[s] = row /\ \A t \in SFCs \ {s} : SFC[t] = d.SFC[t]
    BY <1>1, <1>3
  <1> HIDE DEF SFC
  <1>5. \A t \in SFCs : SFC[t].state = d.SFC[t].state /\ SFC[t].sfciIDList \subseteq sfcis
    BY <1>1, <1>3, <1>4
  <1>6. e \in DB(sfcis)
    BY <1>1, <1>4, <1>5 DEF DB
  <1> QED
    BY <1>2, <1>5, <1>6
-----------------------------------------------------------------------------
(***************************************************************************)
(* The steps of a request on its way.                                      *)
(***************************************************************************)
LEMMA RequestLemma ==
    ASSUME TypeOK, NEW r \in Request
    PROVE  /\ r.sfc \in SFCs
           /\ \/ r.type \in {"ADD_SFC", "DEL_SFC"} /\ r.sfci = None
              \/ r.type \in {"ADD_SFCI", "DEL_SFCI"} /\ r.sfci # None
           /\ r.sfci # None => r.sfci \in scenario.sfcis /\ r.sfci \in SFCIs /\ r.sfci[1] = r.sfc
           /\ \E i \in scenario.sfcis : i[1] = r.sfc
           /\ [r EXCEPT !.retryCnt = @ + 1] \in Request
           /\ [r EXCEPT !.retryCnt = @ + 1].sfc = r.sfc /\ [r EXCEPT !.retryCnt = @ + 1].type = r.type
  <1> DEFINE t == [r EXCEPT !.retryCnt = @ + 1]
  <1>1. CASE r \in [type : {"ADD_SFC", "DEL_SFC"}, sfc : SFCs, sfci : {None}, retryCnt : Nat]
             /\ \E i \in scenario.sfcis : i[1] = r.sfc
    <2>1. /\ t \in [type : {"ADD_SFC", "DEL_SFC"}, sfc : SFCs, sfci : {None}, retryCnt : Nat]
          /\ t.sfc = r.sfc /\ t.type = r.type
      BY <1>1
    <2>2. t \in Request
      BY <1>1, <2>1 DEF Request
    <2>3. r.sfci = None /\ r.sfc \in SFCs /\ r.type \in {"ADD_SFC", "DEL_SFC"}
      BY <1>1
    <2> QED
      BY <1>1, <2>1, <2>2, <2>3
  <1>2. CASE r \in [type : {"ADD_SFCI", "DEL_SFCI"}, sfc : SFCs, sfci : SFCIs, retryCnt : Nat]
             /\ r.sfci \in scenario.sfcis /\ r.sfci[1] = r.sfc
    <2>1. /\ t \in [type : {"ADD_SFCI", "DEL_SFCI"}, sfc : SFCs, sfci : SFCIs, retryCnt : Nat]
          /\ t.sfci = r.sfci /\ t.sfc = r.sfc /\ t.type = r.type
      BY <1>2
    <2>2. t \in Request
      BY <1>2, <2>1 DEF Request
    <2>3. r.sfci # None
      BY <1>2, NoneAssumption
    <2> QED
      BY <1>2, <2>1, <2>2, <2>3
  <1> QED
    BY <1>1, <1>2 DEF Request

\* The tables have their types.
LEMMA TablesLemma ==
    ASSUME TypeOK
    PROVE  /\ db \in DB(scenario.sfcis) /\ scenario.sfcis \in SUBSET SFCIs
           /\ \A i \in SFCIs : i[1] \in SFCs
           /\ UNCHANGED scenario => Request' = Request
  BY DEF TypeOK, DB, Scenario, SFCIs, Request

\* Every request a step of the way is about stays, goes, or moves.
LEMMA FailsLemma ==
    ASSUME TypeOK, NEW r \in Request, Fails(r)
    PROVE  /\ failedReqs' \in {failedReqs, failedReqs (+) SetToBag({r})}
           /\ \A s \in SFCs : s # r.sfc => KeepsOf(failedReqs, failedReqs', s)
           /\ \/ KeepsOf(failedReqs, failedReqs', r.sfc)
              \/ GainsOf(failedReqs, failedReqs', r.sfc, r.type)
  <1>1. Bag(failedReqs)
    BY DEF TypeOK
  <1>2. failedReqs' = failedReqs \/ failedReqs' = failedReqs (+) SetToBag({r})
    BY DEF Fails
  <1>3. \A s : /\ KeepsOf(failedReqs, failedReqs, s)
               /\ r.sfc # s => KeepsOf(failedReqs, failedReqs (+) SetToBag({r}), s)
               /\ r.sfc = s => GainsOf(failedReqs, failedReqs (+) SetToBag({r}), s, r.type)
    BY <1>1, BagMoves
  <1> QED
    BY <1>2, <1>3

\* Handle leaves a request with the mediator, among the failed ones, or nowhere.
LEMMA HandleLemma ==
    ASSUME TypeOK, NEW r \in Request, NEW valid, NEW d, NEW e, Handle(r, valid, d, e)
    PROVE  /\ db' \in {d, e}
           /\ inMediator' \in {inMediator, inMediator (+) SetToBag({r})}
           /\ failedReqs' \in {failedReqs, failedReqs (+) SetToBag({r})}
           /\ \A s \in SFCs : s # r.sfc => /\ KeepsOf(inMediator, inMediator', s)
                                           /\ KeepsOf(failedReqs, failedReqs', s)
           /\ \/ /\ KeepsOf(failedReqs, failedReqs', r.sfc)
                 /\ \/ KeepsOf(inMediator, inMediator', r.sfc)
                    \/ GainsOf(inMediator, inMediator', r.sfc, r.type)
              \/ /\ KeepsOf(inMediator, inMediator', r.sfc)
                 /\ GainsOf(failedReqs, failedReqs', r.sfc, r.type)
  <1>1. Bag(failedReqs) /\ Bag(inMediator)
    BY DEF TypeOK
  <1>2. \A s : /\ KeepsOf(inMediator, inMediator, s)
               /\ r.sfc # s => KeepsOf(inMediator, inMediator (+) SetToBag({r}), s)
               /\ r.sfc = s => GainsOf(inMediator, inMediator (+) SetToBag({r}), s, r.type)
    BY <1>1, BagMoves
  <1>3. \A s : KeepsOf(failedReqs, failedReqs, s)
    BY <1>1, BagMoves
  <1>4. \/ inMediator' = inMediator (+) SetToBag({r}) /\ db' = d /\ failedReqs' = failedReqs
        \/ Fails(r) /\ db' = e /\ inMediator' = inMediator
    BY DEF Handle
  <1>5. CASE inMediator' = inMediator (+) SetToBag({r}) /\ db' = d /\ failedReqs' = failedReqs
    BY <1>2, <1>3, <1>5
  <1>6. CASE Fails(r) /\ db' = e /\ inMediator' = inMediator
    BY <1>2, <1>6, FailsLemma
  <1> QED
    BY <1>4, <1>5, <1>6

\* What the step of request r writes about its SFC or SFCI: while the request stays
\* under way a state of passage, the state it was made for only when it is gone.
Wrote(r, x) == IF r.sfci = None THEN WroteSFC(db, db', r.sfc, x) ELSE WroteSFCI(db, db', r.sfci, x)

PathStep(r) ==
    /\ \A s \in SFCs : s # r.sfc => AllKeep(s)
    /\ Moved(r.sfc, r.type)
    /\ \/ db' = db
       \/ Wrote(r, STATE_IN_PROCESSING)
       \/ Wrote(r, ResourceStateAfter(r.type, CMD_STATE_FAIL))
       \/ Wrote(r, ResourceStateAfter(r.type, CMD_STATE_SUCCESSFUL)) /\ Gone(r.sfc, r.type)
    /\ db' \in DB(scenario.sfcis)
    /\ orchQueue' \in Seq(Request) /\ batch' \in Seq(Request) /\ Bag(inMediator') /\ Bag(failedReqs')

\* The bags still are bags of requests.
LEMMA BagsLemma ==
    ASSUME TypeOK, NEW r \in Request, NEW B, Bag(B), NEW C,
           C \in {B, B (+) SetToBag({r})} \/ (r \in DOMAIN B /\ C = B (-) SetToBag({r}))
    PROVE  Bag(C)
  <1>1. Bag(B (+) SetToBag({r})) /\ (r \in DOMAIN B => Bag(B (-) SetToBag({r})))
    BY BagMoves
  <1> QED
    BY <1>1

\* Request r leaves the queue, or the batch, and is dealt with.
LEMMA DealtWithLemma ==
    ASSUME TypeOK, NEW r \in Request, NEW valid, NEW d, NEW e, Handle(r, valid, d, e),
           \/ /\ orchQueue # <<>> /\ r = Head(orchQueue)
              /\ orchQueue' = Tail(orchQueue) /\ batch' = batch
           \/ /\ batch # <<>> /\ r = Head(batch)
              /\ batch' = Tail(batch) /\ orchQueue' = orchQueue
    PROVE  /\ \A s \in SFCs : s # r.sfc => AllKeep(s)
           /\ Moved(r.sfc, r.type)
           /\ db' \in {d, e}
           /\ orchQueue' \in Seq(Request) /\ batch' \in Seq(Request)
           /\ Bag(inMediator') /\ Bag(failedReqs')
  <1>1. orchQueue \in Seq(Request) /\ batch \in Seq(Request) /\ Bag(inMediator) /\ Bag(failedReqs)
    BY DEF TypeOK
  <1>2. /\ db' \in {d, e}
        /\ inMediator' \in {inMediator, inMediator (+) SetToBag({r})}
        /\ failedReqs' \in {failedReqs, failedReqs (+) SetToBag({r})}
        /\ \A s \in SFCs : s # r.sfc => /\ KeepsOf(inMediator, inMediator', s)
                                        /\ KeepsOf(failedReqs, failedReqs', s)
        /\ \/ /\ KeepsOf(failedReqs, failedReqs', r.sfc)
              /\ \/ KeepsOf(inMediator, inMediator', r.sfc)
                 \/ GainsOf(inMediator, inMediator', r.sfc, r.type)
           \/ /\ KeepsOf(inMediator, inMediator', r.sfc)
              /\ GainsOf(failedReqs, failedReqs', r.sfc, r.type)
    BY HandleLemma
  <1>3. Bag(inMediator') /\ Bag(failedReqs')
    BY <1>1, <1>2, BagsLemma
  <1>4. \A s : KeepsIn(orchQueue, orchQueue, s) /\ KeepsIn(batch, batch, s)
    BY DEF KeepsIn
  <1>5. CASE /\ orchQueue # <<>> /\ r = Head(orchQueue)
             /\ orchQueue' = Tail(orchQueue) /\ batch' = batch
    <2>1. \A s : /\ Tail(orchQueue) \in Seq(Request) /\ KeepsIn(orchQueue, Tail(orchQueue), s)
                 /\ r.sfc = s => LosesIn(orchQueue, Tail(orchQueue), s, r.type)
      BY <1>1, <1>5, QueueMoves
    <2>2. \A s \in SFCs : s # r.sfc => AllKeep(s)
      BY <1>2, <1>4, <1>5, <2>1 DEF AllKeep
    <2>3. LosesIn(orchQueue, orchQueue', r.sfc, r.type)
      BY <1>5, <2>1
    <2>4. KeepsIn(orchQueue, orchQueue', r.sfc) /\ KeepsIn(batch, batch', r.sfc)
      BY <1>4, <1>5, <2>1
    <2>5. Moved(r.sfc, r.type)
      BY <1>2, <2>3, <2>4 DEF Moved, Gone, AllKeep
    <2> QED
      BY <1>1, <1>2, <1>3, <1>5, <2>1, <2>2, <2>5
  <1>6. CASE /\ batch # <<>> /\ r = Head(batch)
             /\ batch' = Tail(batch) /\ orchQueue' = orchQueue
    <2>1. \A s : /\ Tail(batch) \in Seq(Request) /\ KeepsIn(batch, Tail(batch), s)
                 /\ r.sfc = s => LosesIn(batch, Tail(batch), s, r.type)
      BY <1>1, <1>6, QueueMoves
    <2>2. \A s \in SFCs : s # r.sfc => AllKeep(s)
      BY <1>2, <1>4, <1>6, <2>1 DEF AllKeep
    <2>3. LosesIn(batch, batch', r.sfc, r.type)
      BY <1>6, <2>1
    <2>4. KeepsIn(orchQueue, orchQueue', r.sfc) /\ KeepsIn(batch, batch', r.sfc)
      BY <1>4, <1>6, <2>1
    <2>5. Moved(r.sfc, r.type)
      BY <1>2, <2>3, <2>4 DEF Moved, Gone, AllKeep
    <2> QED
      BY <1>1, <1>2, <1>3, <1>6, <2>1, <2>2, <2>5
  <1> QED
    BY <1>5, <1>6

\* TakeRequest is a step of one request.
LEMMA TakeRequestLemma ==
    ASSUME TypeOK, TakeRequest
    PROVE  \E r \in Request : PathStep(r)
  <1> DEFINE r == Head(orchQueue)
  <1>1. r \in Request /\ orchQueue # <<>> /\ orchQueue' = Tail(orchQueue)
    BY QueueMoves DEF TypeOK, TakeRequest
  <1>2. /\ db \in DB(scenario.sfcis) /\ scenario.sfcis \in SUBSET SFCIs
        /\ \A i \in SFCIs : i[1] \in SFCs
    BY TablesLemma
  <1>3. /\ r.sfc \in SFCs
        /\ r.type \in {"ADD_SFC", "DEL_SFC"} => r.sfci = None
        /\ r.type \in {"ADD_SFCI", "DEL_SFCI"} => r.sfci # None /\ r.sfci \in scenario.sfcis
    BY <1>1, RequestLemma
  <1>4. \A x \in ResourceState :
           /\ \A s \in SFCs : /\ updateSFCState(db, s, x) \in DB(scenario.sfcis)
                              /\ WroteSFC(db, updateSFCState(db, s, x), s, x)
           /\ \A i \in scenario.sfcis : /\ updateSFCIState(db, i, x) \in DB(scenario.sfcis)
                                        /\ WroteSFCI(db, updateSFCIState(db, i, x), i, x)
    BY <1>2, StateLemma
  <1>5. {STATE_IN_PROCESSING, STATE_INIT_FAILED, STATE_UNDELETED} \subseteq ResourceState
    BY DEF ResourceState
  <1> HIDE DEF r
  <1>6. CASE /\ r.type = "ADD_SFC"
             /\ Handle(r, isAddSFCValidState(db, r.sfc), updateSFCState(db, r.sfc, STATE_IN_PROCESSING),
                                                         updateSFCState(db, r.sfc, STATE_INIT_FAILED))
             /\ UNCHANGED batch
    <2>1. /\ \A s \in SFCs : s # r.sfc => AllKeep(s)
          /\ Moved(r.sfc, r.type)
          /\ db' \in {updateSFCState(db, r.sfc, STATE_IN_PROCESSING), updateSFCState(db, r.sfc, STATE_INIT_FAILED)}
          /\ orchQueue' \in Seq(Request) /\ batch' \in Seq(Request)
          /\ Bag(inMediator') /\ Bag(failedReqs')
      BY <1>1, <1>6, DealtWithLemma DEF r
    <2>2. ResourceStateAfter(r.type, CMD_STATE_FAIL) = STATE_INIT_FAILED
      BY <1>6 DEF ResourceStateAfter, CMD_STATE_FAIL, CMD_STATE_SUCCESSFUL
    <2>3. /\ db' \in DB(scenario.sfcis)
          /\ Wrote(r, STATE_IN_PROCESSING) \/ Wrote(r, STATE_INIT_FAILED)
      BY <1>3, <1>4, <1>5, <1>6, <2>1 DEF Wrote
    <2> QED
      BY <1>1, <2>1, <2>2, <2>3 DEF PathStep
  <1>7. CASE /\ r.type = "DEL_SFC"
             /\ Handle(r, isDelSFCValidState(db, r.sfc), updateSFCState(db, r.sfc, STATE_IN_PROCESSING), db)
             /\ UNCHANGED batch
    <2>1. /\ \A s \in SFCs : s # r.sfc => AllKeep(s)
          /\ Moved(r.sfc, r.type)
          /\ db' \in {updateSFCState(db, r.sfc, STATE_IN_PROCESSING), db}
          /\ orchQueue' \in Seq(Request) /\ batch' \in Seq(Request)
          /\ Bag(inMediator') /\ Bag(failedReqs')
      BY <1>1, <1>7, DealtWithLemma DEF r
    <2>3. /\ db' \in DB(scenario.sfcis)
          /\ Wrote(r, STATE_IN_PROCESSING) \/ db' = db
      BY <1>2, <1>3, <1>4, <1>5, <1>7, <2>1 DEF Wrote
    <2> QED
      BY <1>1, <2>1, <2>3 DEF PathStep
  <1>8. CASE /\ r.type = "DEL_SFCI"
             /\ Handle(r, isDelSFCIValidState(db, r.sfci), updateSFCIState(db, r.sfci, STATE_IN_PROCESSING),
                                                           updateSFCIState(db, r.sfci, STATE_UNDELETED))
             /\ UNCHANGED batch
    <2>1. /\ \A s \in SFCs : s # r.sfc => AllKeep(s)
          /\ Moved(r.sfc, r.type)
          /\ db' \in {updateSFCIState(db, r.sfci, STATE_IN_PROCESSING), updateSFCIState(db, r.sfci, STATE_UNDELETED)}
          /\ orchQueue' \in Seq(Request) /\ batch' \in Seq(Request)
          /\ Bag(inMediator') /\ Bag(failedReqs')
      BY <1>1, <1>8, DealtWithLemma DEF r
    <2>2. ResourceStateAfter(r.type, CMD_STATE_FAIL) = STATE_UNDELETED
      BY <1>8 DEF ResourceStateAfter, CMD_STATE_FAIL, CMD_STATE_SUCCESSFUL
    <2>3. /\ db' \in DB(scenario.sfcis)
          /\ Wrote(r, STATE_IN_PROCESSING) \/ Wrote(r, STATE_UNDELETED)
      BY <1>3, <1>4, <1>5, <1>8, <2>1 DEF Wrote
    <2> QED
      BY <1>1, <2>1, <2>2, <2>3 DEF PathStep
  <1>9. CASE /\ r.type = "ADD_SFCI"
             /\ batch' = Append(batch, r)
             /\ UNCHANGED <<db, inMediator, failedReqs>>
    <2>1. \A s : /\ Tail(orchQueue) \in Seq(Request) /\ KeepsIn(orchQueue, Tail(orchQueue), s)
                 /\ r.sfc = s => LosesIn(orchQueue, Tail(orchQueue), s, r.type)
      BY <1>1, QueueMoves DEF TypeOK, r
    <2>2. \A s : /\ Append(batch, r) \in Seq(Request)
                 /\ r.sfc # s => KeepsIn(batch, Append(batch, r), s)
                 /\ r.sfc = s => GainsIn(batch, Append(batch, r), s, r.type)
      BY <1>1, QueueMoves DEF TypeOK
    <2>3. \A s : KeepsOf(inMediator, inMediator', s) /\ KeepsOf(failedReqs, failedReqs', s)
      BY <1>9 DEF KeepsOf
    <2>4. (\A s \in SFCs : s # r.sfc => AllKeep(s)) /\ Moved(r.sfc, r.type)
      BY <1>1, <1>9, <2>1, <2>2, <2>3 DEF AllKeep, Moved
    <2>5. Bag(inMediator') /\ Bag(failedReqs')
      BY <1>9 DEF TypeOK
    <2> QED
      BY <1>1, <1>2, <1>9, <2>1, <2>2, <2>4, <2>5 DEF PathStep
  <1> QED
    BY <1>6, <1>7, <1>8, <1>9 DEF TakeRequest, r

\* So is the mapping of an SFCI.
LEMMA BatchStepLemma ==
    ASSUME TypeOK, PathFound \/ NoPathFound
    PROVE  \E r \in Request : PathStep(r)
  <1> DEFINE r == Head(batch)
             new == [db EXCEPT !.SFCI[r.sfci] = [state |-> STATE_IN_PROCESSING]]
  <1>1. r \in Request /\ batch # <<>> /\ batch' = Tail(batch) /\ orchQueue' = orchQueue
    BY QueueMoves DEF TypeOK, PathFound, NoPathFound
  <1>2. r.type = "ADD_SFCI"
    <2>1. r = batch[1] /\ 1 \in 1..Len(batch)
      BY <1>1 DEF TypeOK
    <2> QED
      BY <2>1 DEF TypeOK
  <1>3. r.sfc \in SFCs /\ r.sfci # None /\ r.sfci \in scenario.sfcis
    BY <1>1, <1>2, RequestLemma
  <1>4. db \in DB(scenario.sfcis) /\ scenario.sfcis \in SUBSET SFCIs
    BY TablesLemma
  <1>5. {STATE_IN_PROCESSING, STATE_INIT_FAILED} \subseteq ResourceState
    BY DEF ResourceState
  <1>6. /\ new \in DB(scenario.sfcis) /\ WroteSFCI(db, new, r.sfci, STATE_IN_PROCESSING)
        /\ updateSFCIState(db, r.sfci, STATE_INIT_FAILED) \in DB(scenario.sfcis)
        /\ WroteSFCI(db, updateSFCIState(db, r.sfci, STATE_INIT_FAILED), r.sfci, STATE_INIT_FAILED)
    BY <1>3, <1>4, <1>5, StateLemma
  <1>7. ResourceStateAfter(r.type, CMD_STATE_FAIL) = STATE_INIT_FAILED
    BY <1>2 DEF ResourceStateAfter, CMD_STATE_FAIL, CMD_STATE_SUCCESSFUL
  <1>8. \/ Handle(r, isAddSFCIValidState(db, r.sfci), new, db)
        \/ Handle(r, FALSE, db, updateSFCIState(db, r.sfci, STATE_INIT_FAILED))
    BY DEF PathFound, NoPathFound
  <1> HIDE DEF r, new
  <1>9. /\ \A s \in SFCs : s # r.sfc => AllKeep(s)
        /\ Moved(r.sfc, r.type)
        /\ db' \in {new, db, updateSFCIState(db, r.sfci, STATE_INIT_FAILED)}
        /\ orchQueue' \in Seq(Request) /\ batch' \in Seq(Request)
        /\ Bag(inMediator') /\ Bag(failedReqs')
    <2>1. CASE Handle(r, isAddSFCIValidState(db, r.sfci), new, db)
      BY <1>1, <2>1, DealtWithLemma DEF r
    <2>2. CASE Handle(r, FALSE, db, updateSFCIState(db, r.sfci, STATE_INIT_FAILED))
      BY <1>1, <2>2, DealtWithLemma DEF r
    <2> QED
      BY <1>8, <2>1, <2>2
  <1>10. db' = db \/ Wrote(r, STATE_IN_PROCESSING) \/ Wrote(r, STATE_INIT_FAILED)
    BY <1>3, <1>6, <1>9 DEF Wrote
  <1> QED
    BY <1>1, <1>4, <1>6, <1>7, <1>9, <1>10 DEF PathStep

\* So is Reply.
LEMMA ReplyLemma ==
    ASSUME TypeOK, NEW r \in DOMAIN inMediator, NEW cmdState \in CmdStates, Reply(r, cmdState)
    PROVE  r \in Request /\ PathStep(r)
  <1> DEFINE state == ResourceStateAfter(r.type, cmdState)
             sfcis == scenario.sfcis
  <1>1. /\ r \in Request /\ Bag(inMediator) /\ Bag(failedReqs)
        /\ orchQueue' = orchQueue /\ batch' = batch
        /\ orchQueue' \in Seq(Request) /\ batch' \in Seq(Request)
        /\ inMediator' = inMediator (-) SetToBag({r})
    BY DEF TypeOK, Bag, Reply
  <1>2. /\ r.sfc \in SFCs
        /\ \/ r.type \in {"ADD_SFC", "DEL_SFC"} /\ r.sfci = None
           \/ r.type \in {"ADD_SFCI", "DEL_SFCI"} /\ r.sfci # None
        /\ r.sfci # None => r.sfci \in sfcis /\ r.sfci[1] \in SFCs
    BY <1>1, RequestLemma
  <1>3. db \in DB(sfcis) /\ sfcis \in SUBSET SFCIs
    BY TablesLemma
  <1>4. cmdState \in {CMD_STATE_SUCCESSFUL, CMD_STATE_FAIL} /\ CMD_STATE_SUCCESSFUL # CMD_STATE_FAIL
    BY DEF CmdStates, CMD_STATE_FAIL, CMD_STATE_SUCCESSFUL
  <1>5. state \in ResourceState
    BY <1>2 DEF ResourceStateAfter, ResourceState
  <1>6. db' = IF r.sfci = None THEN updateSFCState(db, r.sfc, state)
              ELSE updateSFCIState(IF r.type = "ADD_SFCI" THEN addSFCI2SFCInDB(db, r.sfci) ELSE db, r.sfci, state)
    BY DEF Reply
  <1> HIDE DEF state, sfcis
  <1>7. db' \in DB(sfcis) /\ Wrote(r, state)
    <2>1. CASE r.sfci = None
      <3>1. /\ updateSFCState(db, r.sfc, state) \in DB(sfcis)
            /\ WroteSFC(db, updateSFCState(db, r.sfc, state), r.sfc, state)
        BY <1>2, <1>3, <1>5, StateLemma
      <3> QED
        BY <1>6, <2>1, <3>1 DEF Wrote
    <2>2. CASE r.sfci # None
      <3>1. PICK d : d = IF r.type = "ADD_SFCI" THEN addSFCI2SFCInDB(db, r.sfci) ELSE db
        OBVIOUS
      <3>2. d \in DB(sfcis) /\ d.SFCI = db.SFCI /\ \A t \in SFCs : d.SFC[t].state = db.SFC[t].state
        BY <1>2, <1>3, <2>2, <3>1, ListLemma
      <3>3. /\ updateSFCIState(d, r.sfci, state) \in DB(sfcis)
            /\ WroteSFCI(d, updateSFCIState(d, r.sfci, state), r.sfci, state)
        BY <1>2, <1>3, <1>5, <2>2, <3>2, StateLemma
      <3>4. db' = updateSFCIState(d, r.sfci, state)
        BY <1>6, <2>2, <3>1
      <3>5. WroteSFCI(db, db', r.sfci, state)
        BY <3>2, <3>3, <3>4 DEF WroteSFCI
      <3> QED
        BY <2>2, <3>3, <3>4, <3>5 DEF Wrote
    <2> QED
      BY <2>1, <2>2
  <1>8. \A s : /\ KeepsOf(inMediator, inMediator', s)
               /\ r.sfc = s => LosesOf(inMediator, inMediator', s, r.type)
    BY <1>1, BagMoves
  <1>9. \A s : KeepsIn(orchQueue, orchQueue', s) /\ KeepsIn(batch, batch', s) /\ KeepsOf(failedReqs, failedReqs, s)
    BY <1>1 DEF KeepsIn, KeepsOf
  <1>10. Bag(inMediator')
    BY <1>1, BagMoves
  <1>11. CASE cmdState = CMD_STATE_SUCCESSFUL
    <2>1. failedReqs' = failedReqs
      BY <1>11 DEF Reply
    <2>2. (\A s \in SFCs : s # r.sfc => AllKeep(s)) /\ Gone(r.sfc, r.type)
      BY <1>8, <1>9, <2>1 DEF AllKeep, Gone
    <2>3. Moved(r.sfc, r.type)
      BY <2>2 DEF Moved
    <2>4. Bag(failedReqs')
      BY <1>1, <2>1
    <2> QED
      BY <1>1, <1>7, <1>10, <1>11, <2>2, <2>3, <2>4 DEF PathStep, state, sfcis
  <1>12. CASE cmdState = CMD_STATE_FAIL
    <2>1. Fails(r)
      BY <1>4, <1>12 DEF Reply
    <2>2. /\ failedReqs' \in {failedReqs, failedReqs (+) SetToBag({r})}
          /\ \A s \in SFCs : s # r.sfc => KeepsOf(failedReqs, failedReqs', s)
          /\ \/ KeepsOf(failedReqs, failedReqs', r.sfc)
             \/ GainsOf(failedReqs, failedReqs', r.sfc, r.type)
      BY <1>1, <2>1, FailsLemma
    <2>3. (\A s \in SFCs : s # r.sfc => AllKeep(s)) /\ Moved(r.sfc, r.type)
      BY <1>8, <1>9, <2>2 DEF AllKeep, Gone, Moved
    <2>4. Bag(failedReqs')
      BY <1>1, <2>2, BagsLemma
    <2> QED
      BY <1>1, <1>7, <1>10, <1>12, <2>3, <2>4 DEF PathStep, state, sfcis
  <1> QED
    BY <1>4, <1>11, <1>12

\* So is RetryFailureRequest.
LEMMA RetryLemma ==
    ASSUME TypeOK, RetryFailureRequest
    PROVE  \E r \in Request : PathStep(r)
  <1>1. PICK r \in DOMAIN failedReqs :
           /\ failedReqs' = failedReqs (-) SetToBag({r})
           /\ orchQueue' = Append(orchQueue, [r EXCEPT !.retryCnt = @ + 1])
    BY DEF RetryFailureRequest, BagToSet
  <1>2. r \in Request /\ Bag(failedReqs) /\ orchQueue \in Seq(Request)
    BY DEF TypeOK, Bag
  <1>3. PICK t \in Request : t = [r EXCEPT !.retryCnt = @ + 1] /\ t.sfc = r.sfc /\ t.type = r.type
    BY <1>2, RequestLemma
  <1>4. /\ db' = db /\ batch' = batch /\ inMediator' = inMediator
        /\ db' \in DB(scenario.sfcis) /\ batch' \in Seq(Request) /\ Bag(inMediator')
    BY TablesLemma DEF RetryFailureRequest, TypeOK
  <1>5. \A s : /\ Append(orchQueue, t) \in Seq(Request)
               /\ t.sfc # s => KeepsIn(orchQueue, Append(orchQueue, t), s)
               /\ t.sfc = s => GainsIn(orchQueue, Append(orchQueue, t), s, t.type)
    BY <1>2, QueueMoves
  <1>6. \A s : /\ Bag(failedReqs (-) SetToBag({r}))
               /\ KeepsOf(failedReqs, failedReqs (-) SetToBag({r}), s)
               /\ r.sfc = s => LosesOf(failedReqs, failedReqs (-) SetToBag({r}), s, r.type)
    BY <1>2, BagMoves
  <1>7. \A s : KeepsIn(batch, batch', s) /\ KeepsOf(inMediator, inMediator', s)
    BY <1>4 DEF KeepsIn, KeepsOf
  <1>8. (\A s \in SFCs : s # r.sfc => AllKeep(s)) /\ Moved(r.sfc, r.type)
    BY <1>1, <1>3, <1>5, <1>6, <1>7 DEF AllKeep, Moved
  <1> QED
    BY <1>1, <1>2, <1>3, <1>4, <1>5, <1>6, <1>8 DEF PathStep

\* So is Lose.
LEMMA LoseLemma ==
    ASSUME TypeOK, Lose
    PROVE  \E r \in Request : PathStep(r)
  <1>1. /\ db' = db /\ batch' = batch /\ failedReqs' = failedReqs
        /\ db' \in DB(scenario.sfcis) /\ batch' \in Seq(Request) /\ Bag(failedReqs')
        /\ orchQueue \in Seq(Request) /\ Bag(inMediator)
    BY TablesLemma DEF Lose, TypeOK
  <1>2. \A s : /\ KeepsIn(batch, batch', s) /\ KeepsOf(failedReqs, failedReqs', s)
               /\ KeepsIn(orchQueue, orchQueue, s) /\ KeepsOf(inMediator, inMediator, s)
    BY <1>1 DEF KeepsIn, KeepsOf
  <1>3. CASE orchQueue # <<>> /\ orchQueue' = Tail(orchQueue) /\ inMediator' = inMediator
    <2>1. \A s : /\ Head(orchQueue) \in Request /\ Tail(orchQueue) \in Seq(Request)
                 /\ KeepsIn(orchQueue, Tail(orchQueue), s)
                 /\ Head(orchQueue).sfc = s => LosesIn(orchQueue, Tail(orchQueue), s, Head(orchQueue).type)
      BY <1>1, <1>3, QueueMoves
    <2>2. PICK r \in Request : r = Head(orchQueue)
      BY <2>1
    <2>3. (\A s \in SFCs : s # r.sfc => AllKeep(s)) /\ Moved(r.sfc, r.type)
      BY <1>2, <1>3, <2>1, <2>2 DEF AllKeep, Moved, Gone
    <2> QED
      BY <1>1, <1>3, <2>1, <2>3 DEF PathStep
  <1>4. ASSUME NEW r \in DOMAIN inMediator, inMediator' = inMediator (-) SetToBag({r}), orchQueue' = orchQueue
        PROVE  \E t \in Request : PathStep(t)
    <2>1. r \in Request
      BY <1>1 DEF Bag
    <2>2. \A s : /\ Bag(inMediator')
                 /\ KeepsOf(inMediator, inMediator', s)
                 /\ r.sfc = s => LosesOf(inMediator, inMediator', s, r.type)
      BY <1>1, <1>4, <2>1, BagMoves
    <2>3. (\A s \in SFCs : s # r.sfc => AllKeep(s)) /\ Moved(r.sfc, r.type)
      BY <1>2, <1>4, <2>2 DEF AllKeep, Moved, Gone
    <2> QED
      BY <1>1, <1>4, <2>1, <2>2, <2>3 DEF PathStep
  <1> QED
    BY <1>3, <1>4 DEF Lose, BagToSet
-----------------------------------------------------------------------------
(***************************************************************************)
(* A step of the way of a request preserves the invariant.                 *)
(***************************************************************************)
LEMMA WroteLemma ==
    ASSUME TypeOK, NEW r \in Request, NEW x, Wrote(r, x), NEW i \in scenario.sfcis
    PROVE  /\ r.sfci = None => /\ SFCIState(i)' = SFCIState(i)
                               /\ SFCState(i[1])' = IF r.sfc = i[1] THEN x ELSE SFCState(i[1])
           /\ r.sfci # None => /\ SFCState(i[1])' = SFCState(i[1])
                               /\ SFCIState(i)' = IF r.sfci = i THEN x ELSE SFCIState(i)
  <1>1. i \in SFCIs /\ i[1] \in SFCs /\ scenario.sfcis \in SUBSET SFCIs
    BY TablesLemma
  <1>2. CASE r.sfci = None
    BY <1>1, <1>2 DEF Wrote, WroteSFC, SFCIState, SFCState, hasSFCI
  <1>3. CASE r.sfci # None
    BY <1>1, <1>3 DEF Wrote, WroteSFCI, SFCIState, SFCState, hasSFCI
  <1> QED
    BY <1>2, <1>3

\* What the step of a request about i, or about its SFC, makes of their states.
LEMMA EffectLemma ==
    ASSUME TypeOK, NEW r \in Request, PathStep(r), NEW i \in scenario.sfcis, Alone(i), r.sfc = i[1]
    PROVE  /\ r.type = "ADD_SFC" =>
                 /\ SFCIState(i)' = SFCIState(i)
                 /\ \/ SFCState(i[1])' \in {SFCState(i[1]), STATE_IN_PROCESSING, STATE_INIT_FAILED}
                    \/ SFCState(i[1])' = STATE_ACTIVE /\ Gone(i[1], r.type)
           /\ r.type = "DEL_SFC" =>
                 /\ SFCIState(i)' = SFCIState(i)
                 /\ \/ SFCState(i[1])' \in {SFCState(i[1]), STATE_IN_PROCESSING, STATE_UNDELETED}
                    \/ SFCState(i[1])' = STATE_DELETED /\ Gone(i[1], r.type)
           /\ r.type = "ADD_SFCI" =>
                 /\ SFCState(i[1])' = SFCState(i[1])
                 /\ \/ SFCIState(i)' \in {SFCIState(i), STATE_IN_PROCESSING, STATE_INIT_FAILED}
                    \/ SFCIState(i)' = STATE_ACTIVE /\ Gone(i[1], r.type)
           /\ r.type = "DEL_SFCI" =>
                 /\ SFCState(i[1])' = SFCState(i[1])
                 /\ \/ SFCIState(i)' \in {SFCIState(i), STATE_IN_PROCESSING, STATE_UNDELETED}
                    \/ SFCIState(i)' = STATE_DELETED /\ Gone(i[1], r.type)
           /\ r.type \in {"ADD_SFC", "DEL_SFC", "ADD_SFCI", "DEL_SFCI"}
  <1>1. /\ r.type \in {"ADD_SFC", "DEL_SFC"} => r.sfci = None
        /\ r.type \in {"ADD_SFCI", "DEL_SFCI"} => r.sfci # None /\ r.sfci = i
        /\ r.type \in {"ADD_SFC", "DEL_SFC", "ADD_SFCI", "DEL_SFCI"}
    BY RequestLemma DEF Alone
  <1> DEFINE failed == ResourceStateAfter(r.type, CMD_STATE_FAIL)
             made   == ResourceStateAfter(r.type, CMD_STATE_SUCCESSFUL)
  <1>2. /\ r.type \in {"ADD_SFC", "ADD_SFCI"} => failed = STATE_INIT_FAILED /\ made = STATE_ACTIVE
        /\ r.type \in {"DEL_SFC", "DEL_SFCI"} => failed = STATE_UNDELETED /\ made = STATE_DELETED
    BY DEF ResourceStateAfter, CMD_STATE_FAIL, CMD_STATE_SUCCESSFUL
  <1>3. \A x : Wrote(r, x) =>
           /\ r.sfci = None => SFCIState(i)' = SFCIState(i) /\ SFCState(i[1])' = x
           /\ r.sfci # None => SFCState(i[1])' = SFCState(i[1]) /\ (r.sfci = i => SFCIState(i)' = x)
    BY WroteLemma
  <1>4. \/ SFCIState(i)' = SFCIState(i) /\ SFCState(i[1])' = SFCState(i[1])
        \/ Wrote(r, STATE_IN_PROCESSING)
        \/ Wrote(r, failed)
        \/ Wrote(r, made) /\ Gone(i[1], r.type)
    BY DEF PathStep, SFCIState, SFCState, hasSFCI
  <1> HIDE DEF failed, made
  <1>5. CASE r.type \in {"ADD_SFC", "DEL_SFC"}
    BY <1>1, <1>2, <1>3, <1>4, <1>5
  <1>6. CASE r.type \in {"ADD_SFCI", "DEL_SFCI"}
    BY <1>1, <1>2, <1>3, <1>4, <1>6
  <1> QED
    BY <1>1, <1>5, <1>6

\* A task that fits goes on to fit while nothing it is about changes.
LEMMA FitsStays ==
    ASSUME NEW task, NEW i, Fits(task, i), Kept(i[1]),
           SFCIState(i)' = SFCIState(i), SFCState(i[1])' = SFCState(i[1])
    PROVE  Fits(task, i)'
  BY DEF Fits, Kept

\* The same for all that is known of an SFCI.
LEMMA InStepStays ==
    ASSUME NEW i, InStep(i), Kept(i[1]), UNCHANGED <<taskDict, todo>>,
           SFCIState(i)' = SFCIState(i), SFCState(i[1])' = SFCState(i[1])
    PROVE  InStep(i)'
  <1>1. ASSUME NEW type \in TaskType, hasRecoveryTask(taskDict, type, i)
        PROVE  Fits(taskDict[type][i], i)'
    <2>1. PICK task : task = taskDict[type][i]
      OBVIOUS
    <2>2. Fits(task, i)
      BY <1>1, <2>1 DEF InStep
    <2>3. Fits(task, i)'
      BY <2>2, FitsStays
    <2> QED
      BY <2>1, <2>3
  <1>2. \A type : hasRecoveryTask(taskDict, type, i)' <=> hasRecoveryTask(taskDict, type, i)
    BY DEF hasRecoveryTask
  <1>3. SFCIState(i)' = STATE_ACTIVE => SFCState(i[1])' \in {STATE_ACTIVE, STATE_RECOVER_MODE} /\ Quiet(i[1])'
    BY DEF InStep, Kept
  <1>4. (\A type \in TaskType : ~hasRecoveryTask(taskDict, type, i)) =>
          SFCIState(i)' \in Absent \cup {STATE_ACTIVE} /\ Quiet(i[1])'
    BY DEF InStep, Kept
  <1> QED
    BY <1>1, <1>2, <1>3, <1>4 DEF InStep

\* A step of a request leaves its SFCI in step: it keeps the request, or ends it and writes the
\* state it was made for; other SFCIs do not notice.
LEMMA PathStepLemma ==
    ASSUME TypeOK, NEW r \in Request, PathStep(r), UNCHANGED <<taskDict, todo>>,
           NEW i \in scenario.sfcis, Alone(i), InStep(i)
    PROVE  InStep(i)'
  <1> DEFINE s == i[1]
  <1>1. s \in SFCs /\ i \in SFCIs
    BY TablesLemma
  <1>2. CASE r.sfc # s
    <2>1. Kept(s)
      BY <1>1, <1>2, KeptLemma DEF PathStep
    <2>2. SFCIState(i)' = SFCIState(i) /\ SFCState(s)' = SFCState(s)
      <3>1. \A x : Wrote(r, x) => SFCIState(i)' = SFCIState(i) /\ SFCState(s)' = SFCState(s)
        <4>1. r.sfci # None => r.sfci # i
          BY <1>2, RequestLemma
        <4> QED
          BY <1>2, <4>1, WroteLemma
      <3>2. db' = db => SFCIState(i)' = SFCIState(i) /\ SFCState(s)' = SFCState(s)
        BY DEF SFCIState, SFCState, hasSFCI
      <3> QED
        BY <3>1, <3>2 DEF PathStep
    <2> QED
      BY <2>1, <2>2, InStepStays
  <1>3. CASE r.sfc = s
    <2>1. Kept(s) /\ ~Quiet(s) /\ \A type : AllOfType(s, type) => type = r.type
      BY <1>3, MovedLemma DEF PathStep
    <2>2. SFCIState(i) # STATE_ACTIVE
      BY <2>1 DEF InStep
    <2>3. PICK type \in TaskType : hasRecoveryTask(taskDict, type, i)
      BY <2>1 DEF InStep
    <2>4. \A t \in TaskType : t # type => ~hasRecoveryTask(taskDict, t, i)
      BY <2>2, <2>3 DEF InStep, TaskType
    <2>5. PICK task : task = taskDict[type][i] /\ Fits(task, i)
      BY <2>3 DEF InStep
    <2>6. task \in Task
      BY <1>1, <2>3, <2>5 DEF TypeOK, hasRecoveryTask
    <2>7. /\ taskDict' = taskDict /\ todo' = todo
          /\ \A t : hasRecoveryTask(taskDict, t, i)' <=> hasRecoveryTask(taskDict, t, i)
      BY DEF hasRecoveryTask
    <2>8. task.state \in {DELETING_SFCI, DELETING_SFC, ADDING_SFCI} /\ ~task.old
      <3>1. task.state \in TaskState
        BY <2>6 DEF Task
      <3> QED
        BY <2>1, <2>2, <2>5, <3>1 DEF Fits, TaskState
    <2>9. Only(s, r.type) => AtMostOne(s) /\ Only(s, r.type)'
      BY <2>1 DEF Kept, Only
    <2>10. Gone(s, r.type) /\ AtMostOne(s) => Quiet(s)'
      BY GoneLemma
    <2>11. Fits(task, i)'
      <3>1. CASE task.state = DELETING_SFCI
        <4>1. /\ SFCIState(i) \in {STATE_INACTIVE, STATE_IN_PROCESSING, STATE_UNDELETED}
              /\ SFCState(s) = STATE_RECOVER_MODE
              /\ r.type = "DEL_SFCI" /\ Only(s, r.type)
          BY <2>1, <2>5, <3>1 DEF Fits, Only
        <4>2. /\ SFCState(s)' = SFCState(s)
              /\ \/ SFCIState(i)' \in {SFCIState(i), STATE_IN_PROCESSING, STATE_UNDELETED}
                 \/ SFCIState(i)' = STATE_DELETED /\ Gone(s, r.type)
          BY <1>3, <4>1, EffectLemma
        <4>3. /\ SFCIState(i)' \in {STATE_INACTIVE, STATE_IN_PROCESSING, STATE_UNDELETED, STATE_DELETED}
              /\ SFCState(s)' = STATE_RECOVER_MODE
              /\ Only(s, "DEL_SFCI")'
              /\ SFCIState(i)' = STATE_DELETED => Quiet(s)'
          BY <2>9, <2>10, <4>1, <4>2 DEF STATE_INACTIVE, STATE_IN_PROCESSING, STATE_UNDELETED, STATE_DELETED
        <4> QED
          BY <2>8, <3>1, <4>3 DEF Fits, DELETING_SFCI, DELETING_SFC, ADDING_SFCI, WAITING, READY,
             WAITING_TO_DELETE_SFC, FINISH, FAILED
      <3>2. CASE task.state = DELETING_SFC /\ ~task.addSFCSent
        <4>1. /\ SFCIState(i) = STATE_DELETED
              /\ SFCState(s) \in {STATE_RECOVER_MODE, STATE_IN_PROCESSING, STATE_UNDELETED}
              /\ r.type = "DEL_SFC" /\ Only(s, r.type)
          BY <2>1, <2>5, <3>2 DEF Fits, Only
        <4>2. /\ SFCIState(i)' = SFCIState(i)
              /\ \/ SFCState(s)' \in {SFCState(s), STATE_IN_PROCESSING, STATE_UNDELETED}
                 \/ SFCState(s)' = STATE_DELETED /\ Gone(s, r.type)
          BY <1>3, <4>1, EffectLemma
        <4>3. /\ SFCIState(i)' = STATE_DELETED
              /\ SFCState(s)' \in {STATE_RECOVER_MODE, STATE_IN_PROCESSING, STATE_UNDELETED, STATE_DELETED}
              /\ Only(s, "DEL_SFC")'
              /\ SFCState(s)' = STATE_DELETED => Quiet(s)'
          BY <2>9, <2>10, <4>1, <4>2 DEF STATE_RECOVER_MODE, STATE_IN_PROCESSING, STATE_UNDELETED, STATE_DELETED
        <4> QED
          BY <2>8, <3>2, <4>3 DEF Fits, DELETING_SFCI, DELETING_SFC, ADDING_SFCI, WAITING, READY,
             WAITING_TO_DELETE_SFC, FINISH, FAILED
      <3>3. CASE task.state = DELETING_SFC /\ task.addSFCSent
        <4>1. /\ SFCIState(i) = STATE_DELETED
              /\ SFCState(s) \in {STATE_DELETED, STATE_IN_PROCESSING, STATE_INIT_FAILED}
              /\ r.type = "ADD_SFC" /\ Only(s, r.type)
          BY <2>1, <2>5, <3>3 DEF Fits, Only
        <4>2. /\ SFCIState(i)' = SFCIState(i)
              /\ \/ SFCState(s)' \in {SFCState(s), STATE_IN_PROCESSING, STATE_INIT_FAILED}
                 \/ SFCState(s)' = STATE_ACTIVE /\ Gone(s, r.type)
          BY <1>3, <4>1, EffectLemma
        <4>3. /\ SFCIState(i)' = STATE_DELETED
              /\ SFCState(s)' \in {STATE_DELETED, STATE_IN_PROCESSING, STATE_INIT_FAILED, STATE_ACTIVE}
              /\ Only(s, "ADD_SFC")'
              /\ SFCState(s)' = STATE_ACTIVE => Quiet(s)'
          BY <2>9, <2>10, <4>1, <4>2 DEF STATE_INIT_FAILED, STATE_IN_PROCESSING, STATE_ACTIVE, STATE_DELETED
        <4> QED
          BY <2>8, <3>3, <4>3 DEF Fits, DELETING_SFCI, DELETING_SFC, ADDING_SFCI, WAITING, READY,
             WAITING_TO_DELETE_SFC, FINISH, FAILED
      <3>4. CASE task.state = ADDING_SFCI
        <4>1. /\ SFCIState(i) \in {STATE_DELETED, STATE_INIT_FAILED, STATE_IN_PROCESSING, STATE_ACTIVE}
              /\ SFCState(s) \in {STATE_RECOVER_MODE, STATE_ACTIVE}
              /\ r.type = "ADD_SFCI" /\ Only(s, r.type)
          BY <2>1, <2>5, <3>4 DEF Fits, Only
        <4>2. /\ SFCState(s)' = SFCState(s)
              /\ \/ SFCIState(i)' \in {SFCIState(i), STATE_IN_PROCESSING, STATE_INIT_FAILED}
                 \/ SFCIState(i)' = STATE_ACTIVE /\ Gone(s, r.type)
          BY <1>3, <4>1, EffectLemma
        <4> QED
          BY <2>8, <2>9, <3>4, <4>1, <4>2 DEF Fits, DELETING_SFCI, DELETING_SFC, ADDING_SFCI, WAITING, READY,
             WAITING_TO_DELETE_SFC, FINISH, FAILED
      <3> QED
        BY <2>8, <3>1, <3>2, <3>3, <3>4
    <2>12. SFCIState(i)' = STATE_ACTIVE => SFCState(s)' \in {STATE_ACTIVE, STATE_RECOVER_MODE} /\ Quiet(s)'
      <3>1. CASE task.state = ADDING_SFCI
        <4>1. SFCState(s) \in {STATE_RECOVER_MODE, STATE_ACTIVE} /\ r.type = "ADD_SFCI" /\ Only(s, r.type)
          BY <2>1, <2>5, <3>1 DEF Fits, Only
        <4>2. /\ SFCState(s)' = SFCState(s)
              /\ \/ SFCIState(i)' \in {SFCIState(i), STATE_IN_PROCESSING, STATE_INIT_FAILED}
                 \/ SFCIState(i)' = STATE_ACTIVE /\ Gone(s, r.type)
          BY <1>3, <4>1, EffectLemma
        <4> QED
          BY <2>2, <2>9, <2>10, <4>1, <4>2 DEF STATE_INIT_FAILED, STATE_IN_PROCESSING, STATE_ACTIVE
      <3>2. CASE task.state # ADDING_SFCI
        <4>1. SFCIState(i)' \in {STATE_INACTIVE, STATE_IN_PROCESSING, STATE_UNDELETED, STATE_DELETED}
          <5>1. task.state = DELETING_SFCI \/ task.state = DELETING_SFC
            BY <2>8, <3>2
          <5> QED
            BY <2>11, <5>1 DEF Fits
        <4> QED
          BY <4>1 DEF STATE_INACTIVE, STATE_IN_PROCESSING, STATE_UNDELETED, STATE_DELETED, STATE_ACTIVE
      <3> QED
        BY <3>1, <3>2
    <2> QED
      <3>1. \A t \in TaskType : hasRecoveryTask(taskDict, t, i)' => Fits(taskDict[t][i], i)'
        BY <2>4, <2>5, <2>7, <2>11
      <3>2. \E t \in TaskType : ~hasRecoveryTask(taskDict, t, i)'
        BY <2>4, <2>7 DEF TaskType, TYPE_SFC, TYPE_SFCI
      <3>3. \E t \in TaskType : hasRecoveryTask(taskDict, t, i)'
        BY <2>3, <2>7
      <3>4. \A e \in todo' : e[2] = i =>
              hasRecoveryTask(taskDict, e[1], i)' /\ taskDict'[e[1]][i].state = e[3]
        BY <2>7 DEF InStep
      <3> QED
        BY <2>12, <3>1, <3>2, <3>3, <3>4 DEF InStep
  <1> QED
    BY <1>2, <1>3
-----------------------------------------------------------------------------
(***************************************************************************)
(* The steps of the regulator: what they send.                             *)
(***************************************************************************)
LEMMA SetToSeqLemma ==
    ASSUME NEW S, IsFiniteSet(S)
    PROVE  SetToSeq(S) \in Seq(S)
  <1>1. PICK n \in Nat : ExistsBijection(1..n, S)
    BY FS_NatBijection
  <1>2. Cardinality(S) = n
    BY <1>1, FS_CountingElements
  <1>3. PICK f : f \in Bijection(1..n, S)
    BY <1>1 DEF ExistsBijection
  <1>4. f \in [1..Cardinality(S) -> S] /\ IsInjective(f)
    BY <1>2, <1>3 DEF Bijection, Injection, IsInjective
  <1>5. SetToSeq(S) \in [1..Cardinality(S) -> S]
    BY <1>4 DEF SetToSeq
  <1> QED
    BY <1>2, <1>5

\* A set of one element makes a sequence of one.
LEMMA SetToSeqOne ==
    ASSUME NEW x
    PROVE  SetToSeq({x}) = <<x>>
  <1>1. Cardinality({x}) = 1 /\ IsFiniteSet({x})
    BY FS_Singleton
  <1>2. <<x>> \in [1..1 -> {x}] /\ IsInjective(<<x>>)
    BY DEF IsInjective
  <1>3. SetToSeq({x}) \in [1..1 -> {x}]
    BY <1>1, <1>2 DEF SetToSeq
  <1>4. 1..1 = {1}
    OBVIOUS
  <1>5. SetToSeq({x}) \in Seq({x})
    BY <1>1, SetToSeqLemma
  <1>6. Len(SetToSeq({x})) = 1 /\ SetToSeq({x})[1] = x
    BY <1>3, <1>4, <1>5
  <1> QED
    BY <1>5, <1>6

\* What the regulator makes is a request.
LEMMA NewRequestLemma ==
    ASSUME TypeOK, NEW i \in scenario.sfcis
    PROVE  /\ \A type \in {"ADD_SFC", "DEL_SFC"} : request(type, i[1], None) \in Request
           /\ \A type \in {"ADD_SFCI", "DEL_SFCI"} : request(type, i[1], i) \in Request
           /\ \A type, s, j : request(type, s, j).type = type /\ request(type, s, j).sfc = s
  <1>1. i \in SFCIs /\ i[1] \in SFCs
    BY TablesLemma
  <1>2. \A type, s, j : request(type, s, j).type = type /\ request(type, s, j).sfc = s
    BY DEF request
  <1>3. ASSUME NEW type \in {"ADD_SFC", "DEL_SFC"}
        PROVE  request(type, i[1], None) \in Request
    BY <1>1 DEF request, Request
  <1>4. ASSUME NEW type \in {"ADD_SFCI", "DEL_SFCI"}
        PROVE  request(type, i[1], i) \in Request
    BY <1>1 DEF request, Request
  <1> QED
    BY <1>2, <1>3, <1>4

\* What is sent is all about SFC s: nothing changes for the other SFCs.
LEMMA SendLemma ==
    ASSUME TypeOK, NEW s, NEW reqs \in Seq(Request), \A n \in 1..Len(reqs) : reqs[n].sfc = s,
           Send(reqs)
    PROVE  /\ orchQueue' \in Seq(Request)
           /\ UNCHANGED <<batch, inMediator, failedReqs>>
           /\ \A t : t # s => Kept(t)
  <1>1. orchQueue \in Seq(Request) /\ orchQueue' = orchQueue \o reqs
    BY DEF TypeOK, Send
  <1>2. orchQueue' \in Seq(Request)
    BY <1>1
  <1>3. UNCHANGED <<batch, inMediator, failedReqs>>
    BY DEF Send
  <1>4. ASSUME NEW t, t # s
        PROVE  Kept(t)
    <2>1. NoneIn(reqs, t) /\ \A type : TypeIn(reqs, t, type)
      BY <1>4 DEF NoneIn, TypeIn
    <2>2. KeepsIn(orchQueue, orchQueue', t)
      BY <1>1, <2>1, ConcatLemma DEF KeepsIn
    <2>3. AllKeep(t)
      BY <1>3, <2>2 DEF AllKeep, KeepsIn, KeepsOf
    <2> QED
      BY <2>3, KeptLemma
  <1> QED
    BY <1>2, <1>3, <1>4

\* One request about an SFC without any.
LEMMA SendOne ==
    ASSUME TypeOK, NEW r \in Request, Send(<<r>>)
    PROVE  /\ orchQueue' \in Seq(Request)
           /\ UNCHANGED <<batch, inMediator, failedReqs>>
           /\ \A t : t # r.sfc => Kept(t)
           /\ Quiet(r.sfc) => Only(r.sfc, r.type)'
  <1>0. <<r>> \in Seq(Request)
    OBVIOUS
  <1>1. PICK reqs \in Seq(Request) : reqs = <<r>>
    BY <1>0
  <1>2. Len(reqs) = 1 /\ reqs[1] = r
    BY <1>1
  <1>3. \A n \in 1..Len(reqs) : reqs[n].sfc = r.sfc
    BY <1>2
  <1>4. /\ orchQueue' \in Seq(Request)
        /\ UNCHANGED <<batch, inMediator, failedReqs>>
        /\ \A t : t # r.sfc => Kept(t)
    BY <1>1, <1>3, SendLemma
  <1>5. ASSUME Quiet(r.sfc)
        PROVE  Only(r.sfc, r.type)'
    <2>1. orchQueue \in Seq(Request) /\ orchQueue' = orchQueue \o reqs
      BY <1>1 DEF TypeOK, Send
    <2>2. OneIn(reqs, r.sfc) /\ TypeIn(reqs, r.sfc, r.type)
      BY <1>1, SingleLemma
    <2>3. /\ NoneIn(orchQueue, r.sfc) /\ NoneIn(batch, r.sfc)
          /\ NoneOf(inMediator, r.sfc) /\ NoneOf(failedReqs, r.sfc)
      BY <1>5 DEF Quiet
    <2>4. TypeIn(orchQueue, r.sfc, r.type)
      BY <2>3 DEF NoneIn, TypeIn
    <2>5. OneIn(orchQueue', r.sfc) /\ TypeIn(orchQueue', r.sfc, r.type)
      BY <2>1, <2>2, <2>3, <2>4, ConcatLemma
    <2>6. /\ batch' = batch /\ inMediator' = inMediator /\ failedReqs' = failedReqs
          /\ OneIn(batch, r.sfc) /\ OneOf(inMediator, r.sfc) /\ OneOf(failedReqs, r.sfc)
          /\ TypeIn(batch, r.sfc, r.type) /\ TypeOf(inMediator, r.sfc, r.type)
          /\ TypeOf(failedReqs, r.sfc, r.type)
      BY <1>4, <2>3 DEF NoneIn, NoneOf, OneIn, OneOf, TypeIn, TypeOf
    <2> QED
      BY <2>3, <2>5, <2>6 DEF Only, AtMostOne, AllOfType
  <1> QED
    BY <1>4, <1>5

\* A step that sends nothing keeps the requests of all SFCs.
LEMMA NothingSent ==
    ASSUME TypeOK, SendNothing
    PROVE  /\ orchQueue' \in Seq(Request)
           /\ UNCHANGED <<orchQueue, batch, inMediator, failedReqs>>
           /\ \A t : Kept(t)
  BY DEF TypeOK, SendNothing, orchVars, Kept, Quiet, Only, AtMostOne, AllOfType
-----------------------------------------------------------------------------
(***************************************************************************)
(* The steps of the regulator: the tasks.                                  *)
(***************************************************************************)
LEMMA UntouchedLemma ==
    ASSUME NEW i, InStep(i), Kept(i[1]),
           \A type \in TaskType : taskDict'[type][i] = taskDict[type][i],
           SFCIState(i)' = SFCIState(i), SFCState(i[1])' = SFCState(i[1]), todo' \subseteq todo,
           \A e \in todo : e[1] \in TaskType
    PROVE  InStep(i)'
  <1>1. \A type \in TaskType : hasRecoveryTask(taskDict, type, i)' <=> hasRecoveryTask(taskDict, type, i)
    BY DEF hasRecoveryTask
  <1>2. ASSUME NEW type \in TaskType, hasRecoveryTask(taskDict, type, i)'
        PROVE  Fits(taskDict[type][i], i)'
    <2>1. PICK task : task = taskDict[type][i]
      OBVIOUS
    <2>2. Fits(task, i)
      BY <1>1, <1>2, <2>1 DEF InStep
    <2>3. Fits(task, i)'
      BY <2>2, FitsStays
    <2> QED
      BY <2>1, <2>3
  <1>3. (\A type \in TaskType : hasRecoveryTask(taskDict, type, i)') =>
          SFCIState(i)' = STATE_ACTIVE /\ todo' = {}
    BY <1>1 DEF InStep
  <1>4. (\A type \in TaskType : ~hasRecoveryTask(taskDict, type, i)') =>
          SFCIState(i)' \in Absent \cup {STATE_ACTIVE} /\ Quiet(i[1])'
    BY <1>1 DEF InStep, Kept
  <1>5. SFCIState(i)' = STATE_ACTIVE => SFCState(i[1])' \in {STATE_ACTIVE, STATE_RECOVER_MODE} /\ Quiet(i[1])'
    BY DEF InStep, Kept
  <1>6. ASSUME NEW e \in todo', e[2] = i
        PROVE  hasRecoveryTask(taskDict, e[1], i)' /\ taskDict'[e[1]][i].state = e[3]
    BY <1>1, <1>6 DEF InStep
  <1> QED
    BY <1>2, <1>3, <1>4, <1>5, <1>6 DEF InStep

\* Entry e of a round is dealt with; its task, the only one of its SFCI, becomes task.
LEMMA OwnStepLemma ==
    ASSUME TypeOK, NEW e \in todo, NEW i, i = e[2], InStep(i), NEW task,
           todo' \in {todo \ {e}, {}},
           taskDict'[e[1]][i] = task,
           \A type \in TaskType \ {e[1]} : taskDict'[type][i] = taskDict[type][i],
           task # None => Fits(task, i)',
           task = None => SFCIState(i)' \in Absent \cup {STATE_ACTIVE} /\ Quiet(i[1])',
           SFCIState(i)' = STATE_ACTIVE => SFCState(i[1])' \in {STATE_ACTIVE, STATE_RECOVER_MODE} /\ Quiet(i[1])'
    PROVE  InStep(i)'
  <1>1. e[1] \in TaskType /\ hasRecoveryTask(taskDict, e[1], i) /\ taskDict[e[1]][i].state = e[3]
    BY DEF TypeOK, InStep
  <1>2. \A type \in TaskType : type # e[1] => ~hasRecoveryTask(taskDict, type, i)
    <2>1. \E type \in TaskType : ~hasRecoveryTask(taskDict, type, i)
      BY DEF InStep
    <2> QED
      BY <1>1, <2>1 DEF TaskType
  <1>3. \A type \in TaskType : type # e[1] => ~hasRecoveryTask(taskDict, type, i)'
    BY <1>2 DEF hasRecoveryTask
  <1>4. \A f \in todo' : f[2] # i
    <2> SUFFICES ASSUME NEW f \in todo', f[2] = i
                 PROVE  FALSE
      OBVIOUS
    <2>1. f \in todo /\ f # e
      OBVIOUS
    <2>2. hasRecoveryTask(taskDict, f[1], i) /\ taskDict[f[1]][i].state = f[3] /\ f[1] \in TaskType
      BY <2>1 DEF InStep, TypeOK
    <2>3. f[1] = e[1]
      BY <1>2, <2>2
    <2>4. f = <<f[1], f[2], f[3]>> /\ e = <<e[1], e[2], e[3]>>
      BY <2>1 DEF TypeOK
    <2> QED
      BY <1>1, <2>1, <2>2, <2>3, <2>4
  <1>5. \E type \in TaskType : type # e[1]
    BY <1>1 DEF TaskType, TYPE_SFC, TYPE_SFCI
  <1>6. hasRecoveryTask(taskDict, e[1], i)' <=> task # None
    <2>1. e' = e
      OBVIOUS
    <2> QED
      BY <2>1 DEF hasRecoveryTask
  <1>7. \A type \in TaskType : hasRecoveryTask(taskDict, type, i)' => Fits(taskDict[type][i], i)'
    BY <1>3, <1>6
  <1> QED
    BY <1>1, <1>3, <1>4, <1>5, <1>6, <1>7 DEF InStep

\* The step of a round for entry e, whose task becomes task: what it may change.
RoundEffect(e, task) ==
    /\ todo' \in {todo \ {e}, {}}
    /\ taskDict' \in [TaskType -> [SFCIs -> Task \cup {None}]]
    /\ \A type \in TaskType, j \in SFCIs : taskDict'[type][j] # None => j \in scenario.sfcis
    /\ taskDict'[e[1]][e[2]] = task
    /\ \A type \in TaskType, j \in SFCIs :
          j[1] # e[2][1] \/ (j = e[2] /\ type # e[1]) => taskDict'[type][j] = taskDict[type][j]
    /\ \A type \in TaskType, j \in SFCIs :
          taskDict[type][j] # None /\ (type # e[1] \/ j # e[2]) => taskDict'[type][j] # None
    /\ db' \in DB(scenario.sfcis)
    /\ \A j \in scenario.sfcis :
          j[1] # e[2][1] => SFCIState(j)' = SFCIState(j) /\ SFCState(j[1])' = SFCState(j[1])
    /\ orchQueue' \in Seq(Request) /\ UNCHANGED <<batch, inMediator, failedReqs>>
    /\ \A s : s # e[2][1] => Kept(s)
    /\ UNCHANGED tableVars

Lands(i, task) ==
    /\ task # None => Fits(task, i)'
    /\ task = None => SFCIState(i)' \in Absent \cup {STATE_ACTIVE} /\ Quiet(i[1])'
    /\ SFCIState(i)' = STATE_ACTIVE => SFCState(i[1])' \in {STATE_ACTIVE, STATE_RECOVER_MODE} /\ Quiet(i[1])'

Preserved == TypeOK' /\ \A i \in scenario.sfcis : Alone(i) /\ InStep(i) => InStep(i)'

\* A step of the round disturbs nothing if the SFCI it is about lands in step.
LEMMA RoundEffectLemma ==
    ASSUME TypeOK, NEW e \in todo, NEW task, RoundEffect(e, task),
           Alone(e[2]) /\ InStep(e[2]) => Lands(e[2], task)
    PROVE  Preserved
  <1>1. /\ e[1] \in TaskType /\ e[2] \in scenario.sfcis
        /\ \A f \in todo : f[1] \in TaskType
    BY DEF TypeOK
  <1>2. scenario.sfcis \in SUBSET SFCIs
    BY TablesLemma
  <1>3. UNCHANGED <<known, scenario>> /\ todo' \subseteq todo
    BY DEF RoundEffect, tableVars, pathVars
  <1>4. TypeOK'
    <2>1. Request' = Request
      BY <1>3, TablesLemma
    <2>2. /\ scenario' \in Scenario
          /\ todo' \subseteq TaskType \X scenario'.sfcis \X TaskState
          /\ known' \in [SFCIs -> {"nothing", "equipment", "classifier"}]
          /\ \A i \in SFCIs : known'[i] # "nothing" => i \in scenario'.sfcis
      BY <1>3 DEF TypeOK
    <2>3. /\ db' \in [SFC : [SFCs -> SFCRow], SFCI : [SFCIs -> SFCIRow \cup {None}]]
          /\ \A i \in scenario'.sfcis : db'.SFCI[i] # None
          /\ \A s \in SFCs : db'.SFC[s].sfciIDList \subseteq scenario'.sfcis
      BY <1>3 DEF RoundEffect, DB
    <2>4. /\ taskDict' \in [TaskType -> [SFCIs -> Task \cup {None}]]
          /\ \A type \in TaskType, i \in SFCIs : hasRecoveryTask(taskDict, type, i)' => i \in scenario'.sfcis
      BY <1>3 DEF RoundEffect, hasRecoveryTask
    <2>5. /\ orchQueue' \in Seq(Request) /\ batch' \in Seq(Request)
          /\ \A n \in 1..Len(batch') : batch'[n].type = "ADD_SFCI"
          /\ Bag(inMediator') /\ Bag(failedReqs')
      BY DEF RoundEffect, TypeOK
    <2>6. Bag(inMediator)' /\ Bag(failedReqs)'
      BY <2>1, <2>5 DEF Bag
    <2>7. ASSUME NEW f \in todo'
          PROVE  hasRecoveryTask(taskDict, f[1], f[2])'
      <3>1. f \in todo /\ f # e
        BY DEF RoundEffect
      <3>2. /\ taskDict[f[1]][f[2]] # None /\ f[1] \in TaskType /\ f[2] \in SFCIs
            /\ f[1] # e[1] \/ f[2] # e[2]
        BY <1>2, <3>1 DEF TypeOK, hasRecoveryTask
      <3> QED
        BY <3>2 DEF RoundEffect, hasRecoveryTask
    <2>8. \A f, g \in todo' : f[1] = g[1] /\ f[2] = g[2] => f = g
      BY <1>3 DEF TypeOK
    <2> QED
      BY <2>1, <2>2, <2>3, <2>4, <2>5, <2>6, <2>7, <2>8 DEF TypeOK
  <1>5. ASSUME NEW i \in scenario.sfcis, Alone(i), InStep(i)
        PROVE  InStep(i)'
    <2>1. CASE i = e[2]
      <3>1. /\ todo' \in {todo \ {e}, {}}
            /\ taskDict'[e[1]][i] = task
            /\ \A type \in TaskType \ {e[1]} : taskDict'[type][i] = taskDict[type][i]
        BY <1>2, <2>1 DEF RoundEffect
      <3>2. Lands(i, task)
        BY <1>5, <2>1
      <3> QED
        BY <1>5, <2>1, <3>1, <3>2, OwnStepLemma DEF Lands
    <2>2. CASE i # e[2]
      <3>1. i[1] # e[2][1]
        BY <1>1, <1>5, <2>2 DEF Alone
      <3>2. /\ Kept(i[1])
            /\ SFCIState(i)' = SFCIState(i) /\ SFCState(i[1])' = SFCState(i[1])
            /\ \A type \in TaskType : taskDict'[type][i] = taskDict[type][i]
        BY <1>2, <3>1 DEF RoundEffect
      <3> QED
        BY <1>1, <1>3, <1>5, <3>2, UntouchedLemma
    <2> QED
      BY <2>1, <2>2
  <1> QED
    BY <1>4, <1>5 DEF Preserved

\* The tasks after one of them was put in place of another.
LEMMA TaskLemma ==
    ASSUME TypeOK, NEW type \in TaskType, NEW i \in scenario.sfcis, NEW task \in Task \cup {None},
           taskDict' = [taskDict EXCEPT ![type][i] = task]
    PROVE  /\ taskDict' \in [TaskType -> [SFCIs -> Task \cup {None}]]
           /\ \A t \in TaskType, j \in SFCIs : taskDict'[t][j] # None => j \in scenario.sfcis
           /\ taskDict'[type][i] = task
           /\ \A t \in TaskType, j \in SFCIs : j # i \/ t # type => taskDict'[t][j] = taskDict[t][j]
  <1>1. taskDict \in [TaskType -> [SFCIs -> Task \cup {None}]] /\ i \in SFCIs
    BY TablesLemma DEF TypeOK
  <1>2. \A t \in TaskType, j \in SFCIs : taskDict[t][j] # None => j \in scenario.sfcis
    BY DEF TypeOK, hasRecoveryTask
  <1>3. taskDict' \in [TaskType -> [SFCIs -> Task \cup {None}]]
    BY <1>1
  <1>4. \A t \in TaskType, j \in SFCIs : taskDict'[t][j] = IF t = type /\ j = i THEN task ELSE taskDict[t][j]
    BY <1>1
  <1> QED
    BY <1>1, <1>2, <1>3, <1>4

\* What a task in each state has to find to fit.
LEMMA FitsLemma ==
    ASSUME NEW i
    PROVE  /\ SFCIState(i)' = STATE_ACTIVE => Fits(RecoveryTask(WAITING), i)'
           /\ /\ SFCIState(i)' = STATE_INACTIVE /\ SFCState(i[1])' = STATE_RECOVER_MODE
              /\ Quiet(i[1])'
              => Fits(RecoveryTask(READY), i)'
           /\ /\ SFCIState(i)' = STATE_INACTIVE /\ SFCState(i[1])' = STATE_RECOVER_MODE
              /\ Only(i[1], "DEL_SFCI")'
              => Fits(RecoveryTask(DELETING_SFCI), i)'
           /\ SFCIState(i)' = STATE_DELETED /\ Quiet(i[1])' => Fits(RecoveryTask(WAITING_TO_DELETE_SFC), i)'
           /\ /\ SFCIState(i)' = STATE_DELETED /\ SFCState(i[1])' = STATE_RECOVER_MODE
              /\ Only(i[1], "DEL_SFC")'
              => Fits(RecoveryTask(DELETING_SFC), i)'
           /\ /\ SFCIState(i)' = STATE_DELETED /\ SFCState(i[1])' \in {STATE_RECOVER_MODE, STATE_ACTIVE}
              /\ Only(i[1], "ADD_SFCI")'
              => Fits(RecoveryTask(ADDING_SFCI), i)'
           /\ SFCIState(i)' \in Absent \cup {STATE_ACTIVE} /\ Quiet(i[1])' => Fits(RecoveryTask(FINISH), i)'
           /\ \A x : RecoveryTask(x).state = x /\ ~RecoveryTask(x).old /\ ~RecoveryTask(x).addSFCSent
           /\ \A x \in TaskState : RecoveryTask(x) \in Task /\ RecoveryTask(x) # None
  <1>1. \A x : RecoveryTask(x).state = x /\ ~RecoveryTask(x).old /\ ~RecoveryTask(x).addSFCSent
    BY DEF RecoveryTask
  <1>2. \A x \in TaskState : RecoveryTask(x) \in Task /\ RecoveryTask(x) # None
    <2>1. ASSUME NEW x \in TaskState
          PROVE  RecoveryTask(x) \in Task
      BY DEF RecoveryTask, Task
    <2> QED
      BY <2>1, NoneAssumption
  <1>3. SFCIState(i)' = STATE_ACTIVE => Fits(RecoveryTask(WAITING), i)'
    BY <1>1 DEF Fits, READY, DELETING_SFCI, WAITING_TO_DELETE_SFC, DELETING_SFC, ADDING_SFCI,
                WAITING, FAILED, FINISH
  <1>4. /\ SFCIState(i)' = STATE_INACTIVE /\ SFCState(i[1])' = STATE_RECOVER_MODE /\ Quiet(i[1])'
        => Fits(RecoveryTask(READY), i)'
    BY <1>1 DEF Fits, READY, DELETING_SFCI, WAITING_TO_DELETE_SFC, DELETING_SFC, ADDING_SFCI,
                WAITING, FAILED, FINISH
  <1>5. /\ SFCIState(i)' = STATE_INACTIVE /\ SFCState(i[1])' = STATE_RECOVER_MODE
        /\ Only(i[1], "DEL_SFCI")'
        => Fits(RecoveryTask(DELETING_SFCI), i)'
    BY <1>1 DEF Fits, READY, DELETING_SFCI, WAITING_TO_DELETE_SFC, DELETING_SFC, ADDING_SFCI,
                WAITING, FAILED, FINISH, STATE_INACTIVE, STATE_DELETED
  <1>6. SFCIState(i)' = STATE_DELETED /\ Quiet(i[1])' => Fits(RecoveryTask(WAITING_TO_DELETE_SFC), i)'
    BY <1>1 DEF Fits, READY, DELETING_SFCI, WAITING_TO_DELETE_SFC, DELETING_SFC, ADDING_SFCI,
                WAITING, FAILED, FINISH
  <1>7. /\ SFCIState(i)' = STATE_DELETED /\ SFCState(i[1])' = STATE_RECOVER_MODE
        /\ Only(i[1], "DEL_SFC")'
        => Fits(RecoveryTask(DELETING_SFC), i)'
    BY <1>1 DEF Fits, READY, DELETING_SFCI, WAITING_TO_DELETE_SFC, DELETING_SFC, ADDING_SFCI,
                WAITING, FAILED, FINISH, STATE_RECOVER_MODE, STATE_DELETED
  <1>8. /\ SFCIState(i)' = STATE_DELETED /\ SFCState(i[1])' \in {STATE_RECOVER_MODE, STATE_ACTIVE}
        /\ Only(i[1], "ADD_SFCI")'
        => Fits(RecoveryTask(ADDING_SFCI), i)'
    BY <1>1 DEF Fits, READY, DELETING_SFCI, WAITING_TO_DELETE_SFC, DELETING_SFC, ADDING_SFCI,
                WAITING, FAILED, FINISH
  <1>9. SFCIState(i)' \in Absent \cup {STATE_ACTIVE} /\ Quiet(i[1])' => Fits(RecoveryTask(FINISH), i)'
    BY <1>1 DEF Fits, READY, DELETING_SFCI, WAITING_TO_DELETE_SFC, DELETING_SFC, ADDING_SFCI,
                WAITING, FAILED, FINISH
  <1> QED
    BY <1>1, <1>2, <1>3, <1>4, <1>5, <1>6, <1>7, <1>8, <1>9
-----------------------------------------------------------------------------
(***************************************************************************)
(* The steps of a round, one by one.                                       *)
(***************************************************************************)
\* What all of them have in common.
LEMMA EntryLemma ==
    ASSUME TypeOK, NEW e \in todo
    PROVE  /\ e[1] \in TaskType /\ e[2] \in scenario.sfcis /\ e[2] \in SFCIs /\ e[2][1] \in SFCs
           /\ db \in DB(scenario.sfcis) /\ scenario.sfcis \in SUBSET SFCIs
           /\ taskDict \in [TaskType -> [SFCIs -> Task \cup {None}]]
           /\ \A type \in TaskType, j \in SFCIs : taskDict[type][j] # None => j \in scenario.sfcis
           /\ taskDict[e[1]][e[2]] \in Task /\ taskDict[e[1]][e[2]] # None
           /\ InStep(e[2]) => /\ Fits(taskDict[e[1]][e[2]], e[2])
                              /\ taskDict[e[1]][e[2]].state = e[3]
  <1>1. /\ e[1] \in TaskType /\ e[2] \in scenario.sfcis /\ e[2] \in SFCIs /\ e[2][1] \in SFCs
        /\ db \in DB(scenario.sfcis) /\ scenario.sfcis \in SUBSET SFCIs
    BY TablesLemma DEF TypeOK
  <1>2. /\ taskDict \in [TaskType -> [SFCIs -> Task \cup {None}]]
        /\ \A type \in TaskType, j \in SFCIs : taskDict[type][j] # None => j \in scenario.sfcis
    BY DEF TypeOK, hasRecoveryTask
  <1>4. taskDict[e[1]][e[2]] \in Task /\ taskDict[e[1]][e[2]] # None
    BY <1>1, <1>2 DEF TypeOK, hasRecoveryTask
  <1>3. ASSUME InStep(e[2])
        PROVE  /\ Fits(taskDict[e[1]][e[2]], e[2])
               /\ taskDict[e[1]][e[2]].state = e[3]
    <2>1. hasRecoveryTask(taskDict, e[1], e[2]) /\ taskDict[e[1]][e[2]].state = e[3]
      BY <1>3 DEF InStep
    <2> QED
      BY <1>1, <1>2, <1>3, <2>1 DEF InStep, hasRecoveryTask
  <1> QED
    BY <1>1, <1>2, <1>3, <1>4

\* No SFC or SFCI changes its state.
LEMMA SameTables ==
    ASSUME db' = db
    PROVE  \A i : SFCIState(i)' = SFCIState(i) /\ SFCState(i[1])' = SFCState(i[1])
  BY DEF SFCIState, SFCState, hasSFCI

\* A task that stays as it is (sfcRestorer.processAllRecoveryTasks) stays in step.
LEMMA StayLemma ==
    ASSUME TypeOK, NEW e \in todo, Stay, todo' \in {todo \ {e}, {}}, UNCHANGED tableVars
    PROVE  Preserved
  <1>1. /\ db' = db /\ taskDict' = taskDict /\ orchQueue' \in Seq(Request)
        /\ UNCHANGED <<batch, inMediator, failedReqs>>
        /\ \A s : Kept(s)
    BY NothingSent DEF Stay
  <1>2. /\ e[1] \in TaskType /\ e[2] \in scenario.sfcis /\ e[2] \in SFCIs
        /\ db \in DB(scenario.sfcis)
        /\ taskDict \in [TaskType -> [SFCIs -> Task \cup {None}]]
        /\ \A type \in TaskType, j \in SFCIs : taskDict[type][j] # None => j \in scenario.sfcis
        /\ taskDict[e[1]][e[2]] # None
        /\ InStep(e[2]) => Fits(taskDict[e[1]][e[2]], e[2])
    BY EntryLemma
  <1>3. PICK task : task = taskDict[e[1]][e[2]]
    OBVIOUS
  <1>4. \A i : SFCIState(i)' = SFCIState(i) /\ SFCState(i[1])' = SFCState(i[1])
    BY <1>1, SameTables
  <1>5. RoundEffect(e, task)
    BY <1>1, <1>2, <1>3, <1>4 DEF RoundEffect
  <1>6. InStep(e[2]) => Lands(e[2], task)
    <2> SUFFICES ASSUME InStep(e[2])
                 PROVE  Lands(e[2], task)
      OBVIOUS
    <2>1. task # None /\ Fits(task, e[2])
      BY <1>2, <1>3
    <2>2. PICK i : i = e[2]
      OBVIOUS
    <2>3. Fits(task, i)'
      BY <1>1, <1>4, <2>1, <2>2, FitsStays
    <2>4. SFCIState(i)' = STATE_ACTIVE => SFCState(i[1])' \in {STATE_ACTIVE, STATE_RECOVER_MODE} /\ Quiet(i[1])'
      BY <1>1, <1>4, <2>2 DEF InStep, Kept
    <2> QED
      BY <2>1, <2>2, <2>3, <2>4 DEF Lands
  <1> QED
    BY <1>5, <1>6, RoundEffectLemma

\* A step that only gives its SFCI a new task and sends reqs, about its SFC.
LEMMA GoToLemma ==
    ASSUME TypeOK, NEW e \in todo, todo' = todo \ {e}, UNCHANGED <<tableVars, db>>,
           NEW task \in Task, taskDict' = [taskDict EXCEPT ![e[1]][e[2]] = task],
           orchQueue' \in Seq(Request), UNCHANGED <<batch, inMediator, failedReqs>>,
           \A s : s # e[2][1] => Kept(s),
           Alone(e[2]) /\ InStep(e[2]) =>
              /\ Fits(task, e[2])'
              /\ SFCIState(e[2]) = STATE_ACTIVE => Quiet(e[2][1])'
    PROVE  Preserved
  <1>1. /\ e[1] \in TaskType /\ e[2] \in scenario.sfcis /\ db \in DB(scenario.sfcis)
    BY EntryLemma
  <1>2. /\ taskDict' \in [TaskType -> [SFCIs -> Task \cup {None}]]
        /\ \A t \in TaskType, j \in SFCIs : taskDict'[t][j] # None => j \in scenario.sfcis
        /\ taskDict'[e[1]][e[2]] = task
        /\ \A t \in TaskType, j \in SFCIs : j # e[2] \/ t # e[1] => taskDict'[t][j] = taskDict[t][j]
    BY <1>1, TaskLemma
  <1>3. \A i : SFCIState(i)' = SFCIState(i) /\ SFCState(i[1])' = SFCState(i[1])
    BY SameTables
  <1>4. RoundEffect(e, task)
    BY <1>1, <1>2, <1>3 DEF RoundEffect
  <1>5. task # None
    BY NoneAssumption
  <1>6. Alone(e[2]) /\ InStep(e[2]) => Lands(e[2], task)
    BY <1>3, <1>5 DEF Lands, InStep
  <1> QED
    BY <1>4, <1>6, RoundEffectLemma

\* A waiting task gets ready only when nothing is under way (isReadyToRecover).
LEMMA WaitingLemma ==
    ASSUME TypeOK, NEW e \in todo, Waiting(e)
    PROVE  Preserved
  <1> DEFINE i == e[2]
             s == i[1]
             d == updateSFCState(db, s, STATE_RECOVER_MODE)
             task == RecoveryTask(READY)
  <1>1. CASE Stay
    BY <1>1, StayLemma DEF Waiting, Turn, Done
  <1>2. CASE /\ isReadyToRecover(i)
             /\ db' = updateSFCIState(d, i, STATE_INACTIVE)
             /\ GoTo(e, READY)
             /\ SendNothing
    <2>1. /\ e[1] \in TaskType /\ i \in scenario.sfcis /\ i \in SFCIs /\ s \in SFCs
          /\ db \in DB(scenario.sfcis) /\ scenario.sfcis \in SUBSET SFCIs
      BY EntryLemma
    <2>2. STATE_RECOVER_MODE \in ResourceState /\ STATE_INACTIVE \in ResourceState
      BY DEF ResourceState
    <2>3. d \in DB(scenario.sfcis) /\ WroteSFC(db, d, s, STATE_RECOVER_MODE)
      BY <2>1, <2>2, StateLemma
    <2> HIDE DEF d
    <2>4. db' \in DB(scenario.sfcis) /\ WroteSFCI(d, db', i, STATE_INACTIVE)
      BY <1>2, <2>1, <2>2, <2>3, StateLemma
    <2>5. /\ SFCIState(i)' = STATE_INACTIVE /\ SFCState(s)' = STATE_RECOVER_MODE
          /\ \A j \in scenario.sfcis :
                j[1] # s => SFCIState(j)' = SFCIState(j) /\ SFCState(j[1])' = SFCState(j[1])
      <3>1. \A j \in scenario.sfcis : j \in SFCIs /\ j[1] \in SFCs
        BY TablesLemma
      <3> QED
        BY <2>1, <2>3, <2>4, <3>1 DEF WroteSFC, WroteSFCI, SFCIState, SFCState, hasSFCI
    <2>6. task \in Task /\ task # None
      BY FitsLemma DEF TaskState
    <2>7. taskDict' = [taskDict EXCEPT ![e[1]][i] = task]
      BY <1>2 DEF GoTo, updateRecoveryTask
    <2> HIDE DEF task
    <2>8. /\ taskDict' \in [TaskType -> [SFCIs -> Task \cup {None}]]
          /\ \A t \in TaskType, j \in SFCIs : taskDict'[t][j] # None => j \in scenario.sfcis
          /\ taskDict'[e[1]][i] = task
          /\ \A t \in TaskType, j \in SFCIs : j # i \/ t # e[1] => taskDict'[t][j] = taskDict[t][j]
      BY <2>1, <2>6, <2>7, TaskLemma
    <2>9. /\ orchQueue' \in Seq(Request) /\ UNCHANGED <<batch, inMediator, failedReqs>>
          /\ \A t : Kept(t)
      BY <1>2, NothingSent
    <2>10. UNCHANGED tableVars /\ todo' = todo \ {e}
      BY DEF Waiting, Turn, Done
    <2>11. RoundEffect(e, task)
      BY <2>1, <2>4, <2>5, <2>8, <2>9, <2>10 DEF RoundEffect
    <2>12. InStep(i) => Lands(i, task)
      <3> SUFFICES ASSUME InStep(i)
                   PROVE  Lands(i, task)
        OBVIOUS
      <3>1. Quiet(s)'
        BY <1>2, <2>9 DEF isReadyToRecover, InStep, Kept
      <3>2. PICK j : j = i
        OBVIOUS
      <3>3. Fits(RecoveryTask(READY), j)'
        BY <2>5, <3>1, <3>2, FitsLemma
      <3>4. SFCIState(i)' # STATE_ACTIVE
        BY <2>5 DEF STATE_INACTIVE, STATE_ACTIVE
      <3> QED
        BY <2>6, <3>2, <3>3, <3>4 DEF Lands, task
    <2> QED
      BY <2>11, <2>12, RoundEffectLemma
  <1> QED
    BY <1>1, <1>2 DEF Waiting

\* A task that is ready sends DEL_SFCI when nothing is under way.
LEMMA ReadyLemma ==
    ASSUME TypeOK, NEW e \in todo, Ready(e)
    PROVE  Preserved
  <1>1. UNCHANGED tableVars /\ todo' = todo \ {e} /\ e[3] = READY
    BY DEF Ready, Turn, Done
  <1>2. CASE Stay
    BY <1>1, <1>2, StayLemma
  <1>3. PICK i : i = e[2]
    OBVIOUS
  <1>4. i \in scenario.sfcis
    BY <1>3, EntryLemma
  <1> DEFINE task == RecoveryTask(DELETING_SFCI)
  <1>5. task \in Task /\ task # None
    BY FitsLemma DEF TaskState
  <1>6. InStep(i) => SFCIState(i) = STATE_INACTIVE /\ SFCState(i[1]) = STATE_RECOVER_MODE /\ Quiet(i[1])
    BY <1>1, <1>3, EntryLemma DEF Fits
  <1>7. STATE_INACTIVE # STATE_ACTIVE
    BY DEF STATE_INACTIVE, STATE_ACTIVE
  <1>8. CASE /\ Send(<<request("DEL_SFCI", i[1], i)>>)
             /\ GoTo(e, DELETING_SFCI)
             /\ UNCHANGED db
    <2>1. PICK r \in Request : r = request("DEL_SFCI", i[1], i) /\ r.sfc = i[1] /\ r.type = "DEL_SFCI"
      BY <1>4, NewRequestLemma
    <2>2. /\ orchQueue' \in Seq(Request)
          /\ UNCHANGED <<batch, inMediator, failedReqs>>
          /\ \A t : t # i[1] => Kept(t)
          /\ Quiet(i[1]) => Only(i[1], "DEL_SFCI")'
      BY <1>8, <2>1, SendOne
    <2>3. taskDict' = [taskDict EXCEPT ![e[1]][e[2]] = task]
      BY <1>8 DEF GoTo, updateRecoveryTask
    <2>4. SFCIState(i)' = SFCIState(i) /\ SFCState(i[1])' = SFCState(i[1])
      BY <1>8, SameTables
    <2>5. InStep(i) => Fits(RecoveryTask(DELETING_SFCI), i)'
      BY <1>6, <2>2, <2>4, FitsLemma
    <2> QED
      BY <1>1, <1>3, <1>5, <1>6, <1>7, <1>8, <2>2, <2>3, <2>5, GoToLemma
  <1>9. CASE /\ SFCIState(i) \in Absent
             /\ GoTo(e, DELETING_SFCI)
             /\ UNCHANGED db /\ SendNothing
    <2>1. /\ orchQueue' \in Seq(Request) /\ UNCHANGED <<batch, inMediator, failedReqs>>
          /\ \A t : Kept(t)
      BY <1>9, NothingSent
    <2>2. taskDict' = [taskDict EXCEPT ![e[1]][e[2]] = task]
      BY <1>9 DEF GoTo, updateRecoveryTask
    <2>3. ~InStep(i)
      BY <1>6, <1>9 DEF Absent, STATE_INACTIVE, STATE_DELETED, STATE_INIT_FAILED
    <2> QED
      BY <1>1, <1>3, <1>5, <1>9, <2>1, <2>2, <2>3, GoToLemma
  <1> QED
    BY <1>2, <1>3, <1>8, <1>9 DEF Ready

\* A task whose SFCI is gone adds it again, or goes on to delete its SFC.
LEMMA DeletingSFCILemma ==
    ASSUME TypeOK, NEW e \in todo, DeletingSFCI(e)
    PROVE  Preserved
  <1>1. UNCHANGED tableVars /\ todo' = todo \ {e} /\ e[3] = DELETING_SFCI
    BY DEF DeletingSFCI, Turn, Done
  <1>2. CASE Stay
    BY <1>1, <1>2, StayLemma
  <1>3. PICK i : i = e[2]
    OBVIOUS
  <1>4. i \in scenario.sfcis
    BY <1>3, EntryLemma
  <1>5. InStep(i) => /\ SFCIState(i) \in {STATE_INACTIVE, STATE_IN_PROCESSING, STATE_UNDELETED, STATE_DELETED}
                     /\ SFCState(i[1]) = STATE_RECOVER_MODE
                     /\ SFCIState(i) = STATE_DELETED => Quiet(i[1])
    BY <1>1, <1>3, EntryLemma DEF Fits
  <1>6. InStep(i) /\ SFCIState(i) \in Absent =>
            SFCIState(i) = STATE_DELETED /\ SFCState(i[1]) = STATE_RECOVER_MODE /\ Quiet(i[1])
    BY <1>5 DEF Absent, STATE_INACTIVE, STATE_IN_PROCESSING, STATE_UNDELETED, STATE_DELETED, STATE_INIT_FAILED
  <1>7. STATE_DELETED # STATE_ACTIVE
    BY DEF STATE_DELETED, STATE_ACTIVE
  <1>8. \A x \in TaskState : RecoveryTask(x) \in Task
    BY FitsLemma
  <1>9. {ADDING_SFCI, DELETING_SFC, WAITING_TO_DELETE_SFC} \subseteq TaskState
    BY DEF TaskState
  <1>10. UNCHANGED db => SFCIState(i)' = SFCIState(i) /\ SFCState(i[1])' = SFCState(i[1])
    BY SameTables
  <1>11. CASE /\ SFCIState(i) \in Absent
              /\ Send(<<request("ADD_SFCI", i[1], i)>>)
              /\ GoTo(e, ADDING_SFCI)
              /\ UNCHANGED db
    <2>1. PICK r \in Request : r = request("ADD_SFCI", i[1], i) /\ r.sfc = i[1] /\ r.type = "ADD_SFCI"
      BY <1>4, NewRequestLemma
    <2>2. /\ orchQueue' \in Seq(Request)
          /\ UNCHANGED <<batch, inMediator, failedReqs>>
          /\ \A t : t # i[1] => Kept(t)
          /\ Quiet(i[1]) => Only(i[1], "ADD_SFCI")'
      BY <1>11, <2>1, SendOne
    <2>3. PICK task \in Task : task = RecoveryTask(ADDING_SFCI)
      BY <1>8, <1>9
    <2>4. taskDict' = [taskDict EXCEPT ![e[1]][e[2]] = task]
      BY <1>11, <2>3 DEF GoTo, updateRecoveryTask
    <2>5. InStep(i) => Fits(task, i)'
      BY <1>6, <1>10, <1>11, <2>2, <2>3, FitsLemma
    <2> QED
      BY <1>1, <1>3, <1>6, <1>7, <1>11, <2>2, <2>4, <2>5, GoToLemma
  <1>12. CASE /\ SFCIState(i) \in Absent
              /\ Send(<<request("DEL_SFC", i[1], None)>>)
              /\ GoTo(e, DELETING_SFC)
              /\ UNCHANGED db
    <2>1. PICK r \in Request : r = request("DEL_SFC", i[1], None) /\ r.sfc = i[1] /\ r.type = "DEL_SFC"
      BY <1>4, NewRequestLemma
    <2>2. /\ orchQueue' \in Seq(Request)
          /\ UNCHANGED <<batch, inMediator, failedReqs>>
          /\ \A t : t # i[1] => Kept(t)
          /\ Quiet(i[1]) => Only(i[1], "DEL_SFC")'
      BY <1>12, <2>1, SendOne
    <2>3. PICK task \in Task : task = RecoveryTask(DELETING_SFC)
      BY <1>8, <1>9
    <2>4. taskDict' = [taskDict EXCEPT ![e[1]][e[2]] = task]
      BY <1>12, <2>3 DEF GoTo, updateRecoveryTask
    <2>5. InStep(i) => Fits(task, i)'
      BY <1>6, <1>10, <1>12, <2>2, <2>3, FitsLemma
    <2> QED
      BY <1>1, <1>3, <1>6, <1>7, <1>12, <2>2, <2>4, <2>5, GoToLemma
  <1>13. CASE /\ SFCIState(i) \in Absent
              /\ SendNothing
              /\ GoTo(e, WAITING_TO_DELETE_SFC)
              /\ UNCHANGED db
    <2>1. /\ orchQueue' \in Seq(Request) /\ UNCHANGED <<batch, inMediator, failedReqs>>
          /\ \A t : Kept(t)
      BY <1>13, NothingSent
    <2>2. PICK task \in Task : task = RecoveryTask(WAITING_TO_DELETE_SFC)
      BY <1>8, <1>9
    <2>3. taskDict' = [taskDict EXCEPT ![e[1]][e[2]] = task]
      BY <1>13, <2>2 DEF GoTo, updateRecoveryTask
    <2>4. InStep(i) => Fits(task, i)'
      <3>1. InStep(i) => Quiet(i[1])'
        BY <1>6, <1>13, <2>1 DEF Kept
      <3> QED
        BY <1>6, <1>10, <1>13, <2>2, <3>1, FitsLemma
    <2> QED
      BY <1>1, <1>3, <1>6, <1>7, <1>13, <2>1, <2>3, <2>4, GoToLemma
  <1> QED
    BY <1>2, <1>3, <1>11, <1>12, <1>13 DEF DeletingSFCI

\* Tasks that have to wait stay in step.
LEMMA RestingLemma ==
    ASSUME TypeOK, NEW e \in todo, Resting(e) \/ SFCNotYet(e)
    PROVE  Preserved
  BY StayLemma DEF Resting, SFCNotYet, Turn, Done, Raise

\* Once the SFC is deleted a task sends ADD_SFC.
LEMMA SFCDeletedLemma ==
    ASSUME TypeOK, NEW e \in todo, SFCDeleted(e)
    PROVE  Preserved
  <1>1. UNCHANGED tableVars /\ e[3] = DELETING_SFC /\ SFCState(e[2][1]) = STATE_DELETED
    BY DEF SFCDeleted, Turn
  <1>2. CASE Stay /\ (Done(e) \/ Raise)
    BY <1>1, <1>2, StayLemma DEF Done, Raise
  <1>3. PICK i : i = e[2]
    OBVIOUS
  <1>4. /\ i \in scenario.sfcis /\ i \in SFCIs /\ e[1] \in TaskType
        /\ taskDict \in [TaskType -> [SFCIs -> Task \cup {None}]]
    BY <1>3, EntryLemma
  <1>5. CASE /\ ~taskDict[e[1]][i].addSFCSent
             /\ taskDict' = [taskDict EXCEPT ![e[1]][i].addSFCSent = TRUE]
             /\ Send(<<request("ADD_SFC", i[1], None)>>)
             /\ UNCHANGED db
             /\ Done(e)
    <2>1. PICK r \in Request : r = request("ADD_SFC", i[1], None) /\ r.sfc = i[1] /\ r.type = "ADD_SFC"
      BY <1>4, NewRequestLemma
    <2>2. /\ orchQueue' \in Seq(Request)
          /\ UNCHANGED <<batch, inMediator, failedReqs>>
          /\ \A t : t # i[1] => Kept(t)
          /\ Quiet(i[1]) => Only(i[1], "ADD_SFC")'
      BY <1>5, <2>1, SendOne
    <2>3. PICK old : old = taskDict[e[1]][i]
      OBVIOUS
    <2>4. PICK task : task = [old EXCEPT !.addSFCSent = TRUE]
      OBVIOUS
    <2>5. taskDict' = [taskDict EXCEPT ![e[1]][i] = task]
      BY <1>4, <1>5, <2>3, <2>4
    <2>6. old \in Task /\ (InStep(i) => Fits(old, i) /\ old.state = DELETING_SFC)
      BY <1>1, <1>3, <2>3, EntryLemma
    <2>7. task \in Task /\ task.state = old.state /\ task.addSFCSent /\ task.old = old.old
      BY <2>4, <2>6 DEF Task
    <2>8. InStep(i) => SFCIState(i) = STATE_DELETED /\ Quiet(i[1]) /\ ~old.old
      BY <1>1, <1>3, <1>5, <2>3, <2>6 DEF Fits
    <2>9. SFCIState(i)' = SFCIState(i) /\ SFCState(i[1])' = STATE_DELETED
      BY <1>1, <1>3, <1>5, SameTables
    <2>10. InStep(i) => Fits(task, i)'
      BY <2>2, <2>6, <2>7, <2>8, <2>9 DEF Fits, READY, DELETING_SFCI, WAITING_TO_DELETE_SFC, DELETING_SFC,
         ADDING_SFCI, WAITING, FAILED, FINISH, STATE_DELETED, STATE_ACTIVE
    <2>11. STATE_DELETED # STATE_ACTIVE
      BY DEF STATE_DELETED, STATE_ACTIVE
    <2> QED
      BY <1>1, <1>3, <1>5, <2>2, <2>5, <2>7, <2>8, <2>10, <2>11, GoToLemma DEF Done
  <1> QED
    BY <1>2, <1>3, <1>5 DEF SFCDeleted

\* A task whose SFCI is active again ends.
LEMMA AddingSFCILemma ==
    ASSUME TypeOK, NEW e \in todo, AddingSFCI(e)
    PROVE  Preserved
  <1>1. UNCHANGED tableVars /\ todo' = todo \ {e}
    BY DEF AddingSFCI, Turn, Done
  <1>2. CASE Stay
    BY <1>1, <1>2, StayLemma
  <1>3. PICK i : i = e[2]
    OBVIOUS
  <1>4. CASE SFCIState(e[2]) = STATE_ACTIVE /\ GoTo(e, FINISH) /\ UNCHANGED db /\ SendNothing
    <2>1. /\ orchQueue' \in Seq(Request) /\ UNCHANGED <<batch, inMediator, failedReqs>>
          /\ \A t : Kept(t)
      BY <1>4, NothingSent
    <2>2. PICK task \in Task : task = RecoveryTask(FINISH)
      BY FitsLemma DEF TaskState
    <2>3. taskDict' = [taskDict EXCEPT ![e[1]][e[2]] = task]
      BY <1>4, <2>2 DEF GoTo, updateRecoveryTask
    <2>4. InStep(i) => Fits(task, i)' /\ Quiet(i[1])'
      <3>1. InStep(i) => Quiet(i[1])'
        BY <1>3, <1>4, <2>1 DEF Kept, InStep
      <3>2. SFCIState(i)' = STATE_ACTIVE
        BY <1>3, <1>4, SameTables
      <3> QED
        BY <2>2, <3>1, <3>2, FitsLemma
    <2> QED
      BY <1>1, <1>3, <1>4, <2>1, <2>3, <2>4, GoToLemma
  <1> QED
    BY <1>2, <1>4 DEF AddingSFCI

\* A task that has finished is removed.
LEMMA FinishedLemma ==
    ASSUME TypeOK, NEW e \in todo, Finished(e)
    PROVE  Preserved
  <1>1. /\ UNCHANGED <<tableVars, db>> /\ todo' = todo \ {e} /\ e[3] = FINISH
        /\ taskDict' = [taskDict EXCEPT ![e[1]][e[2]] = None] /\ SendNothing
    BY DEF Finished, Turn, Done
  <1>2. /\ e[1] \in TaskType /\ e[2] \in scenario.sfcis /\ db \in DB(scenario.sfcis)
        /\ InStep(e[2]) => SFCIState(e[2]) \in Absent \cup {STATE_ACTIVE} /\ Quiet(e[2][1])
    BY <1>1, EntryLemma DEF Fits
  <1>3. /\ orchQueue' \in Seq(Request) /\ UNCHANGED <<batch, inMediator, failedReqs>>
        /\ \A t : Kept(t)
    BY <1>1, NothingSent
  <1>4. /\ taskDict' \in [TaskType -> [SFCIs -> Task \cup {None}]]
        /\ \A t \in TaskType, j \in SFCIs : taskDict'[t][j] # None => j \in scenario.sfcis
        /\ taskDict'[e[1]][e[2]] = None
        /\ \A t \in TaskType, j \in SFCIs : j # e[2] \/ t # e[1] => taskDict'[t][j] = taskDict[t][j]
    <2>1. None \in Task \cup {None}
      OBVIOUS
    <2> QED
      BY <1>1, <1>2, <2>1, TaskLemma
  <1>5. \A i : SFCIState(i)' = SFCIState(i) /\ SFCState(i[1])' = SFCState(i[1])
    BY <1>1, SameTables
  <1>6. RoundEffect(e, None)
    BY <1>1, <1>2, <1>3, <1>4, <1>5 DEF RoundEffect
  <1>7. InStep(e[2]) => Lands(e[2], None)
    BY <1>2, <1>3, <1>5 DEF Lands, InStep, Kept
  <1> QED
    BY <1>6, <1>7, RoundEffectLemma

\* Once the SFC is active a task sends ADD_SFCI.
LEMMA SFCAddedLemma ==
    ASSUME TypeOK, NEW e \in todo, SFCAdded(e)
    PROVE  Preserved
  <1>1. /\ UNCHANGED <<tableVars, db>> /\ todo' = todo \ {e} /\ e[3] = DELETING_SFC
        /\ SFCState(e[2][1]) = STATE_ACTIVE
    BY DEF SFCAdded, Turn, Done
  <1>2. PICK i : i = e[2]
    OBVIOUS
  <1>3. /\ e[1] \in TaskType /\ i \in scenario.sfcis /\ i \in SFCIs /\ i[1] \in SFCs
        /\ db \in DB(scenario.sfcis) /\ scenario.sfcis \in SUBSET SFCIs
        /\ taskDict \in [TaskType -> [SFCIs -> Task \cup {None}]]
        /\ \A type \in TaskType, j \in SFCIs : taskDict[type][j] # None => j \in scenario.sfcis
        /\ taskDict[e[1]][i] \in Task /\ taskDict[e[1]][i] # None
        /\ InStep(i) => /\ Fits(taskDict[e[1]][i], i)
                        /\ taskDict[e[1]][i].state = e[3]
    BY <1>2, EntryLemma
  <1>4. InStep(i) => SFCIState(i) = STATE_DELETED /\ Quiet(i[1])
    <2>1. taskDict[e[1]][i].addSFCSent \in BOOLEAN
      BY <1>3 DEF Task
    <2>2. STATE_ACTIVE \notin {STATE_RECOVER_MODE, STATE_IN_PROCESSING, STATE_UNDELETED, STATE_DELETED}
      BY DEF STATE_RECOVER_MODE, STATE_IN_PROCESSING, STATE_UNDELETED, STATE_DELETED, STATE_ACTIVE
    <2> QED
      BY <1>1, <1>2, <1>3, <2>1, <2>2 DEF Fits
  <1>5. \A j : SFCIState(j)' = SFCIState(j) /\ SFCState(j[1])' = SFCState(j[1])
    BY <1>1, SameTables
  <1>6. STATE_DELETED # STATE_ACTIVE /\ STATE_DELETED \in Absent
    BY DEF STATE_DELETED, STATE_ACTIVE, Absent
  <1>7. \A x \in TaskState : RecoveryTask(x) \in Task /\ RecoveryTask(x) # None
    BY FitsLemma
  <1>8. FINISH \in TaskState /\ ADDING_SFCI \in TaskState
    BY DEF TaskState
  <1>9. CASE GoTo(e, FINISH) /\ SendNothing
    <2>1. /\ orchQueue' \in Seq(Request) /\ UNCHANGED <<batch, inMediator, failedReqs>>
          /\ \A t : Kept(t)
      BY <1>9, NothingSent
    <2>2. PICK task \in Task : task = RecoveryTask(FINISH)
      BY <1>7, <1>8
    <2>3. taskDict' = [taskDict EXCEPT ![e[1]][e[2]] = task]
      BY <1>9, <2>2 DEF GoTo, updateRecoveryTask
    <2>4. InStep(i) => Fits(task, i)'
      <3>1. InStep(i) => Quiet(i[1])'
        BY <1>4, <2>1 DEF Kept
      <3> QED
        BY <1>4, <1>5, <1>6, <2>2, <3>1, FitsLemma
    <2> QED
      BY <1>1, <1>2, <1>4, <1>6, <2>1, <2>3, <2>4, GoToLemma
  <1> DEFINE tasks == {j \in SFCIs : j[1] = i[1] /\ hasRecoveryTask(taskDict, e[1], j)}
             reqs  == {request("ADD_SFCI", i[1], j) : j \in tasks}
             new   == RecoveryTask(ADDING_SFCI)
  <1>10. CASE /\ Send(SetToSeq(reqs))
              /\ taskDict' = [taskDict EXCEPT ![e[1]] = [j \in SFCIs |-> IF j \in tasks THEN new ELSE @[j]]]
    <2>1. /\ tasks \subseteq scenario.sfcis /\ tasks \subseteq SFCIs /\ i \in tasks
          /\ \A j \in tasks : j[1] = i[1]
      BY <1>3 DEF hasRecoveryTask
    <2>2. Alone(i) => tasks = {i}
      BY <2>1 DEF Alone
    <2>3. new \in Task /\ new # None
      BY <1>7, <1>8
    <2>4. reqs \subseteq Request /\ \A r \in reqs : r.sfc = i[1]
      BY <2>1, NewRequestLemma
    <2>5. IsFiniteSet(reqs)
      <3>1. IsFiniteSet(1..NumSFCs) /\ IsFiniteSet(1..SFCIsPerSFC)
        BY FS_Interval, RecoveryAssumption
      <3>2. IsFiniteSet(SFCIs)
        BY <3>1, FS_Product DEF SFCIs, SFCs
      <3>3. IsFiniteSet(tasks)
        BY <2>1, <3>2, FS_Subset
      <3> DEFINE f == [j \in tasks |-> request("ADD_SFCI", i[1], j)]
      <3> HIDE DEF tasks
      <3>4. f \in Surjection(tasks, reqs)
        BY DEF Surjection
      <3> HIDE DEF f, reqs
      <3> QED
        BY <3>3, <3>4, FS_Surjection
    <2> HIDE DEF tasks
    <2>6. Alone(i) => reqs = {request("ADD_SFCI", i[1], i)}
      BY <2>2
    <2> HIDE DEF reqs, new
    <2>7. PICK q : q = SetToSeq(reqs)
      OBVIOUS
    <2>8. q \in Seq(reqs)
      BY <2>5, <2>7, SetToSeqLemma
    <2>9. q \in Seq(Request) /\ \A n \in 1..Len(q) : q[n].sfc = i[1]
      <3>1. \A n \in 1..Len(q) : q[n] \in reqs
        BY <2>8
      <3>2. q \in Seq(Request)
        BY <2>4, <2>8
      <3> QED
        BY <2>4, <3>1, <3>2
    <2>10. /\ orchQueue' \in Seq(Request)
           /\ UNCHANGED <<batch, inMediator, failedReqs>>
           /\ \A t : t # i[1] => Kept(t)
      BY <1>10, <2>7, <2>9, SendLemma
    <2>11. ASSUME Alone(i), InStep(i)
           PROVE  Only(i[1], "ADD_SFCI")'
      <3>1. PICK r \in Request : r = request("ADD_SFCI", i[1], i) /\ r.sfc = i[1] /\ r.type = "ADD_SFCI"
        BY <1>3, NewRequestLemma
      <3>2. SetToSeq(reqs) = <<r>>
        BY <2>6, <2>11, <3>1, SetToSeqOne
      <3>3. Quiet(r.sfc) => Only(r.sfc, r.type)'
        BY <1>10, <3>2, SendOne
      <3> QED
        BY <1>4, <2>11, <3>1, <3>3
    <2>12. \A t \in TaskType, j \in SFCIs :
              taskDict'[t][j] = IF t = e[1] /\ j \in tasks THEN new ELSE taskDict[t][j]
      BY <1>3, <1>10
    <2>13. taskDict' \in [TaskType -> [SFCIs -> Task \cup {None}]]
      BY <1>3, <1>10, <2>3
    <2>14. /\ \A t \in TaskType, j \in SFCIs : taskDict'[t][j] # None => j \in scenario.sfcis
           /\ taskDict'[e[1]][i] = new
           /\ \A t \in TaskType, j \in SFCIs :
                 j[1] # i[1] \/ (j = i /\ t # e[1]) => taskDict'[t][j] = taskDict[t][j]
           /\ \A t \in TaskType, j \in SFCIs :
                 taskDict[t][j] # None /\ (t # e[1] \/ j # i) => taskDict'[t][j] # None
      BY <1>3, <2>1, <2>3, <2>12
    <2>15. RoundEffect(e, new)
      BY <1>1, <1>2, <1>3, <1>5, <2>10, <2>13, <2>14 DEF RoundEffect
    <2>16. Alone(i) /\ InStep(i) => Lands(i, new)
      <3> SUFFICES ASSUME Alone(i), InStep(i)
                   PROVE  Lands(i, new)
        OBVIOUS
      <3>1. /\ SFCIState(i)' = STATE_DELETED /\ SFCState(i[1])' = STATE_ACTIVE
            /\ Only(i[1], "ADD_SFCI")'
        BY <1>1, <1>2, <1>4, <1>5, <2>11
      <3>2. Fits(RecoveryTask(ADDING_SFCI), i)'
        BY <3>1, FitsLemma
      <3> QED
        BY <1>6, <2>3, <3>1, <3>2 DEF Lands, new
    <2> QED
      BY <1>2, <2>15, <2>16, RoundEffectLemma
  <1> QED
    BY <1>2, <1>9, <1>10 DEF SFCAdded

\* Every step of a round leaves all SFCIs in step.
LEMMA RoundStepLemma ==
    ASSUME TypeOK, RoundStep
    PROVE  Preserved
  <1>1. PICK e \in todo : \/ Waiting(e) \/ Ready(e) \/ DeletingSFCI(e) \/ Resting(e)
                          \/ SFCDeleted(e) \/ SFCAdded(e) \/ SFCNotYet(e)
                          \/ AddingSFCI(e) \/ Finished(e)
    BY DEF RoundStep
  <1> QED
    BY <1>1, WaitingLemma, ReadyLemma, DeletingSFCILemma, RestingLemma, SFCDeletedLemma,
       SFCAddedLemma, AddingSFCILemma, FinishedLemma
-----------------------------------------------------------------------------
(***************************************************************************)
(* The notices, the start of a round, and the passing of time.             *)
(***************************************************************************)
LEMMA TypesLemma ==
    ASSUME TypeOK, UNCHANGED scenario, db' \in DB(scenario.sfcis),
           taskDict' \in [TaskType -> [SFCIs -> Task \cup {None}]],
           \A type \in TaskType, j \in SFCIs : taskDict'[type][j] # None => j \in scenario.sfcis,
           todo' \subseteq TaskType \X scenario.sfcis \X TaskState,
           \A e \in todo' : taskDict'[e[1]][e[2]] # None,
           \A e, f \in todo' : e[1] = f[1] /\ e[2] = f[2] => e = f,
           orchQueue' \in Seq(Request), batch' \in Seq(Request),
           \A n \in 1..Len(batch') : batch'[n].type = "ADD_SFCI",
           Bag(inMediator'), Bag(failedReqs'),
           known' \in [SFCIs -> {"nothing", "equipment", "classifier"}],
           \A i \in SFCIs : known'[i] # "nothing" => i \in scenario.sfcis
    PROVE  TypeOK'
  <1>1. Request' = Request
    BY TablesLemma
  <1>2. Bag(inMediator)' /\ Bag(failedReqs)'
    BY <1>1 DEF Bag
  <1>3. scenario' \in Scenario
    BY DEF TypeOK
  <1>4. /\ db' \in [SFC : [SFCs -> SFCRow], SFCI : [SFCIs -> SFCIRow \cup {None}]]
        /\ \A i \in scenario'.sfcis : db'.SFCI[i] # None
        /\ \A s \in SFCs : db'.SFC[s].sfciIDList \subseteq scenario'.sfcis
    BY DEF DB
  <1> QED
    BY <1>1, <1>2, <1>3, <1>4 DEF TypeOK, hasRecoveryTask

\* What a step that changes neither the tables nor the requests leaves alone.
LEMMA NothingMoves ==
    ASSUME TypeOK, UNCHANGED <<db, scenario, orchVars>>
    PROVE  /\ db' \in DB(scenario.sfcis)
           /\ orchQueue' \in Seq(Request) /\ batch' \in Seq(Request)
           /\ \A n \in 1..Len(batch') : batch'[n].type = "ADD_SFCI"
           /\ Bag(inMediator') /\ Bag(failedReqs')
           /\ \A s : Kept(s)
           /\ \A i : SFCIState(i)' = SFCIState(i) /\ SFCState(i[1])' = SFCState(i[1])
  <1>1. \A s : Kept(s)
    BY DEF orchVars, Kept, Quiet, Only, AtMostOne, AllOfType
  <1>2. \A i : SFCIState(i)' = SFCIState(i) /\ SFCState(i[1])' = SFCState(i[1])
    BY SameTables
  <1>3. /\ orchQueue' = orchQueue /\ batch' = batch /\ inMediator' = inMediator
        /\ failedReqs' = failedReqs /\ db' = db
    BY DEF orchVars
  <1>4. db \in DB(scenario.sfcis)
    BY TablesLemma
  <1>5. /\ orchQueue \in Seq(Request) /\ batch \in Seq(Request)
        /\ \A n \in 1..Len(batch) : batch[n].type = "ADD_SFCI"
        /\ Bag(inMediator) /\ Bag(failedReqs)
    BY DEF TypeOK
  <1> QED
    BY <1>1, <1>2, <1>3, <1>4, <1>5

\* A notice makes new tasks only for SFCIs that are active, or whose task is of the other type
\* (handleDetectionDict).
LEMMA NoticeLemma ==
    ASSUME TypeOK, NEW notice \in [SFCIs -> {"nothing", "equipment", "classifier"}],
           \A i \in SFCIs : notice[i] # "nothing" => i \in scenario.sfcis,
           todo = {}, todo' = {}, taskDict' = handleDetectionDict(notice),
           known' \in {known, notice}, UNCHANGED <<db, scenario, orchVars>>
    PROVE  Preserved
  <1> DEFINE wanted   == {i \in Affected(notice) : i[1] \in AutoRecovery}
             repeated == {i \in wanted : hasRecoveryTask(taskDict, TypeFor(notice, i), i)}
             reached  == {i \in wanted : \A j \in repeated : Precedes(i, j)}
             new      == RecoveryTask(WAITING)
  <1>1. /\ taskDict \in [TaskType -> [SFCIs -> Task \cup {None}]]
        /\ \A type \in TaskType, j \in SFCIs : taskDict[type][j] # None => j \in scenario.sfcis
        /\ known \in [SFCIs -> {"nothing", "equipment", "classifier"}]
        /\ \A i \in SFCIs : known[i] # "nothing" => i \in scenario.sfcis
    BY DEF TypeOK, hasRecoveryTask
  <1>2. scenario.sfcis \in SUBSET SFCIs
    BY TablesLemma
  <1>3. new \in Task /\ new # None
    BY FitsLemma DEF TaskState
  <1>4. taskDict' = [type \in TaskType |-> [i \in SFCIs |->
            IF i \in reached /\ type = TypeFor(notice, i) THEN new ELSE taskDict[type][i]]]
    BY DEF handleDetectionDict
  <1>5. reached \subseteq SFCIs /\ \A i \in reached : i \in Affected(notice) /\ i \in scenario.sfcis
    BY DEF Affected
  <1> HIDE DEF reached, new
  <1>6. \A type \in TaskType, i \in SFCIs :
            taskDict'[type][i] = IF i \in reached /\ type = TypeFor(notice, i) THEN new ELSE taskDict[type][i]
    BY <1>4
  <1>7. taskDict' \in [TaskType -> [SFCIs -> Task \cup {None}]]
    BY <1>1, <1>3, <1>4
  <1>8. \A type \in TaskType, j \in SFCIs : taskDict'[type][j] # None => j \in scenario.sfcis
    BY <1>1, <1>5, <1>6
  <1>9. /\ db' \in DB(scenario.sfcis)
        /\ orchQueue' \in Seq(Request) /\ batch' \in Seq(Request)
        /\ \A n \in 1..Len(batch') : batch'[n].type = "ADD_SFCI"
        /\ Bag(inMediator') /\ Bag(failedReqs')
        /\ \A s : Kept(s)
        /\ \A i : SFCIState(i)' = SFCIState(i) /\ SFCState(i[1])' = SFCState(i[1])
    BY NothingMoves
  <1>10. TypeOK'
    BY <1>1, <1>7, <1>8, <1>9, TypesLemma
  <1>11. ASSUME NEW i \in scenario.sfcis, InStep(i)
         PROVE  InStep(i)'
    <2>1. i \in SFCIs
      BY <1>2
    <2>2. i \in reached => SFCIState(i) = STATE_ACTIVE
      <3> SUFFICES ASSUME i \in reached
                   PROVE  SFCIState(i) = STATE_ACTIVE
        OBVIOUS
      <3>1. \/ SFCIState(i) = STATE_ACTIVE
            \/ hasRecoveryTask(taskDict, TYPE_SFCI, i) /\ taskDict[TYPE_SFCI][i].state = FAILED
        BY <1>5 DEF Affected
      <3>2. ~(hasRecoveryTask(taskDict, TYPE_SFCI, i) /\ taskDict[TYPE_SFCI][i].state = FAILED)
        BY <1>11 DEF InStep, Fits, TaskType
      <3> QED
        BY <3>1, <3>2
    <2>3. ASSUME NEW type \in TaskType, hasRecoveryTask(taskDict, type, i)'
          PROVE  Fits(taskDict[type][i], i)'
      <3>1. PICK task : task = taskDict'[type][i]
        OBVIOUS
      <3>2. CASE task = new /\ i \in reached
        <4>1. Fits(RecoveryTask(WAITING), i)'
          BY <1>9, <2>2, <3>2, FitsLemma
        <4> QED
          BY <3>1, <3>2, <4>1 DEF new
      <3>3. CASE task = taskDict[type][i]
        <4>1. Fits(task, i)
          BY <1>11, <2>3, <3>1, <3>3 DEF InStep, hasRecoveryTask
        <4>2. Fits(task, i)'
          BY <1>9, <4>1, FitsStays
        <4> QED
          BY <3>1, <4>2
      <3> QED
        BY <1>6, <2>1, <3>1, <3>2, <3>3
    <2>4. (\A type \in TaskType : hasRecoveryTask(taskDict, type, i)') => SFCIState(i)' = STATE_ACTIVE /\ todo' = {}
      <3>1. CASE i \in reached
        BY <1>9, <2>2, <3>1
      <3>2. CASE i \notin reached
        BY <1>6, <1>9, <1>11, <2>1, <3>2 DEF InStep, hasRecoveryTask
      <3> QED
        BY <3>1, <3>2
    <2>5. (\A type \in TaskType : ~hasRecoveryTask(taskDict, type, i)') =>
            SFCIState(i)' \in Absent \cup {STATE_ACTIVE} /\ Quiet(i[1])'
      <3> SUFFICES ASSUME \A type \in TaskType : ~hasRecoveryTask(taskDict, type, i)'
                   PROVE  SFCIState(i)' \in Absent \cup {STATE_ACTIVE} /\ Quiet(i[1])'
        OBVIOUS
      <3>1. \A type \in TaskType : ~hasRecoveryTask(taskDict, type, i)
        BY <1>3, <1>6, <2>1 DEF hasRecoveryTask
      <3> QED
        BY <1>9, <1>11, <3>1 DEF InStep, Kept
    <2>6. SFCIState(i)' = STATE_ACTIVE => SFCState(i[1])' \in {STATE_ACTIVE, STATE_RECOVER_MODE} /\ Quiet(i[1])'
      BY <1>9, <1>11 DEF InStep, Kept
    <2> QED
      BY <2>3, <2>4, <2>5, <2>6 DEF InStep
  <1> QED
    BY <1>10, <1>11 DEF Preserved

\* Clearing tasks at the start of a round leaves all SFCIs in step (clearRedundantTasks,
\* clearTimeOutTasks).
LEMMA StartRoundLemma ==
    ASSUME TypeOK, StartRound
    PROVE  Preserved
  <1> DEFINE old   == clearTimeOutTasks(taskDict)
             tasks == clearRedundantTasks(old)
             redundant == {i \in SFCIs : /\ hasRecoveryTask(old, TYPE_SFCI, i)
                                         /\ \E j \in SFCIs : j[1] = i[1] /\ hasRecoveryTask(old, TYPE_SFC, j)}
  <1>1. /\ taskDict \in [TaskType -> [SFCIs -> Task \cup {None}]]
        /\ \A type \in TaskType, j \in SFCIs : taskDict[type][j] # None => j \in scenario.sfcis
        /\ known \in [SFCIs -> {"nothing", "equipment", "classifier"}]
        /\ \A i \in SFCIs : known[i] # "nothing" => i \in scenario.sfcis
    BY DEF TypeOK, hasRecoveryTask
  <1>2. scenario.sfcis \in SUBSET SFCIs
    BY TablesLemma
  <1>3. /\ todo = {} /\ taskDict' = tasks
        /\ todo' = {<<e[1], e[2], tasks[e[1]][e[2]].state>> :
                        e \in {f \in TaskType \X SFCIs : hasRecoveryTask(tasks, f[1], f[2])}}
        /\ UNCHANGED <<db, known, scenario, orchVars>>
    BY DEF StartRound, tableVars, pathVars
  <1>4. /\ old \in [TaskType -> [SFCIs -> Task \cup {None}]]
        /\ \A type \in TaskType, i \in SFCIs :
              /\ old[type][i] # None <=> taskDict[type][i] # None
              /\ taskDict[type][i] # None /\ ~taskDict[type][i].old => old[type][i] = taskDict[type][i]
    <2>1. ASSUME NEW type \in TaskType, NEW i \in SFCIs
          PROVE  /\ old[type][i] \in Task \cup {None}
                 /\ old[type][i] # None <=> taskDict[type][i] # None
                 /\ taskDict[type][i] # None /\ ~taskDict[type][i].old => old[type][i] = taskDict[type][i]
      <3>1. old[type][i] = IF taskDict[type][i] # None /\ taskDict[type][i].old
                           THEN [taskDict[type][i] EXCEPT !.state = FAILED] ELSE taskDict[type][i]
        BY DEF clearTimeOutTasks, hasRecoveryTask
      <3>2. PICK task : task = taskDict[type][i]
        OBVIOUS
      <3>3. task # None => task \in Task /\ [task EXCEPT !.state = FAILED] \in Task
        BY <1>1, <3>2 DEF Task, TaskState
      <3> QED
        BY <3>1, <3>2, <3>3, NoneAssumption
    <2>2. old = [type \in TaskType |-> [i \in SFCIs |-> old[type][i]]]
      BY DEF clearTimeOutTasks
    <2> HIDE DEF old
    <2> QED
      BY <2>1, <2>2
  <1>5. TYPE_SFC # TYPE_SFCI /\ TaskType = {TYPE_SFC, TYPE_SFCI}
    BY DEF TaskType, TYPE_SFC, TYPE_SFCI
  <1> HIDE DEF old
  <1>6. /\ tasks = [type \in TaskType |-> [i \in SFCIs |-> tasks[type][i]]]
        /\ \A i \in SFCIs :
              /\ i \in redundant =>
                    /\ tasks[TYPE_SFCI][i] = None
                    /\ tasks[TYPE_SFC][i] = [old[TYPE_SFCI][i] EXCEPT !.state = MigratedState(i), !.old = FALSE]
              /\ i \notin redundant => \A type \in TaskType : tasks[type][i] = old[type][i]
    <2> DEFINE new(type, i) ==
            CASE i \notin redundant -> old[type][i]
              [] i \in redundant /\ type = TYPE_SFCI -> None
              [] i \in redundant /\ type = TYPE_SFC  ->
                    [old[TYPE_SFCI][i] EXCEPT !.state = MigratedState(i), !.old = FALSE]
    <2>1. tasks = [type \in TaskType |-> [i \in SFCIs |-> new(type, i)]]
      BY DEF clearRedundantTasks
    <2> HIDE DEF tasks, redundant, new
    <2>3. \A type \in TaskType, i \in SFCIs : tasks[type][i] = new(type, i)
      BY <2>1
    <2>2. tasks = [type \in TaskType |-> [i \in SFCIs |-> tasks[type][i]]]
      BY <2>1, <2>3
    <2>4. ASSUME NEW i \in SFCIs, i \in redundant
          PROVE  /\ tasks[TYPE_SFCI][i] = None
                 /\ tasks[TYPE_SFC][i] = [old[TYPE_SFCI][i] EXCEPT !.state = MigratedState(i), !.old = FALSE]
      <3>1. TYPE_SFC \in TaskType /\ TYPE_SFCI \in TaskType
        BY <1>5
      <3>2. tasks[TYPE_SFCI][i] = None
        BY <1>5, <2>3, <2>4, <3>1 DEF new
      <3>3. tasks[TYPE_SFC][i] = [old[TYPE_SFCI][i] EXCEPT !.state = MigratedState(i), !.old = FALSE]
        BY <1>5, <2>3, <2>4, <3>1 DEF new
      <3> QED
        BY <3>2, <3>3
    <2>5. ASSUME NEW i \in SFCIs, i \notin redundant, NEW type \in TaskType
          PROVE  tasks[type][i] = old[type][i]
      BY <2>3, <2>5 DEF new
    <2> QED
      BY <2>2, <2>4, <2>5
  <1>7. redundant \subseteq SFCIs /\ \A i \in redundant : old[TYPE_SFCI][i] # None
    BY DEF hasRecoveryTask
  <1>8. \A i \in SFCIs : MigratedState(i) \in TaskState
    BY DEF MigratedState, TaskState
  <1>9. ASSUME NEW i \in redundant
        PROVE  LET task == [old[TYPE_SFCI][i] EXCEPT !.state = MigratedState(i), !.old = FALSE]
               IN  task \in Task /\ task.state = MigratedState(i) /\ ~task.old /\ task # None
    <2>1. PICK task : task = old[TYPE_SFCI][i]
      OBVIOUS
    <2>2. task \in Task
      BY <1>4, <1>5, <1>7, <2>1
    <2>3. PICK x \in TaskState : x = MigratedState(i)
      BY <1>7, <1>8
    <2>4. /\ [task EXCEPT !.state = x, !.old = FALSE] \in Task
          /\ [task EXCEPT !.state = x, !.old = FALSE].state = x
          /\ ~[task EXCEPT !.state = x, !.old = FALSE].old
      BY <2>2 DEF Task
    <2> QED
      BY <2>1, <2>3, <2>4, NoneAssumption
  <1> HIDE DEF tasks, redundant
  <1>10. ASSUME NEW type \in TaskType, NEW i \in SFCIs
         PROVE  tasks[type][i] \in Task \cup {None}
    <2>1. CASE i \notin redundant
      <3>1. tasks[type][i] = old[type][i]
        BY <1>6, <2>1
      <3> QED
        BY <1>4, <3>1
    <2>2. CASE i \in redundant
      <3>1. [old[TYPE_SFCI][i] EXCEPT !.state = MigratedState(i), !.old = FALSE] \in Task
        BY <1>9, <2>2
      <3>2. tasks[TYPE_SFC][i] \in Task /\ tasks[TYPE_SFCI][i] = None
        BY <1>6, <2>2, <3>1
      <3> QED
        BY <1>5, <3>2
    <2> QED
      BY <2>1, <2>2
  <1>11. tasks \in [TaskType -> [SFCIs -> Task \cup {None}]]
    BY <1>6, <1>10
  <1>12. \A type \in TaskType, j \in SFCIs : tasks[type][j] # None => j \in scenario.sfcis
    BY <1>1, <1>4, <1>5, <1>6, <1>7
  <1>13. /\ todo' \subseteq TaskType \X scenario.sfcis \X TaskState
         /\ \A e \in todo' : /\ e[1] \in TaskType /\ e[2] \in SFCIs
                             /\ tasks[e[1]][e[2]] # None
                             /\ e[3] = tasks[e[1]][e[2]].state
                             /\ e = <<e[1], e[2], tasks[e[1]][e[2]].state>>
    <2> SUFFICES ASSUME NEW e \in todo'
                 PROVE  /\ e \in TaskType \X scenario.sfcis \X TaskState
                        /\ e[1] \in TaskType /\ e[2] \in SFCIs
                        /\ tasks[e[1]][e[2]] # None
                        /\ e[3] = tasks[e[1]][e[2]].state
                        /\ e = <<e[1], e[2], tasks[e[1]][e[2]].state>>
      OBVIOUS
    <2>1. PICK f \in TaskType \X SFCIs : tasks[f[1]][f[2]] # None /\ e = <<f[1], f[2], tasks[f[1]][f[2]].state>>
      BY <1>3 DEF hasRecoveryTask
    <2>2. f[1] \in TaskType /\ f[2] \in SFCIs
      OBVIOUS
    <2>3. f[2] \in scenario.sfcis /\ tasks[f[1]][f[2]].state \in TaskState
      <3>1. tasks[f[1]][f[2]] \in Task
        BY <1>10, <2>1, <2>2
      <3> QED
        BY <1>12, <2>1, <2>2, <3>1 DEF Task
    <2>4. e[1] = f[1] /\ e[2] = f[2] /\ e[3] = tasks[f[1]][f[2]].state
      BY <2>1
    <2> QED
      BY <2>1, <2>2, <2>3, <2>4
  <1>14. \A e, f \in todo' : e[1] = f[1] /\ e[2] = f[2] => e = f
    BY <1>13
  <1>15. /\ db' \in DB(scenario.sfcis)
         /\ orchQueue' \in Seq(Request) /\ batch' \in Seq(Request)
         /\ \A n \in 1..Len(batch') : batch'[n].type = "ADD_SFCI"
         /\ Bag(inMediator') /\ Bag(failedReqs')
         /\ \A s : Kept(s)
         /\ \A i : SFCIState(i)' = SFCIState(i) /\ SFCState(i[1])' = SFCState(i[1])
    BY <1>3, NothingMoves
  <1>16. TypeOK'
    BY <1>1, <1>3, <1>11, <1>12, <1>13, <1>14, <1>15, TypesLemma
  <1>17. ASSUME NEW i \in scenario.sfcis, Alone(i), InStep(i)
         PROVE  InStep(i)'
    <2>1. i \in SFCIs
      BY <1>2
    <2>2. \A type \in TaskType : old[type][i] = taskDict[type][i]
      <3> SUFFICES ASSUME NEW type \in TaskType
                   PROVE  old[type][i] = taskDict[type][i]
        OBVIOUS
      <3>1. taskDict[type][i] # None => ~taskDict[type][i].old
        BY <1>17 DEF InStep, Fits, hasRecoveryTask
      <3> QED
        BY <1>4, <2>1, <3>1
    <2>3. i \in redundant <=> taskDict[TYPE_SFC][i] # None /\ taskDict[TYPE_SFCI][i] # None
      <3>1. i \in redundant <=> /\ old[TYPE_SFCI][i] # None
                                /\ \E j \in SFCIs : j[1] = i[1] /\ old[TYPE_SFC][j] # None
        BY <2>1 DEF redundant, hasRecoveryTask
      <3>2. \A j \in SFCIs : j[1] = i[1] /\ old[TYPE_SFC][j] # None => j = i
        BY <1>1, <1>4, <1>5, <1>17 DEF Alone
      <3> QED
        BY <1>5, <2>1, <2>2, <3>1, <3>2
    <2>4. /\ \A type \in TaskType : tasks[type][i] # None => Fits(taskDict[type][i], i)'
          /\ \E type \in TaskType : tasks[type][i] = None
          /\ (\A type \in TaskType : tasks[type][i] = None) => \A type \in TaskType : taskDict[type][i] = None
      <3>1. CASE i \in redundant
        <4>1. SFCIState(i) = STATE_ACTIVE
          BY <1>5, <1>17, <2>3, <3>1 DEF InStep, hasRecoveryTask
        <4>2. PICK task : task = tasks[TYPE_SFC][i]
          OBVIOUS
        <4>3. task.state = WAITING /\ ~task.old /\ task # None /\ tasks[TYPE_SFCI][i] = None
          <5>1. MigratedState(i) = WAITING
            BY <4>1 DEF MigratedState, STATE_ACTIVE, STATE_INACTIVE, STATE_UNDELETED
          <5>2. /\ task = [old[TYPE_SFCI][i] EXCEPT !.state = MigratedState(i), !.old = FALSE]
                /\ tasks[TYPE_SFCI][i] = None
            BY <1>6, <2>1, <3>1, <4>2
          <5>3. /\ [old[TYPE_SFCI][i] EXCEPT !.state = MigratedState(i), !.old = FALSE].state = MigratedState(i)
                /\ ~[old[TYPE_SFCI][i] EXCEPT !.state = MigratedState(i), !.old = FALSE].old
                /\ [old[TYPE_SFCI][i] EXCEPT !.state = MigratedState(i), !.old = FALSE] # None
            BY <1>9, <3>1
          <5> QED
            BY <5>1, <5>2, <5>3
        <4>4. Fits(task, i)'
          BY <1>15, <4>1, <4>3 DEF Fits, READY, DELETING_SFCI, WAITING_TO_DELETE_SFC, DELETING_SFC, ADDING_SFCI,
                WAITING, FAILED, FINISH
        <4>5. task = taskDict'[TYPE_SFC][i]
          BY <1>3, <4>2
        <4> QED
          BY <1>5, <4>2, <4>3, <4>4, <4>5
      <3>2. CASE i \notin redundant
        <4>1. \A type \in TaskType : tasks[type][i] = taskDict[type][i]
          BY <1>5, <1>6, <2>1, <2>2, <3>2
        <4>2. \E type \in TaskType : taskDict[type][i] = None
          BY <1>5, <2>3, <3>2
        <4>3. ASSUME NEW type \in TaskType, taskDict[type][i] # None
              PROVE  Fits(taskDict[type][i], i)'
          <5>1. PICK task : task = taskDict[type][i]
            OBVIOUS
          <5>2. Fits(task, i)
            BY <1>17, <4>3, <5>1 DEF InStep, hasRecoveryTask
          <5>3. Fits(task, i)'
            BY <1>15, <5>2, FitsStays
          <5>4. task = taskDict'[type][i]
            BY <1>3, <4>1, <5>1
          <5> QED
            BY <5>3, <5>4
        <4> QED
          BY <4>1, <4>2, <4>3
      <3> QED
        BY <3>1, <3>2
    <2>5. (\A type \in TaskType : ~hasRecoveryTask(taskDict, type, i)') =>
            SFCIState(i)' \in Absent \cup {STATE_ACTIVE} /\ Quiet(i[1])'
      BY <1>3, <1>15, <1>17, <2>4 DEF InStep, Kept, hasRecoveryTask
    <2>6. SFCIState(i)' = STATE_ACTIVE => SFCState(i[1])' \in {STATE_ACTIVE, STATE_RECOVER_MODE} /\ Quiet(i[1])'
      BY <1>15, <1>17 DEF InStep, Kept
    <2>7. \A type \in TaskType : hasRecoveryTask(taskDict, type, i)' => Fits(taskDict[type][i], i)'
      BY <1>3, <2>4 DEF hasRecoveryTask
    <2>8. \E type \in TaskType : ~hasRecoveryTask(taskDict, type, i)'
      BY <1>3, <2>4 DEF hasRecoveryTask
    <2>9. \A e \in todo' : e[2] = i => hasRecoveryTask(taskDict, e[1], i)' /\ taskDict'[e[1]][i].state = e[3]
      BY <1>3, <1>13 DEF hasRecoveryTask
    <2> QED
      BY <2>5, <2>6, <2>7, <2>8, <2>9 DEF InStep
  <1> QED
    BY <1>16, <1>17 DEF Preserved

\* A step that changes nothing leaves all SFCIs in step.
LEMMA NothingHappens ==
    ASSUME TypeOK, UNCHANGED <<db, taskDict, todo, known, scenario, orchVars>>
    PROVE  Preserved
  <1>1. /\ db' \in DB(scenario.sfcis)
        /\ orchQueue' \in Seq(Request) /\ batch' \in Seq(Request)
        /\ \A n \in 1..Len(batch') : batch'[n].type = "ADD_SFCI"
        /\ Bag(inMediator') /\ Bag(failedReqs')
        /\ \A s : Kept(s)
        /\ \A i : SFCIState(i)' = SFCIState(i) /\ SFCState(i[1])' = SFCState(i[1])
    BY NothingMoves
  <1>2. /\ taskDict' = taskDict /\ todo' = todo /\ known' = known
        /\ \A e \in todo : e[1] \in TaskType
    BY DEF TypeOK
  <1>3. TypeOK'
    <2>1. /\ taskDict \in [TaskType -> [SFCIs -> Task \cup {None}]]
          /\ \A type \in TaskType, j \in SFCIs : taskDict[type][j] # None => j \in scenario.sfcis
          /\ todo \subseteq TaskType \X scenario.sfcis \X TaskState
          /\ \A e \in todo : taskDict[e[1]][e[2]] # None
          /\ \A e, f \in todo : e[1] = f[1] /\ e[2] = f[2] => e = f
          /\ known \in [SFCIs -> {"nothing", "equipment", "classifier"}]
          /\ \A i \in SFCIs : known[i] # "nothing" => i \in scenario.sfcis
      BY DEF TypeOK, hasRecoveryTask
    <2> QED
      BY <1>1, <1>2, <2>1, TypesLemma
  <1>4. ASSUME NEW i \in scenario.sfcis, InStep(i)
        PROVE  InStep(i)'
    BY <1>1, <1>2, <1>4, UntouchedLemma
  <1> QED
    BY <1>3, <1>4 DEF Preserved

\* A step of a request leaves all SFCIs in step.
LEMMA OnTheWayLemma ==
    ASSUME TypeOK, NEW r \in Request, PathStep(r), UNCHANGED <<taskDict, todo, scenario>>,
           \A n \in 1..Len(batch') : batch'[n].type = "ADD_SFCI",
           known' \in [SFCIs -> {"nothing", "equipment", "classifier"}],
           \A i \in SFCIs : known'[i] # "nothing" => i \in scenario.sfcis
    PROVE  Preserved
  <1>1. /\ taskDict \in [TaskType -> [SFCIs -> Task \cup {None}]]
        /\ \A type \in TaskType, j \in SFCIs : taskDict[type][j] # None => j \in scenario.sfcis
        /\ todo \subseteq TaskType \X scenario.sfcis \X TaskState
        /\ \A e \in todo : taskDict[e[1]][e[2]] # None
        /\ \A e, f \in todo : e[1] = f[1] /\ e[2] = f[2] => e = f
    BY DEF TypeOK, hasRecoveryTask
  <1>2. TypeOK'
    BY <1>1, TypesLemma DEF PathStep
  <1>3. ASSUME NEW i \in scenario.sfcis, Alone(i), InStep(i)
        PROVE  InStep(i)'
    BY <1>3, PathStepLemma
  <1> QED
    BY <1>2, <1>3 DEF Preserved

\* A new path crosses some kind of equipment, or none (Crossed).
LEMMA NewPathLemma ==
    ASSUME TypeOK, AddSFCIStep
    PROVE  /\ known' \in [SFCIs -> {"nothing", "equipment", "classifier"}]
           /\ \A i \in SFCIs : known'[i] # "nothing" => i \in scenario.sfcis
  <1>1. /\ batch \in Seq(Request) /\ \A n \in 1..Len(batch) : batch[n].type = "ADD_SFCI"
        /\ known \in [SFCIs -> {"nothing", "equipment", "classifier"}]
        /\ \A i \in SFCIs : known[i] # "nothing" => i \in scenario.sfcis
    BY DEF TypeOK
  <1>2. batch # <<>>
    BY DEF AddSFCIStep, PathFound, NoPathFound
  <1>3. PICK r \in Request : r = Head(batch) /\ r.type = "ADD_SFCI"
    <2>1. Head(batch) \in Request /\ Head(batch) = batch[1] /\ 1 \in 1..Len(batch)
      BY <1>1, <1>2
    <2> QED
      BY <1>1, <2>1
  <1>4. r.sfci \in scenario.sfcis /\ r.sfci \in SFCIs
    BY <1>3, RequestLemma
  <1>5. Crossed(r.sfci) \subseteq {"nothing", "equipment", "classifier"}
    BY DEF Crossed
  <1>6. \/ known' = known
        \/ \E crossed \in Crossed(r.sfci) : known' = [known EXCEPT ![r.sfci] = crossed]
    BY <1>3 DEF AddSFCIStep, NewPath
  <1> QED
    BY <1>1, <1>4, <1>5, <1>6

\* The steps of the orchestrator leave all SFCIs in step.
LEMMA PathLemma ==
    ASSUME TypeOK, \/ RequestStep \/ AddSFCIStep \/ OnTheWay(RetryFailureRequest) \/ OnTheWay(Lose)
    PROVE  Preserved
  <1>1. UNCHANGED <<taskDict, todo, scenario>>
    BY DEF RequestStep, AddSFCIStep, OnTheWay, tableVars, pathVars
  <1>2. \E r \in Request : PathStep(r)
    BY TakeRequestLemma, BatchStepLemma, RetryLemma, LoseLemma DEF OnTheWay, RequestStep, AddSFCIStep
  <1>3. /\ batch \in Seq(Request) /\ \A n \in 1..Len(batch) : batch[n].type = "ADD_SFCI"
        /\ known' \in [SFCIs -> {"nothing", "equipment", "classifier"}]
        /\ \A i \in SFCIs : known'[i] # "nothing" => i \in scenario.sfcis
    <2>1. CASE AddSFCIStep
      BY <2>1, NewPathLemma DEF TypeOK
    <2>2. CASE known' = known
      BY <2>2 DEF TypeOK
    <2> QED
      BY <2>1, <2>2 DEF RequestStep, OnTheWay, tableVars, pathVars
  <1>4. \/ batch' = batch
        \/ batch # <<>> /\ batch' = Tail(batch)
        \/ /\ orchQueue # <<>> /\ Head(orchQueue).type = "ADD_SFCI"
           /\ batch' = Append(batch, Head(orchQueue))
    BY DEF OnTheWay, RequestStep, AddSFCIStep, TakeRequest, PathFound, NoPathFound, RetryFailureRequest, Lose
  <1>5. \A n \in 1..Len(batch') : batch'[n].type = "ADD_SFCI"
    <2>1. CASE batch' = batch
      BY <1>3, <2>1
    <2>2. CASE batch # <<>> /\ batch' = Tail(batch)
      <3>1. /\ Len(batch) \in Nat /\ Len(batch') = Len(batch) - 1
            /\ \A n \in 1..(Len(batch) - 1) : batch'[n] = batch[n + 1]
        BY <1>3, <2>2
      <3>2. \A n \in 1..(Len(batch) - 1) : n + 1 \in 1..Len(batch)
        BY <3>1
      <3> QED
        BY <1>3, <3>1, <3>2
    <2>3. CASE orchQueue # <<>> /\ Head(orchQueue).type = "ADD_SFCI" /\ batch' = Append(batch, Head(orchQueue))
      <3>1. Head(orchQueue) \in Request
        BY <2>3 DEF TypeOK
      <3>2. PICK r \in Request : r = Head(orchQueue)
        BY <3>1
      <3>3. /\ Len(batch) \in Nat /\ Len(batch') = Len(batch) + 1
            /\ \A n \in 1..Len(batch) : batch'[n] = batch[n]
            /\ batch'[Len(batch) + 1] = r
        BY <1>3, <2>3, <3>2
      <3>4. \A n \in 1..(Len(batch) + 1) : n \in 1..Len(batch) \/ n = Len(batch) + 1
        BY <3>3
      <3> QED
        BY <1>3, <2>3, <3>2, <3>3, <3>4
    <2> QED
      BY <1>4, <2>1, <2>2, <2>3
  <1> QED
    BY <1>1, <1>2, <1>3, <1>5, OnTheWayLemma

\* So do the replies of the mediator.
LEMMA RepliesLemma ==
    ASSUME TypeOK, OnTheWay(Replies)
    PROVE  Preserved
  <1>1. PICK r \in DOMAIN inMediator, cmdState \in CmdStates : Reply(r, cmdState)
    BY DEF OnTheWay, Replies, BagToSet
  <1>2. r \in Request /\ PathStep(r)
    BY <1>1, ReplyLemma
  <1>3. UNCHANGED <<taskDict, todo, known, scenario>> /\ batch' = batch
    BY <1>1 DEF OnTheWay, tableVars, pathVars, Reply
  <1>4. /\ \A n \in 1..Len(batch) : batch[n].type = "ADD_SFCI"
        /\ known \in [SFCIs -> {"nothing", "equipment", "classifier"}]
        /\ \A i \in SFCIs : known[i] # "nothing" => i \in scenario.sfcis
    BY DEF TypeOK
  <1> QED
    BY <1>2, <1>3, <1>4, OnTheWayLemma

\* A task that gets older keeps its type.
LEMMA TimePassesLemma ==
    ASSUME TypeOK, NEW type \in TaskType, NEW i \in SFCIs, TimePasses(type, i)
    PROVE  TypeOK'
  <1>1. /\ db' \in DB(scenario.sfcis)
        /\ orchQueue' \in Seq(Request) /\ batch' \in Seq(Request)
        /\ \A n \in 1..Len(batch') : batch'[n].type = "ADD_SFCI"
        /\ Bag(inMediator') /\ Bag(failedReqs')
    BY NothingMoves DEF TimePasses, tableVars, pathVars
  <1>2. /\ taskDict \in [TaskType -> [SFCIs -> Task \cup {None}]]
        /\ todo \subseteq TaskType \X scenario.sfcis \X TaskState
        /\ \A e \in todo : taskDict[e[1]][e[2]] # None
        /\ \A e, f \in todo : e[1] = f[1] /\ e[2] = f[2] => e = f
        /\ known \in [SFCIs -> {"nothing", "equipment", "classifier"}]
        /\ \A j \in SFCIs : known[j] # "nothing" => j \in scenario.sfcis
    BY DEF TypeOK, hasRecoveryTask
  <1>3. PICK old \in Task : old = taskDict[type][i]
    BY <1>2 DEF TimePasses, hasRecoveryTask
  <1>4. PICK task \in Task : task = [old EXCEPT !.old = TRUE]
    BY <1>3 DEF Task
  <1>5. taskDict' = [taskDict EXCEPT ![type][i] = task]
    BY <1>2, <1>3, <1>4 DEF TimePasses
  <1>6. i \in scenario.sfcis
    BY DEF TimePasses, TypeOK
  <1>7. /\ taskDict' \in [TaskType -> [SFCIs -> Task \cup {None}]]
        /\ \A t \in TaskType, j \in SFCIs : taskDict'[t][j] # None => j \in scenario.sfcis
        /\ taskDict'[type][i] = task
        /\ \A t \in TaskType, j \in SFCIs : j # i \/ t # type => taskDict'[t][j] = taskDict[t][j]
    BY <1>5, <1>6, TaskLemma
  <1>8. UNCHANGED <<todo, known, scenario>>
    BY DEF TimePasses, tableVars, pathVars
  <1>9. \A e \in todo' : taskDict'[e[1]][e[2]] # None
    <2> SUFFICES ASSUME NEW e \in todo
                 PROVE  taskDict'[e[1]][e[2]] # None
      BY <1>8
    <2>1. e[1] \in TaskType /\ e[2] \in SFCIs
      BY EntryLemma
    <2> QED
      BY <1>2, <1>7, <2>1, NoneAssumption
  <1> QED
    BY <1>1, <1>2, <1>7, <1>8, <1>9, TypesLemma
-----------------------------------------------------------------------------
(***************************************************************************)
(* The theorems.                                                           *)
(***************************************************************************)
LEMMA InitLemma ==
    ASSUME Init
    PROVE  IInv
  <1>1. /\ scenario \in Scenario /\ scenario.sfcis \in SUBSET SFCIs
        /\ taskDict = [type \in TaskType |-> [i \in SFCIs |-> None]]
        /\ todo = {} /\ known = [i \in SFCIs |-> "nothing"]
        /\ orchQueue = <<>> /\ batch = <<>> /\ inMediator = EmptyBag /\ failedReqs = EmptyBag
    BY RecoveryAssumption DEF Init, Scenario, NoRequests
  <1>2. PICK rowsOfSFC, rowsOfSFCI :
           /\ rowsOfSFC = [s \in SFCs |-> [state      |-> STATE_ACTIVE,
                                           sfciIDList |-> {i \in scenario.sfcis : i[1] = s}]]
           /\ rowsOfSFCI = [i \in SFCIs |-> IF i \in scenario.sfcis THEN [state |-> STATE_ACTIVE] ELSE None]
           /\ db = [SFC |-> rowsOfSFC, SFCI |-> rowsOfSFCI]
    BY DEF Init
  <1>3. STATE_ACTIVE \in ResourceState
    BY DEF ResourceState
  <1>4. [state |-> STATE_ACTIVE] \in SFCIRow /\ [state |-> STATE_ACTIVE] # None
    BY <1>3, NoneAssumption DEF SFCIRow
  <1>5. rowsOfSFC \in [SFCs -> SFCRow] /\ \A s \in SFCs : /\ rowsOfSFC[s].state = STATE_ACTIVE
                                                          /\ rowsOfSFC[s].sfciIDList \subseteq scenario.sfcis
    <2>1. \A s \in SFCs : /\ {i \in scenario.sfcis : i[1] = s} \subseteq SFCIs
                          /\ {i \in scenario.sfcis : i[1] = s} \subseteq scenario.sfcis
      BY <1>1
    <2> QED
      BY <1>2, <1>3, <2>1 DEF SFCRow
  <1>6. /\ rowsOfSFCI \in [SFCIs -> SFCIRow \cup {None}]
        /\ \A i \in scenario.sfcis : rowsOfSFCI[i] # None /\ rowsOfSFCI[i].state = STATE_ACTIVE
    BY <1>1, <1>2, <1>4
  <1>7. /\ db \in [SFC : [SFCs -> SFCRow], SFCI : [SFCIs -> SFCIRow \cup {None}]]
        /\ \A i \in scenario.sfcis : db.SFCI[i] # None
        /\ \A s \in SFCs : db.SFC[s].sfciIDList \subseteq scenario.sfcis
    BY <1>2, <1>5, <1>6
  <1>8. /\ taskDict \in [TaskType -> [SFCIs -> Task \cup {None}]]
        /\ \A type \in TaskType, i \in SFCIs : ~hasRecoveryTask(taskDict, type, i)
    BY <1>1 DEF hasRecoveryTask
  <1>9. DOMAIN EmptyBag = {} /\ Bag(EmptyBag)
    BY DEF EmptyBag, SetToBag, Bag
  <1>10. Len(<<>>) = 0 /\ 1..0 = {}
    OBVIOUS
  <1>11. \A n \in 1..Len(batch) : batch[n].type = "ADD_SFCI"
    BY <1>1, <1>10
  <1>12. TypeOK
    BY <1>1, <1>7, <1>8, <1>9, <1>11 DEF TypeOK
  <1>13. \A s : Quiet(s)
    BY <1>1, <1>9, <1>10 DEF Quiet, NoneIn, NoneOf
  <1>14. ASSUME NEW i \in scenario.sfcis
         PROVE  InStep(i)
    <2>1. i \in SFCIs /\ i[1] \in SFCs
      BY <1>12, TablesLemma
    <2>2. SFCIState(i) = STATE_ACTIVE /\ SFCState(i[1]) = STATE_ACTIVE
      BY <1>2, <1>5, <1>6, <2>1 DEF SFCIState, SFCState, hasSFCI
    <2>3. TaskType # {}
      BY DEF TaskType
    <2> QED
      BY <1>1, <1>8, <1>13, <2>1, <2>2, <2>3 DEF InStep
  <1> QED
    BY <1>12, <1>14 DEF IInv

\* Every step preserves the invariant.
LEMMA NextLemma ==
    ASSUME IInv, [Next]_vars
    PROVE  IInv'
  <1>1. TypeOK
    BY DEF IInv
  <1>2. UNCHANGED scenario
    BY DEF Next, vars, tableVars, FailureAbnormalHandler, ProcessAllDetectionNotice, ResumeHandler,
       TimePasses, StartRound, RoundStep, Waiting, Ready, DeletingSFCI, Resting, SFCDeleted, SFCAdded,
       SFCNotYet, AddingSFCI, Finished, Turn, OnTheWay, RequestStep, AddSFCIStep
  <1>3. Preserved => IInv'
    BY <1>2 DEF IInv, Preserved, Alone
  <1>4. ASSUME NEW notice \in Notices, FailureAbnormalHandler(notice)
        PROVE  Preserved
    <2>1. notice \in [SFCIs -> {"nothing", "equipment", "classifier"}]
      BY DEF Notices
    <2>2. \A i \in SFCIs : notice[i] # "nothing" => i \in scenario.sfcis
      BY DEF Notices
    <2> QED
      BY <1>1, <1>4, <2>1, <2>2, NoticeLemma DEF FailureAbnormalHandler
  <1>5. CASE ProcessAllDetectionNotice
    <2>1. /\ known \in [SFCIs -> {"nothing", "equipment", "classifier"}]
          /\ \A i \in SFCIs : known[i] # "nothing" => i \in scenario.sfcis
      BY <1>1 DEF TypeOK
    <2> QED
      BY <1>1, <1>3, <1>5, <2>1, NoticeLemma DEF ProcessAllDetectionNotice, tableVars, pathVars
  <1>6. CASE ResumeHandler
    BY <1>1, <1>3, <1>6, NothingHappens DEF ResumeHandler
  <1>7. ASSUME NEW type \in TaskType, NEW i \in SFCIs, TimePasses(type, i)
        PROVE  IInv'
    <2>1. TypeOK'
      BY <1>1, <1>7, TimePassesLemma
    <2>2. scenario'.timeMayPass
      BY <1>2, <1>7 DEF TimePasses
    <2> QED
      BY <2>1, <2>2 DEF IInv
  <1>8. CASE StartRound
    BY <1>1, <1>3, <1>8, StartRoundLemma
  <1>9. CASE RoundStep
    BY <1>1, <1>3, <1>9, RoundStepLemma
  <1>10. CASE \/ RequestStep \/ AddSFCIStep \/ OnTheWay(RetryFailureRequest) \/ OnTheWay(Lose)
    BY <1>1, <1>3, <1>10, PathLemma
  <1>11. CASE OnTheWay(Replies)
    BY <1>1, <1>3, <1>11, RepliesLemma
  <1>12. CASE UNCHANGED vars
    BY <1>1, <1>3, <1>12, NothingHappens DEF vars, tableVars, pathVars
  <1> QED
    BY <1>3, <1>4, <1>5, <1>6, <1>7, <1>8, <1>9, <1>10, <1>11, <1>12 DEF Next

\* As long as no task times out, the state of a task tells the states of the rows and which request
\* is under way (processAllRecoveryTasks).
THEOREM Inductive == Spec => []IInv
  <1>1. Init => IInv
    BY InitLemma
  <1>2. IInv /\ [Next]_vars => IInv'
    BY NextLemma
  <1> QED
    BY <1>1, <1>2, PTL DEF Spec

\* Of an SFC with one SFCI, while no task times out, at most one request is under way.
LEMMA OneUnderWay ==
    ASSUME IInv, ~scenario.timeMayPass, NEW i \in scenario.sfcis, Alone(i)
    PROVE  AtMostOne(i[1])
  <1>1. InStep(i) /\ TypeOK
    BY DEF IInv
  <1>2. Quiet(i[1]) => AtMostOne(i[1])
    BY DEF Quiet, AtMostOne, NoneIn, NoneOf, OneIn, OneOf
  <1>3. CASE \A type \in TaskType : ~hasRecoveryTask(taskDict, type, i)
    BY <1>1, <1>2, <1>3 DEF InStep
  <1>4. CASE \E type \in TaskType : hasRecoveryTask(taskDict, type, i)
    <2>1. PICK type \in TaskType : hasRecoveryTask(taskDict, type, i)
      BY <1>4
    <2>2. PICK task : task = taskDict[type][i] /\ Fits(task, i)
      BY <1>1, <2>1 DEF InStep
    <2>3. i \in SFCIs
      BY <1>1, TablesLemma
    <2>4. task \in Task
      BY <1>1, <2>1, <2>2, <2>3 DEF TypeOK, hasRecoveryTask
    <2>5. task.state \in TaskState /\ task.addSFCSent \in BOOLEAN
      BY <2>4 DEF Task
    <2>6. SFCIState(i) = STATE_ACTIVE => Quiet(i[1])
      BY <1>1 DEF InStep
    <2>7. Quiet(i[1]) \/ \E t : Only(i[1], t)
      BY <2>2, <2>5, <2>6 DEF Fits, TaskState
    <2> QED
      BY <1>2, <2>7 DEF Only
  <1> QED
    BY <1>3, <1>4

\* As long as no task times out, the mediator never works on two commands about one SFC or
\* SFCI at a time, for any number of SFCs and SFCIs, any failures of equipment, losses and
\* failed commands, and any MAX_RETRY_NUM (processAllRecoveryTasks, isDelSFCIValidState,
\* isAddSFCIValidState, retryFailureRequests): a request is made only when the tables show
\* that the one before it was carried out.
THEOREM RecoveryMakesOneCommand == Spec => []OneCommandAtATime
  <1>1. IInv => OneCommandAtATime
    <2> SUFFICES ASSUME IInv, ~scenario.timeMayPass,
                        NEW a \in DOMAIN inMediator, NEW b \in DOMAIN inMediator,
                        HasSingleSFCI(a.sfc), a.sfc = b.sfc
                 PROVE  a = b /\ inMediator[a] = 1
      BY DEF OneCommandAtATime, BagToSet
    <2>1. TypeOK /\ a \in Request
      BY DEF IInv, TypeOK, Bag
    <2>2. PICK i \in scenario.sfcis : i[1] = a.sfc
      BY <2>1, RequestLemma
    <2>3. Alone(i)
      BY <2>2 DEF Alone, HasSingleSFCI
    <2>4. OneOf(inMediator, a.sfc)
      BY <2>2, <2>3, OneUnderWay DEF AtMostOne
    <2> QED
      BY <2>4 DEF OneOf
  <1> QED
    BY <1>1, Inductive, PTL

\* While no task times out, an SFC in the state deleted has no active SFCI, if it has one:
\* after any number of failures, resumptions, losses and failed commands.
SingleSFCIIsReleased ==
    ~scenario.timeMayPass =>
    \A i \in scenario.sfcis :
        HasSingleSFCI(i[1]) /\ SFCState(i[1]) = STATE_DELETED => SFCIState(i) # STATE_ACTIVE

\* The rows of a deleted SFC agree (processAllRecoveryTasks, migrateSFCITask2SFCTask).
THEOREM SingleReleased == Spec => []SingleSFCIIsReleased
  <1>1. IInv => SingleSFCIIsReleased
    <2> SUFFICES ASSUME IInv, ~scenario.timeMayPass, NEW i \in scenario.sfcis, HasSingleSFCI(i[1]),
                        SFCState(i[1]) = STATE_DELETED
                 PROVE  SFCIState(i) # STATE_ACTIVE
      BY DEF SingleSFCIIsReleased
    <2>1. InStep(i)
      BY DEF IInv, Alone, HasSingleSFCI
    <2> QED
      BY <2>1 DEF InStep, STATE_DELETED, STATE_ACTIVE, STATE_RECOVER_MODE
  <1> QED
    BY <1>1, Inductive, PTL

\* What may happen is settled at the start.
LEMMA ScenarioStays == Spec => [](scenario \in Scenarios)
  <1>1. Init => scenario \in Scenarios
    BY DEF Init
  <1>2. scenario \in Scenarios /\ [Next]_vars => (scenario \in Scenarios)'
    <2>1. [Next]_vars => UNCHANGED scenario
      BY DEF Next, vars, tableVars, FailureAbnormalHandler, ProcessAllDetectionNotice, ResumeHandler,
         TimePasses, StartRound, RoundStep, Waiting, Ready, DeletingSFCI, Resting, SFCDeleted, SFCAdded,
         SFCNotYet, AddingSFCI, Finished, Turn, OnTheWay, RequestStep, AddSFCIStep
    <2> QED
      BY <2>1
  <1> QED
    BY <1>1, <1>2, PTL DEF Spec

\* "All resource of this sfc/sfci has been released": an SFCI is never active when its SFC
\* is down as deleted, if SFCs have one SFCI each and no task times out, for any number of
\* SFCs, notices, resumptions, losses and failed commands (processAllRecoveryTasks).
THEOREM DeletedAreReleased ==
    ASSUME \A c \in Scenarios : ~c.timeMayPass /\ \A i, j \in c.sfcis : i[1] = j[1] => i = j
    PROVE  Spec => []DeletedSFCIsReleased
  <1>1. SingleSFCIIsReleased /\ scenario \in Scenarios => DeletedSFCIsReleased
    <2> SUFFICES ASSUME SingleSFCIIsReleased, scenario \in Scenarios,
                        NEW i \in scenario.sfcis, SFCState(i[1]) = STATE_DELETED
                 PROVE  SFCIState(i) # STATE_ACTIVE
      BY DEF DeletedSFCIsReleased
    <2>1. ~scenario.timeMayPass /\ HasSingleSFCI(i[1])
      BY DEF HasSingleSFCI
    <2> QED
      BY <2>1 DEF SingleSFCIIsReleased
  <1> QED
    BY <1>1, ScenarioStays, SingleReleased, PTL
=============================================================================
