------------------------- MODULE VNFControllerProofs -------------------------
(***************************************************************************)
(* What holds of the VNF controller for every number of SFCIs, VNFIs,      *)
(* cores, commands and failing calls of Docker: cores and virtio IDs are   *)
(* never given to two VNFIs, and a success reply is true, or repeats an    *)
(* ADD_SFCI whose failure the mediator was told of.                        *)
(***************************************************************************)
EXTENDS VNFController, FiniteSetTheorems, WellFoundedInduction, TLAPS

\* The types of the variables that decisions depend on.
TypeOK ==
    /\ sfciDict \in SUBSET SFCIs
    /\ vnfiSet \in [VNFIs -> VNFIDeployStatus \cup {None}]
    /\ inbox \in Seq(Cmd)
    /\ job \in Job \cup {None}
    /\ rplys \in Seq([cmd : Cmd, success : BOOLEAN])
    /\ exhausted \in BOOLEAN

\* A command in hand goes through the VNFIs of its SFCI in their order, and that SFCI is
\* in the table.
JobInv ==
    job # None =>
        /\ job.cmd.sfci \in sfciDict
        /\ Len(job.todo) <= SFCLength
        /\ \A k \in 1..Len(job.todo) :
              job.todo[k] = <<job.cmd.sfci, SFCLength - Len(job.todo) + k>>

\* Whether the table should have an entry for the i-th VNFI of an SFCI: an addition has
\* dealt with it, and no deletion has yet.
Recorded(s, i) ==
    /\ s \in sfciDict
    /\ (job # None /\ job.cmd.sfci = s) =>
          IF job.cmd.cmdType = CMD_TYPE_ADD_SFCI
          THEN i <= SFCLength - Len(job.todo)
          ELSE i > SFCLength - Len(job.todo)

\* It has one just then.
TableInv ==
    \A s \in SFCIs, i \in 1..SFCLength : vnfiSet[<<s, i>>] # None <=> Recorded(s, i)

LoopInv == TypeOK /\ JobInv /\ TableInv
-----------------------------------------------------------------------------
\* The lists of cores: those of a socket come from it, each at most once.
SocketList(s, i) ==
    /\ s \in Seq(Cores)
    /\ IsInjective(s)
    /\ \A k \in 1..Len(s) : s[k][1] = i

CoreLists(lists) ==
    /\ lists \in [1..Sockets -> Seq(Cores)]
    /\ \A i \in 1..Sockets : SocketList(lists[i], i)

Holds(v, c) == IsDeployed(v) /\ c \in CoresIn(vnfiSet[v].cpus)

\* The invariant about cores: each is idle, lost or one VNFI's, and only one of these.
CoreInv ==
    /\ CoreLists(cpuAllo)
    /\ \A v \in VNFIs : IsDeployed(v) => CoreLists(vnfiSet[v].cpus)
    /\ stranded \subseteq Cores
    /\ \A c \in Cores :
          /\ c \in CoresIn(cpuAllo) \/ c \in stranded \/ \E v \in VNFIs : Holds(v, c)
          /\ ~(c \in CoresIn(cpuAllo) /\ c \in stranded)
          /\ \A v \in VNFIs : Holds(v, c) =>
                /\ c \notin CoresIn(cpuAllo) /\ c \notin stranded
                /\ \A w \in VNFIs \ {v} : ~Holds(w, c)
-----------------------------------------------------------------------------
\* A list of ranges of integers.
IntPair == Int \X Int
RangeList(list) == list \in Seq(IntPair)

Idle(list) == UNION {list[i][1]..(list[i][2] - 1) : i \in DOMAIN list}

\* No range is empty, and no integer is in two of them.
RangesAreDisjoint(list) ==
    /\ \A i \in DOMAIN list : list[i][1] < list[i][2]
    /\ \A i, j \in DOMAIN list :
          i # j => list[i][2] <= list[j][1] \/ list[j][2] <= list[i][1]

\* The invariant about virtio IDs.
VioInv ==
    /\ RangeList(vioAllo)
    /\ ~exhausted => RangesAreDisjoint(vioAllo)
    /\ VioIsExclusive
-----------------------------------------------------------------------------
HasFailed(s) == \E i \in 1..SFCLength : vnfiSet[<<s, i>>] = Failed

\* An ADD_SFCI of the SFCI was answered with failure and no deletion succeeded since.
FailureTold(s) ==
    \E k \in 1..Len(rplys) :
        /\ rplys[k] = [cmd |-> [cmdType |-> CMD_TYPE_ADD_SFCI, sfci |-> s], success |-> FALSE]
        /\ \A l \in k..Len(rplys) :
              rplys[l] # [cmd |-> [cmdType |-> CMD_TYPE_DEL_SFCI, sfci |-> s], success |-> TRUE]

\* A failed VNFI is in the table only if the failure was, or is going to be, answered.
FailureInv ==
    \A s \in SFCIs : HasFailed(s) =>
        \/ FailureTold(s)
        \/ /\ job # None
           /\ job.cmd = [cmdType |-> CMD_TYPE_ADD_SFCI, sfci |-> s]
           /\ job.success = FALSE
-----------------------------------------------------------------------------
(***************************************************************************)
(* Lemmas about sequences and numbers.                                     *)
(***************************************************************************)
\* Every non-empty set of natural numbers has its minimum.
LEMMA MinLemma ==
    ASSUME NEW S \in SUBSET Nat, S # {}
    PROVE  Min(S) \in S
  <1> DEFINE R == OpToRel(<, Nat)
  <1>1. IsWellFoundedOn(R, Nat)
    BY NatLessThanWellFounded
  <1>2. \A x, y \in Nat : <<y, x>> \in R <=> y < x
    BY DEF OpToRel
  <1> HIDE DEF R
  <1>3. PICK x \in S : \A y \in S : ~(<<y, x>> \in R)
    BY <1>1, WFMin
  <1>4. \A y \in S : x <= y
    <2> TAKE y \in S
    <2>1. x \in Nat /\ y \in Nat
      OBVIOUS
    <2>2. ~(y < x)
      BY <1>2, <1>3, <2>1, Zenon
    <2>3. QED BY <2>1, <2>2
  <1>5. QED BY <1>4 DEF Min

LEMMA SubSeqLemma ==
    ASSUME NEW s \in Seq(IntPair), NEW m \in 1..(Len(s) + 1), NEW n \in (m - 1)..Len(s)
    PROVE  \E a \in Seq(IntPair) :
              /\ a = SubSeq(s, m, n) /\ Len(a) = n - m + 1
              /\ \A j \in 1..(n - m + 1) : a[j] = s[j + m - 1]
  <1>1. SubSeq(s, m, n) \in Seq(IntPair) /\ Len(SubSeq(s, m, n)) = n - m + 1
    OBVIOUS
  <1>2. ASSUME NEW j \in 1..(n - m + 1) PROVE SubSeq(s, m, n)[j] = s[j + m - 1]
    OBVIOUS
  <1>3. QED BY <1>1, <1>2

LEMMA ConcatLemma ==
    ASSUME NEW a \in Seq(IntPair), NEW b \in Seq(IntPair)
    PROVE  \E c \in Seq(IntPair) :
              /\ c = a \o b /\ Len(c) = Len(a) + Len(b)
              /\ \A j \in 1..Len(a) : c[j] = a[j]
              /\ \A j \in 1..Len(b) : c[Len(a) + j] = b[j]
  <1>1. a \o b \in Seq(IntPair) /\ Len(a \o b) = Len(a) + Len(b)
    OBVIOUS
  <1>2. ASSUME NEW j \in 1..Len(a) PROVE (a \o b)[j] = a[j]
    OBVIOUS
  <1>3. ASSUME NEW j \in 1..Len(b) PROVE (a \o b)[Len(a) + j] = b[j]
    OBVIOUS
  <1>4. QED BY <1>1, <1>2, <1>3

LEMMA RemoveAtLemma ==
    ASSUME NEW s \in Seq(IntPair), NEW i \in 1..Len(s)
    PROVE  /\ RemoveAt(s, i) \in Seq(IntPair)
           /\ Len(RemoveAt(s, i)) = Len(s) - 1
           /\ \A j \in 1..(Len(s) - 1) :
                 RemoveAt(s, i)[j] = IF j < i THEN s[j] ELSE s[j + 1]
  <1>1. PICK a \in Seq(IntPair) : /\ a = SubSeq(s, 1, i - 1) /\ Len(a) = (i - 1) - 1 + 1
                                  /\ \A j \in 1..((i - 1) - 1 + 1) : a[j] = s[j + 1 - 1]
    <2>1. 1 \in 1..(Len(s) + 1) /\ i - 1 \in (1 - 1)..Len(s)
      OBVIOUS
    <2>2. QED BY <2>1, SubSeqLemma
  <1>2. PICK b \in Seq(IntPair) : /\ b = SubSeq(s, i + 1, Len(s)) /\ Len(b) = Len(s) - (i + 1) + 1
                                  /\ \A j \in 1..(Len(s) - (i + 1) + 1) : b[j] = s[j + (i + 1) - 1]
    <2>1. i + 1 \in 1..(Len(s) + 1) /\ Len(s) \in ((i + 1) - 1)..Len(s)
      OBVIOUS
    <2>2. QED BY <2>1, SubSeqLemma
  <1>3. PICK c \in Seq(IntPair) : /\ c = a \o b /\ Len(c) = Len(a) + Len(b)
                                  /\ \A j \in 1..Len(a) : c[j] = a[j]
                                  /\ \A j \in 1..Len(b) : c[Len(a) + j] = b[j]
    BY ConcatLemma
  <1>4. RemoveAt(s, i) = c
    BY <1>1, <1>2, <1>3 DEF RemoveAt
  <1>5. Len(a) = i - 1 /\ Len(b) = Len(s) - i /\ Len(c) = Len(s) - 1
    <2>1. Len(s) \in Nat
      OBVIOUS
    <2>2. Len(a) = (i - 1) - 1 + 1 /\ Len(b) = Len(s) - (i + 1) + 1
      BY <1>1, <1>2, Zenon
    <2>3. Len(c) = Len(a) + Len(b)
      BY <1>3, Zenon
    <2>4. QED BY ONLY <2>1, <2>2, <2>3, i \in 1..Len(s)
  <1>6. ASSUME NEW j \in 1..(Len(s) - 1)
        PROVE  c[j] = IF j < i THEN s[j] ELSE s[j + 1]
    <2>1. ASSUME j < i PROVE c[j] = s[j]
      BY <1>1, <1>3, <1>5, <2>1
    <2>2. ASSUME ~(j < i) PROVE c[j] = s[j + 1]
      <3>1. PICK k \in 1..Len(b) : k = j - Len(a)
        BY <1>5, <2>2
      <3>2. c[j] = b[k]
        BY <1>3, <1>5, <3>1
      <3>3. k \in 1..(Len(s) - (i + 1) + 1) /\ k + (i + 1) - 1 = j + 1
        BY <1>5, <3>1
      <3>4. b[k] = s[k + (i + 1) - 1]
        BY <1>2, <3>3, Zenon
      <3>5. QED BY <3>2, <3>3, <3>4
    <2>3. QED BY <2>1, <2>2
  <1>7. QED BY <1>4, <1>5, <1>6

LEMMA InsertAtLemma ==
    ASSUME NEW s \in Seq(IntPair), NEW i \in 1..Len(s), NEW e \in IntPair
    PROVE  /\ InsertAt(s, i, e) \in Seq(IntPair)
           /\ Len(InsertAt(s, i, e)) = Len(s) + 1
           /\ \A j \in 1..(Len(s) + 1) :
                 InsertAt(s, i, e)[j] = IF j < i THEN s[j] ELSE IF j = i THEN e ELSE s[j - 1]
  <1>1. PICK a \in Seq(IntPair) : /\ a = SubSeq(s, 1, i - 1) /\ Len(a) = (i - 1) - 1 + 1
                                  /\ \A j \in 1..((i - 1) - 1 + 1) : a[j] = s[j + 1 - 1]
    <2>1. 1 \in 1..(Len(s) + 1) /\ i - 1 \in (1 - 1)..Len(s)
      OBVIOUS
    <2>2. QED BY <2>1, SubSeqLemma
  <1>2. PICK b \in Seq(IntPair) : /\ b = SubSeq(s, i, Len(s)) /\ Len(b) = Len(s) - i + 1
                                  /\ \A j \in 1..(Len(s) - i + 1) : b[j] = s[j + i - 1]
    <2>1. i \in 1..(Len(s) + 1) /\ Len(s) \in (i - 1)..Len(s)
      OBVIOUS
    <2>2. QED BY <2>1, SubSeqLemma
  <1>3. PICK c \in Seq(IntPair) : c = <<e>> /\ Len(c) = 1 /\ c[1] = e
    <2>1. <<e>> \in Seq(IntPair)
      OBVIOUS
    <2>2. Len(<<e>>) = 1 /\ <<e>>[1] = e
      OBVIOUS
    <2>3. QED BY <2>1, <2>2, Zenon
  <1>4. PICK d \in Seq(IntPair) : /\ d = a \o c /\ Len(d) = Len(a) + Len(c)
                                  /\ \A j \in 1..Len(a) : d[j] = a[j]
                                  /\ \A j \in 1..Len(c) : d[Len(a) + j] = c[j]
    BY ConcatLemma
  <1>5. PICK t \in Seq(IntPair) : /\ t = d \o b /\ Len(t) = Len(d) + Len(b)
                                  /\ \A j \in 1..Len(d) : t[j] = d[j]
                                  /\ \A j \in 1..Len(b) : t[Len(d) + j] = b[j]
    BY ConcatLemma
  <1>6. InsertAt(s, i, e) = t
    BY <1>1, <1>2, <1>3, <1>4, <1>5 DEF InsertAt
  <1>7. /\ Len(a) = i - 1 /\ Len(b) = Len(s) - i + 1
        /\ Len(d) = i /\ Len(t) = Len(s) + 1
    <2>1. Len(s) \in Nat
      OBVIOUS
    <2>2. Len(a) = (i - 1) - 1 + 1 /\ Len(b) = Len(s) - i + 1 /\ Len(c) = 1
      BY <1>1, <1>2, <1>3, Zenon
    <2>3. Len(d) = Len(a) + Len(c) /\ Len(t) = Len(d) + Len(b)
      BY <1>4, <1>5, Zenon
    <2>4. QED BY ONLY <2>1, <2>2, <2>3, i \in 1..Len(s)
  <1>8. ASSUME NEW j \in 1..(Len(s) + 1)
        PROVE  t[j] = IF j < i THEN s[j] ELSE IF j = i THEN e ELSE s[j - 1]
    <2>1. ASSUME j < i PROVE t[j] = s[j]
      <3>1. t[j] = d[j] /\ d[j] = a[j]
        <4>1. j \in 1..Len(d) /\ j \in 1..Len(a)
          BY <1>7, <2>1
        <4>2. QED BY <1>4, <1>5, <4>1, Zenon
      <3>2. QED BY <1>1, <1>7, <2>1, <3>1
    <2>2. ASSUME j = i PROVE t[j] = e
      <3>1. t[j] = d[Len(a) + 1]
        BY <1>5, <1>7, <2>2
      <3>2. QED BY <1>3, <1>4, <3>1
    <2>3. ASSUME j > i PROVE t[j] = s[j - 1]
      <3>1. PICK k \in 1..Len(b) : k = j - Len(d)
        BY <1>7, <2>3
      <3>2. t[j] = b[k]
        BY <1>5, <1>7, <3>1
      <3>3. QED BY <1>2, <1>7, <3>1, <3>2
    <2>4. QED BY <2>1, <2>2, <2>3
  <1>9. QED BY <1>6, <1>7, <1>8
-----------------------------------------------------------------------------
(***************************************************************************)
(* Lemmas about SourceAllocator.                                           *)
(***************************************************************************)
LEMMA IdleLemma ==
    ASSUME NEW list, RangeList(list), NEW x
    PROVE  x \in Idle(list) <=> \E i \in 1..Len(list) : x \in Int /\ list[i][1] <= x /\ x < list[i][2]
  <1>1. DOMAIN list = 1..Len(list) /\ \A i \in 1..Len(list) : list[i][1] \in Int /\ list[i][2] \in Int
    BY DEF RangeList, IntPair
  <1>2. \A i \in 1..Len(list) : x \in list[i][1]..(list[i][2] - 1)
                                   <=> x \in Int /\ list[i][1] <= x /\ x < list[i][2]
    BY <1>1
  <1>3. x \in Idle(list) <=> \E i \in 1..Len(list) : x \in list[i][1]..(list[i][2] - 1)
    BY <1>1, Zenon DEF Idle
  <1>4. QED BY <1>2, <1>3, Zenon

\* A block that is handed out was idle and is idle no more.
LEMMA AllocateSourceLemma ==
    ASSUME NEW list, RangeList(list), NEW num \in Nat \ {0},
           NEW r, r = allocateSource(list, num)
    PROVE  /\ r.result \in Int /\ RangeList(r.list)
           /\ RangesAreDisjoint(list) /\ r.result # NoSource =>
                /\ RangesAreDisjoint(r.list)
                /\ \A x : x \in Idle(r.list) => x \in Idle(list)
                /\ \A x \in r.result..(r.result + num - 1) : x \in Idle(list) /\ x \notin Idle(r.list)
  <1>1. PICK fits : fits = {i \in DOMAIN list : list[i][2] - list[i][1] >= num}
    OBVIOUS
  <1>2. list \in Seq(IntPair) /\ DOMAIN list = 1..Len(list)
    BY DEF RangeList
  <1>3. \A i \in 1..Len(list) : list[i][1] \in Int /\ list[i][2] \in Int
    BY <1>2 DEF IntPair
  <1>4. CASE fits = {}
    <2>1. r = [result |-> NoSource, list |-> list]
      BY <1>1, <1>4 DEF allocateSource
    <2>2. QED BY <2>1 DEF NoSource
  <1>5. CASE fits # {}
    <2>1. PICK i : i = Min(fits)
      OBVIOUS
    <2>2. i \in fits
      <3>1. fits \in SUBSET Nat
        BY <1>1, <1>2
      <3>2. QED BY <1>5, <2>1, <3>1, MinLemma
    <2>3. i \in 1..Len(list) /\ list[i][2] - list[i][1] >= num
      BY <1>1, <1>2, <2>2
    <2>4. PICK a \in Int, b \in Int : a = list[i][1] /\ b = list[i][2] /\ b - a >= num
      BY <1>3, <2>3
    <2>5. CASE b - a = num
      <3>1. r = [result |-> a, list |-> RemoveAt(list, i)]
        BY <1>1, <1>5, <2>1, <2>4, <2>5 DEF allocateSource
      <3>2. PICK l \in Seq(IntPair) :
               /\ l = RemoveAt(list, i)
               /\ Len(l) = Len(list) - 1
               /\ \A j \in 1..(Len(list) - 1) : l[j] = IF j < i THEN list[j] ELSE list[j + 1]
        BY <1>2, <2>3, RemoveAtLemma
      <3>3. r.result = a /\ r.list = l
        BY <3>1, <3>2
      <3>4. ASSUME RangesAreDisjoint(list)
            PROVE  /\ RangesAreDisjoint(l)
                   /\ \A x : x \in Idle(l) => x \in Idle(list)
                   /\ \A x \in a..(a + num - 1) : x \in Idle(list) /\ x \notin Idle(l)
        <4>1. DOMAIN l = 1..(Len(list) - 1)
          BY <3>2
        <4> DEFINE o(j) == IF j < i THEN j ELSE j + 1
        <4>2. \A j \in DOMAIN l : o(j) \in 1..Len(list) /\ o(j) # i /\ l[j] = list[o(j)]
          BY <2>3, <3>2, <4>1
        <4>3. \A j, k \in DOMAIN l : j # k => o(j) # o(k)
          BY <2>3, <4>1
        <4> HIDE DEF o
        <4>4. RangesAreDisjoint(l)
          BY <1>2, <3>4, <4>2, <4>3 DEF RangesAreDisjoint
        <4>5. ASSUME NEW x, x \in Idle(l) PROVE x \in Idle(list) /\ x \notin a..(a + num - 1)
          <5>1. PICK j \in 1..Len(l) : x \in Int /\ l[j][1] <= x /\ x < l[j][2]
            BY <4>5, IdleLemma DEF RangeList
          <5>2. PICK k \in 1..Len(list) : k # i /\ list[k][1] <= x /\ x < list[k][2]
            BY <4>2, <5>1
          <5>3. x \in Idle(list)
            BY <5>1, <5>2, IdleLemma
          <5>4. list[k][2] <= a \/ b <= list[k][1]
            BY <1>2, <2>3, <2>4, <3>4, <5>2 DEF RangesAreDisjoint
          <5>5. PICK p \in Int, q \in Int : p = list[k][1] /\ q = list[k][2]
            BY <1>3
          <5>6. (p <= x /\ x < q) /\ (q <= a \/ b <= p)
            BY <5>2, <5>4, <5>5, Zenon
          <5>7. x \notin a..(a + num - 1)
            BY ONLY <2>5, <5>1, <5>6, num \in Nat, a \in Int, b \in Int, p \in Int, q \in Int
          <5>8. QED BY <5>3, <5>7
        <4>6. ASSUME NEW x \in a..(a + num - 1) PROVE x \in Idle(list)
          <5>1. x \in Int /\ a <= x /\ x < b
            BY <2>4, <4>6
          <5>2. QED BY <2>3, <2>4, <5>1, IdleLemma
        <4>7. QED BY <4>4, <4>5, <4>6
      <3>5. QED BY <3>2, <3>3, <3>4 DEF RangeList
    <2>6. CASE b - a # num
      <3>1. PICK l : l = [list EXCEPT ![i] = <<a + num, b>>]
        OBVIOUS
      <3>2. [list EXCEPT ![i][1] = @ + num] = l
        <4>1. [list[i] EXCEPT ![1] = @ + num] = <<a + num, b>>
          BY <1>2, <2>3, <2>4 DEF IntPair
        <4>2. QED BY <3>1, <4>1
      <3>3. r.result = a /\ r.list = l
        BY <1>1, <1>5, <2>1, <2>4, <2>6, <3>2 DEF allocateSource
      <3>4. /\ l \in Seq(IntPair) /\ DOMAIN l = DOMAIN list /\ Len(l) = Len(list)
            /\ \A j \in 1..Len(l) : j # i => l[j] = list[j]
            /\ l[i][1] = a + num /\ l[i][2] = b
        BY <1>2, <2>3, <3>1 DEF IntPair
      <3>5. ASSUME RangesAreDisjoint(list)
            PROVE  /\ RangesAreDisjoint(l)
                   /\ \A x : x \in Idle(l) => x \in Idle(list)
                   /\ \A x \in a..(a + num - 1) : x \in Idle(list) /\ x \notin Idle(l)
        <4>1. \A j \in 1..Len(list) : j # i => list[j][2] <= a \/ b <= list[j][1]
          BY <1>2, <2>3, <2>4, <3>5 DEF RangesAreDisjoint
        <4>2. RangesAreDisjoint(l)
          <5>1. ASSUME NEW j \in DOMAIN l PROVE l[j][1] < l[j][2]
            <6>1. CASE j = i
              <7>1. a + num < b
                BY <2>4, <2>6
              <7>2. QED BY <3>4, <6>1, <7>1
            <6>2. CASE j # i
              BY <1>2, <3>4, <3>5, <6>2 DEF RangesAreDisjoint
            <6>3. QED BY <6>1, <6>2
          <5>2. ASSUME NEW j \in DOMAIN l, NEW k \in DOMAIN l, j # k
                PROVE  l[j][2] <= l[k][1] \/ l[k][2] <= l[j][1]
            <6>1. CASE j = i
              <7>1. k \in 1..Len(list) /\ k # i
                BY <1>2, <3>4, <5>2, <6>1
              <7>2. PICK p \in Int, q \in Int : p = l[k][1] /\ q = l[k][2]
                BY <1>3, <3>4, <7>1
              <7>3. q <= a \/ b <= p
                BY <3>4, <4>1, <7>1, <7>2
              <7>4. q <= a + num \/ b <= p
                BY ONLY <7>3, num \in Nat, a \in Int, b \in Int, p \in Int, q \in Int
              <7>5. QED BY <3>4, <6>1, <7>2, <7>4
            <6>2. CASE k = i
              <7>1. j \in 1..Len(list) /\ j # i
                BY <1>2, <3>4, <5>2, <6>2
              <7>2. PICK p \in Int, q \in Int : p = l[j][1] /\ q = l[j][2]
                BY <1>3, <3>4, <7>1
              <7>3. q <= a \/ b <= p
                BY <3>4, <4>1, <7>1, <7>2
              <7>4. q <= a + num \/ b <= p
                BY ONLY <7>3, num \in Nat, a \in Int, b \in Int, p \in Int, q \in Int
              <7>5. QED BY <3>4, <6>2, <7>2, <7>4
            <6>3. CASE j # i /\ k # i
              BY <1>2, <3>4, <3>5, <5>2, <6>3 DEF RangesAreDisjoint
            <6>4. QED BY <6>1, <6>2, <6>3
          <5>3. QED BY <5>1, <5>2 DEF RangesAreDisjoint
        <4>3. ASSUME NEW x, x \in Idle(l) PROVE x \in Idle(list) /\ x \notin a..(a + num - 1)
          <5>1. PICK j \in 1..Len(l) : x \in Int /\ l[j][1] <= x /\ x < l[j][2]
            BY <3>4, <4>3, IdleLemma DEF RangeList
          <5>2. CASE j = i
            <6>1. a + num <= x /\ x < b
              BY <3>4, <5>1, <5>2
            <6>2. x \in Idle(list)
              BY <2>3, <2>4, <5>1, <6>1, IdleLemma
            <6>3. QED BY <5>1, <6>1, <6>2
          <5>3. CASE j # i
            <6>1. j \in 1..Len(list) /\ list[j][1] <= x /\ x < list[j][2]
              BY <3>4, <5>1, <5>3
            <6>2. x \in Idle(list)
              BY <5>1, <6>1, IdleLemma
            <6>3. PICK p \in Int, q \in Int : p = list[j][1] /\ q = list[j][2]
              BY <1>3, <6>1
            <6>4. (p <= x /\ x < q) /\ (q <= a \/ b <= p)
              BY <4>1, <5>3, <6>1, <6>3, Zenon
            <6>5. x \notin a..(a + num - 1)
              BY ONLY <2>4, <5>1, <6>4, num \in Nat, a \in Int, b \in Int, p \in Int, q \in Int
            <6>6. QED BY <6>2, <6>5
          <5>4. QED BY <5>2, <5>3
        <4>4. ASSUME NEW x \in a..(a + num - 1) PROVE x \in Idle(list)
          <5>1. x \in Int /\ a <= x /\ x < b
            BY <2>4, <4>4
          <5>2. QED BY <2>3, <2>4, <5>1, IdleLemma
        <4>5. QED BY <4>2, <4>3, <4>4
      <3>6. QED BY <3>3, <3>4, <3>5 DEF RangeList
    <2>7. QED BY <2>5, <2>6
  <1>6. QED BY <1>4, <1>5

\* Joining two ranges that touch changes no integer.
LEMMA MergeLemma ==
    ASSUME NEW list, RangeList(list)
    PROVE  /\ RangeList(MergeAdjacent(list))
           /\ RangesAreDisjoint(list) =>
                 /\ RangesAreDisjoint(MergeAdjacent(list))
                 /\ \A x : x \in Idle(MergeAdjacent(list)) => x \in Idle(list)
  <1>1. PICK touching : touching = {i \in 1..(Len(list) - 1) : list[i][2] = list[i + 1][1]}
    OBVIOUS
  <1>2. list \in Seq(IntPair) /\ DOMAIN list = 1..Len(list) /\ Len(list) \in Nat
    BY DEF RangeList
  <1>3. \A i \in 1..Len(list) : list[i][1] \in Int /\ list[i][2] \in Int
    BY <1>2 DEF IntPair
  <1>4. CASE touching = {}
    <2>1. MergeAdjacent(list) = list
      BY <1>1, <1>4 DEF MergeAdjacent
    <2>2. QED BY <2>1
  <1>5. CASE touching # {}
    <2>1. PICK i : i = Min(touching)
      OBVIOUS
    <2>2. i \in touching
      <3>1. touching \in SUBSET Nat
        BY <1>1, <1>2
      <3>2. QED BY <1>5, <2>1, <3>1, MinLemma
    <2>3. i \in 1..Len(list) /\ i + 1 \in 1..Len(list) /\ list[i][2] = list[i + 1][1]
      BY <1>1, <1>2, <2>2
    <2>4. PICK a \in Int, b \in Int, c \in Int :
             a = list[i][1] /\ b = list[i][2] /\ b = list[i + 1][1] /\ c = list[i + 1][2]
      BY <1>3, <2>3
    <2>5. PICK m : m = [list EXCEPT ![i] = <<a, c>>]
      OBVIOUS
    <2>6. [list EXCEPT ![i][2] = list[i + 1][2]] = m
      <3>1. [list[i] EXCEPT ![2] = c] = <<a, c>>
        BY <1>2, <2>3, <2>4 DEF IntPair
      <3>2. QED BY <2>4, <2>5, <3>1
    <2>7. /\ m \in Seq(IntPair) /\ Len(m) = Len(list)
          /\ \A j \in 1..Len(list) : j # i => m[j] = list[j]
          /\ m[i] = <<a, c>>
      BY <1>2, <2>3, <2>5 DEF IntPair
    <2>8. PICK l \in Seq(IntPair) :
             /\ l = RemoveAt(m, i + 1)
             /\ Len(l) = Len(list) - 1
             /\ \A j \in 1..(Len(list) - 1) : l[j] = IF j < i + 1 THEN m[j] ELSE m[j + 1]
      BY <2>3, <2>7, RemoveAtLemma
    <2>9. MergeAdjacent(list) = l
      BY <1>1, <1>5, <2>1, <2>6, <2>8 DEF MergeAdjacent
    <2>10. DOMAIN l = 1..Len(l)
      BY <2>8
    <2> DEFINE o(j) == IF j < i + 1 THEN j ELSE j + 1
    <2>11. ASSUME NEW j \in 1..Len(l), j # i
           PROVE  o(j) \in 1..Len(list) /\ o(j) # i /\ o(j) # i + 1 /\ l[j] = list[o(j)]
      <3>1. CASE j < i + 1
        <4>1. j \in 1..Len(list) /\ j \in 1..(Len(list) - 1) /\ j # i + 1
          BY <1>2, <2>3, <2>8, <3>1
        <4>2. QED BY <2>7, <2>8, <2>11, <3>1, <4>1
      <3>2. CASE ~(j < i + 1)
        <4>1. j + 1 \in 1..Len(list) /\ j + 1 # i /\ j + 1 # i + 1
          BY <1>2, <2>3, <2>8, <2>11, <3>2
        <4>2. QED BY <2>7, <2>8, <3>2, <4>1
      <3>3. QED BY <3>1, <3>2
    <2>12. i \in 1..Len(l) /\ l[i] = <<a, c>>
      <3>1. i \in 1..(Len(list) - 1) /\ i < i + 1
        BY <1>2, <2>3
      <3>2. QED BY <2>7, <2>8, <3>1
    <2>13. \A j, k \in 1..Len(l) : j # k => o(j) # o(k)
      BY <2>3
    <2> HIDE DEF o
    <2>14. ASSUME RangesAreDisjoint(list)
           PROVE  RangesAreDisjoint(l) /\ \A x : x \in Idle(l) => x \in Idle(list)
      <3>1. a < b /\ b < c
        BY <1>2, <2>3, <2>4, <2>14 DEF RangesAreDisjoint
      <3>2. ASSUME NEW j \in 1..Len(l), j # i
            PROVE  /\ l[j][1] < l[j][2]
                   /\ l[j][2] <= a \/ c <= l[j][1]
        <4>1. PICK p \in Int, q \in Int : p = l[j][1] /\ q = l[j][2] /\ l[j] = list[o(j)]
          BY <1>3, <2>11, <3>2
        <4>2. p < q /\ (q <= a \/ b <= p) /\ (q <= b \/ c <= p)
          BY <1>2, <2>3, <2>4, <2>11, <2>14, <3>2, <4>1 DEF RangesAreDisjoint
        <4>3. q <= a \/ c <= p
          BY ONLY <3>1, <4>2, a \in Int, b \in Int, c \in Int, p \in Int, q \in Int
        <4>4. QED BY <4>1, <4>2, <4>3
      <3>3. \A j \in DOMAIN l : l[j][1] < l[j][2]
        <4>1. a < c
          BY <3>1
        <4>2. QED BY <2>10, <2>12, <3>2, <4>1
      <3>4. ASSUME NEW j \in DOMAIN l, NEW k \in DOMAIN l, j # k
            PROVE  l[j][2] <= l[k][1] \/ l[k][2] <= l[j][1]
        <4>1. CASE j = i
          BY <2>10, <2>12, <3>2, <3>4, <4>1
        <4>2. CASE k = i
          BY <2>10, <2>12, <3>2, <3>4, <4>2
        <4>3. CASE j # i /\ k # i
          BY <1>2, <2>10, <2>11, <2>13, <2>14, <3>4, <4>3 DEF RangesAreDisjoint
        <4>4. QED BY <4>1, <4>2, <4>3
      <3>5. ASSUME NEW x, x \in Idle(l) PROVE x \in Idle(list)
        <4>1. PICK j \in 1..Len(l) : x \in Int /\ l[j][1] <= x /\ x < l[j][2]
          BY <3>5, IdleLemma DEF RangeList
        <4>2. CASE j = i
          <5>1. a <= x /\ x < c
            BY <2>12, <4>1, <4>2
          <5>2. (a <= x /\ x < b) \/ (b <= x /\ x < c)
            BY <4>1, <5>1
          <5>3. QED BY <2>3, <2>4, <4>1, <5>2, IdleLemma
        <4>3. CASE j # i
          BY <2>11, <4>1, <4>3, IdleLemma
        <4>4. QED BY <4>2, <4>3
      <3>6. QED BY <3>3, <3>4, <3>5 DEF RangesAreDisjoint
    <2>15. QED BY <2>9, <2>14 DEF RangeList
  <1>6. QED BY <1>4, <1>5

\* The list n has the ranges of the list and the block.
WithBlock(list, n, start, num) ==
    \E p \in 1..Len(n), o \in [1..Len(n) -> Int] :
        /\ n[p] = <<start, start + num>>
        /\ \A j \in 1..Len(n) : j # p => o[j] \in 1..Len(list) /\ n[j] = list[o[j]]
        /\ \A j, k \in 1..Len(n) : j # p /\ k # p /\ j # k => o[j] # o[k]

\* A block put anywhere into a list that has none of its integers.
LEMMA WithBlockLemma ==
    ASSUME NEW list, RangeList(list), RangesAreDisjoint(list),
           NEW n, RangeList(n),
           NEW start \in Int, NEW num \in Nat \ {0},
           WithBlock(list, n, start, num),
           \A x \in start..(start + num - 1) : x \notin Idle(list)
    PROVE  /\ RangesAreDisjoint(n)
           /\ \A x : x \in Idle(n) => x \in Idle(list) \/ x \in start..(start + num - 1)
  <1>0. PICK p \in 1..Len(n), o \in [1..Len(n) -> Int] :
           /\ n[p] = <<start, start + num>>
           /\ \A j \in 1..Len(n) : j # p => o[j] \in 1..Len(list) /\ n[j] = list[o[j]]
           /\ \A j, k \in 1..Len(n) : j # p /\ k # p /\ j # k => o[j] # o[k]
    BY DEF WithBlock
  <1>1. DOMAIN list = 1..Len(list) /\ DOMAIN n = 1..Len(n)
    BY DEF RangeList
  <1>2. ASSUME NEW j \in 1..Len(n), j # p
        PROVE  /\ n[j][1] < n[j][2]
               /\ n[j][2] <= start \/ start + num <= n[j][1]
    <2>1. PICK a \in Int, b \in Int : a = n[j][1] /\ b = n[j][2]
      <3>1. n[j] \in Int \X Int
        BY DEF RangeList, IntPair
      <3>2. QED BY <3>1
    <2>2. a < b
      BY <1>0, <1>1, <1>2, <2>1 DEF RangesAreDisjoint
    <2>3. \A x \in Int : a <= x /\ x < b => x \in Idle(list)
      BY <1>0, <1>2, <2>1, IdleLemma
    <2>4. SUFFICES ASSUME start < b, a < start + num PROVE FALSE
      BY <2>1, <2>2
    <2>5. CASE a <= start
      <3>1. start \in start..(start + num - 1)
        OBVIOUS
      <3>2. QED BY <2>3, <2>4, <2>5, <3>1
    <2>6. CASE a > start
      <3>1. a \in start..(start + num - 1)
        BY <2>4, <2>6
      <3>2. a <= a /\ a < b
        BY <2>2
      <3>3. a \in Idle(list)
        BY <2>3, <3>2
      <3>4. QED BY <3>1, <3>3
    <2>7. QED BY <2>5, <2>6
  <1>3. n[p][1] = start /\ n[p][2] = start + num /\ start < start + num
    BY <1>0
  <1>4. ASSUME NEW j \in DOMAIN n, NEW k \in DOMAIN n, j # k
        PROVE  n[j][2] <= n[k][1] \/ n[k][2] <= n[j][1]
    <2>1. CASE j = p
      BY <1>1, <1>2, <1>3, <1>4, <2>1
    <2>2. CASE k = p
      BY <1>1, <1>2, <1>3, <1>4, <2>2
    <2>3. CASE j # p /\ k # p
      <3>1. /\ j \in 1..Len(n) /\ k \in 1..Len(n)
            /\ o[j] \in DOMAIN list /\ o[k] \in DOMAIN list /\ o[j] # o[k]
            /\ n[j] = list[o[j]] /\ n[k] = list[o[k]]
        BY <1>0, <1>1, <1>4, <2>3
      <3>2. QED BY <3>1 DEF RangesAreDisjoint
    <2>4. QED BY <2>1, <2>2, <2>3
  <1>5. ASSUME NEW x, x \in Idle(n) PROVE x \in Idle(list) \/ x \in start..(start + num - 1)
    <2>1. PICK j \in 1..Len(n) : x \in Int /\ n[j][1] <= x /\ x < n[j][2]
      BY <1>5, IdleLemma
    <2>2. CASE j = p
      BY <1>3, <2>1, <2>2
    <2>3. CASE j # p
      BY <1>0, <2>1, <2>3, IdleLemma
    <2>4. QED BY <2>2, <2>3
  <1>6. QED BY <1>1, <1>2, <1>3, <1>4, <1>5 DEF RangesAreDisjoint

\* Freeing a block that is not idle makes at most that block idle.
LEMMA FreeSourceLemma ==
    ASSUME NEW list, RangeList(list), NEW start \in Int, NEW num \in Nat \ {0},
           NEW f, f = freeSource(list, start, num)
    PROVE  /\ RangeList(f)
           /\ RangesAreDisjoint(list) /\ (\A x \in start..(start + num - 1) : x \notin Idle(list)) =>
                 /\ RangesAreDisjoint(f)
                 /\ \A x : x \in Idle(f) => x \in Idle(list) \/ x \in start..(start + num - 1)
  <1> DEFINE block == <<start, start + num>>
             Good(n) ==
                 /\ RangeList(n)
                 /\ RangesAreDisjoint(list) /\ (\A x \in start..(start + num - 1) : x \notin Idle(list)) =>
                       /\ RangesAreDisjoint(n)
                       /\ \A x : x \in Idle(n) => x \in Idle(list) \/ x \in start..(start + num - 1)
  <1>1. block \in IntPair
    BY DEF IntPair
  <1>2. PICK l : l = IF list = <<>> THEN <<block>> ELSE list
    OBVIOUS
  <1>3. PICK gaps : gaps = {i \in 2..(Len(l) - 1) : l[i - 1][2] <= start /\ start + num <= l[i][1]}
    OBVIOUS
  <1>4. PICK n : n = CASE start + num <= l[1][1]  -> <<block>> \o l
                       [] start >= l[Len(l)][2]   -> Append(l, block)
                       [] OTHER -> IF gaps = {} THEN l ELSE InsertAt(l, Min(gaps), block)
    OBVIOUS
  <1>5. f = MergeAdjacent(n)
    BY <1>2, <1>3, <1>4 DEF freeSource
  <1>6. Good(n)
    <2>1. CASE list = <<>>
      <3>1. l = <<block>> /\ Len(l) = 1 /\ l[1][1] = start /\ l[Len(l)][2] = start + num
        BY <1>2, <2>1
      <3>2. ~(start + num <= l[1][1]) /\ ~(start >= l[Len(l)][2]) /\ gaps = {}
        BY <1>3, <3>1
      <3>3. n = <<block>>
        BY <1>4, <3>1, <3>2
      <3>4. RangeList(n) /\ Len(n) = 1 /\ 1 \in 1..Len(n) /\ n[1] = block
        BY <1>1, <3>3 DEF RangeList
      <3>5. PICK o : o = [j \in 1..Len(n) |-> 0]
        OBVIOUS
      <3>6. \A j \in 1..Len(n) : j = 1
        BY <3>4
      <3>7. WithBlock(list, n, start, num)
        <4>1. o \in [1..Len(n) -> Int]
          BY <3>5
        <4>2. QED BY <3>4, <3>6, <4>1 DEF WithBlock
      <3>8. QED BY <3>4, <3>7, WithBlockLemma
    <2>2. CASE list # <<>>
      <3>1. l = list
        BY <1>2, <2>2
      <3>2. list \in Seq(IntPair) /\ Len(list) \in Nat /\ Len(list) >= 1
        BY <2>2 DEF RangeList
      <3>3. CASE n = <<block>> \o list
        <4>1. RangeList(n) /\ Len(n) = Len(list) + 1 /\ n[1] = block
          BY <1>1, <3>2, <3>3 DEF RangeList
        <4>2. \A j \in 1..Len(n) : j # 1 => j - 1 \in 1..Len(list) /\ n[j] = list[j - 1]
          BY <1>1, <3>2, <3>3
        <4>3. PICK o : o = [j \in 1..Len(n) |-> j - 1]
          OBVIOUS
        <4>4. /\ 1 \in 1..Len(n)
              /\ \A j \in 1..Len(n) : j # 1 => o[j] \in 1..Len(list) /\ n[j] = list[o[j]]
              /\ \A j, k \in 1..Len(n) : j # 1 /\ k # 1 /\ j # k => o[j] # o[k]
          BY <3>2, <4>1, <4>2, <4>3
        <4>5. WithBlock(list, n, start, num)
          <5>1. o \in [1..Len(n) -> Int]
            BY <4>1, <4>3
          <5>2. QED BY <4>1, <4>3, <4>4, <5>1 DEF WithBlock
        <4>6. QED BY <4>1, <4>5, WithBlockLemma
      <3>4. CASE n = Append(list, block)
        <4>1. RangeList(n) /\ Len(n) = Len(list) + 1 /\ n[Len(n)] = block
          BY <1>1, <3>2, <3>4 DEF RangeList
        <4>2. \A j \in 1..Len(n) : j # Len(n) => j \in 1..Len(list) /\ n[j] = list[j]
          BY <1>1, <3>2, <3>4
        <4>3. PICK o : o = [j \in 1..Len(n) |-> j]
          OBVIOUS
        <4>4. /\ Len(n) \in 1..Len(n)
              /\ \A j \in 1..Len(n) : j # Len(n) => o[j] \in 1..Len(list) /\ n[j] = list[o[j]]
              /\ \A j, k \in 1..Len(n) : j # Len(n) /\ k # Len(n) /\ j # k => o[j] # o[k]
          BY <3>2, <4>1, <4>2, <4>3
        <4>5. WithBlock(list, n, start, num)
          <5>1. o \in [1..Len(n) -> Int]
            BY <4>1, <4>3
          <5>2. QED BY <4>1, <4>3, <4>4, <5>1 DEF WithBlock
        <4>6. QED BY <4>1, <4>5, WithBlockLemma
      <3>5. CASE n = list
        BY <3>5
      <3>6. CASE gaps # {} /\ n = InsertAt(list, Min(gaps), block)
        <4>1. PICK i : i = Min(gaps)
          OBVIOUS
        <4>2. i \in 1..Len(list)
          <5>1. gaps \in SUBSET Nat
            BY <1>3
          <5>2. i \in gaps
            BY <3>6, <4>1, <5>1, MinLemma
          <5>3. QED BY <1>3, <3>1, <3>2, <5>2
        <4>3. /\ n \in Seq(IntPair) /\ Len(n) = Len(list) + 1
              /\ \A j \in 1..(Len(list) + 1) :
                    n[j] = IF j < i THEN list[j] ELSE IF j = i THEN block ELSE list[j - 1]
          <5>1. PICK e \in IntPair : e = block
            BY <1>1
          <5>2. n = InsertAt(list, i, e)
            BY <3>6, <4>1, <5>1
          <5>3. PICK d : d = InsertAt(list, i, e)
            OBVIOUS
          <5>4. /\ d \in Seq(IntPair) /\ Len(d) = Len(list) + 1
                /\ \A j \in 1..(Len(list) + 1) :
                      d[j] = IF j < i THEN list[j] ELSE IF j = i THEN e ELSE list[j - 1]
            <6>1. list \in Seq(IntPair)
              BY <3>2
            <6>2. /\ InsertAt(list, i, e) \in Seq(IntPair)
                  /\ Len(InsertAt(list, i, e)) = Len(list) + 1
                  /\ \A j \in 1..(Len(list) + 1) : InsertAt(list, i, e)[j] =
                        IF j < i THEN list[j] ELSE IF j = i THEN e ELSE list[j - 1]
              BY ONLY <4>2, <6>1, e \in IntPair, InsertAtLemma
            <6>3. QED BY ONLY <5>3, <6>2
          <5>5. QED BY <5>1, <5>2, <5>3, <5>4
        <4>4. PICK o : o = [j \in 1..Len(n) |-> IF j < i THEN j ELSE j - 1]
          OBVIOUS
        <4>5. i \in 1..Len(n) /\ n[i] = block
          BY <3>2, <4>2, <4>3
        <4>6. ASSUME NEW j \in 1..Len(n), j # i
              PROVE  o[j] \in 1..Len(list) /\ n[j] = list[o[j]]
          <5>1. CASE j < i
            BY <3>2, <4>2, <4>3, <4>4, <4>6, <5>1
          <5>2. CASE j > i
            BY <3>2, <4>2, <4>3, <4>4, <4>6, <5>2
          <5>3. QED BY <4>2, <4>6, <5>1, <5>2
        <4>7. \A j, k \in 1..Len(n) : j # i /\ k # i /\ j # k => o[j] # o[k]
          BY <4>2, <4>4
        <4>8. RangeList(n)
          BY <4>3 DEF RangeList
        <4>9. WithBlock(list, n, start, num)
          <5>1. o \in [1..Len(n) -> Int]
            BY <4>2, <4>3, <4>4
          <5>2. QED BY <4>4, <4>5, <4>6, <4>7, <5>1 DEF WithBlock
        <4>10. QED BY <4>8, <4>9, WithBlockLemma
      <3>7. \/ n = <<block>> \o list \/ n = Append(list, block) \/ n = list
            \/ gaps # {} /\ n = InsertAt(list, Min(gaps), block)
        BY ONLY <1>4, <3>1
      <3>8. QED BY <3>3, <3>4, <3>5, <3>6, <3>7, Zenon
    <2>3. QED BY <2>1, <2>2
  <1>7. QED BY <1>5, <1>6, MergeLemma
-----------------------------------------------------------------------------
(***************************************************************************)
(* Lemmas about CPUAllocator.                                              *)
(***************************************************************************)
LEMMA CoresInLemma ==
    ASSUME NEW lists, CoreLists(lists), NEW c
    PROVE  c \in CoresIn(lists) <=> \E i \in 1..Sockets : Contains(lists[i], c)
  <1>1. \A i \in 1..Sockets : /\ DOMAIN lists[i] = 1..Len(lists[i])
                              /\ \A k \in 1..Len(lists[i]) : lists[i][k] \in Cores
    BY DEF CoreLists
  <1>2. DOMAIN lists = 1..Sockets
    BY DEF CoreLists
  <1>3. QED BY <1>1, <1>2, Zenon DEF CoresIn, Range, Contains

\* The cores before a socket can be counted.
LEMMA CountLemma ==
    ASSUME NEW lists \in [1..Sockets -> Seq(Cores)], NEW n \in Int
    PROVE  n <= Sockets => Cardinality(UNION {{j} \X (1..Len(lists[j])) : j \in 1..n}) \in Nat
  <1> SUFFICES ASSUME n <= Sockets
               PROVE  Cardinality(UNION {{j} \X (1..Len(lists[j])) : j \in 1..n}) \in Nat
    OBVIOUS
  <1> DEFINE part(j) == {j} \X (1..Len(lists[j]))
             parts == {part(j) : j \in 1..n}
             f == [j \in 1..n |-> part(j)]
  <1>1. f \in Surjection(1..n, parts)
    BY Zenon DEF Surjection
  <1>2. IsFiniteSet(1..n)
    BY FS_Interval
  <1>3. IsFiniteSet(parts)
    BY <1>1, <1>2, FS_Surjection
  <1>4. ASSUME NEW T \in parts PROVE IsFiniteSet(T)
    <2>1. PICK j \in 1..n : T = part(j)
      OBVIOUS
    <2>2. j \in 1..Sockets
      BY VNFControllerAssumption
    <2>3. Len(lists[j]) \in Int /\ 1 \in Int
      BY <2>2
    <2>4. IsFiniteSet(1..Len(lists[j]))
      BY <2>3, FS_Interval
    <2>5. IsFiniteSet({j})
      BY FS_Singleton
    <2>6. QED BY <2>1, <2>4, <2>5, FS_Product
  <1>5. IsFiniteSet(UNION parts)
    BY <1>3, <1>4, FS_UNION
  <1>6. Cardinality(UNION parts) \in Nat
    BY <1>5, FS_CardinalityType
  <1>7. QED BY <1>6

\* Each socket gives the first of its cores.
LEMMA AllocateCPULemma ==
    ASSUME NEW lists, CoreLists(lists), NEW num \in Nat,
           NEW taken, taken = allocateCPU(lists, num), taken # NoCPU
    PROVE  \E w \in [1..Sockets -> Nat] :
              /\ \A i \in 1..Sockets : w[i] <= Len(lists[i])
              /\ taken = [i \in 1..Sockets |-> SubSeq(lists[i], 1, w[i])]
  <1> DEFINE enough == {i \in DOMAIN lists : Len(lists[i]) >= num}
             before(i) == Cardinality(UNION {{j} \X (1..Len(lists[j])) : j \in 1..(i - 1)})
             wanted(i) == CASE enough # {} -> IF i = Min(enough) THEN num ELSE 0
                            [] before(i) < num -> num - before(i)
                            [] OTHER -> 0
             given(i) == IF wanted(i) < Len(lists[i]) THEN wanted(i) ELSE Len(lists[i])
             w == [i \in 1..Sockets |-> given(i)]
  <1>1. lists \in [1..Sockets -> Seq(Cores)] /\ DOMAIN lists = 1..Sockets
    BY DEF CoreLists
  <1>2. taken = [i \in DOMAIN lists |-> FirstCores(lists[i], wanted(i))]
    BY DEF allocateCPU
  <1>3. ASSUME NEW i \in 1..Sockets PROVE given(i) \in Nat /\ given(i) <= Len(lists[i])
    <2>1. before(i) \in Nat
      <3>1. i - 1 \in Int /\ i - 1 <= Sockets
        BY VNFControllerAssumption
      <3>2. QED BY <1>1, <3>1, CountLemma
    <2> HIDE DEF before, enough
    <2>2. wanted(i) \in Nat
      BY <2>1
    <2> HIDE DEF wanted
    <2>3. Len(lists[i]) \in Nat
      BY <1>1
    <2>4. QED BY <2>2, <2>3
  <1>4. ASSUME NEW i \in 1..Sockets PROVE FirstCores(lists[i], wanted(i)) = SubSeq(lists[i], 1, given(i))
    <2> HIDE DEF wanted
    <2>1. QED BY DEF FirstCores
  <1> HIDE DEF given, wanted
  <1>5. w \in [1..Sockets -> Nat] /\ \A i \in 1..Sockets : w[i] = given(i)
    BY <1>3
  <1>6. taken = [i \in 1..Sockets |-> SubSeq(lists[i], 1, w[i])]
    BY <1>1, <1>2, <1>4, <1>5
  <1>7. QED BY <1>3, <1>5, <1>6

IsCut(s, n, t, r) ==
    n \in Nat /\ n <= Len(s) /\ t = SubSeq(s, 1, n) /\ r = SubSeq(s, n + 1, Len(s))

\* Cutting the list of a socket in two.
LEMMA SplitLemma ==
    ASSUME NEW i, NEW s, SocketList(s, i), NEW n, NEW t, NEW r, IsCut(s, n, t, r)
    PROVE  /\ SocketList(t, i) /\ Len(t) = n /\ SocketList(r, i)
           /\ \A c : Contains(s, c) <=> Contains(t, c) \/ Contains(r, c)
           /\ \A c : ~(Contains(t, c) /\ Contains(r, c))
  <1> USE DEF IsCut
  <1>1. /\ s \in Seq(Cores) /\ Len(s) \in Nat /\ DOMAIN s = 1..Len(s)
        /\ \A k, l \in 1..Len(s) : s[k] = s[l] => k = l
        /\ \A k \in 1..Len(s) : s[k][1] = i
    BY DEF SocketList, IsInjective
  <1>2. /\ t \in Seq(Cores) /\ Len(t) = n /\ DOMAIN t = 1..n
        /\ \A k \in 1..n : t[k] = s[k]
    BY <1>1
  <1>3. r \in Seq(Cores) /\ Len(r) = Len(s) - n /\ DOMAIN r = 1..(Len(s) - n)
    <2>1. PICK m \in 1..(Len(s) + 1) : m = n + 1
      BY <1>1
    <2>2. SubSeq(s, m, Len(s)) \in Seq(Cores) /\ Len(SubSeq(s, m, Len(s))) = Len(s) - m + 1
      BY <1>1
    <2>3. Len(s) - m + 1 = Len(s) - n
      BY <1>1, <2>1
    <2>4. r \in Seq(Cores) /\ Len(r) = Len(s) - n
      BY <2>1, <2>2, <2>3
    <2>5. QED BY <2>4
  <1>4. ASSUME NEW k \in 1..(Len(s) - n) PROVE r[k] = s[k + n]
    <2>1. PICK m \in 1..(Len(s) + 1) : m = n + 1
      BY <1>1
    <2>2. k \in 1..(Len(s) - m + 1) /\ k + m - 1 = k + n
      BY <1>1, <2>1
    <2>3. SubSeq(s, m, Len(s))[k] = s[k + m - 1]
      BY <1>1, <2>2
    <2>4. QED BY <2>1, <2>2, <2>3
  <1>5. \A k \in 1..n : k \in 1..Len(s)
    BY <1>1
  <1>6. \A k \in 1..(Len(s) - n) : k + n \in 1..Len(s) /\ k + n > n /\ k + n \in Nat
    BY <1>1
  <1>7. SocketList(t, i)
    BY <1>1, <1>2, <1>5 DEF SocketList, IsInjective
  <1>8. SocketList(r, i)
    <2>1. ASSUME NEW k \in 1..(Len(s) - n), NEW l \in 1..(Len(s) - n), r[k] = r[l] PROVE k = l
      <3>1. k + n = l + n
        BY <1>1, <1>4, <1>6, <2>1
      <3>2. QED BY <3>1
    <2>2. ASSUME NEW k \in 1..(Len(s) - n) PROVE r[k][1] = i
      BY <1>1, <1>4, <1>6
    <2>3. QED BY <1>3, <2>1, <2>2 DEF SocketList, IsInjective
  <1>9. ASSUME NEW c, Contains(s, c) PROVE Contains(t, c) \/ Contains(r, c)
    <2>1. PICK k \in 1..Len(s) : s[k] = c
      BY <1>9 DEF Contains
    <2>2. CASE k <= n
      <3>1. k \in 1..n
        BY <2>2
      <3>2. QED BY <1>2, <2>1, <3>1 DEF Contains
    <2>3. CASE k > n
      <3>1. PICK l \in 1..(Len(s) - n) : l + n = k
        <4>1. k - n \in 1..(Len(s) - n) /\ (k - n) + n = k
          BY <1>1, <2>3
        <4>2. QED BY <4>1
      <3>2. QED BY <1>3, <1>4, <2>1, <3>1 DEF Contains
    <2>4. QED BY <2>2, <2>3
  <1>10. ASSUME NEW c, Contains(t, c) PROVE \E k \in 1..n : k \in 1..Len(s) /\ s[k] = c
    BY <1>2, <1>5, <1>10 DEF Contains
  <1>11. ASSUME NEW c, Contains(r, c) PROVE \E k \in 1..Len(s) : k > n /\ s[k] = c
    <2>1. PICK k \in 1..(Len(s) - n) : r[k] = c
      BY <1>3, <1>11 DEF Contains
    <2>2. QED BY <1>4, <1>6, <2>1
  <1>12. ASSUME NEW c, Contains(t, c), Contains(r, c) PROVE FALSE
    <2>1. PICK k \in 1..n : k \in 1..Len(s) /\ s[k] = c
      BY <1>10, <1>12
    <2>2. PICK l \in 1..Len(s) : l > n /\ s[l] = c
      BY <1>11, <1>12
    <2>3. k = l
      BY <1>1, <2>1, <2>2
    <2>4. QED BY <2>1, <2>2, <2>3
  <1>13. \A c : Contains(t, c) \/ Contains(r, c) => Contains(s, c)
    BY <1>10, <1>11 DEF Contains
  <1>14. QED BY <1>2, <1>7, <1>8, <1>9, <1>12, <1>13

\* Joining two lists of a socket.
LEMMA JoinLemma ==
    ASSUME NEW i, NEW s, SocketList(s, i), NEW t, SocketList(t, i),
           \A c : ~(Contains(s, c) /\ Contains(t, c)),
           NEW f, f = s \o t
    PROVE  /\ SocketList(f, i)
           /\ \A c : Contains(f, c) <=> Contains(s, c) \/ Contains(t, c)
  <1>1. /\ s \in Seq(Cores) /\ Len(s) \in Nat /\ DOMAIN s = 1..Len(s)
        /\ \A k, l \in 1..Len(s) : s[k] = s[l] => k = l
        /\ \A k \in 1..Len(s) : s[k][1] = i
    BY DEF SocketList, IsInjective
  <1>2. /\ t \in Seq(Cores) /\ Len(t) \in Nat /\ DOMAIN t = 1..Len(t)
        /\ \A k, l \in 1..Len(t) : t[k] = t[l] => k = l
        /\ \A k \in 1..Len(t) : t[k][1] = i
    BY DEF SocketList, IsInjective
  <1>3. f \in Seq(Cores) /\ Len(f) = Len(s) + Len(t) /\ DOMAIN f = 1..(Len(s) + Len(t))
    BY <1>1, <1>2
  <1>4. \A k \in 1..Len(s) : k \in 1..Len(f) /\ f[k] = s[k]
    BY <1>1, <1>2
  <1>5. \A k \in 1..Len(t) : Len(s) + k \in 1..Len(f) /\ f[Len(s) + k] = t[k]
    BY <1>1, <1>2
  <1>6. ASSUME NEW k \in 1..Len(f)
        PROVE  \/ k \in 1..Len(s)
               \/ \E l \in 1..Len(t) : k = Len(s) + l
    <2>1. CASE k <= Len(s)
      BY <2>1
    <2>2. CASE k > Len(s)
      <3>1. k - Len(s) \in 1..Len(t) /\ k = Len(s) + (k - Len(s))
        BY <1>1, <1>2, <1>3, <2>2
      <3>2. QED BY <3>1
    <2>3. QED BY <1>1, <2>1, <2>2
  <1>7. \A k \in 1..Len(s), l \in 1..Len(t) : s[k] # t[l]
    BY DEF Contains
  <1>8. ASSUME NEW k \in 1..Len(f), NEW l \in 1..Len(f), f[k] = f[l] PROVE k = l
    <2>1. CASE k \in 1..Len(s) /\ l \in 1..Len(s)
      BY <1>1, <1>4, <1>8, <2>1
    <2>2. CASE k \in 1..Len(s) /\ l \notin 1..Len(s)
      BY <1>4, <1>5, <1>6, <1>7, <1>8, <2>2
    <2>3. CASE k \notin 1..Len(s) /\ l \in 1..Len(s)
      BY <1>4, <1>5, <1>6, <1>7, <1>8, <2>3
    <2>4. CASE k \notin 1..Len(s) /\ l \notin 1..Len(s)
      <3>1. PICK m \in 1..Len(t) : k = Len(s) + m
        BY <1>6, <2>4
      <3>2. PICK n \in 1..Len(t) : l = Len(s) + n
        BY <1>6, <2>4
      <3>3. QED BY <1>2, <1>5, <1>8, <3>1, <3>2
    <2>5. QED BY <2>1, <2>2, <2>3, <2>4
  <1>9. \A k \in 1..Len(f) : f[k][1] = i
    BY <1>1, <1>2, <1>4, <1>5, <1>6
  <1>10. SocketList(f, i)
    BY <1>3, <1>8, <1>9 DEF SocketList, IsInjective
  <1>11. ASSUME NEW c, Contains(f, c) PROVE Contains(s, c) \/ Contains(t, c)
    <2>1. PICK k \in 1..Len(f) : f[k] = c
      BY <1>11 DEF Contains
    <2>2. QED BY <1>4, <1>5, <1>6, <2>1 DEF Contains
  <1>12. ASSUME NEW c, Contains(s, c) \/ Contains(t, c) PROVE Contains(f, c)
    BY <1>4, <1>5, <1>12 DEF Contains
  <1>13. QED BY <1>10, <1>11, <1>12

\* What is taken and what is left are the cores there were, each in one of the two.
LEMMA TakenLemma ==
    ASSUME NEW lists, CoreLists(lists), NEW num \in Nat,
           NEW taken, taken = allocateCPU(lists, num), taken # NoCPU,
           NEW rest, rest = [i \in DOMAIN lists |-> RestOf(lists[i], taken[i])]
    PROVE  /\ CoreLists(taken) /\ CoreLists(rest)
           /\ \A c : c \in CoresIn(lists) <=> c \in CoresIn(taken) \/ c \in CoresIn(rest)
           /\ \A c : ~(c \in CoresIn(taken) /\ c \in CoresIn(rest))
  <1>1. /\ lists \in [1..Sockets -> Seq(Cores)] /\ DOMAIN lists = 1..Sockets
        /\ \A i \in 1..Sockets : SocketList(lists[i], i)
    BY DEF CoreLists
  <1>2. PICK w \in [1..Sockets -> Nat] :
           /\ \A i \in 1..Sockets : w[i] <= Len(lists[i])
           /\ taken = [i \in 1..Sockets |-> SubSeq(lists[i], 1, w[i])]
    BY AllocateCPULemma
  <1>3. ASSUME NEW i \in 1..Sockets
        PROVE  /\ SocketList(taken[i], i) /\ SocketList(rest[i], i)
               /\ \A c : Contains(lists[i], c) <=> Contains(taken[i], c) \/ Contains(rest[i], c)
               /\ \A c : ~(Contains(taken[i], c) /\ Contains(rest[i], c))
    <2>1. PICK s : s = lists[i] /\ SocketList(s, i)
      BY <1>1
    <2>2. PICK n \in Nat : n = w[i] /\ n <= Len(s)
      BY <1>2, <2>1
    <2>3. PICK t : t = SubSeq(s, 1, n) /\ t = taken[i]
      BY <1>2, <2>1, <2>2
    <2>4. PICK r : r = SubSeq(s, n + 1, Len(s))
      OBVIOUS
    <2>5. /\ SocketList(t, i) /\ Len(t) = n /\ SocketList(r, i)
          /\ \A c : Contains(s, c) <=> Contains(t, c) \/ Contains(r, c)
          /\ \A c : ~(Contains(t, c) /\ Contains(r, c))
      <3>1. SocketList(s, i) /\ IsCut(s, n, t, r)
        BY <2>1, <2>2, <2>3, <2>4 DEF IsCut
      <3>2. QED BY ONLY <3>1, SplitLemma
    <2>6. rest[i] = r
      <3>1. rest[i] = RestOf(s, t)
        BY <1>1, <2>1, <2>3
      <3>2. QED BY ONLY <2>4, <2>5, <3>1 DEF RestOf
    <2>7. QED BY ONLY <2>1, <2>3, <2>5, <2>6
  <1>4. CoreLists(taken)
    <2>1. taken \in [1..Sockets -> Seq(Cores)]
      BY <1>2, <1>3 DEF SocketList
    <2>2. QED BY <1>3, <2>1 DEF CoreLists
  <1>5. CoreLists(rest)
    <2>1. rest \in [1..Sockets -> Seq(Cores)]
      BY <1>1, <1>3 DEF SocketList
    <2>2. QED BY <1>3, <2>1 DEF CoreLists
  <1>6. ASSUME NEW c, NEW i \in 1..Sockets, NEW j \in 1..Sockets,
               Contains(taken[i], c), Contains(rest[j], c)
        PROVE  FALSE
    <2>1. Contains(lists[i], c) /\ Contains(lists[j], c)
      BY <1>3, <1>6
    <2>2. c[1] = i /\ c[1] = j
      BY <1>1, <2>1 DEF SocketList, Contains
    <2>3. QED BY <1>3, <1>6, <2>2
  <1>7. \A c : /\ c \in CoresIn(lists) <=> \E i \in 1..Sockets : Contains(lists[i], c)
               /\ c \in CoresIn(taken) <=> \E i \in 1..Sockets : Contains(taken[i], c)
               /\ c \in CoresIn(rest) <=> \E i \in 1..Sockets : Contains(rest[i], c)
    BY ONLY <1>4, <1>5, CoreLists(lists), CoresInLemma
  <1>8. ASSUME NEW c
        PROVE  /\ c \in CoresIn(lists) <=> c \in CoresIn(taken) \/ c \in CoresIn(rest)
               /\ ~(c \in CoresIn(taken) /\ c \in CoresIn(rest))
    BY ONLY <1>3, <1>6, <1>7
  <1>9. QED BY ONLY <1>4, <1>5, <1>8

\* Cores that are given back are idle again.
LEMMA FreeCPULemma ==
    ASSUME NEW a, CoreLists(a), NEW b, CoreLists(b),
           \A c : ~(c \in CoresIn(a) /\ c \in CoresIn(b)),
           NEW f, f = freeCPU(a, b)
    PROVE  /\ CoreLists(f)
           /\ \A c : c \in CoresIn(f) <=> c \in CoresIn(a) \/ c \in CoresIn(b)
  <1>1. /\ DOMAIN a = 1..Sockets
        /\ \A i \in 1..Sockets : SocketList(a[i], i) /\ SocketList(b[i], i)
    BY DEF CoreLists
  <1>2. f = [i \in 1..Sockets |-> a[i] \o b[i]]
    BY <1>1 DEF freeCPU
  <1>3. ASSUME NEW i \in 1..Sockets
        PROVE  /\ SocketList(f[i], i)
               /\ \A c : Contains(f[i], c) <=> Contains(a[i], c) \/ Contains(b[i], c)
    <2>1. PICK s, t : /\ s = a[i] /\ SocketList(s, i)
                      /\ t = b[i] /\ SocketList(t, i)
      BY <1>1
    <2>2. \A c : ~(Contains(s, c) /\ Contains(t, c))
      BY <2>1, CoresInLemma
    <2>3. PICK g : g = s \o t /\ g = f[i]
      BY <1>2, <2>1
    <2>4. SocketList(g, i) /\ \A c : Contains(g, c) <=> Contains(s, c) \/ Contains(t, c)
      BY ONLY <2>1, <2>2, <2>3, JoinLemma
    <2>5. QED BY ONLY <2>1, <2>3, <2>4
  <1>4. CoreLists(f)
    <2>1. f \in [1..Sockets -> Seq(Cores)]
      BY <1>2, <1>3 DEF SocketList
    <2>2. QED BY <1>3, <2>1 DEF CoreLists
  <1>5. QED BY ONLY <1>3, <1>4, CoreLists(a), CoreLists(b), CoresInLemma
-----------------------------------------------------------------------------
(***************************************************************************)
(* The command in hand and the table.                                      *)
(***************************************************************************)
\* The VNFI a handler has come to.
LEMMA HandlingLemma ==
    ASSUME LoopInv, NEW cmdType \in CmdTypes, NEW v \in VNFIs, Handling(cmdType, v)
    PROVE  /\ job \in Job /\ job # None /\ Len(job.todo) \in Nat \ {0}
           /\ Tail(job.todo) \in Seq(VNFIs) /\ Len(Tail(job.todo)) = Len(job.todo) - 1
           /\ \A k \in 1..(Len(job.todo) - 1) :
                 Tail(job.todo)[k] = <<job.cmd.sfci, SFCLength - (Len(job.todo) - 1) + k>>
           /\ job.cmd.sfci \in SFCIs
           /\ SFCLength - Len(job.todo) + 1 \in 1..SFCLength
           /\ v = <<job.cmd.sfci, SFCLength - Len(job.todo) + 1>>
           /\ cmdType = CMD_TYPE_ADD_SFCI <=> vnfiSet[v] = None
  <1>1. job \in Job /\ job # None /\ job.cmd.cmdType = cmdType /\ job.todo # <<>>
    BY DEF LoopInv, TypeOK, Handling
  <1>2. job.todo \in Seq(VNFIs) /\ job.cmd \in Cmd
    BY <1>1 DEF Job
  <1>3. PICK todo \in Seq(VNFIs) : todo = job.todo /\ todo # <<>>
    BY <1>1, <1>2
  <1>4. PICK s \in SFCIs : s = job.cmd.sfci
    BY <1>2 DEF Cmd
  <1>5. /\ Len(todo) \in Nat \ {0} /\ Head(todo) = todo[1] /\ 1 \in 1..Len(todo)
        /\ Tail(todo) \in Seq(VNFIs) /\ Len(Tail(todo)) = Len(todo) - 1
        /\ \A k \in 1..(Len(todo) - 1) : k + 1 \in 1..Len(todo) /\ Tail(todo)[k] = todo[k + 1]
    BY <1>3
  <1>6. /\ s \in sfciDict /\ Len(todo) <= SFCLength
        /\ \A k \in 1..Len(todo) : todo[k] = <<s, SFCLength - Len(todo) + k>>
    BY <1>1, <1>3, <1>4 DEF LoopInv, JobInv
  <1>7. SFCLength \in Nat \ {0}
    BY VNFControllerAssumption
  <1>8. ASSUME NEW k \in 1..(Len(todo) - 1)
        PROVE  Tail(todo)[k] = <<s, SFCLength - (Len(todo) - 1) + k>>
    <2>1. SFCLength - Len(todo) + (k + 1) = SFCLength - (Len(todo) - 1) + k
      BY <1>5, <1>7
    <2>2. QED BY <1>5, <1>6, <2>1
  <1>9. PICK i \in 1..SFCLength : i = SFCLength - Len(todo) + 1
    <2>1. Len(todo) \in Nat /\ Len(todo) >= 1 /\ Len(todo) <= SFCLength /\ SFCLength \in Nat
      BY <1>5, <1>6, <1>7
    <2>2. SFCLength - Len(todo) + 1 \in 1..SFCLength
      BY ONLY <2>1
    <2>3. QED BY <2>2
  <1>10. v = <<s, i>>
    BY <1>3, <1>5, <1>6, <1>9 DEF Handling
  <1>11. vnfiSet[<<s, i>>] # None <=> Recorded(s, i)
    BY DEF LoopInv, TableInv
  <1>12. Recorded(s, i) <=> cmdType # CMD_TYPE_ADD_SFCI
    <2>1. ~(i <= SFCLength - Len(todo)) /\ i > SFCLength - Len(todo)
      BY <1>5, <1>7, <1>9
    <2>2. QED BY <1>1, <1>3, <1>4, <1>6, <2>1 DEF Recorded
  <1>13. QED BY <1>1, <1>3, <1>4, <1>5, <1>8, <1>9, <1>10, <1>11, <1>12

\* Whatever becomes of that VNFI, the next one is as it should be.
LEMMA HandledLemma ==
    ASSUME LoopInv, NEW cmdType \in CmdTypes, NEW v \in VNFIs, Handling(cmdType, v),
           NEW success \in BOOLEAN, job' = [job EXCEPT !.todo = Tail(@), !.success = success],
           NEW status \in VNFIDeployStatus \cup {None},
           vnfiSet' = [vnfiSet EXCEPT ![v] = status],
           cmdType = CMD_TYPE_ADD_SFCI <=> status # None,
           UNCHANGED <<sfciDict, inbox, rplys>>, exhausted' \in BOOLEAN
    PROVE  LoopInv'
  <1>1. /\ job \in Job /\ job # None /\ Len(job.todo) \in Nat \ {0}
        /\ Tail(job.todo) \in Seq(VNFIs) /\ Len(Tail(job.todo)) = Len(job.todo) - 1
        /\ \A k \in 1..(Len(job.todo) - 1) :
              Tail(job.todo)[k] = <<job.cmd.sfci, SFCLength - (Len(job.todo) - 1) + k>>
        /\ job.cmd.sfci \in SFCIs
        /\ SFCLength - Len(job.todo) + 1 \in 1..SFCLength
        /\ v = <<job.cmd.sfci, SFCLength - Len(job.todo) + 1>>
    BY HandlingLemma
  <1>2. PICK n \in Nat : n = Len(job.todo) - 1 /\ SFCLength - Len(job.todo) = SFCLength - n - 1
    BY <1>1, VNFControllerAssumption
  <1>3. /\ job' \in Job /\ job'.cmd = job.cmd /\ job'.todo = Tail(job.todo)
    BY <1>1 DEF Job
  <1>4. job' # None
    BY <1>3, NoneAssumption
  <1>5. PICK s \in SFCIs : s = job.cmd.sfci
    BY <1>1
  <1>6. SFCLength \in Nat /\ n <= SFCLength /\ SFCLength - n \in 1..SFCLength
    BY <1>1, <1>2, VNFControllerAssumption
  <1>7. v = <<s, SFCLength - n>>
    <2>1. SFCLength - Len(job.todo) + 1 = SFCLength - n
      BY <1>1, <1>2, <1>6
    <2>2. QED BY <1>1, <1>5, <2>1
  <1>8. Len(job'.todo) = n
    BY <1>1, <1>2, <1>3
  <1>9. JobInv'
    <2>1. job'.cmd.sfci \in sfciDict'
      BY <1>1, <1>3 DEF LoopInv, JobInv
    <2>2. \A k \in 1..n : job'.todo[k] = <<job'.cmd.sfci, SFCLength - n + k>>
      BY <1>1, <1>2, <1>3
    <2>3. QED BY <1>6, <1>8, <2>1, <2>2 DEF JobInv
  <1>10. TypeOK'
    <2>1. vnfiSet' \in [VNFIs -> VNFIDeployStatus \cup {None}]
      BY DEF LoopInv, TypeOK
    <2>2. QED BY <1>3, <2>1 DEF LoopInv, TypeOK
  <1>11. ASSUME NEW q \in SFCIs, NEW i \in 1..SFCLength
         PROVE  vnfiSet'[<<q, i>>] # None <=> Recorded(q, i)'
    <2>1. <<q, i>> \in VNFIs /\ vnfiSet \in [VNFIs -> VNFIDeployStatus \cup {None}]
      BY DEF VNFIs, LoopInv, TypeOK
    <2>2. vnfiSet[<<q, i>>] # None <=> Recorded(q, i)
      BY DEF LoopInv, TableInv
    <2>3. s \in sfciDict /\ sfciDict' = sfciDict /\ job.cmd.cmdType = cmdType
      BY <1>1, <1>5 DEF LoopInv, JobInv, Handling
    <2>4. CASE <<q, i>> = v
      <3>1. q = s /\ i = SFCLength - n
        BY <1>7, <2>4
      <3>2. vnfiSet'[<<q, i>>] = status
        BY <2>1, <2>4
      <3>3. i <= SFCLength - n /\ ~(i > SFCLength - n)
        BY <1>6, <3>1
      <3>4. Recorded(q, i)' <=> cmdType = CMD_TYPE_ADD_SFCI
        BY <1>3, <1>4, <1>5, <1>8, <2>3, <3>1, <3>3 DEF Recorded
      <3>5. QED BY <3>2, <3>4
    <2>5. CASE <<q, i>> # v
      <3>1. vnfiSet'[<<q, i>>] = vnfiSet[<<q, i>>]
        BY <2>1, <2>5
      <3>2. CASE q # s
        BY <1>3, <1>5, <2>2, <2>3, <3>1, <3>2 DEF Recorded
      <3>3. CASE q = s
        <4>1. i # SFCLength - n
          BY <1>7, <2>5, <3>3
        <4>2. /\ i <= SFCLength - n <=> i <= SFCLength - Len(job.todo)
              /\ i > SFCLength - n <=> i > SFCLength - Len(job.todo)
          BY <1>2, <1>6, <4>1
        <4>3. Recorded(q, i)' <=> Recorded(q, i)
          BY <1>1, <1>3, <1>4, <1>5, <1>8, <2>3, <3>3, <4>2 DEF Recorded
        <4>4. QED BY <2>2, <3>1, <4>3
      <3>4. QED BY <3>2, <3>3
    <2>6. QED BY <2>4, <2>5
  <1>12. TableInv'
    BY <1>11 DEF TableInv
  <1>13. QED BY <1>9, <1>10, <1>12 DEF LoopInv

\* The cores and virtio IDs that addVNFI gets.
LEMMA AllocationLemma ==
    ASSUME CoreLists(cpuAllo), cpus # NoCPU
    PROVE  /\ CoreLists(cpus) /\ CoreLists(cpuAlloLess)
           /\ \A c : c \in CoresIn(cpuAllo) <=> c \in CoresIn(cpus) \/ c \in CoresIn(cpuAlloLess)
           /\ \A c : ~(c \in CoresIn(cpus) /\ c \in CoresIn(cpuAlloLess))
  <1>1. PICK taken, rest, lists :
           /\ lists = cpuAllo /\ taken = cpus /\ rest = cpuAlloLess
           /\ taken = allocateCPU(lists, maxCPUNum)
           /\ rest = [i \in DOMAIN lists |-> RestOf(lists[i], taken[i])]
    BY DEF cpus, cpuAlloLess
  <1>2. maxCPUNum \in Nat
    BY VNFControllerAssumption
  <1>3. /\ CoreLists(taken) /\ CoreLists(rest)
        /\ \A c : c \in CoresIn(lists) <=> c \in CoresIn(taken) \/ c \in CoresIn(rest)
        /\ \A c : ~(c \in CoresIn(taken) /\ c \in CoresIn(rest))
    BY <1>1, <1>2, TakenLemma
  <1>4. QED BY <1>1, <1>3

LEMMA StatusLemma ==
    ASSUME CoreLists(cpuAllo), RangeList(vioAllo), cpus # NoCPU, NEW port \in 1..MaxPort
    PROVE  /\ Deployed(cpus, vio.result, port) \in VNFIDeployStatus
           /\ Deployed(cpus, vio.result, port) # None
  <1>1. cpus \in Seq(Seq(Cores))
    <2>1. cpus \in [1..Sockets -> Seq(Cores)] /\ Sockets \in Nat
      BY AllocationLemma, VNFControllerAssumption DEF CoreLists
    <2>2. QED BY <2>1
  <1>2. vio.result \in Int
    BY AllocateSourceLemma DEF vio
  <1>3. Deployed(cpus, vio.result, port) \in VNFIDeployStatus
    BY <1>1, <1>2 DEF Deployed, VNFIDeployStatus
  <1>4. QED BY <1>3, NoneAssumption

\* One step of the loop, or of anything else, keeps the table in order.
LEMMA LoopStep ==
    ASSUME LoopInv, CoreLists(cpuAllo), RangeList(vioAllo), [Next]_vars
    PROVE  LoopInv'
  <1>1. CASE UNCHANGED vars
    BY <1>1 DEF vars, tableVars, LoopInv, TypeOK, JobInv, TableInv, Recorded
  <1>2. ASSUME NEW s \in SFCIs, NEW cmdType \in CmdTypes, SendCmd(s, cmdType) PROVE LoopInv'
    <2>1. [cmdType |-> cmdType, sfci |-> s] \in Cmd
      BY DEF Cmd
    <2>2. UNCHANGED <<sfciDict, vnfiSet, job, rplys, exhausted>> /\ inbox' \in Seq(Cmd)
      BY <1>2, <2>1 DEF SendCmd, tableVars, LoopInv, TypeOK
    <2>3. QED BY <2>2 DEF LoopInv, TypeOK, JobInv, TableInv, Recorded
  <1>3. ASSUME NEW v \in VNFIs, ContainerStops(v) PROVE LoopInv'
    BY <1>3 DEF ContainerStops, tableVars, LoopInv, TypeOK, JobInv, TableInv, Recorded
  <1>4. ASSUME NEW cmdType \in CmdTypes, Got(cmdType)
        PROVE  /\ inbox' \in Seq(Cmd) /\ job = None
               /\ Head(inbox) \in Cmd /\ Head(inbox).sfci \in SFCIs
    <2>1. inbox \in Seq(Cmd) /\ inbox # <<>> /\ inbox' = Tail(inbox) /\ job = None
      BY <1>4 DEF Got, LoopInv, TypeOK
    <2>2. Head(inbox) \in Cmd /\ Tail(inbox) \in Seq(Cmd)
      BY <2>1
    <2>3. Head(inbox).sfci \in SFCIs
      BY <2>2 DEF Cmd
    <2>4. QED BY <2>1, <2>2, <2>3
  <1>5. CASE AddKnown \/ DelUnknown
    <2>1. UNCHANGED <<sfciDict, vnfiSet, job, exhausted>> /\ inbox' \in Seq(Cmd) /\ Head(inbox) \in Cmd
      BY <1>4, <1>5 DEF AddKnown, DelUnknown, tableVars, CmdTypes
    <2>2. \A success \in BOOLEAN : Rply(Head(inbox), success) \in Seq([cmd : Cmd, success : BOOLEAN])
      BY <2>1 DEF Rply, LoopInv, TypeOK
    <2>3. rplys' \in Seq([cmd : Cmd, success : BOOLEAN])
      BY <1>5, <2>2 DEF AddKnown, DelUnknown
    <2>4. QED BY <2>1, <2>3 DEF LoopInv, TypeOK, JobInv, TableInv, Recorded
  <1>6. SFCLength \in Nat \ {0}
    BY VNFControllerAssumption
  <1>7. ASSUME NEW s \in SFCIs, NEW cmd \in Cmd, s = cmd.sfci,
               job' = [cmd |-> cmd, todo |-> vnfiSequence(s), success |-> TRUE]
        PROVE  /\ job' \in Job /\ job' # None /\ job'.cmd = cmd
               /\ Len(job'.todo) = SFCLength
               /\ \A k \in 1..Len(job'.todo) : job'.todo[k] = <<s, SFCLength - Len(job'.todo) + k>>
    <2>1. /\ vnfiSequence(s) \in Seq(VNFIs) /\ Len(vnfiSequence(s)) = SFCLength
          /\ \A k \in 1..SFCLength : vnfiSequence(s)[k] = <<s, k>>
      BY <1>6 DEF vnfiSequence, VNFIs
    <2>2. job' \in Job /\ job'.todo = vnfiSequence(s) /\ job'.cmd = cmd
      BY <1>7, <2>1 DEF Job
    <2>3. job' # None
      BY <2>2, NoneAssumption
    <2>4. \A k \in 1..SFCLength : SFCLength - SFCLength + k = k
      BY <1>6
    <2>5. QED BY <2>1, <2>2, <2>3, <2>4
  <1>8. CASE AddStart \/ DelStart
    <2>1. PICK cmd \in Cmd, s \in SFCIs :
             /\ cmd = Head(inbox) /\ s = cmd.sfci /\ job = None /\ inbox' \in Seq(Cmd)
             /\ cmd.cmdType = IF AddStart THEN CMD_TYPE_ADD_SFCI ELSE CMD_TYPE_DEL_SFCI
      BY <1>4, <1>8 DEF AddStart, DelStart, CmdTypes, Got
    <2>2. /\ job' = [cmd |-> cmd, todo |-> vnfiSequence(s), success |-> TRUE]
          /\ UNCHANGED <<vnfiSet, rplys, exhausted>>
      BY <1>8, <2>1 DEF AddStart, DelStart, tableVars
    <2>3. sfciDict \subseteq SFCIs
      BY DEF LoopInv, TypeOK
    <2>4. sfciDict' = sfciDict \cup {s} /\ sfciDict' \in SUBSET SFCIs
      <3>1. CASE AddStart
        BY <2>1, <2>3, <3>1 DEF AddStart
      <3>2. CASE DelStart
        BY <2>1, <2>3, <3>2 DEF DelStart, tableVars
      <3>3. QED BY <1>8, <3>1, <3>2
    <2>5. /\ job' \in Job /\ job' # None /\ job'.cmd = cmd
          /\ Len(job'.todo) = SFCLength
          /\ \A k \in 1..Len(job'.todo) : job'.todo[k] = <<s, SFCLength - Len(job'.todo) + k>>
      BY <1>7, <2>1, <2>2
    <2>6. TypeOK' /\ JobInv'
      BY <1>6, <2>1, <2>2, <2>4, <2>5 DEF LoopInv, TypeOK, JobInv
    <2>7. ASSUME NEW q \in SFCIs, NEW i \in 1..SFCLength
          PROVE  vnfiSet'[<<q, i>>] # None <=> Recorded(q, i)'
      <3>1. vnfiSet'[<<q, i>>] # None <=> q \in sfciDict
        BY <2>1, <2>2 DEF LoopInv, TableInv, Recorded
      <3>2. ~(i <= SFCLength - SFCLength) /\ i > SFCLength - SFCLength
        BY <1>6
      <3>3. CASE q # s
        BY <2>1, <2>4, <2>5, <3>1, <3>3 DEF Recorded
      <3>4. CASE q = s /\ AddStart
        <4>1. q \notin sfciDict
          BY <2>1, <3>4 DEF AddStart
        <4>2. QED BY <2>1, <2>4, <2>5, <3>1, <3>2, <3>4, <4>1 DEF Recorded
      <3>5. CASE q = s /\ ~AddStart
        <4>1. q \in sfciDict /\ cmd.cmdType # CMD_TYPE_ADD_SFCI
          BY <1>8, <2>1, <3>5 DEF DelStart, CMD_TYPE_ADD_SFCI, CMD_TYPE_DEL_SFCI
        <4>2. QED BY <2>1, <2>4, <2>5, <3>1, <3>2, <3>5, <4>1 DEF Recorded
      <3>6. QED BY <3>3, <3>4, <3>5
    <2>8. QED BY <2>6, <2>7 DEF LoopInv, TableInv
  <1>9. CASE Done
    <2>1. PICK s \in SFCIs : s = job.cmd.sfci
      BY <1>9 DEF Done, LoopInv, TypeOK, Job, Cmd
    <2>2. /\ job # None /\ job \in Job /\ Len(job.todo) = 0 /\ job' = None
          /\ UNCHANGED <<vnfiSet, inbox, exhausted>>
          /\ rplys' = Rply(job.cmd, job.success)
          /\ s \in sfciDict
      BY <1>9, <2>1 DEF Done, LoopInv, TypeOK, JobInv
    <2>3. rplys' \in Seq([cmd : Cmd, success : BOOLEAN])
      <3>1. [cmd |-> job.cmd, success |-> job.success] \in [cmd : Cmd, success : BOOLEAN]
        BY <2>2 DEF Job
      <3>2. QED BY <2>2, <3>1 DEF Rply, LoopInv, TypeOK
    <2>4. sfciDict' = IF job.cmd.cmdType = CMD_TYPE_DEL_SFCI THEN sfciDict \ {s} ELSE sfciDict
      BY <1>9, <2>1 DEF Done
    <2>5. TypeOK' /\ JobInv'
      BY <2>2, <2>3, <2>4 DEF LoopInv, TypeOK, JobInv
    <2>6. job.cmd.cmdType = CMD_TYPE_DEL_SFCI <=> job.cmd.cmdType # CMD_TYPE_ADD_SFCI
      BY <2>2 DEF Job, Cmd, CmdTypes, CMD_TYPE_ADD_SFCI, CMD_TYPE_DEL_SFCI
    <2>7. ASSUME NEW q \in SFCIs, NEW i \in 1..SFCLength
          PROVE  vnfiSet'[<<q, i>>] # None <=> Recorded(q, i)'
      <3>1. vnfiSet'[<<q, i>>] # None <=> Recorded(q, i)
        BY <2>2 DEF LoopInv, TableInv
      <3>2. i <= SFCLength - 0 /\ ~(i > SFCLength - 0)
        BY <1>6
      <3>3. Recorded(q, i)' <=> q \in sfciDict'
        BY <2>2 DEF Recorded
      <3>4. CASE q # s
        BY <2>1, <2>4, <3>1, <3>3, <3>4 DEF Recorded
      <3>5. CASE q = s
        BY <2>1, <2>2, <2>4, <2>6, <3>1, <3>2, <3>3, <3>5 DEF Recorded
      <3>6. QED BY <3>4, <3>5
    <2>8. QED BY <2>5, <2>7 DEF LoopInv, TableInv
  <1>10. ASSUME NEW v \in VNFIs,
                AddNoCPU(v) \/ AddRunRaises(v) \/ AddLogsRaise(v) \/ AddPortRaises(v)
         PROVE  LoopInv'
    <2>1. /\ Handling(CMD_TYPE_ADD_SFCI, v) /\ FailVNFI(v)
          /\ UNCHANGED <<sfciDict, inbox, rplys>>
          /\ exhausted' \in BOOLEAN
      BY <1>10 DEF AddNoCPU, AddRunRaises, AddLogsRaise, AddPortRaises, Allocate, LoopInv, TypeOK
    <2>2. Failed \in VNFIDeployStatus /\ Failed # None
      BY NoneAssumption DEF Failed, VNFIDeployStatus
    <2>3. QED BY <2>1, <2>2, HandledLemma DEF FailVNFI, CmdTypes
  <1>11. ASSUME NEW v \in VNFIs, NEW cmdType \in CmdTypes, Handling(cmdType, v),
                job' = [job EXCEPT !.todo = Tail(@)]
         PROVE  /\ job.success \in BOOLEAN
                /\ job' = [job EXCEPT !.todo = Tail(@), !.success = job.success]
    BY <1>11 DEF Handling, LoopInv, TypeOK, Job
  <1>12. ASSUME NEW v \in VNFIs, AddOk(v) PROVE LoopInv'
    <2>1. /\ Handling(CMD_TYPE_ADD_SFCI, v) /\ cpus # NoCPU
          /\ job' = [job EXCEPT !.todo = Tail(@)]
          /\ UNCHANGED <<sfciDict, inbox, rplys>>
          /\ exhausted' \in BOOLEAN
      BY <1>12 DEF AddOk, Allocate, LoopInv, TypeOK
    <2>2. PICK port \in 1..MaxPort : vnfiSet' = [vnfiSet EXCEPT ![v] = Deployed(cpus, vio.result, port)]
      BY <1>12 DEF AddOk, UnusedPorts
    <2>3. PICK status \in VNFIDeployStatus : status = Deployed(cpus, vio.result, port) /\ status # None
      BY <2>1, StatusLemma
    <2>4. QED BY <1>11, <2>1, <2>2, <2>3, HandledLemma DEF CmdTypes
  <1>13. ASSUME NEW v \in VNFIs, DelFailed(v) \/ DelDeployed(v) PROVE LoopInv'
    <2>1. /\ Handling(CMD_TYPE_DEL_SFCI, v) /\ DropVNFI(v)
          /\ UNCHANGED <<sfciDict, inbox, rplys>>
          /\ exhausted' \in BOOLEAN
      BY <1>13 DEF DelFailed, DelDeployed, LoopInv, TypeOK
    <2>2. CMD_TYPE_DEL_SFCI # CMD_TYPE_ADD_SFCI
      BY DEF CMD_TYPE_DEL_SFCI, CMD_TYPE_ADD_SFCI
    <2>3. QED BY <1>11, <2>1, <2>2, HandledLemma DEF DropVNFI, CmdTypes
  <1>14. QED BY <1>1, <1>2, <1>3, <1>5, <1>8, <1>9, <1>10, <1>12, <1>13 DEF Next, HandlerStep
-----------------------------------------------------------------------------
(***************************************************************************)
(* Cores.                                                                  *)
(***************************************************************************)
LEMMA CoreInvMeans == CoreInv => CoresArePartitioned
  <1> SUFFICES ASSUME CoreInv PROVE CoresArePartitioned
    OBVIOUS
  <1>1. \A lists : CoresIn(lists) \subseteq Cores
    BY DEF CoresIn
  <1>2. ASSUME NEW v \in VNFIs, IsDeployed(v)
        PROVE  /\ CoresIn(vnfiSet[v].cpus) \cap (CoresIn(cpuAllo) \cup stranded) = {}
               /\ \A w \in VNFIs \ {v} :
                     IsDeployed(w) => CoresIn(vnfiSet[v].cpus) \cap CoresIn(vnfiSet[w].cpus) = {}
    <2>1. ASSUME NEW c, c \in CoresIn(vnfiSet[v].cpus)
          PROVE  /\ c \notin CoresIn(cpuAllo) /\ c \notin stranded
                 /\ \A w \in VNFIs \ {v} : ~Holds(w, c)
      BY <1>1, <1>2, <2>1 DEF CoreInv, Holds
    <2>2. QED BY <1>2, <2>1 DEF Holds
  <1>3. \A i \in DOMAIN cpuAllo : IsInjective(cpuAllo[i])
    BY DEF CoreInv, CoreLists, SocketList
  <1>4. CoresAreAccountedFor
    <2>1. ASSUME NEW c \in Cores
          PROVE  c \in CoresIn(cpuAllo) \cup stranded
                       \cup UNION {CoresIn(vnfiSet[v].cpus) : v \in {w \in VNFIs : IsDeployed(w)}}
      BY DEF CoreInv, Holds
    <2>2. stranded \subseteq Cores
      BY DEF CoreInv
    <2>3. QED BY <1>1, <2>1, <2>2 DEF CoresAreAccountedFor
  <1>5. QED BY <1>2, <1>3, <1>4 DEF CoresArePartitioned, CoresAreExclusive

\* Nothing changes if no VNFI is deployed or deleted and the same cores are idle.
LEMMA SameCores ==
    ASSUME CoreInv, CoreLists(cpuAllo'), stranded' = stranded,
           \A c : c \in CoresIn(cpuAllo') <=> c \in CoresIn(cpuAllo),
           \A w \in VNFIs : IsDeployed(w)' <=> IsDeployed(w),
           \A w \in VNFIs : IsDeployed(w) => vnfiSet'[w] = vnfiSet[w]
    PROVE  CoreInv'
  <1>1. \A w \in VNFIs : \A c : Holds(w, c)' <=> Holds(w, c)
    BY DEF Holds
  <1>2. \A w \in VNFIs : IsDeployed(w)' => CoreLists(vnfiSet'[w].cpus)
    BY DEF CoreInv
  <1>3. QED BY <1>1, <1>2 DEF CoreInv

\* A VNFI that has failed is not deployed.
LEMMA NotDeployed ==
    ASSUME LoopInv, NEW v \in VNFIs, NEW x, x = None \/ x = Failed,
           vnfiSet[v] = None \/ vnfiSet[v] = Failed,
           vnfiSet' = [vnfiSet EXCEPT ![v] = x]
    PROVE  /\ \A w \in VNFIs : IsDeployed(w)' <=> IsDeployed(w)
           /\ \A w \in VNFIs : IsDeployed(w) => vnfiSet'[w] = vnfiSet[w]
  <1>1. \A w \in VNFIs : vnfiSet'[w] = IF w = v THEN x ELSE vnfiSet[w]
    BY DEF LoopInv, TypeOK
  <1>2. Failed.state # VNFI_STATE_DEPLOYED
    BY DEF Failed, VNFI_STATE_FAILED, VNFI_STATE_DEPLOYED
  <1>3. QED BY <1>1, <1>2 DEF IsDeployed

LEMMA CoreStep ==
    ASSUME LoopInv, CoreInv, RangeList(vioAllo), [Next]_vars
    PROVE  CoreInv'
  <1>1. ASSUME UNCHANGED <<vnfiSet, cpuAllo, stranded>> PROVE CoreInv'
    BY <1>1, SameCores DEF CoreInv, IsDeployed
  <1>2. CASE \/ UNCHANGED vars \/ AddKnown \/ AddStart \/ DelUnknown \/ DelStart \/ Done
             \/ \E s \in SFCIs, cmdType \in CmdTypes : SendCmd(s, cmdType)
             \/ \E v \in VNFIs : ContainerStops(v)
    BY <1>1, <1>2 DEF vars, tableVars, alloVars, AddKnown, AddStart, DelUnknown, DelStart, Done,
                      SendCmd, ContainerStops
  <1>3. CoreLists(cpuAllo)
    BY DEF CoreInv
  <1>4. ASSUME NEW v \in VNFIs, Handling(CMD_TYPE_ADD_SFCI, v) PROVE vnfiSet[v] = None
    BY <1>4, HandlingLemma DEF CmdTypes
  <1>5. ASSUME NEW v \in VNFIs, AddNoCPU(v) \/ DelFailed(v) PROVE CoreInv'
    <2>1. UNCHANGED <<cpuAllo, stranded>>
      BY <1>5 DEF AddNoCPU, DelFailed, alloVars
    <2>2. CASE AddNoCPU(v)
      <3>1. vnfiSet[v] = None /\ vnfiSet' = [vnfiSet EXCEPT ![v] = Failed]
        BY <1>4, <2>2 DEF AddNoCPU, FailVNFI
      <3>2. QED BY <1>3, <2>1, <3>1, NotDeployed, SameCores
    <2>3. CASE DelFailed(v)
      <3>1. /\ vnfiSet[v] # None /\ vnfiSet[v].state = VNFI_STATE_FAILED
            /\ vnfiSet' = [vnfiSet EXCEPT ![v] = None]
        BY <2>3, HandlingLemma DEF DelFailed, DropVNFI, CmdTypes, CMD_TYPE_ADD_SFCI, CMD_TYPE_DEL_SFCI
      <3>2. vnfiSet[v] \in VNFIDeployStatus
        BY <3>1 DEF LoopInv, TypeOK
      <3>3. vnfiSet[v] = Failed
        BY <3>1, <3>2 DEF VNFIDeployStatus, Failed, VNFI_STATE_FAILED, VNFI_STATE_DEPLOYED
      <3>4. QED BY <1>3, <2>1, <3>1, <3>3, NotDeployed, SameCores
    <2>4. QED BY <1>5, <2>2, <2>3
  <1>6. ASSUME NEW v \in VNFIs, AddRunRaises(v) \/ AddLogsRaise(v) PROVE CoreInv'
    <2>1. /\ vnfiSet[v] = None /\ vnfiSet' = [vnfiSet EXCEPT ![v] = Failed]
          /\ cpus # NoCPU /\ cpuAllo' = freeCPU(cpuAlloLess, cpus) /\ stranded' = stranded
      BY <1>4, <1>6 DEF AddRunRaises, AddLogsRaise, Allocate, FailVNFI, FreeBoth
    <2>2. /\ CoreLists(cpus) /\ CoreLists(cpuAlloLess)
          /\ \A c : c \in CoresIn(cpuAllo) <=> c \in CoresIn(cpus) \/ c \in CoresIn(cpuAlloLess)
          /\ \A c : ~(c \in CoresIn(cpus) /\ c \in CoresIn(cpuAlloLess))
      BY <1>3, <2>1, AllocationLemma
    <2>3. /\ CoreLists(cpuAllo')
          /\ \A c : c \in CoresIn(cpuAllo') <=> c \in CoresIn(cpuAlloLess) \/ c \in CoresIn(cpus)
      BY <2>1, <2>2, FreeCPULemma
    <2>4. QED BY <2>1, <2>2, <2>3, NotDeployed, SameCores
  <1>7. ASSUME NEW v \in VNFIs, AddPortRaises(v) PROVE CoreInv'
    <2>1. /\ vnfiSet[v] = None /\ vnfiSet' = [vnfiSet EXCEPT ![v] = Failed]
          /\ cpus # NoCPU /\ cpuAllo' = cpuAlloLess /\ stranded' = stranded \cup CoresIn(cpus)
      BY <1>4, <1>7 DEF AddPortRaises, Allocate, FailVNFI
    <2>2. /\ CoreLists(cpus) /\ CoreLists(cpuAlloLess)
          /\ \A c : c \in CoresIn(cpuAllo) <=> c \in CoresIn(cpus) \/ c \in CoresIn(cpuAlloLess)
          /\ \A c : ~(c \in CoresIn(cpus) /\ c \in CoresIn(cpuAlloLess))
      BY <1>3, <2>1, AllocationLemma
    <2>3. /\ \A w \in VNFIs : IsDeployed(w)' <=> IsDeployed(w)
          /\ \A w \in VNFIs : IsDeployed(w) => vnfiSet'[w] = vnfiSet[w]
      BY <2>1, NotDeployed
    <2>4. \A w \in VNFIs : \A c : Holds(w, c)' <=> Holds(w, c)
      BY <2>3 DEF Holds
    <2>5. \A w \in VNFIs : IsDeployed(w)' => CoreLists(vnfiSet'[w].cpus)
      BY <2>3 DEF CoreInv
    <2>6. stranded' \subseteq Cores
      BY <2>1 DEF CoreInv, CoresIn
    <2>7. ASSUME NEW c \in Cores
          PROVE  /\ c \in CoresIn(cpuAllo') \/ c \in stranded' \/ \E w \in VNFIs : Holds(w, c)'
                 /\ ~(c \in CoresIn(cpuAllo') /\ c \in stranded')
                 /\ \A w \in VNFIs : Holds(w, c)' =>
                       /\ c \notin CoresIn(cpuAllo') /\ c \notin stranded'
                       /\ \A u \in VNFIs \ {w} : ~Holds(u, c)'
      BY <2>1, <2>2, <2>4 DEF CoreInv
    <2>8. QED BY <2>1, <2>2, <2>5, <2>6, <2>7 DEF CoreInv
  <1>8. ASSUME NEW v \in VNFIs, AddOk(v) PROVE CoreInv'
    <2>1. vnfiSet[v] = None /\ cpus # NoCPU /\ cpuAllo' = cpuAlloLess /\ stranded' = stranded
      BY <1>4, <1>8 DEF AddOk, Allocate
    <2>2. PICK status : /\ vnfiSet' = [vnfiSet EXCEPT ![v] = status]
                        /\ status # None /\ status.state = VNFI_STATE_DEPLOYED /\ status.cpus = cpus
      <3>1. PICK port \in 1..MaxPort : vnfiSet' = [vnfiSet EXCEPT ![v] = Deployed(cpus, vio.result, port)]
        BY <1>8 DEF AddOk, UnusedPorts
      <3>2. Deployed(cpus, vio.result, port) # None
        BY <1>3, <2>1, StatusLemma
      <3>3. /\ Deployed(cpus, vio.result, port).state = VNFI_STATE_DEPLOYED
            /\ Deployed(cpus, vio.result, port).cpus = cpus
        BY DEF Deployed
      <3>4. QED BY <3>1, <3>2, <3>3
    <2>3. /\ CoreLists(cpus) /\ CoreLists(cpuAlloLess)
          /\ \A c : c \in CoresIn(cpuAllo) <=> c \in CoresIn(cpus) \/ c \in CoresIn(cpuAlloLess)
          /\ \A c : ~(c \in CoresIn(cpus) /\ c \in CoresIn(cpuAlloLess))
      BY <1>3, <2>1, AllocationLemma
    <2>4. \A w \in VNFIs : vnfiSet'[w] = IF w = v THEN status ELSE vnfiSet[w]
      BY <2>2 DEF LoopInv, TypeOK
    <2>5. \A w \in VNFIs : \A c : Holds(w, c)' <=> IF w = v THEN c \in CoresIn(cpus) ELSE Holds(w, c)
      BY <2>2, <2>4 DEF Holds, IsDeployed
    <2>6. \A w \in VNFIs : IsDeployed(w)' => CoreLists(vnfiSet'[w].cpus)
      BY <2>2, <2>3, <2>4 DEF CoreInv, IsDeployed
    <2>7. \A c : ~Holds(v, c)
      BY <2>1 DEF Holds, IsDeployed
    <2>8. ASSUME NEW c \in Cores
          PROVE  /\ c \in CoresIn(cpuAllo') \/ c \in stranded' \/ \E w \in VNFIs : Holds(w, c)'
                 /\ ~(c \in CoresIn(cpuAllo') /\ c \in stranded')
                 /\ \A w \in VNFIs : Holds(w, c)' =>
                       /\ c \notin CoresIn(cpuAllo') /\ c \notin stranded'
                       /\ \A u \in VNFIs \ {w} : ~Holds(u, c)'
      BY <2>1, <2>3, <2>5, <2>7 DEF CoreInv
    <2>9. QED BY <2>1, <2>3, <2>6, <2>8 DEF CoreInv
  <1>9. ASSUME NEW v \in VNFIs, DelDeployed(v) PROVE CoreInv'
    <2>1. vnfiSet[v] # None
      BY <1>9, HandlingLemma DEF DelDeployed, CmdTypes, CMD_TYPE_ADD_SFCI, CMD_TYPE_DEL_SFCI
    <2>2. /\ IsDeployed(v) /\ vnfiSet' = [vnfiSet EXCEPT ![v] = None]
          /\ cpuAllo' = freeCPU(cpuAllo, vnfiSet[v].cpus) /\ stranded' = stranded
      BY <1>9, <2>1 DEF DelDeployed, DropVNFI, IsDeployed
    <2>3. CoreLists(vnfiSet[v].cpus) /\ \A c : ~(c \in CoresIn(cpuAllo) /\ c \in CoresIn(vnfiSet[v].cpus))
      <3>1. \A c : c \in CoresIn(cpuAllo) => c \in Cores
        BY DEF CoresIn
      <3>2. QED BY <2>2, <3>1 DEF CoreInv, Holds
    <2>4. /\ CoreLists(cpuAllo')
          /\ \A c : c \in CoresIn(cpuAllo') <=> c \in CoresIn(cpuAllo) \/ c \in CoresIn(vnfiSet[v].cpus)
      BY <1>3, <2>2, <2>3, FreeCPULemma
    <2>5. \A w \in VNFIs : vnfiSet'[w] = IF w = v THEN None ELSE vnfiSet[w]
      BY <2>2 DEF LoopInv, TypeOK
    <2>6. \A w \in VNFIs : \A c : Holds(w, c)' <=> w # v /\ Holds(w, c)
      BY <2>5 DEF Holds, IsDeployed
    <2>7. \A w \in VNFIs : IsDeployed(w)' => CoreLists(vnfiSet'[w].cpus)
      BY <2>5 DEF CoreInv, IsDeployed
    <2>8. \A c : Holds(v, c) <=> c \in CoresIn(vnfiSet[v].cpus)
      BY <2>2 DEF Holds
    <2>9. ASSUME NEW c \in Cores
          PROVE  /\ c \in CoresIn(cpuAllo') \/ c \in stranded' \/ \E w \in VNFIs : Holds(w, c)'
                 /\ ~(c \in CoresIn(cpuAllo') /\ c \in stranded')
                 /\ \A w \in VNFIs : Holds(w, c)' =>
                       /\ c \notin CoresIn(cpuAllo') /\ c \notin stranded'
                       /\ \A u \in VNFIs \ {w} : ~Holds(u, c)'
      BY <2>2, <2>4, <2>6, <2>8 DEF CoreInv
    <2>10. QED BY <2>2, <2>4, <2>7, <2>9 DEF CoreInv
  <1>10. QED BY <1>2, <1>5, <1>6, <1>7, <1>8, <1>9 DEF Next, HandlerStep
-----------------------------------------------------------------------------
(***************************************************************************)
(* Virtio IDs.                                                             *)
(***************************************************************************)
\* The IDs a VNFI was given.
LEMMA VioOfLemma ==
    ASSUME NEW start \in Int, NEW x
    PROVE  x \in start..(start + 2 - 1) <=> x = start \/ x = start + 1
  OBVIOUS

\* Nothing changes if no VNFI is deployed or deleted and no more IDs are idle.
LEMMA SameVio ==
    ASSUME VioInv, RangeList(vioAllo'), exhausted' \in BOOLEAN, exhausted => exhausted',
           ~exhausted' => /\ RangesAreDisjoint(vioAllo')
                          /\ \A x : x \in Idle(vioAllo') => x \in Idle(vioAllo),
           \A w \in VNFIs : IsDeployed(w)' <=> IsDeployed(w),
           \A w \in VNFIs : IsDeployed(w) => vnfiSet'[w] = vnfiSet[w]
    PROVE  VioInv'
  <1>1. ASSUME ~exhausted', NEW v \in VNFIs, IsDeployed(v)'
        PROVE  /\ (VioOf(v) \cap IdleVio = {})'
               /\ \A w \in VNFIs \ {v} : IsDeployed(w)' => (VioOf(v) \cap VioOf(w) = {})'
    <2>1. /\ VioOf(v) \cap IdleVio = {}
          /\ \A w \in VNFIs \ {v} : IsDeployed(w) => VioOf(v) \cap VioOf(w) = {}
      BY <1>1 DEF VioInv, VioIsExclusive
    <2>2. \A w \in VNFIs : IsDeployed(w) => VioOf(w)' = VioOf(w)
      BY DEF VioOf
    <2>3. IdleVio = Idle(vioAllo) /\ IdleVio' = Idle(vioAllo')
      BY DEF IdleVio, Idle
    <2>4. QED BY <1>1, <2>1, <2>2, <2>3
  <1>2. VioIsExclusive'
    BY <1>1 DEF VioIsExclusive
  <1>3. QED BY <1>2 DEF VioInv

LEMMA VioStep ==
    ASSUME LoopInv, LoopInv', CoreInv, VioInv, [Next]_vars
    PROVE  VioInv'
  <1>1. ASSUME UNCHANGED <<vnfiSet, vioAllo, exhausted>> PROVE VioInv'
    BY <1>1 DEF VioInv, RangeList, RangesAreDisjoint, VioIsExclusive, IsDeployed, VioOf, IdleVio
  <1>2. CASE \/ UNCHANGED vars \/ AddKnown \/ AddStart \/ DelUnknown \/ DelStart \/ Done
             \/ \E s \in SFCIs, cmdType \in CmdTypes : SendCmd(s, cmdType)
             \/ \E v \in VNFIs : ContainerStops(v)
    BY <1>1, <1>2 DEF vars, tableVars, alloVars, AddKnown, AddStart, DelUnknown, DelStart, Done,
                      SendCmd, ContainerStops
  <1>3. RangeList(vioAllo) /\ exhausted \in BOOLEAN /\ exhausted' \in BOOLEAN
    BY DEF VioInv, LoopInv, TypeOK
  <1>4. ASSUME NEW v \in VNFIs, Handling(CMD_TYPE_ADD_SFCI, v) PROVE vnfiSet[v] = None
    BY <1>4, HandlingLemma DEF CmdTypes
  <1>5. /\ vio.result \in Int /\ RangeList(vio.list)
        /\ RangesAreDisjoint(vioAllo) /\ vio.result # NoSource =>
             /\ RangesAreDisjoint(vio.list)
             /\ \A x : x \in Idle(vio.list) => x \in Idle(vioAllo)
             /\ \A x \in vio.result..(vio.result + 2 - 1) : x \in Idle(vioAllo) /\ x \notin Idle(vio.list)
    <2>1. 2 \in Nat \ {0}
      OBVIOUS
    <2>2. QED BY <1>3, <2>1, AllocateSourceLemma DEF vio
  <1>6. ASSUME NEW v \in VNFIs, Allocate(v)
        PROVE  /\ exhausted => exhausted'
               /\ ~exhausted' => RangesAreDisjoint(vioAllo) /\ vio.result # NoSource
    BY <1>3, <1>6 DEF Allocate, VioInv
  <1>7. ASSUME NEW v \in VNFIs, AddNoCPU(v) \/ DelFailed(v) PROVE VioInv'
    <2>1. UNCHANGED <<vioAllo, exhausted>>
      BY <1>7 DEF AddNoCPU, DelFailed, alloVars
    <2>2. ~exhausted' => RangesAreDisjoint(vioAllo') /\ \A x : x \in Idle(vioAllo') => x \in Idle(vioAllo)
      BY <2>1 DEF VioInv
    <2>3. CASE AddNoCPU(v)
      <3>1. vnfiSet[v] = None /\ vnfiSet' = [vnfiSet EXCEPT ![v] = Failed]
        BY <1>4, <2>3 DEF AddNoCPU, FailVNFI
      <3>2. QED BY <1>3, <2>1, <2>2, <3>1, NotDeployed, SameVio
    <2>4. CASE DelFailed(v)
      <3>1. /\ vnfiSet[v] # None /\ vnfiSet[v].state = VNFI_STATE_FAILED
            /\ vnfiSet' = [vnfiSet EXCEPT ![v] = None]
        BY <2>4, HandlingLemma DEF DelFailed, DropVNFI, CmdTypes, CMD_TYPE_ADD_SFCI, CMD_TYPE_DEL_SFCI
      <3>2. vnfiSet[v] \in VNFIDeployStatus
        BY <3>1 DEF LoopInv, TypeOK
      <3>3. vnfiSet[v] = Failed
        BY <3>1, <3>2 DEF VNFIDeployStatus, Failed, VNFI_STATE_FAILED, VNFI_STATE_DEPLOYED
      <3>4. QED BY <1>3, <2>1, <2>2, <3>1, <3>3, NotDeployed, SameVio
    <2>5. QED BY <1>7, <2>3, <2>4
  <1>8. ASSUME NEW v \in VNFIs, AddRunRaises(v) \/ AddLogsRaise(v) PROVE VioInv'
    <2>1. /\ vnfiSet[v] = None /\ vnfiSet' = [vnfiSet EXCEPT ![v] = Failed]
          /\ Allocate(v) /\ vioAllo' = freeSource(vio.list, vio.result, 2)
      BY <1>4, <1>8 DEF AddRunRaises, AddLogsRaise, Allocate, FailVNFI, FreeBoth
    <2>2. PICK l, start : l = vio.list /\ start = vio.result /\ RangeList(l) /\ start \in Int
      BY <1>5
    <2>3. /\ RangeList(vioAllo')
          /\ RangesAreDisjoint(l) /\ (\A x \in start..(start + 2 - 1) : x \notin Idle(l)) =>
                /\ RangesAreDisjoint(vioAllo')
                /\ \A x : x \in Idle(vioAllo') => x \in Idle(l) \/ x \in start..(start + 2 - 1)
      <3>1. 2 \in Nat \ {0} /\ vioAllo' = freeSource(l, start, 2)
        BY <2>1, <2>2
      <3>2. QED BY <2>2, <3>1, FreeSourceLemma
    <2>4. ~exhausted' => /\ RangesAreDisjoint(vioAllo')
                         /\ \A x : x \in Idle(vioAllo') => x \in Idle(vioAllo)
      BY <1>5, <1>6, <2>1, <2>2, <2>3
    <2>5. exhausted => exhausted'
      BY <1>6, <2>1
    <2>6. QED BY <1>3, <2>1, <2>3, <2>4, <2>5, NotDeployed, SameVio
  <1>9. ASSUME NEW v \in VNFIs, AddPortRaises(v) PROVE VioInv'
    <2>1. /\ vnfiSet[v] = None /\ vnfiSet' = [vnfiSet EXCEPT ![v] = Failed]
          /\ Allocate(v) /\ vioAllo' = vio.list
      BY <1>4, <1>9 DEF AddPortRaises, Allocate, FailVNFI
    <2>2. QED BY <1>3, <1>5, <1>6, <2>1, NotDeployed, SameVio
  <1>10. IdleVio = Idle(vioAllo) /\ IdleVio' = Idle(vioAllo')
    BY DEF IdleVio, Idle
  <1>11. ASSUME NEW v \in VNFIs, AddOk(v) PROVE VioInv'
    <2>1. vnfiSet[v] = None /\ Allocate(v) /\ cpus # NoCPU /\ vioAllo' = vio.list
      BY <1>4, <1>11 DEF AddOk, Allocate
    <2>2. PICK status : /\ vnfiSet' = [vnfiSet EXCEPT ![v] = status]
                        /\ status.vioStart = vio.result
      <3>1. PICK port : vnfiSet' = [vnfiSet EXCEPT ![v] = Deployed(cpus, vio.result, port)]
        BY <1>11 DEF AddOk
      <3>2. Deployed(cpus, vio.result, port).vioStart = vio.result
        BY DEF Deployed
      <3>3. QED BY <3>1, <3>2
    <2>3. \A w \in VNFIs : vnfiSet'[w] = IF w = v THEN status ELSE vnfiSet[w]
      BY <2>2 DEF LoopInv, TypeOK
    <2>4. PICK start \in Int : start = vio.result /\ VioOf(v)' = {start, start + 1}
      BY <1>5, <2>2, <2>3 DEF VioOf
    <2>5. \A w \in VNFIs \ {v} : VioOf(w)' = VioOf(w) /\ (IsDeployed(w)' <=> IsDeployed(w))
      BY <2>3 DEF VioOf, IsDeployed
    <2>6. ASSUME ~exhausted' PROVE VioIsExclusive'
      <3>1. /\ ~exhausted /\ RangesAreDisjoint(vio.list)
            /\ \A x : x \in Idle(vioAllo') => x \in Idle(vioAllo)
            /\ \A x \in start..(start + 2 - 1) : x \in Idle(vioAllo) /\ x \notin Idle(vioAllo')
        BY <1>5, <1>6, <2>1, <2>4, <2>6
      <3>2. \A x \in {start, start + 1} : x \in Idle(vioAllo) /\ x \notin Idle(vioAllo')
        BY <3>1, VioOfLemma
      <3>3. VioOf(v)' \cap IdleVio' = {}
        BY <1>10, <2>4, <3>2
      <3>4. ASSUME NEW w \in VNFIs \ {v}, IsDeployed(w)'
            PROVE  VioOf(w)' \cap IdleVio' = {} /\ VioOf(w)' \cap VioOf(v)' = {}
        <4>1. VioOf(w) \cap Idle(vioAllo) = {}
          BY <1>10, <2>5, <3>1, <3>4 DEF VioInv, VioIsExclusive
        <4>2. QED BY <1>10, <2>4, <2>5, <3>1, <3>2, <4>1
      <3>5. ASSUME NEW w \in VNFIs \ {v}, NEW u \in VNFIs \ {v}, u # w, IsDeployed(w)', IsDeployed(u)'
            PROVE  VioOf(w)' \cap VioOf(u)' = {}
        BY <2>5, <3>1, <3>5 DEF VioInv, VioIsExclusive
      <3>6. ASSUME NEW w \in VNFIs, IsDeployed(w)'
            PROVE  /\ VioOf(w)' \cap IdleVio' = {}
                   /\ \A u \in VNFIs \ {w} : IsDeployed(u)' => VioOf(w)' \cap VioOf(u)' = {}
        <4>1. CASE w = v
          BY <3>3, <3>4, <4>1
        <4>2. CASE w # v
          BY <3>4, <3>5, <3>6, <4>2
        <4>3. QED BY <4>1, <4>2
      <3>7. QED BY <3>6 DEF VioIsExclusive
    <2>7. RangeList(vioAllo') /\ (~exhausted' => RangesAreDisjoint(vioAllo'))
      BY <1>5, <1>6, <2>1
    <2>8. exhausted' => VioIsExclusive'
      BY DEF VioIsExclusive
    <2>9. QED BY <2>6, <2>7, <2>8 DEF VioInv
  <1>12. ASSUME NEW v \in VNFIs, DelDeployed(v) PROVE VioInv'
    <2>1. vnfiSet[v] # None
      BY <1>12, HandlingLemma DEF DelDeployed, CmdTypes, CMD_TYPE_ADD_SFCI, CMD_TYPE_DEL_SFCI
    <2>2. /\ IsDeployed(v) /\ vnfiSet' = [vnfiSet EXCEPT ![v] = None] /\ exhausted' = exhausted
          /\ vioAllo' = freeSource(vioAllo, vnfiSet[v].vioStart, 2)
      BY <1>12, <2>1 DEF DelDeployed, DropVNFI, IsDeployed
    <2>3. PICK start \in Int : start = vnfiSet[v].vioStart /\ VioOf(v) = {start, start + 1}
      <3>1. vnfiSet[v] \in VNFIDeployStatus
        BY <2>1 DEF LoopInv, TypeOK
      <3>2. vnfiSet[v].vioStart \in Int
        BY <2>2, <3>1 DEF VNFIDeployStatus, IsDeployed, VNFI_STATE_FAILED, VNFI_STATE_DEPLOYED
      <3>3. QED BY <3>2 DEF VioOf
    <2>4. /\ RangeList(vioAllo')
          /\ RangesAreDisjoint(vioAllo) /\ (\A x \in start..(start + 2 - 1) : x \notin Idle(vioAllo)) =>
                /\ RangesAreDisjoint(vioAllo')
                /\ \A x : x \in Idle(vioAllo') => x \in Idle(vioAllo) \/ x \in start..(start + 2 - 1)
      <3>1. 2 \in Nat \ {0} /\ vioAllo' = freeSource(vioAllo, start, 2)
        BY <2>2, <2>3
      <3>2. QED BY <1>3, <3>1, FreeSourceLemma
    <2>5. \A w \in VNFIs : vnfiSet'[w] = IF w = v THEN None ELSE vnfiSet[w]
      BY <2>2 DEF LoopInv, TypeOK
    <2>6. \A w \in VNFIs : IsDeployed(w)' => w # v /\ IsDeployed(w) /\ VioOf(w)' = VioOf(w)
      BY <2>5 DEF VioOf, IsDeployed
    <2>7. ASSUME ~exhausted' PROVE VioIsExclusive' /\ RangesAreDisjoint(vioAllo')
      <3>1. /\ ~exhausted /\ RangesAreDisjoint(vioAllo)
            /\ VioOf(v) \cap Idle(vioAllo) = {}
        BY <1>10, <2>2, <2>7 DEF VioInv, VioIsExclusive
      <3>2. \A x \in start..(start + 2 - 1) : x \notin Idle(vioAllo)
        BY <2>3, <3>1, VioOfLemma
      <3>3. /\ RangesAreDisjoint(vioAllo')
            /\ \A x : x \in Idle(vioAllo') => x \in Idle(vioAllo) \/ x \in VioOf(v)
        BY <2>3, <2>4, <3>1, <3>2, VioOfLemma
      <3>4. ASSUME NEW w \in VNFIs, IsDeployed(w)'
            PROVE  /\ VioOf(w)' \cap IdleVio' = {}
                   /\ \A u \in VNFIs \ {w} : IsDeployed(u)' => VioOf(w)' \cap VioOf(u)' = {}
        <4>1. /\ VioOf(w) \cap Idle(vioAllo) = {}
              /\ \A u \in VNFIs \ {w} : IsDeployed(u) => VioOf(w) \cap VioOf(u) = {}
          BY <1>10, <2>6, <3>1, <3>4 DEF VioInv, VioIsExclusive
        <4>2. VioOf(w) \cap VioOf(v) = {} /\ VioOf(w)' = VioOf(w)
          BY <2>2, <2>6, <3>4, <4>1
        <4>3. QED BY <1>10, <2>6, <3>3, <4>1, <4>2
      <3>5. QED BY <3>3, <3>4 DEF VioIsExclusive
    <2>8. exhausted' => VioIsExclusive'
      BY DEF VioIsExclusive
    <2>9. QED BY <2>4, <2>7, <2>8 DEF VioInv
  <1>13. QED BY <1>2, <1>7, <1>8, <1>9, <1>11, <1>12 DEF Next, HandlerStep
-----------------------------------------------------------------------------
(***************************************************************************)
(* Replies.                                                                *)
(***************************************************************************)
AddOf(s) == [cmdType |-> CMD_TYPE_ADD_SFCI, sfci |-> s]
DelOf(s) == [cmdType |-> CMD_TYPE_DEL_SFCI, sfci |-> s]

LEMMA ReplyLemma ==
    ASSUME LoopInv, NEW r, rplys' = Append(rplys, r)
    PROVE  \E n \in Nat :
              /\ n = Len(rplys) /\ Len(rplys') = n + 1 /\ rplys'[n + 1] = r
              /\ \A k \in 1..n : rplys'[k] = rplys[k]
  <1>1. PICK n \in Nat : n = Len(rplys)
    BY DEF LoopInv, TypeOK
  <1>2. rplys \in Seq([cmd : Cmd, success : BOOLEAN])
    BY DEF LoopInv, TypeOK
  <1>3. /\ Len(rplys') = n + 1 /\ rplys'[n + 1] = r
        /\ \A k \in 1..n : rplys'[k] = rplys[k]
    BY <1>1, <1>2
  <1>4. QED BY <1>1, <1>3

\* A failure that was told stays so until a deletion succeeds.
LEMMA ToldStays ==
    ASSUME LoopInv, NEW s, FailureTold(s),
           NEW cmd, NEW success, rplys' = Rply(cmd, success),
           [cmd |-> cmd, success |-> success] # [cmd |-> DelOf(s), success |-> TRUE]
    PROVE  FailureTold(s)'
  <1>1. PICK r : r = [cmd |-> cmd, success |-> success]
    OBVIOUS
  <1>2. rplys' = Append(rplys, r)
    BY <1>1 DEF Rply
  <1>3. PICK n \in Nat :
           /\ n = Len(rplys) /\ Len(rplys') = n + 1 /\ rplys'[n + 1] = r
           /\ \A k \in 1..n : rplys'[k] = rplys[k]
    BY <1>2, ReplyLemma
  <1>4. PICK k \in 1..n :
           /\ rplys[k] = [cmd |-> AddOf(s), success |-> FALSE]
           /\ \A l \in k..n : rplys[l] # [cmd |-> DelOf(s), success |-> TRUE]
    BY <1>3 DEF FailureTold, AddOf, DelOf
  <1>5. ASSUME NEW l \in k..(n + 1) PROVE rplys'[l] # [cmd |-> DelOf(s), success |-> TRUE]
    <2>1. CASE l = n + 1
      BY <1>1, <1>3, <2>1
    <2>2. CASE l # n + 1
      <3>1. l \in k..n /\ l \in 1..n
        BY <2>2
      <3>2. QED BY <1>3, <1>4, <3>1
    <2>3. QED BY <2>1, <2>2
  <1>6. k \in 1..(n + 1) /\ rplys'[k] = [cmd |-> AddOf(s), success |-> FALSE]
    BY <1>3, <1>4
  <1>7. QED BY <1>3, <1>5, <1>6 DEF FailureTold, AddOf, DelOf

LEMMA ToldNow ==
    ASSUME LoopInv, NEW s, rplys' = Rply(AddOf(s), FALSE)
    PROVE  FailureTold(s)'
  <1>1. PICK r : r = [cmd |-> AddOf(s), success |-> FALSE]
    OBVIOUS
  <1>2. rplys' = Append(rplys, r)
    BY <1>1 DEF Rply
  <1>3. PICK n \in Nat : Len(rplys') = n + 1 /\ rplys'[n + 1] = r
    BY <1>2, ReplyLemma
  <1>4. r # [cmd |-> DelOf(s), success |-> TRUE]
    BY <1>1
  <1>5. ASSUME NEW l \in (n + 1)..(n + 1)
        PROVE  rplys'[l] # [cmd |-> DelOf(s), success |-> TRUE]
    <2>1. l = n + 1
      OBVIOUS
    <2>2. QED BY <1>3, <1>4, <2>1
  <1>6. n + 1 \in 1..(n + 1)
    OBVIOUS
  <1>7. QED BY <1>1, <1>3, <1>5, <1>6 DEF FailureTold, AddOf, DelOf

\* Failures stay as they are if no VNFI fails and the command in hand stays.
LEMMA SameFailures ==
    ASSUME FailureInv, UNCHANGED rplys,
           \A s \in SFCIs : HasFailed(s)' => HasFailed(s),
           job # None => job' # None /\ job'.cmd = job.cmd /\ job'.success = job.success
    PROVE  FailureInv'
  <1>1. \A s \in SFCIs : FailureTold(s)' <=> FailureTold(s)
    BY DEF FailureTold
  <1>2. QED BY <1>1 DEF FailureInv

LEMMA FailureStep ==
    ASSUME LoopInv, LoopInv', CoreLists(cpuAllo), RangeList(vioAllo), FailureInv, [Next]_vars
    PROVE  FailureInv'
  <1>1. CASE \/ UNCHANGED vars
             \/ \E s \in SFCIs, cmdType \in CmdTypes : SendCmd(s, cmdType)
             \/ \E v \in VNFIs : ContainerStops(v)
    <2>1. UNCHANGED <<rplys, job, vnfiSet>>
      BY <1>1 DEF vars, tableVars, SendCmd, ContainerStops
    <2>2. QED BY <2>1, SameFailures DEF HasFailed
  <1>2. CASE AddStart \/ DelStart
    <2>1. UNCHANGED <<rplys, vnfiSet>> /\ job = None
      BY <1>2 DEF AddStart, DelStart, Got, tableVars
    <2>2. QED BY <2>1, SameFailures DEF HasFailed
  <1>3. CMD_TYPE_ADD_SFCI # CMD_TYPE_DEL_SFCI
    BY DEF CMD_TYPE_ADD_SFCI, CMD_TYPE_DEL_SFCI
  <1>4. CASE AddKnown \/ DelUnknown
    <2>1. UNCHANGED vnfiSet /\ job = None
      BY <1>4 DEF AddKnown, DelUnknown, Got, tableVars
    <2>2. PICK cmd, success :
             /\ rplys' = Rply(cmd, success)
             /\ \A s : [cmd |-> cmd, success |-> success] # [cmd |-> DelOf(s), success |-> TRUE]
      <3>1. CASE AddKnown
        <4>1. rplys' = Rply(Head(inbox), TRUE) /\ Head(inbox).cmdType = CMD_TYPE_ADD_SFCI
          BY <3>1 DEF AddKnown, Got
        <4>2. ASSUME NEW s
              PROVE  [cmd |-> Head(inbox), success |-> TRUE] # [cmd |-> DelOf(s), success |-> TRUE]
          <5>1. DelOf(s).cmdType = CMD_TYPE_DEL_SFCI
            BY DEF DelOf
          <5>2. Head(inbox) # DelOf(s)
            BY <1>3, <4>1, <5>1
          <5>3. QED BY <5>2
        <4>3. QED BY <4>1, <4>2
      <3>2. CASE DelUnknown
        BY <3>2 DEF DelUnknown
      <3>3. QED BY <1>4, <3>1, <3>2
    <2>3. ASSUME NEW s \in SFCIs, HasFailed(s)' PROVE FailureTold(s)'
      <3>1. FailureTold(s)
        BY <2>1, <2>3 DEF HasFailed, FailureInv
      <3>2. QED BY <2>2, <3>1, ToldStays
    <2>4. QED BY <2>3 DEF FailureInv
  <1>5. CASE Done
    <2>1. /\ UNCHANGED vnfiSet /\ job # None /\ job \in Job /\ Len(job.todo) = 0
          /\ rplys' = Rply(job.cmd, job.success)
      BY <1>5 DEF Done, LoopInv, TypeOK
    <2>2. ASSUME NEW s \in SFCIs, HasFailed(s)' PROVE FailureTold(s)'
      <3>1. HasFailed(s)
        BY <2>1, <2>2 DEF HasFailed
      <3>2. CASE job.cmd = AddOf(s) /\ job.success = FALSE
        BY <2>1, <3>2, ToldNow
      <3>3. CASE FailureTold(s)
        <4>1. job.cmd # DelOf(s)
          <5>1. SUFFICES ASSUME job.cmd = DelOf(s) PROVE FALSE
            OBVIOUS
          <5>2. PICK i \in 1..SFCLength : vnfiSet[<<s, i>>] = Failed
            BY <3>1 DEF HasFailed
          <5>3. Recorded(s, i)
            <6>1. Failed # None
              BY NoneAssumption DEF Failed, VNFIDeployStatus
            <6>2. QED BY <5>2, <6>1 DEF LoopInv, TableInv
          <5>4. i > SFCLength - Len(job.todo)
            BY <1>3, <2>1, <5>1, <5>3 DEF Recorded, DelOf
          <5>5. QED BY <2>1, <5>4, VNFControllerAssumption
        <4>2. [cmd |-> job.cmd, success |-> job.success] # [cmd |-> DelOf(s), success |-> TRUE]
          BY <4>1
        <4>3. QED BY <2>1, <3>3, <4>2, ToldStays
      <3>4. QED BY <3>1, <3>2, <3>3 DEF FailureInv, AddOf
    <2>3. QED BY <2>2 DEF FailureInv
  <1>6. vnfiSet \in [VNFIs -> VNFIDeployStatus \cup {None}]
    BY DEF LoopInv, TypeOK
  <1>7. \A s \in SFCIs, i \in 1..SFCLength : <<s, i>> \in VNFIs
    BY DEF VNFIs
  <1>8. ASSUME NEW v \in VNFIs, NEW x, x # Failed, vnfiSet' = [vnfiSet EXCEPT ![v] = x]
        PROVE  \A s \in SFCIs : HasFailed(s)' => HasFailed(s)
    BY <1>6, <1>7, <1>8 DEF HasFailed
  <1>9. ASSUME NEW v \in VNFIs, NEW cmdType \in CmdTypes, Handling(cmdType, v)
        PROVE  job \in Job /\ job # None /\ job.cmd.sfci \in SFCIs
    BY <1>9, HandlingLemma
  <1>10. ASSUME NEW v \in VNFIs,
                AddNoCPU(v) \/ AddRunRaises(v) \/ AddLogsRaise(v) \/ AddPortRaises(v)
         PROVE  FailureInv'
    <2>1. Handling(CMD_TYPE_ADD_SFCI, v) /\ FailVNFI(v) /\ UNCHANGED rplys
      BY <1>10 DEF AddNoCPU, AddRunRaises, AddLogsRaise, AddPortRaises, Allocate
    <2>2. /\ job \in Job /\ job # None /\ job.cmd.sfci \in SFCIs /\ v[1] = job.cmd.sfci
          /\ Tail(job.todo) \in Seq(VNFIs)
      BY <2>1, HandlingLemma DEF CmdTypes
    <2>3. job' \in Job /\ job'.cmd = job.cmd /\ job'.success = FALSE
      <3>1. job' = [job EXCEPT !.todo = Tail(@), !.success = FALSE]
        BY <2>1 DEF FailVNFI
      <3>2. QED BY <2>2, <3>1 DEF Job
    <2>4. job' # None
      BY <2>3, NoneAssumption
    <2>5. job.cmd = AddOf(job.cmd.sfci)
      BY <2>1, <2>2 DEF Job, Cmd, AddOf, Handling
    <2>6. ASSUME NEW s \in SFCIs, s # job.cmd.sfci, HasFailed(s)' PROVE FailureTold(s)'
      <3>1. HasFailed(s)
        BY <1>6, <1>7, <2>1, <2>2, <2>6 DEF HasFailed, FailVNFI
      <3>2. job.cmd # [cmdType |-> CMD_TYPE_ADD_SFCI, sfci |-> s]
        BY <2>6
      <3>3. FailureTold(s)
        BY <3>1, <3>2 DEF FailureInv
      <3>4. QED BY <2>1, <3>3 DEF FailureTold
    <2>7. QED BY <2>3, <2>4, <2>5, <2>6 DEF FailureInv, AddOf
  <1>11. ASSUME NEW v \in VNFIs, NEW cmdType \in CmdTypes, Handling(cmdType, v),
                job' = [job EXCEPT !.todo = Tail(@)]
         PROVE  job' # None /\ job'.cmd = job.cmd /\ job'.success = job.success
    <2>1. job \in Job /\ Tail(job.todo) \in Seq(VNFIs)
      BY <1>11, HandlingLemma
    <2>2. job' \in Job /\ job'.cmd = job.cmd /\ job'.success = job.success
      BY <1>11, <2>1 DEF Job
    <2>3. QED BY <2>2, NoneAssumption
  <1>12. ASSUME NEW v \in VNFIs, AddOk(v) PROVE FailureInv'
    <2>1. /\ Handling(CMD_TYPE_ADD_SFCI, v) /\ UNCHANGED rplys
          /\ job' = [job EXCEPT !.todo = Tail(@)]
      BY <1>12 DEF AddOk, Allocate
    <2>2. PICK port : vnfiSet' = [vnfiSet EXCEPT ![v] = Deployed(cpus, vio.result, port)]
      BY <1>12 DEF AddOk
    <2>3. Deployed(cpus, vio.result, port) # Failed
      <3>1. Deployed(cpus, vio.result, port).state # Failed.state
        BY DEF Deployed, Failed, VNFI_STATE_FAILED, VNFI_STATE_DEPLOYED
      <3>2. QED BY <3>1
    <2>4. QED BY <1>8, <1>11, <2>1, <2>2, <2>3, SameFailures DEF CmdTypes
  <1>13. ASSUME NEW v \in VNFIs, DelFailed(v) \/ DelDeployed(v) PROVE FailureInv'
    <2>1. /\ Handling(CMD_TYPE_DEL_SFCI, v) /\ UNCHANGED rplys
          /\ job' = [job EXCEPT !.todo = Tail(@)]
          /\ vnfiSet' = [vnfiSet EXCEPT ![v] = None]
      BY <1>13 DEF DelFailed, DelDeployed, DropVNFI
    <2>2. None # Failed
      BY NoneAssumption DEF Failed, VNFIDeployStatus
    <2>3. QED BY <1>8, <1>11, <2>1, <2>2, SameFailures DEF CmdTypes
  <1>14. QED BY <1>1, <1>2, <1>4, <1>5, <1>10, <1>12, <1>13 DEF Next, HandlerStep
-----------------------------------------------------------------------------
(***************************************************************************)
(* The theorems.                                                           *)
(***************************************************************************)
AllInv == LoopInv /\ CoreInv /\ VioInv /\ FailureInv

LEMMA InitAll == Init => AllInv
  <1> SUFFICES ASSUME Init PROVE AllInv
    OBVIOUS
  <1>1. \A s \in SFCIs, i \in 1..SFCLength : <<s, i>> \in VNFIs
    BY DEF VNFIs
  <1>2. \A v \in VNFIs : vnfiSet[v] = None
    BY DEF Init
  <1>3. LoopInv
    <2>1. TypeOK
      <3>1. vnfiSet \in [VNFIs -> VNFIDeployStatus \cup {None}]
        BY DEF Init
      <3>2. inbox \in Seq(Cmd) /\ rplys \in Seq([cmd : Cmd, success : BOOLEAN])
        BY DEF Init
      <3>3. sfciDict \in SUBSET SFCIs /\ job \in Job \cup {None} /\ exhausted \in BOOLEAN
        BY DEF Init
      <3>4. QED BY <3>1, <3>2, <3>3 DEF TypeOK
    <2>2. TableInv
      BY <1>1, <1>2 DEF Init, TableInv, Recorded
    <2>3. QED BY <2>1, <2>2 DEF Init, JobInv, LoopInv
  <1>4. CoreInv
    <2>1. Sockets \in Nat /\ CoresPerSocket \in Nat
      BY VNFControllerAssumption
    <2>2. ASSUME NEW i \in 1..Sockets PROVE SocketList(cpuAllo[i], i)
      <3>1. PICK list : list = [k \in 1..CoresPerSocket |-> <<i, k>>]
        OBVIOUS
      <3>2. \A k \in 1..CoresPerSocket : list[k] = <<i, k>> /\ list[k] \in Cores
        BY <2>1, <3>1 DEF Cores
      <3>3. list \in Seq(Cores) /\ Len(list) = CoresPerSocket /\ DOMAIN list = 1..CoresPerSocket
        BY <2>1, <3>1, <3>2
      <3>4. SocketList(list, i)
        BY <3>2, <3>3 DEF SocketList, IsInjective
      <3>5. QED BY <3>1, <3>4 DEF Init
    <2>3. CoreLists(cpuAllo)
      BY <2>2 DEF CoreLists, SocketList, Init
    <2>4. ASSUME NEW c \in Cores PROVE c \in CoresIn(cpuAllo)
      <3>1. PICK i \in 1..Sockets, k \in 1..CoresPerSocket : c = <<i, k>>
        BY DEF Cores
      <3>2. cpuAllo[i] = [j \in 1..CoresPerSocket |-> <<i, j>>] /\ DOMAIN cpuAllo = 1..Sockets
        BY DEF Init
      <3>3. k \in DOMAIN cpuAllo[i] /\ cpuAllo[i][k] = c
        BY <3>1, <3>2
      <3>4. c \in Range(cpuAllo[i])
        BY <3>3 DEF Range
      <3>5. QED BY <3>2, <3>4 DEF CoresIn
    <2>5. \A v \in VNFIs : ~IsDeployed(v)
      BY <1>2 DEF IsDeployed
    <2>6. stranded = {}
      BY DEF Init
    <2>7. QED BY <2>3, <2>4, <2>5, <2>6 DEF CoreInv, Holds
  <1>5. VioInv
    <2>1. vioAllo = <<<<0, MAX_VIO_NUM>>>> /\ MAX_VIO_NUM \in Nat \ {0}
      BY VNFControllerAssumption DEF Init
    <2>2. RangeList(vioAllo) /\ RangesAreDisjoint(vioAllo)
      BY <2>1 DEF RangeList, RangesAreDisjoint, IntPair
    <2>3. VioIsExclusive
      BY <1>2 DEF VioIsExclusive, IsDeployed
    <2>4. QED BY <2>2, <2>3 DEF VioInv
  <1>6. FailureInv
    <2>1. None # Failed
      BY NoneAssumption DEF Failed, VNFIDeployStatus
    <2>2. QED BY <1>1, <1>2, <2>1 DEF FailureInv, HasFailed
  <1>7. QED BY <1>3, <1>4, <1>5, <1>6 DEF AllInv

LEMMA AllInvLemma == Spec => []AllInv
  <1>1. AllInv /\ [Next]_vars => AllInv'
    <2> SUFFICES ASSUME AllInv, [Next]_vars PROVE AllInv'
      OBVIOUS
    <2>1. LoopInv /\ CoreInv /\ VioInv /\ FailureInv /\ CoreLists(cpuAllo) /\ RangeList(vioAllo)
      BY DEF AllInv, CoreInv, VioInv
    <2>2. LoopInv'
      BY <2>1, LoopStep
    <2>3. CoreInv'
      BY <2>1, CoreStep
    <2>4. VioInv'
      BY <2>1, <2>2, VioStep
    <2>5. FailureInv'
      BY <2>1, <2>2, FailureStep
    <2>6. QED BY <2>2, <2>3, <2>4, <2>5 DEF AllInv
  <1>2. QED BY <1>1, InitAll, PTL DEF Spec

\* Whatever call of Docker raises, and however often SFCIs are deleted and added again, each
\* core of the server can be allocated, is one deployed VNFI's own, or was lost with a
\* container whose host port could not be read (allocateCPU, freeCPU, addVNFI, deleteVNFI).
THEOREM CoresAreNeverShared == Spec => []CoresArePartitioned
  <1>1. AllInv => CoresArePartitioned
    BY CoreInvMeans DEF AllInv
  <1>2. QED BY <1>1, AllInvLemma, PTL

\* As long as allocateSource has always found virtio IDs, no two deployed VNFIs have one in
\* common and none of theirs is among those that are left, however the ranges of the
\* allocator were cut and merged (allocateSource, freeSource).
THEOREM VioIDsAreNeverShared == Spec => []VioIsExclusive
  <1>1. AllInv => VioIsExclusive
    BY DEF AllInv, VioInv
  <1>2. QED BY <1>1, AllInvLemma, PTL

\* An SFCI in the table whose VNFIs are all dealt with has them deployed, or one has failed.
LEMMA AllDealtWith ==
    ASSUME LoopInv, NEW s \in SFCIs, \A i \in 1..SFCLength : Recorded(s, i)
    PROVE  HasFailed(s) \/ \A i \in 1..SFCLength : IsDeployed(<<s, i>>)
  <1>1. SUFFICES ASSUME NEW i \in 1..SFCLength, vnfiSet[<<s, i>>] # Failed
                 PROVE  IsDeployed(<<s, i>>)
    BY DEF HasFailed
  <1>2. <<s, i>> \in VNFIs /\ vnfiSet[<<s, i>>] # None
    BY DEF VNFIs, LoopInv, TableInv
  <1>3. vnfiSet[<<s, i>>] \in VNFIDeployStatus
    BY <1>2 DEF LoopInv, TypeOK
  <1>4. vnfiSet[<<s, i>>] \notin [state : {VNFI_STATE_FAILED}]
    BY <1>1 DEF Failed
  <1>5. QED BY <1>2, <1>3, <1>4 DEF IsDeployed, VNFIDeployStatus

\* The mediator is never misled by a success: the SFCI's VNFIs are all deployed, or an
\* ADD_SFCI of this SFCI was answered with failure and no deletion has succeeded since
\* (_sfciAddHandler: whether an SFCI is known is decided before its VNFIs are looked at).
THEOREM SuccessIsNeverMadeUp == Spec => SuccessIsTrueOrRepeated
  <1> DEFINE Told(s) == [cmd |-> [cmdType |-> CMD_TYPE_ADD_SFCI, sfci |-> s], success |-> TRUE]
  <1>1. ASSUME AllInv, [Next]_vars, NEW s \in SFCIs,
               Len(rplys') > Len(rplys), Last(rplys') = Told(s)
        PROVE  FailureTold(s) \/ \A i \in 1..SFCLength : IsDeployed(<<s, i>>)
    <2>1. LoopInv /\ FailureInv
      BY <1>1 DEF AllInv
    <2>2. rplys' # rplys
      <3>1. Len(rplys) \in Nat
        BY <2>1 DEF LoopInv, TypeOK
      <3>2. QED BY <1>1, <3>1
    <2>3. AddKnown \/ DelUnknown \/ Done
      BY <1>1, <2>2 DEF Next, HandlerStep, vars, SendCmd, ContainerStops, AddStart, DelStart,
                        AddNoCPU, AddRunRaises, AddLogsRaise, AddPortRaises, AddOk, DelFailed,
                        DelDeployed
    <2>4. ASSUME NEW cmd, NEW success, rplys' = Rply(cmd, success)
          PROVE  cmd = AddOf(s) /\ success = TRUE
      <3>1. PICK r : r = [cmd |-> cmd, success |-> success]
        OBVIOUS
      <3>2. rplys' = Append(rplys, r)
        BY <2>4, <3>1 DEF Rply
      <3>3. PICK n \in Nat : Len(rplys') = n + 1 /\ rplys'[n + 1] = r
        BY <2>1, <3>2, ReplyLemma
      <3>4. r = Told(s)
        BY <1>1, <3>3 DEF Last
      <3>5. r.cmd = cmd /\ r.success = success
        BY <3>1
      <3>6. QED BY <3>4, <3>5 DEF AddOf
    <2>5. AddOf(s).cmdType = CMD_TYPE_ADD_SFCI /\ AddOf(s).sfci = s
      BY DEF AddOf
    <2>6. CASE AddKnown
      <3>1. job = None /\ s \in sfciDict
        BY <2>4, <2>5, <2>6 DEF AddKnown, Got
      <3>2. \A i \in 1..SFCLength : Recorded(s, i)
        BY <3>1 DEF Recorded
      <3>3. QED BY <2>1, <3>1, <3>2, AllDealtWith DEF FailureInv
    <2>7. CASE DelUnknown
      BY <2>4, <2>7 DEF DelUnknown
    <2>8. CASE Done
      <3>1. job # None /\ job.todo = <<>> /\ job.cmd = AddOf(s) /\ job.success = TRUE
        BY <2>4, <2>8 DEF Done
      <3>2. s \in sfciDict /\ Len(job.todo) = 0 /\ SFCLength \in Nat
        BY <2>1, <2>5, <3>1, VNFControllerAssumption DEF LoopInv, JobInv
      <3>3. \A i \in 1..SFCLength : Recorded(s, i)
        BY <2>5, <3>1, <3>2 DEF Recorded
      <3>4. QED BY <2>1, <3>1, <3>3, AllDealtWith DEF FailureInv
    <2>9. QED BY <2>3, <2>6, <2>7, <2>8
  <1>2. AllInv /\ [Next]_vars =>
        [\A s \in SFCIs :
            /\ Len(rplys') > Len(rplys)
            /\ Last(rplys') = [cmd |-> [cmdType |-> CMD_TYPE_ADD_SFCI, sfci |-> s], success |-> TRUE]
            => \/ \A i \in 1..SFCLength : IsDeployed(<<s, i>>)
               \/ \E k \in 1..Len(rplys) :
                     /\ rplys[k] = [cmd |-> [cmdType |-> CMD_TYPE_ADD_SFCI, sfci |-> s],
                                    success |-> FALSE]
                     /\ \A l \in k..Len(rplys) :
                           rplys[l] # [cmd |-> [cmdType |-> CMD_TYPE_DEL_SFCI, sfci |-> s],
                                       success |-> TRUE]]_vars
    BY <1>1 DEF FailureTold
  <1>3. QED BY <1>2, AllInvLemma, PTL DEF Spec, SuccessIsTrueOrRepeated
=============================================================================
