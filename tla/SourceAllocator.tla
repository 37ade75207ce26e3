--------------------------- MODULE SourceAllocator ---------------------------
(***************************************************************************)
(* serverController/vnfController/sourceAllocator.py.  A SourceAllocator   *)
(* hands out blocks of numbers (virtio IDs, socket ports, SFCI IDs) from   *)
(* `_unallocatedList', a list of ranges <<lower, upper>>; a CPUAllocator   *)
(* hands out cores from one list per NUMA socket.                          *)
(*                                                                         *)
(* allocateSource and freeSource leave the upper bound out of a range,     *)
(* allocateSpecificSource counts it in.                                    *)
(***************************************************************************)
EXTENDS Integers, Sequences, SequencesExt, FiniteSetsExt

NoSource == -1

allocateSource(list, num) ==
    LET fits == {i \in DOMAIN list : list[i][2] - list[i][1] >= num}
        i    == Min(fits)
    IN  IF fits = {}
        THEN [result |-> NoSource, list |-> list]
        ELSE [result |-> list[i][1],
              list   |-> IF list[i][2] - list[i][1] = num
                         THEN RemoveAt(list, i)
                         ELSE [list EXCEPT ![i][1] = @ + num]]

\* The first two ranges that touch become one; others that touch stay as they are.
MergeAdjacent(list) ==
    LET touching == {i \in 1..(Len(list) - 1) : list[i][2] = list[i + 1][1]}
        i        == Min(touching)
    IN  IF touching = {}
        THEN list
        ELSE RemoveAt([list EXCEPT ![i][2] = list[i + 1][2]], i + 1)

allocateSpecificSource(list, start, num) ==
    LET last  == start + num - 1
        holds == {i \in DOMAIN list : list[i][1] <= start /\ last <= list[i][2]}
        i     == Min(holds)
        lower == list[i][1]
        upper == list[i][2]
        cut   == CASE lower = start /\ upper = last -> RemoveAt(list, i)
                   [] lower = start /\ upper > last -> [list EXCEPT ![i][1] = @ + num]
                   [] lower < start /\ upper = last -> [list EXCEPT ![i][2] = @ - num]
                   [] OTHER -> InsertAt([list EXCEPT ![i][2] = start - 1],
                                        i + 1, <<start + num, upper>>)
    IN  IF holds = {} THEN list ELSE MergeAdjacent(cut)

\* Wrong variant: the upper bound counted in, as allocateSpecificSource does.
freeSourceInclusive(list, start, num) == Append(list, <<start, start + num + 1>>)

(***************************************************************************)
(* A block goes before the first range, behind the last one, or into the   *)
(* gap before one of the ranges 2..Len-1: the loop does not look at the    *)
(* gap before the last range, and a block that belongs there is dropped.   *)
(***************************************************************************)
freeSource(list, start, num) ==
    LET block == <<start, start + num>>
        l     == IF list = <<>> THEN <<block>> ELSE list
        gaps  == {i \in 2..(Len(l) - 1) : l[i - 1][2] <= start /\ start + num <= l[i][1]}
    IN  MergeAdjacent(
            CASE start + num <= l[1][1]  -> <<block>> \o l
              [] start >= l[Len(l)][2]   -> Append(l, block)
              [] OTHER -> IF gaps = {} THEN l ELSE InsertAt(l, Min(gaps), block))
-----------------------------------------------------------------------------
NoCPU == <<>>

FirstCores(cores, num) == SubSeq(cores, 1, IF num < Len(cores) THEN num ELSE Len(cores))

RestOf(cores, taken) == SubSeq(cores, Len(taken) + 1, Len(cores))

(***************************************************************************)
(* The first socket that has enough cores gives all of them; if there is   *)
(* none, the sockets give what they have in turn; if that is not enough,   *)
(* they get it back and the result is no list of cores.                    *)
(***************************************************************************)
allocateCPU(sockets, num) ==
    LET enough == {i \in DOMAIN sockets : Len(sockets[i]) >= num}
        before(i) == Cardinality(UNION {{j} \X (1..Len(sockets[j])) : j \in 1..(i - 1)})
        wanted(i) == CASE enough # {} -> IF i = Min(enough) THEN num ELSE 0
                       [] before(i) < num -> num - before(i)
                       [] OTHER -> 0
    IN  IF before(Len(sockets) + 1) < num
        THEN NoCPU
        ELSE [i \in DOMAIN sockets |-> FirstCores(sockets[i], wanted(i))]

freeCPU(sockets, cpus) == [i \in DOMAIN sockets |-> sockets[i] \o cpus[i]]
=============================================================================
