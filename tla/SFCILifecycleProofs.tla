------------------------ MODULE SFCILifecycleProofs ------------------------
(***************************************************************************)
(* Proofs about the mediator, for every set of commands, every zone,       *)
(* either classifier type and any number of redeliveries and losses; and   *)
(* about one SFCI from end to end, whose mediator it is: what the          *)
(* orchestrator's row says of the SFCI and what the SFF controller and the *)
(* VNF controller have in their tables.  From the heading "one SFCI from   *)
(* end to end" on, the SFCI lies in one zone, with an SFF and a VNF        *)
(* controller, and the broker delivers each command once.                  *)
(***************************************************************************)
EXTENDS SFCILifecycle, TLAPS, Integers

-----------------------------------------------------------------------------
(***************************************************************************)
(* The inductive invariant.                                                *)
(***************************************************************************)
\* c is the identifier of a child the mediator made for an issued command.
IsChildOf(c, p) ==
    /\ c \in ChildID
    /\ c[1] = p
    /\ p \in Cmds
    /\ issued[p] \in Command
    /\ c[2] \in Children(issued[p])
    /\ ForwardedTo(issued[p]) # {}
    /\ 1 <= c[3] /\ c[3] <= handled[p]

\* The entry of a command: its children are those of its latest handling.
ParentEntryOK(info, p) ==
    /\ issued[p] \in Command
    /\ info[p].cmd = issued[p]
    /\ ForwardedTo(issued[p]) # {} =>
         /\ info[p].childCmdID =
               [n \in Children(issued[p]) |-> <<p, n, handled[p]>>]
         /\ \A n \in Children(issued[p]) : <<p, n, handled[p]>> \in DOMAIN info

\* The entry of a child: it points to its parent, only a prepared child waits,
\* and a child has a reply exactly when its controller's outcome is recorded.
ChildEntryOK(info, c) ==
    /\ IsChildOf(c, c[1])
    /\ info[c].parentCmdID = c[1]
    /\ info[c].state = CMD_STATE_WAITING => HeldBack(c)
    /\ info[c].cmdReply # None => info[c].state \in Determined
    /\ info[c].state \in Determined =>
          /\ info[c].cmdReply # None
          /\ <<c, info[c].state>> \in outcomes

TableOK(info) ==
    /\ DOMAIN info \subseteq Cmds \cup ChildID
    /\ \A id \in DOMAIN info : IsCmdEntry(info[id])
    /\ \A p \in Cmds \cap DOMAIN info : ParentEntryOK(info, p)
    /\ \A c \in ChildID \cap DOMAIN info : ChildEntryOK(info, c)

\* The messages in a queue.
Elems(s) == {s[i] : i \in 1..Len(s)}

\* What is known of a message in MEDIATOR_QUEUE.
MsgOK(m) ==
    /\ m.type = "cmd"  => issued[m.cmdID] \in Command
    /\ m.type = "rply" => <<m.cmdID, m.cmdState>> \in outcomes

\* What is known of a child command that was sent.
SentOK(c) == IsChildOf(c, c[1]) /\ (HeldBack(c) => HasSFF(c))

QueueInv ==
    /\ \A m \in Elems(mediatorQueue) : MsgOK(m)
    /\ \A q \in Controller \X Zones : \A c \in Elems(controllerQueue[q]) : SentOK(c)
    /\ \A o \in outcomes : SentOK(o[1])

IInv == TypeOK /\ TableOK(commandsInfo) /\ QueueInv
-----------------------------------------------------------------------------
(***************************************************************************)
(* Lemmas about queues.                                                    *)
(***************************************************************************)
\* Taking the first element of a queue.
LEMMA TakeLemma ==
    ASSUME NEW S, NEW s \in Seq(S), s # <<>>
    PROVE  /\ Head(s) \in S /\ Head(s) = s[1] /\ 1 \in 1..Len(s)
           /\ Tail(s) \in Seq(S)
           /\ \A i \in 1..Len(Tail(s)) : i + 1 \in 1..Len(s) /\ Tail(s)[i] = s[i + 1]
           /\ Head(s) \in Elems(s)
           /\ Elems(Tail(s)) \subseteq Elems(s)
  <1>1. /\ Head(s) \in S /\ Head(s) = s[1] /\ 1 \in 1..Len(s)
        /\ Tail(s) \in Seq(S)
        /\ \A i \in 1..Len(Tail(s)) : i + 1 \in 1..Len(s) /\ Tail(s)[i] = s[i + 1]
    OBVIOUS
  <1> QED
    BY <1>1 DEF Elems

\* Sending to a queue.
LEMMA AppendLemma ==
    ASSUME NEW S, NEW s \in Seq(S), NEW e \in S
    PROVE  /\ Append(s, e) \in Seq(S)
           /\ \A i \in 1..Len(Append(s, e)) :
                  \/ i \in 1..Len(s) /\ Append(s, e)[i] = s[i]
                  \/ i = Len(s) + 1 /\ Append(s, e)[i] = e
           /\ Elems(Append(s, e)) \subseteq Elems(s) \cup {e}
  <1>1. /\ Append(s, e) \in Seq(S)
        /\ \A i \in 1..Len(Append(s, e)) :
                  \/ i \in 1..Len(s) /\ Append(s, e)[i] = s[i]
                  \/ i = Len(s) + 1 /\ Append(s, e)[i] = e
    OBVIOUS
  <1> QED
    BY <1>1 DEF Elems

\* Delivering the first element of a queue again.
LEMMA RedeliverLemma ==
    ASSUME NEW S, NEW s \in Seq(S), s # <<>>
    PROVE  /\ <<Head(s)>> \o s \in Seq(S)
           /\ \A i \in 1..Len(<<Head(s)>> \o s) :
                  \/ i = 1 /\ (<<Head(s)>> \o s)[i] = s[1] /\ 1 \in 1..Len(s)
                  \/ i # 1 /\ i - 1 \in 1..Len(s) /\ (<<Head(s)>> \o s)[i] = s[i - 1]
           /\ Elems(<<Head(s)>> \o s) \subseteq Elems(s)
  <1>1. /\ <<Head(s)>> \o s \in Seq(S)
        /\ \A i \in 1..Len(<<Head(s)>> \o s) :
                  \/ i = 1 /\ (<<Head(s)>> \o s)[i] = s[1] /\ 1 \in 1..Len(s)
                  \/ i # 1 /\ i - 1 \in 1..Len(s) /\ (<<Head(s)>> \o s)[i] = s[i - 1]
    OBVIOUS
  <1> QED
    BY <1>1 DEF Elems

\* Which controllers a command concerns.
LEMMA ChildrenLemma ==
    ASSUME NEW cmd
    PROVE  /\ Children(cmd) \subseteq Controller
           /\ ForwardedTo(cmd) \subseteq Children(cmd)
           /\ PreparedFor(cmd) \subseteq Children(cmd)
           /\ PreparedFor(cmd) \subseteq {VNF}
           /\ VNF \in Controller /\ SFF \in Controller /\ SFF # VNF
           /\ PreparedFor(cmd) # {} => SFF \in ForwardedTo(cmd)
           /\ ForwardedTo(cmd) \cap PreparedFor(cmd) = {}
  <1>1. ForwardedTo(cmd) \subseteq Controller
    BY DEF ForwardedTo, TurbonetTargets, PufferTargets, Classifiers, Controller,
           SIMULATOR, CLASSIFIER, NETWORK, SFF, P4, VNF, SERVER_MANAGER
  <1>2. PreparedFor(cmd) # {} => SFF \in ForwardedTo(cmd) /\ VNF \notin ForwardedTo(cmd)
    BY DEF ForwardedTo, PreparedFor, TurbonetTargets, PufferTargets, Classifiers,
           SIMULATOR, CLASSIFIER, NETWORK, SFF, P4, VNF, SERVER_MANAGER
  <1>3. VNF \in Controller /\ SFF \in Controller /\ SFF # VNF
    BY DEF Controller, SFF, VNF
  <1>4. PreparedFor(cmd) \subseteq {VNF}
    BY DEF PreparedFor
  <1> QED
    BY <1>1, <1>2, <1>3, <1>4 DEF Children

\* A controller's answer is a success or a failure.
LEMMA OutcomeLemma ==
    ASSUME NEW n, NEW cmd
    PROVE  Outcome(n, cmd) \subseteq Determined
  BY DEF Outcome, Determined

-----------------------------------------------------------------------------
(***************************************************************************)
(* Lemmas about the table.                                                 *)
(***************************************************************************)
\* A command's identifier is never a child's.
LEMMA DisjointLemma ==
    /\ Cmds \cap ChildID = {}
    /\ None \notin Cmds /\ None \notin ChildID /\ None \notin Command
    /\ None \notin RplyMsg
  BY MediatorAssumption

\* The children of a command that has some.
LEMMA ChildCmdIDsLemma ==
    ASSUME NEW info, TableOK(info), NEW p \in Cmds \cap DOMAIN info,
           ForwardedTo(issued[p]) # {}
    PROVE  /\ ChildCmdIDs(info, p) = {<<p, n, handled[p]>> : n \in Children(issued[p])}
           /\ ChildCmdIDs(info, p) \subseteq ChildID \cap DOMAIN info
           /\ \A n \in Children(issued[p]) : info[p].childCmdID[n] = <<p, n, handled[p]>>
  <1>1. ParentEntryOK(info, p)
    BY DEF TableOK
  <1>2. ChildCmdIDs(info, p) = {<<p, n, handled[p]>> : n \in Children(issued[p])}
    BY <1>1 DEF ParentEntryOK, ChildCmdIDs
  <1>3. \A n \in Children(issued[p]) : <<p, n, handled[p]>> \in DOMAIN info
    BY <1>1 DEF ParentEntryOK
  <1>4. \A n \in Children(issued[p]) : info[p].childCmdID[n] = <<p, n, handled[p]>>
    BY <1>1 DEF ParentEntryOK
  <1>5. \A n \in Children(issued[p]) : <<p, n, handled[p]>> \in Cmds \cup ChildID
    BY <1>3 DEF TableOK
  <1>6. \A n \in Children(issued[p]) : <<p, n, handled[p]>> \in ChildID
    <2> SUFFICES ASSUME NEW n \in Children(issued[p])
                 PROVE  <<p, n, handled[p]>> \in ChildID
      OBVIOUS
    <2>1. IsCmdEntry(info[p])
      BY DEF TableOK
    <2>2. info[p].childCmdID[n] \in ChildID
      BY <2>1, <1>1 DEF IsCmdEntry, ParentEntryOK
    <2> QED
      BY <2>2, <1>4
  <1> QED
    BY <1>2, <1>3, <1>4, <1>6

\* Changing the state of a command.
LEMMA ChangeStateLemma ==
    ASSUME NEW info, TableOK(info), NEW p \in Cmds \cap DOMAIN info, NEW s \in CmdState
    PROVE  /\ TableOK(changeCmdState(info, p, s))
           /\ DOMAIN changeCmdState(info, p, s) = DOMAIN info
           /\ \A c \in ChildID \cap DOMAIN info : changeCmdState(info, p, s)[c] = info[c]
           /\ ChildCmdIDs(changeCmdState(info, p, s), p) = ChildCmdIDs(info, p)
           /\ changeCmdState(info, p, s)[p].cmd = info[p].cmd
  <1> DEFINE new == changeCmdState(info, p, s)
  <1>1. /\ DOMAIN new = DOMAIN info
        /\ \A id \in DOMAIN info : id # p => new[id] = info[id]
        /\ new[p] = [info[p] EXCEPT !.state = s]
    BY DEF changeCmdState
  <1>2. \A id \in DOMAIN info : IsCmdEntry(info[id])
    BY DEF TableOK
  <1>3. IsCmdEntry(new[p]) /\ new[p].childCmdID = info[p].childCmdID /\ new[p].cmd = info[p].cmd
    BY <1>1, <1>2 DEF IsCmdEntry
  <1>4. \A c \in ChildID \cap DOMAIN info : new[c] = info[c]
    BY <1>1, DisjointLemma
  <1>5. \A c \in ChildID \cap DOMAIN new : ChildEntryOK(new, c)
    BY <1>1, <1>4 DEF TableOK, ChildEntryOK
  <1>6. \A q \in Cmds \cap DOMAIN new : ParentEntryOK(new, q)
    BY <1>1, <1>3 DEF TableOK, ParentEntryOK
  <1>7. TableOK(new)
    BY <1>1, <1>2, <1>3, <1>5, <1>6 DEF TableOK
  <1>8. ChildCmdIDs(new, p) = ChildCmdIDs(info, p)
    BY <1>3 DEF ChildCmdIDs
  <1> QED
    BY <1>1, <1>3, <1>4, <1>7, <1>8

\* Forgetting a command and its children.
LEMMA DeleteLemma ==
    ASSUME NEW info, TableOK(info), NEW p \in Cmds \cap DOMAIN info,
           ForwardedTo(issued[p]) # {}
    PROVE  /\ TableOK(delCmdwithChildCmd(info, p))
           /\ p \notin DOMAIN delCmdwithChildCmd(info, p)
           /\ DOMAIN delCmdwithChildCmd(info, p) \subseteq DOMAIN info
           /\ \A id \in DOMAIN delCmdwithChildCmd(info, p) :
                  delCmdwithChildCmd(info, p)[id] = info[id]
           /\ \A q \in Cmds \cap DOMAIN info : q # p =>
                  q \in DOMAIN delCmdwithChildCmd(info, p)
  <1> DEFINE new == delCmdwithChildCmd(info, p)
             gone == ChildCmdIDs(info, p) \cup {p}
  <1>1. /\ DOMAIN new = DOMAIN info \ gone
        /\ \A id \in DOMAIN new : new[id] = info[id]
    BY DEF delCmdwithChildCmd
  <1>2. gone = {<<p, n, handled[p]>> : n \in Children(issued[p])} \cup {p}
    BY ChildCmdIDsLemma
  <1>3. ASSUME NEW q \in Cmds \cap DOMAIN new PROVE ParentEntryOK(new, q)
    <2>1. ParentEntryOK(info, q) /\ q # p
      BY <1>1, <1>3 DEF TableOK
    <2>2. \A n : <<q, n, handled[q]>> \notin {<<p, m, handled[p]>> : m \in Children(issued[p])}
      BY <2>1
    <2>3. ForwardedTo(issued[q]) # {} =>
             \A n \in Children(issued[q]) : <<q, n, handled[q]>> \in ChildID
      BY <1>1, <1>3, ChildCmdIDsLemma
    <2>4. ForwardedTo(issued[q]) # {} =>
             \A n \in Children(issued[q]) : <<q, n, handled[q]>> # p
      BY <2>3, DisjointLemma
    <2> QED
      BY <2>1, <2>2, <2>4, <1>1, <1>2 DEF ParentEntryOK
  <1>4. \A c \in ChildID \cap DOMAIN new : ChildEntryOK(new, c)
    BY <1>1 DEF TableOK, ChildEntryOK
  <1>5. TableOK(new)
    BY <1>1, <1>3, <1>4 DEF TableOK
  <1>6. \A q \in Cmds \cap DOMAIN info : q # p => q \in DOMAIN new
    BY <1>1, ChildCmdIDsLemma, DisjointLemma
  <1> QED
    BY <1>1, <1>5, <1>6

\* Recording a reply in its child's entry.
LEMMA RecordLemma ==
    ASSUME TableOK(commandsInfo), NEW m \in RplyMsg, m.cmdID \in DOMAIN commandsInfo,
           <<m.cmdID, m.cmdState>> \in outcomes
    PROVE  /\ TableOK(Recorded(m))
           /\ DOMAIN Recorded(m) = DOMAIN commandsInfo
           /\ \A id \in DOMAIN commandsInfo : id # m.cmdID =>
                 Recorded(m)[id] = commandsInfo[id]
           /\ Recorded(m)[m.cmdID].state = m.cmdState
           /\ Recorded(m)[m.cmdID].cmdReply = m
  <1> DEFINE c == m.cmdID
             new == Recorded(m)
  <1>0. c \in ChildID /\ c \notin Cmds /\ m.cmdState \in Determined /\ m # None
    BY DisjointLemma DEF RplyMsg
  <1>1. /\ DOMAIN new = DOMAIN commandsInfo
        /\ \A id \in DOMAIN commandsInfo : id # c => new[id] = commandsInfo[id]
        /\ new[c] = [[commandsInfo[c] EXCEPT !.state = m.cmdState] EXCEPT !.cmdReply = m]
    BY DEF Recorded, addCmdRply, changeCmdState
  <1>2. \A id \in DOMAIN commandsInfo : IsCmdEntry(commandsInfo[id])
    BY DEF TableOK
  <1>3. m.cmdState \in CmdState
    BY <1>0 DEF Determined, CmdState
  <1>4. /\ IsCmdEntry(new[c])
        /\ new[c].state = m.cmdState
        /\ new[c].cmdReply = m
        /\ new[c].parentCmdID = commandsInfo[c].parentCmdID
    <2>1. IsCmdEntry(commandsInfo[c])
      BY <1>2
    <2> QED
      BY <2>1, <1>1, <1>3 DEF IsCmdEntry
  <1>5. ChildEntryOK(new, c)
    <2>1. ChildEntryOK(commandsInfo, c)
      BY <1>0 DEF TableOK
    <2>2. m.cmdState # CMD_STATE_WAITING
      BY <1>0 DEF Determined, CMD_STATE_WAITING, CMD_STATE_SUCCESSFUL, CMD_STATE_FAIL
    <2> QED
      BY <2>1, <2>2, <1>0, <1>4 DEF ChildEntryOK
  <1>6. \A d \in ChildID \cap DOMAIN new : ChildEntryOK(new, d)
    BY <1>1, <1>5 DEF TableOK, ChildEntryOK
  <1>7. \A p \in Cmds \cap DOMAIN new : ParentEntryOK(new, p)
    BY <1>0, <1>1 DEF TableOK, ParentEntryOK
  <1>8. \A id \in DOMAIN new : IsCmdEntry(new[id])
    BY <1>1, <1>2, <1>4
  <1>9. TableOK(new)
    BY <1>1, <1>6, <1>7, <1>8 DEF TableOK
  <1> QED
    BY <1>1, <1>4, <1>9

\* A waiting command or child starts processing.
LEMMA TransitLemma ==
    ASSUME NEW info, TableOK(info), NEW x
    PROVE  LET new == transitCmdState(info, x, CMD_STATE_WAITING, CMD_STATE_PROCESSING)
           IN  /\ TableOK(new)
               /\ DOMAIN new = DOMAIN info
               /\ \A id \in DOMAIN info : new[id].childCmdID = info[id].childCmdID
               /\ \A id \in DOMAIN info : id # x => new[id] = info[id]
  <1> DEFINE new == transitCmdState(info, x, CMD_STATE_WAITING, CMD_STATE_PROCESSING)
  <1>1. CASE ~(x \in DOMAIN info /\ info[x].state = CMD_STATE_WAITING)
    BY <1>1 DEF transitCmdState, hasCmd
  <1>2. CASE x \in DOMAIN info /\ info[x].state = CMD_STATE_WAITING
    <2>1. /\ DOMAIN new = DOMAIN info
          /\ \A id \in DOMAIN info : id # x => new[id] = info[id]
          /\ new[x] = [info[x] EXCEPT !.state = CMD_STATE_PROCESSING]
      BY <1>2 DEF transitCmdState, hasCmd
    <2>2. CMD_STATE_PROCESSING \in CmdState \ Determined
          /\ CMD_STATE_WAITING \notin Determined
          /\ CMD_STATE_PROCESSING # CMD_STATE_WAITING
      BY DEF CmdState, Determined, CMD_STATE_PROCESSING, CMD_STATE_WAITING,
             CMD_STATE_SUCCESSFUL, CMD_STATE_FAIL
    <2>3. IsCmdEntry(info[x])
      BY <1>2 DEF TableOK
    <2>4. /\ IsCmdEntry(new[x])
          /\ new[x].cmd = info[x].cmd
          /\ new[x].childCmdID = info[x].childCmdID
          /\ new[x].parentCmdID = info[x].parentCmdID
          /\ new[x].cmdReply = info[x].cmdReply
          /\ new[x].state = CMD_STATE_PROCESSING
      BY <2>1, <2>2, <2>3 DEF IsCmdEntry
    <2>5. \A d \in ChildID \cap DOMAIN new : ChildEntryOK(new, d)
      <3>1. ASSUME x \in ChildID PROVE ChildEntryOK(new, x)
        <4>1. ChildEntryOK(info, x)
          BY <1>2, <3>1 DEF TableOK
        <4> QED
          BY <4>1, <1>2, <2>2, <2>4 DEF ChildEntryOK
      <3>2. ASSUME NEW d \in ChildID \cap DOMAIN info, d # x PROVE ChildEntryOK(new, d)
        BY <3>2, <2>1 DEF TableOK, ChildEntryOK
      <3> QED
        BY <3>1, <3>2, <2>1
    <2>6. ASSUME NEW p \in Cmds \cap DOMAIN new PROVE ParentEntryOK(new, p)
      <3>1. ParentEntryOK(info, p)
        BY <2>1 DEF TableOK
      <3>2. new[p].cmd = info[p].cmd /\ new[p].childCmdID = info[p].childCmdID
        BY <2>1, <2>4
      <3> QED
        BY <2>1, <3>1, <3>2 DEF ParentEntryOK
    <2>7. \A id \in DOMAIN new : IsCmdEntry(new[id])
      BY <2>1, <2>4 DEF TableOK
    <2>8. TableOK(new)
      BY <2>1, <2>5, <2>6, <2>7 DEF TableOK
    <2> QED
      BY <2>1, <2>4, <2>8
  <1> QED
    BY <1>1, <1>2

\* The last statement of _exeCmdStateAction.
LEMMA SettleLemma ==
    ASSUME NEW info, TableOK(info), NEW p \in Cmds \cap DOMAIN info,
           ForwardedTo(issued[p]) # {}
    PROVE  /\ TableOK(Settle(info, p))
           /\ DOMAIN Settle(info, p) \subseteq DOMAIN info
           /\ \A id \in DOMAIN Settle(info, p) : Settle(info, p)[id] = info[id]
           /\ p \in DOMAIN Settle(info, p) => Settle(info, p) = info
  BY DeleteLemma DEF Settle

-----------------------------------------------------------------------------
(***************************************************************************)
(* IInv is inductive: one lemma per action.                                *)
(***************************************************************************)
\* What is known of a message, a child or an entry stays known when commands are
\* issued, handled and carried out.
LEMMA MonotoneLemma ==
    ASSUME \A p \in Cmds : issued[p] \in Command => issued'[p] = issued[p],
           handled \in [Cmds -> Nat], handled' \in [Cmds -> Nat],
           \A p \in Cmds : handled[p] <= handled'[p],
           outcomes \subseteq outcomes'
    PROVE  /\ \A c : SentOK(c) => SentOK(c)'
           /\ \A c, p : IsChildOf(c, p) => IsChildOf(c, p)'
           /\ \A m \in MediatorMsg : MsgOK(m) => MsgOK(m)'
  <1>1. \A c, p : IsChildOf(c, p) => IsChildOf(c, p)'
    <2> SUFFICES ASSUME NEW c, NEW p, IsChildOf(c, p) PROVE IsChildOf(c, p)'
      OBVIOUS
    <2>1. issued'[p] = issued[p] /\ handled[p] \in Nat /\ handled'[p] \in Nat
          /\ handled[p] <= handled'[p] /\ c[3] \in Nat
      BY DEF IsChildOf, ChildID
    <2> QED
      BY <2>1 DEF IsChildOf
  <1>2. \A c : SentOK(c) => SentOK(c)'
    <2> SUFFICES ASSUME NEW c, SentOK(c) PROVE SentOK(c)'
      OBVIOUS
    <2>1. issued'[c[1]] = issued[c[1]]
      BY DEF SentOK, IsChildOf
    <2> QED
      BY <2>1, <1>1 DEF SentOK, HeldBack, HasSFF
  <1>3. \A m \in MediatorMsg : MsgOK(m) => MsgOK(m)'
    BY DEF MsgOK, MediatorMsg, CmdMsg, RplyMsg
  <1> QED
    BY <1>1, <1>2, <1>3

LEMMA InitIInv == Init => IInv
  <1> SUFFICES ASSUME Init PROVE IInv
    OBVIOUS
  <1>1. DOMAIN commandsInfo = {}
    BY DEF Init, NoCommands
  <1>2. TypeOK
    BY <1>1 DEF Init, TypeOK
  <1>3. TableOK(commandsInfo)
    BY <1>1 DEF TableOK
  <1>4. QueueInv
    BY DEF Init, QueueInv, Elems
  <1> QED
    BY <1>2, <1>3, <1>4 DEF IInv

LEMMA SendCmdIInv ==
    ASSUME IInv, NEW p \in Cmds, NEW cmd \in Command, SendCmd(p, cmd)
    PROVE  IInv'
  <1> DEFINE msg == [type |-> "cmd", cmdID |-> p]
  <1> USE DEF SendCmd
  <1>1. msg \in MediatorMsg
    BY DEF MediatorMsg, CmdMsg
  <1>2. mediatorQueue \in Seq(MediatorMsg) /\ issued \in [Cmds -> Command \cup {None}]
        /\ handled \in [Cmds -> Nat]
    BY DEF IInv, TypeOK
  <1>3. TypeOK'
    BY <1>1, <1>2, AppendLemma DEF IInv, TypeOK
  <1>4. \A x \in Cmds : issued[x] \in Command => issued'[x] = issued[x]
    BY <1>2, DisjointLemma
  <1>5. /\ \A c : SentOK(c) => SentOK(c)'
        /\ \A c, x : IsChildOf(c, x) => IsChildOf(c, x)'
        /\ \A m \in MediatorMsg : MsgOK(m) => MsgOK(m)'
    BY <1>2, <1>4, MonotoneLemma
  <1>6. TableOK(commandsInfo)'
    <2>1. \A x \in Cmds \cap DOMAIN commandsInfo : ParentEntryOK(commandsInfo, x)'
      BY <1>4 DEF IInv, TableOK, ParentEntryOK
    <2>2. \A c \in ChildID \cap DOMAIN commandsInfo : ChildEntryOK(commandsInfo, c)'
      BY <1>4, <1>5 DEF IInv, TableOK, ChildEntryOK, HeldBack, IsChildOf
    <2> QED
      BY <2>1, <2>2 DEF IInv, TableOK
  <1>7. QueueInv'
    <2>1. MsgOK(msg)'
      BY <1>2 DEF MsgOK
    <2>2. Elems(mediatorQueue') \subseteq Elems(mediatorQueue) \cup {msg}
      BY <1>1, <1>2, AppendLemma
    <2>3. Elems(mediatorQueue) \subseteq MediatorMsg
      BY <1>2 DEF Elems
    <2>4. \A m \in Elems(mediatorQueue') : MsgOK(m)'
      BY <2>1, <2>2, <2>3, <1>5 DEF IInv, QueueInv
    <2> QED
      BY <2>4, <1>5 DEF IInv, QueueInv
  <1> QED
    BY <1>3, <1>6, <1>7 DEF IInv

\* Registering a command and its children, and sending the forwarded ones.
LEMMA ForwardCmdIInv ==
    ASSUME IInv, ForwardCmd
    PROVE  IInv'
  <1>0. PICK m, p, cmd, k : /\ m = Head(mediatorQueue)
                            /\ p = m.cmdID
                            /\ cmd = issued[p]
                            /\ k = handled[p] + 1
    OBVIOUS
  <1> DEFINE ids == {<<p, n, k>> : n \in Children(cmd)}
  <1>1. /\ mediatorQueue \in Seq(MediatorMsg) /\ mediatorQueue # <<>> /\ m.type = "cmd"
        /\ mediatorQueue' = Tail(mediatorQueue)
        /\ handled \in [Cmds -> Nat]
        /\ controllerQueue \in [Controller \X Zones -> Seq(ChildID)]
    BY <1>0 DEF IInv, TypeOK, ForwardCmd, Take
  <1>2. m \in MediatorMsg /\ MsgOK(m)
    BY <1>0, <1>1, TakeLemma DEF IInv, QueueInv
  <1>3. p \in Cmds /\ cmd \in Command /\ k \in Nat /\ 1 <= k
    BY <1>0, <1>1, <1>2 DEF MediatorMsg, CmdMsg, RplyMsg, MsgOK
  <1>4. /\ ForwardedTo(cmd) # {}
        /\ handled' = [handled EXCEPT ![p] = k]
        /\ commandsInfo' = WithChildren(commandsInfo, p, k, cmd)
        /\ controllerQueue' =
              [q \in Controller \X Zones |->
                    IF q[1] \in ForwardedTo(cmd) /\ q[2] = cmd.zone
                    THEN Append(controllerQueue[q], <<p, q[1], k>>)
                    ELSE controllerQueue[q]]
        /\ UNCHANGED <<issued, rplyLog, outcomes, redeliveries, losses>>
    BY <1>0 DEF ForwardCmd
  <1>5. handled' \in [Cmds -> Nat] /\ \A x \in Cmds : handled[x] <= handled'[x]
    BY <1>0, <1>1, <1>3, <1>4
  <1>6. /\ \A c : SentOK(c) => SentOK(c)'
        /\ \A c, x : IsChildOf(c, x) => IsChildOf(c, x)'
        /\ \A e \in MediatorMsg : MsgOK(e) => MsgOK(e)'
    BY <1>1, <1>4, <1>5, MonotoneLemma
  <1>7. ids \subseteq ChildID
    BY <1>3, ChildrenLemma DEF ChildID
  <1>8. \A n \in Children(cmd) : IsChildOf(<<p, n, k>>, p)'
    BY <1>0, <1>1, <1>3, <1>4, <1>7 DEF IsChildOf
  <1>9. /\ DOMAIN commandsInfo' = DOMAIN commandsInfo \cup {p} \cup ids
        /\ commandsInfo'[p] = CmdEntry(cmd, CMD_STATE_PROCESSING, None,
                                       [n \in Children(cmd) |-> <<p, n, k>>])
        /\ \A id \in ids : commandsInfo'[id] =
              CmdEntry(cmd, IF id[2] \in ForwardedTo(cmd) THEN CMD_STATE_PROCESSING
                                                          ELSE CMD_STATE_WAITING,
                       p, NoCommands)
        /\ \A id \in DOMAIN commandsInfo \ (ids \cup {p}) :
              commandsInfo'[id] = commandsInfo[id]
    BY <1>3, <1>4, <1>7, DisjointLemma DEF WithChildren
  <1>10. \A id \in DOMAIN commandsInfo' : IsCmdEntry(commandsInfo'[id])
    <2>1. IsCmdEntry(commandsInfo'[p])
      BY <1>3, <1>7, <1>9, ChildrenLemma
         DEF IsCmdEntry, CmdEntry, CmdState, CMD_STATE_PROCESSING
    <2>2. \A id \in ids : IsCmdEntry(commandsInfo'[id])
      <3> SUFFICES ASSUME NEW id \in ids PROVE IsCmdEntry(commandsInfo'[id])
        OBVIOUS
      <3>1. PICK state \in CmdState :
               commandsInfo'[id] = CmdEntry(cmd, state, p, NoCommands)
        BY <1>9 DEF CmdState
      <3>2. DOMAIN NoCommands = {}
        BY DEF NoCommands
      <3> HIDE DEF ids
      <3> QED
        BY <3>1, <3>2, <1>3 DEF IsCmdEntry, CmdEntry
    <2> QED
      BY <2>1, <2>2, <1>9 DEF IInv, TableOK
  <1>11. DOMAIN commandsInfo' \subseteq Cmds \cup ChildID
    BY <1>3, <1>7, <1>9 DEF IInv, TableOK
  <1>12. \A q \in Controller \X Zones : controllerQueue'[q] \in Seq(ChildID)
            /\ \A c \in Elems(controllerQueue'[q]) :
                  \/ c \in Elems(controllerQueue[q])
                  \/ \E n \in ForwardedTo(cmd) : c = <<p, n, k>>
    <2> SUFFICES ASSUME NEW q \in Controller \X Zones
                 PROVE  controllerQueue'[q] \in Seq(ChildID)
                        /\ \A c \in Elems(controllerQueue'[q]) :
                              \/ c \in Elems(controllerQueue[q])
                              \/ \E n \in ForwardedTo(cmd) : c = <<p, n, k>>
      OBVIOUS
    <2>1. CASE q[1] \in ForwardedTo(cmd) /\ q[2] = cmd.zone
      <3>1. controllerQueue'[q] = Append(controllerQueue[q], <<p, q[1], k>>)
        BY <2>1, <1>4
      <3>2. <<p, q[1], k>> \in ChildID
        BY <2>1, <1>7, ChildrenLemma
      <3>3. controllerQueue[q] \in Seq(ChildID)
        BY <1>1
      <3>4. /\ controllerQueue'[q] \in Seq(ChildID)
            /\ Elems(controllerQueue'[q]) \subseteq
                  Elems(controllerQueue[q]) \cup {<<p, q[1], k>>}
        BY <3>1, <3>2, <3>3, AppendLemma
      <3> QED
        BY <2>1, <3>4
    <2>2. CASE ~(q[1] \in ForwardedTo(cmd) /\ q[2] = cmd.zone)
      BY <2>2, <1>1, <1>4
    <2> QED
      BY <2>1, <2>2
  <1>13. TypeOK'
    <2>1. mediatorQueue' \in Seq(MediatorMsg)
      BY <1>1, TakeLemma
    <2>2. controllerQueue' \in [Controller \X Zones -> Seq(ChildID)]
      BY <1>4, <1>12
    <2> QED
      BY <2>1, <2>2, <1>4, <1>5, <1>10, <1>11 DEF IInv, TypeOK
  <1>14. TableOK(commandsInfo)'
    <2>1. ASSUME NEW x \in Cmds \cap DOMAIN commandsInfo'
          PROVE  ParentEntryOK(commandsInfo, x)'
      <3>1. CASE x = p
        <4>1. handled'[p] = k /\ issued'[p] = cmd
          BY <1>0, <1>1, <1>3, <1>4
        <4>2. /\ commandsInfo'[p].cmd = cmd
              /\ commandsInfo'[p].childCmdID = [n \in Children(cmd) |-> <<p, n, k>>]
          BY <1>9 DEF CmdEntry
        <4>3. \A n \in Children(cmd) : <<p, n, k>> \in DOMAIN commandsInfo'
          BY <1>9
        <4> HIDE DEF ids
        <4> QED
          BY <3>1, <4>1, <4>2, <4>3, <1>3 DEF ParentEntryOK
      <3>2. CASE x # p
        <4>1. x \in DOMAIN commandsInfo /\ x \notin ids
          BY <3>2, <2>1, <1>7, <1>9, DisjointLemma
        <4>2. ParentEntryOK(commandsInfo, x)
          BY <4>1 DEF IInv, TableOK
        <4>3. handled'[x] = handled[x]
          BY <3>2, <1>1, <1>4
        <4> QED
          BY <4>1, <4>2, <4>3, <3>2, <1>4, <1>9 DEF ParentEntryOK
      <3> QED
        BY <3>1, <3>2
    <2>2. ASSUME NEW c \in ChildID \cap DOMAIN commandsInfo'
          PROVE  ChildEntryOK(commandsInfo, c)'
      <3>1. CASE c \in ids
        <4>1. PICK n \in Children(cmd) : c = <<p, n, k>>
          BY <3>1
        <4>2. IsChildOf(c, c[1])'
          BY <4>1, <1>8
        <4>3. n \in ForwardedTo(cmd) \/ n \in PreparedFor(cmd)
          BY DEF Children
        <4>4. commandsInfo'[c] =
              CmdEntry(cmd, IF n \in ForwardedTo(cmd) THEN CMD_STATE_PROCESSING
                                                      ELSE CMD_STATE_WAITING,
                       p, NoCommands)
          BY <3>1, <4>1, <1>9
        <4> QED
          BY <4>1, <4>2, <4>3, <4>4, <1>0, <1>4
             DEF ChildEntryOK, CmdEntry, HeldBack, Determined, CMD_STATE_PROCESSING,
                 CMD_STATE_WAITING, CMD_STATE_SUCCESSFUL, CMD_STATE_FAIL
      <3>2. CASE c \notin ids
        <4>1. c \in DOMAIN commandsInfo /\ c # p
          BY <3>2, <1>3, <1>9, DisjointLemma
        <4>2. ChildEntryOK(commandsInfo, c)
          BY <4>1 DEF IInv, TableOK
        <4>3. commandsInfo'[c] = commandsInfo[c]
          BY <3>2, <4>1, <1>9
        <4> QED
          BY <4>2, <4>3, <1>4, <1>6 DEF ChildEntryOK, HeldBack
      <3> QED
        BY <3>1, <3>2
    <2> QED
      BY <2>1, <2>2, <1>10, <1>11 DEF TableOK
  <1>15. QueueInv'
    <2>1. \A e \in Elems(mediatorQueue') : MsgOK(e)'
      <3>1. Elems(mediatorQueue') \subseteq Elems(mediatorQueue)
        BY <1>1, TakeLemma
      <3>2. Elems(mediatorQueue) \subseteq MediatorMsg
        BY <1>1 DEF Elems
      <3> QED
        BY <3>1, <3>2, <1>6 DEF IInv, QueueInv
    <2>2. ASSUME NEW n \in ForwardedTo(cmd) PROVE SentOK(<<p, n, k>>)'
      <3>1. IsChildOf(<<p, n, k>>, p)'
        BY <1>8, ChildrenLemma
      <3>2. n \notin PreparedFor(cmd)
        BY ChildrenLemma
      <3> QED
        BY <3>1, <3>2, <1>0, <1>4 DEF SentOK, HeldBack
    <2>3. \A q \in Controller \X Zones : \A c \in Elems(controllerQueue'[q]) : SentOK(c)'
      BY <2>2, <1>6, <1>12 DEF IInv, QueueInv
    <2>4. \A o \in outcomes' : SentOK(o[1])'
      BY <1>4, <1>6 DEF IInv, QueueInv
    <2> QED
      BY <2>1, <2>3, <2>4 DEF QueueInv
  <1> QED
    BY <1>13, <1>14, <1>15 DEF IInv

\* Registering a command nobody has to act on, and possibly forgetting it.
LEMMA RejectCmdIInv ==
    ASSUME IInv, RejectCmd
    PROVE  IInv'
  <1>0. PICK m, p, cmd : /\ m = Head(mediatorQueue)
                         /\ p = m.cmdID
                         /\ cmd = issued[p]
    OBVIOUS
  <1>1. /\ mediatorQueue \in Seq(MediatorMsg) /\ mediatorQueue # <<>> /\ m.type = "cmd"
        /\ mediatorQueue' = Tail(mediatorQueue)
        /\ handled \in [Cmds -> Nat]
    BY <1>0 DEF IInv, TypeOK, RejectCmd, Take
  <1>2. m \in MediatorMsg /\ MsgOK(m)
    BY <1>0, <1>1, TakeLemma DEF IInv, QueueInv
  <1>3. p \in Cmds /\ cmd \in Command
    BY <1>0, <1>1, <1>2 DEF MediatorMsg, CmdMsg, RplyMsg, MsgOK
  <1>4. /\ ForwardedTo(cmd) = {}
        /\ handled' = [handled EXCEPT ![p] = @ + 1]
        /\ \/ commandsInfo' = addCmd(commandsInfo, p, cmd)
           \/ commandsInfo' = delCmdwithChildCmd(addCmd(commandsInfo, p, cmd), p)
        /\ UNCHANGED <<controllerQueue, issued, rplyLog, outcomes, redeliveries, losses>>
    BY <1>0 DEF RejectCmd
  <1>5. handled' \in [Cmds -> Nat] /\ \A x \in Cmds : handled[x] <= handled'[x]
    BY <1>1, <1>3, <1>4
  <1>6. /\ \A c : SentOK(c) => SentOK(c)'
        /\ \A c, x : IsChildOf(c, x) => IsChildOf(c, x)'
        /\ \A e \in MediatorMsg : MsgOK(e) => MsgOK(e)'
    BY <1>1, <1>4, <1>5, MonotoneLemma
  <1>7. /\ DOMAIN commandsInfo' \subseteq DOMAIN commandsInfo \cup {p}
        /\ DOMAIN commandsInfo \ {p} \subseteq DOMAIN commandsInfo'
        /\ \A id \in DOMAIN commandsInfo' : id # p => commandsInfo'[id] = commandsInfo[id]
        /\ p \in DOMAIN commandsInfo' =>
              commandsInfo'[p] = CmdEntry(cmd, CMD_STATE_WAITING, None, NoCommands)
    <2> DEFINE added == addCmd(commandsInfo, p, cmd)
    <2>1. /\ DOMAIN added = DOMAIN commandsInfo \cup {p}
          /\ \A id \in DOMAIN added : id # p => added[id] = commandsInfo[id]
          /\ added[p] = CmdEntry(cmd, CMD_STATE_WAITING, None, NoCommands)
      BY DEF addCmd
    <2>2. ChildCmdIDs(added, p) = {}
      BY <2>1 DEF ChildCmdIDs, CmdEntry, NoCommands
    <2>3. /\ DOMAIN delCmdwithChildCmd(added, p) = DOMAIN added \ {p}
          /\ \A id \in DOMAIN added \ {p} : delCmdwithChildCmd(added, p)[id] = added[id]
      BY <2>2 DEF delCmdwithChildCmd
    <2> HIDE DEF added
    <2>4. CASE commandsInfo' = added
      BY <2>1, <2>4
    <2>5. CASE commandsInfo' = delCmdwithChildCmd(added, p)
      BY <2>1, <2>3, <2>5
    <2> QED
      BY <2>4, <2>5, <1>4 DEF added
  <1>8. p \in DOMAIN commandsInfo' => IsCmdEntry(commandsInfo'[p]) /\ commandsInfo'[p].cmd = cmd
    <2>1. DOMAIN NoCommands = {}
      BY DEF NoCommands
    <2> QED
      BY <2>1, <1>3, <1>7 DEF IsCmdEntry, CmdEntry, CmdState
  <1>9. TableOK(commandsInfo)'
    <2>1. \A x \in Cmds \cap DOMAIN commandsInfo' : ParentEntryOK(commandsInfo, x)'
      <3> SUFFICES ASSUME NEW x \in Cmds \cap DOMAIN commandsInfo'
                   PROVE  ParentEntryOK(commandsInfo, x)'
        OBVIOUS
      <3>1. CASE x = p
        BY <3>1, <1>0, <1>3, <1>4, <1>8 DEF ParentEntryOK
      <3>2. CASE x # p
        <4>1. x \in DOMAIN commandsInfo /\ ParentEntryOK(commandsInfo, x)
          BY <3>2, <1>7 DEF IInv, TableOK
        <4>2. handled'[x] = handled[x]
          BY <3>2, <1>1, <1>4
        <4>3. ForwardedTo(issued[x]) # {} =>
                 \A n \in Children(issued[x]) : <<x, n, handled[x]>> \in ChildID
          BY <4>1, ChildCmdIDsLemma DEF IInv
        <4>4. ForwardedTo(issued[x]) # {} =>
                 \A n \in Children(issued[x]) : <<x, n, handled[x]>> # p
          BY <4>3, <1>3, DisjointLemma
        <4> QED
          BY <4>1, <4>2, <4>4, <3>2, <1>4, <1>7 DEF ParentEntryOK
      <3> QED
        BY <3>1, <3>2
    <2>2. \A c \in ChildID \cap DOMAIN commandsInfo' : ChildEntryOK(commandsInfo, c)'
      <3> SUFFICES ASSUME NEW c \in ChildID \cap DOMAIN commandsInfo'
                   PROVE  ChildEntryOK(commandsInfo, c)'
        OBVIOUS
      <3>1. c # p
        BY <1>3, DisjointLemma
      <3>2. c \in DOMAIN commandsInfo /\ ChildEntryOK(commandsInfo, c)
        BY <3>1, <1>7 DEF IInv, TableOK
      <3>3. commandsInfo'[c] = commandsInfo[c]
        BY <3>1, <1>7
      <3> QED
        BY <3>2, <3>3, <1>4, <1>6 DEF ChildEntryOK, HeldBack
    <2> QED
      BY <2>1, <2>2, <1>3, <1>7, <1>8 DEF IInv, TableOK
  <1>10. TypeOK'
    <2>1. mediatorQueue' \in Seq(MediatorMsg)
      BY <1>1, TakeLemma
    <2> QED
      BY <2>1, <1>4, <1>5, <1>9 DEF IInv, TypeOK, TableOK
  <1>11. QueueInv'
    <2>1. Elems(mediatorQueue') \subseteq Elems(mediatorQueue)
      BY <1>1, TakeLemma
    <2>2. Elems(mediatorQueue) \subseteq MediatorMsg
      BY <1>1 DEF Elems
    <2> QED
      BY <2>1, <2>2, <1>4, <1>6 DEF IInv, QueueInv
  <1> QED
    BY <1>9, <1>10, <1>11 DEF IInv

\* A step that takes a reply and leaves a table that is OK.
LEMMA RplyStepIInv ==
    ASSUME IInv, Take("rply"), TableOK(commandsInfo'),
           rplyLog' \in [Cmds -> Seq(Determined)],
           controllerQueue' \in [Controller \X Zones -> Seq(ChildID)],
           \A q \in Controller \X Zones : \A c \in Elems(controllerQueue'[q]) : SentOK(c),
           UNCHANGED <<issued, handled, outcomes, redeliveries, losses>>
    PROVE  IInv'
  <1>1. /\ mediatorQueue \in Seq(MediatorMsg) /\ mediatorQueue # <<>>
        /\ mediatorQueue' = Tail(mediatorQueue)
        /\ handled \in [Cmds -> Nat]
    BY DEF IInv, TypeOK, Take
  <1>2. /\ \A c : SentOK(c) => SentOK(c)'
        /\ \A c, x : IsChildOf(c, x) => IsChildOf(c, x)'
        /\ \A e \in MediatorMsg : MsgOK(e) => MsgOK(e)'
    BY <1>1, MonotoneLemma
  <1>3. TableOK(commandsInfo)'
    <2>1. \A x \in Cmds \cap DOMAIN commandsInfo' : ParentEntryOK(commandsInfo, x)'
      BY DEF TableOK, ParentEntryOK
    <2>2. \A c \in ChildID \cap DOMAIN commandsInfo' : ChildEntryOK(commandsInfo, c)'
      BY <1>2 DEF TableOK, ChildEntryOK, HeldBack
    <2> QED
      BY <2>1, <2>2 DEF TableOK
  <1>4. TypeOK'
    <2>1. mediatorQueue' \in Seq(MediatorMsg)
      BY <1>1, TakeLemma
    <2> QED
      BY <2>1, <1>3 DEF IInv, TypeOK, TableOK
  <1>5. QueueInv'
    <2>1. Elems(mediatorQueue') \subseteq Elems(mediatorQueue)
      BY <1>1, TakeLemma
    <2>2. Elems(mediatorQueue) \subseteq MediatorMsg
      BY <1>1 DEF Elems
    <2> QED
      BY <2>1, <2>2, <1>2 DEF IInv, QueueInv
  <1> QED
    BY <1>3, <1>4, <1>5 DEF IInv

\* What the mediator knows when it takes the first reply of a child.
LEMMA NewRplyLemma ==
    ASSUME IInv, NewRply,
           NEW m, m = Head(mediatorQueue),
           NEW p, p = ParentOfRply
    PROVE  /\ m \in RplyMsg
           /\ m.cmdID \in ChildID \cap DOMAIN commandsInfo
           /\ m.cmdState \in Determined
           /\ <<m.cmdID, m.cmdState>> \in outcomes
           /\ commandsInfo[m.cmdID].cmdReply = None
           /\ p = m.cmdID[1] /\ p \in Cmds
           /\ issued[p] \in Command /\ ForwardedTo(issued[p]) # {}
           /\ m.cmdID[3] \in 1..handled[p]
           /\ TableOK(Recorded(m))
           /\ DOMAIN Recorded(m) = DOMAIN commandsInfo
  <1>1. /\ mediatorQueue \in Seq(MediatorMsg) /\ mediatorQueue # <<>> /\ m.type = "rply"
        /\ m.cmdID \in DOMAIN commandsInfo
        /\ commandsInfo[m.cmdID].cmdReply = None
    BY DEF IInv, TypeOK, NewRply, IsAwaited, Take, hasCmd, isChildCmdHasCmdRply
  <1>2. m \in MediatorMsg /\ MsgOK(m)
    BY <1>1, TakeLemma DEF IInv, QueueInv
  <1>3. m \in RplyMsg /\ <<m.cmdID, m.cmdState>> \in outcomes
    BY <1>1, <1>2 DEF MediatorMsg, CmdMsg, MsgOK
  <1>4. m.cmdID \in ChildID /\ m.cmdState \in Determined
    BY <1>3 DEF RplyMsg
  <1>5. ChildEntryOK(commandsInfo, m.cmdID)
    BY <1>1, <1>4 DEF IInv, TableOK
  <1>6. p = m.cmdID[1] /\ IsChildOf(m.cmdID, p)
    BY <1>5 DEF ChildEntryOK, ParentOfRply
  <1>7. handled[p] \in Nat /\ m.cmdID[3] \in Nat
    BY <1>4, <1>6 DEF IInv, TypeOK, IsChildOf, ChildID
  <1>8. TableOK(Recorded(m)) /\ DOMAIN Recorded(m) = DOMAIN commandsInfo
    BY <1>1, <1>3, RecordLemma DEF IInv
  <1> QED
    BY <1>1, <1>3, <1>4, <1>6, <1>7, <1>8 DEF IsChildOf

\* What Conclude leaves alone: the other commands, and the entries of children.
ConcludeEffect(info, p, s) ==
    /\ \/ UNCHANGED rplyLog
       \/ rplyLog' = [rplyLog EXCEPT ![p] = Append(@, s)]
    /\ DOMAIN commandsInfo' \subseteq DOMAIN info
    /\ \A c \in ChildID \cap DOMAIN commandsInfo' : commandsInfo'[c] = info[c]
    /\ \A x \in Cmds \cap DOMAIN commandsInfo' : x # p => commandsInfo'[x] = info[x]
    /\ p \in DOMAIN commandsInfo' => ChildCmdIDs(commandsInfo', p) = ChildCmdIDs(info, p)

\* Sending the verdict to the command's source.
LEMMA ConcludeLemma ==
    ASSUME NEW info, TableOK(info), NEW p \in Cmds \cap DOMAIN info,
           ForwardedTo(issued[p]) # {}, NEW s \in Determined,
           rplyLog \in [Cmds -> Seq(Determined)],
           Conclude(info, p, s)
    PROVE  /\ TableOK(commandsInfo')
           /\ rplyLog' \in [Cmds -> Seq(Determined)]
           /\ ConcludeEffect(info, p, s)
  <1>1. PICK new : new = changeCmdState(info, p, s)
    OBVIOUS
  <1>2. s \in CmdState
    BY DEF Determined, CmdState
  <1>3. /\ TableOK(new)
        /\ DOMAIN new = DOMAIN info
        /\ \A c \in ChildID \cap DOMAIN info : new[c] = info[c]
        /\ ChildCmdIDs(new, p) = ChildCmdIDs(info, p)
    BY <1>1, <1>2, ChangeStateLemma
  <1>4. \A x \in DOMAIN info : x # p => new[x] = info[x]
    BY <1>1 DEF changeCmdState
  <1>5. /\ TableOK(Settle(new, p))
        /\ DOMAIN Settle(new, p) \subseteq DOMAIN new
        /\ \A id \in DOMAIN Settle(new, p) : Settle(new, p)[id] = new[id]
        /\ p \in DOMAIN Settle(new, p) => Settle(new, p) = new
    BY <1>3, SettleLemma
  <1>6. \/ commandsInfo' = new /\ UNCHANGED rplyLog
        \/ commandsInfo' = Settle(new, p) /\ rplyLog' = [rplyLog EXCEPT ![p] = Append(@, s)]
    BY <1>1 DEF Conclude
  <1>7. rplyLog[p] \in Seq(Determined) /\ Append(rplyLog[p], s) \in Seq(Determined)
    OBVIOUS
  <1>8. rplyLog' \in [Cmds -> Seq(Determined)]
    BY <1>6, <1>7
  <1>9. /\ TableOK(commandsInfo')
        /\ DOMAIN commandsInfo' \subseteq DOMAIN info
        /\ \A id \in DOMAIN commandsInfo' : commandsInfo'[id] = new[id]
    BY <1>3, <1>5, <1>6
  <1>10. p \in DOMAIN commandsInfo' => commandsInfo' = new
    BY <1>5, <1>6
  <1> QED
    BY <1>3, <1>4, <1>6, <1>8, <1>9, <1>10 DEF ConcludeEffect

\* The queues of child commands are as before.
LEMMA SameQueuesLemma ==
    ASSUME IInv, UNCHANGED controllerQueue
    PROVE  /\ controllerQueue' \in [Controller \X Zones -> Seq(ChildID)]
           /\ \A q \in Controller \X Zones : \A c \in Elems(controllerQueue'[q]) : SentOK(c)
  BY DEF IInv, TypeOK, QueueInv

\* DropRply in its two cases: nobody awaits the reply, or its parent is gone.
StaleRply ==
    /\ DropRply
    /\ UNCHANGED commandsInfo
OrphanRply ==
    /\ NewRply
    /\ ~hasCmd(commandsInfo, ParentOfRply)
    /\ commandsInfo' = Recorded(Head(mediatorQueue))
    /\ UNCHANGED <<controllerQueue, issued, handled, rplyLog, outcomes,
                   redeliveries, losses>>

\* What _commandReplyHandler can do.
LEMMA ReplyCases ==
    CommandReplyHandler => \/ StaleRply \/ OrphanRply \/ LastSuccess
                           \/ FirstFailure \/ AfterFailure \/ PartialSuccess
  <1>1. ASSUME DropRply PROVE StaleRply \/ OrphanRply
    <2>1. CASE IsAwaited(Head(mediatorQueue).cmdID)
      BY <1>1, <2>1 DEF DropRply, OrphanRply, NewRply
    <2>2. CASE ~IsAwaited(Head(mediatorQueue).cmdID)
      BY <1>1, <2>2 DEF DropRply, StaleRply
    <2> QED
      BY <2>1, <2>2
  <1> QED
    BY <1>1 DEF CommandReplyHandler

LEMMA StaleRplyIInv ==
    ASSUME IInv, StaleRply
    PROVE  IInv'
  <1>1. TableOK(commandsInfo') /\ rplyLog' \in [Cmds -> Seq(Determined)]
    BY DEF IInv, TypeOK, StaleRply, DropRply
  <1> QED
    BY <1>1, SameQueuesLemma, RplyStepIInv DEF StaleRply, DropRply

LEMMA OrphanRplyIInv ==
    ASSUME IInv, OrphanRply
    PROVE  IInv'
  <1>1. TableOK(commandsInfo')
    BY NewRplyLemma DEF OrphanRply
  <1>2. rplyLog' \in [Cmds -> Seq(Determined)]
    BY DEF IInv, TypeOK, OrphanRply
  <1> QED
    BY <1>1, <1>2, SameQueuesLemma, RplyStepIInv DEF OrphanRply, NewRply

LEMMA LastSuccessIInv ==
    ASSUME IInv, LastSuccess
    PROVE  IInv'
  <1>0. PICK m, p, info : /\ m = Head(mediatorQueue)
                          /\ p = ParentOfRply
                          /\ info = Recorded(m)
    OBVIOUS
  <1>1. /\ NewRply /\ p \in DOMAIN commandsInfo
        /\ Conclude(info, p, CMD_STATE_SUCCESSFUL)
    BY <1>0 DEF LastSuccess, hasCmd
  <1>2. /\ TableOK(info) /\ p \in Cmds \cap DOMAIN info
        /\ ForwardedTo(issued[p]) # {}
    BY <1>0, <1>1, NewRplyLemma
  <1>3. CMD_STATE_SUCCESSFUL \in Determined /\ rplyLog \in [Cmds -> Seq(Determined)]
    BY DEF Determined, IInv, TypeOK
  <1>4. TableOK(commandsInfo') /\ rplyLog' \in [Cmds -> Seq(Determined)]
    BY <1>1, <1>2, <1>3, ConcludeLemma
  <1> QED
    BY <1>1, <1>4, SameQueuesLemma, RplyStepIInv DEF LastSuccess, NewRply

LEMMA FirstFailureIInv ==
    ASSUME IInv, FirstFailure
    PROVE  IInv'
  <1>0. PICK m, p, info : /\ m = Head(mediatorQueue)
                          /\ p = ParentOfRply
                          /\ info = Recorded(m)
    OBVIOUS
  <1>1. /\ NewRply /\ p \in DOMAIN commandsInfo
        /\ Conclude(info, p, CMD_STATE_FAIL)
    BY <1>0 DEF FirstFailure, hasCmd
  <1>2. /\ TableOK(info) /\ p \in Cmds \cap DOMAIN info
        /\ ForwardedTo(issued[p]) # {}
    BY <1>0, <1>1, NewRplyLemma
  <1>3. CMD_STATE_FAIL \in Determined /\ rplyLog \in [Cmds -> Seq(Determined)]
    BY DEF Determined, IInv, TypeOK
  <1>4. TableOK(commandsInfo') /\ rplyLog' \in [Cmds -> Seq(Determined)]
    BY <1>1, <1>2, <1>3, ConcludeLemma
  <1> QED
    BY <1>1, <1>4, SameQueuesLemma, RplyStepIInv DEF FirstFailure, NewRply

LEMMA AfterFailureIInv ==
    ASSUME IInv, AfterFailure
    PROVE  IInv'
  <1>0. PICK m, p, info : /\ m = Head(mediatorQueue)
                          /\ p = ParentOfRply
                          /\ info = Recorded(m)
    OBVIOUS
  <1>1. NewRply /\ p \in DOMAIN commandsInfo /\ commandsInfo' = Settle(info, p)
    BY <1>0 DEF AfterFailure, hasCmd
  <1>2. /\ TableOK(info) /\ p \in Cmds \cap DOMAIN info
        /\ ForwardedTo(issued[p]) # {}
    BY <1>0, <1>1, NewRplyLemma
  <1>3. TableOK(commandsInfo')
    BY <1>1, <1>2, SettleLemma
  <1>4. rplyLog' \in [Cmds -> Seq(Determined)]
    BY DEF IInv, TypeOK, AfterFailure
  <1> QED
    BY <1>1, <1>3, <1>4, SameQueuesLemma, RplyStepIInv DEF AfterFailure, NewRply

\* When the mediator releases the VNF child, the SFF child of the same handling
\* has succeeded.
LEMMA ReleaseLemma ==
    ASSUME IInv, NEW info, TableOK(info), NEW p \in Cmds \cap DOMAIN info,
           issued[p] \in Command, ForwardedTo(issued[p]) # {},
           ReleasesVNF(info, p)
    PROVE  /\ info[p].childCmdID[VNF] = <<p, VNF, handled[p]>>
           /\ <<p, VNF, handled[p]>> \in ChildID \cap DOMAIN info
           /\ info[<<p, VNF, handled[p]>>].state = CMD_STATE_WAITING
           /\ SentOK(<<p, VNF, handled[p]>>)
           /\ <<VNF, info[p].cmd.zone>> \in Controller \X Zones
  <1>1. /\ ChildCmdIDs(info, p) = {<<p, n, handled[p]>> : n \in Children(issued[p])}
        /\ ChildCmdIDs(info, p) \subseteq ChildID \cap DOMAIN info
        /\ \A n \in Children(issued[p]) : info[p].childCmdID[n] = <<p, n, handled[p]>>
    BY ChildCmdIDsLemma
  <1>2. PICK c \in ChildCmdIDs(info, p) : info[c].state = CMD_STATE_WAITING
    BY DEF ReleasesVNF, isParentCmdWaiting, ChildrenIn
  <1>3. ChildEntryOK(info, c)
    BY <1>1 DEF TableOK
  <1>4. PICK n \in Children(issued[p]) : c = <<p, n, handled[p]>>
    BY <1>1
  <1>5. n \in PreparedFor(issued[p])
    BY <1>2, <1>3, <1>4 DEF ChildEntryOK, HeldBack
  <1>6. SFF \in Children(issued[p]) /\ VNF \in Children(issued[p]) /\ VNF \in Controller
    BY <1>5, ChildrenLemma
  <1>7. info[<<p, SFF, handled[p]>>].state = CMD_STATE_SUCCESSFUL
        /\ info[<<p, VNF, handled[p]>>].state = CMD_STATE_WAITING
    BY <1>1, <1>6 DEF ReleasesVNF, getChildCmdState
  <1>8. <<p, SFF, handled[p]>> \in ChildID \cap DOMAIN info
        /\ <<p, VNF, handled[p]>> \in ChildID \cap DOMAIN info
    BY <1>1, <1>6
  <1>9. ChildEntryOK(info, <<p, SFF, handled[p]>>) /\ ChildEntryOK(info, <<p, VNF, handled[p]>>)
    BY <1>8 DEF TableOK
  <1>10. <<<<p, SFF, handled[p]>>, CMD_STATE_SUCCESSFUL>> \in outcomes
    BY <1>7, <1>9 DEF ChildEntryOK, Determined
  <1>11. SentOK(<<p, VNF, handled[p]>>)
    BY <1>9, <1>10 DEF ChildEntryOK, SentOK, HasSFF
  <1>12. <<VNF, info[p].cmd.zone>> \in Controller \X Zones
    <2>1. IsCmdEntry(info[p])
      BY DEF TableOK
    <2>2. info[p].cmd \in Command
      BY <2>1 DEF IsCmdEntry
    <2> QED
      BY <2>2, <1>6 DEF Command
  <1> QED
    BY <1>1, <1>6, <1>7, <1>8, <1>11, <1>12

LEMMA PartialSuccessIInv ==
    ASSUME IInv, PartialSuccess
    PROVE  IInv'
  <1>0. PICK m, p, info : /\ m = Head(mediatorQueue)
                          /\ p = ParentOfRply
                          /\ info = Recorded(m)
    OBVIOUS
  <1>1. NewRply /\ p \in DOMAIN commandsInfo
    BY <1>0 DEF PartialSuccess, hasCmd
  <1>2. /\ TableOK(info) /\ p \in Cmds \cap DOMAIN info
        /\ issued[p] \in Command /\ ForwardedTo(issued[p]) # {}
    BY <1>0, <1>1, NewRplyLemma
  <1>3. rplyLog' \in [Cmds -> Seq(Determined)]
    BY DEF IInv, TypeOK, PartialSuccess
  <1>4. CASE ReleasesVNF(info, p)
    <2>0. PICK v, q : v = <<p, VNF, handled[p]>> /\ q = <<VNF, info[p].cmd.zone>>
      OBVIOUS
    <2>1. /\ info[p].childCmdID[VNF] = v /\ v \in ChildID /\ SentOK(v)
          /\ q \in Controller \X Zones
      BY <1>2, <1>4, <2>0, ReleaseLemma
    <2>2. /\ commandsInfo' =
               transitCmdState(transitCmdState(info,
                            p, CMD_STATE_WAITING, CMD_STATE_PROCESSING),
                            v, CMD_STATE_WAITING, CMD_STATE_PROCESSING)
          /\ controllerQueue' = [controllerQueue EXCEPT ![q] = Append(@, v)]
      BY <1>0, <1>4, <2>0, <2>1 DEF PartialSuccess
    <2>3. TableOK(transitCmdState(info, p, CMD_STATE_WAITING, CMD_STATE_PROCESSING))
      BY <1>2, TransitLemma
    <2>4. TableOK(commandsInfo')
      BY <2>2, <2>3, TransitLemma
    <2>5. controllerQueue \in [Controller \X Zones -> Seq(ChildID)]
      BY DEF IInv, TypeOK
    <2>6. /\ Append(controllerQueue[q], v) \in Seq(ChildID)
          /\ Elems(Append(controllerQueue[q], v)) \subseteq Elems(controllerQueue[q]) \cup {v}
      BY <2>1, <2>5, AppendLemma
    <2>7. controllerQueue' \in [Controller \X Zones -> Seq(ChildID)]
      BY <2>2, <2>5, <2>6
    <2>8. \A x \in Controller \X Zones : \A c \in Elems(controllerQueue'[x]) : SentOK(c)
      <3> SUFFICES ASSUME NEW x \in Controller \X Zones, NEW c \in Elems(controllerQueue'[x])
                   PROVE  SentOK(c)
        OBVIOUS
      <3>1. CASE x = q
        <4>1. c \in Elems(controllerQueue[q]) \cup {v}
          BY <3>1, <2>2, <2>5, <2>6
        <4> QED
          BY <4>1, <2>1 DEF IInv, QueueInv
      <3>2. CASE x # q
        BY <3>2, <2>2, <2>5 DEF IInv, QueueInv
      <3> QED
        BY <3>1, <3>2
    <2> QED
      BY <1>1, <1>3, <2>4, <2>7, <2>8, RplyStepIInv DEF PartialSuccess, NewRply
  <1>5. CASE ~ReleasesVNF(info, p)
    <2>1. commandsInfo' = Settle(info, p) /\ UNCHANGED controllerQueue
      BY <1>0, <1>5 DEF PartialSuccess
    <2>2. TableOK(commandsInfo')
      BY <2>1, <1>2, SettleLemma
    <2> QED
      BY <1>1, <1>3, <2>1, <2>2, SameQueuesLemma, RplyStepIInv DEF PartialSuccess, NewRply
  <1> QED
    BY <1>4, <1>5

\* A step that leaves the table alone and only moves messages about.
LEMMA QueueStepIInv ==
    ASSUME IInv,
           mediatorQueue' \in Seq(MediatorMsg),
           \A m \in Elems(mediatorQueue') : MsgOK(m)',
           controllerQueue' \in [Controller \X Zones -> Seq(ChildID)],
           \A q \in Controller \X Zones : \A c \in Elems(controllerQueue'[q]) : SentOK(c),
           outcomes \subseteq outcomes',
           outcomes' \subseteq ChildID \X Determined,
           \A o \in outcomes' : SentOK(o[1]),
           redeliveries' \in Nat, losses' \in Nat,
           UNCHANGED <<commandsInfo, issued, handled, rplyLog>>
    PROVE  IInv'
  <1>1. /\ \A c : SentOK(c) => SentOK(c)'
        /\ \A c, x : IsChildOf(c, x) => IsChildOf(c, x)'
        /\ \A e \in MediatorMsg : MsgOK(e) => MsgOK(e)'
    <2>1. handled \in [Cmds -> Nat]
      BY DEF IInv, TypeOK
    <2>2. \A x \in Cmds : handled[x] <= handled'[x]
      BY <2>1
    <2> QED
      BY <2>1, <2>2, MonotoneLemma
  <1>2. TypeOK'
    BY DEF IInv, TypeOK
  <1>3. TableOK(commandsInfo)'
    <2>1. \A x \in Cmds \cap DOMAIN commandsInfo' : ParentEntryOK(commandsInfo, x)'
      BY DEF IInv, TableOK, ParentEntryOK
    <2>2. \A c \in ChildID \cap DOMAIN commandsInfo' : ChildEntryOK(commandsInfo, c)'
      BY <1>1 DEF IInv, TableOK, ChildEntryOK, HeldBack
    <2> QED
      BY <2>1, <2>2 DEF IInv, TableOK
  <1>4. QueueInv'
    BY <1>1 DEF QueueInv
  <1> QED
    BY <1>2, <1>3, <1>4 DEF IInv

LEMMA ControllerStepIInv ==
    ASSUME IInv, NEW q \in Controller \X Zones, ControllerStep(q)
    PROVE  IInv'
  <1>0. PICK c : c = Head(controllerQueue[q])
    OBVIOUS
  <1>1. PICK s \in Outcome(c[2], issued[c[1]]) :
           /\ outcomes' = outcomes \cup {<<c, s>>}
           /\ mediatorQueue' = Append(mediatorQueue,
                                      [type |-> "rply", cmdID |-> c, cmdState |-> s])
    BY <1>0 DEF ControllerStep
  <1>2. /\ controllerQueue[q] # <<>>
        /\ controllerQueue' = [controllerQueue EXCEPT ![q] = Tail(@)]
        /\ UNCHANGED <<commandsInfo, issued, handled, rplyLog, redeliveries, losses>>
    BY DEF ControllerStep
  <1>3. /\ controllerQueue \in [Controller \X Zones -> Seq(ChildID)]
        /\ mediatorQueue \in Seq(MediatorMsg)
        /\ outcomes \subseteq ChildID \X Determined
        /\ redeliveries \in Nat /\ losses \in Nat
    BY DEF IInv, TypeOK
  <1>4. /\ c \in ChildID /\ c \in Elems(controllerQueue[q])
        /\ Tail(controllerQueue[q]) \in Seq(ChildID)
        /\ Elems(Tail(controllerQueue[q])) \subseteq Elems(controllerQueue[q])
    BY <1>0, <1>2, <1>3, TakeLemma
  <1>5. s \in Determined
    BY OutcomeLemma
  <1>6. PICK m : m = [type |-> "rply", cmdID |-> c, cmdState |-> s]
    OBVIOUS
  <1>7. m \in MediatorMsg /\ MsgOK(m)'
    BY <1>1, <1>4, <1>5, <1>6 DEF MediatorMsg, RplyMsg, MsgOK
  <1>8. /\ mediatorQueue' \in Seq(MediatorMsg)
        /\ Elems(mediatorQueue') \subseteq Elems(mediatorQueue) \cup {m}
    BY <1>1, <1>3, <1>6, <1>7, AppendLemma
  <1>9. \A e \in Elems(mediatorQueue) : MsgOK(e)'
    <2>1. \A e \in Elems(mediatorQueue) : MsgOK(e)
      BY DEF IInv, QueueInv
    <2> QED
      BY <2>1, <1>1, <1>2 DEF MsgOK
  <1>10. /\ controllerQueue' \in [Controller \X Zones -> Seq(ChildID)]
         /\ \A x \in Controller \X Zones : Elems(controllerQueue'[x]) \subseteq Elems(controllerQueue[x])
    BY <1>2, <1>3, <1>4
  <1>11. SentOK(c)
    BY <1>4 DEF IInv, QueueInv
  <1>12. \A o \in outcomes' : SentOK(o[1])
    BY <1>1, <1>11 DEF IInv, QueueInv
  <1>13. \A x \in Controller \X Zones : \A d \in Elems(controllerQueue'[x]) : SentOK(d)
    BY <1>10 DEF IInv, QueueInv
  <1>14. \A e \in Elems(mediatorQueue') : MsgOK(e)'
    BY <1>7, <1>8, <1>9
  <1>15. outcomes \subseteq outcomes' /\ outcomes' \subseteq ChildID \X Determined
    BY <1>1, <1>3, <1>4, <1>5
  <1> QED
    BY <1>2, <1>3, <1>8, <1>10, <1>12, <1>13, <1>14, <1>15, QueueStepIInv

\* A step that only drops or repeats messages.
LEMMA ShuffleIInv ==
    ASSUME IInv,
           mediatorQueue' \in Seq(MediatorMsg),
           Elems(mediatorQueue') \subseteq Elems(mediatorQueue),
           controllerQueue' \in [Controller \X Zones -> Seq(ChildID)],
           \A q \in Controller \X Zones :
              Elems(controllerQueue'[q]) \subseteq Elems(controllerQueue[q]),
           redeliveries' \in Nat, losses' \in Nat,
           UNCHANGED <<commandsInfo, issued, handled, rplyLog, outcomes>>
    PROVE  IInv'
  <1>1. \A m \in Elems(mediatorQueue') : MsgOK(m)'
    BY DEF IInv, QueueInv, MsgOK
  <1>2. \A q \in Controller \X Zones : \A c \in Elems(controllerQueue'[q]) : SentOK(c)
    BY DEF IInv, QueueInv
  <1>3. /\ outcomes \subseteq outcomes'
        /\ outcomes' \subseteq ChildID \X Determined
        /\ \A o \in outcomes' : SentOK(o[1])
    BY DEF IInv, TypeOK, QueueInv
  <1> QED
    BY <1>1, <1>2, <1>3, QueueStepIInv

LEMMA RedeliverIInv ==
    ASSUME IInv, Redeliver
    PROVE  IInv'
  <1>1. /\ controllerQueue \in [Controller \X Zones -> Seq(ChildID)]
        /\ mediatorQueue \in Seq(MediatorMsg)
        /\ redeliveries' \in Nat /\ losses' \in Nat
        /\ UNCHANGED <<commandsInfo, issued, handled, rplyLog, outcomes>>
    BY DEF IInv, TypeOK, Redeliver
  <1>2. CASE /\ mediatorQueue # <<>>
             /\ mediatorQueue' = <<Head(mediatorQueue)>> \o mediatorQueue
             /\ UNCHANGED controllerQueue
    <2>1. /\ mediatorQueue' \in Seq(MediatorMsg)
          /\ Elems(mediatorQueue') \subseteq Elems(mediatorQueue)
      BY <1>1, <1>2, RedeliverLemma
    <2> QED
      BY <1>1, <1>2, <2>1, ShuffleIInv
  <1>3. CASE /\ \E q \in Controller \X Zones :
                   /\ controllerQueue[q] # <<>>
                   /\ controllerQueue' = [controllerQueue EXCEPT ![q] = <<Head(@)>> \o @]
             /\ UNCHANGED mediatorQueue
    <2>1. PICK q \in Controller \X Zones :
                   /\ controllerQueue[q] # <<>>
                   /\ controllerQueue' = [controllerQueue EXCEPT ![q] = <<Head(@)>> \o @]
      BY <1>3
    <2>2. PICK s : s = <<Head(controllerQueue[q])>> \o controllerQueue[q]
      OBVIOUS
    <2>3. s \in Seq(ChildID) /\ Elems(s) \subseteq Elems(controllerQueue[q])
      BY <1>1, <2>1, <2>2, RedeliverLemma
    <2>4. controllerQueue' = [controllerQueue EXCEPT ![q] = s]
      BY <2>1, <2>2
    <2>5. /\ controllerQueue' \in [Controller \X Zones -> Seq(ChildID)]
          /\ \A x \in Controller \X Zones : Elems(controllerQueue'[x]) \subseteq Elems(controllerQueue[x])
      BY <1>1, <2>3, <2>4
    <2> QED
      BY <1>1, <1>3, <2>5, ShuffleIInv
  <1> QED
    BY <1>2, <1>3 DEF Redeliver

LEMMA LoseMsgIInv ==
    ASSUME IInv, LoseMsg
    PROVE  IInv'
  <1>1. /\ controllerQueue \in [Controller \X Zones -> Seq(ChildID)]
        /\ mediatorQueue \in Seq(MediatorMsg)
        /\ redeliveries' \in Nat /\ losses' \in Nat
        /\ UNCHANGED <<commandsInfo, issued, handled, rplyLog, outcomes>>
    BY DEF IInv, TypeOK, LoseMsg
  <1>2. CASE /\ mediatorQueue # <<>>
             /\ mediatorQueue' = Tail(mediatorQueue)
             /\ UNCHANGED controllerQueue
    <2>1. /\ mediatorQueue' \in Seq(MediatorMsg)
          /\ Elems(mediatorQueue') \subseteq Elems(mediatorQueue)
      BY <1>1, <1>2, TakeLemma
    <2> QED
      BY <1>1, <1>2, <2>1, ShuffleIInv
  <1>3. CASE /\ \E q \in Controller \X Zones :
                   /\ controllerQueue[q] # <<>>
                   /\ controllerQueue' = [controllerQueue EXCEPT ![q] = Tail(@)]
             /\ UNCHANGED mediatorQueue
    <2>1. PICK q \in Controller \X Zones :
                   /\ controllerQueue[q] # <<>>
                   /\ controllerQueue' = [controllerQueue EXCEPT ![q] = Tail(@)]
      BY <1>3
    <2>2. PICK s : s = Tail(controllerQueue[q])
      OBVIOUS
    <2>3. s \in Seq(ChildID) /\ Elems(s) \subseteq Elems(controllerQueue[q])
      BY <1>1, <2>1, <2>2, TakeLemma
    <2>4. controllerQueue' = [controllerQueue EXCEPT ![q] = s]
      BY <2>1, <2>2
    <2>5. /\ controllerQueue' \in [Controller \X Zones -> Seq(ChildID)]
          /\ \A x \in Controller \X Zones : Elems(controllerQueue'[x]) \subseteq Elems(controllerQueue[x])
      BY <1>1, <2>3, <2>4
    <2> QED
      BY <1>1, <1>3, <2>5, ShuffleIInv
  <1> QED
    BY <1>2, <1>3 DEF LoseMsg

LEMMA NextIInv == IInv /\ [Next]_vars => IInv'
  <1> SUFFICES ASSUME IInv, [Next]_vars PROVE IInv'
    OBVIOUS
  <1>1. ASSUME NEW p \in Cmds, NEW cmd \in Command, SendCmd(p, cmd) PROVE IInv'
    BY <1>1, SendCmdIInv
  <1>2. CASE StartMediator
    BY <1>2, ForwardCmdIInv, RejectCmdIInv, StaleRplyIInv, OrphanRplyIInv, LastSuccessIInv,
       FirstFailureIInv, AfterFailureIInv, PartialSuccessIInv,
       ReplyCases DEF StartMediator
  <1>3. ASSUME NEW q \in Controller \X Zones, ControllerStep(q) PROVE IInv'
    BY <1>3, ControllerStepIInv
  <1>4. CASE Redeliver
    BY <1>4, RedeliverIInv
  <1>5. CASE LoseMsg
    BY <1>5, LoseMsgIInv
  <1>6. CASE UNCHANGED vars
    BY <1>6 DEF vars, IInv, TypeOK, TableOK, ParentEntryOK, ChildEntryOK, IsChildOf,
       HeldBack, QueueInv, MsgOK, SentOK, HasSFF
  <1> QED
    BY <1>1, <1>2, <1>3, <1>4, <1>5, <1>6 DEF Next

\* IInv holds in every reachable state.
THEOREM Invariance == Spec => []IInv
  BY InitIInv, NextIInv, PTL DEF Spec

\* The table of the mediator and all its queues always have the type the code
\* relies on: _commandReplyHandler only ever meets identifiers the mediator made.
THEOREM TypeCorrect == Spec => []TypeOK
  <1>1. IInv => TypeOK
    BY DEF IInv
  <1> QED
    BY <1>1, Invariance, PTL

\* _waitingParentCmdHandler never lets a VNF be installed before its SFF entry,
\* whatever is lost, repeated or interleaved.
THEOREM VNFNeverBeforeSFF == Spec => []VNFAfterSFF
  <1>1. IInv => VNFAfterSFF
    BY DEF IInv, QueueInv, SentOK, VNFAfterSFF, Elems
  <1> QED
    BY <1>1, Invariance, PTL
-----------------------------------------------------------------------------
(***************************************************************************)
(* The replies to the sources of the commands are justified.               *)
(***************************************************************************)
\* The verdict s on command p is backed by what the controllers did.
RplyOK(p, s) ==
    /\ issued[p] \in Command
    /\ ForwardedTo(issued[p]) # {}
    /\ handled[p] # 0
    /\ s = CMD_STATE_SUCCESSFUL =>
          \E k \in 1..handled[p] : \A n \in Children(issued[p]) :
              <<<<p, n, k>>, CMD_STATE_SUCCESSFUL>> \in outcomes
    /\ s = CMD_STATE_FAIL =>
          \E n \in Children(issued[p]), k \in 1..handled[p] :
              <<<<p, n, k>>, CMD_STATE_FAIL>> \in outcomes

RplyInv == \A p \in Cmds : \A s \in Elems(rplyLog[p]) : RplyOK(p, s)

\* An issued command does not change, and what was handled or carried out stays so.
LEMMA GrowthLemma ==
    ASSUME IInv, [Next]_vars
    PROVE  /\ \A p \in Cmds : issued[p] \in Command => issued'[p] = issued[p]
           /\ \A p \in Cmds : handled[p] <= handled'[p]
           /\ outcomes \subseteq outcomes'
  <1>0. /\ issued \in [Cmds -> Command \cup {None}] /\ handled \in [Cmds -> Nat]
        /\ mediatorQueue \in Seq(MediatorMsg)
    BY DEF IInv, TypeOK
  <1>1. ASSUME NEW p \in Cmds, NEW cmd \in Command, SendCmd(p, cmd)
        PROVE  /\ \A x \in Cmds : issued[x] \in Command => issued'[x] = issued[x]
               /\ UNCHANGED <<handled, outcomes>>
    BY <1>0, <1>1, DisjointLemma DEF SendCmd
  <1>2. ASSUME ForwardCmd \/ RejectCmd
        PROVE  UNCHANGED <<issued, outcomes>> /\ \A x \in Cmds : handled[x] <= handled'[x]
    BY <1>0, <1>2 DEF ForwardCmd, RejectCmd
  <1>3. ASSUME CommandReplyHandler
        PROVE  UNCHANGED <<issued, handled, outcomes>>
    BY <1>3 DEF CommandReplyHandler, DropRply, LastSuccess, FirstFailure,
                AfterFailure, PartialSuccess
  <1>4. ASSUME NEW q \in Controller \X Zones, ControllerStep(q)
        PROVE  UNCHANGED <<issued, handled>> /\ outcomes \subseteq outcomes'
    BY <1>4 DEF ControllerStep
  <1>5. ASSUME Redeliver \/ LoseMsg \/ UNCHANGED vars
        PROVE  UNCHANGED <<issued, handled, outcomes>>
    BY <1>5 DEF Redeliver, LoseMsg, vars
  <1>6. UNCHANGED handled => \A x \in Cmds : handled[x] <= handled'[x]
    BY <1>0
  <1> QED
    BY <1>1, <1>2, <1>3, <1>4, <1>5, <1>6 DEF Next, StartMediator

\* A step that answers the source of command p with verdict s.
Answers(p, s) == rplyLog' = [rplyLog EXCEPT ![p] = Append(@, s)]

LEMMA LastSuccessAnswers ==
    ASSUME IInv, LastSuccess,
           NEW p, p = ParentOfRply
    PROVE  /\ p \in Cmds
           /\ UNCHANGED rplyLog \/ Answers(p, CMD_STATE_SUCCESSFUL)
           /\ RplyOK(p, CMD_STATE_SUCCESSFUL)
  <1>0. PICK m, info : m = Head(mediatorQueue) /\ info = Recorded(m)
    OBVIOUS
  <1>1. /\ NewRply /\ p \in DOMAIN commandsInfo
        /\ isParentCmdSuccessful(info, p)
        /\ Conclude(info, p, CMD_STATE_SUCCESSFUL)
    BY <1>0 DEF LastSuccess, hasCmd
  <1>2. /\ TableOK(info) /\ p \in Cmds \cap DOMAIN info
        /\ issued[p] \in Command /\ ForwardedTo(issued[p]) # {}
        /\ m.cmdID[3] \in 1..handled[p]
    BY <1>0, <1>1, NewRplyLemma
  <1>3. UNCHANGED rplyLog \/ Answers(p, CMD_STATE_SUCCESSFUL)
    BY <1>1 DEF Conclude, Answers
  <1>4. handled[p] \in Nat /\ handled[p] # 0 /\ handled[p] \in 1..handled[p]
    BY <1>2 DEF IInv, TypeOK
  <1>5. \A n \in Children(issued[p]) :
           <<<<p, n, handled[p]>>, CMD_STATE_SUCCESSFUL>> \in outcomes
    <2> SUFFICES ASSUME NEW n \in Children(issued[p])
                 PROVE  <<<<p, n, handled[p]>>, CMD_STATE_SUCCESSFUL>> \in outcomes
      OBVIOUS
    <2>1. PICK c : c = <<p, n, handled[p]>>
      OBVIOUS
    <2>2. c \in ChildCmdIDs(info, p) /\ c \in ChildID \cap DOMAIN info
      BY <2>1, <1>2, ChildCmdIDsLemma
    <2>3. info[c].state = CMD_STATE_SUCCESSFUL
      BY <2>2, <1>1 DEF isParentCmdSuccessful, ChildrenIn
    <2>4. ChildEntryOK(info, c)
      BY <2>2, <1>2 DEF TableOK
    <2> QED
      BY <2>1, <2>3, <2>4 DEF ChildEntryOK, Determined
  <1>6. CMD_STATE_SUCCESSFUL # CMD_STATE_FAIL
    BY DEF CMD_STATE_SUCCESSFUL, CMD_STATE_FAIL
  <1> QED
    BY <1>2, <1>3, <1>4, <1>5, <1>6 DEF RplyOK

LEMMA FirstFailureAnswers ==
    ASSUME IInv, FirstFailure,
           NEW p, p = ParentOfRply
    PROVE  /\ p \in Cmds
           /\ UNCHANGED rplyLog \/ Answers(p, CMD_STATE_FAIL)
           /\ RplyOK(p, CMD_STATE_FAIL)
  <1>0. PICK m, info : m = Head(mediatorQueue) /\ info = Recorded(m)
    OBVIOUS
  <1>1. /\ NewRply /\ p \in DOMAIN commandsInfo
        /\ m.cmdState = CMD_STATE_FAIL
        /\ Conclude(info, p, CMD_STATE_FAIL)
    BY <1>0 DEF FirstFailure, IsFirstFailure, hasCmd
  <1>2. /\ p \in Cmds
        /\ issued[p] \in Command /\ ForwardedTo(issued[p]) # {}
        /\ m.cmdID \in ChildID \cap DOMAIN commandsInfo
        /\ m.cmdID[1] = p
        /\ m.cmdID[3] \in 1..handled[p]
        /\ <<m.cmdID, CMD_STATE_FAIL>> \in outcomes
    BY <1>0, <1>1, NewRplyLemma
  <1>3. UNCHANGED rplyLog \/ Answers(p, CMD_STATE_FAIL)
    BY <1>1 DEF Conclude, Answers
  <1>4. handled[p] \in Nat /\ handled[p] # 0
    BY <1>2 DEF IInv, TypeOK
  <1>5. m.cmdID[2] \in Children(issued[p])
    <2>1. ChildEntryOK(commandsInfo, m.cmdID)
      BY <1>2 DEF IInv, TableOK
    <2> QED
      BY <2>1, <1>2 DEF ChildEntryOK, IsChildOf
  <1>6. m.cmdID = <<p, m.cmdID[2], m.cmdID[3]>>
    BY <1>2 DEF ChildID
  <1>7. CMD_STATE_SUCCESSFUL # CMD_STATE_FAIL
    BY DEF CMD_STATE_SUCCESSFUL, CMD_STATE_FAIL
  <1>8. \E n \in Children(issued[p]), k \in 1..handled[p] :
              <<<<p, n, k>>, CMD_STATE_FAIL>> \in outcomes
    BY <1>2, <1>5, <1>6
  <1> QED
    BY <1>2, <1>3, <1>4, <1>7, <1>8 DEF RplyOK

\* Only the last success and the first failure of a command are answered.
LEMMA AnswerLemma ==
    ASSUME IInv, [Next]_vars
    PROVE  \/ UNCHANGED rplyLog
           \/ LastSuccess /\ Answers(ParentOfRply, CMD_STATE_SUCCESSFUL)
           \/ FirstFailure /\ Answers(ParentOfRply, CMD_STATE_FAIL)
  <1>1. ASSUME NEW p \in Cmds, NEW cmd \in Command, SendCmd(p, cmd) PROVE UNCHANGED rplyLog
    BY <1>1 DEF SendCmd
  <1>2. ASSUME NEW q \in Controller \X Zones, ControllerStep(q) PROVE UNCHANGED rplyLog
    BY <1>2 DEF ControllerStep
  <1>3. ASSUME ForwardCmd \/ RejectCmd \/ DropRply \/ AfterFailure
               \/ PartialSuccess \/ Redeliver \/ LoseMsg \/ UNCHANGED vars
        PROVE  UNCHANGED rplyLog
    BY <1>3 DEF ForwardCmd, RejectCmd, DropRply, AfterFailure, PartialSuccess,
                Redeliver, LoseMsg, vars
  <1> QED
    BY <1>1, <1>2, <1>3, LastSuccessAnswers, FirstFailureAnswers
       DEF Next, StartMediator, CommandReplyHandler

LEMMA NextRplyInv == IInv /\ RplyInv /\ [Next]_vars => RplyInv'
  <1> SUFFICES ASSUME IInv, RplyInv, [Next]_vars PROVE RplyInv'
    OBVIOUS
  <1>1. /\ \A p \in Cmds : issued[p] \in Command => issued'[p] = issued[p]
        /\ \A p \in Cmds : handled[p] <= handled'[p]
        /\ outcomes \subseteq outcomes'
        /\ handled \in [Cmds -> Nat] /\ handled' \in [Cmds -> Nat]
        /\ rplyLog \in [Cmds -> Seq(Determined)]
    BY GrowthLemma, NextIInv DEF IInv, TypeOK
  <1>2. ASSUME NEW p \in Cmds, NEW s, RplyOK(p, s) PROVE RplyOK(p, s)'
    <2>1. issued'[p] = issued[p] /\ handled'[p] # 0 /\ 1..handled[p] \subseteq 1..handled'[p]
      BY <1>1, <1>2 DEF RplyOK
    <2> QED
      BY <1>1, <1>2, <2>1 DEF RplyOK
  <1>3. CASE UNCHANGED rplyLog
    BY <1>2, <1>3 DEF RplyInv
  <1>4. ASSUME NEW p \in Cmds, NEW s \in Determined, Answers(p, s), RplyOK(p, s)
        PROVE  RplyInv'
    <2> SUFFICES ASSUME NEW x \in Cmds, NEW t \in Elems(rplyLog'[x])
                 PROVE  RplyOK(x, t)'
      BY DEF RplyInv
    <2>1. CASE x = p
      <3>1. rplyLog'[x] = Append(rplyLog[p], s)
        BY <2>1, <1>1, <1>4 DEF Answers
      <3>2. t \in Elems(rplyLog[p]) \cup {s}
        BY <3>1, <1>1, AppendLemma
      <3> QED
        BY <2>1, <3>2, <1>2, <1>4 DEF RplyInv
    <2>2. CASE x # p
      <3>1. rplyLog'[x] = rplyLog[x]
        BY <2>2, <1>1, <1>4 DEF Answers
      <3> QED
        BY <3>1, <1>2 DEF RplyInv
    <2> QED
      BY <2>1, <2>2
  <1> QED
    BY <1>3, <1>4, AnswerLemma, LastSuccessAnswers, FirstFailureAnswers DEF Determined

LEMMA RplyInvariance == Spec => []RplyInv
  <1>1. Init => RplyInv
    BY DEF Init, RplyInv, Elems
  <1> QED
    BY <1>1, NextRplyInv, Invariance, PTL DEF Spec

\* _genParentCmdRply never reports a success that some controller did not
\* deliver for the same handling of the command.
THEOREM SuccessJustified == Spec => []SuccessIsJustified
  <1>1. RplyInv => SuccessIsJustified
    BY DEF RplyInv, RplyOK, SuccessIsJustified, Elems
  <1> QED
    BY <1>1, RplyInvariance, PTL

\* _genParentCmdRply never reports a failure no controller met.
THEOREM FailureJustified == Spec => []FailureIsJustified
  <1>1. RplyInv => FailureIsJustified
    BY DEF RplyInv, RplyOK, FailureIsJustified, Elems
  <1> QED
    BY <1>1, RplyInvariance, PTL

\* Both together: what _sendParentCmdRply tells the source of a command happened.
THEOREM VerdictJustified == Spec => []VerdictIsJustified
  <1>1. SuccessIsJustified /\ FailureIsJustified => VerdictIsJustified
    BY DEF VerdictIsJustified
  <1> QED
    BY <1>1, SuccessJustified, FailureJustified, PTL
-----------------------------------------------------------------------------
(***************************************************************************)
(* What the mediator guarantees when the broker delivers each command      *)
(* once; child commands and replies may still be repeated, and everything  *)
(* may be lost.  (A command that is delivered again after it was answered  *)
(* is carried out and answered a second time.)                             *)
(***************************************************************************)
(***************************************************************************)
(* The invariants.                                                         *)
(***************************************************************************)
\* A command is in the queue at most once, and only before it is handled.
FirstDelivery ==
    /\ \A i \in 1..Len(mediatorQueue) :
          mediatorQueue[i].type = "cmd" => handled[mediatorQueue[i].cmdID] = 0
    /\ \A i, j \in 1..Len(mediatorQueue) :
          (/\ mediatorQueue[i].type = "cmd"
           /\ mediatorQueue[j].type = "cmd"
           /\ mediatorQueue[i].cmdID = mediatorQueue[j].cmdID) => i = j
    /\ \A p \in Cmds : issued[p] = None => handled[p] = 0
    /\ \A p \in Cmds : handled[p] <= 1

\* A command that was answered was answered once and, while it is still in the
\* table, has a failed child.
AnsweredInv ==
    \A p \in Cmds : rplyLog[p] # <<>> =>
        /\ Len(rplyLog[p]) = 1
        /\ p \in DOMAIN commandsInfo => isParentCmdFailed(commandsInfo, p)

\* A child that is still held back has not been sent.
HeldBackInv ==
    /\ \A q \in Controller \X Zones : \A c \in Elems(controllerQueue[q]) :
          c \in DOMAIN commandsInfo => commandsInfo[c].state # CMD_STATE_WAITING
    /\ \A o \in outcomes :
          o[1] \in DOMAIN commandsInfo => commandsInfo[o[1]].state # CMD_STATE_WAITING

OnceInv == FirstDelivery /\ AnsweredInv
-----------------------------------------------------------------------------
(***************************************************************************)
(* A command is handled once.                                              *)
(***************************************************************************)
\* Taking or losing a message.
LEMMA TailFirstDelivery ==
    ASSUME IInv, FirstDelivery, mediatorQueue # <<>>,
           mediatorQueue' = Tail(mediatorQueue), UNCHANGED <<issued, handled>>
    PROVE  FirstDelivery'
  <1>1. mediatorQueue \in Seq(MediatorMsg)
    BY DEF IInv, TypeOK
  <1>2. \A i \in 1..Len(mediatorQueue') :
           i + 1 \in 1..Len(mediatorQueue) /\ mediatorQueue'[i] = mediatorQueue[i + 1]
    BY <1>1, TakeLemma
  <1>3. \A i, j \in 1..Len(mediatorQueue') : i + 1 = j + 1 => i = j
    BY <1>1
  <1> QED
    BY <1>2, <1>3 DEF FirstDelivery

LEMMA SendCmdFirstDelivery ==
    ASSUME IInv, FirstDelivery, NEW p \in Cmds, NEW cmd \in Command, SendCmd(p, cmd)
    PROVE  FirstDelivery'
  <1>0. PICK m : m = [type |-> "cmd", cmdID |-> p]
    OBVIOUS
  <1>1. /\ mediatorQueue \in Seq(MediatorMsg) /\ m \in MediatorMsg
        /\ issued \in [Cmds -> Command \cup {None}]
        /\ issued[p] = None /\ issued' = [issued EXCEPT ![p] = cmd]
        /\ UNCHANGED handled /\ handled[p] = 0
        /\ mediatorQueue' = Append(mediatorQueue, m)
    BY <1>0 DEF IInv, TypeOK, SendCmd, MediatorMsg, CmdMsg, FirstDelivery
  <1>2. \A i \in 1..Len(mediatorQueue') :
           \/ i \in 1..Len(mediatorQueue) /\ mediatorQueue'[i] = mediatorQueue[i]
           \/ i = Len(mediatorQueue) + 1 /\ mediatorQueue'[i] = m
    BY <1>1, AppendLemma
  <1>3. \A i \in 1..Len(mediatorQueue) :
           mediatorQueue[i].type = "cmd" => mediatorQueue[i].cmdID # p
    <2>1. None \notin Command
      BY DisjointLemma
    <2> QED
      BY <2>1, <1>1 DEF IInv, QueueInv, MsgOK, Elems
  <1>4. \A x \in Cmds : issued'[x] = None => issued[x] = None
    BY <1>1, DisjointLemma
  <1>5. m.cmdID = p
    BY <1>0
  <1> QED
    BY <1>1, <1>2, <1>3, <1>4, <1>5 DEF FirstDelivery

LEMMA HandleFirstDelivery ==
    ASSUME IInv, FirstDelivery, ForwardCmd \/ RejectCmd
    PROVE  /\ FirstDelivery'
           /\ handled[Head(mediatorQueue).cmdID] = 0
  <1>0. PICK m, p : m = Head(mediatorQueue) /\ p = m.cmdID
    OBVIOUS
  <1>1. /\ mediatorQueue \in Seq(MediatorMsg) /\ mediatorQueue # <<>> /\ m.type = "cmd"
        /\ mediatorQueue' = Tail(mediatorQueue)
        /\ handled \in [Cmds -> Nat] /\ UNCHANGED issued
        /\ handled' = [handled EXCEPT ![p] = handled[p] + 1]
    BY <1>0 DEF IInv, TypeOK, ForwardCmd, RejectCmd, Take
  <1>2. m \in MediatorMsg /\ MsgOK(m) /\ m = mediatorQueue[1] /\ 1 \in 1..Len(mediatorQueue)
    BY <1>0, <1>1, TakeLemma DEF IInv, QueueInv
  <1>3. p \in Cmds /\ issued[p] \in Command /\ handled[p] = 0
    BY <1>0, <1>1, <1>2 DEF MediatorMsg, CmdMsg, RplyMsg, MsgOK, FirstDelivery
  <1>4. \A i \in 1..Len(mediatorQueue') :
           /\ i + 1 \in 1..Len(mediatorQueue) /\ mediatorQueue'[i] = mediatorQueue[i + 1]
           /\ i + 1 # 1
    BY <1>1, TakeLemma
  <1>5. \A i \in 1..Len(mediatorQueue') :
           mediatorQueue'[i].type = "cmd" => /\ mediatorQueue'[i].cmdID # p
                                             /\ handled[mediatorQueue'[i].cmdID] = 0
    BY <1>0, <1>1, <1>2, <1>4 DEF FirstDelivery
  <1>6. handled'[p] = 1 /\ \A x : x # p => handled'[x] = handled[x]
    BY <1>1, <1>3
  <1>7. \A i, j \in 1..Len(mediatorQueue') : i + 1 = j + 1 => i = j
    BY <1>1
  <1>8. issued[p] # None
    BY <1>3, DisjointLemma
  <1>9. \A i \in 1..Len(mediatorQueue') :
           mediatorQueue'[i].type = "cmd" => handled'[mediatorQueue'[i].cmdID] = 0
    BY <1>5, <1>6
  <1>10. \A i, j \in 1..Len(mediatorQueue') :
          (/\ mediatorQueue'[i].type = "cmd"
           /\ mediatorQueue'[j].type = "cmd"
           /\ mediatorQueue'[i].cmdID = mediatorQueue'[j].cmdID) => i = j
    BY <1>4, <1>7 DEF FirstDelivery
  <1>11. \A x \in Cmds : (issued'[x] = None => handled'[x] = 0) /\ handled'[x] <= 1
    BY <1>1, <1>6, <1>8 DEF FirstDelivery
  <1>12. FirstDelivery'
    BY <1>9, <1>10, <1>11 DEF FirstDelivery
  <1> QED
    BY <1>0, <1>3, <1>12

LEMMA ControllerStepFirstDelivery ==
    ASSUME IInv, FirstDelivery, NEW q \in Controller \X Zones, ControllerStep(q)
    PROVE  FirstDelivery'
  <1>1. PICK c, s : /\ c = Head(controllerQueue[q])
                    /\ s \in Outcome(c[2], issued[c[1]])
                    /\ mediatorQueue' = Append(mediatorQueue,
                                   [type |-> "rply", cmdID |-> c, cmdState |-> s])
    BY DEF ControllerStep
  <1>2. PICK m : m = [type |-> "rply", cmdID |-> c, cmdState |-> s]
    OBVIOUS
  <1>3. /\ mediatorQueue \in Seq(MediatorMsg) /\ controllerQueue[q] \in Seq(ChildID)
        /\ controllerQueue[q] # <<>> /\ UNCHANGED <<issued, handled>>
    BY DEF IInv, TypeOK, ControllerStep
  <1>4. c \in ChildID /\ s \in Determined
    BY <1>1, <1>3, TakeLemma, OutcomeLemma
  <1>5. m \in MediatorMsg /\ m.type # "cmd"
    BY <1>2, <1>4 DEF MediatorMsg, RplyMsg
  <1>6. \A i \in 1..Len(mediatorQueue') :
           mediatorQueue'[i].type = "cmd" =>
              i \in 1..Len(mediatorQueue) /\ mediatorQueue'[i] = mediatorQueue[i]
    BY <1>1, <1>2, <1>3, <1>5, AppendLemma
  <1> QED
    BY <1>3, <1>6 DEF FirstDelivery

LEMMA RedeliverFirstDelivery ==
    ASSUME IInv, FirstDelivery, "cmd" \notin Redeliverable, Redeliver
    PROVE  FirstDelivery'
  <1>1. mediatorQueue \in Seq(MediatorMsg) /\ UNCHANGED <<issued, handled>>
    BY DEF IInv, TypeOK, Redeliver
  <1>2. CASE /\ mediatorQueue # <<>>
             /\ Head(mediatorQueue).type \in Redeliverable
             /\ mediatorQueue' = <<Head(mediatorQueue)>> \o mediatorQueue
    <2>1. mediatorQueue[1].type # "cmd"
      BY <1>1, <1>2, TakeLemma
    <2>2. \A i \in 1..Len(mediatorQueue') :
             \/ i = 1 /\ mediatorQueue'[i] = mediatorQueue[1]
             \/ /\ i # 1
                /\ i - 1 \in 1..Len(mediatorQueue)
                /\ mediatorQueue'[i] = mediatorQueue[i - 1]
      BY <1>1, <1>2, RedeliverLemma
    <2>3. \A i \in 1..Len(mediatorQueue') : i \in Int
      BY <1>1, <1>2
    <2>4. \A i \in 1..Len(mediatorQueue') :
             mediatorQueue'[i].type = "cmd" =>
                i - 1 \in 1..Len(mediatorQueue) /\ mediatorQueue'[i] = mediatorQueue[i - 1]
      BY <2>1, <2>2
    <2>5. \A i, j \in 1..Len(mediatorQueue') : i - 1 = j - 1 => i = j
      BY <2>3
    <2>6. \A i, j \in 1..Len(mediatorQueue') :
          (/\ mediatorQueue'[i].type = "cmd"
           /\ mediatorQueue'[j].type = "cmd"
           /\ mediatorQueue'[i].cmdID = mediatorQueue'[j].cmdID) => i - 1 = j - 1
      BY <2>4 DEF FirstDelivery
    <2> QED
      BY <1>1, <2>4, <2>5, <2>6 DEF FirstDelivery
  <1>3. CASE UNCHANGED mediatorQueue
    BY <1>1, <1>3 DEF FirstDelivery
  <1> QED
    BY <1>2, <1>3 DEF Redeliver

LEMMA NextFirstDelivery ==
    ASSUME "cmd" \notin Redeliverable
    PROVE  IInv /\ FirstDelivery /\ [Next]_vars => FirstDelivery'
  <1> SUFFICES ASSUME IInv, FirstDelivery, [Next]_vars PROVE FirstDelivery'
    OBVIOUS
  <1>1. ASSUME NEW p \in Cmds, NEW cmd \in Command, SendCmd(p, cmd) PROVE FirstDelivery'
    BY <1>1, SendCmdFirstDelivery
  <1>2. CASE ForwardCmd \/ RejectCmd
    BY <1>2, HandleFirstDelivery
  <1>3. CASE CommandReplyHandler
    <2>1. /\ mediatorQueue # <<>> /\ mediatorQueue' = Tail(mediatorQueue)
          /\ UNCHANGED <<issued, handled>>
      BY <1>3 DEF CommandReplyHandler, DropRply, LastSuccess, FirstFailure,
                  AfterFailure, PartialSuccess, NewRply, Take
    <2> QED
      BY <2>1, TailFirstDelivery
  <1>4. ASSUME NEW q \in Controller \X Zones, ControllerStep(q) PROVE FirstDelivery'
    BY <1>4, ControllerStepFirstDelivery
  <1>5. CASE Redeliver
    BY <1>5, RedeliverFirstDelivery
  <1>6. CASE LoseMsg
    <2>1. CASE mediatorQueue # <<>> /\ mediatorQueue' = Tail(mediatorQueue)
      BY <1>6, <2>1, TailFirstDelivery DEF LoseMsg
    <2>2. CASE UNCHANGED mediatorQueue
      BY <1>6, <2>2 DEF LoseMsg, FirstDelivery
    <2> QED
      BY <1>6, <2>1, <2>2 DEF LoseMsg
  <1>7. CASE UNCHANGED vars
    BY <1>7 DEF vars, FirstDelivery
  <1> QED
    BY <1>1, <1>2, <1>3, <1>4, <1>5, <1>6, <1>7 DEF Next, StartMediator
-----------------------------------------------------------------------------
(***************************************************************************)
(* A command is answered once.                                             *)
(***************************************************************************)
\* What RplyInv says of an answered command.
LEMMA AnsweredLemma ==
    ASSUME IInv, RplyInv, NEW p \in Cmds, rplyLog[p] # <<>>
    PROVE  issued[p] \in Command /\ ForwardedTo(issued[p]) # {} /\ handled[p] # 0
  <1>1. rplyLog[p] \in Seq(Determined)
    BY DEF IInv, TypeOK
  <1>2. Head(rplyLog[p]) \in Elems(rplyLog[p])
    BY <1>1, TakeLemma
  <1> QED
    BY <1>2 DEF RplyInv, RplyOK

\* Handling a command only touches its own entry and those of its new children.
LEMMA HandleOthersLemma ==
    ASSUME IInv, ForwardCmd \/ RejectCmd, NEW p, p = Head(mediatorQueue).cmdID
    PROVE  /\ p \in Cmds
           /\ \A id \in DOMAIN commandsInfo' :
                 (id \in Cmds /\ id # p) \/ (id \in ChildID /\ id[1] # p) =>
                    id \in DOMAIN commandsInfo /\ commandsInfo'[id] = commandsInfo[id]
           /\ \A id \in ChildID \cap DOMAIN commandsInfo' :
                 \/ id \in DOMAIN commandsInfo /\ commandsInfo'[id] = commandsInfo[id]
                 \/ /\ id[1] = p /\ id[3] = handled[p] + 1
                    /\ id[2] \in ForwardedTo(issued[p]) =>
                          commandsInfo'[id].state # CMD_STATE_WAITING
  <1>1. p \in Cmds
    <2>1. mediatorQueue # <<>> /\ Head(mediatorQueue).type = "cmd"
          /\ mediatorQueue \in Seq(MediatorMsg)
      BY DEF ForwardCmd, RejectCmd, Take, IInv, TypeOK
    <2>2. Head(mediatorQueue) \in MediatorMsg
      BY <2>1, TakeLemma
    <2> QED
      BY <2>1, <2>2 DEF MediatorMsg, CmdMsg, RplyMsg
  <1>2. CASE ForwardCmd
    <2>1. PICK k, cmd : /\ k = handled[p] + 1 /\ cmd = issued[p]
                        /\ commandsInfo' = WithChildren(commandsInfo, p, k, cmd)
      BY <1>2 DEF ForwardCmd
    <2>2. PICK ids : ids = {<<p, n, k>> : n \in Children(cmd)}
      OBVIOUS
    <2>3. handled[p] \in Nat
      BY <1>1 DEF IInv, TypeOK
    <2>4. \A id \in ids : id[1] = p /\ id[3] = k /\ id \in ChildID /\ id # p
      BY <2>1, <2>2, <2>3, <1>1, ChildrenLemma, DisjointLemma DEF ChildID
    <2>5. /\ DOMAIN commandsInfo' = DOMAIN commandsInfo \cup {p} \cup ids
          /\ \A id \in DOMAIN commandsInfo \ (ids \cup {p}) :
                commandsInfo'[id] = commandsInfo[id]
          /\ \A id \in ids : id # p => commandsInfo'[id] =
                CmdEntry(cmd,
                         IF id[2] \in ForwardedTo(cmd) THEN CMD_STATE_PROCESSING
                                                       ELSE CMD_STATE_WAITING,
                         p, NoCommands)
      BY <2>1, <2>2 DEF WithChildren
    <2>6. \A id \in ids : id[2] \in ForwardedTo(cmd) =>
                             commandsInfo'[id].state # CMD_STATE_WAITING
      BY <2>4, <2>5 DEF CmdEntry, CMD_STATE_PROCESSING, CMD_STATE_WAITING
    <2> QED
      BY <2>1, <2>4, <2>5, <2>6, <1>1, DisjointLemma
  <1>3. CASE RejectCmd
    <2>1. PICK cmd, added : /\ added = addCmd(commandsInfo, p, cmd)
                            /\ \/ commandsInfo' = added
                               \/ commandsInfo' = delCmdwithChildCmd(added, p)
      BY <1>3 DEF RejectCmd
    <2>2. /\ DOMAIN added = DOMAIN commandsInfo \cup {p}
          /\ \A id \in DOMAIN added : id # p => added[id] = commandsInfo[id]
      BY <2>1 DEF addCmd
    <2>3. DOMAIN commandsInfo' \subseteq DOMAIN added
          /\ \A id \in DOMAIN commandsInfo' : commandsInfo'[id] = added[id]
      BY <2>1 DEF delCmdwithChildCmd
    <2> QED
      BY <2>2, <2>3, <1>1, DisjointLemma
  <1> QED
    BY <1>1, <1>2, <1>3

\* Whether a command has failed depends on its children only.
LEMMA FailedLemma ==
    ASSUME NEW a, NEW b, NEW x,
           ChildCmdIDs(b, x) = ChildCmdIDs(a, x),
           \A c \in ChildCmdIDs(a, x) : b[c].state = a[c].state,
           isParentCmdFailed(a, x)
    PROVE  isParentCmdFailed(b, x)
  BY DEF isParentCmdFailed, ChildrenIn

\* The handling of a reply only touches the entries of its own command.
LEMMA OthersLemma ==
    ASSUME IInv, NEW p, p = ParentOfRply,
           OrphanRply \/ LastSuccess \/ FirstFailure \/ AfterFailure \/ PartialSuccess,
           NEW id \in DOMAIN commandsInfo'
    PROVE  /\ id \in DOMAIN commandsInfo
           /\ id \in Cmds /\ id # p => commandsInfo'[id] = commandsInfo[id]
           /\ id \in ChildID /\ id[1] # p => commandsInfo'[id] = commandsInfo[id]
  <1>0. PICK m, info : m = Head(mediatorQueue) /\ info = Recorded(m)
    OBVIOUS
  <1>1. NewRply
    BY DEF OrphanRply, LastSuccess, FirstFailure, AfterFailure, PartialSuccess
  <1>2. /\ TableOK(info) /\ DOMAIN info = DOMAIN commandsInfo /\ p \in Cmds
        /\ issued[p] \in Command /\ ForwardedTo(issued[p]) # {}
        /\ m \in RplyMsg /\ m.cmdID \in ChildID \cap DOMAIN commandsInfo
        /\ p = m.cmdID[1] /\ <<m.cmdID, m.cmdState>> \in outcomes
    BY <1>0, <1>1, NewRplyLemma
  <1>3. \A x \in DOMAIN commandsInfo : x # m.cmdID => info[x] = commandsInfo[x]
    BY <1>0, <1>2, RecordLemma DEF IInv
  <1>4. \A x \in DOMAIN commandsInfo :
           (x \in Cmds \/ (x \in ChildID /\ x[1] # p)) => info[x] = commandsInfo[x]
    BY <1>2, <1>3, DisjointLemma
  <1>5. id \in DOMAIN info
        /\ (id \in Cmds /\ id # p => commandsInfo'[id] = info[id])
        /\ (id \in ChildID /\ id[1] # p => commandsInfo'[id] = info[id])
    <2>1. CASE OrphanRply
      BY <2>1, <1>0 DEF OrphanRply
    <2>2. CASE LastSuccess \/ FirstFailure
      <3>1. PICK s \in Determined : Conclude(info, p, s) /\ p \in DOMAIN info
        BY <2>2, <1>0, <1>2 DEF LastSuccess, FirstFailure, Determined, hasCmd
      <3>2. rplyLog \in [Cmds -> Seq(Determined)]
        BY DEF IInv, TypeOK
      <3>3. /\ DOMAIN commandsInfo' \subseteq DOMAIN info
            /\ \A c \in ChildID \cap DOMAIN commandsInfo' : commandsInfo'[c] = info[c]
            /\ \A x \in Cmds \cap DOMAIN commandsInfo' :
                  x # p => commandsInfo'[x] = info[x]
        <4>1. ConcludeEffect(info, p, s)
          BY <3>1, <3>2, <1>2, ConcludeLemma
        <4> QED
          BY <4>1 DEF ConcludeEffect
      <3> QED
        BY <3>3
    <2>3. CASE commandsInfo' = Settle(info, p) /\ p \in DOMAIN info
      BY <2>3, <1>2, SettleLemma
    <2>4. CASE PartialSuccess /\ ReleasesVNF(info, p)
      <3>1. PICK v, t : /\ v = <<p, VNF, handled[p]>>
                        /\ t = transitCmdState(info, p, CMD_STATE_WAITING,
                                               CMD_STATE_PROCESSING)
        OBVIOUS
      <3>2. p \in DOMAIN info
        BY <2>4, <1>0, <1>2 DEF PartialSuccess, hasCmd
      <3>3. info[p].childCmdID[VNF] = v /\ v \in ChildID
        BY <2>4, <3>1, <3>2, <1>2, ReleaseLemma
      <3>4. commandsInfo' = transitCmdState(t, v, CMD_STATE_WAITING, CMD_STATE_PROCESSING)
        BY <2>4, <3>1, <3>3, <1>0 DEF PartialSuccess
      <3>5. TableOK(t) /\ DOMAIN t = DOMAIN info /\ \A x \in DOMAIN info : x # p => t[x] = info[x]
        BY <3>1, <1>2, TransitLemma
      <3>6. DOMAIN commandsInfo' = DOMAIN t
            /\ \A x \in DOMAIN t : x # v => commandsInfo'[x] = t[x]
        BY <3>4, <3>5, TransitLemma
      <3>7. id \in Cmds => id # v
        BY <3>3, DisjointLemma
      <3>8. id \in ChildID => id # p
        BY <1>2, DisjointLemma
      <3>9. id[1] # p => id # v
        BY <3>1
      <3> QED
        BY <3>5, <3>6, <3>7, <3>8, <3>9
    <2> QED
      BY <2>1, <2>2, <2>3, <2>4, <1>0, <1>2 DEF AfterFailure, PartialSuccess, hasCmd
  <1> QED
    BY <1>2, <1>4, <1>5

\* An answered command still in the table has, besides the child whose reply is
\* being handled, another child that failed.
LEMMA EarlierFailureLemma ==
    ASSUME IInv, RplyInv, FirstDelivery, AnsweredInv, NewRply,
           NEW m, m = Head(mediatorQueue),
           NEW p, p = ParentOfRply, p \in DOMAIN commandsInfo, rplyLog[p] # <<>>
    PROVE  \E d \in ChildCmdIDs(Recorded(m), p) :
              d # m.cmdID /\ Recorded(m)[d].state = CMD_STATE_FAIL
  <1>1. /\ TableOK(Recorded(m)) /\ DOMAIN Recorded(m) = DOMAIN commandsInfo /\ p \in Cmds
        /\ m \in RplyMsg /\ m.cmdID \in DOMAIN commandsInfo
        /\ <<m.cmdID, m.cmdState>> \in outcomes
        /\ ForwardedTo(issued[p]) # {}
        /\ commandsInfo[m.cmdID].cmdReply = None
    BY NewRplyLemma
  <1>2. \A x \in DOMAIN commandsInfo : x # m.cmdID => Recorded(m)[x] = commandsInfo[x]
    BY <1>1, RecordLemma DEF IInv
  <1>3. PICK d \in ChildCmdIDs(commandsInfo, p) : commandsInfo[d].state = CMD_STATE_FAIL
    BY <1>1 DEF AnsweredInv, isParentCmdFailed, ChildrenIn
  <1>4. /\ ChildCmdIDs(Recorded(m), p) = ChildCmdIDs(commandsInfo, p)
        /\ d \in ChildID \cap DOMAIN commandsInfo
    BY <1>1, <1>3, ChildCmdIDsLemma DEF IInv
  <1>5. ChildEntryOK(commandsInfo, d)
    BY <1>4 DEF IInv, TableOK
  <1>6. d # m.cmdID
    BY <1>1, <1>3, <1>5 DEF ChildEntryOK, Determined
  <1> QED
    BY <1>2, <1>3, <1>4, <1>6

\* With commands handled once, the reply is from a child of the current handling.
LEMMA CurrentChildLemma ==
    ASSUME IInv, FirstDelivery, NewRply,
           NEW m, m = Head(mediatorQueue),
           NEW p, p = ParentOfRply, p \in DOMAIN commandsInfo
    PROVE  m.cmdID \in ChildCmdIDs(Recorded(m), p)
  <1>1. /\ TableOK(Recorded(m)) /\ p \in Cmds \cap DOMAIN Recorded(m)
        /\ m.cmdID \in ChildID \cap DOMAIN commandsInfo
        /\ m.cmdID[1] = p /\ m.cmdID[3] \in 1..handled[p]
        /\ ForwardedTo(issued[p]) # {}
    BY NewRplyLemma
  <1>2. ChildEntryOK(commandsInfo, m.cmdID)
    BY <1>1 DEF IInv, TableOK
  <1>3. m.cmdID[2] \in Children(issued[p])
    BY <1>1, <1>2 DEF ChildEntryOK, IsChildOf
  <1>4. handled[p] \in Nat /\ handled[p] <= 1
    BY <1>1 DEF IInv, TypeOK, FirstDelivery
  <1>5. m.cmdID[3] = handled[p]
    BY <1>1, <1>4
  <1>6. m.cmdID = <<p, m.cmdID[2], handled[p]>>
    BY <1>1, <1>5 DEF ChildID
  <1>7. ChildCmdIDs(Recorded(m), p) = {<<p, n, handled[p]>> : n \in Children(issued[p])}
    BY <1>1, ChildCmdIDsLemma
  <1> QED
    BY <1>3, <1>6, <1>7

\* A command is not answered before its last success, its first failure, or the
\* release of its held-back child.
LEMMA UnansweredLemma ==
    ASSUME IInv, RplyInv, OnceInv, NEW p, p = ParentOfRply,
           LastSuccess \/ FirstFailure \/ PartialSuccess
    PROVE  p \in Cmds /\ rplyLog[p] = <<>>
  <1>0. PICK m, info : m = Head(mediatorQueue) /\ info = Recorded(m)
    OBVIOUS
  <1>1. NewRply /\ p \in DOMAIN commandsInfo
    BY DEF LastSuccess, FirstFailure, PartialSuccess, hasCmd
  <1>2. p \in Cmds
    BY <1>0, <1>1, NewRplyLemma
  <1>3. SUFFICES ASSUME rplyLog[p] # <<>> PROVE FALSE
    BY <1>2
  <1>4. PICK d \in ChildCmdIDs(info, p) : d # m.cmdID /\ info[d].state = CMD_STATE_FAIL
    BY <1>0, <1>1, <1>3, EarlierFailureLemma DEF OnceInv
  <1>5. CASE LastSuccess
    <2>1. isParentCmdSuccessful(info, p)
      BY <1>0, <1>5 DEF LastSuccess
    <2> QED
      BY <2>1, <1>4
         DEF isParentCmdSuccessful, ChildrenIn, CMD_STATE_SUCCESSFUL, CMD_STATE_FAIL
  <1>6. CASE FirstFailure
    <2>1. isOnlyOneChildCmdFailed(info, p) /\ m.cmdState = CMD_STATE_FAIL
      BY <1>0, <1>6 DEF FirstFailure, IsFirstFailure
    <2>2. m.cmdID \in ChildCmdIDs(info, p)
      BY <1>0, <1>1, CurrentChildLemma DEF OnceInv
    <2>3. info[m.cmdID].state = CMD_STATE_FAIL
      BY <2>1, <1>0, <1>1, NewRplyLemma, RecordLemma DEF IInv
    <2> QED
      BY <2>1, <2>2, <2>3, <1>4 DEF isOnlyOneChildCmdFailed, ChildrenIn
  <1>7. CASE PartialSuccess
    <2>1. ~isParentCmdFailed(info, p)
      BY <1>0, <1>7 DEF PartialSuccess
    <2> QED
      BY <2>1, <1>4 DEF isParentCmdFailed, ChildrenIn
  <1> QED
    BY <1>5, <1>6, <1>7

\* A step that does not touch the replies and the entries of answered commands.
LEMMA StillAnswered ==
    ASSUME IInv, IInv', RplyInv, AnsweredInv,
           NEW x \in Cmds, rplyLog[x] # <<>>, rplyLog'[x] = rplyLog[x],
           issued'[x] = issued[x], handled'[x] = handled[x],
           x \in DOMAIN commandsInfo' =>
              /\ x \in DOMAIN commandsInfo
              /\ \A c \in ChildID \cap DOMAIN commandsInfo' :
                    c[1] = x => commandsInfo'[c] = commandsInfo[c]
    PROVE  /\ Len(rplyLog'[x]) = 1
           /\ x \in DOMAIN commandsInfo' => isParentCmdFailed(commandsInfo', x)
  <1>1. Len(rplyLog'[x]) = 1
    BY DEF AnsweredInv
  <1>2. ASSUME x \in DOMAIN commandsInfo' PROVE isParentCmdFailed(commandsInfo', x)
    <2>1. ForwardedTo(issued[x]) # {}
      BY AnsweredLemma
    <2>2. /\ ChildCmdIDs(commandsInfo, x) = {<<x, n, handled[x]>> : n \in Children(issued[x])}
      BY <2>1, <1>2, ChildCmdIDsLemma DEF IInv
    <2>3. ParentEntryOK(commandsInfo, x)'
      BY <1>2 DEF IInv, TableOK
    <2>4. /\ commandsInfo'[x].childCmdID =
               [n \in Children(issued[x]) |-> <<x, n, handled[x]>>]
          /\ \A n \in Children(issued[x]) : <<x, n, handled[x]>> \in DOMAIN commandsInfo'
      BY <2>1, <2>3 DEF ParentEntryOK
    <2>5. ChildCmdIDs(commandsInfo', x) = ChildCmdIDs(commandsInfo, x)
      BY <2>2, <2>4 DEF ChildCmdIDs
    <2>6. ChildCmdIDs(commandsInfo, x) \subseteq ChildID
      BY <2>1, <1>2, ChildCmdIDsLemma DEF IInv
    <2>7. \A c \in ChildCmdIDs(commandsInfo, x) : commandsInfo'[c] = commandsInfo[c]
      BY <2>2, <2>4, <2>6, <1>2
    <2>8. isParentCmdFailed(commandsInfo, x)
      BY <1>2 DEF AnsweredInv
    <2> QED
      BY <2>5, <2>7, <2>8, FailedLemma
  <1> QED
    BY <1>1, <1>2

LEMMA NextAnsweredInv ==
    ASSUME IInv, RplyInv, OnceInv, [Next]_vars
    PROVE  AnsweredInv'
  <1>0. IInv' /\ AnsweredInv /\ FirstDelivery
        /\ rplyLog \in [Cmds -> Seq(Determined)]
        /\ issued \in [Cmds -> Command \cup {None}]
        /\ handled \in [Cmds -> Nat]
    BY NextIInv DEF OnceInv, IInv, TypeOK
  <1> SUFFICES ASSUME NEW x \in Cmds, rplyLog'[x] # <<>>
               PROVE  /\ Len(rplyLog'[x]) = 1
                      /\ x \in DOMAIN commandsInfo' => isParentCmdFailed(commandsInfo', x)
    BY DEF AnsweredInv
  <1>1. CASE UNCHANGED <<commandsInfo, rplyLog>>
    BY <1>0, <1>1 DEF AnsweredInv
  <1>2. CASE ForwardCmd \/ RejectCmd
    <2>0. PICK p : p = Head(mediatorQueue).cmdID
      OBVIOUS
    <2>1. handled[p] = 0 /\ rplyLog' = rplyLog /\ UNCHANGED issued
      BY <2>0, <1>0, <1>2, HandleFirstDelivery DEF ForwardCmd, RejectCmd
    <2>2. x # p
      BY <2>1, <1>0, AnsweredLemma
    <2>3. handled'[x] = handled[x]
      BY <2>0, <2>2, <1>0, <1>2 DEF ForwardCmd, RejectCmd
    <2>4. \A id \in DOMAIN commandsInfo' :
             (id \in Cmds /\ id # p) \/ (id \in ChildID /\ id[1] # p) =>
                id \in DOMAIN commandsInfo /\ commandsInfo'[id] = commandsInfo[id]
      BY <2>0, <1>0, <1>2, HandleOthersLemma
    <2> QED
      BY <1>0, <2>1, <2>2, <2>3, <2>4, StillAnswered
  <1>3. CASE OrphanRply \/ LastSuccess \/ FirstFailure \/ AfterFailure \/ PartialSuccess
    <2>0. PICK m, p, info : /\ m = Head(mediatorQueue)
                            /\ p = ParentOfRply
                            /\ info = Recorded(m)
      OBVIOUS
    <2>1. NewRply /\ UNCHANGED <<issued, handled>>
      BY <1>3 DEF OrphanRply, LastSuccess, FirstFailure, AfterFailure, PartialSuccess
    <2>2. /\ TableOK(info) /\ DOMAIN info = DOMAIN commandsInfo /\ p \in Cmds
          /\ ForwardedTo(issued[p]) # {}
      BY <2>0, <2>1, NewRplyLemma
    <2>3. CASE x # p
      <3>1. rplyLog'[x] = rplyLog[x]
        BY <2>0, <2>2, <2>3, <1>0, <1>3, LastSuccessAnswers, FirstFailureAnswers
           DEF Answers, OrphanRply, AfterFailure, PartialSuccess
      <3>2. x \in DOMAIN commandsInfo' =>
              /\ x \in DOMAIN commandsInfo
              /\ \A c \in ChildID \cap DOMAIN commandsInfo' :
                    c[1] = x => commandsInfo'[c] = commandsInfo[c]
        BY <2>0, <2>3, <1>3, OthersLemma
      <3> QED
        BY <1>0, <2>1, <3>1, <3>2, StillAnswered
    <2>4. CASE x = p /\ OrphanRply
      <3>1. p \notin DOMAIN commandsInfo'
        BY <2>0, <2>2, <2>4 DEF OrphanRply, hasCmd
      <3>2. rplyLog' = rplyLog
        BY <2>4 DEF OrphanRply
      <3> QED
        BY <1>0, <2>4, <3>1, <3>2 DEF AnsweredInv
    <2>5. CASE x = p /\ AfterFailure
      <3>1. /\ isParentCmdFailed(info, p) /\ commandsInfo' = Settle(info, p)
            /\ p \in DOMAIN info /\ rplyLog' = rplyLog
        BY <2>0, <2>2, <2>5 DEF AfterFailure, hasCmd
      <3>2. p \in DOMAIN commandsInfo' => commandsInfo' = info
        BY <3>1, <2>2, SettleLemma
      <3> QED
        BY <1>0, <2>5, <3>1, <3>2 DEF AnsweredInv
    <2>6. CASE x = p /\ PartialSuccess
      BY <2>0, <2>6, UnansweredLemma DEF PartialSuccess
    <2>7. CASE x = p /\ LastSuccess
      <3>1. rplyLog[p] = <<>>
        BY <2>0, <2>7, UnansweredLemma
      <3>2. /\ p \in DOMAIN info /\ isParentCmdSuccessful(info, p)
            /\ Conclude(info, p, CMD_STATE_SUCCESSFUL)
        BY <2>0, <2>2, <2>7 DEF LastSuccess, hasCmd
      <3>3. PICK new : new = changeCmdState(info, p, CMD_STATE_SUCCESSFUL)
        OBVIOUS
      <3>4. /\ commandsInfo' = Settle(new, p)
            /\ rplyLog' = [rplyLog EXCEPT ![p] = Append(@, CMD_STATE_SUCCESSFUL)]
        BY <2>7, <3>1, <3>2, <3>3 DEF Conclude
      <3>5. rplyLog'[p] = Append(<<>>, CMD_STATE_SUCCESSFUL)
        BY <1>0, <2>2, <3>1, <3>4
      <3>6. Len(rplyLog'[p]) = 1
        BY <3>5
      <3>7. /\ ChildCmdIDs(new, p) = ChildCmdIDs(info, p) /\ TableOK(new)
            /\ ChildCmdIDs(info, p) \subseteq ChildID \cap DOMAIN info
            /\ DOMAIN new = DOMAIN info
            /\ \A c \in ChildID \cap DOMAIN info : new[c] = info[c]
        <4>1. CMD_STATE_SUCCESSFUL \in CmdState
          BY DEF CmdState
        <4>2. p \in Cmds \cap DOMAIN info
          BY <2>2, <3>2
        <4>3. ChildCmdIDs(info, p) \subseteq ChildID \cap DOMAIN info
          BY <4>2, <2>2, ChildCmdIDsLemma
        <4> QED
          BY <4>1, <4>2, <4>3, <2>2, <3>3, ChangeStateLemma
      <3>8. isAllChildCmdDetermined(new, p)
        BY <3>2, <3>7 DEF isAllChildCmdDetermined, isParentCmdSuccessful, ChildrenIn,
           CMD_STATE_SUCCESSFUL, CMD_STATE_WAITING, CMD_STATE_PROCESSING
      <3>9. p \notin DOMAIN commandsInfo'
        BY <2>2, <3>2, <3>4, <3>7, <3>8, DeleteLemma DEF Settle
      <3> QED
        BY <2>7, <3>6, <3>9
    <2>8. CASE x = p /\ FirstFailure
      <3>1. rplyLog[p] = <<>>
        BY <2>0, <2>8, UnansweredLemma
      <3>2. /\ p \in DOMAIN info /\ isParentCmdFailed(info, p)
            /\ Conclude(info, p, CMD_STATE_FAIL)
            /\ CMD_STATE_FAIL \in Determined
        BY <2>0, <2>2, <2>8 DEF FirstFailure, hasCmd, Determined
      <3>3. /\ \/ UNCHANGED rplyLog
               \/ rplyLog' = [rplyLog EXCEPT ![p] = Append(@, CMD_STATE_FAIL)]
            /\ \A c \in ChildID \cap DOMAIN commandsInfo' : commandsInfo'[c] = info[c]
            /\ p \in DOMAIN commandsInfo' =>
                  ChildCmdIDs(commandsInfo', p) = ChildCmdIDs(info, p)
            /\ TableOK(commandsInfo')
        <4>1. p \in Cmds \cap DOMAIN info
          BY <2>2, <3>2
        <4>2. ConcludeEffect(info, p, CMD_STATE_FAIL) /\ TableOK(commandsInfo')
          BY <4>1, <1>0, <2>2, <3>2, ConcludeLemma
        <4> QED
          BY <4>2 DEF ConcludeEffect
      <3>4. rplyLog'[p] = Append(<<>>, CMD_STATE_FAIL)
        BY <1>0, <2>2, <2>8, <3>1, <3>3
      <3>5. Len(rplyLog'[p]) = 1
        BY <3>4
      <3>6. ASSUME p \in DOMAIN commandsInfo' PROVE isParentCmdFailed(commandsInfo', p)
        <4>1. ChildCmdIDs(commandsInfo', p) \subseteq ChildID \cap DOMAIN commandsInfo'
          BY <2>2, <3>3, <3>6, ChildCmdIDsLemma
        <4>2. \A c \in ChildCmdIDs(info, p) : commandsInfo'[c].state = info[c].state
          BY <4>1, <3>3, <3>6
        <4> QED
          BY <4>2, <3>2, <3>3, <3>6, FailedLemma
      <3> QED
        BY <2>8, <3>5, <3>6
    <2> QED
      BY <1>3, <2>3, <2>4, <2>5, <2>6, <2>7, <2>8
  <1>4. ASSUME NEW p \in Cmds, NEW cmd \in Command, SendCmd(p, cmd)
        PROVE  UNCHANGED <<commandsInfo, rplyLog>>
    BY <1>4 DEF SendCmd
  <1>5. ASSUME NEW q \in Controller \X Zones, ControllerStep(q)
        PROVE  UNCHANGED <<commandsInfo, rplyLog>>
    BY <1>5 DEF ControllerStep
  <1>6. ASSUME StaleRply \/ Redeliver \/ LoseMsg \/ UNCHANGED vars
        PROVE  UNCHANGED <<commandsInfo, rplyLog>>
    BY <1>6 DEF StaleRply, DropRply, Redeliver, LoseMsg, vars
  <1> QED
    BY <1>1, <1>2, <1>3, <1>4, <1>5, <1>6, ReplyCases DEF Next, StartMediator

LEMMA OnceInvariance ==
    ASSUME "cmd" \notin Redeliverable
    PROVE  Spec => []OnceInv
  <1>1. Init => OnceInv
    BY DEF Init, OnceInv, FirstDelivery, AnsweredInv
  <1>2. IInv /\ RplyInv /\ OnceInv /\ [Next]_vars => OnceInv'
    BY NextFirstDelivery, NextAnsweredInv DEF OnceInv
  <1> QED
    BY <1>1, <1>2, Invariance, RplyInvariance, PTL DEF Spec

\* "if mediator haven't send cmd rply, send cmd rply" (_exeCmdStateAction) is
\* enough to answer a command at most once, as long as the command itself is
\* delivered once.
THEOREM AnsweredAtMostOnce ==
    ASSUME "cmd" \notin Redeliverable
    PROVE  Spec => []AtMostOneRply
  <1>1. IInv /\ OnceInv => AtMostOneRply
    <2> SUFFICES ASSUME IInv, OnceInv, NEW p \in Cmds PROVE Len(rplyLog[p]) <= 1
      BY DEF AtMostOneRply
    <2>1. CASE rplyLog[p] = <<>>
      BY <2>1
    <2>2. CASE rplyLog[p] # <<>>
      <3>1. Len(rplyLog[p]) = 1
        BY <2>2 DEF OnceInv, AnsweredInv
      <3> QED
        BY <3>1
    <2> QED
      BY <2>1, <2>2
  <1> QED
    BY <1>1, OnceInvariance, Invariance, PTL
-----------------------------------------------------------------------------
(***************************************************************************)
(* No child is released once the command is answered.                      *)
(***************************************************************************)
\* A reply never makes a child wait, and the child it releases is not waiting.
LEMMA WaitingLemma ==
    ASSUME IInv,
           OrphanRply \/ LastSuccess \/ FirstFailure \/ AfterFailure \/ PartialSuccess
    PROVE  /\ \A c \in ChildID \cap DOMAIN commandsInfo' :
                 /\ c \in DOMAIN commandsInfo
                 /\ commandsInfo'[c].state = CMD_STATE_WAITING =>
                       commandsInfo[c].state = CMD_STATE_WAITING
           /\ \A q \in Controller \X Zones : \A c \in Elems(controllerQueue'[q]) :
                 \/ c \in Elems(controllerQueue[q])
                 \/ c \in DOMAIN commandsInfo' => commandsInfo'[c].state # CMD_STATE_WAITING
  <1>0. PICK m, p, info : /\ m = Head(mediatorQueue)
                          /\ p = ParentOfRply
                          /\ info = Recorded(m)
    OBVIOUS
  <1>1. NewRply
    BY DEF OrphanRply, LastSuccess, FirstFailure, AfterFailure, PartialSuccess
  <1>2. /\ TableOK(info) /\ DOMAIN info = DOMAIN commandsInfo /\ p \in Cmds
        /\ issued[p] \in Command /\ ForwardedTo(issued[p]) # {}
        /\ m \in RplyMsg /\ m.cmdID \in ChildID \cap DOMAIN commandsInfo
        /\ <<m.cmdID, m.cmdState>> \in outcomes /\ m.cmdState \in Determined
    BY <1>0, <1>1, NewRplyLemma
  <1>3. \A x \in DOMAIN commandsInfo :
           info[x].state = CMD_STATE_WAITING => commandsInfo[x].state = CMD_STATE_WAITING
    <2>1. /\ \A x \in DOMAIN commandsInfo : x # m.cmdID => info[x] = commandsInfo[x]
          /\ info[m.cmdID].state = m.cmdState
      BY <1>0, <1>2, RecordLemma DEF IInv
    <2>2. m.cmdState # CMD_STATE_WAITING
      BY <1>2 DEF Determined, CMD_STATE_WAITING, CMD_STATE_SUCCESSFUL, CMD_STATE_FAIL
    <2> QED
      BY <2>1, <2>2
  <1>4. CASE PartialSuccess /\ ReleasesVNF(info, p)
    <2>1. PICK v, t, q : /\ v = <<p, VNF, handled[p]>>
                         /\ t = transitCmdState(info, p, CMD_STATE_WAITING,
                                                CMD_STATE_PROCESSING)
                         /\ q = <<VNF, info[p].cmd.zone>>
      OBVIOUS
    <2>2. p \in Cmds \cap DOMAIN info
      BY <1>0, <1>2, <1>4 DEF PartialSuccess, hasCmd
    <2>3. /\ info[p].childCmdID[VNF] = v /\ v \in ChildID \cap DOMAIN info
          /\ info[v].state = CMD_STATE_WAITING /\ q \in Controller \X Zones
      BY <1>2, <1>4, <2>1, <2>2, ReleaseLemma
    <2>4. /\ commandsInfo' = transitCmdState(t, v, CMD_STATE_WAITING, CMD_STATE_PROCESSING)
          /\ controllerQueue' = [controllerQueue EXCEPT ![q] = Append(@, v)]
      BY <1>0, <1>4, <2>1, <2>3 DEF PartialSuccess
    <2>5. TableOK(t) /\ DOMAIN t = DOMAIN info /\ \A x \in DOMAIN info : x # p => t[x] = info[x]
      BY <2>1, <1>2, TransitLemma
    <2>6. v # p /\ t[v] = info[v] /\ \A c \in ChildID : c # p
      BY <2>2, <2>3, <2>5, DisjointLemma
    <2>7. /\ DOMAIN commandsInfo' = DOMAIN t
          /\ \A x \in DOMAIN t : x # v => commandsInfo'[x] = t[x]
      BY <2>4, <2>5, TransitLemma
    <2>8. commandsInfo'[v].state # CMD_STATE_WAITING
      <3>1. IsCmdEntry(t[v])
        BY <2>3, <2>5 DEF TableOK
      <3>2. commandsInfo'[v] = [t[v] EXCEPT !.state = CMD_STATE_PROCESSING]
        BY <2>3, <2>4, <2>5, <2>6 DEF transitCmdState, hasCmd
      <3> QED
        BY <3>1, <3>2 DEF IsCmdEntry, CMD_STATE_PROCESSING, CMD_STATE_WAITING
    <2>9. \A c \in ChildID \cap DOMAIN commandsInfo' :
             commandsInfo'[c].state = CMD_STATE_WAITING => c # v /\ commandsInfo'[c] = info[c]
      BY <2>5, <2>6, <2>7, <2>8
    <2>10. controllerQueue \in [Controller \X Zones -> Seq(ChildID)]
      BY DEF IInv, TypeOK
    <2>11. Elems(Append(controllerQueue[q], v)) \subseteq Elems(controllerQueue[q]) \cup {v}
      BY <2>3, <2>10, AppendLemma
    <2>12. \A x \in Controller \X Zones :
              Elems(controllerQueue'[x]) \subseteq Elems(controllerQueue[x]) \cup {v}
      BY <2>4, <2>10, <2>11
    <2> QED
      BY <1>2, <1>3, <2>5, <2>7, <2>8, <2>9, <2>12
  <1>5. CASE ~(PartialSuccess /\ ReleasesVNF(info, p))
    <2>1. UNCHANGED controllerQueue
      BY <1>0, <1>5 DEF OrphanRply, LastSuccess, FirstFailure, AfterFailure, PartialSuccess
    <2>2. \A c \in ChildID \cap DOMAIN commandsInfo' :
             c \in DOMAIN info /\ commandsInfo'[c] = info[c]
      <3>1. CASE OrphanRply
        BY <3>1, <1>0 DEF OrphanRply
      <3>2. CASE LastSuccess \/ FirstFailure
        <4>1. PICK s \in Determined : Conclude(info, p, s) /\ p \in DOMAIN info
          BY <3>2, <1>0, <1>2 DEF LastSuccess, FirstFailure, Determined, hasCmd
        <4>2. rplyLog \in [Cmds -> Seq(Determined)]
          BY DEF IInv, TypeOK
        <4>3. ConcludeEffect(info, p, s)
          BY <4>1, <4>2, <1>2, ConcludeLemma
        <4> QED
          BY <4>3 DEF ConcludeEffect
      <3>3. CASE AfterFailure \/ PartialSuccess
        <4>1. commandsInfo' = Settle(info, p) /\ p \in Cmds \cap DOMAIN info
          BY <3>3, <1>0, <1>2, <1>5 DEF AfterFailure, PartialSuccess, hasCmd
        <4> QED
          BY <4>1, <1>2, SettleLemma
      <3> QED
        BY <3>1, <3>2, <3>3
    <2> QED
      BY <1>2, <1>3, <2>1, <2>2
  <1> QED
    BY <1>4, <1>5

LEMMA NextHeldBackInv == IInv /\ HeldBackInv /\ [Next]_vars => HeldBackInv'
  <1> SUFFICES ASSUME IInv, HeldBackInv, [Next]_vars PROVE HeldBackInv'
    OBVIOUS
  <1>0. /\ controllerQueue \in [Controller \X Zones -> Seq(ChildID)]
        /\ outcomes \subseteq ChildID \X Determined
        /\ handled \in [Cmds -> Nat]
    BY DEF IInv, TypeOK
  <1>1. CASE /\ UNCHANGED <<commandsInfo, outcomes>>
             /\ \A q \in Controller \X Zones :
                   Elems(controllerQueue'[q]) \subseteq Elems(controllerQueue[q])
    BY <1>1 DEF HeldBackInv
  <1>2. ASSUME NEW q \in Controller \X Zones, ControllerStep(q) PROVE HeldBackInv'
    <2>0. PICK c : c = Head(controllerQueue[q])
      OBVIOUS
    <2>1. PICK s : outcomes' = outcomes \cup {<<c, s>>}
      BY <1>2, <2>0 DEF ControllerStep
    <2>2. /\ controllerQueue[q] # <<>> /\ UNCHANGED commandsInfo
          /\ controllerQueue' = [controllerQueue EXCEPT ![q] = Tail(@)]
      BY <1>2 DEF ControllerStep
    <2>3. /\ c \in Elems(controllerQueue[q])
          /\ Elems(Tail(controllerQueue[q])) \subseteq Elems(controllerQueue[q])
      BY <2>0, <2>2, <1>0, TakeLemma
    <2>4. \A x \in Controller \X Zones :
             Elems(controllerQueue'[x]) \subseteq Elems(controllerQueue[x])
      BY <2>2, <2>3, <1>0
    <2>5. \A o \in outcomes' : o \in outcomes \/ o[1] = c
      BY <2>1
    <2> QED
      BY <2>2, <2>3, <2>4, <2>5 DEF HeldBackInv
  <1>3. CASE OrphanRply \/ LastSuccess \/ FirstFailure \/ AfterFailure \/ PartialSuccess
    <2>1. UNCHANGED outcomes
      BY <1>3 DEF OrphanRply, LastSuccess, FirstFailure, AfterFailure, PartialSuccess
    <2>2. /\ \A c \in ChildID \cap DOMAIN commandsInfo' :
                 /\ c \in DOMAIN commandsInfo
                 /\ commandsInfo'[c].state = CMD_STATE_WAITING =>
                       commandsInfo[c].state = CMD_STATE_WAITING
          /\ \A q \in Controller \X Zones : \A c \in Elems(controllerQueue'[q]) :
                 \/ c \in Elems(controllerQueue[q])
                 \/ c \in DOMAIN commandsInfo' => commandsInfo'[c].state # CMD_STATE_WAITING
      BY <1>3, WaitingLemma
    <2>3. \A q \in Controller \X Zones : Elems(controllerQueue[q]) \subseteq ChildID
      BY <1>0 DEF Elems
    <2>4. \A o \in outcomes : o[1] \in ChildID
      BY <1>0
    <2> QED
      BY <2>1, <2>2, <2>3, <2>4 DEF HeldBackInv
  <1>4. CASE ForwardCmd \/ RejectCmd
    <2>0. PICK p : p = Head(mediatorQueue).cmdID
      OBVIOUS
    <2>1. /\ p \in Cmds
          /\ \A id \in ChildID \cap DOMAIN commandsInfo' :
                 \/ id \in DOMAIN commandsInfo /\ commandsInfo'[id] = commandsInfo[id]
                 \/ /\ id[1] = p /\ id[3] = handled[p] + 1
                    /\ id[2] \in ForwardedTo(issued[p]) =>
                          commandsInfo'[id].state # CMD_STATE_WAITING
      BY <2>0, <1>4, HandleOthersLemma
    <2>2. \A c : SentOK(c) => c \in ChildID /\ ~(c[1] = p /\ c[3] = handled[p] + 1)
      BY <2>1, <1>0 DEF SentOK, IsChildOf, ChildID
    <2>3. \A q \in Controller \X Zones : \A c \in Elems(controllerQueue'[q]) :
             \/ c \in Elems(controllerQueue[q])
             \/ /\ c \in ChildID /\ c[2] \in ForwardedTo(issued[p])
                /\ c[1] = p /\ c[3] = handled[p] + 1
      <3>1. CASE ForwardCmd
        <4>1. PICK k, cmd : /\ k = handled[p] + 1 /\ cmd = issued[p]
                            /\ controllerQueue' =
                                 [q \in Controller \X Zones |->
                                    IF q[1] \in ForwardedTo(cmd) /\ q[2] = cmd.zone
                                    THEN Append(controllerQueue[q], <<p, q[1], k>>)
                                    ELSE controllerQueue[q]]
          BY <2>0, <3>1 DEF ForwardCmd
        <4> SUFFICES ASSUME NEW q \in Controller \X Zones,
                            NEW c \in Elems(controllerQueue'[q]),
                            c \notin Elems(controllerQueue[q])
                     PROVE  /\ c \in ChildID /\ c[2] \in ForwardedTo(issued[p])
                            /\ c[1] = p /\ c[3] = handled[p] + 1
          OBVIOUS
        <4>2. /\ q[1] \in ForwardedTo(cmd)
              /\ controllerQueue'[q] = Append(controllerQueue[q], <<p, q[1], k>>)
          BY <4>1
        <4>3. <<p, q[1], k>> \in ChildID
          <5>1. q[1] \in Controller /\ k \in Nat
            BY <1>0, <2>1, <4>1
          <5> QED
            BY <5>1, <2>1 DEF ChildID
        <4>4. c = <<p, q[1], k>>
          BY <1>0, <4>2, <4>3, AppendLemma
        <4> QED
          BY <4>1, <4>2, <4>3, <4>4
      <3>2. CASE RejectCmd
        BY <3>2 DEF RejectCmd
      <3> QED
        BY <1>4, <3>1, <3>2
    <2>4. \A q \in Controller \X Zones : \A c \in Elems(controllerQueue[q]) : SentOK(c)
      BY DEF IInv, QueueInv
    <2>5. \A o \in outcomes : SentOK(o[1])
      BY DEF IInv, QueueInv
    <2>6. UNCHANGED outcomes
      BY <1>4 DEF ForwardCmd, RejectCmd
    <2>7. \A q \in Controller \X Zones : \A c \in Elems(controllerQueue'[q]) :
             c \in DOMAIN commandsInfo' => commandsInfo'[c].state # CMD_STATE_WAITING
      <3> SUFFICES ASSUME NEW q \in Controller \X Zones, NEW c \in Elems(controllerQueue'[q]),
                          c \in DOMAIN commandsInfo'
                   PROVE  commandsInfo'[c].state # CMD_STATE_WAITING
        OBVIOUS
      <3>1. CASE c \in Elems(controllerQueue[q])
        BY <3>1, <2>1, <2>2, <2>4 DEF HeldBackInv
      <3>2. CASE /\ c \in ChildID /\ c[2] \in ForwardedTo(issued[p])
                 /\ c[1] = p /\ c[3] = handled[p] + 1
        <4>1. c \notin DOMAIN commandsInfo
          <5>1. ASSUME c \in DOMAIN commandsInfo PROVE IsChildOf(c, c[1])
            BY <5>1, <3>2 DEF IInv, TableOK, ChildEntryOK
          <5>2. handled[p] \in Nat
            BY <1>0, <2>1
          <5> QED
            BY <5>1, <5>2, <3>2 DEF IsChildOf
        <4> QED
          BY <4>1, <3>2, <2>1
      <3> QED
        BY <3>1, <3>2, <2>3
    <2>8. \A o \in outcomes :
             o[1] \in DOMAIN commandsInfo' => commandsInfo'[o[1]].state # CMD_STATE_WAITING
      BY <2>1, <2>2, <2>5 DEF HeldBackInv
    <2> QED
      BY <2>6, <2>7, <2>8 DEF HeldBackInv
  <1>5. CASE StaleRply \/ UNCHANGED vars
    BY <1>1, <1>5 DEF StaleRply, DropRply, vars
  <1>6. ASSUME NEW p \in Cmds, NEW cmd \in Command, SendCmd(p, cmd) PROVE HeldBackInv'
    BY <1>1, <1>6 DEF SendCmd
  <1>7. CASE Redeliver
    <2>1. UNCHANGED <<commandsInfo, outcomes>>
      BY <1>7 DEF Redeliver
    <2>2. CASE UNCHANGED controllerQueue
      BY <1>1, <2>1, <2>2
    <2>3. ASSUME NEW q \in Controller \X Zones, controllerQueue[q] # <<>>,
                 controllerQueue' = [controllerQueue EXCEPT ![q] = <<Head(@)>> \o @]
          PROVE  HeldBackInv'
      <3>1. PICK s : s = <<Head(controllerQueue[q])>> \o controllerQueue[q]
        OBVIOUS
      <3>2. Elems(s) \subseteq Elems(controllerQueue[q])
        BY <1>0, <2>3, <3>1, RedeliverLemma
      <3>3. controllerQueue' = [controllerQueue EXCEPT ![q] = s]
        BY <2>3, <3>1
      <3>4. \A x \in Controller \X Zones :
               Elems(controllerQueue'[x]) \subseteq Elems(controllerQueue[x])
        BY <1>0, <3>2, <3>3
      <3> QED
        BY <1>1, <2>1, <3>4
    <2> QED
      BY <1>7, <2>2, <2>3 DEF Redeliver
  <1>8. CASE LoseMsg
    <2>1. UNCHANGED <<commandsInfo, outcomes>>
      BY <1>8 DEF LoseMsg
    <2>2. CASE UNCHANGED controllerQueue
      BY <1>1, <2>1, <2>2
    <2>3. ASSUME NEW q \in Controller \X Zones, controllerQueue[q] # <<>>,
                 controllerQueue' = [controllerQueue EXCEPT ![q] = Tail(@)]
          PROVE  HeldBackInv'
      <3>1. PICK s : s = Tail(controllerQueue[q])
        OBVIOUS
      <3>2. Elems(s) \subseteq Elems(controllerQueue[q])
        BY <1>0, <2>3, <3>1, TakeLemma
      <3>3. controllerQueue' = [controllerQueue EXCEPT ![q] = s]
        BY <2>3, <3>1
      <3>4. \A x \in Controller \X Zones :
               Elems(controllerQueue'[x]) \subseteq Elems(controllerQueue[x])
        BY <1>0, <3>2, <3>3
      <3> QED
        BY <1>1, <2>1, <3>4
    <2> QED
      BY <1>8, <2>2, <2>3 DEF LoseMsg
  <1> QED
    BY <1>2, <1>3, <1>4, <1>5, <1>6, <1>7, <1>8, ReplyCases DEF Next, StartMediator

LEMMA HeldBackInvariance == Spec => []HeldBackInv
  <1>1. Init => HeldBackInv
    BY DEF Init, HeldBackInv, Elems
  <1> QED
    BY <1>1, NextHeldBackInv, Invariance, PTL DEF Spec

LEMMA NoReleaseStep ==
    ASSUME IInv, RplyInv, OnceInv, HeldBackInv, [Next]_vars,
           NEW c \in DOMAIN commandsInfo \cap DOMAIN commandsInfo', c \in ChildID,
           commandsInfo[c].state = CMD_STATE_WAITING, rplyLog[c[1]] # <<>>
    PROVE  commandsInfo'[c].state = CMD_STATE_WAITING
  <1>0. c[1] \in Cmds
    BY DEF ChildID
  <1>1. CASE ForwardCmd \/ RejectCmd
    <2>0. PICK p : p = Head(mediatorQueue).cmdID
      OBVIOUS
    <2>1. handled[p] = 0
      BY <1>1, <2>0, HandleFirstDelivery DEF OnceInv
    <2>2. c[1] # p
      BY <1>0, <2>1, AnsweredLemma
    <2> QED
      BY <1>1, <2>0, <2>2, HandleOthersLemma
  <1>2. CASE OrphanRply \/ LastSuccess \/ FirstFailure \/ AfterFailure \/ PartialSuccess
    <2>0. PICK m, p, info : /\ m = Head(mediatorQueue)
                            /\ p = ParentOfRply
                            /\ info = Recorded(m)
      OBVIOUS
    <2>1. CASE c[1] # p
      BY <1>2, <2>0, <2>1, OthersLemma
    <2>2. CASE c[1] = p
      <3>1. OrphanRply \/ AfterFailure
        BY <1>2, <2>0, <2>2, UnansweredLemma
      <3>2. NewRply
        BY <3>1 DEF OrphanRply, AfterFailure
      <3>3. /\ TableOK(info) /\ DOMAIN info = DOMAIN commandsInfo /\ p \in Cmds
            /\ ForwardedTo(issued[p]) # {}
            /\ m \in RplyMsg /\ m.cmdID \in DOMAIN commandsInfo
            /\ <<m.cmdID, m.cmdState>> \in outcomes
        BY <2>0, <3>2, NewRplyLemma
      <3>4. c # m.cmdID
        BY <3>3 DEF HeldBackInv
      <3>5. info[c] = commandsInfo[c]
        BY <2>0, <3>3, <3>4, RecordLemma DEF IInv
      <3>6. commandsInfo'[c] = info[c]
        <4>1. CASE OrphanRply
          BY <2>0, <4>1 DEF OrphanRply
        <4>2. CASE AfterFailure
          <5>1. commandsInfo' = Settle(info, p) /\ p \in Cmds \cap DOMAIN info
            BY <2>0, <3>3, <4>2 DEF AfterFailure, hasCmd
          <5> QED
            BY <5>1, <3>3, SettleLemma
        <4> QED
          BY <3>1, <4>1, <4>2
      <3> QED
        BY <3>5, <3>6
    <2> QED
      BY <2>1, <2>2
  <1>3. ASSUME NEW p \in Cmds, NEW cmd \in Command, SendCmd(p, cmd) PROVE UNCHANGED commandsInfo
    BY <1>3 DEF SendCmd
  <1>4. ASSUME NEW q \in Controller \X Zones, ControllerStep(q) PROVE UNCHANGED commandsInfo
    BY <1>4 DEF ControllerStep
  <1>5. ASSUME StaleRply \/ Redeliver \/ LoseMsg \/ UNCHANGED vars PROVE UNCHANGED commandsInfo
    BY <1>5 DEF StaleRply, DropRply, Redeliver, LoseMsg, vars
  <1> QED
    BY <1>1, <1>2, <1>3, <1>4, <1>5, ReplyCases DEF Next, StartMediator

\* Once _sendParentCmdRply has told the source the verdict, the VNF child held
\* back for _waitingParentCmdHandler is never sent.
THEOREM NeverReleasedAfterRply ==
    ASSUME "cmd" \notin Redeliverable
    PROVE  Spec => NoReleaseAfterRply
  <1>1. IInv /\ RplyInv /\ OnceInv /\ HeldBackInv /\ [Next]_vars =>
           [\A c \in DOMAIN commandsInfo \cap DOMAIN commandsInfo' :
              (/\ c \in ChildID
               /\ commandsInfo[c].state = CMD_STATE_WAITING
               /\ rplyLog[c[1]] # <<>>)
              => commandsInfo'[c].state = CMD_STATE_WAITING]_vars
    BY NoReleaseStep
  <1> QED
    BY <1>1, Invariance, RplyInvariance, OnceInvariance, HeldBackInvariance, PTL
       DEF Spec, NoReleaseAfterRply
-----------------------------------------------------------------------------
(***************************************************************************)
(* The mediator implements FanOut.                                         *)
(***************************************************************************)
\* What the service shows of the controllers' outcomes.
Acted == {<<o[1][1], o[1][2], o[2]>> : o \in outcomes}

LEMMA ActedLemma ==
    ASSUME IInv
    PROVE  /\ \A p, n, k, s : <<<<p, n, k>>, s>> \in outcomes => <<p, n, s>> \in Acted
  <1> SUFFICES ASSUME NEW p, NEW n, NEW k, NEW s, <<<<p, n, k>>, s>> \in outcomes
               PROVE  <<p, n, s>> \in Acted
    OBVIOUS
  <1>1. PICK o : o = <<<<p, n, k>>, s>>
    OBVIOUS
  <1>2. o \in outcomes /\ o[1][1] = p /\ o[1][2] = n /\ o[2] = s
    BY <1>1
  <1> QED
    BY <1>2 DEF Acted

LEMMA ControllerStepActs ==
    ASSUME IInv, NEW q \in Controller \X Zones, ControllerStep(q)
    PROVE  \E p \in Cmds, n \in Controller, s \in Determined :
              /\ issued[p] \in Command
              /\ n \in Children(issued[p])
              /\ \A d \in PrerequisitesOf(issued[p], n) :
                    <<p, d, CMD_STATE_SUCCESSFUL>> \in Acted
              /\ Acted' = Acted \cup {<<p, n, s>>}
              /\ UNCHANGED <<issued, rplyLog>>
  <1>0. PICK c : c = Head(controllerQueue[q])
    OBVIOUS
  <1>1. PICK s \in Outcome(c[2], issued[c[1]]) : outcomes' = outcomes \cup {<<c, s>>}
    BY <1>0 DEF ControllerStep
  <1>2. controllerQueue[q] # <<>> /\ UNCHANGED <<issued, rplyLog>>
        /\ controllerQueue \in [Controller \X Zones -> Seq(ChildID)]
    BY DEF ControllerStep, IInv, TypeOK
  <1>3. c \in Elems(controllerQueue[q])
    BY <1>0, <1>2, TakeLemma
  <1>4. SentOK(c)
    BY <1>3 DEF IInv, QueueInv
  <1>5. PICK p, n, k : p = c[1] /\ n = c[2] /\ k = c[3]
    OBVIOUS
  <1>6. /\ p \in Cmds /\ n \in Controller /\ issued[p] \in Command
        /\ n \in Children(issued[p])
    BY <1>4, <1>5 DEF SentOK, IsChildOf, ChildID
  <1>7. s \in Determined
    BY OutcomeLemma
  <1>8. Acted' = Acted \cup {<<p, n, s>>}
    <2>1. PICK o : o = <<c, s>>
      OBVIOUS
    <2>2. outcomes' = outcomes \cup {o} /\ <<o[1][1], o[1][2], o[2]>> = <<p, n, s>>
      BY <2>1, <1>1, <1>5
    <2> QED
      BY <2>2 DEF Acted
  <1>9. \A d \in PrerequisitesOf(issued[p], n) : <<p, d, CMD_STATE_SUCCESSFUL>> \in Acted
    BY <1>4, <1>5, ActedLemma DEF SentOK, HeldBack, HasSFF, PrerequisitesOf
  <1> QED
    BY <1>2, <1>6, <1>7, <1>8, <1>9

\* Every step of the mediator's system is a step of the service or a stutter.
LEMMA StepImplements ==
    ASSUME IInv, RplyInv, OnceInv, [Next]_vars
    PROVE  [Service!ServiceNext]_Service!serviceVars
  <1>0. issued \in [Cmds -> Command \cup {None}] /\ rplyLog \in [Cmds -> Seq(Determined)]
        /\ None \notin Command
    BY DisjointLemma DEF IInv, TypeOK
  <1>1. ASSUME UNCHANGED <<issued, outcomes, rplyLog>>
        PROVE  [Service!ServiceNext]_Service!serviceVars
    BY <1>1 DEF Service!serviceVars
  <1>2. ASSUME NEW p \in Cmds, NEW cmd \in Command, SendCmd(p, cmd)
        PROVE  Service!ServiceNext
    <2>1. Service!Issue(p, cmd)
      BY <1>2 DEF SendCmd, Service!Issue
    <2> QED
      BY <2>1 DEF Service!ServiceNext
  <1>3. ASSUME NEW q \in Controller \X Zones, ControllerStep(q)
        PROVE  Service!ServiceNext
    <2>1. PICK p \in Cmds, n \in Controller, s \in Determined :
              /\ issued[p] \in Command
              /\ n \in Children(issued[p])
              /\ \A d \in PrerequisitesOf(issued[p], n) :
                    <<p, d, CMD_STATE_SUCCESSFUL>> \in Acted
              /\ Acted' = Acted \cup {<<p, n, s>>}
              /\ UNCHANGED <<issued, rplyLog>>
      BY <1>3, ControllerStepActs
    <2>2. Service!Act(p, n, s)
      BY <1>0, <2>1 DEF Service!Act, Acted
    <2>3. s \in {CMD_STATE_SUCCESSFUL, CMD_STATE_FAIL}
      BY DEF Determined
    <2> QED
      BY <2>2, <2>3 DEF Service!ServiceNext
  <1>4. ASSUME LastSuccess, Answers(ParentOfRply, CMD_STATE_SUCCESSFUL)
        PROVE  Service!ServiceNext
    <2>1. PICK p : p = ParentOfRply
      OBVIOUS
    <2>2. p \in Cmds /\ rplyLog[p] = <<>> /\ RplyOK(p, CMD_STATE_SUCCESSFUL)
      BY <1>4, <2>1, UnansweredLemma, LastSuccessAnswers
    <2>3. issued[p] # None
      BY <1>0, <2>2 DEF RplyOK
    <2>4. \A n \in Children(issued[p]) : <<p, n, CMD_STATE_SUCCESSFUL>> \in Acted
      BY <2>2, ActedLemma DEF RplyOK
    <2>5. rplyLog' = [rplyLog EXCEPT ![p] = <<CMD_STATE_SUCCESSFUL>>]
      <3>1. rplyLog' = [rplyLog EXCEPT ![p] = Append(rplyLog[p], CMD_STATE_SUCCESSFUL)]
        BY <1>4, <2>1 DEF Answers
      <3>2. Append(rplyLog[p], CMD_STATE_SUCCESSFUL) = <<CMD_STATE_SUCCESSFUL>>
        BY <2>2
      <3> QED
        BY <3>1, <3>2
    <2>6. UNCHANGED <<issued, outcomes>>
      BY <1>4 DEF LastSuccess
    <2>7. Service!AnswerSuccess(p)
      BY <2>2, <2>3, <2>4, <2>5, <2>6 DEF Service!AnswerSuccess, Acted
    <2> QED
      BY <2>2, <2>7 DEF Service!ServiceNext
  <1>5. ASSUME FirstFailure, Answers(ParentOfRply, CMD_STATE_FAIL)
        PROVE  Service!ServiceNext
    <2>1. PICK p : p = ParentOfRply
      OBVIOUS
    <2>2. p \in Cmds /\ rplyLog[p] = <<>> /\ RplyOK(p, CMD_STATE_FAIL)
      BY <1>5, <2>1, UnansweredLemma, FirstFailureAnswers
    <2>3. issued[p] # None
      BY <1>0, <2>2 DEF RplyOK
    <2>4. \E n \in Children(issued[p]) : <<p, n, CMD_STATE_FAIL>> \in Acted
      BY <2>2, ActedLemma DEF RplyOK
    <2>5. rplyLog' = [rplyLog EXCEPT ![p] = <<CMD_STATE_FAIL>>]
      <3>1. rplyLog' = [rplyLog EXCEPT ![p] = Append(rplyLog[p], CMD_STATE_FAIL)]
        BY <1>5, <2>1 DEF Answers
      <3>2. Append(rplyLog[p], CMD_STATE_FAIL) = <<CMD_STATE_FAIL>>
        BY <2>2
      <3> QED
        BY <3>1, <3>2
    <2>6. UNCHANGED <<issued, outcomes>>
      BY <1>5 DEF FirstFailure
    <2>7. Service!AnswerFailure(p)
      BY <2>2, <2>3, <2>4, <2>5, <2>6 DEF Service!AnswerFailure, Acted
    <2> QED
      BY <2>2, <2>7 DEF Service!ServiceNext
  <1>6. ASSUME CommandReplyHandler, UNCHANGED rplyLog
        PROVE  UNCHANGED <<issued, outcomes, rplyLog>>
    BY <1>6 DEF CommandReplyHandler, DropRply, LastSuccess, FirstFailure,
                AfterFailure, PartialSuccess
  <1>7. ASSUME ForwardCmd \/ RejectCmd \/ Redeliver \/ LoseMsg \/ UNCHANGED vars
        PROVE  UNCHANGED <<issued, outcomes, rplyLog>>
    BY <1>7 DEF ForwardCmd, RejectCmd, Redeliver, LoseMsg, vars
  <1>8. CASE LastSuccess \/ FirstFailure
    BY <1>1, <1>4, <1>5, <1>6, <1>8, LastSuccessAnswers, FirstFailureAnswers
       DEF CommandReplyHandler
  <1>9. CASE DropRply \/ AfterFailure \/ PartialSuccess
    <2>1. UNCHANGED rplyLog
      BY <1>9 DEF DropRply, AfterFailure, PartialSuccess
    <2> QED
      BY <1>1, <1>6, <1>9, <2>1 DEF CommandReplyHandler
  <1> QED
    BY <1>1, <1>2, <1>3, <1>7, <1>8, <1>9 DEF Next, StartMediator, CommandReplyHandler

\* Whatever is lost and however often child commands and replies are repeated,
\* the mediator keeps the promise of FanOut: one verdict per command, backed by
\* the controllers, and no VNF before its SFF entry.
THEOREM MediatorImplementsFanOut ==
    ASSUME "cmd" \notin Redeliverable
    PROVE  Spec => ImplementsFanOut
  <1>1. Init => Service!ServiceInit
    BY DEF Init, Service!ServiceInit
  <1>2. IInv /\ RplyInv /\ OnceInv /\ [Next]_vars => [Service!ServiceNext]_Service!serviceVars
    BY StepImplements
  <1> QED
    BY <1>1, <1>2, Invariance, RplyInvariance, OnceInvariance, PTL
       DEF Spec, ImplementsFanOut, Service!ServiceSpec
-----------------------------------------------------------------------------
(***************************************************************************)
(* Commands are forgotten.                                                 *)
(***************************************************************************)
\* Child c is on its way to its controller, or the answer to it is.
OnTheWay(c) ==
    \/ \E q \in Controller \X Zones : c \in Elems(controllerQueue[q])
    \/ \E m \in Elems(mediatorQueue) : m.type = "rply" /\ m.cmdID = c

\* As long as nothing is lost, a child that was sent and not answered is.
AwaitedInv ==
    losses = 0 =>
        \A c \in ChildID \cap DOMAIN commandsInfo :
            commandsInfo[c].state = CMD_STATE_PROCESSING => OnTheWay(c)

\* What stays in a queue.
LEMMA KeptInQueue ==
    ASSUME NEW S, NEW s \in Seq(S)
    PROVE  /\ \A e \in S : Elems(s) \subseteq Elems(Append(s, e)) /\ e \in Elems(Append(s, e))
           /\ s # <<>> => /\ \A x \in Elems(s) : x # Head(s) => x \in Elems(Tail(s))
                          /\ Elems(s) \subseteq Elems(<<Head(s)>> \o s)
  <1>1. ASSUME NEW e \in S
        PROVE  Elems(s) \subseteq Elems(Append(s, e)) /\ e \in Elems(Append(s, e))
    <2>1. /\ Len(Append(s, e)) = Len(s) + 1 /\ Len(s) \in Nat
          /\ Append(s, e)[Len(s) + 1] = e
          /\ \A i \in 1..Len(s) : i \in 1..(Len(s) + 1) /\ Append(s, e)[i] = s[i]
      OBVIOUS
    <2>2. Len(s) + 1 \in 1..Len(Append(s, e))
      BY <2>1
    <2>3. QED BY <2>1, <2>2 DEF Elems
  <1>2. ASSUME s # <<>>
        PROVE  \A x \in Elems(s) : x # Head(s) => x \in Elems(Tail(s))
    <2>1. \A i \in 1..Len(s) : s[i] # Head(s) => i - 1 \in 1..Len(Tail(s)) /\ Tail(s)[i - 1] = s[i]
      BY <1>2
    <2>2. QED BY <2>1 DEF Elems
  <1>3. ASSUME s # <<>>
        PROVE  Elems(s) \subseteq Elems(<<Head(s)>> \o s)
    <2>1. PICK h \in S : h = Head(s)
      BY <1>3
    <2>2. \A i \in 1..Len(s) : i + 1 \in 1..Len(<<h>> \o s) /\ (<<h>> \o s)[i + 1] = s[i]
      OBVIOUS
    <2>3. QED BY <2>1, <2>2 DEF Elems
  <1>4. QED BY <1>1, <1>2, <1>3

LEMMA StillOnTheWay ==
    ASSUME NEW c, OnTheWay(c),
           \A q \in Controller \X Zones : Elems(controllerQueue[q]) \subseteq Elems(controllerQueue'[q]),
           \A m \in Elems(mediatorQueue) :
              m.type = "rply" /\ m.cmdID = c => m \in Elems(mediatorQueue')
    PROVE  OnTheWay(c)'
  BY DEF OnTheWay

\* A reply makes its child answered and leaves the others in processing alone; the child
\* it releases is sent.
LEMMA ProcessingLemma ==
    ASSUME IInv, NEW m, m = Head(mediatorQueue),
           OrphanRply \/ LastSuccess \/ FirstFailure \/ AfterFailure \/ PartialSuccess
    PROVE  /\ \A q \in Controller \X Zones :
                 Elems(controllerQueue[q]) \subseteq Elems(controllerQueue'[q])
           /\ \A c \in ChildID \cap DOMAIN commandsInfo' :
                 commandsInfo'[c].state = CMD_STATE_PROCESSING =>
                    \/ /\ c # m.cmdID /\ c \in DOMAIN commandsInfo
                       /\ commandsInfo[c].state = CMD_STATE_PROCESSING
                    \/ \E q \in Controller \X Zones : c \in Elems(controllerQueue'[q])
  <1>0. PICK p, info : p = ParentOfRply /\ info = Recorded(m)
    OBVIOUS
  <1>1. NewRply
    BY DEF OrphanRply, LastSuccess, FirstFailure, AfterFailure, PartialSuccess
  <1>2. /\ TableOK(info) /\ DOMAIN info = DOMAIN commandsInfo /\ p \in Cmds
        /\ issued[p] \in Command /\ ForwardedTo(issued[p]) # {}
        /\ m \in RplyMsg /\ m.cmdID \in ChildID \cap DOMAIN commandsInfo
        /\ <<m.cmdID, m.cmdState>> \in outcomes /\ m.cmdState \in Determined
    BY <1>0, <1>1, NewRplyLemma
  <1>3. \A x \in DOMAIN commandsInfo :
           info[x].state = CMD_STATE_PROCESSING =>
              x # m.cmdID /\ commandsInfo[x].state = CMD_STATE_PROCESSING
    <2>1. /\ \A x \in DOMAIN commandsInfo : x # m.cmdID => info[x] = commandsInfo[x]
          /\ info[m.cmdID].state = m.cmdState
      BY <1>0, <1>2, RecordLemma DEF IInv
    <2>2. m.cmdState # CMD_STATE_PROCESSING
      BY <1>2 DEF Determined, CMD_STATE_PROCESSING, CMD_STATE_SUCCESSFUL, CMD_STATE_FAIL
    <2> QED
      BY <2>1, <2>2
  <1>4. CASE PartialSuccess /\ ReleasesVNF(info, p)
    <2>1. PICK v, t, q : /\ v = <<p, VNF, handled[p]>>
                         /\ t = transitCmdState(info, p, CMD_STATE_WAITING,
                                                CMD_STATE_PROCESSING)
                         /\ q = <<VNF, info[p].cmd.zone>>
      OBVIOUS
    <2>2. p \in Cmds \cap DOMAIN info
      BY <1>0, <1>2, <1>4 DEF PartialSuccess, hasCmd
    <2>3. /\ info[p].childCmdID[VNF] = v /\ v \in ChildID \cap DOMAIN info
          /\ q \in Controller \X Zones
      BY <1>2, <1>4, <2>1, <2>2, ReleaseLemma
    <2>4. /\ commandsInfo' = transitCmdState(t, v, CMD_STATE_WAITING, CMD_STATE_PROCESSING)
          /\ controllerQueue' = [controllerQueue EXCEPT ![q] = Append(@, v)]
      BY <1>0, <1>4, <2>1, <2>3 DEF PartialSuccess
    <2>5. TableOK(t) /\ DOMAIN t = DOMAIN info /\ \A x \in DOMAIN info : x # p => t[x] = info[x]
      BY <2>1, <1>2, TransitLemma
    <2>6. \A c \in ChildID : c # p
      BY <2>2, DisjointLemma
    <2>7. /\ DOMAIN commandsInfo' = DOMAIN t
          /\ \A x \in DOMAIN t : x # v => commandsInfo'[x] = t[x]
      BY <2>4, <2>5, TransitLemma
    <2>8. controllerQueue \in [Controller \X Zones -> Seq(ChildID)]
      BY DEF IInv, TypeOK
    <2>9. /\ Elems(controllerQueue[q]) \subseteq Elems(Append(controllerQueue[q], v))
          /\ v \in Elems(Append(controllerQueue[q], v))
      BY <2>3, <2>8, KeptInQueue
    <2>10. /\ \A x \in Controller \X Zones :
                 Elems(controllerQueue[x]) \subseteq Elems(controllerQueue'[x])
           /\ v \in Elems(controllerQueue'[q])
      BY <2>3, <2>4, <2>8, <2>9
    <2>11. \A c \in ChildID \cap DOMAIN commandsInfo' : c # v => commandsInfo'[c] = info[c]
      BY <2>5, <2>6, <2>7
    <2> QED
      BY <1>2, <1>3, <2>3, <2>5, <2>7, <2>10, <2>11
  <1>5. CASE ~(PartialSuccess /\ ReleasesVNF(info, p))
    <2>1. UNCHANGED controllerQueue
      BY <1>0, <1>5 DEF OrphanRply, LastSuccess, FirstFailure, AfterFailure, PartialSuccess
    <2>2. \A c \in ChildID \cap DOMAIN commandsInfo' :
             c \in DOMAIN info /\ commandsInfo'[c] = info[c]
      <3>1. CASE OrphanRply
        BY <3>1, <1>0 DEF OrphanRply
      <3>2. CASE LastSuccess \/ FirstFailure
        <4>1. PICK s \in Determined : Conclude(info, p, s) /\ p \in DOMAIN info
          BY <3>2, <1>0, <1>2 DEF LastSuccess, FirstFailure, Determined, hasCmd
        <4>2. rplyLog \in [Cmds -> Seq(Determined)]
          BY DEF IInv, TypeOK
        <4>3. ConcludeEffect(info, p, s)
          BY <4>1, <4>2, <1>2, ConcludeLemma
        <4> QED
          BY <4>3 DEF ConcludeEffect
      <3>3. CASE AfterFailure \/ PartialSuccess
        <4>1. commandsInfo' = Settle(info, p) /\ p \in Cmds \cap DOMAIN info
          BY <3>3, <1>0, <1>2, <1>5 DEF AfterFailure, PartialSuccess, hasCmd
        <4> QED
          BY <4>1, <1>2, SettleLemma
      <3> QED
        BY <3>1, <3>2, <3>3
    <2> QED
      BY <1>2, <1>3, <2>1, <2>2
  <1> QED
    BY <1>4, <1>5

\* What _startMediator or a controller takes from a queue is on its way no longer, but then
\* the child was answered or the answer is on its way.
LEMMA NextAwaitedInv == IInv /\ AwaitedInv /\ [Next]_vars => AwaitedInv'
  <1> SUFFICES ASSUME IInv, AwaitedInv, [Next]_vars, losses' = 0,
                      NEW c \in ChildID \cap DOMAIN commandsInfo',
                      commandsInfo'[c].state = CMD_STATE_PROCESSING
               PROVE  OnTheWay(c)'
    BY DEF AwaitedInv
  <1>0. /\ controllerQueue \in [Controller \X Zones -> Seq(ChildID)]
        /\ mediatorQueue \in Seq(MediatorMsg)
        /\ handled \in [Cmds -> Nat] /\ losses \in Nat
    BY DEF IInv, TypeOK
  <1>1. ~LoseMsg
    BY <1>0 DEF LoseMsg
  <1>2. losses = 0
    <2>1. \A p \in Cmds, cmd \in Command : SendCmd(p, cmd) => UNCHANGED losses
      BY DEF SendCmd
    <2>2. \A q \in Controller \X Zones : ControllerStep(q) => UNCHANGED losses
      BY DEF ControllerStep
    <2>3. StartMediator \/ Redeliver \/ UNCHANGED vars => UNCHANGED losses
      BY DEF StartMediator, ForwardCmd, RejectCmd, CommandReplyHandler, DropRply,
         LastSuccess, FirstFailure, AfterFailure, PartialSuccess, Redeliver, vars
    <2> QED
      BY <1>1, <2>1, <2>2, <2>3 DEF Next
  <1>3. c \in DOMAIN commandsInfo /\ commandsInfo[c].state = CMD_STATE_PROCESSING => OnTheWay(c)
    BY <1>2 DEF AwaitedInv
  <1>4. ASSUME Take("cmd")
        PROVE  \A m \in Elems(mediatorQueue) : m.type = "rply" => m \in Elems(mediatorQueue')
    <2>1. /\ mediatorQueue # <<>> /\ Head(mediatorQueue).type # "rply"
          /\ mediatorQueue' = Tail(mediatorQueue)
      BY <1>4 DEF Take
    <2>2. \A x \in Elems(mediatorQueue) : x # Head(mediatorQueue) => x \in Elems(Tail(mediatorQueue))
      BY <1>0, <2>1, KeptInQueue
    <2> QED
      BY <2>1, <2>2
  <1>5. ASSUME Take("rply")
        PROVE  \A m \in Elems(mediatorQueue) :
                  m.cmdID # Head(mediatorQueue).cmdID => m \in Elems(mediatorQueue')
    <2>1. mediatorQueue # <<>> /\ mediatorQueue' = Tail(mediatorQueue)
      BY <1>5 DEF Take
    <2>2. \A x \in Elems(mediatorQueue) : x # Head(mediatorQueue) => x \in Elems(Tail(mediatorQueue))
      BY <1>0, <2>1, KeptInQueue
    <2> QED
      BY <2>1, <2>2
  <1>6. ASSUME NEW p \in Cmds, NEW cmd \in Command, SendCmd(p, cmd) PROVE OnTheWay(c)'
    <2>0. PICK m \in MediatorMsg : m = [type |-> "cmd", cmdID |-> p]
      BY DEF MediatorMsg, CmdMsg
    <2>1. mediatorQueue' = Append(mediatorQueue, m) /\ UNCHANGED <<commandsInfo, controllerQueue>>
      BY <1>6, <2>0 DEF SendCmd
    <2>2. Elems(mediatorQueue) \subseteq Elems(mediatorQueue')
      BY <1>0, <2>1, KeptInQueue
    <2> QED
      BY <1>3, <2>1, <2>2, StillOnTheWay
  <1>7. CASE ForwardCmd
    <2>0. PICK p, k, cmd : p = Head(mediatorQueue).cmdID /\ k = handled[p] + 1 /\ cmd = issued[p]
      OBVIOUS
    <2>1. /\ p \in Cmds /\ cmd \in Command
      <3>1. mediatorQueue # <<>> /\ Head(mediatorQueue).type = "cmd"
        BY <1>7 DEF ForwardCmd, Take
      <3>2. Head(mediatorQueue) \in MediatorMsg /\ Head(mediatorQueue) \in Elems(mediatorQueue)
        BY <1>0, <3>1, TakeLemma
      <3> QED
        BY <2>0, <3>1, <3>2 DEF MediatorMsg, CmdMsg, RplyMsg, IInv, QueueInv, MsgOK
    <2>2. /\ Take("cmd") /\ commandsInfo' = WithChildren(commandsInfo, p, k, cmd)
          /\ controllerQueue' = [q \in Controller \X Zones |->
                IF q[1] \in ForwardedTo(cmd) /\ q[2] = cmd.zone
                THEN Append(controllerQueue[q], <<p, q[1], k>>)
                ELSE controllerQueue[q]]
      BY <1>7, <2>0 DEF ForwardCmd
    <2>3. \A q \in Controller \X Zones : <<p, q[1], k>> \in ChildID
      BY <2>0, <2>1, <1>0 DEF ChildID
    <2>4. ASSUME NEW q \in Controller \X Zones
          PROVE  /\ Elems(controllerQueue[q]) \subseteq Elems(controllerQueue'[q])
                 /\ q[1] \in ForwardedTo(cmd) /\ q[2] = cmd.zone =>
                       <<p, q[1], k>> \in Elems(controllerQueue'[q])
      <3>1. controllerQueue[q] \in Seq(ChildID) /\ <<p, q[1], k>> \in ChildID
        BY <1>0, <2>3
      <3>2. /\ Elems(controllerQueue[q]) \subseteq Elems(Append(controllerQueue[q], <<p, q[1], k>>))
            /\ <<p, q[1], k>> \in Elems(Append(controllerQueue[q], <<p, q[1], k>>))
        BY <3>1, KeptInQueue
      <3> QED
        BY <2>2, <3>2
    <2>5. CASE c \in {<<p, n, k>> : n \in Children(cmd)}
      <3>1. PICK n \in Children(cmd) : c = <<p, n, k>>
        BY <2>5
      <3>2. c # p
        BY <2>1, DisjointLemma
      <3>3. commandsInfo'[c].state = IF n \in ForwardedTo(cmd) THEN CMD_STATE_PROCESSING
                                                               ELSE CMD_STATE_WAITING
        BY <2>2, <2>5, <3>1, <3>2 DEF WithChildren, CmdEntry
      <3>4. n \in ForwardedTo(cmd)
        BY <3>3 DEF CMD_STATE_PROCESSING, CMD_STATE_WAITING
      <3>5. <<n, cmd.zone>> \in Controller \X Zones
        BY <3>1, <2>1, ChildrenLemma DEF Command
      <3> QED
        BY <2>4, <3>1, <3>4, <3>5 DEF OnTheWay
    <2>6. CASE c \notin {<<p, n, k>> : n \in Children(cmd)}
      <3>1. c \in DOMAIN commandsInfo /\ commandsInfo'[c] = commandsInfo[c]
        BY <2>1, <2>2, <2>6, DisjointLemma DEF WithChildren
      <3> QED
        BY <1>3, <1>4, <2>2, <2>4, <3>1, StillOnTheWay
    <2> QED
      BY <2>5, <2>6
  <1>8. CASE RejectCmd
    <2>0. PICK p : p = Head(mediatorQueue).cmdID
      OBVIOUS
    <2>1. Take("cmd") /\ UNCHANGED controllerQueue
      BY <1>8 DEF RejectCmd
    <2>2. PICK cmd, added : /\ added = addCmd(commandsInfo, p, cmd)
                            /\ \/ commandsInfo' = added
                               \/ commandsInfo' = delCmdwithChildCmd(added, p)
      BY <1>8, <2>0 DEF RejectCmd
    <2>3. p \in Cmds
      BY <2>0, <1>8, HandleOthersLemma
    <2>4. c \in DOMAIN commandsInfo /\ commandsInfo'[c] = commandsInfo[c]
      BY <2>2, <2>3, DisjointLemma DEF addCmd, delCmdwithChildCmd
    <2> QED
      BY <1>3, <1>4, <2>1, <2>4, StillOnTheWay
  <1>9. CASE OrphanRply \/ LastSuccess \/ FirstFailure \/ AfterFailure \/ PartialSuccess
    <2>0. PICK m : m = Head(mediatorQueue)
      OBVIOUS
    <2>1. Take("rply")
      BY <1>9 DEF OrphanRply, LastSuccess, FirstFailure, AfterFailure, PartialSuccess, NewRply
    <2>2. /\ \A q \in Controller \X Zones :
                Elems(controllerQueue[q]) \subseteq Elems(controllerQueue'[q])
          /\ \/ /\ c # m.cmdID /\ c \in DOMAIN commandsInfo
                /\ commandsInfo[c].state = CMD_STATE_PROCESSING
             \/ \E q \in Controller \X Zones : c \in Elems(controllerQueue'[q])
      BY <1>9, <2>0, ProcessingLemma
    <2>3. CASE \E q \in Controller \X Zones : c \in Elems(controllerQueue'[q])
      BY <2>3 DEF OnTheWay
    <2>4. CASE /\ c # m.cmdID /\ c \in DOMAIN commandsInfo
               /\ commandsInfo[c].state = CMD_STATE_PROCESSING
      BY <1>3, <1>5, <2>0, <2>1, <2>2, <2>4, StillOnTheWay
    <2> QED
      BY <2>2, <2>3, <2>4
  <1>10. CASE StaleRply /\ ~IsAwaited(Head(mediatorQueue).cmdID)
    <2>1. Take("rply") /\ UNCHANGED <<commandsInfo, controllerQueue>>
      BY <1>10 DEF StaleRply, DropRply
    <2>2. commandsInfo[c].cmdReply = None
      <3>1. ChildEntryOK(commandsInfo, c)
        BY <2>1 DEF IInv, TableOK
      <3> QED
        BY <2>1, <3>1 DEF ChildEntryOK, Determined, CMD_STATE_PROCESSING,
           CMD_STATE_SUCCESSFUL, CMD_STATE_FAIL
    <2>3. c # Head(mediatorQueue).cmdID
      BY <1>10, <2>1, <2>2 DEF IsAwaited, hasCmd, isChildCmdHasCmdRply
    <2> QED
      BY <1>3, <1>5, <2>1, <2>3, StillOnTheWay
  <1>11. CASE StaleRply /\ IsAwaited(Head(mediatorQueue).cmdID)
    <2>1. OrphanRply
      BY <1>11 DEF StaleRply, DropRply, OrphanRply, NewRply
    <2> QED
      BY <1>9, <2>1
  <1>12. ASSUME NEW q \in Controller \X Zones, ControllerStep(q) PROVE OnTheWay(c)'
    <2>0. PICK h : h = Head(controllerQueue[q])
      OBVIOUS
    <2>1. /\ controllerQueue[q] # <<>> /\ UNCHANGED commandsInfo
          /\ controllerQueue' = [controllerQueue EXCEPT ![q] = Tail(@)]
      BY <1>12 DEF ControllerStep
    <2>2. PICK s \in Outcome(h[2], issued[h[1]]) :
             mediatorQueue' = Append(mediatorQueue,
                                     [type |-> "rply", cmdID |-> h, cmdState |-> s])
      BY <1>12, <2>0 DEF ControllerStep
    <2>3. h \in ChildID
      BY <1>0, <2>0, <2>1, TakeLemma
    <2>4. PICK m \in MediatorMsg : m = [type |-> "rply", cmdID |-> h, cmdState |-> s]
      BY <2>2, <2>3, OutcomeLemma DEF MediatorMsg, RplyMsg
    <2>5. Elems(mediatorQueue) \subseteq Elems(mediatorQueue') /\ m \in Elems(mediatorQueue')
      <3>1. mediatorQueue' = Append(mediatorQueue, m)
        BY <2>2, <2>4
      <3>2. mediatorQueue \in Seq(MediatorMsg) /\ m \in MediatorMsg
        BY <1>0
      <3>3. /\ Elems(mediatorQueue) \subseteq Elems(Append(mediatorQueue, m))
            /\ m \in Elems(Append(mediatorQueue, m))
        BY ONLY <3>2, KeptInQueue
      <3> QED
        BY <3>1, <3>3
    <2>6. \A e \in Elems(controllerQueue[q]) : e # h => e \in Elems(Tail(controllerQueue[q]))
      BY <1>0, <2>0, <2>1, KeptInQueue
    <2>7. \A x \in Controller \X Zones : \A e \in Elems(controllerQueue[x]) :
             e # h => e \in Elems(controllerQueue'[x])
      BY <1>0, <2>1, <2>6
    <2>8. CASE c = h
      BY <2>4, <2>5, <2>8 DEF OnTheWay
    <2>9. CASE c # h
      BY <1>3, <2>1, <2>5, <2>7, <2>9 DEF OnTheWay
    <2> QED
      BY <2>8, <2>9
  <1>13. CASE Redeliver
    <2>1. UNCHANGED commandsInfo
      BY <1>13 DEF Redeliver
    <2>2. CASE /\ mediatorQueue # <<>> /\ UNCHANGED controllerQueue
               /\ mediatorQueue' = <<Head(mediatorQueue)>> \o mediatorQueue
      <3>1. Elems(mediatorQueue) \subseteq Elems(mediatorQueue')
        BY <1>0, <2>2, KeptInQueue
      <3> QED
        BY <1>3, <2>1, <2>2, <3>1, StillOnTheWay
    <2>3. ASSUME NEW q \in Controller \X Zones, controllerQueue[q] # <<>>,
                 controllerQueue' = [controllerQueue EXCEPT ![q] = <<Head(@)>> \o @],
                 UNCHANGED mediatorQueue
          PROVE  OnTheWay(c)'
      <3>1. PICK s : s = <<Head(controllerQueue[q])>> \o controllerQueue[q]
        OBVIOUS
      <3>2. Elems(controllerQueue[q]) \subseteq Elems(s)
        BY <1>0, <2>3, <3>1, KeptInQueue
      <3>3. controllerQueue' = [controllerQueue EXCEPT ![q] = s]
        BY <2>3, <3>1
      <3>4. \A x \in Controller \X Zones :
               Elems(controllerQueue[x]) \subseteq Elems(controllerQueue'[x])
        BY <1>0, <3>2, <3>3
      <3> QED
        BY <1>3, <2>1, <2>3, <3>4, StillOnTheWay
    <2> QED
      BY <1>13, <2>2, <2>3 DEF Redeliver
  <1>14. CASE UNCHANGED vars
    BY <1>3, <1>14, StillOnTheWay DEF vars
  <1> QED
    BY <1>1, <1>6, <1>7, <1>8, <1>9, <1>10, <1>11, <1>12, <1>13, <1>14, ReplyCases
       DEF Next, StartMediator

LEMMA AwaitedInvariance == Spec => []AwaitedInv
  <1>1. Init => AwaitedInv
    BY DEF Init, AwaitedInv, NoCommands
  <1> QED
    BY <1>1, NextAwaitedInv, Invariance, PTL DEF Spec

\* A command whose replies can be merged: outside the puffer zone they name one source.
Tracked(p) ==
    /\ issued[p].cmdType \in SFCCmdTypes /\ issued[p].zone # "PUFFER_ZONE"
    /\ ForwardedTo(issued[p]) # {}

\* A command stays in the table only while a child is open; a child that still waits though
\* the SFF controller succeeded belongs to a failed command.
IsOpen(info, p) ==
    /\ ~isAllChildCmdDetermined(info, p)
    /\ \A c, d \in ChildCmdIDs(info, p) :
          (/\ info[c].state = CMD_STATE_WAITING
           /\ d[2] = SFF /\ info[d].state = CMD_STATE_SUCCESSFUL) => isParentCmdFailed(info, p)

\* A failed command was answered.
OpenInv ==
    \A p \in Cmds \cap DOMAIN commandsInfo : Tracked(p) =>
        /\ IsOpen(commandsInfo, p)
        /\ isParentCmdFailed(commandsInfo, p) => rplyLog[p] = <<CMD_STATE_FAIL>>

\* Only the SFF controller or only the simulator names itself in its replies.
LEMMA NoClashLemma ==
    ASSUME NEW info, TableOK(info), NEW p \in Cmds \cap DOMAIN info, Tracked(p)
    PROVE  ~RplyRaises(info, p)
  <1>1. /\ ChildCmdIDs(info, p) = {<<p, n, handled[p]>> : n \in Children(issued[p])}
        /\ issued[p] \in Command /\ info[p].cmd = issued[p]
    BY ChildCmdIDsLemma DEF Tracked, TableOK, ParentEntryOK
  <1>2. \/ Children(issued[p]) \subseteq {SIMULATOR}
        \/ Children(issued[p]) \subseteq {SFF, P4, VNF}
    <2>1. CASE issued[p].zone = "SIMULATOR_ZONE"
      BY <2>1 DEF Children, ForwardedTo, PreparedFor
    <2>2. CASE issued[p].zone = "TURBONET_ZONE"
      BY <2>2 DEF Children, ForwardedTo, PreparedFor, TurbonetTargets
    <2>3. CASE issued[p].zone \notin {"SIMULATOR_ZONE", "TURBONET_ZONE"}
      BY <2>3 DEF Tracked, ForwardedTo
    <2> QED
      BY <2>1, <2>2, <2>3
  <1>3. \A m, n \in Children(issued[p]) :
           RplySource(m) # None /\ RplySource(n) # None => RplySource(m) = RplySource(n)
    <2>1. RplySource(P4) = None /\ RplySource(VNF) = None
      BY DEF RplySource, SIMULATOR, SFF, P4, VNF, CLASSIFIER, NETWORK
    <2> QED
      BY <1>2, <2>1
  <1>4. ~MixedAttributesClash(info, p)
    BY <1>1, <1>3 DEF MixedAttributesClash
  <1> QED
    BY <1>1, <1>4 DEF RplyRaises, Tracked

\* The children of a command depend only on the command and on how often it was handled.
LEMMA SameChildren ==
    ASSUME IInv, NEW info, TableOK(info), NEW p \in Cmds \cap DOMAIN info, p \in DOMAIN commandsInfo,
           ForwardedTo(issued[p]) # {}
    PROVE  ChildCmdIDs(info, p) = ChildCmdIDs(commandsInfo, p)
  BY ChildCmdIDsLemma DEF IInv

\* A command whose entries are left alone.
LEMMA StillOpen ==
    ASSUME IInv, IInv', OpenInv,
           NEW x \in Cmds \cap DOMAIN commandsInfo', Tracked(x)',
           x \in DOMAIN commandsInfo,
           rplyLog'[x] = rplyLog[x], issued'[x] = issued[x], handled'[x] = handled[x],
           \A c \in ChildID \cap DOMAIN commandsInfo' :
              c[1] = x => commandsInfo'[c] = commandsInfo[c]
    PROVE  /\ IsOpen(commandsInfo', x)
           /\ isParentCmdFailed(commandsInfo', x) => rplyLog'[x] = <<CMD_STATE_FAIL>>
  <1>1. Tracked(x)
    BY DEF Tracked
  <1>2. /\ IsOpen(commandsInfo, x)
        /\ isParentCmdFailed(commandsInfo, x) => rplyLog[x] = <<CMD_STATE_FAIL>>
    BY <1>1 DEF OpenInv
  <1>3. /\ ChildCmdIDs(commandsInfo, x) = {<<x, n, handled[x]>> : n \in Children(issued[x])}
        /\ ChildCmdIDs(commandsInfo, x) \subseteq ChildID
    BY <1>1, ChildCmdIDsLemma DEF IInv, Tracked
  <1>4. ParentEntryOK(commandsInfo, x)'
    BY DEF IInv, TableOK
  <1>5. /\ commandsInfo'[x].childCmdID = [n \in Children(issued[x]) |-> <<x, n, handled[x]>>]
        /\ \A n \in Children(issued[x]) : <<x, n, handled[x]>> \in DOMAIN commandsInfo'
    BY <1>1, <1>4 DEF ParentEntryOK, Tracked
  <1>6. ChildCmdIDs(commandsInfo', x) = ChildCmdIDs(commandsInfo, x)
    BY <1>3, <1>5 DEF ChildCmdIDs
  <1>7. \A c \in ChildCmdIDs(commandsInfo, x) : commandsInfo'[c] = commandsInfo[c]
    BY <1>3, <1>5
  <1>8. isParentCmdFailed(commandsInfo', x) <=> isParentCmdFailed(commandsInfo, x)
    BY <1>6, <1>7 DEF isParentCmdFailed, ChildrenIn
  <1>9. isAllChildCmdDetermined(commandsInfo', x) <=> isAllChildCmdDetermined(commandsInfo, x)
    BY <1>6, <1>7 DEF isAllChildCmdDetermined, ChildrenIn
  <1> QED
    BY <1>2, <1>6, <1>7, <1>8, <1>9 DEF IsOpen

\* The verdict is sent, and the command is forgotten unless a child is open.
LEMMA VerdictLemma ==
    ASSUME IInv, NEW info, TableOK(info), NEW p \in Cmds \cap DOMAIN info, Tracked(p),
           NEW s \in Determined, Conclude(info, p, s), rplyLog[p] = <<>>
    PROVE  /\ rplyLog'[p] = <<s>>
           /\ p \in DOMAIN commandsInfo' =>
                 /\ ~isAllChildCmdDetermined(info, p)
                 /\ ~isAllChildCmdDetermined(commandsInfo', p)
                 /\ isParentCmdFailed(commandsInfo', p) <=> isParentCmdFailed(info, p)
  <1>0. PICK new : new = changeCmdState(info, p, s)
    OBVIOUS
  <1>1. s \in CmdState /\ ForwardedTo(issued[p]) # {} /\ issued \in [Cmds -> Command \cup {None}]
        /\ rplyLog \in [Cmds -> Seq(Determined)]
    BY DEF Tracked, Determined, CmdState, IInv, TypeOK
  <1>2. /\ TableOK(new) /\ DOMAIN new = DOMAIN info
        /\ \A c \in ChildID \cap DOMAIN info : new[c] = info[c]
        /\ ChildCmdIDs(new, p) = ChildCmdIDs(info, p)
    BY <1>0, <1>1, ChangeStateLemma
  <1>3. ChildCmdIDs(info, p) \subseteq ChildID \cap DOMAIN info
    BY <1>1, ChildCmdIDsLemma
  <1>4. ~RplyRaises(new, p)
    BY <1>2, NoClashLemma
  <1>5. commandsInfo' = Settle(new, p) /\ rplyLog' = [rplyLog EXCEPT ![p] = Append(@, s)]
    BY <1>0, <1>4 DEF Conclude
  <1>6. rplyLog'[p] = Append(<<>>, s)
    BY <1>1, <1>5
  <1>7. rplyLog'[p] = <<s>>
    BY <1>6
  <1>8. isAllChildCmdDetermined(new, p) <=> isAllChildCmdDetermined(info, p)
    BY <1>2, <1>3 DEF isAllChildCmdDetermined, ChildrenIn
  <1>9. isParentCmdFailed(new, p) <=> isParentCmdFailed(info, p)
    BY <1>2, <1>3 DEF isParentCmdFailed, ChildrenIn
  <1>10. isAllChildCmdDetermined(new, p) => p \notin DOMAIN commandsInfo'
    BY <1>1, <1>2, <1>5, DeleteLemma DEF Settle
  <1>11. ~isAllChildCmdDetermined(new, p) => commandsInfo' = new
    BY <1>5 DEF Settle
  <1> QED
    BY <1>7, <1>8, <1>9, <1>10, <1>11

\* Handling the command itself: every child is still to be answered.
LEMMA ForwardCmdOpen ==
    ASSUME IInv, ForwardCmd, NEW p, p = Head(mediatorQueue).cmdID
    PROVE  IsOpen(commandsInfo', p) /\ ~isParentCmdFailed(commandsInfo', p)
  <1>0. PICK k, cmd : k = handled[p] + 1 /\ cmd = issued[p]
    OBVIOUS
  <1>1. /\ commandsInfo' = WithChildren(commandsInfo, p, k, cmd) /\ ForwardedTo(cmd) # {}
    BY <1>0 DEF ForwardCmd
  <1>2. p \in Cmds /\ handled[p] \in Nat
    BY HandleOthersLemma DEF IInv, TypeOK
  <1>3. \A n \in Children(cmd) : <<p, n, k>> \in ChildID /\ <<p, n, k>> # p
    BY <1>0, <1>2, ChildrenLemma, DisjointLemma DEF ChildID
  <1>4. /\ commandsInfo'[p].childCmdID = [n \in Children(cmd) |-> <<p, n, k>>]
        /\ \A n \in Children(cmd) :
              commandsInfo'[<<p, n, k>>].state =
                 IF n \in ForwardedTo(cmd) THEN CMD_STATE_PROCESSING ELSE CMD_STATE_WAITING
    BY <1>1, <1>3 DEF WithChildren, CmdEntry
  <1>5. ChildCmdIDs(commandsInfo', p) = {<<p, n, k>> : n \in Children(cmd)}
    BY <1>4 DEF ChildCmdIDs
  <1>6. \A c \in ChildCmdIDs(commandsInfo', p) :
           /\ commandsInfo'[c].state # CMD_STATE_SUCCESSFUL
           /\ commandsInfo'[c].state # CMD_STATE_FAIL
    BY <1>4, <1>5 DEF CMD_STATE_PROCESSING, CMD_STATE_WAITING, CMD_STATE_SUCCESSFUL, CMD_STATE_FAIL
  <1>7. PICK n \in Children(cmd) : n \in ForwardedTo(cmd)
    BY <1>1, ChildrenLemma
  <1>8. ~isAllChildCmdDetermined(commandsInfo', p)
    BY <1>4, <1>5, <1>7 DEF isAllChildCmdDetermined, ChildrenIn
  <1> QED
    BY <1>6, <1>8 DEF IsOpen, isParentCmdFailed, ChildrenIn

\* A failure after the first one: the command has been answered.
LEMMA AfterFailureOpen ==
    ASSUME IInv, FirstDelivery, OpenInv, AfterFailure,
           NEW p, p = ParentOfRply, Tracked(p), p \in DOMAIN commandsInfo'
    PROVE  IsOpen(commandsInfo', p) /\ rplyLog[p] = <<CMD_STATE_FAIL>>
  <1>0. PICK m, info : m = Head(mediatorQueue) /\ info = Recorded(m)
    OBVIOUS
  <1>1. /\ NewRply /\ p \in DOMAIN commandsInfo
        /\ isParentCmdFailed(info, p) /\ ~IsFirstFailure(info, m, p)
        /\ commandsInfo' = Settle(info, p)
    BY <1>0 DEF AfterFailure, hasCmd
  <1>2. /\ TableOK(info) /\ DOMAIN info = DOMAIN commandsInfo /\ p \in Cmds
        /\ ForwardedTo(issued[p]) # {}
        /\ m \in RplyMsg /\ m.cmdID \in DOMAIN commandsInfo
        /\ <<m.cmdID, m.cmdState>> \in outcomes
    BY <1>0, <1>1, NewRplyLemma
  <1>3. p \in Cmds \cap DOMAIN info
    BY <1>1, <1>2
  <1>4. ~isAllChildCmdDetermined(info, p) /\ commandsInfo' = info
    BY <1>1, <1>2, <1>3, DeleteLemma DEF Settle
  <1>5. IsOpen(info, p)
    BY <1>1, <1>4 DEF IsOpen
  <1>6. m.cmdID \in ChildCmdIDs(info, p)
    BY <1>0, <1>1, CurrentChildLemma
  <1>7. /\ \A id \in DOMAIN commandsInfo : id # m.cmdID => info[id] = commandsInfo[id]
        /\ info[m.cmdID].state = m.cmdState
    BY <1>0, <1>2, RecordLemma DEF IInv
  <1>8. PICK d \in ChildCmdIDs(info, p) : info[d].state = CMD_STATE_FAIL /\ d # m.cmdID
    <2>1. SUFFICES ASSUME \A d \in ChildCmdIDs(info, p) :
                             info[d].state = CMD_STATE_FAIL => d = m.cmdID
                   PROVE  FALSE
      OBVIOUS
    <2>2. ChildrenIn(info, p, {CMD_STATE_FAIL}) = {m.cmdID}
      BY <1>1, <2>1 DEF isParentCmdFailed, ChildrenIn
    <2>3. m.cmdState = CMD_STATE_FAIL
      BY <1>7, <2>2 DEF ChildrenIn
    <2> QED
      BY <1>1, <1>6, <2>2, <2>3 DEF IsFirstFailure, isOnlyOneChildCmdFailed
  <1>9. ChildCmdIDs(info, p) = ChildCmdIDs(commandsInfo, p)
    BY <1>1, <1>2, <1>3, SameChildren
  <1>10. d \in DOMAIN commandsInfo
    BY <1>2, <1>3, ChildCmdIDsLemma
  <1>11. isParentCmdFailed(commandsInfo, p)
    BY <1>7, <1>8, <1>9, <1>10 DEF isParentCmdFailed, ChildrenIn
  <1> QED
    BY <1>1, <1>2, <1>4, <1>5, <1>11 DEF OpenInv

\* A success that leaves the command undecided: if the SFF controller has succeeded the
\* child that waits is sent.
LEMMA PartialSuccessOpen ==
    ASSUME IInv, PartialSuccess,
           NEW p, p = ParentOfRply, p \in DOMAIN commandsInfo'
    PROVE  IsOpen(commandsInfo', p) /\ ~isParentCmdFailed(commandsInfo', p)
  <1>0. PICK m, info : m = Head(mediatorQueue) /\ info = Recorded(m)
    OBVIOUS
  <1>1. /\ NewRply /\ p \in DOMAIN commandsInfo /\ ~isParentCmdFailed(info, p)
    BY <1>0 DEF PartialSuccess, hasCmd
  <1>2. /\ TableOK(info) /\ DOMAIN info = DOMAIN commandsInfo /\ p \in Cmds
        /\ ForwardedTo(issued[p]) # {} /\ issued[p] \in Command
    BY <1>0, <1>1, NewRplyLemma
  <1>3. p \in Cmds \cap DOMAIN info
    BY <1>1, <1>2
  <1>4. /\ ChildCmdIDs(info, p) = {<<p, n, handled[p]>> : n \in Children(issued[p])}
        /\ ChildCmdIDs(info, p) \subseteq ChildID \cap DOMAIN info
        /\ \A n \in Children(issued[p]) : info[p].childCmdID[n] = <<p, n, handled[p]>>
        /\ info[p].cmd = issued[p]
    BY <1>2, <1>3, ChildCmdIDsLemma DEF TableOK, ParentEntryOK
  <1>5. \A c \in ChildCmdIDs(info, p) : info[c].state = CMD_STATE_WAITING =>
           c = <<p, VNF, handled[p]>> /\ PreparedFor(issued[p]) # {}
    <2> SUFFICES ASSUME NEW c \in ChildCmdIDs(info, p), info[c].state = CMD_STATE_WAITING
                 PROVE  c = <<p, VNF, handled[p]>> /\ PreparedFor(issued[p]) # {}
      OBVIOUS
    <2>1. PICK n \in Children(issued[p]) : c = <<p, n, handled[p]>>
      BY <1>4
    <2>2. HeldBack(c)
      BY <1>2, <1>4 DEF TableOK, ChildEntryOK
    <2>3. n \in PreparedFor(issued[p])
      BY <2>1, <2>2 DEF HeldBack
    <2> QED
      BY <2>1, <2>3, ChildrenLemma
  <1>6. CASE ReleasesVNF(info, p)
    <2>1. PICK v, t : /\ v = <<p, VNF, handled[p]>>
                      /\ t = transitCmdState(info, p, CMD_STATE_WAITING, CMD_STATE_PROCESSING)
      OBVIOUS
    <2>2. /\ info[p].childCmdID[VNF] = v /\ v \in ChildID \cap DOMAIN info
          /\ info[v].state = CMD_STATE_WAITING
      BY <1>2, <1>3, <1>6, <2>1, ReleaseLemma
    <2>3. commandsInfo' = transitCmdState(t, v, CMD_STATE_WAITING, CMD_STATE_PROCESSING)
      BY <1>0, <1>6, <2>1, <2>2 DEF PartialSuccess
    <2>4. /\ TableOK(t) /\ DOMAIN t = DOMAIN info
          /\ \A x \in DOMAIN info : t[x].childCmdID = info[x].childCmdID
          /\ \A x \in DOMAIN info : x # p => t[x] = info[x]
      BY <2>1, <1>2, TransitLemma
    <2>5. /\ DOMAIN commandsInfo' = DOMAIN t
          /\ \A x \in DOMAIN t : commandsInfo'[x].childCmdID = t[x].childCmdID
          /\ \A x \in DOMAIN t : x # v => commandsInfo'[x] = t[x]
      BY <2>3, <2>4, TransitLemma
    <2>6. \A c \in ChildID : c # p
      BY <1>2, DisjointLemma
    <2>7. t[v].state = CMD_STATE_WAITING
      BY <2>2, <2>4, <2>6
    <2>8. commandsInfo'[v].state = CMD_STATE_PROCESSING
      <3>1. commandsInfo' = [t EXCEPT ![v].state = CMD_STATE_PROCESSING] /\ v \in DOMAIN t
        BY <2>2, <2>3, <2>4, <2>7 DEF transitCmdState, hasCmd
      <3>2. t[v].state = CMD_STATE_WAITING /\ IsCmdEntry(t[v])
        BY <2>4, <2>7, <3>1 DEF TableOK
      <3> QED
        BY <3>1, <3>2 DEF IsCmdEntry
    <2>9. ChildCmdIDs(commandsInfo', p) = ChildCmdIDs(info, p)
      BY <1>3, <2>4, <2>5 DEF ChildCmdIDs
    <2>10. \A c \in ChildCmdIDs(info, p) : c # v => commandsInfo'[c] = info[c]
      BY <1>4, <2>4, <2>5, <2>6
    <2>11. v \in ChildCmdIDs(info, p)
      <3>1. PICK c \in ChildCmdIDs(info, p) : info[c].state = CMD_STATE_WAITING
        BY <1>6 DEF ReleasesVNF, isParentCmdWaiting, ChildrenIn
      <3> QED
        BY <1>5, <2>1, <3>1
    <2>12. ~isAllChildCmdDetermined(commandsInfo', p)
      BY <2>8, <2>9, <2>11 DEF isAllChildCmdDetermined, ChildrenIn
    <2>13. \A c \in ChildCmdIDs(commandsInfo', p) : commandsInfo'[c].state # CMD_STATE_WAITING
      BY <1>5, <2>1, <2>8, <2>9, <2>10 DEF CMD_STATE_WAITING, CMD_STATE_PROCESSING
    <2>14. ~isParentCmdFailed(commandsInfo', p)
      BY <1>1, <2>8, <2>9, <2>10 DEF isParentCmdFailed, ChildrenIn, CMD_STATE_FAIL,
         CMD_STATE_PROCESSING
    <2> QED
      BY <2>12, <2>13, <2>14 DEF IsOpen
  <1>7. CASE ~ReleasesVNF(info, p)
    <2>1. commandsInfo' = Settle(info, p)
      BY <1>0, <1>7 DEF PartialSuccess
    <2>2. ~isAllChildCmdDetermined(info, p) /\ commandsInfo' = info
      BY <1>2, <1>3, <2>1, DeleteLemma DEF Settle
    <2>3. ASSUME NEW c \in ChildCmdIDs(info, p), NEW d \in ChildCmdIDs(info, p),
                 info[c].state = CMD_STATE_WAITING,
                 d[2] = SFF, info[d].state = CMD_STATE_SUCCESSFUL
          PROVE  FALSE
      <3>1. c = <<p, VNF, handled[p]>> /\ PreparedFor(issued[p]) # {}
        BY <1>5, <2>3
      <3>2. d = <<p, SFF, handled[p]>>
        BY <1>4, <2>3
      <3>3. VNF \in Children(issued[p]) /\ SFF \in Children(issued[p])
        BY <3>1, ChildrenLemma
      <3>4. info[p].childCmdID[VNF] = c /\ info[p].childCmdID[SFF] = d
        BY <1>4, <3>1, <3>2, <3>3
      <3>5. info[p].cmd.cmdType = "ADD_SFCI"
        BY <1>4, <3>1 DEF PreparedFor
      <3>6. isParentCmdWaiting(info, p)
        BY <2>3 DEF isParentCmdWaiting, ChildrenIn
      <3> QED
        BY <1>7, <2>3, <3>4, <3>5, <3>6 DEF ReleasesVNF, getChildCmdState
    <2> QED
      BY <1>1, <2>2, <2>3 DEF IsOpen
  <1> QED
    BY <1>6, <1>7

LEMMA NextOpenInv ==
    ASSUME IInv, RplyInv, OnceInv, OpenInv, [Next]_vars
    PROVE  OpenInv'
  <1>0. /\ IInv' /\ FirstDelivery
        /\ issued \in [Cmds -> Command \cup {None}]
        /\ handled \in [Cmds -> Nat] /\ rplyLog \in [Cmds -> Seq(Determined)]
    BY NextIInv DEF OnceInv, IInv, TypeOK
  <1> SUFFICES ASSUME NEW x \in Cmds \cap DOMAIN commandsInfo', Tracked(x)'
               PROVE  /\ IsOpen(commandsInfo', x)
                      /\ isParentCmdFailed(commandsInfo', x) => rplyLog'[x] = <<CMD_STATE_FAIL>>
    BY DEF OpenInv
  <1>1. CASE UNCHANGED <<commandsInfo, rplyLog>>
    <2>1. issued[x] \in Command
      BY <1>1 DEF IInv, TableOK, ParentEntryOK
    <2>2. issued'[x] = issued[x]
      BY <2>1, GrowthLemma
    <2>3. Tracked(x)
      BY <2>2 DEF Tracked
    <2> QED
      BY <1>1, <2>3 DEF OpenInv
  <1>2. CASE ForwardCmd \/ RejectCmd
    <2>0. PICK p : p = Head(mediatorQueue).cmdID
      OBVIOUS
    <2>1. UNCHANGED <<rplyLog, issued>>
      BY <1>2 DEF ForwardCmd, RejectCmd
    <2>2. CASE x # p
      <3>1. handled'[x] = handled[x]
        BY <2>0, <2>2, <1>0, <1>2 DEF ForwardCmd, RejectCmd
      <3>2. \A id \in DOMAIN commandsInfo' :
               (id \in Cmds /\ id # p) \/ (id \in ChildID /\ id[1] # p) =>
                  id \in DOMAIN commandsInfo /\ commandsInfo'[id] = commandsInfo[id]
        BY <2>0, <1>2, HandleOthersLemma
      <3> QED
        BY <1>0, <2>1, <2>2, <3>1, <3>2, StillOpen
    <2>3. CASE x = p /\ ForwardCmd
      BY <2>0, <2>3, ForwardCmdOpen
    <2>4. CASE x = p /\ RejectCmd
      BY <2>0, <2>1, <2>4 DEF RejectCmd, Tracked
    <2> QED
      BY <1>2, <2>2, <2>3, <2>4
  <1>3. CASE OrphanRply \/ LastSuccess \/ FirstFailure \/ AfterFailure \/ PartialSuccess
    <2>0. PICK m, p, info : /\ m = Head(mediatorQueue)
                            /\ p = ParentOfRply
                            /\ info = Recorded(m)
      OBVIOUS
    <2>1. NewRply /\ UNCHANGED <<issued, handled>>
      BY <1>3 DEF OrphanRply, LastSuccess, FirstFailure, AfterFailure, PartialSuccess
    <2>2. /\ TableOK(info) /\ DOMAIN info = DOMAIN commandsInfo /\ p \in Cmds
      BY <2>0, <2>1, NewRplyLemma
    <2>3. Tracked(x)
      BY <2>1 DEF Tracked
    <2>4. CASE x # p
      <3>1. rplyLog'[x] = rplyLog[x]
        BY <2>0, <2>2, <2>4, <1>0, <1>3, LastSuccessAnswers, FirstFailureAnswers
           DEF Answers, OrphanRply, AfterFailure, PartialSuccess
      <3>2. /\ x \in DOMAIN commandsInfo
            /\ \A c \in ChildID \cap DOMAIN commandsInfo' :
                  c[1] = x => commandsInfo'[c] = commandsInfo[c]
        BY <2>0, <2>4, <1>3, OthersLemma
      <3> QED
        BY <1>0, <2>1, <3>1, <3>2, StillOpen
    <2>5. CASE x = p /\ OrphanRply
      BY <2>0, <2>2, <2>5 DEF OrphanRply, hasCmd
    <2>6. CASE x = p /\ AfterFailure
      <3>1. IsOpen(commandsInfo', p) /\ rplyLog[p] = <<CMD_STATE_FAIL>>
        BY <1>0, <2>0, <2>3, <2>6, AfterFailureOpen
      <3> QED
        BY <2>6, <3>1 DEF AfterFailure
    <2>7. CASE x = p /\ PartialSuccess
      BY <2>0, <2>7, PartialSuccessOpen
    <2>8. CASE x = p /\ LastSuccess
      <3>1. rplyLog[p] = <<>>
        BY <2>0, <2>8, UnansweredLemma
      <3>2. /\ p \in Cmds \cap DOMAIN info /\ isParentCmdSuccessful(info, p)
            /\ Conclude(info, p, CMD_STATE_SUCCESSFUL) /\ CMD_STATE_SUCCESSFUL \in Determined
        BY <2>0, <2>2, <2>8 DEF LastSuccess, hasCmd, Determined
      <3>3. isAllChildCmdDetermined(info, p)
        BY <3>2 DEF isAllChildCmdDetermined, isParentCmdSuccessful, ChildrenIn,
           CMD_STATE_SUCCESSFUL, CMD_STATE_WAITING, CMD_STATE_PROCESSING
      <3>4. p \notin DOMAIN commandsInfo'
        BY <2>2, <2>3, <2>8, <3>1, <3>2, <3>3, VerdictLemma
      <3> QED
        BY <2>8, <3>4
    <2>9. CASE x = p /\ FirstFailure
      <3>1. rplyLog[p] = <<>>
        BY <2>0, <2>9, UnansweredLemma
      <3>2. /\ p \in Cmds \cap DOMAIN info /\ isParentCmdFailed(info, p)
            /\ Conclude(info, p, CMD_STATE_FAIL) /\ CMD_STATE_FAIL \in Determined
        BY <2>0, <2>2, <2>9 DEF FirstFailure, hasCmd, Determined
      <3>3. /\ rplyLog'[p] = <<CMD_STATE_FAIL>>
            /\ ~isAllChildCmdDetermined(commandsInfo', p)
            /\ isParentCmdFailed(commandsInfo', p)
        BY <2>2, <2>3, <2>9, <3>1, <3>2, VerdictLemma
      <3> QED
        BY <2>9, <3>3 DEF IsOpen
    <2> QED
      BY <1>3, <2>4, <2>5, <2>6, <2>7, <2>8, <2>9
  <1>4. ASSUME NEW p \in Cmds, NEW cmd \in Command, SendCmd(p, cmd)
        PROVE  UNCHANGED <<commandsInfo, rplyLog>>
    BY <1>4 DEF SendCmd
  <1>5. ASSUME NEW q \in Controller \X Zones, ControllerStep(q)
        PROVE  UNCHANGED <<commandsInfo, rplyLog>>
    BY <1>5 DEF ControllerStep
  <1>6. ASSUME StaleRply \/ Redeliver \/ LoseMsg \/ UNCHANGED vars
        PROVE  UNCHANGED <<commandsInfo, rplyLog>>
    BY <1>6 DEF StaleRply, DropRply, Redeliver, LoseMsg, vars
  <1> QED
    BY <1>1, <1>2, <1>3, <1>4, <1>5, <1>6, ReplyCases DEF Next, StartMediator

\* If the command itself is delivered once and nothing is lost, the mediator forgets it with
\* the answer to its last child (the last statement of _exeCmdStateAction), except an
\* ADD_SFCI that failed before its VNF child was sent.
THEOREM ForgottenInTheEnd ==
    ASSUME "cmd" \notin Redeliverable
    PROVE  Spec => []ForgottenUnlessVNFHeldBack
  <1>1. Init => OpenInv
    BY DEF Init, OpenInv, NoCommands
  <1>2. IInv /\ RplyInv /\ OnceInv /\ OpenInv /\ [Next]_vars => OpenInv'
    BY NextOpenInv
  <1>3. IInv /\ AwaitedInv /\ OpenInv => ForgottenUnlessVNFHeldBack
    <2> SUFFICES ASSUME IInv, AwaitedInv, OpenInv,
                        NEW p \in Cmds \cap DOMAIN commandsInfo, losses = 0, Quiet(p), Tracked(p)
                 PROVE  /\ rplyLog[p] = <<CMD_STATE_FAIL>>
                        /\ \E c \in ChildCmdIDs(commandsInfo, p) :
                              c[2] = VNF /\ commandsInfo[c].state = CMD_STATE_WAITING
      BY DEF ForgottenUnlessVNFHeldBack, Tracked
    <2>0. TableOK(commandsInfo) /\ ForwardedTo(issued[p]) # {}
      BY DEF IInv, Tracked
    <2>1. /\ ChildCmdIDs(commandsInfo, p) = {<<p, n, handled[p]>> : n \in Children(issued[p])}
          /\ ChildCmdIDs(commandsInfo, p) \subseteq ChildID \cap DOMAIN commandsInfo
      BY <2>0, ChildCmdIDsLemma
    <2>2. \A c : OnTheWay(c) => c[1] # p
      BY DEF OnTheWay, Quiet, Elems
    <2>3. \A c \in ChildCmdIDs(commandsInfo, p) : commandsInfo[c].state # CMD_STATE_PROCESSING
      BY <2>1, <2>2 DEF AwaitedInv
    <2>4. /\ IsOpen(commandsInfo, p)
          /\ isParentCmdFailed(commandsInfo, p) => rplyLog[p] = <<CMD_STATE_FAIL>>
      BY DEF OpenInv
    <2>5. PICK c \in ChildCmdIDs(commandsInfo, p) : commandsInfo[c].state = CMD_STATE_WAITING
      BY <2>3, <2>4 DEF IsOpen, isAllChildCmdDetermined, ChildrenIn
    <2>6. \A d \in ChildCmdIDs(commandsInfo, p) :
             commandsInfo[d].state = CMD_STATE_WAITING => d[2] \in PreparedFor(issued[p])
      <3> SUFFICES ASSUME NEW d \in ChildCmdIDs(commandsInfo, p),
                          commandsInfo[d].state = CMD_STATE_WAITING
                   PROVE  d[2] \in PreparedFor(issued[p])
        OBVIOUS
      <3>1. d[1] = p
        BY <2>1
      <3>2. HeldBack(d)
        BY <2>0, <2>1 DEF TableOK, ChildEntryOK
      <3> QED
        BY <3>1, <3>2 DEF HeldBack
    <2>7. c[2] = VNF /\ SFF \in Children(issued[p]) /\ SFF \notin PreparedFor(issued[p])
      BY <2>5, <2>6, ChildrenLemma
    <2>8. PICK d \in ChildCmdIDs(commandsInfo, p) : d = <<p, SFF, handled[p]>>
      BY <2>1, <2>7
    <2>9. commandsInfo[d].state \in {CMD_STATE_SUCCESSFUL, CMD_STATE_FAIL}
      <3>1. commandsInfo[d].state \in CmdState
        BY <2>0, <2>1 DEF TableOK, IsCmdEntry
      <3>2. commandsInfo[d].state # CMD_STATE_WAITING
        BY <2>6, <2>7, <2>8
      <3> QED
        BY <2>3, <3>1, <3>2 DEF CmdState
    <2>10. isParentCmdFailed(commandsInfo, p)
      <3>1. CASE commandsInfo[d].state = CMD_STATE_SUCCESSFUL
        BY <2>4, <2>5, <2>8, <3>1 DEF IsOpen
      <3>2. CASE commandsInfo[d].state = CMD_STATE_FAIL
        BY <3>2 DEF isParentCmdFailed, ChildrenIn
      <3> QED
        BY <2>9, <3>1, <3>2
    <2> QED
      BY <2>4, <2>5, <2>7, <2>10
  <1> QED
    BY <1>1, <1>2, <1>3, Invariance, RplyInvariance, OnceInvariance, AwaitedInvariance, PTL
       DEF Spec

-----------------------------------------------------------------------------
(***************************************************************************)
(* One SFCI from end to end.  The mediator of the SFCI is the mediator.    *)
(***************************************************************************)
LEMMA LifecycleStep == LifecycleNext => [Next]_vars
  <1>1. ASSUME NEW p \in Cmds, NEW cmd \in Command, AddSFCI(p, cmd) \/ DelSFCI(p, cmd)
        PROVE  Next
    BY <1>1 DEF AddSFCI, DelSFCI, Next
  <1>2. ASSUME NEW p \in Cmds, CmdRply(p) PROVE UNCHANGED vars
    BY <1>2 DEF CmdRply
  <1>3. ASSUME NEW q \in Controller \X Zones, Control(q) PROVE Next
    BY <1>3 DEF Control, Next
  <1>4. ASSUME Mediate PROVE Next
    BY <1>4 DEF Mediate, Next
  <1> QED
    BY <1>1, <1>2, <1>3, <1>4 DEF LifecycleNext

LEMMA LifecycleIsMediator == LifecycleSpec => Spec
  <1>1. LifecycleInit => Init
    BY DEF LifecycleInit
  <1>2. [LifecycleNext]_lifecycleVars => [Next]_vars
    BY LifecycleStep DEF lifecycleVars, vars
  <1> QED
    BY <1>1, <1>2, PTL DEF LifecycleSpec, Spec

\* What is known of the mediator.
MediatorInv == IInv /\ RplyInv /\ OnceInv /\ HeldBackInv

LEMMA MediatorInvariance ==
    ASSUME "cmd" \notin Redeliverable
    PROVE  LifecycleSpec => []MediatorInv
  BY LifecycleIsMediator, Invariance, RplyInvariance, OnceInvariance, HeldBackInvariance, PTL
     DEF MediatorInv

-----------------------------------------------------------------------------
(***************************************************************************)
(* The tables of the orchestrator.                                         *)
(***************************************************************************)
DB == [Request : [Cmds -> RequestRow \cup {None}],
       SFC     : [{theSFC} -> SFCRow],
       SFCI    : [{theSFCI} -> SFCIRow \cup {None}]]

\* The rows of request p and of the SFCI are written, and no other request's.
Wrote(p, reqState, sfciState) ==
    /\ db' \in DB
    /\ db'.Request[p] # None /\ db'.Request[p].state = reqState
    /\ \A r \in Cmds : r # p => db'.Request[r] = db.Request[r]
    /\ StateOfSFCI' = sfciState /\ hasSFCI(db', theSFCI)

LEMMA RequestWritten ==
    ASSUME NEW d \in DB, NEW p \in Cmds, NEW state \in RequestState, NEW cmdID \in {p},
           NEW e, e = addCmdInfo2Request(d, p, state, cmdID)
    PROVE  /\ e \in DB /\ e.SFC = d.SFC /\ e.SFCI = d.SFCI
           /\ e.Request[p] # None /\ e.Request[p].state = state
           /\ \A r \in Cmds : r # p => e.Request[r] = d.Request[r]
  <1> DEFINE row == [state |-> state, cmdID |-> p, retryCnt |-> 0]
  <1>1. row \in RequestRow /\ row # None /\ row.state = state /\ p # None
    BY NoneAssumption, MediatorAssumption DEF RequestRow
  <1>2. e = [d EXCEPT !.Request[p] = row]
    <2>1. CASE ~hasRequest(d, p)
      BY <2>1 DEF addCmdInfo2Request, addRequest
    <2>2. CASE hasRequest(d, p)
      <3>1. d.Request[p] \in RequestRow
        BY <2>2 DEF DB, hasRequest
      <3>2. e = [d EXCEPT !.Request[p].state = state, !.Request[p].cmdID = p]
        BY <2>2, <1>1 DEF addCmdInfo2Request, updateRequest
      <3>3. PICK a \in RequestState, b \in Cmds :
                 d.Request[p] = [state |-> a, cmdID |-> b, retryCnt |-> 0]
        BY <3>1 DEF RequestRow
      <3>4. [d.Request[p] EXCEPT !.state = state] =
               [state |-> state, cmdID |-> b, retryCnt |-> 0]
        BY <3>3
      <3>5. [[state |-> state, cmdID |-> b, retryCnt |-> 0] EXCEPT !.cmdID = p] = row
        OBVIOUS
      <3>6. [[d.Request[p] EXCEPT !.state = state] EXCEPT !.cmdID = p] = row
        BY <3>4, <3>5
      <3>7. e = [d EXCEPT !.Request[p] = [[@ EXCEPT !.state = state] EXCEPT !.cmdID = p]]
        BY <3>2 DEF DB
      <3> QED
        BY <3>6, <3>7 DEF DB
    <2> QED
      BY <2>1, <2>2
  <1> HIDE DEF row
  <1> QED
    BY <1>1, <1>2 DEF DB

LEMMA StateWritten ==
    ASSUME NEW d \in DB, NEW p \in Cmds, hasRequest(d, p), NEW state \in RequestState,
           NEW e, e = updateRequestState2DB(d, p, state)
    PROVE  /\ e \in DB /\ e.SFC = d.SFC /\ e.SFCI = d.SFCI
           /\ e.Request[p] # None /\ e.Request[p].state = state
           /\ \A r \in Cmds : r # p => e.Request[r] = d.Request[r]
  <1> DEFINE row == [d.Request[p] EXCEPT !.state = state]
  <1>1. d.Request[p] \in RequestRow
    BY DEF DB, hasRequest
  <1>2. row \in RequestRow /\ row.state = state
    BY <1>1 DEF RequestRow
  <1>3. row # None
    BY <1>2, NoneAssumption
  <1>4. e = [d EXCEPT !.Request[p] = row]
    BY DEF updateRequestState2DB, DB
  <1> HIDE DEF row
  <1> QED
    BY <1>2, <1>3, <1>4 DEF DB

LEMMA SFCIWritten ==
    ASSUME NEW d \in DB, hasSFCI(d, theSFCI), NEW state \in ResourceState,
           NEW e, e = updateSFCIState(d, theSFCI, state)
    PROVE  /\ e \in DB /\ e.Request = d.Request
           /\ hasSFCI(e, theSFCI) /\ e.SFCI[theSFCI].state = state
  <1> DEFINE row == [d.SFCI[theSFCI] EXCEPT !.state = state]
  <1>1. d.SFCI[theSFCI] \in SFCIRow
    BY DEF DB, hasSFCI
  <1>2. row \in SFCIRow /\ row.state = state
    BY <1>1 DEF SFCIRow
  <1>3. row # None
    BY <1>2, NoneAssumption
  <1>4. e = [d EXCEPT !.SFCI[theSFCI] = row]
    BY DEF updateSFCIState, DB
  <1> HIDE DEF row
  <1> QED
    BY <1>2, <1>3, <1>4 DEF DB, hasSFCI

LEMMA AddSFCIWrites ==
    ASSUME NEW p \in Cmds, NEW cmd, AddSFCI(p, cmd), db \in DB
    PROVE  Wrote(p, REQUEST_STATE_IN_PROCESSING, STATE_IN_PROCESSING)
  <1> DEFINE row == [state |-> STATE_IN_PROCESSING]
  <1>1. row \in SFCIRow /\ row.state = STATE_IN_PROCESSING
        /\ REQUEST_STATE_IN_PROCESSING \in RequestState
    BY DEF SFCIRow, ResourceState, RequestState
  <1>2. row # None
    BY <1>1, NoneAssumption
  <1>3. PICK d : d = [db EXCEPT !.SFCI[theSFCI] = row]
    OBVIOUS
  <1>4. db' = addCmdInfo2Request(d, p, REQUEST_STATE_IN_PROCESSING, p)
    BY <1>3 DEF AddSFCI, addSFCIRequestHandler
  <1> HIDE DEF row
  <1>5. d \in DB /\ d.Request = db.Request /\ d.SFCI[theSFCI] = row
    BY <1>1, <1>3 DEF DB
  <1>6. /\ db' \in DB /\ db'.SFCI = d.SFCI
        /\ db'.Request[p] # None /\ db'.Request[p].state = REQUEST_STATE_IN_PROCESSING
        /\ \A r \in Cmds : r # p => db'.Request[r] = d.Request[r]
    BY <1>1, <1>4, <1>5, RequestWritten
  <1> QED
    BY <1>1, <1>2, <1>5, <1>6 DEF Wrote, StateOfSFCI, hasSFCI

LEMMA DelSFCIWrites ==
    ASSUME NEW p \in Cmds, NEW cmd, DelSFCI(p, cmd), db \in DB
    PROVE  Wrote(p, REQUEST_STATE_IN_PROCESSING, STATE_IN_PROCESSING)
  <1>1. STATE_IN_PROCESSING \in ResourceState /\ REQUEST_STATE_IN_PROCESSING \in RequestState
    BY DEF ResourceState, RequestState
  <1>2. PICK d : d = addCmdInfo2Request(db, p, REQUEST_STATE_IN_PROCESSING, p)
    OBVIOUS
  <1>3. db' = updateSFCIState(d, theSFCI, STATE_IN_PROCESSING) /\ hasSFCI(db, theSFCI)
    BY <1>2 DEF DelSFCI, delSFCIRequestHandler, MayDel, isDelSFCIValidState
  <1>4. /\ d \in DB /\ d.SFCI = db.SFCI
        /\ d.Request[p] # None /\ d.Request[p].state = REQUEST_STATE_IN_PROCESSING
        /\ \A r \in Cmds : r # p => d.Request[r] = db.Request[r]
    BY <1>1, <1>2, RequestWritten
  <1>5. hasSFCI(d, theSFCI)
    BY <1>3, <1>4 DEF hasSFCI
  <1>6. /\ db' \in DB /\ db'.Request = d.Request
        /\ hasSFCI(db', theSFCI) /\ db'.SFCI[theSFCI].state = STATE_IN_PROCESSING
    BY <1>1, <1>3, <1>4, <1>5, SFCIWritten
  <1> QED
    BY <1>4, <1>6 DEF Wrote, StateOfSFCI

LEMMA CmdRplyWrites ==
    ASSUME NEW p \in Cmds, CmdRply(p), db \in DB, hasRequest(db, p), hasSFCI(db, theSFCI),
           issued[p].cmdType \in {"ADD_SFCI", "DEL_SFCI"}, Head(rplyLog[p]) \in Determined
    PROVE  Wrote(p, RequestStateAfter(Head(rplyLog[p])),
                 ResourceStateAfter(issued[p].cmdType, Head(rplyLog[p])))
  <1> DEFINE s    == Head(rplyLog[p])
             req  == [type |-> issued[p].cmdType, sfc |-> theSFC, sfci |-> theSFCI]
             done == updateRequestState2DB(db, p, RequestStateAfter(s))
             st   == ResourceStateAfter(issued[p].cmdType, s)
  <1>1. RequestStateAfter(s) \in RequestState /\ st \in ResourceState
    BY DEF RequestStateAfter, ResourceStateAfter, RequestState, ResourceState
  <1>2. /\ done \in DB /\ done.SFC = db.SFC /\ done.SFCI = db.SFCI
        /\ done.Request[p] # None /\ done.Request[p].state = RequestStateAfter(s)
        /\ \A r \in Cmds : r # p => done.Request[r] = db.Request[r]
    BY <1>1, StateWritten
  <1>3. db' = cmdRplyHandler(db, p, req, s)
    BY DEF CmdRply
  <1> HIDE DEF done, st, s
  <1>4. PICK d : d \in DB /\ d.Request = done.Request /\ d.SFCI = done.SFCI
                 /\ db' = updateSFCIState(d, theSFCI, st)
    <2>1. CASE issued[p].cmdType = "DEL_SFCI"
      <3>1. db' = updateSFCIState(done, theSFCI, st)
        BY <2>1, <1>3 DEF cmdRplyHandler, done, st
      <3> QED
        BY <3>1, <1>2
    <2>2. CASE issued[p].cmdType = "ADD_SFCI"
      <3>1. db.SFC[theSFC] \in SFCRow
        BY DEF DB
      <3>2. ~CmdRplyRaises(db, req)
        BY <3>1, NoneAssumption DEF CmdRplyRaises, hasSFC
      <3>3. db' = updateSFCIState(addSFCI2SFCInDB(done, theSFCI), theSFCI, st)
        BY <2>2, <1>3, <3>2 DEF cmdRplyHandler, done, st
      <3>4. theSFCI[1] = theSFC
        BY DEF theSFCI
      <3>5. PICK row : row = [done.SFC[theSFC] EXCEPT !.sfciIDList = @ \cup {theSFCI}]
        OBVIOUS
      <3>6. row \in SFCRow
        BY <3>1, <3>5, <1>2 DEF SFCRow
      <3>7. addSFCI2SFCInDB(done, theSFCI) = [done EXCEPT !.SFC[theSFC] = row]
        BY <3>4, <3>5, <1>2 DEF addSFCI2SFCInDB, DB
      <3>8. /\ addSFCI2SFCInDB(done, theSFCI) \in DB
            /\ addSFCI2SFCInDB(done, theSFCI).Request = done.Request
            /\ addSFCI2SFCInDB(done, theSFCI).SFCI = done.SFCI
        BY <3>6, <3>7, <1>2 DEF DB
      <3> QED
        BY <3>3, <3>8
    <2> QED
      BY <2>1, <2>2
  <1>5. hasSFCI(d, theSFCI)
    BY <1>2, <1>4 DEF hasSFCI
  <1>6. /\ db' \in DB /\ db'.Request = d.Request
        /\ hasSFCI(db', theSFCI) /\ db'.SFCI[theSFCI].state = st
    BY <1>1, <1>4, <1>5, SFCIWritten
  <1> QED
    BY <1>2, <1>4, <1>6 DEF Wrote, StateOfSFCI, s, st
-----------------------------------------------------------------------------
(***************************************************************************)
(* The invariants.                                                         *)
(***************************************************************************)
\* The SFCI lies in one zone, which has an SFF and a VNF controller.
OneZone == Zones \in {{"TURBONET_ZONE"}, {"PUFFER_ZONE"}}

theZone    == CHOOSE z \in Zones : TRUE
QueueOf(n) == controllerQueue[<<n, theZone>>]

Adds(p) == issued[p].cmdType = "ADD_SFCI"
Dels(p) == issued[p].cmdType = "DEL_SFCI"

\* The orchestrator waits for the answer to command p.
Open(p)  == db.Request[p] # None /\ db.Request[p].state = REQUEST_STATE_IN_PROCESSING
OpenCmds == {p \in Cmds : Open(p)}

\* The row of the SFCI is IN_PROCESSING while one command, and only one, is open.
TableInv ==
    /\ db \in DB
    /\ \A p \in Cmds : issued[p] # None => Adds(p) \/ Dels(p)
    /\ \A p \in Cmds : issued[p] = None <=> db.Request[p] = None
    /\ \A p, r \in Cmds : Open(p) /\ Open(r) => p = r
    /\ (\E p \in Cmds : Open(p)) <=> StateOfSFCI = STATE_IN_PROCESSING
    /\ \A p \in Cmds : issued[p] # None /\ ~Open(p) => rplyLog[p] # <<>>

\* In sequence s only children of p come after a child of p, if p is in T.
OrderedBy(s, T) ==
    \A i, j \in 1..Len(s) : i < j /\ s[i][1] \in T => s[j][1] = s[i][1]

\* The children of the open command are the last in every queue.
OrderInv ==
    \A q \in Controller \X Zones :
        /\ OrderedBy(controllerQueue[q], OpenCmds)
        /\ \A c \in Elems(controllerQueue[q]) : c[2] = q[1]

\* Controller n carried out a child of command p.
ActedOn(p, n) == \E o \in outcomes : o[1][1] = p /\ o[1][2] = n

\* Once a controller has carried out the child of the open command, it has none
\* but that command's before it, and its table is as the command wants it.
ActedInv ==
    \A p \in Cmds : Open(p) =>
        /\ \A n \in Controller : ActedOn(p, n) => \A c \in Elems(QueueOf(n)) : c[1] = p
        /\ ActedOn(p, SFF) => (sffSFCI <=> Adds(p))
        /\ ActedOn(p, VNF) => (vnfSFCI = "absent" <=> Dels(p))

\* The tables are as commands of the type make them, and will stay so.
Done(cmdType) ==
    /\ sffSFCI <=> cmdType = "ADD_SFCI"
    /\ vnfSFCI = "absent" <=> cmdType = "DEL_SFCI"
    /\ \A n \in {SFF, VNF} : \A c \in Elems(QueueOf(n)) : issued[c[1]].cmdType = cmdType

SettledInv ==
    /\ StateOfSFCI = STATE_ACTIVE  => Done("ADD_SFCI")
    /\ StateOfSFCI = STATE_DELETED => Done("DEL_SFCI")

LEMMA ZoneLemma == OneZone => Zones = {theZone} /\ theZone \in {"TURBONET_ZONE", "PUFFER_ZONE"}
  BY DEF OneZone, theZone

LEMMA SFCIChildrenLemma ==
    ASSUME OneZone, NEW cmd \in Command, cmd.cmdType \in {"ADD_SFCI", "DEL_SFCI"}
    PROVE  /\ SFF \in Controller /\ VNF \in Controller /\ SFF # VNF
           /\ SFF \in ForwardedTo(cmd)
           /\ SFF \in Children(cmd) /\ VNF \in Children(cmd)
           /\ VNF \in ForwardedTo(cmd) <=> cmd.cmdType = "DEL_SFCI"
           /\ cmd.zone = theZone
  <1>1. cmd.zone = theZone /\ cmd.zone \in {"TURBONET_ZONE", "PUFFER_ZONE"}
    BY ZoneLemma DEF Command
  <1>2. SFF # VNF /\ SFF \in Controller /\ VNF \in Controller /\ VNF # P4 /\ VNF # NETWORK
        /\ VNF \notin Classifiers
    BY DEF SFF, VNF, P4, NETWORK, CLASSIFIER, Controller, Classifiers
  <1>3. CASE cmd.cmdType = "ADD_SFCI"
    <2>1. PreparedFor(cmd) = {VNF}
      BY <1>1, <1>3 DEF PreparedFor
    <2>2. ForwardedTo(cmd) \in {{SFF, P4}, Classifiers \cup {SFF, NETWORK}}
      BY <1>1, <1>3 DEF ForwardedTo, TurbonetTargets, PufferTargets
    <2> QED
      BY <1>1, <1>2, <1>3, <2>1, <2>2 DEF Children
  <1>4. CASE cmd.cmdType = "DEL_SFCI"
    <2>1. ForwardedTo(cmd) \in {{SFF, P4, VNF}, Classifiers \cup {SFF, NETWORK, VNF}}
      BY <1>1, <1>4 DEF ForwardedTo, TurbonetTargets, PufferTargets
    <2> QED
      BY <1>1, <1>2, <1>4, <2>1 DEF Children
  <1> QED
    BY <1>3, <1>4
-----------------------------------------------------------------------------
(***************************************************************************)
(* What a step does.                                                       *)
(***************************************************************************)
\* An answer is the first one to its command.
LEMMA RplyCases ==
    ASSUME MediatorInv, [Next]_vars
    PROVE  \/ UNCHANGED rplyLog
           \/ \E p \in Cmds, s \in Determined :
                 /\ rplyLog[p] = <<>> /\ RplyOK(p, s)
                 /\ rplyLog' = [rplyLog EXCEPT ![p] = <<s>>]
                 /\ s = CMD_STATE_SUCCESSFUL => LastSuccess /\ p = ParentOfRply
                 /\ UNCHANGED <<controllerQueue, issued, handled, outcomes, redeliveries, losses>>
  <1>0. IInv /\ RplyInv /\ OnceInv /\ rplyLog \in [Cmds -> Seq(Determined)]
    BY DEF MediatorInv, IInv, TypeOK
  <1>1. CASE LastSuccess /\ Answers(ParentOfRply, CMD_STATE_SUCCESSFUL)
    <2>1. PICK p : p = ParentOfRply
      OBVIOUS
    <2>2. p \in Cmds /\ rplyLog[p] = <<>> /\ RplyOK(p, CMD_STATE_SUCCESSFUL)
      BY <1>0, <1>1, <2>1, UnansweredLemma, LastSuccessAnswers
    <2>3. rplyLog' = [rplyLog EXCEPT ![p] = <<CMD_STATE_SUCCESSFUL>>]
      BY <1>0, <1>1, <2>1, <2>2 DEF Answers
    <2> QED
      BY <1>1, <2>1, <2>2, <2>3 DEF LastSuccess, Determined
  <1>2. CASE FirstFailure /\ Answers(ParentOfRply, CMD_STATE_FAIL)
    <2>1. PICK p : p = ParentOfRply
      OBVIOUS
    <2>2. p \in Cmds /\ rplyLog[p] = <<>> /\ RplyOK(p, CMD_STATE_FAIL)
      BY <1>0, <1>2, <2>1, UnansweredLemma, FirstFailureAnswers
    <2>3. rplyLog' = [rplyLog EXCEPT ![p] = <<CMD_STATE_FAIL>>]
      BY <1>0, <1>2, <2>1, <2>2 DEF Answers
    <2>4. CMD_STATE_FAIL # CMD_STATE_SUCCESSFUL
      BY DEF CMD_STATE_FAIL, CMD_STATE_SUCCESSFUL
    <2> QED
      BY <1>2, <2>1, <2>2, <2>3, <2>4 DEF FirstFailure, Determined
  <1> QED
    BY <1>0, <1>1, <1>2, AnswerLemma

\* The children of command p are sent to the controllers, or that one which was held back.
Forwards(p, k) ==
    /\ rplyLog[p] = <<>> /\ issued[p] \in Command /\ handled[p] = 0 /\ k = 1
    /\ \A q \in Controller \X Zones :
          controllerQueue'[q] = IF q[1] \in ForwardedTo(issued[p]) /\ q[2] = issued[p].zone
                                THEN Append(controllerQueue[q], <<p, q[1], k>>)
                                ELSE controllerQueue[q]
    /\ UNCHANGED <<rplyLog, losses, redeliveries>>

Releases(p, c) ==
    /\ rplyLog[p] = <<>> /\ issued[p] \in Command
    /\ c = <<p, VNF, handled[p]>> /\ c \in ChildID /\ HeldBack(c) /\ HasSFF(c)
    /\ \A q \in Controller \X Zones : c \notin Elems(controllerQueue[q])
    /\ \A o \in outcomes : o[1] # c
    /\ \A q \in Controller \X Zones :
          controllerQueue'[q] = IF q = <<VNF, issued[p].zone>>
                                THEN Append(controllerQueue[q], c)
                                ELSE controllerQueue[q]
    /\ UNCHANGED <<rplyLog, losses, redeliveries>>

Repeats(q) ==
    /\ controllerQueue[q] # <<>>
    /\ controllerQueue' = [controllerQueue EXCEPT ![q] = <<Head(@)>> \o @]
    /\ UNCHANGED <<rplyLog, losses>>
    /\ redeliveries' = redeliveries + 1

Drops(q) ==
    /\ controllerQueue[q] # <<>>
    /\ controllerQueue' = [controllerQueue EXCEPT ![q] = Tail(@)]

LEMMA ForwardCmdForwards ==
    ASSUME MediatorInv, ForwardCmd
    PROVE  \E p \in Cmds : Forwards(p, 1)
  <1>0. IInv /\ RplyInv /\ FirstDelivery /\ rplyLog \in [Cmds -> Seq(Determined)]
        /\ controllerQueue \in [Controller \X Zones -> Seq(ChildID)]
    BY DEF MediatorInv, OnceInv, IInv, TypeOK
  <1>1. PICK p : p = Head(mediatorQueue).cmdID
    OBVIOUS
  <1>2. p \in Cmds /\ handled[p] = 0
    BY <1>0, <1>1, HandleOthersLemma, HandleFirstDelivery
  <1>3. issued[p] \in Command
    <2>1. /\ mediatorQueue # <<>> /\ Head(mediatorQueue).type = "cmd"
          /\ mediatorQueue \in Seq(MediatorMsg)
      BY <1>0 DEF ForwardCmd, Take, IInv, TypeOK
    <2>2. Head(mediatorQueue) \in Elems(mediatorQueue)
      BY <2>1, TakeLemma
    <2> QED
      BY <1>0, <1>1, <2>1, <2>2 DEF IInv, QueueInv, MsgOK
  <1>4. rplyLog[p] = <<>>
    <2>1. SUFFICES ASSUME rplyLog[p] # <<>> PROVE FALSE
      OBVIOUS
    <2>2. rplyLog[p][1] \in Elems(rplyLog[p])
      BY <1>0, <1>2, <2>1 DEF Elems
    <2> QED
      BY <1>0, <1>2, <2>2 DEF RplyInv, RplyOK
  <1>5. \A q \in Controller \X Zones :
          controllerQueue'[q] = IF q[1] \in ForwardedTo(issued[p]) /\ q[2] = issued[p].zone
                                THEN Append(controllerQueue[q], <<p, q[1], 1>>)
                                ELSE controllerQueue[q]
    BY <1>1, <1>2 DEF ForwardCmd
  <1>6. UNCHANGED <<rplyLog, losses, redeliveries>>
    BY DEF ForwardCmd
  <1> QED
    BY <1>2, <1>3, <1>4, <1>5, <1>6 DEF Forwards

LEMMA PartialSuccessReleases ==
    ASSUME MediatorInv, PartialSuccess
    PROVE  \/ UNCHANGED <<controllerQueue, losses, redeliveries>>
           \/ \E p \in Cmds : \E c \in ChildID : Releases(p, c)
  <1>0. PICK m, p, info : /\ m = Head(mediatorQueue)
                          /\ p = ParentOfRply
                          /\ info = Recorded(m)
    OBVIOUS
  <1>inv. IInv /\ RplyInv /\ OnceInv /\ HeldBackInv
         /\ controllerQueue \in [Controller \X Zones -> Seq(ChildID)]
    BY DEF MediatorInv, IInv, TypeOK
  <1>1. NewRply /\ p \in DOMAIN commandsInfo
    BY <1>0 DEF PartialSuccess, hasCmd
  <1>2. /\ TableOK(info) /\ p \in Cmds \cap DOMAIN info /\ DOMAIN info = DOMAIN commandsInfo
        /\ issued[p] \in Command /\ ForwardedTo(issued[p]) # {}
        /\ m \in RplyMsg /\ m.cmdID \in DOMAIN commandsInfo
        /\ m.cmdState \in Determined /\ <<m.cmdID, m.cmdState>> \in outcomes
    BY <1>0, <1>inv, <1>1, NewRplyLemma
  <1>3. UNCHANGED <<rplyLog, losses, redeliveries>>
    BY DEF PartialSuccess
  <1>4. CASE ReleasesVNF(info, p)
    <2>0. PICK c, q : c = <<p, VNF, handled[p]>> /\ q = <<VNF, info[p].cmd.zone>>
      OBVIOUS
    <2>1. /\ info[p].childCmdID[VNF] = c /\ c \in ChildID \cap DOMAIN info /\ SentOK(c)
          /\ q \in Controller \X Zones /\ info[c].state = CMD_STATE_WAITING
      BY <1>2, <1>4, <2>0, <1>inv, ReleaseLemma
    <2>2. controllerQueue' = [controllerQueue EXCEPT ![q] = Append(@, c)]
      BY <1>0, <1>4, <2>0, <2>1 DEF PartialSuccess
    <2>3. info[p].cmd = issued[p]
      BY <1>2 DEF TableOK, ParentEntryOK
    <2>4. HeldBack(c) /\ HasSFF(c)
      <3>1. ChildEntryOK(info, c)
        BY <1>2, <2>1 DEF TableOK
      <3> QED
        BY <2>1, <3>1 DEF ChildEntryOK, SentOK
    <2>5. c # m.cmdID
      <3>1. info[m.cmdID].state = m.cmdState
        BY <1>0, <1>inv, <1>2, RecordLemma DEF IInv
      <3> QED
        BY <1>2, <2>1, <3>1 DEF Determined, CMD_STATE_WAITING, CMD_STATE_SUCCESSFUL, CMD_STATE_FAIL
    <2>6. c \in DOMAIN commandsInfo /\ commandsInfo[c].state = CMD_STATE_WAITING
      BY <1>0, <1>inv, <1>2, <2>1, <2>5, RecordLemma DEF IInv
    <2>7. /\ \A x \in Controller \X Zones : c \notin Elems(controllerQueue[x])
          /\ \A o \in outcomes : o[1] # c
      BY <1>inv, <2>6 DEF HeldBackInv
    <2>8. rplyLog[p] = <<>>
      BY <1>0, <1>inv, UnansweredLemma
    <2>9. \A x \in Controller \X Zones :
             controllerQueue'[x] = IF x = <<VNF, issued[p].zone>>
                                   THEN Append(controllerQueue[x], c)
                                   ELSE controllerQueue[x]
      BY <1>inv, <2>0, <2>1, <2>2, <2>3
    <2> QED
      BY <1>2, <1>3, <2>0, <2>1, <2>4, <2>7, <2>8, <2>9 DEF Releases
  <1>5. CASE ~ReleasesVNF(info, p)
    BY <1>0, <1>3, <1>5 DEF PartialSuccess
  <1> QED
    BY <1>4, <1>5

LEMMA MediateCases ==
    ASSUME MediatorInv, Mediate
    PROVE  /\ UNCHANGED <<issued, outcomes, db, sffSFCI, vnfSFCI>>
           /\ \/ \E p \in Cmds : Forwards(p, 1)
              \/ \E p \in Cmds : \E c \in ChildID : Releases(p, c)
              \/ UNCHANGED <<controllerQueue, losses>>
              \/ \E q \in Controller \X Zones : Repeats(q)
              \/ losses' = losses + 1 /\ UNCHANGED <<rplyLog, controllerQueue>>
              \/ losses' = losses + 1 /\ UNCHANGED rplyLog
                 /\ \E q \in Controller \X Zones : Drops(q)
  <1>1. UNCHANGED <<db, sffSFCI, vnfSFCI>> /\ (StartMediator \/ Redeliver \/ LoseMsg)
    BY DEF Mediate
  <1>2. UNCHANGED <<issued, outcomes>>
    BY <1>1 DEF StartMediator, CommandReplyHandler, ForwardCmd, RejectCmd, DropRply, LastSuccess,
                FirstFailure, AfterFailure, PartialSuccess, Redeliver, LoseMsg
  <1>3. CASE ForwardCmd
    BY <1>1, <1>2, <1>3, ForwardCmdForwards
  <1>4. CASE RejectCmd \/ DropRply \/ LastSuccess \/ FirstFailure \/ AfterFailure
    BY <1>1, <1>2, <1>4 DEF RejectCmd, DropRply, LastSuccess, FirstFailure, AfterFailure
  <1>5. CASE PartialSuccess
    BY <1>1, <1>2, <1>5, PartialSuccessReleases
  <1>6. CASE Redeliver
    BY <1>1, <1>2, <1>6 DEF Redeliver, Repeats
  <1>7. CASE LoseMsg
    BY <1>1, <1>2, <1>7 DEF LoseMsg, Drops
  <1> QED
    BY <1>1, <1>3, <1>4, <1>5, <1>6, <1>7 DEF StartMediator, CommandReplyHandler

\* A controller carries out child c with the outcome s.
Carries(q, c, s) ==
    /\ c \in ChildID /\ s \in Determined /\ c = Head(controllerQueue[q])
    /\ c \in Elems(controllerQueue[q]) /\ controllerQueue[q] # <<>>
    /\ IsChildOf(c, c[1])
    /\ controllerQueue' = [controllerQueue EXCEPT ![q] = Tail(@)]
    /\ outcomes' = outcomes \cup {<<c, s>>}
    /\ mediatorQueue' = Append(mediatorQueue, [type |-> "rply", cmdID |-> c, cmdState |-> s])
    /\ Succeeds <=> s = CMD_STATE_SUCCESSFUL
    /\ q[1] = SFF => SFFTable(issued[c[1]].cmdType)
    /\ q[1] = VNF => VNFTable(issued[c[1]].cmdType)
    /\ q[1] \notin {SFF, VNF} => UNCHANGED <<sffSFCI, vnfSFCI>>
    /\ UNCHANGED <<db, commandsInfo, issued, handled, rplyLog, redeliveries, losses>>

LEMMA ControlCarries ==
    ASSUME MediatorInv, NEW q \in Controller \X Zones, Control(q)
    PROVE  \E c \in ChildID, s \in Determined : Carries(q, c, s)
  <1>0. IInv /\ controllerQueue[q] \in Seq(ChildID) /\ mediatorQueue \in Seq(MediatorMsg)
        /\ controllerQueue[q] # <<>> /\ issued \in [Cmds -> Command \cup {None}]
    BY DEF MediatorInv, IInv, TypeOK, Control, ControllerStep
  <1>1. PICK c : c = Head(controllerQueue[q])
    OBVIOUS
  <1>2. c \in ChildID /\ c \in Elems(controllerQueue[q])
    BY <1>0, <1>1, TakeLemma
  <1>3. IsChildOf(c, c[1])
    BY <1>0, <1>2 DEF IInv, QueueInv, SentOK
  <1>4. PICK s \in Outcome(c[2], issued[c[1]]) :
           /\ outcomes' = outcomes \cup {<<c, s>>}
           /\ mediatorQueue' = Append(mediatorQueue, [type |-> "rply", cmdID |-> c, cmdState |-> s])
    BY <1>1 DEF Control, ControllerStep
  <1>5. s \in Determined
    BY <1>3, <1>4, OutcomeLemma DEF IsChildOf
  <1>6. Succeeds <=> s = CMD_STATE_SUCCESSFUL
    <2> DEFINE m == [type |-> "rply", cmdID |-> c, cmdState |-> s]
    <2>1. m \in MediatorMsg /\ m.cmdState = s
      BY <1>2, <1>5 DEF MediatorMsg, RplyMsg
    <2> HIDE DEF m
    <2>2. mediatorQueue' = Append(mediatorQueue, m)
      BY <1>4 DEF m
    <2>3. mediatorQueue'[Len(mediatorQueue')] = m
      BY <1>0, <2>1, <2>2
    <2> QED
      BY <2>1, <2>3 DEF Succeeds, Last
  <1>7. /\ controllerQueue' = [controllerQueue EXCEPT ![q] = Tail(@)]
        /\ UNCHANGED <<db, commandsInfo, issued, handled, rplyLog, redeliveries, losses>>
    BY DEF Control, ControllerStep
  <1>8. SFF # VNF
    BY DEF SFF, VNF
  <1>9. /\ q[1] = SFF => SFFTable(issued[c[1]].cmdType)
        /\ q[1] = VNF => VNFTable(issued[c[1]].cmdType)
        /\ q[1] \notin {SFF, VNF} => UNCHANGED <<sffSFCI, vnfSFCI>>
    BY <1>1, <1>8 DEF Control
  <1> QED
    BY <1>0, <1>1, <1>2, <1>3, <1>4, <1>5, <1>6, <1>7, <1>9 DEF Carries

LEMMA RowNoneLemma ==
    ASSUME db \in DB
    PROVE  /\ StateOfSFCI # None <=> hasSFCI(db, theSFCI)
           /\ hasSFCI(db, theSFCI) => StateOfSFCI = db.SFCI[theSFCI].state
  <1>1. db.SFCI[theSFCI] \in SFCIRow \cup {None}
    BY DEF DB
  <1>2. CASE hasSFCI(db, theSFCI)
    <2>1. StateOfSFCI = db.SFCI[theSFCI].state /\ db.SFCI[theSFCI].state \in ResourceState
      BY <1>1, <1>2 DEF StateOfSFCI, hasSFCI, SFCIRow
    <2> QED
      BY <1>2, <2>1, NoneAssumption
  <1>3. CASE ~hasSFCI(db, theSFCI)
    BY <1>3 DEF StateOfSFCI
  <1> QED
    BY <1>2, <1>3

\* A command that is open was issued, is answered at most, and the row waits for it.
LEMMA OpenLemma ==
    ASSUME TableInv, NEW p \in Cmds, Open(p)
    PROVE  /\ issued[p] # None /\ (Adds(p) \/ Dels(p))
           /\ StateOfSFCI = STATE_IN_PROCESSING /\ hasSFCI(db, theSFCI)
           /\ OpenCmds = {p}
  <1>1. STATE_IN_PROCESSING \in ResourceState
    BY DEF ResourceState
  <1> QED
    BY <1>1, RowNoneLemma, NoneAssumption DEF TableInv, OpenCmds, Open

\* The orchestrator's answer is the one the mediator gave to the open command.
LEMMA CmdRplyLemma ==
    ASSUME MediatorInv, TableInv, NEW p \in Cmds, CmdRply(p)
    PROVE  /\ Open(p) /\ Head(rplyLog[p]) \in Determined
           /\ RplyOK(p, Head(rplyLog[p])) /\ rplyLog[p] = <<Head(rplyLog[p])>>
           /\ Wrote(p, RequestStateAfter(Head(rplyLog[p])),
                    ResourceStateAfter(issued[p].cmdType, Head(rplyLog[p])))
           /\ UNCHANGED <<vars, sffSFCI, vnfSFCI>>
  <1>1. /\ rplyLog[p] # <<>> /\ rplyLog[p] \in Seq(Determined) /\ issued[p] \in Command \cup {None}
        /\ RplyInv /\ AnsweredInv /\ UNCHANGED <<vars, sffSFCI, vnfSFCI>>
        /\ db.Request[p].state = REQUEST_STATE_IN_PROCESSING
    BY DEF MediatorInv, OnceInv, IInv, TypeOK, CmdRply
  <1>2. /\ Head(rplyLog[p]) \in Determined /\ Head(rplyLog[p]) \in Elems(rplyLog[p])
        /\ rplyLog[p] = <<Head(rplyLog[p])>>
    <2>1. Len(rplyLog[p]) = 1
      BY <1>1 DEF AnsweredInv
    <2> QED
      BY <1>1, <2>1, TakeLemma
  <1>3. RplyOK(p, Head(rplyLog[p]))
    BY <1>1, <1>2 DEF RplyInv
  <1>4. issued[p] # None
    BY <1>3, MediatorAssumption DEF RplyOK
  <1>5. Open(p)
    BY <1>1, <1>4 DEF Open, TableInv
  <1>6. hasRequest(db, p) /\ hasSFCI(db, theSFCI) /\ issued[p].cmdType \in {"ADD_SFCI", "DEL_SFCI"}
    BY <1>5, OpenLemma DEF Open, hasRequest, Adds, Dels
  <1> QED
    BY <1>1, <1>2, <1>3, <1>5, <1>6, CmdRplyWrites DEF TableInv

\* The orchestrator sends a command only while none is open.
Sends(p, cmd) ==
    /\ cmd \in Command /\ issued[p] = None /\ issued' = [issued EXCEPT ![p] = cmd]
    /\ cmd.cmdType = "ADD_SFCI" =>
          StateOfSFCI \in {None, STATE_DELETED, STATE_INIT_FAILED}
    /\ cmd.cmdType = "DEL_SFCI" =>
          StateOfSFCI \in {STATE_ACTIVE, STATE_INACTIVE, STATE_UNDELETED}
    /\ cmd.cmdType \in {"ADD_SFCI", "DEL_SFCI"}
    /\ Wrote(p, REQUEST_STATE_IN_PROCESSING, STATE_IN_PROCESSING)
    /\ mediatorQueue' = Append(mediatorQueue, [type |-> "cmd", cmdID |-> p])
    /\ UNCHANGED <<commandsInfo, controllerQueue, handled, rplyLog, outcomes, redeliveries,
                   losses, sffSFCI, vnfSFCI>>

LEMMA SendsLemma ==
    ASSUME TableInv, NEW p \in Cmds, NEW cmd \in Command, AddSFCI(p, cmd) \/ DelSFCI(p, cmd)
    PROVE  Sends(p, cmd) /\ OpenCmds = {}
  <1>0. db \in DB /\ STATE_IN_PROCESSING # None
    BY NoneAssumption DEF TableInv, ResourceState
  <1>1. CASE AddSFCI(p, cmd)
    <2>1. StateOfSFCI \in {None, STATE_DELETED, STATE_INIT_FAILED}
      BY <1>0, <1>1, RowNoneLemma DEF AddSFCI, isAddSFCIValidState, Absent
    <2>2. OpenCmds = {}
      BY <1>0, <2>1 DEF TableInv, OpenCmds, STATE_DELETED, STATE_INIT_FAILED, STATE_IN_PROCESSING
    <2> QED
      BY <1>0, <1>1, <2>1, <2>2, AddSFCIWrites DEF AddSFCI, SendCmd, Sends
  <1>2. CASE DelSFCI(p, cmd)
    <2>1. StateOfSFCI \in {STATE_ACTIVE, STATE_INACTIVE, STATE_UNDELETED}
      BY <1>0, <1>2, RowNoneLemma DEF DelSFCI, MayDel, isDelSFCIValidState
    <2>2. OpenCmds = {}
      BY <2>1 DEF TableInv, OpenCmds, STATE_ACTIVE, STATE_INACTIVE, STATE_UNDELETED,
                  STATE_IN_PROCESSING
    <2> QED
      BY <1>0, <1>2, <2>1, <2>2, DelSFCIWrites DEF DelSFCI, SendCmd, Sends
  <1> QED
    BY <1>1, <1>2

\* The steps of the system.
LEMMA StepCases ==
    ASSUME MediatorInv, TableInv, [LifecycleNext]_lifecycleVars
    PROVE  \/ \E p \in Cmds, cmd \in Command : Sends(p, cmd) /\ OpenCmds = {}
           \/ \E p \in Cmds : CmdRply(p)
           \/ \E q \in Controller \X Zones, c \in ChildID, s \in Determined : Carries(q, c, s)
           \/ Mediate
           \/ UNCHANGED lifecycleVars
  <1>1. ASSUME NEW q \in Controller \X Zones, Control(q)
        PROVE  \E c \in ChildID, s \in Determined : Carries(q, c, s)
    BY <1>1, ControlCarries
  <1> QED
    BY <1>1, SendsLemma DEF LifecycleNext

-----------------------------------------------------------------------------
(***************************************************************************)
(* One command at a time.                                                  *)
(***************************************************************************)
LEMMA InitTableInv == LifecycleInit => TableInv
  <1> SUFFICES ASSUME LifecycleInit PROVE TableInv
    OBVIOUS
  <1>1. db \in DB
    BY DEF LifecycleInit, DB, SFCRow
  <1>2. \A p \in Cmds : issued[p] = None /\ db.Request[p] = None
    BY DEF LifecycleInit, Init
  <1>3. StateOfSFCI = None
    BY DEF LifecycleInit, StateOfSFCI, hasSFCI
  <1>4. STATE_IN_PROCESSING # None
    BY NoneAssumption DEF ResourceState
  <1> QED
    BY <1>1, <1>2, <1>3, <1>4 DEF TableInv, Open

LEMMA NextTableInv ==
    ASSUME MediatorInv, TableInv, [LifecycleNext]_lifecycleVars
    PROVE  TableInv'
  <1>0. /\ rplyLog \in [Cmds -> Seq(Determined)] /\ issued \in [Cmds -> Command \cup {None}]
        /\ [Next]_vars
    BY LifecycleStep DEF MediatorInv, IInv, TypeOK, lifecycleVars, vars
  <1>1. ASSUME NEW p \in Cmds, NEW cmd \in Command, Sends(p, cmd), OpenCmds = {}
        PROVE  TableInv'
    <2>1. cmd # None
      BY MediatorAssumption
    <2>2. \A r \in Cmds : r # p => issued'[r] = issued[r] /\ (Open(r)' <=> Open(r))
      BY <1>0, <1>1 DEF Sends, Wrote, Open
    <2>3. Open(p)' /\ issued'[p] = cmd /\ \A r \in Cmds : ~Open(r)
      BY <1>0, <1>1 DEF Sends, Wrote, Open, OpenCmds
    <2>4. db' \in DB /\ StateOfSFCI' = STATE_IN_PROCESSING /\ UNCHANGED rplyLog
      BY <1>1 DEF Sends, Wrote
    <2>5. \A r \in Cmds : r # p => (db'.Request[r] = db.Request[r])
      BY <1>1 DEF Sends, Wrote
    <2>6. db'.Request[p] # None
      BY <1>1 DEF Sends, Wrote
    <2>7. \A r \in Cmds : issued'[r] # None => Adds(r)' \/ Dels(r)'
      BY <1>1, <2>2, <2>3 DEF Sends, TableInv, Adds, Dels
    <2>8. \A r \in Cmds : issued'[r] = None <=> db'.Request[r] = None
      BY <2>1, <2>2, <2>3, <2>5, <2>6 DEF TableInv
    <2>9. \A r \in Cmds : issued'[r] # None /\ ~Open(r)' => rplyLog'[r] # <<>>
      BY <2>2, <2>3, <2>4 DEF TableInv
    <2> QED
      BY <2>2, <2>3, <2>4, <2>7, <2>8, <2>9 DEF TableInv
  <1>2. ASSUME NEW p \in Cmds, CmdRply(p) PROVE TableInv'
    <2>1. /\ Open(p) /\ rplyLog[p] # <<>> /\ Head(rplyLog[p]) \in Determined
          /\ Wrote(p, RequestStateAfter(Head(rplyLog[p])),
                   ResourceStateAfter(issued[p].cmdType, Head(rplyLog[p])))
          /\ UNCHANGED <<issued, rplyLog>>
      BY <1>2, CmdRplyLemma DEF vars
    <2>2. /\ RequestStateAfter(Head(rplyLog[p])) # REQUEST_STATE_IN_PROCESSING
      BY DEF RequestStateAfter, REQUEST_STATE_IN_PROCESSING, REQUEST_STATE_SUCCESSFUL,
             REQUEST_STATE_FAILED
    <2>3. ResourceStateAfter(issued[p].cmdType, Head(rplyLog[p])) # STATE_IN_PROCESSING
      BY <2>1, OpenLemma DEF ResourceStateAfter, STATE_IN_PROCESSING, STATE_ACTIVE,
             STATE_INIT_FAILED, STATE_DELETED, STATE_UNDELETED, Adds, Dels
    <2>4. /\ ~Open(p)' /\ db'.Request[p] # None /\ db' \in DB
          /\ StateOfSFCI' # STATE_IN_PROCESSING
          /\ \A r \in Cmds : r # p => db'.Request[r] = db.Request[r]
      BY <2>1, <2>2, <2>3 DEF Wrote, Open
    <2>5. \A r \in Cmds : ~Open(r)'
      BY <2>1, <2>4, OpenLemma DEF Open, OpenCmds
    <2>6. \A r \in Cmds : issued[r] # None => rplyLog[r] # <<>>
      BY <2>1, OpenLemma DEF TableInv, OpenCmds
    <2>7. \A r \in Cmds : issued[r] = None <=> db'.Request[r] = None
      BY <2>1, <2>4, OpenLemma DEF TableInv
    <2> QED
      BY <2>1, <2>4, <2>5, <2>6, <2>7 DEF TableInv, Adds, Dels
  <1>3. ASSUME UNCHANGED <<db, issued>> PROVE TableInv'
    <2>1. \A r \in Cmds : rplyLog[r] # <<>> => rplyLog'[r] # <<>>
      BY <1>0, RplyCases
    <2> QED
      BY <1>3, <2>1 DEF TableInv, Open, Adds, Dels, StateOfSFCI, hasSFCI
  <1> QED
    BY <1>1, <1>2, <1>3, StepCases, MediateCases DEF Carries, lifecycleVars, vars
-----------------------------------------------------------------------------
(***************************************************************************)
(* The children of the open command come last.                             *)
(***************************************************************************)
LEMMA OrderedLemma ==
    ASSUME NEW T, NEW s \in Seq(ChildID), OrderedBy(s, T)
    PROVE  /\ s # <<>> => OrderedBy(Tail(s), T) /\ OrderedBy(<<Head(s)>> \o s, T)
           /\ \A c \in ChildID : T \subseteq {c[1]} => OrderedBy(Append(s, c), T)
  <1>1. ASSUME s # <<>> PROVE OrderedBy(Tail(s), T)
    <2>1. \A i \in 1..Len(Tail(s)) : i + 1 \in 1..Len(s) /\ Tail(s)[i] = s[i + 1]
      BY <1>1, TakeLemma
    <2>2. Len(Tail(s)) \in Nat /\ Len(s) \in Nat
      BY <1>1
    <2>3. \A i, j \in 1..Len(Tail(s)) : i < j => i + 1 < j + 1
      BY <2>2
    <2> QED
      BY <2>1, <2>3 DEF OrderedBy
  <1>2. ASSUME s # <<>> PROVE OrderedBy(<<Head(s)>> \o s, T)
    <2>1. PICK t : t = <<Head(s)>> \o s
      OBVIOUS
    <2>2. \A i \in 1..Len(t) :
             \/ i = 1 /\ t[i] = s[1] /\ 1 \in 1..Len(s)
             \/ i # 1 /\ i - 1 \in 1..Len(s) /\ t[i] = s[i - 1]
      BY <1>2, <2>1, RedeliverLemma
    <2>3. t \in Seq(ChildID) /\ Len(t) \in Nat /\ Len(s) \in Nat
      BY <1>2, <2>1, RedeliverLemma
    <2> SUFFICES ASSUME NEW i \in 1..Len(t), NEW j \in 1..Len(t), i < j, t[i][1] \in T
                 PROVE  t[j][1] = t[i][1]
      BY <2>1 DEF OrderedBy
    <2>4. j # 1 /\ j - 1 \in 1..Len(s) /\ t[j] = s[j - 1]
      BY <2>2, <2>3
    <2>5. CASE i = 1
      <3>1. t[i] = s[1] /\ 1 \in 1..Len(s)
        BY <2>2, <2>5
      <3>2. j - 1 = 1 \/ 1 < j - 1
        BY <2>4, <2>3
      <3> QED
        BY <3>1, <3>2, <2>4 DEF OrderedBy
    <2>6. CASE i # 1
      <3>1. i - 1 \in 1..Len(s) /\ t[i] = s[i - 1] /\ i - 1 < j - 1
        BY <2>2, <2>3, <2>6
      <3> QED
        BY <3>1, <2>4 DEF OrderedBy
    <2> QED
      BY <2>5, <2>6
  <1>3. ASSUME NEW c \in ChildID, T \subseteq {c[1]} PROVE OrderedBy(Append(s, c), T)
    <2>1. PICK t : t = Append(s, c)
      OBVIOUS
    <2>2. \A i \in 1..Len(t) :
             \/ i \in 1..Len(s) /\ t[i] = s[i]
             \/ i = Len(s) + 1 /\ t[i] = c
      BY <2>1, AppendLemma
    <2>3. Len(s) \in Nat /\ Len(t) \in Nat
      BY <2>1
    <2> SUFFICES ASSUME NEW i \in 1..Len(t), NEW j \in 1..Len(t), i < j, t[i][1] \in T
                 PROVE  t[j][1] = t[i][1]
      BY <2>1 DEF OrderedBy
    <2>4. i \in 1..Len(s) /\ t[i] = s[i]
      BY <2>2, <2>3
    <2> QED
      BY <1>3, <2>2, <2>4 DEF OrderedBy
  <1> QED
    BY <1>1, <1>2, <1>3

\* What happens to a queue: only children of the open command are added to it.
LEMMA QueueCases ==
    ASSUME MediatorInv, TableInv, [LifecycleNext]_lifecycleVars, NEW q \in Controller \X Zones
    PROVE  \/ controllerQueue'[q] = controllerQueue[q]
           \/ controllerQueue[q] # <<>> /\ controllerQueue'[q] = Tail(controllerQueue[q])
           \/ /\ controllerQueue[q] # <<>>
              /\ controllerQueue'[q] = <<Head(controllerQueue[q])>> \o controllerQueue[q]
           \/ \E c \in ChildID : /\ c[1] \in Cmds /\ Open(c[1]) /\ c[2] = q[1]
                                 /\ controllerQueue'[q] = Append(controllerQueue[q], c)
                                 /\ UNCHANGED <<db, issued, outcomes>>
  <1>0. /\ controllerQueue \in [Controller \X Zones -> Seq(ChildID)] /\ None \notin Command
    BY MediatorAssumption DEF MediatorInv, IInv, TypeOK
  <1>1. ASSUME NEW r \in Controller \X Zones, NEW c \in ChildID, NEW s \in Determined,
               Carries(r, c, s)
        PROVE  \/ controllerQueue'[q] = controllerQueue[q]
               \/ controllerQueue[q] # <<>> /\ controllerQueue'[q] = Tail(controllerQueue[q])
    BY <1>0, <1>1 DEF Carries
  <1>2. ASSUME NEW p \in Cmds, Forwards(p, 1), UNCHANGED <<db, issued, outcomes>>
        PROVE  \/ controllerQueue'[q] = controllerQueue[q]
               \/ \E c \in ChildID : /\ c[1] \in Cmds /\ Open(c[1]) /\ c[2] = q[1]
                                     /\ controllerQueue'[q] = Append(controllerQueue[q], c)
                                     /\ UNCHANGED <<db, issued, outcomes>>
    <2>1. Open(p)
      BY <1>0, <1>2 DEF Forwards, TableInv
    <2>2. <<p, q[1], 1>> \in ChildID
      BY DEF ChildID
    <2>3. PICK c \in ChildID : c = <<p, q[1], 1>>
      BY <2>2
    <2> QED
      BY <1>2, <2>1, <2>3 DEF Forwards
  <1>3. ASSUME NEW p \in Cmds, NEW c \in ChildID, Releases(p, c), UNCHANGED <<db, issued, outcomes>>
        PROVE  \/ controllerQueue'[q] = controllerQueue[q]
               \/ \E d \in ChildID : /\ d[1] \in Cmds /\ Open(d[1]) /\ d[2] = q[1]
                                     /\ controllerQueue'[q] = Append(controllerQueue[q], d)
                                     /\ UNCHANGED <<db, issued, outcomes>>
    <2>1. Open(p)
      BY <1>0, <1>3 DEF Releases, TableInv
    <2>2. CASE q = <<VNF, issued[p].zone>>
      <3>1. controllerQueue'[q] = Append(controllerQueue[q], c) /\ c[1] = p /\ c[2] = q[1]
        BY <1>3, <2>2 DEF Releases
      <3> QED
        BY <1>3, <2>1, <3>1
    <2>3. CASE q # <<VNF, issued[p].zone>>
      BY <1>3, <2>3 DEF Releases
    <2> QED
      BY <2>2, <2>3
  <1>4. ASSUME Mediate
        PROVE  \/ controllerQueue'[q] = controllerQueue[q]
               \/ controllerQueue[q] # <<>> /\ controllerQueue'[q] = Tail(controllerQueue[q])
               \/ /\ controllerQueue[q] # <<>>
                  /\ controllerQueue'[q] = <<Head(controllerQueue[q])>> \o controllerQueue[q]
               \/ \E c \in ChildID : /\ c[1] \in Cmds /\ Open(c[1]) /\ c[2] = q[1]
                                     /\ controllerQueue'[q] = Append(controllerQueue[q], c)
                                     /\ UNCHANGED <<db, issued, outcomes>>
    <2>1. ASSUME NEW r \in Controller \X Zones, Repeats(r)
          PROVE  \/ controllerQueue'[q] = controllerQueue[q]
                 \/ /\ controllerQueue[q] # <<>>
                    /\ controllerQueue'[q] = <<Head(controllerQueue[q])>> \o controllerQueue[q]
      BY <1>0, <2>1 DEF Repeats
    <2>2. ASSUME NEW r \in Controller \X Zones, Drops(r)
          PROVE  \/ controllerQueue'[q] = controllerQueue[q]
                 \/ controllerQueue[q] # <<>> /\ controllerQueue'[q] = Tail(controllerQueue[q])
      BY <1>0, <2>2 DEF Drops
    <2>3. UNCHANGED <<db, issued, outcomes>>
      BY <1>4, MediateCases
    <2> QED
      BY <1>4, <1>2, <1>3, <2>1, <2>2, <2>3, MediateCases
  <1>5. ASSUME NEW p \in Cmds, CmdRply(p) PROVE UNCHANGED controllerQueue
    BY <1>5 DEF CmdRply, vars
  <1> QED
    BY <1>1, <1>4, <1>5, StepCases DEF Sends, lifecycleVars, vars

\* A queue has no others than before, but for children of the open command.
LEMMA ElemsLemma ==
    ASSUME MediatorInv, TableInv, [LifecycleNext]_lifecycleVars, NEW q \in Controller \X Zones,
           NEW c \in Elems(controllerQueue'[q])
    PROVE  /\ c \in ChildID
           /\ \/ c \in Elems(controllerQueue[q])
              \/ c[1] \in Cmds /\ Open(c[1]) /\ c[2] = q[1] /\ UNCHANGED <<db, issued, outcomes>>
  <1>1. controllerQueue[q] \in Seq(ChildID)
    BY DEF MediatorInv, IInv, TypeOK
  <1>2. Elems(controllerQueue[q]) \subseteq ChildID
    BY <1>1 DEF Elems
  <1>3. ASSUME \/ controllerQueue'[q] = controllerQueue[q]
               \/ controllerQueue[q] # <<>> /\ controllerQueue'[q] = Tail(controllerQueue[q])
               \/ /\ controllerQueue[q] # <<>>
                  /\ controllerQueue'[q] = <<Head(controllerQueue[q])>> \o controllerQueue[q]
        PROVE  c \in Elems(controllerQueue[q])
    <2>1. controllerQueue[q] # <<>> =>
             /\ Elems(Tail(controllerQueue[q])) \subseteq Elems(controllerQueue[q])
             /\ Elems(<<Head(controllerQueue[q])>> \o controllerQueue[q])
                   \subseteq Elems(controllerQueue[q])
      BY <1>1, TakeLemma, RedeliverLemma
    <2> QED
      BY <1>3, <2>1
  <1>4. ASSUME NEW d \in ChildID, controllerQueue'[q] = Append(controllerQueue[q], d)
        PROVE  c \in Elems(controllerQueue[q]) \/ c = d
    BY <1>1, <1>4, AppendLemma
  <1> QED
    BY <1>2, <1>3, <1>4, QueueCases

LEMMA SentLemma ==
    ASSUME MediatorInv, NEW q \in Controller \X Zones, NEW c \in Elems(controllerQueue[q])
    PROVE  c \in ChildID /\ c[1] \in Cmds /\ issued[c[1]] \in Command /\ issued[c[1]] # None
  BY MediatorAssumption DEF MediatorInv, IInv, QueueInv, SentOK, IsChildOf

LEMMA ActedLemmaFor ==
    ASSUME MediatorInv, NEW o \in outcomes
    PROVE  /\ o = <<o[1], o[2]>> /\ o[1] \in ChildID /\ o[2] \in Determined
           /\ o[1][1] \in Cmds /\ issued[o[1][1]] \in Command
           /\ issued[o[1][1]] # None
  BY MediatorAssumption DEF MediatorInv, IInv, TypeOK, QueueInv, SentOK, IsChildOf

LEMMA NextOrderInv ==
    ASSUME MediatorInv, TableInv, OrderInv, [LifecycleNext]_lifecycleVars
    PROVE  OrderInv'
  <1> SUFFICES ASSUME NEW q \in Controller \X Zones
               PROVE  /\ OrderedBy(controllerQueue'[q], OpenCmds')
                      /\ \A c \in Elems(controllerQueue'[q]) : c[2] = q[1]
    BY DEF OrderInv
  <1>1. controllerQueue[q] \in Seq(ChildID) /\ OrderedBy(controllerQueue[q], OpenCmds)
    BY DEF MediatorInv, IInv, TypeOK, OrderInv
  <1>2. \A c \in Elems(controllerQueue'[q]) : c[2] = q[1]
    BY ElemsLemma DEF OrderInv
  <1>3. OrderedBy(controllerQueue'[q], OpenCmds)
    <2>1. ASSUME NEW c \in ChildID, c[1] \in Cmds, Open(c[1])
          PROVE  OrderedBy(Append(controllerQueue[q], c), OpenCmds)
      BY <1>1, <2>1, OpenLemma, OrderedLemma
    <2>2. controllerQueue[q] # <<>> =>
            /\ OrderedBy(Tail(controllerQueue[q]), OpenCmds)
            /\ OrderedBy(<<Head(controllerQueue[q])>> \o controllerQueue[q], OpenCmds)
      BY <1>1, OrderedLemma
    <2> QED
      BY <1>1, <2>1, <2>2, QueueCases
  <1>4. CASE OpenCmds' \subseteq OpenCmds
    <2>1. \A t, T, U : U \subseteq T /\ OrderedBy(t, T) => OrderedBy(t, U)
      BY DEF OrderedBy
    <2>2. PICK t, T, U : t = controllerQueue'[q] /\ T = OpenCmds /\ U = OpenCmds'
      OBVIOUS
    <2>3. OrderedBy(t, U)
      BY <1>3, <1>4, <2>1, <2>2
    <2> QED
      BY <1>2, <2>2, <2>3
  <1>5. ASSUME NEW p \in Cmds, NEW cmd \in Command, Sends(p, cmd), OpenCmds = {}
        PROVE  OrderedBy(controllerQueue'[q], OpenCmds')
    <2>1. \A c \in Elems(controllerQueue[q]) : c[1] # p /\ c[1] \in Cmds
      BY <1>5, SentLemma DEF Sends
    <2>2. OpenCmds' \subseteq {p}
      BY <1>5 DEF Sends, Wrote, OpenCmds, Open
    <2>3. UNCHANGED controllerQueue
      BY <1>5 DEF Sends
    <2> QED
      BY <2>1, <2>2, <2>3 DEF OrderedBy, Elems
  <1>6. ASSUME NEW p \in Cmds, CmdRply(p) PROVE OpenCmds' \subseteq OpenCmds
    <2>1. /\ Open(p)
          /\ Wrote(p, RequestStateAfter(Head(rplyLog[p])),
                   ResourceStateAfter(issued[p].cmdType, Head(rplyLog[p])))
      BY <1>6, CmdRplyLemma
    <2> QED
      BY <2>1 DEF Wrote, OpenCmds, Open
  <1>7. UNCHANGED db => OpenCmds' \subseteq OpenCmds
    BY DEF OpenCmds, Open
  <1> QED
    BY <1>2, <1>4, <1>5, <1>6, <1>7, StepCases, MediateCases DEF Carries, lifecycleVars
-----------------------------------------------------------------------------
(***************************************************************************)
(* What the controllers have in their tables.                              *)
(***************************************************************************)
\* How a child of an ADD_SFCI or a DEL_SFCI changes them.
LEMMA CarriesLemma ==
    ASSUME MediatorInv, TableInv, OrderInv,
           NEW q \in Controller \X Zones, NEW c \in ChildID, NEW s \in Determined, Carries(q, c, s)
    PROVE  /\ c[1] \in Cmds /\ c[2] = q[1] /\ (Adds(c[1]) <=> ~Dels(c[1]))
           /\ q[1] = SFF => /\ sffSFCI' <=> Adds(c[1])
                            /\ UNCHANGED vnfSFCI
           /\ q[1] = VNF => /\ vnfSFCI' = "absent" <=> Dels(c[1])
                            /\ UNCHANGED sffSFCI
           /\ q[1] \notin {SFF, VNF} => UNCHANGED <<sffSFCI, vnfSFCI>>
           /\ UNCHANGED <<db, issued>>
           /\ \A n \in Controller : Elems(controllerQueue'[<<n, q[2]>>])
                                       \subseteq Elems(controllerQueue[<<n, q[2]>>])
  <1>1. c[1] \in Cmds /\ c[2] = q[1] /\ issued[c[1]] # None
    BY SentLemma DEF Carries, OrderInv
  <1>2. /\ Adds(c[1]) \/ Dels(c[1])
        /\ Adds(c[1]) <=> ~Dels(c[1])
    BY <1>1 DEF TableInv, Adds, Dels
  <1>3. ASSUME q[1] = SFF
        PROVE  (sffSFCI' <=> Adds(c[1])) /\ UNCHANGED vnfSFCI
    <2>1. (sffSFCI' = Adds(c[1])) /\ UNCHANGED vnfSFCI
      BY <1>3 DEF Carries, SFFTable, Adds
    <2> QED
      BY <2>1
  <1>4. ASSUME q[1] = VNF
        PROVE  (vnfSFCI' = "absent" <=> Dels(c[1])) /\ UNCHANGED sffSFCI
    <2>1. VNFTable(issued[c[1]].cmdType) /\ UNCHANGED sffSFCI
      BY <1>4 DEF Carries, VNFTable
    <2>2. vnfSFCI' = "absent" <=> Dels(c[1])
      BY <2>1 DEF VNFTable, Dels
    <2> QED
      BY <2>1, <2>2
  <1>5. ASSUME NEW n \in Controller
        PROVE  Elems(controllerQueue'[<<n, q[2]>>]) \subseteq Elems(controllerQueue[<<n, q[2]>>])
    <2>1. PICK r \in Controller \X Zones : r = <<n, q[2]>>
      OBVIOUS
    <2>2. controllerQueue \in [Controller \X Zones -> Seq(ChildID)]
      BY DEF MediatorInv, IInv, TypeOK
    <2>3. controllerQueue'[r] = IF r = q THEN Tail(controllerQueue[q]) ELSE controllerQueue[r]
      BY <2>2 DEF Carries
    <2>4. controllerQueue[q] # <<>> /\ controllerQueue[q] \in Seq(ChildID)
      BY <2>2 DEF Carries
    <2>5. Elems(Tail(controllerQueue[q])) \subseteq Elems(controllerQueue[q])
      BY <2>4, TakeLemma
    <2> QED
      BY <2>1, <2>3, <2>5
  <1>6. q[1] \notin {SFF, VNF} => UNCHANGED <<sffSFCI, vnfSFCI>>
    BY DEF Carries
  <1>7. UNCHANGED <<db, issued>>
    BY DEF Carries
  <1> QED
    BY <1>1, <1>2, <1>3, <1>4, <1>5, <1>6, <1>7

LEMMA NextActedInv ==
    ASSUME OneZone, MediatorInv, TableInv, OrderInv, ActedInv, [LifecycleNext]_lifecycleVars
    PROVE  ActedInv'
  <1>0. Zones = {theZone} /\ SFF \in Controller /\ VNF \in Controller /\ SFF # VNF
    BY ZoneLemma DEF SFF, VNF, Controller
  <1> SUFFICES ASSUME NEW p \in Cmds, Open(p)'
               PROVE  /\ \A n \in Controller : ActedOn(p, n)' => \A c \in Elems(QueueOf(n)') : c[1] = p
                      /\ ActedOn(p, SFF)' => (sffSFCI' <=> Adds(p)')
                      /\ ActedOn(p, VNF)' => (vnfSFCI' = "absent" <=> Dels(p)')
    BY DEF ActedInv
  <1>1. ASSUME NEW r \in Cmds, NEW cmd \in Command, Sends(r, cmd), OpenCmds = {}
        PROVE  \A n : ~ActedOn(p, n)'
    <2>1. p = r
      BY <1>1 DEF Sends, Wrote, OpenCmds, Open
    <2>2. UNCHANGED outcomes /\ issued[p] = None
      BY <1>1, <2>1 DEF Sends
    <2>3. \A o \in outcomes : o[1][1] # p
      BY <2>2, ActedLemmaFor
    <2> QED
      BY <2>2, <2>3 DEF ActedOn
  <1>2. ASSUME NEW r \in Cmds, CmdRply(r) PROVE FALSE
    <2>1. /\ Open(r)
          /\ Wrote(r, RequestStateAfter(Head(rplyLog[r])),
                   ResourceStateAfter(issued[r].cmdType, Head(rplyLog[r])))
      BY <1>2, CmdRplyLemma
    <2>2. RequestStateAfter(Head(rplyLog[r])) # REQUEST_STATE_IN_PROCESSING
      BY DEF RequestStateAfter, REQUEST_STATE_IN_PROCESSING, REQUEST_STATE_SUCCESSFUL,
             REQUEST_STATE_FAILED
    <2>3. p # r
      BY <2>1, <2>2 DEF Wrote, Open
    <2>4. Open(p)
      BY <2>1, <2>3 DEF Wrote, Open
    <2> QED
      BY <2>1, <2>3, <2>4 DEF TableInv
  <1>3. ASSUME NEW q \in Controller \X Zones, NEW c \in ChildID, NEW s \in Determined,
               Carries(q, c, s)
        PROVE  /\ \A n \in Controller : ActedOn(p, n)' => \A d \in Elems(QueueOf(n)') : d[1] = p
               /\ ActedOn(p, SFF)' => (sffSFCI' <=> Adds(p)')
               /\ ActedOn(p, VNF)' => (vnfSFCI' = "absent" <=> Dels(p)')
    <2>1. /\ UNCHANGED <<db, issued>> /\ c[2] = q[1] /\ c[1] \in Cmds
          /\ q = <<c[2], theZone>>
          /\ \A n \in Controller : Elems(QueueOf(n)') \subseteq Elems(QueueOf(n))
      BY <1>0, <1>3, CarriesLemma DEF QueueOf
    <2>2. Open(p) /\ OpenCmds = {p}
      BY <2>1, OpenLemma DEF Open
    <2>3. \A n : ActedOn(p, n)' <=> ActedOn(p, n) \/ (c[1] = p /\ c[2] = n)
      <3>1. outcomes' = outcomes \cup {<<c, s>>}
        BY <1>3 DEF Carries
      <3>2. \A o \in {<<c, s>>} : o[1] = c
        OBVIOUS
      <3> QED
        BY <3>1, <3>2 DEF ActedOn
    <2>4. ASSUME c[1] = p
          PROVE  \A d \in Elems(controllerQueue[q]) : d[1] = p
      <3>1. /\ controllerQueue[q] \in Seq(ChildID) /\ controllerQueue[q] # <<>>
            /\ c = Head(controllerQueue[q])
        BY <1>3 DEF MediatorInv, IInv, TypeOK, Carries
      <3>2. c = controllerQueue[q][1] /\ 1 \in 1..Len(controllerQueue[q])
        BY <3>1, TakeLemma
      <3>3. \A j \in 1..Len(controllerQueue[q]) : 1 = j \/ 1 < j
        BY <3>1
      <3> QED
        BY <2>2, <2>4, <3>2, <3>3 DEF OrderInv, OrderedBy, Elems
    <2>5. ASSUME NEW n \in Controller, ActedOn(p, n)'
          PROVE  \A d \in Elems(QueueOf(n)) : d[1] = p
      BY <2>1, <2>2, <2>3, <2>4, <2>5 DEF ActedInv, QueueOf
    <2>6. ASSUME ActedOn(p, q[1])' PROVE c[1] = p
      <3>1. c \in Elems(QueueOf(q[1]))
        BY <1>3, <2>1 DEF Carries, QueueOf
      <3> QED
        BY <3>1, <2>5, <2>6, <2>1
    <2>7. Adds(p)' = Adds(p) /\ Dels(p)' = Dels(p)
      BY <2>1 DEF Adds, Dels
    <2>8. ASSUME ActedOn(p, SFF)' PROVE sffSFCI' <=> Adds(p)
      <3>1. CASE q[1] = SFF
        BY <1>3, <2>6, <2>8, <3>1, CarriesLemma
      <3>2. CASE q[1] # SFF
        <4>1. sffSFCI' = sffSFCI /\ ActedOn(p, SFF)
          BY <1>3, <2>1, <2>3, <2>8, <3>2, CarriesLemma
        <4> QED
          BY <4>1, <2>2 DEF ActedInv
      <3> QED
        BY <3>1, <3>2
    <2>9. ASSUME ActedOn(p, VNF)' PROVE vnfSFCI' = "absent" <=> Dels(p)
      <3>1. CASE q[1] = VNF
        BY <1>3, <2>6, <2>9, <3>1, CarriesLemma
      <3>2. CASE q[1] # VNF
        <4>1. vnfSFCI' = vnfSFCI /\ ActedOn(p, VNF)
          BY <1>3, <2>1, <2>3, <2>9, <3>2, CarriesLemma
        <4> QED
          BY <4>1, <2>2 DEF ActedInv
      <3> QED
        BY <3>1, <3>2
    <2> QED
      BY <2>1, <2>5, <2>7, <2>8, <2>9
  <1>4. ASSUME UNCHANGED <<db, issued, outcomes, sffSFCI, vnfSFCI>>
        PROVE  /\ \A n \in Controller : ActedOn(p, n)' => \A d \in Elems(QueueOf(n)') : d[1] = p
               /\ ActedOn(p, SFF)' => (sffSFCI' <=> Adds(p)')
               /\ ActedOn(p, VNF)' => (vnfSFCI' = "absent" <=> Dels(p)')
    <2>1. Open(p) /\ OpenCmds = {p} /\ Adds(p)' = Adds(p) /\ Dels(p)' = Dels(p)
      BY <1>4, OpenLemma DEF Open, Adds, Dels
    <2>2. \A n : ActedOn(p, n)' <=> ActedOn(p, n)
      BY <1>4 DEF ActedOn
    <2>3. ASSUME NEW n \in Controller, NEW d \in Elems(QueueOf(n)')
          PROVE  d \in Elems(QueueOf(n)) \/ d[1] = p
      <3>1. PICK q \in Controller \X Zones : q = <<n, theZone>>
        BY <1>0
      <3>2. d \in Elems(controllerQueue'[q])
        BY <3>1, <2>3 DEF QueueOf
      <3>3. d \in Elems(controllerQueue[q]) \/ (d[1] \in Cmds /\ Open(d[1]))
        BY <3>2, ElemsLemma
      <3> QED
        BY <3>1, <3>3, <2>1 DEF QueueOf, OpenCmds
    <2> QED
      BY <1>4, <2>1, <2>2, <2>3 DEF ActedInv
  <1> QED
    BY <1>1, <1>2, <1>3, <1>4, StepCases, MediateCases DEF lifecycleVars, vars

\* A command that succeeded was carried out by both controllers.
LEMMA SuccessLemma ==
    ASSUME OneZone, TableInv, NEW p \in Cmds, issued[p] # None, RplyOK(p, CMD_STATE_SUCCESSFUL)
    PROVE  /\ ActedOn(p, SFF) /\ ActedOn(p, VNF)
           /\ \E k \in 1..handled[p] : \A n \in {SFF, VNF} :
                 <<<<p, n, k>>, CMD_STATE_SUCCESSFUL>> \in outcomes
  <1>1. issued[p] \in Command /\ issued[p].cmdType \in {"ADD_SFCI", "DEL_SFCI"}
    BY DEF RplyOK, TableInv, Adds, Dels
  <1>2. PICK k \in 1..handled[p] : \A n \in Children(issued[p]) :
           <<<<p, n, k>>, CMD_STATE_SUCCESSFUL>> \in outcomes
    BY DEF RplyOK
  <1>3. \A n \in {SFF, VNF} : <<<<p, n, k>>, CMD_STATE_SUCCESSFUL>> \in outcomes
    BY <1>1, <1>2, SFCIChildrenLemma
  <1>4. \A n : \A o : o = <<<<p, n, k>>, CMD_STATE_SUCCESSFUL>> => o[1][1] = p /\ o[1][2] = n
    OBVIOUS
  <1> QED
    BY <1>2, <1>3, <1>4 DEF ActedOn

LEMMA SuccessStateLemma ==
    ASSUME NEW cmdType \in {"ADD_SFCI", "DEL_SFCI"}, NEW s \in Determined
    PROVE  /\ ResourceStateAfter(cmdType, s) = STATE_ACTIVE =>
                 cmdType = "ADD_SFCI" /\ s = CMD_STATE_SUCCESSFUL
           /\ ResourceStateAfter(cmdType, s) = STATE_DELETED =>
                 cmdType = "DEL_SFCI" /\ s = CMD_STATE_SUCCESSFUL
           /\ ResourceStateAfter(cmdType, s) = STATE_UNDELETED <=>
                 cmdType = "DEL_SFCI" /\ s = CMD_STATE_FAIL
  BY DEF ResourceStateAfter, Determined, CMD_STATE_SUCCESSFUL, CMD_STATE_FAIL, STATE_ACTIVE,
         STATE_INIT_FAILED, STATE_DELETED, STATE_UNDELETED

LEMMA NextSettledInv ==
    ASSUME OneZone, MediatorInv, TableInv, OrderInv, ActedInv, SettledInv,
           [LifecycleNext]_lifecycleVars
    PROVE  SettledInv'
  <1>0. Zones = {theZone} /\ SFF \in Controller /\ VNF \in Controller /\ SFF # VNF
    BY ZoneLemma DEF SFF, VNF, Controller
  <1>state. STATE_IN_PROCESSING \notin {STATE_ACTIVE, STATE_DELETED}
    BY DEF STATE_IN_PROCESSING, STATE_ACTIVE, STATE_DELETED
  <1>1. ASSUME NEW r \in Cmds, NEW cmd \in Command, Sends(r, cmd) PROVE SettledInv'
    BY <1>state, <1>1 DEF Sends, Wrote, SettledInv
  <1>2. ASSUME NEW p \in Cmds, CmdRply(p) PROVE SettledInv'
    <2>1. /\ Open(p) /\ Head(rplyLog[p]) \in Determined /\ RplyOK(p, Head(rplyLog[p]))
          /\ StateOfSFCI' = ResourceStateAfter(issued[p].cmdType, Head(rplyLog[p]))
          /\ UNCHANGED <<vars, sffSFCI, vnfSFCI>>
      BY <1>2, CmdRplyLemma DEF Wrote
    <2>2. issued[p] # None /\ issued[p].cmdType \in {"ADD_SFCI", "DEL_SFCI"}
      BY <2>1, OpenLemma DEF Adds, Dels
    <2>3. ASSUME Head(rplyLog[p]) = CMD_STATE_SUCCESSFUL
          PROVE  Done(issued[p].cmdType)'
      <3>1. ActedOn(p, SFF) /\ ActedOn(p, VNF)
        BY <2>1, <2>2, <2>3, SuccessLemma
      <3>2. /\ \A n \in {SFF, VNF} : \A c \in Elems(QueueOf(n)) : c[1] = p
            /\ sffSFCI <=> issued[p].cmdType = "ADD_SFCI"
            /\ vnfSFCI = "absent" <=> issued[p].cmdType = "DEL_SFCI"
        BY <1>0, <2>1, <3>1 DEF ActedInv, Adds, Dels
      <3> QED
        BY <2>1, <3>2 DEF Done, vars, QueueOf
    <2> QED
      BY <2>1, <2>2, <2>3, SuccessStateLemma DEF SettledInv, vars
  <1>3. ASSUME NEW t \in {"ADD_SFCI", "DEL_SFCI"}, UNCHANGED db, Done(t),
               StateOfSFCI # STATE_IN_PROCESSING
        PROVE  Done(t)'
    <2>0. \A r \in Cmds : ~Open(r)
      BY <1>3 DEF TableInv
    <2>1. ASSUME NEW n \in {SFF, VNF} PROVE Elems(QueueOf(n)') \subseteq Elems(QueueOf(n))
      <3>1. PICK q \in Controller \X Zones : q = <<n, theZone>>
        BY <1>0
      <3>2. Elems(controllerQueue'[q]) \subseteq Elems(controllerQueue[q])
        BY <2>0, ElemsLemma
      <3> QED
        BY <3>1, <3>2 DEF QueueOf
    <2>2. ASSUME UNCHANGED <<issued, sffSFCI, vnfSFCI>> PROVE Done(t)'
      BY <1>3, <2>1, <2>2 DEF Done
    <2>3. ASSUME NEW q \in Controller \X Zones, NEW c \in ChildID, NEW s \in Determined,
                 Carries(q, c, s)
          PROVE  Done(t)'
      <3>1. q = <<q[1], theZone>> /\ c \in Elems(controllerQueue[q]) /\ UNCHANGED issued
        BY <1>0, <2>3 DEF Carries
      <3>2. q[1] \in {SFF, VNF} => issued[c[1]].cmdType = t
        BY <1>3, <3>1 DEF Done, QueueOf
      <3>3. sffSFCI' <=> t = "ADD_SFCI"
        BY <1>0, <1>3, <2>3, <3>2, CarriesLemma DEF Done, Adds
      <3>4. vnfSFCI' = "absent" <=> t = "DEL_SFCI"
        BY <1>0, <1>3, <2>3, <3>2, CarriesLemma DEF Done, Dels
      <3> QED
        BY <1>3, <2>1, <3>1, <3>3, <3>4 DEF Done
    <2>4. ASSUME NEW r \in Cmds, CmdRply(r) PROVE FALSE
      BY <2>0, <2>4, CmdRplyLemma
    <2>5. ASSUME NEW r \in Cmds, NEW cmd \in Command, Sends(r, cmd) PROVE FALSE
      <3>1. StateOfSFCI' = STATE_IN_PROCESSING
        BY <2>5 DEF Sends, Wrote
      <3> QED
        BY <1>3, <3>1 DEF StateOfSFCI, hasSFCI
    <2> QED
      BY <2>2, <2>3, <2>4, <2>5, StepCases, MediateCases DEF lifecycleVars, vars
  <1>4. ASSUME UNCHANGED db PROVE SettledInv'
    <2>1. StateOfSFCI' = StateOfSFCI
      BY <1>4 DEF StateOfSFCI, hasSFCI
    <2> QED
      BY <1>state, <1>3, <1>4, <2>1 DEF SettledInv
  <1> QED
    BY <1>1, <1>2, <1>4, StepCases, MediateCases DEF lifecycleVars, Carries

-----------------------------------------------------------------------------
(***************************************************************************)
(* What holds in every state.                                              *)
(***************************************************************************)
LifecycleInv ==
    MediatorInv /\ TableInv /\ OrderInv /\ ActedInv /\ SettledInv

LEMMA InitSettledInv ==
    ASSUME LifecycleInit
    PROVE  OrderInv /\ ActedInv /\ SettledInv
  <1>1. \A q \in Controller \X Zones : controllerQueue[q] = <<>>
    BY DEF LifecycleInit, Init
  <1>2. \A n : ~\E p : ActedOn(p, n)
    BY DEF LifecycleInit, Init, ActedOn
  <1>3. StateOfSFCI = None
    BY DEF LifecycleInit, StateOfSFCI, hasSFCI
  <1>4. None \notin {STATE_ACTIVE, STATE_DELETED}
    BY NoneAssumption DEF ResourceState
  <1>5. OrderInv
    BY <1>1 DEF OrderInv, OrderedBy, Elems
  <1>6. ActedInv
    <2>1. \A p \in Cmds : ~Open(p)
      BY DEF LifecycleInit, Open
    <2> QED
      BY <2>1 DEF ActedInv
  <1>7. SettledInv
    BY <1>3, <1>4 DEF SettledInv
  <1> QED
    BY <1>5, <1>6, <1>7

LEMMA LifecycleInvariance ==
    ASSUME OneZone, "cmd" \notin Redeliverable
    PROVE  LifecycleSpec => []LifecycleInv
  <1>1. LifecycleInit => TableInv /\ OrderInv /\ ActedInv /\ SettledInv
    BY InitTableInv, InitSettledInv
  <1>2. MediatorInv /\ TableInv /\ OrderInv /\ ActedInv /\ SettledInv
        /\ [LifecycleNext]_lifecycleVars
           => (TableInv /\ OrderInv /\ ActedInv /\ SettledInv)'
    BY NextTableInv, NextOrderInv, NextActedInv, NextSettledInv
  <1> QED
    BY <1>1, <1>2, MediatorInvariance, PTL DEF LifecycleSpec, LifecycleInv

\* "STATE_DELETED  # All resource of this sfc/sfci has been released": whatever is
\* lost, repeated or fails, an SFCI the orchestrator has down as DELETED is in the
\* table of neither controller (cmdRplyHandler, delSFCIHandler, _sfciDeleteHandler).
THEOREM DeletedMeansGone ==
    ASSUME OneZone, "cmd" \notin Redeliverable
    PROVE  LifecycleSpec => []DeletedIsGone
  <1>1. LifecycleInv => DeletedIsGone
    BY DEF LifecycleInv, SettledInv, Done, DeletedIsGone
  <1> QED
    BY <1>1, LifecycleInvariance, PTL
-----------------------------------------------------------------------------
(***************************************************************************)
(* VNFs are recorded only where the SFF controller knows the SFCI.         *)
(***************************************************************************)
\* The VNF controller has no VNFs of the SFCI, or is about to delete them.
VNFsGo ==
    IF QueueOf(VNF) = <<>> THEN vnfSFCI = "absent"
    ELSE Dels(QueueOf(VNF)[Len(QueueOf(VNF))][1])

\* The SFF controller does not have the SFCI, or is about to delete it.
SFFGoes == ~sffSFCI \/ \E c \in Elems(QueueOf(SFF)) : Dels(c[1])

\* If nothing is lost the VNFs go wherever the SFCI goes.
VNFGoesInv == losses = 0 /\ SFFGoes => VNFsGo

LEMMA LastLemma ==
    ASSUME NEW s \in Seq(ChildID)
    PROVE  /\ s # <<>> => /\ s[Len(s)] \in Elems(s)
                          /\ Tail(s) # <<>> => Tail(s)[Len(Tail(s))] = s[Len(s)]
                          /\ Tail(s) = <<>> => s[Len(s)] = Head(s)
                          /\ <<Head(s)>> \o s # <<>>
                          /\ (<<Head(s)>> \o s)[Len(<<Head(s)>> \o s)] = s[Len(s)]
           /\ \A c \in ChildID : /\ Append(s, c) # <<>>
                                 /\ Append(s, c)[Len(Append(s, c))] = c
  <1>1. ASSUME s # <<>> PROVE s[Len(s)] \in Elems(s)
    BY <1>1 DEF Elems
  <1>2. ASSUME s # <<>>, Tail(s) # <<>> PROVE Tail(s)[Len(Tail(s))] = s[Len(s)]
    <2>1. Len(Tail(s)) \in 1..Len(Tail(s)) /\ Len(Tail(s)) + 1 = Len(s)
      BY <1>2
    <2> QED
      BY <1>2, <2>1, TakeLemma
  <1>3. ASSUME s # <<>>, Tail(s) = <<>> PROVE s[Len(s)] = Head(s)
    <2>0. Len(<<>>) = 0
      OBVIOUS
    <2>1. Len(Tail(s)) = 0
      BY ONLY <1>3, <2>0
    <2>2. Len(Tail(s)) = Len(s) - 1 /\ Len(s) \in Nat
      BY ONLY <1>3, s \in Seq(ChildID)
    <2>3. Len(s) = 1
      BY <2>1, <2>2
    <2> QED
      BY <1>3, <2>3
  <1>4. ASSUME s # <<>>
        PROVE  /\ <<Head(s)>> \o s # <<>>
               /\ (<<Head(s)>> \o s)[Len(<<Head(s)>> \o s)] = s[Len(s)]
    <2>1. PICK h \in ChildID : h = Head(s)
      BY <1>4
    <2>2. Len(<<h>> \o s) = Len(s) + 1 /\ Len(s) \in 1..Len(s)
      BY <1>4
    <2>3. (<<h>> \o s)[Len(s) + 1] = s[Len(s)]
      BY <2>2
    <2>4. <<h>> \o s # <<>>
      BY <2>2
    <2> QED
      BY <2>1, <2>2, <2>3, <2>4
  <1>5. ASSUME NEW c \in ChildID
        PROVE  Append(s, c) # <<>> /\ Append(s, c)[Len(Append(s, c))] = c
    OBVIOUS
  <1> QED
    BY <1>1, <1>2, <1>3, <1>4, <1>5

\* The two queues.
LEMMA TwoQueues ==
    ASSUME OneZone, MediatorInv
    PROVE  /\ SFF # VNF /\ SFF \in Controller /\ VNF \in Controller
           /\ <<SFF, theZone>> \in Controller \X Zones /\ <<VNF, theZone>> \in Controller \X Zones
           /\ QueueOf(SFF) \in Seq(ChildID) /\ QueueOf(VNF) \in Seq(ChildID)
           /\ \A q \in Controller \X Zones : q = <<q[1], theZone>>
  <1>1. SFF # VNF /\ SFF \in Controller /\ VNF \in Controller
    BY DEF SFF, VNF, Controller
  <1>2. Zones = {theZone}
    BY ZoneLemma
  <1>3. controllerQueue \in [Controller \X Zones -> Seq(ChildID)]
    BY DEF MediatorInv, IInv, TypeOK
  <1> QED
    BY <1>1, <1>2, <1>3 DEF QueueOf

\* The queues and the tables are as they were.
LEMMA SameVNFGoes ==
    ASSUME MediatorInv, OneZone, VNFGoesInv, UNCHANGED <<losses, sffSFCI, vnfSFCI>>,
           \A n \in {SFF, VNF} : QueueOf(n)' = QueueOf(n),
           \A n \in {SFF, VNF} : \A c \in Elems(QueueOf(n)) : Dels(c[1])' <=> Dels(c[1])
    PROVE  VNFGoesInv'
  <1>1. SFFGoes' <=> SFFGoes
    BY DEF SFFGoes
  <1>2. QueueOf(VNF) # <<>> => QueueOf(VNF)[Len(QueueOf(VNF))] \in Elems(QueueOf(VNF))
    BY TwoQueues, LastLemma
  <1>3. VNFsGo' <=> VNFsGo
    BY <1>2 DEF VNFsGo
  <1> QED
    BY <1>1, <1>3 DEF VNFGoesInv

LEMMA CarriesVNFGoes ==
    ASSUME OneZone, LifecycleInv, VNFGoesInv,
           NEW q \in Controller \X Zones, NEW c \in ChildID, NEW s \in Determined, Carries(q, c, s)
    PROVE  VNFGoesInv'
  <1>0. /\ MediatorInv /\ TableInv /\ OrderInv /\ UNCHANGED <<losses, issued>>
        /\ controllerQueue \in [Controller \X Zones -> Seq(ChildID)]
        /\ controllerQueue' = [controllerQueue EXCEPT ![q] = Tail(@)]
        /\ controllerQueue[q] # <<>> /\ c = Head(controllerQueue[q])
        /\ c \in Elems(controllerQueue[q])
    BY DEF LifecycleInv, Carries, MediatorInv, IInv, TypeOK
  <1>1. /\ c[1] \in Cmds /\ c[2] = q[1] /\ (Adds(c[1]) <=> ~Dels(c[1]))
        /\ q[1] = SFF => (sffSFCI' <=> Adds(c[1])) /\ UNCHANGED vnfSFCI
        /\ q[1] = VNF => (vnfSFCI' = "absent" <=> Dels(c[1])) /\ UNCHANGED sffSFCI
        /\ q[1] \notin {SFF, VNF} => UNCHANGED <<sffSFCI, vnfSFCI>>
    BY <1>0, CarriesLemma
  <1>2. /\ q = <<q[1], theZone>> /\ SFF # VNF
        /\ QueueOf(SFF) \in Seq(ChildID) /\ QueueOf(VNF) \in Seq(ChildID)
        /\ \A n \in {SFF, VNF} : QueueOf(n)' = IF q[1] = n THEN Tail(QueueOf(n)) ELSE QueueOf(n)
    BY <1>0, TwoQueues DEF QueueOf
  <1>3. \A x : Dels(x)' <=> Dels(x)
    BY <1>0 DEF Dels
  <1>4. CASE q[1] = SFF
    <2>1. /\ QueueOf(SFF)' = Tail(QueueOf(SFF)) /\ QueueOf(VNF)' = QueueOf(VNF)
          /\ QueueOf(SFF) # <<>> /\ c \in Elems(QueueOf(SFF))
      BY <1>0, <1>2, <1>4 DEF QueueOf
    <2>2. Elems(QueueOf(SFF)') \subseteq Elems(QueueOf(SFF))
      BY <1>2, <2>1, TakeLemma
    <2>3. SFFGoes' => SFFGoes
      BY <1>1, <1>3, <1>4, <2>1, <2>2 DEF SFFGoes
    <2>4. VNFsGo' <=> VNFsGo
      BY <1>1, <1>3, <1>4, <2>1 DEF VNFsGo
    <2> QED
      BY <1>0, <2>3, <2>4 DEF VNFGoesInv
  <1>5. CASE q[1] = VNF
    <2>1. /\ QueueOf(VNF)' = Tail(QueueOf(VNF)) /\ QueueOf(SFF)' = QueueOf(SFF)
          /\ QueueOf(VNF) # <<>> /\ c = Head(QueueOf(VNF))
      BY <1>0, <1>2, <1>5 DEF QueueOf
    <2>2. SFFGoes' => SFFGoes
      BY <1>1, <1>3, <1>5, <2>1 DEF SFFGoes
    <2>3. VNFsGo => VNFsGo'
      <3>1. CASE Tail(QueueOf(VNF)) = <<>>
        BY <1>1, <1>2, <1>5, <2>1, <3>1, LastLemma DEF VNFsGo
      <3>2. CASE Tail(QueueOf(VNF)) # <<>>
        BY <1>2, <1>3, <2>1, <3>2, LastLemma DEF VNFsGo
      <3> QED
        BY <3>1, <3>2
    <2> QED
      BY <1>0, <2>2, <2>3 DEF VNFGoesInv
  <1>6. CASE q[1] \notin {SFF, VNF}
    BY <1>0, <1>1, <1>2, <1>3, <1>6, SameVNFGoes
  <1> QED
    BY <1>4, <1>5, <1>6

LEMMA MediateVNFGoes ==
    ASSUME OneZone, LifecycleInv, VNFGoesInv, Mediate
    PROVE  VNFGoesInv'
  <1>0. /\ MediatorInv /\ TableInv /\ OrderInv /\ ActedInv
        /\ controllerQueue \in [Controller \X Zones -> Seq(ChildID)] /\ losses \in Nat
        /\ UNCHANGED <<issued, outcomes, db, sffSFCI, vnfSFCI>>
    BY MediateCases DEF LifecycleInv, MediatorInv, IInv, TypeOK
  <1>1. /\ SFF # VNF /\ QueueOf(SFF) \in Seq(ChildID) /\ QueueOf(VNF) \in Seq(ChildID)
        /\ SFF \in Controller /\ VNF \in Controller
        /\ <<SFF, theZone>> \in Controller \X Zones /\ <<VNF, theZone>> \in Controller \X Zones
        /\ \A q \in Controller \X Zones : q = <<q[1], theZone>>
    BY <1>0, TwoQueues
  <1>2. \A x : Dels(x)' <=> Dels(x)
    BY <1>0 DEF Dels
  <1>3. ASSUME NEW p \in Cmds, issued[p] \in Command
        PROVE  /\ Adds(p) <=> ~Dels(p)
               /\ SFF \in ForwardedTo(issued[p]) /\ issued[p].zone = theZone
               /\ VNF \in ForwardedTo(issued[p]) <=> Dels(p)
               /\ rplyLog[p] = <<>> => Open(p)
    <2>1. issued[p] # None
      BY <1>3, MediatorAssumption
    <2> QED
      BY <1>0, <1>3, <2>1, SFCIChildrenLemma DEF TableInv, Adds, Dels
  <1>4. ASSUME NEW p \in Cmds, Forwards(p, 1) PROVE VNFGoesInv'
    <2>1. /\ QueueOf(SFF)' = Append(QueueOf(SFF), <<p, SFF, 1>>)
          /\ QueueOf(VNF)' = IF Dels(p) THEN Append(QueueOf(VNF), <<p, VNF, 1>>) ELSE QueueOf(VNF)
          /\ UNCHANGED losses
      BY <1>1, <1>3, <1>4 DEF Forwards, QueueOf
    <2>2. <<p, SFF, 1>> \in ChildID /\ <<p, VNF, 1>> \in ChildID
      BY <1>1 DEF ChildID
    <2>3. CASE Dels(p)
      <3>1. VNFsGo'
        BY <1>1, <1>2, <2>1, <2>2, <2>3, LastLemma DEF VNFsGo
      <3> QED
        BY <3>1 DEF VNFGoesInv
    <2>4. CASE ~Dels(p)
      <3>1. Elems(QueueOf(SFF)') \subseteq Elems(QueueOf(SFF)) \cup {<<p, SFF, 1>>}
        BY <1>1, <2>1, <2>2, AppendLemma
      <3>2. SFFGoes' => SFFGoes
        BY <1>0, <1>2, <2>4, <3>1 DEF SFFGoes
      <3>3. VNFsGo' <=> VNFsGo
        BY <1>0, <1>2, <2>1, <2>4 DEF VNFsGo
      <3> QED
        BY <2>1, <3>2, <3>3 DEF VNFGoesInv
    <2> QED
      BY <2>3, <2>4
  <1>5. ASSUME NEW p \in Cmds, NEW c \in ChildID, Releases(p, c) PROVE VNFGoesInv'
    <2>1. Open(p) /\ c[1] = p /\ issued[p] \in Command
      BY <1>3, <1>5 DEF Releases
    <2>2. ~Dels(p) /\ Adds(p)
      <3>1. issued[p].cmdType = "ADD_SFCI"
        BY <1>5, <2>1 DEF Releases, HeldBack, PreparedFor
      <3> QED
        BY <3>1 DEF Adds, Dels
    <2>3. ActedOn(p, SFF)
      <3>1. PICK o : o = <<<<p, SFF, c[3]>>, CMD_STATE_SUCCESSFUL>>
        OBVIOUS
      <3>2. o \in outcomes /\ o[1][1] = p /\ o[1][2] = SFF
        BY <1>5, <2>1, <3>1 DEF Releases, HasSFF
      <3> QED
        BY <3>2 DEF ActedOn
    <2>4. sffSFCI /\ \A d \in Elems(QueueOf(SFF)) : d[1] = p
      BY <1>0, <1>1, <2>1, <2>2, <2>3 DEF ActedInv
    <2>5. QueueOf(SFF)' = QueueOf(SFF)
      BY <1>1, <1>5 DEF Releases, QueueOf
    <2>6. ~SFFGoes'
      BY <1>0, <1>2, <2>2, <2>4, <2>5 DEF SFFGoes
    <2> QED
      BY <2>6 DEF VNFGoesInv
  <1>6. ASSUME NEW q \in Controller \X Zones, Repeats(q) PROVE VNFGoesInv'
    <2>1. /\ controllerQueue[q] # <<>> /\ UNCHANGED losses
          /\ controllerQueue' = [controllerQueue EXCEPT ![q] = <<Head(@)>> \o @]
      BY <1>6 DEF Repeats
    <2>2. \A n \in {SFF, VNF} :
             QueueOf(n)' = IF q[1] = n THEN <<Head(QueueOf(n))>> \o QueueOf(n) ELSE QueueOf(n)
      BY <1>0, <1>1, <2>1 DEF QueueOf
    <2>3. \A n \in {SFF, VNF} : q[1] = n => QueueOf(n) # <<>>
      BY <1>1, <2>1 DEF QueueOf
    <2>4. Elems(QueueOf(SFF)') \subseteq Elems(QueueOf(SFF))
      BY <1>1, <2>2, <2>3, RedeliverLemma
    <2>5. SFFGoes' => SFFGoes
      BY <1>0, <1>2, <2>4 DEF SFFGoes
    <2>6. VNFsGo => VNFsGo'
      <3>1. CASE q[1] = VNF
        BY <1>1, <1>2, <2>2, <2>3, <3>1, LastLemma DEF VNFsGo
      <3>2. CASE q[1] # VNF
        BY <1>0, <1>2, <2>2, <3>2 DEF VNFsGo
      <3> QED
        BY <3>1, <3>2
    <2> QED
      BY <2>1, <2>5, <2>6 DEF VNFGoesInv
  <1>7. ASSUME losses' = losses + 1 PROVE VNFGoesInv'
    <2>1. losses' # 0
      BY <1>0, <1>7
    <2> QED
      BY <2>1 DEF VNFGoesInv
  <1>8. ASSUME UNCHANGED <<controllerQueue, losses>> PROVE VNFGoesInv'
    <2>1. \A n \in {SFF, VNF} : QueueOf(n)' = QueueOf(n)
      BY <1>8 DEF QueueOf
    <2> QED
      BY <1>0, <1>2, <1>8, <2>1, SameVNFGoes
  <1> QED
    BY <1>0, <1>4, <1>5, <1>6, <1>7, <1>8, MediateCases

LEMMA NextVNFGoes ==
    ASSUME OneZone, LifecycleInv, VNFGoesInv, [LifecycleNext]_lifecycleVars
    PROVE  VNFGoesInv'
  <1>0. MediatorInv /\ TableInv
    BY DEF LifecycleInv
  <1>1. ASSUME NEW p \in Cmds, NEW cmd \in Command, Sends(p, cmd) PROVE VNFGoesInv'
    <2>1. /\ UNCHANGED <<controllerQueue, losses, sffSFCI, vnfSFCI>>
          /\ issued' = [issued EXCEPT ![p] = cmd] /\ issued[p] = None
      BY <1>1 DEF Sends
    <2>2. \A n \in {SFF, VNF} : QueueOf(n)' = QueueOf(n)
      BY <2>1 DEF QueueOf
    <2>3. ASSUME NEW n \in {SFF, VNF}, NEW c \in Elems(QueueOf(n))
          PROVE  Dels(c[1])' <=> Dels(c[1])
      <3>1. c[1] \in Cmds /\ issued[c[1]] # None
        BY <1>0, <2>3, TwoQueues, SentLemma DEF QueueOf
      <3> QED
        BY <2>1, <3>1 DEF Dels
    <2> QED
      BY <1>0, <2>1, <2>2, <2>3, SameVNFGoes
  <1>2. ASSUME UNCHANGED <<vars, sffSFCI, vnfSFCI>> PROVE VNFGoesInv'
    <2>1. \A n \in {SFF, VNF} : QueueOf(n)' = QueueOf(n)
      BY <1>2 DEF QueueOf, vars
    <2>2. \A x : Dels(x)' <=> Dels(x)
      BY <1>2 DEF Dels, vars
    <2>3. UNCHANGED <<losses, sffSFCI, vnfSFCI>>
      BY <1>2 DEF vars
    <2> QED
      BY <1>0, <2>1, <2>2, <2>3, SameVNFGoes
  <1>3. ASSUME NEW p \in Cmds, CmdRply(p) PROVE VNFGoesInv'
    BY <1>2, <1>3 DEF CmdRply
  <1>4. ASSUME NEW q \in Controller \X Zones, NEW c \in ChildID, NEW s \in Determined,
               Carries(q, c, s)
        PROVE  VNFGoesInv'
    BY <1>4, CarriesVNFGoes
  <1> QED
    BY <1>0, <1>1, <1>2, <1>3, <1>4, StepCases, MediateVNFGoes DEF lifecycleVars

LEMMA VNFGoesInvariance ==
    ASSUME OneZone, "cmd" \notin Redeliverable
    PROVE  LifecycleSpec => []VNFGoesInv
  <1>1. LifecycleInit => VNFGoesInv
    <2> SUFFICES ASSUME LifecycleInit PROVE VNFGoesInv
      OBVIOUS
    <2>1. VNF \in Controller /\ Zones = {theZone}
      BY ZoneLemma DEF VNF, Controller
    <2>2. QueueOf(VNF) = <<>>
      BY <2>1 DEF LifecycleInit, Init, QueueOf
    <2> QED
      BY <2>2 DEF LifecycleInit, VNFGoesInv, VNFsGo
  <1>2. LifecycleInv /\ VNFGoesInv /\ [LifecycleNext]_lifecycleVars => VNFGoesInv'
    BY NextVNFGoes
  <1> QED
    BY <1>1, <1>2, LifecycleInvariance, PTL DEF LifecycleSpec

\* When all is quiet and nothing was lost, VNFs are recorded only where the SFF
\* controller knows the SFCI; and an SFCI that is DELETED is recorded by neither
\* (_addSFCIs2Server, cmdRplyHandler, _sfciDeleteHandler).
THEOREM TheTablesAgree ==
    ASSUME OneZone, "cmd" \notin Redeliverable
    PROVE  LifecycleSpec => []TablesAgree
  <1>1. LifecycleInv /\ VNFGoesInv => VNFsHaveSFF
    <2> SUFFICES ASSUME LifecycleInv, VNFGoesInv, AllQuiet, losses = 0, vnfSFCI # "absent"
                 PROVE  sffSFCI
      BY DEF VNFsHaveSFF
    <2>1. MediatorInv /\ <<VNF, theZone>> \in Controller \X Zones /\ QueueOf(VNF) \in Seq(ChildID)
      BY TwoQueues DEF LifecycleInv
    <2>2. QueueOf(VNF) = <<>>
      <3>1. SUFFICES ASSUME QueueOf(VNF) # <<>> PROVE FALSE
        OBVIOUS
      <3>2. 1 \in 1..Len(QueueOf(VNF))
        BY <2>1, <3>1
      <3>3. QueueOf(VNF)[1] \in Elems(QueueOf(VNF))
        BY <3>2 DEF Elems
      <3>4. QueueOf(VNF)[1][1] \in Cmds
        BY <2>1, <3>3, SentLemma DEF QueueOf
      <3> QED
        BY <2>1, <3>2, <3>4 DEF AllQuiet, Quiet, QueueOf
    <2> QED
      BY <2>2 DEF VNFGoesInv, SFFGoes, VNFsGo
  <1>2. VNFsHaveSFF /\ DeletedIsGone => TablesAgree
    BY DEF TablesAgree
  <1> QED
    BY <1>1, <1>2, LifecycleInvariance, VNFGoesInvariance, DeletedMeansGone, PTL
-----------------------------------------------------------------------------
(***************************************************************************)
(* A failed deletion that the SFF controller has handled is for ever.      *)
(***************************************************************************)
\* Command p is a deletion that failed; the SFF controller has handled its child,
\* or will.
Undeletable(p) ==
    /\ issued[p] # None /\ Dels(p) /\ rplyLog[p] = <<CMD_STATE_FAIL>>
    /\ ActedOn(p, SFF) \/ \E c \in Elems(QueueOf(SFF)) : c[1] = p

\* In sequence s only children of deletions come after a child of p.
DelsAfter(s, p) == \A i, j \in 1..Len(s) : i < j /\ s[i][1] = p => Dels(s[j][1])

\* The SFF controller does not have the SFCI, and no deletion succeeds with it.
Forgot(p) ==
    /\ ~sffSFCI
    /\ \A c \in Elems(QueueOf(SFF)) : Dels(c[1])
    /\ \A r \in Cmds : Open(r) /\ r # p =>
          \A o \in outcomes : o[1][1] = r /\ o[1][2] = SFF => o[2] = CMD_STATE_FAIL

\* Only deletions follow, and none of them succeeds.
Undeleted(p) ==
    /\ StateOfSFCI \in {STATE_UNDELETED, STATE_IN_PROCESSING}
    /\ \A r \in Cmds : Open(r) => Dels(r)
    /\ DelsAfter(QueueOf(SFF), p)
    /\ ActedOn(p, SFF) => Forgot(p)

UndeletedInv == \A p \in Cmds : Undeletable(p) => Undeleted(p)

LEMMA OpenUndeleted ==
    ASSUME OneZone, MediatorInv, TableInv, OrderInv, ActedInv, NEW p \in Cmds, Open(p), Dels(p)
    PROVE  Undeleted(p)
  <1>1. StateOfSFCI = STATE_IN_PROCESSING /\ OpenCmds = {p} /\ ~Adds(p)
    BY OpenLemma DEF Adds, Dels
  <1>2. <<SFF, theZone>> \in Controller \X Zones /\ SFF \in Controller
    BY TwoQueues
  <1>3. DelsAfter(QueueOf(SFF), p)
    BY <1>1, <1>2 DEF DelsAfter, OrderInv, OrderedBy, QueueOf
  <1>4. ASSUME ActedOn(p, SFF) PROVE Forgot(p)
    <2>1. ~sffSFCI /\ \A c \in Elems(QueueOf(SFF)) : c[1] = p
      BY <1>1, <1>2, <1>4 DEF ActedInv
    <2> QED
      BY <1>1, <2>1 DEF Forgot, OpenCmds
  <1> QED
    BY <1>1, <1>3, <1>4 DEF Undeleted, OpenCmds

\* A deletion that is no longer open was undeletable before.
LEMMA WasUndeletable ==
    ASSUME OneZone, LifecycleInv, [LifecycleNext]_lifecycleVars,
           NEW p \in Cmds, ~Open(p)', Undeletable(p)'
    PROVE  Undeletable(p)
  <1>0. /\ MediatorInv /\ TableInv /\ OrderInv /\ [Next]_vars
        /\ rplyLog \in [Cmds -> Seq(Determined)] /\ issued \in [Cmds -> Command \cup {None}]
    BY LifecycleStep DEF LifecycleInv, MediatorInv, IInv, TypeOK, lifecycleVars, vars
  <1>1. CASE UNCHANGED <<issued, rplyLog, outcomes, controllerQueue>>
    BY <1>1 DEF Undeletable, Dels, ActedOn, QueueOf
  <1>2. ASSUME NEW r \in Cmds, NEW cmd \in Command, Sends(r, cmd) PROVE Undeletable(p)
    <2>1. p # r
      BY <1>2 DEF Sends, Wrote, Open
    <2>2. issued'[p] = issued[p] /\ UNCHANGED <<rplyLog, outcomes, controllerQueue>>
      BY <1>0, <1>2, <2>1 DEF Sends
    <2> QED
      BY <2>2 DEF Undeletable, Dels, ActedOn, QueueOf
  <1>3. ASSUME UNCHANGED <<db, issued>> PROVE rplyLog'[p] = rplyLog[p] /\ issued[p] # None
    <2>1. ~Open(p) /\ issued[p] # None
      BY <1>3 DEF Open, Undeletable
    <2>2. rplyLog[p] # <<>>
      BY <1>0, <2>1 DEF TableInv
    <2> QED
      BY <1>0, <2>1, <2>2, RplyCases
  <1>4. ASSUME NEW q \in Controller \X Zones, NEW c \in ChildID, NEW s \in Determined,
               Carries(q, c, s)
        PROVE  Undeletable(p)
    <2>1. /\ UNCHANGED <<db, issued, rplyLog>> /\ c[2] = q[1] /\ q = <<c[2], theZone>>
          /\ c \in Elems(controllerQueue[q]) /\ outcomes' = outcomes \cup {<<c, s>>}
      <3>1. c[2] = q[1]
        BY <1>0, <1>4, CarriesLemma
      <3>2. q = <<q[1], theZone>>
        BY <1>0, TwoQueues
      <3>3. controllerQueue[q] \in Seq(ChildID) /\ controllerQueue[q] # <<>>
        BY <1>0, <1>4 DEF Carries, MediatorInv, IInv, TypeOK
      <3>4. Head(controllerQueue[q]) \in Elems(controllerQueue[q])
        BY <3>3 DEF Elems
      <3> QED
        BY <1>4, <3>1, <3>2, <3>4 DEF Carries
    <2>2. Elems(QueueOf(SFF)') \subseteq Elems(QueueOf(SFF))
      BY <1>0, <1>4, <2>1, CarriesLemma, TwoQueues DEF QueueOf
    <2>3. \A o \in {<<c, s>>} : o[1] = c
      OBVIOUS
    <2>4. ActedOn(p, SFF)' => ActedOn(p, SFF) \/ (c[1] = p /\ c[2] = SFF)
      BY <2>1, <2>3 DEF ActedOn
    <2>5. c[2] = SFF => c \in Elems(QueueOf(SFF))
      BY <2>1 DEF QueueOf
    <2> QED
      BY <2>1, <2>2, <2>4, <2>5 DEF Undeletable, Dels
  <1>5. ASSUME Mediate PROVE Undeletable(p)
    <2>1. UNCHANGED <<db, issued, outcomes>>
      BY <1>0, <1>5, MediateCases
    <2>2. rplyLog'[p] = rplyLog[p]
      BY <2>1, <1>3
    <2>3. ASSUME NEW c \in Elems(QueueOf(SFF)'), c[1] = p PROVE c \in Elems(QueueOf(SFF))
      <3>1. ~Open(c[1])
        BY <2>1, <2>3 DEF Open
      <3> QED
        BY <1>0, <2>3, <3>1, TwoQueues, ElemsLemma DEF QueueOf
    <2> QED
      BY <2>1, <2>2, <2>3 DEF Undeletable, Dels, ActedOn
  <1> QED
    BY <1>0, <1>1, <1>2, <1>4, <1>5, StepCases DEF CmdRply, vars, lifecycleVars

LEMMA DelsAfterLemma ==
    ASSUME NEW p, NEW s \in Seq(ChildID), DelsAfter(s, p)
    PROVE  /\ s # <<>> => /\ DelsAfter(Tail(s), p)
                          /\ DelsAfter(<<Head(s)>> \o s, p) \/ (Head(s)[1] = p /\ ~Dels(p))
                          /\ Head(s)[1] = p => \A c \in Elems(Tail(s)) : Dels(c[1])
           /\ \A c \in ChildID : Dels(c[1]) => DelsAfter(Append(s, c), p)
  <1>1. ASSUME s # <<>>
        PROVE  /\ DelsAfter(Tail(s), p)
               /\ Head(s)[1] = p => \A c \in Elems(Tail(s)) : Dels(c[1])
    <2>1. /\ \A i \in 1..Len(Tail(s)) : i + 1 \in 1..Len(s) /\ Tail(s)[i] = s[i + 1]
          /\ Head(s) = s[1] /\ 1 \in 1..Len(s)
      BY <1>1, TakeLemma
    <2>2. Len(Tail(s)) \in Nat /\ Len(s) \in Nat
      BY <1>1
    <2>3. \A i, j \in 1..Len(Tail(s)) : i < j => i + 1 < j + 1
      BY <2>2
    <2>4. \A i \in 1..Len(Tail(s)) : 1 < i + 1
      BY <2>2
    <2>5. DelsAfter(Tail(s), p)
      BY <2>1, <2>3 DEF DelsAfter
    <2>6. ASSUME Head(s)[1] = p, NEW i \in 1..Len(Tail(s)) PROVE Dels(Tail(s)[i][1])
      BY <2>1, <2>4, <2>6 DEF DelsAfter
    <2> QED
      BY <2>5, <2>6 DEF Elems
  <1>2. ASSUME s # <<>>, Head(s)[1] = p => Dels(p)
        PROVE  DelsAfter(<<Head(s)>> \o s, p)
    <2>1. PICK t : t = <<Head(s)>> \o s
      OBVIOUS
    <2>2. \A i \in 1..Len(t) :
             \/ i = 1 /\ t[i] = s[1] /\ 1 \in 1..Len(s)
             \/ i # 1 /\ i - 1 \in 1..Len(s) /\ t[i] = s[i - 1]
      BY <1>2, <2>1, RedeliverLemma
    <2>3. t \in Seq(ChildID) /\ Len(t) \in Nat /\ Len(s) \in Nat /\ Head(s) = s[1]
      BY <1>2, <2>1, RedeliverLemma, TakeLemma
    <2> SUFFICES ASSUME NEW i \in 1..Len(t), NEW j \in 1..Len(t), i < j, t[i][1] = p
                 PROVE  Dels(t[j][1])
      BY <2>1 DEF DelsAfter
    <2>4. j # 1 /\ j - 1 \in 1..Len(s) /\ t[j] = s[j - 1]
      BY <2>2, <2>3
    <2>5. CASE i = 1
      <3>1. t[i] = s[1] /\ 1 \in 1..Len(s)
        BY <2>2, <2>5
      <3>2. j - 1 = 1 \/ 1 < j - 1
        BY <2>4, <2>3
      <3> QED
        BY <1>2, <2>3, <3>1, <3>2, <2>4 DEF DelsAfter
    <2>6. CASE i # 1
      <3>1. i - 1 \in 1..Len(s) /\ t[i] = s[i - 1] /\ i - 1 < j - 1
        BY <2>2, <2>3, <2>6
      <3> QED
        BY <3>1, <2>4 DEF DelsAfter
    <2> QED
      BY <2>5, <2>6
  <1>3. ASSUME NEW c \in ChildID, Dels(c[1]) PROVE DelsAfter(Append(s, c), p)
    <2>1. PICK t : t = Append(s, c)
      OBVIOUS
    <2>2. \A i \in 1..Len(t) :
             \/ i \in 1..Len(s) /\ t[i] = s[i]
             \/ i = Len(s) + 1 /\ t[i] = c
      BY <2>1, AppendLemma
    <2>3. Len(s) \in Nat /\ Len(t) \in Nat
      BY <2>1
    <2> SUFFICES ASSUME NEW i \in 1..Len(t), NEW j \in 1..Len(t), i < j, t[i][1] = p
                 PROVE  Dels(t[j][1])
      BY <2>1 DEF DelsAfter
    <2>4. i \in 1..Len(s) /\ t[i] = s[i]
      BY <2>2, <2>3
    <2> QED
      BY <1>3, <2>2, <2>4 DEF DelsAfter
  <1> QED
    BY <1>1, <1>2, <1>3

\* The commands in the queues of the SFF controller stay what they are.
LEMMA SameDels ==
    ASSUME OneZone, MediatorInv, NEW r \in Cmds, NEW cmd, issued[r] = None,
           issued' = [issued EXCEPT ![r] = cmd],
           NEW c \in Elems(QueueOf(SFF))
    PROVE  Dels(c[1])' <=> Dels(c[1])
  <1>1. c[1] # r
    BY TwoQueues, SentLemma DEF QueueOf
  <1> QED
    BY <1>1 DEF Dels

LEMMA SendsUndeleted ==
    ASSUME OneZone, LifecycleInv, NEW p \in Cmds, Undeleted(p),
           NEW r \in Cmds, NEW cmd \in Command, Sends(r, cmd), OpenCmds = {}, r # p
    PROVE  Undeleted(p)'
  <1>0. /\ MediatorInv /\ TableInv /\ issued \in [Cmds -> Command \cup {None}]
        /\ UNCHANGED <<outcomes, controllerQueue, sffSFCI>>
        /\ issued[r] = None /\ issued' = [issued EXCEPT ![r] = cmd]
    BY DEF LifecycleInv, MediatorInv, IInv, TypeOK, Sends
  <1>1. cmd.cmdType = "DEL_SFCI" /\ Dels(r)'
    <2>1. StateOfSFCI \notin {None, STATE_DELETED, STATE_INIT_FAILED}
      BY NoneAssumption DEF Undeleted, ResourceState, STATE_UNDELETED, STATE_IN_PROCESSING,
                            STATE_DELETED, STATE_INIT_FAILED
    <2> QED
      BY <1>0, <2>1 DEF Sends, Dels
  <1>2. StateOfSFCI' = STATE_IN_PROCESSING /\ \A x \in Cmds : Open(x)' => x = r
    BY DEF Sends, Wrote, Open, OpenCmds
  <1>3. QueueOf(SFF)' = QueueOf(SFF) /\ (ActedOn(p, SFF)' <=> ActedOn(p, SFF))
    BY <1>0 DEF QueueOf, ActedOn
  <1>4. \A c \in Elems(QueueOf(SFF)) : Dels(c[1])' <=> Dels(c[1])
    BY <1>0, SameDels
  <1>5. DelsAfter(QueueOf(SFF), p)'
    BY <1>3, <1>4 DEF Undeleted, DelsAfter, Elems
  <1>6. ASSUME ActedOn(p, SFF) PROVE Forgot(p)'
    <2>1. Forgot(p)
      BY <1>6 DEF Undeleted
    <2>2. \A o \in outcomes : o[1][1] # r
      BY <1>0, ActedLemmaFor
    <2> QED
      BY <1>0, <1>2, <1>3, <1>4, <2>1, <2>2 DEF Forgot
  <1> QED
    BY <1>1, <1>2, <1>3, <1>5, <1>6 DEF Undeleted

LEMMA CmdRplyUndeleted ==
    ASSUME OneZone, LifecycleInv, NEW p \in Cmds, Undeletable(p), Undeleted(p),
           NEW r \in Cmds, CmdRply(r)
    PROVE  Undeleted(p)'
  <1>0. MediatorInv /\ TableInv /\ OrderInv /\ ActedInv
    BY DEF LifecycleInv
  <1>1. /\ Open(r) /\ Head(rplyLog[r]) \in Determined /\ RplyOK(r, Head(rplyLog[r]))
        /\ rplyLog[r] = <<Head(rplyLog[r])>>
        /\ Wrote(r, RequestStateAfter(Head(rplyLog[r])),
                 ResourceStateAfter(issued[r].cmdType, Head(rplyLog[r])))
        /\ UNCHANGED <<vars, sffSFCI, vnfSFCI>>
    BY <1>0, CmdRplyLemma
  <1>2. Dels(r) /\ OpenCmds = {r} /\ issued[r] # None
    BY <1>0, <1>1, OpenLemma DEF Undeleted
  <1>3. \A x \in Cmds : ~Open(x)'
    <2>1. RequestStateAfter(Head(rplyLog[r])) # REQUEST_STATE_IN_PROCESSING
      BY DEF RequestStateAfter, REQUEST_STATE_IN_PROCESSING, REQUEST_STATE_SUCCESSFUL,
             REQUEST_STATE_FAILED
    <2> QED
      BY <1>1, <1>2, <2>1 DEF Wrote, Open, OpenCmds
  <1>4. Head(rplyLog[r]) = CMD_STATE_FAIL
    <2>1. SUFFICES ASSUME RplyOK(r, CMD_STATE_SUCCESSFUL), rplyLog[r] = <<CMD_STATE_SUCCESSFUL>>
                   PROVE FALSE
      BY <1>1 DEF Determined
    <2>2. r # p
      BY <2>1 DEF Undeletable, CMD_STATE_SUCCESSFUL, CMD_STATE_FAIL
    <2>3. PICK k \in 1..handled[r] : <<<<r, SFF, k>>, CMD_STATE_SUCCESSFUL>> \in outcomes
      BY <1>0, <1>2, <2>1, SuccessLemma
    <2>4. ActedOn(r, SFF)
      BY <1>0, <1>2, <2>1, SuccessLemma
    <2>5. \A c \in Elems(QueueOf(SFF)) : c[1] = r
      BY <1>0, <1>1, <2>4, TwoQueues DEF ActedInv
    <2>6. ActedOn(p, SFF)
      BY <2>2, <2>5 DEF Undeletable
    <2>7. PICK o : o = <<<<r, SFF, k>>, CMD_STATE_SUCCESSFUL>>
      OBVIOUS
    <2>8. o \in outcomes /\ o[1][1] = r /\ o[1][2] = SFF /\ o[2] = CMD_STATE_SUCCESSFUL
      BY <2>3, <2>7
    <2> QED
      BY <1>1, <2>2, <2>6, <2>8 DEF Undeleted, Forgot, CMD_STATE_SUCCESSFUL, CMD_STATE_FAIL
  <1>5. StateOfSFCI' = STATE_UNDELETED
    <2>1. issued[r].cmdType \in {"ADD_SFCI", "DEL_SFCI"}
      BY <1>2 DEF Dels
    <2> QED
      BY <1>1, <1>2, <1>4, <2>1, SuccessStateLemma DEF Wrote, Dels
  <1>6. /\ QueueOf(SFF)' = QueueOf(SFF) /\ (ActedOn(p, SFF)' <=> ActedOn(p, SFF))
        /\ \A x : Dels(x)' <=> Dels(x)
        /\ UNCHANGED <<sffSFCI, outcomes>>
    BY <1>1 DEF vars, QueueOf, ActedOn, Dels
  <1>7. DelsAfter(QueueOf(SFF), p)'
    BY <1>6 DEF Undeleted, DelsAfter
  <1>8. Forgot(p) => Forgot(p)'
    BY <1>3, <1>6 DEF Forgot
  <1> QED
    BY <1>3, <1>5, <1>6, <1>7, <1>8 DEF Undeleted

LEMMA CarriesUndeleted ==
    ASSUME OneZone, LifecycleInv, NEW p \in Cmds, Undeletable(p), Undeleted(p),
           NEW q \in Controller \X Zones, NEW c \in ChildID, NEW s \in Determined, Carries(q, c, s)
    PROVE  Undeleted(p)'
  <1>0. /\ MediatorInv /\ TableInv /\ OrderInv /\ ActedInv
        /\ controllerQueue \in [Controller \X Zones -> Seq(ChildID)]
        /\ controllerQueue' = [controllerQueue EXCEPT ![q] = Tail(@)]
        /\ controllerQueue[q] # <<>> /\ c = Head(controllerQueue[q])
        /\ c \in Elems(controllerQueue[q]) /\ outcomes' = outcomes \cup {<<c, s>>}
    BY DEF LifecycleInv, Carries, MediatorInv, IInv, TypeOK
  <1>1. /\ c[1] \in Cmds /\ c[2] = q[1] /\ (Adds(c[1]) <=> ~Dels(c[1]))
        /\ q[1] = SFF => (sffSFCI' <=> Adds(c[1]))
        /\ q[1] # SFF => UNCHANGED sffSFCI
        /\ UNCHANGED <<db, issued>>
    BY <1>0, CarriesLemma
  <1>2. /\ q = <<q[1], theZone>> /\ QueueOf(SFF) \in Seq(ChildID)
        /\ QueueOf(SFF)' = IF q[1] = SFF THEN Tail(QueueOf(SFF)) ELSE QueueOf(SFF)
        /\ q[1] = SFF => /\ QueueOf(SFF) # <<>> /\ c = Head(QueueOf(SFF))
                         /\ c \in Elems(QueueOf(SFF))
    BY <1>0, TwoQueues DEF QueueOf
  <1>3. /\ \A x : (Dels(x)' <=> Dels(x)) /\ (Open(x)' <=> Open(x))
        /\ StateOfSFCI' = StateOfSFCI
    BY <1>1 DEF Dels, Open, StateOfSFCI, hasSFCI
  <1>4. \A o \in {<<c, s>>} : o[1] = c /\ o[2] = s
    OBVIOUS
  <1>5. DelsAfter(QueueOf(SFF), p)'
    <2>1. DelsAfter(QueueOf(SFF)', p)
      <3>1. DelsAfter(QueueOf(SFF), p)
        BY DEF Undeleted
      <3>2. QueueOf(SFF) # <<>> => DelsAfter(Tail(QueueOf(SFF)), p)
        BY <1>2, <3>1, DelsAfterLemma
      <3> QED
        BY <1>2, <3>1, <3>2
    <2> QED
      BY <1>3, <2>1 DEF DelsAfter
  <1>6. Elems(QueueOf(SFF)') \subseteq Elems(QueueOf(SFF))
    BY <1>2, TakeLemma
  <1>7. ASSUME ActedOn(p, SFF)' PROVE Forgot(p)'
    <2>1. CASE q[1] # SFF
      <3>1. \A o \in outcomes' : o[1][2] = SFF => o \in outcomes
        BY <1>0, <1>1, <1>4, <2>1
      <3>2. ActedOn(p, SFF)
        BY <1>7, <3>1 DEF ActedOn
      <3>3. Forgot(p)
        BY <3>2 DEF Undeleted
      <3> QED
        BY <1>1, <1>3, <1>6, <2>1, <3>1, <3>3 DEF Forgot
    <2>2. CASE q[1] = SFF /\ ActedOn(p, SFF)
      <3>1. Forgot(p)
        BY <2>2 DEF Undeleted
      <3>2. Dels(c[1]) /\ ~sffSFCI'
        BY <1>1, <1>2, <2>2, <3>1 DEF Forgot
      <3>3. s = CMD_STATE_FAIL
        BY <2>2, <3>1, <3>2 DEF Carries, SFFTable, Forgot, Dels, Determined
      <3> QED
        BY <1>0, <1>3, <1>4, <1>6, <3>1, <3>2, <3>3 DEF Forgot
    <2>3. CASE q[1] = SFF /\ ~ActedOn(p, SFF)
      <3>1. c[1] = p
        BY <1>0, <1>4, <1>7, <2>3 DEF ActedOn
      <3>2. Dels(p) /\ ~sffSFCI'
        BY <1>1, <2>3, <3>1 DEF Undeletable
      <3>3. \A d \in Elems(QueueOf(SFF)') : Dels(d[1])
        BY <1>2, <2>3, <3>1, DelsAfterLemma DEF Undeleted
      <3>4. \A r \in Cmds : Open(r) /\ r # p => ~ActedOn(r, SFF)
        BY <1>0, <1>2, <2>3, <3>1, TwoQueues DEF ActedInv
      <3>5. ASSUME NEW r \in Cmds, Open(r), r # p, NEW o \in outcomes', o[1][1] = r, o[1][2] = SFF
            PROVE  FALSE
        BY <1>0, <1>4, <3>1, <3>4, <3>5 DEF ActedOn
      <3> QED
        BY <1>3, <3>2, <3>3, <3>5 DEF Forgot
    <2> QED
      BY <2>1, <2>2, <2>3
  <1> QED
    BY <1>3, <1>5, <1>7 DEF Undeleted

LEMMA MediateUndeleted ==
    ASSUME OneZone, LifecycleInv, NEW p \in Cmds, Undeletable(p), Undeleted(p),
           [LifecycleNext]_lifecycleVars,
           UNCHANGED <<db, issued, outcomes, sffSFCI>>
    PROVE  Undeleted(p)'
  <1>0. MediatorInv /\ TableInv
    BY DEF LifecycleInv
  <1>1. <<SFF, theZone>> \in Controller \X Zones /\ QueueOf(SFF) \in Seq(ChildID)
    BY <1>0, TwoQueues
  <1>2. /\ \A x : (Dels(x)' <=> Dels(x)) /\ (Open(x)' <=> Open(x))
        /\ StateOfSFCI' = StateOfSFCI /\ (ActedOn(p, SFF)' <=> ActedOn(p, SFF))
    BY DEF Dels, Open, StateOfSFCI, hasSFCI, ActedOn
  <1>3. DelsAfter(QueueOf(SFF)', p)
    <2>1. DelsAfter(QueueOf(SFF), p) /\ Dels(p) /\ \A r \in Cmds : Open(r) => Dels(r)
      BY DEF Undeleted, Undeletable
    <2>2. PICK q \in Controller \X Zones : q = <<SFF, theZone>>
      BY <1>1
    <2>3. QueueOf(SFF) = controllerQueue[q] /\ QueueOf(SFF)' = controllerQueue'[q]
      BY <2>2 DEF QueueOf
    <2>4. /\ QueueOf(SFF) # <<>> => /\ DelsAfter(Tail(QueueOf(SFF)), p)
                                   /\ DelsAfter(<<Head(QueueOf(SFF))>> \o QueueOf(SFF), p)
          /\ \A c \in ChildID : Dels(c[1]) => DelsAfter(Append(QueueOf(SFF), c), p)
      BY <1>1, <2>1, DelsAfterLemma
    <2>5. \/ QueueOf(SFF)' = QueueOf(SFF)
          \/ QueueOf(SFF) # <<>> /\ QueueOf(SFF)' = Tail(QueueOf(SFF))
          \/ QueueOf(SFF) # <<>> /\ QueueOf(SFF)' = <<Head(QueueOf(SFF))>> \o QueueOf(SFF)
          \/ \E c \in ChildID : /\ c[1] \in Cmds /\ Open(c[1])
                                /\ QueueOf(SFF)' = Append(QueueOf(SFF), c)
      BY <1>0, <2>3, QueueCases
    <2> QED
      BY <2>1, <2>4, <2>5
  <1>4. \A c \in Elems(QueueOf(SFF)') : c \in Elems(QueueOf(SFF)) \/ Dels(c[1])
    BY <1>0, <1>1, ElemsLemma DEF Undeleted, QueueOf
  <1>5. DelsAfter(QueueOf(SFF), p)'
    BY <1>2, <1>3 DEF DelsAfter
  <1>6. Forgot(p) => Forgot(p)'
    BY <1>2, <1>4 DEF Forgot
  <1> QED
    BY <1>2, <1>5, <1>6 DEF Undeleted

LEMMA NextUndeletedInv ==
    ASSUME OneZone, LifecycleInv, LifecycleInv', UndeletedInv, [LifecycleNext]_lifecycleVars
    PROVE  UndeletedInv'
  <1> SUFFICES ASSUME NEW p \in Cmds, Undeletable(p)' PROVE Undeleted(p)'
    BY DEF UndeletedInv
  <1>0. MediatorInv /\ TableInv
    BY DEF LifecycleInv
  <1>1. CASE Open(p)'
    <2>1. (MediatorInv /\ TableInv /\ OrderInv /\ ActedInv /\ Open(p) /\ Dels(p))'
      BY <1>1 DEF LifecycleInv, Undeletable
    <2> QED
      BY <2>1, OpenUndeleted, PTL
  <1>2. CASE ~Open(p)'
    <2>1. Undeletable(p) /\ Undeleted(p)
      BY <1>2, WasUndeletable DEF UndeletedInv
    <2>2. ASSUME NEW r \in Cmds, NEW cmd \in Command, Sends(r, cmd), OpenCmds = {}
          PROVE  Undeleted(p)'
      <3>1. r # p
        BY <1>2, <2>2 DEF Sends, Wrote, Open
      <3> QED
        BY <2>1, <2>2, <3>1, SendsUndeleted
    <2>3. ASSUME NEW r \in Cmds, CmdRply(r) PROVE Undeleted(p)'
      BY <2>1, <2>3, CmdRplyUndeleted
    <2>4. ASSUME NEW q \in Controller \X Zones, NEW c \in ChildID, NEW s \in Determined,
                 Carries(q, c, s)
          PROVE  Undeleted(p)'
      BY <2>1, <2>4, CarriesUndeleted
    <2>5. ASSUME Mediate \/ UNCHANGED lifecycleVars PROVE Undeleted(p)'
      <3>1. UNCHANGED <<db, issued, outcomes, sffSFCI>>
        BY <1>0, <2>5, MediateCases DEF lifecycleVars, vars
      <3> QED
        BY <2>1, <3>1, MediateUndeleted
    <2> QED
      BY <1>0, <2>2, <2>3, <2>4, <2>5, StepCases
  <1> QED
    BY <1>1, <1>2

\* delSFCIHandler takes the SFCI out of its table before anything can fail, so that a
\* deletion that failed elsewhere can never be repeated with success: the SFCI is
\* UNDELETED, or IN_PROCESSING, for ever.
THEOREM NeverDeletedAgain ==
    ASSUME OneZone, "cmd" \notin Redeliverable
    PROVE  LifecycleSpec => []UndeletedForEver
  <1>1. LifecycleInit => UndeletedInv
    BY DEF LifecycleInit, Init, UndeletedInv, Undeletable
  <1>2. LifecycleInv /\ LifecycleInv' /\ UndeletedInv /\ [LifecycleNext]_lifecycleVars
           => UndeletedInv'
    BY NextUndeletedInv
  <1>3. UndeletedInv => UndeletedForEver
    BY DEF UndeletedInv, Undeletable, Undeleted, UndeletedForEver, ActedOn, Dels
  <1> QED
    BY <1>1, <1>2, <1>3, LifecycleInvariance, PTL DEF LifecycleSpec
-----------------------------------------------------------------------------
(***************************************************************************)
(* An SFCI that is ACTIVE the first time is deployed.                      *)
(***************************************************************************)
\* The children that were carried out.
Carried == {o[1] : o \in outcomes}

\* The repetitions of a child follow it at once; one in A is the next to be taken.
InTurn(s, A) ==
    /\ \A i, j, k \in 1..Len(s) : i < j /\ j < k /\ s[i] = s[k] => s[j] = s[i]
    /\ \A i \in 1..Len(s) : s[i] \in A => \A j \in 1..i : s[j] = s[i]

\* No child is there twice, and none that is in A.
Once(s, A) ==
    /\ \A i, j \in 1..Len(s) : s[i] = s[j] => i = j
    /\ \A i \in 1..Len(s) : s[i] \notin A

\* What is known of the VNF controller's queue, and of its outcomes when nothing
\* was delivered twice.
RepeatInv ==
    /\ InTurn(QueueOf(VNF), Carried)
    /\ \A c \in Elems(QueueOf(VNF)) : c \in Carried /\ Adds(c[1]) => vnfSFCI # "absent"
    /\ redeliveries = 0 =>
          /\ Once(QueueOf(VNF), Carried)
          /\ \A o, u \in outcomes : o[1] = u[1] /\ o[1][2] = VNF => o = u

\* VNFs that are not running are those of a child that failed.
FailedInv ==
    /\ vnfSFCI \in {"absent", "deployed", "failed"}
    /\ vnfSFCI = "failed" =>
          \E p \in Cmds : /\ issued[p] # None /\ Adds(p)
                          /\ <<<<p, VNF, 1>>, CMD_STATE_FAIL>> \in outcomes

LEMMA InTurnTakes ==
    ASSUME NEW s \in Seq(ChildID), s # <<>>, NEW A, InTurn(s, A)
    PROVE  InTurn(Tail(s), A) /\ InTurn(Tail(s), A \cup {Head(s)})
  <1>1. \A i \in 1..Len(Tail(s)) : i + 1 \in 1..Len(s) /\ Tail(s)[i] = s[i + 1]
    BY TakeLemma
  <1>2. Len(Tail(s)) \in Nat /\ Len(s) \in Nat /\ Head(s) = s[1] /\ 1 \in 1..Len(s)
    OBVIOUS
  <1>3. ASSUME NEW i \in 1..Len(Tail(s)), NEW j \in 1..Len(Tail(s)), NEW k \in 1..Len(Tail(s)),
               i < j, j < k, Tail(s)[i] = Tail(s)[k]
        PROVE  Tail(s)[j] = Tail(s)[i]
    <2>1. i + 1 < j + 1 /\ j + 1 < k + 1
      BY <1>2, <1>3
    <2> QED
      BY <1>1, <1>3, <2>1 DEF InTurn
  <1>4. ASSUME NEW i \in 1..Len(Tail(s)), NEW j \in 1..i, Tail(s)[i] \in A \cup {Head(s)}
        PROVE  Tail(s)[j] = Tail(s)[i]
    <2>1. j \in 1..Len(Tail(s)) /\ j + 1 \in 1..(i + 1)
      BY <1>2
    <2>2. CASE Tail(s)[i] \in A
      BY <1>1, <2>1, <2>2 DEF InTurn
    <2>3. CASE Tail(s)[i] = Head(s)
      <3>1. s[1] = s[i + 1] /\ i + 1 \in 1..Len(s) /\ j + 1 \in 1..Len(s)
        BY <1>1, <1>2, <2>1, <2>3
      <3>2. j = i \/ (1 < j + 1 /\ j + 1 < i + 1)
        BY <1>2
      <3>3. s[j + 1] = s[i + 1]
        BY <1>2, <3>1, <3>2 DEF InTurn
      <3> QED
        BY <1>1, <2>1, <3>3
    <2> QED
      BY <1>4, <2>2, <2>3
  <1> QED
    BY <1>3, <1>4 DEF InTurn

LEMMA InTurnRepeats ==
    ASSUME NEW s \in Seq(ChildID), s # <<>>, NEW A, InTurn(s, A)
    PROVE  InTurn(<<Head(s)>> \o s, A)
  <1>1. PICK t : t = <<Head(s)>> \o s
    OBVIOUS
  <1>2. \A i \in 1..Len(t) : \/ i = 1 /\ t[i] = s[1] /\ 1 \in 1..Len(s)
                             \/ i # 1 /\ i - 1 \in 1..Len(s) /\ t[i] = s[i - 1]
    BY <1>1, RedeliverLemma
  <1>3. Len(s) \in Nat /\ Len(t) \in Nat
    BY <1>1, RedeliverLemma
  <1>4. ASSUME NEW i \in 1..Len(t), NEW j \in 1..Len(t), NEW k \in 1..Len(t),
               i < j, j < k, t[i] = t[k]
        PROVE  t[j] = t[i]
    <2>1. j # 1 /\ k # 1 /\ j - 1 < k - 1 /\ j - 1 \in 1..Len(s) /\ k - 1 \in 1..Len(s)
      BY <1>2, <1>3, <1>4
    <2>2. CASE i = 1
      <3>1. s[1] = s[k - 1] /\ 1 \in 1..Len(s) /\ (j = 2 \/ 1 < j - 1)
        BY <1>2, <1>3, <1>4, <2>1, <2>2
      <3>2. s[j - 1] = s[1]
        BY <1>3, <2>1, <3>1 DEF InTurn
      <3> QED
        BY <1>2, <2>1, <2>2, <3>2
    <2>3. CASE i # 1
      <3>1. i - 1 \in 1..Len(s) /\ i - 1 < j - 1 /\ s[i - 1] = s[k - 1]
        BY <1>2, <1>3, <1>4, <2>1, <2>3
      <3>2. s[j - 1] = s[i - 1]
        BY <2>1, <3>1 DEF InTurn
      <3> QED
        BY <1>2, <2>1, <2>3, <3>2
    <2> QED
      BY <2>2, <2>3
  <1>5. ASSUME NEW i \in 1..Len(t), NEW j \in 1..i, t[i] \in A
        PROVE  t[j] = t[i]
    <2>1. j \in 1..Len(t)
      BY <1>3
    <2>2. CASE i = 1
      BY <1>3, <2>2
    <2>3. CASE i # 1
      <3>1. i - 1 \in 1..Len(s) /\ s[i - 1] \in A /\ 1 \in 1..(i - 1)
        BY <1>2, <1>3, <1>5, <2>3
      <3>2. \A x \in 1..(i - 1) : s[x] = s[i - 1]
        BY <3>1 DEF InTurn
      <3>3. j # 1 => j - 1 \in 1..(i - 1)
        BY <1>3
      <3> QED
        BY <1>2, <2>1, <2>3, <3>1, <3>2, <3>3
    <2> QED
      BY <2>2, <2>3
  <1> QED
    BY <1>1, <1>4, <1>5 DEF InTurn

LEMMA InTurnSends ==
    ASSUME NEW s \in Seq(ChildID), NEW A, InTurn(s, A), NEW c \in ChildID,
           c \notin Elems(s), c \notin A
    PROVE  InTurn(Append(s, c), A)
  <1>1. PICK t : t = Append(s, c)
    OBVIOUS
  <1>2. \A i \in 1..Len(t) : \/ i \in 1..Len(s) /\ t[i] = s[i]
                             \/ i = Len(s) + 1 /\ t[i] = c
    BY <1>1, AppendLemma
  <1>3. Len(s) \in Nat /\ Len(t) = Len(s) + 1
    BY <1>1
  <1>4. \A i \in 1..Len(s) : s[i] # c
    BY DEF Elems
  <1>5. ASSUME NEW i \in 1..Len(t), NEW j \in 1..Len(t), NEW k \in 1..Len(t),
               i < j, j < k, t[i] = t[k]
        PROVE  t[j] = t[i]
    <2>1. i \in 1..Len(s) /\ j \in 1..Len(s)
      BY <1>3, <1>5
    <2>2. k \in 1..Len(s)
      BY <1>2, <1>3, <1>4, <1>5, <2>1
    <2> QED
      BY <1>2, <1>3, <1>5, <2>1, <2>2 DEF InTurn
  <1>6. ASSUME NEW i \in 1..Len(t), NEW j \in 1..i, t[i] \in A
        PROVE  t[j] = t[i]
    <2>1. i \in 1..Len(s) /\ t[i] = s[i]
      BY <1>2, <1>6
    <2>2. j \in 1..Len(s) /\ j \in 1..Len(t) /\ j # Len(s) + 1
      BY <1>3, <2>1
    <2> QED
      BY <1>2, <1>6, <2>1, <2>2 DEF InTurn
  <1> QED
    BY <1>1, <1>5, <1>6 DEF InTurn

LEMMA OnceLemma ==
    ASSUME NEW s \in Seq(ChildID), NEW A, Once(s, A)
    PROVE  /\ s # <<>> => /\ Once(Tail(s), A) /\ Once(Tail(s), A \cup {Head(s)})
                          /\ Head(s) \notin A
           /\ \A c \in ChildID : c \notin Elems(s) /\ c \notin A => Once(Append(s, c), A)
  <1>1. ASSUME s # <<>>
        PROVE  Once(Tail(s), A) /\ Once(Tail(s), A \cup {Head(s)}) /\ Head(s) \notin A
    <2>1. \A i \in 1..Len(Tail(s)) : i + 1 \in 1..Len(s) /\ Tail(s)[i] = s[i + 1]
      BY <1>1, TakeLemma
    <2>2. Len(Tail(s)) \in Nat /\ Len(s) \in Nat /\ Head(s) = s[1] /\ 1 \in 1..Len(s)
      BY <1>1
    <2>3. \A i \in 1..Len(Tail(s)) : Tail(s)[i] \notin A /\ Tail(s)[i] # Head(s)
      <3> SUFFICES ASSUME NEW i \in 1..Len(Tail(s))
                   PROVE  Tail(s)[i] \notin A /\ Tail(s)[i] # Head(s)
        OBVIOUS
      <3>1. i + 1 # 1
        BY <2>2
      <3> QED
        BY <2>1, <2>2, <3>1 DEF Once
    <2>4. \A i, j \in 1..Len(Tail(s)) : Tail(s)[i] = Tail(s)[j] => i = j
      <3> SUFFICES ASSUME NEW i \in 1..Len(Tail(s)), NEW j \in 1..Len(Tail(s)),
                          Tail(s)[i] = Tail(s)[j]
                   PROVE  i = j
        OBVIOUS
      <3>1. i + 1 = j + 1
        BY <2>1 DEF Once
      <3> QED
        BY <2>2, <3>1
    <2> QED
      BY <2>2, <2>3, <2>4 DEF Once
  <1>2. ASSUME NEW c \in ChildID, c \notin Elems(s), c \notin A PROVE Once(Append(s, c), A)
    <2>1. \A i \in 1..Len(Append(s, c)) : \/ i \in 1..Len(s) /\ Append(s, c)[i] = s[i]
                                          \/ i = Len(s) + 1 /\ Append(s, c)[i] = c
      BY AppendLemma
    <2>2. \A i \in 1..Len(s) : s[i] # c
      BY <1>2 DEF Elems
    <2> QED
      BY <1>2, <2>1, <2>2 DEF Once
  <1> QED
    BY <1>1, <1>2

LEMMA CarriedLemma ==
    ASSUME MediatorInv
    PROVE  \A c \in Carried : /\ c \in ChildID /\ c[1] \in Cmds /\ IsChildOf(c, c[1])
                              /\ \E s \in Determined : <<c, s>> \in outcomes
  <1>1. \A o \in outcomes : o = <<o[1], o[2]>> /\ o[2] \in Determined /\ SentOK(o[1])
    BY ActedLemmaFor DEF MediatorInv, IInv, QueueInv
  <1> QED
    BY <1>1 DEF Carried, SentOK, IsChildOf

\* What the mediator and the broker do to the VNF controller's queue.
LEMMA VNFQueueCases ==
    ASSUME OneZone, MediatorInv, OrderInv, Mediate
    PROVE  \/ QueueOf(VNF)' = QueueOf(VNF) /\ redeliveries' \in {redeliveries, redeliveries + 1}
           \/ QueueOf(VNF) # <<>> /\ QueueOf(VNF)' = Tail(QueueOf(VNF)) /\ UNCHANGED redeliveries
           \/ /\ QueueOf(VNF) # <<>> /\ QueueOf(VNF)' = <<Head(QueueOf(VNF))>> \o QueueOf(VNF)
              /\ redeliveries' = redeliveries + 1
           \/ /\ \E c \in ChildID : /\ c \notin Elems(QueueOf(VNF)) /\ c \notin Carried
                                    /\ QueueOf(VNF)' = Append(QueueOf(VNF), c)
              /\ UNCHANGED redeliveries
  <1>0. /\ controllerQueue \in [Controller \X Zones -> Seq(ChildID)]
        /\ <<VNF, theZone>> \in Controller \X Zones
        /\ handled \in [Cmds -> Nat]
    BY TwoQueues DEF MediatorInv, IInv, TypeOK
  <1>1. PICK q \in Controller \X Zones : q = <<VNF, theZone>>
    BY <1>0
  <1>2. QueueOf(VNF) = controllerQueue[q] /\ QueueOf(VNF)' = controllerQueue'[q]
    BY <1>1 DEF QueueOf
  <1>3. ASSUME NEW p \in Cmds, Forwards(p, 1), UNCHANGED redeliveries
        PROVE  \/ QueueOf(VNF)' = QueueOf(VNF)
               \/ \E c \in ChildID : /\ c \notin Elems(QueueOf(VNF)) /\ c \notin Carried
                                     /\ QueueOf(VNF)' = Append(QueueOf(VNF), c)
    <2>1. PICK c \in ChildID : c = <<p, q[1], 1>>
      BY DEF ChildID
    <2>2. controllerQueue'[q] \in {controllerQueue[q], Append(controllerQueue[q], c)}
      BY <1>3, <2>1 DEF Forwards
    <2>3. ~IsChildOf(c, c[1])
      BY <1>0, <1>3, <2>1 DEF Forwards, IsChildOf
    <2>4. c \notin Carried
      BY <2>3, CarriedLemma
    <2>5. c \notin Elems(controllerQueue[q])
      BY <2>3 DEF MediatorInv, IInv, QueueInv, SentOK
    <2> QED
      BY <1>2, <2>2, <2>4, <2>5
  <1>4. ASSUME NEW p \in Cmds, NEW c \in ChildID, Releases(p, c)
        PROVE  \/ QueueOf(VNF)' = QueueOf(VNF)
               \/ \E d \in ChildID : /\ d \notin Elems(QueueOf(VNF)) /\ d \notin Carried
                                     /\ QueueOf(VNF)' = Append(QueueOf(VNF), d)
    <2>1. controllerQueue'[q] \in {controllerQueue[q], Append(controllerQueue[q], c)}
      BY <1>4 DEF Releases
    <2>2. c \notin Elems(controllerQueue[q]) /\ c \notin Carried
      BY <1>4 DEF Releases, Carried
    <2> QED
      BY <1>2, <2>1, <2>2
  <1>5. ASSUME NEW r \in Controller \X Zones, Repeats(r)
        PROVE  \/ QueueOf(VNF)' = QueueOf(VNF)
               \/ /\ QueueOf(VNF) # <<>>
                  /\ QueueOf(VNF)' = <<Head(QueueOf(VNF))>> \o QueueOf(VNF)
    <2>1. \/ controllerQueue'[q] = controllerQueue[q]
          \/ /\ controllerQueue[q] # <<>>
             /\ controllerQueue'[q] = <<Head(controllerQueue[q])>> \o controllerQueue[q]
      BY <1>0, <1>5 DEF Repeats
    <2> QED
      BY <1>2, <2>1
  <1>6. ASSUME NEW r \in Controller \X Zones, Drops(r)
        PROVE  \/ QueueOf(VNF)' = QueueOf(VNF)
               \/ QueueOf(VNF) # <<>> /\ QueueOf(VNF)' = Tail(QueueOf(VNF))
    BY <1>0, <1>2, <1>6 DEF Drops
  <1>7. UNCHANGED redeliveries \/ redeliveries' = redeliveries + 1
    BY DEF Mediate, StartMediator, CommandReplyHandler, ForwardCmd, RejectCmd, DropRply,
           LastSuccess, FirstFailure, AfterFailure, PartialSuccess, Redeliver, LoseMsg
  <1>8. \A r \in Controller \X Zones : Drops(r) /\ losses' = losses + 1 => UNCHANGED redeliveries
    <2>1. LoseMsg => UNCHANGED redeliveries
      BY DEF LoseMsg
    <2>2. StartMediator \/ Redeliver => UNCHANGED losses
      BY DEF StartMediator, CommandReplyHandler, ForwardCmd, RejectCmd, DropRply, LastSuccess,
             FirstFailure, AfterFailure, PartialSuccess, Redeliver
    <2>3. losses \in Nat
      BY DEF MediatorInv, IInv, TypeOK
    <2> QED
      BY <2>1, <2>2, <2>3 DEF Mediate
  <1>9. UNCHANGED controllerQueue => QueueOf(VNF)' = QueueOf(VNF)
    BY DEF QueueOf
  <1> QED
    BY <1>3, <1>4, <1>5, <1>6, <1>7, <1>8, <1>9, MediateCases DEF Forwards, Releases, Repeats

LEMMA NextRepeatInv ==
    ASSUME OneZone, LifecycleInv, RepeatInv, [LifecycleNext]_lifecycleVars
    PROVE  RepeatInv'
  <1>0. /\ MediatorInv /\ TableInv /\ OrderInv /\ redeliveries \in Nat
        /\ QueueOf(VNF) \in Seq(ChildID) /\ <<VNF, theZone>> \in Controller \X Zones
        /\ VNF \in Controller
    BY TwoQueues DEF LifecycleInv, MediatorInv, IInv, TypeOK
  <1>1. \A c \in Elems(QueueOf(VNF)) : /\ c \in ChildID /\ c[1] \in Cmds /\ issued[c[1]] # None
                                       /\ c[2] = VNF
    BY <1>0, SentLemma DEF QueueOf, OrderInv
  <1>2. ASSUME UNCHANGED <<controllerQueue, outcomes, vnfSFCI, redeliveries>>,
               \A p \in Cmds : issued[p] # None => issued'[p] = issued[p]
        PROVE  RepeatInv'
    <2>1. QueueOf(VNF)' = QueueOf(VNF) /\ Carried' = Carried
      BY <1>2 DEF QueueOf, Carried
    <2>2. \A c \in Elems(QueueOf(VNF)) : Adds(c[1])' <=> Adds(c[1])
      BY <1>1, <1>2 DEF Adds
    <2> QED
      BY <1>2, <2>1, <2>2 DEF RepeatInv
  <1>3. ASSUME NEW r \in Cmds, NEW cmd \in Command, Sends(r, cmd) PROVE RepeatInv'
    BY <1>2, <1>3 DEF Sends
  <1>4. ASSUME NEW r \in Cmds, CmdRply(r) PROVE RepeatInv'
    BY <1>2, <1>4 DEF CmdRply, vars
  <1>5. ASSUME NEW q \in Controller \X Zones, NEW c \in ChildID, NEW s \in Determined,
               Carries(q, c, s)
        PROVE  RepeatInv'
    <2>1. /\ q = <<q[1], theZone>> /\ c[2] = q[1] /\ (Adds(c[1]) <=> ~Dels(c[1]))
          /\ q[1] = VNF => (vnfSFCI' = "absent" <=> Dels(c[1]))
          /\ UNCHANGED <<issued, redeliveries>>
          /\ q[1] # VNF => UNCHANGED vnfSFCI
      <3>1. q = <<q[1], theZone>>
        BY <1>0, TwoQueues
      <3>2. /\ c[2] = q[1] /\ (Adds(c[1]) <=> ~Dels(c[1]))
            /\ q[1] = VNF => (vnfSFCI' = "absent" <=> Dels(c[1]))
            /\ q[1] = SFF \/ q[1] \notin {SFF, VNF} => UNCHANGED vnfSFCI
        BY <1>0, <1>5, CarriesLemma
      <3>3. UNCHANGED <<issued, redeliveries>>
        BY <1>5 DEF Carries
      <3> QED
        BY <3>1, <3>2, <3>3
    <2>2. /\ outcomes' = outcomes \cup {<<c, s>>}
          /\ \A o \in {<<c, s>>} : o[1] = c
      BY <1>5 DEF Carries
    <2>3. Carried' = Carried \cup {c}
      <3>1. {<<c, s>>[1]} = {c}
        OBVIOUS
      <3> QED
        BY <2>2, <3>1 DEF Carried
    <2>4. \A p : Adds(p)' <=> Adds(p)
      BY <2>1 DEF Adds
    <2>5. CASE q[1] = VNF
      <3>1. /\ QueueOf(VNF)' = Tail(QueueOf(VNF)) /\ QueueOf(VNF) # <<>>
            /\ c = Head(QueueOf(VNF)) /\ c = QueueOf(VNF)[1] /\ 1 \in 1..Len(QueueOf(VNF))
            /\ Elems(Tail(QueueOf(VNF))) \subseteq Elems(QueueOf(VNF))
        <4>1. controllerQueue'[q] = Tail(controllerQueue[q])
          BY <1>5 DEF Carries, MediatorInv, IInv, TypeOK, LifecycleInv
        <4>2. controllerQueue[q] # <<>> /\ c = Head(controllerQueue[q])
          BY <1>5 DEF Carries
        <4>3. QueueOf(VNF) = controllerQueue[q] /\ QueueOf(VNF)' = controllerQueue'[q]
          BY <2>1, <2>5 DEF QueueOf
        <4> QED
          BY <1>0, <4>1, <4>2, <4>3, TakeLemma
      <3>2. InTurn(QueueOf(VNF), Carried)'
        BY <1>0, <2>3, <3>1, InTurnTakes DEF RepeatInv
      <3>3. ASSUME NEW d \in Elems(QueueOf(VNF)'), d \in Carried \cup {c}, Adds(d[1])
            PROVE  vnfSFCI' # "absent"
        <4>1. d \in Elems(QueueOf(VNF))
          BY <3>1, <3>3
        <4>2. PICK i \in 1..Len(QueueOf(VNF)) : d = QueueOf(VNF)[i]
          BY <4>1 DEF Elems
        <4>3. d \in Carried => d = c
          <5>1. 1 \in 1..i
            OBVIOUS
          <5> QED
            BY <3>1, <4>2, <5>1 DEF RepeatInv, InTurn
        <4>4. d = c
          BY <3>3, <4>3
        <4> QED
          BY <2>1, <2>5, <3>3, <4>4
      <3>4. ASSUME redeliveries = 0
            PROVE  /\ Once(QueueOf(VNF), Carried)'
                   /\ \A o, u \in outcomes' : o[1] = u[1] /\ o[1][2] = VNF => o = u
        <4>1. Once(Tail(QueueOf(VNF)), Carried \cup {c}) /\ c \notin Carried
          BY <1>0, <3>1, <3>4, OnceLemma DEF RepeatInv
        <4>2. \A o \in outcomes : o[1] # c
          BY <4>1 DEF Carried
        <4> QED
          BY <2>2, <2>3, <3>1, <3>4, <4>1, <4>2 DEF RepeatInv
      <3> QED
        BY <2>1, <2>3, <2>4, <3>2, <3>3, <3>4 DEF RepeatInv
    <2>6. CASE q[1] # VNF
      <3>1. QueueOf(VNF)' = QueueOf(VNF)
        BY <1>0, <1>5, <2>1, <2>6 DEF Carries, QueueOf, MediatorInv, IInv, TypeOK
      <3>2. c \notin Elems(QueueOf(VNF))
        BY <1>1, <2>1, <2>6
      <3>3. \A i \in 1..Len(QueueOf(VNF)) : QueueOf(VNF)[i] # c
        BY <3>2 DEF Elems
      <3>4. InTurn(QueueOf(VNF), Carried)'
        BY <2>3, <3>1, <3>3 DEF RepeatInv, InTurn
      <3>5. redeliveries = 0 => /\ Once(QueueOf(VNF), Carried)'
                                /\ \A o, u \in outcomes' : o[1] = u[1] /\ o[1][2] = VNF => o = u
        BY <2>1, <2>2, <2>3, <2>6, <3>1, <3>3 DEF RepeatInv, Once
      <3> QED
        BY <2>1, <2>3, <2>4, <2>6, <3>1, <3>2, <3>4, <3>5 DEF RepeatInv
    <2> QED
      BY <2>5, <2>6
  <1>6. ASSUME Mediate PROVE RepeatInv'
    <2>1. UNCHANGED <<issued, outcomes, vnfSFCI>>
      BY <1>0, <1>6, MediateCases
    <2>2. Carried' = Carried /\ \A p : Adds(p)' <=> Adds(p)
      BY <2>1 DEF Carried, Adds
    <2>3. redeliveries' = redeliveries + 1 => redeliveries' # 0
      BY <1>0
    <2>4. ASSUME Elems(QueueOf(VNF)') \subseteq Elems(QueueOf(VNF)),
                 InTurn(QueueOf(VNF)', Carried),
                 redeliveries' = 0 => redeliveries = 0 /\ Once(QueueOf(VNF)', Carried)
          PROVE  RepeatInv'
      BY <2>1, <2>2, <2>4 DEF RepeatInv
    <2>5. CASE /\ QueueOf(VNF)' = QueueOf(VNF)
               /\ redeliveries' \in {redeliveries, redeliveries + 1}
      BY <2>3, <2>4, <2>5 DEF RepeatInv
    <2>6. CASE /\ QueueOf(VNF) # <<>> /\ QueueOf(VNF)' = Tail(QueueOf(VNF))
               /\ UNCHANGED redeliveries
      <3>1. InTurn(Tail(QueueOf(VNF)), Carried)
        BY <1>0, <2>6, InTurnTakes DEF RepeatInv
      <3>2. ASSUME redeliveries = 0 PROVE Once(Tail(QueueOf(VNF)), Carried)
        <4>1. Once(QueueOf(VNF), Carried)
          BY <3>2 DEF RepeatInv
        <4> QED
          BY <1>0, <2>6, <4>1, OnceLemma
      <3>3. Elems(Tail(QueueOf(VNF))) \subseteq Elems(QueueOf(VNF))
        BY <1>0, <2>6, TakeLemma
      <3> QED
        BY <2>4, <2>6, <3>1, <3>2, <3>3
    <2>7. CASE /\ QueueOf(VNF) # <<>>
               /\ QueueOf(VNF)' = <<Head(QueueOf(VNF))>> \o QueueOf(VNF)
               /\ redeliveries' = redeliveries + 1
      BY <1>0, <2>3, <2>4, <2>7, RedeliverLemma, InTurnRepeats DEF RepeatInv
    <2>8. ASSUME NEW c \in ChildID, c \notin Elems(QueueOf(VNF)), c \notin Carried,
                 QueueOf(VNF)' = Append(QueueOf(VNF), c), UNCHANGED redeliveries
          PROVE  RepeatInv'
      <3>1. InTurn(QueueOf(VNF)', Carried)
        BY <1>0, <2>8, InTurnSends DEF RepeatInv
      <3>2. ASSUME redeliveries' = 0 PROVE Once(QueueOf(VNF)', Carried)
        <4>1. Once(QueueOf(VNF), Carried)
          BY <2>8, <3>2 DEF RepeatInv
        <4>2. \A d \in ChildID : d \notin Elems(QueueOf(VNF)) /\ d \notin Carried
                 => Once(Append(QueueOf(VNF), d), Carried)
          BY <1>0, <4>1, OnceLemma
        <4> QED
          BY <2>8, <4>2
      <3>3. \A d \in Elems(QueueOf(VNF)') : d \in Elems(QueueOf(VNF)) \/ d = c
        BY <1>0, <2>8, AppendLemma
      <3> QED
        BY <2>1, <2>2, <2>8, <3>1, <3>2, <3>3 DEF RepeatInv
    <2> QED
      BY <1>0, <1>6, <2>5, <2>6, <2>7, <2>8, VNFQueueCases
  <1>7. CASE UNCHANGED lifecycleVars
    BY <1>2, <1>7 DEF lifecycleVars, vars
  <1> QED
    BY <1>0, <1>3, <1>4, <1>5, <1>6, <1>7, StepCases

LEMMA NextFailedInv ==
    ASSUME OneZone, LifecycleInv, FailedInv, [LifecycleNext]_lifecycleVars
    PROVE  FailedInv'
  <1>0. /\ MediatorInv /\ TableInv /\ OrderInv /\ handled \in [Cmds -> Nat]
        /\ \A p \in Cmds : handled[p] <= 1
        /\ vnfSFCI \in {"absent", "deployed", "failed"}
    BY DEF LifecycleInv, MediatorInv, OnceInv, FirstDelivery, IInv, TypeOK, FailedInv
  <1>1. ASSUME vnfSFCI' \in {"absent", "deployed", "failed"},
               vnfSFCI' = "failed" => vnfSFCI = "failed",
               outcomes \subseteq outcomes',
               \A p \in Cmds : issued[p] # None => issued'[p] = issued[p]
        PROVE  FailedInv'
    BY <1>1 DEF FailedInv, Adds
  <1>2. ASSUME NEW r \in Cmds, NEW cmd \in Command, Sends(r, cmd) PROVE FailedInv'
    BY <1>0, <1>1, <1>2 DEF Sends
  <1>3. ASSUME NEW q \in Controller \X Zones, NEW c \in ChildID, NEW s \in Determined,
               Carries(q, c, s), vnfSFCI' = "failed", vnfSFCI # "failed"
        PROVE  FailedInv'
    <2>1. /\ c[1] \in Cmds /\ c[2] = q[1] /\ (Adds(c[1]) <=> ~Dels(c[1]))
          /\ issued[c[1]] # None
      BY <1>0, <1>3, CarriesLemma, SentLemma DEF Carries
    <2>2. q[1] = VNF
      BY <1>0, <1>3, CarriesLemma
    <2>3. VNFTable(issued[c[1]].cmdType)
      BY <1>3, <2>2 DEF Carries
    <2>4. ~Dels(c[1]) /\ s # CMD_STATE_SUCCESSFUL
      BY <1>3, <2>3 DEF VNFTable, Dels, Carries
    <2>5. c[3] = 1
      BY <1>0, <1>3, <2>1 DEF Carries, IsChildOf, ChildID
    <2>6. c = <<c[1], VNF, 1>>
      BY <2>1, <2>2, <2>5 DEF ChildID
    <2>7. s = CMD_STATE_FAIL /\ <<c, s>> \in outcomes' /\ UNCHANGED issued
      BY <1>3, <2>4 DEF Carries, Determined
    <2> QED
      BY <1>3, <2>1, <2>4, <2>6, <2>7 DEF FailedInv, Adds
  <1>4. ASSUME NEW q \in Controller \X Zones, NEW c \in ChildID, NEW s \in Determined,
               Carries(q, c, s)
        PROVE  /\ outcomes \subseteq outcomes' /\ UNCHANGED issued
               /\ vnfSFCI' \in {"absent", "deployed", "failed"}
    <2>1. UNCHANGED vnfSFCI \/ VNFTable(issued[c[1]].cmdType)
      BY <1>4 DEF Carries, SFFTable
    <2> QED
      BY <1>0, <1>4, <2>1 DEF Carries, VNFTable
  <1>5. ASSUME NEW r \in Cmds, CmdRply(r) PROVE FailedInv'
    BY <1>0, <1>1, <1>5 DEF CmdRply, vars
  <1>6. ASSUME Mediate PROVE FailedInv'
    BY <1>0, <1>1, <1>6, MediateCases
  <1>7. CASE UNCHANGED lifecycleVars
    BY <1>0, <1>1, <1>7 DEF lifecycleVars, vars
  <1> QED
    BY <1>0, <1>1, <1>2, <1>3, <1>4, <1>5, <1>6, <1>7, StepCases

\* m is a reply about child c.
IsRplyOf(m, c) == m.type = "rply" /\ m.cmdID = c

\* The first reply about child c in s tells of a failure.
FailsFirst(s, c) ==
    \E i \in 1..Len(s) :
        /\ s[i] = [type |-> "rply", cmdID |-> c, cmdState |-> CMD_STATE_FAIL]
        /\ \A j \in 1..Len(s) : j < i => ~IsRplyOf(s[j], c)

\* Child c is not, and will not be, recorded as successful.
NeverSuccessful(c) ==
    c \in DOMAIN commandsInfo =>
        /\ commandsInfo[c].state # CMD_STATE_SUCCESSFUL
        /\ commandsInfo[c].cmdReply = None => FailsFirst(mediatorQueue, c)

\* When nothing is lost, the failure of the VNF child of an ADD_SFCI is the first
\* the mediator hears of it, however often the child is repeated.
FirstAnswerInv ==
    losses = 0 =>
        \A p \in Cmds :
            (/\ issued[p] # None /\ Adds(p)
             /\ <<<<p, VNF, 1>>, CMD_STATE_FAIL>> \in outcomes)
            => /\ NeverSuccessful(<<p, VNF, 1>>)
               /\ CMD_STATE_SUCCESSFUL \notin Elems(rplyLog[p])

LEMMA FailsFirstLemma ==
    ASSUME NEW s \in Seq(MediatorMsg), NEW c, FailsFirst(s, c)
    PROVE  /\ \A e \in MediatorMsg : FailsFirst(Append(s, e), c)
           /\ s # <<>> /\ FailsFirst(<<Head(s)>> \o s, c)
           /\ IF IsRplyOf(Head(s), c) THEN Head(s).cmdState = CMD_STATE_FAIL
                                      ELSE FailsFirst(Tail(s), c)
  <1>1. PICK i \in 1..Len(s) :
           /\ s[i] = [type |-> "rply", cmdID |-> c, cmdState |-> CMD_STATE_FAIL]
           /\ \A j \in 1..Len(s) : j < i => ~IsRplyOf(s[j], c)
    BY DEF FailsFirst
  <1>2. Len(s) \in Nat /\ s # <<>> /\ Head(s) = s[1] /\ 1 \in 1..Len(s)
    <2>1. Len(<<>>) = 0
      OBVIOUS
    <2> QED
      BY <2>1
  <1>3. ASSUME NEW e \in MediatorMsg PROVE FailsFirst(Append(s, e), c)
    <2>1. \A j \in 1..Len(s) : j \in 1..Len(Append(s, e)) /\ Append(s, e)[j] = s[j]
      OBVIOUS
    <2>2. \A j \in 1..Len(Append(s, e)) : j < i => j \in 1..Len(s)
      BY <1>2
    <2> QED
      BY <1>1, <2>1, <2>2 DEF FailsFirst
  <1>4. FailsFirst(<<Head(s)>> \o s, c)
    <2>1. PICK t : t = <<Head(s)>> \o s
      OBVIOUS
    <2>2. /\ t \in Seq(MediatorMsg)
          /\ \A j \in 1..Len(t) : \/ j = 1 /\ t[j] = s[1] /\ 1 \in 1..Len(s)
                                  \/ j # 1 /\ j - 1 \in 1..Len(s) /\ t[j] = s[j - 1]
      BY <1>2, <2>1, RedeliverLemma
    <2>3. Len(t) = Len(s) + 1
      BY <1>2, <2>1
    <2>4. CASE i = 1
      <3>1. 1 \in 1..Len(t) /\ t[1] = s[i]
        BY <1>2, <2>2, <2>3, <2>4
      <3>2. \A j \in 1..Len(t) : ~(j < 1)
        OBVIOUS
      <3> QED
        BY <1>1, <2>1, <3>1, <3>2 DEF FailsFirst
    <2>5. CASE i # 1
      <3>1. i + 1 \in 1..Len(t) /\ t[i + 1] = s[i]
        BY <1>2, <2>2, <2>3
      <3>2. ASSUME NEW j \in 1..Len(t), j < i + 1 PROVE ~IsRplyOf(t[j], c)
        <4>1. CASE j = 1
          <5>1. 1 < i /\ t[j] = s[1]
            BY <1>2, <2>2, <2>5, <4>1
          <5> QED
            BY <1>1, <1>2, <5>1
        <4>2. CASE j # 1
          <5>1. j - 1 \in 1..Len(s) /\ j - 1 < i /\ t[j] = s[j - 1]
            BY <1>2, <2>2, <3>2, <4>2
          <5> QED
            BY <1>1, <5>1
        <4> QED
          BY <4>1, <4>2
      <3> QED
        BY <1>1, <2>1, <3>1, <3>2 DEF FailsFirst
    <2> QED
      BY <2>4, <2>5
  <1>5. ASSUME IsRplyOf(Head(s), c) PROVE Head(s).cmdState = CMD_STATE_FAIL
    <2>1. ~(1 < i)
      BY <1>1, <1>2, <1>5
    <2>2. i = 1
      BY <2>1
    <2> QED
      BY <1>1, <1>2, <2>2
  <1>6. ASSUME ~IsRplyOf(Head(s), c) PROVE FailsFirst(Tail(s), c)
    <2>1. i # 1
      BY <1>1, <1>2, <1>6 DEF IsRplyOf
    <2>2. /\ Len(Tail(s)) = Len(s) - 1
          /\ \A j \in 1..Len(Tail(s)) : j + 1 \in 1..Len(s) /\ Tail(s)[j] = s[j + 1]
      BY <1>2
    <2>3. i - 1 \in 1..Len(Tail(s)) /\ Tail(s)[i - 1] = s[i]
      BY <1>2, <2>1, <2>2
    <2>4. \A j \in 1..Len(Tail(s)) : j < i - 1 => ~IsRplyOf(Tail(s)[j], c)
      <3> SUFFICES ASSUME NEW j \in 1..Len(Tail(s)), j < i - 1
                   PROVE  ~IsRplyOf(Tail(s)[j], c)
        OBVIOUS
      <3>1. j + 1 < i
        BY <1>2
      <3> QED
        BY <1>1, <2>2, <3>1
    <2> QED
      BY <1>1, <2>3, <2>4 DEF FailsFirst
  <1> QED
    BY <1>2, <1>3, <1>4, <1>5, <1>6

\* The first reply about a child is a new one.
LEMMA NewFailsFirst ==
    ASSUME NEW s \in Seq(MediatorMsg), NEW c \in ChildID,
           \A j \in 1..Len(s) : ~IsRplyOf(s[j], c),
           NEW e \in MediatorMsg, e = [type |-> "rply", cmdID |-> c, cmdState |-> CMD_STATE_FAIL]
    PROVE  FailsFirst(Append(s, e), c)
  <1>1. Len(s) + 1 \in 1..Len(Append(s, e)) /\ Append(s, e)[Len(s) + 1] = e
    OBVIOUS
  <1>2. \A j \in 1..Len(Append(s, e)) : j < Len(s) + 1 => j \in 1..Len(s) /\ Append(s, e)[j] = s[j]
    OBVIOUS
  <1> QED
    BY <1>1, <1>2 DEF FailsFirst

\* What the mediator does to the entry of a child that was carried out.
LEMMA EntryLemma ==
    ASSUME MediatorInv, StartMediator, NEW c \in Carried, c \in DOMAIN commandsInfo'
    PROVE  /\ mediatorQueue # <<>> /\ c \in DOMAIN commandsInfo
           /\ IF IsRplyOf(Head(mediatorQueue), c) /\ commandsInfo[c].cmdReply = None
              THEN /\ commandsInfo'[c].state = Head(mediatorQueue).cmdState
                   /\ commandsInfo'[c].cmdReply # None
              ELSE commandsInfo'[c] = commandsInfo[c]
  <1>0. /\ IInv /\ RplyInv /\ OnceInv /\ HeldBackInv /\ handled \in [Cmds -> Nat]
        /\ c \in ChildID /\ c[1] \in Cmds /\ IsChildOf(c, c[1]) /\ c \notin Cmds
    BY CarriedLemma, DisjointLemma DEF MediatorInv, IInv, TypeOK
  <1>1. \A o \in outcomes :
          o[1] \in DOMAIN commandsInfo => commandsInfo[o[1]].state # CMD_STATE_WAITING
    BY <1>0 DEF HeldBackInv
  <1>2. c \in DOMAIN commandsInfo => commandsInfo[c].state # CMD_STATE_WAITING
    BY <1>1 DEF Carried
  <1>3. CASE ForwardCmd \/ RejectCmd
    <2>1. PICK p : p = Head(mediatorQueue).cmdID
      OBVIOUS
    <2>2. mediatorQueue # <<>> /\ Head(mediatorQueue).type = "cmd"
      BY <1>3 DEF ForwardCmd, RejectCmd, Take
    <2>3. /\ p \in Cmds
          /\ \/ c \in DOMAIN commandsInfo /\ commandsInfo'[c] = commandsInfo[c]
             \/ c[1] = p /\ c[3] = handled[p] + 1
      BY <1>0, <1>3, <2>1, HandleOthersLemma
    <2>4. ~(c[1] = p /\ c[3] = handled[p] + 1)
      BY <1>0, <2>3 DEF IsChildOf
    <2> QED
      BY <2>2, <2>3, <2>4 DEF IsRplyOf
  <1>4. CASE StaleRply
    <2>1. mediatorQueue # <<>> /\ Head(mediatorQueue).type = "rply" /\ UNCHANGED commandsInfo
      BY <1>4 DEF StaleRply, DropRply, Take
    <2>2. CASE IsAwaited(Head(mediatorQueue).cmdID)
      <3>1. NewRply /\ commandsInfo' = Recorded(Head(mediatorQueue))
        BY <1>4, <2>2 DEF StaleRply, DropRply, NewRply
      <3>2. PICK m : m = Head(mediatorQueue)
        OBVIOUS
      <3>3. m \in RplyMsg /\ m.cmdID \in DOMAIN commandsInfo /\ <<m.cmdID, m.cmdState>> \in outcomes
        BY <1>0, <3>1, <3>2, NewRplyLemma
      <3>4. commandsInfo'[m.cmdID].cmdReply = m /\ commandsInfo[m.cmdID].cmdReply = None
        BY <1>0, <3>1, <3>2, <3>3, NewRplyLemma, RecordLemma DEF IInv
      <3>5. m # None
        BY <3>3, MediatorAssumption
      <3> QED
        BY <2>1, <3>4, <3>5
    <2>3. CASE ~IsAwaited(Head(mediatorQueue).cmdID)
      BY <2>1, <2>3 DEF IsAwaited, IsRplyOf, hasCmd, isChildCmdHasCmdRply
    <2> QED
      BY <2>2, <2>3
  <1>5. CASE OrphanRply \/ LastSuccess \/ FirstFailure \/ AfterFailure \/ PartialSuccess
    <2>0. PICK m, p, info : m = Head(mediatorQueue) /\ p = ParentOfRply /\ info = Recorded(m)
      OBVIOUS
    <2>1. NewRply
      BY <1>5 DEF OrphanRply, LastSuccess, FirstFailure, AfterFailure, PartialSuccess
    <2>2. /\ TableOK(info) /\ DOMAIN info = DOMAIN commandsInfo /\ p \in Cmds
          /\ issued[p] \in Command /\ ForwardedTo(issued[p]) # {}
          /\ m \in RplyMsg /\ m.cmdID \in ChildID \cap DOMAIN commandsInfo
          /\ <<m.cmdID, m.cmdState>> \in outcomes /\ m.cmdState \in Determined
          /\ commandsInfo[m.cmdID].cmdReply = None /\ m.type = "rply" /\ m # None
      BY <1>0, <2>0, <2>1, NewRplyLemma, MediatorAssumption DEF RplyMsg
    <2>3. /\ \A x \in DOMAIN commandsInfo : x # m.cmdID => info[x] = commandsInfo[x]
          /\ info[m.cmdID].state = m.cmdState /\ info[m.cmdID].cmdReply = m
      BY <1>0, <2>0, <2>2, RecordLemma DEF IInv
    <2>4. mediatorQueue # <<>>
      BY <2>1 DEF NewRply, Take
    <2>5. c \in DOMAIN info /\ commandsInfo'[c] = info[c]
      <3>1. CASE OrphanRply
        BY <3>1, <2>0 DEF OrphanRply
      <3>2. CASE LastSuccess \/ FirstFailure
        <4>1. PICK s \in Determined : Conclude(info, p, s) /\ p \in DOMAIN info
          BY <3>2, <2>0, <2>2 DEF LastSuccess, FirstFailure, Determined, hasCmd
        <4>2. rplyLog \in [Cmds -> Seq(Determined)]
          BY <1>0 DEF IInv, TypeOK
        <4>3. ConcludeEffect(info, p, s)
          BY <4>1, <4>2, <2>2, ConcludeLemma
        <4> QED
          BY <1>0, <4>3 DEF ConcludeEffect
      <3>3. CASE AfterFailure \/ (PartialSuccess /\ ~ReleasesVNF(info, p))
        <4>1. commandsInfo' = Settle(info, p) /\ p \in Cmds \cap DOMAIN info
          BY <3>3, <2>0, <2>2 DEF AfterFailure, PartialSuccess, hasCmd
        <4> QED
          BY <4>1, <2>2, SettleLemma
      <3>4. CASE PartialSuccess /\ ReleasesVNF(info, p)
        <4>1. PICK v, t : /\ v = <<p, VNF, handled[p]>>
                          /\ t = transitCmdState(info, p, CMD_STATE_WAITING, CMD_STATE_PROCESSING)
          OBVIOUS
        <4>2. p \in Cmds \cap DOMAIN info
          BY <2>0, <2>2, <3>4 DEF PartialSuccess, hasCmd
        <4>3. /\ info[p].childCmdID[VNF] = v /\ v \in ChildID \cap DOMAIN info
              /\ info[v].state = CMD_STATE_WAITING
          BY <1>0, <2>2, <3>4, <4>1, <4>2, ReleaseLemma
        <4>4. commandsInfo' = transitCmdState(t, v, CMD_STATE_WAITING, CMD_STATE_PROCESSING)
          BY <2>0, <3>4, <4>1, <4>3 DEF PartialSuccess
        <4>5. TableOK(t) /\ DOMAIN t = DOMAIN info /\ \A x \in DOMAIN info : x # p => t[x] = info[x]
          BY <4>1, <2>2, TransitLemma
        <4>6. /\ DOMAIN commandsInfo' = DOMAIN t
              /\ \A x \in DOMAIN t : x # v => commandsInfo'[x] = t[x]
          BY <4>4, <4>5, TransitLemma
        <4>7. v # m.cmdID
          BY <2>2, <2>3, <4>3 DEF Determined, CMD_STATE_WAITING, CMD_STATE_SUCCESSFUL, CMD_STATE_FAIL
        <4>8. c # v
          BY <1>2, <2>2, <2>3, <4>3, <4>7
        <4> QED
          BY <1>0, <4>2, <4>5, <4>6, <4>8
      <3> QED
        BY <1>5, <3>1, <3>2, <3>3, <3>4
    <2> QED
      BY <2>0, <2>2, <2>3, <2>4, <2>5 DEF IsRplyOf
  <1> QED
    BY <1>3, <1>4, <1>5, ReplyCases DEF StartMediator

\* A command whose VNF child is not recorded as successful is not reported as successful.
LEMMA NoSuccessLemma ==
    ASSUME OneZone, MediatorInv, StartMediator, NEW p \in Cmds, issued[p] # None, Adds(p),
           <<p, VNF, 1>> \in Carried, NeverSuccessful(<<p, VNF, 1>>),
           CMD_STATE_SUCCESSFUL \notin Elems(rplyLog[p])
    PROVE  CMD_STATE_SUCCESSFUL \notin Elems(rplyLog'[p])
  <1>0. /\ IInv /\ RplyInv /\ OnceInv /\ handled \in [Cmds -> Nat]
        /\ rplyLog \in [Cmds -> Seq(Determined)] /\ mediatorQueue \in Seq(MediatorMsg)
        /\ issued[p] \in Command
    BY DEF MediatorInv, IInv, TypeOK
  <1>1. CASE rplyLog'[p] = rplyLog[p]
    BY <1>1
  <1>2. CASE FirstFailure
    <2>1. UNCHANGED rplyLog \/ \E x \in Cmds : Answers(x, CMD_STATE_FAIL)
      BY <1>0, <1>2, FirstFailureAnswers
    <2>2. rplyLog'[p] \in {rplyLog[p], Append(rplyLog[p], CMD_STATE_FAIL)}
      BY <1>0, <2>1 DEF Answers
    <2>3. CMD_STATE_FAIL \in Determined /\ CMD_STATE_FAIL # CMD_STATE_SUCCESSFUL
      BY DEF Determined, CMD_STATE_SUCCESSFUL, CMD_STATE_FAIL
    <2>4. Elems(Append(rplyLog[p], CMD_STATE_FAIL)) \subseteq Elems(rplyLog[p]) \cup {CMD_STATE_FAIL}
      BY <1>0, <2>3, AppendLemma
    <2> QED
      BY <2>2, <2>3, <2>4
  <1>3. CASE LastSuccess
    <2>0. PICK m, x, info : m = Head(mediatorQueue) /\ x = ParentOfRply /\ info = Recorded(m)
      OBVIOUS
    <2>1. /\ NewRply /\ isParentCmdSuccessful(info, x) /\ x \in DOMAIN commandsInfo
          /\ \/ UNCHANGED rplyLog
             \/ rplyLog' = [rplyLog EXCEPT ![x] = Append(@, CMD_STATE_SUCCESSFUL)]
      BY <1>3, <2>0 DEF LastSuccess, Conclude, hasCmd
    <2>2. x # p
      <3>1. SUFFICES ASSUME x = p PROVE FALSE
        OBVIOUS
      <3>2. PICK c : c = <<p, VNF, 1>>
        OBVIOUS
      <3>3. /\ TableOK(info) /\ DOMAIN info = DOMAIN commandsInfo /\ ForwardedTo(issued[p]) # {}
            /\ m \in RplyMsg /\ m.cmdID \in DOMAIN commandsInfo /\ m.cmdID[3] \in 1..handled[p]
            /\ <<m.cmdID, m.cmdState>> \in outcomes /\ commandsInfo[m.cmdID].cmdReply = None
        BY <1>0, <2>0, <2>1, <3>1, NewRplyLemma
      <3>4. handled[p] = 1
        BY <1>0, <3>3 DEF OnceInv, FirstDelivery
      <3>5. VNF \in Children(issued[p])
        BY <1>0, SFCIChildrenLemma DEF Adds
      <3>6. c \in ChildCmdIDs(info, p) /\ c \in ChildID \cap DOMAIN info
        <4>1. p \in Cmds \cap DOMAIN info
          BY <2>1, <3>1, <3>3
        <4>2. /\ ChildCmdIDs(info, p) = {<<p, n, handled[p]>> : n \in Children(issued[p])}
              /\ ChildCmdIDs(info, p) \subseteq ChildID \cap DOMAIN info
          BY <3>3, <4>1, ChildCmdIDsLemma
        <4>3. c \in {<<p, n, 1>> : n \in Children(issued[p])}
          BY <3>2, <3>5
        <4> QED
          BY <3>4, <4>2, <4>3
      <3>7. info[c].state = CMD_STATE_SUCCESSFUL
        BY <2>1, <3>1, <3>6 DEF isParentCmdSuccessful, ChildrenIn
      <3>8. /\ \A y \in DOMAIN commandsInfo : y # m.cmdID => info[y] = commandsInfo[y]
            /\ info[m.cmdID].state = m.cmdState
        BY <1>0, <2>0, <3>3, RecordLemma DEF IInv
      <3>9. CASE c # m.cmdID
        BY <3>2, <3>3, <3>6, <3>7, <3>8, <3>9 DEF NeverSuccessful
      <3>10. CASE c = m.cmdID
        <4>1. FailsFirst(mediatorQueue, c)
          BY <3>2, <3>3, <3>6, <3>10 DEF NeverSuccessful
        <4>2. IsRplyOf(Head(mediatorQueue), c)
          BY <2>0, <3>3, <3>10 DEF IsRplyOf, RplyMsg
        <4>3. Head(mediatorQueue).cmdState = CMD_STATE_FAIL
          BY <1>0, <4>1, <4>2, FailsFirstLemma
        <4> QED
          BY <2>0, <3>7, <3>8, <3>10, <4>3 DEF CMD_STATE_SUCCESSFUL, CMD_STATE_FAIL
      <3> QED
        BY <3>9, <3>10
    <2> QED
      BY <1>0, <2>1, <2>2
  <1>4. CASE ~FirstFailure /\ ~LastSuccess
    BY <1>4 DEF StartMediator, CommandReplyHandler, ForwardCmd, RejectCmd, DropRply,
                AfterFailure, PartialSuccess
  <1> QED
    BY <1>2, <1>3, <1>4

LEMMA NextFirstAnswerInv ==
    ASSUME OneZone, LifecycleInv, RepeatInv, FirstAnswerInv, [LifecycleNext]_lifecycleVars
    PROVE  FirstAnswerInv'
  <1>0. /\ MediatorInv /\ TableInv /\ OrderInv /\ IInv /\ losses \in Nat
        /\ mediatorQueue \in Seq(MediatorMsg)
        /\ \A p \in Cmds : handled[p] <= 1
    BY DEF LifecycleInv, MediatorInv, OnceInv, FirstDelivery, IInv, TypeOK
  <1>1. SUFFICES ASSUME losses' = 0, NEW p \in Cmds, (issued[p] # None)', Adds(p)',
                        NEW c \in ChildID, c = <<p, VNF, 1>>,
                        <<c, CMD_STATE_FAIL>> \in outcomes'
                 PROVE  NeverSuccessful(c)' /\ CMD_STATE_SUCCESSFUL \notin Elems(rplyLog[p])'
    <2>1. \A p \in Cmds : <<p, VNF, 1>> \in ChildID
      BY TwoQueues, <1>0 DEF ChildID
    <2> QED
      BY <1>1, <2>1 DEF FirstAnswerInv
  <1>2. ASSUME losses = 0, issued[p] # None, Adds(p), <<c, CMD_STATE_FAIL>> \in outcomes
        PROVE  /\ NeverSuccessful(c) /\ CMD_STATE_SUCCESSFUL \notin Elems(rplyLog[p])
               /\ c \in Carried
    <2>1. <<c, CMD_STATE_FAIL>>[1] = c
      OBVIOUS
    <2> QED
      BY <1>1, <1>2, <2>1 DEF FirstAnswerInv, Carried
  <1>3. ASSUME UNCHANGED <<issued, outcomes>>
        PROVE  issued[p] # None /\ Adds(p) /\ <<c, CMD_STATE_FAIL>> \in outcomes
    BY <1>1, <1>3 DEF Adds
  <1>4. ASSUME NEW r \in Cmds, NEW cmd \in Command, Sends(r, cmd)
        PROVE  NeverSuccessful(c)' /\ CMD_STATE_SUCCESSFUL \notin Elems(rplyLog[p])'
    <2>1. PICK m \in MediatorMsg : m = [type |-> "cmd", cmdID |-> r]
      BY DEF MediatorMsg, CmdMsg
    <2>2. /\ mediatorQueue' = Append(mediatorQueue, m)
          /\ UNCHANGED <<commandsInfo, rplyLog, outcomes, losses>>
          /\ issued[r] = None /\ issued' = [issued EXCEPT ![r] = cmd]
      BY <1>4, <2>1 DEF Sends
    <2>3. <<c, CMD_STATE_FAIL>> \in outcomes
      BY <1>1, <2>2
    <2>4. issued[p] # None
      <3>1. PICK o \in outcomes : o = <<c, CMD_STATE_FAIL>>
        BY <2>3
      <3>2. o[1][1] = p
        BY <1>1, <3>1
      <3> QED
        BY <1>0, <3>2, ActedLemmaFor
    <2>5. Adds(p)
      BY <1>1, <2>2, <2>4 DEF Adds
    <2>6. NeverSuccessful(c) /\ CMD_STATE_SUCCESSFUL \notin Elems(rplyLog[p])
      BY <1>1, <1>2, <2>2, <2>3, <2>4, <2>5
    <2>7. FailsFirst(mediatorQueue, c) => FailsFirst(mediatorQueue', c)
      BY <1>0, <2>2, FailsFirstLemma
    <2> QED
      BY <2>2, <2>6, <2>7 DEF NeverSuccessful
  <1>5. ASSUME NEW q \in Controller \X Zones, NEW d \in ChildID, NEW s \in Determined,
               Carries(q, d, s)
        PROVE  NeverSuccessful(c)' /\ CMD_STATE_SUCCESSFUL \notin Elems(rplyLog[p])'
    <2>1. PICK m \in MediatorMsg : m = [type |-> "rply", cmdID |-> d, cmdState |-> s]
      BY DEF MediatorMsg, RplyMsg
    <2>2. /\ mediatorQueue' = Append(mediatorQueue, m)
          /\ UNCHANGED <<commandsInfo, rplyLog, losses, issued>>
          /\ outcomes' = outcomes \cup {<<d, s>>}
      BY <1>5, <2>1 DEF Carries
    <2>3. issued[p] # None /\ Adds(p)
      BY <1>1, <2>2 DEF Adds
    <2>4. CASE <<c, CMD_STATE_FAIL>> \in outcomes
      <3>1. NeverSuccessful(c) /\ CMD_STATE_SUCCESSFUL \notin Elems(rplyLog[p])
        BY <1>1, <1>2, <2>2, <2>3, <2>4
      <3>2. FailsFirst(mediatorQueue, c) => FailsFirst(mediatorQueue', c)
        BY <1>0, <2>2, FailsFirstLemma
      <3> QED
        BY <2>2, <3>1, <3>2 DEF NeverSuccessful
    <2>5. CASE <<c, CMD_STATE_FAIL>> \notin outcomes
      <3>1. d = c /\ s = CMD_STATE_FAIL
        BY <1>1, <2>2, <2>5
      <3>2. /\ q[1] = VNF /\ q = <<VNF, theZone>> /\ VNFTable(issued[p].cmdType)
            /\ ~Dels(p)
        <4>1. d[2] = q[1] /\ (Adds(d[1]) <=> ~Dels(d[1])) /\ q = <<q[1], theZone>>
          BY <1>0, <1>5, CarriesLemma, TwoQueues
        <4>2. d[2] = VNF /\ d[1] = p
          BY <1>1, <3>1
        <4> QED
          BY <1>5, <2>3, <4>1, <4>2 DEF Carries
      <3>3. c \notin Carried
        <4>1. c \in Elems(QueueOf(VNF))
          BY <1>5, <3>1, <3>2 DEF Carries, QueueOf
        <4>2. vnfSFCI = "absent"
          <5>1. ~Succeeds
            BY <1>5, <3>1 DEF Carries, CMD_STATE_SUCCESSFUL, CMD_STATE_FAIL
          <5> QED
            BY <3>2, <5>1 DEF VNFTable
        <4>3. c[1] = p
          BY <1>1
        <4> QED
          BY <2>3, <4>1, <4>2, <4>3 DEF RepeatInv
      <3>4. \A o \in outcomes : o[1] # c
        BY <3>3 DEF Carried
      <3>5. \A t : <<c, t>> \notin outcomes
        <4> SUFFICES ASSUME NEW t, <<c, t>> \in outcomes PROVE FALSE
          OBVIOUS
        <4>1. <<c, t>>[1] = c
          OBVIOUS
        <4> QED
          BY <3>4, <4>1
      <3>6. c \in DOMAIN commandsInfo => commandsInfo[c].state # CMD_STATE_SUCCESSFUL
        BY <1>0, <3>5 DEF IInv, TableOK, ChildEntryOK, Determined
      <3>7. \A j \in 1..Len(mediatorQueue) : ~IsRplyOf(mediatorQueue[j], c)
        BY <1>0, <3>5 DEF IInv, QueueInv, MsgOK, IsRplyOf, Elems
      <3>8. FailsFirst(mediatorQueue', c)
        BY <1>0, <2>1, <2>2, <3>1, <3>7, NewFailsFirst
      <3>9. CMD_STATE_SUCCESSFUL \notin Elems(rplyLog[p])
        <4>1. SUFFICES ASSUME CMD_STATE_SUCCESSFUL \in Elems(rplyLog[p]) PROVE FALSE
          OBVIOUS
        <4>2. RplyOK(p, CMD_STATE_SUCCESSFUL)
          BY <1>0, <4>1 DEF MediatorInv, RplyInv
        <4>3. PICK k \in 1..handled[p] : <<<<p, VNF, k>>, CMD_STATE_SUCCESSFUL>> \in outcomes
          BY <1>0, <2>3, <4>2, SuccessLemma
        <4>4. k = 1
          BY <1>0, <4>3 DEF IInv, TypeOK
        <4> QED
          BY <1>1, <3>5, <4>3, <4>4
      <3> QED
        BY <2>2, <3>6, <3>8, <3>9 DEF NeverSuccessful
    <2> QED
      BY <2>4, <2>5
  <1>6. ASSUME NEW r \in Cmds, CmdRply(r)
        PROVE  NeverSuccessful(c)' /\ CMD_STATE_SUCCESSFUL \notin Elems(rplyLog[p])'
    <2>1. UNCHANGED vars
      BY <1>6 DEF CmdRply
    <2> QED
      BY <1>1, <1>2, <1>3, <2>1 DEF vars, NeverSuccessful
  <1>7. ASSUME Mediate
        PROVE  NeverSuccessful(c)' /\ CMD_STATE_SUCCESSFUL \notin Elems(rplyLog[p])'
    <2>1. UNCHANGED <<issued, outcomes>>
      BY <1>0, <1>7, MediateCases
    <2>2. issued[p] # None /\ Adds(p) /\ <<c, CMD_STATE_FAIL>> \in outcomes
      BY <1>3, <2>1
    <2>3. ~LoseMsg
      BY <1>0, <1>1 DEF LoseMsg
    <2>4. CASE Redeliver
      <3>1. /\ UNCHANGED <<commandsInfo, rplyLog, losses>>
            /\ mediatorQueue' \in {mediatorQueue, <<Head(mediatorQueue)>> \o mediatorQueue}
        BY <2>4 DEF Redeliver
      <3>2. NeverSuccessful(c) /\ CMD_STATE_SUCCESSFUL \notin Elems(rplyLog[p])
        BY <1>1, <1>2, <2>2, <3>1
      <3>3. FailsFirst(mediatorQueue, c) => FailsFirst(mediatorQueue', c)
        BY <1>0, <3>1, FailsFirstLemma
      <3> QED
        BY <3>1, <3>2, <3>3 DEF NeverSuccessful
    <2>5. CASE StartMediator
      <3>1. losses = 0
        BY <1>1, <2>5 DEF StartMediator, CommandReplyHandler, ForwardCmd, RejectCmd, DropRply,
           LastSuccess, FirstFailure, AfterFailure, PartialSuccess
      <3>2. /\ NeverSuccessful(c) /\ CMD_STATE_SUCCESSFUL \notin Elems(rplyLog[p])
            /\ c \in Carried
        BY <1>2, <2>2, <3>1
      <3>3. CMD_STATE_SUCCESSFUL \notin Elems(rplyLog'[p])
        BY <1>0, <1>1, <2>2, <2>5, <3>2, NoSuccessLemma
      <3>4. mediatorQueue' = Tail(mediatorQueue)
        BY <2>5 DEF StartMediator, CommandReplyHandler, ForwardCmd, RejectCmd, DropRply,
           LastSuccess, FirstFailure, AfterFailure, PartialSuccess, NewRply, Take
      <3>5. ASSUME c \in DOMAIN commandsInfo'
            PROVE  /\ commandsInfo'[c].state # CMD_STATE_SUCCESSFUL
                   /\ commandsInfo'[c].cmdReply = None => FailsFirst(mediatorQueue', c)
        <4>1. /\ c \in DOMAIN commandsInfo
              /\ IF IsRplyOf(Head(mediatorQueue), c) /\ commandsInfo[c].cmdReply = None
                 THEN /\ commandsInfo'[c].state = Head(mediatorQueue).cmdState
                      /\ commandsInfo'[c].cmdReply # None
                 ELSE commandsInfo'[c] = commandsInfo[c]
          BY <1>0, <2>5, <3>2, <3>5, EntryLemma
        <4>2. /\ commandsInfo[c].state # CMD_STATE_SUCCESSFUL
              /\ commandsInfo[c].cmdReply = None => FailsFirst(mediatorQueue, c)
          BY <3>2, <4>1 DEF NeverSuccessful
        <4>3. FailsFirst(mediatorQueue, c) =>
                 IF IsRplyOf(Head(mediatorQueue), c)
                 THEN Head(mediatorQueue).cmdState = CMD_STATE_FAIL
                 ELSE FailsFirst(Tail(mediatorQueue), c)
          BY <1>0, FailsFirstLemma
        <4>4. CMD_STATE_FAIL # CMD_STATE_SUCCESSFUL
          BY DEF CMD_STATE_SUCCESSFUL, CMD_STATE_FAIL
        <4> QED
          BY <3>4, <4>1, <4>2, <4>3, <4>4
      <3> QED
        BY <3>3, <3>5 DEF NeverSuccessful
    <2> QED
      BY <1>7, <2>3, <2>4, <2>5 DEF Mediate
  <1>8. ASSUME UNCHANGED lifecycleVars
        PROVE  NeverSuccessful(c)' /\ CMD_STATE_SUCCESSFUL \notin Elems(rplyLog[p])'
    BY <1>1, <1>2, <1>3, <1>8 DEF lifecycleVars, vars, NeverSuccessful
  <1> QED
    BY <1>0, <1>4, <1>5, <1>6, <1>7, <1>8, StepCases

LEMMA ActiveInvariance ==
    ASSUME OneZone, "cmd" \notin Redeliverable
    PROVE  LifecycleSpec => [](RepeatInv /\ FailedInv /\ FirstAnswerInv)
  <1>1. LifecycleInit => RepeatInv /\ FailedInv /\ FirstAnswerInv
    <2> SUFFICES ASSUME LifecycleInit PROVE RepeatInv /\ FailedInv /\ FirstAnswerInv
      OBVIOUS
    <2>1. VNF \in Controller /\ Zones = {theZone}
      BY ZoneLemma DEF VNF, Controller
    <2>2. QueueOf(VNF) = <<>> /\ outcomes = {} /\ Len(<<>>) = 0
      BY <2>1 DEF LifecycleInit, Init, QueueOf
    <2>3. RepeatInv
      BY <2>2 DEF RepeatInv, InTurn, Once, Elems
    <2> QED
      BY <2>2, <2>3 DEF FailedInv, FirstAnswerInv, LifecycleInit
  <1>2. LifecycleInv /\ RepeatInv /\ FailedInv /\ FirstAnswerInv /\ [LifecycleNext]_lifecycleVars
           => (RepeatInv /\ FailedInv /\ FirstAnswerInv)'
    BY NextRepeatInv, NextFailedInv, NextFirstAnswerInv
  <1> QED
    BY <1>1, <1>2, LifecycleInvariance, PTL DEF LifecycleSpec

\* Unless a reply was lost and a child delivered again, an ACTIVE SFCI whose VNFs are not
\* running was added before, and that failed (_sfciAddHandler, hasSFCI).
THEOREM DeployedAtFirst ==
    ASSUME OneZone, "cmd" \notin Redeliverable
    PROVE  LifecycleSpec => []ActiveIsDeployedAtFirst
  <1>1. LifecycleInv /\ RepeatInv /\ FailedInv /\ FirstAnswerInv => ActiveIsDeployedAtFirst
    <2> SUFFICES ASSUME LifecycleInv, RepeatInv, FailedInv, FirstAnswerInv,
                        StateOfSFCI = STATE_ACTIVE, losses = 0 \/ redeliveries = 0,
                        ~(sffSFCI /\ vnfSFCI = "deployed")
                 PROVE  \E p \in Cmds : /\ issued[p] # None /\ issued[p].cmdType = "ADD_SFCI"
                                        /\ rplyLog[p] = <<CMD_STATE_FAIL>>
      BY DEF ActiveIsDeployedAtFirst
    <2>0. MediatorInv /\ TableInv
      BY DEF LifecycleInv
    <2>1. vnfSFCI = "failed"
      <3>1. sffSFCI /\ vnfSFCI # "absent"
        BY DEF LifecycleInv, SettledInv, Done
      <3>2. vnfSFCI \in {"absent", "deployed", "failed"}
        BY DEF FailedInv
      <3> QED
        BY <3>1, <3>2
    <2>2. PICK p \in Cmds : /\ issued[p] # None /\ Adds(p)
                            /\ <<<<p, VNF, 1>>, CMD_STATE_FAIL>> \in outcomes
      BY <2>1 DEF FailedInv
    <2>3. rplyLog[p] # <<>>
      <3>1. ~Open(p)
        BY <2>0 DEF TableInv, STATE_ACTIVE, STATE_IN_PROCESSING
      <3> QED
        BY <2>0, <2>2, <3>1 DEF TableInv
    <2>4. CMD_STATE_SUCCESSFUL \notin Elems(rplyLog[p])
      <3>1. CASE losses = 0
        BY <2>2, <3>1 DEF FirstAnswerInv
      <3>2. CASE redeliveries = 0
        <4>1. SUFFICES ASSUME CMD_STATE_SUCCESSFUL \in Elems(rplyLog[p]) PROVE FALSE
          OBVIOUS
        <4>2. RplyOK(p, CMD_STATE_SUCCESSFUL) /\ handled[p] <= 1 /\ handled[p] \in Nat
          BY <2>0, <4>1 DEF MediatorInv, RplyInv, OnceInv, FirstDelivery, IInv, TypeOK
        <4>3. PICK k \in 1..handled[p] : <<<<p, VNF, k>>, CMD_STATE_SUCCESSFUL>> \in outcomes
          BY <2>0, <2>2, <4>2, SuccessLemma
        <4>4. k = 1
          BY <4>2, <4>3
        <4>5. PICK o, u : /\ o = <<<<p, VNF, 1>>, CMD_STATE_SUCCESSFUL>>
                          /\ u = <<<<p, VNF, 1>>, CMD_STATE_FAIL>>
          OBVIOUS
        <4>6. /\ o \in outcomes /\ u \in outcomes /\ o[1] = u[1] /\ o[1][2] = VNF
              /\ o[2] = CMD_STATE_SUCCESSFUL /\ u[2] = CMD_STATE_FAIL
          BY <2>2, <4>3, <4>4, <4>5
        <4>7. o = u
          BY <3>2, <4>6 DEF RepeatInv
        <4> QED
          BY <4>6, <4>7 DEF CMD_STATE_SUCCESSFUL, CMD_STATE_FAIL
      <3> QED
        BY <3>1, <3>2
    <2>5. rplyLog[p] = <<CMD_STATE_FAIL>>
      <3>1. rplyLog[p] \in Seq(Determined) /\ Len(rplyLog[p]) = 1
        BY <2>0, <2>3 DEF MediatorInv, OnceInv, AnsweredInv, IInv, TypeOK
      <3>2. PICK s \in Determined : rplyLog[p] = <<s>>
        <4>1. rplyLog[p][1] \in Determined /\ rplyLog[p] = <<rplyLog[p][1]>>
          BY <3>1
        <4> QED
          BY <4>1
      <3>3. s \in Elems(rplyLog[p])
        <4>1. 1 \in 1..Len(<<s>>) /\ <<s>>[1] = s
          OBVIOUS
        <4> QED
          BY <3>2, <4>1 DEF Elems
      <3> QED
        BY <2>4, <3>2, <3>3 DEF Determined
    <2> QED
      BY <2>2, <2>5 DEF Adds
  <1> QED
    BY <1>1, LifecycleInvariance, ActiveInvariance, PTL
=============================================================================
