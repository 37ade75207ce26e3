------------------------ MODULE RequestHandlerProofs ------------------------
(***************************************************************************)
(* Proofs about the requests of users in the regulator, for any number of  *)
(* requests, any timeout and any time between two passes of the loop.      *)
(***************************************************************************)
EXTENDS RequestHandler, TLAPS

-----------------------------------------------------------------------------
(***************************************************************************)
(* The inductive invariant.                                                *)
(***************************************************************************)
Ends    == Seq({"sent", "applied", "rejected"})
Request == [type : RequestTypes, sfc : {theSFC}, sfci : SFCIs \cup {None},
            newState : {STATE_ACTIVE, STATE_MANUAL, None}]

TypeOK ==
    /\ requests \in Seq(Request) /\ Len(requests) <= NumRequests
    /\ queue \in Seq(1..Len(requests))
    /\ taskDict \subseteq 1..Len(requests)
    /\ ends \in [IDs -> Ends]

\* A request is on its way to the regulator once, and nothing became of it before.
OnTheWay == /\ \A m, n \in DOMAIN queue : queue[m] = queue[n] => m = n
            /\ \A n \in DOMAIN queue : ends[queue[n]] = <<>>
            /\ \A r \in IDs : r > Len(requests) => ends[r] = <<>>

\* One that waits has arrived and was not sent.
Waiting == \A r \in taskDict :
              /\ \A n \in DOMAIN queue : queue[n] # r
              /\ \A n \in DOMAIN ends[r] : ends[r][n] # "sent"

\* What is left of a pass still waits: only the pass itself takes a request away.
PassOfWaiting == todo \subseteq taskDict

\* LeavesOnce in terms of sequences.
Remembered ==
    \A r \in IDs :
        r <= Len(requests) /\ requests[r].type # "ADD_SFCI" /\ r \notin taskDict
        => ends[r] # <<>> \/ \E n \in DOMAIN queue : queue[n] = r

IInv == /\ TypeOK /\ OnTheWay /\ Waiting /\ PassOfWaiting
        /\ SentAtMostOnce /\ Remembered
-----------------------------------------------------------------------------
(***************************************************************************)
(* What handling a request does to what the invariant speaks about.        *)
(***************************************************************************)
\* It waits, or something becomes of it, or it is left as it is.
Waits(r) == taskDict' = taskDict \cup {r} /\ ends' = ends

Becomes(r, how) ==
    /\ ends' = [ends EXCEPT ![r] = Append(@, how)]
    /\ \/ taskDict' = taskDict \ {r}
       \/ taskDict' = taskDict /\ how # "sent"

Left(r) ==
    /\ taskDict' = taskDict /\ ends' = ends
    /\ ends[r] # <<>> \/ requests[r].type = "ADD_SFCI"

Effect(r) ==
    Waits(r) \/ Left(r) \/ \E how \in {"sent", "applied", "rejected"} : Becomes(r, how)

LEMMA AppendLemma ==
    ASSUME NEW S, NEW s \in Seq(S), NEW e \in S
    PROVE  /\ Append(s, e) \in Seq(S) /\ Append(s, e) # <<>>
           /\ DOMAIN s = 1..Len(s) /\ Len(s) \in Nat
           /\ DOMAIN Append(s, e) = 1..(Len(s) + 1)
           /\ Append(s, e)[Len(s) + 1] = e
           /\ \A n \in 1..Len(s) : Append(s, e)[n] = s[n]
  <1>1. Len(Append(s, e)) = Len(s) + 1 /\ Len(s) \in Nat
    OBVIOUS
  <1>2. Len(<<>>) = 0
    OBVIOUS
  <1> QED
    BY <1>1, <1>2

LEMMA HandleLemma ==
    ASSUME NEW r \in IDs, ends[r] \in Ends, handle(r)
    PROVE  Effect(r)
  <1>1. CASE HandleUpdateSFCState(r)
    <2>1. ToSet(ends[r]) # {} => ends[r] # <<>>
      BY DEF ToSet, Ends
    <2> QED
      BY <1>1, <2>1 DEF HandleUpdateSFCState, Effect, Waits, Becomes, Left, Wait, Forget, End,
                        IsWaiting
  <1>2. CASE HandleAndSend(r)
    BY <1>2 DEF HandleAndSend, Effect, Waits, Becomes, Wait, Forget, End
  <1>3. CASE HandleAddSFCI(r)
    BY <1>3 DEF HandleAddSFCI, Effect, Left
  <1> QED
    BY <1>1, <1>2, <1>3 DEF handle

\* An effect on a request that was not sent, and is not on its way any more.
LEMMA EffectLemma ==
    ASSUME IInv, NEW r \in IDs, r <= Len(requests), Effect(r), UNCHANGED requests,
           \A n \in DOMAIN ends[r] : ends[r][n] # "sent",
           queue' \in Seq(1..Len(requests)),
           \A n \in DOMAIN queue' : queue'[n] # r,
           \A n \in DOMAIN queue' : \E m \in DOMAIN queue : queue'[n] = queue[m],
           \A m, n \in DOMAIN queue' : queue'[m] = queue'[n] => m = n,
           \A n \in DOMAIN queue : queue[n] = r \/ \E m \in DOMAIN queue' : queue'[m] = queue[n],
           todo' \subseteq taskDict \ {r}
    PROVE  IInv'
  <1>1. ends \in [IDs -> Ends] /\ IDs = 1..NumRequests /\ NumRequests \in Nat
        /\ Len(requests) \in Nat /\ ends[r] \in Ends
    BY RequestHandlerAssumption DEF IInv, TypeOK, IDs
  <1>2. /\ ends' \in [IDs -> Ends]
        /\ \A q \in IDs \ {r} : ends'[q] = ends[q]
        /\ ends[r] # <<>> => ends'[r] # <<>>
    <2>1. \A how \in {"sent", "applied", "rejected"} :
             Append(ends[r], how) \in Ends /\ Append(ends[r], how) # <<>>
      <3>1. ends[r] \in Seq({"sent", "applied", "rejected"})
        BY <1>1 DEF Ends
      <3>2. \A how \in {"sent", "applied", "rejected"} :
               /\ Append(ends[r], how) \in Seq({"sent", "applied", "rejected"})
               /\ Append(ends[r], how) # <<>>
        <4>1. PICK S : S = {"sent", "applied", "rejected"}
          OBVIOUS
        <4>2. ends[r] \in Seq(S)
          BY <3>1, <4>1
        <4>3. \A how \in S : Append(ends[r], how) \in Seq(S) /\ Append(ends[r], how) # <<>>
          BY <4>2, AppendLemma
        <4> QED
          BY <4>1, <4>3
      <3> QED
        BY <3>2 DEF Ends
    <2> QED
      BY <1>1, <2>1 DEF Effect, Waits, Left, Becomes
  <1>3. /\ taskDict' \subseteq taskDict \cup {r}
        /\ taskDict \ {r} \subseteq taskDict'
    BY DEF Effect, Waits, Left, Becomes
  <1>4. /\ \A m, n \in DOMAIN ends'[r] : ends'[r][m] = "sent" /\ ends'[r][n] = "sent" => m = n
        /\ r \in taskDict' => \A n \in DOMAIN ends'[r] : ends'[r][n] # "sent"
        /\ r \in taskDict' \/ ends'[r] # <<>> \/ requests[r].type = "ADD_SFCI"
    <2>1. ASSUME NEW how \in {"sent", "applied", "rejected"}, Becomes(r, how)
          PROVE  /\ ends'[r] # <<>>
                 /\ \A n \in DOMAIN ends'[r] : n = Len(ends[r]) + 1 \/ ends'[r][n] # "sent"
                 /\ how # "sent" => \A n \in DOMAIN ends'[r] : ends'[r][n] # "sent"
                 /\ how = "sent" => r \notin taskDict'
      <3>1. ends'[r] = Append(ends[r], how)
        BY <1>1, <2>1 DEF Becomes
      <3>2. /\ DOMAIN ends'[r] = 1..(Len(ends[r]) + 1)
            /\ \A n \in 1..(Len(ends[r]) + 1) :
                  ends'[r][n] = IF n = Len(ends[r]) + 1 THEN how ELSE ends[r][n]
            /\ DOMAIN ends[r] = 1..Len(ends[r]) /\ Len(ends[r]) \in Nat
            /\ ends'[r] # <<>>
        <4>1. ends[r] \in Seq({"sent", "applied", "rejected"})
          BY <1>1 DEF Ends
        <4> QED
          <5>1. PICK s \in Seq({"sent", "applied", "rejected"}) : s = ends[r]
            BY <4>1
          <5>2. /\ DOMAIN s = 1..Len(s) /\ Len(s) \in Nat
                /\ DOMAIN Append(s, how) = 1..(Len(s) + 1)
                /\ Append(s, how)[Len(s) + 1] = how
                /\ \A n \in 1..Len(s) : Append(s, how)[n] = s[n]
                /\ Append(s, how) # <<>>
            BY AppendLemma
          <5>3. \A n \in 1..(Len(s) + 1) : n = Len(s) + 1 \/ n \in 1..Len(s)
            BY <5>2
          <5>4. \A n \in 1..Len(s) : n # Len(s) + 1
            BY <5>2
          <5> QED
            BY <3>1, <5>1, <5>2, <5>3, <5>4
      <3> QED
        BY <2>1, <3>2 DEF Becomes
    <2>2. CASE Waits(r)
      BY <2>2 DEF Waits
    <2>3. CASE Left(r)
      BY <2>3 DEF Left
    <2> QED
      BY <2>1, <2>2, <2>3 DEF Effect
  <1>5. TypeOK'
    BY <1>1, <1>2, <1>3 DEF IInv, TypeOK
  <1>6. OnTheWay'
    <2>1. \A n \in DOMAIN queue' : queue'[n] \in IDs /\ queue'[n] # r /\ ends[queue'[n]] = <<>>
      <3> TAKE n \in DOMAIN queue'
      <3>1. PICK m \in DOMAIN queue : queue'[n] = queue[m]
        OBVIOUS
      <3> QED
        BY <1>1, <3>1 DEF IInv, TypeOK, OnTheWay
    <2>2. \A q \in IDs : q > Len(requests) => ends'[q] = <<>>
      BY <1>1, <1>2 DEF IInv, OnTheWay
    <2> QED
      BY <1>2, <2>1, <2>2 DEF OnTheWay
  <1>7. Waiting'
    <2> SUFFICES ASSUME NEW q \in taskDict', q # r
                 PROVE  /\ \A n \in DOMAIN queue' : queue'[n] # q
                        /\ \A n \in DOMAIN ends'[q] : ends'[q][n] # "sent"
      BY <1>4 DEF Waiting
    <2>1. q \in taskDict /\ q \in IDs
      BY <1>1, <1>3 DEF IInv, TypeOK
    <2> QED
      BY <1>2, <2>1 DEF IInv, Waiting
  <1>8. PassOfWaiting'
    BY <1>3 DEF PassOfWaiting
  <1>9. SentAtMostOnce'
    BY <1>2, <1>4 DEF IInv, SentAtMostOnce
  <1>10. Remembered'
    <2> SUFFICES ASSUME NEW q \in IDs, q <= Len(requests), requests[q].type # "ADD_SFCI",
                        q \notin taskDict'
                 PROVE  ends'[q] # <<>> \/ \E n \in DOMAIN queue' : queue'[n] = q
      BY DEF Remembered
    <2>1. CASE q = r
      BY <1>4, <2>1
    <2>2. CASE q # r
      <3>1. q \notin taskDict
        BY <1>3, <2>2
      <3>2. ends[q] # <<>> \/ \E n \in DOMAIN queue : queue[n] = q
        BY <3>1 DEF IInv, Remembered
      <3> QED
        BY <1>2, <2>2, <3>2
    <2> QED
      BY <2>1, <2>2
  <1> QED
    BY <1>5, <1>6, <1>7, <1>8, <1>9, <1>10 DEF IInv
-----------------------------------------------------------------------------
LEMMA InitLemma == Init => IInv
  BY RequestHandlerAssumption DEF Init, IInv, TypeOK, OnTheWay, Waiting, PassOfWaiting,
     SentAtMostOnce, Remembered, IDs, Ends

LEMMA SendRequestLemma ==
    ASSUME IInv, NEW req \in UserRequests, SendRequest(req)
    PROVE  IInv'
  <1> DEFINE new == Len(requests) + 1
  <1>1. requests \in Seq(Request) /\ queue \in Seq(1..Len(requests)) /\ Len(requests) \in Nat
    BY DEF IInv, TypeOK
  <1>2. req \in Request
    BY RequestHandlerAssumption DEF UserRequests, SendRequest, Request, RequestTypes, request,
       STATE_ACTIVE, STATE_MANUAL
  <1>3. /\ requests' = Append(requests, req) /\ requests' \in Seq(Request)
        /\ Len(requests') = new
        /\ \A r \in 1..Len(requests) : requests'[r] = requests[r]
    BY <1>1, <1>2 DEF SendRequest
  <1>4. new \in IDs /\ new <= NumRequests
    BY <1>1, RequestHandlerAssumption DEF SendRequest, IDs
  <1>5. /\ queue' \in Seq(1..new)
        /\ DOMAIN queue = 1..Len(queue) /\ DOMAIN queue' = 1..(Len(queue) + 1)
        /\ Len(queue) \in Nat
        /\ queue'[Len(queue) + 1] = new
        /\ \A n \in 1..Len(queue) : queue'[n] = queue[n] /\ queue[n] \in 1..Len(requests)
    BY <1>1 DEF SendRequest
  <1>6. UNCHANGED <<taskDict, ends, todo>>
    BY DEF SendRequest
  <1>7. TypeOK'
    BY <1>1, <1>3, <1>4, <1>5, <1>6 DEF IInv, TypeOK
  <1>8. OnTheWay'
    <2>1. \A m, n \in DOMAIN queue' : queue'[m] = queue'[n] => m = n
      <3>1. \A m, n \in 1..Len(queue) : queue[m] = queue[n] => m = n
        BY <1>5 DEF IInv, OnTheWay
      <3>2. \A n \in 1..Len(queue) : queue'[n] # new
        BY <1>1, <1>5
      <3>3. \A n \in DOMAIN queue' : n \in 1..Len(queue) \/ n = Len(queue) + 1
        BY <1>5
      <3> QED
        BY <1>5, <3>1, <3>2, <3>3
    <2>2. ends[new] = <<>>
      BY <1>1, <1>4 DEF IInv, OnTheWay
    <2>3. \A n \in DOMAIN queue' : ends[queue'[n]] = <<>>
      BY <1>5, <2>2 DEF IInv, OnTheWay
    <2>4. \A r \in IDs : r > Len(requests') => r > Len(requests)
      BY <1>1, <1>3, RequestHandlerAssumption DEF IDs
    <2>5. \A r \in IDs : r > Len(requests') => ends[r] = <<>>
      BY <2>4 DEF IInv, OnTheWay
    <2> QED
      BY <1>6, <2>1, <2>3, <2>5 DEF OnTheWay
  <1>9. Waiting'
    <2>1. taskDict \subseteq 1..Len(requests)
      BY DEF IInv, TypeOK
    <2>2. \A r \in taskDict : \A n \in DOMAIN queue' : queue'[n] # r
      <3> SUFFICES ASSUME NEW r \in taskDict, NEW n \in DOMAIN queue'
                   PROVE  queue'[n] # r
        OBVIOUS
      <3>1. CASE n \in 1..Len(queue)
        BY <1>5, <3>1 DEF IInv, Waiting
      <3>2. CASE n = Len(queue) + 1
        BY <1>1, <1>5, <2>1, <3>2
      <3> QED
        BY <1>5, <3>1, <3>2
    <2> QED
      BY <1>6, <2>2 DEF IInv, Waiting
  <1>10. PassOfWaiting' /\ SentAtMostOnce'
    BY <1>6 DEF IInv, PassOfWaiting, SentAtMostOnce
  <1>11. Remembered'
    <2> SUFFICES ASSUME NEW r \in IDs, r <= Len(requests'), requests'[r].type # "ADD_SFCI",
                        r \notin taskDict
                 PROVE  ends[r] # <<>> \/ \E n \in DOMAIN queue' : queue'[n] = r
      BY <1>6 DEF Remembered
    <2>1. CASE r = new
      BY <1>5, <2>1
    <2>2. CASE r # new
      <3>1. r \in 1..Len(requests)
        BY <1>1, <1>3, <2>2, RequestHandlerAssumption DEF IDs
      <3>2. ends[r] # <<>> \/ \E n \in DOMAIN queue : queue[n] = r
        BY <1>3, <3>1 DEF IInv, Remembered
      <3> QED
        BY <1>5, <3>2
    <2> QED
      BY <2>1, <2>2
  <1> QED
    BY <1>7, <1>8, <1>9, <1>10, <1>11 DEF IInv

LEMMA GetMsgLemma ==
    ASSUME IInv, GetMsg
    PROVE  IInv'
  <1>1. /\ queue \in Seq(1..Len(requests)) /\ queue # <<>> /\ queue' = Tail(queue)
        /\ Len(requests) \in Nat /\ Len(requests) <= NumRequests /\ NumRequests \in Nat
        /\ ends \in [IDs -> Ends]
    BY RequestHandlerAssumption DEF IInv, TypeOK, GetMsg
  <1>2. PICK r \in 1..Len(requests) : r = Head(queue) /\ r = queue[1]
    BY <1>1
  <1>3. r \in IDs /\ r <= Len(requests)
    BY <1>1 DEF IDs
  <1>4. /\ DOMAIN queue = 1..Len(queue) /\ DOMAIN queue' = 1..(Len(queue) - 1)
        /\ Len(queue) \in Nat \ {0}
        /\ \A n \in 1..(Len(queue) - 1) : queue'[n] = queue[n + 1]
        /\ queue' \in Seq(1..Len(requests))
    BY <1>1
  <1>5. \A m, n \in DOMAIN queue : queue[m] = queue[n] => m = n
    BY DEF IInv, OnTheWay
  <1>6. Effect(r)
    BY <1>1, <1>2, <1>3, HandleLemma DEF GetMsg
  <1>7. ends[r] = <<>>
    BY <1>2, <1>4 DEF IInv, OnTheWay
  <1>8. \A n \in DOMAIN ends[r] : ends[r][n] # "sent"
    BY <1>7
  <1>9. \A n \in DOMAIN queue' : n + 1 \in DOMAIN queue /\ queue'[n] = queue[n + 1] /\ n + 1 # 1
    BY <1>4
  <1>10. \A n \in DOMAIN queue' : queue'[n] # r
    <2> TAKE n \in DOMAIN queue'
    <2>1. 1 \in DOMAIN queue /\ queue[1] = r
      BY <1>2, <1>4
    <2>2. n + 1 \in DOMAIN queue /\ queue[n + 1] # queue[1]
      BY <1>5, <1>9, <2>1
    <2> QED
      BY <1>9, <2>1, <2>2
  <1>11. \A n \in DOMAIN queue' : \E m \in DOMAIN queue : queue'[n] = queue[m]
    BY <1>9
  <1>12. \A m, n \in DOMAIN queue' : queue'[m] = queue'[n] => m = n
    <2> TAKE m, n \in DOMAIN queue'
    <2>1. queue'[m] = queue'[n] => m + 1 = n + 1
      BY <1>5, <1>9
    <2> QED
      BY <1>4, <2>1
  <1>13. \A n \in DOMAIN queue : queue[n] = r \/ \E m \in DOMAIN queue' : queue'[m] = queue[n]
    <2> TAKE n \in DOMAIN queue
    <2>1. CASE n = 1
      BY <1>2, <2>1
    <2>2. CASE n # 1
      <3>1. n - 1 \in DOMAIN queue' /\ n - 1 + 1 = n
        BY <1>4, <2>2
      <3> QED
        BY <1>9, <3>1
    <2> QED
      BY <2>1, <2>2
  <1>14. todo' \subseteq taskDict \ {r} /\ UNCHANGED requests
    BY DEF GetMsg
  <1> QED
    BY <1>3, <1>4, <1>6, <1>8, <1>10, <1>11, <1>12, <1>13, <1>14, EffectLemma

LEMMA PassStepLemma ==
    ASSUME IInv, PassStep
    PROVE  IInv'
  <1>1. PICK r \in todo : /\ todo' = todo \ {r}
                          /\ \/ Forget(r) /\ End(r, "rejected")
                             \/ handle(r)
                          /\ UNCHANGED <<requests, queue>>
    BY DEF PassStep
  <1>2. /\ r \in taskDict /\ r \in 1..Len(requests) /\ r \in IDs /\ r <= Len(requests)
        /\ ends[r] \in Ends
    BY RequestHandlerAssumption DEF IInv, TypeOK, PassOfWaiting, IDs
  <1>3. Effect(r)
    <2>1. CASE Forget(r) /\ End(r, "rejected")
      BY <2>1 DEF Forget, End, Effect, Becomes
    <2> QED
      BY <1>1, <1>2, <2>1, HandleLemma
  <1>4. \A n \in DOMAIN ends[r] : ends[r][n] # "sent"
    BY <1>2 DEF IInv, Waiting
  <1>5. \A n \in DOMAIN queue' : queue'[n] # r
    BY <1>1, <1>2 DEF IInv, Waiting
  <1>6. queue' \in Seq(1..Len(requests)) /\ queue' = queue /\ UNCHANGED requests
    BY <1>1 DEF IInv, TypeOK
  <1>7. \A m, n \in DOMAIN queue' : queue'[m] = queue'[n] => m = n
    BY <1>6 DEF IInv, OnTheWay
  <1>8. todo' \subseteq taskDict \ {r}
    BY <1>1 DEF IInv, PassOfWaiting
  <1> QED
    BY <1>2, <1>3, <1>4, <1>5, <1>6, <1>7, <1>8, EffectLemma

LEMMA NextLemma == IInv /\ [Next]_vars => IInv'
  <1> SUFFICES ASSUME IInv, [Next]_vars
               PROVE  IInv'
    OBVIOUS
  <1>1. ASSUME UNCHANGED <<requests, queue, taskDict, ends>>, todo' \in {todo, taskDict}
        PROVE  IInv'
    BY <1>1 DEF IInv, TypeOK, OnTheWay, Waiting, PassOfWaiting, SentAtMostOnce, Remembered
  <1>2. CASE UNCHANGED vars
    BY <1>1, <1>2 DEF vars, handlerVars
  <1>3. CASE \E req \in UserRequests : SendRequest(req)
    BY <1>3, SendRequestLemma
  <1>4. CASE GetMsg
    BY <1>4, GetMsgLemma
  <1>5. CASE PassStep
    BY <1>5, PassStepLemma
  <1>6. CASE StartPass \/ Tick
    BY <1>1, <1>6 DEF StartPass, Tick
  <1>7. CASE OrchTakes
    BY <1>1, <1>7 DEF OrchTakes, handlerVars
  <1>8. CASE \E r \in IDs, cmdState \in {CMD_STATE_SUCCESSFUL, CMD_STATE_FAIL} :
                OrchReplies(r, cmdState)
    BY <1>1, <1>8 DEF OrchReplies, handlerVars
  <1>9. CASE Failure
    BY <1>1, <1>9 DEF Failure, handlerVars
  <1> QED
    BY <1>2, <1>3, <1>4, <1>5, <1>6, <1>7, <1>8, <1>9 DEF Next

\* A request leaves the regulator once, and not without a trace, however many passes it
\* waits for and whatever becomes of its SFC meanwhile (handle, processAllRequestTask).
THEOREM RequestsLeaveOnce == Spec => []LeavesOnce
  <1>1. IInv => LeavesOnce
    <2> SUFFICES ASSUME IInv
                 PROVE  NoneForgotten
      BY DEF IInv, LeavesOnce
    <2>1. DOMAIN requests = 1..Len(requests) /\ DOMAIN queue = 1..Len(queue)
      BY DEF IInv, TypeOK
    <2> QED
      BY <2>1 DEF IInv, Remembered, NoneForgotten, IsHandled, IsWaiting, Contains, IDs
  <1> QED
    BY InitLemma, NextLemma, <1>1, PTL DEF Spec
=============================================================================
