----------------------------- MODULE RequestPath -----------------------------
(***************************************************************************)
(* The way of a request the regulator makes, as far as the regulator can   *)
(* tell: the orchestrator's queue, the batch of ADD_SFCI requests, the     *)
(* mediator, and the repetition of failed requests by the regulator.  What *)
(* happens on the way is in modules Orchestrator and Mediator; here are    *)
(* the states a request and its command put an SFC or an SFCI into.        *)
(***************************************************************************)
EXTENDS OrchInfoBaseMaintainer, Sequences, Bags

CONSTANT MAX_RETRY_NUM

ASSUME RequestPathAssumption == MAX_RETRY_NUM \in Nat

VARIABLES
    db,           \* tables SFC and SFCI
    orchQueue,    \* requests on their way to the orchestrator
    batch,        \* ADD_SFCI requests the orchestrator holds back
    inMediator,   \* bag of the requests whose command is being carried out
    failedReqs,   \* bag of the failed requests the regulator will repeat
    losses,
    scenario      \* what may happen in this behaviour; of its fields this module uses
                  \* losses, the bound on requests and commands lost, and cmdsMayFail

orchVars == <<orchQueue, batch, inMediator, failedReqs, losses>>

NoRequests ==
    orchQueue = <<>> /\ batch = <<>> /\ inMediator = EmptyBag /\ failedReqs = EmptyBag /\ losses = 0

SFCState(s)  == db.SFC[s].state
SFCIState(i) == IF hasSFCI(db, i) THEN db.SFCI[i].state ELSE None

request(type, s, i) == [type |-> type, sfc |-> s, sfci |-> i, retryCnt |-> 0]

Send(reqs) == /\ orchQueue' = orchQueue \o reqs
              /\ UNCHANGED <<batch, inMediator, failedReqs, losses>>
SendNothing == UNCHANGED orchVars
-----------------------------------------------------------------------------
Fails(req) == failedReqs' = IF req.retryCnt < MAX_RETRY_NUM THEN failedReqs (+) SetToBag({req}) ELSE failedReqs

\* The command is sent if the state allows it.
Handle(req, isValid, dbIfSent, dbIfNot) ==
    IF isValid THEN /\ inMediator' = inMediator (+) SetToBag({req})
                    /\ db' = dbIfSent
                    /\ UNCHANGED failedReqs
               ELSE /\ Fails(req)
                    /\ db' = dbIfNot
                    /\ UNCHANGED inMediator

TakeRequest ==
    /\ orchQueue # <<>>
    /\ orchQueue' = Tail(orchQueue)
    /\ LET req == Head(orchQueue)
           s   == req.sfc
           i   == req.sfci
       IN  \/ /\ req.type = "ADD_SFC"
              /\ Handle(req, isAddSFCValidState(db, s), updateSFCState(db, s, STATE_IN_PROCESSING),
                                                        updateSFCState(db, s, STATE_INIT_FAILED))
              /\ UNCHANGED batch
           \/ /\ req.type = "DEL_SFC"
              /\ Handle(req, isDelSFCValidState(db, s), updateSFCState(db, s, STATE_IN_PROCESSING), db)
              /\ UNCHANGED batch
           \/ /\ req.type = "DEL_SFCI"
              /\ Handle(req, isDelSFCIValidState(db, i), updateSFCIState(db, i, STATE_IN_PROCESSING),
                                                         updateSFCIState(db, i, STATE_UNDELETED))
              /\ UNCHANGED batch
           \/ /\ req.type = "ADD_SFCI"
              /\ batch' = Append(batch, req)
              /\ UNCHANGED <<db, inMediator, failedReqs>>
    /\ UNCHANGED losses

\* The path is chosen and the command is sent, or it is not.
PathFound ==
    /\ batch # <<>>
    /\ batch' = Tail(batch)
    /\ LET req == Head(batch)
       IN  Handle(req, isAddSFCIValidState(db, req.sfci),
                  [db EXCEPT !.SFCI[req.sfci] = [state |-> STATE_IN_PROCESSING]], db)
    /\ UNCHANGED <<orchQueue, losses>>

NoPathFound ==
    /\ batch # <<>>
    /\ batch' = Tail(batch)
    /\ LET req == Head(batch)
       IN  Handle(req, FALSE, db, updateSFCIState(db, req.sfci, STATE_INIT_FAILED))
    /\ UNCHANGED <<orchQueue, losses>>

BatchStep == PathFound \/ (scenario.cmdsMayFail /\ NoPathFound)

\* The command is answered.
Reply(req, cmdState) ==
    LET state == ResourceStateAfter(req.type, cmdState)
        listed == IF req.type = "ADD_SFCI" THEN addSFCI2SFCInDB(db, req.sfci) ELSE db
    IN  /\ BagIn(req, inMediator)
        /\ inMediator' = inMediator (-) SetToBag({req})
        /\ db' = IF req.sfci = None THEN updateSFCState(db, req.sfc, state)
                                    ELSE updateSFCIState(listed, req.sfci, state)
        /\ IF cmdState = CMD_STATE_SUCCESSFUL THEN UNCHANGED failedReqs ELSE Fails(req)
        /\ UNCHANGED <<orchQueue, batch, losses>>

CmdStates == {CMD_STATE_SUCCESSFUL} \cup (IF scenario.cmdsMayFail THEN {CMD_STATE_FAIL} ELSE {})

\* Regulator.retryFailureRequests
RetryFailureRequest ==
    /\ \E req \in BagToSet(failedReqs) :
          /\ failedReqs' = failedReqs (-) SetToBag({req})
          /\ orchQueue' = Append(orchQueue, [req EXCEPT !.retryCnt = @ + 1])
    /\ UNCHANGED <<db, batch, inMediator, losses>>

\* A request or a command is lost.
Lose ==
    /\ losses < scenario.losses
    /\ losses' = losses + 1
    /\ \/ orchQueue # <<>> /\ orchQueue' = Tail(orchQueue) /\ UNCHANGED inMediator
       \/ \E req \in BagToSet(inMediator) : inMediator' = inMediator (-) SetToBag({req}) /\ UNCHANGED orchQueue
    /\ UNCHANGED <<db, batch, failedReqs>>
-----------------------------------------------------------------------------
Queued   == {orchQueue[n] : n \in DOMAIN orchQueue} \cup {batch[n] : n \in DOMAIN batch}
Underway == Queued \cup BagToSet(inMediator) \cup BagToSet(failedReqs)
=============================================================================
