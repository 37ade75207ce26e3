------------------------------ MODULE Dashboard -------------------------------
(***************************************************************************)
(* The parts of the dashboard that have a state of their own: the table of *)
(* a monitoring page and the session in the browser, and the requester of  *)
(* the web server.  They share no state and do not call each other: what   *)
(* one sees of another is that a request is answered, late or not at all,  *)
(* which is in each of them.  So a behaviour is one of one part, and the   *)
(* other parts rest; their interleavings would show nothing more.          *)
(***************************************************************************)
EXTENDS DashboardTable, DashboardRequester, DashboardSession

VARIABLE part       \* the part this behaviour is of

vars == <<part, pageVars, requesterVars, sessionVars>>

Table(A)     == part = "table" /\ A /\ UNCHANGED <<part, requesterVars, sessionVars>>
Requester(A) == part = "requester" /\ A /\ UNCHANGED <<part, pageVars, sessionVars>>
Session(A)   == part = "session" /\ A /\ UNCHANGED <<part, pageVars, requesterVars>>

\* Where the other parts start says nothing: they have one initial state.
Init ==
    /\ part \in {"table", "requester", "session"}
    /\ TableInit /\ (part # "table" => rows = 0)
    /\ RequesterInit
    /\ SessionInit /\ (part # "session" => ~token /\ valid)

Next == Table(TableNext) \/ Requester(RequesterNext) \/ Session(SessionNext)

Spec == Init /\ [][Next]_vars

\* The table is refreshed over and over, and each of its requests is answered within 6 s.
TableFairness ==
    /\ SF_vars(Table(Refresh))
    /\ \A n \in 1..(MaxInFlight + 1) : WF_vars(Table(AnswerOf(n))) /\ WF_vars(Table(ReceiveOf(n)))

\* The threads of the web server are scheduled (a request need not be made, an answer
\* need not come within the ten seconds), and so are the loops and the simulator.
RequesterFairness ==
    /\ \A t \in Threads :
          /\ WF_vars(Requester(InitQueue(t) \/ InitAgent(t) \/ InitServer(t) \/ InitThread(t) \/ Put(t)))
          /\ WF_vars(Requester(LoopStep(t)))
    /\ WF_vars(Requester(SimulatorStep))

\* Every call of the session is answered or fails, and the page is loaded again when
\* that was scheduled.
SessionFairness ==
    WF_vars(Session(InfoAnswered)) /\ WF_vars(Session(LogoutAnswered)) /\ WF_vars(Session(Reload))

FairSpec == Spec /\ TableFairness /\ RequesterFairness /\ SessionFairness
-----------------------------------------------------------------------------
(***************************************************************************)
(* Properties                                                              *)
(***************************************************************************)
\* The page number and the rows below it belong together: when all answers are there,
\* in whatever order they came, the table shows the page that the pagination says
\* (loadData).  It takes a single page size: an answer that was asked for with one size
\* and comes after the answer for another leaves rows of the first below the second.
ShownIsCurrent ==
    (inFlight = {} /\ failures = 0 /\ Cardinality(PageSizes) = 1 /\ part = "table") =>
        localDataSource = Slice(localPagination.total, localPagination.current, localPagination.pageSize)

\* "In order that the current page is not empty after rows were deleted, turn to the
\* page before" (index.js:175): when rows, user and failures have come to rest the
\* table shows rows of the backend as they are, on a page that is not empty if there
\* are any, and no longer says that it is loading.
SettlesOnTruth ==
    <>[](part = "table" =>
            /\ localDataSource = Slice(rows, localPagination.current, localPagination.pageSize)
            /\ localDataSource = {} => rows = 0
            /\ ~localLoading)

\* What a thread finds at the queue it waits at is the answer to the command it has
\* sent last, however many commands before it timed out and are answered late, were
\* stored twice or handled by another loop (_request, _message_loop).
OwnAnswer ==
    \A t \in Threads : pc[t] = "wait" =>
        \A n \in DOMAIN AnswersFor(t) : AnswersFor(t)[n] = asked[t].cmdID

Starters == {t \in Threads : loop[t] # "none" \/ pc[t] \in {"initQueue", "initAgent", "initServer", "initThread"}}

Unanswered == {t \in Threads : pc[t] = "wait" /\ AnswersFor(t) = <<>>}

\* A thread that waits is answered or gives up, unless a command was stored twice, so
\* that a second answer comes and the loop ends, or two threads started the Requester
\* at the same time: no request is forgotten otherwise (_request, _message_loop).
WaitEnds ==
    Unanswered # {} ~> \/ Unanswered = {}
                       \/ repetitions > 0
                       \/ Cardinality(Starters) > 1

\* A navigation ends, on some page, whatever fails in between and however logouts of
\* the guard, the error handler and the menu interleave (beforeEach), unless a Logout
\* has failed.
NavigationEnds == (nav # 0) ~> (nav = 0 \/ hanging)
=============================================================================
