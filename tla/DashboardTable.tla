---------------------------- MODULE DashboardTable ----------------------------
(***************************************************************************)
(* A monitoring page of the dashboard (frontend/src/views/monitor) and the *)
(* table it uses (components/Table/index.js).  The page refreshes the      *)
(* table every two seconds and the user turns its pages; every load is a   *)
(* request to the backend, and the answers come back in any order or not   *)
(* at all.                                                                 *)
(*                                                                         *)
(* The rows of the backend are modelled by their number: a page of the     *)
(* table is the part of 1..rows that slice would return.  Sorting,         *)
(* filtering and the selection of rows are left out: the monitoring pages  *)
(* do not use them.                                                        *)
(***************************************************************************)
EXTENDS Naturals, FiniteSets

CONSTANTS
    PageSizes,      \* page sizes the user can choose
    MaxRows,        \* bound: rows the backend has
    MaxInFlight,    \* bound: a request fails after 6 s, the page refreshes every 2 s
    MaxChanges,     \* bound: changes of the number of rows
    MaxTurns,       \* bound: pages turned by the user
    MaxFailures     \* bound: requests without an answer

ASSUME TableAssumption ==
    /\ PageSizes \subseteq Nat \ {0} /\ PageSizes # {} /\ IsFiniteSet(PageSizes)
    /\ MaxRows \in Nat /\ MaxInFlight \in Nat \ {0}
    /\ MaxChanges \in Nat /\ MaxTurns \in Nat /\ MaxFailures \in Nat

VARIABLES
    rows,               \* number of rows of the backend
    localPagination,    \* current, pageSize and total
    localDataSource,    \* the rows shown
    localLoading,
    inFlight,           \* set of requests, with the rows once answered
    changes, turns, failures

tableVars == <<localPagination, localDataSource, localLoading, inFlight>>
boundVars == <<changes, turns, failures>>
pageVars == <<rows, tableVars, boundVars>>

defaultPageSize == CHOOSE n \in PageSizes : TRUE

\* The rows of a page: slice(start, end) of the monitoring pages' loadData.
Slice(total, pageNo, pageSize) == {n \in 1..total : (n - 1) \div pageSize = pageNo - 1}

\* Requests that are alike are told apart by a number.
NewId == CHOOSE n \in 1..(MaxInFlight + 1) : \A req \in inFlight : req.id # n

\* A request of loadData; given says whether the user asked for the page.
request(id, page, given) ==
    [id |-> id, pageNo |-> page.current, pageSize |-> page.pageSize, given |-> given,
     answered |-> FALSE, answer |-> 0]
-----------------------------------------------------------------------------
\* created of the table: the first page is loaded.
TableInit ==
    /\ rows \in 0..MaxRows
    /\ localPagination = [current |-> 1, pageSize |-> defaultPageSize, total |-> 0]
    /\ localDataSource = {}
    /\ localLoading = TRUE
    /\ inFlight = {request(1, localPagination, FALSE)}
    /\ changes = 0 /\ turns = 0 /\ failures = 0

loadData(page, given, showLoading, others) ==
    /\ localLoading' = showLoading
    /\ inFlight' = others \cup {request(NewId, page, given)}

\* The interval of the monitoring pages: refresh(false, false).
Refresh ==
    /\ Cardinality(inFlight) < MaxInFlight
    /\ loadData(localPagination, FALSE, FALSE, inFlight)
    /\ UNCHANGED <<rows, localPagination, localDataSource, boundVars>>

\* The user turns to a page the pagination offers, or chooses another page size.
\* localPagination does not change before the answer comes.
Turn(pageNo, pageSize) ==
    /\ turns < MaxTurns
    /\ Cardinality(inFlight) < MaxInFlight
    /\ Slice(localPagination.total, pageNo, pageSize) # {}
    /\ [current |-> pageNo, pageSize |-> pageSize] #
            [current |-> localPagination.current, pageSize |-> localPagination.pageSize]
    /\ turns' = turns + 1
    /\ loadData([current |-> pageNo, pageSize |-> pageSize], TRUE, TRUE, inFlight)
    /\ UNCHANGED <<rows, localPagination, localDataSource, changes, failures>>

\* The backend reads its rows.
Answer(req) ==
    /\ req \in inFlight /\ ~req.answered
    /\ inFlight' = (inFlight \ {req}) \cup {[req EXCEPT !.answered = TRUE, !.answer = rows]}
    /\ UNCHANGED <<rows, localPagination, localDataSource, localLoading, boundVars>>

\* What an answer makes of the pagination.
PaginationAfter(req) ==
    [current  |-> req.pageNo, total |-> req.answer,
     pageSize |-> IF req.given THEN req.pageSize ELSE localPagination.pageSize]

\* Wrong variant: an empty page is shown.
ReceiveShowingEmpty(req) ==
    /\ req \in inFlight /\ req.answered
    /\ localPagination' = PaginationAfter(req)
    /\ localDataSource' = Slice(req.answer, req.pageNo, req.pageSize)
    /\ localLoading' = FALSE
    /\ inFlight' = inFlight \ {req}
    /\ UNCHANGED <<rows, boundVars>>

\* Wrong variant: the page before an empty one is not loaded.
ReceiveNotLoading(req) ==
    LET data == Slice(req.answer, req.pageNo, req.pageSize)
    IN  /\ req \in inFlight /\ req.answered
        /\ localPagination' = [PaginationAfter(req) EXCEPT !.current = IF data = {} /\ @ > 1 THEN @ - 1 ELSE @]
        /\ localDataSource' = data
        /\ localLoading' = FALSE
        /\ inFlight' = inFlight \ {req}
        /\ UNCHANGED <<rows, boundVars>>

\* The answer comes: an empty page is not shown, the page before it is loaded instead.
Receive(req) ==
    LET data == Slice(req.answer, req.pageNo, req.pageSize)
        back == [PaginationAfter(req) EXCEPT !.current = @ - 1]
    IN  /\ req \in inFlight /\ req.answered
        /\ \/ /\ data = {} /\ req.pageNo > 1
              /\ localPagination' = back
              /\ loadData(back, FALSE, TRUE, inFlight \ {req})
              /\ UNCHANGED localDataSource
           \/ /\ data # {} \/ req.pageNo <= 1
              /\ localPagination' = PaginationAfter(req)
              /\ localDataSource' = data
              /\ localLoading' = FALSE
              /\ inFlight' = inFlight \ {req}
        /\ UNCHANGED <<rows, boundVars>>

\* The request fails: nothing is done about it, the table goes on loading.
Fail(req) ==
    /\ failures < MaxFailures
    /\ req \in inFlight
    /\ failures' = failures + 1
    /\ inFlight' = inFlight \ {req}
    /\ UNCHANGED <<rows, localPagination, localDataSource, localLoading, changes, turns>>

RowsChange(n) ==
    /\ changes < MaxChanges
    /\ n # rows
    /\ rows' = n
    /\ changes' = changes + 1
    /\ UNCHANGED <<tableVars, turns, failures>>
-----------------------------------------------------------------------------
\* The request with this number is answered, or its answer arrives.
AnswerOf(n)  == \E req \in inFlight : req.id = n /\ Answer(req)
ReceiveOf(n) == \E req \in inFlight : req.id = n /\ Receive(req)

TableNext ==
    \/ Refresh
    \/ \E pageNo \in 1..MaxRows, pageSize \in PageSizes : Turn(pageNo, pageSize)
    \/ \E req \in inFlight : Answer(req) \/ Receive(req) \/ Fail(req)
    \/ \E n \in 0..MaxRows : RowsChange(n)

=============================================================================
