--------------------------- MODULE DashboardSession ---------------------------
(***************************************************************************)
(* The session of the dashboard in one browser tab: the navigation guard   *)
(* (frontend/src/permission.js), the user store (store/modules/user.js)    *)
(* and what an error of a request sets off (utils/request.js).             *)
(*                                                                         *)
(* A page is "login", "page" (any page that needs a login) or "blank"      *)
(* before the first navigation has ended.  The accounts, roles and routes  *)
(* are left out: roles only says whether the user store knows them.        *)
(***************************************************************************)
EXTENDS Naturals, FiniteSets

CONSTANTS
    MaxNavigations,     \* bound: navigations of the user
    MaxFailedCalls      \* bound: requests that fail

ASSUME SessionAssumption ==
    MaxNavigations \in Nat \ {0} /\ MaxFailedCalls \in Nat

VARIABLES
    token,          \* ACCESS_TOKEN is in the storage
    valid,          \* the backend accepts it
    roles,          \* the user store has the roles
    page,
    nav,            \* number of the navigation under way, the latest one, or 0
    infos,          \* navigations whose GetInfo is under way
    logouts,        \* callers of the Logout requests under way
    reloading,      \* window.location.reload is scheduled
    hanging,        \* a Logout has failed, its caller never goes on
    navigations, failedCalls

userVars == <<token, roles>>
sessionVars == <<userVars, valid, page, nav, infos, logouts, reloading, hanging, navigations, failedCalls>>

\* Navigations under way and those whose callbacks still run are told apart by a number.
NewNav ==
    LET inUse == {nav} \cup infos \cup {caller.nav : caller \in logouts}
    IN  CHOOSE n \in 1..(Cardinality(inUse) + 1) : n \notin inUse

\* router.beforeEach for navigation n, with the token and roles there will be.  With a
\* token the login page leads on to another page, without one every other page leads
\* to the login page; the roles are fetched first if they are not known.
Guard(n, hasToken, hasRoles) ==
    IF hasToken /\ ~hasRoles
    THEN nav' = n /\ infos' = infos \cup {n} /\ UNCHANGED page
    ELSE nav' = 0 /\ page' = (IF hasToken THEN "page" ELSE "login") /\ UNCHANGED infos

\* router.push, of the user, of a page or of a guard's next({path}).
push(hasToken, hasRoles) == Guard(NewNav, hasToken, hasRoles)

\* The page is opened, with or without a token of an earlier visit.
SessionInit ==
    /\ token \in BOOLEAN /\ valid \in BOOLEAN /\ roles = FALSE
    /\ page = IF token THEN "blank" ELSE "login"
    /\ nav = IF token THEN 1 ELSE 0
    /\ infos = IF token THEN {1} ELSE {}
    /\ logouts = {}
    /\ reloading = FALSE
    /\ hanging = FALSE
    /\ navigations = 1 /\ failedCalls = 0
-----------------------------------------------------------------------------
\* The user follows a link or goes back.  A navigation takes the place of the one
\* before, whose callbacks still run.
Navigate ==
    /\ page # "blank"
    /\ navigations < MaxNavigations /\ navigations' = navigations + 1
    /\ push(token, roles)
    /\ UNCHANGED <<userVars, valid, logouts, reloading, hanging, failedCalls>>

\* Login of the user store, and loginSuccess of the login page.
Login ==
    /\ page = "login"
    /\ navigations < MaxNavigations /\ navigations' = navigations + 1
    /\ token' = TRUE /\ valid' = TRUE
    /\ push(TRUE, roles)
    /\ UNCHANGED <<roles, logouts, reloading, hanging, failedCalls>>

\* GetInfo is answered and the guard goes on with next({path}).  That is a redirection:
\* the router pushes it even if another navigation has taken the place of this one.
InfoArrives(n) ==
    /\ n \in infos /\ valid
    /\ roles' = TRUE
    /\ nav' = 0 /\ page' = (IF token THEN "page" ELSE "login")
    /\ infos' = infos \ {n}
    /\ UNCHANGED <<token, valid, logouts, reloading, hanging, navigations, failedCalls>>

Dispatch(callers) == logouts' = logouts \cup callers

\* errorHandler: on status 401 the user is logged out and the page loaded again.
errorHandler(unauthorized) == IF unauthorized /\ token THEN {[by |-> "errorHandler", nav |-> 0]} ELSE {}

\* GetInfo fails: the guard logs the user out, too.
InfoFails(n) ==
    /\ n \in infos
    /\ \/ ~valid /\ UNCHANGED failedCalls
          /\ Dispatch(errorHandler(TRUE) \cup {[by |-> "guard", nav |-> n]})
       \/ /\ failedCalls < MaxFailedCalls /\ failedCalls' = failedCalls + 1
          /\ Dispatch({[by |-> "guard", nav |-> n]})
    /\ infos' = infos \ {n}
    /\ UNCHANGED <<userVars, valid, page, nav, reloading, hanging, navigations>>

\* A request of a page is refused.
PageRequestFails ==
    /\ page = "page" /\ ~valid /\ token
    /\ Dispatch(errorHandler(TRUE))
    /\ UNCHANGED <<userVars, valid, page, nav, infos, reloading, hanging, navigations, failedCalls>>

\* handleLogout of the menu.
MenuLogout ==
    /\ page = "page"
    /\ Dispatch({[by |-> "menu", nav |-> 0]})
    /\ UNCHANGED <<userVars, valid, page, nav, infos, reloading, hanging, navigations, failedCalls>>

\* Wrong variant: the token stays in the storage.
ClearedButToken == token' = token /\ roles' = FALSE

Cleared == token' = FALSE /\ roles' = FALSE

\* Logout is answered: the token and the roles are cleared, and its caller goes on;
\* the guard and the menu push the login page.
LogoutArrives(caller) ==
    /\ caller \in logouts
    /\ logouts' = logouts \ {caller}
    /\ Cleared
    /\ \/ /\ caller.by \in {"guard", "menu"}
          /\ push(token', FALSE)
          /\ UNCHANGED reloading
       \/ /\ caller.by = "errorHandler"
          /\ reloading' = TRUE
          /\ UNCHANGED <<nav, page, infos>>
    /\ UNCHANGED <<valid, hanging, navigations, failedCalls>>

\* Logout fails: neither resolved nor rejected, its caller never goes on.  If it is
\* refused with status 401, the error handler sends another one.
LogoutFails(caller) ==
    /\ hanging' = TRUE
    /\ failedCalls < MaxFailedCalls /\ failedCalls' = failedCalls + 1
    /\ caller \in logouts
    /\ \E unauthorized \in {FALSE, ~valid} :
          logouts' = (logouts \ {caller}) \cup errorHandler(unauthorized)
    /\ UNCHANGED <<userVars, valid, page, nav, infos, reloading, navigations>>

\* 1.5 s later everything that is not in the storage is lost.
Reload ==
    /\ reloading
    /\ reloading' = FALSE
    /\ roles' = FALSE /\ logouts' = {}
    /\ page' = IF token THEN "blank" ELSE "login"
    /\ nav' = IF token THEN 1 ELSE 0
    /\ infos' = IF token THEN {1} ELSE {}
    /\ UNCHANGED <<token, valid, hanging, navigations, failedCalls>>

Expire ==
    /\ valid
    /\ valid' = FALSE
    /\ UNCHANGED <<userVars, page, nav, infos, logouts, reloading, hanging, navigations, failedCalls>>
-----------------------------------------------------------------------------
InfoAnswered   == \E n \in infos : InfoArrives(n) \/ InfoFails(n)
LogoutAnswered == \E caller \in logouts : LogoutArrives(caller) \/ LogoutFails(caller)

SessionNext ==
    \/ Navigate \/ Login
    \/ InfoAnswered \/ LogoutAnswered
    \/ PageRequestFails \/ MenuLogout \/ Reload \/ Expire
=============================================================================
