------------------------------- MODULE FanOut -------------------------------
(***************************************************************************)
(* What the mediator promises the components that send it commands, with   *)
(* no queues, no tables and no message formats: a command is carried out   *)
(* by a set of participants, each of which acts after the participant it   *)
(* depends on has succeeded; the sender gets at most one verdict, success  *)
(* only if every participant succeeded, failure only if one failed.        *)
(***************************************************************************)
CONSTANTS
    Cmds,              \* command identifiers
    Command,           \* commands
    Participant,       \* everybody who can act on a command
    Participants(_),   \* those who must act on a given command
    DependsOn(_, _),   \* DependsOn(cmd, n): who must have succeeded before n acts
    None, Success, Failure

VARIABLES
    issued,    \* [Cmds -> Command or None]
    acted,     \* set of <<p, n, outcome>>: n acted on p with that outcome
    verdict    \* [Cmds -> <<>>, <<Success>> or <<Failure>>]

serviceVars == <<issued, acted, verdict>>

ServiceInit ==
    /\ issued = [p \in Cmds |-> None]
    /\ acted = {}
    /\ verdict = [p \in Cmds |-> <<>>]

Issue(p, cmd) ==
    /\ issued[p] = None
    /\ issued' = [issued EXCEPT ![p] = cmd]
    /\ UNCHANGED <<acted, verdict>>

Act(p, n, outcome) ==
    /\ issued[p] # None
    /\ n \in Participants(issued[p])
    /\ \A d \in DependsOn(issued[p], n) : <<p, d, Success>> \in acted
    /\ acted' = acted \cup {<<p, n, outcome>>}
    /\ UNCHANGED <<issued, verdict>>

AnswerSuccess(p) ==
    /\ issued[p] # None
    /\ verdict[p] = <<>>
    /\ \A n \in Participants(issued[p]) : <<p, n, Success>> \in acted
    /\ verdict' = [verdict EXCEPT ![p] = <<Success>>]
    /\ UNCHANGED <<issued, acted>>

AnswerFailure(p) ==
    /\ issued[p] # None
    /\ verdict[p] = <<>>
    /\ \E n \in Participants(issued[p]) : <<p, n, Failure>> \in acted
    /\ verdict' = [verdict EXCEPT ![p] = <<Failure>>]
    /\ UNCHANGED <<issued, acted>>

ServiceNext ==
    \E p \in Cmds :
        \/ \E cmd \in Command : Issue(p, cmd)
        \/ \E n \in Participant, outcome \in {Success, Failure} : Act(p, n, outcome)
        \/ AnswerSuccess(p)
        \/ AnswerFailure(p)

ServiceSpec == ServiceInit /\ [][ServiceNext]_serviceVars
=============================================================================
