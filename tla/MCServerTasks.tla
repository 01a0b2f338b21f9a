---------------------------- MODULE MCServerTasks ----------------------------
(* Two kinds of tasks of the server, in one run: relay connections, and the      *)
(* publishers of domains.  They share nothing; in a behaviour the one that       *)
(* `part` names moves, the other rests.                                          *)
EXTENDS RelayPairing, DomainIngress

CONSTANTS h1, g1, g2, u, r, a, b

VARIABLE part

\* One host and two guests, all after the same key; and two devices with one domain.
OneKey == [c \in Conns |-> u]

TasksInit == part \in {"relay", "domain"} /\ Init /\ DomainInit
TasksNext ==
    /\ UNCHANGED part
    /\ \/ part = "relay" /\ Next /\ UNCHANGED domainVars
       \/ part = "domain" /\ DomainNext /\ UNCHANGED vars
\* The fairness of DomainIngress, while it is the part that moves.
Publishing == part = "domain"
TasksSpec ==
    /\ TasksInit /\ [][TasksNext]_<<part, vars, domainVars>>
    /\ \A s \in Sockets : WF_domainVars(Publishing /\ Loop(s))
    /\ WF_domainVars(Publishing /\ Serve(r))
=============================================================================
