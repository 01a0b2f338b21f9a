------------------------------ MODULE MCSecured ------------------------------
(* What crosses the network under a key, in one run: an encrypted stream, and the *)
(* signed calls of a device.  In a behaviour the one that `part` names moves, the *)
(* other rests.                                                                   *)
EXTENDS EncStream, SignedCall, TLC

CONSTANTS a, b

VARIABLE part

\* One end sends more than the other.  One device calls twice, with one request id or
\* without.
TwoAndNone == a :> 2 @@ b :> 0

\* A bound: a call begins while no other asks for its challenge.
OneByOne == \A c \in Call : calls[c] = NoCall /\ calls'[c] # NoCall
                               => \A d \in Call : calls[d].at # "asked"

SecuredInit ==
    /\ part \in {"stream", "call"} /\ Init /\ CallInit
    /\ part = "call" => samePassword
SecuredNext ==
    /\ UNCHANGED part
    /\ \/ part = "stream" /\ Next /\ UNCHANGED callVars
       \/ part = "call" /\ CallNext /\ OneByOne /\ UNCHANGED vars
\* The fairness of EncStream and of SignedCall, each while it is the part that moves.
Flowing == part = "stream"
Calling == part = "call"
SecuredSpec ==
    /\ SecuredInit /\ [][SecuredNext]_<<part, vars, callVars>>
    /\ \A e \in Ends :
          /\ WF_vars(Flowing /\ Task(e)) /\ WF_vars(Flowing /\ Poll(e))
          /\ WF_vars(Flowing /\ (ReadBegins(e) \/ Read(e)))
    /\ WF_callVars(Calling /\ RunTask)
=============================================================================
