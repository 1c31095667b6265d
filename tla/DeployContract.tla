---------------------------- MODULE DeployContract ----------------------------
(***************************************************************************)
(* What an operator may rely on when deploy/client.py waits for an         *)
(* installation: the outcome of a host is decided once, the client gives   *)
(* one verdict, and a success means that every host succeeded.  A failure  *)
(* may be announced for reasons of its own (a deadline, a lost connection).*)
(***************************************************************************)
CONSTANT Host

VARIABLES
    outcome,   \* the outcome of each host, as far as it is decided
    verdict    \* what the client told its caller

contractVars == <<outcome, verdict>>

Init ==
    /\ outcome = [h \in Host |-> "INSTALLING"]
    /\ verdict = "pending"

Decide(h) ==
    /\ outcome[h] = "INSTALLING"
    /\ \E o \in {"SUCCESSFUL", "ERROR"} :
           outcome' = [outcome EXCEPT ![h] = o]
    /\ UNCHANGED verdict

AnnounceSuccess ==
    /\ verdict = "pending"
    /\ \A h \in Host : outcome[h] = "SUCCESSFUL"
    /\ verdict' = "success"
    /\ UNCHANGED outcome

AnnounceFailure ==
    /\ verdict = "pending"
    /\ verdict' = "failure"
    /\ UNCHANGED outcome

Next ==
    \/ \E h \in Host : Decide(h)
    \/ AnnounceSuccess
    \/ AnnounceFailure

Spec == Init /\ [][Next]_contractVars
=============================================================================
