------------------------------- MODULE MCLaunch --------------------------------
(***************************************************************************)
(* The ways to call deploy.sh that differ in what they reach: a first      *)
(* deployment, a later one, one of the containers or of the hosts alone,   *)
(* a redeployment, an expansion, a recovery; and a deployment with files   *)
(* that are refused or cannot be read to the end.                          *)
(***************************************************************************)
EXTENDS Launch

Deployment ==
    [first |-> TRUE, recovery |-> FALSE, expansion |-> FALSE, compass |-> TRUE,
     host |-> TRUE, redeploy |-> FALSE, virtual |-> TRUE, offline |-> FALSE, nat |-> FALSE,
     valid |-> TRUE, stopsAt |-> "none"]

Later == [Deployment EXCEPT !.first = FALSE]

MCOptions ==
    { Deployment, Later,
      [Deployment EXCEPT !.offline = TRUE, !.nat = TRUE],
      [Later EXCEPT !.offline = TRUE, !.nat = TRUE],
      [Deployment EXCEPT !.nat = TRUE],
      [Deployment EXCEPT !.virtual = FALSE],
      [Later EXCEPT !.host = FALSE],
      [Later EXCEPT !.compass = FALSE],
      [Later EXCEPT !.compass = FALSE, !.host = FALSE, !.redeploy = TRUE],
      [Later EXCEPT !.expansion = TRUE],
      [Later EXCEPT !.expansion = TRUE, !.compass = FALSE],
      [Later EXCEPT !.recovery = TRUE],
      [Later EXCEPT !.valid = FALSE],
      [Later EXCEPT !.valid = FALSE, !.stopsAt = "dha"],
      [Later EXCEPT !.recovery = TRUE, !.valid = FALSE],
      [Later EXCEPT !.stopsAt = "dha"],
      [Later EXCEPT !.nat = TRUE, !.stopsAt = "install"],
      [Later EXCEPT !.nat = TRUE, !.stopsAt = "hosts"],
      [Deployment EXCEPT !.virtual = FALSE, !.stopsAt = "reset"],
      [Deployment EXCEPT !.nat = TRUE, !.stopsAt = "hosts"] }
=============================================================================
