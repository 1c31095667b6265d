----------------------------- MODULE MCDeployHost ------------------------------
(***************************************************************************)
(* Two hosts, one of them bonded, so that one can be reset, or known to    *)
(* cobbler, before the other; two attempts of each command.                *)
(***************************************************************************)
EXTENDS DeployHost

CONSTANTS h1, h2

MCOrder == <<h1, h2>>
MCBonds == <<h2>>
=============================================================================
