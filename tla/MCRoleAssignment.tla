--------------------------- MODULE MCRoleAssignment ---------------------------
(***************************************************************************)
(* A cluster of three hosts and a flavor with two required roles and an    *)
(* optional one: enough for hosts to outnumber roles, match them, and fall *)
(* short, with every HOST_ROLES table over them.                           *)
(***************************************************************************)
EXTENDS RoleAssignment, TLC

CONSTANTS h1, h2, h3, controller, compute, ceph

MCHost == {h1, h2, h3}
MCRole == {controller, compute, ceph}
MCRequired == {controller, compute}

HostSymmetry == Permutations(MCHost) \union Permutations(MCRequired)

=============================================================================
