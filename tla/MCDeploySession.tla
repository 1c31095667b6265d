--------------------------- MODULE MCDeploySession ----------------------------
(***************************************************************************)
(* Two hostnames and two machines, in every order and number.  With two    *)
(* runs, each may find what any step of the other left behind; a third may *)
(* find what the two together did.                                         *)
(***************************************************************************)
EXTENDS DeploySession, TLC

CONSTANTS h1, h2, m1, m2

MCName == {h1, h2}
MCMac == {m1, m2}

HostSymmetry == Permutations(MCName) \union Permutations(MCMac)
=============================================================================
