---------------------------- MODULE MCPackageCache -----------------------------
(***************************************************************************)
(* Two packages, so that one may be complete when the other fails; two     *)
(* mirrors that may serve two releases; three builds: one that is cut      *)
(* short, one that finds its traces, one that finds theirs.                *)
(***************************************************************************)
EXTENDS PackageCache

CONSTANTS iso, tgz, m1, m2

MCPackages == <<iso, tgz>>
MCMirrors == <<m1, m2>>
=============================================================================
