--------------------------- MODULE MCInstallation -----------------------------
(***************************************************************************)
(* Two cluster hosts, so that one can be reported and the other not, the   *)
(* jump host, and one container.  Two attempts per state query reach both  *)
(* the retry and the giving up.                                            *)
(***************************************************************************)
EXTENDS Installation

CONSTANTS h1, h2, lxc1

MCHost == {h1, h2}
MCContainer == {lxc1}
MCMaxTries == 2
=============================================================================
