---------------------------- MODULE InstallTables -----------------------------
(***************************************************************************)
(* The two tables of compass-deck through which an installation is watched *)
(* and reported: the state of each host's operating system, which the      *)
(* installer of that host posts, and the state of each cluster host, which *)
(* the ansible callback posts.  The deck is another program: this is what  *)
(* the code here uses of it.                                               *)
(***************************************************************************)
CONSTANT Host   \* the hosts of the cluster

VARIABLES
    hostState,         \* the state of each host's operating system
    clusterhostState   \* the state of each cluster host

tables == <<hostState, clusterhostState>>

HostStates == {"INSTALLING", "SUCCESSFUL", "ERROR"}

TablesInit ==
    /\ hostState = [h \in Host |-> "INSTALLING"]
    /\ clusterhostState = [h \in Host |-> "INSTALLING"]

OsInstalled == \A h \in Host : hostState[h] = "SUCCESSFUL"

\* The deck derives the state of a cluster from its hosts.
ClusterState ==
    IF \E h \in Host : clusterhostState[h] = "ERROR" THEN "ERROR"
    ELSE IF \A h \in Host : clusterhostState[h] = "SUCCESSFUL" THEN "SUCCESSFUL"
    ELSE "INSTALLING"

\* A POST of /clusterhosts/<id>/state.
Posted(h, state) == [clusterhostState EXCEPT ![h] = state]

\* The installer of a host reports: done, or a fault.
HostInstalled(h) ==
    /\ hostState[h] = "INSTALLING"
    /\ \E s \in {"SUCCESSFUL", "ERROR"} : hostState' = [hostState EXCEPT ![h] = s]
    /\ UNCHANGED clusterhostState

TablesTypeOK ==
    /\ hostState \in [Host -> HostStates]
    /\ clusterhostState \in [Host -> HostStates]
=============================================================================
