---------------------------- MODULE StatusCallback ----------------------------
(***************************************************************************)
(* How the result of the installation playbook reaches compass-deck: the   *)
(* status_callback plugin, which runs once, when ansible-playbook reports  *)
(* its statistics.  It reads the deck's cluster hosts and posts a state    *)
(* for each of them the playbook processed.  Any request may fail; the     *)
(* exception leaves the plugin and the remaining hosts are never reported. *)
(*                                                                         *)
(* Statistics cover more than the cluster's hosts: localhost, and the      *)
(* containers the play adds.  Only 'had a failure or was unreachable'      *)
(* matters of a host's summary.                                            *)
(***************************************************************************)
EXTENDS InstallTables

CONSTANTS
    Localhost,  \* the jump host, which runs its own plays
    Container   \* the LXC containers the playbook also works on

ASSUME InventoryAssumption ==
    /\ Localhost \notin Host \union Container
    /\ Host \intersect Container = {}

VARIABLES
    play,              \* the state of ansible-playbook
    processed,         \* stats.processed: the machines that ran a task
    bad,               \* those with failures or unreachable
    toNotify           \* clusterhost_mapping, the part not reported yet

playVars == <<play, processed, bad, toNotify>>

Inventory == Host \union Container \union {Localhost}

PlaybookInit ==
    /\ play = "waiting"
    /\ processed = {}
    /\ bad = {}
    /\ toNotify = {}

-----------------------------------------------------------------------------
(* ansible-playbook itself, as compass-tasks runs it. *)

StartPlaybook ==
    /\ play = "waiting"
    /\ play' = "running"
    /\ UNCHANGED <<processed, bad, toNotify>>
    /\ UNCHANGED tables

\* The last play is over.  Which machines ran a task and which of them had
\* trouble is up to the play; a play may also match no machine at all.
EndPlaybook ==
    /\ play = "running"
    /\ processed' \in SUBSET Inventory
    /\ bad' \in SUBSET processed'
    /\ play' = "stats"
    /\ UNCHANGED toNotify
    /\ UNCHANGED tables

\* compass-tasks loses the process before there are statistics: an internal
\* error, or the kill -9 of refresh_compass_core.
KillPlaybook ==
    /\ play \in {"running", "stats", "notifying"}
    /\ play' = "dead"
    /\ UNCHANGED <<processed, bad, toNotify>>
    /\ UNCHANGED tables

-----------------------------------------------------------------------------
(* v2_playbook_on_stats. *)

\* The statistics are keyed by host; an empty table has no first host
\* (hosts[0]), and each of the requests before the loop may fail.
AbandonStats ==
    /\ play = "stats"
    /\ play' = "dead"
    /\ UNCHANGED <<processed, bad, toNotify>>
    /\ UNCHANGED tables

\* auth and GET /clusterhosts succeed.  'continue' skips the hosts that are not
\* in the statistics; containers are not cluster hosts and are never looked at.
FetchClusterhosts ==
    /\ play = "stats"
    /\ processed # {}
    /\ toNotify' = Host \intersect processed
    /\ play' = "notifying"
    /\ UNCHANGED <<processed, bad>>
    /\ UNCHANGED tables

ForceError == Localhost \in bad

\* Defect: trouble on localhost is overlooked.
OwnResult(h) == IF h \in bad THEN "ERROR" ELSE "SUCCESSFUL"

Result(h) == IF h \in bad \/ ForceError THEN "ERROR" ELSE "SUCCESSFUL"

\* Defect: the loop starts over when a request fails, so a host that was done is
\* handled again as a failure.
RetryAsError(h) ==
    /\ play = "notifying"
    /\ h \in Host \intersect processed
    /\ \/ h \in toNotify /\ clusterhostState' = Posted(h, Result(h))
       \/ h \notin toNotify /\ clusterhostState' = Posted(h, "ERROR")
    /\ toNotify' = toNotify \ {h}
    /\ UNCHANGED <<play, processed, bad, hostState>>

\* notify_host succeeds for one entry of clusterhost_mapping.
NotifyHost(h) ==
    /\ play = "notifying"
    /\ h \in toNotify
    /\ toNotify' = toNotify \ {h}
    /\ clusterhostState' = Posted(h, Result(h))
    /\ UNCHANGED <<play, processed, bad, hostState>>

\* notify_host raises: the deck may have taken the state all the same.
NotifyFails(h) ==
    /\ play = "notifying"
    /\ h \in toNotify
    /\ play' = "dead"
    /\ clusterhostState' \in {clusterhostState, Posted(h, Result(h))}
    /\ UNCHANGED <<processed, bad, toNotify, hostState>>

AllNotified ==
    /\ play = "notifying"
    /\ toNotify = {}
    /\ play' = "ended"
    /\ UNCHANGED <<processed, bad, toNotify>>
    /\ UNCHANGED tables

PlaybookNext ==
    \/ EndPlaybook
    \/ KillPlaybook
    \/ AbandonStats
    \/ FetchClusterhosts
    \/ \E h \in Host : NotifyHost(h)
    \/ \E h \in Host : NotifyFails(h)
    \/ AllNotified

-----------------------------------------------------------------------------

PlaybookTypeOK ==
    /\ play \in {"waiting", "running", "stats", "notifying", "ended", "dead"}
    /\ processed \subseteq Inventory
    /\ bad \subseteq processed
    /\ toNotify \subseteq Host \intersect processed

\* A host's work went well only if the play reached it, it had no trouble, and
\* the plays of the jump host had none.
WentWell(h) == h \in processed /\ h \notin bad /\ ~ForceError

\* The deck never shows a host as SUCCESSFUL that the play skipped, broke on, or
\* whose jump host plays broke, and never as ERROR one that went well
\* (status_callback.py's loop over clusterhost_mapping).
ReportedAsPlayed ==
    \A h \in Host :
        /\ clusterhostState[h] = "SUCCESSFUL" => WentWell(h)
        /\ clusterhostState[h] = "ERROR" => h \in processed /\ ~WentWell(h)
=============================================================================
