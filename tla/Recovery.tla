------------------------------- MODULE Recovery --------------------------------
(***************************************************************************)
(* recovery.sh: bringing a cluster back after the jump host was restarted. *)
(* The compass machine is started and waited for; the hosts are restarted, *)
(* at most MaxRetryTimes times, until ansible reaches the computes and the *)
(* controllers; then the services are stopped and recovered by two         *)
(* playbooks whose results nobody looks at.                                *)
(*                                                                         *)
(* The shell functions hand their results on as text: what a command       *)
(* substitution captures is a sequence of lines here, because one of the   *)
(* comparisons depends on how many there are (log_error writes to the      *)
(* standard output).                                                       *)
(***************************************************************************)
EXTENDS Naturals, Sequences

CONSTANTS
    Compute,            \* the hosts of the group 'compute'
    Controller,         \* the hosts of the group 'controller'
    MaxRetryTimes,      \* restarts of the hosts (2)
    SshTries,           \* argument of wait_ok (500)
    ComputeProbes,      \* argument of check_hosts_reachable (500)
    ControllerProbes    \* the 100 in check_hosts_reachable

ASSUME RecoveryAssumption ==
    /\ MaxRetryTimes \in Nat \ {0}
    /\ SshTries \in Nat \ {0}
    /\ ComputeProbes \in Nat \ {0}
    /\ ControllerProbes \in Nat \ {0}

VARIABLES
    pc,          \* the next step of the script
    i,           \* restarts begun
    retry,       \* the counter of the current waiting loop
    printed,     \* what the last check of hosts printed
    compassUp,   \* the compass machine answers ssh
    up,          \* the hosts that answer ansible
    answered     \* the groups that answered a check since the last restart

vars == <<pc, i, retry, printed, compassUp, up, answered>>

Host == Compute \union Controller

Members(group) == IF group = "compute" THEN Compute ELSE Controller

Probes(group) == IF group = "compute" THEN ComputeProbes ELSE ControllerProbes

\* The jump host came back; which of the hosts still run is anybody's guess.
\* recover_nets is over: it exits when bare metal has no INSTALL_NIC, and whether
\* virsh starts the networks again makes no difference to it.
Init ==
    /\ pc \in {"compass", "failed"}
    /\ i = 0
    /\ retry = 0
    /\ printed = <<>>
    /\ compassUp = FALSE
    /\ up \in SUBSET Host
    /\ answered = {}

-----------------------------------------------------------------------------
(* recover_compass and wait_ok. *)

SshAnswers ==
    /\ pc = "compass"
    /\ compassUp
    /\ pc' = "loop"
    /\ UNCHANGED <<i, retry, printed, compassUp, up, answered>>

\* Defect: the machine that never answered is only logged.
SshGivesUpLater ==
    /\ pc = "compass"
    /\ retry' = retry + 1
    /\ pc' = IF retry' >= SshTries THEN "loop" ELSE "compass"
    /\ UNCHANGED <<i, printed, compassUp, up, answered>>

\* An attempt fails.  After the last one ssh is tried twice more; only the second
\* counts, and when it fails the script exits.
SshFails ==
    /\ pc = "compass"
    /\ retry' = retry + 1
    /\ pc' \in IF retry' < SshTries THEN {"compass"}
               ELSE IF compassUp THEN {"loop", "failed"} ELSE {"failed"}
    /\ UNCHANGED <<i, printed, compassUp, up, answered>>

-----------------------------------------------------------------------------
(* The loop of recover_cluster. *)

\* recover_host_vms, or reboot_hosts: a host whose power control does not answer
\* keeps the state it has, and so do the hosts after it.
RestartHosts ==
    /\ pc = "loop"
    /\ i < MaxRetryTimes
    /\ i' = i + 1
    /\ \E restarted \in SUBSET Host : up' = up \ restarted
    /\ answered' = {}
    /\ retry' = 0
    /\ pc' = "compute"
    /\ UNCHANGED <<printed, compassUp>>

\* What check_hosts_reachable does with what the check of a group printed.
AfterCheck(group) ==
    IF group = "compute" /\ printed' # <<"fail">> THEN "controller" ELSE "checked"

\* One ansible ping of a group, in which every host must answer.
ProbeAnswers(group) ==
    /\ pc = group
    /\ retry + 1 < Probes(group)
    /\ Members(group) \subseteq up
    /\ printed' = <<"ok">>
    /\ answered' = answered \union {group}
    /\ retry' = 0
    /\ pc' = AfterCheck(group)
    /\ UNCHANGED <<i, compassUp, up>>

\* Defect: an attempt that fails is not counted.
ProbeUncounted(group) ==
    /\ pc = group
    /\ retry + 1 < Probes(group)
    /\ UNCHANGED vars

\* A host of the group, or the ssh to the compass machine, does not answer.
ProbeFails(group) ==
    /\ pc = group
    /\ retry + 1 < Probes(group)
    /\ retry' = retry + 1
    /\ UNCHANGED <<pc, i, printed, compassUp, up, answered>>

\* log_error and echo: two lines.
ProbeTimesOut(group) ==
    /\ pc = group
    /\ retry + 1 >= Probes(group)
    /\ printed' = <<"hosts boot time out", "fail">>
    /\ retry' = 0
    /\ pc' = AfterCheck(group)
    /\ UNCHANGED <<i, compassUp, up, answered>>

\* Defect: the hosts are restarted as often as possible.
NoBreak ==
    /\ pc = "checked"
    /\ pc' = IF i < MaxRetryTimes THEN "loop" ELSE "verdict"
    /\ UNCHANGED <<i, retry, printed, compassUp, up, answered>>

\* if [[ "$ret" == "ok" ]]; then break.
Checked ==
    /\ pc = "checked"
    /\ pc' = IF printed = <<"ok">> THEN "verdict" ELSE "loop"
    /\ UNCHANGED <<i, retry, printed, compassUp, up, answered>>

LoopEnds ==
    /\ pc = "loop"
    /\ i >= MaxRetryTimes
    /\ pc' = "verdict"
    /\ UNCHANGED <<i, retry, printed, compassUp, up, answered>>

\* Defect: an off-by-one in the test after the loop.
LenientVerdict ==
    /\ pc = "verdict"
    /\ pc' = IF i > MaxRetryTimes THEN "failed" ELSE "stop"
    /\ UNCHANGED <<i, retry, printed, compassUp, up, answered>>

\* if [[ $i -ge $MAX_RETRY_TIMES ]]: whatever ended the loop.
Verdict ==
    /\ pc = "verdict"
    /\ pc' = IF i >= MaxRetryTimes THEN "failed" ELSE "stop"
    /\ UNCHANGED <<i, retry, printed, compassUp, up, answered>>

-----------------------------------------------------------------------------
(* The playbooks, and the machines. *)

\* wait_controller_nodes_ok.
StopServices ==
    /\ pc = "stop"
    /\ pc' = "recover"
    /\ UNCHANGED <<i, retry, printed, compassUp, up, answered>>

\* recover_hosts; a playbook that fails makes no difference to the exit status.
RecoverHosts ==
    /\ pc = "recover"
    /\ pc' = "done"
    /\ UNCHANGED <<i, retry, printed, compassUp, up, answered>>

CompassBoots ==
    /\ ~compassUp
    /\ compassUp' = TRUE
    /\ UNCHANGED <<pc, i, retry, printed, up, answered>>

HostBoots(h) ==
    /\ h \notin up
    /\ up' = up \union {h}
    /\ UNCHANGED <<pc, i, retry, printed, compassUp, answered>>

Script ==
    \/ SshAnswers
    \/ SshFails
    \/ RestartHosts
    \/ \E group \in {"compute", "controller"} :
           ProbeAnswers(group) \/ ProbeFails(group) \/ ProbeTimesOut(group)
    \/ Checked
    \/ LoopEnds
    \/ Verdict
    \/ StopServices
    \/ RecoverHosts

Over == pc \in {"done", "failed"}

Idle == Over /\ UNCHANGED vars

Next ==
    \/ Script
    \/ CompassBoots
    \/ \E h \in Host : HostBoots(h)
    \/ Idle

Spec == Init /\ [][Next]_vars

\* The script keeps running: none of its commands (ssh, a playbook) is taken to
\* block for ever.  No machine is assumed to boot.
FairSpec == Spec /\ WF_vars(Script)

-----------------------------------------------------------------------------

Counters == 0..SshTries \union 0..ComputeProbes \union 0..ControllerProbes

TypeOK ==
    /\ pc \in {"compass", "loop", "compute", "controller", "checked", "verdict",
               "stop", "recover", "done", "failed"}
    /\ i \in 0..MaxRetryTimes
    /\ retry \in Counters
    /\ printed \in {<<>>, <<"ok">>, <<"hosts boot time out", "fail">>}
    /\ compassUp \in BOOLEAN
    /\ up \subseteq Host
    /\ answered \subseteq {"compute", "controller"}

\* The services of the cluster are only stopped once all controllers have
\* answered after the last restart of the hosts: a recovery never takes down
\* what it cannot reach to bring back (recover_cluster's order of steps).
ControllersAnswered ==
    pc \in {"stop", "recover", "done"} => "controller" \in answered

\* Hosts are not restarted again once the controllers answered (the 'break').
NoNeedlessRestart ==
    [][up' \subseteq up /\ up' # up => "controller" \notin answered]_vars

\* The hosts are left alone until the compass machine, which runs the playbooks
\* for them, answers (recover_compass before the loop).
CompassBeforeHosts == i > 0 => compassUp

\* The recovery ends, whichever machines stay down.
RecoveryEnds == <>Over

\* "Recovery Failure !!!" is said of hosts that did not answer.
FailureIsReal ==
    pc = "failed" /\ i > 0 => "controller" \notin answered
=============================================================================
