----------------------------- MODULE Installation -----------------------------
(***************************************************************************)
(* One installation, from the moment the deck accepted it: the client that *)
(* waits (InstallMonitor), the playbook whose result the callback reports  *)
(* (StatusCallback), and the deck between them, which both only see        *)
(* through requests.  The playbook is started by compass-tasks when every  *)
(* host has its operating system; the client neither starts nor stops it.  *)
(***************************************************************************)
EXTENDS InstallMonitor, StatusCallback

vars == <<clientVars, playVars, tables>>

Init ==
    /\ MonitorInit
    /\ PlaybookInit
    /\ TablesInit

TasksStartPlaybook ==
    /\ OsInstalled
    /\ StartPlaybook
    /\ UNCHANGED clientVars

Client == MonitorNext /\ UNCHANGED playVars

Clock == (OsDeadlinePasses \/ DeadlinePasses) /\ UNCHANGED playVars

Printer == PrinterDies /\ UNCHANGED playVars

Installer == (\E h \in Host : HostInstalled(h)) /\ UNCHANGED <<clientVars, playVars>>

Playbook == PlaybookNext /\ UNCHANGED clientVars

\* The client has exited and nothing else is under way.
Idle ==
    /\ Over
    /\ UNCHANGED vars

Next ==
    \/ Client
    \/ Clock
    \/ Printer
    \/ Installer
    \/ TasksStartPlaybook
    \/ Playbook
    \/ Idle

\* The client keeps running and its deadlines are moments that come.  Nothing
\* is assumed of the hosts, the playbook or the printer.  A request that is
\* never answered would break the fairness of Client: requests in restful.py
\* have no timeout.
Fairness ==
    /\ WF_vars(Client)
    /\ WF_vars(Clock)

Spec == Init /\ [][Next]_vars

FairSpec == Spec /\ Fairness

-----------------------------------------------------------------------------

TypeOK == MonitorTypeOK /\ PlaybookTypeOK /\ TablesTypeOK

\* When the client reports success, the playbook reached every host of the
\* cluster, had no trouble on any, nor on the jump host: nothing between the
\* play and the client's exit (a partial report, a lost notification, a
\* deadline) makes a failed installation look like a good one.
SuccessIsReal == pc = "done" => \A h \in Host : WentWell(h)

\* Every failure has the cause it names, although the clock, the deck and the
\* playbook move on between a reading and the exception that reports it.
FailureHasCause ==
    /\ reason = "os timeout" => osDeadline
    /\ reason = "timeout" => deadline
    /\ reason = "error" => \E h \in Host : clusterhostState[h] = "ERROR"
    /\ reason = "dashboard" => \A h \in Host : WentWell(h)

\* The client's caller gets a verdict, whatever the hosts and the playbook do.
ClientReturns == <>Over

-----------------------------------------------------------------------------
(* The contract with the operator. *)

Verdict ==
    IF pc = "done" THEN "success" ELSE IF pc = "failed" THEN "failure" ELSE "pending"

Contract == INSTANCE DeployContract
                WITH outcome <- clusterhostState, verdict <- Verdict

\* The client, the callback and the deck together keep DeployContract.
KeepsContract == Contract!Spec
=============================================================================
