---------------------------- MODULE InstallMonitor ----------------------------
(***************************************************************************)
(* How deploy/client.py waits for an installation it has asked for:        *)
(* get_ansible_print polls the deck until the operating systems are        *)
(* installed and then starts a process that prints the ansible log;        *)
(* get_installing_progress polls the state of the cluster until it is      *)
(* decided; check_dashboard_links looks at the result.                     *)
(*                                                                         *)
(* A deadline is a fact that becomes true at some moment, never a number:  *)
(* the code only compares clock readings with it.  What matters, and is    *)
(* kept, is when the code reads the clock.                                 *)
(***************************************************************************)
EXTENDS InstallTables, Naturals, FiniteSets

CONSTANT
    MaxTries   \* how often get_cluster_state asks (10 in the code)

ASSUME MonitorAssumption ==
    /\ IsFiniteSet(Host)
    /\ MaxTries \in Nat \ {0}

VARIABLES
    pc,                \* where the client is
    toPoll,            \* the hosts this sweep has not asked about
    osDeadline,        \* install_timeout has passed
    lateReading,       \* current_time >= install_timeout, as last read
    deadline,          \* deployment_timeout has passed
    tries,             \* failed attempts of the current get_cluster_state
    printer,           \* the ansible_print process
    reason             \* why the client raised

clientVars == <<pc, toPoll, osDeadline, lateReading, deadline, tries,
                printer, reason>>

Over == pc \in {"done", "failed"}

MonitorInit ==
    /\ pc = "osTest"
    /\ toPoll = {}
    /\ osDeadline = FALSE
    /\ lateReading = FALSE
    /\ deadline = FALSE
    /\ tries = 0
    /\ printer = "none"
    /\ reason = "none"

\* An exception that leaves the client while no printer runs.
Raise(why) ==
    /\ pc' = "failed"
    /\ reason' = why

-----------------------------------------------------------------------------
(* get_ansible_print. *)

\* while current_time < install_timeout, with the reading made before the sleep.
StartSweep ==
    /\ pc = "osTest"
    /\ IF lateReading
       THEN Raise("os timeout") /\ UNCHANGED toPoll
       ELSE pc' = "osPoll" /\ toPoll' = Host /\ UNCHANGED reason
    /\ UNCHANGED <<osDeadline, lateReading, deadline, tries, printer>>

\* The host asked about is installed: the sweep goes on.
PollReady(h) ==
    /\ pc = "osPoll"
    /\ h \in toPoll
    /\ hostState[h] = "SUCCESSFUL"
    /\ toPoll' = toPoll \ {h}
    /\ UNCHANGED <<pc, osDeadline, lateReading, deadline, tries, printer, reason>>

\* It is not (an ERROR is not told from INSTALLING): read the clock, sleep.
PollNotReady(h) ==
    /\ pc = "osPoll"
    /\ h \in toPoll
    /\ hostState[h] # "SUCCESSFUL"
    /\ lateReading' = osDeadline
    /\ pc' = "osSleep"
    /\ UNCHANGED <<toPoll, osDeadline, deadline, tries, printer, reason>>

\* The request fails, or the answer has no 'state': nothing catches it.
PollBreaks(h) ==
    /\ pc = "osPoll"
    /\ h \in toPoll
    /\ Raise("poll")
    /\ UNCHANGED <<toPoll, osDeadline, lateReading, deadline, tries, printer>>

OsSleepOver ==
    /\ pc = "osSleep"
    /\ pc' = "osTest"
    /\ UNCHANGED <<toPoll, osDeadline, lateReading, deadline, tries,
                   printer, reason>>

\* Defect: the last host alone decides, 'ready' being set anew for each host.
LastHostDecides ==
    /\ pc = "osPoll"
    /\ Cardinality(toPoll) < Cardinality(Host)
    /\ printer' = "alive"
    /\ pc' = "test"
    /\ UNCHANGED <<toPoll, osDeadline, lateReading, deadline, tries, reason>>

\* Every host was ready.  The clock is read once more, and a sweep that ended
\* too late is a timeout all the same.
SweepDone ==
    /\ pc = "osPoll"
    /\ toPoll = {}
    /\ lateReading' = osDeadline
    /\ IF osDeadline
       THEN Raise("os timeout") /\ UNCHANGED printer
       ELSE printer' = "alive" /\ pc' = "test" /\ UNCHANGED reason
    /\ UNCHANGED <<toPoll, osDeadline, deadline, tries>>

-----------------------------------------------------------------------------
(* get_installing_progress and get_cluster_state. *)

\* Defect: an exception skips the terminate().
RaiseWithoutCleanup(why) ==
    /\ Raise(why)
    /\ UNCHANGED printer

\* An exception inside the try, whose finally clause terminates the printer.
RaiseAndTerminate(why) ==
    /\ Raise(why)
    /\ printer' = "terminated"

\* Defect: the deadline is only looked at after the loop.
LoopUntilDecided ==
    /\ pc = "test"
    /\ \/ /\ printer # "alive"
          /\ RaiseAndTerminate("no printer")
          /\ UNCHANGED tries
       \/ /\ printer = "alive"
          /\ pc' = "query"
          /\ tries' = 0
          /\ UNCHANGED <<printer, reason>>
    /\ UNCHANGED <<toPoll, osDeadline, lateReading, deadline>>

\* while current_time() < deployment_timeout, then is_alive().
TestProgress ==
    /\ pc = "test"
    /\ \/ /\ deadline
          /\ RaiseAndTerminate("timeout")
          /\ UNCHANGED tries
       \/ /\ ~deadline /\ printer # "alive"
          /\ RaiseAndTerminate("no printer")
          /\ UNCHANGED tries
       \/ /\ ~deadline /\ printer = "alive"
          /\ pc' = "query"
          /\ tries' = 0
          /\ UNCHANGED <<printer, reason>>
    /\ UNCHANGED <<toPoll, osDeadline, lateReading, deadline>>

\* Defect: one attempt too many.
QueryOnceMore ==
    /\ pc = "query"
    /\ tries' = tries + 1
    /\ IF tries = MaxTries
       THEN RaiseAndTerminate("no state")
       ELSE UNCHANGED <<pc, printer, reason>>
    /\ UNCHANGED <<toPoll, osDeadline, lateReading, deadline>>

\* One attempt of get_cluster_state fails, by status or by exception; it sleeps
\* and asks again, and after the last attempt the caller raises.
QueryFails ==
    /\ pc = "query"
    /\ tries' = tries + 1
    /\ IF tries + 1 = MaxTries
       THEN RaiseAndTerminate("no state")
       ELSE UNCHANGED <<pc, printer, reason>>
    /\ UNCHANGED <<toPoll, osDeadline, lateReading, deadline>>

\* Defect: everything that is not an error counts as the end.
NotErrorIsEnough ==
    /\ pc = "query"
    /\ IF ClusterState = "ERROR"
       THEN RaiseAndTerminate("error")
       ELSE pc' = "settle" /\ UNCHANGED <<printer, reason>>
    /\ UNCHANGED <<toPoll, osDeadline, lateReading, deadline, tries>>

QueryAnswers ==
    /\ pc = "query"
    /\ \/ ClusterState = "ERROR" /\ RaiseAndTerminate("error")
       \/ /\ ClusterState = "SUCCESSFUL"
          /\ pc' = "settle"
          /\ UNCHANGED <<printer, reason>>
       \/ /\ ClusterState = "INSTALLING"
          /\ pc' = "sleep"
          /\ UNCHANGED <<printer, reason>>
    /\ UNCHANGED <<toPoll, osDeadline, lateReading, deadline, tries>>

SleepOver ==
    /\ pc = "sleep"
    /\ pc' = "test"
    /\ UNCHANGED <<toPoll, osDeadline, lateReading, deadline, tries,
                   printer, reason>>

\* Defect: the comparison is the wrong way round.
SettleInverted ==
    /\ pc = "settle"
    /\ printer' = "terminated"
    /\ IF ~deadline
       THEN Raise("timeout")
       ELSE pc' = "links" /\ UNCHANGED reason
    /\ UNCHANGED <<toPoll, osDeadline, lateReading, deadline, tries>>

\* After the loop the clock is read again: a SUCCESSFUL answer that came late is
\* a timeout.  Otherwise the printer is terminated and the links are checked.
Settle ==
    /\ pc = "settle"
    /\ printer' = "terminated"
    /\ IF deadline
       THEN Raise("timeout")
       ELSE pc' = "links" /\ UNCHANGED reason
    /\ UNCHANGED <<toPoll, osDeadline, lateReading, deadline, tries>>

\* check_dashboard_links: no dashboard_url, or the page shows up, or it does not.
CheckLinks ==
    /\ pc = "links"
    /\ \/ pc' = "done" /\ UNCHANGED reason
       \/ Raise("dashboard")
    /\ UNCHANGED <<toPoll, osDeadline, lateReading, deadline, tries, printer>>

MonitorStep ==
    \/ StartSweep
    \/ \E h \in Host : PollReady(h)
    \/ \E h \in Host : PollNotReady(h)
    \/ \E h \in Host : PollBreaks(h)
    \/ OsSleepOver
    \/ SweepDone
    \/ TestProgress
    \/ QueryFails
    \/ QueryAnswers
    \/ SleepOver
    \/ Settle
    \/ CheckLinks

MonitorNext == MonitorStep /\ UNCHANGED tables

-----------------------------------------------------------------------------
(* What happens around the client. *)

InProgress == pc \in {"test", "query", "sleep", "settle"}

OsDeadlinePasses ==
    /\ pc \in {"osTest", "osPoll", "osSleep"}
    /\ ~osDeadline
    /\ osDeadline' = TRUE
    /\ UNCHANGED <<pc, toPoll, lateReading, deadline, tries, printer, reason>>
    /\ UNCHANGED tables

DeadlinePasses ==
    /\ InProgress
    /\ ~deadline
    /\ deadline' = TRUE
    /\ UNCHANGED <<pc, toPoll, osDeadline, lateReading, tries, printer, reason>>
    /\ UNCHANGED tables

\* print_log raises: the log cannot be opened or read.
PrinterDies ==
    /\ printer = "alive"
    /\ printer' = "dead"
    /\ UNCHANGED <<pc, toPoll, osDeadline, lateReading, deadline, tries, reason>>
    /\ UNCHANGED tables

-----------------------------------------------------------------------------

Reasons == {"none", "os timeout", "poll", "timeout", "no printer", "no state",
            "error", "dashboard"}

MonitorTypeOK ==
    /\ pc \in {"osTest", "osPoll", "osSleep", "test", "query", "sleep",
               "settle", "links", "done", "failed"}
    /\ toPoll \subseteq Host
    /\ osDeadline \in BOOLEAN
    /\ lateReading \in BOOLEAN
    /\ deadline \in BOOLEAN
    /\ tries \in 0..MaxTries
    /\ printer \in {"none", "alive", "dead", "terminated"}
    /\ reason \in Reasons

\* The printer is started only once every host has its operating system, although
\* a sweep asks about one host at a time (get_ansible_print's 'ready').
PrinterAfterOs == printer # "none" => OsInstalled

\* No exit of the client leaves the printer running (the finally clause).
PrinterReaped == Over => printer # "alive"
=============================================================================
