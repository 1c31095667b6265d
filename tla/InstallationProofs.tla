-------------------------- MODULE InstallationProofs ---------------------------
(***************************************************************************)
(* One installation, for every set of hosts and containers and any number  *)
(* of attempts.  What the client sees are tables that the installers and   *)
(* the ansible callback fill while it looks; what makes its verdict sound  *)
(* is that both kinds of entries are written once (an entry still to be    *)
(* reported is INSTALLING), so what a poll has seen stays true.  After a   *)
(* deadline a bound on the steps left shows why the client returns.        *)
(***************************************************************************)
EXTENDS Installation, FiniteSetTheorems, TLAPS

AllSuccessful == \A h \in Host : clusterhostState[h] = "SUCCESSFUL"

\* The callback has reported nothing before it starts, and no host twice.
ReportsPending ==
    /\ play \in {"waiting", "running", "stats"} =>
           /\ toNotify = {}
           /\ \A h \in Host : clusterhostState[h] = "INSTALLING"
    /\ play = "notifying" =>
           \A h \in toNotify : clusterhostState[h] = "INSTALLING"

\* What the client has read, at the place where it is, still holds.
ReadingsHold ==
    /\ pc = "osPoll" => \A h \in Host \ toPoll : hostState[h] = "SUCCESSFUL"
    /\ lateReading => osDeadline
    /\ pc = "query" => tries + 1 \in 1..MaxTries
    /\ pc \in {"settle", "links", "done"} => AllSuccessful
    /\ reason = "dashboard" => AllSuccessful

\* Where the printer can be found.
PrinterPlaces ==
    /\ pc \in {"osTest", "osPoll", "osSleep"} => printer = "none"
    /\ InProgress => printer \in {"alive", "dead"}
    /\ pc = "links" => printer = "terminated"

\* The causes of a failure, as the client and the tables show them.
CausesHold ==
    /\ reason = "os timeout" => osDeadline
    /\ reason = "timeout" => deadline
    /\ reason = "error" => \E h \in Host : clusterhostState[h] = "ERROR"

IInv ==
    /\ TypeOK
    /\ ReportedAsPlayed
    /\ ReportsPending
    /\ ReadingsHold
    /\ PrinterPlaces
    /\ PrinterAfterOs
    /\ PrinterReaped
    /\ CausesHold

\* What the client's own steps can and cannot disturb.
ClientInv ==
    /\ MonitorTypeOK
    /\ ReadingsHold
    /\ PrinterPlaces
    /\ PrinterAfterOs
    /\ PrinterReaped
    /\ CausesHold

-----------------------------------------------------------------------------
(* Lemmas. *)

\* The deck's derived cluster state says what it seems to say.
LEMMA ClusterStateMeaning ==
    /\ ClusterState = "SUCCESSFUL" => AllSuccessful
    /\ ClusterState = "ERROR" => \E h \in Host : clusterhostState[h] = "ERROR"
BY DEF ClusterState, AllSuccessful

LEMMA AttemptBounds == MaxTries \in Nat /\ 0 \in 0..MaxTries /\ 0 + 1 \in 1..MaxTries
BY MonitorAssumption

\* A host is reported once: while it is still to be notified it is INSTALLING, so
\* posting its result takes back nothing.
LEMMA PostingDecides ==
    ASSUME TypeOK, NEW h \in toNotify, play = "notifying", ReportsPending,
           clusterhostState' = Posted(h, Result(h))
    PROVE  /\ h \in Host /\ h \in processed
           /\ clusterhostState[h] = "INSTALLING"
           /\ clusterhostState'[h] = Result(h)
           /\ Result(h) \in {"SUCCESSFUL", "ERROR"}
           /\ \A g \in Host \ {h} : clusterhostState'[g] = clusterhostState[g]
           /\ clusterhostState' \in [Host -> HostStates]
BY DEF TypeOK, PlaybookTypeOK, TablesTypeOK, ReportsPending, Posted, Result, HostStates

LEMMA InitIInv == Init => IInv
<1>. SUFFICES ASSUME Init PROVE IInv
  OBVIOUS
<1>. USE DEF Init, MonitorInit, PlaybookInit, TablesInit
<1>1. MonitorTypeOK
  BY AttemptBounds DEF MonitorTypeOK, Reasons
<1>2. PlaybookTypeOK /\ TablesTypeOK
  BY DEF PlaybookTypeOK, TablesTypeOK, HostStates
<1>3. ReportedAsPlayed /\ ReportsPending
  BY DEF ReportedAsPlayed, ReportsPending
<1>4. /\ ReadingsHold /\ PrinterPlaces /\ PrinterAfterOs
      /\ PrinterReaped /\ CausesHold
  BY DEF ReadingsHold, PrinterPlaces, PrinterAfterOs, PrinterReaped, CausesHold,
         InProgress, Over
<1>. QED  BY <1>1, <1>2, <1>3, <1>4 DEF IInv, TypeOK

-----------------------------------------------------------------------------
(* The steps of the client. *)

LEMMA MonitorStepKeeps ==
    ASSUME IInv, MonitorStep, UNCHANGED tables
    PROVE  ClientInv'
<1>. USE DEF IInv, ClientInv, TypeOK, MonitorTypeOK, ReadingsHold, PrinterPlaces,
             PrinterAfterOs, PrinterReaped, CausesHold, Over, InProgress, Reasons, tables,
             OsInstalled, AllSuccessful, Raise, RaiseAndTerminate
<1>1. CASE StartSweep
  BY <1>1 DEF StartSweep
<1>2. ASSUME NEW h \in Host, PollReady(h)
      PROVE  ClientInv'
  BY <1>2 DEF PollReady
<1>3. ASSUME NEW h \in Host, PollNotReady(h)
      PROVE  ClientInv'
  BY <1>3 DEF PollNotReady
<1>4. ASSUME NEW h \in Host, PollBreaks(h)
      PROVE  ClientInv'
  BY <1>4 DEF PollBreaks
<1>5. CASE OsSleepOver
  BY <1>5 DEF OsSleepOver
<1>6. CASE SweepDone
  BY <1>6 DEF SweepDone
<1>7. CASE TestProgress
  <2>1. MonitorTypeOK'
    BY <1>7, AttemptBounds DEF TestProgress
  <2>2. ReadingsHold'
    BY <1>7, AttemptBounds DEF TestProgress
  <2>3. CausesHold'
    BY <1>7 DEF TestProgress
  <2>4. PrinterPlaces' /\ PrinterAfterOs' /\ PrinterReaped'
    BY <1>7 DEF TestProgress
  <2>. QED  BY <2>1, <2>2, <2>3, <2>4
<1>8. CASE QueryFails
  <2>0. /\ tries + 1 \in 0..MaxTries
        /\ tries + 1 # MaxTries => (tries + 1) + 1 \in 1..MaxTries
    <3>1. tries \in 0..MaxTries /\ tries + 1 \in 1..MaxTries
      BY <1>8 DEF QueryFails
    <3>. QED  BY ONLY <3>1, AttemptBounds
  <2>1. MonitorTypeOK'
    BY <1>8, <2>0 DEF QueryFails
  <2>2. ReadingsHold'
    BY <1>8, <2>0 DEF QueryFails
  <2>3. CausesHold'
    BY <1>8 DEF QueryFails
  <2>4. PrinterPlaces' /\ PrinterAfterOs' /\ PrinterReaped'
    BY <1>8 DEF QueryFails
  <2>. QED  BY <2>1, <2>2, <2>3, <2>4
<1>9. CASE QueryAnswers
  <2>1. MonitorTypeOK'
    BY <1>9 DEF QueryAnswers
  <2>2. ReadingsHold'
    BY <1>9, ClusterStateMeaning DEF QueryAnswers
  <2>3. CausesHold'
    BY <1>9, ClusterStateMeaning DEF QueryAnswers
  <2>4. PrinterPlaces' /\ PrinterAfterOs' /\ PrinterReaped'
    BY <1>9 DEF QueryAnswers
  <2>. QED  BY <2>1, <2>2, <2>3, <2>4
<1>10. CASE SleepOver
  BY <1>10 DEF SleepOver
<1>11. CASE Settle
  <2>1. MonitorTypeOK'
    BY <1>11 DEF Settle
  <2>2. ReadingsHold'
    BY <1>11 DEF Settle
  <2>3. CausesHold'
    BY <1>11 DEF Settle
  <2>4. PrinterPlaces' /\ PrinterAfterOs' /\ PrinterReaped'
    BY <1>11 DEF Settle
  <2>. QED  BY <2>1, <2>2, <2>3, <2>4
<1>12. CASE CheckLinks
  BY <1>12 DEF CheckLinks
<1>. QED
  BY <1>1, <1>2, <1>3, <1>4, <1>5, <1>6, <1>7, <1>8, <1>9, <1>10, <1>11, <1>12
  DEF MonitorStep

LEMMA ClientStep ==
    ASSUME IInv, MonitorStep, UNCHANGED tables, UNCHANGED playVars
    PROVE  IInv'
<1>1. ClientInv'
  BY MonitorStepKeeps
<1>2. TablesTypeOK' /\ PlaybookTypeOK' /\ ReportedAsPlayed' /\ ReportsPending'
  BY DEF IInv, TypeOK, TablesTypeOK, PlaybookTypeOK, ReportedAsPlayed,
         ReportsPending, WentWell, ForceError, tables, playVars
<1>. QED  BY <1>1, <1>2 DEF IInv, TypeOK, ClientInv

\* The deadlines come, the printer dies.
LEMMA SurroundingsStep ==
    ASSUME IInv, OsDeadlinePasses \/ DeadlinePasses \/ PrinterDies,
           UNCHANGED playVars
    PROVE  IInv'
<1>. USE DEF IInv, TypeOK, MonitorTypeOK, PlaybookTypeOK, TablesTypeOK,
             ReportedAsPlayed, WentWell, ForceError, ReportsPending,
             ReadingsHold, PrinterPlaces, PrinterAfterOs, PrinterReaped,
             CausesHold, Over, InProgress, tables, playVars, OsInstalled,
             AllSuccessful
<1>1. CASE OsDeadlinePasses
  BY <1>1 DEF OsDeadlinePasses
<1>2. CASE DeadlinePasses
  BY <1>2, ZenonT(40) DEF DeadlinePasses
<1>3. CASE PrinterDies
  BY <1>3, ZenonT(40) DEF PrinterDies
<1>. QED  BY <1>1, <1>2, <1>3

-----------------------------------------------------------------------------
(* The steps of the installers and the playbook. *)

\* An installer reports: hosts that were seen to be installed stay so.
LEMMA InstallerStep ==
    ASSUME IInv, NEW h \in Host, HostInstalled(h), UNCHANGED <<clientVars, playVars>>
    PROVE  IInv'
<1>1. \A g \in Host : hostState[g] = "SUCCESSFUL" => hostState'[g] = "SUCCESSFUL"
  BY DEF HostInstalled, IInv, TypeOK, TablesTypeOK
<1>2. TablesTypeOK'
  BY DEF HostInstalled, IInv, TypeOK, TablesTypeOK, HostStates
<1>3. UNCHANGED <<pc, toPoll, osDeadline, lateReading, deadline, tries, printer,
                  reason, play, processed, bad, toNotify, clusterhostState>>
  BY DEF HostInstalled, clientVars, playVars
<1>4. ReadingsHold' /\ PrinterAfterOs'
  BY <1>1, <1>3 DEF IInv, ReadingsHold, PrinterAfterOs, AllSuccessful, OsInstalled
<1>5. ReportedAsPlayed' /\ ReportsPending' /\ CausesHold'
  BY <1>3 DEF IInv, ReportedAsPlayed, WentWell, ForceError, ReportsPending, CausesHold
<1>6. MonitorTypeOK' /\ PlaybookTypeOK' /\ PrinterPlaces' /\ PrinterReaped'
  BY <1>3 DEF IInv, TypeOK, MonitorTypeOK, PlaybookTypeOK, PrinterPlaces,
              PrinterReaped, Over, InProgress
<1>. QED  BY <1>2, <1>4, <1>5, <1>6 DEF IInv, TypeOK

\* The steps of the playbook that leave the tables alone.
LEMMA QuietPlaybookStep ==
    ASSUME IInv, UNCHANGED clientVars,
           \/ StartPlaybook \/ EndPlaybook \/ KillPlaybook
           \/ AbandonStats \/ FetchClusterhosts \/ AllNotified
    PROVE  IInv'
<1>1. UNCHANGED <<pc, toPoll, osDeadline, lateReading, deadline, tries, printer,
                  reason, hostState, clusterhostState>>
  BY DEF clientVars, tables, StartPlaybook, EndPlaybook, KillPlaybook,
         AbandonStats, FetchClusterhosts, AllNotified
<1>2. PlaybookTypeOK'
  <2>. USE DEF IInv, TypeOK, PlaybookTypeOK
  <2>1. CASE EndPlaybook
    BY <2>1 DEF EndPlaybook, ReportsPending
  <2>2. CASE FetchClusterhosts
    BY <2>2 DEF FetchClusterhosts
  <2>3. CASE StartPlaybook \/ KillPlaybook \/ AbandonStats \/ AllNotified
    BY <2>3 DEF StartPlaybook, KillPlaybook, AbandonStats, AllNotified
  <2>. QED  BY <2>1, <2>2, <2>3
<1>3. ReportsPending'
  BY <1>1 DEF IInv, TypeOK, PlaybookTypeOK, ReportsPending, StartPlaybook,
         EndPlaybook, KillPlaybook, AbandonStats, FetchClusterhosts, AllNotified
<1>4. ReportedAsPlayed'
  <2>1. CASE EndPlaybook
    BY <2>1, <1>1 DEF EndPlaybook, IInv, ReportsPending, ReportedAsPlayed
  <2>2. CASE ~EndPlaybook
    <3>1. UNCHANGED <<processed, bad>>
      BY <2>2 DEF StartPlaybook, KillPlaybook, AbandonStats, FetchClusterhosts,
                  AllNotified
    <3>. QED  BY <3>1, <1>1 DEF IInv, ReportedAsPlayed, WentWell, ForceError
  <2>. QED  BY <2>1, <2>2
<1>5. MonitorTypeOK' /\ TablesTypeOK'
  BY <1>1 DEF IInv, TypeOK, MonitorTypeOK, TablesTypeOK
<1>6. /\ ReadingsHold' /\ PrinterPlaces' /\ PrinterAfterOs'
      /\ PrinterReaped' /\ CausesHold'
  BY <1>1 DEF IInv, ReadingsHold, PrinterPlaces, PrinterAfterOs, PrinterReaped,
              CausesHold, AllSuccessful, OsInstalled, Over, InProgress
<1>. QED  BY <1>2, <1>3, <1>4, <1>5, <1>6 DEF IInv, TypeOK

\* A result is posted: the state of one host, and of no other, is decided.
LEMMA PostingStep ==
    ASSUME IInv, UNCHANGED clientVars, NEW h \in Host,
           clusterhostState' = Posted(h, Result(h)),
           play = "notifying", h \in toNotify,
           \/ play' = "dead" /\ toNotify' = toNotify
           \/ play' = play /\ toNotify' = toNotify \ {h},
           UNCHANGED <<processed, bad, hostState>>
    PROVE  IInv'
<1>1. /\ h \in processed
      /\ clusterhostState[h] = "INSTALLING"
      /\ clusterhostState'[h] = Result(h)
      /\ Result(h) \in {"SUCCESSFUL", "ERROR"}
      /\ \A g \in Host \ {h} : clusterhostState'[g] = clusterhostState[g]
      /\ clusterhostState' \in [Host -> HostStates]
  BY PostingDecides DEF IInv
<1>2. UNCHANGED <<pc, toPoll, osDeadline, lateReading, deadline, tries, printer,
                  reason>>
  BY DEF clientVars
<1>3. ~AllSuccessful
  BY <1>1 DEF AllSuccessful
<1>4. ReadingsHold'
  BY <1>2, <1>3 DEF IInv, ReadingsHold
<1>5. CausesHold'
  BY <1>1, <1>2 DEF IInv, CausesHold
<1>6. ReportedAsPlayed'
  BY <1>1 DEF IInv, ReportedAsPlayed, WentWell, ForceError, Result
<1>7. ReportsPending'
  BY <1>1 DEF IInv, TypeOK, PlaybookTypeOK, ReportsPending
<1>8. TypeOK'
  BY <1>1, <1>2 DEF IInv, TypeOK, MonitorTypeOK, PlaybookTypeOK, TablesTypeOK
<1>9. PrinterPlaces' /\ PrinterAfterOs' /\ PrinterReaped'
  BY <1>2 DEF IInv, PrinterPlaces, PrinterAfterOs, PrinterReaped, OsInstalled, Over,
              InProgress
<1>. QED  BY <1>4, <1>5, <1>6, <1>7, <1>8, <1>9 DEF IInv

\* notify_host raises and the deck has not taken the state.
LEMMA LostPostingStep ==
    ASSUME IInv, UNCHANGED clientVars, play = "notifying", play' = "dead",
           UNCHANGED <<processed, bad, toNotify, tables>>
    PROVE  IInv'
BY ZenonT(40) DEF IInv, TypeOK, MonitorTypeOK, PlaybookTypeOK, TablesTypeOK, ReportedAsPlayed,
       WentWell, ForceError, ReportsPending, ReadingsHold, PrinterPlaces,
       PrinterAfterOs, PrinterReaped, CausesHold, AllSuccessful, OsInstalled,
       Over, InProgress, clientVars, tables

LEMMA PlaybookStep ==
    ASSUME IInv, PlaybookNext, UNCHANGED clientVars
    PROVE  IInv'
<1>1. CASE EndPlaybook \/ KillPlaybook \/ AbandonStats \/ FetchClusterhosts \/ AllNotified
  BY <1>1, QuietPlaybookStep
<1>2. ASSUME NEW h \in Host, NotifyHost(h)
      PROVE  IInv'
  BY <1>2, PostingStep DEF NotifyHost
<1>3. ASSUME NEW h \in Host, NotifyFails(h)
      PROVE  IInv'
  <2>1. CASE clusterhostState' = clusterhostState
    BY <2>1, <1>3, LostPostingStep DEF NotifyFails, tables
  <2>2. CASE clusterhostState' = Posted(h, Result(h))
    BY <2>2, <1>3, PostingStep DEF NotifyFails
  <2>. QED  BY <1>3, <2>1, <2>2 DEF NotifyFails
<1>. QED  BY <1>1, <1>2, <1>3 DEF PlaybookNext

LEMMA StutterIInv ==
    ASSUME IInv, UNCHANGED vars
    PROVE  IInv'
<1>1. UNCHANGED <<pc, toPoll, osDeadline, lateReading, deadline, tries, printer,
                  reason, play, processed, bad, toNotify, hostState,
                  clusterhostState>>
  BY DEF vars, clientVars, playVars, tables
<1>2. TypeOK'
  BY <1>1 DEF IInv, TypeOK, MonitorTypeOK, PlaybookTypeOK, TablesTypeOK
<1>3. ReportedAsPlayed' /\ ReportsPending'
  BY <1>1 DEF IInv, ReportedAsPlayed, WentWell, ForceError, ReportsPending
<1>4. /\ ReadingsHold' /\ PrinterPlaces' /\ PrinterAfterOs'
      /\ PrinterReaped' /\ CausesHold'
  BY <1>1 DEF IInv, ReadingsHold, PrinterPlaces, PrinterAfterOs, PrinterReaped,
              CausesHold, AllSuccessful, OsInstalled, Over, InProgress
<1>. QED  BY <1>2, <1>3, <1>4 DEF IInv

LEMMA NextIInv == IInv /\ [Next]_vars => IInv'
<1>. SUFFICES ASSUME IInv, [Next]_vars PROVE IInv'
  OBVIOUS
<1>1. CASE Client
  BY <1>1, ClientStep DEF Client, MonitorNext
<1>2. CASE Clock
  BY <1>2, SurroundingsStep DEF Clock
<1>3. CASE Printer
  BY <1>3, SurroundingsStep DEF Printer
<1>4. CASE Installer
  BY <1>4, InstallerStep DEF Installer
<1>5. CASE TasksStartPlaybook
  BY <1>5, QuietPlaybookStep DEF TasksStartPlaybook
<1>6. CASE Playbook
  BY <1>6, PlaybookStep DEF Playbook
<1>7. CASE Idle \/ UNCHANGED vars
  BY <1>7, StutterIInv DEF Idle
<1>. QED  BY <1>1, <1>2, <1>3, <1>4, <1>5, <1>6, <1>7 DEF Next

-----------------------------------------------------------------------------

\* The tables the client reads while others write them support what it concludes,
\* at every moment (the inductive invariant of the installation).
THEOREM InstallationInvariant == Spec => []IInv
<1>. QED  BY InitIInv, NextIInv, PTL DEF Spec

\* The variables keep their types, the counter of attempts included.
THEOREM InstallationTypes == Spec => []TypeOK
<1>1. IInv => TypeOK
  BY DEF IInv
<1>. QED  BY <1>1, InstallationInvariant, PTL

\* A state shown for a host is the outcome the playbook had on it (the loop of
\* status_callback.py), whichever notifications were lost.
THEOREM ReportsAreTrue == Spec => []ReportedAsPlayed
<1>1. IInv => ReportedAsPlayed
  BY DEF IInv
<1>. QED  BY <1>1, InstallationInvariant, PTL

\* A client that reports success has a cluster on which the play succeeded.
THEOREM SuccessSound == Spec => []SuccessIsReal
<1>1. IInv => SuccessIsReal
  BY DEF IInv, SuccessIsReal, ReadingsHold, AllSuccessful, ReportedAsPlayed
<1>. QED  BY <1>1, InstallationInvariant, PTL

\* A client that reports a failure names a cause that holds.
THEOREM FailureSound == Spec => []FailureHasCause
<1>1. IInv => FailureHasCause
  BY DEF IInv, FailureHasCause, CausesHold, ReadingsHold, AllSuccessful,
         ReportedAsPlayed
<1>. QED  BY <1>1, InstallationInvariant, PTL

\* The log is followed only when every operating system of the cluster is
\* installed (client.py starts the printer after the first sweep).
THEOREM PrinterSound == Spec => []PrinterAfterOs
<1>1. IInv => PrinterAfterOs
  BY DEF IInv
<1>. QED  BY <1>1, InstallationInvariant, PTL

\* No exit of the client, by success, failure or timeout, leaves the printer
\* running.
THEOREM PrinterNotLeft == Spec => []PrinterReaped
<1>1. IInv => PrinterReaped
  BY DEF IInv
<1>. QED  BY <1>1, InstallationInvariant, PTL

-----------------------------------------------------------------------------
(* The installation implements its contract. *)

LEMMA InitContract == Init => Contract!Init
BY DEF Init, MonitorInit, TablesInit, Contract!Init, Verdict

\* A step of the client decides nothing about a host; it ends the client with a
\* success, which the tables support, or with a failure, or not at all.
LEMMA ClientContract ==
    ASSUME IInv, MonitorStep, UNCHANGED tables
    PROVE  [Contract!Next]_Contract!contractVars
<1>1. UNCHANGED clusterhostState
  BY DEF tables
<1>2. pc \notin {"done", "failed"}
  BY DEF MonitorStep, StartSweep, PollReady, PollNotReady, PollBreaks, OsSleepOver,
         SweepDone, TestProgress, QueryFails, QueryAnswers, SleepOver, Settle,
         CheckLinks
<1>3. CASE pc' = "done"
  <2>1. AllSuccessful
    BY <1>3 DEF IInv, ReadingsHold, MonitorStep, StartSweep, PollReady,
           PollNotReady, PollBreaks, OsSleepOver, SweepDone, TestProgress,
           QueryFails, QueryAnswers, SleepOver, Settle, CheckLinks, Raise,
           RaiseAndTerminate
  <2>2. Contract!AnnounceSuccess
    BY <1>1, <1>2, <1>3, <2>1 DEF Contract!AnnounceSuccess, Verdict, AllSuccessful
  <2>. QED  BY <2>2 DEF Contract!Next
<1>4. CASE pc' = "failed"
  <2>1. Contract!AnnounceFailure
    BY <1>1, <1>2, <1>4 DEF Contract!AnnounceFailure, Verdict
  <2>. QED  BY <2>1 DEF Contract!Next
<1>5. CASE pc' \notin {"done", "failed"}
  BY <1>1, <1>2, <1>5 DEF Contract!contractVars, Verdict
<1>. QED  BY <1>3, <1>4, <1>5

\* A posting decides the state of one host that was undecided.
LEMMA PostingContract ==
    ASSUME IInv, UNCHANGED clientVars, NEW h \in Host,
           clusterhostState' = Posted(h, Result(h)),
           play = "notifying", h \in toNotify
    PROVE  Contract!Next
<1>1. clusterhostState[h] = "INSTALLING" /\ Result(h) \in {"SUCCESSFUL", "ERROR"}
  BY PostingDecides DEF IInv
<1>2. Contract!Decide(h)
  BY <1>1 DEF Contract!Decide, Posted, Verdict, clientVars
<1>. QED  BY <1>2 DEF Contract!Next

LEMMA PlaybookContract ==
    ASSUME IInv, PlaybookNext, UNCHANGED clientVars
    PROVE  [Contract!Next]_Contract!contractVars
<1>1. UNCHANGED pc
  BY DEF clientVars
<1>2. CASE UNCHANGED clusterhostState
  BY <1>1, <1>2 DEF Contract!contractVars, Verdict
<1>3. CASE ~UNCHANGED clusterhostState
  <2>1. PICK h \in Host : NotifyHost(h) \/ NotifyFails(h)
    BY <1>3 DEF PlaybookNext, EndPlaybook, KillPlaybook, AbandonStats,
           FetchClusterhosts, AllNotified, tables
  <2>2. play = "notifying" /\ h \in toNotify
        /\ clusterhostState' = Posted(h, Result(h))
    BY <2>1, <1>3 DEF NotifyHost, NotifyFails
  <2>. QED  BY <2>2, PostingContract
<1>. QED  BY <1>2, <1>3

LEMMA NextContract == IInv /\ [Next]_vars => [Contract!Next]_Contract!contractVars
<1>. SUFFICES ASSUME IInv, [Next]_vars
              PROVE  [Contract!Next]_Contract!contractVars
  OBVIOUS
<1>1. CASE Client
  BY <1>1, ClientContract DEF Client, MonitorNext
<1>2. CASE Playbook
  BY <1>2, PlaybookContract DEF Playbook
<1>3. CASE Clock \/ Printer \/ Installer \/ TasksStartPlaybook \/ Idle \/ UNCHANGED vars
  <2>1. UNCHANGED <<pc, clusterhostState>>
    BY <1>3 DEF Clock, Printer, Installer, TasksStartPlaybook, Idle, vars, clientVars,
           playVars, tables, OsDeadlinePasses, DeadlinePasses, PrinterDies,
           HostInstalled, StartPlaybook
  <2>. QED  BY <2>1 DEF Contract!contractVars, Verdict
<1>. QED  BY <1>1, <1>2, <1>3 DEF Next

\* Client, callback and deck together keep the contract with the operator: the
\* outcome of a host is decided once, the verdict is given once, and a success is
\* announced only when every host succeeded.
THEOREM KeepsTheContract == Spec => KeepsContract
<1>. QED  BY InitContract, NextContract, InstallationInvariant, PTL
          DEF Spec, KeepsContract, Contract!Spec

-----------------------------------------------------------------------------
(* Why the client returns: once the deadline of its phase has passed, a bound *)
(* on the steps it may still take.                                            *)

OsPhase == pc \in {"osTest", "osPoll", "osSleep"}

\* The deadline the client is about to look at has passed.
Due ==
    \/ OsPhase /\ osDeadline
    \/ InProgress /\ deadline
    \/ pc = "links"

\* Nothing is asked of a client that has returned.
Decided == Due \/ Over

Unpolled == Cardinality(toPoll)
Sweep == Cardinality(Host)

\* A sweep polls every host at most, and at its end or at the first host that is not
\* ready the clock is read, late by now; get_cluster_state has so many attempts left.
ClientLeft ==
    CASE pc = "osTest"  -> IF lateReading THEN 1 ELSE Sweep + 4
      [] pc = "osSleep" -> IF lateReading THEN 2 ELSE Sweep + 5
      [] pc = "osPoll"  -> Unpolled + 3
      [] pc = "test"    -> 1
      [] pc = "query"   -> MaxTries - tries + 3
      [] pc = "sleep"   -> 2
      [] pc = "settle"  -> 2
      [] pc = "links"   -> 1
      [] OTHER          -> 0

LEMMA SweepCounts ==
    ASSUME IInv
    PROVE  /\ Sweep \in Nat /\ Unpolled \in Nat
           /\ MaxTries \in Nat /\ tries \in Nat
           /\ pc = "query" => tries + 1 <= MaxTries
           /\ tries <= MaxTries
<1>1. toPoll \in SUBSET Host /\ tries \in 0..MaxTries
  BY DEF IInv, TypeOK, MonitorTypeOK
<1>2. pc = "query" => tries + 1 \in 1..MaxTries
  BY DEF IInv, ReadingsHold
<1>3. IsFiniteSet(Host) /\ IsFiniteSet(toPoll)
  BY <1>1, MonitorAssumption, FS_Subset
<1>4. Sweep \in Nat /\ Unpolled \in Nat
  BY <1>3, FS_CardinalityType DEF Sweep, Unpolled
<1>. QED  BY <1>1, <1>2, <1>4, AttemptBounds

LEMMA ClientIsCounted ==
    ASSUME IInv
    PROVE  ClientLeft \in Nat /\ (ClientLeft = 0 <=> Over)
<1>1. pc \in {"osTest", "osPoll", "osSleep", "test", "query", "sleep",
              "settle", "links", "done", "failed"}
  BY DEF IInv, TypeOK, MonitorTypeOK
<1>. QED  BY <1>1, SweepCounts DEF ClientLeft, Over

\* A client that raises has no step left.
LEMMA ExitCounts ==
    ASSUME IInv, ~Over, Over'
    PROVE  ClientLeft' < ClientLeft /\ Decided'
<1>1. ClientLeft' = 0
  BY DEF Over, ClientLeft
<1>2. ClientLeft \in Nat /\ ClientLeft # 0
  BY ClientIsCounted
<1>. QED  BY <1>1, <1>2 DEF Decided

\* Late, a sweep leads to a reading of the clock and that to an exception.
LEMMA LateSweepCounts ==
    ASSUME IInv, MonitorStep, OsPhase, osDeadline
    PROVE  ClientLeft' < ClientLeft /\ Decided'
<1>1. ~Over /\ osDeadline' = osDeadline
  BY DEF OsPhase, Over, MonitorStep, StartSweep, PollReady, PollNotReady, PollBreaks,
         OsSleepOver, SweepDone, TestProgress, QueryFails, QueryAnswers, SleepOver,
         Settle, CheckLinks
<1>2. Sweep' = Sweep /\ Sweep \in Nat /\ Unpolled \in Nat
  BY SweepCounts DEF Sweep
<1>3. CASE StartSweep
  <2>1. pc = "osTest" /\ (Over' \/ (~lateReading /\ pc' = "osPoll" /\ toPoll' = Host))
    BY <1>3 DEF StartSweep, Raise, Over
  <2>2. CASE Over'
    BY <1>1, <2>2, ExitCounts
  <2>3. CASE ~lateReading /\ pc' = "osPoll" /\ toPoll' = Host
    <3>1. ClientLeft = Sweep + 4
      BY <2>1, <2>3 DEF ClientLeft
    <3>2. ClientLeft' = Sweep + 3
      BY <2>3 DEF ClientLeft, Unpolled, Sweep
    <3>3. Decided'
      BY <1>1, <2>3 DEF Decided, Due, OsPhase
    <3>. QED  BY <1>2, <3>1, <3>2, <3>3
  <2>. QED  BY <2>1, <2>2, <2>3
<1>4. ASSUME NEW h \in Host, PollReady(h)
      PROVE  ClientLeft' < ClientLeft /\ Decided'
  <2>1. pc = "osPoll" /\ pc' = pc /\ h \in toPoll /\ toPoll' = toPoll \ {h}
    BY <1>4 DEF PollReady
  <2>2. IsFiniteSet(toPoll)
    BY MonitorAssumption, FS_Subset DEF IInv, TypeOK, MonitorTypeOK
  <2>3. Unpolled' = Unpolled - 1
    BY <2>1, <2>2, FS_RemoveElement DEF Unpolled
  <2>4. ClientLeft = Unpolled + 3 /\ ClientLeft' = Unpolled' + 3
    BY <2>1 DEF ClientLeft
  <2>5. Decided'
    BY <1>1, <2>1 DEF Decided, Due, OsPhase
  <2>. QED  BY <1>2, <2>3, <2>4, <2>5
<1>5. ASSUME NEW h \in Host, PollNotReady(h)
      PROVE  ClientLeft' < ClientLeft /\ Decided'
  <2>1. pc = "osPoll" /\ pc' = "osSleep" /\ lateReading' = TRUE
    BY <1>5 DEF PollNotReady
  <2>2. ClientLeft = Unpolled + 3 /\ ClientLeft' = 2
    BY <2>1 DEF ClientLeft
  <2>3. Decided'
    BY <1>1, <2>1 DEF Decided, Due, OsPhase
  <2>. QED  BY <1>2, <2>2, <2>3
<1>6. CASE OsSleepOver
  <2>1. pc = "osSleep" /\ pc' = "osTest" /\ lateReading' = lateReading
    BY <1>6 DEF OsSleepOver
  <2>2. /\ ClientLeft = IF lateReading THEN 2 ELSE Sweep + 5
        /\ ClientLeft' = IF lateReading THEN 1 ELSE Sweep + 4
    BY <2>1 DEF ClientLeft, Sweep
  <2>3. Decided'
    BY <1>1, <2>1 DEF Decided, Due, OsPhase
  <2>. QED  BY <1>2, <2>2, <2>3
<1>7. CASE SweepDone \/ \E h \in Host : PollBreaks(h)
  <2>1. Over'
    BY <1>7 DEF SweepDone, PollBreaks, Raise, Over
  <2>. QED  BY <1>1, <2>1, ExitCounts
<1>. QED
  BY <1>3, <1>4, <1>5, <1>6, <1>7
  DEF MonitorStep, OsPhase, TestProgress, QueryFails, QueryAnswers, SleepOver, Settle,
      CheckLinks

\* Late, the test of the loop raises, and so does what follows it.
LEMMA LateProgressCounts ==
    ASSUME IInv, MonitorStep, (InProgress /\ deadline) \/ pc = "links"
    PROVE  ClientLeft' < ClientLeft /\ Decided'
<1>1. ~Over /\ deadline' = deadline
  BY DEF InProgress, Over, MonitorStep, StartSweep, PollReady, PollNotReady, PollBreaks,
         OsSleepOver, SweepDone, TestProgress, QueryFails, QueryAnswers, SleepOver,
         Settle, CheckLinks
<1>2. MaxTries \in Nat /\ tries \in Nat /\ tries <= MaxTries
  BY SweepCounts
<1>3. CASE TestProgress \/ Settle \/ CheckLinks
  <2>1. Over'
    BY <1>3 DEF TestProgress, Settle, CheckLinks, Raise, RaiseAndTerminate, Over,
                InProgress
  <2>. QED  BY <1>1, <2>1, ExitCounts
<1>4. CASE QueryFails
  <2>1. pc = "query" /\ tries' = tries + 1 /\ (Over' \/ pc' = pc)
    BY <1>4 DEF QueryFails, RaiseAndTerminate, Raise, Over
  <2>2. CASE Over'
    BY <1>1, <2>2, ExitCounts
  <2>3. CASE pc' = pc
    <3>1. ClientLeft = MaxTries - tries + 3 /\ ClientLeft' = MaxTries - tries' + 3
      BY <2>1, <2>3 DEF ClientLeft
    <3>2. Decided'
      BY <1>1, <2>1, <2>3 DEF Decided, Due, InProgress
    <3>. QED  BY <1>2, <2>1, <3>1, <3>2
  <2>. QED  BY <2>1, <2>2, <2>3
<1>5. CASE QueryAnswers
  <2>1. pc = "query" /\ (Over' \/ pc' \in {"settle", "sleep"})
    BY <1>5 DEF QueryAnswers, RaiseAndTerminate, Raise, Over
  <2>2. CASE Over'
    BY <1>1, <2>2, ExitCounts
  <2>3. CASE pc' \in {"settle", "sleep"}
    <3>1. ClientLeft = MaxTries - tries + 3 /\ ClientLeft' = 2
      BY <2>1, <2>3 DEF ClientLeft
    <3>2. Decided'
      BY <1>1, <2>1, <2>3 DEF Decided, Due, InProgress
    <3>. QED  BY <1>2, <3>1, <3>2
  <2>. QED  BY <2>1, <2>2, <2>3
<1>6. CASE SleepOver
  <2>1. pc = "sleep" /\ pc' = "test"
    BY <1>6 DEF SleepOver
  <2>2. ClientLeft = 2 /\ ClientLeft' = 1
    BY <2>1 DEF ClientLeft
  <2>3. Decided'
    BY <1>1, <2>1 DEF Decided, Due, InProgress
  <2>. QED  BY <2>2, <2>3
<1>. QED
  BY <1>3, <1>4, <1>5, <1>6
  DEF MonitorStep, InProgress, StartSweep, PollReady, PollNotReady, PollBreaks,
      OsSleepOver, SweepDone

\* Once its deadline has passed every step of the client brings it nearer to its exit,
\* whatever the deck answers, and it never gets from a deadline that has passed to a
\* phase whose deadline has not; nobody else prolongs it.  (ClientReturns is this, its
\* fairness, and that the deadlines are moments that come.)
THEOREM LateClientGetsOn ==
    Spec => [][ Due => /\ Client => ClientLeft' < ClientLeft
                       /\ ClientLeft' <= ClientLeft
                       /\ Due' \/ Over' ]_vars
<1>0. IInv => ClientLeft \in Nat
  BY ClientIsCounted
<1>1. IInv' => (ClientLeft \in Nat)'
  BY <1>0, PTL
<1>2. ASSUME IInv, IInv', Client, Due
      PROVE  ClientLeft' < ClientLeft /\ ClientLeft' <= ClientLeft /\ (Due' \/ Over')
  <2>1. MonitorStep
    BY <1>2 DEF Client, MonitorNext
  <2>2. ClientLeft' < ClientLeft /\ Decided'
    BY <1>2, <2>1, LateSweepCounts, LateProgressCounts DEF Due
  <2>3. ClientLeft \in Nat /\ ClientLeft' \in Nat
    BY <1>0, <1>1, <1>2
  <2>. QED  BY <2>2, <2>3 DEF Decided
<1>3. ASSUME IInv, Next, ~Client, Due
      PROVE  ClientLeft' <= ClientLeft /\ Due'
  <2>1. /\ UNCHANGED <<pc, toPoll, lateReading, tries>>
        /\ osDeadline => osDeadline'
        /\ deadline => deadline'
    BY <1>3 DEF Next, Clock, Printer, Installer, TasksStartPlaybook, Playbook, Idle,
                OsDeadlinePasses, DeadlinePasses, PrinterDies, vars, clientVars
  <2>2. ClientLeft' = ClientLeft
    BY <2>1 DEF ClientLeft, Unpolled, Sweep
  <2>3. Due'
    BY <1>3, <2>1 DEF Due, OsPhase, InProgress
  <2>4. ClientLeft \in Nat
    BY <1>0, <1>3
  <2>. QED  BY <2>2, <2>3, <2>4
<1>4. IInv /\ IInv' /\ [Next]_vars =>
          [ Due => /\ Client => ClientLeft' < ClientLeft
                   /\ ClientLeft' <= ClientLeft
                   /\ Due' \/ Over' ]_vars
  BY <1>2, <1>3
<1>. QED  BY <1>4, InstallationInvariant, PTL DEF Spec

\* The bound is a number, and zero exactly when the client has returned.
THEOREM ClientLeftIsBound == Spec => [](ClientLeft \in Nat /\ (ClientLeft = 0 <=> Over))
<1>1. IInv => ClientLeft \in Nat /\ (ClientLeft = 0 <=> Over)
  BY ClientIsCounted
<1>. QED  BY <1>1, InstallationInvariant, PTL
=============================================================================
