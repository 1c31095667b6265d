---------------------------- MODULE RecoveryProofs -----------------------------
(***************************************************************************)
(* The recovery for every cluster and any numbers of attempts.  Control    *)
(* and text carry the result of a check through the script: Verdicts says  *)
(* what each place of the script, and the text at hand there, tell about   *)
(* the controllers.  A bound on the steps left shows why it ends.          *)
(***************************************************************************)
EXTENDS Recovery, TLAPS

\* What is known of the controllers at each place of the script.
Verdicts ==
    /\ pc \in {"compass", "loop", "compute"} => "controller" \notin answered
    /\ pc = "controller" => "controller" \notin answered
    /\ pc = "checked" => ("controller" \in answered <=> printed = <<"ok">>)
    /\ pc = "verdict" => i >= MaxRetryTimes \/ "controller" \in answered
    /\ pc \in {"stop", "recover", "done"} => "controller" \in answered

\* The compass machine answered before the loop was entered.
CompassFirst ==
    /\ pc = "compass" => i = 0
    /\ pc \notin {"compass", "failed"} => compassUp
    /\ i > 0 => compassUp

\* A waiting loop is left by its last attempt.
AttemptsLeft ==
    /\ pc = "compass" => retry < SshTries
    /\ pc = "compute" => retry < ComputeProbes
    /\ pc = "controller" => retry < ControllerProbes

IInv ==
    /\ TypeOK
    /\ Verdicts
    /\ CompassFirst
    /\ AttemptsLeft

-----------------------------------------------------------------------------

LEMMA CountersBegin ==
    /\ 0 \in Counters
    /\ 0 < SshTries /\ 0 < ComputeProbes /\ 0 < ControllerProbes
    /\ 0 \in 0..MaxRetryTimes
BY RecoveryAssumption DEF Counters

\* An attempt that is not beyond the last of some loop can be counted.
LEMMA CountersGrow ==
    ASSUME NEW c \in Counters,
           c < SshTries \/ c < ComputeProbes \/ c < ControllerProbes
    PROVE  c + 1 \in Counters
BY RecoveryAssumption DEF Counters

LEMMA InitIInv == Init => IInv
<1>. SUFFICES ASSUME Init PROVE IInv
  OBVIOUS
<1>1. TypeOK
  BY CountersBegin DEF Init, TypeOK
<1>2. AttemptsLeft
  BY CountersBegin DEF Init, AttemptsLeft
<1>3. Verdicts /\ CompassFirst
  BY DEF Init, Verdicts, CompassFirst
<1>. QED  BY <1>1, <1>2, <1>3 DEF IInv

LEMMA CompassStep ==
    ASSUME IInv, SshAnswers \/ SshFails \/ CompassBoots
    PROVE  IInv'
<1>. USE RecoveryAssumption DEF IInv, TypeOK, Verdicts, CompassFirst, AttemptsLeft
<1>1. CASE SshAnswers
  BY <1>1 DEF SshAnswers
<1>2. CASE SshFails
  <2>1. retry + 1 \in Counters
    BY <1>2, CountersGrow DEF SshFails
  <2>2. pc' = "compass" => retry' < SshTries
    BY <1>2 DEF SshFails
  <2>3. pc' \in {"compass", "loop", "failed"} /\ (pc' = "loop" => compassUp)
    BY <1>2 DEF SshFails
  <2>. QED  BY <1>2, <2>1, <2>2, <2>3 DEF SshFails
<1>3. CASE CompassBoots
  BY <1>3 DEF CompassBoots
<1>. QED  BY <1>1, <1>2, <1>3

LEMMA LoopStep ==
    ASSUME IInv,
           RestartHosts \/ Checked \/ LoopEnds \/ Verdict \/ StopServices \/ RecoverHosts
    PROVE  IInv'
<1>. USE RecoveryAssumption DEF IInv, TypeOK, Verdicts, CompassFirst, AttemptsLeft
<1>1. CASE RestartHosts
  <2>1. i + 1 \in 0..MaxRetryTimes /\ i + 1 > 0
    <3>1. i \in 0..MaxRetryTimes /\ i < MaxRetryTimes
      BY <1>1 DEF RestartHosts
    <3>. QED  BY ONLY <3>1, RecoveryAssumption
  <2>. QED  BY <1>1, <2>1, CountersBegin DEF RestartHosts
<1>2. CASE Checked
  BY <1>2 DEF Checked
<1>3. CASE LoopEnds
  BY <1>3 DEF LoopEnds
<1>4. CASE Verdict
  BY <1>4 DEF Verdict
<1>5. CASE StopServices
  BY <1>5 DEF StopServices
<1>6. CASE RecoverHosts
  BY <1>6 DEF RecoverHosts
<1>. QED  BY <1>1, <1>2, <1>3, <1>4, <1>5, <1>6

LEMMA ProbeStep ==
    ASSUME IInv, NEW group \in {"compute", "controller"},
           ProbeAnswers(group) \/ ProbeFails(group) \/ ProbeTimesOut(group)
    PROVE  IInv'
<1>. USE DEF IInv, TypeOK, Verdicts, CompassFirst, AttemptsLeft, AfterCheck
<1>1. CASE ProbeAnswers(group)
  BY <1>1, CountersBegin DEF ProbeAnswers
<1>2. CASE ProbeFails(group)
  <2>1. retry + 1 \in Counters
    BY <1>2, CountersGrow DEF ProbeFails
  <2>2. CASE group = "compute"
    BY <1>2, <2>1, <2>2 DEF ProbeFails, Probes
  <2>3. CASE group = "controller"
    BY <1>2, <2>1, <2>3 DEF ProbeFails, Probes
  <2>. QED  BY <2>2, <2>3
<1>3. CASE ProbeTimesOut(group)
  BY <1>3, CountersBegin DEF ProbeTimesOut
<1>. QED  BY <1>1, <1>2, <1>3

LEMMA HostStep ==
    ASSUME IInv, NEW h \in Host, HostBoots(h)
    PROVE  IInv'
BY DEF IInv, TypeOK, Verdicts, CompassFirst, AttemptsLeft, HostBoots

LEMMA NextIInv == IInv /\ [Next]_vars => IInv'
<1>. SUFFICES ASSUME IInv, [Next]_vars PROVE IInv'
  OBVIOUS
<1>1. CASE SshAnswers \/ SshFails \/ CompassBoots
  BY <1>1, CompassStep
<1>2. CASE RestartHosts \/ Checked \/ LoopEnds \/ Verdict \/ StopServices \/ RecoverHosts
  BY <1>2, LoopStep
<1>3. ASSUME NEW group \in {"compute", "controller"},
             ProbeAnswers(group) \/ ProbeFails(group) \/ ProbeTimesOut(group)
      PROVE  IInv'
  BY <1>3, ProbeStep
<1>4. ASSUME NEW h \in Host, HostBoots(h)
      PROVE  IInv'
  BY <1>4, HostStep
<1>5. CASE Idle \/ UNCHANGED vars
  BY <1>5 DEF Idle, vars, IInv, TypeOK, Verdicts, CompassFirst, AttemptsLeft
<1>. QED  BY <1>1, <1>2, <1>3, <1>4, <1>5 DEF Next, Script

-----------------------------------------------------------------------------

\* The script knows what it acts on (the inductive invariant).
THEOREM RecoveryInvariant == Spec => []IInv
<1>. QED  BY InitIInv, NextIInv, PTL DEF Spec

\* Every counter stays in its range.
THEOREM RecoveryTypes == Spec => []TypeOK
<1>1. IInv => TypeOK
  BY DEF IInv
<1>. QED  BY <1>1, RecoveryInvariant, PTL

\* No service is stopped before all controllers answered the last restart.
THEOREM StopsReachableOnly == Spec => []ControllersAnswered
<1>1. IInv => ControllersAnswered
  BY DEF IInv, Verdicts, ControllersAnswered
<1>. QED  BY <1>1, RecoveryInvariant, PTL

\* No host is restarted before the compass machine answers.
THEOREM CompassIsFirst == Spec => []CompassBeforeHosts
<1>1. IInv => CompassBeforeHosts
  BY DEF IInv, CompassFirst, CompassBeforeHosts
<1>. QED  BY <1>1, RecoveryInvariant, PTL

\* No host is restarted once the controllers answered.
THEOREM RestartsOnlyIfNeeded == Spec => NoNeedlessRestart
<1>1. IInv /\ [Next]_vars =>
          [up' \subseteq up /\ up' # up => "controller" \notin answered]_vars
  <2>. SUFFICES ASSUME IInv, Next, up' \subseteq up, up' # up
                PROVE  "controller" \notin answered
    OBVIOUS
  <2>1. RestartHosts
    BY DEF Next, Script, SshAnswers, SshFails, ProbeAnswers, ProbeFails,
           ProbeTimesOut, Checked, LoopEnds, Verdict, StopServices, RecoverHosts,
           CompassBoots, HostBoots, Idle, vars
  <2>. QED  BY <2>1 DEF RestartHosts, IInv, Verdicts
<1>. QED  BY <1>1, RecoveryInvariant, PTL DEF Spec, NoNeedlessRestart

-----------------------------------------------------------------------------
(* Why a recovery ends: a bound on the steps of the script that are left.    *)

\* The steps of one round of the loop.
Round == ComputeProbes + ControllerProbes + 3

\* The steps of the script before the next round or the end.
StepsInRound ==
    CASE pc = "compass"    -> SshTries - retry + 4
      [] pc = "compute"    -> (ComputeProbes - retry) + ControllerProbes + 6
      [] pc = "controller" -> (ControllerProbes - retry) + 5
      [] pc = "checked"    -> 5
      [] pc = "loop"       -> 4
      [] pc = "verdict"    -> 3
      [] pc = "stop"       -> 2
      [] pc = "recover"    -> 1
      [] OTHER             -> 0

\* None are left when it is over, however many rounds it did not need.
StepsLeft == IF Over THEN 0 ELSE (MaxRetryTimes - i) * Round + StepsInRound

LEMMA Ranges ==
    ASSUME IInv
    PROVE  /\ MaxRetryTimes \in Nat /\ i \in 0..MaxRetryTimes /\ retry \in Nat
           /\ SshTries \in Nat /\ ComputeProbes \in Nat /\ ControllerProbes \in Nat
           /\ AttemptsLeft
<1>1. AttemptsLeft
  BY DEF IInv
<1>2. i \in 0..MaxRetryTimes /\ retry \in Counters
  BY DEF IInv, TypeOK
<1>. QED  BY <1>1, <1>2, RecoveryAssumption DEF Counters

LEMMA RoundsLeft ==
    ASSUME IInv
    PROVE  /\ Round \in Nat
           /\ (MaxRetryTimes - i) * Round \in Nat
           /\ i < MaxRetryTimes =>
                (MaxRetryTimes - i) * Round = (MaxRetryTimes - (i + 1)) * Round + Round
<1>1. Round \in Nat
  BY RecoveryAssumption DEF Round
<1>2. MaxRetryTimes - i \in Nat /\ i \in Nat /\ MaxRetryTimes \in Nat
  BY Ranges
<1>3. \A a, b \in Nat : a * b \in Nat
  OBVIOUS
<1>4. \A a, b \in Nat : a # 0 => a * b = (a - 1) * b + b
  OBVIOUS
<1>5. i < MaxRetryTimes =>
          (MaxRetryTimes - i) * Round = ((MaxRetryTimes - i) - 1) * Round + Round
  BY <1>1, <1>2, <1>4
<1>6. (MaxRetryTimes - i) - 1 = MaxRetryTimes - (i + 1)
  BY <1>2
<1>. QED  BY <1>1, <1>2, <1>3, <1>5, <1>6

LEMMA StepsAreCounted ==
    ASSUME IInv
    PROVE  /\ ~Over => StepsInRound \in Nat \ {0}
           /\ StepsLeft \in Nat
           /\ StepsLeft = 0 <=> Over
<1>1. ~Over => StepsInRound \in Nat \ {0}
  <2>1. pc \in {"compass", "loop", "compute", "controller", "checked", "verdict",
                "stop", "recover", "done", "failed"}
    BY DEF IInv, TypeOK
  <2>. QED  BY <2>1, Ranges DEF AttemptsLeft, Over, StepsInRound
<1>2. (MaxRetryTimes - i) * Round \in Nat
  BY RoundsLeft
<1>. DEFINE rounds == (MaxRetryTimes - i) * Round
<1>. HIDE DEF rounds
<1>3. rounds \in Nat
  BY <1>2 DEF rounds
<1>4. StepsLeft = IF Over THEN 0 ELSE rounds + StepsInRound
  BY DEF StepsLeft, rounds
<1>. QED  BY <1>1, <1>3, <1>4

LEMMA ScriptCountsDown ==
    ASSUME IInv, IInv', Script
    PROVE  StepsLeft' < StepsLeft
<1>. DEFINE rounds == (MaxRetryTimes - i) * Round
<1>1. ~Over
  BY DEF Script, SshAnswers, SshFails, RestartHosts, ProbeAnswers, ProbeFails,
         ProbeTimesOut, Checked, LoopEnds, Verdict, StopServices, RecoverHosts, Over
<1>2. rounds \in Nat /\ Round \in Nat
  BY RoundsLeft
<1>3. StepsLeft = rounds + StepsInRound
  BY <1>1 DEF StepsLeft
<1>4. StepsInRound \in Nat \ {0}
  BY <1>1, StepsAreCounted
<1>5. CASE Over'
  <2>1. StepsLeft' = 0
    BY <1>5 DEF StepsLeft
  <2>. HIDE DEF rounds
  <2>. QED  BY <1>2, <1>3, <1>4, <2>1
<1>6. CASE ~Over' /\ ~RestartHosts
  <2>1. i' = i
    BY <1>6 DEF Script, SshAnswers, SshFails, ProbeAnswers, ProbeFails,
                ProbeTimesOut, Checked, LoopEnds, Verdict, StopServices, RecoverHosts
  <2>2. StepsLeft' = rounds + StepsInRound'
    BY <1>6, <2>1 DEF StepsLeft, Round
  <2>3. StepsInRound' \in Nat /\ StepsInRound' < StepsInRound
    <3>1. AttemptsLeft'
      BY DEF IInv
    <3>. USE <3>1, Ranges DEF AttemptsLeft, StepsInRound
    <3>2. CASE SshAnswers \/ SshFails
      BY <1>6, <3>2 DEF SshAnswers, SshFails, Over
    <3>3. CASE \E group \in {"compute", "controller"} : ProbeFails(group)
      BY <3>3 DEF ProbeFails, Probes
    <3>4. ASSUME NEW group \in {"compute", "controller"},
                 ProbeAnswers(group) \/ ProbeTimesOut(group)
          PROVE  StepsInRound' \in Nat /\ StepsInRound' < StepsInRound
      <4>1. /\ pc = group /\ retry' = 0
            /\ pc' = "checked" \/ (group = "compute" /\ pc' = "controller")
        BY <3>4 DEF ProbeAnswers, ProbeTimesOut, AfterCheck
      <4>. QED  BY <4>1
    <3>5. CASE Checked \/ LoopEnds \/ Verdict \/ StopServices \/ RecoverHosts
      <4>1. \/ pc = "checked" /\ pc' \in {"verdict", "loop"}
            \/ pc = "loop" /\ pc' = "verdict"
            \/ pc = "verdict" /\ pc' \in {"failed", "stop"}
            \/ pc = "stop" /\ pc' = "recover"
            \/ pc = "recover" /\ pc' = "done"
        BY <3>5 DEF Checked, LoopEnds, Verdict, StopServices, RecoverHosts
      <4>. QED  BY <4>1
    <3>. QED  BY <1>6, <3>2, <3>3, <3>4, <3>5 DEF Script
  <2>4. \A k, x, y \in Nat : y < x => k + y < k + x
    OBVIOUS
  <2>. HIDE DEF rounds
  <2>5. rounds + StepsInRound' < rounds + StepsInRound
    BY <1>2, <1>4, <2>3, <2>4
  <2>. QED  BY <1>3, <2>2, <2>5
<1>7. CASE RestartHosts
  <2>. DEFINE fewer == (MaxRetryTimes - (i + 1)) * Round
  <2>1. /\ i < MaxRetryTimes /\ i' = i + 1
        /\ pc = "loop" /\ pc' = "compute" /\ retry' = 0
    BY <1>7 DEF RestartHosts
  <2>2. rounds = fewer + Round
    BY <2>1, RoundsLeft
  <2>3. StepsLeft' = fewer + StepsInRound'
    BY <2>1 DEF StepsLeft, Over, Round
  <2>4. fewer \in Nat
    <3>1. MaxRetryTimes - (i + 1) \in Nat
      BY <2>1, Ranges
    <3>2. \A a, b \in Nat : a * b \in Nat
      OBVIOUS
    <3>. QED  BY <1>2, <3>1, <3>2
  <2>5. StepsInRound' = ComputeProbes + ControllerProbes + 6 /\ StepsInRound = 4
    BY <2>1, RecoveryAssumption DEF StepsInRound
  <2>6. Round = ComputeProbes + ControllerProbes + 3
    BY DEF Round
  <2>. HIDE DEF rounds, fewer
  <2>. QED  BY <1>2, <1>3, <2>2, <2>3, <2>4, <2>5, <2>6, RecoveryAssumption
<1>. QED  BY <1>5, <1>6, <1>7

\* Whatever the machines do, every step of the script brings it nearer to its end,
\* of which it is never more than StepsLeft away; the machines that boot, or stay
\* down, neither help nor hinder.  (RecoveryEnds is this and the fairness of Script.)
THEOREM ScriptGetsOn ==
    Spec => [][ /\ Script => StepsLeft' < StepsLeft
                /\ ~Script => StepsLeft' = StepsLeft ]_vars
<1>1. IInv /\ IInv' /\ [Next]_vars =>
          [ /\ Script => StepsLeft' < StepsLeft
            /\ ~Script => StepsLeft' = StepsLeft ]_vars
  <2>1. ASSUME IInv, IInv', Script
        PROVE  StepsLeft' < StepsLeft
    BY <2>1, ScriptCountsDown
  <2>2. ASSUME Next, ~Script
        PROVE  StepsLeft' = StepsLeft
    <3>1. UNCHANGED <<pc, i, retry>>
      BY <2>2 DEF Next, CompassBoots, HostBoots, Idle, vars
    <3>. QED  BY <3>1 DEF StepsLeft, StepsInRound, Round, Over
  <2>. QED  BY <2>1, <2>2
<1>. QED  BY <1>1, RecoveryInvariant, PTL DEF Spec

\* The bound is a number, and zero exactly at the end.
THEOREM StepsLeftIsBound == Spec => [](StepsLeft \in Nat /\ (StepsLeft = 0 <=> Over))
<1>1. IInv => StepsLeft \in Nat /\ (StepsLeft = 0 <=> Over)
  BY StepsAreCounted
<1>. QED  BY <1>1, RecoveryInvariant, PTL
=============================================================================
