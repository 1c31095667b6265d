--------------------------- MODULE DeployHostProofs ----------------------------
(***************************************************************************)
(* What deploy_host and its background job promise, for any list of hosts, *)
(* any bonds and any number of attempts.  The inductive invariant says     *)
(* where in the list the power script is: the hosts before its position    *)
(* have been reset, the ones after it were not touched.  A bound on what   *)
(* is left of the job shows why it ends.                                   *)
(***************************************************************************)
EXTENDS DeployHost, TLAPS

\* The script is at position k of the list.
At(k) ==
    /\ rest = SubSeq(Order, k, Len(Order))
    /\ reset = {Order[j] : j \in 1..(k - 1)}
    /\ \/ pxe = reset
       \/ k <= Len(Order) /\ job \in {"power_reset", "failed"} /\ pxe = reset \union {Order[k]}

\* Before the power script nothing is touched; it works its way through the list.
Power ==
    /\ job \notin Commands \union {"done", "failed"} => reset = {} /\ pxe = {}
    /\ job \in Commands \union {"done", "failed"} => \E k \in 1..(Len(Order) + 1) : At(k)
    /\ job = "power_reset" => rest # <<>> /\ Head(rest) \in pxe
    /\ job = "bootdev_pxe" => rest # <<>>

\* The status is kept once the client has ended, and not touched again.
Status ==
    /\ shell \in {"sleep", "returned"} => status = client /\ client \in {"succeeded", "failed"}
    /\ shell = "waiting" => client # "none"
    /\ shell = "check" => client = "none" /\ job = "none" /\ ~ accepted /\ systems = {}
    /\ shell = "refused" => client = "none" /\ job = "none"

IInv == TypeOK /\ Power /\ Status

-----------------------------------------------------------------------------

LEMMA OrderTyped == Order \in Seq(Host) /\ Bonds \in Seq(Host)
  BY DeployHostAssumption DEF Host

LEMMA TriesTyped ==
    /\ 1 \in 1..Tries
    /\ \A a \in 1..Tries : a < Tries => a + 1 \in 1..Tries
  <1>1. Tries \in Nat /\ Tries # 0
    BY DeployHostAssumption
  <1> QED
    BY <1>1

LEMMA HeadTail ==
    ASSUME NEW S, NEW s \in Seq(S), s # <<>>
    PROVE  Head(s) \in S /\ Tail(s) \in Seq(S)
  OBVIOUS

LEMMA TypesKept ==
    ASSUME TypeOK, Power, [Next]_vars
    PROVE  TypeOK'
  <1> USE DEF vars, clientVars, jobVars, editVars, powerVars, TypeOK, Commands
  <1>0. CASE UNCHANGED vars
    BY <1>0
  <1>1. ASSUME NEW h \in Host, WriteSystem(h) PROVE TypeOK'
    BY <1>1 DEF WriteSystem
  <1>2. CASE Refuse
    BY <1>2 DEF Refuse
  <1>3. CASE Begin
    BY <1>3 DEF Begin
  <1>4. CASE KeepStatus
    BY <1>4 DEF KeepStatus
  <1>5. CASE Return
    BY <1>5 DEF Return
  <1>6. CASE ClientFails
    BY <1>6 DEF ClientFails
  <1>7. CASE ClientSucceeds
    BY <1>7 DEF ClientSucceeds
  <1>8. CASE DeckAccepts
    BY <1>8 DEF DeckAccepts
  <1>9. CASE SleepOver
    BY <1>9, OrderTyped DEF SleepOver
  <1>10. CASE AddBonding
    <2>1. Head(rest) \in Host /\ Tail(rest) \in Seq(Host)
      BY <1>10 DEF AddBonding
    <2> QED
      BY <1>10, <2>1 DEF AddBonding
  <1>11. CASE BondingDone
    BY <1>11, OrderTyped DEF BondingDone
  <1>12. CASE RenameNics
    <2>1. Head(rest) \in Host /\ Tail(rest) \in Seq(Host)
      BY <1>12 DEF RenameNics
    <2> QED
      BY <1>12, <2>1 DEF RenameNics
  <1>13. CASE RenameRaises
    BY <1>13, OrderTyped DEF RenameRaises, RebootHosts
  <1>14. CASE CobblerSync
    BY <1>14, OrderTyped DEF CobblerSync, RebootHosts
  <1>15. CASE PowerGivesUp
    BY <1>15 DEF PowerGivesUp
  <1>16. CASE PowerRetries
    <2>1. attempt' \in 1..Tries
      BY <1>16, TriesTyped DEF PowerRetries
    <2> QED
      BY <1>16, <2>1 DEF PowerRetries
  <1>17. CASE PowerOn
    <2>1. 1 \in 1..Tries
      BY TriesTyped
    <2> QED
      BY <1>17, <2>1 DEF PowerOn
  <1>18. CASE BootdevPxe
    <2>1. rest # <<>>
      BY <1>18 DEF BootdevPxe, Power
    <2>2. Head(rest) \in Host /\ Tail(rest) \in Seq(Host)
      BY <2>1, HeadTail
    <2>3. 1 \in 1..Tries
      BY TriesTyped
    <2> QED
      BY <1>18, <2>2, <2>3 DEF BootdevPxe
  <1>19. CASE PowerReset
    <2>1. rest # <<>>
      BY <1>19 DEF PowerReset, Power
    <2>2. Head(rest) \in Host /\ Tail(rest) \in Seq(Host)
      BY <2>1, HeadTail
    <2>3. 1 \in 1..Tries
      BY TriesTyped
    <2> QED
      BY <1>19, <2>2, <2>3 DEF PowerReset
  <1>20. CASE PowerDone
    BY <1>20 DEF PowerDone
  <1>21. CASE Idle
    BY <1>21 DEF Idle
  <1> QED
    BY <1>0, <1>1, <1>2, <1>3, <1>4, <1>5, <1>6, <1>7, <1>8, <1>9, <1>10, <1>11,
       <1>12, <1>13, <1>14, <1>15, <1>16, <1>17, <1>18, <1>19, <1>20, <1>21
       DEF Next, Shell, Client, Deck, Job

LEMMA StatusKept ==
    ASSUME TypeOK, Status, [Next]_vars
    PROVE  Status'
  <1> USE DEF vars, clientVars, jobVars, editVars, powerVars, TypeOK, Status, Commands
  <1>0. CASE UNCHANGED vars
    BY <1>0
  <1>1. ASSUME NEW h \in Host, WriteSystem(h) PROVE Status'
    BY <1>1 DEF WriteSystem
  <1>2. CASE Refuse
    BY <1>2 DEF Refuse
  <1>3. CASE Begin
    BY <1>3 DEF Begin
  <1>4. CASE KeepStatus
    BY <1>4 DEF KeepStatus
  <1>5. CASE Return
    BY <1>5 DEF Return
  <1>6. CASE ClientFails
    BY <1>6 DEF ClientFails
  <1>7. CASE ClientSucceeds
    BY <1>7 DEF ClientSucceeds
  <1>8. CASE DeckAccepts
    BY <1>8 DEF DeckAccepts
  <1>9. CASE SleepOver
    BY <1>9 DEF SleepOver
  <1>10. CASE AddBonding
    BY <1>10 DEF AddBonding
  <1>11. CASE BondingDone
    BY <1>11 DEF BondingDone
  <1>12. CASE RenameNics
    BY <1>12 DEF RenameNics
  <1>13. CASE RenameRaises
    BY <1>13 DEF RenameRaises, RebootHosts
  <1>14. CASE CobblerSync
    BY <1>14 DEF CobblerSync, RebootHosts
  <1>15. CASE PowerGivesUp
    BY <1>15 DEF PowerGivesUp
  <1>16. CASE PowerRetries
    BY <1>16 DEF PowerRetries
  <1>17. CASE PowerOn
    BY <1>17 DEF PowerOn
  <1>18. CASE BootdevPxe
    BY <1>18 DEF BootdevPxe
  <1>19. CASE PowerReset
    BY <1>19 DEF PowerReset
  <1>20. CASE PowerDone
    BY <1>20 DEF PowerDone
  <1>21. CASE Idle
    BY <1>21 DEF Idle
  <1> QED
    BY <1>0, <1>1, <1>2, <1>3, <1>4, <1>5, <1>6, <1>7, <1>8, <1>9, <1>10, <1>11,
       <1>12, <1>13, <1>14, <1>15, <1>16, <1>17, <1>18, <1>19, <1>20, <1>21
       DEF Next, Shell, Client, Deck, Job

-----------------------------------------------------------------------------
(* Where the power script is. *)

LEMMA Suffix ==
    ASSUME NEW k \in 1..(Len(Order) + 1)
    PROVE  LET s == SubSeq(Order, k, Len(Order))
           IN  /\ k = 1 => s = Order
               /\ s # <<>> => /\ k \in 1..Len(Order)
                              /\ Head(s) = Order[k]
                              /\ Tail(s) = SubSeq(Order, k + 1, Len(Order))
  <1>1. Order \in Seq(Host)
    BY OrderTyped
  <1> QED
    BY <1>1

LEMMA Prefix ==
    ASSUME NEW k \in Nat \ {0}
    PROVE  {Order[j] : j \in 1..k} = {Order[j] : j \in 1..(k - 1)} \union {Order[k]}
  <1>1. 1..k = 1..(k - 1) \union {k}
    OBVIOUS
  <1> QED
    BY <1>1

LEMMA FirstPosition ==
    /\ SubSeq(Order, 1, Len(Order)) = Order
    /\ {Order[j] : j \in 1..(1 - 1)} = {}
    /\ 1 \in 1..(Len(Order) + 1)
  <1>1. 1 \in 1..(Len(Order) + 1)
    BY OrderTyped
  <1>2. SubSeq(Order, 1, Len(Order)) = Order
    BY <1>1, Suffix
  <1> QED
    BY <1>1, <1>2

LEMMA PowerKept ==
    ASSUME TypeOK, Power, Status, [Next]_vars
    PROVE  Power'
  <1> USE DEF vars, clientVars, jobVars, editVars, powerVars, Commands
  <1>0. ASSUME UNCHANGED <<job, rest, powerVars>> PROVE Power'
    BY <1>0 DEF Power, At
  <1>1. ASSUME NEW h \in Host, WriteSystem(h) PROVE Power'
    BY <1>0, <1>1 DEF WriteSystem
  <1>2. CASE Refuse \/ KeepStatus \/ Return \/ ClientFails \/ ClientSucceeds \/ DeckAccepts
    BY <1>0, <1>2 DEF Refuse, KeepStatus, Return, ClientFails, ClientSucceeds, DeckAccepts
  <1>3. CASE Begin
    BY <1>3 DEF Begin, Power, Status
  <1>4. CASE SleepOver \/ AddBonding \/ BondingDone \/ RenameNics
    BY <1>4 DEF SleepOver, AddBonding, BondingDone, RenameNics, Power
  <1>5. CASE RenameRaises \/ CobblerSync
    <2>1. reset' = {} /\ pxe' = {} /\ rest' = Order /\ job' \in {"done", "failed", "power_on"}
      BY <1>5 DEF RenameRaises, CobblerSync, RebootHosts, Power
    <2>2. (At(1))'
      BY <2>1, FirstPosition DEF At
    <2> QED
      BY <2>1, <2>2, FirstPosition DEF Power
  <1>6. CASE PowerGivesUp \/ PowerRetries \/ PowerOn \/ PowerDone
    <2>1. PICK k \in 1..(Len(Order) + 1) : At(k)
      BY <1>6 DEF PowerGivesUp, PowerRetries, PowerOn, PowerDone, Power
    <2>2. (At(k))'
      BY <1>6, <2>1 DEF PowerGivesUp, PowerRetries, PowerOn, PowerDone, At
    <2> QED
      BY <1>6, <2>2 DEF PowerGivesUp, PowerRetries, PowerOn, PowerDone, Power
  <1>7. CASE BootdevPxe
    <2>1. PICK k \in 1..(Len(Order) + 1) : At(k)
      BY <1>7 DEF BootdevPxe, Power
    <2>2. rest # <<>> /\ pxe = reset
      BY <1>7, <2>1 DEF BootdevPxe, Power, At
    <2>3. k \in 1..Len(Order) /\ Head(rest) = Order[k]
      BY <2>1, <2>2, Suffix DEF At
    <2>4. (At(k))'
      <3>1. k <= Len(Order)
        BY <2>3, OrderTyped
      <3>2. pxe' = reset \union {Order[k]}
        BY <1>7, <2>2, <2>3 DEF BootdevPxe
      <3>3. job' = "power_reset" /\ UNCHANGED <<rest, reset>>
        BY <1>7 DEF BootdevPxe
      <3> QED
        BY <2>1, <3>1, <3>2, <3>3 DEF At
    <2> QED
      BY <1>7, <2>2, <2>4 DEF BootdevPxe, Power
  <1>8. CASE PowerReset
    <2>1. PICK k \in 1..(Len(Order) + 1) : At(k)
      BY <1>8 DEF PowerReset, Power
    <2>2. rest # <<>> /\ Head(rest) \in pxe
      BY <1>8 DEF PowerReset, Power
    <2>3. /\ k \in 1..Len(Order)
          /\ Head(rest) = Order[k]
          /\ Tail(rest) = SubSeq(Order, k + 1, Len(Order))
      BY <2>1, <2>2, Suffix DEF At
    <2>4. reset' = {Order[j] : j \in 1..((k + 1) - 1)}
      <3>1. k \in Nat \ {0} /\ (k + 1) - 1 = k
        BY <2>3
      <3> QED
        BY <1>8, <2>1, <2>3, <3>1, Prefix DEF PowerReset, At
    <2>5. pxe' = reset'
      BY <1>8, <2>1, <2>2, <2>3 DEF PowerReset, At
    <2>6. rest' = SubSeq(Order, k + 1, Len(Order))
      BY <1>8, <2>3 DEF PowerReset
    <2>7. (At(k + 1))'
      BY <2>4, <2>5, <2>6 DEF At
    <2>8. k + 1 \in 1..(Len(Order) + 1)
      BY <2>3, OrderTyped
    <2> QED
      BY <1>8, <2>7, <2>8 DEF PowerReset, Power
  <1>9. CASE Idle \/ UNCHANGED vars
    BY <1>0, <1>9 DEF Idle
  <1> QED
    BY <1>1, <1>2, <1>3, <1>4, <1>5, <1>6, <1>7, <1>8, <1>9
       DEF Next, Shell, Client, Deck, Job

-----------------------------------------------------------------------------

LEMMA InitInv == Init => IInv
  <1> SUFFICES ASSUME Init PROVE IInv
    OBVIOUS
  <1>1. TypeOK
    <2>1. rest \in Seq(Host) /\ attempt \in 1..Tries
      BY TriesTyped DEF Init
    <2> QED
      BY <2>1 DEF Init, TypeOK, Commands
  <1>2. Power
    BY DEF Init, Power, Commands
  <1>3. Status
    BY DEF Init, Status
  <1> QED
    BY <1>1, <1>2, <1>3 DEF IInv

\* The position of the power script, the types and the course of the status are kept by
\* every step of the shell, the client, the deck and the background job.
THEOREM DeployHostInvariant == Spec => []IInv
  <1>1. IInv /\ [Next]_vars => IInv'
    BY TypesKept, PowerKept, StatusKept DEF IInv
  <1> QED
    BY InitInv, <1>1, PTL DEF Spec

\* The variables of deploy_host.sh and its background job have their types; cobbler's
\* edits are of systems it has.
THEOREM DeployHostTypes == Spec => []TypeOK
  BY DeployHostInvariant, PTL DEF IInv

\* No host is reset that was not told to boot from the network (ipmitool.tmpl).
THEOREM ResetsArePrepared == Spec => []ResetPrepared
  <1>1. IInv => ResetPrepared
    BY DEF IInv, TypeOK, Power, At, ResetPrepared, Commands
  <1> QED
    BY <1>1, DeployHostInvariant, PTL

\* The hosts are touched in the order of the DHA file, each after all the ones before it
\* were reset (the loop of ipmitool.tmpl and its exit 1).
THEOREM ResetsAreInOrder == Spec => []ResetInOrder
  <1>1. IInv => ResetInOrder
    <2> SUFFICES ASSUME IInv, NEW j \in DOMAIN Order, NEW k \in DOMAIN Order, j < k,
                        Order[k] \in pxe \union reset
                 PROVE  Order[j] \in reset
      BY DEF ResetInOrder
    <2>1. job \in Commands \union {"done", "failed"}
      BY DEF IInv, Power
    <2>2. PICK p \in 1..(Len(Order) + 1) : At(p)
      BY <2>1 DEF IInv, Power
    <2>3. DOMAIN Order = 1..Len(Order) /\ Len(Order) \in Nat
      BY OrderTyped
    <2>4. PICK i \in 1..p : i \in DOMAIN Order /\ Order[k] = Order[i]
      <3>1. CASE pxe = reset
        BY <2>2, <2>3, <3>1 DEF At
      <3>2. CASE p <= Len(Order) /\ pxe = reset \union {Order[p]}
        <4>1. p \in 1..p /\ p \in DOMAIN Order
          BY <2>3, <3>2
        <4>2. Order[k] \in reset \/ Order[k] = Order[p]
          BY <3>2
        <4>3. Order[k] \in reset => \E i \in 1..p : i \in DOMAIN Order /\ Order[k] = Order[i]
          <5>1. reset = {Order[q] : q \in 1..(p - 1)}
            BY <2>2 DEF At
          <5>2. \A q \in 1..(p - 1) : q \in 1..p /\ q \in DOMAIN Order
            BY <2>3
          <5> QED
            BY <5>1, <5>2
        <4> QED
          BY <4>1, <4>2, <4>3
      <3> QED
        BY <2>2, <3>1, <3>2 DEF At
    <2>5. k = i
      BY <2>4, DeployHostAssumption DEF IsInjective
    <2>6. j \in 1..(p - 1)
      BY <2>3, <2>4, <2>5
    <2> QED
      BY <2>2, <2>6 DEF At
  <1> QED
    BY <1>1, DeployHostInvariant, PTL

\* deploy_host returns the status the client ended with (RET, deploy_host.sh).
THEOREM StatusIsTheClients == Spec => []StatusIsClients
  <1>1. IInv => StatusIsClients
    BY DEF IInv, Status, StatusIsClients
  <1> QED
    BY <1>1, DeployHostInvariant, PTL

-----------------------------------------------------------------------------
(* Why the background job ends: a bound on the steps it has left.            *)

\* The hosts the job still handles in its state; those of the DHA file, and of the bonds.
ToDo == Len(rest)
Listed == Len(Order)
Bonded == Len(Bonds)

\* The attempts at the three commands of 'r' hosts.
Attempts(r) == r * (3 * Tries)

\* Those of the power script, before its first step.
PowerSteps == Attempts(Listed) + Tries

JobLeft ==
    CASE job = "none"        -> Bonded + Listed + PowerSteps + 4
      [] job = "sleep"       -> Bonded + Listed + PowerSteps + 3
      [] job = "bond"        -> ToDo + Listed + PowerSteps + 2
      [] job = "rename"      -> ToDo + PowerSteps + 1
      [] job = "power_on"    -> Attempts(ToDo) + (Tries - attempt) + 1
      [] job = "bootdev_pxe" -> Attempts(ToDo) + (Tries - attempt) + 1 - Tries
      [] job = "power_reset" -> Attempts(ToDo) + (Tries - attempt) + 1 - 2 * Tries
      [] OTHER               -> 0

LEMMA AttemptsOf ==
    /\ Tries \in Nat /\ Tries # 0
    /\ \A r \in Nat : Attempts(r) \in Nat
    /\ \A r \in Nat \ {0} : Attempts(r) = Attempts(r - 1) + 3 * Tries
  <1>1. Tries \in Nat /\ Tries # 0 /\ 3 * Tries \in Nat
    BY DeployHostAssumption
  <1>2. \A r, b \in Nat : r * b \in Nat
    OBVIOUS
  <1>3. \A r, b \in Nat : r # 0 => r * b = (r - 1) * b + b
    OBVIOUS
  <1>4. \A r \in Nat \ {0} : r * (3 * Tries) = (r - 1) * (3 * Tries) + 3 * Tries
    BY <1>1, <1>3
  <1> QED
    BY <1>1, <1>2, <1>4 DEF Attempts

LEMMA Lengths ==
    ASSUME IInv
    PROVE  /\ ToDo \in Nat /\ Listed \in Nat /\ Bonded \in Nat
           /\ attempt \in Nat /\ attempt # 0 /\ attempt <= Tries
           /\ job \in {"power_reset", "bootdev_pxe"} => ToDo # 0
           /\ PowerSteps \in Nat
           /\ ToDo # 0 => /\ Attempts(ToDo) = Attempts(ToDo - 1) + 3 * Tries
                          /\ Attempts(ToDo - 1) \in Nat
           /\ Attempts(ToDo) \in Nat
  <1>1. rest \in Seq(Host) /\ attempt \in 1..Tries
    BY DEF IInv, TypeOK
  <1>2. ToDo \in Nat /\ (rest # <<>> => ToDo # 0)
    BY <1>1 DEF ToDo
  <1>3. Listed \in Nat /\ Bonded \in Nat
    BY OrderTyped DEF Listed, Bonded
  <1>4. job \in {"power_reset", "bootdev_pxe"} => rest # <<>>
    BY DEF IInv, Power
  <1>5. PowerSteps \in Nat
    BY <1>3, AttemptsOf DEF PowerSteps
  <1>6. attempt \in Nat /\ attempt # 0 /\ attempt <= Tries
    BY <1>1, AttemptsOf
  <1>7. \A r \in Nat : r # 0 => r - 1 \in Nat
    OBVIOUS
  <1> QED
    BY <1>2, <1>3, <1>4, <1>5, <1>6, <1>7, AttemptsOf

\* The loops over hosts end: handling one leaves one less.
LEMMA RestShrinks ==
    ASSUME IInv, rest # <<>>, rest' = Tail(rest)
    PROVE  ToDo # 0 /\ ToDo' = ToDo - 1
  <1>1. rest \in Seq(Host)
    BY DEF IInv, TypeOK
  <1> QED
    BY <1>1 DEF ToDo

LEMMA JobIsCounted ==
    ASSUME IInv
    PROVE  JobLeft \in Nat /\ (JobLeft = 0 <=> JobOver)
  <1>1. job \in Commands \union {"none", "sleep", "bond", "rename", "done", "failed"}
    BY DEF IInv, TypeOK
  <1>2. CASE job \in {"none", "sleep", "bond", "rename", "done", "failed"}
    BY <1>2, Lengths DEF JobLeft, JobOver
  <1>3. CASE job \in Commands
    BY <1>3, Lengths, AttemptsOf DEF JobLeft, JobOver, Commands
  <1> QED
    BY <1>1, <1>2, <1>3

LEMMA JobCountsDown ==
    ASSUME IInv, Job \/ Begin
    PROVE  JobLeft' < JobLeft
  <1>1. Tries \in Nat /\ Tries # 0
    BY AttemptsOf
  <1> USE Lengths, <1>1
  <1>2. PowerSteps' = PowerSteps /\ Listed' = Listed /\ Bonded' = Bonded
    BY DEF PowerSteps, Attempts, Listed, Bonded
  <1>4. CASE Begin \/ SleepOver \/ BondingDone
    <2>1. \/ job = "sleep" /\ job' = "bond" /\ ToDo' = Bonded
          \/ job = "bond" /\ job' = "rename" /\ ToDo' = Listed
          \/ job = "none" /\ job' = "sleep"
      BY <1>4 DEF Begin, SleepOver, BondingDone, IInv, Status, ToDo, Listed, Bonded
    <2> QED
      BY <1>2, <2>1 DEF JobLeft
  <1>5. CASE AddBonding \/ RenameNics
    <2>1. job \in {"bond", "rename"} /\ job' = job /\ rest # <<>> /\ rest' = Tail(rest)
      BY <1>5 DEF AddBonding, RenameNics
    <2>2. ToDo' = ToDo - 1
      BY <2>1, RestShrinks
    <2>3. ToDo # 0
      BY <2>1, RestShrinks
    <2>4. /\ job = "bond" => /\ JobLeft = ToDo + Listed + PowerSteps + 2
                             /\ JobLeft' = ToDo' + Listed + PowerSteps + 2
          /\ job = "rename" => /\ JobLeft = ToDo + PowerSteps + 1
                               /\ JobLeft' = ToDo' + PowerSteps + 1
      BY <1>2, <2>1 DEF JobLeft
    <2> QED
      BY <2>1, <2>2, <2>3, <2>4, SMTT(30)
  <1>6. CASE RenameRaises \/ CobblerSync
    <2>1. /\ job = "rename" /\ job' \in {"power_on", "done", "failed"}
          /\ ToDo' = Listed /\ attempt' = attempt
      BY <1>6 DEF RenameRaises, CobblerSync, RebootHosts, ToDo, Listed
    <2>2. JobLeft = ToDo + PowerSteps + 1
      BY <2>1 DEF JobLeft
    <2>3. job' = "power_on" => JobLeft' = Attempts(Listed) + (Tries - attempt) + 1
      BY <2>1 DEF JobLeft, Attempts
    <2>4. job' # "power_on" => JobLeft' = 0
      BY <2>1 DEF JobLeft
    <2>5. Attempts(Listed) \in Nat /\ PowerSteps = Attempts(Listed) + Tries
      BY AttemptsOf DEF PowerSteps
    <2> QED
      BY <2>2, <2>3, <2>4, <2>5
  <1>7. CASE PowerGivesUp \/ PowerDone
    <2>1. JobLeft' = 0
      BY <1>7 DEF PowerGivesUp, PowerDone, JobLeft
    <2>2. JobLeft \in Nat /\ JobLeft # 0
      BY <1>7, JobIsCounted DEF PowerGivesUp, PowerDone, JobOver, Commands
    <2> QED
      BY <2>1, <2>2
  <1>8. CASE PowerRetries
    <2>1. /\ job \in Commands /\ job' = job
          /\ ToDo' = ToDo /\ attempt' = attempt + 1
      BY <1>8 DEF PowerRetries, ToDo
    <2>2. Attempts(ToDo)' = Attempts(ToDo)
      BY <2>1 DEF Attempts
    <2> QED
      BY <2>1, <2>2 DEF JobLeft, Commands
  <1>9. CASE PowerOn \/ BootdevPxe
    <2>1. /\ \/ job = "power_on" /\ job' = "bootdev_pxe"
             \/ job = "bootdev_pxe" /\ job' = "power_reset"
          /\ ToDo' = ToDo /\ attempt' = 1
      BY <1>9 DEF PowerOn, BootdevPxe, ToDo
    <2>2. Attempts(ToDo)' = Attempts(ToDo)
      BY <2>1 DEF Attempts
    <2> QED
      BY <2>1, <2>2 DEF JobLeft
  <1>10. CASE PowerReset
    <2>1. job = "power_reset" /\ job' = "power_on" /\ rest' = Tail(rest) /\ attempt' = 1
      BY <1>10 DEF PowerReset
    <2>2. rest # <<>>
      BY <2>1 DEF IInv, Power
    <2>3. ToDo # 0 /\ ToDo' = ToDo - 1
      BY <2>1, <2>2, RestShrinks
    <2>4. JobLeft' = Attempts(ToDo - 1) + (Tries - 1) + 1
      BY <2>1, <2>3 DEF JobLeft, Attempts
    <2>5. JobLeft = Attempts(ToDo) + (Tries - attempt) + 1 - 2 * Tries
      BY <2>1 DEF JobLeft
    <2> QED
      BY <2>3, <2>4, <2>5
  <1> QED
    BY <1>4, <1>5, <1>6, <1>7, <1>8, <1>9, <1>10 DEF Job

\* Every step of the background job brings it nearer to its end, whatever the client,
\* the deck and the ipmitool commands do; nobody else prolongs it.  (BothEnd of the
\* job is this and its fairness.)
THEOREM JobGetsOn ==
    Spec => [][ /\ Job => JobLeft' < JobLeft
                /\ JobLeft' <= JobLeft ]_vars
  <1>0. IInv => JobLeft \in Nat
    BY JobIsCounted
  <1>1. IInv' => (JobLeft \in Nat)'
    BY <1>0, PTL
  <1>2. IInv /\ IInv' /\ [Next]_vars =>
            [ /\ Job => JobLeft' < JobLeft
              /\ JobLeft' <= JobLeft ]_vars
    <2>1. ASSUME IInv, IInv', Job \/ Begin
          PROVE  JobLeft' < JobLeft /\ JobLeft' <= JobLeft
      <3>1. JobLeft' < JobLeft
        BY <2>1, JobCountsDown
      <3>2. JobLeft \in Nat
        BY <2>1, JobIsCounted
      <3>3. JobLeft' \in Nat
        BY <2>1, <1>1
      <3> QED
        BY <3>1, <3>2, <3>3
    <2>2. ASSUME IInv, Next, ~ Job, ~ Begin
          PROVE  JobLeft' <= JobLeft
      <3>1. UNCHANGED <<job, rest, attempt>>
        BY <2>2
        DEF Next, Shell, Client, Deck, Refuse, KeepStatus, Return, ClientFails, ClientSucceeds,
            DeckAccepts, WriteSystem, Idle, vars, jobVars
      <3>2. JobLeft' = JobLeft
        BY <3>1 DEF JobLeft, Attempts, PowerSteps, ToDo, Listed, Bonded
      <3>3. JobLeft \in Nat
        BY <2>2, JobIsCounted
      <3> QED
        BY <3>2, <3>3
    <2> QED
      BY <2>1, <2>2
  <1> QED
    BY <1>2, DeployHostInvariant, PTL DEF Spec

\* The bound is a number, and zero exactly when the job is over.
THEOREM JobLeftIsBound == Spec => [](JobLeft \in Nat /\ (JobLeft = 0 <=> JobOver))
  <1>1. IInv => JobLeft \in Nat /\ (JobLeft = 0 <=> JobOver)
    BY JobIsCounted
  <1> QED
    BY <1>1, DeployHostInvariant, PTL
=============================================================================
