----------------------------- MODULE LaunchProofs ------------------------------
(***************************************************************************)
(* What a run of deploy.sh promises, for every set of options and every    *)
(* number of runs.  The inductive invariant has one part for the types,    *)
(* one for what has been checked before each stage, one for the order of   *)
(* what config_parse writes, two for the addresses of virtual machines,    *)
(* one for the jump host's network, and, for each file of its package      *)
(* managers, one for where it is while a list of moves is under way: at    *)
(* its place, hidden beside it, or replaced.                               *)
(***************************************************************************)
EXTENDS Launch, TLAPS

AfterParse == {"machines", "compass", "nets", "add", "vms", "hosts", "done"}
AfterMachines == {"compass", "nets", "add", "vms", "hosts", "done"}

Checked ==
    /\ pc \in AfterParse \union {"parse", "recover"} => opt.valid
    /\ pc \in AfterParse => ~ opt.recovery
    /\ pc \in AfterMachines => "dha" \in config
    /\ pc \in {"compass", "nets"} => ~ opt.expansion
    /\ pc \in {"prepare", "check", "parse", "recover", "machines"} => ~ harmed
    /\ HarmIsChecked

\* HOST_NETWORKS is written after the machines and the install network.
Ordered == "hosts" \in config => {"dha", "install", "hosts"} \subseteq config

Deployed ==
    /\ {"dha", "install", "hosts"} \subseteq config
    /\ listed \in deck
    /\ opt.virtual => listed = run /\ vm[Name].defined /\ vm[Name].mac = run

\* A machine that was not torn down has an address of an earlier run, and so has one
\* that only its process is left of: what has this run's was defined by this run.
Fresh ==
    /\ \A n \in Names : There(vm[n]) => vm[n].mac <= run
    /\ \A n \in Names : vm[n].up /\ ~ vm[n].defined => vm[n].mac < run
    /\ Running /\ pc \notin {"hosts", "done"} =>
         \A n \in Names : There(vm[n]) => vm[n].mac < run

\* The machine the client waits for has the address of this run.
Addressed ==
    /\ Running => verdict = "none"
    /\ opt.virtual /\ pc \in AfterParse /\ "dha" \in config => listed = run
    /\ pc = "done" \/ verdict = "success" =>
         (opt.host \/ opt.redeploy => Deployed)

\* Until the flush the address is where it was, from then on it is noted.
Moving ==
    /\ moving # "no" => pc = "nets"
    /\ ~ netBroken =>
         /\ moving \in {"no", "flush"} => address = {route} /\ (~ bridge => route = "nic")
         /\ moving = "flush" => route = "nic"
         /\ moving # "no" => bridge /\ info.address /\ info.route
         /\ moving \in {"address", "route"} => route = "none"
         /\ moving = "address" => address = {}
         /\ moving = "route" => address = {"bridge"}

\* What may be done to the directory is to move it away and back.
ListSafe ==
    /\ ListKept
    /\ \A i \in DOMAIN steps :
         steps[i].file = ListDir => steps[i].do \in {"need", "hide", "install", "back"}

\* What a run without network has still to do is the end of the list of all steps.
AllSteps == EnvSteps \o PipSteps
Left == Len(steps)
Following ==
    /\ Left \in 0..17
    /\ pc # "prepare" => steps = <<>>
    /\ \A i \in 1..Left : steps[i] = AllSteps[17 - Left + i]

InPlace(f) == conf[f] = found[f] /\ bak[f] = "none"
Hidden(f) == conf[f] = "none" /\ bak[f] = found[f]
Replaced(f) == conf[f] = "ours" /\ bak[f] = found[f]

\* As long as no run has been cut, the number of steps left tells where each file is.
ListWhere ==
    /\ Left \in 6..15 => Hidden(ListDir)
    /\ Left \notin 6..15 => InPlace(ListDir)
AptWhere ==
    /\ Left \in {7, 14} => Hidden(AptConf)
    /\ Left \in 8..13 => Replaced(AptConf)
    /\ Left \notin 7..14 => InPlace(AptConf)
SourcesWhere ==
    /\ Left \in {9, 12} => Hidden(Sources)
    /\ Left \in {10, 11} => Replaced(Sources)
    /\ Left \notin 9..12 => InPlace(Sources)
PipWhere ==
    /\ Left \in {3, 4} => Hidden(PipConf)
    /\ Left \in {1, 2} => Replaced(PipConf)
    /\ Left \notin 1..4 => InPlace(PipConf)

Uncut == ~ cut => ListWhere /\ AptWhere /\ SourcesWhere /\ PipWhere

\* A first run without network has every step before it, and once it has moved
\* sources.list.d back it does not touch it again, whatever cut runs had left.
ListBack ==
    pc # "off" /\ opt.first /\ opt.offline /\ Left <= 5 => conf[ListDir] = "own"

IInv ==
    /\ TypeOK /\ Checked /\ Ordered /\ Fresh /\ Addressed /\ Moving /\ ListSafe
    /\ Following /\ Uncut /\ ListBack

-----------------------------------------------------------------------------
(* Types. *)

LEMMA StepsTyped ==
    /\ EnvSteps \o PipSteps \in Seq([do : Deeds, file : File])
    /\ PipSteps \in Seq([do : Deeds, file : File])
  <1> DEFINE S == [do : Deeds, file : File]
  <1>1. \A d \in Deeds, f \in File : Step(d, f) \in S
    BY DEF Step
  <1>2. /\ {"need", "hide", "write", "install", "drop", "back", "pip", "restore"} \subseteq Deeds
        /\ {ListDir, AptConf, Sources, PipConf} \subseteq File
    BY DEF Deeds, File
  <1> HIDE DEF S
  <1>3. EnvSteps \in Seq(S)
    BY <1>1, <1>2 DEF EnvSteps
  <1>4. PipSteps \in Seq(S)
    BY <1>1, <1>2 DEF PipSteps
  <1> QED
    BY <1>3, <1>4 DEF S

LEMMA PackageStepTyped ==
    ASSUME PackagesTypeOK, PackageStep
    PROVE  PackagesTypeOK'
  <1>1. steps \in Seq([do : Deeds, file : File]) /\ steps # <<>>
    BY DEF PackagesTypeOK, PackageStep
  <1>2. At \in File /\ steps' \in Seq([do : Deeds, file : File])
    <2> DEFINE S == [do : Deeds, file : File]
    <2> HIDE DEF S
    <2>1. steps \in Seq(S) /\ steps # <<>>
      BY <1>1 DEF S
    <2>2. Head(steps) \in S /\ Tail(steps) \in Seq(S)
      BY <2>1
    <2> QED
      BY <2>2 DEF S, At, PackageStep
  <1>3. conf' \in [File -> {"own", "ours", "none"}] /\ bak' \in [File -> {"own", "ours", "none"}]
    BY <1>2 DEF PackagesTypeOK, PackageStep, Moved
  <1> QED
    BY <1>2, <1>3 DEF PackagesTypeOK, PackageStep

LEMMA PackagesEndTyped ==
    ASSUME PackagesTypeOK, PackagesEnd
    PROVE  PackagesTypeOK'
  BY DEF PackagesTypeOK, PackagesEnd

LEMMA PackagesStill ==
    ASSUME PackagesTypeOK, UNCHANGED packageVars
    PROVE  PackagesTypeOK'
  BY DEF PackagesTypeOK, packageVars

LEMMA BeforeTyped ==
    ASSUME NEW part
    PROVE  Before(part) \subseteq ToSet(Parts)
  BY DEF Before, ToSet

\* What was written before it raised is a beginning of the list of parts.
LEMMA BeforeOrdered ==
    ASSUME NEW part, "hosts" \in Before(part)
    PROVE  {"dha", "install", "hosts"} \subseteq Before(part)
  <1>1. /\ DOMAIN Parts = 1..4
        /\ Parts[1] = "dha" /\ Parts[2] = "install" /\ Parts[3] = "hosts" /\ Parts[4] = "reset"
    BY DEF Parts
  <1>2. PICK i \in 1..4 : Parts[i] = "hosts" /\ \A j \in 1..i : Parts[j] # part
    BY <1>1 DEF Before
  <1>3. i = 3
    BY <1>1, <1>2
  <1>4. \A k \in 1..3 : Parts[k] \in Before(part)
    BY <1>1, <1>2, <1>3 DEF Before
  <1> QED
    BY <1>1, <1>4

LEMMA OptionTyped ==
    ASSUME NEW o \in Options
    PROVE  o \in [first : BOOLEAN, recovery : BOOLEAN, expansion : BOOLEAN, compass : BOOLEAN,
                  host : BOOLEAN, redeploy : BOOLEAN, virtual : BOOLEAN, offline : BOOLEAN,
                  nat : BOOLEAN, valid : BOOLEAN,
                  stopsAt : {"dha", "install", "hosts", "reset", "none"}]
  BY LaunchAssumption

LEMMA NotedIs ==
    /\ Noted.address <=> route \in address
    /\ Noted.route <=> route # "none"
    /\ Noted \in [address : BOOLEAN, route : BOOLEAN]
  <1>1. (route \in address) \in BOOLEAN /\ (route # "none") \in BOOLEAN
    OBVIOUS
  <1>2. ASSUME NEW a \in BOOLEAN, NEW r \in BOOLEAN
        PROVE  /\ [address |-> a, route |-> r].address = a
               /\ [address |-> a, route |-> r].route = r
               /\ [address |-> a, route |-> r] \in [address : BOOLEAN, route : BOOLEAN]
    OBVIOUS
  <1>3. /\ Noted.address = (route \in address)
        /\ Noted.route = (route # "none")
        /\ Noted \in [address : BOOLEAN, route : BOOLEAN]
    BY <1>1, <1>2 DEF Noted
  <1> QED
    BY <1>3

-----------------------------------------------------------------------------
(* Each part is kept by every step. *)

LEMMA TypesKept ==
    ASSUME TypeOK, [Next]_vars
    PROVE  TypeOK'
  <1> USE DEF Goto, Fails, Exit, Ends, Running, vars, launchVars, fileVars, worldVars,
              packageVars, networkVars, TypeOK, NetworkTypeOK, Names, Name
  <1>0. CASE UNCHANGED vars
    BY <1>0, PackagesStill
  <1>1. ASSUME NEW o \in Options, Start(o) PROVE TypeOK'
    <2>1. PackagesTypeOK'
      <3>1. steps' \in {<<>>, PipSteps, EnvSteps \o PipSteps}
        BY <1>1 DEF Start
      <3>2. <<>> \in Seq([do : Deeds, file : File])
        OBVIOUS
      <3>3. steps' \in Seq([do : Deeds, file : File])
        BY <3>1, <3>2, StepsTyped
      <3> QED
        BY <1>1, <3>3 DEF Start, PackagesTypeOK
    <2>2. run' \in 0..MaxRuns
      BY <1>1, LaunchAssumption DEF Start
    <2> QED
      BY <1>1, <2>1, <2>2 DEF Start
  <1>2. CASE Prepare
    BY <1>2, PackageStepTyped DEF Prepare
  <1>3. CASE PrepareExits
    BY <1>3, PackagesEndTyped DEF PrepareExits
  <1>4. CASE Prepared
    BY <1>4, PackagesStill DEF Prepared
  <1>5. CASE CheckInput
    <2>1. /\ pc' \in {"parse", "off"} /\ verdict' \in {verdict, "failure"}
          /\ UNCHANGED <<run, opt, machineFile, fileVars, worldVars, packageVars, networkVars>>
      BY <1>5 DEF CheckInput
    <2>2. PackagesTypeOK'
      BY <2>1, PackagesStill
    <2> QED
      BY <2>1, <2>2
  <1>6. CASE ConfigParse
    <2>1. listed' \in Addresses
      BY <1>6, LaunchAssumption DEF ConfigParse, Addresses
    <2>2. config' \subseteq ToSet(Parts)
      BY <1>6, BeforeTyped DEF ConfigParse
    <2>3. /\ pc' \in {"recover", "machines"} /\ verdict' = verdict
          /\ UNCHANGED <<run, opt, machineFile, worldVars, packageVars, networkVars>>
      BY <1>6 DEF ConfigParse
    <2>4. PackagesTypeOK'
      BY <2>3, PackagesStill
    <2> QED
      BY <2>1, <2>2, <2>3, <2>4
  <1>7. CASE Recover
    BY <1>7, PackagesStill DEF Recover
  <1>8. CASE NoMachines
    BY <1>8, PackagesStill DEF NoMachines
  <1>9. CASE GetMachines
    <2> DEFINE Vm == [defined : BOOLEAN, mac : Addresses, up : BOOLEAN]
    <2>1. NoVm \in Vm
      BY LaunchAssumption DEF NoVm, Addresses
    <2>2. Name \in Names
      OBVIOUS
    <2>3. \A v \in Vm : TornDown(v) \subseteq Vm
      BY <2>1 DEF TornDown
    <2>4. vm' = vm \/ \E v \in TornDown(vm[Name]) : vm' = [vm EXCEPT ![Name] = v]
      BY <1>9 DEF GetMachines, TearDown
    <2>5. vm' \in [Names -> Vm]
      <3> HIDE DEF Names, Name, Vm
      <3>1. vm \in [Names -> Vm]
        BY DEF Vm
      <3> QED
        BY <2>2, <2>3, <2>4, <3>1
    <2>6. harmed' \in BOOLEAN /\ machineFile' \in BOOLEAN /\ pc' \in {"add", "compass"}
      BY <1>9 DEF GetMachines, TearDown
    <2> QED
      BY <1>9, <2>5, <2>6, PackagesStill DEF GetMachines
  <1>10. CASE KeepCompass
    BY <1>10, PackagesStill DEF KeepCompass
  <1>11. CASE RefreshCompass
    BY <1>11, PackagesStill DEF RefreshCompass
  <1>12. CASE SetUpNets
    <2>1. NetworkTypeOK'
      <3>1. CASE UNCHANGED networkVars
        BY <3>1
      <3>2. CASE SaveNetworkInfo
        BY <3>2, NotedIs DEF SaveNetworkInfo
      <3> QED
        BY <1>12, <3>1, <3>2 DEF SetUpNets
    <2>2. harmed' \in BOOLEAN
      BY <1>12 DEF SetUpNets
    <2>3. /\ pc' = "nets"
          /\ UNCHANGED <<run, opt, verdict, machineFile, fileVars, alive, deck, vm, packageVars>>
      BY <1>12 DEF SetUpNets
    <2>4. PackagesTypeOK'
      BY <2>3, PackagesStill
    <2> QED
      BY <2>1, <2>2, <2>3, <2>4
  <1>13. CASE MoveAddress
    BY <1>13, PackagesStill
    DEF MoveAddress, MoveOn, Flush, FlushWorks, FlushFails, AddAddress, AddRoute
  <1>14. CASE LaunchCompass
    BY <1>14, PackagesStill DEF LaunchCompass
  <1>15. CASE LaunchCompassFails
    BY <1>15, PackagesStill DEF LaunchCompassFails
  <1>16. CASE SetCompassMachine
    BY <1>16, PackagesStill DEF SetCompassMachine
  <1>17. CASE LaunchHostVms
    <2>1. Name \in Names
      OBVIOUS
    <2> DEFINE Vm == [defined : BOOLEAN, mac : Addresses, up : BOOLEAN]
    <2>2. \A v \in Vm : AfterDefine(v) \subseteq Vm
      BY DEF AfterDefine
    <2>3. vm' \in [Names -> Vm]
      <3> HIDE DEF Names, Name, Vm
      <3>1. vm \in [Names -> Vm]
        BY DEF Vm
      <3> QED
        BY <1>17, <2>1, <2>2, <3>1 DEF LaunchHostVms
    <2> QED
      BY <1>17, <2>3, PackagesStill DEF LaunchHostVms
  <1>18. CASE DeployHost
    BY <1>18, PackagesStill DEF DeployHost
  <1>19. CASE DeployHostFails
    BY <1>19, PackagesStill DEF DeployHostFails
  <1>20. CASE Done
    BY <1>20, PackagesStill DEF Done
  <1>21. CASE Kill
    BY <1>21, PackagesEndTyped DEF Kill, NetworkEnd
  <1>22. CASE Reboot
    <2> DEFINE Vm == [defined : BOOLEAN, mac : Addresses, up : BOOLEAN]
    <2>1. NoVm \in Vm
      BY LaunchAssumption DEF NoVm, Addresses
    <2>2. vm' \in [Names -> Vm]
      BY <1>22, <2>1 DEF Reboot
    <2> QED
      BY <1>22, <2>2, PackagesStill DEF Reboot, NetworkReboot
  <1>23. CASE Idle
    BY <1>23, PackagesStill DEF Idle
  <1> QED
    BY <1>0, <1>1, <1>2, <1>3, <1>4, <1>5, <1>6, <1>7, <1>8, <1>9, <1>10, <1>11, <1>12,
           <1>13, <1>14, <1>15, <1>16, <1>17, <1>18, <1>19, <1>20, <1>21, <1>22,
           <1>23 DEF Next, Script

LEMMA ChecksKept ==
    ASSUME TypeOK, Checked, [Next]_vars
    PROVE  Checked'
  <1> USE DEF Goto, Fails, Exit, Ends, Running, vars, launchVars, fileVars, worldVars,
              packageVars, networkVars, TypeOK, Checked, HarmIsChecked, AfterParse,
              AfterMachines
  <1>0. CASE UNCHANGED vars
    BY <1>0
  <1>1. ASSUME NEW o \in Options, Start(o) PROVE Checked'
    BY <1>1 DEF Start
  <1>2. CASE Prepare
    BY <1>2 DEF Prepare
  <1>3. CASE PrepareExits
    BY <1>3 DEF PrepareExits
  <1>4. CASE Prepared
    BY <1>4 DEF Prepared
  <1>5. CASE CheckInput
    BY <1>5 DEF CheckInput
  <1>6. CASE ConfigParse
    BY <1>6 DEF ConfigParse
  <1>7. CASE Recover
    BY <1>7 DEF Recover
  <1>8. CASE NoMachines
    BY <1>8 DEF NoMachines
  <1>9. CASE GetMachines
    BY <1>9 DEF GetMachines, TearDown
  <1>10. CASE KeepCompass
    BY <1>10 DEF KeepCompass
  <1>11. CASE RefreshCompass
    BY <1>11 DEF RefreshCompass
  <1>12. CASE SetUpNets
    BY <1>12 DEF SetUpNets
  <1>13. CASE MoveAddress
    BY <1>13 DEF MoveAddress
  <1>14. CASE LaunchCompass
    BY <1>14 DEF LaunchCompass
  <1>15. CASE LaunchCompassFails
    BY <1>15 DEF LaunchCompassFails
  <1>16. CASE SetCompassMachine
    BY <1>16 DEF SetCompassMachine
  <1>17. CASE LaunchHostVms
    BY <1>17 DEF LaunchHostVms
  <1>18. CASE DeployHost
    BY <1>18 DEF DeployHost
  <1>19. CASE DeployHostFails
    BY <1>19 DEF DeployHostFails
  <1>20. CASE Done
    BY <1>20 DEF Done
  <1>21. CASE Kill
    BY <1>21 DEF Kill
  <1>22. CASE Reboot
    BY <1>22 DEF Reboot
  <1>23. CASE Idle
    BY <1>23 DEF Idle
  <1> QED
    BY <1>0, <1>1, <1>2, <1>3, <1>4, <1>5, <1>6, <1>7, <1>8, <1>9, <1>10, <1>11, <1>12,
           <1>13, <1>14, <1>15, <1>16, <1>17, <1>18, <1>19, <1>20, <1>21, <1>22,
           <1>23 DEF Next, Script

LEMMA OrderedKept ==
    ASSUME Ordered, [Next]_vars
    PROVE  Ordered'
  <1> USE DEF Goto, Fails, Exit, Ends, vars, launchVars, fileVars
  <1>1. CASE ConfigParse
    BY <1>1, BeforeOrdered DEF ConfigParse, Ordered
  <1>2. ASSUME NEW o \in Options, Start(o) PROVE Ordered'
    BY <1>2 DEF Start, Ordered
  <1>3. CASE config' = config
    BY <1>3 DEF Ordered
  <1>4. ASSUME ~ ConfigParse, \A o \in Options : ~ Start(o)
        PROVE  config' = config
    BY <1>4 DEF Next, Script, Prepare, PrepareExits, Prepared, CheckInput, Recover, NoMachines,
                GetMachines, KeepCompass, RefreshCompass, SetUpNets, MoveAddress,
                LaunchCompass, LaunchCompassFails, SetCompassMachine, LaunchHostVms,
                DeployHost, DeployHostFails, Done, Kill, Reboot, Idle
  <1> QED
    BY <1>1, <1>2, <1>3, <1>4

\* Machines change in four actions only, and none of them begins a run.
LEMMA MachinesChange ==
    ASSUME [Next]_vars, ~ Recover, ~ GetMachines, ~ LaunchHostVms, ~ Reboot,
           \A o \in Options : ~ Start(o)
    PROVE  /\ UNCHANGED <<vm, run>>
           /\ pc' \notin {"off", "hosts", "done"} => pc \notin {"off", "hosts", "done"}
  <1> USE DEF Goto, Fails, Exit, Ends, Running, vars, launchVars, fileVars, worldVars
  <1> QED
    BY DEF Next, Script, Prepare, PrepareExits, Prepared, CheckInput, ConfigParse, NoMachines,
           KeepCompass, RefreshCompass, SetUpNets, MoveAddress, LaunchCompass,
           LaunchCompassFails, SetCompassMachine, DeployHost, DeployHostFails, Done, Kill, Idle

LEMMA FreshKept ==
    ASSUME TypeOK, Checked, Fresh, Addressed, [Next]_vars
    PROVE  Fresh'
  <1>1. /\ run \in Nat /\ \A n \in Names : vm[n].mac \in Nat
        /\ vm \in [Names -> [defined : BOOLEAN, mac : Addresses, up : BOOLEAN]]
        /\ Name \in Names
    BY LaunchAssumption DEF TypeOK, Addresses, Name, Names
  <1>2. ASSUME NEW o \in Options, Start(o) PROVE Fresh'
    <2>1. run' = run + 1 /\ vm' = vm
      BY <1>2 DEF Start
    <2>2. \A n \in Names : There(vm'[n]) => vm'[n].mac < run'
      BY <1>1, <2>1 DEF Fresh
    <2> QED
      BY <1>1, <2>1, <2>2 DEF Fresh, There
  <1>3. CASE Recover
    <2>1. PICK up \in BOOLEAN : /\ up # vm[Name].up => There(vm[Name])
                               /\ vm' = [vm EXCEPT ![Name].up = up]
      BY <1>3 DEF Recover
    <2>2. \A n \in Names : /\ vm'[n].mac = vm[n].mac /\ vm'[n].defined = vm[n].defined
                           /\ There(vm'[n]) => There(vm[n])
                           /\ vm'[n].up /\ ~ vm'[n].defined => vm[n].up
      BY <1>1, <2>1 DEF There
    <2>3. run' = run /\ pc' = "off"
      BY <1>3 DEF Recover
    <2> QED
      BY <2>2, <2>3 DEF Fresh, Running
  <1>4. CASE GetMachines
    <2>1. run' = run /\ Running /\ pc \notin {"hosts", "done"}
      BY <1>4 DEF GetMachines, Goto, Running
    <2>2. vm' = vm \/ \E v \in TornDown(vm[Name]) : vm' = [vm EXCEPT ![Name] = v]
      BY <1>4 DEF GetMachines, TearDown
    <2>3. \A v \in TornDown(vm[Name]) :
             There(v) => v.mac = vm[Name].mac /\ There(vm[Name])
      BY <1>1 DEF TornDown, There, NoVm
    <2>4. \A n \in Names : There(vm'[n]) => vm'[n].mac = vm[n].mac /\ There(vm[n])
      <3>1. CASE vm' = vm
        BY <3>1
      <3>2. ASSUME NEW v \in TornDown(vm[Name]), vm' = [vm EXCEPT ![Name] = v]
            PROVE  \A n \in Names : There(vm'[n]) => vm'[n].mac = vm[n].mac /\ There(vm[n])
        BY <1>1, <2>3, <3>2
      <3> QED
        BY <2>2, <3>1, <3>2
    <2>5. \A n \in Names : There(vm'[n]) => vm'[n].mac < run'
      BY <2>1, <2>4 DEF Fresh
    <2>6. \A n \in Names : There(vm'[n]) => vm'[n].mac <= run'
      BY <1>1, <2>1, <2>4, <2>5
    <2> QED
      BY <2>5, <2>6 DEF Fresh, There
  <1>5. CASE LaunchHostVms
    <2>1. run' = run /\ pc' = "hosts" /\ Running /\ pc = "vms"
      BY <1>5 DEF LaunchHostVms, Goto, Running
    <2>2. vm' = vm \/ \E v \in AfterDefine(vm[Name]) : vm' = [vm EXCEPT ![Name] = v]
      BY <1>5 DEF LaunchHostVms
    <2>3. vm' # vm => listed = run
      BY <1>5, <2>1 DEF LaunchHostVms, Addressed, Checked, AfterParse, AfterMachines
    <2>4. There(vm[Name]) => vm[Name].mac < run
      BY <1>1, <2>1 DEF Fresh
    <2>5. \A v \in AfterDefine(vm[Name]) :
             \/ v.mac = vm[Name].mac /\ (There(v) => There(vm[Name]))
             \/ v.mac = listed /\ v.defined
      BY <1>1 DEF AfterDefine, There
    <2>6. \A n \in Names : \/ vm'[n].mac = vm[n].mac /\ (There(vm'[n]) => There(vm[n]))
                           \/ vm'[n].mac = run /\ vm'[n].defined
      <3>1. CASE vm' = vm
        BY <3>1
      <3>2. ASSUME vm' # vm, NEW v \in AfterDefine(vm[Name]), vm' = [vm EXCEPT ![Name] = v]
            PROVE  \A n \in Names :
                       \/ vm'[n].mac = vm[n].mac /\ (There(vm'[n]) => There(vm[n]))
                       \/ vm'[n].mac = run /\ vm'[n].defined
        BY <1>1, <2>3, <2>5, <3>2
      <3> QED
        BY <2>2, <3>1, <3>2
    <2>7. \A n \in Names : There(vm[n]) => vm[n].mac < run
      BY <2>1 DEF Fresh
    <2>8. \A n \in Names : There(vm'[n]) => vm'[n].mac < run' \/ (vm'[n].mac = run' /\ vm'[n].defined)
      BY <2>1, <2>6, <2>7
    <2> HIDE DEF There
    <2>9. \A n \in Names : There(vm'[n]) => vm'[n].mac <= run'
      BY <1>1, <2>1, <2>6, <2>8
    <2>10. \A n \in Names : vm'[n].up /\ ~ vm'[n].defined => vm'[n].mac < run'
      BY <2>8 DEF There
    <2> QED
      BY <2>1, <2>9, <2>10 DEF Fresh
  <1>6. CASE Reboot
    <2>1. \A n \in Names : There(vm'[n]) => There(vm[n]) /\ vm'[n].mac = vm[n].mac /\ vm'[n].defined
      BY <1>1, <1>6 DEF Reboot, There, NoVm
    <2>2. run' = run /\ ~ Running'
      BY <1>6 DEF Reboot, Running
    <2> QED
      BY <2>1, <2>2 DEF Fresh, There
  <1>7. ASSUME ~ Recover, ~ GetMachines, ~ LaunchHostVms, ~ Reboot, \A o \in Options : ~ Start(o)
        PROVE  Fresh'
    BY <1>7, MachinesChange DEF Fresh, Running
  <1> QED
    BY <1>2, <1>3, <1>4, <1>5, <1>6, <1>7

LEMMA AddressesKept ==
    ASSUME TypeOK, Checked, Ordered, Fresh, Addressed, [Next]_vars
    PROVE  Addressed'
  <1> USE DEF Goto, Fails, Exit, Ends, Running, vars, launchVars, fileVars, worldVars,
              packageVars, networkVars, TypeOK, Checked, Addressed, Deployed, AfterParse,
              AfterMachines, Names, Name
  <1>0. CASE UNCHANGED vars
    BY <1>0
  <1>1. ASSUME NEW o \in Options, Start(o) PROVE Addressed'
    BY <1>1 DEF Start
  <1>2. CASE Prepare
    BY <1>2 DEF Prepare
  <1>3. CASE PrepareExits
    BY <1>3 DEF PrepareExits
  <1>4. CASE Prepared
    BY <1>4 DEF Prepared
  <1>5. CASE CheckInput
    BY <1>5 DEF CheckInput
  <1>6. CASE ConfigParse
    BY <1>6 DEF ConfigParse
  <1>7. CASE Recover
    BY <1>7 DEF Recover
  <1>8. CASE NoMachines
    BY <1>8 DEF NoMachines
  <1>9. CASE GetMachines
    BY <1>9 DEF GetMachines
  <1>10. CASE KeepCompass
    BY <1>10 DEF KeepCompass
  <1>11. CASE RefreshCompass
    BY <1>11 DEF RefreshCompass
  <1>12. CASE SetUpNets
    BY <1>12 DEF SetUpNets
  <1>13. CASE MoveAddress
    BY <1>13 DEF MoveAddress
  <1>14. CASE LaunchCompass
    BY <1>14 DEF LaunchCompass
  <1>15. CASE LaunchCompassFails
    BY <1>15 DEF LaunchCompassFails
  <1>16. CASE SetCompassMachine
    BY <1>16 DEF SetCompassMachine
  <1>17. CASE LaunchHostVms
    BY <1>17 DEF LaunchHostVms
  <1>18. CASE DeployHost
    <2>1. {"dha", "install", "hosts"} \subseteq config /\ listed \in deck
      BY <1>18 DEF DeployHost, ClientMaySucceed, Ordered
    <2>2. opt.virtual => listed = run /\ vm[Name].up /\ vm[Name].mac = run
      BY <1>18, <2>1 DEF DeployHost, ClientMaySucceed, Bootable
    <2>3. run \in Nat /\ Name \in Names /\ vm[Name].defined \in BOOLEAN
      BY LaunchAssumption
    <2>4. opt.virtual => vm[Name].defined
      <3> HIDE DEF Name, Names
      <3> QED
        BY <2>2, <2>3 DEF Fresh
    <2> QED
      BY <1>18, <2>1, <2>2, <2>4 DEF DeployHost
  <1>19. CASE DeployHostFails
    BY <1>19 DEF DeployHostFails
  <1>20. CASE Done
    BY <1>20 DEF Done
  <1>21. CASE Kill
    BY <1>21 DEF Kill
  <1>22. CASE Reboot
    BY <1>22 DEF Reboot
  <1>23. CASE Idle
    BY <1>23 DEF Idle
  <1> QED
    BY <1>0, <1>1, <1>2, <1>3, <1>4, <1>5, <1>6, <1>7, <1>8, <1>9, <1>10, <1>11, <1>12,
           <1>13, <1>14, <1>15, <1>16, <1>17, <1>18, <1>19, <1>20, <1>21, <1>22,
           <1>23 DEF Next, Script

LEMMA MovesKept ==
    ASSUME TypeOK, Moving, [Next]_vars
    PROVE  Moving'
  <1> USE DEF Goto, Fails, Exit, Ends, Running, vars, launchVars, fileVars, worldVars,
              packageVars, networkVars, TypeOK, NetworkTypeOK, Moving
  <1>0. CASE UNCHANGED vars
    BY <1>0
  <1>1. ASSUME NEW o \in Options, Start(o) PROVE Moving'
    BY <1>1 DEF Start
  <1>2. CASE Prepare
    BY <1>2 DEF Prepare
  <1>3. CASE PrepareExits
    BY <1>3 DEF PrepareExits
  <1>4. CASE Prepared
    BY <1>4 DEF Prepared
  <1>5. CASE CheckInput
    BY <1>5 DEF CheckInput
  <1>6. CASE ConfigParse
    BY <1>6 DEF ConfigParse
  <1>7. CASE Recover
    BY <1>7 DEF Recover
  <1>8. CASE NoMachines
    BY <1>8 DEF NoMachines
  <1>9. CASE GetMachines
    BY <1>9 DEF GetMachines
  <1>10. CASE KeepCompass
    BY <1>10 DEF KeepCompass
  <1>11. CASE RefreshCompass
    BY <1>11 DEF RefreshCompass
  <1>12. CASE SetUpNets
    <2>1. CASE SaveNetworkInfo
      BY <1>12, <2>1, NotedIs DEF SetUpNets, SaveNetworkInfo
    <2> QED
      BY <1>12, <2>1 DEF SetUpNets
  <1>13. CASE MoveAddress
    <2>1. CASE Flush
      BY <1>13, <2>1 DEF MoveAddress, Flush, FlushWorks, FlushFails
    <2>2. CASE AddAddress
      BY <1>13, <2>2 DEF MoveAddress, AddAddress, CanAddAddress
    <2>3. CASE AddRoute
      BY <1>13, <2>3 DEF MoveAddress, AddRoute, CanAddRoute
    <2> QED
      BY <1>13, <2>1, <2>2, <2>3 DEF MoveAddress, MoveOn
  <1>14. CASE LaunchCompass
    BY <1>14 DEF LaunchCompass
  <1>15. CASE LaunchCompassFails
    BY <1>15 DEF LaunchCompassFails
  <1>16. CASE SetCompassMachine
    BY <1>16 DEF SetCompassMachine
  <1>17. CASE LaunchHostVms
    BY <1>17 DEF LaunchHostVms
  <1>18. CASE DeployHost
    BY <1>18 DEF DeployHost
  <1>19. CASE DeployHostFails
    BY <1>19 DEF DeployHostFails
  <1>20. CASE Done
    BY <1>20 DEF Done
  <1>21. CASE Kill
    BY <1>21 DEF Kill, NetworkEnd
  <1>22. CASE Reboot
    BY <1>22 DEF Reboot, NetworkReboot
  <1>23. CASE Idle
    BY <1>23 DEF Idle
  <1> QED
    BY <1>0, <1>1, <1>2, <1>3, <1>4, <1>5, <1>6, <1>7, <1>8, <1>9, <1>10, <1>11, <1>12,
           <1>13, <1>14, <1>15, <1>16, <1>17, <1>18, <1>19, <1>20, <1>21, <1>22,
           <1>23 DEF Next, Script

LEMMA StepsSafe ==
    \A s \in {EnvSteps \o PipSteps, PipSteps, <<>>} : \A i \in DOMAIN s :
        s[i].file = ListDir => s[i].do \in {"need", "hide", "install", "back"}
  <1> DEFINE Safe == {x \in [do : Deeds, file : File] :
                        x.file = ListDir => x.do \in {"need", "hide", "install", "back"}}
  <1>1. \A d \in Deeds, f \in File :
           (f = ListDir => d \in {"need", "hide", "install", "back"}) => Step(d, f) \in Safe
    BY DEF Step
  <1>2. /\ {"need", "hide", "write", "install", "drop", "back", "pip", "restore"} \subseteq Deeds
        /\ {ListDir, AptConf, Sources, PipConf} \subseteq File
        /\ ListDir \notin {AptConf, Sources, PipConf}
    BY DEF Deeds, File, ListDir, AptConf, Sources, PipConf
  <1>3. \A x \in Safe : x.file = ListDir => x.do \in {"need", "hide", "install", "back"}
    OBVIOUS
  <1> HIDE DEF Safe
  <1>4. EnvSteps \in Seq(Safe) /\ PipSteps \in Seq(Safe)
    BY <1>1, <1>2 DEF EnvSteps, PipSteps
  <1>5. EnvSteps \o PipSteps \in Seq(Safe) /\ <<>> \in Seq(Safe)
    BY <1>4
  <1>6. \A s \in Seq(Safe) : \A i \in DOMAIN s : s[i] \in Safe
    OBVIOUS
  <1>7. ASSUME NEW s \in Seq(Safe)
        PROVE  \A i \in DOMAIN s :
                   s[i].file = ListDir => s[i].do \in {"need", "hide", "install", "back"}
    BY <1>3, <1>6
  <1> QED
    BY <1>4, <1>5, <1>7

LEMMA ListStays ==
    ASSUME PackagesTypeOK, ListSafe, UNCHANGED <<conf, bak>>, steps' = <<>> \/ steps' = steps
    PROVE  ListSafe'
  BY DEF ListSafe, ListKept, PackagesTypeOK

LEMMA ListMoves ==
    ASSUME PackagesTypeOK, ListSafe, PackageStep
    PROVE  ListSafe'
  <1>1. steps \in Seq([do : Deeds, file : File]) /\ steps # <<>> /\ steps' = Tail(steps)
    BY DEF PackagesTypeOK, PackageStep
  <1>2. \A i \in DOMAIN steps' : i + 1 \in DOMAIN steps /\ steps'[i] = steps[i + 1]
    BY <1>1
  <1>3. At = steps[1].file /\ Deed = steps[1].do /\ 1 \in DOMAIN steps
    BY <1>1 DEF At, Deed
  <1>4. At = ListDir => Deed \in {"need", "hide", "install", "back"}
    BY <1>3 DEF ListSafe
  <1>5. ListDir \in File
    BY DEF File
  <1>6. CASE At # ListDir
    <2>1. conf'[ListDir] = conf[ListDir] /\ bak'[ListDir] = bak[ListDir]
      BY <1>5, <1>6 DEF PackageStep, Moved, PackagesTypeOK
    <2> QED
      BY <1>2, <2>1 DEF ListSafe, ListKept
  <1>7. CASE At = ListDir
    <2>1. ListKept'
      BY <1>4, <1>5, <1>7 DEF PackageStep, Moved, PackagesTypeOK, ListSafe, ListKept
    <2> QED
      BY <1>2, <2>1 DEF ListSafe
  <1> QED
    BY <1>6, <1>7

LEMMA ListsKept ==
    ASSUME TypeOK, ListSafe, [Next]_vars
    PROVE  ListSafe'
  <1>0. PackagesTypeOK
    BY DEF TypeOK
  <1> USE DEF Goto, Fails, Exit, Ends, Running, vars, launchVars, fileVars, worldVars,
              packageVars, networkVars
  <1>1. ASSUME NEW o \in Options, Start(o) PROVE ListSafe'
    <2>1. steps' \in {<<>>, PipSteps, EnvSteps \o PipSteps}
      BY <1>1 DEF Start
    <2>2. UNCHANGED <<conf, bak>>
      BY <1>1 DEF Start
    <2> QED
      BY <2>1, <2>2, StepsSafe DEF ListSafe, ListKept
  <1>2. CASE Prepare
    BY <1>0, <1>2, ListMoves DEF Prepare
  <1>3. CASE PrepareExits
    BY <1>0, <1>3, ListStays DEF PrepareExits, PackagesEnd
  <1>4. CASE Kill
    BY <1>0, <1>4, ListStays DEF Kill, PackagesEnd
  <1>5. CASE UNCHANGED packageVars
    BY <1>0, <1>5, ListStays
  <1>6. ASSUME Next, ~ Prepare, ~ PrepareExits, ~ Kill, \A o \in Options : ~ Start(o)
        PROVE  UNCHANGED packageVars
    BY <1>6 DEF Next, Script, Prepared, CheckInput, ConfigParse, Recover, NoMachines,
                GetMachines, KeepCompass, RefreshCompass, SetUpNets, MoveAddress,
                LaunchCompass, LaunchCompassFails, SetCompassMachine, LaunchHostVms,
                DeployHost, DeployHostFails, Done, Reboot, Idle
  <1> QED
    BY <1>1, <1>2, <1>3, <1>4, <1>5, <1>6

-----------------------------------------------------------------------------
(* The steps of prepare.sh, one by one. *)

LEMMA EnvStepsAre ==
    /\ Len(EnvSteps) = 12
    /\ EnvSteps[1] = Step("need", ListDir) /\ EnvSteps[2] = Step("hide", ListDir)
    /\ EnvSteps[3] = Step("hide", AptConf) /\ EnvSteps[4] = Step("write", AptConf)
    /\ EnvSteps[5] = Step("hide", Sources) /\ EnvSteps[6] = Step("write", Sources)
    /\ EnvSteps[7] = Step("install", ListDir) /\ EnvSteps[8] = Step("drop", Sources)
    /\ EnvSteps[9] = Step("back", Sources) /\ EnvSteps[10] = Step("drop", AptConf)
    /\ EnvSteps[11] = Step("back", AptConf) /\ EnvSteps[12] = Step("back", ListDir)
  BY DEF EnvSteps

LEMMA PipStepsAre ==
    /\ Len(PipSteps) = 5
    /\ PipSteps[1] = Step("hide", PipConf) /\ PipSteps[2] = Step("need", PipConf)
    /\ PipSteps[3] = Step("write", PipConf) /\ PipSteps[4] = Step("pip", PipConf)
    /\ PipSteps[5] = Step("restore", PipConf)
  BY DEF PipSteps

LEMMA AllStepsAre ==
    /\ AllSteps \in Seq([do : Deeds, file : File]) /\ Len(AllSteps) = 17
    /\ \A k \in 1..12 : AllSteps[k] = EnvSteps[k]
    /\ \A k \in 1..5 : AllSteps[12 + k] = PipSteps[k]
  <1> DEFINE S == [do : Deeds, file : File]
  <1> HIDE DEF S
  <1>1. EnvSteps \in Seq(S) /\ PipSteps \in Seq(S) /\ EnvSteps \o PipSteps \in Seq(S)
    <2>1. EnvSteps \in Seq(S) /\ PipSteps \in Seq(S)
      BY StepsTyped DEF S
    <2> QED
      BY <2>1
  <1>2. Len(EnvSteps) = 12 /\ Len(PipSteps) = 5
    BY EnvStepsAre, PipStepsAre
  <1>3. /\ Len(EnvSteps \o PipSteps) = 17
        /\ \A k \in 1..12 : (EnvSteps \o PipSteps)[k] = EnvSteps[k]
        /\ \A k \in 1..5 : (EnvSteps \o PipSteps)[12 + k] = PipSteps[k]
    <2>1. ASSUME NEW s \in Seq(S), NEW t \in Seq(S)
          PROVE  /\ Len(s \o t) = Len(s) + Len(t)
                 /\ \A k \in 1..Len(s) : (s \o t)[k] = s[k]
                 /\ \A k \in 1..Len(t) : (s \o t)[Len(s) + k] = t[k]
      OBVIOUS
    <2>2. /\ Len(EnvSteps \o PipSteps) = Len(EnvSteps) + Len(PipSteps)
          /\ \A k \in 1..Len(EnvSteps) : (EnvSteps \o PipSteps)[k] = EnvSteps[k]
          /\ \A k \in 1..Len(PipSteps) :
                 (EnvSteps \o PipSteps)[Len(EnvSteps) + k] = PipSteps[k]
      BY <1>1, <2>1
    <2>3. 12 + 5 = 17
      OBVIOUS
    <2> DEFINE both == EnvSteps \o PipSteps
    <2>4. /\ Len(both) = 12 + 5
          /\ \A k \in 1..12 : both[k] = EnvSteps[k]
          /\ \A k \in 1..5 : both[12 + k] = PipSteps[k]
      <3> HIDE DEF both
      <3> QED
        BY <1>2, <2>2 DEF both
    <2> QED
      BY <2>3, <2>4
  <1> QED
    BY <1>1, <1>3 DEF AllSteps, S

\* One step of the list is made, and the rest of it remains.
LEMMA StepAt ==
    ASSUME PackagesTypeOK, Following, PackageStep, pc = "prepare", pc' = "prepare"
    PROVE  /\ Left \in 1..17 /\ Left' = Left - 1
           /\ Deed = AllSteps[18 - Left].do /\ At = AllSteps[18 - Left].file
           /\ Following'
  <1> DEFINE S == [do : Deeds, file : File]
  <1>1. steps \in Seq(S) /\ steps # <<>> /\ steps' = Tail(steps)
    BY DEF PackagesTypeOK, PackageStep
  <1> HIDE DEF S
  <1>2. /\ Left \in Nat \ {0} /\ Left' = Left - 1
        /\ Head(steps) = steps[1]
        /\ \A i \in 1..(Left - 1) : steps'[i] = steps[i + 1]
    BY <1>1 DEF Left
  <1>3. Left \in 1..17 /\ steps[1] = AllSteps[17 - Left + 1]
    BY <1>2 DEF Following
  <1>4. Following'
    <2>1. Left' \in 0..17
      BY <1>2, <1>3
    <2>2. ASSUME NEW i \in 1..Left' PROVE steps'[i] = AllSteps[17 - Left' + i]
      <3>1. i \in 1..(Left - 1) /\ i + 1 \in 1..Left
        BY <1>2, <1>3
      <3>2. steps'[i] = steps[i + 1] /\ steps[i + 1] = AllSteps[17 - Left + (i + 1)]
        BY <1>2, <3>1 DEF Following
      <3>3. 17 - Left + (i + 1) = 17 - Left' + i
        BY <1>2, <1>3, <3>1
      <3> QED
        BY <3>2, <3>3
    <2> QED
      BY <2>1, <2>2 DEF Following
  <1>5. 17 - Left + 1 = 18 - Left
    BY <1>3
  <1> QED
    BY <1>2, <1>3, <1>4, <1>5 DEF Deed, At

\* Which step it is, from the number of steps left.
LEMMA StepIs ==
    ASSUME NEW l \in 1..17
    PROVE  /\ l = 17 => AllSteps[18 - l] = Step("need", ListDir)
           /\ l = 16 => AllSteps[18 - l] = Step("hide", ListDir)
           /\ l = 15 => AllSteps[18 - l] = Step("hide", AptConf)
           /\ l = 14 => AllSteps[18 - l] = Step("write", AptConf)
           /\ l = 13 => AllSteps[18 - l] = Step("hide", Sources)
           /\ l = 12 => AllSteps[18 - l] = Step("write", Sources)
           /\ l = 11 => AllSteps[18 - l] = Step("install", ListDir)
           /\ l = 10 => AllSteps[18 - l] = Step("drop", Sources)
           /\ l = 9 => AllSteps[18 - l] = Step("back", Sources)
           /\ l = 8 => AllSteps[18 - l] = Step("drop", AptConf)
           /\ l = 7 => AllSteps[18 - l] = Step("back", AptConf)
           /\ l = 6 => AllSteps[18 - l] = Step("back", ListDir)
           /\ l = 5 => AllSteps[18 - l] = Step("hide", PipConf)
           /\ l = 4 => AllSteps[18 - l] = Step("need", PipConf)
           /\ l = 3 => AllSteps[18 - l] = Step("write", PipConf)
           /\ l = 2 => AllSteps[18 - l] = Step("pip", PipConf)
           /\ l = 1 => AllSteps[18 - l] = Step("restore", PipConf)
  <1>1. /\ AllSteps[1] = EnvSteps[1] /\ AllSteps[2] = EnvSteps[2]
        /\ AllSteps[3] = EnvSteps[3] /\ AllSteps[4] = EnvSteps[4]
        /\ AllSteps[5] = EnvSteps[5] /\ AllSteps[6] = EnvSteps[6]
        /\ AllSteps[7] = EnvSteps[7] /\ AllSteps[8] = EnvSteps[8]
        /\ AllSteps[9] = EnvSteps[9] /\ AllSteps[10] = EnvSteps[10]
        /\ AllSteps[11] = EnvSteps[11] /\ AllSteps[12] = EnvSteps[12]
    BY AllStepsAre
  <1>2. /\ AllSteps[13] = PipSteps[1] /\ AllSteps[14] = PipSteps[2]
        /\ AllSteps[15] = PipSteps[3] /\ AllSteps[16] = PipSteps[4]
        /\ AllSteps[17] = PipSteps[5]
    <2>1. 12 + 1 = 13 /\ 12 + 2 = 14 /\ 12 + 3 = 15 /\ 12 + 4 = 16 /\ 12 + 5 = 17
      OBVIOUS
    <2> QED
      BY <2>1, AllStepsAre
  <1> QED
    BY <1>1, <1>2, EnvStepsAre, PipStepsAre

\* What a step does to the file it is about, and to no other.
LEMMA StepDoes ==
    ASSUME PackagesTypeOK, PackageStep
    PROVE  /\ At \in File
           /\ \A f \in File : f # At => conf'[f] = conf[f] /\ bak'[f] = bak[f]
           /\ Deed = "hide" => /\ conf'[At] = "none"
                              /\ bak'[At] = IF conf[At] = "none" THEN bak[At] ELSE conf[At]
           /\ Deed = "write" => conf'[At] = "ours" /\ bak'[At] = bak[At]
           /\ Deed = "drop" => conf'[At] = "none" /\ bak'[At] = bak[At]
           /\ Deed = "back" => /\ bak'[At] = "none"
                              /\ conf'[At] = IF bak[At] = "none" THEN conf[At] ELSE bak[At]
           /\ Deed = "restore" => bak'[At] = "none" /\ conf'[At] = bak[At]
           /\ Deed \in {"need", "install", "pip"} => conf'[At] = conf[At] /\ bak'[At] = bak[At]
           /\ found' = found /\ cut' = cut
  <1>1. At \in File
    <2> DEFINE S == [do : Deeds, file : File]
    <2>1. steps \in Seq(S) /\ steps # <<>>
      BY DEF PackagesTypeOK, PackageStep
    <2> HIDE DEF S
    <2>2. Head(steps) \in S
      BY <2>1
    <2> QED
      BY <2>2 DEF S, At
  <1> QED
    BY <1>1 DEF PackagesTypeOK, PackageStep, Moved

LEMMA FilesDiffer ==
    /\ {ListDir, AptConf, Sources, PipConf} = File
    /\ ListDir # AptConf /\ ListDir # Sources /\ ListDir # PipConf
    /\ AptConf # Sources /\ AptConf # PipConf /\ Sources # PipConf
  BY DEF File, ListDir, AptConf, Sources, PipConf

\* A step moves each file from the place it has before it to the one it has after it.
LEMMA UncutStep ==
    ASSUME PackagesTypeOK, Following, PackageStep, pc = "prepare", pc' = "prepare",
           ListWhere, AptWhere, SourcesWhere, PipWhere
    PROVE  ListWhere' /\ AptWhere' /\ SourcesWhere' /\ PipWhere'
  <1>1. Left \in 1..17 /\ Left' = Left - 1
    BY StepAt
  <1>2. Deed = AllSteps[18 - Left].do /\ At = AllSteps[18 - Left].file
    BY StepAt
  <1> DEFINE Is(d, f) == Deed = d /\ At = f
  <1>3. \A d, f : AllSteps[18 - Left] = Step(d, f) => Is(d, f)
    BY <1>2 DEF Step
  <1>4. /\ Left = 17 => Is("need", ListDir)
        /\ Left = 16 => Is("hide", ListDir)
        /\ Left = 15 => Is("hide", AptConf)
        /\ Left = 14 => Is("write", AptConf)
        /\ Left = 13 => Is("hide", Sources)
        /\ Left = 12 => Is("write", Sources)
        /\ Left = 11 => Is("install", ListDir)
        /\ Left = 10 => Is("drop", Sources)
        /\ Left = 9 => Is("back", Sources)
        /\ Left = 8 => Is("drop", AptConf)
        /\ Left = 7 => Is("back", AptConf)
        /\ Left = 6 => Is("back", ListDir)
        /\ Left = 5 => Is("hide", PipConf)
        /\ Left = 4 => Is("need", PipConf)
        /\ Left = 3 => Is("write", PipConf)
        /\ Left = 2 => Is("pip", PipConf)
        /\ Left = 1 => Is("restore", PipConf)
    BY <1>1, <1>3, StepIs
  <1>5. /\ At \in File
        /\ \A f \in File : f # At => conf'[f] = conf[f] /\ bak'[f] = bak[f]
        /\ Deed = "hide" => /\ conf'[At] = "none"
                           /\ bak'[At] = IF conf[At] = "none" THEN bak[At] ELSE conf[At]
        /\ Deed = "write" => conf'[At] = "ours" /\ bak'[At] = bak[At]
        /\ Deed = "drop" => conf'[At] = "none" /\ bak'[At] = bak[At]
        /\ Deed = "back" => /\ bak'[At] = "none"
                           /\ conf'[At] = IF bak[At] = "none" THEN conf[At] ELSE bak[At]
        /\ Deed = "restore" => bak'[At] = "none" /\ conf'[At] = bak[At]
        /\ Deed \in {"need", "install", "pip"} => conf'[At] = conf[At] /\ bak'[At] = bak[At]
        /\ found' = found
    BY StepDoes
  <1>6. ListWhere'
    <2>1. ListDir \in File
      BY FilesDiffer
    <2>2. CASE Left = 17
      <3>1. Is("need", ListDir)
        BY <1>4, <2>2
      <3> QED
        BY <1>1, <1>5, <2>1, <2>2, <3>1 DEF ListWhere, InPlace, Hidden, Replaced
    <2>3. CASE Left = 16
      <3>1. Is("hide", ListDir)
        BY <1>4, <2>3
      <3> QED
        BY <1>1, <1>5, <2>1, <2>3, <3>1 DEF ListWhere, InPlace, Hidden, Replaced
    <2>4. CASE Left = 11
      <3>1. Is("install", ListDir)
        BY <1>4, <2>4
      <3> QED
        BY <1>1, <1>5, <2>1, <2>4, <3>1 DEF ListWhere, InPlace, Hidden, Replaced
    <2>5. CASE Left = 6
      <3>1. Is("back", ListDir)
        BY <1>4, <2>5
      <3> QED
        BY <1>1, <1>5, <2>1, <2>5, <3>1 DEF ListWhere, InPlace, Hidden, Replaced
    <2>6. CASE Left \notin {17, 16, 11, 6}
      <3>1. At # ListDir
        BY <1>1, <1>4, <2>6, FilesDiffer
      <3> QED
        BY <1>1, <1>5, <2>1, <2>6, <3>1 DEF ListWhere, InPlace, Hidden, Replaced
    <2> QED
      BY <2>2, <2>3, <2>4, <2>5, <2>6
  <1>7. AptWhere'
    <2>1. AptConf \in File
      BY FilesDiffer
    <2>2. CASE Left = 15
      <3>1. Is("hide", AptConf)
        BY <1>4, <2>2
      <3> QED
        BY <1>1, <1>5, <2>1, <2>2, <3>1 DEF AptWhere, InPlace, Hidden, Replaced
    <2>3. CASE Left = 14
      <3>1. Is("write", AptConf)
        BY <1>4, <2>3
      <3> QED
        BY <1>1, <1>5, <2>1, <2>3, <3>1 DEF AptWhere, InPlace, Hidden, Replaced
    <2>4. CASE Left = 8
      <3>1. Is("drop", AptConf)
        BY <1>4, <2>4
      <3> QED
        BY <1>1, <1>5, <2>1, <2>4, <3>1 DEF AptWhere, InPlace, Hidden, Replaced
    <2>5. CASE Left = 7
      <3>1. Is("back", AptConf)
        BY <1>4, <2>5
      <3> QED
        BY <1>1, <1>5, <2>1, <2>5, <3>1 DEF AptWhere, InPlace, Hidden, Replaced
    <2>6. CASE Left \notin {15, 14, 8, 7}
      <3>1. At # AptConf
        BY <1>1, <1>4, <2>6, FilesDiffer
      <3> QED
        BY <1>1, <1>5, <2>1, <2>6, <3>1 DEF AptWhere, InPlace, Hidden, Replaced
    <2> QED
      BY <2>2, <2>3, <2>4, <2>5, <2>6
  <1>8. SourcesWhere'
    <2>1. Sources \in File
      BY FilesDiffer
    <2>2. CASE Left = 13
      <3>1. Is("hide", Sources)
        BY <1>4, <2>2
      <3> QED
        BY <1>1, <1>5, <2>1, <2>2, <3>1 DEF SourcesWhere, InPlace, Hidden, Replaced
    <2>3. CASE Left = 12
      <3>1. Is("write", Sources)
        BY <1>4, <2>3
      <3> QED
        BY <1>1, <1>5, <2>1, <2>3, <3>1 DEF SourcesWhere, InPlace, Hidden, Replaced
    <2>4. CASE Left = 10
      <3>1. Is("drop", Sources)
        BY <1>4, <2>4
      <3> QED
        BY <1>1, <1>5, <2>1, <2>4, <3>1 DEF SourcesWhere, InPlace, Hidden, Replaced
    <2>5. CASE Left = 9
      <3>1. Is("back", Sources)
        BY <1>4, <2>5
      <3> QED
        BY <1>1, <1>5, <2>1, <2>5, <3>1 DEF SourcesWhere, InPlace, Hidden, Replaced
    <2>6. CASE Left \notin {13, 12, 10, 9}
      <3>1. At # Sources
        BY <1>1, <1>4, <2>6, FilesDiffer
      <3> QED
        BY <1>1, <1>5, <2>1, <2>6, <3>1 DEF SourcesWhere, InPlace, Hidden, Replaced
    <2> QED
      BY <2>2, <2>3, <2>4, <2>5, <2>6
  <1>9. PipWhere'
    <2>1. PipConf \in File
      BY FilesDiffer
    <2>2. CASE Left = 5
      <3>1. Is("hide", PipConf)
        BY <1>4, <2>2
      <3> QED
        BY <1>1, <1>5, <2>1, <2>2, <3>1 DEF PipWhere, InPlace, Hidden, Replaced
    <2>3. CASE Left = 4
      <3>1. Is("need", PipConf)
        BY <1>4, <2>3
      <3> QED
        BY <1>1, <1>5, <2>1, <2>3, <3>1 DEF PipWhere, InPlace, Hidden, Replaced
    <2>4. CASE Left = 3
      <3>1. Is("write", PipConf)
        BY <1>4, <2>4
      <3> QED
        BY <1>1, <1>5, <2>1, <2>4, <3>1 DEF PipWhere, InPlace, Hidden, Replaced
    <2>5. CASE Left = 2
      <3>1. Is("pip", PipConf)
        BY <1>4, <2>5
      <3> QED
        BY <1>1, <1>5, <2>1, <2>5, <3>1 DEF PipWhere, InPlace, Hidden, Replaced
    <2>6. CASE Left = 1
      <3>1. Is("restore", PipConf)
        BY <1>4, <2>6
      <3> QED
        BY <1>1, <1>5, <2>1, <2>6, <3>1 DEF PipWhere, InPlace, Hidden, Replaced
    <2>7. CASE Left \notin {5, 4, 3, 2, 1}
      <3>1. At # PipConf
        BY <1>1, <1>4, <2>7, FilesDiffer
      <3> QED
        BY <1>1, <1>5, <2>1, <2>7, <3>1 DEF PipWhere, InPlace, Hidden, Replaced
    <2> QED
      BY <2>2, <2>3, <2>4, <2>5, <2>6, <2>7
  <1> QED
    BY <1>6, <1>7, <1>8, <1>9

LEMMA NoStepsLeft == steps = <<>> => Left = 0
  BY DEF Left

\* What the steps of a run that begins are, and that nothing is left of the last run's.
LEMMA StartSteps ==
    ASSUME Following, NEW o \in Options, Start(o)
    PROVE  /\ Left = 0 /\ Left' \in {0, 5, 17} /\ Following'
           /\ o.first /\ o.offline => Left' = 17
  <1>1. Left = 0
    BY NoStepsLeft DEF Following, Start, Running
  <1>2. /\ Len(AllSteps) = 17 /\ Len(PipSteps) = 5
        /\ \A i \in 1..17 : AllSteps[i] = AllSteps[17 - 17 + i]
        /\ \A i \in 1..5 : PipSteps[i] = AllSteps[17 - 5 + i]
    <2>1. \A i \in 1..17 : 17 - 17 + i = i
      OBVIOUS
    <2>2. 17 - 5 = 12
      OBVIOUS
    <2> QED
      BY <2>1, <2>2, AllStepsAre, PipStepsAre
  <1>3. pc' = "prepare" /\ steps' \in {<<>>, PipSteps, AllSteps}
    BY DEF Start, AllSteps
  <1>4. o.first /\ o.offline => steps' = AllSteps
    BY DEF Start, AllSteps
  <1>5. CASE steps' = <<>>
    <2>1. Left' = 0
      BY <1>5 DEF Left
    <2>2. Following'
      BY <1>3, <1>5, <2>1 DEF Following
    <2>3. AllSteps # <<>>
      <3>1. AllSteps = <<>> => Len(AllSteps) = 0
        OBVIOUS
      <3> QED
        BY <1>2, <3>1
    <2> QED
      BY <1>1, <1>4, <1>5, <2>1, <2>2, <2>3
  <1>6. CASE steps' = PipSteps
    <2>1. Left' = 5
      BY <1>2, <1>6 DEF Left
    <2>2. Following'
      BY <1>2, <1>3, <1>6, <2>1 DEF Following
    <2>3. AllSteps # PipSteps
      BY <1>2
    <2> QED
      BY <1>1, <1>4, <1>6, <2>1, <2>2, <2>3
  <1>7. CASE steps' = AllSteps
    <2>1. Left' = 17
      BY <1>2, <1>7 DEF Left
    <2>2. Following'
      BY <1>2, <1>3, <1>7, <2>1 DEF Following
    <2> QED
      BY <1>1, <2>1, <2>2
  <1> QED
    BY <1>3, <1>5, <1>6, <1>7

\* What an end of a run leaves: everything in its place, unless the run is cut.
LEMMA EndSteps ==
    ASSUME PackagesTypeOK, Following, Uncut, PackagesEnd, pc' = "off"
    PROVE  Following' /\ Uncut' /\ Left' = 0
  <1>1. steps' = <<>> /\ UNCHANGED <<found, conf, bak>> /\ Left' = 0
    BY DEF PackagesEnd, Left
  <1>2. Following'
    BY <1>1 DEF Following, Left
  <1>3. CASE cut'
    BY <1>1, <1>2, <1>3 DEF Uncut
  <1>4. CASE ~ cut'
    <2>1. ~ cut /\ Left \in {0, 5, 17}
      <3>1. ~ cut /\ steps \in {<<>>, AllSteps, PipSteps}
        BY <1>4 DEF PackagesEnd, PackagesTypeOK, AllSteps
      <3> QED
        BY <3>1, AllStepsAre, PipStepsAre DEF Left
    <2>2. InPlace(ListDir) /\ InPlace(AptConf) /\ InPlace(Sources) /\ InPlace(PipConf)
      BY <2>1 DEF Uncut, ListWhere, AptWhere, SourcesWhere, PipWhere
    <2>3. /\ InPlace(ListDir)' /\ InPlace(AptConf)' /\ InPlace(Sources)' /\ InPlace(PipConf)'
      BY <1>1, <2>2 DEF InPlace
    <2> QED
      BY <1>1, <1>2, <2>3 DEF Uncut, ListWhere, AptWhere, SourcesWhere, PipWhere
  <1> QED
    BY <1>3, <1>4

LEMMA UncutStill ==
    ASSUME Uncut, UNCHANGED packageVars
    PROVE  Uncut'
  BY DEF Uncut, packageVars, ListWhere, AptWhere, SourcesWhere, PipWhere, Left, InPlace,
         Hidden, Replaced

\* The steps of a run concern packageVars only in these four actions.
LEMMA PackagesChange ==
    ASSUME Next, ~ Prepare, ~ PrepareExits, ~ Kill, \A o \in Options : ~ Start(o)
    PROVE  /\ UNCHANGED packageVars
           /\ pc' = "prepare" => pc = "prepare"
           /\ pc = "prepare" /\ pc' # "prepare" => steps = <<>>
           /\ opt' = opt
           /\ pc' # "off" => pc # "off"
  <1> USE DEF Goto, Fails, Exit, Ends, Running, vars, launchVars
  <1> QED
    BY DEF Next, Script, Prepared, CheckInput, ConfigParse, Recover, NoMachines,
           GetMachines, KeepCompass, RefreshCompass, SetUpNets, MoveAddress,
           LaunchCompass, LaunchCompassFails, SetCompassMachine, LaunchHostVms,
           DeployHost, DeployHostFails, Done, Reboot, Idle

\* Where the files are follows from the steps left, in every run that is not cut.
LEMMA FilesKept ==
    ASSUME TypeOK, Following, Uncut, [Next]_vars
    PROVE  Following' /\ Uncut'
  <1>0. PackagesTypeOK
    BY DEF TypeOK
  <1>1. ASSUME NEW o \in Options, Start(o) PROVE Following' /\ Uncut'
    <2>1. Left = 0 /\ Left' \in {0, 5, 17} /\ Following'
      BY <1>1, StartSteps
    <2>2. UNCHANGED <<found, conf, bak, cut>>
      BY <1>1 DEF Start
    <2>3. ~ cut => InPlace(ListDir) /\ InPlace(AptConf) /\ InPlace(Sources) /\ InPlace(PipConf)
      BY <2>1 DEF Uncut, ListWhere, AptWhere, SourcesWhere, PipWhere
    <2>4. ~ cut => /\ InPlace(ListDir)' /\ InPlace(AptConf)'
                   /\ InPlace(Sources)' /\ InPlace(PipConf)'
      BY <2>2, <2>3 DEF InPlace
    <2> QED
      BY <2>1, <2>2, <2>4 DEF Uncut, ListWhere, AptWhere, SourcesWhere, PipWhere
  <1>2. CASE Prepare
    <2>1. PackageStep /\ pc = "prepare" /\ pc' = "prepare"
      BY <1>2 DEF Prepare, launchVars
    <2>2. Following'
      BY <1>0, <2>1, StepAt
    <2>3. cut' = cut
      BY <1>0, <2>1, StepDoes
    <2> QED
      BY <1>0, <2>1, <2>2, <2>3, UncutStep DEF Uncut
  <1>3. CASE PrepareExits \/ Kill
    <2>1. PackagesEnd /\ pc' = "off"
      BY <1>3 DEF PrepareExits, Kill, Exit, Ends
    <2> QED
      BY <1>0, <2>1, EndSteps
  <1>4. CASE Next /\ ~ Prepare /\ ~ PrepareExits /\ ~ Kill /\ \A o \in Options : ~ Start(o)
    <2>1. /\ UNCHANGED packageVars
          /\ pc' = "prepare" => pc = "prepare"
          /\ pc = "prepare" /\ pc' # "prepare" => steps = <<>>
      BY <1>4, PackagesChange
    <2> QED
      BY <2>1, UncutStill DEF Following, Left, packageVars
  <1>5. CASE UNCHANGED vars
    BY <1>5, UncutStill DEF vars, launchVars, packageVars, Following, Left
  <1> QED
    BY <1>1, <1>2, <1>3, <1>4, <1>5

\* The last step of a first run on sources.list.d brings it back, if it was away.
LEMMA ListBackStep ==
    ASSUME PackagesTypeOK, Following, ListSafe, PackageStep, pc = "prepare", pc' = "prepare",
           Left <= 5 => conf[ListDir] = "own"
    PROVE  Left' <= 5 => conf'[ListDir] = "own"
  <1>1. Left \in 1..17 /\ Left' = Left - 1
    BY StepAt
  <1>2. Deed = AllSteps[18 - Left].do /\ At = AllSteps[18 - Left].file
    BY StepAt
  <1>3. ListDir \in File
    BY FilesDiffer
  <1>4. CASE Left = 6
    <2>1. AllSteps[18 - Left] = Step("back", ListDir)
      BY <1>1, <1>4, StepIs
    <2>2. Deed = "back" /\ At = ListDir
      BY <1>2, <2>1 DEF Step
    <2>3. conf'[ListDir] = IF bak[ListDir] = "none" THEN conf[ListDir] ELSE bak[ListDir]
      BY <2>2, StepDoes
    <2> QED
      BY <2>3 DEF ListSafe, ListKept
  <1>5. CASE Left \in 1..5
    <2>1. /\ Left = 5 => AllSteps[18 - Left] = Step("hide", PipConf)
          /\ Left = 4 => AllSteps[18 - Left] = Step("need", PipConf)
          /\ Left = 3 => AllSteps[18 - Left] = Step("write", PipConf)
          /\ Left = 2 => AllSteps[18 - Left] = Step("pip", PipConf)
          /\ Left = 1 => AllSteps[18 - Left] = Step("restore", PipConf)
      BY <1>1, StepIs
    <2>2. AllSteps[18 - Left].file = PipConf
      BY <1>5, <2>1 DEF Step
    <2>3. conf'[ListDir] = conf[ListDir]
      BY <1>2, <1>3, <2>2, FilesDiffer, StepDoes
    <2> QED
      BY <1>5, <2>3
  <1> QED
    BY <1>1, <1>4, <1>5

LEMMA ListBackKept ==
    ASSUME TypeOK, Following, ListSafe, ListBack, [Next]_vars
    PROVE  ListBack'
  <1>0. PackagesTypeOK
    BY DEF TypeOK
  <1>1. ASSUME NEW o \in Options, Start(o) PROVE ListBack'
    <2>1. opt' = o /\ (o.first /\ o.offline => Left' = 17)
      BY <1>1, StartSteps DEF Start
    <2> QED
      BY <2>1 DEF ListBack
  <1>2. CASE Prepare
    <2>1. PackageStep /\ pc = "prepare" /\ pc' = "prepare" /\ opt' = opt
      BY <1>2 DEF Prepare, launchVars
    <2> QED
      BY <1>0, <2>1, ListBackStep DEF ListBack
  <1>3. CASE PrepareExits \/ Kill
    BY <1>3 DEF PrepareExits, Kill, Exit, Ends, ListBack
  <1>4. CASE Next /\ ~ Prepare /\ ~ PrepareExits /\ ~ Kill /\ \A o \in Options : ~ Start(o)
    BY <1>4, PackagesChange DEF ListBack, packageVars, Left
  <1>5. CASE UNCHANGED vars
    BY <1>5 DEF vars, launchVars, packageVars, ListBack, Left
  <1> QED
    BY <1>1, <1>2, <1>3, <1>4, <1>5

-----------------------------------------------------------------------------
(* The invariant and what follows from it. *)

LEMMA InitInv == Init => IInv
  <1> SUFFICES ASSUME Init PROVE IInv
    OBVIOUS
  <1>1. PackagesTypeOK
    <2>1. found \in [File -> {"own", "none"}] /\ conf = found
      BY DEF Init, PackagesInit
    <2>2. steps \in Seq([do : Deeds, file : File])
      BY DEF Init, PackagesInit
    <2>3. bak \in [File -> {"own", "ours", "none"}] /\ cut \in BOOLEAN
      BY DEF Init, PackagesInit
    <2> QED
      BY <2>1, <2>2, <2>3 DEF PackagesTypeOK
  <1>2. TypeOK
    <2>1. 0 \in Addresses /\ run \in 0..MaxRuns
      BY LaunchAssumption DEF Init, Addresses
    <2>2. vm \in [Names -> [defined : BOOLEAN, mac : Addresses, up : BOOLEAN]]
      BY <2>1 DEF Init, NoVm
    <2>3. NetworkTypeOK
      BY DEF Init, NetworkInit, NetworkTypeOK, Nothing
    <2> QED
      BY <1>1, <2>1, <2>2, <2>3 DEF Init, TypeOK
  <1>3. Checked /\ Ordered /\ Fresh /\ Addressed /\ Moving
    BY DEF Init, Checked, HarmIsChecked, AfterParse, AfterMachines, Ordered, Fresh, There,
           Addressed, NoVm, Running, Moving, NetworkInit
  <1>4. ListSafe
    BY DEF Init, PackagesInit, ListSafe, ListKept, File
  <1>5. Following /\ ListBack
    BY DEF Init, PackagesInit, Following, ListBack, Left
  <1>6. Uncut
    <2>1. Left = 0 /\ \A f \in File : InPlace(f)
      BY DEF Init, PackagesInit, Left, InPlace
    <2> QED
      BY <2>1, FilesDiffer DEF Uncut, ListWhere, AptWhere, SourcesWhere, PipWhere
  <1> QED
    BY <1>2, <1>3, <1>4, <1>5, <1>6 DEF IInv

\* Whatever the options of the runs and wherever they are killed, the invariant holds.
THEOREM LaunchInvariant == Spec => []IInv
  <1>1. IInv /\ [Next]_vars => IInv'
    BY TypesKept, ChecksKept, OrderedKept, FreshKept, AddressesKept, MovesKept, ListsKept, FilesKept,
       ListBackKept DEF IInv
  <1> QED
    BY InitInv, <1>1, PTL DEF Spec

\* The variables have the types the shell scripts give them.
THEOREM LaunchTypes == Spec => []TypeOK
  BY LaunchInvariant, PTL DEF IInv

\* A run that deploys hosts is reported as a success (deploy.sh:59) only if its
\* machines and networks were configured and the deck and the virtual machine have its
\* address, whatever virsh failed to tear down, define or start.
THEOREM SuccessMeansDeployed == Spec => []SuccessIsDeployed
  <1>1. IInv => SuccessIsDeployed
    BY DEF IInv, Addressed, Deployed, SuccessIsDeployed
  <1> QED
    BY <1>1, LaunchInvariant, PTL

\* Nothing of earlier runs is destroyed before the files have been checked and read,
\* and never by a recovery (launch.sh:24-46).
THEOREM ChecksBeforeHarm == Spec => []HarmIsChecked
  <1>1. IInv => HarmIsChecked
    BY DEF IInv, Checked
  <1> QED
    BY <1>1, LaunchInvariant, PTL

\* Unless a run is cut between the flush and the last ip command, or one of the commands
\* fails, the jump host has its address and its route, both on the interface or both on
\* the bridge (network.sh:46-68).
THEOREM KeepsAddress == Spec => []AddressKept
  <1>1. IInv => AddressKept
    BY DEF IInv, TypeOK, NetworkTypeOK, Moving, AddressKept
  <1> QED
    BY <1>1, LaunchInvariant, PTL

\* The jump host's sources.list.d is never lost, however many runs are cut, and
\* wherever (prepare.sh:152-154, 230-232).
THEOREM ListNeverLost == Spec => []ListKept
  <1>1. IInv => ListKept
    BY DEF IInv, ListSafe
  <1> QED
    BY <1>1, LaunchInvariant, PTL

\* The jump host's sources.list.d is in its place after the preparation of every first
\* run without network, and as long as no run is cut, apt and pip are as they were
\* whenever none of the steps is under way (prepare.sh:150-242).
THEOREM KeepsSources == Spec => []SourcesKept
  <1>1. IInv => SourcesKept
    <2> SUFFICES ASSUME IInv PROVE SourcesKept
      OBVIOUS
    <2>1. ListKept
      BY DEF IInv, ListSafe
    <2>2. pc \notin {"off", "prepare"} /\ opt.first /\ opt.offline => conf[ListDir] = "own"
      BY NoStepsLeft DEF IInv, Following, ListBack
    <2>3. ASSUME ~ cut, steps = <<>>
          PROVE  conf = found /\ \A f \in File : bak[f] = "none"
      <3>1. InPlace(ListDir) /\ InPlace(AptConf) /\ InPlace(Sources) /\ InPlace(PipConf)
        BY <2>3, NoStepsLeft DEF IInv, Uncut, ListWhere, AptWhere, SourcesWhere, PipWhere
      <3>2. \A f \in File : conf[f] = found[f] /\ bak[f] = "none"
        BY <3>1, FilesDiffer DEF InPlace
      <3> QED
        BY <3>2 DEF IInv, TypeOK, PackagesTypeOK
    <2> QED
      BY <2>1, <2>2, <2>3 DEF SourcesKept
  <1> QED
    BY <1>1, LaunchInvariant, PTL

\* An expansion leaves the machines of the base deployment and of the deck alone
\* (launch.sh:42-92).
THEOREM ExpansionsKeep == Spec => ExpansionKeeps
  <1>1. IInv /\ [Next]_vars =>
          [ Running /\ opt.expansion => vm'["base"] = vm["base"] /\ deck \subseteq deck' ]_vars
    <2> SUFFICES ASSUME IInv, Next, Running, opt.expansion
                 PROVE  vm'["base"] = vm["base"] /\ deck \subseteq deck'
      OBVIOUS
    <2> USE DEF IInv, TypeOK, Goto, Fails, Exit, Ends, Running, vars, launchVars, fileVars,
                worldVars, packageVars, networkVars
    <2>1. Name = "extra" /\ {"base", "extra"} = Names
      BY DEF Name, Names
    <2>2. CASE UNCHANGED <<vm, deck>>
      BY <2>1, <2>2
    <2>3. CASE Recover
      BY <2>1, <2>3 DEF Recover, Checked
    <2>4. CASE GetMachines
      BY <2>1, <2>4 DEF GetMachines, TearDown, Checked
    <2>5. CASE RefreshCompass
      BY <2>1, <2>5 DEF RefreshCompass, Checked
    <2>6. CASE SetUpNets
      BY <2>1, <2>6 DEF SetUpNets, Checked
    <2>7. CASE LaunchCompass
      BY <2>1, <2>7 DEF LaunchCompass, Checked
    <2>8. CASE LaunchCompassFails
      BY <2>1, <2>8 DEF LaunchCompassFails, Checked
    <2>9. CASE SetCompassMachine
      BY <2>1, <2>9 DEF SetCompassMachine, Checked
    <2>10. CASE LaunchHostVms
      BY <2>1, <2>10 DEF LaunchHostVms, Checked
    <2>11. ASSUME ~ Recover, ~ GetMachines, ~ RefreshCompass, ~ SetUpNets, ~ LaunchCompass,
           ~ LaunchCompassFails, ~ SetCompassMachine, ~ LaunchHostVms
          PROVE  UNCHANGED <<vm, deck>>
      BY <2>11 DEF Next, Script, Start, Prepare, PrepareExits, Prepared, CheckInput,
                   ConfigParse, NoMachines, KeepCompass, MoveAddress, DeployHost,
                   DeployHostFails, Done, Kill, Reboot, Idle
    <2> QED
      BY <2>2, <2>3, <2>4, <2>5, <2>6, <2>7, <2>8, <2>9, <2>10, <2>11
  <1> QED
    BY <1>1, LaunchInvariant, PTL DEF ExpansionKeeps, Spec
=============================================================================
