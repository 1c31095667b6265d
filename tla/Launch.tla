--------------------------------- MODULE Launch --------------------------------
(***************************************************************************)
(* deploy.sh and launch.sh: run after run of the script, each with options *)
(* of its own, over what the runs before it left: the jump host's          *)
(* configuration (JumphostPackages), its network (JumphostNetwork), the    *)
(* containers with the deck in them, and the virtual machines.  A run may  *)
(* be killed at any moment.                                                *)
(*                                                                         *)
(* The virtual machines of the base DHA file are one machine here, those   *)
(* of an expansion's another.  config_parse draws new MAC addresses for    *)
(* virtual machines in each run, so that an address is the number of its   *)
(* run; the addresses of bare metal are the 0.                             *)
(***************************************************************************)
EXTENDS JumphostPackages, JumphostNetwork, FiniteSets

CONSTANTS
    Options,   \* the ways to call deploy.sh
    MaxRuns    \* bound on the runs

ASSUME LaunchAssumption ==
    /\ MaxRuns \in Nat
    /\ Options \subseteq
         [first : BOOLEAN,      \* DEPLOY_FIRST_TIME
          recovery : BOOLEAN,   \* DEPLOY_RECOVERY
          expansion : BOOLEAN,  \* EXPANSION
          compass : BOOLEAN,    \* DEPLOY_COMPASS
          host : BOOLEAN,       \* DEPLOY_HOST
          redeploy : BOOLEAN,   \* REDEPLOY_HOST
          virtual : BOOLEAN,    \* TYPE
          offline : BOOLEAN,    \* JHPKG_URL is given
          nat : BOOLEAN,        \* NAT_EXTERNAL
          valid : BOOLEAN,      \* check_valid.py accepts the files
          stopsAt : {"dha", "install", "hosts", "reset", "none"}]  \* where config_parse raises

VARIABLES
    run,         \* runs so far
    opt,         \* the options of the last
    pc,          \* what launch.sh is about to do
    verdict,     \* what deploy.sh made of it
    config,      \* what this run's deploy_config.sh sets
    machineFile, \* the machine file's path is exported
    listed,      \* the MAC address in the machine file
    alive,       \* the containers run
    deck,        \* the MAC addresses the deck has machines for
    vm,          \* the virtual machines
    harmed       \* this run has destroyed something of the runs before it

fileVars == <<config, listed>>
worldVars == <<alive, deck, vm, harmed>>
launchVars == <<run, opt, pc, verdict, machineFile, fileVars, worldVars>>
vars == <<launchVars, packageVars, networkVars>>

Names == {"base", "extra"}
Addresses == 0..MaxRuns

\* A machine that runs without being defined is gone when it stops.
NoVm == [defined |-> FALSE, mac |-> 0, up |-> FALSE]
There(v) == v.defined \/ v.up

Init ==
    /\ PackagesInit /\ NetworkInit
    /\ run = 0 /\ opt \in Options
    /\ pc = "off" /\ verdict = "none"
    /\ config = {} /\ machineFile = FALSE
    /\ listed = 0
    /\ alive = FALSE /\ deck = {}
    /\ vm = [n \in Names |-> NoVm]
    /\ harmed = FALSE

Running == pc # "off"
Goto(stage) == pc' = stage /\ UNCHANGED <<run, opt, verdict>>

Name == IF opt.expansion THEN "extra" ELSE "base"

-----------------------------------------------------------------------------
(* The end of a run: deploy.sh looks for the last line of launch.sh in the log. *)

Ends(v) ==
    /\ pc' = "off" /\ verdict' = v
    /\ UNCHANGED <<run, opt, machineFile, fileVars, worldVars>>

Exit == Ends("failure")

Kill ==
    /\ Running
    /\ Exit /\ PackagesEnd /\ NetworkEnd

\* A command's exit status makes launch.sh exit 1.
Fails == Exit /\ UNCHANGED <<packageVars, networkVars>>

-----------------------------------------------------------------------------
(* prepare_python_env, and the parameters. *)

\* A virtual environment that cannot be activated is made again.
Start(o) ==
    /\ ~ Running
    /\ run < MaxRuns
    /\ run' = run + 1 /\ opt' = o
    /\ pc' = "prepare" /\ verdict' = "none"
    /\ config' = {} /\ machineFile' = FALSE /\ harmed' = FALSE
    /\ steps' \in IF ~ o.offline THEN {<<>>}
                  ELSE IF o.first THEN {EnvSteps \o PipSteps} ELSE {<<>>, PipSteps}
    /\ UNCHANGED <<listed, alive, deck, vm, found, conf, bak, cut, networkVars>>

Prepare ==
    /\ pc = "prepare"
    /\ PackageStep
    /\ UNCHANGED <<launchVars, networkVars>>

PrepareExits ==
    /\ pc = "prepare"
    /\ MayExit
    /\ Exit /\ PackagesEnd
    /\ UNCHANGED networkVars

Prepared ==
    /\ pc = "prepare"
    /\ steps = <<>>
    /\ Goto("check")
    /\ UNCHANGED <<machineFile, fileVars, worldVars, packageVars, networkVars>>

\* Defect: check_input_para exits a subshell only.
CheckInputInSubshell ==
    /\ pc = "check"
    /\ Goto("parse")
    /\ UNCHANGED <<machineFile, fileVars, worldVars, packageVars, networkVars>>

CheckInput ==
    /\ pc = "check"
    /\ IF opt.valid
       THEN /\ Goto("parse")
            /\ UNCHANGED <<machineFile, fileVars, worldVars, packageVars, networkVars>>
       ELSE Fails

\* The parts of deploy_config.sh, in the order config_parse writes them.
Parts == <<"dha", "install", "hosts", "reset">>
Before(part) ==
    {Parts[i] : i \in {i \in DOMAIN Parts : \A j \in 1..i : Parts[j] # part}}

\* config_parse's status is lost in $(process_default_para); what it wrote before it
\* raised is sourced.  Only without TYPE there is no host_$TYPE.sh, and with it no
\* get_host_macs: launch.sh finds no machines and exits.
ConfigParse ==
    /\ pc = "parse"
    /\ config' = Before(opt.stopsAt)
    /\ listed' = IF "dha" \notin config' THEN listed ELSE IF opt.virtual THEN run ELSE 0
    /\ Goto(IF opt.recovery THEN "recover" ELSE "machines")
    /\ UNCHANGED <<machineFile, worldVars, packageVars, networkVars>>

\* recover_cluster (module Recovery) restarts the virtual machines; then exit 0,
\* without the line.
Recover ==
    /\ pc = "recover"
    /\ \E up \in BOOLEAN :
         /\ up # vm[Name].up => opt.virtual /\ "dha" \in config /\ There(vm[Name])
         /\ vm' = [vm EXCEPT ![Name].up = up]
    /\ pc' = "off" /\ verdict' = "failure"
    /\ UNCHANGED <<run, opt, machineFile, fileVars, alive, deck, harmed,
                   packageVars, networkVars>>

-----------------------------------------------------------------------------
(* Machines, containers and networks. *)

NoMachines ==
    /\ pc = "machines"
    /\ "dha" \notin config
    /\ Fails

\* tear_down_machines: neither virsh destroy nor virsh undefine is checked.
TornDown(v) ==
    {NoVm} \union {w \in {v, [v EXCEPT !.up = FALSE], [v EXCEPT !.defined = FALSE]} : There(w)}

\* The disk of a machine is removed whether or not the machine is.
TearDown ==
    /\ harmed' = (harmed \/ (opt.virtual /\ There(vm[Name])))
    /\ IF opt.virtual
       THEN \E v \in TornDown(vm[Name]) : vm' = [vm EXCEPT ![Name] = v]
       ELSE UNCHANGED vm

\* Defect: the machines are torn down whatever EXPANSION says.
GetMachinesAnyway ==
    /\ pc = "machines"
    /\ "dha" \in config
    /\ TearDown
    /\ machineFile' = TRUE
    /\ Goto("compass")
    /\ UNCHANGED <<fileVars, alive, deck, packageVars, networkVars>>

\* tear_down_machines and get_host_macs.  An expansion only gets the addresses, and
\* does not export machine_file.
GetMachines ==
    /\ pc = "machines"
    /\ "dha" \in config
    /\ IF opt.expansion
       THEN Goto("add") /\ UNCHANGED <<vm, harmed, machineFile>>
       ELSE TearDown /\ machineFile' = TRUE /\ Goto("compass")
    /\ UNCHANGED <<fileVars, alive, deck, packageVars, networkVars>>

NewCompass == opt.first \/ (opt.compass /\ ~ alive)

KeepCompass ==
    /\ pc = "compass"
    /\ ~ NewCompass /\ ~ opt.compass
    /\ Goto("add")
    /\ UNCHANGED <<machineFile, fileVars, worldVars, packageVars, networkVars>>

\* refresh_compass_core
RefreshCompass ==
    /\ pc = "compass"
    /\ ~ NewCompass /\ opt.compass
    /\ deck' = {} /\ harmed' = (harmed \/ deck # {})
    /\ Goto("add")
    /\ UNCHANGED <<machineFile, fileVars, alive, vm, packageVars, networkVars>>

\* prepare_env, which removes the disks of all virtual machines, and create_nets: with
\* NAT_EXTERNAL=false the jump host's own address moves to the bridge.
SetUpNets ==
    /\ pc = "compass"
    /\ NewCompass
    /\ IF opt.virtual /\ ~ opt.nat
       THEN SaveNetworkInfo
       ELSE UNCHANGED networkVars
    /\ harmed' = (harmed \/ \E n \in Names : There(vm[n]))
    /\ Goto("nets")
    /\ UNCHANGED <<machineFile, fileVars, alive, deck, vm, packageVars>>

MoveAddress ==
    /\ pc = "nets"
    /\ MoveOn
    /\ UNCHANGED <<launchVars, packageVars>>

\* launch_compass: the containers and the database in them are made anew.
LaunchCompass ==
    /\ pc = "nets" /\ moving = "no"
    /\ alive' = TRUE
    /\ deck' = {} /\ harmed' = (harmed \/ deck # {})
    /\ Goto("add")
    /\ UNCHANGED <<machineFile, fileVars, vm, packageVars, networkVars>>

\* The playbook fails anywhere between taking the containers down and the end.
LaunchCompassFails ==
    /\ pc = "nets" /\ moving = "no"
    /\ alive' \in BOOLEAN
    /\ deck' \in {deck, {}}
    /\ harmed' = (harmed \/ deck' # deck \/ (alive /\ ~ alive'))
    /\ pc' = "off" /\ verdict' = "failure"
    /\ UNCHANGED <<run, opt, machineFile, fileVars, vm, packageVars, networkVars>>

\* set_compass_machine, whose failure is only logged.
SetCompassMachine ==
    /\ pc = "add"
    /\ deck' \in IF opt.redeploy THEN {deck} ELSE {deck, deck \union {listed}}
    /\ deck' # deck => alive
    /\ Goto(IF opt.host \/ opt.redeploy THEN "vms" ELSE "done")
    /\ UNCHANGED <<machineFile, fileVars, alive, vm, harmed, packageVars, networkVars>>

-----------------------------------------------------------------------------
(* The hosts. *)

\* Defining and starting are not checked.  A machine that is there, because it was
\* not torn down, is not defined again: it keeps its address.
AfterDefine(v) ==
    CASE v.defined -> {v, [v EXCEPT !.up = TRUE]}
      [] v.up /\ ~ v.defined -> {v}
      [] OTHER -> {v} \union [defined : {TRUE}, mac : {listed}, up : BOOLEAN]

LaunchHostVms ==
    /\ pc = "vms"
    /\ IF opt.virtual
       THEN \E v \in AfterDefine(vm[Name]) : vm' = [vm EXCEPT ![Name] = v]
       ELSE UNCHANGED vm
    /\ Goto("hosts")
    /\ UNCHANGED <<machineFile, fileVars, alive, deck, harmed, packageVars, networkVars>>

\* The hosts of the cluster are the machines in the machine file.
Bootable == opt.virtual => vm[Name].up /\ vm[Name].mac = listed

\* client.py: it needs the deck, HOST_NETWORKS and a machine file whose machines the
\* deck has, and succeeds when the hosts have booted and report (DeploySession,
\* Installation); an expansion and a redeployment end in a TypeError.  The reset of
\* bare metal is a job of its own whose status nobody reads, and which does nothing
\* without POWER_MANAGE: somebody else may have started the hosts.
ClientMaySucceed ==
    /\ alive
    /\ "hosts" \in config
    /\ machineFile /\ listed \in deck
    /\ Bootable
    /\ ~ opt.expansion /\ ~ opt.redeploy

\* Defect: deploy_host's status is lost.
DeployHostUnchecked ==
    /\ pc = "hosts"
    /\ Goto("done")
    /\ UNCHANGED <<machineFile, fileVars, worldVars, packageVars, networkVars>>

DeployHost ==
    /\ pc = "hosts"
    /\ ClientMaySucceed
    /\ Goto("done")
    /\ UNCHANGED <<machineFile, fileVars, worldVars, packageVars, networkVars>>

DeployHostFails ==
    /\ pc = "hosts"
    /\ Fails

\* 'compass deploy success'
Done ==
    /\ pc = "done"
    /\ Ends("success")
    /\ UNCHANGED <<packageVars, networkVars>>

-----------------------------------------------------------------------------

\* Between runs the jump host may be rebooted: no container and no virtual machine
\* comes back by itself.
Reboot ==
    /\ ~ Running
    /\ alive' = FALSE
    /\ vm' = [n \in Names |-> IF vm[n].defined THEN [vm[n] EXCEPT !.up = FALSE] ELSE NoVm]
    /\ NetworkReboot
    /\ UNCHANGED <<run, opt, pc, verdict, machineFile, fileVars, deck, harmed, packageVars>>

Idle == ~ Running /\ run = MaxRuns /\ UNCHANGED vars

Script ==
    \/ Prepare \/ PrepareExits \/ Prepared
    \/ CheckInput \/ ConfigParse \/ Recover
    \/ NoMachines \/ GetMachines
    \/ KeepCompass \/ RefreshCompass
    \/ SetUpNets \/ MoveAddress \/ LaunchCompass \/ LaunchCompassFails
    \/ SetCompassMachine \/ LaunchHostVms
    \/ DeployHost \/ DeployHostFails \/ Done

Next ==
    \/ \E o \in Options : Start(o)
    \/ Script
    \/ Kill
    \/ Reboot
    \/ Idle

Spec == Init /\ [][Next]_vars

-----------------------------------------------------------------------------

TypeOK ==
    /\ PackagesTypeOK /\ NetworkTypeOK
    /\ run \in 0..MaxRuns /\ opt \in Options
    /\ pc \in {"off", "prepare", "check", "parse", "recover", "machines", "compass", "nets",
               "add", "vms", "hosts", "done"}
    /\ verdict \in {"none", "success", "failure"}
    /\ config \subseteq ToSet(Parts) /\ machineFile \in BOOLEAN
    /\ listed \in Addresses
    /\ alive \in BOOLEAN /\ deck \subseteq Addresses
    /\ vm \in [Names -> [defined : BOOLEAN, mac : Addresses, up : BOOLEAN]]
    /\ harmed \in BOOLEAN

\* deploy.sh reports success of a run that was to deploy hosts only if the machines
\* and the networks were configured, the deck has the machines of this very run, and
\* a virtual machine runs with the address the deck knows: neither a lost status of
\* config_parse, nor set_compass_machine's, nor a teardown, a definition or a start
\* that virsh failed gets past the client (launch.sh:101-121, deploy.sh:59).  What does
\* is the last part, the reset script: no success says that there is one.
SuccessIsDeployed ==
    verdict = "success" /\ (opt.host \/ opt.redeploy) =>
        /\ {"dha", "install", "hosts"} \subseteq config
        /\ listed \in deck
        /\ opt.virtual => listed = run /\ vm[Name].defined /\ vm[Name].mac = run

\* Nothing of an earlier run is destroyed - machines torn down, the deck's database
\* made anew - by a run whose files check_valid.py refuses, or whose DHA file
\* config_parse cannot read, or by a recovery.  (A run whose network file has too few
\* addresses, stopsAt = "hosts", does destroy it before it fails.)
HarmIsChecked ==
    harmed => opt.valid /\ "dha" \in config /\ ~ opt.recovery

\* An expansion leaves the machines of the base deployment as they are, and takes no
\* machine from the deck.
ExpansionKeeps ==
    [][ Running /\ opt.expansion => vm'["base"] = vm["base"] /\ deck \subseteq deck' ]_vars

\* sources.list.d is never lost, however many runs are cut short: it is in its place
\* or next to it, and in its place once the preparation of a first deployment without
\* network is over.  Without a cut, apt and pip are as they were.  (A second run after a cut loses apt.conf, sources.list
\* and pip.conf: prepare.sh:157 and 167 move their replacements over them.)
SourcesKept ==
    /\ ListKept
    /\ pc \notin {"off", "prepare"} /\ opt.first /\ opt.offline => conf[ListDir] = "own"
    /\ ~ cut /\ steps = <<>> => conf = found /\ \A f \in File : bak[f] = "none"

\* The jump host keeps its address and its default route, both on its interface or
\* both on the bridge, as long as no run ends between the flush and the last command
\* and no command fails; and the runs after it take neither off the bridge again.  The
\* unchecked commands are the only other way to lose them (network.sh:53-68).
AddressKept ==
    ~ netBroken /\ moving \notin {"address", "route"} =>
        address = {route} /\ (~ bridge => route = "nic")

\* client.py is given the machine file it opens.
MachineFileGiven == pc = "hosts" => machineFile
=============================================================================
