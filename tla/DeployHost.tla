------------------------------ MODULE DeployHost -------------------------------
(***************************************************************************)
(* deploy_host.sh: a background job sleeps, edits the cobbler systems      *)
(* (bonding.py, rename_nics.py) and, on bare metal, power-cycles the hosts *)
(* into PXE with the script made from ipmitool.tmpl, while client.py asks  *)
(* the deck for the deployment, as a result of which the deck writes the   *)
(* cobbler systems.  Nothing but the length of the sleep relates the two.  *)
(* launch.sh has check_valid.py read the DHA file first; how the file      *)
(* writes a host's interfaces is kept because the two scripts that read it *)
(* differ on it.                                                           *)
(*                                                                         *)
(* Of the client only what matters here is kept: whether the deck accepted *)
(* the deployment and how the client ended (DeploySession and              *)
(* InstallMonitor have the rest).                                          *)
(***************************************************************************)
EXTENDS Naturals, Sequences, SequencesExt

CONSTANTS
    Order,      \* the hosts of the DHA file, in its order
    Bonds,      \* the hosts bond_mappings names, in its order
    Tries       \* attempts of an ipmitool command (5)

ASSUME DeployHostAssumption ==
    /\ Order \in Seq(ToSet(Order)) /\ IsInjective(Order)
    /\ Bonds \in Seq(ToSet(Order))
    /\ Tries \in Nat \ {0}

Host == ToSet(Order)

VARIABLES
    dha,        \* the DHA file: TYPE, and how each host's interfaces are written
    shell,      \* deploy_host itself
    status,     \* RET: the exit status it keeps
    client,     \* client.py
    accepted,   \* the deck has accepted the deployment
    systems,    \* the hosts cobbler has a system for
    job,        \* the background job
    rest,       \* the hosts the job still has to handle in this state
    attempt,    \* the attempt of the current ipmitool command
    bonded,     \* the systems with their bonds
    renamed,    \* the systems with their interfaces
    synced,     \* those of them cobbler had written out when it last synced
    pxe,        \* the hosts told to boot from the network
    reset,      \* the hosts reset
    known       \* those of them cobbler had a system for at that moment

clientVars == <<client, accepted, systems>>
editVars == <<bonded, renamed, synced>>
powerVars == <<pxe, reset, known>>
jobVars == <<job, rest, attempt, editVars, powerVars>>
vars == <<dha, shell, status, clientVars, jobVars>>

\* A list of pairs (every DHA file of the repository), a mapping (what config_parse
\* makes of a virtual host), or nothing.
Forms == {"list", "mapping", "empty"}

Init ==
    /\ dha \in [type : {"baremetal", "virtual"}, form : [Host -> Forms]]
    /\ shell = "check"
    /\ status = "none"
    /\ client = "none"
    /\ accepted = FALSE
    /\ systems = {}
    /\ job = "none"
    /\ rest = <<>>
    /\ attempt = 1
    /\ bonded = {} /\ renamed = {} /\ synced = {}
    /\ pxe = {} /\ reset = {} /\ known = {}

-----------------------------------------------------------------------------
(* check_input_para, before anything else. *)

\* check_dha_file asks the interfaces of a bare metal host for their values as a
\* mapping; a list makes it raise, and launch.sh exits.
Valid == dha.type = "baremetal" => \A h \in Host : dha.form[h] # "list"

Refuse ==
    /\ shell = "check"
    /\ ~ Valid
    /\ shell' = "refused"
    /\ UNCHANGED <<dha, status, clientVars, jobVars>>

\* The job and the client are started.
Begin ==
    /\ shell = "check"
    /\ Valid
    /\ shell' = "waiting"
    /\ client' = "running"
    /\ job' = "sleep"
    /\ UNCHANGED <<dha, status, accepted, systems, rest, attempt, editVars, powerVars>>

-----------------------------------------------------------------------------
(* client.py and the deck. *)

DeckAccepts ==
    /\ client = "running"
    /\ ~accepted
    /\ accepted' = TRUE
    /\ UNCHANGED <<dha, client, systems, shell, status, jobVars>>

\* The deck's tasks write a system, even after the client gave up.
WriteSystem(h) ==
    /\ accepted
    /\ h \notin systems
    /\ systems' = systems \union {h}
    /\ UNCHANGED <<dha, client, accepted, shell, status, jobVars>>

ClientFails ==
    /\ client = "running"
    /\ client' = "failed"
    /\ UNCHANGED <<dha, accepted, systems, shell, status, jobVars>>

\* The installation needs every system.
ClientSucceeds ==
    /\ client = "running"
    /\ systems = Host
    /\ client' = "succeeded"
    /\ UNCHANGED <<dha, accepted, systems, shell, status, jobVars>>

-----------------------------------------------------------------------------
(* deploy_host. *)

\* Defect: the status is taken after the sleep, whose own it then is.
SleepStatus ==
    /\ shell = "waiting"
    /\ client # "running"
    /\ status' = "succeeded"
    /\ shell' = "sleep"
    /\ UNCHANGED <<dha, clientVars, jobVars>>

\* RET=$?, then a sleep of five seconds more than the job's.
KeepStatus ==
    /\ shell = "waiting"
    /\ client # "running"
    /\ status' = client
    /\ shell' = "sleep"
    /\ UNCHANGED <<dha, clientVars, jobVars>>

\* The job's sleep began before the client did, so it is over too; the job is not
\* waited for.
Return ==
    /\ shell = "sleep"
    /\ job # "sleep"
    /\ shell' = "returned"
    /\ UNCHANGED <<dha, status, clientVars, jobVars>>

-----------------------------------------------------------------------------
(* The background job: the cobbler systems. *)

SleepOver ==
    /\ job = "sleep"
    /\ job' = "bond"
    /\ rest' = Bonds
    /\ UNCHANGED <<dha, shell, status, clientVars, attempt, editVars, powerVars>>

\* cobbler refuses to edit a system it does not have, and the ssh that carries the
\* edit may fail; os.system's result is dropped.
AddBonding ==
    /\ job = "bond"
    /\ rest # <<>>
    /\ bonded' \in {bonded, bonded \union ({Head(rest)} \intersect systems)}
    /\ rest' = Tail(rest)
    /\ UNCHANGED <<dha, shell, status, clientVars, job, attempt, renamed, synced, powerVars>>

BondingDone ==
    /\ job = "bond"
    /\ rest = <<>>
    /\ job' = "rename"
    /\ rest' = Order
    /\ UNCHANGED <<dha, shell, status, clientVars, attempt, editVars, powerVars>>

\* reboot_hosts: on bare metal there may be no POWER_MANAGE (no POWER_TOOL in the
\* DHA file), and the script made for a host without ipmi settings only complains;
\* otherwise it begins with the first host.  For virtual hosts it does nothing.
RebootHosts == IF dha.type = "virtual" THEN {"done"} ELSE {"power_on", "done", "failed"}

\* The same for the pairs in a host's list of interfaces.
RenameNics ==
    /\ job = "rename"
    /\ rest # <<>>
    /\ dha.form[Head(rest)] # "mapping"
    /\ renamed' = IF dha.form[Head(rest)] = "list"
                  THEN renamed \union ({Head(rest)} \intersect systems)
                  ELSE renamed
    /\ rest' = Tail(rest)
    /\ UNCHANGED <<dha, shell, status, clientVars, job, attempt, bonded, synced, powerVars>>

\* A mapping yields names, which have no keys(): rename_nics.py raises, and the job
\* goes on with reboot_hosts.
RenameRaises ==
    /\ job = "rename"
    /\ rest # <<>>
    /\ dha.form[Head(rest)] = "mapping"
    /\ job' \in RebootHosts
    /\ rest' = Order
    /\ UNCHANGED <<dha, shell, status, clientVars, attempt, editVars, powerVars>>

\* 'cobbler sync', then reboot_hosts.
CobblerSync ==
    /\ job = "rename"
    /\ rest = <<>>
    /\ synced' = renamed
    /\ job' \in RebootHosts
    /\ rest' = Order
    /\ UNCHANGED <<dha, shell, status, clientVars, attempt, bonded, renamed, powerVars>>

-----------------------------------------------------------------------------
(* The background job: the power script.  (It skips 'bootdev pxe' in a     *)
(* recovery, where deploy_host is not run.)                                *)

Commands == {"power_on", "bootdev_pxe", "power_reset"}

\* Defect: the failure of a command is only logged.
CommandSkipped ==
    /\ job \in Commands
    /\ rest # <<>>
    /\ attempt = Tries
    /\ attempt' = 1
    /\ job' = IF job = "power_on" THEN "bootdev_pxe"
              ELSE IF job = "bootdev_pxe" THEN "power_reset" ELSE "power_on"
    /\ rest' = IF job = "power_reset" THEN Tail(rest) ELSE rest
    /\ UNCHANGED <<dha, shell, status, clientVars, editVars, powerVars>>

\* Defect: the script goes on with the next host.
HostSkipped ==
    /\ job \in Commands
    /\ rest # <<>>
    /\ attempt = Tries
    /\ attempt' = 1
    /\ job' = "power_on"
    /\ rest' = Tail(rest)
    /\ UNCHANGED <<dha, shell, status, clientVars, editVars, powerVars>>

\* The last attempt of a command fails: exit 1, for the hosts to come as well.
PowerGivesUp ==
    /\ job \in Commands
    /\ rest # <<>>
    /\ attempt = Tries
    /\ job' = "failed"
    /\ UNCHANGED <<dha, shell, status, clientVars, rest, attempt, editVars, powerVars>>

\* Defect: the attempts start over.
PowerRetriesForEver ==
    /\ job \in Commands
    /\ rest # <<>>
    /\ attempt' = IF attempt < Tries THEN attempt + 1 ELSE 1
    /\ UNCHANGED <<dha, shell, status, clientVars, job, rest, editVars, powerVars>>

PowerRetries ==
    /\ job \in Commands
    /\ rest # <<>>
    /\ attempt < Tries
    /\ attempt' = attempt + 1
    /\ UNCHANGED <<dha, shell, status, clientVars, job, rest, editVars, powerVars>>

PowerOn ==
    /\ job = "power_on"
    /\ rest # <<>>
    /\ job' = "bootdev_pxe"
    /\ attempt' = 1
    /\ UNCHANGED <<dha, shell, status, clientVars, rest, editVars, powerVars>>

BootdevPxe ==
    /\ job = "bootdev_pxe"
    /\ pxe' = pxe \union {Head(rest)}
    /\ job' = "power_reset"
    /\ attempt' = 1
    /\ UNCHANGED <<dha, shell, status, clientVars, rest, editVars, reset, known>>

PowerReset ==
    /\ job = "power_reset"
    /\ reset' = reset \union {Head(rest)}
    /\ known' = known \union ({Head(rest)} \intersect systems)
    /\ rest' = Tail(rest)
    /\ job' = "power_on"
    /\ attempt' = 1
    /\ UNCHANGED <<dha, shell, status, clientVars, editVars, pxe>>

PowerDone ==
    /\ job = "power_on"
    /\ rest = <<>>
    /\ job' = "done"
    /\ UNCHANGED <<dha, shell, status, clientVars, rest, attempt, editVars, powerVars>>

-----------------------------------------------------------------------------

Shell ==
    \/ Refuse
    \/ Begin
    \/ KeepStatus
    \/ Return

Client == ClientFails \/ ClientSucceeds

Deck == DeckAccepts \/ \E h \in Host : WriteSystem(h)

Job ==
    \/ SleepOver
    \/ AddBonding
    \/ BondingDone
    \/ RenameNics
    \/ RenameRaises
    \/ CobblerSync
    \/ PowerGivesUp
    \/ PowerRetries
    \/ PowerOn
    \/ BootdevPxe
    \/ PowerReset
    \/ PowerDone

JobOver == job \in {"done", "failed"}

Ended == shell = "refused" \/ (shell = "returned" /\ JobOver)

Idle ==
    /\ Ended
    /\ UNCHANGED vars

Next ==
    \/ Shell
    \/ Client
    \/ Deck
    \/ Job
    \/ Idle

Spec == Init /\ [][Next]_vars

\* The two processes run, and the client returns (ClientReturns of Installation).
FairSpec == Spec /\ WF_vars(Shell) /\ WF_vars(Client) /\ WF_vars(Job)

-----------------------------------------------------------------------------

TypeOK ==
    /\ dha \in [type : {"baremetal", "virtual"}, form : [Host -> Forms]]
    /\ shell \in {"check", "refused", "waiting", "sleep", "returned"}
    /\ status \in {"none", "succeeded", "failed"}
    /\ client \in {"none", "running", "succeeded", "failed"}
    /\ accepted \in BOOLEAN
    /\ job \in Commands \union {"none", "sleep", "bond", "rename", "done", "failed"}
    /\ rest \in Seq(Host)
    /\ attempt \in 1..Tries
    /\ systems \subseteq Host
    /\ pxe \subseteq Host
    /\ reset \subseteq Host
    /\ bonded \subseteq systems
    /\ synced \subseteq renamed
    /\ renamed \subseteq systems
    /\ known \subseteq reset \intersect systems

\* A host restarts only after it was told to boot from the network, although every
\* command has retries of its own and may be the one that fails (the template's
\* order of commands); otherwise it would start the system it has on its disk.
ResetPrepared == reset \subseteq pxe

\* The hosts are reset in the order of the DHA file and none is left out: when the
\* script stops at a host, no host after it was touched (exit 1).
ResetInOrder ==
    \A j, k \in DOMAIN Order :
        j < k /\ Order[k] \in pxe \union reset => Order[j] \in reset

\* What deploy_host returns is how the client ended, although it sleeps in between
\* and the job may have failed or still be at work.
StatusIsClients == shell = "returned" => status = client

\* deploy_host returns and the background job ends, whatever ipmitool does.
BothEnd == <>Ended

\* "interfaces -- Host NIC renamed according to NIC MAC addresses when OS
\* provisioning" (bmdeploy.rst): a host that cobbler installs is renamed.
InstalledRenamed ==
    \A h \in known : dha.form[h] # "empty" => h \in renamed
=============================================================================
