# compass4nfv in TLA+

compass4nfv installs an OPNFV cluster from one machine, the jump host. This
directory holds TLA+ models of the parts of it that carry its own logic, TLC
configurations that check them on small instances, and TLAPS proofs of the
results that matter most for instances of any size. Paths below are relative to
the repository.

- [1. The system](#1-the-system)
- [2. Modules and the code they model](#2-modules-and-the-code-they-model)
- [3. What the runs check](#3-what-the-runs-check)
- [4. What is proved](#4-what-is-proved)
- [5. Where code and text disagree](#5-where-code-and-text-disagree)
- [6. What is not modelled](#6-what-is-not-modelled)
- [7. Plan](#7-plan)
- [8. Running the checks](#8-running-the-checks)

## 1. The system

`deploy.sh` runs `deploy/launch.sh` on the jump host. That script checks its
input, prepares the jump host (packages, networks), starts the containers of
*compass* - `compass-deck` (a REST service with a database), `compass-tasks`
(runs `ansible-playbook`), `compass-cobbler` (boots machines by PXE) - and then
calls `deploy_host`, which starts two processes: `deploy/client.py`, which tells
the deck what to install and waits for it, and a background job that edits
cobbler's systems and resets the machines. When the operating systems are
installed, compass-tasks runs a playbook whose result the callback plugin
`status_callback.py` posts to the deck, where the client reads it.
`deploy/recovery.sh` brings a cluster back after the jump host was restarted.

```
 launch.sh --> deploy_host --+--> client.py ---requests---> compass-deck --> compass-tasks
                             |        ^                        ^    |             |
                             |        +---polls state----------+    v             v
                             +--> background job --ssh--> compass-cobbler   ansible-playbook
                                       |                        ^                 |
                                       +--ipmitool--> hosts -PXE+   status_callback +--> deck
```

The parts share the deck's tables, cobbler's systems, files of the work
directory and the state of the machines. Nothing in the code is transactional:
each part makes a sequence of calls, stops at the first failure (or ignores it)
and leaves what the earlier calls did.

### Components

| component | state it keeps | operations | what makes it right |
|---|---|---|---|
| role pass of the client (`client.py`, `set_all_hosts_roles`) | `role_mapping`, `host_roles`, the leftover lists | one call to the deck per host, in three passes | required roles are covered; what is marked assigned is held; no host is written twice |
| client runs (`client.py`, `deploy`, `redeploy`) | `host_mapping`, `host_ips`, the machine list | a dozen requests in a fixed order, per run | what a failed run leaves behind never reaches a deployment half configured |
| client waiting (`get_ansible_print`, `get_installing_progress`) | deadlines, the printing process, attempts | poll, sleep, give up, terminate the printer | the verdict is true, it comes, and no process is left behind |
| status callback | statistics of the play, the hosts to report | log in, read the cluster's hosts, post a state for each | a state in the deck says what the play did |
| `deploy_host` and its job | cobbler's systems, the machines' power | sleep, bond, rename, sync, power on / PXE / reset | reset in order and prepared; the exit status is the client's |
| recovery | attempts, the captured text of checks | start the compass machine, restart hosts, probe, stop and recover services | ends; touches only what answered |
| `launch.sh`, `deploy.sh`, `compass_vm.sh` | the configuration, containers, the deck's database, the machine file, virtual machines | check, parse, tear down, launch or refresh, add machines, dispatch | a success is one; nothing is destroyed before the files were checked and the DHA file was read; an expansion leaves the base alone |
| input check, `config_parse.py` | none; environment variables | read DHA and network files | what they accept the later scripts can read |
| REST client (`restful.py`) | the session's token; the caller's dictionary | some hundred methods, each one request | a call has its effect at most once and its result tells; a field nobody named is not overwritten; the token is carried |
| jump host packages, networks (`prepare.sh`, `network.sh`) | apt's and pip's configuration, the external address and route | move away, replace, move back; flush, add to the bridge | nothing of the jump host is lost, as far as no run is cut in between and no command fails |
| package cache, ISO build (`build/parser.py`, `build.sh`) | cached files, checksum files, the tarball | download, compare, keep, pack | what is kept is whole and current; the tarball holds whole files; the last one survives a build that could not get its packages |
| ansible code of its own (`keystone_endpoint.py`, setup_networks, check_network, setup-host, inventories) | the catalogue, interfaces, logs | edits, retried steps | (not modelled) |

### What is hard about it

The full list, each entry at its line and with the properties that cover it, is
`hazards` in `PROJECT.json`. In short:

- **Interleavings.** The client, the operating system installers, the playbook
  and its callback run side by side and see each other only through the deck. The
  background job and the client have nothing but a sleep between them.
- **Readings that grow old.** A sweep asks one host after the other; clocks are
  read before a sleep and used after it; the deadline is tested before a query
  and again after the loop.
- **Lost answers.** A request may fail after the deck stored its effect. Nothing
  is retried but the state query, and nothing is undone.
- **Crashes and reruns.** A run that dies leaves a cluster, hosts and networks in
  the deck; the next one starts from there, or from an emptied deck. On the jump host
  it finds configuration moved away, an address in between, machines half defined,
  package files cut short.
- **Retry counters.** Six loops count attempts, each with a boundary of its own.
- **Results as text.** The shell functions return by printing.

## 2. Modules and the code they model

| module | models | lines |
|---|---|---|
| `RoleAssignment` | the role pass | `deploy/client.py` 829-889 |
| `DeploySession` | runs of the client against one deck | `deploy/client.py` 289-927, 1061-1134; `deploy/launch.sh`; `deploy/compass_vm.sh` |
| `InstallTables` | the deck's two state tables (external) | - |
| `InstallMonitor` | the client waiting | `deploy/client.py` 929-1058 |
| `StatusCallback` | the callback plugin and, as far as it needs it, the playbook | `deploy/ansible_plugins/callback/status_callback.py` |
| `Installation` | `InstallMonitor` + `StatusCallback` over `InstallTables` | - |
| `DeployContract` | what the three promise the operator (abstract) | - |
| `Recovery` | `recovery.sh` | `deploy/recovery.sh`; `deploy/compass_vm.sh` 119-268 |
| `RestApi`, `RestClient` | the methods of the REST client, and a program that calls them | `deploy/restful.py` |
| `DeckCall` | what a call promises its caller (abstract) | - |
| `DeployHost` | the background job against the client and cobbler | `deploy/deploy_host.sh`, `bonding.py`, `rename_nics.py`, `template/power/ipmitool.tmpl` |
| `JumphostPackages` | moving apt's and pip's configuration | `deploy/prepare.sh` 137-305 |
| `JumphostNetwork` | moving the address to the bridge | `deploy/network.sh` 46-68 |
| `Launch` | `deploy.sh` and `launch.sh`, run after run, over the two above | `deploy/launch.sh`, `deploy.sh`, `deploy_parameter.sh`, `config_parse.py`, `compass_vm.sh`, `host_virtual.sh`, `prepare.sh` |
| `PackageCache` | builds over one cache directory | `build/parser.py`, `build.sh` |
| `MC...` | the small instances | - |
| `...Proofs` | the inductive invariants and theorems | - |

`PROJECT.json` has, under `map`, the lines of every definition. Operators whose
comment begins with *Defect* are no part of a model: each is a plausible
mistake in the definition that follows it, and replacing that definition by it
makes one property fail. They show what the properties are sensitive to.

**Conventions.** A process's position is a `pc` whose values are named for the
next step. A request has two outcomes: answered with 2xx, the effect is stored
and the process goes on; otherwise the process raises and the effect may be
stored or not. A deadline is a Boolean that becomes TRUE at some moment, because
the code compares clock readings with it and does nothing else with time. Names,
addresses, roles and machines are model values or small sets.

### RoleAssignment

`hostMapping`, `conf`, `assigned`, `hostRoles`, `spareHosts` and `spareRoles` are
the client's `host_mapping`, `HOST_ROLES`, the `ROLE_ASSIGNED` entries of
`role_mapping`, `host_roles`, `unassigned_hostnames` and `unassigned_roles`;
`deckRoles` is what the deck has stored. `AssignListed` is one turn of the first
loop with the whole of `set_host_roles`; `RejectUnknownHost` the assertion that
a listed host is known; `CountLeftovers` the two list comprehensions and the
assertion that there are enough hosts; `PadHost` one turn of the `map(None, ...)`
loop; `Finish` the early return after it. The last loop, which the comment says
gives default roles, is no action because no behaviour reaches it (theorem
`DefaultLoopUnreachable`, and section 5). Iteration orders are arbitrary: the code
iterates over a dictionary and over lists whose order nothing depends on.

### DeploySession

The deck is a record of what its tables hold of the one cluster, `run` counts
runs, and `conf` is what the current run was asked for. `Launch` is what
`launch.sh` does before the client: refresh the deck or not, and add the machines
of the DHA file - possibly not all, as a failure of `set_compass_machine` is only
logged. Then there is one action per step of `deploy()`, its expansion branch and
`redeploy()`. `Request` is the shape they share. The deck's
machines are the addresses it knows, each with its id. `GetMachines` filters the
deck's list by the machine file and so returns the order of the ids (`Listings`: the
one sequence that has the machines in that order); `AddHosts` pairs that
list with the names (`Pairing`); the deck refuses pairs that contradict those it
has (`Pairable`). `SetRoles` stands for the whole of `RoleAssignment`, and
`Watch` for the whole of `InstallMonitor`. A host whose entry has no roles is in
`conf.bare`: its request carries none, and the deck stores none. A redeploy names no
hosts, and the deck then installs those the cluster has (`Redeploy`), configured or
not: `DeployedIsConfigured` is about what deployments and expansions have installed.

### InstallMonitor, StatusCallback, Installation

`InstallMonitor` follows `get_ansible_print` (a sweep over the hosts, one
request each; a clock reading at the places where the code makes it; the
printing process started when all are ready) and `get_installing_progress` with
`get_cluster_state` (the test of deadline and printer, up to `MaxTries`
attempts, the sleep, the second look at the clock, the `finally` clause). The
printer may die at any moment.

`StatusCallback` follows `v2_playbook_on_stats`: the play ends with arbitrary
statistics over the cluster's hosts, containers and `localhost`; trouble on
`localhost` turns every host into an error; hosts without statistics are skipped;
each `notify_host` may fail, with or without its effect, and ends the plugin.
`KillPlaybook` is the `kill -9` of `refresh_compass_core`, or any other end of
the process.

`Installation` runs both over `InstallTables`. compass-tasks starts the playbook
when all operating systems are installed. The client's verdict and the deck's
host states are mapped to `DeployContract`: outcomes are decided once, there is
one verdict, and success is announced only when every host succeeded. In a step
of the implementation at most one of the two changes.

### Recovery

The script's position, restarts begun (`i`), attempts of the current loop
(`retry`), the lines the last check printed (`printed`), and the machines that
answer. `printed` is a sequence of lines because one comparison depends on their
number. `answered` is no variable of the code: it records which groups answered
since the last restart, for the properties. Machines boot at any moment or
never. A restart leaves any subset of them down, because power control may
fail for some.

### DeployHost

`dha` is what the DHA file says: bare metal or virtual, and for each host whether
its interfaces are written as a list of pairs, as a mapping, or not at all - two
scripts disagree about which is right. `check_valid.py` may make `launch.sh` exit
(`Refuse`). Otherwise the client and the job start (`Begin`). The job sleeps,
adds bonds, renames interfaces (or raises), syncs, and handles the hosts one by
one with three `ipmitool` commands of `Tries` attempts each. The deck writes
cobbler's systems at any moment once it has accepted the deployment. `known`
records, for the properties, the hosts cobbler had a system for when they were
reset.

### RestApi, RestClient, DeckCall

`RestApi` is a set of rows, one per method of `Client`: its name, the verb, the path, the
fields always sent, the fields sent when their argument is true in Python's sense,
and what `raw_data` does. The rows show where a method departs from its
neighbours, and the model keeps each departure: `delete_machine`'s path has no
leading slash, so that its request reaches no resource; `get_machine` sends the
builtin `id`; `patch_clusterhost_config` addresses the clusterhost instead of its
configuration; `delete_host_network` and `update_host_state` raise a `TypeError`
before anything is sent; `update_cluster_config` and `patch_cluster_config` write
their other arguments into the caller's dictionary; `update_switch` is the one method with
defaults other than `None`, so that it sends a state, a version and a community
nobody named (`default`).

`RestClient` has a program call the methods one after the other. `Call` builds the
request (`FieldsOf`, `Nulls`) and sends it; the deck carries it out or refuses it,
and answers with JSON or something else; `GetResponse` returns the status whatever
the body is, and `get_token` puts the token into the session's headers;
`ConnectionBreaks` is an exception before or after the deck acted. The deck may
forget its tokens. A body is the set of its fields, and a value is the number of the
call it is from: `stored` has each value with its path and field, so that a step that
replaces one takes an element out of it. `own` is what the caller put into its
dictionary, `dict` what the calls have made of that. `OthersSurvive` compares what an
update touches with what its caller named (`Named`), and lists the two cases where
the code touches more (`Unasked`): `update_switch`'s defaults, and a cluster's config
that a dictionary brings along from an earlier call.

### Launch, JumphostPackages, JumphostNetwork

`opt` is how `deploy.sh` was called, `config` which parts of `deploy_config.sh` this
run's `config_parse.py` has written, `listed` the address in the machine file,
`deck` the addresses the deck has machines for, `vm` the virtual machines (those
of the base DHA file as one, those of an expansion's as another), `harmed` whether
this run has destroyed something. MAC addresses of virtual machines are drawn anew
in each run, so an address is the number of the run that drew it. There is one
action per stage of the main process. `Kill` ends a run anywhere, and `Reboot` may
come between runs. The parts of the configuration are those `config_parse.py` writes
one after the other: the DHA file's, the install network's, the hosts' networks, the
reset script.

`JumphostPackages` holds the moves of `_pre_env_setup` and `_pre_pip_setup` as two
sequences of steps, with one action that makes the next. `JumphostNetwork` holds
`save_network_info` command by command, each of which may fail: the bridge is not made,
the flush, the address or the route is refused, or refused for what failed before. Both
record, for the properties, whether a run has ended in the middle (`cut`), or in the
middle or with a failed command (`netBroken`).

Some facts the model keeps because properties turn on them:
- `get_host_macs` prints two quotes when `HOST_MACS` is empty, so the test for an
  empty result only catches that `host_$TYPE.sh` could not be sourced.
- `config_parse.py`'s exit status is lost in `$(process_default_para ...)`. A range of
  addresses shorter than the host list passes `check_valid.py`; machines are torn
  down and the deck is emptied before the client fails for want of `HOST_NETWORKS`.
- `tear_down_machines` removes the disk of a machine whether or not `virsh destroy` and
  `virsh undefine` worked: a machine may stay defined, with its old address, or run
  on without being defined.
- `launch_host_vms` never fails. A machine that is still there is not defined
  again: after a failed teardown it keeps its address, a redeployment of virtual hosts
  draws addresses their machines do not have, and so does a second expansion with the
  same names. The client waits for the machines of the machine file (`Bootable`), and so
  fails.
- When the reset script could not be written, `POWER_MANAGE` is empty and `reboot_hosts`
  returns at once. Nothing notices: the client succeeds if the hosts boot for another
  reason. `SuccessIsDeployed` therefore leaves this part out.
- With `NAT_EXTERNAL=false` on a virtual deployment the jump host's own address moves.
- `exit 1` for docker's storage driver (`prepare.sh:208`) leaves apt's configuration
  replaced, and the next run moves the replacement over the original. That is why
  `SourcesKept` speaks of `apt.conf`, `sources.list` and `pip.conf` only without a cut.

### PackageCache

The cache directory holds, for each package, a file and a checksum file. A file is
the set of releases its pieces come from, and whether it is complete; a checksum is
that of one release, or of nothing. Mirrors move from one release to another at any
moment. `CompareMd5` is one turn of the loop over the mirrors, where curl may leave
anything behind; `StartDownload`, `Piece` and `DownloadFails` are aria2c; the other
ways of getting a package are `Fetch` and `FetchFails`. Since `parser.py` calls curl
without `--fail`, the file of a package got by curl may be an error page (`Page`), and
no property says otherwise. `RemoveTar` and `MakeTar`
are `build_tar`. `Die` is a build killed, or a command failing, anywhere. `seen`,
`kept` and `fetched` are records for the properties: `OldTarKept` says that when the
last tarball is touched this build has had every package, from the cache or from a
command that ended well - except those whose `get_method` it does not know, which it
passes over.

## 3. What the runs check

Every property is stated in words above its definition.

| run | shows | instance | states |
|---|---|---|---|
| `roles` | `AssignedIsHeld`, `RequiredCovered`, `WrittenOnce` | 3 hosts, 3 roles (2 required), every `HOST_ROLES` table, every set of known hosts | 6 589 |
| `installation` | `TypeOK`, `ReportedAsPlayed`, `PrinterAfterOs`, `PrinterReaped`, `SuccessIsReal`, `FailureHasCause`, `ClientReturns`, `KeepsContract` | 2 hosts, 1 container, 2 attempts | 60 880 |
| `session` | `TypeOK`, `DeployedIsConfigured`, `FreshClusterOnly`, `ListedMachinesOnly`, `NoProxyCoversHosts` | 2 names, 2 machines, hosts with and without roles, a proxy, 3 runs | 109 804 |
| `recovery` | `ControllersAnswered`, `CompassBeforeHosts`, `NoNeedlessRestart`, `RecoveryEnds` | 1 compute, 2 controllers, 2 restarts, 3/5/4 attempts | 384 |
| `deploy_host` | `ResetPrepared`, `ResetInOrder`, `StatusIsClients`, `BothEnd` | 2 hosts, 1 bonded, 2 attempts, every form of DHA file | 5 961 |
| `package_cache` | `KeptIsCurrent`, `TarIsWhole`, `TarIsCurrent`, `OldTarKept`, `BuildEnds` | 2 packages by any method, 2 mirrors, 2 releases, 3 builds | 684 348 |
| `rest_client` | `TokenCarried`, `OnceAtMost`, `OthersSurvive`, `CallEnds` | every method, at most 1 argument, with or without a dictionary, 2 calls | 296 142 |
| `launch` | `SuccessIsDeployed`, `HarmIsChecked`, `SourcesKept`, `AddressKept`, `ExpansionKeeps` | 20 ways to call, 3 runs | 4 966 251 |

Four more runs each refute one statement of the repository; section 5 has them.

**Why the bounds are enough.**
- `roles`: with two required roles and three hosts the leftover hosts outnumber
  the leftover roles, match them, or fall short, after every partial assignment.
- `installation`: two hosts are what it takes for one to be reported or polled
  and the other not. The container and `localhost` are the machines that have
  statistics and are not cluster hosts. Two attempts have a retry and a giving
  up (10 in the code). Both are parameters in the proofs.
- `session`: a second run meets what any step of the first left behind; in a third
  an expansion follows a failed expansion. Two names and two machines can be
  paired in both ways, and DHA files of one and of two hosts can follow each other
  in any order, each host with roles or without. `MaxRuns` caps the counter; the proofs have no such cap in their
  argument.
- `recovery`: the number of restarts is the code's; the attempts are small and
  pairwise different, so that no bound stands in for another (500, 500 and 100 in
  the code). Two controllers let a group be partly up.
- `deploy_host`: two hosts, so one may be reset before the other is known; one is
  bonded. Two attempts (5 in the code) have a retry and a giving up.
- `package_cache`: the first build can be cut short, the second find its traces and
  be cut short, the third find theirs. With two packages one is complete when the
  other fails; with two mirrors and two releases one can serve what the other no
  longer has, and a file can have pieces of both.
- `rest_client`: an update can meet what another method of the same group has
  stored, a second call can pass the dictionary the first has written into (and
  so replace what it did not name), and any
  method can follow `get_token` and a deck that has forgotten. Groups of methods do
  not share fields at one path. The proofs have neither bound.
- `launch`: a first deployment, one that meets what a cut or complete run has left,
  and one more, for what needs two predecessors (an expansion after a redeployment,
  a rerun after a rerun). The twenty ways are the combinations of the options that
  take different branches, with `NAT_EXTERNAL=false` in those where the network is not
  beside the point; the proofs are for any set of options.

Symmetry is used in runs without temporal liveness properties only, over sets
whose members no definition tells apart.

**Deadlock** is checked in every run. Each module has an `Idle` (or `Over`)
action for the places where the program has ended; anywhere else a state
without a step is an error.

**Fairness.** Safety properties use none. The liveness properties do:
- `Installation`: weak fairness of the client's steps and of the clock. Nothing
  is assumed of hosts, installers, playbook or printer, so `ClientReturns` says
  that the deadline alone brings the client home. Fairness of the client assumes
  that a request is answered or broken off. `restful.py` sets no timeout, so a
  deck that accepts a connection and keeps silent would block the client for
  ever; `CallEnds` states that assumption for a single call.
- `RestClient`: weak fairness of `Reply`: the deck answers or the connection breaks.
- `PackageCache`: weak fairness of the build, and of the last piece of a download or
  its failure: aria2c does not receive pieces for ever. No mirror need answer.
- `Recovery`: weak fairness of the script, whose every command returns; no machine
  is assumed to boot.
- `DeployHost`: weak fairness of the shell, of the job, and of the client, the
  last on the ground of `ClientReturns`. The deck need not do anything.

## 4. What is proved

The theorems hold for every value of the constants that satisfies the named
assumptions. The assumptions are those a deployment meets: finite sets
of hosts, roles, names and machine addresses, required roles among the roles, positive numbers of attempts,
`localhost` and containers not among the cluster's hosts, no host or package listed
twice, at least one mirror.

| theorem | says |
|---|---|
| `RolePassInvariant`, `RoleTypes` | the inductive invariant and types of the role pass |
| `MarkedRolesAreHeld`, `RequiredRolesCovered` | `AssignedIsHeld`, `RequiredCovered` |
| `PaddingHasHosts`, `DefaultLoopUnreachable`, `RolesWrittenOnce` | the padding loop never has more roles than hosts; the default loop has no host (`NoHostLeftOver`); `WrittenOnce` |
| `InstallationInvariant`, `InstallationTypes` | the inductive invariant and types of an installation |
| `ReportsAreTrue`, `SuccessSound`, `FailureSound`, `PrinterSound`, `PrinterNotLeft` | `ReportedAsPlayed`, `SuccessIsReal`, `FailureHasCause`, `PrinterAfterOs`, `PrinterReaped` |
| `KeepsTheContract` | an installation implements `DeployContract` |
| `LateClientGetsOn`, `ClientLeftIsBound` | after its deadline the client is brought nearer to its exit by each of its steps |
| `SessionInvariant` | the inductive invariant of the runs |
| `DeploysOnlyConfigured`, `DeploysFreshCluster`, `ProxyNeverCovers` | `DeployedIsConfigured`, `FreshClusterOnly`, `NoProxyCoversHosts` |
| `MachineInvariant`, `SessionTypes`, `UsesListedMachinesOnly` | the inductive invariant of the machines, `TypeOK`, `ListedMachinesOnly` |
| `RecoveryInvariant`, `RecoveryTypes` | the inductive invariant and types of the recovery |
| `StopsReachableOnly`, `CompassIsFirst`, `RestartsOnlyIfNeeded` | `ControllersAnswered`, `CompassBeforeHosts`, `NoNeedlessRestart` |
| `ScriptGetsOn`, `StepsLeftIsBound` | each step of the script brings the recovery nearer to its end |
| `DeployHostInvariant`, `DeployHostTypes` | the inductive invariant and types of `deploy_host` and its job |
| `ResetsArePrepared`, `ResetsAreInOrder`, `StatusIsTheClients` | `ResetPrepared`, `ResetInOrder`, `StatusIsClients` |
| `JobGetsOn`, `JobLeftIsBound` | each step of the background job brings it nearer to its end |
| `CacheInvariant`, `CacheTypes` | the inductive invariant and types of the package cache |
| `KeepsCurrentFiles`, `TarsAreWhole`, `TarsAreCurrent`, `FailuresKeepTar` | `KeptIsCurrent`, `TarIsWhole`, `TarIsCurrent`, `OldTarKept` |
| `BuildGetsOn`, `BuildLeftIsBound` | each step of a build but a piece before the last brings it nearer to its end |
| `ClientInvariant`, `ClientTypes` | the inductive invariant and types of the REST client |
| `CarriesToken`, `KeepsOthers` | `TokenCarried`, `OthersSurvive` |
| `KeepsContract` | the client with the deck implements `DeckCall` (`OnceAtMost`) |
| `LaunchInvariant`, `LaunchTypes` | the inductive invariant and types of the launches |
| `SuccessMeansDeployed`, `ChecksBeforeHarm`, `KeepsAddress`, `ExpansionsKeep` | `SuccessIsDeployed`, `HarmIsChecked`, `AddressKept`, `ExpansionKeeps` |
| `KeepsSources` | `SourcesKept` |
| `ListNeverLost` | its first part alone: `sources.list.d` is in its place or next to it |

The arguments, and why each invariant had to be strengthened:

- **Role pass.** `AssignedIsHeld` is not inductive: a later call could replace a
  role. What prevents it is that only hosts without an entry are written
  (`Bookkeeping`: a host the client has not handled has nothing in the deck; in
  the padding loop the spare lists are exactly the leftovers). That the loop never runs out of
  hosts (`EnoughHosts`) needs
  a lemma about cardinalities: host and role are crossed out together, and when
  the roles are used up `NoRole` takes none away.
- **Installation.** The client acts on what it has read. What makes that sound is
  that table entries are written once: an entry still to be reported is
  `INSTALLING` (`ReportsPending`, lemma `PostingDecides`), so a host found ready
  stays ready and a cluster found successful stays so (`ReadingsHold`).
  `PrinterPlaces` says where the printer can be found, and `CausesHold` carries
  the cause of a failure to the end. The refinement uses the same invariant: in
  `AnnounceSuccess` the guard of the contract follows from what was read two
  steps earlier.
- **Session.** At each position, what the earlier steps of the same run stored is
  in the deck (`StepsTaken`). `ClusterHosts` says that a cluster that does not
  exist has no hosts. The argument does not depend on what earlier runs did,
  which is why it holds for any number of them. `DeployedIsConfigured` is about the steps
  in which the deck takes hosts to install: only a request to deploy, expand or redeploy
  does (lemma `OnlyRequestsInstall`), and the first two come after every host of the
  run got its networks and those with roles their roles. A redeploy installs what the
  cluster has, and the theorem promises nothing of it. The machines need more than one
  run: `WithMachines` numbers new ones after those there are, so that no id exceeds
  their number (`IdsAreCounts`), and a listing, being as long as the set it lists and
  ordered by id, has each machine of the file once (`MachinesListed`, lemma
  `ListingHasAll`, by an injection from positions to machines). `Pairing` is then onto
  (lemma `PairingIsOnto`), and `ListedMachinesOnly` follows, whatever machines an
  earlier run, or a later one's failed start, has left in the deck.
- **Recovery.** `Verdicts` says, at each place of the script, what position and
  captured text tell about the controllers; `AttemptsLeft` that a waiting loop
  is left by its last attempt.

- **deploy_host.** The power script is at a position of the list: what it still has to
  do is the rest of the list, the hosts before are reset, and at most the current one
  has been told to boot from the network without being reset (`At`). `ResetInOrder`
  follows because no host is listed twice.
- **Package cache.** A package of this build is still to be processed, or its file is
  whole and of a release that is not gone, unless curl took a page for it
  (`Processed`, `Fresh`), and it was found or downloaded (`Obtained`); whatever was read or downloaded during the build is of a release
  in `seen` (`Observed`); no package is handled twice (`Once`).
- **REST client.** While a call is open, the answer tells whether the deck has acted
  (`AnswerIsTrue`) and the request carries the session's token (`Pending`). For
  `OthersSurvive` the dictionary must be followed over the calls: nothing but a
  cluster's config has been added to it (`DictKept`), so that a request holds nothing
  unasked (`RequestAsked`). That goes through the rows: two of them write into a
  dictionary, one has defaults (lemma `RowsPlain`).
- **Launch.** What has been checked before each stage (`Checked`); HOST_NETWORKS are
  written last but for the reset script (`Ordered`), so that a client that finds them
  has the rest. A teardown may fail: a machine that was not torn down, or that only
  runs, has an address of an earlier run (`Fresh`), so that the machine with the
  address the client waits for is one this run defined (`Addressed`). Until the flush
  the address is where it was, from then on it is noted and nowhere (`Moving`); the steps that touch `sources.list.d` only move it (`ListSafe`).
  `SourcesKept` is about a list of seventeen moves that any cut run leaves half done and
  the next one starts anew. What a run has still to do is always an end of that list
  (`Following`); without a cut the number of moves left tells of each file whether it
  is at its place, hidden or replaced (`Uncut`); after a cut only `sources.list.d` is
  known to come back (`ListBack`).
- **Ends.** For each process that must end there is a bound on the steps it has left, a
  natural number that is zero exactly when it is over, that each of its own steps lowers
  and that nobody else raises: `StepsLeft` of the recovery (restarts and attempts),
  `JobLeft` of the job (hosts, commands, attempts), `BuildLeft` of a build (packages,
  mirrors), `ClientLeft` of the client after the deadline of its phase (hosts to poll,
  attempts). They hold for every length of the lists and every number of attempts, where
  a run has two or three.

**Only model-checked:** the liveness properties (`ClientReturns`, `RecoveryEnds`,
`BothEnd`, `BuildEnds`, `CallEnds`) themselves. The theorems on ends above are their
hard part; what is left, from fairness to a step, needs to know when an action is
enabled, which the prover cannot decide. The shell's own part of `BothEnd` and
`CallEnds` have no loop, and so no bound to prove.

## 5. Where code and text disagree

Each of these is a run in which TLC finds the statement violated.

| run | statement | what happens |
|---|---|---|
| `session_watched` | `get_installing_progress` waits (`client.py:993`) | the expansion branch and `redeploy` call it without its second argument: a `TypeError` after the deck accepted |
| `recovery_verdict` | "Recovery Failure !!!" (`recovery.sh:33`) | also said when the hosts answered after the last restart |
| `deploy_host_renamed` | "Host NIC renamed" (`bmdeploy.rst:34`) | `check_valid.py` lets only a mapping through on bare metal, and `rename_nics.py` raises on a mapping; the hosts are reset all the same |
| `launch_expansion` | "Set EXPANSION and VIRT_NUMBER.", "Run ``deploy.sh``" (`docs/release/installation/expansion.rst:143,171`) | `machine_file` is exported in the branch without EXPANSION only, and `client.py` opens a file without a name |

The models show more of this kind, for which there is no run:

- "assign default roles to unassigned hosts" (`client.py:876`): `map(None, ...)` gives
  every host beyond the roles left `[None]` (`client.py:865`), which counts as an entry
  in `host_roles`, so the loop below the comment never has a host to serve. This is
  proved for every cluster and flavor (`DefaultLoopUnreachable`); the properties of
  the role pass speak of required roles only.
- `bmdeploy.rst:20,34` describes `name` and `interfaces` of a DHA entry as belonging
  together. Names are zipped with machines in the order of the deck's ids
  (`client.py:463`); after an earlier run listed the hosts the other way round they are
  swapped.
- `if [[ "$ret" == "fail" ]]` (`compass_vm.sh:236`): the captured text has `log_error`'s
  line too, so computes that time out do not fail the check.
- "avoid nodes reboot to fast, cobbler can not give response" (`deploy_host.sh:23`): the
  sleep does not wait for the deck. Hosts may be reset before cobbler has a system for
  them, even when the client has failed.

## 6. What is not modelled

- compass-deck, compass-tasks, cobbler, ansible, ipmitool, virsh: other programs.
  Their part is modelled from how the code here uses them, and marked external.
- Contents: addresses, configuration values, templates, log texts.
- `recover_nets` beyond exiting or not, the libvirt networks, harbor, opera,
  `reset_compute.py`, `migrate_ks.py`, the repository builds, setup_networks and
  check_network: sequences of commands without state the properties could tell apart.
- `keystone_endpoint.py`, `playbook_done.py`, setup-host and the inventory templates:
  what they do depends on programs outside the repository (keystone, compass-deck,
  openstack-ansible, compass-tasks), which the code hardly constrains.
- In a session, one cluster name; a client whose environment names another
  cluster is left out (`client.py:1096`, a hazard without a property).
- An expansion's effect on `no_proxy` of the hosts installed earlier
  (`client.py:613`): what a host does with its configuration once it is
  installed is not followed.
- What the plan below has. Address patterns of `check_valid.py` and the values
  `config_parse.py` writes are abstracted to what becomes of a run (`valid`, `stopsAt`).

## 7. Plan

Done, in the order of importance: the client with what it waits for, what starts it,
what prepares the machines, the tools around - each with its proofs.

What could follow:

1. `Launch` with `DeploySession` and `Installation` in place of `ClientMaySucceed`: a
   refinement of the abstract step by the detailed ones.
2. `ConfigParse`: the environment `config_parse.py` writes, against what each script
   reads of it.
3. `SetupNetworks`: bridges with members that come and go, over reruns.
4. `DeploySession` with several clusters, for `client.py:1096`, and with what an installed
   host keeps of its configuration, for `client.py:613`.
5. Theorems about the pieces on their own: what `DeployContract` and `DeckCall` imply
   for whoever relies on them, and the exact attempts of the waiting loops.

## 8. Running the checks

With TLC, the community modules and tlapm at hand, in this directory:

```
tlc -workers 2 -config Installation.cfg MCInstallation.tla
tlapm InstallationProofs.tla
```

`PROJECT.json` lists every run with its module and configuration, and every
module with theorems. The runs together take a few minutes, the proofs about as long.
