---------------------------- MODULE DeploySession -----------------------------
(***************************************************************************)
(* The runs of deploy/client.py against one compass-deck: deploy(), its    *)
(* expansion branch and redeploy(), request by request, with what          *)
(* launch.sh does to the deck before each of them.  A run never retries    *)
(* and never undoes: a request that fails ends it with an exception, and   *)
(* the deck keeps what the earlier requests stored, for the next run.      *)
(*                                                                         *)
(* The deck is another program; its tables are one record here, and a      *)
(* failed request may have changed them.                                   *)
(***************************************************************************)
EXTENDS Naturals, Sequences, FiniteSets

CONSTANTS
    Name,      \* hostnames
    Mac,       \* machines: the interfaces of a host's entry, by which the deck knows it
    Proxy,     \* an http_proxy is configured
    MaxRuns    \* bound on the number of runs

ASSUME SessionAssumption ==
    /\ IsFiniteSet(Name) /\ IsFiniteSet(Mac)
    /\ Proxy \in BOOLEAN
    /\ MaxRuns \in Nat

VARIABLES
    deck,         \* the tables of compass-deck
    run,          \* the runs so far
    conf,         \* what the operator asked the current run for, and whether the
                  \* client is given the machine file
    pc,           \* the next step of the client
    machines,     \* get_machines: the machines to use, in the deck's order
    hostMapping,  \* keys of host_mapping
    hostIps,      \* keys of host_ips: the hosts whose networks are stored
    accepted,     \* the deck has accepted this run's deploy request
    watched       \* the run has waited for the installation

clientVars == <<machines, hostMapping, hostIps, watched>>
vars == <<deck, run, conf, pc, clientVars, accepted>>

EmptyDeck ==
    [machines |-> <<>>,     \* machine -> id, for the machines it knows
     subnets  |-> FALSE,
     cluster  |-> FALSE,    \* the cluster CLUSTER_NAME exists
     hosts    |-> <<>>,     \* hostname -> machine, for the cluster's hosts
     networks |-> {},       \* hosts with their networks stored
     os       |-> FALSE,    \* os_config is stored
     noProxy  |-> {},       \* the hosts its no_proxy lists
     package  |-> FALSE,    \* package_config is stored
     roles    |-> {},       \* hosts with roles
     reviewed |-> {},
     deployed |-> {}]

\* The hosts of the DHA file, in its order; names and addresses are distinct.
HostTables ==
    {t \in UNION {[1..n -> [name : Name, mac : Mac]] : n \in 1..Cardinality(Name)} :
        \A i, j \in DOMAIN t :
            i # j => t[i].name # t[j].name /\ t[i].mac # t[j].mac}

Names(table) == {table[i].name : i \in DOMAIN table}
Macs(table) == {table[i].mac : i \in DOMAIN table}

Modes == {"deploy", "expansion", "redeploy"}

\* What a run is asked for: 'bare' are the hosts whose entry has no roles, which
\* HOST_ROLES has as 'host='.
Confs == [mode : Modes, hosts : HostTables, bare : SUBSET Name, file : BOOLEAN]

Init ==
    /\ deck = EmptyDeck
    /\ run = 0
    /\ pc = "idle"
    /\ conf \in [mode : {"deploy"}, hosts : HostTables, bare : {{}}, file : {TRUE}]
    /\ machines = <<>>
    /\ hostMapping = {}
    /\ hostIps = {}
    /\ accepted = FALSE
    /\ watched = FALSE

-----------------------------------------------------------------------------
(* launch.sh, up to the call of client.py. *)

\* manage_db.py set_machine: the addresses of the machine file that are new get
\* the next ids.  'upTo' of them: launch.sh only logs a failure and goes on.
WithMachines(db, table, upTo) ==
    LET added == {i \in 1..upTo : table[i].mac \notin DOMAIN db}
    IN  [m \in DOMAIN db \union {table[i].mac : i \in added} |->
            IF m \in DOMAIN db THEN db[m]
            ELSE LET at == CHOOSE i \in added : table[i].mac = m
                 IN  Cardinality(DOMAIN db) + Cardinality({i \in added : i <= at})]

\* A run starts: refresh_compass_core (or the first start of the containers)
\* empties the tables, set_compass_machine adds the machines.  An expansion
\* never refreshes and a redeploy adds no machine.  launch.sh names the machine
\* file only outside an expansion; there it is what the environment holds.
Launch(mode, table, bare, refresh, upTo, file) ==
    /\ pc \in {"idle", "failed", "succeeded"}
    /\ run < MaxRuns
    /\ refresh => mode # "expansion"
    /\ file \/ mode = "expansion"
    /\ bare \subseteq Names(table)
    /\ upTo \in 0..Len(table)
    /\ mode = "redeploy" => upTo = 0
    /\ LET before == IF refresh THEN EmptyDeck ELSE deck
       IN  deck' = [before EXCEPT !.machines = WithMachines(@, table, upTo)]
    /\ run' = run + 1
    /\ conf' = [mode |-> mode, hosts |-> table, bare |-> bare, file |-> file]
    /\ pc' = "login"
    /\ machines' = <<>>
    /\ hostMapping' = {}
    /\ hostIps' = {}
    /\ accepted' = FALSE
    /\ watched' = FALSE

-----------------------------------------------------------------------------
(* Requests. *)

\* A request that stores 'result' in the deck: answered with 2xx the client goes
\* on at 'next'; otherwise it raises, and the deck may have stored it or not.
\* (The variables of a client that raised mean nothing: the process is gone.)
Request(at, next, result) ==
    /\ pc = at
    /\ \/ deck' = result /\ pc' = next
       \/ deck' \in {deck, result} /\ pc' = "failed"
    /\ UNCHANGED <<run, conf, accepted>>

\* An exception before any request is made.
Exception(at) ==
    /\ pc = at
    /\ pc' = "failed"
    /\ UNCHANGED <<deck, run, conf, accepted, clientVars>>

Login ==
    /\ Request("login", IF conf.mode = "redeploy" THEN "find" ELSE "machines", deck)
    /\ UNCHANGED clientVars

\* The deck lists machines in the order of their ids: there is one such sequence.
Listings(M) ==
    {s \in [1..Cardinality(M) -> M] :
        \A i, j \in DOMAIN s : i < j => deck.machines[s[i]] < deck.machines[s[j]]}

\* Defect: every machine of the deck is taken.
AllMachines == Listings(DOMAIN deck.machines)

\* The machines of the machine file, in the order the deck lists them.
Selected == Listings(DOMAIN deck.machines \intersect Macs(conf.hosts))

KnownMachines == conf.file /\ Macs(conf.hosts) \subseteq DOMAIN deck.machines

GetMachines ==
    /\ KnownMachines
    /\ Request("machines", "subnets", deck)
    /\ machines' \in Selected
    /\ UNCHANGED <<hostMapping, hostIps, watched>>

\* No machine file to open, or a machine in it that the deck does not know.
UnknownMachine ==
    /\ ~ KnownMachines
    /\ Exception("machines")

\* add_subnets reuses a subnet the deck has and adds the others.
AddSubnets ==
    /\ Request("subnets", IF conf.mode = "deploy" THEN "adapter" ELSE "find",
               [deck EXCEPT !.subnets = TRUE])
    /\ UNCHANGED clientVars

GetAdapter ==
    /\ Request("adapter", "cluster", deck)
    /\ UNCHANGED clientVars

\* Defect: a cluster that exists is used again, as a subnet would be.
ReuseCluster ==
    /\ Request("cluster", "hosts", [deck EXCEPT !.cluster = TRUE])
    /\ UNCHANGED clientVars

\* The deck refuses a second cluster of the name.
AddCluster ==
    /\ ~ deck.cluster
    /\ Request("cluster", "hosts", [deck EXCEPT !.cluster = TRUE])
    /\ UNCHANGED clientVars

ClusterExists ==
    /\ deck.cluster
    /\ Exception("cluster")

\* An expansion and a redeploy look the cluster up.  A redeploy raises if there is
\* none; an expansion then goes on with cluster 1, which the deck refuses.
FindCluster ==
    /\ deck.cluster
    /\ Request("find", IF conf.mode = "redeploy" THEN "redeploy" ELSE "hosts", deck)
    /\ UNCHANGED clientVars

NoCluster ==
    /\ ~ deck.cluster
    /\ Exception("find")

\* zip(machines[-len(hostnames):], hostnames)
Pairing ==
    LET n == Len(conf.hosts)
        last == SubSeq(machines, Len(machines) - n + 1, Len(machines))
    IN  [name \in Names(conf.hosts) |->
            last[CHOOSE i \in 1..n : conf.hosts[i].name = name]]

\* The deck takes the pairs unless a name or a machine is in use otherwise.
Pairable ==
    \A n \in DOMAIN Pairing, h \in DOMAIN deck.hosts :
        (n = h) <=> (Pairing[n] = deck.hosts[h])

AddHosts ==
    /\ pc = "hosts"
    /\ Len(machines) >= Len(conf.hosts)
    /\ Pairable
    /\ Request("hosts", "networks",
               [deck EXCEPT !.hosts =
                   [n \in Names(conf.hosts) \union DOMAIN deck.hosts |->
                       IF n \in Names(conf.hosts) THEN Pairing[n] ELSE deck.hosts[n]]])
    /\ hostMapping' = Names(conf.hosts)
    /\ UNCHANGED <<machines, hostIps, watched>>

HostsRefused ==
    /\ pc = "hosts"
    /\ ~ Pairable
    /\ Exception("hosts")

\* Defect: nobody asserts that the host is in host_mapping.
SetUnmappedNetworking(n) ==
    /\ n \notin hostIps
    /\ Request("networks", "networks", [deck EXCEPT !.networks = @ \union {n}])
    /\ hostIps' = hostIps \union {n}
    /\ UNCHANGED <<machines, hostMapping, watched>>

\* One host of HOST_NETWORKS, which config_parse.py fills with every DHA host.
\* Their order makes no difference.
SetNetworking(n) ==
    /\ n \in hostMapping \ hostIps
    /\ Request("networks", "networks", [deck EXCEPT !.networks = @ \union {n}])
    /\ hostIps' = hostIps \union {n}
    /\ UNCHANGED <<machines, hostMapping, watched>>

\* With a proxy, no_proxy is made of the addresses set_host_networking recorded.
OsConfig == [deck EXCEPT !.os = TRUE, !.noProxy = IF Proxy THEN hostIps ELSE {}]

\* Defect: the operating system is configured before the networks are stored.
ConfigureOsFirst ==
    /\ Request("networks", "package", OsConfig)
    /\ UNCHANGED clientVars

SetOsConfig ==
    /\ hostIps = hostMapping
    /\ Request("networks", "package", OsConfig)
    /\ UNCHANGED clientVars

SetPackageConfig ==
    /\ Request("package", "roles", [deck EXCEPT !.package = TRUE])
    /\ UNCHANGED clientVars

\* set_all_hosts_roles (see RoleAssignment): at the end the hosts written with roles
\* have them, some of those if it raises.  For a host written 'host=' the request
\* has no roles in it, and the deck stores none.
SetRoles ==
    /\ pc = "roles"
    /\ \/ /\ deck' = [deck EXCEPT !.roles = @ \union (hostMapping \ conf.bare)]
          /\ pc' = "review"
       \/ /\ \E some \in SUBSET (hostMapping \ conf.bare) :
                 deck' = [deck EXCEPT !.roles = @ \union some]
          /\ pc' = "failed"
    /\ UNCHANGED <<run, conf, accepted, clientVars>>

Review ==
    /\ Request("review", "deploy", [deck EXCEPT !.reviewed = @ \union hostMapping])
    /\ UNCHANGED clientVars

\* Defect: a failed review is only logged.
DeployUnreviewed ==
    /\ pc \in {"review", "deploy"}
    /\ deck' = [deck EXCEPT !.deployed = @ \union hostMapping]
    /\ accepted' = TRUE
    /\ pc' = IF conf.mode = "deploy" THEN "watch" ELSE "failed"
    /\ UNCHANGED <<run, conf, clientVars>>

\* The deck starts installing.  deploy() then waits; the expansion branch calls
\* get_installing_progress without its second argument and raises TypeError.
Deploy ==
    /\ pc = "deploy"
    /\ deck' = [deck EXCEPT !.deployed = @ \union hostMapping]
    /\ accepted' = TRUE
    /\ pc' = IF conf.mode = "deploy" THEN "watch" ELSE "failed"
    /\ UNCHANGED <<run, conf, clientVars>>

\* The request fails, whether or not the deck has started.
DeployFails ==
    /\ pc = "deploy"
    /\ deck' \in {deck, [deck EXCEPT !.deployed = @ \union hostMapping]}
    /\ pc' = "failed"
    /\ UNCHANGED <<run, conf, accepted, clientVars>>

\* redeploy_clusters, and the same call as in the expansion branch.  The request names
\* no hosts: the deck installs those the cluster has.  It may have started, too,
\* when the client sees the request fail.
Redeploy ==
    /\ pc = "redeploy"
    /\ LET started == [deck EXCEPT !.deployed = @ \union DOMAIN deck.hosts]
       IN  \/ deck' = started /\ accepted' = TRUE
           \/ deck' \in {deck, started} /\ accepted' = FALSE
    /\ pc' = "failed"
    /\ UNCHANGED <<run, conf, clientVars>>

\* get_ansible_print, get_installing_progress, check_dashboard_links: see
\* InstallMonitor for what happens in between.
Watch ==
    /\ pc = "watch"
    /\ watched' = TRUE
    /\ pc' \in {"succeeded", "failed"}
    /\ UNCHANGED <<deck, run, conf, machines, hostMapping, hostIps, accepted>>

\* Nobody starts another run.
Idle ==
    /\ pc \in {"idle", "failed", "succeeded"}
    /\ run = MaxRuns
    /\ UNCHANGED vars

Next ==
    \/ \E mode \in Modes, table \in HostTables, refresh, file \in BOOLEAN :
           \E bare \in SUBSET Names(table), upTo \in 0..Len(table) :
               Launch(mode, table, bare, refresh, upTo, file)
    \/ Login
    \/ GetMachines
    \/ UnknownMachine
    \/ AddSubnets
    \/ GetAdapter
    \/ AddCluster
    \/ ClusterExists
    \/ FindCluster
    \/ NoCluster
    \/ AddHosts
    \/ HostsRefused
    \/ \E n \in Name : SetNetworking(n)
    \/ SetOsConfig
    \/ SetPackageConfig
    \/ SetRoles
    \/ Review
    \/ Deploy
    \/ DeployFails
    \/ Redeploy
    \/ Watch
    \/ Idle

Spec == Init /\ [][Next]_vars

-----------------------------------------------------------------------------

Steps == {"idle", "login", "machines", "subnets", "adapter", "cluster", "find",
          "hosts", "networks", "package", "roles", "review", "deploy",
          "redeploy", "watch", "succeeded", "failed"}

MachineIds == UNION {[M -> 1..Cardinality(Mac)] : M \in SUBSET Mac}
HostMachines == UNION {[N -> Mac] : N \in SUBSET Name}

DeckTables ==
    [machines : MachineIds, subnets : BOOLEAN, cluster : BOOLEAN,
     hosts : HostMachines, networks : SUBSET Name, os : BOOLEAN,
     noProxy : SUBSET Name, package : BOOLEAN, roles : SUBSET Name,
     reviewed : SUBSET Name, deployed : SUBSET Name]

TypeOK ==
    /\ deck \in DeckTables
    /\ run \in 0..MaxRuns
    /\ conf \in Confs
    /\ pc \in Steps
    /\ machines \in Seq(Mac)
    /\ hostMapping \subseteq Name
    /\ hostIps \subseteq hostMapping
    /\ accepted \in BOOLEAN
    /\ watched \in BOOLEAN

\* The deck has all it needs to install the host: a machine, networks, a review, the
\* roles its entry has, and both configurations of its cluster.
Configured(n) ==
    /\ n \in DOMAIN deck.hosts
    /\ n \in deck.networks \intersect deck.reviewed
    /\ n \in deck.roles \union conf.bare
    /\ deck.cluster /\ deck.os /\ deck.package

\* The hosts the deck is told to install in a step: those it starts with, and all of
\* the run's once it has accepted the run's request.
ToInstall ==
    (deck'.deployed \ deck.deployed)
        \union (IF accepted' /\ ~accepted THEN hostMapping ELSE {})

\* Whatever runs failed before and wherever, a deployment or an expansion has the deck
\* install configured hosts only (the order of the calls in deploy()).  A redeploy
\* gives no such promise: it names no hosts and looks at none, so that the deck
\* installs whatever an earlier run has left in the cluster.
DeployedIsConfigured ==
    [][conf.mode # "redeploy" => \A n \in ToInstall : Configured(n)]_vars

\* A fresh deployment installs a cluster of its own: nothing an earlier, failed
\* run left behind is part of it (add_cluster raises when the name exists).
FreshClusterOnly ==
    conf.mode = "deploy" /\ pc = "watch" => DOMAIN deck.hosts = Names(conf.hosts)

\* A run uses the machines the operator listed and no others, although the deck
\* may know more (the filter in get_machines and the slice in add_cluster_hosts).
ListedMachinesOnly ==
    hostMapping # {} /\ pc # "failed" =>
        {deck.hosts[n] : n \in hostMapping} = Macs(conf.hosts)

\* Behind a proxy, the hosts a run installs are exempt from it, as their
\* addresses are known when the configuration is written.
NoProxyCoversHosts ==
    Proxy /\ pc = "watch" => hostMapping \subseteq deck.noProxy

\* A run whose deploy request the deck accepted waits for the installation.
AcceptedIsWatched == accepted /\ pc \in {"failed", "succeeded"} => watched
=============================================================================
