------------------------- MODULE DeploySessionProofs --------------------------
(***************************************************************************)
(* What the order of the client's requests guarantees, for any number of   *)
(* runs, hosts and machines: at each step, what the earlier steps of the   *)
(* same run stored is in the deck (StepsTaken).  A run that was cut short  *)
(* leaves such a prefix behind, and only a fresh start takes anything away.*)
(* The machines have an invariant of their own: the deck gives as many ids *)
(* as it has machines, which is what a listing of them is taken from.      *)
(***************************************************************************)
EXTENDS DeploySession, FiniteSetTheorems, FunctionTheorems, TLAPS

\* The deck keeps its tables.
DeckShape == DOMAIN deck = DOMAIN EmptyDeck

HasHosts == {"networks", "package", "roles", "review", "deploy", "watch"}
HasNetworks == HasHosts \ {"networks"}
HasPackage == HasNetworks \ {"package"}
HasRoles == HasPackage \ {"roles"}
HasReview == HasRoles \ {"review"}

\* What the deck has when a run is about to take a step.
StepsTaken ==
    /\ pc = "hosts" => deck.cluster
    /\ pc \in HasHosts => /\ deck.cluster
                          /\ hostMapping \subseteq DOMAIN deck.hosts
                          /\ hostIps \subseteq deck.networks
    /\ pc \in HasNetworks => /\ hostMapping \subseteq deck.networks
                             /\ deck.os
    /\ pc \in HasPackage => deck.package
    /\ pc \in HasRoles => hostMapping \subseteq deck.roles \union conf.bare
    /\ pc \in HasReview => hostMapping \subseteq deck.reviewed

\* Before the hosts are added, a client knows the networks of none.
FreshClient ==
    pc \in {"login", "machines", "subnets", "adapter", "cluster", "find", "hosts"} =>
        hostIps = {}

\* A cluster that does not exist has no hosts, so that the cluster a deployment
\* adds has its own hosts only.
ClusterHosts ==
    /\ ~deck.cluster => DOMAIN deck.hosts = {}
    /\ conf.mode = "deploy" /\ pc = "hosts" => DOMAIN deck.hosts = {}
    /\ conf.mode = "deploy" /\ pc \in HasHosts =>
           DOMAIN deck.hosts = Names(conf.hosts)
    /\ conf.mode = "deploy" => pc # "find"

\* Only a redeploy comes to that request.
RedeployOnly == pc = "redeploy" => conf.mode = "redeploy"

\* From the time the operating system is configured, no_proxy has every host.
ProxyExempt ==
    Proxy /\ pc \in HasNetworks => hostMapping \subseteq deck.noProxy

IInv ==
    /\ DeckShape
    /\ FreshClient
    /\ StepsTaken
    /\ ClusterHosts
    /\ RedeployOnly
    /\ ProxyExempt

-----------------------------------------------------------------------------

LEMMA InitIInv == Init => IInv
BY DEF Init, IInv, DeckShape, EmptyDeck, FreshClient, StepsTaken, HasHosts,
       HasNetworks, HasPackage, HasRoles, HasReview, ClusterHosts, RedeployOnly, ProxyExempt

\* A start keeps the tables, or empties them all.
LEMMA LaunchIInv ==
    ASSUME IInv, NEW mode, NEW table, NEW bare, NEW refresh \in BOOLEAN, NEW upTo,
           NEW file, Launch(mode, table, bare, refresh, upTo, file)
    PROVE  IInv'
<1>. DEFINE before == IF refresh THEN EmptyDeck ELSE deck
<1>1. deck' = [before EXCEPT !.machines = WithMachines(@, table, upTo)]
  BY DEF Launch
<1>2. DOMAIN before = DOMAIN EmptyDeck
  BY DEF IInv, DeckShape
<1>3. DeckShape'
  BY <1>1, <1>2 DEF DeckShape
<1>4. /\ deck'.cluster = before.cluster /\ deck'.hosts = before.hosts
  BY <1>1, <1>2 DEF EmptyDeck
<1>6. pc' = "login" /\ hostIps' = {}
  BY DEF Launch
<1>7. StepsTaken' /\ FreshClient' /\ ProxyExempt' /\ RedeployOnly'
  BY <1>6 DEF StepsTaken, HasHosts, HasNetworks, HasPackage, HasRoles, HasReview,
              FreshClient, ProxyExempt, RedeployOnly
<1>8. ClusterHosts'
  BY <1>4, <1>6 DEF IInv, ClusterHosts, HasHosts, EmptyDeck
<1>. QED  BY <1>3, <1>7, <1>8 DEF IInv

\* The steps before the hosts are added.
LEMMA EarlyIInv ==
    ASSUME IInv,
           \/ Login \/ GetMachines \/ UnknownMachine \/ AddSubnets \/ GetAdapter
           \/ AddCluster \/ ClusterExists \/ FindCluster \/ NoCluster
    PROVE  IInv'
<1>. USE DEF IInv, DeckShape, FreshClient, StepsTaken, ClusterHosts, RedeployOnly,
             ProxyExempt, HasHosts, HasNetworks, HasPackage, HasRoles, HasReview, Request, Exception,
             clientVars, EmptyDeck
<1>1. CASE Login
  BY <1>1 DEF Login
<1>2. CASE GetMachines
  BY <1>2 DEF GetMachines
<1>3. CASE UnknownMachine
  BY <1>3 DEF UnknownMachine
<1>4. CASE AddSubnets
  BY <1>4 DEF AddSubnets
<1>5. CASE GetAdapter
  BY <1>5 DEF GetAdapter
<1>6. CASE AddCluster
  BY <1>6 DEF AddCluster
<1>7. CASE ClusterExists
  BY <1>7 DEF ClusterExists
<1>8. CASE FindCluster
  BY <1>8 DEF FindCluster
<1>9. CASE NoCluster
  BY <1>9 DEF NoCluster
<1>. QED  BY <1>1, <1>2, <1>3, <1>4, <1>5, <1>6, <1>7, <1>8, <1>9

\* The steps that write what belongs to the hosts.
LEMMA HostsIInv ==
    ASSUME IInv,
           \/ AddHosts \/ HostsRefused
           \/ \E n \in Name : SetNetworking(n)
           \/ SetOsConfig \/ SetPackageConfig
    PROVE  IInv'
<1>. USE DEF IInv, DeckShape, FreshClient, StepsTaken, ClusterHosts, RedeployOnly,
             ProxyExempt, HasHosts, HasNetworks, HasPackage, HasRoles, HasReview, Request, Exception,
             clientVars, EmptyDeck
<1>1. CASE AddHosts
  <2>. DEFINE N == Names(conf.hosts)
              hosts == [n \in N \union DOMAIN deck.hosts |->
                           IF n \in N THEN Pairing[n] ELSE deck.hosts[n]]
  <2>1. /\ pc = "hosts" /\ pc' \in {"networks", "failed"}
        /\ deck' \in {deck, [deck EXCEPT !.hosts = hosts]}
        /\ pc' # "failed" => deck' = [deck EXCEPT !.hosts = hosts]
        /\ hostMapping' = N
        /\ UNCHANGED <<conf, hostIps>>
    BY <1>1 DEF AddHosts
  <2>2. DOMAIN hosts = N \union DOMAIN deck.hosts
    OBVIOUS
  <2>. HIDE DEF hosts
  <2>. QED  BY <2>1, <2>2
<1>2. CASE HostsRefused
  BY <1>2 DEF HostsRefused
<1>3. ASSUME NEW n \in Name, SetNetworking(n)
      PROVE  IInv'
  BY <1>3 DEF SetNetworking
<1>4. CASE SetOsConfig
  BY <1>4 DEF SetOsConfig, OsConfig
<1>5. CASE SetPackageConfig
  BY <1>5 DEF SetPackageConfig
<1>. QED  BY <1>1, <1>2, <1>3, <1>4, <1>5

\* The steps from the roles on.
LEMMA LateIInv ==
    ASSUME IInv,
           \/ SetRoles \/ Review \/ Deploy \/ DeployFails \/ Redeploy \/ Watch
    PROVE  IInv'
<1>. USE DEF IInv, DeckShape, FreshClient, StepsTaken, ClusterHosts, RedeployOnly,
             ProxyExempt, HasHosts, HasNetworks, HasPackage, HasRoles, HasReview, Request, clientVars,
             EmptyDeck
<1>1. CASE SetRoles
  BY <1>1 DEF SetRoles
<1>2. CASE Review
  BY <1>2 DEF Review
<1>3. CASE Deploy
  BY <1>3 DEF Deploy
<1>4. CASE DeployFails
  BY <1>4 DEF DeployFails
<1>5. CASE Redeploy
  BY <1>5 DEF Redeploy
<1>6. CASE Watch
  BY <1>6 DEF Watch
<1>. QED  BY <1>1, <1>2, <1>3, <1>4, <1>5, <1>6

LEMMA NextIInv == IInv /\ [Next]_vars => IInv'
<1>. SUFFICES ASSUME IInv, [Next]_vars PROVE IInv'
  OBVIOUS
<1>1. ASSUME NEW mode \in Modes, NEW table \in HostTables,
             NEW bare \in SUBSET Names(table), NEW refresh \in BOOLEAN,
             NEW file \in BOOLEAN, NEW upTo \in 0..Len(table),
             Launch(mode, table, bare, refresh, upTo, file)
      PROVE  IInv'
  BY <1>1, LaunchIInv
<1>2. CASE Login \/ GetMachines \/ UnknownMachine \/ AddSubnets \/ GetAdapter
           \/ AddCluster \/ ClusterExists \/ FindCluster \/ NoCluster
  BY <1>2, EarlyIInv
<1>3. CASE AddHosts \/ HostsRefused \/ (\E n \in Name : SetNetworking(n))
           \/ SetOsConfig \/ SetPackageConfig
  BY <1>3, HostsIInv
<1>4. CASE SetRoles \/ Review \/ Deploy \/ DeployFails \/ Redeploy \/ Watch
  BY <1>4, LateIInv
<1>5. CASE Idle \/ UNCHANGED vars
  BY <1>5 DEF Idle, vars, clientVars, IInv, DeckShape, FreshClient, StepsTaken,
              ClusterHosts, RedeployOnly, ProxyExempt
<1>. QED  BY <1>1, <1>2, <1>3, <1>4, <1>5 DEF Next

-----------------------------------------------------------------------------

\* At every step of every run, the deck holds what the run's earlier steps stored.
THEOREM SessionInvariant == Spec => []IInv
<1>. QED  BY InitIInv, NextIInv, PTL DEF Spec

\* No step but a run's own request has the deck install anything.
LEMMA OnlyRequestsInstall ==
    ASSUME IInv, [Next]_vars, ~ Deploy, ~ DeployFails, ~ Redeploy
    PROVE  ToInstall = {}
<1>. USE DEF IInv, DeckShape, EmptyDeck, ToInstall
<1>1. ASSUME NEW mode \in Modes, NEW table \in HostTables,
             NEW bare \in SUBSET Names(table), NEW refresh \in BOOLEAN,
             NEW file \in BOOLEAN, NEW upTo \in 0..Len(table),
             Launch(mode, table, bare, refresh, upTo, file)
      PROVE  ToInstall = {}
  BY <1>1 DEF Launch
<1>2. CASE Login \/ GetMachines \/ UnknownMachine \/ AddSubnets \/ GetAdapter
  BY <1>2 DEF Login, GetMachines, UnknownMachine, AddSubnets, GetAdapter, Request, Exception
<1>3. CASE AddCluster \/ ClusterExists \/ FindCluster \/ NoCluster
  BY <1>3 DEF AddCluster, ClusterExists, FindCluster, NoCluster, Request, Exception
<1>4. CASE AddHosts \/ HostsRefused
  <2>1. ASSUME NEW hosts, Request("hosts", "networks", [deck EXCEPT !.hosts = hosts])
        PROVE  ToInstall = {}
    BY <2>1 DEF Request
  <2>2. CASE HostsRefused
    BY <2>2 DEF HostsRefused, Exception
  <2>3. CASE AddHosts
    BY <2>1, <2>3 DEF AddHosts
  <2>. QED  BY <1>4, <2>2, <2>3
<1>5. CASE (\E n \in Name : SetNetworking(n)) \/ SetOsConfig \/ SetPackageConfig
  <2>1. ASSUME NEW n \in Name, SetNetworking(n)
        PROVE  ToInstall = {}
    BY <2>1 DEF SetNetworking, Request
  <2>2. CASE SetOsConfig
    BY <2>2 DEF SetOsConfig, OsConfig, Request
  <2>3. CASE SetPackageConfig
    BY <2>3 DEF SetPackageConfig, Request
  <2>. QED  BY <1>5, <2>1, <2>2, <2>3
<1>6. CASE SetRoles \/ Review \/ Watch
  BY <1>6 DEF SetRoles, Review, Watch, Request
<1>7. CASE Idle \/ UNCHANGED vars
  BY <1>7 DEF Idle, vars, clientVars
<1>. QED  BY <1>1, <1>2, <1>3, <1>4, <1>5, <1>6, <1>7 DEF Next

\* A deployment or an expansion never has the deck install a host that is not
\* configured, whichever requests of whichever runs failed before.
THEOREM DeploysOnlyConfigured == Spec => DeployedIsConfigured
<1>1. ASSUME IInv, [Next]_vars, conf.mode # "redeploy", NEW n \in ToInstall
      PROVE  Configured(n)
  <2>1. CASE Deploy \/ DeployFails
    <3>1. n \in hostMapping /\ pc = "deploy"
      BY <1>1, <2>1 DEF Deploy, DeployFails, ToInstall, IInv, DeckShape, EmptyDeck
    <3>. QED  BY <1>1, <3>1 DEF IInv, StepsTaken, Configured, HasHosts, HasNetworks,
                               HasPackage, HasRoles, HasReview
  <2>2. ~ Redeploy
    BY <1>1 DEF IInv, RedeployOnly, Redeploy
  <2>. QED  BY <1>1, <2>1, <2>2, OnlyRequestsInstall
<1>2. IInv /\ [Next]_vars =>
          [conf.mode # "redeploy" => \A n \in ToInstall : Configured(n)]_vars
  BY <1>1
<1>. QED  BY <1>2, SessionInvariant, PTL DEF Spec, DeployedIsConfigured

\* A fresh deployment installs its own hosts only, whatever earlier runs left.
THEOREM DeploysFreshCluster == Spec => []FreshClusterOnly
<1>1. IInv => FreshClusterOnly
  BY DEF IInv, ClusterHosts, FreshClusterOnly, HasHosts
<1>. QED  BY <1>1, SessionInvariant, PTL

\* Behind a proxy every host a run waits for is exempt from it.
THEOREM ProxyNeverCovers == Spec => []NoProxyCoversHosts
<1>1. IInv => NoProxyCoversHosts
  BY DEF IInv, ProxyExempt, NoProxyCoversHosts, HasHosts, HasNetworks
<1>. QED  BY <1>1, SessionInvariant, PTL

-----------------------------------------------------------------------------
(* The machines of a run: get_machines returns each machine of the machine   *)
(* file once, whatever else the deck knows.                                  *)

\* An id is at most the number of machines the deck knows.
IdsAreCounts ==
    \A m \in DOMAIN deck.machines : deck.machines[m] <= Cardinality(DOMAIN deck.machines)

\* A redeploy skips the steps that prepare a cluster.
RedeploySkips ==
    conf.mode = "redeploy" =>
        pc \notin {"machines", "subnets", "adapter", "cluster", "hosts"}

\* 's' lists each member of 'M' once.
Lists(s, M) ==
    /\ s \in [1..Cardinality(M) -> M]
    /\ \A m \in M : \E i \in 1..Cardinality(M) : s[i] = m

\* From get_machines to add_cluster_hosts.
MachinesListed ==
    \/ pc \in {"subnets", "adapter", "cluster", "hosts"}
    \/ pc = "find" /\ conf.mode # "redeploy"
    => Lists(machines, Macs(conf.hosts))

MachineInv ==
    /\ TypeOK
    /\ IdsAreCounts
    /\ RedeploySkips
    /\ MachinesListed
    /\ FreshClient
    /\ ListedMachinesOnly

\* The machines of a DHA file: as many as its hosts, each an address.
LEMMA TableMacs ==
    ASSUME NEW table \in HostTables
    PROVE  /\ Len(table) \in Nat
           /\ table \in [1..Len(table) -> [name : Name, mac : Mac]]
           /\ Macs(table) \subseteq Mac
           /\ Names(table) \subseteq Name
           /\ Cardinality(Macs(table)) = Len(table)
<1>1. Cardinality(Name) \in Nat
  BY SessionAssumption, FS_CardinalityType
<1>2. PICK n \in 1..Cardinality(Name) : table \in [1..n -> [name : Name, mac : Mac]]
  BY DEF HostTables
<1>3. n \in Nat
  BY <1>1
<1>4. Len(table) = n /\ DOMAIN table = 1..n
  BY <1>2, <1>3
<1>5. \A i \in 1..n : table[i] \in [name : Name, mac : Mac]
  BY <1>2
<1>6. \A i \in 1..n : table[i].mac \in Mac /\ table[i].name \in Name
  BY <1>5
<1>7. Macs(table) \subseteq Mac /\ Names(table) \subseteq Name
  BY <1>4, <1>6 DEF Macs, Names
<1>8. \A i, j \in 1..n : table[i].mac = table[j].mac => i = j
  BY <1>4 DEF HostTables
<1>. DEFINE f == [i \in 1..n |-> table[i].mac]
<1>9. f \in Surjection(1..n, Macs(table))
  BY <1>4, <1>7 DEF Macs, Surjection
<1>10. f \in Injection(1..n, Macs(table))
  BY <1>8, <1>9 DEF Injection, IsInjective, Surjection
<1>11. IsFiniteSet(1..n) /\ Cardinality(1..n) = n
  BY <1>3, FS_Interval
<1>12. Cardinality(Macs(table)) = n
  BY <1>9, <1>10, <1>11, FS_Surjection
<1>. QED  BY <1>2, <1>3, <1>4, <1>7, <1>12

\* A sequence as long as a finite set, of its members and without repetition, has
\* them all.
LEMMA ListingHasAll ==
    ASSUME NEW M \in SUBSET Mac, deck.machines \in MachineIds,
           M \subseteq DOMAIN deck.machines, NEW s \in Listings(M)
    PROVE  Lists(s, M)
<1>1. IsFiniteSet(M) /\ Cardinality(M) \in Nat
  BY SessionAssumption, FS_Subset, FS_CardinalityType
<1>2. IsFiniteSet(1..Cardinality(M)) /\ Cardinality(1..Cardinality(M)) = Cardinality(M)
  BY <1>1, FS_Interval
<1>3. s \in [1..Cardinality(M) -> M]
  BY DEF Listings
<1>4. \A i, j \in 1..Cardinality(M) : i < j => deck.machines[s[i]] < deck.machines[s[j]]
  BY <1>3 DEF Listings
<1>5. Cardinality(Mac) \in Nat
  BY SessionAssumption, FS_CardinalityType
<1>6. \A m \in M : deck.machines[m] \in Nat
  BY <1>5 DEF MachineIds
<1>7. ASSUME NEW i \in 1..Cardinality(M), NEW j \in 1..Cardinality(M), s[i] = s[j]
      PROVE  i = j
  <2>1. ~ i < j /\ ~ j < i
    BY <1>3, <1>4, <1>6, <1>7
  <2>. QED  BY <2>1, <1>1
<1>8. s \in Injection(1..Cardinality(M), M)
  BY <1>3, <1>7 DEF Injection, IsInjective
<1>9. s \in Surjection(1..Cardinality(M), M)
  BY <1>1, <1>2, <1>8, FS_Injection
<1>. QED  BY <1>3, <1>9 DEF Surjection, Lists

\* manage_db.py gives each machine it adds the next id.
LEMMA AddedMachines ==
    ASSUME NEW db \in MachineIds, \A m \in DOMAIN db : db[m] <= Cardinality(DOMAIN db),
           NEW table \in HostTables, NEW upTo \in 0..Len(table)
    PROVE  /\ WithMachines(db, table, upTo) \in MachineIds
           /\ \A m \in DOMAIN WithMachines(db, table, upTo) :
                  WithMachines(db, table, upTo)[m]
                      <= Cardinality(DOMAIN WithMachines(db, table, upTo))
<1>. DEFINE D == DOMAIN db
            added == {i \in 1..upTo : table[i].mac \notin D}
            N == {table[i].mac : i \in added}
            id(m) == LET at == CHOOSE i \in added : table[i].mac = m
                     IN  Cardinality(D) + Cardinality({i \in added : i <= at})
<1>1. /\ Len(table) \in Nat
      /\ table \in [1..Len(table) -> [name : Name, mac : Mac]]
  BY TableMacs
<1>2. /\ D \subseteq Mac
      /\ db \in [D -> 1..Cardinality(Mac)]
  BY DEF MachineIds
<1>3. \A i \in added : i \in 1..Len(table)
  BY <1>1
<1>4. \A i \in added : table[i].mac \in Mac
  BY <1>1, <1>3
<1>5. N \subseteq Mac
  BY <1>4
<1>6. IsFiniteSet(Mac) /\ Cardinality(Mac) \in Nat
  BY SessionAssumption, FS_CardinalityType
<1>7. /\ IsFiniteSet(D) /\ IsFiniteSet(N)
      /\ Cardinality(D) \in Nat /\ Cardinality(N) \in Nat
  BY <1>2, <1>5, <1>6, FS_Subset, FS_CardinalityType
<1>8. D \intersect N = {}
  OBVIOUS
<1>9. Cardinality(D \union N) = Cardinality(D) + Cardinality(N)
  <2>1. /\ IsFiniteSet(D \union N)
        /\ Cardinality(D \union N)
             = Cardinality(D) + Cardinality(N) - Cardinality(D \intersect N)
    BY <1>7, FS_Union
  <2>2. Cardinality(D \intersect N) = 0
    BY <1>8, FS_EmptySet
  <2>3. \A a, b, c, d \in Nat : d = 0 /\ c = a + b - d => c = a + b
    OBVIOUS
  <2>. QED  BY <2>1, <2>2, <1>7
<1>10. D \union N \subseteq Mac
  BY <1>2, <1>5
<1>11. Cardinality(D \union N) <= Cardinality(Mac) /\ IsFiniteSet(D \union N)
  BY <1>6, <1>10, FS_Subset
<1>12. IsFiniteSet(added) /\ Cardinality(added) = Cardinality(N)
  <2>. DEFINE f == [i \in added |-> table[i].mac]
  <2>1. upTo \in Nat
    BY <1>1
  <2>2. IsFiniteSet(1..upTo)
    BY <2>1, FS_Interval
  <2>3. IsFiniteSet(added)
    BY <2>2, FS_Subset
  <2>4. \A i, j \in added : table[i].mac = table[j].mac => i = j
    BY <1>1, <1>3 DEF HostTables
  <2>5. f \in Surjection(added, N)
    BY DEF Surjection
  <2>6. f \in Injection(added, N)
    BY <2>4, <2>5 DEF Injection, IsInjective, Surjection
  <2>. QED  BY <2>3, <2>5, <2>6, FS_Surjection
<1>13. ASSUME NEW m \in N
       PROVE  id(m) \in 1..Cardinality(D \union N)
  <2>. DEFINE at == CHOOSE i \in added : table[i].mac = m
              upToIt == {i \in added : i <= at}
  <2>1. at \in added
    BY <1>13
  <2>2. at \in Nat
    BY <2>1, <1>1
  <2>3. at \in upToIt
    BY <2>1, <2>2
  <2>4. IsFiniteSet(upToIt) /\ Cardinality(upToIt) <= Cardinality(added)
    BY <1>12, FS_Subset
  <2>5. Cardinality(upToIt) \in Nat /\ Cardinality(upToIt) # 0
    BY <2>3, <2>4, FS_CardinalityType, FS_EmptySet
  <2>6. id(m) = Cardinality(D) + Cardinality(upToIt)
    OBVIOUS
  <2>. HIDE DEF upToIt, at, id, N, D, added
  <2>. QED  BY <2>4, <2>5, <2>6, <1>7, <1>9, <1>12
<1>14. ASSUME NEW m \in D
       PROVE  db[m] \in 1..Cardinality(D \union N)
  <2>1. db[m] \in 1..Cardinality(Mac) /\ db[m] <= Cardinality(D)
    BY <1>2, <1>14
  <2>. HIDE DEF N, D
  <2>. QED  BY <2>1, <1>6, <1>7, <1>9
<1>. DEFINE new == [m \in D \union N |-> IF m \in D THEN db[m] ELSE id(m)]
<1>15. WithMachines(db, table, upTo) = new
  BY DEF WithMachines
<1>16. \A m \in D \union N : new[m] \in 1..Cardinality(D \union N)
  BY <1>13, <1>14
<1>17. new \in [D \union N -> 1..Cardinality(D \union N)]
  BY <1>16
<1>18. 1..Cardinality(D \union N) \subseteq 1..Cardinality(Mac)
  <2>1. \A a, b \in Nat : a <= b => 1..a \subseteq 1..b
    OBVIOUS
  <2>. HIDE DEF D, N
  <2>2. Cardinality(D \union N) \in Nat
    BY <1>11, FS_CardinalityType
  <2>. QED  BY <2>1, <2>2, <1>6, <1>11
<1>19. \A m \in D \union N : new[m] <= Cardinality(D \union N)
  <2>. HIDE DEF new, D, N
  <2>1. Cardinality(D \union N) \in Nat
    BY <1>11, FS_CardinalityType
  <2>2. \A c \in Nat : \A x \in 1..c : x <= c
    OBVIOUS
  <2>. QED  BY <1>16, <2>1, <2>2
<1>20. DOMAIN new = D \union N
  OBVIOUS
<1>. HIDE DEF new, D, N
<1>21. new \in [D \union N -> 1..Cardinality(Mac)]
  BY <1>17, <1>18
<1>22. new \in MachineIds
  BY <1>10, <1>21 DEF MachineIds
<1>. QED  BY <1>15, <1>19, <1>20, <1>22

-----------------------------------------------------------------------------

LEMMA InitMachineInv == Init => MachineInv
<1>. SUFFICES ASSUME Init PROVE MachineInv
  OBVIOUS
<1>1. EmptyDeck.machines \in MachineIds /\ EmptyDeck.hosts \in HostMachines
  <2>1. \A S : <<>> \in [{} -> S]
    OBVIOUS
  <2>2. <<>> \in MachineIds
    BY <2>1 DEF MachineIds
  <2>3. <<>> \in HostMachines
    BY <2>1 DEF HostMachines
  <2>. QED  BY <2>2, <2>3 DEF EmptyDeck
<1>2. DOMAIN EmptyDeck.machines = {}
  BY DEF EmptyDeck
<1>3. TypeOK
  <2>1. deck = EmptyDeck /\ machines = <<>>
    BY DEF Init
  <2>2. deck \in DeckTables
    BY <1>1, <2>1 DEF EmptyDeck, DeckTables
  <2>3. machines \in Seq(Mac)
    BY <2>1
  <2>4. conf \in Confs
    BY DEF Init, Confs, Modes
  <2>5. run \in 0..MaxRuns
    BY SessionAssumption DEF Init
  <2>6. /\ pc \in Steps
        /\ hostMapping \subseteq Name /\ hostIps \subseteq hostMapping
        /\ accepted \in BOOLEAN /\ watched \in BOOLEAN
    BY DEF Init, Steps
  <2>. QED  BY <2>2, <2>3, <2>4, <2>5, <2>6 DEF TypeOK
<1>. QED  BY <1>2, <1>3 DEF Init, MachineInv, IdsAreCounts, RedeploySkips, MachinesListed,
                            FreshClient, ListedMachinesOnly

\* A start adds machines, and nobody uses any yet.
LEMMA LaunchMachineInv ==
    ASSUME MachineInv, NEW mode \in Modes, NEW table \in HostTables,
           NEW bare \in SUBSET Names(table), NEW refresh \in BOOLEAN,
           NEW file \in BOOLEAN, NEW upTo \in 0..Len(table),
           Launch(mode, table, bare, refresh, upTo, file)
    PROVE  MachineInv'
<1>. DEFINE before == IF refresh THEN EmptyDeck ELSE deck
            with == WithMachines(before.machines, table, upTo)
<1>1. EmptyDeck \in DeckTables
  <2>1. \A S : <<>> \in [{} -> S]
    OBVIOUS
  <2>2. <<>> \in MachineIds
    BY <2>1 DEF MachineIds
  <2>3. <<>> \in HostMachines
    BY <2>1 DEF HostMachines
  <2>. QED  BY <2>2, <2>3 DEF EmptyDeck, DeckTables
<1>2. before \in DeckTables
  BY <1>1 DEF MachineInv, TypeOK
<1>3. \A m \in DOMAIN before.machines :
          before.machines[m] <= Cardinality(DOMAIN before.machines)
  BY DEF MachineInv, IdsAreCounts, EmptyDeck
<1>4. before.machines \in MachineIds
  BY <1>2 DEF DeckTables
<1>5. /\ with \in MachineIds
      /\ \A m \in DOMAIN with : with[m] <= Cardinality(DOMAIN with)
  BY <1>3, <1>4, AddedMachines
<1>6. deck' = [before EXCEPT !.machines = with]
  BY DEF Launch
<1>. HIDE DEF before, with
<1>7. deck' \in DeckTables /\ deck'.machines = with
  BY <1>2, <1>5, <1>6 DEF DeckTables
<1>8. /\ run < MaxRuns /\ run' = run + 1
      /\ conf' = [mode |-> mode, hosts |-> table, bare |-> bare, file |-> file]
      /\ pc' = "login" /\ machines' = <<>> /\ hostMapping' = {} /\ hostIps' = {}
      /\ accepted' = FALSE /\ watched' = FALSE
  BY DEF Launch
<1>9. run' \in 0..MaxRuns
  BY <1>8, SessionAssumption DEF MachineInv, TypeOK
<1>10. machines' \in Seq(Mac)
  BY <1>8
<1>11. conf' \in Confs
  <2>1. Names(table) \subseteq Name
    BY TableMacs
  <2>. QED  BY <1>8, <2>1 DEF Confs
<1>13. TypeOK'
  BY <1>7, <1>8, <1>9, <1>10, <1>11 DEF TypeOK, Steps
<1>12. IdsAreCounts'
  BY <1>5, <1>7 DEF IdsAreCounts
<1>. QED  BY <1>8, <1>12, <1>13 DEF MachineInv, RedeploySkips, MachinesListed,
                                    FreshClient, ListedMachinesOnly

\* A listing is a sequence.
LEMMA ListsIsSeq ==
    ASSUME NEW M \in SUBSET Mac, NEW s, Lists(s, M)
    PROVE  s \in Seq(Mac) /\ Len(s) = Cardinality(M)
<1>1. Cardinality(M) \in Nat
  BY SessionAssumption, FS_Subset, FS_CardinalityType
<1>2. s \in [1..Cardinality(M) -> Mac]
  BY DEF Lists
<1>. QED  BY <1>1, <1>2

LEMMA EarlyMachineInv ==
    ASSUME MachineInv,
           \/ Login \/ GetMachines \/ UnknownMachine \/ AddSubnets \/ GetAdapter
           \/ AddCluster \/ ClusterExists \/ FindCluster \/ NoCluster
    PROVE  MachineInv'
<1>. USE DEF MachineInv, TypeOK, IdsAreCounts, RedeploySkips, MachinesListed,
             FreshClient, ListedMachinesOnly, Request, Exception, clientVars, Steps, Confs, Modes
<1>1. CASE Login
  BY <1>1 DEF Login
<1>2. CASE GetMachines
  <2>. DEFINE M == DOMAIN deck.machines \intersect Macs(conf.hosts)
  <2>1. conf.hosts \in HostTables /\ deck.machines \in MachineIds
    BY DEF DeckTables
  <2>2. M = Macs(conf.hosts) /\ M \subseteq Mac
    BY <1>2, <2>1, TableMacs DEF GetMachines, KnownMachines
  <2>3. machines' \in Listings(M)
    BY <1>2 DEF GetMachines, Selected
  <2>4. Lists(machines', M)
    BY <2>1, <2>2, <2>3, ListingHasAll
  <2>5. machines' \in Seq(Mac)
    BY <2>2, <2>4, ListsIsSeq
  <2>6. /\ pc = "machines" /\ deck' = deck /\ pc' \in {"subnets", "failed"}
        /\ UNCHANGED <<run, conf, accepted, hostMapping, hostIps, watched>>
    BY <1>2 DEF GetMachines
  <2>. HIDE DEF M
  <2>. QED  BY <2>2, <2>4, <2>5, <2>6
<1>3. CASE UnknownMachine
  BY <1>3 DEF UnknownMachine
<1>4. CASE AddSubnets
  <2>1. [deck EXCEPT !.subnets = TRUE] \in DeckTables
    BY DEF DeckTables
  <2>2. /\ [deck EXCEPT !.subnets = TRUE].machines = deck.machines
        /\ [deck EXCEPT !.subnets = TRUE].hosts = deck.hosts
    BY DEF DeckTables
  <2>3. /\ deck' \in DeckTables
        /\ deck'.machines = deck.machines /\ deck'.hosts = deck.hosts
    BY <1>4, <2>1, <2>2 DEF AddSubnets
  <2>4. /\ pc = "subnets" /\ pc' \in {"adapter", "find", "failed"}
        /\ UNCHANGED <<run, conf, accepted, clientVars>>
    BY <1>4 DEF AddSubnets
  <2>. QED  BY <2>3, <2>4
<1>5. CASE GetAdapter
  BY <1>5 DEF GetAdapter
<1>6. CASE AddCluster
  <2>1. [deck EXCEPT !.cluster = TRUE] \in DeckTables
    BY DEF DeckTables
  <2>2. /\ [deck EXCEPT !.cluster = TRUE].machines = deck.machines
        /\ [deck EXCEPT !.cluster = TRUE].hosts = deck.hosts
    BY DEF DeckTables
  <2>3. /\ deck' \in DeckTables
        /\ deck'.machines = deck.machines /\ deck'.hosts = deck.hosts
    BY <1>6, <2>1, <2>2 DEF AddCluster
  <2>4. /\ pc = "cluster" /\ pc' \in {"hosts", "failed"}
        /\ UNCHANGED <<run, conf, accepted, clientVars>>
    BY <1>6 DEF AddCluster
  <2>. QED  BY <2>3, <2>4
<1>7. CASE ClusterExists
  BY <1>7 DEF ClusterExists
<1>8. CASE FindCluster
  BY <1>8 DEF FindCluster
<1>9. CASE NoCluster
  BY <1>9 DEF NoCluster
<1>. QED  BY <1>1, <1>2, <1>3, <1>4, <1>5, <1>6, <1>7, <1>8, <1>9

\* Each host of the DHA file gets a machine of its machine file, and each machine
\* a host.
LEMMA PairingIsOnto ==
    ASSUME TypeOK, Lists(machines, Macs(conf.hosts))
    PROVE  /\ Pairing \in [Names(conf.hosts) -> Mac]
           /\ {Pairing[n] : n \in Names(conf.hosts)} = Macs(conf.hosts)
<1>. DEFINE table == conf.hosts
            k == Len(table)
            at(name) == CHOOSE i \in 1..k : table[i].name = name
<1>1. table \in HostTables
  BY DEF TypeOK, Confs
<1>2. /\ k \in Nat
      /\ table \in [1..k -> [name : Name, mac : Mac]]
      /\ Macs(table) \subseteq Mac
      /\ Cardinality(Macs(table)) = k
  BY <1>1, TableMacs
<1>3. Len(machines) = k /\ machines \in Seq(Mac)
  BY <1>2, ListsIsSeq
<1>4. SubSeq(machines, Len(machines) - k + 1, Len(machines)) = machines
  BY <1>2, <1>3
<1>5. Pairing = [name \in Names(table) |-> machines[at(name)]]
  <2>. DEFINE last == SubSeq(machines, Len(machines) - k + 1, Len(machines))
  <2>1. Pairing = [name \in Names(table) |-> last[at(name)]]
    BY DEF Pairing
  <2>. HIDE DEF at
  <2>. QED  BY <1>4, <2>1
<1>6. DOMAIN table = 1..k
  BY <1>2
<1>7. \A i \in 1..k : at(table[i].name) = i
  BY <1>1, <1>6 DEF HostTables
<1>8. machines \in [1..k -> Macs(table)] /\ \A m \in Macs(table) : \E i \in 1..k : machines[i] = m
  BY <1>2 DEF Lists
<1>9. Names(table) = {table[i].name : i \in 1..k}
  BY <1>6 DEF Names
<1>. HIDE DEF at, k, table
<1>10. \A i \in 1..k : /\ table[i].name \in Names(table)
                       /\ Pairing[table[i].name] = machines[i]
  BY <1>5, <1>7, <1>9
<1>11. \A n \in Names(table) : \E i \in 1..k : Pairing[n] = machines[i]
  BY <1>9, <1>10
<1>12. \A n \in Names(table) : Pairing[n] \in Macs(table)
  BY <1>8, <1>11
<1>13. \A m \in Macs(table) : \E n \in Names(table) : Pairing[n] = m
  BY <1>8, <1>10
<1>14. Pairing \in [Names(table) -> Mac]
  BY <1>2, <1>5, <1>12
<1>15. {Pairing[n] : n \in Names(table)} = Macs(table)
  BY <1>12, <1>13
<1>. QED  BY <1>14, <1>15 DEF table

LEMMA HostsMachineInv ==
    ASSUME MachineInv,
           \/ AddHosts \/ HostsRefused
           \/ \E n \in Name : SetNetworking(n)
           \/ SetOsConfig \/ SetPackageConfig
    PROVE  MachineInv'
<1>. USE DEF MachineInv, TypeOK, IdsAreCounts, RedeploySkips, MachinesListed,
             FreshClient, ListedMachinesOnly, Request, Exception, clientVars, Steps, Confs
<1>1. CASE AddHosts
  <2>. DEFINE N == Names(conf.hosts)
              hosts == [n \in N \union DOMAIN deck.hosts |->
                            IF n \in N THEN Pairing[n] ELSE deck.hosts[n]]
  <2>1. /\ pc = "hosts" /\ pc' \in {"networks", "failed"}
        /\ deck' \in {deck, [deck EXCEPT !.hosts = hosts]}
        /\ pc' # "failed" => deck' = [deck EXCEPT !.hosts = hosts]
        /\ hostMapping' = N
        /\ UNCHANGED <<run, conf, accepted, machines, hostIps, watched>>
    BY <1>1 DEF AddHosts
  <2>2. /\ Pairing \in [N -> Mac]
        /\ {Pairing[n] : n \in N} = Macs(conf.hosts)
    BY <2>1, PairingIsOnto
  <2>3. N \subseteq Name
    BY TableMacs
  <2>4. hosts \in HostMachines
    <3>1. PICK D \in SUBSET Name : deck.hosts \in [D -> Mac]
      BY DEF DeckTables, HostMachines
    <3>2. hosts \in [N \union D -> Mac]
      BY <2>2, <3>1
    <3>. QED  BY <2>3, <3>1, <3>2 DEF HostMachines
  <2>5. \A n \in N : hosts[n] = Pairing[n]
    OBVIOUS
  <2>. HIDE DEF hosts, N
  <2>6. /\ [deck EXCEPT !.hosts = hosts] \in DeckTables
        /\ [deck EXCEPT !.hosts = hosts].machines = deck.machines
        /\ [deck EXCEPT !.hosts = hosts].hosts = hosts
    BY <2>4 DEF DeckTables
  <2>7. deck' \in DeckTables /\ deck'.machines = deck.machines
    BY <2>1, <2>6
  <2>8. pc' # "failed" => {deck'.hosts[n] : n \in N} = Macs(conf.hosts)
    <3>1. {hosts[n] : n \in N} = {Pairing[n] : n \in N}
      BY <2>5
    <3>2. pc' # "failed" => deck'.hosts = hosts
      BY <2>1, <2>6
    <3>. QED  BY <2>2, <3>1, <3>2
  <2>9. ListedMachinesOnly'
    BY <2>1, <2>8
  <2>10. TypeOK'
    BY <2>1, <2>3, <2>7
  <2>. QED  BY <2>1, <2>7, <2>9, <2>10
<1>2. CASE HostsRefused
  BY <1>2 DEF HostsRefused
<1>3. ASSUME NEW n \in Name, SetNetworking(n)
      PROVE  MachineInv'
  <2>. DEFINE new == [deck EXCEPT !.networks = @ \union {n}]
  <2>1. new \in DeckTables /\ new.machines = deck.machines /\ new.hosts = deck.hosts
    BY DEF DeckTables
  <2>2. /\ deck' \in DeckTables
        /\ deck'.machines = deck.machines /\ deck'.hosts = deck.hosts
    BY <1>3, <2>1 DEF SetNetworking
  <2>3. /\ pc = "networks" /\ pc' \in {"networks", "failed"}
        /\ n \in hostMapping /\ hostIps' = hostIps \union {n}
        /\ UNCHANGED <<run, conf, accepted, machines, hostMapping, watched>>
    BY <1>3 DEF SetNetworking
  <2>. QED  BY <2>2, <2>3
<1>4. CASE SetOsConfig
  <2>1. /\ OsConfig \in DeckTables
        /\ OsConfig.machines = deck.machines /\ OsConfig.hosts = deck.hosts
    BY DEF DeckTables, OsConfig
  <2>2. /\ deck' \in DeckTables
        /\ deck'.machines = deck.machines /\ deck'.hosts = deck.hosts
    BY <1>4, <2>1 DEF SetOsConfig
  <2>3. /\ pc = "networks" /\ pc' \in {"package", "failed"}
        /\ UNCHANGED <<run, conf, accepted, clientVars>>
    BY <1>4 DEF SetOsConfig
  <2>. QED  BY <2>2, <2>3
<1>5. CASE SetPackageConfig
  <2>. DEFINE new == [deck EXCEPT !.package = TRUE]
  <2>1. new \in DeckTables /\ new.machines = deck.machines /\ new.hosts = deck.hosts
    BY DEF DeckTables
  <2>2. /\ deck' \in DeckTables
        /\ deck'.machines = deck.machines /\ deck'.hosts = deck.hosts
    BY <1>5, <2>1 DEF SetPackageConfig
  <2>3. /\ pc = "package" /\ pc' \in {"roles", "failed"}
        /\ UNCHANGED <<run, conf, accepted, clientVars>>
    BY <1>5 DEF SetPackageConfig
  <2>. QED  BY <2>2, <2>3
<1>. QED  BY <1>1, <1>2, <1>3, <1>4, <1>5

\* From the roles on, a run marks its hosts in one table after the other.
LEMMA LateMachineInv ==
    ASSUME MachineInv,
           \/ SetRoles \/ Review \/ Deploy \/ DeployFails \/ Redeploy \/ Watch
    PROVE  MachineInv'
<1>. USE DEF MachineInv, TypeOK, IdsAreCounts, RedeploySkips, MachinesListed,
             FreshClient, ListedMachinesOnly, Request, clientVars, Steps, Confs
<1>1. ASSUME deck' \in DeckTables,
             deck'.machines = deck.machines, deck'.hosts = deck.hosts,
             pc \in {"roles", "review", "deploy", "redeploy", "watch"},
             pc' \in {"review", "deploy", "watch", "succeeded", "failed"},
             accepted' \in BOOLEAN, watched' \in BOOLEAN,
             UNCHANGED <<run, conf, machines, hostMapping, hostIps>>
      PROVE  MachineInv'
  BY <1>1
<1>2. CASE SetRoles
  <2>1. PICK some \in SUBSET hostMapping :
            deck' = [deck EXCEPT !.roles = @ \union some]
    BY <1>2 DEF SetRoles
  <2>2. /\ deck' \in DeckTables
        /\ deck'.machines = deck.machines /\ deck'.hosts = deck.hosts
    BY <2>1 DEF DeckTables
  <2>. QED  BY <1>1, <1>2, <2>2 DEF SetRoles
<1>3. CASE Review
  <2>1. deck' \in {deck, [deck EXCEPT !.reviewed = @ \union hostMapping]}
    BY <1>3 DEF Review
  <2>2. /\ deck' \in DeckTables
        /\ deck'.machines = deck.machines /\ deck'.hosts = deck.hosts
    BY <2>1 DEF DeckTables
  <2>. QED  BY <1>1, <1>3, <2>2 DEF Review
<1>4. CASE Deploy \/ DeployFails
  <2>1. deck' \in {deck, [deck EXCEPT !.deployed = @ \union hostMapping]}
    BY <1>4 DEF Deploy, DeployFails
  <2>2. /\ deck' \in DeckTables
        /\ deck'.machines = deck.machines /\ deck'.hosts = deck.hosts
    BY <2>1 DEF DeckTables
  <2>. QED  BY <1>1, <1>4, <2>2 DEF Deploy, DeployFails
<1>5. CASE Redeploy
  <2>1. DOMAIN deck.hosts \subseteq Name
    BY DEF DeckTables, HostMachines
  <2>2. deck' \in {deck, [deck EXCEPT !.deployed = @ \union DOMAIN deck.hosts]}
    BY <1>5 DEF Redeploy
  <2>3. /\ deck' \in DeckTables
        /\ deck'.machines = deck.machines /\ deck'.hosts = deck.hosts
    BY <2>1, <2>2 DEF DeckTables
  <2>. QED  BY <1>1, <1>5, <2>3 DEF Redeploy
<1>6. CASE Watch
  BY <1>1, <1>6 DEF Watch
<1>. QED  BY <1>2, <1>3, <1>4, <1>5, <1>6

LEMMA NextMachineInv == MachineInv /\ [Next]_vars => MachineInv'
<1>. SUFFICES ASSUME MachineInv, [Next]_vars PROVE MachineInv'
  OBVIOUS
<1>1. ASSUME NEW mode \in Modes, NEW table \in HostTables,
             NEW bare \in SUBSET Names(table), NEW refresh \in BOOLEAN,
             NEW file \in BOOLEAN, NEW upTo \in 0..Len(table),
             Launch(mode, table, bare, refresh, upTo, file)
      PROVE  MachineInv'
  BY <1>1, LaunchMachineInv
<1>2. CASE Login \/ GetMachines \/ UnknownMachine \/ AddSubnets \/ GetAdapter
           \/ AddCluster \/ ClusterExists \/ FindCluster \/ NoCluster
  BY <1>2, EarlyMachineInv
<1>3. CASE AddHosts \/ HostsRefused \/ (\E n \in Name : SetNetworking(n))
           \/ SetOsConfig \/ SetPackageConfig
  BY <1>3, HostsMachineInv
<1>4. CASE SetRoles \/ Review \/ Deploy \/ DeployFails \/ Redeploy \/ Watch
  BY <1>4, LateMachineInv
<1>5. CASE Idle \/ UNCHANGED vars
  BY <1>5 DEF Idle, vars, clientVars, MachineInv, TypeOK, IdsAreCounts, RedeploySkips,
              MachinesListed, FreshClient, ListedMachinesOnly
<1>. QED  BY <1>1, <1>2, <1>3, <1>4, <1>5 DEF Next

-----------------------------------------------------------------------------

\* In every run the machines in use are the machine file's, each once, and the deck's
\* ids stay within the number of the machines it knows.
THEOREM MachineInvariant == Spec => []MachineInv
<1>. QED  BY InitMachineInv, NextMachineInv, PTL DEF Spec

\* Type correctness of the deck's tables and of the client's variables.
THEOREM SessionTypes == Spec => []TypeOK
<1>1. MachineInv => TypeOK
  BY DEF MachineInv
<1>. QED  BY <1>1, MachineInvariant, PTL

\* The machines a run's hosts get are the ones the operator listed: all of them, and
\* none of the others the deck knows, with any number of machines and earlier runs.
THEOREM UsesListedMachinesOnly == Spec => []ListedMachinesOnly
<1>1. MachineInv => ListedMachinesOnly
  BY DEF MachineInv
<1>. QED  BY <1>1, MachineInvariant, PTL
=============================================================================
