---------------------------- MODULE RoleAssignment ----------------------------
(***************************************************************************)
(* How deploy/client.py hands the roles of the adapter's flavor out to the *)
(* hosts of a cluster: set_all_hosts_roles and the set_host_roles calls it *)
(* makes to compass-deck.  Three passes run one after the other:           *)
(*   - the hosts that HOST_ROLES names get the roles it lists;             *)
(*   - the required roles nobody has yet are spread over the other hosts,  *)
(*     map(None, hosts, roles) padding the shorter list with None;         *)
(*   - the hosts still without an entry would get a default role, but the  *)
(*     second pass leaves none without one: its null roles are entries.    *)
(* Each call may be refused by the deck, and an exception ends the client. *)
(*                                                                         *)
(* A role list is modelled as a set.  The passes iterate over a dictionary *)
(* or over a list the configuration fixes; taking the next element of a    *)
(* set covers every order.                                                 *)
(***************************************************************************)
EXTENDS Naturals, FiniteSets

CONSTANTS
    Host,       \* the hostnames of the cluster
    Role,       \* the roles the configuration and the flavor may name
    Required,   \* the roles of the flavor that are not 'optional'
    NoRole      \* Python's None, sent to the deck as a JSON null

ASSUME RoleAssumption ==
    /\ IsFiniteSet(Host)
    /\ IsFiniteSet(Role)
    /\ Required \subseteq Role
    /\ NoRole \notin Role

VARIABLES
    pc,           \* the pass the client is in
    hostMapping,  \* keys of host_mapping: the hosts the deck knows for us
    conf,         \* HOST_ROLES: the roles listed for each host it names
    todo,         \* the entries of HOST_ROLES not handled yet
    assigned,     \* the required roles role_mapping has as ROLE_ASSIGNED
    hostRoles,    \* keys of the client's host_roles
    spareHosts,   \* unassigned_hostnames, those the padding loop has left
    spareRoles,   \* unassigned_roles, those the padding loop has left
    deckRoles     \* the roles the deck has stored for each host

vars == <<pc, hostMapping, conf, todo, assigned, hostRoles,
          spareHosts, spareRoles, deckRoles>>

AnyRole == Role \union {NoRole}

-----------------------------------------------------------------------------

\* Everything the role pass reads is fixed before it starts: the hosts the
\* deck returned when they were added, and the HOST_ROLES entries.  Names in
\* HOST_ROLES are distinct, as the deck rejects two hosts of one name, and
\* config_parse.py writes an entry for every host, so there is at least one.
Init ==
    /\ pc = "explicit"
    /\ hostMapping \in SUBSET Host
    /\ \E named \in (SUBSET Host) \ {{}} : conf \in [named -> SUBSET Role]
    /\ todo = DOMAIN conf
    /\ assigned = {}
    /\ hostRoles = {}
    /\ spareHosts = {}
    /\ spareRoles = {}
    /\ deckRoles = [h \in Host |-> {}]

\* PUT /clusters/<id>/hosts/<id>: an empty list leaves 'roles' out of the
\* request, and the deck then changes nothing.
Stored(h, roles) ==
    IF roles = {} THEN deckRoles ELSE [deckRoles EXCEPT ![h] = roles]

\* set_host_roles when the deck answers 2xx: the deck has the roles, and those
\* role_mapping knows are marked.
RolesAccepted(h, roles) ==
    /\ deckRoles' = Stored(h, roles)
    /\ assigned' = assigned \union (roles \intersect Required)
    /\ hostRoles' = hostRoles \union {h}

\* Defect: the roles are marked before the status is looked at.
MarkedBeforeStatus(h, roles) ==
    /\ deckRoles' \in {deckRoles, Stored(h, roles)}
    /\ pc' = "failed"
    /\ assigned' = assigned \union (roles \intersect Required)
    /\ UNCHANGED hostRoles

\* set_host_roles when the call fails: the deck may or may not have stored the
\* roles, the client raises before it records anything.
RolesRefused(h, roles) ==
    /\ deckRoles' \in {deckRoles, Stored(h, roles)}
    /\ pc' = "failed"
    /\ UNCHANGED <<assigned, hostRoles>>

\* One entry of HOST_ROLES: assert(hostname in self.host_mapping), then the call.
AssignListed(h) ==
    /\ pc = "explicit"
    /\ h \in todo
    /\ h \in hostMapping
    /\ todo' = todo \ {h}
    /\ \/ RolesAccepted(h, conf[h]) /\ UNCHANGED pc
       \/ RolesRefused(h, conf[h])
    /\ UNCHANGED <<hostMapping, conf, spareHosts, spareRoles>>

RejectUnknownHost(h) ==
    /\ pc = "explicit"
    /\ h \in todo
    /\ h \notin hostMapping
    /\ pc' = "failed"
    /\ UNCHANGED <<hostMapping, conf, todo, assigned, hostRoles,
                   spareHosts, spareRoles, deckRoles>>

\* The two list comprehensions and the assertion, with what they may get wrong
\* as parameters: which hosts and roles are left over, and when to go on.
Leftovers(hosts, roles, enough) ==
    /\ pc = "explicit"
    /\ todo = {}
    /\ spareHosts' = hosts
    /\ spareRoles' = roles
    /\ pc' = IF enough THEN "pad" ELSE "failed"
    /\ UNCHANGED <<hostMapping, conf, todo, assigned, hostRoles, deckRoles>>

\* Defect: no assertion.
UncheckedLeftovers ==
    Leftovers(hostMapping \ hostRoles, Required \ assigned, TRUE)

\* Defect: hosts that have their roles already are padded again.
EveryHostLeft ==
    Leftovers(hostMapping, Required \ assigned,
              Cardinality(hostMapping) >= Cardinality(Required \ assigned))

\* After the last entry: compute both leftover lists, assert that there are at
\* least as many hosts as roles.
CountLeftovers ==
    LET hosts == hostMapping \ hostRoles
        roles == Required \ assigned
    IN  Leftovers(hosts, roles, Cardinality(hosts) >= Cardinality(roles))

\* What map(None, ...) pairs the next host with.
Partner(role) ==
    \/ role \in spareRoles
    \/ spareRoles = {} /\ role = NoRole

PadHost(h, role) ==
    /\ pc = "pad"
    /\ h \in spareHosts
    /\ Partner(role)
    /\ spareHosts' = spareHosts \ {h}
    /\ spareRoles' = spareRoles \ {role}
    /\ \/ RolesAccepted(h, {role}) /\ UNCHANGED pc
       \/ RolesRefused(h, {role})
    /\ UNCHANGED <<hostMapping, conf, todo>>

\* The hosts the default-role loop would serve, and the early return before it.
\* The loop itself is no action: Finish is the only way on, and a behaviour in
\* which a host is left over would stop before it, as a deadlock (LeftOver is
\* empty whenever Finish is reached: theorem DefaultLoopUnreachable).
LeftOver == hostMapping \ hostRoles

Finish ==
    /\ pc = "pad"
    /\ spareHosts = {}
    /\ LeftOver = {}
    /\ pc' = "done"
    /\ UNCHANGED <<hostMapping, conf, todo, assigned, hostRoles,
                   spareHosts, spareRoles, deckRoles>>

\* The client has left the role pass, normally or by an exception.
Over ==
    /\ pc \in {"done", "failed"}
    /\ UNCHANGED vars

Next ==
    \/ \E h \in Host : AssignListed(h)
    \/ \E h \in Host : RejectUnknownHost(h)
    \/ CountLeftovers
    \/ \E h \in Host, role \in AnyRole : PadHost(h, role)
    \/ Finish
    \/ Over

Spec == Init /\ [][Next]_vars

-----------------------------------------------------------------------------

TypeOK ==
    /\ pc \in {"explicit", "pad", "done", "failed"}
    /\ hostMapping \subseteq Host
    /\ DOMAIN conf \subseteq Host
    /\ \A h \in DOMAIN conf : conf[h] \subseteq Role
    /\ todo \subseteq DOMAIN conf
    /\ assigned \subseteq Required
    /\ hostRoles \subseteq Host
    /\ spareHosts \subseteq hostMapping
    /\ spareRoles \subseteq Required
    /\ deckRoles \in [Host -> SUBSET AnyRole]

HeldBySomeHost(role) == \E h \in Host : role \in deckRoles[h]

\* A required role the client has marked ROLE_ASSIGNED is held by a host in the
\* deck, whatever calls failed and whatever was written since: a later call
\* never takes the role away again (client.py set_host_roles).
AssignedIsHeld == \A role \in assigned : HeldBySomeHost(role)

\* When the pass returns, the deployment can start: no required role is missing.
RequiredCovered == pc = "done" => \A role \in Required : HeldBySomeHost(role)

\* While hosts are being padded there are always hosts enough for the roles
\* still to place, so the loop never pairs a role with None (a KeyError).
EnoughHosts == pc = "pad" => Cardinality(spareHosts) >= Cardinality(spareRoles)

\* Once the padding loop is over no host is without an entry in host_roles, so
\* that the early return is always taken and the loop below the comment "assign
\* default roles to unassigned hosts" (client.py:876) serves nobody.
NoHostLeftOver == pc = "pad" /\ spareHosts = {} => LeftOver = {}

\* The deck's roles of a host are written at most once by the pass.
WrittenOnce ==
    [][\A h \in Host : deckRoles[h] # {} => deckRoles'[h] = deckRoles[h]]_vars
=============================================================================
