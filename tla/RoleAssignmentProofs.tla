------------------------- MODULE RoleAssignmentProofs -------------------------
(***************************************************************************)
(* The safety of the role pass, for every cluster and every flavor.  The   *)
(* invariants the runs check are not inductive: what keeps them is that    *)
(* the client's picture of the leftovers agrees with the deck's tables     *)
(* (Bookkeeping), and that the assertion on their numbers stays true while *)
(* hosts and roles are crossed out together (EnoughHosts).                 *)
(***************************************************************************)
EXTENDS RoleAssignment, FiniteSetTheorems, TLAPS

\* The client's lists and the deck's tables agree: a host nobody handled has no
\* roles, the hosts still to handle were not handled, and the leftovers are what
\* their names say.
Bookkeeping ==
    /\ pc \in {"explicit", "pad"} =>
           \A h \in Host : deckRoles[h] # {} => h \in hostRoles
    /\ pc = "explicit" => todo \intersect hostRoles = {}
    /\ pc = "pad" => /\ spareHosts = hostMapping \ hostRoles
                     /\ spareRoles = Required \ assigned
    /\ pc = "done" => Required \subseteq assigned

IInv ==
    /\ TypeOK
    /\ AssignedIsHeld
    /\ EnoughHosts
    /\ Bookkeeping

-----------------------------------------------------------------------------
(* Lemmas about the calls. *)

\* A host of the right kind can only be written while the deck has nothing for
\* it, so an accepted call takes no role from anybody.
LEMMA AcceptedKeepsHeld ==
    ASSUME TypeOK, AssignedIsHeld,
           NEW h \in Host, NEW roles \in SUBSET AnyRole,
           deckRoles[h] = {},
           RolesAccepted(h, roles)
    PROVE  /\ AssignedIsHeld'
           /\ assigned' \subseteq Required
           /\ hostRoles' \subseteq Host
           /\ deckRoles' \in [Host -> SUBSET AnyRole]
           /\ \A g \in Host : g # h => deckRoles'[g] = deckRoles[g]
<1>1. deckRoles' \in [Host -> SUBSET AnyRole]
  BY DEF RolesAccepted, Stored, TypeOK
<1>2. \A g \in Host : g # h => deckRoles'[g] = deckRoles[g]
  BY DEF RolesAccepted, Stored, TypeOK
<1>3. deckRoles'[h] = roles
  BY DEF RolesAccepted, Stored, TypeOK
<1>4. ASSUME NEW role \in assigned'  PROVE HeldBySomeHost(role)'
  <2>1. CASE role \in roles
    BY <2>1, <1>3 DEF HeldBySomeHost
  <2>2. CASE role \notin roles
    <3>1. role \in assigned
      BY <2>2, <1>4 DEF RolesAccepted
    <3>2. PICK g \in Host : role \in deckRoles[g]
      BY <3>1 DEF AssignedIsHeld, HeldBySomeHost
    <3>3. g # h
      BY <3>2
    <3>. QED  BY <3>2, <3>3, <1>2 DEF HeldBySomeHost
  <2>. QED  BY <2>1, <2>2
<1>5. AssignedIsHeld'
  BY <1>4 DEF AssignedIsHeld
<1>. QED  BY <1>1, <1>2, <1>5 DEF RolesAccepted, TypeOK

\* The same for a refused call, whatever the deck made of it.
LEMMA RefusedKeepsHeld ==
    ASSUME TypeOK, AssignedIsHeld,
           NEW h \in Host, NEW roles \in SUBSET AnyRole,
           deckRoles[h] = {},
           RolesRefused(h, roles)
    PROVE  /\ AssignedIsHeld'
           /\ deckRoles' \in [Host -> SUBSET AnyRole]
           /\ \A g \in Host : deckRoles[g] # {} => deckRoles'[g] = deckRoles[g]
           /\ pc' = "failed"
           /\ UNCHANGED <<assigned, hostRoles>>
<1>1. deckRoles' \in [Host -> SUBSET AnyRole]
  BY DEF RolesRefused, Stored, TypeOK
<1>2. \A g \in Host : deckRoles[g] # {} => deckRoles'[g] = deckRoles[g]
  BY DEF RolesRefused, Stored, TypeOK
<1>3. ASSUME NEW role \in assigned'  PROVE HeldBySomeHost(role)'
  <2>1. PICK g \in Host : role \in deckRoles[g]
    BY <1>3 DEF AssignedIsHeld, HeldBySomeHost, RolesRefused
  <2>. QED  BY <2>1, <1>2 DEF HeldBySomeHost
<1>. QED  BY <1>1, <1>2, <1>3 DEF RolesRefused, AssignedIsHeld

-----------------------------------------------------------------------------
(* The inductive invariant. *)

LEMMA InitIInv == Init => IInv
<1>. SUFFICES ASSUME Init PROVE IInv
  OBVIOUS
<1>1. TypeOK
  BY DEF Init, TypeOK
<1>2. AssignedIsHeld
  BY DEF Init, AssignedIsHeld
<1>. QED  BY <1>1, <1>2 DEF Init, IInv, EnoughHosts, Bookkeeping

LEMMA AssignListedIInv ==
    ASSUME IInv, NEW h \in Host, AssignListed(h)
    PROVE  IInv'
<1>1. deckRoles[h] = {} /\ conf[h] \in SUBSET AnyRole
  BY DEF IInv, Bookkeeping, AssignListed, TypeOK, AnyRole
<1>2. CASE RolesAccepted(h, conf[h]) /\ UNCHANGED pc
  <2>1. AssignedIsHeld' /\ \A g \in Host : g # h => deckRoles'[g] = deckRoles[g]
    BY <1>1, <1>2, AcceptedKeepsHeld DEF IInv
  <2>2. TypeOK'
    BY <1>1, <1>2, AcceptedKeepsHeld DEF IInv, TypeOK, AssignListed
  <2>3. Bookkeeping'
    BY <2>1, <1>2 DEF IInv, TypeOK, Bookkeeping, AssignListed, RolesAccepted
  <2>. QED  BY <2>1, <2>2, <2>3, <1>2 DEF IInv, AssignListed, EnoughHosts
<1>3. CASE RolesRefused(h, conf[h])
  BY <1>1, <1>3, RefusedKeepsHeld
  DEF IInv, TypeOK, AssignListed, EnoughHosts, Bookkeeping
<1>. QED  BY <1>2, <1>3 DEF AssignListed

LEMMA CountLeftoversIInv ==
    ASSUME IInv, CountLeftovers
    PROVE  IInv'
<1>. USE DEF CountLeftovers, Leftovers
<1>1. TypeOK'
  BY DEF IInv, TypeOK
<1>2. AssignedIsHeld'
  BY DEF IInv, AssignedIsHeld, HeldBySomeHost
<1>3. EnoughHosts'
  BY DEF EnoughHosts
<1>4. Bookkeeping'
  BY DEF IInv, Bookkeeping
<1>. QED  BY <1>1, <1>2, <1>3, <1>4 DEF IInv

\* Crossing out a host and its partner keeps enough hosts for the roles left.
LEMMA PadHostKeepsEnough ==
    ASSUME IInv, NEW h \in Host, NEW role \in AnyRole, PadHost(h, role)
    PROVE  Cardinality(spareHosts') >= Cardinality(spareRoles')
<1>1. IsFiniteSet(spareHosts) /\ IsFiniteSet(spareRoles)
  BY FS_Subset, RoleAssumption DEF IInv, TypeOK
<1>2. Cardinality(spareHosts') = Cardinality(spareHosts) - 1
  BY <1>1, FS_RemoveElement DEF PadHost
<1>3. Cardinality(spareHosts) \in Nat /\ Cardinality(spareRoles) \in Nat
  BY <1>1, FS_CardinalityType
<1>4. Cardinality(spareHosts) >= Cardinality(spareRoles)
  BY DEF IInv, EnoughHosts, PadHost
<1>5. CASE role \in spareRoles
  <2>1. Cardinality(spareRoles') = Cardinality(spareRoles) - 1
    BY <1>1, <1>5, FS_RemoveElement DEF PadHost
  <2>. QED  BY <2>1, <1>2, <1>3, <1>4
<1>6. CASE spareRoles = {}
  <2>1. spareRoles' = {} /\ h \in spareHosts
    BY <1>6 DEF PadHost
  <2>2. Cardinality(spareRoles') = 0
    BY <2>1, FS_EmptySet
  <2>3. Cardinality(spareHosts') \in Nat
    BY <1>1, FS_CardinalityType, FS_RemoveElement DEF PadHost
  <2>. QED  BY <2>2, <2>3
<1>. QED  BY <1>5, <1>6 DEF PadHost, Partner

LEMMA PadHostIInv ==
    ASSUME IInv, NEW h \in Host, NEW role \in AnyRole, PadHost(h, role)
    PROVE  IInv'
<1>1. deckRoles[h] = {} /\ {role} \in SUBSET AnyRole
  BY DEF IInv, Bookkeeping, PadHost
<1>2. EnoughHosts'
  BY PadHostKeepsEnough DEF EnoughHosts
<1>3. CASE RolesAccepted(h, {role}) /\ UNCHANGED pc
  <2>1. AssignedIsHeld' /\ \A g \in Host : g # h => deckRoles'[g] = deckRoles[g]
    BY <1>1, <1>3, AcceptedKeepsHeld DEF IInv
  <2>2. TypeOK'
    BY <1>1, <1>3, AcceptedKeepsHeld DEF IInv, TypeOK, PadHost
  <2>3. spareRoles' = Required \ assigned'
    BY <1>3, RoleAssumption
    DEF IInv, TypeOK, Bookkeeping, PadHost, Partner, RolesAccepted
  <2>4. Bookkeeping'
    BY <2>1, <2>3, <1>3 DEF IInv, TypeOK, Bookkeeping, PadHost, RolesAccepted
  <2>. QED  BY <2>1, <2>2, <2>4, <1>2 DEF IInv
<1>4. CASE RolesRefused(h, {role})
  BY <1>1, <1>4, <1>2, RefusedKeepsHeld DEF IInv, TypeOK, PadHost, Bookkeeping
<1>. QED  BY <1>3, <1>4 DEF PadHost

\* With no host left there is no role left: the loop ended because both lists did.
LEMMA NoHostNoRole ==
    ASSUME IInv, pc = "pad", spareHosts = {}
    PROVE  spareRoles = {}
<1>1. Cardinality(spareRoles) <= 0
  BY FS_EmptySet DEF IInv, EnoughHosts
<1>2. IsFiniteSet(spareRoles)
  BY FS_Subset, RoleAssumption DEF IInv, TypeOK
<1>. QED  BY <1>1, <1>2, FS_CardinalityType, FS_EmptySet

LEMMA FinishIInv ==
    ASSUME IInv, Finish
    PROVE  IInv'
<1>1. Required \subseteq assigned
  BY NoHostNoRole DEF Finish, IInv, Bookkeeping
<1>. QED
  BY <1>1
  DEF Finish, IInv, TypeOK, AssignedIsHeld, HeldBySomeHost, EnoughHosts,
      Bookkeeping

LEMMA StepIInv == IInv /\ [Next]_vars => IInv'
<1>. SUFFICES ASSUME IInv, [Next]_vars PROVE IInv'
  OBVIOUS
<1>1. CASE \E h \in Host : AssignListed(h)
  BY <1>1, AssignListedIInv
<1>2. CASE \E h \in Host : RejectUnknownHost(h)
  BY <1>2
  DEF RejectUnknownHost, IInv, TypeOK, AssignedIsHeld, HeldBySomeHost,
      EnoughHosts, Bookkeeping
<1>3. CASE CountLeftovers
  BY <1>3, CountLeftoversIInv
<1>4. CASE \E h \in Host, role \in AnyRole : PadHost(h, role)
  BY <1>4, PadHostIInv
<1>5. CASE Finish
  BY <1>5, FinishIInv
<1>6. CASE UNCHANGED vars
  BY <1>6
  DEF vars, IInv, TypeOK, AssignedIsHeld, HeldBySomeHost, EnoughHosts,
      Bookkeeping
<1>. QED  BY <1>1, <1>2, <1>3, <1>4, <1>5, <1>6 DEF Next, Over

\* The inductive invariant holds in every reachable state of the role pass.
THEOREM RolePassInvariant == Spec => []IInv
<1>. QED  BY InitIInv, StepIInv, PTL DEF Spec

-----------------------------------------------------------------------------
(* What the pass guarantees. *)

\* The variables keep their types (set_all_hosts_roles, set_host_roles).
THEOREM RoleTypes == Spec => []TypeOK
<1>1. IInv => TypeOK
  BY DEF IInv
<1>. QED  BY <1>1, RolePassInvariant, PTL

\* A role marked ROLE_ASSIGNED by set_host_roles is held by a host of the deck.
THEOREM MarkedRolesAreHeld == Spec => []AssignedIsHeld
<1>1. IInv => AssignedIsHeld
  BY DEF IInv
<1>. QED  BY <1>1, RolePassInvariant, PTL

\* When set_all_hosts_roles returns, every required role of the flavor is held.
THEOREM RequiredRolesCovered == Spec => []RequiredCovered
<1>1. IInv => RequiredCovered
  BY DEF IInv, Bookkeeping, AssignedIsHeld, RequiredCovered
<1>. QED  BY <1>1, RolePassInvariant, PTL

\* map(None, hosts, roles) never pads the host list: no KeyError on None.
THEOREM PaddingHasHosts == Spec => []EnoughHosts
<1>1. IInv => EnoughHosts
  BY DEF IInv
<1>. QED  BY <1>1, RolePassInvariant, PTL

\* The default-role loop at the end of set_all_hosts_roles is dead code.
THEOREM DefaultLoopUnreachable == Spec => []NoHostLeftOver
<1>1. IInv => NoHostLeftOver
  BY DEF IInv, Bookkeeping, NoHostLeftOver, LeftOver
<1>. QED  BY <1>1, RolePassInvariant, PTL

\* No call of the pass overwrites roles the deck has stored for a host.
THEOREM RolesWrittenOnce == Spec => WrittenOnce
<1>. DEFINE Kept == \A h \in Host :
                        deckRoles[h] # {} => deckRoles'[h] = deckRoles[h]
<1>1. IInv /\ [Next]_vars => [Kept]_vars
  <2>. SUFFICES ASSUME IInv, Next PROVE Kept
    OBVIOUS
  <2>1. ASSUME NEW h \in Host, AssignListed(h)  PROVE Kept
    <3>1. deckRoles[h] = {}
      BY <2>1 DEF IInv, Bookkeeping, AssignListed
    <3>. QED
      BY <2>1, <3>1
      DEF AssignListed, RolesAccepted, RolesRefused, Stored, IInv, TypeOK
  <2>2. ASSUME NEW h \in Host, NEW role \in AnyRole, PadHost(h, role)
        PROVE  Kept
    <3>1. deckRoles[h] = {}
      BY <2>2 DEF IInv, Bookkeeping, PadHost
    <3>. QED
      BY <2>2, <3>1
      DEF PadHost, RolesAccepted, RolesRefused, Stored, IInv, TypeOK
  <2>3. CASE UNCHANGED deckRoles
    BY <2>3
  <2>. QED
    BY <2>1, <2>2, <2>3
    DEF Next, RejectUnknownHost, CountLeftovers, Leftovers, Finish, Over, vars
<1>. QED  BY <1>1, RolePassInvariant, PTL DEF Spec, WrittenOnce
=============================================================================
