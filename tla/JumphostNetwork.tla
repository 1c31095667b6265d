---------------------------- MODULE JumphostNetwork ----------------------------
(***************************************************************************)
(* network.sh: save_network_info moves the jump host's own address and     *)
(* default route from its interface to the bridge br-external, with one    *)
(* command after the other.  None of them is checked, so that any may fail *)
(* and the next is run; a run of launch.sh may end between any two, and    *)
(* the next one starts from what it finds.                                 *)
(***************************************************************************)
VARIABLES
    bridge,    \* there is a bridge
    address,   \* what has the address: "nic", "bridge", or both
    route,     \* where the default route leads: "nic", "bridge" or "none"
    info,      \* what this run has noted of them, if anything
    moving,    \* what it is about to do
    netBroken  \* a run has ended in the middle, or one of its commands has failed

networkVars == <<bridge, address, route, info, moving, netBroken>>

Nothing == [address |-> FALSE, route |-> FALSE]

NetworkInit ==
    /\ bridge = FALSE
    /\ address = {"nic"} /\ route = "nic"
    /\ info = Nothing
    /\ moving = "no"
    /\ netBroken = FALSE

\* The interface is the one of the default route; without one external_nic is empty,
\* and what is noted of it useless.
Noted == [address |-> route \in address, route |-> route # "none"]

\* ovs-vsctl makes the bridge, and gives it the interface.
SaveNetworkInfo ==
    /\ moving = "no"
    /\ info' = Noted
    /\ IF bridge /\ route = "bridge"
       THEN UNCHANGED <<bridge, moving, netBroken>>
       ELSE /\ bridge' \in {bridge, TRUE} /\ netBroken' \in {netBroken, TRUE}
            /\ ~ bridge' => netBroken'
            /\ moving' = "flush"
    /\ UNCHANGED <<address, route>>

\* 'ip addr flush' of the interface takes its routes with it.
FlushWorks ==
    /\ route # "none"
    /\ address' = address \ {route} /\ route' = "none"
    /\ UNCHANGED netBroken

FlushFails ==
    /\ netBroken' = (netBroken \/ route # "none")
    /\ UNCHANGED <<address, route>>

\* Defect: the address is noted after it is gone.
FlushFirst ==
    /\ moving = "flush" /\ moving' = "address"
    /\ FlushWorks \/ FlushFails
    /\ info' = Nothing
    /\ UNCHANGED bridge

Flush ==
    /\ moving = "flush" /\ moving' = "address"
    /\ FlushWorks \/ FlushFails
    /\ UNCHANGED <<bridge, info>>

\* 'ip addr add' needs the address and the bridge, 'ip route add' a gateway that the
\* bridge's address reaches, and no other default route.
CanAddAddress == bridge /\ info.address
CanAddRoute == "bridge" \in address /\ info.route /\ route = "none"

AddAddress ==
    /\ moving = "address" /\ moving' = "route"
    /\ address' \in {address} \union (IF CanAddAddress THEN {address \union {"bridge"}} ELSE {})
    /\ netBroken' = (netBroken \/ (CanAddAddress /\ "bridge" \notin address'))
    /\ UNCHANGED <<bridge, route, info>>

AddRoute ==
    /\ moving = "route" /\ moving' = "no"
    /\ route' \in {route} \union (IF CanAddRoute THEN {"bridge"} ELSE {})
    /\ netBroken' = (netBroken \/ (CanAddRoute /\ route' # "bridge"))
    /\ UNCHANGED <<bridge, address, info>>

MoveOn == Flush \/ AddAddress \/ AddRoute

\* The run ends here.
NetworkEnd ==
    /\ moving' = "no"
    /\ netBroken' = (netBroken \/ moving \in {"address", "route"})
    /\ UNCHANGED <<bridge, address, route, info>>

\* The addresses given by hand are gone, the bridge is not (network_setup, run at boot,
\* has its save_network_info commented out).
NetworkReboot ==
    /\ address' = {"nic"} /\ route' = "nic"
    /\ netBroken' = FALSE
    /\ UNCHANGED <<bridge, info, moving>>

-----------------------------------------------------------------------------

NetworkTypeOK ==
    /\ bridge \in BOOLEAN /\ netBroken \in BOOLEAN
    /\ address \subseteq {"nic", "bridge"} /\ route \in {"nic", "bridge", "none"}
    /\ info \in [address : BOOLEAN, route : BOOLEAN]
    /\ moving \in {"no", "flush", "address", "route"}
=============================================================================
