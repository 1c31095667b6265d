-------------------------------- MODULE RestApi --------------------------------
(***************************************************************************)
(* What the methods of restful.py's Client ask the deck for: the request   *)
(* of each method, as a row of a table.                                    *)
(*                                                                         *)
(* A method always sends the fields "must", and of its keyword arguments   *)
(* "may" those that are true in Python's sense: what the caller gives, and *)
(* what he leaves at a default other than None.  How raw_data takes part:  *)
(*   "never"    the method has no such argument                            *)
(*   "instead"  it is sent in place of all the fields, when not empty      *)
(*   "into"     it is copied over "must" in place of the fields of "may"   *)
(*   "aliased"  the fields of "may" are written into it, then it is sent   *)
(***************************************************************************)
Row(name, verb, path, must, may, raw) ==
    [name |-> name, verb |-> verb, path |-> path, must |-> must, may |-> may, raw |-> raw,
     default |-> {}]

Get(name, path) == Row(name, "GET", path, {}, {}, "never")
List(name, path, filters) == Row(name, "GET", path, {}, filters, "never")
Delete(name, path) == Row(name, "DELETE", path, {}, {}, "never")
Action(name, path, action) == Row(name, "POST", path, {action}, {}, "never")

\* The arguments of "may" whose default is sent: 'initialized', '2c', 'public'.
WithDefaults(row, fields) == [row EXCEPT !.default = fields]

\* The last line of the method raises a TypeError: there is no request.
Raises(name, must, may, raw) == Row(name, "none", "none", must, may, raw)

-----------------------------------------------------------------------------

Token == "get_token"

Users ==
    {Row("login", "POST", "/users/login", {"email", "password"}, {}, "never"),
     Row(Token, "POST", "/users/token", {"email", "password"}, {}, "never"),
     Get("get_users", "/users")}

MachineFilters == {"port", "vlans", "tag", "location"}
HostFilters == MachineFilters \union {"mac", "os_name", "os_id"}
Link == MachineFilters \union {"ipmi_credentials"}

SwitchDefaults == {"version", "community", "state"}

\* The credentials are sent also when version and community are not in them.
Switches ==
    {List("list_switches", "/switches", {"switchIp", "switchIpNetwork"}),
     Get("get_switch", "/switches/%s"),
     Row("add_switch", "POST", "/switches", {"ip", "credentials"},
         {"version", "community"}, "instead"),
     WithDefaults(Row("update_switch", "PUT", "/switches/%s", {"credentials"},
         SwitchDefaults, "instead"), SwitchDefaults),
     Delete("delete_switch", "/switches/%s"),
     List("list_switch_machines", "/switches/%s/machines", MachineFilters),
     Get("get_switch_machine", "/switches/%s/machines/%s"),
     List("list_switch_machines_hosts", "/switches/%s/machines-hosts", HostFilters),
     Row("add_switch_machine", "POST", "/switches/%s/machines", {},
         Link \union {"mac"}, "instead")}

SwitchMachines ==
    {Row("update_switch_machine", "PUT", "/switches/%s/machines/%s", {}, Link, "instead"),
     Delete("delete_switch_machine", "/switches/%s/machines/%s"),
     Action("poll_switch", "/switches/%s/action", "find_machines"),
     Action("add_group_switch_machines", "/switches/%s/action", "add_machines"),
     Action("remove_group_switch_machines", "/switches/%s/action", "remove_machines"),
     Action("update_group_switch_machines", "/switches/%s/action", "set_machines"),
     List("list_switchmachines", "/switch-machines",
         MachineFilters \union {"switch_ip_int", "mac"}),
     List("list_switchmachines_hosts", "/switches-machines-hosts",
         HostFilters \union {"switch_ip_int"}),
     Get("show_switchmachine", "/switch-machines/%s"),
     Row("update_switchmachine", "PUT", "/switch-machines/%s", {},
         {"port", "vlans"}, "instead"),
     Row("patch_switchmachine", "PATCH", "/switch-machines/%s", {}, {"vlans"}, "instead"),
     Delete("delete_switchmachine", "/switch-machines/%s")}

\* get_machine tests and sends the builtin function id; the path of
\* delete_machine has no leading slash.
Machines ==
    {List("list_machines", "/machines", {"mac", "tag", "location"}),
     Row("get_machine", "GET", "/machines/%s", {"id"}, {}, "never"),
     Row("update_machine", "PUT", "/machines/%s", {},
         {"ipmi_credentials", "tag", "location"}, "instead"),
     Row("patch_machine", "PATCH", "/machines/%s", {},
         {"ipmi_credentials", "tag", "location"}, "instead"),
     Delete("delete_machine", "machines/%s")}

Subnets ==
    {List("list_subnets", "/subnets", {"subnet", "name"}),
     Get("get_subnet", "/subnets/%s"),
     Row("add_subnet", "POST", "/subnets", {"subnet"}, {"name"}, "into"),
     Row("update_subnet", "PUT", "/subnets/%s", {}, {"subnet", "name"}, "instead"),
     Delete("delete_subnet", "/subnets/%s")}

Adapters ==
    {List("list_adapters", "/adapters", {"name", "distributed_system_name",
         "os_installer_name", "package_installer_name"}),
     Get("get_adapter", "/adapters/%s"),
     Get("get_adapter_roles", "/adapters/%s/roles"),
     Get("get_adapter_metadata", "/adapters/%s/metadata"),
     Get("get_os_metadata", "/oses/%s/metadata")}

Config == {"os_config", "package_config", "config_step"}

Clusters ==
    {List("list_clusters", "/clusters", {"name", "os_name", "distributed_system_name",
         "owner", "adapter_id"}),
     Get("get_cluster", "/clusters/%s"),
     Row("add_cluster", "POST", "/clusters", {"name", "adapter_id", "os_id"},
         {"flavor_id"}, "instead"),
     Row("update_cluster", "PUT", "/clusters/%s", {},
         {"name", "reinstall_distributed_system"}, "instead"),
     Delete("delete_cluster", "/clusters/%s"),
     Get("get_cluster_config", "/clusters/%s/config"),
     Get("get_cluster_metadata", "/clusters/%s/metadata"),
     Row("update_cluster_config", "PUT", "/clusters/%s/config", {}, Config, "aliased"),
     Row("patch_cluster_config", "PATCH", "/clusters/%s/config", {}, Config, "aliased"),
     Delete("delete_cluster_config", "/clusters/%s/config")}

ClusterActions ==
    {Action("add_hosts_to_cluster", "/clusters/%s/action", "add_hosts"),
     Action("set_hosts_in_cluster", "/clusters/%s/action", "set_hosts"),
     Action("remove_hosts_from_cluster", "/clusters/%s/action", "remove_hosts"),
     Action("review_cluster", "/clusters/%s/action", "review"),
     Action("deploy_cluster", "/clusters/%s/action", "deploy"),
     Action("redeploy_cluster", "/clusters/%s/action", "redeploy"),
     Get("get_cluster_state", "/clusters/%s/state")}

HostConfig == {"os_config", "package_config"}

\* patch_clusterhost_config addresses the clusterhost and not its config.
ClusterHosts ==
    {Get("list_cluster_hosts", "/clusters/%s/hosts"),
     Get("list_clusterhosts", "/clusterhosts"),
     Get("get_cluster_host", "/clusters/%s/hosts/%s"),
     Get("get_clusterhost", "/clusterhosts/%s"),
     Row("add_cluster_host", "POST", "/clusters/%s/hosts", {"machine_id"},
         {"name", "reinstall_os"}, "into"),
     Delete("delete_cluster_host", "/clusters/%s/hosts/%s"),
     Delete("delete_clusterhost", "/clusterhosts/%s"),
     Get("get_cluster_host_config", "/clusters/%s/hosts/%s/config"),
     Get("get_clusterhost_config", "/clusterhosts/%s/config"),
     Row("update_cluster_host_config", "PUT", "/clusters/%s/hosts/%s/config", {},
         HostConfig, "instead"),
     Row("update_clusterhost_config", "PUT", "/clusterhosts/%s/config", {},
         HostConfig, "instead"),
     Row("patch_cluster_host_config", "PATCH", "/clusters/%s/hosts/%s/config", {},
         HostConfig, "instead"),
     Row("patch_clusterhost_config", "PATCH", "/clusterhosts/%s", {},
         HostConfig, "instead"),
     Delete("delete_cluster_host_config", "/clusters/%s/hosts/%s/config"),
     Delete("delete_clusterhost_config", "/clusterhosts/%s/config")}

State == {"state", "percentage", "message"}

ClusterHostStates ==
    {Get("get_cluster_host_state", "/clusters/%s/hosts/%s/state"),
     Row("update_cluster_host", "PUT", "/clusters/%s/hosts/%s", {}, {"roles"}, "instead"),
     Row("update_clusterhost", "PUT", "/clusterhosts/%s", {}, {"roles"}, "instead"),
     Row("patch_cluster_host", "PATCH", "/clusters/%s/hosts/%s", {}, {"roles"}, "instead"),
     Row("patch_clusterhost", "PATCH", "/clusterhosts/%s", {}, {"roles"}, "instead"),
     Get("get_clusterhost_state", "/clusterhosts/%s/state"),
     Row("update_cluster_host_state", "PUT", "/clusters/%s/hosts/%s/state", {}, State, "instead"),
     Row("update_clusterhost_state", "PUT", "/clusterhosts/%s/state", {}, State, "instead")}

Hosts ==
    {List("list_hosts", "/hosts", {"name", "os_name", "owner", "mac"}),
     Get("get_host", "/hosts/%s"),
     List("list_machines_or_hosts", "/machines-hosts",
         {"mac", "tag", "location", "os_name", "os_id"}),
     Get("get_machine_or_host", "/machines-hosts/%s"),
     Row("update_host", "PUT", "/hosts/%s", {}, {"name", "reinstall_os"}, "instead"),
     Delete("delete_host", "/hosts/%s"),
     Get("get_host_clusters", "/hosts/%s/clusters"),
     Get("get_host_config", "/hosts/%s/config"),
     Row("update_host_config", "PUT", "/hosts/%s/config", {"os_config"}, {}, "into"),
     Row("patch_host_config", "PATCH", "/hosts/%s/config", {"os_config"}, {}, "into"),
     Delete("delete_host_config", "/hosts/%s/config")}

NetFilters == {"interface", "ip", "subnet", "is_mgmt", "is_promiscuous"}
NetFields == (NetFilters \ {"interface"}) \union {"subnet_id"}

\* delete_host_network passes its identifiers to _delete as a second argument.
HostNetworks ==
    {List("list_host_networks", "/hosts/%s/networks", NetFilters),
     List("list_all_host_networks", "/host-networks", NetFilters),
     Get("get_host_network", "/hosts/%s/networks/%s"),
     Get("get_network_for_all_hosts", "/host-networks/%s"),
     Row("add_host_network", "POST", "/hosts/%s/networks", {"interface", "ip", "subnet_id"},
         {"is_mgmt", "is_promiscuous"}, "into"),
     Row("update_host_network", "PUT", "/hosts/%s/networks/%s", {}, NetFields, "instead"),
     Row("update_hostnetwork", "PUT", "/host-networks/%s", {}, NetFields, "instead"),
     Raises("delete_host_network", {}, {}, "never"),
     Delete("delete_hostnetwork", "/host-networks/%s")}

\* update_host_state passes its data to _put under the name date.
HostActions ==
    {Get("get_host_state", "/hosts/%s/state"),
     Raises("update_host_state", {}, State, "instead"),
     Action("poweron_host", "/hosts/%s/action", "poweron"),
     Action("poweroff_host", "/hosts/%s/action", "poweroff"),
     Action("reset_host", "/hosts/%s/action", "reset"),
     Action("clusterhost_ready", "/clusterhosts/%s/state_internal", "ready")}

\* The tables, one for each kind of thing the deck keeps.
Tables ==
    {Users, Switches, SwitchMachines, Machines, Subnets, Adapters, Clusters, ClusterActions,
     ClusterHosts, ClusterHostStates, Hosts, HostNetworks, HostActions}

Rows == UNION Tables

Methods == {r.name : r \in Rows}

Api == [m \in Methods |-> CHOOSE r \in Rows : r.name = m]
=============================================================================
