---------------------------- MODULE MCHostConfig ----------------------------
(* The host-configuration utilities over both connections, for TLC: one   *)
(* of each object the tests configure, and the calls the tests make.      *)
EXTENDS HostConfig, TLC

MCObjects == {"ns", "veth", "peer", "br", "port", "vxlan", "vlan", "tep", "addr", "route",
              "p4dev", "gport", "gaddr", "vlanif", "neigh"}

\* Ports hang off the bridge; the address and the route off the TEP device.
MCNeeds == [o \in MCObjects |->
              IF o \in {"port", "vxlan", "vlan"} THEN {"br"}
              ELSE IF o \in {"addr", "route"} THEN {"tep"}
              ELSE IF o \in {"gaddr", "vlanif", "neigh"} THEN {"gport"} ELSE {}]

C(name, obj, p) == [name |-> name, obj |-> obj, prog |-> p]

OvsCalls == {
    C("add_bridge_to_ovs", "br", add_bridge_to_ovs("br")),
    C("add_port_to_ovs", "port", add_port_to_ovs("br", "port")),
    C("add_vxlan_port_to_ovs", "vxlan", add_vxlan_port_to_ovs("br", "vxlan")),
    C("add_vlan_to_bridge", "vlan", add_vlan_to_bridge("br", "vlan")),
    C("del_port_from_ovs", "port", del_port_from_ovs("br", "port")),
    C("del_bridge_from_ovs", "br", del_bridge_from_ovs("br")),
    C("del_ovs_bridge", "br", del_ovs_bridge("br")),
    C("ovs_bridge_up", "br", ovs_bridge_up("br"))}

IpCalls == {
    C("iplink_add_dev", "tep", iplink_add_dev("tep")),
    C("ip_add_addr", "addr", ip_add_addr("tep", "addr")),
    C("ip_del_addr", "addr", ip_del_addr("tep", "addr")),
    C("ip_set_dev_up", "tep", ip_set_dev_up("tep")),
    C("iproute_add", "route", iproute_add("route")),
    C("iproute_del", "route", iproute_del("route")),
    C("iplink_del_port", "tep", iplink_del_port("tep")),
    C("ip_netns_add", "ns", ip_netns_add("ns")),
    C("ip_netns_del", "ns", ip_netns_del("ns")),
    C("ip_link_add_veth_and_peer", "veth", ip_link_add_veth_and_peer("veth", "peer")),
    C("ip_link_set_veth_to_ns", "veth", ip_link_set_veth_to_ns("ns", "veth"))}

VmCalls == {
    C("create_ipnetns_vm", "ns", create_ipnetns_vm("ns", "veth", "peer")),
    C("del_ipnetns_vm", "ns", del_ipnetns_vm("ns")),
    C("ip_ntns_exec_ping_test", "ns", ip_ntns_exec_ping_test("ns"))}

\* The gNMI helpers and the PortConfig() helpers over the port they set.
GnmiCalls == {
    C("gnmi_set_params", "gport", gnmi_set_params("gport")),
    C("gnmi_cli_set_and_verify", "gport", gnmi_cli_set_and_verify("gport")),
    C("gnmi_get_params_elemt_value", "gport", gnmi_get_params_elemt_value("gport")),
    C("gnmi_get_params_counter", "gport", gnmi_get_params_counter("gport")),
    C("gnmi_get_element_value", "gport", gnmi_get_element_value("gport")),
    C("get_port_mtu_linuxcli", "gport", get_port_mtu_linuxcli("gport")),
    C("ip_set_ipv4", "gaddr", ip_set_ipv4("gport", "gaddr")),
    C("iplink_add_vlan_port", "vlanif", iplink_add_vlan_port("vlanif", "gport")),
    C("Ip.ip_link_set_mac", "gport", LocalPortConfig \o Ip_ip_link_set_mac("gport")),
    C("Ip.ip_neigh_add", "neigh", LocalPortConfig \o Ip_ip_neigh_add("gport", "neigh")),
    C("ovs_add_ctrl_port_to_bridge", "br", ovs_add_ctrl_port_to_bridge("p4dev", "br")),
    C("get_ovs_port_dump", "br", get_ovs_port_dump("br")),
    C("get_ovsctl_version", "br", get_ovsctl_version)}

MCCalls == OvsCalls \cup IpCalls \cup VmCalls \cup GnmiCalls

\* The namespace VM helpers and the ping test alone.
PingCalls == VmCalls

\* A fresh host, and one where the namespace and its veth already exist.
MCInitHosts == {{}, {"ns", "veth", "peer"}}
====
