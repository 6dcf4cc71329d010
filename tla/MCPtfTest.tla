----------------------------- MODULE MCPtfTest -----------------------------
EXTENDS PtfTest

\* The tests whose every check either fails the test or records a failure.
MCRecordingTests ==
    {"DPDK_Hot_Plug_Remove", "DPDK_Hot_Plug_multi_port_test", "max_tap_port",
     "max_vhost_port", "config_control_port_with_link", "l3_exact_match_with_vhost",
     "port_dump_mixed_no_default_val", "l2l3_unsupport_tbl_port_match_action",
     "dpdk_l3em_indirect_counter_help", "mtu_config_test_with_tap",
     "l2_exact_match_with_link_port", "ct_rule_del_add_test",
     "ct_single_connection_vhost_ports_with_netperf", "lnt_4vm_on_same_host",
     "LNT_Hot_Plug_Add_Remove_multi_port", "lnt_1hotplugvm_vxlan_1nsvm",
     "ctrl_port_counter_with_vhost", "port_tap_link_counter",
     "l3_dpdk_port_flapping_with_vhost_ports", "LNT_ECMP_2VM_2Host_del_add",
     "LNT_ECMP_2HotPlugVM_2Host_netperf"}

\* The tests with a check whose failure does not reach self.result.
MCLeakyTests ==
    {"show_tap_port_mtu", "l2_dpdk_port_flapping_with_tap_ports",
     "l3_dpdk_port_flapping_with_link_ports", "lnt_4vm_full_mesh",
     "lnt_ctrl_vhost_port_flap"}
====
