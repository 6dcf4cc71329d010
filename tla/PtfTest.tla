------------------------------ MODULE PtfTest ------------------------------
(***************************************************************************)
(* The PTF tests of ptf_tests/tests/ that share one verdict pattern, as    *)
(* the runner sees them.  runTest is a sequence of steps; each step either *)
(* configures the system (a "setup": artifacts, gNMI ports, set-pipe, rule *)
(* adds, VMs, bridges, link up or down) or observes it (a "check": a       *)
(* packet verification, a ping, a counter or MTU comparison).  What the    *)
(* test does when a step goes wrong is the step's handler:                 *)
(*                                                                         *)
(*   "fail"    self.result.addFailure(...); self.fail(...): runTest ends   *)
(*   "record"  self.result.addFailure(...); print("FAIL ..."): runTest     *)
(*             goes on                                                     *)
(*   "ignore"  the result is not looked at                                 *)
(*   "escape"  an exception leaves runTest before addFailure is reached    *)
(*             (self.fail alone, or an error in the addFailure arguments): *)
(*             self.result, a private TestResult, records nothing          *)
(*   "return"  a check that returns from runTest when it succeeds and      *)
(*             records a failure when it does not                          *)
(*                                                                         *)
(* A step's "on" is the set of handlers its failure may meet: a stretch    *)
(* that calls gnmi_cli_set (gnmi_cli_set_and_verify, gnmi_set_params) or  *)
(* an _IpCMD method (ip_set_ipv4, ip_set_dev_up, ip_add_addr,              *)
(* iplink_add_vlan_port, iproute_add, Ip.iplink_enable_disable_link,       *)
(* ip_ntns_exec_ping_test) also meets "escape": those raise                *)
(* ExecuteCMDException instead of returning False, and no test catches it. *)
(* The `if not gnmi_cli_set_and_verify(...)` branch is dead: the verify   *)
(* returns True whenever a parameter reads back different from the text   *)
(* it was set with, which the get's " value\n" output always does.         *)
(*                                                                         *)
(* unittest calls tearDown however runTest ended.  tearDown may first run *)
(* cleanup calls that self.fail when they go wrong, which ends tearDown   *)
(* before its verdict print; then it prints "Test has PASSED" if          *)
(* self.result.wasSuccessful() else "Test has FAILED".  The runner reports *)
(* FAILED for a test whose output has no verdict line.                    *)
(*                                                                         *)
(* A setup that goes wrong leaves the system misconfigured, and every      *)
(* later check of the run then sees it.  Consecutive steps with the same   *)
(* kind and handler behave as one step and are written once; a loop over  *)
(* config entries is written as one pass of its body.  Delete loops in     *)
(* tearDown whose results are ignored change nothing the runner sees and   *)
(* are left out.  A telnet read failing inside a ping helper is modelled   *)
(* in CounterResetTest and VmPing; here a ping is a check.                 *)
(***************************************************************************)
EXTENDS Naturals, Sequences

CONSTANT Tests    \* the tests of the run: names of Program's fields

VARIABLES
    test,       \* the test being run
    part,       \* "runTest", "tearDown", "verdict", "report" or "done"
    pos,        \* position of the current step of runTest
    failed,     \* self.result has a failure recorded
    broken,     \* a setup step went wrong: the system is misconfigured
    bad,        \* history: some step of runTest went wrong
    completed,  \* history: runTest went through its last step
    escaped,    \* history: an exception ended runTest
    made,       \* leading steps of runTest that ran and whose setup went right
    verdict,    \* the verdict line tearDown printed, or "none"
    summary     \* the runner's verdict

vars == <<test, part, pos, failed, broken, bad, completed, escaped, made, verdict,
          summary>>

-----------------------------------------------------------------------------
(* Steps and handlers.                                                     *)

Kinds    == {"setup", "check", "raise"}
Handlers == {"fail", "record", "ignore", "escape", "return"}
Step(kind, on) == [kind |-> kind, on |-> on]

Setup        == Step("setup", {"fail"})
SetupIgnored == Step("setup", {"ignore"})
Check        == Step("check", {"fail"})
Record       == Step("check", {"record"})
CheckIgnored == Step("check", {"ignore"})
CheckEscapes == Step("check", {"escape"})
CheckReturns == Step("check", {"return"})
\* Stretches that also call a raising helper.
SetupRaises        == Step("setup", {"fail", "escape"})
Raises             == Step("setup", {"escape"})
SetupIgnoredRaises == Step("setup", {"ignore", "escape"})
CheckRaises        == Step("check", {"fail", "escape"})
RecordRaises       == Step("check", {"record", "escape"})
CheckIgnoredRaises == Step("check", {"ignore", "escape"})
\* A call that raises whatever the system does.
AlwaysRaises       == Step("raise", {"escape"})

\* What a handler does with a step that went wrong: whether it records a
\* failure and whether runTest ends there.
OnBad == [fail   |-> [record |-> TRUE,  stop |-> TRUE],
          record |-> [record |-> TRUE,  stop |-> FALSE],
          ignore |-> [record |-> FALSE, stop |-> FALSE],
          escape |-> [record |-> FALSE, stop |-> TRUE],
          return |-> [record |-> TRUE,  stop |-> FALSE]]

\* Whether runTest ends at a step that went right.
StopsOnOk(on) == on = "return"

-----------------------------------------------------------------------------
(* The tests.  <file>_runTest is the step table of runTest.  <file>_tearDown *)
(* is 0 when tearDown has no cleanup that can end it before the verdict     *)
(* print; otherwise it is the number of leading runTest steps that create   *)
(* what tearDown deletes (bridges, VLAN ports, namespaces, routes, the pcap *)
(* directory).  Deleting one that was never created fails, and tearDown     *)
(* then self.fails, or raises.  Long runTests are split into their          *)
(* configuration and traffic halves.                                        *)

\* create VM, gNMI ports, hotplug; interfaces seen in the VM; hotplug
\* delete; interfaces gone.
DPDK_Hot_Plug_Remove_runTest == <<SetupRaises, Check, Raises, Check>>
DPDK_Hot_Plug_Remove_tearDown == 0

\* artifacts, VMs, gNMI ports, hotplug, set-pipe, rules; pings both ways.
DPDK_Hot_Plug_multi_port_test_runTest == <<SetupRaises, Check>>
DPDK_Hot_Plug_multi_port_test_tearDown == 0

\* gnmi_cli_set_and_verify of the maximum number of TAP ports: it returns
\* True or raises.
max_tap_port_runTest == <<CheckEscapes>>
max_tap_port_tearDown == 0

\* clear the vhost sockets, gNMI ports; the socket count is the maximum.
max_vhost_port_runTest == <<SetupRaises, Check>>
max_vhost_port_tearDown == 0

\* artifacts, gNMI, set-pipe, rules; traffic captured on the control port.
\* tearDown self.fails (without addFailure) when the pcap file is not removed.
config_control_port_with_link_runTest == <<SetupRaises, Check>>
config_control_port_with_link_tearDown == 1

\* Mutation variant: the ping failures are printed but not recorded.
l3_exact_match_with_vhost_runTestPrintOnly == <<SetupRaises, CheckIgnored>>

\* artifacts, gNMI, set-pipe, VMs, rules; the two VM pings record.
l3_exact_match_with_vhost_runTest == <<SetupRaises, Record>>
l3_exact_match_with_vhost_tearDown == 0

\* artifacts, gNMI ports; the port dump checks; set-pipe last.
port_dump_mixed_no_default_val_runTest == <<SetupRaises, Check, Setup>>
port_dump_mixed_no_default_val_tearDown == 0

\* artifacts, gNMI, set-pipe; the invalid entry is refused; the valid rules;
\* the packet verifications record.
l2l3_unsupport_tbl_port_match_action_runTest == <<SetupRaises, Check, Setup, Record>>
l2l3_unsupport_tbl_port_match_action_tearDown == 0

\* every help option's output names every argument, else a failure is
\* recorded.
dpdk_l3em_indirect_counter_help_runTest == <<Record>>
dpdk_l3em_indirect_counter_help_tearDown == 0

\* artifacts; gNMI ports, set-pipe and rules whose results are not looked
\* at; the MTU and packet checks.
mtu_config_test_with_tap_runTest == <<Setup, SetupIgnoredRaises, Check>>
mtu_config_test_with_tap_tearDown == 0

\* artifacts, gNMI, set-pipe, the rules of a table; its four packet
\* verifications record.
l2_exact_match_with_link_port_runTest == <<SetupRaises, Record>>
l2_exact_match_with_link_port_tearDown == 0

\* rules added; SYN verified; rules deleted (results not looked at); data
\* packet verified dropped; rules added back; SYN verified again.
ct_rule_del_add_test_runTest ==
    <<SetupRaises, Record, SetupIgnored, Record, Setup, Record>>
ct_rule_del_add_test_tearDown == 0

\* artifacts, gNMI, set-pipe, rules, VMs, offload, netserver; netperf.
ct_single_connection_vhost_ports_with_netperf_runTest == <<SetupRaises, Check>>
ct_single_connection_vhost_ports_with_netperf_tearDown == 0

\* VMs, VLANs, bridge, rules; the VM pings record.  tearDown self.fails on
\* a bridge or VLAN port it cannot delete.
lnt_4vm_on_same_host_runTest == <<SetupRaises, Record>>
lnt_4vm_on_same_host_tearDown == 1

lnt_4vm_full_mesh_runTest_setup == <<SetupRaises>>
\* the namespace pings on the remote host (result not looked at); the VM
\* pings.
lnt_4vm_full_mesh_runTest_traffic == <<CheckIgnoredRaises, Check>>
lnt_4vm_full_mesh_tearDown == 1

\* VMs, gNMI ports, hotplug; interfaces seen; set-pipe, rules; bridge,
\* links up, VLAN (results not looked at); ping; hotplug delete;
\* interfaces gone.
LNT_Hot_Plug_Add_Remove_multi_port_runTest ==
    <<SetupRaises, Check, Setup, SetupIgnoredRaises, Check, Raises, Check>>
LNT_Hot_Plug_Add_Remove_multi_port_tearDown == 4

lnt_1hotplugvm_vxlan_1nsvm_runTest_setup == <<SetupRaises>>
\* namespace pings, then VM pings.
lnt_1hotplugvm_vxlan_1nsvm_runTest_traffic == <<CheckRaises>>
lnt_1hotplugvm_vxlan_1nsvm_tearDown == 1

\* configuration; a ping to the control port that is expected to drop and
\* only generates traffic; the tx counter range checks; a local ping, also
\* only traffic; the rx counter range checks.
\* ovs_add_ctrl_port_to_bridge unpacks the None of add_br_p4 and always
\* raises TypeError: the steps after it are never reached.
ctrl_port_counter_with_vhost_runTest ==
    <<SetupRaises, AlwaysRaises, SetupIgnored, Check, SetupIgnored, Check>>
ctrl_port_counter_with_vhost_tearDown == 0

\* configuration; counter reads record; verify_packet fails the test; the
\* counter range checks record.  The second traffic pass is the same.
port_tap_link_counter_runTest == <<SetupRaises, RecordRaises, Check, RecordRaises>>
port_tap_link_counter_tearDown == 0

l2_dpdk_port_flapping_with_tap_ports_runTest_setup == <<SetupRaises>>
\* The packet verifications call self.fail without addFailure.  Links
\* down (results not looked at); verified dropped; links up; port status;
\* verified forwarded.
l2_dpdk_port_flapping_with_tap_ports_runTest_traffic ==
    <<CheckEscapes, Raises, CheckEscapes, Raises, Check, CheckEscapes>>
l2_dpdk_port_flapping_with_tap_ports_tearDown == 0

\* configuration; ip link steps (results not looked at); VM ping; local
\* ping (result not looked at, PASS printed); link down; drop test (result
\* not looked at); link up; VM ping.
l3_dpdk_port_flapping_with_link_ports_runTest ==
    <<SetupRaises, Raises, Check, CheckIgnored, Raises, CheckIgnored,
      Raises, Check>>
l3_dpdk_port_flapping_with_link_ports_tearDown == 0

\* configuration; the ping and vm_port_flapping record.  vm_port_flapping
\* calls result.addFailure(sys.exc_info()) with one argument when its ping
\* cannot be sent, which raises TypeError.
l3_dpdk_port_flapping_with_vhost_ports_runTest == <<SetupRaises, Record, RecordRaises>>
l3_dpdk_port_flapping_with_vhost_ports_tearDown == 0

lnt_ctrl_vhost_port_flap_runTest_setup == <<SetupRaises>>
\* control port down, drop test, up, ping; VLAN down, drop test, up, ping
\* (its addFailure argument sys.efxc_info() raises AttributeError), then
\* vm_port_flapping (which may raise TypeError, as above).
lnt_ctrl_vhost_port_flap_runTest_traffic ==
    <<Raises, Check, Raises, Check, Raises, Check, Raises, CheckEscapes, CheckRaises>>
lnt_ctrl_vhost_port_flap_tearDown == 1

LNT_ECMP_2VM_2Host_del_add_runTest_setup == <<SetupRaises>>
\* underlay pings; routes; underlay and VM pings; rule deleted; ping must
\* drop; rule added back; ping.
LNT_ECMP_2VM_2Host_del_add_runTest_traffic ==
    <<Check, Raises, Check, Setup, Check, Setup, Check>>
LNT_ECMP_2VM_2Host_del_add_tearDown == 3

LNT_ECMP_2HotPlugVM_2Host_netperf_runTest_setup == <<SetupRaises>>
\* offload, MTU, netserver; netperf runs; counters before (record);
\* netperf; counters after, every ECMP link used, total (record).
LNT_ECMP_2HotPlugVM_2Host_netperf_runTest_traffic ==
    <<Setup, Check, RecordRaises, Check, RecordRaises>>
LNT_ECMP_2HotPlugVM_2Host_netperf_tearDown == 1

\* gnmi_set_params (result not looked at); for each port of port_list (two
\* here): the gNMI and Linux MTU reads; the comparison, whose match
\* returns from runTest.
show_tap_port_mtu_runTest ==
    <<Raises, Check, CheckReturns, Check, CheckReturns>>
show_tap_port_mtu_tearDown == 0

\* The tests by name: the step table of runTest and the steps that create
\* what tearDown's cleanup deletes.
T(run, cleanup) == [runTest |-> run, cleanup |-> cleanup]

Program == [
  DPDK_Hot_Plug_Remove |-> T(DPDK_Hot_Plug_Remove_runTest, DPDK_Hot_Plug_Remove_tearDown),
  DPDK_Hot_Plug_multi_port_test |->
    T(DPDK_Hot_Plug_multi_port_test_runTest, DPDK_Hot_Plug_multi_port_test_tearDown),
  max_tap_port |-> T(max_tap_port_runTest, max_tap_port_tearDown),
  max_vhost_port |-> T(max_vhost_port_runTest, max_vhost_port_tearDown),
  config_control_port_with_link |->
    T(config_control_port_with_link_runTest, config_control_port_with_link_tearDown),
  l3_exact_match_with_vhost |->
    T(l3_exact_match_with_vhost_runTest, l3_exact_match_with_vhost_tearDown),
  port_dump_mixed_no_default_val |->
    T(port_dump_mixed_no_default_val_runTest, port_dump_mixed_no_default_val_tearDown),
  l2l3_unsupport_tbl_port_match_action |->
    T(l2l3_unsupport_tbl_port_match_action_runTest, l2l3_unsupport_tbl_port_match_action_tearDown),
  dpdk_l3em_indirect_counter_help |->
    T(dpdk_l3em_indirect_counter_help_runTest, dpdk_l3em_indirect_counter_help_tearDown),
  mtu_config_test_with_tap |->
    T(mtu_config_test_with_tap_runTest, mtu_config_test_with_tap_tearDown),
  l2_exact_match_with_link_port |->
    T(l2_exact_match_with_link_port_runTest, l2_exact_match_with_link_port_tearDown),
  ct_rule_del_add_test |-> T(ct_rule_del_add_test_runTest, ct_rule_del_add_test_tearDown),
  ct_single_connection_vhost_ports_with_netperf |->
    T(ct_single_connection_vhost_ports_with_netperf_runTest,
      ct_single_connection_vhost_ports_with_netperf_tearDown),
  lnt_4vm_on_same_host |-> T(lnt_4vm_on_same_host_runTest, lnt_4vm_on_same_host_tearDown),
  lnt_4vm_full_mesh |->
    T(lnt_4vm_full_mesh_runTest_setup \o lnt_4vm_full_mesh_runTest_traffic,
      lnt_4vm_full_mesh_tearDown),
  LNT_Hot_Plug_Add_Remove_multi_port |->
    T(LNT_Hot_Plug_Add_Remove_multi_port_runTest, LNT_Hot_Plug_Add_Remove_multi_port_tearDown),
  lnt_1hotplugvm_vxlan_1nsvm |->
    T(lnt_1hotplugvm_vxlan_1nsvm_runTest_setup \o lnt_1hotplugvm_vxlan_1nsvm_runTest_traffic,
      lnt_1hotplugvm_vxlan_1nsvm_tearDown),
  ctrl_port_counter_with_vhost |->
    T(ctrl_port_counter_with_vhost_runTest, ctrl_port_counter_with_vhost_tearDown),
  port_tap_link_counter |-> T(port_tap_link_counter_runTest, port_tap_link_counter_tearDown),
  l2_dpdk_port_flapping_with_tap_ports |->
    T(l2_dpdk_port_flapping_with_tap_ports_runTest_setup
        \o l2_dpdk_port_flapping_with_tap_ports_runTest_traffic,
      l2_dpdk_port_flapping_with_tap_ports_tearDown),
  l3_dpdk_port_flapping_with_link_ports |->
    T(l3_dpdk_port_flapping_with_link_ports_runTest, l3_dpdk_port_flapping_with_link_ports_tearDown),
  l3_dpdk_port_flapping_with_vhost_ports |->
    T(l3_dpdk_port_flapping_with_vhost_ports_runTest, l3_dpdk_port_flapping_with_vhost_ports_tearDown),
  lnt_ctrl_vhost_port_flap |->
    T(lnt_ctrl_vhost_port_flap_runTest_setup \o lnt_ctrl_vhost_port_flap_runTest_traffic,
      lnt_ctrl_vhost_port_flap_tearDown),
  LNT_ECMP_2VM_2Host_del_add |->
    T(LNT_ECMP_2VM_2Host_del_add_runTest_setup \o LNT_ECMP_2VM_2Host_del_add_runTest_traffic,
      LNT_ECMP_2VM_2Host_del_add_tearDown),
  LNT_ECMP_2HotPlugVM_2Host_netperf |->
    T(LNT_ECMP_2HotPlugVM_2Host_netperf_runTest_setup
        \o LNT_ECMP_2HotPlugVM_2Host_netperf_runTest_traffic,
      LNT_ECMP_2HotPlugVM_2Host_netperf_tearDown),
  show_tap_port_mtu |-> T(show_tap_port_mtu_runTest, show_tap_port_mtu_tearDown)]

ASSUME Tests \subseteq DOMAIN Program /\ Tests # {}

-----------------------------------------------------------------------------
(* The run.                                                                *)

TypeOK ==
    /\ test \in Tests
    /\ part \in {"runTest", "tearDown", "verdict", "report", "done"}
    /\ pos \in 1..Len(Program[test].runTest)
    /\ failed \in BOOLEAN /\ broken \in BOOLEAN
    /\ bad \in BOOLEAN /\ completed \in BOOLEAN /\ escaped \in BOOLEAN
    /\ made \in 0..Len(Program[test].runTest)
    /\ verdict \in {"none", "PASSED", "FAILED"}
    /\ summary \in {"none", "PASSED", "FAILED"}

Init ==
    /\ test \in Tests
    /\ part = "runTest" /\ pos = 1
    /\ failed = FALSE /\ broken = FALSE
    /\ bad = FALSE /\ completed = FALSE /\ escaped = FALSE /\ made = 0
    /\ verdict = "none" /\ summary = "none"

\* The outcomes a step can have: a check of a misconfigured system, and a
\* call that always raises, go wrong; anything else may go either way.
Outcomes(s) == IF (s.kind = "check" /\ broken) \/ s.kind = "raise" THEN {FALSE} ELSE BOOLEAN

\* One step of runTest and its handler.  After the last step, or a step
\* that ends runTest, unittest calls tearDown.
RunStep ==
    LET run == Program[test].runTest
        s   == run[pos]
    IN
    /\ part = "runTest"
    /\ \E ok \in Outcomes(s), h \in s.on :
         LET stop == IF ok THEN StopsOnOk(h) ELSE OnBad[h].stop
             last == pos = Len(run)
         IN
         /\ failed' = (failed \/ (~ok /\ OnBad[h].record))
         /\ broken' = (broken \/ (~ok /\ s.kind = "setup"))
         /\ bad' = (bad \/ ~ok)
         /\ completed' = (last /\ ~stop)
         /\ escaped' = (escaped \/ (~ok /\ h = "escape"))
         /\ made' = IF made = pos - 1 /\ (ok \/ s.kind = "check") THEN pos ELSE made
         /\ IF stop \/ last THEN part' = "tearDown" /\ pos' = pos
                            ELSE part' = part /\ pos' = pos + 1
    /\ UNCHANGED <<test, verdict, summary>>

\* The cleanup calls of tearDown; one that goes wrong self.fails (or raises)
\* and the verdict is never printed.  It goes wrong for sure when runTest
\* ended before it created everything tearDown deletes.
CleanUp ==
    LET n == Program[test].cleanup IN
    /\ part = "tearDown"
    /\ \E ok \in CASE n = 0     -> {TRUE}
                  [] made >= n -> BOOLEAN
                  [] OTHER     -> {FALSE} :
         part' = IF ok THEN "verdict" ELSE "report"
    /\ UNCHANGED <<test, pos, failed, broken, bad, completed, escaped, made, verdict,
                   summary>>

\* print("Test has PASSED") if self.result.wasSuccessful() else FAILED.
VerdictLine ==
    /\ part = "verdict"
    /\ verdict' = IF failed THEN "FAILED" ELSE "PASSED"
    /\ part' = "report"
    /\ UNCHANGED <<test, pos, failed, broken, bad, completed, escaped, made, summary>>

\* The runner greps the test's output for the verdict line; none is FAILED.
Report ==
    /\ part = "report"
    /\ summary' = IF verdict = "none" THEN "FAILED" ELSE verdict
    /\ part' = "done"
    /\ UNCHANGED <<test, pos, failed, broken, bad, completed, escaped, made, verdict>>

Next == RunStep \/ CleanUp \/ VerdictLine \/ Report

Spec == Init /\ [][Next]_vars

-----------------------------------------------------------------------------
(* Properties.                                                             *)

\* A test the runner reports PASSED ran every step of its runTest, and no
\* configuration step or check of it went wrong: no handler let a failed
\* check, an exception before addFailure, or an early return through to a
\* "Test has PASSED" line.
PassMeansAllChecksPassed == summary = "PASSED" => completed /\ ~bad

\* The one hole the recording tests leave: a test reported PASSED either
\* ran every step of runTest with nothing going wrong, or was ended by an
\* exception (ExecuteCMDException of a gNMI or ip command, an error in a
\* helper) before any failure was recorded.  No failed check is ignored,
\* printed without addFailure, or cut short by a return.
PassOrRaised == summary = "PASSED" => (completed /\ ~bad) \/ escaped
====
