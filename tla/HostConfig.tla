----------------------------- MODULE HostConfig -----------------------------
(***************************************************************************)
(* The host-configuration utilities the tests call, locally or on the     *)
(* remote host of the LNT tests, composed with the connections they run   *)
(* their commands through (RemoteShell) and with the host those commands  *)
(* change:                                                                *)
(*   ovs.py         the ovs-vsctl command of each _Vsctl method;          *)
(*   ovs_utils.py   connect, run one ovs-vsctl command, tear down, judge  *)
(*                  the return code;                                      *)
(*   port_config.py _IpCMD: connect in __init__, and one `ip` command per *)
(*                  method, raising ExecuteCMDException on a non-zero     *)
(*                  return code;                                          *)
(*   gnmi_cli_utils.py the ip_* wrappers around a PortConfig;             *)
(*   test_utils.py  create_ipnetns_vm, del_ipnetns_vm and                 *)
(*                  ip_ntns_exec_ping_test, chains of those wrappers.     *)
(* Each utility is a program of steps (connect, exec, raise on rc, close, *)
(* judge, return) that one action per step kind interprets.  Data is      *)
(* abstracted to the host objects a command creates, needs or removes.    *)
(***************************************************************************)
EXTENDS RemoteShell, FiniteSets

CONSTANTS
    Objects,          \* what host commands create: namespaces, links, bridges, ports
    Needs,            \* Needs[o]: what o cannot exist without (a port, its bridge)
    Calls,            \* the utility calls the test makes: [name, obj, prog]
    Remotes,          \* the values of the remote= argument the test passes
    ConnectOutcomes,  \* how setup_ssh_connection can end: "ok", or "denied" for
                      \* any exception it catches
    InitHosts,        \* what the host may hold when the test starts
    MaxCalls,         \* calls per behaviour
    NoCall,
    NoResult

VARIABLES
    host,     \* the objects that exist on the host
    active,   \* a utility call is running
    call,     \* the running call, or the last one
    prog,     \* the steps of the running call still to do
    val,      \* the value the running utility will return
    remote,   \* the running call's remote= argument
    result,   \* how the last call ended: "true", "false", "raised", or NoResult
    ncalls,   \* calls made
    failed    \* a command of the running call exited non-zero

hostVars == <<host, active, call, prog, val, remote, result, ncalls, failed>>
vars == <<hostVars, shellVars>>

-----------------------------------------------------------------------------
(* Host commands: what a command does to the host and what it prints.     *)

Cmd(op, objs) == [op |-> op, objs |-> objs]
Create(objs) == Cmd("create", objs)
Delete(objs) == Cmd("delete", objs)
Use(objs) == Cmd("use", objs)
Ping(ns) == Cmd("ping", {ns})
\* gnmi-cli set of a port; gnmi-cli get of one of its fields, filtered
\* through egrep and cut; the counters get, through grep and grep -v; and
\* `cat /sys/class/net/<port>/mtu`.
GnmiSet(o) == Cmd("gnmi_set", {o})
GnmiGet(o) == Cmd("gnmi_get", {o})
GnmiGetCounter(o) == Cmd("gnmi_get_counter", {o})
Read(o) == Cmd("read", {o})

\* ping -c 4 prints a line per reply, then the summary; with no reply only
\* the summary, and it exits 1 without writing to stderr.
PingAll == <<"reply", "received">>
PingNone == <<"lost">>
\* gnmi-cli set prints "Set request, successful"; a get prints the field's
\* value, which cut leaves as " <value>\n".
SetOk == <<"successful">>
Field == <<"field">>

Succeeds(out, code) == [out |-> out, code |-> code, err |-> FALSE]
\* ip and ovs-vsctl print the reason on stderr and exit non-zero.
Refused == [out |-> <<>>, code |-> 1, err |-> TRUE]

\* What removing objs takes with it (del-br removes the bridge's ports).
Dependents(objs, h) == {o \in h : Needs[o] \cap objs # {}}

\* The outcomes of command c on host h: <<what it did, the host after>>.
Effect(c, h) ==
    CASE c.op = "create" ->
            IF c.objs \cap h = {} /\ UNION {Needs[o] : o \in c.objs} \subseteq h
            THEN {<<Succeeds(<<>>, 0), h \cup c.objs>>} ELSE {<<Refused, h>>}
      [] c.op = "delete" ->
            IF c.objs \subseteq h
            THEN {<<Succeeds(<<>>, 0), h \ (c.objs \cup Dependents(c.objs, h))>>}
            ELSE {<<Refused, h>>}
      [] c.op = "use" ->
            IF c.objs \subseteq h THEN {<<Succeeds(<<>>, 0), h>>} ELSE {<<Refused, h>>}
      \* the server may also refuse a new port (a bad parameter, a missing socket)
      [] c.op = "gnmi_set" ->
            IF c.objs \cap h = {} THEN {<<Succeeds(SetOk, 0), h \cup c.objs>>, <<Refused, h>>}
            ELSE {<<Refused, h>>}
      \* the pipeline's status is cut's: 0, with no output for a missing port
      [] c.op = "gnmi_get" ->
            {<<Succeeds(IF c.objs \subseteq h THEN Field ELSE <<>>, 0), h>>}
      \* grep -v exits 1 when nothing is left
      [] c.op = "gnmi_get_counter" ->
            {<<IF c.objs \subseteq h THEN Succeeds(Field, 0) ELSE Succeeds(<<>>, 1), h>>}
      [] c.op = "read" ->
            IF c.objs \subseteq h THEN {<<Succeeds(Field, 0), h>>} ELSE {<<Refused, h>>}
      [] c.op = "ping" ->
            IF c.objs \subseteq h
            THEN {<<Succeeds(PingAll, 0), h>>, <<Succeeds(PingNone, 1), h>>}
            ELSE {<<Refused, h>>}

-----------------------------------------------------------------------------
(* Program steps.                                                         *)

Step(k, a) == [op |-> k, arg |-> a]
ConnectOp == Step("connect", "")
ExecOp(c) == Step("exec", c)
RaiseOnRc == Step("raise_on_rc", "")
CloseOp == Step("close", "")
SetRc == Step("set_rc", "")
Return(v) == Step("return", v)
PingVerdict == Step("ping_verdict", "")
Unless == Step("unless", "")
\* Local(): the connection of a call that never takes remote=
ConnectLocal == Step("connect", "local")
RaiseUnlessSet == Step("raise_unless_set", "")
Mismatch == Step("mismatch", "")
TruthyOut == Step("truthy_out", "")
RaiseTypeError == Step("raise", "")

\* ovs.py, _Vsctl: each method forms its ovs-vsctl command and returns
\* execute_command's (out, rc, err).
vsctl_add_br(b) == <<ExecOp(Create({b}))>>
vsctl_del_br(b) == <<ExecOp(Delete({b}))>>
vsctl_add_port(b, p) == <<ExecOp(Create({p}))>>
vsctl_add_port_vxlan_type(b, p) == <<ExecOp(Create({p}))>>
vsctl_add_vlan_to_bridge(b, v) == <<ExecOp(Create({v}))>>
vsctl_del_port(b, p) == <<ExecOp(Delete({p}))>>
vsctl_add_p4_device(d) == <<ExecOp(Create({d}))>>
\* `ovs-vsctl -V` (its regex search of the version is not modelled);
\* get_ver raises on a non-zero status
vsctl_get_ver == <<ExecOp(Use({})), RaiseOnRc>>
\* _Ofctl.dump_port: `ovs-ofctl dump-ports <bridge>`
ofctl_dump_port(b) == <<ExecOp(Read(b))>>

\* ovs_utils.py: get_connection_object builds an Ssh (and sets it up) or a
\* Local; every utility runs one command, tears down, then returns
\* `False if rcode else True`.
get_connection_object == ConnectOp
\* Mutation variant: True whatever the return code.
OvsUtilIgnoringRc(body) == <<get_connection_object>> \o body \o <<CloseOp, Return("true")>>
OvsUtil(body) == <<get_connection_object>> \o body \o <<CloseOp, SetRc>>
add_bridge_to_ovs(b) == OvsUtil(vsctl_add_br(b))
del_bridge_from_ovs(b) == OvsUtil(vsctl_del_br(b))
add_vxlan_port_to_ovs(b, p) == OvsUtil(vsctl_add_port_vxlan_type(b, p))
add_vlan_to_bridge(b, v) == OvsUtil(vsctl_add_vlan_to_bridge(b, v))
add_port_to_ovs(b, p) == OvsUtil(vsctl_add_port(b, p))
del_port_from_ovs(b, p) == OvsUtil(vsctl_del_port(b, p))
del_ovs_bridge(b) == OvsUtil(vsctl_del_br(b))
\* prints the version, tears down, returns None
get_ovsctl_version == <<get_connection_object>> \o vsctl_get_ver \o <<CloseOp, Return("false")>>

\* port_config.py: _IpCMD.__init__ connects; every method runs its ip
\* command and raises ExecuteCMDException when the return code is not 0.
PortConfig == <<ConnectOp>>
IpCmd(c) == <<ExecOp(c), RaiseOnRc>>
Ip_iplink_enable_disable_link(o) == IpCmd(Use({o}))
Ip_ipaddr_ipv4_set(a) == IpCmd(Create({a}))
Ip_ipaddr_ipv4_del(a) == IpCmd(Delete({a}))
Ip_iplink_create_veth_interface(v, p) == IpCmd(Create({v, p}))
Ip_iplink_add_veth_to_netns(n, v) == IpCmd(Use({n, v}))
Ip_iplink_del_port(o) == IpCmd(Delete({o}))
Ip_ipnetns_create_namespace(n) == IpCmd(Create({n}))
Ip_ipnetns_execute_command(n, c) == IpCmd(c)
Ip_ipnetns_delete_namespace(n) == IpCmd(Delete({n}))
Ip_iplink_add_dev(d) == IpCmd(Create({d}))
Ip_iproute_add(r) == IpCmd(Create({r}))
Ip_iproute_del(r) == IpCmd(Delete({r}))
Ip_tear_down == <<CloseOp>>
Ip_ip_link_set_mac(o) == IpCmd(Use({o}))
Ip_ip_neigh_add(o, n) == IpCmd(Create({n}))
Ip_iplink_add_vlan_port(v, o) == IpCmd(Create({v}))
\* PortConfig() without arguments: both connections are Local.
LocalPortConfig == <<ConnectLocal>>

\* _GNMICLI: gnmi_cli_set raises unless the output says "successful";
\* gnmi_cli_get and gnmi_cli_get_counter raise on the pipeline's status;
\* tear_down does nothing.
gnmi_cli_set(o) == <<ExecOp(GnmiSet(o)), RaiseUnlessSet>>
gnmi_cli_get(o) == <<ExecOp(GnmiGet(o)), RaiseOnRc>>
gnmi_cli_get_counter(o) == <<ExecOp(GnmiGetCounter(o)), RaiseOnRc>>

\* ovs_bridge_up: link up through a PortConfig; returns None.
ovs_bridge_up(b) ==
    PortConfig \o Ip_iplink_enable_disable_link(b) \o Ip_tear_down \o <<Return("false")>>

\* gnmi_cli_utils.py: a PortConfig, one method, Ip.tear_down, True.  The
\* `return False` branches are dead: the methods raise instead.  iproute_add,
\* iproute_del and iplink_add_dev tear down GNMICLI, which closes nothing.
IpUtil(body) == PortConfig \o body \o Ip_tear_down \o <<Return("true")>>
IpUtilOpen(body) == PortConfig \o body \o <<Return("true")>>
ip_add_addr(o, a) == IpUtil(Ip_ipaddr_ipv4_set(a))
ip_del_addr(o, a) == IpUtil(Ip_ipaddr_ipv4_del(a))
ip_set_dev_up(o) == IpUtil(Ip_iplink_enable_disable_link(o))
iplink_del_port(o) == IpUtil(Ip_iplink_del_port(o))
ip_netns_add(n) == IpUtil(Ip_ipnetns_create_namespace(n))
ip_netns_del(n) == IpUtil(Ip_ipnetns_delete_namespace(n))
del_ip_netns(n) == IpUtil(Ip_ipnetns_delete_namespace(n))
ip_link_add_veth_and_peer(v, p) == IpUtil(Ip_iplink_create_veth_interface(v, p))
ip_link_set_veth_to_ns(n, v) == IpUtil(Ip_iplink_add_veth_to_netns(n, v))
ip_link_netns_exec(n, c) == IpUtil(Ip_ipnetns_execute_command(n, c))
iproute_add(r) == IpUtilOpen(Ip_iproute_add(r))
iproute_del(r) == IpUtilOpen(Ip_iproute_del(r))
iplink_add_dev(d) == IpUtilOpen(Ip_iplink_add_dev(d))

\* gnmi_cli_utils.py, the gNMI helpers.  gnmi_set_params returns the last
\* output.  gnmi_get_params_verify returns True when some field read back
\* differs from the text set, which cut's " <value>\n" always does.
gnmi_set_params(o) == LocalPortConfig \o gnmi_cli_set(o) \o <<Return("true")>>
gnmi_get_params_verify(o) == LocalPortConfig \o gnmi_cli_get(o) \o <<Mismatch>>
gnmi_cli_set_and_verify(o) == gnmi_set_params(o) \o gnmi_get_params_verify(o)
\* the stripped value, else False
gnmi_get_params_elemt_value(o) == LocalPortConfig \o gnmi_cli_get(o) \o <<TruthyOut>>
\* the counters parsed into a dict, False when it is empty
gnmi_get_params_counter(o) == LocalPortConfig \o gnmi_cli_get_counter(o) \o <<TruthyOut>>
\* no character of a string is falsy: the output itself is returned
gnmi_get_element_value(o) == LocalPortConfig \o gnmi_cli_get(o) \o <<TruthyOut>>
\* False on a non-zero status, else the mtu read
get_port_mtu_linuxcli(o) == <<ConnectLocal, ExecOp(Read(o)), SetRc>>
\* link up and address set per interface; returns None
ip_set_ipv4(o, a) ==
    LocalPortConfig \o Ip_iplink_enable_disable_link(o) \o Ip_ipaddr_ipv4_set(a)
    \o <<Return("false")>>
\* the False branch is dead: the method raises instead
iplink_add_vlan_port(v, o) == LocalPortConfig \o Ip_iplink_add_vlan_port(v, o) \o <<Return("true")>>

\* test_utils.ovs_add_ctrl_port_to_bridge, over get_connection_object()
\* (local): add-p4-device, add-br, then
\* unpacks add_br_p4's result, which is None (the method forms its command
\* and neither runs nor returns it): a TypeError.
ovs_add_ctrl_port_to_bridge(d, b) ==
    <<ConnectLocal>> \o vsctl_add_p4_device(d) \o <<SetRc, Unless,
      ExecOp(Create({b})), SetRc, Unless, RaiseTypeError>>

\* test_utils.get_ovs_port_dump, over a local connection: False unless the status is 0 and the
\* output lists ports, else the counters parsed per control port; the
\* connection is never torn down.
get_ovs_port_dump(b) == <<ConnectLocal>> \o ofctl_dump_port(b) \o <<TruthyOut>>

\* test_utils.py: create_ipnetns_vm returns False at the first wrapper that
\* returns a falsy value; the two commands run inside the namespace
\* address the veth moved there.
create_ipnetns_vm(n, v, p) ==
    ip_netns_add(n) \o <<Unless>>
    \o ip_link_add_veth_and_peer(v, p) \o <<Unless>>
    \o ip_link_set_veth_to_ns(n, v) \o <<Unless>>
    \o ip_link_netns_exec(n, Use({n, v})) \o <<Unless>>
    \o ip_link_netns_exec(n, Use({n, v})) \o <<Unless>>
    \o ip_set_dev_up(p) \o <<Unless, Return("true")>>
del_ipnetns_vm(n) == del_ip_netns(n) \o <<Unless, Return("true")>>
\* Mutation variant: judged by results[0] alone.
PingTestByRc(n) == ip_link_netns_exec(n, Ping(n))
\* True when the output holds "{count} received, 0% packet loss".
ip_ntns_exec_ping_test(n) == ip_link_netns_exec(n, Ping(n)) \o <<PingVerdict>>

-----------------------------------------------------------------------------
(* The interpreter.                                                       *)

Init ==
    /\ ShellInit
    /\ host \in InitHosts
    /\ active = FALSE
    /\ call = NoCall
    /\ prog = <<>>
    /\ val = FALSE
    /\ remote = FALSE
    /\ result = NoResult
    /\ ncalls = 0
    /\ failed = FALSE

\* The test calls utility k.
StartCall(k) ==
    /\ ~active
    /\ ncalls < MaxCalls
    /\ \E r \in Remotes : remote' = r
    /\ active' = TRUE
    /\ call' = k
    /\ prog' = k.prog
    /\ val' = FALSE
    /\ ncalls' = ncalls + 1
    /\ failed' = FALSE
    /\ UNCHANGED <<host, result, shellVars>>

Ready(k) == active /\ prog # <<>> /\ Head(prog).op = k /\ ~Busy
Advance == prog' = Tail(prog) /\ UNCHANGED <<active, result>>
EndWith(v) == active' = FALSE /\ result' = v /\ prog' = <<>>

DoConnect ==
    /\ Ready("connect")
    /\ IF remote /\ Head(prog).arg # "local"
       THEN \E o \in ConnectOutcomes : setup_ssh_connection(o)
       ELSE LocalConnect
    /\ Advance
    /\ UNCHANGED <<host, call, val, remote, ncalls, failed>>

\* The command runs on the host the connection reaches.
DoExec ==
    /\ Ready("exec")
    /\ conn \in {"local", "ssh"}
    /\ \E e \in Effect(Head(prog).arg, host) :
          /\ host' = e[2]
          /\ failed' = (failed \/ e[1].code # 0)
          /\ IF conn = "local" THEN LocalExec(e[1]) ELSE SshExec(e[1])
    /\ Advance
    /\ UNCHANGED <<call, val, remote, ncalls>>

\* No transport: execute_command raises before anything runs.
DoExecNoTransport ==
    /\ Ready("exec")
    /\ conn = "ssh_down"
    /\ SshExec(Head(prog).arg)
    /\ EndWith("raised")
    /\ UNCHANGED <<host, call, val, remote, ncalls, failed>>

DoRaiseOnRc ==
    /\ Ready("raise_on_rc")
    /\ IF ret.rc # 0 THEN EndWith("raised") ELSE Advance
    /\ UNCHANGED <<host, call, val, remote, ncalls, failed, shellVars>>

DoClose ==
    /\ Ready("close")
    /\ tear_down
    /\ Advance
    /\ UNCHANGED <<host, call, val, remote, ncalls, failed>>

DoSetRc ==
    /\ Ready("set_rc")
    /\ val' = (ret.rc = 0)
    /\ Advance
    /\ UNCHANGED <<host, call, remote, ncalls, failed, shellVars>>

DoReturn ==
    /\ Ready("return")
    /\ val' = (Head(prog).arg = "true")
    /\ Advance
    /\ UNCHANGED <<host, call, remote, ncalls, failed, shellVars>>

DoPingVerdict ==
    /\ Ready("ping_verdict")
    /\ val' = \E i \in DOMAIN ret.out : ret.out[i] = "received"
    /\ Advance
    /\ UNCHANGED <<host, call, remote, ncalls, failed, shellVars>>

DoUnless ==
    /\ Ready("unless")
    /\ IF val THEN Advance ELSE EndWith("false")
    /\ UNCHANGED <<host, call, val, remote, ncalls, failed, shellVars>>

DoRaiseUnlessSet ==
    /\ Ready("raise_unless_set")
    /\ IF \E i \in DOMAIN ret.out : ret.out[i] = "successful"
       THEN Advance ELSE EndWith("raised")
    /\ UNCHANGED <<host, call, val, remote, ncalls, failed, shellVars>>

\* `!= entry.split(':')[1]`: the bare value is never what cut printed
DoMismatch ==
    /\ Ready("mismatch")
    /\ val' = (val \/ ret.out # <<"value">>)
    /\ Advance
    /\ UNCHANGED <<host, call, remote, ncalls, failed, shellVars>>

DoTruthyOut ==
    /\ Ready("truthy_out")
    /\ val' = (ret.out # <<>>)
    /\ Advance
    /\ UNCHANGED <<host, call, remote, ncalls, failed, shellVars>>

DoRaise ==
    /\ Ready("raise")
    /\ EndWith("raised")
    /\ UNCHANGED <<host, call, val, remote, ncalls, failed, shellVars>>

\* The utility returns what it computed.
Finish ==
    /\ active
    /\ prog = <<>>
    /\ active' = FALSE
    /\ result' = IF val THEN "true" ELSE "false"
    /\ UNCHANGED <<host, call, prog, val, remote, ncalls, failed, shellVars>>

Interpret ==
    \/ DoConnect \/ DoExec \/ DoExecNoTransport \/ DoRaiseOnRc \/ DoClose
    \/ DoSetRc \/ DoReturn \/ DoPingVerdict \/ DoUnless \/ Finish
    \/ DoRaiseUnlessSet \/ DoMismatch \/ DoTruthyOut \/ DoRaise

Next ==
    \/ \E k \in Calls : StartCall(k)
    \/ Interpret
    \/ ShellStep /\ UNCHANGED hostVars

\* No fairness: the properties are safety properties.  A liveness claim
\* (every call returns) would need the remote exit status to arrive, which
\* neither ssh.py nor its timeout guarantees.
Spec == Init /\ [][Next]_vars
-----------------------------------------------------------------------------
(* Properties.                                                            *)

CmdOutcomes == {Succeeds(<<>>, 0), Refused, Succeeds(PingAll, 0), Succeeds(PingNone, 1),
                Succeeds(SetOk, 0), Succeeds(Field, 0), Succeeds(<<>>, 1)}

\* ip_ntns_exec_ping_test (test_utils.py) returns True only when the ping
\* in the namespace got its replies: whatever the connection drops of the
\* output or makes of the return code, a True is never a lost ping.
PingTrueMeansReplies ==
    (~active /\ result = "true" /\ call # NoCall /\ call.name = "ip_ntns_exec_ping_test")
        => cmd = Succeeds(PingAll, 0)

\* A utility of ovs_utils, gnmi_cli_utils or test_utils that returns True
\* ran every command of the call to a zero exit status: the judgement of
\* `rcode` in ovs_utils and the raise on rc in port_config never let a
\* failed ovs-vsctl or ip command through as success.
TrueMeansCommandsSucceeded ==
    (~active /\ result = "true") => ~failed

\* Execute as section 6 of the specification states it: what the caller
\* sees when execute_command has returned is all the command printed and
\* whether it exited 0.
Transport == INSTANCE CommandTransport
    WITH Commands <- CmdOutcomes,
         result <- IF sh = "done"
                   THEN [cmd |-> cmd, out |-> ret.out, ok |-> ret.rc = 0]
                   ELSE NoResult

ImplementsTransport == Transport!Spec
====
