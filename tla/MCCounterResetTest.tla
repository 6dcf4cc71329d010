------------------------- MODULE MCCounterResetTest -------------------------
(* Model constants for CounterResetTest: two forwarding rules with a direct *)
(* send action, the packets and bytes counter tables, two counter indexes. *)
EXTENDS CounterResetTest

CONSTANTS CtrPackets, CtrBytes

MCMemberData == [action : {"send"}, port : {1, 2}]
MCMatchKeys  == {<<"dst1">>, <<"dst2">>}
MCRules      == << [key |-> <<"dst1">>, action |-> [action |-> "send", port |-> 1]],
                  [key |-> <<"dst2">>, action |-> [action |-> "send", port |-> 2]] >>
MCDelRules   == << <<"dst1">>, <<"dst2">> >>

\* P4Info lists the packets table before the bytes table.
MCCounterTables == <<CtrPackets, CtrBytes>>
MCIndex         == <<1, 2>>
MCIndexOne      == <<1>>
MCCounterIdx    == {<<t, x>> : t \in {CtrPackets, CtrBytes}, x \in {1, 2}}
MCCounterIdxOne == {<<t, 1>> : t \in {CtrPackets, CtrBytes}}

\* Every call of runTest may fail; the deletes of tearDown are delivered.
MCFaultyOps == {"gnmi_set", "set_pipe", "add_entry", "get_counter",
                "reset_counter", "get_p4info", "ping", "telnet"}
MCNoFaults  == {}
=============================================================================
