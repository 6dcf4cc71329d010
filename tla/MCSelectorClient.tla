-------------------------- MODULE MCSelectorClient --------------------------
(* Model-checking instance of SelectorClient: two members, one group, one  *)
(* single-field match key, one counter, every call exposed to transport    *)
(* faults.                                                                 *)
EXTENDS SelectorClient

MCMemberData == [action : {"send"}, port : {1, 2}]
MCMatchKeys  == {<<"dst_addr">>}
MCFaultyOps  == {"set_pipe", "add_entry", "del_entry", "add_member", "get_member",
                 "del_member", "add_group", "get_group", "del_group",
                 "get_counter", "reset_counter", "get_p4info"}
=============================================================================
