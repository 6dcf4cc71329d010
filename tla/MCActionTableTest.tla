------------------------- MODULE MCActionTableTest -------------------------
(* The config shape of the action-selector and action-profile tests: two   *)
(* members; for a selector test two groups sharing member m2 and one rule  *)
(* per group, for a profile test one rule per member; rules match on one   *)
(* field (dst IP) and the del lists name everything that was added.        *)
EXTENDS ActionTableTest

MCMemberData == [action : {"send"}, port : {1, 2}]
MCMatchKeys  == {<<"dst1">>, <<"dst2">>}

MCMemberDetails == << [id |-> "m1", data |-> [action |-> "send", port |-> 1]],
                      [id |-> "m2", data |-> [action |-> "send", port |-> 2]] >>
MCGroupDetails  == << [id |-> "g1", refs |-> <<"m1", "m2">>, max |-> 2],
                      [id |-> "g2", refs |-> <<"m2">>, max |-> 2] >>
MCSelectorRules == << [key |-> <<"dst1">>, action |-> "g1"],
                      [key |-> <<"dst2">>, action |-> "g2"] >>
MCProfileRules  == << [key |-> <<"dst1">>, action |-> "m1"],
                      [key |-> <<"dst2">>, action |-> "m2"] >>
MCDelGroup  == <<"g1", "g2">>
MCDelMember == <<"m1", "m2">>

\* The tests whose tearDown deletes rules, then groups, then members.
MCOrderedTests == {"tap_selector", "profile_tap"}
\* The tests whose tearDown omits the rules or deletes members first.
MCOtherTests == {"vhost_selector", "profile_link", "profile_vhost"}

MCAllTests == MCOrderedTests \cup MCOtherTests

\* Transport faults on every call runTest makes; the deletes of tearDown
\* are delivered.
MCFaultyOps == {"set_pipe", "add_member", "get_member", "add_group",
                "get_group", "add_entry"}
MCNoFaults == {}
=============================================================================
