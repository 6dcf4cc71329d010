------------------------- MODULE MCSelectorCliTest -------------------------
(* Model constants for SelectorCliTest: eight members, so that both        *)
(* hard-coded delete positions (0 and 7) exist, and two groups.           *)
EXTENDS SelectorCliTest

MCMemberIds  == {"m1", "m2", "m3", "m4", "m5", "m6", "m7", "m8"}
MCMemberData == [action : {"send"}, port : {1}]
MCMatchKeys  == {<<"dst1">>}
MCDelMember  == <<"m1", "m2", "m3", "m4", "m5", "m6", "m7", "m8">>
MCMemberDetails == [q \in 1..8 |-> [id |-> MCDelMember[q],
                                    data |-> [action |-> "send", port |-> 1]]]
MCGroupDetails  == << [id |-> "g1", refs |-> <<"m2", "m3">>, max |-> 2],
                      [id |-> "g2", refs |-> <<"m4">>, max |-> 2] >>
MCDelGroup   == <<"g1", "g2">>

\* The reads and the checks may fail in transport; the deletes are
\* delivered.
MCFaultyOps  == {"get_member", "get_group"}
=============================================================================
