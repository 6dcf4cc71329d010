--------------------------- MODULE ActionTableTest ---------------------------
(***************************************************************************)
(* One run of an action-selector or action-profile test of                 *)
(* ptf_tests/tests as the PTF runner sees it.  The five tests share one    *)
(* shape and differ in what they check and what tearDown deletes:          *)
(*                                                                         *)
(*   l3_action_selector_with_tap_ports    members, groups, rules; checked  *)
(*   l3_action_selector_with_vhost_ports  members, groups, rules; unchecked*)
(*   l3_action_profile_with_tap_ports     members, rules; checked          *)
(*   l3_action_profile_with_link_ports    members, rules; unchecked        *)
(*   l3_action_profile_with_vhost_ports   members, rules; unchecked        *)
(*                                                                         *)
(* runTest sets up ports, sets the pipeline, adds the entities of each    *)
(* table in config order, then runs its traffic checks.  A check is        *)
(* handled in one of three ways: "fail" (addFailure and self.fail: runTest *)
(* ends), "record" (addFailure, runTest goes on) or "ignore" (the result   *)
(* is not looked at).  tearDown deletes what its code names, in its        *)
(* order, ignoring the results, and prints the verdict line the runner     *)
(* greps.  A traffic check can only pass while the endpoint forwards as    *)
(* configured: every rule installed with the entities it points to.        *)
(***************************************************************************)
EXTENDS Naturals, Sequences

CONSTANTS
    MemberIds, GroupIds, MatchKeys, MemberData, MaxSizes, CounterIdx,
    MaxCount, Absent, FaultyOps,
    Tests,           \* the tests this model checks
    MemberDetails,   \* table[0]['member_details']: <<[id, data], ...>>
    GroupDetails,    \* table[0]['group_details']:  <<[id, refs, max], ...>>
    SelectorRules,   \* match_action of a selector test: <<[key, action], ...>>
    ProfileRules,    \* match_action of a profile test:  <<[key, action], ...>>
    SelectorDelAction, \* del_action of a selector test: <<[key, action], ...>>
    ProfileDelAction,  \* del_action of a profile test
    DelGroup,        \* table[0]['del_group']
    DelMember        \* table[0]['del_member']

VARIABLES
    members, groups, entries, counters, ret, stdout, lastCall,
    test,        \* the test being run
    pc,          \* the part of setUp/runTest/tearDown the test is in
    phase,       \* position in the test's list of adds, checks or deletes
    idx,         \* position in the config list the current loop walks
    failed,      \* self.result has a failure recorded (addFailure)
    forwarded,   \* history: whether the endpoint forwarded as configured
                 \* when the first traffic check ran: "yes", "no" or "none"
    summary      \* the runner's verdict for the test: "none" until reported

C == INSTANCE SelectorClient

clientVars == <<members, groups, entries, counters, ret, stdout, lastCall>>
vars == <<clientVars, test, pc, phase, idx, failed, forwarded, summary>>

-----------------------------------------------------------------------------
(* What each test does.                                                    *)

\* An add phase: the config list it walks and whether `if not ...:
\* addFailure; fail` wraps the wrapper call.
Add(list, checked) == [list |-> list, checked |-> checked]

TapSelectorAdds == << Add("member", TRUE), Add("group", TRUE), Add("entry", TRUE) >>
\* Per source address: the port counter reads, verify_packet, the counter
\* range checks.
TapSelectorTraffic == << "record", "fail", "record" >>
\* Mutation variant: members are deleted before the groups and entries
\* that reference them.
TapSelectorTearDownMembersFirst == << "td_members", "td_groups", "td_entries" >>
TapSelectorTearDown == << "td_entries", "td_groups", "td_members" >>

VhostSelectorAdds == << Add("member", FALSE), Add("group", FALSE), Add("entry", FALSE) >>
\* Mutation variant: the helpers' results are dropped, as the unicast
\* ping's is in the profile test on vhost ports.
VhostSelectorTrafficIgnored == << "ignore", "ignore", "ignore", "ignore" >>
\* Unicast both ways, multicast, broadcast: each `if not result:
\* addFailure` and go on.
VhostSelectorTraffic == << "record", "record", "record", "record" >>
VhostSelectorTearDown == << "td_groups", "td_members" >>

ProfileTapAdds == << Add("member", TRUE), Add("entry", TRUE) >>
\* UDP then TCP (counter reads, verify_packet, counter ranges), then the
\* multicast and broadcast verify_packet.
ProfileTapTraffic == << "record", "fail", "record", "record", "fail", "record", "fail", "fail" >>
ProfileTapTearDown == << "td_entries", "td_members" >>

ProfileLinkAdds == << Add("member", FALSE), Add("entry", FALSE) >>
\* Three verify_packet checks, each addFailure and self.fail.
ProfileLinkTraffic == << "fail", "fail", "fail" >>
ProfileLinkTearDown == << "td_members", "td_entries" >>

ProfileVhostAdds == << Add("member", FALSE), Add("entry", FALSE) >>
\* The unicast ping's result is dropped (an exception only sets the unused
\* self.PASSED); multicast and broadcast are recorded.
ProfileVhostTraffic == << "ignore", "record", "record" >>
ProfileVhostTearDown == << "td_members", "td_entries" >>

Program == [
    tap_selector   |-> [adds |-> TapSelectorAdds, traffic |-> TapSelectorTraffic,
                        teardown |-> TapSelectorTearDown],
    vhost_selector |-> [adds |-> VhostSelectorAdds, traffic |-> VhostSelectorTraffic,
                        teardown |-> VhostSelectorTearDown],
    profile_tap    |-> [adds |-> ProfileTapAdds, traffic |-> ProfileTapTraffic,
                        teardown |-> ProfileTapTearDown],
    profile_link   |-> [adds |-> ProfileLinkAdds, traffic |-> ProfileLinkTraffic,
                        teardown |-> ProfileLinkTearDown],
    profile_vhost  |-> [adds |-> ProfileVhostAdds, traffic |-> ProfileVhostTraffic,
                        teardown |-> ProfileVhostTearDown] ]

ASSUME Tests \subseteq DOMAIN Program /\ Tests # {}

IsSelector == test \in {"tap_selector", "vhost_selector"}

\* The match_action and del_action lists of the test's rule table.
Rules == IF IsSelector THEN SelectorRules ELSE ProfileRules
DelRules == IF IsSelector THEN SelectorDelAction ELSE ProfileDelAction

\* The config list an add phase or a delete phase walks.
ListOf(name) ==
    CASE name \in {"member", "td_members"} -> MemberDetails
      [] name = "group"                    -> GroupDetails
      [] name = "entry"                    -> Rules
      [] name = "td_groups"                -> DelGroup
      [] name = "td_entries"               -> DelRules

Steps == {"setUp", "set_pipe", "add", "traffic", "teardown", "report", "done"}

TypeOK ==
    /\ C!TypeOK
    /\ test \in Tests
    /\ pc \in Steps
    /\ phase \in Nat \ {0} /\ idx \in Nat \ {0}
    /\ failed \in BOOLEAN
    /\ forwarded \in {"none", "yes", "no"}
    /\ summary \in {"none", "PASSED", "FAILED"}

Init ==
    /\ C!Init
    /\ test \in Tests
    /\ pc = "setUp" /\ phase = 1 /\ idx = 1
    /\ failed = FALSE
    /\ forwarded = "none"
    /\ summary = "none"

-----------------------------------------------------------------------------
(* Control flow helpers.                                                   *)

\* self.result.addFailure(...); self.fail(...): the AssertionError ends
\* runTest and unittest runs tearDown.
FailTest == failed' = TRUE /\ pc' = "teardown" /\ phase' = 1 /\ idx' = 1

\* The part of the test after the last phase of the current one.
NextPart(p) == CASE p = "add" -> "traffic" [] p = "traffic" -> "teardown"
                 [] p = "teardown" -> "report"

\* Mutation variant: the index restarts at 0 after a loop.
AdvanceZeroBased(len, nphases) ==
    IF idx < len THEN idx' = idx + 1 /\ UNCHANGED <<pc, phase>>
    ELSE IF phase < nphases THEN idx' = 0 /\ phase' = phase + 1 /\ UNCHANGED pc
    ELSE idx' = 0 /\ phase' = 1 /\ pc' = NextPart(pc)

\* Next element of the current config loop, else the next phase, else the
\* next part of the test.
Advance(len, nphases) ==
    IF idx < len THEN idx' = idx + 1 /\ UNCHANGED <<pc, phase>>
    ELSE IF phase < nphases THEN idx' = 1 /\ phase' = phase + 1 /\ UNCHANGED pc
    ELSE idx' = 1 /\ phase' = 1 /\ pc' = NextPart(pc)

\* del_action.split(",")[0]: everything from the first comma on is
\* dropped, the action clause and any further match field alike.
MatchKeyOf(r) == <<Head(r.key)>>

\* The endpoint forwards as the test configured it: every rule is
\* installed and points to a live group whose members are live, or to a
\* live member.
Live(a) ==
    /\ a \in GroupIds => groups[a] # Absent /\ \A m \in groups[a].refs : members[m] # Absent
    /\ a \in MemberIds => members[a] # Absent
Forwarding == \A q \in DOMAIN Rules : entries[Rules[q].key] = Rules[q].action /\ Live(Rules[q].action)

-----------------------------------------------------------------------------
(* runTest.                                                                *)

\* P4C artifacts, gNMI port configuration, the PTF data-plane ports or the
\* VMs: external tools, each of which can fail the test.  gnmi_cli_set and
\* the _IpCMD methods behind ip_set_ipv4 raise ExecuteCMDException instead:
\* runTest ends with nothing recorded and unittest runs tearDown.
SetUpPorts ==
    /\ pc = "setUp"
    /\ \/ pc' = "set_pipe" /\ UNCHANGED <<phase, idx, failed>>
       \/ FailTest
       \/ pc' = "teardown" /\ phase' = 1 /\ idx' = 1 /\ UNCHANGED failed
    /\ UNCHANGED <<clientVars, test, forwarded, summary>>

SetPipe ==
    /\ pc = "set_pipe"
    /\ C!ovs_p4ctl_set_pipe
    /\ IF C!Truthy(ret') THEN pc' = "add" /\ UNCHANGED <<phase, idx, failed>>
                         ELSE FailTest
    /\ UNCHANGED <<test, forwarded, summary>>

\* One iteration of an add loop: add_member_and_verify,
\* add_group_and_verify or add_entry, its result checked or not.
AddEntity ==
    LET ph == Program[test].adds[phase]
        list == ListOf(ph.list)
        e == list[idx]
    IN
    /\ pc = "add"
    /\ CASE ph.list = "member" -> C!ovs_p4ctl_add_member_and_verify(e.id, e.data)
         [] ph.list = "group"  -> C!ovs_p4ctl_add_group_and_verify(e.id, e.refs, e.max)
         [] ph.list = "entry"  -> C!ovs_p4ctl_add_entry(e.key, e.action)
    /\ IF C!Truthy(ret') \/ ~ph.checked
       THEN Advance(Len(list), Len(Program[test].adds)) /\ UNCHANGED failed
       ELSE FailTest
    /\ UNCHANGED <<test, forwarded, summary>>

\* One traffic check (packets through the rules, port counters over gNMI,
\* a VM ping): it passes only while the endpoint forwards as configured,
\* and may fail anyway (a lost packet, counter noise).
TrafficCheck ==
    LET h == Program[test].traffic[phase] IN
    /\ pc = "traffic"
    /\ forwarded' = IF forwarded # "none" THEN forwarded
                    ELSE IF Forwarding THEN "yes" ELSE "no"
    /\ \E ok \in IF Forwarding THEN BOOLEAN ELSE {FALSE} :
           IF ok \/ h = "ignore"
           THEN Advance(1, Len(Program[test].traffic)) /\ UNCHANGED failed
           ELSE IF h = "record"
           THEN failed' = TRUE /\ Advance(1, Len(Program[test].traffic))
           ELSE FailTest
    /\ UNCHANGED <<clientVars, test, summary>>

-----------------------------------------------------------------------------
(* tearDown.                                                               *)

\* One iteration of a delete loop of tearDown; the result is ignored.
TearDownEntity ==
    LET p == Program[test].teardown[phase]
        list == ListOf(p)
    IN
    /\ pc = "teardown"
    /\ CASE p = "td_entries" -> C!ovs_p4ctl_del_entry(MatchKeyOf(list[idx]))
         [] p = "td_groups"  -> C!ovs_p4ctl_del_group(list[idx])
         [] p = "td_members" -> C!ovs_p4ctl_del_member(list[idx].id)
    /\ Advance(Len(list), Len(Program[test].teardown))
    /\ UNCHANGED <<test, failed, forwarded, summary>>

\* print("Test has PASSED") if self.result.wasSuccessful() else FAILED:
\* only failures recorded with addFailure count.
VerdictLine == IF failed THEN "FAILED" ELSE "PASSED"

\* The runner greps the test's output for the verdict line and reports
\* the test FAILED when it finds none (the print went to a capture buffer).
Report ==
    /\ pc = "report"
    /\ pc' = "done"
    /\ summary' = IF stdout = "console" THEN VerdictLine ELSE "FAILED"
    /\ UNCHANGED <<clientVars, test, phase, idx, failed, forwarded>>

Next ==
    \/ SetUpPorts \/ SetPipe \/ AddEntity \/ TrafficCheck
    \/ TearDownEntity \/ Report

Spec == Init /\ [][Next]_vars

-----------------------------------------------------------------------------
(* Properties.                                                             *)

\* Whatever step of runTest failed, and however the transport failed on
\* the adds and their readbacks, tearDown leaves the endpoint without any
\* member, group or rule of this test, so the next test starts from a
\* clean pipeline.  This depends on the delete order of tearDown (a rule
\* pins its group or member, a group pins its members), on tearDown
\* naming every kind of entity runTest added, and on the delete key.
CleanTeardown ==
    pc = "done" =>
        /\ \A m \in MemberIds : members[m] = Absent
        /\ \A g \in GroupIds : groups[g] = Absent
        /\ \A k \in MatchKeys : entries[k] = Absent

\* When the runner reports the test PASSED, its traffic checks ran against
\* an endpoint that forwarded as configured: every rule installed with the
\* group or member it points to.
PassImpliesForwarding ==
    summary = "PASSED" => forwarded = "yes"
====
