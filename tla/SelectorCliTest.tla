--------------------------- MODULE SelectorCliTest ---------------------------
(***************************************************************************)
(* One run of ptf_tests/tests/dpdk_action_selector_cli.py as the runner    *)
(* sees it.  runTest sets the pipeline, adds and verifies the members and  *)
(* the groups, reads each back, deletes every group and the members at     *)
(* positions 0 and 7 of del_member, then checks that the deleted ones are  *)
(* gone (a get that fails) and that positions 1 to 6 are still there.     *)
(* tearDown only prints the verdict.  A refused gNMI set makes             *)
(* gnmi_cli_set raise ExecuteCMDException out of runTest: unittest records *)
(* it in its own result, not in self.result, and tearDown still runs.      *)
(***************************************************************************)
EXTENDS Naturals, Sequences

CONSTANTS
    MemberIds, GroupIds, MatchKeys, MemberData, MaxSizes, CounterIdx,
    MaxCount, Absent, FaultyOps,
    MemberDetails,   \* table[0]['member_details']: <<[id, data], ...>>
    GroupDetails,    \* table[0]['group_details']:  <<[id, refs, max], ...>>
    DelGroup,        \* table[0]['del_group']
    DelMember        \* table[0]['del_member']

ASSUME /\ MemberDetails # <<>> /\ GroupDetails # <<>>
       /\ DelGroup # <<>> /\ DelMember # <<>>

VARIABLES
    members, groups, entries, counters, ret, stdout, lastCall,
    pc,        \* the step of runTest the test is at
    idx,       \* position in the config list the current loop walks
    failed,    \* self.result has a failure recorded
    raised,    \* an exception ended runTest without a recorded failure
    summary    \* the runner's verdict

C == INSTANCE SelectorClient

clientVars == <<members, groups, entries, counters, ret, stdout, lastCall>>
vars == <<clientVars, pc, idx, failed, raised, summary>>

Steps == {"setUp", "set_pipe", "add_member", "add_group", "get_member",
          "get_group", "del_group", "del_member", "chk_group", "chk_member",
          "chk_kept", "report", "done"}

TypeOK ==
    /\ C!TypeOK
    /\ pc \in Steps
    /\ idx \in Nat \ {0}
    /\ failed \in BOOLEAN /\ raised \in BOOLEAN
    /\ summary \in {"none", "PASSED", "FAILED"}

Init ==
    /\ C!Init
    /\ pc = "setUp" /\ idx = 1
    /\ failed = FALSE /\ raised = FALSE
    /\ summary = "none"

-----------------------------------------------------------------------------
(* Control flow helpers.  Positions are 1-based: position q of a list is   *)
(* Python index q - 1.                                                     *)

\* self.result.addFailure(...); self.fail(...): tearDown prints the verdict.
FailTest == failed' = TRUE /\ pc' = "report" /\ idx' = 1

\* Mutation variant: the index restarts at 0 after a loop.
AdvanceZeroBased(list, nextPc) ==
    IF idx < Len(list) THEN pc' = pc /\ idx' = idx + 1
                       ELSE pc' = nextPc /\ idx' = 0

\* Next element of a config loop, or the first step after the loop.
Advance(list, nextPc) ==
    IF idx < Len(list) THEN pc' = pc /\ idx' = idx + 1
                       ELSE pc' = nextPc /\ idx' = 1

DeletedAt(q) == q - 1 \in {0, 7}

\* The same test in the loop that checks the deleted members.
CheckedDeletedAt(q) == q - 1 \in {0, 7}

\* `if index in range(1,7):` of the loop that checks the kept members.
CheckedKeptAt(q) == q - 1 \in 1..6

-----------------------------------------------------------------------------
(* runTest.                                                                *)

\* gen_dep_files_p4c_ovs_pipeline_builder and gnmi_cli_set_and_verify: either
\* returns True, or returns False and the test fails, or gnmi_cli_set raises.
SetUpPorts ==
    /\ pc = "setUp"
    /\ \/ pc' = "set_pipe" /\ UNCHANGED <<idx, failed, raised>>
       \/ FailTest /\ UNCHANGED raised
       \/ pc' = "report" /\ raised' = TRUE /\ UNCHANGED <<idx, failed>>
    /\ UNCHANGED <<clientVars, summary>>

SetPipe ==
    /\ pc = "set_pipe"
    /\ C!ovs_p4ctl_set_pipe
    /\ IF C!Truthy(ret') THEN pc' = "add_member" /\ UNCHANGED <<idx, failed>>
                         ELSE FailTest
    /\ UNCHANGED <<raised, summary>>

\* A step of a loop whose body fails the test unless ok holds.
Checked(ok, list, nextPc) ==
    IF ok THEN Advance(list, nextPc) /\ UNCHANGED failed ELSE FailTest

AddMembers ==
    /\ pc = "add_member"
    /\ C!ovs_p4ctl_add_member_and_verify(MemberDetails[idx].id, MemberDetails[idx].data)
    /\ Checked(C!Truthy(ret'), MemberDetails, "add_group")
    /\ UNCHANGED <<raised, summary>>

AddGroups ==
    LET grp == GroupDetails[idx] IN
    /\ pc = "add_group"
    /\ C!ovs_p4ctl_add_group_and_verify(grp.id, grp.refs, grp.max)
    /\ Checked(C!Truthy(ret'), GroupDetails, "get_member")
    /\ UNCHANGED <<raised, summary>>

GetMembers ==
    /\ pc = "get_member"
    /\ C!ovs_p4ctl_get_member(DelMember[idx], Absent)
    /\ Checked(C!Truthy(ret'), DelMember, "get_group")
    /\ UNCHANGED <<raised, summary>>

GetGroups ==
    /\ pc = "get_group"
    /\ C!ovs_p4ctl_get_group(DelGroup[idx], Absent)
    /\ Checked(C!Truthy(ret'), DelGroup, "del_group")
    /\ UNCHANGED <<raised, summary>>

\* The delete results are not looked at.
DeleteGroups ==
    /\ pc = "del_group"
    /\ C!ovs_p4ctl_del_group(DelGroup[idx])
    /\ Advance(DelGroup, "del_member")
    /\ UNCHANGED <<failed, raised, summary>>

DeleteMembers ==
    /\ pc = "del_member"
    /\ IF DeletedAt(idx) THEN C!ovs_p4ctl_del_member(DelMember[idx])
                         ELSE UNCHANGED clientVars
    /\ Advance(DelMember, "chk_group")
    /\ UNCHANGED <<failed, raised, summary>>

\* A group the get still returns fails the test; a get that fails passes.
CheckDeletedGroups ==
    /\ pc = "chk_group"
    /\ C!ovs_p4ctl_get_group(DelGroup[idx], Absent)
    /\ Checked(~C!Truthy(ret'), DelGroup, "chk_member")
    /\ UNCHANGED <<raised, summary>>

CheckDeletedMembers ==
    /\ pc = "chk_member"
    /\ IF CheckedDeletedAt(idx)
       THEN /\ C!ovs_p4ctl_get_member(DelMember[idx], Absent)
            /\ Checked(~C!Truthy(ret'), DelMember, "chk_kept")
       ELSE /\ UNCHANGED <<clientVars, failed>>
            /\ Advance(DelMember, "chk_kept")
    /\ UNCHANGED <<raised, summary>>

\* After the last position runTest returns and tearDown prints the verdict.
CheckKeptMembers ==
    /\ pc = "chk_kept"
    /\ IF CheckedKeptAt(idx)
       THEN /\ C!ovs_p4ctl_get_member(DelMember[idx], Absent)
            /\ Checked(C!Truthy(ret'), DelMember, "report")
       ELSE /\ UNCHANGED <<clientVars, failed>>
            /\ Advance(DelMember, "report")
    /\ UNCHANGED <<raised, summary>>

-----------------------------------------------------------------------------
(* tearDown and the runner.                                                *)

\* print("Test has PASSED") if self.result.wasSuccessful() else FAILED.
VerdictLine == IF failed THEN "FAILED" ELSE "PASSED"

\* The runner finds the verdict line only if it went to the console.
Report ==
    /\ pc = "report"
    /\ pc' = "done"
    /\ summary' = IF stdout = "console" THEN VerdictLine ELSE "FAILED"
    /\ UNCHANGED <<clientVars, idx, failed, raised>>

Next ==
    \/ SetUpPorts \/ SetPipe \/ AddMembers \/ AddGroups
    \/ GetMembers \/ GetGroups \/ DeleteGroups \/ DeleteMembers
    \/ CheckDeletedGroups \/ CheckDeletedMembers \/ CheckKeptMembers
    \/ Report

Spec == Init /\ [][Next]_vars

-----------------------------------------------------------------------------
(* Properties.                                                             *)

====
