-------------------------- MODULE CounterResetTest --------------------------
(***************************************************************************)
(* One run of ptf_tests/tests/dpdk_l3em_indirect_counter_reset.py as the   *)
(* runner sees it.  runTest configures ports, builds and sets the          *)
(* pipeline, starts two VMs, adds the forwarding rules and pings between   *)
(* the VMs; it then reads every (counter table, index) of P4Info, resets   *)
(* each and reads it again, and checks for the packets and bytes tables    *)
(* that the value was positive before and is 0 after.  tearDown deletes    *)
(* the rules and prints the verdict.                                       *)
(*                                                                         *)
(* The counter reads and resets are the wrappers of SelectorClient; the    *)
(* data plane (ping packets, packets still in flight from the dummy ping)  *)
(* is P4CountFlow, which may step at any time after the rules are added.   *)
(* An uncaught exception of runTest (a raise of reset_counter_entry, a     *)
(* TypeError or IndexError in the checks) goes to tearDown without a       *)
(* recorded failure.                                                       *)
(***************************************************************************)
EXTENDS Naturals, Sequences

CONSTANTS
    MemberIds, GroupIds, MatchKeys, MemberData, MaxSizes, CounterIdx,
    MaxCount, Absent, FaultyOps,
    ArcType,        \* config 'p4arctype'
    CounterTables,  \* counter tables in P4Info order
    Index,          \* config counter 'index' list
    PacketsTable,   \* ipv4_host_tbl_flow_counter_packets
    BytesTable,     \* ipv4_host_tbl_flow_counter_bytes
    Rules,          \* match_action of the tables: <<[key, action], ...>>
    DelRules,       \* del_action of the tables: <<key, ...>>
    NoData          \* model value: the False a failed counter read returns

ASSUME CounterIdx = {<<t, x>> : t \in {CounterTables[p] : p \in DOMAIN CounterTables},
                                x \in {Index[q] : q \in DOMAIN Index}}

VARIABLES
    members, groups, entries, counters, ret, stdout, lastCall,
    pc,         \* the step of runTest/tearDown the test is at
    i, j,       \* loop positions: counter table, counter index or rule
    cnt1,       \* table -> values read before reset (NoData when a read failed)
    cnt2,       \* table -> values read after reset
    failed,     \* self.result has a failure recorded
    completed,  \* runTest returned without an exception
    observed,   \* history: (table, index) seen positive before and 0 after reset
    summary     \* the runner's verdict

C == INSTANCE SelectorClient

clientVars == <<members, groups, entries, counters, ret, stdout, lastCall>>
testVars == <<pc, i, j, cnt1, cnt2, failed, completed, observed, summary>>
vars == <<clientVars, testVars>>

Tables == {CounterTables[p] : p \in DOMAIN CounterTables}
Values == {NoData} \cup (0..MaxCount)

Steps == {"setUp", "set_pipe", "vms", "add_entry", "ping", "table_ids",
          "before", "reset", "reset_read", "close", "td_entries", "report", "done"}

TypeOK ==
    /\ C!TypeOK
    /\ pc \in Steps
    /\ i \in Nat \ {0} /\ j \in Nat \ {0}
    /\ cnt1 \in [Tables -> Seq(Values)] /\ cnt2 \in [Tables -> Seq(Values)]
    /\ failed \in BOOLEAN /\ completed \in BOOLEAN
    /\ observed \subseteq CounterIdx
    /\ summary \in {"none", "PASSED", "FAILED"}

Init ==
    /\ C!Init
    /\ pc = "setUp" /\ i = 1 /\ j = 1
    /\ cnt1 = [t \in Tables |-> <<>>] /\ cnt2 = [t \in Tables |-> <<>>]
    /\ failed = FALSE /\ completed = FALSE
    /\ observed = {}
    /\ summary = "none"

-----------------------------------------------------------------------------
(* Control flow helpers.                                                   *)

\* An exception leaves runTest: unittest goes on with tearDown.
Abort ==
    /\ pc' = "td_entries" /\ i' = 1 /\ j' = 1
    /\ UNCHANGED completed

\* self.result.addFailure(...); self.fail(...)
FailTest == failed' = TRUE /\ Abort

\* self.result.addFailure(...) followed by print: the test goes on.
Record(bad) == failed' = (failed \/ bad)

\* Mutation variant: the inner loop restarts at position 0.
NextPosZeroBased(len) == IF j < len THEN <<i, j + 1>> ELSE <<i + 1, 0>>

\* Positions of the nested loops `for i in tables: for j in index`.
NextPos(len) == IF j < len THEN <<i, j + 1>> ELSE <<i + 1, 1>>

\* Move to the next (i, j) at loopPc, or to nextPc when the outer loop is
\* done.
Step2(outer, len, loopPc, nextPc) ==
    LET n == NextPos(len) IN
    IF n[1] > outer THEN pc' = nextPc /\ i' = 1 /\ j' = 1
                    ELSE pc' = loopPc /\ i' = n[1] /\ j' = n[2]

\* Move along a flat list.
Step1(len, nextPc) ==
    IF j < len THEN pc' = pc /\ i' = i /\ j' = j + 1
               ELSE pc' = nextPc /\ i' = 1 /\ j' = 1

\* The counter the loop at (i, j) addresses.
Ctr == <<CounterTables[i], Index[j]>>

\* The value a get_counter_data call returned, read in the step's state.
ReadValue(c) == IF ret' = "Dict" THEN counters[c] ELSE NoData

-----------------------------------------------------------------------------
(* runTest.                                                                *)

\* gNMI port configuration, then the P4C artifacts for the architecture the
\* config names; any other architecture fails the test.  A refused gNMI set
\* raises ExecuteCMDException out of gnmi_cli_set_and_verify.
SetUpPorts ==
    /\ pc = "setUp"
    /\ \/ FailTest
       \/ "gnmi_set" \in FaultyOps /\ Abort /\ UNCHANGED failed
       \/ /\ ArcType \in {"pna", "psa"}
          /\ pc' = "set_pipe" /\ UNCHANGED <<i, j, failed, completed>>
    /\ UNCHANGED <<clientVars, cnt1, cnt2, observed, summary>>

SetPipe ==
    /\ pc = "set_pipe"
    /\ C!ovs_p4ctl_set_pipe
    /\ IF C!Truthy(ret') THEN pc' = "vms" /\ UNCHANGED <<i, j, failed, completed>>
                         ELSE FailTest
    /\ UNCHANGED <<cnt1, cnt2, observed, summary>>

\* vm_create fails the test.  connectionManager re-raises a failed telnet
\* connection and raises AssertionError on 'Login incorrect'; the results
\* of the VM commands are only printed.
CreateVMs ==
    /\ pc = "vms"
    /\ \/ pc' = "add_entry" /\ UNCHANGED <<i, j, failed, completed>>
       \/ FailTest
       \/ "telnet" \in FaultyOps /\ Abort /\ UNCHANGED failed
    /\ UNCHANGED <<clientVars, cnt1, cnt2, observed, summary>>

AddEntries ==
    /\ pc = "add_entry"
    /\ C!ovs_p4ctl_add_entry(Rules[j].key, Rules[j].action)
    /\ IF C!Truthy(ret') THEN Step1(Len(Rules), "ping") /\ UNCHANGED <<failed, completed>>
                         ELSE FailTest
    /\ UNCHANGED <<cnt1, cnt2, observed, summary>>

\* vm_to_vm_ping_test: the ping packets hit the counter of every flow; a
\* failed ping is recorded and the test goes on; a telnet read that fails
\* returns False, and `... in result` then raises TypeError.
Ping ==
    /\ pc = "ping"
    /\ \/ C!P4CountFlow(CounterIdx) /\ pc' = "table_ids" /\ UNCHANGED failed
       \/ Record(TRUE) /\ pc' = "table_ids" /\ UNCHANGED counters
       \/ "ping" \in FaultyOps /\ Abort /\ UNCHANGED <<failed, counters>>
    /\ UNCHANGED <<members, groups, entries, ret, stdout, lastCall>>
    /\ UNCHANGED <<i, j, cnt1, cnt2, completed, observed, summary>>

\* A failed P4Info read is recorded, and len(False) then raises.
TableIds ==
    /\ pc = "table_ids"
    /\ C!ovs_p4ctl_get_counter_table_and_id
    /\ IF C!Truthy(ret') THEN pc' = "before" /\ UNCHANGED <<i, j, failed, completed>>
                         ELSE FailTest
    /\ UNCHANGED <<cnt1, cnt2, observed, summary>>

\* cnt1[table].append(data) for every (table, index).
ReadBefore ==
    /\ pc = "before"
    /\ C!ovs_p4ctl_get_counter_data(Ctr)
    /\ cnt1' = [cnt1 EXCEPT ![CounterTables[i]] = Append(@, ReadValue(Ctr))]
    /\ Record(ret' # "Dict")
    /\ Step2(Len(CounterTables), Len(Index), "before", "reset")
    /\ UNCHANGED <<cnt2, completed, observed, summary>>

\* reset_counter_entry has no try block: its exception leaves runTest.
ResetEntry ==
    /\ pc = "reset"
    /\ C!ovs_p4ctl_reset_counter_entry(Ctr)
    /\ IF ret' = "Raised" THEN Abort /\ UNCHANGED failed
                          ELSE pc' = "reset_read" /\ UNCHANGED <<i, j, failed, completed>>
    /\ UNCHANGED <<cnt1, cnt2, observed, summary>>
\* get_counter_data after the reset, then the checks of the packets and
\* bytes tables, in code order: the value before the reset must be
\* positive (line 161/174), the PASS message of the bytes table prints
\* cnt1[table][i] with the table position i (line 165), the value after
\* the reset must be 0 (line 167/181).  Indexing a failed read (False) or
\* a list past its end raises.
ResetRead ==
    LET name      == CounterTables[i]
        b1        == cnt1[name][j]
        a2        == ReadValue(Ctr)
        checked   == name \in {BytesTable, PacketsTable}
        printRaises == name = BytesTable /\ (i > Len(cnt1[name]) \/ cnt1[name][i] = NoData)
        raises    == checked /\ (b1 = NoData \/ (b1 > 0 /\ printRaises) \/ a2 = NoData)
        badBefore == checked /\ b1 # NoData /\ b1 <= 0
        badAfter  == checked /\ ~raises /\ a2 > 0
    IN
    /\ pc = "reset_read"
    /\ C!ovs_p4ctl_get_counter_data(Ctr)
    /\ cnt2' = [cnt2 EXCEPT ![name] = Append(@, a2)]
    /\ Record(a2 = NoData \/ badBefore \/ badAfter)
    /\ IF raises THEN Abort
       ELSE Step2(Len(CounterTables), Len(Index), "reset", "close") /\ UNCHANGED completed
    /\ observed' = IF checked /\ ~raises /\ ~badBefore /\ ~badAfter
                   THEN observed \cup {Ctr} ELSE observed
    /\ UNCHANGED <<cnt1, summary>>

\* The telnet sessions are closed and runTest returns.
CloseSessions ==
    /\ pc = "close"
    /\ pc' = "td_entries" /\ completed' = TRUE
    /\ UNCHANGED <<clientVars, i, j, cnt1, cnt2, failed, observed, summary>>

-----------------------------------------------------------------------------
(* tearDown and the runner.                                                *)

\* Each del_action string is passed to del-entry as it is.
TearDownEntries ==
    /\ pc = "td_entries"
    /\ C!ovs_p4ctl_del_entry(DelRules[j])
    /\ Step1(Len(DelRules), "report")
    /\ UNCHANGED <<cnt1, cnt2, failed, completed, observed, summary>>

\* print("Test has PASSED") if self.result.wasSuccessful() else FAILED.
VerdictLine == IF failed THEN "FAILED" ELSE "PASSED"

\* The runner finds the verdict line only if it went to the console.
Report ==
    /\ pc = "report"
    /\ pc' = "done"
    /\ summary' = IF stdout = "console" THEN VerdictLine ELSE "FAILED"
    /\ UNCHANGED <<clientVars, i, j, cnt1, cnt2, failed, completed, observed>>

\* Packets of flow x (still in flight from the pings, or any other traffic
\* the rules forward) count in the packets and the bytes table of x, at
\* any time while a rule is installed.
Traffic(x) ==
    /\ \E k \in MatchKeys : entries[k] # Absent
    /\ C!P4CountFlow({<<t, x>> : t \in Tables})
    /\ UNCHANGED <<ret, stdout, lastCall, testVars>>

Next ==
    \/ SetUpPorts \/ SetPipe \/ CreateVMs \/ AddEntries \/ Ping \/ TableIds
    \/ ReadBefore \/ ResetEntry \/ ResetRead \/ CloseSessions
    \/ TearDownEntries \/ Report
    \/ \E q \in DOMAIN Index : Traffic(Index[q])

Spec == Init /\ [][Next]_vars

-----------------------------------------------------------------------------
(* Properties.                                                             *)

\* When the runner reports the test PASSED, every counter of the packets
\* and bytes tables was seen positive before its reset and 0 after it.
PassImpliesResetObserved ==
    summary = "PASSED" =>
        \A t \in Tables \cap {PacketsTable, BytesTable}, q \in DOMAIN Index :
            <<t, Index[q]>> \in observed
====
