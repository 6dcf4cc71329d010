--------------------------- MODULE SelectorClient ---------------------------
(***************************************************************************)
(* The control-plane wrappers of                                           *)
(* ptf_tests/common/utils/ovsp4ctl_utils.py: each wrapper is one action    *)
(* that makes its ovs_p4ctl call(s) against the endpoint of P4Target and   *)
(* sets ret, the value the wrapper returns to the test.                    *)
(*                                                                         *)
(* The wrappers catch the call's exception and return False, return True   *)
(* when the call returns None, and the "_and_verify" / "details" variants  *)
(* read the entity back with a get call and compare the parsed response    *)
(* with the caller's spec string.  Two wrappers differ: reset_counter_entry *)
(* has no try block, so the exception reaches the test ("Raised"), and     *)
(* get_counter_data swaps sys.stdout by hand, so stdout models whether     *)
(* print output still reaches the console.                                 *)
(*                                                                         *)
(* Spec strings are abstracted to their fields: a member spec              *)
(* 'action=A(P),member_id=M' is the pair (M, [action |-> A, port |-> P]);  *)
(* a group spec 'group_id=G ,reference_members=(m1,m2),max_size=S' is      *)
(* (G, <<m1, m2>>, S), keeping the order in which the members are written. *)
(***************************************************************************)
EXTENDS P4Target, SequencesExt

CONSTANTS
    FaultyOps    \* ovs_p4ctl calls whose transport may fail

VARIABLES
    ret,         \* value returned by the last wrapper call
    stdout,      \* "console" or "captured": where print() output goes
    lastCall     \* history: the last wrapper call and its transport fault

vars == <<members, groups, entries, counters, ret, stdout, lastCall>>

Returns == {"True", "False", "None", "Dict", "Raised"}

\* What `if not result:` in the tests sees.
Truthy(r) == r \in {"True", "Dict"}

FaultsOf(op) == IF op \in FaultyOps THEN Faults ELSE {"none"}

\* Orders in which a group's reference_members can be written.
RefSeqs == UNION {SetToSeqs(S) : S \in (SUBSET MemberIds) \ {{}}}

Call(op, id, arg, f) == [op |-> op, id |-> id, arg |-> arg, fault |-> f]

\* try: out = call(); if out == None: return True / except: return False
Wrapped(ok) == IF ok THEN "True" ELSE "False"

TypeOK ==
    /\ TargetTypeOK
    /\ ret \in Returns
    /\ stdout \in {"console", "captured"}

Init ==
    /\ TargetInit
    /\ ret = "None"
    /\ stdout = "console"
    /\ lastCall = Call("none", Absent, Absent, "none")

-----------------------------------------------------------------------------
(* Readback comparisons of the _and_verify wrappers.                       *)

\* Mutation variant: the action data is not compared.
MemberMatchesActionOnly(echo, d) == echo.action = d.action

\* (tbl_name == action_profiles) and (action == actions) and
\* (' '.join(action_data) == dst_port); the table is the one queried.
MemberMatches(echo, d) == echo.action = d.action /\ echo.port = d.port

\* Mutation variant: max_size is not compared.
GroupMatchesRefsOnly(echo, refs, max, stored) == echo = refs

\* (members == reference_members) and (max_size == max_size): both are
\* compared as the strings the endpoint prints, so the members must be
\* echoed in the order the spec wrote them.
GroupMatches(echo, refs, max, stored) == echo = refs /\ stored.max = max

-----------------------------------------------------------------------------
(* The wrappers.                                                           *)

ovs_p4ctl_set_pipe ==
    \E f \in FaultsOf("set_pipe") :
        /\ P4SetPipe(f)
        /\ ret' = Wrapped(CallOk(TRUE, f))
        /\ lastCall' = Call("set_pipe", Absent, Absent, f)
        /\ UNCHANGED stdout

ovs_p4ctl_add_entry(k, g) ==
    \E f \in FaultsOf("add_entry") :
        /\ P4AddEntry(k, g, f)
        /\ ret' = Wrapped(CallOk(AddEntryOk(k, g), f))
        /\ lastCall' = Call("add_entry", k, g, f)
        /\ UNCHANGED stdout

ovs_p4ctl_del_entry(k) ==
    \E f \in FaultsOf("del_entry") :
        /\ P4DelEntry(k, f)
        /\ ret' = Wrapped(CallOk(DelEntryOk(k), f))
        /\ lastCall' = Call("del_entry", k, Absent, f)
        /\ UNCHANGED stdout

ovs_p4ctl_add_member(m, d) ==
    \E f \in FaultsOf("add_member") :
        /\ P4AddMember(m, d, f)
        /\ ret' = Wrapped(CallOk(AddMemberOk(m), f))
        /\ lastCall' = Call("add_member", m, d, f)
        /\ UNCHANGED stdout

\* add, then get-member and compare; an exception of either call returns
\* False, and the add's failure skips the readback.
ovs_p4ctl_add_member_and_verify(m, d) ==
    \E f \in FaultsOf("add_member"), fg \in FaultsOf("get_member") :
        /\ P4AddMember(m, d, f)
        /\ ret' = IF ~CallOk(AddMemberOk(m), f) THEN "False"
                  ELSE IF ~CallOk(members'[m] # Absent, fg) THEN "False"
                  ELSE Wrapped(MemberMatches(members'[m], d))
        /\ lastCall' = Call("add_member_and_verify", m, d, fg)
        /\ UNCHANGED stdout

\* Without details the parsed dict is returned; with details it is
\* compared first.  A failed get raises and returns False.
ovs_p4ctl_get_member(m, d) ==
    \E fg \in FaultsOf("get_member") :
        /\ ret' = IF ~CallOk(members[m] # Absent, fg) THEN "False"
                  ELSE IF d = Absent \/ MemberMatches(members[m], d) THEN "Dict"
                  ELSE "False"
        /\ lastCall' = Call("get_member", m, d, fg)
        /\ UNCHANGED <<members, groups, entries, counters, stdout>>

ovs_p4ctl_del_member(m) ==
    \E f \in FaultsOf("del_member") :
        /\ P4DelMember(m, f)
        /\ ret' = Wrapped(CallOk(DelMemberOk(m), f))
        /\ lastCall' = Call("del_member", m, Absent, f)
        /\ UNCHANGED stdout

ovs_p4ctl_add_group(g, refs, max) ==
    \E f \in FaultsOf("add_group") :
        /\ P4AddGroup(g, ToSet(refs), max, f)
        /\ ret' = Wrapped(CallOk(AddGroupOk(g, ToSet(refs), max), f))
        /\ lastCall' = Call("add_group", g, <<refs, max>>, f)
        /\ UNCHANGED stdout

\* The endpoint prints reference_members in an order of its own.
ovs_p4ctl_add_group_and_verify(g, refs, max) ==
    \E f \in FaultsOf("add_group"), fg \in FaultsOf("get_group") :
        /\ P4AddGroup(g, ToSet(refs), max, f)
        /\ IF ~CallOk(AddGroupOk(g, ToSet(refs), max), f)
              \/ ~CallOk(groups'[g] # Absent, fg)
           THEN ret' = "False"
           ELSE \E echo \in SetToSeqs(groups'[g].refs) :
                    ret' = Wrapped(GroupMatches(echo, refs, max, groups'[g]))
        /\ lastCall' = Call("add_group_and_verify", g, <<refs, max>>, fg)
        /\ UNCHANGED stdout

ovs_p4ctl_del_group(g) ==
    \E f \in FaultsOf("del_group") :
        /\ P4DelGroup(g, f)
        /\ ret' = Wrapped(CallOk(DelGroupOk(g), f))
        /\ lastCall' = Call("del_group", g, Absent, f)
        /\ UNCHANGED stdout

\* details = Absent stands for group_details=None.
ovs_p4ctl_get_group(g, details) ==
    \E fg \in FaultsOf("get_group") :
        /\ IF ~CallOk(groups[g] # Absent, fg) THEN ret' = "False"
           ELSE IF details = Absent THEN ret' = "Dict"
           ELSE \E echo \in SetToSeqs(groups[g].refs) :
                    ret' = IF GroupMatches(echo, details[1], details[2], groups[g])
                           THEN "Dict" ELSE "False"
        /\ lastCall' = Call("get_group", g, details, fg)
        /\ UNCHANGED <<members, groups, entries, counters, stdout>>

\* sys.stdout is swapped by hand and restored only after the call returns
\* normally; when the call raises, the except branch prints into the
\* capture buffer and stdout is never restored.
ovs_p4ctl_get_counter_data(c) ==
    \E fg \in FaultsOf("get_counter") :
        /\ ret' = IF CallOk(TRUE, fg) THEN "Dict" ELSE "False"
        /\ stdout' = IF CallOk(TRUE, fg) THEN stdout ELSE "captured"
        /\ lastCall' = Call("get_counter_data", c, Absent, fg)
        /\ UNCHANGED <<members, groups, entries, counters>>

\* No try block: the exception reaches the caller.
ovs_p4ctl_reset_counter_entry(c) ==
    \E f \in FaultsOf("reset_counter") :
        /\ P4ResetCounter(c, f)
        /\ ret' = IF CallOk(TRUE, f) THEN "None" ELSE "Raised"
        /\ lastCall' = Call("reset_counter_entry", c, Absent, f)
        /\ UNCHANGED stdout

\* Reads the counter list from P4Info; a failure returns False.
ovs_p4ctl_get_counter_table_and_id ==
    \E fg \in FaultsOf("get_p4info") :
        /\ ret' = IF CallOk(TRUE, fg) THEN "Dict" ELSE "False"
        /\ lastCall' = Call("get_counter_table_and_id", Absent, Absent, fg)
        /\ UNCHANGED <<members, groups, entries, counters, stdout>>

-----------------------------------------------------------------------------
(* Any sequence of wrapper calls, with data-plane packets in between.      *)

Next ==
    \/ ovs_p4ctl_set_pipe
    \/ ovs_p4ctl_get_counter_table_and_id
    \/ \E m \in MemberIds, d \in MemberData :
           ovs_p4ctl_add_member(m, d) \/ ovs_p4ctl_add_member_and_verify(m, d)
    \/ \E m \in MemberIds, d \in MemberData \cup {Absent} : ovs_p4ctl_get_member(m, d)
    \/ \E m \in MemberIds : ovs_p4ctl_del_member(m)
    \/ \E g \in GroupIds, refs \in RefSeqs, max \in MaxSizes :
           ovs_p4ctl_add_group(g, refs, max) \/ ovs_p4ctl_add_group_and_verify(g, refs, max)
    \/ \E g \in GroupIds, details \in (RefSeqs \X MaxSizes) \cup {Absent} :
           ovs_p4ctl_get_group(g, details)
    \/ \E g \in GroupIds : ovs_p4ctl_del_group(g)
    \/ \E k \in MatchKeys, g \in GroupIds : ovs_p4ctl_add_entry(k, g)
    \/ \E k \in MatchKeys : ovs_p4ctl_del_entry(k)
    \/ \E c \in CounterIdx :
           \/ ovs_p4ctl_get_counter_data(c)
           \/ ovs_p4ctl_reset_counter_entry(c)
           \/ P4CountPacket(c) /\ UNCHANGED <<ret, stdout, lastCall>>

Spec == Init /\ [][Next]_vars

-----------------------------------------------------------------------------
(* Properties.                                                             *)

\* A get_member with member_details that reaches the endpoint reports a
\* match exactly when the endpoint holds that member with that action and
\* action data: the comparison (shared with add_member_and_verify) neither
\* accepts a member whose data differs, e.g. one left under the same
\* member_id by an earlier add, nor rejects the configured one.
MemberReadbackExact ==
    [][ /\ lastCall'.op = "get_member"
        /\ lastCall'.arg # Absent
        /\ lastCall'.fault = "none"
        => (Truthy(ret') <=> members'[lastCall'.id] = lastCall'.arg) ]_vars

\* A group readback that reports a match (add_group_and_verify returning
\* True, get_group with group_details returning the dict) is never wrong:
\* the endpoint holds that group with exactly the configured members and
\* max_size.
GroupReadbackSound ==
    [][ /\ lastCall'.op \in {"get_group", "add_group_and_verify"}
        /\ lastCall'.arg # Absent
        /\ Truthy(ret')
        => groups'[lastCall'.id] = [refs |-> ToSet(lastCall'.arg[1]),
                                    max |-> lastCall'.arg[2]] ]_vars

\* Every wrapper leaves print() output going to the console, so the
\* "Test has PASSED/FAILED" line that tearDown prints reaches the log the
\* test runner scans (get_counter_data swaps sys.stdout by hand).
StdoutRestored == stdout = "console"
=============================================================================
