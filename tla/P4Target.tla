------------------------------ MODULE P4Target ------------------------------
(***************************************************************************)
(* The forwarding-pipeline control endpoint that ovs-p4ctl talks to: the   *)
(* action-profile members, the action-selector groups, the selector        *)
(* table's entries and the indirect flow counters of one bridge.          *)
(*                                                                         *)
(* The endpoint and the common.lib.ovs_p4ctl module that drives it are     *)
(* not part of the source tree this project reads, so every operation here *)
(* is modelled from the specification (sections 3, 4.2 and 6): an add     *)
(* fails if the id already exists or a referenced entity is absent, a      *)
(* delete fails on an absent entity or one still referenced, a get fails   *)
(* on an absent entity.                                                    *)
(*                                                                         *)
(* Each operation is split into its acceptance condition (XxxOk), which  *)
(* decides whether the ovs_p4ctl call returns normally or raises, and an  *)
(* action that applies the change.  The parameter fault is the command    *)
(* transport between the two:                                             *)
(*   "none"  the call reaches the endpoint and reports its outcome,        *)
(*   "lost"  the call fails before the endpoint applies anything,          *)
(*   "late"  the endpoint applies the change but the caller sees an error  *)
(*           (a transport timeout racing the answer).                      *)
(***************************************************************************)
EXTENDS Naturals, FiniteSets, Sequences

CONSTANTS
    MemberIds,   \* member_id values of the action-profile table
    GroupIds,    \* group_id values of the action-selector table
    MatchKeys,   \* match keys of the selector table (sequences of fields)
    MemberData,  \* the action and action data a member can carry
    MaxSizes,    \* max_size values a group spec can carry
    CounterIdx,  \* (counter_id, index) pairs of the indirect counters
    MaxCount,    \* bound on a counter value
    Absent       \* model value: no entity under this id

ASSUME Absent \notin MemberData \cup GroupIds \cup MemberIds
ASSUME MaxSizes \subseteq Nat /\ MaxCount \in Nat

VARIABLES
    members,     \* member_id -> data, or Absent
    groups,      \* group_id  -> [refs, max], or Absent
    entries,     \* match key -> group_id, member_id or direct action, or Absent
    counters     \* counter index -> packet count

targetVars == <<members, groups, entries, counters>>

GroupData == [refs : SUBSET MemberIds, max : MaxSizes]

Faults == {"none", "lost", "late"}

TargetTypeOK ==
    /\ members \in [MemberIds -> MemberData \cup {Absent}]
    /\ groups \in [GroupIds -> GroupData \cup {Absent}]
    /\ entries \in [MatchKeys -> GroupIds \cup MemberIds \cup MemberData \cup {Absent}]
    /\ counters \in [CounterIdx -> 0..MaxCount]

TargetInit ==
    /\ members = [m \in MemberIds |-> Absent]
    /\ groups = [g \in GroupIds |-> Absent]
    /\ entries = [k \in MatchKeys |-> Absent]
    /\ counters = [c \in CounterIdx |-> 0]

\* A member is referenced by a live group or, in an action-profile table,
\* directly by an entry.
ReferencedMembers ==
    UNION {groups[g].refs : g \in {h \in GroupIds : groups[h] # Absent}}
      \cup {entries[k] : k \in {j \in MatchKeys : entries[j] \in MemberIds}}
ReferencedGroups  == {entries[k] : k \in {j \in MatchKeys : entries[j] \in GroupIds}}

\* What the ovs_p4ctl call reports: it returns normally only when the
\* endpoint accepts the request and the transport delivers the answer.
CallOk(accepts, fault) == accepts /\ fault = "none"
\* The change takes effect unless the transport lost the request.
Applied(accepts, fault) == accepts /\ fault # "lost"

AddMemberOk(m)         == members[m] = Absent
DelMemberOk(m)         == members[m] # Absent /\ m \notin ReferencedMembers
AddGroupOk(g, refs, max) ==
    /\ groups[g] = Absent
    /\ \A m \in refs : members[m] # Absent
    /\ Cardinality(refs) <= max
DelGroupOk(g)          == groups[g] # Absent /\ g \notin ReferencedGroups
\* An entry's action is a selector group, an action-profile member or a
\* direct action with its data.
AddEntryOk(k, g)       ==
    /\ k \in MatchKeys /\ entries[k] = Absent
    /\ g \in GroupIds => groups[g] # Absent
    /\ g \in MemberIds => members[g] # Absent
\* del-entry looks the entry up by the exact match key it is given.
DelEntryOk(k)          == k \in MatchKeys /\ entries[k] # Absent

P4AddMember(m, d, fault) ==
    /\ members' = IF Applied(AddMemberOk(m), fault) THEN [members EXCEPT ![m] = d] ELSE members
    /\ UNCHANGED <<groups, entries, counters>>

P4DelMember(m, fault) ==
    /\ members' = IF Applied(DelMemberOk(m), fault) THEN [members EXCEPT ![m] = Absent] ELSE members
    /\ UNCHANGED <<groups, entries, counters>>

P4AddGroup(g, refs, max, fault) ==
    /\ groups' = IF Applied(AddGroupOk(g, refs, max), fault)
                 THEN [groups EXCEPT ![g] = [refs |-> refs, max |-> max]]
                 ELSE groups
    /\ UNCHANGED <<members, entries, counters>>

P4DelGroup(g, fault) ==
    /\ groups' = IF Applied(DelGroupOk(g), fault) THEN [groups EXCEPT ![g] = Absent] ELSE groups
    /\ UNCHANGED <<members, entries, counters>>

P4AddEntry(k, g, fault) ==
    /\ entries' = IF Applied(AddEntryOk(k, g), fault) THEN [entries EXCEPT ![k] = g] ELSE entries
    /\ UNCHANGED <<members, groups, counters>>

P4DelEntry(k, fault) ==
    /\ entries' = IF Applied(DelEntryOk(k), fault) THEN [entries EXCEPT ![k] = Absent] ELSE entries
    /\ UNCHANGED <<members, groups, counters>>

\* set-pipe installs a new forwarding pipeline; the endpoint drops every
\* entity of the previous one.
P4SetPipe(fault) ==
    IF Applied(TRUE, fault)
    THEN /\ members' = [m \in MemberIds |-> Absent]
         /\ groups' = [g \in GroupIds |-> Absent]
         /\ entries' = [k \in MatchKeys |-> Absent]
         /\ counters' = [c \in CounterIdx |-> 0]
    ELSE UNCHANGED targetVars

P4ResetCounter(c, fault) ==
    /\ counters' = IF Applied(TRUE, fault) THEN [counters EXCEPT ![c] = 0] ELSE counters
    /\ UNCHANGED <<members, groups, entries>>

\* Data-plane traffic (test packets or background noise such as ARP)
\* hitting the counters cs of one flow (its packet and its byte counter);
\* it runs concurrently with the control client.
P4CountFlow(cs) ==
    /\ \A c \in cs : counters[c] < MaxCount
    /\ counters' = [c \in CounterIdx |-> IF c \in cs THEN counters[c] + 1 ELSE counters[c]]
    /\ UNCHANGED <<members, groups, entries>>

P4CountPacket(c) == P4CountFlow({c})

=============================================================================
