------------------------------- MODULE VmPing -------------------------------
(***************************************************************************)
(* The VM ping helpers of ptf_tests/common/utils/test_utils.py over the    *)
(* telnet console of common/lib/telnet_connection.py.                     *)
(*                                                                         *)
(* A helper sends a dummy ping and reads the console, then sends the ping  *)
(* it judges and reads again.  readResult waits for b"\n*" with a timeout  *)
(* and returns whatever arrived: a ping that has not finished by then      *)
(* delivers its summary line to a later read.  The VM's shell runs the     *)
(* typed commands one after the other; Complete is the shell finishing the *)
(* oldest one, and may happen before or after any read.                    *)
(*                                                                         *)
(* A ping's output is abstracted to its summary line                       *)
(* "<count> packets transmitted, <received> received, <loss>% packet loss" *)
(* as a record [cmd, loss]; the per-packet lines carry no summary and are  *)
(* left out.  NoResult is the False a failed read returns.                 *)
(*                                                                         *)
(* A test calls the helpers one after the other on the same connection    *)
(* (lnt_ctrl_vhost_port_flap.py: a drop test with the port down, then a   *)
(* ping test with it up); NextCall is the next such call, so output a     *)
(* previous call left unread is still in the console.                     *)
(***************************************************************************)
EXTENDS Naturals, Sequences

CONSTANTS
    Count,      \* the ping count of the helpers' `count` argument
    Losses,     \* packet loss percentages a ping can end with
    Faults,     \* console faults the run allows: "send", "read"
    NoResult,   \* model value: the False of a failed readResult
    MaxCalls,   \* helper calls a test makes on one connection
    Running     \* model value: the judged ping has not finished yet

ASSUME /\ Count \in Nat \ {0} /\ MaxCalls \in Nat \ {0}
       /\ Losses \subseteq 0..100 /\ {0, 100} \subseteq Losses

Helpers == {"vm_to_vm_ping_test", "vm_ping_less_than_100_loss", "vm_to_vm_ping_drop_test"}
Cmds    == [call : 1..MaxCalls, kind : {"dummy", "ping"}]
\* A summary line, tagged with the command it came from: the tag is for the
\* properties; the helpers only see the loss.
Output  == [cmd : Cmds, loss : Losses]

VARIABLES
    call,       \* the number of the current helper call
    helper,     \* the helper the current call runs
    reachable,  \* whether the destination answers: fixed during a helper call
    issued,     \* commands typed into the console that the shell has not finished
    buffer,     \* output that arrived and no read has taken yet
    pc,         \* the step of the helper
    result,     \* what the helper's own read returned
    verdict,    \* what the helper returned, or "none"
    pingLoss    \* history: loss of the current call's judged ping once it
                \* finished, or Running

vars == <<call, helper, reachable, issued, buffer, pc, result, verdict, pingLoss>>

TypeOK ==
    /\ call \in 1..MaxCalls /\ helper \in Helpers /\ reachable \in BOOLEAN
    /\ issued \in Seq(Cmds) /\ buffer \in Seq(Output)
    /\ pc \in {"dummy_send", "dummy_read", "send", "read", "decide", "done"}
    /\ result \in Seq(Output) \cup {NoResult}
    /\ verdict \in {"none", "True", "False", "None", "Raised"}
    /\ pingLoss \in Losses \cup {Running}

Init ==
    /\ call = 1 /\ helper \in Helpers /\ reachable \in BOOLEAN
    /\ issued = <<>> /\ buffer = <<>>
    /\ pc = "dummy_send"
    /\ result = <<>> /\ verdict = "none" /\ pingLoss = Running

-----------------------------------------------------------------------------
(* Summary lines.                                                          *)

\* Packets received for a loss percentage.
Received(loss) == (Count * (100 - loss)) \div 100

\* `s in result` for s = f"{count} received, {loss}% packet loss".
HasSummary(res, loss) ==
    \E q \in DOMAIN res : Received(res[q].loss) = Count /\ res[q].loss = loss

\* pkt_loss = 100; if result: match = re.search('(\d*)% packet loss',
\* result); the first summary line in the text wins.
PktLoss(res) == IF res = NoResult \/ res = <<>> THEN 100 ELSE res[1].loss

-----------------------------------------------------------------------------
(* The console.                                                            *)

\* sendCmd: tn.write of the command; an exception is printed and False
\* returned, which no helper looks at.
SendCmd(c) ==
    \/ issued' = Append(issued, c)
    \/ "send" \in Faults /\ UNCHANGED issued

\* readResult: tn.read_until(b"\n*", timeout) returns what arrived; an
\* exception returns False and leaves the output unread.
ReadResult(res) ==
    \/ res = buffer /\ buffer' = <<>>
    \/ "read" \in Faults /\ res = NoResult /\ UNCHANGED buffer

\* The ping the current call judges.
Judged == [call |-> call, kind |-> "ping"]

\* The VM's shell finishes the oldest typed command; a ping ends with a
\* summary whose loss depends on whether the destination answers (a
\* reachable one may still lose packets while ARP is learnt).
Complete ==
    /\ issued # <<>>
    /\ \E loss \in Losses :
           /\ reachable <=> loss < 100
           /\ buffer' = Append(buffer, [cmd |-> Head(issued), loss |-> loss])
           /\ pingLoss' = IF Head(issued) = Judged THEN loss ELSE pingLoss
    /\ issued' = Tail(issued)
    /\ UNCHANGED <<call, helper, reachable, pc, result, verdict>>

-----------------------------------------------------------------------------
(* The helpers.                                                            *)

\* dummy_ping: send the command and throw the read away.
DummySend ==
    /\ pc = "dummy_send" /\ pc' = "dummy_read"
    /\ SendCmd([call |-> call, kind |-> "dummy"])
    /\ UNCHANGED <<call, helper, reachable, buffer, result, verdict, pingLoss>>

DummyRead ==
    /\ pc = "dummy_read" /\ pc' = "send"
    /\ \E res \in {buffer, NoResult} : ReadResult(res)
    /\ UNCHANGED <<call, helper, reachable, issued, result, verdict, pingLoss>>

PingSend ==
    /\ pc = "send" /\ pc' = "read"
    /\ SendCmd(Judged)
    /\ UNCHANGED <<call, helper, reachable, buffer, result, verdict, pingLoss>>

PingRead ==
    /\ pc = "read" /\ pc' = "decide"
    /\ \E res \in {buffer, NoResult} : ReadResult(res) /\ result' = res
    /\ UNCHANGED <<call, helper, reachable, issued, verdict, pingLoss>>

\* vm_to_vm_ping_test: `in result` raises TypeError when result is False.
PingTestVerdict(res) ==
    IF res = NoResult THEN "Raised"
    ELSE IF HasSummary(res, 0) THEN "True" ELSE "False"

\* vm_ping_less_than_100_loss: falls off its end (None) when the loss is
\* below 100 but the summary string does not match.
LessThan100Verdict(res) ==
    IF PktLoss(res) < 100
    THEN IF HasSummary(res, PktLoss(res)) THEN "True" ELSE "None"
    ELSE "False"

\* vm_to_vm_ping_drop_test
DropTestVerdict(res) == IF PktLoss(res) = 100 THEN "True" ELSE "False"

Decide ==
    /\ pc = "decide" /\ pc' = "done"
    /\ verdict' = CASE helper = "vm_to_vm_ping_test"         -> PingTestVerdict(result)
                    [] helper = "vm_ping_less_than_100_loss" -> LessThan100Verdict(result)
                    [] helper = "vm_to_vm_ping_drop_test"    -> DropTestVerdict(result)
    /\ UNCHANGED <<call, helper, reachable, issued, buffer, result, pingLoss>>

\* The test calls the next helper on the same connection, after it changed
\* what is reachable (a port brought down or up).
NextCall ==
    /\ pc = "done" /\ call < MaxCalls
    /\ call' = call + 1
    /\ helper' \in Helpers /\ reachable' \in BOOLEAN
    /\ pc' = "dummy_send"
    /\ result' = <<>> /\ verdict' = "none" /\ pingLoss' = Running
    /\ UNCHANGED <<issued, buffer>>

Next ==
    \/ DummySend \/ DummyRead \/ PingSend \/ PingRead \/ Decide \/ NextCall
    \/ Complete

Spec == Init /\ [][Next]_vars

-----------------------------------------------------------------------------
(* Properties.  A call's verdict is judged against its own ping.           *)

\* vm_to_vm_ping_drop_test ("to test if ping to a destination is getting
\* failed, i.e. 100% drop expected") returns True only if the ping it sent
\* was dropped: once that ping has finished, a True verdict means its loss
\* was 100.
DropVerdictSound ==
    (helper = "vm_to_vm_ping_drop_test" /\ verdict = "True" /\ pingLoss # Running)
        => pingLoss = 100
====
