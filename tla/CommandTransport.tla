------------------------- MODULE CommandTransport -------------------------
(***************************************************************************)
(* The Command Transport the specification names as the one interface the *)
(* library needs from a shell (section 6): Execute(command) returns the   *)
(* command's stdout and its exit code.  Seen from the caller, a call       *)
(* yields, in one step, everything the command printed and whether it     *)
(* exited 0; Clear is the caller moving on.  A transport that raises      *)
(* instead of returning yields no result, which the contract allows.      *)
(***************************************************************************)
CONSTANTS
    Commands,   \* what a command can do: [out : its stdout, code : its exit code, err : ...]
    NoResult

VARIABLE result   \* the value of the last Execute, or NoResult

Init == result = NoResult

Execute ==
    \E c \in Commands : result' = [cmd |-> c, out |-> c.out, ok |-> c.code = 0]

Clear == result # NoResult /\ result' = NoResult

Next == Execute \/ Clear

Spec == Init /\ [][Next]_result
====
