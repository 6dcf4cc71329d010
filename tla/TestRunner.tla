----------------------------- MODULE TestRunner -----------------------------
(***************************************************************************)
(* ptf_tests/p4ovs_test_runner.py: the runner of a suite file.  It copies  *)
(* the suite file to <file>.bkp, rewrites the placeholders VM<k>, BDF<k>,  *)
(* PORT<k> and CLIENT in place with the values given on the command line   *)
(* (one replaceAll pass over the file per placeholder, in the order of the *)
(* code), parses "name:params" lines, launches ptf once per listed test,   *)
(* prints a summary and finally moves the backup back over the file.      *)
(*                                                                         *)
(* A line of the file is a sequence of symbols: a test name, ":", " ",     *)
(* "#", a placeholder kind ("VM", "BDF", "PORT", "CLIENT"), a decimal      *)
(* digit "0".."9", or a value.  Python's str.replace is the substring      *)
(* replacement ReplaceAll below, over these symbols.  The process may be   *)
(* killed at any point (Crash); the file system keeps what it had.         *)
(***************************************************************************)
EXTENDS Integers, Sequences

CONSTANTS
    Orig,        \* the suite file as its author wrote it
    ArgChoices,  \* the command lines a run may be started with
    Outputs,     \* verdict lines a ptf run may print after its preamble
    Undecodable, \* a ptf output that is not valid utf-8
    NoFile,      \* no <file>.bkp on disk
    NoArg,       \* --client_cred not given
    MaxRuns      \* bound on the runs started, crashed ones included

Kinds == {"VM", "BDF", "PORT"}
DigitChar == <<"0", "1", "2", "3", "4", "5", "6", "7", "8", "9">>

\* str(k) as a sequence of digit symbols
RECURSIVE Digits(_)
Digits(k) == IF k < 10 THEN <<DigitChar[k + 1]>>
             ELSE Digits(k \div 10) \o <<DigitChar[(k % 10) + 1]>>

\* kind + str(k + 1) for the k-th (0-based) value of a comma separated list
Placeholder(kind, k) == <<kind>> \o Digits(k)

\* test_params for one list: VM1 .. VMn in insertion order
ListSubs(kind, vals) == [i \in 1..Len(vals) |-> <<Placeholder(kind, i), <<vals[i]>> >>]

\* every replaceAll call of a run, in the order the code makes them
Substitutions(a) ==
    ListSubs("VM", a.vm) \o ListSubs("BDF", a.bdf) \o ListSubs("PORT", a.port)
    \o (IF a.client = NoArg THEN <<>> ELSE << <<<<"CLIENT">>, <<a.client>> >> >>)

\* line.replace(searchExp, replaceExp): non-overlapping, left to right
RECURSIVE ReplaceAll(_, _, _)
ReplaceAll(s, pat, rep) ==
    IF Len(s) < Len(pat) THEN s
    ELSE IF SubSeq(s, 1, Len(pat)) = pat
         THEN rep \o ReplaceAll(SubSeq(s, Len(pat) + 1, Len(s)), pat, rep)
         ELSE <<Head(s)>> \o ReplaceAll(Tail(s), pat, rep)

\* str.strip() of the space symbol
RECURSIVE StripL(_)
StripL(s) == IF s # <<>> /\ Head(s) = " " THEN StripL(Tail(s)) ELSE s
RECURSIVE StripR(_)
StripR(s) == IF s # <<>> /\ s[Len(s)] = " " THEN StripR(SubSeq(s, 1, Len(s) - 1)) ELSE s
Strip(s) == StripR(StripL(s))

\* position of the first ":" of a line, Len + 1 if none
Colon(s) == IF \E i \in 1..Len(s) : s[i] = ":"
            THEN CHOOSE i \in 1..Len(s) : s[i] = ":" /\ \A j \in 1..i - 1 : s[j] # ":"
            ELSE Len(s) + 1

\* the lines the parse loop keeps: not blank, not starting with "#"
Kept(f) == SelectSeq(f, LAMBDA l : Strip(l) # <<>> /\ Head(l) # "#")

\* items[0] and ':'.join(items[1:]) of i.strip().split(":")
NameOf(l) == SubSeq(Strip(l), 1, Colon(Strip(l)) - 1)
ParamsOf(l) == Strip(SubSeq(Strip(l), Colon(Strip(l)) + 1, Len(Strip(l))))

VARIABLES
    file,      \* the suite file on disk
    bkp,       \* <file>.bkp on disk
    pc,        \* where the runner process is; "idle" when none runs
    args,      \* the command line of the current run
    k,         \* next replaceAll call of the current run
    sequence,  \* test_to_run['sequence']: unstripped names, in file order
    table,     \* test_to_run without 'sequence': stripped name -> params
    i,         \* next entry of sequence to launch
    results,   \* results: name -> verdict lines of its output
    launched,  \* history: <<name, params>> of each ptf launch of this run
    summary,   \* the printed summary, <<>> until printed
    runs       \* runs started

vars == <<file, bkp, pc, args, k, sequence, table, i, results, launched, summary, runs>>

Init ==
    /\ file = Orig /\ bkp = NoFile /\ pc = "idle"
    /\ args = CHOOSE a \in ArgChoices : TRUE
    /\ k = 1 /\ sequence = <<>> /\ table = <<>> /\ i = 1
    /\ results = <<>> /\ launched = <<>> /\ summary = <<>> /\ runs = 0

\* argument parsing, then cp <file> <file>.bkp
Start ==
    /\ pc = "idle" /\ runs < MaxRuns
    /\ \E a \in ArgChoices : args' = a
    /\ bkp' = file
    /\ pc' = "subst" /\ k' = 1 /\ runs' = runs + 1
    /\ sequence' = <<>> /\ table' = <<>> /\ i' = 1
    /\ results' = <<>> /\ launched' = <<>> /\ summary' = <<>>
    /\ UNCHANGED file

\* one replaceAll(args.file, searchExp, replaceExp) over the whole file
Substitute ==
    /\ pc = "subst" /\ k <= Len(Substitutions(args))
    /\ LET sub == Substitutions(args)[k]
       IN file' = [n \in DOMAIN file |-> ReplaceAll(file[n], sub[1], sub[2])]
    /\ k' = k + 1
    /\ UNCHANGED <<bkp, pc, args, sequence, table, i, results, launched, summary, runs>>

\* `ptf --help`: go on to parsing, or sys.exit() whose finally restores
CheckPtf ==
    /\ pc = "subst" /\ k > Len(Substitutions(args))
    /\ \E installed \in BOOLEAN : pc' = IF installed THEN "parse" ELSE "restore"
    /\ UNCHANGED <<file, bkp, args, k, sequence, table, i, results, launched, summary, runs>>

\* the with open(args.file) loop: later lines of a name overwrite earlier ones
Parse ==
    /\ pc = "parse"
    /\ LET ks == Kept(file)
           names == {Strip(NameOf(ks[n])) : n \in DOMAIN ks}
           last(nm) == CHOOSE n \in DOMAIN ks :
                         Strip(NameOf(ks[n])) = nm
                         /\ \A m \in n + 1..Len(ks) : Strip(NameOf(ks[m])) # nm
       IN /\ sequence' = [n \in DOMAIN ks |-> NameOf(ks[n])]
          /\ table' = [nm \in names |-> ParamsOf(ks[last(nm)])]
    /\ pc' = "run" /\ i' = 1
    /\ UNCHANGED <<file, bkp, args, k, results, launched, summary, runs>>

\* one iteration of the launch loop: test_to_run[test] raises KeyError for
\* a name written with spaces before ":" (the except branch, then finally)
Launch ==
    /\ pc = "run" /\ i <= Len(sequence)
    /\ LET test == sequence[i] IN
       IF test \notin DOMAIN table
       THEN /\ pc' = "restore"
            /\ UNCHANGED <<i, results, launched>>
       ELSE /\ \E out \in Outputs \cup {Undecodable} :
                 results' = [nm \in DOMAIN results \cup {test} |->
                               IF nm = test
                               THEN IF out = Undecodable THEN <<"FAILED">> ELSE out
                               ELSE results[nm]]
            /\ launched' = Append(launched, <<Strip(test), table[test]>>)
            /\ i' = i + 1
            /\ UNCHANGED pc
    /\ UNCHANGED <<file, bkp, args, k, sequence, table, summary, runs>>

\* the summary loop: every "Test has X" line is an entry, none gives FAILED
Report ==
    /\ pc = "run" /\ i > Len(sequence)
    /\ summary' = [n \in 1..Len(sequence) |->
                     LET v == results[sequence[n]]
                     IN IF v = <<>> THEN <<"FAILED">> ELSE v]
    /\ pc' = "restore"
    /\ UNCHANGED <<file, bkp, args, k, sequence, table, i, results, launched, runs>>

\* finally: mv <file>.bkp <file>
Restore ==
    /\ pc = "restore"
    /\ file' = bkp /\ bkp' = NoFile /\ pc' = "idle"
    /\ UNCHANGED <<args, k, sequence, table, i, results, launched, summary, runs>>

\* the runner is killed (SIGKILL, a closed CI job): no finally runs
Crash ==
    /\ pc # "idle"
    /\ pc' = "idle"
    /\ UNCHANGED <<file, bkp, args, k, sequence, table, i, results, launched, summary, runs>>

Next == Start \/ Substitute \/ CheckPtf \/ Parse \/ Launch \/ Report \/ Restore \/ Crash

Spec == Init /\ [][Next]_vars

-----------------------------------------------------------------------------
(* What the suite-file format promises: each placeholder token, a kind     *)
(* and all the digits after it, stands for the value at that position of  *)
(* its list, and each line of the file is one ptf run of that test with   *)
(* those parameters.                                                       *)

\* the digits at the start of s
RECURSIVE DigitRun(_)
DigitRun(s) == IF s # <<>> /\ \E d \in 1..10 : Head(s) = DigitChar[d]
               THEN <<Head(s)>> \o DigitRun(Tail(s)) ELSE <<>>

Binding(a) == LET subs == Substitutions(a)
              IN [t \in {subs[n][1] : n \in DOMAIN subs} |->
                    subs[CHOOSE n \in DOMAIN subs : subs[n][1] = t][2]]

\* whole-token substitution of a line
RECURSIVE Tokenwise(_, _)
Tokenwise(s, a) ==
    IF s = <<>> THEN <<>>
    ELSE LET tok == IF Head(s) \in Kinds THEN <<Head(s)>> \o DigitRun(Tail(s))
                    ELSE <<Head(s)>>
             rest == SubSeq(s, Len(tok) + 1, Len(s))
         IN IF tok \in DOMAIN Binding(a)
            THEN Binding(a)[tok] \o Tokenwise(rest, a)
            ELSE tok \o Tokenwise(rest, a)

Intended(a) == LET ks == Kept([n \in DOMAIN Orig |-> Tokenwise(Orig[n], a)])
               IN [n \in DOMAIN ks |-> <<Strip(NameOf(ks[n])), ParamsOf(ks[n])>>]

\* Every ptf launch of a run is the test of the suite line at that position,
\* with that line's parameters and the values of this run's command line
\* (the replaceAll passes, the backup/restore pair and the parse loop of
\* p4ovs_test_runner.py together).
ParamsAsGiven ==
    \A n \in DOMAIN launched :
        n <= Len(Intended(args)) /\ launched[n] = Intended(args)[n]

=============================================================================
