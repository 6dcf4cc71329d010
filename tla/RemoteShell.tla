---------------------------- MODULE RemoteShell ----------------------------
(***************************************************************************)
(* The two connections of common/lib through which every utility runs its *)
(* commands, and how a command's output and status come back through them:*)
(*   Ssh   (ssh.py): a paramiko session; execute_command polls the channel *)
(*         until the exit status is ready, reading what is buffered, then *)
(*         reads stderr and derives the return code from it;              *)
(*   Local (local_connection.py): bash run to its end by communicate().   *)
(* On an SSH session the remote command is a second actor: it writes its  *)
(* stdout into the channel, at most Window chunks ahead of the reader, and *)
(* then exits.  The actions of this module are operators the caller       *)
(* (HostConfig) takes together with its own step.                         *)
(***************************************************************************)
EXTENDS Integers, Sequences

CONSTANT Window   \* chunks the channel buffers before the remote writer waits

VARIABLES
    conn,     \* the connection object: "none", "local", "ssh", "ssh_down" (an
              \* SSHClient that never got a transport), "closed"
    sh,       \* execute_command: "idle", "loop", "stderr", "done", "unbound"
              \* (UnboundLocalError)
    cmd,      \* what the running command does: [out, code, err]
    written,  \* chunks of cmd.out the remote command has written
    chan,     \* chunks on the channel the reader has not taken yet
    exited,   \* the exit status has arrived
    buf,      \* self.string_buffer
    ret       \* what execute_command returned: [out, rc, err]

shellVars == <<conn, sh, cmd, written, chan, exited, buf, ret>>

ShellInit ==
    /\ conn = "none"
    /\ sh = "idle"
    /\ cmd = [out |-> <<>>, code |-> 0, err |-> FALSE]
    /\ written = 0
    /\ chan = <<>>
    /\ exited = FALSE
    /\ buf = <<>>
    /\ ret = [out |-> <<>>, rc |-> 0, err |-> FALSE]

\* Ssh(...) then setup_ssh_connection().  ssh_client is assigned before
\* connect(), so a connect that fails (bad host key, authentication, SSH
\* error, or a socket error caught as socket.error: printed, None returned)
\* leaves a client with no transport.
setup_ssh_connection(outcome) ==
    /\ conn' = IF outcome = "ok" THEN "ssh" ELSE "ssh_down"
    /\ sh' = "idle"
    /\ UNCHANGED <<cmd, written, chan, exited, buf, ret>>

\* Local(): nothing is opened.
LocalConnect ==
    /\ conn' = "local"
    /\ sh' = "idle"
    /\ UNCHANGED <<cmd, written, chan, exited, buf, ret>>

\* Ssh.execute_command up to its read loop, for a command that will behave
\* as c.  exec_command on a client without a transport raises AttributeError,
\* which is printed; the loop then reads the unbound `stdout` and raises
\* UnboundLocalError.
SshExec(c) ==
    /\ conn \in {"ssh", "ssh_down"}
    /\ IF conn = "ssh"
       THEN /\ sh' = "loop"
            /\ cmd' = c
            /\ written' = 0
            /\ chan' = <<>>
            /\ exited' = FALSE
            /\ buf' = <<>>
       ELSE /\ sh' = "unbound"
            /\ UNCHANGED <<cmd, written, chan, exited, buf>>
    /\ UNCHANGED <<conn, ret>>

\* Local.execute_command: communicate() returns once bash has exited, with
\* all of stdout; stderr is not piped, so err is None.
LocalExec(c) ==
    /\ conn = "local"
    /\ sh' = "done"
    /\ cmd' = c
    /\ ret' = [out |-> c.out, rc |-> c.code, err |-> FALSE]
    /\ UNCHANGED <<conn, written, chan, exited, buf>>

\* The remote command (sshd and the process behind it, not code of this
\* repository) writes its next chunk of stdout.
RemoteWrite ==
    /\ sh = "loop"
    /\ written < Len(cmd.out)
    /\ Len(chan) < Window
    /\ chan' = Append(chan, cmd.out[written + 1])
    /\ written' = written + 1
    /\ UNCHANGED <<conn, sh, cmd, exited, buf, ret>>

\* The remote command has written everything and its exit status arrives.
\* ssh.py:105 notes that a bad server may never send it.
RemoteExit ==
    /\ sh = "loop"
    /\ written = Len(cmd.out)
    /\ ~exited
    /\ exited' = TRUE
    /\ UNCHANGED <<conn, sh, cmd, written, chan, buf, ret>>

\* One pass of `while not stdout.channel.exit_status_ready()`: once the
\* exit status is in, the loop ends, whatever is still on the channel;
\* before, whatever is buffered is read (one recv of NBYTES takes it all).
ReadLoop ==
    /\ sh = "loop"
    /\ \/ /\ exited
          /\ sh' = "stderr"
          /\ UNCHANGED <<chan, buf>>
       \/ /\ ~exited
          /\ chan # <<>>
          /\ buf' = buf \o chan
          /\ chan' = <<>>
          /\ UNCHANGED sh
    /\ UNCHANGED <<conn, cmd, written, exited, ret>>

\* stderr.read(), then the return code: 0 when stderr is empty, -1 when not,
\* whatever the exit status was.
ReadStderr ==
    /\ sh = "stderr"
    /\ sh' = "done"
    /\ ret' = [out |-> buf, rc |-> IF cmd.err THEN -1 ELSE 0, err |-> cmd.err]
    /\ UNCHANGED <<conn, cmd, written, chan, exited, buf>>

\* The steps of a running command, remote side and reader side.
ShellStep == RemoteWrite \/ RemoteExit \/ ReadLoop \/ ReadStderr

\* Ssh.tear_down closes the client; Local.tear_down does nothing.
tear_down ==
    /\ conn' = IF conn = "local" THEN "local" ELSE "closed"
    /\ UNCHANGED <<sh, cmd, written, chan, exited, buf, ret>>

\* execute_command is waiting on the command.
Busy == sh \in {"loop", "stderr"}
====
