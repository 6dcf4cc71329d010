------------------------------ MODULE MCVmPing ------------------------------
EXTENDS VmPing

\* ping -c 4 (the helpers' default count) ending with 0%, 50% or 100% loss.
MCCount == 4
MCLosses == {0, 50, 100}
\* The console read may raise (the telnet session drops).
MCReadFaults == {"read"}
====
