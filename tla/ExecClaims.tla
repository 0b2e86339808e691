----------------------------- MODULE ExecClaims -----------------------------
(***************************************************************************)
(* What a comment of pkg/hypervisor/applevm.go says of a command on a      *)
(* terminal, where the code does otherwise.                                *)
(***************************************************************************)
EXTENDS ExecSession

\* applevm.go:140: "stdin closed [...] the command will exit on its own."  When
\* the client has ended its stdin or left, the goroutine that copies it returns;
\* the terminal is not told, so a command that reads to the end of its input (a
\* shell) waits for more, and its request with it.
StdinClosedCommandExits ==
  (pc = "wait" /\ want.tty /\ reads /\ "stdin" \in given /\ ~feeding)
    ~> (command = "exited" \/ ~up)
=============================================================================
