---------------------------- MODULE ExecRequest ----------------------------
(***************************************************************************)
(* What the exec endpoint of the kubelet promises a client about one       *)
(* request, in the terms a client has for it: the command is run at most   *)
(* once, and the client is told how it ended, once, or sees its connection *)
(* end without being told.  ExecSession is how the code keeps this.        *)
(***************************************************************************)
EXTENDS Naturals

CONSTANT Codes \* exit codes of commands

VARIABLES
  command, \* "none", "running" or "exited"
  code,    \* its exit code once it has exited
  answers, \* the statuses the client was sent
  open     \* the connection is there

vars == <<command, code, answers, open>>

Status == [success : BOOLEAN, code : Nat]
StatusOf(n) == [success |-> n = 0, code |-> n]

Init ==
  /\ command = "none"
  /\ code = 0
  /\ answers = {}
  /\ open = TRUE

\* Nobody asks whether the client is still there.
Start ==
  /\ command = "none"
  /\ command' = "running"
  /\ UNCHANGED <<code, answers, open>>

\* A command that cannot be run counts as one that exited with code 1.
CannotStart ==
  /\ command = "none"
  /\ command' = "exited"
  /\ code' = 1
  /\ UNCHANGED <<answers, open>>

\* The command may end after the connection has.
Exit ==
  /\ command = "running"
  /\ command' = "exited"
  /\ code' \in Codes
  /\ UNCHANGED <<answers, open>>

Answer ==
  /\ command = "exited" /\ open /\ answers = {}
  /\ answers' = {StatusOf(code)}
  /\ UNCHANGED <<command, code, open>>

Close ==
  /\ open
  /\ open' = FALSE
  /\ UNCHANGED <<command, code, answers>>

Next == Start \/ CannotStart \/ Exit \/ Answer \/ Close
Spec == Init /\ [][Next]_vars
=============================================================================
