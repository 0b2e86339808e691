--------------------------- MODULE KubeletServer ---------------------------
(***************************************************************************)
(* The kubelet server, pkg/server/server.go: Run routes a request to       *)
(* handleExec or to handleContainerLogs.  Requests share the process and   *)
(* nothing else, so the server is one request of either kind, with its     *)
(* client (`here`), its connection (`open`) and the process (`up`).        *)
(***************************************************************************)
EXTENDS ExecSession

CONSTANTS MaxOutput, Pipe

VARIABLES route, ask, kept, at, reply, logs, written, read, sent

Log == INSTANCE LogSession

ASSUME LogAssumption == Log!LogConstants

execVars == <<request, pc, streams, typing, cmdVars, answers>>
logVars == <<ask, kept, at, reply, logs, written, read, sent>>
serverVars == <<route, vars, logVars>>

\* No exec request is being served.
NoExec ==
  /\ want = [stdin |-> FALSE, stdout |-> FALSE, stderr |-> FALSE, tty |-> FALSE]
  /\ names = "stdin" /\ resizes = FALSE /\ reads = FALSE
  /\ pc = "done"
  /\ due = {} /\ got = {} /\ arrived = 0 /\ given = {}
  /\ typing = FALSE
  /\ command = "none" /\ code = 0
  /\ ended = FALSE /\ feeding = FALSE /\ pending = FALSE
  /\ answers = {}

\* The two patterns of the mux.
ServerInit ==
  \/ route = "exec" /\ Init /\ Log!Idle
  \/ route = "logs" /\ Log!Init /\ NoExec

ServeExec ==
  /\ route = "exec"
  /\ Next
  /\ UNCHANGED <<route, logVars>>

ServeLogs ==
  /\ route = "logs"
  /\ Log!Next
  /\ UNCHANGED <<route, execVars>>

ServerNext == ServeExec \/ ServeLogs

\* The fairness of both handlers: see there.
ServerSpec == ServerInit /\ [][ServerNext]_serverVars /\ Fairness /\ Log!Fairness

-----------------------------------------------------------------------------
\* Both handlers are in states of theirs.
ServerTypeOK == TypeOK /\ Log!TypeOK

\* The properties of LogSession, about handleContainerLogs.
LogIsWhole == Log!LogIsWhole
NoLogProcessLeft == Log!NoLogProcessLeft
LogRequestEnds == Log!LogRequestEnds
=============================================================================
