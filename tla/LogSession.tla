----------------------------- MODULE LogSession -----------------------------
(***************************************************************************)
(* One request to the log endpoint: handleContainerLogs of                 *)
(* pkg/server/server.go, and Logs and cmdReadCloser of                     *)
(* pkg/hypervisor/applevm.go.                                              *)
(*                                                                         *)
(* The handler is `at`.  It reads, through a pipe, what a `container logs` *)
(* process writes, and passes it on to the client.  Output is counted in   *)
(* pieces: how many were written, read, and sent.  What `previous` serves  *)
(* is kept by the provider, see CrashLoop.                                 *)
(*                                                                         *)
(* Definitions whose names end in Bug: see ExecSession.                    *)
(***************************************************************************)
EXTENDS Naturals

CONSTANTS
  MaxOutput, \* bound: pieces of output
  Pipe       \* pieces the pipe holds

LogConstants == MaxOutput \in Nat /\ Pipe \in Nat \ {0}

VARIABLES
  ask,     \* the query
  kept,    \* the provider keeps logs of the previous run
  at,      \* the handler
  reply,   \* the HTTP status it has decided on, 0 for none
  logs,    \* the process: "none", "running", "ended" or "reaped"
  written, \* output of the process
  read,    \* output the handler has read
  sent,    \* output the client has got
  here,    \* the client is there
  open,    \* the connection is open
  up       \* the kubelet process is up

output == <<written, read, sent>>
logVars == <<ask, kept, at, reply, logs, output>>
vars == <<logVars, here, open, up>>

\* The types; one piece at most is between the read and the write.
TypeOK ==
  /\ ask \in [follow : BOOLEAN, previous : BOOLEAN]
  /\ kept \in BOOLEAN
  /\ at \in {"route", "copy", "write", "close", "done"}
  /\ reply \in {0, 200, 404, 500}
  /\ logs \in {"none", "running", "ended", "reaped"}
  /\ written \in 0..MaxOutput
  /\ read \in 0..written /\ written - read <= Pipe
  /\ sent \in 0..read
  /\ here \in BOOLEAN /\ open \in BOOLEAN /\ up \in BOOLEAN

\* No request for logs is being served.
Idle ==
  /\ ask = [follow |-> FALSE, previous |-> FALSE] /\ kept = FALSE
  /\ at = "done" /\ reply = 0
  /\ logs = "none" /\ written = 0 /\ read = 0 /\ sent = 0

Init ==
  /\ ask \in [follow : BOOLEAN, previous : BOOLEAN]
  /\ kept \in BOOLEAN
  /\ at = "route" /\ reply = 0
  /\ logs = "none" /\ written = 0 /\ read = 0 /\ sent = 0
  /\ here = TRUE /\ open = TRUE /\ up = TRUE

-----------------------------------------------------------------------------
Goto(a, b) == at = a /\ at' = b

\* Whether the container has a previous run is not asked, only whether there
\* are logs of one.
ServePrevious ==
  /\ Goto("route", "done")
  /\ ask.previous
  /\ reply' = IF kept THEN 200 ELSE 404
  /\ UNCHANGED <<ask, kept, logs, output, here, open, up>>

\* Logs: the process starts, for a container that exists or not; what it says
\* of one that does not is served as its log.
StartLogs ==
  /\ Goto("route", "copy")
  /\ ~ask.previous
  /\ reply' = 200
  /\ logs' = "running"
  /\ UNCHANGED <<ask, kept, output, here, open, up>>

LogsFails ==
  /\ Goto("route", "done")
  /\ ~ask.previous
  /\ reply' = 500
  /\ UNCHANGED <<ask, kept, logs, output, here, open, up>>

Read ==
  /\ Goto("copy", "write")
  /\ read < written
  /\ read' = read + 1
  /\ UNCHANGED <<ask, kept, reply, logs, written, sent, here, open, up>>

ReadEndBug ==                           \* takes the end of the process for the end of its output
  /\ Goto("copy", "close")
  /\ logs = "ended"
  /\ UNCHANGED <<ask, kept, reply, logs, output, here, open, up>>

\* Logs has closed its copy of the pipe's write end: reads see the end when the
\* process has ended and everything is read.
ReadEnd ==
  /\ Goto("copy", "close")
  /\ logs = "ended" /\ read = written
  /\ UNCHANGED <<ask, kept, reply, logs, output, here, open, up>>

\* With `follow` a failing write is ignored and the loop goes on; io.Copy ends.
WriteLog ==
  /\ at = "write"
  /\ at' = IF here \/ ask.follow THEN "copy" ELSE "close"
  /\ sent' = IF here THEN sent + 1 ELSE sent
  /\ UNCHANGED <<ask, kept, reply, logs, written, read, here, open, up>>

CloseReaderBug ==                       \* closes the pipe and leaves the process alone
  /\ Goto("close", "done")
  /\ UNCHANGED <<ask, kept, reply, logs, output, here, open, up>>

\* cmdReadCloser.Close: the pipe is closed, the process killed and waited for.
CloseReader ==
  /\ Goto("close", "done")
  /\ logs' = "reaped"
  /\ UNCHANGED <<ask, kept, reply, output, here, open, up>>

CancelBug == FALSE /\ UNCHANGED vars    \* Logs is given a context that does not end

\* The client has left: the server ends the request's context, and
\* exec.CommandContext kills the process.
Cancel ==
  /\ ~here /\ up
  /\ logs = "running"
  /\ logs' = "ended"
  /\ UNCHANGED <<ask, kept, at, reply, output, here, open, up>>

-----------------------------------------------------------------------------
(* The process, the client and the kubelet.                                *)

\* A full pipe blocks the process; one whose reader is gone ends it.
Say ==
  /\ logs = "running"
  /\ written < MaxOutput
  /\ \/ up /\ written - read < Pipe /\ written' = written + 1 /\ UNCHANGED logs
     \/ ~up /\ logs' = "ended" /\ UNCHANGED written
  /\ UNCHANGED <<ask, kept, at, reply, read, sent, here, open, up>>

\* With `follow` it ends with its container, and otherwise with the log.
LogsEnd ==
  /\ logs = "running"
  /\ logs' = "ended"
  /\ UNCHANGED <<ask, kept, at, reply, output, here, open, up>>

Leave ==
  /\ here /\ open
  /\ here' = FALSE /\ open' = FALSE
  /\ UNCHANGED <<logVars, up>>

\* main returns on a signal, without waiting for Shutdown; nothing kills the
\* process.
KubeletStop ==
  /\ up /\ at # "done"
  /\ up' = FALSE
  /\ at' = "done"
  /\ open' = FALSE
  /\ UNCHANGED <<ask, kept, reply, logs, output, here>>

-----------------------------------------------------------------------------
Handler == \/ ServePrevious \/ StartLogs \/ LogsFails
           \/ Read \/ ReadEnd \/ WriteLog \/ CloseReader

Next == Handler \/ Cancel \/ Say \/ LogsEnd \/ Leave \/ KubeletStop

Spec == Init /\ [][Next]_vars

\* The handler goes on, and a context that is done kills its process.  A process
\* that follows need not write or end; one that does not follow ends.
Fairness == /\ WF_vars(Handler) /\ WF_vars(Cancel)
            /\ WF_vars(LogsEnd /\ ~ask.follow)

FairSpec == Spec /\ Fairness

-----------------------------------------------------------------------------
\* A reply that ends while its client listens holds all that the process wrote
\* before it ended (the loop of handleContainerLogs, Logs).
LogIsWhole == at \in {"close", "done"} /\ here /\ up /\ reply = 200 => sent = written

\* No process is left behind by a request, on any way out of the handler
\* (cmdReadCloser.Close), unless the kubelet was stopped.
NoLogProcessLeft == at = "done" /\ up => logs # "running"

\* A request ends when its client has left, also one that follows a container
\* which neither writes nor ends, and one that does not follow ends anyway.
LogRequestEnds == (at # "done" /\ (~here \/ ~ask.follow)) ~> at = "done"
=============================================================================
