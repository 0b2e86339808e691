---------------------------- MODULE ExecSession ----------------------------
(***************************************************************************)
(* One request to the exec endpoint: handleExec and writeExecStatus of     *)
(* pkg/server/server.go, and ExecInteractive and execWithPTY of            *)
(* pkg/hypervisor/applevm.go, which it calls.                              *)
(*                                                                         *)
(* The handler's goroutine is `pc`.  Around it run the goroutine that      *)
(* counts the streams the client opens (StreamArrives), the one that       *)
(* copies the client's stdin to the command (`feeding`), and what copies   *)
(* the command's output back (Relay).  The client opens the streams its    *)
(* protocol has for what it asked, in any order and whatever the handler   *)
(* made of its query; it types, may end its stdin, and may leave at any    *)
(* time.  Requests share nothing, so there is one.                         *)
(*                                                                         *)
(* Data is left out: stdin is ended or not, output is relayed or pending.  *)
(*                                                                         *)
(* A definition whose name ends in Bug is no part of the specification: it *)
(* is the definition it stands before, with a mistake the code could well  *)
(* have, and serves to confirm that a property would notice.               *)
(***************************************************************************)
EXTENDS Naturals, FiniteSets

CONSTANT Codes \* exit codes of commands

ASSUME ExecConstants == Codes \subseteq Nat

VARIABLES
  want,    \* what the client asks for: which streams, and a TTY?
  names,   \* how its query says so: with "stdin", or with "input"
  resizes, \* the client's protocol has a resize stream (v3 and later)
  reads,   \* the command reads its stdin to the end before it exits
  pc,      \* the handler
  due,     \* streams the client has yet to open
  got,     \* streams that have arrived
  arrived, \* how many were counted
  given,   \* streams that ExecInteractive was called with
  here,    \* the client is there
  typing,  \* the client has not ended its stdin
  up,      \* the kubelet process is up
  command, \* the `container exec` process: "none", "running" or "exited"
  code,    \* its exit code once it has exited
  ended,   \* the command has seen the end of its stdin
  feeding, \* the goroutine that copies stdin is at work
  pending, \* output of the command that has not been relayed
  answers, \* statuses written to the error stream
  open     \* the connection has not been closed

request == <<want, names, resizes, reads>>
streams == <<due, got, arrived, given>>
client  == <<here, typing>>
cmdVars == <<command, code, ended, feeding, pending>>
vars == <<request, pc, streams, client, up, cmdVars, answers, open>>

\* The request as its client sees it; the rest of the session is hidden.
Abstract == INSTANCE ExecRequest WITH Codes <- Codes, command <- command, code <- code,
                                      answers <- answers, open <- open

StreamType == {"error", "stdin", "stdout", "stderr", "resize"}
Query == [stdin : BOOLEAN, stdout : BOOLEAN, stderr : BOOLEAN, tty : BOOLEAN]

\* A TTY merges stderr into stdout, and a request asks for something.
Sensible(q) == (q.tty => ~q.stderr) /\ (q.stdin \/ q.stdout \/ q.stderr)

\* What handleExec reads out of the query: "input" and "output" are names for
\* stdin and stdout as well, and stderr has no second name.
Parsed(q, n) == [q EXCEPT !.stderr = @ /\ n = "stdin"]
Misread == Parsed(want, names) # want

\* The streams a client opens for what it asks.
Opened(q, r) ==
  {"error"} \cup {t \in {"stdin", "stdout", "stderr"} : q[t]}
            \cup {t \in {"resize"} : q.tty /\ r}

ExpectedStreamsBug(q) ==                \* forgets the resize stream
  1 + Cardinality({t \in {"stdin", "stdout"} : q[t]}) + (IF ~q.tty /\ q.stderr THEN 1 ELSE 0)

\* How many streams handleExec waits for: it counts, and does not name them.
ExpectedStreams(q) ==
  1 + Cardinality({t \in {"stdin", "stdout"} : q[t]})
    + (IF q.tty \/ q.stderr THEN 1 ELSE 0)

PC == {"select", "start", "wait", "close", "status", "end", "done"}

\* The types; nothing is counted that has not arrived, and whatever runs was
\* started by the handler.
TypeOK ==
  /\ want \in Query /\ names \in {"stdin", "input"}
  /\ resizes \in BOOLEAN /\ reads \in BOOLEAN
  /\ pc \in PC
  /\ due \subseteq StreamType /\ got \subseteq StreamType
  /\ due \cap got = {} /\ given \subseteq got
  /\ arrived = Cardinality(got)
  /\ here \in BOOLEAN /\ typing \in BOOLEAN /\ up \in BOOLEAN
  /\ command \in {"none", "running", "exited"}
  /\ code \in Nat
  /\ ended \in BOOLEAN /\ feeding \in BOOLEAN /\ pending \in BOOLEAN
  /\ answers \subseteq Abstract!Status
  /\ open \in BOOLEAN

Init ==
  /\ want \in {q \in Query : Sensible(q)}
  /\ names \in {"stdin", "input"}
  /\ resizes \in BOOLEAN
  /\ reads \in BOOLEAN
  /\ pc = "select"
  /\ due = Opened(want, resizes)
  /\ got = {} /\ arrived = 0 /\ given = {}
  /\ here = TRUE
  /\ typing = want.stdin
  /\ up = TRUE
  /\ command = "none" /\ code = 0
  /\ ended = FALSE /\ feeding = FALSE /\ pending = FALSE
  /\ answers = {}
  /\ open = TRUE

-----------------------------------------------------------------------------
(* The handler.                                                            *)

StreamArrivesBug(t) ==                  \* a resize stream is taken, not counted
  /\ t \in due
  /\ here /\ open
  /\ due' = due \ {t}
  /\ got' = got \cup {t}
  /\ arrived' = IF t = "resize" THEN arrived ELSE arrived + 1
  /\ UNCHANGED <<request, pc, given, client, up, cmdVars, answers, open>>

\* streamHandler takes and counts any stream it knows, asked for or not.
StreamArrives(t) ==
  /\ t \in due
  /\ here /\ open
  /\ due' = due \ {t}
  /\ got' = got \cup {t}
  /\ arrived' = arrived + 1
  /\ UNCHANGED <<request, pc, given, client, up, cmdVars, answers, open>>

Goto(p, q) == pc = p /\ pc' = q

\* streamsCh is closed by the stream that makes the number; others may follow.
SelectStreams ==
  /\ Goto("select", "start")
  /\ arrived >= ExpectedStreams(Parsed(want, names))
  /\ UNCHANGED <<request, streams, client, up, cmdVars, answers, open>>

\* Thirty seconds: the handler returns, and no status is written.  With the
\* streams there as well, select takes either.
SelectTimeout ==
  /\ Goto("select", "end")
  /\ UNCHANGED <<request, streams, client, up, cmdVars, answers, open>>

\* cmd.Start, with stdin through a pipe, or pty.Start, with the streams there
\* are.  Without a stdin the command has /dev/null, or a terminal on which
\* nobody types.
Launch ==
  /\ Goto("start", "wait")
  /\ command' = "running"
  /\ given' = got
  /\ feeding' = ("stdin" \in got)
  /\ ended' = ("stdin" \notin got /\ ~want.tty)
  /\ UNCHANGED <<request, due, got, arrived, client, up, code, pending, answers, open>>

\* There is no exit status to read: writeExecStatus says 1.
LaunchFails ==
  /\ Goto("start", "close")
  /\ command' = "exited"
  /\ code' = 1
  /\ UNCHANGED <<request, streams, client, up, ended, feeding, pending, answers, open>>

RunReturnsBug ==                        \* waits for neither client nor copies
  /\ Goto("wait", "close")
  /\ command = "exited" \/ ~here
  /\ UNCHANGED <<request, streams, client, up, cmdVars, answers, open>>

RunReturnsAllBug ==                     \* the terminal, too, waits for its stdin
  /\ Goto("wait", "close")
  /\ command = "exited" /\ ~pending /\ ~feeding
  /\ UNCHANGED <<request, streams, client, up, cmdVars, answers, open>>

\* cmd.Run waits for the process, and then for the goroutines that copy its
\* stdin and its output; execWithPTY for the end of the output, and then for
\* the process.  Whether the client is there makes no difference to either.
RunReturns ==
  /\ Goto("wait", "close")
  /\ command = "exited"
  /\ ~pending \/ (want.tty /\ ~here)
  /\ ~feeding \/ want.tty
  /\ UNCHANGED <<request, streams, client, up, cmdVars, answers, open>>

\* A TTY without stdout: the copy of the output has nowhere to write and
\* panics; net/http recovers, the deferred calls hang up the terminal and
\* close the connection.
CopyPanics ==
  /\ Goto("wait", "end")
  /\ want.tty /\ "stdout" \notin given
  /\ pending
  /\ ended' = TRUE
  /\ pending' = FALSE
  /\ UNCHANGED <<request, streams, client, up, command, code, feeding, answers, open>>

\* stdout and stderr are closed before the status is written.
CloseOutputs ==
  /\ Goto("close", "status")
  /\ UNCHANGED <<request, streams, client, up, cmdVars, answers, open>>

StatusOfBug(n) == [success |-> TRUE, code |-> n]

\* writeExecStatus: Success, or Failure with the exit code as its cause.
StatusOf(n) == [success |-> n = 0, code |-> n]

\* A client that has left is written to as well, and hears nothing.
WriteStatus ==
  /\ Goto("status", "end")
  /\ "error" \in got
  /\ answers' = IF here THEN answers \cup {StatusOf(code)} ELSE answers
  /\ UNCHANGED <<request, streams, client, up, cmdVars, open>>

\* Without an error stream the encoder writes to nil and panics; net/http
\* recovers, and the deferred call closes the connection.
StatusPanics ==
  /\ Goto("status", "end")
  /\ "error" \notin got
  /\ UNCHANGED <<request, streams, client, up, cmdVars, answers, open>>

\* The deferred conn.Close.
CloseConn ==
  /\ Goto("end", "done")
  /\ open' = FALSE
  /\ UNCHANGED <<request, streams, client, up, cmdVars, answers>>

-----------------------------------------------------------------------------
(* The command and the goroutines that copy.                               *)

\* A command that reads to the end of its stdin exits when it has seen it.
Exit ==
  /\ command = "running"
  /\ reads => ended
  /\ command' = "exited"
  /\ code' \in Codes
  /\ UNCHANGED <<request, pc, streams, client, up, ended, feeding, pending, answers, open>>

Output ==
  /\ command = "running"
  /\ pc = "wait"
  /\ ~pending
  /\ want.tty \/ given \cap {"stdout", "stderr"} # {}
  /\ pending' = TRUE
  /\ UNCHANGED <<request, pc, streams, client, up, command, code, ended, feeding, answers, open>>

\* A write to a client that has left fails.  A pipe is closed then and its
\* output is gone; a terminal is not read any more, and may fill up.
Relay ==
  /\ pending
  /\ want.tty => "stdout" \in given /\ here
  /\ pending' = FALSE
  /\ UNCHANGED <<request, pc, streams, client, up, command, code, ended, feeding, answers, open>>

FeedEndsBug ==                          \* leaves the pipe open
  /\ feeding
  /\ ~typing \/ ~open
  /\ feeding' = FALSE
  /\ UNCHANGED <<request, pc, streams, client, up, command, code, ended, pending, answers, open>>

\* The copy of stdin ends with the stream: the client ends it or leaves, or the
\* handler has closed the connection.  A pipe is closed then; a terminal is not
\* told.
FeedEnds ==
  /\ feeding
  /\ ~typing \/ ~open
  /\ feeding' = FALSE
  /\ ended' = (ended \/ ~want.tty)
  /\ UNCHANGED <<request, pc, streams, client, up, command, code, pending, answers, open>>

-----------------------------------------------------------------------------
(* The client and the kubelet.                                             *)

\* What the client types ends the copy if the command no longer reads, and
\* on a terminal it may be an end-of-file.
Type ==
  /\ feeding /\ typing /\ here
  /\ \/ command = "exited" /\ feeding' = FALSE /\ UNCHANGED ended
     \/ want.tty /\ command = "running" /\ ended' = TRUE /\ UNCHANGED feeding
  /\ UNCHANGED <<request, pc, streams, client, up, command, code, pending, answers, open>>

EndStdin ==
  /\ typing /\ here
  /\ typing' = FALSE
  /\ UNCHANGED <<request, pc, streams, here, up, cmdVars, answers, open>>

Leave ==
  /\ here /\ open
  /\ here' = FALSE
  /\ open' = FALSE
  /\ UNCHANGED <<request, pc, streams, typing, up, cmdVars, answers>>

\* main returns on a signal: connections, pipes and terminals are closed.
KubeletStop ==
  /\ up
  /\ pc # "done"
  /\ up' = FALSE
  /\ pc' = "done"
  /\ open' = FALSE
  /\ ended' = TRUE /\ feeding' = FALSE /\ pending' = FALSE
  /\ UNCHANGED <<request, streams, client, command, code, answers>>

-----------------------------------------------------------------------------
Handler == \/ SelectStreams \/ SelectTimeout \/ Launch \/ LaunchFails \/ RunReturns
           \/ CopyPanics \/ CloseOutputs \/ WriteStatus \/ StatusPanics \/ CloseConn

Next == \/ Handler \/ Exit \/ Output \/ Relay \/ FeedEnds
        \/ \E t \in StreamType : StreamArrives(t)
        \/ Type \/ EndStdin \/ Leave \/ KubeletStop

Spec == Init /\ [][Next]_vars

\* A command that writes to a terminal nobody reads may be blocked.
Blocked == want.tty /\ pending /\ ~here

\* Goroutines run, and a command that waits for the end of its stdin exits when
\* it has come.  Nothing is asked of the client, nor of any other command: one
\* that does not read may run for ever, whether its client is there or not.
Fairness ==
  /\ WF_vars(Handler) /\ WF_vars(Relay) /\ WF_vars(FeedEnds)
  /\ WF_vars(Exit /\ reads /\ ended /\ ~Blocked)

FairSpec == Spec /\ Fairness

-----------------------------------------------------------------------------
\* The client is told at most once how its command ended, and told the truth:
\* the session keeps what ExecRequest promises (handleExec, writeExecStatus).
ImplementsExecRequest == Abstract!Spec

\* handleExec counts streams and does not name them.  When it goes on, every
\* stream its client opens for what it asked is there, the error stream that
\* writeExecStatus writes to without looking included.  Only where the client
\* asked for stderr under a name the handler does not read is one stream too
\* few counted, and the one that is missing may be any of them.
StreamsAreThere ==
  pc \in {"start", "wait", "close", "status"} =>
    Cardinality(Opened(want, TRUE) \ got) <= IF Misread THEN 1 ELSE 0

\* No output follows the status: by then all of it was relayed, however the
\* copies and the exit of the command interleave (cmd.Run, execWithPTY).
OutputBeforeStatus == pc \in {"close", "status"} /\ here => ~pending /\ command = "exited"

\* When the handler has returned, its command has ended, unless the process
\* was stopped or the copy of a terminal's output had nowhere to go.
NoCommandLeft ==
  pc = "done" /\ command = "running" => ~up \/ (want.tty /\ "stdout" \notin given)

\* A client that ends its stdin or leaves gets its request ended when the
\* command is one that waits for the end of its input: FeedEnds closes the
\* pipe.  On a terminal it does not (see ExecClaims).
EndedStdinEndsRequest ==
  (pc = "wait" /\ reads /\ ~want.tty /\ (~typing \/ ~here)) ~> pc # "wait"

\* A command that has exited lets its request end, unless the copy of stdin
\* waits for a client that is there and does not type.
ExitEndsRequest ==
  (pc = "wait" /\ command = "exited")
    ~> (pc = "done" \/ (~want.tty /\ feeding /\ typing /\ here))
=============================================================================
