------------------------ MODULE KubeletServerProofs ------------------------
(***************************************************************************)
(* Theorems about the kubelet server, for any exit codes, any amount of    *)
(* output and any size of the pipe: the safety properties of a log         *)
(* request, and those of an exec request as the server serves it.          *)
(***************************************************************************)
EXTENDS KubeletServer, ExecSessionProofs

-----------------------------------------------------------------------------
(* The inductive invariant.                                                *)

\* What the handler of a log request has read and sent, by its place: while the
\* client listens, a piece that was read is sent before the next is read.
CopyInv ==
  /\ at = "route" => reply = 0 /\ logs = "none" /\ written = 0
  /\ at = "copy" => logs # "none" /\ (here => sent = read)
  /\ at = "write" => logs # "none" /\ sent < read /\ (here => sent = read - 1)
  /\ at = "close" => (here => logs = "ended" /\ sent = written)

\* What it leaves when it has returned: no process that could still write.
LeftInv ==
  at = "done" /\ up =>
    /\ logs # "running"
    /\ here /\ reply = 200 => sent = written

LogInv == Log!TypeOK /\ CopyInv /\ LeftInv

\* The server serves one request; the handler of the other kind is at rest.
ServerInv ==
  \/ route = "exec" /\ ExecInv /\ Log!Idle
  \/ route = "logs" /\ LogInv /\ NoExec

-----------------------------------------------------------------------------
(* A request for logs.                                                     *)

\* It begins with nothing written, read or sent.
LEMMA LogInitInv == Log!Init => LogInv
BY LogAssumption
   DEF Log!Init, LogInv, Log!TypeOK, CopyInv, LeftInv, Log!LogConstants

\* Each step of the handler keeps the invariant.
LEMMA LogHandlerInv == ASSUME LogInv, Log!Handler PROVE LogInv'
<1> USE LogAssumption DEF LogInv, Log!TypeOK, CopyInv, LeftInv, Log!LogConstants, Log!Goto,
        Log!output
<1>1. CASE Log!ServePrevious
  BY <1>1 DEF Log!ServePrevious
<1>2. CASE Log!StartLogs
  BY <1>2 DEF Log!StartLogs
<1>3. CASE Log!LogsFails
  BY <1>3 DEF Log!LogsFails
<1>4. CASE Log!Read
  BY <1>4 DEF Log!Read
<1>5. CASE Log!ReadEnd
  BY <1>5 DEF Log!ReadEnd
<1>6. CASE Log!WriteLog
  BY <1>6 DEF Log!WriteLog
<1>7. CASE Log!CloseReader
  BY <1>7 DEF Log!CloseReader
<1> QED
  BY <1>1, <1>2, <1>3, <1>4, <1>5, <1>6, <1>7 DEF Log!Handler

\* The invariant asks nothing of a handler whose client or process has gone
\* that it does not ask of one that is served.
LEMMA ClientOrKubeletGoes ==
  ASSUME LogInv, open' = FALSE,
         UNCHANGED <<ask, kept, reply, logs, written, read, sent>>,
         \/ here' = FALSE /\ UNCHANGED <<at, up>>
         \/ up' = FALSE /\ at' = "done" /\ UNCHANGED here
  PROVE  LogInv'
<1>1. here' \in BOOLEAN /\ open' \in BOOLEAN /\ up' \in BOOLEAN
  BY DEF LogInv, Log!TypeOK
<1>2. Log!TypeOK'
  BY <1>1 DEF LogInv, Log!TypeOK
<1>3. CopyInv' /\ LeftInv'
  BY DEF LogInv, CopyInv, LeftInv
<1> QED
  BY <1>2, <1>3 DEF LogInv

\* So do the process, the client and the kubelet.
LEMMA LogOthersInv ==
  ASSUME LogInv, Log!Cancel \/ Log!Say \/ Log!LogsEnd \/ Log!Leave \/ Log!KubeletStop
  PROVE  LogInv'
<1> USE LogAssumption DEF LogInv, Log!TypeOK, CopyInv, LeftInv, Log!LogConstants, Log!Goto,
        Log!output, Log!logVars
<1>1. CASE Log!Cancel
  BY <1>1 DEF Log!Cancel
<1>2. CASE Log!Say
  BY <1>2 DEF Log!Say
<1>3. CASE Log!LogsEnd
  BY <1>3 DEF Log!LogsEnd
<1> HIDE LogAssumption DEF LogInv, Log!TypeOK, CopyInv, LeftInv
<1>4. CASE Log!Leave
  <2>1. LogInv /\ here' = FALSE /\ open' = FALSE
    BY <1>4 DEF Log!Leave
  <2>2. UNCHANGED <<ask, kept, at, reply, logs, written, read, sent, up>>
    BY <1>4 DEF Log!Leave
  <2> QED
    BY <2>1, <2>2, ClientOrKubeletGoes
<1>5. CASE Log!KubeletStop
  <2>1. LogInv /\ at' = "done" /\ up' = FALSE /\ open' = FALSE
    BY <1>5 DEF Log!KubeletStop
  <2>2. UNCHANGED <<ask, kept, reply, logs, written, read, sent, here>>
    BY <1>5 DEF Log!KubeletStop
  <2> QED
    BY <2>1, <2>2, ClientOrKubeletGoes
<1> QED
  BY <1>1, <1>2, <1>3, <1>4, <1>5

-----------------------------------------------------------------------------
(* The server.                                                             *)

\* It begins with a request of either kind.
LEMMA ServerInitInv == ServerInit => ServerInv
BY InitInv, LogInitInv DEF ServerInit, ServerInv

\* A step for an exec request keeps its invariant, and leaves the other handler.
LEMMA ServeExecInv == ASSUME ServerInv, ServeExec PROVE ServerInv'
<1>1. ExecInv /\ Log!Idle /\ route = "exec"
  BY DEF ServerInv, ServeExec
<1>2. ExecInv'
  BY <1>1, ArrivalInv, HandlerInv, OthersInv DEF ServeExec, Next
<1>3. Log!Idle' /\ route' = "exec"
  BY <1>1 DEF ServeExec, Log!Idle, logVars
<1> QED
  BY <1>2, <1>3 DEF ServerInv

\* A step for a log request keeps its invariant, and leaves the other handler.
LEMMA ServeLogsInv == ASSUME ServerInv, ServeLogs PROVE ServerInv'
<1>1. LogInv /\ NoExec /\ route = "logs"
  BY DEF ServerInv, ServeLogs
<1>2. LogInv'
  BY <1>1, LogHandlerInv, LogOthersInv DEF ServeLogs, Log!Next
<1>3. NoExec' /\ route' = "logs"
  BY <1>1 DEF ServeLogs, NoExec, execVars, request, streams, cmdVars
<1> QED
  BY <1>2, <1>3 DEF ServerInv

\* Nothing changes, and nothing is broken.
LEMMA ServerStutterInv == ServerInv /\ UNCHANGED serverVars => ServerInv'
<1> SUFFICES ASSUME ServerInv, UNCHANGED serverVars PROVE ServerInv'
  OBVIOUS
<1>1. UNCHANGED <<vars, route, here, open, up, logVars, execVars>>
  BY DEF serverVars, vars, execVars, client
<1>2. CASE route = "exec" /\ ExecInv /\ Log!Idle
  <2>1. ExecInv'
    BY <1>1, <1>2, StutterInv
  <2>2. Log!Idle' /\ route' = "exec"
    BY <1>1, <1>2 DEF Log!Idle, logVars
  <2> QED
    BY <2>1, <2>2 DEF ServerInv
<1>3. CASE route = "logs" /\ LogInv /\ NoExec
  <2>1. LogInv'
    BY <1>1, <1>3 DEF LogInv, Log!TypeOK, CopyInv, LeftInv, logVars
  <2>2. NoExec' /\ route' = "logs"
    BY <1>1, <1>3 DEF NoExec, execVars, request, streams, cmdVars
  <2> QED
    BY <2>1, <2>2 DEF ServerInv
<1> QED
  BY <1>2, <1>3 DEF ServerInv

\* The invariant is inductive.
LEMMA ServerInvAlways == ServerSpec => []ServerInv
<1>1. ServerInv /\ [ServerNext]_serverVars => ServerInv'
  BY ServeExecInv, ServeLogsInv, ServerStutterInv DEF ServerNext
<1> QED
  BY <1>1, ServerInitInv, PTL DEF ServerSpec

\* A handler that is at rest has its types, too.
LEMMA RestTypes ==
  /\ Log!Idle /\ ExecInv => Log!TypeOK
  /\ NoExec /\ LogInv => TypeOK
<1>1. ASSUME Log!Idle, ExecInv PROVE Log!TypeOK
  <2>1. 0 \in 0..MaxOutput /\ 0 \in 0..0 /\ 0 - 0 <= Pipe
    BY LogAssumption DEF Log!LogConstants
  <2>2. here \in BOOLEAN /\ open \in BOOLEAN /\ up \in BOOLEAN
    BY <1>1 DEF ExecInv, TypeOK
  <2> QED
    BY <1>1, <2>1, <2>2 DEF Log!Idle, Log!TypeOK
<1>2. ASSUME NoExec, LogInv PROVE TypeOK
  <2>1. Cardinality(got) = 0
    BY <1>2, FS_EmptySet DEF NoExec
  <2> QED
    BY <1>2, <2>1 DEF NoExec, LogInv, Log!TypeOK, TypeOK, PC, Query, StreamType
<1> QED
  BY <1>1, <1>2

\* Every variable of both handlers keeps its type; in particular no piece of
\* the output is sent that was not read, or read that was not written.
THEOREM ServerTypeCorrect == ServerSpec => []ServerTypeOK
<1>1. ServerInv => ServerTypeOK
  BY RestTypes DEF ServerInv, ServerTypeOK, ExecInv, LogInv
<1> QED
  BY <1>1, ServerInvAlways, PTL

\* A client that listens to the end has the whole log: whatever the sizes, and
\* whenever the process ends relative to the reads.
THEOREM LogIsWholeAlways == ServerSpec => []LogIsWhole
<1>1. ServerInv => LogIsWhole
  BY DEF ServerInv, ExecInv, LogInv, CopyInv, LeftInv, LogIsWhole, Log!LogIsWhole, Log!Idle
<1> QED
  BY <1>1, ServerInvAlways, PTL

\* No `container logs` process is left when its request is over.
THEOREM NoLogProcessLeftAlways == ServerSpec => []NoLogProcessLeft
<1>1. ServerInv => NoLogProcessLeft
  BY DEF ServerInv, LogInv, LeftInv, NoLogProcessLeft, Log!NoLogProcessLeft, Log!Idle
<1> QED
  BY <1>1, ServerInvAlways, PTL

\* What was proved of an exec request alone holds of it in the server: whatever
\* its query is called by and whatever order its streams come in, at most the
\* one stream the handler did not read of is missing; no output follows the
\* status; and no command is left but for the two cases NoCommandLeft names.
THEOREM ServerExecSafe ==
  ServerSpec => [](StreamsAreThere /\ OutputBeforeStatus /\ NoCommandLeft)
<1>1. ServerInv => StreamsAreThere /\ OutputBeforeStatus /\ NoCommandLeft
  BY DEF ServerInv, NoExec, ExecInv, PlaceInv, StreamsAreThere, OutputBeforeStatus, NoCommandLeft
<1> QED
  BY <1>1, ServerInvAlways, PTL

\* The server does what ExecRequest says: a request for logs runs no command
\* and reports none, and the end of its connection is the end of a connection.
THEOREM ServerImplementsRequest == ServerSpec => ImplementsExecRequest
<1>1. ServerInit => Abstract!Init
  BY DEF ServerInit, Init, NoExec, Log!Init, Abstract!Init
<1>2. ASSUME ServerInv, ServeExec PROVE [Abstract!Next]_(Abstract!vars)
  <2>1. ExecInv /\ Next
    BY <1>2 DEF ServerInv, ServeExec
  <2> QED
    BY <2>1, HandlerRefines, OthersRefine DEF Next
<1>3. ASSUME ServerInv, ServeLogs PROVE [Abstract!Next]_(Abstract!vars)
  <2>1. UNCHANGED <<command, code, answers>>
    BY <1>3 DEF ServeLogs, execVars, cmdVars
  <2>2. UNCHANGED open \/ (open /\ open' = FALSE)
    <3>1. open \in BOOLEAN
      BY <1>3 DEF ServerInv, ServeLogs, LogInv, Log!TypeOK
    <3> QED
      BY <1>3, <3>1 DEF ServeLogs, Log!Next, Log!Handler, Log!ServePrevious, Log!StartLogs,
         Log!LogsFails, Log!Read, Log!ReadEnd, Log!WriteLog, Log!CloseReader, Log!Cancel,
         Log!Say, Log!LogsEnd, Log!Leave, Log!KubeletStop
  <2> QED
    BY <2>1, <2>2 DEF Abstract!Next, Abstract!Close, Abstract!vars
<1>4. UNCHANGED serverVars => UNCHANGED Abstract!vars
  BY DEF serverVars, vars, cmdVars, Abstract!vars
<1>5. ServerInv /\ [ServerNext]_serverVars => [Abstract!Next]_(Abstract!vars)
  BY <1>2, <1>3, <1>4 DEF ServerNext
<1> QED
  BY <1>1, <1>5, ServerInvAlways, PTL DEF ServerSpec, ImplementsExecRequest, Abstract!Spec
=============================================================================
