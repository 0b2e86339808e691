----------------------------- MODULE CrashLoop -----------------------------
(***************************************************************************)
(* The restart of one container and what is kept about it: restart-        *)
(* Container, capturePreviousState, backoffDelay and shouldBackoff of      *)
(* pkg/provider/provider.go, as the pass of periodicStatusSync uses them.  *)
(*                                                                         *)
(* Here time counts, in units of ten seconds, and so does which run of the *)
(* container is which: the `inc` of a container is the number of its run.  *)
(* The policy is one under which what has exited is restarted.  The        *)
(* informer is there for what it does to the container between two calls   *)
(* of the pass; its handlers in full are in PodLifecycle.                  *)
(*                                                                         *)
(* A definition whose name ends in Bug is no part of the specification: it *)
(* is the definition it stands before, with a mistake the code could well  *)
(* have, and serves to confirm that a property would notice.               *)
(***************************************************************************)
EXTENDS ContainerCLI, Sequences

CONSTANTS
  MaxBackoff,  \* the longest window: 5 minutes
  MaxRuns,     \* bound: the run, by number, that does not exit
  MaxCalls,    \* bound: faults of the container tool
  MaxReplaced, \* bound: deletions of the pod
  MaxCrashes   \* bound: stops of the kubelet process

ASSUME CrashLoopConstants ==
  /\ MaxBackoff \in Nat \ {0}
  /\ MaxRuns \in Nat \ {0}
  /\ MaxCalls \in Nat
  /\ MaxReplaced \in Nat
  /\ MaxCrashes \in Nat

VARIABLES
  c,       \* the container
  runs,    \* runs of it so far
  pod,     \* the informer's side: is the pod tracked?
  pass,    \* where the pass is
  shown,   \* the container's state in the statuses the pass works from
  count,   \* restartCountByContainerID
  since,   \* time since lastRestartByContainerID, up to MaxBackoff
  prev,    \* prevLogsByContainerID: the run they are of, 0 when of none: there are
           \* no logs, or what was kept is the tool's error text
  last,    \* lastStateByContainerID: likewise
  bounded, \* faults, deletions and crashes so far
  alone    \* history: since the pass looked, nobody else and no fault meddled

kept == <<count, since, prev, last>>
vars == <<c, runs, pod, pass, shown, kept, bounded, alone>>

\* lastRestart is set where count grows: it is zero exactly while count is 0.
NeverRestarted == count = 0

\* The types; a restart is a run, and the first run is none.
TypeOK ==
  /\ c \in Container /\ c.inc <= runs
  /\ runs \in Nat
  /\ pod \in {"tracked", "deleting", "gone"}
  /\ pass \in {"idle", "look", "act", "logs", "state", "rm", "run", "book"}
  /\ shown \in {"none", "running", "waiting", "backoff", "terminated"}
  /\ count \in 0 .. (runs - 1)
  /\ since \in 0 .. MaxBackoff
  /\ prev \in 0 .. runs /\ last \in 0 .. runs
  /\ bounded \in [calls : 0 .. MaxCalls, replaced : 0 .. MaxReplaced, crashes : 0 .. MaxCrashes]
  /\ alone \in BOOLEAN

\* CreatePod has run the container and tracks the pod.
Init ==
  /\ c = Running(1)
  /\ runs = 1
  /\ pod = "tracked"
  /\ pass = "idle"
  /\ shown = "none"
  /\ count = 0 /\ since = 0 /\ prev = 0 /\ last = 0
  /\ bounded = [calls |-> 0, replaced |-> 0, crashes |-> 0]
  /\ alone = TRUE

-----------------------------------------------------------------------------
(* backoffDelay and shouldBackoff.                                         *)

Doubled[n \in Nat] == IF n <= 1 THEN n ELSE 2 * Doubled[n - 1]

BackoffDelayBug(n) == Doubled[n]        \* the cap is forgotten

\* The loop of backoffDelay: from 10 s, doubled with every further restart,
\* until it is at the cap.
BackoffDelay(n) == IF Doubled[n] >= MaxBackoff THEN MaxBackoff ELSE Doubled[n]

ShouldBackoffBug == ~NeverRestarted /\ since < BackoffDelay(count - 1)

ShouldBackoff == ~NeverRestarted /\ since < BackoffDelay(count)

-----------------------------------------------------------------------------
(* The pass: inspectContainerStatuses, handleRestarts, restartContainer.   *)

\* A call of the tool with outcome o.
Charge(o) ==
  /\ o.fault => bounded.calls < MaxCalls
  /\ bounded' = IF o.fault THEN [bounded EXCEPT !.calls = @ + 1] ELSE bounded
  /\ alone' = (alone /\ ~o.fault)

StatusOfBug(r) ==                       \* exited is not a known state
  IF r.state = "running" THEN "running" ELSE "waiting"

StatusOf(r) ==
  CASE r.state = "running" -> "running"
    [] r.state = "error"   -> "waiting"
    [] r.state = "stopped" -> IF ShouldBackoff THEN "backoff" ELSE "terminated"

\* A pass takes a copy of the tracked pod; before it comes to this container it
\* sees to others, and the pod may be let go meanwhile.
Tick ==
  /\ pass = "idle"
  /\ pod = "tracked"
  /\ pass' = "look"
  /\ UNCHANGED <<c, runs, pod, shown, kept, bounded, alone>>

\* It looks at the container its copy names.
Look ==
  /\ pass = "look"
  /\ \E r \in Inspect(c) :
       /\ r.fault => bounded.calls < MaxCalls
       /\ bounded' = IF r.fault THEN [bounded EXCEPT !.calls = @ + 1] ELSE bounded
       /\ shown' = StatusOf(r)
  /\ alone' = TRUE
  /\ pass' = "act"
  /\ UNCHANGED <<c, runs, pod, kept>>

ActBug ==                               \* nothing is captured
  /\ pass = "act"
  /\ pass' = IF shown = "terminated" /\ ~ShouldBackoff THEN "rm" ELSE "idle"
  /\ UNCHANGED <<c, runs, pod, shown, kept, bounded, alone>>

\* What has terminated is restarted, if its window is closed now.
Act ==
  /\ pass = "act"
  /\ pass' = IF shown = "terminated" /\ ~ShouldBackoff THEN "logs" ELSE "idle"
  /\ UNCHANGED <<c, runs, pod, shown, kept, bounded, alone>>

\* capturePreviousState: the logs, then the state.  Logs only starts the tool; what
\* it says when it then fails, or when there is no such container, is read and
\* kept as if it were the log.
CaptureLogs ==
  /\ pass = "logs"
  /\ \E o \in IF Exists(c) THEN {Done(c), Fault(c)} ELSE {Refused(c)} :
       /\ Charge(o)
       /\ \/ o.ok /\ prev' = c.inc
          \/ ~o.ok /\ prev' = 0
          \/ o.fault /\ UNCHANGED prev
  /\ pass' = "state"
  /\ UNCHANGED <<c, runs, pod, shown, count, since, last>>

CaptureStateBug ==                      \* whatever the state
  /\ pass = "state"
  /\ \E r \in Inspect(c) :
       /\ Charge(r)
       /\ last' = IF r.state # "error" THEN c.inc ELSE last
  /\ pass' = "rm"
  /\ UNCHANGED <<c, runs, pod, shown, count, since, prev>>

CaptureState ==
  /\ pass = "state"
  /\ \E r \in Inspect(c) :
       /\ Charge(r)
       /\ last' = IF r.state = "stopped" THEN c.inc ELSE last
  /\ pass' = "rm"
  /\ UNCHANGED <<c, runs, pod, shown, count, since, prev>>

RestartRm ==
  /\ pass = "rm"
  /\ \E o \in Remove(c) : Charge(o) /\ c' = o.c
  /\ pass' = "run"
  /\ UNCHANGED <<runs, pod, shown, kept>>

\* A run gets the next number; what fails to run, too, if it exists at all.
NextRun(o) ==
  /\ c' = o.c
  /\ runs' = IF o.c.inc > runs THEN o.c.inc ELSE runs

RestartRunBug ==                        \* a restart that failed counts
  /\ pass = "run"
  /\ \E o \in Run(c, runs + 1) :
       /\ Charge(o)
       /\ NextRun(o)
       /\ pass' = "book"
  /\ UNCHANGED <<pod, shown, kept>>

RestartRun ==
  /\ pass = "run"
  /\ \E o \in Run(c, runs + 1) :
       /\ Charge(o)
       /\ NextRun(o)
       /\ pass' = IF o.ok THEN "book" ELSE "idle"
  /\ UNCHANGED <<pod, shown, kept>>

\* A restart counts, and opens the next window, once it has succeeded.
Book ==
  /\ pass = "book"
  /\ count' = count + 1
  /\ since' = 0
  /\ pass' = "idle"
  /\ UNCHANGED <<c, runs, pod, shown, prev, last, bounded, alone>>

-----------------------------------------------------------------------------
(* The clock, the container, the informer's handlers and the kubelet.      *)

Elapse ==
  /\ ~NeverRestarted
  /\ since < MaxBackoff
  /\ since' = since + 1
  /\ UNCHANGED <<c, runs, pod, pass, shown, count, prev, last, bounded, alone>>

Exit ==
  /\ IsRunning(c)
  /\ runs < MaxRuns
  /\ c' = Stopped(c)
  /\ UNCHANGED <<runs, pod, pass, shown, kept, bounded, alone>>

\* DeletePod untracks the pod; what is kept of the container is not cleared.
Untrack ==
  /\ pod = "tracked"
  /\ bounded.replaced < MaxReplaced
  /\ bounded' = [bounded EXCEPT !.replaced = @ + 1]
  /\ pod' = "deleting"
  /\ UNCHANGED <<c, runs, pass, shown, kept, alone>>

CleanUp ==
  /\ pod = "deleting"
  /\ c' = Gone
  /\ pod' = "gone"
  /\ alone' = FALSE
  /\ UNCHANGED <<runs, pass, shown, kept, bounded>>

\* onAdd: a container that runs is adopted, otherwise it is made anew.
Add ==
  /\ pod = "gone"
  /\ pod' = "tracked"
  /\ c' = IF IsRunning(c) THEN c ELSE Running(runs + 1)
  /\ runs' = IF IsRunning(c) THEN runs ELSE runs + 1
  /\ alone' = FALSE
  /\ UNCHANGED <<pass, shown, kept, bounded>>

\* All that is kept is in memory.
KubeletRestart ==
  /\ bounded.crashes < MaxCrashes
  /\ bounded' = [bounded EXCEPT !.crashes = @ + 1]
  /\ pod' = "gone"
  /\ pass' = "idle"
  /\ shown' = "none"
  /\ count' = 0 /\ since' = 0 /\ prev' = 0 /\ last' = 0
  /\ UNCHANGED <<c, runs, alone>>

-----------------------------------------------------------------------------
Pass == Tick \/ Look \/ Act \/ CaptureLogs \/ CaptureState \/ RestartRm \/ RestartRun \/ Book
Next == Pass \/ Elapse \/ Exit \/ Untrack \/ CleanUp \/ Add \/ KubeletRestart

Spec == Init /\ [][Next]_vars

\* The ticker ticks and the clock goes on; nothing is asked of the rest.
FairSpec == Spec /\ WF_vars(Pass) /\ WF_vars(Elapse)

-----------------------------------------------------------------------------
\* The schedule the comment on backoffDelay gives: 10s, 20s, 40s, 80s, 160s,
\* then 300s.
Documented == <<1, 2, 4, 8, 16, 30>>
Window(n) == IF n <= Len(Documented) THEN Documented[n] ELSE 30

\* Two restarts are as far apart as the schedule says, however the pass is
\* delayed between its look and the restart, and whoever else starts the
\* container in between (handleRestarts, shouldBackoff).
BackoffHonoured ==
  [][pass = "run" /\ pass' = "book" /\ count > 0 => since >= Window(count)]_vars

\* A container that has not been restarted for the longest window is not
\* reported to be in CrashLoopBackOff when it exits, however often it was
\* restarted before: the delay is capped (backoffDelay).
StableIsNotBackedOff == [][shown' = "backoff" /\ shown # "backoff" => since < MaxBackoff]_vars

\* What is shown of the past is of the past: while a container runs, its last
\* state is of an earlier run, even if the pod was replaced in the middle of
\* the capture (capturePreviousState).
LastStateIsPast == IsRunning(c) => last < c.inc

\* A restart that nothing disturbs leaves the logs and the state of the run
\* before, both of the same one (capturePreviousState before Remove).
PreviousIsPredecessor ==
  pass = "book" /\ alone /\ IsRunning(c) => prev = c.inc - 1 /\ last = c.inc - 1

\* Every window closes: a container that has exited runs again, or its pod is
\* let go, unless a call fails.  PodLifecycle takes this for granted in its
\* fairness.
WindowsClose ==
  c.st \in Exited ~> (IsRunning(c) \/ pod # "tracked" \/ bounded.calls # 0)
=============================================================================
