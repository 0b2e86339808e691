---------------------------- MODULE ContainerCLI ----------------------------
(***************************************************************************)
(* The Apple `container` command line tool as pkg/hypervisor uses it.      *)
(*                                                                         *)
(* A container is its run state and the incarnation of the pod whose spec  *)
(* it was run from.  The tool keeps one container per name, so the         *)
(* modules that EXTEND this one hold one such value per container ID.      *)
(* Every method of hypervisor.AppleVM that runs the tool is an operator    *)
(* giving the set of outcomes the call can have on a container c: whether  *)
(* it returned an error, what c has become, and whether the outcome is a   *)
(* fault of the tool (one that the state of c does not explain).           *)
(*                                                                         *)
(* The tool reports "stopped" and "exited"; the code treats the two alike  *)
(* everywhere, so they are one state here, split by the exit code that     *)
(* the process really had, which the tool does not report.                 *)
(***************************************************************************)
EXTENDS Naturals

Exited == {"succeeded", "failed"}
Container == [st : {"absent", "running"} \cup Exited, inc : Nat]

Gone        == [st |-> "absent", inc |-> 0]
Running(n)  == [st |-> "running", inc |-> n]
Exists(c)   == c.st # "absent"
IsRunning(c) == c.st = "running"
Stopped(c)  == [c EXCEPT !.st = "failed"]

Outcome == [ok : BOOLEAN, c : Container, fault : BOOLEAN]
Done(c)    == [ok |-> TRUE,  c |-> c, fault |-> FALSE]
Refused(c) == [ok |-> FALSE, c |-> c, fault |-> FALSE]
Fault(c)   == [ok |-> FALSE, c |-> c, fault |-> TRUE]

\* `container run --name`: refused when the name is taken.  A failing run
\* leaves nothing behind, or a container that was created and did not start.
Run(c, n) ==
  IF Exists(c) THEN {Refused(c)}
               ELSE {Done(Running(n)), Fault(c), Fault([st |-> "failed", inc |-> n])}

\* `container stop`: graceful stop; nothing to do on a container that has exited.
Stop(c) ==
  CASE IsRunning(c) -> {Done(Stopped(c)), Fault(c)}
    [] ~Exists(c)   -> {Refused(c)}
    [] OTHER        -> {Done(c), Fault(c)}

\* `container kill -s SIGKILL`: only a running container can be killed.
Kill(c) ==
  IF IsRunning(c) THEN {Done(Stopped(c)), Fault(c)} ELSE {Refused(c)}

\* `container rm` without force: refused on a running or unknown container.
Remove(c) ==
  IF Exists(c) /\ ~IsRunning(c) THEN {Done(Gone), Fault(c)} ELSE {Refused(c)}

\* `container inspect`: the state reported; an unknown container is an error.
Inspection == [state : {"error", "running", "stopped"}, fault : BOOLEAN]
Inspect(c) ==
  IF Exists(c)
  THEN {[state |-> IF IsRunning(c) THEN "running" ELSE "stopped", fault |-> FALSE],
        [state |-> "error", fault |-> TRUE]}
  ELSE {[state |-> "error", fault |-> FALSE]}

\* Inspect reports exit code 1 for whatever has stopped or exited.
InspectedExitCode == 1
=============================================================================
