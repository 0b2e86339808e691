--------------------------- MODULE LifecycleClaims ---------------------------
(***************************************************************************)
(* What the comments and the README of the repository say of the life of   *)
(* pods, where the code does otherwise.  Each claim is checked by a run    *)
(* that finds it violated.                                                 *)
(***************************************************************************)
EXTENDS PodLifecycle

\* provider.go:159: "Remove from tracking BEFORE cleaning up containers so
\* that periodicStatusSync / handleRestarts won't race and restart containers
\* that are being torn down."  A pass works from the copies it took at its
\* tick, so it restarts a container of a pod that is untracked by now.
NoRestartDuringTeardown ==
  [][\A k \in Pods, i \in Mains :
       IsRunning(ctr'[k][i]) /\ ~IsRunning(ctr[k][i])
         => ~(inf.pc = "clean" /\ inf.pod = k)]_vars

\* controller.go:126: "Force-remove from API server so the pod doesn't stay in
\* Terminating".  A pod whose CreatePod failed after it was marked deleted is
\* not tracked, so onUpdate returns early, at every resync: it stays.
NoneStaysTerminating == \A k \in Pods : api[k].del ~> ~api[k].del

\* README.md:26: "Container restart policies - supports `Always`, `OnFailure`,
\* and `Never` with CrashLoopBackOff".  restartContainer removes the container
\* and then runs it; when that run fails there is nothing left to inspect, the
\* status is Waiting from then on, and handleRestarts passes it over: under
\* Always, a container that has exited is never run again.
AlwaysRunsAgain ==
  \A k \in Pods, i \in Mains :
    (tracked[k] # 0 /\ ctr[k][i].st \in Exited) ~> (IsRunning(ctr[k][i]) \/ tracked[k] = 0)
=============================================================================
