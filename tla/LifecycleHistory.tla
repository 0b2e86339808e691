-------------------------- MODULE LifecycleHistory --------------------------
(***************************************************************************)
(* PodLifecycle with three variables that its actions do not read, for     *)
(* properties that look back further than its state does: how often a      *)
(* container has been started, for which incarnation an init container     *)
(* last succeeded, and whose files the pod's directory of volumes holds.   *)
(* resolveVolumes names that directory after the namespace and the name,   *)
(* as it names containers, and makes it where it is missing.               *)
(***************************************************************************)
EXTENDS PodLifecycle

VARIABLES
  starts,  \* starts[k][n][i]: starts of container i of incarnation n, up to StartCap
  initOk,  \* initOk[k][i]: the last incarnation whose init container i succeeded
  dirs     \* dirs[k]: the incarnations that may have left files in an emptyDir

\* Bound: starts are counted to one more than StartsBounded allows.
StartCap == MaxCrashes + 2

historyVars == <<starts, initOk, dirs>>

HistoryInit ==
  /\ Init
  /\ starts = [k \in Pods |-> [n \in 1 .. MaxInc |-> [i \in Mains |-> 0]]]
  /\ initOk = [k \in Pods |-> [i \in Inits |-> 0]]
  /\ dirs = [k \in Pods |-> {}]

Started(k, i)   == IsRunning(ctr'[k][i]) /\ ~IsRunning(ctr[k][i])
InitStarted(k, i) == IsRunning(ictr'[k][i]) /\ ~IsRunning(ictr[k][i])
Succeeded(k, i) == ictr'[k][i].st = "succeeded" /\ IsRunning(ictr[k][i])

\* The incarnations of which a container starts, with its volumes mounted.
Mounting(k) == {ctr'[k][i].inc : i \in {j \in Mains : Started(k, j)}}
                 \cup {ictr'[k][i].inc : i \in {j \in Inits : InitStarted(k, j)}}

VolumesRemovedBug(k) ==                 \* when a creation failed, not when a pod was deleted
  inf.pc = "clean" /\ inf'.pc # "clean" /\ inf.pod = k /\ inf.then = "createFailed"

\* cleanupPodContainers ends with the removal of the pod's directory.
VolumesRemoved(k) == inf.pc = "clean" /\ inf'.pc # "clean" /\ inf.pod = k /\ faults'.crashes = faults.crashes

Record ==
  /\ starts' = [k \in Pods |-> [n \in 1 .. MaxInc |-> [i \in Mains |->
                  IF /\ Started(k, i)
                     /\ ctr'[k][i].inc = n
                     /\ starts[k][n][i] < StartCap
                  THEN starts[k][n][i] + 1 ELSE starts[k][n][i]]]]
  /\ initOk' = [k \in Pods |-> [i \in Inits |->
                  IF Succeeded(k, i) THEN ictr[k][i].inc ELSE initOk[k][i]]]
  /\ dirs' = [k \in Pods |-> IF VolumesRemoved(k) THEN {} ELSE dirs[k] \cup Mounting(k)]

HistoryNext == Next /\ Record
HistorySpec == HistoryInit /\ [][HistoryNext]_<<vars, historyVars>>

-----------------------------------------------------------------------------
\* Under restartPolicy Never a container is started at most once per life of
\* the kubelet process, whatever calls fail, however often the pod is updated,
\* resynced or relisted (onAdd creates, onUpdate does not, handleRestarts
\* returns).
StartsBounded ==
  Policy = "Never" =>
    \A k \in Pods, n \in 1 .. MaxInc, i \in Mains : starts[k][n][i] <= 1 + faults.crashes

\* Init containers run before the containers and in their order: an init
\* container is started only when those before it have succeeded for the same
\* incarnation, and a container, by CreatePod or by a later restart, only when
\* all of them have.  The second half holds while the tool works, the process and
\* its watch stay up, and no pass of periodicStatusSync meets a deletion: a call
\* that fails may leave a container to the next pod of the name, which takes it
\* for its own (onAdd) and restarts it.
InitsFirst(k, i) ==
  InitStarted(k, i) =>
    \A j \in 1 .. (i - 1) : initOk[k][j] = ictr'[k][i].inc
InitsBeforeMain(k, i) ==
  Started(k, i) /\ faults.calls + faults.crashes + faults.losses = 0 /\ ~raced[k] =>
    \A j \in Inits : initOk[k][j] = ctr'[k][i].inc
InitsBeforeMains ==
  [][\A k \in Pods : /\ \A i \in Inits : InitsFirst(k, i)
                     /\ \A i \in Mains : InitsBeforeMain(k, i)]_<<vars, historyVars>>

\* An emptyDir is empty when a pod's first container starts and is the pod's own
\* after that: no container starts over files of an earlier pod of the name, as
\* long as the process and its watch stay up and no pass meets a deletion.
EmptyDirIsFresh ==
  [][\A k \in Pods : faults.crashes + faults.losses = 0 /\ ~raced[k]
                       => \A n \in Mounting(k) : dirs[k] \subseteq {n}]_<<vars, historyVars>>
=============================================================================
