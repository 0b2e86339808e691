# A verification model of apple-container-kubelet

`apple-container-kubelet` is a virtual kubelet: it registers a node, watches the
pods bound to it, and runs every container of a pod as a container of the macOS
`container` tool. This directory holds TLA+ models of the parts of it that are
hard to test, the TLC runs that check them, and theorems checked by TLAPS.

Paths below are relative to `src/`.

## Inventory

| Part | State | Operations | Talks to |
| --- | --- | --- | --- |
| Pod controller, `pkg/provider/controller.go` | the informer's store (client-go) | `onAdd`, `onUpdate`, `onDelete`, `reconcilePod`, `periodicStatusSync`, `handleRestarts`, `updatePodStatus`, `syncPodStatus` | provider, container tool, API server |
| Pod provider, `pkg/provider/provider.go` | `podsByKey`; restart count, last restart, last state and previous logs by container ID | `CreatePod`, `UpdatePod`, `DeletePod`, `GetPodStatus`, `GetPods`, `restartContainer`, `cleanupPodContainers`, `waitForStop`, `shouldBackoff` | container tool, probes |
| Probes, `pkg/provider/probes.go` | successes and failures in a row, by probe | `checkReadiness`, `checkLiveness`, `clearProbeState`, `evaluateProbe` | containers (exec, HTTP, TCP) |
| Runtime adapter, `pkg/hypervisor` | none (the tool's containers, by name) | `Run`, `Stop`, `Kill`, `Remove`, `Inspect`, `Logs`, `Exec`, `ExecInteractive` | the `container` tool |
| Kubelet server, `pkg/server/server.go` | none; per request the streams, the process and the connection | `handleContainerLogs`, `handleExec`, `writeExecStatus`, TLS setup | adapter, `PreviousLogs` |
| Node, `cmd/containerd-shim-applevm-v2/main.go` | none; the Node object is the API server's | `registerNode`, `heartbeat`, `main` | API server |
| Configuration and run options, `config/config.go`, `buildRunOpts` in the provider | none | `Load`, `buildRunOpts`, `resolveEnvFrom`, `resolveVolumes` | API server (ConfigMaps, Secrets), the pod's directory |

How they interact. The informer runs its handlers one at a time on one
goroutine, for all pods: a handler may take minutes (it runs init containers to
completion and waits for containers to stop). `periodicStatusSync` runs on
another one, every ten seconds, over copies of the pods that are tracked at the
tick. `cleanupPodContainers` starts a goroutine per container and waits for all.
They share `podsByKey` and the restart maps under a mutex, the probe counters
under nothing, and the containers themselves, the real state, under nothing.
Everything the process knows is in memory: after a restart it finds the pods in
the API server's list and the containers by name. A status is written by both
goroutines (`syncPodStatus`), each write a read and an update that fails when
somebody has written in between; the watch brings it back into `podsByKey`. The
heartbeat does the same with the node. Requests to the server run on goroutines
of their own and share nothing but the process.

What is hard: a pass restarting what a handler is removing; a name that is used
again while its predecessor is torn down; deletion marks that arrive while a
creation is at work; every call of the tool may fail; the process may stop
anywhere; the watch may be lost and the relist skip what happened; liveness in
spite of all that. `PROJECT.json` lists the hazards, each at its line, with the
properties that are about it.

What makes each part correct:

* controller and provider: the containers that exist are those of the tracked
  incarnation; init containers first; nothing is taken from the API server
  before it is cleaned up; a failure or a restart of the kubelet kills nothing
  that runs; handlers end; what is deleted is let go; what has exited runs again;
* restart bookkeeping: restarts keep their distance, windows close, and what is
  kept of "the previous run" is of the previous run;
* probes: Ready is earned by this run of the container, only a failure kills,
  and both follow what the probes find in the end;
* status: what is published follows the containers in the end, whoever else
  writes to the pod, and a failed creation is told;
* node: registration and heartbeat take nothing from other writers, and a node
  that was marked comes back;
* exec: the client is told at most once, truly, and after the last of the output
  how its command ended; requests end and leave no command behind;
* logs: a reply that ends is whole, requests end and leave no process behind;
* volumes: an emptyDir is not the previous pod's.

## Modules

| Module | What it is |
| --- | --- |
| `ContainerCLI` | The tool as `pkg/hypervisor` uses it: a container is a state and the incarnation it was run for; `Run`, `Stop`, `Kill`, `Remove`, `Inspect` are the sets of outcomes a call can have |
| `PodLifecycle` | Controller and provider: one action per call of the tool or the API server, for the informer's handlers (`inf`), the clean-up goroutines (`clean`) and the periodic pass (`per`); the API server's users, the watch, the processes and the kubelet's stop and start around them |
| `LifecycleHistory` | The same with three history variables: how often a container was started, which init containers have succeeded, and whose files the pod's directory of volumes holds |
| `MCLifecycle` | `LifecycleHistory` with two interchangeable pods, for TLC |
| `LifecycleClaims` | Three sentences of the repository that the code does not keep |
| `PodLifecycleProofs`, `LifecycleHistoryProofs` | Theorems about `PodLifecycle` and about `LifecycleHistory` |
| `Probes`, `ProbeClaims` | The probe counters of one container and the two goroutines that evaluate its probes; one claim about the initial delay |
| `ProbesProofs`, `CrashLoopProofs` | Theorems about `Probes` and about `CrashLoop` |
| `CrashLoop` | The restart of one container with time: backoff, restart count, previous logs, last state |
| `PodStatus` | The way of a status: `GetPodStatus`, `syncPodStatus` and `updatePodStatus`, every call a step, by the informer's goroutine and the pass, with the watch, other writers and crashes around them |
| `NodeHeartbeat` | `registerNode` and `heartbeat`, every call a step, with the node controller and other writers |
| `StatusWrites` | Both of these: what the kubelet writes to the API server |
| `NodeHeartbeatProofs`, `StatusWritesProofs` | Theorems about `NodeHeartbeat` and about `StatusWrites` |
| `ExecRequest` | Abstract: what a client of the exec endpoint is promised about one request |
| `ExecSession` | How `handleExec`, `writeExecStatus`, `ExecInteractive` and `execWithPTY` keep it: the handler, the arrival of streams, the copies in both directions, the command, the client |
| `ExecSessionProofs` | Theorems about `ExecSession`, the refinement among them |
| `ExecClaims` | One sentence about a closed stdin that the code does not keep |
| `LogSession` | `handleContainerLogs` with the `container logs` process and the pipe between them |
| `KubeletServer` | One request of either kind, as `Server.Run` routes it |
| `KubeletServerProofs` | Theorems about `KubeletServer`: log requests, and exec requests as the server serves them |

`PodLifecycle` EXTENDS `ContainerCLI`. `KubeletServer` EXTENDS `ExecSession` and
has `LogSession` as an instance over the same client, connection and process;
`StatusWrites` EXTENDS `PodStatus` and has `NodeHeartbeat` as an instance. In both
a behaviour is that of one of the two parts (`route`, `object`): the goroutines
share nothing that either part's steps would read or write, so that interleaving
them would multiply the states and show nothing more. The one way from the node to
its pods, the node controller's marking, is an action of `PodStatus`
(`MarkNotReady`) that may happen at any time.

State and code:

* `tracked[k]` is `podsByKey`, as the incarnation (UID) it holds, 0 for none;
  `store` and `queue` are the informer's; `api` is the API server's object,
  `del` its DeletionTimestamp; `restarted` stands for the two restart maps,
  whose content is in `CrashLoop`.
* `inf.pc` names the next call of the handler that runs: `addInspect` (onAdd's
  Inspect), `reconcile`, `initRm`/`initRun`/`initWait`/`initRm2`,
  `mainRm`/`mainRun`, `register` (CreatePod), `clean` (cleanupPodContainers, with
  `clean[i]` at `stop`, `kill`, `wait`, `rm`, `rm2`, `done`), `apiDelete` (the
  forced deletion). `inf.then` says what follows a clean-up.
* `per.todo` are the copies of a pass; `per.seen` the statuses it works from.
* In `Probes`, `work[w].at` is which evaluation goroutine `w` is at: `first`
  (readiness, in handleRestarts), `live`, `last` (readiness, in GetPodStatus);
  `work[w].step` is how far `evaluateProbe` is: `run` (the probe), `store` (one counter
  was loaded and its successor is to be stored), `reset` (of the other), `read` (both,
  for the verdict). Nothing locks the maps, so these steps of the two goroutines
  interleave as they like. `CallFails` is what an Inspect, Kill, Get or UpdateStatus
  that fails makes of a pass.
* In `CrashLoop` the `inc` of a container is the number of its run, so that
  "logs of the run before" can be said; `prev` and `last` are the runs whose logs and
  state are kept, 0 for none. `hv.Logs` only starts the tool: what a tool that then
  fails has to say is kept as if it were the log, so `prev` is 0 after it. `pass` is at
  `look` as soon as the pass has its copies, and the pod may be gone when it looks.
* In `PodStatus`, a worker's `at` says which call of `syncPodStatus` is next:
  `fetch` (for the pass; the informer's goroutine finds what it has just tracked)
  and `look` (GetPodStatus takes the pod under the lock and writes to it without),
  `get`, `write`; `orphan` is a `look` whose pod is no longer the one in
  `podsByKey`. `fresh` is what a comparison of resource versions will find.
  `handling` is what the informer's handler does before: `create`, `clean`, `clean,
  delete`, `fail` (updatePodStatus). A status is its phase and its Ready condition,
  which may be missing. CreatePod and the clean-up are one step here, their calls
  being in `PodLifecycle`; so are the Inspects and probes of one GetPodStatus
  (`Look`), one of which may fail.
* In `NodeHeartbeat`, `main` is the next call of `registerNode` and then `up`;
  `mine` is the node as it was read, `latest` whether it still is the latest.
* In `ExecSession`, `pc` is where `handleExec` is: `select`, `start`, `wait`
  (ExecInteractive), `close` (stdout and stderr), `status`, `end` (the deferred
  close), `done`. `want` is what the client asks for and `Parsed(want, names)` what
  lines 177-191 make of its query: `input` and `output` are read for stdin and stdout,
  but stderr has no second name, so that a client which uses those names has its stderr
  left out of the count (`Misread`). The client opens the streams of what it asked
  (`due`), and the handler takes and counts them all; `given` are those it had when it
  called ExecInteractive. In `LogSession`, `at` likewise.

Operators named `...Bug` are deliberate mistakes, used to confirm that a property
would notice: each stands before the definition it replaces.

## Runs

Every run that passes explores its whole state space. Bounds are constants and
stand in the guards of the environment's actions only, but for `MaxBehind`, which
bounds what may wait when the ticker of `PodStatus` fires.

| Run | Bounds | Shows |
| --- | --- | --- |
| `lifecycle` | 1 pod, 2 init and 2 main containers, 2 incarnations, liveness probes, no faults; 1.4 million states | `ContainersMatchTracking`, `InitsBeforeMains`, `RemovedAfterCleanup`, `EmptyDirIsFresh`, `TypeOK` |
| `lifecycle_never` | 2 pods, policy Never, 1 fault of each kind; 1.3 million states (pods symmetric) | `StartsBounded` |
| `lifecycle_live` | 1 + 1 containers, 2 incarnations, 2 failing calls and 1 crash, or 1 lost watch (`MaxFaults`); 194 000 states, fair | `TrackedIsStored`, `FailureKillsNothing`, `HandlersEnd`, `TerminatingEnds`, `ExitedIsRestarted`, `DeletedIsReleased` |
| `probes` | readiness threshold 2, failure threshold 2, counters to 2, 1 reuse of the name, 1 crash or failing call; 612 000 states, fair, deadlock checked | `ReadyIsEarned`, `OnlyFailuresKill`, `HealthyGetsReady`, `UnhealthyIsKilled`, `TypeOK` |
| `crashloop` | the real cap of 30 x 10 s, 7 exits, 1 failing call, 1 replacement, 1 crash; 983 000 states, fair | `BackoffHonoured`, `StableIsNotBackedOff`, `LastStateIsPast`, `PreviousIsPredecessor`, `WindowsClose`, `TypeOK` |
| `server` | every query, by either set of names, 3 exit codes, 3 pieces of log, a pipe of 2; 31 000 states, fair | `ImplementsExecRequest`, `StreamsAreThere`, `OutputBeforeStatus`, `NoCommandLeft`, `EndedStdinEndsRequest`, `ExitEndsRequest`, `LogIsWhole`, `NoLogProcessLeft`, `LogRequestEnds`, `ServerTypeOK` |
| `status` | 2 containers, one with a readiness probe, 2 incarnations, no event waiting when others write and at most 1 when the ticker fires, 2 faults (calls that fail, writes of others, crashes together); for the node 2 failing calls and 2 writes of others; 236 000 states, fair | `ReadyIsPublished`, `UnreadyIsPublished`, `RunningIsPublished`, `FailureIsTold`, `OthersAreKept`, `NodeComesBack`, `StatusTypeOK` |
| `claim_teardown` | no faults | violated: a pass restarts a container during its clean-up |
| `claim_terminating` | no faults, fair | violated: a pod whose creation fails after its deletion mark stays Terminating |
| `claim_always` | 1 failing call, fair | violated: one failed `run` in a restart ends all restarts |
| `claim_initial_delay` | none | violated: a liveness probe kills in its initial delay |
| `claim_stdin` | every query, 2 exit codes, fair | violated: a command that reads on a terminal runs on when its client has ended its stdin or left |

Why the bounds are enough. Two incarnations are what reuse of a name needs: the
second meets what is left of the first. The goroutines meet over one pod; a second
one adds only that the informer is busy elsewhere, which `lifecycle_never` has and
which, for one pod, is a handler that is not scheduled. Two containers are what "all
of them" and "one after the other" need, two init containers what their order needs.
Two failing calls are a call and its retry or its fallback (`Stop` and `Kill`,
`Remove` and its retry). Seven exits take the backoff through 10 s, 20 s, ..., 160 s
to its cap and one restart beyond it. In `status` two faults are a crash and a
failing call after it, or a foreign write in each of two read-modify-writes. Users
and the node controller act when fewer than `MaxQueue` events wait, which bounds
neither what handlers and passes add nor what waits after it. The ticker does not
look at the queue; it fires when fewer than `MaxBehind` events wait. With 2 it fires
also while one event waits behind the one that was just handled, so that `podsByKey`
is older than what the API server has: what a third would add is a `podsByKey` that
is older still, which a pass cannot tell. At 1 the case that `Overtaken` names
(below) would be cut off. A pod of the last incarnation is deleted by force only: no
later pod follows whose course its deletion could change. In `probes` the counters
stop at the thresholds, above which the code does not tell one value from another;
two goroutines, each with one load, one store and one reset to interleave, need one
failure among the successes. The fault is a crash or a failing call, which no
property excuses. Requests to the server share nothing, so one is all; three pieces
of log are one in the pipe's place more than it holds.

Deadlock is not checked in the lifecycle runs, in `crashloop` and in `status`: with
nothing tracked and no more pods or writes by the bound, the kubelet rightly has
nothing to do; nor in `server`, where a request that has ended has no next step.

Exceptions. Several properties name a circumstance in which the code does not keep
them: `ContainersMatchTracking` and `RemovedAfterCleanup` except a pod that was
untracked while a pass held its copy (`raced`), failing calls, and, for the first,
crashes and lost watches; `TrackedIsStored`, `DeletedIsReleased` and
`ExitedIsRestarted` except lost watches; `ReadyIsEarned`, until the next failure or
restart leaves no doubt, except a reused name, a success that was on its way while
the container was replaced, and one that was loaded before the other goroutine's
failure was counted and stored after it; `InitsBeforeMains`, of the containers, like
`ContainersMatchTracking`, and `EmptyDirIsFresh` also, but for failing calls;
`FailureIsTold` when somebody writes to the pod, a call fails or the name's previous
status is on its way while `updatePodStatus` makes its one attempt, when a later pod
comes, and when a pass works from the tracked pod of before (`Overtaken`: a foreign
write during the creation waits in the queue ahead of the one that says Failed;
handled, it makes the tracked pod Pending, and a pass then writes Pending over
Failed, for good); `ReadyIsPublished` except a status without a Ready condition (a
pod adopted before its first status was written has none, and GetPodStatus adds
none); `StreamsAreThere` except the one stream that was not counted; `NoCommandLeft`
except a stopped process and a terminal without a stdout, whose copy panics;
`ExitEndsRequest` except a silent client whose stdin is being copied without a
terminal; `EndedStdinEndsRequest` except a terminal, which is not told
(`claim_stdin`). Every one of these circumstances is reachable in the model, and is
listed as a hazard; the worst contradictions of a sentence of the repository are
runs of their own.

## Fairness

* Handlers, clean-up goroutines, the pass: weak fairness, a goroutine that can go
  on does, since every call of the tool returns (the code sets deadlines where it
  waits for a container, and the tool is a process that ends).
* The ticker ticks: weak fairness of `Tick`.
* Events of a pod are handled, `SF(Pop(k))`: the informer's queue is first in,
  first out, so no pod waits for ever behind others; strong, because the
  goroutine is busy in between.
* A list succeeds in the end; the reflector retries.
* Init containers exit. The code has no timeout for them, and nothing can be
  promised without this.
* A backoff window closes, `SF(WindowClosed(k, i))`: `PodLifecycle` has no clock.
  `CrashLoop` has one, and `WindowsClose` there is what justifies this.
* In `PodStatus` both goroutines go on: the ticker ticks, and an informer with an
  empty queue resyncs in the end (`Resync`, the informer's period). The ticker of the
  heartbeat ticks (`Heartbeat`), and `registerNode` goes on (`Register`).
* A handler of the server goes on and its copies do; the context of a log request
  whose client has left ends (net/http; that of an exec request does not, being
  hijacked), and `container logs` without `-f` ends. Of commands only those are assumed
  to exit that read to the end of their stdin and have seen it, unless they are blocked
  on a terminal nobody reads. A command that does not read may run for ever, whether its
  client is there or not: nothing in the code ends it. Nothing is asked of the client:
  it need not open its streams, type, end its stdin or leave.
* Nothing is assumed of users, of processes (a container need not exit), of
  failing calls or of crashes.

## Proofs

Every type invariant, safety invariant and action property that a run checks is a
theorem too, and so is the one refinement: TLC shows it on the run's instance, the
proof for every value of the constants that meets the named assumption
(`ConstantsAssumption`, `CrashLoopConstants`, `ProbeConstants`, `ExecConstants`,
`Log!LogConstants`, `StatusConstants`, `Node!NodeConstants`), which TLC evaluates in
the runs. Every invariant below was given to TLC before it was proved.

`PodLifecycleProofs`, for any number of pods, containers, init containers,
incarnations, failing calls, crashes and lost watches:

* `TypeCorrect`: `TypeOK` is inductive as it stands since it includes `AtWork`,
  which ties the index of a loop to the place in the handler.
* `TrackedIsStoredAlways`, from `TrackInv`: no tombstone is queued and the only list
  is made over an empty store (`FeedInv`), and a handler that is going to track a pod
  has the incarnation that is in the store (`CreatingInv`). The steps that matter are
  `Pop` (a handler starts as the store changes), `Reconcile` and `Register` (the pod
  becomes tracked after a long time in which its store entry cannot change, the
  goroutine being busy) and `KubeletRestart`.
* `RemovedAfterCleanupAlways`, from `DeleteInv`: what each stage of a clean-up says of
  its container (`CleanInv`), that a pod under deletion is not tracked
  (`UntrackedInv`), and that a pass has only tracked pods unless it is `raced`
  (`RaceInv`): a pass that could start the container again cannot exist.
* `FailureKillsNothingAlways`, for one container per pod (`FailInv`). With two it is
  false: the clean-up is there to remove the one that did start.
* `ContainersMatchTrackingAlways`, from `LifeInv`, the conjunction of all these with
  three more: events follow each other so that an incarnation is deleted before the
  next is put (`ChainInv`), a pass has the incarnation that is tracked (`HeldInv`),
  and whose the containers are at every place of a handler (`MatchInv`: of the tracked
  incarnation where no handler is, of the one being created up to the loop's index,
  anything under deletion).

The case analysis is shared: `Feeds`, `Owns`, `Goes`, `BoxElsewhere` and `CleanStepIs`
say once what any step can do to a key's events, its entry in `podsByKey`, the
informer's goroutine and a container.

`LifecycleHistoryProofs`, about what `HistorySpec` remembers (`HistoryIsLifecycle`:
a lifecycle with its history is a lifecycle, so that the theorems above hold of it):

* `StartsBoundedAlways`, from `HistInv`. Under Never, an incarnation still has its one
  start of a container in this life of the process while it may come to onAdd
  (`Fresh`) or while its creation has not run the container (`ToRun`). That onAdd does
  not have it twice, whatever a relist repeats, needs the order of incarnations from
  the store through the queue to the API server (`OrderInv`, `FreshLost`).
* `EmptyDirIsFreshAlways`, from `DirsInv`: the directory has files of the tracked or
  created incarnation only, and none where its predecessor's clean-up has ended.
* `InitsBeforeMainsAlways`, from `InitsInv` (the creation is past an init container
  only when it has succeeded for it, and is not running: a later exit could not
  change that), `SeenInv` and `DoneInv` (a container that is there, or was seen by a
  pass, is of an incarnation whose init containers have all succeeded).

  An earlier form of `InitsBeforeMain` allowed failing calls. Its proof failed, and TLC
  confirms why: failing calls may leave a container running at the end of a clean-up;
  the next pod of the name takes it for its own (onAdd) and, when it has exited, a pass
  restarts it, though that pod's init containers never ran. The property now says
  "while the tool works".

`CrashLoopProofs`, for any bounds and, where it matters, any cap: `CrashLoopTypeCorrect`,
`LastStateIsPastAlways`, `PreviousIsPredecessorAlways` (what an undisturbed restart has
captured at each of its places, `CaptureInv`), `StableIsNotBackedOffAlways`, and
`BackoffHonouredAlways` for `MaxBackoff >= 30`, in units of 10 s: a cap below the
schedule's last entry would of course break the schedule; the code's is 300 s. The
doubling of the delay is a recursive function; that it is bounded and agrees with the
schedule is proved by induction through the least element of a set
(`LeastNumber`, `SetInduction`), which takes no operator as a parameter.

`ProbesProofs`, for any thresholds, delay and bounds: `ProbesTypeCorrect`,
`ReadyIsEarnedAlways` and `OnlyFailuresKillAlways`. The invariant says that the
successes which are kept, and those a goroutine has loaded and will store, are no more
than this run of the container had in a row, unless they are in doubt (`EarnedInv`);
that in the initial delay of the first pod of a name nothing is kept or about to be
(`DelayInv`); and what the liveness counters, which only one goroutine uses, are at each
step of an evaluation (`LiveInv`). `doubtful` is set exactly where a goroutine resets or
restarts while the other holds a success, and by reuse of the name, and cleared by the
next reset or restart where it holds none.

`ExecSessionProofs`, for any set of exit codes:

* `ExecTypeCorrect`, `ExecStreamsAreThere`: `arrived` is the number of streams that
  came, whichever they are, and the number `handleExec` waits for is that of all the
  streams the client opens, less one where stderr was asked for by a name that is not
  read. So when the count is reached all have come, or all but one; the one that is
  missing may be the error stream, and `StatusPanics` is what happens then. With an
  older protocol, which has no resize stream, the count of a TTY's query is never
  reached and the request times out.
* `ExecOutputBeforeStatus`, `ExecNoCommandLeft`, from an invariant that says at each
  place of the handler what the command and the copies may still do.
* `SessionImplementsRequest`: `Spec => ImplementsExecRequest`. The mapping is by name
  (`command`, `code`, `answers`, `open`); the invariant supplies that no status was
  written before the handler is at `status`, that the command has exited there, and
  that a client which is there has its connection. Each action is a step of
  `ExecRequest` or leaves these four variables alone.

`KubeletServerProofs`, also for any length of log and size of the pipe: all of these
for a request to the server (`ServerExecSafe`, `ServerImplementsRequest`), and of log
requests `LogIsWholeAlways` and `NoLogProcessLeftAlways`, from what has been read and
sent at each place of the handler (`CopyInv`, `LeftInv`).

`NodeHeartbeatProofs`, for any number of failing calls and writes of others:
`NodeTypeCorrect` and `OthersAlwaysKept`. The latter rests on `ReadIsLatest`, part of
`TypeOK`: a node that nobody has written to since it was read is the one that was
read, so that writing it back takes nothing from anybody. `StatusWritesProofs` carries
both over to the composition (`OthersStayKept`) and adds the types of `PodStatus`
(`StatusTypeCorrect`), whose invariant has to say what the informer's goroutine is
handling (`Handled`).

Model-checked only: liveness, which is out of the prover's reach: `HandlersEnd`,
`TerminatingEnds`, `ExitedIsRestarted`, `DeletedIsReleased`, `WindowsClose`,
`HealthyGetsReady`, `UnhealthyIsKilled`, `EndedStdinEndsRequest`, `ExitEndsRequest`,
`LogRequestEnds`, and what `status` checks but for `OthersAreKept` and the types.

## Findings

Five claims of the repository fail, by the runs above: a comment on `DeletePod`
(teardown race), a comment on the forced deletion (stuck Terminating), the README
on restart policies (a failed run ends restarts), a comment on the initial delay of
probes (killed while "skipped") and a comment on a closed stdin (a command on a
terminal does not exit of it). `PROJECT.json` quotes each.

## Not modelled

* Run options: `buildRunOpts`, `resolveEnvFrom` and `resolveVolumes` apart from the
  directory of an emptyDir. They translate a spec, with what the API server has for
  it, into arguments and files, and keep no state; what is delicate about them
  (rounding of limits, order of overrides, keys that were removed) is a matter of
  values, which the models do not have.
* Of a status: messages, IPs, start times, restart counts (the last are in
  `CrashLoop`). The 30 s deadline of the clean-up's context, of which an expired one
  looks like failing calls.
* States of a container that `hypervisor.go` does not name. One would be reported as
  Waiting, as a failing Inspect is, and neither probed nor restarted.
* The single Inspects, probes and writes within one GetPodStatus, in `PodStatus`; the
  probes are in `Probes`, and what an update in the middle of them does is `orphan`.
* That GetPodStatus adds no Ready condition is in `PodStatus`, but no run shows the pod
  it leaves without one; the hazard at `provider.go:236` describes it.
* The SPDY handshake and `UpgradeResponse`, a stream of a type that is not known, two
  streams of one type, and terminal resizing, which the code ignores.
* TLS and configuration, which are read once at the start, and the detection of the
  node's address and capacity. What stops the tool from being called at all (a
  missing binary) is a failing call.

## Plan

1. `PodService`, an abstract specification of what the node does with a pod
   (absent, started, running, gone), and `PodLifecycle` without races shown to
   implement it, by a run and by a proof from `LifeInv`.
2. Safety lemmas that the liveness properties of `PodStatus` rest on: what an event
   in the queue and a copy in a worker's hands may be older than.
