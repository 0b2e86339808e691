----------------------------- MODULE PodStatus -----------------------------
(***************************************************************************)
(* How the status of a pod reaches the API server: GetPodStatus and        *)
(* inspectContainerStatuses of pkg/provider/provider.go, syncPodStatus,    *)
(* updatePodStatus and the places that call them in                        *)
(* pkg/provider/controller.go.                                             *)
(*                                                                         *)
(* A status goes round: a worker, the informer's goroutine "inf" or the    *)
(* periodic pass "per", takes it from the tracked pod, brings it up to     *)
(* date with what it sees of the containers and writes it to the API       *)
(* server; the watch brings it back, and UpdatePod makes it the tracked    *)
(* pod's again.  Others write to the pod meanwhile.                        *)
(*                                                                         *)
(* There is one name, used again after its pod was deleted.  A status is   *)
(* its phase and its Ready condition.  What happens to containers is in    *)
(* PodLifecycle; here they are started, restarted and removed in one step. *)
(*                                                                         *)
(* Resource versions are compared and never counted: `fresh` says that     *)
(* nobody has written since a worker has read.                             *)
(*                                                                         *)
(* Definitions whose names end in Bug: see PodLifecycle.                   *)
(***************************************************************************)
EXTENDS Naturals, Sequences

CONSTANTS
  NMain,    \* containers of the pod
  Probed,   \* those that have a readiness probe
  NoPod,
  MaxInc,   \* bound: incarnations, and one less marked deleted
  MaxQueue, \* bound: others act while fewer events than this wait
  MaxBehind, \* bound: and the ticker, which does not look at them, fires while
            \* fewer than this do
  MaxFaults \* bound: calls that fail, writes of others and crashes

VARIABLES
  api,      \* the API server's pod
  created,  \* how many incarnations there have been
  faults,   \* what has gone wrong so far
  up,       \* the controller runs
  store,    \* the informer's store
  queue,    \* its queue
  tracked,  \* podsByKey
  cs,       \* the containers: "none", "starting", "serving", "stopped"
  handling, \* what the informer's goroutine does: "none", "create", "clean", "clean, delete", "fail"
  work      \* status writes in progress

bounds == <<created, faults>>
vars == <<api, bounds, up, store, queue, tracked, cs, handling, work>>

C == 1..NMain
Workers == {"inf", "per"}
Phase == {"Pending", "Running", "Failed"}
Status == [phase : Phase, ready : {"none", "true", "false"}]
Pod == [inc : 1..MaxInc, del : BOOLEAN, st : Status]
NoStatus == [phase |-> "Pending", ready |-> "none"]

ASSUME StatusConstants ==
  /\ NMain \in Nat \ {0}
  /\ Probed \subseteq 1..NMain
  /\ \A n \in {MaxInc, MaxQueue, MaxBehind, MaxFaults} : n \in Nat
  /\ NoPod \notin Pod

Runs(c) == c \in {"starting", "serving"}

\* Only a container with a readiness probe can run and not be ready.
Possible == \A i \in C : cs[i] = "starting" => i \in Probed

\* A worker: the status of the object it got from podsByKey, if that holds
\* another by now, and then the one it writes; whether what it has read from the
\* API server is the latest.
Idle == [at |-> "idle", st |-> NoStatus, fresh |-> FALSE]

TypeOK ==
  /\ api \in Pod \cup {NoPod}
  /\ created \in 0..MaxInc /\ faults \in 0..MaxFaults
  /\ up \in BOOLEAN
  /\ store \in Pod \cup {NoPod}
  /\ queue \in Seq([gone : BOOLEAN, pod : Pod])
  /\ tracked \in Pod \cup {NoPod}
  /\ cs \in [C -> {"none", "starting", "serving", "stopped"}]
  /\ handling \in {"none", "create", "clean", "clean, delete", "fail"}
  /\ work \in [Workers -> [at : {"idle", "fetch", "look", "orphan", "get", "write"},
                           st : Status, fresh : BOOLEAN]]
  /\ \A w \in Workers : /\ work[w].at = "look" => tracked # NoPod
                        /\ work[w].fresh => work[w].at = "write" /\ api # NoPod
  /\ ~up => tracked = NoPod /\ queue = <<>> /\ handling = "none"

Init ==
  /\ api = NoPod
  /\ created = 0 /\ faults = 0
  /\ up = FALSE
  /\ store = NoPod /\ queue = <<>> /\ tracked = NoPod
  /\ cs = [i \in C |-> "none"]
  /\ handling = "none"
  /\ work = [w \in Workers |-> Idle]

-----------------------------------------------------------------------------
(* The API server.                                                         *)

Fault == faults < MaxFaults /\ faults' = faults + 1

\* A write: whoever has read before it will find a conflict, and the watch
\* reports it.
Emit(e) == queue' = IF up THEN Append(queue, e) ELSE queue
Stale(ws) == [w \in Workers |-> [ws[w] EXCEPT !.fresh = FALSE]]
Put(pod) == api' = pod /\ Emit([gone |-> FALSE, pod |-> pod])
Gone == api' = NoPod /\ Emit([gone |-> TRUE, pod |-> api])

Room == Len(queue) < MaxQueue

ApiCreate ==
  /\ Room
  /\ api = NoPod
  /\ created < MaxInc
  /\ created' = created + 1
  /\ Put([inc |-> created + 1, del |-> FALSE, st |-> NoStatus])
  /\ UNCHANGED <<faults, up, store, tracked, cs, handling, work>>

\* A user deletes the pod; the last one by the bound is deleted by force only.
ApiMarkDeleted ==
  /\ Room
  /\ api # NoPod /\ ~api.del /\ created < MaxInc
  /\ Put([api EXCEPT !.del = TRUE])
  /\ work' = Stale(work)
  /\ UNCHANGED <<bounds, up, store, tracked, cs, handling>>

\* Somebody changes the pod's metadata, or deletes it by force.
Touch ==
  /\ Room
  /\ api # NoPod
  /\ Fault
  /\ Put(api) \/ Gone
  /\ work' = Stale(work)
  /\ UNCHANGED <<created, up, store, tracked, cs, handling>>

\* The node controller, which has not heard of the node, takes Ready from its
\* pods.
MarkNotReady ==
  /\ Room
  /\ api # NoPod /\ api.st.ready = "true"
  /\ Put([api EXCEPT !.st.ready = "false"])
  /\ work' = Stale(work)
  /\ UNCHANGED <<bounds, up, store, tracked, cs, handling>>

-----------------------------------------------------------------------------
(* The informer's goroutine.                                               *)

InfIdle == up /\ handling = "none" /\ work["inf"].at = "idle"

ReplacedBug(ws) == ws                   \* asks podsByKey again

\* podsByKey will hold another object, or none: who works on the one it held
\* keeps that.
Replaced(ws) ==
  [w \in Workers |-> IF ws[w].at = "look" THEN [ws[w] EXCEPT !.at = "orphan", !.st = tracked.st]
                     ELSE ws[w]]

Untrack == tracked' = NoPod /\ work' = Replaced(work)

OnAdd(pod) ==
  \/ /\ pod.del
     /\ Untrack
     /\ handling' = "clean, delete"
     /\ store' = pod
  \/ /\ ~pod.del
     /\ Runs(cs[1])
     /\ \A i \in C : cs[i] # "none"
     /\ LET adopted == [pod EXCEPT !.st.phase = "Running"]
        IN  store' = adopted /\ tracked' = adopted
     /\ work' = [Replaced(work) EXCEPT !["inf"].at = "look"]
     /\ UNCHANGED handling
  \/ /\ ~pod.del
     /\ Runs(cs[1])
     /\ \E i \in C : cs[i] = "none"
     /\ store' = pod
     /\ handling' = "fail"
     /\ UNCHANGED <<tracked, work>>
  \/ /\ ~pod.del
     /\ ~Runs(cs[1])
     /\ store' = pod
     /\ handling' = "create"
     /\ UNCHANGED <<tracked, work>>

\* UpdatePod tracks the watch's copy, with the status it has.
OnUpdate(pod) ==
  /\ store' = pod
  /\ \/ pod.del /\ tracked # NoPod /\ Untrack /\ handling' = "clean, delete"
     \/ pod.del /\ tracked = NoPod /\ UNCHANGED <<tracked, work, handling>>
     \/ ~pod.del /\ tracked' = pod /\ work' = Replaced(work) /\ UNCHANGED handling

OnDelete ==
  /\ store' = NoPod
  /\ \/ tracked # NoPod /\ Untrack /\ handling' = "clean"
     \/ tracked = NoPod /\ UNCHANGED <<tracked, work, handling>>

Pop ==
  /\ InfIdle
  /\ queue # <<>>
  /\ queue' = Tail(queue)
  /\ LET e == Head(queue)
     IN  \/ e.gone /\ OnDelete
         \/ ~e.gone /\ store = NoPod /\ OnAdd(e.pod)
         \/ ~e.gone /\ store # NoPod /\ OnUpdate(e.pod)
  /\ UNCHANGED <<api, bounds, up, cs>>

\* A resync, which passes over a pod with events: the store's pod again.
Resync ==
  /\ InfIdle
  /\ queue = <<>>
  /\ store # NoPod
  /\ OnUpdate(store)
  /\ UNCHANGED <<api, bounds, up, queue, cs>>

\* CreatePod writes the status into the object it was given, which is the
\* informer's own, and tracks a copy.
Create ==
  /\ up /\ handling = "create"
  /\ \A i \in C : ~Runs(cs[i])
  /\ cs' \in [C -> {"starting", "serving"}] /\ Possible'
  /\ LET pod == [store EXCEPT !.st = [phase |-> "Running",
                                      ready |-> IF Probed = {} THEN "true" ELSE "false"]]
     IN  store' = pod /\ tracked' = pod
  /\ handling' = "none"
  /\ work' = [Replaced(work) EXCEPT !["inf"].at = "look"]
  /\ UNCHANGED <<api, bounds, up, queue>>

\* A container that runs is not removed, and its name is taken.
CreateFails ==
  /\ up /\ handling = "create"
  /\ \/ (\E i \in C : Runs(cs[i])) /\ UNCHANGED faults
     \/ Fault
  /\ cs' = [i \in C |-> "none"]
  /\ handling' = "fail"
  /\ UNCHANGED <<api, created, up, store, queue, tracked, work>>

\* updatePodStatus: a read, and a write that is not tried again.
FailGet ==
  /\ up /\ handling = "fail" /\ work["inf"].at = "idle"
  /\ \/ api = NoPod /\ handling' = "none" /\ UNCHANGED <<work, bounds>>
     \/ Fault /\ handling' = "none" /\ UNCHANGED <<work, created>>
     \/ api # NoPod /\ work' = [work EXCEPT !["inf"].at = "write", !["inf"].fresh = TRUE]
        /\ UNCHANGED <<handling, bounds>>
  /\ UNCHANGED <<api, up, store, queue, tracked, cs>>

FailWrite ==
  /\ up /\ handling = "fail" /\ work["inf"].at = "write"
  /\ handling' = "none"
  /\ \/ /\ work["inf"].fresh
        /\ Put([api EXCEPT !.st.phase = "Failed"])
        /\ work' = [Stale(work) EXCEPT !["inf"] = Idle]
        /\ UNCHANGED bounds
     \/ /\ ~work["inf"].fresh
        /\ work' = [work EXCEPT !["inf"] = Idle]
        /\ UNCHANGED <<api, queue, bounds>>
     \/ /\ Fault
        /\ work' = [work EXCEPT !["inf"] = Idle]
        /\ UNCHANGED <<api, queue, created>>
  /\ UNCHANGED <<up, store, tracked, cs>>

\* cleanupPodContainers, and then the forced deletion, by name.
Clean ==
  /\ up /\ handling \in {"clean", "clean, delete"}
  /\ cs' = [i \in C |-> "none"]
  /\ handling' = "none"
  /\ \/ handling = "clean" /\ UNCHANGED <<api, queue, work, bounds>>
     \/ handling = "clean, delete" /\ api = NoPod /\ UNCHANGED <<api, queue, work, bounds>>
     \/ handling = "clean, delete" /\ api # NoPod /\ Gone /\ work' = Stale(work) /\ UNCHANGED bounds
     \/ handling = "clean, delete" /\ Fault /\ UNCHANGED <<api, queue, work, created>>
  /\ UNCHANGED <<up, store, tracked>>

-----------------------------------------------------------------------------
(* The pass, and the status writes of both goroutines.                     *)

\* The pass takes the tracked pods, and handleRestarts sees to their containers,
\* with what PodLifecycle says of it: what has stopped runs again, or is in its
\* window, or was removed and could not be run.  In one step: only the name of the
\* pod is used after it.
Tick ==
  /\ up /\ Len(queue) < MaxBehind
  /\ work["per"].at = "idle"
  /\ tracked # NoPod
  /\ cs' \in [C -> {"none", "starting", "serving", "stopped"}] /\ Possible'
  /\ \A i \in C : cs[i] # "stopped" => cs'[i] = cs[i]
  /\ \/ (\A i \in C : cs[i] = "stopped" => cs'[i] # "none") /\ UNCHANGED faults
     \/ Fault
  /\ work' = [work EXCEPT !["per"].at = "fetch"]
  /\ UNCHANGED <<api, created, up, store, queue, tracked, handling>>

\* GetPodStatus takes the pod from podsByKey by name (the informer's goroutine finds
\* the one it has put there itself) ...
Fetch ==
  /\ up /\ work["per"].at = "fetch"
  /\ work' = [work EXCEPT !["per"].at = IF tracked = NoPod THEN "idle" ELSE "look"]
  /\ UNCHANGED <<api, bounds, up, store, queue, tracked, cs, handling>>

\* What inspectContainerStatuses says of a container that it finds, and whose
\* window is closed if it has stopped.
SeenAs(c) ==
  CASE c = "none" -> "waiting"
    [] c = "starting" -> "running"
    [] c = "serving" -> "ready"
    [] c = "stopped" -> "terminated"

PhaseOfBug(st, seen) ==                 \* Failed is final
  IF st.phase = "Failed" THEN "Failed"
  ELSE IF \A i \in C : seen[i] \in {"running", "ready"} THEN "Running"
  ELSE IF \E i \in C : seen[i] = "terminated" THEN "Failed" ELSE st.phase

PhaseOfPendingBug(st, seen) ==          \* what is not there is Pending
  IF \A i \in C : seen[i] \in {"running", "ready"} THEN "Running"
  ELSE IF \E i \in C : seen[i] = "terminated" THEN "Failed" ELSE "Pending"

\* The phase is kept when not all run and none has ended.
PhaseOf(st, seen) ==
  IF \A i \in C : seen[i] \in {"running", "ready"} THEN "Running"
  ELSE IF \E i \in C : seen[i] = "terminated" THEN "Failed" ELSE st.phase

ReadyOfBug(st, seen) ==                 \* is not given back
  IF \A i \in C : seen[i] = "ready" THEN st.ready
  ELSE IF st.ready = "none" THEN "none" ELSE "false"

ReadyOfKeptBug(st, seen) ==             \* is not taken away
  IF \A i \in C : seen[i] = "ready" /\ st.ready # "none" THEN "true" ELSE st.ready

\* A Ready condition that is not there is not added.
ReadyOf(st, seen) ==
  IF st.ready = "none" THEN "none"
  ELSE IF \A i \in C : seen[i] = "ready" THEN "true" ELSE "false"

\* ... and writes what it sees into it, also when podsByKey has another by now.
\* A container in its backoff window is said to wait, and so is one that cannot
\* be inspected.
Look(w) ==
  /\ up /\ work[w].at \in {"look", "orphan"}
  /\ \E waits \in SUBSET C :
       /\ \/ (\A i \in waits : cs[i] = "stopped") /\ UNCHANGED faults
          \/ Fault /\ \E i \in waits : \A j \in waits \ {i} : cs[j] = "stopped"
       /\ LET held == work[w].at = "look"
              seen == [i \in C |-> IF i \in waits THEN "waiting" ELSE SeenAs(cs[i])]
              old == IF held THEN tracked.st ELSE work[w].st
              new == [phase |-> PhaseOf(old, seen), ready |-> ReadyOf(old, seen)]
          IN  /\ work' = [work EXCEPT ![w].at = "get", ![w].st = new]
              /\ tracked' = IF held THEN [tracked EXCEPT !.st = new] ELSE tracked
  /\ UNCHANGED <<api, created, up, store, queue, cs, handling>>

\* syncPodStatus reads the API server's pod of that name ...
Get(w) ==
  /\ up /\ work[w].at = "get"
  /\ \/ api = NoPod /\ work' = [work EXCEPT ![w] = Idle] /\ UNCHANGED bounds
     \/ Fault /\ work' = [work EXCEPT ![w] = Idle] /\ UNCHANGED <<created>>
     \/ api # NoPod /\ work' = [work EXCEPT ![w].at = "write", ![w].fresh = TRUE] /\ UNCHANGED bounds
  /\ UNCHANGED <<api, up, store, queue, tracked, cs, handling>>

\* ... and replaces its status, unless somebody has written in between.
Write(w) ==
  /\ up /\ work[w].at = "write"
  /\ w = "inf" => handling = "none"
  /\ \/ /\ work[w].fresh
        /\ Put([api EXCEPT !.st = work[w].st])
        /\ work' = [Stale(work) EXCEPT ![w] = Idle]
        /\ UNCHANGED bounds
     \/ /\ ~work[w].fresh
        /\ work' = [work EXCEPT ![w] = Idle]
        /\ UNCHANGED <<api, queue, bounds>>
     \/ /\ Fault
        /\ work' = [work EXCEPT ![w] = Idle]
        /\ UNCHANGED <<api, queue, created>>
  /\ UNCHANGED <<up, store, tracked, cs, handling>>

-----------------------------------------------------------------------------
(* The containers and the kubelet.                                         *)

\* A container exits, or begins or ceases to pass its readiness probe.
Change(i) ==
  /\ \/ cs[i] = "starting" /\ cs' \in {[cs EXCEPT ![i] = s] : s \in {"serving", "stopped"}}
     \/ cs[i] = "serving" /\ cs' \in {[cs EXCEPT ![i] = s] : s \in {"starting", "stopped"}}
  /\ Possible'
  /\ UNCHANGED <<api, bounds, up, store, queue, tracked, handling, work>>

Stop ==
  /\ up
  /\ Fault
  /\ up' = FALSE
  /\ store' = NoPod /\ queue' = <<>> /\ tracked' = NoPod
  /\ handling' = "none"
  /\ work' = [w \in Workers |-> Idle]
  /\ UNCHANGED <<api, created, cs>>

\* Controller.Run: the first list.
Start ==
  /\ ~up
  /\ up' = TRUE
  /\ queue' = IF api = NoPod THEN <<>> ELSE <<[gone |-> FALSE, pod |-> api]>>
  /\ UNCHANGED <<api, bounds, store, tracked, cs, handling, work>>

-----------------------------------------------------------------------------
Informer == \/ Pop \/ Resync \/ Create \/ CreateFails \/ FailGet \/ FailWrite \/ Clean
            \/ Look("inf") \/ Get("inf") \/ Write("inf")
Pass == \/ Tick \/ Fetch \/ Look("per") \/ Get("per") \/ Write("per")
Others == \/ ApiCreate \/ ApiMarkDeleted \/ Touch
          \/ \E i \in C : Change(i)

Next == \/ Informer \/ Pass \/ Others
        \/ MarkNotReady \/ Stop \/ Start

Spec == Init /\ [][Next]_vars

\* Both goroutines go on: the ticker ticks, and an informer that hears nothing
\* else resyncs in the end.
Fairness == WF_vars(Informer) /\ WF_vars(Pass)

FairSpec == Spec /\ Fairness

-----------------------------------------------------------------------------
\* The pod is there to stay, and all of it is up and ready.
Staying == up /\ api # NoPod /\ ~api.del
Serving == Staying /\ \A i \in C : cs[i] = "serving"
Running == Staying /\ \A i \in C : Runs(cs[i])
Down == Staying /\ \E i \in C : cs[i] \in {"none", "stopped"}

\* A pod that keeps serving is published as Ready, whatever was written to it by
\* whom, provided its status still has a Ready condition (GetPodStatus,
\* syncPodStatus, UpdatePod).
ReadyIsPublished == Serving ~> (~Serving \/ api.st.ready # "false")

\* A pod of which a container is down is published as not Ready.
UnreadyIsPublished == Down ~> (~Down \/ api.st.ready # "true")

\* A pod that keeps running is published as Running, also when it was published
\* as Failed or its predecessor's status was written to it.
RunningIsPublished == Running ~> (~Running \/ api.st.phase = "Running")

\* A pass works on a copy of the pod that is older than the failure it was
\* published with: a write of somebody else during the creation waits in the
\* queue, ahead of the one that says Failed.
Overtaken ==
  Staying /\ api.st.phase = "Failed" /\ work["per"].at = "look" /\ tracked.st.phase # "Failed"

\* Of a creation that failed: Failed is published, and stays so as long as that
\* pod is there, when nothing more goes wrong: no call fails, nobody else writes
\* from then on (a user, or the node controller, who marks a pod that is Ready: the
\* one write of updatePodStatus is not tried again), no status of the name's
\* previous pod is on its way, and no later pod comes.  Passes keep Failed, though
\* they see no container.  Only a pass that works on an older copy may write that
\* one's phase over it, for good (periodicStatusSync, syncPodStatus).
FailureIsTold ==
  (/\ handling = "fail" /\ Staying /\ api.st.ready # "true"
   /\ \A w \in Workers : work[w].at = "idle"
   /\ faults = MaxFaults /\ created = MaxInc)
    ~> ([](~Staying \/ api.st.phase = "Failed") \/ Overtaken)
=============================================================================
