---------------------------- MODULE PodLifecycle ----------------------------
(***************************************************************************)
(* The life of pods on the virtual node: pkg/provider/controller.go and    *)
(* the pod half of pkg/provider/provider.go.                               *)
(*                                                                         *)
(* Two goroutines of the kubelet act on the containers:                    *)
(*   - the informer goroutine runs onAdd, onUpdate and onDelete one at a   *)
(*     time, to completion (`inf`; `clean` is the goroutine per container  *)
(*     that cleanupPodContainers starts and waits for);                    *)
(*   - periodicStatusSync walks over a snapshot of the tracked pods every  *)
(*     ten seconds and restarts what has terminated (`per`).               *)
(* They share podsByKey (`tracked`) under a lock, and the containers       *)
(* themselves under none.  A call of the container tool or of the API      *)
(* server is one step, so anything may happen between two calls.           *)
(*                                                                         *)
(* Around them: the API server and its users, the watch that feeds the     *)
(* informer, processes that exit, and the kubelet process that may stop    *)
(* at any point and start again.                                           *)
(*                                                                         *)
(* Left out here: pod status.  syncPodStatus and updatePodStatus read the  *)
(* containers and write Status to the API server; nothing that this module *)
(* decides depends on Status.  A MODIFIED event that such a write causes   *)
(* repeats the incarnation and deletion mark that the store has: it is the *)
(* action Redeliver.  Time is left out too: a backoff window that may be   *)
(* open is a choice.                                                       *)
(*                                                                         *)
(* A definition whose name ends in Bug is no part of the specification: it *)
(* is the definition it stands before, with a mistake the code could well  *)
(* have, and serves to confirm that a property would notice.               *)
(***************************************************************************)
EXTENDS ContainerCLI, Sequences

CONSTANTS
  Pods,        \* pod keys, "namespace/name"
  NoKey,       \* no pod: what an idle goroutine is working on
  NInit,       \* init containers in a pod spec
  NMain,       \* containers in a pod spec
  Policy,      \* spec.restartPolicy
  ExitKinds,   \* how a process may exit by itself
  HasLiveness, \* the containers have a liveness probe
  MaxInc,      \* bound: incarnations (pod UIDs) of a key
  MaxCalls,    \* bound: faults of the container tool and of API calls
  MaxCrashes,  \* bound: stops of the kubelet process
  MaxLosses,   \* bound: watches lost
  MaxFaults    \* bound: these three together, a lost watch counted as three

ASSUME ConstantsAssumption ==
  /\ NoKey \notin Pods
  /\ NInit \in Nat
  /\ NMain \in Nat \ {0}
  /\ Policy \in {"Always", "OnFailure", "Never"}
  /\ ExitKinds \subseteq Exited
  /\ HasLiveness \in BOOLEAN
  /\ MaxInc \in Nat
  /\ MaxCalls \in Nat
  /\ MaxCrashes \in Nat
  /\ MaxLosses \in Nat
  /\ MaxFaults \in Nat

VARIABLES
  api,        \* API server: api[k] is the pod object of key k
  lastInc,    \* last incarnation created under a key
  watching,   \* the watch is up: changes of api are queued
  queue,      \* queue[k]: events not yet handled
  store,      \* the informer's store
  tracked,    \* provider.podsByKey: the incarnation tracked, 0 when none
  restarted,  \* restartCount/lastRestart have an entry for the container ID
  ctr,        \* ctr[k][i]: container i of the pod
  ictr,       \* ictr[k][i]: init container i of the pod
  inf,        \* the informer goroutine
  clean,      \* stopAndRemoveContainer, one goroutine per container
  per,        \* the periodicStatusSync goroutine
  faults,     \* faults so far, by kind
  raced       \* history: DeletePod untracked k while a pass held a copy of it

apiVars  == <<api, lastInc>>
feedVars == <<watching, queue, store>>
provVars == <<tracked, restarted>>
boxVars  == <<ctr, ictr>>
vars == <<apiVars, feedVars, provVars, boxVars, inf, clean, per, faults, raced>>

Mains == 1 .. NMain
Inits == 1 .. NInit

-----------------------------------------------------------------------------
(* Objects, events and the goroutines' local state.                        *)

PodObj == [inc : Nat, del : BOOLEAN]    \* del: DeletionTimestamp is set
NoPod  == [inc |-> 0, del |-> FALSE]

\* "put" is an added, changed or relisted object, "del" a deletion with its
\* last state, "tomb" a DeletedFinalStateUnknown found missing by a relist.
Event == [kind : {"put", "del", "tomb"}, inc : Nat, del : BOOLEAN]
Ev(kind, o) == [kind |-> kind, inc |-> o.inc, del |-> o.del]

\* The incarnation the store will have once the event is handled.
After(e) == IF e.kind = "put" THEN e.inc ELSE 0
Known(k) == IF queue[k] = <<>> THEN store[k].inc ELSE After(queue[k][Len(queue[k])])

InfPC == {"idle", "addInspect", "reconcile", "initRm", "initRun", "initWait", "initRm2",
          "mainRm", "mainRun", "register", "clean", "apiDelete"}
Informer == [pc : InfPC, pod : Pods \cup {NoKey}, inc : Nat, i : Nat,
             then : {"none", "createFailed", "apiDelete", "return"}]
InfIdle == [pc |-> "idle", pod |-> NoKey, inc |-> 0, i |-> 0, then |-> "none"]

CleanStage == {"stop", "kill", "wait", "rm", "rm2", "done"}

Seen == {"none", "running", "terminated", "waiting"}
Periodic == [pc : {"idle", "pick", "inspect", "act", "kill", "restartRm", "restartRun"},
             todo : [Pods -> Nat], pod : Pods \cup {NoKey}, inc : Nat, i : Nat,
             seen : [Mains -> Seen]]
PerIdle == [pc |-> "idle", todo |-> [k \in Pods |-> 0], pod |-> NoKey, inc |-> 0, i |-> 0,
            seen |-> [j \in Mains |-> "none"]]

\* The pass that is running has a copy of pod k, or is at work on it.
Holds(k) == per.todo[k] # 0 \/ per.pod = k

\* Which pod and container the goroutines are at, by what they do.
AtWork ==
  /\ inf.pc = "idle" <=> inf.pod = NoKey
  /\ inf.pc \in {"initRm", "initRun", "initWait", "initRm2"} => inf.i \in Inits
  /\ inf.pc \in {"addInspect", "reconcile", "mainRm", "mainRun"} => inf.i \in Mains
  /\ per.pc \in {"idle", "pick"} <=> per.pod = NoKey
  /\ per.pod # NoKey => per.i \in Mains

\* Every variable has its type, and no goroutine indexes a container that the
\* spec does not have (the loops of CreatePod, reconcilePod and handleRestarts).
TypeOK ==
  /\ api \in [Pods -> PodObj]
  /\ lastInc \in [Pods -> Nat]
  /\ watching \in BOOLEAN
  /\ queue \in [Pods -> Seq(Event)]
  /\ store \in [Pods -> PodObj]
  /\ tracked \in [Pods -> Nat]
  /\ restarted \in [Pods -> [Mains -> BOOLEAN]]
  /\ ctr \in [Pods -> [Mains -> Container]]
  /\ ictr \in [Pods -> [Inits -> Container]]
  /\ inf \in Informer
  /\ clean \in [Mains -> CleanStage]
  /\ per \in Periodic
  /\ faults \in [calls : Nat, crashes : Nat, losses : Nat]
  /\ raced \in [Pods -> BOOLEAN]
  /\ AtWork

Init ==
  /\ api = [k \in Pods |-> NoPod]
  /\ lastInc = [k \in Pods |-> 0]
  /\ watching = TRUE
  /\ queue = [k \in Pods |-> <<>>]
  /\ store = [k \in Pods |-> NoPod]
  /\ tracked = [k \in Pods |-> 0]
  /\ restarted = [k \in Pods |-> [i \in Mains |-> FALSE]]
  /\ ctr = [k \in Pods |-> [i \in Mains |-> Gone]]
  /\ ictr = [k \in Pods |-> [i \in Inits |-> Gone]]
  /\ inf = InfIdle
  /\ clean = [i \in Mains |-> "done"]
  /\ per = PerIdle
  /\ faults = [calls |-> 0, crashes |-> 0, losses |-> 0]
  /\ raced = [k \in Pods |-> FALSE]

-----------------------------------------------------------------------------
(* The API server, its users, and the watch.                               *)

\* A change of the object is queued for the informer while the watch is up.
Emit(k, e) == queue' = IF watching THEN [queue EXCEPT ![k] = Append(@, e)] ELSE queue

\* A pod is bound to the node: first its key is new, later it is reused.
ApiCreate(k) ==
  /\ api[k].inc = 0
  /\ lastInc[k] < MaxInc
  /\ lastInc' = [lastInc EXCEPT ![k] = @ + 1]
  /\ api' = [api EXCEPT ![k] = [inc |-> lastInc[k] + 1, del |-> FALSE]]
  /\ Emit(k, Ev("put", [inc |-> lastInc[k] + 1, del |-> FALSE]))
  /\ UNCHANGED <<watching, store, provVars, boxVars, inf, clean, per, faults, raced>>

\* Graceful deletion or eviction: the object stays, Terminating.
ApiMarkDeleted(k) ==
  /\ api[k].inc # 0
  /\ ~api[k].del
  /\ api' = [api EXCEPT ![k].del = TRUE]
  /\ Emit(k, Ev("put", [api[k] EXCEPT !.del = TRUE]))
  /\ UNCHANGED <<lastInc, watching, store, provVars, boxVars, inf, clean, per, faults, raced>>

\* Deletion with grace period 0: by force, or of a pod that has finished.
ApiForceDelete(k) ==
  /\ api[k].inc # 0
  /\ api' = [api EXCEPT ![k] = NoPod]
  /\ Emit(k, Ev("del", api[k]))
  /\ UNCHANGED <<lastInc, watching, store, provVars, boxVars, inf, clean, per, faults, raced>>

\* The bound on all that goes wrong; with MaxFaults = 3 a watch is lost when
\* nothing else fails.
MayFail(cost) == faults.calls + faults.crashes + 3 * faults.losses + cost <= MaxFaults

\* The watch breaks and cannot be resumed where it was.
WatchLost ==
  /\ watching
  /\ faults.losses < MaxLosses
  /\ MayFail(3)
  /\ watching' = FALSE
  /\ faults' = [faults EXCEPT !.losses = @ + 1]
  /\ UNCHANGED <<apiVars, queue, store, provVars, boxVars, inf, clean, per, raced>>

\* The reflector lists: every object listed is delivered, and an object that
\* was known and is not listed becomes a tombstone.
Listed(k) ==
  CASE api[k].inc # 0                   -> <<Ev("put", api[k])>>
    [] api[k].inc = 0 /\ Known(k) # 0   -> <<Ev("tomb", [inc |-> Known(k), del |-> FALSE])>>
    [] OTHER                            -> <<>>
Relist ==
  /\ ~watching
  /\ watching' = TRUE
  /\ queue' = [k \in Pods |-> queue[k] \o Listed(k)]
  /\ UNCHANGED <<apiVars, store, provVars, boxVars, inf, clean, per, faults, raced>>

-----------------------------------------------------------------------------
(* The informer goroutine: which handler an event starts.                  *)

\* A call of the tool that ends in outcome o, fault or not.
Charge(o) ==
  /\ o.fault => faults.calls < MaxCalls /\ MayFail(1)
  /\ faults' = IF o.fault THEN [faults EXCEPT !.calls = @ + 1] ELSE faults

Goto(pc, k, n, i) == inf' = [pc |-> pc, pod |-> k, inc |-> n, i |-> i, then |-> "none"]

\* cleanupPodContainers: a goroutine per container of the spec, then wait.
StartCleanup(k, n, then) ==
  /\ inf' = [pc |-> "clean", pod |-> k, inc |-> n, i |-> 0, then |-> then]
  /\ clean' = [i \in Mains |-> "stop"]

DeletePodBug(k, n, then) ==             \* leaves the pod in podsByKey
  /\ StartCleanup(k, n, then)
  /\ UNCHANGED <<tracked, raced>>

\* provider.DeletePod: the pod leaves podsByKey before its containers go.
DeletePod(k, n, then) ==
  /\ tracked' = [tracked EXCEPT ![k] = 0]
  /\ raced' = [raced EXCEPT ![k] = @ \/ Holds(k)]
  /\ StartCleanup(k, n, then)

HasPod(k) == tracked[k] # 0

OnAdd(k, o) ==
  \/ /\ o.del
     /\ DeletePod(k, o.inc, "apiDelete")
  \/ /\ ~o.del
     /\ Goto("addInspect", k, o.inc, 1)
     /\ UNCHANGED <<tracked, clean, raced>>

OnUpdate(k, o) ==
  \/ /\ o.del
     /\ HasPod(k)
     /\ DeletePod(k, o.inc, "apiDelete")
  \/ /\ o.del
     /\ ~HasPod(k)
     /\ UNCHANGED <<tracked, inf, clean, raced>>
  \/ /\ ~o.del                          \* provider.UpdatePod
     /\ tracked' = [tracked EXCEPT ![k] = o.inc]
     /\ UNCHANGED <<inf, clean, raced>>

OnDeleteBug(k, e) ==                    \* leaves everything to onUpdate
  /\ e.kind \in {"del", "tomb"}
  /\ UNCHANGED <<tracked, inf, clean, raced>>

OnDelete(k, e) ==
  \/ /\ e.kind = "del"
     /\ HasPod(k)
     /\ DeletePod(k, e.inc, "return")
  \/ /\ e.kind = "tomb" \/ ~HasPod(k)   \* a tombstone is not a *corev1.Pod
     /\ UNCHANGED <<tracked, inf, clean, raced>>

HandlePutBug(k, e) ==                   \* an update creates the pod again
  /\ e.kind = "put"
  /\ store' = [store EXCEPT ![k] = [inc |-> e.inc, del |-> e.del]]
  /\ OnAdd(k, e)

\* The next event of a pod.  The store is brought up to date first; whether
\* an object is new or updated is decided by what the store had.
HandlePut(k, e) ==
  /\ e.kind = "put"
  /\ store' = [store EXCEPT ![k] = [inc |-> e.inc, del |-> e.del]]
  /\ \/ store[k].inc = 0 /\ OnAdd(k, e)
     \/ store[k].inc # 0 /\ OnUpdate(k, e)

HandleGone(k, e) ==
  /\ e.kind # "put"
  /\ store' = [store EXCEPT ![k] = NoPod]
  /\ OnDelete(k, e)

Pop(k) ==
  /\ inf.pc = "idle"
  /\ queue[k] # <<>>
  /\ queue' = [queue EXCEPT ![k] = Tail(@)]
  /\ HandlePut(k, Head(queue[k])) \/ HandleGone(k, Head(queue[k]))
  /\ UNCHANGED <<apiVars, watching, restarted, boxVars, per, faults>>

\* The 30 s resync, or a change of the object that is not a deletion.
Redeliver(k) ==
  /\ inf.pc = "idle"
  /\ store[k].inc # 0
  /\ OnUpdate(k, store[k])
  /\ UNCHANGED <<apiVars, feedVars, restarted, boxVars, per, faults>>

-----------------------------------------------------------------------------
(* The informer goroutine: onAdd, from its Inspect to the end.             *)

Continue(pc, i) == inf' = [inf EXCEPT !.pc = pc, !.i = i]
Track(k, n)     == tracked' = [tracked EXCEPT ![k] = n]
CreateFrom(i)   == IF i <= NInit THEN Continue("initRm", i) ELSE Continue("mainRm", 1)
CreateFailed    == StartCleanup(inf.pod, inf.inc, "createFailed")

AddInspectBug ==                        \* creates the pod without looking
  /\ inf.pc = "addInspect"
  /\ CreateFrom(1)
  /\ UNCHANGED <<apiVars, feedVars, provVars, boxVars, clean, per, faults, raced>>

\* Is the first container still running?
AddInspect ==
  /\ inf.pc = "addInspect"
  /\ \E r \in Inspect(ctr[inf.pod][1]) :
       /\ Charge(r)
       /\ \/ r.state = "running" /\ Continue("reconcile", 1)
          \/ r.state # "running" /\ CreateFrom(1)
  /\ UNCHANGED <<apiVars, feedVars, provVars, boxVars, clean, per, raced>>

\* reconcilePod: any container that cannot be inspected makes the pod Failed,
\* and it is not tracked; if all exist, it is.
Reconcile ==
  /\ inf.pc = "reconcile"
  /\ \E r \in Inspect(ctr[inf.pod][inf.i]) :
       /\ Charge(r)
       /\ \/ /\ r.state = "error"
             /\ inf' = InfIdle
             /\ UNCHANGED tracked
          \/ /\ r.state # "error"
             /\ inf.i < NMain
             /\ Continue("reconcile", inf.i + 1)
             /\ UNCHANGED tracked
          \/ /\ r.state # "error"
             /\ inf.i = NMain
             /\ inf' = InfIdle
             /\ Track(inf.pod, inf.inc)
  /\ UNCHANGED <<apiVars, feedVars, restarted, boxVars, clean, per, raced>>

\* A call on init container inf.i, or on container inf.i.
OnInit(o) == Charge(o) /\ ictr' = [ictr EXCEPT ![inf.pod][inf.i] = o.c]
OnMain(o) == Charge(o) /\ ctr' = [ctr EXCEPT ![inf.pod][inf.i] = o.c]

\* CreatePod: for each init container remove what an earlier attempt left,
\* run it to completion, remove it.  The result of Remove is not looked at.
InitRm ==
  /\ inf.pc = "initRm"
  /\ \E o \in Remove(ictr[inf.pod][inf.i]) : OnInit(o)
  /\ Continue("initRun", inf.i)
  /\ UNCHANGED <<apiVars, feedVars, provVars, ctr, clean, per, raced>>

InitRun ==
  /\ inf.pc = "initRun"
  /\ \E o \in Run(ictr[inf.pod][inf.i], inf.inc) :
       /\ OnInit(o)
       /\ \/ o.ok /\ Continue("initWait", inf.i) /\ UNCHANGED clean
          \/ ~o.ok /\ CreateFailed
  /\ UNCHANGED <<apiVars, feedVars, provVars, ctr, per, raced>>

InitWaitBug ==                          \* the run is detached
  /\ inf.pc = "initWait"
  /\ Continue("initRm2", inf.i)
  /\ UNCHANGED <<apiVars, feedVars, provVars, boxVars, clean, per, faults, raced>>

\* The run is not detached: it returns when the process has exited.
InitWait ==
  /\ inf.pc = "initWait"
  /\ \/ /\ ictr[inf.pod][inf.i].st = "succeeded"
        /\ Continue("initRm2", inf.i)
        /\ UNCHANGED clean
     \/ /\ ictr[inf.pod][inf.i].st = "failed"
        /\ CreateFailed
  /\ UNCHANGED <<apiVars, feedVars, provVars, boxVars, per, faults, raced>>

InitRm2 ==
  /\ inf.pc = "initRm2"
  /\ \E o \in Remove(ictr[inf.pod][inf.i]) : OnInit(o)
  /\ CreateFrom(inf.i + 1)
  /\ UNCHANGED <<apiVars, feedVars, provVars, ctr, clean, per, raced>>

\* CreatePod: the containers, detached, then the pod is tracked.
MainRm ==
  /\ inf.pc = "mainRm"
  /\ \E o \in Remove(ctr[inf.pod][inf.i]) : OnMain(o)
  /\ Continue("mainRun", inf.i)
  /\ UNCHANGED <<apiVars, feedVars, provVars, ictr, clean, per, raced>>

MainRun ==
  /\ inf.pc = "mainRun"
  /\ \E o \in Run(ctr[inf.pod][inf.i], inf.inc) :
       /\ OnMain(o)
       /\ \/ o.ok /\ inf.i < NMain /\ Continue("mainRm", inf.i + 1) /\ UNCHANGED clean
          \/ o.ok /\ inf.i = NMain /\ Continue("register", 0) /\ UNCHANGED clean
          \/ ~o.ok /\ CreateFailed
  /\ UNCHANGED <<apiVars, feedVars, provVars, ictr, per, raced>>

Register ==
  /\ inf.pc = "register"
  /\ Track(inf.pod, inf.inc)
  /\ inf' = InfIdle
  /\ UNCHANGED <<apiVars, feedVars, restarted, boxVars, clean, per, faults, raced>>

-----------------------------------------------------------------------------
(* cleanupPodContainers: the goroutines, and what follows them.            *)

OnClean(o, i) == Charge(o) /\ ctr' = [ctr EXCEPT ![inf.pod][i] = o.c]

\* One step of container i's goroutine: a call with the given outcomes, and
\* the stage that follows it.
CleanCall(i, stage, outcomes, afterOk, afterErr) ==
  /\ inf.pc = "clean"
  /\ clean[i] = stage
  /\ \E o \in outcomes :
       /\ OnClean(o, i)
       /\ clean' = [clean EXCEPT ![i] = IF o.ok THEN afterOk ELSE afterErr]
  /\ UNCHANGED <<apiVars, feedVars, provVars, ictr, inf, per, raced>>

CleanStop(i)   == CleanCall(i, "stop", Stop(ctr[inf.pod][i]), "wait", "kill")
CleanKill(i)   == CleanCall(i, "kill", Kill(ctr[inf.pod][i]), "wait", "wait")
CleanRemove(i) == CleanCall(i, "rm", Remove(ctr[inf.pod][i]), "done", "rm2")
CleanRetry(i)  == CleanCall(i, "rm2", Remove(ctr[inf.pod][i]), "done", "done")

CleanWaitBug(i) ==                      \* no deadline
  /\ inf.pc = "clean"
  /\ clean[i] = "wait"
  /\ \E r \in Inspect(ctr[inf.pod][i]) : r.state # "running" /\ Charge(r)
  /\ clean' = [clean EXCEPT ![i] = "rm"]
  /\ UNCHANGED <<apiVars, feedVars, provVars, boxVars, inf, per, raced>>

\* waitForStop: until a poll fails or finds the container not running, or the
\* deadline passes with the container still running.
CleanWait(i) ==
  /\ inf.pc = "clean"
  /\ clean[i] = "wait"
  /\ \/ \E r \in Inspect(ctr[inf.pod][i]) : r.state # "running" /\ Charge(r)
     \/ IsRunning(ctr[inf.pod][i]) /\ UNCHANGED faults
  /\ clean' = [clean EXCEPT ![i] = "rm"]
  /\ UNCHANGED <<apiVars, feedVars, provVars, boxVars, inf, per, raced>>

CleanStep(i) ==
  CleanStop(i) \/ CleanKill(i) \/ CleanWait(i) \/ CleanRemove(i) \/ CleanRetry(i)

CleanDoneBug ==                         \* waits for one goroutine, not for all
  /\ inf.pc = "clean"
  /\ \E i \in Mains : clean[i] = "done"
  /\ inf' = IF inf.then = "apiDelete"
              THEN [inf EXCEPT !.pc = "apiDelete", !.then = "none"] ELSE InfIdle
  /\ UNCHANGED <<apiVars, feedVars, provVars, boxVars, clean, per, faults, raced>>

CleanDone ==
  /\ inf.pc = "clean"
  /\ \A i \in Mains : clean[i] = "done"
  /\ inf' = IF inf.then = "apiDelete"
              THEN [inf EXCEPT !.pc = "apiDelete", !.then = "none"] ELSE InfIdle
  /\ UNCHANGED <<apiVars, feedVars, provVars, boxVars, clean, per, faults, raced>>

ApiDeleteBug ==                         \* an error of the call is final
  /\ inf.pc = "apiDelete"
  /\ inf' = InfIdle
  /\ UNCHANGED <<apiVars, feedVars, provVars, boxVars, clean, per, faults, raced>>

\* The forced deletion from the API server, by name.
ApiDelete ==
  /\ inf.pc = "apiDelete"
  /\ \/ /\ api[inf.pod].inc # 0
        /\ api' = [api EXCEPT ![inf.pod] = NoPod]
        /\ Emit(inf.pod, Ev("del", api[inf.pod]))
        /\ UNCHANGED faults
     \/ /\ api[inf.pod].inc = 0
        /\ UNCHANGED <<api, queue, faults>>
     \/ /\ Charge(Fault(Gone))
        /\ UNCHANGED <<api, queue>>
  /\ inf' = InfIdle
  /\ UNCHANGED <<lastInc, watching, store, provVars, boxVars, clean, per, raced>>

-----------------------------------------------------------------------------
(* periodicStatusSync and handleRestarts.                                  *)

\* GetPods: copies of the pods that are tracked at the tick.
Tick ==
  /\ per.pc = "idle"
  /\ \E k \in Pods : tracked[k] # 0
  /\ per' = [PerIdle EXCEPT !.pc = "pick", !.todo = tracked]
  /\ UNCHANGED <<apiVars, feedVars, provVars, boxVars, inf, clean, faults, raced>>

NextPod(todo) ==
  per' = IF \A k \in Pods : todo[k] = 0 THEN PerIdle
                                        ELSE [PerIdle EXCEPT !.pc = "pick", !.todo = todo]
NextContainerBug ==                     \* off by one
  IF per.i <= NMain THEN per' = [per EXCEPT !.pc = "act", !.i = @ + 1]
                    ELSE NextPod(per.todo)

NextContainer ==
  IF per.i < NMain THEN per' = [per EXCEPT !.pc = "act", !.i = @ + 1]
                   ELSE NextPod(per.todo)

\* The order of a map's keys is any.
Pick(k) ==
  /\ per.pc = "pick"
  /\ per.todo[k] # 0
  /\ \/ /\ Policy = "Never"
        /\ NextPod([per.todo EXCEPT ![k] = 0])
     \/ /\ Policy # "Never"
        /\ per' = [per EXCEPT !.pc = "inspect", !.todo[k] = 0, !.pod = k,
                              !.inc = per.todo[k], !.i = 1]
  /\ UNCHANGED <<apiVars, feedVars, provVars, boxVars, inf, clean, faults, raced>>

SeenAsBug(r) ==                         \* exited is not a known state
  CASE r.state = "running" -> {"running"}
    [] r.state # "running" -> {"waiting"}

\* inspectContainerStatuses.  In a backoff window a stopped container is
\* reported Waiting; only a container that was restarted can be in one.
SeenAs(r) ==
  CASE r.state = "running" -> {"running"}
    [] r.state = "error"   -> {"waiting"}
    [] r.state = "stopped" ->
         {"terminated"} \cup IF restarted[per.pod][per.i] THEN {"waiting"} ELSE {}

InspectStatus ==
  /\ per.pc = "inspect"
  /\ \E r \in Inspect(ctr[per.pod][per.i]) :
       /\ Charge(r)
       /\ \E s \in SeenAs(r) :
            per' = [per EXCEPT !.pc = IF per.i < NMain THEN "inspect" ELSE "act",
                               !.i  = IF per.i < NMain THEN @ + 1 ELSE 1,
                               !.seen[per.i] = s]
  /\ UNCHANGED <<apiVars, feedVars, provVars, boxVars, inf, clean, raced>>

ShouldRestart == Policy = "Always" \/ (Policy = "OnFailure" /\ InspectedExitCode # 0)

\* handleRestarts, one container.  Its own call of shouldBackoff is false:
\* the status says Terminated only outside a window, and windows are opened
\* by this goroutine alone.
ActRunning ==
  /\ per.seen[per.i] = "running"
  /\ \/ /\ HasLiveness
        /\ \E r \in Inspect(ctr[per.pod][per.i]) :
             /\ Charge(r)
             /\ \/ NextContainer
                \/ r.state # "error" /\ per' = [per EXCEPT !.pc = "kill"]
     \/ /\ ~HasLiveness
        /\ NextContainer
        /\ UNCHANGED faults

ActOther ==
  /\ per.seen[per.i] # "running"
  /\ IF per.seen[per.i] = "terminated" /\ ShouldRestart
       THEN per' = [per EXCEPT !.pc = "restartRm"]
       ELSE NextContainer
  /\ UNCHANGED faults

Act ==
  /\ per.pc = "act"
  /\ ActRunning \/ ActOther
  /\ UNCHANGED <<apiVars, feedVars, provVars, boxVars, inf, clean, raced>>

OnPeriodic(o) == Charge(o) /\ ctr' = [ctr EXCEPT ![per.pod][per.i] = o.c]

\* A liveness failure kills the container; a later pass restarts it.
LivenessKill ==
  /\ per.pc = "kill"
  /\ \E o \in Kill(ctr[per.pod][per.i]) : OnPeriodic(o)
  /\ NextContainer
  /\ UNCHANGED <<apiVars, feedVars, provVars, ictr, inf, clean, raced>>

\* restartContainer: remove whatever the outcome, then run.
RestartRm ==
  /\ per.pc = "restartRm"
  /\ \E o \in Remove(ctr[per.pod][per.i]) : OnPeriodic(o)
  /\ per' = [per EXCEPT !.pc = "restartRun"]
  /\ UNCHANGED <<apiVars, feedVars, provVars, ictr, inf, clean, raced>>

RestartRun ==
  /\ per.pc = "restartRun"
  /\ \E o \in Run(ctr[per.pod][per.i], per.inc) :
       /\ OnPeriodic(o)
       /\ restarted' = [restarted EXCEPT ![per.pod][per.i] = @ \/ o.ok]
  /\ NextContainer
  /\ UNCHANGED <<apiVars, feedVars, tracked, ictr, inf, clean, raced>>

-----------------------------------------------------------------------------
(* Processes that exit by themselves, and the kubelet that stops.          *)

MainExit(k, i) ==
  /\ IsRunning(ctr[k][i])
  /\ \E e \in ExitKinds : ctr' = [ctr EXCEPT ![k][i].st = e]
  /\ UNCHANGED <<apiVars, feedVars, provVars, ictr, inf, clean, per, faults, raced>>

InitExit(k, i) ==
  /\ IsRunning(ictr[k][i])
  /\ \E e \in ExitKinds : ictr' = [ictr EXCEPT ![k][i].st = e]
  /\ UNCHANGED <<apiVars, feedVars, provVars, ctr, inf, clean, per, faults, raced>>

\* The process ends (on a signal main returns at once) and a new one starts:
\* its maps and its store are empty and its informer lists.
KubeletRestart ==
  /\ faults.crashes < MaxCrashes
  /\ MayFail(1)
  /\ faults' = [faults EXCEPT !.crashes = @ + 1]
  /\ watching' = FALSE
  /\ queue' = [k \in Pods |-> <<>>]
  /\ store' = [k \in Pods |-> NoPod]
  /\ tracked' = [k \in Pods |-> 0]
  /\ restarted' = [k \in Pods |-> [i \in Mains |-> FALSE]]
  /\ inf' = InfIdle
  /\ clean' = [i \in Mains |-> "done"]
  /\ per' = PerIdle
  /\ UNCHANGED <<apiVars, boxVars, raced>>

-----------------------------------------------------------------------------
Api == \E k \in Pods : ApiCreate(k) \/ ApiMarkDeleted(k) \/ ApiForceDelete(k)
Feed == WatchLost \/ Relist \/ \E k \in Pods : Pop(k) \/ Redeliver(k)
Handler ==
  \/ AddInspect \/ Reconcile
  \/ InitRm \/ InitRun \/ InitWait \/ InitRm2
  \/ MainRm \/ MainRun \/ Register
  \/ CleanDone \/ ApiDelete
PeriodicStep ==
  \/ (\E k \in Pods : Pick(k))
  \/ InspectStatus \/ Act \/ LivenessKill \/ RestartRm \/ RestartRun
Workload ==
  \E k \in Pods : \/ \E i \in Mains : MainExit(k, i)
                  \/ \E i \in Inits : InitExit(k, i)

Next ==
  \/ Api \/ Feed \/ Handler \/ (\E i \in Mains : CleanStep(i))
  \/ Tick \/ PeriodicStep
  \/ Workload \/ KubeletRestart

Spec == Init /\ [][Next]_vars

\* The container is inspected outside a backoff window.
WindowClosed(k, i) ==
  InspectStatus /\ per.pod = k /\ per.i = i /\ per'.seen[i] = "terminated"

\* A goroutine that can step does; the ticker ticks; a pod's events are
\* handled, whatever the other pods' do; a list succeeds in the end; an init
\* container exits; a backoff window, five minutes at most, closes.
Fairness ==
  /\ WF_vars(Handler)
  /\ \A i \in Mains : WF_vars(CleanStep(i))
  /\ WF_vars(Tick) /\ WF_vars(PeriodicStep)
  /\ \A k \in Pods, i \in Mains : SF_vars(WindowClosed(k, i))
  /\ WF_vars(Relist)
  /\ \A k \in Pods : SF_vars(Pop(k))
  /\ \A k \in Pods, i \in Inits : WF_vars(InitExit(k, i))

FairSpec == Spec /\ Fairness

-----------------------------------------------------------------------------
(* What the code promises.                                                 *)

\* What a pod has in the runtime is what podsByKey says it has: while no
\* handler is at work on a key, each of its containers belongs to the
\* incarnation that is tracked; so nothing is left of a pod that is not
\* tracked (DeletePod, CreatePod's error path), and a pod whose name is used
\* again never keeps a container of its predecessor (CreatePod's leading
\* Remove, the clean-up before the next onAdd).  It holds as long as the tool
\* works, the watch and the process stay up, and DeletePod has not met a pass
\* of periodicStatusSync.
ContainersMatchTracking ==
  faults.calls + faults.crashes + faults.losses = 0 =>
    \A k \in Pods : inf.pod # k /\ ~raced[k] =>
      /\ \A i \in Mains : Exists(ctr[k][i]) => ctr[k][i].inc = tracked[k]
      /\ \A i \in Inits : ~IsRunning(ictr[k][i])

\* The force-deletion from the API server comes after the clean-up (onAdd and
\* onUpdate call DeletePod first): the kubelet never takes a pod from the API
\* server while one of its containers runs.  Only a fault of the tool, or a
\* restart by a pass that still had the pod, can make that false.
KubeletRemoves(k) == inf.pc = "apiDelete" /\ inf.pod = k /\ api'[k].inc = 0 /\ api[k].inc # 0
RemovedAfterCleanup ==
  [][\A k \in Pods : KubeletRemoves(k) /\ faults.calls = 0 /\ ~raced[k] =>
       \A i \in Mains : ~Exists(ctr[k][i])]_vars

\* podsByKey never runs ahead of the informer's store or keeps what the store
\* has dropped, through failing calls and restarts of the kubelet: a tracked
\* pod is the one in the store, and a pod is not tracked while a handler is
\* at work on it.  (Only a lost watch breaks it: onDelete does not take a
\* tombstone.)
TrackedIsStored ==
  faults.losses = 0 =>
    \A k \in Pods : tracked[k] \in IF inf.pod = k THEN {0} ELSE {0, store[k].inc}

\* A kubelet that starts again over a running container adopts it: the
\* clean-up of a failed CreatePod never meets a container that runs (onAdd
\* looks first, and takes reconcilePod).  For one container per pod (with two,
\* it is the clean-up of the one that did start), as long as the tool works.
FailureKillsNothing ==
  inf.pc = "clean" /\ inf.then = "createFailed" /\ faults.calls + faults.losses = 0
    => raced[inf.pod] \/ \A i \in Mains : ~IsRunning(ctr[inf.pod][i])

\* Every handler ends, so the informer goroutine, which all pods share, comes
\* back: waitForStop has its deadline and Remove one retry, whatever fails.
HandlersEnd == inf.pc # "idle" ~> inf.pc = "idle"

\* A pod that is tracked and marked deleted leaves the API server, across
\* restarts of the kubelet and lost watches (onUpdate, and onAdd for a pod
\* marked while the kubelet was down); a failing call may keep it.
TerminatingEnds ==
  \A k \in Pods :
    (api[k].del /\ tracked[k] = api[k].inc) ~> (~api[k].del \/ faults.calls # 0)

\* A container that has exited is run again, or its pod is let go
\* (handleRestarts), for a policy other than Never; a failing call may
\* prevent it, and so may a relist that hides a deletion, after which the next
\* pod of the name is tracked and was not created.
ExitedIsRestarted ==
  \A k \in Pods, i \in Mains :
    (tracked[k] # 0 /\ ctr[k][i].st \in Exited)
      ~> (IsRunning(ctr[k][i]) \/ tracked[k] = 0 \/ faults.calls + faults.losses # 0)

\* A pod that is gone from the API server, or that another has replaced, is
\* let go (onDelete), unless a watch was lost.
DeletedIsReleased ==
  \A k \in Pods :
    (tracked[k] # api[k].inc) ~> (tracked[k] \in {0, api[k].inc} \/ faults.losses # 0)
=============================================================================
