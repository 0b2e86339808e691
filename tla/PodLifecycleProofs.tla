------------------------- MODULE PodLifecycleProofs -------------------------
(***************************************************************************)
(* Theorems about PodLifecycle for any number of pods, containers, init    *)
(* containers, incarnations, faults, crashes and lost watches.             *)
(***************************************************************************)
EXTENDS PodLifecycle, SequenceTheorems, TLAPS

-----------------------------------------------------------------------------
(* The tool's outcomes.                                                    *)

\* The containers and the outcomes the tool's operators are made of.
LEMMA ContainerTypes ==
  ASSUME NEW c \in Container, NEW n \in Nat
  PROVE  /\ Gone \in Container
         /\ Running(n) \in Container
         /\ Stopped(c) \in Container
         /\ [st |-> "failed", inc |-> n] \in Container
         /\ Done(c) \in Outcome /\ Refused(c) \in Outcome /\ Fault(c) \in Outcome
BY DEF Gone, Running, Stopped, Container, Exited, Done, Refused, Fault, Outcome

\* Whatever is called on a container leaves a container.
LEMMA OutcomeTypes ==
  ASSUME NEW c \in Container, NEW n \in Nat
  PROVE  /\ Run(c, n) \subseteq Outcome
         /\ Stop(c) \subseteq Outcome
         /\ Kill(c) \subseteq Outcome
         /\ Remove(c) \subseteq Outcome
<1>1. Run(c, n) \subseteq Outcome
  <2>1. [st |-> "failed", inc |-> n] \in Container
    BY ContainerTypes
  <2>2. Running(n) \in Container
    BY ContainerTypes
  <2>3. /\ Done(Running(n)) \in Outcome
        /\ Fault([st |-> "failed", inc |-> n]) \in Outcome
        /\ Fault(c) \in Outcome /\ Refused(c) \in Outcome
    BY <2>1, <2>2, ContainerTypes
  <2> QED
    BY <2>3 DEF Run
<1>2. Stopped(c) \in Container /\ Gone \in Container
  BY ContainerTypes
<1>3. /\ Done(Stopped(c)) \in Outcome /\ Done(Gone) \in Outcome
      /\ Done(c) \in Outcome /\ Refused(c) \in Outcome /\ Fault(c) \in Outcome
  BY <1>2, ContainerTypes
<1> QED
  BY <1>1, <1>3 DEF Stop, Kill, Remove

\* An Inspect reports one of the states the code knows.
LEMMA InspectionTypes == ASSUME NEW c PROVE Inspect(c) \subseteq Inspection
<1>1. /\ [state |-> "error", fault |-> TRUE] \in Inspection
      /\ [state |-> "error", fault |-> FALSE] \in Inspection
      /\ \A s \in {"running", "stopped"} : [state |-> s, fault |-> FALSE] \in Inspection
  BY DEF Inspection
<1>2. (IF IsRunning(c) THEN "running" ELSE "stopped") \in {"running", "stopped"}
  OBVIOUS
<1> QED
  BY <1>1, <1>2 DEF Inspect

FaultCount == [calls : Nat, crashes : Nat, losses : Nat]

\* Counting a fault keeps the counters counters, and counts no loss or crash.
LEMMA ChargeTypes ==
  ASSUME NEW o, o.fault \in BOOLEAN, faults \in FaultCount, Charge(o)
  PROVE  faults' \in FaultCount
BY DEF Charge, FaultCount

\* What the watch queues is an event.
LEMMA EmitTypes ==
  ASSUME NEW k \in Pods, NEW e \in Event, queue \in [Pods -> Seq(Event)], Emit(k, e)
  PROVE  queue' \in [Pods -> Seq(Event)]
BY DEF Emit

\* An event made of a pod object is well typed.
LEMMA EventTypes ==
  ASSUME NEW o \in PodObj, NEW kind \in {"put", "del", "tomb"}
  PROVE  Ev(kind, o) \in Event
BY DEF Ev, PodObj, Event

-----------------------------------------------------------------------------
(* Type correctness.                                                       *)

\* The state the kubelet first starts in is well typed.
LEMMA InitTypes == Init => TypeOK
BY ConstantsAssumption
   DEF Init, TypeOK, AtWork, NoPod, PodObj, Gone, Container, Exited, InfIdle, Informer, InfPC,
       PerIdle, Periodic, Seen, CleanStage, Mains, Inits

\* What the API server's users do keeps every variable in its type.
LEMMA ApiTypes == TypeOK /\ Api => TypeOK'
<1> SUFFICES ASSUME TypeOK, Api PROVE TypeOK'
  OBVIOUS
<1> USE DEF TypeOK, AtWork, apiVars, feedVars, provVars, boxVars
<1>1. ASSUME NEW k \in Pods, ApiCreate(k) PROVE TypeOK'
  <2>1. lastInc' \in [Pods -> Nat] /\ api' \in [Pods -> PodObj]
    BY <1>1 DEF ApiCreate, PodObj
  <2>2. Ev("put", [inc |-> lastInc[k] + 1, del |-> FALSE]) \in Event
    BY DEF Ev, Event
  <2>3. queue' \in [Pods -> Seq(Event)]
    BY <1>1, <2>2, EmitTypes DEF ApiCreate
  <2> QED
    BY <1>1, <2>1, <2>3 DEF ApiCreate
<1>2. ASSUME NEW k \in Pods, ApiMarkDeleted(k) PROVE TypeOK'
  <2>1. api' \in [Pods -> PodObj]
    BY <1>2 DEF ApiMarkDeleted, PodObj
  <2>2. Ev("put", [api[k] EXCEPT !.del = TRUE]) \in Event
    BY DEF Ev, Event, PodObj
  <2>3. queue' \in [Pods -> Seq(Event)]
    BY <1>2, <2>2, EmitTypes DEF ApiMarkDeleted
  <2> QED
    BY <1>2, <2>1, <2>3 DEF ApiMarkDeleted
<1>3. ASSUME NEW k \in Pods, ApiForceDelete(k) PROVE TypeOK'
  <2>1. api' \in [Pods -> PodObj]
    BY <1>3 DEF ApiForceDelete, PodObj, NoPod
  <2>2. Ev("del", api[k]) \in Event
    BY EventTypes
  <2>3. queue' \in [Pods -> Seq(Event)]
    BY <1>3, <2>2, EmitTypes DEF ApiForceDelete
  <2> QED
    BY <1>3, <2>1, <2>3 DEF ApiForceDelete
<1> QED
  BY <1>1, <1>2, <1>3 DEF Api

\* The steps that start a handler leave the goroutine's state well typed.
LEMMA StartTypes ==
  ASSUME TypeOK, NEW k \in Pods, NEW n \in Nat
  PROVE  /\ Goto("addInspect", k, n, 1) => inf' \in Informer /\ inf'.pod = k
                                             /\ inf'.pc = "addInspect" /\ inf'.i \in Mains
         /\ \A then \in {"createFailed", "apiDelete", "return"} :
              StartCleanup(k, n, then) => /\ inf' \in Informer /\ clean' \in [Mains -> CleanStage]
                                          /\ inf'.pod = k /\ inf'.pc = "clean"
BY ConstantsAssumption DEF Goto, StartCleanup, Informer, InfPC, CleanStage, Mains

\* A relist queues events.
LEMMA ListedTypes ==
  ASSUME TypeOK, NEW k \in Pods
  PROVE  Listed(k) \in Seq(Event)
<1> USE DEF TypeOK
<1>1. Ev("put", api[k]) \in Event
  BY EventTypes
<1>2. Known(k) \in Nat
  <2>1. CASE queue[k] = <<>>
    BY <2>1 DEF Known, PodObj
  <2>2. CASE queue[k] # <<>>
    <3>1. Len(queue[k]) \in 1 .. Len(queue[k])
      BY <2>2, EmptySeq, LenProperties
    <3>2. queue[k][Len(queue[k])] \in Event
      BY <3>1, ElementOfSeq
    <3> QED
      BY <2>2, <3>2 DEF Known, After, Event
  <2> QED
    BY <2>1, <2>2
<1>3. Ev("tomb", [inc |-> Known(k), del |-> FALSE]) \in Event
  BY <1>2 DEF Ev, Event
<1> QED
  BY <1>1, <1>3 DEF Listed

\* What a handler changes besides the goroutine that runs it.
HandlerTypes ==
  /\ tracked' \in [Pods -> Nat]
  /\ inf' \in Informer
  /\ clean' \in [Mains -> CleanStage]
  /\ raced' \in [Pods -> BOOLEAN]
  /\ inf'.pc = "idle" <=> inf'.pod = NoKey
  /\ inf'.pc \notin {"initRm", "initRun", "initWait", "initRm2"}
  /\ inf'.pc \in {"addInspect", "reconcile", "mainRm", "mainRun"} => inf'.i \in Mains

\* DeletePod starts a clean-up of the pod it is called for.
LEMMA DeletePodTypes ==
  ASSUME TypeOK, NEW k \in Pods, NEW n \in Nat, NEW then \in {"apiDelete", "return"},
         DeletePod(k, n, then)
  PROVE  HandlerTypes
<1>1. /\ inf' \in Informer /\ clean' \in [Mains -> CleanStage]
      /\ inf'.pod = k /\ inf'.pc = "clean"
  BY StartTypes DEF DeletePod
<1>2. tracked' \in [Pods -> Nat] /\ raced' \in [Pods -> BOOLEAN]
  BY DEF DeletePod, TypeOK, Holds
<1> QED
  BY <1>1, <1>2, ConstantsAssumption DEF HandlerTypes

\* onAdd ends at once in a clean-up or in its Inspect.
LEMMA OnAddTypes ==
  ASSUME TypeOK, NEW k \in Pods, NEW o, o.inc \in Nat, OnAdd(k, o)
  PROVE  HandlerTypes
<1>1. CASE DeletePod(k, o.inc, "apiDelete")
  BY <1>1, DeletePodTypes
<1>2. CASE Goto("addInspect", k, o.inc, 1) /\ UNCHANGED <<tracked, clean, raced>>
  BY <1>2, StartTypes, ConstantsAssumption DEF HandlerTypes, TypeOK
<1> QED
  BY <1>1, <1>2 DEF OnAdd

\* onUpdate cleans up, or leaves the goroutine idle.
LEMMA OnUpdateTypes ==
  ASSUME TypeOK, inf.pc = "idle", NEW k \in Pods, NEW o, o.inc \in Nat, OnUpdate(k, o)
  PROVE  HandlerTypes
<1>1. CASE DeletePod(k, o.inc, "apiDelete")
  BY <1>1, DeletePodTypes
<1>2. CASE UNCHANGED <<inf, clean, raced>>
           /\ tracked' \in {tracked, [tracked EXCEPT ![k] = o.inc]}
  BY <1>2 DEF HandlerTypes, TypeOK, AtWork
<1> QED
  BY <1>1, <1>2 DEF OnUpdate

\* onDelete cleans up, or leaves the goroutine idle.
LEMMA OnDeleteTypes ==
  ASSUME TypeOK, inf.pc = "idle", NEW k \in Pods, NEW e \in Event, OnDelete(k, e)
  PROVE  HandlerTypes
<1>1. CASE DeletePod(k, e.inc, "return")
  BY <1>1, DeletePodTypes DEF Event
<1>2. CASE UNCHANGED <<tracked, inf, clean, raced>>
  BY <1>2 DEF HandlerTypes, TypeOK, AtWork
<1> QED
  BY <1>1, <1>2 DEF OnDelete

\* The watch, the relist and the dispatch of events keep the types.
LEMMA FeedTypes == TypeOK /\ Feed => TypeOK'
<1> SUFFICES ASSUME TypeOK, Feed PROVE TypeOK'
  OBVIOUS
<1> USE DEF apiVars, feedVars, provVars, boxVars
<1>1. CASE WatchLost
  <2>1. faults \in FaultCount
    BY DEF TypeOK, FaultCount
  <2>2. faults' \in FaultCount
    BY <1>1, <2>1 DEF WatchLost, FaultCount
  <2> QED
    BY <1>1, <2>2 DEF WatchLost, FaultCount, TypeOK, AtWork
<1>2. CASE Relist
  <2>1. \A k \in Pods : queue[k] \o Listed(k) \in Seq(Event)
    BY ListedTypes, ConcatProperties DEF TypeOK
  <2>2. queue' \in [Pods -> Seq(Event)]
    BY <1>2, <2>1 DEF Relist
  <2> QED
    BY <1>2, <2>2 DEF Relist, TypeOK, AtWork
<1>3. ASSUME NEW k \in Pods, Pop(k) PROVE TypeOK'
  <2> DEFINE e == Head(queue[k])
  <2>1. e \in Event /\ Tail(queue[k]) \in Seq(Event)
    BY <1>3, HeadTailProperties DEF Pop, TypeOK
  <2>2. queue' \in [Pods -> Seq(Event)]
    BY <1>3, <2>1 DEF Pop, TypeOK
  <2>3. store' \in [Pods -> PodObj] /\ HandlerTypes
    <3>1. inf.pc = "idle" /\ (HandlePut(k, e) \/ HandleGone(k, e))
      BY <1>3 DEF Pop
    <3>2. e.inc \in Nat /\ e.del \in BOOLEAN
      BY <2>1 DEF Event
    <3> HIDE DEF e
    <3>3. CASE HandlePut(k, e)
      <4>1. store' \in [Pods -> PodObj]
        BY <3>2, <3>3 DEF HandlePut, TypeOK, PodObj
      <4> QED
        BY <3>1, <3>2, <3>3, <4>1, OnAddTypes, OnUpdateTypes DEF HandlePut
    <3>4. CASE HandleGone(k, e)
      <4>1. store' \in [Pods -> PodObj]
        BY <3>4 DEF HandleGone, TypeOK, PodObj, NoPod
      <4> QED
        BY <2>1, <3>1, <3>4, <4>1, OnDeleteTypes DEF HandleGone
    <3> QED
      BY <3>1, <3>3, <3>4
  <2> QED
    BY <1>3, <2>2, <2>3 DEF Pop, HandlerTypes, TypeOK, AtWork
<1>4. ASSUME NEW k \in Pods, Redeliver(k) PROVE TypeOK'
  <2>1. store[k].inc \in Nat
    BY DEF TypeOK, PodObj
  <2>2. HandlerTypes
    BY <1>4, <2>1, OnUpdateTypes DEF Redeliver
  <2> QED
    BY <1>4, <2>2 DEF Redeliver, HandlerTypes, TypeOK, AtWork
<1> QED
  BY <1>1, <1>2, <1>3, <1>4 DEF Feed

\* The handlers, from onAdd's Inspect on.  Every step of them keeps the other
\* goroutine and the store; what it changes is well typed.
LEMMA ContinueTypes ==
  ASSUME TypeOK, inf.pc # "idle", NEW pc \in InfPC \ {"idle"}, NEW i \in Nat,
         Continue(pc, i)
  PROVE  inf' \in Informer /\ inf'.pc = pc /\ inf'.i = i /\ inf'.pod \in Pods
BY ConstantsAssumption DEF Continue, TypeOK, AtWork, Informer

\* CreatePod goes on to an init container that exists, or to the first container.
LEMMA CreateFromTypes ==
  ASSUME TypeOK, inf.pc # "idle", NEW i \in Nat \ {0}, CreateFrom(i)
  PROVE  /\ inf' \in Informer /\ inf'.pod \in Pods
         /\ \/ inf'.pc = "initRm" /\ inf'.i \in Inits
            \/ inf'.pc = "mainRm" /\ inf'.i \in Mains
<1>1. CASE i <= NInit
  <2>1. Continue("initRm", i)
    BY <1>1 DEF CreateFrom
  <2>2. /\ inf' \in Informer /\ inf'.pod \in Pods
        /\ inf'.pc = "initRm" /\ inf'.i = i
    BY <2>1, ContinueTypes DEF InfPC
  <2>3. i \in Inits
    BY <1>1, ConstantsAssumption DEF Inits
  <2> QED
    BY <2>2, <2>3
<1>2. CASE ~(i <= NInit)
  <2>1. Continue("mainRm", 1)
    BY <1>2 DEF CreateFrom
  <2>2. /\ inf' \in Informer /\ inf'.pod \in Pods
        /\ inf'.pc = "mainRm" /\ inf'.i = 1
    BY <2>1, ContinueTypes DEF InfPC
  <2> QED
    BY <2>2, ConstantsAssumption DEF Mains
<1> QED
  BY <1>1, <1>2

\* An idle informer goroutine is at no pod.
LEMMA IdleTypes == InfIdle \in Informer /\ InfIdle.pc = "idle" /\ InfIdle.pod = NoKey
BY DEF InfIdle, Informer, InfPC

\* The informer goroutine's part of the type invariant.
InfTypes ==
  /\ inf' \in Informer
  /\ inf'.pc = "idle" <=> inf'.pod = NoKey
  /\ inf'.pc \in {"initRm", "initRun", "initWait", "initRm2"} => inf'.i \in Inits
  /\ inf'.pc \in {"addInspect", "reconcile", "mainRm", "mainRun"} => inf'.i \in Mains

\* The error path of CreatePod starts a clean-up of its pod.
LEMMA CreateFailedTypes ==
  ASSUME TypeOK, inf.pc # "idle", CreateFailed
  PROVE  InfTypes /\ clean' \in [Mains -> CleanStage]
<1>1. inf.pod \in Pods /\ inf.inc \in Nat
  BY DEF TypeOK, AtWork, Informer
<1> QED
  BY <1>1, StartTypes, ConstantsAssumption DEF CreateFailed, InfTypes

\* A call on a container, and its effect on the containers.
LEMMA CallTypes ==
  ASSUME TypeOK, NEW o \in Outcome, NEW k \in Pods
  PROVE  /\ Charge(o) => faults' \in FaultCount
         /\ \A i \in Mains : ctr' = [ctr EXCEPT ![k][i] = o.c]
              => ctr' \in [Pods -> [Mains -> Container]]
         /\ \A i \in Inits : ictr' = [ictr EXCEPT ![k][i] = o.c]
              => ictr' \in [Pods -> [Inits -> Container]]
<1>1. o.c \in Container /\ o.fault \in BOOLEAN
  BY DEF Outcome
<1>2. faults \in FaultCount
  BY DEF TypeOK, FaultCount
<1>3. Charge(o) => faults' \in FaultCount
  BY <1>1, <1>2, ChargeTypes
<1>4. ASSUME NEW i \in Mains, ctr' = [ctr EXCEPT ![k][i] = o.c]
      PROVE  ctr' \in [Pods -> [Mains -> Container]]
  BY <1>1, <1>4 DEF TypeOK
<1>5. ASSUME NEW i \in Inits, ictr' = [ictr EXCEPT ![k][i] = o.c]
      PROVE  ictr' \in [Pods -> [Inits -> Container]]
  BY <1>1, <1>5 DEF TypeOK
<1> QED
  BY <1>3, <1>4, <1>5

\* A step of a handler in which a call is made.
LEMMA InspectCharged ==
  ASSUME TypeOK, NEW c, NEW r \in Inspect(c), Charge(r)
  PROVE  faults' \in FaultCount
<1>1. r.fault \in BOOLEAN
  BY InspectionTypes DEF Inspection
<1>2. faults \in FaultCount
  BY DEF TypeOK, FaultCount
<1> QED
  BY <1>1, <1>2, ChargeTypes

\* Every step of a handler, and its end, keeps the types.
LEMMA HandlerStepTypes == TypeOK /\ Handler => TypeOK'
<1> SUFFICES ASSUME TypeOK, Handler PROVE TypeOK'
  OBVIOUS
<1> USE DEF apiVars, feedVars, provVars, boxVars
<1>k. inf.pc # "idle" => inf.pod \in Pods /\ inf.inc \in Nat /\ inf.i \in Nat
  BY DEF TypeOK, AtWork, Informer
<1>c. /\ inf.pc \in {"addInspect", "reconcile", "mainRm", "mainRun"} =>
           inf.i \in Mains /\ ctr[inf.pod][inf.i] \in Container
      /\ inf.pc \in {"initRm", "initRun", "initWait", "initRm2"} =>
           inf.i \in Inits /\ ictr[inf.pod][inf.i] \in Container
  BY <1>k DEF TypeOK, AtWork
<1>1. CASE AddInspect
  <2>1. faults' \in FaultCount
    BY <1>1, InspectCharged DEF AddInspect
  <2>2. InfTypes
    <3>1. CASE Continue("reconcile", 1)
      BY <1>1, <3>1, ContinueTypes, ConstantsAssumption DEF AddInspect, InfTypes, InfPC, Mains
    <3>2. CASE CreateFrom(1)
      BY <1>1, <3>2, CreateFromTypes, ConstantsAssumption DEF AddInspect, InfTypes
    <3> QED
      BY <1>1, <3>1, <3>2 DEF AddInspect
  <2> QED
    BY <1>1, <2>1, <2>2 DEF AddInspect, InfTypes, FaultCount, TypeOK, AtWork
<1>2. CASE Reconcile
  <2>1. faults' \in FaultCount
    BY <1>2, InspectCharged DEF Reconcile
  <2>2. InfTypes /\ tracked' \in [Pods -> Nat]
    <3>1. CASE inf' = InfIdle
      BY <1>2, <1>k, <3>1, IdleTypes DEF Reconcile, InfTypes, Track, TypeOK
    <3>2. CASE inf.i < NMain /\ Continue("reconcile", inf.i + 1) /\ UNCHANGED tracked
      <4>1. inf.i + 1 \in Mains /\ inf.i + 1 \in Nat
        BY <1>2, <1>c, <3>2, ConstantsAssumption DEF Reconcile, Mains
      <4>2. /\ inf' \in Informer /\ inf'.pc = "reconcile" /\ inf'.i = inf.i + 1
            /\ inf'.pod \in Pods
        BY <1>2, <3>2, <4>1, ContinueTypes DEF Reconcile, InfPC
      <4> QED
        BY <3>2, <4>1, <4>2, ConstantsAssumption DEF InfTypes, TypeOK
    <3> QED
      BY <1>2, <3>1, <3>2 DEF Reconcile
  <2> QED
    BY <1>2, <2>1, <2>2 DEF Reconcile, InfTypes, FaultCount, TypeOK, AtWork
<1>3. CASE InitRm
  <2>1. PICK o \in Remove(ictr[inf.pod][inf.i]) : OnInit(o)
    BY <1>3 DEF InitRm
  <2>2. o \in Outcome
    BY <1>3, <1>c, <2>1, OutcomeTypes DEF InitRm
  <2>3. faults' \in FaultCount /\ ictr' \in [Pods -> [Inits -> Container]]
    BY <1>3, <1>k, <1>c, <2>1, <2>2, CallTypes DEF InitRm, OnInit
  <2>4. InfTypes
    BY <1>3, <1>k, <1>c, ContinueTypes, ConstantsAssumption DEF InitRm, InfTypes, InfPC
  <2> QED
    BY <1>3, <2>3, <2>4 DEF InitRm, InfTypes, FaultCount, TypeOK, AtWork
<1>4. CASE InitRun
  <2>1. PICK o \in Run(ictr[inf.pod][inf.i], inf.inc) :
          /\ OnInit(o)
          /\ \/ Continue("initWait", inf.i) /\ UNCHANGED clean
             \/ CreateFailed
    BY <1>4 DEF InitRun
  <2>2. o \in Outcome
    BY <1>4, <1>k, <1>c, <2>1, OutcomeTypes DEF InitRun
  <2>3. faults' \in FaultCount /\ ictr' \in [Pods -> [Inits -> Container]]
    BY <1>4, <1>k, <1>c, <2>1, <2>2, CallTypes DEF InitRun, OnInit
  <2>4. InfTypes /\ clean' \in [Mains -> CleanStage]
    <3>1. CASE Continue("initWait", inf.i) /\ UNCHANGED clean
      BY <1>4, <1>k, <1>c, <3>1, ContinueTypes, ConstantsAssumption
         DEF InitRun, InfTypes, InfPC, TypeOK
    <3>2. CASE CreateFailed
      BY <1>4, <3>2, CreateFailedTypes DEF InitRun
    <3> QED
      BY <2>1, <3>1, <3>2
  <2> QED
    BY <1>4, <2>3, <2>4 DEF InitRun, InfTypes, FaultCount, TypeOK, AtWork
<1>5. CASE InitWait
  <2>1. InfTypes /\ clean' \in [Mains -> CleanStage]
    <3>1. CASE Continue("initRm2", inf.i) /\ UNCHANGED clean
      BY <1>5, <1>k, <1>c, <3>1, ContinueTypes, ConstantsAssumption
         DEF InitWait, InfTypes, InfPC, TypeOK
    <3>2. CASE CreateFailed
      BY <1>5, <3>2, CreateFailedTypes DEF InitWait
    <3> QED
      BY <1>5, <3>1, <3>2 DEF InitWait
  <2> QED
    BY <1>5, <2>1 DEF InitWait, InfTypes, TypeOK, AtWork
<1>6. CASE InitRm2
  <2>1. PICK o \in Remove(ictr[inf.pod][inf.i]) : OnInit(o)
    BY <1>6 DEF InitRm2
  <2>2. o \in Outcome
    BY <1>6, <1>c, <2>1, OutcomeTypes DEF InitRm2
  <2>3. faults' \in FaultCount /\ ictr' \in [Pods -> [Inits -> Container]]
    BY <1>6, <1>k, <1>c, <2>1, <2>2, CallTypes DEF InitRm2, OnInit
  <2>4. inf.i + 1 \in Nat \ {0}
    BY <1>6, <1>k DEF InitRm2
  <2>5. InfTypes
    BY <1>6, <2>4, CreateFromTypes, ConstantsAssumption DEF InitRm2, InfTypes
  <2> QED
    BY <1>6, <2>3, <2>5 DEF InitRm2, InfTypes, FaultCount, TypeOK, AtWork
<1>7. CASE MainRm
  <2>1. PICK o \in Remove(ctr[inf.pod][inf.i]) : OnMain(o)
    BY <1>7 DEF MainRm
  <2>2. o \in Outcome
    BY <1>7, <1>c, <2>1, OutcomeTypes DEF MainRm
  <2>3. faults' \in FaultCount /\ ctr' \in [Pods -> [Mains -> Container]]
    BY <1>7, <1>k, <1>c, <2>1, <2>2, CallTypes DEF MainRm, OnMain
  <2>4. InfTypes
    BY <1>7, <1>k, <1>c, ContinueTypes, ConstantsAssumption DEF MainRm, InfTypes, InfPC
  <2> QED
    BY <1>7, <2>3, <2>4 DEF MainRm, InfTypes, FaultCount, TypeOK, AtWork
<1>8. CASE MainRun
  <2>1. PICK o \in Run(ctr[inf.pod][inf.i], inf.inc) :
          /\ OnMain(o)
          /\ \/ inf.i < NMain /\ Continue("mainRm", inf.i + 1) /\ UNCHANGED clean
             \/ Continue("register", 0) /\ UNCHANGED clean
             \/ CreateFailed
    BY <1>8 DEF MainRun
  <2>2. o \in Outcome
    BY <1>8, <1>k, <1>c, <2>1, OutcomeTypes DEF MainRun
  <2>3. faults' \in FaultCount /\ ctr' \in [Pods -> [Mains -> Container]]
    BY <1>8, <1>k, <1>c, <2>1, <2>2, CallTypes DEF MainRun, OnMain
  <2>4. InfTypes /\ clean' \in [Mains -> CleanStage]
    <3>1. CASE inf.i < NMain /\ Continue("mainRm", inf.i + 1) /\ UNCHANGED clean
      <4>1. inf.i + 1 \in Mains /\ inf.i + 1 \in Nat
        BY <1>8, <1>c, <3>1, ConstantsAssumption DEF MainRun, Mains
      <4>2. /\ inf' \in Informer /\ inf'.pc = "mainRm" /\ inf'.i = inf.i + 1
            /\ inf'.pod \in Pods
        BY <1>8, <3>1, <4>1, ContinueTypes DEF MainRun, InfPC
      <4> QED
        BY <3>1, <4>1, <4>2, ConstantsAssumption DEF InfTypes, TypeOK
    <3>2. CASE Continue("register", 0) /\ UNCHANGED clean
      BY <1>8, <3>2, ContinueTypes, ConstantsAssumption DEF MainRun, InfTypes, InfPC, TypeOK
    <3>3. CASE CreateFailed
      BY <1>8, <3>3, CreateFailedTypes DEF MainRun
    <3> QED
      BY <2>1, <3>1, <3>2, <3>3
  <2> QED
    BY <1>8, <2>3, <2>4 DEF MainRun, InfTypes, FaultCount, TypeOK, AtWork
<1>9. CASE Register
  <2>1. tracked' \in [Pods -> Nat] /\ InfTypes
    BY <1>9, <1>k, IdleTypes DEF Register, Track, InfTypes, TypeOK
  <2> QED
    BY <1>9, <2>1 DEF Register, InfTypes, TypeOK, AtWork
<1>10. CASE CleanDone
  <2>1. InfTypes
    <3>1. CASE inf.then = "apiDelete"
      <4>1. inf' = [inf EXCEPT !.pc = "apiDelete", !.then = "none"]
        BY <1>10, <3>1 DEF CleanDone
      <4>2. inf \in Informer
        BY DEF TypeOK
      <4>3. inf' \in Informer /\ inf'.pc = "apiDelete" /\ inf'.pod = inf.pod
        BY <4>1, <4>2 DEF Informer, InfPC
      <4> QED
        BY <1>10, <1>k, <4>3, ConstantsAssumption DEF CleanDone, InfTypes
    <3>2. CASE inf.then # "apiDelete"
      BY <1>10, <3>2, IdleTypes DEF CleanDone, InfTypes
    <3> QED
      BY <3>1, <3>2
  <2> QED
    BY <1>10, <2>1 DEF CleanDone, InfTypes, TypeOK, AtWork
<1>11. CASE ApiDelete
  <2>1. api' \in [Pods -> PodObj]
    <3>1. NoPod \in PodObj
      BY DEF NoPod, PodObj
    <3>2. api' = api \/ api' = [api EXCEPT ![inf.pod] = NoPod]
      BY <1>11 DEF ApiDelete
    <3> QED
      BY <3>1, <3>2 DEF TypeOK
  <2>2. queue' \in [Pods -> Seq(Event)]
    <3>1. Ev("del", api[inf.pod]) \in Event
      BY <1>11, <1>k, EventTypes DEF ApiDelete, TypeOK
    <3>2. Emit(inf.pod, Ev("del", api[inf.pod])) => queue' \in [Pods -> Seq(Event)]
      BY <1>11, <1>k, <3>1, EmitTypes DEF ApiDelete, TypeOK
    <3> QED
      BY <1>11, <3>2 DEF ApiDelete, TypeOK
  <2>3. faults' \in FaultCount
    <3>1. faults \in FaultCount
      BY DEF TypeOK, FaultCount
    <3>2. Fault(Gone).fault \in BOOLEAN
      BY DEF Fault
    <3>3. Charge(Fault(Gone)) => faults' \in FaultCount
      BY <3>1, <3>2, ChargeTypes
    <3> QED
      BY <1>11, <3>1, <3>3 DEF ApiDelete
  <2>4. InfTypes
    BY <1>11, IdleTypes DEF ApiDelete, InfTypes
  <2> QED
    BY <1>11, <2>1, <2>2, <2>3, <2>4 DEF ApiDelete, InfTypes, FaultCount, TypeOK, AtWork
<1> QED
  BY <1>1, <1>2, <1>3, <1>4, <1>5, <1>6, <1>7, <1>8, <1>9, <1>10, <1>11 DEF Handler

\* The goroutines of cleanupPodContainers keep the types.
LEMMA CleanStepTypes ==
  ASSUME TypeOK, NEW i \in Mains, CleanStep(i)
  PROVE  TypeOK'
<1> USE DEF apiVars, feedVars, provVars, boxVars
<1>1. inf.pc = "clean" /\ inf.pod \in Pods /\ ctr[inf.pod][i] \in Container
  BY DEF CleanStep, CleanStop, CleanKill, CleanWait, CleanRemove, CleanRetry, CleanCall,
         TypeOK, AtWork, Informer
<1>2. ASSUME NEW outcomes \in SUBSET Outcome, NEW stage,
             NEW ok \in CleanStage, NEW err \in CleanStage,
             CleanCall(i, stage, outcomes, ok, err)
      PROVE  TypeOK'
  <2>1. PICK o \in outcomes : OnClean(o, i) /\ clean' = [clean EXCEPT ![i] = IF o.ok THEN ok ELSE err]
    BY <1>2 DEF CleanCall
  <2>2. faults' \in FaultCount /\ ctr' \in [Pods -> [Mains -> Container]]
    BY <1>1, <2>1, CallTypes DEF OnClean
  <2>3. clean' \in [Mains -> CleanStage]
    BY <2>1 DEF TypeOK
  <2> QED
    BY <1>2, <2>2, <2>3 DEF CleanCall, FaultCount, TypeOK, AtWork
<1>3. CASE CleanWait(i)
  <2>1. clean' \in [Mains -> CleanStage]
    BY <1>3 DEF CleanWait, TypeOK, CleanStage
  <2>2. faults' \in FaultCount
    BY <1>3, InspectCharged DEF CleanWait, TypeOK, FaultCount
  <2> QED
    BY <1>3, <2>1, <2>2 DEF CleanWait, FaultCount, TypeOK, AtWork
<1>4. /\ Stop(ctr[inf.pod][i]) \subseteq Outcome
      /\ Kill(ctr[inf.pod][i]) \subseteq Outcome
      /\ Remove(ctr[inf.pod][i]) \subseteq Outcome
  BY <1>1, OutcomeTypes
<1>5. {"wait", "kill", "done", "rm2"} \subseteq CleanStage
  BY DEF CleanStage
<1>6. CASE CleanStop(i)
  BY <1>2, <1>4, <1>5, <1>6 DEF CleanStop
<1>7. CASE CleanKill(i)
  BY <1>2, <1>4, <1>5, <1>7 DEF CleanKill
<1>8. CASE CleanRemove(i)
  BY <1>2, <1>4, <1>5, <1>8 DEF CleanRemove
<1>9. CASE CleanRetry(i)
  BY <1>2, <1>4, <1>5, <1>9 DEF CleanRetry
<1> QED
  BY <1>3, <1>6, <1>7, <1>8, <1>9 DEF CleanStep

\* periodicStatusSync's part of the type invariant.
PerTypes ==
  /\ per' \in Periodic
  /\ per'.pc \in {"idle", "pick"} <=> per'.pod = NoKey
  /\ per'.pod # NoKey => per'.i \in Mains

\* A pass that is over holds no pod.
LEMMA PerIdleTypes ==
  PerIdle \in Periodic /\ PerIdle.pc = "idle" /\ PerIdle.pod = NoKey
BY DEF PerIdle, Periodic, Seen

\* A pass goes on with the pods it still holds, or is over.
LEMMA NextPodTypes ==
  ASSUME NEW todo \in [Pods -> Nat], NextPod(todo)
  PROVE  PerTypes
<1>1. CASE per' = PerIdle
  BY <1>1, PerIdleTypes DEF PerTypes
<1>2. CASE per' = [PerIdle EXCEPT !.pc = "pick", !.todo = todo]
  <2>1. per' \in Periodic
    BY <1>2 DEF PerIdle, Periodic, Seen
  <2>2. per'.pc = "pick" /\ per'.pod = NoKey
    BY <1>2 DEF PerIdle
  <2> QED
    BY <2>1, <2>2 DEF PerTypes
<1> QED
  BY <1>1, <1>2 DEF NextPod

\* The loop of handleRestarts stays within the pod's containers.
LEMMA NextContainerTypes ==
  ASSUME TypeOK, per.pod # NoKey, NextContainer
  PROVE  PerTypes
<1>1. per \in Periodic /\ per.i \in Mains
  BY DEF TypeOK, AtWork
<1>2. CASE per.i < NMain
  <2>1. per' = [per EXCEPT !.pc = "act", !.i = @ + 1]
    BY <1>2 DEF NextContainer
  <2>2. per' \in Periodic /\ per'.pc = "act" /\ per'.pod = per.pod /\ per'.i = per.i + 1
    <3>1. per.i + 1 \in Nat
      BY <1>1, ConstantsAssumption DEF Mains
    <3> QED
      BY <1>1, <2>1, <3>1 DEF Periodic
  <2>3. per.i + 1 \in Mains
    BY <1>1, <1>2, ConstantsAssumption DEF Mains
  <2> QED
    BY <2>2, <2>3 DEF PerTypes
<1>3. CASE ~(per.i < NMain)
  <2>1. per.todo \in [Pods -> Nat]
    BY <1>1 DEF Periodic
  <2> QED
    BY <1>3, <2>1, NextPodTypes DEF NextContainer
<1> QED
  BY <1>2, <1>3

\* A tick and every step of a pass keep the types.
LEMMA PeriodicTypes == TypeOK /\ (Tick \/ PeriodicStep) => TypeOK'
<1> SUFFICES ASSUME TypeOK, Tick \/ PeriodicStep PROVE TypeOK'
  OBVIOUS
<1> USE DEF apiVars, feedVars, provVars, boxVars
<1>p. per \in Periodic /\ per.pod \in Pods \cup {NoKey} /\ per.todo \in [Pods -> Nat] /\ per.inc \in Nat
  BY DEF TypeOK, Periodic
<1>w. per.pc \notin {"idle", "pick"} =>
        per.pod # NoKey /\ per.pod \in Pods /\ per.i \in Mains /\ ctr[per.pod][per.i] \in Container
  BY <1>p DEF TypeOK, AtWork
<1>0. ASSUME PerTypes, faults' \in FaultCount, ctr' \in [Pods -> [Mains -> Container]],
             restarted' \in [Pods -> [Mains -> BOOLEAN]],
             UNCHANGED <<apiVars, feedVars, tracked, ictr, inf, clean, raced>>
      PROVE  TypeOK'
  BY <1>0 DEF PerTypes, FaultCount, TypeOK, AtWork
<1>q. faults \in FaultCount /\ ctr \in [Pods -> [Mains -> Container]]
      /\ restarted \in [Pods -> [Mains -> BOOLEAN]]
  BY DEF TypeOK, FaultCount
<1>1. CASE Tick
  <2>1. per' = [PerIdle EXCEPT !.pc = "pick", !.todo = tracked] /\ tracked \in [Pods -> Nat]
    BY <1>1 DEF Tick, TypeOK
  <2>2. per' \in Periodic /\ per'.pc = "pick" /\ per'.pod = NoKey
    BY <2>1 DEF PerIdle, Periodic, Seen
  <2> QED
    BY <1>0, <1>1, <1>q, <2>2 DEF Tick, PerTypes
<1>2. ASSUME NEW k \in Pods, Pick(k) PROVE TypeOK'
  <2>1. PerTypes
    <3>1. CASE NextPod([per.todo EXCEPT ![k] = 0])
      <4>1. [per.todo EXCEPT ![k] = 0] \in [Pods -> Nat]
        BY <1>p
      <4> QED
        BY <3>1, <4>1, NextPodTypes
    <3>2. CASE per' = [per EXCEPT !.pc = "inspect", !.todo[k] = 0, !.pod = k,
                                  !.inc = per.todo[k], !.i = 1]
      <4>1. per.todo[k] \in Nat /\ [per.todo EXCEPT ![k] = 0] \in [Pods -> Nat]
        BY <1>p
      <4>2. per' \in Periodic /\ per'.pc = "inspect" /\ per'.pod = k /\ per'.i = 1
        BY <1>p, <3>2, <4>1 DEF Periodic
      <4> QED
        BY <4>2, ConstantsAssumption DEF PerTypes, Mains
    <3> QED
      BY <1>2, <3>1, <3>2 DEF Pick
  <2> QED
    BY <1>0, <1>2, <1>q, <2>1 DEF Pick
<1>3. CASE InspectStatus
  <2>1. PICK r \in Inspect(ctr[per.pod][per.i]) :
          /\ Charge(r)
          /\ \E s \in SeenAs(r) :
               per' = [per EXCEPT !.pc = IF per.i < NMain THEN "inspect" ELSE "act",
                                  !.i  = IF per.i < NMain THEN @ + 1 ELSE 1,
                                  !.seen[per.i] = s]
    BY <1>3 DEF InspectStatus
  <2>2. faults' \in FaultCount
    BY <2>1, InspectCharged
  <2>3. SeenAs(r) \subseteq Seen
    <3>1. r.state \in {"error", "running", "stopped"}
      BY InspectionTypes DEF Inspection
    <3> QED
      BY <3>1 DEF SeenAs, Seen
  <2>4. PICK s \in Seen :
          per' = [per EXCEPT !.pc = IF per.i < NMain THEN "inspect" ELSE "act",
                             !.i  = IF per.i < NMain THEN @ + 1 ELSE 1,
                             !.seen[per.i] = s]
    BY <2>1, <2>3
  <2>5. per.pod # NoKey /\ per.i \in Mains
    BY <1>3, <1>w DEF InspectStatus
  <2>6. /\ (IF per.i < NMain THEN "inspect" ELSE "act") \in {"inspect", "act"}
        /\ (IF per.i < NMain THEN per.i + 1 ELSE 1) \in Mains
        /\ [per.seen EXCEPT ![per.i] = s] \in [Mains -> Seen]
    BY <1>p, <2>5, ConstantsAssumption DEF Mains, Periodic
  <2>7. /\ per' \in Periodic /\ per'.pod = per.pod
        /\ per'.pc \in {"inspect", "act"} /\ per'.i \in Mains
    <3>1. \A i \in Mains : i \in Nat
      BY DEF Mains
    <3> QED
      BY <1>p, <2>4, <2>6, <3>1 DEF Periodic
  <2> QED
    BY <1>0, <1>3, <1>q, <2>2, <2>5, <2>7 DEF InspectStatus, PerTypes
<1>4. CASE Act
  <2>1. per.pod # NoKey /\ per.i \in Mains
    BY <1>4, <1>w DEF Act
  <2>2. faults' \in FaultCount
    BY <1>4, <1>q, InspectCharged DEF Act, ActRunning, ActOther
  <2>3. PerTypes
    <3>1. CASE NextContainer
      BY <2>1, <3>1, NextContainerTypes
    <3>2. ASSUME NEW pc \in {"kill", "restartRm"}, per' = [per EXCEPT !.pc = pc]
          PROVE  PerTypes
      <4>1. per' \in Periodic /\ per'.pc = pc /\ per'.pod = per.pod /\ per'.i = per.i
        BY <1>p, <3>2 DEF Periodic
      <4> QED
        BY <2>1, <4>1 DEF PerTypes
    <3> QED
      BY <1>4, <3>1, <3>2 DEF Act, ActRunning, ActOther
  <2> QED
    BY <1>0, <1>4, <1>q, <2>2, <2>3 DEF Act
<1>5. CASE LivenessKill
  <2>1. PICK o \in Kill(ctr[per.pod][per.i]) : OnPeriodic(o)
    BY <1>5 DEF LivenessKill
  <2>2. o \in Outcome
    BY <1>5, <1>w, <2>1, OutcomeTypes DEF LivenessKill
  <2>3. faults' \in FaultCount /\ ctr' \in [Pods -> [Mains -> Container]]
    BY <1>5, <1>w, <2>1, <2>2, CallTypes DEF LivenessKill, OnPeriodic
  <2>4. PerTypes
    BY <1>5, <1>w, NextContainerTypes DEF LivenessKill
  <2> QED
    BY <1>0, <1>5, <1>q, <2>3, <2>4 DEF LivenessKill
<1>6. CASE RestartRm
  <2>1. PICK o \in Remove(ctr[per.pod][per.i]) : OnPeriodic(o)
    BY <1>6 DEF RestartRm
  <2>2. o \in Outcome
    BY <1>6, <1>w, <2>1, OutcomeTypes DEF RestartRm
  <2>3. faults' \in FaultCount /\ ctr' \in [Pods -> [Mains -> Container]]
    BY <1>6, <1>w, <2>1, <2>2, CallTypes DEF RestartRm, OnPeriodic
  <2>4. PerTypes
    <3>1. per' \in Periodic /\ per'.pc = "restartRun" /\ per'.pod = per.pod /\ per'.i = per.i
      BY <1>6, <1>p DEF RestartRm, Periodic
    <3> QED
      BY <1>6, <1>w, <3>1 DEF RestartRm, PerTypes
  <2> QED
    BY <1>0, <1>6, <1>q, <2>3, <2>4 DEF RestartRm
<1>7. CASE RestartRun
  <2>1. PICK o \in Run(ctr[per.pod][per.i], per.inc) :
          OnPeriodic(o) /\ restarted' = [restarted EXCEPT ![per.pod][per.i] = @ \/ o.ok]
    BY <1>7 DEF RestartRun
  <2>2. o \in Outcome
    BY <1>7, <1>p, <1>w, <2>1, OutcomeTypes DEF RestartRun
  <2>3. faults' \in FaultCount /\ ctr' \in [Pods -> [Mains -> Container]]
    BY <1>7, <1>w, <2>1, <2>2, CallTypes DEF RestartRun, OnPeriodic
  <2>4. restarted' \in [Pods -> [Mains -> BOOLEAN]]
    BY <1>q, <2>1, <2>2 DEF Outcome
  <2>5. PerTypes
    BY <1>7, <1>w, NextContainerTypes DEF RestartRun
  <2> QED
    BY <1>0, <1>7, <2>3, <2>4, <2>5 DEF RestartRun
<1> QED
  BY <1>1, <1>2, <1>3, <1>4, <1>5, <1>6, <1>7 DEF PeriodicStep

\* A process that exits leaves a container.
LEMMA WorkloadTypes == TypeOK /\ Workload => TypeOK'
<1> SUFFICES ASSUME TypeOK, Workload PROVE TypeOK'
  OBVIOUS
<1> USE DEF apiVars, feedVars, provVars, boxVars
<1>e. \A c \in Container, e \in ExitKinds : [c EXCEPT !.st = e] \in Container
  BY ConstantsAssumption DEF Container, Exited
<1>1. ASSUME NEW k \in Pods, NEW i \in Mains, MainExit(k, i) PROVE TypeOK'
  <2>1. PICK e \in ExitKinds : ctr' = [ctr EXCEPT ![k][i].st = e]
    BY <1>1 DEF MainExit
  <2>2. ctr' \in [Pods -> [Mains -> Container]]
    BY <1>e, <2>1 DEF TypeOK
  <2> QED
    BY <1>1, <2>2 DEF MainExit, TypeOK, AtWork
<1>2. ASSUME NEW k \in Pods, NEW i \in Inits, InitExit(k, i) PROVE TypeOK'
  <2>1. PICK e \in ExitKinds : ictr' = [ictr EXCEPT ![k][i].st = e]
    BY <1>2 DEF InitExit
  <2>2. ictr' \in [Pods -> [Inits -> Container]]
    BY <1>e, <2>1 DEF TypeOK
  <2> QED
    BY <1>2, <2>2 DEF InitExit, TypeOK, AtWork
<1> QED
  BY <1>1, <1>2 DEF Workload

\* A new kubelet process starts from well-typed state.
LEMMA RestartTypes == TypeOK /\ KubeletRestart => TypeOK'
<1> SUFFICES ASSUME TypeOK, KubeletRestart PROVE TypeOK'
  OBVIOUS
<1>1. faults' \in FaultCount
  <2>1. faults \in FaultCount
    BY DEF TypeOK, FaultCount
  <2> QED
    BY <2>1 DEF KubeletRestart, FaultCount
<1>2. /\ queue' \in [Pods -> Seq(Event)]
      /\ store' \in [Pods -> PodObj]
      /\ tracked' \in [Pods -> Nat]
      /\ restarted' \in [Pods -> [Mains -> BOOLEAN]]
      /\ clean' \in [Mains -> CleanStage]
  BY DEF KubeletRestart, NoPod, PodObj, CleanStage
<1>3. inf' = InfIdle /\ per' = PerIdle
  BY DEF KubeletRestart
<1> QED
  BY <1>1, <1>2, <1>3, IdleTypes, PerIdleTypes
     DEF KubeletRestart, FaultCount, TypeOK, AtWork, apiVars, boxVars

\* TypeOK is inductive: the cases above, one per group of Next.
LEMMA StepTypes == TypeOK /\ [Next]_vars => TypeOK'
<1> SUFFICES ASSUME TypeOK, [Next]_vars PROVE TypeOK'
  OBVIOUS
<1>1. CASE UNCHANGED vars
  BY <1>1 DEF vars, apiVars, feedVars, provVars, boxVars, TypeOK, AtWork
<1>2. CASE Next
  BY <1>2, ApiTypes, FeedTypes, HandlerStepTypes, CleanStepTypes, PeriodicTypes,
     WorkloadTypes, RestartTypes DEF Next
<1> QED
  BY <1>1, <1>2

\* Type correctness of the specification: in particular the loops over the
\* containers of a pod spec, in both goroutines, never leave its range.
THEOREM TypeCorrect == Spec => []TypeOK
BY InitTypes, StepTypes, PTL DEF Spec

-----------------------------------------------------------------------------
(* A tracked pod is the one in the store.                                  *)

Creating == {"addInspect", "reconcile", "initRm", "initRun", "initWait", "initRm2",
             "mainRm", "mainRun", "register"}

NoTomb(q) == \A j \in 1 .. Len(q) : q[j].kind # "tomb"

\* Why it is so: no watch was lost, so no tombstone is on its way, and the
\* only list is the first one, made over an empty store; and a handler that
\* will track a pod has the incarnation that is in the store.
FeedInv ==
  faults.losses = 0 =>
    /\ \A k \in Pods : NoTomb(queue[k])
    /\ ~watching => \A k \in Pods : queue[k] = <<>> /\ store[k].inc = 0
CreatingInv == inf.pc \in Creating => inf.inc = store[inf.pod].inc
TrackInv == TypeOK /\ FeedInv /\ CreatingInv /\ TrackedIsStored

\* The invariant holds when nothing is tracked, queued or stored.
LEMMA TrackInvInit == Init => TrackInv
<1> SUFFICES ASSUME Init PROVE TrackInv
  OBVIOUS
<1>1. TypeOK
  BY InitTypes
<1>2. FeedInv
  BY DEF Init, FeedInv, NoTomb
<1>3. CreatingInv
  BY DEF Init, CreatingInv, Creating, InfIdle
<1>4. TrackedIsStored
  BY DEF Init, TrackedIsStored, NoPod
<1> QED
  BY <1>1, <1>2, <1>3, <1>4 DEF TrackInv

\* A queue without tombstones stays so when another kind of event is added,
LEMMA NoTombAppend ==
  ASSUME NEW q \in Seq(Event), NEW e \in Event, NoTomb(q), e.kind # "tomb"
  PROVE  NoTomb(Append(q, e))
BY DEF NoTomb

\* and when its first event, which is none, is taken.
LEMMA NoTombTail ==
  ASSUME NEW q \in Seq(Event), q # <<>>, NoTomb(q)
  PROVE  NoTomb(Tail(q)) /\ Head(q).kind # "tomb"
BY HeadTailProperties DEF NoTomb

\* Queueing a change that is not a tombstone keeps FeedInv.
LEMMA EmitFeed ==
  ASSUME TypeOK, FeedInv, NEW k \in Pods, NEW e \in Event, e.kind # "tomb", Emit(k, e),
         faults' = faults, UNCHANGED <<watching, store>>
  PROVE  FeedInv'
<1>1. CASE watching
  BY <1>1, NoTombAppend DEF Emit, FeedInv, TypeOK
<1>2. CASE ~watching
  BY <1>2 DEF Emit, FeedInv, NoTomb
<1> QED
  BY <1>1, <1>2

\* A call of the tool never counts as a lost watch.
LEMMA ChargeLosses ==
  ASSUME TypeOK, NEW o, Charge(o)
  PROVE  faults'.losses = faults.losses
BY DEF Charge, TypeOK

\* A handler goes on with the pod and the incarnation it has, or ends.
GoesOn ==
  \/ inf' = InfIdle
  \/ /\ inf'.pod = inf.pod
     /\ inf'.pc \in Creating => inf.pc \in Creating /\ inf'.inc = inf.inc

\* Most steps leave the feed and podsByKey alone.
LEMMA TrackKept ==
  ASSUME TrackInv, TypeOK', GoesOn, UNCHANGED <<watching, queue, store, tracked>>,
         faults'.losses = faults.losses
  PROVE  TrackInv'
<1> USE DEF TrackInv
<1>1. FeedInv'
  BY DEF FeedInv, NoTomb
<1>2. CreatingInv'
  BY DEF CreatingInv, GoesOn, InfIdle, Creating
<1>3. TrackedIsStored'
  <2> SUFFICES ASSUME faults.losses = 0, NEW k \in Pods
               PROVE  tracked[k] \in IF inf'.pod = k THEN {0} ELSE {0, store[k].inc}
    BY DEF TrackedIsStored
  <2>1. tracked[k] \in IF inf.pod = k THEN {0} ELSE {0, store[k].inc}
    BY DEF TrackedIsStored
  <2>2. inf' = InfIdle => inf'.pod # k
    BY ConstantsAssumption DEF InfIdle
  <2> QED
    BY <2>1, <2>2 DEF GoesOn
<1> QED
  BY <1>1, <1>2, <1>3

\* The steps within a creation stay with its pod and incarnation.
LEMMA GoesOnSteps ==
  ASSUME TypeOK, inf.pc \in Creating
  PROVE  /\ \A pc, i : Continue(pc, i) => GoesOn
         /\ \A i : CreateFrom(i) => GoesOn
         /\ CreateFailed => GoesOn
<1>1. ASSUME NEW pc, NEW i, Continue(pc, i) PROVE GoesOn
  BY <1>1 DEF Continue, GoesOn, TypeOK, Informer
<1>2. CreateFailed => GoesOn
  BY DEF CreateFailed, StartCleanup, GoesOn, Creating
<1> QED
  BY <1>1, <1>2 DEF CreateFrom

\* Only Register and the end of Reconcile track a pod: the one in the store.
LEMMA HandlerTrack == TrackInv /\ Handler /\ TypeOK' => TrackInv'
<1> SUFFICES ASSUME TrackInv, Handler, TypeOK' PROVE TrackInv'
  OBVIOUS
<1> USE DEF feedVars, provVars
<1>t. TypeOK
  BY DEF TrackInv
<1>1. CASE AddInspect
  <2>1. GoesOn
    BY <1>1, <1>t, GoesOnSteps DEF AddInspect, Creating
  <2>2. faults'.losses = faults.losses
    BY <1>1, <1>t, ChargeLosses DEF AddInspect
  <2> QED
    BY <1>1, <2>1, <2>2, TrackKept DEF AddInspect
\* reconcilePod and the end of CreatePod are where the pod becomes tracked.
<1>2. ASSUME inf.pc \in Creating, inf' = InfIdle, Track(inf.pod, inf.inc),
             UNCHANGED feedVars, faults'.losses = faults.losses
      PROVE  TrackInv'
  <2>1. FeedInv' /\ CreatingInv'
    BY <1>2 DEF TrackInv, FeedInv, CreatingInv, InfIdle, Creating, NoTomb
  <2>2. TrackedIsStored'
    <3> SUFFICES ASSUME faults.losses = 0, NEW k \in Pods
                 PROVE  tracked'[k] \in {0, store[k].inc} /\ inf'.pod # k
      BY <1>2 DEF TrackedIsStored
    <3>1. inf'.pod # k
      BY <1>2, ConstantsAssumption DEF InfIdle
    <3>a. tracked \in [Pods -> Nat] /\ tracked' = [tracked EXCEPT ![inf.pod] = inf.inc]
      BY <1>2, <1>t DEF Track, TypeOK
    <3>2. CASE k = inf.pod
      <4>1. inf.inc = store[inf.pod].inc
        BY <1>2 DEF TrackInv, CreatingInv
      <4> QED
        BY <3>1, <3>2, <3>a, <4>1
    <3>3. CASE k # inf.pod
      <4>1. tracked[k] \in {0, store[k].inc}
        BY <3>3 DEF TrackInv, TrackedIsStored
      <4> QED
        BY <3>1, <3>3, <3>a, <4>1
    <3> QED
      BY <3>1, <3>2, <3>3
  <2> QED
    BY <2>1, <2>2 DEF TrackInv
<1>3. CASE Reconcile
  <2>1. inf.pc \in Creating /\ faults'.losses = faults.losses /\ UNCHANGED feedVars
    BY <1>3, <1>t, ChargeLosses DEF Reconcile, Creating
  <2>2. CASE inf' = InfIdle /\ UNCHANGED tracked
    BY <2>1, <2>2, TrackKept DEF GoesOn
  <2>3. CASE Continue("reconcile", inf.i + 1) /\ UNCHANGED tracked
    BY <1>t, <2>1, <2>3, GoesOnSteps, TrackKept
  <2>4. CASE inf' = InfIdle /\ Track(inf.pod, inf.inc)
    BY <1>2, <2>1, <2>4
  <2> QED
    BY <1>3, <2>2, <2>3, <2>4 DEF Reconcile
<1>4. CASE Register
  BY <1>2, <1>4 DEF Register, Creating
<1>5. CASE InitRm \/ InitRun \/ InitWait \/ InitRm2 \/ MainRm \/ MainRun
  <2>1. inf.pc \in Creating
    BY <1>5 DEF InitRm, InitRun, InitWait, InitRm2, MainRm, MainRun, Creating
  <2>2. GoesOn
    BY <1>5, <1>t, <2>1, GoesOnSteps DEF InitRm, InitRun, InitWait, InitRm2, MainRm, MainRun
  <2>3. faults'.losses = faults.losses
    BY <1>5, <1>t, ChargeLosses
       DEF InitRm, InitRun, InitWait, InitRm2, MainRm, MainRun, OnInit, OnMain
  <2> QED
    BY <1>5, <2>2, <2>3, TrackKept DEF InitRm, InitRun, InitWait, InitRm2, MainRm, MainRun
<1>6. CASE CleanDone
  <2>1. GoesOn
    BY <1>6, <1>t DEF CleanDone, GoesOn, TypeOK, Informer, Creating
  <2> QED
    BY <1>6, <2>1, TrackKept DEF CleanDone
<1>7. CASE ApiDelete
  <2>1. inf.pod \in Pods /\ api[inf.pod] \in PodObj
    BY <1>7, <1>t DEF ApiDelete, TypeOK, AtWork, Informer
  <2>2. Ev("del", api[inf.pod]) \in Event /\ Ev("del", api[inf.pod]).kind # "tomb"
    BY <2>1, EventTypes DEF Ev
  <2>3. CASE Emit(inf.pod, Ev("del", api[inf.pod])) /\ UNCHANGED faults
    <3>1. FeedInv'
      BY <1>7, <1>t, <2>1, <2>2, <2>3, EmitFeed DEF ApiDelete, TrackInv
    <3>2. CreatingInv'
      BY <1>7 DEF ApiDelete, CreatingInv, InfIdle, Creating
    <3>3. TrackedIsStored'
      BY <1>7, <2>3, ConstantsAssumption DEF ApiDelete, TrackInv, TrackedIsStored, InfIdle
    <3> QED
      BY <3>1, <3>2, <3>3 DEF TrackInv
  <2>4. CASE UNCHANGED queue /\ (UNCHANGED faults \/ Charge(Fault(Gone)))
    <3>1. faults'.losses = faults.losses
      BY <1>t, <2>4, ChargeLosses
    <3> QED
      BY <1>7, <2>4, <3>1, TrackKept DEF ApiDelete, GoesOn
  <2> QED
    BY <1>7, <2>3, <2>4 DEF ApiDelete
<1> QED
  BY <1>1, <1>3, <1>4, <1>5, <1>6, <1>7 DEF Handler

\* The API server's users queue no tombstone, and change nothing that is tracked.
LEMMA ApiTrack == TrackInv /\ Api /\ TypeOK' => TrackInv'
<1> SUFFICES ASSUME TrackInv, Api, TypeOK' PROVE TrackInv'
  OBVIOUS
<1> USE DEF provVars
<1>1. ASSUME NEW k \in Pods, NEW e \in Event, e.kind # "tomb", Emit(k, e),
             UNCHANGED <<watching, store, tracked, inf, faults>>
      PROVE  TrackInv'
  <2>1. FeedInv'
    BY <1>1, EmitFeed DEF TrackInv
  <2>2. CreatingInv' /\ TrackedIsStored'
    BY <1>1 DEF TrackInv, CreatingInv, TrackedIsStored
  <2> QED
    BY <2>1, <2>2 DEF TrackInv
<1>2. ASSUME NEW k \in Pods, ApiCreate(k) PROVE TrackInv'
  <2> DEFINE e == Ev("put", [inc |-> lastInc[k] + 1, del |-> FALSE])
  <2>1. e \in Event /\ e.kind # "tomb"
    BY DEF Ev, Event, TrackInv, TypeOK
  <2> HIDE DEF e
  <2> QED
    BY <1>1, <1>2, <2>1 DEF ApiCreate, e
<1>3. ASSUME NEW k \in Pods, ApiMarkDeleted(k) PROVE TrackInv'
  <2> DEFINE e == Ev("put", [api[k] EXCEPT !.del = TRUE])
  <2>1. e \in Event /\ e.kind # "tomb"
    BY DEF Ev, Event, TrackInv, TypeOK, PodObj
  <2> HIDE DEF e
  <2> QED
    BY <1>1, <1>3, <2>1 DEF ApiMarkDeleted, e
<1>4. ASSUME NEW k \in Pods, ApiForceDelete(k) PROVE TrackInv'
  <2> DEFINE e == Ev("del", api[k])
  <2>1. e \in Event /\ e.kind # "tomb"
    BY DEF Ev, Event, TrackInv, TypeOK, PodObj
  <2> HIDE DEF e
  <2> QED
    BY <1>1, <1>4, <2>1 DEF ApiForceDelete, e
<1> QED
  BY <1>2, <1>3, <1>4 DEF Api

\* DeletePod untracks the pod it works on.
LEMMA DeletePodTrack ==
  ASSUME TypeOK, NEW k \in Pods, NEW n, NEW then, DeletePod(k, n, then)
  PROVE  /\ tracked' = [tracked EXCEPT ![k] = 0]
         /\ inf'.pod = k /\ inf'.pc \notin Creating
BY DEF DeletePod, StartCleanup, Creating

\* What a handler that starts on k does to podsByKey, n being the incarnation
\* of k in the store from now on.
StartsOn(k, n) ==
  \/ tracked' = [tracked EXCEPT ![k] = 0] /\ inf'.pod = k /\ inf'.pc \notin Creating
  \/ UNCHANGED tracked /\ tracked[k] = 0 /\ inf'.pod = k /\ inf'.inc = n
  \/ tracked' \in {tracked, [tracked EXCEPT ![k] = n]} /\ tracked'[k] \in {0, n} /\ inf' = inf

\* A handler that starts keeps podsByKey in step with the store.
LEMMA StartTrack ==
  ASSUME TrackInv, TypeOK', inf.pc = "idle", NEW k \in Pods, NEW n \in Nat, FeedInv',
         faults' = faults, faults.losses = 0 => StartsOn(k, n),
         store'[k].inc = n, \A q \in Pods \ {k} : store'[q] = store[q],
         faults.losses # 0 => CreatingInv'
  PROVE  TrackInv'
<1>t. TypeOK /\ inf.pod = NoKey /\ tracked \in [Pods -> Nat]
  BY DEF TrackInv, TypeOK, AtWork
<1>1. CreatingInv'
  BY <1>t DEF StartsOn, CreatingInv, Creating
<1>2. TrackedIsStored'
  <2> SUFFICES ASSUME faults.losses = 0, NEW q \in Pods
               PROVE  tracked'[q] \in IF inf'.pod = q THEN {0} ELSE {0, store'[q].inc}
    BY DEF TrackedIsStored
  <2>0. tracked[q] \in {0, store[q].inc} /\ StartsOn(k, n)
    BY <1>t DEF TrackInv, TrackedIsStored
  <2>1. CASE q = k
    BY <1>t, <2>0, <2>1, ConstantsAssumption DEF StartsOn
  <2>2. CASE q # k
    <3>1. inf'.pod # q
      BY <1>t, <2>0, <2>2, ConstantsAssumption DEF StartsOn
    <3>2. tracked'[q] = tracked[q]
      BY <1>t, <2>0, <2>2 DEF StartsOn
    <3> QED
      BY <2>0, <2>2, <3>1, <3>2
  <2> QED
    BY <2>1, <2>2
<1> QED
  BY <1>1, <1>2 DEF TrackInv

\* Every event that is handled keeps podsByKey in step with the store.
LEMMA FeedTrack == TrackInv /\ Feed /\ TypeOK' => TrackInv'
<1> SUFFICES ASSUME TrackInv, Feed, TypeOK' PROVE TrackInv'
  OBVIOUS
<1> USE DEF provVars, feedVars
<1>t. TypeOK /\ faults.losses \in Nat
  BY DEF TrackInv, TypeOK
<1>1. CASE WatchLost
  <2>1. faults'.losses # 0
    BY <1>1, <1>t DEF WatchLost, TypeOK
  <2> QED
    BY <1>1, <2>1 DEF WatchLost, TrackInv, FeedInv, CreatingInv, TrackedIsStored
<1>2. CASE Relist
  <2>1. FeedInv'
    <3> SUFFICES ASSUME faults.losses = 0, NEW k \in Pods PROVE NoTomb(queue'[k])
      BY <1>2 DEF Relist, FeedInv
    <3>1. queue[k] = <<>> /\ store[k].inc = 0
      BY <1>2 DEF Relist, TrackInv, FeedInv
    <3>2. Known(k) = 0
      BY <3>1 DEF Known
    <3>3. Listed(k) \in {<<Ev("put", api[k])>>, <<>>}
      BY <3>2, <1>t DEF Listed, TypeOK, PodObj
    <3>4. queue'[k] = Listed(k)
      <4>1. Listed(k) \in Seq(Event)
        BY <1>t, ListedTypes
      <4>2. queue'[k] = <<>> \o Listed(k)
        BY <1>2, <3>1 DEF Relist
      <4> QED
        BY <4>1, <4>2, ConcatEmptySeq
    <3> QED
      BY <3>3, <3>4 DEF NoTomb, Ev
  <2>2. CreatingInv' /\ TrackedIsStored'
    BY <1>2 DEF Relist, TrackInv, CreatingInv, TrackedIsStored
  <2> QED
    BY <2>1, <2>2 DEF TrackInv
<1>3. ASSUME NEW k \in Pods, Pop(k) PROVE TrackInv'
  <2> DEFINE e == Head(queue[k])
  <2>1. queue[k] \in Seq(Event) /\ queue[k] # <<>> /\ inf.pc = "idle"
    BY <1>3, <1>t DEF Pop, TypeOK
  <2>2. e \in Event
    BY <2>1, HeadTailProperties
  <2>3. FeedInv'
    <3> SUFFICES ASSUME faults.losses = 0
                 PROVE  watching' /\ \A q \in Pods : NoTomb(queue'[q])
      BY <1>3 DEF Pop, FeedInv
    <3>1. watching /\ \A q \in Pods : NoTomb(queue[q])
      BY <2>1 DEF TrackInv, FeedInv
    <3>2. NoTomb(Tail(queue[k]))
      BY <2>1, <3>1, NoTombTail
    <3>3. \A q \in Pods : queue'[q] = queue[q] \/ queue'[q] = Tail(queue[k])
      BY <1>3, <1>t DEF Pop, TypeOK
    <3> QED
      BY <1>3, <3>1, <3>2, <3>3 DEF Pop
  <2>4. faults.losses = 0 => e.kind # "tomb"
    BY <2>1, NoTombTail DEF TrackInv, FeedInv
  <2>5. faults' = faults /\ (HandlePut(k, e) \/ HandleGone(k, e))
    BY <1>3 DEF Pop
  <2>6. e.inc \in Nat /\ e.kind \in {"put", "del", "tomb"}
    BY <2>2 DEF Event
  <2>7. inf.pod = NoKey /\ store \in [Pods -> PodObj]
    BY <1>t, <2>1 DEF TypeOK, AtWork
  <2>8. faults.losses = 0 => tracked[k] \in {0, store[k].inc}
    BY <2>7, ConstantsAssumption DEF TrackInv, TrackedIsStored
  <2> HIDE DEF e
  <2>9. CASE HandlePut(k, e)
    <3>1. store'[k].inc = e.inc /\ \A q \in Pods \ {k} : store'[q] = store[q]
      BY <2>7, <2>9 DEF HandlePut
    <3>2. CASE store[k].inc = 0 /\ OnAdd(k, e)
      <4>1. faults.losses = 0 => StartsOn(k, e.inc)
        BY <1>t, <2>8, <3>2, DeletePodTrack DEF OnAdd, Goto, StartsOn
      <4>2. CreatingInv'
        BY <1>t, <3>1, <3>2, DeletePodTrack DEF OnAdd, Goto, CreatingInv
      <4> QED
        BY <2>1, <2>3, <2>5, <2>6, <3>1, <4>1, <4>2, StartTrack
    <3>3. CASE OnUpdate(k, e)
      <4>1. StartsOn(k, e.inc)
        BY <1>t, <3>3, DeletePodTrack DEF OnUpdate, HasPod, StartsOn, TypeOK
      <4>2. CreatingInv'
        BY <1>t, <2>1, <3>3, DeletePodTrack DEF OnUpdate, CreatingInv, Creating
      <4> QED
        BY <2>1, <2>3, <2>5, <2>6, <3>1, <4>1, <4>2, StartTrack
    <3> QED
      BY <2>9, <3>2, <3>3 DEF HandlePut
  <2>10. CASE HandleGone(k, e)
    <3>1. store'[k].inc = 0 /\ \A q \in Pods \ {k} : store'[q] = store[q]
      BY <2>7, <2>10 DEF HandleGone, NoPod
    <3>2. OnDelete(k, e)
      BY <2>10 DEF HandleGone
    <3>3. faults.losses = 0 => StartsOn(k, 0)
      BY <1>t, <2>4, <3>2, DeletePodTrack DEF OnDelete, HasPod, StartsOn, TypeOK
    <3>4. CreatingInv'
      BY <1>t, <2>1, <3>2, DeletePodTrack DEF OnDelete, CreatingInv, Creating
    <3> QED
      BY <2>1, <2>3, <2>5, <3>1, <3>3, <3>4, StartTrack
  <2> QED
    BY <2>5, <2>9, <2>10
<1>4. ASSUME NEW k \in Pods, Redeliver(k) PROVE TrackInv'
  <2>1. FeedInv'
    BY <1>4 DEF Redeliver, TrackInv, FeedInv
  <2>2. inf.pc = "idle" /\ OnUpdate(k, store[k]) /\ store[k].inc \in Nat
    BY <1>4, <1>t DEF Redeliver, TypeOK, PodObj
  <2>3. StartsOn(k, store[k].inc)
    BY <1>t, <2>2, DeletePodTrack DEF OnUpdate, HasPod, StartsOn, TypeOK
  <2>4. CreatingInv'
    BY <1>t, <2>2, DeletePodTrack DEF OnUpdate, CreatingInv, Creating
  <2> QED
    BY <1>4, <2>1, <2>2, <2>3, <2>4, StartTrack DEF Redeliver
<1> QED
  BY <1>1, <1>2, <1>3, <1>4 DEF Feed

\* The clean-up, the passes and the processes leave podsByKey alone.
LEMMA OthersTrack ==
  ASSUME TrackInv, TypeOK',
         (\E i \in Mains : CleanStep(i)) \/ Tick \/ PeriodicStep \/ Workload \/ UNCHANGED vars
  PROVE  TrackInv'
<1> USE DEF feedVars, provVars
<1>t. TypeOK
  BY DEF TrackInv
<1>1. UNCHANGED <<watching, queue, store, tracked, inf>> /\ faults'.losses = faults.losses
  <2>1. ASSUME NEW i \in Mains, CleanStep(i)
        PROVE  UNCHANGED <<watching, queue, store, tracked, inf>>
               /\ faults'.losses = faults.losses
    BY <1>t, <2>1, ChargeLosses
       DEF CleanStep, CleanStop, CleanKill, CleanWait, CleanRemove, CleanRetry, CleanCall,
           OnClean
  <2>2. CASE Tick \/ PeriodicStep
    BY <1>t, <2>2, ChargeLosses
       DEF Tick, PeriodicStep, Pick, InspectStatus, Act, ActRunning, ActOther, LivenessKill,
           RestartRm, RestartRun, OnPeriodic
  <2>3. CASE Workload
    BY <2>3 DEF Workload, MainExit, InitExit
  <2>4. CASE UNCHANGED vars
    BY <2>4 DEF vars
  <2> QED
    BY <2>1, <2>2, <2>3, <2>4
<1> QED
  BY <1>1, TrackKept DEF GoesOn

\* A new kubelet process tracks nothing and stores nothing.
LEMMA RestartTrack == TrackInv /\ KubeletRestart /\ TypeOK' => TrackInv'
<1> SUFFICES ASSUME TrackInv, KubeletRestart, TypeOK' PROVE TrackInv'
  OBVIOUS
<1>1. FeedInv'
  BY DEF KubeletRestart, FeedInv, NoTomb, NoPod
<1>2. CreatingInv'
  BY DEF KubeletRestart, CreatingInv, Creating, InfIdle
<1>3. TrackedIsStored'
  BY DEF KubeletRestart, TrackedIsStored, NoPod
<1> QED
  BY <1>1, <1>2, <1>3 DEF TrackInv

\* Every step keeps podsByKey in step with the store.
LEMMA TrackStep == TrackInv /\ [Next]_vars => TrackInv'
<1> SUFFICES ASSUME TrackInv, [Next]_vars PROVE TrackInv'
  OBVIOUS
<1>1. TypeOK'
  BY StepTypes DEF TrackInv
<1> QED
  BY <1>1, ApiTrack, FeedTrack, HandlerTrack, OthersTrack, RestartTrack DEF Next

\* What periodicStatusSync works from is what the informer knows: as long as
\* no watch was lost, a pod in podsByKey is the one in the informer's store,
\* and it is not there while a handler is at work on it.  Calls may fail and
\* the kubelet may stop and start, any number of times.
THEOREM TrackedIsStoredAlways == Spec => []TrackedIsStored
<1>1. Init => TrackInv
  BY TrackInvInit
<1>2. TrackInv /\ [Next]_vars => TrackInv'
  BY TrackStep
<1>3. TrackInv => TrackedIsStored
  BY DEF TrackInv
<1> QED
  BY <1>1, <1>2, <1>3, PTL DEF Spec

-----------------------------------------------------------------------------
(* What a step does to one pod's key in the API server and the feed.       *)

\* The event is queued if the watch is up.
Sent(k, e) == queue'[k] \in {queue[k], Append(queue[k], e)} /\ (watching => queue'[k] = Append(queue[k], e))

\* What a step may leave alone,
ApiSame(k) == api'[k] = api[k] /\ lastInc'[k] = lastInc[k]
StoreSame(k) == store'[k] = store[k]

\* and what it may do to the key.
FeedSame(k) == ApiSame(k) /\ StoreSame(k) /\ queue'[k] = queue[k]
Created(k) ==
  /\ api[k].inc = 0
  /\ lastInc'[k] = lastInc[k] + 1
  /\ api'[k] = [inc |-> lastInc'[k], del |-> FALSE]
  /\ StoreSame(k)
  /\ Sent(k, Ev("put", api'[k]))
Marked(k) ==
  /\ api[k].inc # 0 /\ api'[k].inc = api[k].inc
  /\ lastInc'[k] = lastInc[k]
  /\ StoreSame(k)
  /\ Sent(k, Ev("put", api'[k]))
Deleted(k) ==
  /\ api[k].inc # 0 /\ api'[k] = NoPod
  /\ lastInc'[k] = lastInc[k]
  /\ StoreSame(k)
  /\ Sent(k, Ev("del", api[k]))
Relisted(k) ==
  /\ ~watching
  /\ ApiSame(k) /\ StoreSame(k)
  /\ \/ queue'[k] = queue[k] /\ api[k].inc = 0 /\ Known(k) = 0
     \/ queue'[k] = Append(queue[k], Ev("put", api[k])) /\ api[k].inc # 0
     \/ /\ queue'[k] = Append(queue[k], Ev("tomb", [inc |-> Known(k), del |-> FALSE]))
        /\ api[k].inc = 0 /\ Known(k) # 0
Popped(k) ==
  /\ queue[k] # <<>> /\ queue'[k] = Tail(queue[k])
  /\ ApiSame(k)
  /\ store'[k].inc = After(Head(queue[k]))
Emptied(k) == ApiSame(k) /\ queue'[k] = <<>> /\ store'[k] = NoPod

\* One of these, and what becomes of the watch.
FeedStep(k) ==
  \/ FeedSame(k) /\ (watching' = watching \/ faults'.losses # 0)
  \/ Created(k) /\ watching' = watching
  \/ Marked(k) /\ watching' = watching
  \/ Deleted(k) /\ watching' = watching
  \/ Relisted(k) /\ watching'
  \/ Popped(k) /\ watching' = watching
  \/ Emptied(k) /\ faults'.crashes = faults.crashes + 1 /\ faults'.crashes # 0

\* The API server's users change one object at a time.
LEMMA ApiFeeds == ASSUME TypeOK, Api, NEW k \in Pods PROVE FeedStep(k)
<1> USE DEF TypeOK, FeedStep, FeedSame, ApiSame, StoreSame, Emit, Sent
<1>1. ASSUME NEW q \in Pods, ApiCreate(q) PROVE FeedStep(k)
  BY <1>1 DEF ApiCreate, Created
<1>2. ASSUME NEW q \in Pods, ApiMarkDeleted(q) PROVE FeedStep(k)
  BY <1>2 DEF ApiMarkDeleted, Marked, PodObj
<1>3. ASSUME NEW q \in Pods, ApiForceDelete(q) PROVE FeedStep(k)
  BY <1>3 DEF ApiForceDelete, Deleted
<1> QED
  BY <1>1, <1>2, <1>3 DEF Api

\* What the informer will know of a key is an incarnation, or none.
LEMMA KnownTypes == ASSUME TypeOK, NEW k \in Pods PROVE Known(k) \in Nat
<1>1. queue[k] \in Seq(Event)
  BY DEF TypeOK
<1>2. queue[k] # <<>> => queue[k][Len(queue[k])] \in Event
  BY <1>1
<1> QED
  BY <1>2 DEF Known, After, Event, TypeOK, PodObj

\* A list delivers what is there, and a tombstone for what is not.
LEMMA RelistFeeds == ASSUME TypeOK, Relist, NEW k \in Pods PROVE Relisted(k)
<1>1. queue[k] \in Seq(Event) /\ api[k] \in PodObj
  BY DEF TypeOK
<1>2. Known(k) \in Nat
  BY KnownTypes
<1>3. queue'[k] = queue[k] \o Listed(k)
  BY DEF Relist
<1>4. \A e \in Event : queue[k] \o <<e>> = Append(queue[k], e)
  BY <1>1, AppendIsConcat
<1>5. CASE api[k].inc # 0
  <2>1. Listed(k) = <<Ev("put", api[k])>>
    BY <1>5 DEF Listed
  <2>2. Ev("put", api[k]) \in Event
    BY <1>1, EventTypes
  <2> QED
    BY <1>3, <1>4, <1>5, <2>1, <2>2 DEF Relist, Relisted, ApiSame, StoreSame, apiVars
<1>6. CASE api[k].inc = 0 /\ Known(k) # 0
  <2>1. Listed(k) = <<Ev("tomb", [inc |-> Known(k), del |-> FALSE])>>
    BY <1>6 DEF Listed
  <2>2. Ev("tomb", [inc |-> Known(k), del |-> FALSE]) \in Event
    BY <1>2, EventTypes DEF PodObj
  <2> QED
    BY <1>3, <1>4, <1>6, <2>1, <2>2 DEF Relist, Relisted, ApiSame, StoreSame, apiVars
<1>7. CASE api[k].inc = 0 /\ Known(k) = 0
  <2>1. Listed(k) = <<>>
    BY <1>7 DEF Listed
  <2>2. queue'[k] = queue[k]
    BY <1>1, <1>3, <2>1, ConcatEmptySeq
  <2> QED
    BY <1>7, <2>2 DEF Relist, Relisted, ApiSame, StoreSame, apiVars
<1> QED
  BY <1>5, <1>6, <1>7

\* The first event of a pod brings the store up to date with it.
LEMMA PopFeeds ==
  ASSUME TypeOK, NEW q \in Pods, Pop(q), NEW k \in Pods
  PROVE  /\ k = q => Popped(k)
         /\ k # q => FeedSame(k)
<1>1. k # q => queue'[k] = queue[k] /\ store'[k] = store[k]
  BY DEF Pop, HandlePut, HandleGone, TypeOK
<1>2. queue[q] # <<>> /\ queue'[q] = Tail(queue[q])
  BY DEF Pop, TypeOK
<1>3. store'[q].inc = After(Head(queue[q]))
  <2>1. CASE HandlePut(q, Head(queue[q]))
    BY <2>1 DEF HandlePut, After, TypeOK
  <2>2. CASE HandleGone(q, Head(queue[q]))
    BY <2>2 DEF HandleGone, After, NoPod, TypeOK
  <2> QED
    BY <2>1, <2>2 DEF Pop
<1> QED
  BY <1>1, <1>2, <1>3 DEF Pop, Popped, FeedSame, ApiSame, StoreSame, apiVars

\* A handler changes the feed by the deletion it makes itself.
LEMMA HandlerFeeds == ASSUME TypeOK, Handler, NEW k \in Pods PROVE FeedStep(k)
<1>1. CASE ApiDelete
  <2>1. inf.pod \in Pods
    BY <1>1 DEF ApiDelete, TypeOK, AtWork, Informer
  <2>2. k # inf.pod => FeedSame(k)
    BY <1>1, <2>1 DEF ApiDelete, FeedSame, ApiSame, StoreSame, Emit, TypeOK
  <2>3. k = inf.pod => FeedSame(k) \/ Deleted(k)
    BY <1>1, <2>1 DEF ApiDelete, FeedSame, ApiSame, StoreSame, Emit, Sent, Deleted, TypeOK
  <2> QED
    BY <1>1, <2>2, <2>3 DEF ApiDelete, FeedStep
<1>2. CASE ~ApiDelete
  <2>1. UNCHANGED <<api, lastInc, watching, queue, store>>
    BY <1>2 DEF Handler, AddInspect, Reconcile, InitRm, InitRun, InitWait, InitRm2, MainRm, MainRun, Register,
                CleanDone, apiVars, feedVars
  <2> QED
    BY <2>1 DEF FeedStep, FeedSame, ApiSame, StoreSame
<1> QED
  BY <1>1, <1>2

\* Nothing else touches it, but a new process, which begins with nothing.
LEMMA OthersFeed ==
  ASSUME TypeOK, NEW k \in Pods,
         \/ (\E i \in Mains : CleanStep(i)) \/ Tick \/ PeriodicStep \/ Workload
         \/ WatchLost \/ (\E q \in Pods : Redeliver(q)) \/ UNCHANGED vars
  PROVE  UNCHANGED <<api, lastInc, queue, store>> /\ (watching' = watching \/ faults'.losses # 0)
<1> USE DEF apiVars, feedVars
<1>1. CASE \E i \in Mains : CleanStep(i)
  BY <1>1 DEF CleanStep, CleanStop, CleanKill, CleanWait, CleanRemove, CleanRetry, CleanCall
<1>2. CASE Tick \/ PeriodicStep
  BY <1>2 DEF Tick, PeriodicStep, Pick, InspectStatus, Act, LivenessKill, RestartRm, RestartRun
<1>3. CASE Workload
  BY <1>3 DEF Workload, MainExit, InitExit
<1>4. CASE WatchLost \/ (\E q \in Pods : Redeliver(q)) \/ UNCHANGED vars
  BY <1>4 DEF WatchLost, Redeliver, vars, TypeOK
<1> QED
  BY <1>1, <1>2, <1>3, <1>4

\* A new process has an empty store and empty queues.
LEMMA RestartFeeds ==
  ASSUME TypeOK, KubeletRestart, NEW k \in Pods
  PROVE  Emptied(k) /\ faults'.crashes = faults.crashes + 1 /\ faults'.crashes # 0
BY DEF KubeletRestart, Emptied, ApiSame, TypeOK, apiVars

\* All that a step can do to a key.
LEMMA Feeds == ASSUME TypeOK, [Next]_vars, NEW k \in Pods PROVE FeedStep(k)
<1>1. CASE Api
  BY <1>1, ApiFeeds
<1>2. CASE Handler
  BY <1>2, HandlerFeeds
<1>3. CASE Relist
  BY <1>3, RelistFeeds DEF FeedStep, Relist
<1>4. CASE \E q \in Pods : Pop(q)
  BY <1>4, PopFeeds DEF FeedStep, Pop
<1>5. CASE \/ (\E i \in Mains : CleanStep(i)) \/ Tick \/ PeriodicStep \/ Workload
           \/ WatchLost \/ (\E q \in Pods : Redeliver(q)) \/ UNCHANGED vars
  BY <1>5, OthersFeed DEF FeedStep, FeedSame, ApiSame, StoreSame
<1>6. CASE KubeletRestart
  BY <1>6, RestartFeeds DEF FeedStep
<1> QED
  BY <1>1, <1>2, <1>3, <1>4, <1>5, <1>6 DEF Next, Feed

-----------------------------------------------------------------------------
(* What a step does to one pod's key in the provider.                      *)

\* Every object that is delivered is one.
Puts(q) == \A j \in 1 .. Len(q) : q[j].kind = "put" => q[j].inc # 0
PutsInv == \A k \in Pods : Puts(queue[k])

\* A pass takes up what is tracked, and from then on lets go of it.
PassTook(k) == per'.todo[k] = tracked[k] /\ per'.pod # k
PassHas(k) ==
  /\ per'.todo[k] \in {0, per.todo[k]}
  /\ per'.pod = k => \/ per.pod = k /\ per'.inc = per.inc
                     \/ per.todo[k] # 0 /\ per'.inc = per.todo[k]

\* What becomes of a key in podsByKey, and of what a pass has of it.
OwnSame(k) == tracked'[k] = tracked[k] /\ raced'[k] = raced[k]
OwnStep(k) ==
  \* a step of the pass, or of neither
  \/ OwnSame(k) /\ (PassTook(k) \/ PassHas(k))
  \* DeletePod
  \/ tracked'[k] = 0 /\ raced'[k] = (raced[k] \/ Holds(k)) /\ per' = per
  \* UpdatePod
  \/ /\ inf.pc = "idle" /\ inf' = inf /\ per' = per /\ raced'[k] = raced[k]
     /\ tracked'[k] = store'[k].inc /\ store[k].inc # 0 /\ store'[k].inc # 0
  \* the end of CreatePod and of reconcilePod
  \/ /\ inf.pc \in {"register", "reconcile"} /\ inf.pod = k /\ inf' = InfIdle
     /\ tracked'[k] = inf.inc /\ raced'[k] = raced[k] /\ per' = per
  \* a new process
  \/ /\ tracked'[k] = 0 /\ raced'[k] = raced[k]
     /\ per' = PerIdle /\ faults'.crashes # 0

\* What starts when an event of q is handled.
Starts(q) ==
  \* DeletePod
  \/ /\ tracked' = [tracked EXCEPT ![q] = 0]
     /\ raced' = [raced EXCEPT ![q] = @ \/ Holds(q)]
     /\ inf'.pod = q /\ inf'.pc = "clean" /\ inf'.then # "createFailed"
     /\ clean' = [i \in Mains |-> "stop"]
  \* onAdd
  \/ /\ UNCHANGED <<tracked, raced, clean>>
     /\ inf' = [pc |-> "addInspect", pod |-> q, inc |-> store'[q].inc, i |-> 1, then |-> "none"]
     /\ store[q].inc = 0 /\ store'[q].inc # 0
     /\ queue[q] # <<>> /\ Head(queue[q]).kind = "put" /\ Head(queue[q]).inc = store'[q].inc
  \* UpdatePod
  \/ /\ UNCHANGED <<raced, inf, clean>>
     /\ tracked' = [tracked EXCEPT ![q] = store'[q].inc]
     /\ store[q].inc # 0 /\ store'[q].inc # 0
  \* nothing
  \/ UNCHANGED <<tracked, raced, inf, clean>>

\* An event, or a resync, starts one of these.
LEMMA PopStarts == ASSUME TypeOK, PutsInv, NEW q \in Pods, Pop(q) PROVE Starts(q)
<1> DEFINE e == Head(queue[q])
<1>1. queue[q] \in Seq(Event) /\ queue[q] # <<>>
  BY DEF Pop, TypeOK
<1>2. e.kind = "put" => e.inc # 0
  BY <1>1 DEF PutsInv, Puts
<1>3. HandlePut(q, e) \/ HandleGone(q, e)
  BY DEF Pop
<1> HIDE DEF e
<1>4. CASE HandlePut(q, e)
  <2>1. e.kind = "put" /\ store'[q].inc = e.inc
    BY <1>4 DEF HandlePut, TypeOK
  <2>2. CASE store[q].inc = 0 /\ OnAdd(q, e)
    BY <1>1, <1>2, <2>1, <2>2 DEF OnAdd, DeletePod, StartCleanup, Goto, Starts, e
  <2>3. CASE store[q].inc # 0 /\ OnUpdate(q, e)
    BY <1>2, <2>1, <2>3 DEF OnUpdate, DeletePod, StartCleanup, Starts
  <2> QED
    BY <1>4, <2>2, <2>3 DEF HandlePut
<1>5. CASE HandleGone(q, e)
  BY <1>5 DEF HandleGone, OnDelete, DeletePod, StartCleanup, Starts
<1> QED
  BY <1>3, <1>4, <1>5

\* A resync starts what an update would.
LEMMA RedeliverStarts == ASSUME TypeOK, NEW q \in Pods, Redeliver(q) PROVE Starts(q)
BY DEF Redeliver, OnUpdate, DeletePod, StartCleanup, Starts, feedVars

\* What that does to the keys.
LEMMA StartsOwn ==
  ASSUME TypeOK, NEW q \in Pods, Starts(q), inf.pc = "idle", per' = per, NEW k \in Pods
  PROVE  OwnStep(k)
<1>1. PassHas(k)
  BY DEF PassHas
<1>2. k # q => OwnSame(k)
  BY DEF Starts, OwnSame, TypeOK
<1>3. CASE k = q
  BY <1>1, <1>3 DEF Starts, OwnStep, OwnSame, TypeOK
<1> QED
  BY <1>1, <1>2, <1>3 DEF OwnStep

\* A handler tracks its pod at its end, or not at all.
LEMMA HandlerOwns == ASSUME TypeOK, Handler, NEW k \in Pods PROVE OwnStep(k)
<1> USE DEF provVars
<1>1. PassHas(k) /\ per' = per /\ raced' = raced
  BY DEF Handler, AddInspect, Reconcile, InitRm, InitRun, InitWait, InitRm2, MainRm, MainRun, Register,
         CleanDone, ApiDelete, PassHas
<1>2. ASSUME inf.pc \in {"register", "reconcile"}, inf' = InfIdle, Track(inf.pod, inf.inc)
      PROVE  OwnStep(k)
  BY <1>1, <1>2 DEF Track, OwnStep, OwnSame, TypeOK
<1>3. CASE tracked' = tracked
  BY <1>1, <1>3 DEF OwnStep, OwnSame
<1>4. CASE Reconcile
  BY <1>2, <1>3, <1>4 DEF Reconcile
<1>5. CASE Register
  BY <1>2, <1>5 DEF Register
<1>6. CASE ~Reconcile /\ ~Register
  <2>1. tracked' = tracked
    BY <1>6 DEF Handler, AddInspect, InitRm, InitRun, InitWait, InitRm2, MainRm, MainRun, CleanDone, ApiDelete
  <2> QED
    BY <1>3, <2>1
<1> QED
  BY <1>4, <1>5, <1>6

\* What is left to do of a pass is left of what it took up.
LEMMA NextPodHas ==
  ASSUME TypeOK, NEW k \in Pods, NEW todo \in [Pods -> Nat], NextPod(todo), todo[k] \in {0, per.todo[k]}
  PROVE  PassHas(k)
<1>1. CASE per' = PerIdle
  BY <1>1, ConstantsAssumption DEF PerIdle, PassHas
<1>2. CASE per' = [PerIdle EXCEPT !.pc = "pick", !.todo = todo]
  BY <1>2, ConstantsAssumption DEF PerIdle, PassHas
<1> QED
  BY <1>1, <1>2 DEF NextPod

\* The step to the next container, or to the next pod, takes up nothing new.
LEMMA NextContainerHas == ASSUME TypeOK, NEW k \in Pods, NextContainer PROVE PassHas(k)
<1>1. per \in Periodic
  BY DEF TypeOK
<1>2. CASE per' = [per EXCEPT !.pc = "act", !.i = @ + 1]
  BY <1>1, <1>2 DEF PassHas, Periodic
<1>3. CASE NextPod(per.todo)
  <2>1. per.todo \in [Pods -> Nat]
    BY <1>1 DEF Periodic
  <2> QED
    BY <1>3, <2>1, NextPodHas
<1> QED
  BY <1>2, <1>3 DEF NextContainer

\* A pass takes up what is tracked when it begins, and nothing after that.
LEMMA PassOwns == ASSUME TypeOK, Tick \/ PeriodicStep, NEW k \in Pods PROVE OwnStep(k)
<1> USE DEF provVars
<1>1. UNCHANGED <<tracked, raced>>
  BY DEF Tick, PeriodicStep, Pick, InspectStatus, Act, LivenessKill, RestartRm, RestartRun
<1>2. per \in Periodic /\ per.todo \in [Pods -> Nat]
  BY DEF TypeOK, Periodic
<1>3. CASE Tick
  <2>1. PassTook(k)
    BY <1>3, ConstantsAssumption DEF Tick, PassTook, PerIdle
  <2> QED
    BY <1>1, <2>1 DEF OwnStep, OwnSame
<1>4. ASSUME NEW q \in Pods, Pick(q) PROVE PassHas(k)
  <2>1. CASE NextPod([per.todo EXCEPT ![q] = 0])
    <3>1. [per.todo EXCEPT ![q] = 0] \in [Pods -> Nat] /\ [per.todo EXCEPT ![q] = 0][k] \in {0, per.todo[k]}
      BY <1>2
    <3> QED
      BY <2>1, <3>1, NextPodHas
  <2>2. CASE per' = [per EXCEPT !.pc = "inspect", !.todo[q] = 0, !.pod = q, !.inc = per.todo[q], !.i = 1]
    BY <1>2, <1>4, <2>2 DEF PassHas, Pick, Periodic
  <2> QED
    BY <1>4, <2>1, <2>2 DEF Pick
<1>5. ASSUME InspectStatus PROVE PassHas(k)
  BY <1>2, <1>5 DEF InspectStatus, PassHas, Periodic
<1>6. ASSUME LivenessKill \/ RestartRun PROVE PassHas(k)
  BY <1>6, NextContainerHas DEF LivenessKill, RestartRun
<1>7. ASSUME RestartRm PROVE PassHas(k)
  BY <1>2, <1>7 DEF RestartRm, PassHas, Periodic
<1>8. ASSUME Act PROVE PassHas(k)
  <2>1. \/ NextContainer \/ per' = [per EXCEPT !.pc = "kill"] \/ per' = [per EXCEPT !.pc = "restartRm"]
    BY <1>8 DEF Act, ActRunning, ActOther
  <2> QED
    BY <1>2, <2>1, NextContainerHas DEF PassHas, Periodic
<1>9. PeriodicStep => PassHas(k)
  BY <1>4, <1>5, <1>6, <1>7, <1>8 DEF PeriodicStep
<1> QED
  BY <1>1, <1>3, <1>9 DEF OwnStep, OwnSame

\* All that a step can do to a key.
LEMMA Owns == ASSUME TypeOK, PutsInv, [Next]_vars, NEW k \in Pods PROVE OwnStep(k)
<1> USE DEF provVars
<1>1. CASE \E q \in Pods : Pop(q)
  BY <1>1, PopStarts, StartsOwn DEF Pop
<1>2. CASE \E q \in Pods : Redeliver(q)
  BY <1>2, RedeliverStarts, StartsOwn DEF Redeliver
<1>3. CASE Handler
  BY <1>3, HandlerOwns
<1>4. CASE Tick \/ PeriodicStep
  BY <1>4, PassOwns
<1>5. CASE KubeletRestart
  BY <1>5 DEF KubeletRestart, OwnStep, TypeOK
<1>6. CASE Api \/ WatchLost \/ Relist \/ (\E i \in Mains : CleanStep(i)) \/ Workload \/ UNCHANGED vars
  <2>1. UNCHANGED <<tracked, raced, per>>
    BY <1>6 DEF Api, ApiCreate, ApiMarkDeleted, ApiForceDelete, WatchLost, Relist, CleanStep, CleanStop, CleanKill,
                CleanWait, CleanRemove, CleanRetry, CleanCall, Workload, MainExit, InitExit, vars
  <2> QED
    BY <2>1 DEF OwnStep, OwnSame, PassHas
<1> QED
  BY <1>1, <1>2, <1>3, <1>4, <1>5, <1>6 DEF Next, Feed

-----------------------------------------------------------------------------
(* What the queues hold.                                                   *)

\* Faults are never forgotten.
LEMMA FaultsKept ==
  ASSUME TypeOK, [Next]_vars
  PROVE  /\ faults'.calls = 0 => faults.calls = 0
         /\ faults'.crashes = 0 => faults.crashes = 0
         /\ faults'.losses = 0 => faults.losses = 0
<1> DEFINE Goal == /\ faults'.calls = 0 => faults.calls = 0
                   /\ faults'.crashes = 0 => faults.crashes = 0
                   /\ faults'.losses = 0 => faults.losses = 0
<1>0. faults \in [calls : Nat, crashes : Nat, losses : Nat]
  BY DEF TypeOK
<1>1. ASSUME NEW o, Charge(o) PROVE Goal
  BY <1>0, <1>1 DEF Charge
<1>2. CASE UNCHANGED faults
  BY <1>2
<1>3. CASE WatchLost \/ KubeletRestart
  BY <1>0, <1>3 DEF WatchLost, KubeletRestart
<1>4. CASE Handler \/ (\E i \in Mains : CleanStep(i)) \/ PeriodicStep
  <2>1. UNCHANGED faults \/ \E o : Charge(o)
    BY <1>4 DEF Handler, AddInspect, Reconcile, InitRm, InitRun, InitWait, InitRm2, MainRm, MainRun, Register,
                CleanDone, ApiDelete, CleanStep, CleanStop, CleanKill, CleanWait, CleanRemove, CleanRetry, CleanCall,
                PeriodicStep, Pick, InspectStatus, Act, ActRunning, ActOther, LivenessKill, RestartRm, RestartRun,
                OnInit, OnMain, OnClean, OnPeriodic
  <2> QED
    BY <1>1, <1>2, <2>1
<1>5. CASE Api \/ Relist \/ (\E k \in Pods : Pop(k) \/ Redeliver(k)) \/ Tick \/ Workload \/ UNCHANGED vars
  <2>1. UNCHANGED faults
    BY <1>5 DEF Api, ApiCreate, ApiMarkDeleted, ApiForceDelete, Relist, Pop, Redeliver, Tick, Workload, MainExit,
                InitExit, vars
  <2> QED
    BY <1>2, <2>1
<1> QED
  BY <1>3, <1>4, <1>5 DEF Next, Feed

\* A queue with an event more, and without its first.
LEMMA Appended ==
  ASSUME NEW q \in Seq(Event), NEW e \in Event
  PROVE  /\ Append(q, e) \in Seq(Event) /\ Append(q, e) # <<>>
         /\ Len(q) \in Nat /\ Len(Append(q, e)) = Len(q) + 1
         /\ \A j \in 1 .. Len(q) : Append(q, e)[j] = q[j]
         /\ Append(q, e)[Len(q) + 1] = e
BY AppendProperties, LenProperties

\* A queue without its first event.
LEMMA Tailed ==
  ASSUME NEW q \in Seq(Event), q # <<>>
  PROVE  /\ Len(q) \in Nat \ {0} /\ Head(q) = q[1] /\ Head(q) \in Event
         /\ Tail(q) \in Seq(Event) /\ Len(Tail(q)) = Len(q) - 1
         /\ \A j \in 1 .. Len(Tail(q)) : Tail(q)[j] = q[j + 1]
<1>1. Len(q) \in Nat /\ Len(q) # 0
  BY LenProperties, EmptySeq
<1> QED
  BY <1>1, HeadTailProperties

\* An object that exists may be queued.
LEMMA PutsAppend ==
  ASSUME NEW q \in Seq(Event), NEW e \in Event, Puts(q), e.kind = "put" => e.inc # 0
  PROVE  Puts(Append(q, e))
BY DEF Puts

\* Every object that is delivered was there once.
LEMMA PutsKept == TypeOK /\ PutsInv /\ [Next]_vars => PutsInv'
<1> SUFFICES ASSUME TypeOK, PutsInv, [Next]_vars, NEW k \in Pods PROVE Puts(queue'[k])
  BY DEF PutsInv
<1>1. queue[k] \in Seq(Event) /\ Puts(queue[k]) /\ api[k] \in PodObj /\ lastInc[k] \in Nat
  BY DEF TypeOK, PutsInv
<1>2. ASSUME NEW e \in Event, e.kind = "put" => e.inc # 0, Append(queue[k], e) = queue'[k]
      PROVE  Puts(queue'[k])
  BY <1>1, <1>2, PutsAppend
<1>3. FeedStep(k)
  BY Feeds
<1>4. CASE FeedSame(k)
  BY <1>1, <1>4 DEF FeedSame
<1>5. CASE Created(k) \/ Marked(k)
  <2>1. api'[k] \in PodObj /\ api'[k].inc # 0
    BY <1>1, <1>5, StepTypes DEF Created, Marked, TypeOK
  <2>2. Ev("put", api'[k]) \in Event /\ Ev("put", api'[k]).inc # 0
    BY <2>1, EventTypes DEF Ev
  <2> QED
    BY <1>1, <1>2, <1>5, <2>2 DEF Created, Marked, Sent
<1>6. CASE Deleted(k)
  <2>1. Ev("del", api[k]) \in Event /\ Ev("del", api[k]).kind = "del"
    BY <1>1, EventTypes DEF Ev
  <2> QED
    BY <1>1, <1>2, <1>6, <2>1 DEF Deleted, Sent
<1>7. CASE Relisted(k)
  <2>1. Ev("put", api[k]) \in Event /\ Ev("put", api[k]).inc = api[k].inc
    BY <1>1, EventTypes DEF Ev
  <2>2. Ev("tomb", [inc |-> Known(k), del |-> FALSE]) \in Event
        /\ Ev("tomb", [inc |-> Known(k), del |-> FALSE]).kind = "tomb"
    BY KnownTypes, EventTypes DEF Ev, PodObj
  <2> QED
    BY <1>1, <1>2, <1>7, <2>1, <2>2 DEF Relisted
<1>8. CASE Popped(k)
  BY <1>1, <1>8, Tailed DEF Popped, Puts
<1>9. CASE Emptied(k)
  BY <1>9 DEF Emptied, Puts
<1> QED
  BY <1>3, <1>4, <1>5, <1>6, <1>7, <1>8, <1>9 DEF FeedStep

\* What the store will have before the j-th event of k.
Before(k, j) == IF j = 1 THEN store[k].inc ELSE After(queue[k][j - 1])

\* While the watch and the process stay up, the informer learns of every
\* incarnation and of its end: the events of a key are each about the incarnation
\* that the one before left, or begin with none, and the last one leaves the API
\* server's.
Chained(k) ==
  /\ watching
  /\ Known(k) = api[k].inc
  /\ \A j \in 1 .. Len(queue[k]) : queue[k][j].kind = "put" => Before(k, j) \in {0, queue[k][j].inc}
ChainInv == faults.crashes + faults.losses = 0 => \A k \in Pods : Chained(k)

\* A new event follows the last one.
LEMMA ChainAppend ==
  ASSUME TypeOK, NEW k \in Pods, Chained(k), NEW e \in Event, queue'[k] = Append(queue[k], e), watching',
         store'[k] = store[k], After(e) = api'[k].inc, e.kind = "put" => api[k].inc \in {0, e.inc}
  PROVE  Chained(k)'
<1>1. queue[k] \in Seq(Event)
  BY DEF TypeOK
<1> DEFINE q == queue[k]
<1>a. /\ queue'[k] # <<>>
      /\ Len(q) \in Nat /\ Len(queue'[k]) = Len(q) + 1
      /\ \A j \in 1 .. Len(q) : queue'[k][j] = q[j]
      /\ queue'[k][Len(q) + 1] = e
  BY <1>1, Appended
<1>2. Known(k)' = After(e)
  BY <1>a DEF Known
<1>3. ASSUME NEW j \in 1 .. Len(queue'[k]), queue'[k][j].kind = "put"
      PROVE  Before(k, j)' \in {0, queue'[k][j].inc}
  <2>1. CASE j = Len(queue[k]) + 1
    <3>1. queue[k] = <<>> <=> Len(queue[k]) = 0
      BY <1>1, EmptySeq, LenProperties
    <3>2. Before(k, j)' = Known(k)
      BY <1>a, <2>1, <3>1 DEF Before, Known
    <3> QED
      BY <1>a, <1>3, <2>1, <3>2 DEF Chained
  <2>2. CASE j \in 1 .. Len(queue[k])
    <3>1. Before(k, j)' = Before(k, j) /\ queue'[k][j] = queue[k][j]
      BY <1>a, <2>2 DEF Before
    <3> QED
      BY <1>3, <2>2, <3>1 DEF Chained
  <2> QED
    BY <1>a, <2>1, <2>2
<1> QED
  BY <1>2, <1>3 DEF Chained

\* When the first event is handled, the second is the first.
LEMMA ChainTail == ASSUME TypeOK, NEW k \in Pods, Chained(k), Popped(k), watching' PROVE Chained(k)'
<1>1. /\ queue[k] \in Seq(Event) /\ queue[k] # <<>> /\ queue'[k] = Tail(queue[k])
      /\ store'[k].inc = After(Head(queue[k])) /\ api'[k] = api[k]
  BY DEF TypeOK, Popped, ApiSame
<1>2. /\ Len(queue'[k]) = Len(queue[k]) - 1 /\ Len(queue[k]) \in Nat \ {0} /\ Head(queue[k]) = queue[k][1]
      /\ queue'[k] \in Seq(Event)
      /\ \A j \in 1 .. Len(queue'[k]) : queue'[k][j] = queue[k][j + 1]
  BY <1>1, Tailed
<1>0. queue'[k] = <<>> <=> Len(queue'[k]) = 0
  BY <1>2, EmptySeq, LenProperties
<1>3. Known(k)' = Known(k)
  BY <1>0, <1>1, <1>2 DEF Known
<1>4. \A j \in 1 .. Len(queue'[k]) : Before(k, j)' = Before(k, j + 1)
  BY <1>1, <1>2 DEF Before
<1> QED
  BY <1>1, <1>2, <1>3, <1>4 DEF Chained

\* The API server, the watch and the store keep telling one story of each key.
LEMMA ChainKept == TypeOK /\ ChainInv /\ [Next]_vars => ChainInv'
<1> SUFFICES ASSUME TypeOK, ChainInv, [Next]_vars, faults'.crashes + faults'.losses = 0, NEW k \in Pods
             PROVE  Chained(k)'
  BY DEF ChainInv
<1>1. faults'.crashes = 0 /\ faults'.losses = 0 /\ Chained(k)
  <2>1. faults \in FaultCount /\ faults' \in FaultCount
    BY StepTypes DEF TypeOK, FaultCount
  <2> QED
    BY <2>1, FaultsKept DEF FaultCount, ChainInv
<1>2. /\ queue[k] \in Seq(Event) /\ api[k] \in PodObj /\ api'[k] \in PodObj
  BY StepTypes DEF TypeOK
<1>3. FeedStep(k)
  BY Feeds
<1>4. CASE FeedSame(k) /\ watching'
  BY <1>1, <1>4 DEF FeedSame, ApiSame, StoreSame, Chained, Known, Before
<1>5. CASE (Created(k) \/ Marked(k)) /\ watching'
  <2>1. Ev("put", api'[k]) \in Event /\ Ev("put", api'[k]).inc = api'[k].inc /\ Ev("put", api'[k]).kind = "put"
    BY <1>2, EventTypes DEF Ev
  <2>2. queue'[k] = Append(queue[k], Ev("put", api'[k]))
    BY <1>1, <1>5 DEF Created, Marked, Sent, Chained
  <2> QED
    BY <1>1, <1>5, <2>1, <2>2, ChainAppend DEF Created, Marked, StoreSame, After
<1>6. CASE Deleted(k) /\ watching'
  <2>1. Ev("del", api[k]) \in Event /\ Ev("del", api[k]).kind = "del"
    BY <1>2, EventTypes DEF Ev
  <2>2. queue'[k] = Append(queue[k], Ev("del", api[k]))
    BY <1>1, <1>6 DEF Deleted, Sent, Chained
  <2> QED
    BY <1>1, <1>6, <2>1, <2>2, ChainAppend DEF Deleted, StoreSame, After, NoPod
<1>7. CASE Popped(k) /\ watching'
  BY <1>1, <1>7, ChainTail
<1> QED
  BY <1>1, <1>3, <1>4, <1>5, <1>6, <1>7 DEF FeedStep, Relisted, Chained

-----------------------------------------------------------------------------
(* The passes and podsByKey.                                               *)

\* An incarnation that is being created has a number.
CreatedInv == inf.pc \in Creating => inf.inc # 0

\* A pass that has a pod, which DeletePod has not met: the pod is tracked,
RaceInv == \A k \in Pods : Holds(k) /\ ~raced[k] => tracked[k] # 0

\* and it is the incarnation the pass has, while the watch and the process stay up.
HeldInv ==
  faults.crashes + faults.losses = 0 =>
    \A k \in Pods : ~raced[k] => /\ per.todo[k] # 0 => per.todo[k] = tracked[k]
                                 /\ per.pod = k => per.inc = tracked[k]

\* The informer's goroutine goes on, or takes an event, or a resync.
LEMMA Goes ==
  ASSUME TypeOK, [Next]_vars
  PROVE  GoesOn \/ \E q \in Pods : (Pop(q) \/ Redeliver(q)) /\ inf.pc = "idle" /\ per' = per
<1>1. CASE Handler
  <2>1. CASE AddInspect \/ InitRm \/ InitRun \/ InitWait \/ InitRm2 \/ MainRm \/ MainRun
    <3>1. inf.pc \in Creating
      BY <2>1 DEF AddInspect, InitRm, InitRun, InitWait, InitRm2, MainRm, MainRun, Creating
    <3> QED
      BY <2>1, <3>1, GoesOnSteps DEF AddInspect, InitRm, InitRun, InitWait, InitRm2, MainRm, MainRun
  <2>2. CASE Reconcile
    <3>1. inf.pc \in Creating
      BY <2>2 DEF Reconcile, Creating
    <3>2. inf' = InfIdle \/ Continue("reconcile", inf.i + 1)
      BY <2>2 DEF Reconcile
    <3> QED
      BY <3>1, <3>2, GoesOnSteps DEF GoesOn
  <2>3. CASE Register \/ ApiDelete
    BY <2>3 DEF Register, ApiDelete, GoesOn
  <2>4. CASE CleanDone
    BY <2>4 DEF CleanDone, GoesOn, TypeOK, Informer, Creating
  <2> QED
    BY <1>1, <2>1, <2>2, <2>3, <2>4 DEF Handler
<1>2. CASE \E q \in Pods : Pop(q) \/ Redeliver(q)
  BY <1>2 DEF Pop, Redeliver
<1>3. CASE KubeletRestart
  BY <1>3 DEF KubeletRestart, GoesOn
<1>4. CASE Api \/ WatchLost \/ Relist \/ (\E i \in Mains : CleanStep(i)) \/ Tick \/ PeriodicStep \/ Workload
           \/ UNCHANGED vars
  <2>1. inf' = inf
    <3>1. CASE Tick \/ PeriodicStep
      BY <3>1 DEF Tick, PeriodicStep, Pick, InspectStatus, Act, LivenessKill, RestartRm, RestartRun
    <3>2. CASE ~(Tick \/ PeriodicStep)
      BY <1>4, <3>2 DEF Api, ApiCreate, ApiMarkDeleted, ApiForceDelete, WatchLost, Relist, CleanStep, CleanStop,
                CleanKill, CleanWait, CleanRemove, CleanRetry, CleanCall, Workload, MainExit, InitExit, vars
    <3> QED
      BY <3>1, <3>2
  <2> QED
    BY <2>1 DEF GoesOn
<1> QED
  BY <1>1, <1>2, <1>3, <1>4 DEF Next, Feed

\* onAdd is given an object that exists, and a creation stays with it.
LEMMA CreatedKept == TypeOK /\ PutsInv /\ CreatedInv /\ [Next]_vars => CreatedInv'
<1> SUFFICES ASSUME TypeOK, PutsInv, CreatedInv, [Next]_vars PROVE CreatedInv'
  OBVIOUS
<1>1. CASE GoesOn
  BY <1>1 DEF GoesOn, CreatedInv, InfIdle, Creating
<1>2. ASSUME NEW q \in Pods, Starts(q) PROVE CreatedInv'
  BY <1>2 DEF Starts, CreatedInv, Creating
<1> QED
  BY <1>1, <1>2, Goes, PopStarts, RedeliverStarts

\* The passes stay within what is tracked: a pass takes up what is tracked, and
\* only DeletePod, which marks the race, and a new process untrack a pod.
LEMMA RaceKept == TypeOK /\ PutsInv /\ CreatedInv /\ RaceInv /\ [Next]_vars => RaceInv'
<1> SUFFICES ASSUME TypeOK, PutsInv, CreatedInv, RaceInv, [Next]_vars, NEW k \in Pods,
                    per'.todo[k] # 0 \/ per'.pod = k, ~raced'[k]
             PROVE  tracked'[k] # 0
  BY DEF RaceInv, Holds
<1>1. OwnStep(k) /\ (Holds(k) /\ ~raced[k] => tracked[k] # 0)
  BY Owns DEF RaceInv
<1>2. CASE OwnSame(k) /\ PassTook(k)
  BY <1>2 DEF OwnSame, PassTook
<1>3. CASE OwnSame(k) /\ PassHas(k)
  BY <1>1, <1>3 DEF OwnSame, PassHas, Holds
<1>4. CASE raced'[k] = (raced[k] \/ Holds(k)) /\ per' = per
  BY <1>1, <1>4 DEF Holds
<1>5. CASE tracked'[k] = store'[k].inc /\ store'[k].inc # 0
  BY <1>5
<1>6. CASE inf.pc \in {"register", "reconcile"} /\ tracked'[k] = inf.inc
  BY <1>6 DEF CreatedInv, Creating
<1>7. CASE per' = PerIdle
  BY <1>7, ConstantsAssumption DEF PerIdle
<1> QED
  BY <1>1, <1>2, <1>3, <1>4, <1>5, <1>6, <1>7 DEF OwnStep

\* An update that is delivered while the watch and the process stay up is of the
\* incarnation that is in the store.
LEMMA UpdateIsSame ==
  ASSUME TypeOK, ChainInv, [Next]_vars, faults'.crashes + faults'.losses = 0,
         NEW k \in Pods, store[k].inc # 0, store'[k].inc # 0
  PROVE  store'[k].inc = store[k].inc
<1>1. Chained(k) /\ faults'.crashes = 0 /\ queue[k] \in Seq(Event)
  <2>1. faults \in FaultCount /\ faults' \in FaultCount
    BY StepTypes DEF TypeOK, FaultCount
  <2> QED
    BY <2>1, FaultsKept DEF FaultCount, ChainInv, TypeOK
<1>2. CASE Popped(k)
  <2>1. Len(queue[k]) \in Nat \ {0} /\ Head(queue[k]) = queue[k][1]
    BY <1>1, <1>2, Tailed DEF Popped
  <2>2. queue[k][1].kind = "put" /\ store'[k].inc = queue[k][1].inc
    BY <1>2, <2>1 DEF Popped, After
  <2>3. store[k].inc \in {0, queue[k][1].inc}
    BY <1>1, <2>1, <2>2 DEF Chained, Before
  <2> QED
    BY <2>2, <2>3
<1> QED
  BY <1>1, <1>2, Feeds DEF FeedStep, FeedSame, Created, Marked, Deleted, Relisted, StoreSame

\* What a pass has of a pod stays what is tracked, unless DeletePod meets the pass.
LEMMA HeldKept ==
  TrackInv /\ PutsInv /\ CreatedInv /\ RaceInv /\ ChainInv /\ HeldInv /\ [Next]_vars => HeldInv'
<1> SUFFICES ASSUME TrackInv, PutsInv, CreatedInv, RaceInv, ChainInv, HeldInv, [Next]_vars,
                    faults'.crashes + faults'.losses = 0, NEW k \in Pods, ~raced'[k]
             PROVE  /\ per'.todo[k] # 0 => per'.todo[k] = tracked'[k]
                    /\ per'.pod = k => per'.inc = tracked'[k]
  BY DEF HeldInv
<1>0. faults'.crashes = 0 /\ faults.crashes + faults.losses = 0 /\ faults.losses = 0
  <2>1. faults \in FaultCount /\ faults' \in FaultCount
    BY StepTypes DEF TrackInv, TypeOK, FaultCount
  <2> QED
    BY <2>1, FaultsKept DEF FaultCount, TrackInv
<1>t. TypeOK /\ tracked[k] \in IF inf.pod = k THEN {0} ELSE {0, store[k].inc}
  BY <1>0 DEF TrackInv, TrackedIsStored
<1>1. OwnStep(k)
  BY <1>t, Owns
<1>2. ~raced[k] => /\ Holds(k) => tracked[k] # 0
                   /\ per.todo[k] # 0 => per.todo[k] = tracked[k]
                   /\ per.pod = k => per.inc = tracked[k]
  BY <1>0 DEF RaceInv, HeldInv
<1>3. CASE OwnSame(k) /\ PassTook(k)
  BY <1>3 DEF OwnSame, PassTook
<1>4. CASE OwnSame(k) /\ PassHas(k)
  BY <1>2, <1>4 DEF OwnSame, PassHas
<1>5. CASE raced'[k] = (raced[k] \/ Holds(k)) /\ per' = per
  BY <1>5 DEF Holds
<1>6. CASE /\ inf.pc = "idle" /\ per' = per /\ raced'[k] = raced[k]
           /\ tracked'[k] = store'[k].inc /\ store[k].inc # 0 /\ store'[k].inc # 0
  <2>1. store'[k].inc = store[k].inc
    BY <1>t, <1>6, UpdateIsSame
  <2>2. Holds(k) => tracked[k] = store[k].inc
    BY <1>2, <1>t, <1>6
  <2> QED
    BY <1>2, <1>6, <2>1, <2>2 DEF Holds
<1>7. CASE inf.pod = k /\ per' = per /\ raced'[k] = raced[k]
  BY <1>2, <1>t, <1>7 DEF Holds
<1> QED
  BY <1>0, <1>1, <1>3, <1>4, <1>5, <1>6, <1>7 DEF OwnStep

-----------------------------------------------------------------------------
(* What a clean-up leaves.                                                 *)

Initing == {"initRm", "initRun", "initWait", "initRm2"}

\* What DeletePod has begun, up to the deletion from the API server.
Deleting == inf.pc = "apiDelete" \/ (inf.pc = "clean" /\ inf.then # "createFailed")

UntrackedInv == Deleting => tracked[inf.pod] = 0

\* How far a container's goroutine has come, and what is left of the container.
Cleaned(i) ==
  /\ clean[i] \in {"kill", "rm2", "done"} => ~Exists(ctr[inf.pod][i])
  /\ clean[i] \in {"wait", "rm"} => ~IsRunning(ctr[inf.pod][i])
CleanInv ==
  /\ inf.pc = "apiDelete" => \A i \in Mains : clean[i] = "done"
  /\ faults.calls = 0 /\ Deleting /\ ~raced[inf.pod] => \A i \in Mains : Cleaned(i)

\* The steps of all but the informer's goroutine, and of a new process.
Elsewhere == Api \/ WatchLost \/ Relist \/ Tick \/ PeriodicStep \/ Workload \/ UNCHANGED vars

Exits(k, i) == IsRunning(ctr[k][i]) /\ \E e \in Exited : ctr'[k][i] = [ctr[k][i] EXCEPT !.st = e]
PassAt(k, i) ==
  /\ per.pod = k /\ per.i = i
  /\ \E o : /\ Charge(o) /\ ctr'[k][i] = o.c
            /\ \/ per.pc = "kill" /\ o \in Kill(ctr[k][i])
               \/ per.pc = "restartRm" /\ o \in Remove(ctr[k][i])
               \/ per.pc = "restartRun" /\ o \in Run(ctr[k][i], per.inc)

\* Processes exit, and a pass calls the tool for the container it is at.
LEMMA BoxElsewhere ==
  ASSUME TypeOK, Elsewhere, NEW k \in Pods, NEW i \in Mains
  PROVE  ctr'[k][i] = ctr[k][i] \/ Exits(k, i) \/ PassAt(k, i)
<1> USE DEF boxVars
<1>0. per \in Periodic /\ ctr \in [Pods -> [Mains -> Container]]
  BY DEF TypeOK
<1>1. CASE Workload
  BY <1>0, <1>1, ConstantsAssumption DEF Workload, MainExit, InitExit, Exits
<1>2. ASSUME NEW o, OnPeriodic(o), per.pod \in Pods, per.i \in Mains
      PROVE  \/ ctr'[k][i] = ctr[k][i]
             \/ per.pod = k /\ per.i = i /\ Charge(o) /\ ctr'[k][i] = o.c
  BY <1>0, <1>2 DEF OnPeriodic
<1>3. CASE LivenessKill \/ RestartRm \/ RestartRun
  <2>1. per.pod \in Pods /\ per.i \in Mains
    BY <1>0, <1>3 DEF LivenessKill, RestartRm, RestartRun, TypeOK, AtWork, Periodic
  <2>2. CASE LivenessKill
    <3>1. PICK o \in Kill(ctr[per.pod][per.i]) : OnPeriodic(o) /\ per.pc = "kill"
      BY <2>2 DEF LivenessKill
    <3> QED
      BY <1>2, <2>1, <3>1 DEF PassAt
  <2>3. CASE RestartRm
    <3>1. PICK o \in Remove(ctr[per.pod][per.i]) : OnPeriodic(o) /\ per.pc = "restartRm"
      BY <2>3 DEF RestartRm
    <3> QED
      BY <1>2, <2>1, <3>1 DEF PassAt
  <2>4. CASE RestartRun
    <3>1. PICK o \in Run(ctr[per.pod][per.i], per.inc) : OnPeriodic(o) /\ per.pc = "restartRun"
      BY <2>4 DEF RestartRun
    <3> QED
      BY <1>2, <2>1, <3>1 DEF PassAt
  <2> QED
    BY <1>3, <2>2, <2>3, <2>4
<1>4. CASE Api \/ WatchLost \/ Relist \/ Tick \/ (\E q \in Pods : Pick(q)) \/ InspectStatus \/ Act \/ UNCHANGED vars
  <2>1. ctr' = ctr
    BY <1>4 DEF Api, ApiCreate, ApiMarkDeleted, ApiForceDelete, WatchLost, Relist, Tick, Pick, InspectStatus, Act, vars
  <2> QED
    BY <2>1
<1> QED
  BY <1>1, <1>3, <1>4 DEF Elsewhere, PeriodicStep

\* None of these steps is the informer goroutine's.
LEMMA ElsewhereStays == Elsewhere => UNCHANGED <<inf, clean, tracked, raced>>
<1> USE DEF provVars
<1>1. CASE Tick \/ PeriodicStep
  BY <1>1 DEF Tick, PeriodicStep, Pick, InspectStatus, Act, LivenessKill, RestartRm, RestartRun
<1>2. CASE ~(Tick \/ PeriodicStep)
  BY <1>2 DEF Elsewhere, Api, ApiCreate, ApiMarkDeleted, ApiForceDelete, WatchLost, Relist, Workload, MainExit,
              InitExit, vars
<1> QED
  BY <1>1, <1>2

\* The steps by who takes them.
LEMMA Steps ==
  ASSUME [Next]_vars
  PROVE  \/ Elsewhere \/ Handler \/ KubeletRestart
         \/ \E i \in Mains : CleanStep(i)
         \/ \E q \in Pods : Pop(q) \/ Redeliver(q)
BY DEF Next, Feed, Elsewhere

\* What is not there when no call fails.
LEMMA NoFaults ==
  ASSUME TypeOK, NEW o, Charge(o), faults'.calls = 0
  PROVE  ~o.fault /\ faults.calls = 0
<1>1. o.fault => faults'.calls # 0
  BY DEF Charge, TypeOK
<1>2. ~o.fault => faults' = faults
  BY DEF Charge
<1> QED
  BY <1>1, <1>2

\* One step of a container's goroutine.
LEMMA CleanStepIs ==
  ASSUME TypeOK, NEW i \in Mains, CleanStep(i)
  PROVE  /\ inf.pc = "clean" /\ UNCHANGED <<inf, tracked, raced>>
         /\ inf.pod \in Pods
         /\ \A j \in Mains \ {i} : clean'[j] = clean[j] /\ ctr'[inf.pod][j] = ctr[inf.pod][j]
         /\ \A k \in Pods \ {inf.pod} : ctr'[k] = ctr[k]
         /\ \E o : /\ Charge(o) \/ (~o.fault /\ UNCHANGED faults)
                   /\ ctr'[inf.pod][i] = o.c
                   /\ \/ /\ clean[i] = "stop" /\ o \in Stop(ctr[inf.pod][i])
                         /\ clean'[i] = IF o.ok THEN "wait" ELSE "kill"
                      \/ clean[i] = "kill" /\ o \in Kill(ctr[inf.pod][i]) /\ clean'[i] = "wait"
                      \/ /\ clean[i] = "wait" /\ o.c = ctr[inf.pod][i] /\ clean'[i] = "rm"
                      \/ /\ clean[i] = "rm" /\ o \in Remove(ctr[inf.pod][i])
                         /\ clean'[i] = IF o.ok THEN "done" ELSE "rm2"
                      \/ clean[i] = "rm2" /\ o \in Remove(ctr[inf.pod][i]) /\ clean'[i] = "done"
<1> USE DEF provVars, boxVars
<1>0. ctr \in [Pods -> [Mains -> Container]] /\ clean \in [Mains -> CleanStage]
  BY DEF TypeOK
<1>1. inf.pc = "clean" /\ UNCHANGED <<inf, tracked, raced>>
  BY DEF CleanStep, CleanStop, CleanKill, CleanWait, CleanRemove, CleanRetry, CleanCall
<1>2. inf.pod \in Pods
  BY <1>1 DEF TypeOK, AtWork, Informer
<1>3. ASSUME NEW stage, NEW outcomes, NEW afterOk, NEW afterErr, CleanCall(i, stage, outcomes, afterOk, afterErr)
      PROVE  /\ clean[i] = stage
             /\ \A j \in Mains \ {i} : clean'[j] = clean[j] /\ ctr'[inf.pod][j] = ctr[inf.pod][j]
             /\ \A k \in Pods \ {inf.pod} : ctr'[k] = ctr[k]
             /\ \E o \in outcomes : /\ Charge(o) /\ ctr'[inf.pod][i] = o.c
                                    /\ clean'[i] = IF o.ok THEN afterOk ELSE afterErr
  BY <1>0, <1>2, <1>3 DEF CleanCall, OnClean
<1>4. CASE CleanWait(i)
  <2>1. clean[i] = "wait" /\ ctr' = ctr /\ clean' = [clean EXCEPT ![i] = "rm"]
    BY <1>4 DEF CleanWait
  <2>2. \E o : (Charge(o) \/ (~o.fault /\ UNCHANGED faults)) /\ o.c = ctr[inf.pod][i]
    <3>1. CASE UNCHANGED faults
      <4> DEFINE o == [fault |-> FALSE, c |-> ctr[inf.pod][i]]
      <4>1. ~o.fault /\ o.c = ctr[inf.pod][i]
        OBVIOUS
      <4> HIDE DEF o
      <4> QED
        BY <3>1, <4>1
    <3>2. ASSUME NEW r, Charge(r) PROVE \E o : Charge(o) /\ o.c = ctr[inf.pod][i]
      <4> DEFINE o == [fault |-> r.fault, c |-> ctr[inf.pod][i]]
      <4>1. Charge(o) /\ o.c = ctr[inf.pod][i]
        BY <3>2 DEF Charge
      <4> HIDE DEF o
      <4> QED
        BY <4>1
    <3> QED
      BY <1>4, <3>1, <3>2 DEF CleanWait
  <2> QED
    BY <1>0, <1>1, <1>2, <2>1, <2>2
<1>5. CASE CleanStop(i)
  BY <1>1, <1>2, <1>3, <1>5 DEF CleanStop
<1>6. CASE CleanKill(i)
  BY <1>1, <1>2, <1>3, <1>6 DEF CleanKill
<1>7. CASE CleanRemove(i)
  BY <1>1, <1>2, <1>3, <1>7 DEF CleanRemove
<1>8. CASE CleanRetry(i)
  BY <1>1, <1>2, <1>3, <1>8 DEF CleanRetry
<1> QED
  BY <1>4, <1>5, <1>6, <1>7, <1>8 DEF CleanStep


\* What the tool does to a container that is being cleaned up, when it works.
LEMMA CleanTool ==
  ASSUME NEW c \in Container, NEW o, ~o.fault
  PROVE  /\ o \in Stop(c) => IF o.ok THEN ~IsRunning(o.c) ELSE ~Exists(o.c)
         /\ o \in Kill(c) /\ ~Exists(c) => ~Exists(o.c)
         /\ o \in Remove(c) /\ ~IsRunning(c) => ~Exists(o.c)
<1>1. ~IsRunning(Stopped(c)) /\ ~Exists(Gone) /\ (~Exists(c) => ~IsRunning(c))
  BY DEF IsRunning, Stopped, Exists, Gone, Container
<1> QED
  BY <1>1 DEF Stop, Kill, Remove, Done, Refused, Fault

\* A handler comes to the deletion from the API server when its clean-up is done.
LEMMA HandlerDeletes ==
  ASSUME TypeOK, Handler, Deleting'
  PROVE  /\ inf.pc = "clean" /\ inf.then = "apiDelete" /\ \A i \in Mains : clean[i] = "done"
         /\ inf'.pc = "apiDelete" /\ inf'.pod = inf.pod
         /\ UNCHANGED <<ctr, clean, tracked, raced, faults>>
<1> USE DEF provVars, boxVars
<1>0. inf \in Informer
  BY DEF TypeOK
<1>1. ASSUME inf' = InfIdle PROVE FALSE
  BY <1>1 DEF InfIdle, Deleting
<1>2. ASSUME NEW pc, NEW i, pc \notin {"clean", "apiDelete"}, Continue(pc, i) PROVE FALSE
  BY <1>0, <1>2 DEF Continue, Deleting, Informer
<1>3. ASSUME CreateFailed PROVE FALSE
  BY <1>3 DEF CreateFailed, StartCleanup, Deleting
<1>4. ASSUME NEW i, CreateFrom(i) PROVE FALSE
  BY <1>2, <1>4 DEF CreateFrom
<1>5. ~AddInspect /\ ~Reconcile /\ ~Register /\ ~ApiDelete
  BY <1>1, <1>2, <1>4 DEF AddInspect, Reconcile, Register, ApiDelete
<1>6. ~InitRm /\ ~InitRun /\ ~InitWait /\ ~InitRm2 /\ ~MainRm /\ ~MainRun
  BY <1>2, <1>3, <1>4 DEF InitRm, InitRun, InitWait, InitRm2, MainRm, MainRun
<1>7. CleanDone
  BY <1>5, <1>6 DEF Handler
<1>8. inf' = [inf EXCEPT !.pc = "apiDelete", !.then = "none"] /\ inf.then = "apiDelete"
  BY <1>1, <1>7 DEF CleanDone
<1> QED
  BY <1>0, <1>7, <1>8 DEF CleanDone, Informer

\* DeletePod takes the pod out of podsByKey before its containers go, and only
\* the end of a creation, or an update, puts one in.
LEMMA UntrackedKept == TypeOK /\ PutsInv /\ UntrackedInv /\ [Next]_vars => UntrackedInv'
<1> SUFFICES ASSUME TypeOK, PutsInv, UntrackedInv, [Next]_vars, Deleting' PROVE tracked'[inf'.pod] = 0
  BY DEF UntrackedInv
<1>1. CASE Elsewhere
  BY <1>1, ElsewhereStays DEF UntrackedInv, Deleting
<1>2. CASE Handler
  BY <1>2, HandlerDeletes DEF UntrackedInv, Deleting
<1>3. CASE KubeletRestart
  BY <1>3 DEF KubeletRestart, InfIdle, Deleting
<1>4. CASE \E i \in Mains : CleanStep(i)
  BY <1>4, CleanStepIs DEF UntrackedInv, Deleting
<1>5. ASSUME NEW q \in Pods, Pop(q) \/ Redeliver(q) PROVE tracked'[inf'.pod] = 0
  <2>1. Starts(q) /\ inf.pc = "idle" /\ tracked \in [Pods -> Nat]
    BY <1>5, PopStarts, RedeliverStarts DEF Pop, Redeliver, TypeOK
  <2> QED
    BY <2>1 DEF Starts, Deleting
<1> QED
  BY <1>1, <1>2, <1>3, <1>4, <1>5, Steps

\* A stage of the clean-up leaves what the stage that follows expects.
LEMMA CleanStepKeeps ==
  ASSUME TypeOK, CleanInv, NEW i \in Mains, CleanStep(i), faults'.calls = 0, Deleting', ~raced'[inf'.pod],
         NEW j \in Mains
  PROVE  Cleaned(j)'
<1>1. /\ inf.pc = "clean" /\ UNCHANGED <<inf, raced>> /\ inf.pod \in Pods
      /\ j # i => clean'[j] = clean[j] /\ ctr'[inf.pod][j] = ctr[inf.pod][j]
  BY CleanStepIs
<1>2. PICK o : /\ Charge(o) \/ (~o.fault /\ UNCHANGED faults)
               /\ ctr'[inf.pod][i] = o.c
               /\ \/ /\ clean[i] = "stop" /\ o \in Stop(ctr[inf.pod][i])
                     /\ clean'[i] = IF o.ok THEN "wait" ELSE "kill"
                  \/ clean[i] = "kill" /\ o \in Kill(ctr[inf.pod][i]) /\ clean'[i] = "wait"
                  \/ /\ clean[i] = "wait" /\ o.c = ctr[inf.pod][i] /\ clean'[i] = "rm"
                  \/ /\ clean[i] = "rm" /\ o \in Remove(ctr[inf.pod][i])
                     /\ clean'[i] = IF o.ok THEN "done" ELSE "rm2"
                  \/ clean[i] = "rm2" /\ o \in Remove(ctr[inf.pod][i]) /\ clean'[i] = "done"
  BY CleanStepIs
<1>3. ~o.fault /\ faults.calls = 0
  BY <1>2, NoFaults
<1>4. Cleaned(j) /\ Cleaned(i)
  BY <1>1, <1>3 DEF CleanInv, Deleting
<1>5. ctr[inf.pod][i] \in Container
  BY <1>1 DEF TypeOK
<1>6. CASE j # i
  BY <1>1, <1>4, <1>6 DEF Cleaned
<1>7. CASE j = i
  <2>1. ~Exists(ctr[inf.pod][i]) => ~IsRunning(ctr[inf.pod][i])
    BY DEF Exists, IsRunning
  <2>2. ~Exists(o.c) => ~IsRunning(o.c)
    BY DEF Exists, IsRunning
  <2>a. /\ o \in Stop(ctr[inf.pod][i]) => IF o.ok THEN ~IsRunning(o.c) ELSE ~Exists(o.c)
        /\ o \in Kill(ctr[inf.pod][i]) /\ ~Exists(ctr[inf.pod][i]) => ~Exists(o.c)
        /\ o \in Remove(ctr[inf.pod][i]) /\ ~IsRunning(ctr[inf.pod][i]) => ~Exists(o.c)
    BY <1>3, <1>5, CleanTool
  <2>3. /\ clean'[i] \in {"kill", "rm2", "done"} => ~Exists(o.c)
        /\ clean'[i] \in {"wait", "rm"} => ~IsRunning(o.c)
    BY <1>2, <1>4, <2>1, <2>2, <2>a DEF Cleaned
  <2> QED
    BY <1>1, <1>2, <1>7, <2>3 DEF Cleaned
<1> QED
  BY <1>6, <1>7

\* The clean-up leaves nothing: nobody else touches the containers meanwhile.
LEMMA CleanKept == TypeOK /\ PutsInv /\ RaceInv /\ UntrackedInv /\ CleanInv /\ [Next]_vars => CleanInv'
<1> SUFFICES ASSUME TypeOK, PutsInv, RaceInv, UntrackedInv, CleanInv, [Next]_vars PROVE CleanInv'
  OBVIOUS
<1>0. faults'.calls = 0 => faults.calls = 0
  BY FaultsKept
<1>1. CASE Elsewhere
  <2>1. UNCHANGED <<inf, clean, tracked, raced>>
    BY <1>1, ElsewhereStays
  <2>2. ASSUME faults'.calls = 0, Deleting', ~raced'[inf'.pod], NEW i \in Mains PROVE Cleaned(i)'
    <3>1. Deleting /\ ~raced[inf.pod] /\ Cleaned(i) /\ inf.pod \in Pods
      BY <1>0, <2>1, <2>2 DEF Deleting, CleanInv, TypeOK, AtWork, Informer
    <3>2. per.pod # inf.pod
      BY <3>1 DEF RaceInv, UntrackedInv, Holds
    <3>3. ctr'[inf.pod][i] = ctr[inf.pod][i] \/ Exits(inf.pod, i)
      BY <1>1, <3>1, <3>2, BoxElsewhere DEF PassAt
    <3>4. CASE ctr'[inf.pod][i] = ctr[inf.pod][i]
      BY <2>1, <3>1, <3>4 DEF Cleaned
    <3>5. CASE Exits(inf.pod, i)
      <4>1. clean[i] = "stop"
        BY <3>1, <3>5 DEF Exits, Cleaned, IsRunning, Exists, TypeOK, CleanStage
      <4> QED
        BY <2>1, <4>1 DEF Cleaned
    <3> QED
      BY <3>3, <3>4, <3>5
  <2> QED
    BY <2>1, <2>2 DEF CleanInv
<1>2. CASE Handler
  <2>1. CASE Deleting'
    <3>1. \A i \in Mains : Cleaned(i)' <=> Cleaned(i)
      BY <1>2, <2>1, HandlerDeletes DEF Cleaned
    <3> QED
      BY <1>2, <2>1, <3>1, HandlerDeletes DEF CleanInv, Deleting
  <2>2. CASE ~Deleting'
    BY <2>2 DEF CleanInv, Deleting
  <2> QED
    BY <2>1, <2>2
<1>3. CASE KubeletRestart
  BY <1>3 DEF KubeletRestart, InfIdle, CleanInv, Deleting
<1>4. ASSUME NEW i \in Mains, CleanStep(i) PROVE CleanInv'
  <2>1. inf'.pc = "clean"
    BY <1>4, CleanStepIs
  <2> QED
    BY <1>4, <2>1, CleanStepKeeps DEF CleanInv
<1>5. ASSUME NEW q \in Pods, Pop(q) \/ Redeliver(q) PROVE CleanInv'
  <2>1. Starts(q) /\ inf.pc = "idle"
    BY <1>5, PopStarts, RedeliverStarts DEF Pop, Redeliver
  <2>2. CASE inf'.pc = "clean" /\ clean' = [i \in Mains |-> "stop"]
    BY <2>2 DEF CleanInv, Cleaned
  <2>3. CASE ~Deleting'
    BY <2>3 DEF CleanInv, Deleting
  <2> QED
    BY <2>1, <2>2, <2>3 DEF Starts, Deleting
<1> QED
  BY <1>1, <1>2, <1>3, <1>4, <1>5, Steps

\* What podsByKey, the passes and the clean-up are to each other.
DeleteInv == TypeOK /\ PutsInv /\ CreatedInv /\ RaceInv /\ UntrackedInv /\ CleanInv

\* It holds when the kubelet first starts,
LEMMA DeleteInvInit == Init => DeleteInv
<1> SUFFICES ASSUME Init PROVE DeleteInv
  OBVIOUS
<1>1. TypeOK
  BY InitTypes
<1>2. PutsInv /\ CreatedInv /\ UntrackedInv /\ CleanInv
  BY DEF Init, PutsInv, Puts, CreatedInv, Creating, InfIdle, UntrackedInv, CleanInv, Deleting
<1>3. RaceInv
  BY ConstantsAssumption DEF Init, RaceInv, Holds, PerIdle
<1> QED
  BY <1>1, <1>2, <1>3 DEF DeleteInv

\* and every step keeps it.
LEMMA DeleteInvStep == DeleteInv /\ [Next]_vars => DeleteInv'
BY StepTypes, PutsKept, CreatedKept, RaceKept, UntrackedKept, CleanKept DEF DeleteInv

\* The kubelet takes a pod from the API server only when none of its containers
\* is left, however many containers it has and whatever happens to the other
\* pods: as long as no call has failed and DeletePod has not met a pass of
\* periodicStatusSync.
THEOREM RemovedAfterCleanupAlways == Spec => RemovedAfterCleanup
<1>1. Init => DeleteInv
  BY DeleteInvInit
<1>2. DeleteInv /\ [Next]_vars => DeleteInv'
  BY DeleteInvStep
<1>3. DeleteInv /\ [Next]_vars
        => [\A k \in Pods : KubeletRemoves(k) /\ faults.calls = 0 /\ ~raced[k] =>
              \A i \in Mains : ~Exists(ctr[k][i])]_vars
  <2> SUFFICES ASSUME DeleteInv, NEW k \in Pods, KubeletRemoves(k), faults.calls = 0, ~raced[k], NEW i \in Mains
               PROVE  ~Exists(ctr[k][i])
    OBVIOUS
  <2>1. Cleaned(i) /\ clean[i] = "done"
    BY DEF DeleteInv, CleanInv, Deleting, KubeletRemoves
  <2> QED
    BY <2>1 DEF Cleaned, KubeletRemoves
<1> QED
  BY <1>1, <1>2, <1>3, PTL DEF Spec, RemovedAfterCleanup


-----------------------------------------------------------------------------
(* What a failed creation finds.                                           *)

\* A creation that is past onAdd's Inspect, or whose clean-up is under way.
Building ==
  \/ inf.pc \in Initing \cup {"mainRm", "mainRun"}
  \/ inf.pc = "clean" /\ inf.then = "createFailed"
FailInv ==
  faults.calls + faults.losses = 0 /\ Building /\ ~raced[inf.pod] => ~IsRunning(ctr[inf.pod][1])

\* A container that does not run is not started by a stop, a kill or a removal,
\* nor by a run that fails, when the tool works.
LEMMA StoppedTool ==
  ASSUME NEW c \in Container, ~IsRunning(c), NEW o, ~o.fault, NEW n \in Nat,
         o \in Stop(c) \cup Kill(c) \cup Remove(c) \/ (o \in Run(c, n) /\ ~o.ok)
  PROVE  ~IsRunning(o.c)
<1>1. ~IsRunning(Gone)
  BY DEF IsRunning, Gone
<1> QED
  BY <1>1 DEF Stop, Kill, Remove, Run, Done, Refused, Fault

\* Inspect tells whether the container runs, when the tool works.
LEMMA InspectTells ==
  ASSUME NEW c, NEW r \in Inspect(c), ~r.fault
  PROVE  /\ r.state = "running" <=> IsRunning(c)
         /\ r.state = "error" <=> ~Exists(c)
BY DEF Inspect, IsRunning, Exists

\* A step of a creation is at a container that does not run, or leaves it.
LEMMA HandlerFails ==
  ASSUME NMain = 1, TypeOK, FailInv, Handler, faults'.calls = 0, faults.losses = 0,
         Building', ~raced'[inf'.pod]
  PROVE  ~IsRunning(ctr'[inf'.pod][1])
<1> USE DEF provVars, boxVars
<1>0. inf \in Informer /\ ctr \in [Pods -> [Mains -> Container]] /\ 1 \in Mains /\ Mains = {1}
  BY DEF TypeOK, Mains
<1>i. inf.pc # "idle" => inf.pod \in Pods /\ inf.inc \in Nat
  BY <1>0 DEF TypeOK, AtWork, Informer
<1>f. faults.calls = 0
  <2>1. [Next]_vars
    BY DEF Next
  <2> QED
    BY <2>1, FaultsKept
<1>1. ASSUME inf' = InfIdle PROVE FALSE
  BY <1>1 DEF InfIdle, Building, Initing
<1>2. ASSUME NEW pc, NEW i, Continue(pc, i) PROVE inf'.pod = inf.pod /\ inf'.pc = pc
  BY <1>0, <1>2 DEF Continue, Informer
<1>3. ASSUME CreateFailed PROVE inf'.pod = inf.pod
  BY <1>3 DEF CreateFailed, StartCleanup
<1>4. ASSUME NEW i, CreateFrom(i) PROVE inf'.pod = inf.pod
  BY <1>2, <1>4 DEF CreateFrom
<1>5. ~Register /\ ~ApiDelete /\ ~CleanDone
  <2>1. ASSUME inf' = [inf EXCEPT !.pc = "apiDelete", !.then = "none"] PROVE FALSE
    BY <1>0, <2>1 DEF Informer, Building, Initing
  <2> QED
    BY <1>1, <2>1 DEF Register, ApiDelete, CleanDone
<1>6. ~Reconcile
  BY <1>1, <1>2 DEF Reconcile, Building, Initing
<1>7. CASE AddInspect
  <2>1. PICK r \in Inspect(ctr[inf.pod][1]) :
          Charge(r) /\ (Continue("reconcile", 1) \/ (r.state # "running" /\ CreateFrom(1)))
    BY <1>7 DEF AddInspect
  <2>2. ~r.fault
    BY <2>1, NoFaults
  <2>3. ~Continue("reconcile", 1)
    BY <1>2 DEF Building, Initing
  <2>4. inf'.pod = inf.pod /\ ~IsRunning(ctr[inf.pod][1])
    BY <1>4, <2>1, <2>2, <2>3, InspectTells
  <2> QED
    BY <1>7, <2>4 DEF AddInspect
<1>8. CASE InitRm \/ InitRun \/ InitWait \/ InitRm2
  <2>1. ctr' = ctr /\ raced' = raced /\ Building
    BY <1>8 DEF InitRm, InitRun, InitWait, InitRm2, Building, Initing
  <2>2. inf'.pod = inf.pod
    BY <1>2, <1>3, <1>4, <1>8 DEF InitRm, InitRun, InitWait, InitRm2
  <2> QED
    BY <1>f, <2>1, <2>2 DEF FailInv
<1>9. CASE MainRm
  <2>1. PICK o \in Remove(ctr[inf.pod][inf.i]) : OnMain(o)
    BY <1>9 DEF MainRm
  <2>2. ~o.fault /\ inf.i = 1 /\ inf.pod \in Pods
    BY <1>0, <1>9, <1>i, <2>1, NoFaults DEF OnMain, MainRm, TypeOK, AtWork
  <2>3. ctr'[inf.pod][1] = o.c /\ inf'.pod = inf.pod
    BY <1>0, <1>2, <1>9, <2>1, <2>2 DEF OnMain, MainRm
  <2>4. ~IsRunning(ctr[inf.pod][1]) /\ ctr[inf.pod][1] \in Container
    BY <1>0, <1>9, <1>f, <2>2, <2>3 DEF FailInv, Building, MainRm
  <2> QED
    BY <2>1, <2>2, <2>3, <2>4, StoppedTool
<1>10. CASE MainRun
  <2>1. PICK o \in Run(ctr[inf.pod][inf.i], inf.inc) :
          OnMain(o) /\ (Continue("register", 0) \/ inf.i < NMain \/ (~o.ok /\ CreateFailed))
    BY <1>10 DEF MainRun
  <2>2. ~o.fault /\ inf.i = 1 /\ inf.pod \in Pods /\ inf.inc \in Nat
    BY <1>0, <1>10, <1>i, <2>1, NoFaults DEF OnMain, MainRun, TypeOK, AtWork
  <2>3. ~o.ok /\ CreateFailed
    BY <1>2, <2>1, <2>2 DEF Building, Initing
  <2>4. ctr'[inf.pod][1] = o.c /\ inf'.pod = inf.pod
    BY <1>0, <1>3, <2>1, <2>2, <2>3 DEF OnMain
  <2>5. ~IsRunning(ctr[inf.pod][1]) /\ ctr[inf.pod][1] \in Container
    BY <1>0, <1>10, <1>f, <2>2, <2>4 DEF FailInv, Building, MainRun
  <2> QED
    BY <2>1, <2>2, <2>3, <2>4, <2>5, StoppedTool
<1> QED
  BY <1>5, <1>6, <1>7, <1>8, <1>9, <1>10 DEF Handler

\* Nobody else starts a container of a pod that is being created.
LEMMA FailKept ==
  NMain = 1 /\ TrackInv /\ PutsInv /\ RaceInv /\ FailInv /\ [Next]_vars => FailInv'
<1> SUFFICES ASSUME NMain = 1, TrackInv, PutsInv, RaceInv, FailInv, [Next]_vars,
                    faults'.calls + faults'.losses = 0, Building', ~raced'[inf'.pod]
             PROVE  ~IsRunning(ctr'[inf'.pod][1])
  BY DEF FailInv
<1>t. TypeOK
  BY DEF TrackInv
<1>0. faults'.calls = 0 /\ faults.calls = 0 /\ faults.losses = 0 /\ 1 \in Mains /\ Mains = {1}
  <2>1. faults' \in FaultCount
    BY <1>t, StepTypes DEF TypeOK, FaultCount
  <2> QED
    BY <1>t, <2>1, FaultsKept DEF FaultCount, Mains
<1>1. CASE Elsewhere
  <2>1. UNCHANGED <<inf, raced>> /\ inf.pod \in Pods /\ ~IsRunning(ctr[inf.pod][1])
    BY <1>0, <1>1, <1>t, ElsewhereStays DEF FailInv, Building, TypeOK, AtWork, Informer, Initing
  <2>2. per.pod # inf.pod
    BY <1>0, <2>1 DEF TrackInv, TrackedIsStored, RaceInv, Holds
  <2>3. ctr'[inf.pod][1] = ctr[inf.pod][1]
    BY <1>0, <1>1, <1>t, <2>1, <2>2, BoxElsewhere DEF PassAt, Exits
  <2> QED
    BY <2>1, <2>3
<1>2. CASE Handler
  BY <1>0, <1>2, <1>t, HandlerFails
<1>3. CASE KubeletRestart
  BY <1>3 DEF KubeletRestart, InfIdle, Building, Initing
<1>4. ASSUME NEW i \in Mains, CleanStep(i) PROVE ~IsRunning(ctr'[inf'.pod][1])
  <2>1. UNCHANGED <<inf, raced>> /\ inf.pod \in Pods /\ i = 1
    BY <1>0, <1>4, <1>t, CleanStepIs
  <2>2. ~IsRunning(ctr[inf.pod][1]) /\ ctr[inf.pod][1] \in Container
    BY <1>0, <1>t, <2>1 DEF FailInv, Building, TypeOK
  <2>3. PICK o : /\ Charge(o) \/ (~o.fault /\ UNCHANGED faults)
                 /\ ctr'[inf.pod][i] = o.c
                 /\ \/ o \in Stop(ctr[inf.pod][i]) \cup Kill(ctr[inf.pod][i]) \cup Remove(ctr[inf.pod][i])
                    \/ o.c = ctr[inf.pod][i]
    BY <1>4, <1>t, CleanStepIs
  <2>4. ~o.fault
    BY <1>0, <1>t, <2>3, NoFaults
  <2> QED
    BY <2>1, <2>2, <2>3, <2>4, StoppedTool
<1>5. ASSUME NEW q \in Pods, Pop(q) \/ Redeliver(q) PROVE FALSE
  <2>1. Starts(q) /\ inf.pc = "idle"
    BY <1>5, <1>t, PopStarts, RedeliverStarts DEF Pop, Redeliver
  <2> QED
    BY <2>1 DEF Starts, Building, Initing
<1> QED
  BY <1>1, <1>2, <1>3, <1>4, <1>5, Steps

\* With one container to a pod, the clean-up of a creation that failed never
\* meets a container that runs, through restarts of the kubelet, deletions and
\* new pods of the name: onAdd does not create over a container that runs, and no
\* pass starts one in a pod that is not tracked.
THEOREM FailureKillsNothingAlways == NMain = 1 => (Spec => []FailureKillsNothing)
<1> SUFFICES ASSUME NMain = 1 PROVE Spec => []FailureKillsNothing
  OBVIOUS
<1> DEFINE I == TrackInv /\ PutsInv /\ CreatedInv /\ RaceInv /\ FailInv
<1>1. Init => I
  <2> SUFFICES ASSUME Init PROVE I
    OBVIOUS
  <2>1. FailInv
    BY DEF Init, FailInv, Building, Initing, InfIdle
  <2> QED
    BY <2>1, TrackInvInit, DeleteInvInit DEF DeleteInv
<1>2. I /\ [Next]_vars => I'
  <2>1. TrackInv => TypeOK
    BY DEF TrackInv
  <2> QED
    BY <2>1, TrackStep, PutsKept, CreatedKept, RaceKept, FailKept
<1>3. I => FailureKillsNothing
  BY DEF FailInv, FailureKillsNothing, Building, Mains
<1> QED
  BY <1>1, <1>2, <1>3, PTL DEF Spec


-----------------------------------------------------------------------------
(* What the containers of a pod belong to.                                 *)

NoFault == faults.calls + faults.crashes + faults.losses = 0

\* The incarnation that a container of k is of: the one that is tracked, or the
\* one that is being created, and then CreatePod is past it, or any at all while
\* DeletePod is removing it.
Owned(k, i) ==
  \/ inf.pod # k /\ ctr[k][i].inc = tracked[k] /\ ctr[k][i].inc # 0
  \/ /\ inf.pod = k /\ ctr[k][i].inc = inf.inc
     /\ (inf.pc \in {"mainRm", "mainRun"} /\ i < inf.i) \/ inf.pc = "register"
  \/ inf.pod = k /\ inf.pc = "clean" /\ inf.then # "createFailed"

OneInit == \A k \in Pods, j \in Inits : IsRunning(ictr[k][j]) => inf.pod = k /\ inf.pc = "initWait" /\ inf.i = j
NoAdoption == inf.pc = "reconcile" => raced[inf.pod]
AllOwned == \A k \in Pods, i \in Mains : ~raced[k] /\ Exists(ctr[k][i]) => Owned(k, i)
MatchInv == NoFault => OneInit /\ NoAdoption /\ AllOwned

\* A state without faults is reached through states without faults.
LEMMA NoFaultKept == ASSUME TypeOK, [Next]_vars, NoFault' PROVE NoFault /\ faults'.calls = 0 /\ faults'.crashes = 0
<1>1. faults \in FaultCount /\ faults' \in FaultCount
  BY StepTypes DEF TypeOK, FaultCount
<1> QED
  BY <1>1, FaultsKept DEF FaultCount, NoFault

\* What the tool leaves of a container, when it works: nothing, the container, or
\* a new one where there was none.
LEMMA ToolKeeps ==
  ASSUME NEW c \in Container, NEW o, ~o.fault
  PROVE  /\ o \in Stop(c) \cup Kill(c) \cup Remove(c) =>
              /\ Exists(o.c) => Exists(c) /\ o.c.inc = c.inc
              /\ IsRunning(o.c) => IsRunning(c)
         /\ \A n \in Nat : o \in Run(c, n) =>
              \/ o.c = c /\ ~o.ok /\ Exists(c)
              \/ o.ok /\ ~Exists(c) /\ o.c.inc = n
<1>1. ~Exists(Gone) /\ ~IsRunning(Gone) /\ ~IsRunning(Stopped(c)) /\ Stopped(c).inc = c.inc
  BY DEF Exists, Gone, IsRunning, Stopped, Container
<1>2. \A n \in Nat : Running(n).inc = n
  BY DEF Running
<1>3. o \in Stop(c) \cup Kill(c) \cup Remove(c) =>
        \/ o.c = c
        \/ o.c = Stopped(c) /\ IsRunning(c)
        \/ o.c = Gone
  BY DEF Stop, Kill, Remove, Done, Refused, Fault
<1>4. IsRunning(c) => Exists(c)
  BY DEF IsRunning, Exists
<1> QED
  BY <1>1, <1>2, <1>3, <1>4 DEF Run, Done, Refused, Fault

\* The goroutines that are not the informer's keep what they find: a pass works
\* for the incarnation that is tracked.
LEMMA ElsewhereMatches ==
  ASSUME TrackInv, RaceInv, HeldInv, NoFault, MatchInv, Elsewhere, faults'.calls = 0
  PROVE  OneInit' /\ NoAdoption' /\ AllOwned'
<1>t. TypeOK
  BY DEF TrackInv
<1>0. UNCHANGED <<inf, clean, tracked, raced>>
  BY ElsewhereStays
<1>n. faults.crashes + faults.losses = 0 /\ faults.losses = 0
  BY <1>t DEF NoFault, TypeOK
<1>1. OneInit'
  <2>1. \A k \in Pods, j \in Inits : IsRunning(ictr'[k][j]) => IsRunning(ictr[k][j])
    <3>1. CASE Workload
      <4>1. CASE \E k \in Pods, i \in Mains : MainExit(k, i)
        BY <4>1 DEF MainExit
      <4>2. ASSUME NEW q \in Pods, NEW l \in Inits, InitExit(q, l), NEW k \in Pods, NEW j \in Inits,
                   IsRunning(ictr'[k][j])
            PROVE  IsRunning(ictr[k][j])
        <5>1. PICK e \in ExitKinds : ictr' = [ictr EXCEPT ![q][l].st = e]
          BY <4>2 DEF InitExit
        <5>2. e # "running"
          BY ConstantsAssumption DEF Exited
        <5> QED
          BY <1>t, <4>2, <5>1, <5>2 DEF TypeOK, IsRunning, Container
      <4> QED
        BY <3>1, <4>1, <4>2 DEF Workload
    <3>2. CASE ~Workload
      <4>1. ictr' = ictr
        BY <3>2 DEF Elsewhere, Api, ApiCreate, ApiMarkDeleted, ApiForceDelete, WatchLost, Relist, Tick, PeriodicStep,
                    Pick, InspectStatus, Act, LivenessKill, RestartRm, RestartRun, boxVars, vars
      <4> QED
        BY <4>1
    <3> QED
      BY <3>1, <3>2
  <2> QED
    BY <1>0, <2>1 DEF MatchInv, OneInit
<1>2. NoAdoption'
  BY <1>0 DEF MatchInv, NoAdoption
<1>3. ASSUME NEW k \in Pods, NEW i \in Mains, ~raced'[k], Exists(ctr'[k][i]) PROVE Owned(k, i)'
  <2>1. ~raced[k] /\ (Exists(ctr[k][i]) => Owned(k, i)) /\ ctr[k][i] \in Container
    BY <1>0, <1>3, <1>t DEF MatchInv, AllOwned, TypeOK
  <2>2. CASE Exists(ctr[k][i]) /\ ctr'[k][i].inc = ctr[k][i].inc
    BY <1>0, <2>1, <2>2 DEF Owned
  <2>3. CASE Exits(k, i)
    <3>1. Exists(ctr[k][i]) /\ ctr'[k][i].inc = ctr[k][i].inc
      BY <2>1, <2>3 DEF Exits, Exists, IsRunning, Container
    <3> QED
      BY <2>2, <3>1
  <2>4. CASE PassAt(k, i)
    <3>1. per.inc = tracked[k] /\ tracked[k] # 0 /\ tracked[k] \in Nat
      BY <1>n, <1>t, <2>1, <2>4 DEF PassAt, HeldInv, RaceInv, Holds, TypeOK
    <3>2. inf.pod # k
      BY <1>n, <3>1 DEF TrackInv, TrackedIsStored
    <3>3. PICK o : /\ Charge(o) /\ ctr'[k][i] = o.c
                   /\ o \in Kill(ctr[k][i]) \cup Remove(ctr[k][i]) \/ o \in Run(ctr[k][i], per.inc)
      BY <2>4 DEF PassAt
    <3>4. ~o.fault
      BY <1>t, <3>3, NoFaults
    <3>5. (Exists(ctr[k][i]) /\ o.c.inc = ctr[k][i].inc) \/ o.c.inc = per.inc
      BY <1>3, <2>1, <3>1, <3>3, <3>4, ToolKeeps
    <3> QED
      BY <1>0, <2>2, <3>1, <3>2, <3>3, <3>5 DEF Owned
  <2> QED
    BY <1>3, <1>t, <2>2, <2>3, <2>4, BoxElsewhere
<1> QED
  BY <1>1, <1>2, <1>3 DEF AllOwned

\* An event that is handled: no container of a pod is left when onAdd starts, and
\* an update is of the incarnation that is there.
LEMMA StartMatches ==
  ASSUME TrackInv, ChainInv, NoFault, MatchInv, [Next]_vars, NoFault', NEW q \in Pods, Starts(q),
         inf.pc = "idle", UNCHANGED boxVars
  PROVE  OneInit' /\ NoAdoption' /\ AllOwned'
<1> USE DEF boxVars
<1>t. TypeOK
  BY DEF TrackInv
<1>n. faults.losses = 0 /\ faults'.crashes + faults'.losses = 0
  <2>1. faults' \in FaultCount
    BY <1>t, StepTypes DEF TypeOK, FaultCount
  <2> QED
    BY <1>t, <2>1 DEF NoFault, TypeOK, FaultCount
<1>i. inf.pod = NoKey
  BY <1>t DEF TypeOK, AtWork
<1>1. OneInit'
  BY DEF MatchInv, OneInit
<1>2. NoAdoption'
  BY DEF Starts, MatchInv, NoAdoption
<1>3. ASSUME NEW k \in Pods, NEW i \in Mains, ~raced'[k], Exists(ctr[k][i]) PROVE Owned(k, i)'
  <2>1. raced \in [Pods -> BOOLEAN] /\ tracked \in [Pods -> Nat]
    BY <1>t DEF TypeOK
  <2>2. ~raced[k]
    BY <1>3, <2>1 DEF Starts
  <2>3. ctr[k][i].inc = tracked[k] /\ tracked[k] # 0
    BY <1>3, <1>i, <2>2, ConstantsAssumption DEF MatchInv, AllOwned, Owned
  <2>4. tracked[k] = store[k].inc
    BY <1>i, <1>n, <2>3, ConstantsAssumption DEF TrackInv, TrackedIsStored
  <2>5. CASE k # q
    <3>1. tracked'[k] = tracked[k] /\ inf'.pod # k
      BY <1>i, <2>1, <2>5, ConstantsAssumption DEF Starts
    <3> QED
      BY <2>3, <3>1 DEF Owned
  <2>6. CASE k = q
    <3>1. CASE inf'.pod = q /\ inf'.pc = "clean" /\ inf'.then # "createFailed"
      BY <2>6, <3>1 DEF Owned
    <3>2. CASE UNCHANGED inf /\ tracked'[q] = store'[q].inc /\ store[q].inc # 0 /\ store'[q].inc # 0
      <4>1. store'[q].inc = store[q].inc
        BY <1>n, <1>t, <3>2, UpdateIsSame
      <4> QED
        BY <1>i, <2>3, <2>4, <2>6, <3>2, <4>1, ConstantsAssumption DEF Owned
    <3>3. CASE UNCHANGED <<inf, tracked>>
      BY <1>i, <2>3, <2>6, <3>3, ConstantsAssumption DEF Owned
    <3> QED
      BY <2>1, <2>3, <2>4, <2>6, <3>1, <3>2, <3>3 DEF Starts
  <2> QED
    BY <2>5, <2>6
<1> QED
  BY <1>1, <1>2, <1>3 DEF AllOwned

\* A step of the clean-up, of what DeletePod or a failed creation left.
LEMMA CleanMatches ==
  ASSUME TypeOK, MatchInv, NoFault, NEW l \in Mains, CleanStep(l), faults'.calls = 0
  PROVE  OneInit' /\ NoAdoption' /\ AllOwned'
<1>1. /\ inf.pc = "clean" /\ UNCHANGED <<inf, tracked, raced>> /\ inf.pod \in Pods
      /\ \A j \in Mains \ {l} : ctr'[inf.pod][j] = ctr[inf.pod][j]
      /\ \A k \in Pods \ {inf.pod} : ctr'[k] = ctr[k]
  BY CleanStepIs
<1>2. OneInit' /\ NoAdoption'
  <2>1. ictr' = ictr
    BY DEF CleanStep, CleanStop, CleanKill, CleanWait, CleanRemove, CleanRetry, CleanCall, boxVars
  <2> QED
    BY <1>1, <2>1 DEF MatchInv, OneInit, NoAdoption
<1>3. ASSUME NEW k \in Pods, NEW i \in Mains, ~raced'[k], Exists(ctr'[k][i]) PROVE Owned(k, i)'
  <2>1. ~raced[k] /\ (Exists(ctr[k][i]) => Owned(k, i)) /\ ctr[k][i] \in Container
    BY <1>1, <1>3 DEF MatchInv, AllOwned, TypeOK
  <2>2. CASE ctr'[k][i] = ctr[k][i]
    BY <1>1, <1>3, <2>1, <2>2 DEF Owned
  <2>3. CASE k = inf.pod /\ i = l
    <3>1. PICK o : /\ Charge(o) \/ (~o.fault /\ UNCHANGED faults)
                   /\ ctr'[k][i] = o.c
                   /\ o \in Stop(ctr[k][i]) \cup Kill(ctr[k][i]) \cup Remove(ctr[k][i]) \/ o.c = ctr[k][i]
      BY <2>3, CleanStepIs
    <3>2. ~o.fault
      BY <3>1, NoFaults
    <3>3. Exists(ctr[k][i])
      BY <1>3, <2>1, <3>1, <3>2, ToolKeeps
    <3>4. inf.then # "createFailed"
      BY <1>1, <2>1, <2>3, <3>3 DEF Owned
    <3> QED
      BY <1>1, <2>3, <3>4 DEF Owned
  <2> QED
    BY <1>1, <2>2, <2>3
<1> QED
  BY <1>2, <1>3 DEF AllOwned

\* No container is left of a pod that is about to be created, or let go.
LEMMA NothingLeft ==
  ASSUME TypeOK, CleanInv, MatchInv, NoFault, NEW i \in Mains, ~raced[inf.pod], inf.pod \in Pods,
         \/ inf.pc \in Initing \cup {"addInspect", "reconcile", "apiDelete"}
         \/ inf.pc = "clean" /\ clean[i] = "done"
         \/ inf.pc \in {"mainRm", "mainRun"} /\ inf.i = i
  PROVE  ~Exists(ctr[inf.pod][i])
<1>1. CASE inf.pc = "clean" /\ inf.then # "createFailed" /\ clean[i] = "done"
  <2>1. faults.calls = 0
    BY DEF NoFault, TypeOK
  <2> QED
    BY <1>1, <2>1 DEF CleanInv, Deleting, Cleaned
<1>2. CASE ~(inf.pc = "clean" /\ inf.then # "createFailed")
  <2>1. i \in Nat
    BY ConstantsAssumption DEF Mains
  <2>2. ~Owned(inf.pod, i)
    BY <1>2, <2>1 DEF Owned, Initing
  <2> QED
    BY <2>2 DEF MatchInv, AllOwned
<1> QED
  BY <1>1, <1>2 DEF Initing

\* The steps of a handler that leave the containers alone: the pod is being
\* created, and has none, or the handler ends.
LEMMA HandlerLeaves ==
  ASSUME TypeOK, CleanInv, MatchInv, NoFault, UNCHANGED <<ctr, tracked, raced>>, inf.pod \in Pods,
         \/ inf' = InfIdle /\ (\A i \in Mains : raced[inf.pod] \/ ~Exists(ctr[inf.pod][i]))
         \/ inf'.pod = inf.pod /\ (\A i \in Mains : raced[inf.pod] \/ ~Exists(ctr[inf.pod][i]))
  PROVE  AllOwned'
<1>1. inf'.pod \in {NoKey, inf.pod}
  BY DEF InfIdle
<1>2. ASSUME NEW k \in Pods, NEW i \in Mains, ~raced[k], Exists(ctr[k][i]) PROVE Owned(k, i)'
  <2>1. Owned(k, i) /\ k # inf.pod
    BY <1>2 DEF MatchInv, AllOwned
  <2> QED
    BY <1>1, <2>1, ConstantsAssumption DEF Owned
<1> QED
  BY <1>2 DEF AllOwned

\* A call of CreatePod on container inf.i, which was not there: CreatePod has it.
LEMMA MainMatches ==
  ASSUME TypeOK, CleanInv, MatchInv, NoFault, MainRm \/ MainRun, faults'.calls = 0
  PROVE  AllOwned'
<1> USE DEF provVars, boxVars
<1>0. /\ inf \in Informer /\ inf.pod \in Pods /\ inf.i \in Mains /\ inf.inc \in Nat
      /\ inf.pc \in {"mainRm", "mainRun"} /\ UNCHANGED <<tracked, raced>>
  BY DEF MainRm, MainRun, TypeOK, AtWork, Informer
<1>n. Mains \subseteq Nat /\ NMain \in Nat
  BY ConstantsAssumption DEF Mains
<1>1. ASSUME NEW o, OnMain(o)
      PROVE  /\ ctr'[inf.pod][inf.i] = o.c
             /\ \A i \in Mains \ {inf.i} : ctr'[inf.pod][i] = ctr[inf.pod][i]
             /\ \A k \in Pods \ {inf.pod} : ctr'[k] = ctr[k]
             /\ Charge(o)
  BY <1>0, <1>1 DEF OnMain, TypeOK
<1>2. ~raced[inf.pod] => ~Exists(ctr[inf.pod][inf.i])
  BY <1>0, NothingLeft
<1>3. ASSUME NEW k \in Pods, k # inf.pod, inf'.pod = inf.pod, NEW i \in Mains, ~raced[k], Exists(ctr[k][i]),
             ctr'[k] = ctr[k]
      PROVE  Owned(k, i)'
  BY <1>0, <1>3 DEF MatchInv, AllOwned, Owned
<1>4. ctr[inf.pod][inf.i] \in Container
  BY <1>0 DEF TypeOK
<1>5. CASE MainRm
  <2>1. PICK o \in Remove(ctr[inf.pod][inf.i]) : OnMain(o)
    BY <1>5 DEF MainRm
  <2>2. ~o.fault
    BY <1>1, <2>1, NoFaults
  <2>3. ~raced[inf.pod] => ~Exists(o.c)
    BY <1>2, <1>4, <2>1, <2>2, ToolKeeps
  <2>4. inf'.pod = inf.pod /\ inf'.inc = inf.inc /\ inf'.pc = "mainRun" /\ inf'.i = inf.i
    BY <1>0, <1>5 DEF MainRm, Continue, Informer
  <2>5. ASSUME NEW k \in Pods, NEW i \in Mains, ~raced'[k], Exists(ctr'[k][i]) PROVE Owned(k, i)'
    <3>1. CASE k # inf.pod
      BY <1>0, <1>1, <1>3, <2>1, <2>4, <2>5, <3>1
    <3>2. CASE k = inf.pod
      <4>1. i # inf.i /\ Exists(ctr[k][i]) /\ ctr'[k][i] = ctr[k][i]
        BY <1>0, <1>1, <2>1, <2>3, <2>5, <3>2
      <4>2. Owned(k, i)
        BY <1>0, <2>5, <3>2, <4>1 DEF MatchInv, AllOwned
      <4> QED
        BY <1>5, <2>4, <3>2, <4>1, <4>2 DEF Owned, MainRm
    <3> QED
      BY <3>1, <3>2
  <2> QED
    BY <2>5 DEF AllOwned
<1>6. CASE MainRun
  <2>1. PICK o \in Run(ctr[inf.pod][inf.i], inf.inc) :
          /\ OnMain(o)
          /\ \/ o.ok /\ inf.i < NMain /\ Continue("mainRm", inf.i + 1)
             \/ o.ok /\ inf.i = NMain /\ Continue("register", 0)
             \/ ~o.ok /\ CreateFailed
    BY <1>6 DEF MainRun
  <2>2. ~o.fault
    BY <1>1, <2>1, NoFaults
  <2>a. \/ Exists(ctr[inf.pod][inf.i])
        \/ o.ok /\ o.c.inc = inf.inc
    BY <1>0, <1>4, <2>1, <2>2, ToolKeeps
  <2>3. ~raced[inf.pod] => o.ok /\ o.c.inc = inf.inc
    BY <1>2, <2>a
  <2>4. inf'.pod = inf.pod
    <3>1. ASSUME NEW pc, NEW i, Continue(pc, i) PROVE inf'.pod = inf.pod
      BY <1>0, <3>1 DEF Continue, Informer
    <3>2. CreateFailed => inf'.pod = inf.pod
      BY DEF CreateFailed, StartCleanup
    <3> QED
      BY <2>1, <3>1, <3>2
  <2>5. o.ok => /\ inf'.inc = inf.inc
                /\ \/ inf'.pc = "mainRm" /\ inf'.i = inf.i + 1
                   \/ inf'.pc = "register" /\ inf.i = NMain
    BY <1>0, <2>1 DEF Continue, Informer
  <2>6. ASSUME NEW k \in Pods, NEW i \in Mains, ~raced'[k], Exists(ctr'[k][i]) PROVE Owned(k, i)'
    <3>1. CASE k # inf.pod
      BY <1>0, <1>1, <1>3, <2>1, <2>4, <2>6, <3>1
    <3>2. CASE k = inf.pod /\ i = inf.i
      <4>1. ctr'[k][i].inc = inf'.inc
        BY <1>0, <1>1, <2>1, <2>3, <2>5, <2>6, <3>2
      <4>2. inf'.pc = "register" \/ (inf'.pc = "mainRm" /\ i < inf'.i)
        BY <1>0, <1>n, <2>3, <2>5, <2>6, <3>2
      <4> QED
        BY <2>4, <3>2, <4>1, <4>2 DEF Owned
    <3>3. CASE k = inf.pod /\ i # inf.i
      <4>1. Exists(ctr[k][i]) /\ ctr'[k][i] = ctr[k][i]
        BY <1>0, <1>1, <2>1, <2>6, <3>3
      <4>a. Owned(k, i)
        BY <1>0, <2>6, <3>3, <4>1 DEF MatchInv, AllOwned
      <4>2. ctr[k][i].inc = inf.inc /\ i < inf.i
        BY <1>0, <3>3, <4>a DEF Owned
      <4>b. o.ok /\ i \in Nat /\ inf.i \in Nat
        BY <1>0, <1>n, <2>3, <2>6, <3>3
      <4>3. inf'.pc = "register" \/ (inf'.pc = "mainRm" /\ i < inf'.i)
        BY <2>5, <4>2, <4>b
      <4>4. ctr'[k][i].inc = inf'.inc
        BY <1>0, <2>3, <2>5, <2>6, <3>3, <4>1, <4>2
      <4> QED
        BY <2>4, <3>3, <4>3, <4>4 DEF Owned
    <3> QED
      BY <3>1, <3>2, <3>3
  <2> QED
    BY <2>6 DEF AllOwned
<1> QED
  BY <1>5, <1>6

\* The end of CreatePod: what it has made is what is tracked.
LEMMA RegisterMatches ==
  ASSUME TypeOK, CreatedInv, MatchInv, NoFault, Register
  PROVE  AllOwned'
<1> USE DEF provVars, boxVars
<1>0. inf.pod \in Pods /\ inf.inc \in Nat \ {0} /\ tracked \in [Pods -> Nat]
  BY DEF Register, TypeOK, AtWork, Informer, CreatedInv, Creating
<1>1. tracked' = [tracked EXCEPT ![inf.pod] = inf.inc] /\ UNCHANGED <<ctr, raced>> /\ inf'.pod = NoKey
  BY DEF Register, Track, InfIdle
<1>2. ASSUME NEW k \in Pods, NEW i \in Mains, ~raced[k], Exists(ctr[k][i]) PROVE Owned(k, i)'
  <2>1. Owned(k, i) /\ k # NoKey
    BY <1>2, ConstantsAssumption DEF MatchInv, AllOwned
  <2> QED
    BY <1>0, <1>1, <2>1 DEF Owned, Register
<1> QED
  BY <1>1, <1>2 DEF AllOwned

\* What a creation, and the end of a clean-up, do while they leave the
\* containers alone.
LEMMA HandlerMatches ==
  ASSUME TypeOK, CreatedInv, CleanInv, MatchInv, NoFault, Handler, faults'.calls = 0
  PROVE  AllOwned'
<1> USE DEF provVars, boxVars
<1>0. inf \in Informer /\ (inf.pc # "idle" => inf.pod \in Pods)
  BY DEF TypeOK, AtWork, Informer
<1>1. CASE Register
  BY <1>1, RegisterMatches
<1>2. CASE MainRm \/ MainRun
  BY <1>2, MainMatches
<1>3. CASE AddInspect \/ Reconcile \/ InitRm \/ InitRun \/ InitWait \/ InitRm2 \/ CleanDone \/ ApiDelete
  <2>1. inf.pod \in Pods /\ inf.pc # "idle" /\ UNCHANGED <<ctr, raced>>
    BY <1>0, <1>3, ConstantsAssumption DEF AddInspect, Reconcile, InitRm, InitRun, InitWait, InitRm2, CleanDone,
         ApiDelete, TypeOK, AtWork, Informer
  <2>2. \A i \in Mains : raced[inf.pod] \/ ~Exists(ctr[inf.pod][i])
    <3>1. ASSUME NEW i \in Mains
          PROVE  \/ inf.pc \in Initing \cup {"addInspect", "reconcile", "apiDelete"}
                 \/ inf.pc = "clean" /\ clean[i] = "done"
      BY <1>3 DEF AddInspect, Reconcile, InitRm, InitRun, InitWait, InitRm2, CleanDone, ApiDelete, Initing
    <3> QED
      BY <2>1, <3>1, NothingLeft
  <2>3. inf' = InfIdle \/ inf'.pod = inf.pod
    <3>1. ASSUME NEW pc, NEW i, Continue(pc, i) PROVE inf'.pod = inf.pod
      BY <1>0, <3>1 DEF Continue, Informer
    <3>2. CreateFailed => inf'.pod = inf.pod
      BY DEF CreateFailed, StartCleanup
    <3>3. \A i : CreateFrom(i) => inf'.pod = inf.pod
      BY <3>1 DEF CreateFrom
    <3>4. CASE CleanDone
      BY <1>0, <3>4 DEF CleanDone, Informer
    <3>5. CASE ~CleanDone
      BY <1>3, <3>1, <3>2, <3>3, <3>5 DEF AddInspect, Reconcile, InitRm, InitRun, InitWait, InitRm2, ApiDelete
    <3> QED
      BY <3>4, <3>5
  <2>4. CASE ~Reconcile
    <3>1. UNCHANGED tracked
      BY <1>3, <2>4 DEF AddInspect, InitRm, InitRun, InitWait, InitRm2, CleanDone, ApiDelete
    <3> QED
      BY <2>1, <2>2, <2>3, <3>1, HandlerLeaves
  <2>5. CASE Reconcile
    <3>1. raced[inf.pod]
      BY <2>5 DEF Reconcile, MatchInv, NoAdoption
    <3>2. tracked \in [Pods -> Nat] /\ \A k \in Pods \ {inf.pod} : tracked'[k] = tracked[k]
      BY <2>1, <2>5 DEF Reconcile, Track, TypeOK
    <3>3. ASSUME NEW k \in Pods, NEW i \in Mains, ~raced[k], Exists(ctr[k][i]) PROVE Owned(k, i)'
      <4>1. Owned(k, i) /\ k # inf.pod
        BY <3>1, <3>3 DEF MatchInv, AllOwned
      <4>2. inf'.pod # k
        BY <2>3, <4>1, ConstantsAssumption DEF InfIdle
      <4> QED
        BY <2>1, <3>2, <4>1, <4>2 DEF Owned
    <3> QED
      BY <2>1, <3>3 DEF AllOwned
  <2> QED
    BY <2>4, <2>5
<1> QED
  BY <1>1, <1>2, <1>3 DEF Handler

\* The init container that runs is the one that CreatePod waits for.
LEMMA HandlerInits ==
  ASSUME TypeOK, MatchInv, NoFault, Handler, faults'.calls = 0
  PROVE  OneInit'
<1> USE DEF provVars, boxVars
<1>0. inf \in Informer /\ (inf.pc # "idle" => inf.pod \in Pods /\ inf.inc \in Nat)
  BY DEF TypeOK, AtWork, Informer
<1>1. ASSUME ictr' = ictr, \A k \in Pods, j \in Inits : ~IsRunning(ictr[k][j]) PROVE OneInit'
  BY <1>1 DEF OneInit
<1>2. inf.pc # "initWait" => \A k \in Pods, j \in Inits : ~IsRunning(ictr[k][j])
  BY DEF MatchInv, OneInit
<1>3. CASE AddInspect \/ Reconcile \/ MainRm \/ MainRun \/ Register \/ CleanDone \/ ApiDelete
  <2>1. ictr' = ictr /\ inf.pc # "initWait"
    BY <1>3 DEF AddInspect, Reconcile, MainRm, MainRun, Register, CleanDone, ApiDelete
  <2> QED
    BY <1>1, <1>2, <2>1
<1>4. CASE InitWait
  <2>1. ictr' = ictr /\ inf.pc = "initWait" /\ ~IsRunning(ictr[inf.pod][inf.i])
    BY <1>4 DEF InitWait, IsRunning
  <2>2. \A k \in Pods, j \in Inits : ~IsRunning(ictr[k][j])
    BY <2>1 DEF MatchInv, OneInit
  <2> QED
    BY <1>1, <2>1, <2>2
<1>5. ASSUME InitRm \/ InitRun \/ InitRm2
      PROVE  /\ inf.pod \in Pods /\ inf.i \in Inits /\ inf.inc \in Nat
             /\ ictr[inf.pod][inf.i] \in Container /\ ~IsRunning(ictr[inf.pod][inf.i])
             /\ \A o : OnInit(o) => /\ Charge(o) /\ ictr'[inf.pod][inf.i] = o.c
                                    /\ \A k \in Pods, j \in Inits :
                                         k # inf.pod \/ j # inf.i => ictr'[k][j] = ictr[k][j]
  <2>1. inf.pc \in {"initRm", "initRun", "initRm2"}
    BY <1>5 DEF InitRm, InitRun, InitRm2
  <2>2. inf.pod \in Pods /\ inf.i \in Inits /\ inf.inc \in Nat
    BY <1>0, <2>1 DEF TypeOK, AtWork
  <2>3. ictr[inf.pod][inf.i] \in Container /\ ~IsRunning(ictr[inf.pod][inf.i])
    BY <1>2, <2>1, <2>2 DEF TypeOK
  <2> QED
    BY <2>2, <2>3 DEF OnInit, TypeOK
<1>6. CASE InitRm \/ InitRm2
  <2>1. PICK o \in Remove(ictr[inf.pod][inf.i]) : OnInit(o)
    BY <1>6 DEF InitRm, InitRm2
  <2>2. ~o.fault /\ inf.pc # "initWait"
    BY <1>5, <1>6, <2>1, NoFaults DEF InitRm, InitRm2
  <2>3. ~IsRunning(o.c)
    BY <1>5, <1>6, <2>1, <2>2, ToolKeeps
  <2> QED
    BY <1>2, <1>5, <1>6, <2>1, <2>2, <2>3 DEF OneInit
<1>7. CASE InitRun
  <2>1. PICK o \in Run(ictr[inf.pod][inf.i], inf.inc) :
          OnInit(o) /\ ((o.ok /\ Continue("initWait", inf.i)) \/ (~o.ok /\ CreateFailed))
    BY <1>7 DEF InitRun
  <2>2. ~o.fault /\ inf.pc # "initWait"
    BY <1>5, <1>7, <2>1, NoFaults DEF InitRun
  <2>3. ~o.ok => ~IsRunning(o.c)
    BY <1>5, <1>7, <2>1, <2>2, StoppedTool
  <2>4. o.ok => inf'.pod = inf.pod /\ inf'.pc = "initWait" /\ inf'.i = inf.i
    BY <1>0, <2>1 DEF Continue, Informer
  <2> QED
    BY <1>2, <1>5, <1>7, <2>1, <2>2, <2>3, <2>4 DEF OneInit
<1> QED
  BY <1>3, <1>4, <1>6, <1>7 DEF Handler

\* onAdd finds no container, so it does not adopt.
LEMMA HandlerAdopts ==
  ASSUME TypeOK, CleanInv, MatchInv, NoFault, Handler, faults'.calls = 0
  PROVE  NoAdoption'
<1> USE DEF provVars, boxVars
<1>0. inf \in Informer
  BY DEF TypeOK
<1>1. ASSUME NEW pc, NEW i, Continue(pc, i) PROVE inf'.pod = inf.pod /\ inf'.pc = pc
  BY <1>0, <1>1 DEF Continue, Informer
<1>2. CASE AddInspect
  <2>1. PICK r \in Inspect(ctr[inf.pod][1]) :
          Charge(r) /\ ((r.state = "running" /\ Continue("reconcile", 1)) \/ CreateFrom(1))
    BY <1>2 DEF AddInspect
  <2>2. inf.pod \in Pods /\ 1 \in Mains
    BY <1>0, <1>2, ConstantsAssumption DEF AddInspect, TypeOK, AtWork, Informer, Mains
  <2>3. ~raced[inf.pod] => ~Exists(ctr[inf.pod][1])
    BY <1>2, <2>2, NothingLeft DEF AddInspect
  <2>4. ~raced[inf.pod] => r.state # "running"
    BY <2>1, <2>3 DEF Inspect
  <2>5. ~raced[inf.pod] => inf'.pc # "reconcile"
    BY <1>1, <2>1, <2>4 DEF CreateFrom
  <2>6. inf'.pod = inf.pod
    BY <1>1, <2>1 DEF CreateFrom
  <2> QED
    BY <1>2, <2>5, <2>6 DEF AddInspect, NoAdoption
<1>3. CASE Reconcile
  <2>1. inf' = InfIdle \/ inf'.pod = inf.pod
    BY <1>1, <1>3 DEF Reconcile
  <2> QED
    BY <1>3, <2>1 DEF Reconcile, MatchInv, NoAdoption, InfIdle
<1>4. CASE ~AddInspect /\ ~Reconcile
  <2>1. CASE InitRm \/ InitRun \/ InitWait \/ InitRm2 \/ MainRm \/ MainRun
    BY <1>1, <2>1 DEF InitRm, InitRun, InitWait, InitRm2, MainRm, MainRun, CreateFrom, CreateFailed, StartCleanup,
                      NoAdoption
  <2>2. CASE Register \/ CleanDone \/ ApiDelete
    <3>1. InfIdle.pc # "reconcile"
      BY DEF InfIdle
    <3>2. [inf EXCEPT !.pc = "apiDelete", !.then = "none"].pc # "reconcile"
      BY <1>0 DEF Informer
    <3> QED
      BY <2>2, <3>1, <3>2 DEF Register, CleanDone, ApiDelete, NoAdoption
  <2> QED
    BY <1>4, <2>1, <2>2 DEF Handler
<1> QED
  BY <1>2, <1>3, <1>4

\* Every step keeps the containers with the incarnation they belong to.
LEMMA MatchKept ==
  TrackInv /\ PutsInv /\ CreatedInv /\ RaceInv /\ CleanInv /\ ChainInv /\ HeldInv /\ MatchInv /\ [Next]_vars
    => MatchInv'
<1> SUFFICES ASSUME TrackInv, PutsInv, CreatedInv, RaceInv, CleanInv, ChainInv, HeldInv, MatchInv, [Next]_vars,
                    NoFault'
             PROVE  OneInit' /\ NoAdoption' /\ AllOwned'
  BY DEF MatchInv
<1>0. TypeOK /\ NoFault /\ faults'.calls = 0 /\ faults'.crashes = 0
  BY NoFaultKept DEF TrackInv
<1>1. CASE Elsewhere
  BY <1>0, <1>1, ElsewhereMatches
<1>2. CASE Handler
  BY <1>0, <1>2, HandlerMatches, HandlerInits, HandlerAdopts
<1>3. CASE KubeletRestart
  BY <1>0, <1>3 DEF KubeletRestart, TypeOK
<1>4. CASE \E i \in Mains : CleanStep(i)
  BY <1>0, <1>4, CleanMatches
<1>5. ASSUME NEW q \in Pods, Pop(q) \/ Redeliver(q) PROVE OneInit' /\ NoAdoption' /\ AllOwned'
  <2>1. Starts(q) /\ inf.pc = "idle" /\ UNCHANGED boxVars
    BY <1>0, <1>5, PopStarts, RedeliverStarts DEF Pop, Redeliver
  <2> QED
    BY <1>0, <2>1, StartMatches
<1> QED
  BY <1>1, <1>2, <1>3, <1>4, <1>5, Steps

\* All that the lifecycle keeps.
LifeInv == TrackInv /\ DeleteInv /\ ChainInv /\ HeldInv /\ MatchInv

\* It holds when the kubelet first starts,
LEMMA LifeInvInit == Init => LifeInv
<1> SUFFICES ASSUME Init PROVE LifeInv
  OBVIOUS
<1>1. TrackInv /\ DeleteInv
  BY TrackInvInit, DeleteInvInit
<1>2. ChainInv
  BY DEF Init, ChainInv, Chained, Known, NoPod
<1>3. HeldInv
  BY ConstantsAssumption DEF Init, HeldInv, PerIdle
<1>4. MatchInv
  BY DEF Init, MatchInv, OneInit, NoAdoption, AllOwned, InfIdle, Gone, IsRunning, Exists
<1> QED
  BY <1>1, <1>2, <1>3, <1>4 DEF LifeInv

\* and every step keeps it.
LEMMA LifeInvStep == LifeInv /\ [Next]_vars => LifeInv'
<1> SUFFICES ASSUME LifeInv, [Next]_vars PROVE LifeInv'
  OBVIOUS
<1>1. TypeOK /\ PutsInv /\ CreatedInv /\ RaceInv /\ CleanInv
  BY DEF LifeInv, DeleteInv
<1>2. TrackInv' /\ DeleteInv'
  BY TrackStep, DeleteInvStep DEF LifeInv
<1>3. ChainInv' /\ HeldInv' /\ MatchInv'
  BY <1>1, ChainKept, HeldKept, MatchKept DEF LifeInv
<1> QED
  BY <1>2, <1>3 DEF LifeInv

\* What a pod has in the runtime is what podsByKey says it has, for any number of
\* pods, containers and incarnations of a name: nothing is left of a pod that is
\* not tracked, and no pod keeps a container of its predecessor.
THEOREM ContainersMatchTrackingAlways == Spec => []ContainersMatchTracking
<1>1. LifeInv => ContainersMatchTracking
  <2> SUFFICES ASSUME LifeInv, NoFault, NEW k \in Pods, inf.pod # k, ~raced[k]
               PROVE  /\ \A i \in Mains : Exists(ctr[k][i]) => ctr[k][i].inc = tracked[k]
                      /\ \A i \in Inits : ~IsRunning(ictr[k][i])
    BY DEF ContainersMatchTracking, NoFault
  <2> QED
    BY DEF LifeInv, MatchInv, OneInit, AllOwned, Owned
<1> QED
  BY <1>1, LifeInvInit, LifeInvStep, PTL DEF Spec
=============================================================================
