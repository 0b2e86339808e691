------------------------- MODULE StatusWritesProofs -------------------------
(***************************************************************************)
(* Theorems about StatusWrites, for any number of containers, probed or    *)
(* not, of incarnations, faults and writes by others.  Both components     *)
(* stay in states of theirs; their steps have only the count of faults in  *)
(* common.  Of the pod's, TypeOK is not inductive as it stands: it needs   *)
(* to know what the informer's goroutine has at hand (Handled).            *)
(***************************************************************************)
EXTENDS StatusWrites, TLAPS

NodeP == INSTANCE NodeHeartbeatProofs

-----------------------------------------------------------------------------
(* The node.                                                               *)

\* The facts about NodeHeartbeat are about the module as its proofs instantiate it,
\* NodeP; they speak of the same constants,
LEMMA NodeConsts == NodeP!NodeConstants <=> Node!NodeConstants
BY DEF NodeP!NodeConstants, Node!NodeConstants, NodeP!Node, Node!Node

\* of the same types,
LEMMA NodeTypes == NodeP!TypeOK <=> Node!TypeOK
BY DEF NodeP!TypeOK, NodeP!Bounds, NodeP!Places, NodeP!Nodes, NodeP!ReadIsLatest, NodeP!Node,
       Node!TypeOK, Node!Bounds, Node!Places, Node!Nodes, Node!ReadIsLatest, Node!Node

\* before and after a step,
LEMMA NodeTypesNext == NodeP!TypeOK' <=> Node!TypeOK'
BY DEF NodeP!TypeOK, NodeP!Bounds, NodeP!Places, NodeP!Nodes, NodeP!ReadIsLatest, NodeP!Node,
       Node!TypeOK, Node!Bounds, Node!Places, Node!Nodes, Node!ReadIsLatest, Node!Node

\* and of the same steps as StatusWrites does.
LEMMA NodeSteps == Node!Next => NodeP!Next
BY DEF Node!Next, NodeP!Next, Node!Register, NodeP!Register, Node!Heartbeat, NodeP!Heartbeat,
 Node!Others, NodeP!Others, Node!Create, NodeP!Create, Node!RegGet, NodeP!RegGet, Node!RegUpdate, NodeP!RegUpdate,
 Node!RegStatus, NodeP!RegStatus, Node!BeatGet, NodeP!BeatGet, Node!BeatWrite, NodeP!BeatWrite, Node!Silent, NodeP!Silent,
 Node!Untaint, NodeP!Untaint, Node!OtherWrite, NodeP!OtherWrite, Node!Stop, NodeP!Stop, Node!Start, NodeP!Start,
 Node!Goto, NodeP!Goto, Node!Fail, NodeP!Fail, Node!Forget, NodeP!Forget, Node!Exit, NodeP!Exit, Node!Built, NodeP!Built

\* Every step of the node's writers keeps the node's types.
LEMMA NodeKept == Node!TypeOK /\ Node!Next => Node!TypeOK'
<1> SUFFICES ASSUME Node!TypeOK, Node!Next PROVE Node!TypeOK'
  OBVIOUS
<1>1. NodeP!NodeConstants /\ NodeP!TypeOK /\ NodeP!Next
  BY NodeAssumption, NodeConsts, NodeTypes, NodeSteps
<1>2. NodeP!TypeOK'
  BY <1>1, NodeP!BoundsKept, NodeP!PlacesKept, NodeP!NodesKept, NodeP!ReadIsLatestKept DEF NodeP!TypeOK
<1> QED
  BY <1>2, NodeTypesNext
-----------------------------------------------------------------------------
(* The pod.                                                                *)

Event == [gone : BOOLEAN, pod : Pod]
Work == [at : {"idle", "fetch", "look", "orphan", "get", "write"}, st : Status, fresh : BOOLEAN]

Counts == created \in 0..MaxInc /\ faults \in 0..MaxFaults
Server == api \in Pod \cup {NoPod} /\ queue \in Seq(Event)
Copies == store \in Pod \cup {NoPod} /\ tracked \in Pod \cup {NoPod}
Hosts ==
  /\ up \in BOOLEAN
  /\ cs \in [C -> {"none", "starting", "serving", "stopped"}]
  /\ handling \in {"none", "create", "clean", "clean, delete", "fail"}
Writers ==
  /\ work \in [Workers -> Work]
  /\ \A w \in Workers : /\ work[w].at = "look" => tracked # NoPod
                        /\ work[w].fresh => work[w].at = "write" /\ api # NoPod
Downed == ~up => tracked = NoPod /\ queue = <<>> /\ handling = "none"

\* What the informer's goroutine handles, it handles alone; a pod it creates is in
\* the store.
Handled ==
  /\ handling = "create" => store # NoPod
  /\ handling # "none" => work["inf"].at \in {"idle", "write"}
  /\ handling \notin {"none", "fail"} => work["inf"].at = "idle"

PodInv == Counts /\ Server /\ Copies /\ Hosts /\ Writers /\ Downed /\ Handled

\* The invariant is TypeOK and Handled.
LEMMA PodInvIs == PodInv <=> TypeOK /\ Handled
BY DEF PodInv, TypeOK, Counts, Server, Copies, Hosts, Writers, Downed, Event, Work

\* Who works on what podsByKey held keeps that, and nobody looks at what it holds
\* now.
LEMMA ReplacedTypes ==
  ASSUME Copies, Writers
  PROVE  /\ Replaced(work) \in [Workers -> Work]
         /\ \A w \in Workers : /\ Replaced(work)[w].at # "look"
                               /\ Replaced(work)[w].fresh = work[w].fresh
                               /\ work[w].at # "look" => Replaced(work)[w] = work[w]
<1> DEFINE r(w) == IF work[w].at = "look" THEN [work[w] EXCEPT !.at = "orphan", !.st = tracked.st] ELSE work[w]
<1>1. ASSUME NEW w \in Workers
      PROVE  /\ r(w) \in Work
             /\ r(w).at # "look"
             /\ r(w).fresh = work[w].fresh
             /\ work[w].at # "look" => r(w) = work[w]
  <2>1. work[w] \in Work /\ (work[w].at = "look" => tracked \in Pod)
    BY <1>1 DEF Copies, Writers
  <2>2. CASE work[w].at = "look"
    <3>1. tracked.st \in Status
      BY <2>1, <2>2 DEF Pod
    <3> QED
      BY <2>1, <2>2, <3>1 DEF Work
  <2>3. CASE work[w].at # "look"
    BY <2>1, <2>3
  <2> QED
    BY <2>2, <2>3
<1>2. Replaced(work) = [w \in Workers |-> r(w)]
  BY DEF Replaced
<1> HIDE DEF r
<1> QED
  BY <1>1, <1>2

\* After a write of another, nobody has the latest.
LEMMA StaleTypes ==
  ASSUME Writers
  PROVE  /\ Stale(work) \in [Workers -> Work]
         /\ \A w \in Workers : /\ ~Stale(work)[w].fresh
                               /\ Stale(work)[w].at = work[w].at
<1>1. \A w \in Workers : /\ [work[w] EXCEPT !.fresh = FALSE] \in Work
                         /\ ~[work[w] EXCEPT !.fresh = FALSE].fresh
                         /\ [work[w] EXCEPT !.fresh = FALSE].at = work[w].at
  BY DEF Writers, Work
<1> QED
  BY <1>1 DEF Stale

\* A write of a pod, or a deletion, is an event for the informer.
LEMMA PutTypes == \A pod \in Pod : Server /\ Put(pod) => Server' /\ api' \in Pod
<1> SUFFICES ASSUME NEW pod \in Pod, Server, Put(pod) PROVE Server' /\ api' \in Pod
  OBVIOUS
<1>1. [gone |-> FALSE, pod |-> pod] \in Event
  BY DEF Event
<1> QED
  BY <1>1 DEF Put, Emit, Server

\* A deletion is an event for the informer.
LEMMA GoneTypes == Server /\ api # NoPod /\ Gone => Server'
<1> SUFFICES ASSUME Server, api # NoPod, Gone PROVE Server'
  OBVIOUS
<1>1. [gone |-> TRUE, pod |-> api] \in Event
  BY DEF Event, Server
<1> QED
  BY <1>1 DEF Gone, Emit, Server

\* While the controller is down, nothing is sent to it.
LEMMA PutIsSent ==
  ~up => /\ \A pod : Put(pod) => queue' = queue
         /\ Gone => queue' = queue
BY DEF Put, Gone, Emit

\* A worker begins, or ends, with nothing.
LEMMA IdleTypes == Idle \in Work /\ Idle.at = "idle" /\ ~Idle.fresh
BY DEF Idle, Work, NoStatus, Status, Phase

\* What a pass makes of a status is one.
LEMMA SeenTypes ==
  ASSUME NEW st \in Status, NEW seen
  PROVE  [phase |-> PhaseOf(st, seen), ready |-> ReadyOf(st, seen)] \in Status
<1>1. PhaseOf(st, seen) \in Phase
  BY DEF PhaseOf, Phase, Status
<1>2. ReadyOf(st, seen) \in {"none", "true", "false"}
  BY DEF ReadyOf
<1> QED
  BY <1>1, <1>2 DEF Status

\* A pod with another status, or marked, is a pod.
LEMMA PodTypes ==
  ASSUME NEW pod \in Pod
  PROVE  /\ pod.st \in Status
         /\ [pod EXCEPT !.del = TRUE] \in Pod
         /\ \A st \in Status : [pod EXCEPT !.st = st] \in Pod
         /\ \A ph \in Phase : [pod EXCEPT !.st.phase = ph] \in Pod
         /\ [pod EXCEPT !.st.ready = "false"] \in Pod
BY DEF Pod, Status

\* A worker that has looked at nothing goes to work.
LEMMA Begins ==
  ASSUME PodInv, NEW w \in Workers, work[w].at = "idle", tracked' = tracked, api' = api,
         work' = [work EXCEPT ![w].at = "fetch"]
  PROVE  Writers'
<1>1. work[w] \in Work /\ ~work[w].fresh
  BY DEF PodInv, Writers
<1>2. [work[w] EXCEPT !.at = "fetch"] \in Work /\ [work[w] EXCEPT !.at = "fetch"].at = "fetch"
      /\ ~[work[w] EXCEPT !.at = "fetch"].fresh
  BY <1>1 DEF Work
<1> QED
  BY <1>2 DEF PodInv, Writers

\* The informer's goroutine begins to write the status of a pod it has come to
\* track; the pass has kept what it looked at.
LEMMA Adopting ==
  ASSUME PodInv, work["inf"].at = "idle", api' = api, tracked' # NoPod,
         work' = [Replaced(work) EXCEPT !["inf"].at = "look"]
  PROVE  Writers'
<1>1. "inf" \in Workers
  BY DEF Workers
<1>2. Replaced(work) \in [Workers -> Work] /\ Replaced(work)["inf"] = work["inf"] /\ ~work["inf"].fresh
  BY <1>1, ReplacedTypes DEF PodInv, Writers
<1>3. [work["inf"] EXCEPT !.at = "look"] \in Work /\ [work["inf"] EXCEPT !.at = "look"].at = "look"
      /\ ~[work["inf"] EXCEPT !.at = "look"].fresh
  BY <1>1, <1>2 DEF Work
<1>4. ASSUME NEW w \in Workers, w # "inf"
      PROVE  work'[w] = Replaced(work)[w]
  BY <1>1, <1>2, <1>4
<1>5. work'["inf"] = [work["inf"] EXCEPT !.at = "look"] /\ work' \in [Workers -> Work]
  BY <1>1, <1>2, <1>3
<1> QED
  BY <1>3, <1>4, <1>5, ReplacedTypes DEF PodInv, Writers

\* A worker has read the pod, and it is there.
LEMMA HasRead ==
  ASSUME PodInv, NEW w \in Workers, api # NoPod, tracked' = tracked, api' = api,
         work' = [work EXCEPT ![w].at = "write", ![w].fresh = TRUE]
  PROVE  Writers'
<1>1. work[w] \in Work
  BY DEF PodInv, Writers
<1> DEFINE new == [work[w] EXCEPT !.at = "write", !.fresh = TRUE]
<1>2. new \in Work /\ new.at = "write"
  BY <1>1 DEF Work
<1>3. work' = [work EXCEPT ![w] = new]
  BY DEF PodInv, Writers, Work
<1> HIDE DEF new
<1> QED
  BY <1>2, <1>3 DEF PodInv, Writers

\* A worker has looked, and has what it will write.
LEMMA HasLooked ==
  ASSUME PodInv, NEW w \in Workers, NEW s \in Status, work[w].at \in {"look", "orphan"},
         tracked # NoPod => tracked' # NoPod, api' = api,
         work' = [work EXCEPT ![w].at = "get", ![w].st = s]
  PROVE  Writers'
<1>1. work[w] \in Work /\ ~work[w].fresh
  BY DEF PodInv, Writers
<1> DEFINE new == [work[w] EXCEPT !.at = "get", !.st = s]
<1>2. new \in Work /\ new.at = "get" /\ ~new.fresh
  BY <1>1 DEF Work
<1>3. work' = [work EXCEPT ![w] = new]
  BY DEF PodInv, Writers, Work
<1> HIDE DEF new
<1> QED
  BY <1>2, <1>3 DEF PodInv, Writers

\* A worker ends, and has written or not.
LEMMA GivesUp ==
  ASSUME PodInv, NEW w \in Workers, tracked' = tracked,
         \/ work' = [Stale(work) EXCEPT ![w] = Idle]
         \/ work' = [work EXCEPT ![w] = Idle] /\ UNCHANGED api
  PROVE  Writers'
BY IdleTypes, StaleTypes DEF PodInv, Writers

-----------------------------------------------------------------------------
(* The steps of the pod.                                                   *)

\* The counters stay within their bounds.
LEMMA CountsKept == PodInv /\ Next => Counts'
<1> SUFFICES ASSUME PodInv, Next PROVE Counts'
  OBVIOUS
<1> USE StatusConstants DEF PodInv, Counts, bounds, Fault
<1>1. CASE ApiMarkDeleted \/ MarkNotReady \/ Pop \/ Resync \/ Create \/ Fetch \/ (\E i \in C : Change(i)) \/ Start
  BY <1>1 DEF ApiMarkDeleted, MarkNotReady, Pop, Resync, Create, Fetch, Change, Start
<1>2. CASE ApiCreate
  BY <1>2 DEF ApiCreate
<1>3. CASE Touch
  BY <1>3 DEF Touch
<1>4. CASE CreateFails
  BY <1>4 DEF CreateFails
<1>5. CASE FailGet
  BY <1>5 DEF FailGet
<1>6. CASE FailWrite
  BY <1>6 DEF FailWrite
<1>7. CASE Clean
  <2>1. UNCHANGED bounds \/ (Fault /\ UNCHANGED created)
    BY <1>7 DEF Clean
  <2> QED
    BY <2>1
<1>8. CASE Tick
  BY <1>8 DEF Tick
<1>9. CASE \E w \in Workers : Get(w)
  BY <1>9 DEF Get
<1>10. CASE \E w \in Workers : Write(w)
  BY <1>10 DEF Write
<1>11. CASE Stop
  BY <1>11 DEF Stop
<1>12. CASE \E w \in Workers : Look(w)
  BY <1>12 DEF Look
<1> QED
  BY <1>1, <1>2, <1>3, <1>4, <1>5, <1>6, <1>7, <1>8, <1>9, <1>10, <1>11, <1>12
     DEF Next, Informer, Pass, Others, Workers

\* The API server's pod and the events are what was written.
LEMMA ServerKept == PodInv /\ Next => Server'
<1> SUFFICES ASSUME PodInv, Next PROVE Server'
  OBVIOUS
<1> USE DEF PodInv
<1>1. CASE Resync \/ Create \/ CreateFails \/ FailGet \/ Tick \/ Fetch \/ (\E w \in Workers : Look(w)) \/ (\E w \in Workers : Get(w)) \/ (\E i \in C : Change(i))
  BY <1>1 DEF Resync, Create, CreateFails, FailGet, Tick, Fetch, Look, Get, Change, Server
<1>2. CASE ApiCreate
  <2>1. [inc |-> created + 1, del |-> FALSE, st |-> NoStatus] \in Pod
    BY <1>2, StatusConstants DEF ApiCreate, Counts, Pod, NoStatus, Status, Phase
  <2> QED
    BY <1>2, <2>1, PutTypes DEF ApiCreate
<1>3. CASE ApiMarkDeleted
  <2>1. api \in Pod
    BY <1>3 DEF ApiMarkDeleted, Server
  <2> QED
    BY <1>3, <2>1, PodTypes, PutTypes DEF ApiMarkDeleted
<1>4. CASE Touch
  <2>1. api \in Pod
    BY <1>4 DEF Touch, Server
  <2> QED
    BY <1>4, <2>1, PutTypes, GoneTypes DEF Touch
<1>5. CASE MarkNotReady
  <2>1. api \in Pod
    BY <1>5 DEF MarkNotReady, Server
  <2> QED
    BY <1>5, <2>1, PodTypes, PutTypes DEF MarkNotReady
<1>6. CASE Pop
  BY <1>6 DEF Pop, Server
<1>7. CASE FailWrite
  <2>1. CASE UNCHANGED <<api, queue>>
    BY <2>1 DEF Server
  <2>2. CASE work["inf"].fresh /\ Put([api EXCEPT !.st.phase = "Failed"])
    <3>1. api \in Pod
      BY <2>2 DEF Writers, Server, Workers
    <3> QED
      BY <2>2, <3>1, PodTypes, PutTypes DEF Phase
  <2> QED
    BY <1>7, <2>1, <2>2 DEF FailWrite
<1>8. CASE Clean
  BY <1>8, GoneTypes DEF Clean, Server
<1>9. CASE \E w \in Workers : Write(w)
  <2> PICK w \in Workers : Write(w)
    BY <1>9
  <2>1. CASE UNCHANGED <<api, queue>>
    BY <2>1 DEF Server
  <2>2. CASE work[w].fresh /\ Put([api EXCEPT !.st = work[w].st])
    <3>1. api \in Pod /\ work[w].st \in Status
      BY <2>2 DEF Writers, Server, Work
    <3> QED
      BY <2>2, <3>1, PodTypes, PutTypes
  <2> QED
    BY <2>1, <2>2 DEF Write
<1>10. CASE Stop
  BY <1>10 DEF Stop, Server
<1>11. CASE Start
  <2>1. api # NoPod => [gone |-> FALSE, pod |-> api] \in Event
    BY DEF Server, Event
  <2> QED
    BY <1>11, <2>1 DEF Start, Server
<1> QED
  BY <1>1, <1>2, <1>3, <1>4, <1>5, <1>6, <1>7, <1>8, <1>9, <1>10, <1>11
     DEF Next, Informer, Pass, Others, Workers

\* What the informer and podsByKey hold are pods.
LEMMA CopiesKept == PodInv /\ Next => Copies'
<1> SUFFICES ASSUME PodInv, Next PROVE Copies'
  OBVIOUS
<1> USE DEF PodInv
<1>1. CASE ApiCreate \/ ApiMarkDeleted \/ Touch \/ MarkNotReady \/ CreateFails \/ FailGet \/ FailWrite \/ Clean \/ Tick \/ Fetch \/ (\E w \in Workers : Get(w)) \/ (\E w \in Workers : Write(w)) \/ (\E i \in C : Change(i)) \/ Start
  BY <1>1 DEF ApiCreate, ApiMarkDeleted, Touch, MarkNotReady, CreateFails, FailGet, FailWrite, Clean,
                 Tick, Fetch, Get, Write, Change, Start, Copies
<1>2. CASE Pop
  <2>1. Head(queue) \in Event
    BY <1>2 DEF Pop, Server
  <2>2. CASE Head(queue).gone /\ OnDelete
    BY <2>2 DEF OnDelete, Untrack, Copies
  <2>3. CASE OnAdd(Head(queue).pod)
    <3> DEFINE pod == Head(queue).pod
    <3>1. pod \in Pod /\ [pod EXCEPT !.st.phase = "Running"] \in Pod
      BY <2>1, PodTypes DEF Event, Phase
    <3> HIDE DEF pod
    <3>2. OnAdd(pod)
      BY <2>3 DEF pod
    <3> QED
      BY <3>1, <3>2 DEF OnAdd, Untrack, Copies
  <2>4. CASE OnUpdate(Head(queue).pod)
    BY <2>1, <2>4 DEF OnUpdate, Untrack, Copies, Event
  <2> QED
    BY <1>2, <2>2, <2>3, <2>4 DEF Pop
<1>3. CASE Resync
  BY <1>3 DEF Resync, OnUpdate, Untrack, Copies
<1>4. CASE Create
  <2>1. store \in Pod
    BY <1>4 DEF Create, Handled, Copies
  <2>2. [phase |-> "Running", ready |-> IF Probed = {} THEN "true" ELSE "false"] \in Status
    BY DEF Status, Phase
  <2> QED
    BY <1>4, <2>1, <2>2, PodTypes DEF Create, Copies
<1>5. CASE \E w \in Workers : Look(w)
  <2> PICK w \in Workers : Look(w)
    BY <1>5
  <2>1. CASE work[w].at = "look"
    <3>1. tracked \in Pod
      BY <2>1 DEF Writers, Copies
    <3>2. PICK seen : tracked' = [tracked EXCEPT !.st = [phase |-> PhaseOf(tracked.st, seen),
                                                         ready |-> ReadyOf(tracked.st, seen)]]
      BY <2>1 DEF Look
    <3>3. tracked' \in Pod
      BY <3>1, <3>2, PodTypes, SeenTypes
    <3> QED
      BY <3>3 DEF Copies, Look
  <2>2. CASE work[w].at # "look"
    BY <2>2 DEF Look, Copies
  <2> QED
    BY <2>1, <2>2
<1>6. CASE Stop
  BY <1>6 DEF Stop, Copies
<1> QED
  BY <1>1, <1>2, <1>3, <1>4, <1>5, <1>6
     DEF Next, Informer, Pass, Others, Workers

\* The controller, the containers and the informer's goroutine.
LEMMA HostsKept == PodInv /\ Next => Hosts'
<1> SUFFICES ASSUME PodInv, Next PROVE Hosts'
  OBVIOUS
<1> USE DEF PodInv, Hosts
<1>1. CASE ApiCreate \/ ApiMarkDeleted \/ Touch \/ MarkNotReady \/ Fetch \/ (\E w \in Workers : Look(w)) \/ (\E w \in Workers : Get(w)) \/ (\E w \in Workers : Write(w))
  BY <1>1 DEF ApiCreate, ApiMarkDeleted, Touch, MarkNotReady, Fetch, Look, Get, Write
<1>2. CASE Pop
  BY <1>2 DEF Pop, OnDelete, OnAdd, OnUpdate, Untrack
<1>3. CASE Resync
  BY <1>3 DEF Resync, OnUpdate, Untrack
<1>4. CASE Create
  BY <1>4 DEF Create
<1>5. CASE CreateFails
  BY <1>5 DEF CreateFails
<1>6. CASE FailGet
  BY <1>6 DEF FailGet
<1>7. CASE FailWrite
  BY <1>7 DEF FailWrite
<1>8. CASE Clean
  BY <1>8 DEF Clean
<1>9. CASE Tick
  BY <1>9 DEF Tick
<1>10. CASE \E i \in C : Change(i)
  BY <1>10 DEF Change
<1>11. CASE Stop
  BY <1>11 DEF Stop
<1>12. CASE Start
  BY <1>12 DEF Start
<1> QED
  BY <1>1, <1>2, <1>3, <1>4, <1>5, <1>6, <1>7, <1>8, <1>9, <1>10, <1>11, <1>12
     DEF Next, Informer, Pass, Others, Workers

\* Only a tracked pod is looked at, and only what is there is the latest: every
\* write takes it from who has read before, and whoever takes the tracked pod away
\* leaves the one who looks at it with its status.
LEMMA WritersKept == PodInv /\ Next => Writers'
<1> SUFFICES ASSUME PodInv, Next PROVE Writers'
  OBVIOUS
<1> USE DEF PodInv
<1>1. CASE CreateFails \/ (\E i \in C : Change(i)) \/ Start
  BY <1>1 DEF CreateFails, Change, Start, Writers
<1>2. CASE ApiCreate
  <2>1. UNCHANGED <<work, tracked>> /\ api = NoPod
    BY <1>2 DEF ApiCreate
  <2> QED
    BY <2>1 DEF Writers
<1>3. CASE ApiMarkDeleted
  BY <1>3, StaleTypes DEF ApiMarkDeleted, Writers
<1>4. CASE Touch
  BY <1>4, StaleTypes DEF Touch, Writers
<1>5. CASE MarkNotReady
  BY <1>5, StaleTypes DEF MarkNotReady, Writers
<1>6. CASE Pop
  <2>1. work' = work /\ tracked' = tracked /\ api' = api => Writers'
    BY DEF Writers
  <2>2. work' = Replaced(work) /\ api' = api => Writers'
    BY ReplacedTypes DEF Writers
  <2>3. /\ work["inf"].at = "idle" /\ tracked' # NoPod /\ api' = api
        /\ work' = [Replaced(work) EXCEPT !["inf"].at = "look"]
        => Writers'
    BY ReplacedTypes, Adopting
  <2>4. work["inf"].at = "idle" /\ api' = api
    BY <1>6 DEF Pop, InfIdle
  <2>5. \/ work' = work /\ tracked' = tracked
        \/ work' = Replaced(work)
        \/ tracked' # NoPod /\ work' = [Replaced(work) EXCEPT !["inf"].at = "look"]
    <3>1. CASE OnAdd(Head(queue).pod) /\ queue # <<>>
      <4>1. Head(queue) \in Event
        BY <3>1 DEF Server
      <4>2. [Head(queue).pod EXCEPT !.st.phase = "Running"] # NoPod
        BY <4>1, PodTypes, StatusConstants DEF Event, Phase
      <4> QED
        BY <3>1, <4>2 DEF OnAdd, Untrack
    <3>2. CASE OnDelete \/ OnUpdate(Head(queue).pod)
      BY <3>2 DEF OnDelete, OnUpdate, Untrack
    <3> QED
      BY <1>6, <3>1, <3>2 DEF Pop
  <2> QED
    BY <2>1, <2>2, <2>3, <2>4, <2>5
<1>7. CASE Resync
  <2>1. work' = work /\ tracked' = tracked /\ api' = api => Writers'
    BY DEF Writers
  <2>2. work' = Replaced(work) /\ api' = api => Writers'
    BY ReplacedTypes DEF Writers
  <2> QED
    BY <1>7, <2>1, <2>2 DEF Resync, OnUpdate, Untrack
<1>8. CASE Create
  <2>1. work["inf"].at = "idle" /\ store \in Pod
    BY <1>8 DEF Create, Handled, Copies
  <2>2. [phase |-> "Running", ready |-> IF Probed = {} THEN "true" ELSE "false"] \in Status
    BY DEF Status, Phase
  <2>3. tracked' # NoPod
    BY <1>8, <2>1, <2>2, PodTypes, StatusConstants DEF Create
  <2> QED
    BY <1>8, <2>1, <2>3, ReplacedTypes, Adopting DEF Create
<1>9. CASE FailGet
  <2>1. CASE UNCHANGED work
    BY <1>9, <2>1 DEF FailGet, Writers
  <2>2. CASE api # NoPod /\ work' = [work EXCEPT !["inf"].at = "write", !["inf"].fresh = TRUE]
    <3>1. "inf" \in Workers
      BY DEF Workers
    <3>2. UNCHANGED <<api, tracked>>
      BY <1>9 DEF FailGet
    <3> QED
      BY <2>2, <3>1, <3>2, HasRead
  <2> QED
    BY <1>9, <2>1, <2>2 DEF FailGet
<1>10. CASE FailWrite
  <2>1. "inf" \in Workers /\ UNCHANGED tracked
    BY <1>10 DEF FailWrite, Workers
  <2>2. CASE work' = [Stale(work) EXCEPT !["inf"] = Idle]
    BY <2>1, <2>2, GivesUp
  <2>3. CASE work' = [work EXCEPT !["inf"] = Idle] /\ UNCHANGED api
    BY <2>1, <2>3, GivesUp
  <2> QED
    BY <1>10, <2>2, <2>3 DEF FailWrite
<1>11. CASE Clean
  BY <1>11, StaleTypes DEF Clean, Writers
<1>12. CASE Tick
  <2>1. "per" \in Workers
    BY DEF Workers
  <2> QED
    BY <1>12, <2>1, Begins DEF Tick
<1>13. CASE Fetch
  <2>1. "per" \in Workers /\ work["per"] \in Work /\ ~work["per"].fresh
    BY <1>13 DEF Fetch, Writers, Workers
  <2>2. [work["per"] EXCEPT !.at = IF tracked = NoPod THEN "idle" ELSE "look"] \in Work
    BY <2>1 DEF Work
  <2> QED
    BY <1>13, <2>1, <2>2 DEF Fetch, Writers, Work
<1>14. CASE \E w \in Workers : Look(w)
  <2> PICK w \in Workers : Look(w)
    BY <1>14
  <2>1. work[w] \in Work
    BY DEF Look, Writers
  <2>3. PICK s \in Status : /\ work' = [work EXCEPT ![w].at = "get", ![w].st = s]
                            /\ tracked' = tracked \/ tracked' = [tracked EXCEPT !.st = s]
    <3> DEFINE old == IF work[w].at = "look" THEN tracked.st ELSE work[w].st
    <3>1. old \in Status
      BY <2>1, PodTypes DEF Writers, Copies, Work
    <3> DEFINE new(seen) == [phase |-> PhaseOf(old, seen), ready |-> ReadyOf(old, seen)]
    <3>2. PICK seen : /\ work' = [work EXCEPT ![w].at = "get", ![w].st = new(seen)]
                      /\ tracked' = tracked \/ tracked' = [tracked EXCEPT !.st = new(seen)]
      BY DEF Look
    <3>3. new(seen) \in Status
      BY <3>1, SeenTypes
    <3> HIDE DEF new
    <3> QED
      BY <3>2, <3>3
  <2>4. tracked # NoPod => tracked' # NoPod
    <3>1. NoPod \notin Pod
      BY StatusConstants
    <3>2. ASSUME tracked \in Pod PROVE tracked' \in Pod
      BY <2>3, <3>2, PodTypes
    <3> QED
      BY <3>1, <3>2 DEF Copies
  <2>5. api' = api
    BY DEF Look
  <2>6. work[w].at \in {"look", "orphan"}
    BY DEF Look
  <2>7. work' = [work EXCEPT ![w].at = "get", ![w].st = s]
    BY <2>3
  <2> HIDE DEF PodInv
  <2> QED
    BY <2>4, <2>5, <2>6, <2>7, HasLooked
<1>15. CASE \E w \in Workers : Get(w)
  <2> PICK w \in Workers : Get(w)
    BY <1>15
  <2>1. UNCHANGED <<api, tracked>>
    BY DEF Get
  <2>2. CASE work' = [work EXCEPT ![w] = Idle]
    BY <2>1, <2>2, GivesUp
  <2>3. CASE api # NoPod /\ work' = [work EXCEPT ![w].at = "write", ![w].fresh = TRUE]
    BY <2>1, <2>3, HasRead
  <2> QED
    BY <2>2, <2>3 DEF Get
<1>16. CASE \E w \in Workers : Write(w)
  <2> PICK w \in Workers : Write(w)
    BY <1>16
  <2>1. UNCHANGED tracked
    BY DEF Write
  <2>2. CASE work' = [Stale(work) EXCEPT ![w] = Idle]
    BY <2>1, <2>2, GivesUp
  <2>3. CASE work' = [work EXCEPT ![w] = Idle] /\ UNCHANGED api
    BY <2>1, <2>3, GivesUp
  <2> QED
    BY <2>2, <2>3 DEF Write
<1>17. CASE Stop
  BY <1>17, IdleTypes DEF Stop, Writers
<1> QED
  BY <1>1, <1>2, <1>3, <1>4, <1>5, <1>6, <1>7, <1>8, <1>9, <1>10, <1>11, <1>12, <1>13, <1>14, <1>15, <1>16, <1>17
     DEF Next, Informer, Pass, Others, Workers

\* While the controller is down, it tracks nothing, hears nothing and handles
\* nothing.
LEMMA DownedKept == PodInv /\ Next => Downed'
<1> SUFFICES ASSUME PodInv, Next PROVE Downed'
  OBVIOUS
<1> USE DEF PodInv, Downed
<1>1. CASE ApiCreate \/ ApiMarkDeleted \/ Touch \/ MarkNotReady
  BY <1>1, PutIsSent DEF ApiCreate, ApiMarkDeleted, Touch, MarkNotReady
<1>2. CASE Pop \/ Resync \/ Create \/ CreateFails \/ FailGet \/ FailWrite \/ Clean \/ Tick
  <2>1. up /\ up' = up
    BY <1>2 DEF Pop, Resync, Create, CreateFails, FailGet, FailWrite, Clean, Tick, InfIdle
  <2> QED
    BY <2>1
<1>3. CASE Fetch \/ (\E w \in Workers : Look(w)) \/ (\E w \in Workers : Get(w)) \/ (\E w \in Workers : Write(w)) \/ (\E i \in C : Change(i)) \/ Stop \/ Start
  BY <1>3 DEF Fetch, Look, Get, Write, Change, Stop, Start
<1> QED
  BY <1>1, <1>2, <1>3
     DEF Next, Informer, Pass, Others, Workers

\* What the informer's goroutine handles, it handles alone.
LEMMA HandledKept == PodInv /\ Next => Handled'
<1> SUFFICES ASSUME PodInv, Next PROVE Handled'
  OBVIOUS
<1> USE DEF PodInv, Handled
<1>1. CASE ApiCreate \/ ApiMarkDeleted \/ Touch \/ MarkNotReady
  BY <1>1, StaleTypes DEF ApiCreate, ApiMarkDeleted, Touch, MarkNotReady, Workers
<1>2. CASE Create \/ CreateFails \/ FailWrite \/ Stop \/ (\E i \in C : Change(i)) \/ Start
  BY <1>2 DEF Create, CreateFails, FailWrite, Stop, Change, Start
<1>3. CASE Pop
  <2>1. work["inf"].at = "idle" /\ handling = "none"
    BY <1>3 DEF Pop, InfIdle
  <2>2. CASE Head(queue).gone /\ OnDelete
    BY <2>1, <2>2, ReplacedTypes DEF OnDelete, Untrack, Workers
  <2>3. CASE OnAdd(Head(queue).pod)
    <3>0. Head(queue) \in Event
      BY <1>3 DEF Pop, Server
    <3>1. Head(queue).pod \in Pod
      BY <3>0 DEF Event
    <3>2. handling' = "create" => store' \in Pod
      BY <2>1, <2>3, <3>1 DEF OnAdd
    <3>3. handling' # "none" => work'["inf"] = work["inf"]
      BY <2>1, <2>3, ReplacedTypes DEF OnAdd, Untrack, Workers
    <3> QED
      BY <2>1, <3>2, <3>3, StatusConstants
  <2>4. CASE OnUpdate(Head(queue).pod)
    BY <2>1, <2>4, ReplacedTypes DEF OnUpdate, Untrack, Workers
  <2> QED
    BY <1>3, <2>2, <2>3, <2>4 DEF Pop
<1>4. CASE Resync
  BY <1>4, ReplacedTypes DEF Resync, InfIdle, OnUpdate, Untrack, Workers
<1>5. CASE FailGet
  <2>1. "inf" \in Workers
    BY DEF Workers
  <2>2. CASE handling' = "none"
    BY <2>2
  <2>3. CASE work' = [work EXCEPT !["inf"].at = "write", !["inf"].fresh = TRUE] /\ UNCHANGED handling
    <3>1. work'["inf"].at = "write"
      BY <2>1, <2>3 DEF Writers, Work
    <3> QED
      BY <1>5, <2>3, <3>1 DEF FailGet
  <2> QED
    BY <1>5, <2>2, <2>3 DEF FailGet
<1>6. CASE Clean
  BY <1>6 DEF Clean
<1>7. CASE Tick
  <2>1. work'["inf"] = work["inf"]
    BY <1>7 DEF Tick, Workers, Writers
  <2> QED
    BY <1>7, <2>1 DEF Tick
<1>8. CASE Fetch
  <2>1. work'["inf"] = work["inf"]
    BY <1>8 DEF Fetch, Workers, Writers
  <2> QED
    BY <1>8, <2>1 DEF Fetch
<1>9. CASE \E w \in Workers : Look(w)
  <2> PICK w \in Workers : Look(w)
    BY <1>9
  <2>1. handling # "none" => work'["inf"] = work["inf"]
    BY DEF Look, Workers, Writers
  <2> QED
    BY <2>1 DEF Look
<1>10. CASE \E w \in Workers : Get(w)
  <2> PICK w \in Workers : Get(w)
    BY <1>10
  <2>1. handling # "none" => work'["inf"] = work["inf"]
    BY DEF Get, Workers, Writers
  <2> QED
    BY <2>1 DEF Get
<1>11. CASE \E w \in Workers : Write(w)
  <2> PICK w \in Workers : Write(w)
    BY <1>11
  <2>1. handling # "none" => w # "inf" /\ UNCHANGED <<handling, store>>
    BY DEF Write
  <2>2. handling # "none" => work'["inf"].at = work["inf"].at
    BY <2>1, StaleTypes DEF Write, Workers, Writers
  <2> QED
    BY <2>1, <2>2 DEF Write
<1> QED
  BY <1>1, <1>2, <1>3, <1>4, <1>5, <1>6, <1>7, <1>8, <1>9, <1>10, <1>11
     DEF Next, Informer, Pass, Others, Workers

\* The pod's state is one, and stays one.
LEMMA InitPods == Init => PodInv
<1> SUFFICES ASSUME Init PROVE PodInv
  OBVIOUS
<1>1. Counts /\ Server /\ Copies /\ Downed
  BY StatusConstants DEF Init, Counts, Server, Copies, Downed
<1>2. Hosts
  BY DEF Init, Hosts
<1>3. Writers /\ Handled
  BY IdleTypes DEF Init, Writers, Handled, Workers
<1> QED
  BY <1>1, <1>2, <1>3 DEF PodInv

\* Every step of the pod's writers keeps what they know of the pod.
LEMMA PodsKept == PodInv /\ Next => PodInv'
BY CountsKept, ServerKept, CopiesKept, HostsKept, WritersKept, DownedKept, HandledKept DEF PodInv

-----------------------------------------------------------------------------
(* Both.                                                                   *)

Inv == PodInv /\ Node!TypeOK

\* It holds when the kubelet first starts.
LEMMA InitBoth == StatusInit => Inv
<1> SUFFICES ASSUME StatusInit PROVE Inv
  OBVIOUS
<1>1. Init
  BY DEF StatusInit
<1>2. CASE object = "pod" /\ Init /\ NoWriter
  <2>1. NodeP!NodeConstants
    BY NodeAssumption, NodeConsts
  <2>2. Node!Bounds
    BY <1>2, <2>1 DEF NoWriter, Init, Node!Bounds, NodeP!NodeConstants
  <2>3. Node!Places /\ Node!Nodes /\ Node!ReadIsLatest
    BY <1>2 DEF NoWriter, Node!Places, Node!Nodes, Node!ReadIsLatest
  <2> QED
    BY <1>1, <2>2, <2>3, InitPods DEF Inv, Node!TypeOK
<1>3. CASE Node!Init
  <2>1. NodeP!Init
    BY <1>3 DEF Node!Init, NodeP!Init
  <2>2. NodeP!TypeOK
    BY <2>1, NodeAssumption, NodeConsts, NodeP!InitTypes
  <2> QED
    BY <1>1, <2>2, NodeTypes, InitPods DEF Inv
<1> QED
  BY <1>2, <1>3 DEF StatusInit

\* A step of either leaves the other's state alone, but for the faults, which both
\* count.
LEMMA BothKept == Inv /\ [StatusNext]_statusVars => Inv'
<1> SUFFICES ASSUME Inv, [StatusNext]_statusVars PROVE Inv'
  OBVIOUS
<1>1. CASE OnPod
  <2>1. PodInv'
    BY <1>1, PodsKept DEF OnPod, Inv
  <2>2. faults' \in 0..MaxFaults
    BY <2>1 DEF PodInv, Counts
  <2>3. UNCHANGED <<node, others, main, beat, mine, latest>>
    BY <1>1 DEF OnPod, nodeVars
  <2>4. Node!TypeOK'
    BY <2>2, <2>3 DEF Inv, Node!TypeOK, Node!Bounds, Node!Places, Node!Nodes, Node!ReadIsLatest
  <2> QED
    BY <2>1, <2>4 DEF Inv
<1>2. CASE OnNode
  <2>1. Node!TypeOK'
    BY <1>2, NodeKept DEF OnNode, Inv
  <2>2. faults' \in 0..MaxFaults
    BY <2>1 DEF Node!TypeOK, Node!Bounds
  <2>3. UNCHANGED <<api, created, up, store, queue, tracked, cs, handling, work>>
    BY <1>2 DEF OnNode, podVars
  <2>4. PodInv'
    BY <2>2, <2>3 DEF Inv, PodInv, Counts, Server, Copies, Hosts, Writers, Downed, Handled
  <2> QED
    BY <2>1, <2>4 DEF Inv
<1>3. CASE UNCHANGED statusVars
  <2>1. UNCHANGED <<api, created, faults, up, store, queue, tracked, cs, handling, work>>
        /\ UNCHANGED <<node, others, main, beat, mine, latest>>
    BY <1>3 DEF statusVars, vars, bounds, nodeVars
  <2>2. PodInv'
    BY <2>1 DEF Inv, PodInv, Counts, Server, Copies, Hosts, Writers, Downed, Handled
  <2>3. Node!TypeOK'
    BY <2>1 DEF Inv, Node!TypeOK, Node!Bounds, Node!Places, Node!Nodes, Node!ReadIsLatest
  <2> QED
    BY <2>2, <2>3 DEF Inv
<1> QED
  BY <1>1, <1>2, <1>3 DEF StatusNext

\* It holds always.
LEMMA InvAlways == StatusSpec => []Inv
BY InitBoth, BothKept, PTL DEF StatusSpec

\* The API server's pod and node, what the informer, podsByKey and those who write
\* the status hold of the pod, and what registerNode and heartbeat hold of the node,
\* whatever fails and whoever else writes.
THEOREM StatusTypeCorrect == StatusSpec => []StatusTypeOK
<1>1. Inv => StatusTypeOK
  BY PodInvIs DEF Inv, StatusTypeOK
<1> QED
  BY <1>1, InvAlways, PTL

\* Also beside the writers of the pod's status, registerNode and heartbeat take
\* nothing from the node that is another's to write, apart from the status at
\* registration.
THEOREM OthersStayKept == StatusSpec => OthersAreKept
<1> DEFINE Kept == node # NoNode /\ node' # NoNode =>
                     /\ node.cidr => node'.cidr
                     /\ main = "up" /\ node.cond => node'.cond
<1>1. Inv /\ [StatusNext]_statusVars => [Kept]_(Node!vars)
  <2> SUFFICES ASSUME Inv, StatusNext \/ UNCHANGED statusVars, ~UNCHANGED Node!vars PROVE Kept
    BY DEF Kept
  <2>1. CASE OnNode
    <3>1. NodeP!NodeConstants /\ NodeP!TypeOK /\ NodeP!Next
      BY <2>1, NodeAssumption, NodeConsts, NodeTypes, NodeSteps DEF OnNode, Inv
    <3> QED
      BY <3>1, NodeP!StepKeepsOthers
  <2>2. CASE OnPod \/ UNCHANGED statusVars
    BY <2>2 DEF OnPod, statusVars, nodeVars
  <2> QED
    BY <2>1, <2>2 DEF StatusNext
<1> QED
  BY <1>1, InvAlways, PTL DEF StatusSpec, OthersAreKept, Node!OthersAreKept
=============================================================================
