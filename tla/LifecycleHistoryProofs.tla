----------------------- MODULE LifecycleHistoryProofs -----------------------
(***************************************************************************)
(* Theorems about LifecycleHistory: what the lifecycle has done to a pod   *)
(* so far, for any number of pods, containers, init containers and         *)
(* incarnations, and any number of faults.                                 *)
(***************************************************************************)
EXTENDS LifecycleHistory, PodLifecycleProofs

-----------------------------------------------------------------------------
(* The incarnations that the queues tell of.                               *)

\* The events of a queue are of incarnations from lo to hi, in their order; no
\* deletion is of the incarnation cur, and none is followed by an object of the
\* incarnation it is of.
Ordered(q, lo, hi, cur) ==
  \A j \in 1 .. Len(q) :
    /\ q[j].inc # 0 /\ lo <= q[j].inc /\ q[j].inc <= hi
    /\ q[j].kind # "put" => q[j].inc # cur
    /\ \A l \in 1 .. (j - 1) : /\ q[l].inc <= q[j].inc
                               /\ q[l].kind # "put" /\ q[j].kind = "put" => q[l].inc # q[j].inc

OrderOf(k) ==
  /\ store[k].inc <= lastInc[k] /\ api[k].inc \in {0, lastInc[k]}
  /\ Ordered(queue[k], store[k].inc, lastInc[k], api[k].inc)
OrderInv == \A k \in Pods : OrderOf(k)

\* Events have incarnations.
LEMMA EventNumbers == ASSUME NEW q \in Seq(Event), NEW j \in 1 .. Len(q) PROVE q[j].inc \in Nat
<1>1. q[j] \in Event
  BY ElementOfSeq
<1> QED
  BY <1>1 DEF Event

\* A newer event goes to the end.
LEMMA OrderAppend ==
  ASSUME NEW q \in Seq(Event), NEW e \in Event, NEW lo \in Nat, NEW hi \in Nat, NEW cur \in Nat,
         NEW hi2 \in Nat, NEW cur2 \in Nat,
         Ordered(q, lo, hi, cur), hi <= hi2, e.inc # 0, lo <= e.inc, e.inc <= hi2,
         e.kind # "put" => e.inc # cur2,
         \A j \in 1 .. Len(q) : /\ q[j].inc <= e.inc
                                /\ q[j].kind # "put" => q[j].inc # cur2
                                /\ q[j].kind # "put" /\ e.kind = "put" => q[j].inc # e.inc
  PROVE  Ordered(Append(q, e), lo, hi2, cur2)
<1> DEFINE r == Append(q, e)
<1>1. /\ Len(q) \in Nat /\ Len(r) = Len(q) + 1
      /\ \A j \in 1 .. Len(q) : r[j] = q[j]
      /\ r[Len(q) + 1] = e
  BY Appended
<1>2. \A j \in 1 .. Len(q) : q[j].inc \in Nat
  BY EventNumbers
<1>3. e.inc \in Nat
  BY DEF Event
<1> HIDE DEF r
<1>4. ASSUME NEW j \in 1 .. Len(r)
      PROVE  /\ r[j].inc # 0 /\ lo <= r[j].inc /\ r[j].inc <= hi2
             /\ r[j].kind # "put" => r[j].inc # cur2
             /\ \A l \in 1 .. (j - 1) : /\ r[l].inc <= r[j].inc
                                        /\ r[l].kind # "put" /\ r[j].kind = "put" => r[l].inc # r[j].inc
  <2>1. CASE j = Len(q) + 1
    BY <1>1, <2>1
  <2>2. CASE j \in 1 .. Len(q)
    <3>1. r[j] = q[j] /\ \A l \in 1 .. (j - 1) : r[l] = q[l]
      BY <1>1, <2>2
    <3>2. q[j].inc <= hi2
      BY <1>2, <2>2 DEF Ordered
    <3> QED
      BY <2>2, <3>1, <3>2 DEF Ordered
  <2> QED
    BY <1>1, <2>1, <2>2
<1> QED
  BY <1>4 DEF Ordered, r

\* The events that follow the first are not older than it.
LEMMA OrderTail ==
  ASSUME NEW q \in Seq(Event), q # <<>>, NEW lo \in Nat, NEW hi \in Nat, NEW cur \in Nat, Ordered(q, lo, hi, cur)
  PROVE  Ordered(Tail(q), After(Head(q)), hi, cur)
<1>1. /\ Len(q) \in Nat \ {0} /\ Len(Tail(q)) = Len(q) - 1 /\ Head(q) = q[1]
      /\ \A j \in 1 .. Len(Tail(q)) : Tail(q)[j] = q[j + 1]
  BY Tailed
<1>2. \A j \in 1 .. Len(q) : q[j].inc \in Nat
  BY EventNumbers
<1> DEFINE r == Tail(q)
<1> HIDE DEF r
<1>4. ASSUME NEW j \in 1 .. Len(r)
      PROVE  /\ r[j].inc # 0 /\ After(q[1]) <= r[j].inc /\ r[j].inc <= hi
             /\ r[j].kind # "put" => r[j].inc # cur
             /\ \A l \in 1 .. (j - 1) : /\ r[l].inc <= r[j].inc
                                        /\ r[l].kind # "put" /\ r[j].kind = "put" => r[l].inc # r[j].inc
  <2>1. r[j] = q[j + 1] /\ (\A l \in 1 .. (j - 1) : r[l] = q[l + 1]) /\ j + 1 \in 1 .. Len(q) /\ 1 \in 1 .. j
    BY <1>1 DEF r
  <2>2. q[1].inc <= q[j + 1].inc
    BY <2>1 DEF Ordered
  <2>3. After(q[1]) <= q[j + 1].inc
    BY <1>2, <2>1, <2>2 DEF After
  <2>4. \A l \in 1 .. (j - 1) : l + 1 \in 1 .. ((j + 1) - 1)
    BY <1>1
  <2> QED
    BY <2>1, <2>3, <2>4 DEF Ordered
<1> QED
  BY <1>1, <1>4 DEF Ordered, r

\* What the informer will know of a key is the newest that its queue tells.
LEMMA KnownOrder ==
  ASSUME TypeOK, NEW k \in Pods, OrderOf(k), Known(k) # 0
  PROVE  /\ store[k].inc <= Known(k) /\ Known(k) <= lastInc[k]
         /\ \A j \in 1 .. Len(queue[k]) : queue[k][j].inc <= Known(k)
<1>1. queue[k] \in Seq(Event) /\ store[k].inc \in Nat /\ lastInc[k] \in Nat
  BY DEF TypeOK, PodObj
<1> DEFINE q == queue[k]
<1>2. CASE q = <<>>
  BY <1>1, <1>2 DEF Known, OrderOf
<1>3. CASE q # <<>>
  <2>1. Len(q) \in 1 .. Len(q) /\ Len(q) \in Nat
    BY <1>1, <1>3, EmptySeq, LenProperties
  <2>2. Known(k) = q[Len(q)].inc
    BY <1>3 DEF Known, After
  <2>3. \A j \in 1 .. Len(q) : q[j].inc \in Nat
    BY <1>1, EventNumbers
  <2>4. \A j \in 1 .. Len(q) : j = Len(q) \/ j \in 1 .. (Len(q) - 1)
    BY <2>1
  <2>5. /\ store[k].inc <= q[Len(q)].inc /\ q[Len(q)].inc <= lastInc[k]
        /\ \A l \in 1 .. (Len(q) - 1) : q[l].inc <= q[Len(q)].inc
    BY <2>1 DEF OrderOf, Ordered
  <2> QED
    BY <2>1, <2>2, <2>3, <2>4, <2>5
<1> QED
  BY <1>2, <1>3

\* What the API server's object is, what the store is and what is queued between
\* them follow each other, also after a relist.
LEMMA OrderKept == TypeOK /\ OrderInv /\ [Next]_vars => OrderInv'
<1> SUFFICES ASSUME TypeOK, OrderInv, [Next]_vars, NEW k \in Pods PROVE OrderOf(k)'
  BY DEF OrderInv
<1> DEFINE q == queue[k]
           lo == store[k].inc
           hi == lastInc[k]
           cur == api[k].inc
<1>1. /\ q \in Seq(Event) /\ lo \in Nat /\ hi \in Nat /\ cur \in Nat
      /\ lastInc'[k] \in Nat /\ api'[k].inc \in Nat
      /\ api[k] \in PodObj /\ api'[k] \in PodObj
  BY StepTypes DEF TypeOK, PodObj
<1>2. lo <= hi /\ cur \in {0, hi} /\ Ordered(q, lo, hi, cur)
  BY DEF OrderInv, OrderOf
<1>3. \A j \in 1 .. Len(q) : /\ q[j].inc \in Nat /\ q[j].inc # 0 /\ q[j].inc <= hi
                             /\ q[j].kind # "put" => q[j].inc # cur
  BY <1>1, <1>2, EventNumbers DEF Ordered
<1>4. FeedStep(k)
  BY Feeds
<1>5. CASE FeedSame(k)
  BY <1>2, <1>5 DEF FeedSame, ApiSame, StoreSame, OrderOf
<1>6. ASSUME NEW kind \in {"put", "del"}, NEW o \in PodObj, o.inc = lastInc'[k], o.inc # 0, hi <= o.inc,
             kind # "put" => api'[k].inc = 0,
             kind = "put" => api'[k].inc = o.inc /\ (cur = o.inc \/ hi # o.inc),
             StoreSame(k), Sent(k, Ev(kind, o))
      PROVE  OrderOf(k)'
  <2>1. Ev(kind, o) \in Event /\ Ev(kind, o).inc = o.inc /\ Ev(kind, o).kind = kind
    BY <1>6, EventTypes DEF Ev
  <2>2. \A j \in 1 .. Len(q) : /\ q[j].inc <= o.inc
                               /\ q[j].kind # "put" => q[j].inc # api'[k].inc
                               /\ q[j].kind # "put" /\ kind = "put" => q[j].inc # o.inc
    BY <1>1, <1>3, <1>6
  <2>3. lo <= o.inc /\ o.inc <= lastInc'[k] /\ hi <= lastInc'[k] /\ (kind # "put" => o.inc # api'[k].inc)
    BY <1>1, <1>2, <1>6
  <2>4. Ordered(Append(q, Ev(kind, o)), lo, lastInc'[k], api'[k].inc)
    BY <1>1, <1>2, <1>6, <2>1, <2>2, <2>3, OrderAppend
  <2>5. Ordered(q, lo, lastInc'[k], api'[k].inc)
    BY <1>1, <1>2, <1>3, <2>2, <2>3 DEF Ordered
  <2> QED
    BY <1>6, <2>3, <2>4, <2>5 DEF OrderOf, StoreSame, Sent
<1>7. CASE Created(k)
  BY <1>1, <1>6, <1>7 DEF Created
<1>8. CASE Marked(k)
  BY <1>1, <1>2, <1>6, <1>8 DEF Marked
<1>9. CASE Deleted(k)
  BY <1>1, <1>2, <1>6, <1>9 DEF Deleted, NoPod
<1>10. CASE Relisted(k)
  <2>0. ApiSame(k) /\ StoreSame(k)
    BY <1>10 DEF Relisted
  <2>1. CASE queue'[k] = queue[k]
    BY <1>2, <2>0, <2>1 DEF ApiSame, StoreSame, OrderOf
  <2>2. CASE queue'[k] = Append(queue[k], Ev("put", api[k])) /\ api[k].inc # 0
    BY <1>1, <1>2, <1>6, <1>10, <2>0, <2>2 DEF Sent, Relisted, ApiSame, StoreSame
  <2>3. CASE /\ queue'[k] = Append(queue[k], Ev("tomb", [inc |-> Known(k), del |-> FALSE]))
             /\ api[k].inc = 0 /\ Known(k) # 0
    <3> DEFINE e == Ev("tomb", [inc |-> Known(k), del |-> FALSE])
    <3>1. e \in Event /\ e.inc = Known(k) /\ e.kind = "tomb" /\ Known(k) \in Nat
      BY KnownTypes, EventTypes DEF Ev, PodObj
    <3>2. OrderOf(k)
      BY DEF OrderInv
    <3>3. /\ store[k].inc <= Known(k) /\ Known(k) <= lastInc[k]
          /\ \A j \in 1 .. Len(queue[k]) : queue[k][j].inc <= Known(k)
      BY <2>3, <3>2, KnownOrder
    <3> HIDE DEF e
    <3>a. /\ e.inc # 0 /\ lo <= e.inc /\ e.inc <= hi /\ hi <= hi /\ (e.kind # "put" => e.inc # cur)
          /\ \A j \in 1 .. Len(q) : /\ q[j].inc <= e.inc
                                    /\ q[j].kind # "put" => q[j].inc # cur
                                    /\ q[j].kind # "put" /\ e.kind = "put" => q[j].inc # e.inc
      BY <1>1, <1>3, <2>3, <3>1, <3>3
    <3>4. Ordered(Append(q, e), lo, hi, cur)
      BY <1>1, <1>2, <3>1, <3>a, OrderAppend
    <3> QED
      BY <1>2, <2>0, <2>3, <3>4 DEF ApiSame, StoreSame, OrderOf, e
  <2> QED
    BY <1>10, <2>1, <2>2, <2>3 DEF Relisted
<1>11. CASE Popped(k)
  <2>1. Ordered(Tail(q), After(Head(q)), hi, cur)
    BY <1>1, <1>2, <1>11, OrderTail DEF Popped
  <2>2. 1 \in 1 .. Len(q) /\ Head(q) = q[1]
    BY <1>1, <1>11, Tailed DEF Popped
  <2>3. After(Head(q)) <= hi
    BY <1>1, <1>3, <2>2 DEF After
  <2> QED
    BY <1>2, <1>11, <2>1, <2>3 DEF Popped, ApiSame, OrderOf
<1>12. CASE Emptied(k)
  BY <1>1, <1>2, <1>12 DEF Emptied, ApiSame, OrderOf, Ordered, NoPod
<1> QED
  BY <1>4, <1>5, <1>7, <1>8, <1>9, <1>10, <1>11, <1>12 DEF FeedStep
-----------------------------------------------------------------------------
(* Starts under restartPolicy Never.                                       *)

\* Incarnation n of k may still come to onAdd in this process.
Queued(q, n) == \E j \in 1 .. Len(q) : q[j].kind = "put" /\ q[j].inc = n
Fresh(k, n) == store[k].inc # n /\ (Queued(queue[k], n) \/ api[k].inc = n \/ lastInc[k] < n)

\* Only a new process counts as a crash.
LEMMA CrashCount ==
  ASSUME TypeOK, [Next]_vars
  PROVE  faults'.crashes \in {faults.crashes, faults.crashes + 1}
<1>0. faults \in FaultCount
  BY DEF TypeOK, FaultCount
<1>1. ASSUME NEW o, Charge(o) PROVE faults'.crashes = faults.crashes
  BY <1>0, <1>1 DEF Charge, FaultCount
<1>2. CASE KubeletRestart
  BY <1>0, <1>2 DEF KubeletRestart, FaultCount
<1>3. CASE WatchLost
  BY <1>0, <1>3 DEF WatchLost, FaultCount
<1>4. CASE Handler \/ (\E i \in Mains : CleanStep(i)) \/ PeriodicStep
  <2>1. UNCHANGED faults \/ \E o : Charge(o)
    BY <1>4 DEF Handler, AddInspect, Reconcile, InitRm, InitRun, InitWait, InitRm2, MainRm, MainRun, Register,
                CleanDone, ApiDelete, CleanStep, CleanStop, CleanKill, CleanWait, CleanRemove, CleanRetry, CleanCall,
                PeriodicStep, Pick, InspectStatus, Act, ActRunning, ActOther, LivenessKill, RestartRm, RestartRun,
                OnInit, OnMain, OnClean, OnPeriodic
  <2> QED
    BY <1>1, <2>1, <1>2
<1>5. CASE Api \/ Relist \/ (\E k \in Pods : Pop(k) \/ Redeliver(k)) \/ Tick \/ Workload \/ UNCHANGED vars
  <2>1. UNCHANGED faults
    BY <1>5 DEF Api, ApiCreate, ApiMarkDeleted, ApiForceDelete, Relist, Pop, Redeliver, Tick, Workload, MainExit,
                InitExit, vars
  <2> QED
    BY <1>2, <2>1
<1> QED
  BY <1>2, <1>3, <1>4, <1>5 DEF Next, Feed

\* What is queued stays queued until it is handled, and only the API server's
\* object, or a new one, is queued.
LEMMA QueuedAppend ==
  ASSUME NEW q \in Seq(Event), NEW e \in Event, NEW n, Queued(Append(q, e), n)
  PROVE  Queued(q, n) \/ (e.kind = "put" /\ e.inc = n)
<1>1. /\ Len(Append(q, e)) = Len(q) + 1 /\ Len(q) \in Nat
      /\ \A j \in 1 .. Len(q) : Append(q, e)[j] = q[j]
      /\ Append(q, e)[Len(q) + 1] = e
  BY Appended
<1> QED
  BY <1>1 DEF Queued

\* An object that is still queued when the first event is taken is not the first.
LEMMA QueuedTail ==
  ASSUME NEW q \in Seq(Event), q # <<>>, NEW n, Queued(Tail(q), n)
  PROVE  \E j \in 2 .. Len(q) : q[j].kind = "put" /\ q[j].inc = n
<1>1. /\ Len(q) \in Nat \ {0} /\ Len(Tail(q)) = Len(q) - 1
      /\ \A j \in 1 .. Len(Tail(q)) : Tail(q)[j] = q[j + 1]
  BY Tailed
<1>2. PICK j \in 1 .. Len(Tail(q)) : Tail(q)[j].kind = "put" /\ Tail(q)[j].inc = n
  BY DEF Queued
<1>3. j + 1 \in 2 .. Len(q) /\ q[j + 1].kind = "put" /\ q[j + 1].inc = n
  BY <1>1, <1>2
<1> QED
  BY <1>3

\* An incarnation that onAdd has had does not come to it again in this process.
LEMMA FreshLost ==
  ASSUME TypeOK, OrderInv, [Next]_vars, NEW k \in Pods, NEW n \in Nat \ {0}, ~Fresh(k, n), Fresh(k, n)'
  PROVE  faults'.crashes = faults.crashes + 1
<1> DEFINE q == queue[k]
           cur == api[k].inc
<1>1. /\ q \in Seq(Event) /\ store[k].inc \in Nat /\ lastInc[k] \in Nat /\ cur \in Nat
      /\ lastInc'[k] \in Nat /\ api'[k].inc \in Nat
      /\ api[k] \in PodObj /\ api'[k] \in PodObj
  BY StepTypes DEF TypeOK, PodObj
<1>2. store[k].inc <= lastInc[k] /\ cur \in {0, lastInc[k]} /\ Ordered(q, store[k].inc, lastInc[k], cur)
  BY DEF OrderInv, OrderOf
<1>3. store'[k].inc # n /\ (Queued(queue'[k], n) \/ api'[k].inc = n \/ lastInc'[k] < n)
  BY DEF Fresh
<1>4. store[k].inc = n \/ ~(Queued(q, n) \/ cur = n \/ lastInc[k] < n)
  BY DEF Fresh
<1>5. FeedStep(k)
  BY Feeds
<1>6. CASE FeedSame(k)
  BY <1>3, <1>4, <1>6 DEF FeedSame, ApiSame, StoreSame
<1>7. ASSUME NEW e \in Event, StoreSame(k), queue'[k] \in {q, Append(q, e)}, e.kind = "put" => e.inc = api'[k].inc,
             lastInc[k] <= lastInc'[k], api'[k].inc = n => cur = n \/ lastInc[k] < n
      PROVE  FALSE
  <2>1. ~(Queued(q, n) \/ cur = n \/ lastInc[k] < n)
    BY <1>3, <1>4, <1>7 DEF StoreSame
  <2>a. Queued(Append(q, e), n) => e.kind = "put" /\ e.inc = n
    BY <1>1, <2>1, QueuedAppend
  <2>2. Queued(queue'[k], n) => e.kind = "put" /\ e.inc = n
    BY <1>7, <2>1, <2>a
  <2> QED
    BY <1>1, <1>3, <1>7, <2>1, <2>2
<1>8. CASE Created(k) \/ Marked(k)
  <2>1. Ev("put", api'[k]) \in Event /\ Ev("put", api'[k]).inc = api'[k].inc
    BY <1>1, EventTypes DEF Ev
  <2>2. lastInc[k] <= lastInc'[k] /\ (api'[k].inc = n => cur = n \/ lastInc[k] < n)
    BY <1>1, <1>8 DEF Created, Marked
  <2> QED
    BY <1>7, <1>8, <2>1, <2>2 DEF Created, Marked, Sent
<1>9. CASE Deleted(k)
  <2>1. Ev("del", api[k]) \in Event /\ Ev("del", api[k]).kind = "del"
    BY <1>1, EventTypes DEF Ev
  <2> QED
    BY <1>1, <1>7, <1>9, <2>1 DEF Deleted, Sent, NoPod
<1>10. CASE Relisted(k)
  <2>1. Ev("put", api[k]) \in Event /\ Ev("put", api[k]).inc = api[k].inc
    BY <1>1, EventTypes DEF Ev
  <2>2. Ev("tomb", [inc |-> Known(k), del |-> FALSE]) \in Event
        /\ Ev("tomb", [inc |-> Known(k), del |-> FALSE]).kind = "tomb"
    BY KnownTypes, EventTypes DEF Ev, PodObj
  <2> QED
    BY <1>1, <1>7, <1>10, <2>1, <2>2 DEF Relisted, ApiSame
<1>11. CASE Popped(k)
  <2>1. /\ Len(q) \in Nat \ {0} /\ Head(q) = q[1] /\ store'[k].inc = After(q[1])
        /\ api'[k].inc = cur /\ lastInc'[k] = lastInc[k]
    BY <1>1, <1>11, Tailed DEF Popped, ApiSame
  <2>2. Queued(queue'[k], n) => \E j \in 2 .. Len(q) : q[j].kind = "put" /\ q[j].inc = n
    BY <1>1, <1>11, QueuedTail DEF Popped
  <2>3. \A j \in 2 .. Len(q) : j \in 1 .. Len(q) /\ 1 \in 1 .. (j - 1)
    BY <2>1
  <2>4. Queued(queue'[k], n) => Queued(q, n)
    BY <2>2, <2>3 DEF Queued
  <2>5. store[k].inc = n
    BY <1>3, <1>4, <2>1, <2>4
  <2>6. /\ q[1].inc \in Nat /\ n <= q[1].inc /\ q[1].inc <= lastInc[k]
        /\ q[1].kind # "put" => q[1].inc # cur
    BY <1>1, <1>2, <2>1, <2>5, EventNumbers DEF Ordered
  <2>7. \A j \in 2 .. Len(q) : q[1].inc <= q[j].inc /\ (q[1].kind # "put" /\ q[j].kind = "put" => q[1].inc # q[j].inc)
    BY <1>2, <2>3 DEF Ordered
  <2>8. q[1].kind = "put" => q[1].inc # n
    BY <1>3, <2>1 DEF After
  <2>9. ~Queued(queue'[k], n)
    <3> SUFFICES ASSUME NEW j \in 2 .. Len(q), q[j].kind = "put", q[j].inc = n PROVE FALSE
      BY <2>2
    <3>1. q[1].inc = n
      BY <2>6, <2>7
    <3> QED
      BY <2>7, <2>8, <3>1
  <2> QED
    BY <1>1, <1>2, <1>3, <2>1, <2>5, <2>6, <2>8, <2>9
<1> QED
  BY <1>5, <1>6, <1>8, <1>9, <1>10, <1>11 DEF FeedStep

\* CreatePod runs container i, going on to the next or to the end.
RunsMain(k, i) ==
  /\ inf.pc = "mainRun" /\ inf.pod = k /\ inf.i = i
  /\ ctr'[k][i].inc = inf.inc
  /\ \A j \in Mains \ {i} : ctr'[k][j] = ctr[k][j]
  /\ inf'.pod = k /\ inf'.inc = inf.inc
  /\ inf'.pc = "register" \/ (inf'.pc = "mainRm" /\ inf'.i = i + 1)
  /\ UNCHANGED <<ictr, per, tracked, raced>>

\* A pass runs the container it is at.
Restarts(k, i) ==
  /\ per.pc = "restartRun" /\ per.pod = k /\ per.i = i
  /\ ctr'[k][i].inc = per.inc
  /\ \A j \in Mains \ {i} : ctr'[k][j] = ctr[k][j]
  /\ UNCHANGED <<ictr, inf, clean, tracked, raced>>

\* The tool starts a container only when it runs one.
LEMMA ToolStarts ==
  ASSUME NEW c \in Container, ~IsRunning(c), NEW o, IsRunning(o.c), NEW n \in Nat
  PROVE  /\ o \notin Stop(c) \cup Kill(c) \cup Remove(c)
         /\ o \in Run(c, n) => o.ok /\ o.c = Running(n)
<1>1. ~IsRunning(Gone) /\ ~IsRunning(Stopped(c)) /\ ~IsRunning([st |-> "failed", inc |-> n])
  BY DEF IsRunning, Gone, Stopped, Container
<1> QED
  BY <1>1 DEF Stop, Kill, Remove, Run, Done, Refused, Fault

\* Who starts a container.
LEMMA WhoStarts ==
  ASSUME TypeOK, [Next]_vars, NEW k \in Pods, NEW i \in Mains, Started(k, i)
  PROVE  RunsMain(k, i) \/ Restarts(k, i)
<1> USE DEF provVars, boxVars
<1>0. /\ ~IsRunning(ctr[k][i]) /\ IsRunning(ctr'[k][i]) /\ ctr[k][i] \in Container
      /\ inf \in Informer /\ per \in Periodic
  BY DEF Started, TypeOK
<1>c. ctr' # ctr
  BY <1>0
<1>n. \A n \in Nat : Running(n).inc = n
  BY DEF Running
<1>1. CASE MainRm \/ MainRun
  <2>0. inf.pod \in Pods /\ inf.i \in Mains /\ inf.inc \in Nat
    BY <1>0, <1>1 DEF MainRm, MainRun, TypeOK, AtWork, Informer
  <2>1. ASSUME NEW o, OnMain(o)
        PROVE  /\ inf.pod = k /\ inf.i = i /\ ctr'[k][i] = o.c /\ \A j \in Mains \ {i} : ctr'[k][j] = ctr[k][j]
    BY <1>0, <2>0, <2>1 DEF OnMain, TypeOK
  <2>2. CASE MainRm
    <3>1. PICK o \in Remove(ctr[inf.pod][inf.i]) : OnMain(o)
      BY <2>2 DEF MainRm
    <3>2. o \in Remove(ctr[k][i]) /\ IsRunning(o.c)
      BY <1>0, <2>1, <3>1
    <3> QED
      BY <1>0, <2>0, <3>2, ToolStarts
  <2>3. CASE MainRun
    <3>1. PICK o \in Run(ctr[inf.pod][inf.i], inf.inc) :
            OnMain(o) /\ (~o.ok \/ (inf.i < NMain /\ Continue("mainRm", inf.i + 1)) \/ Continue("register", 0))
      BY <2>3 DEF MainRun
    <3>2. /\ inf.pod = k /\ inf.i = i /\ ctr'[k][i] = o.c /\ \A j \in Mains \ {i} : ctr'[k][j] = ctr[k][j]
      BY <2>1, <3>1
    <3>3. o.ok /\ o.c = Running(inf.inc)
      BY <1>0, <2>0, <3>1, <3>2, ToolStarts
    <3>4. /\ inf'.pod = inf.pod /\ inf'.inc = inf.inc
          /\ inf'.pc = "register" \/ (inf'.pc = "mainRm" /\ inf'.i = inf.i + 1)
      BY <1>0, <3>1, <3>3 DEF Continue, Informer
    <3> QED
      BY <1>n, <2>0, <2>3, <3>2, <3>3, <3>4 DEF RunsMain, MainRun
  <2> QED
    BY <1>1, <2>2, <2>3
<1>2. CASE LivenessKill \/ RestartRm \/ RestartRun
  <2>0. per.pod \in Pods /\ per.i \in Mains /\ per.inc \in Nat
    BY <1>0, <1>2 DEF LivenessKill, RestartRm, RestartRun, TypeOK, AtWork, Periodic
  <2>1. ASSUME NEW o, OnPeriodic(o)
        PROVE  /\ per.pod = k /\ per.i = i /\ ctr'[k][i] = o.c /\ \A j \in Mains \ {i} : ctr'[k][j] = ctr[k][j]
    BY <1>0, <2>0, <2>1 DEF OnPeriodic, TypeOK
  <2>2. CASE LivenessKill \/ RestartRm
    <3>1. PICK o \in Kill(ctr[per.pod][per.i]) \cup Remove(ctr[per.pod][per.i]) : OnPeriodic(o)
      BY <2>2 DEF LivenessKill, RestartRm
    <3>2. o \in Kill(ctr[k][i]) \cup Remove(ctr[k][i]) /\ IsRunning(o.c)
      BY <1>0, <2>1, <3>1
    <3> QED
      BY <1>0, <2>0, <3>2, ToolStarts
  <2>3. CASE RestartRun
    <3>1. PICK o \in Run(ctr[per.pod][per.i], per.inc) : OnPeriodic(o)
      BY <2>3 DEF RestartRun
    <3>2. /\ per.pod = k /\ per.i = i /\ ctr'[k][i] = o.c /\ \A j \in Mains \ {i} : ctr'[k][j] = ctr[k][j]
      BY <2>1, <3>1
    <3>3. o.c = Running(per.inc)
      BY <1>0, <2>0, <3>1, <3>2, ToolStarts
    <3> QED
      BY <1>n, <2>0, <2>3, <3>2, <3>3 DEF Restarts, RestartRun
  <2> QED
    BY <1>2, <2>2, <2>3
<1>3. ASSUME NEW j \in Mains, CleanStep(j) PROVE FALSE
  <2>1. /\ inf.pod \in Pods
        /\ \A l \in Mains \ {j} : ctr'[inf.pod][l] = ctr[inf.pod][l]
        /\ \A q \in Pods \ {inf.pod} : ctr'[q] = ctr[q]
        /\ \E o : /\ ctr'[inf.pod][j] = o.c
                  /\ \/ o \in Stop(ctr[inf.pod][j]) \cup Kill(ctr[inf.pod][j]) \cup Remove(ctr[inf.pod][j])
                     \/ o.c = ctr[inf.pod][j]
    BY <1>3, CleanStepIs
  <2>2. k = inf.pod /\ i = j
    BY <1>0, <2>1
  <2>3. PICK o : /\ ctr'[k][i] = o.c
                 /\ o \in Stop(ctr[k][i]) \cup Kill(ctr[k][i]) \cup Remove(ctr[k][i]) \/ o.c = ctr[k][i]
    BY <2>1, <2>2
  <2> QED
    BY <1>0, <2>3, ToolStarts
<1>4. ~Workload
  <2>1. Workload => ctr'[k][i] = ctr[k][i] \/ Exits(k, i)
    <3>1. ctr \in [Pods -> [Mains -> Container]]
      BY DEF TypeOK
    <3> QED
      BY <3>1, ConstantsAssumption DEF Workload, MainExit, InitExit, Exits
  <2> QED
    BY <1>0, <2>1 DEF Exits
<1>5. CASE Handler /\ ~MainRm /\ ~MainRun
  BY <1>5, <1>c DEF Handler, AddInspect, Reconcile, InitRm, InitRun, InitWait, InitRm2, Register, CleanDone, ApiDelete
<1>6. CASE PeriodicStep /\ ~LivenessKill /\ ~RestartRm /\ ~RestartRun
  BY <1>6, <1>c DEF PeriodicStep, Pick, InspectStatus, Act
<1>7. CASE Api \/ Feed \/ Tick \/ KubeletRestart \/ UNCHANGED vars
  BY <1>7, <1>c DEF Api, ApiCreate, ApiMarkDeleted, ApiForceDelete, Feed, WatchLost, Relist, Pop, Redeliver, Tick,
                    KubeletRestart, vars
<1> QED
  BY <1>1, <1>2, <1>3, <1>4, <1>5, <1>6, <1>7 DEF Next

\* Under Never a pass works on no pod.
LEMMA NeverKept ==
  ASSUME TypeOK, Policy = "Never", per.pod = NoKey, [Next]_vars
  PROVE  per'.pod = NoKey
<1>1. per.pc \in {"idle", "pick"}
  BY DEF TypeOK, AtWork
<1>2. PerIdle.pod = NoKey /\ \A todo : [PerIdle EXCEPT !.pc = "pick", !.todo = todo].pod = NoKey
  BY DEF PerIdle
<1>3. CASE Tick \/ PeriodicStep
  <2>1. ~InspectStatus /\ ~Act /\ ~LivenessKill /\ ~RestartRm /\ ~RestartRun
    BY <1>1 DEF InspectStatus, Act, LivenessKill, RestartRm, RestartRun
  <2>2. Tick \/ \E k \in Pods : Pick(k)
    BY <1>3, <2>1 DEF PeriodicStep
  <2> QED
    BY <1>2, <2>2 DEF Tick, Pick, NextPod
<1>4. CASE KubeletRestart
  BY <1>2, <1>4 DEF KubeletRestart
<1>5. CASE Handler \/ (\E i \in Mains : CleanStep(i))
  <2>1. per' = per
    BY <1>5 DEF Handler, AddInspect, Reconcile, InitRm, InitRun, InitWait, InitRm2, MainRm, MainRun, Register,
                CleanDone, ApiDelete, CleanStep, CleanStop, CleanKill, CleanWait, CleanRemove, CleanRetry, CleanCall
  <2> QED
    BY <2>1
<1>6. CASE Api \/ Feed \/ Workload \/ UNCHANGED vars
  <2>1. per' = per
    BY <1>6 DEF Api, ApiCreate, ApiMarkDeleted, ApiForceDelete, Feed, WatchLost, Relist, Pop, Redeliver, Workload,
                MainExit, InitExit, vars
  <2> QED
    BY <2>1
<1> QED
  BY <1>3, <1>4, <1>5, <1>6 DEF Next

\* A creation of incarnation n of k is under way and has not run container i.
ToRun(k, n, i) ==
  /\ inf.pod = k /\ inf.inc = n
  /\ inf.pc \in Creating \ {"register"}
  /\ inf.pc \in {"mainRm", "mainRun"} => inf.i <= i

\* A creation does not go back, and begins with an object that onAdd has not had.
LEMMA ToRunBegins ==
  ASSUME TypeOK, PutsInv, [Next]_vars, NEW k \in Pods, NEW n \in Nat \ {0}, NEW i \in Mains,
         ~ToRun(k, n, i), ToRun(k, n, i)'
  PROVE  Fresh(k, n)
<1>0. inf \in Informer /\ i \in Nat /\ k # NoKey
  BY ConstantsAssumption DEF TypeOK, Mains
<1>1. /\ inf'.pod = k /\ inf'.inc = n /\ inf'.pc \in Creating /\ inf'.pc # "register"
      /\ inf'.pc \in {"mainRm", "mainRun"} => inf'.i <= i
  BY DEF ToRun
<1>2. inf' # inf /\ inf' # InfIdle
  BY <1>0, <1>1 DEF ToRun, InfIdle
<1>3. ASSUME NEW q \in Pods, Pop(q) \/ Redeliver(q) PROVE Fresh(k, n)
  <2>1. Starts(q) /\ inf.pc = "idle"
    BY <1>3, PopStarts, RedeliverStarts DEF Pop, Redeliver
  <2>2. /\ inf' = [pc |-> "addInspect", pod |-> q, inc |-> store'[q].inc, i |-> 1, then |-> "none"]
        /\ store[q].inc = 0 /\ queue[q] # <<>> /\ Head(queue[q]).kind = "put" /\ Head(queue[q]).inc = store'[q].inc
    BY <1>1, <1>2, <2>1 DEF Starts, Creating
  <2>3. q = k /\ store'[q].inc = n
    BY <1>1, <2>2
  <2>4. 1 \in 1 .. Len(queue[k]) /\ queue[k][1] = Head(queue[k])
    <3>1. queue[k] \in Seq(Event)
      BY DEF TypeOK
    <3> QED
      BY <2>2, <2>3, <3>1, Tailed
  <2>5. Queued(queue[k], n)
    BY <2>2, <2>3, <2>4 DEF Queued
  <2> QED
    BY <2>2, <2>3, <2>5 DEF Fresh
<1>4. CASE GoesOn
  <2>1. inf.pod = k /\ inf.inc = n /\ inf.pc \in Creating
    BY <1>1, <1>2, <1>4 DEF GoesOn
  <2>2. inf.pc \in {"register", "mainRm", "mainRun"} /\ inf.i \in Nat
    BY <1>0, <2>1 DEF ToRun, Informer
  <2>3. ~Register /\ ~KubeletRestart
    BY <1>2 DEF Register, KubeletRestart
  <2>4. ~Elsewhere /\ \A j \in Mains : ~CleanStep(j)
    BY <1>2, ElsewhereStays, CleanStepIs
  <2>5. \A q \in Pods : ~Pop(q) /\ ~Redeliver(q)
    BY <2>2 DEF Pop, Redeliver
  <2>6. MainRm \/ MainRun
    <3>1. Handler
      BY <2>3, <2>4, <2>5, Steps
    <3> QED
      BY <2>2, <2>3, <3>1 DEF Handler, AddInspect, Reconcile, InitRm, InitRun, InitWait, InitRm2, CleanDone, ApiDelete
  <2>7. ~CreateFailed
    BY <1>1 DEF CreateFailed, StartCleanup, Creating
  <2>8. \E j \in {inf.i, inf.i + 1} : Continue("mainRun", j) \/ Continue("mainRm", j) \/ Continue("register", 0)
    BY <2>6, <2>7 DEF MainRm, MainRun
  <2>9. inf.i <= i
    <3>1. \A pc, j : Continue(pc, j) => inf'.pc = pc /\ inf'.i = j
      BY <1>0 DEF Continue, Informer
    <3>2. PICK j \in {inf.i, inf.i + 1} : Continue("mainRun", j) \/ Continue("mainRm", j)
      BY <1>1, <2>8, <3>1
    <3>3. j <= i
      BY <1>1, <3>1, <3>2
    <3> QED
      BY <1>0, <2>2, <3>3
  <2>10. inf.pc \in {"mainRm", "mainRun"}
    BY <2>6 DEF MainRm, MainRun
  <2> QED
    BY <2>1, <2>9, <2>10 DEF ToRun
<1> QED
  BY <1>3, <1>4, Goes

\* Every start of a container of an incarnation, but for the first in a life of
\* the process, is paid for by a crash; and while the incarnation may still come,
\* or its creation has not run the container, the first is not yet used.
StartsType == starts \in [Pods -> [1 .. MaxInc -> [Mains -> Nat]]]
Spent(k, n, i) == IF Fresh(k, n) \/ ToRun(k, n, i) THEN 0 ELSE 1
StartsInv ==
  Policy = "Never" =>
    /\ per.pod = NoKey
    /\ \A k \in Pods, n \in 1 .. MaxInc, i \in Mains : starts[k][n][i] <= faults.crashes + Spent(k, n, i)

\* Starts are counted, before and after a step.
LEMMA StartsNumbers ==
  ASSUME NEW f, f \in [Pods -> [1 .. MaxInc -> [Mains -> Nat]]], NEW k \in Pods, NEW n \in 1 .. MaxInc, NEW i \in Mains
  PROVE  f[k][n][i] \in Nat /\ f[k][n][i] + 1 \in Nat
<1>1. f[k] \in [1 .. MaxInc -> [Mains -> Nat]]
  OBVIOUS
<1>2. f[k][n] \in [Mains -> Nat]
  BY <1>1
<1> QED
  BY <1>2

\* A step counts in numbers.
LEMMA StartsTypeKept == StartsType /\ Record => StartsType'
<1> SUFFICES ASSUME StartsType, Record PROVE StartsType'
  OBVIOUS
<1>1. \A k \in Pods, n \in 1 .. MaxInc, i \in Mains : starts[k][n][i] \in Nat /\ starts[k][n][i] + 1 \in Nat
  BY StartsNumbers DEF StartsType
<1> QED
  BY <1>1 DEF Record, StartsType

\* A start uses up the one that its incarnation has in this life of the process.
LEMMA StartsKept ==
  LifeInv /\ OrderInv /\ StartsType /\ StartsInv /\ [Next]_vars /\ Record => StartsInv'
<1> SUFFICES ASSUME LifeInv, OrderInv, StartsType, StartsInv, [Next]_vars, Record, Policy = "Never"
             PROVE  /\ per'.pod = NoKey
                    /\ \A k \in Pods, n \in 1 .. MaxInc, i \in Mains :
                         starts'[k][n][i] <= faults'.crashes + Spent(k, n, i)'
  BY DEF StartsInv
<1>0. TypeOK /\ PutsInv /\ TrackInv
  BY DEF LifeInv, DeleteInv
<1>1. per'.pod = NoKey
  BY <1>0, NeverKept DEF StartsInv
<1>2. ASSUME NEW k \in Pods, NEW n \in 1 .. MaxInc, NEW i \in Mains
      PROVE  starts'[k][n][i] <= faults'.crashes + Spent(k, n, i)'
  <2>1. /\ faults.crashes \in Nat /\ faults'.crashes \in {faults.crashes, faults.crashes + 1}
        /\ starts[k][n][i] \in Nat /\ n \in Nat \ {0}
    <3>1. faults \in FaultCount
      BY <1>0 DEF TypeOK, FaultCount
    <3> QED
      BY <1>0, <3>1, CrashCount, StartsNumbers DEF FaultCount, StartsType
  <2>2. starts[k][n][i] <= faults.crashes + Spent(k, n, i)
    BY DEF StartsInv
  <2>3. Fresh(k, n)' => Fresh(k, n) \/ faults'.crashes = faults.crashes + 1
    BY <1>0, <2>1, FreshLost
  <2>4. ToRun(k, n, i)' => ToRun(k, n, i) \/ Fresh(k, n)
    BY <1>0, <2>1, ToRunBegins
  <2>5. Spent(k, n, i) \in {0, 1} /\ Spent(k, n, i)' \in {0, 1}
    BY DEF Spent
  <2>6. CASE Started(k, i) /\ ctr'[k][i].inc = n
    <3>1. RunsMain(k, i)
      <4>1. ~Restarts(k, i)
        BY ConstantsAssumption DEF Restarts, StartsInv
      <4> QED
        BY <1>0, <2>6, <4>1, WhoStarts
    <3>2. inf.pod = k /\ inf.inc = n /\ inf.pc = "mainRun" /\ inf.i = i /\ i \in Nat
      BY <2>6, <3>1, ConstantsAssumption DEF RunsMain, Mains
    <3>3. ToRun(k, n, i)
      BY <3>2 DEF ToRun, Creating
    <3>4. ~ToRun(k, n, i)'
      BY <3>1, <3>2 DEF ToRun, RunsMain
    <3>5. store[k].inc = n
      BY <1>0, <3>2 DEF TrackInv, CreatingInv, Creating
    <3>6. Fresh(k, n)' => faults'.crashes = faults.crashes + 1
      BY <2>3, <3>5 DEF Fresh
    <3>7. starts'[k][n][i] <= starts[k][n][i] + 1
      <4>1. starts'[k][n][i] \in {starts[k][n][i], starts[k][n][i] + 1}
        BY DEF Record
      <4> QED
        BY <2>1, <4>1
    <3>8. starts[k][n][i] <= faults.crashes
      BY <2>1, <2>2, <3>3 DEF Spent
    <3>9. starts'[k][n][i] \in Nat
      BY StartsTypeKept, StartsNumbers DEF StartsType
    <3>10. Spent(k, n, i)' = 1 \/ faults'.crashes = faults.crashes + 1
      BY <3>4, <3>6 DEF Spent
    <3> QED
      BY <2>1, <2>5, <3>7, <3>8, <3>9, <3>10
  <2>7. CASE ~(Started(k, i) /\ ctr'[k][i].inc = n)
    <3>1. starts'[k][n][i] = starts[k][n][i]
      BY <2>7 DEF Record
    <3>2. Spent(k, n, i)' = 1 \/ Spent(k, n, i) = 0 \/ faults'.crashes = faults.crashes + 1
      BY <2>3, <2>4 DEF Spent
    <3> QED
      BY <2>1, <2>2, <2>5, <3>1, <3>2
  <2> QED
    BY <2>6, <2>7
<1> QED
  BY <1>1, <1>2

HistInv == LifeInv /\ OrderInv /\ StartsType /\ StartsInv

\* Nothing has started at first.
LEMMA HistInvInit == HistoryInit => HistInv
<1> SUFFICES ASSUME HistoryInit PROVE HistInv
  OBVIOUS
<1>1. LifeInv /\ TypeOK
  BY LifeInvInit, InitTypes DEF HistoryInit
<1>2. OrderInv
  BY DEF HistoryInit, Init, OrderInv, OrderOf, Ordered, NoPod
<1>3. StartsType
  BY DEF HistoryInit, StartsType
<1>4. StartsInv
  <2>1. \A k \in Pods, n \in 1 .. MaxInc, i \in Mains : starts[k][n][i] = 0 /\ Spent(k, n, i) \in {0, 1}
    BY DEF HistoryInit, Spent
  <2>2. faults.crashes = 0 /\ per.pod = NoKey
    BY DEF HistoryInit, Init, PerIdle
  <2> QED
    BY <2>1, <2>2 DEF StartsInv
<1> QED
  BY <1>1, <1>2, <1>3, <1>4 DEF HistInv

\* A step of the history is a step of the lifecycle, recorded, or none.
LEMMA HistorySteps ==
  ASSUME [HistoryNext]_<<vars, historyVars>>
  PROVE  [Next]_vars /\ (Record \/ (UNCHANGED vars /\ UNCHANGED historyVars))
BY DEF HistoryNext

\* Every step keeps the count of starts within what was crashed.
LEMMA HistInvStep == HistInv /\ [HistoryNext]_<<vars, historyVars>> => HistInv'
<1> SUFFICES ASSUME HistInv, [HistoryNext]_<<vars, historyVars>> PROVE HistInv'
  OBVIOUS
<1>0. LifeInv /\ OrderInv /\ StartsType /\ StartsInv /\ TypeOK
  BY DEF HistInv, LifeInv, DeleteInv
<1>1. [Next]_vars
  BY HistorySteps
<1>2. LifeInv' /\ OrderInv'
  BY <1>0, <1>1, LifeInvStep, OrderKept
<1>3. CASE Record
  BY <1>0, <1>1, <1>2, <1>3, StartsTypeKept, StartsKept DEF HistInv
<1>4. CASE UNCHANGED vars /\ UNCHANGED historyVars
  <2>1. StartsType'
    BY <1>0, <1>4 DEF StartsType, historyVars
  <2>2. StartsInv'
    BY <1>0, <1>4 DEF StartsInv, Spent, Fresh, ToRun, Queued, historyVars, vars, apiVars, feedVars
  <2> QED
    BY <1>2, <2>1, <2>2 DEF HistInv
<1> QED
  BY <1>3, <1>4, HistorySteps

\* Under restartPolicy Never a container of a pod is started at most once in a
\* life of the kubelet process, for any number of pods, incarnations and
\* containers, and through any number of failing calls, lost watches and crashes.
THEOREM StartsBoundedAlways == HistorySpec => []StartsBounded
<1>1. HistInv => StartsBounded
  <2> SUFFICES ASSUME HistInv, Policy = "Never", NEW k \in Pods, NEW n \in 1 .. MaxInc, NEW i \in Mains
               PROVE  starts[k][n][i] <= 1 + faults.crashes
    BY DEF StartsBounded
  <2>1. starts[k][n][i] <= faults.crashes + Spent(k, n, i) /\ Spent(k, n, i) \in {0, 1}
    BY DEF HistInv, StartsInv, Spent
  <2>2. starts[k][n][i] \in Nat /\ faults.crashes \in Nat
    BY StartsNumbers DEF HistInv, LifeInv, DeleteInv, TypeOK, StartsType
  <2> QED
    BY <2>1, <2>2
<1> QED
  BY <1>1, HistInvInit, HistInvStep, PTL DEF HistorySpec

-----------------------------------------------------------------------------
(* Who starts an init container.                                           *)

\* CreatePod runs init container j and waits for it.
RunsInit(k, j) ==
  /\ inf.pc = "initRun" /\ inf.pod = k /\ inf.i = j
  /\ ictr'[k][j].inc = inf.inc
  /\ inf'.pod = k /\ inf'.inc = inf.inc /\ inf'.pc = "initWait" /\ inf'.i = j
  /\ UNCHANGED <<ctr, per, tracked, raced>>

\* Init container j of k exits,
InitExits(k, j) == IsRunning(ictr[k][j]) /\ \E e \in Exited : ictr'[k][j] = [ictr[k][j] EXCEPT !.st = e]

\* or CreatePod calls the tool for it.
InitCall(k, j) ==
  /\ inf.pod = k /\ inf.i = j
  /\ \E o : /\ Charge(o) /\ ictr'[k][j] = o.c
            /\ \/ (InitRm \/ InitRm2) /\ o \in Remove(ictr[k][j])
               \/ InitRun /\ o \in Run(ictr[k][j], inf.inc) /\ (o.ok => Continue("initWait", j)) /\ (~o.ok => CreateFailed)

\* Nothing else happens to it.
LEMMA InitBoxes ==
  ASSUME TypeOK, [Next]_vars, NEW k \in Pods, NEW j \in Inits
  PROVE  ictr'[k][j] = ictr[k][j] \/ InitExits(k, j) \/ InitCall(k, j)
<1> USE DEF provVars, boxVars
<1>0. ictr \in [Pods -> [Inits -> Container]] /\ inf \in Informer
  BY DEF TypeOK
<1>1. CASE InitRm \/ InitRun \/ InitRm2
  <2>0. inf.pod \in Pods /\ inf.i \in Inits
    BY <1>0, <1>1 DEF InitRm, InitRun, InitRm2, TypeOK, AtWork, Informer
  <2>1. ASSUME NEW o, OnInit(o), k = inf.pod /\ j = inf.i
        PROVE  Charge(o) /\ ictr'[k][j] = o.c
    BY <1>0, <2>0, <2>1 DEF OnInit
  <2>2. ASSUME NEW o, OnInit(o), ~(k = inf.pod /\ j = inf.i)
        PROVE  ictr'[k][j] = ictr[k][j]
    BY <1>0, <2>0, <2>2 DEF OnInit
  <2>3. CASE InitRm \/ InitRm2
    <3>1. PICK o \in Remove(ictr[inf.pod][inf.i]) : OnInit(o)
      BY <2>3 DEF InitRm, InitRm2
    <3> QED
      BY <2>1, <2>2, <2>3, <3>1 DEF InitCall
  <2>4. CASE InitRun
    <3>1. PICK o \in Run(ictr[inf.pod][inf.i], inf.inc) :
            OnInit(o) /\ (o.ok => Continue("initWait", inf.i)) /\ (~o.ok => CreateFailed)
      BY <2>4 DEF InitRun
    <3> QED
      BY <2>1, <2>2, <2>4, <3>1 DEF InitCall
  <2> QED
    BY <1>1, <2>3, <2>4
<1>2. CASE Workload
  BY <1>0, <1>2, ConstantsAssumption DEF Workload, MainExit, InitExit, InitExits
<1>3. CASE Handler /\ ~(InitRm \/ InitRun \/ InitRm2)
  <2>1. ictr' = ictr
    BY <1>3 DEF Handler, AddInspect, Reconcile, InitWait, MainRm, MainRun, Register, CleanDone, ApiDelete
  <2> QED
    BY <2>1
<1>4. CASE (\E i \in Mains : CleanStep(i)) \/ Tick \/ PeriodicStep
  <2>1. ictr' = ictr
    BY <1>4 DEF CleanStep, CleanStop, CleanKill, CleanWait, CleanRemove, CleanRetry, CleanCall, Tick, PeriodicStep,
                Pick, InspectStatus, Act, LivenessKill, RestartRm, RestartRun
  <2> QED
    BY <2>1
<1>5. CASE Api \/ Feed \/ KubeletRestart \/ UNCHANGED vars
  <2>1. ictr' = ictr
    BY <1>5 DEF Api, ApiCreate, ApiMarkDeleted, ApiForceDelete, Feed, WatchLost, Relist, Pop, Redeliver,
                KubeletRestart, vars
  <2> QED
    BY <2>1
<1> QED
  BY <1>1, <1>2, <1>3, <1>4, <1>5 DEF Next

\* Only CreatePod starts an init container.
LEMMA WhoStartsInit ==
  ASSUME TypeOK, [Next]_vars, NEW k \in Pods, NEW j \in Inits, InitStarted(k, j)
  PROVE  RunsInit(k, j)
<1> USE DEF provVars
<1>0. ~IsRunning(ictr[k][j]) /\ IsRunning(ictr'[k][j]) /\ ictr[k][j] \in Container /\ inf \in Informer
  BY DEF InitStarted, TypeOK
<1>1. InitCall(k, j)
  BY <1>0, InitBoxes DEF InitExits
<1>2. PICK o : /\ Charge(o) /\ ictr'[k][j] = o.c
               /\ \/ (InitRm \/ InitRm2) /\ o \in Remove(ictr[k][j])
                  \/ /\ InitRun /\ o \in Run(ictr[k][j], inf.inc)
                     /\ (o.ok => Continue("initWait", j)) /\ (~o.ok => CreateFailed)
  BY <1>1 DEF InitCall
<1>3. inf.inc \in Nat
  BY <1>0 DEF Informer
<1>4. InitRun /\ o.ok /\ o.c = Running(inf.inc)
  BY <1>0, <1>2, <1>3, ToolStarts
<1>5. ASSUME Continue("initWait", j)
      PROVE  inf'.pod = inf.pod /\ inf'.inc = inf.inc /\ inf'.pc = "initWait" /\ inf'.i = j
  BY <1>0, <1>5 DEF Continue, Informer
<1>6. ~InitRm /\ ~InitRm2
  BY <1>4 DEF InitRm, InitRun, InitRm2
<1>7. Continue("initWait", j)
  BY <1>2, <1>4, <1>6
<1> QED
  BY <1>1, <1>2, <1>4, <1>5, <1>7 DEF RunsInit, InitCall, InitRun, Running

-----------------------------------------------------------------------------
(* The files of an emptyDir.                                               *)

NoStop == faults.crashes + faults.losses = 0

\* What starts with the volumes of a pod is of the incarnation that is created, or
\* of the one the pass has.
LEMMA Mounts ==
  ASSUME TypeOK, [Next]_vars, NEW k \in Pods, NEW n \in Mounting(k)
  PROVE  \/ /\ inf.pc \in {"initRun", "mainRun"} /\ inf.pod = k /\ inf.inc = n
            /\ inf'.pod = k /\ inf'.inc = n /\ inf'.pc \in {"initWait", "mainRm", "register"}
            /\ UNCHANGED <<tracked, raced>>
         \/ per.pod = k /\ per.inc = n /\ UNCHANGED <<inf, tracked, raced>>
<1>1. CASE \E i \in Mains : Started(k, i) /\ n = ctr'[k][i].inc
  BY <1>1, WhoStarts DEF RunsMain, Restarts
<1>2. CASE \E j \in Inits : InitStarted(k, j) /\ n = ictr'[k][j].inc
  BY <1>2, WhoStartsInit DEF RunsInit
<1> QED
  BY <1>1, <1>2 DEF Mounting

\* The directory of a pod holds files of no incarnation but the one that is
\* tracked, or that is being created, once the deletion of its predecessor is done.
DirOf(k) ==
  /\ inf.pod # k => dirs[k] \subseteq {tracked[k]} \ {0}
  /\ inf.pod = k /\ inf.pc \in Creating =>
       /\ dirs[k] \subseteq {inf.inc}
       /\ inf.pc \in {"addInspect", "reconcile"} => dirs[k] = {}
  /\ inf.pod = k /\ inf.pc = "apiDelete" => dirs[k] = {}
DirsInv == NoStop => \A k \in Pods : ~raced[k] => DirOf(k)

\* A race is not forgotten.
LEMMA RacedKept ==
  ASSUME TypeOK, PutsInv, [Next]_vars, NEW k \in Pods, ~raced'[k]
  PROVE  ~raced[k]
<1>1. OwnStep(k) /\ raced[k] \in BOOLEAN
  BY Owns DEF TypeOK
<1> QED
  BY <1>1 DEF OwnStep, OwnSame

\* What has not stopped or lost its watch had not before.
LEMMA NoStopKept ==
  ASSUME TypeOK, [Next]_vars, NoStop'
  PROVE  NoStop /\ faults.losses = 0 /\ faults'.crashes + faults'.losses = 0 /\ ~KubeletRestart
         /\ faults'.crashes = faults.crashes
<1>1. faults \in FaultCount /\ faults' \in FaultCount
  BY StepTypes DEF TypeOK, FaultCount
<1>2. faults'.crashes = 0 /\ faults'.losses = 0 /\ faults.crashes = 0 /\ faults.losses = 0
  BY <1>1, FaultsKept DEF FaultCount, NoStop
<1>3. KubeletRestart => faults'.crashes # 0
  BY <1>1 DEF KubeletRestart, FaultCount
<1> QED
  BY <1>2, <1>3 DEF NoStop

\* A pod that a pass has is not the one the informer's goroutine is at.
LEMMA HeldElsewhere ==
  ASSUME TrackInv, RaceInv, HeldInv, NoStop, NEW k \in Pods, ~raced[k], Holds(k)
  PROVE  inf.pod # k /\ tracked[k] # 0 /\ (per.pod = k => per.inc = tracked[k])
<1>1. faults.losses = 0
  BY DEF NoStop, TrackInv, TypeOK
<1>2. tracked[k] # 0
  BY DEF RaceInv
<1>3. tracked[k] \in IF inf.pod = k THEN {0} ELSE {0, store[k].inc}
  BY <1>1 DEF TrackInv, TrackedIsStored
<1> QED
  BY <1>2, <1>3 DEF HeldInv, NoStop

\* A step of a handler that starts nothing.
LEMMA HandlerDirs ==
  ASSUME TypeOK, TrackInv, CreatedInv, Handler, NEW k \in Pods, DirOf(k), dirs'[k] = dirs[k],
         inf.pc # "clean"
  PROVE  DirOf(k)'
<1> USE DEF provVars
<1>0. inf \in Informer /\ tracked \in [Pods -> Nat] /\ k # NoKey
  BY ConstantsAssumption DEF TypeOK
<1>1. ASSUME NEW pc, NEW i, Continue(pc, i) PROVE inf'.pod = inf.pod /\ inf'.inc = inf.inc /\ inf'.pc = pc
  BY <1>0, <1>1 DEF Continue, Informer
<1>2. CreateFailed => inf'.pod = inf.pod /\ inf'.pc = "clean"
  BY DEF CreateFailed, StartCleanup
<1>3. \A i : CreateFrom(i) => inf'.pod = inf.pod /\ inf'.inc = inf.inc /\ inf'.pc \in {"initRm", "mainRm"}
  BY <1>1 DEF CreateFrom
<1>4. ~CleanDone
  BY DEF CleanDone
<1>5. CASE Register
  <2>1. inf.pc = "register" /\ inf.pod \in Pods /\ inf.inc # 0
    BY <1>0, <1>5 DEF Register, TypeOK, AtWork, Informer, CreatedInv, Creating
  <2>2. tracked' = [tracked EXCEPT ![inf.pod] = inf.inc] /\ inf'.pod = NoKey
    BY <1>5 DEF Register, Track, InfIdle
  <2> QED
    BY <1>0, <2>1, <2>2 DEF DirOf, Creating
<1>6. CASE Reconcile
  <2>1. inf.pc = "reconcile" /\ inf.pod \in Pods
    BY <1>0, <1>6 DEF Reconcile, TypeOK, AtWork, Informer
  <2>2. inf'.pod \in {NoKey, inf.pod} /\ \A q \in Pods \ {inf.pod} : tracked'[q] = tracked[q]
    BY <1>0, <1>1, <1>6, <2>1 DEF Reconcile, Track, InfIdle
  <2>3. CASE k = inf.pod
    <3>1. dirs'[k] = {}
      BY <2>1, <2>3 DEF DirOf, Creating
    <3> QED
      BY <3>1 DEF DirOf
  <2>4. CASE k # inf.pod
    BY <1>0, <2>2, <2>4 DEF DirOf
  <2> QED
    BY <2>3, <2>4
<1>7. CASE ~Register /\ ~Reconcile
  <2>1. tracked' = tracked
    BY <1>4, <1>7 DEF Handler, AddInspect, InitRm, InitRun, InitWait, InitRm2, MainRm, MainRun, ApiDelete
  <2>2. CASE AddInspect
    <3>1. inf.pc = "addInspect"
      BY <2>2 DEF AddInspect
    <3>2. inf'.pod = inf.pod
      BY <1>1, <1>3, <2>2 DEF AddInspect
    <3>3. k = inf.pod => dirs'[k] = {}
      BY <3>1 DEF DirOf, Creating
    <3> QED
      BY <2>1, <3>2, <3>3 DEF DirOf
  <2>3. CASE ApiDelete
    <3>1. inf.pc = "apiDelete" /\ inf'.pod = NoKey
      BY <2>3 DEF ApiDelete, InfIdle
    <3>2. k = inf.pod => dirs'[k] = {}
      BY <3>1 DEF DirOf
    <3> QED
      BY <1>0, <2>1, <3>1, <3>2 DEF DirOf
  <2>4. CASE InitRm \/ InitRun \/ InitWait \/ InitRm2 \/ MainRm \/ MainRun
    <3>1. inf.pc \in Creating
      BY <2>4 DEF InitRm, InitRun, InitWait, InitRm2, MainRm, MainRun, Creating
    <3>2. /\ inf'.pod = inf.pod
          /\ \/ inf'.pc = "clean"
             \/ inf'.inc = inf.inc /\ inf'.pc \notin {"addInspect", "reconcile", "apiDelete"}
      BY <1>1, <1>2, <1>3, <2>4 DEF InitRm, InitRun, InitWait, InitRm2, MainRm, MainRun
    <3> QED
      BY <2>1, <3>1, <3>2 DEF DirOf, Creating
  <2> QED
    BY <1>4, <1>7, <2>2, <2>3, <2>4 DEF Handler
<1> QED
  BY <1>5, <1>6, <1>7

\* Files come with what is started, and go with the end of a clean-up.
LEMMA DirsKept == LifeInv /\ DirsInv /\ [Next]_vars /\ Record => DirsInv'
<1> SUFFICES ASSUME LifeInv, DirsInv, [Next]_vars, Record, NoStop', NEW k \in Pods, ~raced'[k]
             PROVE  DirOf(k)'
  BY DEF DirsInv
<1>0. TypeOK /\ PutsInv /\ TrackInv /\ CreatedInv /\ RaceInv /\ ChainInv /\ HeldInv
  BY DEF LifeInv, DeleteInv
<1>1. /\ NoStop /\ faults.losses = 0 /\ faults'.crashes + faults'.losses = 0 /\ ~KubeletRestart
      /\ faults'.crashes = faults.crashes /\ ~raced[k] /\ k # NoKey
  BY <1>0, NoStopKept, RacedKept, ConstantsAssumption
<1>2. DirOf(k)
  BY <1>1 DEF DirsInv
<1>3. dirs'[k] = IF VolumesRemoved(k) THEN {} ELSE dirs[k] \cup Mounting(k)
  BY DEF Record
<1>4. CASE VolumesRemoved(k)
  BY <1>3, <1>4 DEF DirOf
<1>5. ASSUME ~VolumesRemoved(k), NEW n \in Mounting(k) PROVE DirOf(k)'
  <2>1. \/ /\ inf.pc \in {"initRun", "mainRun"} /\ inf.pod = k /\ inf.inc = n
           /\ inf'.pod = k /\ inf'.inc = n /\ inf'.pc \in {"initWait", "mainRm", "register"}
        \/ per.pod = k /\ per.inc = n /\ UNCHANGED <<inf, tracked>>
    BY <1>0, <1>5, Mounts
  <2>2. CASE /\ inf.pc \in {"initRun", "mainRun"} /\ inf.pod = k /\ inf.inc = n
             /\ inf'.pod = k /\ inf'.inc = n /\ inf'.pc \in {"initWait", "mainRm", "register"}
    <3>1. \A m \in Mounting(k) : m = n
      <4> SUFFICES ASSUME NEW m \in Mounting(k), m # n PROVE FALSE
        OBVIOUS
      <4>1. per.pod = k /\ inf' = inf
        BY <1>0, <2>2, Mounts
      <4> QED
        BY <2>2, <4>1
    <3>2. dirs[k] \subseteq {n}
      BY <1>2, <2>2 DEF DirOf, Creating
    <3> QED
      BY <1>3, <1>5, <2>2, <3>1, <3>2 DEF DirOf
  <2>3. CASE per.pod = k /\ per.inc = n /\ UNCHANGED <<inf, tracked>>
    <3>1. inf.pod # k /\ tracked[k] # 0 /\ per.inc = tracked[k]
      BY <1>0, <1>1, <2>3, HeldElsewhere DEF Holds
    <3>2. \A m \in Mounting(k) : m = n
      BY <1>0, <2>3, <3>1, Mounts
    <3> QED
      BY <1>2, <1>3, <1>5, <2>3, <3>1, <3>2 DEF DirOf
  <2> QED
    BY <2>1, <2>2, <2>3
<1>6. ASSUME ~VolumesRemoved(k), Mounting(k) = {} PROVE DirOf(k)'
  <2>1. dirs'[k] = dirs[k]
    BY <1>3, <1>6
  <2>2. CASE Elsewhere \/ \E i \in Mains : CleanStep(i)
    <3>1. UNCHANGED <<inf, tracked>>
      BY <1>0, <2>2, ElsewhereStays, CleanStepIs
    <3> QED
      BY <1>2, <2>1, <3>1 DEF DirOf
  <2>3. CASE Handler
    <3>1. CASE inf.pc # "clean"
      BY <1>0, <1>2, <2>1, <2>3, <3>1, HandlerDirs
    <3>2. CASE inf.pc = "clean"
      <4>1. CleanDone
        BY <2>3, <3>2 DEF Handler, AddInspect, Reconcile, InitRm, InitRun, InitWait, InitRm2, MainRm, MainRun, Register,
                          ApiDelete
      <4>2. inf'.pc # "clean" /\ inf'.pod \in {NoKey, inf.pod} /\ UNCHANGED tracked
        BY <1>0, <4>1 DEF CleanDone, InfIdle, TypeOK, Informer, provVars
      <4>3. inf.pod # k
        BY <1>1, <1>6, <3>2, <4>2 DEF VolumesRemoved
      <4> QED
        BY <1>1, <1>2, <2>1, <4>2, <4>3 DEF DirOf
    <3> QED
      BY <3>1, <3>2
  <2>4. ASSUME NEW q \in Pods, Pop(q) \/ Redeliver(q) PROVE DirOf(k)'
    <3>1. Starts(q) /\ inf.pc = "idle"
      BY <1>0, <2>4, PopStarts, RedeliverStarts DEF Pop, Redeliver
    <3>2. inf.pod = NoKey /\ tracked \in [Pods -> Nat]
      BY <1>0, <3>1 DEF TypeOK, AtWork
    <3>3. dirs[k] \subseteq {tracked[k]} \ {0} /\ tracked[k] \in {0, store[k].inc}
      BY <1>0, <1>1, <1>2, <3>2 DEF DirOf, TrackInv, TrackedIsStored
    <3>4. CASE k # q
      <4>1. tracked'[k] = tracked[k] /\ inf'.pod # k
        BY <1>1, <3>1, <3>2, <3>4 DEF Starts
      <4> QED
        BY <2>1, <3>3, <4>1 DEF DirOf
    <3>5. CASE k = q
      <4>1. CASE inf'.pod = q /\ inf'.pc = "clean"
        BY <3>5, <4>1 DEF DirOf, Creating
      <4>2. CASE store[q].inc = 0
        <5>1. dirs'[k] = {}
          BY <2>1, <3>3, <3>5, <4>2
        <5> QED
          BY <5>1 DEF DirOf
      <4>3. CASE UNCHANGED inf /\ tracked'[q] = store'[q].inc /\ store[q].inc # 0 /\ store'[q].inc # 0
        <5>1. store'[q].inc = store[q].inc
          BY <1>0, <1>1, <4>3, UpdateIsSame
        <5> QED
          BY <1>1, <2>1, <3>2, <3>3, <3>5, <4>3, <5>1 DEF DirOf
      <4>4. CASE UNCHANGED <<inf, tracked>>
        BY <1>2, <2>1, <4>4 DEF DirOf
      <4> QED
        BY <3>1, <3>2, <4>1, <4>2, <4>3, <4>4 DEF Starts
    <3> QED
      BY <3>4, <3>5
  <2> QED
    BY <1>1, <2>2, <2>3, <2>4, Steps
<1> QED
  BY <1>4, <1>5, <1>6

\* The history with the directories; what a clean-up removed stays removed.
HistDirs == HistInv /\ DirsInv

\* Every step keeps the files of other incarnations out,
LEMMA HistDirsStep == HistDirs /\ [HistoryNext]_<<vars, historyVars>> => HistDirs'
<1> SUFFICES ASSUME HistDirs, [HistoryNext]_<<vars, historyVars>> PROVE HistDirs'
  OBVIOUS
<1>1. HistInv' /\ [Next]_vars /\ LifeInv /\ DirsInv
  BY HistInvStep, HistorySteps DEF HistDirs, HistInv
<1>2. CASE Record
  BY <1>1, <1>2, DirsKept DEF HistDirs
<1>3. CASE UNCHANGED vars /\ UNCHANGED historyVars
  <2>1. UNCHANGED <<dirs, inf, tracked, faults, raced>>
    BY <1>3 DEF vars, historyVars, provVars
  <2>2. DirsInv'
    BY <1>1, <2>1 DEF DirsInv, NoStop, DirOf
  <2> QED
    BY <1>1, <2>2 DEF HistDirs
<1> QED
  BY <1>2, <1>3, HistorySteps

\* and there are none at first.
LEMMA HistDirsInit == HistoryInit => HistDirs
<1> SUFFICES ASSUME HistoryInit PROVE DirsInv
  BY HistInvInit DEF HistDirs
<1>1. \A k \in Pods : dirs[k] = {}
  BY DEF HistoryInit
<1> QED
  BY <1>1 DEF DirsInv, DirOf

\* No container starts over files that an earlier pod of the name has left in an
\* emptyDir, for any number of pods, incarnations and containers and through
\* failing calls, until the process stops, its watch is lost or a pass has met a
\* deletion of the pod.
THEOREM EmptyDirIsFreshAlways == HistorySpec => EmptyDirIsFresh
<1>1. ASSUME HistDirs, [HistoryNext]_<<vars, historyVars>>
      PROVE  [\A k \in Pods : faults.crashes + faults.losses = 0 /\ ~raced[k]
                                 => \A n \in Mounting(k) : dirs[k] \subseteq {n}]_<<vars, historyVars>>
  <2>0. /\ TypeOK /\ PutsInv /\ TrackInv /\ RaceInv /\ ChainInv /\ HeldInv /\ DirsInv /\ [Next]_vars
    BY <1>1, HistorySteps DEF HistDirs, HistInv, LifeInv, DeleteInv
  <2>1. ASSUME NEW k \in Pods, NoStop, ~raced[k], NEW n \in Mounting(k)
        PROVE  dirs[k] \subseteq {n}
    <3>1. DirOf(k)
      BY <2>0, <2>1 DEF DirsInv
    <3>2. CASE inf.pc \in {"initRun", "mainRun"} /\ inf.pod = k /\ inf.inc = n
      BY <3>1, <3>2 DEF DirOf, Creating
    <3>3. CASE per.pod = k /\ per.inc = n
      <4>1. inf.pod # k /\ per.inc = tracked[k]
        BY <2>0, <2>1, <3>3, HeldElsewhere DEF Holds
      <4> QED
        BY <3>1, <3>3, <4>1 DEF DirOf
    <3> QED
      BY <2>0, <2>1, <3>2, <3>3, Mounts
  <2> QED
    BY <2>1 DEF NoStop
<1> QED
  BY <1>1, HistDirsInit, HistDirsStep, PTL DEF HistorySpec, EmptyDirIsFresh

-----------------------------------------------------------------------------
(* Init containers come first.                                             *)

\* Init container j of k has succeeded for incarnation n, and is over.
InitDone(k, n, j) == initOk[k][j] = n /\ ~IsRunning(ictr[k][j])

\* The creation under way is past its init container j; while it waits, the one
\* that it waits for is its own.
Past(j) == inf.pc \in Initing => j < inf.i \/ (j = inf.i /\ inf.pc = "initRm2")
InitsInv ==
  inf.pc \in Initing \cup {"mainRm", "mainRun", "register"} =>
    /\ \A j \in Inits : Past(j) => InitDone(inf.pod, inf.inc, j)
    /\ inf.pc = "initWait" =>
         /\ ictr[inf.pod][inf.i].inc = inf.inc
         /\ ictr[inf.pod][inf.i].st = "succeeded" => initOk[inf.pod][inf.i] = inf.inc

\* What is over stays so until CreatePod runs the container again.
LEMMA InitDoneKept ==
  ASSUME TypeOK, [Next]_vars, Record, NEW k \in Pods, NEW j \in Inits, NEW n, InitDone(k, n, j),
         ~(inf.pc = "initRun" /\ inf.pod = k /\ inf.i = j)
  PROVE  initOk'[k][j] = n /\ ~IsRunning(ictr'[k][j])
<1>1. ~IsRunning(ictr[k][j]) /\ initOk[k][j] = n /\ ictr[k][j] \in Container
  BY DEF InitDone, TypeOK
<1>2. ~Succeeded(k, j)
  BY <1>1 DEF Succeeded
<1>3. initOk'[k][j] = n
  BY <1>1, <1>2 DEF Record
<1>4. ~InitExits(k, j)
  BY <1>1 DEF InitExits
<1>5. CASE InitCall(k, j)
  <2>1. PICK o : /\ ictr'[k][j] = o.c
                 /\ InitRun \/ o \in Remove(ictr[k][j])
    BY <1>5 DEF InitCall
  <2>2. ~InitRun
    BY <1>5 DEF InitCall, InitRun
  <2> QED
    BY <1>1, <1>3, <2>1, <2>2, ToolStarts
<1> QED
  BY <1>1, <1>3, <1>4, <1>5, InitBoxes

\* How a creation goes on: it keeps its pod and its incarnation, and passes no
\* init container but the one whose success it has seen.
LEMMA InitsGoOn ==
  ASSUME TypeOK, [Next]_vars, inf'.pc \in Initing \cup {"mainRm", "mainRun", "register"}
  PROVE  \/ inf' = inf
         \/ inf.pc = "addInspect" /\ inf'.pc # "initWait" /\ \A j \in Inits : ~Past(j)'
         \/ /\ inf'.pod = inf.pod /\ inf'.inc = inf.inc
            /\ inf.pc \in Initing \cup {"mainRm", "mainRun"}
            /\ \/ \A j \in Inits : Past(j)' => Past(j)
               \/ /\ inf.pc = "initWait" /\ inf'.pc = "initRm2" /\ inf'.i = inf.i
                  /\ ictr[inf.pod][inf.i].st = "succeeded" /\ UNCHANGED ictr
            /\ inf'.pc = "initWait" => inf.pc = "initRun" /\ inf'.i = inf.i /\ ictr'[inf.pod][inf.i] = Running(inf.inc)
<1> USE DEF provVars, boxVars
<1>0. inf \in Informer /\ inf.i \in Nat /\ NInit \in Nat /\ NMain \in Nat
  BY ConstantsAssumption DEF TypeOK, Informer
<1>1. ASSUME NEW pc, NEW i, Continue(pc, i)
      PROVE  inf'.pod = inf.pod /\ inf'.inc = inf.inc /\ inf'.pc = pc /\ inf'.i = i
  BY <1>0, <1>1 DEF Continue, Informer
<1>2. ~CreateFailed /\ inf' # InfIdle
  BY DEF CreateFailed, StartCleanup, Initing, InfIdle
<1>3. ASSUME NEW i \in Nat, CreateFrom(i)
      PROVE  /\ inf'.pod = inf.pod /\ inf'.inc = inf.inc
             /\ (inf'.pc = "initRm" /\ inf'.i = i) \/ (inf'.pc = "mainRm" /\ NInit < i)
  BY <1>0, <1>1, <1>3 DEF CreateFrom
<1>4. CASE AddInspect
  <2>1. inf.pc = "addInspect" /\ CreateFrom(1)
    BY <1>1, <1>4 DEF AddInspect, Initing
  <2>2. (inf'.pc = "initRm" /\ inf'.i = 1) \/ (inf'.pc = "mainRm" /\ NInit < 1)
    BY <1>3, <2>1
  <2>3. \A j \in Inits : j \in Nat /\ 1 <= j /\ j <= NInit
    BY <1>0 DEF Inits
  <2> QED
    BY <1>0, <2>1, <2>2, <2>3 DEF Past, Initing
<1>5. CASE InitRm
  <2>1. inf.pc = "initRm" /\ Continue("initRun", inf.i)
    BY <1>5 DEF InitRm
  <2> QED
    BY <1>1, <2>1 DEF Past, Initing
<1>6. CASE InitRun
  <2>0. inf.pc = "initRun" /\ inf.pod \in Pods /\ inf.i \in Inits
    BY <1>0, <1>6 DEF InitRun, TypeOK, AtWork, Informer
  <2>1. PICK o \in Run(ictr[inf.pod][inf.i], inf.inc) : OnInit(o) /\ o.ok /\ Continue("initWait", inf.i)
    BY <1>2, <1>6 DEF InitRun
  <2>2. ictr'[inf.pod][inf.i] = o.c
    BY <2>0, <2>1 DEF OnInit, TypeOK
  <2>3. o.c = Running(inf.inc)
    BY <2>1 DEF Run, Done, Refused, Fault
  <2> QED
    BY <1>1, <2>0, <2>1, <2>2, <2>3 DEF Past, Initing
<1>7. CASE InitWait
  <2>1. /\ inf.pc = "initWait" /\ ictr[inf.pod][inf.i].st = "succeeded" /\ Continue("initRm2", inf.i)
        /\ UNCHANGED ictr
    BY <1>2, <1>7 DEF InitWait
  <2> QED
    BY <1>1, <2>1 DEF Initing
<1>8. CASE InitRm2
  <2>1. inf.pc = "initRm2" /\ CreateFrom(inf.i + 1)
    BY <1>8 DEF InitRm2
  <2>2. /\ inf'.pod = inf.pod /\ inf'.inc = inf.inc
        /\ (inf'.pc = "initRm" /\ inf'.i = inf.i + 1) \/ (inf'.pc = "mainRm" /\ NInit < inf.i + 1)
    BY <1>0, <1>3, <2>1
  <2>3. \A j \in Inits : j \in Nat /\ j <= NInit
    BY <1>0 DEF Inits
  <2> QED
    BY <1>0, <2>1, <2>2, <2>3 DEF Past, Initing
<1>9. CASE MainRm \/ MainRun
  <2>1. inf.pc \in {"mainRm", "mainRun"}
    BY <1>9 DEF MainRm, MainRun
  <2>2. inf'.pod = inf.pod /\ inf'.inc = inf.inc /\ inf'.pc \in {"mainRun", "mainRm", "register"}
    BY <1>1, <1>2, <1>9 DEF MainRm, MainRun
  <2> QED
    BY <2>1, <2>2 DEF Past, Initing
<1>10. CASE Reconcile
  <2>1. inf' = InfIdle \/ inf'.pc = "reconcile"
    BY <1>1, <1>10 DEF Reconcile
  <2> QED
    BY <1>2, <2>1 DEF Initing
<1>11. CASE Register \/ CleanDone \/ ApiDelete
  <2>1. inf' = InfIdle \/ inf'.pc = "apiDelete"
    BY <1>0, <1>11 DEF Register, CleanDone, ApiDelete, Informer
  <2> QED
    BY <1>2, <2>1 DEF Initing
<1>12. CASE Elsewhere \/ \E i \in Mains : CleanStep(i)
  BY <1>12, ElsewhereStays, CleanStepIs
<1>13. CASE KubeletRestart
  BY <1>2, <1>13 DEF KubeletRestart
<1>14. ASSUME NEW q \in Pods, Pop(q) \/ Redeliver(q) PROVE inf' = inf
  <2>1. \/ inf' = inf
        \/ \E k, n, then : StartCleanup(k, n, then)
        \/ \E k, n : Goto("addInspect", k, n, 1)
    BY <1>14 DEF Pop, Redeliver, HandlePut, HandleGone, OnAdd, OnUpdate, OnDelete, DeletePod
  <2> QED
    BY <2>1 DEF StartCleanup, Goto, Initing
<1> QED
  BY <1>4, <1>5, <1>6, <1>7, <1>8, <1>9, <1>10, <1>11, <1>12, <1>13, <1>14, Steps DEF Handler

\* The creation is past an init container only when it has succeeded.
LEMMA InitsKept == TypeOK /\ InitsInv /\ [Next]_vars /\ Record => InitsInv'
<1> SUFFICES ASSUME TypeOK, InitsInv, [Next]_vars, Record,
                    inf'.pc \in Initing \cup {"mainRm", "mainRun", "register"}
             PROVE  /\ \A j \in Inits : Past(j)' => InitDone(inf.pod, inf.inc, j)'
                    /\ inf'.pc = "initWait" =>
                         /\ ictr'[inf'.pod][inf'.i].inc = inf'.inc
                         /\ ictr'[inf'.pod][inf'.i].st = "succeeded" => initOk'[inf'.pod][inf'.i] = inf'.inc
  BY DEF InitsInv
<1> DEFINE Making == Initing \cup {"mainRm", "mainRun", "register"}
<1>0. inf \in Informer /\ inf' \in Informer /\ (inf.pc \in Making => inf.pod \in Pods)
      /\ (inf.pc \in Initing => inf.i \in Inits)
  BY StepTypes DEF TypeOK, AtWork, Informer, Initing
<1>1. \A j \in Inits : j \in Nat
  BY ConstantsAssumption DEF Inits
<1>2. ASSUME inf.pc \in Making, NEW j \in Inits, Past(j), inf'.pod = inf.pod, inf'.inc = inf.inc
      PROVE  InitDone(inf.pod, inf.inc, j)'
  <2>1. InitDone(inf.pod, inf.inc, j)
    BY <1>2 DEF InitsInv
  <2>2. ~(inf.pc = "initRun" /\ inf.i = j)
    BY <1>1, <1>2 DEF Past, Initing
  <2>3. initOk'[inf.pod][j] = inf.inc /\ ~IsRunning(ictr'[inf.pod][j])
    BY <1>0, <1>2, <2>1, <2>2, InitDoneKept
  <2> QED
    BY <1>2, <2>3 DEF InitDone
<1>3. CASE inf' = inf
  <2>1. \A j \in Inits : Past(j)' <=> Past(j)
    BY <1>3 DEF Past
  <2>2. ASSUME inf.pc = "initWait"
        PROVE  /\ ictr'[inf.pod][inf.i].inc = inf.inc
               /\ ictr'[inf.pod][inf.i].st = "succeeded" => initOk'[inf.pod][inf.i] = inf.inc
    <3> DEFINE k == inf.pod
               j == inf.i
    <3>1. k \in Pods /\ j \in Inits /\ ictr[k][j] \in Container
      BY <1>0, <2>2 DEF TypeOK, Initing
    <3>2. ictr[k][j].inc = inf.inc /\ (ictr[k][j].st = "succeeded" => initOk[k][j] = inf.inc)
      BY <2>2 DEF InitsInv, Initing
    <3>3. ~InitCall(k, j)
      BY <2>2 DEF InitCall, InitRm, InitRun, InitRm2
    <3>e. ASSUME InitExits(k, j) PROVE ictr'[k][j].inc = ictr[k][j].inc /\ IsRunning(ictr[k][j])
      <4>1. PICK e \in Exited : ictr'[k][j] = [ictr[k][j] EXCEPT !.st = e]
        BY <3>e DEF InitExits
      <4> QED
        BY <3>1, <3>e, <4>1 DEF InitExits, Container
    <3>4. ictr'[k][j].inc = ictr[k][j].inc /\ (ictr'[k][j] = ictr[k][j] \/ IsRunning(ictr[k][j]))
      <4>1. ictr'[k][j] = ictr[k][j] \/ InitExits(k, j)
        BY <3>1, <3>3, InitBoxes
      <4> QED
        BY <3>e, <4>1
    <3>5. initOk'[k][j] = IF Succeeded(k, j) THEN ictr[k][j].inc ELSE initOk[k][j]
      BY <3>1 DEF Record
    <3> QED
      BY <3>2, <3>4, <3>5 DEF Succeeded, IsRunning
  <2> QED
    BY <1>2, <1>3, <2>1, <2>2
<1>4. CASE inf'.pc # "initWait" /\ \A j \in Inits : ~Past(j)'
  BY <1>4
<1>5. CASE /\ inf'.pod = inf.pod /\ inf'.inc = inf.inc
           /\ inf.pc \in Initing \cup {"mainRm", "mainRun"}
           /\ \/ \A j \in Inits : Past(j)' => Past(j)
              \/ /\ inf.pc = "initWait" /\ inf'.pc = "initRm2" /\ inf'.i = inf.i
                 /\ ictr[inf.pod][inf.i].st = "succeeded" /\ UNCHANGED ictr
           /\ inf'.pc = "initWait" => inf.pc = "initRun" /\ inf'.i = inf.i /\ ictr'[inf.pod][inf.i] = Running(inf.inc)
  <2>1. inf'.pc = "initWait" =>
          /\ ictr'[inf'.pod][inf'.i].inc = inf'.inc
          /\ ictr'[inf'.pod][inf'.i].st # "succeeded"
    BY <1>5 DEF Running
  <2>2. CASE \A j \in Inits : Past(j)' => Past(j)
    BY <1>2, <1>5, <2>1, <2>2
  <2>3. CASE /\ inf.pc = "initWait" /\ inf'.pc = "initRm2" /\ inf'.i = inf.i
             /\ ictr[inf.pod][inf.i].st = "succeeded" /\ UNCHANGED ictr
    <3>1. initOk[inf.pod][inf.i] = inf.inc /\ ~IsRunning(ictr[inf.pod][inf.i])
      BY <2>3 DEF InitsInv, Initing, IsRunning
    <3>2. InitDone(inf.pod, inf.inc, inf.i)
      BY <3>1 DEF InitDone
    <3>3. inf.pod \in Pods /\ inf.i \in Inits
      BY <1>0, <2>3 DEF Initing
    <3>4. initOk'[inf.pod][inf.i] = inf.inc /\ ~IsRunning(ictr'[inf.pod][inf.i])
      BY <2>3, <3>2, <3>3, InitDoneKept
    <3>5. \A j \in Inits : Past(j)' => j < inf.i \/ j = inf.i
      BY <2>3 DEF Past, Initing
    <3>6. \A j \in Inits : j < inf.i => Past(j)
      BY DEF Past
    <3> QED
      BY <1>2, <1>5, <2>1, <2>3, <3>4, <3>5, <3>6 DEF InitDone
  <2> QED
    BY <1>5, <2>2, <2>3
<1> QED
  BY <1>3, <1>4, <1>5, InitsGoOn

\* A pass restarts a container only after it has seen it terminated, and begins
\* with a pod of which it has seen nothing.
SeenInv ==
  /\ per.pc \in {"restartRm", "restartRun"} => per.seen[per.i] = "terminated"
  /\ per.pc \in {"idle", "pick"} => \A i \in Mains : per.seen[i] = "none"

\* What a pass knows of the containers: what it knew, or what it has just looked at.
PassSees ==
  \/ UNCHANGED per
  \/ \E todo : per' = PerIdle \/ per' = [PerIdle EXCEPT !.pc = "pick", !.todo = todo]
  \/ per.pc = "pick" /\ per'.pc = "inspect" /\ per'.seen = per.seen
  \/ /\ per'.pod = per.pod /\ per'.inc = per.inc /\ per'.seen = per.seen
     /\ per.pc \notin {"idle", "pick"} /\ per'.pc \in {"act", "kill", "restartRm", "restartRun"}
     /\ per'.pc = "restartRm" => per'.i = per.i /\ per.seen[per.i] = "terminated"
     /\ per'.pc = "restartRun" => per'.i = per.i /\ per.pc = "restartRm"
  \/ /\ per'.pod = per.pod /\ per'.inc = per.inc /\ per'.pc \in {"inspect", "act"} /\ UNCHANGED ctr
     /\ \A i \in Mains : per'.seen[i] = "terminated" =>
          per.seen[i] = "terminated" \/ (i = per.i /\ Exists(ctr[per.pod][i]))

\* Every step does one of these to the pass.
LEMMA PassSeesAll == ASSUME TypeOK, [Next]_vars PROVE PassSees
<1> USE DEF provVars, boxVars
<1>0. per \in Periodic
  BY DEF TypeOK
<1>1. ASSUME NEW todo, NextPod(todo) PROVE PassSees
  BY <1>1 DEF NextPod, PassSees
<1>2. ASSUME NextContainer, per.pc \notin {"idle", "pick"} PROVE PassSees
  <2>1. CASE per' = [per EXCEPT !.pc = "act", !.i = @ + 1]
    BY <1>0, <1>2, <2>1 DEF Periodic, PassSees
  <2> QED
    BY <1>1, <1>2, <2>1 DEF NextContainer
<1>3. CASE Tick
  BY <1>3 DEF Tick, PassSees
<1>4. ASSUME NEW k \in Pods, Pick(k) PROVE PassSees
  <2>1. CASE NextPod([per.todo EXCEPT ![k] = 0])
    BY <1>1, <2>1
  <2>2. CASE per' = [per EXCEPT !.pc = "inspect", !.todo[k] = 0, !.pod = k, !.inc = per.todo[k], !.i = 1]
    <3>1. per'.pc = "inspect" /\ per'.seen = per.seen
      BY <1>0, <2>2 DEF Periodic
    <3> QED
      BY <1>4, <3>1 DEF Pick, PassSees
  <2> QED
    BY <1>4, <2>1, <2>2 DEF Pick
<1>5. CASE InspectStatus
  <2>1. PICK r \in Inspect(ctr[per.pod][per.i]) : \E s \in SeenAs(r) :
          per' = [per EXCEPT !.pc = IF per.i < NMain THEN "inspect" ELSE "act",
                             !.i  = IF per.i < NMain THEN @ + 1 ELSE 1,
                             !.seen[per.i] = s]
    BY <1>5 DEF InspectStatus
  <2>2. PICK s \in SeenAs(r) :
          per' = [per EXCEPT !.pc = IF per.i < NMain THEN "inspect" ELSE "act",
                             !.i  = IF per.i < NMain THEN @ + 1 ELSE 1,
                             !.seen[per.i] = s]
    BY <2>1
  <2>3. /\ per'.pod = per.pod /\ per'.inc = per.inc /\ per'.pc \in {"inspect", "act"}
        /\ per'.seen = [per.seen EXCEPT ![per.i] = s]
    BY <1>0, <2>2 DEF Periodic
  <2>4. s = "terminated" => Exists(ctr[per.pod][per.i])
    <3>1. ~Exists(ctr[per.pod][per.i]) => r.state = "error"
      BY <2>1 DEF Inspect
    <3> QED
      BY <2>2, <3>1 DEF SeenAs
  <2>5. \A i \in Mains : per'.seen[i] = IF i = per.i THEN s ELSE per.seen[i]
    BY <1>0, <2>3 DEF Periodic
  <2>6. UNCHANGED ctr
    BY <1>5 DEF InspectStatus
  <2> QED
    BY <2>3, <2>4, <2>5, <2>6 DEF PassSees
<1>6. CASE Act
  <2>0. per.pc = "act"
    BY <1>6 DEF Act
  <2>1. CASE per' = [per EXCEPT !.pc = "kill"]
    BY <1>0, <2>0, <2>1 DEF Periodic, PassSees
  <2>2. CASE per' = [per EXCEPT !.pc = "restartRm"] /\ per.seen[per.i] = "terminated"
    BY <1>0, <2>0, <2>2 DEF Periodic, PassSees
  <2> QED
    BY <1>2, <1>6, <2>0, <2>1, <2>2 DEF Act, ActRunning, ActOther
<1>7. CASE LivenessKill \/ RestartRun
  BY <1>2, <1>7 DEF LivenessKill, RestartRun
<1>8. CASE RestartRm
  <2>1. per' = [per EXCEPT !.pc = "restartRun"] /\ per.pc = "restartRm"
    BY <1>8 DEF RestartRm
  <2> QED
    BY <1>0, <2>1 DEF Periodic, PassSees
<1>9. CASE KubeletRestart
  BY <1>9 DEF KubeletRestart, PassSees
<1>10. CASE Handler \/ (\E i \in Mains : CleanStep(i)) \/ Api \/ Feed \/ Workload \/ UNCHANGED vars
  <2>1. per' = per
    BY <1>10 DEF Handler, AddInspect, Reconcile, InitRm, InitRun, InitWait, InitRm2, MainRm, MainRun, Register,
                 CleanDone, ApiDelete, CleanStep, CleanStop, CleanKill, CleanWait, CleanRemove, CleanRetry, CleanCall,
                 Api, ApiCreate, ApiMarkDeleted, ApiForceDelete, Feed, WatchLost, Relist, Pop, Redeliver, Workload,
                 MainExit, InitExit, vars
  <2> QED
    BY <2>1 DEF PassSees
<1> QED
  BY <1>3, <1>4, <1>5, <1>6, <1>7, <1>8, <1>9, <1>10 DEF Next, PeriodicStep

\* A pass goes on to restart only what it has seen terminated.
LEMMA SeenKept == TypeOK /\ SeenInv /\ [Next]_vars => SeenInv'
<1> SUFFICES ASSUME TypeOK, SeenInv, [Next]_vars PROVE SeenInv'
  OBVIOUS
<1>1. PassSees
  BY PassSeesAll
<1>2. CASE UNCHANGED per
  BY <1>2 DEF SeenInv
<1>3. ASSUME NEW todo, per' = PerIdle \/ per' = [PerIdle EXCEPT !.pc = "pick", !.todo = todo] PROVE SeenInv'
  <2>1. per'.pc \in {"idle", "pick"} /\ per'.seen = [i \in Mains |-> "none"]
    <3>1. /\ PerIdle.pc = "idle" /\ PerIdle.seen = [i \in Mains |-> "none"]
          /\ [PerIdle EXCEPT !.pc = "pick", !.todo = todo].pc = "pick"
          /\ [PerIdle EXCEPT !.pc = "pick", !.todo = todo].seen = [i \in Mains |-> "none"]
      BY DEF PerIdle
    <3> QED
      BY <1>3, <3>1
  <2> QED
    BY <2>1 DEF SeenInv
<1>4. CASE per.pc = "pick" /\ per'.pc = "inspect" /\ per'.seen = per.seen
  BY <1>4 DEF SeenInv
<1>5. CASE /\ per'.seen = per.seen
           /\ per.pc \notin {"idle", "pick"} /\ per'.pc \in {"act", "kill", "restartRm", "restartRun"}
           /\ per'.pc = "restartRm" => per'.i = per.i /\ per.seen[per.i] = "terminated"
           /\ per'.pc = "restartRun" => per'.i = per.i /\ per.pc = "restartRm"
  BY <1>5 DEF SeenInv
<1>6. CASE per'.pc \in {"inspect", "act"}
  BY <1>6 DEF SeenInv
<1> QED
  BY <1>1, <1>2, <1>3, <1>4, <1>5, <1>6 DEF PassSees

\* What a pass has seen terminated it has seen before, or it is there.
LEMMA SeenFrom ==
  ASSUME TypeOK, SeenInv, [Next]_vars, NEW k \in Pods, NEW i \in Mains, per'.pod = k, per'.seen[i] = "terminated"
  PROVE  \/ per.pod = k /\ per'.inc = per.inc /\ per.seen[i] = "terminated"
         \/ Exists(ctr'[k][i])
<1>1. PassSees
  BY PassSeesAll
<1>2. \A todo : PerIdle.pod = NoKey /\ [PerIdle EXCEPT !.pc = "pick", !.todo = todo].pod = NoKey
  BY DEF PerIdle
<1>3. ~(per.pc = "pick" /\ per'.seen = per.seen)
  BY DEF SeenInv
<1> QED
  BY <1>1, <1>2, <1>3, ConstantsAssumption DEF PassSees

\* While nothing fails, all init containers of an incarnation have succeeded when
\* a container of it is there, and when a pass that has the pod has seen one.
DoneOf(k) ==
  /\ inf.pod # k /\ (\E i \in Mains : Exists(ctr[k][i])) => \A j \in Inits : initOk[k][j] = tracked[k]
  /\ per.pod = k /\ (\E i \in Mains : per.seen[i] = "terminated") => \A j \in Inits : initOk[k][j] = per.inc
DoneInv == NoFault => \A k \in Pods : ~raced[k] => DoneOf(k)

\* A handler leaves a key with its containers as they are.
LEMMA HandlerEnds ==
  ASSUME TypeOK, Handler, inf'.pod # inf.pod
  PROVE  ctr' = ctr /\ (Register \/ Reconcile \/ ApiDelete \/ CleanDone)
<1> USE DEF provVars, boxVars
<1>1. inf \in Informer
  BY DEF TypeOK
<1>2. ASSUME NEW pc, NEW i, Continue(pc, i) PROVE FALSE
  BY <1>1, <1>2 DEF Continue, Informer
<1>3. ~CreateFailed /\ \A i : ~CreateFrom(i)
  BY <1>2 DEF CreateFailed, StartCleanup, CreateFrom
<1>4. ~AddInspect /\ ~InitRm /\ ~InitRun /\ ~InitWait /\ ~InitRm2 /\ ~MainRm
  BY <1>2, <1>3 DEF AddInspect, InitRm, InitRun, InitWait, InitRm2, MainRm
<1>5. ~MainRun
  BY <1>2, <1>3 DEF MainRun
<1>6. Register \/ Reconcile \/ ApiDelete \/ CleanDone
  BY <1>4, <1>5 DEF Handler
<1> QED
  BY <1>6 DEF Register, Reconcile, ApiDelete, CleanDone

\* An init container of a pod that no handler is at does not succeed.
LEMMA OkKept ==
  ASSUME TypeOK, NoFault, MatchInv, Record, NEW k \in Pods, inf.pod # k \/ inf.pc # "initWait", NEW j \in Inits
  PROVE  initOk'[k][j] = initOk[k][j]
<1>1. ~IsRunning(ictr[k][j])
  BY DEF MatchInv, OneInit
<1> QED
  BY <1>1 DEF Record, Succeeded

\* What is there of a pod that no handler is at.
LEMMA TrackedThere ==
  ASSUME LifeInv, NoFault, NEW k \in Pods, ~raced[k], inf.pod # k, NEW i \in Mains, Exists(ctr[k][i])
  PROVE  tracked[k] # 0 /\ tracked[k] = store[k].inc
<1>0. TypeOK /\ TrackInv /\ MatchInv
  BY DEF LifeInv, DeleteInv
<1>1. Owned(k, i)
  BY <1>0 DEF MatchInv, AllOwned
<1>2. tracked[k] # 0
  BY <1>1 DEF Owned
<1>3. faults.losses = 0
  BY <1>0 DEF NoFault, TypeOK
<1> QED
  BY <1>0, <1>2, <1>3 DEF TrackInv, TrackedIsStored

\* The containers of a pod that no handler is at, and its entry in podsByKey.
LEMMA DoneThere ==
  ASSUME LifeInv, InitsInv, SeenInv, DoneInv, [Next]_vars, Record, NoFault', NEW k \in Pods, ~raced'[k],
         inf'.pod # k, NEW i \in Mains, Exists(ctr'[k][i]), NEW j \in Inits
  PROVE  initOk'[k][j] = tracked'[k]
<1>0. /\ TypeOK /\ PutsInv /\ TrackInv /\ RaceInv /\ ChainInv /\ HeldInv /\ MatchInv /\ CleanInv /\ CreatedInv
  BY DEF LifeInv, DeleteInv
<1>1. NoFault /\ faults'.calls = 0 /\ faults'.crashes = 0 /\ ~raced[k] /\ k # NoKey
  BY <1>0, NoFaultKept, RacedKept, ConstantsAssumption
<1>2. DoneOf(k) /\ NoStop
  BY <1>0, <1>1 DEF DoneInv, NoFault, NoStop, TypeOK
<1>3. ~KubeletRestart
  BY <1>0, <1>1 DEF KubeletRestart, TypeOK
<1>4. CASE inf.pod # k
  <2>1. initOk'[k][j] = initOk[k][j]
    BY <1>0, <1>1, <1>4, OkKept
  <2>2. ASSUME Exists(ctr[k][i]) PROVE initOk'[k][j] = tracked[k]
    BY <1>2, <1>4, <2>1, <2>2 DEF DoneOf
  <2>3. CASE Elsewhere
    <3>1. UNCHANGED tracked
      BY <2>3, ElsewhereStays
    <3>2. CASE PassAt(k, i) /\ ~Exists(ctr[k][i])
      <4>1. PICK o : /\ Charge(o) /\ ctr'[k][i] = o.c
                     /\ \/ per.pc = "kill" /\ o \in Kill(ctr[k][i])
                        \/ per.pc = "restartRm" /\ o \in Remove(ctr[k][i])
                        \/ per.pc = "restartRun" /\ o \in Run(ctr[k][i], per.inc)
        BY <3>2 DEF PassAt
      <4>2. ~o.fault /\ ctr[k][i] \in Container
        BY <1>0, <1>1, <4>1, NoFaults DEF TypeOK
      <4>3. per.pc = "restartRun"
        BY <3>2, <4>1, <4>2, ToolKeeps
      <4>4. per.pod = k /\ per.i = i /\ per.seen[i] = "terminated"
        BY <3>2, <4>3 DEF PassAt, SeenInv
      <4>5. initOk[k][j] = per.inc
        BY <1>2, <4>4 DEF DoneOf
      <4>6. per.inc = tracked[k]
        BY <1>0, <1>1, <1>2, <4>4, HeldElsewhere DEF Holds
      <4> QED
        BY <2>1, <3>1, <4>5, <4>6
    <3>3. Exists(ctr[k][i]) \/ PassAt(k, i)
      <4>1. Exits(k, i) => Exists(ctr[k][i])
        BY DEF Exits, IsRunning, Exists
      <4> QED
        BY <1>0, <2>3, <4>1, BoxElsewhere
    <3> QED
      BY <2>2, <3>1, <3>2, <3>3
  <2>4. CASE \E l \in Mains : CleanStep(l)
    <3>1. UNCHANGED tracked /\ ctr'[k] = ctr[k]
      BY <1>0, <1>4, <2>4, CleanStepIs
    <3> QED
      BY <2>2, <3>1
  <2>5. CASE Handler
    <3>1. tracked'[k] = tracked[k]
      BY <1>0, <1>4, <2>5 DEF Handler, AddInspect, Reconcile, InitRm, InitRun, InitWait, InitRm2, MainRm, MainRun,
                              Register, CleanDone, ApiDelete, Track, TypeOK, provVars
    <3>2. ctr'[k] = ctr[k]
      BY <1>0, <1>4, <2>5 DEF Handler, AddInspect, Reconcile, InitRm, InitRun, InitWait, InitRm2, MainRm, MainRun,
                              OnMain, Register, CleanDone, ApiDelete, TypeOK, boxVars
    <3> QED
      BY <2>2, <3>1, <3>2
  <2>6. ASSUME NEW q \in Pods, Pop(q) \/ Redeliver(q) PROVE initOk'[k][j] = tracked'[k]
    <3>1. Starts(q) /\ ctr' = ctr /\ tracked \in [Pods -> Nat]
      BY <1>0, <2>6, PopStarts, RedeliverStarts DEF Pop, Redeliver, boxVars, TypeOK
    <3>2. CASE k # q \/ UNCHANGED tracked
      <4>1. tracked'[k] = tracked[k]
        BY <3>1, <3>2 DEF Starts
      <4> QED
        BY <2>2, <3>1, <4>1
    <3>3. CASE k = q /\ tracked'[q] = store'[q].inc /\ store[q].inc # 0 /\ store'[q].inc # 0
      <4>1. store'[k].inc = store[k].inc
        <5>1. faults' \in FaultCount
          BY <1>0, StepTypes DEF TypeOK, FaultCount
        <5>2. faults'.crashes + faults'.losses = 0
          BY <5>1 DEF NoFault, FaultCount
        <5> QED
          BY <1>0, <3>3, <5>2, UpdateIsSame
      <4>2. tracked[k] = store[k].inc
        BY <1>1, <1>4, <3>1, TrackedThere
      <4> QED
        BY <2>2, <3>1, <3>3, <4>1, <4>2
    <3> QED
      BY <3>1, <3>2, <3>3 DEF Starts
  <2> QED
    BY <1>3, <2>3, <2>4, <2>5, <2>6, Steps
<1>5. CASE inf.pod = k
  <2>1. inf.pc # "idle"
    BY <1>0, <1>1, <1>5 DEF TypeOK, AtWork
  <2>2. Handler
    <3>1. ~Elsewhere /\ \A l \in Mains : ~CleanStep(l)
      BY <1>0, <1>5, ElsewhereStays, CleanStepIs
    <3>2. \A q \in Pods : ~Pop(q) /\ ~Redeliver(q)
      BY <2>1 DEF Pop, Redeliver
    <3> QED
      BY <1>3, <3>1, <3>2, Steps
  <2>3. ctr' = ctr /\ (Register \/ Reconcile \/ ApiDelete \/ CleanDone)
    BY <1>0, <1>5, <2>2, HandlerEnds
  <2>4. CASE Register
    <3>1. inf.pc = "register" /\ tracked'[k] = inf.inc
      BY <1>0, <1>5, <2>4 DEF Register, Track, TypeOK
    <3>2. InitDone(k, inf.inc, j)
      BY <1>5, <3>1 DEF InitsInv, Past, Initing
    <3>3. initOk'[k][j] = initOk[k][j]
      BY <1>0, <1>1, <3>1, OkKept
    <3> QED
      BY <3>1, <3>2, <3>3 DEF InitDone
  <2>5. ~Reconcile
    BY <1>0, <1>1, <1>5 DEF Reconcile, MatchInv, NoAdoption
  <2>6. CASE ApiDelete \/ CleanDone
    <3>1. inf.pc = "apiDelete" \/ (inf.pc = "clean" /\ clean[i] = "done")
      BY <2>6 DEF ApiDelete, CleanDone
    <3>2. ~Exists(ctr[inf.pod][i])
      BY <1>0, <1>1, <1>5, <3>1, NothingLeft
    <3> QED
      BY <1>5, <2>3, <3>2
  <2> QED
    BY <2>3, <2>4, <2>5, <2>6
<1> QED
  BY <1>4, <1>5

\* A pass keeps what it knows while its pod is not created anew.
LEMMA DoneKept == LifeInv /\ InitsInv /\ SeenInv /\ DoneInv /\ [Next]_vars /\ Record => DoneInv'
<1> SUFFICES ASSUME LifeInv, InitsInv, SeenInv, DoneInv, [Next]_vars, Record, NoFault', NEW k \in Pods, ~raced'[k]
             PROVE  DoneOf(k)'
  BY DEF DoneInv
<1>0. /\ TypeOK /\ PutsInv /\ TrackInv /\ RaceInv /\ HeldInv /\ MatchInv
  BY DEF LifeInv, DeleteInv
<1>1. NoFault /\ ~raced[k] /\ LifeInv'
  BY <1>0, NoFaultKept, RacedKept, LifeInvStep
<1>2. DoneOf(k) /\ NoStop /\ NoStop'
  <2>1. faults \in FaultCount /\ faults' \in FaultCount
    BY <1>0, StepTypes DEF TypeOK, FaultCount
  <2>2. NoFault => NoStop
    BY <2>1 DEF NoFault, NoStop, FaultCount
  <2>3. faults'.crashes + faults'.losses = 0
    BY <2>1 DEF NoFault, FaultCount
  <2> QED
    BY <1>1, <2>2, <2>3 DEF DoneInv, NoStop
<1>3. ASSUME inf'.pod # k, NEW i \in Mains, Exists(ctr'[k][i]), NEW j \in Inits
      PROVE  initOk'[k][j] = tracked'[k]
  BY <1>3, DoneThere
<1>4. ASSUME per'.pod = k, NEW i \in Mains, per'.seen[i] = "terminated", NEW j \in Inits
      PROVE  initOk'[k][j] = per'.inc
  <2>1. inf'.pod # k /\ per'.inc = tracked'[k]
    <3>1. TrackInv' /\ RaceInv' /\ HeldInv'
      BY <1>1 DEF LifeInv, DeleteInv
    <3>2. faults'.losses = 0 /\ faults'.crashes + faults'.losses = 0
      BY <1>1, <1>2, <3>1 DEF NoStop, TrackInv, TypeOK
    <3>3. tracked'[k] # 0
      BY <1>4, <3>1 DEF RaceInv, Holds
    <3>4. tracked'[k] \in IF inf'.pod = k THEN {0} ELSE {0, store'[k].inc}
      BY <3>1, <3>2 DEF TrackInv, TrackedIsStored
    <3> QED
      BY <1>4, <3>1, <3>2, <3>3, <3>4 DEF HeldInv
  <2>2. CASE Exists(ctr'[k][i])
    BY <1>3, <2>1, <2>2
  <2>3. CASE per.pod = k /\ per'.inc = per.inc /\ per.seen[i] = "terminated"
    <3>1. inf.pod # k
      BY <1>0, <1>1, <1>2, <2>3, HeldElsewhere DEF Holds
    <3>2. initOk'[k][j] = initOk[k][j]
      BY <1>0, <1>1, <3>1, OkKept
    <3>3. initOk[k][j] = per.inc
      BY <1>2, <2>3 DEF DoneOf
    <3> QED
      BY <2>3, <3>2, <3>3
  <2> QED
    BY <1>0, <1>4, <2>2, <2>3, SeenFrom
<1> QED
  BY <1>3, <1>4 DEF DoneOf

\* All that the history tells of init containers, and what it rests on.
HistInits == LifeInv /\ InitsInv /\ SeenInv /\ DoneInv

\* No init container is past at first,
LEMMA HistInitsInit == HistoryInit => HistInits
<1> SUFFICES ASSUME HistoryInit PROVE InitsInv /\ SeenInv /\ DoneInv
  BY LifeInvInit DEF HistInits, HistoryInit
<1> USE DEF HistoryInit, Init
<1>1. InitsInv
  BY DEF InitsInv, Initing, InfIdle
<1>2. SeenInv
  BY DEF SeenInv, PerIdle
<1>3. DoneInv
  <2>1. \A k \in Pods, i \in Mains : ~Exists(ctr[k][i]) /\ per.seen[i] # "terminated"
    BY DEF Exists, Gone, PerIdle
  <2> QED
    BY <2>1 DEF DoneInv, DoneOf
<1> QED
  BY <1>1, <1>2, <1>3

\* and every step keeps what the history tells of them.
LEMMA HistInitsStep == HistInits /\ [HistoryNext]_<<vars, historyVars>> => HistInits'
<1> SUFFICES ASSUME HistInits, [HistoryNext]_<<vars, historyVars>> PROVE HistInits'
  OBVIOUS
<1>1. LifeInv /\ InitsInv /\ SeenInv /\ DoneInv /\ TypeOK
  BY DEF HistInits, LifeInv, DeleteInv
<1>2. [Next]_vars
  BY HistorySteps
<1>3. LifeInv' /\ SeenInv'
  BY <1>1, <1>2, LifeInvStep, SeenKept
<1>4. CASE Record
  BY <1>1, <1>2, <1>3, <1>4, InitsKept, DoneKept DEF HistInits
<1>5. CASE UNCHANGED vars /\ UNCHANGED historyVars
  <2>1. UNCHANGED <<initOk, inf, per, tracked, ctr, ictr, faults, raced>>
    BY <1>5 DEF vars, historyVars, provVars, boxVars
  <2>2. InitsInv'
    BY <1>1, <2>1 DEF InitsInv, InitDone, Past
  <2>3. DoneInv'
    BY <1>1, <2>1 DEF DoneInv, DoneOf, NoFault
  <2> QED
    BY <1>3, <2>2, <2>3 DEF HistInits
<1> QED
  BY <1>4, <1>5, HistorySteps

\* An init container is started only when those before it have succeeded for the
\* same incarnation, whatever fails; a container, by CreatePod or by a restart,
\* only when all of them have, while nothing fails and no pass has met a deletion
\* of the pod.  For any number of pods, incarnations and containers of both kinds.
THEOREM InitsBeforeMainsAlways == HistorySpec => InitsBeforeMains
<1>1. ASSUME HistInits, [HistoryNext]_<<vars, historyVars>>
      PROVE  [\A k \in Pods : /\ \A i \in Inits : InitsFirst(k, i)
                              /\ \A i \in Mains : InitsBeforeMain(k, i)]_<<vars, historyVars>>
  <2>0. TypeOK /\ InitsInv /\ SeenInv /\ DoneInv /\ [Next]_vars
    BY <1>1, HistorySteps DEF HistInits, LifeInv, DeleteInv
  <2>1. ASSUME NEW k \in Pods, NEW i \in Inits, InitStarted(k, i), NEW j \in 1 .. (i - 1)
        PROVE  initOk[k][j] = ictr'[k][i].inc
    <3>1. RunsInit(k, i)
      BY <2>0, <2>1, WhoStartsInit
    <3>2. j \in Inits /\ j < i
      BY <2>1, ConstantsAssumption DEF Inits
    <3>3. inf.pc = "initRun" /\ inf.pod = k /\ inf.i = i /\ ictr'[k][i].inc = inf.inc
      BY <3>1 DEF RunsInit
    <3>4. InitDone(k, inf.inc, j)
      BY <2>0, <3>2, <3>3 DEF InitsInv, Past, Initing
    <3> QED
      BY <3>3, <3>4 DEF InitDone
  <2>2. ASSUME NEW k \in Pods, NEW i \in Mains, Started(k, i), NoFault, ~raced[k], NEW j \in Inits
        PROVE  initOk[k][j] = ctr'[k][i].inc
    <3>1. CASE RunsMain(k, i)
      <4>1. inf.pc = "mainRun" /\ inf.pod = k /\ ctr'[k][i].inc = inf.inc
        BY <3>1 DEF RunsMain
      <4>2. InitDone(k, inf.inc, j)
        BY <2>0, <4>1 DEF InitsInv, Past, Initing
      <4> QED
        BY <4>1, <4>2 DEF InitDone
    <3>2. CASE Restarts(k, i)
      <4>1. per.pc = "restartRun" /\ per.pod = k /\ per.i = i /\ ctr'[k][i].inc = per.inc
        BY <3>2 DEF Restarts
      <4>2. per.seen[i] = "terminated"
        BY <2>0, <4>1 DEF SeenInv
      <4>3. DoneOf(k)
        BY <2>0, <2>2 DEF DoneInv
      <4> QED
        BY <4>1, <4>2, <4>3 DEF DoneOf
    <3> QED
      BY <2>0, <2>2, <3>1, <3>2, WhoStarts
  <2>3. \A k \in Pods, i \in Inits : InitsFirst(k, i)
    BY <2>1 DEF InitsFirst
  <2>4. \A k \in Pods, i \in Mains : InitsBeforeMain(k, i)
    BY <2>2 DEF InitsBeforeMain, NoFault
  <2> QED
    BY <2>3, <2>4
<1> QED
  BY <1>1, HistInitsInit, HistInitsStep, PTL DEF HistorySpec, InitsBeforeMains

\* The history only watches: a lifecycle with its history is a lifecycle, so that
\* all that PodLifecycleProofs shows holds of it.
THEOREM HistoryIsLifecycle == HistorySpec => Spec
<1>1. HistoryInit => Init
  BY DEF HistoryInit
<1>2. [HistoryNext]_<<vars, historyVars>> => [Next]_vars
  BY HistorySteps
<1> QED
  BY <1>1, <1>2, PTL DEF HistorySpec, Spec

\* Of a lifecycle with its history, then: its types, that its containers are
\* those of what is tracked, and that the kubelet removes a pod after its clean-up.
THEOREM HistoryKeepsLifecycle ==
  HistorySpec => []TypeOK /\ []ContainersMatchTracking /\ RemovedAfterCleanup
BY HistoryIsLifecycle, TypeCorrect, ContainersMatchTrackingAlways, RemovedAfterCleanupAlways, PTL
=============================================================================
