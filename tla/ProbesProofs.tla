---------------------------- MODULE ProbesProofs ----------------------------
(***************************************************************************)
(* Theorems about Probes for any thresholds, any initial delay and any     *)
(* bounds: what a written Ready and a liveness kill rest on, for every     *)
(* interleaving of the loads, stores and resets of the two goroutines.     *)
(***************************************************************************)
EXTENDS Probes, TLAPS

-----------------------------------------------------------------------------
(* The inductive invariant.                                                *)

\* The successes that are kept, and those a goroutine is about to store, are no
\* more than this run of the container had in a row, unless they are in doubt.
EarnedInv ==
  \/ doubtful
  \/ /\ count["readiness"].ok <= streak["readiness"]
     /\ \A w \in Workers : Holds(w) => work[w].next <= streak["readiness"]

\* Within the initial delay of a pod, what is kept or about to be is its
\* predecessor's: the counters of its own are younger than StartTime.
DelayInv ==
  InDelay => \/ doubtful
             \/ count["readiness"].ok = 0 /\ \A w \in Workers : ~MayHold(w)

\* The liveness counters are those of one goroutine: a result that passed is
\* in them when they are read, and one that failed has ended the streak.
LiveInv ==
  LET l == work["periodic"]
      c == count["liveness"]
  IN
  /\ work["informer"].at \in {"idle", "last", "write"}
  /\ l.at = "live" =>
       /\ l.step = "store" /\ l.passed => l.next >= 1
       /\ l.step = "reset" /\ l.passed => c.ok >= 1
       /\ l.step = "read" => streak["liveness"] = 0 \/ (c.ok >= 1 /\ c.bad = 0)

IInv == TypeOK /\ EarnedInv /\ DelayInv /\ LiveInv

-----------------------------------------------------------------------------
(* The counters and the goroutines.                                        *)

\* The thresholds are at least 1, and within the bound of the counters.
LEMMA Thresholds ==
  /\ CountCap \in Nat \ {0}
  /\ Tolerated \in Nat \ {0}
  /\ \A kind \in Kinds : Required(kind) \in Nat \ {0}
  /\ Required("liveness") = 1
  /\ "readiness" \in Kinds /\ "liveness" \in Kinds
<1>1. Tolerated \in Nat \ {0} /\ Tolerated <= CountCap /\ CountCap \in Nat
  BY ProbeConstants DEF Tolerated
<1>2. \A kind \in Kinds : Required(kind) \in Nat \ {0}
  BY ProbeConstants DEF Kinds, Required
<1> QED
  BY <1>1, <1>2 DEF Kinds, Required

\* A result is counted, up to the bound.
LEMMA BumpTypes ==
  ASSUME NEW n \in 0 .. CountCap
  PROVE  /\ Bump(n) \in 1 .. CountCap /\ Bump(n) \in 0 .. CountCap /\ n <= Bump(n)
         /\ \A m \in 0 .. CountCap : n <= m => Bump(n) <= Bump(m)
BY Thresholds DEF Bump

Counter == [ok : 0 .. CountCap, bad : 0 .. CountCap]

\* A key has both counters up only until a reset.
OneUp(kind) ==
  \/ count[kind].ok = 0 \/ count[kind].bad = 0
  \/ \E w \in Workers : work[w].step = "reset" /\ Kind(work[w].at) = kind

\* Every evaluation is of a probe, and only one of them of the liveness probe.
LEMMA KindTypes ==
  /\ \A p \in Places : Kind(p) \in Kinds
  /\ \A p \in Places : Kind(p) = "liveness" <=> p = "live"
  /\ \A p \in Places : Kind(p) = "readiness" <=> p # "live"
  /\ Evaluations \subseteq Places
BY DEF Kind, Kinds, Places, Evaluations

\* A goroutine that is about to go on is a worker's.
LEMMA PlaceTypes ==
  /\ \A p \in Places : /\ At(p) \in Worker /\ At(p).step = "none" /\ At(p).at = p
                       /\ At(p).verdict = FALSE
  /\ {"idle", "first", "live", "kill", "restart", "last", "write"} \subseteq Places
  /\ "periodic" \in Workers /\ "informer" \in Workers
  /\ \A w \in Workers : w # "periodic" => w = "informer"
BY ProbeConstants DEF At, Worker, Places, Workers, Steps

\* One goroutine goes on, and the other stays where it is.
LEMMA MoveTypes ==
  ASSUME TypeOK, NEW w \in Workers, NEW t \in Worker, t.step # "none" => t.at \in Evaluations,
         work' = [work EXCEPT ![w] = t]
  PROVE  /\ work' \in [Workers -> Worker]
         /\ \A v \in Workers : work'[v].step # "none" => work'[v].at \in Evaluations
         /\ work'[w] = t
         /\ \A v \in Workers \ {w} : work'[v] = work[v]
<1>1. work \in [Workers -> Worker]
  BY DEF TypeOK
<1>2. \A v \in Workers : work'[v] = IF v = w THEN t ELSE work[v]
  BY <1>1
<1>3. work' \in [Workers -> Worker]
  BY <1>1
<1> QED
  BY <1>2, <1>3 DEF TypeOK

\* Nothing is kept and nothing is evaluated in a process that has just begun.
FreshWork == [w \in Workers |-> At(IF w = "informer" THEN "last" ELSE "idle")]

LEMMA FreshTypes ==
  /\ NoCount \in [Kinds -> Counter]
  /\ \A kind \in Kinds : NoCount[kind].ok = 0 /\ NoCount[kind].bad = 0
  /\ FreshWork \in [Workers -> Worker]
  /\ \A w \in Workers : FreshWork[w].step = "none"
  /\ FreshWork["periodic"].at = "idle" /\ FreshWork["informer"].at = "last"
  /\ \A w \in Workers : FreshWork[w].at \in {"last", "idle"}
  /\ [kind \in Kinds |-> 0] \in [Kinds -> 0 .. CountCap]
<1>1. 0 \in 0 .. CountCap
  BY Thresholds
<1>2. \A w \in Workers : LET p == IF w = "informer" THEN "last" ELSE "idle" IN
        p \in Places /\ p \in {"last", "idle"} /\ FreshWork[w] = At(p)
  BY PlaceTypes DEF FreshWork
<1>3. \A w \in Workers : FreshWork[w] \in Worker /\ FreshWork[w].step = "none"
                         /\ FreshWork[w].at \in {"last", "idle"}
  BY <1>2, PlaceTypes
<1>4. FreshWork \in [Workers -> Worker]
  BY <1>3 DEF FreshWork
<1>5. FreshWork["periodic"] = At("idle") /\ FreshWork["informer"] = At("last")
  BY PlaceTypes DEF FreshWork
<1> QED
  BY <1>1, <1>3, <1>4, <1>5, PlaceTypes DEF NoCount, Counter

\* What a goroutine holds depends on where it is alone.
LEMMA HoldsKept ==
  /\ \A v \in Workers : work'[v] = work[v] => (Holds(v)' <=> Holds(v)) /\ (MayHold(v)' <=> MayHold(v))
  /\ \A v \in Workers : Holds(v) => MayHold(v)
  /\ \A v \in Workers : work[v].step \notin {"run", "store"} => ~MayHold(v)
  /\ \A v \in Workers : work'[v].step \notin {"run", "store"} => ~MayHold(v)'
  /\ \A v \in Workers : work'[v].step # "store" => ~Holds(v)'
BY DEF Holds, MayHold

\* A counter that nobody touches has no second one up beside it.
LEMMA OneUpKept ==
  ASSUME TypeOK, NEW w \in Workers, work[w].step # "reset", NEW kind \in Kinds,
         \A v \in Workers \ {w} : work'[v] = work[v], count'[kind] = count[kind]
  PROVE  OneUp(kind)'
<1>1. OneUp(kind)
  BY DEF TypeOK, OneUp
<1>2. CASE count[kind].ok = 0 \/ count[kind].bad = 0
  BY <1>2 DEF OneUp
<1>3. CASE \E v \in Workers : work[v].step = "reset" /\ Kind(work[v].at) = kind
  <2>1. PICK v \in Workers : work[v].step = "reset" /\ Kind(work[v].at) = kind
    BY <1>3
  <2>2. work'[v] = work[v]
    BY <2>1
  <2> QED
    BY <2>1, <2>2 DEF OneUp
<1> QED
  BY <1>1, <1>2, <1>3 DEF OneUp

-----------------------------------------------------------------------------
(* The invariant holds.                                                    *)

\* It holds of a process that has just begun.
LEMMA InitInv == Init => IInv
<1> SUFFICES ASSUME Init PROVE IInv
  OBVIOUS
<1>1. /\ up = TRUE /\ healthy \in BOOLEAN /\ age = 0 /\ count = NoCount /\ work = FreshWork
      /\ ready = FALSE /\ faults = 0 /\ streak = [kind \in Kinds |-> 0]
      /\ reused = 0 /\ doubtful = FALSE
  BY DEF Init, FreshWork
<1>2. up \in BOOLEAN /\ ready \in BOOLEAN /\ doubtful \in BOOLEAN
  BY <1>1
<1>3. age \in 0 .. InitialDelay /\ reused \in 0 .. MaxReuse /\ faults \in 0 .. MaxFaults
  BY <1>1, ProbeConstants
<1>4. TypeOK
  BY <1>1, <1>2, <1>3, FreshTypes DEF TypeOK, Counter
<1>5. \A w \in Workers : ~MayHold(w) /\ ~Holds(w)
  BY <1>1, FreshTypes, HoldsKept
<1>6. EarnedInv /\ DelayInv
  BY <1>1, <1>5, FreshTypes, Thresholds DEF EarnedInv, DelayInv
<1>7. LiveInv
  BY <1>1, FreshTypes DEF LiveInv
<1> QED
  BY <1>4, <1>6, <1>7 DEF IInv

\* A goroutine that goes on without a result, whatever happens to the container
\* and to what is written of it.
LEMMA MoveInv ==
  ASSUME IInv, NEW w \in Workers, work[w].step # "reset",
         NEW t \in Worker, t.step = "none", w = "informer" => t.at \in {"idle", "last", "write"},
         work' = [work EXCEPT ![w] = t],
         up' \in BOOLEAN, ready' \in BOOLEAN, faults' \in 0 .. MaxFaults,
         UNCHANGED <<healthy, age, count, reused, streak, doubtful>>
  PROVE  IInv'
<1>1. /\ work' \in [Workers -> Worker]
      /\ \A v \in Workers : work'[v].step # "none" => work'[v].at \in Evaluations
      /\ work'[w] = t
      /\ \A v \in Workers \ {w} : work'[v] = work[v]
  BY MoveTypes DEF IInv
<1>2. \A kind \in Kinds : OneUp(kind)'
  BY <1>1, OneUpKept DEF IInv
<1>3. TypeOK'
  BY <1>1, <1>2 DEF IInv, TypeOK, OneUp
<1>4. /\ ~Holds(w)' /\ ~MayHold(w)'
      /\ \A v \in Workers \ {w} : (Holds(v)' => Holds(v) /\ work'[v].next = work[v].next)
                                  /\ (MayHold(v)' => MayHold(v))
  BY <1>1, HoldsKept
<1>5. EarnedInv' /\ DelayInv'
  BY <1>1, <1>4 DEF IInv, EarnedInv, DelayInv, InDelay
<1>6. LiveInv'
  BY <1>1, PlaceTypes DEF IInv, LiveInv
<1> QED
  BY <1>3, <1>5, <1>6 DEF IInv

-----------------------------------------------------------------------------
(* The evaluation of a probe.                                              *)

\* Where a verdict sends a goroutine from evaluation p.
Target(p, verdict) ==
  CASE p = "first" -> At("live")
    [] p = "live"  -> At(IF verdict THEN "last" ELSE "kill")
    [] p = "last"  -> [At("write") EXCEPT !.verdict = verdict]

\* It runs no probe there, and nothing is lost of the verdict.
LEMMA TargetTypes ==
  ASSUME NEW p \in Evaluations, NEW verdict \in BOOLEAN
  PROVE  /\ Target(p, verdict) \in Worker
         /\ Target(p, verdict).step = "none"
         /\ Target(p, verdict).at = "write" => p = "last" /\ Target(p, verdict).verdict = verdict
         /\ Target(p, verdict).at = "kill" => p = "live" /\ ~verdict
         /\ p = "last" => Target(p, verdict).at = "write"
<1>1. CASE p = "first"
  BY <1>1, PlaceTypes DEF Target
<1>2. CASE p = "live"
  BY <1>2, PlaceTypes DEF Target
<1>3. CASE p = "last"
  <2>1. Target(p, verdict) = [at |-> "write", step |-> "none", passed |-> FALSE, next |-> 0,
                              verdict |-> verdict]
    BY <1>3 DEF Target, At
  <2>2. 0 \in 0 .. CountCap
    BY Thresholds
  <2>3. [at |-> "write", step |-> "none", passed |-> FALSE, next |-> 0, verdict |-> verdict]
          \in Worker
    BY <2>2 DEF Worker, Places, Steps
  <2>4. /\ Target(p, verdict).at = "write" /\ Target(p, verdict).step = "none"
        /\ Target(p, verdict).verdict = verdict
    BY <2>1
  <2> QED
    BY <1>3, <2>1, <2>3, <2>4
<1> QED
  BY <1>1, <1>2, <1>3 DEF Evaluations

\* A verdict is a move.
LEMMA SendInv ==
  ASSUME IInv, NEW w \in Workers, work[w].at \in Evaluations, work[w].step # "reset",
         NEW verdict \in BOOLEAN, work' = Send(w, work[w].at, verdict),
         UNCHANGED <<up, healthy, age, count, ready, faults, reused, streak, doubtful>>
  PROVE  IInv'
<1> DEFINE t == Target(work[w].at, verdict)
<1>1. work' = [work EXCEPT ![w] = t]
  BY DEF Send, Target
<1>2. t \in Worker /\ t.step = "none"
  BY TargetTypes
<1>3. w = "informer" => t.at \in {"idle", "last", "write"}
  <2>1. w = "informer" => work[w].at = "last"
    BY DEF IInv, LiveInv, Evaluations
  <2> QED
    BY <2>1, TargetTypes
<1>4. up' \in BOOLEAN /\ ready' \in BOOLEAN /\ faults' \in 0 .. MaxFaults
  BY DEF IInv, TypeOK
<1> HIDE DEF t
<1> QED
  BY <1>1, <1>2, <1>3, <1>4, MoveInv

\* What an evaluation changes of its goroutine, and what it leaves alone.
LEMMA StepTypes ==
  ASSUME IInv, NEW w \in Workers, work[w].at \in Evaluations,
         NEW s \in Steps, NEW passed \in BOOLEAN, NEW next \in 0 .. CountCap,
         work' = [work EXCEPT ![w].step = s, ![w].passed = passed, ![w].next = next]
  PROVE  /\ work' \in [Workers -> Worker]
         /\ \A v \in Workers : work'[v].step # "none" => work'[v].at \in Evaluations
         /\ work'[w].at = work[w].at /\ work'[w].step = s
         /\ work'[w].passed = passed /\ work'[w].next = next
         /\ \A v \in Workers \ {w} : work'[v] = work[v]
<1> DEFINE t == [work[w] EXCEPT !.step = s, !.passed = passed, !.next = next]
<1>1. work \in [Workers -> Worker] /\ work[w] \in Worker
  BY DEF IInv, TypeOK
<1>2. t \in Worker /\ t.at = work[w].at /\ t.step = s /\ t.passed = passed /\ t.next = next
  BY <1>1 DEF Worker
<1>3. work' = [work EXCEPT ![w] = t]
  BY <1>1
<1> HIDE DEF t
<1> QED
  BY <1>2, <1>3, MoveTypes DEF IInv

\* An evaluation that begins: past the initial delay it runs the probe.
LEMMA BeginInv == ASSUME IInv, NEW w \in Workers, Begin(w) PROVE IInv'
<1> DEFINE p == work[w].at
           verdict == count[Kind(p)].ok > 0
<1>1. /\ p \in Evaluations /\ work[w].step = "none"
      /\ UNCHANGED <<up, healthy, age, count, ready, faults, reused, streak, doubtful>>
      /\ work' = IF InDelay THEN Send(w, p, verdict) ELSE [work EXCEPT ![w].step = "run"]
  BY DEF Begin, histVars
<1>2. CASE InDelay
  <2>1. verdict \in BOOLEAN
    OBVIOUS
  <2>2. work' = Send(w, work[w].at, verdict)
    BY <1>1, <1>2
  <2> HIDE DEF verdict
  <2> QED
    BY <1>1, <2>1, <2>2, SendInv
<1>3. CASE ~InDelay
  <2>1. work[w] \in Worker /\ work \in [Workers -> Worker]
    BY DEF IInv, TypeOK
  <2>2. work' = [work EXCEPT ![w].step = "run", ![w].passed = work[w].passed,
                             ![w].next = work[w].next]
    BY <1>1, <1>3, <2>1 DEF Worker
  <2>3. work[w].passed \in BOOLEAN /\ work[w].next \in 0 .. CountCap /\ "run" \in Steps
    BY <2>1 DEF Worker, Steps
  <2>4. /\ work' \in [Workers -> Worker]
        /\ \A v \in Workers : work'[v].step # "none" => work'[v].at \in Evaluations
        /\ work'[w].at = work[w].at /\ work'[w].step = "run"
        /\ \A v \in Workers \ {w} : work'[v] = work[v]
    <3>1. work[w].at \in Evaluations
      BY <1>1
    <3> HIDE DEF p, verdict
    <3> QED
      BY <2>2, <2>3, <3>1, StepTypes
  <2>5. \A kind \in Kinds : OneUp(kind)'
    BY <1>1, <2>4, OneUpKept DEF IInv
  <2>6. TypeOK'
    BY <1>1, <2>4, <2>5 DEF IInv, TypeOK, OneUp
  <2>7. \A v \in Workers : Holds(v)' => Holds(v) /\ work'[v].next = work[v].next
    BY <2>4, HoldsKept
  <2>8. EarnedInv' /\ DelayInv'
    BY <1>1, <1>3, <2>7 DEF IInv, EarnedInv, DelayInv, InDelay
  <2>9. LiveInv'
    <3>1. UNCHANGED <<count, streak>>
      BY <1>1
    <3>2. CASE w = "periodic"
      BY <2>4, <3>1, <3>2, PlaceTypes DEF IInv, LiveInv
    <3>3. CASE w = "informer"
      BY <2>4, <3>1, <3>3, PlaceTypes DEF IInv, LiveInv
    <3> QED
      BY <3>2, <3>3, PlaceTypes
  <2> QED
    BY <2>6, <2>8, <2>9 DEF IInv
<1> QED
  BY <1>2, <1>3

\* A result that is loaded: the streak grows with what the goroutine holds.
LEMMA LoadInv == ASSUME IInv, NEW w \in Workers, Load(w) PROVE IInv'
<1> DEFINE kind == Kind(work[w].at)
           kept == IF Passes THEN count[kind].ok ELSE count[kind].bad
<1>1. /\ work[w].step = "run"
      /\ work' = [work EXCEPT ![w].step = "store", ![w].passed = Passes, ![w].next = Bump(kept)]
      /\ streak' = IF Passes THEN [streak EXCEPT ![kind] = Bump(@)] ELSE streak
      /\ UNCHANGED <<up, healthy, age, count, ready, faults, reused, doubtful>>
  BY DEF Load
<1>2. /\ work[w].at \in Evaluations /\ work[w].at \in Places /\ kind \in Kinds
      /\ Passes \in BOOLEAN /\ count[kind] \in Counter /\ streak \in [Kinds -> 0 .. CountCap]
  BY <1>1, KindTypes DEF IInv, TypeOK, Passes, Worker, Counter
<1>3. kept \in 0 .. CountCap
  BY <1>2 DEF Counter
<1>4. /\ Bump(kept) \in 0 .. CountCap /\ Bump(kept) \in 1 .. CountCap
      /\ \A n \in 0 .. CountCap : Bump(n) \in 0 .. CountCap /\ n <= Bump(n)
      /\ \A n \in 0 .. CountCap : kept <= n => Bump(kept) <= Bump(n)
  BY <1>3, BumpTypes
<1>5. "store" \in Steps
  BY DEF Steps
<1>6. Passes => kept = count[kind].ok
  OBVIOUS
<1> HIDE DEF kept
<1>7. /\ work' \in [Workers -> Worker]
      /\ \A v \in Workers : work'[v].step # "none" => work'[v].at \in Evaluations
      /\ work'[w].at = work[w].at /\ work'[w].step = "store"
      /\ work'[w].passed = Passes /\ work'[w].next = Bump(kept)
      /\ \A v \in Workers \ {w} : work'[v] = work[v]
  BY <1>1, <1>2, <1>4, <1>5, StepTypes
<1>8. /\ streak' \in [Kinds -> 0 .. CountCap]
      /\ \A l \in Kinds : streak'[l] = IF Passes /\ l = kind THEN Bump(streak[l]) ELSE streak[l]
  BY <1>1, <1>2, <1>4
<1> HIDE DEF kind
<1>9. \A l \in Kinds : OneUp(l)'
  BY <1>1, <1>7, OneUpKept DEF IInv
<1>10. TypeOK'
  BY <1>1, <1>7, <1>8, <1>9 DEF IInv, TypeOK, OneUp
<1>11. \A v \in Workers \ {w} : (Holds(v)' => Holds(v) /\ work'[v].next = work[v].next)
                                /\ (MayHold(v)' => MayHold(v))
  BY <1>7, HoldsKept
<1>12. MayHold(w)' => MayHold(w)
  BY <1>1, <1>7 DEF MayHold, Holds
<1>13. EarnedInv'
  <2>1. CASE doubtful
    BY <1>1, <2>1 DEF EarnedInv
  <2>2. CASE ~doubtful
    <3> DEFINE old == streak["readiness"]
               new == streak'["readiness"]
    <3>1. /\ count["readiness"].ok <= old
          /\ \A v \in Workers : Holds(v) => work[v].next <= old
      BY <2>2 DEF IInv, EarnedInv
    <3>2. old \in 0 .. CountCap /\ new \in 0 .. CountCap /\ old <= new
      <4>1. old \in 0 .. CountCap /\ new \in 0 .. CountCap
        BY <1>2, <1>8, Thresholds
      <4>2. new = old \/ new = Bump(old)
        BY <1>8, Thresholds
      <4>3. old <= old
        BY <4>1, Thresholds
      <4> QED
        BY <1>4, <4>1, <4>2, <4>3
    <3>3. /\ count'["readiness"].ok \in 0 .. CountCap
          /\ \A v \in Workers : work[v].next \in 0 .. CountCap
      BY <1>10, Thresholds DEF IInv, TypeOK, Worker
    <3>4. Holds(w)' => work'[w].next <= new
      <4> SUFFICES ASSUME Holds(w)' PROVE work'[w].next <= new
        OBVIOUS
      <4>1. Passes /\ kind = "readiness"
        BY <1>7 DEF Holds, kind
      <4>2. kept = count["readiness"].ok /\ new = Bump(old)
        BY <1>6, <1>8, <4>1, Thresholds
      <4> QED
        BY <1>4, <1>7, <3>1, <3>2, <4>2
    <3> HIDE DEF old, new
    <3>5. \A m, n, o \in 0 .. CountCap : m <= n /\ n <= o => m <= o
      BY Thresholds
    <3>6. count'["readiness"].ok <= new
      BY <1>1, <3>1, <3>2, <3>3, <3>5
    <3>7. \A v \in Workers : Holds(v)' => work'[v].next <= new
      BY <1>11, <3>1, <3>2, <3>3, <3>4, <3>5
    <3> QED
      BY <3>6, <3>7 DEF EarnedInv, new
  <2> QED
    BY <2>1, <2>2
<1>14. DelayInv'
  BY <1>1, <1>11, <1>12 DEF IInv, DelayInv, InDelay
<1>15. LiveInv'
  <2>1. CASE w = "periodic"
    <3>1. Bump(kept) >= 1
      BY <1>4, Thresholds
    <3> QED
      BY <1>1, <1>7, <2>1, <3>1, PlaceTypes DEF IInv, LiveInv
  <2>2. CASE w = "informer"
    <3>1. kind # "liveness"
      BY <1>2, <2>2, KindTypes DEF IInv, LiveInv, kind
    <3>2. streak'["liveness"] = streak["liveness"]
      BY <1>8, <3>1, Thresholds
    <3> QED
      BY <1>1, <1>7, <2>2, <3>2, PlaceTypes DEF IInv, LiveInv
  <2> QED
    BY <2>1, <2>2, PlaceTypes
<1> QED
  BY <1>10, <1>13, <1>14, <1>15 DEF IInv

\* A result that is stored: what the goroutine held is kept.
LEMMA StoreInv == ASSUME IInv, NEW w \in Workers, Store(w) PROVE IInv'
<1> DEFINE kind == Kind(work[w].at)
           n == work[w].next
<1>1. /\ work[w].step = "store"
      /\ count' = IF work[w].passed THEN [count EXCEPT ![kind].ok = n]
                                    ELSE [count EXCEPT ![kind].bad = n]
      /\ work' = [work EXCEPT ![w].step = "reset", ![w].next = 0]
      /\ UNCHANGED <<up, healthy, age, ready, faults, reused, streak, doubtful>>
  BY DEF Store, histVars
<1>2. /\ work[w] \in Worker /\ work \in [Workers -> Worker] /\ count \in [Kinds -> Counter]
      /\ work[w].passed \in BOOLEAN /\ n \in 0 .. CountCap
      /\ work[w].at \in Evaluations /\ work[w].at \in Places /\ kind \in Kinds
  BY <1>1, KindTypes DEF IInv, TypeOK, Worker, Counter
<1>3. work' = [work EXCEPT ![w].step = "reset", ![w].passed = work[w].passed, ![w].next = 0]
  BY <1>1, <1>2 DEF Worker
<1>4. "reset" \in Steps /\ 0 \in 0 .. CountCap
  BY Thresholds DEF Steps
<1>5. /\ work' \in [Workers -> Worker]
      /\ \A v \in Workers : work'[v].step # "none" => work'[v].at \in Evaluations
      /\ work'[w].at = work[w].at /\ work'[w].step = "reset"
      /\ work'[w].passed = work[w].passed
      /\ \A v \in Workers \ {w} : work'[v] = work[v]
  BY <1>2, <1>3, <1>4, StepTypes
<1>6. count' \in [Kinds -> Counter]
  BY <1>1, <1>2 DEF Counter
<1>7. /\ \A l \in Kinds : l # kind => count'[l] = count[l]
      /\ work[w].passed => count'[kind].ok = n
      /\ ~work[w].passed => count'[kind].ok = count[kind].ok
  BY <1>1, <1>2 DEF Counter
<1>8. \A l \in Kinds : OneUp(l)'
  <2> SUFFICES ASSUME NEW l \in Kinds PROVE OneUp(l)'
    OBVIOUS
  <2>1. CASE l = kind
    BY <1>5, <2>1 DEF OneUp
  <2>2. CASE l # kind
    BY <1>1, <1>5, <1>7, <2>2, OneUpKept DEF IInv
  <2> QED
    BY <2>1, <2>2
<1>9. Holds(w) <=> kind = "readiness" /\ work[w].passed
  BY <1>1 DEF Holds
<1>10. MayHold(w) <=> kind = "readiness" /\ work[w].passed
  BY <1>1 DEF Holds, MayHold
<1> HIDE DEF kind, n
<1>11. TypeOK'
  BY <1>1, <1>5, <1>6, <1>8 DEF IInv, TypeOK, OneUp, Counter
<1>12. /\ ~Holds(w)' /\ ~MayHold(w)'
       /\ \A v \in Workers \ {w} : (Holds(v)' => Holds(v) /\ work'[v].next = work[v].next)
                                   /\ (MayHold(v)' => MayHold(v))
  BY <1>5, HoldsKept
<1>13. count'["readiness"].ok = IF Holds(w) THEN n ELSE count["readiness"].ok
  BY <1>2, <1>7, <1>9, Thresholds
<1>14. EarnedInv'
  BY <1>1, <1>12, <1>13 DEF IInv, EarnedInv, n
<1>15. DelayInv'
  BY <1>1, <1>9, <1>10, <1>12, <1>13 DEF IInv, DelayInv, InDelay
<1>16. LiveInv'
  <2>1. CASE w = "periodic"
    <3>1. work[w].at = "live" /\ work[w].passed => count'["liveness"].ok >= 1
      <4>1. work[w].at = "live" => kind = "liveness"
        BY <1>2, KindTypes DEF kind
      <4> QED
        BY <1>1, <1>7, <2>1, <4>1 DEF IInv, LiveInv, n
    <3> QED
      BY <1>1, <1>5, <2>1, <3>1, PlaceTypes DEF IInv, LiveInv
  <2>2. CASE w = "informer"
    <3>1. kind # "liveness"
      BY <1>2, <2>2, KindTypes DEF IInv, LiveInv, kind
    <3>2. count'["liveness"] = count["liveness"]
      BY <1>7, <3>1, Thresholds
    <3> QED
      BY <1>1, <1>5, <2>2, <3>2, PlaceTypes DEF IInv, LiveInv
  <2> QED
    BY <2>1, <2>2, PlaceTypes
<1> QED
  BY <1>11, <1>14, <1>15, <1>16 DEF IInv

\* The other counter is reset: what another goroutine still holds of a streak
\* that ends leaves the successes in doubt.
LEMMA ResetInv == ASSUME IInv, NEW w \in Workers, Reset(w) PROVE IInv'
<1> DEFINE kind == Kind(work[w].at)
           passed == work[w].passed
<1>1. /\ work[w].step = "reset"
      /\ count' = IF passed THEN [count EXCEPT ![kind].bad = 0] ELSE [count EXCEPT ![kind].ok = 0]
      /\ streak' = IF passed THEN streak ELSE [streak EXCEPT ![kind] = 0]
      /\ doubtful' = IF passed \/ kind = "liveness" THEN doubtful
                     ELSE OthersHold(w) \/ (doubtful /\ OthersMayHold(w))
      /\ work' = [work EXCEPT ![w].step = "read", ![w].passed = FALSE]
      /\ UNCHANGED <<up, healthy, age, ready, faults, reused>>
  BY DEF Reset
<1>2. /\ work[w] \in Worker /\ work \in [Workers -> Worker] /\ count \in [Kinds -> Counter]
      /\ passed \in BOOLEAN /\ work[w].next \in 0 .. CountCap
      /\ work[w].at \in Evaluations /\ work[w].at \in Places /\ kind \in Kinds
      /\ streak \in [Kinds -> 0 .. CountCap] /\ doubtful \in BOOLEAN
  BY <1>1, KindTypes DEF IInv, TypeOK, Worker, Counter
<1>3. work' = [work EXCEPT ![w].step = "read", ![w].passed = FALSE, ![w].next = work[w].next]
  BY <1>1, <1>2 DEF Worker
<1>4. "read" \in Steps /\ FALSE \in BOOLEAN /\ 0 \in 0 .. CountCap
  BY Thresholds DEF Steps
<1>5. /\ work' \in [Workers -> Worker]
      /\ \A v \in Workers : work'[v].step # "none" => work'[v].at \in Evaluations
      /\ work'[w].at = work[w].at /\ work'[w].step = "read"
      /\ \A v \in Workers \ {w} : work'[v] = work[v]
  <2>1. /\ work' \in [Workers -> Worker]
        /\ \A v \in Workers : work'[v].step # "none" => work'[v].at \in Evaluations
        /\ work'[w].at = work[w].at /\ work'[w].step = "read"
        /\ work'[w].passed = FALSE /\ work'[w].next = work[w].next
        /\ \A v \in Workers \ {w} : work'[v] = work[v]
    BY <1>2, <1>3, <1>4, StepTypes
  <2> QED
    BY <2>1
<1>6. count' \in [Kinds -> Counter] /\ streak' \in [Kinds -> 0 .. CountCap]
  BY <1>1, <1>2, <1>4 DEF Counter
<1>7. /\ \A l \in Kinds : l # kind => count'[l] = count[l] /\ streak'[l] = streak[l]
      /\ passed => /\ count'[kind].ok = count[kind].ok /\ count'[kind].bad = 0
                   /\ streak'[kind] = streak[kind]
      /\ ~passed => count'[kind].ok = 0 /\ streak'[kind] = 0
  BY <1>1, <1>2 DEF Counter
<1>8. doubtful' \in BOOLEAN
  BY <1>1, <1>2 DEF OthersHold, OthersMayHold
<1>9. \A l \in Kinds : OneUp(l)'
  <2> SUFFICES ASSUME NEW l \in Kinds PROVE OneUp(l)'
    OBVIOUS
  <2>1. CASE l = kind
    BY <1>2, <1>7, <2>1 DEF OneUp
  <2>2. CASE l # kind
    <3>1. OneUp(l)
      BY DEF IInv, TypeOK, OneUp
    <3>2. count'[l] = count[l]
      BY <1>7, <2>2
    <3>3. CASE count[l].ok = 0 \/ count[l].bad = 0
      BY <3>2, <3>3 DEF OneUp
    <3>4. CASE \E v \in Workers : work[v].step = "reset" /\ Kind(work[v].at) = l
      <4>1. PICK v \in Workers : work[v].step = "reset" /\ Kind(work[v].at) = l
        BY <3>4
      <4>2. work'[v] = work[v]
        BY <1>5, <2>2, <4>1
      <4> QED
        BY <4>1, <4>2 DEF OneUp
    <3> QED
      BY <3>1, <3>3, <3>4 DEF OneUp
  <2> QED
    BY <2>1, <2>2
<1>10. kind = "liveness" <=> kind # "readiness"
  BY <1>2 DEF Kinds
<1>11. /\ ~Holds(w)' /\ ~MayHold(w)'
       /\ \A v \in Workers \ {w} : /\ Holds(v)' => Holds(v) /\ work'[v].next = work[v].next
                                   /\ MayHold(v)' => MayHold(v)
       /\ \A v \in Workers : Holds(v) => MayHold(v)
  BY <1>5, HoldsKept
<1>12. kind = "liveness" => work[w].at = "live"
  BY <1>2, KindTypes
<1>13. w = "informer" => kind # "liveness"
  BY <1>2, KindTypes DEF IInv, LiveInv
<1>14. work[w].at = "live" => kind = "liveness"
  BY <1>2, KindTypes
<1> HIDE DEF kind
<1>15. TypeOK'
  BY <1>1, <1>5, <1>6, <1>8, <1>9 DEF IInv, TypeOK, OneUp, Counter
<1>16. ASSUME passed \/ kind = "liveness" PROVE EarnedInv' /\ DelayInv'
  <2>1. doubtful' = doubtful
    BY <1>1, <1>16
  <2>2. count'["readiness"].ok = count["readiness"].ok /\ streak'["readiness"] = streak["readiness"]
    <3>1. CASE kind = "liveness"
      BY <1>7, <1>10, <3>1, Thresholds
    <3>2. CASE kind = "readiness"
      BY <1>7, <1>10, <1>16, <3>2
    <3> QED
      BY <1>10, <3>1, <3>2
  <2>3. EarnedInv'
    BY <1>11, <2>1, <2>2 DEF IInv, EarnedInv
  <2>4. age' = age
    BY <1>1
  <2>5. DelayInv'
    BY <1>11, <2>1, <2>2, <2>4 DEF IInv, DelayInv, InDelay
  <2> QED
    BY <2>3, <2>5
<1>17. ASSUME ~passed, kind = "readiness" PROVE EarnedInv' /\ DelayInv'
  <2>1. doubtful' = (OthersHold(w) \/ (doubtful /\ OthersMayHold(w)))
    BY <1>1, <1>10, <1>17
  <2>2. count'["readiness"].ok = 0 /\ streak'["readiness"] = 0
    BY <1>7, <1>17
  <2>3. 0 <= 0
    OBVIOUS
  <2>4. EarnedInv'
    BY <1>11, <2>1, <2>2, <2>3 DEF EarnedInv, OthersHold
  <2>5. DelayInv'
    <3>1. CASE doubtful'
      BY <3>1 DEF DelayInv
    <3>2. CASE ~InDelay
      BY <1>1, <3>2 DEF DelayInv, InDelay
    <3>3. CASE ~doubtful' /\ InDelay
      <4>1. \A v \in Workers \ {w} : ~MayHold(v)
        <5>1. CASE doubtful
          BY <2>1, <3>3, <5>1 DEF OthersMayHold
        <5>2. CASE ~doubtful
          BY <3>3, <5>2 DEF IInv, DelayInv
        <5> QED
          BY <5>1, <5>2
      <4> QED
        BY <1>11, <2>2, <4>1 DEF DelayInv
    <3> QED
      BY <3>1, <3>2, <3>3
  <2> QED
    BY <2>4, <2>5
<1>18. LiveInv'
  <2>1. CASE w = "periodic"
    <3>1. work[w].at = "live" => \/ streak'["liveness"] = 0
                                 \/ count'["liveness"].ok >= 1 /\ count'["liveness"].bad = 0
      <4>1. work[w].at = "live" /\ passed => count["liveness"].ok >= 1
        BY <1>1, <2>1 DEF IInv, LiveInv
      <4> QED
        BY <1>2, <1>7, <1>14, <4>1
    <3> QED
      BY <1>5, <2>1, <3>1, PlaceTypes DEF IInv, LiveInv
  <2>2. CASE w = "informer"
    <3>1. count'["liveness"] = count["liveness"] /\ streak'["liveness"] = streak["liveness"]
      BY <1>7, <1>13, <2>2, Thresholds
    <3> QED
      BY <1>5, <2>2, <3>1, PlaceTypes DEF IInv, LiveInv
  <2> QED
    BY <2>1, <2>2, PlaceTypes
<1> QED
  BY <1>10, <1>15, <1>16, <1>17, <1>18 DEF IInv

\* A verdict that is read off the counters.
LEMMA DecideInv == ASSUME IInv, NEW w \in Workers, Decide(w) PROVE IInv'
<1> DEFINE verdict == Verdict(Kind(work[w].at), count[Kind(work[w].at)])
<1>1. /\ work[w].step = "read" /\ work' = Send(w, work[w].at, verdict)
      /\ UNCHANGED <<up, healthy, age, count, ready, faults, reused, streak, doubtful>>
  BY DEF Decide, histVars
<1>2. verdict \in BOOLEAN /\ work[w].at \in Evaluations
  BY <1>1 DEF Verdict, IInv, TypeOK
<1> HIDE DEF verdict
<1> QED
  BY <1>1, <1>2, SendInv

-----------------------------------------------------------------------------
(* The other steps.                                                        *)

\* A goroutine at a place where nothing is evaluated.
LEMMA QuietStep ==
  ASSUME IInv, NEW w \in Workers, work[w].at \notin Evaluations \/ work[w].step = "none"
  PROVE  work[w].step # "reset"
BY DEF IInv, TypeOK

\* The steps of either goroutine that are no evaluation.
LEMMA WorkerInv ==
  ASSUME IInv, NEW w \in Workers, NotRunning(w) \/ Write(w) \/ CallFails(w)
  PROVE  IInv'
<1>1. up \in BOOLEAN /\ ready \in BOOLEAN /\ faults \in 0 .. MaxFaults /\ work[w] \in Worker
  BY DEF IInv, TypeOK
<1>2. CASE NotRunning(w)
  <2>1. /\ work[w].step = "none" /\ work' = [work EXCEPT ![w] = At("write")]
        /\ UNCHANGED <<up, healthy, age, count, ready, faults, reused, streak, doubtful>>
    BY <1>2, PlaceTypes DEF NotRunning, histVars
  <2>2. up' \in BOOLEAN /\ ready' \in BOOLEAN /\ faults' \in 0 .. MaxFaults
    BY <1>1, <2>1
  <2> QED
    BY <2>1, <2>2, PlaceTypes, MoveInv
<1>3. CASE Write(w)
  <2>1. /\ work[w].at = "write" /\ work' = [work EXCEPT ![w] = At("idle")]
        /\ ready' = work[w].verdict
        /\ UNCHANGED <<up, healthy, age, count, faults, reused, streak, doubtful>>
    BY <1>3 DEF Write, histVars
  <2>2. up' \in BOOLEAN /\ ready' \in BOOLEAN /\ faults' \in 0 .. MaxFaults
    BY <1>1, <2>1 DEF Worker
  <2>3. work[w].step # "reset"
    BY <2>1, QuietStep DEF Evaluations
  <2> DEFINE t == At("idle")
  <2>4. t \in Worker /\ t.step = "none" /\ t.at = "idle"
    BY PlaceTypes
  <2> HIDE DEF t
  <2>5. work' = [work EXCEPT ![w] = t]
    BY <2>1 DEF t
  <2> QED
    BY <2>1, <2>2, <2>3, <2>4, <2>5, MoveInv
<1>4. CASE CallFails(w)
  <2> DEFINE next == [idle |-> "last", live |-> "last", kill |-> "last",
                      last |-> "write", write |-> "idle"]
             p == next[work[w].at]
  <2>1. /\ faults < MaxFaults /\ faults' = faults + 1
        /\ work[w].at \in DOMAIN next /\ work[w].step = "none"
        /\ work' = [work EXCEPT ![w] = At(p)]
        /\ UNCHANGED <<up, healthy, age, count, ready, reused, streak, doubtful>>
    BY <1>4 DEF CallFails, histVars
  <2>2. p \in {"idle", "last", "write"} /\ p \in Places
    BY <2>1 DEF Places
  <2> HIDE DEF p, next
  <2>3. up' \in BOOLEAN /\ ready' \in BOOLEAN /\ faults' \in 0 .. MaxFaults
    BY <1>1, <2>1, ProbeConstants
  <2> QED
    BY <2>1, <2>2, <2>3, PlaceTypes, MoveInv
<1> QED
  BY <1>2, <1>3, <1>4

\* Those of the pass.
LEMMA PassInv == ASSUME IInv, Pass PROVE IInv'
<1>1. up \in BOOLEAN /\ ready \in BOOLEAN /\ faults \in 0 .. MaxFaults
  BY DEF IInv, TypeOK
<1>2. CASE StartPass \/ LivenessKill \/ Backoff
  <2>1. PICK q \in Places : work' = [work EXCEPT !["periodic"] = At(q)]
    BY <1>2, PlaceTypes DEF StartPass, LivenessKill, Backoff
  <2>2. /\ work["periodic"].at \in {"idle", "kill", "restart"}
        /\ up' \in BOOLEAN /\ ready' = ready /\ faults' = faults
        /\ UNCHANGED <<healthy, age, count, reused, streak, doubtful>>
    BY <1>1, <1>2 DEF StartPass, LivenessKill, Backoff, histVars
  <2>3. work["periodic"].step # "reset"
    BY <2>2, QuietStep, PlaceTypes DEF Evaluations
  <2>4. ready' \in BOOLEAN /\ faults' \in 0 .. MaxFaults
    BY <1>1, <2>2
  <2> QED
    BY <2>1, <2>2, <2>3, <2>4, PlaceTypes, MoveInv
<1>3. CASE Restart
  <2>1. /\ work' = [work EXCEPT !["periodic"] = At("last")] /\ work["periodic"].at = "restart"
        /\ up' = TRUE /\ count' = NoCount /\ streak' = [kind \in Kinds |-> 0]
        /\ doubtful' = OthersMayHold("periodic")
        /\ UNCHANGED <<healthy, age, ready, faults, reused>>
    BY <1>3 DEF Restart
  <2>2. up' \in BOOLEAN /\ doubtful' \in BOOLEAN
    BY <2>1 DEF OthersMayHold
  <2>3. /\ work' \in [Workers -> Worker]
        /\ \A v \in Workers : work'[v].step # "none" => work'[v].at \in Evaluations
        /\ work'["periodic"] = At("last")
        /\ \A v \in Workers \ {"periodic"} : work'[v] = work[v]
    BY <2>1, PlaceTypes, MoveTypes DEF IInv
  <2>4. \A kind \in Kinds : OneUp(kind)'
    BY <2>1, FreshTypes DEF OneUp
  <2>5. TypeOK'
    BY <2>1, <2>2, <2>3, <2>4, FreshTypes DEF IInv, TypeOK, Counter
  <2>6. /\ ~Holds("periodic")' /\ ~MayHold("periodic")'
        /\ \A v \in Workers \ {"periodic"} : (Holds(v)' <=> Holds(v)) /\ (MayHold(v)' <=> MayHold(v))
        /\ \A v \in Workers : Holds(v) => MayHold(v)
    BY <2>3, PlaceTypes, HoldsKept
  <2>7. ~doubtful' => \A v \in Workers : ~Holds(v)' /\ ~MayHold(v)'
    BY <2>1, <2>6 DEF OthersMayHold
  <2>8. count'["readiness"].ok = 0 /\ streak'["readiness"] = 0
    BY <2>1, FreshTypes, Thresholds
  <2>9. EarnedInv' /\ DelayInv'
    BY <2>7, <2>8 DEF EarnedInv, DelayInv
  <2>10. LiveInv'
    BY <2>3, PlaceTypes DEF IInv, LiveInv
  <2> QED
    BY <2>5, <2>9, <2>10 DEF IInv
<1> QED
  BY <1>2, <1>3 DEF Pass

\* The container and the clock touch no counter; the delay only shrinks.
LEMMA ClockInv == ASSUME IInv, Exit \/ Turn \/ Elapse PROVE IInv'
<1>1. /\ UNCHANGED <<count, work, ready, faults, streak, reused, doubtful>>
      /\ up' \in BOOLEAN /\ healthy' \in BOOLEAN
  <2>1. CASE Exit
    BY <2>1 DEF Exit, probeVars, histVars, IInv, TypeOK
  <2>2. CASE Turn
    BY <2>2 DEF Turn, probeVars, histVars, IInv, TypeOK
  <2>3. CASE Elapse
    BY <2>3 DEF Elapse, probeVars, histVars, IInv, TypeOK
  <2> QED
    BY <2>1, <2>2, <2>3
<1>2. age' \in 0 .. InitialDelay /\ (InDelay' => InDelay)
  <2>1. age' = age \/ (age < InitialDelay /\ age' = age + 1)
    BY DEF Exit, Turn, Elapse, InDelay
  <2>2. age \in 0 .. InitialDelay
    BY DEF IInv, TypeOK
  <2> QED
    BY <2>1, <2>2, ProbeConstants DEF InDelay
<1>3. TypeOK'
  BY <1>1, <1>2 DEF IInv, TypeOK
<1>4. \A v \in Workers : (Holds(v)' <=> Holds(v)) /\ (MayHold(v)' <=> MayHold(v))
  BY <1>1, HoldsKept
<1>5. EarnedInv' /\ DelayInv' /\ LiveInv'
  BY <1>1, <1>2, <1>4 DEF IInv, EarnedInv, DelayInv, LiveInv
<1> QED
  BY <1>3, <1>5 DEF IInv

\* What a pod inherits with its name is in doubt.
LEMMA RecreateInv == ASSUME IInv, Recreate PROVE IInv'
<1>1. /\ reused < MaxReuse /\ reused' = reused + 1 /\ work["informer"].at = "idle"
      /\ work' = [work EXCEPT !["informer"] = At("last")]
      /\ up' = TRUE /\ age' = 0 /\ ready' = FALSE /\ streak' = [kind \in Kinds |-> 0]
      /\ doubtful' = TRUE
      /\ UNCHANGED <<healthy, count, faults>>
  BY DEF Recreate
<1>2. up' \in BOOLEAN /\ doubtful' \in BOOLEAN /\ ready' \in BOOLEAN
  BY <1>1
<1>3. reused' \in 0 .. MaxReuse /\ age' \in 0 .. InitialDelay
  <2>1. reused \in 0 .. MaxReuse
    BY DEF IInv, TypeOK
  <2> QED
    BY <1>1, <2>1, ProbeConstants
<1>4. /\ work' \in [Workers -> Worker]
      /\ \A v \in Workers : work'[v].step # "none" => work'[v].at \in Evaluations
      /\ work'["informer"] = At("last")
      /\ \A v \in Workers \ {"informer"} : work'[v] = work[v]
  BY <1>1, PlaceTypes, MoveTypes DEF IInv
<1>5. work["informer"].step # "reset"
  BY <1>1, PlaceTypes, QuietStep DEF Evaluations
<1>6. \A kind \in Kinds : OneUp(kind)'
  BY <1>1, <1>4, <1>5, PlaceTypes, OneUpKept DEF IInv
<1>7. TypeOK'
  BY <1>1, <1>2, <1>3, <1>4, <1>6, FreshTypes DEF IInv, TypeOK, OneUp
<1>8. EarnedInv' /\ DelayInv'
  BY <1>1 DEF EarnedInv, DelayInv
<1>9. LiveInv'
  <2>1. work'["periodic"] = work["periodic"] /\ streak'["liveness"] = 0 /\ count' = count
    BY <1>1, <1>4, PlaceTypes, Thresholds
  <2> QED
    BY <1>4, <2>1, PlaceTypes DEF IInv, LiveInv
<1> QED
  BY <1>7, <1>8, <1>9 DEF IInv

\* A new process has counted nothing.
LEMMA KubeletRestartInv == ASSUME IInv, KubeletRestart PROVE IInv'
<1>1. /\ faults < MaxFaults /\ faults' = faults + 1
      /\ count' = NoCount /\ work' = FreshWork /\ up' = TRUE /\ doubtful' = FALSE
      /\ age' = IF up THEN age ELSE 0
      /\ streak' = IF up THEN streak ELSE [kind \in Kinds |-> 0]
      /\ UNCHANGED <<healthy, ready, reused>>
  BY DEF KubeletRestart, FreshWork
<1>2. up' \in BOOLEAN /\ doubtful' \in BOOLEAN
  BY <1>1
<1>3. faults' \in 0 .. MaxFaults /\ age' \in 0 .. InitialDelay
  <2>1. faults \in 0 .. MaxFaults /\ age \in 0 .. InitialDelay
    BY DEF IInv, TypeOK
  <2> QED
    BY <1>1, <2>1, ProbeConstants
<1>4. streak' \in [Kinds -> 0 .. CountCap]
  BY <1>1, FreshTypes DEF IInv, TypeOK
<1>5. TypeOK'
  BY <1>1, <1>2, <1>3, <1>4, FreshTypes DEF IInv, TypeOK, Counter
<1>6. streak'["readiness"] \in 0 .. CountCap /\ count'["readiness"].ok = 0
  BY <1>1, <1>4, FreshTypes, Thresholds
<1>7. \A v \in Workers : ~Holds(v)' /\ ~MayHold(v)'
  BY <1>1, FreshTypes, HoldsKept
<1>8. EarnedInv' /\ DelayInv'
  BY <1>6, <1>7, Thresholds DEF EarnedInv, DelayInv
<1>9. LiveInv'
  BY <1>1, FreshTypes DEF LiveInv
<1> QED
  BY <1>5, <1>8, <1>9 DEF IInv

\* Nothing changes, and nothing is broken.
LEMMA StutterInv == IInv /\ UNCHANGED vars => IInv'
<1> SUFFICES ASSUME IInv, UNCHANGED vars PROVE IInv'
  OBVIOUS
<1> USE DEF vars, probeVars, histVars
<1>1. TypeOK'
  BY DEF IInv, TypeOK
<1>2. EarnedInv' /\ DelayInv' /\ LiveInv'
  BY DEF IInv, EarnedInv, DelayInv, LiveInv, InDelay, Holds, MayHold
<1> QED
  BY <1>1, <1>2 DEF IInv

\* The invariant is inductive.
LEMMA IInvAlways == Spec => []IInv
<1>1. IInv /\ [Next]_vars => IInv'
  BY BeginInv, LoadInv, StoreInv, ResetInv, DecideInv, WorkerInv, PassInv, ClockInv, RecreateInv,
     KubeletRestartInv, StutterInv DEF Next, Step, Evaluate, Environment
<1> QED
  BY <1>1, InitInv, PTL DEF Spec

\* Every variable keeps its type: a key has successes and failures in a row at
\* once only until a reset, and only an evaluation runs a probe.
THEOREM ProbesTypeCorrect == Spec => []TypeOK
<1>1. IInv => TypeOK
  BY DEF IInv
<1> QED
  BY <1>1, IInvAlways, PTL

-----------------------------------------------------------------------------
(* What a verdict rests on.                                                *)

\* Whoever gets to write a Ready, or to kill, has just read off a verdict, or
\* what is kept during the initial delay.
LEMMA WhoDecides ==
  ASSUME IInv, [Next]_vars, NEW w \in Workers,
         \/ work[w].at = "last" /\ work'[w].at = "write" /\ work'[w].verdict
         \/ work[w].at = "live" /\ work'[w].at = "kill"
  PROVE  Begin(w) \/ Decide(w)
<1> DEFINE Decided == \/ work[w].at = "last" /\ work'[w].at = "write" /\ work'[w].verdict
                      \/ work[w].at = "live" /\ work'[w].at = "kill"
<1>1. work \in [Workers -> Worker] /\ Decided
  BY DEF IInv, TypeOK
<1>2. ASSUME NEW v \in Workers, NEW t, work' = [work EXCEPT ![v] = t],
             t.at \notin {"kill"}, t.at = "write" => ~t.verdict
      PROVE  FALSE
  <2>1. CASE v = w
    BY <1>1, <1>2, <2>1
  <2>2. CASE v # w
    BY <1>1, <1>2, <2>2
  <2> QED
    BY <2>1, <2>2
<1>3. work' # work
  BY <1>1
<1>4. work'[w].at # work[w].at
  BY <1>1
<1>5. ASSUME NEW v \in Workers, Load(v) \/ Store(v) \/ Reset(v) PROVE FALSE
  <2>1. work[w] \in Worker
    BY <1>1
  <2>2. CASE Load(v)
    <3> DEFINE kept == IF Passes THEN count[Kind(work[v].at)].ok ELSE count[Kind(work[v].at)].bad
    <3>1. work' = [work EXCEPT ![v].step = "store", ![v].passed = Passes, ![v].next = Bump(kept)]
      BY <2>2 DEF Load
    <3> HIDE DEF kept
    <3> QED
      BY <1>1, <1>4, <2>1, <3>1 DEF Worker
  <2>3. CASE Store(v)
    <3>1. work' = [work EXCEPT ![v].step = "reset", ![v].next = 0]
      BY <2>3 DEF Store
    <3> QED
      BY <1>1, <1>4, <2>1, <3>1 DEF Worker
  <2>4. CASE Reset(v)
    <3>1. work' = [work EXCEPT ![v].step = "read", ![v].passed = FALSE]
      BY <2>4 DEF Reset
    <3> QED
      BY <1>1, <1>4, <2>1, <3>1 DEF Worker
  <2> QED
    BY <1>5, <2>2, <2>3, <2>4
<1>6. ASSUME NEW v \in Workers, v # w, Begin(v) \/ Decide(v) PROVE FALSE
  <2>1. \E t : work' = [work EXCEPT ![v] = t]
    <3>1. \/ \E d : work' = Send(v, work[v].at, d)
          \/ work' = [work EXCEPT ![v].step = "run"]
      BY <1>6 DEF Begin, Decide
    <3>2. CASE \E d : work' = Send(v, work[v].at, d)
      BY <3>2 DEF Send
    <3>3. CASE work' = [work EXCEPT ![v].step = "run"]
      BY <3>3
    <3> QED
      BY <3>1, <3>2, <3>3
  <2>2. work'[w] = work[w]
    BY <1>1, <1>6, <2>1
  <2> QED
    BY <1>4, <2>2
<1> HIDE DEF Decided
<1>7. ASSUME NEW v \in Workers, NotRunning(v) \/ Write(v) PROVE FALSE
  BY <1>2, <1>7, PlaceTypes DEF NotRunning, Write
<1>8. ASSUME NEW v \in Workers, CallFails(v) PROVE FALSE
  <2> DEFINE next == [idle |-> "last", live |-> "last", kill |-> "last",
                      last |-> "write", write |-> "idle"]
             q == next[work[v].at]
  <2>1. work[v].at \in DOMAIN next /\ work' = [work EXCEPT ![v] = At(q)]
    BY <1>8 DEF CallFails
  <2>2. q \in {"idle", "last", "write"}
    BY <2>1
  <2> HIDE DEF q, next
  <2> QED
    BY <1>2, <2>1, <2>2, PlaceTypes
<1>9. ~Pass
  <2>1. ASSUME Pass PROVE \E q \in Places \ {"kill", "write"} : work' = [work EXCEPT !["periodic"] = At(q)]
    BY <2>1 DEF Pass, StartPass, LivenessKill, Backoff, Restart, Places
  <2> QED
    BY <1>2, <2>1, PlaceTypes
<1>10. ~(Exit \/ Turn \/ Elapse \/ UNCHANGED vars)
  BY <1>3 DEF Exit, Turn, Elapse, vars, probeVars
<1>11. ~Recreate
  BY <1>2, PlaceTypes DEF Recreate
<1>12. ~KubeletRestart
  <2>1. ASSUME KubeletRestart PROVE work'[w].at \in {"last", "idle"}
    BY <2>1, FreshTypes DEF KubeletRestart, FreshWork
  <2> QED
    BY <1>1, <2>1 DEF Decided
<1> QED
  BY <1>5, <1>6, <1>7, <1>8, <1>9, <1>10, <1>11, <1>12 DEF Next, Step, Evaluate, Environment

\* Where the goroutine was sent, and what decided it.
LEMMA Decision ==
  ASSUME IInv, [Next]_vars, NEW w \in Workers,
         \/ work[w].at = "last" /\ work'[w].at = "write" /\ work'[w].verdict
         \/ work[w].at = "live" /\ work'[w].at = "kill"
  PROVE  LET kind == Kind(work[w].at)
             says(v) == IF work[w].at = "last" THEN v ELSE ~v
         IN \/ InDelay /\ says(count[kind].ok > 0)
            \/ /\ work[w].step = "read" /\ streak' = streak
               /\ says(Verdict(kind, count[kind]))
<1> DEFINE p == work[w].at
           kind == Kind(p)
<1>1. p \in {"last", "live"} /\ p \in Evaluations /\ work \in [Workers -> Worker]
  BY DEF Evaluations, IInv, TypeOK
<1>2. ASSUME NEW verdict \in BOOLEAN, work' = Send(w, p, verdict)
      PROVE  IF p = "last" THEN verdict ELSE ~verdict
  <2>1. /\ Target(p, verdict).at = "write" => p = "last" /\ Target(p, verdict).verdict = verdict
        /\ Target(p, verdict).at = "kill" => p = "live" /\ ~verdict
    BY <1>1, TargetTypes
  <2>2. work'[w] = Target(p, verdict)
    BY <1>1, <1>2 DEF Send, Target
  <2> QED
    BY <1>1, <2>1, <2>2
<1>3. CASE Begin(w)
  <2> DEFINE verdict == count[kind].ok > 0
  <2>1. work' = IF InDelay THEN Send(w, p, verdict) ELSE [work EXCEPT ![w].step = "run"]
    BY <1>3 DEF Begin
  <2>2. InDelay
    <3>1. work'[w].at # p
      BY <1>1
    <3>2. [work EXCEPT ![w].step = "run"][w].at = p
      BY <1>1 DEF Worker
    <3> QED
      BY <2>1, <3>1, <3>2
  <2>3. verdict \in BOOLEAN
    OBVIOUS
  <2>4. work' = Send(w, p, verdict)
    BY <2>1, <2>2
  <2> HIDE DEF verdict
  <2>5. IF p = "last" THEN verdict ELSE ~verdict
    BY <1>2, <2>3, <2>4
  <2> QED
    BY <2>2, <2>5 DEF verdict
<1>4. CASE Decide(w)
  <2>1. /\ work[w].step = "read" /\ streak' = streak
        /\ work' = Send(w, p, Verdict(kind, count[kind]))
    BY <1>4 DEF Decide, histVars
  <2>2. Verdict(kind, count[kind]) \in BOOLEAN
    BY DEF Verdict
  <2> QED
    BY <1>2, <2>1, <2>2
<1>5. Begin(w) \/ Decide(w)
  BY WhoDecides
<1> HIDE DEF p, kind
<1> QED
  BY <1>3, <1>4, <1>5 DEF p, kind

\* A Ready that is written was earned by as many passes in a row as the spec
\* asks for, of this run of the container, unless one of the races that leave
\* the kept successes in doubt has happened since they were last reset.
THEOREM ReadyIsEarnedAlways == Spec => ReadyIsEarned
<1> DEFINE Says(w) == work[w].at = "last" /\ work'[w].at = "write" /\ work'[w].verdict
           Earned == streak["readiness"] >= Required("readiness") \/ doubtful
<1>1. ASSUME IInv, [Next]_vars, NEW w \in Workers, Says(w) PROVE Earned
  <2>1. \/ InDelay /\ count["readiness"].ok > 0
        \/ Verdict("readiness", count["readiness"])
    <3>1. Kind(work[w].at) = "readiness"
      BY <1>1 DEF Kind
    <3> QED
      BY <1>1, <3>1, Decision
  <2>2. /\ count["readiness"].ok \in 0 .. CountCap /\ streak["readiness"] \in 0 .. CountCap
        /\ CountCap \in Nat /\ Required("readiness") \in Nat
    BY <1>1, Thresholds DEF IInv, TypeOK
  <2>3. CASE InDelay /\ count["readiness"].ok > 0
    BY <1>1, <2>2, <2>3 DEF IInv, DelayInv
  <2>4. CASE Verdict("readiness", count["readiness"])
    <3>1. count["readiness"].ok >= Required("readiness")
      BY <2>4 DEF Verdict
    <3> QED
      BY <1>1, <2>2, <3>1 DEF IInv, EarnedInv
  <2> QED
    BY <2>1, <2>3, <2>4
<1>2. IInv /\ [Next]_vars =>
        \A w \in Workers :
          work[w].at = "last" /\ work'[w].at = "write" /\ work'[w].verdict
            => streak["readiness"] >= Required("readiness") \/ doubtful
  BY <1>1
<1> QED
  BY <1>2, IInvAlways, PTL DEF Spec, ReadyIsEarned

\* No container is killed for a readiness result, for counters that were kept,
\* or for a liveness probe that passed.
THEOREM OnlyFailuresKillAlways == Spec => OnlyFailuresKill
<1>1. ASSUME IInv, [Next]_vars, work["periodic"].at = "live", work'["periodic"].at = "kill"
      PROVE  InDelay \/ streak'["liveness"] = 0
  <2>1. \/ InDelay
        \/ /\ work["periodic"].step = "read" /\ streak' = streak
           /\ ~Verdict("liveness", count["liveness"])
    <3>1. Kind("live") = "liveness"
      BY DEF Kind
    <3> QED
      BY <1>1, <3>1, Decision, PlaceTypes
  <2>2. CASE /\ work["periodic"].step = "read" /\ streak' = streak
             /\ ~Verdict("liveness", count["liveness"])
    <3>1. streak["liveness"] = 0 \/ (count["liveness"].ok >= 1 /\ count["liveness"].bad = 0)
      BY <1>1, <2>2 DEF IInv, LiveInv
    <3>2. count["liveness"].ok >= 1 /\ count["liveness"].bad = 0
            => Verdict("liveness", count["liveness"])
      BY Thresholds DEF Verdict
    <3> QED
      BY <2>2, <3>1, <3>2
  <2> QED
    BY <2>1, <2>2
<1>2. IInv /\ [Next]_vars =>
        (work["periodic"].at = "live" /\ work'["periodic"].at = "kill"
           => InDelay \/ streak'["liveness"] = 0)
  BY <1>1
<1> QED
  BY <1>2, IInvAlways, PTL DEF Spec, OnlyFailuresKill
=============================================================================
