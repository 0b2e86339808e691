------------------------------- MODULE Probes -------------------------------
(***************************************************************************)
(* Liveness and readiness probes: pkg/provider/probes.go, where handle-    *)
(* Restarts, inspectContainerStatuses and GetPodStatus call it.            *)
(*                                                                         *)
(* One container with both probes, in a pod whose policy is not Never, and *)
(* the two goroutines that evaluate its probes: the pass of periodic-      *)
(* StatusSync, and the informer, which syncs a pod's status once after it  *)
(* has created or adopted it.  Both use the counters of the one            *)
(* probeRunner.  An evaluation looks at the clock, runs the probe, which   *)
(* may take its whole timeout, and only then touches the counters: one is  *)
(* loaded, its successor stored, the other reset, and both are read again. *)
(*                                                                         *)
(* The counters are Go maps that nothing locks: those steps of the two     *)
(* goroutines interleave, or the runtime finds out and ends the process    *)
(* (an instance of KubeletRestart).                                        *)
(*                                                                         *)
(* A definition whose name ends in Bug is no part of the specification: it *)
(* is the definition it stands before, with a mistake the code could well  *)
(* have, and serves to confirm that a property would notice.               *)
(***************************************************************************)
EXTENDS Naturals

CONSTANTS
  SuccessThreshold,  \* of the readiness probe, as in the spec: 0 is unset
  FailureThreshold,  \* of both probes, as in the spec: 0 is unset
  InitialDelay,      \* of both probes, in units of time
  CountCap,          \* bound: the counters count up to here; above the thresholds
                     \* nothing depends on them
  MaxReuse,          \* bound: pods that use the name again
  MaxFaults          \* bound: stops of the kubelet process and calls that fail

Kinds == {"readiness", "liveness"}

\* The API server admits no liveness probe with a success threshold but 1.
Required(kind) ==
  IF kind = "liveness" \/ SuccessThreshold = 0 THEN 1 ELSE SuccessThreshold
Tolerated == IF FailureThreshold = 0 THEN 3 ELSE FailureThreshold

ASSUME ProbeConstants ==
  /\ SuccessThreshold \in Nat
  /\ FailureThreshold \in Nat
  /\ InitialDelay \in Nat
  /\ CountCap \in Nat
  /\ MaxReuse \in Nat
  /\ MaxFaults \in Nat
  /\ \A kind \in Kinds : Required(kind) <= CountCap
  /\ Tolerated <= CountCap

VARIABLES
  up,       \* the container runs
  healthy,  \* a probe that is run now passes
  age,      \* time since the pod's StartTime, up to InitialDelay
  count,    \* count[kind]: the successes and failures in a row that are kept
  work,     \* work[w]: where goroutine w is
  ready,    \* the Ready last written to the API server
  faults,   \* stops of the kubelet process and failed calls so far
  reused,   \* how often the name has been used again
  streak,   \* history: passes in a row that this run of the container had
  doubtful  \* history: the successes kept may not be of that streak

probeVars == <<count, work>>
histVars  == <<streak, doubtful>>
vars == <<up, healthy, age, probeVars, ready, faults, reused, histVars>>

Workers == {"periodic", "informer"}

\* At "first", "live" and "last" a probe is evaluated, step by step: it runs,
\* its result is stored, the other counter reset, and a verdict read off.
Places == {"idle", "first", "live", "kill", "restart", "last", "write"}
Evaluations == {"first", "live", "last"}
Steps  == {"none", "run", "store", "reset", "read"}

\* `passed` is the result, `next` the counter that was loaded, plus one;
\* `verdict` is what is about to be written.
Worker == [at : Places, step : Steps, passed : BOOLEAN, next : 0 .. CountCap,
           verdict : BOOLEAN]
At(p)  == [at |-> p, step |-> "none", passed |-> FALSE, next |-> 0, verdict |-> FALSE]

Kind(place) == IF place = "live" THEN "liveness" ELSE "readiness"
NoCount == [kind \in Kinds |-> [ok |-> 0, bad |-> 0]]

\* The types; a key has both counters up only until a goroutine that has
\* stored one resets the other; and only an evaluation runs a probe.
TypeOK ==
  /\ up \in BOOLEAN /\ healthy \in BOOLEAN /\ ready \in BOOLEAN /\ doubtful \in BOOLEAN
  /\ age \in 0 .. InitialDelay
  /\ count \in [Kinds -> [ok : 0 .. CountCap, bad : 0 .. CountCap]]
  /\ work \in [Workers -> Worker]
  /\ \A kind \in Kinds :
       \/ count[kind].ok = 0 \/ count[kind].bad = 0
       \/ \E w \in Workers : work[w].step = "reset" /\ Kind(work[w].at) = kind
  /\ \A w \in Workers : work[w].step # "none" => work[w].at \in Evaluations
  /\ streak \in [Kinds -> 0 .. CountCap]
  /\ reused \in 0 .. MaxReuse
  /\ faults \in 0 .. MaxFaults

\* CreatePod has started the container and the informer is to sync its status.
Init ==
  /\ up = TRUE
  /\ healthy \in BOOLEAN
  /\ age = 0
  /\ count = NoCount
  /\ work = [w \in Workers |-> At(IF w = "informer" THEN "last" ELSE "idle")]
  /\ ready = FALSE
  /\ faults = 0
  /\ streak = [kind \in Kinds |-> 0]
  /\ reused = 0
  /\ doubtful = FALSE

-----------------------------------------------------------------------------
(* evaluateProbe.                                                          *)

InDelay == age < InitialDelay

\* runProbe, whichever kind the probe is: one that finds the container gone,
\* or takes longer than its timeout, has failed.
Passes == up /\ healthy
Bump(n) == IF n < CountCap THEN n + 1 ELSE n

\* A goroutine holds a success of the readiness probe that it will store, or
\* may come to: it runs the probe, of the container that is there now.
Holds(w) ==
  Kind(work[w].at) = "readiness" /\ work[w].step = "store" /\ work[w].passed
MayHold(w) == Holds(w) \/ (Kind(work[w].at) = "readiness" /\ work[w].step = "run")

OthersHold(w) == \E v \in Workers \ {w} : Holds(v)
OthersMayHold(w) == \E v \in Workers \ {w} : MayHold(v)

VerdictBug(kind, c) == c.ok = Required(kind) /\ c.bad < Tolerated

Verdict(kind, c) == c.ok >= Required(kind) /\ c.bad < Tolerated

SendBug(w, p, verdict) ==               \* the liveness verdict is dropped
  [work EXCEPT ![w] = CASE p = "first" -> At("live")
                        [] p = "live"  -> At("last")
                        [] p = "last"  -> [At("write") EXCEPT !.verdict = verdict]]

\* Where the verdict of evaluation p sends the goroutine: of the first
\* readiness evaluation, in handleRestarts, nothing is used.
Send(w, p, verdict) ==
  [work EXCEPT ![w] = CASE p = "first" -> At("live")
                        [] p = "live"  -> At(IF verdict THEN "last" ELSE "kill")
                        [] p = "last"  -> [At("write") EXCEPT !.verdict = verdict]]

\* The evaluation begins: within the initial delay it is over at once, and
\* what is kept from earlier decides.
Begin(w) ==
  LET p == work[w].at IN
  /\ p \in Evaluations
  /\ work[w].step = "none"
  /\ p = "last" => up
  /\ work' = IF InDelay THEN Send(w, p, count[Kind(p)].ok > 0)
                        ELSE [work EXCEPT ![w].step = "run"]
  /\ UNCHANGED <<up, healthy, age, count, ready, faults, reused, histVars>>

\* The probe is done, and the counter to be incremented is loaded.
Load(w) ==
  LET kind == Kind(work[w].at)
      kept == IF Passes THEN count[kind].ok ELSE count[kind].bad
  IN
  /\ work[w].step = "run"
  /\ work' = [work EXCEPT ![w].step = "store", ![w].passed = Passes, ![w].next = Bump(kept)]
  /\ streak' = IF Passes THEN [streak EXCEPT ![kind] = Bump(@)] ELSE streak
  /\ UNCHANGED <<up, healthy, age, count, ready, faults, reused, doubtful>>

\* It is stored, whatever has become of it meanwhile.  (A store into an entry
\* that clearProbeState has removed is lost, as if it had come before.)
Store(w) ==
  LET kind == Kind(work[w].at) IN
  /\ work[w].step = "store"
  /\ count' = IF work[w].passed THEN [count EXCEPT ![kind].ok = work[w].next]
                                ELSE [count EXCEPT ![kind].bad = work[w].next]
  /\ work' = [work EXCEPT ![w].step = "reset", ![w].next = 0]
  /\ UNCHANGED <<up, healthy, age, ready, faults, reused, histVars>>

ResetBug(w) ==                          \* a failure keeps the successes
  LET kind == Kind(work[w].at) IN
  /\ work[w].step = "reset"
  /\ count' = IF work[w].passed THEN [count EXCEPT ![kind].bad = 0] ELSE count
  /\ streak' = IF work[w].passed THEN streak ELSE [streak EXCEPT ![kind] = 0]
  /\ doubtful' = IF work[w].passed \/ kind = "liveness" THEN doubtful
                 ELSE OthersHold(w) \/ (doubtful /\ OthersMayHold(w))
  /\ work' = [work EXCEPT ![w].step = "read", ![w].passed = FALSE]
  /\ UNCHANGED <<up, healthy, age, ready, faults, reused>>

\* The other counter is reset.  With the successes the streak ends, unless the
\* other goroutine, which loaded them before, is going to store them again.
Reset(w) ==
  LET kind == Kind(work[w].at) IN
  /\ work[w].step = "reset"
  /\ count' = IF work[w].passed THEN [count EXCEPT ![kind].bad = 0]
                                ELSE [count EXCEPT ![kind].ok = 0]
  /\ streak' = IF work[w].passed THEN streak ELSE [streak EXCEPT ![kind] = 0]
  /\ doubtful' = IF work[w].passed \/ kind = "liveness" THEN doubtful
                 ELSE OthersHold(w) \/ (doubtful /\ OthersMayHold(w))
  /\ work' = [work EXCEPT ![w].step = "read", ![w].passed = FALSE]
  /\ UNCHANGED <<up, healthy, age, ready, faults, reused>>

\* Both counters are read again.
Decide(w) ==
  LET p == work[w].at IN
  /\ work[w].step = "read"
  /\ work' = Send(w, p, Verdict(Kind(p), count[Kind(p)]))
  /\ UNCHANGED <<up, healthy, age, count, ready, faults, reused, histVars>>

-----------------------------------------------------------------------------
(* The pass of periodicStatusSync, and the writing of a status.            *)

\* The containers are inspected: one that runs has its probes evaluated, one
\* that has terminated is restarted unless its backoff window is open.
StartPass ==
  /\ work["periodic"].at = "idle"
  /\ work' = [work EXCEPT !["periodic"] = At(IF up THEN "first" ELSE "restart")]
  /\ UNCHANGED <<up, healthy, age, count, ready, faults, reused, histVars>>

LivenessKill ==
  /\ work["periodic"].at = "kill"
  /\ up' = FALSE
  /\ work' = [work EXCEPT !["periodic"] = At("last")]
  /\ UNCHANGED <<healthy, age, count, ready, faults, reused, histVars>>

RestartBug ==                           \* does not call clearProbeState
  /\ work["periodic"].at = "restart"
  /\ up' = TRUE
  /\ streak' = [kind \in Kinds |-> 0]
  /\ doubtful' = OthersMayHold("periodic")
  /\ work' = [work EXCEPT !["periodic"] = At("last")]
  /\ UNCHANGED <<healthy, age, count, ready, faults, reused>>

\* restartContainer, with clearProbeState.  StartTime stays the pod's.  What
\* the other goroutine holds is of the container that was.
Restart ==
  /\ work["periodic"].at = "restart"
  /\ up' = TRUE
  /\ count' = NoCount
  /\ streak' = [kind \in Kinds |-> 0]
  /\ doubtful' = OthersMayHold("periodic")
  /\ work' = [work EXCEPT !["periodic"] = At("last")]
  /\ UNCHANGED <<healthy, age, ready, faults, reused>>

Backoff ==
  /\ work["periodic"].at = "restart"
  /\ work' = [work EXCEPT !["periodic"] = At("last")]
  /\ UNCHANGED <<up, healthy, age, count, ready, faults, reused, histVars>>

\* A container that does not run is not probed, and not ready.
NotRunning(w) ==
  /\ work[w] = At("last")
  /\ ~up
  /\ work' = [work EXCEPT ![w] = At("write")]
  /\ UNCHANGED <<up, healthy, age, count, ready, faults, reused, histVars>>

WriteBug(w) ==                          \* a Ready that was lost is not given back
  /\ work[w].at = "write"
  /\ ready' = (ready /\ work[w].verdict)
  /\ work' = [work EXCEPT ![w] = At("idle")]
  /\ UNCHANGED <<up, healthy, age, count, faults, reused, histVars>>

\* syncPodStatus writes what GetPodStatus found.
Write(w) ==
  /\ work[w].at = "write"
  /\ ready' = work[w].verdict
  /\ work' = [work EXCEPT ![w] = At("idle")]
  /\ UNCHANGED <<up, healthy, age, count, faults, reused, histVars>>

\* A call fails, and the goroutine goes on as the code has it: from a failing
\* Inspect to a container that waits, which is neither probed nor restarted nor
\* ready; from a failing Kill to a container that still runs; and from a failing
\* Get or UpdateStatus to the next pod, with nothing written.
CallFails(w) ==
  LET next == [idle |-> "last", live |-> "last", kill |-> "last",
               last |-> "write", write |-> "idle"]
  IN
  /\ faults < MaxFaults
  /\ faults' = faults + 1
  /\ work[w].at \in DOMAIN next /\ work[w].step = "none"
  /\ work[w].at = "idle" => w = "periodic"
  /\ work' = [work EXCEPT ![w] = At(next[work[w].at])]
  /\ UNCHANGED <<up, healthy, age, count, ready, reused, histVars>>

-----------------------------------------------------------------------------
(* The container, the clock, the pod's successor, and the kubelet.         *)

Exit ==
  /\ up
  /\ up' = FALSE
  /\ UNCHANGED <<healthy, age, probeVars, ready, faults, reused, histVars>>

Turn ==
  /\ healthy' = ~healthy
  /\ UNCHANGED <<up, age, probeVars, ready, faults, reused, histVars>>

\* Time passes at any rate; an update whose status has no StartTime ends the
\* delay, which is to say that all of it passes.
Elapse ==
  /\ InDelay
  /\ age' = age + 1
  /\ UNCHANGED <<up, healthy, probeVars, ready, faults, reused, histVars>>

\* The pod is deleted and another of its name created.  What probeRunner has
\* under the name stays.
Recreate ==
  /\ reused < MaxReuse
  /\ work["informer"].at = "idle"
  /\ reused' = reused + 1
  /\ up' = TRUE
  /\ age' = 0
  /\ ready' = FALSE
  /\ streak' = [kind \in Kinds |-> 0]
  /\ doubtful' = TRUE
  /\ work' = [work EXCEPT !["informer"] = At("last")]
  /\ UNCHANGED <<healthy, count, faults>>

\* The process stops, by itself or because its maps were written twice, and
\* a new one adopts the container or, if it does not run, creates it again.
KubeletRestart ==
  /\ faults < MaxFaults
  /\ faults' = faults + 1
  /\ count' = NoCount
  /\ work' = [w \in Workers |-> At(IF w = "informer" THEN "last" ELSE "idle")]
  /\ up' = TRUE
  /\ age' = IF up THEN age ELSE 0
  /\ streak' = IF up THEN streak ELSE [kind \in Kinds |-> 0]
  /\ doubtful' = FALSE
  /\ UNCHANGED <<healthy, ready, reused>>

-----------------------------------------------------------------------------
Evaluate(w) == Begin(w) \/ Load(w) \/ Store(w) \/ Reset(w) \/ Decide(w)
Step(w) == Evaluate(w) \/ NotRunning(w) \/ Write(w)
Pass == StartPass \/ LivenessKill \/ Restart \/ Backoff
Environment == Exit \/ Turn \/ Recreate \/ KubeletRestart

Next ==
  \/ \E w \in Workers : Step(w) \/ CallFails(w)
  \/ Pass \/ Elapse \/ Environment

Spec == Init /\ [][Next]_vars

\* Both goroutines go on, and so does the clock.
FairSpec ==
  /\ Spec
  /\ \A w \in Workers : WF_vars(Step(w))
  /\ WF_vars(Pass)
  /\ WF_vars(Elapse)

-----------------------------------------------------------------------------
\* A status that says Ready is earned by the container that runs: this run of
\* it passed its readiness probe SuccessThreshold times in a row, and nothing
\* is owed to a run before the last restart (clearProbeState in
\* restartContainer).  That is so but for three cases, until a failure or a
\* restart leaves nothing in doubt: a goroutine stores a success it loaded
\* before the other's failure reset them (the increment of probes.go:102); a
\* goroutine's probe was of the container before the restart; or the pod
\* inherited the counters of a predecessor of its name.
ReadyIsEarned ==
  [][\A w \in Workers :
       work[w].at = "last" /\ work'[w].at = "write" /\ work'[w].verdict
         => streak["readiness"] >= Required("readiness") \/ doubtful]_vars

\* Past the initial delay, only a liveness probe that has just failed has its
\* container killed: readiness results, kept counters and restarts do not.
OnlyFailuresKill ==
  [][work["periodic"].at = "live" /\ work'["periodic"].at = "kill"
       => InDelay \/ streak'["liveness"] = 0]_vars

\* A container that is up and healthy for good is reported Ready for good,
\* however its counters stand.
HealthyGetsReady == <>[](up /\ healthy) => <>[]ready

\* A container that is unhealthy for good is killed, again and again.
UnhealthyIsKilled == <>[]~healthy => []<>~up
=============================================================================
