-------------------------- MODULE CrashLoopProofs --------------------------
(***************************************************************************)
(* Theorems about CrashLoop for any longest window and any bounds: what is *)
(* kept about a container is about the runs it should be about, and        *)
(* restarts keep the distance of the documented schedule.                  *)
(***************************************************************************)
EXTENDS CrashLoop, WellFoundedInduction, TLAPS

-----------------------------------------------------------------------------
(* The inductive invariant.                                                *)

\* The container is of the latest run, or is not there.
LatestInv == c.inc = (IF Exists(c) THEN runs ELSE 0)

\* A restart that is to be counted has been a run.
CountInv == pass = "book" => count + 1 < runs

\* A restart is not begun before its window is closed, and since then time has
\* only gone on.
WaitInv == pass \in {"logs", "state", "rm", "run"} => ~ShouldBackoff

\* What an undisturbed restart has captured when it is at each of its places.
CaptureInv ==
  alone =>
    /\ pass = "act" /\ shown = "terminated" => c.st \in Exited
    /\ pass \in {"logs", "state", "rm"} => c.st \in Exited
    /\ pass \in {"state", "rm", "run"} => prev = runs
    /\ pass \in {"rm", "run"} => last = runs
    /\ pass = "run" => ~Exists(c)
    /\ pass = "book" => prev = runs - 1 /\ last = runs - 1

IInv == TypeOK /\ LatestInv /\ CountInv /\ WaitInv /\ CaptureInv /\ LastStateIsPast

-----------------------------------------------------------------------------
(* Induction.  The library's theorems have the property as an operator;    *)
(* here it is a set.                                                       *)

\* The naturals are well-founded: a set of them has a least element.
LEMMA LeastNumber ==
  ASSUME NEW T, T \subseteq Nat, T # {}
  PROVE  \E x \in T : \A y \in T : x <= y
<1> DEFINE R == OpToRel(<, Nat)
<1>1. IsWellFoundedOn(R, Nat)
  BY NatLessThanWellFounded
<1>2. \A x, y \in Nat : x < y => <<x, y>> \in R
  BY DEF OpToRel
<1> HIDE DEF R
<1>3. PICK x \in T : \A y \in T : ~ (<<y, x>> \in R)
  BY <1>1, WFMin
<1>4. ASSUME NEW y \in T PROVE x <= y
  <2>1. x \in Nat /\ y \in Nat
    OBVIOUS
  <2>2. ~ (y < x)
    BY <1>2, <1>3, <2>1
  <2> QED
    BY <2>1, <2>2
<1> QED
  BY <1>4

\* Induction, for the numbers that have a property given as a set.
LEMMA SetInduction ==
  ASSUME NEW S, 0 \in S, \A n \in Nat : n \in S => n + 1 \in S
  PROVE  Nat \subseteq S
<1> DEFINE T == Nat \ S
<1>1. SUFFICES ASSUME T # {} PROVE FALSE
  OBVIOUS
<1>2. PICK x \in T : \A y \in T : x <= y
  BY <1>1, LeastNumber
<1>3. x \in Nat /\ x # 0 /\ x \notin S
  OBVIOUS
<1>4. x - 1 \in Nat /\ (x - 1) + 1 = x /\ ~ (x <= x - 1)
  BY <1>3
<1>5. x - 1 \in S
  BY <1>2, <1>4
<1> QED
  BY <1>3, <1>4, <1>5

\* The recursion of Doubled holds of g up to n.
UpTo(g, n) ==
  /\ g \in [0 .. n -> Nat]
  /\ \A m \in 0 .. n : g[m] = IF m <= 1 THEN m ELSE 2 * g[m - 1]

\* There is such a function for every n: one more value extends the last.
LEMMA UpToExists == \A n \in Nat : \E g : UpTo(g, n)
<1> DEFINE S == {n \in Nat : \E g : UpTo(g, n)}
<1>1. 0 \in S
  <2>1. UpTo([m \in 0 .. 0 |-> 0], 0)
    BY DEF UpTo
  <2> QED
    BY <2>1
<1>2. ASSUME NEW n \in Nat, n \in S PROVE n + 1 \in S
  <2>1. PICK g : UpTo(g, n)
    BY <1>2
  <2> DEFINE h == [m \in 0 .. n + 1 |-> IF m = n + 1 THEN (IF m <= 1 THEN m ELSE 2 * g[n]) ELSE g[m]]
  <2>2. n \in 0 .. n /\ g[n] \in Nat
    BY <2>1 DEF UpTo
  <2>3. h \in [0 .. n + 1 -> Nat]
    BY <2>1, <2>2 DEF UpTo
  <2>4. ASSUME NEW m \in 0 .. n + 1 PROVE h[m] = IF m <= 1 THEN m ELSE 2 * h[m - 1]
    <3>1. CASE m = n + 1
      BY <3>1
    <3>2. CASE m # n + 1
      <4>1. m \in 0 .. n /\ h[m] = g[m]
        BY <3>2
      <4>2. m > 1 => m - 1 \in 0 .. n /\ h[m - 1] = g[m - 1]
        BY <4>1
      <4> QED
        BY <2>1, <4>1, <4>2 DEF UpTo
    <3> QED
      BY <3>1, <3>2
  <2>5. UpTo(h, n + 1)
    BY <2>3, <2>4 DEF UpTo
  <2> QED
    BY <2>5
<1> HIDE DEF S
<1>3. Nat \subseteq S
  BY <1>1, <1>2, SetInduction
<1> QED
  BY <1>3 DEF S

\* And any two of them agree as far as both go.
LEMMA UpToUnique ==
  ASSUME NEW g, NEW h, NEW n \in Nat, NEW k \in Nat, UpTo(g, n), UpTo(h, k)
  PROVE  \A m \in 0 .. n : m <= k => g[m] = h[m]
<1> DEFINE S == {m \in Nat : m <= n /\ m <= k => g[m] = h[m]}
<1>1. 0 \in S
  BY DEF UpTo
<1>2. ASSUME NEW m \in Nat, m \in S PROVE m + 1 \in S
  <2>1. CASE m + 1 <= n /\ m + 1 <= k
    <3>1. g[m] = h[m] /\ m + 1 \in 0 .. n /\ m + 1 \in 0 .. k /\ (m + 1) - 1 = m
      BY <1>2, <2>1
    <3> QED
      BY <3>1 DEF UpTo
  <2> QED
    BY <2>1
<1> HIDE DEF S
<1>3. Nat \subseteq S
  BY <1>1, <1>2, SetInduction
<1> QED
  BY <1>3 DEF S

\* So the recursion defines a function, and its values are numbers.
LEMMA DoubledDef ==
  /\ Doubled \in [Nat -> Nat]
  /\ \A n \in Nat : Doubled[n] = IF n <= 1 THEN n ELSE 2 * Doubled[n - 1]
<1> DEFINE G(n) == CHOOSE g : UpTo(g, n)
           F == [n \in Nat |-> G(n)[n]]
<1>1. \A n \in Nat : UpTo(G(n), n)
  BY UpToExists
<1> HIDE DEF G
<1>2. F \in [Nat -> Nat]
  BY <1>1 DEF UpTo
<1>3. ASSUME NEW n \in Nat PROVE F[n] = IF n <= 1 THEN n ELSE 2 * F[n - 1]
  <2>1. n \in 0 .. n /\ G(n)[n] = IF n <= 1 THEN n ELSE 2 * G(n)[n - 1]
    BY <1>1 DEF UpTo
  <2>2. n > 1 => G(n)[n - 1] = G(n - 1)[n - 1]
    <3> SUFFICES ASSUME n > 1 PROVE G(n)[n - 1] = G(n - 1)[n - 1]
      OBVIOUS
    <3>1. n - 1 \in Nat /\ n - 1 \in 0 .. n /\ n - 1 <= n - 1
      OBVIOUS
    <3>2. UpTo(G(n), n) /\ UpTo(G(n - 1), n - 1)
      BY <1>1, <3>1
    <3> QED
      BY <3>1, <3>2, UpToUnique
  <2>3. n > 1 => n - 1 \in Nat
    OBVIOUS
  <2> QED
    BY <2>1, <2>2, <2>3
<1>4. F = [n \in Nat |-> IF n <= 1 THEN n ELSE 2 * F[n - 1]]
  BY <1>3
<1>5. Doubled = [n \in Nat |-> IF n <= 1 THEN n ELSE 2 * Doubled[n - 1]]
  <2> HIDE DEF F
  <2> QED
    BY <1>4 DEF Doubled
<1>6. \A n \in Nat : Doubled[n] = IF n <= 1 THEN n ELSE 2 * Doubled[n - 1]
  BY <1>5
<1>7. Doubled \in [Nat -> Nat]
  <2> DEFINE S == {m \in Nat : Doubled[m] \in Nat}
  <2>1. 0 \in S
    BY <1>6
  <2>2. \A m \in Nat : m \in S => m + 1 \in S
    BY <1>6
  <2> HIDE DEF S
  <2>3. Nat \subseteq S
    BY <2>1, <2>2, SetInduction
  <2> QED
    BY <1>5, <2>3 DEF S
<1> QED
  BY <1>6, <1>7

-----------------------------------------------------------------------------
(* The container tool.                                                     *)

\* A run makes a container of the run's number, or leaves what was there; it
\* succeeds only where there was none.
LEMMA RunOutcomes ==
  ASSUME NEW d \in Container, NEW n \in Nat, NEW o \in Run(d, n)
  PROVE  /\ o.c \in Container /\ o.ok \in BOOLEAN /\ o.fault \in BOOLEAN
         /\ o.ok => ~Exists(d) /\ o.c = Running(n) /\ ~o.fault
         /\ o.c = d \/ (~Exists(d) /\ Exists(o.c) /\ o.c.inc = n)
<1>1. CASE Exists(d)
  <2>1. o = Refused(d)
    BY <1>1 DEF Run
  <2> QED
    BY <2>1 DEF Refused
<1>2. CASE ~Exists(d)
  <2>1. CASE o = Done(Running(n))
    BY <1>2, <2>1 DEF Done, Running, Container, Exists
  <2>2. CASE o = Fault(d)
    BY <2>2 DEF Fault
  <2>3. CASE o = Fault([st |-> "failed", inc |-> n])
    BY <1>2, <2>3 DEF Fault, Container, Exists, Exited
  <2> QED
    BY <1>2, <2>1, <2>2, <2>3 DEF Run
<1> QED
  BY <1>1, <1>2

\* What has exited is removed, unless the call fails; nothing else changes.
LEMMA RemoveOutcomes ==
  ASSUME NEW d \in Container, NEW o \in Remove(d)
  PROVE  /\ o.c \in {d, Gone} /\ o.fault \in BOOLEAN
         /\ d.st \in Exited /\ ~o.fault => o.c = Gone
<1>1. CASE Exists(d) /\ ~IsRunning(d)
  <2>1. CASE o = Done(Gone)
    BY <2>1 DEF Done
  <2>2. CASE o = Fault(d)
    BY <2>2 DEF Fault
  <2> QED
    BY <1>1, <2>1, <2>2 DEF Remove
<1>2. CASE ~(Exists(d) /\ ~IsRunning(d))
  <2>1. o = Refused(d)
    BY <1>2 DEF Remove
  <2>2. d.st \notin Exited
    BY <1>2 DEF Exists, IsRunning, Exited
  <2> QED
    BY <2>1, <2>2 DEF Refused
<1> QED
  BY <1>1, <1>2

\* What is reported is what is there, or an error.
LEMMA InspectOutcomes ==
  ASSUME NEW d \in Container, NEW r \in Inspect(d)
  PROVE  /\ r.state \in {"error", "running", "stopped"} /\ r.fault \in BOOLEAN
         /\ r.state = "stopped" => d.st \in Exited
         /\ d.st \in Exited /\ ~r.fault => r.state = "stopped"
<1>1. CASE ~Exists(d)
  <2>1. r = [state |-> "error", fault |-> FALSE]
    BY <1>1 DEF Inspect
  <2>2. d.st \notin Exited
    BY <1>1 DEF Exists, Exited
  <2> QED
    BY <2>1, <2>2
<1>2. CASE Exists(d) /\ IsRunning(d)
  <2>1. d.st \notin Exited
    BY <1>2 DEF IsRunning, Exited
  <2>2. CASE r = [state |-> "running", fault |-> FALSE]
    BY <2>1, <2>2
  <2>3. CASE r = [state |-> "error", fault |-> TRUE]
    BY <2>1, <2>3
  <2> QED
    BY <1>2, <2>2, <2>3 DEF Inspect
<1>3. CASE Exists(d) /\ ~IsRunning(d)
  <2>1. d.st \in Exited
    BY <1>3 DEF IsRunning, Exists, Exited, Container
  <2>2. CASE r = [state |-> "stopped", fault |-> FALSE]
    BY <2>1, <2>2
  <2>3. CASE r = [state |-> "error", fault |-> TRUE]
    BY <2>1, <2>3
  <2> QED
    BY <1>3, <2>2, <2>3 DEF Inspect
<1> QED
  BY <1>1, <1>2, <1>3

\* A container that is made, or gone, is a container.
LEMMA MadeContainers ==
  /\ Gone \in Container /\ Gone.inc = 0 /\ ~Exists(Gone) /\ ~IsRunning(Gone)
  /\ \A n \in Nat : /\ Running(n) \in Container /\ Running(n).inc = n
                    /\ Exists(Running(n)) /\ IsRunning(Running(n))
  /\ \A d \in Container : /\ Stopped(d) \in Container /\ Stopped(d).inc = d.inc
                          /\ Stopped(d).st \in Exited
  /\ \A d \in Container : /\ d.st \in Exited => Exists(d) /\ ~IsRunning(d)
                          /\ IsRunning(d) => Exists(d)
                          /\ d.inc \in Nat
BY DEF Gone, Running, Stopped, Container, Exists, IsRunning, Exited

-----------------------------------------------------------------------------
(* The backoff window.                                                     *)

\* The window is at most the longest, whatever the count.
LEMMA DelayIsCapped ==
  \A n \in Nat : BackoffDelay(n) \in Nat /\ BackoffDelay(n) <= MaxBackoff
BY DoubledDef, CrashLoopConstants DEF BackoffDelay

\* With a longest window of 300 s or more, it is nowhere shorter than the
\* documented one.
LEMMA DelayIsScheduled ==
  ASSUME MaxBackoff >= 30
  PROVE  \A n \in Nat \ {0} : BackoffDelay(n) >= Window(n)
<1>1. /\ Doubled[1] = 1 /\ Doubled[2] = 2 /\ Doubled[3] = 4
      /\ Doubled[4] = 8 /\ Doubled[5] = 16 /\ Doubled[6] = 32
  <2>1. Doubled[1] = 1
    BY DoubledDef
  <2>2. Doubled[2] = 2 * Doubled[1]
    BY DoubledDef
  <2>3. Doubled[3] = 2 * Doubled[2]
    BY DoubledDef
  <2>4. Doubled[4] = 2 * Doubled[3]
    BY DoubledDef
  <2>5. Doubled[5] = 2 * Doubled[4]
    BY DoubledDef
  <2>6. Doubled[6] = 2 * Doubled[5]
    BY DoubledDef
  <2> QED
    BY <2>1, <2>2, <2>3, <2>4, <2>5, <2>6
<1>2. \A n \in Nat : Doubled[n + 6] >= 32
  <2> DEFINE S == {n \in Nat : Doubled[n + 6] >= 32}
  <2>1. 0 \in S
    BY <1>1
  <2>2. ASSUME NEW n \in Nat, n \in S PROVE n + 1 \in S
    <3>1. Doubled[(n + 1) + 6] = 2 * Doubled[n + 6]
      <4>1. (n + 1) + 6 \in Nat /\ ~((n + 1) + 6 <= 1) /\ ((n + 1) + 6) - 1 = n + 6
        OBVIOUS
      <4> QED
        BY <4>1, DoubledDef
    <3>2. Doubled[n + 6] \in Nat /\ Doubled[n + 6] >= 32
      BY <2>2, DoubledDef
    <3> QED
      BY <3>1, <3>2
  <2> HIDE DEF S
  <2>3. Nat \subseteq S
    BY <2>1, <2>2, SetInduction
  <2> QED
    BY <2>3 DEF S
<1>3. ASSUME NEW n \in Nat \ {0} PROVE BackoffDelay(n) >= Window(n)
  <2>1. CASE n <= 5
    <3>1. n \in {1, 2, 3, 4, 5}
      BY <2>1
    <3>2. Window(n) = Doubled[n] /\ Doubled[n] <= 16
      BY <3>1, <1>1 DEF Window, Documented
    <3> QED
      BY <3>2, DoubledDef, CrashLoopConstants DEF BackoffDelay
  <2>2. CASE n >= 6
    <3>1. Window(n) = 30
      BY <2>2 DEF Window, Documented
    <3>2. n - 6 \in Nat /\ n = (n - 6) + 6
      BY <2>2
    <3>3. Doubled[n] >= 32 /\ Doubled[n] \in Nat
      BY <1>2, <3>2, DoubledDef
    <3> QED
      BY <3>1, <3>3, CrashLoopConstants DEF BackoffDelay
  <2> QED
    BY <2>1, <2>2
<1> QED
  BY <1>3

-----------------------------------------------------------------------------
(* The invariant holds.                                                    *)

\* The first run is none that was restarted.
LEMMA InitInv == Init => IInv
<1> SUFFICES ASSUME Init PROVE IInv
  OBVIOUS
<1>1. c \in Container /\ c.inc = 1 /\ Exists(c)
  BY MadeContainers DEF Init
<1>2. TypeOK
  BY <1>1, CrashLoopConstants DEF Init, TypeOK
<1>3. LatestInv /\ CountInv /\ WaitInv /\ CaptureInv /\ LastStateIsPast
  BY <1>1 DEF Init, LatestInv, CountInv, WaitInv, CaptureInv, LastStateIsPast
<1> QED
  BY <1>2, <1>3 DEF IInv

\* A call is counted against the bound if it fails without a reason, and then
\* the restart is not undisturbed.
LEMMA ChargeTypes ==
  ASSUME TypeOK, NEW o, o.fault \in BOOLEAN, Charge(o)
  PROVE  /\ bounded' \in [calls : 0 .. MaxCalls, replaced : 0 .. MaxReplaced,
                          crashes : 0 .. MaxCrashes]
         /\ alone' \in BOOLEAN
         /\ alone' => alone /\ ~o.fault
<1>1. bounded' \in [calls : 0 .. MaxCalls, replaced : 0 .. MaxReplaced, crashes : 0 .. MaxCrashes]
  BY CrashLoopConstants DEF TypeOK, Charge
<1>2. alone' \in BOOLEAN /\ (alone' => alone /\ ~o.fault)
  BY DEF TypeOK, Charge
<1> QED
  BY <1>1, <1>2

\* The ticker disturbs nothing.
LEMMA TickInv == ASSUME IInv, Tick PROVE IInv'
<1> USE DEF IInv
<1>1. /\ pass = "idle" /\ pass' = "look"
      /\ c' = c /\ runs' = runs /\ pod' = pod /\ shown' = shown /\ bounded' = bounded
      /\ count' = count /\ since' = since /\ prev' = prev /\ last' = last
      /\ alone' = alone
  BY DEF Tick, kept
<1>2. TypeOK'
  BY <1>1 DEF TypeOK
<1>3. LatestInv' /\ CountInv' /\ WaitInv' /\ LastStateIsPast' /\ CaptureInv'
  BY <1>1 DEF LatestInv, CountInv, WaitInv, LastStateIsPast, CaptureInv
<1> QED
  BY <1>2, <1>3

\* The pass looks: what it takes for terminated has exited.
LEMMA LookInv == ASSUME IInv, Look PROVE IInv'
<1> USE DEF IInv
<1>1. PICK r \in Inspect(c) :
        /\ r.fault => bounded.calls < MaxCalls
        /\ bounded' = IF r.fault THEN [bounded EXCEPT !.calls = @ + 1] ELSE bounded
        /\ shown' = StatusOf(r)
  BY DEF Look
<1>2. /\ alone' = TRUE /\ pass' = "act"
      /\ c' = c /\ runs' = runs /\ pod' = pod
      /\ count' = count /\ since' = since /\ prev' = prev /\ last' = last
  BY DEF Look, kept
<1>3. /\ r.state \in {"error", "running", "stopped"} /\ r.fault \in BOOLEAN
      /\ r.state = "stopped" => c.st \in Exited
  BY InspectOutcomes DEF TypeOK
<1>4. /\ shown' \in {"running", "waiting", "backoff", "terminated"}
      /\ shown' = "terminated" => c.st \in Exited
  BY <1>1, <1>3 DEF StatusOf
<1>5. bounded' \in [calls : 0 .. MaxCalls, replaced : 0 .. MaxReplaced, crashes : 0 .. MaxCrashes]
  BY <1>1, <1>3, CrashLoopConstants DEF TypeOK
<1>6. TypeOK'
  BY <1>2, <1>4, <1>5 DEF TypeOK
<1>7. LatestInv' /\ CountInv' /\ WaitInv' /\ LastStateIsPast'
  BY <1>2 DEF LatestInv, CountInv, WaitInv, LastStateIsPast
<1>8. CaptureInv'
  BY <1>2, <1>4 DEF CaptureInv
<1> QED
  BY <1>6, <1>7, <1>8

\* It acts on what it saw, if the window is closed by now.
LEMMA ActInv == ASSUME IInv, Act PROVE IInv'
<1> USE DEF IInv
<1>1. /\ pass = "act" /\ pass' \in {"logs", "idle"}
      /\ pass' = "logs" => shown = "terminated" /\ ~ShouldBackoff
      /\ c' = c /\ runs' = runs /\ pod' = pod /\ shown' = shown /\ bounded' = bounded
      /\ alone' = alone
      /\ count' = count /\ since' = since /\ prev' = prev /\ last' = last
  BY DEF Act, kept
<1>2. TypeOK'
  BY <1>1 DEF TypeOK
<1>3. LatestInv' /\ CountInv' /\ LastStateIsPast'
  BY <1>1 DEF LatestInv, CountInv, LastStateIsPast
<1>4. WaitInv'
  BY <1>1 DEF WaitInv, ShouldBackoff, NeverRestarted
<1>5. CaptureInv'
  BY <1>1 DEF CaptureInv
<1> QED
  BY <1>2, <1>3, <1>4, <1>5

\* The logs are of the container that is there.
LEMMA CaptureLogsInv == ASSUME IInv, CaptureLogs PROVE IInv'
<1> USE DEF IInv
<1>1. PICK o \in IF Exists(c) THEN {Done(c), Fault(c)} ELSE {Refused(c)} :
        /\ Charge(o)
        /\ o.ok /\ ~o.fault => prev' = c.inc
        /\ prev' \in {c.inc, 0, prev}
  BY DEF CaptureLogs
<1>2. /\ pass = "logs" /\ pass' = "state"
      /\ c' = c /\ runs' = runs /\ pod' = pod /\ shown' = shown
      /\ count' = count /\ since' = since /\ last' = last
  BY DEF CaptureLogs
<1>3. /\ o.fault \in BOOLEAN /\ o.ok \in BOOLEAN
      /\ Exists(c) /\ ~o.fault => o.ok
  <2>1. CASE o = Done(c)
    BY <2>1 DEF Done
  <2>2. CASE o = Fault(c)
    BY <2>2 DEF Fault
  <2>3. CASE ~Exists(c) /\ o = Refused(c)
    BY <2>3 DEF Refused
  <2> QED
    BY <1>1, <2>1, <2>2, <2>3
<1>4. /\ bounded' \in [calls : 0 .. MaxCalls, replaced : 0 .. MaxReplaced,
                       crashes : 0 .. MaxCrashes]
      /\ alone' \in BOOLEAN
      /\ alone' => alone /\ ~o.fault
  BY <1>1, <1>3, ChargeTypes
<1>5. c.inc \in 0 .. runs
  BY MadeContainers DEF TypeOK
<1>6. TypeOK'
  <2>1. prev' \in 0 .. runs
    BY <1>1, <1>5 DEF TypeOK
  <2> QED
    BY <1>2, <1>4, <2>1 DEF TypeOK
<1>7. LatestInv' /\ CountInv' /\ LastStateIsPast'
  BY <1>2 DEF LatestInv, CountInv, LastStateIsPast
<1>8. WaitInv'
  BY <1>2 DEF WaitInv, ShouldBackoff, NeverRestarted
<1>9. CaptureInv'
  <2>1. alone' => c.st \in Exited /\ prev' = runs
    BY <1>1, <1>2, <1>3, <1>4, MadeContainers DEF CaptureInv, LatestInv, TypeOK
  <2> QED
    BY <1>2, <2>1 DEF CaptureInv
<1> QED
  BY <1>6, <1>7, <1>8, <1>9

\* So is the state, if it is one of a container that has exited.
LEMMA CaptureStateInv == ASSUME IInv, CaptureState PROVE IInv'
<1> USE DEF IInv
<1>1. PICK r \in Inspect(c) :
        Charge(r) /\ last' = IF r.state = "stopped" THEN c.inc ELSE last
  BY DEF CaptureState
<1>2. /\ pass = "state" /\ pass' = "rm"
      /\ c' = c /\ runs' = runs /\ pod' = pod /\ shown' = shown
      /\ count' = count /\ since' = since /\ prev' = prev
  BY DEF CaptureState
<1>3. /\ r.fault \in BOOLEAN
      /\ r.state = "stopped" => c.st \in Exited
      /\ c.st \in Exited /\ ~r.fault => r.state = "stopped"
  BY InspectOutcomes DEF TypeOK
<1>4. /\ bounded' \in [calls : 0 .. MaxCalls, replaced : 0 .. MaxReplaced,
                       crashes : 0 .. MaxCrashes]
      /\ alone' \in BOOLEAN
      /\ alone' => alone /\ ~r.fault
  BY <1>1, <1>3, ChargeTypes
<1>5. c.inc \in 0 .. runs
  BY MadeContainers DEF TypeOK
<1>6. TypeOK'
  BY <1>1, <1>2, <1>4, <1>5 DEF TypeOK
<1>7. LatestInv' /\ CountInv'
  BY <1>2 DEF LatestInv, CountInv
<1>8. WaitInv'
  BY <1>2 DEF WaitInv, ShouldBackoff, NeverRestarted
<1>9. LastStateIsPast'
  BY <1>1, <1>2, <1>3, MadeContainers DEF LastStateIsPast, TypeOK
<1>10. CaptureInv'
  <2>1. alone' => c.st \in Exited /\ prev = runs /\ last' = runs
    BY <1>1, <1>2, <1>3, <1>4, MadeContainers DEF CaptureInv, LatestInv, TypeOK
  <2> QED
    BY <1>2, <2>1 DEF CaptureInv
<1> QED
  BY <1>6, <1>7, <1>8, <1>9, <1>10

\* The container that has exited is removed.
LEMMA RestartRmInv == ASSUME IInv, RestartRm PROVE IInv'
<1> USE DEF IInv
<1>1. PICK o \in Remove(c) : Charge(o) /\ c' = o.c
  BY DEF RestartRm
<1>2. /\ pass = "rm" /\ pass' = "run"
      /\ runs' = runs /\ pod' = pod /\ shown' = shown
      /\ count' = count /\ since' = since /\ prev' = prev /\ last' = last
  BY DEF RestartRm, kept
<1>3. /\ c' \in {c, Gone} /\ o.fault \in BOOLEAN
      /\ c.st \in Exited /\ ~o.fault => c' = Gone
  BY <1>1, RemoveOutcomes DEF TypeOK
<1>4. /\ bounded' \in [calls : 0 .. MaxCalls, replaced : 0 .. MaxReplaced,
                       crashes : 0 .. MaxCrashes]
      /\ alone' \in BOOLEAN
      /\ alone' => alone /\ ~o.fault
  BY <1>1, <1>3, ChargeTypes
<1>5. TypeOK'
  BY <1>2, <1>3, <1>4, MadeContainers DEF TypeOK
<1>6. LatestInv' /\ CountInv' /\ LastStateIsPast'
  BY <1>2, <1>3, MadeContainers DEF LatestInv, CountInv, LastStateIsPast
<1>7. WaitInv'
  BY <1>2 DEF WaitInv, ShouldBackoff, NeverRestarted
<1>8. CaptureInv'
  <2>1. alone' => ~Exists(c') /\ prev = runs /\ last = runs
    BY <1>2, <1>3, <1>4, MadeContainers DEF CaptureInv
  <2> QED
    BY <1>2, <2>1 DEF CaptureInv
<1> QED
  BY <1>5, <1>6, <1>7, <1>8

\* The next run, or none.
LEMMA RestartRunInv == ASSUME IInv, RestartRun PROVE IInv'
<1> USE DEF IInv
<1>1. PICK o \in Run(c, runs + 1) :
        Charge(o) /\ NextRun(o) /\ pass' = IF o.ok THEN "book" ELSE "idle"
  BY DEF RestartRun
<1>2. /\ pass = "run" /\ pod' = pod /\ shown' = shown
      /\ count' = count /\ since' = since /\ prev' = prev /\ last' = last
  BY DEF RestartRun, kept
<1>3. /\ c' = o.c /\ runs' = IF o.c.inc > runs THEN o.c.inc ELSE runs
  BY <1>1 DEF NextRun
<1>4. /\ c' \in Container /\ o.ok \in BOOLEAN /\ o.fault \in BOOLEAN
      /\ o.ok => ~Exists(c) /\ c' = Running(runs + 1)
      /\ c' = c \/ (~Exists(c) /\ Exists(c') /\ c'.inc = runs + 1)
  <2>1. runs + 1 \in Nat /\ c \in Container
    BY DEF TypeOK
  <2> QED
    BY <1>3, <2>1, RunOutcomes
<1>5. /\ bounded' \in [calls : 0 .. MaxCalls, replaced : 0 .. MaxReplaced,
                       crashes : 0 .. MaxCrashes]
      /\ alone' \in BOOLEAN
      /\ alone' => alone /\ ~o.fault
  BY <1>1, <1>4, ChargeTypes
<1>6. /\ c' = c => runs' = runs
      /\ c' # c => runs' = runs + 1 /\ c'.inc = runs + 1 /\ Exists(c')
      /\ runs' \in Nat /\ runs <= runs'
  <2>1. /\ runs \in Nat /\ c.inc \in Nat /\ c.inc <= runs
        /\ runs' = IF c'.inc > runs THEN c'.inc ELSE runs
    BY <1>3, MadeContainers DEF TypeOK
  <2>2. CASE c' = c
    BY <2>1, <2>2
  <2>3. CASE c' # c
    BY <1>4, <2>1, <2>3
  <2> QED
    BY <2>2, <2>3
<1>7. TypeOK'
  <2>1. c'.inc <= runs'
    BY <1>4, <1>6, MadeContainers DEF TypeOK
  <2>2. pass' \in {"book", "idle"}
    BY <1>1
  <2>3. count' \in 0 .. (runs' - 1) /\ prev' \in 0 .. runs' /\ last' \in 0 .. runs'
    <3>1. runs \in Nat /\ count \in 0 .. (runs - 1) /\ prev \in 0 .. runs /\ last \in 0 .. runs
      BY DEF TypeOK
    <3>2. \A n \in Nat : runs <= n => count \in 0 .. (n - 1) /\ prev \in 0 .. n /\ last \in 0 .. n
      BY <3>1
    <3> QED
      BY <1>2, <1>6, <3>2
  <2> QED
    BY <1>2, <1>4, <1>5, <1>6, <2>1, <2>2, <2>3 DEF TypeOK
<1>8. LatestInv' /\ LastStateIsPast'
  BY <1>2, <1>4, <1>6, MadeContainers DEF LatestInv, LastStateIsPast, TypeOK
<1>9. pass' = "book" => runs' = runs + 1
  BY <1>1, <1>4, <1>6, MadeContainers DEF TypeOK
<1>10. CountInv' /\ WaitInv'
  BY <1>1, <1>2, <1>9 DEF CountInv, WaitInv, TypeOK
<1>11. CaptureInv'
  BY <1>1, <1>2, <1>5, <1>9 DEF CaptureInv, TypeOK
<1> QED
  BY <1>7, <1>8, <1>10, <1>11

\* A restart that is counted was a run.
LEMMA BookInv == ASSUME IInv, Book PROVE IInv'
<1> USE DEF IInv
<1>1. /\ pass = "book" /\ pass' = "idle" /\ count' = count + 1 /\ since' = 0
      /\ c' = c /\ runs' = runs /\ pod' = pod /\ shown' = shown /\ bounded' = bounded
      /\ alone' = alone /\ prev' = prev /\ last' = last
  BY DEF Book
<1>2. TypeOK'
  BY <1>1, CrashLoopConstants DEF TypeOK, CountInv
<1>3. LatestInv' /\ CountInv' /\ LastStateIsPast' /\ WaitInv' /\ CaptureInv'
  BY <1>1 DEF LatestInv, CountInv, LastStateIsPast, WaitInv, CaptureInv
<1> QED
  BY <1>2, <1>3

\* Time opens no window.
LEMMA ElapseInv == ASSUME IInv, Elapse PROVE IInv'
<1> USE DEF IInv
<1>1. /\ since < MaxBackoff /\ since' = since + 1
      /\ c' = c /\ runs' = runs /\ pod' = pod /\ pass' = pass /\ shown' = shown
      /\ count' = count /\ prev' = prev /\ last' = last
      /\ bounded' = bounded /\ alone' = alone
  BY DEF Elapse
<1>2. TypeOK'
  BY <1>1, CrashLoopConstants DEF TypeOK
<1>3. LatestInv' /\ CountInv' /\ LastStateIsPast' /\ CaptureInv'
  BY <1>1 DEF LatestInv, CountInv, LastStateIsPast, CaptureInv
<1>4. WaitInv'
  <2>1. since \in Nat /\ BackoffDelay(count) \in Nat
    BY DelayIsCapped, CrashLoopConstants DEF TypeOK
  <2> QED
    BY <1>1, <2>1 DEF WaitInv, ShouldBackoff, NeverRestarted
<1> QED
  BY <1>2, <1>3, <1>4

\* A container exits in the middle of no restart that began after it had.
LEMMA ExitInv == ASSUME IInv, Exit PROVE IInv'
<1> USE DEF IInv
<1>1. /\ IsRunning(c) /\ c' = Stopped(c)
      /\ runs' = runs /\ pod' = pod /\ pass' = pass /\ shown' = shown
      /\ count' = count /\ since' = since /\ prev' = prev /\ last' = last
      /\ bounded' = bounded /\ alone' = alone
  BY DEF Exit, kept
<1>2. /\ Exists(c) /\ c.st \notin Exited
      /\ c' \in Container /\ c'.inc = c.inc /\ Exists(c') /\ ~IsRunning(c') /\ c'.st \in Exited
  BY <1>1, MadeContainers DEF TypeOK
<1>3. TypeOK'
  BY <1>1, <1>2 DEF TypeOK
<1>4. LatestInv' /\ CountInv' /\ LastStateIsPast'
  BY <1>1, <1>2 DEF LatestInv, CountInv, LastStateIsPast
<1>5. WaitInv'
  BY <1>1 DEF WaitInv, ShouldBackoff, NeverRestarted
<1>6. CaptureInv'
  BY <1>1, <1>2 DEF CaptureInv
<1> QED
  BY <1>3, <1>4, <1>5, <1>6

\* The informer's handlers disturb the restart they interrupt, and say so.
LEMMA InformerInv == ASSUME IInv, Untrack \/ CleanUp \/ Add PROVE IInv'
<1> USE DEF IInv
<1>1. CASE Untrack
  <2>1. /\ bounded.replaced < MaxReplaced
        /\ bounded' = [bounded EXCEPT !.replaced = @ + 1] /\ pod' = "deleting"
        /\ c' = c /\ runs' = runs /\ pass' = pass /\ shown' = shown /\ alone' = alone
        /\ count' = count /\ since' = since /\ prev' = prev /\ last' = last
    BY <1>1 DEF Untrack, kept
  <2>2. TypeOK'
    BY <2>1, CrashLoopConstants DEF TypeOK
  <2>3. LatestInv' /\ CountInv' /\ LastStateIsPast' /\ CaptureInv'
    BY <2>1 DEF LatestInv, CountInv, LastStateIsPast, CaptureInv
  <2>4. WaitInv'
    BY <2>1 DEF WaitInv, ShouldBackoff, NeverRestarted
  <2> QED
    BY <2>2, <2>3, <2>4
<1>2. CASE CleanUp
  <2>1. /\ c' = Gone /\ pod' = "gone" /\ alone' = FALSE
        /\ bounded' = bounded /\ runs' = runs /\ pass' = pass /\ shown' = shown
        /\ count' = count /\ since' = since /\ prev' = prev /\ last' = last
    BY <1>2 DEF CleanUp, kept
  <2>2. TypeOK'
    <3>1. c'.inc <= runs' /\ c' \in Container
      BY <2>1, MadeContainers DEF TypeOK
    <3>2. alone' \in BOOLEAN
      BY <2>1
    <3> QED
      BY <2>1, <3>1, <3>2 DEF TypeOK
  <2>3. LatestInv' /\ CountInv' /\ LastStateIsPast' /\ CaptureInv'
    BY <2>1, MadeContainers DEF LatestInv, CountInv, LastStateIsPast, CaptureInv
  <2>4. WaitInv'
    BY <2>1 DEF WaitInv, ShouldBackoff, NeverRestarted
  <2> QED
    BY <2>2, <2>3, <2>4
<1>3. CASE Add
  <2>1. /\ pod' = "tracked" /\ alone' = FALSE
        /\ bounded' = bounded /\ pass' = pass /\ shown' = shown
        /\ count' = count /\ since' = since /\ prev' = prev /\ last' = last
        /\ c' = IF IsRunning(c) THEN c ELSE Running(runs + 1)
        /\ runs' = IF IsRunning(c) THEN runs ELSE runs + 1
    BY <1>3 DEF Add, kept
  <2>2. runs \in Nat /\ runs + 1 \in Nat /\ runs' \in Nat /\ runs <= runs'
    BY <2>1 DEF TypeOK
  <2>3. c' \in Container /\ c'.inc <= runs' /\ LatestInv' /\ LastStateIsPast'
    <3>1. CASE IsRunning(c)
      BY <2>1, <3>1 DEF TypeOK, LatestInv, LastStateIsPast
    <3>2. CASE ~IsRunning(c)
      BY <2>1, <2>2, <3>2, MadeContainers DEF TypeOK, LatestInv, LastStateIsPast
    <3> QED
      BY <3>1, <3>2
  <2>4. TypeOK'
    <3>1. count' \in 0 .. (runs' - 1) /\ prev' \in 0 .. runs' /\ last' \in 0 .. runs'
      BY <2>1, <2>2 DEF TypeOK
    <3>2. alone' \in BOOLEAN
      BY <2>1
    <3> QED
      BY <2>1, <2>2, <2>3, <3>1, <3>2 DEF TypeOK
  <2>5. CountInv' /\ CaptureInv'
    BY <2>1, <2>2 DEF CountInv, CaptureInv, TypeOK
  <2>6. WaitInv'
    BY <2>1 DEF WaitInv, ShouldBackoff, NeverRestarted
  <2> QED
    BY <2>3, <2>4, <2>5, <2>6
<1> QED
  BY <1>1, <1>2, <1>3

\* A new process has nothing captured and no pass under way.
LEMMA KubeletRestartInv == ASSUME IInv, KubeletRestart PROVE IInv'
<1> USE DEF IInv
<1>1. /\ bounded.crashes < MaxCrashes
      /\ bounded' = [bounded EXCEPT !.crashes = @ + 1]
      /\ pod' = "gone" /\ pass' = "idle" /\ shown' = "none"
      /\ count' = 0 /\ since' = 0 /\ prev' = 0 /\ last' = 0
      /\ c' = c /\ runs' = runs /\ alone' = alone
  BY DEF KubeletRestart
<1>2. TypeOK'
  BY <1>1, CrashLoopConstants DEF TypeOK
<1>3. IsRunning(c) => c.inc > 0
  BY MadeContainers DEF LatestInv, TypeOK
<1>4. LatestInv' /\ CountInv' /\ LastStateIsPast' /\ WaitInv' /\ CaptureInv'
  BY <1>1, <1>3 DEF LatestInv, CountInv, LastStateIsPast, WaitInv, CaptureInv
<1> QED
  BY <1>2, <1>4

\* Nothing changes, and nothing is broken.
LEMMA StutterInv == IInv /\ UNCHANGED vars => IInv'
<1> SUFFICES ASSUME IInv, UNCHANGED vars PROVE IInv'
  OBVIOUS
<1> USE DEF IInv, vars, kept
<1>1. TypeOK'
  BY DEF TypeOK
<1>2. LatestInv' /\ CountInv' /\ LastStateIsPast' /\ CaptureInv'
  BY DEF LatestInv, CountInv, LastStateIsPast, CaptureInv
<1>3. WaitInv'
  BY DEF WaitInv, ShouldBackoff, NeverRestarted
<1> QED
  BY <1>1, <1>2, <1>3

\* The invariant is inductive.
LEMMA IInvAlways == Spec => []IInv
<1>1. IInv /\ [Next]_vars => IInv'
  BY TickInv, LookInv, ActInv, CaptureLogsInv, CaptureStateInv, RestartRmInv, RestartRunInv, BookInv,
     ElapseInv, ExitInv, InformerInv, KubeletRestartInv, StutterInv DEF Next, Pass
<1> QED
  BY <1>1, InitInv, PTL DEF Spec

\* Every variable keeps its type: no restart is counted that was not a run, and
\* nothing is kept of a run that has not been.
THEOREM CrashLoopTypeCorrect == Spec => []TypeOK
<1>1. IInv => TypeOK
  BY DEF IInv
<1> QED
  BY <1>1, IInvAlways, PTL

\* The last state of a container that runs is of an earlier run, whatever the
\* informer does in the middle of a capture.
THEOREM LastStateIsPastAlways == Spec => []LastStateIsPast
<1>1. IInv => LastStateIsPast
  BY DEF IInv
<1> QED
  BY <1>1, IInvAlways, PTL

\* An undisturbed restart leaves logs and state of the run just before.
THEOREM PreviousIsPredecessorAlways == Spec => []PreviousIsPredecessor
<1>1. IInv => PreviousIsPredecessor
  BY MadeContainers DEF IInv, CaptureInv, LatestInv, PreviousIsPredecessor, TypeOK
<1> QED
  BY <1>1, IInvAlways, PTL

\* No window is longer than the longest, however often the container was
\* restarted.
THEOREM StableIsNotBackedOffAlways == Spec => StableIsNotBackedOff
<1>1. IInv /\ [Next]_vars => (shown' = "backoff" /\ shown # "backoff" => since < MaxBackoff)
  <2> SUFFICES ASSUME IInv, [Next]_vars, shown' = "backoff", shown # "backoff"
               PROVE  since < MaxBackoff
    OBVIOUS
  <2>1. Look
    BY DEF Next, Pass, Tick, Act, CaptureLogs, CaptureState, RestartRm, RestartRun, Book, Elapse,
       Exit, Untrack, CleanUp, Add, KubeletRestart, vars
  <2>2. PICK r \in Inspect(c) : StatusOf(r) = "backoff"
    BY <2>1 DEF Look
  <2>3. ShouldBackoff
    BY <2>2, InspectOutcomes DEF StatusOf, IInv, TypeOK
  <2>4. since \in Nat /\ count \in Nat /\ BackoffDelay(count) <= MaxBackoff
    BY DelayIsCapped, CrashLoopConstants DEF IInv, TypeOK
  <2> QED
    BY <2>3, <2>4, DelayIsCapped, CrashLoopConstants DEF ShouldBackoff
<1> QED
  BY <1>1, IInvAlways, PTL DEF Spec, StableIsNotBackedOff

\* With the code's longest window (maxBackoff, 300 s), or any longer one, two
\* restarts are as far apart as the comment on backoffDelay says, for any
\* number of restarts and any delay between a pass's look and its restart.
THEOREM BackoffHonouredAlways == MaxBackoff >= 30 => (Spec => BackoffHonoured)
<1> SUFFICES ASSUME MaxBackoff >= 30 PROVE Spec => BackoffHonoured
  OBVIOUS
<1>1. IInv /\ [Next]_vars =>
        (pass = "run" /\ pass' = "book" /\ count > 0 => since >= Window(count))
  <2> SUFFICES ASSUME IInv, pass = "run", count > 0
               PROVE  since >= Window(count)
    OBVIOUS
  <2>1. count \in Nat \ {0} /\ since \in Nat
    BY CrashLoopConstants DEF IInv, TypeOK
  <2>2. since >= BackoffDelay(count)
    BY <2>1, DelayIsCapped DEF IInv, WaitInv, ShouldBackoff, NeverRestarted
  <2>3. BackoffDelay(count) >= Window(count) /\ BackoffDelay(count) \in Nat
    BY <2>1, DelayIsScheduled, DelayIsCapped
  <2>4. Window(count) \in Nat
    BY <2>1 DEF Window, Documented
  <2> QED
    BY <2>1, <2>2, <2>3, <2>4
<1> QED
  BY <1>1, IInvAlways, PTL DEF Spec, BackoffHonoured
=============================================================================
