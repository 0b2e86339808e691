--------------------------- MODULE NodeHeartbeat ---------------------------
(***************************************************************************)
(* The Node object and the kubelet's two writers of it in                  *)
(* cmd/containerd-shim-applevm-v2/main.go: registerNode, which main faults  *)
(* before it starts anything else, and heartbeat.                          *)
(*                                                                         *)
(* Others write to the node too: the node controller, which marks it when  *)
(* it has not heard of it, whoever gives it a range of pod addresses, and  *)
(* whoever adds a condition of his own to its status.  As in PodStatus,    *)
(* resource versions are whether what was read is still the latest.        *)
(*                                                                         *)
(* Definitions whose names end in Bug: see PodLifecycle.                   *)
(***************************************************************************)
EXTENDS Naturals

CONSTANTS
  NoNode,
  MaxFaults,  \* bound: calls that fail
  MaxOthers   \* bound: writes of others, but for the node controller's

VARIABLES
  node,     \* the API server's node
  others,   \* how many writes of others there were
  faults,   \* how many calls have failed
  main,     \* main: "down", "create", "get", "update", "status" (registerNode), "up"
  beat,     \* heartbeat: "idle", "write", "missed"
  mine,     \* the node as registerNode or heartbeat has read it
  latest    \* nobody has written since

nodeVars == <<node, others, main, beat, mine, latest>>
vars == <<nodeVars, faults>>

\* ready: the Ready condition; taint: the node controller's; cidr: the range
\* of pod addresses (Spec); cond: another's condition (Status).
Node == [ready : BOOLEAN, taint : BOOLEAN, cidr : BOOLEAN, cond : BOOLEAN]
Built == [ready |-> TRUE, taint |-> FALSE, cidr |-> FALSE, cond |-> FALSE]

NodeConstants ==
  /\ MaxFaults \in Nat
  /\ MaxOthers \in Nat
  /\ NoNode \notin Node

Bounds == others \in 0..MaxOthers /\ faults \in 0..MaxFaults
Places ==
  /\ main \in {"down", "create", "get", "update", "status", "up"}
  /\ beat \in {"idle", "write", "missed"}
  /\ latest \in BOOLEAN
Nodes == node \in Node \cup {NoNode} /\ mine \in Node \cup {NoNode}
\* A node that nobody has written to since it was read is the one that was read.
ReadIsLatest == latest => mine = node /\ node # NoNode

TypeOK == Bounds /\ Places /\ Nodes /\ ReadIsLatest

Init ==
  /\ node = NoNode
  /\ others = 0 /\ faults = 0
  /\ main = "create" /\ beat = "idle"
  /\ mine = NoNode /\ latest = FALSE

-----------------------------------------------------------------------------
Goto(a, b) == main = a /\ main' = b
Fail == faults < MaxFaults /\ faults' = faults + 1
Forget == mine' = NoNode /\ latest' = FALSE

\* main ends: by a signal, or by log.Fatal.
Exit == main' = "down" /\ beat' = "idle" /\ Forget

(* registerNode.                                                           *)

\* Every error of Create is taken for "exists".
Create ==
  \/ Goto("create", "up") /\ node = NoNode /\ node' = Built /\ UNCHANGED <<others, faults, beat, mine, latest>>
  \/ Goto("create", "get") /\ node # NoNode /\ UNCHANGED <<node, others, faults, beat, mine, latest>>
  \/ Goto("create", "get") /\ Fail /\ UNCHANGED <<node, others, beat, mine, latest>>

RegGet ==
  \/ Goto("get", "update") /\ node # NoNode /\ mine' = node /\ latest' = TRUE
     /\ UNCHANGED <<node, others, faults, beat>>
  \/ main = "get" /\ node = NoNode /\ Exit /\ UNCHANGED <<node, others, faults>>
  \/ main = "get" /\ Fail /\ Exit /\ UNCHANGED <<node, others>>

\* Labels and taints are replaced, whoever set them; the rest is what was read.
RegUpdate ==
  \/ Goto("update", "status") /\ latest /\ node' = [mine EXCEPT !.taint = FALSE] /\ mine' = node'
     /\ UNCHANGED <<others, faults, beat, latest>>
  \/ main = "update" /\ ~latest /\ Exit /\ UNCHANGED <<node, others, faults>>
  \/ main = "update" /\ Fail /\ Exit /\ UNCHANGED <<node, others>>

\* The status is replaced as a whole, with every condition in it.
RegStatus ==
  \/ Goto("status", "up") /\ latest /\ node' = [Built EXCEPT !.taint = mine.taint, !.cidr = mine.cidr]
     /\ Forget /\ UNCHANGED <<others, faults, beat>>
  \/ main = "status" /\ ~latest /\ Exit /\ UNCHANGED <<node, others, faults>>
  \/ main = "status" /\ Fail /\ Exit /\ UNCHANGED <<node, others>>

(* heartbeat.                                                              *)

\* A node that is not there is not registered again.
BeatGet ==
  /\ main = "up" /\ beat # "write"
  /\ \/ node # NoNode /\ mine' = node /\ latest' = TRUE /\ beat' = "write" /\ UNCHANGED faults
     \/ node = NoNode /\ beat' = "missed" /\ UNCHANGED <<mine, latest, faults>>
     \/ Fail /\ beat' = "missed" /\ UNCHANGED <<mine, latest>>
  /\ UNCHANGED <<node, others, main>>

BeatWriteBug ==                         \* does not mind what others have written since
  /\ main = "up" /\ beat = "write" /\ node # NoNode
  /\ node' = [mine EXCEPT !.ready = TRUE]
  /\ beat' = "idle" /\ Forget
  /\ UNCHANGED <<others, faults, main>>

BeatWriteTimeBug ==                     \* renews the time and not the condition
  /\ main = "up" /\ beat = "write"
  /\ beat' = IF latest THEN "idle" ELSE "missed"
  /\ Forget
  /\ UNCHANGED <<node, others, faults, main>>

\* A conflict is not tried again before the next tick.
BeatWrite ==
  /\ main = "up" /\ beat = "write"
  /\ \/ latest /\ node' = [mine EXCEPT !.ready = TRUE] /\ beat' = "idle" /\ UNCHANGED faults
     \/ ~latest /\ beat' = "missed" /\ UNCHANGED <<node, faults>>
     \/ Fail /\ beat' = "missed" /\ UNCHANGED node
  /\ Forget
  /\ UNCHANGED <<others, main>>

-----------------------------------------------------------------------------
(* The node controller, others, and the process.                           *)

\* It has not heard of the node for its grace period, for which a missed
\* heartbeat stands here.
Silent ==
  /\ node # NoNode /\ node.ready
  /\ main # "up" \/ beat = "missed"
  /\ node' = [node EXCEPT !.ready = FALSE, !.taint = TRUE]
  /\ latest' = FALSE
  /\ UNCHANGED <<others, faults, main, beat, mine>>

Untaint ==
  /\ node # NoNode /\ node.ready /\ node.taint
  /\ node' = [node EXCEPT !.taint = FALSE]
  /\ latest' = FALSE
  /\ UNCHANGED <<others, faults, main, beat, mine>>

OtherWrite ==
  /\ others < MaxOthers
  /\ others' = others + 1
  /\ node # NoNode
  /\ node' \in {[node EXCEPT !.cidr = TRUE], [node EXCEPT !.cond = TRUE], NoNode}
  /\ latest' = FALSE
  /\ UNCHANGED <<faults, main, beat, mine>>

Stop == main # "down" /\ Exit /\ UNCHANGED <<node, others, faults>>

Start == Goto("down", "create") /\ UNCHANGED <<node, others, faults, beat, mine, latest>>

-----------------------------------------------------------------------------
Register == Create \/ RegGet \/ RegUpdate \/ RegStatus
Heartbeat == BeatGet \/ BeatWrite
Others == Silent \/ Untaint \/ OtherWrite

Next == Register \/ Heartbeat \/ Others \/ Stop \/ Start

Spec == Init /\ [][Next]_vars

\* main runs and the ticker ticks.
Fairness == WF_vars(Register) /\ WF_vars(Heartbeat)

FairSpec == Spec /\ Fairness

-----------------------------------------------------------------------------
\* What others have written to the node is kept.  The range of pod addresses is
\* kept by both writers: registerNode says that it updates only what it owns, and
\* heartbeat writes back what it has read, unless it has changed.  A condition is
\* kept by heartbeat only; the registration replaces the status.
OthersAreKept ==
  [][node # NoNode /\ node' # NoNode =>
       /\ node.cidr => node'.cidr
       /\ main = "up" /\ node.cond => node'.cond]_vars

\* A node that was marked is Ready again when the process goes on, however its
\* heartbeats met other writes.
NodeComesBack == (main = "up" /\ node # NoNode) ~> (main # "up" \/ node = NoNode \/ node.ready)
=============================================================================
