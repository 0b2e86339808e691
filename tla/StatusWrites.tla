---------------------------- MODULE StatusWrites ----------------------------
(***************************************************************************)
(* What the kubelet writes to the API server: the node (NodeHeartbeat) and *)
(* the status of a pod on it (PodStatus).  main of                         *)
(* cmd/containerd-shim-applevm-v2 starts the writers of both as goroutines *)
(* that share nothing but the client and the process.  The one way from    *)
(* the one object to the other is the node controller, which takes Ready   *)
(* from the pods of a node it has not heard of, and PodStatus lets it do   *)
(* so at any time; so the behaviour is that of either object.              *)
(***************************************************************************)
EXTENDS PodStatus

CONSTANTS NoNode, MaxOthers

VARIABLES object, node, others, main, beat, mine, latest

Node == INSTANCE NodeHeartbeat

ASSUME NodeAssumption == Node!NodeConstants

podVars == <<api, created, up, store, queue, tracked, cs, handling, work>>
nodeVars == <<node, others, main, beat, mine, latest>>
statusVars == <<object, vars, nodeVars>>

\* Nobody writes to the node.
NoWriter ==
  /\ node = NoNode /\ others = 0
  /\ main = "down" /\ beat = "idle"
  /\ mine = NoNode /\ latest = FALSE

StatusInit ==
  \/ object = "pod" /\ Init /\ NoWriter
  \/ object = "node" /\ Node!Init /\ Init

OnPod ==
  /\ object = "pod"
  /\ Next
  /\ UNCHANGED <<object, nodeVars>>

OnNode ==
  /\ object = "node"
  /\ Node!Next
  /\ UNCHANGED <<object, podVars>>

StatusNext == OnPod \/ OnNode

\* The fairness of both: see there.  The writers of the other object are down.
StatusSpec == StatusInit /\ [][StatusNext]_statusVars /\ Fairness /\ Node!Fairness

-----------------------------------------------------------------------------
\* Both components are in states of theirs.
StatusTypeOK == TypeOK /\ Node!TypeOK

\* The properties of NodeHeartbeat, about registerNode and heartbeat.
OthersAreKept == Node!OthersAreKept
NodeComesBack == Node!NodeComesBack
=============================================================================
