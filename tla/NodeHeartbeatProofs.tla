------------------------ MODULE NodeHeartbeatProofs ------------------------
(***************************************************************************)
(* Theorems about NodeHeartbeat, for any number of failing calls and of    *)
(* writes by others (NodeConstants, which StatusWrites assumes).  TypeOK   *)
(* is inductive as it stands, since it says what optimistic concurrency    *)
(* gives: ReadIsLatest.                                                    *)
(***************************************************************************)
EXTENDS NodeHeartbeat, TLAPS

\* The process starts with no node, read or written.
LEMMA InitTypes == NodeConstants /\ Init => TypeOK
<1> SUFFICES ASSUME NodeConstants, Init PROVE TypeOK
  OBVIOUS
<1>1. Bounds
  BY DEF NodeConstants, Init, Bounds
<1>2. Places
  BY DEF Init, Places
<1>3. Nodes /\ ReadIsLatest
  BY DEF Init, Nodes, ReadIsLatest
<1> QED
  BY <1>1, <1>2, <1>3 DEF TypeOK

\* The counters stay within their bounds.
LEMMA BoundsKept == NodeConstants /\ TypeOK /\ Next => Bounds'
<1> SUFFICES ASSUME NodeConstants, Bounds, Places, Nodes, ReadIsLatest, Next PROVE Bounds'
  BY DEF TypeOK
<1> USE DEF NodeConstants, Bounds, Goto, Fail, Exit, Forget
<1>1. CASE Create
  BY <1>1 DEF Create, Built
<1>2. CASE RegGet
  BY <1>2 DEF RegGet
<1>3. CASE RegUpdate
  BY <1>3 DEF RegUpdate
<1>4. CASE RegStatus
  BY <1>4 DEF RegStatus, Built
<1>5. CASE BeatGet
  BY <1>5 DEF BeatGet
<1>6. CASE BeatWrite
  BY <1>6 DEF BeatWrite
<1>7. CASE Silent
  BY <1>7 DEF Silent
<1>8. CASE Untaint
  BY <1>8 DEF Untaint
<1>9. CASE OtherWrite
  BY <1>9 DEF OtherWrite
<1>10. CASE Stop
  BY <1>10 DEF Stop
<1>11. CASE Start
  BY <1>11 DEF Start
<1> QED
  BY <1>1, <1>2, <1>3, <1>4, <1>5, <1>6, <1>7, <1>8, <1>9, <1>10, <1>11 DEF Next, Register, Heartbeat, Others

\* main and heartbeat are where the code can be.
LEMMA PlacesKept == NodeConstants /\ TypeOK /\ Next => Places'
<1> SUFFICES ASSUME NodeConstants, Bounds, Places, Nodes, ReadIsLatest, Next PROVE Places'
  BY DEF TypeOK
<1> USE DEF NodeConstants, Places, Goto, Fail, Exit, Forget
<1>1. CASE Create
  BY <1>1 DEF Create, Built
<1>2. CASE RegGet
  BY <1>2 DEF RegGet
<1>3. CASE RegUpdate
  BY <1>3 DEF RegUpdate
<1>4. CASE RegStatus
  BY <1>4 DEF RegStatus, Built
<1>5. CASE BeatGet
  BY <1>5 DEF BeatGet
<1>6. CASE BeatWrite
  BY <1>6 DEF BeatWrite
<1>7. CASE Silent
  BY <1>7 DEF Silent
<1>8. CASE Untaint
  BY <1>8 DEF Untaint
<1>9. CASE OtherWrite
  BY <1>9 DEF OtherWrite
<1>10. CASE Stop
  BY <1>10 DEF Stop
<1>11. CASE Start
  BY <1>11 DEF Start
<1> QED
  BY <1>1, <1>2, <1>3, <1>4, <1>5, <1>6, <1>7, <1>8, <1>9, <1>10, <1>11 DEF Next, Register, Heartbeat, Others

\* What is written to the node is a node.
LEMMA NodesKept == NodeConstants /\ TypeOK /\ Next => Nodes'
<1> SUFFICES ASSUME NodeConstants, Bounds, Places, Nodes, ReadIsLatest, Next PROVE Nodes'
  BY DEF TypeOK
<1> USE DEF Nodes, ReadIsLatest, Node, Goto, Fail, Exit, Forget
<1>1. CASE Create
  <2>1. Built \in Node
    BY DEF Built, Node
  <2> QED
    BY <1>1, <2>1 DEF Create
<1>2. CASE RegGet
  BY <1>2 DEF RegGet
<1>3. CASE RegUpdate
  BY <1>3 DEF RegUpdate
<1>4. CASE RegStatus
  BY <1>4 DEF RegStatus, Built
<1>5. CASE BeatGet
  BY <1>5 DEF BeatGet
<1>6. CASE BeatWrite
  BY <1>6 DEF BeatWrite
<1>7. CASE Silent
  BY <1>7 DEF Silent
<1>8. CASE Untaint
  BY <1>8 DEF Untaint
<1>9. CASE OtherWrite
  BY <1>9 DEF OtherWrite
<1>10. CASE Stop
  BY <1>10 DEF Stop
<1>11. CASE Start
  BY <1>11 DEF Start
<1> QED
  BY <1>1, <1>2, <1>3, <1>4, <1>5, <1>6, <1>7, <1>8, <1>9, <1>10, <1>11 DEF Next, Register, Heartbeat, Others

\* Whoever writes leaves no reader with the latest, but for himself.
LEMMA ReadIsLatestKept == NodeConstants /\ TypeOK /\ Next => ReadIsLatest'
<1> SUFFICES ASSUME NodeConstants, Bounds, Places, Nodes, ReadIsLatest, Next PROVE ReadIsLatest'
  BY DEF TypeOK
<1> USE DEF ReadIsLatest, Nodes, Node, Goto, Fail, Exit, Forget
<1>1. CASE Create
  BY <1>1 DEF Create, Built
<1>2. CASE RegGet
  BY <1>2 DEF RegGet
<1>3. CASE RegUpdate
  <2>1. CASE latest /\ node' = [mine EXCEPT !.taint = FALSE] /\ mine' = node'
    <3>1. node' \in Node
      BY <2>1
    <3> QED
      BY <2>1, <3>1 DEF NodeConstants
  <2>2. CASE mine' = NoNode /\ latest' = FALSE
    BY <2>2
  <2> QED
    BY <1>3, <2>1, <2>2 DEF RegUpdate
<1>4. CASE RegStatus
  BY <1>4 DEF RegStatus, Built
<1>5. CASE BeatGet
  BY <1>5 DEF BeatGet
<1>6. CASE BeatWrite
  BY <1>6 DEF BeatWrite
<1>7. CASE Silent
  BY <1>7 DEF Silent
<1>8. CASE Untaint
  BY <1>8 DEF Untaint
<1>9. CASE OtherWrite
  BY <1>9 DEF OtherWrite
<1>10. CASE Stop
  BY <1>10 DEF Stop
<1>11. CASE Start
  BY <1>11 DEF Start
<1> QED
  BY <1>1, <1>2, <1>3, <1>4, <1>5, <1>6, <1>7, <1>8, <1>9, <1>10, <1>11 DEF Next, Register, Heartbeat, Others

\* The node, what main and the heartbeat have read of it, and where they are.
THEOREM NodeTypeCorrect == NodeConstants /\ Spec => []TypeOK
<1> SUFFICES ASSUME NodeConstants PROVE Spec => []TypeOK
  OBVIOUS
<1>1. Init => TypeOK
  BY InitTypes
<1>2. TypeOK /\ [Next]_vars => TypeOK'
  <2>1. TypeOK /\ Next => TypeOK'
    BY BoundsKept, PlacesKept, NodesKept, ReadIsLatestKept DEF TypeOK
  <2>2. TypeOK /\ UNCHANGED vars => TypeOK'
    BY DEF vars, nodeVars, TypeOK, Bounds, Places, Nodes, ReadIsLatest
  <2> QED
    BY <2>1, <2>2
<1> QED
  BY <1>1, <1>2, PTL DEF Spec

\* No step takes from the node what is another's to write, apart from the status
\* at registration: whoever writes has the latest, and keeps it.
LEMMA StepKeepsOthers ==
  NodeConstants /\ TypeOK /\ Next
    => (node # NoNode /\ node' # NoNode =>
          /\ node.cidr => node'.cidr
          /\ main = "up" /\ node.cond => node'.cond)
<1> SUFFICES ASSUME Nodes, ReadIsLatest, Next, node # NoNode, node' # NoNode
             PROVE  /\ node.cidr => node'.cidr
                    /\ main = "up" /\ node.cond => node'.cond
  BY DEF TypeOK
<1>0. node \in Node /\ (latest => mine = node)
  BY DEF Nodes, ReadIsLatest
<1>1. CASE Create \/ RegGet \/ BeatGet
  BY <1>1 DEF Create, RegGet, BeatGet, Goto, Exit, Fail
<1>2. CASE RegUpdate
  BY <1>0, <1>2 DEF RegUpdate, Goto, Exit, Forget, Node
<1>3. CASE RegStatus
  BY <1>0, <1>3 DEF RegStatus, Goto, Exit, Forget, Built, Node
<1>4. CASE BeatWrite
  BY <1>0, <1>4 DEF BeatWrite, Node
<1>5. CASE Silent \/ Untaint
  BY <1>0, <1>5 DEF Silent, Untaint, Node
<1>6. CASE OtherWrite
  BY <1>0, <1>6 DEF OtherWrite, Node
<1>7. CASE Stop \/ Start
  BY <1>7 DEF Stop, Start, Exit, Goto
<1> QED
  BY <1>1, <1>2, <1>3, <1>4, <1>5, <1>6, <1>7 DEF Next, Register, Heartbeat, Others

\* registerNode and heartbeat take nothing from the node that is another's to
\* write, apart from the status at registration.
THEOREM OthersAlwaysKept == NodeConstants /\ Spec => OthersAreKept
<1> SUFFICES ASSUME NodeConstants PROVE Spec => OthersAreKept
  OBVIOUS
<1> DEFINE Kept == node # NoNode /\ node' # NoNode =>
                     /\ node.cidr => node'.cidr
                     /\ main = "up" /\ node.cond => node'.cond
<1>1. TypeOK /\ [Next]_vars => [Kept]_vars
  BY StepKeepsOthers
<1> QED
  BY <1>1, NodeTypeCorrect, PTL DEF Spec, OthersAreKept
=============================================================================
