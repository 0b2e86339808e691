------------------------- MODULE ExecSessionProofs -------------------------
(***************************************************************************)
(* Theorems about ExecSession for any set of exit codes: its safety        *)
(* properties, and that it implements ExecRequest.                         *)
(***************************************************************************)
EXTENDS ExecSession, FiniteSetTheorems, TLAPS

-----------------------------------------------------------------------------
(* The inductive invariant.                                                *)

\* The client opens what it has to, and only that.
StreamsInv == Sensible(want) /\ due \cup got = Opened(want, resizes)

\* The handler's place says how far the command and the answer are.
PlaceInv ==
  /\ pc \in {"select", "start"} => command = "none" /\ ~pending
  /\ pc = "wait" => command # "none"
  /\ pc \in {"close", "status"} => command = "exited" /\ (here => ~pending)
  /\ pc \notin {"end", "done"} => answers = {}
  /\ pc \in {"end", "done"} /\ command = "running" => ~up \/ (want.tty /\ "stdout" \notin given)
  /\ pc # "done" /\ here => open

ExecInv == TypeOK /\ StreamsInv /\ PlaceInv /\ StreamsAreThere

-----------------------------------------------------------------------------
(* Counting streams.                                                       *)

\* There are five kinds of streams.
LEMMA StreamTypesFinite == IsFiniteSet(StreamType)
<1>1. IsFiniteSet({"error"})
  BY FS_Singleton
<1>2. IsFiniteSet({"error"} \cup {"stdin"})
  BY <1>1, FS_AddElement
<1>3. IsFiniteSet(({"error"} \cup {"stdin"}) \cup {"stdout"})
  BY <1>2, FS_AddElement
<1>4. IsFiniteSet((({"error"} \cup {"stdin"}) \cup {"stdout"}) \cup {"stderr"})
  BY <1>3, FS_AddElement
<1>5. IsFiniteSet(((({"error"} \cup {"stdin"}) \cup {"stdout"}) \cup {"stderr"}) \cup {"resize"})
  BY <1>4, FS_AddElement
<1>6. StreamType = ((({"error"} \cup {"stdin"}) \cup {"stdout"}) \cup {"stderr"}) \cup {"resize"}
  BY DEF StreamType
<1> QED
  BY <1>5, <1>6

\* The number the handler waits for is the number of streams a client of a
\* current protocol opens for the query that was read.
LEMMA ExpectedIsOpened ==
  ASSUME NEW q \in Query, q.tty => ~q.stderr
  PROVE  /\ IsFiniteSet(Opened(q, TRUE))
         /\ ExpectedStreams(q) = Cardinality(Opened(q, TRUE))
<1> DEFINE base == {t \in {"stdin", "stdout"} : q[t]}
           known == base \cup {"error"}
           rest == IF q.tty THEN {"resize"} ELSE IF q.stderr THEN {"stderr"} ELSE {}
<1>1. IsFiniteSet(base) /\ Cardinality(base) \in Nat
  BY StreamTypesFinite, FS_Subset, FS_CardinalityType, base \subseteq StreamType DEF StreamType
<1>2. IsFiniteSet(known) /\ Cardinality(known) = Cardinality(base) + 1
  <2>1. "error" \notin base
    OBVIOUS
  <2> QED
    BY <1>1, <2>1, FS_AddElement
<1>3. ASSUME NEW t \in {"stderr", "resize"}
      PROVE  IsFiniteSet(known \cup {t}) /\ Cardinality(known \cup {t}) = Cardinality(base) + 2
  <2>1. t \notin known
    OBVIOUS
  <2>2. Cardinality(known \cup {t}) = Cardinality(known) + 1 /\ IsFiniteSet(known \cup {t})
    BY <1>2, <2>1, FS_AddElement
  <2> HIDE DEF known
  <2> QED
    BY <1>1, <1>2, <2>2
<1>4. Opened(q, TRUE) = known \cup rest
  BY DEF Opened, Query
<1>5. ExpectedStreams(q) = 1 + Cardinality(base) + (IF q.tty \/ q.stderr THEN 1 ELSE 0)
  BY DEF ExpectedStreams
<1> HIDE DEF known, base
<1>6. CASE q.tty
  <2>1. Opened(q, TRUE) = known \cup {"resize"}
    BY <1>4, <1>6
  <2>2. ExpectedStreams(q) = Cardinality(base) + 2
    BY <1>1, <1>5, <1>6
  <2> QED
    BY <1>3, <2>1, <2>2
<1>7. CASE ~q.tty /\ q.stderr
  <2>1. Opened(q, TRUE) = known \cup {"stderr"}
    BY <1>4, <1>7
  <2>2. ExpectedStreams(q) = Cardinality(base) + 2
    BY <1>1, <1>5, <1>7
  <2> QED
    BY <1>3, <2>1, <2>2
<1>8. CASE ~q.tty /\ ~q.stderr
  <2>1. Opened(q, TRUE) = known
    BY <1>4, <1>8
  <2>2. ExpectedStreams(q) = Cardinality(base) + 1
    BY <1>1, <1>5, <1>8
  <2> QED
    BY <1>2, <2>1, <2>2
<1> QED
  BY <1>6, <1>7, <1>8

\* A client that is misread opens a stream that is not counted: stderr.
LEMMA MisreadIsStderr ==
  ASSUME TypeOK, StreamsInv
  PROVE  LET q == Parsed(want, names) IN
         /\ q \in Query /\ (q.tty => ~q.stderr)
         /\ Misread => /\ "stderr" \in Opened(want, TRUE)
                       /\ Opened(q, TRUE) = Opened(want, TRUE) \ {"stderr"}
<1> DEFINE q == Parsed(want, names)
<1>1. want \in Query /\ (want.tty => ~want.stderr)
  BY DEF TypeOK, StreamsInv, Sensible
<1>2. /\ q \in Query /\ q.tty = want.tty /\ q.stdin = want.stdin /\ q.stdout = want.stdout
      /\ q.stderr = (want.stderr /\ names = "stdin")
  BY <1>1 DEF Parsed, Query
<1>3. Misread => want.stderr /\ ~q.stderr
  <2>1. CASE want.stderr /\ names # "stdin"
    BY <1>2, <2>1
  <2>2. CASE want.stderr = (want.stderr /\ names = "stdin")
    <3>1. q = want
      BY <1>1, <2>2 DEF Parsed, Query
    <3> QED
      BY <3>1 DEF Misread
  <2>3. want.stderr \in BOOLEAN
    BY <1>1 DEF Query
  <2> QED
    BY <2>1, <2>2, <2>3
<1> HIDE DEF q
<1>4. ASSUME Misread
      PROVE  /\ "stderr" \in Opened(want, TRUE)
             /\ Opened(q, TRUE) = Opened(want, TRUE) \ {"stderr"}
  BY <1>1, <1>2, <1>3, <1>4 DEF Opened
<1> QED
  BY <1>1, <1>2, <1>4 DEF q

\* When the count is reached, the streams are those the client was to open, but
\* for one where the count was one too low.
LEMMA CountNames ==
  ASSUME TypeOK, StreamsInv, arrived >= ExpectedStreams(Parsed(want, names))
  PROVE  Cardinality(Opened(want, TRUE) \ got) <= IF Misread THEN 1 ELSE 0
<1> DEFINE all == Opened(want, TRUE)
           q == Parsed(want, names)
           read == Opened(q, TRUE)
<1>1. /\ q \in Query /\ (q.tty => ~q.stderr)
      /\ Misread => "stderr" \in all /\ read = all \ {"stderr"}
  BY MisreadIsStderr
<1>2. ExpectedStreams(q) = Cardinality(read)
  BY <1>1, ExpectedIsOpened
<1>3. ~Misread => read = all
  BY DEF Misread
<1>4. got \subseteq all /\ all \subseteq StreamType
  BY DEF StreamsInv, Opened, StreamType
<1>5. arrived = Cardinality(got) /\ arrived >= Cardinality(read)
  BY <1>2 DEF TypeOK
<1> HIDE DEF all, q, read
<1>6. IsFiniteSet(all) /\ IsFiniteSet(got) /\ Cardinality(all) \in Nat /\ Cardinality(got) \in Nat
  BY <1>4, StreamTypesFinite, FS_Subset, FS_CardinalityType
<1>7. Cardinality(read) = IF Misread THEN Cardinality(all) - 1 ELSE Cardinality(all)
  <2>1. CASE Misread
    BY <1>1, <1>6, <2>1, FS_RemoveElement
  <2>2. CASE ~Misread
    BY <1>3, <2>2
  <2> QED
    BY <2>1, <2>2
<1>8. Cardinality(all \ got) = Cardinality(all) - Cardinality(got)
  <2>1. all \cap got = got
    BY <1>4
  <2>2. Cardinality(all \ got) = Cardinality(all) - Cardinality(all \cap got)
    BY <1>6, FS_Difference
  <2> QED
    BY <2>1, <2>2
<1>9. Cardinality(all \ got) <= IF Misread THEN 1 ELSE 0
  <2>1. CASE Misread
    BY <1>5, <1>6, <1>7, <1>8, <2>1
  <2>2. CASE ~Misread
    BY <1>5, <1>6, <1>7, <1>8, <2>2
  <2> QED
    BY <2>1, <2>2
<1> QED
  BY <1>9 DEF all

\* What has arrived stays, so no more of it comes to be missing.
LEMMA FewerMissing ==
  ASSUME NEW s \in SUBSET StreamType, NEW t \in SUBSET StreamType, s \subseteq t
  PROVE  /\ Cardinality(Opened(want, TRUE) \ s) \in Nat
         /\ Cardinality(Opened(want, TRUE) \ t) \in Nat
         /\ Cardinality(Opened(want, TRUE) \ t) <= Cardinality(Opened(want, TRUE) \ s)
<1> DEFINE all == Opened(want, TRUE)
<1>1. all \subseteq StreamType
  BY DEF Opened, StreamType
<1> HIDE DEF all
<1>2. IsFiniteSet(all \ s) /\ (all \ t) \subseteq (all \ s)
  BY <1>1, StreamTypesFinite, FS_Subset
<1>3. IsFiniteSet(all \ t) /\ Cardinality(all \ t) <= Cardinality(all \ s)
  BY <1>2, FS_Subset
<1>4. Cardinality(all \ s) \in Nat /\ Cardinality(all \ t) \in Nat
  BY <1>2, <1>3, FS_CardinalityType
<1> QED
  BY <1>3, <1>4 DEF all

-----------------------------------------------------------------------------
(* The invariant holds.                                                    *)

\* The handler begins with nothing received, run or answered.
LEMMA InitInv == Init => ExecInv
<1> SUFFICES ASSUME Init PROVE ExecInv
  OBVIOUS
<1>1. Cardinality(got) = 0
  BY FS_EmptySet DEF Init
<1>2. due \subseteq StreamType
  BY DEF Init, Opened, StreamType
<1>3. typing \in BOOLEAN
  BY DEF Init, Query
<1> QED
  BY <1>1, <1>2, <1>3 DEF Init, ExecInv, TypeOK, StreamsInv, PlaceInv, StreamsAreThere, PC, Query

\* A stream moves from due to got, and is counted.
LEMMA ArrivalInv ==
  ASSUME ExecInv, NEW t \in StreamType, StreamArrives(t)
  PROVE  ExecInv'
<1> USE DEF ExecInv
<1>2. IsFiniteSet(got)
  BY StreamTypesFinite, FS_Subset DEF TypeOK
<1>3. t \notin got
  BY DEF TypeOK, StreamArrives
<1>4. arrived' = Cardinality(got')
  BY <1>2, <1>3, FS_AddElement, FS_CardinalityType DEF TypeOK, StreamArrives
<1>5. TypeOK'
  BY <1>4 DEF TypeOK, StreamArrives, request, client, cmdVars
<1>6. StreamsInv'
  BY DEF StreamsInv, StreamArrives, request
<1>7. PlaceInv'
  BY DEF PlaceInv, StreamArrives, request, client, cmdVars
<1>8. StreamsAreThere'
  <2>1. got \in SUBSET StreamType /\ got' \in SUBSET StreamType /\ got \subseteq got'
    BY <1>5 DEF TypeOK, StreamArrives
  <2>2. want' = want /\ names' = names /\ pc' = pc
    BY DEF StreamArrives, request
  <2>3. Misread' <=> Misread
    BY <2>2 DEF Misread
  <2> DEFINE before == Cardinality(Opened(want, TRUE) \ got)
             after  == Cardinality(Opened(want, TRUE) \ got')
             few    == IF Misread THEN 1 ELSE 0
  <2>4. before \in Nat /\ after \in Nat /\ after <= before
    BY <2>1, FewerMissing
  <2>5. few \in Nat
    OBVIOUS
  <2>6. StreamsAreThere <=> (pc \in {"start", "wait", "close", "status"} => before <= few)
    BY DEF StreamsAreThere
  <2>7. StreamsAreThere' <=> (pc \in {"start", "wait", "close", "status"} => after <= few)
    BY <2>2, <2>3 DEF StreamsAreThere
  <2> HIDE DEF before, after, few
  <2> QED
    BY <2>4, <2>5, <2>6, <2>7
<1> QED
  BY <1>5, <1>6, <1>7, <1>8

\* What the handler writes is a status.
LEMMA StatusTypes == \A n \in Nat : StatusOf(n) \in Abstract!Status
BY DEF StatusOf, Abstract!Status

\* No stream comes to be missing, or to be there, unless one arrives or the
\* handler goes on with what there is.
LEMMA StreamsStay ==
  ASSUME ExecInv, UNCHANGED <<want, names, resizes, due, got>>,
         pc' \in {"start", "wait", "close", "status"} => pc \in {"start", "wait", "close", "status"}
  PROVE  StreamsInv' /\ StreamsAreThere'
BY DEF ExecInv, StreamsInv, StreamsAreThere, Misread

\* Each step of the handler keeps the invariant.
LEMMA HandlerInv == ASSUME ExecInv, Handler PROVE ExecInv'
<1> USE DEF ExecInv, Goto, request, streams, client, cmdVars
<1>1. CASE SelectStreams
  <2>1. TypeOK'
    BY <1>1 DEF SelectStreams, TypeOK, PC
  <2>2. Cardinality(Opened(want, TRUE) \ got) <= IF Misread THEN 1 ELSE 0
    BY <1>1, CountNames DEF SelectStreams
  <2>3. StreamsInv' /\ StreamsAreThere'
    BY <1>1, <2>2 DEF SelectStreams, StreamsInv, StreamsAreThere, Misread
  <2>4. PlaceInv'
    BY <1>1 DEF SelectStreams, TypeOK, PlaceInv
  <2> QED
    BY <2>1, <2>3, <2>4
<1>2. CASE SelectTimeout
  <2>1. TypeOK'
    BY <1>2 DEF SelectTimeout, TypeOK, PC
  <2>2. StreamsInv' /\ StreamsAreThere'
    BY <1>2, StreamsStay DEF SelectTimeout
  <2>3. PlaceInv'
    BY <1>2 DEF SelectTimeout, TypeOK, PlaceInv
  <2> QED
    BY <2>1, <2>2, <2>3
<1>3. CASE Launch
  <2>1. TypeOK'
    BY <1>3 DEF Launch, TypeOK, PC, Query
  <2>2. StreamsInv' /\ StreamsAreThere'
    BY <1>3, StreamsStay DEF Launch
  <2>3. PlaceInv'
    BY <1>3 DEF Launch, TypeOK, PlaceInv
  <2> QED
    BY <2>1, <2>2, <2>3
<1>4. CASE LaunchFails
  <2>1. TypeOK'
    BY <1>4 DEF LaunchFails, TypeOK, PC
  <2>2. StreamsInv' /\ StreamsAreThere'
    BY <1>4, StreamsStay DEF LaunchFails
  <2>3. PlaceInv'
    BY <1>4 DEF LaunchFails, TypeOK, PlaceInv
  <2> QED
    BY <2>1, <2>2, <2>3
<1>5. CASE RunReturns
  <2>1. TypeOK'
    BY <1>5 DEF RunReturns, TypeOK, PC
  <2>2. StreamsInv' /\ StreamsAreThere'
    BY <1>5, StreamsStay DEF RunReturns
  <2>3. PlaceInv'
    BY <1>5 DEF RunReturns, TypeOK, PlaceInv
  <2> QED
    BY <2>1, <2>2, <2>3
<1>6. CASE CopyPanics
  <2>1. TypeOK'
    BY <1>6 DEF CopyPanics, TypeOK, PC
  <2>2. StreamsInv' /\ StreamsAreThere'
    BY <1>6, StreamsStay DEF CopyPanics
  <2>3. PlaceInv'
    BY <1>6 DEF CopyPanics, TypeOK, PlaceInv
  <2> QED
    BY <2>1, <2>2, <2>3
<1>7. CASE CloseOutputs
  <2>1. TypeOK'
    BY <1>7 DEF CloseOutputs, TypeOK, PC
  <2>2. StreamsInv' /\ StreamsAreThere'
    BY <1>7, StreamsStay DEF CloseOutputs
  <2>3. PlaceInv'
    BY <1>7 DEF CloseOutputs, TypeOK, PlaceInv
  <2> QED
    BY <2>1, <2>2, <2>3
<1>8. CASE WriteStatus
  <2>1. TypeOK'
    BY <1>8, StatusTypes DEF WriteStatus, TypeOK, PC
  <2>2. StreamsInv' /\ StreamsAreThere'
    BY <1>8, StreamsStay DEF WriteStatus
  <2>3. PlaceInv'
    BY <1>8 DEF WriteStatus, TypeOK, PlaceInv
  <2> QED
    BY <2>1, <2>2, <2>3
<1>9. CASE CloseConn
  <2>1. TypeOK'
    BY <1>9 DEF CloseConn, TypeOK, PC
  <2>2. StreamsInv' /\ StreamsAreThere'
    BY <1>9, StreamsStay DEF CloseConn
  <2>3. PlaceInv'
    BY <1>9 DEF CloseConn, TypeOK, PlaceInv
  <2> QED
    BY <2>1, <2>2, <2>3
<1>10. CASE StatusPanics
  <2>1. TypeOK'
    BY <1>10 DEF StatusPanics, TypeOK, PC
  <2>2. StreamsInv' /\ StreamsAreThere'
    BY <1>10, StreamsStay DEF StatusPanics
  <2>3. PlaceInv'
    BY <1>10 DEF StatusPanics, TypeOK, PlaceInv
  <2> QED
    BY <2>1, <2>2, <2>3
<1> QED
  BY <1>1, <1>2, <1>3, <1>4, <1>5, <1>6, <1>7, <1>8, <1>9, <1>10 DEF Handler

\* Nor does anything lose its type where only switches are set.
LEMMA TypesStay ==
  ASSUME ExecInv, UNCHANGED <<request, streams, command, code, answers>>, pc' \in PC,
         {here', typing', up', ended', feeding', pending', open'} \subseteq BOOLEAN
  PROVE  TypeOK'
<1>1. UNCHANGED <<want, names, resizes, reads, due, got, arrived, given>>
  BY DEF request, streams
<1>2. TypeOK
  BY DEF ExecInv
<1> QED
  BY <1>1, <1>2 DEF TypeOK

\* So does what happens around the handler.
LEMMA OthersInv ==
  ASSUME ExecInv,
         Exit \/ Output \/ Relay \/ FeedEnds \/ Type \/ EndStdin \/ Leave \/ KubeletStop
  PROVE  ExecInv'
<1> USE DEF ExecInv, request, streams, client, cmdVars
<1>1. CASE Exit
  <2>1. TypeOK'
    BY <1>1, ExecConstants DEF Exit, TypeOK, PC
  <2>2. StreamsInv' /\ StreamsAreThere'
    BY <1>1, StreamsStay DEF Exit
  <2>3. PlaceInv'
    BY <1>1 DEF Exit, TypeOK, PlaceInv
  <2> QED
    BY <2>1, <2>2, <2>3
<1>2. CASE Output
  <2>1. TypeOK'
    <3>1. {here', typing', up', ended', feeding', pending', open'} \subseteq BOOLEAN /\ pc' \in PC
      BY <1>2 DEF Output, TypeOK, PC
    <3> QED
      BY <1>2, <3>1, TypesStay DEF Output
  <2>2. StreamsInv' /\ StreamsAreThere'
    BY <1>2, StreamsStay DEF Output
  <2>3. PlaceInv'
    BY <1>2 DEF Output, TypeOK, PlaceInv
  <2> QED
    BY <2>1, <2>2, <2>3
<1>3. CASE Relay
  <2>1. TypeOK'
    <3>1. {here', typing', up', ended', feeding', pending', open'} \subseteq BOOLEAN /\ pc' \in PC
      BY <1>3 DEF Relay, TypeOK, PC
    <3> QED
      BY <1>3, <3>1, TypesStay DEF Relay
  <2>2. StreamsInv' /\ StreamsAreThere'
    BY <1>3, StreamsStay DEF Relay
  <2>3. PlaceInv'
    BY <1>3 DEF Relay, TypeOK, PlaceInv
  <2> QED
    BY <2>1, <2>2, <2>3
<1>4. CASE FeedEnds
  <2>1. TypeOK'
    <3>1. {here', typing', up', ended', feeding', pending', open'} \subseteq BOOLEAN /\ pc' \in PC
      BY <1>4 DEF FeedEnds, TypeOK, PC
    <3> QED
      BY <1>4, <3>1, TypesStay DEF FeedEnds
  <2>2. StreamsInv' /\ StreamsAreThere'
    BY <1>4, StreamsStay DEF FeedEnds
  <2>3. PlaceInv'
    BY <1>4 DEF FeedEnds, TypeOK, PlaceInv
  <2> QED
    BY <2>1, <2>2, <2>3
<1>5. CASE Type
  <2>1. TypeOK'
    <3>1. {here', typing', up', ended', feeding', pending', open'} \subseteq BOOLEAN /\ pc' \in PC
      BY <1>5 DEF Type, TypeOK, PC
    <3> QED
      BY <1>5, <3>1, TypesStay DEF Type
  <2>2. StreamsInv' /\ StreamsAreThere'
    BY <1>5, StreamsStay DEF Type
  <2>3. PlaceInv'
    BY <1>5 DEF Type, TypeOK, PlaceInv
  <2> QED
    BY <2>1, <2>2, <2>3
<1>6. CASE EndStdin
  <2>1. TypeOK'
    <3>1. {here', typing', up', ended', feeding', pending', open'} \subseteq BOOLEAN /\ pc' \in PC
      BY <1>6 DEF EndStdin, TypeOK, PC
    <3> QED
      BY <1>6, <3>1, TypesStay DEF EndStdin
  <2>2. StreamsInv' /\ StreamsAreThere'
    BY <1>6, StreamsStay DEF EndStdin
  <2>3. PlaceInv'
    BY <1>6 DEF EndStdin, TypeOK, PlaceInv
  <2> QED
    BY <2>1, <2>2, <2>3
<1>7. CASE Leave
  <2>1. TypeOK'
    <3>1. {here', typing', up', ended', feeding', pending', open'} \subseteq BOOLEAN /\ pc' \in PC
      BY <1>7 DEF Leave, TypeOK, PC
    <3> QED
      BY <1>7, <3>1, TypesStay DEF Leave
  <2>2. StreamsInv' /\ StreamsAreThere'
    BY <1>7, StreamsStay DEF Leave
  <2>3. PlaceInv'
    BY <1>7 DEF Leave, TypeOK, PlaceInv
  <2> QED
    BY <2>1, <2>2, <2>3
<1>8. CASE KubeletStop
  <2>1. TypeOK'
    <3>1. {here', typing', up', ended', feeding', pending', open'} \subseteq BOOLEAN /\ pc' \in PC
      BY <1>8 DEF KubeletStop, TypeOK, PC
    <3> QED
      BY <1>8, <3>1, TypesStay DEF KubeletStop
  <2>2. StreamsInv' /\ StreamsAreThere'
    BY <1>8, StreamsStay DEF KubeletStop
  <2>3. PlaceInv'
    BY <1>8 DEF KubeletStop, TypeOK, PlaceInv
  <2> QED
    BY <2>1, <2>2, <2>3
<1> QED
  BY <1>1, <1>2, <1>3, <1>4, <1>5, <1>6, <1>7, <1>8

\* Nothing changes, and nothing is broken.
LEMMA StutterInv == ExecInv /\ UNCHANGED vars => ExecInv'
<1> SUFFICES ASSUME ExecInv, UNCHANGED vars PROVE ExecInv'
  OBVIOUS
<1> USE DEF ExecInv, vars, request, streams, client, cmdVars
<1>1. TypeOK'
  BY DEF TypeOK
<1>2. StreamsInv' /\ StreamsAreThere'
  BY DEF StreamsInv, StreamsAreThere, Misread
<1>3. PlaceInv'
  BY DEF PlaceInv
<1> QED
  BY <1>1, <1>2, <1>3

\* The invariant is inductive.
LEMMA ExecInvAlways == Spec => []ExecInv
<1>1. Init => ExecInv
  BY InitInv
<1>2. ExecInv /\ [Next]_vars => ExecInv'
  BY ArrivalInv, HandlerInv, OthersInv, StutterInv DEF Next
<1> QED
  BY <1>1, <1>2, PTL DEF Spec

\* Every variable of a session keeps its type, and what is counted has arrived.
THEOREM ExecTypeCorrect == Spec => []TypeOK
<1>1. ExecInv => TypeOK
  BY DEF ExecInv
<1> QED
  BY <1>1, ExecInvAlways, PTL

\* Whatever the order in which a client opens its streams, however its query
\* names them, and whenever the timer fires: the handler goes on without one of
\* them only when it has not read that stderr was asked for, and then without
\* one at most.
THEOREM ExecStreamsAreThere == Spec => []StreamsAreThere
<1>1. ExecInv => StreamsAreThere
  BY DEF ExecInv
<1> QED
  BY <1>1, ExecInvAlways, PTL

\* The output that a client that is there gets comes before the status.
THEOREM ExecOutputBeforeStatus == Spec => []OutputBeforeStatus
<1>1. ExecInv => OutputBeforeStatus
  BY DEF ExecInv, PlaceInv, OutputBeforeStatus
<1> QED
  BY <1>1, ExecInvAlways, PTL

\* A handler that returns leaves no command running behind it, but for the two
\* cases that the property names.
THEOREM ExecNoCommandLeft == Spec => []NoCommandLeft
<1>1. ExecInv => NoCommandLeft
  BY DEF ExecInv, PlaceInv, NoCommandLeft
<1> QED
  BY <1>1, ExecInvAlways, PTL

-----------------------------------------------------------------------------
(* The session implements the request.                                     *)

\* A step of the handler is a step of the request, or none.
LEMMA HandlerRefines == ASSUME ExecInv, Handler PROVE [Abstract!Next]_(Abstract!vars)
<1> USE DEF ExecInv, TypeOK, PlaceInv, Goto, client, cmdVars, Abstract!Next, Abstract!vars
<1>1. CASE Launch
  BY <1>1 DEF Launch, Abstract!Start
<1>2. CASE LaunchFails
  BY <1>2 DEF LaunchFails, Abstract!CannotStart
<1>3. CASE CopyPanics
  BY <1>3 DEF CopyPanics
<1>4. CASE WriteStatus
  <2>1. StatusOf(code) = Abstract!StatusOf(code)
    BY DEF StatusOf, Abstract!StatusOf
  <2> QED
    BY <1>4, <2>1 DEF WriteStatus, Abstract!Answer
<1>5. CASE CloseConn
  BY <1>5 DEF CloseConn, Abstract!Close
<1>6. CASE SelectStreams \/ SelectTimeout \/ RunReturns \/ CloseOutputs \/ StatusPanics
  BY <1>6 DEF SelectStreams, SelectTimeout, RunReturns, CloseOutputs, StatusPanics
<1> QED
  BY <1>1, <1>2, <1>3, <1>4, <1>5, <1>6 DEF Handler

\* So is whatever happens around the handler.
LEMMA OthersRefine ==
  ASSUME ExecInv,
         \/ Exit \/ Output \/ Relay \/ FeedEnds \/ Type \/ EndStdin \/ Leave \/ KubeletStop
         \/ \E t \in StreamType : StreamArrives(t)
         \/ UNCHANGED vars
  PROVE  [Abstract!Next]_(Abstract!vars)
<1> USE DEF ExecInv, TypeOK, client, cmdVars, Abstract!Next, Abstract!vars
<1>1. CASE Exit
  BY <1>1 DEF Exit, Abstract!Exit
<1>2. CASE Leave \/ KubeletStop
  BY <1>2 DEF Leave, KubeletStop, Abstract!Close
<1>3. CASE Output \/ Relay \/ FeedEnds \/ Type \/ EndStdin
  BY <1>3 DEF Output, Relay, FeedEnds, Type, EndStdin
<1>4. CASE \E t \in StreamType : StreamArrives(t)
  BY <1>4 DEF StreamArrives
<1>5. CASE UNCHANGED vars
  BY <1>5 DEF vars
<1> QED
  BY <1>1, <1>2, <1>3, <1>4, <1>5

\* The exec endpoint does what ExecRequest says: a command runs at most once
\* per request, and its client is told once, and truly, how it ended, or sees
\* the connection end.  For all orders of streams, timers, exits and copies,
\* clients that leave and a kubelet that stops.
THEOREM SessionImplementsRequest == Spec => ImplementsExecRequest
<1>1. Init => Abstract!Init
  BY DEF Init, Abstract!Init
<1>2. ExecInv /\ [Next]_vars => [Abstract!Next]_(Abstract!vars)
  BY HandlerRefines, OthersRefine DEF Next
<1> QED
  BY <1>1, <1>2, ExecInvAlways, PTL DEF Spec, ImplementsExecRequest, Abstract!Spec
=============================================================================
