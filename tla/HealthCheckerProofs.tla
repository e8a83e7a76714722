------------------------ MODULE HealthCheckerProofs ------------------------
(***************************************************************************)
(* The bookkeeping of the health checker for every set of nodes, every set *)
(* of configurations a reload may bring and every number of connections.   *)
(*                                                                         *)
(* That ActiveConns never counts a connection which has ended is not       *)
(* inductive: RecordConnectionEnd decrements the object it looked up, and  *)
(* one must know that this is the object that counted the connection       *)
(* whenever that one is still in the map (EndsWhereBorn).  This holds      *)
(* because an object once dropped never comes back (CurrentIds, KnownIds). *)
(*                                                                         *)
(* The two action properties come last, from the type and the streaks:     *)
(* what turns the health of a node, and which object a verdict reaches.    *)
(***************************************************************************)
EXTENDS HealthChecker, FiniteSetTheorems, TLAPS

\* The status in the map is the last one that was made for its name.
CurrentIds == \A n \in DOMAIN statuses : statuses[n].id = lastId[n]

\* A connection knows only objects that have been made.
KnownIds ==
    \A c \in Conns : conn[c].pc # "none" =>
        /\ conn[c].node \in Names
        /\ conn[c].id <= lastId[conn[c].node]
        /\ conn[c].born <= lastId[conn[c].node]

\* A connection that is about to end has looked up the object that counted it,
\* if there still is one.
EndsWhereBorn ==
    \A c \in Conns :
        conn[c].pc = "ending" /\ Live(conn[c].node, conn[c].born)
          => conn[c].id = conn[c].born

Inv ==
    /\ TypeOK
    /\ StatusPerNode
    /\ CurrentIds
    /\ KnownIds
    /\ EndsWhereBorn
    /\ ActiveConnsNotLeaked

----------------------------------------------------------------------------
\* The methods of NodeStatus keep its type and its identity, and the two that
\* record a verdict do not touch the connection count.
LEMMA StatusMethods ==
  ASSUME NEW st \in Statuses
  PROVE  /\ MarkHealthy(st) \in Statuses /\ MarkHealthy(st).id = st.id
         /\ MarkHealthy(st).activeConns = st.activeConns
         /\ Failed(st) \in Statuses /\ Failed(st).id = st.id
         /\ Failed(st).activeConns = st.activeConns
         /\ Succeeded(st) \in Statuses /\ Succeeded(st).id = st.id
         /\ Succeeded(st).activeConns = st.activeConns
         /\ IncrementActiveConns(st) \in Statuses /\ IncrementActiveConns(st).id = st.id
         /\ IncrementActiveConns(st).activeConns = st.activeConns + 1
         /\ DecrementActiveConns(st) \in Statuses /\ DecrementActiveConns(st).id = st.id
         /\ DecrementActiveConns(st).activeConns =
              IF st.activeConns > 0 THEN st.activeConns - 1 ELSE 0
<1>1. st.id \in 1..MaxId /\ st.healthy \in BOOLEAN /\ st.failCount \in 0..UnhealthyAfter
      /\ st.activeConns \in Nat
  BY DEF Statuses
<1>2. /\ MarkHealthy(st) \in Statuses /\ MarkHealthy(st).id = st.id
      /\ MarkHealthy(st).activeConns = st.activeConns
  <2>1. 0 \in 0..UnhealthyAfter /\ TRUE \in BOOLEAN
    BY DEF UnhealthyAfter
  <2> QED BY <1>1, <2>1 DEF Statuses, MarkHealthy
<1>3. /\ Failed(st) \in Statuses /\ Failed(st).id = st.id
      /\ Failed(st).activeConns = st.activeConns
  <2> DEFINE count == IF st.failCount < UnhealthyAfter THEN st.failCount + 1
                                                       ELSE st.failCount
             still == st.healthy /\ count < UnhealthyAfter
  <2>1. count \in 0..UnhealthyAfter
    BY <1>1 DEF UnhealthyAfter
  <2>2. still \in BOOLEAN
    OBVIOUS
  <2>3. Failed(st) = [st EXCEPT !.failCount = count, !.healthy = still]
    BY DEF Failed
  <2> HIDE DEF count, still
  <2> QED BY <1>1, <2>1, <2>2, <2>3 DEF Statuses
<1>4. /\ Succeeded(st) \in Statuses /\ Succeeded(st).id = st.id
      /\ Succeeded(st).activeConns = st.activeConns
  <2>1. 0 \in 0..UnhealthyAfter
    BY DEF UnhealthyAfter
  <2> QED BY <1>1, <2>1 DEF Statuses, Succeeded
<1>5. /\ IncrementActiveConns(st) \in Statuses /\ IncrementActiveConns(st).id = st.id
      /\ IncrementActiveConns(st).activeConns = st.activeConns + 1
  BY <1>1 DEF Statuses, IncrementActiveConns
<1>6. /\ DecrementActiveConns(st) \in Statuses /\ DecrementActiveConns(st).id = st.id
      /\ DecrementActiveConns(st).activeConns =
           IF st.activeConns > 0 THEN st.activeConns - 1 ELSE 0
  BY <1>1 DEF Statuses, DecrementActiveConns
<1> QED BY <1>2, <1>3, <1>4, <1>5, <1>6

\* The connections an object counts are finitely many.
LEMMA CountedFinite ==
  ASSUME NEW n
  PROVE  IsFiniteSet(CountedOn(n)) /\ Cardinality(CountedOn(n)) \in Nat
<1>1. CountedOn(n) \subseteq Conns
  BY DEF CountedOn
<1>2. IsFiniteSet(CountedOn(n))
  BY <1>1, ConnsAssumption, FS_Subset
<1> QED BY <1>2, FS_CardinalityType

\* NewChecker makes one fresh status for each node (checker.go:27-47).
LEMMA InitInv == Init => Inv
<1> SUFFICES ASSUME Init PROVE Inv
  OBVIOUS
<1>1. DOMAIN nodes \subseteq Names /\ nodes \in [DOMAIN nodes -> BOOLEAN]
  BY ConfigsAssumption DEF Init
<1>2. NewNodeStatus(1) \in Statuses /\ NewNodeStatus(1).id = 1
      /\ NewNodeStatus(1).activeConns = 0
  BY MaxIdAssumption DEF NewNodeStatus, Statuses, UnhealthyAfter
<1>3. DOMAIN statuses = DOMAIN nodes /\ \A n \in DOMAIN nodes : statuses[n] = NewNodeStatus(1)
  BY DEF Init
<1>4. TypeOK
  <2>1. statuses \in [DOMAIN statuses -> Statuses]
    BY <1>2, <1>3 DEF Init
  <2>2. lastId \in [Names -> Ids]
    BY MaxIdAssumption DEF Init, Ids, NoId
  <2>3. conn \in [Conns -> Connections] /\ probe \in [Names -> [Rounds -> Probes]]
    BY MaxIdAssumption DEF Init, Connections, Probes, NoConn, NoProbe, ConnSteps, Ids, NoId
  <2> QED BY <1>1, <1>3, <2>1, <2>2, <2>3 DEF Init, TypeOK
<1>5. StatusPerNode
  BY <1>3 DEF StatusPerNode
<1>6. CurrentIds
  BY <1>1, <1>2, <1>3 DEF CurrentIds, Init
<1>7. KnownIds /\ EndsWhereBorn
  BY DEF KnownIds, EndsWhereBorn, Init, NoConn
<1>8. ActiveConnsNotLeaked
  BY <1>2, <1>3, CountedFinite DEF ActiveConnsNotLeaked
<1> QED BY <1>4, <1>5, <1>6, <1>7, <1>8 DEF Inv

----------------------------------------------------------------------------
\* Steps that write to objects in the map but neither make nor drop one.
KeepsObjects ==
    /\ nodes' = nodes /\ lastId' = lastId
    /\ statuses' \in [DOMAIN statuses -> Statuses]
    /\ \A n \in DOMAIN statuses : statuses'[n].id = statuses[n].id

\* ... and that do not count connections either.
KeepsCounts ==
    /\ KeepsObjects
    /\ \A n \in DOMAIN statuses : statuses'[n].activeConns = statuses[n].activeConns

\* A step that keeps the objects keeps what says which object a name has.
LEMMA ObjectsKept ==
  ASSUME Inv, KeepsObjects
  PROVE  /\ StatusPerNode' /\ CurrentIds' /\ DOMAIN statuses' = DOMAIN statuses
         /\ \A n, id : Live(n, id)' <=> Live(n, id)
<1>1. DOMAIN statuses' = DOMAIN statuses
  BY DEF KeepsObjects
<1> QED BY <1>1 DEF Inv, KeepsObjects, StatusPerNode, CurrentIds, Live

\* What one method call on the object <<n, id>> does to the map.
LEMMA VerdictWritten ==
  ASSUME Inv, NEW n, NEW id, UNCHANGED <<nodes, lastId>>,
         \/ statuses' = Written(n, id, MarkHealthy)
         \/ statuses' = Written(n, id, Failed)
         \/ statuses' = Written(n, id, Succeeded)
  PROVE  KeepsCounts
<1>1. statuses \in [DOMAIN statuses -> Statuses]
  BY DEF Inv, TypeOK
<1>2. CASE ~Live(n, id)
  BY <1>1, <1>2 DEF Written, KeepsCounts, KeepsObjects
<1>3. CASE Live(n, id)
  <2>1. n \in DOMAIN statuses /\ statuses[n] \in Statuses
    BY <1>1, <1>3 DEF Live
  <2>2. PICK st \in {MarkHealthy(statuses[n]), Failed(statuses[n]), Succeeded(statuses[n])} :
           statuses' = [statuses EXCEPT ![n] = st]
    BY <1>3 DEF Written
  <2>3. st \in Statuses /\ st.id = statuses[n].id /\ st.activeConns = statuses[n].activeConns
    BY <2>1, <2>2, StatusMethods
  <2> QED BY <1>1, <2>1, <2>2, <2>3 DEF KeepsCounts, KeepsObjects
<1> QED BY <1>2, <1>3

\* Probes, the check loop and the servers leave the connections alone.
LEMMA ProbesInv ==
  ASSUME Inv, KeepsCounts, UNCHANGED conn,
         probe' \in [Names -> [Rounds -> Probes]], up' \in [Names -> BOOLEAN],
         loop' \in {"running", "cancelled", "stopped"}
  PROVE  Inv'
<1>1. /\ StatusPerNode' /\ CurrentIds' /\ DOMAIN statuses' = DOMAIN statuses
      /\ \A n, id : Live(n, id)' <=> Live(n, id)
  BY ObjectsKept DEF KeepsCounts
<1>2. TypeOK'
  BY <1>1 DEF Inv, TypeOK, KeepsCounts, KeepsObjects
<1>3. KnownIds'
  BY DEF Inv, KnownIds, KeepsCounts, KeepsObjects
<1>4. EndsWhereBorn'
  BY <1>1 DEF Inv, EndsWhereBorn
<1>5. \A n : CountedOn(n)' = CountedOn(n)
  BY <1>1 DEF CountedOn
<1>6. ActiveConnsNotLeaked'
  BY <1>1, <1>5 DEF Inv, ActiveConnsNotLeaked, KeepsCounts
<1> QED BY <1>1, <1>2, <1>3, <1>4, <1>6 DEF Inv

\* A step that leaves the map alone keeps objects and counts.
LEMMA NothingWritten ==
  ASSUME Inv, UNCHANGED <<nodes, lastId, statuses>>
  PROVE  KeepsCounts
<1> QED BY DEF Inv, TypeOK, KeepsCounts, KeepsObjects

\* Probe goroutines, the check loop, Stop and the servers keep the invariant.
LEMMA ProbeStepInv ==
  ASSUME Inv,
         \/ StopCancel \/ StopReturns \/ \E n \in Names : ServerFlips(n)
         \/ \E k \in Rounds : CheckAllNodes(k) \/ \E n \in Names : ProbeStep(n, k)
  PROVE  Inv'
<1>1. probe \in [Names -> [Rounds -> Probes]] /\ up \in [Names -> BOOLEAN]
      /\ loop \in {"running", "cancelled", "stopped"}
      /\ statuses \in [DOMAIN statuses -> Statuses]
  BY DEF Inv, TypeOK
<1>2. NoProbe \in Probes /\ [NoProbe EXCEPT !.pc = "launched"] \in Probes
  <2>1. NoId \in Ids /\ FALSE \in BOOLEAN
    BY MaxIdAssumption DEF Ids, NoId
  <2>2. NoProbe \in Probes
    BY <2>1 DEF NoProbe, Probes
  <2>3. [NoProbe EXCEPT !.pc = "launched"] \in Probes
    BY <2>2 DEF Probes
  <2> QED BY <2>2, <2>3
<1>3. ASSUME NEW k \in Rounds, CheckAllNodes(k) PROVE Inv'
  <2>1. probe' \in [Names -> [Rounds -> Probes]]
    BY <1>1, <1>2, <1>3 DEF CheckAllNodes
  <2> QED BY <1>1, <1>3, <2>1, NothingWritten, ProbesInv DEF CheckAllNodes
<1>4. CASE StopCancel \/ StopReturns
  BY <1>1, <1>4, NothingWritten, ProbesInv DEF StopCancel, StopReturns
<1>5. ASSUME NEW n \in Names, NEW k \in Rounds, CheckNodeStart(n, k) PROVE Inv'
  <2>1. GetStatus(n) \in Ids
    BY <1>1, MaxIdAssumption DEF GetStatus, Statuses, Ids, NoId
  <2>2. probe' \in [Names -> [Rounds -> Probes]]
    BY <1>1, <1>2, <1>5, <2>1 DEF CheckNodeStart, Probes
  <2> QED BY <1>1, <1>5, <2>2, NothingWritten, ProbesInv DEF CheckNodeStart
<1>6. ASSUME NEW n \in Names, NEW k \in Rounds, ProbeReturns(n, k) PROVE Inv'
  <2> DEFINE ok == up[n] /\ loop = "running"
  <2>1. ok \in BOOLEAN
    OBVIOUS
  <2> DEFINE p == [probe[n][k] EXCEPT !.pc = "verdict", !.ok = ok]
  <2>2. probe' = [probe EXCEPT ![n][k] = p]
    BY <1>6 DEF ProbeReturns
  <2>3. p \in Probes
    <3>1. probe[n][k] \in Probes
      BY <1>1
    <3>2. ASSUME NEW q \in Probes, NEW b \in BOOLEAN
          PROVE  [q EXCEPT !.pc = "verdict", !.ok = b] \in Probes
      BY DEF Probes
    <3> HIDE DEF ok
    <3> QED BY <2>1, <3>1, <3>2
  <2> HIDE DEF p
  <2>4. probe' \in [Names -> [Rounds -> Probes]]
    BY <1>1, <2>2, <2>3
  <2> QED BY <1>1, <1>6, <2>4, NothingWritten, ProbesInv DEF ProbeReturns
<1>7. ASSUME NEW n \in Names, NEW k \in Rounds, CheckNodeMark(n, k) PROVE Inv'
  <2>1. probe' \in [Names -> [Rounds -> Probes]]
    BY <1>1, <1>2, <1>7 DEF CheckNodeMark
  <2>2. KeepsCounts
    BY <1>7, VerdictWritten DEF CheckNodeMark
  <2> QED BY <1>1, <1>7, <2>1, <2>2, ProbesInv DEF CheckNodeMark
<1>8. ASSUME NEW n \in Names, ServerFlips(n) PROVE Inv'
  <2>1. up' \in [Names -> BOOLEAN]
    BY <1>1, <1>8 DEF ServerFlips
  <2> QED BY <1>1, <1>8, <2>1, NothingWritten, ProbesInv DEF ServerFlips
<1> QED BY <1>3, <1>4, <1>5, <1>6, <1>7, <1>8 DEF ProbeStep

----------------------------------------------------------------------------
\* A reload drops objects and makes new ones, but a connection never takes a new
\* object for the one that counted it.
LEMMA ReloadInv ==
  ASSUME Inv, NEW cfg \in Configs, UpdateNodes(cfg)
  PROVE  Inv'
<1>1. /\ cfg \in [DOMAIN cfg -> BOOLEAN] /\ DOMAIN cfg \subseteq Names
      /\ DOMAIN statuses = DOMAIN nodes /\ statuses \in [DOMAIN statuses -> Statuses]
      /\ lastId \in [Names -> Ids]
  BY ConfigsAssumption DEF Inv, TypeOK, StatusPerNode
<1>2. /\ \A n \in DOMAIN cfg \ DOMAIN statuses : lastId[n] < MaxId
      /\ nodes' = cfg
      /\ statuses' = [n \in (DOMAIN statuses \cup DOMAIN cfg) \ (DOMAIN nodes \ DOMAIN cfg) |->
                        IF n \in DOMAIN cfg \ DOMAIN statuses
                          THEN NewNodeStatus(lastId[n] + 1) ELSE statuses[n]]
      /\ lastId' = [n \in Names |-> IF n \in DOMAIN cfg \ DOMAIN statuses
                                      THEN lastId[n] + 1 ELSE lastId[n]]
      /\ UNCHANGED <<loop, probe, conn, up>>
  BY DEF UpdateNodes
<1>3. DOMAIN statuses' = DOMAIN cfg
  BY <1>1, <1>2
<1>4. ASSUME NEW n \in DOMAIN cfg \ DOMAIN statuses
      PROVE  /\ lastId'[n] = lastId[n] + 1 /\ lastId[n] + 1 \in 1..MaxId
             /\ statuses'[n] = NewNodeStatus(lastId[n] + 1)
             /\ statuses'[n] \in Statuses /\ statuses'[n].id = lastId'[n]
             /\ statuses'[n].activeConns = 0
  <2>1. lastId'[n] = lastId[n] + 1 /\ lastId[n] + 1 \in 1..MaxId
    BY <1>1, <1>2, MaxIdAssumption DEF Ids
  <2>2. statuses'[n] = NewNodeStatus(lastId[n] + 1)
    BY <1>2, <1>3
  <2>3. 0 \in 0..UnhealthyAfter
    BY DEF UnhealthyAfter
  <2> QED BY <2>1, <2>2, <2>3 DEF NewNodeStatus, Statuses
<1>5. ASSUME NEW n \in DOMAIN cfg \cap DOMAIN statuses
      PROVE  lastId'[n] = lastId[n] /\ statuses'[n] = statuses[n]
  BY <1>1, <1>2, <1>3
<1>6. lastId' \in [Names -> Ids] /\ \A n \in Names : lastId'[n] >= lastId[n]
  BY <1>1, <1>2, MaxIdAssumption DEF Ids
<1>7. TypeOK'
  <2>1. statuses' \in [DOMAIN statuses' -> Statuses]
    BY <1>1, <1>2, <1>3, <1>4, <1>5
  <2> QED BY <1>1, <1>2, <1>3, <1>6, <2>1 DEF Inv, TypeOK
<1>8. StatusPerNode' /\ CurrentIds'
  BY <1>1, <1>2, <1>3, <1>4, <1>5 DEF Inv, StatusPerNode, CurrentIds
<1>9. \A n \in Names : \A id \in Ids : id <= lastId[n] /\ Live(n, id)' => Live(n, id)
  BY <1>1, <1>3, <1>4, <1>5 DEF Live, Ids
<1>10. conn \in [Conns -> Connections] /\ conn' = conn
  BY <1>2 DEF Inv, TypeOK
<1>11. KnownIds'
  BY <1>1, <1>6, <1>10 DEF Inv, KnownIds, Connections, Ids
<1>12. EndsWhereBorn'
  BY <1>9, <1>10 DEF Inv, EndsWhereBorn, KnownIds, Connections
<1>13. ASSUME NEW n \in DOMAIN statuses'
       PROVE  statuses'[n].activeConns <= Cardinality(CountedOn(n)')
  <2>1. CASE n \in DOMAIN statuses
    <3>1. CountedOn(n)' = CountedOn(n)
      BY <1>3, <1>5, <1>10, <2>1 DEF CountedOn, Live
    <3> QED BY <1>3, <1>5, <2>1, <3>1 DEF Inv, ActiveConnsNotLeaked
  <2>2. CASE n \notin DOMAIN statuses
    <3>1. CountedOn(n)' \subseteq Conns
      BY DEF CountedOn
    <3>2. Cardinality(CountedOn(n)') \in Nat
      BY <3>1, ConnsAssumption, FS_Subset, FS_CardinalityType
    <3> QED BY <1>3, <1>4, <2>2, <3>2
  <2> QED BY <2>1, <2>2
<1>14. ActiveConnsNotLeaked'
  BY <1>13 DEF ActiveConnsNotLeaked
<1> QED BY <1>7, <1>8, <1>11, <1>12, <1>14 DEF Inv

----------------------------------------------------------------------------
\* What a look-up by name returns.
LEMMA LookedUp ==
  ASSUME Inv, NEW n \in Names
  PROVE  /\ GetStatus(n) \in Ids /\ GetStatus(n) <= lastId[n]
         /\ \A id : Live(n, id) => GetStatus(n) = id
<1> QED BY MaxIdAssumption
        DEF Inv, TypeOK, CurrentIds, GetStatus, Live, Statuses, Ids, NoId

\* One connection moves on, knowing only what it may know.
LEMMA ConnMoves ==
  ASSUME Inv, KeepsObjects, UNCHANGED <<probe, up, loop>>,
         NEW c \in Conns, NEW k \in Connections, conn' = [conn EXCEPT ![c] = k],
         k.pc # "none" => /\ k.node \in Names
                          /\ k.id <= lastId[k.node] /\ k.born <= lastId[k.node],
         k.pc = "ending" /\ Live(k.node, k.born) => k.id = k.born
  PROVE  TypeOK' /\ StatusPerNode' /\ CurrentIds' /\ KnownIds' /\ EndsWhereBorn'
<1>1. /\ StatusPerNode' /\ CurrentIds' /\ DOMAIN statuses' = DOMAIN statuses
      /\ \A n, id : Live(n, id)' <=> Live(n, id)
  BY ObjectsKept
<1>2. conn \in [Conns -> Connections] /\ conn' \in [Conns -> Connections]
      /\ conn'[c] = k /\ \A d \in Conns \ {c} : conn'[d] = conn[d]
  BY DEF Inv, TypeOK
<1>3. TypeOK'
  BY <1>1, <1>2 DEF Inv, TypeOK, KeepsObjects
<1>4. KnownIds'
  BY <1>2 DEF Inv, KnownIds, KeepsObjects
<1>5. EndsWhereBorn'
  BY <1>1, <1>2 DEF Inv, EndsWhereBorn
<1> QED BY <1>1, <1>3, <1>4, <1>5

Counting == {"open", "recording", "recorded", "ending"}
IsCounted(k, n) == k.node = n /\ k.pc \in Counting /\ Live(n, k.born)

\* ... and is counted afterwards exactly where it was counted before.
LEMMA SameCounts ==
  ASSUME Inv, KeepsObjects,
         \A n \in DOMAIN statuses : statuses'[n].activeConns <= statuses[n].activeConns,
         NEW c \in Conns, NEW k \in Connections, conn' = [conn EXCEPT ![c] = k],
         \A n : IsCounted(k, n) <=> IsCounted(conn[c], n)
  PROVE  ActiveConnsNotLeaked'
<1>1. DOMAIN statuses' = DOMAIN statuses /\ \A n, id : Live(n, id)' <=> Live(n, id)
  BY ObjectsKept
<1>2. conn'[c] = k /\ \A d \in Conns \ {c} : conn'[d] = conn[d]
  BY DEF Inv, TypeOK
<1>3. \A n : CountedOn(n)' = CountedOn(n)
  BY <1>1, <1>2 DEF CountedOn, IsCounted, Counting
<1> SUFFICES ASSUME NEW n \in DOMAIN statuses
             PROVE  statuses'[n].activeConns <= Cardinality(CountedOn(n)')
  BY <1>1 DEF ActiveConnsNotLeaked
<1>4. statuses[n].activeConns \in Nat /\ statuses'[n].activeConns \in Nat
  BY DEF Inv, TypeOK, KeepsObjects, Statuses
<1>5. Cardinality(CountedOn(n)) \in Nat
  BY CountedFinite
<1> QED BY <1>3, <1>4, <1>5 DEF Inv, ActiveConnsNotLeaked

\* No count grows in a step that keeps the counts.
LEMMA CountsKept ==
  ASSUME Inv, KeepsCounts
  PROVE  \A n \in DOMAIN statuses : statuses'[n].activeConns <= statuses[n].activeConns
<1> QED BY DEF Inv, TypeOK, KeepsCounts, Statuses

\* The steps that look a status up, or that count nothing.
LEMMA ConnLooksUp ==
  ASSUME Inv, NEW c \in Conns,
         \/ \E n \in Names : ChooseNode(c, n)
         \/ ConnectionStartLookUp(c) \/ RecordLookUp(c) \/ ConnectionEndLookUp(c)
  PROVE  Inv'
<1>1. conn \in [Conns -> Connections] /\ conn[c] \in Connections /\ lastId \in [Names -> Ids]
  BY DEF Inv, TypeOK
<1>2. UNCHANGED <<nodes, lastId, statuses, probe, up, loop>>
  BY DEF ChooseNode, ConnectionStartLookUp, ConnectionEndLookUp, LookUp, RecordLookUp,
         Unchanged_conn
<1>3. KeepsCounts /\ KeepsObjects
  BY <1>2, NothingWritten DEF KeepsCounts
<1>9. \A n \in DOMAIN statuses : statuses'[n].activeConns <= statuses[n].activeConns
  BY <1>3, CountsKept
<1>4. ASSUME NEW n \in Names, ChooseNode(c, n) PROVE Inv'
  <2> DEFINE k == [NoConn EXCEPT !.pc = "chosen", !.node = n]
  <2>1. conn' = [conn EXCEPT ![c] = k] /\ conn[c].pc = "none"
    BY <1>4 DEF ChooseNode
  <2>2. NoConn \in Connections /\ NoConn.id = 0 /\ NoConn.born = 0
    BY MaxIdAssumption DEF NoConn, Connections, ConnSteps, Ids, NoId
  <2>3. k \in Connections /\ k.pc = "chosen" /\ k.node = n /\ k.id = 0 /\ k.born = 0
    BY <2>2 DEF Connections, ConnSteps
  <2>8. k.pc = "chosen" /\ k.node \in Names /\ k.id <= lastId[k.node] /\ k.born <= lastId[k.node]
    BY <1>1, <2>3 DEF Ids
  <2>4. \A m : IsCounted(k, m) <=> IsCounted(conn[c], m)
    BY <2>1, <2>3 DEF IsCounted, Counting
  <2> HIDE DEF k
  <2>5. TypeOK' /\ StatusPerNode' /\ CurrentIds' /\ KnownIds' /\ EndsWhereBorn'
    BY <1>2, <1>3, <2>1, <2>3, <2>8, ConnMoves
  <2>6. ActiveConnsNotLeaked'
    BY <1>3, <1>9, <2>1, <2>3, <2>4, SameCounts
  <2> QED BY <2>5, <2>6 DEF Inv
<1>5. ASSUME NEW to \in {"starting", "recording", "ending"},
             to = "starting" => conn[c].pc = "chosen",
             to # "starting" => conn[c].pc \in {"open", "recorded"},
             conn' = [conn EXCEPT ![c] = [conn[c] EXCEPT !.pc = to,
                                                         !.id = GetStatus(conn[c].node)]]
      PROVE  Inv'
  <2> DEFINE k == [conn[c] EXCEPT !.pc = to, !.id = GetStatus(conn[c].node)]
  <2>1. conn[c].node \in Names /\ conn[c].born <= lastId[conn[c].node]
    BY <1>5 DEF Inv, KnownIds
  <2>2. /\ GetStatus(conn[c].node) \in Ids
        /\ GetStatus(conn[c].node) <= lastId[conn[c].node]
        /\ \A id : Live(conn[c].node, id) => GetStatus(conn[c].node) = id
    BY <2>1, LookedUp
  <2>3. k \in Connections /\ k.pc = to /\ k.node = conn[c].node /\ k.born = conn[c].born
        /\ k.id = GetStatus(conn[c].node)
    BY <1>1, <2>2 DEF Connections, ConnSteps
  <2>4. \A m : IsCounted(k, m) <=> IsCounted(conn[c], m)
    <3>1. CASE to = "starting"
      BY <1>5, <2>3, <3>1 DEF IsCounted, Counting
    <3>2. CASE to # "starting"
      BY <1>5, <2>3, <3>2 DEF IsCounted, Counting
    <3> QED BY <3>1, <3>2
  <2>5. conn' = [conn EXCEPT ![c] = k]
    BY <1>5
  <2> HIDE DEF k
  <2>6. TypeOK' /\ StatusPerNode' /\ CurrentIds' /\ KnownIds' /\ EndsWhereBorn'
    BY <1>2, <1>3, <2>1, <2>2, <2>3, <2>5, ConnMoves
  <2>7. ActiveConnsNotLeaked'
    BY <1>3, <1>9, <2>3, <2>4, <2>5, SameCounts
  <2> QED BY <2>6, <2>7 DEF Inv
<1>6. ASSUME NEW from, NEW to, LookUp(c, from, to)
      PROVE  /\ conn[c].pc = from
             /\ conn' = [conn EXCEPT ![c] = [conn[c] EXCEPT !.pc = to,
                                               !.id = GetStatus(conn[c].node)]]
  <2>1. conn' = [conn EXCEPT ![c].pc = to, ![c].id = GetStatus(conn[c].node)]
    BY <1>6 DEF LookUp
  <2> QED BY <1>1, <1>6, <2>1 DEF LookUp, Connections
<1>7. CASE LookUp(c, "chosen", "starting")
  BY <1>5, <1>6, <1>7
<1>8. CASE LookUp(c, "open", "recording")
  BY <1>5, <1>6, <1>8
<1>10. CASE LookUp(c, "recorded", "ending")
  BY <1>5, <1>6, <1>10
<1>11. CASE LookUp(c, "open", "ending")
  BY <1>5, <1>6, <1>11
<1> QED BY <1>4, <1>7, <1>8, <1>10, <1>11
        DEF ConnectionStartLookUp, RecordLookUp, ConnectionEndLookUp

\* One method call on the object <<n, id>> in the map, whichever it is.
LEMMA CountWritten ==
  ASSUME Inv, NEW n, NEW id, UNCHANGED <<nodes, lastId>>,
         \/ statuses' = Written(n, id, IncrementActiveConns)
         \/ statuses' = Written(n, id, DecrementActiveConns)
  PROVE  /\ KeepsObjects
         /\ ~Live(n, id) => statuses' = statuses
         /\ \A m \in DOMAIN statuses \ {n} : statuses'[m] = statuses[m]
<1>1. statuses \in [DOMAIN statuses -> Statuses]
  BY DEF Inv, TypeOK
<1>2. CASE ~Live(n, id)
  BY <1>1, <1>2 DEF Written, KeepsObjects
<1>3. CASE Live(n, id)
  <2>1. n \in DOMAIN statuses /\ statuses[n] \in Statuses
    BY <1>1, <1>3 DEF Live
  <2>2. PICK st \in {IncrementActiveConns(statuses[n]), DecrementActiveConns(statuses[n])} :
           statuses' = [statuses EXCEPT ![n] = st]
    BY <1>3 DEF Written
  <2>3. st \in Statuses /\ st.id = statuses[n].id
    BY <2>1, <2>2, StatusMethods
  <2> QED BY <1>1, <1>3, <2>1, <2>2, <2>3 DEF KeepsObjects
<1> QED BY <1>2, <1>3

\* RecordConnectionStart: the object that counts the connection is the one that
\* is in the map, or no object that matters.
LEMMA ConnStarts ==
  ASSUME Inv, NEW c \in Conns, ConnectionStart(c)
  PROVE  Inv'
<1> PICK n : n = conn[c].node
  OBVIOUS
<1> DEFINE k == [conn[c] EXCEPT !.pc = "open", !.born = conn[c].id, !.id = NoId]
<1>1. /\ conn[c].pc = "starting" /\ statuses' = Written(n, conn[c].id, IncrementActiveConns)
      /\ UNCHANGED <<nodes, lastId, loop, probe, up>>
  BY DEF ConnectionStart, Unchanged_conn
<1>2. conn \in [Conns -> Connections] /\ conn[c] \in Connections
  BY DEF Inv, TypeOK
<1>3. conn' = [conn EXCEPT ![c] = k]
  BY <1>2 DEF ConnectionStart
<1>4. k \in Connections /\ k.pc = "open" /\ k.node = n /\ k.id = NoId
      /\ k.born = conn[c].id
  <2>1. NoId \in Ids
    BY MaxIdAssumption DEF Ids, NoId
  <2> QED BY <1>2, <2>1 DEF Connections, ConnSteps
<1>5. n \in Names /\ conn[c].id <= lastId[n] /\ NoId <= lastId[n]
  BY <1>1 DEF Inv, KnownIds, TypeOK, Ids, NoId
<1>6. /\ KeepsObjects
      /\ ~Live(n, conn[c].id) => statuses' = statuses
      /\ \A m \in DOMAIN statuses \ {n} : statuses'[m] = statuses[m]
  BY <1>1, CountWritten
<1> HIDE DEF k
<1>7. TypeOK' /\ StatusPerNode' /\ CurrentIds' /\ KnownIds' /\ EndsWhereBorn'
  BY <1>1, <1>3, <1>4, <1>5, <1>6, ConnMoves
<1>8. CASE ~Live(n, conn[c].id)
  <2>1. \A m : IsCounted(k, m) <=> IsCounted(conn[c], m)
    BY <1>1, <1>4, <1>8 DEF IsCounted, Counting
  <2>2. \A m \in DOMAIN statuses : statuses'[m].activeConns <= statuses[m].activeConns
    BY <1>6, <1>8, NothingWritten, CountsKept, <1>1
  <2>3. ActiveConnsNotLeaked'
    BY <1>3, <1>4, <1>6, <2>1, <2>2, SameCounts
  <2> QED BY <1>7, <2>3 DEF Inv
<1>9. CASE Live(n, conn[c].id)
  <2>1. DOMAIN statuses' = DOMAIN statuses /\ \A m, id : Live(m, id)' <=> Live(m, id)
    BY <1>6, ObjectsKept
  <2>2. conn'[c] = k /\ \A d \in Conns \ {c} : conn'[d] = conn[d]
    BY <1>2, <1>3
  <2>3. c \notin CountedOn(n) /\ CountedOn(n)' = CountedOn(n) \cup {c}
    BY <1>1, <1>4, <1>9, <2>1, <2>2 DEF CountedOn
  <2>4. \A m : m # n => CountedOn(m)' = CountedOn(m)
    BY <1>4, <2>1, <2>2 DEF CountedOn
  <2>5. Cardinality(CountedOn(n)') = Cardinality(CountedOn(n)) + 1
    BY <2>3, CountedFinite, FS_AddElement
  <2>6. n \in DOMAIN statuses /\ statuses[n] \in Statuses
        /\ statuses'[n].activeConns = statuses[n].activeConns + 1
    <3>1. n \in DOMAIN statuses /\ statuses[n] \in Statuses
      BY <1>9 DEF Live, Inv, TypeOK
    <3>2. statuses'[n] = IncrementActiveConns(statuses[n])
      BY <1>1, <1>9, <3>1 DEF Written
    <3> QED BY <3>1, <3>2, StatusMethods
  <2>7. statuses'[n].activeConns <= Cardinality(CountedOn(n)')
    <3>1. statuses[n].activeConns \in Nat /\ Cardinality(CountedOn(n)) \in Nat
          /\ statuses[n].activeConns <= Cardinality(CountedOn(n))
      BY <2>6, CountedFinite DEF Inv, ActiveConnsNotLeaked, Statuses
    <3> QED BY <2>5, <2>6, <3>1
  <2>8. \A m \in DOMAIN statuses \ {n} :
           statuses'[m].activeConns <= Cardinality(CountedOn(m)')
    BY <1>6, <2>4 DEF Inv, ActiveConnsNotLeaked
  <2> QED BY <1>7, <2>1, <2>7, <2>8 DEF Inv, ActiveConnsNotLeaked
<1> QED BY <1>8, <1>9

\* RecordSuccess and RecordFailure do not count connections.
LEMMA ConnRecords ==
  ASSUME Inv, NEW c \in Conns, NEW success \in BOOLEAN, RecordRequest(c, success)
  PROVE  Inv'
<1> DEFINE k == [conn[c] EXCEPT !.pc = "recorded", !.id = NoId]
<1>1. /\ conn[c].pc = "recording" /\ UNCHANGED <<nodes, lastId, loop, probe, up>>
      /\ \/ statuses' = Written(conn[c].node, conn[c].id, Succeeded)
         \/ statuses' = Written(conn[c].node, conn[c].id, Failed)
  BY DEF RecordRequest, Unchanged_conn
<1>2. conn \in [Conns -> Connections] /\ conn[c] \in Connections
  BY DEF Inv, TypeOK
<1>3. conn' = [conn EXCEPT ![c] = k]
  BY <1>2 DEF RecordRequest
<1>4. k \in Connections /\ k.pc = "recorded" /\ k.node = conn[c].node
      /\ k.id = NoId /\ k.born = conn[c].born
  <2>1. NoId \in Ids
    BY MaxIdAssumption DEF Ids, NoId
  <2> QED BY <1>2, <2>1 DEF Connections, ConnSteps
<1>5. k.node \in Names /\ k.id <= lastId[k.node] /\ k.born <= lastId[k.node]
  BY <1>1, <1>4 DEF Inv, KnownIds, TypeOK, Ids, NoId
<1>6. KeepsCounts /\ KeepsObjects
  BY <1>1, VerdictWritten DEF KeepsCounts
<1>7. \A m : IsCounted(k, m) <=> IsCounted(conn[c], m)
  BY <1>1, <1>4 DEF IsCounted, Counting
<1>8. \A m \in DOMAIN statuses : statuses'[m].activeConns <= statuses[m].activeConns
  BY <1>6, CountsKept
<1> HIDE DEF k
<1>9. TypeOK' /\ StatusPerNode' /\ CurrentIds' /\ KnownIds' /\ EndsWhereBorn'
  BY <1>1, <1>3, <1>4, <1>5, <1>6, ConnMoves
<1>10. ActiveConnsNotLeaked'
  BY <1>3, <1>4, <1>6, <1>7, <1>8, SameCounts
<1> QED BY <1>9, <1>10 DEF Inv

\* RecordConnectionEnd: if some object still counts the connection, it is the one
\* that is decremented.
LEMMA ConnEnds ==
  ASSUME Inv, NEW c \in Conns, ConnectionEnd(c)
  PROVE  Inv'
<1> PICK n : n = conn[c].node
  OBVIOUS
<1>1. /\ conn[c].pc = "ending" /\ statuses' = Written(n, conn[c].id, DecrementActiveConns)
      /\ UNCHANGED <<nodes, lastId, loop, probe, up>>
      /\ conn' = [conn EXCEPT ![c] = NoConn]
  BY DEF ConnectionEnd, Unchanged_conn
<1>2. conn \in [Conns -> Connections] /\ conn[c] \in Connections
  BY DEF Inv, TypeOK
<1>3. NoConn \in Connections /\ NoConn.pc = "none"
  BY MaxIdAssumption DEF NoConn, Connections, ConnSteps, Ids, NoId
<1>4. /\ KeepsObjects
      /\ ~Live(n, conn[c].id) => statuses' = statuses
      /\ \A m \in DOMAIN statuses \ {n} : statuses'[m] = statuses[m]
  BY <1>1, CountWritten
<1>5. TypeOK' /\ StatusPerNode' /\ CurrentIds' /\ KnownIds' /\ EndsWhereBorn'
  BY <1>1, <1>3, <1>4, ConnMoves
<1>6. Live(n, conn[c].id) => /\ n \in DOMAIN statuses /\ statuses[n] \in Statuses
                             /\ statuses'[n].activeConns =
                                  IF statuses[n].activeConns > 0
                                    THEN statuses[n].activeConns - 1 ELSE 0
  <2> SUFFICES ASSUME Live(n, conn[c].id) 
               PROVE  /\ n \in DOMAIN statuses /\ statuses[n] \in Statuses
                      /\ statuses'[n].activeConns =
                                  IF statuses[n].activeConns > 0
                                    THEN statuses[n].activeConns - 1 ELSE 0
    OBVIOUS
  <2>1. n \in DOMAIN statuses /\ statuses[n] \in Statuses
    BY DEF Live, Inv, TypeOK
  <2>2. statuses'[n] = DecrementActiveConns(statuses[n])
    BY <1>1, <2>1 DEF Written
  <2> QED BY <2>1, <2>2, StatusMethods
<1>7. CASE ~Live(n, conn[c].born)
  <2>1. \A m : IsCounted(NoConn, m) <=> IsCounted(conn[c], m)
    BY <1>3, <1>7 DEF IsCounted, Counting
  <2>2. ASSUME NEW m \in DOMAIN statuses
        PROVE  statuses'[m].activeConns <= statuses[m].activeConns
    <3>1. statuses[m].activeConns \in Nat
      BY DEF Inv, TypeOK, Statuses
    <3> QED BY <1>4, <1>6, <3>1
  <2>3. ActiveConnsNotLeaked'
    BY <1>1, <1>3, <1>4, <2>1, <2>2, SameCounts
  <2> QED BY <1>5, <2>3 DEF Inv
<1>8. CASE Live(n, conn[c].born)
  <2>1. DOMAIN statuses' = DOMAIN statuses /\ \A m, id : Live(m, id)' <=> Live(m, id)
    BY <1>4, ObjectsKept
  <2>2. conn'[c] = NoConn /\ \A d \in Conns \ {c} : conn'[d] = conn[d]
    BY <1>1, <1>2
  <2>3. conn[c].id = conn[c].born
    BY <1>1, <1>8 DEF Inv, EndsWhereBorn
  <2>4. c \in CountedOn(n) /\ CountedOn(n)' = CountedOn(n) \ {c}
    <3>1. c \in CountedOn(n)
      BY <1>1, <1>8 DEF CountedOn
    <3>2. c \notin CountedOn(n)'
      BY <1>3, <2>2 DEF CountedOn
    <3>3. \A d \in Conns \ {c} : d \in CountedOn(n)' <=> d \in CountedOn(n)
      BY <2>1, <2>2 DEF CountedOn
    <3>4. CountedOn(n)' \subseteq Conns /\ CountedOn(n) \subseteq Conns
      BY DEF CountedOn
    <3> QED BY <3>1, <3>2, <3>3, <3>4
  <2>5. \A m : m # n => CountedOn(m)' = CountedOn(m)
    BY <1>3, <2>1, <2>2 DEF CountedOn
  <2>6. Cardinality(CountedOn(n)') = Cardinality(CountedOn(n)) - 1
    BY <2>4, CountedFinite, FS_RemoveElement
  <2>7. Cardinality(CountedOn(n)') \in Nat
    BY <2>4, CountedFinite, FS_RemoveElement, FS_CardinalityType
  <2>8. statuses'[n].activeConns <= Cardinality(CountedOn(n)')
    <3>1. statuses[n].activeConns \in Nat /\ Cardinality(CountedOn(n)) \in Nat
          /\ statuses[n].activeConns <= Cardinality(CountedOn(n))
      BY <1>6, <1>8, <2>3, CountedFinite DEF Inv, ActiveConnsNotLeaked, Statuses
    <3>2. statuses'[n].activeConns = IF statuses[n].activeConns > 0
                                       THEN statuses[n].activeConns - 1 ELSE 0
      BY <1>6, <1>8, <2>3
    <3> QED BY <2>6, <2>7, <3>1, <3>2
  <2>9. \A m \in DOMAIN statuses \ {n} :
           statuses'[m].activeConns <= Cardinality(CountedOn(m)')
    BY <1>4, <2>5 DEF Inv, ActiveConnsNotLeaked
  <2> QED BY <1>5, <2>1, <2>8, <2>9 DEF Inv, ActiveConnsNotLeaked
<1> QED BY <1>7, <1>8

----------------------------------------------------------------------------
\* Every step, one case per action, keeps the invariant.
LEMMA NextInv == Inv /\ [Next]_vars => Inv'
<1> SUFFICES ASSUME Inv, [Next]_vars PROVE Inv'
  OBVIOUS
<1>1. CASE StopCancel \/ StopReturns
  BY <1>1, ProbeStepInv
<1>2. ASSUME NEW cfg \in Configs, UpdateNodes(cfg) PROVE Inv'
  BY <1>2, ReloadInv
<1>3. CASE \/ \E k \in Rounds : CheckAllNodes(k) \/ \E n \in Names : ProbeStep(n, k)
           \/ \E n \in Names : ServerFlips(n)
  BY <1>3, ProbeStepInv
<1>4. ASSUME NEW c \in Conns, ConnStep(c) PROVE Inv'
  BY <1>4, ConnLooksUp, ConnStarts, ConnRecords, ConnEnds DEF ConnStep
<1>5. CASE UNCHANGED vars
  <2>1. KeepsCounts /\ UNCHANGED conn
    BY <1>5, NothingWritten DEF vars
  <2>2. probe' \in [Names -> [Rounds -> Probes]] /\ up' \in [Names -> BOOLEAN]
        /\ loop' \in {"running", "cancelled", "stopped"}
    BY <1>5 DEF Inv, TypeOK, vars
  <2> QED BY <2>1, <2>2, ProbesInv
<1> QED BY <1>1, <1>2, <1>3, <1>4, <1>5 DEF Next

\* The inductive invariant holds of every behaviour.
LEMMA AlwaysInv == Spec => []Inv
<1> QED BY InitInv, NextInv, PTL DEF Spec

\* Every variable keeps its type, for any number of nodes, connections and
\* objects of one name.
THEOREM HealthTypeCorrect == Spec => []TypeOK
<1>1. Inv => TypeOK
  BY DEF Inv
<1> QED BY <1>1, AlwaysInv, PTL

\* However reloads, probes and reports interleave, the checker has one status for
\* each configured node and none for another (UpdateNodes, checker.go:186-213).
THEOREM StatusesMatchNodes == Spec => []StatusPerNode
<1>1. Inv => StatusPerNode
  BY DEF Inv
<1> QED BY <1>1, AlwaysInv, PTL

\* ActiveConns never exceeds the connections the current status object counted
\* and that have not ended (passive.go:37-50, status.go:102-115).
THEOREM ConnectionCountSafe == Spec => []ActiveConnsNotLeaked
<1>1. Inv => ActiveConnsNotLeaked
  BY DEF Inv
<1> QED BY <1>1, AlwaysInv, PTL

----------------------------------------------------------------------------
(* Three failures in a row *)

\* The steps of a connection that write to a status.
CountsOrRecords(c) ==
    \/ ConnectionStart(c)
    \/ \E success \in BOOLEAN : RecordRequest(c, success)
    \/ ConnectionEnd(c)

Marked(st) == st.failCount >= UnhealthyAfter => ~st.healthy

\* Every method leaves a status marked that was marked before.
LEMMA MethodsMark ==
  ASSUME NEW st \in Statuses, Marked(st)
  PROVE  /\ Marked(MarkHealthy(st)) /\ Marked(Failed(st)) /\ Marked(Succeeded(st))
         /\ Marked(IncrementActiveConns(st)) /\ Marked(DecrementActiveConns(st))
<1>1. st.failCount \in 0..UnhealthyAfter /\ st.healthy \in BOOLEAN
  BY DEF Statuses
<1>2. Marked(MarkHealthy(st)) /\ Marked(Succeeded(st))
  <2>1. MarkHealthy(st).failCount = 0 /\ Succeeded(st).failCount = 0
    BY DEF MarkHealthy, Succeeded, Statuses
  <2> QED BY <2>1 DEF Marked, UnhealthyAfter
<1>3. Marked(Failed(st))
  <2> DEFINE count == IF st.failCount < UnhealthyAfter THEN st.failCount + 1
                                                       ELSE st.failCount
  <2>1. /\ Failed(st).failCount = count
        /\ Failed(st).healthy = (st.healthy /\ count < UnhealthyAfter)
    BY DEF Failed, Statuses
  <2>2. count \in Int
    BY <1>1 DEF UnhealthyAfter
  <2> HIDE DEF count
  <2>3. count >= UnhealthyAfter => ~(count < UnhealthyAfter)
    BY <2>2 DEF UnhealthyAfter
  <2> QED BY <2>1, <2>3 DEF Marked
<1>4. Marked(IncrementActiveConns(st)) /\ Marked(DecrementActiveConns(st))
  <2>1. /\ IncrementActiveConns(st).failCount = st.failCount
        /\ IncrementActiveConns(st).healthy = st.healthy
        /\ DecrementActiveConns(st).failCount = st.failCount
        /\ DecrementActiveConns(st).healthy = st.healthy
    BY DEF IncrementActiveConns, DecrementActiveConns, Statuses
  <2> QED BY <2>1 DEF Marked
<1> QED BY <1>2, <1>3, <1>4

\* Every step writes one status through a method, or drops and makes whole ones.
LEMMA StreakStep ==
  ASSUME TypeOK, StreakMarks, [Next]_vars
  PROVE  StreakMarks'
<1>1. /\ \A n \in DOMAIN statuses : statuses[n] \in Statuses /\ Marked(statuses[n])
      /\ (\A n \in DOMAIN statuses' : Marked(statuses'[n])) => StreakMarks'
  BY DEF TypeOK, StreakMarks, Marked
<1>2. ASSUME UNCHANGED statuses
      PROVE  StreakMarks'
  BY <1>2 DEF StreakMarks
<1>3. ASSUME NEW n \in DOMAIN statuses, NEW st, Marked(st),
             statuses' = [statuses EXCEPT ![n] = st]
      PROVE  StreakMarks'
  BY <1>1, <1>3 DEF TypeOK
<1>4. ASSUME NEW cfg \in Configs, UpdateNodes(cfg)
      PROVE  StreakMarks'
  <2>1. \A id : Marked(NewNodeStatus(id))
    BY DEF Marked, NewNodeStatus, UnhealthyAfter
  <2> QED BY <1>1, <1>4, <2>1 DEF UpdateNodes
<1>5. ASSUME NEW n \in Names, NEW k \in Rounds, CheckNodeMark(n, k)
      PROVE  StreakMarks'
  <2>1. \/ UNCHANGED statuses
        \/ /\ n \in DOMAIN statuses
           /\ \E st \in {MarkHealthy(statuses[n]), Failed(statuses[n])} :
                 statuses' = [statuses EXCEPT ![n] = st]
    BY <1>5 DEF CheckNodeMark, Written, Live
  <2> QED BY <1>1, <1>2, <1>3, <2>1, MethodsMark
<1>6. ASSUME NEW c \in Conns, CountsOrRecords(c)
      PROVE  StreakMarks'
  <2> DEFINE n == conn[c].node
  <2>1. \/ UNCHANGED statuses
        \/ /\ n \in DOMAIN statuses
           /\ \E st \in {IncrementActiveConns(statuses[n]), Succeeded(statuses[n]),
                         Failed(statuses[n]), DecrementActiveConns(statuses[n])} :
                 statuses' = [statuses EXCEPT ![n] = st]
    BY <1>6 DEF CountsOrRecords, ConnectionStart, RecordRequest, ConnectionEnd, Written, Live
  <2> HIDE DEF n
  <2> QED BY <1>1, <1>2, <1>3, <2>1, MethodsMark
<1>7. CASE \/ \E cfg \in Configs : UpdateNodes(cfg)
           \/ \E n \in Names, k \in Rounds : CheckNodeMark(n, k)
           \/ \E c \in Conns : CountsOrRecords(c)
  BY <1>4, <1>5, <1>6, <1>7
<1>8. CASE ~ \/ \E cfg \in Configs : UpdateNodes(cfg)
             \/ \E n \in Names, k \in Rounds : CheckNodeMark(n, k)
             \/ \E c \in Conns : CountsOrRecords(c)
  <2>1. UNCHANGED statuses
    BY <1>8 DEF Next, ProbeStep, ConnStep, CheckAllNodes, StopCancel, StopReturns,
                CheckNodeStart, ProbeReturns, ServerFlips, ChooseNode, LookUp,
                ConnectionStartLookUp, RecordLookUp, ConnectionEndLookUp,
                CountsOrRecords, vars
  <2> QED BY <1>2, <2>1
<1> QED BY <1>7, <1>8

\* Whatever probes and requests a streak is made of, and whichever object a late report
\* reaches, a node with three failures in a row is unhealthy (status.go:62-84).
THEOREM StreaksMark == Spec => []StreakMarks
<1>1. Init => StreakMarks
  BY DEF Init, StreakMarks, NewNodeStatus, UnhealthyAfter
<1>2. TypeOK /\ StreakMarks /\ [Next]_vars => StreakMarks'
  BY StreakStep
<1> QED BY <1>1, <1>2, HealthTypeCorrect, PTL DEF Spec

----------------------------------------------------------------------------
(* What a step may do to the health of a node *)

\* A method that takes the health of a status away follows two failures, and none of
\* those that requests call gives it back.
LEMMA MethodsTurn ==
  ASSUME NEW st \in Statuses, Marked(st)
  PROVE  /\ MarkHealthy(st).healthy
         /\ st.healthy /\ ~Failed(st).healthy => st.failCount = UnhealthyAfter - 1
         /\ Failed(st).healthy => st.healthy
         /\ Succeeded(st).healthy <=> st.healthy
         /\ IncrementActiveConns(st).healthy <=> st.healthy
         /\ DecrementActiveConns(st).healthy <=> st.healthy
<1>1. st.failCount \in 0..UnhealthyAfter /\ st.healthy \in BOOLEAN
  BY DEF Statuses
<1>2. MarkHealthy(st).healthy
  BY DEF MarkHealthy, Statuses
<1>3. /\ Succeeded(st).healthy <=> st.healthy
      /\ IncrementActiveConns(st).healthy <=> st.healthy
      /\ DecrementActiveConns(st).healthy <=> st.healthy
  BY DEF Succeeded, IncrementActiveConns, DecrementActiveConns, Statuses
<1>4. /\ st.healthy /\ ~Failed(st).healthy => st.failCount = UnhealthyAfter - 1
      /\ Failed(st).healthy => st.healthy
  <2> DEFINE count == IF st.failCount < UnhealthyAfter THEN st.failCount + 1
                                                       ELSE st.failCount
  <2>1. Failed(st).healthy = (st.healthy /\ count < UnhealthyAfter)
    BY DEF Failed, Statuses
  <2>2. CASE st.failCount < UnhealthyAfter
    <3>1. count = st.failCount + 1
      BY <2>2
    <3>2. ~(count < UnhealthyAfter) => st.failCount = UnhealthyAfter - 1
      BY <1>1, <2>2, <3>1 DEF UnhealthyAfter
    <3> HIDE DEF count
    <3> QED BY <2>1, <3>2
  <2>3. CASE ~(st.failCount < UnhealthyAfter)
    <3>1. ~st.healthy
      BY <1>1, <2>3 DEF Marked, UnhealthyAfter
    <3> HIDE DEF count
    <3> QED BY <2>1, <3>1
  <2> QED BY <2>2, <2>3
<1> QED BY <1>2, <1>3, <1>4

\* What HealthTurnsOn and ProbeStaysOnItsObject say of one step.
Turns(n) ==
    statuses[n].id = statuses'[n].id =>
      /\ statuses[n].healthy /\ ~statuses'[n].healthy
           => statuses[n].failCount = UnhealthyAfter - 1
      /\ ~statuses[n].healthy /\ statuses'[n].healthy
           => \E k \in Rounds : /\ probe[n][k].pc = "verdict" /\ probe[n][k].ok
                                /\ probe[n][k].id = statuses[n].id
Stays(n, k) ==
    probe[n][k].pc = "verdict" /\ probe'[n][k].pc = "none" /\ ~Live(n, probe[n][k].id)
      => statuses' = statuses

\* Every step writes one status through a method, and only the end of a probe writes
\* MarkHealthy, to the object that the probe was begun for.
LEMMA TurnStep ==
  ASSUME TypeOK, StreakMarks, [Next]_vars
  PROVE  \A n \in DOMAIN statuses \cap DOMAIN statuses' : Turns(n)
<1>1. \A n \in DOMAIN statuses : statuses[n] \in Statuses /\ Marked(statuses[n])
  BY DEF TypeOK, StreakMarks, Marked
<1>2. ASSUME UNCHANGED statuses
      PROVE  \A n \in DOMAIN statuses \cap DOMAIN statuses' : Turns(n)
  BY <1>2 DEF Turns
<1>3. ASSUME NEW n \in DOMAIN statuses, NEW st, statuses' = [statuses EXCEPT ![n] = st],
             statuses[n].healthy /\ ~st.healthy
               => statuses[n].failCount = UnhealthyAfter - 1,
             ~statuses[n].healthy /\ st.healthy
               => \E k \in Rounds : /\ probe[n][k].pc = "verdict" /\ probe[n][k].ok
                                    /\ probe[n][k].id = statuses[n].id
      PROVE  \A m \in DOMAIN statuses \cap DOMAIN statuses' : Turns(m)
  <2>1. statuses'[n] = st /\ \A m \in DOMAIN statuses : m # n => statuses'[m] = statuses[m]
    BY <1>3 DEF TypeOK
  <2> QED BY <1>3, <2>1 DEF Turns
<1>4. ASSUME NEW cfg \in Configs, UpdateNodes(cfg)
      PROVE  \A n \in DOMAIN statuses \cap DOMAIN statuses' : Turns(n)
  <2>1. \A n \in DOMAIN statuses \cap DOMAIN statuses' : statuses'[n] = statuses[n]
    BY <1>4 DEF UpdateNodes
  <2> QED BY <2>1 DEF Turns
<1>5. ASSUME NEW n \in Names, NEW k \in Rounds, CheckNodeMark(n, k)
      PROVE  \A m \in DOMAIN statuses \cap DOMAIN statuses' : Turns(m)
  <2>1. CASE ~Live(n, probe[n][k].id)
    BY <1>2, <1>5, <2>1 DEF CheckNodeMark, Written
  <2>2. CASE Live(n, probe[n][k].id)
    <3>1. n \in DOMAIN statuses /\ statuses[n].id = probe[n][k].id /\ probe[n][k].pc = "verdict"
      BY <1>5, <2>2 DEF Live, CheckNodeMark
    <3>2. CASE probe[n][k].ok
      <4>1. statuses' = [statuses EXCEPT ![n] = MarkHealthy(statuses[n])]
        BY <1>5, <2>2, <3>2 DEF CheckNodeMark, Written
      <4> QED BY <1>1, <1>3, <3>1, <3>2, <4>1, MethodsTurn
    <3>3. CASE ~probe[n][k].ok
      <4>1. statuses' = [statuses EXCEPT ![n] = Failed(statuses[n])]
        BY <1>5, <2>2, <3>3 DEF CheckNodeMark, Written
      <4> QED BY <1>1, <1>3, <3>1, <4>1, MethodsTurn
    <3> QED BY <3>2, <3>3
  <2> QED BY <2>1, <2>2
<1>6. ASSUME NEW c \in Conns, CountsOrRecords(c)
      PROVE  \A m \in DOMAIN statuses \cap DOMAIN statuses' : Turns(m)
  <2> DEFINE n == conn[c].node
  <2>1. \/ UNCHANGED statuses
        \/ /\ n \in DOMAIN statuses
           /\ \E st \in {IncrementActiveConns(statuses[n]), Succeeded(statuses[n]),
                         Failed(statuses[n]), DecrementActiveConns(statuses[n])} :
                 statuses' = [statuses EXCEPT ![n] = st]
    BY <1>6 DEF CountsOrRecords, ConnectionStart, RecordRequest, ConnectionEnd, Written, Live
  <2> HIDE DEF n
  <2>2. ASSUME NEW st \in {IncrementActiveConns(statuses[n]), Succeeded(statuses[n]),
                           Failed(statuses[n]), DecrementActiveConns(statuses[n])},
               n \in DOMAIN statuses, statuses' = [statuses EXCEPT ![n] = st]
        PROVE  \A m \in DOMAIN statuses \cap DOMAIN statuses' : Turns(m)
    <3> DEFINE old == statuses[n]
    <3>1. old \in Statuses /\ Marked(old)
      BY <1>1, <2>2
    <3> HIDE DEF old
    <3>2. /\ old.healthy /\ ~st.healthy => old.failCount = UnhealthyAfter - 1
          /\ st.healthy => old.healthy
      <4>1. st \in {IncrementActiveConns(old), Succeeded(old), Failed(old),
                    DecrementActiveConns(old)}
        BY <2>2 DEF old
      <4> QED BY <3>1, <4>1, MethodsTurn
    <3> QED BY <1>3, <2>2, <3>2 DEF old
  <2> QED BY <1>2, <2>1, <2>2
<1>7. CASE \/ \E cfg \in Configs : UpdateNodes(cfg)
           \/ \E n \in Names, k \in Rounds : CheckNodeMark(n, k)
           \/ \E c \in Conns : CountsOrRecords(c)
  BY <1>4, <1>5, <1>6, <1>7
<1>8. CASE ~ \/ \E cfg \in Configs : UpdateNodes(cfg)
             \/ \E n \in Names, k \in Rounds : CheckNodeMark(n, k)
             \/ \E c \in Conns : CountsOrRecords(c)
  <2>1. UNCHANGED statuses
    BY <1>8 DEF Next, ProbeStep, ConnStep, CheckAllNodes, StopCancel, StopReturns,
                CheckNodeStart, ProbeReturns, ServerFlips, ChooseNode, LookUp,
                ConnectionStartLookUp, RecordLookUp, ConnectionEndLookUp,
                CountsOrRecords, vars
  <2> QED BY <1>2, <2>1
<1> QED BY <1>7, <1>8

\* Only the end of a probe leaves the state "verdict", and it writes to the object it
\* has, which is no longer in the map or is the one of this name.
LEMMA StayStep ==
  ASSUME TypeOK, [Next]_vars, NEW n \in Names, NEW k \in Rounds,
         probe[n][k].pc = "verdict", probe'[n][k].pc = "none"
  PROVE  CheckNodeMark(n, k)
<1>1. probe \in [Names -> [Rounds -> Probes]]
  BY DEF TypeOK
<1>2. probe'[n][k] # probe[n][k]
  OBVIOUS
<1>3. \A j \in Rounds : ~CheckAllNodes(j)
  BY <1>1, <1>2 DEF CheckAllNodes
<1>4. ASSUME NEW m \in Names, NEW j \in Rounds, ProbeStep(m, j)
      PROVE  m = n /\ j = k /\ CheckNodeMark(m, j)
  BY <1>1, <1>2, <1>4 DEF ProbeStep, CheckNodeStart, ProbeReturns, CheckNodeMark
<1>5. PICK m \in Names, j \in Rounds : ProbeStep(m, j)
  BY <1>2, <1>3 DEF Next, ConnStep, StopCancel, StopReturns, UpdateNodes, ServerFlips,
                    ChooseNode, LookUp, ConnectionStartLookUp, ConnectionStart,
                    RecordLookUp, RecordRequest, ConnectionEndLookUp, ConnectionEnd,
                    Unchanged_conn, vars
<1> QED BY <1>4, <1>5

\* A node turns unhealthy by the third failure of a streak and healthy by a probe of
\* this very object alone, whatever requests, late reports and reloads fall in between
\* (status.go:62-100, checker.go:106-122).
THEOREM HealthTurnsOnProbes == Spec => HealthTurnsOn
<1> DEFINE A == \A n \in DOMAIN statuses \cap DOMAIN statuses' : Turns(n)
<1>1. TypeOK /\ StreakMarks /\ [Next]_vars => [A]_vars
  BY TurnStep
<1>2. Spec => [][A]_vars
  BY <1>1, HealthTypeCorrect, StreaksMark, PTL DEF Spec
<1> QED BY <1>2 DEF HealthTurnsOn, Turns

\* The verdict of a probe never reaches the object that a reload has put in the place
\* of the one it was begun for (checker.go:96-122).
THEOREM VerdictsKeepTheirObject == Spec => ProbeStaysOnItsObject
<1> DEFINE A == \A n \in Names, k \in Rounds : Stays(n, k)
<1>1. TypeOK /\ [Next]_vars => [A]_vars
  <2> SUFFICES ASSUME TypeOK, [Next]_vars, NEW n \in Names, NEW k \in Rounds,
                      probe[n][k].pc = "verdict", probe'[n][k].pc = "none",
                      ~Live(n, probe[n][k].id)
               PROVE  statuses' = statuses
    BY DEF Stays
  <2>1. CheckNodeMark(n, k)
    BY StayStep
  <2> QED BY <2>1 DEF CheckNodeMark, Written
<1>2. Spec => [][A]_vars
  BY <1>1, HealthTypeCorrect, PTL DEF Spec
<1> QED BY <1>2 DEF ProbeStaysOnItsObject, Stays
=============================================================================
