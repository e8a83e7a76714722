--------------------------- MODULE HealthChecker ---------------------------
(***************************************************************************)
(* Health of the trojan nodes: NodeStatus and Checker with its active      *)
(* probes (internal/health/status.go, checker.go, probe.go), and the       *)
(* passive reports of the request handlers (passive.go).                   *)
(*                                                                         *)
(* A NodeStatus is an object: a goroutine looks its pointer up by name and *)
(* writes to it later, when a reload may have dropped it, or replaced it   *)
(* by the object of a re-added node.  `id` tells the objects of one name   *)
(* apart; a write to an object that is no longer in the map has no effect  *)
(* anyone can see.                                                         *)
(***************************************************************************)
EXTENDS Naturals, FiniteSets

CONSTANTS
    Names,              \* node names
    Configs,            \* node lists a reload may bring: name -> enabled
    Conns,              \* concurrent connections of the proxy handler
    Rounds,             \* bound: rounds of probes under way at a time
    MaxId,              \* bound: objects made for one name
    Flaky,              \* bound: nodes whose server may go down
    NoNode              \* the node of a connection that is not running

ASSUME ConfigsAssumption ==
    \A cfg \in Configs : /\ DOMAIN cfg \subseteq Names
                         /\ cfg \in [DOMAIN cfg -> BOOLEAN]
                         /\ \E n \in DOMAIN cfg : cfg[n]
ASSUME FlakyAssumption == Flaky \subseteq Names
ASSUME NoNodeAssumption == NoNode \notin Names
ASSUME MaxIdAssumption == MaxId \in Nat \ {0}
ASSUME ConnsAssumption == IsFiniteSet(Conns)

VARIABLES
    nodes,      \* Checker.nodes: name -> enabled
    statuses,   \* Checker.statuses: name -> NodeStatus
    lastId,     \* the latest object made for each name
    loop,       \* the checkLoop goroutine
    probe,      \* the checkNode goroutine of each name and round
    conn,       \* handler goroutines between connection start and end
    up          \* whether each node's server accepts TCP connections

vars == <<nodes, statuses, lastId, loop, probe, conn, up>>

NoId == 0
Ids == 0..MaxId
\* The literal of MarkUnhealthy and RecordRequest; Checker.failThreshold is not read.
UnhealthyAfter == 3

\* FailCount is compared with UnhealthyAfter only, so it stops counting there.
Statuses == [id : 1..MaxId, healthy : BOOLEAN, failCount : 0..UnhealthyAfter,
             activeConns : Nat]
Probes == [pc : {"none", "launched", "probing", "verdict"}, id : Ids, ok : BOOLEAN]
ConnSteps == {"none", "chosen", "starting", "open", "recording", "recorded", "ending"}
Connections == [pc : ConnSteps, node : Names \cup {NoNode}, id : Ids, born : Ids]

NoProbe == [pc |-> "none", id |-> NoId, ok |-> FALSE]
NoConn == [pc |-> "none", node |-> NoNode, id |-> NoId, born |-> NoId]

TypeOK ==
    /\ DOMAIN nodes \subseteq Names /\ nodes \in [DOMAIN nodes -> BOOLEAN]
    /\ DOMAIN statuses \subseteq Names /\ statuses \in [DOMAIN statuses -> Statuses]
    /\ lastId \in [Names -> Ids]
    /\ loop \in {"running", "cancelled", "stopped"}
    /\ probe \in [Names -> [Rounds -> Probes]]
    /\ conn \in [Conns -> Connections]
    /\ up \in [Names -> BOOLEAN]

----------------------------------------------------------------------------
\* Wrong variants, for the mutants of PROJECT.json.
Bug_PassiveHeals(st) == [st EXCEPT !.failCount = 0, !.healthy = TRUE]
Bug_HealKeepsCount(st) == [st EXCEPT !.healthy = TRUE]
Bug_HealForgotten(st) == [st EXCEPT !.failCount = 0]
Bug_ConnEnded(st) == st
----------------------------------------------------------------------------
(* NodeStatus *)

NewNodeStatus(id) ==
    [id |-> id, healthy |-> TRUE, failCount |-> 0, activeConns |-> 0]

MarkHealthy(st) == [st EXCEPT !.healthy = TRUE, !.failCount = 0]

\* MarkUnhealthy, and RecordRequest of a failure.
Failed(st) ==
    LET count == IF st.failCount < UnhealthyAfter THEN st.failCount + 1 ELSE st.failCount
    IN  [st EXCEPT !.failCount = count, !.healthy = @ /\ count < UnhealthyAfter]

\* RecordRequest of a success: the streak ends, an unhealthy node stays so.
Succeeded(st) == [st EXCEPT !.failCount = 0]

IncrementActiveConns(st) == [st EXCEPT !.activeConns = @ + 1]
DecrementActiveConns(st) == [st EXCEPT !.activeConns = IF @ > 0 THEN @ - 1 ELSE 0]

(* Checker *)

\* A pointer looked up by name; NoId stands for nil.
GetStatus(n) == IF n \in DOMAIN statuses THEN statuses[n].id ELSE NoId

\* Whether the pointer <<n, id>> is the one in the map.
Live(n, id) == n \in DOMAIN statuses /\ statuses[n].id = id

\* The map after Method was called on the object <<n, id>>.
Written(n, id, Method(_)) ==
    IF Live(n, id) THEN [statuses EXCEPT ![n] = Method(@)] ELSE statuses

Enabled(n) == n \in DOMAIN nodes /\ nodes[n]

GetHealthyNodes ==
    {n \in DOMAIN nodes : Enabled(n) /\ n \in DOMAIN statuses /\ statuses[n].healthy}

Init ==
    /\ nodes \in Configs
    /\ statuses = [n \in DOMAIN nodes |-> NewNodeStatus(1)]
    /\ lastId = [n \in Names |-> IF n \in DOMAIN nodes THEN 1 ELSE NoId]
    /\ loop = "running"
    /\ probe = [n \in Names |-> [k \in Rounds |-> NoProbe]]
    /\ conn = [c \in Conns |-> NoConn]
    /\ up = [n \in Names |-> TRUE]

----------------------------------------------------------------------------
(* Active probes *)

\* checkAllNodes: one goroutine for every enabled node, at every tick, whether or not
\* the probes of the round before have ended.
CheckAllNodes(k) ==
    /\ loop # "stopped"
    /\ \A n \in Names : probe[n][k].pc = "none"
    /\ probe' = [n \in Names |->
                   IF Enabled(n) THEN [probe[n] EXCEPT ![k] = [NoProbe EXCEPT !.pc = "launched"]]
                   ELSE probe[n]]
    /\ UNCHANGED <<nodes, statuses, lastId, loop, conn, up>>

\* checkNode looks the status up before it probes.
CheckNodeStart(n, k) ==
    /\ probe[n][k].pc = "launched"
    /\ probe' = [probe EXCEPT ![n][k] =
                   IF GetStatus(n) = NoId THEN NoProbe
                   ELSE [pc |-> "probing", id |-> GetStatus(n), ok |-> FALSE]]
    /\ UNCHANGED <<nodes, statuses, lastId, loop, conn, up>>

\* Prober.Probe returns: a TCP connection was made, or refused, or timed out,
\* or the checker's context was cancelled.
ProbeReturns(n, k) ==
    /\ probe[n][k].pc = "probing"
    /\ probe' = [probe EXCEPT ![n][k] =
                   [@ EXCEPT !.pc = "verdict", !.ok = up[n] /\ loop = "running"]]
    /\ UNCHANGED <<nodes, statuses, lastId, loop, conn, up>>

\* The status is looked up when the verdict is in (a mutant).
Bug_CheckNodeMark(n, k) ==
    /\ probe[n][k].pc = "verdict"
    /\ statuses' = IF probe[n][k].ok THEN Written(n, GetStatus(n), MarkHealthy)
                                     ELSE Written(n, GetStatus(n), Failed)
    /\ probe' = [probe EXCEPT ![n][k] = NoProbe]
    /\ UNCHANGED <<nodes, lastId, loop, conn, up>>

\* checkNode marks the status it looked up at its start.
CheckNodeMark(n, k) ==
    /\ probe[n][k].pc = "verdict"
    /\ statuses' = IF probe[n][k].ok THEN Written(n, probe[n][k].id, MarkHealthy)
                                     ELSE Written(n, probe[n][k].id, Failed)
    /\ probe' = [probe EXCEPT ![n][k] = NoProbe]
    /\ UNCHANGED <<nodes, lastId, loop, conn, up>>

\* Stop cancels the context ...
StopCancel ==
    /\ loop = "running"
    /\ loop' = "cancelled"
    /\ UNCHANGED <<nodes, statuses, lastId, probe, conn, up>>

\* ... and returns once checkLoop has.  Its select may take one more tick first.
StopReturns ==
    /\ loop = "cancelled"
    /\ loop' = "stopped"
    /\ UNCHANGED <<nodes, statuses, lastId, probe, conn, up>>

----------------------------------------------------------------------------
(* Reload *)

Bug_UpdateNodesKeepsRemoved(cfg) ==
    LET added == DOMAIN cfg \ DOMAIN statuses
    IN  /\ \A n \in added : lastId[n] < MaxId
        /\ nodes' = cfg
        /\ statuses' = [n \in DOMAIN statuses \cup DOMAIN cfg |->
                          IF n \in added THEN NewNodeStatus(lastId[n] + 1) ELSE statuses[n]]
        /\ lastId' = [n \in Names |-> IF n \in added THEN lastId[n] + 1 ELSE lastId[n]]
        /\ UNCHANGED <<loop, probe, conn, up>>

\* UpdateNodes: a status is made for each name that has none, and the statuses
\* of the names that left the node list are dropped.
UpdateNodes(cfg) ==
    LET added == DOMAIN cfg \ DOMAIN statuses
        removed == DOMAIN nodes \ DOMAIN cfg
    IN  /\ \A n \in added : lastId[n] < MaxId
        /\ nodes' = cfg
        /\ statuses' = [n \in (DOMAIN statuses \cup DOMAIN cfg) \ removed |->
                          IF n \in added THEN NewNodeStatus(lastId[n] + 1) ELSE statuses[n]]
        /\ lastId' = [n \in Names |-> IF n \in added THEN lastId[n] + 1 ELSE lastId[n]]
        /\ UNCHANGED <<loop, probe, conn, up>>

----------------------------------------------------------------------------
(* Passive reports: every call looks the status up by name again *)

Unchanged_conn == UNCHANGED <<nodes, lastId, loop, probe, up>>

\* The handler has got a client of node n from Selector.SelectClient.  When none is
\* healthy it falls back on the selector's own list, the enabled nodes of some
\* configuration: a reload gives the lists to the selector and to the checker one after
\* the other.  UpdateNodes may drop n from here on.
ChooseNode(c, n) ==
    /\ conn[c].pc = "none"
    /\ \/ n \in GetHealthyNodes
       \/ GetHealthyNodes = {} /\ \E cfg \in Configs : n \in DOMAIN cfg /\ cfg[n]
    /\ conn' = [conn EXCEPT ![c] = [NoConn EXCEPT !.pc = "chosen", !.node = n]]
    /\ UNCHANGED statuses /\ Unchanged_conn

LookUp(c, from, to) ==
    /\ conn[c].pc = from
    /\ conn' = [conn EXCEPT ![c].pc = to, ![c].id = GetStatus(conn[c].node)]
    /\ UNCHANGED statuses /\ Unchanged_conn

\* RecordConnectionStart.  `born` is not in the code: it remembers, for the
\* properties, which object counted this connection.
ConnectionStartLookUp(c) == LookUp(c, "chosen", "starting")
ConnectionStart(c) ==
    /\ conn[c].pc = "starting"
    /\ statuses' = Written(conn[c].node, conn[c].id, IncrementActiveConns)
    /\ conn' = [conn EXCEPT ![c].pc = "open", ![c].born = conn[c].id, ![c].id = NoId]
    /\ Unchanged_conn

\* RecordSuccess or RecordFailure: at most once for a connection.
RecordLookUp(c) == LookUp(c, "open", "recording")
RecordRequest(c, success) ==
    /\ conn[c].pc = "recording"
    /\ statuses' = IF success THEN Written(conn[c].node, conn[c].id, Succeeded)
                              ELSE Written(conn[c].node, conn[c].id, Failed)
    /\ conn' = [conn EXCEPT ![c].pc = "recorded", ![c].id = NoId]
    /\ Unchanged_conn

\* RecordConnectionEnd, deferred by the handler; a connection whose client
\* could not be hijacked ends without a report.
ConnectionEndLookUp(c) ==
    LookUp(c, "recorded", "ending") \/ LookUp(c, "open", "ending")
ConnectionEnd(c) ==
    /\ conn[c].pc = "ending"
    /\ statuses' = Written(conn[c].node, conn[c].id, DecrementActiveConns)
    /\ conn' = [conn EXCEPT ![c] = NoConn]
    /\ Unchanged_conn

\* Environment: a server goes down or comes back.
ServerFlips(n) ==
    /\ n \in Flaky
    /\ up' = [up EXCEPT ![n] = ~@]
    /\ UNCHANGED <<nodes, statuses, lastId, loop, probe, conn>>

ProbeStep(n, k) == CheckNodeStart(n, k) \/ ProbeReturns(n, k) \/ CheckNodeMark(n, k)

ConnStep(c) ==
    \/ \E n \in Names : ChooseNode(c, n)
    \/ ConnectionStartLookUp(c)
    \/ ConnectionStart(c)
    \/ RecordLookUp(c)
    \/ \E success \in BOOLEAN : RecordRequest(c, success)
    \/ ConnectionEndLookUp(c)
    \/ ConnectionEnd(c)

Next ==
    \/ \E k \in Rounds : CheckAllNodes(k) \/ \E n \in Names : ProbeStep(n, k)
    \/ StopCancel
    \/ StopReturns
    \/ \E cfg \in Configs : UpdateNodes(cfg)
    \/ \E n \in Names : ServerFlips(n)
    \/ \E c \in Conns : ConnStep(c)

Spec == Init /\ [][Next]_vars

\* The ticker keeps firing, a probe has a timeout, and the Go scheduler runs
\* every goroutine that can run.  Nothing makes traffic or reloads happen.
Fairness ==
    /\ WF_vars(loop = "running" /\ \E k \in Rounds : CheckAllNodes(k))
    /\ \A n \in Names, k \in Rounds : WF_vars(ProbeStep(n, k))

FairSpec == Spec /\ Fairness

----------------------------------------------------------------------------
\* The checker has a status for each configured node and for no other: the
\* bookkeeping of UpdateNodes neither leaks nor misses one (checker.go:190-212).
StatusPerNode == DOMAIN statuses = DOMAIN nodes

\* data-model.md:96: three failures in a row, of probes and of requests in any
\* mixture, leave the node unhealthy until the streak is broken.
StreakMarks ==
    \A n \in DOMAIN statuses :
        statuses[n].failCount >= UnhealthyAfter => ~statuses[n].healthy

\* The connections counted by the status object that node n has now.
CountedOn(n) ==
    {c \in Conns : /\ conn[c].node = n
                   /\ conn[c].pc \in {"open", "recording", "recorded", "ending"}
                   /\ Live(n, conn[c].born)}

\* A status never counts a connection that has ended: however reloads fall
\* between start and end, ActiveConns does not creep up (passive.go:37-50).
ActiveConnsNotLeaked ==
    \A n \in DOMAIN statuses : statuses[n].activeConns <= Cardinality(CountedOn(n))

\* Only three failures make a healthy node unhealthy, and only a successful
\* probe of this very status object makes it healthy again: neither a lucky
\* request nor a probe begun before the node was removed does (status.go:83-85,
\* checker.go:106-122).
HealthTurnsOn ==
    [][\A n \in DOMAIN statuses \cap DOMAIN statuses' :
         statuses[n].id = statuses'[n].id =>
           /\ statuses[n].healthy /\ ~statuses'[n].healthy
                => statuses[n].failCount = UnhealthyAfter - 1
           /\ ~statuses[n].healthy /\ statuses'[n].healthy
                => \E k \in Rounds : /\ probe[n][k].pc = "verdict" /\ probe[n][k].ok
                                     /\ probe[n][k].id = statuses[n].id
      ]_vars

\* The end of a probe changes the status object it was begun for or nothing: a
\* node removed and added again does not inherit a verdict (checker.go:106).
ProbeStaysOnItsObject ==
    [][\A n \in Names, k \in Rounds :
         probe[n][k].pc = "verdict" /\ probe'[n][k].pc = "none" /\ ~Live(n, probe[n][k].id)
           => statuses' = statuses]_vars

\* An enabled node whose server stays up is found healthy again and again,
\* whatever the requests through it report.
NodeRecovers ==
    \A n \in Names :
        <>[](Enabled(n) /\ up[n] /\ loop = "running")
          => []<>(n \in DOMAIN statuses /\ statuses[n].healthy)
=============================================================================
