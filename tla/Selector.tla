------------------------------ MODULE Selector ------------------------------
(***************************************************************************)
(* Selector (internal/trojan/selector.go) with the pools of all nodes, the *)
(* goroutines that select and release clients, and the configuration       *)
(* reloads that replace nodes under their feet.                            *)
(*                                                                         *)
(* SelectClient reads the node lists and finds the pool under Selector.mu, *)
(* gives the lock up, and only then calls Pool.Get; ReleaseClient likewise *)
(* finds the pool under the lock and calls Pool.Put after it; and          *)
(* selectFromOtherNodes keeps the lock through all its Gets.  A pool is an *)
(* object: `pool[i]` may be in use after the map has forgotten it.         *)
(* Which of the available nodes the weighted round-robin picks is left     *)
(* open here.                                                              *)
(***************************************************************************)
EXTENDS PoolOps, FiniteSets

CONSTANTS
    Names,      \* node names
    Configs,    \* sets of enabled nodes a reload may bring
    Workers,    \* goroutines of the request handlers
    Reloads,    \* goroutines of configuration reloads; they may overlap
    MaxPools,   \* bound: Pool objects made
    Free,       \* Selector.mu is not held
    NoClient    \* a worker has no client

ASSUME SelectorAssumption ==
    /\ \A cfg \in Configs : cfg \subseteq Names /\ cfg # {} /\ IsFiniteSet(cfg)
    /\ Free \notin Workers
    /\ NoClient \notin Clients

\* A bound: the names of clients that are gone are used again.
ASSUME ClientsAssumption == IsFiniteSet(Clients)

VARIABLES
    nodes,      \* Selector.nodes
    pools,      \* Selector.pools: name -> index into pool
    pool,       \* every Pool object made so far
    poolNode,   \* the node each of them was made for
    origin,     \* the pool that made each client, 0 for a client that is gone
    open,       \* clients that are not closed
    stale,      \* open clients last used five minutes ago or more
    mu,         \* holder of Selector.mu between steps
    worker,     \* the goroutines
    checked,    \* enabled nodes of the health checker
    reload      \* the nodes each reload has yet to give to the health checker, if any

vars == <<nodes, pools, pool, poolNode, origin, open, stale, mu, worker, checked, reload>>
clientVars == <<pool, origin, open, stale>>

NoPool == 0
NoReload == {}
PoolIds == DOMAIN pool
Valid == open \ stale
HeldBy(w) == {worker[w].client} \ {NoClient}
Held == UNION {HeldBy(w) : w \in Workers}
Fresh == {c \in Clients : origin[c] = NoPool}
NodeOf(c) == poolNode[origin[c]]

Idle == [pc |-> "idle", avail |-> {}, node |-> {}, pool |-> NoPool, tried |-> {},
         client |-> NoClient]
Steps == {"idle", "get", "failover", "others", "failed", "using", "put"}
WorkerStates == [pc : Steps, avail : SUBSET Names, node : SUBSET Names, pool : Nat,
                 tried : SUBSET Names, client : Clients \cup {NoClient}]

TypeOK ==
    /\ pool \in Seq(Pools) /\ poolNode \in Seq(Names) /\ Len(poolNode) = Len(pool)
    /\ nodes \subseteq Names /\ pools \in [nodes -> PoolIds]
    /\ \A n \in nodes : poolNode[pools[n]] = n
    /\ origin \in [Clients -> PoolIds \cup {NoPool}]
    /\ open \subseteq Clients /\ stale \subseteq open
    /\ mu \in Workers \cup {Free}
    /\ worker \in [Workers -> WorkerStates]
    /\ \A w \in Workers :
        /\ worker[w].pool \in PoolIds \cup {NoPool}
        /\ worker[w].pc = "others" <=> mu = w
    /\ checked \subseteq Names
    /\ reload \in [Reloads -> SUBSET Names]

----------------------------------------------------------------------------
\* NewSelector, with the health checker of the same configuration attached.
Init ==
    /\ nodes \in Configs
    /\ poolNode = SetToSeq(nodes)
    /\ pool = [i \in DOMAIN poolNode |-> NewPool]
    /\ pools = [n \in nodes |-> CHOOSE i \in DOMAIN poolNode : poolNode[i] = n]
    /\ origin = [c \in Clients |-> NoPool]
    /\ open = {}
    /\ stale = {}
    /\ mu = Free
    /\ worker = [w \in Workers |-> Idle]
    /\ checked = nodes
    /\ reload = [g \in Reloads |-> NoReload]

----------------------------------------------------------------------------
(* Pool.Get and Pool.Put on the pool object i *)

\* Clients that are closed and that nothing refers to any more.
Drop(S) ==
    /\ open' = open \ S
    /\ stale' = stale \ S
    /\ origin' = [c \in Clients |-> IF c \in S THEN NoPool ELSE origin[c]]

\* Get returns client c, an idle one or a new one.
GetOk(i, c) ==
    \/ /\ Reuses(pool[i], Valid)
       /\ c = Last(pool[i].clients)
       /\ pool' = [pool EXCEPT ![i] = Popped(@)]
       /\ UNCHANGED <<origin, open, stale>>
    \/ /\ Misses(pool[i], Valid)
       /\ HasRoom(AfterMiss(pool[i]))
       /\ c \in Fresh
       /\ pool' = [pool EXCEPT ![i] = Checkout(AfterMiss(@))]
       /\ open' = (open \ Discarded(pool[i])) \cup {c}
       /\ stale' = stale \ Discarded(pool[i])
       /\ origin' = [d \in Clients |-> IF d = c THEN i
                                       ELSE IF d \in Discarded(pool[i]) THEN NoPool
                                       ELSE origin[d]]

\* Get returns an error: the pool is closed, or full, or the dial failed.
GetErr(i) ==
    \/ pool[i].closed /\ UNCHANGED clientVars
    \/ /\ Misses(pool[i], Valid)
       /\ pool' = [pool EXCEPT ![i] = AfterMiss(@)]
       /\ Drop(Discarded(pool[i]))

PutInto(i, c) ==
    /\ pool' = [pool EXCEPT ![i] = Returned(@, c, open)]
    /\ IF Keeps(pool[i], c, open) THEN UNCHANGED <<origin, open, stale>> ELSE Drop({c})

----------------------------------------------------------------------------
(* SelectClient *)

Becomes(w, state) == worker' = [worker EXCEPT ![w] = state]
Using(c) == [Idle EXCEPT !.pc = "using", !.client = c]
Rest == UNCHANGED <<nodes, pools, poolNode, checked, reload>>

\* The first critical section: any set of the enabled nodes of the checker may
\* be healthy at this moment; with none, all nodes of the selector are tried.
SelectClient(w) ==
    /\ worker[w].pc = "idle" /\ mu = Free
    /\ nodes # {}
    /\ \E healthy \in SUBSET checked :
        LET avail == IF healthy = {} THEN nodes ELSE healthy
        IN  \E n \in avail :
              Becomes(w, IF n \in DOMAIN pools
                         THEN [Idle EXCEPT !.pc = "get", !.avail = avail, !.node = {n},
                                           !.pool = pools[n]]
                         ELSE [Idle EXCEPT !.pc = "failed", !.avail = avail,
                                           !.tried = {n}])
    /\ UNCHANGED mu /\ UNCHANGED clientVars /\ Rest

GetSucceeds(w) ==
    /\ worker[w].pc = "get"
    /\ \E c \in Clients : GetOk(worker[w].pool, c) /\ Becomes(w, Using(c))
    /\ UNCHANGED mu /\ Rest

GetFails(w) ==
    /\ worker[w].pc = "get"
    /\ GetErr(worker[w].pool)
    /\ Becomes(w, [Idle EXCEPT !.pc = "failover", !.avail = worker[w].avail,
                               !.tried = worker[w].node])
    /\ UNCHANGED mu /\ Rest

(* selectFromOtherNodes, under Selector.mu from its first line to its last *)

LockForFailover(w) ==
    /\ worker[w].pc = "failover" /\ mu = Free
    /\ mu' = w
    /\ Becomes(w, [worker[w] EXCEPT !.pc = "others"])
    /\ UNCHANGED clientVars /\ Rest

Untried(w) == (worker[w].avail \cap DOMAIN pools) \ worker[w].tried

OtherSucceeds(w) ==
    /\ mu = w
    /\ \E n \in Untried(w), c \in Clients : GetOk(pools[n], c) /\ Becomes(w, Using(c))
    /\ mu' = Free
    /\ Rest

OtherFails(w) ==
    /\ mu = w
    /\ \E n \in Untried(w) :
        /\ GetErr(pools[n])
        /\ Becomes(w, [worker[w] EXCEPT !.tried = @ \cup {n}])
    /\ UNCHANGED mu /\ Rest

\* An error return without the unlock (a mutant).
Bug_OthersExhausted(w) ==
    /\ mu = w
    /\ Untried(w) = {}
    /\ UNCHANGED mu
    /\ Becomes(w, [Idle EXCEPT !.pc = "failed"])
    /\ UNCHANGED clientVars /\ Rest

OthersExhausted(w) ==
    /\ mu = w
    /\ Untried(w) = {}
    /\ mu' = Free
    /\ Becomes(w, [Idle EXCEPT !.pc = "failed"])
    /\ UNCHANGED clientVars /\ Rest

\* The caller gets the error.
ReturnError(w) ==
    /\ worker[w].pc = "failed"
    /\ Becomes(w, Idle)
    /\ UNCHANGED mu /\ UNCHANGED clientVars /\ Rest

----------------------------------------------------------------------------
(* The caller and ReleaseClient *)

\* The caller closes its client, after a failed dial for instance.
CloseClient(w) ==
    /\ worker[w].pc = "using"
    /\ worker[w].client \in open
    /\ open' = open \ HeldBy(w)
    /\ stale' = stale \ HeldBy(w)
    /\ UNCHANGED <<pool, origin, mu, worker>> /\ Rest

\* Client.Dial renews lastUsed; five minutes without one make a client stale.
Dial(w) ==
    /\ worker[w].pc = "using"
    /\ worker[w].client \in stale
    /\ stale' = stale \ HeldBy(w)
    /\ UNCHANGED <<pool, origin, open, mu, worker>> /\ Rest
Expire(c) ==
    /\ c \in Valid
    /\ stale' = stale \cup {c}
    /\ UNCHANGED <<pool, origin, open, mu, worker>> /\ Rest

\* A release that trusts the pool the caller selected first (a mutant).
Bug_ReleaseLookUp(w) ==
    /\ worker[w].pc = "using" /\ mu = Free
    /\ \E n \in DOMAIN pools \cup {NodeOf(worker[w].client)} :
        Becomes(w, [worker[w] EXCEPT !.pc = "put",
                      !.pool = IF n \in DOMAIN pools THEN pools[n] ELSE NoPool])
    /\ UNCHANGED mu /\ UNCHANGED clientVars /\ Rest

\* ReleaseClient finds the pool by the node name of the client ...
ReleaseLookUp(w) ==
    LET n == NodeOf(worker[w].client)
    IN  /\ worker[w].pc = "using" /\ mu = Free
        /\ Becomes(w, [worker[w] EXCEPT !.pc = "put",
                         !.pool = IF n \in DOMAIN pools THEN pools[n] ELSE NoPool])
        /\ UNCHANGED mu /\ UNCHANGED clientVars /\ Rest

\* A release that drops the client of an unknown node without closing it (a mutant).
Bug_ReleasePut(w) ==
    /\ worker[w].pc = "put"
    /\ IF worker[w].pool # NoPool
         THEN PutInto(worker[w].pool, worker[w].client)
         ELSE UNCHANGED clientVars
    /\ Becomes(w, Idle)
    /\ UNCHANGED mu /\ Rest

\* ... and hands the client to that pool, or closes it if the node is gone.
ReleasePut(w) ==
    /\ worker[w].pc = "put"
    /\ IF worker[w].pool # NoPool
         THEN PutInto(worker[w].pool, worker[w].client)
         ELSE Drop(HeldBy(w)) /\ UNCHANGED pool
    /\ Becomes(w, Idle)
    /\ UNCHANGED mu /\ Rest

----------------------------------------------------------------------------
(* UpdateNodes and Close *)

\* The pools of the named nodes are closed with their idle clients.
ClosePools(S) ==
    LET shut == {pools[n] : n \in S}
    IN  [i \in DOMAIN pool |-> IF i \in shut THEN Shut(pool[i]) ELSE pool[i]]
IdleIn(S) == UNION {IdleOf(pool[pools[n]]) : n \in S}

\* UpdateNodes keeps the pool of every name it knows, although its settings may
\* have changed, makes one for each new name, and closes the others.
UpdateNodes(g, cfg) ==
    LET added == SetToSeq(cfg \ DOMAIN pools)
        removed == DOMAIN pools \ cfg
        newId(n) == Len(pool) + CHOOSE i \in DOMAIN added : added[i] = n
    IN  /\ mu = Free /\ reload[g] = NoReload
        /\ Len(pool) + Len(added) <= MaxPools
        /\ nodes' = cfg
        /\ pools' = [n \in cfg |-> IF n \in DOMAIN pools THEN pools[n] ELSE newId(n)]
        /\ pool' = ClosePools(removed) \o [i \in DOMAIN added |-> NewPool]
        /\ poolNode' = poolNode \o added
        /\ Drop(IdleIn(removed))
        /\ reload' = [reload EXCEPT ![g] = cfg]
        /\ UNCHANGED <<mu, worker, checked>>

\* The second half of a reload: Checker.UpdateNodes.  Another reload may have gone
\* through both halves since the first.
UpdateChecker(g) ==
    /\ reload[g] # NoReload
    /\ checked' = reload[g]
    /\ reload' = [reload EXCEPT ![g] = NoReload]
    /\ UNCHANGED <<nodes, pools, poolNode, mu, worker>> /\ UNCHANGED clientVars

\* Close, at shutdown.
Close ==
    /\ mu = Free /\ nodes # {}
    /\ pool' = ClosePools(DOMAIN pools)
    /\ Drop(IdleIn(DOMAIN pools))
    /\ pools' = <<>>
    /\ nodes' = {}
    /\ UNCHANGED <<poolNode, mu, worker, checked, reload>>

Selecting(w) ==
    \/ GetSucceeds(w)
    \/ GetFails(w)
    \/ LockForFailover(w)
    \/ OtherSucceeds(w)
    \/ OtherFails(w)
    \/ OthersExhausted(w)

Releasing(w) == ReleaseLookUp(w) \/ ReleasePut(w)

Next ==
    \/ \E w \in Workers :
        \/ SelectClient(w)
        \/ Selecting(w)
        \/ ReturnError(w)
        \/ CloseClient(w)
        \/ Dial(w)
        \/ Releasing(w)
    \/ \E c \in Clients : Expire(c)
    \/ \E g \in Reloads : UpdateChecker(g) \/ \E cfg \in Configs : UpdateNodes(g, cfg)
    \/ Close

Spec == Init /\ [][Next]_vars

----------------------------------------------------------------------------
\* An open client is in use or on the idle stack of a pool that the selector
\* still knows: no reload or shutdown leaves a connection that nobody closes.
NoOrphan == open \subseteq Held \cup IdleIn(DOMAIN pools)

\* The pools the map has forgotten are closed and empty, and those it knows are
\* open: a Get or Put that looked its pool up before the reload cannot revive it.
RetiredPools ==
    \A i \in PoolIds : IF \E n \in DOMAIN pools : pools[n] = i
                       THEN ~pool[i].closed
                       ELSE pool[i].closed /\ pool[i].clients = <<>>

\* A client waits in a pool of the node it connects to, also when it was got by
\* failover from another node than the first one chosen.
IdleMatchesNode ==
    \A i \in PoolIds : \A c \in IdleOf(pool[i]) : NodeOf(c) = poolNode[i]

\* The clients of a node, in use or idle.
ClientsOf(n) == {c \in Clients : origin[c] # NoPool /\ NodeOf(c) = n}

\* config/types.go:25: MaxActive is the largest number of connections of a node.
NodeLimit == \A n \in Names : Cardinality(ClientsOf(n) \cap open) <= MaxActive

\* The selector with its pools, reloads and failover keeps the promise of
\* ClientLease to its workers: no client changes hands but by a selection and a
\* release, none is in two places, what is lent was a spare or is new, and the
\* spares of a pool that is retired are closed, as is a client that comes back too
\* late for its pool.  There is no limit on all nodes together.
Lease == INSTANCE ClientLease WITH Borrowers <- Workers,
                                   Limit <- Cardinality(Clients),
                                   loans <- UNION {{w} \X HeldBy(w) : w \in Workers},
                                   spare <- UNION {IdleOf(pool[i]) : i \in PoolIds}
ImplementsLease == Lease!Spec
=============================================================================
