----------------------------- MODULE TrojanPool -----------------------------
(***************************************************************************)
(* One connection pool (internal/trojan/pool.go), the clients it hands out *)
(* (internal/trojan/client.go) and the callers that use and return them.   *)
(*                                                                         *)
(* Get, Put and Close hold Pool.mu from their first line to their last, so *)
(* each is one step.  A caller that holds a client uses it without any     *)
(* lock: Dial, Close and the passing of time interleave freely with them.  *)
(* A client that is closed and that nobody refers to is garbage, and its   *)
(* name may be used again for a new one.                                   *)
(***************************************************************************)
EXTENDS PoolOps, FiniteSets

VARIABLES
    pool,   \* the Pool object
    held,   \* clients handed out by Get and not yet passed to Put
    open,   \* clients that are not closed
    stale   \* open clients last used five minutes ago or more

vars == <<pool, held, open, stale>>

Idle == IdleOf(pool)
Valid == open \ stale

TypeOK ==
    /\ pool \in Pools
    /\ held \in SUBSET Clients
    /\ open \in SUBSET Clients
    /\ stale \in SUBSET open

Init ==
    /\ pool = NewPool
    /\ held = {}
    /\ open = {}
    /\ stale = {}

----------------------------------------------------------------------------
\* Get, pool.go:46-55: an idle client is still good and is handed out again.
GetReuse ==
    /\ Reuses(pool, Valid)
    /\ held' = held \cup {Last(pool.clients)}
    /\ pool' = Popped(pool)
    /\ UNCHANGED <<open, stale>>

\* The client that Get found stale is closed whatever happens next.
CloseStale ==
    /\ open' = open \ Discarded(pool)
    /\ stale' = stale \ Discarded(pool)

\* Get, pool.go:62-64: the count has reached the limit.
GetFull ==
    /\ Misses(pool, Valid)
    /\ ~HasRoom(AfterMiss(pool))
    /\ pool' = AfterMiss(pool)
    /\ CloseStale
    /\ UNCHANGED held

\* Get, pool.go:74-76: the node cannot be reached; the new client is dropped.
GetConnectFails ==
    /\ Misses(pool, Valid)
    /\ HasRoom(AfterMiss(pool))
    /\ pool' = AfterMiss(pool)
    /\ CloseStale
    /\ UNCHANGED held

\* Get, pool.go:66-79: a new client is connected and handed out.
GetNew(c) ==
    /\ c \notin open \cup held \cup Idle
    /\ Misses(pool, Valid)
    /\ HasRoom(AfterMiss(pool))
    /\ pool' = Checkout(AfterMiss(pool))
    /\ held' = held \cup {c}
    /\ open' = (open \ Discarded(pool)) \cup {c}
    /\ stale' = stale \ Discarded(pool)

\* A Put that forgets to close the client it does not keep (a mutant).
Bug_PutLeaksSurplus(c) ==
    /\ c \in held
    /\ pool' = Returned(pool, c, open)
    /\ held' = held \ {c}
    /\ UNCHANGED <<open, stale>>

\* Put, pool.go:83-107.
Put(c) ==
    /\ c \in held
    /\ pool' = Returned(pool, c, open)
    /\ held' = held \ {c}
    /\ IF Keeps(pool, c, open)
         THEN UNCHANGED <<open, stale>>
         ELSE open' = open \ {c} /\ stale' = stale \ {c}

\* Client.Dial, client.go:62-77: lastUsed is renewed when it succeeds, and
\* nothing the pool sees changes when it fails.  The caller need not hold c any
\* more: http.Transport finishes the dial of an abandoned request in the
\* background (forwarder.go:22-28).
Dial(c) ==
    /\ c \in open
    /\ stale' = stale \ {c}
    /\ UNCHANGED <<pool, held, open>>

\* A caller closes the client it holds, before it returns it.
CloseClient(c) ==
    /\ c \in held \cap open
    /\ open' = open \ {c}
    /\ stale' = stale \ {c}
    /\ UNCHANGED <<pool, held>>

\* Five minutes go by without a use of c, idle or held.
Expire(c) ==
    /\ c \in Valid
    /\ stale' = stale \cup {c}
    /\ UNCHANGED <<pool, held, open>>

\* Close, pool.go:110-128.
Close ==
    /\ ~pool.closed
    /\ pool' = Shut(pool)
    /\ open' = open \ Idle
    /\ stale' = stale \ Idle
    /\ UNCHANGED held

Next ==
    \/ GetReuse
    \/ GetFull
    \/ GetConnectFails
    \/ Close
    \/ \E c \in Clients :
        GetNew(c) \/ Put(c) \/ Dial(c) \/ CloseClient(c) \/ Expire(c)

Spec == Init /\ [][Next]_vars

----------------------------------------------------------------------------
\* A client is leased to one place at a time: it is never handed out while it
\* is also on the idle stack, nor twice on that stack (pool.go:46-55, 99-101).
LeaseExclusive ==
    /\ Idle \cap held = {}
    /\ IsInjective(pool.clients)

\* A client on the idle stack is open, and a closed pool keeps none: Get never
\* returns a client that someone has closed (pool.go:52, 93-96, 118-124).
IdleUsable ==
    /\ Idle \subseteq open
    /\ pool.closed => pool.clients = <<>>

\* No client stays open that neither a caller nor the idle stack refers to:
\* such a connection could never be closed (pool.go:58, 94, 104, 121-123).
NoOrphan == open \subseteq held \cup Idle

\* Idle and leased clients together never exceed max_active, although the
\* counter that Get checks is not their number (pool.go:62).
ConnectionsBounded ==
    /\ Len(pool.clients) <= MaxIdle
    /\ Len(pool.clients) + Cardinality(held) <= MaxActive

\* The counter never falls below the clients in use, and the slots lost to
\* stale clients never carry it further than max_idle over the limit.
CountBounded ==
    /\ Cardinality(held) <= pool.activeCount
    /\ pool.activeCount + Len(pool.clients) <= MaxActive + MaxIdle

\* The pool keeps the promise of ClientLease: what Get, Put and Close do to the
\* stack and to its callers' clients is to lend a spare or a new client, to take
\* back or to give up, within max_active, and what is not kept is closed
\* (pool.go:37-128).  Callers are not told apart.
Lease == INSTANCE ClientLease WITH Borrowers <- {"caller"},
                                   Limit <- MaxActive,
                                   loans <- {"caller"} \X held,
                                   spare <- Idle
ImplementsLease == Lease!Spec
=============================================================================
