-------------------------- MODULE TrojanPoolProofs --------------------------
(***************************************************************************)
(* The safety of one connection pool for every set of clients and every    *)
(* max_idle and max_active.                                                *)
(*                                                                         *)
(* Inv is inductive.  ConnectionsBounded alone is not: that a new client   *)
(* still fits follows from the counter check of Get only because the       *)
(* counter covers the leased clients (CountBounded), and that popping and  *)
(* returning keep the sizes apart needs LeaseExclusive.                    *)
(*                                                                         *)
(* SockInv is inductive for the sockets behind the clients (TrojanClient). *)
(* That no step of one request closes the socket of another needs to know  *)
(* that two requests have neither a client nor a socket in common          *)
(* (RequestsApart), that the socket of a request is referred to by its own *)
(* client alone (ConnsOwn), and that a closed client refers to no socket   *)
(* that is live and not kept by a transport (ClosedConnsGone).             *)
(***************************************************************************)
EXTENDS TrojanClient, PoolOpsProofs, FiniteSetTheorems

Inv ==
    /\ TypeOK
    /\ LeaseExclusive
    /\ IdleUsable
    /\ NoOrphan
    /\ ConnectionsBounded
    /\ CountBounded
    /\ IsFiniteSet(held)

\* A new pool has nothing idle, nothing leased and nothing counted.
LEMMA InitInv == Init => Inv
<1> SUFFICES ASSUME Init PROVE Inv
  OBVIOUS
<1>1. NewPool \in Pools /\ NewPool.clients = <<>> /\ NewPool.activeCount = 0
      /\ NewPool.closed = FALSE
  BY EmptySeq DEF NewPool, Pools
<1>2. pool \in Pools /\ pool.clients = <<>> /\ pool.activeCount = 0 /\ held = {}
      /\ open = {} /\ stale = {} /\ ~pool.closed
  BY <1>1 DEF Init
<1>3. Len(pool.clients) = 0 /\ Idle = {}
  BY <1>2, IdleFacts DEF Idle
<1>4. IsInjective(pool.clients)
  BY <1>2 DEF IsInjective
<1>5. Cardinality(held) = 0 /\ IsFiniteSet(held)
  BY <1>2, FS_EmptySet
<1> QED
  BY <1>2, <1>3, <1>4, <1>5, MaxIdleAssumption, MaxActiveAssumption
  DEF Inv, TypeOK, LeaseExclusive, IdleUsable, NoOrphan, ConnectionsBounded,
      CountBounded

----------------------------------------------------------------------------
\* Reusing an idle client moves it from the stack to the leased ones.
LEMMA GetReuseInv == Inv /\ GetReuse => Inv'
<1> SUFFICES ASSUME Inv, GetReuse PROVE Inv'
  OBVIOUS
<1> DEFINE c == Last(pool.clients)
<1>1. pool \in Pools /\ pool.clients # <<>> /\ ~pool.closed /\ c \in Valid
      /\ pool' = Popped(pool) /\ held' = held \cup {c} /\ open' = open /\ stale' = stale
  BY DEF Inv, TypeOK, GetReuse, Reuses
<1>2. /\ pool' \in Pools
      /\ pool'.activeCount = pool.activeCount + 1
      /\ pool'.closed = pool.closed
      /\ Len(pool'.clients) = Len(pool.clients) - 1
      /\ Idle = Idle' \cup {c}
      /\ IsInjective(pool'.clients)
      /\ c \notin Idle'
  BY <1>1, PoppedFacts DEF Inv, LeaseExclusive, Idle
<1>3. c \notin held /\ c \in Clients /\ Len(pool.clients) \in Nat /\ pool.activeCount \in Int
  BY <1>1, <1>2, IdleFacts DEF Inv, LeaseExclusive, Idle
<1>4. /\ IsFiniteSet(held') /\ Cardinality(held') = Cardinality(held) + 1
      /\ Cardinality(held) \in Nat
  BY <1>1, <1>3, FS_AddElement, FS_CardinalityType DEF Inv
<1>5. TypeOK'
  BY <1>1, <1>2, <1>3 DEF Inv, TypeOK
<1>6. LeaseExclusive' /\ IdleUsable' /\ NoOrphan'
  BY <1>1, <1>2, <1>3 DEF Inv, LeaseExclusive, IdleUsable, NoOrphan
<1>7. ConnectionsBounded' /\ CountBounded'
  <2>1. ConnectionsBounded /\ CountBounded
    BY DEF Inv
  <2>2. pool'.activeCount = pool.activeCount + 1 /\ Len(pool'.clients) = Len(pool.clients) - 1
    BY <1>2
  <2>3. ConnectionsBounded'
    BY <1>3, <1>4, <2>1, <2>2, MaxIdleAssumption, MaxActiveAssumption
    DEF ConnectionsBounded
  <2>4. CountBounded'
    BY <1>3, <1>4, <2>1, <2>2, MaxIdleAssumption, MaxActiveAssumption
    DEF CountBounded
  <2> QED BY <2>3, <2>4
<1> QED BY <1>4, <1>5, <1>6, <1>7 DEF Inv

\* A Get that fails after discarding a stale client only loses that client.
LEMMA GetFailsInv == Inv /\ (GetFull \/ GetConnectFails) => Inv'
<1> SUFFICES ASSUME Inv, GetFull \/ GetConnectFails PROVE Inv'
  OBVIOUS
<1> DEFINE d == Discarded(pool)
<1>1. pool \in Pools /\ pool' = AfterMiss(pool) /\ held' = held
      /\ open' = open \ d /\ stale' = stale \ d /\ ~pool.closed
  BY DEF Inv, TypeOK, GetFull, GetConnectFails, Misses, CloseStale
<1>2. /\ pool' \in Pools
      /\ pool'.closed = pool.closed
      /\ Idle = Idle' \cup d
      /\ IsInjective(pool'.clients)
      /\ Idle' \cap d = {}
      /\ pool.clients = <<>> => pool' = pool
      /\ pool.clients # <<>> => /\ pool'.activeCount = pool.activeCount + 1
                                /\ Len(pool'.clients) = Len(pool.clients) - 1
  BY <1>1, MissFacts DEF Inv, LeaseExclusive, Idle
<1>3. Len(pool.clients) \in Nat /\ pool.activeCount \in Int /\ Cardinality(held) \in Nat
  BY <1>1, IdleFacts, FS_CardinalityType DEF Inv
<1>4. TypeOK'
  BY <1>1, <1>2 DEF Inv, TypeOK
<1>5. LeaseExclusive' /\ IdleUsable' /\ NoOrphan'
  BY <1>1, <1>2 DEF Inv, LeaseExclusive, IdleUsable, NoOrphan
<1>6. ConnectionsBounded' /\ CountBounded'
  <2>1. CASE pool.clients = <<>>
    BY <1>1, <1>2, <2>1 DEF Inv, ConnectionsBounded, CountBounded
  <2>2. CASE pool.clients # <<>>
    <3>1. /\ pool'.activeCount = pool.activeCount + 1
          /\ Len(pool'.clients) = Len(pool.clients) - 1
          /\ Cardinality(held') = Cardinality(held)
      BY <1>1, <1>2, <2>2
    <3>2. ConnectionsBounded'
      BY <1>3, <3>1, MaxIdleAssumption, MaxActiveAssumption DEF Inv, ConnectionsBounded
    <3>3. CountBounded'
      BY <1>3, <3>1, MaxIdleAssumption, MaxActiveAssumption DEF Inv, CountBounded
    <3> QED BY <3>2, <3>3
  <2> QED BY <2>1, <2>2
<1> QED BY <1>1, <1>4, <1>5, <1>6 DEF Inv

\* A new client fits: the idle stack is empty and the counter, which covers the
\* leased clients, is below the limit, or it takes the place of a discarded one.
LEMMA GetNewInv == ASSUME Inv, NEW c \in Clients, GetNew(c) PROVE Inv'
<1> DEFINE d == Discarded(pool)
           q == AfterMiss(pool)
<1>1. pool \in Pools /\ pool' = Checkout(q) /\ held' = held \cup {c} /\ HasRoom(q)
      /\ open' = (open \ d) \cup {c} /\ stale' = stale \ d /\ ~pool.closed
      /\ c \notin open /\ c \notin held /\ c \notin Idle
  BY DEF Inv, TypeOK, GetNew, Misses
<1>2. /\ q \in Pools
      /\ q.closed = pool.closed
      /\ Idle = IdleOf(q) \cup d
      /\ IsInjective(q.clients)
      /\ IdleOf(q) \cap d = {}
      /\ pool.clients = <<>> => q = pool
      /\ pool.clients # <<>> => /\ q.activeCount = pool.activeCount + 1
                                /\ Len(q.clients) = Len(pool.clients) - 1
  BY <1>1, MissFacts DEF Inv, LeaseExclusive, Idle
<1>3. /\ pool' \in Pools
      /\ pool'.activeCount = q.activeCount + 1
      /\ pool'.clients = q.clients
      /\ pool'.closed = q.closed
      /\ Idle' = IdleOf(q)
  BY <1>1, <1>2, CheckoutFacts DEF Idle, IdleOf
<1>4. /\ Len(pool.clients) \in Nat /\ pool.activeCount \in Int
      /\ pool.clients = <<>> => Len(pool.clients) = 0
      /\ q.activeCount \in Int /\ Len(q.clients) \in Nat
  BY <1>1, <1>2, IdleFacts
<1>5. /\ IsFiniteSet(held') /\ Cardinality(held') = Cardinality(held) + 1
      /\ Cardinality(held) \in Nat
  BY <1>1, FS_AddElement, FS_CardinalityType DEF Inv
<1>6. TypeOK'
  BY <1>1, <1>3 DEF Inv, TypeOK
<1>7. LeaseExclusive' /\ IdleUsable' /\ NoOrphan'
  BY <1>1, <1>2, <1>3 DEF Inv, LeaseExclusive, IdleUsable, NoOrphan
<1>8. q.activeCount + 1 <= MaxActive
  BY <1>1, <1>4, MaxActiveAssumption DEF HasRoom
<1>9. ConnectionsBounded' /\ CountBounded'
  <2>1. CASE pool.clients = <<>>
    BY <1>2, <1>3, <1>4, <1>5, <1>8, <2>1, MaxIdleAssumption, MaxActiveAssumption
    DEF Inv, ConnectionsBounded, CountBounded
  <2>2. CASE pool.clients # <<>>
    <3>1. /\ pool'.activeCount = q.activeCount + 1
          /\ q.activeCount = pool.activeCount + 1
          /\ Len(pool'.clients) = Len(pool.clients) - 1
      BY <1>2, <1>3, <2>2
    <3>2. ConnectionsBounded'
      BY <1>4, <1>5, <3>1, MaxIdleAssumption, MaxActiveAssumption
      DEF Inv, ConnectionsBounded
    <3>3. Cardinality(held') <= pool'.activeCount
      BY <1>4, <1>5, <3>1 DEF Inv, CountBounded
    <3>4. pool'.activeCount <= MaxActive /\ Len(pool'.clients) <= MaxIdle
      BY <1>4, <1>8, <3>1, MaxIdleAssumption DEF Inv, ConnectionsBounded
    <3>5. pool'.activeCount \in Int /\ Len(pool'.clients) \in Int
      BY <1>4, <3>1
    <3>6. pool'.activeCount + Len(pool'.clients) <= MaxActive + MaxIdle
      BY <3>4, <3>5, MaxIdleAssumption, MaxActiveAssumption
    <3> QED BY <3>2, <3>3, <3>6 DEF CountBounded
  <2> QED BY <2>1, <2>2
<1> QED BY <1>5, <1>6, <1>7, <1>9 DEF Inv

\* A returned client goes to the idle stack while it has room, or is closed.
LEMMA PutInv == ASSUME Inv, NEW c \in Clients, Put(c) PROVE Inv'
<1>1. pool \in Pools /\ c \in held /\ pool' = Returned(pool, c, open) /\ held' = held \ {c}
  BY DEF Inv, TypeOK, Put
<1>2. /\ pool' \in Pools
      /\ pool'.activeCount = pool.activeCount - 1
      /\ pool'.closed = pool.closed
  BY <1>1, ReturnedFacts
<1>3. Len(pool.clients) \in Nat /\ pool.activeCount \in Int
  BY <1>1, IdleFacts
<1>4. /\ IsFiniteSet(held') /\ Cardinality(held') = Cardinality(held) - 1
      /\ Cardinality(held) \in Nat
  BY <1>1, FS_RemoveElement, FS_CardinalityType DEF Inv
<1>5. c \notin Idle
  BY <1>1 DEF Inv, LeaseExclusive
<1>6. CASE Keeps(pool, c, open)
  <2>1. /\ c \in open /\ ~pool.closed /\ Len(pool.clients) < MaxIdle
        /\ Len(pool'.clients) = Len(pool.clients) + 1
        /\ Idle' = Idle \cup {c}
        /\ IsInjective(pool'.clients)
    BY <1>1, <1>5, <1>6, ReturnedFacts DEF Inv, LeaseExclusive, Idle
  <2>2. open' = open /\ stale' = stale
    BY <1>6 DEF Put
  <2>3. TypeOK'
    BY <1>1, <1>2, <2>2 DEF Inv, TypeOK
  <2>4. LeaseExclusive' /\ IdleUsable' /\ NoOrphan'
    BY <1>1, <1>2, <2>1, <2>2 DEF Inv, LeaseExclusive, IdleUsable, NoOrphan
  <2>5. ConnectionsBounded' /\ CountBounded'
    <3>1. Len(pool'.clients) = Len(pool.clients) + 1 /\ Len(pool.clients) < MaxIdle
      BY <2>1
    <3> QED BY <1>2, <1>3, <1>4, <3>1, MaxIdleAssumption, MaxActiveAssumption
            DEF Inv, ConnectionsBounded, CountBounded
  <2> QED BY <1>4, <2>3, <2>4, <2>5 DEF Inv
<1>7. CASE ~Keeps(pool, c, open)
  <2>1. pool'.clients = pool.clients /\ Idle' = Idle
    BY <1>1, <1>7, ReturnedFacts DEF Idle, IdleOf
  <2>2. open' = open \ {c} /\ stale' = stale \ {c}
    BY <1>7 DEF Put
  <2>3. TypeOK'
    BY <1>1, <1>2, <2>2 DEF Inv, TypeOK
  <2>4. LeaseExclusive' /\ IdleUsable' /\ NoOrphan'
    BY <1>1, <1>2, <1>5, <2>1, <2>2 DEF Inv, LeaseExclusive, IdleUsable, NoOrphan
  <2>5. ConnectionsBounded' /\ CountBounded'
    BY <1>2, <1>3, <1>4, <2>1, MaxIdleAssumption, MaxActiveAssumption
    DEF Inv, ConnectionsBounded, CountBounded
  <2> QED BY <1>4, <2>3, <2>4, <2>5 DEF Inv
<1> QED BY <1>6, <1>7

\* Callers' own steps change no set that the sizes depend on.
LEMMA UseInv ==
    ASSUME Inv, NEW c \in Clients, Dial(c) \/ CloseClient(c) \/ Expire(c)
    PROVE  Inv'
<1>1. pool' = pool /\ held' = held /\ Idle' = Idle
  BY DEF Dial, CloseClient, Expire, Idle
<1>2. CASE CloseClient(c)
  <2>1. c \in held /\ open' = open \ {c} /\ stale' = stale \ {c}
    BY <1>2 DEF CloseClient
  <2> QED
    BY <1>1, <2>1 DEF Inv, TypeOK, LeaseExclusive, IdleUsable, NoOrphan,
                      ConnectionsBounded, CountBounded
<1>3. CASE Dial(c) \/ Expire(c)
  <2>1. open' = open /\ stale' \in SUBSET open
    BY <1>3 DEF Inv, TypeOK, Dial, Expire, Valid
  <2> QED
    BY <1>1, <2>1 DEF Inv, TypeOK, LeaseExclusive, IdleUsable, NoOrphan,
                      ConnectionsBounded, CountBounded
<1> QED BY <1>2, <1>3

\* Closing the pool closes every idle client and forgets it.
LEMMA CloseInv == Inv /\ Close => Inv'
<1> SUFFICES ASSUME Inv, Close PROVE Inv'
  OBVIOUS
<1>1. pool \in Pools /\ pool' = Shut(pool) /\ held' = held
      /\ open' = open \ Idle /\ stale' = stale \ Idle
  BY DEF Inv, TypeOK, Close
<1>2. pool' \in Pools /\ pool'.clients = <<>> /\ pool'.activeCount = pool.activeCount
  BY <1>1, ShutFacts
<1>3. Idle' = {} /\ Len(pool'.clients) = 0 /\ IsInjective(pool'.clients)
  BY <1>2, IdleFacts DEF Idle, IsInjective
<1>4. Len(pool.clients) \in Nat /\ pool.activeCount \in Int /\ Cardinality(held) \in Nat
  BY <1>1, IdleFacts, FS_CardinalityType DEF Inv
<1>5. TypeOK'
  BY <1>1, <1>2 DEF Inv, TypeOK
<1>6. LeaseExclusive' /\ IdleUsable' /\ NoOrphan'
  BY <1>1, <1>2, <1>3 DEF Inv, LeaseExclusive, IdleUsable, NoOrphan
<1>7. ConnectionsBounded' /\ CountBounded'
  BY <1>1, <1>2, <1>3, <1>4, MaxIdleAssumption, MaxActiveAssumption
  DEF Inv, ConnectionsBounded, CountBounded
<1> QED BY <1>1, <1>5, <1>6, <1>7 DEF Inv

----------------------------------------------------------------------------
\* Every step of the pool and of its callers preserves Inv.
LEMMA NextInv == Inv /\ [Next]_vars => Inv'
<1> SUFFICES ASSUME Inv, [Next]_vars PROVE Inv'
  OBVIOUS
<1>1. CASE GetReuse
  BY <1>1, GetReuseInv
<1>2. CASE GetFull \/ GetConnectFails
  BY <1>2, GetFailsInv
<1>3. CASE Close
  BY <1>3, CloseInv
<1>4. ASSUME NEW c \in Clients, GetNew(c) PROVE Inv'
  BY <1>4, GetNewInv
<1>5. ASSUME NEW c \in Clients, Put(c) PROVE Inv'
  BY <1>5, PutInv
<1>6. ASSUME NEW c \in Clients, Dial(c) \/ CloseClient(c) \/ Expire(c) PROVE Inv'
  BY <1>6, UseInv
<1>7. CASE UNCHANGED vars
  BY <1>7 DEF vars, Inv, TypeOK, LeaseExclusive, IdleUsable, NoOrphan,
              ConnectionsBounded, CountBounded, Idle
<1> QED BY <1>1, <1>2, <1>3, <1>4, <1>5, <1>6, <1>7 DEF Next

\* The invariant holds in every reachable state of the pool.
LEMMA AlwaysInv == Spec => []Inv
<1> QED BY InitInv, NextInv, PTL DEF Spec

\* Type correctness of the pool, its counter included.
THEOREM TypeCorrect == Spec => []TypeOK
<1>1. Inv => TypeOK
  BY DEF Inv
<1> QED BY <1>1, AlwaysInv, PTL

\* Get never hands a client to two callers, and never keeps one idle twice.
THEOREM ExclusiveLeases == Spec => []LeaseExclusive
<1>1. Inv => LeaseExclusive
  BY DEF Inv
<1> QED BY <1>1, AlwaysInv, PTL

\* What Get may take from the stack is open, and a closed pool keeps nothing
\* (pool.go:82-122).
THEOREM IdleClientsUsable == Spec => []IdleUsable
<1>1. Inv => IdleUsable
  BY DEF Inv
<1> QED BY <1>1, AlwaysInv, PTL

\* No open client is lost: it is idle or with a caller (pool.go:34-122).
THEOREM ClientsAccountedFor == Spec => []NoOrphan
<1>1. Inv => NoOrphan
  BY DEF Inv
<1> QED BY <1>1, AlwaysInv, PTL

\* However the stale clients are discarded, a node never has more than
\* max_active clients connected, and the counter overshoots by max_idle at most.
THEOREM NodeLimit == Spec => [](ConnectionsBounded /\ CountBounded)
<1>1. Inv => ConnectionsBounded /\ CountBounded
  BY DEF Inv
<1> QED BY <1>1, AlwaysInv, PTL
----------------------------------------------------------------------------
(* The pool implements ClientLease *)

\* The idle stack has at most as many clients as it has places.
LEMMA IdleCardinality ==
    ASSUME Inv
    PROVE  IsFiniteSet(Idle) /\ Cardinality(Idle) <= Len(pool.clients)
<1>1. pool.clients \in Seq(Clients) /\ Len(pool.clients) \in Nat
  BY IdleFacts DEF Inv, TypeOK
<1>2. DOMAIN pool.clients = 1..Len(pool.clients)
  BY <1>1, LenProperties
<1>3. IsFiniteSet(1..Len(pool.clients)) /\ Cardinality(1..Len(pool.clients)) = Len(pool.clients)
  BY <1>1, FS_Interval
<1>4. pool.clients \in Surjection(1..Len(pool.clients), Idle)
  <2>1. Idle = {pool.clients[i] : i \in 1..Len(pool.clients)}
    BY <1>2 DEF Idle, IdleOf, ToSet
  <2>2. \A i \in 1..Len(pool.clients) : pool.clients[i] \in Idle
    BY <2>1
  <2>3. pool.clients \in [1..Len(pool.clients) -> Clients]
    BY <1>1, LenProperties
  <2>4. pool.clients \in [1..Len(pool.clients) -> Idle]
    BY <2>2, <2>3
  <2>5. \A c \in Idle : \E i \in 1..Len(pool.clients) : pool.clients[i] = c
    BY <2>1
  <2> QED BY <2>4, <2>5 DEF Surjection
<1> QED BY <1>3, <1>4, FS_Surjection

\* The clients lent are those that callers hold.
LEMMA LentIsHeld == Lease!Lent = held
<1>1. \A c : c \in held => <<"caller", c>> \in {"caller"} \X held /\ <<"caller", c>>[2] = c
  OBVIOUS
<1>2. \A loan \in {"caller"} \X held : loan[2] \in held
  OBVIOUS
<1> QED BY <1>1, <1>2 DEF Lease!Lent

\* The limit of the lease is max_active, for lent and spare clients together.
LEMMA WithinMaxActive == Inv => Lease!WithinLimit
<1> SUFFICES ASSUME Inv PROVE Lease!WithinLimit
  OBVIOUS
<1>1. Lease!Lent = held
  BY LentIsHeld
<1>2. IsFiniteSet(held) /\ IsFiniteSet(Idle)
  BY IdleCardinality DEF Inv
<1>3. Cardinality(held \cup Idle) =
        Cardinality(held) + Cardinality(Idle) - Cardinality(held \cap Idle)
  BY <1>2, FS_Union
<1>4. held \cap Idle = {}
  BY DEF Inv, LeaseExclusive
<1>5. Cardinality(held \cup Idle) = Cardinality(held) + Cardinality(Idle)
  <2>1. Cardinality(held \cap Idle) = 0
    BY <1>4, FS_EmptySet
  <2>2. Cardinality(held) \in Nat /\ Cardinality(Idle) \in Nat
    BY <1>2, FS_CardinalityType
  <2> QED BY <1>3, <2>1, <2>2
<1>6. Cardinality(Idle) <= Len(pool.clients)
  BY IdleCardinality
<1>7. /\ Cardinality(held) \in Nat /\ Cardinality(Idle) \in Nat
      /\ Len(pool.clients) \in Nat
  BY <1>2, FS_CardinalityType, IdleFacts DEF Inv, TypeOK
<1>8. Len(pool.clients) + Cardinality(held) <= MaxActive
  BY DEF Inv, ConnectionsBounded
<1>9. Cardinality(held \cup Idle) <= MaxActive
  BY <1>5, <1>6, <1>7, <1>8, MaxActiveAssumption
<1>10. ASSUME NEW S PROVE Lease!Cardinality(S) = Cardinality(S)
  BY DEF Lease!Cardinality, Cardinality
<1> QED BY <1>1, <1>9, <1>10 DEF Lease!WithinLimit

\* Each step of the pool is a step of the lease, or changes nothing there.
LEMMA LeaseStep ==
    Inv /\ Inv' /\ Lease!WithinLimit' /\ [Next]_vars
      => [Lease!Next]_<<{"caller"} \X held, Idle, open>>
<1> SUFFICES ASSUME Inv, Inv', Lease!WithinLimit', [Next]_vars
             PROVE  \/ Lease!Next
                    \/ ({"caller"} \X held)' = {"caller"} \X held /\ Idle' = Idle /\ open' = open
  OBVIOUS
<1> DEFINE loans == {"caller"} \X held
<1>1. Lease!Lent = held
  BY LentIsHeld
<1>2. Lease!WithinLimit'
  OBVIOUS
<1>3. Idle \cap held = {} /\ Idle' \cap held' = {} /\ IsInjective(pool.clients)
  BY DEF Inv, LeaseExclusive
<1>4. pool \in Pools /\ Idle \subseteq open
  BY DEF Inv, TypeOK, IdleUsable
<1>5. CASE GetReuse
  <2>1. /\ pool.clients # <<>> /\ pool' = Popped(pool)
        /\ held' = held \cup {Last(pool.clients)} /\ open' = open
    BY <1>5 DEF GetReuse, Reuses
  <2>2. Idle = Idle' \cup {Last(pool.clients)} /\ Last(pool.clients) \in Clients
    BY <1>4, <2>1, PoppedFacts, IdleFacts DEF Idle
  <2>3. loans' = loans \cup {<<"caller", Last(pool.clients)>>}
    BY <2>1
  <2>4. Idle' = Idle \ {Last(pool.clients)} /\ Idle \ Idle' = {Last(pool.clients)}
    BY <1>3, <2>1, <2>2
  <2>5. Lease!Lend("caller", Last(pool.clients))
    BY <1>1, <1>2, <1>3, <1>4, <2>1, <2>2, <2>3, <2>4 DEF Lease!Lend, Lease!Given
  <2> QED BY <2>2, <2>5 DEF Lease!Next
<1>6. CASE GetFull \/ GetConnectFails
  <2>1. /\ ~pool.closed /\ pool' = AfterMiss(pool) /\ held' = held
        /\ open' = open \ Discarded(pool)
    BY <1>6 DEF GetFull, GetConnectFails, Misses, CloseStale
  <2>2. Idle' \subseteq Idle /\ Idle \ Idle' = Discarded(pool)
    BY <1>3, <1>4, <2>1, MissFacts DEF Idle
  <2> QED BY <2>1, <2>2 DEF Lease!Next, Lease!GiveUp, Lease!Given
<1>7. CASE Close
  <2>1. pool' = Shut(pool) /\ held' = held /\ open' = open \ Idle
    BY <1>7 DEF Close
  <2>2. Idle' = {}
    BY <1>4, <2>1, ShutFacts, IdleFacts DEF Idle
  <2> QED BY <2>1, <2>2 DEF Lease!Next, Lease!GiveUp, Lease!Given
<1>8. ASSUME NEW c \in Clients, GetNew(c) PROVE Lease!Next
  <2>1. /\ ~pool.closed /\ pool' = Checkout(AfterMiss(pool))
        /\ held' = held \cup {c} /\ c \notin held /\ c \notin Idle /\ c \notin open
        /\ open' = (open \ Discarded(pool)) \cup {c}
    BY <1>8 DEF GetNew, Misses
  <2>2. /\ AfterMiss(pool) \in Pools /\ IdleOf(AfterMiss(pool)) \subseteq Idle
        /\ Idle \ IdleOf(AfterMiss(pool)) = Discarded(pool)
    BY <1>3, <1>4, <2>1, MissFacts DEF Idle
  <2>3. Idle' = IdleOf(AfterMiss(pool))
    BY <2>1, <2>2, CheckoutFacts DEF Idle, IdleOf
  <2>4. loans' = loans \cup {<<"caller", c>>}
    BY <2>1
  <2>5. Idle' \subseteq Idle \ {c} /\ open' = (open \ (Idle \ Idle')) \cup {c}
    BY <2>1, <2>2, <2>3
  <2>6. Lease!Lend("caller", c)
    BY <1>1, <1>2, <2>1, <2>4, <2>5 DEF Lease!Lend, Lease!Given
  <2> QED BY <2>6 DEF Lease!Next
<1>9. ASSUME NEW c \in Clients, Put(c) PROVE Lease!Next
  <2>1. c \in held /\ pool' = Returned(pool, c, open) /\ held' = held \ {c}
    BY <1>9 DEF Put
  <2>2. \/ c \in open /\ Idle' = Idle \cup {c} /\ open' = open
        \/ Idle' = Idle /\ open' = open \ {c}
    <3>1. CASE Keeps(pool, c, open)
      <4>1. open' = open
        BY <1>9, <3>1 DEF Put
      <4> QED BY <1>3, <1>4, <2>1, <3>1, <4>1, ReturnedFacts DEF Idle
    <3>2. CASE ~Keeps(pool, c, open)
      <4>1. pool'.clients = pool.clients /\ open' = open \ {c}
        BY <1>4, <1>9, <2>1, <3>2, ReturnedFacts DEF Put
      <4> QED BY <4>1 DEF Idle, IdleOf
    <3> QED BY <3>1, <3>2
  <2>3. loans' = loans \ {<<"caller", c>>} /\ <<"caller", c>> \in loans
    BY <2>1
  <2>4. Lease!TakeBack("caller", c)
    BY <1>2, <2>2, <2>3 DEF Lease!TakeBack
  <2> QED BY <2>4 DEF Lease!Next
<1>10. ASSUME NEW c \in Clients, CloseClient(c) PROVE Lease!Next
  <2>1. /\ <<"caller", c>> \in loans /\ loans' = loans /\ Idle' = Idle
        /\ open' = open \ {c}
    BY <1>10 DEF CloseClient, Idle
  <2> QED BY <2>1 DEF Lease!Next, Lease!Close
<1>11. ASSUME NEW c \in Clients, Dial(c) \/ Expire(c)
       PROVE  loans' = loans /\ Idle' = Idle /\ open' = open
  BY <1>11 DEF Dial, Expire, Idle
<1>12. CASE UNCHANGED vars
  BY <1>12 DEF vars, Idle
<1> QED BY <1>5, <1>6, <1>7, <1>8, <1>9, <1>10, <1>11, <1>12 DEF Next

\* A pool with its callers implements the abstract lease with the limit max_active:
\* it lends only spares and new clients, keeps only open ones, and closes the rest.
THEOREM PoolImplementsLease == Spec => ImplementsLease
<1>1. Init => Lease!Init
  <2> SUFFICES ASSUME Init PROVE Lease!Init
    OBVIOUS
  <2>1. held = {} /\ open = {} /\ pool \in Pools /\ pool.clients = <<>>
    BY InitInv DEF Init, Inv, TypeOK, NewPool
  <2>2. Idle = {}
    BY <2>1, IdleFacts DEF Idle
  <2> QED BY <2>1, <2>2 DEF Lease!Init
<1> QED BY <1>1, AlwaysInv, WithinMaxActive, LeaseStep, PTL DEF ImplementsLease, Lease!Spec, Spec

----------------------------------------------------------------------------
(* The sockets behind the clients *)

InUse(r) == At(r, "relay") \/ At(r, "exchange")

\* Two requests share neither a client nor a socket, and a request has a client
\* from its Get to its release, open at least until its dial has ended.
RequestsApart ==
    /\ \A q, r \in Requests : req[q].client = req[r].client /\ q # r => req[r].client = NoClient
    /\ \A q, r \in Requests : req[q].sock = req[r].sock /\ q # r => req[r].sock = NoSocket
    /\ \A r \in Requests : At(r, "idle") \/ At(r, "leave") <=> req[r].client = NoClient
    /\ \A r \in Requests : At(r, "ready") \/ At(r, "dialing") => req[r].client \in open

\* The open client that refers to a socket in use is that of the request.
ConnsOwn ==
    \A r \in Requests : InUse(r) =>
        \A c \in open : conn[c] = req[r].sock => c = req[r].client

\* A closed client that something still has refers to no socket, or to one that
\* a transport keeps.
ClosedConnsGone == \A c \in Reachable \ open : conn[c] \notin live \ parked

SockInv ==
    /\ Inv
    /\ SocketsTypeOK
    /\ RequestsApart
    /\ RequestKeepsSocket
    /\ ConnsOwn
    /\ ClosedConnsGone

\* What the operations of the pool do to the places of clients.
LEMMA PlacesFacts ==
    ASSUME Inv
    PROVE  /\ GetReuse => LET c == Last(pool.clients)
                          IN  /\ c \in Idle /\ c \in open /\ c \notin held
                              /\ Idle' = Idle \ {c} /\ held' = held \cup {c} /\ open' = open
           /\ Discarded(pool) \subseteq Idle
           /\ GetFull \/ GetConnectFails => /\ Idle' = Idle \ Discarded(pool)
                                            /\ held' = held /\ open' = open \ Discarded(pool)
           /\ \A c \in Clients : GetNew(c) =>
                /\ Idle' = Idle \ Discarded(pool) /\ held' = held \cup {c}
                /\ open' = (open \ Discarded(pool)) \cup {c}
           /\ \A c \in Clients : Put(c) =>
                /\ held' = held \ {c}
                /\ Keeps(pool, c, open) => c \in open /\ Idle' = Idle \cup {c} /\ open' = open
                /\ ~Keeps(pool, c, open) => Idle' = Idle /\ open' = open \ {c}
           /\ Close => Idle' = {} /\ held' = held /\ open' = open \ Idle
<1>1. /\ pool \in Pools /\ IsInjective(pool.clients) /\ Idle \subseteq open /\ Idle \cap held = {}
  BY DEF Inv, TypeOK, LeaseExclusive, IdleUsable
<1>2. /\ Idle = IdleOf(AfterMiss(pool)) \cup Discarded(pool)
      /\ IdleOf(AfterMiss(pool)) \cap Discarded(pool) = {}
      /\ AfterMiss(pool) \in Pools
  BY <1>1, MissFacts DEF Idle
<1>3. IdleOf(AfterMiss(pool)) = Idle \ Discarded(pool)
  BY <1>2
<1>4. GetReuse => LET c == Last(pool.clients)
                  IN  /\ c \in Idle /\ c \in open /\ c \notin held
                      /\ Idle' = Idle \ {c} /\ held' = held \cup {c} /\ open' = open
  <2> SUFFICES ASSUME GetReuse
               PROVE  LET c == Last(pool.clients)
                      IN  /\ c \in Idle /\ c \in open /\ c \notin held
                          /\ Idle' = Idle \ {c} /\ held' = held \cup {c} /\ open' = open
    OBVIOUS
  <2>1. pool.clients # <<>> /\ pool' = Popped(pool) /\ open' = open
        /\ held' = held \cup {Last(pool.clients)}
    BY DEF GetReuse, Reuses
  <2>2. Idle = Idle' \cup {Last(pool.clients)} /\ Last(pool.clients) \notin Idle'
    BY <1>1, <2>1, PoppedFacts DEF Idle
  <2> QED BY <1>1, <2>1, <2>2
<1>5. GetFull \/ GetConnectFails => /\ Idle' = Idle \ Discarded(pool)
                                    /\ held' = held /\ open' = open \ Discarded(pool)
  BY <1>3 DEF GetFull, GetConnectFails, CloseStale, Idle
<1>6. \A c \in Clients : GetNew(c) =>
        /\ Idle' = Idle \ Discarded(pool) /\ held' = held \cup {c}
        /\ open' = (open \ Discarded(pool)) \cup {c}
  <2>1. IdleOf(Checkout(AfterMiss(pool))) = IdleOf(AfterMiss(pool))
    BY <1>2, CheckoutFacts DEF IdleOf
  <2> QED BY <1>3, <2>1 DEF GetNew, Idle
<1>7. ASSUME NEW c \in Clients, Put(c)
      PROVE  /\ held' = held \ {c}
             /\ Keeps(pool, c, open) => c \in open /\ Idle' = Idle \cup {c} /\ open' = open
             /\ ~Keeps(pool, c, open) => Idle' = Idle /\ open' = open \ {c}
  <2>1. pool' = Returned(pool, c, open) /\ held' = held \ {c}
    BY <1>7 DEF Put
  <2>2. CASE Keeps(pool, c, open)
    BY <1>1, <1>7, <2>1, <2>2, ReturnedFacts DEF Put, Idle
  <2>3. CASE ~Keeps(pool, c, open)
    <3>1. pool'.clients = pool.clients
      BY <1>1, <2>1, <2>3, ReturnedFacts
    <3> QED BY <1>7, <2>1, <2>3, <3>1 DEF Put, Idle, IdleOf
  <2> QED BY <2>2, <2>3
<1>8. Close => Idle' = {} /\ held' = held /\ open' = open \ Idle
  <2> SUFFICES ASSUME Close PROVE Idle' = {} /\ held' = held /\ open' = open \ Idle
    OBVIOUS
  <2>1. Shut(pool) \in Pools /\ Shut(pool).clients = <<>>
    BY <1>1, ShutFacts
  <2>2. IdleOf(Shut(pool)) = {}
    BY <2>1, IdleFacts
  <2> QED BY <2>2 DEF Close, Idle
<1> QED BY <1>2, <1>4, <1>5, <1>6, <1>7, <1>8

\* Every step of a request, of a dial nobody waits for, or of a socket is one of the
\* pool, or leaves the pool alone.
LEMMA ClientStepsPool == SockInv /\ [ClientNext]_<<vars, sockVars>> => [Next]_vars
<1> SUFFICES ASSUME SockInv, [ClientNext]_<<vars, sockVars>> PROVE Next \/ UNCHANGED vars
  OBVIOUS
<1>1. open \subseteq Clients /\ held \subseteq Clients
  BY DEF SockInv, Inv, TypeOK
<1>2. ASSUME NEW c, NEW s, Stored(c, s) PROVE Next \/ UNCHANGED vars
  BY <1>1, <1>2 DEF Stored, Next
<1>3. ASSUME NEW r \in Requests, RequestStep(r) PROVE Next \/ UNCHANGED vars
  <2>1. CASE TunnelFails(r) \/ Release(r)
    BY <1>1, <2>1 DEF TunnelFails, Release, CloseClient, Put, Next
  <2>2. ASSUME NEW s \in Sockets, DialSucceeds(r, s) PROVE Next \/ UNCHANGED vars
    BY <1>2, <2>2 DEF DialSucceeds
  <2>3. CASE \/ BeginDial(r) \/ ForwardDialFails(r) \/ Abandon(r) \/ ExchangeEnds(r)
             \/ TunnelEnds(r) \/ Leave(r)
    BY <2>3 DEF BeginDial, ForwardDialFails, Abandon, ExchangeEnds, TunnelEnds, Leave
  <2> QED BY <1>3, <2>1, <2>2, <2>3 DEF RequestStep
<1>4. ASSUME NEW r \in Requests,
             \/ Reuse(r) \/ LateDialFails(r)
             \/ \E s \in Sockets : LateDialSucceeds(r, s) \/ \E c \in Clients : Connect(r, c, s)
      PROVE  Next \/ UNCHANGED vars
  BY <1>2, <1>4 DEF Reuse, LateDialFails, LateDialSucceeds, Connect, Next
<1>5. CASE Refused \/ ClosePool \/ GrowStale \/ \E s \in Sockets : PeerCloses(s) \/ Collected(s)
  BY <1>5 DEF Refused, ClosePool, GrowStale, PeerCloses, Collected, Next
<1>6. CASE UNCHANGED <<vars, sockVars>>
  BY <1>6
<1> QED BY <1>3, <1>4, <1>5, <1>6 DEF ClientNext

RequestStates ==
    [pc : {"idle", "ready", "dialing", "relay", "exchange", "release", "leave"},
     connect : BOOLEAN,
     client : Clients \cup {NoClient},
     sock : Sockets \cup {NoSocket}]

\* One request moves on, and the others have what they had.
LEMMA RequestMoves ==
    ASSUME SockInv, NEW r \in Requests, NEW state \in RequestStates, Becomes(r, state),
           state.pc \in {"idle", "leave"} <=> state.client = NoClient,
           held' = (held \ {req[r].client}) \cup ({state.client} \ {NoClient}),
           state.client \notin held \ {req[r].client},
           \/ state.sock \in {NoSocket, req[r].sock}
           \/ \A q \in Requests : req[q].sock # state.sock,
           state.pc \in {"ready", "dialing"} => state.client \in open',
           \A q \in Requests \ {r} : At(q, "ready") \/ At(q, "dialing") => req[q].client \in open',
           live' \subseteq Sockets, parked' \subseteq live',
           conn' \in [Clients -> Sockets \cup {NoSocket}],
           late' \in [Requests -> Clients \cup {NoClient}]
    PROVE  /\ SocketsTypeOK' /\ RequestsApart'
           /\ req'[r] = state /\ \A q \in Requests \ {r} : req'[q] = req[q]
<1>1. /\ req \in [Requests -> RequestStates] /\ held = {req[q].client : q \in Requests} \ {NoClient}
      /\ NoClient \notin Clients /\ NoSocket \notin Sockets
  BY TrojanClientAssumption DEF SockInv, SocketsTypeOK, RequestStates
<1>2. /\ req' \in [Requests -> RequestStates] /\ req'[r] = state
      /\ \A q \in Requests \ {r} : req'[q] = req[q]
  BY <1>1 DEF Becomes
<1>3. \A q \in Requests : req[q].client # NoClient => req[q].client \in held
  BY <1>1
<1>4. \A q \in Requests \ {r} : req[q].client = req[r].client => req[r].client = NoClient
  BY DEF SockInv, RequestsApart
<1>5. held' = {req'[q].client : q \in Requests} \ {NoClient}
  <2>1. ASSUME NEW c \in held' PROVE c # NoClient /\ \E q \in Requests : req'[q].client = c
    BY <1>1, <1>2, <2>1
  <2>2. ASSUME NEW q \in Requests, req'[q].client # NoClient PROVE req'[q].client \in held'
    BY <1>2, <1>3, <1>4, <2>2
  <2> QED BY <2>1, <2>2
<1>6. SocketsTypeOK'
  BY <1>2, <1>5 DEF SocketsTypeOK, RequestStates
<1>7. \A q \in Requests \ {r} : req[q].client = state.client => state.client = NoClient
  BY <1>3, <1>4
<1>8. \A q \in Requests \ {r} : req[q].sock = state.sock => state.sock = NoSocket
  BY DEF SockInv, RequestsApart
<1>9. RequestsApart'
  BY <1>2, <1>7, <1>8 DEF SockInv, RequestsApart, At
<1> QED BY <1>2, <1>6, <1>9

\* No request moves.
LEMMA RequestsRest ==
    ASSUME SockInv, UNCHANGED <<req, held>>,
           \A q \in Requests : At(q, "ready") \/ At(q, "dialing") => req[q].client \in open',
           live' \subseteq Sockets, parked' \subseteq live',
           conn' \in [Clients -> Sockets \cup {NoSocket}],
           late' \in [Requests -> Clients \cup {NoClient}]
    PROVE  SocketsTypeOK' /\ RequestsApart'
BY DEF SockInv, SocketsTypeOK, RequestsApart, At

\* Sockets are closed or parked, and clients are closed with theirs, but no socket
\* in use is among them.
LEMMA FewerSockets ==
    ASSUME SockInv, live' \ parked' \subseteq live \ parked, conn' = conn,
           Reachable' \subseteq Reachable, open' \subseteq open,
           \A c \in open \ open' : conn[c] \notin live' \ parked',
           \A q \in Requests : InUse(q)' => /\ InUse(q) /\ req[q].sock \in live' \ parked'
                                            /\ req'[q].sock = req[q].sock
                                            /\ req'[q].client = req[q].client
    PROVE  RequestKeepsSocket' /\ ConnsOwn' /\ ClosedConnsGone'
<1>1. RequestKeepsSocket'
  BY DEF RequestKeepsSocket, InUse
<1>2. ConnsOwn'
  BY DEF SockInv, ConnsOwn
<1>3. ClosedConnsGone'
  BY DEF SockInv, ClosedConnsGone
<1> QED BY <1>1, <1>2, <1>3

\* A new socket s becomes the connection of client c, in use by its request alone.
LEMMA OneMoreSocket ==
    ASSUME SockInv, NEW c \in Clients, NEW s, NewSocket(s), conn' = [conn EXCEPT ![c] = s],
           live' \ parked' \subseteq (live \ parked) \cup {s}, c \in open' \/ s \in parked',
           Reachable' \subseteq Reachable \cup {c}, open' \subseteq open \cup {c},
           \A d \in open \ open' : conn[d] \notin live' \ parked',
           \A q \in Requests : InUse(q)' =>
                /\ req'[q].sock \in live' \ parked'
                /\ \/ /\ InUse(q) /\ req'[q].sock = req[q].sock /\ req'[q].client = req[q].client
                   \/ req'[q].sock = s /\ req'[q].client = c
    PROVE  RequestKeepsSocket' /\ ConnsOwn' /\ ClosedConnsGone'
<1>1. /\ conn'[c] = s /\ \A d \in Clients \ {c} : conn'[d] = conn[d]
      /\ open \subseteq Clients /\ Reachable \subseteq Clients
  BY DEF SockInv, SocketsTypeOK, Inv, TypeOK, Reachable, Idle, IdleUsable
<1>2. open \subseteq Reachable
  BY TrojanClientAssumption DEF SockInv, Inv, TypeOK, NoOrphan, Reachable
<1>3. /\ \A d \in Reachable : conn[d] # s
      /\ \A q \in Requests : req[q].sock # s
  BY DEF NewSocket, Referenced
<1>4. RequestKeepsSocket'
  BY DEF RequestKeepsSocket, InUse
<1>5. ConnsOwn'
  <2> SUFFICES ASSUME NEW q \in Requests, InUse(q)', NEW d \in open', conn'[d] = req'[q].sock
               PROVE  d = req'[q].client
    BY DEF ConnsOwn
  <2>1. CASE d = c
    BY <1>1, <1>3, <2>1
  <2>2. CASE d # c
    <3>1. d \in open /\ d \in Reachable /\ conn'[d] = conn[d] /\ conn[d] # s
      BY <1>1, <1>2, <1>3, <2>2
    <3> QED BY <3>1 DEF SockInv, ConnsOwn
  <2> QED BY <2>1, <2>2
<1>6. ClosedConnsGone'
  <2> SUFFICES ASSUME NEW d \in Reachable' \ open' PROVE conn'[d] \notin live' \ parked'
    BY DEF ClosedConnsGone
  <2>1. CASE d = c
    BY <1>1, <2>1
  <2>2. CASE d # c
    <3>1. d \in Reachable /\ conn'[d] = conn[d] /\ conn[d] # s
      BY <1>1, <1>3, <2>2
    <3> QED BY <3>1 DEF SockInv, ClosedConnsGone
  <2> QED BY <2>1, <2>2
<1> QED BY <1>4, <1>5, <1>6

\* Closing clients that are not those of requests in use leaves their sockets open.
LEMMA ClosingSpares ==
    ASSUME SockInv, NEW S, \A q \in Requests : InUse(q) => req[q].client \notin S
    PROVE  \A q \in Requests : InUse(q) => req[q].sock \in (live \ ConnsOf(S)) \ parked
BY DEF SockInv, ConnsOwn, ConnsOf, RequestKeepsSocket, InUse

\* What the invariant says of one request.
LEMMA RequestFacts ==
    ASSUME SockInv, NEW r \in Requests
    PROVE  /\ req[r] \in RequestStates
           /\ req[r].client \in Clients => req[r].client \in held
           /\ At(r, "idle") \/ At(r, "leave") <=> req[r].client = NoClient
           /\ At(r, "ready") \/ At(r, "dialing") => req[r].client \in open
           /\ NoClient \notin held /\ NoClient \notin Clients
           /\ InUse(r) => req[r].client \in held
           /\ \A q \in Requests \ {r} :
                /\ req[q].client = req[r].client => req[r].client = NoClient
                /\ req[q].sock = req[r].sock => req[r].sock = NoSocket
<1>1. /\ req \in [Requests -> RequestStates] /\ held = {req[q].client : q \in Requests} \ {NoClient}
      /\ NoClient \notin Clients /\ RequestsApart
  BY TrojanClientAssumption DEF SockInv, SocketsTypeOK, RequestStates
<1>2. req[r] \in RequestStates /\ NoClient \notin held
  BY <1>1
<1>3. req[r].client # NoClient => req[r].client \in held
  BY <1>1
<1>4. InUse(r) => req[r].client \in held
  BY <1>1, <1>3 DEF RequestsApart, InUse, At
<1> QED BY <1>1, <1>2, <1>3, <1>4 DEF RequestsApart

\* The types that a step which leaves them alone keeps.
LEMMA SocketTypes ==
    ASSUME SockInv
    PROVE  /\ live \subseteq Sockets /\ parked \subseteq live
           /\ conn \in [Clients -> Sockets \cup {NoSocket}]
           /\ late \in [Requests -> Clients \cup {NoClient}]
           /\ Idle \cap held = {} /\ Idle \subseteq open /\ open \subseteq held \cup Idle
           /\ open \subseteq Clients /\ held \subseteq Clients
BY DEF SockInv, SocketsTypeOK, Inv, TypeOK, LeaseExclusive, IdleUsable, NoOrphan

\* A request moves on with the client and the socket it has, and no client is closed.
LEMMA QuietStepInv ==
    ASSUME SockInv, Inv', NEW r \in Requests,
           BeginDial(r) \/ ForwardDialFails(r) \/ Abandon(r) \/ TunnelEnds(r)
    PROVE  SockInv'
<1>1. PICK pc \in {"dialing", "release"} :
        /\ Becomes(r, [req[r] EXCEPT !.pc = pc])
        /\ pc = "dialing" => At(r, "ready")
        /\ At(r, "ready") \/ At(r, "dialing") \/ At(r, "relay")
  BY DEF BeginDial, ForwardDialFails, Abandon, TunnelEnds, ToRelease
<1>2. /\ UNCHANGED <<pool, held, open, stale, live, conn, parked>>
      /\ late' \in [Requests -> Clients \cup {NoClient}]
      /\ Reachable' \subseteq Reachable
  <2>1. UNCHANGED <<pool, held, open, stale, live, conn, parked>>
    BY DEF BeginDial, ForwardDialFails, Abandon, TunnelEnds, vars
  <2>2. late' = late \/ late' = [late EXCEPT ![r] = req[r].client]
    BY DEF BeginDial, ForwardDialFails, Abandon, TunnelEnds
  <2>3. req[r].client \in held
    BY <1>1, RequestFacts DEF RequestStates, At
  <2>4. late' \in [Requests -> Clients \cup {NoClient}]
    BY <2>2, <2>3, SocketTypes
  <2>5. Reachable' \subseteq Reachable
    BY <2>1, <2>2, <2>3, SocketTypes DEF Reachable, Idle
  <2> QED BY <2>1, <2>4, <2>5
<1> DEFINE state == [req[r] EXCEPT !.pc = pc]
<1>3. /\ state \in RequestStates /\ state.pc = pc /\ state.client = req[r].client
      /\ state.sock = req[r].sock /\ req[r].client \in held
  BY <1>1, RequestFacts DEF RequestStates, At
<1> HIDE DEF state
<1>4. /\ SocketsTypeOK' /\ RequestsApart'
      /\ req'[r] = state /\ \A q \in Requests \ {r} : req'[q] = req[q]
  <2>1. state.client # NoClient /\ held' = (held \ {req[r].client}) \cup ({state.client} \ {NoClient})
    BY <1>2, <1>3, RequestFacts
  <2>2. \A q \in Requests : At(q, "ready") \/ At(q, "dialing") => req[q].client \in open'
    BY <1>2, RequestFacts
  <2>3. Becomes(r, state)
    BY <1>1 DEF state
  <2> QED BY <1>1, <1>2, <1>3, <2>1, <2>2, <2>3, SocketTypes, RequestMoves
<1>5. \A q \in Requests : InUse(q)' => InUse(q) /\ req'[q] = req[q]
  BY <1>3, <1>4 DEF InUse, At
<1>6. RequestKeepsSocket' /\ ConnsOwn' /\ ClosedConnsGone'
  BY <1>2, <1>5, FewerSockets DEF SockInv, RequestKeepsSocket, InUse
<1> QED BY <1>4, <1>6 DEF SockInv

\* A request takes an idle client.
LEMMA ReuseInv == ASSUME SockInv, Inv', NEW r \in Requests, Reuse(r) PROVE SockInv'
<1> DEFINE c == Last(pool.clients)
<1>1. /\ c \in Idle /\ c \in open /\ c \notin held
      /\ Idle' = Idle \ {c} /\ held' = held \cup {c} /\ open' = open
  BY PlacesFacts DEF SockInv, Reuse
<1>2. PICK connect \in BOOLEAN :
        Becomes(r, [NoRequest EXCEPT !.pc = "ready", !.connect = connect, !.client = c])
  BY DEF Reuse, Leased
<1>3. At(r, "idle") /\ UNCHANGED <<live, conn, parked, late>>
  BY DEF Reuse
<1> DEFINE state == [NoRequest EXCEPT !.pc = "ready", !.connect = connect, !.client = c]
<1>4. /\ state \in RequestStates /\ state.pc = "ready" /\ state.client = c
      /\ state.sock = NoSocket
  BY <1>1, SocketTypes DEF RequestStates, NoRequest
<1>5. Becomes(r, state)
  BY <1>2
<1> HIDE DEF state, c
<1>6. /\ SocketsTypeOK' /\ RequestsApart'
      /\ req'[r] = state /\ \A q \in Requests \ {r} : req'[q] = req[q]
  <2>1. req[r].client = NoClient /\ c # NoClient /\ NoClient \notin held
    BY <1>1, <1>3, RequestFacts, SocketTypes
  <2>2. held' = (held \ {req[r].client}) \cup ({state.client} \ {NoClient})
    BY <1>1, <1>4, <2>1
  <2>3. \A q \in Requests : At(q, "ready") \/ At(q, "dialing") => req[q].client \in open'
    BY <1>1, RequestFacts
  <2> QED BY <1>1, <1>3, <1>4, <1>5, <2>1, <2>2, <2>3, SocketTypes, RequestMoves
<1>7. \A q \in Requests : InUse(q)' => InUse(q) /\ req'[q] = req[q]
  BY <1>4, <1>6 DEF InUse, At
<1>8. Reachable' \subseteq Reachable
  BY <1>1, <1>3 DEF Reachable
<1>9. RequestKeepsSocket' /\ ConnsOwn' /\ ClosedConnsGone'
  BY <1>1, <1>3, <1>7, <1>8, FewerSockets DEF SockInv, RequestKeepsSocket, InUse
<1> QED BY <1>6, <1>9 DEF SockInv

\* A request gets a new client, with a new socket.
LEMMA ConnectInv ==
    ASSUME SockInv, Inv', NEW r \in Requests, NEW c \in Clients, NEW s \in Sockets, Connect(r, c, s)
    PROVE  SockInv'
<1> DEFINE d == Discarded(pool)
<1>1. /\ d \subseteq Idle /\ Idle' = Idle \ d /\ held' = held \cup {c}
      /\ open' = (open \ d) \cup {c}
  BY PlacesFacts DEF SockInv, Connect
<1>2. /\ At(r, "idle") /\ c \notin Reachable /\ NewSocket(s)
      /\ live' = (live \ ConnsOf(d)) \cup {s} /\ parked' = parked \ ConnsOf(d)
      /\ conn' = [conn EXCEPT ![c] = s] /\ late' = late
  BY DEF Connect
<1>3. PICK connect \in BOOLEAN :
        Becomes(r, [NoRequest EXCEPT !.pc = "ready", !.connect = connect, !.client = c])
  BY DEF Connect, Leased
<1> DEFINE state == [NoRequest EXCEPT !.pc = "ready", !.connect = connect, !.client = c]
<1>4. /\ state \in RequestStates /\ state.pc = "ready" /\ state.client = c
      /\ state.sock = NoSocket /\ Becomes(r, state)
  BY <1>3 DEF RequestStates, NoRequest
<1> HIDE DEF state, d
<1>5. c \notin held /\ c # NoClient /\ req[r].client = NoClient
  BY <1>2, RequestFacts DEF Reachable
<1>6. /\ live' \subseteq Sockets /\ parked' \subseteq live'
      /\ conn' \in [Clients -> Sockets \cup {NoSocket}] /\ late' = late
  BY <1>2, SocketTypes
<1>7. /\ SocketsTypeOK' /\ RequestsApart'
      /\ req'[r] = state /\ \A q \in Requests \ {r} : req'[q] = req[q]
  <2>1. held' = (held \ {req[r].client}) \cup ({state.client} \ {NoClient})
    BY <1>1, <1>4, <1>5, RequestFacts
  <2>2. \A q \in Requests : At(q, "ready") \/ At(q, "dialing") => req[q].client \in open'
    <3>1. ASSUME NEW q \in Requests, At(q, "ready") \/ At(q, "dialing")
          PROVE  req[q].client \in open /\ req[q].client \in held
      BY <3>1, RequestFacts, SocketTypes
    <3> QED BY <1>1, <3>1, SocketTypes
  <2> QED BY <1>1, <1>4, <1>5, <1>6, <2>1, <2>2, SocketTypes, RequestMoves
<1>8. \A q \in Requests : InUse(q)' => InUse(q) /\ req'[q] = req[q]
  BY <1>4, <1>7 DEF InUse, At
<1>9. \A q \in Requests : InUse(q) => req[q].sock \in live' \ parked'
  <2>1. \A q \in Requests : InUse(q) => req[q].client \notin d
    BY <1>1, RequestFacts, SocketTypes
  <2>2. \A q \in Requests : InUse(q) => req[q].sock \in (live \ ConnsOf(d)) \ parked
    BY <2>1, ClosingSpares
  <2> QED BY <1>2, <2>2
<1>10. \A e \in open \ open' : conn[e] \notin live' \ parked'
  <2> SUFFICES ASSUME NEW e \in open \ open' PROVE conn[e] \notin live'
    OBVIOUS
  <2>1. e \in d /\ conn[e] \in ConnsOf(d)
    BY <1>1 DEF ConnsOf
  <2>2. e \in Reachable
    BY <1>1, <2>1, SocketTypes, TrojanClientAssumption DEF Reachable
  <2>3. conn[e] # s
    BY <1>2, <2>2 DEF NewSocket, Referenced
  <2> QED BY <1>2, <2>1, <2>3
<1>11. live' \ parked' \subseteq (live \ parked) \cup {s} /\ c \in open'
       /\ Reachable' \subseteq Reachable \cup {c} /\ open' \subseteq open \cup {c}
  BY <1>1, <1>2 DEF Reachable
<1>12. RequestKeepsSocket' /\ ConnsOwn' /\ ClosedConnsGone'
  BY <1>2, <1>8, <1>9, <1>10, <1>11, OneMoreSocket
<1> QED BY <1>7, <1>12 DEF SockInv

\* A dial brings a socket: to the request that waits for it, in use at once ...
LEMMA DialSucceedsInv ==
    ASSUME SockInv, Inv', NEW r \in Requests, NEW s \in Sockets, DialSucceeds(r, s)
    PROVE  SockInv'
<1> DEFINE c == req[r].client
<1>1. /\ At(r, "dialing") /\ NewSocket(s) /\ live' = live \cup {s}
      /\ conn' = [conn EXCEPT ![c] = s] /\ UNCHANGED <<parked, late>>
      /\ UNCHANGED <<pool, held, open>>
  BY DEF DialSucceeds, Stored, Dial, vars
<1>2. c \in held /\ c \in open /\ c \in Clients /\ c # NoClient
  BY <1>1, RequestFacts, SocketTypes
<1>3. PICK pc \in {"relay", "exchange"} : Becomes(r, [req[r] EXCEPT !.pc = pc, !.sock = s])
  BY DEF DialSucceeds
<1> DEFINE state == [req[r] EXCEPT !.pc = pc, !.sock = s]
<1>4. /\ state \in RequestStates /\ state.pc = pc /\ state.client = c
      /\ state.sock = s /\ Becomes(r, state)
  BY <1>3, RequestFacts DEF RequestStates
<1> HIDE DEF state
<1>5. \A q \in Requests : req[q].sock # s
  BY <1>1 DEF NewSocket, Referenced
<1>6. /\ live' \subseteq Sockets /\ parked' \subseteq live'
      /\ conn' \in [Clients -> Sockets \cup {NoSocket}] /\ late' = late
  BY <1>1, SocketTypes
<1>7. /\ SocketsTypeOK' /\ RequestsApart'
      /\ req'[r] = state /\ \A q \in Requests \ {r} : req'[q] = req[q]
  <2>1. held' = (held \ {c}) \cup ({state.client} \ {NoClient})
    BY <1>1, <1>2, <1>4
  <2>2. \A q \in Requests : At(q, "ready") \/ At(q, "dialing") => req[q].client \in open'
    BY <1>1, RequestFacts
  <2> QED BY <1>1, <1>2, <1>4, <1>5, <1>6, <2>1, <2>2, SocketTypes, RequestMoves
<1>8. s \notin parked /\ \A q \in Requests : InUse(q) => req[q].sock \in live \ parked
  BY <1>1 DEF NewSocket, Referenced, SockInv, RequestKeepsSocket, InUse
<1>9. \A q \in Requests : InUse(q)' =>
        /\ req'[q].sock \in live' \ parked'
        /\ \/ /\ InUse(q) /\ req'[q].sock = req[q].sock /\ req'[q].client = req[q].client
           \/ req'[q].sock = s /\ req'[q].client = c
  <2> SUFFICES ASSUME NEW q \in Requests, InUse(q)'
               PROVE  /\ req'[q].sock \in live' \ parked'
                      /\ \/ /\ InUse(q) /\ req'[q].sock = req[q].sock
                            /\ req'[q].client = req[q].client
                         \/ req'[q].sock = s /\ req'[q].client = c
    OBVIOUS
  <2>1. CASE q = r
    BY <1>1, <1>4, <1>7, <1>8, <2>1
  <2>2. CASE q # r
    BY <1>1, <1>7, <1>8, <2>2 DEF InUse, At
  <2> QED BY <2>1, <2>2
<1>10. Reachable' = Reachable
  BY <1>1 DEF Reachable, Idle
<1> HIDE DEF c
<1>11. RequestKeepsSocket' /\ ConnsOwn' /\ ClosedConnsGone'
  BY <1>1, <1>2, <1>9, <1>10, OneMoreSocket
<1> QED BY <1>7, <1>11 DEF SockInv

\* ... or to a transport that keeps it, while another request may use the client.
LEMMA LateDialInv ==
    ASSUME SockInv, Inv', NEW r \in Requests,
           LateDialFails(r) \/ \E s \in Sockets : LateDialSucceeds(r, s)
    PROVE  SockInv'
<1>1. late[r] \in Clients /\ UNCHANGED <<pool, held, open, req>>
      /\ late' = [late EXCEPT ![r] = NoClient]
  BY SocketTypes DEF LateDialFails, LateDialSucceeds, Stored, Dial, vars
<1>2. late' \in [Requests -> Clients \cup {NoClient}] /\ Reachable' \subseteq Reachable
  <2>1. late' \in [Requests -> Clients \cup {NoClient}]
        /\ \A q \in Requests : late'[q] \in {late[q], NoClient}
    BY <1>1, SocketTypes
  <2> QED BY <1>1, <2>1 DEF Reachable, Idle
<1>3. \A q \in Requests : /\ InUse(q)' => InUse(q)
                          /\ At(q, "ready") \/ At(q, "dialing") => req[q].client \in open'
  BY <1>1, RequestFacts DEF InUse, At
<1>4. \A q \in Requests : InUse(q) => req[q].sock \in live \ parked
  BY DEF SockInv, RequestKeepsSocket, InUse
<1>5. CASE LateDialFails(r)
  <2>1. UNCHANGED <<live, conn, parked>>
    BY <1>5 DEF LateDialFails
  <2>2. SocketsTypeOK' /\ RequestsApart'
    BY <1>1, <1>2, <1>3, <2>1, SocketTypes, RequestsRest
  <2>3. RequestKeepsSocket' /\ ConnsOwn' /\ ClosedConnsGone'
    BY <1>1, <1>2, <1>3, <1>4, <2>1, FewerSockets
  <2> QED BY <2>2, <2>3 DEF SockInv
<1>6. ASSUME NEW s \in Sockets, LateDialSucceeds(r, s) PROVE SockInv'
  <2>1. /\ NewSocket(s) /\ conn' = [conn EXCEPT ![late[r]] = s]
        /\ live' = live \cup {s} /\ parked' = parked \cup {s}
    BY <1>6 DEF LateDialSucceeds, Stored
  <2>2. /\ live' \subseteq Sockets /\ parked' \subseteq live'
        /\ conn' \in [Clients -> Sockets \cup {NoSocket}]
    BY <2>1, SocketTypes
  <2>3. SocketsTypeOK' /\ RequestsApart'
    BY <1>1, <1>2, <1>3, <2>2, RequestsRest
  <2>4. \A q \in Requests : InUse(q) => req[q].sock \in live' \ parked'
    BY <1>4, <2>1 DEF NewSocket
  <2>5. RequestKeepsSocket' /\ ConnsOwn' /\ ClosedConnsGone'
    BY <1>1, <1>2, <1>3, <2>1, <2>4, OneMoreSocket
  <2> QED BY <2>3, <2>5 DEF SockInv
<1> QED BY <1>5, <1>6

\* Clients that no request uses are closed, with their sockets.
LEMMA ClosingConns ==
    ASSUME SockInv, NEW S, CloseConns(S), conn' = conn, open' = open \ S,
           Reachable' \subseteq Reachable,
           \A q \in Requests : InUse(q) => req[q].client \notin S,
           \A q \in Requests : InUse(q)' => /\ InUse(q) /\ req'[q].sock = req[q].sock
                                            /\ req'[q].client = req[q].client
    PROVE  /\ RequestKeepsSocket' /\ ConnsOwn' /\ ClosedConnsGone'
           /\ live' \subseteq Sockets /\ parked' \subseteq live'
<1>1. live' = live \ ConnsOf(S) /\ parked' = parked \ ConnsOf(S)
  BY DEF CloseConns
<1>2. live' \subseteq Sockets /\ parked' \subseteq live'
  BY <1>1, SocketTypes
<1>3. \A q \in Requests : InUse(q) => req[q].sock \in live' \ parked'
  <2>1. \A q \in Requests : InUse(q) => req[q].sock \in (live \ ConnsOf(S)) \ parked
    BY ClosingSpares
  <2> QED BY <1>1, <2>1
<1>4. \A c \in open \ open' : conn[c] \notin live' \ parked'
  BY <1>1 DEF ConnsOf
<1>5. live' \ parked' \subseteq live \ parked
  BY <1>1
<1> QED BY <1>2, <1>3, <1>4, <1>5, FewerSockets

\* The pool closes idle clients: a stale one in a Get, or all at shutdown.
LEMMA PoolClosesInv == ASSUME SockInv, Inv', Refused \/ ClosePool PROVE SockInv'
<1>1. PICK S \in SUBSET Idle : CloseConns(S) /\ open' = open \ S /\ Idle' = Idle \ S
                               /\ held' = held /\ UNCHANGED <<conn, late, req>>
  <2>1. CASE Refused
    BY <2>1, PlacesFacts DEF Refused, SockInv
  <2>2. CASE ClosePool
    BY <2>2, PlacesFacts DEF ClosePool, SockInv
  <2> QED BY <2>1, <2>2
<1>2. \A q \in Requests : /\ InUse(q) => req[q].client \notin S
                          /\ InUse(q)' => InUse(q)
                          /\ At(q, "ready") \/ At(q, "dialing") => req[q].client \in open'
  <2>1. held \cap S = {}
    BY <1>1, SocketTypes
  <2>2. \A q \in Requests : At(q, "ready") \/ At(q, "dialing")
                            => req[q].client \in open /\ req[q].client \in held
    BY RequestFacts, SocketTypes
  <2> QED BY <1>1, <2>1, <2>2, RequestFacts DEF InUse, At
<1>3. Reachable' \subseteq Reachable
  BY <1>1 DEF Reachable
<1>4. /\ RequestKeepsSocket' /\ ConnsOwn' /\ ClosedConnsGone'
      /\ live' \subseteq Sockets /\ parked' \subseteq live'
  BY <1>1, <1>2, <1>3, ClosingConns
<1>5. SocketsTypeOK' /\ RequestsApart'
  BY <1>1, <1>2, <1>4, SocketTypes, RequestsRest
<1> QED BY <1>4, <1>5 DEF SockInv

\* A tunnel that could not be set up closes its client.
LEMMA TunnelFailsInv == ASSUME SockInv, Inv', NEW r \in Requests, TunnelFails(r) PROVE SockInv'
<1> DEFINE c == req[r].client
           state == [req[r] EXCEPT !.pc = "release"]
<1>1. /\ At(r, "ready") \/ At(r, "dialing")
      /\ UNCHANGED <<pool, held>> /\ open' = open \ {c} /\ CloseConns({c})
      /\ Becomes(r, state) /\ UNCHANGED <<conn, late>>
  BY DEF TunnelFails, CloseClient, ToRelease
<1>2. /\ state \in RequestStates /\ state.pc = "release" /\ state.client = c
      /\ state.sock = req[r].sock /\ c \in held /\ c # NoClient
  BY <1>1, RequestFacts, SocketTypes DEF RequestStates
<1> HIDE DEF state
<1>3. \A q \in Requests \ {r} : /\ req[q].client # c
                                /\ At(q, "ready") \/ At(q, "dialing") => req[q].client \in open'
  BY <1>1, <1>2, RequestFacts
<1>4. \A q \in Requests : InUse(q) => q # r /\ req[q].client \notin {c}
  <2>1. ~InUse(r)
    BY <1>1 DEF InUse, At
  <2> QED BY <1>3, <2>1
<1>5. Reachable' \subseteq Reachable
  BY <1>1 DEF Reachable, Idle
<1>6. live' \subseteq Sockets /\ parked' \subseteq live'
  BY <1>1, SocketTypes DEF CloseConns
<1>7. /\ SocketsTypeOK' /\ RequestsApart'
      /\ req'[r] = state /\ \A q \in Requests \ {r} : req'[q] = req[q]
  <2>1. held' = (held \ {c}) \cup ({state.client} \ {NoClient})
    BY <1>1, <1>2
  <2>2. /\ Becomes(r, state) /\ conn' \in [Clients -> Sockets \cup {NoSocket}]
        /\ late' \in [Requests -> Clients \cup {NoClient}]
    BY <1>1, SocketTypes
  <2>3. \A q \in Requests \ {r} : At(q, "ready") \/ At(q, "dialing") => req[q].client \in open'
    BY <1>3
  <2> QED BY <1>2, <1>6, <2>1, <2>2, <2>3, RequestMoves
<1>8. \A q \in Requests : InUse(q)' => InUse(q) /\ req'[q] = req[q]
  BY <1>2, <1>7 DEF InUse, At
<1> HIDE DEF c
<1>9. RequestKeepsSocket' /\ ConnsOwn' /\ ClosedConnsGone'
  BY <1>1, <1>4, <1>5, <1>8, ClosingConns
<1> QED BY <1>7, <1>9 DEF SockInv

\* A request returns its client, which the pool keeps or closes.
LEMMA ReleaseInv == ASSUME SockInv, Inv', NEW r \in Requests, Release(r) PROVE SockInv'
<1> DEFINE c == req[r].client
           state == [req[r] EXCEPT !.pc = "leave", !.client = NoClient]
<1>1. /\ At(r, "release") /\ Put(c) /\ c \in held /\ Becomes(r, state) /\ UNCHANGED <<conn, late>>
  BY DEF Release, Put
<1>2. /\ state \in RequestStates /\ state.pc = "leave" /\ state.client = NoClient
      /\ state.sock = req[r].sock /\ c \in Clients /\ c # NoClient
  BY <1>1, RequestFacts, SocketTypes DEF RequestStates
<1> HIDE DEF state
<1>3. /\ held' = held \ {c}
      /\ Keeps(pool, c, open) => c \in open /\ Idle' = Idle \cup {c} /\ open' = open
      /\ ~Keeps(pool, c, open) => Idle' = Idle /\ open' = open \ {c}
  <2> HIDE DEF c
  <2> QED BY <1>1, <1>2, PlacesFacts DEF SockInv
<1>4. PICK S \in SUBSET {c} : CloseConns(S) /\ open' = open \ S
  <2>1. CASE Keeps(pool, c, open)
    <3>1. ConnsOf({}) = {}
      BY DEF ConnsOf
    <3>2. CloseConns({}) /\ open' = open \ {}
      BY <1>3, <2>1, <3>1 DEF Release, CloseConns
    <3> QED BY <3>2
  <2>2. CASE ~Keeps(pool, c, open)
    BY <1>3, <2>2 DEF Release
  <2> QED BY <2>1, <2>2
<1>5. Reachable' \subseteq Reachable
  BY <1>1, <1>3 DEF Reachable
<1>6. \A q \in Requests \ {r} : /\ req[q].client # c
                                /\ At(q, "ready") \/ At(q, "dialing") => req[q].client \in open'
  BY <1>2, <1>4, RequestFacts
<1>7. \A q \in Requests : InUse(q) => q # r /\ req[q].client \notin S
  <2>1. ~InUse(r)
    BY <1>1 DEF InUse, At
  <2> QED BY <1>4, <1>6, <2>1
<1>8. live' \subseteq Sockets /\ parked' \subseteq live'
  BY <1>4, SocketTypes DEF CloseConns
<1>9. /\ SocketsTypeOK' /\ RequestsApart'
      /\ req'[r] = state /\ \A q \in Requests \ {r} : req'[q] = req[q]
  <2>1. held' = (held \ {c}) \cup ({state.client} \ {NoClient}) /\ NoClient \notin held
    BY <1>2, <1>3, RequestFacts
  <2>2. /\ Becomes(r, state) /\ conn' \in [Clients -> Sockets \cup {NoSocket}]
        /\ late' \in [Requests -> Clients \cup {NoClient}]
    BY <1>1, SocketTypes
  <2>3. \A q \in Requests \ {r} : At(q, "ready") \/ At(q, "dialing") => req[q].client \in open'
    BY <1>6
  <2> QED BY <1>2, <1>8, <2>1, <2>2, <2>3, RequestMoves
<1>10. \A q \in Requests : InUse(q)' => InUse(q) /\ req'[q] = req[q]
  BY <1>2, <1>9 DEF InUse, At
<1> HIDE DEF c
<1>11. RequestKeepsSocket' /\ ConnsOwn' /\ ClosedConnsGone'
  BY <1>1, <1>4, <1>5, <1>7, <1>10, ClosingConns
<1> QED BY <1>9, <1>11 DEF SockInv

\* A request ends with its socket: it parks it or closes it.
LEMMA LeavingInv ==
    ASSUME SockInv, Inv', NEW r \in Requests, ExchangeEnds(r) \/ Leave(r)
    PROVE  SockInv'
<1> DEFINE s == req[r].sock
<1>1. /\ UNCHANGED <<pool, held, open, conn, late>>
      /\ \/ live' = live \ {s} /\ parked' \in {parked, parked \ {s}} /\ (At(r, "exchange") \/ At(r, "leave"))
         \/ live' = live /\ parked' = parked \cup {s} /\ At(r, "exchange")
  BY DEF ExchangeEnds, Leave, vars
<1>2. At(r, "exchange") => s \in live \ parked
  BY DEF SockInv, RequestKeepsSocket
<1>3. live' \subseteq Sockets /\ parked' \subseteq live'
  <2>1. CASE At(r, "exchange")
    BY <1>1, <1>2, <2>1, SocketTypes
  <2>2. CASE ~At(r, "exchange")
    <3>1. Leave(r)
      BY <2>2 DEF ExchangeEnds
    <3>2. live' = live \ {s} /\ parked' = parked \ {s}
      BY <3>1 DEF Leave
    <3> QED BY <3>2, SocketTypes
  <2> QED BY <2>1, <2>2
<1>4. PICK state \in RequestStates :
        /\ Becomes(r, state) /\ state.client = req[r].client /\ state.sock = NoSocket
        /\ state.pc \in {"idle", "release"} /\ (state.pc = "idle" <=> At(r, "leave"))
  <2>1. CASE ExchangeEnds(r)
    <3> DEFINE state == [req[r] EXCEPT !.pc = "release", !.sock = NoSocket]
    <3>1. Becomes(r, state) /\ At(r, "exchange")
      BY <2>1 DEF ExchangeEnds
    <3>2. /\ state \in RequestStates /\ state.pc = "release" /\ state.client = req[r].client
          /\ state.sock = NoSocket
      BY RequestFacts DEF RequestStates
    <3> HIDE DEF state
    <3> QED BY <3>1, <3>2 DEF Becomes, At
  <2>2. CASE Leave(r)
    <3>1. Becomes(r, NoRequest) /\ At(r, "leave") /\ req[r].client = NoClient
      BY <2>2, RequestFacts DEF Leave
    <3>2. /\ NoRequest \in RequestStates /\ NoRequest.pc = "idle" /\ NoRequest.client = NoClient
          /\ NoRequest.sock = NoSocket
      BY DEF NoRequest, RequestStates
    <3> QED BY <3>1, <3>2
  <2> QED BY <2>1, <2>2
<1>5. \A q \in Requests : At(q, "ready") \/ At(q, "dialing") => req[q].client \in open'
  BY <1>1, RequestFacts
<1>6. /\ SocketsTypeOK' /\ RequestsApart'
      /\ req'[r] = state /\ \A q \in Requests \ {r} : req'[q] = req[q]
  <2>1. At(r, "leave") <=> req[r].client = NoClient
    BY <1>1, RequestFacts DEF At
  <2>2. held' = (held \ {req[r].client}) \cup ({state.client} \ {NoClient})
    <3>1. req[r].client = NoClient \/ req[r].client \in held
      BY RequestFacts DEF RequestStates
    <3> QED BY <1>1, <1>4, <3>1, RequestFacts
  <2> QED BY <1>1, <1>3, <1>4, <1>5, <2>1, <2>2, SocketTypes, RequestMoves
<1>7. \A q \in Requests : InUse(q)' => InUse(q) /\ req'[q] = req[q] /\ q # r
  BY <1>4, <1>6 DEF InUse, At
<1>8. \A q \in Requests \ {r} : InUse(q) => req[q].sock \in live' \ parked'
  <2> SUFFICES ASSUME NEW q \in Requests \ {r}, InUse(q) PROVE req[q].sock \in live' \ parked'
    OBVIOUS
  <2>1. req[q].sock \in live \ parked /\ NoSocket \notin live
    BY SocketTypes, TrojanClientAssumption DEF SockInv, RequestKeepsSocket, InUse
  <2>2. req[q].sock # s
    BY <2>1, RequestFacts
  <2> QED BY <1>1, <2>1, <2>2
<1>9. live' \ parked' \subseteq live \ parked
  BY <1>1
<1>10. Reachable' = Reachable
  BY <1>1 DEF Reachable, Idle
<1>11. RequestKeepsSocket' /\ ConnsOwn' /\ ClosedConnsGone'
  BY <1>1, <1>7, <1>8, <1>9, <1>10, FewerSockets
<1> QED BY <1>6, <1>11 DEF SockInv

\* Time, the peers and the garbage collector take no socket in use.
LEMMA OutsideInv ==
    ASSUME SockInv, Inv', GrowStale \/ \E s \in Sockets : PeerCloses(s) \/ Collected(s)
    PROVE  SockInv'
<1>1. /\ UNCHANGED <<pool, held, open, conn, late, req>>
      /\ \/ UNCHANGED <<live, parked>>
         \/ \E s \in parked : live' = live \ {s} /\ parked' = parked \ {s}
         \/ \E s \in live \ Referenced : live' = live \ {s} /\ parked' = parked
  BY DEF GrowStale, PeerCloses, Collected, Expire, vars, sockVars
<1>2. \A q \in Requests : /\ InUse(q)' => InUse(q)
                          /\ At(q, "ready") \/ At(q, "dialing") => req[q].client \in open'
  BY <1>1, RequestFacts DEF InUse, At
<1>3. parked \subseteq Referenced /\ \A q \in Requests : req[q].sock \in Referenced
  BY DEF Referenced
<1>4. \A q \in Requests : InUse(q) => req[q].sock \in live \ parked
  BY DEF SockInv, RequestKeepsSocket, InUse
<1>5. \A q \in Requests : InUse(q) => req[q].sock \in live' \ parked'
  BY <1>1, <1>3, <1>4
<1>6. live' \subseteq Sockets /\ parked' \subseteq live' /\ live' \ parked' \subseteq live \ parked
  BY <1>1, <1>3, SocketTypes
<1>7. SocketsTypeOK' /\ RequestsApart'
  BY <1>1, <1>2, <1>6, SocketTypes, RequestsRest
<1>8. Reachable' = Reachable
  BY <1>1 DEF Reachable, Idle
<1>9. RequestKeepsSocket' /\ ConnsOwn' /\ ClosedConnsGone'
  BY <1>1, <1>2, <1>5, <1>6, <1>8, FewerSockets
<1> QED BY <1>7, <1>9 DEF SockInv

\* The invariant holds in every reachable state of the pool with its sockets.
LEMMA AlwaysSockInv == ClientSpec => []SockInv
<1>1. ClientInit => SockInv
  <2> SUFFICES ASSUME ClientInit PROVE SockInv
    OBVIOUS
  <2>1. /\ Inv /\ held = {} /\ open = {} /\ live = {} /\ parked = {}
        /\ conn = [c \in Clients |-> NoSocket] /\ late = [r \in Requests |-> NoClient]
        /\ req = [r \in Requests |-> NoRequest]
    BY InitInv DEF ClientInit, Init
  <2>2. \A r \in Requests : /\ req[r].pc = "idle" /\ req[r].client = NoClient
                            /\ req[r].sock = NoSocket
    BY <2>1 DEF NoRequest
  <2>3. SocketsTypeOK
    BY <2>1, <2>2 DEF SocketsTypeOK, NoRequest
  <2> QED BY <2>1, <2>2, <2>3 DEF SockInv, RequestsApart, RequestKeepsSocket, ConnsOwn, ClosedConnsGone,
                                  InUse, At
<1>2. SockInv /\ [ClientNext]_<<vars, sockVars>> => SockInv'
  <2> SUFFICES ASSUME SockInv, [ClientNext]_<<vars, sockVars>> PROVE SockInv'
    OBVIOUS
  <2>1. Inv'
    BY ClientStepsPool, NextInv DEF SockInv
  <2>2. CASE UNCHANGED <<vars, sockVars>>
    BY <2>1, <2>2 DEF vars, sockVars, SockInv, SocketsTypeOK, RequestsApart, RequestKeepsSocket,
                      ConnsOwn, ClosedConnsGone, InUse, At, Reachable, Idle
  <2>3. ASSUME NEW r \in Requests, RequestStep(r) PROVE SockInv'
    BY <2>1, <2>3, QuietStepInv, TunnelFailsInv, LeavingInv, ReleaseInv, DialSucceedsInv
    DEF RequestStep
  <2> QED
    BY <2>1, <2>2, <2>3, ReuseInv, LateDialInv, ConnectInv, PoolClosesInv, OutsideInv DEF ClientNext
<1> QED BY <1>1, <1>2, PTL DEF ClientSpec

\* Whatever the pool, the other requests and abandoned dials close, the socket over
\* which a request relays or exchanges stays open (client.go:62-77, handler.go:160-237).
THEOREM SocketsOutliveRequests == ClientSpec => []RequestKeepsSocket
<1>1. SockInv => RequestKeepsSocket
  BY DEF SockInv
<1> QED BY <1>1, AlwaysSockInv, PTL

\* After a shutdown and the end of the requests, each socket that a client refers to
\* has been closed or is left to a transport (pool.go:110-128).
THEOREM ShutdownClosesSockets == ClientSpec => []ClosedPoolHoldsNoSocket
<1>1. SockInv => ClosedPoolHoldsNoSocket
  <2> SUFFICES ASSUME SockInv, pool.closed, held = {} PROVE ClosedPoolHoldsNoSocket
    BY DEF ClosedPoolHoldsNoSocket
  <2>1. pool \in Pools /\ pool.clients = <<>>
    BY DEF SockInv, Inv, TypeOK, IdleUsable
  <2>2. open = {}
    BY <2>1, IdleFacts, SocketTypes DEF Idle
  <2> QED BY <2>2 DEF SockInv, ClosedConnsGone, ClosedPoolHoldsNoSocket
<1> QED BY <1>1, AlwaysSockInv, PTL

\* Under requests, sockets and abandoned dials the pool is still the pool.
THEOREM ClientsUsePool == ClientSpec => Spec
<1>1. ClientInit => Init
  BY DEF ClientInit
<1> QED BY <1>1, ClientStepsPool, AlwaysSockInv, PTL DEF ClientSpec, Spec
=============================================================================
