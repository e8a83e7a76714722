--------------------------- MODULE SelectorProofs ---------------------------
(***************************************************************************)
(* The safety of the selector with all its pools, for every set of nodes,  *)
(* clients and goroutines and every configuration a reload may bring; and  *)
(* what ExecuteWithFailover makes of it.                                   *)
(*                                                                         *)
(* Inv is inductive; what it is for are its last three parts.  That no     *)
(* connection is lost is not inductive alone: that a step takes away only  *)
(* what it closes needs to know that a client is in one place (OnePlace),  *)
(* that a name given to a new client was nowhere (Made), and that the pool *)
(* a release has found is one of the client's own node (InStep), although  *)
(* the map may have changed in between.                                    *)
(*                                                                         *)
(* CallInv is inductive for calls of ExecuteWithFailover: it adds where    *)
(* the worker of a call may be in the selector (Matches), and that a       *)
(* client on which an operation has failed is closed, on no idle stack,    *)
(* and with no worker but the one that gives it up (BrokenApart).          *)
(***************************************************************************)
EXTENDS Failover, PoolOpsProofs, FiniteSetTheorems, WellFoundedInduction

\* A client is in one place: on one idle stack, once, or with one worker.
OnePlace ==
    /\ \A i \in PoolIds : IsInjective(pool[i].clients)
    /\ \A i, j \in PoolIds : \A c \in IdleOf(pool[i]) \cap IdleOf(pool[j]) : i = j
    /\ \A v, w \in Workers : \A c \in HeldBy(v) \cap HeldBy(w) : v = w
    /\ \A i \in PoolIds, w \in Workers : IdleOf(pool[i]) \cap HeldBy(w) = {}

\* Whatever is idle or in use was made by a pool: a fresh name is nowhere.
Made ==
    /\ \A i \in PoolIds : IdleOf(pool[i]) \cap Fresh = {}
    /\ \A w \in Workers : HeldBy(w) \cap Fresh = {}

\* A worker has a client from the end of its selection to the end of its release,
\* and a pool when it needs one, for a release that of the client's node.
InStep(w) ==
    /\ worker[w].pc \in {"using", "put"} <=> worker[w].client # NoClient
    /\ worker[w].pc = "get" => worker[w].pool # NoPool
    /\ worker[w].pc = "put" /\ worker[w].pool # NoPool
         => poolNode[worker[w].pool] = NodeOf(worker[w].client)

Inv ==
    /\ TypeOK
    /\ OnePlace
    /\ Made
    /\ \A w \in Workers : InStep(w)
    /\ RetiredPools
    /\ IdleMatchesNode
    /\ NoOrphan

----------------------------------------------------------------------------
(* Sequences of node names *)

\* The list made of a finite set has each of its members once.
LEMMA ListOfSet ==
    ASSUME NEW S, IsFiniteSet(S)
    PROVE  /\ SetToSeq(S) \in Seq(S)
           /\ Len(SetToSeq(S)) = Cardinality(S)
           /\ IsInjective(SetToSeq(S))
           /\ \A x \in S : \E i \in 1..Len(SetToSeq(S)) : SetToSeq(S)[i] = x
<1> DEFINE n == Cardinality(S)
           s == SetToSeq(S)
<1>1. n \in Nat /\ ExistsBijection(1..n, S)
  BY FS_CardinalityType
<1>2. PICK f \in Bijection(1..n, S) : TRUE
  BY <1>1 DEF ExistsBijection
<1>3. f \in [1..n -> S] /\ IsInjective(f)
  BY <1>2 DEF Bijection, Injection
<1>4. s \in [1..n -> S] /\ IsInjective(s)
  BY <1>3 DEF SetToSeq
<1>5. s \in Injection(1..n, S)
  BY <1>4 DEF Injection
<1>6. IsFiniteSet(1..n) /\ Cardinality(1..n) = n
  BY <1>1, FS_Interval
<1>7. s \in Surjection(1..n, S)
  BY <1>5, <1>6, FS_Injection
<1>8. s \in Seq(S)
  BY <1>1, <1>4, SeqDef
<1>9. Len(s) = n
  BY <1>1, <1>4, <1>8, LenProperties
<1> QED BY <1>4, <1>7, <1>8, <1>9 DEF Surjection

\* Where a member of the set stands in its list.
LEMMA PlaceInList ==
    ASSUME NEW S, IsFiniteSet(S), NEW x \in S,
           NEW p, p = (CHOOSE i \in DOMAIN SetToSeq(S) : SetToSeq(S)[i] = x)
    PROVE  p \in 1..Len(SetToSeq(S)) /\ SetToSeq(S)[p] = x
<1>1. DOMAIN SetToSeq(S) = 1..Len(SetToSeq(S))
  BY ListOfSet, LenProperties
<1>2. \E i \in 1..Len(SetToSeq(S)) : SetToSeq(S)[i] = x
  BY ListOfSet
<1> QED BY <1>1, <1>2

----------------------------------------------------------------------------
\* A new pool is open and has nothing idle.
LEMMA NewPoolFacts ==
    /\ NewPool \in Pools
    /\ NewPool.clients = <<>>
    /\ ~NewPool.closed
    /\ IdleOf(NewPool) = {}
    /\ IsInjective(NewPool.clients)
<1>1. NewPool \in Pools /\ NewPool.clients = <<>> /\ ~NewPool.closed
  BY EmptySeq DEF NewPool, Pools
<1>2. IdleOf(NewPool) = {}
  BY <1>1, IdleFacts
<1>3. IsInjective(<<>>)
  BY DEF IsInjective
<1> QED BY <1>1, <1>2, <1>3

\* The state of a worker between two requests.
LEMMA IdleWorker ==
    /\ Idle \in WorkerStates
    /\ Idle.pc = "idle" /\ Idle.pool = NoPool /\ Idle.client = NoClient
BY DEF Idle, WorkerStates, Steps, NoPool

\* NewSelector makes an open pool for each node, and nobody has a client.
LEMMA InitInv == Init => Inv
<1> SUFFICES ASSUME Init PROVE Inv
  OBVIOUS
<1>1. /\ nodes \subseteq Names /\ IsFiniteSet(nodes)
      /\ poolNode = SetToSeq(nodes) /\ mu = Free /\ Free \notin Workers
      /\ open = {} /\ stale = {} /\ checked = nodes
      /\ reload = [g \in Reloads |-> NoReload] /\ NoReload \subseteq Names
      /\ origin = [c \in Clients |-> NoPool]
      /\ worker = [w \in Workers |-> Idle]
      /\ pool = [i \in DOMAIN poolNode |-> NewPool]
  BY SelectorAssumption DEF Init, NoReload
<1>2. poolNode \in Seq(nodes)
  BY <1>1, ListOfSet
<1>3. poolNode \in Seq(Names) /\ Len(poolNode) \in Nat /\ DOMAIN poolNode = 1..Len(poolNode)
  BY <1>1, <1>2, SeqMonotonic, LenProperties
<1>4. pool \in [1..Len(poolNode) -> Pools]
  BY <1>1, <1>3, NewPoolFacts
<1>5. pool \in Seq(Pools)
  BY <1>3, <1>4, SeqDef
<1>6. Len(pool) = Len(poolNode) /\ PoolIds = 1..Len(poolNode)
  BY <1>3, <1>4, <1>5, LenProperties DEF PoolIds
<1>7. \A i \in PoolIds : pool[i] = NewPool
  BY <1>1, <1>3, <1>6
<1>8. \A n \in nodes : pools[n] \in PoolIds /\ poolNode[pools[n]] = n
  <2> SUFFICES ASSUME NEW n \in nodes
               PROVE  pools[n] \in PoolIds /\ poolNode[pools[n]] = n
    OBVIOUS
  <2>1. pools[n] = CHOOSE i \in DOMAIN SetToSeq(nodes) : SetToSeq(nodes)[i] = n
    BY <1>1 DEF Init
  <2> QED BY <1>1, <1>6, <2>1, PlaceInList
<1>9. pools \in [nodes -> PoolIds]
  BY <1>8 DEF Init
<1>10. \A w \in Workers : worker[w] = Idle
  BY <1>1
<1>11. TypeOK
  BY <1>1, <1>3, <1>5, <1>6, <1>8, <1>9, <1>10, IdleWorker DEF TypeOK
<1>12. \A i \in PoolIds : ~pool[i].closed /\ IdleOf(pool[i]) = {} /\ IsInjective(pool[i].clients)
  BY <1>7, NewPoolFacts
<1>13. \A w \in Workers : HeldBy(w) = {} /\ InStep(w)
  BY <1>10, IdleWorker DEF HeldBy, InStep
<1>14. OnePlace /\ Made /\ IdleMatchesNode /\ NoOrphan
  BY <1>1, <1>12, <1>13 DEF OnePlace, Made, IdleMatchesNode, NoOrphan
<1>15. RetiredPools
  <2> SUFFICES ASSUME NEW i \in PoolIds PROVE \E n \in DOMAIN pools : pools[n] = i
    BY <1>12 DEF RetiredPools
  <2>1. poolNode[i] \in nodes
    BY <1>2, <1>6, ElementOfSeq
  <2>2. pools[poolNode[i]] \in PoolIds /\ poolNode[pools[poolNode[i]]] = poolNode[i]
    BY <1>8, <2>1
  <2>3. pools[poolNode[i]] = i
    BY <1>1, <1>3, <1>6, <2>2, ListOfSet DEF IsInjective
  <2> QED BY <1>9, <2>1, <2>3
<1> QED BY <1>11, <1>13, <1>14, <1>15 DEF Inv

----------------------------------------------------------------------------
(* What the steps of a worker have in common *)

\* A worker may take this state, given what else is as it was.
Fits(state) ==
    /\ state \in WorkerStates
    /\ state.pool \in PoolIds \cup {NoPool}
    /\ state.pc \in {"using", "put"} <=> state.client # NoClient
    /\ state.pc = "get" => state.pool # NoPool
    /\ state.pc = "put" /\ state.pool # NoPool => poolNode[state.pool] = NodeOf(state.client)

\* The lock is with w exactly when its new state says so, and with nobody else anew.
LockFits(w, state) ==
    /\ mu' \in Workers \cup {Free}
    /\ \A v \in Workers \ {w} : mu' = v <=> mu = v
    /\ state.pc = "others" <=> mu' = w

\* The numbers of the pools are those of a sequence.
LEMMA IdsFacts ==
    ASSUME TypeOK
    PROVE  /\ Len(pool) \in Nat
           /\ PoolIds = 1..Len(pool)
           /\ NoPool \notin PoolIds
           /\ \A i \in PoolIds : pool[i] \in Pools /\ poolNode[i] \in Names
           /\ DOMAIN pools = nodes
           /\ DOMAIN poolNode = PoolIds
<1>1. /\ pool \in Seq(Pools) /\ poolNode \in Seq(Names) /\ Len(poolNode) = Len(pool)
      /\ pools \in [nodes -> PoolIds]
  BY DEF TypeOK
<1>2. Len(pool) \in Nat /\ PoolIds = 1..Len(pool) /\ DOMAIN poolNode = 1..Len(pool)
  BY <1>1, LenProperties DEF PoolIds
<1>3. \A i \in PoolIds : pool[i] \in Pools /\ poolNode[i] \in Names
  BY <1>1, <1>2, ElementOfSeq
<1> QED BY <1>1, <1>2, <1>3 DEF NoPool

\* The state of one worker changes, and so does at most what it holds.
LEMMA WorkerStep ==
    ASSUME TypeOK, NEW w \in Workers, NEW state, Fits(state), Becomes(w, state)
    PROVE  /\ worker' \in [Workers -> WorkerStates]
           /\ worker'[w] = state
           /\ \A v \in Workers \ {w} : worker'[v] = worker[v] /\ HeldBy(v)' = HeldBy(v)
           /\ HeldBy(w)' = {state.client} \ {NoClient}
<1>1. worker \in [Workers -> WorkerStates] /\ worker' = [worker EXCEPT ![w] = state]
      /\ state \in WorkerStates
  BY DEF TypeOK, Becomes, Fits
<1>2. /\ worker' \in [Workers -> WorkerStates]
      /\ worker'[w] = state
      /\ \A v \in Workers \ {w} : worker'[v] = worker[v]
  BY <1>1
<1> QED BY <1>2 DEF HeldBy

\* One pool changes and stays open or closed as it was.
LEMMA PoolStep ==
    ASSUME TypeOK, OnePlace, RetiredPools, NEW i \in PoolIds, NEW q \in Pools,
           pool' = [pool EXCEPT ![i] = q], pools' = pools,
           q.closed = pool[i].closed, pool[i].closed => q.clients = pool[i].clients,
           IsInjective(q.clients)
    PROVE  /\ pool' \in Seq(Pools) /\ Len(pool') = Len(pool) /\ PoolIds' = PoolIds
           /\ pool'[i] = q
           /\ \A j \in PoolIds \ {i} : pool'[j] = pool[j]
           /\ \A j \in PoolIds : IsInjective(pool'[j].clients)
           /\ RetiredPools'
<1>1. pool \in Seq(Pools) /\ Len(pool) \in Nat /\ PoolIds = 1..Len(pool)
  BY IdsFacts DEF TypeOK
<1>2. pool' \in Seq(Pools) /\ Len(pool') = Len(pool) /\ pool'[i] = q
      /\ \A j \in PoolIds \ {i} : pool'[j] = pool[j]
  BY <1>1, ExceptSeq
<1>3. PoolIds' = PoolIds
  BY <1>1, <1>2, LenProperties DEF PoolIds
<1>4. \A j \in PoolIds : IsInjective(pool'[j].clients)
  BY <1>2 DEF OnePlace
<1>5. RetiredPools'
  BY <1>2, <1>3 DEF RetiredPools
<1> QED BY <1>2, <1>3, <1>4, <1>5

\* The part of the type invariant that a step of a worker has to do with.
LEMMA TypeStep ==
    ASSUME TypeOK, NEW w \in Workers, NEW state, Fits(state), Becomes(w, state),
           LockFits(w, state), Rest,
           pool' \in Seq(Pools), Len(pool') = Len(pool), PoolIds' = PoolIds,
           origin' \in [Clients -> PoolIds \cup {NoPool}],
           open' \subseteq Clients, stale' \subseteq open'
    PROVE  TypeOK'
<1>1. nodes' = nodes /\ pools' = pools /\ poolNode' = poolNode /\ checked' = checked
      /\ reload' = reload
  BY DEF Rest
<1>2. \A v \in Workers : /\ worker'[v].pool \in PoolIds \cup {NoPool}
                         /\ worker'[v].pc = "others" <=> mu' = v
  <2> SUFFICES ASSUME NEW v \in Workers
               PROVE  /\ worker'[v].pool \in PoolIds \cup {NoPool}
                      /\ worker'[v].pc = "others" <=> mu' = v
    OBVIOUS
  <2>1. CASE v = w
    BY <2>1, WorkerStep DEF Fits, LockFits
  <2>2. CASE v # w
    <3>1. worker'[v] = worker[v] /\ (mu' = v <=> mu = v)
      BY <2>2, WorkerStep DEF LockFits
    <3> QED BY <3>1 DEF TypeOK
  <2> QED BY <2>1, <2>2
<1>3. mu' \in Workers \cup {Free} /\ worker' \in [Workers -> WorkerStates]
  BY WorkerStep DEF LockFits
<1> QED BY <1>1, <1>2, <1>3 DEF TypeOK

\* A worker with a client in use may have any client.
LEMMA UsingWorker ==
    ASSUME NEW c \in Clients
    PROVE  /\ Fits(Using(c)) /\ Using(c) \in WorkerStates
           /\ Using(c).pc = "using" /\ Using(c).client = c /\ c # NoClient
<1>1. /\ Using(c) \in WorkerStates /\ Using(c).pc = "using" /\ Using(c).pool = NoPool
      /\ Using(c).client = c /\ c # NoClient
  BY SelectorAssumption DEF Using, Idle, WorkerStates, Steps, NoPool
<1> QED BY <1>1 DEF Fits

\* A step that only moves a worker on, with the client it has.
LEMMA WorkerOnlyInv ==
    ASSUME Inv, NEW w \in Workers, NEW state, Fits(state), Becomes(w, state),
           LockFits(w, state), Rest, UNCHANGED clientVars,
           state.client = worker[w].client
    PROVE  Inv'
<1>1. TypeOK /\ OnePlace /\ Made /\ RetiredPools /\ IdleMatchesNode /\ NoOrphan
      /\ (\A v \in Workers : InStep(v))
  BY DEF Inv
<1>2. pool' = pool /\ origin' = origin /\ open' = open /\ stale' = stale
      /\ pools' = pools /\ poolNode' = poolNode
  BY DEF clientVars, Rest
<1>3. PoolIds' = PoolIds /\ Fresh' = Fresh /\ \A c : NodeOf(c)' = NodeOf(c)
  BY <1>2 DEF PoolIds, Fresh, NodeOf
<1>4. \A v \in Workers : HeldBy(v)' = HeldBy(v)
  BY <1>1, WorkerStep DEF HeldBy
<1>5. TypeOK'
  BY <1>1, <1>2, <1>3, TypeStep DEF TypeOK
<1>6. \A v \in Workers : InStep(v)'
  <2> SUFFICES ASSUME NEW v \in Workers PROVE InStep(v)'
    OBVIOUS
  <2>1. CASE v = w
    <3>1. worker'[v] = state
      BY <1>1, <2>1, WorkerStep
    <3> QED BY <1>2, <3>1 DEF Fits, InStep, NodeOf
  <2>2. CASE v # w
    <3>1. worker'[v] = worker[v]
      BY <1>1, <2>2, WorkerStep
    <3> QED BY <1>1, <1>2, <3>1 DEF InStep, NodeOf
  <2> QED BY <2>1, <2>2
<1>7. OnePlace' /\ Made'
  BY <1>1, <1>2, <1>3, <1>4 DEF OnePlace, Made
<1>8. RetiredPools' /\ IdleMatchesNode'
  BY <1>1, <1>2, <1>3 DEF RetiredPools, IdleMatchesNode
<1>9. NoOrphan'
  BY <1>1, <1>2, <1>4 DEF NoOrphan, Held, IdleIn
<1> QED BY <1>5, <1>6, <1>7, <1>8, <1>9 DEF Inv

----------------------------------------------------------------------------
(* Clients that change places *)

\* Pool i gives up some idle clients, and worker w goes away with one of them or
\* with a new one: what both ways to succeed of Get amount to.
LEMMA LendInv ==
    ASSUME Inv, NEW w \in Workers, NEW i \in PoolIds, NEW q \in Pools, NEW c \in Clients,
           NEW gone,
           worker[w].client = NoClient, Becomes(w, Using(c)), LockFits(w, Using(c)), Rest,
           pool' = [pool EXCEPT ![i] = q], ~pool[i].closed, ~q.closed,
           IsInjective(q.clients),
           gone \subseteq IdleOf(pool[i]), IdleOf(q) = IdleOf(pool[i]) \ gone,
           c \in gone \cup Fresh,
           origin' \in [Clients -> PoolIds \cup {NoPool}], origin'[c] # NoPool,
           \A d \in Clients \ (gone \cup {c}) : origin'[d] = origin[d],
           open' \subseteq (open \ gone) \cup {c}, stale' \subseteq open'
    PROVE  Inv'
<1> DEFINE state == Using(c)
<1>1. TypeOK /\ OnePlace /\ Made /\ RetiredPools /\ IdleMatchesNode /\ NoOrphan
      /\ (\A v \in Workers : InStep(v))
  BY DEF Inv
<1>2. Fits(state) /\ state.pc = "using" /\ state.client = c /\ c # NoClient
  BY UsingWorker
<1>3. state \in WorkerStates /\ Becomes(w, state) /\ LockFits(w, state)
  BY UsingWorker
<1> HIDE DEF state
<1>4. /\ worker'[w] = state /\ HeldBy(w)' = {c}
      /\ \A v \in Workers \ {w} : worker'[v] = worker[v] /\ HeldBy(v)' = HeldBy(v)
  BY <1>1, <1>2, WorkerStep DEF state
<1>5. pools' = pools /\ poolNode' = poolNode
  BY DEF Rest
<1>6. /\ pool' \in Seq(Pools) /\ Len(pool') = Len(pool) /\ PoolIds' = PoolIds
      /\ pool'[i] = q /\ (\A j \in PoolIds \ {i} : pool'[j] = pool[j])
      /\ (\A j \in PoolIds : IsInjective(pool'[j].clients))
      /\ RetiredPools'
  <2>1. pool[i] \in Pools
    BY <1>1, IdsFacts
  <2>2. q.closed = FALSE /\ pool[i].closed = FALSE
    BY <2>1, IdleFacts
  <2> QED BY <1>1, <1>5, <2>2, PoolStep
<1>7. \A j \in PoolIds : IdleOf(pool'[j]) = IdleOf(pool[j]) \ gone
  BY <1>1, <1>6 DEF OnePlace
<1>8. \A j \in PoolIds : c \notin IdleOf(pool'[j])
  BY <1>1, <1>7 DEF Made
<1>9. \A v \in Workers \ {w} : c \notin HeldBy(v)
  BY <1>1 DEF OnePlace, Made
<1>10. TypeOK'
  <2>1. open' \subseteq Clients
    BY <1>1 DEF TypeOK
  <2> QED BY <1>1, <1>2, <1>3, <1>6, <2>1, TypeStep
<1>11. OnePlace'
  <2>1. \A j, k \in PoolIds : \A d \in IdleOf(pool'[j]) \cap IdleOf(pool'[k]) : j = k
    BY <1>1, <1>7 DEF OnePlace
  <2>2. \A u, v \in Workers : \A d \in HeldBy(u)' \cap HeldBy(v)' : u = v
    BY <1>1, <1>4, <1>9 DEF OnePlace
  <2>3. \A j \in PoolIds, v \in Workers : IdleOf(pool'[j]) \cap HeldBy(v)' = {}
    BY <1>1, <1>4, <1>7, <1>8 DEF OnePlace
  <2> QED BY <1>6, <2>1, <2>2, <2>3 DEF OnePlace
<1>12. Fresh' \subseteq Fresh \cup gone
  BY DEF Fresh
<1>13. c \notin Fresh'
  BY DEF Fresh
<1>14. Made'
  <2>1. \A j \in PoolIds : IdleOf(pool'[j]) \cap Fresh' = {}
    BY <1>1, <1>7, <1>12 DEF Made
  <2>2. \A v \in Workers : HeldBy(v)' \cap Fresh' = {}
    BY <1>1, <1>4, <1>12, <1>13 DEF Made, OnePlace
  <2> QED BY <1>6, <2>1, <2>2 DEF Made
<1>15. \A d \in Clients \ (gone \cup {c}) : NodeOf(d)' = NodeOf(d)
  BY <1>5 DEF NodeOf
<1>16. \A v \in Workers : InStep(v)'
  <2> SUFFICES ASSUME NEW v \in Workers PROVE InStep(v)'
    OBVIOUS
  <2>1. CASE v = w
    BY <1>2, <1>4, <2>1 DEF InStep
  <2>2. CASE v # w
    <3>1. worker'[v] = worker[v] /\ InStep(v)
      BY <1>1, <1>4, <2>2
    <3>2. ASSUME worker[v].client # NoClient
          PROVE  NodeOf(worker[v].client)' = NodeOf(worker[v].client)
      <4>1. worker[v].client \in HeldBy(v) /\ worker[v].client \in Clients
        BY <1>1, <3>2 DEF HeldBy, TypeOK, WorkerStates
      <4>2. worker[v].client \notin gone \cup {c}
        BY <1>1, <1>9, <2>2, <4>1 DEF OnePlace
      <4>3. worker'[v].client = worker[v].client
        BY <3>1
      <4> QED BY <1>5, <4>1, <4>2, <4>3 DEF NodeOf
    <3> QED BY <1>5, <3>1, <3>2 DEF InStep
  <2> QED BY <2>1, <2>2
<1>17. IdleMatchesNode'
  <2> SUFFICES ASSUME NEW j \in PoolIds, NEW d \in IdleOf(pool'[j])
               PROVE  NodeOf(d)' = poolNode[j]
    BY <1>5, <1>6 DEF IdleMatchesNode
  <2>1. d \in IdleOf(pool[j]) /\ d \notin gone \cup {c}
    BY <1>7, <1>8
  <2>2. d \in Clients
    BY <1>1, <2>1, IdsFacts, IdleFacts
  <2> QED BY <1>1, <1>15, <2>1, <2>2 DEF IdleMatchesNode
<1>18. NoOrphan'
  <2> SUFFICES ASSUME NEW d \in open' PROVE d \in Held' \cup IdleIn(DOMAIN pools)'
    BY <1>5 DEF NoOrphan
  <2>1. CASE d = c
    BY <1>4, <2>1 DEF Held
  <2>2. CASE d # c
    <3>1. d \in open /\ d \notin gone
      BY <2>2
    <3>2. d \in Held \/ d \in IdleIn(DOMAIN pools)
      BY <1>1, <3>1 DEF NoOrphan
    <3>3. CASE d \in Held
      <4>1. PICK v \in Workers : d \in HeldBy(v)
        BY <3>3 DEF Held
      <4>2. v # w
        BY <4>1 DEF HeldBy
      <4> QED BY <1>4, <4>1, <4>2 DEF Held
    <3>4. CASE d \in IdleIn(DOMAIN pools)
      <4>1. PICK n \in DOMAIN pools : d \in IdleOf(pool[pools[n]])
        BY <3>4 DEF IdleIn
      <4>2. pools[n] \in PoolIds
        BY <1>1, <4>1 DEF TypeOK
      <4>3. d \in IdleOf(pool'[pools[n]])
        BY <1>7, <3>1, <4>1, <4>2
      <4> QED BY <1>5, <4>1, <4>3 DEF IdleIn
    <3> QED BY <3>2, <3>3, <3>4
  <2> QED BY <2>1, <2>2
<1> QED BY <1>6, <1>10, <1>11, <1>14, <1>16, <1>17, <1>18 DEF Inv

\* Idle clients, or the one that worker w has, are closed and forgotten: a Get that
\* fails after it has found a stale client, and a release that keeps nothing.
LEMMA DropInv ==
    ASSUME Inv, NEW w \in Workers, NEW state, NEW gone,
           Fits(state), state.client = NoClient, Becomes(w, state), LockFits(w, state), Rest,
           Drop(gone), HeldBy(w) \subseteq gone,
           \A v \in Workers \ {w} : HeldBy(v) \cap gone = {},
           pool' \in Seq(Pools), Len(pool') = Len(pool), PoolIds' = PoolIds, RetiredPools',
           \A j \in PoolIds : IsInjective(pool'[j].clients),
           \A j \in PoolIds : IdleOf(pool'[j]) = IdleOf(pool[j]) \ gone
    PROVE  Inv'
<1>1. TypeOK /\ OnePlace /\ Made /\ RetiredPools /\ IdleMatchesNode /\ NoOrphan
      /\ (\A v \in Workers : InStep(v))
  BY DEF Inv
<1>2. pools' = pools /\ poolNode' = poolNode
  BY DEF Rest
<1>3. /\ worker'[w] = state /\ HeldBy(w)' = {}
      /\ \A v \in Workers \ {w} : worker'[v] = worker[v] /\ HeldBy(v)' = HeldBy(v)
  BY <1>1, WorkerStep
<1>4. /\ origin \in [Clients -> PoolIds \cup {NoPool}]
      /\ origin' = [d \in Clients |-> IF d \in gone THEN NoPool ELSE origin[d]]
      /\ open' = open \ gone /\ stale' = stale \ gone
  BY <1>1 DEF Drop, TypeOK
<1>5. /\ origin' \in [Clients -> PoolIds \cup {NoPool}]
      /\ \A d \in Clients \ gone : origin'[d] = origin[d]
  BY <1>4
<1>6. TypeOK'
  <2>1. open' \subseteq Clients /\ stale' \subseteq open'
    BY <1>1, <1>4 DEF TypeOK
  <2> QED BY <1>1, <1>5, <2>1, TypeStep
<1>7. \A v \in Workers : HeldBy(v)' \subseteq HeldBy(v) \ gone
  BY <1>3
<1>8. OnePlace'
  <2>1. \A j, k \in PoolIds : \A d \in IdleOf(pool'[j]) \cap IdleOf(pool'[k]) : j = k
    BY <1>1 DEF OnePlace
  <2>2. \A u, v \in Workers : \A d \in HeldBy(u)' \cap HeldBy(v)' : u = v
    BY <1>1, <1>7 DEF OnePlace
  <2>3. \A j \in PoolIds, v \in Workers : IdleOf(pool'[j]) \cap HeldBy(v)' = {}
    BY <1>1, <1>7 DEF OnePlace
  <2> QED BY <2>1, <2>2, <2>3 DEF OnePlace
<1>9. Fresh' \subseteq Fresh \cup gone
  BY <1>5 DEF Fresh
<1>10. Made'
  <2>1. \A j \in PoolIds : IdleOf(pool'[j]) \cap Fresh' = {}
    BY <1>1, <1>9 DEF Made
  <2>2. \A v \in Workers : HeldBy(v)' \cap Fresh' = {}
    BY <1>1, <1>7, <1>9 DEF Made
  <2> QED BY <2>1, <2>2 DEF Made
<1>11. \A d \in Clients \ gone : NodeOf(d)' = NodeOf(d)
  BY <1>2, <1>5 DEF NodeOf
<1>12. \A v \in Workers : InStep(v)'
  <2> SUFFICES ASSUME NEW v \in Workers PROVE InStep(v)'
    OBVIOUS
  <2>1. CASE v = w
    <3>1. worker'[v] = state
      BY <1>3, <2>1
    <3> QED BY <1>2, <3>1 DEF InStep, Fits
  <2>2. CASE v # w
    <3>1. worker'[v] = worker[v] /\ InStep(v)
      BY <1>1, <1>3, <2>2
    <3>2. ASSUME worker[v].client # NoClient
          PROVE  NodeOf(worker[v].client)' = NodeOf(worker[v].client)
      <4>1. worker[v].client \in HeldBy(v) /\ worker[v].client \in Clients
        BY <1>1, <3>2 DEF HeldBy, TypeOK, WorkerStates
      <4>2. worker[v].client \notin gone
        BY <2>2, <4>1
      <4>3. worker'[v].client = worker[v].client
        BY <3>1
      <4> QED BY <1>2, <1>5, <4>1, <4>2, <4>3 DEF NodeOf
    <3> QED BY <1>2, <3>1, <3>2 DEF InStep
  <2> QED BY <2>1, <2>2
<1>13. IdleMatchesNode'
  <2> SUFFICES ASSUME NEW j \in PoolIds, NEW d \in IdleOf(pool'[j])
               PROVE  NodeOf(d)' = poolNode[j]
    BY <1>2 DEF IdleMatchesNode
  <2>1. d \in IdleOf(pool[j]) /\ d \notin gone
    OBVIOUS
  <2>2. d \in Clients
    BY <1>1, <2>1, IdsFacts, IdleFacts
  <2> QED BY <1>1, <1>11, <2>1, <2>2 DEF IdleMatchesNode
<1>14. NoOrphan'
  <2> SUFFICES ASSUME NEW d \in open' PROVE d \in Held' \cup IdleIn(DOMAIN pools)'
    BY <1>2 DEF NoOrphan
  <2>1. d \in open /\ d \notin gone
    BY <1>4
  <2>2. d \in Held \/ d \in IdleIn(DOMAIN pools)
    BY <1>1, <2>1 DEF NoOrphan
  <2>3. CASE d \in Held
    <3>1. PICK v \in Workers : d \in HeldBy(v)
      BY <2>3 DEF Held
    <3>2. v # w
      BY <2>1, <3>1
    <3> QED BY <1>3, <3>1, <3>2 DEF Held
  <2>4. CASE d \in IdleIn(DOMAIN pools)
    <3>1. PICK n \in DOMAIN pools : d \in IdleOf(pool[pools[n]])
      BY <2>4 DEF IdleIn
    <3>2. pools[n] \in PoolIds
      BY <1>1, <3>1 DEF TypeOK
    <3>3. d \in IdleOf(pool'[pools[n]])
      BY <2>1, <3>1, <3>2
    <3> QED BY <1>2, <3>1, <3>3 DEF IdleIn
  <2> QED BY <2>2, <2>3, <2>4
<1> QED BY <1>6, <1>8, <1>10, <1>12, <1>13, <1>14 DEF Inv

\* Pool i keeps the client that worker w gives back.
LEMMA KeepInv ==
    ASSUME Inv, NEW w \in Workers, NEW i \in PoolIds, NEW q \in Pools, NEW c \in Clients,
           Becomes(w, Idle), LockFits(w, Idle), Rest, UNCHANGED <<origin, open, stale>>,
           HeldBy(w) = {c}, poolNode[i] = NodeOf(c),
           pool' = [pool EXCEPT ![i] = q], ~pool[i].closed, ~q.closed,
           IsInjective(q.clients), IdleOf(q) = IdleOf(pool[i]) \cup {c}
    PROVE  Inv'
<1>1. TypeOK /\ OnePlace /\ Made /\ RetiredPools /\ IdleMatchesNode /\ NoOrphan
      /\ (\A v \in Workers : InStep(v))
  BY DEF Inv
<1>2. pools' = pools /\ poolNode' = poolNode /\ origin' = origin /\ open' = open
      /\ stale' = stale
  BY DEF Rest
<1>3. Fits(Idle)
  BY IdleWorker DEF Fits
<1>4. /\ worker'[w] = Idle /\ HeldBy(w)' = {}
      /\ \A v \in Workers \ {w} : worker'[v] = worker[v] /\ HeldBy(v)' = HeldBy(v)
  BY <1>1, <1>3, IdleWorker, WorkerStep
<1>5. /\ pool' \in Seq(Pools) /\ Len(pool') = Len(pool) /\ PoolIds' = PoolIds
      /\ pool'[i] = q /\ (\A j \in PoolIds \ {i} : pool'[j] = pool[j])
      /\ (\A j \in PoolIds : IsInjective(pool'[j].clients))
      /\ RetiredPools'
  <2>1. pool[i] \in Pools
    BY <1>1, IdsFacts
  <2>2. q.closed = FALSE /\ pool[i].closed = FALSE
    BY <2>1, IdleFacts
  <2> QED BY <1>1, <1>2, <2>2, PoolStep
<1>6. /\ IdleOf(pool'[i]) = IdleOf(pool[i]) \cup {c}
      /\ \A j \in PoolIds \ {i} : IdleOf(pool'[j]) = IdleOf(pool[j])
  BY <1>5
<1>7. \A j \in PoolIds : c \notin IdleOf(pool[j])
  BY <1>1 DEF OnePlace
<1>8. \A v \in Workers \ {w} : c \notin HeldBy(v)
  BY <1>1 DEF OnePlace
<1>9. TypeOK'
  BY <1>1, <1>2, <1>3, <1>5, TypeStep DEF TypeOK
<1>10. OnePlace'
  <2>1. \A j, k \in PoolIds : \A d \in IdleOf(pool'[j]) \cap IdleOf(pool'[k]) : j = k
    BY <1>1, <1>6, <1>7 DEF OnePlace
  <2>2. \A u, v \in Workers : \A d \in HeldBy(u)' \cap HeldBy(v)' : u = v
    BY <1>1, <1>4 DEF OnePlace
  <2>3. \A j \in PoolIds, v \in Workers : IdleOf(pool'[j]) \cap HeldBy(v)' = {}
    BY <1>1, <1>4, <1>6, <1>8 DEF OnePlace
  <2> QED BY <1>5, <2>1, <2>2, <2>3 DEF OnePlace
<1>11. Made'
  <2>1. Fresh' = Fresh /\ c \notin Fresh
    BY <1>1, <1>2 DEF Fresh, Made
  <2>2. \A j \in PoolIds : IdleOf(pool'[j]) \cap Fresh = {}
    BY <1>1, <1>6, <2>1 DEF Made
  <2>3. \A v \in Workers : HeldBy(v)' \cap Fresh = {}
    BY <1>1, <1>4 DEF Made
  <2> QED BY <1>5, <2>1, <2>2, <2>3 DEF Made
<1>12. \A v \in Workers : InStep(v)'
  <2> SUFFICES ASSUME NEW v \in Workers PROVE InStep(v)'
    OBVIOUS
  <2>1. CASE v = w
    <3>1. worker'[v] = Idle
      BY <1>4, <2>1
    <3> QED BY <3>1, IdleWorker DEF InStep
  <2>2. CASE v # w
    <3>1. worker'[v] = worker[v] /\ InStep(v)
      BY <1>1, <1>4, <2>2
    <3> QED BY <1>2, <3>1 DEF InStep, NodeOf
  <2> QED BY <2>1, <2>2
<1>13. IdleMatchesNode'
  <2>1. \A d : NodeOf(d)' = NodeOf(d)
    BY <1>2 DEF NodeOf
  <2>2. \A j \in PoolIds : \A d \in IdleOf(pool'[j]) : NodeOf(d) = poolNode[j]
    BY <1>1, <1>6 DEF IdleMatchesNode
  <2> QED BY <1>2, <1>5, <2>1, <2>2 DEF IdleMatchesNode
<1>14. NoOrphan'
  <2> SUFFICES ASSUME NEW d \in open PROVE d \in Held' \cup IdleIn(DOMAIN pools)'
    BY <1>2 DEF NoOrphan
  <2>1. d \in Held \/ d \in IdleIn(DOMAIN pools)
    BY <1>1 DEF NoOrphan
  <2>2. CASE d = c
    <3>1. PICK n \in DOMAIN pools : pools[n] = i
      BY <1>1 DEF RetiredPools
    <3> QED BY <1>2, <1>6, <2>2, <3>1 DEF IdleIn
  <2>3. CASE d # c /\ d \in Held
    <3>1. PICK v \in Workers : d \in HeldBy(v)
      BY <2>3 DEF Held
    <3> QED BY <1>4, <2>3, <3>1 DEF Held
  <2>4. CASE d \in IdleIn(DOMAIN pools)
    <3>1. PICK n \in DOMAIN pools : d \in IdleOf(pool[pools[n]])
      BY <2>4 DEF IdleIn
    <3>2. pools[n] \in PoolIds
      BY <1>1, <3>1 DEF TypeOK
    <3> QED BY <1>2, <1>6, <3>1, <3>2 DEF IdleIn
  <2> QED BY <2>1, <2>2, <2>3, <2>4
<1> QED BY <1>5, <1>9, <1>10, <1>11, <1>12, <1>13, <1>14 DEF Inv

----------------------------------------------------------------------------
(* Get *)

\* A Get that succeeds takes the client from one idle stack, or makes it.
LEMMA GetOkInv ==
    ASSUME Inv, NEW w \in Workers, NEW i \in PoolIds, NEW c \in Clients, GetOk(i, c),
           worker[w].client = NoClient, Becomes(w, Using(c)), LockFits(w, Using(c)), Rest
    PROVE  Inv'
<1> DEFINE p == pool[i]
<1>1. TypeOK /\ OnePlace /\ Made
  BY DEF Inv
<1>2. p \in Pools /\ IsInjective(p.clients) /\ i # NoPool
  BY <1>1, IdsFacts DEF OnePlace
<1>3. /\ origin \in [Clients -> PoolIds \cup {NoPool}]
      /\ open \subseteq Clients /\ stale \subseteq open
  BY <1>1 DEF TypeOK
<1>4. CASE /\ Reuses(p, Valid)
           /\ c = Last(p.clients)
           /\ pool' = [pool EXCEPT ![i] = Popped(@)]
           /\ UNCHANGED <<origin, open, stale>>
  <2>1. ~p.closed /\ p.clients # <<>> /\ pool' = [pool EXCEPT ![i] = Popped(p)]
    BY <1>4 DEF Reuses
  <2>2. /\ Popped(p) \in Pools /\ ~Popped(p).closed
        /\ IsInjective(Popped(p).clients)
        /\ IdleOf(p) = IdleOf(Popped(p)) \cup {c} /\ c \notin IdleOf(Popped(p))
    BY <1>2, <1>4, <2>1, PoppedFacts
  <2>3. origin[c] # NoPool
    BY <1>1, <2>2 DEF Made, Fresh
  <2>4. {c} \subseteq IdleOf(p) /\ IdleOf(Popped(p)) = IdleOf(p) \ {c} /\ c \in {c} \cup Fresh
    BY <2>2
  <2>5. /\ origin' \in [Clients -> PoolIds \cup {NoPool}] /\ origin'[c] # NoPool
        /\ \A d \in Clients \ ({c} \cup {c}) : origin'[d] = origin[d]
        /\ open' \subseteq (open \ {c}) \cup {c} /\ stale' \subseteq open'
    BY <1>3, <1>4, <2>3
  <2> QED BY <2>1, <2>2, <2>4, <2>5, LendInv
<1>5. CASE /\ Misses(p, Valid)
           /\ HasRoom(AfterMiss(p))
           /\ c \in Fresh
           /\ pool' = [pool EXCEPT ![i] = Checkout(AfterMiss(@))]
           /\ open' = (open \ Discarded(p)) \cup {c}
           /\ stale' = stale \ Discarded(p)
           /\ origin' = [d \in Clients |-> IF d = c THEN i
                                           ELSE IF d \in Discarded(p) THEN NoPool
                                           ELSE origin[d]]
  <2> DEFINE q == Checkout(AfterMiss(p))
             gone == Discarded(p)
  <2>1. ~p.closed /\ pool' = [pool EXCEPT ![i] = q]
    BY <1>5 DEF Misses
  <2>2. /\ AfterMiss(p) \in Pools /\ ~AfterMiss(p).closed
        /\ IdleOf(p) = IdleOf(AfterMiss(p)) \cup gone
        /\ IsInjective(AfterMiss(p).clients) /\ IdleOf(AfterMiss(p)) \cap gone = {}
    BY <1>2, <2>1, MissFacts
  <2>3. q \in Pools /\ q.clients = AfterMiss(p).clients /\ ~q.closed
    BY <2>2, CheckoutFacts
  <2>4. IdleOf(q) = IdleOf(AfterMiss(p)) /\ IsInjective(q.clients)
    BY <2>2, <2>3 DEF IdleOf
  <2>5. gone \subseteq IdleOf(p) /\ IdleOf(q) = IdleOf(p) \ gone /\ c \in gone \cup Fresh
    BY <1>5, <2>2, <2>4
  <2>6. /\ origin' \in [Clients -> PoolIds \cup {NoPool}] /\ origin'[c] = i
        /\ \A d \in Clients \ (gone \cup {c}) : origin'[d] = origin[d]
    BY <1>3, <1>5
  <2>7. open' \subseteq (open \ gone) \cup {c} /\ stale' \subseteq open'
    BY <1>3, <1>5
  <2> HIDE DEF q, gone
  <2> QED BY <1>2, <2>1, <2>3, <2>4, <2>5, <2>6, <2>7, LendInv
<1> QED BY <1>4, <1>5 DEF GetOk

\* A Get that fails has closed at most one stale client.
LEMMA GetErrInv ==
    ASSUME Inv, NEW w \in Workers, NEW i \in PoolIds, NEW state, GetErr(i),
           worker[w].client = NoClient, Fits(state), state.client = NoClient,
           Becomes(w, state), LockFits(w, state), Rest
    PROVE  Inv'
<1> DEFINE p == pool[i]
           q == AfterMiss(p)
           gone == Discarded(p)
<1>1. TypeOK /\ OnePlace /\ RetiredPools
  BY DEF Inv
<1>2. p \in Pools /\ IsInjective(p.clients)
  BY <1>1, IdsFacts DEF OnePlace
<1>3. CASE UNCHANGED clientVars
  BY <1>3, WorkerOnlyInv
<1>4. CASE /\ Misses(p, Valid)
           /\ pool' = [pool EXCEPT ![i] = AfterMiss(@)]
           /\ Drop(Discarded(p))
  <2>1. ~p.closed /\ pool' = [pool EXCEPT ![i] = q] /\ Drop(gone)
    BY <1>4 DEF Misses
  <2>2. /\ q \in Pools /\ q.closed = p.closed
        /\ IdleOf(p) = IdleOf(q) \cup gone
        /\ IsInjective(q.clients) /\ IdleOf(q) \cap gone = {}
    BY <1>2, MissFacts
  <2> HIDE DEF q, gone
  <2>3. pools' = pools
    BY DEF Rest
  <2>4. /\ pool' \in Seq(Pools) /\ Len(pool') = Len(pool) /\ PoolIds' = PoolIds
        /\ pool'[i] = q /\ (\A j \in PoolIds \ {i} : pool'[j] = pool[j])
        /\ (\A j \in PoolIds : IsInjective(pool'[j].clients))
        /\ RetiredPools'
    BY <1>1, <2>1, <2>2, <2>3, PoolStep
  <2>5. \A j \in PoolIds : IdleOf(pool'[j]) = IdleOf(pool[j]) \ gone
    BY <1>1, <2>2, <2>4 DEF OnePlace
  <2>6. HeldBy(w) = {} /\ \A v \in Workers : HeldBy(v) \cap gone = {}
    BY <1>1, <2>2 DEF OnePlace, HeldBy
  <2> QED BY <2>1, <2>4, <2>5, <2>6, DropInv
<1> QED BY <1>3, <1>4 DEF GetErr

----------------------------------------------------------------------------
(* The steps of a worker *)

\* What a step before the release needs to know of a worker without a client.
LEMMA NoClientYet ==
    ASSUME Inv, NEW w \in Workers, worker[w].pc \notin {"using", "put"}
    PROVE  /\ worker[w] \in WorkerStates
           /\ worker[w].client = NoClient
           /\ Fits(worker[w])
           /\ worker[w].pc = "get" => worker[w].pool \in PoolIds
           /\ worker[w].pc = "others" <=> mu = w
BY DEF Inv, InStep, Fits, TypeOK

\* SelectClient takes a node, and its pool if it has one.
LEMMA SelectClientInv == ASSUME Inv, NEW w \in Workers, SelectClient(w) PROVE Inv'
<1>1. worker[w].pc = "idle" /\ mu = Free /\ mu' = mu
  BY DEF SelectClient
<1>2. worker[w].client = NoClient /\ TypeOK
  BY <1>1, NoClientYet DEF Inv
<1>3. PICK avail \in SUBSET Names, n \in Names :
        Becomes(w, IF n \in DOMAIN pools
                     THEN [Idle EXCEPT !.pc = "get", !.avail = avail, !.node = {n},
                                       !.pool = pools[n]]
                     ELSE [Idle EXCEPT !.pc = "failed", !.avail = avail, !.tried = {n}])
  <2>1. nodes \subseteq Names /\ checked \subseteq Names
    BY <1>2 DEF TypeOK
  <2>2. PICK healthy \in SUBSET checked :
          \E n \in IF healthy = {} THEN nodes ELSE healthy :
            Becomes(w, IF n \in DOMAIN pools
                         THEN [Idle EXCEPT !.pc = "get",
                                           !.avail = IF healthy = {} THEN nodes ELSE healthy,
                                           !.node = {n}, !.pool = pools[n]]
                         ELSE [Idle EXCEPT !.pc = "failed",
                                           !.avail = IF healthy = {} THEN nodes ELSE healthy,
                                           !.tried = {n}])
    BY DEF SelectClient
  <2> QED BY <2>1, <2>2
<1>4. UNCHANGED clientVars /\ Rest
  BY DEF SelectClient
<1>5. CASE n \in DOMAIN pools
  <2> DEFINE state == [Idle EXCEPT !.pc = "get", !.avail = avail, !.node = {n},
                                   !.pool = pools[n]]
  <2>1. pools[n] \in PoolIds /\ pools[n] \in Nat /\ pools[n] # NoPool
    BY <1>2, <1>5, IdsFacts DEF TypeOK
  <2>2. /\ state \in WorkerStates /\ state.pc = "get" /\ state.pool = pools[n]
        /\ state.client = NoClient
    BY <2>1 DEF Idle, WorkerStates, Steps, NoPool
  <2>3. Becomes(w, state)
    BY <1>3, <1>5
  <2> HIDE DEF state
  <2>4. Fits(state)
    BY <2>1, <2>2 DEF Fits
  <2>5. LockFits(w, state)
    BY <1>1, <1>2, <2>2, SelectorAssumption DEF LockFits, TypeOK
  <2> QED BY <1>2, <1>4, <2>2, <2>3, <2>4, <2>5, WorkerOnlyInv
<1>6. CASE n \notin DOMAIN pools
  <2> DEFINE state == [Idle EXCEPT !.pc = "failed", !.avail = avail, !.tried = {n}]
  <2>1. /\ state \in WorkerStates /\ state.pc = "failed" /\ state.pool = NoPool
        /\ state.client = NoClient
    BY DEF Idle, WorkerStates, Steps, NoPool
  <2>2. Becomes(w, state)
    BY <1>3, <1>6
  <2> HIDE DEF state
  <2>3. Fits(state)
    BY <2>1 DEF Fits
  <2>4. LockFits(w, state)
    BY <1>1, <1>2, <2>1, SelectorAssumption DEF LockFits, TypeOK
  <2> QED BY <1>2, <1>4, <2>1, <2>2, <2>3, <2>4, WorkerOnlyInv
<1> QED BY <1>5, <1>6

\* The Get of the first choice, after the lock was given up.
LEMMA GetInv == ASSUME Inv, NEW w \in Workers, GetSucceeds(w) \/ GetFails(w) PROVE Inv'
<1> DEFINE i == worker[w].pool
<1>1. worker[w].pc = "get" /\ mu' = mu /\ Rest
  BY DEF GetSucceeds, GetFails
<1>2. /\ worker[w] \in WorkerStates /\ worker[w].client = NoClient
      /\ i \in PoolIds /\ mu # w /\ mu \in Workers \cup {Free}
  BY <1>1, NoClientYet DEF Inv, TypeOK
<1>3. CASE GetSucceeds(w)
  <2>1. PICK c \in Clients : GetOk(i, c) /\ Becomes(w, Using(c))
    BY <1>3 DEF GetSucceeds
  <2>2. Using(c).pc = "using"
    BY DEF Using, Idle
  <2>3. LockFits(w, Using(c))
    BY <1>1, <1>2, <2>2 DEF LockFits
  <2> QED BY <1>1, <1>2, <2>1, <2>3, GetOkInv
<1>4. CASE GetFails(w)
  <2> DEFINE state == [Idle EXCEPT !.pc = "failover", !.avail = worker[w].avail,
                                   !.tried = worker[w].node]
  <2>1. /\ state \in WorkerStates /\ state.pc = "failover" /\ state.pool = NoPool
        /\ state.client = NoClient
    BY <1>2, IdleWorker DEF WorkerStates, Steps
  <2>2. GetErr(i) /\ Becomes(w, state)
    BY <1>4 DEF GetFails
  <2> HIDE DEF state
  <2>3. Fits(state) /\ LockFits(w, state)
    BY <1>1, <1>2, <2>1 DEF Fits, LockFits
  <2> QED BY <1>1, <1>2, <2>1, <2>2, <2>3, GetErrInv
<1> QED BY <1>3, <1>4

\* A worker that begins or ends its failover takes or gives up the lock.
LEMMA FailoverInv ==
    ASSUME Inv, NEW w \in Workers,
           LockForFailover(w) \/ OthersExhausted(w) \/ ReturnError(w)
    PROVE  Inv'
<1>1. TypeOK /\ Rest /\ UNCHANGED clientVars
  BY DEF Inv, LockForFailover, OthersExhausted, ReturnError
<1>2. /\ worker[w].pc \in {"failover", "others", "failed"}
      /\ worker[w] \in WorkerStates /\ worker[w].client = NoClient /\ Fits(worker[w])
  <2>1. worker[w].pc \in {"failover", "others", "failed"}
    BY <1>1 DEF LockForFailover, OthersExhausted, ReturnError, TypeOK
  <2> QED BY <2>1, NoClientYet
<1>3. CASE LockForFailover(w)
  <2> DEFINE state == [worker[w] EXCEPT !.pc = "others"]
  <2>1. /\ state \in WorkerStates /\ state.pc = "others" /\ state.pool = worker[w].pool
        /\ state.client = NoClient
    BY <1>2 DEF WorkerStates, Steps
  <2>2. Becomes(w, state) /\ mu = Free /\ mu' = w
    BY <1>3 DEF LockForFailover
  <2> HIDE DEF state
  <2>3. Fits(state) /\ LockFits(w, state)
    BY <1>2, <2>1, <2>2, SelectorAssumption DEF Fits, LockFits
  <2> QED BY <1>1, <1>2, <2>1, <2>2, <2>3, WorkerOnlyInv
<1>4. CASE OthersExhausted(w)
  <2> DEFINE state == [Idle EXCEPT !.pc = "failed"]
  <2>1. /\ state \in WorkerStates /\ state.pc = "failed" /\ state.pool = NoPool
        /\ state.client = NoClient
    BY IdleWorker DEF WorkerStates, Steps
  <2>2. Becomes(w, state) /\ mu = w /\ mu' = Free
    BY <1>4 DEF OthersExhausted
  <2> HIDE DEF state
  <2>3. Fits(state) /\ LockFits(w, state)
    BY <1>2, <2>1, <2>2, SelectorAssumption DEF Fits, LockFits
  <2> QED BY <1>1, <1>2, <2>1, <2>2, <2>3, WorkerOnlyInv
<1>5. CASE ReturnError(w)
  <2>1. Becomes(w, Idle) /\ mu' = mu /\ worker[w].pc = "failed"
    BY <1>5 DEF ReturnError
  <2>2. mu # w /\ mu \in Workers \cup {Free}
    BY <1>1, <2>1 DEF TypeOK
  <2>3. Fits(Idle) /\ LockFits(w, Idle)
    BY <2>1, <2>2, IdleWorker DEF Fits, LockFits
  <2> QED BY <1>1, <1>2, <2>1, <2>3, IdleWorker, WorkerOnlyInv
<1> QED BY <1>3, <1>4, <1>5

\* The Gets of the failover, under the lock.
LEMMA OtherInv == ASSUME Inv, NEW w \in Workers, OtherSucceeds(w) \/ OtherFails(w) PROVE Inv'
<1>1. TypeOK /\ Rest /\ mu = w /\ Free \notin Workers
  BY SelectorAssumption DEF Inv, OtherSucceeds, OtherFails
<1>2. /\ worker[w].pc = "others"
      /\ worker[w] \in WorkerStates /\ worker[w].client = NoClient /\ Fits(worker[w])
  <2>1. worker[w].pc = "others"
    BY <1>1 DEF TypeOK
  <2> QED BY <2>1, NoClientYet
<1>3. \A n \in Untried(w) : n \in Names /\ pools[n] \in PoolIds
  BY <1>1 DEF Untried, TypeOK
<1>4. CASE OtherSucceeds(w)
  <2>1. PICK n \in Untried(w), c \in Clients : GetOk(pools[n], c) /\ Becomes(w, Using(c))
    BY <1>4 DEF OtherSucceeds
  <2>2. Using(c).pc = "using"
    BY DEF Using, Idle
  <2>3. LockFits(w, Using(c))
    BY <1>1, <1>4, <2>2 DEF LockFits, OtherSucceeds
  <2> QED BY <1>1, <1>2, <1>3, <2>1, <2>3, GetOkInv
<1>5. CASE OtherFails(w)
  <2>1. PICK n \in Untried(w) : /\ GetErr(pools[n])
                                /\ Becomes(w, [worker[w] EXCEPT !.tried = @ \cup {n}])
    BY <1>5 DEF OtherFails
  <2> DEFINE state == [worker[w] EXCEPT !.tried = @ \cup {n}]
  <2>2. /\ state \in WorkerStates /\ state.pc = "others" /\ state.pool = worker[w].pool
        /\ state.client = NoClient
    BY <1>2, <1>3 DEF WorkerStates
  <2>3. Becomes(w, state) /\ mu' = mu
    BY <1>5, <2>1 DEF OtherFails
  <2> HIDE DEF state
  <2>4. Fits(state) /\ LockFits(w, state)
    BY <1>1, <1>2, <2>2, <2>3 DEF Fits, LockFits
  <2> QED BY <1>1, <1>2, <1>3, <2>1, <2>2, <2>3, <2>4, GetErrInv
<1> QED BY <1>4, <1>5

\* Whoever uses a client, time, and the checker change no place of a client.
LEMMA UseInv ==
    ASSUME Inv, UNCHANGED <<nodes, pools, pool, poolNode, origin, mu, worker>>,
           open' \subseteq open, stale' \subseteq open',
           checked' \subseteq Names, reload' \in [Reloads -> SUBSET Names]
    PROVE  Inv'
<1>1. TypeOK /\ OnePlace /\ Made /\ RetiredPools /\ IdleMatchesNode /\ NoOrphan
      /\ (\A v \in Workers : InStep(v))
  BY DEF Inv
<1>2. PoolIds' = PoolIds /\ Fresh' = Fresh /\ Held' = Held
      /\ IdleIn(DOMAIN pools)' = IdleIn(DOMAIN pools)
  BY DEF PoolIds, Fresh, Held, HeldBy, IdleIn
<1>3. \A v \in Workers : HeldBy(v)' = HeldBy(v) /\ (InStep(v)' <=> InStep(v))
  BY DEF HeldBy, InStep, NodeOf
<1>4. TypeOK'
  BY <1>1, <1>2 DEF TypeOK
<1>5. OnePlace' /\ Made'
  BY <1>1, <1>2, <1>3 DEF OnePlace, Made
<1>6. RetiredPools' /\ IdleMatchesNode' /\ NoOrphan'
  BY <1>1, <1>2 DEF RetiredPools, IdleMatchesNode, NoOrphan, NodeOf
<1> QED BY <1>1, <1>3, <1>4, <1>5, <1>6 DEF Inv

\* The caller may close its client, dial with it, or let it grow old.
LEMMA CallerInv ==
    ASSUME Inv,
           \/ \E w \in Workers : CloseClient(w) \/ Dial(w)
           \/ \E c \in Clients : Expire(c)
           \/ \E g \in Reloads : UpdateChecker(g)
    PROVE  Inv'
<1>1. TypeOK
  BY DEF Inv
<1>2. /\ stale \subseteq open /\ open \subseteq Clients
      /\ checked \subseteq Names /\ reload \in [Reloads -> SUBSET Names]
  BY <1>1 DEF TypeOK
<1>3. ASSUME NEW w \in Workers, CloseClient(w) \/ Dial(w) PROVE Inv'
  <2>1. UNCHANGED <<nodes, pools, pool, poolNode, origin, mu, worker, checked, reload>>
    BY <1>3 DEF CloseClient, Dial, Rest
  <2>2. open' \subseteq open /\ stale' \subseteq open'
    BY <1>2, <1>3 DEF CloseClient, Dial
  <2> QED BY <1>2, <2>1, <2>2, UseInv
<1>4. ASSUME NEW c \in Clients, Expire(c) PROVE Inv'
  <2>1. UNCHANGED <<nodes, pools, pool, poolNode, origin, mu, worker, checked, reload>>
    BY <1>4 DEF Expire, Rest
  <2>2. open' \subseteq open /\ stale' \subseteq open'
    BY <1>2, <1>4 DEF Expire, Valid
  <2> QED BY <1>2, <2>1, <2>2, UseInv
<1>5. ASSUME NEW g \in Reloads, UpdateChecker(g) PROVE Inv'
  <2>1. UNCHANGED <<nodes, pools, pool, poolNode, origin, mu, worker, open, stale>>
    BY <1>5 DEF UpdateChecker, clientVars
  <2>2. checked' \subseteq Names /\ reload' \in [Reloads -> SUBSET Names]
    BY <1>2, <1>5 DEF UpdateChecker, NoReload
  <2> QED BY <1>2, <2>1, <2>2, UseInv
<1> QED BY <1>3, <1>4, <1>5

\* ReleaseClient finds the pool of the client's node, if the node is known.
LEMMA ReleaseLookUpInv == ASSUME Inv, NEW w \in Workers, ReleaseLookUp(w) PROVE Inv'
<1> DEFINE n == NodeOf(worker[w].client)
           i == IF n \in DOMAIN pools THEN pools[n] ELSE NoPool
           state == [worker[w] EXCEPT !.pc = "put", !.pool = i]
<1>1. /\ worker[w].pc = "using" /\ mu = Free /\ mu' = mu /\ Becomes(w, state)
      /\ UNCHANGED clientVars /\ Rest
  BY DEF ReleaseLookUp
<1>2. TypeOK /\ worker[w] \in WorkerStates /\ worker[w].client # NoClient
  BY <1>1 DEF Inv, InStep, TypeOK
<1>3. i \in PoolIds \cup {NoPool} /\ i \in Nat /\ (i # NoPool => poolNode[i] = n)
  BY <1>2, IdsFacts DEF TypeOK, NoPool
<1>4. /\ state \in WorkerStates /\ state.pc = "put" /\ state.pool = i
      /\ state.client = worker[w].client
  BY <1>2, <1>3 DEF WorkerStates, Steps
<1> HIDE DEF state, i
<1>5. Fits(state)
  BY <1>2, <1>3, <1>4 DEF Fits
<1>6. LockFits(w, state)
  BY <1>1, <1>2, <1>4, SelectorAssumption DEF LockFits, TypeOK
<1> QED BY <1>1, <1>4, <1>5, <1>6, WorkerOnlyInv

\* The client goes back to a pool of its node, or is closed.
LEMMA ReleasePutInv == ASSUME Inv, NEW w \in Workers, ReleasePut(w) PROVE Inv'
<1> DEFINE i == worker[w].pool
           c == worker[w].client
<1>1. worker[w].pc = "put" /\ Becomes(w, Idle) /\ mu' = mu /\ Rest
  BY DEF ReleasePut
<1>2. TypeOK /\ OnePlace /\ RetiredPools /\ InStep(w)
  BY DEF Inv
<1>3. /\ worker[w] \in WorkerStates /\ c \in Clients /\ HeldBy(w) = {c}
      /\ i \in PoolIds \cup {NoPool} /\ mu \in Workers \cup {Free} /\ mu # w
  BY <1>1, <1>2 DEF TypeOK, InStep, WorkerStates, HeldBy
<1>4. Fits(Idle) /\ LockFits(w, Idle) /\ Idle.client = NoClient
  BY <1>1, <1>3, IdleWorker DEF Fits, LockFits
<1>5. \A j \in PoolIds : c \notin IdleOf(pool[j])
  BY <1>2, <1>3 DEF OnePlace
<1>6. \A v \in Workers \ {w} : HeldBy(v) \cap {c} = {}
  BY <1>2, <1>3 DEF OnePlace
<1>7. CASE i # NoPool /\ Keeps(pool[i], c, open)
  <2>1. /\ i \in PoolIds /\ pool[i] \in Pools /\ IsInjective(pool[i].clients)
        /\ poolNode[i] = NodeOf(c)
    BY <1>1, <1>2, <1>3, <1>7, IdsFacts DEF OnePlace, InStep
  <2> DEFINE q == Returned(pool[i], c, open)
  <2>2. pool' = [pool EXCEPT ![i] = q] /\ UNCHANGED <<origin, open, stale>>
    BY <1>7 DEF ReleasePut, PutInto
  <2>3. /\ q \in Pools /\ ~pool[i].closed /\ ~q.closed
        /\ IdleOf(q) = IdleOf(pool[i]) \cup {c} /\ IsInjective(q.clients)
    <3>1. c \in Clients /\ c \notin IdleOf(pool[i]) /\ Keeps(pool[i], c, open)
      BY <1>3, <1>5, <1>7, <2>1
    <3> HIDE DEF c, i
    <3>2. /\ q \in Pools /\ ~pool[i].closed /\ q.closed = pool[i].closed
          /\ IdleOf(q) = IdleOf(pool[i]) \cup {c} /\ IsInjective(q.clients)
      BY <2>1, <3>1, ReturnedFacts
    <3> QED BY <3>2
  <2> HIDE DEF q
  <2> QED BY <1>1, <1>3, <1>4, <2>1, <2>2, <2>3, KeepInv
<1>8. CASE i # NoPool /\ ~Keeps(pool[i], c, open)
  <2>1. i \in PoolIds /\ pool[i] \in Pools /\ IsInjective(pool[i].clients)
    BY <1>2, <1>3, <1>8, IdsFacts DEF OnePlace
  <2> DEFINE q == Returned(pool[i], c, open)
  <2>2. pool' = [pool EXCEPT ![i] = q] /\ Drop({c})
    BY <1>8 DEF ReleasePut, PutInto
  <2>3. q \in Pools /\ q.closed = pool[i].closed /\ q.clients = pool[i].clients
    <3>1. c \in Clients /\ ~Keeps(pool[i], c, open)
      BY <1>3, <1>8
    <3> HIDE DEF c, i
    <3> QED BY <2>1, <3>1, ReturnedFacts
  <2>4. IdleOf(q) = IdleOf(pool[i])
    BY <2>3 DEF IdleOf
  <2> HIDE DEF q
  <2>5. pools' = pools
    BY <1>1 DEF Rest
  <2>6. /\ pool' \in Seq(Pools) /\ Len(pool') = Len(pool) /\ PoolIds' = PoolIds
        /\ pool'[i] = q /\ (\A j \in PoolIds \ {i} : pool'[j] = pool[j])
        /\ (\A j \in PoolIds : IsInjective(pool'[j].clients))
        /\ RetiredPools'
    BY <1>2, <2>1, <2>2, <2>3, <2>5, PoolStep
  <2>7. \A j \in PoolIds : IdleOf(pool'[j]) = IdleOf(pool[j]) \ {c}
    BY <1>5, <2>4, <2>6
  <2> QED BY <1>1, <1>3, <1>4, <1>6, <2>2, <2>6, <2>7, DropInv
<1>9. CASE i = NoPool
  <2>1. Drop({c}) /\ pool' = pool /\ pools' = pools
    BY <1>1, <1>3, <1>9 DEF ReleasePut, Rest
  <2>2. /\ pool' \in Seq(Pools) /\ Len(pool') = Len(pool) /\ PoolIds' = PoolIds
        /\ (\A j \in PoolIds : IsInjective(pool'[j].clients))
        /\ RetiredPools'
    BY <1>2, <2>1 DEF TypeOK, PoolIds, OnePlace, RetiredPools
  <2>3. \A j \in PoolIds : IdleOf(pool'[j]) = IdleOf(pool[j]) \ {c}
    BY <1>5, <2>1
  <2> QED BY <1>1, <1>3, <1>4, <1>6, <2>1, <2>2, <2>3, DropInv
<1> QED BY <1>7, <1>8, <1>9

----------------------------------------------------------------------------
(* Reloads and shutdown *)

\* Some of the known pools are closed with what they keep, and new ones are added,
\* while workers go on with the pools and clients they have.
Retires(removed) ==
    /\ removed \subseteq DOMAIN pools
    /\ Drop(IdleIn(removed))
    /\ UNCHANGED <<worker, mu>>
    /\ checked' \subseteq Names /\ reload' \in [Reloads -> SUBSET Names]
    /\ pool' \in Seq(Pools) /\ poolNode' \in Seq(Names) /\ Len(poolNode') = Len(pool')
    /\ PoolIds \subseteq PoolIds'
    /\ \A i \in PoolIds : poolNode'[i] = poolNode[i]
    /\ \A i \in PoolIds : pool'[i] = IF i \in {pools[n] : n \in removed}
                                        THEN Shut(pool[i]) ELSE pool[i]
    /\ \A i \in PoolIds' \ PoolIds : pool'[i] = NewPool /\ \E n \in nodes' : pools'[n] = i
    /\ nodes' \subseteq Names /\ pools' \in [nodes' -> PoolIds']
    /\ \A n \in nodes' : poolNode'[pools'[n]] = n
    /\ \A n \in DOMAIN pools \ removed : n \in nodes' /\ pools'[n] = pools[n]
    /\ \A n \in nodes' : pools'[n] \in PoolIds => n \in DOMAIN pools \ removed

\* What that does to the idle clients.
LEMMA RetireIdle ==
    ASSUME Inv, NEW removed, Retires(removed)
    PROVE  /\ \A i \in {pools[n] : n \in removed} :
                i \in PoolIds /\ pool'[i].closed /\ pool'[i].clients = <<>>
           /\ \A i \in PoolIds : IdleOf(pool'[i]) = IdleOf(pool[i]) \ IdleIn(removed)
           /\ \A i \in PoolIds' \ PoolIds : IdleOf(pool'[i]) = {} /\ ~pool'[i].closed
                                             /\ IsInjective(pool'[i].clients)
<1> DEFINE gone == IdleIn(removed)
           shut == {pools[n] : n \in removed}
<1>1. TypeOK /\ OnePlace /\ (\A i \in PoolIds : pool[i] \in Pools)
  BY IdsFacts DEF Inv
<1>2. shut \subseteq PoolIds
  BY <1>1 DEF Retires, TypeOK
<1>3. ASSUME NEW i \in shut
      PROVE  pool'[i].closed /\ pool'[i].clients = <<>> /\ IdleOf(pool'[i]) = {}
  <2>1. i \in PoolIds /\ pool'[i] = Shut(pool[i]) /\ pool[i] \in Pools
    BY <1>1, <1>2 DEF Retires
  <2>2. Shut(pool[i]) \in Pools /\ Shut(pool[i]).clients = <<>> /\ Shut(pool[i]).closed
    BY <2>1, ShutFacts
  <2>3. IdleOf(Shut(pool[i])) = {}
    BY <2>2, IdleFacts
  <2> QED BY <2>1, <2>2, <2>3
<1>4. \A i \in PoolIds \ shut : pool'[i] = pool[i]
  BY DEF Retires
<1>5. gone = UNION {IdleOf(pool[i]) : i \in shut}
  BY DEF IdleIn
<1>6. \A i \in PoolIds' \ PoolIds : IdleOf(pool'[i]) = {} /\ ~pool'[i].closed
                                      /\ IsInjective(pool'[i].clients)
  BY NewPoolFacts DEF Retires
<1> HIDE DEF gone, shut
<1>7. ASSUME NEW i \in PoolIds PROVE IdleOf(pool'[i]) = IdleOf(pool[i]) \ gone
  <2>1. CASE i \in shut
    BY <1>3, <1>5, <2>1
  <2>2. CASE i \notin shut
    BY <1>1, <1>2, <1>4, <1>5, <2>2 DEF OnePlace
  <2> QED BY <2>1, <2>2
<1> QED BY <1>2, <1>3, <1>6, <1>7 DEF gone, shut

\* The whole invariant survives the retirement of pools, by UpdateNodes or by Close
\* (selector.go:253-280, 299-317).
LEMMA RetireInv ==
    ASSUME Inv, NEW removed, Retires(removed)
    PROVE  Inv'
<1> USE DEF Retires
<1>1. TypeOK /\ OnePlace /\ Made /\ RetiredPools /\ IdleMatchesNode /\ NoOrphan
      /\ (\A v \in Workers : InStep(v))
  BY DEF Inv
<1> DEFINE gone == IdleIn(removed)
           shut == {pools[n] : n \in removed}
<1>2. /\ \A i \in PoolIds : pool[i] \in Pools
      /\ DOMAIN pools = nodes /\ DOMAIN pools' = nodes'
      /\ \A n \in DOMAIN pools : pools[n] \in PoolIds /\ poolNode[pools[n]] = n
  BY <1>1, IdsFacts DEF TypeOK
<1>3. \A m, n \in DOMAIN pools : pools[m] = pools[n] => m = n
  BY <1>2
<1>4. /\ origin \in [Clients -> PoolIds \cup {NoPool}]
      /\ origin' = [d \in Clients |-> IF d \in gone THEN NoPool ELSE origin[d]]
      /\ open' = open \ gone /\ stale' = stale \ gone
      /\ open \subseteq Clients /\ stale \subseteq open
  BY <1>1 DEF Drop, TypeOK
<1>5. /\ origin' \in [Clients -> PoolIds' \cup {NoPool}]
      /\ \A d \in Clients \ gone : origin'[d] = origin[d]
  BY <1>4
<1>6. \A v \in Workers : worker'[v] = worker[v] /\ HeldBy(v)' = HeldBy(v)
  BY DEF HeldBy
<1>7. TypeOK'
  BY <1>1, <1>4, <1>5 DEF TypeOK
<1>8. \A i \in shut : i \in PoolIds /\ pool'[i].closed /\ pool'[i].clients = <<>>
  BY RetireIdle
<1>9. \A i \in PoolIds \ shut : pool'[i] = pool[i]
  OBVIOUS
<1>10. gone = UNION {IdleOf(pool[i]) : i \in shut}
  BY DEF IdleIn
<1>11. shut \subseteq PoolIds
  BY <1>8
<1>12. \A i \in PoolIds : IdleOf(pool'[i]) = IdleOf(pool[i]) \ gone
  BY RetireIdle
<1>13. \A i \in PoolIds' \ PoolIds : IdleOf(pool'[i]) = {} /\ ~pool'[i].closed
                                      /\ IsInjective(pool'[i].clients)
  BY RetireIdle
<1>0. /\ PoolIds \subseteq PoolIds' /\ (\A i \in PoolIds : poolNode'[i] = poolNode[i])
      /\ \A n \in DOMAIN pools \ removed : n \in nodes' /\ pools'[n] = pools[n]
      /\ \A n \in nodes' : pools'[n] \in PoolIds => n \in DOMAIN pools \ removed
      /\ \A i \in PoolIds' \ PoolIds : \E n \in nodes' : pools'[n] = i
  OBVIOUS
<1> HIDE DEF gone, shut, Retires
<1>14. \A v \in Workers : HeldBy(v) \cap gone = {}
  BY <1>1, <1>10, <1>11 DEF OnePlace
<1>15. OnePlace'
  <2>1. \A i \in PoolIds' : IsInjective(pool'[i].clients)
    <3>1. \A i \in shut : IsInjective(pool'[i].clients)
      BY <1>8 DEF IsInjective
    <3> QED BY <1>1, <1>9, <1>13, <3>1 DEF OnePlace
  <2>2. ASSUME NEW j \in PoolIds', NEW k \in PoolIds',
               NEW d \in IdleOf(pool'[j]) \cap IdleOf(pool'[k])
        PROVE  j = k
    <3>1. j \in PoolIds /\ k \in PoolIds
      BY <1>13
    <3>2. d \in IdleOf(pool[j]) \cap IdleOf(pool[k])
      BY <1>12, <3>1
    <3> QED BY <1>1, <3>1, <3>2 DEF OnePlace
  <2>3. \A u, v \in Workers : \A d \in HeldBy(u)' \cap HeldBy(v)' : u = v
    BY <1>1, <1>6 DEF OnePlace
  <2>4. ASSUME NEW j \in PoolIds', NEW v \in Workers
        PROVE  IdleOf(pool'[j]) \cap HeldBy(v)' = {}
    <3>1. CASE j \in PoolIds
      BY <1>1, <1>6, <1>12, <3>1 DEF OnePlace
    <3>2. CASE j \notin PoolIds
      BY <1>13, <3>2
    <3> QED BY <3>1, <3>2
  <2> QED BY <2>1, <2>2, <2>3, <2>4 DEF OnePlace
<1>16. Fresh' \subseteq Fresh \cup gone
  BY <1>5 DEF Fresh
<1>17. Made'
  <2>1. \A j \in PoolIds' : IdleOf(pool'[j]) \cap Fresh' = {}
    BY <1>1, <1>12, <1>13, <1>16 DEF Made
  <2>2. \A v \in Workers : HeldBy(v)' \cap Fresh' = {}
    BY <1>1, <1>6, <1>14, <1>16 DEF Made
  <2> QED BY <2>1, <2>2 DEF Made
<1>18. \A d \in Clients \ gone : origin[d] # NoPool => NodeOf(d)' = NodeOf(d)
  BY <1>0, <1>4, <1>5 DEF NodeOf
<1>19. \A v \in Workers : InStep(v)'
  <2> SUFFICES ASSUME NEW v \in Workers PROVE InStep(v)'
    OBVIOUS
  <2>1. worker'[v] = worker[v] /\ InStep(v)
    BY <1>1, <1>6
  <2>2. ASSUME worker[v].pc = "put", worker[v].pool # NoPool
        PROVE  poolNode'[worker[v].pool] = NodeOf(worker[v].client)'
    <3>1. worker[v].client # NoClient /\ worker[v].client \in Clients /\ worker[v].pool \in PoolIds
      BY <1>1, <2>1, <2>2 DEF InStep, TypeOK, WorkerStates
    <3>2. worker[v].client \in HeldBy(v)
      BY <3>1 DEF HeldBy
    <3>3. worker[v].client \notin gone /\ origin[worker[v].client] # NoPool
      BY <1>1, <1>14, <3>1, <3>2 DEF Made, Fresh
    <3>4. poolNode[worker[v].pool] = NodeOf(worker[v].client)
      BY <2>1, <2>2 DEF InStep
    <3>5. NodeOf(worker[v].client)' = poolNode'[origin'[worker[v].client]]
      BY <2>1 DEF NodeOf
    <3>6. origin'[worker[v].client] = origin[worker[v].client]
          /\ origin[worker[v].client] \in PoolIds
      BY <1>4, <1>5, <3>1, <3>3
    <3> QED BY <1>0, <3>1, <3>4, <3>5, <3>6 DEF NodeOf
  <2> QED BY <2>1, <2>2 DEF InStep
<1>20. IdleMatchesNode'
  <2> SUFFICES ASSUME NEW j \in PoolIds', NEW d \in IdleOf(pool'[j])
               PROVE  NodeOf(d)' = poolNode'[j]
    BY DEF IdleMatchesNode
  <2>1. j \in PoolIds /\ d \in IdleOf(pool[j]) /\ d \notin gone
    BY <1>12, <1>13
  <2>2. d \in Clients /\ origin[d] # NoPool
    BY <1>1, <1>2, <2>1, IdleFacts DEF Made, Fresh
  <2> QED BY <1>0, <1>1, <1>18, <2>1, <2>2 DEF IdleMatchesNode
<1>21. RetiredPools'
  <2> SUFFICES ASSUME NEW i \in PoolIds'
               PROVE  IF \E n \in nodes' : pools'[n] = i
                        THEN ~pool'[i].closed
                        ELSE pool'[i].closed /\ pool'[i].clients = <<>>
    BY <1>2 DEF RetiredPools
  <2>1. CASE i \notin PoolIds
    BY <1>13, <1>0, <2>1
  <2>2. CASE i \in shut
    <3>1. ASSUME NEW n \in nodes', pools'[n] = i PROVE FALSE
      <4>1. PICK m \in removed : pools[m] = i
        BY <2>2 DEF shut
      <4>2. i \in PoolIds /\ m \in DOMAIN pools
        BY <1>11, <2>2 DEF Retires
      <4>3. n \in DOMAIN pools \ removed /\ pools[n] = i
        BY <1>0, <3>1, <4>2
      <4> QED BY <1>3, <4>1, <4>2, <4>3
    <3> QED BY <1>8, <2>2, <3>1
  <2>3. CASE i \in PoolIds \ shut
    <3>1. (\E n \in nodes' : pools'[n] = i) <=> (\E n \in DOMAIN pools : pools[n] = i)
      <4>1. ASSUME NEW n \in nodes', pools'[n] = i PROVE pools[n] = i /\ n \in DOMAIN pools
        BY <1>0, <2>3, <4>1
      <4>2. ASSUME NEW n \in DOMAIN pools, pools[n] = i PROVE pools'[n] = i /\ n \in nodes'
        BY <1>0, <2>3, <4>2 DEF shut
      <4> QED BY <4>1, <4>2
    <3> QED BY <1>1, <1>9, <2>3, <3>1 DEF RetiredPools
  <2> QED BY <2>1, <2>2, <2>3
<1>22. NoOrphan'
  <2> SUFFICES ASSUME NEW d \in open' PROVE d \in Held' \cup IdleIn(DOMAIN pools)'
    BY DEF NoOrphan
  <2>1. d \in open /\ d \notin gone
    BY <1>4
  <2>2. d \in Held \/ d \in IdleIn(DOMAIN pools)
    BY <1>1, <2>1 DEF NoOrphan
  <2>3. CASE d \in Held
    BY <1>6, <2>3 DEF Held
  <2>4. CASE d \in IdleIn(DOMAIN pools)
    <3>1. PICK n \in DOMAIN pools : d \in IdleOf(pool[pools[n]])
      BY <2>4 DEF IdleIn
    <3>2. pools[n] \in PoolIds /\ d \in IdleOf(pool'[pools[n]])
      BY <1>2, <1>12, <2>1, <3>1
    <3>3. n \notin removed
      BY <1>10, <2>1, <3>1 DEF shut
    <3>4. n \in DOMAIN pools' /\ pools'[n] = pools[n]
      BY <1>0, <1>2, <3>1, <3>3
    <3> QED BY <3>2, <3>4 DEF IdleIn
  <2> QED BY <2>2, <2>3, <2>4
<1> QED BY <1>7, <1>15, <1>17, <1>19, <1>20, <1>21, <1>22 DEF Inv

\* Closing the pools of some names leaves the pools where they are.
LEMMA ClosePoolsFacts ==
    ASSUME TypeOK, NEW S \in SUBSET DOMAIN pools
    PROVE  /\ ClosePools(S) \in Seq(Pools)
           /\ Len(ClosePools(S)) = Len(pool)
           /\ \A i \in PoolIds :
                ClosePools(S)[i] = IF i \in {pools[n] : n \in S} THEN Shut(pool[i]) ELSE pool[i]
<1>1. /\ Len(pool) \in Nat /\ PoolIds = 1..Len(pool) /\ PoolIds = DOMAIN pool
      /\ \A i \in PoolIds : pool[i] \in Pools
  BY IdsFacts DEF PoolIds
<1>2. /\ DOMAIN ClosePools(S) = PoolIds
      /\ \A i \in PoolIds :
           ClosePools(S)[i] = IF i \in {pools[n] : n \in S} THEN Shut(pool[i]) ELSE pool[i]
  BY <1>1 DEF ClosePools
<1>3. \A i \in PoolIds : ClosePools(S)[i] \in Pools
  BY <1>1, <1>2, ShutFacts
<1>4. ClosePools(S) \in [1..Len(pool) -> Pools]
  BY <1>1, <1>3 DEF ClosePools
<1>5. ClosePools(S) \in Seq(Pools)
  BY <1>1, <1>4, SeqDef
<1>6. Len(ClosePools(S)) = Len(pool)
  BY <1>1, <1>4, <1>5, LenProperties
<1> QED BY <1>2, <1>5, <1>6

\* A reload keeps the pools of the names it knows and closes the others.
LEMMA UpdateNodesRetires ==
    ASSUME Inv, NEW g \in Reloads, NEW cfg \in Configs, UpdateNodes(g, cfg)
    PROVE  Retires(DOMAIN pools \ cfg)
<1> DEFINE S == cfg \ DOMAIN pools
           added == SetToSeq(S)
           removed == DOMAIN pools \ cfg
           m == Len(pool)
           k == Len(added)
           closed == ClosePools(removed)
           fresh == [i \in DOMAIN added |-> NewPool]
           newId(n) == m + CHOOSE i \in DOMAIN added : added[i] = n
<1>1. TypeOK
  BY DEF Inv
<1>2. /\ nodes' = cfg
      /\ pools' = [n \in cfg |-> IF n \in DOMAIN pools THEN pools[n] ELSE newId(n)]
      /\ pool' = closed \o fresh
      /\ poolNode' = poolNode \o added
      /\ Drop(IdleIn(removed)) /\ UNCHANGED <<worker, mu>>
      /\ reload' = [reload EXCEPT ![g] = cfg] /\ checked' = checked
  BY DEF UpdateNodes
<1>3. /\ cfg \subseteq Names /\ IsFiniteSet(cfg) /\ checked \subseteq Names
      /\ reload \in [Reloads -> SUBSET Names]
  BY <1>1, SelectorAssumption DEF TypeOK
<1>4. IsFiniteSet(S) /\ S \subseteq Names
  BY <1>3, FS_Subset
<1>5. /\ added \in Seq(Names) /\ k \in Nat /\ DOMAIN added = 1..k
      /\ \A i \in 1..k : added[i] \in S
  <2>1. added \in Seq(S)
    BY <1>4, ListOfSet
  <2>2. added \in Seq(Names)
    BY <1>4, <2>1, SeqMonotonic
  <2> QED BY <2>1, <2>2, LenProperties, ElementOfSeq
<1>6. \A n \in S : \E i \in 1..k : newId(n) = m + i /\ added[i] = n
  <2> SUFFICES ASSUME NEW n \in S PROVE \E i \in 1..k : newId(n) = m + i /\ added[i] = n
    OBVIOUS
  <2> DEFINE i == CHOOSE j \in DOMAIN added : added[j] = n
  <2>1. i \in 1..k /\ added[i] = n
    BY <1>4, PlaceInList
  <2> QED BY <2>1
<1>7. \A i, j \in 1..k : added[i] = added[j] => i = j
  BY <1>4, <1>5, ListOfSet DEF IsInjective
<1> HIDE DEF added, k, newId
<1>8. /\ m \in Nat /\ PoolIds = 1..m /\ DOMAIN pools = nodes
      /\ poolNode \in Seq(Names) /\ Len(poolNode) = m
      /\ \A n \in DOMAIN pools : pools[n] \in 1..m /\ poolNode[pools[n]] = n
  BY <1>1, IdsFacts DEF TypeOK
<1>9. /\ fresh \in Seq(Pools) /\ Len(fresh) = k
      /\ \A i \in 1..k : fresh[i] = NewPool
  <2>1. fresh \in [1..k -> Pools]
    BY <1>5, NewPoolFacts
  <2>2. fresh \in Seq(Pools)
    BY <1>5, <2>1, SeqDef
  <2> QED BY <1>5, <2>1, <2>2, LenProperties
<1>10. /\ closed \in Seq(Pools) /\ Len(closed) = m
       /\ \A i \in PoolIds : closed[i] = IF i \in {pools[n] : n \in removed}
                                           THEN Shut(pool[i]) ELSE pool[i]
  BY <1>1, ClosePoolsFacts
<1> HIDE DEF closed, fresh, m
<1>11. /\ pool' \in Seq(Pools) /\ Len(pool') = m + k
       /\ \A i \in 1..(m + k) : pool'[i] = IF i <= m THEN closed[i] ELSE fresh[i - m]
  <2>1. /\ closed \o fresh \in Seq(Pools)
        /\ Len(closed \o fresh) = Len(closed) + Len(fresh)
        /\ \A i \in 1..(Len(closed) + Len(fresh)) :
             (closed \o fresh)[i] = IF i <= Len(closed) THEN closed[i]
                                                      ELSE fresh[i - Len(closed)]
    <3>1. closed \in Seq(Pools) /\ fresh \in Seq(Pools)
      BY <1>9, <1>10
    <3> QED BY <3>1, ConcatProperties
  <2>2. Len(closed) = m /\ Len(fresh) = k
    BY <1>9, <1>10
  <2> QED BY <1>2, <2>1, <2>2
<1>12. /\ poolNode' \in Seq(Names) /\ Len(poolNode') = m + k
       /\ \A i \in 1..(m + k) : poolNode'[i] = IF i <= m THEN poolNode[i] ELSE added[i - m]
  BY <1>2, <1>5, <1>8, ConcatProperties DEF k
<1>13. PoolIds' = 1..(m + k)
  BY <1>5, <1>8, <1>11, LenProperties DEF PoolIds
<1>14. /\ \A i \in PoolIds : pool'[i] = closed[i] /\ poolNode'[i] = poolNode[i]
       /\ \A i \in 1..k : pool'[m + i] = NewPool /\ poolNode'[m + i] = added[i]
       /\ PoolIds \subseteq PoolIds'
  <2>1. \A i \in 1..m : i \in 1..(m + k) /\ i <= m
    BY <1>5, <1>8
  <2>2. \A i \in 1..k : m + i \in 1..(m + k) /\ ~(m + i <= m) /\ (m + i) - m = i
    BY <1>5, <1>8
  <2>3. \A i \in 1..k : pool'[m + i] = fresh[i] /\ poolNode'[m + i] = added[i]
    BY <1>11, <1>12, <2>2
  <2>4. \A i \in PoolIds : pool'[i] = closed[i] /\ poolNode'[i] = poolNode[i]
    BY <1>8, <1>11, <1>12, <2>1
  <2> QED BY <1>8, <1>9, <1>13, <2>1, <2>3, <2>4
<1>15. /\ DOMAIN pools' = cfg
       /\ \A n \in cfg \cap DOMAIN pools : pools'[n] = pools[n]
       /\ \A n \in S : \E i \in 1..k : pools'[n] = m + i /\ added[i] = n
  BY <1>2, <1>6
<1>16. \A i \in 1..k : m + i \in PoolIds' /\ m + i \notin PoolIds
  BY <1>5, <1>8, <1>13
<1>17. \A n \in cfg : pools'[n] \in PoolIds' /\ poolNode'[pools'[n]] = n
  <2> SUFFICES ASSUME NEW n \in cfg PROVE pools'[n] \in PoolIds' /\ poolNode'[pools'[n]] = n
    OBVIOUS
  <2>1. CASE n \in DOMAIN pools
    BY <1>8, <1>14, <1>15, <2>1
  <2>2. CASE n \notin DOMAIN pools
    BY <1>14, <1>15, <1>16, <2>2
  <2> QED BY <2>1, <2>2
<1>18. pools' \in [cfg -> PoolIds']
  BY <1>2, <1>17
<1>19. \A i \in PoolIds' \ PoolIds : pool'[i] = NewPool /\ \E n \in nodes' : pools'[n] = i
  <2> SUFFICES ASSUME NEW i \in PoolIds' \ PoolIds
               PROVE  pool'[i] = NewPool /\ \E n \in nodes' : pools'[n] = i
    OBVIOUS
  <2>1. PICK j \in 1..k : i = m + j
    <3>1. i - m \in 1..k /\ i = m + (i - m)
      BY <1>5, <1>8, <1>13
    <3> QED BY <3>1
  <2>2. added[j] \in S /\ added[j] \in cfg
    BY <1>5
  <2>3. PICK l \in 1..k : pools'[added[j]] = m + l /\ added[l] = added[j]
    BY <1>15, <2>2
  <2>4. l = j
    BY <1>7, <2>3
  <2> QED BY <1>2, <1>14, <2>1, <2>2, <2>3, <2>4
<1>20. \A n \in nodes' : pools'[n] \in PoolIds => n \in DOMAIN pools \ removed
  BY <1>2, <1>15, <1>16
<1>21. \A n \in DOMAIN pools \ removed : n \in nodes' /\ pools'[n] = pools[n]
  BY <1>2, <1>15
<1>22. /\ \A i \in PoolIds : pool'[i] = IF i \in {pools[n] : n \in removed}
                                          THEN Shut(pool[i]) ELSE pool[i]
       /\ \A i \in PoolIds : poolNode'[i] = poolNode[i]
  BY <1>10, <1>14
<1>23. checked' \subseteq Names /\ reload' \in [Reloads -> SUBSET Names] /\ nodes' \subseteq Names
  BY <1>2, <1>3
<1>24. pools' \in [nodes' -> PoolIds'] /\ \A n \in nodes' : poolNode'[pools'[n]] = n
  BY <1>2, <1>17, <1>18
<1>25. Len(poolNode') = Len(pool')
  BY <1>11, <1>12
<1> HIDE DEF S, removed
<1>26. removed \in SUBSET DOMAIN pools
  BY DEF removed
<1> QED
  BY <1>2, <1>11, <1>12, <1>14, <1>19, <1>20, <1>21, <1>22, <1>23, <1>24, <1>25, <1>26
  DEF Retires, removed

\* The shutdown closes every known pool and forgets it.
LEMMA CloseRetires == ASSUME Inv, Close PROVE Retires(DOMAIN pools)
<1>1. TypeOK
  BY DEF Inv
<1>2. /\ pool' = ClosePools(DOMAIN pools) /\ Drop(IdleIn(DOMAIN pools))
      /\ pools' = <<>> /\ nodes' = {}
      /\ UNCHANGED <<poolNode, mu, worker, checked, reload>>
  BY DEF Close
<1>3. /\ pool \in Seq(Pools) /\ poolNode \in Seq(Names) /\ Len(poolNode) = Len(pool)
      /\ Len(pool) \in Nat /\ PoolIds = 1..Len(pool)
      /\ checked \subseteq Names /\ reload \in [Reloads -> SUBSET Names]
  BY <1>1, IdsFacts DEF TypeOK
<1>4. /\ pool' \in Seq(Pools) /\ Len(pool') = Len(pool)
      /\ \A i \in PoolIds : pool'[i] = IF i \in {pools[n] : n \in DOMAIN pools}
                                         THEN Shut(pool[i]) ELSE pool[i]
  BY <1>1, <1>2, ClosePoolsFacts
<1>5. PoolIds' = PoolIds
  BY <1>3, <1>4, LenProperties DEF PoolIds
<1>6. DOMAIN pools' = {}
  BY <1>2, EmptySeq, LenProperties
<1>7. pools' \in [nodes' -> PoolIds']
  <2>1. <<>> \in [1..0 -> PoolIds']
    BY EmptySeq, LenProperties
  <2>2. 1..0 = {}
    OBVIOUS
  <2> QED BY <1>2, <2>1, <2>2
<1>8. Len(poolNode') = Len(pool') /\ poolNode' \in Seq(Names)
  BY <1>2, <1>3, <1>4
<1>9. checked' \subseteq Names /\ reload' \in [Reloads -> SUBSET Names] /\ nodes' \subseteq Names
  BY <1>2, <1>3
<1> QED
  BY <1>2, <1>4, <1>5, <1>7, <1>8, <1>9 DEF Retires

----------------------------------------------------------------------------
\* Every step of the workers, of a reload and of the shutdown preserves Inv.
LEMMA NextInv == Inv /\ [Next]_vars => Inv'
<1> SUFFICES ASSUME Inv, [Next]_vars PROVE Inv'
  OBVIOUS
<1>1. ASSUME NEW w \in Workers, SelectClient(w) \/ Selecting(w) \/ ReturnError(w)
      PROVE  Inv'
  BY <1>1, SelectClientInv, GetInv, FailoverInv, OtherInv DEF Selecting
<1>2. ASSUME NEW w \in Workers, CloseClient(w) \/ Dial(w) PROVE Inv'
  BY <1>2, CallerInv
<1>3. ASSUME NEW w \in Workers, Releasing(w) PROVE Inv'
  BY <1>3, ReleaseLookUpInv, ReleasePutInv DEF Releasing
<1>4. CASE (\E c \in Clients : Expire(c)) \/ (\E g \in Reloads : UpdateChecker(g))
  BY <1>4, CallerInv
<1>5. ASSUME NEW g \in Reloads, NEW cfg \in Configs, UpdateNodes(g, cfg) PROVE Inv'
  BY <1>5, UpdateNodesRetires, RetireInv
<1>6. CASE Close
  BY <1>6, CloseRetires, RetireInv
<1>7. CASE UNCHANGED vars
  <2>1. TypeOK
    BY DEF Inv
  <2> QED BY <1>7, <2>1, UseInv DEF vars, TypeOK
<1> QED BY <1>1, <1>2, <1>3, <1>4, <1>5, <1>6, <1>7 DEF Next

\* The invariant holds in every reachable state of the selector.
LEMMA AlwaysInv == Spec => []Inv
<1> QED BY InitInv, NextInv, PTL DEF Spec

\* Type correctness: also, the worker that runs the failover has the lock.
THEOREM TypeCorrect == Spec => []TypeOK
<1>1. Inv => TypeOK
  BY DEF Inv
<1> QED BY <1>1, AlwaysInv, PTL

\* No reload, shutdown, failed Get or late release leaves an open connection that
\* nobody will close (selector.go:185-203, 205-298).
THEOREM NoConnectionLost == Spec => []NoOrphan
<1>1. Inv => NoOrphan
  BY DEF Inv
<1> QED BY <1>1, AlwaysInv, PTL

\* A pool that a reload has retired stays closed and empty, whoever still uses it.
THEOREM RetiredPoolsStayEmpty == Spec => []RetiredPools
<1>1. Inv => RetiredPools
  BY DEF Inv
<1> QED BY <1>1, AlwaysInv, PTL

\* Whatever failover and reloads do, a client returns to a pool of its own node.
THEOREM ClientsKeepTheirNode == Spec => []IdleMatchesNode
<1>1. Inv => IdleMatchesNode
  BY DEF Inv
<1> QED BY <1>1, AlwaysInv, PTL

----------------------------------------------------------------------------
(* The selector implements ClientLease *)

Loans == UNION {{w} \X HeldBy(w) : w \in Workers}
Spares == UNION {IdleOf(pool[i]) : i \in PoolIds}

\* The clients lent are those that workers have.
LEMMA LentIsHeld == Lease!Lent = Held
<1>1. \A loan \in Loans : loan[2] \in Held
  BY DEF Loans, Held
<1>2. ASSUME NEW c \in Held PROVE \E loan \in Loans : loan[2] = c
  <2>1. PICK w \in Workers : c \in HeldBy(w)
    BY DEF Held
  <2>2. <<w, c>> \in {w} \X HeldBy(w) /\ <<w, c>>[2] = c
    BY <2>1
  <2> QED BY <2>2 DEF Loans
<1>3. Lease!Lent = {loan[2] : loan \in Loans}
  BY DEF Lease!Lent, Loans
<1> QED BY <1>1, <1>2, <1>3

\* All that is lent or spare are clients, so there are no more than those.
LEMMA WithinClients == Inv => Lease!WithinLimit
<1> SUFFICES ASSUME Inv PROVE Lease!WithinLimit
  OBVIOUS
<1>1. Spares \subseteq Clients
  <2>1. \A i \in PoolIds : IdleOf(pool[i]) \subseteq Clients
    BY IdsFacts, IdleFacts DEF Inv
  <2> QED BY <2>1 DEF Spares
<1>2. Held \subseteq Clients
  BY DEF Inv, TypeOK, Held, HeldBy, WorkerStates
<1>3. Held \cup Spares \in SUBSET Clients
  BY <1>1, <1>2
<1>4. Cardinality(Held \cup Spares) <= Cardinality(Clients)
  BY <1>3, FS_Subset, ClientsAssumption
<1>5. ASSUME NEW S PROVE Lease!Cardinality(S) = Cardinality(S)
  BY DEF Lease!Cardinality, Cardinality
<1> QED BY <1>4, <1>5, LentIsHeld DEF Lease!WithinLimit, Spares

\* A worker that gets a client borrows it, and one that has it no more returned it.
LEMMA LoansStep ==
    ASSUME TypeOK, NEW w \in Workers, NEW state, Fits(state), Becomes(w, state)
    PROVE  /\ HeldBy(w) = {} => Loans' = Loans \cup ({w} \X HeldBy(w)')
           /\ HeldBy(w)' = {} => Loans' = Loans \ ({w} \X HeldBy(w))
           /\ HeldBy(w)' = HeldBy(w) => Loans' = Loans
<1>1. \A v \in Workers \ {w} : HeldBy(v)' = HeldBy(v)
  BY WorkerStep
<1>2. /\ \A x : x \in Loans <=> \E v \in Workers : x \in {v} \X HeldBy(v)
      /\ \A x : x \in Loans' <=> \E v \in Workers : x \in {v} \X HeldBy(v)'
  BY DEF Loans
<1>3. \A v \in Workers \ {w} : ({v} \X HeldBy(v)) \cap ({w} \X HeldBy(w)) = {}
  OBVIOUS
<1>4. HeldBy(w) = {} => {w} \X HeldBy(w) = {}
  OBVIOUS
<1>5. HeldBy(w)' = {} => {w} \X HeldBy(w)' = {}
  OBVIOUS
<1> QED BY <1>1, <1>2, <1>3, <1>4, <1>5

\* Until a Get succeeds, and until it is released, a worker has the client it has.
LEMMA SameClients ==
    ASSUME Inv, NEW w \in Workers,
           \/ SelectClient(w) \/ GetFails(w) \/ LockForFailover(w) \/ OtherFails(w)
           \/ OthersExhausted(w) \/ ReturnError(w) \/ ReleaseLookUp(w)
    PROVE  \A v \in Workers : HeldBy(v)' = HeldBy(v)
<1>1. worker \in [Workers -> WorkerStates] /\ TypeOK
  BY DEF Inv, TypeOK
<1>2. \E state : Becomes(w, state) /\ state.client = worker[w].client
  <2>1. CASE SelectClient(w) \/ ReturnError(w)
    <3>1. worker[w].pc \in {"idle", "failed"}
      BY <2>1 DEF SelectClient, ReturnError
    <3>2. worker[w].client = NoClient
      BY <3>1, NoClientYet
    <3>3. CASE SelectClient(w)
      <4>1. PICK avail, n :
              Becomes(w, IF n \in DOMAIN pools
                           THEN [Idle EXCEPT !.pc = "get", !.avail = avail, !.node = {n},
                                             !.pool = pools[n]]
                           ELSE [Idle EXCEPT !.pc = "failed", !.avail = avail, !.tried = {n}])
        BY <3>3 DEF SelectClient
      <4>2. CASE n \in DOMAIN pools
        <5>1. [Idle EXCEPT !.pc = "get", !.avail = avail, !.node = {n},
                           !.pool = pools[n]].client = NoClient
          BY DEF Idle
        <5> QED BY <3>2, <4>1, <4>2, <5>1
      <4>3. CASE n \notin DOMAIN pools
        <5>1. [Idle EXCEPT !.pc = "failed", !.avail = avail, !.tried = {n}].client = NoClient
          BY DEF Idle
        <5> QED BY <3>2, <4>1, <4>3, <5>1
      <4> QED BY <4>2, <4>3
    <3>4. CASE ReturnError(w)
      BY <3>2, <3>4, IdleWorker DEF ReturnError
    <3> QED BY <2>1, <3>3, <3>4
  <2>2. CASE GetFails(w) \/ OthersExhausted(w)
    <3>1. worker[w].pc \in {"get", "others"}
      BY <1>1, <2>2 DEF GetFails, OthersExhausted, TypeOK
    <3>2. worker[w].client = NoClient
      BY <3>1, NoClientYet
    <3>3. /\ [Idle EXCEPT !.pc = "failover", !.avail = worker[w].avail,
                          !.tried = worker[w].node].client = NoClient
          /\ [Idle EXCEPT !.pc = "failed"].client = NoClient
      BY DEF Idle
    <3> QED BY <2>2, <3>2, <3>3 DEF GetFails, OthersExhausted
  <2>3. CASE LockForFailover(w)
    <3>1. [worker[w] EXCEPT !.pc = "others"].client = worker[w].client
      BY <1>1 DEF WorkerStates
    <3> QED BY <2>3, <3>1 DEF LockForFailover
  <2>4. CASE OtherFails(w)
    <3>1. \A n : [worker[w] EXCEPT !.tried = @ \cup {n}].client = worker[w].client
      BY <1>1 DEF WorkerStates
    <3> QED BY <2>4, <3>1 DEF OtherFails
  <2>5. CASE ReleaseLookUp(w)
    <3>1. \A i : [worker[w] EXCEPT !.pc = "put", !.pool = i].client = worker[w].client
      BY <1>1 DEF WorkerStates
    <3> QED BY <2>5, <3>1 DEF ReleaseLookUp
  <2> QED BY <2>1, <2>2, <2>3, <2>4, <2>5
<1> QED BY <1>1, <1>2 DEF Becomes, HeldBy

\* What is taken from one idle stack is spare nowhere else.
LEMMA SparesTaken ==
    ASSUME OnePlace, NEW i \in PoolIds, NEW q, NEW gone, gone \subseteq IdleOf(pool[i]),
           IdleOf(q) = IdleOf(pool[i]) \ gone, pool' = [pool EXCEPT ![i] = q]
    PROVE  Spares' \subseteq Spares /\ Spares \ Spares' = gone
<1>1. /\ PoolIds' = PoolIds /\ IdleOf(pool'[i]) = IdleOf(q)
      /\ \A j \in PoolIds \ {i} : IdleOf(pool'[j]) = IdleOf(pool[j])
  BY DEF PoolIds
<1>2. /\ \A x : x \in Spares' <=> \E j \in PoolIds : x \in IdleOf(pool'[j])
      /\ \A x : x \in Spares <=> \E j \in PoolIds : x \in IdleOf(pool[j])
  BY <1>1 DEF Spares
<1>3. \A x \in gone : \A j \in PoolIds \ {i} : x \notin IdleOf(pool[j])
  BY DEF OnePlace
<1> QED BY <1>1, <1>2, <1>3

\* No Get adds to the idle clients; what it takes from them and does not return it
\* closes; and what it returns was idle there, or is new.
LEMMA GetIdle ==
    ASSUME Inv, NEW i \in PoolIds
    PROVE  /\ GetErr(i) => Spares' \subseteq Spares /\ open' = open \ (Spares \ Spares')
           /\ \A c \in Clients : GetOk(i, c) =>
                /\ c \notin Held
                /\ c \in Spares <=> c \in open
                /\ Spares' \subseteq Spares
                /\ open' = (open \ (Spares \ Spares')) \cup {c}
<1> DEFINE p == pool[i]
<1>1. TypeOK /\ OnePlace /\ Made /\ NoOrphan /\ pool \in Seq(Pools) /\ p \in Pools
  BY IdsFacts DEF Inv, TypeOK
<1>2. IsInjective(p.clients) /\ IdleOf(p) \subseteq Spares
  BY <1>1 DEF OnePlace, Spares
<1>3. AfterMiss(p) \in Pools /\ Discarded(p) \subseteq IdleOf(p)
      /\ IdleOf(AfterMiss(p)) = IdleOf(p) \ Discarded(p)
      /\ IdleOf(Checkout(AfterMiss(p))) = IdleOf(p) \ Discarded(p)
  <2>1. AfterMiss(p) \in Pools /\ IdleOf(p) = IdleOf(AfterMiss(p)) \cup Discarded(p)
        /\ IdleOf(AfterMiss(p)) \cap Discarded(p) = {}
    BY <1>1, <1>2, MissFacts
  <2>2. IdleOf(Checkout(AfterMiss(p))) = IdleOf(AfterMiss(p))
    BY <2>1, CheckoutFacts DEF IdleOf
  <2> QED BY <2>1, <2>2
<1>4. ASSUME GetErr(i) PROVE Spares' \subseteq Spares /\ open' = open \ (Spares \ Spares')
  <2>1. CASE UNCHANGED clientVars
    BY <2>1 DEF clientVars, Spares, PoolIds
  <2>2. CASE pool' = [pool EXCEPT ![i] = AfterMiss(@)] /\ Drop(Discarded(pool[i]))
    <3>1. pool' = [pool EXCEPT ![i] = AfterMiss(p)] /\ open' = open \ Discarded(p)
      BY <2>2 DEF Drop
    <3>2. Spares' \subseteq Spares /\ Spares \ Spares' = Discarded(p)
      BY <1>1, <1>3, <3>1, SparesTaken
    <3> QED BY <3>1, <3>2
  <2> QED BY <1>4, <2>1, <2>2 DEF GetErr
<1>5. ASSUME NEW c \in Clients, GetOk(i, c)
      PROVE  /\ c \notin Held
             /\ c \in Spares <=> c \in open
             /\ Spares' \subseteq Spares
             /\ open' = (open \ (Spares \ Spares')) \cup {c}
  <2>1. CASE /\ Reuses(pool[i], Valid) /\ c = Last(pool[i].clients) /\ open' = open
             /\ pool' = [pool EXCEPT ![i] = Popped(@)]
    <3>1. /\ c \in IdleOf(p) /\ c \in open /\ p.clients # <<>>
          /\ pool' = [pool EXCEPT ![i] = Popped(p)]
      BY <1>1, <2>1, IdleFacts DEF Reuses, Valid
    <3>2. IdleOf(Popped(p)) = IdleOf(p) \ {c}
      BY <1>1, <1>2, <2>1, <3>1, PoppedFacts
    <3>3. Spares' \subseteq Spares /\ Spares \ Spares' = {c}
      BY <1>1, <3>1, <3>2, SparesTaken
    <3>4. c \notin Held
      BY <1>1, <3>1 DEF OnePlace, Held
    <3> QED BY <1>2, <2>1, <3>1, <3>3, <3>4
  <2>2. CASE /\ c \in Fresh /\ open' = (open \ Discarded(pool[i])) \cup {c}
             /\ pool' = [pool EXCEPT ![i] = Checkout(AfterMiss(@))]
    <3>1. pool' = [pool EXCEPT ![i] = Checkout(AfterMiss(p))]
      BY <2>2
    <3>2. Spares' \subseteq Spares /\ Spares \ Spares' = Discarded(p)
      BY <1>1, <1>3, <3>1, SparesTaken
    <3>3. c \notin Held /\ c \notin Spares
      BY <1>1, <2>2 DEF Made, Held, Spares
    <3>4. c \notin open
      BY <1>1, <3>3 DEF NoOrphan, IdleIn, Spares, TypeOK
    <3> QED BY <2>2, <3>2, <3>3, <3>4
  <2> QED BY <1>5, <2>1, <2>2 DEF GetOk
<1> QED BY <1>4, <1>5

\* A Get that succeeds lends.
LEMMA GetLends ==
    ASSUME Inv, Inv', Lease!WithinLimit', NEW w \in Workers, NEW i \in PoolIds,
           NEW c \in Clients, GetOk(i, c), worker[w].client = NoClient, Becomes(w, Using(c))
    PROVE  Lease!Lend(w, c)
<1>1. /\ c \notin Lease!Lent /\ Spares' \subseteq Spares
      /\ c \in Spares <=> c \in open
      /\ open' = (open \ (Spares \ Spares')) \cup {c}
  BY GetIdle, LentIsHeld
<1>2. TypeOK /\ OnePlace'
  BY DEF Inv
<1>3. HeldBy(w) = {} /\ HeldBy(w)' = {c}
  BY <1>2, UsingWorker, WorkerStep DEF HeldBy
<1>4. Loans' = Loans \cup {<<w, c>>}
  <2>1. {w} \X {c} = {<<w, c>>}
    OBVIOUS
  <2> QED BY <1>2, <1>3, <2>1, UsingWorker, LoansStep
<1>5. c \notin Spares'
  BY <1>2, <1>3 DEF OnePlace, Spares
<1> QED BY <1>1, <1>4, <1>5 DEF Lease!Lend, Lease!Given, Loans, Spares

\* A release puts an open client on an idle stack, or drops it.
LEMMA ReleaseSpares ==
    ASSUME Inv, NEW w \in Workers, ReleasePut(w)
    PROVE  LET c == worker[w].client
           IN  /\ c \in Clients /\ HeldBy(w) = {c} /\ HeldBy(w)' = {}
               /\ \/ c \in open /\ Spares' = Spares \cup {c} /\ UNCHANGED <<origin, open>>
                  \/ Spares' = Spares /\ Drop({c})
<1> DEFINE i == worker[w].pool
           c == worker[w].client
<1>1. /\ worker[w].pc = "put" /\ Becomes(w, Idle)
      /\ TypeOK /\ OnePlace /\ InStep(w) /\ pool \in Seq(Pools)
  BY DEF ReleasePut, Inv, TypeOK
<1>2. c \in Clients /\ HeldBy(w) = {c} /\ i \in PoolIds \cup {NoPool}
  BY <1>1 DEF TypeOK, InStep, WorkerStates, HeldBy
<1>3. Fits(Idle)
  BY IdleWorker DEF Fits
<1>4. HeldBy(w)' = {}
  BY <1>1, <1>3, IdleWorker, WorkerStep
<1>5. CASE i = NoPool
  <2>1. Drop({c}) /\ pool' = pool
    BY <1>2, <1>5 DEF ReleasePut
  <2>2. Spares' = Spares
    BY <2>1 DEF Spares, PoolIds
  <2> QED BY <1>2, <1>4, <2>1, <2>2
<1>6. CASE i # NoPool
  <2> DEFINE q == Returned(pool[i], c, open)
  <2>1. i \in PoolIds /\ pool[i] \in Pools
    BY <1>1, <1>2, <1>6, IdsFacts
  <2>2. pool' = [pool EXCEPT ![i] = q]
    BY <1>6 DEF ReleasePut, PutInto
  <2>3. /\ Keeps(pool[i], c, open) => c \in open /\ IdleOf(q) = IdleOf(pool[i]) \cup {c}
        /\ ~Keeps(pool[i], c, open) => IdleOf(q) = IdleOf(pool[i])
    <3>1. c \in Clients
      BY <1>2
    <3> HIDE DEF c, i
    <3>2. ~Keeps(pool[i], c, open) => q.clients = pool[i].clients
      BY <2>1, <3>1, ReturnedFacts
    <3>3. Keeps(pool[i], c, open) => c \in open /\ IdleOf(q) = IdleOf(pool[i]) \cup {c}
      BY <2>1, <3>1, ReturnedFacts
    <3> QED BY <3>2, <3>3 DEF IdleOf
  <2> HIDE DEF q
  <2>4. /\ PoolIds' = PoolIds /\ IdleOf(pool'[i]) = IdleOf(q)
        /\ \A j \in PoolIds \ {i} : IdleOf(pool'[j]) = IdleOf(pool[j])
    BY <2>1, <2>2 DEF PoolIds
  <2>5. \A x : x \in Spares' <=> \E j \in PoolIds : x \in IdleOf(pool'[j])
    BY <2>4 DEF Spares
  <2>6. \A x : x \in Spares <=> \E j \in PoolIds : x \in IdleOf(pool[j])
    BY DEF Spares
  <2>7. CASE Keeps(pool[i], c, open)
    <3>1. UNCHANGED <<origin, open>>
      BY <1>6, <2>7 DEF ReleasePut, PutInto
    <3> HIDE DEF c, i
    <3>2. \A x : x \in Spares' <=> x \in Spares \/ x = c
      BY <2>1, <2>3, <2>4, <2>5, <2>6, <2>7
    <3>3. c \in open /\ Spares' = Spares \cup {c}
      BY <2>3, <2>7, <3>2
    <3> QED BY <1>2, <1>4, <3>1, <3>3 DEF c
  <2>8. CASE ~Keeps(pool[i], c, open)
    <3>1. Drop({c})
      BY <1>6, <2>8 DEF ReleasePut, PutInto
    <3>2. Spares' = Spares
      <4> HIDE DEF c, i
      <4> QED BY <2>1, <2>3, <2>4, <2>5, <2>6, <2>8
    <3> QED BY <1>2, <1>4, <3>1, <3>2
  <2> QED BY <2>7, <2>8
<1> QED BY <1>5, <1>6

\* A release takes the client back, into a pool or not.
LEMMA ReleaseTakesBack ==
    ASSUME Inv, Lease!WithinLimit', NEW w \in Workers, ReleasePut(w)
    PROVE  \E c \in Clients : Lease!TakeBack(w, c)
<1> DEFINE c == worker[w].client
<1>1. /\ c \in Clients /\ HeldBy(w) = {c} /\ HeldBy(w)' = {}
      /\ \/ c \in open /\ Spares' = Spares \cup {c} /\ open' = open
         \/ Spares' = Spares /\ open' = open \ {c}
  BY ReleaseSpares DEF Drop
<1>2. TypeOK /\ Becomes(w, Idle) /\ Fits(Idle)
  BY IdleWorker DEF ReleasePut, Inv, Fits
<1>3. Loans' = Loans \ {<<w, c>>} /\ <<w, c>> \in Loans
  <2>1. {w} \X {c} = {<<w, c>>}
    OBVIOUS
  <2> QED BY <1>1, <1>2, <2>1, LoansStep DEF Loans
<1>4. Lease!TakeBack(w, c)
  <2> HIDE DEF c
  <2> QED BY <1>1, <1>3 DEF Lease!TakeBack, Loans, Spares
<1> QED BY <1>1, <1>4 DEF Lease!TakeBack

\* Each step of the selector is a step of the lease, or changes nothing there.
LEMMA LeaseStep ==
    Inv /\ Inv' /\ Lease!WithinLimit' /\ [Next]_vars => [Lease!Next]_<<Loans, Spares, open>>
<1> SUFFICES ASSUME Inv, Inv', Lease!WithinLimit', [Next]_vars
             PROVE  Lease!Next \/ UNCHANGED <<Loans, Spares, open>>
  OBVIOUS
<1>1. ASSUME Loans' = Loans, Spares' \subseteq Spares, open' = open \ (Spares \ Spares')
      PROVE  Lease!Next
  BY <1>1 DEF Lease!Next, Lease!GiveUp, Lease!Given, Loans, Spares
<1>2. ASSUME NEW w \in Workers, NEW c \in Clients,
             Lease!Lend(w, c) \/ Lease!TakeBack(w, c) \/ Lease!Close(w, c)
      PROVE  Lease!Next
  BY <1>2 DEF Lease!Next
<1>3. ASSUME NEW w \in Workers,
             SelectClient(w) \/ LockForFailover(w) \/ OthersExhausted(w) \/ ReturnError(w)
               \/ ReleaseLookUp(w)
      PROVE  UNCHANGED <<Loans, Spares, open>>
  <2>1. pool' = pool /\ open' = open
    BY <1>3 DEF SelectClient, LockForFailover, OthersExhausted, ReturnError, ReleaseLookUp,
                clientVars
  <2> QED BY <1>3, <2>1, SameClients DEF Loans, Spares, PoolIds
<1>4. ASSUME NEW w \in Workers, GetSucceeds(w) \/ OtherSucceeds(w) PROVE Lease!Next
  <2>1. worker[w].pc \in {"get", "others"}
    BY <1>4 DEF GetSucceeds, OtherSucceeds, Inv, TypeOK
  <2>2. worker[w].client = NoClient
    BY <2>1, NoClientYet
  <2>3. \E i \in PoolIds, c \in Clients : GetOk(i, c) /\ Becomes(w, Using(c))
    <3>1. CASE GetSucceeds(w)
      BY <3>1, NoClientYet DEF GetSucceeds
    <3>2. CASE OtherSucceeds(w)
      BY <3>2 DEF OtherSucceeds, Untried, Inv, TypeOK
    <3> QED BY <1>4, <3>1, <3>2
  <2> QED BY <1>2, <2>2, <2>3, GetLends
<1>5. ASSUME NEW w \in Workers, GetFails(w) \/ OtherFails(w) PROVE Lease!Next
  <2>1. \E i \in PoolIds : GetErr(i)
    <3>1. CASE GetFails(w)
      BY <3>1, NoClientYet DEF GetFails
    <3>2. CASE OtherFails(w)
      BY <3>2 DEF OtherFails, Untried, Inv, TypeOK
    <3> QED BY <1>5, <3>1, <3>2
  <2> QED BY <1>1, <1>5, <2>1, SameClients, GetIdle DEF Loans
<1>6. ASSUME NEW w \in Workers, ReleasePut(w) PROVE Lease!Next
  BY <1>2, <1>6, ReleaseTakesBack
<1>7. ASSUME NEW removed, Retires(removed) PROVE Lease!Next
  <2>1. /\ \A i \in PoolIds : IdleOf(pool'[i]) = IdleOf(pool[i]) \ IdleIn(removed)
        /\ \A i \in PoolIds' \ PoolIds : IdleOf(pool'[i]) = {}
        /\ PoolIds \subseteq PoolIds' /\ open' = open \ IdleIn(removed)
    BY <1>7, RetireIdle DEF Retires, Drop
  <2>2. IdleIn(removed) \subseteq Spares
    BY <1>7 DEF Retires, IdleIn, Spares, Inv, TypeOK
  <2>3. Spares' \subseteq Spares /\ Spares \ Spares' = IdleIn(removed)
    BY <2>1, <2>2 DEF Spares
  <2>4. Loans' = Loans
    BY <1>7 DEF Retires, Loans, HeldBy
  <2> QED BY <1>1, <2>1, <2>3, <2>4
<1>8. ASSUME NEW w \in Workers, CloseClient(w) PROVE Lease!Next
  <2> DEFINE c == worker[w].client
  <2>1. /\ c \in open /\ open' = open \ HeldBy(w) /\ Loans' = Loans /\ Spares' = Spares
    BY <1>8 DEF CloseClient, Loans, HeldBy, Spares, PoolIds
  <2>2. c \in Clients /\ HeldBy(w) = {c}
    BY <2>1, SelectorAssumption DEF Inv, TypeOK, HeldBy
  <2>3. <<w, c>> \in Loans
    BY <2>2 DEF Loans
  <2>4. Lease!Close(w, c)
    BY <2>1, <2>2, <2>3 DEF Lease!Close, Loans, Spares
  <2> QED BY <1>2, <2>2, <2>4
<1>9. ASSUME UNCHANGED <<pool, worker, open>> PROVE UNCHANGED <<Loans, Spares, open>>
  BY <1>9 DEF Loans, HeldBy, Spares, PoolIds
<1>10. CASE \E w \in Workers : SelectClient(w) \/ Selecting(w) \/ ReturnError(w) \/ Releasing(w)
  BY <1>3, <1>4, <1>5, <1>6, <1>10 DEF Selecting, Releasing
<1>11. CASE (\E w \in Workers : CloseClient(w) \/ Dial(w)) \/ (\E c \in Clients : Expire(c))
  BY <1>8, <1>9, <1>11 DEF Dial, Expire
<1>12. CASE (\E g \in Reloads : UpdateChecker(g)) \/ UNCHANGED vars
  BY <1>9, <1>12 DEF UpdateChecker, clientVars, vars
<1>13. CASE (\E g \in Reloads : \E cfg \in Configs : UpdateNodes(g, cfg)) \/ Close
  BY <1>7, <1>13, UpdateNodesRetires, CloseRetires
<1> QED BY <1>10, <1>11, <1>12, <1>13 DEF Next

\* All pools together, with reloads, failover and shutdown, keep what ClientLease
\* promises: the client of a worker is its own until it releases it and was a spare or
\* new when the worker got it, only open clients become spares, and the spares that are
\* given up are closed.
THEOREM SelectorImplementsLease == Spec => ImplementsLease
<1>1. Init => Lease!Init
  <2> SUFFICES ASSUME Init PROVE Lease!Init
    OBVIOUS
  <2>1. \A w \in Workers : HeldBy(w) = {}
    BY IdleWorker DEF Init, HeldBy
  <2>2. \A i \in PoolIds : pool[i] = NewPool
    BY DEF Init, PoolIds
  <2>3. Loans = {} /\ Spares = {} /\ open = {}
    BY <2>1, <2>2, NewPoolFacts DEF Loans, Spares, Init
  <2> QED BY <2>3 DEF Lease!Init, Loans, Spares
<1>2. [Lease!Next]_<<Loans, Spares, open>>
        => [Lease!Next]_<<UNION {{w} \X HeldBy(w) : w \in Workers},
                          UNION {IdleOf(pool[i]) : i \in PoolIds}, open>>
  BY DEF Loans, Spares
<1> QED
  BY <1>1, <1>2, AlwaysInv, WithinClients, LeaseStep, PTL DEF ImplementsLease, Lease!Spec, Spec

----------------------------------------------------------------------------
(* ExecuteWithFailover *)

\* Where a goroutine is in its call, and where in the selector.
Matches(call, step) ==
    /\ call.pc \in {"none", "select", "waiting"} => step = "idle"
    /\ call.pc = "selecting" => step \in {"get", "failover", "others", "failed", "using"}
    /\ call.pc \in {"operating", "closing"} => step = "using"
    /\ call.pc = "releasing" => step = "put"
    /\ call.pc = "waiting" => call.attempt < MaxRetries

\* A client on which an operation has failed is closed and on no idle stack, and
\* only the call that closed it has it.
BrokenApart ==
    /\ broken \cap (Fresh \cup open \cup Spares) = {}
    /\ \A w \in Workers : exec[w].pc \notin {"closing", "releasing"}
                           => HeldBy(w) \cap broken = {}

\* CallsSettle and BrokenNeverLent are inductive only together with the step of the
\* selector each call is in (Matches) and all that the selector keeps (Inv).
CallInv ==
    /\ Inv
    /\ FailoverTypeOK
    /\ \A w \in Workers : Matches(exec[w], worker[w].pc)
    /\ BrokenApart

\* The selector step that worker w takes moves no other worker.
Moves(w, steps) ==
    /\ worker'[w].pc \in steps
    /\ \A v \in Workers \ {w} : worker'[v] = worker[v]

\* What each operation of the selector leaves its worker at.
LEMMA WorkerMoves ==
    ASSUME TypeOK, NEW w \in Workers
    PROVE  /\ SelectClient(w) => Moves(w, {"get", "failed"})
           /\ GetSucceeds(w) \/ OtherSucceeds(w) => Moves(w, {"using"})
           /\ GetFails(w) => Moves(w, {"failover"})
           /\ LockForFailover(w) \/ OtherFails(w) => Moves(w, {"others"})
           /\ OthersExhausted(w) => Moves(w, {"failed"})
           /\ ReturnError(w) \/ ReleasePut(w) => Moves(w, {"idle"})
           /\ ReleaseLookUp(w) => Moves(w, {"put"})
<1>1. worker \in [Workers -> WorkerStates] /\ worker[w] \in WorkerStates
  BY DEF TypeOK
<1>2. ASSUME NEW state, NEW steps, Becomes(w, state), state.pc \in steps
      PROVE  Moves(w, steps)
  BY <1>1, <1>2 DEF Becomes, Moves
<1>3. SelectClient(w) => Moves(w, {"get", "failed"})
  BY <1>2 DEF SelectClient, Idle
<1>4. GetSucceeds(w) \/ OtherSucceeds(w) => Moves(w, {"using"})
  BY <1>2 DEF GetSucceeds, OtherSucceeds, Using, Idle
<1>5. GetFails(w) => Moves(w, {"failover"})
  BY <1>2 DEF GetFails, Idle
<1>6. LockForFailover(w) \/ OtherFails(w) => Moves(w, {"others"})
  BY <1>1, <1>2 DEF LockForFailover, OtherFails, WorkerStates, TypeOK
<1>7. OthersExhausted(w) => Moves(w, {"failed"})
  BY <1>2 DEF OthersExhausted, Idle
<1>8. ReturnError(w) \/ ReleasePut(w) => Moves(w, {"idle"})
  BY <1>2, IdleWorker DEF ReturnError, ReleasePut
<1>9. ReleaseLookUp(w) => Moves(w, {"put"})
  BY <1>1, <1>2 DEF ReleaseLookUp, WorkerStates
<1> QED BY <1>3, <1>4, <1>5, <1>6, <1>7, <1>8, <1>9

\* Every step of a call is one of the selector, or leaves the selector alone.
LEMMA CallStepsSelector == [FailoverNext]_allVars => [Next]_vars
<1> SUFFICES ASSUME [FailoverNext]_allVars PROVE Next \/ UNCHANGED vars
  OBVIOUS
<1>1. CASE UNCHANGED allVars
  BY <1>1 DEF allVars
<1>2. ASSUME NEW w \in Workers, Execute(w) PROVE UNCHANGED vars
  BY <1>2 DEF Execute
<1>3. ASSUME NEW w \in Workers, WeightedSelect(w) \/ SelectorStep(w) PROVE Next
  BY <1>3 DEF WeightedSelect, SelectorStep, OtherInOrder, Next, Selecting
<1>4. ASSUME NEW w \in Workers, CallStep(w) PROVE Next \/ UNCHANGED vars
  BY <1>4 DEF CallStep, SelectRefused, Skip, Operate, OperationSucceeds, OperationFails,
              ReleaseFailed, Released, Wait, Next, Releasing
<1> QED BY <1>1, <1>2, <1>3, <1>4 DEF FailoverNext, InCall

CallStates == [pc : {"none", "select", "selecting", "operating", "closing", "releasing", "waiting"},
               attempt : 0..MaxRetries,
               tried : SUBSET Names,
               outcome : {"none", "done", "failed", "skipped"}]

\* What the steps of a call have in common.
LEMMA CallMoves ==
    ASSUME CallInv, NEW w \in Workers, NEW state \in CallStates, Call(w, state),
           NEW steps, Moves(w, steps), \A step \in steps : Matches(state, step),
           current' \in 0..(Cycle - 1), broken' \subseteq Clients
    PROVE  /\ FailoverTypeOK'
           /\ exec'[w] = state
           /\ \A v \in Workers \ {w} : exec'[v] = exec[v] /\ HeldBy(v)' = HeldBy(v)
           /\ \A v \in Workers : Matches(exec'[v], worker'[v].pc)
<1>1. exec \in [Workers -> CallStates] /\ exec' = [exec EXCEPT ![w] = state]
  BY DEF CallInv, FailoverTypeOK, CallStates, Call
<1>2. exec' \in [Workers -> CallStates] /\ exec'[w] = state
      /\ \A v \in Workers \ {w} : exec'[v] = exec[v] /\ worker'[v] = worker[v]
  BY <1>1 DEF Moves
<1>3. Matches(exec'[w], worker'[w].pc)
  BY <1>2 DEF Moves
<1>4. \A v \in Workers \ {w} : Matches(exec'[v], worker'[v].pc)
  BY <1>2 DEF CallInv
<1>5. FailoverTypeOK'
  BY <1>2 DEF FailoverTypeOK, CallStates
<1> QED BY <1>2, <1>3, <1>4, <1>5 DEF HeldBy

\* The states of a call that its steps make.
LEMMA CallStatesFacts ==
    ASSUME NEW call \in CallStates
    PROVE  /\ NoCall \in CallStates /\ NoCall.pc = "none"
           /\ \A pc \in {"select", "selecting", "closing", "waiting"} :
                /\ [call EXCEPT !.pc = pc] \in CallStates
                /\ [call EXCEPT !.pc = pc].pc = pc
                /\ [call EXCEPT !.pc = pc].attempt = call.attempt
           /\ \A tried \in SUBSET Names :
                /\ [call EXCEPT !.pc = "operating", !.tried = @ \cup tried] \in CallStates
                /\ [call EXCEPT !.pc = "operating", !.tried = @ \cup tried].pc = "operating"
           /\ \A outcome \in {"done", "failed", "skipped"} :
                /\ [call EXCEPT !.pc = "releasing", !.outcome = outcome] \in CallStates
                /\ [call EXCEPT !.pc = "releasing", !.outcome = outcome].pc = "releasing"
           /\ call.attempt < MaxRetries =>
                /\ [call EXCEPT !.pc = "select", !.attempt = @ + 1, !.outcome = "none"]
                     \in CallStates
                /\ [call EXCEPT !.pc = "select", !.attempt = @ + 1, !.outcome = "none"].pc
                     = "select"
<1>1. NoCall \in CallStates /\ NoCall.pc = "none"
  BY FailoverAssumption DEF NoCall, CallStates
<1>2. /\ call.attempt < MaxRetries => call.attempt + 1 \in 0..MaxRetries
      /\ call.tried \subseteq Names
  BY FailoverAssumption DEF CallStates
<1> QED BY <1>1, <1>2 DEF CallStates

\* A client gets out of the reach of its pool, or into that of a worker, only as
\* a spare or as a new one.
LEMMA GetTakes ==
    ASSUME Inv, NEW i \in PoolIds
    PROVE  /\ GetErr(i) => /\ open' \subseteq open
                           /\ \A d \in Clients \ Spares : origin'[d] = origin[d]
           /\ \A c \in Clients : GetOk(i, c) =>
                /\ c \in Spares \cup Fresh
                /\ open' \subseteq open \cup {c}
                /\ \A d \in Clients \ (Spares \cup Fresh) : origin'[d] = origin[d]
<1>1. pool[i] \in Pools /\ origin \in [Clients -> PoolIds \cup {NoPool}]
  BY IdsFacts DEF Inv, TypeOK
<1>2. Discarded(pool[i]) \subseteq Spares
  BY <1>1, MissFacts DEF Spares
<1>3. GetErr(i) => /\ open' \subseteq open
                   /\ \A d \in Clients \ Spares : origin'[d] = origin[d]
  BY <1>1, <1>2 DEF GetErr, Drop, clientVars
<1>4. ASSUME NEW c \in Clients, GetOk(i, c)
      PROVE  /\ c \in Spares \cup Fresh
             /\ open' \subseteq open \cup {c}
             /\ \A d \in Clients \ (Spares \cup Fresh) : origin'[d] = origin[d]
  <2>1. CASE Reuses(pool[i], Valid) /\ c = Last(pool[i].clients) /\ UNCHANGED <<origin, open>>
    <3>1. c \in IdleOf(pool[i])
      BY <1>1, <2>1, IdleFacts DEF Reuses
    <3> QED BY <2>1, <3>1 DEF Spares
  <2>2. CASE /\ c \in Fresh
             /\ open' = (open \ Discarded(pool[i])) \cup {c}
             /\ origin' = [d \in Clients |-> IF d = c THEN i
                                             ELSE IF d \in Discarded(pool[i]) THEN NoPool
                                             ELSE origin[d]]
    BY <1>1, <1>2, <2>2
  <2> QED BY <1>4, <2>1, <2>2 DEF GetOk
<1> QED BY <1>3, <1>4

\* The selector's steps before a worker has a client lend it none that is broken.
LEMMA SelectionApart ==
    ASSUME CallInv, Inv', NEW w \in Workers, SelectClient(w) \/ Selecting(w), broken' = broken,
           exec[w].pc \notin {"closing", "releasing"},
           \A v \in Workers \ {w} : exec'[v] = exec[v]
    PROVE  BrokenApart'
<1>1. Inv /\ TypeOK /\ broken \subseteq Clients /\ BrokenApart /\ HeldBy(w) \cap broken = {}
  BY DEF CallInv, FailoverTypeOK, Inv, BrokenApart
<1>2. /\ \A v \in Workers \ {w} : exec'[v].pc \notin {"closing", "releasing"}
                                   => HeldBy(v) \cap broken = {}
      /\ broken \cap Fresh = {} /\ broken \cap open = {} /\ broken \cap Spares = {}
  BY <1>1 DEF BrokenApart
<1>3. ASSUME open' \cap broken = {}, Spares' \subseteq Spares,
             \A d \in Clients \ (Spares \cup Fresh) : origin'[d] = origin[d],
             \A v \in Workers \ {w} : HeldBy(v)' = HeldBy(v),
             HeldBy(w)' \cap broken = {}
      PROVE  BrokenApart'
  <2>1. broken \cap Fresh' = {}
    BY <1>1, <1>2, <1>3 DEF Fresh
  <2> QED BY <1>2, <1>3, <2>1 DEF BrokenApart
<1>4. CASE GetFails(w) \/ OtherFails(w)
  <2>1. \E i \in PoolIds : GetErr(i)
    <3>1. CASE GetFails(w)
      BY <1>1, <3>1, NoClientYet DEF GetFails
    <3>2. CASE OtherFails(w)
      BY <1>1, <3>2 DEF OtherFails, Untried, TypeOK
    <3> QED BY <1>4, <3>1, <3>2
  <2>2. Spares' \subseteq Spares /\ open' \subseteq open
        /\ \A d \in Clients \ Spares : origin'[d] = origin[d]
    BY <1>1, <2>1, GetIdle, GetTakes
  <2>3. \A v \in Workers : HeldBy(v)' = HeldBy(v)
    BY <1>1, <1>4, SameClients
  <2> QED BY <1>1, <1>2, <1>3, <2>2, <2>3
<1>5. CASE GetSucceeds(w) \/ OtherSucceeds(w)
  <2>1. PICK i \in PoolIds, c \in Clients : GetOk(i, c) /\ Becomes(w, Using(c))
    <3>1. CASE GetSucceeds(w)
      BY <1>1, <3>1, NoClientYet DEF GetSucceeds
    <3>2. CASE OtherSucceeds(w)
      BY <1>1, <3>2 DEF OtherSucceeds, Untried, TypeOK
    <3> QED BY <1>5, <3>1, <3>2
  <2>2. /\ Spares' \subseteq Spares /\ c \in Spares \cup Fresh /\ open' \subseteq open \cup {c}
        /\ \A d \in Clients \ (Spares \cup Fresh) : origin'[d] = origin[d]
    BY <1>1, <2>1, GetIdle, GetTakes
  <2>3. HeldBy(w)' = {c} /\ \A v \in Workers \ {w} : HeldBy(v)' = HeldBy(v)
    BY <1>1, <2>1, UsingWorker, WorkerStep
  <2> QED BY <1>2, <1>3, <2>2, <2>3
<1>6. CASE SelectClient(w) \/ LockForFailover(w) \/ OthersExhausted(w)
  <2>1. UNCHANGED clientVars
    BY <1>6 DEF SelectClient, LockForFailover, OthersExhausted
  <2>2. \A v \in Workers : HeldBy(v)' = HeldBy(v)
    BY <1>1, <1>6, SameClients
  <2>3. Spares' = Spares /\ open' = open /\ origin' = origin
    BY <2>1 DEF clientVars, Spares, PoolIds
  <2> QED BY <1>1, <1>2, <1>3, <2>2, <2>3
<1> QED BY <1>4, <1>5, <1>6 DEF Selecting

\* A step that takes no client anywhere.
LEMMA StillApart ==
    ASSUME BrokenApart, NEW w \in Workers, UNCHANGED <<pool, origin, open, broken>>,
           \A v \in Workers : HeldBy(v)' = HeldBy(v),
           \A v \in Workers \ {w} : exec'[v] = exec[v],
           exec'[w].pc = "releasing" \/ exec[w].pc \notin {"closing", "releasing"}
    PROVE  BrokenApart'
<1>1. Fresh' = Fresh /\ Spares' = Spares
  BY DEF Fresh, Spares, PoolIds
<1> QED BY <1>1 DEF BrokenApart

\* A failed operation closes the client that only its worker has.
LEMMA FailureApart ==
    ASSUME CallInv, NEW w \in Workers, CloseClient(w), broken' = broken \cup HeldBy(w),
           exec'[w].pc = "closing", \A v \in Workers \ {w} : exec'[v] = exec[v]
    PROVE  BrokenApart'
<1>1. /\ UNCHANGED <<pool, origin, worker>> /\ open' = open \ HeldBy(w)
      /\ BrokenApart /\ OnePlace /\ Made
  BY DEF CloseClient, CallInv, Inv
<1>2. HeldBy(w) \cap (Fresh \cup Spares) = {}
  BY <1>1 DEF OnePlace, Made, Spares
<1>3. Fresh' = Fresh /\ Spares' = Spares /\ \A v \in Workers : HeldBy(v)' = HeldBy(v)
  BY <1>1 DEF Fresh, Spares, PoolIds, HeldBy
<1>4. broken' \cap (Fresh \cup open \cup Spares)' = {}
  BY <1>1, <1>2, <1>3 DEF BrokenApart
<1>5. \A v \in Workers \ {w} : HeldBy(v) \cap HeldBy(w) = {}
  BY <1>1 DEF OnePlace
<1>6. \A v \in Workers : exec'[v].pc \notin {"closing", "releasing"}
                           => HeldBy(v)' \cap broken' = {}
  BY <1>1, <1>3, <1>5 DEF BrokenApart
<1> QED BY <1>4, <1>6 DEF BrokenApart

\* A release keeps only what is open, and forgets what it drops.
LEMMA ReleaseApart ==
    ASSUME CallInv, NEW w \in Workers, ReleasePut(w), broken' = Mended,
           \A v \in Workers \ {w} : exec'[v] = exec[v] /\ HeldBy(v)' = HeldBy(v)
    PROVE  BrokenApart'
<1> DEFINE c == worker[w].client
<1>1. /\ HeldBy(w)' = {} /\ c \in Clients
      /\ \/ c \in open /\ Spares' = Spares \cup {c} /\ UNCHANGED <<origin, open>>
         \/ Spares' = Spares /\ Drop({c})
  BY ReleaseSpares DEF CallInv
<1>2. broken \cap (Fresh \cup open \cup Spares) = {} /\ broken' \subseteq broken
      /\ broken' \cap Fresh' = {}
  BY DEF CallInv, BrokenApart, Mended, Fresh
<1> HIDE DEF c
<1>3. broken' \cap (open' \cup Spares') = {}
  BY <1>1, <1>2 DEF Drop
<1>4. \A v \in Workers : exec'[v].pc \notin {"closing", "releasing"}
                           => HeldBy(v)' \cap broken' = {}
  BY <1>1, <1>2 DEF CallInv, BrokenApart
<1> QED BY <1>2, <1>3, <1>4 DEF BrokenApart

\* A call and the selector keep step.
LEMMA CallInvStep ==
    ASSUME CallInv, Inv', NEW w \in Workers, Execute(w) \/ InCall(w)
    PROVE  CallInv'
<1> DEFINE call == exec[w]
<1>1. /\ Inv /\ TypeOK /\ BrokenApart /\ call \in CallStates
      /\ exec \in [Workers -> CallStates]
      /\ current \in 0..(Cycle - 1) /\ broken \subseteq Clients
      /\ Matches(call, worker[w].pc)
  BY DEF CallInv, FailoverTypeOK, CallStates, Inv
<1>2. ASSUME NEW state \in CallStates, Call(w, state), NEW steps, Moves(w, steps),
             \A step \in steps : Matches(state, step), UNCHANGED <<current, broken>>,
             UNCHANGED <<pool, origin, open>>, \A v \in Workers : HeldBy(v)' = HeldBy(v),
             state.pc = "releasing" \/ call.pc \notin {"closing", "releasing"}
      PROVE  CallInv'
  <2>1. /\ FailoverTypeOK' /\ exec'[w] = state
        /\ \A v \in Workers \ {w} : exec'[v] = exec[v]
        /\ \A v \in Workers : Matches(exec'[v], worker'[v].pc)
    BY <1>1, <1>2, CallMoves
  <2>2. BrokenApart'
    BY <1>1, <1>2, <2>1, StillApart
  <2> QED BY <2>1, <2>2 DEF CallInv
<1>3. ASSUME NEW state \in CallStates, Call(w, state), UNCHANGED <<vars, current, broken>>,
             Matches(state, worker[w].pc), call.pc \notin {"closing", "releasing"}
      PROVE  CallInv'
  <2>1. /\ UNCHANGED <<pool, origin, open>> /\ \A v \in Workers : HeldBy(v)' = HeldBy(v)
        /\ Moves(w, {worker[w].pc})
    BY <1>3 DEF vars, Moves, HeldBy
  <2> QED BY <1>2, <1>3, <2>1
<1>4. CASE Execute(w)
  BY <1>1, <1>3, <1>4, CallStatesFacts DEF Execute, At, Matches
<1>5. CASE Operate(w)
  <2>1. NodeOf(worker[w].client) \in Names
    <3>1. worker[w].client \in Clients /\ HeldBy(w) = {worker[w].client}
      BY <1>1, <1>5 DEF Operate, Inv, InStep, TypeOK, WorkerStates, HeldBy
    <3>2. origin[worker[w].client] \in PoolIds
      BY <1>1, <3>1 DEF Inv, Made, Fresh, TypeOK
    <3> QED BY <1>1, <3>2, IdsFacts DEF NodeOf
  <2>2. PICK n \in Names : Call(w, [call EXCEPT !.pc = "operating", !.tried = @ \cup {n}])
    BY <1>5, <2>1 DEF Operate
  <2> DEFINE state == [call EXCEPT !.pc = "operating", !.tried = @ \cup {n}]
  <2>3. state \in CallStates /\ state.pc = "operating"
    <3>1. {n} \in SUBSET Names
      OBVIOUS
    <3> HIDE DEF call
    <3> QED BY <1>1, <3>1, CallStatesFacts
  <2>4. /\ worker[w].pc = "using" /\ call.pc = "selecting" /\ Call(w, state)
        /\ UNCHANGED <<vars, current, broken>>
    BY <1>5, <2>2 DEF Operate, At
  <2> HIDE DEF state
  <2> QED BY <1>3, <2>3, <2>4 DEF Matches
<1>6. CASE Wait(w)
  <2>1. call.pc = "waiting" /\ UNCHANGED <<vars, current, broken>>
        /\ call.attempt < MaxRetries /\ worker[w].pc = "idle"
    BY <1>1, <1>6 DEF Wait, At, Matches
  <2>2. PICK state \in CallStates : Call(w, state) /\ state.pc \in {"none", "select"}
    BY <1>1, <1>6, <2>1, CallStatesFacts DEF Wait, Again, Finished
  <2> QED BY <1>3, <2>1, <2>2 DEF Matches
<1>7. CASE WeightedSelect(w) \/ SelectorStep(w)
  <2>1. SelectClient(w) \/ Selecting(w)
    BY <1>7 DEF WeightedSelect, SelectorStep, OtherInOrder, Selecting
  <2>2. Moves(w, {"get", "failover", "others", "failed", "using"})
    BY <1>1, <2>1, WorkerMoves DEF Selecting, Moves
  <2>3. call.pc \in {"select", "selecting"} /\ broken' = broken
    BY <1>7 DEF WeightedSelect, SelectorStep, At, foVars
  <2>4. current' \in 0..(Cycle - 1)
    BY <1>1, <1>7, FailoverAssumption DEF WeightedSelect, SelectorStep, Advanced, foVars
  <2>5. PICK state \in CallStates : Call(w, state) /\ state.pc = "selecting"
    <3>1. CASE WeightedSelect(w)
      <4> DEFINE state == [call EXCEPT !.pc = "selecting"]
      <4>1. Call(w, state)
        BY <3>1 DEF WeightedSelect
      <4>2. state \in CallStates /\ state.pc = "selecting"
        BY <1>1, CallStatesFacts
      <4> HIDE DEF state
      <4> QED BY <4>1, <4>2 DEF Call
    <3>2. CASE SelectorStep(w)
      BY <1>1, <3>2 DEF SelectorStep, At, foVars, Call
    <3> QED BY <1>7, <3>1, <3>2
  <2>6. /\ FailoverTypeOK' /\ \A v \in Workers \ {w} : exec'[v] = exec[v]
        /\ \A v \in Workers : Matches(exec'[v], worker'[v].pc)
    BY <1>1, <2>2, <2>3, <2>4, <2>5, CallMoves DEF Matches
  <2>7. BrokenApart'
    BY <2>1, <2>3, <2>6, SelectionApart
  <2> QED BY <2>6, <2>7 DEF CallInv
<1>8. CASE SelectRefused(w)
  <2>1. /\ ReturnError(w) /\ Moves(w, {"idle"}) /\ call.pc = "selecting"
        /\ UNCHANGED <<pool, origin, open>> /\ UNCHANGED <<current, broken>>
        /\ Call(w, NoCall)
    BY <1>1, <1>8, WorkerMoves DEF SelectRefused, ReturnError, clientVars, At, Finished
  <2>2. NoCall \in CallStates /\ Matches(NoCall, "idle")
    BY <1>1, CallStatesFacts DEF Matches
  <2>3. \A v \in Workers : HeldBy(v)' = HeldBy(v)
    BY <1>1, <2>1, SameClients
  <2> QED BY <1>2, <2>1, <2>2, <2>3
<1>9. CASE Skip(w) \/ OperationSucceeds(w) \/ ReleaseFailed(w)
  <2>1. /\ ReleaseLookUp(w) /\ Moves(w, {"put"})
        /\ UNCHANGED <<pool, origin, open>> /\ UNCHANGED <<current, broken>>
    BY <1>1, <1>9, WorkerMoves DEF Skip, OperationSucceeds, ReleaseFailed, ReleaseLookUp, clientVars
  <2>2. PICK state \in CallStates : Call(w, state) /\ state.pc = "releasing"
    <3>1. PICK outcome \in {"done", "failed", "skipped"} :
            Call(w, [call EXCEPT !.pc = "releasing", !.outcome = outcome])
      BY <1>9 DEF Skip, OperationSucceeds, ReleaseFailed
    <3> DEFINE state == [call EXCEPT !.pc = "releasing", !.outcome = outcome]
    <3>2. state \in CallStates /\ state.pc = "releasing"
      BY <1>1, CallStatesFacts
    <3>3. Call(w, state)
      BY <3>1
    <3> HIDE DEF state
    <3> QED BY <3>2, <3>3 DEF Call
  <2>3. \A v \in Workers : HeldBy(v)' = HeldBy(v)
    BY <1>1, <2>1, SameClients
  <2> QED BY <1>2, <2>1, <2>2, <2>3 DEF Matches
<1>10. CASE OperationFails(w)
  <2>1. /\ CloseClient(w) /\ broken' = broken \cup HeldBy(w) /\ UNCHANGED current
        /\ worker' = worker /\ worker[w].pc = "using"
    BY <1>10 DEF OperationFails, CloseClient
  <2>2. PICK state \in CallStates : Call(w, state) /\ state.pc = "closing"
    <3> DEFINE state == [call EXCEPT !.pc = "closing"]
    <3>1. Call(w, state)
      BY <1>10 DEF OperationFails
    <3>2. state \in CallStates /\ state.pc = "closing"
      BY <1>1, CallStatesFacts
    <3> HIDE DEF state
    <3> QED BY <3>1, <3>2 DEF Call
  <2>3. Moves(w, {"using"}) /\ broken' \subseteq Clients
    BY <1>1, <2>1 DEF Moves, HeldBy, TypeOK, WorkerStates
  <2>4. /\ FailoverTypeOK' /\ exec'[w] = state
        /\ \A v \in Workers \ {w} : exec'[v] = exec[v]
        /\ \A v \in Workers : Matches(exec'[v], worker'[v].pc)
    BY <1>1, <2>1, <2>2, <2>3, CallMoves DEF Matches
  <2>5. BrokenApart'
    BY <2>1, <2>2, <2>4, FailureApart
  <2> QED BY <2>4, <2>5 DEF CallInv
<1>11. CASE Released(w)
  <2>1. ReleasePut(w) /\ broken' = Mended /\ UNCHANGED current /\ Moves(w, {"idle"})
    BY <1>1, <1>11, WorkerMoves DEF Released
  <2>2. PICK state \in CallStates :
          Call(w, state) /\ state.pc \in {"none", "select", "waiting"}
            /\ (state.pc = "waiting" => state.attempt < MaxRetries)
    <3>1. call.attempt \in 0..MaxRetries
      BY <1>1 DEF CallStates
    <3>2. CASE Finished(w)
      BY <1>1, <3>2, CallStatesFacts DEF Finished
    <3>3. CASE call.outcome = "skipped" /\ ~GivesUp(w) /\ Again(w)
      <4>1. call.attempt < MaxRetries
        BY <3>1, <3>3, FailoverAssumption DEF GivesUp
      <4> QED BY <1>1, <3>3, <4>1, CallStatesFacts DEF Again
    <3>4. CASE call.outcome = "failed" /\ ~GivesUp(w) /\ Call(w, [call EXCEPT !.pc = "waiting"])
      <4>1. call.attempt < MaxRetries
        BY <3>1, <3>4, FailoverAssumption DEF GivesUp
      <4> DEFINE state == [call EXCEPT !.pc = "waiting"]
      <4>2. Call(w, state)
        BY <3>4
      <4>3. state \in CallStates /\ state.pc = "waiting" /\ state.attempt < MaxRetries
        BY <1>1, <4>1, CallStatesFacts
      <4> HIDE DEF state
      <4> QED BY <4>2, <4>3 DEF Call
    <3> QED BY <1>11, <3>2, <3>3, <3>4 DEF Released
  <2>3. broken' \subseteq Clients
    BY <2>1 DEF Mended
  <2>4. /\ FailoverTypeOK'
        /\ \A v \in Workers \ {w} : exec'[v] = exec[v] /\ HeldBy(v)' = HeldBy(v)
        /\ \A v \in Workers : Matches(exec'[v], worker'[v].pc)
    BY <1>1, <2>1, <2>2, <2>3, CallMoves DEF Matches
  <2>5. BrokenApart'
    BY <2>1, <2>4, ReleaseApart
  <2> QED BY <2>4, <2>5 DEF CallInv
<1> QED BY <1>4, <1>5, <1>6, <1>7, <1>8, <1>9, <1>10, <1>11 DEF InCall, CallStep

\* The invariant holds in every reachable state of the calls.
LEMMA AlwaysCallInv == FailoverSpec => []CallInv
<1>1. FailoverInit => CallInv
  <2> SUFFICES ASSUME FailoverInit PROVE CallInv
    OBVIOUS
  <2>1. Inv /\ broken = {} /\ current = 0
        /\ worker = [w \in Workers |-> Idle] /\ exec = [w \in Workers |-> NoCall]
    BY InitInv DEF FailoverInit, Init
  <2>2. FailoverTypeOK
    BY <2>1, FailoverAssumption DEF FailoverTypeOK, NoCall
  <2>3. \A w \in Workers : Matches(exec[w], worker[w].pc)
    BY <2>1, IdleWorker DEF Matches, NoCall
  <2> QED BY <2>1, <2>2, <2>3 DEF CallInv, BrokenApart
<1>2. CallInv /\ [FailoverNext]_allVars => CallInv'
  <2> SUFFICES ASSUME CallInv, [FailoverNext]_allVars PROVE CallInv'
    OBVIOUS
  <2>1. Inv'
    BY CallStepsSelector, NextInv DEF CallInv
  <2>2. CASE UNCHANGED allVars
    BY <2>1, <2>2 DEF allVars, vars, foVars, CallInv, FailoverTypeOK, BrokenApart, Fresh, Spares,
                      PoolIds, HeldBy
  <2> QED BY <2>1, <2>2, CallInvStep DEF FailoverNext
<1> QED BY <1>1, <1>2, PTL DEF FailoverSpec

\* ExecuteWithFailover uses the selector by its operations alone: all that is proved
\* of the selector holds under the calls.
THEOREM CallsUseSelector == FailoverSpec => Spec
<1>1. FailoverInit => Init
  BY DEF FailoverInit
<1> QED BY <1>1, CallStepsSelector, PTL DEF FailoverSpec, Spec

\* A call that has returned has returned its client too (failover.go:44-100).
THEOREM CallsReturnTheirClient == FailoverSpec => []CallsSettle
<1>1. CallInv => CallsSettle
  BY DEF CallInv, CallsSettle, Matches, At
<1> QED BY <1>1, AlwaysCallInv, PTL

\* A client that failed is closed before it goes back, so that the pool cannot keep
\* it and no other call gets it (failover.go:73-77, pool.go:110).
THEOREM BrokenClientsStayOut == FailoverSpec => []BrokenNeverLent
<1>1. CallInv => BrokenNeverLent
  BY DEF CallInv, BrokenApart, BrokenNeverLent, Spares, At
<1> QED BY <1>1, AlwaysCallInv, PTL

----------------------------------------------------------------------------
(* The weighted round-robin.  A loop over a list is a recursive function on 0..n;
   what it computes for every list is proved by induction over sets of numbers.  *)

\* A set of numbers that is not empty has a least one ...
LEMMA LeastNumber ==
  ASSUME NEW T \in SUBSET Nat, T # {}
  PROVE  \E x \in T : \A y \in T : x <= y
<1>1. PICK x \in T : \A y \in T : <<y, x>> \notin OpToRel(<, Nat)
  BY NatLessThanWellFounded, WFMin
<1>2. \A y \in T : ~(y < x)
  BY <1>1 DEF OpToRel
<1> QED BY <1>2

\* ... so a set with 0 that is closed under successors has them all.
LEMMA SetInduction ==
  ASSUME NEW T, 0 \in T, \A m \in Nat : m \in T => m + 1 \in T
  PROVE  \A m \in Nat : m \in T
<1> DEFINE missing == {m \in Nat : m \notin T}
<1> SUFFICES ASSUME NEW m \in Nat, m \notin T PROVE FALSE
  OBVIOUS
<1>1. PICK x \in missing : \A y \in missing : x <= y
  <2>1. missing \in SUBSET Nat /\ missing # {}
    OBVIOUS
  <2> HIDE DEF missing
  <2> QED BY <2>1, LeastNumber
<1>2. x # 0 /\ x - 1 \in Nat
  OBVIOUS
<1>3. x - 1 \in T
  BY <1>1, <1>2
<1> QED BY <1>2, <1>3

\* A loop over 1..n that starts with c in S and stays in S ...
IsLoop(n, S, c, step) == n \in Nat /\ c \in S /\ step \in [1..n -> [S -> S]]
IsRun(f, n, S, c, step) ==
    f \in [0..n -> S] /\ f[0] = c /\ \A j \in 1..n : f[j] = step[j][f[j - 1]]

\* ... has a value at each of its points.
LEMMA LoopRuns ==
  ASSUME NEW n, NEW S, NEW c, NEW step, IsLoop(n, S, c, step)
  PROVE  \E f : IsRun(f, n, S, c, step)
<1> DEFINE Runs(m) == \E f : IsRun(f, m, S, c, step)
           T == {m \in Nat : m <= n => Runs(m)}
<1>0. n \in Nat /\ c \in S /\ \A j \in 1..n, x \in S : step[j][x] \in S
  BY DEF IsLoop
<1>1. Runs(0)
  <2>1. IsRun([j \in 0..0 |-> c], 0, S, c, step)
    BY <1>0 DEF IsRun
  <2> QED BY <2>1
<1>2. ASSUME NEW m \in Nat, Runs(m), m + 1 <= n PROVE Runs(m + 1)
  <2>1. PICK f : IsRun(f, m, S, c, step)
    BY <1>2
  <2> DEFINE last == step[m + 1][f[m]]
             g == [j \in 0..(m + 1) |-> IF j <= m THEN f[j] ELSE last]
  <2>2. last \in S
    BY <1>0, <1>2, <2>1 DEF IsRun
  <2>3. g \in [0..(m + 1) -> S] /\ g[0] = c
    <3> HIDE DEF last
    <3> QED BY <2>1, <2>2 DEF IsRun
  <2>4. ASSUME NEW j \in 1..(m + 1) PROVE g[j] = step[j][g[j - 1]]
    <3>1. CASE j <= m
      <4>1. g[j] = f[j] /\ g[j - 1] = f[j - 1]
        BY <3>1
      <4> QED BY <2>1, <3>1, <4>1 DEF IsRun
    <3>2. CASE j = m + 1
      <4>1. g[j] = last /\ g[j - 1] = f[m]
        BY <3>2
      <4> QED BY <3>2, <4>1
    <3> QED BY <3>1, <3>2
  <2> HIDE DEF g
  <2>5. IsRun(g, m + 1, S, c, step)
    BY <2>3, <2>4 DEF IsRun
  <2> QED BY <2>5
<1> HIDE DEF Runs
<1>3. \A m \in Nat : m \in T
  <2>1. 0 \in T
    BY <1>1
  <2>2. ASSUME NEW m \in Nat, m \in T PROVE m + 1 \in T
    <3>1. m + 1 <= n => Runs(m + 1)
      BY <1>0, <1>2, <2>2
    <3> QED BY <3>1
  <2> HIDE DEF T
  <2> QED BY <2>1, <2>2, SetInduction
<1>4. Runs(n)
  BY <1>0, <1>3
<1> QED BY <1>4 DEF Runs

\* The cumulative weights are what the loop of selectWeightedNode adds up
\* (selector.go:124-148).
LEMMA Cumulates ==
  ASSUME NEW list \in Seq(Names)
  PROVE  /\ UpTo(list, 0) = 0
         /\ \A i \in 0..Len(list) : UpTo(list, i) \in Nat
         /\ \A i \in 1..Len(list) : UpTo(list, i) = UpTo(list, i - 1) + Weight[list[i]]
<1> DEFINE n == Len(list)
           IsSum(f) == f = [j \in 0..n |-> IF j = 0 THEN 0 ELSE f[j - 1] + Weight[list[j]]]
           sum == CHOOSE f : IsSum(f)
           step == [j \in 1..n |-> [x \in Nat |-> x + Weight[list[j]]]]
<1>1. n \in Nat /\ \A j \in 1..n : Weight[list[j]] \in Nat \ {0}
  BY FailoverAssumption
<1>2. IsLoop(n, Nat, 0, step)
  BY <1>1 DEF IsLoop
<1>3. PICK f : IsRun(f, n, Nat, 0, step)
  <2> HIDE DEF step, n
  <2> QED BY <1>2, LoopRuns
<1>4. ASSUME NEW j \in 1..n PROVE f[j] = f[j - 1] + Weight[list[j]]
  <2>1. f[j - 1] \in Nat /\ f[j] = step[j][f[j - 1]]
    <3> HIDE DEF step, n
    <3>1. j - 1 \in 0..n
      BY <1>1
    <3> QED BY <1>3, <3>1 DEF IsRun
  <2> QED BY <2>1
<1>5. IsSum(f)
  BY <1>1, <1>3, <1>4 DEF IsRun
<1>6. IsSum(sum)
  <2> HIDE DEF IsSum
  <2> QED BY <1>5
<1>7. \A i : UpTo(list, i) = sum[i]
  BY DEF UpTo
<1> HIDE DEF sum
<1>8. sum[0] = 0 /\ \A j \in 1..n : sum[j] = sum[j - 1] + Weight[list[j]]
  BY <1>1, <1>6
<1> DEFINE T == {m \in Nat : m <= n => sum[m] \in Nat}
<1>9. ASSUME NEW m \in Nat, m + 1 <= n, sum[m] \in Nat PROVE sum[m + 1] \in Nat
  <2>1. m + 1 \in 1..n /\ (m + 1) - 1 = m
    BY <1>1, <1>9
  <2> QED BY <1>1, <1>8, <1>9, <2>1
<1>10. \A m \in Nat : m \in T
  <2>1. 0 \in T /\ \A m \in Nat : m \in T => m + 1 \in T
    BY <1>1, <1>8, <1>9
  <2> HIDE DEF T
  <2> QED BY <2>1, SetInduction
<1>11. \A i \in 0..n : sum[i] \in Nat
  BY <1>1, <1>10
<1> QED BY <1>7, <1>8, <1>11

\* They never go down, and go up at each node.
LEMMA CumulativeGrows ==
  ASSUME NEW list \in Seq(Names), NEW i \in 0..Len(list), NEW j \in 0..Len(list), i <= j
  PROVE  UpTo(list, i) <= UpTo(list, j)
<1> DEFINE n == Len(list)
           T == {m \in Nat : i <= m /\ m <= n => UpTo(list, i) <= UpTo(list, m)}
<1>1. /\ n \in Nat /\ \A k \in 1..n : Weight[list[k]] \in Nat
      /\ \A k \in 0..n : UpTo(list, k) \in Nat
      /\ \A k \in 1..n : UpTo(list, k) = UpTo(list, k - 1) + Weight[list[k]]
  BY FailoverAssumption, Cumulates
<1>2. 0 \in T
  BY <1>1
<1>3. ASSUME NEW m \in Nat, m \in T, i <= m + 1, m + 1 <= n
      PROVE  UpTo(list, i) <= UpTo(list, m + 1)
  <2>1. CASE i = m + 1
    BY <1>1, <2>1
  <2>2. CASE i <= m
    <3>1. UpTo(list, i) <= UpTo(list, m)
      BY <1>3, <2>2
    <3> HIDE DEF T
    <3>2. m + 1 \in 1..n /\ (m + 1) - 1 = m /\ m \in 0..n
      BY <1>1, <1>3
    <3>3. UpTo(list, m + 1) = UpTo(list, m) + Weight[list[m + 1]]
      BY <1>1, <3>2
    <3> QED BY <1>1, <3>1, <3>2, <3>3
  <2> QED BY <1>3, <2>1, <2>2
<1>4. \A m \in Nat : m \in T => m + 1 \in T
  BY <1>3
<1>5. \A m \in Nat : m \in T
  <2> HIDE DEF T
  <2> QED BY <1>2, <1>4, SetInduction
<1> QED BY <1>1, <1>5

\* The list of the available nodes names each of them once (checker.go:139-152).
LEMMA ListedOnce ==
  ASSUME NEW S \in SUBSET Names
  PROVE  /\ Listed(S) \in Seq(Names)
         /\ \A x \in S : \E i \in 1..Len(Listed(S)) : Listed(S)[i] = x
         /\ \A i, j \in 1..Len(Listed(S)) : Listed(S)[i] = Listed(S)[j] => i = j
<1> DEFINE n == Len(Order)
           IsKept(f) ==
             f = [i \in 0..n |->
                    IF i = 0 THEN <<>>
                    ELSE IF Order[i] \in S THEN Append(f[i - 1], Order[i]) ELSE f[i - 1]]
           kept == CHOOSE f : IsKept(f)
           step == [i \in 1..n |-> [l \in Seq(Names) |->
                      IF Order[i] \in S THEN Append(l, Order[i]) ELSE l]]
<1>1. /\ n \in Nat /\ \A j \in 1..n : Order[j] \in Names
      /\ \A x \in Names : \E j \in 1..n : Order[j] = x
      /\ \A i, j \in 1..n : Order[i] = Order[j] => i = j
  BY FailoverAssumption DEF ToSet, IsInjective
<1>2. IsLoop(n, Seq(Names), <<>>, step)
  BY <1>1 DEF IsLoop
<1>3. PICK f : IsRun(f, n, Seq(Names), <<>>, step)
  <2> HIDE DEF step, n
  <2> QED BY <1>2, LoopRuns
<1>4. ASSUME NEW j \in 1..n
      PROVE  f[j] = IF Order[j] \in S THEN Append(f[j - 1], Order[j]) ELSE f[j - 1]
  <2>1. f[j - 1] \in Seq(Names) /\ f[j] = step[j][f[j - 1]]
    <3> HIDE DEF step, n
    <3>1. j - 1 \in 0..n
      BY <1>1
    <3> QED BY <1>3, <3>1 DEF IsRun
  <2> QED BY <2>1
<1>5. IsKept(f)
  <2>1. /\ f = [i \in 0..n |-> f[i]] /\ f[0] = <<>>
    BY <1>1, <1>3 DEF IsRun
  <2> HIDE DEF n
  <2>2. ASSUME NEW i \in 0..n
        PROVE  f[i] = IF i = 0 THEN <<>>
                      ELSE IF Order[i] \in S THEN Append(f[i - 1], Order[i]) ELSE f[i - 1]
    <3>1. CASE i = 0
      BY <2>1, <3>1
    <3>2. CASE i # 0
      <4>1. i \in 1..n
        BY <1>1, <3>2
      <4> QED BY <1>4, <3>2, <4>1
    <3> QED BY <3>1, <3>2
  <2> QED BY <2>1, <2>2
<1>6. IsKept(kept)
  <2> HIDE DEF IsKept
  <2> QED BY <1>5
<1>7. Listed(S) = kept[n]
  BY DEF Listed
<1> HIDE DEF kept
<1>8. /\ kept[0] = <<>>
      /\ \A j \in 1..n :
            kept[j] = IF Order[j] \in S THEN Append(kept[j - 1], Order[j]) ELSE kept[j - 1]
  <2> HIDE DEF n
  <2>1. \A i \in 0..n :
           kept[i] = IF i = 0 THEN <<>>
                     ELSE IF Order[i] \in S THEN Append(kept[i - 1], Order[i]) ELSE kept[i - 1]
    BY <1>6
  <2> QED BY <1>1, <2>1
<1> DEFINE Once(m) ==
             /\ kept[m] \in Seq(Names)
             /\ \A j \in 1..m : Order[j] \in S => \E i \in 1..Len(kept[m]) : kept[m][i] = Order[j]
             /\ \A i \in 1..Len(kept[m]) : \E j \in 1..m : kept[m][i] = Order[j]
             /\ \A i, j \in 1..Len(kept[m]) : kept[m][i] = kept[m][j] => i = j
           T == {m \in Nat : m <= n => Once(m)}
<1>9. 0 \in T
  <2>1. kept[0] \in Seq(Names) /\ Len(kept[0]) = 0
    BY <1>8
  <2> QED BY <2>1
<1>10. ASSUME NEW m \in Nat, m \in T, m + 1 <= n PROVE Once(m + 1)
  <2> DEFINE k == kept[m]
             x == Order[m + 1]
  <2>1. Once(m) /\ m + 1 \in 1..n /\ (m + 1) - 1 = m
    BY <1>1, <1>10
  <2>2. k \in Seq(Names) /\ Len(k) \in Nat /\ x \in Names
    BY <1>1, <2>1
  <2>3. CASE x \in S
    <3>1. kept[m + 1] = Append(k, x)
      BY <1>8, <2>1, <2>3
    <3>2. /\ Append(k, x) \in Seq(Names) /\ Len(Append(k, x)) = Len(k) + 1
          /\ Append(k, x)[Len(k) + 1] = x
          /\ \A i \in 1..Len(k) : Append(k, x)[i] = k[i]
      BY <2>2
    <3>3. \A i \in 1..Len(k) : k[i] # x
      BY <1>1, <2>1
    <3> DEFINE l == kept[m + 1]
    <3>4. /\ l \in Seq(Names) /\ Len(l) = Len(k) + 1 /\ l[Len(k) + 1] = x
          /\ \A i \in 1..Len(k) : l[i] = k[i]
      BY <3>1, <3>2
    <3> HIDE DEF l
    <3>5. \A j \in 1..(m + 1) : Order[j] \in S => \E i \in 1..Len(l) : l[i] = Order[j]
      <4> TAKE j \in 1..(m + 1)
      <4>1. CASE j = m + 1
        BY <2>2, <3>4, <4>1
      <4>2. CASE j \in 1..m
        BY <2>1, <2>2, <3>4, <4>2
      <4> QED BY <4>1, <4>2
    <3>6. \A i \in 1..Len(l) : \E j \in 1..(m + 1) : l[i] = Order[j]
      <4> TAKE i \in 1..Len(l)
      <4>1. CASE i = Len(k) + 1
        BY <3>4, <4>1
      <4>2. CASE i \in 1..Len(k)
        <5>1. PICK j \in 1..m : k[i] = Order[j]
          BY <2>1, <4>2
        <5> QED BY <3>4, <4>2, <5>1
      <4> QED BY <2>2, <3>4, <4>1, <4>2
    <3>7. \A i, j \in 1..Len(l) : l[i] = l[j] => i = j
      <4> HIDE DEF k
      <4>0. \A i, j \in 1..Len(k) : k[i] = k[j] => i = j
        BY <2>1 DEF k
      <4> HIDE DEF x
      <4> TAKE i, j \in 1..Len(l)
      <4>1. CASE i \in 1..Len(k) /\ j \in 1..Len(k)
        BY <3>4, <4>0, <4>1
      <4>2. CASE i = Len(k) + 1 /\ j \in 1..Len(k)
        BY <3>3, <3>4, <4>2
      <4>3. CASE i \in 1..Len(k) /\ j = Len(k) + 1
        BY <3>3, <3>4, <4>3
      <4>4. CASE i = Len(k) + 1 /\ j = Len(k) + 1
        BY <4>4
      <4> QED BY <2>2, <3>4, <4>1, <4>2, <4>3, <4>4
    <3> QED BY <3>4, <3>5, <3>6, <3>7 DEF l
  <2>4. CASE x \notin S
    <3>1. kept[m + 1] = k
      BY <1>8, <2>1, <2>4
    <3>2. \A j \in 1..(m + 1) : Order[j] \in S => j \in 1..m
      BY <2>4
    <3>3. 1..m \subseteq 1..(m + 1)
      OBVIOUS
    <3> QED BY <2>1, <3>1, <3>2, <3>3
  <2> QED BY <2>3, <2>4
<1> HIDE DEF Once
<1>11. \A m \in Nat : m \in T => m + 1 \in T
  BY <1>10
<1>12. Once(n)
  <2>1. n \in T
    <3> HIDE DEF T, n
    <3> QED BY <1>1, <1>9, <1>11, SetInduction
  <2> QED BY <1>1, <2>1
<1> DEFINE l == kept[n]
<1>13. /\ l \in Seq(Names)
       /\ \A j \in 1..n : Order[j] \in S => \E i \in 1..Len(l) : l[i] = Order[j]
       /\ \A i, j \in 1..Len(l) : l[i] = l[j] => i = j
  BY <1>12 DEF Once
<1> HIDE DEF l, n
<1>14. Listed(S) = l
  BY <1>7 DEF l
<1> QED BY <1>1, <1>13, <1>14

\* selectWeightedNode returns the node in whose share of the total weight the offset
\* falls (selector.go:136-149).
LEMMA PickInShare ==
  ASSUME NEW list \in Seq(Names), NEW cursor \in Nat,
         \A i, j \in 1..Len(list) : list[i] = list[j] => i = j,
         NEW i \in 1..Len(list)
  PROVE  Pick(list, cursor) = list[i]
           <=> /\ UpTo(list, i - 1) <= cursor % TotalWeight(list)
               /\ cursor % TotalWeight(list) < UpTo(list, i)
<1> DEFINE n == Len(list)
           offset == cursor % TotalWeight(list)
           Beyond(k) == /\ offset < UpTo(list, k)
                        /\ \A j \in 1..(k - 1) : offset >= UpTo(list, j)
           first == CHOOSE k \in 1..n : Beyond(k)
<1>1. /\ n \in Nat /\ UpTo(list, 0) = 0
      /\ \A k \in 0..n : UpTo(list, k) \in Nat
      /\ \A k \in 1..n : UpTo(list, k) = UpTo(list, k - 1) + Weight[list[k]]
      /\ \A k \in 1..n : Weight[list[k]] \in Nat \ {0}
  BY Cumulates, FailoverAssumption
<1>2. \A k, j \in 0..n : k <= j => UpTo(list, k) <= UpTo(list, j)
  BY CumulativeGrows
<1>3. TotalWeight(list) \in Nat \ {0} /\ TotalWeight(list) = UpTo(list, n)
  <2>1. i \in 1..n /\ i - 1 \in 0..n /\ i \in 0..n /\ n \in 0..n
    BY <1>1
  <2>2. UpTo(list, i) > 0
    BY <1>1, <2>1
  <2>3. UpTo(list, n) \in Nat \ {0}
    BY <1>1, <1>2, <2>1, <2>2
  <2> QED BY <2>3 DEF TotalWeight
<1>4. offset \in 0..(TotalWeight(list) - 1)
  BY <1>3
<1>5. Pick(list, cursor) = list[first]
  BY DEF Pick
<1> HIDE DEF offset
<1>6. \E k \in 1..n : Beyond(k)
  <2> DEFINE past == {k \in 1..n : offset < UpTo(list, k)}
  <2>1. n \in past
    BY <1>1, <1>3, <1>4
  <2>2. past \in SUBSET Nat /\ past # {}
    BY <1>1, <2>1
  <2>3. PICK k \in past : \A j \in past : k <= j
    <3> HIDE DEF past
    <3> QED BY <2>2, LeastNumber
  <2>4. \A j \in 1..(k - 1) : j \in 1..n /\ j \notin past /\ j \in 0..n
    BY <1>1, <2>3
  <2>5. \A j \in 1..(k - 1) : offset >= UpTo(list, j)
    BY <1>1, <1>3, <1>4, <2>4
  <2> QED BY <2>3, <2>5
<1>7. first \in 1..n /\ Beyond(first)
  <2> HIDE DEF Beyond
  <2> QED BY <1>6
<1> HIDE DEF first
<1>8. offset \in Nat
  BY <1>3, <1>4
<1>9. ASSUME first = i
      PROVE  UpTo(list, i - 1) <= offset /\ offset < UpTo(list, i)
  <2>1. CASE i = 1
    BY <1>1, <1>7, <1>8, <1>9, <2>1
  <2>2. CASE i # 1
    <3>1. i - 1 \in 1..(i - 1) /\ i - 1 \in 0..n
      BY <1>1, <2>2
    <3> QED BY <1>1, <1>7, <1>8, <1>9, <3>1
  <2> QED BY <2>1, <2>2
<1>10. ASSUME UpTo(list, i - 1) <= offset, offset < UpTo(list, i)
       PROVE  first = i
  <2>1. ~(first < i)
    <3> SUFFICES ASSUME first < i PROVE FALSE
      OBVIOUS
    <3>1. first \in 0..n /\ i - 1 \in 0..n /\ first <= i - 1
      BY <1>1, <1>7
    <3>2. UpTo(list, first) <= UpTo(list, i - 1)
      BY <1>2, <3>1
    <3> QED BY <1>1, <1>7, <1>8, <1>10, <3>1, <3>2
  <2>2. ~(i < first)
    <3> SUFFICES ASSUME i < first PROVE FALSE
      OBVIOUS
    <3>1. i \in 1..(first - 1) /\ i \in 0..n
      BY <1>1, <1>7
    <3>2. offset >= UpTo(list, i)
      BY <1>7, <3>1
    <3> QED BY <1>1, <1>8, <1>10, <3>1, <3>2
  <2> QED BY <1>1, <1>7, <2>1, <2>2
<1>11. list[first] = list[i] <=> first = i
  BY <1>7
<1> QED BY <1>5, <1>9, <1>10, <1>11 DEF offset

\* The remainder of a division, for a divisor that is not a constant.
LEMMA Remainder ==
  ASSUME NEW c \in Nat, NEW t \in Nat \ {0}
  PROVE  /\ c % t \in 0..(t - 1) /\ c \div t \in Nat
         /\ c = (c \div t) * t + (c % t)
<1> QED OBVIOUS

\* ... and conversely: what is left below the divisor is the remainder.
LEMMA RemainderIs ==
  ASSUME NEW q \in Nat, NEW t \in Nat \ {0}, NEW r \in 0..(t - 1)
  PROVE  (q * t + r) % t = r
<1> QED OBVIOUS

\* In t turns of a cursor each offset comes up once: as many of them fall between a and
\* b as there are numbers between a and b.
LEMMA OffsetsOfRound ==
  ASSUME NEW c \in Nat, NEW t \in Nat \ {0}, NEW a \in 0..t, NEW b \in 0..t, a <= b
  PROVE  Cardinality({k \in 1..t : a <= (c + k) % t /\ (c + k) % t < b}) = b - a
<1> DEFINE c0 == c % t
           q == c \div t
           turns == {k \in 1..t : a <= (c + k) % t /\ (c + k) % t < b}
           turn == [o \in a..(b - 1) |-> IF o > c0 THEN o - c0 ELSE o - c0 + t]
<1>1. c0 \in 0..(t - 1) /\ q \in Nat /\ c = q * t + c0
  BY Remainder
<1> HIDE DEF c0, q
<1>2. ASSUME NEW k \in 1..t
      PROVE  (c + k) % t = IF c0 + k < t THEN c0 + k ELSE c0 + k - t
  <2>1. CASE c0 + k < t
    <3>1. c0 + k \in 0..(t - 1) /\ c + k = q * t + (c0 + k)
      BY <1>1, <2>1
    <3>2. (q * t + (c0 + k)) % t = c0 + k
      BY <1>1, <3>1, RemainderIs
    <3> QED BY <2>1, <3>1, <3>2
  <2>2. CASE ~(c0 + k < t)
    <3>1. c0 + k - t \in 0..(t - 1) /\ q + 1 \in Nat
      BY <1>1, <2>2
    <3>2. (q + 1) * t = q * t + t
      BY <1>1
    <3>3. c + k = (q + 1) * t + (c0 + k - t)
      <4> DEFINE p == q * t
      <4>1. p \in Nat
        BY <1>1
      <4>2. c = p + c0 /\ (q + 1) * t = p + t
        BY <1>1, <3>2
      <4> HIDE DEF p
      <4> QED BY <1>1, <4>1, <4>2
    <3>4. ((q + 1) * t + (c0 + k - t)) % t = c0 + k - t
      BY <3>1, RemainderIs
    <3> QED BY <2>2, <3>3, <3>4
  <2> QED BY <2>1, <2>2
<1>3. \A k \in turns : k \in 1..t /\ (c + k) % t \in a..(b - 1)
  <2>1. \A k \in 1..t : (c + k) % t \in Int
    BY <1>1, <1>2
  <2> QED BY <2>1
<1>4. ASSUME NEW o \in a..(b - 1)
      PROVE  turn[o] \in turns /\ (c + turn[o]) % t = o
  <2>1. o \in 0..(t - 1)
    OBVIOUS
  <2>2. turn[o] = IF o > c0 THEN o - c0 ELSE o - c0 + t
    OBVIOUS
  <2> HIDE DEF turn
  <2>3. turn[o] \in 1..t /\ (IF c0 + turn[o] < t THEN c0 + turn[o] ELSE c0 + turn[o] - t) = o
    BY <1>1, <2>1, <2>2
  <2>4. (c + turn[o]) % t = o
    BY <1>2, <2>3
  <2>5. a <= o /\ o < b
    OBVIOUS
  <2> QED BY <2>3, <2>4, <2>5
<1>5. ASSUME NEW k \in turns
      PROVE  turn[(c + k) % t] = k
  <2> DEFINE o == (c + k) % t
  <2>1. k \in 1..t /\ o \in a..(b - 1)
    BY <1>3
  <2>2. o = IF c0 + k < t THEN c0 + k ELSE c0 + k - t
    BY <1>2, <2>1
  <2>3. turn[o] = IF o > c0 THEN o - c0 ELSE o - c0 + t
    BY <2>1
  <2> HIDE DEF turn, o
  <2>4. turn[o] = k
    BY <1>1, <2>1, <2>2, <2>3
  <2> QED BY <2>4 DEF o
<1> HIDE DEF turns
<1>6. turn \in Bijection(a..(b - 1), turns)
  <2>1. turn \in [a..(b - 1) -> turns]
    <3>1. turn = [o \in a..(b - 1) |-> turn[o]]
      OBVIOUS
    <3> HIDE DEF turn
    <3> QED BY <1>4, <3>1
  <2> HIDE DEF turn
  <2>2. \A o, p \in a..(b - 1) : turn[o] = turn[p] => o = p
    BY <1>4
  <2>3. \A k \in turns : \E o \in a..(b - 1) : turn[o] = k
    BY <1>3, <1>5
  <2> QED BY <2>1, <2>2, <2>3 DEF Bijection, Injection, Surjection, IsInjective
<1>7. IsFiniteSet(a..(b - 1)) /\ Cardinality(a..(b - 1)) = b - a
  <2>1. a \in Int /\ b - 1 \in Int
    OBVIOUS
  <2>2. /\ IsFiniteSet(a..(b - 1))
        /\ Cardinality(a..(b - 1)) = IF a > b - 1 THEN 0 ELSE (b - 1) - a + 1
    BY <2>1, FS_Interval
  <2> QED BY <2>2
<1>8. ExistsBijection(a..(b - 1), turns)
  BY <1>6 DEF ExistsBijection
<1>9. Cardinality(turns) = b - a
  BY <1>7, <1>8, FS_Bijection
<1> QED BY <1>9 DEF turns

\* Whatever the cursor is, a round of the total weight gives each available node as many
\* turns as its weight says (selector.go:120-149).
LEMMA RoundIsFair ==
  ASSUME NEW S \in SUBSET Names, NEW x \in S, NEW cursor \in Nat
  PROVE  Cardinality({k \in 1..TotalWeight(Listed(S)) : Pick(Listed(S), cursor + k) = x})
           = Weight[x]
<1> DEFINE list == Listed(S)
           t == TotalWeight(list)
<1>1. /\ list \in Seq(Names)
      /\ \A i, j \in 1..Len(list) : list[i] = list[j] => i = j
  BY ListedOnce
<1>2. PICK i \in 1..Len(list) : list[i] = x
  BY ListedOnce
<1> DEFINE a == UpTo(list, i - 1)
           b == UpTo(list, i)
<1>3. Len(list) \in Nat /\ i - 1 \in 0..Len(list) /\ i \in 0..Len(list)
      /\ Len(list) \in 0..Len(list)
  BY <1>1
<1> HIDE DEF list
<1>4. /\ a \in Nat /\ b \in Nat /\ t \in Nat /\ b = a + Weight[x] /\ b <= t
      /\ Weight[x] \in Nat \ {0}
  <2>1. a \in Nat /\ b \in Nat /\ t \in Nat /\ b = a + Weight[x]
    BY <1>1, <1>2, <1>3, Cumulates DEF TotalWeight
  <2>2. b <= t
    BY <1>1, <1>3, CumulativeGrows DEF TotalWeight
  <2> QED BY <2>1, <2>2, FailoverAssumption
<1>5. \A k \in 1..t : Pick(list, cursor + k) = x
                        <=> a <= (cursor + k) % t /\ (cursor + k) % t < b
  <2> TAKE k \in 1..t
  <2>1. cursor + k \in Nat
    BY <1>4
  <2> QED BY <1>1, <1>2, <2>1, PickInShare
<1>6. {k \in 1..t : Pick(list, cursor + k) = x}
        = {k \in 1..t : a <= (cursor + k) % t /\ (cursor + k) % t < b}
  BY <1>5
<1> HIDE DEF a, b, t
<1>7. /\ t \in Nat \ {0} /\ a \in 0..t /\ b \in 0..t /\ a <= b /\ b - a = Weight[x]
  BY <1>4
<1>8. Cardinality({k \in 1..t : a <= (cursor + k) % t /\ (cursor + k) % t < b}) = b - a
  BY <1>7, OffsetsOfRound
<1> QED BY <1>6, <1>7, <1>8 DEF list, t

\* However the set of available nodes changes, a round over those of the moment follows
\* their weights, wherever the cursor stands (selector.go:120-149).
THEOREM RoundsAreFair == FailoverSpec => []RoundsFollowWeights
<1>1. CallInv => RoundsFollowWeights
  <2> SUFFICES ASSUME CallInv, NEW S \in SUBSET Names, NEW x \in S
               PROVE  Cardinality({k \in 1..TotalWeight(Listed(S)) :
                                     Pick(Listed(S), current + k) = x}) = Weight[x]
    BY DEF RoundsFollowWeights
  <2>1. current \in Nat
    BY FailoverAssumption DEF CallInv, FailoverTypeOK
  <2> QED BY <2>1, RoundIsFair
<1> QED BY <1>1, AlwaysCallInv, PTL
=============================================================================
