---------------------------- MODULE RouterProofs ----------------------------
(***************************************************************************)
(* Proofs about Router, for every set of domains, addresses, goroutines    *)
(* and lists of rules: its type, and that a decision is the action of the  *)
(* first rule that matches.  The invariant that carries the second says    *)
(* that a goroutine on its way through the rules reads the list in force,  *)
(* has rules left, and has found none that matches.                        *)
(*                                                                         *)
(* That the cache does not grow past its limit while anything in it has    *)
(* expired needs only that it is finite, whatever the set of domains is.   *)
(***************************************************************************)
EXTENDS Router, FiniteSetTheorems, TLAPS

InProgress(r) ==
    /\ route[r].list = rules
    /\ Len(route[r].used) < Len(RuleList[rules])
    /\ \A j \in 1..Len(route[r].used) :
          ~Matches(RuleList[rules][j], route[r].target, route[r].used[j])

Inv ==
    /\ TypeOK
    /\ \A r \in Routes : Matching(r) => InProgress(r)

----------------------------------------------------------------------------
\* A list that was accepted is not empty and ends with FINAL.
LEMMA AcceptedLists ==
  ASSUME NEW l \in Accepted
  PROVE  /\ RuleList[l] \in Seq(Rules) /\ Len(RuleList[l]) \in Nat \ {0}
         /\ RuleList[l][Len(RuleList[l])].type = "FINAL"
         /\ l # NoList
<1>1. l \in DOMAIN RuleList /\ Accepts(RuleList[l])
  BY DEF Accepted
<1>2. RuleList[l] \in Seq(Rules) /\ l # NoList
  BY <1>1, RouterAssumption
<1>3. Len(RuleList[l]) \in Nat \ {0}
  BY <1>1, <1>2 DEF Accepts
<1>4. Len(RuleList[l]) \in DOMAIN RuleList[l]
  BY <1>2, <1>3
<1> QED BY <1>1, <1>2, <1>3, <1>4 DEF Accepts

\* NewRouter starts without requests (router.go:26-49).
LEMMA InitInv == Init => Inv
<1> SUFFICES ASSUME Init PROVE Inv
  OBVIOUS
<1>1. NoRoute \in RouteStates
  BY DEF NoRoute, RouteStates, RouteRecords, Actions
<1>2. cache = <<>> /\ DOMAIN cache = {}
  BY DEF Init
<1>3. cache \in [DOMAIN cache -> Entries]
  BY <1>2
<1>4. TypeOK
  BY <1>1, <1>2, <1>3 DEF Init, TypeOK
<1>5. \A r \in Routes : ~Matching(r)
  BY DEF Init, Matching, NoRoute
<1> QED BY <1>4, <1>5 DEF Inv

\* What a step of the loop makes of the goroutine (router.go:68-136): the rule
\* decides and is the first to do so, or the goroutine goes on with the next one.
LEMMA Compared ==
  ASSUME Inv, NEW r \in Routes, Matching(r), UNCHANGED rules,
         NEW addr \in Addresses \cup {NoAddress}, Compare(r, addr)
  PROVE  /\ route' \in [Routes -> RouteStates]
         /\ \A q \in Routes : Matching(q)' => InProgress(q)'
         /\ At(r, "decided")' => FirstMatch(r)'
<1> DEFINE st == route[r]
           list == RuleList[rules]
           k == Len(st.used) + 1
           next == [st EXCEPT !.pc = "match", !.used = Append(@, addr), !.addr = NoAddress]
<1>1. /\ st \in RouteStates /\ st.list = rules /\ st.used \in Seq(Addresses \cup {NoAddress})
      /\ rules \in Accepted /\ k \in 1..Len(list) /\ list \in Seq(Rules)
      /\ InProgress(r)
  BY AcceptedLists DEF Inv, TypeOK, InProgress, RouteStates, RouteRecords
<1>2. Current(r) = list[k] /\ list[k] \in Rules
  BY <1>1 DEF Current
<1>3. /\ next \in RouteStates /\ next.pc = "match" /\ next.list = rules
      /\ next.target = st.target /\ next.used = Append(st.used, addr)
  <2>1. Append(st.used, addr) \in Seq(Addresses \cup {NoAddress})
    BY <1>1
  <2> HIDE DEF list, k
  <2>2. /\ next.pc = "match" /\ next.list = rules
        /\ next.target = st.target /\ next.used = Append(st.used, addr)
    BY <1>1 DEF RouteStates, RouteRecords
  <2>3. next \in RouteStates
    <3> DEFINE s == Append(st.used, addr)
    <3>1. next = [st EXCEPT !.pc = "match", !.used = s, !.addr = NoAddress]
      BY <1>1 DEF RouteStates, RouteRecords
    <3>2. s \in Seq(Addresses \cup {NoAddress})
      BY <2>1
    <3> HIDE DEF s, next
    <3> QED BY <1>1, <3>1, <3>2 DEF RouteStates, RouteRecords
  <2> QED BY <2>2, <2>3
<1>4. Len(next.used) = k /\ next.used[k] = addr
      /\ \A j \in 1..(k - 1) : next.used[j] = st.used[j]
  BY <1>1, <1>3
<1>5. \A j \in 1..(k - 1) : ~Matches(list[j], next.target, next.used[j])
  BY <1>1, <1>3, <1>4 DEF InProgress
<1>6. CASE Matches(list[k], st.target, addr)
  <2> DEFINE done == [next EXCEPT !.pc = "decided", !.action = list[k].action]
  <2>1. route' = [route EXCEPT ![r] = done]
    BY <1>2, <1>6 DEF Compare, Becomes
  <2>2. /\ done \in RouteStates /\ done.pc = "decided" /\ done.action = list[k].action
        /\ done.used = next.used /\ done.target = next.target
    BY <1>2, <1>3 DEF RouteStates, RouteRecords, Rules
  <2>3. route'[r] = done /\ \A q \in Routes : q # r => route'[q] = route[q]
    BY <2>1 DEF Inv, TypeOK
  <2>4. route' \in [Routes -> RouteStates]
    BY <2>1, <2>2 DEF Inv, TypeOK
  <2>5. \A q \in Routes : Matching(q)' => InProgress(q)'
    BY <2>2, <2>3 DEF Inv, Matching, InProgress, Matches
  <2>6. FirstMatch(r)'
    <3>1. /\ route'[r].used = next.used /\ route'[r].target = st.target
          /\ route'[r].action = list[k].action /\ RuleList[rules'] = list
      BY <1>3, <2>2, <2>3
    <3>2. Len(route'[r].used) = k /\ k \in DOMAIN list
      BY <1>1, <1>4, <3>1
    <3>3. Matches(list[k], route'[r].target, route'[r].used[k])
      BY <1>4, <1>6, <3>1
    <3>4. \A j \in 1..(k - 1) : ~Matches(list[j], route'[r].target, route'[r].used[j])
      BY <1>3, <1>5, <3>1
    <3> HIDE DEF next, st, list, k
    <3> QED BY <3>1, <3>2, <3>3, <3>4 DEF FirstMatch, Matches
  <2> QED BY <2>4, <2>5, <2>6
<1>7. CASE ~Matches(list[k], st.target, addr)
  <2>1. k # Len(list)
    BY <1>1, <1>7, AcceptedLists DEF Matches
  <2>2. route' = [route EXCEPT ![r] = next]
    BY <1>1, <1>2, <1>3, <1>4, <1>7, <2>1 DEF Compare, Becomes
  <2>3. route'[r] = next /\ \A q \in Routes : q # r => route'[q] = route[q]
    BY <2>2 DEF Inv, TypeOK
  <2>4. route' \in [Routes -> RouteStates]
    BY <1>3, <2>2 DEF Inv, TypeOK
  <2>5. InProgress(r)'
    <3>1. k < Len(list)
      BY <1>1, <2>1, AcceptedLists
    <3>2. \A j \in 1..k : ~Matches(list[j], next.target, next.used[j])
      BY <1>1, <1>3, <1>4, <1>5, <1>7
    <3> QED BY <1>3, <1>4, <2>3, <3>1, <3>2 DEF InProgress, Matches
  <2>6. \A q \in Routes : Matching(q)' => InProgress(q)'
    BY <2>3, <2>5 DEF Inv, Matching, InProgress, Matches
  <2>7. ~At(r, "decided")'
    BY <1>3, <2>3 DEF At
  <2> QED BY <2>4, <2>6, <2>7
<1> QED BY <1>6, <1>7

\* What is cached for a domain is an address (dnscache.go:74-77).
LEMMA CacheKept ==
  ASSUME TypeOK,
         \/ \E d \in Domains, a \in Addresses : cache' = Stored(d, a)
         \/ cache' = Evicted
         \/ \E d \in DOMAIN cache : cache' = [cache EXCEPT ![d].fresh = FALSE]
  PROVE  DOMAIN cache' \subseteq Domains /\ cache' \in [DOMAIN cache' -> Entries]
<1>1. DOMAIN Evicted \subseteq Domains /\ Evicted \in [DOMAIN Evicted -> Entries]
  BY DEF TypeOK, Evicted
<1>2. CASE \E d \in Domains, a \in Addresses : cache' = Stored(d, a)
  <2>1. PICK d \in Domains, a \in Addresses : cache' = Stored(d, a)
    BY <1>2
  <2>2. [addr |-> a, fresh |-> TRUE] \in Entries
    BY DEF Entries
  <2> DEFINE kept == IF Cardinality(DOMAIN cache) >= MaxEntries THEN Evicted ELSE cache
  <2>3. DOMAIN kept \subseteq Domains /\ kept \in [DOMAIN kept -> Entries]
    BY <1>1 DEF TypeOK
  <2>4. cache' = [e \in DOMAIN kept \cup {d} |->
                    IF e = d THEN [addr |-> a, fresh |-> TRUE] ELSE kept[e]]
    BY <2>1 DEF Stored
  <2> HIDE DEF kept
  <2> QED BY <2>2, <2>3, <2>4
<1>3. CASE \E d \in DOMAIN cache : cache' = [cache EXCEPT ![d].fresh = FALSE]
  BY <1>3 DEF TypeOK, Entries
<1> QED BY <1>1, <1>2, <1>3

\* A step that leaves the rules alone and moves one goroutine to another place,
\* where it is not on its way through the rules unless it was before.
LEMMA Moved ==
  ASSUME Inv, NEW r \in Routes, NEW state \in RouteStates, Becomes(r, state),
         UNCHANGED rules,
         \/ state.pc \in {"idle", "decided"}
         \/ /\ Matching(r) /\ state.list = route[r].list
            /\ state.used = route[r].used /\ state.target = route[r].target
         \/ state.list = rules /\ state.used = <<>>
  PROVE  /\ route' \in [Routes -> RouteStates] /\ route'[r] = state
         /\ \A q \in Routes : Matching(q)' => InProgress(q)'
<1>1. route' \in [Routes -> RouteStates] /\ route'[r] = state
      /\ \A q \in Routes : q # r => route'[q] = route[q]
  BY DEF Inv, TypeOK, Becomes
<1>2. \A q \in Routes : q # r => (Matching(q)' => InProgress(q)')
  BY <1>1 DEF Inv, Matching, InProgress, Matches
<1>3. Matching(r)' => InProgress(r)'
  <2>1. CASE state.pc \in {"idle", "decided"}
    BY <1>1, <2>1 DEF Matching
  <2>2. CASE /\ Matching(r) /\ state.list = route[r].list
             /\ state.used = route[r].used /\ state.target = route[r].target
    <3>1. InProgress(r)
      BY <2>2 DEF Inv
    <3> QED BY <1>1, <2>2, <3>1 DEF InProgress, Matches
  <2>3. CASE state.list = rules /\ state.used = <<>>
    <3>1. rules \in Accepted
      BY DEF Inv, TypeOK
    <3>2. Len(state.used) = 0 /\ Len(RuleList[rules]) > 0
      BY <2>3, <3>1, AcceptedLists
    <3> QED BY <1>1, <2>3, <3>2 DEF InProgress
  <2> QED BY <2>1, <2>2, <2>3
<1> QED BY <1>1, <1>2, <1>3

\* Every step keeps the invariant: an UpdateRules runs when no one matches, and no
\* other step touches the rules.  A decision comes from a step of the loop alone.
LEMMA NextInv ==
  ASSUME Inv, [Next]_vars
  PROVE  /\ Inv'
         /\ \A r \in Routes : Matching(r) /\ At(r, "decided")' => FirstMatch(r)'
<1> DEFINE Decided(r) == Matching(r) /\ At(r, "decided")' => FirstMatch(r)'
<1>1. ASSUME NEW r \in Routes, Begin(r) PROVE Inv' /\ \A q \in Routes : Decided(q)
  <2> DEFINE first(target) ==
        [NoRoute EXCEPT !.pc = "match", !.target = target, !.list = rules]
  <2>1. PICK target \in Targets : Becomes(r, first(target))
    BY <1>1 DEF Begin
  <2>2. first(target) \in RouteStates
    <3>1. rules \in Accepted
      BY DEF Inv, TypeOK
    <3>2. NoRoute \in RouteRecords
      BY DEF NoRoute, RouteRecords, Actions
    <3>3. first(target) \in RouteRecords
      BY <3>1, <3>2 DEF RouteRecords
    <3>4. first(target).pc = "match"
      BY <3>2 DEF RouteRecords
    <3> HIDE DEF first
    <3> QED BY <3>3, <3>4 DEF RouteStates
  <2>3. first(target).list = rules /\ first(target).used = <<>> /\ first(target).pc = "match"
    BY DEF NoRoute
  <2>4. UNCHANGED <<rules, writer, cache>>
    BY <1>1 DEF Begin
  <2> HIDE DEF first
  <2>5. /\ route' \in [Routes -> RouteStates] /\ route'[r] = first(target)
        /\ \A q \in Routes : Matching(q)' => InProgress(q)'
    BY <2>1, <2>2, <2>3, <2>4, Moved
  <2>6. \A q \in Routes : q # r => route'[q] = route[q]
    BY <2>1 DEF Becomes, Inv, TypeOK
  <2>7. Inv'
    BY <2>4, <2>5 DEF Inv, TypeOK
  <2>8. \A q \in Routes : Decided(q)
    BY <2>3, <2>5, <2>6 DEF At, Matching
  <2> QED BY <2>7, <2>8
<1>2. ASSUME NEW r \in Routes, NEW addr \in Addresses \cup {NoAddress}, Matching(r),
             Compare(r, addr), UNCHANGED <<rules, writer>>,
             DOMAIN cache' \subseteq Domains, cache' \in [DOMAIN cache' -> Entries]
      PROVE  Inv' /\ \A q \in Routes : Decided(q)
  <2>1. /\ route' \in [Routes -> RouteStates]
        /\ \A q \in Routes : Matching(q)' => InProgress(q)'
        /\ At(r, "decided")' => FirstMatch(r)'
    BY <1>2, Compared
  <2>2. \A q \in Routes : q # r => route'[q] = route[q]
    BY <1>2 DEF Compare, Becomes, Inv, TypeOK
  <2>3. Inv'
    BY <1>2, <2>1 DEF Inv, TypeOK
  <2>4. \A q \in Routes : Decided(q)
    BY <2>1, <2>2 DEF At, Matching
  <2> QED BY <2>3, <2>4
<1>3. ASSUME NEW r \in Routes, NEW state \in RouteStates, Becomes(r, state),
             UNCHANGED <<rules, writer, cache>>, state.pc # "decided",
             \/ state.pc = "idle"
             \/ /\ Matching(r) /\ state.list = route[r].list
                /\ state.used = route[r].used /\ state.target = route[r].target
      PROVE  Inv' /\ \A q \in Routes : Decided(q)
  <2>1. /\ route' \in [Routes -> RouteStates] /\ route'[r] = state
        /\ \A q \in Routes : Matching(q)' => InProgress(q)'
    BY <1>3, Moved
  <2>2. \A q \in Routes : q # r => route'[q] = route[q]
    BY <1>3 DEF Becomes, Inv, TypeOK
  <2>3. Inv'
    BY <1>3, <2>1 DEF Inv, TypeOK
  <2>4. \A q \in Routes : Decided(q)
    BY <1>3, <2>1, <2>2 DEF At, Matching
  <2> QED BY <2>3, <2>4
<1>4. ASSUME UNCHANGED route, rules' = rules \/ \A r \in Routes : ~Matching(r),
             rules' \in Accepted, writer' \in Accepted \cup {NoList},
             DOMAIN cache' \subseteq Domains, cache' \in [DOMAIN cache' -> Entries]
      PROVE  Inv' /\ \A q \in Routes : Decided(q)
  <2>1. \A q \in Routes : Matching(q)' => InProgress(q)'
    BY <1>4 DEF Inv, Matching, InProgress, Matches
  <2>2. Inv'
    BY <1>4, <2>1 DEF Inv, TypeOK
  <2>3. \A q \in Routes : Decided(q)
    BY <1>4 DEF At, Matching
  <2> QED BY <2>2, <2>3
<1>5. /\ rules \in Accepted /\ writer \in Accepted \cup {NoList} /\ TypeOK
      /\ DOMAIN cache \subseteq Domains /\ cache \in [DOMAIN cache -> Entries]
      /\ \A r \in Routes : route[r] \in RouteStates
  BY DEF Inv, TypeOK
<1>6. ASSUME NEW r \in Routes, RouteStep(r) PROVE Inv' /\ \A q \in Routes : Decided(q)
  <2>1. CASE MatchRule(r)
    <3>1. (IF route[r].target \in Addresses THEN route[r].target ELSE NoAddress)
             \in Addresses \cup {NoAddress}
      OBVIOUS
    <3> QED BY <1>2, <1>5, <2>1, <3>1 DEF MatchRule, At, Matching
  <2>2. CASE ReadCache(r)
    <3>1. CASE route[r].target \in DOMAIN cache /\ cache[route[r].target].fresh
      <4>1. cache[route[r].target].addr \in Addresses
        BY <1>5, <3>1 DEF Entries
      <4> QED BY <1>2, <1>5, <2>2, <3>1, <4>1 DEF ReadCache, At, Matching
    <3>2. CASE ~(route[r].target \in DOMAIN cache /\ cache[route[r].target].fresh)
      <4>1. [route[r] EXCEPT !.pc = "lookup"] \in RouteStates
        BY <1>5, <2>2 DEF ReadCache, Resolves, RouteStates, RouteRecords
      <4>2. LET st == [route[r] EXCEPT !.pc = "lookup"]
            IN  st.pc = "lookup" /\ st.list = route[r].list
                /\ st.used = route[r].used /\ st.target = route[r].target
        BY <1>5 DEF RouteStates, RouteRecords
      <4> QED BY <1>3, <2>2, <3>2, <4>1, <4>2 DEF ReadCache, At, Matching
    <3> QED BY <3>1, <3>2
  <2>3. CASE LookUpFails(r)
    BY <1>2, <1>5, <2>3 DEF LookUpFails, At, Matching
  <2>4. CASE LookUpAnswers(r)
    <3>1. PICK x \in Addresses :
             Becomes(r, [route[r] EXCEPT !.pc = "store", !.addr = x])
      BY <2>4 DEF LookUpAnswers
    <3>2. [route[r] EXCEPT !.pc = "store", !.addr = x] \in RouteStates
      BY <1>5, <2>4 DEF LookUpAnswers, At, RouteStates, RouteRecords
    <3>3. LET st == [route[r] EXCEPT !.pc = "store", !.addr = x]
          IN  st.pc = "store" /\ st.list = route[r].list
              /\ st.used = route[r].used /\ st.target = route[r].target
      BY <1>5 DEF RouteStates, RouteRecords
    <3> QED BY <1>3, <2>4, <3>1, <3>2, <3>3 DEF LookUpAnswers, At, Matching
  <2>5. CASE Store(r)
    <3>1. route[r].addr \in Addresses /\ route[r].target \in Domains
      BY <1>5, <2>5 DEF Store, At, RouteStates
    <3>2. DOMAIN cache' \subseteq Domains /\ cache' \in [DOMAIN cache' -> Entries]
      BY <1>5, <2>5, <3>1, CacheKept DEF Store
    <3> QED BY <1>2, <2>5, <3>1, <3>2 DEF Store, At, Matching
  <2> QED BY <1>6, <2>1, <2>2, <2>3, <2>4, <2>5 DEF RouteStep
<1>7. ASSUME NEW r \in Routes, Act(r) PROVE Inv' /\ \A q \in Routes : Decided(q)
  <2>1. NoRoute \in RouteStates /\ NoRoute.pc = "idle"
    BY DEF NoRoute, RouteStates, RouteRecords, Actions
  <2> QED BY <1>3, <1>7, <2>1 DEF Act
<1>8. ASSUME NEW list \in Accepted, AwaitWriteLock(list)
      PROVE  Inv' /\ \A q \in Routes : Decided(q)
  BY <1>4, <1>5, <1>8 DEF AwaitWriteLock
<1>9. CASE UpdateRules
  BY <1>4, <1>5, <1>9 DEF UpdateRules
<1>10. ASSUME NEW d \in Domains, EntryExpires(d)
       PROVE  Inv' /\ \A q \in Routes : Decided(q)
  <2>1. DOMAIN cache' \subseteq Domains /\ cache' \in [DOMAIN cache' -> Entries]
    BY <1>5, <1>10, CacheKept DEF EntryExpires
  <2> QED BY <1>4, <1>5, <1>10, <2>1 DEF EntryExpires
<1>11. CASE CleanUp
  <2>1. DOMAIN cache' \subseteq Domains /\ cache' \in [DOMAIN cache' -> Entries]
    BY <1>5, <1>11, CacheKept DEF CleanUp
  <2> QED BY <1>4, <1>5, <1>11, <2>1 DEF CleanUp
<1>12. CASE UNCHANGED vars
  BY <1>4, <1>5, <1>12 DEF vars
<1> QED
  BY <1>1, <1>6, <1>7, <1>8, <1>9, <1>10, <1>11, <1>12 DEF Next

\* Inv holds throughout.
LEMMA AlwaysInv == Spec => []Inv
<1>1. Inv /\ [Next]_vars => Inv'
  BY NextInv
<1> QED BY <1>1, InitInv, PTL DEF Spec

\* The lists in use were accepted, only domains are looked up, and the cache maps
\* domains to addresses (router.go:145-163, dnscache.go:43-89).
THEOREM RouterTypeCorrect == Spec => []TypeOK
<1>1. Inv => TypeOK
  BY DEF Inv
<1> QED BY <1>1, AlwaysInv, PTL

\* A decision is that of the first rule of the list in force that matches, and an
\* accepted list never runs out of rules, whatever look-ups answer and however
\* reloads fall between them (router.go:53-142).
THEOREM FirstRuleDecides == Spec => DecisionIsFirstMatch
<1> DEFINE A == \A r \in Routes : Matching(r) /\ At(r, "decided")' => FirstMatch(r)'
<1>1. Inv /\ [Next]_vars => [A]_vars
  BY NextInv
<1>2. Spec => [][A]_vars
  BY <1>1, AlwaysInv, PTL DEF Spec
<1> QED BY <1>2 DEF DecisionIsFirstMatch

----------------------------------------------------------------------------
(* The limit of the cache *)

\* However many domains there are, the cache has finitely many entries.
FiniteCache == IsFiniteSet(DOMAIN cache)

\* What InsertEvicts says of one step.
Evicts ==
    Cardinality(DOMAIN cache') > Cardinality(DOMAIN cache)
      /\ Cardinality(DOMAIN cache') > MaxEntries
      => \A d \in DOMAIN cache' : cache'[d].fresh

\* What Set keeps of a full cache is fresh, and a cleaning leaves finitely many
\* entries that are not more than before (dnscache.go:65-89).
LEMMA EvictedFresh ==
  /\ DOMAIN Evicted \subseteq DOMAIN cache
  /\ \A d \in DOMAIN Evicted : Evicted[d].fresh
<1> QED BY DEF Evicted

\* Nothing above the limit comes in without a cleaning: below it there is room for one
\* entry more.
LEMMA StoreEvicts ==
  ASSUME FiniteCache, NEW d, NEW a, cache' = Stored(d, a)
  PROVE  FiniteCache' /\ Evicts
<1> DEFINE size == Cardinality(DOMAIN cache)
           kept == IF size >= MaxEntries THEN Evicted ELSE cache
<1>1. IsFiniteSet(DOMAIN cache) /\ size \in Nat
  BY FS_CardinalityType DEF FiniteCache
<1>2. /\ DOMAIN cache' = DOMAIN kept \cup {d}
      /\ \A e \in DOMAIN cache' :
            cache'[e] = IF e = d THEN [addr |-> a, fresh |-> TRUE] ELSE kept[e]
  BY DEF Stored
<1>3. DOMAIN kept \subseteq DOMAIN cache
  BY EvictedFresh
<1>4. IsFiniteSet(DOMAIN kept)
  BY <1>1, <1>3, FS_Subset
<1>5. FiniteCache'
  BY <1>2, <1>4, FS_AddElement DEF FiniteCache
<1>6. CASE size >= MaxEntries
  <2>1. \A e \in DOMAIN cache' : cache'[e].fresh
    BY <1>2, <1>6, EvictedFresh
  <2> QED BY <1>5, <2>1 DEF Evicts
<1>7. CASE ~(size >= MaxEntries)
  <2>1. DOMAIN cache' = DOMAIN cache \cup {d}
    BY <1>2, <1>7
  <2> HIDE DEF kept
  <2>2. Cardinality(DOMAIN cache') = size \/ Cardinality(DOMAIN cache') = size + 1
    BY <1>1, <2>1, FS_AddElement
  <2>3. Cardinality(DOMAIN cache') <= MaxEntries
    BY <1>1, <1>7, <2>2, RouterAssumption
  <2> HIDE DEF size
  <2>4. Cardinality(DOMAIN cache') \in Nat
    BY <1>1, <2>2
  <2> QED BY <1>5, <2>3, <2>4, RouterAssumption DEF Evicts
<1> QED BY <1>6, <1>7

\* No other step takes the cache above its size: time passes in it, or it is cleaned.
LEMMA EvictsStep ==
  ASSUME FiniteCache, [Next]_vars
  PROVE  FiniteCache' /\ Evicts
<1>1. IsFiniteSet(DOMAIN cache) /\ Cardinality(DOMAIN cache) \in Nat
  BY FS_CardinalityType DEF FiniteCache
<1>2. ASSUME DOMAIN cache' \subseteq DOMAIN cache
      PROVE  FiniteCache' /\ Evicts
  <2>1. /\ IsFiniteSet(DOMAIN cache') /\ Cardinality(DOMAIN cache') \in Nat
        /\ Cardinality(DOMAIN cache') <= Cardinality(DOMAIN cache)
    BY <1>1, <1>2, FS_Subset, FS_CardinalityType
  <2> QED BY <1>1, <2>1 DEF FiniteCache, Evicts
<1>3. ASSUME NEW r \in Routes, Store(r)
      PROVE  FiniteCache' /\ Evicts
  BY <1>3, StoreEvicts DEF Store
<1>4. ASSUME NEW d, EntryExpires(d)
      PROVE  FiniteCache' /\ Evicts
  BY <1>2, <1>4 DEF EntryExpires
<1>5. CASE CleanUp
  BY <1>2, <1>5, EvictedFresh DEF CleanUp
<1>6. CASE UNCHANGED cache
  BY <1>2, <1>6
<1>7. \/ UNCHANGED cache \/ CleanUp
      \/ \E r \in Routes : Store(r)
      \/ \E d \in Domains : EntryExpires(d)
  BY DEF Next, RouteStep, Begin, MatchRule, ReadCache, LookUpFails, LookUpAnswers, Act,
         AwaitWriteLock, UpdateRules, vars
<1> QED BY <1>3, <1>4, <1>5, <1>6, <1>7

\* For any limit and any number of domains: an answer that takes the cache above its
\* limit has made every expired entry go first (dnscache.go:65-89).
THEOREM InsertionsEvict == Spec => InsertEvicts
<1>1. Init => FiniteCache
  <2>1. Init => DOMAIN cache = {}
    BY DEF Init
  <2> QED BY <2>1, FS_EmptySet DEF FiniteCache
<1>2. FiniteCache /\ [Next]_vars => FiniteCache' /\ [Evicts]_vars
  BY EvictsStep
<1> DEFINE A == LET size == Cardinality(DOMAIN cache)
                IN  size' > size /\ size' > MaxEntries
                      => \A d \in DOMAIN cache' : cache'[d].fresh
<1>3. Evicts => A
  BY DEF Evicts
<1>4. Spec => [][A]_vars
  BY <1>1, <1>2, <1>3, PTL DEF Spec
<1> QED BY <1>4 DEF InsertEvicts
=============================================================================
