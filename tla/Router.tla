------------------------------- MODULE Router -------------------------------
(***************************************************************************)
(* The routing engine: Route and UpdateRules (internal/router/router.go),  *)
(* the DNS cache they look domains up in (dnscache.go), and what Validate  *)
(* asks of a list of rules (internal/config/types.go).                     *)
(*                                                                         *)
(* A Route holds the router's read lock from its first line to its last,   *)
(* look-ups of up to five seconds included; UpdateRules takes the write    *)
(* lock, and while it waits for it sync.RWMutex lets no new reader in.     *)
(* The cache has a lock of its own, which no one keeps through a look-up.  *)
(*                                                                         *)
(* A pattern is the set of what it matches: domains, or addresses.  One    *)
(* that is malformed matches nothing.                                      *)
(***************************************************************************)
EXTENDS Naturals, Sequences, FiniteSets

CONSTANTS
    Domains,
    Addresses,
    Targets,    \* hosts that clients ask for
    Routes,     \* goroutines that ask for a decision
    RuleList,   \* the lists an administrator may write, by name
    NoList,
    GeoIP,      \* the GeoIP database could be opened at start
    MaxEntries, \* DNSCache.maxEntries
    NoAddress   \* nothing to compare an IP rule with

Actions == {"DIRECT", "PROXY", "REJECT"}
DomainTypes == {"DOMAIN", "DOMAIN-SUFFIX"}
AddressTypes == {"IP-CIDR", "GEOIP"}
Rules == [type : DomainTypes \cup AddressTypes \cup {"FINAL"},
          pattern : SUBSET (Domains \cup Addresses), action : Actions]

ASSUME RouterAssumption ==
    /\ RuleList \in [DOMAIN RuleList -> Seq(Rules)] /\ NoList \notin DOMAIN RuleList
    /\ Domains \cap Addresses = {} /\ Targets \subseteq Domains \cup Addresses
    /\ GeoIP \in BOOLEAN
    /\ NoAddress \notin Domains \cup Addresses
    /\ MaxEntries \in Nat

VARIABLES
    rules,      \* the list in Router.rules
    writer,     \* the rules that an UpdateRules waits to install, if one does
    route,      \* the goroutines
    cache       \* DNSCache.cache: domain -> entry

vars == <<rules, writer, route, cache>>

Entries == [addr : Addresses, fresh : BOOLEAN]
NoRoute == [pc |-> "idle", target |-> NoAddress, list |-> NoList, used |-> <<>>,
            addr |-> NoAddress, action |-> "PROXY"]

----------------------------------------------------------------------------
\* validateRoutingRules and ValidateRules: FINAL is the last rule and no other.
Accepts(list) ==
    list # <<>> /\ \A i \in DOMAIN list : list[i].type = "FINAL" <=> i = Len(list)

Accepted == {l \in DOMAIN RuleList : Accepts(RuleList[l])}

RouteRecords ==
    [pc : {"idle", "match", "lookup", "store", "decided"},
     target : Targets \cup {NoAddress}, list : Accepted \cup {NoList},
     used : Seq(Addresses \cup {NoAddress}), addr : Addresses \cup {NoAddress},
     action : Actions]

\* Only domains are looked up, and an answer is an address.
RouteStates ==
    {s \in RouteRecords : /\ s.pc \in {"lookup", "store"} => s.target \in Domains
                          /\ s.pc = "store" => s.addr \in Addresses}

TypeOK ==
    /\ rules \in Accepted
    /\ writer \in Accepted \cup {NoList}
    /\ route \in [Routes -> RouteStates]
    /\ DOMAIN cache \subseteq Domains /\ cache \in [DOMAIN cache -> Entries]

Init ==
    /\ rules \in Accepted
    /\ writer = NoList
    /\ route = [r \in Routes |-> NoRoute]
    /\ cache = <<>>

At(r, step) == route[r].pc = step
Becomes(r, state) == route' = [route EXCEPT ![r] = state]
Matching(r) == route[r].pc \in {"match", "lookup", "store"}

----------------------------------------------------------------------------
(* Route *)

\* Does a rule match a target whose address, if it is needed, is addr?
Matches(rule, target, addr) ==
    \/ rule.type = "FINAL"
    \/ rule.type \in DomainTypes /\ target \in Domains /\ target \in rule.pattern
    \/ rule.type = "IP-CIDR" /\ addr \in rule.pattern
    \/ rule.type = "GEOIP" /\ GeoIP /\ addr \in rule.pattern

\* The read lock is taken; the loop ranges over the slice it finds now.
Begin(r) ==
    /\ At(r, "idle") /\ writer = NoList
    /\ \E target \in Targets :
        Becomes(r, [NoRoute EXCEPT !.pc = "match", !.target = target, !.list = rules])
    /\ UNCHANGED <<rules, writer, cache>>

\* The rule the loop has come to.
Current(r) == RuleList[route[r].list][Len(route[r].used) + 1]
Resolves(r) ==
    /\ route[r].target \in Domains
    /\ Current(r).type = "IP-CIDR" \/ (Current(r).type = "GEOIP" /\ GeoIP)

\* The rule decides, or the loop goes on; a list that is exhausted means PROXY.
Compare(r, addr) ==
    LET next == [route[r] EXCEPT !.pc = "match", !.used = Append(@, addr),
                                 !.addr = NoAddress]
    IN  IF Matches(Current(r), route[r].target, addr)
        THEN Becomes(r, [next EXCEPT !.pc = "decided", !.action = Current(r).action])
        ELSE IF Len(next.used) = Len(RuleList[next.list])
        THEN Becomes(r, [next EXCEPT !.pc = "decided", !.action = "PROXY"])
        ELSE Becomes(r, next)

\* A rule that needs no look-up.
MatchRule(r) ==
    /\ At(r, "match") /\ ~Resolves(r)
    /\ Compare(r, IF route[r].target \in Addresses THEN route[r].target ELSE NoAddress)
    /\ UNCHANGED <<rules, writer, cache>>

\* Resolve: an entry that has not expired is used at once.
ReadCache(r) ==
    LET d == route[r].target
    IN  /\ At(r, "match") /\ Resolves(r)
        /\ IF d \in DOMAIN cache /\ cache[d].fresh
             THEN Compare(r, cache[d].addr)
             ELSE Becomes(r, [route[r] EXCEPT !.pc = "lookup"])
        /\ UNCHANGED <<rules, writer, cache>>

\* A mutant: the rule is tried again.
Bug_LookUpFails(r) ==
    /\ At(r, "lookup")
    /\ Becomes(r, [route[r] EXCEPT !.pc = "match"])
    /\ UNCHANGED <<rules, writer, cache>>

\* An error, the end of the context's five seconds, or no address at all: the
\* rule is passed over.
LookUpFails(r) ==
    /\ At(r, "lookup")
    /\ Compare(r, NoAddress)
    /\ UNCHANGED <<rules, writer, cache>>

LookUpAnswers(r) ==
    /\ At(r, "lookup")
    /\ \E a \in Addresses : Becomes(r, [route[r] EXCEPT !.pc = "store", !.addr = a])
    /\ UNCHANGED <<rules, writer, cache>>

Evicted == [d \in {e \in DOMAIN cache : cache[e].fresh} |-> cache[d]]

\* A mutant: one entry too many before the cache is cleaned.
Bug_Stored(d, a) ==
    LET kept == IF Cardinality(DOMAIN cache) > MaxEntries THEN Evicted ELSE cache
    IN  [e \in DOMAIN kept \cup {d} |-> IF e = d THEN [addr |-> a, fresh |-> TRUE] ELSE kept[e]]

\* At the limit the expired entries make room; the new one goes in either way.
Stored(d, a) ==
    LET kept == IF Cardinality(DOMAIN cache) >= MaxEntries THEN Evicted ELSE cache
    IN  [e \in DOMAIN kept \cup {d} |-> IF e = d THEN [addr |-> a, fresh |-> TRUE] ELSE kept[e]]

Store(r) ==
    /\ At(r, "store")
    /\ cache' = Stored(route[r].target, route[r].addr)
    /\ Compare(r, route[r].addr)
    /\ UNCHANGED <<rules, writer>>

\* The handler takes the decision and comes back with another request.
Act(r) ==
    /\ At(r, "decided")
    /\ Becomes(r, NoRoute)
    /\ UNCHANGED <<rules, writer, cache>>

----------------------------------------------------------------------------
(* UpdateRules, and the passing of time in the cache *)

\* A reload with other rules arrives at the lock.
AwaitWriteLock(list) ==
    /\ writer = NoList
    /\ writer' = list
    /\ UNCHANGED <<rules, route, cache>>

\* A mutant: the rules are replaced under the readers' feet.
Bug_UpdateRules ==
    /\ writer # NoList
    /\ rules' = writer
    /\ writer' = NoList
    /\ UNCHANGED <<route, cache>>

UpdateRules ==
    /\ writer # NoList /\ \A r \in Routes : ~Matching(r)
    /\ rules' = writer
    /\ writer' = NoList
    /\ UNCHANGED <<route, cache>>

EntryExpires(d) ==
    /\ d \in DOMAIN cache /\ cache[d].fresh
    /\ cache' = [cache EXCEPT ![d].fresh = FALSE]
    /\ UNCHANGED <<rules, writer, route>>

\* cleanupLoop, once a minute.
CleanUp ==
    /\ cache' = Evicted
    /\ UNCHANGED <<rules, writer, route>>

RouteStep(r) ==
    MatchRule(r) \/ ReadCache(r) \/ LookUpFails(r) \/ LookUpAnswers(r) \/ Store(r)

Next ==
    \/ \E r \in Routes : Begin(r) \/ RouteStep(r) \/ Act(r)
    \/ \E list \in Accepted : AwaitWriteLock(list)
    \/ UpdateRules
    \/ \E d \in Domains : EntryExpires(d)
    \/ CleanUp

Spec == Init /\ [][Next]_vars

\* Look-ups end, with an answer or after the five seconds of the context, and a
\* writer whose turn it is runs.  Nothing makes requests or reloads arrive.
Fairness ==
    /\ \A r \in Routes : WF_vars(RouteStep(r))
    /\ WF_vars(UpdateRules)

FairSpec == Spec /\ Fairness

----------------------------------------------------------------------------
\* The action of r is that of the first rule of the list in force that matches.
FirstMatch(r) ==
    LET list == RuleList[rules]
        now == route[r]
        hits(i) == Matches(list[i], now.target, now.used[i])
    IN  /\ Len(now.used) \in DOMAIN list
        /\ hits(Len(now.used)) /\ now.action = list[Len(now.used)].action
        /\ \A j \in 1..(Len(now.used) - 1) : ~hits(j)

\* config-schema.md:189: rules are tried in the order of the list, and the first
\* that matches decides; one whose look-up failed does not match.  A reload between
\* two rules mixes no lists, and no request runs out of rules.
DecisionIsFirstMatch ==
    [][\A r \in Routes : Matching(r) /\ At(r, "decided")' => FirstMatch(r)']_vars

\* The cache passes its limit by fresh entries only: an insertion that takes it
\* above has removed every expired entry of another domain.
InsertEvicts ==
    [][LET size == Cardinality(DOMAIN cache)
       IN  size' > size /\ size' > MaxEntries
             => \A d \in DOMAIN cache' : cache'[d].fresh]_vars

\* A waiting UpdateRules gets the lock although requests keep coming: those that
\* are being routed all come to a decision, whatever the resolver does.
RulesTakeEffect ==
    \A list \in Accepted : writer = list ~> rules = list
=============================================================================
