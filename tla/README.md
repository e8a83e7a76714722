# multi-trojan-proxy: specifications

TLA+ modules, TLC runs and TLAPS proofs about the HTTP(S) proxy that spreads its
traffic over several trojan nodes. The models are read from the Go source under
`src/`; file names below are relative to it. `PROJECT.json` maps every
definition to the lines it stands for, and lists runs, mutants, findings,
hazards and theorems.

## 1. The system

| Component | State it keeps | Operations | Where it is modelled |
|---|---|---|---|
| Pool (`internal/trojan/pool.go`) | idle stack, `activeCount`, `closed` | Get, Put, Close | `PoolOps`, `TrojanPool` |
| Client (`client.go`, `protocol.go`) | `closed`, `lastUsed`, `conn` | Connect, Dial, Close | `TrojanPool`; with its sockets `TrojanClient` |
| Selector (`selector.go`) | node list, pool per node, round-robin cursor | SelectClient, failover, ReleaseClient, UpdateNodes, Close | `Selector`; with the cursor `Failover` |
| Health checker (`internal/health/`) | node list, `NodeStatus` per node | check loop, probes, passive reports, UpdateNodes, Stop | `HealthChecker` |
| Server (`internal/proxy/server.go`) | `activeConns` | admission, Stop | `ProxyHandler` |
| Handler (`handler.go`, `forwarder.go`) | none of its own; goroutines, sockets, `errCh`, a transport per HTTP request | CONNECT, HTTP, direct | `ProxyHandler`; the transports `TrojanClient` |
| Load (`internal/config/loader.go`, `types.go`) | none that is read | merge, SetDefaults, Validate | `ConfigRules` |
| Watcher (`watcher.go`) | debounce timer, watched directory | event filter, reload, Stop | `ConfigReload` |
| main (`cmd/proxy/main.go`) | wiring | onChange, shutdown | `ConfigReload`, `ProxyHandler` |
| Router, DNS cache (`internal/router/`) | rule list under a read-write lock, cached addresses | Route, UpdateRules, Resolve, eviction | `Router` |
| Failover (`failover.go`) | none | ExecuteWithFailover | `Failover`; nothing calls it |
| Connection tracker (`connections.go`) | map of connections | Track, Untrack | not: nothing calls it |
| Logger (`pkg/logger`) | file, size | New, log, rotate, Close | `Logger` |

How they interact. A request is admitted by the server and handled in a
goroutine of net/http. The handler asks the router, then the selector for a
client; the selector asks the health checker for the healthy nodes, picks one
and asks its pool. The handler reports start, outcome and end of the connection
to the passive detector, which writes the node's status, and gives the client
back through the selector. Probe goroutines write the same statuses. The
watcher, on a timer goroutine, loads a new configuration and hands it to the
selector, the health checker and the router, one after the other.

What makes it hard:

- **look up under the lock, use after it**: pools (`selector.go:100-107`,
  `193-198`) and statuses (`checker.go:106`, `passive.go:38,46`) are objects that
  a reload may drop or replace between the two;
- **two lists of nodes**: the selector's and the checker's change one after the
  other;
- **counters kept apart from what they count**: `activeCount`, `ActiveConns`,
  `activeConns`;
- **many ways out** of a handler, each with a client, sockets, a slot and a
  report to settle;
- **goroutines that end because something else is closed**: the two copiers;
- **overlapping reloads**, and two files read one after the other;
- **sockets that two parties can close**: `Client.conn` is overwritten by every Dial
  while the socket it had is in use, and a transport dials on for a request that is
  gone;
- **failures that are ignored**: a rotation of the log goes on after any of its calls
  has failed, and the process may end between two of them;
- **a read lock held through look-ups** of the network (`router.go:55`), while a
  reload waits to replace the rules.

What makes each component correct: a client is in one place at a time, is closed
when nobody refers to it and a node never has more than `max_active` of them
(pool, selector); nobody closes the socket under a request (client); shares of nodes
follow their weights (selector); a call ends when its operation does, and a client that
failed is not used again (failover); a node's health changes only by three failures or a successful probe
of itself, and recovers (health); slot, client and sockets are given back on
every path, and a tunnel that is over ends (handler); what a component could not
work with is never applied, and only reloads that overlap put an older configuration
back or set components apart (reload); the first matching rule of one list decides, and
new rules get in (router); lines are kept and in order, and a file does not grow past
its limit (logger).

## 2. Modules

`PoolOps` holds the state of one pool and one operator per step of Get, Put and
Close, each a function of the pool's record since `Pool.mu` is held from the
first line to the last. `TrojanPool` and `Selector` EXTEND it; `TrojanClient` adds the
sockets to `TrojanPool`, and `Failover` the round-robin and the retries to
`Selector`: their steps have steps of the module below as parts. `ConfigReload`
EXTENDS `ConfigRules`. `ClientLease` is the abstract specification that `TrojanPool`
and `Selector` implement.

| Module | Models | Actors that interleave |
|---|---|---|
| `TrojanPool` | one pool, its clients and their users | callers that get, dial, close and put; time; Close |
| `TrojanClient` | the pool with the sockets of its clients | requests, their transports, the node, the garbage collector, Close |
| `Selector` | all pools behind the selector | workers; reloads in two halves, which may overlap; time; Close |
| `Failover` | the round-robin and ExecuteWithFailover over the selector | workers, each in a call |
| `ClientLease` | what pools promise: loans, spares, a limit, and what is closed | borrowers |
| `HealthChecker` | statuses, probes, passive reports | check loop, a probe goroutine per node and round, connections, reloads, Stop, servers |
| `ProxyHandler` | admission, handler, tunnel, shutdown | a goroutine per request, two copiers each, Stop |
| `ConfigRules` | configurations as data, SetDefaults, Validate | none |
| `ConfigReload` | files, events, debounce, reload | administrator, watcher, timer goroutines |
| `Router` | Route rule by rule, UpdateRules, DNS cache | requests, a reload at the lock, the resolver, time |
| `Logger` | the log file and its rotation | the holder of the lock, the file system, the process, the clock |

Each `MC...` module gives a module its constants for TLC; `...Proofs` modules hold
the theorems. Operators named `Bug_...` are wrong variants of the definition
after them. `PROJECT.json` names, for each property of a passing run, the variant
that TLC must find to violate it; no specification uses them.

### TrojanPool

`pool.clients` is the idle stack, `held` the clients that Get has handed out and
Put has not taken back, `open` those not closed, and `stale` the open ones that
were last used five minutes ago or more. Get is five actions: reuse, full,
connection failure and new client, where the last three first discard a stale
client if one is on top (`AfterMiss`). Dial needs no lease: http.Transport may
finish the dial of an abandoned request later (`forwarder.go:22`). A pool keeps
`activeCount` apart from the clients: `CountBounded` says how far the two drift.

### ClientLease

`loans` pairs a borrower with the client it has, `spare` are the clients kept, `open`
those that have been made and not closed. Only a spare or a new client is lent, and a
spare that is given up, or a client that is not kept when it comes back, is closed. A
pool refines it with `held`, the idle stack and `open`; the one place where that is not
a matter of names is the limit, which holds of the clients though Get compares a counter
that drifts. For all pools together (`Selector`), the borrowers are the workers, the
spares are the clients on any stack, and there is no limit on all nodes together: what
is left to show is that no interleaving of selections, releases and reloads lends a
client twice, lends one that was given up, or gives one up without closing it.

### TrojanClient

`conn` is `Client.conn`, `live` the sockets that are open, `parked` those that sit idle
in the transport of some HTTP request, `late` the client of a dial that a request
has abandoned and its transport goes on with. Connect makes a TCP connection and each
Dial a TLS connection of its own that takes its place, without closing it: it is
garbage from then on, and `Collected` is its finalizer. A tunnel's socket is closed by
the handler after ReleaseClient (`Leave`), that of an HTTP request by its transport.
Names of clients and sockets are used again only when nothing refers to them
(`Reachable`, `Referenced`).

### Failover

`current` is the round-robin's cursor, modulo `Cycle`, which every total weight divides.
`WeightedSelect` is `SelectClient` with the node that the weights choose, and
`OtherInOrder` its failover in the order of the list. A call (`exec`) goes from the
selection through the operation and the release, which is in two halves as in
`Selector`, to its next attempt. `broken` remembers on which clients an operation
failed; only the properties read it.

### Logger

`log` holds `Logger.mu` from `Log` to `Write`, so that one `pc` is enough. A rotation is a
close, a rename and an open, each of which may fail without the next being left out;
`Ends` may come between any two. A file is the numbers of its lines and its size. The
name of a rotated file is the second it was made in. A logger that has been closed
still takes lines, and opens the file again when a rotation is due.

### Selector

A pool is an index into `pool`, so that the pool a goroutine looked up stays what
it was when `pools` forgets it. `SelectClient` is the first critical section (any
subset of the checker's enabled nodes may be healthy at that moment),
`GetSucceeds`/`GetFails` the Get after the unlock, `LockForFailover` to
`OthersExhausted` the failover, during which `mu` is held from step to step.
`ReleaseLookUp` and `ReleasePut` are the two halves of a release. A reload (one of
`Reloads`) is `UpdateNodes` and then `UpdateChecker`; two of them may overlap, as the
timer goroutines of the watcher do, and leave the selector and the checker with
different lists. A node that is healthy by the checker's list and has no pool by the
selector's ends the selection with an error (`selector.go:99-101`), also when other
nodes could serve. The failover tries the other nodes in any order, where the code takes
the order of the list.

### HealthChecker

Status objects are told apart by `id`. A goroutine keeps the id it looked up, and
`Written` has an effect only if that object is still in the map: no one can read
the others. A tick starts probes whether or not those of the tick before have ended:
`Rounds` bounds how many rounds are under way. `ChooseNode` takes a healthy node, or,
when there is none, one of the selector's list, which may be that of another
configuration than the checker's. `born` remembers which object counted a connection;
the code does not keep it, only the properties read it. `failCount` stops counting at three, since
it is compared with three only. Latencies and success rates are left out: nothing
decides by them.

### ProxyHandler

One action per step of the handler that may fail or wait. `socks` are the
connections the handler has open, `lease` whether it holds a trojan client,
`closed` whether it closed that one before giving it back, `reply` the statuses
the client was sent. `copier` and `errCh` are the tunnel's goroutines and channel.
A request name is used again when its goroutines have ended (`Collected`).
Requests over the limit get 503 and change nothing, so they have no action. Requests
still arrive, on connections that net/http has accepted, while Shutdown drains and after
it has given up waiting; only when it has returned is there no connection left.

### ConfigReload

A file is the sequence of its contents; the nodes of a component are those of an
index of the main file, the rules of the router those of a pair of indices. What a
content says is data in `ConfigRules`, which translates SetDefaults and Validate check
by check; of a text it keeps whether it is there and well-formed, and of the pattern of
an IP-CIDR rule whether it is a CIDR. `EditMain` comes as a write, a creation, or any
other event (a file moved away, a link that leads elsewhere), which `Concerns` drops.
`WatchEvent` filters and debounces, `TimerFires` starts a reload goroutine, whose steps
are the two reads and the three updates. `Reloads` bounds how many reloads overlap.
`alone` records of a reload whether it met another one; only the properties read it.

### Router

A goroutine of `route` holds the read lock from `Begin` to its decision (`Matching`);
`writer` is a reload that waits for the write lock, and since `sync.RWMutex` then lets
no new reader in, `Begin` asks that there is none. A rule's pattern is the set of
domains or addresses it matches: the comparison of names, CIDR blocks and countries
is left to that set. `used` records the address each rule was compared with, which
the code does not keep: only the properties read it, since two look-ups of one
request may answer differently. An entry of the cache is fresh until it expires.
`RuleList` holds lists that an administrator may write; those that
`validateRoutingRules` and `ValidateRules` refuse (for where FINAL stands) are not
`Accepted` and never come into force.

## 3. Runs

Bounds are chosen so that the interesting cases happen: more clients than
`MaxIdle` and `MaxActive` leave room for; two workers (one inside a window, one
outside); two nodes, one of which is removed and added again, the other disabled
and enabled (in `health` the two replace each other); two reloads that may overlap in
`selector` and `reload`; two rounds of probes; weights of two and one; two requests
that are both served (a third one would be refused, which changes nothing); two or three
edits of the files, with contents that are good, unreadable, refused for a weight, an interval,
a database or the place of FINAL, and good but refused at start-up; four sockets for two requests and three clients; five
lines of two lengths in three seconds; two requests against a cache of one entry, for two
domains and an address, and two accepted lists, one of which looks a domain up
twice, beside two that are refused. `MaxPools`, `MaxId`, `MaxEdits`, `MaxEvents`, `LastLine`, `LastSecond` and `Cycle` bound
counters, `Reloads` and `Rounds` goroutines; they allow a node to be removed and added again at least once.

Names are interchangeable where SYMMETRY is used, which is only in runs without
liveness. `CHECK_DEADLOCK FALSE` is set in all runs but `router`, because these systems
do stop: a closed pool takes no Get, bounds on objects and edits are reached, and a
server that has stopped takes no request.

Passing runs:

| Run | Properties | What it shows |
|---|---|---|
| `pool` | IdleUsable, NoOrphan, CountBounded, ImplementsLease | no client is kept closed or lost, the counter never falls below what it must cover, and the pool implements `ClientLease`: one borrower per client, and never more than the limit |
| `sockets` | RequestKeepsSocket, ClosedPoolHoldsNoSocket | overwritten connections, late dials and Close never cut a socket in use, and none waits for a Close that never comes |
| `selector` | TypeOK, NoOrphan, RetiredPools, IdleMatchesNode, ImplementsLease | pools that a reload retires under a Get or a Put stay retired, no client is lost or doubled, and all pools together implement `ClientLease` |
| `failover` | RoundsFollowWeights, BrokenNeverLent, CallsSettle, CallsEnd | shares follow the weights, a failed client is not used again, and no call (and so no selection) goes on for ever unless its operation does |
| `health` | StatusPerNode, StreakMarks, ActiveConnsNotLeaked, HealthTurnsOn, ProbeStaysOnItsObject, NodeRecovers | health changes for the right reasons, on the right object; counts do not creep up over reloads; a node that is up becomes healthy again |
| `proxy` | AdmissionExact, NothingLeftBehind, OutcomeReported, FailedClientsClosed, TunnelAnsweredOnce, CopiersEnd, TunnelFreesSlot | every path settles slot, client, sockets and report; a finished tunnel frees everything |
| `reload` | AppliedServes, AloneAgrees, OnlyOverlapsGoBack, EditsRead | while reloads may overlap: no component gets what it cannot work with, only an overlap puts an older configuration back, the next reload that runs alone brings selector and checker together, and no write of the main file stays unread |
| `logger` | RetryPending, SizeBounded, LogInOrder, LinesKept | rotations that fail anywhere and processes that end anywhere leave the lines in order, the file within its size and the logger able to recover; the size is exceeded when the rename fails or `Stat` does at start-up (`logger.go:94`) |
| `router` | DecisionIsFirstMatch, InsertEvicts, RulesTakeEffect | no decision mixes lists or runs out of rules, a full cache first gives up what has expired, and a reload gets the lock |

The type invariant of every module is proved (section 4): those of `Failover`
(`FailoverTypeOK`) and `TrojanClient` (`SocketsTypeOK`) as conjuncts of the inductive
invariants there, the others as theorems of their own; the run `selector` checks that
of `Selector` too.
`ImplementsLease` has `LeaseExclusive`, and for one pool `ConnectionsBounded`, as a
consequence; both are stated in `TrojanPool` for the proofs. Where a run is small,
a theorem of section 4 goes further: `health` has one connection and the theorem
about `ActiveConnsNotLeaked` any number of them; `proxy` has two requests and the
theorems about its invariants any number; `reload` has two reload goroutines and the
theorem about `AppliedServes` any number of overlapping ones; `failover` has
two nodes with weights of two and one, and the theorem about `RoundsFollowWeights` any
list and any weights.

Runs that must fail show where the code does something else than the documents
say. Each is quoted under `findings`:

| Run | Statement | What the code does |
|---|---|---|
| `selector_readd` | `max_active` connections of a node | a node added again has a second pool |
| `reload_overlap` | atomic reloads | overlapping reloads mix configurations |
| `reload_refused` | a reload that refuses a configuration keeps the old one | a rule that the schema calls invalid is taken into use, since `ValidateRules` is called at start-up only |

`selector_readd` checks `NodeLimit` while the proxy is serving, without the shutdown
of the selector.

Differences between documents and code that are plain in the source and need no
run: `tls.Dial` has no timeout (`protocol.go:26`, against FR-015); the handler never
calls the `Failover` it is given (`handler.go:149`), whose attempts may all go to one
node, since a node picked again costs one (`failover.go:54`); `ActiveCount` passes
`MaxActive`, since a stale client that Get discards is not subtracted (`pool.go:49`,
against `data-model.md:137`); between the two halves of a reload, and after reloads that
overlapped, a node may be chosen that has no pool, and the request fails at once though
another node could serve it (`selector.go:99-101`, against the retry on other nodes of
`docs/ARCHITECTURE.md:57-59`); nodes are picked in bursts of their weight, not smoothly
(`selector.go:136`, against `docs/ARCHITECTURE.md:256-281`); `max_active` counts clients,
not sockets: Connect makes a TCP connection that no request uses, and connections that
transports keep count nowhere (`client.go:73`, `forwarder.go:19`, against
`internal/config/types.go:25`); `failure_threshold` is stored and
never read, the limit is the literal three (`status.go:64`, against
`docs/ARCHITECTURE.md:100`); only the main file is
watched, not the rules file (`watcher.go:64`, against FR-022), and of it writes and
creations only; GEOIP rules that a reload adds never match without a database at
start-up, and rules added to a configuration without any have no effect
(`main.go:166`); a node whose settings changed keeps
a pool that connects with the old ones (`selector.go:265`); tunnels are cut when the
process exits after Stop (`server.go:118`); `ActiveConns` (`status.go:19`) falls short when a
connection ends that an earlier object of its name had counted (`passive.go:46`); the
cache passes its 10000 entries when they are all fresh (`dnscache.go:70`, against the
comment at `router.go:31`), and gives up expired ones only, so that it is no LRU cache
(`docs/ARCHITECTURE.md:131`).

### Fairness

- Failover: strong fairness of each worker's steps inside a call. Every dial
  has a timeout (`client.go:45`, `selector.go:103,170`), and a Go mutex in starvation
  mode goes to the first waiter; the pause before the next attempt ends. Nothing is
  assumed of the operation: it is given no context (`failover.go:39`) and the dial of a
  node has no timeout (`protocol.go:26`), so that `CallsEnd` says of each call that it
  ends or is stuck in its own operation. `Selector` alone states no liveness: no caller
  there is obliged to give its client back.
- HealthChecker: the ticker fires while the loop runs, and a probe ends (its
  timeout is less than the interval, `types.go:214`); the rounds may overlap all the same.
  Nothing forces traffic or reloads, and servers may go up and down.
- ProxyHandler: handlers are scheduled and the calls they wait for end, except
  the dial of a node (no timeout) and the streams of a tunnel: a copier is sure to
  end only when the connection it reads from has been closed.
- ConfigReload: the watch goroutine, the timer and each reload are scheduled. The
  administrator need not do anything.
- Router: a request on its way through the rules goes on, since a look-up ends with
  its context after five seconds at the latest (`handler.go:61`), and a reload takes
  the lock when the readers before it have left.

## 4. Proofs

`tlapm` checks every theorem below for all values of the constants, from the
named assumptions of the modules.

**TrojanPool** (`PoolOpsProofs`, `TrojanPoolProofs`): assumptions `MaxIdle`, `MaxActive`
natural numbers. `TypeCorrect`, `ExclusiveLeases`, `IdleClientsUsable`, `ClientsAccountedFor` and
`NodeLimit` come from one inductive invariant: the type, the exclusive lease, usable
idle clients, no orphan, the two bounds, and the finiteness of `held`. The limit on real connections is the
interesting one: it is not what Get checks, since Get compares the drifting counter.
The link is that the counter never falls below the leased clients
(`CountBounded`), and that a leased or idle client is counted once
(`LeaseExclusive`); with these the checked bound implies the real one.
`PoolImplementsLease` is the refinement: by cases on the actions, each is a `Lend`, a
`TakeBack`, a `Close`, a `GiveUp` or a stutter of `ClientLease`, where the limit after the
step comes from the invariant of the next state, and that a client lent anew was not open
from its being neither idle nor held.
`PoolOpsProofs` holds the lemmas about the operators on the idle stack (top, push,
pop, injectivity), stated once.

**TrojanClient** (also `TrojanPoolProofs`): `SocketsOutliveRequests` and
`ShutdownClosesSockets`, for any number of requests, clients and sockets. A socket in use
could be closed by way of any client that refers to it, and `conn` is overwritten by
dials that nobody waits for. `SockInv` therefore adds to the invariant of the pool that
two requests share neither a client nor a socket (`RequestsApart`), that the open client
which refers to a socket in use is that of the request (`ConnsOwn`), and that a closed
client refers to nothing open but what a transport keeps (`ClosedConnsGone`). That every
step is one of the pool or leaves it alone (`ClientsUsePool`) is what carries the
theorems about the pool over to the sockets.

**Selector** (`SelectorProofs`): the configurations are finite sets of nodes and not
empty, and there are finitely many names of clients (names of clients that are gone are used
again). `TypeCorrect`, `NoConnectionLost`, `RetiredPoolsStayEmpty` and
`ClientsKeepTheirNode` come from one inductive invariant over all pools, those that the
map has forgotten included. A step of the selector runs in several lock windows, between
which a reload may retire the pool it has found. What has to be known besides the four
properties: a client is in one place only, one idle stack or one worker (`OnePlace`),
whence closing a pool closes no client that is lent; a name given to a new client was
nowhere (`Made`); and a worker has the client and the pool its step needs, for a
release a pool of the client's own node (`InStep`), whence a late Put cannot put a
client on the stack of another node. UpdateNodes and Close retire pools in the same way,
and one lemma (`RetireInv`) serves both. `SelectorImplementsLease` is the refinement of
`ClientLease` with any number of pools that come and go.

**Failover** (also `SelectorProofs`): `FailoverAssumption` says that the list has each
node once and that weights are positive, as Validate asks (`types.go:170-184`).
`CallsUseSelector` shows that every behaviour is one of `Selector`, so that all of the
above holds under the calls; `CallsReturnTheirClient` and `BrokenClientsStayOut` come
from `CallInv`, which adds to the invariant of the
selector in which of its steps the worker of each call may be (`Matches`), and that a
client on which an operation has failed is closed, idle nowhere and with no other call
(`BrokenApart`). `RoundsAreFair` is about arithmetic: wherever the cursor stands, among
as many consecutive values as the total weight each remainder comes up once
(`OffsetsOfRound`, by a bijection), and the loop stops at a node for as many remainders
as its weight is (`PickInShare`). Facts about the loop need induction, which the
library offers only for an operator as a parameter; here it is done with sets:
of the numbers for which a fact fails there is a least one (`LeastNumber`). That is why
`Listed` and `UpTo` are recursive functions.

**HealthChecker** (`HealthCheckerProofs`): assumptions on the configurations (names,
at least one enabled node, as Validate asks), `MaxId` positive and finitely many
connections. `HealthTypeCorrect`, `StatusesMatchNodes`, `StreaksMark` (inductive with
the types) and `ConnectionCountSafe`. That
the count never exceeds the connections it counts is not inductive:
RecordConnectionEnd decrements the object it looked up at that moment, not the one
that counted the connection. The strengthening says that the two are the same
whenever the counting object is still in the map (`EndsWhereBorn`), which holds
because an object that was dropped never comes back: ids only grow
(`CurrentIds`, `KnownIds`). Two action properties follow from the types and the streaks:
`HealthTurnsOnProbes` (what may turn the health of a node) and
`VerdictsKeepTheirObject` (a verdict reaches the object the probe was begun for, or none).

**ConfigReload** (`ConfigReloadProofs`): `AppliedAlwaysServes` and `ReloadTypeCorrect`,
for any contents of the two files, any number of overlapping reloads and any bound on
edits. The strengthening says that a reload past its two reads carries a pair of
versions that Load accepted together; contents are only appended. The rest is a lemma
about `ConfigRules` (`ValidServes`): what Validate accepts, of any lengths and with any
numbers, is what the components need.
`AloneGoesForward` and `AloneBringsTogether` are about reloads that may overlap: the
action property `OnlyOverlapsGoBack` and the invariant `AloneAgrees`, which name the
reload that met no other one by what it saw itself. While it is under way nothing else
changes a component, and it read its files after every other reload had read its own, so
that what it brings is at least as new as what is there, whatever earlier overlaps put
back. Without that condition both are false, as the run `reload_overlap` shows.

**Router** (`RouterProofs`): `RouterTypeCorrect` and the action property
`FirstRuleDecides`, for any rules, lists, requests and addresses. The invariant says
of every goroutine between two rules that the list it reads is the one in force
(UpdateRules needs the write lock), that a rule is left, and that none so far
matched. A rule is always left because a list that was accepted ends with FINAL and
FINAL matches (`AcceptedLists`): the fallback at `router.go:138-141` is never reached.
`InsertionsEvict` is about the cache: for any limit, it grows at the limit only when
nothing in it has expired; all it needs is that the cache is finite.

**Logger** (`LoggerProofs`): the type invariant, the three invariants of the run and
the action property `LinesKept`, for any sizes, numbers of lines and seconds. Besides
them the inductive invariants say that the counter of the size is never behind the
file it counts, unless `refused` records that a rename or the reading of the size failed
(`SizeInv`), and that the seconds in the names of the files are not later
than now (`OrderInv`), which is what makes a rename keep the order.

**ProxyHandler** (`ProxyHandlerProofs`): the type invariant and the five invariants of
the run `proxy`, for any number of requests and any limit. None of them is inductive:
whether a request that returns has a client, an open socket or a second answer depends
on the way it took. `Consistent` says of each step of the handler what a request that
got there has done; each action is shown to lead from one such state to another
(`Continues`), and one lemma carries that over to the rest of the invariant. The
counter is exact because the set of active requests is finite and changes by one
element in `Arrive` and `Leave` only.

Only model-checked: liveness, since fairness and ENABLED are out of the prover's reach
(`CallsEnd`, `NodeRecovers`, `CopiersEnd`, `TunnelFreesSlot`, `EditsRead`,
`RulesTakeEffect`). Every invariant and every action property of a passing run is
stated by a theorem. The three statements of the violation runs are false, and nothing is
proved about them; `AloneBringsTogether` and `AppliedAlwaysServes` say what holds in
place of two of them.

## 5. Not modelled

The bytes of requests, headers and TLS; latencies, success rates and every other
statistic; what log lines say; flags and the wiring in main. GeoIP (a third-party
database that is read), health queries (they only read) and the connection tracker
(nothing calls it). `SelectClientWithFailover` and `ProbeWithRetry`, which nothing calls
either. The limits of the pools are natural numbers: Validate does not look at them
(`types.go:146-231`), and a negative `max_idle` ends the process when the first pool is
made. The clock does not go back.

## 6. Plan

Done, most important first: pool, selector, health, handler, reload, router; then the
leases and their refinement, the round-robin and the failover, the sockets, the logger,
and Validate; proofs of the pool and its refinement, the health checker, the handler,
the reload, the router and the logger; then those of the selector and its refinement,
of the failover and its round-robin, of the sockets, and of the action properties.
Next:

1. The safety halves of the liveness properties, as theorems: what a call of
   ExecuteWithFailover, a copier or a reload can wait for in each of its states.
2. An abstract specification of the handler (a request is admitted, served and let go)
   that `ProxyHandler` implements.
3. `NodeLimit` for the clients of one pool: the bound of `TrojanPool`, carried over to each
   pool of `Selector`, whatever other pools of the same node there are.
