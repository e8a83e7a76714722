---------------------------- MODULE TrojanClient ----------------------------
(***************************************************************************)
(* The sockets behind the clients of one pool: the TCP connection that     *)
(* Connect makes (internal/trojan/client.go), the TLS connection that each *)
(* Dial makes and stores in its place, and what the two kinds of request   *)
(* do with them: a tunnel (internal/proxy/handler.go) closes its socket,   *)
(* an HTTP request (internal/proxy/forwarder.go) leaves it to a transport  *)
(* of its own, which keeps it for requests that never come and finishes a  *)
(* dial that nobody waits for any more.                                    *)
(*                                                                         *)
(* The pool is that of TrojanPool, whose steps are parts of the steps      *)
(* here.  A socket is open or closed; its bytes are left out.              *)
(***************************************************************************)
EXTENDS TrojanPool

CONSTANTS
    Sockets,    \* the names of sockets; bound on those open at a time
    Requests,   \* goroutines of the request handler
    NoClient,
    NoSocket

ASSUME TrojanClientAssumption == NoClient \notin Clients /\ NoSocket \notin Sockets

VARIABLES
    live,       \* sockets that are open
    conn,       \* Client.conn
    parked,     \* sockets idle in a transport
    late,       \* client of the dial that each request has abandoned, if it goes on
    req         \* the requests

sockVars == <<live, conn, parked, late, req>>

NoRequest == [pc |-> "idle", connect |-> FALSE, client |-> NoClient, sock |-> NoSocket]

SocketsTypeOK ==
    /\ live \subseteq Sockets /\ parked \subseteq live
    /\ conn \in [Clients -> Sockets \cup {NoSocket}]
    /\ late \in [Requests -> Clients \cup {NoClient}]
    /\ req \in [Requests -> [pc : {"idle", "ready", "dialing", "relay", "exchange", "release",
                                   "leave"},
                             connect : BOOLEAN,
                             client : Clients \cup {NoClient},
                             sock : Sockets \cup {NoSocket}]]
    /\ held = {req[r].client : r \in Requests} \ {NoClient}

ClientInit ==
    /\ Init
    /\ live = {}
    /\ conn = [c \in Clients |-> NoSocket]
    /\ parked = {}
    /\ late = [r \in Requests |-> NoClient]
    /\ req = [r \in Requests |-> NoRequest]

At(r, step) == req[r].pc = step
Becomes(r, state) == req' = [req EXCEPT ![r] = state]
ToRelease(r) == Becomes(r, [req[r] EXCEPT !.pc = "release"])

\* A Client.Close that only sets the flag (a mutant).
Bug_CloseConns(S) == UNCHANGED <<live, parked>>

\* Client.Close closes c.conn, once: the sockets that go when the clients of S are closed.
ConnsOf(S) == {conn[c] : c \in S \cap open}
CloseConns(S) == live' = live \ ConnsOf(S) /\ parked' = parked \ ConnsOf(S)

\* What a request uses, a client that someone has or will have refers to, or a
\* transport keeps.  Anything else is garbage, which a finalizer closes.
Reachable == (held \cup Idle \cup {late[r] : r \in Requests}) \ {NoClient}
Referenced == {req[r].sock : r \in Requests} \cup {conn[c] : c \in Reachable} \cup parked

\* The name s belongs to no socket, open or closed, that something could still close.
NewSocket(s) == s \notin live \cup Referenced

----------------------------------------------------------------------------
(* Pool.Get for a request, and Client.Connect *)

Leased(r, c) ==
    \E connect \in BOOLEAN :
        Becomes(r, [NoRequest EXCEPT !.pc = "ready", !.connect = connect, !.client = c])

Reuse(r) ==
    /\ At(r, "idle") /\ late[r] = NoClient
    /\ GetReuse
    /\ Leased(r, Last(pool.clients))
    /\ UNCHANGED <<live, conn, parked, late>>

\* The name c belongs to no client that anything still refers to.
Connect(r, c, s) ==
    /\ At(r, "idle") /\ late[r] = NoClient
    /\ c \notin Reachable /\ NewSocket(s)
    /\ GetNew(c)
    /\ Leased(r, c)
    /\ live' = (live \ ConnsOf(Discarded(pool))) \cup {s}
    /\ parked' = parked \ ConnsOf(Discarded(pool))
    /\ conn' = [conn EXCEPT ![c] = s]
    /\ UNCHANGED late

Refused ==
    /\ GetFull \/ GetConnectFails
    /\ CloseConns(Discarded(pool))
    /\ UNCHANGED <<conn, late, req>>

----------------------------------------------------------------------------
(* Client.Dial *)

\* The dial of a tunnel, or of the transport that forwardRequest has made.
BeginDial(r) ==
    /\ At(r, "ready") /\ req[r].client \in open
    /\ Becomes(r, [req[r] EXCEPT !.pc = "dialing"])
    /\ UNCHANGED vars /\ UNCHANGED <<live, conn, parked, late>>

\* A Dial that closes the connection it replaces (a mutant).
Bug_Stored(c, s) ==
    /\ NewSocket(s)
    /\ live' = (live \ {conn[c]}) \cup {s}
    /\ conn' = [conn EXCEPT ![c] = s]
    /\ IF c \in open THEN Dial(c) ELSE UNCHANGED vars

\* The new socket replaces the one in c.conn, which is not closed.  lastUsed is
\* renewed, also that of a client that was closed meanwhile.
Stored(c, s) ==
    /\ NewSocket(s)
    /\ live' = live \cup {s}
    /\ conn' = [conn EXCEPT ![c] = s]
    /\ IF c \in open THEN Dial(c) ELSE UNCHANGED vars

DialSucceeds(r, s) ==
    /\ At(r, "dialing")
    /\ Stored(req[r].client, s)
    /\ Becomes(r, [req[r] EXCEPT !.pc = IF req[r].connect THEN "relay" ELSE "exchange",
                                 !.sock = s])
    /\ UNCHANGED <<parked, late>>

\* handleHTTP releases a client whose dial has failed as it is; handleConnect closes it.
ForwardDialFails(r) ==
    /\ At(r, "dialing") /\ ~req[r].connect
    /\ ToRelease(r)
    /\ UNCHANGED vars /\ UNCHANGED <<live, conn, parked, late>>

\* A tunnel whose hijack or dial fails.
TunnelFails(r) ==
    /\ At(r, "ready") \/ At(r, "dialing")
    /\ req[r].connect
    /\ CloseClient(req[r].client)
    /\ CloseConns({req[r].client})
    /\ ToRelease(r)
    /\ UNCHANGED <<conn, late>>

\* The context of an HTTP request ends while its transport dials.
Abandon(r) ==
    /\ At(r, "dialing") /\ ~req[r].connect
    /\ late' = [late EXCEPT ![r] = req[r].client]
    /\ ToRelease(r)
    /\ UNCHANGED vars /\ UNCHANGED <<live, conn, parked>>

\* The transport keeps what a dial brings that nobody waits for.
LateDialSucceeds(r, s) ==
    /\ late[r] # NoClient
    /\ Stored(late[r], s)
    /\ parked' = parked \cup {s}
    /\ late' = [late EXCEPT ![r] = NoClient]
    /\ UNCHANGED req

LateDialFails(r) ==
    /\ late[r] # NoClient
    /\ late' = [late EXCEPT ![r] = NoClient]
    /\ UNCHANGED vars /\ UNCHANGED <<live, conn, parked, req>>

----------------------------------------------------------------------------
(* The end of a request *)

\* The transport closes the socket, after an error or since the response says so,
\* or keeps it for another request to the same host.
ExchangeEnds(r) ==
    /\ At(r, "exchange")
    /\ \/ parked' = parked \cup {req[r].sock} /\ UNCHANGED live
       \/ live' = live \ {req[r].sock} /\ UNCHANGED parked
    /\ Becomes(r, [req[r] EXCEPT !.pc = "release", !.sock = NoSocket])
    /\ UNCHANGED vars /\ UNCHANGED <<conn, late>>

TunnelEnds(r) ==
    /\ At(r, "relay")
    /\ ToRelease(r)
    /\ UNCHANGED vars /\ UNCHANGED <<live, conn, parked, late>>

\* ReleaseClient; the deferred Close of the tunnel's socket comes after it.
Release(r) ==
    LET c == req[r].client
    IN  /\ At(r, "release")
        /\ Put(c)
        /\ IF Keeps(pool, c, open) THEN UNCHANGED <<live, parked>> ELSE CloseConns({c})
        /\ Becomes(r, [req[r] EXCEPT !.pc = "leave", !.client = NoClient])
        /\ UNCHANGED <<conn, late>>

Leave(r) ==
    /\ At(r, "leave")
    /\ live' = live \ {req[r].sock}
    /\ parked' = parked \ {req[r].sock}
    /\ Becomes(r, NoRequest)
    /\ UNCHANGED vars /\ UNCHANGED <<conn, late>>

----------------------------------------------------------------------------
(* The pool, the peers and the garbage collector *)

ClosePool ==
    /\ Close
    /\ CloseConns(Idle)
    /\ UNCHANGED <<conn, late, req>>

GrowStale ==
    /\ \E c \in Clients : Expire(c)
    /\ UNCHANGED sockVars

\* The node closes an idle connection, and its transport forgets it.
PeerCloses(s) ==
    /\ s \in parked
    /\ live' = live \ {s}
    /\ parked' = parked \ {s}
    /\ UNCHANGED vars /\ UNCHANGED <<conn, late, req>>

Collected(s) ==
    /\ s \in live \ Referenced
    /\ live' = live \ {s}
    /\ UNCHANGED vars /\ UNCHANGED <<conn, parked, late, req>>

RequestStep(r) ==
    \/ BeginDial(r) \/ ForwardDialFails(r) \/ TunnelFails(r) \/ Abandon(r)
    \/ ExchangeEnds(r) \/ TunnelEnds(r) \/ Release(r) \/ Leave(r)
    \/ \E s \in Sockets : DialSucceeds(r, s)

ClientNext ==
    \/ \E r \in Requests :
        \/ Reuse(r)
        \/ RequestStep(r)
        \/ LateDialFails(r)
        \/ \E s \in Sockets : LateDialSucceeds(r, s) \/ \E c \in Clients : Connect(r, c, s)
    \/ Refused
    \/ ClosePool
    \/ GrowStale
    \/ \E s \in Sockets : PeerCloses(s) \/ Collected(s)

ClientSpec == ClientInit /\ [][ClientNext]_<<vars, sockVars>>

----------------------------------------------------------------------------
\* The socket that a request relays or exchanges over stays open until that request
\* ends: neither the pool, nor another request, nor a late dial of an abandoned one
\* that has put its own socket into c.conn, makes anybody close it under the request.
RequestKeepsSocket ==
    \A r \in Requests : At(r, "relay") \/ At(r, "exchange") => req[r].sock \in live \ parked

\* When the pool is closed and no request is left, no client refers to an open
\* socket but one that a transport keeps: nothing waits for a Close that never comes.
ClosedPoolHoldsNoSocket ==
    pool.closed /\ held = {} => \A c \in open \cup Reachable : conn[c] \notin live \ parked
=============================================================================
