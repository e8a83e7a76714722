---------------------------- MODULE ProxyHandler ----------------------------
(***************************************************************************)
(* The proxy server and its request handlers: admission and shutdown       *)
(* (internal/proxy/server.go), the routes of a request through             *)
(* handler.go, and the two copy goroutines of a CONNECT tunnel.            *)
(*                                                                         *)
(* Each request runs in a goroutine of net/http.  What the handler calls   *)
(* (router, selector, trojan dial, hijack, forwarding) is a step that ends *)
(* one way or the other; the pools behind SelectClient are in Selector,    *)
(* the statuses behind the passive detector in HealthChecker.              *)
(***************************************************************************)
EXTENDS Naturals, Sequences, FiniteSets

CONSTANTS
    Requests,       \* goroutines that serve a request, one after the other
    MaxConcurrent   \* proxy.max_concurrent

ASSUME MaxConcurrentAssumption == MaxConcurrent \in Nat \ {0}

VARIABLES
    server,         \* the http.Server
    activeConns,    \* Server.activeConns
    req,            \* the requests
    socks,          \* connections of each request that are open
    copier,         \* the copy goroutines of its tunnel, by direction
    errCh           \* the channel they report to

vars == <<server, activeConns, req, socks, copier, errCh>>
tunnelVars == <<socks, copier, errCh>>

Directions == {"up", "down"}
Results == {"eof", "error"}
ErrChCap == 2

Steps == {"idle", "route", "select", "hijack", "dial", "relay", "forward", "release",
          "directDial", "directHijack", "directRelay", "directForward", "leave"}
Codes == {200, 403, 500, 502, 503}
Ends == {"client", "target"}
CopierStates == {"none", "copying", "done"} \cup Results

\* What a handler knows of its request: `lease' while it has a trojan client,
\* `closed' when it closed that client, `reply' what it has answered.
States == [pc : Steps, connect : BOOLEAN, lease : BOOLEAN, closed : BOOLEAN,
           hijacked : BOOLEAN, outcome : {"none", "success", "failure"},
           reply : Seq(Codes)]

TypeOK ==
    /\ server \in {"serving", "draining", "stopped", "timedOut"}
    /\ activeConns \in 0..MaxConcurrent
    /\ req \in [Requests -> States]
    /\ socks \in [Requests -> SUBSET Ends]
    /\ copier \in [Requests -> [Directions -> CopierStates]]
    /\ errCh \in [Requests -> Seq(Results)]

NoRequest == [pc |-> "idle", connect |-> FALSE, lease |-> FALSE, closed |-> FALSE,
              hijacked |-> FALSE, outcome |-> "none", reply |-> <<>>]
NoCopiers == [d \in Directions |-> "none"]

Init ==
    /\ server = "serving"
    /\ activeConns = 0
    /\ req = [r \in Requests |-> NoRequest]
    /\ socks = [r \in Requests |-> {}]
    /\ copier = [r \in Requests |-> NoCopiers]
    /\ errCh = [r \in Requests |-> <<>>]

At(r, step) == req[r].pc = step
Becomes(r, state) == req' = [req EXCEPT ![r] = state]
Replying(state, code) == [state EXCEPT !.reply = Append(@, code)]

----------------------------------------------------------------------------
(* Server.ServeHTTP *)

\* acquireConn.  Over the limit the request gets 503 and nothing else happens.  It
\* does not look at the server: a connection that net/http accepted before Stop may
\* bring a request until Shutdown has seen all of them end, or gone without that.
\* A name is used again when the goroutines of its last request have ended.
Arrive(r) ==
    /\ server # "stopped" /\ At(r, "idle") /\ copier[r] = NoCopiers
    /\ activeConns < MaxConcurrent
    /\ activeConns' = activeConns + 1
    /\ \E connect \in BOOLEAN :
        Becomes(r, [NoRequest EXCEPT !.pc = "route", !.connect = connect])
    /\ UNCHANGED server /\ UNCHANGED tunnelVars

\* Mutants.
Bug_LeaveClientOnly(r) ==
    /\ At(r, "leave")
    /\ activeConns' = IF activeConns > 0 THEN activeConns - 1 ELSE 0
    /\ socks' = [socks EXCEPT ![r] = @ \ {"client"}]
    /\ Becomes(r, NoRequest)
    /\ UNCHANGED <<server, copier, errCh>>
Bug_LeaveKeepsSlot(r) ==
    /\ At(r, "leave")
    /\ activeConns' = IF activeConns > 0 /\ ~req[r].hijacked THEN activeConns - 1
                      ELSE activeConns
    /\ socks' = [socks EXCEPT ![r] = {}]
    /\ Becomes(r, NoRequest)
    /\ UNCHANGED <<server, copier, errCh>>

\* The handler has returned: its deferred calls close what it has open, and
\* releaseConn follows.
Leave(r) ==
    /\ At(r, "leave")
    /\ activeConns' = IF activeConns > 0 THEN activeConns - 1 ELSE 0
    /\ socks' = [socks EXCEPT ![r] = {}]
    /\ Becomes(r, [NoRequest EXCEPT !.lease = req[r].lease])
    /\ UNCHANGED <<server, copier, errCh>>

----------------------------------------------------------------------------
(* Handler.ServeHTTP *)

\* The router decides, or fails and leaves the default, which is the proxy.
Route(r) ==
    /\ At(r, "route")
    /\ \/ Becomes(r, [req[r] EXCEPT !.pc = "select"])
       \/ Becomes(r, [req[r] EXCEPT !.pc = IF req[r].connect THEN "directDial"
                                                             ELSE "directForward"])
       \/ Becomes(r, [Replying(req[r], 403) EXCEPT !.pc = "leave"])
    /\ UNCHANGED <<server, activeConns>> /\ UNCHANGED tunnelVars

\* handleConnect and handleHTTP: SelectClient, then RecordConnectionStart.
SelectClient(r) ==
    /\ At(r, "select")
    /\ \/ Becomes(r, [req[r] EXCEPT !.pc = IF req[r].connect THEN "hijack" ELSE "forward",
                                    !.lease = TRUE])
       \/ Becomes(r, [Replying(req[r], 503) EXCEPT !.pc = "leave"])
    /\ UNCHANGED <<server, activeConns>> /\ UNCHANGED tunnelVars

\* Mutants.
Bug_Hijack(r) ==
    /\ At(r, "hijack")
    /\ \/ /\ Becomes(r, [Replying(req[r], 200) EXCEPT !.pc = "dial", !.hijacked = TRUE])
          /\ socks' = [socks EXCEPT ![r] = {"client"}]
       \/ /\ Becomes(r, [Replying(req[r], 500) EXCEPT !.pc = "leave", !.closed = TRUE])
          /\ UNCHANGED socks
    /\ UNCHANGED <<server, activeConns, copier, errCh>>

\* The client connection is taken over and told 200 before the node is dialled.
Hijack(r) ==
    /\ At(r, "hijack")
    /\ \/ /\ Becomes(r, [Replying(req[r], 200) EXCEPT !.pc = "dial", !.hijacked = TRUE])
          /\ socks' = [socks EXCEPT ![r] = {"client"}]
       \/ /\ Becomes(r, [Replying(req[r], 500) EXCEPT !.pc = "release", !.closed = TRUE])
          /\ UNCHANGED socks
    /\ UNCHANGED <<server, activeConns, copier, errCh>>

\* Mutants.
Bug_Dial(r) ==
    /\ At(r, "dial")
    /\ \/ /\ Becomes(r, [req[r] EXCEPT !.pc = "relay"])
          /\ socks' = [socks EXCEPT ![r] = @ \cup {"target"}]
          /\ copier' = [copier EXCEPT ![r] = [d \in Directions |-> "copying"]]
       \/ /\ Becomes(r, [req[r] EXCEPT !.pc = "release", !.closed = TRUE])
          /\ UNCHANGED <<socks, copier>>
    /\ UNCHANGED <<server, activeConns, errCh>>
Bug_DialKeepsClient(r) ==
    /\ At(r, "dial")
    /\ \/ /\ Becomes(r, [req[r] EXCEPT !.pc = "relay"])
          /\ socks' = [socks EXCEPT ![r] = @ \cup {"target"}]
          /\ copier' = [copier EXCEPT ![r] = [d \in Directions |-> "copying"]]
       \/ /\ Becomes(r, [req[r] EXCEPT !.pc = "release", !.outcome = "failure"])
          /\ UNCHANGED <<socks, copier>>
    /\ UNCHANGED <<server, activeConns, errCh>>
Bug_DialAnswers(r) ==
    /\ At(r, "dial")
    /\ \/ /\ Becomes(r, [req[r] EXCEPT !.pc = "relay"])
          /\ socks' = [socks EXCEPT ![r] = @ \cup {"target"}]
          /\ copier' = [copier EXCEPT ![r] = [d \in Directions |-> "copying"]]
       \/ /\ Becomes(r, [Replying(req[r], 502) EXCEPT !.pc = "release", !.closed = TRUE,
                                                     !.outcome = "failure"])
          /\ UNCHANGED <<socks, copier>>
    /\ UNCHANGED <<server, activeConns, errCh>>

\* client.Dial: TLS and trojan handshake with the node.  After a failure the
\* client is closed, so that ReleaseClient does not keep it.
Dial(r) ==
    /\ At(r, "dial")
    /\ \/ /\ Becomes(r, [req[r] EXCEPT !.pc = "relay"])
          /\ socks' = [socks EXCEPT ![r] = @ \cup {"target"}]
          /\ copier' = [copier EXCEPT ![r] = [d \in Directions |-> "copying"]]
       \/ /\ Becomes(r, [req[r] EXCEPT !.pc = "release", !.closed = TRUE,
                                       !.outcome = "failure"])
          /\ UNCHANGED <<socks, copier>>
    /\ UNCHANGED <<server, activeConns, errCh>>

\* Mutants.
Bug_Relay(r) ==
    /\ At(r, "relay") /\ Len(errCh[r]) = 2
    /\ Becomes(r, [req[r] EXCEPT !.pc = "release",
                                 !.outcome = IF Head(errCh[r]) = "error" THEN "failure"
                                                                         ELSE "success"])
    /\ errCh' = [errCh EXCEPT ![r] = <<>>]
    /\ UNCHANGED <<server, activeConns, socks, copier>>

\* The first direction that ends decides the outcome of the tunnel.
Relay(r) ==
    /\ At(r, "relay") /\ errCh[r] # <<>>
    /\ Becomes(r, [req[r] EXCEPT !.pc = "release",
                                 !.outcome = IF Head(errCh[r]) = "error" THEN "failure"
                                                                         ELSE "success"])
    /\ errCh' = [errCh EXCEPT ![r] = Tail(@)]
    /\ UNCHANGED <<server, activeConns, socks, copier>>

\* handleHTTP: forwardRequest fails before or after it has passed the status of
\* the response on; the error is reported with 502 either way.
Forward(r) ==
    /\ At(r, "forward")
    /\ \E begun, ok \in BOOLEAN :
        /\ ok => begun
        /\ Becomes(r, [(IF begun THEN Replying(req[r], 200) ELSE req[r])
                         EXCEPT !.pc = "release",
                                !.outcome = IF ok THEN "success" ELSE "failure"])
    /\ UNCHANGED <<server, activeConns>> /\ UNCHANGED tunnelVars

\* ReleaseClient, and what is left of the handler after it.
Release(r) ==
    /\ At(r, "release")
    /\ LET done == [req[r] EXCEPT !.pc = "leave", !.lease = FALSE]
       IN  Becomes(r, IF ~req[r].connect /\ req[r].outcome = "failure"
                      THEN Replying(done, 502) ELSE done)
    /\ UNCHANGED <<server, activeConns>> /\ UNCHANGED tunnelVars

----------------------------------------------------------------------------
(* handleDirect: no node is involved *)

DirectDial(r) ==
    /\ At(r, "directDial")
    /\ \/ /\ Becomes(r, [req[r] EXCEPT !.pc = "directHijack"])
          /\ socks' = [socks EXCEPT ![r] = {"target"}]
       \/ /\ Becomes(r, [Replying(req[r], 502) EXCEPT !.pc = "leave"])
          /\ UNCHANGED socks
    /\ UNCHANGED <<server, activeConns, copier, errCh>>

DirectHijack(r) ==
    /\ At(r, "directHijack")
    /\ \/ /\ Becomes(r, [Replying(req[r], 200) EXCEPT !.pc = "directRelay", !.hijacked = TRUE])
          /\ socks' = [socks EXCEPT ![r] = @ \cup {"client"}]
          /\ copier' = [copier EXCEPT ![r] = [d \in Directions |-> "copying"]]
       \/ /\ Becomes(r, [Replying(req[r], 500) EXCEPT !.pc = "leave"])
          /\ UNCHANGED <<socks, copier>>
    /\ UNCHANGED <<server, activeConns, errCh>>

DirectRelay(r) ==
    /\ At(r, "directRelay") /\ errCh[r] # <<>>
    /\ Becomes(r, [req[r] EXCEPT !.pc = "leave"])
    /\ errCh' = [errCh EXCEPT ![r] = Tail(@)]
    /\ UNCHANGED <<server, activeConns, socks, copier>>

DirectForward(r) ==
    /\ At(r, "directForward")
    /\ \E code \in {200, 502} : Becomes(r, [Replying(req[r], code) EXCEPT !.pc = "leave"])
    /\ UNCHANGED <<server, activeConns>> /\ UNCHANGED tunnelVars

----------------------------------------------------------------------------
(* The copy goroutines *)

Source(d) == IF d = "up" THEN "client" ELSE "target"

\* io.Copy returns: its peers ended the stream or broke it, or the handler has
\* closed the connection it reads from.
CopyEnds(r, d) ==
    /\ copier[r][d] = "copying"
    /\ \E result \in Results :
        /\ Source(d) \notin socks[r] => result = "error"
        /\ copier' = [copier EXCEPT ![r][d] = result]
    /\ UNCHANGED <<server, activeConns, req, socks, errCh>>

\* errCh <- err, which never waits while the buffer has room.  When both have
\* reported and the handler is gone, the channel is garbage.
CopyReports(r, d) ==
    /\ copier[r][d] \in Results
    /\ Len(errCh[r]) < ErrChCap
    /\ errCh' = [errCh EXCEPT ![r] = Append(@, copier[r][d])]
    /\ copier' = [copier EXCEPT ![r][d] = "done"]
    /\ UNCHANGED <<server, activeConns, req, socks>>

Collected(r) ==
    /\ At(r, "idle") /\ \A d \in Directions : copier[r][d] = "done"
    /\ copier' = [copier EXCEPT ![r] = NoCopiers]
    /\ errCh' = [errCh EXCEPT ![r] = <<>>]
    /\ UNCHANGED <<server, activeConns, req, socks>>

----------------------------------------------------------------------------
(* Server.Stop *)

Stop ==
    /\ server = "serving"
    /\ server' = "draining"
    /\ UNCHANGED <<activeConns, req>> /\ UNCHANGED tunnelVars

\* http.Server.Shutdown waits for the connections it still owns: those that are
\* not hijacked.  It gives up when the context of main ends, after 30 seconds.
ShutdownReturns ==
    /\ server = "draining"
    /\ \A r \in Requests : At(r, "idle") \/ req[r].hijacked
    /\ server' = "stopped"
    /\ UNCHANGED <<activeConns, req>> /\ UNCHANGED tunnelVars
ShutdownTimesOut ==
    /\ server = "draining"
    /\ \E r \in Requests : ~At(r, "idle") /\ ~req[r].hijacked
    /\ server' = "timedOut"
    /\ UNCHANGED <<activeConns, req>> /\ UNCHANGED tunnelVars

HandlerStep(r) ==
    \/ Route(r) \/ SelectClient(r) \/ Hijack(r) \/ Relay(r) \/ Forward(r) \/ Release(r)
    \/ DirectDial(r) \/ DirectHijack(r) \/ DirectRelay(r) \/ DirectForward(r)
    \/ Leave(r)

Next ==
    \/ \E r \in Requests :
        \/ Arrive(r) \/ HandlerStep(r) \/ Dial(r) \/ Collected(r)
        \/ \E d \in Directions : CopyEnds(r, d) \/ CopyReports(r, d)
    \/ Stop \/ ShutdownReturns \/ ShutdownTimesOut

Spec == Init /\ [][Next]_vars

\* Handlers are scheduled, and what they wait for has a timeout or an end: the
\* selector's dials, the direct dial and client (proxy.timeout), the server's
\* read and write timeouts.  Not so Dial: tls.Dial is called without a timeout
\* (protocol.go:26).  A copy goroutine is sure to end only when the connection it
\* reads from has been closed under it; an idle tunnel may stay open for ever.
Fairness ==
    /\ \A r \in Requests :
        /\ WF_vars(HandlerStep(r))
        /\ \A d \in Directions :
            /\ WF_vars(CopyEnds(r, d) /\ Source(d) \notin socks[r])
            /\ WF_vars(CopyReports(r, d))
    /\ WF_vars(ShutdownReturns \/ ShutdownTimesOut)

FairSpec == Spec /\ Fairness

----------------------------------------------------------------------------
\* activeConns counts the requests that were let in and have not returned, the
\* tunnels that net/http has forgotten included (server.go:67-87).
AdmissionExact ==
    activeConns = Cardinality({r \in Requests : ~At(r, "idle")})

\* On no path does a request end with its client still leased or one of its sockets open.
NothingLeftBehind ==
    \A r \in Requests :
        /\ At(r, "idle") => ~req[r].lease /\ socks[r] = {}
        /\ At(r, "leave") => ~req[r].lease

\* A request that was tried on a node reports exactly what became of it before
\* its client goes back, and a failed hijack is not held against the node.
OutcomeReported ==
    \A r \in Requests :
        At(r, "release") => (req[r].outcome = "none" <=> 500 \in {req[r].reply[i] :
                                                          i \in DOMAIN req[r].reply})

\* The client of a tunnel goes back to its pool open exactly when the tunnel was
\* established: one that failed must not be kept for the next request.
FailedClientsClosed ==
    \A r \in Requests :
        At(r, "release") /\ req[r].connect
          => (req[r].closed <=> "target" \notin socks[r])

\* A CONNECT is answered once, and nothing is copied before the 200.
TunnelAnsweredOnce ==
    \A r \in Requests :
        /\ req[r].connect => Len(req[r].reply) <= 1
        /\ At(r, "relay") \/ At(r, "directRelay")
             => req[r].reply = <<200>> /\ socks[r] = {"client", "target"}

\* When a tunnel is over both its copy goroutines end: the first to end does not
\* leave the other one reading for ever (handler.go:142, 166, 173-184).
CopiersEnd ==
    \A r \in Requests :
        (\E d \in Directions : copier[r][d] \notin {"none", "done"}) /\ At(r, "idle")
          ~> \A d \in Directions : copier[r][d] \in {"none", "done"}

\* A tunnel that one side has ended gives its admission slot and its client back.
TunnelFreesSlot ==
    \A r \in Requests :
        At(r, "relay") /\ (\E d \in Directions : copier[r][d] = "eof") ~> At(r, "idle")
=============================================================================
