------------------------- MODULE ProxyHandlerProofs -------------------------
(***************************************************************************)
(* What a request leaves behind, for any number of requests and any limit. *)
(*                                                                         *)
(* None of the properties is inductive: that a request at its end has no   *)
(* client and one answer depends on the path it took.  `Consistent' says   *)
(* for each step of the handler what a request that got there has done.    *)
(***************************************************************************)
EXTENDS ProxyHandler, FiniteSetTheorems, TLAPS

\* A request that has neither client nor sockets nor an answer.
Untouched(q, s) ==
    /\ ~q.lease /\ ~q.hijacked /\ ~q.closed
    /\ q.outcome = "none" /\ q.reply = <<>> /\ s = {}

\* A request that has a client which nothing has gone wrong with.
Leased(q) == q.lease /\ ~q.closed /\ q.outcome = "none"

\* A tunnel between the client and a target, with the 200 sent.
Tunnel(q, s) == q.connect /\ q.hijacked /\ q.reply = <<200>> /\ s = Ends

\* The ways a CONNECT request gets to its release: it could not be hijacked, its
\* node could not be dialled, or its tunnel is over.
TunnelSettled(q, s) ==
    \/ q.reply = <<500>> /\ q.closed /\ q.outcome = "none" /\ s = {}
    \/ q.reply = <<200>> /\ q.closed /\ q.outcome = "failure" /\ s = {"client"}
    \/ q.reply = <<200>> /\ ~q.closed /\ q.outcome # "none" /\ s = Ends

Consistent(q, s) ==
    /\ q.pc = "idle" => ~q.lease /\ q.reply = <<>> /\ s = {}
    /\ q.pc \in {"route", "select"} => Untouched(q, s)
    /\ q.pc \in {"directDial", "directForward"} =>
         Untouched(q, s) /\ (q.connect <=> q.pc = "directDial")
    /\ q.pc \in {"hijack", "forward"} =>
         Leased(q) /\ q.reply = <<>> /\ s = {} /\ (q.connect <=> q.pc = "hijack")
    /\ q.pc = "dial" =>
         Leased(q) /\ q.connect /\ q.hijacked /\ q.reply = <<200>> /\ s = {"client"}
    /\ q.pc = "relay" => Leased(q) /\ Tunnel(q, s)
    /\ q.pc = "directHijack" => ~q.lease /\ q.connect /\ q.reply = <<>> /\ s = {"target"}
    /\ q.pc = "directRelay" => ~q.lease /\ Tunnel(q, s)
    /\ q.pc = "release" =>
         \/ q.connect /\ TunnelSettled(q, s)
         \/ ~q.connect /\ q.reply \in {<<>>, <<200>>} /\ q.outcome # "none" /\ s = {}
    /\ q.pc = "leave" => ~q.lease /\ (q.connect => Len(q.reply) <= 1)

Active == {r \in Requests : ~At(r, "idle")}

Inv ==
    /\ TypeOK
    /\ \A r \in Requests : Consistent(req[r], socks[r])
    /\ IsFiniteSet(Active)
    /\ AdmissionExact

----------------------------------------------------------------------------
\* A handler's step between its admission and its end: it says nothing to the
\* server, and a hijacked connection stays hijacked.
Continues(r) ==
    /\ ~At(r, "idle")
    /\ \E q \in States, s \in SUBSET Ends :
        /\ Becomes(r, q)
        /\ socks' = [socks EXCEPT ![r] = s]
        /\ Consistent(q, s)
        /\ q.pc # "idle"
        /\ req[r].hijacked => q.hijacked
    /\ UNCHANGED <<server, activeConns>>

\* Whatever becomes of one request, the others are as they were.
LEMMA OneRequest ==
  ASSUME Inv, NEW r \in Requests, NEW q \in States, NEW s \in SUBSET Ends,
         Becomes(r, q), socks' = [socks EXCEPT ![r] = s], Consistent(q, s)
  PROVE  /\ req' \in [Requests -> States]
         /\ socks' \in [Requests -> SUBSET Ends]
         /\ \A x \in Requests : Consistent(req'[x], socks'[x])
<1>1. req \in [Requests -> States] /\ socks \in [Requests -> SUBSET Ends]
  BY DEF Inv, TypeOK
<1>2. req' = [req EXCEPT ![r] = q]
  BY DEF Becomes
<1>3. req' \in [Requests -> States] /\ socks' \in [Requests -> SUBSET Ends]
  BY <1>1, <1>2
<1>4. ASSUME NEW x \in Requests
      PROVE  Consistent(req'[x], socks'[x])
  <2>1. CASE x = r
    <3>1. req'[x] = q /\ socks'[x] = s
      BY <1>1, <1>2, <2>1
    <3> QED BY <3>1
  <2>2. CASE x # r
    <3>1. req'[x] = req[x] /\ socks'[x] = socks[x]
      BY <1>1, <1>2, <2>2
    <3> QED BY <3>1 DEF Inv
  <2> QED BY <2>1, <2>2
<1> QED BY <1>3, <1>4

\* A handler that goes on keeps the invariant, but for the types of its tunnel.
LEMMA ContinuesKeeps ==
  ASSUME Inv, NEW r \in Requests, Continues(r),
         copier' \in [Requests -> [Directions -> CopierStates]],
         errCh' \in [Requests -> Seq(Results)]
  PROVE  Inv'
<1>1. PICK q \in States, s \in SUBSET Ends :
        /\ Becomes(r, q)
        /\ socks' = [socks EXCEPT ![r] = s]
        /\ Consistent(q, s)
        /\ q.pc # "idle"
        /\ req[r].hijacked => q.hijacked
  BY DEF Continues
<1>2. ~At(r, "idle") /\ UNCHANGED <<server, activeConns>>
  BY DEF Continues
<1>3. /\ req' \in [Requests -> States] /\ socks' \in [Requests -> SUBSET Ends]
      /\ \A x \in Requests : Consistent(req'[x], socks'[x])
  BY <1>1, OneRequest
<1>4. TypeOK'
  BY <1>2, <1>3 DEF Inv, TypeOK
<1>5. \A x \in Requests : req'[x] = IF x = r THEN q ELSE req[x]
  BY <1>1 DEF Becomes, Inv, TypeOK
<1>6. \A x \in Requests : At(x, "idle")' <=> At(x, "idle")
  BY <1>1, <1>2, <1>5 DEF At
<1>7. Active' = Active
  BY <1>6 DEF Active
<1>8. IsFiniteSet(Active)'
  BY <1>7 DEF Inv
<1>9. AdmissionExact'
  <2>1. activeConns = Cardinality(Active)
    BY DEF Inv, AdmissionExact, Active
  <2> QED BY <1>2, <1>7, <2>1 DEF AdmissionExact, Active
<1> QED BY <1>3, <1>4, <1>8, <1>9 DEF Inv

\* A request and its sockets have their types, and a reply added is a reply more.
LEMMA RequestTypes ==
  ASSUME Inv, NEW r \in Requests
  PROVE  /\ req[r] \in States /\ socks[r] \in SUBSET Ends
         /\ Consistent(req[r], socks[r])
         /\ socks = [socks EXCEPT ![r] = socks[r]]
         /\ \A q \in States, code \in Codes :
              /\ Replying(q, code) \in States
              /\ Replying(q, code) = [q EXCEPT !.reply = Append(q.reply, code)]
<1>1. req[r] \in States /\ socks[r] \in SUBSET Ends
  BY DEF Inv, TypeOK
<1>2. Consistent(req[r], socks[r])
  BY DEF Inv
<1>3. socks = [socks EXCEPT ![r] = socks[r]]
  BY DEF Inv, TypeOK
<1>4. ASSUME NEW q \in States, NEW code \in Codes
      PROVE  /\ Replying(q, code) \in States
             /\ Replying(q, code) = [q EXCEPT !.reply = Append(q.reply, code)]
  BY DEF States, Replying
<1> QED BY <1>1, <1>2, <1>3, <1>4

\* A request that has no client, and was not answered, leaves with one answer.
Answered(q, code) == [Replying(q, code) EXCEPT !.pc = "leave"]

\* Such a request has its type, and left consistently: nothing leased, one answer.
LEMMA AnswersAndLeaves ==
  ASSUME NEW q \in States, NEW code \in Codes, NEW s, ~q.lease, q.reply = <<>>
  PROVE  /\ Answered(q, code) \in States
         /\ Answered(q, code).pc = "leave"
         /\ Answered(q, code).hijacked = q.hijacked
         /\ Consistent(Answered(q, code), s)
<1> DEFINE answer == Append(q.reply, code)
<1>1. answer \in Seq(Codes) /\ Len(answer) <= 1
  BY DEF States
<1>2. Replying(q, code) = [q EXCEPT !.reply = answer]
  BY DEF Replying, States
<1>3. Answered(q, code) = [q EXCEPT !.reply = answer, !.pc = "leave"]
  BY <1>2 DEF Answered
<1> HIDE DEF answer
<1>4. /\ Answered(q, code) \in States /\ Answered(q, code).pc = "leave"
      /\ Answered(q, code).hijacked = q.hijacked
      /\ ~Answered(q, code).lease /\ Answered(q, code).reply = answer
  BY <1>1, <1>3 DEF States, Steps
<1>5. Consistent(Answered(q, code), s)
  BY <1>1, <1>4 DEF Consistent
<1> QED BY <1>4, <1>5

\* A state and sockets that a step of the handler leaves its request with.
LEMMA ContinuesBy ==
  ASSUME Inv, NEW r \in Requests, ~At(r, "idle"), UNCHANGED <<server, activeConns>>,
         NEW q \in States, NEW s \in SUBSET Ends,
         Becomes(r, q), socks' = [socks EXCEPT ![r] = s], Consistent(q, s),
         q.pc # "idle", req[r].hijacked => q.hijacked
  PROVE  Continues(r)
BY DEF Continues

\* A step that answers a request so, and does nothing else, continues it.
LEMMA AnswersContinue ==
  ASSUME Inv, NEW r \in Requests, ~At(r, "idle"),
         UNCHANGED <<server, activeConns, socks>>, NEW code \in Codes,
         ~req[r].lease, req[r].reply = <<>>,
         Becomes(r, Answered(req[r], code))
  PROVE  Continues(r)
<1> DEFINE q == Answered(req[r], code)
<1>1. req[r] \in States /\ socks[r] \in SUBSET Ends /\ socks' = [socks EXCEPT ![r] = socks[r]]
  <2>1. socks = [socks EXCEPT ![r] = socks[r]] /\ req[r] \in States /\ socks[r] \in SUBSET Ends
    BY RequestTypes
  <2> QED BY <2>1
<1>2. /\ q \in States /\ q.pc = "leave" /\ q.hijacked = req[r].hijacked
      /\ Consistent(q, socks[r])
  BY <1>1, AnswersAndLeaves
<1>3. Becomes(r, q)
  OBVIOUS
<1> HIDE DEF q
<1> QED BY <1>1, <1>2, <1>3, ContinuesBy

\* The router's decision and the selection.
LEMMA RouteContinues ==
  ASSUME Inv, NEW r \in Requests, Route(r) \/ SelectClient(r)
  PROVE  Continues(r)
<1> DEFINE old == req[r]
<1>0. /\ old \in States /\ socks[r] \in SUBSET Ends /\ Consistent(old, socks[r])
      /\ UNCHANGED <<server, activeConns, socks>>
      /\ socks' = [socks EXCEPT ![r] = socks[r]]
      /\ old.pc \in {"route", "select"} /\ Untouched(old, socks[r])
  BY RequestTypes DEF Route, SelectClient, At, Consistent, tunnelVars
<1>1. ASSUME NEW q \in States, Becomes(r, q), Consistent(q, socks[r]),
             q.pc # "idle"
      PROVE  Continues(r)
  BY <1>0, <1>1 DEF Continues, At, Untouched
<1>2. CASE Route(r)
  <2>1. CASE Becomes(r, [old EXCEPT !.pc = "select"])
    <3>1. [old EXCEPT !.pc = "select"] \in States
      BY <1>0 DEF States, Steps
    <3>2. Consistent([old EXCEPT !.pc = "select"], socks[r])
      BY <1>0 DEF Consistent, States, Untouched
    <3> QED BY <1>0, <1>1, <2>1, <3>1, <3>2 DEF States
  <2>2. CASE Becomes(r, [old EXCEPT !.pc = IF old.connect THEN "directDial"
                                                          ELSE "directForward"])
    <3> DEFINE q == [old EXCEPT !.pc = IF old.connect THEN "directDial"
                                                      ELSE "directForward"]
    <3>1. q \in States /\ q.pc # "idle"
      BY <1>0 DEF States, Steps
    <3>2. Consistent(q, socks[r])
      BY <1>0 DEF Consistent, States, Untouched
    <3> QED BY <1>1, <2>2, <3>1, <3>2
  <2>3. CASE Becomes(r, [Replying(old, 403) EXCEPT !.pc = "leave"])
    <3>1. ~old.lease /\ old.reply = <<>> /\ ~At(r, "idle") /\ 403 \in Codes
      BY <1>0 DEF Untouched, Codes, At
    <3>2. Becomes(r, Answered(old, 403))
      BY <2>3 DEF Answered
    <3> QED BY <1>0, <3>1, <3>2, AnswersContinue
  <2> QED BY <1>2, <2>1, <2>2, <2>3 DEF Route
<1>3. CASE SelectClient(r)
  <2>1. CASE Becomes(r, [old EXCEPT !.pc = IF old.connect THEN "hijack" ELSE "forward",
                                    !.lease = TRUE])
    <3> DEFINE q == [old EXCEPT !.pc = IF old.connect THEN "hijack" ELSE "forward",
                                !.lease = TRUE]
    <3>1. q \in States /\ q.pc # "idle"
      BY <1>0 DEF States, Steps
    <3>2. Consistent(q, socks[r])
      BY <1>0 DEF Consistent, States, Untouched, Leased
    <3> QED BY <1>1, <2>1, <3>1, <3>2
  <2>2. CASE Becomes(r, [Replying(old, 503) EXCEPT !.pc = "leave"])
    <3>1. ~old.lease /\ old.reply = <<>> /\ ~At(r, "idle") /\ 503 \in Codes
      BY <1>0 DEF Untouched, Codes, At
    <3>2. Becomes(r, Answered(old, 503))
      BY <2>2 DEF Answered
    <3> QED BY <1>0, <3>1, <3>2, AnswersContinue
  <2> QED BY <1>3, <2>1, <2>2 DEF SelectClient
<1> QED BY <1>2, <1>3

\* The first answer changes nothing else.
LEMMA FirstReply ==
  ASSUME NEW q \in States, NEW code \in Codes, q.reply = <<>>
  PROVE  LET answered == Replying(q, code)
         IN  /\ answered \in States /\ answered.reply = <<code>>
             /\ answered.pc = q.pc /\ answered.connect = q.connect
             /\ answered.lease = q.lease /\ answered.closed = q.closed
             /\ answered.hijacked = q.hijacked /\ answered.outcome = q.outcome
<1> DEFINE reply == Append(q.reply, code)
<1>1. reply = <<code>> /\ reply \in Seq(Codes)
  <2>1. Append(<<>>, code) = <<code>> /\ <<code>> \in Seq(Codes)
    OBVIOUS
  <2> QED BY <2>1
<1>2. Replying(q, code) = [q EXCEPT !.reply = reply]
  BY DEF Replying, States
<1> HIDE DEF reply
<1> QED BY <1>1, <1>2 DEF States

\* The 200 is sent as the connection is hijacked; a failed hijack closes the client.
LEMMA HijackContinues ==
  ASSUME Inv, NEW r \in Requests, Hijack(r)
  PROVE  Continues(r)
<1> DEFINE old == req[r]
<1>0. /\ old \in States /\ old.pc = "hijack" /\ ~At(r, "idle")
      /\ Leased(old) /\ old.connect /\ old.reply = <<>> /\ socks[r] = {}
      /\ UNCHANGED <<server, activeConns>>
  BY RequestTypes DEF Hijack, At, Consistent
<1> HIDE DEF old
<1>1. CASE /\ Becomes(r, [Replying(old, 200) EXCEPT !.pc = "dial", !.hijacked = TRUE])
           /\ socks' = [socks EXCEPT ![r] = {"client"}]
  <2> DEFINE mid == Replying(old, 200)
             q == [mid EXCEPT !.pc = "dial", !.hijacked = TRUE]
  <2>1. mid \in States /\ mid.reply = <<200>> /\ mid.connect /\ Leased(mid)
    BY <1>0, FirstReply DEF Codes, Leased
  <2>2. Becomes(r, q)
    BY <1>1
  <2> HIDE DEF mid
  <2>3. /\ q \in States /\ q.pc = "dial" /\ q.hijacked
        /\ q.reply = mid.reply /\ q.connect = mid.connect /\ q.lease = mid.lease
        /\ q.closed = mid.closed /\ q.outcome = mid.outcome
    BY <2>1 DEF States, Steps
  <2> HIDE DEF q
  <2>4. Consistent(q, {"client"})
    BY <2>1, <2>3 DEF Consistent, Leased
  <2> QED BY <1>0, <1>1, <2>2, <2>3, <2>4, ContinuesBy DEF Ends
<1>2. CASE /\ Becomes(r, [Replying(old, 500) EXCEPT !.pc = "release", !.closed = TRUE])
           /\ UNCHANGED socks
  <2> DEFINE mid == Replying(old, 500)
             q == [mid EXCEPT !.pc = "release", !.closed = TRUE]
  <2>1. /\ mid \in States /\ mid.reply = <<500>> /\ mid.connect
        /\ mid.outcome = "none" /\ mid.hijacked = old.hijacked
    BY <1>0, FirstReply DEF Codes, Leased
  <2>2. Becomes(r, q)
    BY <1>2
  <2> HIDE DEF mid
  <2>3. /\ q \in States /\ q.pc = "release" /\ q.closed /\ q.hijacked = mid.hijacked
        /\ q.reply = mid.reply /\ q.connect = mid.connect /\ q.outcome = mid.outcome
    BY <2>1 DEF States, Steps
  <2> HIDE DEF q
  <2>4. Consistent(q, {})
    BY <2>1, <2>3 DEF Consistent, TunnelSettled
  <2>5. socks' = [socks EXCEPT ![r] = {}]
    BY <1>0, <1>2, RequestTypes
  <2> QED BY <1>0, <2>1, <2>2, <2>3, <2>4, <2>5, ContinuesBy DEF old
<1> QED BY <1>1, <1>2 DEF Hijack, old

\* The node is dialled, or the client is closed and the node blamed.
LEMMA DialContinues ==
  ASSUME Inv, NEW r \in Requests, Dial(r)
  PROVE  Continues(r)
<1> DEFINE old == req[r]
<1>0. /\ old \in States /\ old.pc = "dial" /\ ~At(r, "idle")
      /\ Leased(old) /\ old.connect /\ old.hijacked /\ old.reply = <<200>>
      /\ socks[r] = {"client"} /\ UNCHANGED <<server, activeConns>>
  BY RequestTypes DEF Dial, At, Consistent
<1> HIDE DEF old
<1>1. CASE /\ Becomes(r, [old EXCEPT !.pc = "relay"])
           /\ socks' = [socks EXCEPT ![r] = @ \cup {"target"}]
  <2> DEFINE q == [old EXCEPT !.pc = "relay"]
  <2>1. /\ q \in States /\ q.pc = "relay" /\ q.hijacked = old.hijacked
        /\ q.reply = old.reply /\ q.connect = old.connect /\ q.lease = old.lease
        /\ q.closed = old.closed /\ q.outcome = old.outcome
    BY <1>0 DEF States, Steps
  <2>2. Becomes(r, q)
    BY <1>1
  <2> HIDE DEF q
  <2>3. Consistent(q, Ends)
    BY <1>0, <2>1 DEF Consistent, Leased, Tunnel
  <2>4. socks' = [socks EXCEPT ![r] = Ends]
    BY <1>0, <1>1 DEF Ends, Inv, TypeOK
  <2> QED BY <1>0, <2>1, <2>2, <2>3, <2>4, ContinuesBy
<1>2. CASE /\ Becomes(r, [old EXCEPT !.pc = "release", !.closed = TRUE,
                                     !.outcome = "failure"])
           /\ UNCHANGED socks
  <2> DEFINE q == [old EXCEPT !.pc = "release", !.closed = TRUE, !.outcome = "failure"]
  <2>1. /\ q \in States /\ q.pc = "release" /\ q.closed /\ q.outcome = "failure"
        /\ q.hijacked = old.hijacked /\ q.reply = old.reply /\ q.connect = old.connect
    BY <1>0 DEF States, Steps
  <2>2. Becomes(r, q)
    BY <1>2
  <2> HIDE DEF q
  <2>3. Consistent(q, {"client"})
    BY <1>0, <2>1 DEF Consistent, TunnelSettled
  <2>4. socks' = [socks EXCEPT ![r] = {"client"}]
    BY <1>0, <1>2, RequestTypes
  <2> QED BY <1>0, <2>1, <2>2, <2>3, <2>4, ContinuesBy DEF Ends
<1> QED BY <1>1, <1>2 DEF Dial, old

\* The first report of a copier ends a tunnel, whichever way the target was reached.
LEMMA RelayContinues ==
  ASSUME Inv, NEW r \in Requests, Relay(r) \/ DirectRelay(r)
  PROVE  Continues(r)
<1> DEFINE old == req[r]
<1>0. /\ old \in States /\ ~At(r, "idle") /\ Tunnel(old, socks[r])
      /\ UNCHANGED <<server, activeConns>> /\ socks' = [socks EXCEPT ![r] = Ends]
  BY RequestTypes DEF Relay, DirectRelay, At, Consistent, Tunnel
<1>1. Ends \in SUBSET Ends
  OBVIOUS
<1>2. CASE Relay(r)
  <2>1. old.pc = "relay" /\ Leased(old)
    BY <1>2, RequestTypes DEF Relay, At, Consistent
  <2>2. PICK outcome \in {"success", "failure"} :
          Becomes(r, [old EXCEPT !.pc = "release", !.outcome = outcome])
    BY <1>2 DEF Relay
  <2> HIDE DEF old
  <2> DEFINE q == [old EXCEPT !.pc = "release", !.outcome = outcome]
  <2>3. /\ q \in States /\ q.pc = "release" /\ q.outcome = outcome /\ q.closed = old.closed
        /\ q.hijacked = old.hijacked /\ q.reply = old.reply /\ q.connect = old.connect
    BY <1>0 DEF States, Steps
  <2> HIDE DEF q
  <2>4. Consistent(q, Ends)
    BY <1>0, <2>1, <2>3 DEF Consistent, TunnelSettled, Tunnel, Leased
  <2> QED BY <1>0, <1>1, <2>2, <2>3, <2>4, ContinuesBy DEF q, old
<1>3. CASE DirectRelay(r)
  <2>1. ~old.lease
    BY <1>3, RequestTypes DEF DirectRelay, At, Consistent
  <2>2. Becomes(r, [old EXCEPT !.pc = "leave"])
    BY <1>3 DEF DirectRelay
  <2>3. Len(old.reply) <= 1
    <3>1. Len(<<200>>) = 1
      OBVIOUS
    <3> QED BY <1>0, <3>1 DEF Tunnel
  <2> HIDE DEF old
  <2> DEFINE q == [old EXCEPT !.pc = "leave"]
  <2>4. /\ q \in States /\ q.pc = "leave" /\ q.lease = old.lease
        /\ q.hijacked = old.hijacked /\ q.reply = old.reply
    BY <1>0 DEF States, Steps
  <2> HIDE DEF q
  <2>5. Consistent(q, Ends)
    BY <2>1, <2>3, <2>4 DEF Consistent
  <2> QED BY <1>0, <1>1, <2>2, <2>4, <2>5, ContinuesBy DEF q, old
<1> QED BY <1>2, <1>3

\* A forwarded request has sent at most the status it passes on.
LEMMA ForwardContinues ==
  ASSUME Inv, NEW r \in Requests, Forward(r)
  PROVE  Continues(r)
<1> DEFINE old == req[r]
<1>0. /\ old \in States /\ old.pc = "forward" /\ ~At(r, "idle")
      /\ Leased(old) /\ ~old.connect /\ old.reply = <<>> /\ socks[r] = {}
      /\ UNCHANGED <<server, activeConns>> /\ socks' = [socks EXCEPT ![r] = {}]
  BY RequestTypes DEF Forward, At, Consistent, tunnelVars
<1>1. PICK begun \in BOOLEAN, ok \in BOOLEAN :
        Becomes(r, [(IF begun THEN Replying(old, 200) ELSE old)
                      EXCEPT !.pc = "release", !.outcome = IF ok THEN "success"
                                                                 ELSE "failure"])
  BY DEF Forward
<1> HIDE DEF old
<1> DEFINE mid == IF begun THEN Replying(old, 200) ELSE old
           q == [mid EXCEPT !.pc = "release", !.outcome = IF ok THEN "success"
                                                                ELSE "failure"]
<1>2. /\ mid \in States /\ ~mid.connect /\ mid.reply \in {<<>>, <<200>>}
      /\ mid.hijacked = old.hijacked
  <2>1. CASE begun
    <3> DEFINE answered == Replying(old, 200)
    <3>1. /\ answered \in States /\ answered.reply = <<200>>
          /\ answered.connect = old.connect /\ answered.hijacked = old.hijacked
      BY <1>0, FirstReply DEF Codes
    <3>2. mid = answered
      BY <2>1
    <3> HIDE DEF mid, answered
    <3> QED BY <1>0, <3>1, <3>2
  <2>2. CASE ~begun
    BY <1>0, <2>2
  <2> QED BY <2>1, <2>2
<1> HIDE DEF mid
<1>3. /\ q \in States /\ q.pc = "release" /\ q.outcome # "none"
      /\ q.connect = mid.connect /\ q.reply = mid.reply /\ q.hijacked = mid.hijacked
  BY <1>2 DEF States, Steps
<1>4. Becomes(r, q)
  BY <1>1 DEF mid
<1> HIDE DEF q
<1>5. Consistent(q, {})
  BY <1>2, <1>3 DEF Consistent
<1> QED BY <1>0, <1>2, <1>3, <1>4, <1>5, ContinuesBy DEF old

\* The client is given back; only a failed forward is answered now.
LEMMA ReleaseContinues ==
  ASSUME Inv, NEW r \in Requests, Release(r)
  PROVE  Continues(r)
<1> DEFINE old == req[r]
           done == [old EXCEPT !.pc = "leave", !.lease = FALSE]
<1>0. /\ old \in States /\ old.pc = "release" /\ ~At(r, "idle")
      /\ Consistent(old, socks[r]) /\ socks[r] \in SUBSET Ends
      /\ UNCHANGED <<server, activeConns>> /\ socks' = [socks EXCEPT ![r] = socks[r]]
  BY RequestTypes DEF Release, At, tunnelVars
<1>1. Becomes(r, IF ~old.connect /\ old.outcome = "failure"
                 THEN Replying(done, 502) ELSE done)
  BY DEF Release
<1> HIDE DEF old
<1>2. /\ done \in States /\ done.pc = "leave" /\ ~done.lease
      /\ done.connect = old.connect /\ done.hijacked = old.hijacked
      /\ done.reply = old.reply
  BY <1>0 DEF States, Steps
<1> HIDE DEF done
<1>3. old.connect => Len(done.reply) <= 1
  <2>1. Len(<<200>>) = 1 /\ Len(<<500>>) = 1
    OBVIOUS
  <2>2. old.connect => old.reply \in {<<200>>, <<500>>}
    BY <1>0 DEF Consistent, TunnelSettled
  <2>3. CASE old.reply = <<200>>
    BY <1>2, <2>1, <2>3
  <2>4. CASE old.reply = <<500>>
    BY <1>2, <2>1, <2>4
  <2> QED BY <2>2, <2>3, <2>4
<1>4. CASE ~old.connect /\ old.outcome = "failure"
  <2> DEFINE reply == Append(done.reply, 502)
             q == [done EXCEPT !.reply = reply]
  <2>1. reply \in Seq(Codes)
    BY <1>2 DEF States, Codes
  <2>2. Becomes(r, q)
    BY <1>1, <1>4 DEF Replying
  <2> HIDE DEF reply
  <2>3. /\ q \in States /\ q.pc = "leave" /\ ~q.lease /\ ~q.connect
        /\ q.hijacked = old.hijacked
    BY <1>2, <1>4, <2>1 DEF States
  <2> HIDE DEF q
  <2>4. Consistent(q, socks[r])
    BY <2>3 DEF Consistent
  <2> QED BY <1>0, <2>2, <2>3, <2>4, ContinuesBy DEF old
<1>5. CASE ~(~old.connect /\ old.outcome = "failure")
  <2>1. Becomes(r, done)
    BY <1>1, <1>5
  <2>2. Consistent(done, socks[r])
    BY <1>2, <1>3 DEF Consistent
  <2> QED BY <1>0, <1>2, <2>1, <2>2, ContinuesBy DEF old
<1> QED BY <1>4, <1>5

\* A direct tunnel dials first and hijacks then.
LEMMA DirectDialContinues ==
  ASSUME Inv, NEW r \in Requests, DirectDial(r)
  PROVE  Continues(r)
<1> DEFINE old == req[r]
<1>0. /\ old \in States /\ old.pc = "directDial" /\ ~At(r, "idle")
      /\ Untouched(old, socks[r]) /\ old.connect
      /\ UNCHANGED <<server, activeConns>>
  BY RequestTypes DEF DirectDial, At, Consistent
<1>1. CASE /\ Becomes(r, [old EXCEPT !.pc = "directHijack"])
           /\ socks' = [socks EXCEPT ![r] = {"target"}]
  <2> HIDE DEF old
  <2> DEFINE q == [old EXCEPT !.pc = "directHijack"]
  <2>1. /\ q \in States /\ q.pc = "directHijack" /\ q.lease = old.lease
        /\ q.connect = old.connect /\ q.reply = old.reply /\ q.hijacked = old.hijacked
    BY <1>0 DEF States, Steps
  <2>2. Becomes(r, q)
    BY <1>1
  <2> HIDE DEF q
  <2>3. Consistent(q, {"target"})
    BY <1>0, <2>1 DEF Consistent, Untouched
  <2> QED BY <1>0, <1>1, <2>1, <2>2, <2>3, ContinuesBy DEF Ends, old
<1>2. CASE Becomes(r, [Replying(old, 502) EXCEPT !.pc = "leave"]) /\ UNCHANGED socks
  <2>1. ~old.lease /\ old.reply = <<>> /\ 502 \in Codes
    BY <1>0 DEF Untouched, Codes
  <2>2. Becomes(r, Answered(old, 502))
    BY <1>2 DEF Answered
  <2> QED BY <1>0, <1>2, <2>1, <2>2, AnswersContinue
<1> QED BY <1>1, <1>2 DEF DirectDial

\* The hijack of a direct CONNECT, which succeeds or is refused with a 500.
LEMMA DirectHijackContinues ==
  ASSUME Inv, NEW r \in Requests, DirectHijack(r)
  PROVE  Continues(r)
<1> DEFINE old == req[r]
<1>0. /\ old \in States /\ old.pc = "directHijack" /\ ~At(r, "idle") /\ ~old.lease
      /\ old.connect /\ old.reply = <<>> /\ socks[r] = {"target"}
      /\ UNCHANGED <<server, activeConns>>
  BY RequestTypes DEF DirectHijack, At, Consistent
<1>1. CASE /\ Becomes(r, [Replying(old, 200) EXCEPT !.pc = "directRelay",
                                                   !.hijacked = TRUE])
           /\ socks' = [socks EXCEPT ![r] = @ \cup {"client"}]
  <2> HIDE DEF old
  <2> DEFINE mid == Replying(old, 200)
             q == [mid EXCEPT !.pc = "directRelay", !.hijacked = TRUE]
  <2>1. mid \in States /\ mid.reply = <<200>> /\ mid.connect /\ ~mid.lease
    BY <1>0, FirstReply DEF Codes
  <2>2. Becomes(r, q)
    BY <1>1
  <2> HIDE DEF mid
  <2>3. /\ q \in States /\ q.pc = "directRelay" /\ q.hijacked
        /\ q.reply = mid.reply /\ q.connect = mid.connect /\ q.lease = mid.lease
    BY <2>1 DEF States, Steps
  <2> HIDE DEF q
  <2>4. Consistent(q, Ends)
    BY <2>1, <2>3 DEF Consistent, Tunnel
  <2>5. socks' = [socks EXCEPT ![r] = Ends]
    BY <1>0, <1>1 DEF Ends, Inv, TypeOK
  <2> QED BY <1>0, <2>2, <2>3, <2>4, <2>5, ContinuesBy
<1>2. CASE Becomes(r, [Replying(old, 500) EXCEPT !.pc = "leave"]) /\ UNCHANGED socks
  <2>1. ~old.lease /\ old.reply = <<>> /\ 500 \in Codes
    BY <1>0 DEF Codes
  <2>2. Becomes(r, Answered(old, 500))
    BY <1>2 DEF Answered
  <2> QED BY <1>0, <1>2, <2>1, <2>2, AnswersContinue
<1> QED BY <1>1, <1>2 DEF DirectHijack

\* A direct request that is not a CONNECT is answered by its target or with a 502.
LEMMA DirectForwardContinues ==
  ASSUME Inv, NEW r \in Requests, DirectForward(r)
  PROVE  Continues(r)
<1> DEFINE old == req[r]
<1>0. /\ old \in States /\ old.pc = "directForward" /\ ~At(r, "idle")
      /\ Untouched(old, socks[r]) /\ UNCHANGED <<server, activeConns, socks>>
  BY RequestTypes DEF DirectForward, At, Consistent, tunnelVars
<1>1. PICK code \in {200, 502} : Becomes(r, Answered(old, code))
  BY DEF DirectForward, Answered
<1>2. ~old.lease /\ old.reply = <<>> /\ code \in Codes
  BY <1>0 DEF Untouched, Codes
<1> QED BY <1>0, <1>1, <1>2, AnswersContinue

----------------------------------------------------------------------------
\* The steps of a request that is let in and has not returned.
LEMMA HandlerKeeps ==
  ASSUME Inv, NEW r \in Requests,
         (HandlerStep(r) /\ ~Leave(r)) \/ Dial(r)
  PROVE  Inv'
<1> DEFINE CopierType == [Requests -> [Directions -> CopierStates]]
<1>1. copier \in CopierType /\ errCh \in [Requests -> Seq(Results)]
  BY DEF Inv, TypeOK
<1>2. Continues(r)
  BY RouteContinues, HijackContinues, DialContinues, RelayContinues, ForwardContinues,
     ReleaseContinues, DirectDialContinues, DirectHijackContinues, DirectForwardContinues
     DEF HandlerStep
<1>3. copier' \in CopierType
  <2>1. UNCHANGED copier \/ copier' = [copier EXCEPT ![r] = [d \in Directions |-> "copying"]]
    BY DEF HandlerStep, Route, SelectClient, Hijack, Dial, Relay, Forward, Release,
           DirectDial, DirectHijack, DirectRelay, DirectForward, tunnelVars
  <2> QED BY <1>1, <2>1 DEF CopierStates
<1>4. errCh' \in [Requests -> Seq(Results)]
  <2>1. \/ UNCHANGED errCh
        \/ errCh[r] # <<>> /\ errCh' = [errCh EXCEPT ![r] = Tail(errCh[r])]
    BY DEF HandlerStep, Route, SelectClient, Hijack, Dial, Relay, Forward, Release,
           DirectDial, DirectHijack, DirectRelay, DirectForward, tunnelVars
  <2>2. errCh[r] # <<>> => Tail(errCh[r]) \in Seq(Results)
    BY <1>1
  <2> QED BY <1>1, <2>1, <2>2
<1> QED BY <1>2, <1>3, <1>4, ContinuesKeeps

\* Admission takes a slot for a request that was not active.
LEMMA ArriveKeeps ==
  ASSUME Inv, NEW r \in Requests, Arrive(r)
  PROVE  Inv'
<1>1. PICK connect \in BOOLEAN :
        Becomes(r, [NoRequest EXCEPT !.pc = "route", !.connect = connect])
  BY DEF Arrive
<1> DEFINE q == [NoRequest EXCEPT !.pc = "route", !.connect = connect]
<1>2. q \in States /\ q.pc = "route" /\ Untouched(q, {})
  <2>1. <<>> \in Seq(Codes)
    OBVIOUS
  <2> QED BY <2>1 DEF NoRequest, States, Steps, Untouched
<1> HIDE DEF q
<1>3. /\ server' = server /\ At(r, "idle")
      /\ activeConns < MaxConcurrent /\ activeConns' = activeConns + 1
      /\ socks' = [socks EXCEPT ![r] = socks[r]] /\ UNCHANGED <<copier, errCh>>
      /\ socks[r] = {}
  BY RequestTypes DEF Arrive, tunnelVars, At, Consistent
<1>4. Consistent(q, {})
  BY <1>2 DEF Consistent
<1>5. /\ req' \in [Requests -> States] /\ socks' \in [Requests -> SUBSET Ends]
      /\ \A x \in Requests : Consistent(req'[x], socks'[x])
  BY <1>1, <1>2, <1>3, <1>4, OneRequest DEF q
<1>6. activeConns \in 0..MaxConcurrent /\ activeConns' \in 0..MaxConcurrent
  BY <1>3, MaxConcurrentAssumption DEF Inv, TypeOK
<1>7. TypeOK'
  BY <1>3, <1>5, <1>6 DEF Inv, TypeOK
<1>8. Active' = Active \cup {r} /\ r \notin Active
  <2>1. \A x \in Requests : req'[x] = IF x = r THEN q ELSE req[x]
    BY <1>1 DEF Becomes, Inv, TypeOK, q
  <2> QED BY <1>2, <1>3, <2>1 DEF Active, At
<1>9. /\ IsFiniteSet(Active') /\ Cardinality(Active') = Cardinality(Active) + 1
  BY <1>8, FS_AddElement DEF Inv
<1>10. AdmissionExact'
  <2>1. activeConns = Cardinality(Active)
    BY DEF Inv, AdmissionExact, Active
  <2> QED BY <1>3, <1>9, <2>1 DEF AdmissionExact, Active
<1> QED BY <1>5, <1>7, <1>9, <1>10 DEF Inv

\* A handler that returns gives its slot back and closes what it has open.
LEMMA LeaveKeeps ==
  ASSUME Inv, NEW r \in Requests, Leave(r)
  PROVE  Inv'
<1> DEFINE q == [NoRequest EXCEPT !.lease = req[r].lease]
<1>1. At(r, "leave") /\ req[r].lease = FALSE
  BY RequestTypes DEF Leave, At, Consistent, States
<1>2. q \in States /\ q.pc = "idle" /\ ~q.lease /\ q.reply = <<>>
  <2>1. <<>> \in Seq(Codes)
    OBVIOUS
  <2> QED BY <1>1, <2>1 DEF NoRequest, States, Steps
<1>3. /\ Becomes(r, q) /\ UNCHANGED <<server, copier, errCh>>
      /\ activeConns' = IF activeConns > 0 THEN activeConns - 1 ELSE 0
      /\ socks' = [socks EXCEPT ![r] = {}]
  BY DEF Leave
<1> HIDE DEF q
<1>4. Consistent(q, {})
  BY <1>2 DEF Consistent
<1>5. /\ req' \in [Requests -> States] /\ socks' \in [Requests -> SUBSET Ends]
      /\ \A x \in Requests : Consistent(req'[x], socks'[x])
  BY <1>2, <1>3, <1>4, OneRequest
<1>6. activeConns \in 0..MaxConcurrent /\ activeConns' \in 0..MaxConcurrent
  BY <1>3, MaxConcurrentAssumption DEF Inv, TypeOK
<1>7. TypeOK'
  BY <1>3, <1>5, <1>6 DEF Inv, TypeOK
<1>8. \A x \in Requests : req'[x] = IF x = r THEN q ELSE req[x]
  BY <1>3 DEF Becomes, Inv, TypeOK
<1>9. Active' = Active \ {r} /\ r \in Active
  BY <1>1, <1>2, <1>8 DEF Active, At
<1>10. /\ IsFiniteSet(Active') /\ Cardinality(Active') = Cardinality(Active) - 1
  BY <1>9, FS_RemoveElement DEF Inv
<1>11. AdmissionExact'
  <2>1. activeConns = Cardinality(Active) /\ Cardinality(Active) \in Nat
    BY FS_CardinalityType DEF Inv, AdmissionExact, Active
  <2>2. Cardinality(Active') \in Nat
    BY <1>10, FS_CardinalityType
  <2> QED BY <1>3, <1>10, <2>1, <2>2 DEF AdmissionExact, Active
<1> QED BY <1>5, <1>7, <1>10, <1>11 DEF Inv

\* Neither the copiers nor the end of the server touch a request.
LEMMA OthersKeep ==
  ASSUME Inv,
         \/ \E r \in Requests : \/ Collected(r)
                                \/ \E d \in Directions : CopyEnds(r, d) \/ CopyReports(r, d)
         \/ Stop \/ ShutdownReturns \/ ShutdownTimesOut
         \/ UNCHANGED vars
  PROVE  Inv'
<1>1. UNCHANGED <<activeConns, req, socks>>
  BY DEF Collected, CopyEnds, CopyReports, Stop, ShutdownReturns, ShutdownTimesOut,
         tunnelVars, vars
<1>2. TypeOK
  BY DEF Inv
<1>3. TypeOK'
  <2>1. server' \in {"serving", "draining", "stopped", "timedOut"}
    BY <1>2 DEF TypeOK, Collected, CopyEnds, CopyReports, Stop, ShutdownReturns,
                ShutdownTimesOut, vars
  <2>2. copier' \in [Requests -> [Directions -> CopierStates]]
    <3>1. ASSUME NEW r \in Requests, NEW d \in Directions, CopyEnds(r, d)
          PROVE  copier' \in [Requests -> [Directions -> CopierStates]]
      <4>1. PICK result \in Results : copier' = [copier EXCEPT ![r][d] = result]
        BY <3>1 DEF CopyEnds
      <4> QED BY <1>2, <4>1 DEF TypeOK, CopierStates
    <3>2. ASSUME NEW r \in Requests, NEW d \in Directions, CopyReports(r, d)
          PROVE  copier' \in [Requests -> [Directions -> CopierStates]]
      <4>1. copier' = [copier EXCEPT ![r][d] = "done"]
        BY <3>2 DEF CopyReports
      <4> QED BY <1>2, <4>1 DEF TypeOK, CopierStates
    <3>3. ASSUME NEW r \in Requests, Collected(r)
          PROVE  copier' \in [Requests -> [Directions -> CopierStates]]
      BY <1>2, <3>3 DEF Collected, NoCopiers, TypeOK, CopierStates
    <3>4. CASE Stop \/ ShutdownReturns \/ ShutdownTimesOut \/ UNCHANGED vars
      BY <1>2, <3>4 DEF TypeOK, Stop, ShutdownReturns, ShutdownTimesOut, tunnelVars, vars
    <3> QED BY <3>1, <3>2, <3>3, <3>4
  <2>3. errCh' \in [Requests -> Seq(Results)]
    <3>1. ASSUME NEW r \in Requests, NEW d \in Directions, CopyReports(r, d)
          PROVE  errCh' \in [Requests -> Seq(Results)]
      <4>1. copier[r][d] \in Results /\ errCh[r] \in Seq(Results)
        BY <1>2, <3>1 DEF TypeOK, CopyReports
      <4>2. Append(errCh[r], copier[r][d]) \in Seq(Results)
        BY <4>1
      <4> QED BY <1>2, <3>1, <4>2 DEF TypeOK, CopyReports
    <3>2. ASSUME NEW r \in Requests, Collected(r)
          PROVE  errCh' \in [Requests -> Seq(Results)]
      BY <1>2, <3>2 DEF TypeOK, Collected
    <3>3. ASSUME NEW r \in Requests, NEW d \in Directions, CopyEnds(r, d)
          PROVE  errCh' \in [Requests -> Seq(Results)]
      BY <1>2, <3>3 DEF TypeOK, CopyEnds
    <3>4. CASE Stop \/ ShutdownReturns \/ ShutdownTimesOut \/ UNCHANGED vars
      BY <1>2, <3>4 DEF TypeOK, Stop, ShutdownReturns, ShutdownTimesOut, tunnelVars, vars
    <3> QED BY <3>1, <3>2, <3>3, <3>4
  <2> QED BY <1>1, <1>2, <2>1, <2>2, <2>3 DEF TypeOK
<1>4. (\A r \in Requests : Consistent(req[r], socks[r]))'
  BY <1>1 DEF Inv
<1>5. Active' = Active
  BY <1>1 DEF Active, At
<1>6. IsFiniteSet(Active)' /\ AdmissionExact'
  <2>1. activeConns = Cardinality(Active)
    BY DEF Inv, AdmissionExact, Active
  <2> QED BY <1>1, <1>5, <2>1 DEF Inv, AdmissionExact, Active
<1> QED BY <1>3, <1>4, <1>6 DEF Inv

\* The invariant holds of every behaviour: each handler's path is followed step by
\* step (server.go:61-87, handler.go:49-388).
THEOREM Inductive == Spec => []Inv
<1>1. Init => Inv
  <2> SUFFICES ASSUME Init PROVE Inv
    OBVIOUS
  <2>1. NoRequest \in States /\ <<>> \in Seq(Results)
    BY DEF NoRequest, States, Steps
  <2>2. TypeOK
    BY <2>1, MaxConcurrentAssumption DEF Init, TypeOK, NoCopiers, CopierStates
  <2>3. \A r \in Requests : Consistent(req[r], socks[r])
    BY DEF Init, NoRequest, Consistent
  <2>4. Active = {}
    BY DEF Init, Active, At, NoRequest
  <2>5. IsFiniteSet(Active) /\ AdmissionExact
    BY <2>4, FS_EmptySet DEF Init, Active, AdmissionExact
  <2> QED BY <2>2, <2>3, <2>5 DEF Inv
<1>2. Inv /\ [Next]_vars => Inv'
  <2> SUFFICES ASSUME Inv, [Next]_vars PROVE Inv'
    OBVIOUS
  <2>1. ASSUME NEW r \in Requests, Arrive(r) \/ HandlerStep(r) \/ Dial(r)
        PROVE  Inv'
    BY <2>1, ArriveKeeps, LeaveKeeps, HandlerKeeps
  <2>2. CASE ~\E r \in Requests : Arrive(r) \/ HandlerStep(r) \/ Dial(r)
    BY <2>2, OthersKeep DEF Next
  <2> QED BY <2>1, <2>2
<1> QED BY <1>1, <1>2, PTL DEF Spec

\* The variables of the server and its handlers keep their types (server.go:19-26,
\* handler.go:49-388).
THEOREM HandlerTypeCorrect == Spec => []TypeOK
<1>1. Inv => TypeOK
  BY DEF Inv
<1> QED BY <1>1, Inductive, PTL

\* activeConns is the number of requests let in that have not returned, whatever
\* way they took through the handler (server.go:67-87).
THEOREM SlotsExact == Spec => []AdmissionExact
<1>1. Inv => AdmissionExact
  BY DEF Inv
<1> QED BY <1>1, Inductive, PTL

\* On every path through the handler the client goes back and the sockets are closed
\* (handler.go:102-268, 298-388).
THEOREM CleanedUp == Spec => []NothingLeftBehind
<1>1. Inv => NothingLeftBehind
  BY DEF Inv, NothingLeftBehind, Consistent, At
<1> QED BY <1>1, Inductive, PTL

\* The node is told the outcome exactly when it was tried, before its client is
\* given back (handler.go:156-197, 245-254).
THEOREM OutcomesReported == Spec => []OutcomeReported
<1>1. Inv => OutcomeReported
  <2> SUFFICES ASSUME Inv, NEW r \in Requests, At(r, "release")
               PROVE  req[r].outcome = "none" <=>
                        500 \in {req[r].reply[i] : i \in DOMAIN req[r].reply}
    BY DEF OutcomeReported
  <2> DEFINE codes(reply) == {reply[i] : i \in DOMAIN reply}
  <2>1. 500 \in codes(<<500>>) /\ 500 \notin codes(<<200>>) /\ 500 \notin codes(<<>>)
    OBVIOUS
  <2>2. \/ req[r].reply = <<500>> /\ req[r].outcome = "none"
        \/ req[r].reply \in {<<>>, <<200>>} /\ req[r].outcome # "none"
    BY DEF Inv, Consistent, TunnelSettled, At
  <2> HIDE DEF codes
  <2>3. req[r].outcome = "none" <=> 500 \in codes(req[r].reply)
    BY <2>1, <2>2
  <2> QED BY <2>3 DEF codes
<1> QED BY <1>1, Inductive, PTL

\* A client that failed is closed before it goes back, and no other is
\* (handler.go:129-162).
THEOREM FailedClosed == Spec => []FailedClientsClosed
<1>1. Inv => FailedClientsClosed
  BY DEF Inv, FailedClientsClosed, Consistent, TunnelSettled, At, Ends
<1> QED BY <1>1, Inductive, PTL

\* A CONNECT gets one answer on each path, and the tunnel starts after its 200
\* (handler.go:124-166, 302-337).
THEOREM OneAnswer == Spec => []TunnelAnsweredOnce
<1>1. Inv => TunnelAnsweredOnce
  <2> SUFFICES ASSUME Inv, NEW r \in Requests
               PROVE  /\ req[r].connect => Len(req[r].reply) <= 1
                      /\ At(r, "relay") \/ At(r, "directRelay")
                           => req[r].reply = <<200>> /\ socks[r] = {"client", "target"}
    BY DEF TunnelAnsweredOnce
  <2>1. Consistent(req[r], socks[r]) /\ req[r].pc \in Steps
    BY DEF Inv, TypeOK, States
  <2>2. At(r, "relay") \/ At(r, "directRelay")
          => req[r].reply = <<200>> /\ socks[r] = {"client", "target"}
    BY <2>1 DEF Consistent, Tunnel, At, Ends
  <2>3. ASSUME req[r].connect
        PROVE  Len(req[r].reply) <= 1
    <3>1. Len(<<>>) = 0 /\ Len(<<200>>) = 1 /\ Len(<<500>>) = 1
      OBVIOUS
    <3>2. \/ req[r].reply = <<>> \/ req[r].reply = <<200>> \/ req[r].reply = <<500>>
          \/ Len(req[r].reply) <= 1
      BY <2>1, <2>3 DEF Consistent, Steps, Untouched, Tunnel, TunnelSettled
    <3>3. CASE req[r].reply = <<>>
      BY <3>1, <3>3
    <3>4. CASE req[r].reply = <<200>>
      BY <3>1, <3>4
    <3>5. CASE req[r].reply = <<500>>
      BY <3>1, <3>5
    <3> QED BY <3>2, <3>3, <3>4, <3>5
  <2> QED BY <2>2, <2>3
<1> QED BY <1>1, Inductive, PTL
=============================================================================
