------------------------------ MODULE Failover ------------------------------
(***************************************************************************)
(* ExecuteWithFailover (internal/proxy/failover.go) on top of the          *)
(* selector, whose weighted round-robin (selectWeightedNode) and list      *)
(* order are added here.  Nodes are not reloaded and clients do not grow   *)
(* stale; which nodes are healthy may change from one selection to the     *)
(* next.                                                                   *)
(*                                                                         *)
(* The cursor s.current only ever grows and is read modulo the total       *)
(* weight or the length of the list at hand; it is kept here modulo Cycle, *)
(* which all of these divide.                                              *)
(***************************************************************************)
EXTENDS Selector

CONSTANTS
    Order,      \* the nodes as the configuration lists them
    Weight,     \* the weight of each node
    Cycle,      \* bound: the cursor is kept modulo this
    MaxRetries  \* of NewFailover

ASSUME FailoverAssumption ==
    /\ Order \in Seq(Names) /\ ToSet(Order) = Names /\ IsInjective(Order)
    /\ Weight \in [Names -> Nat \ {0}]
    /\ Cycle \in Nat \ {0}
    /\ MaxRetries \in Nat

VARIABLES
    current,    \* Selector.current
    exec,       \* the call each worker is in
    broken      \* open or closed, the clients on which an operation has failed

foVars == <<current, exec, broken>>
allVars == <<vars, foVars>>

NoCall == [pc |-> "none", attempt |-> 0, tried |-> {}, outcome |-> "none"]

FailoverTypeOK ==
    /\ current \in 0..(Cycle - 1)
    /\ exec \in [Workers -> [pc : {"none", "select", "selecting", "operating", "closing",
                                   "releasing", "waiting"},
                             attempt : 0..MaxRetries,
                             tried : SUBSET Names,
                             outcome : {"none", "done", "failed", "skipped"}]]
    /\ broken \subseteq Clients

FailoverInit ==
    /\ Init
    /\ current = 0
    /\ exec = [w \in Workers |-> NoCall]
    /\ broken = {}

At(w, step) == exec[w].pc = step
Call(w, state) == exec' = [exec EXCEPT ![w] = state]

----------------------------------------------------------------------------
(* selectWeightedNode *)

\* The loop over the configured nodes keeps those of S.
Listed(S) ==
    LET kept[i \in 0..Len(Order)] ==
          IF i = 0 THEN <<>>
          ELSE IF Order[i] \in S THEN Append(kept[i - 1], Order[i]) ELSE kept[i - 1]
    IN  kept[Len(Order)]

\* The weights of the first i nodes of a list.
UpTo(list, i) ==
    LET cumulative[j \in 0..Len(list)] ==
          IF j = 0 THEN 0 ELSE cumulative[j - 1] + Weight[list[j]]
    IN  cumulative[i]
TotalWeight(list) == UpTo(list, Len(list))

\* A comparison that lets each node have one turn of the next (a mutant).
Bug_Pick(list, cursor) ==
    list[CHOOSE i \in 1..Len(list) :
            /\ cursor % TotalWeight(list) <= UpTo(list, i)
            /\ \A j \in 1..(i - 1) : cursor % TotalWeight(list) > UpTo(list, j)]

\* The first node whose cumulative weight is beyond the offset.
Pick(list, cursor) ==
    list[CHOOSE i \in 1..Len(list) :
            /\ cursor % TotalWeight(list) < UpTo(list, i)
            /\ \A j \in 1..(i - 1) : cursor % TotalWeight(list) >= UpTo(list, j)]

\* The cursor moves before it is used, and not at all for a single node.
Advanced(list) == IF Len(list) = 1 THEN current ELSE (current + 1) % Cycle
Chosen(list) == IF Len(list) = 1 THEN list[1] ELSE Pick(list, Advanced(list))

----------------------------------------------------------------------------
(* SelectClient for a worker in a call *)

WeightedSelect(w) ==
    /\ At(w, "select")
    /\ SelectClient(w)
    /\ LET list == Listed(worker'[w].avail)
       IN  /\ worker'[w].node \cup worker'[w].tried = {Chosen(list)}
           /\ current' = Advanced(list)
    /\ Call(w, [exec[w] EXCEPT !.pc = "selecting"])
    /\ UNCHANGED broken

\* selectFromOtherNodes goes through the list in its order.
NextOther(w) == Head(Listed(Untried(w)))
OtherInOrder(w) ==
    \/ OtherSucceeds(w) /\ poolNode[origin'[worker'[w].client]] = NextOther(w)
    \/ OtherFails(w) /\ NextOther(w) \in worker'[w].tried

SelectorStep(w) ==
    /\ At(w, "selecting")
    /\ \/ GetSucceeds(w)
       \/ GetFails(w)
       \/ LockForFailover(w)
       \/ OtherInOrder(w)
       \/ OthersExhausted(w)
    /\ UNCHANGED foVars

----------------------------------------------------------------------------
(* ExecuteWithFailover *)

Execute(w) ==
    /\ At(w, "none") /\ worker[w].pc = "idle"
    /\ Call(w, [NoCall EXCEPT !.pc = "select"])
    /\ UNCHANGED vars /\ UNCHANGED <<current, broken>>

Finished(w) == Call(w, NoCall)
Again(w) == Call(w, [exec[w] EXCEPT !.pc = "select", !.attempt = @ + 1, !.outcome = "none"])

\* An error of SelectClient ends the call at once, whatever attempts are left.
SelectRefused(w) ==
    /\ At(w, "selecting")
    /\ ReturnError(w)
    /\ Finished(w)
    /\ UNCHANGED <<current, broken>>

\* The node has been tried before: its client goes back unused.
Skip(w) ==
    /\ At(w, "selecting") /\ worker[w].pc = "using"
    /\ NodeOf(worker[w].client) \in exec[w].tried
    /\ ReleaseLookUp(w)
    /\ Call(w, [exec[w] EXCEPT !.pc = "releasing", !.outcome = "skipped"])
    /\ UNCHANGED <<current, broken>>

Operate(w) ==
    LET n == NodeOf(worker[w].client)
    IN  /\ At(w, "selecting") /\ worker[w].pc = "using"
        /\ n \notin exec[w].tried
        /\ Call(w, [exec[w] EXCEPT !.pc = "operating", !.tried = @ \cup {n}])
        /\ UNCHANGED vars /\ UNCHANGED <<current, broken>>

\* A success that returns with the client (a mutant).
Bug_OperationSucceeds(w) ==
    /\ At(w, "operating")
    /\ Finished(w)
    /\ UNCHANGED vars /\ UNCHANGED <<current, broken>>

OperationSucceeds(w) ==
    /\ At(w, "operating")
    /\ ReleaseLookUp(w)
    /\ Call(w, [exec[w] EXCEPT !.pc = "releasing", !.outcome = "done"])
    /\ UNCHANGED <<current, broken>>

\* A failed client that is released without having been closed (a mutant).
Bug_OperationFails(w) ==
    /\ At(w, "operating")
    /\ broken' = broken \cup HeldBy(w)
    /\ Call(w, [exec[w] EXCEPT !.pc = "closing"])
    /\ UNCHANGED <<vars, current>>

\* The operation fails, and the client is closed before it is released.
OperationFails(w) ==
    /\ At(w, "operating")
    /\ CloseClient(w)
    /\ broken' = broken \cup HeldBy(w)
    /\ Call(w, [exec[w] EXCEPT !.pc = "closing"])
    /\ UNCHANGED current

ReleaseFailed(w) ==
    /\ At(w, "closing")
    /\ ReleaseLookUp(w)
    /\ Call(w, [exec[w] EXCEPT !.pc = "releasing", !.outcome = "failed"])
    /\ UNCHANGED <<current, broken>>

\* A name is broken no more when it is given to a new client.
Mended == broken \cap {c \in Clients : origin'[c] # NoPool}

\* All attempts are exhausted.
GivesUp(w) == exec[w].outcome \in {"failed", "skipped"} /\ exec[w].attempt = MaxRetries

\* A skipped node that costs no attempt (a mutant).
Bug_Released(w) ==
    /\ At(w, "releasing")
    /\ ReleasePut(w)
    /\ \/ exec[w].outcome = "done" /\ Finished(w)
       \/ exec[w].outcome = "skipped" /\ Call(w, [exec[w] EXCEPT !.pc = "select"])
       \/ exec[w].outcome = "failed" /\ GivesUp(w) /\ Finished(w)
       \/ exec[w].outcome = "failed" /\ ~GivesUp(w) /\ Call(w, [exec[w] EXCEPT !.pc = "waiting"])
    /\ broken' = Mended
    /\ UNCHANGED current

\* The end of an attempt: a success returns, a skipped node goes on with the next
\* attempt at once, a failure waits for it, and the last attempt gives up.
Released(w) ==
    /\ At(w, "releasing")
    /\ ReleasePut(w)
    /\ \/ exec[w].outcome = "done" /\ Finished(w)
       \/ GivesUp(w) /\ Finished(w)
       \/ exec[w].outcome = "skipped" /\ ~GivesUp(w) /\ Again(w)
       \/ exec[w].outcome = "failed" /\ ~GivesUp(w) /\ Call(w, [exec[w] EXCEPT !.pc = "waiting"])
    /\ broken' = Mended
    /\ UNCHANGED current

\* retryDelay passes, or the context of the request ends first.
Wait(w) ==
    /\ At(w, "waiting")
    /\ Again(w) \/ Finished(w)
    /\ UNCHANGED vars /\ UNCHANGED <<current, broken>>

CallStep(w) ==
    \/ SelectRefused(w) \/ Skip(w) \/ Operate(w) \/ OperationSucceeds(w)
    \/ OperationFails(w) \/ ReleaseFailed(w) \/ Released(w) \/ Wait(w)

InCall(w) == WeightedSelect(w) \/ SelectorStep(w) \/ CallStep(w)

FailoverNext == \E w \in Workers : Execute(w) \/ InCall(w)

FailoverSpec == FailoverInit /\ [][FailoverNext]_allVars

\* Outside the operation nothing that a call waits for lasts: a Connect has a timeout
\* of ten seconds, retryDelay is a timer, goroutines are scheduled, and a Go mutex in
\* starvation mode is handed to the first waiter, so that a worker that waits for
\* Selector.mu gets it although others take it too.  The operation itself has no
\* fairness: it is a func(*trojan.Client) error without a context, and a dial
\* through the node may last (protocol.go:26).
FailoverFairness == \A w \in Workers : SF_allVars(~At(w, "operating") /\ InCall(w))

FairFailover == FailoverSpec /\ FailoverFairness

----------------------------------------------------------------------------
\* Whatever the cursor is, in one round of the total weight each available node
\* is chosen as often as its weight says (selector.go:136-149).
RoundsFollowWeights ==
    \A S \in SUBSET Names :
        LET list == Listed(S)
            rounds == 1..TotalWeight(list)
        IN  Cardinality(S) > 1 =>
              \A n \in S :
                Cardinality({k \in rounds : Pick(list, current + k) = n}) = Weight[n]

\* A client on which an operation has failed is never lent again: it is closed, and
\* it is on no idle stack, also when others return clients at the same time.
BrokenNeverLent ==
    /\ \A i \in PoolIds : IdleOf(pool[i]) \cap broken = {}
    /\ \A w \in Workers : At(w, "operating") => HeldBy(w) \cap broken = {}

\* A call that has returned has no client left (failover.go:44-100).
CallsSettle == \A w \in Workers : At(w, "none") => worker[w].pc = "idle"

\* A call ends, or its own operation never does: however often it selects again,
\* although the failover of another call may hold the selector's lock through several
\* dials, and although the operation of another call may keep its client for ever
\* (failover.go:44-100, selector.go:157-160).
CallsEnd == \A w \in Workers : []<>At(w, "none") \/ <>[]At(w, "operating")
=============================================================================
