------------------------------ MODULE PoolOps ------------------------------
(***************************************************************************)
(* The state of one trojan.Pool (internal/trojan/pool.go) and what each    *)
(* of its operations makes of it.  Every operation runs under Pool.mu, so  *)
(* each is one function of the record.  The modules that own pools         *)
(* (TrojanPool: one pool; Selector: one pool per node) EXTEND this module. *)
(*                                                                         *)
(* A client is only a name here; `valid` is the set of clients that are    *)
(* open and were used less than five minutes ago.                          *)
(***************************************************************************)
EXTENDS Integers, Sequences, SequencesExt

CONSTANTS
    Clients,    \* the names of trojan.Client objects
    MaxIdle,    \* connection_pool.max_idle
    MaxActive   \* connection_pool.max_active

ASSUME MaxIdleAssumption == MaxIdle \in Nat
ASSUME MaxActiveAssumption == MaxActive \in Nat

Pools == [clients : Seq(Clients), activeCount : Int, closed : BOOLEAN]

NewPool == [clients |-> <<>>, activeCount |-> 0, closed |-> FALSE]

IdleOf(p) == ToSet(p.clients)

----------------------------------------------------------------------------
\* Wrong variants of the operations below, for the mutants of PROJECT.json.
Bug_PeekOnly(p) == [p EXCEPT !.activeCount = @ + 1]
Bug_RoomOffByOne(p) == p.activeCount <= MaxActive
Bug_KeepClosedClient(p, c, open) == ~p.closed /\ Len(p.clients) < MaxIdle
Bug_KeepAfterClose(p, c, open) == c \in open /\ Len(p.clients) < MaxIdle
Bug_DecrementOnlyWhenClosed(p, c, open) ==
    IF ~p.closed /\ c \in open /\ Len(p.clients) < MaxIdle
      THEN [p EXCEPT !.clients = Append(@, c)]
      ELSE [p EXCEPT !.activeCount = @ - 1]

----------------------------------------------------------------------------
\* Get takes the most recently returned client and counts it active at once.
Popped(p) == [p EXCEPT !.clients = Front(@), !.activeCount = @ + 1]

\* Get hands out the top of the idle stack.
Reuses(p, valid) == ~p.closed /\ p.clients # <<>> /\ Last(p.clients) \in valid

\* Get finds nothing to reuse: no idle client, or a stale one that it pops and
\* closes.  The count that came with the stale one is not taken back.
Misses(p, valid) == ~p.closed /\ ~Reuses(p, valid)
AfterMiss(p) == IF p.clients = <<>> THEN p ELSE Popped(p)
Discarded(p) == IF p.clients = <<>> THEN {} ELSE {Last(p.clients)}

HasRoom(p) == p.activeCount < MaxActive

\* Get counts the client it has just connected.
Checkout(p) == [p EXCEPT !.activeCount = @ + 1]

\* Put keeps a client that is open while there is room on the idle stack.
Keeps(p, c, open) == ~p.closed /\ c \in open /\ Len(p.clients) < MaxIdle

Returned(p, c, open) ==
    [p EXCEPT !.activeCount = @ - 1,
              !.clients = IF Keeps(p, c, open) THEN Append(@, c) ELSE @]

Shut(p) == [p EXCEPT !.clients = <<>>, !.closed = TRUE]
=============================================================================
