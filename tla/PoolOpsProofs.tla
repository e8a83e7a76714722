--------------------------- MODULE PoolOpsProofs ---------------------------
(***************************************************************************)
(* What the operations of PoolOps do to the idle stack and to the counter, *)
(* stated once for the proofs of the modules that own pools.               *)
(***************************************************************************)
EXTENDS PoolOps, SequenceTheorems, TLAPS

\* Taking the last element off a sequence: the sequence gets one shorter, and
\* its elements are those of the rest together with the one taken.
LEMMA FrontFacts ==
    ASSUME NEW S, NEW s \in Seq(S), s # <<>>
    PROVE  /\ Front(s) \in Seq(S)
           /\ Len(Front(s)) = Len(s) - 1
           /\ Last(s) \in S
           /\ ToSet(s) = ToSet(Front(s)) \cup {Last(s)}
           /\ IsInjective(s) => /\ IsInjective(Front(s))
                                /\ Last(s) \notin ToSet(Front(s))
<1>1. Len(s) \in Nat \ {0} /\ DOMAIN s = 1..Len(s)
  BY EmptySeq, LenProperties
<1>2. \A i \in 1..(Len(s) - 1) : s[i] \in S
  BY <1>1, ElementOfSeq
<1>3. /\ Front(s) \in Seq(S)
      /\ Len(Front(s)) = Len(s) - 1
      /\ \A i \in 1..(Len(s) - 1) : Front(s)[i] = s[i]
  BY <1>1, <1>2, SubSeqProperties DEF Front
<1>4. DOMAIN Front(s) = 1..(Len(s) - 1)
  BY <1>3, LenProperties
<1>5. Last(s) \in S
  BY <1>1, ElementOfSeq DEF Last
<1>6. ToSet(s) = ToSet(Front(s)) \cup {Last(s)}
  BY <1>1, <1>3, <1>4 DEF ToSet, Last
<1>7. ASSUME IsInjective(s)
      PROVE  IsInjective(Front(s)) /\ Last(s) \notin ToSet(Front(s))
  BY <1>1, <1>3, <1>4, <1>7 DEF ToSet, Last, IsInjective
<1> QED BY <1>3, <1>5, <1>6, <1>7

\* Adding an element at the end of a sequence.
LEMMA AppendFacts ==
    ASSUME NEW S, NEW s \in Seq(S), NEW e \in S
    PROVE  /\ Append(s, e) \in Seq(S)
           /\ Len(Append(s, e)) = Len(s) + 1
           /\ ToSet(Append(s, e)) = ToSet(s) \cup {e}
           /\ IsInjective(s) /\ e \notin ToSet(s) => IsInjective(Append(s, e))
<1>1. Len(s) \in Nat /\ DOMAIN s = 1..Len(s)
  BY LenProperties
<1>2. /\ Append(s, e) \in Seq(S)
      /\ Len(Append(s, e)) = Len(s) + 1
      /\ \A i \in 1..Len(s) : Append(s, e)[i] = s[i]
      /\ Append(s, e)[Len(s) + 1] = e
  BY AppendProperties
<1>3. DOMAIN Append(s, e) = 1..(Len(s) + 1)
  BY <1>2, LenProperties
<1>4. ToSet(Append(s, e)) = ToSet(s) \cup {e}
  BY <1>1, <1>2, <1>3 DEF ToSet
<1>5. ASSUME IsInjective(s), e \notin ToSet(s)
      PROVE  IsInjective(Append(s, e))
  BY <1>1, <1>2, <1>3, <1>5 DEF ToSet, IsInjective
<1> QED BY <1>2, <1>4, <1>5

\* The idle stack of a pool has a length, and no elements only when it is empty.
LEMMA IdleFacts ==
    ASSUME NEW p \in Pools
    PROVE  /\ p.clients \in Seq(Clients)
           /\ Len(p.clients) \in Nat
           /\ p.activeCount \in Int
           /\ p.closed \in BOOLEAN
           /\ IdleOf(p) \subseteq Clients
           /\ p.clients = <<>> => Len(p.clients) = 0 /\ IdleOf(p) = {}
           /\ p.clients # <<>> => Last(p.clients) \in IdleOf(p)
<1>1. p.clients \in Seq(Clients) /\ p.activeCount \in Int /\ p.closed \in BOOLEAN
  BY DEF Pools
<1>2. Len(p.clients) \in Nat /\ DOMAIN p.clients = 1..Len(p.clients)
  BY <1>1, LenProperties
<1>3. IdleOf(p) \subseteq Clients
  BY <1>1, <1>2, ElementOfSeq DEF IdleOf, ToSet
<1>4. p.clients = <<>> => Len(p.clients) = 0 /\ IdleOf(p) = {}
  BY <1>1, <1>2, EmptySeq DEF IdleOf, ToSet
<1>5. p.clients # <<>> => Last(p.clients) \in IdleOf(p)
  BY <1>1, <1>2, EmptySeq DEF IdleOf, ToSet, Last
<1> QED BY <1>1, <1>2, <1>3, <1>4, <1>5

\* Get takes the top of the idle stack and counts it.
LEMMA PoppedFacts ==
    ASSUME NEW p \in Pools, p.clients # <<>>
    PROVE  /\ Popped(p) \in Pools
           /\ Popped(p).activeCount = p.activeCount + 1
           /\ Popped(p).closed = p.closed
           /\ Len(Popped(p).clients) = Len(p.clients) - 1
           /\ IdleOf(p) = IdleOf(Popped(p)) \cup {Last(p.clients)}
           /\ IsInjective(p.clients) => /\ IsInjective(Popped(p).clients)
                                        /\ Last(p.clients) \notin IdleOf(Popped(p))
<1>1. /\ Popped(p) = [p EXCEPT !.clients = Front(p.clients),
                              !.activeCount = p.activeCount + 1]
      /\ p.clients \in Seq(Clients)
  BY DEF Popped, Pools
<1>2. /\ Popped(p).clients = Front(p.clients)
      /\ Popped(p).activeCount = p.activeCount + 1
      /\ Popped(p).closed = p.closed
  BY <1>1 DEF Pools
<1>3. Front(p.clients) \in Seq(Clients)
  BY <1>1, FrontFacts
<1>4. Popped(p) = [clients |-> Front(p.clients),
                     activeCount |-> p.activeCount + 1, closed |-> p.closed]
  BY <1>1 DEF Pools
<1>5. Popped(p) \in Pools
  BY <1>3, <1>4 DEF Pools
<1> QED BY <1>1, <1>2, <1>5, FrontFacts DEF IdleOf

\* Put takes one off the count and keeps the client only where it fits.
LEMMA ReturnedFacts ==
    ASSUME NEW p \in Pools, NEW c \in Clients, NEW open
    PROVE  /\ Returned(p, c, open) \in Pools
           /\ Returned(p, c, open).activeCount = p.activeCount - 1
           /\ Returned(p, c, open).closed = p.closed
           /\ Keeps(p, c, open) =>
                /\ c \in open /\ ~p.closed /\ Len(p.clients) < MaxIdle
                /\ Len(Returned(p, c, open).clients) = Len(p.clients) + 1
                /\ IdleOf(Returned(p, c, open)) = IdleOf(p) \cup {c}
                /\ IsInjective(p.clients) /\ c \notin IdleOf(p)
                     => IsInjective(Returned(p, c, open).clients)
           /\ ~Keeps(p, c, open) => Returned(p, c, open).clients = p.clients
<1> DEFINE q == Returned(p, c, open)
<1>1. p.clients \in Seq(Clients) /\ p.activeCount \in Int
  BY DEF Pools
<1>2. CASE Keeps(p, c, open)
  <2>1. q = [p EXCEPT !.activeCount = p.activeCount - 1,
                      !.clients = Append(p.clients, c)]
    BY <1>2 DEF Returned
  <2>2. q = [clients |-> Append(p.clients, c),
             activeCount |-> p.activeCount - 1, closed |-> p.closed]
    BY <2>1 DEF Pools
  <2>3. Append(p.clients, c) \in Seq(Clients)
    BY <1>1, AppendFacts
  <2>4. q \in Pools
    BY <1>1, <2>2, <2>3 DEF Pools
  <2>5. c \in open /\ ~p.closed /\ Len(p.clients) < MaxIdle
    BY <1>2 DEF Keeps
  <2> QED BY <1>1, <1>2, <2>2, <2>4, <2>5, AppendFacts DEF IdleOf
<1>3. CASE ~Keeps(p, c, open)
  <2>1. q = [p EXCEPT !.activeCount = p.activeCount - 1, !.clients = p.clients]
    BY <1>3 DEF Returned
  <2>2. q = [clients |-> p.clients,
             activeCount |-> p.activeCount - 1, closed |-> p.closed]
    BY <2>1 DEF Pools
  <2>3. q.clients = p.clients /\ q \in Pools
    BY <1>1, <2>2 DEF Pools
  <2> QED BY <1>3, <2>2, <2>3
<1> QED BY <1>2, <1>3

\* What a Get that finds nothing to reuse leaves of the pool: the idle client it
\* discards, if there is one, moves one unit from the stack to the counter.
LEMMA MissFacts ==
    ASSUME NEW p \in Pools
    PROVE  /\ AfterMiss(p) \in Pools
           /\ AfterMiss(p).closed = p.closed
           /\ IdleOf(p) = IdleOf(AfterMiss(p)) \cup Discarded(p)
           /\ IsInjective(p.clients) => /\ IsInjective(AfterMiss(p).clients)
                                        /\ IdleOf(AfterMiss(p)) \cap Discarded(p) = {}
           /\ p.clients = <<>> => AfterMiss(p) = p
           /\ p.clients # <<>> =>
                /\ AfterMiss(p).activeCount = p.activeCount + 1
                /\ Len(AfterMiss(p).clients) = Len(p.clients) - 1
<1>1. CASE p.clients = <<>>
  BY <1>1 DEF AfterMiss, Discarded
<1>2. CASE p.clients # <<>>
  <2>1. AfterMiss(p) = Popped(p) /\ Discarded(p) = {Last(p.clients)}
    BY <1>2 DEF AfterMiss, Discarded
  <2> QED BY <1>2, <2>1, PoppedFacts
<1> QED BY <1>1, <1>2

\* Get counts the client it has connected and leaves the idle stack alone.
LEMMA CheckoutFacts ==
    ASSUME NEW p \in Pools
    PROVE  /\ Checkout(p) \in Pools
           /\ Checkout(p).activeCount = p.activeCount + 1
           /\ Checkout(p).clients = p.clients
           /\ Checkout(p).closed = p.closed
<1>1. Checkout(p) = [clients |-> p.clients,
                     activeCount |-> p.activeCount + 1, closed |-> p.closed]
  BY DEF Checkout, Pools
<1> QED BY <1>1 DEF Pools

\* A closed pool has an empty idle stack and keeps its counter.
LEMMA ShutFacts ==
    ASSUME NEW p \in Pools
    PROVE  /\ Shut(p) \in Pools
           /\ Shut(p).clients = <<>>
           /\ Shut(p).closed = TRUE
           /\ Shut(p).activeCount = p.activeCount
<1>1. /\ Shut(p).clients = <<>>
      /\ Shut(p).closed = TRUE
      /\ Shut(p).activeCount = p.activeCount
  BY DEF Shut, Pools
<1>2. Shut(p) \in Pools
  BY EmptySeq DEF Shut, Pools
<1> QED BY <1>1, <1>2
=============================================================================
