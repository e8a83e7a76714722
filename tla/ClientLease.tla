----------------------------- MODULE ClientLease -----------------------------
(***************************************************************************)
(* What the pools promise to their callers, whatever they do inside: a     *)
(* client is lent to one borrower at a time, comes back only from the one  *)
(* who has it, and the clients of a node, lent or kept as spares, never    *)
(* exceed a limit.  Only a spare or a new client is lent, and only an open *)
(* one is kept as a spare.  Spares may be given up at any moment; a client *)
(* that is given up, or not kept when it comes back, is closed.            *)
(*                                                                         *)
(* TrojanPool implements this for one pool, with max_active as the limit;  *)
(* Selector implements it for all pools together, reloads included.        *)
(***************************************************************************)
EXTENDS Naturals, FiniteSets

CONSTANTS
    Clients,
    Borrowers,  \* those who may hold a client
    Limit       \* the most clients lent and spare

VARIABLES
    loans,      \* pairs of a borrower and the client it holds
    spare,      \* clients kept for the next borrower
    open        \* clients that have been made and not been closed

Lent == {loan[2] : loan \in loans}

Init ==
    /\ loans = {}
    /\ spare = {}
    /\ open = {}

WithinLimit == Cardinality(Lent \cup spare) <= Limit

\* The spares that a step gives up.
Given == spare \ spare'

\* A spare is lent, or a new client; others may be given up on the way.
Lend(b, c) ==
    /\ c \notin Lent
    /\ c \in spare => c \in open
    /\ c \notin spare => c \notin open
    /\ loans' = loans \cup {<<b, c>>}
    /\ spare' \subseteq spare \ {c}
    /\ open' = (open \ Given) \cup {c}
    /\ WithinLimit'

TakeBack(b, c) ==
    /\ <<b, c>> \in loans
    /\ loans' = loans \ {<<b, c>>}
    /\ \/ c \in open /\ spare' = spare \cup {c} /\ open' = open
       \/ spare' = spare /\ open' = open \ {c}
    /\ WithinLimit'

\* A borrower closes the client it has.
Close(b, c) ==
    /\ <<b, c>> \in loans
    /\ open' = open \ {c}
    /\ UNCHANGED <<loans, spare>>

GiveUp ==
    /\ loans' = loans
    /\ spare' \subseteq spare
    /\ open' = open \ Given

Next ==
    \/ \E b \in Borrowers, c \in Clients : Lend(b, c) \/ TakeBack(b, c) \/ Close(b, c)
    \/ GiveUp

Spec == Init /\ [][Next]_<<loans, spare, open>>
==============================================================================
