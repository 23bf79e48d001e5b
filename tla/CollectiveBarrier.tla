--------------------------- MODULE CollectiveBarrier ---------------------------
(***************************************************************************)
(* What the controller promises to the ranks, without threads, locks,      *)
(* counts or rails: a collective is released once, after every rank that   *)
(* takes part has asked for it, and then every rank of its communicator    *)
(* is told at most once, and never for a collective it is no part of.      *)
(***************************************************************************)
CONSTANTS
    Parties,   \* the ranks
    Rounds,    \* the collectives
    Askers,    \* per collective: the ranks that ask for it
    Listeners  \* per collective: the ranks that may be told

VARIABLES
    asked,     \* per rank: the collectives it has asked for
    released,  \* the collectives whose barrier is open
    delivered  \* per rank and collective: how often it was told

barrierVars == <<asked, released, delivered>>

BarrierInit ==
    /\ asked = [c \in Parties |-> {}]
    /\ released = {}
    /\ delivered = [c \in Parties |-> [q \in Rounds |-> 0]]

Ask(c, q) ==
    /\ c \in Askers[q] /\ q \notin asked[c]
    /\ asked' = [asked EXCEPT ![c] = @ \cup {q}]
    /\ UNCHANGED <<released, delivered>>

Release(q) ==
    /\ q \notin released
    /\ \A c \in Askers[q] : q \in asked[c]
    /\ released' = released \cup {q}
    /\ UNCHANGED <<asked, delivered>>

Deliver(c, q) ==
    /\ q \in released
    /\ c \in Listeners[q] /\ delivered[c][q] = 0
    /\ delivered' = [delivered EXCEPT ![c][q] = 1]
    /\ UNCHANGED <<asked, released>>

BarrierNext ==
    \/ \E q \in Rounds : Release(q)
    \/ \E c \in Parties, q \in Rounds : Ask(c, q) \/ Deliver(c, q)

BarrierSpec == BarrierInit /\ [][BarrierNext]_barrierVars
===============================================================================
