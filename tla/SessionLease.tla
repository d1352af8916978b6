---------------------------- MODULE SessionLease ----------------------------
(***************************************************************************)
(* What the session pool promises to its clients: a session is leased to    *)
(* one client at a time, a client leases one session at a time, and no      *)
(* session is kept from a client that wants one.  Permits, queue and probes *)
(* are the pool's own business.                                             *)
(***************************************************************************)
CONSTANTS Actors, Sessions, None

VARIABLES
    wanting,    \* clients suspended in checkout
    lease       \* the session each client leases, or None

leaseVars == <<wanting, lease>>

Init ==
    /\ wanting = {}
    /\ lease = [a \in Actors |-> None]

Ask(a) ==
    /\ a \notin wanting
    /\ lease[a] = None
    /\ wanting' = wanting \union {a}
    /\ UNCHANGED lease

GiveUp(a) ==
    /\ a \in wanting
    /\ wanting' = wanting \ {a}
    /\ UNCHANGED lease

Grant(a, s) ==
    /\ a \in wanting
    /\ \A b \in Actors : lease[b] # s
    /\ wanting' = wanting \ {a}
    /\ lease' = [lease EXCEPT ![a] = s]

Return(a) ==
    /\ lease[a] # None
    /\ lease' = [lease EXCEPT ![a] = None]
    /\ UNCHANGED wanting

Next == \E a \in Actors :
    \/ Ask(a) \/ GiveUp(a) \/ Return(a)
    \/ \E s \in Sessions : Grant(a, s)

\* Leases end, and a session does not stay free while a client keeps wanting one.
Fairness == \A a \in Actors :
    /\ WF_leaseVars(Return(a))
    /\ WF_leaseVars(\E s \in Sessions : Grant(a, s))

\* Leases are exclusive.
SafeSpec == Init /\ [][Next]_leaseVars

Spec == SafeSpec /\ Fairness
=============================================================================
