--------------------------- MODULE MCSessionPool ---------------------------
(***************************************************************************)
(* TLC instances of the session pool, and its refinement of SessionLease.   *)
(***************************************************************************)
EXTENDS SessionPool

\* A client is wanting from its first poll until it has a session or gave up.
Lease == INSTANCE SessionLease WITH
    wanting <- {a \in Actors : pc[a] \in {"waiting", "assigned", "permitted"}},
    lease <- sess

\* The pool, with its queue, its cancellations and its two-step return,
\* implements exclusive leases, none of them withheld from a waiting client.
LeaseSpec == Lease!Spec

=============================================================================
