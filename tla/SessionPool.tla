---------------------------- MODULE SessionPool ----------------------------
(***************************************************************************)
(* The pool of pre-loaded inference sessions (inference/mod.rs): a counting *)
(* semaphore beside a mutex-protected vector of sessions.  A client first   *)
(* obtains a permit and only then pops a session; a guard going out of      *)
(* scope first pushes its session back and only then gives its permit up.   *)
(* Nothing but that order makes the pop safe, and nothing checks it.        *)
(*                                                                         *)
(* The semaphore is tokio's: a permit given up goes to the head of the      *)
(* waiters if there is one, under the semaphore's lock, so a waiter can own *)
(* a permit ("assigned") before its task is polled again.  A future that is *)
(* dropped in that state passes the permit on.                              *)
(***************************************************************************)
EXTENDS Naturals, FiniteSets, Sequences

CONSTANTS
    Actors,     \* tasks and threads that use the pool
    Sessions,   \* the sessions loaded by SessionPool::new
    None        \* no session

ASSUME PoolAssumption ==
    /\ IsFiniteSet(Actors)
    /\ IsFiniteSet(Sessions)
    /\ None \notin Sessions

VARIABLES
    permits,    \* permits available in the semaphore
    queue,      \* actors waiting for a permit, longest wait first
    idle,       \* sessions in the vector (which one a pop takes is immaterial)
    pc,         \* where each actor is
    sess        \* the session inside each actor's guard

vars == <<permits, queue, idle, pc, sess>>

\* out       not using the pool
\* waiting   queued in the semaphore
\* assigned  still suspended in acquire_owned, but its permit was assigned
\* permitted owns a permit, has not popped a session yet
\* holding   owns a SessionGuard
\* returning in Drop of the guard: session pushed, permit not yet given up
\* probing   owns the temporary permit of is_ready
\* refused   was told that the pool is saturated
PCs == {"out", "waiting", "assigned", "permitted", "holding", "returning",
        "probing", "refused"}

In(q, a) == \E i \in 1..Len(q) : q[i] = a

Distinct(q) == \A i, j \in 1..Len(q) : q[i] = q[j] => i = j

Without(q, a) ==
    LET i == CHOOSE j \in 1..Len(q) : q[j] = a
    IN  [j \in 1..(Len(q) - 1) |-> IF j < i THEN q[j] ELSE q[j + 1]]

Init ==
    /\ permits = Cardinality(Sessions)
    /\ queue = <<>>
    /\ idle = Sessions
    /\ pc = [a \in Actors |-> "out"]
    /\ sess = [a \in Actors |-> None]

(***************************************************************************)
(* The semaphore's release: the actors then are as in newPc, except that    *)
(* the longest waiter, if any, is assigned the permit.                      *)
(***************************************************************************)
Release(newPc) ==
    \/ /\ queue = <<>>
       /\ permits' = permits + 1
       /\ pc' = newPc
       /\ UNCHANGED queue
    \/ /\ queue # <<>>
       /\ queue' = Tail(queue)
       /\ pc' = [newPc EXCEPT ![Head(queue)] = "assigned"]
       /\ UNCHANGED permits

---------------------------------------------------------------------------
(* checkout().await *)

\* Mutation: the permit is taken without looking at the counter.
Acquire_Unchecked(a) ==
    /\ pc[a] = "out"
    /\ permits' = permits - 1
    /\ pc' = [pc EXCEPT ![a] = "permitted"]
    /\ UNCHANGED <<queue, idle, sess>>

\* Mutation: the last to come is the first to be served.
Acquire_Lifo(a) ==
    /\ pc[a] = "out"
    /\ \/ /\ permits > 0
          /\ permits' = permits - 1
          /\ pc' = [pc EXCEPT ![a] = "permitted"]
          /\ UNCHANGED queue
       \/ /\ permits = 0
          /\ queue' = <<a>> \o queue
          /\ pc' = [pc EXCEPT ![a] = "waiting"]
          /\ UNCHANGED permits
    /\ UNCHANGED <<idle, sess>>

\* First poll of acquire_owned: take a permit or join the queue.
Acquire(a) ==
    /\ pc[a] = "out"
    /\ \/ /\ permits > 0
          /\ permits' = permits - 1
          /\ pc' = [pc EXCEPT ![a] = "permitted"]
          /\ UNCHANGED queue
       \/ /\ permits = 0
          /\ queue' = Append(queue, a)
          /\ pc' = [pc EXCEPT ![a] = "waiting"]
          /\ UNCHANGED permits
    /\ UNCHANGED <<idle, sess>>

\* The woken task is polled and finds its permit.
Poll(a) ==
    /\ pc[a] = "assigned"
    /\ pc' = [pc EXCEPT ![a] = "permitted"]
    /\ UNCHANGED <<permits, queue, idle, sess>>

\* The future is dropped: its timeout elapsed, or its handler was cancelled.
\* The waiter leaves the queue; a permit assigned meanwhile is passed on.
Abandon(a) ==
    /\ \/ /\ pc[a] = "waiting"
          /\ queue' = Without(queue, a)
          /\ pc' = [pc EXCEPT ![a] = "out"]
          /\ UNCHANGED permits
       \/ /\ pc[a] = "assigned"
          /\ Release([pc EXCEPT ![a] = "out"])
    /\ UNCHANGED <<idle, sess>>

\* Mutation: the session is read but stays in the vector.
Pop_Copies(a) ==
    /\ pc[a] = "permitted"
    /\ \E s \in idle :
         /\ sess' = [sess EXCEPT ![a] = s]
         /\ pc' = [pc EXCEPT ![a] = "holding"]
         /\ UNCHANGED <<permits, queue, idle>>

\* pop_session, in checkout and in checkout_blocking.  An empty vector is
\* reported as PoolSaturated, and the permit is dropped with the error.
Pop(a) ==
    /\ pc[a] = "permitted"
    /\ IF idle = {}
       THEN Release([pc EXCEPT ![a] = "refused"]) /\ UNCHANGED <<idle, sess>>
       ELSE \E s \in idle :
              /\ idle' = idle \ {s}
              /\ sess' = [sess EXCEPT ![a] = s]
              /\ pc' = [pc EXCEPT ![a] = "holding"]
              /\ UNCHANGED <<permits, queue>>

\* checkout_blocking: try_acquire_owned, refused when there is no permit.
TryAcquire(a) ==
    /\ pc[a] = "out"
    /\ \/ /\ permits > 0
          /\ permits' = permits - 1
          /\ pc' = [pc EXCEPT ![a] = "permitted"]
       \/ /\ permits = 0
          /\ pc' = [pc EXCEPT ![a] = "refused"]
          /\ UNCHANGED permits
    /\ UNCHANGED <<queue, idle, sess>>

---------------------------------------------------------------------------
(* Drop of SessionGuard: the body pushes the session, then the permit field *)
(* is dropped.                                                              *)

\* Mutation: the session is dropped with its guard instead of being pushed.
DropSession_Forgets(a) ==
    /\ pc[a] = "holding"
    /\ sess' = [sess EXCEPT ![a] = None]
    /\ pc' = [pc EXCEPT ![a] = "returning"]
    /\ UNCHANGED <<permits, queue, idle>>

DropSession(a) ==
    /\ pc[a] = "holding"
    /\ idle' = idle \union {sess[a]}
    /\ sess' = [sess EXCEPT ![a] = None]
    /\ pc' = [pc EXCEPT ![a] = "returning"]
    /\ UNCHANGED <<permits, queue>>

\* Mutation: the freed permit is counted, and the waiters are left to notice.
DropPermit_NoHandOver(a) ==
    /\ pc[a] = "returning"
    /\ permits' = permits + 1
    /\ pc' = [pc EXCEPT ![a] = "out"]
    /\ UNCHANGED <<queue, idle, sess>>

DropPermit(a) ==
    /\ pc[a] = "returning"
    /\ Release([pc EXCEPT ![a] = "out"])
    /\ UNCHANGED <<idle, sess>>

---------------------------------------------------------------------------
(* is_ready, called by /ready and by /metrics: a permit is taken and dropped *)
(* again, or there is none and the answer is "not ready".                    *)

Probe(a) ==
    /\ pc[a] = "out"
    /\ \/ /\ permits > 0
          /\ permits' = permits - 1
          /\ pc' = [pc EXCEPT ![a] = "probing"]
       \/ /\ permits = 0
          /\ pc' = [pc EXCEPT ![a] = "refused"]
          /\ UNCHANGED permits
    /\ UNCHANGED <<queue, idle, sess>>

EndProbe(a) ==
    /\ pc[a] = "probing"
    /\ Release([pc EXCEPT ![a] = "out"])
    /\ UNCHANGED <<idle, sess>>

\* The caller takes note of the refusal.
Dismiss(a) ==
    /\ pc[a] = "refused"
    /\ pc' = [pc EXCEPT ![a] = "out"]
    /\ UNCHANGED <<permits, queue, idle, sess>>

Next == \E a \in Actors :
    \/ Acquire(a) \/ Poll(a) \/ Abandon(a) \/ Pop(a) \/ TryAcquire(a)
    \/ DropSession(a) \/ DropPermit(a)
    \/ Probe(a) \/ EndProbe(a) \/ Dismiss(a)

Spec == Init /\ [][Next]_vars

\* Tasks that are ready to run are run, and every guard is dropped in the end.
\* Nobody is obliged to enter the pool, to time out or to be cancelled.
Fairness == \A a \in Actors :
    /\ WF_vars(Poll(a))
    /\ WF_vars(Pop(a))
    /\ WF_vars(DropSession(a))
    /\ WF_vars(DropPermit(a))
    /\ WF_vars(EndProbe(a))
    /\ WF_vars(Dismiss(a))

FairSpec == Spec /\ Fairness

---------------------------------------------------------------------------
(* Properties *)

\* Actors that own a permit without having a session out of the vector.
Credits == {a \in Actors :
              pc[a] \in {"assigned", "permitted", "returning", "probing"}}

TypeOK ==
    /\ permits \in Nat
    /\ queue \in Seq(Actors)
    /\ idle \subseteq Sessions
    /\ pc \in [Actors -> PCs]
    /\ sess \in [Actors -> Sessions \union {None}]

\* A permit is a promise: whoever owns one finds a session in the vector, so
\* the PoolSaturated error inside pop_session is never returned.
PopNeverFails == \A a \in Actors : pc[a] = "permitted" => idle # {}

\* No session is ever lost or leased twice, whatever is cancelled when: each
\* is in the vector or in exactly one live guard.
SessionConservation ==
    /\ \A a \in Actors : pc[a] = "holding" <=> sess[a] # None
    /\ \A a, b \in Actors : sess[a] = sess[b] /\ sess[a] # None => a = b
    /\ \A s \in Sessions : s \in idle <=> \A a \in Actors : sess[a] # s

\* The queue holds exactly the suspended actors, each of them once, and
\* no permit lies in the semaphore while somebody waits for one (no lost
\* wake-up).
NoLostWakeup ==
    /\ \A a \in Actors : pc[a] = "waiting" <=> In(queue, a)
    /\ Distinct(queue)
    /\ queue # <<>> => permits = 0

\* The vector holds as many sessions as there are permits to be had or already
\* owned by an actor without a session.
PermitAccounting == Cardinality(idle) = permits + Cardinality(Credits)

IInv == TypeOK /\ SessionConservation /\ NoLostWakeup /\ PermitAccounting

\* An actor gets a permit without having waited for it.
EntersAtOnce(a) == pc[a] = "out" /\ pc'[a] \in {"permitted", "probing"}

\* A newcomer, be it a blocking caller or a readiness probe, never gets a
\* permit ahead of a task that is already waiting.
NoBarging == [][\A a \in Actors : EntersAtOnce(a) => queue = <<>>]_vars

\* A task that waits in checkout leaves the queue with a permit, unless its
\* timeout or its cancellation takes it out first: later arrivals, probes and
\* blocking callers cannot starve it.
NoStarvation == \A a \in Actors : pc[a] = "waiting" ~> pc[a] # "waiting"

=============================================================================
