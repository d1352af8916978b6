------------------------- MODULE SessionPoolProofs -------------------------
(***************************************************************************)
(* For any finite number of actors and sessions: the pool's invariant is    *)
(* inductive, no session is lost or leased twice, and the pop behind a      *)
(* permit never finds the vector empty.                                     *)
(***************************************************************************)
EXTENDS MCSessionPool, FiniteSetTheorems, TLAPS

---------------------------------------------------------------------------
(* Sequences *)

\* The rest of a queue without repetitions has all of it but its head.
LEMMA TailOfQueue ==
  ASSUME NEW S, NEW q \in Seq(S), q # <<>>, Distinct(q)
  PROVE  /\ Head(q) \in S
         /\ In(q, Head(q))
         /\ Tail(q) \in Seq(S)
         /\ Distinct(Tail(q))
         /\ \A b : In(Tail(q), b) <=> In(q, b) /\ b # Head(q)
<1>1. /\ Len(q) \in Nat \ {0}
      /\ Head(q) = q[1]
      /\ Head(q) \in S
      /\ Tail(q) \in Seq(S)
      /\ Len(Tail(q)) = Len(q) - 1
      /\ \A i \in 1..Len(Tail(q)) : Tail(q)[i] = q[i + 1]
  OBVIOUS
<1>2. In(q, Head(q))
  BY <1>1 DEF In
<1>3. Distinct(Tail(q))
  BY <1>1 DEF Distinct
<1>4. ASSUME NEW b, In(Tail(q), b) PROVE In(q, b) /\ b # Head(q)
  BY <1>1, <1>4 DEF In, Distinct
<1>5. ASSUME NEW b, In(q, b), b # Head(q) PROVE In(Tail(q), b)
  <2>1. PICK i \in 1..Len(q) : q[i] = b
    BY <1>5 DEF In
  <2>2. i - 1 \in 1..Len(Tail(q)) /\ Tail(q)[i - 1] = b
    BY <1>1, <1>5, <2>1
  <2> QED
    BY <2>2 DEF In
<1> QED
  BY <1>1, <1>2, <1>3, <1>4, <1>5

\* A queue joined at its end by a newcomer.
LEMMA AppendToQueue ==
  ASSUME NEW S, NEW q \in Seq(S), NEW a \in S, Distinct(q), ~In(q, a)
  PROVE  /\ Append(q, a) \in Seq(S)
         /\ Distinct(Append(q, a))
         /\ \A b : In(Append(q, a), b) <=> In(q, b) \/ b = a
<1>1. /\ Len(q) \in Nat
      /\ Append(q, a) \in Seq(S)
      /\ Len(Append(q, a)) = Len(q) + 1
      /\ \A i \in 1..Len(q) : Append(q, a)[i] = q[i]
      /\ Append(q, a)[Len(q) + 1] = a
  OBVIOUS
<1>2. Distinct(Append(q, a))
  BY <1>1 DEF Distinct, In
<1>3. \A b : In(Append(q, a), b) <=> In(q, b) \/ b = a
  BY <1>1 DEF In
<1> QED
  BY <1>1, <1>2, <1>3

\* A queue left by one of its members, wherever it stands.
LEMMA WithoutMember ==
  ASSUME NEW S, NEW q \in Seq(S), NEW a, Distinct(q), In(q, a)
  PROVE  /\ Without(q, a) \in Seq(S)
         /\ Distinct(Without(q, a))
         /\ \A b : In(Without(q, a), b) <=> In(q, b) /\ b # a
<1> DEFINE i == CHOOSE j \in 1..Len(q) : q[j] = a
           r == Without(q, a)
<1>1. i \in 1..Len(q) /\ q[i] = a
  BY DEF In
<1>2. Len(q) \in Nat /\ \A j \in 1..Len(q) : q[j] \in S
  OBVIOUS
<1>3. r = [j \in 1..(Len(q) - 1) |-> IF j < i THEN q[j] ELSE q[j + 1]]
  BY DEF Without
<1> HIDE DEF i, r
<1>4. /\ r \in Seq(S)
      /\ Len(r) = Len(q) - 1
      /\ \A j \in 1..Len(r) : r[j] = IF j < i THEN q[j] ELSE q[j + 1]
  BY <1>1, <1>2, <1>3
<1>5. Distinct(r)
  BY <1>1, <1>2, <1>4 DEF Distinct
<1>6. ASSUME NEW b, In(r, b) PROVE In(q, b) /\ b # a
  BY <1>1, <1>2, <1>4, <1>6 DEF In, Distinct
<1>7. ASSUME NEW b, In(q, b), b # a PROVE In(r, b)
  <2>1. PICK k \in 1..Len(q) : q[k] = b
    BY <1>7 DEF In
  <2>2. CASE k < i
    BY <1>1, <1>2, <1>4, <2>1, <2>2 DEF In
  <2>3. CASE k > i
    <3>1. k - 1 \in 1..Len(r) /\ r[k - 1] = b
      BY <1>1, <1>2, <1>4, <2>1, <2>3
    <3> QED
      BY <3>1 DEF In
  <2> QED
    BY <1>1, <1>7, <2>1, <2>2, <2>3
<1> QED
  BY <1>4, <1>5, <1>6, <1>7 DEF r

---------------------------------------------------------------------------
(* Counting *)

\* The sets that are counted are finite.
LEMMA FiniteCounts ==
  ASSUME TypeOK
  PROVE  /\ IsFiniteSet(Credits) /\ Cardinality(Credits) \in Nat
         /\ IsFiniteSet(idle) /\ Cardinality(idle) \in Nat
<1>1. Credits \subseteq Actors /\ idle \subseteq Sessions
  BY DEF Credits, TypeOK
<1>2. IsFiniteSet(Credits) /\ IsFiniteSet(idle)
  BY <1>1, FS_Subset, PoolAssumption
<1> QED
  BY <1>2, FS_CardinalityType

\* The permits in the semaphore and those of the actors without a session do
\* not change in number when one of these actors gives its permit up, whether
\* somebody waits for it or nobody does.
LEMMA ReleaseKeepsCredit ==
  ASSUME TypeOK, NoLostWakeup,
         NEW a \in Credits,
         NEW x \in {"out", "refused"},
         Release([pc EXCEPT ![a] = x])
  PROVE  /\ permits' \in Nat
         /\ queue' \in Seq(Actors)
         /\ pc' \in [Actors -> PCs]
         /\ NoLostWakeup'
         /\ \A b \in Actors : pc'[b] = "holding" <=> pc[b] = "holding"
         /\ permits' + Cardinality(Credits') = permits + Cardinality(Credits)
<1>0. /\ a \in Actors /\ pc[a] # "waiting" /\ pc[a] # "holding"
      /\ permits \in Nat /\ queue \in Seq(Actors) /\ pc \in [Actors -> PCs]
      /\ IsFiniteSet(Credits) /\ Cardinality(Credits) \in Nat
  BY FiniteCounts DEF TypeOK, Credits
<1>1. /\ IsFiniteSet(Credits \ {a})
      /\ Cardinality(Credits \ {a}) = Cardinality(Credits) - 1
  BY <1>0, FS_RemoveElement
<1>2. CASE queue = <<>>
  <2>1. permits' = permits + 1 /\ pc' = [pc EXCEPT ![a] = x] /\ queue' = queue
    BY <1>2 DEF Release
  <2>2. Credits' = Credits \ {a}
    BY <1>0, <2>1 DEF Credits
  <2>3. NoLostWakeup'
    BY <1>0, <1>2, <2>1 DEF NoLostWakeup
  <2>4. pc' \in [Actors -> PCs]
    BY <1>0, <2>1 DEF PCs
  <2>5. \A b \in Actors : pc'[b] = "holding" <=> pc[b] = "holding"
    BY <1>0, <2>1
  <2> QED
    BY <1>0, <1>1, <2>1, <2>2, <2>3, <2>4, <2>5
<1>3. CASE queue # <<>>
  <2> DEFINE h == Head(queue)
  <2>1. /\ queue' = Tail(queue)
        /\ pc' = [pc EXCEPT ![a] = x, ![h] = "assigned"]
        /\ permits' = permits
    BY <1>3 DEF Release
  <2>2. /\ h \in Actors
        /\ In(queue, h)
        /\ Tail(queue) \in Seq(Actors)
        /\ Distinct(Tail(queue))
        /\ \A b : In(Tail(queue), b) <=> In(queue, b) /\ b # h
    BY <1>0, <1>3, TailOfQueue DEF NoLostWakeup
  <2>3. pc[h] = "waiting" /\ h # a
    BY <1>0, <2>2 DEF NoLostWakeup
  <2> HIDE DEF h
  <2>4. Credits' = (Credits \ {a}) \union {h} /\ h \notin Credits \ {a}
    BY <1>0, <2>1, <2>2, <2>3 DEF Credits
  <2>5. Cardinality(Credits') = Cardinality(Credits)
    <3>1. Cardinality((Credits \ {a}) \union {h})
            = Cardinality(Credits \ {a}) + 1
      BY <1>1, <2>4, FS_AddElement
    <3> QED
      BY <1>0, <1>1, <2>4, <3>1
  <2>6. NoLostWakeup'
    <3>1. Distinct(queue') /\ (queue' # <<>> => permits' = 0)
      BY <1>3, <2>1, <2>2 DEF NoLostWakeup
    <3>2. \A b \in Actors : pc'[b] = "waiting" <=> In(queue', b)
      BY <1>0, <2>1, <2>2, <2>3 DEF NoLostWakeup
    <3> QED
      BY <3>1, <3>2 DEF NoLostWakeup
  <2>7. pc' \in [Actors -> PCs]
    BY <1>0, <2>1, <2>2 DEF PCs
  <2>8. \A b \in Actors : pc'[b] = "holding" <=> pc[b] = "holding"
    BY <1>0, <2>1, <2>2, <2>3
  <2> QED
    BY <1>0, <2>1, <2>2, <2>5, <2>6, <2>7, <2>8
<1> QED
  BY <1>2, <1>3

\* An actor that takes a permit from the semaphore has one more to its credit.
LEMMA TakeMovesCredit ==
  ASSUME IInv,
         NEW a \in Actors, pc[a] = "out",
         NEW x \in {"permitted", "probing"},
         permits > 0, permits' = permits - 1,
         pc' = [pc EXCEPT ![a] = x],
         UNCHANGED <<queue, idle, sess>>
  PROVE  IInv'
<1> USE DEF IInv, TypeOK
<1>1. TypeOK'
  BY DEF PCs
<1>2. SessionConservation'
  BY DEF SessionConservation
<1>3. NoLostWakeup'
  BY DEF NoLostWakeup
<1>4. PermitAccounting'
  <2>1. Credits' = Credits \union {a} /\ a \notin Credits
    BY DEF Credits
  <2>2. Cardinality(Credits') = Cardinality(Credits) + 1
    BY <2>1, FiniteCounts, FS_AddElement
  <2> QED
    BY <2>2, FiniteCounts DEF PermitAccounting
<1> QED
  BY <1>1, <1>2, <1>3, <1>4

\* An actor that owns no permit and does not gain one changes nothing.
LEMMA IdleMove ==
  ASSUME IInv,
         NEW a \in Actors, pc[a] \in {"out", "refused"},
         NEW x \in {"out", "refused"},
         pc' = [pc EXCEPT ![a] = x],
         UNCHANGED <<permits, queue, idle, sess>>
  PROVE  IInv'
<1> USE DEF IInv, TypeOK
<1>1. TypeOK' /\ SessionConservation' /\ NoLostWakeup'
  BY DEF PCs, SessionConservation, NoLostWakeup
<1>2. Credits' = Credits
  BY DEF Credits
<1> QED
  BY <1>1, <1>2 DEF PermitAccounting

\* An actor that gives a permit up without having a session keeps the books.
LEMMA ReleaseKeepsInv ==
  ASSUME IInv,
         NEW a \in Credits,
         NEW x \in {"out", "refused"},
         Release([pc EXCEPT ![a] = x]),
         UNCHANGED <<idle, sess>>
  PROVE  IInv'
<1>1. TypeOK' /\ NoLostWakeup'
  BY ReleaseKeepsCredit DEF IInv, TypeOK
<1>2. SessionConservation'
  BY ReleaseKeepsCredit DEF IInv, SessionConservation
<1>3. PermitAccounting'
  BY ReleaseKeepsCredit DEF IInv, PermitAccounting
<1> QED
  BY <1>1, <1>2, <1>3 DEF IInv

---------------------------------------------------------------------------
(* Invariance *)

LEMMA InitEstablishesInv == Init => IInv
<1> SUFFICES ASSUME Init PROVE IInv
  OBVIOUS
<1> USE DEF Init
<1>1. Cardinality(Sessions) \in Nat
  BY PoolAssumption, FS_CardinalityType
<1>2. TypeOK
  BY <1>1 DEF TypeOK, PCs
<1>3. SessionConservation
  BY PoolAssumption DEF SessionConservation
<1>4. NoLostWakeup
  BY DEF NoLostWakeup, In, Distinct
<1>5. PermitAccounting
  <2>1. Credits = {}
    BY DEF Credits
  <2> QED
    BY <1>1, <2>1, FS_EmptySet DEF PermitAccounting
<1> QED
  BY <1>2, <1>3, <1>4, <1>5 DEF IInv

\* A permit without a session is backed by a session in the vector.
LEMMA CreditIsCovered ==
  ASSUME IInv, NEW a \in Credits
  PROVE  idle # {}
<1>1. Cardinality(Credits) > 0
  BY FiniteCounts, FS_EmptySet DEF IInv
<1>2. Cardinality(idle) > 0
  BY <1>1, FiniteCounts DEF IInv, TypeOK, PermitAccounting
<1> QED
  BY <1>2, FS_EmptySet

LEMMA AcquireKeepsInv ==
  ASSUME IInv, NEW a \in Actors, Acquire(a) PROVE IInv'
<1>1. CASE permits > 0
  <2>1. /\ pc[a] = "out" /\ permits' = permits - 1
        /\ pc' = [pc EXCEPT ![a] = "permitted"]
        /\ UNCHANGED <<queue, idle, sess>>
    BY <1>1 DEF Acquire, IInv, TypeOK
  <2> QED
    BY <1>1, <2>1, TakeMovesCredit
<1>2. CASE permits = 0
  <2> USE DEF IInv, TypeOK
  <2>1. /\ pc[a] = "out" /\ permits' = 0
        /\ queue' = Append(queue, a)
        /\ pc' = [pc EXCEPT ![a] = "waiting"]
        /\ UNCHANGED <<permits, idle, sess>>
    BY <1>2 DEF Acquire
  <2>2. /\ queue' \in Seq(Actors)
        /\ Distinct(queue')
        /\ \A b : In(queue', b) <=> In(queue, b) \/ b = a
    BY <2>1, AppendToQueue DEF NoLostWakeup
  <2>3. TypeOK'
    BY <2>1, <2>2 DEF PCs
  <2>4. SessionConservation'
    BY <2>1 DEF SessionConservation
  <2>5. NoLostWakeup'
    BY <2>1, <2>2 DEF NoLostWakeup
  <2>6. PermitAccounting'
    <3>1. Credits' = Credits
      BY <2>1 DEF Credits
    <3> QED
      BY <2>1, <3>1 DEF PermitAccounting
  <2> QED
    BY <2>3, <2>4, <2>5, <2>6
<1> QED
  BY <1>1, <1>2 DEF IInv, TypeOK

LEMMA PollKeepsInv ==
  ASSUME IInv, NEW a \in Actors, Poll(a) PROVE IInv'
<1> USE DEF IInv, TypeOK, Poll
<1>1. TypeOK' /\ SessionConservation' /\ NoLostWakeup'
  BY DEF PCs, SessionConservation, NoLostWakeup
<1>2. Credits' = Credits
  BY DEF Credits
<1> QED
  BY <1>1, <1>2 DEF PermitAccounting

LEMMA AbandonKeepsInv ==
  ASSUME IInv, NEW a \in Actors, Abandon(a) PROVE IInv'
<1>1. CASE pc[a] = "waiting"
  <2> USE DEF IInv, TypeOK
  <2>1. /\ queue' = Without(queue, a)
        /\ pc' = [pc EXCEPT ![a] = "out"]
        /\ UNCHANGED <<permits, idle, sess>>
    BY <1>1 DEF Abandon
  <2>2. /\ queue' \in Seq(Actors)
        /\ Distinct(queue')
        /\ \A b : In(queue', b) <=> In(queue, b) /\ b # a
    BY <1>1, <2>1, WithoutMember DEF NoLostWakeup
  <2>3. TypeOK'
    BY <2>1, <2>2 DEF PCs
  <2>4. SessionConservation'
    BY <1>1, <2>1 DEF SessionConservation
  <2>5. NoLostWakeup'
    <3>1. queue # <<>>
      BY <1>1 DEF NoLostWakeup, In
    <3> QED
      BY <2>1, <2>2, <3>1 DEF NoLostWakeup
  <2>6. PermitAccounting'
    <3>1. Credits' = Credits
      BY <1>1, <2>1 DEF Credits
    <3> QED
      BY <2>1, <3>1 DEF PermitAccounting
  <2> QED
    BY <2>3, <2>4, <2>5, <2>6
<1>2. CASE pc[a] = "assigned"
  <2>1. a \in Credits
    BY <1>2 DEF Credits
  <2> QED
    BY <1>2, <2>1, ReleaseKeepsInv DEF Abandon
<1> QED
  BY <1>1, <1>2 DEF Abandon

LEMMA PopKeepsInv ==
  ASSUME IInv, NEW a \in Actors, Pop(a) PROVE IInv'
<1> USE DEF IInv, TypeOK
<1>1. pc[a] = "permitted" /\ a \in Credits
  BY DEF Pop, Credits
<1>2. PICK s \in idle : /\ idle' = idle \ {s}
                        /\ sess' = [sess EXCEPT ![a] = s]
                        /\ pc' = [pc EXCEPT ![a] = "holding"]
                        /\ UNCHANGED <<permits, queue>>
  BY <1>1, CreditIsCovered DEF Pop
<1>3. TypeOK'
  BY <1>2 DEF PCs
<1>4. SessionConservation'
  BY <1>1, <1>2, PoolAssumption DEF SessionConservation
<1>5. NoLostWakeup'
  BY <1>1, <1>2 DEF NoLostWakeup
<1>6. PermitAccounting'
  <2>1. Credits' = Credits \ {a}
    BY <1>1, <1>2 DEF Credits
  <2>2. Cardinality(Credits') = Cardinality(Credits) - 1
    BY <1>1, <2>1, FiniteCounts, FS_RemoveElement
  <2>3. Cardinality(idle') = Cardinality(idle) - 1
    BY <1>2, FiniteCounts, FS_RemoveElement
  <2> QED
    BY <1>2, <2>2, <2>3, FiniteCounts DEF PermitAccounting
<1> QED
  BY <1>3, <1>4, <1>5, <1>6

LEMMA DropSessionKeepsInv ==
  ASSUME IInv, NEW a \in Actors, DropSession(a) PROVE IInv'
<1> USE DEF IInv, TypeOK, DropSession
<1>1. /\ sess[a] \in Sessions /\ sess[a] \notin idle
      /\ a \notin Credits
  BY DEF SessionConservation, Credits
<1>2. TypeOK'
  BY <1>1 DEF PCs
<1>3. SessionConservation'
  BY <1>1, PoolAssumption DEF SessionConservation
<1>4. NoLostWakeup'
  BY DEF NoLostWakeup
<1>5. PermitAccounting'
  <2>1. Credits' = Credits \union {a}
    BY DEF Credits
  <2>2. Cardinality(Credits') = Cardinality(Credits) + 1
    BY <1>1, <2>1, FiniteCounts, FS_AddElement
  <2>3. Cardinality(idle') = Cardinality(idle) + 1
    BY <1>1, FiniteCounts, FS_AddElement
  <2> QED
    BY <2>2, <2>3, FiniteCounts DEF PermitAccounting
<1> QED
  BY <1>2, <1>3, <1>4, <1>5

\* The invariant is inductive.
LEMMA StepKeepsInv == IInv /\ [Next]_vars => IInv'
<1> SUFFICES ASSUME IInv, [Next]_vars PROVE IInv'
  OBVIOUS
<1>1. ASSUME NEW a \in Actors, Acquire(a) PROVE IInv'
  BY <1>1, AcquireKeepsInv
<1>2. ASSUME NEW a \in Actors, Poll(a) PROVE IInv'
  BY <1>2, PollKeepsInv
<1>3. ASSUME NEW a \in Actors, Abandon(a) PROVE IInv'
  BY <1>3, AbandonKeepsInv
<1>4. ASSUME NEW a \in Actors, Pop(a) PROVE IInv'
  BY <1>4, PopKeepsInv
<1>5. ASSUME NEW a \in Actors, TryAcquire(a) PROVE IInv'
  BY <1>5, TakeMovesCredit, IdleMove DEF TryAcquire
<1>6. ASSUME NEW a \in Actors, DropSession(a) PROVE IInv'
  BY <1>6, DropSessionKeepsInv
<1>7. ASSUME NEW a \in Actors, DropPermit(a) PROVE IInv'
  <2>1. a \in Credits
    BY <1>7 DEF DropPermit, Credits
  <2> QED
    BY <1>7, <2>1, ReleaseKeepsInv DEF DropPermit
<1>8. ASSUME NEW a \in Actors, Probe(a) PROVE IInv'
  BY <1>8, TakeMovesCredit, IdleMove DEF Probe
<1>9. ASSUME NEW a \in Actors, EndProbe(a) PROVE IInv'
  <2>1. a \in Credits
    BY <1>9 DEF EndProbe, Credits
  <2> QED
    BY <1>9, <2>1, ReleaseKeepsInv DEF EndProbe
<1>10. ASSUME NEW a \in Actors, Dismiss(a) PROVE IInv'
  BY <1>10, IdleMove DEF Dismiss
<1>11. CASE UNCHANGED vars
  BY <1>11 DEF vars, IInv, TypeOK, SessionConservation, NoLostWakeup,
               PermitAccounting, Credits
<1> QED
  BY <1>1, <1>2, <1>3, <1>4, <1>5, <1>6, <1>7, <1>8, <1>9, <1>10, <1>11
  DEF Next

LEMMA Invariance == Spec => []IInv
BY InitEstablishesInv, StepKeepsInv, PTL DEF Spec

---------------------------------------------------------------------------
(* Results *)

\* The variables of the pool keep their types.
THEOREM TypeCorrect == Spec => []TypeOK
<1>1. IInv => TypeOK
  BY DEF IInv
<1> QED
  BY <1>1, Invariance, PTL

\* Whatever the interleaving of checkouts, probes, cancellations and drops, no
\* session is lost and none is leased to two clients.
THEOREM SessionsConserved == Spec => []SessionConservation
<1>1. IInv => SessionConservation
  BY DEF IInv
<1> QED
  BY <1>1, Invariance, PTL

\* A permit never stays in the semaphore, nor leaves it, past a waiting task.
THEOREM WakeupsKept == Spec => []NoLostWakeup
<1>1. IInv => NoLostWakeup
  BY DEF IInv
<1> QED
  BY <1>1, Invariance, PTL

\* pop_session never reports PoolSaturated to the owner of a permit.
THEOREM PopSucceeds == Spec => []PopNeverFails
<1>1. IInv => PopNeverFails
  BY CreditIsCovered DEF PopNeverFails, Credits
<1> QED
  BY <1>1, Invariance, PTL

\* No newcomer takes a permit while a task waits for one.
THEOREM WaitersFirst == Spec => NoBarging
<1>1. IInv /\ [Next]_vars
      => [\A a \in Actors : EntersAtOnce(a) => queue = <<>>]_vars
  <2> SUFFICES ASSUME IInv, [Next]_vars,
                      NEW a \in Actors, EntersAtOnce(a), queue # <<>>
               PROVE  FALSE
    OBVIOUS
  <2> USE DEF EntersAtOnce
  <2>1. /\ permits = 0
        /\ pc \in [Actors -> PCs]
        /\ queue \in Seq(Actors)
    BY DEF IInv, TypeOK, NoLostWakeup
  <2>2. Head(queue) \in Actors /\ pc[Head(queue)] = "waiting"
    BY <2>1, TailOfQueue DEF IInv, NoLostWakeup
  <2>3. ASSUME NEW b \in Actors, NEW x \in {"out", "refused"},
               Release([pc EXCEPT ![b] = x])
        PROVE  FALSE
    BY <2>1, <2>2, <2>3 DEF Release
  <2>4. ASSUME NEW b \in Actors, Acquire(b) PROVE FALSE
    BY <2>1, <2>4 DEF Acquire
  <2>5. ASSUME NEW b \in Actors, Poll(b) PROVE FALSE
    BY <2>1, <2>5 DEF Poll
  <2>6. ASSUME NEW b \in Actors, Abandon(b) PROVE FALSE
    BY <2>1, <2>3, <2>6 DEF Abandon
  <2>7. ASSUME NEW b \in Actors, Pop(b) PROVE FALSE
    BY <2>1, <2>3, <2>7 DEF Pop
  <2>8. ASSUME NEW b \in Actors, TryAcquire(b) PROVE FALSE
    BY <2>1, <2>8 DEF TryAcquire
  <2>9. ASSUME NEW b \in Actors, DropSession(b) PROVE FALSE
    BY <2>1, <2>9 DEF DropSession
  <2>10. ASSUME NEW b \in Actors, DropPermit(b) PROVE FALSE
    BY <2>3, <2>10 DEF DropPermit
  <2>11. ASSUME NEW b \in Actors, Probe(b) PROVE FALSE
    BY <2>1, <2>11 DEF Probe
  <2>12. ASSUME NEW b \in Actors, EndProbe(b) PROVE FALSE
    BY <2>3, <2>12 DEF EndProbe
  <2>13. ASSUME NEW b \in Actors, Dismiss(b) PROVE FALSE
    BY <2>1, <2>13 DEF Dismiss
  <2>14. CASE UNCHANGED vars
    BY <2>14 DEF vars
  <2> QED
    BY <2>4, <2>5, <2>6, <2>7, <2>8, <2>9, <2>10, <2>11, <2>12, <2>13, <2>14
    DEF Next
<1> QED
  BY <1>1, Invariance, PTL DEF Spec, NoBarging

---------------------------------------------------------------------------
(* The pool implements exclusive leases *)

\* The mapping of MCSessionPool.
Wanting == {a \in Actors : pc[a] \in {"waiting", "assigned", "permitted"}}

\* What an actor wants and leases changes only as the pool's promise allows: a
\* permit that is handed over is still wanted by whoever waited for it.
LEMMA ReleaseKeepsWanting ==
  ASSUME IInv, NEW a \in Actors, NEW x \in PCs, pc[a] # "waiting",
         Release([pc EXCEPT ![a] = x])
  PROVE  Wanting' = IF x \in {"waiting", "assigned", "permitted"}
                    THEN Wanting \union {a} ELSE Wanting \ {a}
<1>1. pc \in [Actors -> PCs] /\ queue \in Seq(Actors)
  BY DEF IInv, TypeOK
<1>2. CASE queue = <<>>
  BY <1>1, <1>2 DEF Release, Wanting
<1>3. CASE queue # <<>>
  <2>1. Head(queue) \in Actors /\ pc[Head(queue)] = "waiting"
    BY <1>1, <1>3, TailOfQueue DEF IInv, NoLostWakeup
  <2>2. pc' = [[pc EXCEPT ![a] = x] EXCEPT ![Head(queue)] = "assigned"]
    BY <1>3 DEF Release
  <2> QED
    BY <1>1, <2>1, <2>2 DEF Wanting
<1> QED
  BY <1>2, <1>3

LEMMA StepIsLeaseStep == IInv /\ [Next]_vars => [Lease!Next]_(Lease!leaseVars)
<1> SUFFICES ASSUME IInv, [Next]_vars PROVE [Lease!Next]_(Lease!leaseVars)
  OBVIOUS
<1> USE DEF Lease!Next, Lease!leaseVars
<1>1. /\ pc \in [Actors -> PCs] /\ sess \in [Actors -> Sessions \union {None}]
      /\ None \notin Sessions /\ "out" \in PCs /\ "refused" \in PCs
  BY PoolAssumption DEF IInv, TypeOK, PCs
<1>2. ASSUME NEW a \in Actors, Acquire(a) \/ TryAcquire(a)
      PROVE  Lease!Ask(a) \/ UNCHANGED <<Wanting, sess>>
  BY <1>1, <1>2 DEF Acquire, TryAcquire, Lease!Ask, Wanting, IInv, SessionConservation
<1>3. ASSUME NEW a \in Actors, Poll(a) \/ Probe(a) \/ Dismiss(a)
      PROVE  UNCHANGED <<Wanting, sess>>
  BY <1>1, <1>3 DEF Poll, Probe, Dismiss, Wanting
<1>4. ASSUME NEW a \in Actors, Abandon(a) PROVE Lease!GiveUp(a)
  <2>1. a \in Wanting /\ UNCHANGED sess
    BY <1>4 DEF Abandon, Wanting
  <2>2. CASE pc[a] = "waiting"
    BY <1>1, <1>4, <2>1, <2>2 DEF Abandon, Lease!GiveUp, Wanting
  <2>3. CASE pc[a] = "assigned"
    BY <1>1, <1>4, <2>1, <2>3, ReleaseKeepsWanting DEF Abandon, Lease!GiveUp, Wanting
  <2> QED
    BY <1>4, <2>2, <2>3 DEF Abandon
<1>5. ASSUME NEW a \in Actors, Pop(a)
      PROVE  Lease!GiveUp(a) \/ \E s \in Sessions : Lease!Grant(a, s)
  <2>1. a \in Wanting /\ pc[a] = "permitted"
    BY <1>5 DEF Pop, Wanting
  <2>2. CASE idle = {}
    BY <1>1, <1>5, <2>1, <2>2, ReleaseKeepsWanting DEF Pop, Lease!GiveUp, Wanting
  <2>3. CASE idle # {}
    <3>1. PICK s \in idle : /\ sess' = [sess EXCEPT ![a] = s]
                            /\ pc' = [pc EXCEPT ![a] = "holding"]
      BY <1>5, <2>3 DEF Pop
    <3>2. s \in Sessions /\ \A b \in Actors : sess[b] # s
      BY DEF IInv, TypeOK, SessionConservation
    <3>3. Wanting' = Wanting \ {a}
      BY <1>1, <2>1, <3>1 DEF Wanting
    <3> QED
      BY <2>1, <3>1, <3>2, <3>3 DEF Lease!Grant, Wanting
  <2> QED
    BY <2>2, <2>3
<1>6. ASSUME NEW a \in Actors, DropSession(a) PROVE Lease!Return(a)
  BY <1>1, <1>6 DEF DropSession, Lease!Return, Wanting, IInv, SessionConservation
<1>7. ASSUME NEW a \in Actors, DropPermit(a) \/ EndProbe(a)
      PROVE  UNCHANGED <<Wanting, sess>>
  <2>1. a \notin Wanting /\ pc[a] # "waiting" /\ UNCHANGED sess
    BY <1>7 DEF DropPermit, EndProbe, Wanting
  <2>2. Release([pc EXCEPT ![a] = "out"])
    BY <1>7 DEF DropPermit, EndProbe
  <2>3. Wanting' = Wanting \ {a}
    BY <1>1, <2>1, <2>2, ReleaseKeepsWanting
  <2> QED
    BY <2>1, <2>3
<1>8. CASE UNCHANGED vars
  BY <1>8 DEF vars, Wanting
<1> QED
  BY <1>2, <1>3, <1>4, <1>5, <1>6, <1>7, <1>8 DEF Next, Wanting

\* The safety part of LeaseSpec: no two clients have one session, and no client
\* has two, with the queue, the cancelled checkouts and the two-step return of
\* inference/mod.rs in between.
THEOREM PoolImplementsLease == Spec => Lease!SafeSpec
<1>1. Init => Lease!Init
  BY DEF Init, Lease!Init
<1> QED
  BY <1>1, StepIsLeaseStep, Invariance, PTL DEF Spec, Lease!SafeSpec
=============================================================================
