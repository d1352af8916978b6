-------------------------- MODULE FfiHandlesProofs --------------------------
(***************************************************************************)
(* For any finite number of places and sessions: the C interface uses the   *)
(* pool as the pool's own specification allows, so that what is proved of    *)
(* the pool holds behind it; nothing is owned where the host has nothing, a  *)
(* refusal is justified, and a stream's session is loaded while it is used.  *)
(***************************************************************************)
EXTENDS FfiHandles, SessionPoolProofs

---------------------------------------------------------------------------
(* The pool behind the interface *)

\* Every call moves the pool as one of the pool's own actions does.
LEMMA CallsUsePool == [FfiNext]_ffiVars => [Next]_vars
<1> SUFFICES ASSUME [FfiNext]_ffiVars PROVE [Next]_vars
  OBVIOUS
<1>1. CASE EngineFree
  BY <1>1 DEF EngineFree
<1>2. ASSUME NEW a \in Actors, StreamNew(a) \/ TranscribeFile(a) PROVE Next
  BY <1>2 DEF StreamNew, TranscribeFile, Call, Next
<1>3. ASSUME NEW a \in Actors, PopSession(a) \/ ReturnNull(a) PROVE Next
  BY <1>3 DEF PopSession, ReturnNull, Next
<1>4. ASSUME NEW a \in Actors,
             \/ Opened(a) \/ Transcribed(a) \/ StreamCall(a) \/ StreamReturns(a)
             \/ Abort(a) \/ StreamFree(a)
      PROVE  UNCHANGED vars
  BY <1>4 DEF Opened, Transcribed, StreamCall, StreamReturns, Abort, StreamFree
<1>5. ASSUME NEW a \in Actors, PushBack(a) \/ GiveBack(a) PROVE Next
  BY <1>5 DEF PushBack, GiveBack, Next
<1>6. CASE UNCHANGED ffiVars
  BY <1>6 DEF ffiVars
<1> QED
  BY <1>1, <1>2, <1>3, <1>4, <1>5, <1>6 DEF FfiNext

---------------------------------------------------------------------------
(* The invariant *)

LEMMA FfiInitEstablishesInv == FfiInit => FInv
<1> SUFFICES ASSUME FfiInit PROVE FInv
  OBVIOUS
<1> USE DEF FfiInit
<1>1. IInv
  BY InitEstablishesInv
<1>2. FfiTypeOK
  BY DEF FfiTypeOK, Engines, Handles
<1>3. HandlesAgree
  BY DEF HandlesAgree, Places, Init
<1>4. MemoryAgrees
  BY DEF MemoryAgrees
<1> QED
  BY <1>1, <1>2, <1>3, <1>4 DEF FInv

\* Steps on the way into the pool: a permit, a session, a refusal.
LEMMA EnteringKeepsInv ==
  ASSUME FInv, IInv', NEW a \in Actors,
         StreamNew(a) \/ TranscribeFile(a) \/ PopSession(a) \/ ReturnNull(a)
  PROVE  FInv'
<1> USE DEF FInv, FfiTypeOK, Handles, Engines
<1>1. CASE StreamNew(a) \/ TranscribeFile(a)
  <2>1. /\ engine = "live" /\ handle[a] = "null"
        /\ UNCHANGED <<engine, memory, queue, sess>>
        /\ handle' \in {[handle EXCEPT ![a] = "opening"],
                        [handle EXCEPT ![a] = "transcribing"]}
        /\ pc' \in {[pc EXCEPT ![a] = "permitted"], [pc EXCEPT ![a] = "refused"]}
    BY <1>1 DEF StreamNew, TranscribeFile, Call, TryAcquire, Becomes
  <2>2. FfiTypeOK' /\ HandlesAgree'
    BY <2>1 DEF IInv, TypeOK, HandlesAgree, Places
  <2>3. MemoryAgrees'
    BY <2>1 DEF MemoryAgrees, Guards
  <2> QED
    BY <2>2, <2>3
<1>2. CASE PopSession(a)
  <2>1. /\ pc[a] = "permitted" /\ UNCHANGED <<queue, engine, handle, memory>>
        /\ pc' = [pc EXCEPT ![a] = "holding"]
    <3>1. a \in Credits
      BY <1>2 DEF PopSession, Pop, Credits
    <3> QED
      BY <1>2, <3>1, CreditIsCovered DEF PopSession, Pop, ffi
  <2>2. FfiTypeOK' /\ HandlesAgree'
    BY <2>1 DEF IInv, TypeOK, HandlesAgree, Places
  <2>3. engine = "live"
    BY <1>2, <2>1 DEF HandlesAgree, Places, PopSession, Running
  <2>4. MemoryAgrees'
    BY <2>1, <2>3 DEF MemoryAgrees
  <2> QED
    BY <2>2, <2>4
<1>3. CASE ReturnNull(a)
  <2>1. /\ UNCHANGED <<queue, sess, engine, memory>>
        /\ pc' = [pc EXCEPT ![a] = "out"]
        /\ handle' = [handle EXCEPT ![a] = "null"]
    BY <1>3 DEF ReturnNull, Dismiss, Becomes
  <2>2. FfiTypeOK' /\ HandlesAgree'
    BY <2>1 DEF IInv, TypeOK, HandlesAgree, Places
  <2>3. MemoryAgrees'
    BY <2>1 DEF MemoryAgrees, Guards
  <2> QED
    BY <2>2, <2>3
<1> QED
  BY <1>1, <1>2, <1>3

\* Steps that leave the pool alone.
LEMMA WorkingKeepsInv ==
  ASSUME FInv, IInv', NEW a \in Actors,
         \/ Opened(a) \/ Transcribed(a) \/ StreamCall(a) \/ StreamReturns(a)
         \/ Abort(a) \/ StreamFree(a)
  PROVE  FInv'
<1> USE DEF FInv, FfiTypeOK, Handles, Engines
<1>1. UNCHANGED <<vars, memory>>
  BY DEF Opened, Transcribed, StreamCall, StreamReturns, Abort, StreamFree
<1>2. CASE Abort(a)
  <2>1. engine' = "aborted" /\ UNCHANGED handle
    BY <1>2 DEF Abort
  <2>2. FfiTypeOK' /\ HandlesAgree'
    BY <1>1, <2>1 DEF HandlesAgree, vars
  <2>3. MemoryAgrees'
    BY <1>1, <2>1 DEF MemoryAgrees, Guards, vars
  <2> QED
    BY <2>2, <2>3
<1>3. CASE ~Abort(a)
  <2>1. PICK h \in {"live", "busy", "closing", "ending"} :
          /\ h = "ending" => handle[a] \in {"opening", "transcribing"}
          /\ handle' = [handle EXCEPT ![a] = h]
    BY <1>3 DEF Opened, Transcribed, StreamCall, StreamReturns, StreamFree, Becomes
  <2>2. engine' = engine
    BY <1>3 DEF Opened, Transcribed, StreamCall, StreamReturns, StreamFree
  <2>3. handle[a] \in {"live", "busy"} \/ pc[a] = "holding"
    BY <1>3 DEF Opened, Transcribed, StreamCall, StreamReturns, StreamFree
  <2>4. pc[a] = "holding"
    BY <2>3 DEF HandlesAgree, Places
  <2>5. FfiTypeOK' /\ HandlesAgree'
    BY <1>1, <2>1, <2>2, <2>4 DEF HandlesAgree, Places, vars
  <2>6. MemoryAgrees'
    BY <1>1, <2>2 DEF MemoryAgrees, Guards, vars
  <2> QED
    BY <2>5, <2>6
<1> QED
  BY <1>2, <1>3

\* Steps that take a call out of the pool.
LEMMA LeavingKeepsInv ==
  ASSUME FInv, IInv', NEW a \in Actors, PushBack(a) \/ GiveBack(a)
  PROVE  FInv'
<1> USE DEF FInv, FfiTypeOK, Handles, Engines
<1>1. CASE PushBack(a)
  <2>1. /\ pc[a] = "holding"
        /\ UNCHANGED <<queue, engine, handle>>
        /\ pc' = [pc EXCEPT ![a] = "returning"]
        /\ sess' = [sess EXCEPT ![a] = None]
        /\ memory' = Keep(engine, Guards \ {a})
        /\ engine # "aborted"
        /\ handle[a] \in {"ending", "closing"}
    BY <1>1 DEF PushBack, DropSession, Running
  <2>2. HandlesAgree'
    BY <2>1 DEF IInv, TypeOK, HandlesAgree, Places
  <2>3. Guards' = Guards \ {a}
    BY <2>1 DEF Guards, IInv, TypeOK
  <2>4. a \in Guards
    BY <2>1 DEF Guards, IInv, SessionConservation
  <2>5. FfiTypeOK' /\ MemoryAgrees'
    BY <2>1, <2>3, <2>4 DEF MemoryAgrees, Keep
  <2> QED
    BY <2>2, <2>5
<1>2. CASE GiveBack(a)
  <2>1. /\ pc[a] = "returning"
        /\ UNCHANGED <<queue, sess, engine, memory>>
        /\ pc' = [pc EXCEPT ![a] = "out"]
        /\ handle' = [handle EXCEPT ![a] = "null"]
    BY <1>2 DEF GiveBack, DropPermit, Release, Becomes, HandlesAgree
  <2>2. FfiTypeOK' /\ HandlesAgree'
    BY <2>1 DEF IInv, TypeOK, HandlesAgree, Places
  <2>3. MemoryAgrees'
    BY <2>1 DEF MemoryAgrees, Guards
  <2> QED
    BY <2>2, <2>3
<1> QED
  BY <1>1, <1>2

LEMMA FreeingKeepsInv ==
  ASSUME FInv, IInv', EngineFree
  PROVE  FInv'
<1> USE DEF FInv, FfiTypeOK, Handles, Engines
<1>1. /\ engine = "live" /\ engine' = "freed"
      /\ \A a \in Actors : handle[a] \notin {"opening", "transcribing", "ending"}
      /\ memory' = IF Guards # {} THEN memory ELSE {}
      /\ UNCHANGED <<vars, handle>>
  BY DEF EngineFree, Keep
<1>2. HandlesAgree'
  BY <1>1 DEF HandlesAgree, vars
<1>3. Guards' = Guards
  BY <1>1 DEF Guards, vars
<1>4. FfiTypeOK' /\ MemoryAgrees'
  BY <1>1, <1>3 DEF MemoryAgrees
<1> QED
  BY <1>2, <1>4

LEMMA FfiStepKeepsInv == FInv /\ [FfiNext]_ffiVars => FInv'
<1> SUFFICES ASSUME FInv, [FfiNext]_ffiVars PROVE FInv'
  OBVIOUS
<1>1. IInv'
  BY CallsUsePool, StepKeepsInv DEF FInv
<1>2. CASE EngineFree
  BY <1>1, <1>2, FreeingKeepsInv
<1>3. ASSUME NEW a \in Actors,
             StreamNew(a) \/ TranscribeFile(a) \/ PopSession(a) \/ ReturnNull(a)
      PROVE  FInv'
  BY <1>1, <1>3, EnteringKeepsInv
<1>4. ASSUME NEW a \in Actors,
             \/ Opened(a) \/ Transcribed(a) \/ StreamCall(a) \/ StreamReturns(a)
             \/ Abort(a) \/ StreamFree(a)
      PROVE  FInv'
  BY <1>1, <1>4, WorkingKeepsInv
<1>5. ASSUME NEW a \in Actors, PushBack(a) \/ GiveBack(a) PROVE FInv'
  BY <1>1, <1>5, LeavingKeepsInv
<1>6. CASE UNCHANGED ffiVars
  BY <1>1, <1>6 DEF ffiVars, ffi, vars, FInv, FfiTypeOK, HandlesAgree, MemoryAgrees, Guards
<1> QED
  BY <1>2, <1>3, <1>4, <1>5, <1>6 DEF FfiNext

LEMMA FfiInvariance == FfiSpec => []FInv
BY FfiInitEstablishesInv, FfiStepKeepsInv, PTL DEF FfiSpec

---------------------------------------------------------------------------
(* Results *)

\* The C interface implements the pool: whatever the host calls from however
\* many threads, the pool sees checkouts and dropped guards only, and all that
\* is proved of it holds for an embedded engine as well.
THEOREM FfiImplementsPool == FfiSpec => Spec
<1>1. FfiInit => Init
  BY DEF FfiInit
<1> QED
  BY <1>1, CallsUsePool, PTL DEF FfiSpec, Spec

\* A place where the host has nothing owns neither a session nor a permit.
THEOREM NothingLeft == FfiSpec => []NullOwnsNothing
<1>1. FInv => NullOwnsNothing
  BY DEF FInv, FfiTypeOK, Handles, HandlesAgree, Places, NullOwnsNothing
<1> QED
  BY <1>1, FfiInvariance, PTL

\* The session of a stream is loaded for as long as the stream lives, and
\* nothing stays loaded after the engine and the last stream.
THEOREM StreamsKeepSessions == FfiSpec => []LoadedWhileUsed
<1>1. FInv => LoadedWhileUsed
  <2> SUFFICES ASSUME FInv PROVE LoadedWhileUsed
    OBVIOUS
  <2>1. ASSUME NEW a \in Actors, sess[a] # None PROVE sess[a] \in memory
    BY <2>1 DEF FInv, IInv, TypeOK, MemoryAgrees, Guards
  <2>2. engine = "live" => memory = Sessions
    BY DEF FInv, MemoryAgrees
  <2>3. ASSUME engine = "freed", \A a \in Actors : handle[a] = "null"
        PROVE  memory = {}
    <3>1. \A a \in Actors : pc[a] = "out"
      BY <2>3 DEF FInv, HandlesAgree, Places
    <3>2. Guards = {}
      BY <3>1 DEF Guards, FInv, IInv, SessionConservation
    <3> QED
      BY <2>3, <3>2 DEF FInv, MemoryAgrees
  <2> QED
    BY <2>1, <2>2, <2>3 DEF LoadedWhileUsed
<1> QED
  BY <1>1, FfiInvariance, PTL

\* With no permit left, as many sessions are in use as there are.
LEMMA SaturatedMeansBusy ==
  ASSUME FInv, permits = 0, NEW a \in Actors, handle[a] = "null"
  PROVE  Cardinality({b \in Actors \ {a} : handle[b] # "null"})
           >= Cardinality(Sessions)
<1> DEFINE Busy == {b \in Actors \ {a} : handle[b] # "null"}
           Out == Sessions \ idle
<1> USE DEF FInv
<1>1. /\ IsFiniteSet(Guards) /\ IsFiniteSet(Credits) /\ IsFiniteSet(Busy)
      /\ IsFiniteSet(Out) /\ IsFiniteSet(idle)
  BY PoolAssumption, FS_Subset DEF Guards, Credits, IInv, TypeOK
<1>2. /\ Cardinality(Guards) \in Nat /\ Cardinality(Credits) \in Nat
      /\ Cardinality(Busy) \in Nat /\ Cardinality(Out) \in Nat
      /\ Cardinality(idle) \in Nat
  BY <1>1, FS_CardinalityType
<1>3. Cardinality(idle) = Cardinality(Credits)
  BY <1>2 DEF IInv, PermitAccounting
<1>4. Cardinality(Out) <= Cardinality(Guards)
  <2> DEFINE f == [b \in Guards |-> sess[b]]
  <2>1. f \in [Guards -> Out]
    BY DEF Guards, IInv, TypeOK, SessionConservation
  <2>2. \A s \in Out : \E b \in Guards : f[b] = s
    <3>1. \A s \in Out : \E b \in Actors : sess[b] = s /\ s # None
      BY PoolAssumption DEF IInv, SessionConservation
    <3> QED
      BY <3>1 DEF Guards
  <2>3. f \in Surjection(Guards, Out)
    BY <2>1, <2>2 DEF Surjection
  <2> HIDE DEF f
  <2> QED
    BY <1>1, <2>3, FS_Surjection
<1>5. Cardinality(Sessions) = Cardinality(idle) + Cardinality(Out)
  <2>1. Cardinality(Sessions \cap idle) = Cardinality(idle)
    <3>1. Sessions \cap idle = idle
      BY DEF IInv, TypeOK
    <3> QED
      BY <3>1
  <2>2. Cardinality(Out) = Cardinality(Sessions) - Cardinality(Sessions \cap idle)
    BY PoolAssumption, FS_Difference
  <2>3. Cardinality(Sessions) \in Nat
    BY PoolAssumption, FS_CardinalityType
  <2> HIDE DEF Out
  <2> QED
    BY <1>2, <2>1, <2>2, <2>3
<1>6. Cardinality(Credits \union Guards) = Cardinality(Credits) + Cardinality(Guards)
  <2>1. Credits \cap Guards = {}
    BY DEF Credits, Guards, IInv, SessionConservation
  <2> QED
    BY <1>1, <1>2, <2>1, FS_Union, FS_EmptySet
<1>7. Cardinality(Credits \union Guards) <= Cardinality(Busy)
  <2>1. \A b \in Actors : b \in Credits \union Guards => pc[b] # "out"
    BY DEF Credits, Guards, IInv, SessionConservation
  <2>2. \A b \in Actors : handle[b] = "null" => pc[b] = "out"
    BY DEF HandlesAgree, Places
  <2>3. Credits \union Guards \subseteq Busy
    BY <2>1, <2>2 DEF Credits, Guards
  <2> QED
    BY <1>1, <2>3, FS_Subset
<1> QED
  BY <1>2, <1>3, <1>4, <1>5, <1>6, <1>7

\* A refusal is never premature: with fewer streams and calls than sessions a
\* checkout succeeds.
THEOREM RefusalsJustified == FfiSpec => RefusedOnlyWhenBusy
<1>1. FInv /\ [FfiNext]_ffiVars
      => [\A a \in Actors : pc'[a] = "refused" /\ pc[a] # "refused" =>
            Cardinality({b \in Actors \ {a} : handle[b] # "null"})
              >= Cardinality(Sessions)]_ffiVars
  <2> SUFFICES ASSUME FInv, FfiNext,
                      NEW a \in Actors, pc'[a] = "refused", pc[a] # "refused"
               PROVE  Cardinality({b \in Actors \ {a} : handle[b] # "null"})
                        >= Cardinality(Sessions)
    BY DEF ffiVars, vars
  <2>0. pc \in [Actors -> PCs] /\ queue = <<>>
    BY DEF FInv, IInv, TypeOK, HandlesAgree
  <2>1. CASE \E b \in Actors : StreamNew(b) \/ TranscribeFile(b)
    <3>1. PICK b \in Actors : /\ handle[b] = "null" /\ TryAcquire(b)
      BY <2>1 DEF StreamNew, TranscribeFile, Call
    <3>2. b = a /\ permits = 0
      BY <2>0, <3>1 DEF TryAcquire
    <3> QED
      BY <3>1, <3>2, SaturatedMeansBusy
  <2>2. ASSUME NEW b \in Actors, PopSession(b) PROVE FALSE
    <3>1. b \in Credits
      BY <2>2 DEF PopSession, Pop, Credits
    <3>2. pc' = [pc EXCEPT ![b] = "holding"]
      BY <2>2, <3>1, CreditIsCovered DEF PopSession, Pop, FInv
    <3> QED
      BY <2>0, <3>2
  <2>3. ASSUME NEW b \in Actors, ReturnNull(b) PROVE FALSE
    BY <2>0, <2>3 DEF ReturnNull, Dismiss
  <2>4. ASSUME NEW b \in Actors,
               \/ Opened(b) \/ Transcribed(b) \/ StreamCall(b) \/ StreamReturns(b)
               \/ Abort(b) \/ StreamFree(b)
        PROVE  FALSE
    BY <2>4 DEF Opened, Transcribed, StreamCall, StreamReturns, Abort, StreamFree, vars
  <2>5. ASSUME NEW b \in Actors, PushBack(b) \/ GiveBack(b) PROVE FALSE
    BY <2>0, <2>5 DEF PushBack, GiveBack, DropSession, DropPermit, Release
  <2>6. CASE EngineFree
    BY <2>6 DEF EngineFree, vars
  <2> QED
    BY <2>1, <2>2, <2>3, <2>4, <2>5, <2>6 DEF FfiNext
<1> QED
  BY <1>1, FfiInvariance, PTL DEF FfiSpec, RefusedOnlyWhenBusy

=============================================================================
