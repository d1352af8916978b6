----------------------------- MODULE FfiHandles -----------------------------
(***************************************************************************)
(* The C interface (ffi.rs): a host loads an engine, opens streams,         *)
(* transcribes files and frees what it was given, from as many threads as   *)
(* it likes.  Each actor of the pool is here a place where the host keeps   *)
(* one stream, or from which it makes one blocking call at a time.          *)
(*                                                                         *)
(* The host keeps to the rules the functions state: what it passes is null  *)
(* or was returned and not yet freed, a stream is used by one call at a     *)
(* time, and no call is in progress on an engine that is being freed.       *)
(* Streams may outlive their engine, as their guards share the pool.  The   *)
(* arguments that are refused before anything happens (null, a path that is *)
(* absolute or not UTF-8) and the strings returned are left out.            *)
(***************************************************************************)
EXTENDS SessionPool

VARIABLES
    engine,     \* the engine's handle
    handle,     \* what the host has, or is doing, in each place
    memory      \* the sessions that are loaded

ffi == <<engine, handle, memory>>
ffiVars == <<vars, ffi>>

\* null          nothing (the last call may have returned NULL)
\* opening       nihostt_stream_new
\* live          a stream
\* busy          nihostt_stream_process_chunk or nihostt_stream_flush on it
\* transcribing  nihostt_transcribe_file
\* ending        a call on the engine that has still to give its session back
\* closing       nihostt_stream_free
Handles == {"null", "opening", "live", "busy", "transcribing", "ending", "closing"}

\* live, freed, or the process was aborted
Engines == {"live", "freed", "aborted"}

FfiInit ==
    /\ Init
    /\ engine = "live"
    /\ handle = [a \in Actors |-> "null"]
    /\ memory = Sessions

Becomes(a, h) == handle' = [handle EXCEPT ![a] = h]

Running == engine # "aborted"

Guards == {a \in Actors : sess[a] # None}

---------------------------------------------------------------------------
(* Calls on the engine *)

\* A call checks a session out without waiting.
Call(a, what) ==
    /\ engine = "live"
    /\ handle[a] = "null"
    /\ TryAcquire(a)
    /\ Becomes(a, what)
    /\ UNCHANGED <<engine, memory>>

StreamNew(a)      == Call(a, "opening")
TranscribeFile(a) == Call(a, "transcribing")

PopSession(a) == Running /\ Pop(a) /\ UNCHANGED ffi

\* The checkout failed: the call returns NULL.
ReturnNull(a) ==
    /\ Running
    /\ Dismiss(a)
    /\ Becomes(a, "null")
    /\ UNCHANGED <<engine, memory>>

\* Mutation: a stream that could not be made keeps its guard.
Opened_Leaks(a) ==
    /\ Running
    /\ handle[a] = "opening"
    /\ pc[a] = "holding"
    /\ Becomes(a, "live") \/ Becomes(a, "null")
    /\ UNCHANGED <<vars, engine, memory>>

\* create_streaming_session: the stream is boxed, or its guard goes back.
Opened(a) ==
    /\ Running
    /\ handle[a] = "opening"
    /\ pc[a] = "holding"
    /\ Becomes(a, "live") \/ Becomes(a, "ending")
    /\ UNCHANGED <<vars, engine, memory>>

\* The file was transcribed, or not: the guard goes back in any case.
Transcribed(a) ==
    /\ Running
    /\ handle[a] = "transcribing"
    /\ pc[a] = "holding"
    /\ Becomes(a, "ending")
    /\ UNCHANGED <<vars, engine, memory>>

\* What is left of the sessions once nothing refers to the vector: those that
\* are leased.  The engine refers to it, and each guard until it is dropped.
Keep(eng, guards) ==
    IF eng = "live" \/ guards # {} THEN memory ELSE {}

\* Mutation: the sessions are the engine's.
EngineFree_Unloads ==
    /\ engine = "live"
    /\ \A a \in Actors : handle[a] \notin {"opening", "transcribing", "ending"}
    /\ engine' = "freed"
    /\ memory' = {}
    /\ UNCHANGED <<vars, handle>>

\* nihostt_engine_free, while no call uses the engine.
EngineFree ==
    /\ engine = "live"
    /\ \A a \in Actors : handle[a] \notin {"opening", "transcribing", "ending"}
    /\ engine' = "freed"
    /\ memory' = Keep("freed", Guards)
    /\ UNCHANGED <<vars, handle>>

---------------------------------------------------------------------------
(* Calls on a stream *)

\* process_chunk has to be given a valid engine, flush has not.
StreamCall(a) ==
    /\ Running
    /\ handle[a] = "live"
    /\ Becomes(a, "busy")
    /\ UNCHANGED <<vars, engine, memory>>

\* A result, NULL for an error, or for a panic caught by process_chunk: the
\* stream goes on with its session.
StreamReturns(a) ==
    /\ Running
    /\ handle[a] = "busy"
    /\ Becomes(a, "live")
    /\ UNCHANGED <<vars, engine, memory>>

\* A panic that meets the edge of an extern "C" function aborts the process:
\* flush and transcribe_file do not catch it.
Abort(a) ==
    /\ Running
    /\ handle[a] \in {"busy", "transcribing"}
    /\ pc[a] = "holding"
    /\ engine' = "aborted"
    /\ UNCHANGED <<vars, handle, memory>>

\* nihostt_stream_free.
StreamFree(a) ==
    /\ Running
    /\ handle[a] = "live"
    /\ Becomes(a, "closing")
    /\ UNCHANGED <<vars, engine, memory>>

\* The guard is dropped: the session is pushed, the reference to the vector is
\* dropped, and with it the vector if it was the last.
PushBack(a) ==
    /\ Running
    /\ handle[a] \in {"ending", "closing"}
    /\ DropSession(a)
    /\ memory' = Keep(engine, Guards \ {a})
    /\ UNCHANGED <<engine, handle>>

\* Mutation: the call returns before its guard's permit is given up.
GiveBack_Late(a) ==
    /\ Running
    /\ \/ /\ handle[a] \in {"ending", "closing"}
          /\ pc[a] = "returning"
          /\ Becomes(a, "null")
          /\ UNCHANGED <<vars, engine, memory>>
       \/ /\ handle[a] = "null"
          /\ DropPermit(a)
          /\ UNCHANGED ffi

\* Its permit is given up, and the call returns.
GiveBack(a) ==
    /\ Running
    /\ handle[a] \in {"ending", "closing"}
    /\ DropPermit(a)
    /\ Becomes(a, "null")
    /\ UNCHANGED <<engine, memory>>

FfiNext ==
    \/ EngineFree
    \/ \E a \in Actors :
         \/ StreamNew(a) \/ TranscribeFile(a) \/ PopSession(a) \/ ReturnNull(a)
         \/ Opened(a) \/ Transcribed(a) \/ StreamCall(a) \/ StreamReturns(a)
         \/ Abort(a) \/ StreamFree(a) \/ PushBack(a) \/ GiveBack(a)

FfiSpec == FfiInit /\ [][FfiNext]_ffiVars

---------------------------------------------------------------------------
(* Properties *)

FfiTypeOK ==
    /\ engine \in Engines
    /\ handle \in [Actors -> Handles]
    /\ memory \in {Sessions, {}}

\* A host that has no stream and no call in progress owns nothing of the pool:
\* whichever way its last call returned, NULL included, the session and the
\* permit are back.
NullOwnsNothing == \A a \in Actors : handle[a] = "null" => pc[a] = "out"

\* NULL for a saturated pool means that as many streams and calls exist as
\* there are sessions: once nihostt_stream_free has returned, its session can
\* be had, from every thread.
RefusedOnlyWhenBusy ==
    [][\A a \in Actors : pc'[a] = "refused" /\ pc[a] # "refused" =>
         Cardinality({b \in Actors \ {a} : handle[b] # "null"})
           >= Cardinality(Sessions)]_ffiVars

\* A stream never outlives its session, not even when the engine is freed
\* first; and once the engine and all streams are gone nothing stays loaded.
LoadedWhileUsed ==
    /\ \A a \in Actors : sess[a] # None => sess[a] \in memory
    /\ engine = "live" => memory = Sessions
    /\ engine = "freed" /\ (\A a \in Actors : handle[a] = "null") => memory = {}

\* Where a call can be in the pool, by what the host is doing in its place.
Places == [null         |-> {"out"},
           opening      |-> {"permitted", "refused", "holding"},
           transcribing |-> {"permitted", "refused", "holding"},
           live         |-> {"holding"},
           busy         |-> {"holding"},
           ending       |-> {"holding", "returning"},
           closing      |-> {"holding", "returning"}]

HandlesAgree ==
    /\ queue = <<>>
    /\ \A a \in Actors : pc[a] \in Places[handle[a]]
    /\ engine = "freed" =>
         \A a \in Actors : handle[a] \notin {"opening", "transcribing", "ending"}

MemoryAgrees ==
    /\ engine = "live" \/ Guards # {} => memory = Sessions
    /\ engine = "freed" /\ Guards = {} => memory = {}

FInv == IInv /\ FfiTypeOK /\ HandlesAgree /\ MemoryAgrees
=============================================================================
