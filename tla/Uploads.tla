------------------------------- MODULE Uploads -------------------------------
(***************************************************************************)
(* The two upload handlers of server/http.rs: transcribe_handler answers    *)
(* once, transcribe_stream_handler answers with a stream of events.  Both   *)
(* write the upload to a temporary file, wait for a pooled session, infer   *)
(* on a blocking thread and remove the file.                                *)
(*                                                                         *)
(* A handler is a future: when its client disconnects the server drops it   *)
(* at the await it is suspended in and nothing after that await is run.  A  *)
(* blocking job is not dropped with the future that waits for it, and the   *)
(* task the stream handler spawns is not dropped at all.                    *)
(*                                                                         *)
(* Audio is measured in seconds, an upload is its length, and a window is   *)
(* transcribed to a text, to nothing or to an error.                        *)
(***************************************************************************)
EXTENDS Naturals, FiniteSets, Sequences

CONSTANTS
    Rest,       \* requests to /v1/transcribe
    Sse,        \* requests to /v1/transcribe/stream
    PoolSize,   \* sessions in the pool
    Capacity,   \* events the channel of a stream holds
    Chunk,      \* length of a window
    Hop,        \* distance between the starts of two windows
    Lengths     \* lengths of the uploaded audio

ASSUME UploadsAssumption ==
    /\ IsFiniteSet(Rest) /\ IsFiniteSet(Sse)
    /\ Rest \intersect Sse = {}
    /\ PoolSize \in Nat \ {0}
    /\ Capacity \in Nat \ {0}
    /\ Hop \in Nat \ {0} /\ Chunk \in Nat /\ Hop <= Chunk
    /\ Lengths \subseteq Nat

Reqs == Rest \union Sse

VARIABLES
    pc,         \* where the handler, then the spawned task, of a request is
    job,        \* its blocking job
    file,       \* whether its temporary file exists
    held,       \* whether its job leases a session
    client,     \* whether its client reads the response
    length,     \* seconds of decoded audio
    at,         \* where the next window starts
    texts,      \* texts found so far
    pending,    \* events the job has still to put into the channel
    channel,    \* events in the channel
    got,        \* history: events the client received
    upTo,       \* history: seconds transcribed without a gap
    ending      \* history: how the windows ended

window == <<length, at, texts, pending, upTo, ending>>
vars == <<pc, job, file, held, client, channel, got, window>>

\* receiving, writing      the multipart body, the temporary file
\* decoding, resampling    blocking jobs of the stream handler
\* checkout, inferring     as their names say
\* done, dropped           the end, that of a dropped future
\* crashed                 the resampling job panicked
PCs == {"receiving", "writing", "decoding", "resampling", "checkout",
        "inferring", "done", "dropped", "crashed"}

Jobs == {"none", "running", "ok", "err", "panic"}

Text(n)  == [kind |-> "text", upTo |-> n]
Final(n) == [kind |-> "final", upTo |-> n]
Error    == [kind |-> "error", upTo |-> 0]

Smaller(a, b) == IF a < b THEN a ELSE b

Init ==
    /\ pc = [r \in Reqs |-> "receiving"]
    /\ job = [r \in Reqs |-> "none"]
    /\ file = [r \in Reqs |-> FALSE]
    /\ held = [r \in Reqs |-> FALSE]
    /\ client = [r \in Reqs |-> "reading"]
    /\ length \in [Reqs -> Lengths]
    /\ at = [r \in Reqs |-> 0]
    /\ texts = [r \in Reqs |-> 0]
    /\ pending = [r \in Reqs |-> <<>>]
    /\ channel = [r \in Reqs |-> <<>>]
    /\ got = [r \in Reqs |-> <<>>]
    /\ upTo = [r \in Reqs |-> 0]
    /\ ending = [r \in Reqs |-> "none"]

Goto(r, where) == pc' = [pc EXCEPT ![r] = where]
Run(r)         == job' = [job EXCEPT ![r] = "running"]
NoJob(r)       == job' = [job EXCEPT ![r] = "none"]
Create(r)      == file' = [file EXCEPT ![r] = TRUE]
Remove(r)      == file' = [file EXCEPT ![r] = FALSE]
Release(r)     == held' = [held EXCEPT ![r] = FALSE]

---------------------------------------------------------------------------
(* Both handlers: the body and the file *)

\* A body without a usable file field is refused.  Otherwise a file that did
\* not exist is created and written to.
Receive(r) ==
    /\ pc[r] = "receiving"
    /\ \/ Goto(r, "done") /\ UNCHANGED file
       \/ Goto(r, "writing") /\ Create(r)
    /\ UNCHANGED <<job, held, client, channel, got, window>>

\* The upload is on disk, or could not be written and is removed.
Write(r) ==
    /\ pc[r] = "writing"
    /\ \/ Goto(r, "done") /\ Remove(r) /\ UNCHANGED job
       \/ r \in Rest /\ Goto(r, "checkout") /\ UNCHANGED <<file, job>>
       \/ r \in Sse /\ Goto(r, "decoding") /\ Run(r) /\ UNCHANGED file
    /\ UNCHANGED <<held, client, channel, got, window>>

\* The job that transcribes the windows of a stream is at work.
AtWork(r) ==
    /\ r \in Sse
    /\ pc[r] = "inferring"
    /\ job[r] = "running"

\* It is at the head of its loop, and there is a window left.
MayTranscribe(r) ==
    /\ pending[r] = <<>>
    /\ ending[r] = "none"
    /\ at[r] < length[r]

\* A blocking job ends; a session it was given goes back with its closure.
\* The job of a stream ends here only if the inference panics.
JobEnds(r) ==
    /\ job[r] = "running"
    /\ \E how \in {"ok", "err", "panic"} :
         /\ AtWork(r) => how = "panic" /\ MayTranscribe(r)
         /\ job' = [job EXCEPT ![r] = IF pc[r] = "dropped" THEN "none" ELSE how]
    /\ Release(r)
    /\ ending' = IF AtWork(r) THEN [ending EXCEPT ![r] = "panic"] ELSE ending
    /\ UNCHANGED <<pc, file, client, channel, got, length, at, texts, upTo, pending>>

\* The end of the timed wait for a session: one is leased.
Lend(r) ==
    /\ pc[r] = "checkout"
    /\ Cardinality({s \in Reqs : held[s]}) < PoolSize
    /\ held' = [held EXCEPT ![r] = TRUE]
    /\ Goto(r, "inferring")
    /\ Run(r)
    /\ UNCHANGED <<file, client, channel, got, window>>

\* What a send does to the channel: nothing once the receiver was dropped.
Sent(r, events) ==
    channel' = IF client[r] = "gone" THEN channel
               ELSE [channel EXCEPT ![r] = @ \o events]

\* Mutation: a request that got no session returns at once.
Refuse_LeavesFile(r) ==
    /\ pc[r] = "checkout"
    /\ Goto(r, "done")
    /\ IF r \in Sse THEN Sent(r, <<Error>>) ELSE UNCHANGED channel
    /\ UNCHANGED <<job, file, held, client, got, window>>

\* None is: the answer is 503, or an error event and the end of the stream.
Refuse(r) ==
    /\ pc[r] = "checkout"
    /\ Goto(r, "done")
    /\ Remove(r)
    /\ IF r \in Sse THEN Sent(r, <<Error>>) ELSE UNCHANGED channel
    /\ UNCHANGED <<job, held, client, got, window>>

---------------------------------------------------------------------------
(* transcribe_handler *)

\* The job was joined: the file is removed and the request answered.
Answer(r) ==
    /\ r \in Rest
    /\ pc[r] = "inferring"
    /\ job[r] \in {"ok", "err", "panic"}
    /\ Remove(r)
    /\ Goto(r, "done")
    /\ NoJob(r)
    /\ UNCHANGED <<held, client, channel, got, window>>

---------------------------------------------------------------------------
(* transcribe_stream_handler *)

\* The audio was decoded, or not; at 16 kHz nothing is resampled.  With the
\* audio at hand the task is spawned and the response begun.
Decoded(r) ==
    /\ pc[r] = "decoding"
    /\ \/ /\ job[r] \in {"err", "panic"}
          /\ Remove(r)
          /\ Goto(r, "done")
          /\ NoJob(r)
       \/ /\ job[r] = "ok"
          /\ \/ Goto(r, "checkout") /\ NoJob(r)
             \/ Goto(r, "resampling") /\ Run(r)
          /\ UNCHANGED file
    /\ UNCHANGED <<held, client, channel, got, window>>

\* A resampling job that panicked is the one failure that leaves the file.
Resampled(r) ==
    /\ pc[r] = "resampling"
    /\ \/ job[r] = "panic" /\ Goto(r, "crashed") /\ UNCHANGED file
       \/ job[r] = "err" /\ Goto(r, "done") /\ Remove(r)
       \/ job[r] = "ok" /\ Goto(r, "checkout") /\ UNCHANGED file
    /\ NoJob(r)
    /\ UNCHANGED <<held, client, channel, got, window>>

\* Mutation: the overlap is left out between windows instead.
NextWindow_SkipsOverlap(r) == at[r] + Chunk + (Chunk - Hop)

NextWindow(r) == at[r] + Hop

\* One window: no text, a text that is sent at once, or an error that ends the
\* loop.  The end of the loop is followed by the final event in any case.
Window(r) ==
    /\ AtWork(r)
    /\ MayTranscribe(r)
    /\ \/ /\ at' = [at EXCEPT ![r] = NextWindow(r)]
          /\ upTo' = [upTo EXCEPT ![r] =
                        IF at[r] <= @ THEN Smaller(at[r] + Chunk, length[r]) ELSE @]
          /\ \/ UNCHANGED <<texts, pending>>
             \/ /\ texts' = [texts EXCEPT ![r] = @ + 1]
                /\ pending' = [pending EXCEPT ![r] = <<Text(texts[r] + 1)>>]
          /\ UNCHANGED ending
       \/ /\ pending' = [pending EXCEPT ![r] = <<Error, Final(texts[r])>>]
          /\ ending' = [ending EXCEPT ![r] = "error"]
          /\ UNCHANGED <<at, texts, upTo>>
    /\ UNCHANGED <<pc, job, file, held, client, channel, got, length>>

LastWindow(r) ==
    /\ AtWork(r)
    /\ pending[r] = <<>>
    /\ ending[r] = "none"
    /\ at[r] >= length[r]
    /\ pending' = [pending EXCEPT ![r] = <<Final(texts[r])>>]
    /\ ending' = [ending EXCEPT ![r] = "whole"]
    /\ UNCHANGED <<pc, job, file, held, client, channel, got, length, at, texts, upTo>>

\* Mutation: the channel has no bound.
Send_Unbounded(r) ==
    /\ AtWork(r)
    /\ pending[r] # <<>>
    /\ Sent(r, <<Head(pending[r])>>)
    /\ pending' = [pending EXCEPT ![r] = Tail(@)]
    /\ UNCHANGED <<pc, job, file, held, client, got, length, at, texts, upTo, ending>>

\* blocking_send, for as long as the channel is full and its receiver alive.
\* A text that cannot be sent ends the loop.
Send(r) ==
    /\ AtWork(r)
    /\ pending[r] # <<>>
    /\ Len(channel[r]) < Capacity \/ client[r] = "gone"
    /\ Sent(r, <<Head(pending[r])>>)
    /\ IF client[r] = "gone" /\ Head(pending[r]).kind = "text"
       THEN /\ pending' = [pending EXCEPT ![r] = <<Final(texts[r])>>]
            /\ ending' = [ending EXCEPT ![r] = "unread"]
       ELSE /\ pending' = [pending EXCEPT ![r] = Tail(@)]
            /\ UNCHANGED ending
    /\ UNCHANGED <<pc, job, file, held, client, got, length, at, texts, upTo>>

\* Mutation: the session stays with the job's result.
Finish_KeepsLease(r) ==
    /\ AtWork(r)
    /\ pending[r] = <<>>
    /\ ending[r] # "none"
    /\ job' = [job EXCEPT ![r] = "ok"]
    /\ UNCHANGED <<pc, file, held, client, channel, got, window>>

\* The closure ends, and with it the lease and the sending side.
Finish(r) ==
    /\ AtWork(r)
    /\ pending[r] = <<>>
    /\ ending[r] # "none"
    /\ job' = [job EXCEPT ![r] = "ok"]
    /\ Release(r)
    /\ UNCHANGED <<pc, file, client, channel, got, window>>

\* Mutation: a job that panicked takes the task with it.
Cleanup_OnlyOk(r) ==
    /\ r \in Sse
    /\ pc[r] = "inferring"
    /\ job[r] = "ok"
    /\ Remove(r)
    /\ Goto(r, "done")
    /\ NoJob(r)
    /\ UNCHANGED <<held, client, channel, got, window>>

\* The task joins its job and removes the file.
Cleanup(r) ==
    /\ r \in Sse
    /\ pc[r] = "inferring"
    /\ job[r] \in {"ok", "panic"}
    /\ Remove(r)
    /\ Goto(r, "done")
    /\ NoJob(r)
    /\ UNCHANGED <<held, client, channel, got, window>>

---------------------------------------------------------------------------
(* The client *)

\* It takes an event of the stream.
Take(r) ==
    /\ client[r] = "reading"
    /\ channel[r] # <<>>
    /\ got' = [got EXCEPT ![r] = Append(@, Head(channel[r]))]
    /\ channel' = [channel EXCEPT ![r] = Tail(@)]
    /\ UNCHANGED <<pc, job, file, held, client, window>>

Turn(r) ==
    /\ client[r] # "gone"
    /\ client' = [client EXCEPT ![r] = IF @ = "reading" THEN "stalled" ELSE "reading"]
    /\ UNCHANGED <<pc, job, file, held, channel, got, window>>

\* The states in which the request is served by the handler's future.
InHandler(r) ==
    pc[r] \in {"receiving", "writing", "decoding", "resampling"}
              \union IF r \in Rest THEN {"checkout", "inferring"} ELSE {}

\* The client disconnects.  The future is dropped, the receiver of a stream is.
Disconnect(r) ==
    /\ client[r] # "gone"
    /\ client' = [client EXCEPT ![r] = "gone"]
    /\ channel' = [channel EXCEPT ![r] = <<>>]
    /\ IF InHandler(r)
       THEN /\ Goto(r, "dropped")
            /\ job' = [job EXCEPT ![r] = IF @ = "running" THEN @ ELSE "none"]
       ELSE UNCHANGED <<pc, job>>
    /\ UNCHANGED <<file, held, got, window>>

Serve(r) ==
    \/ Receive(r) \/ Write(r) \/ JobEnds(r) \/ Lend(r) \/ Refuse(r) \/ Answer(r)
    \/ Decoded(r) \/ Resampled(r) \/ Window(r) \/ LastWindow(r) \/ Send(r)
    \/ Finish(r) \/ Cleanup(r)

Next == \E r \in Reqs : Serve(r) \/ Take(r) \/ Turn(r) \/ Disconnect(r)

Spec == Init /\ [][Next]_vars

\* Bodies arrive or break off, jobs and the 30 s of a checkout end, tasks are
\* polled, and a client that reads takes its events.  Nobody is obliged to read.
Fairness == \A r \in Reqs : WF_vars(Serve(r)) /\ WF_vars(Take(r))

FairSpec == Spec /\ Fairness

---------------------------------------------------------------------------
(* Properties *)

Events == [kind : {"text", "final", "error"}, upTo : Nat]

TypeOK ==
    /\ pc \in [Reqs -> PCs]
    /\ job \in [Reqs -> Jobs]
    /\ file \in [Reqs -> BOOLEAN]
    /\ held \in [Reqs -> BOOLEAN]
    /\ client \in [Reqs -> {"reading", "stalled", "gone"}]
    /\ length \in [Reqs -> Nat]
    /\ at \in [Reqs -> Nat]
    /\ texts \in [Reqs -> Nat]
    /\ upTo \in [Reqs -> Nat]
    /\ pending \in [Reqs -> Seq(Events)]
    /\ channel \in [Reqs -> Seq(Events)]
    /\ got \in [Reqs -> Seq(Events)]
    /\ ending \in [Reqs -> {"none", "whole", "error", "unread", "panic"}]
    /\ \A r \in Reqs : Len(channel[r]) <= Capacity
    /\ Cardinality({r \in Reqs : held[r]}) <= PoolSize

\* The file of an upload lives as long as it has to: a job that reads it finds
\* it, also after its request was dropped, and a request whose client stayed
\* leaves none behind, whatever failed, the resampling job's panic excepted.
FileLifetime ==
    \A r \in Reqs :
        /\ job[r] = "running" /\ (pc[r] = "decoding" \/ r \in Rest) => file[r]
        /\ pc[r] = "done" => ~file[r]

\* What the client of a stream holds when the stream is over: all texts in
\* order and the final event over exactly these; before the final event an
\* error if a window failed; the error alone if there was no session; the texts
\* without a final event if the inference panicked.  A stream that ends without
\* an error has transcribed every second of the audio.
Over(r) == pc[r] = "done" /\ channel[r] = <<>>

TextsThen(r, rest) == [n \in 1..texts[r] |-> Text(n)] \o rest

StreamComplete ==
    \A r \in Sse :
        /\ ending[r] = "whole" => upTo[r] = length[r]
        /\ Over(r) /\ client[r] # "gone" =>
             got[r] = CASE ending[r] = "whole" -> TextsThen(r, <<Final(texts[r])>>)
                        [] ending[r] = "error" -> TextsThen(r, <<Error, Final(texts[r])>>)
                        [] ending[r] = "panic" -> TextsThen(r, <<>>)
                        [] ending[r] = "none"  -> IF got[r] = <<>> THEN <<>> ELSE <<Error>>

\* A session comes back from an upload: from /v1/transcribe whatever its client
\* does, from a stream unless its client stops reading.
LeaseReturned ==
    \A r \in Reqs : held[r] ~> ~held[r] \/ (r \in Sse /\ client[r] = "stalled")

\* Every upload that was accepted comes to its end, the stream of a client that
\* does not read apart; other requests cannot keep it from that.
RequestsEnd ==
    \A r \in Reqs :
        pc[r] = "writing" ~> \/ pc[r] \in {"done", "dropped", "crashed"}
                             \/ r \in Sse /\ client[r] = "stalled"

\* "Clean up temp file regardless of success or failure": once nothing works
\* for a request any more, its file is gone.
TempFileRemoved ==
    \A r \in Reqs :
        pc[r] \in {"done", "dropped", "crashed"} /\ job[r] = "none" => ~file[r]
=============================================================================
