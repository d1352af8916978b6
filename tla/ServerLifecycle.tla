--------------------------- MODULE ServerLifecycle ---------------------------
(***************************************************************************)
(* The life of a server: how it is stopped and what becomes of the work in  *)
(* flight.  WebSocket handlers (WsSession) and uploads share the pool and   *)
(* the cancellation token; an upload is reduced to what Uploads shows of    *)
(* it: it ends, and gives its session back, unless its client stalls.       *)
(*                                                                         *)
(* Who owns the server decides what can stop it:                            *)
(*   main      passes no channel, so that only a signal's default ends it   *)
(*   library   fires or drops the channel given to run_with_config          *)
(*   helper    run_on_random_port_with_shutdown: a timer that runs from the *)
(*             start, and a token that its caller may cancel                *)
(* axum stops accepting when the channel fires, and returns once the HTTP   *)
(* connections are closed; an upgraded connection is not one of them.       *)
(***************************************************************************)
EXTENDS WsSession

CONSTANTS
    Owners,     \* the owners considered
    Uploading   \* the upload requests

ASSUME LifecycleAssumption ==
    /\ Owners \subseteq {"main", "library", "helper"}
    /\ IsFiniteSet(Uploading)

VARIABLES
    owner,      \* who started the server
    server,     \* what the server does
    upload,     \* what each upload request does
    reader      \* whether its client reads the response

life == <<owner, server, upload, reader>>
lifeVars == <<vars, life>>

\* up         accepting connections
\* draining   not any more, waiting for the HTTP connections
\* returned   axum's future is over
\* dropped    its future was dropped by the timeout
\* gone       so is the process
Servers == {"up", "draining", "returned", "dropped", "gone"}

LifeInit ==
    /\ Init
    /\ owner \in Owners
    /\ server = "up"
    /\ upload = [r \in Uploading |-> "none"]
    /\ reader = [r \in Uploading |-> "reading"]

---------------------------------------------------------------------------
(* The work in flight *)

SharedPool ==
    Cardinality({c \in Conns : held[c]})
      + Cardinality({r \in Uploading : upload[r] = "leased"}) <= PoolSize

\* A step of a WebSocket handler; what it leases is out of reach of uploads.
WsStep(c) == Handler(c) /\ UNCHANGED life /\ SharedPool'

\* An upload comes on a connection that was accepted; the connections the
\* timeout leaves behind go on being served.
Begin(r) ==
    /\ server \in {"up", "dropped"}
    /\ upload[r] = "none"
    /\ upload' = [upload EXCEPT ![r] = "queued"]
    /\ UNCHANGED <<vars, owner, server, reader>>

\* Mutation: an upload takes a session without a permit.
LendUpload_Unchecked(r) ==
    /\ upload[r] = "queued"
    /\ upload' = [upload EXCEPT ![r] = "leased"]
    /\ UNCHANGED <<vars, owner, server, reader>>

LendUpload(r) ==
    /\ upload[r] = "queued"
    /\ upload' = [upload EXCEPT ![r] = "leased"]
    /\ UNCHANGED <<vars, owner, server, reader>>
    /\ SharedPool'

\* It is over: refused, answered, or streamed to the end.
EndUpload(r) ==
    /\ upload[r] \in {"queued", "leased"}
    /\ reader[r] # "stalled"
    /\ upload' = [upload EXCEPT ![r] = "over"]
    /\ UNCHANGED <<vars, owner, server, reader>>

\* Its client stops reading, reads again, or disconnects for good.
ReaderTurns(r) ==
    /\ reader[r] # "gone"
    /\ \E s \in {"reading", "stalled", "gone"} \ {reader[r]} :
         reader' = [reader EXCEPT ![r] = s]
    /\ UNCHANGED <<vars, owner, server, upload>>

\* axum waits for the connection of the upload: neither its job nor the
\* spawned task of a stream keeps one open.
Open(r) == upload[r] \in {"queued", "leased"} /\ reader[r] # "gone"

---------------------------------------------------------------------------
(* Stopping the server *)

Cancelled ==
    /\ cancelled' = TRUE
    /\ UNCHANGED <<handler, age, client, history>>

\* The channel fires, or its sender is dropped, which counts for the same.
Signal ==
    /\ owner = "library"
    /\ server = "up"
    /\ server' = "draining"
    /\ Cancelled
    /\ UNCHANGED <<owner, upload, reader>>

\* Mutation: upgraded connections are waited for as well.
Return_WaitsForAll ==
    /\ server = "draining"
    /\ \A r \in Uploading : ~Open(r)
    /\ \A c \in Conns : pc[c] = "closed"
    /\ server' = "returned"
    /\ UNCHANGED <<vars, owner, upload, reader>>

\* The last HTTP connection is closed and run_with_config returns.
Return ==
    /\ server = "draining"
    /\ \A r \in Uploading : ~Open(r)
    /\ server' = "returned"
    /\ UNCHANGED <<vars, owner, upload, reader>>

\* The caller of the helper cancels the token it was given: the sessions are
\* told, the listener is not.
CancelToken ==
    /\ owner = "helper"
    /\ ~cancelled
    /\ Cancelled
    /\ UNCHANGED life

\* Mutation: the timeout leaves the token alone.
DrainTimeout_Silent ==
    /\ owner = "helper"
    /\ server = "up"
    /\ server' = "dropped"
    /\ UNCHANGED <<vars, owner, upload, reader>>

\* shutdown_drain_secs after its start, the helper's server is dropped.
DrainTimeout ==
    /\ owner = "helper"
    /\ server = "up"
    /\ server' = "dropped"
    /\ Cancelled
    /\ UNCHANGED <<owner, upload, reader>>

\* The process ends, and every task with it: main does at SIGTERM, for which
\* no handler is installed; the others when their host has had enough.
ProcessEnds ==
    /\ IF owner = "main" THEN server = "up" ELSE server \in {"returned", "dropped"}
    /\ server' = "gone"
    /\ pc' = [c \in Conns |-> "closed"]
    /\ held' = [c \in Conns |-> FALSE]
    /\ out' = [c \in Conns |-> <<>>]
    /\ upload' = [r \in Uploading |-> "over"]
    /\ UNCHANGED <<goal, left, age, client, cancelled, history, owner, reader>>

UploadStep(r) == LendUpload(r) \/ EndUpload(r)

LifeNext ==
    \/ Signal \/ Return \/ CancelToken \/ DrainTimeout \/ ProcessEnds
    \/ \E c \in Conns : WsStep(c) \/ ((ClientTurns(c) \/ Tick(c)) /\ UNCHANGED life)
    \/ \E r \in Uploading :
         server # "gone" /\ (Begin(r) \/ UploadStep(r) \/ ReaderTurns(r))

LifeSpec == LifeInit /\ [][LifeNext]_lifeVars

\* Tasks are polled, jobs and timed waits end, and the future of axum is
\* polled.  Nobody is obliged to stop the server, and no client to read.
LifeFairness ==
    /\ \A c \in Conns : WF_lifeVars(WsStep(c))
    /\ \A r \in Uploading : WF_lifeVars(server # "gone" /\ UploadStep(r))
    /\ WF_lifeVars(Return)

FairLifeSpec == LifeSpec /\ LifeFairness

---------------------------------------------------------------------------
(* Properties *)

\* Types, and one pool for all: uploads lease what connections leave of it.
LifeTypeOK ==
    /\ TypeOK
    /\ owner \in Owners
    /\ server \in Servers
    /\ upload \in [Uploading -> {"none", "queued", "leased", "over"}]
    /\ reader \in [Uploading -> {"reading", "stalled", "gone"}]
    /\ SharedPool

\* A shutdown neither drops the speech of a session nor leaves a Stop without its
\* answer: what handle_socket promises holds until the process ends.
ShutdownReportsSpeech == server # "gone" => PendingSpeechReported
ShutdownAnswersStop   == server # "gone" => StopIsAnswered

\* A shutdown comes to its end, whatever the WebSocket clients do: only an
\* upload whose client does not read what it is sent can keep run_with_config.
ServerReturns ==
    server = "draining" ~>
        server # "draining" \/ \E r \in Uploading : Open(r) /\ reader[r] = "stalled"

\* No session outlives its server for good, as upgraded connections are not
\* waited for: they are told before the server stops, be it by its channel, by
\* the token or by the timeout, and however busy their clients are they end,
\* those apart that wait for their client to read.
NoOrphans ==
    \A c \in Conns : cancelled \/ server \in {"returned", "dropped"} ~>
        pc[c] = "closed" \/ client[c] = "stalled"

\* The end of the process finds no session in flight.  "SIGTERM triggers
\* graceful shutdown", with "Max wait for in-flight sessions on SIGTERM".
Drained ==
    [][owner = "main" /\ server' = "gone" => \A c \in Conns : pc[c] = "closed"]_lifeVars
=============================================================================
