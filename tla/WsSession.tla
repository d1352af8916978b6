------------------------------ MODULE WsSession ------------------------------
(***************************************************************************)
(* The WebSocket handler (handle_socket in server/http.rs), one instance    *)
(* per connection.  The handlers share the session pool; each owns a        *)
(* streaming session and a socket whose client may stop reading or vanish   *)
(* at any moment.                                                           *)
(*                                                                         *)
(* A handler is a chain of steps between two awaits: send a reply, wait for *)
(* the client, wait for a pooled session, run the inference.  goal says for *)
(* what it sends, waits or infers, and so where it goes next.               *)
(*                                                                         *)
(* The pool is reduced to what SessionPool shows of it (at most PoolSize    *)
(* leases, every wait ends in a lease or a refusal) and the streaming       *)
(* session to what StreamingSession shows of it (Left and WhatCallsLeave    *)
(* there).  A non-empty batch of final results counts as one.  The           *)
(* configured sample rate only decides whether a frame can be resampled,    *)
(* which is left to chance.                                                 *)
(***************************************************************************)
EXTENDS Naturals, FiniteSets, Sequences

CONSTANTS
    Conns,          \* the connections
    PoolSize,       \* sessions in the pool
    MaxSession,     \* max_session_secs, in ticks of the clock
    Observed        \* the connections whose history is kept

ASSUME WsAssumption ==
    /\ IsFiniteSet(Conns)
    /\ PoolSize \in Nat \ {0}
    /\ MaxSession \in Nat
    /\ Observed \subseteq Conns

VARIABLES
    pc,         \* what each handler is doing
    goal,       \* and for what
    out,        \* messages it has still to send before it goes on
    held,       \* whether it leases a session of the pool
    left,       \* what its streaming session holds that is not reported yet
    age,        \* session_start.elapsed(), no further than the cap can tell
    client,     \* whether the client reads what it is sent
    cancelled,  \* the server's cancellation token
    asked,      \* history: was Stop received, and what was left then
    answer,     \* history: what reached the client since Stop
    lapses      \* history: finalizations that failed or got no session

handler == <<pc, goal, out, held, left>>
history == <<asked, answer, lapses>>
vars == <<handler, age, client, cancelled, history>>

PCs == {"send", "create", "loop", "checkout", "infer", "close", "closed"}

\* greet     Ready                  refuse    no streaming session
\* reject    an error, then on      cap       the session is too old
\* chunk     a frame of audio       failed    its inference failed
\* stop      the client's Stop      unstopped its finalize failed
\* empty     the empty Final        bye       the client's Close
\* post      the last finalization
Goals == {"greet", "refuse", "reject", "cap", "chunk", "failed", "stop",
          "unstopped", "empty", "bye", "post"}

Messages == {"ready", "partial", "final", "empty", "error"}

\* Results of process_chunk, Noop left out.
Replies == {<<>>, <<"partial">>, <<"final">>, <<"partial", "final">>}

\* speech     an open segment that is long enough
\* audio      frames that the detector has to judge again after a final result
Lefts == {"speech", "audio", "nothing"}

Reports(msgs) == \E i \in 1..Len(msgs) : msgs[i] = "final"

Init ==
    /\ pc = [c \in Conns |-> "send"]
    /\ goal = [c \in Conns |-> "greet"]
    /\ out = [c \in Conns |-> <<"ready">>]
    /\ held = [c \in Conns |-> FALSE]
    /\ left = [c \in Conns |-> "nothing"]
    /\ age = [c \in Conns |-> 0]
    /\ client = [c \in Conns |-> "reading"]
    /\ cancelled = FALSE
    /\ asked = [c \in Conns |-> "no"]
    /\ answer = [c \in Conns |-> <<>>]
    /\ lapses = [c \in Conns |-> {}]

Goto(c, where, what) ==
    /\ pc' = [pc EXCEPT ![c] = where]
    /\ goal' = [goal EXCEPT ![c] = what]

\* The handler is to send msgs, and then to go on as what says.
Reply(c, what, msgs) ==
    /\ Goto(c, "send", what)
    /\ out' = [out EXCEPT ![c] = msgs]

\* The handler asks the pool for a session.
Request(c, what) == Goto(c, "checkout", what) /\ UNCHANGED out

Lease(c)   == held' = [held EXCEPT ![c] = TRUE]
Release(c) == held' = [held EXCEPT ![c] = FALSE]

Lapse(c, when) ==
    /\ lapses' = IF c \in Observed
                 THEN [lapses EXCEPT ![c] = @ \union {when}] ELSE lapses
    /\ UNCHANGED <<asked, answer>>

---------------------------------------------------------------------------
(* Sending *)

\* The client's copy of what it was sent, from its Stop on.
Receive(c, m) ==
    /\ answer' = IF asked[c] = "no" THEN answer
                 ELSE [answer EXCEPT ![c] = Append(@, m)]
    /\ UNCHANGED <<asked, lapses>>

\* Sends that end the handler when they fail; the others are not looked at.
Strict == {"greet", "chunk"}

\* One socket.send, while the client reads.
Deliver(c) ==
    /\ pc[c] = "send"
    /\ out[c] # <<>>
    /\ client[c] = "reading"
    /\ out' = [out EXCEPT ![c] = Tail(@)]
    /\ Receive(c, Head(out[c]))
    /\ UNCHANGED <<pc, goal, held, left, age, client, cancelled>>

\* The client is gone: the send fails, or the failure goes unnoticed.
SendInVain(c) ==
    /\ pc[c] = "send"
    /\ out[c] # <<>>
    /\ client[c] = "gone"
    /\ \/ /\ out' = [out EXCEPT ![c] = Tail(@)]
          /\ UNCHANGED <<pc, goal, held>>
       \/ /\ goal[c] \in Strict
          /\ Goto(c, "closed", goal[c])
          /\ out' = [out EXCEPT ![c] = <<>>]
          /\ Release(c)
    /\ UNCHANGED <<left, age, client, cancelled, history>>

\* Where the handler goes once everything was sent.
GoesOn(c) ==
    \/ goal[c] = "greet" /\ Goto(c, "create", "greet") /\ UNCHANGED out
    \/ goal[c] = "refuse" /\ Goto(c, "closed", "refuse") /\ UNCHANGED out
    \/ /\ goal[c] \in {"reject", "chunk", "failed"}
       /\ Goto(c, "loop", "chunk")
       /\ UNCHANGED out
    \/ goal[c] = "unstopped" /\ Reply(c, "empty", <<"empty">>)
    \/ goal[c] \in {"stop", "empty", "cap"} /\ Request(c, "post")
    \/ goal[c] = "post" /\ Goto(c, "close", "post") /\ UNCHANGED out

\* Mutation: the guard of Stop lives until the end of the function.
AllSent_KeepsGuard(c) ==
    /\ pc[c] = "send"
    /\ out[c] = <<>>
    /\ GoesOn(c)
    /\ IF goal[c] = "stop" THEN UNCHANGED held ELSE Release(c)
    /\ UNCHANGED <<left, age, client, cancelled, history>>

\* Mutation: a guard that met an error is never dropped.
AllSent_LeaksOnError(c) ==
    /\ pc[c] = "send"
    /\ out[c] = <<>>
    /\ GoesOn(c)
    /\ IF goal[c] = "failed" THEN UNCHANGED held ELSE Release(c)
    /\ UNCHANGED <<left, age, client, cancelled, history>>

\* Mutation: the cap ends the handler by a return.
AllSent_CapReturns(c) ==
    /\ pc[c] = "send"
    /\ out[c] = <<>>
    /\ IF goal[c] = "cap"
       THEN Goto(c, "closed", "cap") /\ UNCHANGED out
       ELSE GoesOn(c)
    /\ Release(c)
    /\ UNCHANGED <<left, age, client, cancelled, history>>

\* Everything was sent: the guard goes out of scope and the handler goes on.
AllSent(c) ==
    /\ pc[c] = "send"
    /\ out[c] = <<>>
    /\ GoesOn(c)
    /\ Release(c)
    /\ UNCHANGED <<left, age, client, cancelled, history>>

---------------------------------------------------------------------------
(* The session and its loop *)

\* create_streaming_session: the voice detector is loaded, or is not.
Create(c) ==
    /\ pc[c] = "create"
    /\ \/ Goto(c, "loop", "chunk") /\ UNCHANGED out
       \/ Reply(c, "refuse", <<"error">>)
    /\ UNCHANGED <<held, left, age, client, cancelled, history>>

\* Mutation: the cap is not looked at when a message arrives.
TooOld_Never(c) == FALSE

TooOld(c) == age[c] > MaxSession

\* The loop ends without a message: the server shuts down, the idle timeout
\* elapses, the stream ends or fails.
Interrupted(c) ==
    /\ pc[c] = "loop"
    /\ Request(c, "post")
    /\ UNCHANGED <<held, left, age, client, cancelled, history>>

\* A message arrives, and the token was not cancelled before.
Arrives(c) == pc[c] = "loop" /\ ~cancelled

\* The session is too old: an error and the end, whatever the message is.
Cap(c) ==
    /\ Arrives(c)
    /\ TooOld(c)
    /\ Reply(c, "cap", <<"error">>)
    /\ UNCHANGED <<held, left, age, client, cancelled, history>>

\* Audio as JSON, an invalid message, a frame that is too large or cannot be
\* resampled: an error, and the session goes on.
Refuse(c) ==
    /\ Arrives(c)
    /\ ~TooOld(c)
    /\ Reply(c, "reject", <<"error">>)
    /\ UNCHANGED <<held, left, age, client, cancelled, history>>

\* A frame of audio.
Frame(c) ==
    /\ Arrives(c)
    /\ ~TooOld(c)
    /\ Request(c, "chunk")
    /\ UNCHANGED <<held, left, age, client, cancelled, history>>

Stop(c) ==
    /\ Arrives(c)
    /\ ~TooOld(c)
    /\ Request(c, "stop")
    /\ asked' = IF c \in Observed
                THEN [asked EXCEPT ![c] = left[c]]
                ELSE asked
    /\ UNCHANGED <<held, left, age, client, cancelled, answer, lapses>>

\* The client's Close: nothing can be sent to it any more.
Bye(c) ==
    /\ Arrives(c)
    /\ ~TooOld(c)
    /\ Request(c, "bye")
    /\ client' = [client EXCEPT ![c] = "gone"]
    /\ UNCHANGED <<held, left, age, cancelled, history>>

---------------------------------------------------------------------------
(* Checkout and inference *)

\* Mutation: a session is leased without a permit.
Lend_Unchecked(c) ==
    /\ pc[c] = "checkout"
    /\ Lease(c)
    /\ Goto(c, "infer", goal[c])
    /\ UNCHANGED <<out, left, age, client, cancelled, history>>

\* The pool leases a session.
Lend(c) ==
    /\ pc[c] = "checkout"
    /\ Cardinality({d \in Conns : held[d]}) < PoolSize
    /\ Lease(c)
    /\ Goto(c, "infer", goal[c])
    /\ UNCHANGED <<out, left, age, client, cancelled, history>>

\* The checkout times out, or fails: a frame is dropped and the client told so,
\* Stop is answered without having been served, the end comes anyway.
GiveUp(c) ==
    /\ pc[c] = "checkout"
    /\ \/ goal[c] = "chunk" /\ Reply(c, "reject", <<"error">>) /\ UNCHANGED history
       \/ goal[c] = "stop" /\ Reply(c, "empty", <<"empty">>) /\ Lapse(c, "stop")
       \/ goal[c] = "bye" /\ Request(c, "post") /\ UNCHANGED history
       \/ /\ goal[c] = "post"
          /\ Goto(c, "close", "post")
          /\ Lapse(c, "post")
          /\ UNCHANGED out
    /\ UNCHANGED <<held, left, age, client, cancelled>>

Leaves(c, what) == left' = [left EXCEPT ![c] = what]

\* process_chunk judges every frame.  Speech that was left is still left, or was
\* reported; a failing call may have lost it.
ProcessChunk(c) ==
    /\ pc[c] = "infer"
    /\ goal[c] = "chunk"
    /\ \/ \E msgs \in Replies, l \in {"speech", "nothing"} :
            /\ left[c] = "speech" => l = "speech" \/ Reports(msgs)
            /\ Leaves(c, l)
            /\ Reply(c, "chunk", msgs)
       \/ \E l \in Lefts : Leaves(c, l) /\ Reply(c, "failed", <<"error">>)
    /\ UNCHANGED <<held, age, client, cancelled, history>>

\* finalize has results.  The last of them may put frames back for the detector,
\* which has been reset and may find speech in them.
FinalizeReports(c) ==
    /\ left[c] # "nothing"
    /\ \E l \in {"audio", "nothing"} : Leaves(c, l)

\* finalize has none.
FinalizeFindsNothing(c) == left[c] # "speech" /\ Leaves(c, "nothing")

FinalizeFails(c) ==
    /\ left[c] # "nothing"
    /\ \E l \in Lefts : Leaves(c, l)

\* Mutation: a result of the finalization is not taken for the answer.
FinalizeStop_AlwaysEmpty(c) ==
    /\ pc[c] = "infer"
    /\ goal[c] = "stop"
    /\ \/ /\ FinalizeReports(c)
          /\ Reply(c, "unstopped", <<"final">>)
          /\ UNCHANGED <<held, history>>
       \/ /\ FinalizeFindsNothing(c)
          /\ Reply(c, "empty", <<"empty">>)
          /\ Release(c)
          /\ UNCHANGED history
       \/ /\ FinalizeFails(c)
          /\ Reply(c, "unstopped", <<"error">>)
          /\ Lapse(c, "stop")
          /\ UNCHANGED held
    /\ UNCHANGED <<age, client, cancelled>>

\* finalize for Stop.  A client that is sent no result gets the empty Final,
\* after the guard was dropped.
FinalizeStop(c) ==
    /\ pc[c] = "infer"
    /\ goal[c] = "stop"
    /\ \/ /\ FinalizeReports(c)
          /\ Reply(c, "stop", <<"final">>)
          /\ UNCHANGED <<held, history>>
       \/ /\ FinalizeFindsNothing(c)
          /\ Reply(c, "empty", <<"empty">>)
          /\ Release(c)
          /\ UNCHANGED history
       \/ /\ FinalizeFails(c)
          /\ Reply(c, "unstopped", <<"error">>)
          /\ Lapse(c, "stop")
          /\ UNCHANGED held
    /\ UNCHANGED <<age, client, cancelled>>

\* finalize for the client's Close, the results of which are not looked at.
FinalizeBye(c) ==
    /\ pc[c] = "infer"
    /\ goal[c] = "bye"
    /\ FinalizeReports(c) \/ FinalizeFindsNothing(c) \/ FinalizeFails(c)
    /\ Request(c, "post")
    /\ Release(c)
    /\ UNCHANGED <<age, client, cancelled, history>>

\* finalize after the loop, after Stop's own as well.
FinalizePost(c) ==
    /\ pc[c] = "infer"
    /\ goal[c] = "post"
    /\ \/ /\ FinalizeReports(c)
          /\ Reply(c, "post", <<"final">>)
          /\ UNCHANGED <<held, history>>
       \/ /\ FinalizeFindsNothing(c)
          /\ Goto(c, "close", "post")
          /\ Release(c)
          /\ UNCHANGED <<out, history>>
       \/ /\ FinalizeFails(c)
          /\ Goto(c, "close", "post")
          /\ Release(c)
          /\ Lapse(c, "post")
          /\ UNCHANGED out
    /\ UNCHANGED <<age, client, cancelled>>

\* socket.close
CloseSocket(c) ==
    /\ pc[c] = "close"
    /\ client[c] # "stalled"
    /\ Goto(c, "closed", goal[c])
    /\ UNCHANGED <<out, held, left, age, client, cancelled, history>>

Handler(c) ==
    \/ Deliver(c) \/ SendInVain(c) \/ AllSent(c) \/ Create(c)
    \/ Interrupted(c) \/ Cap(c) \/ Refuse(c) \/ Frame(c) \/ Stop(c) \/ Bye(c)
    \/ Lend(c) \/ GiveUp(c)
    \/ ProcessChunk(c) \/ FinalizeStop(c) \/ FinalizeBye(c) \/ FinalizePost(c)
    \/ CloseSocket(c)

---------------------------------------------------------------------------
(* The handler's surroundings *)

\* A client stops reading, reads again, or vanishes.  What it had sent before
\* may still arrive.
ClientTurns(c) ==
    /\ client[c] # "gone"
    /\ \E s \in {"reading", "stalled", "gone"} \ {client[c]} :
         client' = [client EXCEPT ![c] = s]
    /\ UNCHANGED <<handler, age, cancelled, history>>

Tick(c) ==
    /\ pc[c] # "closed"
    /\ age[c] <= MaxSession
    /\ age' = [age EXCEPT ![c] = @ + 1]
    /\ UNCHANGED <<handler, client, cancelled, history>>

Cancel ==
    /\ ~cancelled
    /\ cancelled' = TRUE
    /\ UNCHANGED <<handler, age, client, history>>

Next ==
    \/ Cancel
    \/ \E c \in Conns : Handler(c) \/ ClientTurns(c) \/ Tick(c)

Spec == Init /\ [][Next]_vars

\* The runtime polls every task that can go on, the 30 s of a checkout and the
\* idle timeout pass, and the inference returns.  Nothing obliges a client to
\* read, to leave or to send anything, or the clock to reach the cap.
Fairness == \A c \in Conns : WF_vars(Handler(c))

FairSpec == Spec /\ Fairness

---------------------------------------------------------------------------
(* Properties *)

TypeOK ==
    /\ pc \in [Conns -> PCs]
    /\ goal \in [Conns -> Goals]
    /\ out \in [Conns -> Seq(Messages)]
    /\ held \in [Conns -> BOOLEAN]
    /\ Cardinality({c \in Conns : held[c]}) <= PoolSize
    /\ left \in [Conns -> Lefts]
    /\ age \in [Conns -> 0..(MaxSession + 1)]
    /\ client \in [Conns -> {"reading", "stalled", "gone"}]
    /\ cancelled \in BOOLEAN
    /\ asked \in [Conns -> {"no"} \union Lefts]
    /\ answer \in [Conns -> Seq(Messages)]
    /\ lapses \in [Conns -> SUBSET {"stop", "post"}]

\* No handler holds a session while it waits for its client or for a session:
\* the guard of Stop is gone before the finalization after the loop asks the
\* pool again, so connections cannot wait for one another (or for themselves).
NoHoldAndWait ==
    \A c \in Conns : held[c] => pc[c] \notin {"create", "loop", "checkout",
                                              "close", "closed"}

\* However a session ends (Stop, shutdown, idle timeout, cap, a broken
\* stream), speech that was heard is reported before the socket is closed,
\* unless the last finalization failed or the client was gone.
Reported(c) ==
    pc[c] = "closed" /\ left[c] = "speech" => "post" \in lapses[c] \/ client[c] = "gone"

PendingSpeechReported == \A c \in Observed : Reported(c)

\* The answers to a Stop that found what left and was finalized: a Final with the
\* speech or else an empty one, never both.  After results the finalization
\* behind the loop judges again what follows them, and may report a second time.
ServedAnswers(what) ==
    (IF what = "speech" THEN {} ELSE {<<"empty">>})
      \union (IF what = "nothing" THEN {} ELSE {<<"final">>, <<"final", "final">>})

\* The answers when Stop got no session or its finalization failed.
LapsedAnswers(what) ==
    {<<"empty">>}
      \union (IF what = "nothing" THEN {}
              ELSE {<<"empty", "final">>, <<"error", "empty">>,
                    <<"error", "empty", "final">>})

\* What a client that sent Stop and stayed was told when the socket is closed.
\* It is left with an empty Final although it had spoken only when the
\* finalization behind the loop lapsed as well.
Answered(c) ==
    pc[c] = "closed" /\ asked[c] # "no" /\ client[c] # "gone" =>
        /\ answer[c] \in IF "stop" \in lapses[c] THEN LapsedAnswers(asked[c])
                                                 ELSE ServedAnswers(asked[c])
        /\ asked[c] = "speech" /\ answer[c] = <<"empty">> => "post" \in lapses[c]

StopIsAnswered == \A c \in Observed : Answered(c)

\* Once the cap has passed a session ends however many messages the client
\* goes on sending, or else its client does not read what it is sent.
SessionEnds ==
    \A c \in Conns :
        age[c] > MaxSession ~> pc[c] = "closed" \/ client[c] = "stalled"

\* --max-session-secs and its 0, "disabled" by the documentation, which ends no
\* session then.
ZeroDisablesCap == MaxSession = 0 => \A c \in Conns : goal[c] # "cap"

\* A leased session comes back unless the client it serves does not read.
LeaseReturned ==
    \A c \in Conns : held[c] ~> ~held[c] \/ client[c] = "stalled"
=============================================================================
