--------------------------- MODULE UploadsProofs ---------------------------
(***************************************************************************)
(* For any finite number of requests and any audio: the file of an upload   *)
(* lives as long as it has to, a session belongs to a running job, no more  *)
(* sessions are leased than there are, and the events of a stream that is   *)
(* read to its end are the ones its windows called for.                     *)
(***************************************************************************)
EXTENDS Uploads, FiniteSetTheorems, SequenceTheorems, TLAPS

\* The part of the state that a file's life depends on.
FileTypes ==
    /\ pc \in [Reqs -> PCs]
    /\ job \in [Reqs -> Jobs]
    /\ file \in [Reqs -> BOOLEAN]
    /\ held \in [Reqs -> BOOLEAN]

\* The states of a request that has a file, and of one without a job.
Filed == {"writing", "decoding", "resampling", "checkout", "inferring"}

Idle == {"receiving", "writing", "checkout", "done", "crashed"}

FileOf(r) ==
    /\ pc[r] \in Filed => file[r]
    /\ pc[r] \in {"receiving", "done"} => ~file[r]
    /\ pc[r] = "dropped" /\ job[r] = "running" /\ r \in Rest => file[r]

JobOf(r) ==
    /\ pc[r] \in Idle => job[r] = "none"
    /\ pc[r] \in {"decoding", "resampling"} => r \in Sse
    /\ held[r] => job[r] = "running" /\ pc[r] \in {"inferring", "dropped"}

UploadInv == FileTypes /\ \A r \in Reqs : FileOf(r) /\ JobOf(r)

SameAt(r) ==
    /\ pc'[r] = pc[r] /\ job'[r] = job[r]
    /\ file'[r] = file[r] /\ held'[r] = held[r]

---------------------------------------------------------------------------
(* One request moves, the others stay *)

Step(r) == Serve(r) \/ Take(r) \/ Turn(r) \/ Disconnect(r)

\* Steps of the windows and of the client that touch no file and no job.
LEMMA QuietSteps ==
  ASSUME NEW r \in Reqs,
         Window(r) \/ LastWindow(r) \/ Send(r) \/ Take(r) \/ Turn(r)
  PROVE  UNCHANGED <<pc, job, file, held>>
BY DEF Window, LastWindow, Send, Take, Turn

LEMMA StepKeepsTypes ==
  ASSUME FileTypes, NEW r \in Reqs, Step(r)
  PROVE  FileTypes' /\ \A s \in Reqs \ {r} : SameAt(s)
<1> USE DEF FileTypes, SameAt, PCs, Jobs, Goto, Run, NoJob, Create, Remove, Release, window
<1>1. CASE Receive(r) \/ Write(r)
  BY <1>1 DEF Receive, Write
<1>2. CASE JobEnds(r)
  BY <1>2 DEF JobEnds
<1>3. CASE Lend(r) \/ Refuse(r)
  BY <1>3 DEF Lend, Refuse
<1>4. CASE Answer(r) \/ Cleanup(r) \/ Finish(r)
  BY <1>4 DEF Answer, Cleanup, Finish
<1>5. CASE Decoded(r) \/ Resampled(r)
  BY <1>5 DEF Decoded, Resampled
<1>6. CASE Disconnect(r)
  BY <1>6 DEF Disconnect
<1>7. CASE UNCHANGED <<pc, job, file, held>>
  BY <1>7
<1> QED
  BY <1>1, <1>2, <1>3, <1>4, <1>5, <1>6, <1>7, QuietSteps DEF Step, Serve

LEMMA StepKeepsFile ==
  ASSUME FileTypes, NEW r \in Reqs, FileOf(r), JobOf(r), Step(r)
  PROVE  FileOf(r)' /\ JobOf(r)'
<1> USE UploadsAssumption
    DEF FileTypes, FileOf, JobOf, Filed, Idle, PCs, Jobs,
        Goto, Run, NoJob, Create, Remove, Release, window
<1>1. CASE Receive(r) \/ Write(r)
  BY <1>1 DEF Receive, Write
<1>2. CASE JobEnds(r)
  BY <1>2 DEF JobEnds
<1>3. CASE Lend(r) \/ Refuse(r)
  BY <1>3 DEF Lend, Refuse
<1>4. CASE Answer(r) \/ Cleanup(r) \/ Finish(r)
  BY <1>4 DEF Answer, Cleanup, Finish, AtWork
<1>5. CASE Decoded(r) \/ Resampled(r)
  BY <1>5 DEF Decoded, Resampled
<1>6. CASE Disconnect(r)
  BY <1>6 DEF Disconnect, InHandler
<1>7. CASE UNCHANGED <<pc, job, file, held>>
  BY <1>7
<1> QED
  BY <1>1, <1>2, <1>3, <1>4, <1>5, <1>6, <1>7, QuietSteps DEF Step, Serve

---------------------------------------------------------------------------
LEMMA InitEstablishesInv == Init => UploadInv
BY DEF Init, UploadInv, FileTypes, FileOf, JobOf, PCs, Jobs, Filed, Idle

LEMMA NextKeepsInv == UploadInv /\ [Next]_vars => UploadInv'
<1> SUFFICES ASSUME UploadInv, [Next]_vars PROVE UploadInv'
  OBVIOUS
<1>1. ASSUME NEW r \in Reqs, Step(r) PROVE UploadInv'
  <2>1. FileTypes' /\ \A s \in Reqs \ {r} : SameAt(s)
    BY <1>1, StepKeepsTypes DEF UploadInv
  <2>2. FileOf(r)' /\ JobOf(r)'
    BY <1>1, StepKeepsFile DEF UploadInv
  <2>3. \A s \in Reqs \ {r} : FileOf(s)' /\ JobOf(s)'
    BY <2>1 DEF UploadInv, FileOf, JobOf, SameAt
  <2> QED
    BY <2>1, <2>2, <2>3 DEF UploadInv
<1>2. CASE UNCHANGED vars
  BY <1>2 DEF UploadInv, FileTypes, FileOf, JobOf, vars
<1> QED
  BY <1>1, <1>2 DEF Next, Step

LEMMA Invariance == Spec => []UploadInv
BY InitEstablishesInv, NextKeepsInv, PTL DEF Spec

---------------------------------------------------------------------------
(* Theorems *)

\* A job that reads an upload's file finds it, also after its request was
\* dropped, and a request whose client stayed leaves none behind.
THEOREM FilesLiveLongEnough == Spec => []FileLifetime
<1>1. UploadInv => FileLifetime
  BY DEF UploadInv, FileOf, JobOf, Filed, Idle, FileLifetime, FileTypes, PCs
<1> QED
  BY <1>1, Invariance, PTL

LeasesWithJobs == \A r \in Reqs : held[r] => job[r] = "running"

\* A session leased for an upload belongs to a job that runs: none outlives it.
THEOREM LeasesEndWithJobs == Spec => []LeasesWithJobs
<1>1. UploadInv => LeasesWithJobs
  BY DEF UploadInv, JobOf, LeasesWithJobs
<1> QED
  BY <1>1, Invariance, PTL
---------------------------------------------------------------------------
(* The events of a stream: types *)

EventTypes ==
    /\ client \in [Reqs -> {"reading", "stalled", "gone"}]
    /\ length \in [Reqs -> Nat]
    /\ at \in [Reqs -> Nat]
    /\ texts \in [Reqs -> Nat]
    /\ upTo \in [Reqs -> Nat]
    /\ pending \in [Reqs -> Seq(Events)]
    /\ channel \in [Reqs -> Seq(Events)]
    /\ got \in [Reqs -> Seq(Events)]
    /\ ending \in [Reqs -> {"none", "whole", "error", "unread", "panic"}]

\* What the windows and the client of a request see.
SameStreamAt(r) ==
    /\ client'[r] = client[r] /\ length'[r] = length[r] /\ at'[r] = at[r]
    /\ texts'[r] = texts[r] /\ upTo'[r] = upTo[r] /\ pending'[r] = pending[r]
    /\ channel'[r] = channel[r] /\ got'[r] = got[r] /\ ending'[r] = ending[r]

LEMMA EventsTyped ==
  /\ Error \in Events
  /\ \A n \in Nat : Text(n) \in Events /\ Final(n) \in Events
BY DEF Events, Error, Text, Final

LEMMA EventSeqs ==
  /\ <<>> \in Seq(Events)
  /\ \A e \in Events : <<e>> \in Seq(Events)
  /\ \A e, f \in Events : <<e, f>> \in Seq(Events)
OBVIOUS

\* A send adds to one channel, or to none.
LEMMA SentTyped ==
  ASSUME EventTypes, NEW r \in Reqs, NEW e \in Events, Sent(r, <<e>>)
  PROVE  /\ channel' \in [Reqs -> Seq(Events)]
         /\ \A s \in Reqs \ {r} : channel'[s] = channel[s]
         /\ channel'[r] = IF client[r] = "gone" THEN channel[r] ELSE channel[r] \o <<e>>
<1>1. channel[r] \o <<e>> \in Seq(Events)
  BY EventSeqs, ConcatProperties DEF EventTypes
<1> QED
  BY <1>1 DEF Sent, EventTypes

LEMMA WindowsKeepTypes ==
  ASSUME EventTypes, NEW r \in Reqs, Window(r) \/ LastWindow(r) \/ JobEnds(r)
  PROVE  EventTypes' /\ \A s \in Reqs \ {r} : SameStreamAt(s)
<1>1. at[r] + Hop \in Nat /\ Smaller(at[r] + Chunk, length[r]) \in Nat /\ texts[r] + 1 \in Nat
  BY UploadsAssumption DEF EventTypes, Smaller
<1>2. /\ <<Text(texts[r] + 1)>> \in Seq(Events) /\ <<Final(texts[r])>> \in Seq(Events)
      /\ <<Error, Final(texts[r])>> \in Seq(Events)
  BY <1>1, EventsTyped, EventSeqs DEF EventTypes
<1>3. CASE Window(r)
  <2>1. /\ at' \in {at, [at EXCEPT ![r] = at[r] + Hop]}
        /\ upTo' \in {upTo, [upTo EXCEPT ![r] = upTo[r]],
                     [upTo EXCEPT ![r] = Smaller(at[r] + Chunk, length[r])]}
        /\ texts' \in {texts, [texts EXCEPT ![r] = texts[r] + 1]}
        /\ pending' \in {pending, [pending EXCEPT ![r] = <<Text(texts[r] + 1)>>],
                        [pending EXCEPT ![r] = <<Error, Final(texts[r])>>]}
        /\ ending' \in {ending, [ending EXCEPT ![r] = "error"]}
        /\ UNCHANGED <<client, channel, got, length>>
    BY <1>3 DEF Window, NextWindow
  <2>2. at \in [Reqs -> Nat] /\ texts \in [Reqs -> Nat] /\ upTo \in [Reqs -> Nat]
    BY DEF EventTypes
  <2>3. at' \in [Reqs -> Nat]
    BY <1>1, <2>1, <2>2
  <2>4. texts' \in [Reqs -> Nat]
    BY <1>1, <2>1, <2>2
  <2>5. upTo' \in [Reqs -> Nat]
    BY <1>1, <2>1, <2>2
  <2>6. pending' \in [Reqs -> Seq(Events)]
    BY <1>2, <2>1 DEF EventTypes
  <2>7. \A s \in Reqs \ {r} : SameStreamAt(s)
    BY <2>1 DEF EventTypes, SameStreamAt
  <2> QED
    BY <2>1, <2>3, <2>4, <2>5, <2>6, <2>7 DEF EventTypes
<1>4. CASE LastWindow(r)
  BY <1>2, <1>4 DEF LastWindow, EventTypes, SameStreamAt
<1>5. CASE JobEnds(r)
  BY <1>5 DEF JobEnds, EventTypes, SameStreamAt
<1> QED
  BY <1>3, <1>4, <1>5

LEMMA SendKeepsTypes ==
  ASSUME EventTypes, NEW r \in Reqs, Send(r)
  PROVE  EventTypes' /\ \A s \in Reqs \ {r} : SameStreamAt(s)
<1>1. /\ pending[r] \in Seq(Events) /\ pending[r] # <<>>
      /\ UNCHANGED <<client, got, length, at, texts, upTo>>
  BY DEF Send, EventTypes
<1>2. /\ Head(pending[r]) \in Events /\ Tail(pending[r]) \in Seq(Events)
      /\ <<Final(texts[r])>> \in Seq(Events)
  BY <1>1, HeadTailProperties, EventsTyped, EventSeqs DEF EventTypes
<1>3. Sent(r, <<Head(pending[r])>>)
  BY DEF Send
<1>4. /\ channel' \in [Reqs -> Seq(Events)]
      /\ \A s \in Reqs \ {r} : channel'[s] = channel[s]
  BY <1>2, <1>3, SentTyped
<1>5. \/ pending' = [pending EXCEPT ![r] = <<Final(texts[r])>>] /\ ending' = [ending EXCEPT ![r] = "unread"]
      \/ pending' = [pending EXCEPT ![r] = Tail(pending[r])] /\ UNCHANGED ending
  BY DEF Send
<1>6. pending' \in [Reqs -> Seq(Events)] /\ \A s \in Reqs \ {r} : pending'[s] = pending[s]
  <2>1. PICK rest \in Seq(Events) : pending' = [pending EXCEPT ![r] = rest]
    BY <1>2, <1>5
  <2>2. pending \in [Reqs -> Seq(Events)]
    BY DEF EventTypes
  <2> QED
    BY <2>1, <2>2, Zenon
<1>7. /\ ending' \in [Reqs -> {"none", "whole", "error", "unread", "panic"}]
      /\ \A s \in Reqs \ {r} : ending'[s] = ending[s]
  BY <1>5 DEF EventTypes
<1> QED
  BY <1>1, <1>4, <1>6, <1>7 DEF EventTypes, SameStreamAt

LEMMA ClientKeepsTypes ==
  ASSUME EventTypes, NEW r \in Reqs, Take(r) \/ Turn(r) \/ Disconnect(r)
  PROVE  EventTypes' /\ \A s \in Reqs \ {r} : SameStreamAt(s)
<1>1. CASE Take(r)
  <2>1. /\ channel[r] \in Seq(Events) /\ channel[r] # <<>> /\ got[r] \in Seq(Events)
        /\ got' = [got EXCEPT ![r] = Append(got[r], Head(channel[r]))]
        /\ channel' = [channel EXCEPT ![r] = Tail(channel[r])]
        /\ UNCHANGED <<client, window>>
    BY <1>1 DEF Take, EventTypes
  <2>2. Append(got[r], Head(channel[r])) \in Seq(Events) /\ Tail(channel[r]) \in Seq(Events)
    BY <2>1, HeadTailProperties
  <2> QED
    BY <2>1, <2>2 DEF EventTypes, SameStreamAt, window
<1>2. CASE Turn(r)
  BY <1>2 DEF Turn, EventTypes, SameStreamAt, window
<1>3. CASE Disconnect(r)
  BY <1>3, EventSeqs DEF Disconnect, EventTypes, SameStreamAt, window
<1> QED
  BY <1>1, <1>2, <1>3

LEMMA StepKeepsEventTypes ==
  ASSUME EventTypes, NEW r \in Reqs, Step(r)
  PROVE  EventTypes' /\ \A s \in Reqs \ {r} : SameStreamAt(s)
<1>1. CASE Refuse(r)
  <2>1. (Sent(r, <<Error>>) \/ UNCHANGED channel) /\ UNCHANGED <<client, got, window>>
    BY <1>1 DEF Refuse
  <2>2. CASE Sent(r, <<Error>>)
    BY <2>1, <2>2, SentTyped, EventsTyped DEF EventTypes, SameStreamAt, window
  <2>3. CASE UNCHANGED channel
    BY <2>1, <2>3 DEF EventTypes, SameStreamAt, window
  <2> QED
    BY <2>1, <2>2, <2>3
<1>2. CASE UNCHANGED <<client, channel, got, window>>
  BY <1>2 DEF EventTypes, SameStreamAt, window
<1>3. CASE Serve(r) /\ ~(Window(r) \/ LastWindow(r) \/ JobEnds(r) \/ Send(r) \/ Refuse(r))
  BY <1>2, <1>3 DEF Serve, Receive, Write, Lend, Answer, Decoded, Resampled, Finish, Cleanup
<1> QED
  BY <1>1, <1>3, WindowsKeepTypes, SendKeepsTypes, ClientKeepsTypes DEF Step, Serve

---------------------------------------------------------------------------
(* The events of a stream: what they are *)

\* The events on their way, from the client's hands back to the job's.
Flow(r) == got[r] \o channel[r] \o pending[r]

\* The events that the windows so far, and the end of the loop, call for.
Due(r) ==
    TextsThen(r, CASE ending[r] = "whole" -> <<Final(texts[r])>>
                   [] ending[r] = "error" -> <<Error, Final(texts[r])>>
                   [] ending[r] \in {"none", "panic", "unread"} -> <<>>)

Untouched(r) ==
    /\ texts[r] = 0 /\ ending[r] = "none"
    /\ pending[r] = <<>> /\ channel[r] = <<>> /\ got[r] = <<>>

\* The windows leave no gap, and the loop ends at the end of the audio.
Covered(r) ==
    /\ upTo[r] <= length[r]
    /\ at[r] <= upTo[r] \/ upTo[r] = length[r]
    /\ ending[r] = "whole" => upTo[r] = length[r]

\* Where the job's loop and its task may be with events left.
Ordered(r) ==
    /\ pc[r] \in {"receiving", "writing", "decoding", "resampling", "checkout"} => Untouched(r)
    /\ pc[r] = "inferring" => \/ job[r] = "running"
                              \/ pending[r] = <<>> /\ ending[r] # "none"
    /\ pc[r] = "done" => pending[r] = <<>>

\* Nothing is lost or doubled between the job and a client that has not left.
Told(r) ==
    client[r] # "gone" =>
        /\ ending[r] # "unread"
        /\ pc[r] = "inferring" => Flow(r) = Due(r)
        /\ pc[r] = "done" => IF ending[r] = "none" THEN Flow(r) \in {<<>>, <<Error>>}
                                                   ELSE Flow(r) = Due(r)

StreamOf(r) == Covered(r) /\ Ordered(r) /\ Told(r)

Fits(r) == Len(channel[r]) <= Capacity

LeasesCounted == Cardinality({r \in Reqs : held[r]}) <= PoolSize

StreamInv ==
    /\ FileTypes /\ EventTypes
    /\ \A r \in Reqs : Fits(r)
    /\ \A r \in Sse : StreamOf(r)
    /\ LeasesCounted

LEMMA HeadThenTail ==
  ASSUME NEW s \in Seq(Events), s # <<>>
  PROVE  s = <<Head(s)>> \o Tail(s)
OBVIOUS

\* What the client takes, and what the job sends, stays in the flow.
LEMMA TakenStays ==
  ASSUME NEW s \in Seq(Events), NEW t \in Seq(Events), NEW u \in Seq(Events), t # <<>>
  PROVE  Append(s, Head(t)) \o Tail(t) \o u = s \o t \o u
<1>1. <<Head(t)>> \in Seq(Events) /\ Tail(t) \in Seq(Events)
  OBVIOUS
<1>2. Append(s, Head(t)) = s \o <<Head(t)>>
  OBVIOUS
<1>3. s \o <<Head(t)>> \o Tail(t) = s \o (<<Head(t)>> \o Tail(t))
  BY <1>1, ConcatAssociative
<1> QED
  BY <1>2, <1>3, HeadThenTail

LEMMA SentStays ==
  ASSUME NEW s \in Seq(Events), NEW t \in Seq(Events), NEW u \in Seq(Events), u # <<>>
  PROVE  s \o (t \o <<Head(u)>>) \o Tail(u) = s \o t \o u
<1>1. <<Head(u)>> \in Seq(Events) /\ Tail(u) \in Seq(Events) /\ s \o t \in Seq(Events)
  OBVIOUS
<1>2. s \o (t \o <<Head(u)>>) = (s \o t) \o <<Head(u)>>
  BY <1>1, ConcatAssociative
<1>3. (s \o t) \o <<Head(u)>> \o Tail(u) = (s \o t) \o (<<Head(u)>> \o Tail(u))
  BY <1>1, ConcatAssociative
<1> QED
  BY <1>2, <1>3, HeadThenTail

LEMMA OneMoreText ==
  ASSUME NEW k \in Nat
  PROVE  /\ [n \in 1..k |-> Text(n)] \in Seq(Events)
         /\ [n \in 1..k |-> Text(n)] \o <<Text(k + 1)>> = [n \in 1..(k + 1) |-> Text(n)]
<1> DEFINE X(m) == [n \in 1..m |-> Text(n)]
<1>1. X(k) \in Seq(Events) /\ X(k + 1) \in Seq(Events) /\ Len(X(k)) = k /\ Len(X(k + 1)) = k + 1
  BY EventsTyped
<1>2. <<Text(k + 1)>> \in Seq(Events) /\ Len(<<Text(k + 1)>>) = 1
  BY EventsTyped
<1> HIDE DEF X
<1>3. /\ X(k) \o <<Text(k + 1)>> \in Seq(Events)
      /\ Len(X(k) \o <<Text(k + 1)>>) = k + 1
      /\ \A i \in 1..(k + 1) : (X(k) \o <<Text(k + 1)>>)[i] =
                             IF i <= k THEN X(k)[i] ELSE <<Text(k + 1)>>[i - k]
  BY <1>1, <1>2, ConcatProperties
<1>4. \A i \in 1..(k + 1) : (X(k) \o <<Text(k + 1)>>)[i] = X(k + 1)[i]
  BY <1>3 DEF X
<1>5. X(k) \o <<Text(k + 1)>> = X(k + 1)
  BY <1>1, <1>3, <1>4, SeqEqual
<1> QED
  BY <1>1, <1>5 DEF X

\* With nothing left to send, the flow is what was sent; nothing else is due
\* before the loop ends, and when it ends by a panic.
LEMMA FlowSoFar ==
  ASSUME EventTypes, NEW r \in Reqs, pending[r] = <<>>
  PROVE  Flow(r) = got[r] \o channel[r] /\ got[r] \o channel[r] \in Seq(Events)
<1>1. got[r] \in Seq(Events) /\ channel[r] \in Seq(Events)
  BY DEF EventTypes
<1>2. got[r] \o channel[r] \in Seq(Events)
  BY <1>1, ConcatProperties
<1> QED
  BY <1>2, ConcatEmptySeq DEF Flow

LEMMA DueSoFar ==
  ASSUME EventTypes, NEW r \in Reqs, ending[r] = "none"
  PROVE  Due(r) = [n \in 1..texts[r] |-> Text(n)]
<1>1. [n \in 1..texts[r] |-> Text(n)] \in Seq(Events)
  BY OneMoreText DEF EventTypes
<1>2. Due(r) = [n \in 1..texts[r] |-> Text(n)] \o <<>>
  BY DEF Due, TextsThen
<1> QED
  BY <1>1, <1>2, ConcatEmptySeq

---------------------------------------------------------------------------
(* The events of a stream: each step *)

LEMMA StepKeepsCovered ==
  ASSUME EventTypes, NEW r \in Reqs, Covered(r), Step(r)
  PROVE  Covered(r)'
<1>1. /\ at[r] \in Nat /\ upTo[r] \in Nat /\ length[r] \in Nat
      /\ Hop \in Nat /\ Chunk \in Nat /\ Hop <= Chunk
  BY UploadsAssumption DEF EventTypes
<1>2. CASE Window(r)
  <2>1. at[r] < length[r] /\ ending[r] = "none" /\ length' = length
    BY <1>2 DEF Window, MayTranscribe
  <2>2. CASE /\ at'[r] = at[r] + Hop /\ ending'[r] = "none"
             /\ upTo'[r] = IF at[r] <= upTo[r] THEN Smaller(at[r] + Chunk, length[r]) ELSE upTo[r]
    BY <1>1, <2>1, <2>2 DEF Covered, Smaller
  <2>3. CASE at' = at /\ upTo' = upTo /\ ending'[r] = "error"
    BY <1>1, <2>1, <2>3 DEF Covered
  <2> QED
    BY <1>2, <2>1, <2>2, <2>3 DEF Window, NextWindow, EventTypes
<1>3. CASE LastWindow(r)
  BY <1>1, <1>3 DEF LastWindow, Covered, EventTypes
<1>4. CASE /\ UNCHANGED <<length, at, upTo>>
           /\ ending'[r] \in {ending[r], "unread", "panic"}
  BY <1>4 DEF Covered
<1>5. CASE Serve(r) /\ ~Window(r) /\ ~LastWindow(r)
  BY <1>4, <1>5 DEF EventTypes, Serve, Receive, Write, JobEnds, Lend, Refuse, Answer, Decoded,
                    Resampled, Send, Finish, Cleanup, window
<1>6. CASE Take(r) \/ Turn(r) \/ Disconnect(r)
  BY <1>4, <1>6 DEF Take, Turn, Disconnect, window
<1> QED
  BY <1>2, <1>3, <1>5, <1>6 DEF Step

LEMMA StepKeepsOrdered ==
  ASSUME FileTypes, EventTypes, NEW r \in Sse, Ordered(r), Step(r)
  PROVE  Ordered(r)'
<1>1. r \in Reqs /\ r \notin Rest
  BY UploadsAssumption DEF Reqs
<1> USE <1>1 DEF FileTypes, EventTypes, Ordered, Untouched, PCs, Jobs,
                 Goto, Run, NoJob, Create, Remove, Release, window
<1>2. CASE Receive(r) \/ Write(r)
  BY <1>2 DEF Receive, Write
<1>3. CASE JobEnds(r)
  BY <1>3 DEF JobEnds, AtWork, MayTranscribe
<1>4. CASE Lend(r)
  BY <1>4 DEF Lend
<1>5. CASE Refuse(r)
  BY <1>5 DEF Refuse
<1>6. CASE Decoded(r) \/ Resampled(r)
  BY <1>6 DEF Decoded, Resampled
<1>7. CASE Window(r) \/ LastWindow(r) \/ Send(r)
  BY <1>7 DEF Window, LastWindow, Send, AtWork
<1>8. CASE Finish(r) \/ Cleanup(r) \/ Answer(r)
  BY <1>8 DEF Finish, Cleanup, Answer, AtWork
<1>9. CASE Take(r) \/ Turn(r)
  BY <1>9 DEF Take, Turn
<1>10. CASE Disconnect(r)
  BY <1>10 DEF Disconnect, InHandler
<1> QED
  BY <1>2, <1>3, <1>4, <1>5, <1>6, <1>7, <1>8, <1>9, <1>10 DEF Step, Serve

LEMMA WindowKeepsTold ==
  ASSUME FileTypes, EventTypes, NEW r \in Sse, Told(r), Window(r) \/ LastWindow(r)
  PROVE  Told(r)'
<1> SUFFICES ASSUME client[r] # "gone"
             PROVE  ending'[r] # "unread" /\ Flow(r)' = Due(r)'
  BY DEF Window, LastWindow, AtWork, Told
<1> DEFINE X == [n \in 1..texts[r] |-> Text(n)]
           sent == got[r] \o channel[r]
<1>1. /\ r \in Reqs /\ texts[r] \in Nat /\ pc[r] = "inferring"
      /\ pending[r] = <<>> /\ ending[r] = "none"
      /\ got' = got /\ channel' = channel
  BY DEF Reqs, Window, LastWindow, AtWork, MayTranscribe, EventTypes
<1>2. X = sent /\ X \in Seq(Events)
  <2>1. Flow(r) = Due(r)
    BY <1>1 DEF Told
  <2> QED
    BY <1>1, <2>1, FlowSoFar, DueSoFar
<1>3. Flow(r)' = X \o pending'[r]
  BY <1>1, <1>2 DEF Flow
<1>4. CASE pending'[r] = <<>> /\ texts'[r] = texts[r] /\ ending'[r] = "none"
  BY <1>3, <1>4 DEF Due, TextsThen
<1>5. CASE pending'[r] = <<Text(texts[r] + 1)>> /\ texts'[r] = texts[r] + 1 /\ ending'[r] = "none"
  <2>1. Due(r)' = [n \in 1..(texts[r] + 1) |-> Text(n)] \o <<>>
    BY <1>5 DEF Due, TextsThen
  <2>2. [n \in 1..(texts[r] + 1) |-> Text(n)] \in Seq(Events)
    <3>1. texts[r] + 1 \in Nat
      BY <1>1
    <3> HIDE DEF X, sent
    <3> QED
      BY <3>1, OneMoreText
  <2>3. X \o <<Text(texts[r] + 1)>> = [n \in 1..(texts[r] + 1) |-> Text(n)]
    BY <1>1, OneMoreText
  <2> QED
    BY <1>3, <1>5, <2>1, <2>2, <2>3, ConcatEmptySeq
<1>6. CASE pending'[r] = <<Error, Final(texts[r])>> /\ texts'[r] = texts[r] /\ ending'[r] = "error"
  BY <1>3, <1>6 DEF Due, TextsThen
<1>7. CASE pending'[r] = <<Final(texts[r])>> /\ texts'[r] = texts[r] /\ ending'[r] = "whole"
  BY <1>3, <1>7 DEF Due, TextsThen
<1>8. \/ pending'[r] = <<>> /\ texts'[r] = texts[r] /\ ending'[r] = "none"
      \/ pending'[r] = <<Text(texts[r] + 1)>> /\ texts'[r] = texts[r] + 1 /\ ending'[r] = "none"
      \/ pending'[r] = <<Error, Final(texts[r])>> /\ texts'[r] = texts[r] /\ ending'[r] = "error"
      \/ pending'[r] = <<Final(texts[r])>> /\ texts'[r] = texts[r] /\ ending'[r] = "whole"
  BY <1>1 DEF Window, LastWindow, EventTypes
<1> QED
  BY <1>4, <1>5, <1>6, <1>7, <1>8

\* A step that changes neither the flow nor what is due.
LEMMA SameFlowKeepsTold ==
  ASSUME NEW r \in Sse, Told(r), Flow(r)' = Flow(r), Due(r)' = Due(r), pc'[r] = pc[r],
         client'[r] = "gone" <=> client[r] = "gone",
         client[r] = "gone" \/ ending'[r] = ending[r]
  PROVE  Told(r)'
BY DEF Told

LEMMA TransportKeepsTold ==
  ASSUME FileTypes, EventTypes, NEW r \in Sse, Told(r), Send(r) \/ Take(r)
  PROVE  Told(r)'
<1>1. /\ r \in Reqs /\ UNCHANGED <<pc, client, texts>>
      /\ got[r] \in Seq(Events) /\ channel[r] \in Seq(Events) /\ pending[r] \in Seq(Events)
  BY DEF Reqs, EventTypes, Send, Take, window
<1>2. CASE client[r] = "gone"
  BY <1>1, <1>2 DEF Told
<1>3. CASE client[r] # "gone" /\ Send(r)
  <2>1. /\ pending[r] # <<>> /\ UNCHANGED <<got, ending>>
        /\ pending' = [pending EXCEPT ![r] = Tail(pending[r])]
        /\ channel' = [channel EXCEPT ![r] = channel[r] \o <<Head(pending[r])>>]
    BY <1>3 DEF Send, Sent
  <2>2. Flow(r)' = got[r] \o (channel[r] \o <<Head(pending[r])>>) \o Tail(pending[r])
    BY <1>1, <2>1 DEF EventTypes, Flow
  <2>3. Flow(r)' = Flow(r)
    BY <1>1, <2>1, <2>2, SentStays DEF Flow
  <2> QED
    BY <1>1, <2>1, <2>3, SameFlowKeepsTold DEF Due, TextsThen
<1>4. CASE client[r] # "gone" /\ Take(r)
  <2>1. /\ channel[r] # <<>> /\ UNCHANGED <<pending, ending>>
        /\ got' = [got EXCEPT ![r] = Append(got[r], Head(channel[r]))]
        /\ channel' = [channel EXCEPT ![r] = Tail(channel[r])]
    BY <1>4 DEF Take, window
  <2>2. Flow(r)' = Append(got[r], Head(channel[r])) \o Tail(channel[r]) \o pending[r]
    BY <1>1, <2>1 DEF EventTypes, Flow
  <2>3. Flow(r)' = Flow(r)
    BY <1>1, <2>1, <2>2, TakenStays DEF Flow
  <2> QED
    BY <1>1, <2>1, <2>3, SameFlowKeepsTold DEF Due, TextsThen
<1> QED
  BY <1>2, <1>3, <1>4

\* Where a stream begins and ends: the session is leased or refused, the file is
\* unusable, the job ends and the task cleans up.
LEMMA PassageKeepsTold ==
  ASSUME FileTypes, EventTypes, NEW r \in Sse, Ordered(r), Told(r),
         Receive(r) \/ Write(r) \/ Decoded(r) \/ Resampled(r) \/ Lend(r) \/ Refuse(r) \/ Cleanup(r)
  PROVE  Told(r)'
<1>1. r \in Reqs /\ pc'[r] \in PCs /\ UNCHANGED <<client, got, window>>
  BY DEF Reqs, FileTypes, PCs, Goto, Receive, Write, Decoded, Resampled, Lend, Refuse, Cleanup
<1> SUFFICES ASSUME client[r] # "gone", pc'[r] \in {"inferring", "done"} PROVE Told(r)'
  BY <1>1 DEF Told, window
<1>2. CASE Cleanup(r)
  <2>1. /\ pc[r] = "inferring" /\ job[r] # "running" /\ pc'[r] = "done" /\ channel' = channel
    BY <1>1, <1>2 DEF Cleanup, Goto, FileTypes
  <2>2. Flow(r)' = Flow(r) /\ Due(r)' = Due(r) /\ ending' = ending /\ ending[r] # "none"
    BY <1>1, <2>1 DEF Flow, Due, TextsThen, window, Ordered
  <2> QED
    BY <1>1, <2>1, <2>2 DEF Told
<1>3. CASE ~Cleanup(r)
  <2>1. Untouched(r)
    BY <1>3 DEF Ordered, Receive, Write, Decoded, Resampled, Lend, Refuse
  <2>2. texts'[r] = 0 /\ ending'[r] = "none" /\ pending'[r] = <<>> /\ got'[r] = <<>>
    BY <1>1, <2>1 DEF window, Untouched
  <2>3. Flow(r)' = channel'[r] \/ channel'[r] \notin Seq(Events)
    BY <2>2, ConcatEmptySeq DEF Flow
  <2>4. CASE Refuse(r)
    <3>1. pc'[r] = "done" /\ Sent(r, <<Error>>)
      BY <1>1, <2>4 DEF Refuse, Goto, FileTypes
    <3>2. channel'[r] = <<>> \o <<Error>>
      BY <1>1, <2>1, <3>1, SentTyped, EventsTyped DEF Untouched
    <3>3. channel'[r] = <<Error>> /\ <<Error>> \in Seq(Events)
      BY <3>2, EventsTyped, EventSeqs, ConcatEmptySeq
    <3> QED
      BY <2>2, <2>3, <3>1, <3>3 DEF Told
  <2>5. CASE ~Refuse(r)
    <3>1. channel'[r] = <<>>
      BY <1>3, <2>1, <2>5 DEF Receive, Write, Decoded, Resampled, Lend, Untouched
    <3>2. Flow(r)' = <<>>
      BY <2>3, <3>1, EventSeqs
    <3>3. Due(r)' = <<>>
      <4>1. [n \in 1..0 |-> Text(n)] = <<>>
        OBVIOUS
      <4>2. Due(r)' = [n \in 1..0 |-> Text(n)] \o <<>>
        BY <2>2 DEF Due, TextsThen
      <4> QED
        BY <4>1, <4>2, EventSeqs, ConcatEmptySeq
    <3> QED
      BY <2>2, <3>2, <3>3 DEF Told
  <2> QED
    BY <2>4, <2>5
<1> QED
  BY <1>2, <1>3

LEMMA StepKeepsTold ==
  ASSUME FileTypes, EventTypes, NEW r \in Sse, Ordered(r), Told(r), Step(r)
  PROVE  Told(r)'
<1>1. r \in Reqs /\ r \notin Rest
  BY UploadsAssumption DEF Reqs
<1>2. CASE JobEnds(r)
  <2>1. UNCHANGED <<pc, client, texts, got, channel, pending>>
    BY <1>2 DEF JobEnds
  <2>2. ending'[r] = ending[r] \/ (ending[r] = "none" /\ ending'[r] = "panic" /\ pc[r] = "inferring")
    BY <1>1, <1>2 DEF JobEnds, AtWork, MayTranscribe, EventTypes
  <2>3. Flow(r)' = Flow(r) /\ Due(r)' = Due(r)
    BY <2>1, <2>2 DEF Flow, Due, TextsThen
  <2> QED
    BY <2>1, <2>2, <2>3 DEF Told
<1>3. CASE Finish(r) \/ Turn(r)
  <2>1. UNCHANGED <<pc, got, channel, window>> /\ (client'[r] = "gone" <=> client[r] = "gone")
    BY <1>1, <1>3 DEF Finish, Turn, EventTypes
  <2>2. Flow(r)' = Flow(r) /\ Due(r)' = Due(r)
    BY <2>1 DEF Flow, Due, TextsThen, window
  <2> QED
    BY <2>1, <2>2, SameFlowKeepsTold DEF window
<1>4. CASE Disconnect(r)
  BY <1>1, <1>4 DEF Disconnect, Told, EventTypes
<1>5. CASE Answer(r)
  BY <1>1, <1>5 DEF Answer
<1> QED
  BY <1>2, <1>3, <1>4, <1>5, WindowKeepsTold, TransportKeepsTold, PassageKeepsTold
  DEF Step, Serve

LEMMA StepKeepsFits ==
  ASSUME FileTypes, EventTypes, NEW r \in Reqs, Fits(r), r \in Sse => Ordered(r), Step(r)
  PROVE  Fits(r)'
<1>1. channel[r] \in Seq(Events) /\ Capacity \in Nat \ {0}
  BY UploadsAssumption DEF EventTypes
<1>2. CASE channel'[r] = channel[r]
  BY <1>2 DEF Fits
<1>3. CASE Refuse(r) /\ r \in Sse
  <2>1. channel[r] = <<>> /\ Sent(r, <<Error>>)
    BY <1>3 DEF Refuse, Ordered, Untouched
  <2>2. channel'[r] = <<>> \/ channel'[r] = <<>> \o <<Error>>
    BY <2>1, SentTyped, EventsTyped
  <2>3. <<>> \o <<Error>> = <<Error>>
    BY EventsTyped, EventSeqs, ConcatEmptySeq
  <2>4. channel'[r] = <<>> \/ channel'[r] = <<Error>>
    BY <2>2, <2>3
  <2>5. Len(<<>>) = 0 /\ Len(<<Error>>) = 1
    OBVIOUS
  <2>6. Len(channel'[r]) = 0 \/ Len(channel'[r]) = 1
    BY <2>4, <2>5
  <2>7. Capacity \in Nat /\ Capacity >= 1
    BY UploadsAssumption
  <2> DEFINE events == Len(channel'[r])
  <2>8. events <= Capacity
    <3>1. events = 0 \/ events = 1
      BY <2>6
    <3> HIDE DEF events
    <3> QED
      BY <2>7, <3>1
  <2> QED
    BY <2>8 DEF Fits
<1>4. CASE Send(r)
  <2>1. Head(pending[r]) \in Events /\ Sent(r, <<Head(pending[r])>>)
    BY <1>4, HeadTailProperties DEF Send, EventTypes
  <2>2. CASE client[r] = "gone"
    BY <1>2, <2>1, <2>2, SentTyped
  <2>3. CASE client[r] # "gone"
    <3>1. Len(channel[r]) < Capacity /\ channel'[r] = channel[r] \o <<Head(pending[r])>>
      BY <1>4, <2>1, <2>3, SentTyped DEF Send
    <3>2. Len(channel'[r]) = Len(channel[r]) + 1
      BY <1>1, <2>1, <3>1
    <3> QED
      BY <1>1, <3>1, <3>2 DEF Fits
  <2> QED
    BY <2>2, <2>3
<1>5. CASE Take(r)
  <2>1. channel[r] # <<>> /\ channel'[r] = Tail(channel[r])
    BY <1>5 DEF Take, EventTypes
  <2>2. Len(channel'[r]) = Len(channel[r]) - 1 /\ Len(channel[r]) \in Nat
    BY <1>1, <2>1
  <2> QED
    BY <1>1, <2>2 DEF Fits
<1>6. CASE Disconnect(r)
  <2>1. channel'[r] = <<>>
    BY <1>6 DEF Disconnect, EventTypes
  <2> QED
    BY <1>1, <2>1 DEF Fits
<1>7. CASE Serve(r) /\ ~Send(r) /\ ~(Refuse(r) /\ r \in Sse)
  BY <1>2, <1>7 DEF Serve, Receive, Write, JobEnds, Lend, Refuse, Answer, Decoded, Resampled,
                    Window, LastWindow, Finish, Cleanup
<1>8. CASE Turn(r)
  BY <1>2, <1>8 DEF Turn
<1> QED
  BY <1>3, <1>4, <1>5, <1>6, <1>7, <1>8 DEF Step

\* Only Lend leases a session, and it counts them first.
LEMMA StepKeepsLeases ==
  ASSUME FileTypes, LeasesCounted, NEW r \in Reqs, Step(r)
  PROVE  LeasesCounted'
<1> DEFINE Old == {s \in Reqs : held[s]}
           New == {s \in Reqs : held'[s]}
<1>1. IsFiniteSet(Old) /\ Cardinality(Old) \in Nat /\ PoolSize \in Nat
  <2>1. IsFiniteSet(Reqs)
    BY UploadsAssumption, FS_Union DEF Reqs
  <2>2. IsFiniteSet(Old)
    BY <2>1, FS_Subset
  <2> QED
    BY <2>2, FS_CardinalityType, UploadsAssumption
<1>2. CASE Lend(r)
  <2>1. New = Old \union {r} /\ Cardinality(Old) < PoolSize
    BY <1>2 DEF Lend, FileTypes
  <2> HIDE DEF Old, New
  <2>2. Cardinality(New) = IF r \in Old THEN Cardinality(Old) ELSE Cardinality(Old) + 1
    BY <1>1, <2>1, FS_AddElement
  <2>3. Cardinality(New) <= PoolSize
    BY <1>1, <2>1, <2>2
  <2> QED
    BY <2>3 DEF New, LeasesCounted
<1>3. CASE ~Lend(r)
  <2>1. held' = held \/ held' = [held EXCEPT ![r] = FALSE]
    BY <1>3, QuietSteps DEF Step, Serve, Receive, Write, JobEnds, Refuse, Answer, Decoded,
       Resampled, Finish, Cleanup, Disconnect, Release
  <2>2. New \in SUBSET Old
    BY <2>1 DEF FileTypes
  <2> HIDE DEF Old, New
  <2>3. Cardinality(New) <= Cardinality(Old) /\ Cardinality(New) \in Nat
    BY <1>1, <2>2, FS_Subset, FS_CardinalityType
  <2>4. Cardinality(Old) <= PoolSize
    BY DEF Old, LeasesCounted
  <2>5. Cardinality(New) <= PoolSize
    BY <1>1, <2>3, <2>4
  <2> QED
    BY <2>5 DEF New, LeasesCounted
<1> QED
  BY <1>2, <1>3

LEMMA InitEstablishesStreamInv == Init => StreamInv
<1> SUFFICES ASSUME Init PROVE StreamInv
  OBVIOUS
<1>1. FileTypes
  BY DEF Init, FileTypes, PCs, Jobs
<1>2. EventTypes
  BY UploadsAssumption, EventSeqs DEF Init, EventTypes
<1>3. \A r \in Reqs : Fits(r)
  BY UploadsAssumption DEF Init, Fits
<1>4. ASSUME NEW r \in Sse PROVE StreamOf(r)
  <2>1. r \in Reqs
    BY DEF Reqs
  <2>2. length[r] \in Nat
    BY <1>2, <2>1 DEF EventTypes
  <2> QED
    BY <2>1, <2>2 DEF Init, StreamOf, Covered, Ordered, Untouched, Told
<1>5. LeasesCounted
  <2>1. {r \in Reqs : held[r]} = {}
    BY DEF Init
  <2> QED
    BY <2>1, FS_EmptySet, UploadsAssumption DEF LeasesCounted
<1> QED
  BY <1>1, <1>2, <1>3, <1>4, <1>5 DEF StreamInv

LEMMA NextKeepsStreamInv == StreamInv /\ [Next]_vars => StreamInv'
<1> SUFFICES ASSUME StreamInv, [Next]_vars PROVE StreamInv'
  OBVIOUS
<1>1. ASSUME NEW r \in Reqs, Step(r) PROVE StreamInv'
  <2>1. FileTypes' /\ EventTypes' /\ \A s \in Reqs \ {r} : SameAt(s) /\ SameStreamAt(s)
    BY <1>1, StepKeepsTypes, StepKeepsEventTypes DEF StreamInv
  <2>2. \A s \in Reqs : Fits(s)'
    <3>1. Fits(r)'
      BY <1>1, StepKeepsFits DEF StreamInv, StreamOf
    <3>2. \A s \in Reqs \ {r} : Fits(s)'
      BY <2>1 DEF StreamInv, Fits, SameStreamAt
    <3> QED
      BY <3>1, <3>2
  <2>3. LeasesCounted'
    BY <1>1, StepKeepsLeases DEF StreamInv
  <2>4. ASSUME NEW s \in Sse PROVE StreamOf(s)'
    <3>1. CASE s = r
      BY <1>1, <3>1, StepKeepsCovered, StepKeepsOrdered, StepKeepsTold DEF StreamInv, StreamOf
    <3>2. CASE s # r
      <4>1. SameAt(s) /\ SameStreamAt(s) /\ StreamOf(s)
        BY <2>1, <3>2 DEF Reqs, StreamInv
      <4> QED
        BY <4>1 DEF SameAt, SameStreamAt, StreamOf, Covered, Ordered, Untouched, Told,
                    Flow, Due, TextsThen
    <3> QED
      BY <3>1, <3>2
  <2> QED
    BY <2>1, <2>2, <2>3, <2>4 DEF StreamInv
<1>2. CASE UNCHANGED vars
  <2> USE <1>2 DEF vars, window
  <2>1. FileTypes' /\ EventTypes' /\ LeasesCounted' /\ \A r \in Reqs : Fits(r)'
    BY DEF StreamInv, FileTypes, EventTypes, LeasesCounted, Fits
  <2>2. \A r \in Sse : StreamOf(r)'
    BY DEF StreamInv, StreamOf, Covered, Ordered, Untouched, Told, Flow, Due, TextsThen
  <2> QED
    BY <2>1, <2>2 DEF StreamInv
<1> QED
  BY <1>1, <1>2 DEF Next, Step

LEMMA StreamInvariance == Spec => []StreamInv
BY InitEstablishesStreamInv, NextKeepsStreamInv, PTL DEF Spec

---------------------------------------------------------------------------
(* Theorems about streams *)

\* Everything stays within its type; a channel holds no more than it has room
\* for, and no more sessions are leased than the pool has.
THEOREM TypeCorrect == Spec => []TypeOK
<1>1. StreamInv => TypeOK
  BY DEF StreamInv, FileTypes, EventTypes, Fits, LeasesCounted, TypeOK
<1> QED
  BY <1>1, StreamInvariance, PTL

\* A client that reads a stream to its end holds all texts in order, an error if
\* a window failed, and the final event over exactly these texts; and a stream
\* that ended without an error covered the audio without a gap.
THEOREM StreamsComplete == Spec => []StreamComplete
<1>1. StreamInv => StreamComplete
  <2> SUFFICES ASSUME StreamInv, NEW r \in Sse,
                      Over(r), client[r] # "gone"
               PROVE  got[r] = CASE ending[r] = "whole" -> TextsThen(r, <<Final(texts[r])>>)
                                 [] ending[r] = "error" -> TextsThen(r, <<Error, Final(texts[r])>>)
                                 [] ending[r] = "panic" -> TextsThen(r, <<>>)
                                 [] ending[r] = "none"  -> IF got[r] = <<>> THEN <<>> ELSE <<Error>>
    BY DEF StreamInv, StreamOf, Covered, StreamComplete
  <2>1. /\ r \in Reqs /\ EventTypes /\ pending[r] = <<>> /\ channel[r] = <<>>
        /\ ending[r] \in {"none", "whole", "error", "panic"}
        /\ IF ending[r] = "none" THEN Flow(r) \in {<<>>, <<Error>>} ELSE Flow(r) = Due(r)
    BY DEF Reqs, Over, StreamInv, StreamOf, Ordered, Told, EventTypes
  <2>2. Flow(r) = got[r]
    <3>1. got[r] \in Seq(Events)
      BY <2>1 DEF EventTypes
    <3>2. got[r] \o <<>> = got[r]
      BY <3>1, ConcatEmptySeq
    <3> QED
      BY <2>1, <3>2, FlowSoFar
  <2>3. CASE ending[r] = "none"
    BY <2>1, <2>2, <2>3
  <2>4. CASE ending[r] = "whole"
    BY <2>1, <2>2, <2>4 DEF Due
  <2>5. CASE ending[r] = "error"
    BY <2>1, <2>2, <2>5 DEF Due
  <2>6. CASE ending[r] = "panic"
    BY <2>1, <2>2, <2>6 DEF Due
  <2> QED
    BY <2>1, <2>3, <2>4, <2>5, <2>6
<1> QED
  BY <1>1, StreamInvariance, PTL
=============================================================================
