-------------------------- MODULE WsSessionProofs --------------------------
(***************************************************************************)
(* For any finite number of connections and any size of the pool: types and *)
(* leases are right, no handler waits while it holds a session, speech is   *)
(* reported before a socket is closed, and Stop is answered.                *)
(*                                                                         *)
(* Handlers meet only in the pool, so all but the number of leases is an    *)
(* invariant of one connection: an action of another one leaves it alone    *)
(* (OthersUnchanged), and one step per action remains.                      *)
(*                                                                         *)
(* All of it also holds of the sessions of a server that is stopped in any  *)
(* way its owner may, until its process ends.                               *)
(***************************************************************************)
EXTENDS ServerLifecycle, FiniteSetTheorems, SequenceTheorems, TLAPS

---------------------------------------------------------------------------
(* The invariant of a connection *)

\* What is left to send is sent in one place, and a session is held only there
\* or in the inference.
Tidy(c) ==
    /\ pc[c] # "send" => out[c] = <<>>
    /\ held[c] => pc[c] \in {"send", "infer"}

Settled(c) == left[c] = "speech" => "post" \in lapses[c] \/ client[c] = "gone"

\* No speech before there is a session, and none left once the last
\* finalization was through.
Pending(c) ==
    /\ pc[c] = "create" => goal[c] = "greet"
    /\ goal[c] \in {"greet", "refuse"} => left[c] = "nothing"
    /\ pc[c] \in {"close", "closed"} \/ (pc[c] = "send" /\ goal[c] = "post")
       => Settled(c)

\* What the client was told since Stop and will be told next.
Told(c) == answer[c] \o out[c]

\* What it was told before the last finalization, and what that may still report.
OpenAnswer(c) ==
    IF "stop" \in lapses[c]
    THEN \/ Told(c) = <<"empty">> /\ left[c] = asked[c]
         \/ Told(c) = <<"error", "empty">> /\ asked[c] # "nothing"
    ELSE \/ Told(c) = <<"empty">> /\ asked[c] # "speech" /\ left[c] = "nothing"
         \/ Told(c) = <<"final">> /\ asked[c] # "nothing" /\ left[c] # "speech"

\* What it was told in all.
FullAnswer(c) ==
    /\ Told(c) \in IF "stop" \in lapses[c] THEN LapsedAnswers(asked[c])
                                            ELSE ServedAnswers(asked[c])
    /\ asked[c] = "speech" /\ Told(c) = <<"empty">> => "post" \in lapses[c]

\* How far the answer to Stop is, by what the handler is about.
Progress(c) ==
    /\ goal[c] = "stop" /\ pc[c] # "send" =>
          Told(c) = <<>> /\ "stop" \notin lapses[c] /\ left[c] = asked[c]
    /\ goal[c] = "stop" /\ pc[c] = "send" =>
          /\ Told(c) = <<"final">>
          /\ "stop" \notin lapses[c]
          /\ asked[c] # "nothing" /\ left[c] # "speech"
    /\ goal[c] = "unstopped" =>
          Told(c) = <<"error">> /\ "stop" \in lapses[c] /\ asked[c] # "nothing"
    /\ goal[c] = "empty" => OpenAnswer(c)
    /\ goal[c] = "post" => IF pc[c] \in {"checkout", "infer"} THEN OpenAnswer(c)
                                                             ELSE FullAnswer(c)

\* From its Stop on a handler only finalizes, answers and ends.
Answering(c) ==
    /\ asked[c] = "no" =>
          /\ answer[c] = <<>>
          /\ "stop" \notin lapses[c]
          /\ goal[c] # "stop"
    /\ asked[c] # "no" =>
          \/ goal[c] = "stop" /\ pc[c] \in {"checkout", "infer", "send"}
          \/ goal[c] \in {"unstopped", "empty"} /\ pc[c] = "send"
          \/ goal[c] = "post" /\ pc[c] \in {"checkout", "infer", "send", "close", "closed"}
    /\ asked[c] # "no" /\ client[c] # "gone" => Progress(c)

WsInv ==
    /\ TypeOK
    /\ \A c \in Conns : Tidy(c)
    /\ \A c \in Observed : Pending(c) /\ Answering(c)

---------------------------------------------------------------------------
(* Types and leases *)

\* A step that leases no session leases none too many.
LEMMA ReleaseKeepsLeases ==
  ASSUME TypeOK, \A d \in Conns : held'[d] => held[d]
  PROVE  Cardinality({d \in Conns : held'[d]}) <= PoolSize
<1> DEFINE Old == {d \in Conns : held[d]}
           New == {d \in Conns : held'[d]}
<1>1. IsFiniteSet(Old) /\ New \in SUBSET Old
  BY WsAssumption, FS_Subset
<1>2. Cardinality(New) <= Cardinality(Old) /\ IsFiniteSet(New)
  BY <1>1, FS_Subset
<1>3. Cardinality(New) \in Nat /\ Cardinality(Old) \in Nat /\ PoolSize \in Nat
  BY <1>1, <1>2, FS_CardinalityType, WsAssumption
<1>4. Cardinality(Old) <= PoolSize
  BY DEF TypeOK
<1> QED
  BY <1>2, <1>3, <1>4

LEMMA LendKeepsLeases ==
  ASSUME TypeOK, NEW c \in Conns, Lend(c)
  PROVE  Cardinality({d \in Conns : held'[d]}) <= PoolSize
<1> DEFINE Old == {d \in Conns : held[d]}
           New == {d \in Conns : held'[d]}
<1>1. IsFiniteSet(Old)
  BY WsAssumption, FS_Subset
<1>2. New = Old \union {c}
  BY DEF Lend, Lease, TypeOK
<1> HIDE DEF Old, New
<1>3. /\ IsFiniteSet(New)
      /\ Cardinality(New) = IF c \in Old THEN Cardinality(Old) ELSE Cardinality(Old) + 1
  BY <1>1, <1>2, FS_AddElement
<1>4. Cardinality(New) \in Nat /\ Cardinality(Old) \in Nat /\ PoolSize \in Nat
  BY <1>1, <1>3, FS_CardinalityType, WsAssumption
<1>5. Cardinality(Old) < PoolSize
  BY DEF Lend, Old
<1> QED
  BY <1>3, <1>4, <1>5 DEF New
\* The types alone, without the bound on the leases.
Types ==
    /\ pc \in [Conns -> PCs]
    /\ goal \in [Conns -> Goals]
    /\ out \in [Conns -> Seq(Messages)]
    /\ held \in [Conns -> BOOLEAN]
    /\ left \in [Conns -> Lefts]
    /\ age \in [Conns -> 0..(MaxSession + 1)]
    /\ client \in [Conns -> {"reading", "stalled", "gone"}]
    /\ cancelled \in BOOLEAN
    /\ asked \in [Conns -> {"no"} \union Lefts]
    /\ answer \in [Conns -> Seq(Messages)]
    /\ lapses \in [Conns -> SUBSET {"stop", "post"}]

LEMMA TypesOfTypeOK ==
  TypeOK <=> Types /\ Cardinality({c \in Conns : held[c]}) <= PoolSize
BY DEF TypeOK, Types

\* What a handler sends is made of messages.
LEMMA RepliesTyped ==
  /\ \A msgs \in Replies : msgs \in Seq(Messages)
  /\ <<"ready">> \in Seq(Messages) /\ <<"error">> \in Seq(Messages)
  /\ <<"empty">> \in Seq(Messages) /\ <<>> \in Seq(Messages)
  /\ <<"final">> \in Seq(Messages)
<1>1. \A m \in Messages : <<m>> \in Seq(Messages)
  OBVIOUS
<1>2. \A m, n \in Messages : <<m, n>> \in Seq(Messages)
  OBVIOUS
<1>3. <<>> \in Seq(Messages)
  OBVIOUS
<1> QED
  BY <1>1, <1>2, <1>3 DEF Replies, Messages

\* Where a handler goes and what it is to send.
CourseTyped ==
    /\ pc \in [Conns -> PCs]
    /\ goal \in [Conns -> Goals]
    /\ out \in [Conns -> Seq(Messages)]

LEMMA ReplyTyped ==
  ASSUME Types, NEW c \in Conns, NEW what \in Goals, NEW msgs \in Seq(Messages),
         Reply(c, what, msgs)
  PROVE  CourseTyped'
BY DEF Reply, Goto, CourseTyped, Types, PCs

LEMMA GotoTyped ==
  ASSUME Types, NEW c \in Conns, NEW where \in PCs, NEW what \in Goals,
         Goto(c, where, what), UNCHANGED out
  PROVE  CourseTyped'
BY DEF Goto, CourseTyped, Types

LEMMA RequestTyped ==
  ASSUME Types, NEW c \in Conns, NEW what \in Goals, Request(c, what)
  PROVE  CourseTyped'
BY GotoTyped DEF Request, PCs

LEMMA GoesOnTyped ==
  ASSUME Types, NEW c \in Conns, GoesOn(c)
  PROVE  CourseTyped'
<1>1. CASE goal[c] = "unstopped" /\ Reply(c, "empty", <<"empty">>)
  BY <1>1, ReplyTyped, RepliesTyped DEF Goals
<1>2. CASE Request(c, "post")
  BY <1>2, RequestTyped DEF Goals
<1>3. ASSUME NEW where \in PCs, NEW what \in Goals, Goto(c, where, what), UNCHANGED out
      PROVE  CourseTyped'
  BY <1>3, GotoTyped
<1> QED
  BY <1>1, <1>2, <1>3 DEF GoesOn, PCs, Goals

HistoryTyped ==
    /\ asked \in [Conns -> {"no"} \union Lefts]
    /\ answer \in [Conns -> Seq(Messages)]
    /\ lapses \in [Conns -> SUBSET {"stop", "post"}]

\* What else a handler changes.
RestTyped ==
    /\ held \in [Conns -> BOOLEAN]
    /\ left \in [Conns -> Lefts]
    /\ age \in [Conns -> 0..(MaxSession + 1)]
    /\ client \in [Conns -> {"reading", "stalled", "gone"}]
    /\ cancelled \in BOOLEAN
    /\ HistoryTyped

LEMMA LapseTyped ==
  ASSUME Types, NEW c \in Conns, NEW when \in {"stop", "post"},
         Lapse(c, when) \/ UNCHANGED history
  PROVE  HistoryTyped'
<1>1. UNCHANGED <<asked, answer>>
  BY DEF Lapse, history
<1>2. lapses' = lapses \/ lapses' = [lapses EXCEPT ![c] = @ \union {when}]
  BY DEF Lapse, history
<1>3. lapses[c] \union {when} \in SUBSET {"stop", "post"}
  BY DEF Types
<1>4. lapses' \in [Conns -> SUBSET {"stop", "post"}]
  BY <1>2, <1>3 DEF Types
<1> QED
  BY <1>1, <1>4 DEF HistoryTyped, Types

LEMMA SendsKeepTypes ==
  ASSUME Types, NEW c \in Conns, Deliver(c) \/ SendInVain(c) \/ AllSent(c)
  PROVE  CourseTyped' /\ RestTyped'
<1>1. CASE Deliver(c)
  <2>1. Head(out[c]) \in Messages /\ Tail(out[c]) \in Seq(Messages)
    BY <1>1, HeadTailProperties DEF Deliver, Types
  <2>2. Append(answer[c], Head(out[c])) \in Seq(Messages)
    BY <2>1, AppendProperties DEF Types
  <2>3. CourseTyped'
    BY <1>1, <2>1 DEF Deliver, CourseTyped, Types
  <2>4. RestTyped'
    BY <1>1, <2>2 DEF Deliver, Receive, RestTyped, HistoryTyped, Types
  <2> QED
    BY <2>3, <2>4
<1>2. CASE SendInVain(c)
  <2>1. Tail(out[c]) \in Seq(Messages)
    BY <1>2, HeadTailProperties DEF SendInVain, Types
  <2>2. CourseTyped'
    <3>1. CASE out' = [out EXCEPT ![c] = Tail(@)] /\ UNCHANGED <<pc, goal>>
      BY <2>1, <3>1 DEF CourseTyped, Types
    <3>2. CASE Goto(c, "closed", goal[c]) /\ out' = [out EXCEPT ![c] = <<>>]
      BY <3>2, RepliesTyped DEF Goto, CourseTyped, Types, PCs
    <3> QED
      BY <1>2, <3>1, <3>2 DEF SendInVain
  <2>3. RestTyped'
    BY <1>2 DEF SendInVain, Release, history, RestTyped, HistoryTyped, Types
  <2> QED
    BY <2>2, <2>3
<1>3. CASE AllSent(c)
  <2>1. CourseTyped'
    BY <1>3, GoesOnTyped DEF AllSent
  <2>2. RestTyped'
    BY <1>3 DEF AllSent, Release, history, RestTyped, HistoryTyped, Types
  <2> QED
    BY <2>1, <2>2
<1> QED
  BY <1>1, <1>2, <1>3

LEMMA LoopKeepsTypes ==
  ASSUME Types, NEW c \in Conns,
         \/ Create(c) \/ Interrupted(c) \/ Cap(c) \/ Refuse(c) \/ Frame(c)
         \/ Stop(c) \/ Bye(c) \/ CloseSocket(c)
  PROVE  CourseTyped' /\ RestTyped'
<1>1. CourseTyped'
  <2>1. CASE Create(c)
    BY <2>1, GotoTyped, ReplyTyped, RepliesTyped DEF Create, PCs, Goals
  <2>2. CASE Cap(c) \/ Refuse(c)
    BY <2>2, ReplyTyped, RepliesTyped DEF Cap, Refuse, Goals
  <2>3. CASE Interrupted(c) \/ Frame(c) \/ Stop(c) \/ Bye(c)
    BY <2>3, RequestTyped DEF Interrupted, Frame, Stop, Bye, Goals
  <2>4. CASE CloseSocket(c)
    BY <2>4, GotoTyped DEF CloseSocket, PCs, Types
  <2> QED
    BY <2>1, <2>2, <2>3, <2>4
<1>2. RestTyped'
  <2> USE DEF RestTyped, HistoryTyped, Types, history
  <2>1. CASE Create(c) \/ Interrupted(c) \/ Cap(c) \/ Refuse(c) \/ Frame(c) \/ CloseSocket(c)
    BY <2>1 DEF Create, Interrupted, Cap, Refuse, Frame, CloseSocket
  <2>2. CASE Stop(c)
    BY <2>2 DEF Stop
  <2>3. CASE Bye(c)
    BY <2>3 DEF Bye
  <2> QED
    BY <2>1, <2>2, <2>3
<1> QED
  BY <1>1, <1>2

LEMMA InferenceKeepsTypes ==
  ASSUME Types, NEW c \in Conns,
         \/ Lend(c) \/ GiveUp(c) \/ ProcessChunk(c)
         \/ FinalizeStop(c) \/ FinalizeBye(c) \/ FinalizePost(c)
  PROVE  CourseTyped' /\ RestTyped'
<1>1. CourseTyped'
  <2>1. CASE Lend(c)
    BY <2>1, GotoTyped DEF Lend, PCs, Types
  <2>2. CASE GiveUp(c)
    BY <2>2, GotoTyped, ReplyTyped, RequestTyped, RepliesTyped DEF GiveUp, PCs, Goals
  <2>3. CASE ProcessChunk(c)
    BY <2>3, ReplyTyped, RepliesTyped DEF ProcessChunk, Goals
  <2>4. CASE FinalizeStop(c)
    BY <2>4, ReplyTyped, RepliesTyped DEF FinalizeStop, Goals
  <2>5. CASE FinalizeBye(c)
    BY <2>5, RequestTyped DEF FinalizeBye, Goals
  <2>6. CASE FinalizePost(c)
    BY <2>6, GotoTyped, ReplyTyped, RepliesTyped DEF FinalizePost, PCs, Goals
  <2> QED
    BY <2>1, <2>2, <2>3, <2>4, <2>5, <2>6
<1>2. RestTyped'
  <2>1. HistoryTyped'
    BY LapseTyped DEF Lend, GiveUp, ProcessChunk, FinalizeStop, FinalizeBye, FinalizePost
  <2>2. /\ UNCHANGED <<age, client, cancelled>>
        /\ UNCHANGED held \/ Lease(c) \/ Release(c)
        /\ UNCHANGED left \/ \E l \in Lefts : left' = [left EXCEPT ![c] = l]
    <3>1. CASE Lend(c) \/ GiveUp(c)
      BY <3>1 DEF Lend, GiveUp
    <3>2. CASE ProcessChunk(c)
      BY <3>2 DEF ProcessChunk, Leaves, Lefts
    <3>3. ASSUME FinalizeReports(c) \/ FinalizeFindsNothing(c) \/ FinalizeFails(c)
          PROVE  \E l \in Lefts : left' = [left EXCEPT ![c] = l]
      BY <3>3 DEF FinalizeReports, FinalizeFindsNothing, FinalizeFails, Leaves, Lefts
    <3>4. CASE FinalizeStop(c)
      BY <3>3, <3>4 DEF FinalizeStop
    <3>5. CASE FinalizeBye(c)
      BY <3>3, <3>5 DEF FinalizeBye
    <3>6. CASE FinalizePost(c)
      BY <3>3, <3>6 DEF FinalizePost
    <3> QED
      BY <3>1, <3>2, <3>4, <3>5, <3>6
  <2> QED
    BY <2>1, <2>2 DEF RestTyped, Types, Lease, Release
<1> QED
  BY <1>1, <1>2

LEMMA SurroundingsKeepTypes ==
  ASSUME Types, Cancel \/ \E c \in Conns : ClientTurns(c) \/ Tick(c)
  PROVE  Types'
<1> USE DEF Types, handler, history
<1>1. CASE Cancel
  BY <1>1 DEF Cancel
<1>2. ASSUME NEW c \in Conns, ClientTurns(c) PROVE Types'
  BY <1>2 DEF ClientTurns
<1>3. ASSUME NEW c \in Conns, Tick(c) PROVE Types'
  BY <1>3, WsAssumption DEF Tick
<1> QED
  BY <1>1, <1>2, <1>3

\* Only Lend leases a session.
LEMMA LeasesOnlyByLend ==
  ASSUME Types, NEW c \in Conns, Handler(c), ~Lend(c)
  PROVE  \A d \in Conns : held'[d] => held[d]
<1> USE DEF Types, Release, handler, history
<1>1. CASE Deliver(c) \/ SendInVain(c) \/ AllSent(c)
  BY <1>1 DEF Deliver, SendInVain, AllSent
<1>2. CASE Create(c) \/ Interrupted(c) \/ Cap(c) \/ Refuse(c) \/ Frame(c)
  BY <1>2 DEF Create, Interrupted, Cap, Refuse, Frame
<1>3. CASE Stop(c) \/ Bye(c) \/ GiveUp(c) \/ ProcessChunk(c) \/ CloseSocket(c)
  BY <1>3 DEF Stop, Bye, GiveUp, ProcessChunk, CloseSocket
<1>4. CASE FinalizeStop(c) \/ FinalizeBye(c) \/ FinalizePost(c)
  BY <1>4 DEF FinalizeStop, FinalizeBye, FinalizePost
<1> QED
  BY <1>1, <1>2, <1>3, <1>4 DEF Handler

LEMMA NextKeepsTypeOK == TypeOK /\ [Next]_vars => TypeOK'
<1> SUFFICES ASSUME TypeOK, [Next]_vars PROVE TypeOK'
  OBVIOUS
<1>1. Types
  BY TypesOfTypeOK
<1>2. CASE Cancel \/ \E c \in Conns : ClientTurns(c) \/ Tick(c)
  <2>1. Types'
    BY <1>1, <1>2, SurroundingsKeepTypes
  <2>2. Cardinality({c \in Conns : held'[c]}) <= PoolSize
    BY <1>2, ReleaseKeepsLeases DEF Cancel, ClientTurns, Tick, handler
  <2> QED
    BY <2>1, <2>2 DEF TypeOK, Types
<1>3. ASSUME NEW c \in Conns, Handler(c) PROVE TypeOK'
  <2>1. CourseTyped' /\ RestTyped'
    BY <1>1, <1>3, SendsKeepTypes, LoopKeepsTypes, InferenceKeepsTypes DEF Handler
  <2>2. Cardinality({d \in Conns : held'[d]}) <= PoolSize
    BY <1>1, <1>3, LendKeepsLeases, LeasesOnlyByLend, ReleaseKeepsLeases
  <2> QED
    BY <2>1, <2>2 DEF TypeOK, CourseTyped, RestTyped, HistoryTyped
<1>4. CASE UNCHANGED vars
  BY <1>4 DEF TypeOK, vars, handler, history
<1> QED
  BY <1>2, <1>3, <1>4 DEF Next
---------------------------------------------------------------------------
(* A step of one connection and the others *)

SameAt(d) ==
    /\ pc'[d] = pc[d] /\ goal'[d] = goal[d] /\ out'[d] = out[d]
    /\ held'[d] = held[d] /\ left'[d] = left[d] /\ client'[d] = client[d]
    /\ asked'[d] = asked[d] /\ answer'[d] = answer[d] /\ lapses'[d] = lapses[d]

LEMMA OthersUnchanged ==
  ASSUME Types, NEW c \in Conns, NEW d \in Conns \ {c},
         Handler(c) \/ ClientTurns(c) \/ Tick(c)
  PROVE  SameAt(d)
<1> USE DEF SameAt, Types, Goto, Reply, Request, Release, handler, history
<1>1. CASE Deliver(c) \/ SendInVain(c)
  BY <1>1 DEF Deliver, SendInVain, Receive
<1>2. CASE AllSent(c)
  BY <1>2 DEF AllSent, GoesOn
<1>3. CASE Create(c) \/ Interrupted(c) \/ Cap(c) \/ Refuse(c) \/ Frame(c)
  BY <1>3 DEF Create, Interrupted, Cap, Refuse, Frame
<1>4. CASE Stop(c) \/ Bye(c) \/ CloseSocket(c)
  BY <1>4 DEF Stop, Bye, CloseSocket
<1>5. CASE Lend(c) \/ GiveUp(c)
  BY <1>5 DEF Lend, Lease, GiveUp, Lapse
<1>6. CASE ProcessChunk(c) \/ FinalizeBye(c)
  BY <1>6 DEF ProcessChunk, FinalizeBye, FinalizeReports, FinalizeFindsNothing, FinalizeFails, Leaves
<1>7. CASE FinalizeStop(c)
  BY <1>7 DEF FinalizeStop, Lapse, FinalizeReports, FinalizeFindsNothing, FinalizeFails, Leaves
<1>8. CASE FinalizePost(c)
  BY <1>8 DEF FinalizePost, Lapse, FinalizeReports, FinalizeFindsNothing, FinalizeFails, Leaves
<1>9. CASE ClientTurns(c) \/ Tick(c)
  BY <1>9 DEF ClientTurns, Tick
<1> QED
  BY <1>1, <1>2, <1>3, <1>4, <1>5, <1>6, <1>7, <1>8, <1>9 DEF Handler

Local(c) == Tidy(c) /\ (c \in Observed => Pending(c) /\ Answering(c))

LEMMA SameKeepsLocal ==
  ASSUME NEW d, Local(d), SameAt(d)
  PROVE  Local(d)'
BY DEF Local, SameAt, Tidy, Pending, Settled, Answering, Progress, OpenAnswer, FullAnswer, Told
---------------------------------------------------------------------------
(* A session is held only to send or to infer, and pending speech is reported *)

LEMMA OwnStepKeepsTidy ==
  ASSUME Types, NEW c \in Conns, Tidy(c), Handler(c) \/ ClientTurns(c) \/ Tick(c)
  PROVE  Tidy(c)'
<1> USE DEF Tidy, Types, Goto, Reply, Request, Release, handler, history
<1>1. CASE Deliver(c)
  BY <1>1 DEF Deliver
<1>2. CASE SendInVain(c)
  BY <1>2 DEF SendInVain
<1>3. CASE AllSent(c)
  BY <1>3 DEF AllSent, GoesOn
<1>4. CASE Create(c) \/ Interrupted(c) \/ Cap(c) \/ Refuse(c) \/ Frame(c)
  BY <1>4 DEF Create, Interrupted, Cap, Refuse, Frame, Arrives
<1>5. CASE Stop(c) \/ Bye(c) \/ CloseSocket(c)
  BY <1>5 DEF Stop, Bye, CloseSocket, Arrives
<1>6. CASE Lend(c) \/ GiveUp(c)
  BY <1>6 DEF Lend, Lease, GiveUp
<1>7. CASE ProcessChunk(c) \/ FinalizeBye(c)
  BY <1>7 DEF ProcessChunk, FinalizeBye
<1>8. CASE FinalizeStop(c)
  BY <1>8 DEF FinalizeStop
<1>9. CASE FinalizePost(c)
  BY <1>9 DEF FinalizePost
<1>10. CASE ClientTurns(c) \/ Tick(c)
  BY <1>10 DEF ClientTurns, Tick
<1> QED
  BY <1>1, <1>2, <1>3, <1>4, <1>5, <1>6, <1>7, <1>8, <1>9, <1>10 DEF Handler

LEMMA OwnStepKeepsPending ==
  ASSUME Types, NEW c \in Observed, c \in Conns, Tidy(c), Pending(c),
         Handler(c) \/ ClientTurns(c) \/ Tick(c)
  PROVE  Pending(c)'
<1> USE DEF Pending, Settled, Tidy, Types, Goto, Reply, Request, handler, history
<1>1. CASE Deliver(c)
  BY <1>1 DEF Deliver, Receive
<1>2. CASE SendInVain(c)
  BY <1>2 DEF SendInVain
<1>3. CASE AllSent(c)
  BY <1>3 DEF AllSent, GoesOn
<1>4. CASE Create(c) \/ Interrupted(c) \/ Cap(c) \/ Refuse(c) \/ Frame(c)
  BY <1>4 DEF Create, Interrupted, Cap, Refuse, Frame, Arrives
<1>5. CASE Stop(c) \/ Bye(c) \/ CloseSocket(c)
  BY <1>5 DEF Stop, Bye, CloseSocket, Arrives
<1>6. CASE Lend(c) \/ GiveUp(c)
  BY <1>6 DEF Lend, GiveUp, Lapse
<1>7. CASE ProcessChunk(c) \/ FinalizeBye(c)
  BY <1>7 DEF ProcessChunk, FinalizeBye, FinalizeReports, FinalizeFindsNothing, FinalizeFails, Leaves
<1>8. CASE FinalizeStop(c)
  BY <1>8 DEF FinalizeStop, Lapse, FinalizeReports, FinalizeFindsNothing, FinalizeFails, Leaves
<1>9. CASE FinalizePost(c)
  <2>1. goal'[c] = "post"
    BY <1>9 DEF FinalizePost
  <2>2. left'[c] # "speech" \/ "post" \in lapses'[c]
    BY <1>9 DEF FinalizePost, FinalizeReports, FinalizeFindsNothing, Leaves, Lapse
  <2>3. pc'[c] # "create"
    BY <1>9 DEF FinalizePost
  <2> QED
    BY <2>1, <2>2, <2>3
<1>10. CASE ClientTurns(c) \/ Tick(c)
  BY <1>10 DEF ClientTurns, Tick
<1> QED
  BY <1>1, <1>2, <1>3, <1>4, <1>5, <1>6, <1>7, <1>8, <1>9, <1>10 DEF Handler
---------------------------------------------------------------------------
(* The answer to Stop *)

LEMMA SendingTellsTheSame ==
  ASSUME NEW s \in Seq(Messages), NEW t \in Seq(Messages), t # <<>>
  PROVE  Append(s, Head(t)) \o Tail(t) = s \o t
<1>1. Head(t) \in Messages /\ Tail(t) \in Seq(Messages) /\ t = <<Head(t)>> \o Tail(t)
  BY HeadTailProperties
<1>2. Append(s, Head(t)) = s \o <<Head(t)>>
  BY <1>1, AppendIsConcat
<1>3. <<Head(t)>> \in Seq(Messages)
  BY <1>1
<1> QED
  BY <1>1, <1>2, <1>3, ConcatAssociative

LEMMA NothingToldTwice ==
  ASSUME Types, NEW c \in Conns
  PROVE  /\ out[c] = <<>> => Told(c) = answer[c]
         /\ answer[c] = <<>> => Told(c) = out[c]
BY ConcatEmptySeq DEF Told, Types

\* The ways in which an answer is put together.
LEMMA Answers ==
  /\ <<"error">> \o <<"empty">> = <<"error", "empty">>
  /\ <<"empty">> \o <<"final">> = <<"empty", "final">>
  /\ <<"error", "empty">> \o <<"final">> = <<"error", "empty", "final">>
  /\ <<"final">> \o <<"final">> = <<"final", "final">>
<1>1. \A s \in Seq(Messages), m \in Messages : s \o <<m>> = Append(s, m)
  BY AppendIsConcat
<1>2. \A m, n \in Messages : <<m, n>> \in Seq(Messages) /\ <<m>> \in Seq(Messages)
  OBVIOUS
<1>3. ASSUME NEW m \in Messages, NEW n \in Messages PROVE Append(<<m>>, n) = <<m, n>>
  <2> DEFINE s == Append(<<m>>, n)
  <2>1. s \in Seq(Messages) /\ Len(s) = 2 /\ s[1] = m /\ s[2] = n
    BY <1>2, AppendProperties
  <2>2. <<m, n>> \in Seq(Messages) /\ Len(<<m, n>>) = 2
    BY <1>2
  <2> HIDE DEF s
  <2>3. \A i \in 1..2 : s[i] = <<m, n>>[i]
    BY <2>1
  <2>4. s = <<m, n>>
    BY <2>1, <2>2, <2>3, SeqEqual
  <2> QED
    BY <2>4 DEF s
<1>4. ASSUME NEW k \in Messages, NEW m \in Messages, NEW n \in Messages
      PROVE  Append(<<m, n>>, k) = <<m, n, k>>
  <2> DEFINE s == Append(<<m, n>>, k)
  <2>1. s \in Seq(Messages) /\ Len(s) = 3 /\ s[1] = m /\ s[2] = n /\ s[3] = k
    BY <1>2, AppendProperties
  <2>2. <<m, n, k>> \in Seq(Messages) /\ Len(<<m, n, k>>) = 3
    OBVIOUS
  <2> HIDE DEF s
  <2>3. \A i \in 1..3 : s[i] = <<m, n, k>>[i]
    BY <2>1
  <2>4. s = <<m, n, k>>
    BY <2>1, <2>2, <2>3, SeqEqual
  <2> QED
    BY <2>4 DEF s
<1>5. \A k, m, n \in Messages :
         <<m>> \o <<n>> = <<m, n>> /\ <<m, n>> \o <<k>> = <<m, n, k>>
  BY <1>1, <1>2, <1>3, <1>4
<1>6. "error" \in Messages /\ "empty" \in Messages /\ "final" \in Messages
  BY DEF Messages
<1> QED
  BY <1>5, <1>6

\* The last finalization reports what the one of Stop did not.
LEMMA ReportCompletes ==
  ASSUME NEW c, OpenAnswer(c), left[c] # "nothing", Told(c)' = Told(c) \o <<"final">>,
         asked'[c] = asked[c], "stop" \in lapses'[c] <=> "stop" \in lapses[c]
  PROVE  FullAnswer(c)'
<1>1. CASE "stop" \in lapses[c]
  <2>1. asked[c] # "nothing" /\ Told(c)' \in {<<"empty", "final">>, <<"error", "empty", "final">>}
    BY <1>1, Answers DEF OpenAnswer
  <2>2. Told(c)' # <<"empty">>
    BY <2>1
  <2> QED
    BY <1>1, <2>1, <2>2 DEF FullAnswer, LapsedAnswers
<1>2. CASE "stop" \notin lapses[c]
  <2>1. asked[c] # "nothing" /\ Told(c)' = <<"final", "final">>
    BY <1>2, Answers DEF OpenAnswer
  <2>2. Told(c)' # <<"empty">>
    BY <2>1
  <2> QED
    BY <1>2, <2>1, <2>2 DEF FullAnswer, ServedAnswers
<1> QED
  BY <1>1, <1>2

\* It has nothing to report, or lapses.
LEMMA SilenceCompletes ==
  ASSUME NEW c, OpenAnswer(c), left[c] # "speech" \/ "post" \in lapses'[c],
         Told(c)' = Told(c),
         asked'[c] = asked[c], "stop" \in lapses'[c] <=> "stop" \in lapses[c]
  PROVE  FullAnswer(c)'
<1>1. <<"error", "empty">> # <<"empty">> /\ <<"final">> # <<"empty">>
  OBVIOUS
<1>2. CASE "stop" \in lapses[c]
  BY <1>1, <1>2 DEF OpenAnswer, FullAnswer, LapsedAnswers
<1>3. CASE "stop" \notin lapses[c]
  BY <1>1, <1>3 DEF OpenAnswer, FullAnswer, ServedAnswers
<1> QED
  BY <1>2, <1>3

LEMMA SendsKeepAnswering ==
  ASSUME Types, Types', NEW c \in Conns, c \in Observed, Tidy(c), Pending(c), Answering(c),
         Deliver(c) \/ SendInVain(c) \/ AllSent(c)
  PROVE  Answering(c)'
<1>1. CASE Deliver(c)
  <2>1. /\ pc'[c] = pc[c] /\ goal'[c] = goal[c] /\ left'[c] = left[c]
        /\ asked'[c] = asked[c] /\ lapses'[c] = lapses[c] /\ client'[c] = client[c]
        /\ pc[c] = "send" /\ out[c] # <<>> /\ out'[c] = Tail(out[c])
        /\ answer'[c] = IF asked[c] = "no" THEN answer[c]
                        ELSE Append(answer[c], Head(out[c]))
    BY <1>1 DEF Deliver, Receive, Types
  <2>2. answer[c] \in Seq(Messages) /\ out[c] \in Seq(Messages)
    BY DEF Types
  <2>3. asked[c] # "no" => Told(c)' = Told(c)
    BY <2>1, <2>2, SendingTellsTheSame DEF Told
  <2> QED
    BY <2>1, <2>3 DEF Answering, Progress, OpenAnswer, FullAnswer
<1>2. CASE SendInVain(c)
  <2>1. /\ client[c] = "gone" /\ client'[c] = "gone" /\ UNCHANGED history
        /\ asked[c] = "no" => goal'[c] # "stop"
    BY <1>2 DEF SendInVain, Goto, Answering, Types
  <2>2. asked[c] # "no" => pc'[c] = pc[c] /\ goal'[c] = goal[c]
    BY <1>2 DEF SendInVain, Strict, Goto, Answering, Types
  <2> QED
    BY <2>1, <2>2 DEF Answering, history
<1>3. CASE AllSent(c)
  <2>1. /\ left'[c] = left[c] /\ client'[c] = client[c] /\ UNCHANGED history
        /\ Told(c) = answer[c] /\ pc[c] = "send"
    BY <1>3, NothingToldTwice DEF AllSent, Types
  <2>2. CASE goal[c] = "unstopped" /\ Reply(c, "empty", <<"empty">>)
    <3>1. Told(c)' = answer[c] \o <<"empty">> /\ goal'[c] = "empty" /\ pc'[c] = "send"
      BY <2>1, <2>2 DEF Reply, Goto, Told, Types, history
    <3> QED
      BY <2>1, <2>2, <3>1, Answers DEF Answering, Progress, OpenAnswer, history
  <2>3. CASE goal[c] \in {"stop", "empty", "cap"} /\ Request(c, "post")
    <3>1. Told(c)' = Told(c) /\ goal'[c] = "post" /\ pc'[c] = "checkout"
      BY <2>1, <2>3 DEF Request, Goto, Told, Types, history
    <3> QED
      BY <2>1, <2>3, <3>1 DEF Answering, Progress, OpenAnswer, history, Types
  <2>4. CASE goal[c] = "post" /\ Goto(c, "close", "post") /\ UNCHANGED out
    <3>1. Told(c)' = Told(c) /\ goal'[c] = "post" /\ pc'[c] = "close"
      BY <2>1, <2>4 DEF Goto, Told, Types, history
    <3> QED
      BY <2>1, <2>4, <3>1 DEF Answering, Progress, FullAnswer, history
  <2>5. ASSUME goal[c] \in {"greet", "refuse", "reject", "chunk", "failed"}
        PROVE  Answering(c)'
    BY <1>3, <2>1, <2>5 DEF AllSent, GoesOn, Goto, Answering, history, Types
  <2> QED
    BY <1>3, <2>2, <2>3, <2>4, <2>5 DEF AllSent, GoesOn
<1> QED
  BY <1>1, <1>2, <1>3

LEMMA LoopKeepsAnswering ==
  ASSUME Types, Types', NEW c \in Conns, c \in Observed, Tidy(c), Pending(c), Answering(c),
         \/ Create(c) \/ Interrupted(c) \/ Cap(c) \/ Refuse(c) \/ Frame(c)
         \/ Stop(c) \/ Bye(c) \/ CloseSocket(c) \/ ClientTurns(c) \/ Tick(c)
  PROVE  Answering(c)'
<1> USE DEF Types, Goto, Reply, Request, handler, history
<1>1. CASE Create(c) \/ Interrupted(c) \/ Cap(c) \/ Refuse(c) \/ Frame(c) \/ Bye(c)
  <2>1. /\ asked[c] = "no" /\ asked'[c] = "no" /\ UNCHANGED <<answer, lapses>>
        /\ goal'[c] # "stop"
    BY <1>1 DEF Create, Interrupted, Cap, Refuse, Frame, Bye, Arrives, Answering
  <2> QED
    BY <2>1 DEF Answering
<1>2. CASE Stop(c)
  <2>1. /\ answer'[c] = <<>> /\ out'[c] = <<>> /\ "stop" \notin lapses'[c]
        /\ pc'[c] = "checkout" /\ goal'[c] = "stop"
        /\ asked'[c] = left'[c]
    BY <1>2 DEF Stop, Arrives, Answering, Tidy
  <2>2. Told(c)' = <<>>
    BY <2>1, ConcatEmptySeq DEF Told
  <2>3. asked'[c] # "no"
    BY <2>1 DEF Lefts
  <2> QED
    BY <2>1, <2>2, <2>3 DEF Answering, Progress
<1>3. CASE CloseSocket(c)
  <2>1. /\ pc[c] = "close" /\ pc'[c] = "closed" /\ goal'[c] = goal[c]
        /\ UNCHANGED <<out, left, client, asked, answer, lapses>>
    BY <1>3 DEF CloseSocket
  <2> QED
    BY <2>1 DEF Answering, Progress, OpenAnswer, FullAnswer, Told
<1>4. CASE ClientTurns(c) \/ Tick(c)
  <2>1. UNCHANGED <<pc, goal, out, left, asked, answer, lapses>>
    BY <1>4 DEF ClientTurns, Tick
  <2>2. client'[c] # "gone" => client[c] # "gone"
    BY <1>4 DEF ClientTurns, Tick
  <2> QED
    BY <2>1, <2>2 DEF Answering, Progress, OpenAnswer, FullAnswer, Told
<1> QED
  BY <1>1, <1>2, <1>3, <1>4
LEMMA InferenceKeepsAnswering ==
  ASSUME Types, Types', NEW c \in Conns, c \in Observed, Tidy(c), Pending(c), Answering(c),
         \/ Lend(c) \/ GiveUp(c) \/ ProcessChunk(c)
         \/ FinalizeStop(c) \/ FinalizeBye(c) \/ FinalizePost(c)
  PROVE  Answering(c)'
<1> USE DEF Types, Goto, Reply, Request, history
<1>1. CASE Lend(c)
  <2>1. /\ pc[c] = "checkout" /\ pc'[c] = "infer" /\ goal'[c] = goal[c]
        /\ UNCHANGED <<out, left, client, asked, answer, lapses>>
    BY <1>1 DEF Lend
  <2> QED
    BY <2>1 DEF Answering, Progress, OpenAnswer, FullAnswer, Told
<1>2. CASE GiveUp(c) /\ goal[c] \in {"chunk", "bye"}
  <2>1. asked[c] = "no" /\ UNCHANGED history /\ goal'[c] # "stop"
    BY <1>2 DEF GiveUp, Answering
  <2> QED
    BY <2>1 DEF Answering
<1>3. CASE GiveUp(c) /\ goal[c] = "stop"
  <2>1. /\ pc[c] = "checkout" /\ pc'[c] = "send" /\ goal'[c] = "empty"
        /\ out[c] = <<>> /\ out'[c] = <<"empty">> /\ "stop" \in lapses'[c]
        /\ UNCHANGED <<left, client, asked, answer>>
    BY <1>3 DEF GiveUp, Lapse, Tidy
  <2>2. asked[c] # "no"
    BY <1>3 DEF Answering
  <2>3. client[c] # "gone" => answer[c] = <<>> /\ left'[c] = asked[c]
    BY <1>3, <2>1, <2>2, NothingToldTwice DEF Answering, Progress
  <2>4. client[c] # "gone" => Told(c)' = <<"empty">>
    BY <2>1, <2>3, ConcatEmptySeq DEF Told
  <2> QED
    BY <2>1, <2>2, <2>3, <2>4 DEF Answering, Progress, OpenAnswer
<1>4. CASE GiveUp(c) /\ goal[c] = "post"
  <2>1. /\ pc[c] = "checkout" /\ pc'[c] = "close" /\ goal'[c] = "post"
        /\ "stop" \in lapses'[c] <=> "stop" \in lapses[c]
        /\ "post" \in lapses'[c]
        /\ UNCHANGED <<out, left, client, asked, answer>>
    BY <1>4 DEF GiveUp, Lapse
  <2>2. Told(c)' = Told(c)
    BY <2>1 DEF Told
  <2>3. asked[c] # "no" /\ client[c] # "gone" => FullAnswer(c)'
    BY <1>4, <2>1, <2>2, SilenceCompletes DEF Answering, Progress
  <2> QED
    BY <1>4, <2>1, <2>3 DEF Answering, Progress
<1>5. CASE ProcessChunk(c) \/ FinalizeBye(c)
  <2>1. asked[c] = "no" /\ UNCHANGED history /\ goal'[c] # "stop"
    BY <1>5 DEF ProcessChunk, FinalizeBye, Answering
  <2> QED
    BY <2>1 DEF Answering
<1>6. CASE FinalizeStop(c)
  <2>1. /\ pc[c] = "infer" /\ goal[c] = "stop" /\ out[c] = <<>> /\ pc'[c] = "send"
        /\ UNCHANGED <<client, asked, answer>>
    BY <1>6 DEF FinalizeStop, Lapse, Tidy
  <2>2. asked[c] # "no"
    BY <2>1 DEF Answering
  <2>3. client[c] # "gone" => answer[c] = <<>>
    BY <2>1, <2>2, NothingToldTwice DEF Answering, Progress
  <2>4. client[c] # "gone" => Told(c)' = out'[c]
    BY <2>1, <2>3, ConcatEmptySeq DEF Told
  <2>5. client[c] # "gone" => left[c] = asked[c] /\ "stop" \notin lapses[c]
    BY <2>1, <2>2 DEF Answering, Progress
  <2>6. CASE /\ FinalizeReports(c)
             /\ Reply(c, "stop", <<"final">>)
             /\ UNCHANGED <<held, history>>
    <3>1. /\ goal'[c] = "stop" /\ out'[c] = <<"final">> /\ UNCHANGED lapses
          /\ left[c] # "nothing" /\ left'[c] # "speech"
      BY <2>6 DEF FinalizeReports, Leaves
    <3> QED
      BY <2>1, <2>2, <2>4, <2>5, <3>1 DEF Answering, Progress
  <2>7. CASE /\ FinalizeFindsNothing(c)
             /\ Reply(c, "empty", <<"empty">>)
             /\ Release(c)
             /\ UNCHANGED history
    <3>1. /\ goal'[c] = "empty" /\ out'[c] = <<"empty">> /\ UNCHANGED lapses
          /\ left[c] # "speech" /\ left'[c] = "nothing"
      BY <2>7 DEF FinalizeFindsNothing, Leaves
    <3> QED
      BY <2>1, <2>2, <2>4, <2>5, <3>1 DEF Answering, Progress, OpenAnswer
  <2>8. CASE /\ FinalizeFails(c)
             /\ Reply(c, "unstopped", <<"error">>)
             /\ Lapse(c, "stop")
             /\ UNCHANGED held
    <3>1. /\ goal'[c] = "unstopped" /\ out'[c] = <<"error">> /\ "stop" \in lapses'[c]
          /\ left[c] # "nothing"
      BY <2>8 DEF FinalizeFails, Lapse
    <3> QED
      BY <2>1, <2>2, <2>4, <2>5, <3>1 DEF Answering, Progress
  <2> QED
    BY <1>6, <2>6, <2>7, <2>8 DEF FinalizeStop
<1>7. CASE FinalizePost(c)
  <2>1. /\ pc[c] = "infer" /\ goal[c] = "post" /\ out[c] = <<>> /\ goal'[c] = "post"
        /\ pc'[c] \in {"send", "close"}
        /\ "stop" \in lapses'[c] <=> "stop" \in lapses[c]
        /\ UNCHANGED <<client, asked, answer>>
    BY <1>7 DEF FinalizePost, Lapse, Tidy
  <2>2. asked[c] # "no" /\ client[c] # "gone" => OpenAnswer(c)
    BY <2>1 DEF Answering, Progress
  <2>3. CASE FinalizeReports(c) /\ Reply(c, "post", <<"final">>)
    <3>1. left[c] # "nothing" /\ out'[c] = <<"final">>
      BY <2>3 DEF FinalizeReports
    <3>2. Told(c)' = Told(c) \o <<"final">>
      BY <2>1, <3>1, NothingToldTwice DEF Told
    <3>3. asked[c] # "no" /\ client[c] # "gone" => FullAnswer(c)'
      BY <2>1, <2>2, <3>1, <3>2, ReportCompletes
    <3> QED
      BY <2>1, <2>3, <3>3 DEF Answering, Progress
  <2>4. CASE \/ FinalizeFindsNothing(c) /\ UNCHANGED out
             \/ Lapse(c, "post") /\ UNCHANGED out
    <3>1. left[c] # "speech" \/ "post" \in lapses'[c]
      BY <2>4 DEF FinalizeFindsNothing, Lapse
    <3>2. Told(c)' = Told(c)
      BY <2>1, <2>4 DEF Told
    <3>3. asked[c] # "no" /\ client[c] # "gone" => FullAnswer(c)'
      BY <2>1, <2>2, <3>1, <3>2, SilenceCompletes
    <3> QED
      BY <2>1, <3>3 DEF Answering, Progress
  <2> QED
    BY <1>7, <2>3, <2>4 DEF FinalizePost
<1> QED
  BY <1>1, <1>2, <1>3, <1>4, <1>5, <1>6, <1>7 DEF GiveUp

---------------------------------------------------------------------------
(* The invariant of all *)

LEMMA InitEstablishesInv == Init => WsInv
<1> SUFFICES ASSUME Init PROVE WsInv
  OBVIOUS
<1>1. Types
  <2>1. <<"ready">> \in Seq(Messages) /\ <<>> \in Seq(Messages)
    BY RepliesTyped
  <2>2. 0 \in 0..(MaxSession + 1)
    BY WsAssumption
  <2> QED
    BY <2>1, <2>2 DEF Init, Types, PCs, Goals, Lefts
<1>2. Cardinality({c \in Conns : held[c]}) <= PoolSize
  <2>1. {c \in Conns : held[c]} = {}
    BY DEF Init
  <2> QED
    BY <2>1, FS_EmptySet, WsAssumption
<1>3. \A c \in Conns : Tidy(c)
  BY DEF Init, Tidy
<1>4. \A c \in Observed : Pending(c) /\ Answering(c)
  BY WsAssumption DEF Init, Pending, Answering
<1> QED
  BY <1>1, <1>2, <1>3, <1>4, TypesOfTypeOK DEF WsInv

LEMMA OwnStepKeepsLocal ==
  ASSUME Types, Types', NEW c \in Conns, Local(c),
         Handler(c) \/ ClientTurns(c) \/ Tick(c)
  PROVE  Local(c)'
<1>1. Tidy(c)'
  BY OwnStepKeepsTidy DEF Local
<1>2. c \in Observed => Pending(c)'
  BY OwnStepKeepsPending DEF Local
<1>3. c \in Observed => Answering(c)'
  BY SendsKeepAnswering, LoopKeepsAnswering, InferenceKeepsAnswering DEF Local, Handler
<1> QED
  BY <1>1, <1>2, <1>3 DEF Local

LEMMA NextKeepsInv == WsInv /\ [Next]_vars => WsInv'
<1> SUFFICES ASSUME WsInv, [Next]_vars PROVE WsInv'
  OBVIOUS
<1>1. TypeOK' /\ Types /\ Types'
  BY NextKeepsTypeOK, TypesOfTypeOK DEF WsInv, TypeOK, Types
<1>2. \A d \in Conns : Local(d)
  BY DEF WsInv, Local
<1>3. \A d \in Conns : Local(d)'
  <2>1. ASSUME NEW c \in Conns, Handler(c) \/ ClientTurns(c) \/ Tick(c), NEW d \in Conns
        PROVE  Local(d)'
    BY <1>1, <1>2, <2>1, OwnStepKeepsLocal, OthersUnchanged, SameKeepsLocal
  <2>2. ASSUME Cancel \/ UNCHANGED vars, NEW d \in Conns PROVE Local(d)'
    <3>1. SameAt(d)
      BY <2>2 DEF Cancel, SameAt, vars, handler, history
    <3> QED
      BY <1>2, <3>1, SameKeepsLocal
  <2> QED
    BY <2>1, <2>2 DEF Next
<1> QED
  BY <1>1, <1>3, WsAssumption DEF WsInv, Local

LEMMA Invariance == Spec => []WsInv
BY InitEstablishesInv, NextKeepsInv, PTL DEF Spec

---------------------------------------------------------------------------
(* Theorems *)

\* The variables keep their types, and no more sessions are leased than the
\* pool has.
THEOREM TypeCorrect == Spec => []TypeOK
BY Invariance, PTL DEF WsInv

LEMMA InvIsPromised == WsInv => NoHoldAndWait /\ PendingSpeechReported /\ StopIsAnswered
<1> SUFFICES ASSUME WsInv PROVE NoHoldAndWait /\ PendingSpeechReported /\ StopIsAnswered
  OBVIOUS
<1>1. ASSUME NEW c \in Observed,
             pc[c] = "closed", asked[c] # "no", client[c] # "gone"
      PROVE  Told(c) = answer[c] /\ FullAnswer(c)
  <2>1. c \in Conns /\ Types /\ Tidy(c) /\ Answering(c)
    BY WsAssumption, TypesOfTypeOK DEF WsInv
  <2>2. Told(c) = answer[c]
    BY <1>1, <2>1, NothingToldTwice DEF Tidy
  <2> QED
    BY <1>1, <2>1, <2>2 DEF Answering, Progress
<1>2. StopIsAnswered
  BY <1>1 DEF StopIsAnswered, Answered, FullAnswer
<1>3. NoHoldAndWait
  BY DEF WsInv, Tidy, NoHoldAndWait
<1>4. PendingSpeechReported
  BY DEF WsInv, Pending, Settled, Reported, PendingSpeechReported
<1> QED
  BY <1>2, <1>3, <1>4

\* No handler holds a session while it waits for its client or for a session.
THEOREM NoWaitWithSession == Spec => []NoHoldAndWait
BY Invariance, InvIsPromised, PTL

\* Speech that was heard is reported before the socket is closed, but for a
\* finalization that failed and a client that is gone.
THEOREM SpeechReported == Spec => []PendingSpeechReported
BY Invariance, InvIsPromised, PTL

\* A client that sent Stop and stayed is told a final result or an empty one, and
\* is left with an empty one although it had spoken only if all that should have
\* finalized its speech lapsed.
THEOREM StopAnswered == Spec => []StopIsAnswered
BY Invariance, InvIsPromised, PTL

---------------------------------------------------------------------------
(* The sessions of a server *)

\* Until the process ends its sessions are as WsInv says, then there are none; a
\* server that stops has told them.
LifeInv ==
    /\ LifeTypeOK
    /\ server # "gone" => WsInv
    /\ server = "gone" => \A c \in Conns : pc[c] = "closed" /\ ~held[c]
    /\ server \in {"draining", "returned", "dropped"} => cancelled

Leased == {r \in Uploading : upload[r] = "leased"}
Holders == {c \in Conns : held[c]}

LEMMA SharedPoolShrinks ==
  ASSUME SharedPool, Holders' \subseteq Holders, Leased' \subseteq Leased
  PROVE  SharedPool'
<1>1. IsFiniteSet(Holders) /\ IsFiniteSet(Leased)
  BY WsAssumption, LifecycleAssumption, FS_Subset DEF Holders, Leased
<1>2. /\ IsFiniteSet(Holders') /\ Cardinality(Holders') <= Cardinality(Holders)
      /\ IsFiniteSet(Leased') /\ Cardinality(Leased') <= Cardinality(Leased)
  BY <1>1, FS_Subset
<1>3. /\ Cardinality(Holders) \in Nat /\ Cardinality(Holders') \in Nat
      /\ Cardinality(Leased) \in Nat /\ Cardinality(Leased') \in Nat /\ PoolSize \in Nat
  BY <1>1, <1>2, FS_CardinalityType, WsAssumption
<1>4. Cardinality(Holders) + Cardinality(Leased) <= PoolSize
  BY DEF SharedPool, Holders, Leased
<1>5. Cardinality(Holders') + Cardinality(Leased') <= PoolSize
  BY <1>2, <1>3, <1>4
<1> QED
  BY <1>5 DEF SharedPool, Holders, Leased

LEMMA ClosedHandlersRest ==
  ASSUME NEW c \in Conns, Handler(c) PROVE pc[c] # "closed"
  BY DEF Handler, Deliver, SendInVain, AllSent, Create, Interrupted, Cap, Refuse, Arrives,
         Frame, Stop, Bye, Lend, GiveUp, ProcessChunk, FinalizeStop, FinalizeBye,
         FinalizePost, CloseSocket

\* A step of a session, of its client or of its clock.
LEMMA SessionStepKeepsLifeInv ==
  ASSUME LifeInv, NEW c \in Conns,
         WsStep(c) \/ ((ClientTurns(c) \/ Tick(c)) /\ UNCHANGED life)
  PROVE  LifeInv'
<1>1. /\ [Next]_vars /\ UNCHANGED <<owner, server, upload, reader>>
  BY DEF WsStep, life, Next
<1>2. cancelled' = cancelled
  BY DEF WsStep, Handler, Deliver, SendInVain, AllSent, Create, Interrupted, Cap, Refuse,
         Frame, Stop, Bye, Lend, GiveUp, ProcessChunk, FinalizeStop, FinalizeBye,
         FinalizePost, CloseSocket, ClientTurns, Tick
<1>3. TypeOK'
  BY <1>1, NextKeepsTypeOK DEF LifeInv, LifeTypeOK
<1>4. CASE WsStep(c)
  <2>1. SharedPool' /\ server # "gone"
    BY <1>4, ClosedHandlersRest DEF WsStep, LifeInv
  <2> QED
    BY <1>1, <1>2, <1>3, <2>1, NextKeepsInv DEF LifeInv, LifeTypeOK
<1>5. CASE ClientTurns(c) \/ Tick(c)
  <2>1. UNCHANGED <<pc, held>>
    BY <1>5 DEF ClientTurns, Tick, handler
  <2>2. SharedPool'
    BY <1>1, <2>1 DEF LifeInv, LifeTypeOK, SharedPool
  <2> QED
    BY <1>1, <1>2, <1>3, <2>1, <2>2, NextKeepsInv DEF LifeInv, LifeTypeOK
<1> QED
  BY <1>4, <1>5

\* A step of an upload or of its client.
LEMMA UploadStepKeepsLifeInv ==
  ASSUME LifeInv, NEW r \in Uploading, Begin(r) \/ UploadStep(r) \/ ReaderTurns(r)
  PROVE  LifeInv'
<1>1. UNCHANGED <<vars, owner, server>>
  BY DEF Begin, UploadStep, LendUpload, EndUpload, ReaderTurns
<1>2. TypeOK' /\ (WsInv => WsInv') /\ UNCHANGED <<pc, held, cancelled>>
  BY <1>1, NextKeepsTypeOK, NextKeepsInv DEF LifeInv, LifeTypeOK, vars, handler
<1>3. /\ upload' \in [Uploading -> {"none", "queued", "leased", "over"}]
      /\ reader' \in [Uploading -> {"reading", "stalled", "gone"}]
  BY DEF LifeInv, LifeTypeOK, Begin, UploadStep, LendUpload, EndUpload, ReaderTurns
<1>4. SharedPool'
  <2>1. CASE LendUpload(r)
    BY <2>1 DEF LendUpload
  <2>2. CASE Begin(r) \/ EndUpload(r) \/ ReaderTurns(r)
    <3>1. Leased' \subseteq Leased
      BY <2>2 DEF Leased, Begin, EndUpload, ReaderTurns, LifeInv, LifeTypeOK
    <3>2. Holders' \subseteq Holders
      BY <1>2 DEF Holders
    <3> QED
      BY <3>1, <3>2, SharedPoolShrinks DEF LifeInv, LifeTypeOK
  <2> QED
    BY <2>1, <2>2 DEF UploadStep
<1> QED
  BY <1>1, <1>2, <1>3, <1>4 DEF LifeInv, LifeTypeOK

LEMMA StopsKeepLifeInv ==
  ASSUME LifeInv, Signal \/ Return \/ CancelToken \/ DrainTimeout
  PROVE  LifeInv'
<1>1. CASE Cancelled /\ UNCHANGED <<owner, upload, reader>>
  <2>1. cancelled' = TRUE /\ UNCHANGED <<handler, age, client, history>>
    BY <1>1 DEF Cancelled
  <2>2. [Next]_vars
    <3>1. CASE cancelled
      <4>1. cancelled = TRUE
        BY <3>1 DEF LifeInv, LifeTypeOK, TypeOK
      <4> QED
        BY <2>1, <4>1 DEF vars
    <3>2. CASE ~cancelled
      BY <2>1, <3>2 DEF Next, Cancel
    <3> QED
      BY <3>1, <3>2
  <2>3. TypeOK' /\ (WsInv => WsInv') /\ UNCHANGED <<pc, held>>
    BY <2>1, <2>2, NextKeepsTypeOK, NextKeepsInv DEF LifeInv, LifeTypeOK, handler
  <2>4. server' \in Servers /\ (server' = "gone" <=> server = "gone")
    BY DEF Signal, Return, CancelToken, DrainTimeout, Servers, life, LifeInv, LifeTypeOK
  <2>5. SharedPool'
    BY <1>1, <2>3 DEF SharedPool, LifeInv, LifeTypeOK
  <2> QED
    BY <1>1, <2>1, <2>3, <2>4, <2>5 DEF LifeInv, LifeTypeOK
<1>2. CASE Return
  <2>1. /\ server = "draining" /\ server' = "returned"
        /\ UNCHANGED <<vars, owner, upload, reader>>
    BY <1>2 DEF Return
  <2>2. TypeOK' /\ WsInv' /\ UNCHANGED <<pc, held, cancelled>>
    BY <2>1, NextKeepsTypeOK, NextKeepsInv DEF LifeInv, LifeTypeOK, vars, handler
  <2>3. SharedPool'
    BY <2>1, <2>2 DEF SharedPool, LifeInv, LifeTypeOK
  <2> QED
    BY <2>1, <2>2, <2>3 DEF LifeInv, LifeTypeOK, Servers
<1> QED
  BY <1>1, <1>2 DEF Signal, CancelToken, DrainTimeout, life

LEMMA EndKeepsLifeInv == ASSUME LifeInv, ProcessEnds PROVE LifeInv'
<1>1. /\ server' = "gone"
      /\ pc' = [c \in Conns |-> "closed"]
      /\ held' = [c \in Conns |-> FALSE]
      /\ out' = [c \in Conns |-> <<>>]
      /\ upload' = [r \in Uploading |-> "over"]
      /\ UNCHANGED <<goal, left, age, client, cancelled, history, owner, reader>>
  BY DEF ProcessEnds
<1>2. SharedPool'
  <2>1. Holders' = {} /\ Leased' = {}
    BY <1>1 DEF Holders, Leased
  <2> QED
    BY <2>1, SharedPoolShrinks DEF LifeInv, LifeTypeOK
<1>3. TypeOK'
  <2>1. Cardinality({c \in Conns : held'[c]}) <= PoolSize
    <3>1. {c \in Conns : held'[c]} = {}
      BY <1>1
    <3> QED
      BY <3>1, FS_EmptySet, WsAssumption
  <2>2. <<>> \in Seq(Messages)
    BY RepliesTyped
  <2> QED
    BY <1>1, <2>1, <2>2 DEF LifeInv, LifeTypeOK, TypeOK, PCs, history
<1> QED
  BY <1>1, <1>2, <1>3 DEF LifeInv, LifeTypeOK, Servers

LEMMA LifeInvariance == LifeSpec => []LifeInv
<1>1. LifeInit => LifeInv
  <2> SUFFICES ASSUME LifeInit PROVE LifeInv
    OBVIOUS
  <2>1. WsInv /\ TypeOK
    BY InitEstablishesInv DEF LifeInit, WsInv
  <2>2. SharedPool
    <3>1. {c \in Conns : held[c]} = {} /\ {r \in Uploading : upload[r] = "leased"} = {}
      BY DEF LifeInit, Init
    <3> QED
      BY <3>1, FS_EmptySet, WsAssumption DEF SharedPool
  <2> QED
    BY <2>1, <2>2 DEF LifeInit, LifeInv, LifeTypeOK, Servers
<1>2. LifeInv /\ [LifeNext]_lifeVars => LifeInv'
  <2> SUFFICES ASSUME LifeInv, [LifeNext]_lifeVars PROVE LifeInv'
    OBVIOUS
  <2>1. CASE UNCHANGED lifeVars
    <3>1. UNCHANGED <<vars, owner, server, upload, reader>>
      BY <2>1 DEF lifeVars, life
    <3>2. TypeOK' /\ (WsInv => WsInv') /\ UNCHANGED <<pc, held, cancelled>>
      BY <3>1, NextKeepsTypeOK, NextKeepsInv DEF LifeInv, LifeTypeOK, vars, handler
    <3> QED
      BY <3>1, <3>2 DEF LifeInv, LifeTypeOK, SharedPool
  <2> QED
    BY <2>1, SessionStepKeepsLifeInv, UploadStepKeepsLifeInv, StopsKeepLifeInv, EndKeepsLifeInv
    DEF LifeNext
<1> QED
  BY <1>1, <1>2, PTL DEF LifeSpec

\* Connections and uploads together never lease more sessions than the pool of
\* the server has, however it is stopped.
THEOREM LifeTypeCorrect == LifeSpec => []LifeTypeOK
BY LifeInvariance, PTL DEF LifeInv

\* A server that has stopped accepting, by the channel of run_with_config or by the
\* timeout of its helper, has cancelled its sessions' token.
THEOREM StopIsTold ==
  LifeSpec => [](server \in {"draining", "returned", "dropped"} => cancelled)
BY LifeInvariance, PTL DEF LifeInv

\* What handle_socket promises holds in every server, until its process ends: a
\* shutdown neither drops speech nor leaves a Stop without its answer.
THEOREM ShutdownKeepsPromises ==
  LifeSpec => [](NoHoldAndWait /\ ShutdownReportsSpeech /\ ShutdownAnswersStop)
<1>1. LifeInv => NoHoldAndWait /\ ShutdownReportsSpeech /\ ShutdownAnswersStop
  BY InvIsPromised DEF LifeInv, NoHoldAndWait, ShutdownReportsSpeech, ShutdownAnswersStop
<1> QED
  BY <1>1, LifeInvariance, PTL
=============================================================================
