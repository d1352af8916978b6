----------------------- MODULE StreamingSessionProofs -----------------------
(***************************************************************************)
(* For any frame size, thresholds and chunks: the indices of a streaming    *)
(* session stay in order, its final results are disjoint and ordered, what  *)
(* a call leaves can be told from its results, and the session implements   *)
(* SpeechSegments.                                                          *)
(***************************************************************************)
EXTENDS StreamingSession, TLAPS

FinalRecord == [from : Nat, to : Nat, lo : Nat, hi : Nat]

IInv == TypeOK /\ IndexOrder /\ FinalsInOrder

---------------------------------------------------------------------------
(* The results, those handed over and those of the call under way *)

LEMMA FinalsType ==
  ASSUME TypeOK
  PROVE  /\ Finals \in Seq(FinalRecord)
         /\ Len(Finals) \in Nat
         /\ \A i \in 1..Len(Finals) :
              /\ Finals[i] \in FinalRecord
              /\ Finals[i].from \in Nat /\ Finals[i].to \in Nat
              /\ Finals[i].lo \in Nat /\ Finals[i].hi \in Nat
<1>1. returned \in Seq(FinalRecord) /\ results \in Seq(FinalRecord)
  BY DEF TypeOK, FinalRecord
<1>2. Finals \in Seq(FinalRecord)
  BY <1>1 DEF Finals
<1>3. Len(Finals) \in Nat /\ \A i \in 1..Len(Finals) : Finals[i] \in FinalRecord
  BY <1>2
<1>4. \A f \in FinalRecord :
        f.from \in Nat /\ f.to \in Nat /\ f.lo \in Nat /\ f.hi \in Nat
  BY DEF FinalRecord
<1> QED
  BY <1>2, <1>3, <1>4

\* A call that returns hands its results over, and the history is the same.
LEMMA HandKeepsFinals ==
  ASSUME TypeOK, Hand(results)
  PROVE  Finals' = Finals /\ returned' \in Seq(FinalRecord) /\ results' = <<>>
<1>1. /\ returned \in Seq(FinalRecord) /\ results \in Seq(FinalRecord)
      /\ returned' = returned \o results /\ results' = <<>>
  BY DEF TypeOK, FinalRecord, Hand
<1>2. returned \o results \in Seq(FinalRecord)
  BY <1>1
<1>3. (returned \o results) \o <<>> = returned \o results
  BY <1>2
<1> QED
  BY <1>1, <1>2, <1>3 DEF Finals

\* A new result comes last, whether it is kept or handed over at once.
LEMMA AppendToFinals ==
  ASSUME TypeOK, NEW f \in FinalRecord,
         \/ results' = Append(results, f) /\ UNCHANGED returned
         \/ Hand(Append(results, f))
  PROVE  /\ Finals' = Append(Finals, f)
         /\ results' \in Seq(FinalRecord) /\ returned' \in Seq(FinalRecord)
<1>1. returned \in Seq(FinalRecord) /\ results \in Seq(FinalRecord)
  BY DEF TypeOK, FinalRecord
<1>2. returned \o Append(results, f) = Append(returned \o results, f)
  BY <1>1
<1>3. /\ Append(results, f) \in Seq(FinalRecord)
      /\ returned \o Append(results, f) \in Seq(FinalRecord)
  BY <1>1
<1>4. (returned \o Append(results, f)) \o <<>> = returned \o Append(results, f)
  BY <1>3
<1>5. CASE results' = Append(results, f) /\ UNCHANGED returned
  BY <1>1, <1>2, <1>3, <1>5 DEF Finals
<1>6. CASE Hand(Append(results, f))
  <2>1. /\ results' = <<>> /\ returned' = returned \o Append(results, f)
        /\ <<>> \in Seq(FinalRecord)
    BY <1>6 DEF Hand
  <2> QED
    BY <1>2, <1>3, <1>4, <2>1 DEF Finals
<1> QED
  BY <1>5, <1>6

\* A call that fails takes its results with it: what remains is a prefix.
LEMMA FailCutsFinals ==
  ASSUME TypeOK, Fail
  PROVE  /\ Len(Finals') \in 0..Len(Finals)
         /\ Finals' = SubSeq(Finals, 1, Len(Finals'))
         /\ \A i \in 1..Len(Finals') : Finals'[i] = Finals[i]
<1>1. /\ returned \in Seq(FinalRecord) /\ results \in Seq(FinalRecord)
      /\ returned' = returned /\ results' = <<>>
  BY DEF TypeOK, FinalRecord, Fail
<1>2. returned \o <<>> = returned
  BY <1>1
<1>3. /\ Len(returned \o results) = Len(returned) + Len(results)
      /\ Len(returned) \in Nat /\ Len(results) \in Nat
      /\ \A i \in 1..Len(returned) : (returned \o results)[i] = returned[i]
  BY <1>1
<1>4. SubSeq(returned \o results, 1, Len(returned)) = returned
  BY <1>1, <1>3
<1> QED
  BY <1>1, <1>2, <1>3, <1>4 DEF Finals

LEMMA FinalIsRecord ==
  ASSUME TypeOK PROVE Final \in FinalRecord
<1>1. /\ len \in Nat /\ base \in Nat /\ Pad \in Nat
      /\ speechStart \in Nat /\ lastSpeech \in Nat
  BY StreamAssumption DEF TypeOK
<1>2. SatSub(speechStart, Pad) \in Nat /\ Less(lastSpeech + Pad, len) \in Nat
  BY <1>1 DEF SatSub, Less
<1> QED
  BY <1>1, <1>2 DEF Final, FinalRecord

---------------------------------------------------------------------------
(* Steps that leave the results alone keep them in order: the buffer never   *)
(* moves back.                                                              *)

LEMMA SameFinalsInOrder ==
  ASSUME TypeOK, FinalsInOrder, Finals' = Finals, base' = base
  PROVE  FinalsInOrder'
BY FinalsType DEF FinalsInOrder, TypeOK

\* A final result and the cut of the buffer that goes with it.
LEMMA CutKeepsInv ==
  ASSUME IInv, pc \in {"loop", "judged"}, inSpeech, ResetAfterFinal,
         \/ results' = Append(results, Final) /\ UNCHANGED returned
         \/ Hand(Append(results, Final)),
         pc' \in {"idle", "loop"},
         UNCHANGED <<call, verdict, judgedBy, quiet, failed, dropped>>
  PROVE  /\ IInv'
         /\ Finals' = Append(Finals, Final)
         /\ base' = base + lastSpeech
         /\ vadProcessed' = 0
         /\ inSpeech' = FALSE
         /\ len' < len
<1> USE DEF IInv
<1>1. /\ len \in Nat /\ vadProcessed \in Nat /\ base \in Nat
      /\ speechStart \in Nat /\ lastSpeech \in Nat
      /\ Pad \in Nat
      /\ speechStart < lastSpeech /\ lastSpeech <= vadProcessed
      /\ vadProcessed <= len
  BY StreamAssumption DEF TypeOK, IndexOrder
<1>2. /\ len' = len - lastSpeech /\ base' = base + lastSpeech
      /\ len' \in Nat /\ base' \in Nat
      /\ vadProcessed' = 0 /\ inSpeech' = FALSE /\ silenceStart' = None
      /\ lastPartialAt' = 0
      /\ speechStart' = speechStart /\ lastSpeech' = lastSpeech
  BY <1>1 DEF ResetAfterFinal, StartOver, SatSub, Less
<1>3. /\ Final \in FinalRecord
      /\ Final.lo <= Final.from /\ Final.from < Final.to
      /\ Final.to <= Final.hi /\ Final.to = base' /\ base <= Final.lo
  <2>1. /\ SatSub(speechStart, Pad) \in Nat
        /\ SatSub(speechStart, Pad) <= speechStart
        /\ Less(lastSpeech + Pad, len) \in Nat
        /\ lastSpeech <= Less(lastSpeech + Pad, len)
    BY <1>1 DEF SatSub, Less
  <2> QED
    BY <1>1, <1>2, <2>1 DEF Final, FinalRecord
<1> HIDE DEF IInv
<1>4. /\ Finals' = Append(Finals, Final)
      /\ results' \in Seq(FinalRecord) /\ returned' \in Seq(FinalRecord)
  BY <1>3, AppendToFinals DEF IInv
<1>5. TypeOK'
  BY <1>1, <1>2, <1>4 DEF TypeOK, IInv, FinalRecord
<1>6. IndexOrder'
  BY <1>1, <1>2 DEF IndexOrder, IInv
<1>7. FinalsInOrder'
  <2>1. /\ Finals \in Seq(FinalRecord) /\ Len(Finals) \in Nat
        /\ Len(Finals') = Len(Finals) + 1
        /\ \A i \in 1..Len(Finals) : Finals'[i] = Finals[i]
        /\ Finals'[Len(Finals) + 1] = Final
    BY <1>3, <1>4, FinalsType DEF IInv
  <2>2. \A i \in 1..Len(Finals) :
          /\ Finals[i].lo <= Finals[i].from /\ Finals[i].from < Finals[i].to
          /\ Finals[i].to <= Finals[i].hi /\ Finals[i].to <= base
          /\ Finals[i].to \in Nat
    BY FinalsType DEF IInv, FinalsInOrder
  <2>3. ASSUME NEW i \in 1..Len(Finals')
        PROVE  /\ Finals'[i].lo <= Finals'[i].from
               /\ Finals'[i].from < Finals'[i].to
               /\ Finals'[i].to <= Finals'[i].hi
               /\ Finals'[i].to <= base'
    <3>1. CASE i \in 1..Len(Finals)
      BY <1>1, <1>2, <2>1, <2>2, <3>1
    <3>2. CASE i = Len(Finals) + 1
      BY <1>2, <1>3, <2>1, <3>2
    <3> QED
      BY <2>1, <3>1, <3>2
  <2>4. ASSUME NEW i \in 1..Len(Finals'), NEW j \in 1..Len(Finals'), i < j
        PROVE  Finals'[i].to <= Finals'[j].lo
    <3>1. i \in 1..Len(Finals)
      BY <2>1, <2>4
    <3>2. CASE j \in 1..Len(Finals)
      BY <2>1, <2>4, <3>1, <3>2 DEF IInv, FinalsInOrder
    <3>3. CASE j = Len(Finals) + 1
      <4>1. Final.lo \in Nat
        BY <1>3 DEF FinalRecord
      <4> QED
        BY <1>1, <1>3, <2>1, <2>2, <3>1, <3>3, <4>1
    <3> QED
      BY <2>1, <3>2, <3>3
  <2> QED
    BY <2>3, <2>4 DEF FinalsInOrder
<1> QED
  BY <1>1, <1>2, <1>4, <1>5, <1>6, <1>7 DEF IInv

---------------------------------------------------------------------------
(* Invariance *)

LEMMA InitEstablishesInv == Init => IInv
<1> SUFFICES ASSUME Init PROVE IInv
  OBVIOUS
<1>1. TypeOK
  <2>1. <<>> \in Seq([from : Nat, to : Nat, lo : Nat, hi : Nat])
    OBVIOUS
  <2>2. inSpeech \in BOOLEAN /\ failed \in BOOLEAN /\ dropped \in BOOLEAN
    BY Zenon DEF Init
  <2> QED
    BY <2>1, <2>2 DEF Init, TypeOK
<1>2. IndexOrder
  BY DEF Init, IndexOrder
<1>3. Finals = <<>>
  <2>1. <<>> \o <<>> = <<>>
    OBVIOUS
  <2> QED
    BY <2>1 DEF Init, Finals
<1>4. FinalsInOrder
  BY <1>3 DEF FinalsInOrder
<1> QED
  BY <1>1, <1>2, <1>4 DEF IInv

LEMMA CallKeepsInv ==
  ASSUME IInv, Finalize \/ \E n \in Chunks : ProcessChunk(n)
  PROVE  IInv' /\ Finals' = Finals /\ UNCHANGED <<base, vadProcessed, segment>>
<1>1. /\ pc = "idle" /\ pc' = "loop" /\ call' \in {"chunk", "finalize"}
      /\ UNCHANGED <<vadProcessed, segment, verdict, judgedBy, results, history>>
      /\ len \in Nat /\ len' \in Nat /\ len' >= len
  <2>1. CASE Finalize
    BY <2>1 DEF Finalize, Begin, IInv, TypeOK
  <2>2. ASSUME NEW n \in Chunks, ProcessChunk(n)
        PROVE  len' = len + n /\ n \in Nat /\ Begin("chunk")
    BY <2>2, StreamAssumption DEF ProcessChunk
  <2> QED
    BY <2>1, <2>2 DEF Begin, IInv, TypeOK
<1>2. TypeOK'
  BY <1>1 DEF IInv, TypeOK, segment, history
<1>3. IndexOrder'
  <2>1. vadProcessed \in Nat /\ vadProcessed <= len'
    BY <1>1 DEF IInv, TypeOK, IndexOrder
  <2> QED
    BY <1>1, <2>1 DEF IInv, IndexOrder, segment
<1>4. Finals' = Finals /\ base' = base
  BY <1>1 DEF Finals, history
<1>5. FinalsInOrder'
  BY <1>4, SameFinalsInOrder DEF IInv
<1> QED
  BY <1>1, <1>2, <1>3, <1>4, <1>5 DEF IInv

LEMMA JudgeKeepsInv ==
  ASSUME IInv, NEW v \in {"speech", "between", "silence"}, Judge(v)
  PROVE  /\ IInv'
         /\ Finals' = Finals
         /\ base' = base
         /\ vadProcessed' = vadProcessed + Frame
<1>1. /\ pc = "loop" /\ pc' = "judged" /\ vadProcessed + Frame <= len
      /\ vadProcessed' = vadProcessed + Frame
      /\ verdict' = v /\ judgedBy' = call
      /\ UNCHANGED <<len, call, results, base, returned, failed, dropped>>
      /\ Frame \in Nat \ {0}
  BY StreamAssumption DEF Judge, FrameAvailable
<1>2. Finals' = Finals
  BY <1>1 DEF Finals
<1>3. FinalsInOrder'
  BY <1>1, <1>2, SameFinalsInOrder DEF IInv
<1>4. quiet' \in SUBSET Nat
  BY <1>1 DEF Judge, IInv, TypeOK
<1>5. /\ len \in Nat /\ vadProcessed \in Nat /\ base \in Nat
      /\ speechStart \in Nat /\ lastSpeech \in Nat /\ lastPartialAt \in Nat
      /\ silenceStart \in Nat \union {None} /\ inSpeech \in BOOLEAN
      /\ None \notin Nat
  BY StreamAssumption DEF IInv, TypeOK
<1>6. TypeOK' /\ IndexOrder'
  <2>1. CASE v = "speech" /\ HearSpeech
    <3>1. /\ inSpeech' = TRUE /\ lastSpeech' = vadProcessed + Frame
          /\ silenceStart' = None
          /\ \/ speechStart' = vadProcessed /\ lastPartialAt' = vadProcessed
             \/ inSpeech /\ UNCHANGED <<speechStart, lastPartialAt>>
      BY <2>1 DEF HearSpeech
    <3>2. TypeOK'
      BY <1>1, <1>4, <1>5, <3>1 DEF IInv, TypeOK
    <3>3. IndexOrder'
      BY <1>1, <1>5, <2>1, <3>1 DEF IInv, IndexOrder
    <3> QED
      BY <3>2, <3>3
  <2>2. CASE v = "silence" /\ HearSilence
    <3>1. /\ UNCHANGED <<inSpeech, speechStart, lastSpeech, lastPartialAt>>
          /\ \/ inSpeech /\ silenceStart = None /\ silenceStart' = vadProcessed
             \/ (~inSpeech \/ silenceStart # None) /\ UNCHANGED silenceStart
      BY <2>2 DEF HearSilence
    <3>2. TypeOK'
      BY <1>1, <1>4, <1>5, <3>1 DEF IInv, TypeOK
    <3>3. IndexOrder'
      BY <1>1, <1>5, <2>2, <3>1 DEF IInv, IndexOrder
    <3> QED
      BY <3>2, <3>3
  <2>3. CASE v = "between" /\ UNCHANGED segment
    <3>1. UNCHANGED <<inSpeech, speechStart, lastSpeech, silenceStart,
                      lastPartialAt>>
      BY <2>3 DEF segment
    <3>2. TypeOK'
      BY <1>1, <1>4, <1>5, <3>1 DEF IInv, TypeOK
    <3>3. IndexOrder'
      BY <1>1, <1>5, <2>3, <3>1 DEF IInv, IndexOrder
    <3> QED
      BY <3>2, <3>3
  <2> QED
    BY <2>1, <2>2, <2>3 DEF Judge
<1> QED
  BY <1>1, <1>2, <1>3, <1>6 DEF IInv

LEMMA FailKeepsInv ==
  ASSUME IInv, Fail PROVE IInv'
<1>1. TypeOK'
  BY DEF IInv, TypeOK, Fail, buffer, segment
<1>2. IndexOrder'
  BY DEF IInv, IndexOrder, Fail, buffer, segment
<1>3. FinalsInOrder'
  <2>1. /\ Len(Finals') \in 0..Len(Finals) /\ Len(Finals) \in Nat
        /\ \A i \in 1..Len(Finals') : Finals'[i] = Finals[i]
        /\ base' = base
    BY FailCutsFinals, FinalsType DEF IInv, Fail
  <2>2. \A i \in 1..Len(Finals') : i \in 1..Len(Finals)
    BY <2>1
  <2> QED
    BY <2>1, <2>2 DEF IInv, FinalsInOrder
<1> QED
  BY <1>1, <1>2, <1>3 DEF IInv

\* A step that goes on without a final result.
LEMMA GoOnKeepsInv ==
  ASSUME IInv, EmitPartial \/ Continue
  PROVE  /\ IInv' /\ Finals' = Finals
         /\ UNCHANGED <<base, call, vadProcessed, inSpeech, speechStart,
                        lastSpeech, silenceStart>>
<1>1. /\ pc' = "loop"
      /\ UNCHANGED <<len, vadProcessed, inSpeech, speechStart, lastSpeech,
           silenceStart, call, verdict, judgedBy, results, base, quiet, returned, failed,
           dropped>>
      /\ lastPartialAt' \in {lastPartialAt, vadProcessed}
  BY DEF EmitPartial, Continue, buffer, segment, history
<1>2. TypeOK'
  BY <1>1 DEF IInv, TypeOK
<1>3. IndexOrder'
  BY <1>1 DEF IInv, IndexOrder, TypeOK
<1>4. Finals' = Finals
  BY <1>1 DEF Finals
<1>5. FinalsInOrder'
  BY <1>1, <1>4, SameFinalsInOrder DEF IInv
<1> QED
  BY <1>1, <1>2, <1>3, <1>4, <1>5 DEF IInv

\* A call that returns the results it has.
LEMMA ReturnKeepsInv ==
  ASSUME IInv, Hand(results),
         UNCHANGED <<buffer, segment, call, verdict, judgedBy, base, quiet, failed, dropped>>
  PROVE  IInv' /\ Finals' = Finals
<1>1. /\ Finals' = Finals /\ returned' \in Seq(FinalRecord) /\ results' = <<>>
      /\ pc' = "idle"
  BY HandKeepsFinals DEF IInv, Hand
<1>2. TypeOK'
  BY <1>1 DEF IInv, TypeOK, buffer, segment, FinalRecord
<1>3. IndexOrder'
  BY <1>1 DEF IInv, IndexOrder, buffer, segment
<1>4. FinalsInOrder'
  BY <1>1, SameFinalsInOrder DEF IInv
<1> QED
  BY <1>1, <1>2, <1>3, <1>4 DEF IInv

LEMMA StepKeepsInv == IInv /\ [Next]_vars => IInv'
<1> SUFFICES ASSUME IInv, [Next]_vars PROVE IInv'
  OBVIOUS
<1>1. ASSUME Finalize \/ \E n \in Chunks : ProcessChunk(n) PROVE IInv'
  BY <1>1, CallKeepsInv
<1>2. ASSUME NEW v \in {"speech", "between", "silence"}, Judge(v) PROVE IInv'
  BY <1>2, JudgeKeepsInv
<1>3. ASSUME Fail PROVE IInv'
  BY <1>3, FailKeepsInv
<1>4. ASSUME EmitFinal PROVE IInv'
  BY <1>4, CutKeepsInv DEF EmitFinal, SilenceEnds, TooLong
<1>5. ASSUME EmitPartial \/ Continue PROVE IInv'
  BY <1>5, GoOnKeepsInv
<1>6. ASSUME ReturnFromChunk PROVE IInv'
  BY <1>6, ReturnKeepsInv DEF ReturnFromChunk
<1>7. ASSUME ReturnFromFinalize PROVE IInv'
  <2>1. CASE Hand(Append(results, Final)) /\ ResetAfterFinal /\ inSpeech
    BY <1>7, <2>1, CutKeepsInv DEF ReturnFromFinalize, Hand
  <2>2. CASE Hand(results) /\ UNCHANGED <<buffer, segment, base>>
    BY <1>7, <2>2, ReturnKeepsInv DEF ReturnFromFinalize
  <2> QED
    BY <1>7, <2>1, <2>2 DEF ReturnFromFinalize
<1>8. CASE UNCHANGED vars
  <2> USE <1>8 DEF vars, buffer, segment, history
  <2>1. TypeOK' /\ IndexOrder'
    BY DEF IInv, TypeOK, IndexOrder
  <2>2. Finals' = Finals /\ base' = base
    BY DEF Finals
  <2> QED
    BY <2>1, <2>2, SameFinalsInOrder DEF IInv
<1> QED
  BY <1>1, <1>2, <1>3, <1>4, <1>5, <1>6, <1>7, <1>8
  DEF Next, Step, VadError, DecodeError, FinalizeError

LEMMA Invariance == Spec => []IInv
BY InitEstablishesInv, StepKeepsInv, PTL DEF Spec

---------------------------------------------------------------------------
(* Results *)

\* The session's variables keep their types.
THEOREM TypeCorrect == Spec => []TypeOK
<1>1. IInv => TypeOK
  BY DEF IInv
<1> QED
  BY <1>1, Invariance, PTL

\* No index of the session leaves the buffer or overtakes another one, through
\* any sequence of chunks, verdicts, finals and errors.
THEOREM IndicesInOrder == Spec => []IndexOrder
<1>1. IInv => IndexOrder
  BY DEF IInv
<1> QED
  BY <1>1, Invariance, PTL

\* Final results never overlap in speech and come in the order of the audio.
THEOREM FinalsOrdered == Spec => []FinalsInOrder
<1>1. IInv => FinalsInOrder
  BY DEF IInv
<1> QED
  BY <1>1, Invariance, PTL

\* The detector goes back only over less audio than before.
THEOREM RewindsTerminate == Spec => RewindsShrink
<1>1. IInv /\ [Next]_vars => [vadProcessed' < vadProcessed => len' < len]_vars
  <2> SUFFICES ASSUME IInv, [Next]_vars, vadProcessed' < vadProcessed
               PROVE  len' < len
    OBVIOUS
  <2>1. vadProcessed \in Nat /\ Frame \in Nat
    BY StreamAssumption DEF IInv, TypeOK
  <2>2. ASSUME Finalize \/ \E n \in Chunks : ProcessChunk(n) PROVE len' < len
    BY <2>1, <2>2, CallKeepsInv
  <2>3. ASSUME NEW v \in {"speech", "between", "silence"}, Judge(v)
        PROVE  len' < len
    BY <2>1, <2>3, JudgeKeepsInv
  <2>4. ASSUME EmitFinal PROVE len' < len
    BY <2>4, CutKeepsInv DEF EmitFinal, SilenceEnds, TooLong
  <2>5. ASSUME ReturnFromFinalize PROVE len' < len
    <3>1. CASE Hand(Append(results, Final)) /\ ResetAfterFinal /\ inSpeech
      BY <2>5, <3>1, CutKeepsInv DEF ReturnFromFinalize, Hand
    <3>2. CASE UNCHANGED <<buffer, segment, base>>
      BY <2>1, <3>2 DEF buffer
    <3> QED
      BY <2>5, <3>1, <3>2 DEF ReturnFromFinalize
  <2>6. ASSUME UNCHANGED buffer PROVE len' < len
    BY <2>1, <2>6 DEF buffer
  <2>7. \/ Finalize \/ \E n \in Chunks : ProcessChunk(n)
        \/ \E v \in {"speech", "between", "silence"} : Judge(v)
        \/ EmitFinal \/ ReturnFromFinalize
        \/ UNCHANGED buffer
    BY DEF Next, Step, VadError, EmitPartial, Continue, DecodeError,
       ReturnFromChunk, FinalizeError, Fail, vars
  <2> QED
    BY <2>2, <2>3, <2>4, <2>5, <2>6, <2>7
<1> QED
  BY <1>1, Invariance, PTL DEF Spec, RewindsShrink

---------------------------------------------------------------------------
(* The length of a segment *)

\* An open segment holds a frame of speech, so that what a cut leaves is shorter
\* than the segment was.
HoldsFrame == inSpeech => speechStart + Frame <= lastSpeech

\* finalize has frames to judge only if an earlier cut left them, and then the
\* whole buffer is shorter than the longest segment.
Bounds ==
    ~failed =>
        /\ SegmentBounded
        /\ pc = "judged" => judgedBy = call
        /\ pc = "idle" \/ call = "finalize" =>
             \/ len < MaxSegment
             \/ pc # "judged" /\ ~FrameAvailable

BoundInv == HoldsFrame /\ Bounds

LEMMA CallKeepsBound ==
  ASSUME IInv, BoundInv, Finalize \/ \E n \in Chunks : ProcessChunk(n)
  PROVE  BoundInv'
<1>1. /\ pc = "idle" /\ pc' = "loop"
      /\ UNCHANGED <<vadProcessed, inSpeech, speechStart, lastSpeech, lastPartialAt, judgedBy, failed>>
      /\ \/ call' = "chunk"
         \/ call' = "finalize" /\ len' = len
  BY DEF Finalize, ProcessChunk, Begin, segment, history
<1> QED
  BY <1>1 DEF BoundInv, HoldsFrame, Bounds, SegmentBounded, FrameAvailable

LEMMA JudgeKeepsBound ==
  ASSUME IInv, BoundInv, NEW v \in {"speech", "between", "silence"}, Judge(v)
  PROVE  BoundInv'
<1>1. /\ pc = "loop" /\ pc' = "judged" /\ judgedBy' = call /\ vadProcessed' = vadProcessed + Frame
      /\ UNCHANGED <<len, call, failed>> /\ FrameAvailable
      /\ vadProcessed \in Nat /\ Frame \in Nat /\ speechStart \in Nat /\ lastSpeech \in Nat
      /\ inSpeech => speechStart < lastSpeech /\ lastSpeech <= vadProcessed
  BY StreamAssumption DEF Judge, IInv, TypeOK, IndexOrder
<1>2. HoldsFrame'
  <2>1. CASE HearSpeech
    <3>1. /\ lastSpeech' = vadProcessed + Frame
          /\ speechStart' = vadProcessed \/ (inSpeech /\ speechStart' = speechStart)
      BY <2>1 DEF HearSpeech
    <3>2. speechStart' + Frame <= lastSpeech'
      BY <1>1, <3>1
    <3> QED
      BY <3>2 DEF HoldsFrame
  <2>2. CASE UNCHANGED <<inSpeech, speechStart, lastSpeech>>
    BY <2>2 DEF BoundInv, HoldsFrame
  <2> QED
    BY <2>1, <2>2 DEF Judge, HearSilence, segment
<1>3. Bounds'
  BY <1>1 DEF BoundInv, Bounds, SegmentBounded
<1> QED
  BY <1>2, <1>3 DEF BoundInv

\* A final result closes the segment; in finalize it also shortens the buffer.
LEMMA CutKeepsBound ==
  ASSUME IInv, BoundInv, inSpeech, ResetAfterFinal, IInv', inSpeech' = FALSE, len' < len,
         UNCHANGED <<call, judgedBy, failed>>, pc' \in {"idle", "loop"},
         \/ pc = "judged" /\ pc' = "loop"
         \/ pc = "loop" /\ ~FrameAvailable /\ call = "finalize"
  PROVE  BoundInv'
<1>1. /\ len \in Nat /\ vadProcessed \in Nat /\ speechStart \in Nat /\ lastSpeech \in Nat
      /\ len' \in Nat /\ Frame \in Nat /\ MaxSegment \in Nat
      /\ lastSpeech <= vadProcessed /\ vadProcessed <= len
  BY StreamAssumption DEF IInv, TypeOK, IndexOrder
<1>2. len' = len - lastSpeech
  BY <1>1 DEF ResetAfterFinal, SatSub
<1>3. ASSUME ~failed, call = "finalize" PROVE len' < MaxSegment
  <2>1. CASE len < MaxSegment
    BY <1>1, <2>1
  <2>2. CASE pc = "loop" /\ ~FrameAvailable
    <3>1. vadProcessed - speechStart < MaxSegment /\ len < vadProcessed + Frame
      BY <1>1, <1>3, <2>2 DEF BoundInv, Bounds, SegmentBounded, FrameAvailable
    <3>2. speechStart + Frame <= lastSpeech
      BY DEF BoundInv, HoldsFrame
    <3> QED
      BY <1>1, <1>2, <3>1, <3>2
  <2> QED
    BY <1>3, <2>1, <2>2 DEF BoundInv, Bounds
<1> QED
  BY <1>3 DEF BoundInv, HoldsFrame, Bounds, SegmentBounded

LEMMA GoOnKeepsBound ==
  ASSUME IInv, BoundInv, EmitPartial \/ Continue
  PROVE  BoundInv'
<1>1. /\ pc = "judged" /\ pc' = "loop" /\ ~TooLong
      /\ UNCHANGED <<len, vadProcessed, inSpeech, speechStart, lastSpeech, call, judgedBy, failed>>
      /\ \/ PartialDue /\ lastPartialAt' = vadProcessed
         \/ ~PartialDue /\ lastPartialAt' = lastPartialAt
  BY DEF EmitPartial, Continue, buffer, segment, history
<1>2. /\ len \in Nat /\ vadProcessed \in Nat /\ speechStart \in Nat /\ lastPartialAt \in Nat
      /\ MaxSegment \in Nat /\ Partial \in Nat \ {0}
      /\ vadProcessed <= len
      /\ inSpeech => speechStart <= vadProcessed /\ lastPartialAt <= vadProcessed
      /\ call \in {"chunk", "finalize"}
  BY StreamAssumption DEF IInv, TypeOK, IndexOrder
<1>3. HoldsFrame'
  BY <1>1 DEF BoundInv, HoldsFrame
<1>4. CASE ~failed /\ call = "chunk"
  <2>1. inSpeech => vadProcessed - speechStart < MaxSegment
    BY <1>1, <1>2, <1>4 DEF TooLong, SatSub
  <2>2. inSpeech => vadProcessed - lastPartialAt' < Partial
    BY <1>1, <1>2, <1>4 DEF PartialDue, SatSub
  <2> QED
    BY <1>1, <1>3, <1>4, <2>1, <2>2 DEF BoundInv, Bounds, SegmentBounded
<1>5. CASE ~failed /\ call = "finalize"
  <2>1. len < MaxSegment /\ judgedBy = "finalize"
    BY <1>1, <1>5 DEF BoundInv, Bounds
  <2>2. inSpeech => vadProcessed - speechStart < MaxSegment
    BY <1>2, <2>1
  <2> QED
    BY <1>1, <1>3, <1>5, <2>1, <2>2 DEF BoundInv, Bounds, SegmentBounded
<1>6. CASE failed
  BY <1>1, <1>3, <1>6 DEF BoundInv, Bounds
<1> QED
  BY <1>2, <1>4, <1>5, <1>6

LEMMA StepKeepsBound == IInv /\ BoundInv /\ [Next]_vars => BoundInv'
<1> SUFFICES ASSUME IInv, BoundInv, [Next]_vars PROVE BoundInv'
  OBVIOUS
<1>1. ASSUME Fail PROVE BoundInv'
  BY <1>1 DEF Fail, segment, BoundInv, HoldsFrame, Bounds
<1>2. ASSUME EmitFinal PROVE BoundInv'
  <2>1. pc = "judged" /\ inSpeech /\ ResetAfterFinal /\ pc' = "loop" /\ UNCHANGED <<call, judgedBy, failed>>
    BY <1>2 DEF EmitFinal, SilenceEnds, TooLong
  <2>2. IInv' /\ inSpeech' = FALSE /\ len' < len
    BY <1>2, <2>1, CutKeepsInv DEF EmitFinal
  <2> QED
    BY <2>1, <2>2, CutKeepsBound
<1>3. ASSUME UNCHANGED <<buffer, segment, call, judgedBy, failed>>,
             pc' = pc \/ (pc = "loop" /\ pc' = "idle" /\ ~FrameAvailable)
      PROVE  BoundInv'
  BY <1>3 DEF buffer, segment, BoundInv, HoldsFrame, Bounds, SegmentBounded, FrameAvailable
<1>4. ASSUME ReturnFromFinalize PROVE BoundInv'
  <2>1. /\ pc = "loop" /\ pc' = "idle" /\ ~FrameAvailable /\ call = "finalize"
        /\ UNCHANGED <<call, judgedBy, failed>>
    BY <1>4 DEF ReturnFromFinalize, Hand
  <2>2. CASE Hand(Append(results, Final)) /\ ResetAfterFinal /\ inSpeech
    <3>1. IInv' /\ inSpeech' = FALSE /\ len' < len
      BY <1>4, <2>1, <2>2, CutKeepsInv DEF ReturnFromFinalize
    <3> QED
      BY <2>1, <2>2, <3>1, CutKeepsBound
  <2>3. CASE UNCHANGED <<buffer, segment, base>>
    BY <1>3, <2>1, <2>3
  <2> QED
    BY <1>4, <2>2, <2>3 DEF ReturnFromFinalize
<1>5. ASSUME ReturnFromChunk PROVE BoundInv'
  BY <1>3, <1>5 DEF ReturnFromChunk, Hand
<1>6. CASE UNCHANGED vars
  BY <1>3, <1>6 DEF vars, history
<1> QED
  BY <1>1, <1>2, <1>4, <1>5, <1>6, CallKeepsBound, JudgeKeepsBound, GoOnKeepsBound
  DEF Next, Step, VadError, DecodeError, FinalizeError

\* A segment that a call leaves open is shorter than the maximum, and its partial
\* results are in time, as far as process_chunk judged it.
THEOREM SegmentsBounded == Spec => []SegmentBounded
<1>1. Init => BoundInv
  BY StreamAssumption DEF Init, BoundInv, HoldsFrame, Bounds, SegmentBounded, FrameAvailable
<1>2. BoundInv /\ IInv => SegmentBounded
  BY DEF BoundInv, Bounds, SegmentBounded
<1> QED
  BY <1>1, <1>2, StepKeepsBound, Invariance, PTL DEF Spec

---------------------------------------------------------------------------
(* What is left after a call *)

\* Speech that is long enough stays so until it becomes a result.
LEMMA SpeechStays ==
  ASSUME IInv, [Next]_vars, Left = "speech"
  PROVE  Left' = "speech" \/ Len(Finals') > Len(Finals)
<1>1. /\ inSpeech /\ LongEnough
      /\ vadProcessed \in Nat /\ speechStart \in Nat /\ lastSpeech \in Nat
      /\ Frame \in Nat /\ MinSpeech \in Nat
      /\ speechStart < lastSpeech /\ lastSpeech <= vadProcessed
  BY StreamAssumption DEF Left, IInv, TypeOK, IndexOrder
<1>2. ASSUME UNCHANGED <<inSpeech, speechStart, lastSpeech>> PROVE Left' = "speech"
  BY <1>1, <1>2 DEF Left, LongEnough
<1>3. ASSUME NEW v \in {"speech", "between", "silence"}, Judge(v)
      PROVE  Left' = "speech"
  <2>1. CASE HearSpeech
    <3>1. inSpeech' /\ lastSpeech' = vadProcessed + Frame /\ speechStart' = speechStart
      BY <1>1, <2>1 DEF HearSpeech
    <3>2. LongEnough'
      BY <1>1, <3>1 DEF LongEnough, SatSub
    <3> QED
      BY <3>1, <3>2 DEF Left
  <2> QED
    BY <1>2, <1>3, <2>1 DEF Judge, HearSilence, segment
<1>4. ASSUME Finals' = Append(Finals, Final) PROVE Len(Finals') > Len(Finals)
  BY <1>4, FinalsType, FinalIsRecord DEF IInv
<1>5. ASSUME EmitFinal PROVE Len(Finals') > Len(Finals)
  BY <1>1, <1>4, <1>5, CutKeepsInv DEF EmitFinal
<1>6. ASSUME ReturnFromFinalize PROVE Len(Finals') > Len(Finals)
  BY <1>1, <1>4, <1>6, CutKeepsInv DEF ReturnFromFinalize, Hand
<1>7. \/ \E v \in {"speech", "between", "silence"} : Judge(v)
      \/ EmitFinal \/ ReturnFromFinalize
      \/ UNCHANGED <<inSpeech, speechStart, lastSpeech>>
  BY DEF Next, Step, Finalize, ProcessChunk, Begin, VadError, EmitPartial, Continue,
     DecodeError, ReturnFromChunk, FinalizeError, Fail, vars, segment
<1> QED
  BY <1>2, <1>3, <1>5, <1>6, <1>7

\* A call returns when no frame is left to be judged; finalize has also reported
\* the speech that was long enough, and sent the detector back only for that.
LEMMA ReturnsLeave ==
  ASSUME IInv
  PROVE  /\ ReturnFromChunk => Left' # "audio"
         /\ ReturnFromFinalize =>
              /\ Left' # "speech"
              /\ results = <<>> /\ returned' = returned => Left' = "nothing"
<1>1. ASSUME ReturnFromChunk PROVE Left' # "audio"
  BY <1>1 DEF ReturnFromChunk, buffer, segment, Left, LongEnough, FrameAvailable
<1>2. ASSUME ReturnFromFinalize
      PROVE  /\ Left' # "speech"
             /\ results = <<>> /\ returned' = returned => Left' = "nothing"
  <2>1. CASE Hand(Append(results, Final)) /\ ResetAfterFinal
    <3>1. inSpeech' = FALSE
      BY <2>1 DEF ResetAfterFinal, StartOver
    <3>2. returned' # returned
      <4>1. returned \in Seq(FinalRecord) /\ results \in Seq(FinalRecord)
            /\ Final \in FinalRecord
        BY FinalIsRecord DEF IInv, TypeOK, FinalRecord
      <4>2. /\ returned' = returned \o Append(results, Final)
            /\ Len(returned \o Append(results, Final)) = Len(returned) + Len(results) + 1
            /\ Len(returned) \in Nat /\ Len(results) \in Nat
        BY <2>1, <4>1 DEF Hand
      <4> QED
        BY <4>2
    <3> QED
      BY <3>1, <3>2 DEF Left
  <2>2. CASE (~inSpeech \/ ~LongEnough) /\ UNCHANGED <<buffer, segment, base>>
    BY <1>2, <2>2
    DEF ReturnFromFinalize, buffer, segment, Left, LongEnough, FrameAvailable
  <2> QED
    BY <1>2, <2>1, <2>2 DEF ReturnFromFinalize
<1> QED
  BY <1>1, <1>2

\* With nothing left, finalize can only return.
LEMMA NothingToFinalize ==
  ASSUME IInv, [Next]_vars, Left = "nothing", pc # "idle", call = "finalize"
  PROVE  /\ Left' = "nothing" /\ Finals' = Finals
         /\ ~VadError /\ ~DecodeError /\ ~FinalizeError
<1>1. ~FrameAvailable /\ ~(inSpeech /\ LongEnough)
  BY DEF Left
<1>2. ~SilenceEnds /\ ~TooLong /\ ~PartialDue
  BY <1>1 DEF SilenceEnds, TooLong, PartialDue
<1>3. ~VadError /\ ~DecodeError /\ ~FinalizeError
  BY <1>1, <1>2 DEF VadError, DecodeError, FinalizeError
<1>4. Continue \/ ReturnFromFinalize \/ UNCHANGED vars
  BY <1>1, <1>2, <1>3 DEF Next, Step, Finalize, ProcessChunk, Begin, Judge, EmitFinal,
     EmitPartial, ReturnFromChunk
<1>5. ASSUME UNCHANGED <<buffer, segment>> PROVE Left' = "nothing"
  BY <1>5 DEF buffer, segment, Left, LongEnough, FrameAvailable
<1>6. CASE Continue
  BY <1>3, <1>5, <1>6, GoOnKeepsInv DEF Continue
<1>7. CASE ReturnFromFinalize
  <2>1. Hand(results) /\ UNCHANGED <<buffer, segment, base>>
    BY <1>1, <1>7 DEF ReturnFromFinalize
  <2> QED
    BY <1>3, <1>5, <2>1, HandKeepsFinals DEF IInv
<1>8. CASE UNCHANGED vars
  BY <1>3, <1>5, <1>8 DEF vars, history, Finals
<1> QED
  BY <1>4, <1>6, <1>7, <1>8

\* What a handler may rely on between its calls of a session.
THEOREM CallsLeave == Spec => WhatCallsLeave
<1>1. IInv /\ [Next]_vars =>
        [ /\ Left = "speech" => Left' = "speech" \/ Len(Finals') > Len(Finals)
          /\ ReturnFromChunk => Left' # "audio"
          /\ ReturnFromFinalize =>
               /\ Left' # "speech"
               /\ results = <<>> /\ returned' = returned => Left' = "nothing"
          /\ Left = "nothing" /\ pc # "idle" /\ call = "finalize" =>
               /\ Left' = "nothing"
               /\ Finals' = Finals
               /\ ~VadError /\ ~DecodeError /\ ~FinalizeError ]_vars
  BY SpeechStays, ReturnsLeave, NothingToFinalize
<1> QED
  BY <1>1, Invariance, PTL DEF Spec, WhatCallsLeave

---------------------------------------------------------------------------
(* Frames: multiples of the frame size *)

Multiple(x) == \E k \in Nat : x = k * Frame

LEMMA SumOfMultiples ==
  ASSUME NEW x, NEW y, Multiple(x), Multiple(y)
  PROVE  Multiple(x + y)
<1>1. PICK j \in Nat : x = j * Frame
  BY DEF Multiple
<1>2. PICK k \in Nat : y = k * Frame
  BY DEF Multiple
<1>3. x + y = (j + k) * Frame /\ j + k \in Nat
  BY <1>1, <1>2, StreamAssumption
<1> QED
  BY <1>3 DEF Multiple

LEMMA FrameIsMultiple == Multiple(0) /\ Multiple(Frame)
<1>1. 0 = 0 * Frame /\ Frame = 1 * Frame
  BY StreamAssumption
<1> QED
  BY <1>1 DEF Multiple

\* Frames do not overlap.
LEMMA MultiplesApart ==
  ASSUME NEW x \in Nat, NEW y \in Nat, Multiple(x), Multiple(y), x < y
  PROVE  x + Frame <= y
<1>1. PICK j \in Nat : x = j * Frame
  BY DEF Multiple
<1>2. PICK k \in Nat : y = k * Frame
  BY DEF Multiple
<1>3. Frame \in Nat
  BY StreamAssumption
<1>4. j < k
  <2> SUFFICES ASSUME k <= j PROVE FALSE
    OBVIOUS
  <2>1. PICK d \in Nat : j = k + d
    <3>1. j - k \in Nat /\ j = k + (j - k)
      OBVIOUS
    <3> QED
      BY <3>1
  <2>2. j * Frame = k * Frame + d * Frame /\ d * Frame >= 0
    BY <1>3, <2>1
  <2> QED
    BY <1>1, <1>2, <1>3, <2>2
<1>5. PICK d \in Nat : k = j + 1 + d
  <2>1. k - j - 1 \in Nat /\ k = j + 1 + (k - j - 1)
    BY <1>4
  <2> QED
    BY <2>1
<1>6. k * Frame = j * Frame + Frame + d * Frame /\ d * Frame >= 0
  BY <1>3, <1>5
<1> QED
  BY <1>1, <1>2, <1>3, <1>6

LEMMA NoRestIsMultiple ==
  ASSUME NEW x \in Nat, x % Frame = 0
  PROVE  Multiple(x)
<1>1. x = Frame * (x \div Frame) + (x % Frame) /\ x \div Frame \in Nat
  BY StreamAssumption
<1>2. x = (x \div Frame) * Frame
  BY <1>1, StreamAssumption
<1> QED
  BY <1>1, <1>2 DEF Multiple

---------------------------------------------------------------------------
(* No speech is lost *)

Aligned ==
    /\ Multiple(base) /\ Multiple(vadProcessed)
    /\ Multiple(speechStart) /\ Multiple(lastSpeech)

InFinal(p) == \E i \in 1..Len(Finals) : Finals[i].from <= p /\ p + Frame <= Finals[i].to

\* What was judged and is not part of the open segment was not speech.
Passed ==
    \A p \in Nat :
        /\ Multiple(p) /\ base <= p
        /\ p < base + (IF inSpeech THEN speechStart ELSE vadProcessed)
        => p \in quiet

\* What has left the buffer was not speech, or is part of a final result.
Kept ==
    ~dropped => \A p \in Nat : Multiple(p) /\ p < base => p \in quiet \/ InFinal(p)

Coverage == Aligned /\ Passed /\ Kept

LEMMA SameKeepsCoverage ==
  ASSUME Coverage, Finals' = Finals, dropped' = dropped,
         UNCHANGED <<base, vadProcessed, inSpeech, speechStart, lastSpeech, quiet>>
  PROVE  Coverage'
BY DEF Coverage, Aligned, Passed, Kept, InFinal

\* Only a call that had no results yet may fail without losing speech.
LEMMA FailKeepsCoverage ==
  ASSUME IInv, Coverage, Fail
  PROVE  Coverage'
<1>1. /\ UNCHANGED <<base, vadProcessed, inSpeech, speechStart, lastSpeech, quiet>>
      /\ ~dropped' => ~dropped /\ Finals' = Finals
  BY DEF Fail, buffer, segment, Finals
<1>2. Aligned' /\ Passed'
  BY <1>1 DEF Coverage, Aligned, Passed
<1>3. Kept'
  BY <1>1 DEF Coverage, Kept, InFinal
<1> QED
  BY <1>2, <1>3 DEF Coverage

LEMMA JudgeKeepsCoverage ==
  ASSUME IInv, Coverage, NEW v \in {"speech", "between", "silence"}, Judge(v)
  PROVE  Coverage'
<1>1. /\ base \in Nat /\ vadProcessed \in Nat /\ Frame \in Nat \ {0}
      /\ speechStart \in Nat /\ lastSpeech \in Nat
      /\ inSpeech => speechStart < lastSpeech /\ lastSpeech <= vadProcessed
      /\ UNCHANGED <<base, dropped>> /\ vadProcessed' = vadProcessed + Frame
      /\ Finals' = Finals
  BY StreamAssumption, JudgeKeepsInv DEF IInv, TypeOK, IndexOrder, Judge
<1>2. CASE v = "speech"
  <2>1. /\ inSpeech' /\ lastSpeech' = vadProcessed + Frame
        /\ speechStart' = IF inSpeech THEN speechStart ELSE vadProcessed
        /\ quiet' = quiet \ {base + vadProcessed}
    BY <1>2 DEF Judge, HearSpeech, IInv, TypeOK
  <2>2. Aligned'
    BY <1>1, <2>1, SumOfMultiples, FrameIsMultiple DEF Coverage, Aligned
  <2>3. Passed'
    BY <1>1, <2>1 DEF Coverage, Passed
  <2>4. Kept'
    BY <1>1, <2>1 DEF Coverage, Kept, InFinal
  <2> QED
    BY <2>2, <2>3, <2>4 DEF Coverage
<1>3. CASE v # "speech"
  <2>1. /\ UNCHANGED <<inSpeech, speechStart, lastSpeech>>
        /\ quiet' = quiet \union {base + vadProcessed}
    BY <1>3 DEF Judge, HearSilence, segment
  <2>2. Aligned'
    BY <1>1, <2>1, SumOfMultiples, FrameIsMultiple DEF Coverage, Aligned
  <2>3. Passed'
    <3> SUFFICES ASSUME NEW p \in Nat, Multiple(p), base <= p,
                        p < base + (IF inSpeech THEN speechStart ELSE vadProcessed + Frame)
                 PROVE  p \in quiet \union {base + vadProcessed}
      BY <1>1, <2>1 DEF Passed
    <3>1. CASE inSpeech \/ p < base + vadProcessed
      BY <3>1 DEF Coverage, Passed
    <3>2. CASE ~inSpeech /\ base + vadProcessed < p
      <4>1. Multiple(base + vadProcessed)
        BY SumOfMultiples DEF Coverage, Aligned
      <4>2. base + vadProcessed + Frame <= p
        BY <1>1, <3>2, <4>1, MultiplesApart
      <4> QED
        BY <1>1, <3>2, <4>2
    <3> QED
      BY <1>1, <3>1, <3>2
  <2>4. Kept'
    BY <1>1, <2>1 DEF Coverage, Kept, InFinal
  <2> QED
    BY <2>2, <2>3, <2>4 DEF Coverage
<1> QED
  BY <1>2, <1>3

LEMMA CutKeepsCoverage ==
  ASSUME IInv, Coverage, inSpeech, ResetAfterFinal,
         Finals' = Append(Finals, Final), base' = base + lastSpeech,
         UNCHANGED <<quiet, dropped>>
  PROVE  Coverage'
<1>1. /\ base \in Nat /\ speechStart \in Nat /\ lastSpeech \in Nat /\ Frame \in Nat
      /\ vadProcessed' = 0 /\ inSpeech' = FALSE
      /\ UNCHANGED <<speechStart, lastSpeech>>
  BY StreamAssumption DEF IInv, TypeOK, ResetAfterFinal, StartOver
<1>2. Aligned'
  BY <1>1, SumOfMultiples, FrameIsMultiple DEF Coverage, Aligned
<1>3. Passed'
  BY <1>1 DEF Passed
<1>4. /\ Finals \in Seq(FinalRecord) /\ Len(Finals) \in Nat
      /\ Len(Finals') = Len(Finals) + 1
      /\ \A i \in 1..Len(Finals) : Finals'[i] = Finals[i]
      /\ Finals'[Len(Finals) + 1] = Final
  BY FinalsType, FinalIsRecord DEF IInv
<1>5. Final.from = base + speechStart /\ Final.to = base + lastSpeech
  BY DEF Final
<1>6. ASSUME ~dropped, NEW p \in Nat, Multiple(p), p < base + lastSpeech
      PROVE  p \in quiet \/ InFinal(p)'
  <2>1. CASE p < base
    <3>1. CASE InFinal(p)
      <4>1. PICK i \in 1..Len(Finals) : Finals[i].from <= p /\ p + Frame <= Finals[i].to
        BY <3>1 DEF InFinal
      <4>2. i \in 1..Len(Finals') /\ Finals'[i] = Finals[i]
        BY <1>4
      <4> QED
        BY <4>1, <4>2 DEF InFinal
    <3> QED
      BY <1>6, <2>1, <3>1 DEF Coverage, Kept
  <2>2. CASE base <= p /\ p < base + speechStart
    BY <1>6, <2>2 DEF Coverage, Passed
  <2>3. CASE base + speechStart <= p
    <3>1. p + Frame <= base + lastSpeech
      <4>1. Multiple(base) /\ Multiple(lastSpeech)
        BY DEF Coverage, Aligned
      <4>2. Multiple(base + lastSpeech)
        BY <4>1, SumOfMultiples
      <4>3. base + lastSpeech \in Nat
        BY <1>1
      <4> QED
        BY <1>6, <4>2, <4>3, MultiplesApart
    <3>2. Len(Finals) + 1 \in 1..Len(Finals')
      BY <1>4
    <3> QED
      BY <1>4, <1>5, <2>3, <3>1, <3>2 DEF InFinal
  <2> QED
    BY <1>1, <2>1, <2>2, <2>3
<1>7. Kept'
  BY <1>6 DEF Kept
<1> QED
  BY <1>2, <1>3, <1>7 DEF Coverage

LEMMA StepKeepsCoverage == IInv /\ Coverage /\ [Next]_vars => Coverage'
<1> SUFFICES ASSUME IInv, Coverage, [Next]_vars PROVE Coverage'
  OBVIOUS
<1>1. ASSUME Finalize \/ \E n \in Chunks : ProcessChunk(n) PROVE Coverage'
  <2>1. Finals' = Finals /\ UNCHANGED <<base, vadProcessed, segment>>
    BY <1>1, CallKeepsInv
  <2>2. UNCHANGED <<quiet, dropped>>
    BY <1>1 DEF Finalize, ProcessChunk, Begin, history
  <2> QED
    BY <2>1, <2>2, SameKeepsCoverage DEF segment
<1>2. ASSUME EmitFinal PROVE Coverage'
  <2>1. pc = "judged" /\ inSpeech /\ ResetAfterFinal /\ UNCHANGED <<quiet, dropped>>
    BY <1>2 DEF EmitFinal, SilenceEnds, TooLong
  <2>2. Finals' = Append(Finals, Final) /\ base' = base + lastSpeech
    BY <1>2, <2>1, CutKeepsInv DEF EmitFinal
  <2> QED
    BY <2>1, <2>2, CutKeepsCoverage
<1>3. ASSUME EmitPartial \/ Continue PROVE Coverage'
  <2>1. /\ Finals' = Finals
        /\ UNCHANGED <<base, vadProcessed, inSpeech, speechStart, lastSpeech>>
    BY <1>3, GoOnKeepsInv
  <2>2. UNCHANGED <<quiet, dropped>>
    BY <1>3 DEF EmitPartial, Continue, history
  <2> QED
    BY <2>1, <2>2, SameKeepsCoverage
<1>4. ASSUME Hand(results), UNCHANGED <<buffer, segment, base, quiet, dropped>>
      PROVE  Coverage'
  <2>1. Finals' = Finals
    BY <1>4, HandKeepsFinals DEF IInv
  <2> QED
    BY <1>4, <2>1, SameKeepsCoverage DEF buffer, segment
<1>5. ASSUME ReturnFromFinalize PROVE Coverage'
  <2>1. UNCHANGED <<quiet, dropped>>
    BY <1>5 DEF ReturnFromFinalize
  <2>2. CASE Hand(Append(results, Final)) /\ ResetAfterFinal /\ inSpeech
    <3>1. Finals' = Append(Finals, Final) /\ base' = base + lastSpeech
      BY <1>5, <2>2, CutKeepsInv DEF ReturnFromFinalize, Hand
    <3> QED
      BY <2>1, <2>2, <3>1, CutKeepsCoverage
  <2>3. CASE Hand(results) /\ UNCHANGED <<buffer, segment, base>>
    BY <1>4, <2>1, <2>3
  <2> QED
    BY <1>5, <2>2, <2>3 DEF ReturnFromFinalize
<1>6. ASSUME ReturnFromChunk PROVE Coverage'
  BY <1>4, <1>6 DEF ReturnFromChunk
<1>7. CASE UNCHANGED vars
  <2> USE <1>7 DEF vars, buffer, segment, history
  <2>1. Finals' = Finals
    BY DEF Finals
  <2> QED
    BY <2>1, SameKeepsCoverage
<1> QED
  BY <1>1, <1>2, <1>3, <1>5, <1>6, <1>7, JudgeKeepsCoverage, FailKeepsCoverage
  DEF Next, Step, VadError, DecodeError, FinalizeError

\* Every frame that has left the buffer was judged not to be speech or is part of
\* a final result, as long as no call failed that had results.
THEOREM SpeechIsKept == Spec => []NoSpeechLost
<1>1. Init => Coverage
  BY FrameIsMultiple DEF Init, Coverage, Aligned, Passed, Kept
<1>2. IInv /\ Coverage => NoSpeechLost
  <2> SUFFICES ASSUME IInv, Coverage, ~dropped, NEW p \in 0..(base - 1), p % Frame = 0
               PROVE  p \in quiet \/ InFinal(p)
    BY DEF NoSpeechLost, InFinal
  <2>1. p \in Nat /\ p < base
    BY DEF IInv, TypeOK
  <2>2. Multiple(p)
    BY <2>1, NoRestIsMultiple
  <2> QED
    BY <2>1, <2>2 DEF Coverage, Kept
<1> QED
  BY <1>1, <1>2, StepKeepsCoverage, Invariance, PTL DEF Spec

---------------------------------------------------------------------------
(* Refinement *)

Seg == IF inSpeech
       THEN [ from  |-> base + speechStart,
              to    |-> base + lastSpeech,
              quiet |-> IF silenceStart = None THEN None
                        ELSE base + silenceStart ]
       ELSE None

Due == pc = "judged" /\ (SilenceEnds \/ TooLong)

Request == IF pc = "idle" THEN "none" ELSE IF call = "chunk" THEN "more" ELSE "rest"

\* An open segment is a record of naturals, not the absence of one.
LEMMA SegIsOpen ==
  ASSUME TypeOK, inSpeech
  PROVE  /\ Seg # None
         /\ Seg.from = base + speechStart
         /\ Seg.to = base + lastSpeech
         /\ Seg.quiet = IF silenceStart = None THEN None ELSE base + silenceStart
         /\ (Seg.quiet = None <=> silenceStart = None)
<1>1. /\ base + speechStart \in Nat /\ base + lastSpeech \in Nat
      /\ silenceStart # None => base + silenceStart \in Nat
      /\ None \notin Nat
  BY StreamAssumption DEF TypeOK
<1>2. Seg \in [from : Nat, to : Nat, quiet : Nat \union {None}]
  BY <1>1 DEF Seg
<1> QED
  BY <1>1, <1>2, StreamAssumption DEF Seg

\* Lengths are the same in the buffer and in the stream.
LEMMA LengthsInStream ==
  ASSUME NEW b \in Nat, NEW x \in Nat
  PROVE  /\ b + x \in Nat
         /\ \A y \in Nat :
              /\ y - x >= SilenceEnd <=> (b + y) - (b + x) >= SilenceEnd
              /\ x < y => (SatSub(y, x) >= MinSpeech <=> (b + y) - (b + x) >= MinSpeech)
              /\ x < y => (SatSub(y, x) >= MaxSegment <=> (b + y) - (b + x) >= MaxSegment)
BY StreamAssumption DEF SatSub

LEMMA LessIsTransitive ==
  ASSUME NEW x \in Nat, NEW y \in Nat, NEW z \in Nat, x < y, y <= z PROVE x < z
OBVIOUS

\* The mapped variables, by name.
LEMMA Mapping ==
  /\ Segments!segVars = <<base + len, base + vadProcessed, base, Seg, verdict, Due,
                          Request, results, returned>>
  /\ Segments!segVars' = <<base' + len', base' + vadProcessed', base', Seg', verdict',
                           Due', Request', results', returned'>>
BY DEF Segments!segVars, Seg, Due, Request

LEMMA InitRefines == Init => Segments!Init
<1> SUFFICES ASSUME Init PROVE Segments!Init
  OBVIOUS
<1>1. base + len = 0 /\ base + vadProcessed = 0 /\ base = 0
  BY DEF Init
<1>2. Seg = None /\ Due = FALSE /\ Request = "none"
  BY DEF Init, Seg, Due, Request
<1>3. verdict = "between" /\ results = <<>> /\ returned = <<>>
  BY DEF Init
<1> QED
  BY <1>1, <1>2, <1>3 DEF Segments!Init, Seg, Due, Request

\* A chunk is received, or the end of the stream asked for.
LEMMA CallRefines ==
  ASSUME IInv, Finalize \/ \E n \in Chunks : ProcessChunk(n)
  PROVE  Segments!Next
<1>1. /\ UNCHANGED <<base, vadProcessed, segment, verdict, results, returned>>
      /\ pc = "idle" /\ pc' = "loop"
  BY CallKeepsInv DEF Finalize, ProcessChunk, Begin, history
<1>2. /\ Seg' = Seg /\ Due = FALSE /\ Due' = FALSE /\ Request = "none"
      /\ base + vadProcessed = base' + vadProcessed'
  BY <1>1 DEF Seg, segment, Due, Request
<1>3. CASE Finalize
  <2>1. Request' = "rest" /\ base' + len' = base + len
    BY <1>1, <1>3 DEF Finalize, Begin, Request
  <2>2. Segments!End
    BY <1>1, <1>2, <2>1 DEF Segments!End, Seg, Due, Request
  <2> QED
    BY <2>2 DEF Segments!Next
<1>4. ASSUME NEW n \in Chunks, ProcessChunk(n) PROVE Segments!Next
  <2>1. Request' = "more" /\ len' = len + n
    BY <1>1, <1>4 DEF ProcessChunk, Begin, Request
  <2>2. base' + len' \in Nat /\ base' + len' >= base + len
    BY <1>1, <2>1, StreamAssumption DEF IInv, TypeOK
  <2>3. Segments!Feed
    BY <1>1, <1>2, <2>1, <2>2 DEF Segments!Feed, Seg, Due, Request
  <2> QED
    BY <2>3 DEF Segments!Next
<1> QED
  BY <1>3, <1>4

\* A frame is judged at its position in the stream, and the session finds the
\* segment complete exactly if it is.
LEMMA JudgeRefines ==
  ASSUME IInv, NEW v \in {"speech", "between", "silence"}, Judge(v)
  PROVE  Segments!Next
<1>1. /\ base' = base /\ vadProcessed' = vadProcessed + Frame /\ len' = len
      /\ UNCHANGED <<call, results, returned>> /\ verdict' = v
      /\ pc = "loop" /\ pc' = "judged" /\ vadProcessed + Frame <= len
      /\ base \in Nat /\ vadProcessed \in Nat /\ len \in Nat /\ Frame \in Nat
      /\ speechStart \in Nat /\ lastSpeech \in Nat
      /\ silenceStart \in Nat \union {None} /\ None \notin Nat
      /\ inSpeech \in BOOLEAN /\ call \in {"chunk", "finalize"}
  BY JudgeKeepsInv, StreamAssumption DEF IInv, TypeOK, Judge, FrameAvailable
<1>2. /\ base' + vadProcessed' = base + vadProcessed + Frame
      /\ base' + len' = base + len
      /\ base + vadProcessed + Frame <= base + len
      /\ Due = FALSE /\ Request # "none" /\ Request' = Request
      /\ (Request = "more" <=> call = "chunk")
  BY <1>1 DEF Due, Request
<1>3. TypeOK /\ TypeOK' /\ IndexOrder'
  BY JudgeKeepsInv DEF IInv
<1>4. Due' <=> Segments!Completes(v, Seg', base + vadProcessed + Frame)
  <2> DEFINE end == base + vadProcessed + Frame
  <2>0. TypeOK'
    BY <1>3
  <2>3. /\ speechStart' \in Nat /\ lastSpeech' \in Nat
        /\ silenceStart' \in Nat \union {None}
    BY <2>0 DEF TypeOK
  <2>4. silenceStart' # None => silenceStart' \in Nat
    BY <2>3, Zenon
  <2>1. CASE inSpeech'
    <3>1. /\ speechStart' < lastSpeech' /\ lastSpeech' <= vadProcessed + Frame
          /\ v = "silence" => silenceStart' \in Nat
      BY <1>1, <1>3, <2>1, <2>4 DEF IndexOrder
    <3>2. /\ base + speechStart' \in Nat /\ base + lastSpeech' \in Nat
          /\ silenceStart' # None => base + silenceStart' \in Nat
      BY <1>1, <2>3, <2>4, LengthsInStream, Zenon
    <3>3. Seg' \in [from : Nat, to : Nat, quiet : Nat \union {None}]
      BY <1>1, <2>1, <3>2 DEF Seg
    <3>4. /\ Seg' # None
          /\ Seg'.from = base + speechStart' /\ Seg'.to = base + lastSpeech'
          /\ silenceStart' # None => Seg'.quiet = base + silenceStart'
      BY <1>1, <2>1, <3>3, StreamAssumption DEF Seg
    <3>5. vadProcessed + Frame \in Nat
      BY <1>1
    <3>6. LongEnough' <=> Seg'.to - Seg'.from >= MinSpeech
      BY <1>1, <2>3, <3>1, <3>4, <3>5, LengthsInStream, Zenon DEF LongEnough
    <3>7. SilenceEnds' <=> v = "silence" /\ end - Seg'.quiet >= SilenceEnd
                             /\ Seg'.to - Seg'.from >= MinSpeech
      <4>1. CASE v = "silence"
        <5>1. silenceStart' # None /\ silenceStart' \in Nat
          BY <1>1, <3>1, <4>1
        <5>2. (vadProcessed + Frame) - silenceStart' >= SilenceEnd
                <=> (base + (vadProcessed + Frame)) - (base + silenceStart') >= SilenceEnd
          BY <1>1, <3>5, <5>1, LengthsInStream, Zenon
        <5>3. end = base + (vadProcessed + Frame)
          BY <1>1
        <5> QED
          BY <1>1, <2>1, <3>4, <3>6, <4>1, <5>1, <5>2, <5>3, Zenon DEF SilenceEnds
      <4> QED
        BY <1>1, <4>1 DEF SilenceEnds
    <3>8. TooLong' <=> call = "chunk" /\ end - Seg'.from >= MaxSegment
      <4>1. SatSub(vadProcessed + Frame, speechStart') >= MaxSegment
              <=> (base + (vadProcessed + Frame)) - (base + speechStart') >= MaxSegment
        BY <1>1, <2>3, <3>1, <3>5, LengthsInStream, LessIsTransitive, Zenon
      <4>2. end = base + (vadProcessed + Frame)
        BY <1>1
      <4> QED
        BY <1>1, <2>1, <3>4, <4>1, <4>2, Zenon DEF TooLong
    <3> QED
      BY <1>1, <1>2, <3>4, <3>7, <3>8
      DEF Due, Segments!Completes, Segments!LongEnough, Request
  <2>2. CASE ~inSpeech'
    BY <2>2 DEF Due, SilenceEnds, TooLong, Segments!Completes, Seg
  <2> QED
    BY <2>1, <2>2
<1>5. ASSUME NEW s, Seg' = s PROVE Segments!Judged(v, s)
  <2>1. Due' = Segments!Completes(v, s, base + vadProcessed + Frame)
    BY <1>4, <1>5 DEF Due, Segments!Completes
  <2> QED
    BY <1>1, <1>2, <1>5, <2>1 DEF Segments!Judged, Segments!FrameLeft, Seg, Due, Request
<1>6. CASE v = "speech" /\ HearSpeech
  <2>1. /\ inSpeech' = TRUE /\ lastSpeech' = vadProcessed + Frame
        /\ silenceStart' = None
        /\ speechStart' = IF inSpeech THEN speechStart ELSE vadProcessed
    BY <1>1, <1>6 DEF HearSpeech
  <2>2. /\ base' + speechStart' = IF inSpeech THEN base + speechStart
                                              ELSE base + vadProcessed
        /\ base' + lastSpeech' = base + vadProcessed + Frame
    BY <1>1, <2>1
  <2>3. IF inSpeech THEN Seg # None /\ Seg.from = base + speechStart ELSE Seg = None
    BY <1>3, SegIsOpen DEF Seg
  <2>4. Seg' = [ from  |-> IF Seg = None THEN base + vadProcessed ELSE Seg.from,
                 to    |-> base + vadProcessed + Frame,
                 quiet |-> None ]
    BY <1>1, <2>1, <2>2, <2>3 DEF Seg
  <2>5. Segments!Speech
    BY <1>5, <1>6, <2>4 DEF Segments!Speech, Seg
  <2> QED
    BY <2>5 DEF Segments!Next
<1>7. CASE v = "silence" /\ HearSilence
  <2>1. /\ UNCHANGED <<inSpeech, speechStart, lastSpeech>>
        /\ \/ inSpeech /\ silenceStart = None /\ silenceStart' = vadProcessed
           \/ (~inSpeech \/ silenceStart # None) /\ UNCHANGED silenceStart
    BY <1>7 DEF HearSilence
  <2>2. Seg # None /\ Seg.quiet = None <=> inSpeech /\ silenceStart = None
    BY <1>3, SegIsOpen DEF Seg
  <2>3. Seg' = IF Seg # None /\ Seg.quiet = None
               THEN [Seg EXCEPT !.quiet = base + vadProcessed] ELSE Seg
    <3>1. CASE inSpeech /\ silenceStart = None
      <4>1. silenceStart' = vadProcessed /\ inSpeech'
        BY <2>1, <3>1
      <4>2. Seg' = [Seg EXCEPT !.quiet = base + vadProcessed]
        BY <1>1, <2>1, <3>1, <4>1 DEF Seg
      <4> QED
        BY <2>2, <3>1, <4>2
    <3>2. CASE ~(inSpeech /\ silenceStart = None)
      <4>1. Seg' = Seg
        BY <1>1, <2>1, <3>2 DEF Seg
      <4> QED
        BY <2>2, <3>2, <4>1
    <3> QED
      BY <3>1, <3>2
  <2>4. Segments!Silence
    BY <1>5, <1>7, <2>3 DEF Segments!Silence, Seg
  <2> QED
    BY <2>4 DEF Segments!Next
<1>8. CASE v = "between" /\ UNCHANGED segment
  <2>1. Seg' = Seg
    BY <1>1, <1>8 DEF Seg, segment
  <2>2. Segments!Undecided
    BY <1>5, <1>8, <2>1 DEF Segments!Undecided, Seg
  <2> QED
    BY <2>2 DEF Segments!Next
<1> QED
  BY <1>6, <1>7, <1>8 DEF Judge

\* The transcribed samples are those the segment is entitled to, and the cut of
\* the buffer is the end of its speech.
LEMMA CutClosesSegment ==
  ASSUME IInv, inSpeech, ResetAfterFinal
  PROVE  /\ Segments!Result = Final
         /\ Segments!Close
         /\ base' + len' = base + len
         /\ Seg # None
         /\ (LongEnough <=> Segments!LongEnough(Seg))
<1>1. /\ base \in Nat /\ vadProcessed \in Nat /\ len \in Nat /\ Pad \in Nat
      /\ speechStart \in Nat /\ lastSpeech \in Nat /\ MinSpeech \in Nat
      /\ speechStart < lastSpeech /\ lastSpeech <= vadProcessed /\ vadProcessed <= len
  BY StreamAssumption DEF IInv, TypeOK, IndexOrder
<1>2. Seg # None /\ Seg.from = base + speechStart /\ Seg.to = base + lastSpeech
  BY SegIsOpen DEF IInv
<1>3. base' = base + lastSpeech /\ len' = len - lastSpeech /\ vadProcessed' = 0
      /\ inSpeech' = FALSE
  BY <1>1 DEF ResetAfterFinal, StartOver, SatSub, Less
<1>4. /\ (IF Seg.from - base > Pad THEN Seg.from - Pad ELSE base)
           = base + SatSub(speechStart, Pad)
      /\ (IF Seg.to + Pad < base + len THEN Seg.to + Pad ELSE base + len)
           = base + Less(lastSpeech + Pad, len)
  BY <1>1, <1>2 DEF SatSub, Less
<1>5. Segments!Result = Final
  BY <1>2, <1>4 DEF Segments!Result, Final, Seg
<1>6. base' + vadProcessed' = Seg.to /\ base' = Seg.to /\ Seg' = None
  BY <1>1, <1>2, <1>3 DEF Seg
<1>7. Segments!Close
  BY <1>6 DEF Segments!Close, Seg
<1>8. LongEnough <=> Seg.to - Seg.from >= MinSpeech
  BY <1>1, <1>2 DEF LongEnough, SatSub
<1> QED
  BY <1>1, <1>2, <1>3, <1>5, <1>7, <1>8 DEF Segments!LongEnough

LEMMA FinalRefines ==
  ASSUME IInv, EmitFinal PROVE Segments!Next
<1>1. /\ pc = "judged" /\ pc' = "loop" /\ inSpeech /\ Due
      /\ results' = Append(results, Final) /\ ResetAfterFinal
      /\ UNCHANGED <<call, verdict, returned>>
  BY DEF EmitFinal, SilenceEnds, TooLong, Due
<1>2. ~Due' /\ Due' = FALSE /\ Request' = Request
  BY <1>1 DEF Due, Request
<1>3. Segments!Result = Final /\ Segments!Close /\ base' + len' = base + len
  BY <1>1, CutClosesSegment
<1>4. Segments!Finish
  BY <1>1, <1>2, <1>3 DEF Segments!Finish, Seg, Due, Request
<1> QED
  BY <1>4 DEF Segments!Next

\* A call returns when there is no frame left, finalize with the segment that was
\* long enough.
LEMMA ReturnRefines ==
  ASSUME IInv, ReturnFromChunk \/ ReturnFromFinalize
  PROVE  Segments!Next
<1>1. /\ pc = "loop" /\ pc' = "idle" /\ results' = <<>>
      /\ ~(vadProcessed + Frame <= len)
      /\ UNCHANGED verdict
      /\ base \in Nat /\ vadProcessed \in Nat /\ len \in Nat /\ Frame \in Nat
  BY StreamAssumption DEF ReturnFromChunk, ReturnFromFinalize, Hand, FrameAvailable,
     IInv, TypeOK
<1>2. /\ Due = FALSE /\ Due' = FALSE /\ Request # "none" /\ Request' = "none"
      /\ ~(base + vadProcessed + Frame <= base + len)
      /\ (Request = "more" <=> call = "chunk")
      /\ (Request = "rest" <=> call # "chunk")
  BY <1>1 DEF Due, Request
<1>3. ASSUME inSpeech, LongEnough, call = "finalize",
             Hand(Append(results, Final)), ResetAfterFinal
      PROVE  Segments!Answer
  <2>1. /\ Segments!Result = Final /\ Segments!Close /\ base' + len' = base + len
        /\ Seg # None /\ Segments!LongEnough(Seg)
    BY <1>3, CutClosesSegment
  <2>2. returned' = returned \o Append(results, Segments!Result)
    BY <1>3, <2>1 DEF Hand
  <2> QED
    BY <1>1, <1>2, <1>3, <2>1, <2>2
    DEF Segments!Answer, Segments!FrameLeft, Seg, Due, Request
<1>4. ASSUME call = "chunk" \/ ~inSpeech \/ ~LongEnough,
             Hand(results), UNCHANGED <<buffer, segment, base>>
      PROVE  Segments!Answer
  <2>1. /\ base' + len' = base + len /\ base' + vadProcessed' = base + vadProcessed
        /\ base' = base /\ Seg' = Seg /\ returned' = returned \o results
    BY <1>4 DEF buffer, segment, Seg, Hand
  <2>2. Request = "more" \/ Seg = None \/ ~Segments!LongEnough(Seg)
    <3>1. CASE call = "chunk"
      BY <1>2, <3>1
    <3>2. CASE ~inSpeech
      BY <3>2 DEF Seg
    <3>3. CASE inSpeech /\ ~LongEnough
      <4>1. /\ Seg.from = base + speechStart /\ Seg.to = base + lastSpeech
            /\ speechStart \in Nat /\ lastSpeech \in Nat /\ MinSpeech \in Nat
            /\ speechStart < lastSpeech
        BY <3>3, SegIsOpen, StreamAssumption DEF IInv, TypeOK, IndexOrder
      <4>2. ~(Seg.to - Seg.from >= MinSpeech)
        BY <1>1, <3>3, <4>1 DEF LongEnough, SatSub
      <4> QED
        BY <4>2 DEF Segments!LongEnough
    <3> QED
      BY <1>4, <3>1, <3>2, <3>3
  <2> QED
    BY <1>1, <1>2, <2>1, <2>2
    DEF Segments!Answer, Segments!FrameLeft, Seg, Due, Request
<1>5. Segments!Answer
  BY <1>3, <1>4 DEF ReturnFromChunk, ReturnFromFinalize
<1> QED
  BY <1>5 DEF Segments!Next

\* An error needs a frame to judge or a segment to transcribe.
LEMMA FailRefines ==
  ASSUME IInv, VadError \/ DecodeError \/ FinalizeError
  PROVE  Segments!Next
<1>1. Fail /\ pc # "idle" /\ pc' = "idle"
  BY DEF VadError, DecodeError, FinalizeError, Fail
<1>2. /\ base' + len' = base + len /\ base' + vadProcessed' = base + vadProcessed
      /\ base' = base /\ Seg' = Seg /\ verdict' = verdict
      /\ results' = <<>> /\ returned' = returned
      /\ Due' = FALSE /\ Request # "none" /\ Request' = "none"
  BY <1>1 DEF Fail, buffer, segment, Seg, Due, Request
<1>3. base + vadProcessed + Frame <= base + len \/ Seg # None
  <2>1. vadProcessed + Frame <= len \/ inSpeech
    BY DEF VadError, DecodeError, FinalizeError, FrameAvailable, SilenceEnds, TooLong,
       PartialDue
  <2>2. /\ base \in Nat /\ vadProcessed \in Nat /\ len \in Nat /\ Frame \in Nat
    BY StreamAssumption DEF IInv, TypeOK
  <2> QED
    BY <2>1, <2>2, SegIsOpen DEF IInv
<1>4. Segments!Fail
  BY <1>2, <1>3 DEF Segments!Fail, Segments!FrameLeft, Seg, Due, Request
<1> QED
  BY <1>4 DEF Segments!Next

\* Every step of the session is a step of SpeechSegments or invisible in it.
LEMMA StepRefines == IInv /\ [Next]_vars => [Segments!Next]_Segments!segVars
<1> SUFFICES ASSUME IInv, [Next]_vars
             PROVE  Segments!Next \/ UNCHANGED Segments!segVars
  OBVIOUS
<1>1. ASSUME EmitPartial \/ Continue PROVE UNCHANGED Segments!segVars
  <2>1. /\ UNCHANGED <<len, base, call, vadProcessed, inSpeech, speechStart,
                       lastSpeech, silenceStart, verdict, results, returned>>
        /\ pc = "judged" /\ pc' = "loop" /\ ~SilenceEnds /\ ~TooLong
    BY <1>1 DEF EmitPartial, Continue, buffer, segment, history
  <2>2. Seg' = Seg /\ Due' = Due /\ Request' = Request
    BY <2>1 DEF Seg, Due, Request
  <2> QED
    BY <2>1, <2>2, Mapping
<1>2. CASE UNCHANGED vars
  <2>1. Seg' = Seg /\ Due' = Due /\ Request' = Request
    BY <1>2 DEF vars, buffer, segment, history, Seg, Due, Request, SilenceEnds, TooLong,
       LongEnough
  <2> QED
    BY <1>2, <2>1, Mapping DEF vars, buffer, history
<1> QED
  BY <1>1, <1>2, CallRefines, JudgeRefines, FinalRefines, ReturnRefines, FailRefines
  DEF Next, Step

\* Whatever the chunks, the session reports the segments that the verdicts call
\* for, each when it is due, with the padding it is entitled to, and the client
\* gets them in that order: buffer, cuts and indices are invisible.
THEOREM SessionImplementsSegments == Spec => SegmentsSpec
BY InitRefines, StepRefines, Invariance, PTL
DEF Spec, SegmentsSpec, Segments!Spec
=============================================================================
