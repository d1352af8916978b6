-------------------------- MODULE StreamingSession --------------------------
(***************************************************************************)
(* StreamingSession of inference/mod.rs: samples are appended to a buffer   *)
(* and drained through the voice activity detector frame by frame; indices  *)
(* into the buffer delimit the current speech segment, and each final       *)
(* result cuts the buffer at the end of that segment, so that every index   *)
(* starts over.  The detector's verdicts and the outcome of a transcription *)
(* are nondeterministic; audio is only counted.                             *)
(*                                                                         *)
(* One loop iteration is two steps: Judge updates the segment, the step     *)
(* after it transcribes or goes on.                                         *)
(***************************************************************************)
EXTENDS Integers, Sequences

CONSTANTS
    Frame,          \* VAD_FRAME_SAMPLES
    MinSpeech,      \* MIN_SPEECH_SAMPLES
    MaxSegment,     \* MAX_SEGMENT_SAMPLES
    Pad,            \* PAD_SAMPLES
    Partial,        \* PARTIAL_SAMPLES
    SilenceEnd,     \* SILENCE_END_SAMPLES
    Chunks,         \* sizes of the chunks that clients send
    MaxAudio,       \* bound: samples in a stream
    None

ASSUME StreamAssumption ==
    /\ Frame \in Nat \ {0}
    /\ MinSpeech \in Nat /\ MaxSegment \in Nat /\ Pad \in Nat
    /\ Partial \in Nat \ {0} /\ SilenceEnd \in Nat /\ MaxAudio \in Nat
    /\ Chunks \subseteq Nat
    /\ None \notin Int
    /\ None \notin [from : Nat, to : Nat, quiet : Nat \union {None}]

VARIABLES
    len,            \* audio_buffer.len()
    vadProcessed,   \* vad_processed
    inSpeech,       \* in_speech
    speechStart,    \* speech_start_sample
    lastSpeech,     \* last_speech_sample
    silenceStart,   \* silence_start_sample
    lastPartialAt,  \* last_partial_at
    pc,             \* idle, or in a call: at the loop's head or past the verdict
    call,           \* the call under way or, when idle, the last one
    verdict,        \* what the detector said of the frame
    judgedBy,       \* history: the call that asked it
    results,        \* the final results the call under way has collected
    base,           \* history: position in the stream of the buffer's start
    quiet,          \* history: frames last judged not to be speech, by position
    returned,       \* history: the final results handed to the caller
    failed,         \* history: some call has failed
    dropped         \* history: some failed call had results already

buffer == <<len, vadProcessed>>
segment == <<inSpeech, speechStart, lastSpeech, silenceStart, lastPartialAt>>
history == <<base, quiet, returned, failed, dropped>>
vars == <<buffer, segment, pc, call, verdict, judgedBy, results, history>>

Init ==
    /\ len = 0
    /\ vadProcessed = 0
    /\ inSpeech = FALSE
    /\ speechStart = 0
    /\ lastSpeech = 0
    /\ silenceStart = None
    /\ lastPartialAt = 0
    /\ pc = "idle"
    /\ call = "chunk"
    /\ verdict = "between"
    /\ judgedBy = "chunk"
    /\ results = <<>>
    /\ base = 0
    /\ quiet = {}
    /\ returned = <<>>
    /\ failed = FALSE
    /\ dropped = FALSE

Less(a, b) == IF a < b THEN a ELSE b
SatSub(a, b) == IF a > b THEN a - b ELSE 0      \* saturating_sub

---------------------------------------------------------------------------
(* Calls *)

Begin(c) ==
    /\ pc = "idle"
    /\ pc' = "loop"
    /\ call' = c
    /\ UNCHANGED <<vadProcessed, segment, verdict, judgedBy, results, history>>

ProcessChunk(n) ==
    /\ base + len + n <= MaxAudio
    /\ len' = len + n
    /\ Begin("chunk")

Finalize ==
    /\ Begin("finalize")
    /\ UNCHANGED len

FrameAvailable == vadProcessed + Frame <= len

\* The caller gets an error, and none of the results collected before it.
Fail ==
    /\ pc' = "idle"
    /\ results' = <<>>
    /\ failed' = TRUE
    /\ dropped' = (dropped \/ results # <<>>)
    /\ UNCHANGED <<buffer, segment, call, verdict, judgedBy, base, quiet, returned>>

\* The caller gets the results.
Hand(rs) ==
    /\ pc' = "idle"
    /\ results' = <<>>
    /\ returned' = returned \o rs

---------------------------------------------------------------------------
(* The loop *)

VadError == pc = "loop" /\ FrameAvailable /\ Fail

\* Mutation: the end of the speech is not updated by the frame that opens it.
HearSpeech_StaleEnd ==
    /\ inSpeech' = TRUE
    /\ silenceStart' = None
    /\ \/ /\ ~inSpeech
          /\ speechStart' = vadProcessed
          /\ lastPartialAt' = vadProcessed
          /\ UNCHANGED lastSpeech
       \/ /\ inSpeech
          /\ lastSpeech' = vadProcessed + Frame
          /\ UNCHANGED <<speechStart, lastPartialAt>>

HearSpeech ==
    /\ inSpeech' = TRUE
    /\ lastSpeech' = vadProcessed + Frame
    /\ silenceStart' = None
    /\ \/ /\ ~inSpeech
          /\ speechStart' = vadProcessed
          /\ lastPartialAt' = vadProcessed
       \/ /\ inSpeech
          /\ UNCHANGED <<speechStart, lastPartialAt>>

HearSilence ==
    /\ \/ /\ inSpeech /\ silenceStart = None
          /\ silenceStart' = vadProcessed
       \/ /\ ~inSpeech \/ silenceStart # None
          /\ UNCHANGED silenceStart
    /\ UNCHANGED <<inSpeech, speechStart, lastSpeech, lastPartialAt>>

\* Mutation: the position of the detector is not moved on.
Judge_Stays(v) ==
    /\ pc = "loop"
    /\ FrameAvailable
    /\ \/ v = "speech" /\ HearSpeech
       \/ v = "silence" /\ HearSilence
       \/ v = "between" /\ UNCHANGED segment
    /\ verdict' = v
    /\ judgedBy' = call
    /\ pc' = "judged"
    /\ UNCHANGED <<buffer, call, results, history>>

Judge(v) ==
    /\ pc = "loop"
    /\ FrameAvailable
    /\ \/ v = "speech" /\ HearSpeech
       \/ v = "silence" /\ HearSilence
       \/ v = "between" /\ UNCHANGED segment
    /\ vadProcessed' = vadProcessed + Frame
    /\ verdict' = v
    /\ judgedBy' = call
    /\ pc' = "judged"
    /\ quiet' = IF v = "speech" THEN quiet \ {base + vadProcessed}
                                ELSE quiet \union {base + vadProcessed}
    /\ UNCHANGED <<len, call, results, base, returned, failed, dropped>>

LongEnough == SatSub(lastSpeech, speechStart) >= MinSpeech

\* Mutation: the end of the speech is looked for only when the chunk is used up.
SilenceEnds_AtChunkEnd ==
    /\ verdict = "silence"
    /\ inSpeech
    /\ vadProcessed - silenceStart >= SilenceEnd
    /\ LongEnough
    /\ ~FrameAvailable

SilenceEnds ==
    /\ verdict = "silence"
    /\ inSpeech
    /\ vadProcessed - silenceStart >= SilenceEnd
    /\ LongEnough

\* Mutation: the length of the speech is compared, not that of the segment.
TooLong_OfSpeech ==
    /\ call = "chunk"
    /\ inSpeech
    /\ SatSub(lastSpeech, speechStart) >= MaxSegment

TooLong ==
    /\ call = "chunk"
    /\ inSpeech
    /\ SatSub(vadProcessed, speechStart) >= MaxSegment

PartialDue ==
    /\ call = "chunk"
    /\ inSpeech
    /\ SatSub(vadProcessed, lastPartialAt) >= Partial

\* Mutation: the padding is subtracted without a floor.
Final_Unsaturated ==
    [ from |-> base + speechStart,
      to   |-> base + lastSpeech,
      lo   |-> base + speechStart - Pad,
      hi   |-> base + Less(lastSpeech + Pad, len) ]

\* The segment transcribe_segment takes, in positions of the stream.
Final ==
    [ from |-> base + speechStart,
      to   |-> base + lastSpeech,
      lo   |-> base + SatSub(speechStart, Pad),
      hi   |-> base + Less(lastSpeech + Pad, len) ]

StartOver ==
    /\ vadProcessed' = 0
    /\ inSpeech' = FALSE
    /\ silenceStart' = None
    /\ lastPartialAt' = 0
    /\ UNCHANGED <<speechStart, lastSpeech>>

\* Mutation: the buffer is emptied, with the frames that were not judged yet.
ResetAfterFinal_DropsAll ==
    /\ len' = 0
    /\ base' = base + len
    /\ StartOver

\* reset_after_final keeps what follows the last speech.  The indices of the
\* segment stay behind as they are.
ResetAfterFinal ==
    /\ len' = SatSub(len, lastSpeech)
    /\ base' = base + Less(lastSpeech, len)
    /\ StartOver

EmitFinal ==
    /\ pc = "judged"
    /\ SilenceEnds \/ TooLong
    /\ results' = Append(results, Final)
    /\ ResetAfterFinal
    /\ pc' = "loop"
    /\ UNCHANGED <<call, verdict, judgedBy, quiet, returned, failed, dropped>>

EmitPartial ==
    /\ pc = "judged"
    /\ ~SilenceEnds /\ ~TooLong /\ PartialDue
    /\ lastPartialAt' = vadProcessed
    /\ pc' = "loop"
    /\ UNCHANGED <<buffer, inSpeech, speechStart, lastSpeech, silenceStart,
                   call, verdict, judgedBy, results, history>>

Continue ==
    /\ pc = "judged"
    /\ ~SilenceEnds /\ ~TooLong /\ ~PartialDue
    /\ pc' = "loop"
    /\ UNCHANGED <<buffer, segment, call, verdict, judgedBy, results, history>>

\* Transcribing the segment, or the part of it heard so far, fails.
DecodeError ==
    /\ pc = "judged"
    /\ SilenceEnds \/ TooLong \/ PartialDue
    /\ Fail

---------------------------------------------------------------------------
(* The end of a call *)

ReturnFromChunk ==
    /\ pc = "loop"
    /\ ~FrameAvailable
    /\ call = "chunk"
    /\ Hand(results)
    /\ UNCHANGED <<buffer, segment, call, verdict, judgedBy, base, quiet, failed,
                   dropped>>

\* finalize transcribes what is left if it is long enough.
ReturnFromFinalize ==
    /\ pc = "loop"
    /\ ~FrameAvailable
    /\ call = "finalize"
    /\ \/ /\ inSpeech /\ LongEnough
          /\ Hand(Append(results, Final))
          /\ ResetAfterFinal
       \/ /\ ~inSpeech \/ ~LongEnough
          /\ Hand(results)
          /\ UNCHANGED <<buffer, segment, base>>
    /\ UNCHANGED <<call, verdict, judgedBy, quiet, failed, dropped>>

FinalizeError ==
    /\ pc = "loop"
    /\ ~FrameAvailable
    /\ call = "finalize"
    /\ inSpeech /\ LongEnough
    /\ Fail

Step ==
    \/ \E v \in {"speech", "between", "silence"} : Judge(v)
    \/ VadError \/ EmitFinal \/ EmitPartial \/ Continue \/ DecodeError
    \/ ReturnFromChunk \/ ReturnFromFinalize \/ FinalizeError

Next ==
    \/ \E n \in Chunks : ProcessChunk(n)
    \/ Finalize
    \/ Step

Spec == Init /\ [][Next]_vars

\* A call that has begun is carried on by its thread.
FairSpec == Spec /\ WF_vars(Step)

---------------------------------------------------------------------------
(* Properties *)

Finals == returned \o results

TypeOK ==
    /\ len \in Nat /\ vadProcessed \in Nat /\ base \in Nat
    /\ speechStart \in Nat /\ lastSpeech \in Nat /\ lastPartialAt \in Nat
    /\ silenceStart \in Nat \union {None}
    /\ inSpeech \in BOOLEAN /\ failed \in BOOLEAN /\ dropped \in BOOLEAN
    /\ pc \in {"idle", "loop", "judged"}
    /\ call \in {"chunk", "finalize"} /\ judgedBy \in {"chunk", "finalize"}
    /\ verdict \in {"speech", "between", "silence"}
    /\ quiet \subseteq Nat
    /\ results \in Seq([from : Nat, to : Nat, lo : Nat, hi : Nat])
    /\ returned \in Seq([from : Nat, to : Nat, lo : Nat, hi : Nat])

\* The indices stay in order across chunks, cuts and errors, so that no slice
\* of the buffer and no subtraction in the loop can panic: a segment is a
\* non-empty stretch of judged audio, and a silence lies inside its segment,
\* after the speech and before the detector.
IndexOrder ==
    /\ vadProcessed <= len
    /\ inSpeech => speechStart < lastSpeech /\ lastSpeech <= vadProcessed
    /\ silenceStart # None =>
         /\ inSpeech
         /\ lastSpeech <= silenceStart
         /\ silenceStart < vadProcessed
    /\ inSpeech => speechStart <= lastPartialAt /\ lastPartialAt <= vadProcessed
    /\ pc = "judged" /\ verdict = "silence" /\ inSpeech => silenceStart # None

\* The speech of the final results is disjoint and in the order of the stream,
\* each within the samples that were transcribed for it; no result reaches back
\* into the speech of an earlier one, however much it was padded.
FinalsInOrder ==
    /\ \A i \in 1..Len(Finals) :
         /\ Finals[i].lo <= Finals[i].from
         /\ Finals[i].from < Finals[i].to
         /\ Finals[i].to <= Finals[i].hi
         /\ Finals[i].to <= base
    /\ \A i, j \in 1..Len(Finals) : i < j => Finals[i].to <= Finals[j].lo

\* No speech is thrown away: every frame that has left the buffer is part of a
\* final result or was judged not to be speech.  Errors of the detector and of
\* the decoder change nothing about it, except that a call that fails after a
\* final result takes that result with it.
NoSpeechLost ==
    ~dropped => \A p \in 0..(base - 1) : p % Frame = 0 =>
                  \/ p \in quiet
                  \/ \E i \in 1..Len(Finals) :
                        Finals[i].from <= p /\ p + Frame <= Finals[i].to

\* A segment that a call leaves open is shorter than the maximum, also in
\* finalize, which does not look at it: what the cut of an earlier finalize left
\* to be judged again was shorter still.  After process_chunk no partial result
\* is overdue; finalize emits none.  All this as long as nothing fails.
SegmentBounded ==
    ~failed /\ pc # "judged" /\ inSpeech =>
        /\ vadProcessed - speechStart < MaxSegment
        /\ judgedBy = "chunk" => vadProcessed - lastPartialAt < Partial

\* The detector is sent back only over a buffer that became shorter: the loop
\* cannot transcribe the same audio for ever.
RewindsShrink == [][vadProcessed' < vadProcessed => len' < len]_vars

\* Every call returns, though each final result moves the detector back to the
\* start of what is left of the buffer.
CallsReturn == pc # "idle" ~> pc = "idle"

\* What the session holds that has not become a result: an open segment that is
\* long enough, or frames the detector has yet to judge (an earlier result sends
\* it back over what follows), or neither.
Left ==
    IF inSpeech /\ LongEnough THEN "speech"
    ELSE IF FrameAvailable THEN "audio" ELSE "nothing"

\* What a caller may conclude from the calls it made, without the indices: speech
\* that is left stays left until it is a result; a call that returns has judged
\* all frames, but a final result of finalize puts some back; when finalize has no
\* results, nothing is left; and when nothing is left, finalize cannot fail and
\* has no results.
WhatCallsLeave ==
    [][ /\ Left = "speech" => Left' = "speech" \/ Len(Finals') > Len(Finals)
        /\ ReturnFromChunk => Left' # "audio"
        /\ ReturnFromFinalize =>
             /\ Left' # "speech"
             /\ results = <<>> /\ returned' = returned => Left' = "nothing"
        /\ Left = "nothing" /\ pc # "idle" /\ call = "finalize" =>
             /\ Left' = "nothing"
             /\ Finals' = Finals
             /\ ~VadError /\ ~DecodeError /\ ~FinalizeError ]_vars

\* The buffer and its indices seen as positions in the stream.
Segments == INSTANCE SpeechSegments WITH
    fed     <- base + len,
    pos     <- base + vadProcessed,
    cut     <- base,
    seg     <- IF inSpeech
               THEN [ from  |-> base + speechStart,
                      to    |-> base + lastSpeech,
                      quiet |-> IF silenceStart = None THEN None
                                ELSE base + silenceStart ]
               ELSE None,
    verdict <- verdict,
    due     <- pc = "judged" /\ (SilenceEnds \/ TooLong),
    request <- IF pc = "idle" THEN "none"
               ELSE IF call = "chunk" THEN "more" ELSE "rest",
    found   <- results,
    handed  <- returned

\* The session, with its chunks and its shrinking buffer, produces the final
\* results that the verdicts on the audio call for, each as soon as it is due and
\* with the padding it is entitled to.
SegmentsSpec == Segments!Spec
=============================================================================
