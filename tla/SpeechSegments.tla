--------------------------- MODULE SpeechSegments ---------------------------
(***************************************************************************)
(* What a stream of audio is turned into, said of the audio itself: the     *)
(* frames are judged one after the other at their position in the stream,   *)
(* speech opens a segment, and a segment ends when its silence is long      *)
(* enough, at its largest size, or because the client ends the stream.      *)
(* Nothing but the verdicts and the request under way decides it: as soon   *)
(* as a segment is due it is transcribed, before the next frame is judged.  *)
(* There is no buffer and there are no chunks.  Of the way the client cuts   *)
(* its audio up only one thing shows: the padding after a segment cannot    *)
(* reach beyond what has been received by then.                             *)
(***************************************************************************)
EXTENDS Naturals, Sequences

CONSTANTS
    Frame, MinSpeech, MaxSegment, SilenceEnd, Pad,   \* in samples
    None

VARIABLES
    fed,        \* samples received
    pos,        \* position of the next frame to be judged
    cut,        \* position up to which audio has become results
    seg,        \* the open segment or None
    verdict,    \* what the last frame was judged to be
    due,        \* the last frame completed the segment
    request,    \* none, more audio, or the rest: what the client asked for
    found,      \* results of the request under way
    handed      \* results the client got

segVars == <<fed, pos, cut, seg, verdict, due, request, found, handed>>

Init ==
    /\ fed = 0 /\ pos = 0 /\ cut = 0
    /\ seg = None
    /\ verdict = "between"
    /\ due = FALSE
    /\ request = "none"
    /\ found = <<>> /\ handed = <<>>

---------------------------------------------------------------------------
Feed ==
    /\ request = "none"
    /\ request' = "more"
    /\ fed' \in Nat /\ fed' >= fed
    /\ UNCHANGED <<pos, cut, seg, verdict, due, found, handed>>

End ==
    /\ request = "none"
    /\ request' = "rest"
    /\ UNCHANGED <<fed, pos, cut, seg, verdict, due, found, handed>>

---------------------------------------------------------------------------
(* Frames *)

FrameLeft == pos + Frame <= fed

LongEnough(s) == s.to - s.from >= MinSpeech

\* A frame judged v that ends at end and leaves segment s completes it: enough
\* silence after enough speech, or no room for more unless the stream ends anyway.
Completes(v, s, end) ==
    /\ s # None
    /\ \/ v = "silence" /\ end - s.quiet >= SilenceEnd /\ LongEnough(s)
       \/ request = "more" /\ end - s.from >= MaxSegment

Judged(v, s) ==
    /\ request # "none"
    /\ ~due
    /\ FrameLeft
    /\ pos' = pos + Frame
    /\ seg' = s
    /\ verdict' = v
    /\ due' = Completes(v, s, pos + Frame)
    /\ UNCHANGED <<fed, cut, request, found, handed>>

Speech ==
    Judged("speech", [ from  |-> IF seg = None THEN pos ELSE seg.from,
                       to    |-> pos + Frame,
                       quiet |-> None ])

Silence ==
    Judged("silence", IF seg # None /\ seg.quiet = None
                      THEN [seg EXCEPT !.quiet = pos] ELSE seg)

\* Neither speech nor silence.
Undecided == Judged("between", seg)

---------------------------------------------------------------------------
(* Results *)

\* The segment with the padding it is transcribed with, which stays clear of
\* earlier results and within the audio received.
Result ==
    [ from |-> seg.from,
      to   |-> seg.to,
      lo   |-> IF seg.from - cut > Pad THEN seg.from - Pad ELSE cut,
      hi   |-> IF seg.to + Pad < fed THEN seg.to + Pad ELSE fed ]

\* What follows the segment's last speech is judged again.
Close ==
    /\ pos' = seg.to
    /\ cut' = seg.to
    /\ seg' = None

Finish ==
    /\ due
    /\ found' = Append(found, Result)
    /\ due' = FALSE
    /\ Close
    /\ UNCHANGED <<fed, verdict, request, handed>>

\* All frames are judged.  The end of the stream completes what was long enough.
Answer ==
    /\ request # "none" /\ ~due /\ ~FrameLeft
    /\ \/ /\ request = "rest" /\ seg # None /\ LongEnough(seg)
          /\ handed' = handed \o Append(found, Result)
          /\ Close
       \/ /\ request = "more" \/ seg = None \/ ~LongEnough(seg)
          /\ handed' = handed \o found
          /\ UNCHANGED <<pos, cut, seg>>
    /\ request' = "none"
    /\ found' = <<>>
    /\ UNCHANGED <<fed, verdict, due>>

\* Judging or transcribing fails.  The request is over and its results are gone;
\* the segment stays open and is due again only by a later frame.
Fail ==
    /\ request # "none"
    /\ FrameLeft \/ seg # None
    /\ request' = "none"
    /\ found' = <<>>
    /\ due' = FALSE
    /\ UNCHANGED <<fed, pos, cut, seg, verdict, handed>>

Next == Feed \/ End \/ Speech \/ Silence \/ Undecided \/ Finish \/ Answer \/ Fail

Spec == Init /\ [][Next]_segVars
=============================================================================
