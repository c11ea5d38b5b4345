---------------------------- MODULE CodecSession ----------------------------
(***************************************************************************)
(* An application moves frames from an Encoder to a Decoder.  What lies    *)
(* between them may lose, repeat, reorder and damage frames, and both ends *)
(* may be reconfigured at any time, in any order, also while frames of the *)
(* old configuration are under way.                                        *)
(***************************************************************************)
EXTENDS Encoder, Decoder

VARIABLE
  last     \* the frame decoded last, when it ends an unbroken sequence; or None

vars == <<encoderVars, decoderVars, last>>

\* A keyframe of a legacy container and the frame after it, which no Encoder made.
LegacyFrame(stream, key) ==
  [serial |-> IF key THEN 0 ELSE 1, epoch |-> 0, stream |-> stream, key |-> key,
   from |-> IF key THEN Fresh ELSE After(Fresh, stream, LegacyBody),
   body |-> LegacyBody, intact |-> TRUE]

LegacyFrames == {LegacyFrame(stream, key) : stream \in LegacyStreams, key \in BOOLEAN}

Delivered ==
  {sent[i] : i \in DOMAIN sent}
    \cup {[sent[i] EXCEPT !.intact = FALSE] : i \in DOMAIN sent}
    \cup LegacyFrames

(***************************************************************************)
(* A sequence starts with a keyframe and goes on, frame by frame, with     *)
(* what the encoder made next, all for the parameters the decoder has.     *)
(***************************************************************************)
InSequence(frame) ==
  /\ frame.intact
  /\ frame.stream = decoder.stream
  /\ \/ frame.key
     \/ last # None /\ last.stream = frame.stream /\ frame.serial = last.serial + 1

Init ==
  /\ EncoderInit
  /\ DecoderInit
  /\ last = None

\* The record of any configuration the encoder may have had.
ConfigureBySession(stream) ==
  /\ ConfigureDecoder(stream)
  /\ last' = None
  /\ UNCHANGED encoderVars

BootstrapBySession(frame) ==
  /\ BootstrapLegacyFrame(frame)
  /\ last' = IF decoder'.stream = decoder.stream THEN last ELSE None
  /\ UNCHANGED encoderVars

\* A frame that is refused leaves the sequence as it was: it may go on.
DecodeBySession(frame) ==
  /\ DecodeFrame(frame)
  /\ last' = IF shown'.code # "Ok" THEN last
             ELSE IF InSequence(frame) THEN frame
             ELSE None
  /\ UNCHANGED encoderVars

Next ==
  \/ /\ EncoderNext
     /\ UNCHANGED <<decoderVars, last>>
  \/ \E stream \in AllStreams : ConfigureBySession(stream)
  \/ \E frame \in LegacyFrames : BootstrapBySession(frame)
  \/ \E frame \in Delivered : DecodeBySession(frame)

Spec == Init /\ [][Next]_vars
-----------------------------------------------------------------------------
(***************************************************************************)
(* Type invariant of both ends (the counters of Encoder, the executors'    *)
(* states of both, what decode_frame leaves with its caller).              *)
(***************************************************************************)
TypeOK ==
  /\ keyframe_interval \in Intervals
  /\ encoder \in [stream : Streams \cup {None}, states : States, next_frame_index : 0..Len(sent)]
  /\ epoch \in 0..Len(sent)
  /\ sent \in Seq(Frame)
  /\ dimensions_known \in BOOLEAN
  /\ decoder \in [stream : AllStreams \cup {None}, states : States]
  /\ shown.code \in {"None", "Ok", "Error"}
  /\ last \in Frame \cup {None}

(***************************************************************************)
(* A frame that continues an unbroken sequence is decoded exactly,         *)
(* whatever was lost, repeated, refused or decoded into garbage before its *)
(* keyframe, and whatever failed between its frames on either side         *)
(* (encode_frame and decode_frame commit only with an ok status).          *)
(***************************************************************************)
ExactInSequence ==
  shown.code = "Ok" /\ last = shown.frame => shown.body = shown.frame.body

(***************************************************************************)
(* And it is never refused: no failed decode_frame, and no bootstrap of a  *)
(* configured decoder, spoils the reference states it needs.               *)
(***************************************************************************)
AcceptedInSequence ==
  shown.code = "Error" /\ dimensions_known => ~InSequence(shown.frame)

(***************************************************************************)
(* Frame zero of a configuration and every keyframe_interval-th frame      *)
(* after it are keyframes, and no other; calls that fail do not count.     *)
(***************************************************************************)
Cadence ==
  \A i \in DOMAIN sent :
    sent[i].key <=> (i - 1 - sent[i].epoch) % keyframe_interval = 0

(***************************************************************************)
(* The encoder is never stuck in the middle of a GOP: where it would code  *)
(* a non-keyframe, it has the reference states of the current parameters.  *)
(***************************************************************************)
CanContinue ==
  encoder.stream # None /\ ~IsKeyframe =>
    /\ keyframe_interval # 1
    /\ encoder.states # None
    /\ \A i \in DOMAIN encoder.states : encoder.states[i].stream = encoder.stream

(***************************************************************************)
(* The decoder's reference states were all decoded with the parameters it  *)
(* has now: none survives the configuration it was made for.               *)
(***************************************************************************)
OwnParameters ==
  decoder.states # None =>
    \A i \in DOMAIN decoder.states : decoder.states[i].stream = decoder.stream
-----------------------------------------------------------------------------
(***************************************************************************)
(* The inductive invariant: what ties the frames to each other and the     *)
(* reference states of both ends to the frame they were left by.           *)
(***************************************************************************)
\* The reference states a frame leaves on either side.
Left(frame) == After(frame.from, frame.stream, frame.body)

OfStream(states, stream) == \A i \in DOMAIN states : states[i].stream = stream

\* A frame goes on from the states the frame before it left.
Follows(frame, before) ==
  /\ frame.epoch = before.epoch
  /\ frame.stream = before.stream
  /\ frame.from = Left(before)

\* Every frame of the encoder is intact and numbered, starts from nothing when it
\* is a keyframe, and follows the one before it when it is not.
SentInv ==
  \A i \in DOMAIN sent :
    /\ sent[i].serial = i /\ sent[i].epoch < i
    /\ sent[i].stream \in Streams /\ sent[i].intact
    /\ OfStream(sent[i].from, sent[i].stream)
    /\ sent[i].key => sent[i].from = Fresh
    /\ ~sent[i].key => i > 1 /\ Follows(sent[i], sent[i-1])

\* The counter counts the frames of the configuration, and the states are those
\* the last of them left.
EncoderInv ==
  /\ encoder.next_frame_index = Len(sent) - epoch
  /\ epoch = Len(sent) => encoder.states = None
  /\ epoch < Len(sent) => /\ encoder.stream = sent[Len(sent)].stream
                          /\ epoch = sent[Len(sent)].epoch
                          /\ encoder.states = Left(sent[Len(sent)])

\* The frame the decoder is in sequence with is one an encoder made, and left the
\* states the decoder has.
DecoderInv ==
  /\ decoder.stream = None => decoder.states = None
  /\ last # None => /\ last \in {sent[i] : i \in DOMAIN sent} \cup LegacyFrames
                    /\ last.stream = decoder.stream
                    /\ decoder.states = Left(last)

IInv ==
  /\ TypeOK /\ SentInv /\ EncoderInv /\ DecoderInv
  /\ Cadence /\ OwnParameters /\ ExactInSequence /\ AcceptedInSequence
=============================================================================
