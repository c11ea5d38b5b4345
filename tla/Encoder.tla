------------------------------- MODULE Encoder -------------------------------
(***************************************************************************)
(* Encoder: configure and encode_frame.  Only the outcome of a call is     *)
(* visible: a call that fails leaves the encoder as it was.                *)
(***************************************************************************)
EXTENDS Frames

CONSTANTS
  Intervals,     \* the keyframe intervals an encoder may be created with
  MaxFrames      \* bound: the frames an encoder produces

ASSUME EncoderAssumption ==
  /\ Intervals \subseteq Nat \ {0}
  /\ MaxFrames \in Nat

VARIABLES
  keyframe_interval,   \* options_.keyframe_interval
  encoder,             \* stream_, the executor's slice_states_, next_frame_index_
  epoch,               \* the frames produced before the encoder was configured
  sent                 \* the frames it produced, in order

encoderVars == <<keyframe_interval, encoder, epoch, sent>>

EncoderInit ==
  /\ keyframe_interval \in Intervals
  /\ encoder = [stream |-> None, states |-> None, next_frame_index |-> 0]
  /\ epoch = 0
  /\ sent = <<>>

\* Deviation: the frame counter survives a new configuration.
ConfiguredKeepingCounter(stream) ==
  [stream |-> stream, states |-> None, next_frame_index |-> encoder.next_frame_index]

Configured(stream) == [stream |-> stream, states |-> None, next_frame_index |-> 0]

\* configure with a profile that is accepted; a rejected one changes nothing.
ConfigureEncoder(stream) ==
  /\ encoder' = Configured(stream)
  /\ epoch' = Len(sent)
  /\ UNCHANGED <<keyframe_interval, sent>>

IsKeyframe == encoder.next_frame_index % keyframe_interval = 0

\* What the executor checks: only a non-keyframe needs reference states, and an
\* intra-only stream, which is one of interval 1, has none.
CanEncode(body) ==
  /\ encoder.stream # None
  /\ body # Unencodable
  /\ IsKeyframe \/ (keyframe_interval # 1 /\ encoder.states # None)

From == IF IsKeyframe THEN Fresh ELSE encoder.states

Coded(body) ==
  [serial |-> Len(sent) + 1, epoch |-> epoch, stream |-> encoder.stream,
   key |-> IsKeyframe, from |-> From, body |-> body, intact |-> TRUE]

\* Deviation: the counter is advanced before the status is looked at.
EncodedAdvancing(body) ==
  [encoder EXCEPT
     !.states = IF CanEncode(body) THEN After(From, encoder.stream, body) ELSE @,
     !.next_frame_index = @ + 1]

\* Deviation: a slice that fails leaves what it coded in the reference states.
EncodedInPlace(body) ==
  [encoder EXCEPT
     !.states = After(From, encoder.stream, IF CanEncode(body) THEN body ELSE Garbage),
     !.next_frame_index = IF CanEncode(body) THEN @ + 1 ELSE @]

\* The counter advances, and the states are replaced, only with an ok status.
Encoded(body) ==
  IF CanEncode(body)
  THEN [encoder EXCEPT !.states = After(From, encoder.stream, body),
                       !.next_frame_index = @ + 1]
  ELSE encoder

EncodeFrame(body) ==
  /\ Len(sent) < MaxFrames
  /\ encoder.stream # None
  /\ encoder' = Encoded(body)
  /\ sent' = IF CanEncode(body) THEN Append(sent, Coded(body)) ELSE sent
  /\ UNCHANGED <<keyframe_interval, epoch>>

EncoderNext ==
  \/ \E stream \in Streams : ConfigureEncoder(stream)
  \/ \E body \in Bodies \cup {Unencodable} : EncodeFrame(body)
=============================================================================
