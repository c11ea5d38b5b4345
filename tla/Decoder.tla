------------------------------- MODULE Decoder -------------------------------
(***************************************************************************)
(* Decoder: configure, bootstrap_legacy_frame, inspect_frame and           *)
(* decode_frame.  A frame that is not what the decoder's state calls for   *)
(* (damaged, of other parameters, coded from another state) either fails   *)
(* to parse or to decode, or is decoded into garbage.                      *)
(***************************************************************************)
EXTENDS Frames

VARIABLES
  dimensions_known,  \* options_.frame_width and frame_height are set
  decoder,           \* stream_ and the executor's slice_states_
  shown              \* what the last call of decode_frame left with its caller

decoderVars == <<dimensions_known, decoder, shown>>

NotShown == [code |-> "None", frame |-> NoFrame, body |-> None]

DecoderInit ==
  /\ dimensions_known \in BOOLEAN
  /\ decoder = [stream |-> None, states |-> None]
  /\ shown = NotShown

\* Deviation: the executor, and with it the reference states, outlives the
\* parameters it was made for.
ReconfiguredKeeping(stream) == [decoder EXCEPT !.stream = stream]

\* A new executor is made for the new parameters.
Reconfigured(stream) == [stream |-> stream, states |-> None]

\* configure with a record that parses; any other changes nothing.
ConfigureDecoder(stream) ==
  /\ decoder' = Reconfigured(stream)
  /\ shown' = NotShown
  /\ UNCHANGED dimensions_known

\* Deviation: embedded parameters always configure the decoder.
BootstrappedAlways(frame) == IF frame.key THEN Reconfigured(frame.stream) ELSE decoder

\* Only a keyframe embeds parameters, and they configure only a decoder that
\* was not configured; otherwise they are compared.
Bootstrapped(frame) ==
  IF frame.key /\ decoder.stream = None THEN Reconfigured(frame.stream) ELSE decoder

BootstrapLegacyFrame(frame) ==
  /\ frame.stream \in LegacyStreams
  /\ decoder' = Bootstrapped(frame)
  /\ shown' = NotShown
  /\ UNCHANGED dimensions_known

(***************************************************************************)
(* decode_frame.                                                           *)
(***************************************************************************)
Ready == decoder.stream # None /\ dimensions_known

\* The payload is the one the decoder's parameters and states were made for.
Readable(frame) ==
  /\ frame.intact
  /\ frame.stream = decoder.stream
  /\ frame.key \/ frame.from = decoder.states

\* The keyframe flag that is read: the first bit coded, with the parameters alone.
KeyframeFlags(frame) ==
  IF frame.intact /\ frame.stream = decoder.stream THEN {frame.key} ELSE BOOLEAN

Refused(frame) ==
  /\ decoder' = decoder
  /\ shown' = [code |-> "Error", frame |-> frame, body |-> None]

\* Deviation: a keyframe is decoded from the states of the GOP before.
StartOfKept(key) == IF decoder.states # None THEN decoder.states ELSE Fresh

StartOf(key) == IF key THEN Fresh ELSE decoder.states

Accept(frame, key, body) ==
  /\ key \/ decoder.states # None
  /\ decoder' = [decoder EXCEPT !.states = After(StartOf(key), decoder.stream, body)]
  /\ shown' = [code |-> "Ok", frame |-> frame, body |-> body]

\* What the coded samples become when they are decoded from states.
DecodedBody(frame) ==
  IF StartOf(frame.key) = frame.from THEN frame.body ELSE Garbage

DecodeFrame(frame) ==
  /\ \/ /\ ~Ready
        /\ Refused(frame)
     \/ /\ Ready /\ Readable(frame)
        /\ Accept(frame, frame.key, DecodedBody(frame))
     \/ /\ Ready /\ ~Readable(frame)
        /\ \/ Refused(frame)
           \/ \E key \in KeyframeFlags(frame) : Accept(frame, key, Garbage)
  /\ UNCHANGED dimensions_known
=============================================================================
