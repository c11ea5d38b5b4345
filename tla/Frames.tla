------------------------------- MODULE Frames -------------------------------
(***************************************************************************)
(* Configurations, frame payloads and reference states as a session sees   *)
(* them.  The slices of a frame commit together (SliceExecutor and         *)
(* SliceEncodeExecutor implement their atomic specifications), so one      *)
(* history stands for the entropy states of all slices.                    *)
(***************************************************************************)
EXTENDS Naturals, Sequences

CONSTANTS
  Streams,        \* the stream parameters of version 3 an encoder can produce
  LegacyStreams,  \* the stream parameters embedded in legacy keyframes
  Bodies,         \* the pictures that can be coded
  LegacyBody,     \* the one in legacy containers
  Unencodable,    \* a picture with a sample above the bit depth
  Garbage,        \* what is decoded from anything but the coded samples
  None            \* no configuration, no reference states

ASSUME FramesAssumption ==
  /\ Streams \cap LegacyStreams = {}
  /\ None \notin Streams \cup LegacyStreams
  /\ LegacyBody \in Bodies
  /\ Unencodable \notin Bodies /\ Garbage \notin Bodies
  /\ None \notin Seq([stream : Streams \cup LegacyStreams, body : Bodies \cup {Garbage}])

AllStreams == Streams \cup LegacyStreams

\* One decoded or coded frame in the history of an entropy state.
Step == [stream : AllStreams, body : Bodies \cup {Garbage}]

States == Seq(Step) \cup {None}

\* A payload: the parameters it was coded with, the keyframe flag, the state it
\* was coded from and the picture.  serial and epoch say which frame of the
\* encoder it is and how many came before its configuration; intact payloads are
\* delivered as they were produced.
Frame ==
  [serial : Nat, epoch : Nat, stream : AllStreams, key : BOOLEAN,
   from : Seq(Step), body : Bodies, intact : BOOLEAN]

ASSUME NoneAssumption == None \notin Frame

NoFrame == [serial |-> 0]

Fresh == <<>>

Spoilt == [stream : AllStreams, body : {Garbage}]

\* No frame was coded from a history with garbage in it, so its last step stands
\* for all of it.
After(state, stream, body) ==
  LET step == [stream |-> stream, body |-> body]
  IN IF step \in Spoilt THEN <<step>> ELSE Append(state, step)
=============================================================================
