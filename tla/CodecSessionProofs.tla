------------------------- MODULE CodecSessionProofs -------------------------
(***************************************************************************)
(* Theorems about CodecSession, for every set of configurations, pictures  *)
(* and keyframe intervals and any number of frames.                        *)
(***************************************************************************)
EXTENDS CodecSession, TLAPS, SequenceTheorems

(***************************************************************************)
(* Facts about the reference states.                                       *)
(***************************************************************************)

\* Coding or decoding a frame yields reference states, of the frame's parameters
\* when those it was coded from are.
LEMMA AfterType ==
  ASSUME NEW state \in Seq(Step), NEW stream \in AllStreams,
         NEW body \in Bodies \cup {Garbage}
  PROVE  /\ After(state, stream, body) \in Seq(Step)
         /\ After(state, stream, body) # None
         /\ OfStream(state, stream) => OfStream(After(state, stream, body), stream)
<1> DEFINE s == [stream |-> stream, body |-> body]
<1>1. s \in Step /\ s.stream = stream
  BY DEF Step
<1>2. CASE s \in Spoilt
  <2>1. After(state, stream, body) = <<s>>
    BY <1>2 DEF After
  <2>2. <<s>> \in Seq(Step) /\ DOMAIN <<s>> = {1} /\ <<s>>[1] = s
    BY <1>1
  <2>3. QED
    BY <1>1, <2>1, <2>2, FramesAssumption DEF OfStream, Step, AllStreams
<1>3. CASE s \notin Spoilt
  <2>1. After(state, stream, body) = Append(state, s)
    BY <1>3 DEF After
  <2>2. /\ Append(state, s) \in Seq(Step)
        /\ Len(Append(state, s)) = Len(state) + 1
        /\ \A i \in 1..Len(state) : Append(state, s)[i] = state[i]
        /\ Append(state, s)[Len(state) + 1] = s
    BY <1>1, AppendProperties
  <2>3. Len(state) \in Nat /\ DOMAIN state = 1..Len(state)
    BY LenProperties
  <2>4. DOMAIN Append(state, s) = 1..(Len(state) + 1)
    BY <2>2, LenProperties
  <2>5. ASSUME OfStream(state, stream)
        PROVE  OfStream(Append(state, s), stream)
    BY <1>1, <2>2, <2>3, <2>4, <2>5 DEF OfStream
  <2>6. Append(state, s) # None
    BY <2>2, FramesAssumption DEF Step, AllStreams
  <2>7. QED
    BY <2>1, <2>2, <2>5, <2>6
<1>4. QED
  BY <1>2, <1>3

LEMMA FreshType ==
  Fresh \in Seq(Step) /\ Fresh # None /\ \A stream : OfStream(Fresh, stream)
<1>1. Fresh \in Seq(Step) /\ DOMAIN Fresh = {}
  BY DEF Fresh
<1>2. QED
  BY <1>1, FramesAssumption DEF OfStream, Step, AllStreams

LEMMA LeftType ==
  ASSUME NEW frame \in Frame
  PROVE  /\ Left(frame) \in Seq(Step) /\ Left(frame) # None
         /\ OfStream(frame.from, frame.stream) => OfStream(Left(frame), frame.stream)
<1>1. /\ frame.from \in Seq(Step) /\ frame.stream \in AllStreams
      /\ frame.body \in Bodies \cup {Garbage}
  BY DEF Frame
<1>2. QED
  BY <1>1, AfterType DEF Left

\* A keyframe of a legacy container starts from nothing, and the frame after it
\* from what the keyframe left.
LEMMA LegacyType ==
  ASSUME NEW frame \in LegacyFrames
  PROVE  /\ frame \in Frame /\ frame.intact /\ frame.stream \in LegacyStreams
         /\ frame.key => frame.from = Fresh /\ frame.serial = 0
         /\ ~frame.key => /\ frame.serial = 1
                          /\ frame.from = After(Fresh, frame.stream, LegacyBody)
         /\ frame.body = LegacyBody
<1>1. PICK stream \in LegacyStreams, key \in BOOLEAN : frame = LegacyFrame(stream, key)
  BY DEF LegacyFrames
<1>2. stream \in AllStreams /\ LegacyBody \in Bodies
  BY FramesAssumption DEF AllStreams
<1>3. Fresh \in Seq(Step) /\ After(Fresh, stream, LegacyBody) \in Seq(Step)
  BY <1>2, FreshType, AfterType
<1>4. frame \in Frame
  BY <1>1, <1>2, <1>3 DEF LegacyFrame, Frame
<1>5. QED
  BY <1>1, <1>4 DEF LegacyFrame

\* A frame that reaches the decoder is one of the encoder's, as it was made or
\* damaged, or one of a legacy container.
LEMMA DeliveredType ==
  ASSUME sent \in Seq(Frame), NEW frame \in Delivered
  PROVE  /\ frame \in Frame
         /\ frame.intact => frame \in {sent[i] : i \in DOMAIN sent} \cup LegacyFrames
<1>1. CASE frame \in {sent[i] : i \in DOMAIN sent}
  BY <1>1
<1>2. CASE frame \in {[sent[i] EXCEPT !.intact = FALSE] : i \in DOMAIN sent}
  <2>1. PICK i \in DOMAIN sent : frame = [sent[i] EXCEPT !.intact = FALSE]
    BY <1>2
  <2>2. sent[i] \in Frame
    OBVIOUS
  <2>3. QED
    BY <2>1, <2>2 DEF Frame
<1>3. CASE frame \in LegacyFrames
  BY <1>3, LegacyType
<1>4. QED
  BY <1>1, <1>2, <1>3 DEF Delivered

(***************************************************************************)
(* The inductive invariant, side by side.                                  *)
(***************************************************************************)

\* A step of the encoder that only appends to the frames sent says nothing new
\* about the decoder.
LEMMA DecoderKept ==
  ASSUME IInv, UNCHANGED <<decoderVars, last>>, sent' \in Seq(Frame),
         Len(sent) <= Len(sent'), \A i \in 1..Len(sent) : sent'[i] = sent[i]
  PROVE  /\ DecoderInv' /\ OwnParameters' /\ ExactInSequence' /\ AcceptedInSequence'
         /\ dimensions_known' \in BOOLEAN
         /\ decoder' \in [stream : AllStreams \cup {None}, states : States]
         /\ shown'.code \in {"None", "Ok", "Error"}
         /\ last' \in Frame \cup {None}
<1> USE DEF IInv
<1>1. dimensions_known' = dimensions_known /\ decoder' = decoder /\ shown' = shown /\ last' = last
  BY DEF decoderVars
<1>2. sent \in Seq(Frame)
  BY DEF TypeOK
<1>3. DOMAIN sent = 1..Len(sent) /\ DOMAIN sent' = 1..Len(sent')
      /\ Len(sent) \in Nat /\ Len(sent') \in Nat
  BY <1>2, LenProperties
<1>4. {sent[i] : i \in DOMAIN sent} \subseteq {sent'[i] : i \in DOMAIN sent'}
  <2>1. ASSUME NEW i \in DOMAIN sent
        PROVE  i \in DOMAIN sent' /\ sent'[i] = sent[i]
    BY <1>3, <2>1
  <2>2. QED
    BY <2>1
<1>5. DecoderInv'
  BY <1>1, <1>4 DEF DecoderInv
<1>6. OwnParameters'
  BY <1>1 DEF OwnParameters
<1>7. ExactInSequence'
  BY <1>1 DEF ExactInSequence
<1>8. AcceptedInSequence'
  BY <1>1 DEF AcceptedInSequence, InSequence
<1>9. QED
  BY <1>1, <1>5, <1>6, <1>7, <1>8 DEF TypeOK

\* And a call of the decoder says nothing new about the encoder.
LEMMA EncoderKept ==
  ASSUME IInv, UNCHANGED encoderVars
  PROVE  /\ SentInv' /\ EncoderInv' /\ Cadence'
         /\ keyframe_interval' \in Intervals
         /\ encoder' \in [stream : Streams \cup {None}, states : States,
                          next_frame_index : 0..Len(sent')]
         /\ epoch' \in 0..Len(sent')
         /\ sent' \in Seq(Frame)
<1> USE DEF IInv
<1>1. /\ keyframe_interval' = keyframe_interval /\ encoder' = encoder
      /\ epoch' = epoch /\ sent' = sent
  BY DEF encoderVars
<1>2. SentInv'
  BY <1>1 DEF SentInv
<1>3. EncoderInv'
  BY <1>1 DEF EncoderInv
<1>4. Cadence'
  BY <1>1 DEF Cadence
<1>5. QED
  BY <1>1, <1>2, <1>3, <1>4 DEF TypeOK

LEMMA Initial == Init => IInv
<1> SUFFICES ASSUME Init PROVE IInv
  OBVIOUS
<1>1. /\ keyframe_interval \in Intervals
      /\ encoder = [stream |-> None, states |-> None, next_frame_index |-> 0]
      /\ epoch = 0 /\ sent = <<>>
  BY DEF Init, EncoderInit
<1>2. /\ dimensions_known \in BOOLEAN /\ decoder = [stream |-> None, states |-> None]
      /\ shown = NotShown /\ last = None
  BY DEF Init, DecoderInit
<1>3. sent \in Seq(Frame) /\ Len(sent) = 0 /\ DOMAIN sent = {}
  BY <1>1, EmptySeq
<1>4. TypeOK
  <2>1. encoder \in [stream : Streams \cup {None}, states : States,
                     next_frame_index : 0..Len(sent)]
    BY <1>1, <1>3 DEF States
  <2>2. decoder \in [stream : AllStreams \cup {None}, states : States]
    BY <1>2 DEF States
  <2>3. shown.code = "None"
    BY <1>2 DEF NotShown
  <2>4. QED
    BY <1>1, <1>2, <1>3, <2>1, <2>2, <2>3 DEF TypeOK
<1>5. SentInv /\ Cadence
  BY <1>3 DEF SentInv, Cadence
<1>6. EncoderInv
  BY <1>1, <1>3 DEF EncoderInv
<1>7. DecoderInv /\ OwnParameters
  BY <1>2 DEF DecoderInv, OwnParameters
<1>8. ExactInSequence /\ AcceptedInSequence
  BY <1>2 DEF ExactInSequence, AcceptedInSequence, NotShown
<1>9. QED
  BY <1>4, <1>5, <1>6, <1>7, <1>8 DEF IInv

LEMMA ConfigureEncoderInv ==
  ASSUME IInv, UNCHANGED <<decoderVars, last>>,
         NEW stream \in Streams, ConfigureEncoder(stream)
  PROVE  IInv'
<1>1. /\ keyframe_interval' = keyframe_interval /\ sent' = sent /\ epoch' = Len(sent)
      /\ encoder' = [stream |-> stream, states |-> None, next_frame_index |-> 0]
  BY DEF ConfigureEncoder, Configured
<1>2. sent \in Seq(Frame) /\ Len(sent) \in Nat /\ keyframe_interval \in Intervals
  BY LenProperties DEF IInv, TypeOK
<1>3. DecoderInv' /\ OwnParameters' /\ ExactInSequence' /\ AcceptedInSequence'
  BY <1>1, <1>2, DecoderKept
<1>4. TypeOK'
  <2>1. encoder' \in [stream : Streams \cup {None}, states : States,
                      next_frame_index : 0..Len(sent')]
    BY <1>1, <1>2 DEF States
  <2>2. epoch' \in 0..Len(sent') /\ sent' \in Seq(Frame)
    BY <1>1, <1>2
  <2>3. QED
    BY <1>1, <1>2, <2>1, <2>2, DecoderKept DEF TypeOK
<1>5. SentInv'
  BY <1>1 DEF IInv, SentInv
<1>6. Cadence'
  BY <1>1 DEF IInv, Cadence
<1>7. EncoderInv'
  BY <1>1, <1>2 DEF EncoderInv
<1>8. QED
  BY <1>3, <1>4, <1>5, <1>6, <1>7 DEF IInv

\* Where a frame is coded from: nothing, or what the frame before it left.
LEMMA FromBefore ==
  ASSUME IInv, NEW body, CanEncode(body)
  PROVE  /\ encoder.stream \in Streams
         /\ From \in Seq(Step) /\ OfStream(From, encoder.stream)
         /\ ~IsKeyframe => /\ Len(sent) \in DOMAIN sent /\ epoch < Len(sent)
                           /\ epoch = sent[Len(sent)].epoch
                           /\ encoder.stream = sent[Len(sent)].stream
                           /\ From = Left(sent[Len(sent)])
<1>1. encoder.stream \in Streams
  BY DEF CanEncode, IInv, TypeOK
<1>2. CASE IsKeyframe
  BY <1>1, <1>2, FreshType DEF From
<1>3. CASE ~IsKeyframe
  <2>1. encoder.states # None /\ From = encoder.states
    BY <1>3 DEF CanEncode, From
  <2>2. sent \in Seq(Frame) /\ epoch \in 0..Len(sent)
    BY DEF IInv, TypeOK
  <2>3. Len(sent) \in Nat /\ DOMAIN sent = 1..Len(sent)
    BY <2>2, LenProperties
  <2>4. epoch < Len(sent)
    <3> DEFINE n == Len(sent)
    <3>1. epoch # n
      BY <2>1 DEF IInv, EncoderInv
    <3>2. epoch \in 0..n /\ n \in Nat
      BY <2>2, <2>3
    <3> HIDE DEF n
    <3>3. epoch < n
      BY <3>1, <3>2
    <3>4. QED
      BY <3>3 DEF n
  <2>5. Len(sent) \in DOMAIN sent /\ sent[Len(sent)] \in Frame
    BY <2>2, <2>3, <2>4
  <2>6. /\ epoch = sent[Len(sent)].epoch
        /\ encoder.stream = sent[Len(sent)].stream
        /\ encoder.states = Left(sent[Len(sent)])
    BY <2>4 DEF IInv, EncoderInv
  <2>7. OfStream(sent[Len(sent)].from, sent[Len(sent)].stream)
    BY <2>5 DEF IInv, SentInv
  <2>8. QED
    BY <1>1, <1>3, <2>1, <2>4, <2>5, <2>6, <2>7, LeftType
<1>4. QED
  BY <1>2, <1>3

\* The frame that is coded is one more in the chain.
LEMMA CodedSent ==
  ASSUME IInv, NEW body \in Bodies, CanEncode(body), sent' = Append(sent, Coded(body))
  PROVE  /\ Coded(body) \in Frame
         /\ sent' \in Seq(Frame) /\ Len(sent') = Len(sent) + 1
         /\ \A i \in 1..Len(sent) : sent'[i] = sent[i]
         /\ sent'[Len(sent) + 1] = Coded(body)
         /\ SentInv'
<1> DEFINE n == Len(sent)
           f == Coded(body)
<1>1. /\ sent \in Seq(Frame) /\ epoch \in 0..Len(sent)
      /\ n \in Nat /\ DOMAIN sent = 1..n
  BY LenProperties DEF IInv, TypeOK
<1>2. IsKeyframe \in BOOLEAN
  BY DEF IsKeyframe
<1>3. encoder.stream \in AllStreams
  BY FromBefore DEF AllStreams
<1>4. f \in Frame
  BY <1>1, <1>2, <1>3, FromBefore DEF Coded, Frame
<1>5. /\ sent' \in Seq(Frame) /\ Len(sent') = n + 1
      /\ \A i \in 1..n : sent'[i] = sent[i]
      /\ sent'[n + 1] = f
  BY <1>1, <1>4, AppendProperties
<1>6. DOMAIN sent' = 1..(n + 1)
  BY <1>5, LenProperties
<1>7. SentInv'
  <2> SUFFICES ASSUME NEW i \in 1..(n + 1)
               PROVE  /\ sent'[i].serial = i /\ sent'[i].epoch < i
                      /\ sent'[i].stream \in Streams /\ sent'[i].intact
                      /\ OfStream(sent'[i].from, sent'[i].stream)
                      /\ sent'[i].key => sent'[i].from = Fresh
                      /\ ~sent'[i].key => i > 1 /\ Follows(sent'[i], sent'[i-1])
    BY <1>6, Zenon DEF SentInv
  <2>1. CASE i \in 1..n
    <3>1. sent'[i] = sent[i]
      BY <1>5, <2>1
    <3>2. i > 1 => sent'[i-1] = sent[i-1]
      <4>1. i > 1 => i - 1 \in 1..n
        BY <1>1, <2>1
      <4>2. QED
        BY <1>5, <4>1
    <3>3. /\ sent[i].serial = i /\ sent[i].epoch < i
          /\ sent[i].stream \in Streams /\ sent[i].intact
          /\ OfStream(sent[i].from, sent[i].stream)
          /\ sent[i].key => sent[i].from = Fresh
          /\ ~sent[i].key => i > 1 /\ Follows(sent[i], sent[i-1])
      BY <1>1, <2>1 DEF IInv, SentInv
    <3>4. QED
      BY <3>1, <3>2, <3>3
  <2>2. CASE i = n + 1
    <3>1. sent'[i] = f
      BY <1>5, <2>2
    <3>2. /\ f.serial = i /\ f.epoch = epoch /\ f.stream = encoder.stream /\ f.intact
          /\ f.from = From /\ f.key = IsKeyframe
      BY <2>2 DEF Coded
    <3>3. f.epoch < i
      BY <1>1, <2>2, <3>2
    <3>4. f.key => f.from = Fresh
      BY <3>2 DEF From
    <3>5. ASSUME ~f.key
          PROVE  i > 1 /\ Follows(f, sent'[i-1])
      <4>1. /\ n \in 1..n /\ epoch = sent[n].epoch
            /\ encoder.stream = sent[n].stream /\ From = Left(sent[n])
        BY <1>1, <3>2, <3>5, FromBefore
      <4>2. i > 1 /\ i - 1 = n
        BY <1>1, <2>2, <4>1
      <4>3. sent'[i-1] = sent[n]
        BY <1>5, <4>1, <4>2
      <4>4. QED
        BY <3>2, <4>1, <4>2, <4>3 DEF Follows
    <3>6. f.stream \in Streams /\ OfStream(f.from, f.stream)
      BY <3>2, FromBefore
    <3>7. QED
      BY <3>1, <3>2, <3>3, <3>4, <3>5, <3>6
  <2>3. QED
    BY <1>1, <2>1, <2>2
<1>8. QED
  BY <1>4, <1>5, <1>7

LEMMA EncodeFrameInv ==
  ASSUME IInv, UNCHANGED <<decoderVars, last>>,
         NEW body \in Bodies \cup {Unencodable}, EncodeFrame(body)
  PROVE  IInv'
<1>1. /\ keyframe_interval' = keyframe_interval /\ epoch' = epoch
      /\ encoder' = Encoded(body)
      /\ sent' = IF CanEncode(body) THEN Append(sent, Coded(body)) ELSE sent
  BY DEF EncodeFrame
<1>2. CASE ~CanEncode(body)
  <2>1. encoder' = encoder /\ sent' = sent
    BY <1>1, <1>2 DEF Encoded
  <2>2. UNCHANGED encoderVars
    BY <1>1, <2>1 DEF encoderVars
  <2>3. sent \in Seq(Frame) /\ Len(sent) \in Nat
    BY LenProperties DEF IInv, TypeOK
  <2>4. QED
    BY <2>1, <2>2, <2>3, EncoderKept, DecoderKept DEF IInv, TypeOK
<1>3. CASE CanEncode(body)
  <2> DEFINE n == Len(sent)
             f == Coded(body)
  <2>1. body \in Bodies
    BY <1>3 DEF CanEncode
  <2>2. /\ sent \in Seq(Frame) /\ n \in Nat /\ epoch \in 0..n
        /\ keyframe_interval \in Intervals
        /\ encoder \in [stream : Streams \cup {None}, states : States,
                        next_frame_index : 0..n]
    BY LenProperties DEF IInv, TypeOK
  <2>3. /\ f \in Frame /\ sent' \in Seq(Frame) /\ Len(sent') = n + 1
        /\ \A i \in 1..n : sent'[i] = sent[i]
        /\ sent'[n + 1] = f
        /\ SentInv'
    BY <1>1, <1>3, <2>1, CodedSent
  <2>4. DOMAIN sent = 1..n /\ DOMAIN sent' = 1..(n + 1)
    BY <2>2, <2>3, LenProperties
  <2>5. /\ DecoderInv' /\ OwnParameters' /\ ExactInSequence' /\ AcceptedInSequence'
        /\ dimensions_known' \in BOOLEAN
        /\ decoder' \in [stream : AllStreams \cup {None}, states : States]
        /\ shown'.code \in {"None", "Ok", "Error"}
        /\ last' \in Frame \cup {None}
    <3>1. n <= n + 1
      BY <2>2
    <3>2. QED
      BY <2>3, <3>1, DecoderKept
  <2>6. /\ encoder'.stream = encoder.stream
        /\ encoder'.states = After(From, encoder.stream, body)
        /\ encoder'.next_frame_index = encoder.next_frame_index + 1
        /\ encoder' = [stream |-> encoder'.stream, states |-> encoder'.states,
                       next_frame_index |-> encoder'.next_frame_index]
    BY <1>1, <1>3, <2>2 DEF Encoded
  <2>7. /\ f.epoch = epoch /\ f.stream = encoder.stream /\ f.key = IsKeyframe
        /\ f.from = From /\ f.body = body
    BY DEF Coded
  <2>8. encoder'.states = Left(f)
    BY <2>6, <2>7 DEF Left
  <2>9. encoder.next_frame_index = n - epoch
    BY DEF IInv, EncoderInv
  <2>10. TypeOK'
    <3>1. encoder'.stream \in Streams \cup {None}
      BY <2>2, <2>6
    <3>2. encoder'.states \in States
      BY <2>3, <2>8, LeftType DEF States
    <3>3. encoder'.next_frame_index \in 0..Len(sent')
      BY <2>2, <2>3, <2>6, <2>9
    <3>4. encoder' \in [stream : Streams \cup {None}, states : States,
                        next_frame_index : 0..Len(sent')]
      BY <2>6, <3>1, <3>2, <3>3
    <3>5. epoch' \in 0..Len(sent')
      BY <1>1, <2>2, <2>3
    <3>6. QED
      BY <1>1, <2>2, <2>3, <2>5, <3>4, <3>5 DEF TypeOK
  <2>11. EncoderInv'
    <3>1. encoder'.next_frame_index = Len(sent') - epoch'
      BY <1>1, <2>2, <2>3, <2>6, <2>9
    <3>2. epoch' < Len(sent')
      BY <1>1, <2>2, <2>3
    <3>3. sent'[Len(sent')] = f
      BY <2>3
    <3>4. QED
      BY <1>1, <2>2, <2>6, <2>7, <2>8, <3>1, <3>2, <3>3 DEF EncoderInv
  <2>12. Cadence'
    <3> SUFFICES ASSUME NEW i \in 1..(n + 1)
                 PROVE  sent'[i].key <=> (i - 1 - sent'[i].epoch) % keyframe_interval = 0
      BY <1>1, <2>4 DEF Cadence
    <3>1. CASE i \in 1..n
      BY <2>3, <2>4, <3>1 DEF IInv, Cadence
    <3>2. CASE i = n + 1
      <4>1. i - 1 - f.epoch = encoder.next_frame_index
        BY <2>2, <2>7, <2>9, <3>2
      <4>2. QED
        BY <2>3, <2>7, <3>2, <4>1 DEF IsKeyframe
    <3>3. QED
      BY <2>2, <3>1, <3>2
  <2>13. QED
    BY <2>3, <2>5, <2>10, <2>11, <2>12 DEF IInv
<1>4. QED
  BY <1>2, <1>3

(***************************************************************************)
(* What continues the sequence can be read, and from the states it was     *)
(* coded from.                                                             *)
(***************************************************************************)
LEMMA SequenceReadable ==
  ASSUME IInv, NEW frame \in Delivered, InSequence(frame)
  PROVE  /\ frame \in {sent[i] : i \in DOMAIN sent} \cup LegacyFrames
         /\ Readable(frame) /\ StartOf(frame.key) = frame.from
<1>1. /\ sent \in Seq(Frame) /\ Len(sent) \in Nat /\ DOMAIN sent = 1..Len(sent)
  BY LenProperties DEF IInv, TypeOK
<1>2. frame.intact /\ frame.stream = decoder.stream
  BY DEF InSequence
<1>3. frame \in {sent[i] : i \in DOMAIN sent} \cup LegacyFrames
  BY <1>1, <1>2, DeliveredType
<1>4. ASSUME NEW i \in DOMAIN sent
      PROVE  /\ sent[i].serial = i /\ sent[i].stream \in Streams
             /\ sent[i].key => sent[i].from = Fresh
             /\ ~sent[i].key => i > 1 /\ Follows(sent[i], sent[i-1])
  BY DEF IInv, SentInv
<1>5. CASE frame.key
  <2>1. frame.from = Fresh
    BY <1>3, <1>4, <1>5, LegacyType
  <2>2. QED
    BY <1>2, <1>3, <1>5, <2>1 DEF Readable, StartOf
<1>6. CASE ~frame.key
  <2>1. /\ last # None /\ last.stream = frame.stream
        /\ frame.serial = last.serial + 1
    BY <1>6 DEF InSequence
  <2>2. /\ last \in {sent[i] : i \in DOMAIN sent} \cup LegacyFrames
        /\ decoder.states = Left(last)
    BY <2>1 DEF IInv, DecoderInv
  <2>3. frame.from = Left(last)
    <3>1. CASE frame \in LegacyFrames
      <4>1. /\ frame.stream \in LegacyStreams /\ frame.serial = 1
            /\ frame.from = After(Fresh, frame.stream, LegacyBody)
        BY <1>6, <3>1, LegacyType
      <4>2. last \in LegacyFrames
        BY <1>4, <2>1, <2>2, <4>1, FramesAssumption
      <4>3. last.serial # 1
        <5>1. last.serial = 0 \/ last.serial = 1
          BY <4>2, LegacyType
        <5>2. QED
          BY <2>1, <4>1, <5>1
      <4>4. last.key /\ last.from = Fresh /\ last.body = LegacyBody
        BY <4>2, <4>3, LegacyType
      <4>5. QED
        BY <2>1, <4>1, <4>4 DEF Left
    <3>2. CASE frame \in {sent[i] : i \in DOMAIN sent}
      <4>1. PICK i \in DOMAIN sent : frame = sent[i]
        BY <3>2
      <4>2. i > 1 /\ Follows(frame, sent[i-1]) /\ frame.serial = i /\ frame.stream \in Streams
        BY <1>4, <1>6, <4>1
      <4>3. last \notin LegacyFrames
        BY <2>1, <4>2, LegacyType, FramesAssumption
      <4>4. PICK j \in DOMAIN sent : last = sent[j]
        BY <2>2, <4>3
      <4>5. last.serial = j
        BY <1>4, <4>4
      <4>6. j = i - 1
        BY <1>1, <2>1, <4>2, <4>5
      <4>7. QED
        BY <4>2, <4>4, <4>6 DEF Follows
    <3>3. QED
      BY <1>3, <3>1, <3>2
  <2>4. QED
    BY <1>2, <1>3, <1>6, <2>2, <2>3 DEF Readable, StartOf
<1>7. QED
  BY <1>5, <1>6

LEMMA ConfigureDecoderInv ==
  ASSUME IInv, NEW stream \in AllStreams, ConfigureBySession(stream)
  PROVE  IInv'
<1>1. /\ decoder' = [stream |-> stream, states |-> None] /\ shown' = NotShown
      /\ dimensions_known' = dimensions_known /\ last' = None
      /\ UNCHANGED encoderVars
  BY DEF ConfigureBySession, ConfigureDecoder, Reconfigured
<1>2. TypeOK'
  <2>1. decoder' \in [stream : AllStreams \cup {None}, states : States]
    BY <1>1 DEF States
  <2>2. shown'.code = "None" /\ dimensions_known' \in BOOLEAN
    BY <1>1 DEF NotShown, IInv, TypeOK
  <2>3. QED
    BY <1>1, <2>1, <2>2, EncoderKept DEF TypeOK
<1>3. DecoderInv' /\ OwnParameters'
  BY <1>1 DEF DecoderInv, OwnParameters
<1>4. ExactInSequence' /\ AcceptedInSequence'
  BY <1>1 DEF ExactInSequence, AcceptedInSequence, NotShown
<1>5. QED
  BY <1>1, <1>2, <1>3, <1>4, EncoderKept DEF IInv

LEMMA BootstrapInv ==
  ASSUME IInv, NEW frame \in LegacyFrames, BootstrapBySession(frame)
  PROVE  IInv'
<1>1. /\ decoder' = Bootstrapped(frame) /\ shown' = NotShown
      /\ dimensions_known' = dimensions_known
      /\ last' = IF decoder'.stream = decoder.stream THEN last ELSE None
      /\ UNCHANGED encoderVars
  BY DEF BootstrapBySession, BootstrapLegacyFrame
<1>2. frame.stream \in AllStreams /\ frame.stream # None
  BY LegacyType, FramesAssumption DEF AllStreams
<1>3. \/ decoder' = decoder /\ last' = last
      \/ decoder' = [stream |-> frame.stream, states |-> None] /\ last' = None
  BY <1>1, <1>2 DEF Bootstrapped, Reconfigured
<1>4. TypeOK'
  <2>1. decoder' \in [stream : AllStreams \cup {None}, states : States]
    BY <1>2, <1>3 DEF States, IInv, TypeOK
  <2>2. shown'.code = "None" /\ dimensions_known' \in BOOLEAN
    BY <1>1 DEF NotShown, IInv, TypeOK
  <2>3. last' \in Frame \cup {None}
    BY <1>3 DEF IInv, TypeOK
  <2>4. QED
    BY <1>1, <2>1, <2>2, <2>3, EncoderKept DEF TypeOK
<1>5. DecoderInv' /\ OwnParameters'
  <2>1. CASE decoder' = decoder /\ last' = last
    <3>1. sent' = sent
      BY <1>1 DEF encoderVars
    <3>2. QED
      BY <2>1, <3>1 DEF IInv, DecoderInv, OwnParameters
  <2>2. CASE decoder' = [stream |-> frame.stream, states |-> None] /\ last' = None
    BY <2>2 DEF DecoderInv, OwnParameters
  <2>3. QED
    BY <1>3, <2>1, <2>2
<1>6. ExactInSequence' /\ AcceptedInSequence'
  BY <1>1 DEF ExactInSequence, AcceptedInSequence, NotShown
<1>7. QED
  BY <1>1, <1>4, <1>5, <1>6, EncoderKept DEF IInv

\* What decode_frame does to the decoder when it accepts a frame.
LEMMA Accepted ==
  ASSUME IInv, Ready, NEW frame \in Frame, NEW key \in BOOLEAN,
         NEW body \in Bodies \cup {Garbage}, Accept(frame, key, body)
  PROVE  /\ decoder' \in [stream : AllStreams \cup {None}, states : States]
         /\ decoder'.stream = decoder.stream
         /\ decoder'.states = After(StartOf(key), decoder.stream, body)
         /\ decoder'.stream # None
         /\ OwnParameters'
<1>1. /\ decoder \in [stream : AllStreams \cup {None}, states : States]
      /\ decoder.stream # None
  BY DEF Ready, IInv, TypeOK
<1>2. /\ decoder' = [decoder EXCEPT !.states = After(StartOf(key), decoder.stream, body)]
      /\ key \/ decoder.states # None
  BY DEF Accept
<1>3. StartOf(key) \in Seq(Step) /\ OfStream(StartOf(key), decoder.stream)
  <2>1. CASE key
    BY <2>1, FreshType DEF StartOf
  <2>2. CASE ~key
    BY <1>1, <1>2, <2>2 DEF StartOf, States, IInv, OwnParameters, OfStream
  <2>3. QED
    BY <2>1, <2>2
<1>4. decoder.stream \in AllStreams
  BY <1>1
<1>5. /\ After(StartOf(key), decoder.stream, body) \in Seq(Step)
      /\ OfStream(After(StartOf(key), decoder.stream, body), decoder.stream)
  BY <1>3, <1>4, AfterType
<1>6. /\ decoder'.stream = decoder.stream
      /\ decoder'.states = After(StartOf(key), decoder.stream, body)
      /\ decoder' \in [stream : AllStreams \cup {None}, states : States]
  BY <1>1, <1>2, <1>5 DEF States
<1>7. OwnParameters'
  BY <1>5, <1>6 DEF OwnParameters, OfStream
<1>8. QED
  BY <1>1, <1>6, <1>7

LEMMA DecodeFrameInv ==
  ASSUME IInv, NEW frame \in Delivered, DecodeBySession(frame)
  PROVE  IInv'
<1>1. /\ UNCHANGED encoderVars /\ dimensions_known' = dimensions_known
      /\ last' = IF shown'.code # "Ok" THEN last
                 ELSE IF InSequence(frame) THEN frame ELSE None
  BY DEF DecodeBySession, DecodeFrame
<1>2. sent' = sent
  BY <1>1 DEF encoderVars
<1>3. frame \in Frame /\ frame # None
  BY DeliveredType, NoneAssumption DEF IInv, TypeOK
<1>4. dimensions_known' \in BOOLEAN
  BY <1>1 DEF IInv, TypeOK
<1>5. CASE /\ Refused(frame)
           /\ ~Ready \/ ~Readable(frame)
  <2>1. decoder' = decoder /\ shown' = [code |-> "Error", frame |-> frame, body |-> None]
    BY <1>5 DEF Refused
  <2>2. last' = last /\ shown'.code = "Error" /\ shown'.frame = frame
    BY <1>1, <2>1
  <2>3. TypeOK'
    BY <1>1, <1>4, <2>1, <2>2, EncoderKept DEF IInv, TypeOK
  <2>4. DecoderInv' /\ OwnParameters'
    BY <1>2, <2>1, <2>2 DEF IInv, DecoderInv, OwnParameters
  <2>5. ExactInSequence'
    BY <2>2 DEF ExactInSequence
  <2>6. AcceptedInSequence'
    <3>1. ASSUME dimensions_known, InSequence(frame)
          PROVE  FALSE
      <4>1. Readable(frame)
        BY <3>1, SequenceReadable
      <4>2. decoder.stream = None
        BY <1>5, <3>1, <4>1 DEF Ready
      <4>3. frame.stream \in AllStreams /\ frame.stream = decoder.stream
        BY <1>3, <3>1 DEF Frame, InSequence
      <4>4. QED
        BY <4>2, <4>3, FramesAssumption DEF AllStreams
    <3>2. InSequence(frame)' <=> InSequence(frame)
      BY <2>1, <2>2 DEF InSequence
    <3>3. QED
      BY <1>1, <2>2, <3>1, <3>2 DEF AcceptedInSequence, InSequence
  <2>7. QED
    BY <1>1, <2>3, <2>4, <2>5, <2>6, EncoderKept DEF IInv
<1>6. ASSUME Ready, NEW key \in BOOLEAN, NEW body \in Bodies \cup {Garbage},
             Accept(frame, key, body),
             InSequence(frame) =>
               key = frame.key /\ body = frame.body /\ StartOf(key) = frame.from
      PROVE  IInv'
  <2>1. /\ decoder' \in [stream : AllStreams \cup {None}, states : States]
        /\ decoder'.stream = decoder.stream
        /\ decoder'.states = After(StartOf(key), decoder.stream, body)
        /\ decoder'.stream # None
        /\ OwnParameters'
    BY <1>3, <1>6, Accepted
  <2>2. shown'.code = "Ok" /\ shown'.frame = frame /\ shown'.body = body
    BY <1>6 DEF Accept
  <2>3. last' = IF InSequence(frame) THEN frame ELSE None
    BY <1>1, <2>2
  <2>4. TypeOK'
    BY <1>1, <1>3, <1>4, <2>1, <2>2, <2>3, EncoderKept DEF TypeOK
  <2>5. DecoderInv'
    <3>1. CASE InSequence(frame)
      <4>1. frame \in {sent[i] : i \in DOMAIN sent} \cup LegacyFrames
        BY <3>1, SequenceReadable
      <4>2. frame.stream = decoder.stream
        BY <3>1 DEF InSequence
      <4>3. decoder'.states = Left(frame)
        BY <1>6, <2>1, <3>1, <4>2 DEF Left
      <4>4. QED
        BY <1>2, <2>1, <2>3, <3>1, <4>1, <4>2, <4>3 DEF DecoderInv
    <3>2. CASE ~InSequence(frame)
      BY <2>1, <2>3, <3>2 DEF DecoderInv
    <3>3. QED
      BY <3>1, <3>2
  <2>6. ExactInSequence'
    BY <1>3, <1>6, <2>2, <2>3 DEF ExactInSequence
  <2>7. AcceptedInSequence'
    BY <2>2 DEF AcceptedInSequence
  <2>8. QED
    BY <1>1, <2>1, <2>4, <2>5, <2>6, <2>7, EncoderKept DEF IInv
<1>7. CASE Ready /\ Readable(frame) /\ Accept(frame, frame.key, DecodedBody(frame))
  <2>1. frame.key \in BOOLEAN /\ DecodedBody(frame) \in Bodies \cup {Garbage}
    BY <1>3 DEF Frame, DecodedBody
  <2>2. InSequence(frame) => /\ StartOf(frame.key) = frame.from
                             /\ DecodedBody(frame) = frame.body
    BY SequenceReadable DEF DecodedBody
  <2>3. QED
    BY <1>6, <1>7, <2>1, <2>2
<1>8. CASE Ready /\ ~Readable(frame)
           /\ \E key \in KeyframeFlags(frame) : Accept(frame, key, Garbage)
  <2>1. PICK key \in KeyframeFlags(frame) : Accept(frame, key, Garbage)
    BY <1>8
  <2>2. key \in BOOLEAN
    BY <1>3 DEF KeyframeFlags, Frame
  <2>3. ~InSequence(frame)
    BY <1>8, SequenceReadable
  <2>4. QED
    BY <1>6, <1>8, <2>1, <2>2, <2>3
<1>9. QED
  BY <1>5, <1>7, <1>8 DEF DecodeBySession, DecodeFrame

LEMMA Consecution == IInv /\ [Next]_vars => IInv'
<1> SUFFICES ASSUME IInv, [Next]_vars
             PROVE  IInv'
  OBVIOUS
<1>1. ASSUME NEW stream \in Streams, ConfigureEncoder(stream), UNCHANGED <<decoderVars, last>>
      PROVE  IInv'
  BY <1>1, ConfigureEncoderInv
<1>2. ASSUME NEW body \in Bodies \cup {Unencodable}, EncodeFrame(body),
             UNCHANGED <<decoderVars, last>>
      PROVE  IInv'
  BY <1>2, EncodeFrameInv
<1>3. ASSUME NEW stream \in AllStreams, ConfigureBySession(stream)
      PROVE  IInv'
  BY <1>3, ConfigureDecoderInv
<1>4. ASSUME NEW frame \in LegacyFrames, BootstrapBySession(frame)
      PROVE  IInv'
  BY <1>4, BootstrapInv
<1>5. ASSUME NEW frame \in Delivered, DecodeBySession(frame)
      PROVE  IInv'
  BY <1>5, DecodeFrameInv
<1>6. CASE UNCHANGED vars
  <2>1. UNCHANGED encoderVars /\ UNCHANGED <<decoderVars, last>> /\ sent' = sent
    BY <1>6 DEF vars, encoderVars
  <2>2. sent \in Seq(Frame) /\ Len(sent) \in Nat
    BY LenProperties DEF IInv, TypeOK
  <2>3. sent' \in Seq(Frame) /\ Len(sent) <= Len(sent')
        /\ \A i \in 1..Len(sent) : sent'[i] = sent[i]
    BY <2>1, <2>2
  <2>4. QED
    BY <2>1, <2>3, EncoderKept, DecoderKept DEF IInv, TypeOK
<1>7. QED
  BY <1>1, <1>2, <1>3, <1>4, <1>5, <1>6 DEF Next, EncoderNext

LEMMA Invariance == Spec => []IInv
<1>1. QED
  BY Initial, Consecution, PTL DEF Spec

\* Where a non-keyframe is due, the counter of the configuration is not zero, so the
\* encoder has coded a frame and has the states it left.
LEMMA ContinueInv ==
  ASSUME IInv
  PROVE  CanContinue
<1> SUFFICES ASSUME encoder.stream # None, ~IsKeyframe
             PROVE  /\ keyframe_interval # 1
                    /\ encoder.states # None
                    /\ \A i \in DOMAIN encoder.states :
                         encoder.states[i].stream = encoder.stream
  BY DEF CanContinue
<1>1. /\ sent \in Seq(Frame) /\ epoch \in 0..Len(sent)
      /\ keyframe_interval \in Nat \ {0}
      /\ Len(sent) \in Nat /\ DOMAIN sent = 1..Len(sent)
  BY LenProperties, EncoderAssumption DEF IInv, TypeOK
<1>2. encoder.next_frame_index = Len(sent) - epoch
  BY DEF IInv, EncoderInv
<1> DEFINE c == encoder.next_frame_index
<1>3. c \in Nat /\ c % keyframe_interval # 0
  BY <1>1, <1>2 DEF IsKeyframe
<1>4. keyframe_interval # 1 /\ c # 0
  <2> HIDE DEF c
  <2>1. QED
    BY <1>1, <1>3
<1>5. epoch < Len(sent)
  <2> DEFINE n == Len(sent)
  <2>1. epoch \in 0..n /\ n \in Nat /\ c = n - epoch /\ c # 0
    BY <1>1, <1>2, <1>4
  <2> HIDE DEF n, c
  <2>2. epoch < n
    BY <2>1
  <2>3. QED
    BY <2>2 DEF n
<1>6. /\ Len(sent) \in DOMAIN sent /\ sent[Len(sent)] \in Frame
  BY <1>1, <1>5
<1>7. /\ encoder.stream = sent[Len(sent)].stream
      /\ encoder.states = Left(sent[Len(sent)])
  BY <1>5 DEF IInv, EncoderInv
<1>8. OfStream(sent[Len(sent)].from, sent[Len(sent)].stream)
  BY <1>6 DEF IInv, SentInv
<1>9. QED
  BY <1>4, <1>6, <1>7, <1>8, LeftType DEF OfStream

(***************************************************************************)
(* The theorems.                                                           *)
(***************************************************************************)

\* Encoder::encode_frame and Decoder::decode_frame keep their fields in range: the
\* frame counter never passes the frames produced.
THEOREM TypeCorrect == Spec => []TypeOK
<1>1. IInv => TypeOK
  BY DEF IInv
<1>2. QED
  BY <1>1, Invariance, PTL

\* Whatever was lost, repeated, refused or damaged before, decode_frame yields the
\* picture that was coded for every frame that continues an unbroken sequence.
THEOREM SequencesAreExact == Spec => []ExactInSequence
<1>1. IInv => ExactInSequence
  BY DEF IInv
<1>2. QED
  BY <1>1, Invariance, PTL

\* Decoder::decode_frame never refuses such a frame.
THEOREM SequencesAreAccepted == Spec => []AcceptedInSequence
<1>1. IInv => AcceptedInSequence
  BY DEF IInv
<1>2. QED
  BY <1>1, Invariance, PTL

\* Encoder::encode_frame makes keyframes at the interval it was created with,
\* counted from its configuration, over calls that succeed.
THEOREM CadenceIsKept == Spec => []Cadence
<1>1. IInv => Cadence
  BY DEF IInv
<1>2. QED
  BY <1>1, Invariance, PTL

\* Encoder::encode_frame never asks the executor for a non-keyframe it must refuse
\* for want of reference states.
THEOREM EncoderNeverStuck == Spec => []CanContinue
<1>1. QED
  BY Invariance, ContinueInv, PTL

\* Decoder::configure and bootstrap_legacy_frame leave no reference states of other
\* parameters behind.
THEOREM StatesAreOwn == Spec => []OwnParameters
<1>1. IInv => OwnParameters
  BY DEF IInv
<1>2. QED
  BY <1>1, Invariance, PTL
=============================================================================
