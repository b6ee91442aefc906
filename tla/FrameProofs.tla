---------------------------- MODULE FrameProofs ----------------------------
(***************************************************************************)
(* Proofs about the framed protocol: the types, that the decoder's buffer  *)
(* is bounded and withholds nothing, and that a connection implements      *)
(* MessageChannel, for every table of frame types, every size of header,   *)
(* checksum and read, and any number of messages.                          *)
(***************************************************************************)
EXTENDS FrameProtocol, FiniteSetTheorems, SequenceTheorems, WellFoundedInduction,
        NaturalsInduction, TLAPS

Up == state \in {"reading", "decoding"}

\* Frame by frame, the stream is what was sent: the bytes add up, and a frame
\* that is undamaged is what Encode made of a message it could send.
StreamInv ==
  /\ Len(stream) = Len(sent) /\ Len(ends) = Len(sent)
  /\ \A i \in 1..Len(sent) :
       /\ ends[i] = BytesOf(i - 1) + ByteCount(stream[i])
       /\ stream[i].intact => stream[i] = Encode(sent[i]) /\ Sendable(sent[i])
  /\ \A i, j \in 0..Len(sent) : i <= j => BytesOf(i) <= BytesOf(j)

\* The buffer starts with the first byte of frame "next": every byte that was
\* sent is in a frame that was decoded, in the buffer, or unread.
PositionInv ==
  /\ BytesOf(next - 1) + buffer + unread = BytesOf(Len(sent))
  /\ Undamaged(next - 1)

\* The handled messages, then those of the batch, are the messages of the frames
\* before "next".
HandledInv ==
  /\ Up => Len(handled) + Len(batch) = next - 1
  /\ Len(handled) + Len(batch) <= next - 1
  /\ \A i \in 1..Len(handled) : handled[i] = sent[i]
  /\ \A i \in 1..Len(batch) : batch[i] = sent[Len(handled) + i]

\* Between two reads the batch is handed over, and a header that is there was
\* accepted and waits for the rest of its frame.
WaitingInv ==
  state = "reading" =>
    /\ batch = <<>>
    /\ next \in 1..Len(sent) /\ HeaderThere =>
         HeaderAccepted(stream[next]) /\ buffer < Total(stream[next])

FrameInv == FrameTypeOK /\ StreamInv /\ PositionInv /\ HandledInv /\ WaitingInv

-----------------------------------------------------------------------------
(* The limits.                                                             *)

\* A nonempty set of naturals has a smallest element.
LEMMA LeastNatural ==
  ASSUME NEW T, T \subseteq Nat, T # {}
  PROVE  \E t \in T : \A y \in T : t <= y
<1>1. PICK t \in T : \A y \in T : ~ (<<y, t>> \in OpToRel(<, Nat))
  BY NatLessThanWellFounded, WFMin
<1>2. ASSUME NEW y \in T PROVE ~ (y < t)
  <2>1. y < t => <<y, t>> \in OpToRel(<, Nat)
    BY Zenon DEF OpToRel
  <2>. QED BY <1>1, <2>1
<1>3. \A y \in T : y \in Nat
  OBVIOUS
<1>. QED BY <1>2, <1>3

\* A bounded nonempty set of naturals has a maximum.
LEMMA MaxInSet ==
  ASSUME NEW n \in Nat, NEW S, S \subseteq 0..n, S # {}
  PROVE  Max(S) \in S /\ \A y \in S : y <= Max(S)
<1> DEFINE T == {n - x : x \in S}
<1>1. T \subseteq Nat /\ T # {}
  <2>1. \A x \in S : n - x \in Nat
    OBVIOUS
  <2>2. PICK x \in S : TRUE
    OBVIOUS
  <2>. QED BY <2>1, <2>2, n - x \in T
<1>2. PICK t \in T : \A y \in T : t <= y
  <2>. HIDE DEF T
  <2>. QED BY <1>1, LeastNatural
<1>3. t \in Nat /\ \A y \in T : y \in Nat
  BY <1>1
<1>4. PICK m \in S : t = n - m
  BY <1>2
<1>5. \A y \in S : m >= y
  BY <1>2, <1>3, <1>4
<1>6. Max(S) \in S /\ \A y \in S : Max(S) >= y
  BY <1>5 DEF Max
<1>. QED BY <1>6

\* The values of a function on a finite set have an upper bound: a smallest set
\* on which it has none could lose an element and still be one.
LEMMA FiniteBounded ==
  ASSUME NEW D, IsFiniteSet(D), NEW f \in [D -> Nat]
  PROVE  \E b \in Nat : \A d \in D : f[d] <= b
<1> DEFINE Bounded(T) == \E b \in Nat : \A d \in T : f[d] <= b
           Bad == {T \in FiniteSubsetsOf(D) : ~ Bounded(T)}
<1>1. SUFFICES ASSUME ~ Bounded(D) PROVE FALSE
  OBVIOUS
<1>2. D \in Bad
  BY <1>1 DEF FiniteSubsetsOf
<1>3. PICK T \in Bad : \A U \in Bad : ~ (<<U, T>> \in StrictSubsetOrdering(D))
  <2>1. Bad \subseteq FiniteSubsetsOf(D) /\ Bad # {}
    BY <1>2
  <2>. HIDE DEF Bad
  <2>. QED BY <2>1, FS_StrictSubsetOrderingWellFounded, WFMin
<1>4. PICK x \in T : TRUE
  <2>1. Bounded({})
    OBVIOUS
  <2>. QED BY <1>3, <2>1
<1>5. T \ {x} \in FiniteSubsetsOf(D)
  BY <1>3, FS_RemoveElement DEF FiniteSubsetsOf
<1>6. <<T \ {x}, T>> \in StrictSubsetOrdering(D)
  BY <1>3, <1>4 DEF StrictSubsetOrdering, FiniteSubsetsOf
<1>7. Bounded(T \ {x})
  BY <1>3, <1>5, <1>6
<1>8. PICK b \in Nat : \A t \in T \ {x} : f[t] <= b
  BY <1>7
<1>9. x \in D /\ T \subseteq D
  BY <1>3, <1>4 DEF FiniteSubsetsOf
<1>10. \A d \in T : f[d] <= b + f[x]
  BY <1>8, <1>9
<1>11. b + f[x] \in Nat
  BY <1>9
<1>. QED BY <1>3, <1>10, <1>11

\* GlobalMaxFrameLen is a number, and no payload of the table is longer.
LEMMA GlobalMax ==
  GlobalMaxFrameLen \in Nat /\ \A t \in FrameType : Limits[t] <= GlobalMaxFrameLen
<1> DEFINE S == {Limits[t] : t \in FrameType} \cup {0}
<1>1. PICK b \in Nat : \A t \in FrameType : Limits[t] <= b
  BY FrameAssumption, FiniteBounded
<1>2. S \subseteq 0..b /\ S # {}
  BY <1>1, FrameAssumption
<1>3. \A t \in FrameType : Limits[t] \in S
  OBVIOUS
<1>. HIDE DEF S
<1>4. Max(S) \in S /\ \A y \in S : y <= Max(S)
  BY <1>2, MaxInSet
<1>. QED BY <1>2, <1>3, <1>4 DEF GlobalMaxFrameLen, S

\* What Encode makes has an accepted header, and the length it says.
LEMMA EncodeAccepted ==
  ASSUME NEW msg \in Message, Sendable(msg)
  PROVE  /\ Encode(msg) \in Frame
         /\ HeaderAccepted(Encode(msg))
         /\ Total(Encode(msg)) = ByteCount(Encode(msg))
<1>1. msg.type \in FrameType /\ msg.size \in Nat /\ msg.size <= Limits[msg.type]
  BY DEF Message, Sendable, MaxFrameLen
<1>2. msg.size <= GlobalMaxFrameLen
  BY <1>1, GlobalMax, FrameAssumption
<1>. QED
  BY <1>1, <1>2, FrameAssumption
     DEF Encode, Frame, HeaderAccepted, MaxFrameLen, Total, ByteCount

\* A damaged frame is a frame, and does not pass for an intact one.
LEMMA DamagedType ==
  ASSUME NEW f \in Frame, NEW g \in DamagedForms(f)
  PROVE  g \in Frame /\ ~ g.intact
<1>1. CASE g = [f EXCEPT !.magic = FALSE, !.intact = FALSE]
  BY <1>1 DEF Frame
<1>2. CASE g = [f EXCEPT !.version = FALSE, !.intact = FALSE]
  BY <1>2 DEF Frame
<1>3. CASE g = [f EXCEPT !.type = UnknownType, !.intact = FALSE]
  BY <1>3 DEF Frame
<1>4. ASSUME NEW n \in 0..(GlobalMaxFrameLen + 1),
             g = [f EXCEPT !.length = n, !.intact = FALSE]
      PROVE  g \in Frame /\ ~ g.intact
  <2>1. n \in Nat
    BY GlobalMax
  <2>. QED BY <1>4, <2>1 DEF Frame
<1>. QED BY <1>1, <1>2, <1>3, <1>4, Zenon DEF DamagedForms

-----------------------------------------------------------------------------
(* The inductive invariant.                                                *)

\* Nothing sent and nothing read.
LEMMA FrameStart ==
  ASSUME FrameInit
  PROVE  FrameInv
BY DEF FrameInit, FrameInv, FrameTypeOK, StreamInv, PositionInv, HandledInv, WaitingInv,
       BytesOf, Undamaged, Up

\* The number of bytes of a frame.
LEMMA BytesType ==
  ASSUME FrameTypeOK, StreamInv
  PROVE  /\ Len(sent) \in Nat
         /\ \A n \in 0..Len(sent) : BytesOf(n) \in Nat
         /\ \A n \in 1..Len(sent) :
              /\ stream[n] \in Frame /\ sent[n] \in Message
              /\ ByteCount(stream[n]) \in Nat \ {0}
              /\ BytesOf(n) = BytesOf(n - 1) + ByteCount(stream[n])
<1>1. Len(sent) \in Nat
  BY DEF FrameTypeOK
<1>2. \A n \in 0..Len(sent) : BytesOf(n) \in Nat
  BY <1>1 DEF FrameTypeOK, StreamInv, BytesOf
<1>3. ASSUME NEW n \in 1..Len(sent)
      PROVE  /\ stream[n] \in Frame /\ sent[n] \in Message
             /\ ByteCount(stream[n]) \in Nat \ {0}
             /\ BytesOf(n) = BytesOf(n - 1) + ByteCount(stream[n])
  <2>1. stream[n] \in Frame /\ sent[n] \in Message
    BY <1>1 DEF FrameTypeOK, StreamInv
  <2>2. ByteCount(stream[n]) \in Nat \ {0}
    BY <2>1, FrameAssumption DEF Frame, ByteCount
  <2>3. BytesOf(n) = ends[n]
    BY DEF BytesOf
  <2>. QED BY <2>1, <2>2, <2>3 DEF StreamInv
<1>. QED BY <1>1, <1>2, <1>3

\* While bytes are in the buffer, the frame they belong to is in the stream.
LEMMA NextThere ==
  ASSUME FrameInv, HeaderThere
  PROVE  next \in 1..Len(sent)
<1>1. next \in 1..(Len(sent) + 1) /\ buffer \in Nat /\ unread \in Nat /\ buffer > 0
  BY FrameAssumption DEF FrameInv, FrameTypeOK, StreamInv, HeaderThere
<1>2. CASE next = Len(sent) + 1
  <2>1. BytesOf(Len(sent)) + buffer + unread = BytesOf(Len(sent))
    BY <1>1, <1>2, BytesType DEF FrameInv, PositionInv
  <2>. QED BY <1>1, <2>1, BytesType DEF FrameInv
<1>. QED BY <1>1, <1>2, BytesType DEF FrameInv

\* Send appends a frame to the stream, and its bytes to those that are unread.
LEMMA SendStep ==
  ASSUME FrameInv, NEW msg \in Offered, Send(msg)
  PROVE  FrameInv'
<1>0. PICK n \in Nat : n = Len(sent)
  BY DEF FrameInv, FrameTypeOK
<1>1. msg \in Message /\ Sendable(msg)
  BY MessageAssumption DEF Send
<1>2. PICK frame \in Frame :
        /\ frame.intact => frame = Encode(msg)
        /\ stream' = Append(stream, frame)
        /\ ends' = Append(ends, BytesOf(n) + ByteCount(frame))
        /\ unread' = unread + ByteCount(frame)
  BY <1>0, <1>1, EncodeAccepted, DamagedType, Zenon DEF Send
<1>3. /\ sent' = Append(sent, msg)
      /\ UNCHANGED <<buffer, next, batch, handled, state>>
      /\ Up
  BY DEF Send, Up
<1>4. /\ BytesOf(n) \in Nat /\ ByteCount(frame) \in Nat \ {0}
      /\ Len(stream) = n /\ Len(ends) = n
  <2>1. ByteCount(frame) \in Nat \ {0}
    BY FrameAssumption DEF Frame, ByteCount
  <2>. QED BY <1>0, <2>1, BytesType DEF FrameInv, StreamInv
<1>5. FrameTypeOK'
  <2>1. sent' \in Seq(Message) /\ stream' \in Seq(Frame) /\ ends' \in Seq(Nat)
    BY <1>1, <1>2, <1>3, <1>4 DEF FrameInv, FrameTypeOK
  <2>2. unread' \in Nat /\ next \in 1..(Len(stream') + 1)
    BY <1>0, <1>2, <1>4 DEF FrameInv, FrameTypeOK
  <2>. QED BY <1>3, <2>1, <2>2 DEF FrameInv, FrameTypeOK
<1>6. /\ Len(sent') = n + 1 /\ Len(stream') = n + 1 /\ Len(ends') = n + 1
      /\ \A i \in 1..n : sent'[i] = sent[i] /\ stream'[i] = stream[i] /\ ends'[i] = ends[i]
      /\ sent'[n + 1] = msg /\ stream'[n + 1] = frame
      /\ ends'[n + 1] = BytesOf(n) + ByteCount(frame)
  <2>1. sent \in Seq(Message) /\ stream \in Seq(Frame) /\ ends \in Seq(Nat)
    BY DEF FrameInv, FrameTypeOK
  <2>. QED BY <1>0, <1>1, <1>2, <1>3, <1>4, <2>1
<1>7. /\ \A i \in 0..n : BytesOf(i)' = BytesOf(i)
      /\ BytesOf(n + 1)' = BytesOf(n) + ByteCount(frame)
  BY <1>0, <1>4, <1>6 DEF BytesOf
<1>8. StreamInv'
  <2>1. ASSUME NEW i \in 1..(n + 1)
        PROVE  /\ ends'[i] = BytesOf(i - 1)' + ByteCount(stream'[i])
               /\ stream'[i].intact => stream'[i] = Encode(sent'[i]) /\ Sendable(sent'[i])
    <3>1. CASE i = n + 1
      BY <1>1, <1>2, <1>4, <1>6, <1>7, <3>1
    <3>2. CASE i \in 1..n
      BY <1>0, <1>4, <1>6, <1>7, <3>2 DEF FrameInv, StreamInv
    <3>. QED BY <3>1, <3>2
  <2>2. ASSUME NEW i \in 0..(n + 1), NEW j \in 0..(n + 1), i <= j
        PROVE  BytesOf(i)' <= BytesOf(j)'
    <3>1. CASE j = n + 1 /\ i \in 0..n
      <4>1. BytesOf(i) <= BytesOf(n) /\ BytesOf(i) \in Nat
        BY <1>0, <1>4, <3>1, BytesType DEF FrameInv, StreamInv
      <4>. QED BY <1>0, <1>4, <1>7, <3>1, <4>1
    <3>2. CASE j = n + 1 /\ i = n + 1
      BY <1>0, <1>4, <1>7, <3>2
    <3>3. CASE j \in 0..n
      BY <1>0, <1>4, <1>7, <2>2, <3>3 DEF FrameInv, StreamInv
    <3>. QED BY <1>0, <1>4, <3>1, <3>2, <3>3
  <2>. QED BY <1>0, <1>6, <2>1, <2>2 DEF StreamInv
<1>9. next - 1 \in 0..n
  BY <1>0, <1>4 DEF FrameInv, FrameTypeOK
<1>10. PositionInv'
  <2>1. BytesOf(next - 1)' = BytesOf(next - 1) /\ BytesOf(next - 1) \in Nat
    BY <1>0, <1>3, <1>7, <1>9, BytesType DEF FrameInv
  <2>2. (BytesOf(next - 1) + buffer + unread = BytesOf(Len(sent)))'
    BY <1>0, <1>2, <1>3, <1>4, <1>6, <1>7, <2>1 DEF FrameInv, PositionInv, FrameTypeOK
  <2>3. Undamaged(next - 1)'
    BY <1>0, <1>3, <1>4, <1>6, <1>9 DEF FrameInv, PositionInv, Undamaged
  <2>. QED BY <2>2, <2>3 DEF PositionInv
<1>11. HandledInv'
  <2>1. /\ Len(handled) \in Nat /\ Len(batch) \in Nat
        /\ Len(handled) + Len(batch) <= n
    BY <1>0, <1>4, <1>9 DEF FrameInv, FrameTypeOK, HandledInv
  <2>2. \A i \in 1..Len(handled) : handled[i] = sent'[i]
    BY <1>0, <1>4, <1>6, <2>1 DEF FrameInv, HandledInv
  <2>3. ASSUME NEW i \in 1..Len(batch)
        PROVE  batch[i] = sent'[Len(handled) + i]
    <3>1. Len(handled) + i \in 1..n
      BY <2>1
    <3>. QED BY <1>6, <3>1 DEF FrameInv, HandledInv
  <2>. QED BY <1>0, <1>3, <2>2, <2>3 DEF FrameInv, HandledInv, Up
<1>12. WaitingInv'
  <2>1. ASSUME HeaderThere, next \in 1..(n + 1)
        PROVE  next \in 1..n
    BY <1>0, <2>1, NextThere
  <2>. QED BY <1>0, <1>3, <1>4, <1>6, <2>1 DEF FrameInv, WaitingInv, HeaderThere
<1>. QED BY <1>5, <1>8, <1>10, <1>11, <1>12 DEF FrameInv

\* Receive moves bytes into the buffer.
LEMMA ReceiveStep ==
  ASSUME FrameInv, NEW k \in 1..ChunkLen, Receive(k)
  PROVE  FrameInv'
<1>1. /\ state = "reading" /\ k <= unread /\ k \in Nat
      /\ unread' = unread - k /\ buffer' = buffer + k /\ state' = "decoding"
      /\ UNCHANGED <<sent, stream, ends, next, batch, handled>>
  BY FrameAssumption DEF Receive
<1>2. FrameTypeOK'
  BY <1>1 DEF FrameInv, FrameTypeOK
<1>3. StreamInv'
  BY <1>1 DEF FrameInv, StreamInv, BytesOf
<1>4. PositionInv'
  <2>1. BytesOf(next - 1) \in Nat
    BY BytesType DEF FrameInv, FrameTypeOK, StreamInv
  <2>2. BytesOf(next - 1)' = BytesOf(next - 1) /\ BytesOf(Len(sent))' = BytesOf(Len(sent))
    BY <1>1 DEF BytesOf
  <2>3. (BytesOf(next - 1) + buffer + unread = BytesOf(Len(sent)))'
    BY <1>1, <2>1, <2>2 DEF FrameInv, PositionInv, FrameTypeOK
  <2>. QED BY <1>1, <2>3 DEF FrameInv, PositionInv, Undamaged
<1>5. HandledInv' /\ WaitingInv'
  BY <1>1 DEF FrameInv, HandledInv, WaitingInv, Up
<1>. QED BY <1>2, <1>3, <1>4, <1>5 DEF FrameInv

\* DecodeFrame takes one frame out of the buffer: it is undamaged, so its bytes
\* are those Encode counted and its message the one that was sent.
LEMMA DecodeStep ==
  ASSUME FrameInv, DecodeFrame
  PROVE  FrameInv'
<1>1. PICK n \in Nat : n = next
  BY DEF FrameInv, FrameTypeOK
<1>2. n \in 1..Len(sent)
  BY <1>1, NextThere DEF DecodeFrame
<1>3. stream[n] = Encode(sent[n]) /\ Sendable(sent[n]) /\ stream[n].intact
  BY <1>1, <1>2 DEF DecodeFrame, FrameInv, StreamInv
<1>4. /\ sent[n] \in Message
      /\ Total(stream[n]) = ByteCount(stream[n])
      /\ Total(stream[n]) \in Nat
      /\ BytesOf(n) = BytesOf(n - 1) + ByteCount(stream[n])
      /\ BytesOf(n - 1) \in Nat /\ BytesOf(n) \in Nat
  BY <1>2, <1>3, EncodeAccepted, BytesType DEF FrameInv
<1>5. [type |-> stream[n].type, size |-> stream[n].length] = sent[n]
  BY <1>3, <1>4 DEF Encode, Message
<1>6. /\ state = "decoding" /\ buffer >= Total(stream[n])
      /\ batch' = Append(batch, sent[n])
      /\ buffer' = buffer - Total(stream[n])
      /\ next' = n + 1
      /\ UNCHANGED <<sent, stream, ends, unread, handled, state>>
  BY <1>1, <1>5 DEF DecodeFrame, FrameThere
<1>7. FrameTypeOK'
  <2>1. batch' \in Seq(Message) /\ buffer' \in Nat
    BY <1>4, <1>6 DEF FrameInv, FrameTypeOK
  <2>2. next' \in 1..(Len(stream) + 1)
    BY <1>2, <1>6 DEF FrameInv, FrameTypeOK, StreamInv
  <2>. QED BY <1>6, <2>1, <2>2 DEF FrameInv, FrameTypeOK
<1>8. StreamInv'
  BY <1>6 DEF FrameInv, StreamInv, BytesOf
<1>9. PositionInv'
  <2>1. BytesOf(n + 1 - 1)' = BytesOf(n) /\ BytesOf(Len(sent))' = BytesOf(Len(sent))
    BY <1>6 DEF BytesOf
  <2>2. BytesOf(n) + buffer' + unread = BytesOf(Len(sent))
    BY <1>1, <1>4, <1>6 DEF FrameInv, PositionInv, FrameTypeOK
  <2>3. Undamaged(n + 1 - 1)'
    BY <1>1, <1>3, <1>6 DEF FrameInv, PositionInv, Undamaged
  <2>. QED BY <1>6, <2>1, <2>2, <2>3 DEF PositionInv
<1>10. HandledInv'
  <2>1. /\ Len(handled) \in Nat /\ Len(batch) \in Nat
        /\ Len(handled) + Len(batch) = n - 1
    BY <1>1, <1>6 DEF FrameInv, FrameTypeOK, HandledInv, Up
  <2>2. /\ Len(batch') = Len(batch) + 1
        /\ \A i \in 1..Len(batch) : batch'[i] = batch[i]
        /\ batch'[Len(batch) + 1] = sent[n]
    BY <1>4, <1>6 DEF FrameInv, FrameTypeOK
  <2>3. ASSUME NEW i \in 1..(Len(batch) + 1)
        PROVE  batch'[i] = sent[Len(handled) + i]
    <3>1. CASE i = Len(batch) + 1
      BY <1>1, <2>1, <2>2, <3>1
    <3>2. CASE i \in 1..Len(batch)
      BY <2>2, <3>2 DEF FrameInv, HandledInv
    <3>. QED BY <2>1, <3>1, <3>2
  <2>4. Len(handled) + Len(batch') = next' - 1
    BY <1>1, <1>6, <2>1, <2>2
  <2>. QED BY <1>6, <2>1, <2>2, <2>3, <2>4 DEF FrameInv, HandledInv
<1>11. WaitingInv'
  BY <1>6 DEF WaitingInv
<1>. QED BY <1>7, <1>8, <1>9, <1>10, <1>11 DEF FrameInv

\* What is handled after Feed returns true is a prefix of what was sent.
LEMMA BatchHandled ==
  ASSUME FrameInv, Up
  PROVE  /\ handled \o batch \in Seq(Message)
         /\ Len(handled \o batch) = next - 1
         /\ \A i \in 1..(next - 1) : (handled \o batch)[i] = sent[i]
<1>1. /\ handled \in Seq(Message) /\ batch \in Seq(Message) /\ next \in Nat
      /\ Len(handled) + Len(batch) = next - 1
  BY DEF FrameInv, FrameTypeOK, HandledInv
<1>2. /\ handled \o batch \in Seq(Message)
      /\ Len(handled \o batch) = Len(handled) + Len(batch)
      /\ \A i \in 1..(Len(handled) + Len(batch)) :
           (handled \o batch)[i] =
             IF i <= Len(handled) THEN handled[i] ELSE batch[i - Len(handled)]
  BY <1>1, ConcatProperties
<1>3. ASSUME NEW i \in 1..(next - 1)
      PROVE  (handled \o batch)[i] = sent[i]
  <2>1. Len(handled) \in Nat /\ Len(batch) \in Nat
    BY <1>1
  <2>2. CASE i <= Len(handled)
    BY <1>1, <1>2, <2>1, <2>2 DEF FrameInv, HandledInv
  <2>3. CASE ~ (i <= Len(handled))
    <3>1. i - Len(handled) \in 1..Len(batch)
      BY <1>1, <2>1, <2>3
    <3>2. batch[i - Len(handled)] = sent[Len(handled) + (i - Len(handled))]
      BY <3>1 DEF FrameInv, HandledInv
    <3>3. Len(handled) + (i - Len(handled)) = i
      BY <2>1
    <3>. QED BY <1>1, <1>2, <2>3, <3>2, <3>3
  <2>. QED BY <2>2, <2>3
<1>. QED BY <1>1, <1>2, <1>3

\* NeedMore hands the batch over and leaves less than a frame in the buffer.
LEMMA NeedMoreStep ==
  ASSUME FrameInv, NeedMore
  PROVE  FrameInv'
<1>1. /\ state = "decoding" /\ state' = "reading"
      /\ handled' = handled \o batch /\ batch' = <<>>
      /\ UNCHANGED <<sent, stream, ends, unread, buffer, next>>
      /\ HeaderThere => HeaderAccepted(stream[next]) /\ ~ FrameThere
  BY DEF NeedMore
<1>2. /\ handled' \in Seq(Message) /\ Len(handled') = next - 1
      /\ \A i \in 1..(next - 1) : handled'[i] = sent[i]
  BY <1>1, BatchHandled DEF Up
<1>3. FrameTypeOK'
  BY <1>1, <1>2 DEF FrameInv, FrameTypeOK
<1>4. StreamInv' /\ PositionInv'
  BY <1>1 DEF FrameInv, StreamInv, PositionInv, BytesOf, Undamaged
<1>5. HandledInv'
  <2>1. Len(batch') = 0 /\ next - 1 \in Nat
    BY <1>1 DEF FrameInv, FrameTypeOK
  <2>. QED BY <1>1, <1>2, <2>1 DEF HandledInv
<1>6. WaitingInv'
  <2>1. ASSUME next \in 1..Len(sent), HeaderThere
        PROVE  HeaderAccepted(stream[next]) /\ buffer < Total(stream[next])
    <3>1. Total(stream[next]) \in Nat /\ buffer \in Nat
      <4>1. stream[next] \in Frame /\ buffer \in Nat
        BY <2>1, BytesType DEF FrameInv, FrameTypeOK
      <4>. QED BY <4>1, FrameAssumption DEF Frame, Total
    <3>. QED BY <1>1, <2>1, <3>1 DEF FrameThere
  <2>. QED BY <1>1, <2>1 DEF WaitingInv, HeaderThere
<1>. QED BY <1>3, <1>4, <1>5, <1>6 DEF FrameInv

\* Reject and HangUp end the connection and hand nothing over.
LEMMA EndStep ==
  ASSUME FrameInv, Reject \/ HangUp
  PROVE  FrameInv'
<1>1. /\ state' \in {"rejected", "closed"}
      /\ batch' \in {batch, <<>>}
      /\ UNCHANGED <<sent, stream, ends, unread, buffer, next, handled>>
  BY DEF Reject, HangUp
<1>2. FrameTypeOK'
  <2>1. batch \in Seq(Message) /\ <<>> \in Seq(Message)
    BY DEF FrameInv, FrameTypeOK
  <2>2. batch' \in Seq(Message)
    BY <1>1, <2>1, Zenon
  <2>. QED BY <1>1, <2>2 DEF FrameInv, FrameTypeOK
<1>3. StreamInv' /\ PositionInv'
  BY <1>1 DEF FrameInv, StreamInv, PositionInv, BytesOf, Undamaged
<1>4. HandledInv'
  <2>1. CASE batch' = batch
    BY <1>1, <2>1 DEF FrameInv, HandledInv, Up
  <2>2. CASE batch' = <<>>
    <3>1. Len(batch') = 0 /\ Len(handled) \in Nat /\ Len(batch) \in Nat /\ next \in Nat
      BY <2>2 DEF FrameInv, FrameTypeOK
    <3>2. Len(handled) + Len(batch') <= next - 1
      BY <3>1 DEF FrameInv, HandledInv
    <3>. QED BY <1>1, <3>1, <3>2 DEF FrameInv, HandledInv, Up
  <2>. QED BY <1>1, <2>1, <2>2
<1>5. WaitingInv'
  BY <1>1 DEF WaitingInv
<1>. QED BY <1>2, <1>3, <1>4, <1>5 DEF FrameInv

\* Every step preserves the invariant.
LEMMA FrameStep ==
  ASSUME FrameInv, [FrameNext]_fvars
  PROVE  FrameInv'
<1>1. CASE UNCHANGED fvars
  BY <1>1 DEF fvars, FrameInv, FrameTypeOK, StreamInv, PositionInv, HandledInv, WaitingInv,
              BytesOf, Undamaged, Up, HeaderThere
<1>. QED
  BY <1>1, SendStep, ReceiveStep, DecodeStep, NeedMoreStep, EndStep DEF FrameNext, Read

\* The invariant holds in every behaviour of the connection, with or without
\* fairness.
LEMMA FrameInvariant == FrameSpec => []FrameInv
<1>1. FrameInit => FrameInv
  BY FrameStart
<1>2. FrameInv /\ [FrameNext]_fvars => FrameInv'
  BY FrameStep
<1>. QED BY <1>1, <1>2, PTL DEF FrameSpec

-----------------------------------------------------------------------------
(* The theorems.                                                           *)

\* Every variable of a connection keeps its type: in particular the decoder never
\* takes more bytes out of its buffer than it holds (FrameDecoder::Feed's erase).
THEOREM FrameTypes == FrameSpec => []FrameTypeOK
<1>1. FrameInv => FrameTypeOK
  BY DEF FrameInv
<1>. QED BY <1>1, FrameInvariant, PTL

\* Between two reads FrameDecoder's buffer holds less than the largest frame of
\* the table, whatever the peer's headers say.
THEOREM BufferIsBounded == FrameSpec => []BufferBounded
<1>1. ASSUME FrameInv PROVE BufferBounded
  <2>1. /\ buffer \in Nat /\ GlobalMaxFrameLen \in Nat
        /\ HeaderLen \in Nat \ {0} /\ ChecksumLen \in Nat \ {0}
    BY <1>1, GlobalMax, FrameAssumption DEF FrameInv, FrameTypeOK
  <2>2. CASE ~ HeaderThere
    BY <2>1, <2>2 DEF HeaderThere, BufferBounded
  <2>3. CASE HeaderThere /\ state = "reading"
    <3>1. next \in 1..Len(sent)
      BY <1>1, <2>3, NextThere
    <3>2. stream[next].length \in Nat
      BY <1>1, <3>1, BytesType DEF FrameInv, Frame
    <3>3. stream[next].length <= GlobalMaxFrameLen /\ buffer < Total(stream[next])
      BY <1>1, <2>3, <3>1 DEF FrameInv, WaitingInv, HeaderAccepted
    <3>. QED BY <2>1, <3>2, <3>3 DEF Total, BufferBounded
  <2>. QED BY <2>2, <2>3 DEF BufferBounded
<1>. QED BY <1>1, FrameInvariant, PTL

\* When Feed has returned true, every message whose bytes have all been read, with
\* no damage before it, is handled: FrameDecoder never sits on a complete frame.
THEOREM NothingIsWithheld == FrameSpec => []NothingWithheld
<1>1. ASSUME FrameInv, state = "reading", NEW n \in DOMAIN stream, Undamaged(n),
             BytesOf(n) + unread <= BytesOf(Len(stream)), ~ (n <= Len(handled))
      PROVE  FALSE
  <2>1. /\ Len(stream) = Len(sent) /\ Len(sent) \in Nat /\ n \in 1..Len(sent)
        /\ buffer \in Nat /\ unread \in Nat /\ next \in 1..(Len(sent) + 1)
    BY <1>1 DEF FrameInv, FrameTypeOK, StreamInv
  <2>2. Len(handled) = next - 1 /\ Len(handled) \in Nat
    <3>1. batch = <<>>
      BY <1>1 DEF FrameInv, WaitingInv
    <3>. QED BY <1>1, <2>1, <3>1 DEF FrameInv, FrameTypeOK, HandledInv, Up
  <2>3. next \in 1..Len(sent) /\ next <= n
    BY <1>1, <2>1, <2>2
  <2>4. BytesOf(next) <= BytesOf(n)
    BY <1>1, <2>1, <2>3 DEF FrameInv, StreamInv
  <2>5. /\ sent[next] \in Message
        /\ BytesOf(next) = BytesOf(next - 1) + ByteCount(stream[next])
        /\ BytesOf(next - 1) \in Nat /\ BytesOf(n) \in Nat /\ BytesOf(Len(sent)) \in Nat
        /\ ByteCount(stream[next]) \in Nat
    BY <1>1, <2>1, <2>3, BytesType DEF FrameInv
  <2>6. stream[next] = Encode(sent[next]) /\ Sendable(sent[next])
    BY <1>1, <2>1, <2>3 DEF Undamaged, FrameInv, StreamInv
  <2>7. Total(stream[next]) = ByteCount(stream[next])
    BY <2>5, <2>6, EncodeAccepted
  <2>8. buffer >= ByteCount(stream[next])
    BY <1>1, <2>1, <2>4, <2>5 DEF FrameInv, PositionInv
  <2>9. HeaderThere
    <3>1. stream[next].size \in Nat
      BY <1>1, <2>3, BytesType DEF FrameInv, Frame
    <3>. QED BY <2>1, <2>8, <3>1, FrameAssumption DEF HeaderThere, ByteCount
  <2>. QED BY <1>1, <2>1, <2>3, <2>5, <2>7, <2>8, <2>9 DEF FrameInv, WaitingInv
<1>2. FrameInv => NothingWithheld
  BY <1>1 DEF NothingWithheld
<1>. QED BY <1>2, FrameInvariant, PTL

\* A step of the connection is a step of the channel, or changes nothing of it.
LEMMA ChannelStep ==
  ASSUME FrameInv, [FrameNext]_fvars
  PROVE  [Channel!Put \/ Channel!Deliver \/ Channel!GoDown]_<<sent, handled, Up>>
<1>1. ASSUME NEW msg \in Offered, Send(msg) PROVE Channel!Put
  <2>1. /\ sent' = Append(sent, msg) /\ UNCHANGED <<handled, state>> /\ Up
        /\ sent \in Seq(Message) /\ msg \in Message
    BY <1>1, MessageAssumption DEF Send, Up, FrameInv, FrameTypeOK
  <2>2. /\ Len(sent) \in Nat /\ sent' \in Seq(Message)
        /\ Len(sent') = Len(sent) + 1
        /\ \A i \in 1..Len(sent) : sent'[i] = sent[i]
    BY <2>1
  <2>3. SubSeq(sent', 1, Len(sent)) = sent
    <3>1. \A i \in 1..Len(sent) : sent'[i] \in Message
      BY <2>1, <2>2
    <3>2. /\ SubSeq(sent', 1, Len(sent)) \in Seq(Message)
          /\ Len(SubSeq(sent', 1, Len(sent))) = Len(sent)
          /\ \A i \in 1..Len(sent) : SubSeq(sent', 1, Len(sent))[i] = sent'[i]
      BY <2>2, <3>1, SubSeqProperties
    <3>. QED BY <2>1, <2>2, <3>2, SeqEqual
  <2>. QED BY <2>1, <2>2, <2>3 DEF Channel!Put, Up
<1>2. ASSUME NeedMore, batch # <<>> PROVE Channel!Deliver
  <2>1. /\ Up /\ Up' /\ handled' = handled \o batch /\ sent' = sent
    BY <1>2 DEF NeedMore, Up
  <2>2. /\ handled' \in Seq(Message) /\ Len(handled') = next - 1
        /\ \A i \in 1..(next - 1) : handled'[i] = sent[i]
    BY <2>1, BatchHandled
  <2>3. next - 1 \in (Len(handled) + 1)..Len(sent) /\ next \in Nat /\ sent \in Seq(Message)
    BY <1>2, <2>1 DEF FrameInv, FrameTypeOK, StreamInv, HandledInv
  <2>4. handled' = SubSeq(sent, 1, next - 1)
    <3>1. \A i \in 1..(next - 1) : sent[i] \in Message
      BY <2>3
    <3>2. /\ SubSeq(sent, 1, next - 1) \in Seq(Message)
          /\ Len(SubSeq(sent, 1, next - 1)) = next - 1
          /\ \A i \in 1..(next - 1) : SubSeq(sent, 1, next - 1)[i] = sent[i]
      BY <2>3, <3>1, SubSeqProperties
    <3>. QED BY <2>2, <2>3, <3>2, SeqEqual
  <2>. QED BY <2>1, <2>3, <2>4 DEF Channel!Deliver, Up
<1>3. ASSUME NeedMore, batch = <<>> PROVE UNCHANGED <<sent, handled, Up>>
  <2>1. handled \o batch = handled
    BY <1>3, ConcatEmptySeq DEF FrameInv, FrameTypeOK
  <2>. QED BY <1>3, <2>1 DEF NeedMore, Up
<1>4. ASSUME (\E k \in 1..ChunkLen : Receive(k)) \/ DecodeFrame \/ UNCHANGED fvars
      PROVE  UNCHANGED <<sent, handled, Up>>
  BY <1>4 DEF Receive, DecodeFrame, fvars, Up
<1>5. ASSUME Reject \/ HangUp PROVE Channel!GoDown
  BY <1>5 DEF Reject, HangUp, Channel!GoDown, Up
<1>. QED BY <1>1, <1>2, <1>3, <1>4, <1>5 DEF FrameNext, Read

\* A connection implements MessageChannel: whatever the chunks and the damage, the
\* handlers see the sent messages in order, each once and unchanged, until it goes
\* down (FrameDecoder::Feed and the loops that read for it).
THEOREM ChannelImplemented == FrameSpec => ChannelRefined
<1>1. FrameInit => Channel!Init
  BY DEF FrameInit, Channel!Init
<1>2. FrameInv /\ [FrameNext]_fvars
        => [Channel!Put \/ Channel!Deliver \/ Channel!GoDown]_<<sent, handled, Up>>
  BY ChannelStep
<1>. QED BY <1>1, <1>2, FrameInvariant, PTL DEF FrameSpec, ChannelRefined, Channel!Spec, Up
=============================================================================
