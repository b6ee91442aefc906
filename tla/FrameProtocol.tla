--------------------------- MODULE FrameProtocol ---------------------------
(***************************************************************************)
(* The framed protocol (src/dfabric/protocol.cpp) on one direction of a    *)
(* connection: Encode and the loop that sends on one side, the bytes in    *)
(* transit, FrameDecoder and the loop that reads for it                    *)
(* (deploy/coordinator.cpp, deploy/worker.cpp) on the other. At most one   *)
(* frame is damaged on the way.                                            *)
(*                                                                         *)
(* A frame is a header, a payload and a checksum. Of its bytes only their  *)
(* number matters, and whether the header fields and the checksum come out *)
(* right: the decoder reads nothing else before it accepts a frame. A      *)
(* checksum computed over bytes that were not those of one frame is taken  *)
(* not to match. The decoder's buffer always starts at the first byte of a *)
(* frame, so it is the number of bytes in it and the index of that frame.  *)
(***************************************************************************)
EXTENDS Naturals, Sequences, FiniteSets, FiniteSetsExt

CONSTANTS
  FrameType,       \* the types of the canonical table
  Limits,          \* frame type |-> its largest payload
  HeaderLen,       \* 21 in the code
  ChecksumLen,     \* 8 in the code
  ChunkLen,        \* the most one read returns, 8192 or 4096 in the code
  Offered,         \* the messages a peer may try to send
  MaxFrames        \* bound on the frames it sends

ASSUME FrameAssumption ==
  /\ IsFiniteSet(FrameType)
  /\ Limits \in [FrameType -> Nat \ {0}]
  /\ HeaderLen \in Nat \ {0} /\ ChecksumLen \in Nat \ {0} /\ ChunkLen \in Nat \ {0}

\* A type that is not in the table.
UnknownType == "unknown"

Message == [type : FrameType \cup {UnknownType}, size : Nat]

ASSUME MessageAssumption == Offered \subseteq Message /\ MaxFrames \in Nat

MaxFrameLen(type) == IF type \in FrameType THEN Limits[type] ELSE 0

GlobalMaxFrameLen == Max({Limits[t] : t \in FrameType} \cup {0})

\* A frame on the wire. "length" is what its header says, "size" the bytes of
\* payload that are really there.
Frame == [type    : FrameType \cup {UnknownType},
          length  : Nat,
          size    : Nat,
          magic   : BOOLEAN,
          version : BOOLEAN,
          intact  : BOOLEAN]     \* the checksum matches header and payload

\* Encode gives no bytes for a message it cannot send, and its callers go on.
Sendable(msg) == MaxFrameLen(msg.type) # 0 /\ msg.size <= MaxFrameLen(msg.type)

Encode(msg) == [type |-> msg.type, length |-> msg.size, size |-> msg.size,
                magic |-> TRUE, version |-> TRUE, intact |-> TRUE]

\* What can become of one frame on the way: a wrong magic, version, type or
\* length, or other bytes that do not fit the checksum.
DamagedForms(f) ==
  {[f EXCEPT !.magic = FALSE, !.intact = FALSE],
   [f EXCEPT !.version = FALSE, !.intact = FALSE],
   [f EXCEPT !.type = UnknownType, !.intact = FALSE]}
    \cup {[f EXCEPT !.length = n, !.intact = FALSE] : n \in 0..(GlobalMaxFrameLen + 1)}

\* The bytes of a frame, and those the decoder takes it to have.
ByteCount(f) == HeaderLen + f.size + ChecksumLen
Total(f) == HeaderLen + f.length + ChecksumLen

VARIABLES
  sent,       \* the messages the peer has sent
  stream,     \* the frames they arrive as
  ends,       \* the bytes of the stream up to the end of each frame
  unread,     \* bytes that have not been read from the socket
  buffer,     \* bytes in the decoder's buffer
  next,       \* index of the frame the buffer starts with
  batch,      \* the messages decoded by the Feed call in progress
  handled,    \* the messages handed to the reader's handlers
  state       \* "reading", "decoding" (in Feed), "rejected" or "closed"

fvars == <<sent, stream, ends, unread, buffer, next, batch, handled, state>>

FrameInit ==
  /\ sent = <<>> /\ stream = <<>> /\ ends = <<>>
  /\ unread = 0
  /\ buffer = 0
  /\ next = 1
  /\ batch = <<>>
  /\ handled = <<>>
  /\ state = "reading"

-----------------------------------------------------------------------------
(* The sender. A message that Encode gives no bytes for is passed over.    *)

\* The bytes of the first n frames.
BytesOf(n) == IF n = 0 THEN 0 ELSE ends[n]

Undamaged(n) == \A i \in 1..n : stream[i].intact

Send(msg) ==
  /\ state \in {"reading", "decoding"}
  /\ Len(sent) < MaxFrames
  /\ Sendable(msg)
  /\ \E frame \in {Encode(msg)}
                    \cup (IF Undamaged(Len(sent)) THEN DamagedForms(Encode(msg)) ELSE {}) :
       /\ stream' = Append(stream, frame)
       /\ ends' = Append(ends, BytesOf(Len(sent)) + ByteCount(frame))
       /\ unread' = unread + ByteCount(frame)
  /\ sent' = Append(sent, msg)
  /\ UNCHANGED <<buffer, next, batch, handled, state>>

-----------------------------------------------------------------------------
(* The reader: RecvSome, then Feed, one action per turn of its loop.       *)

\* A read returns some of the bytes that are there; Feed appends them.
Receive(n) ==
  /\ state = "reading"
  /\ n <= unread
  /\ unread' = unread - n
  /\ buffer' = buffer + n
  /\ state' = "decoding"
  /\ UNCHANGED <<sent, stream, ends, next, batch, handled>>

\* Mutant: a payload of the largest size is taken for an oversized one.
HeaderAcceptedBelowLimit(f) ==
  /\ f.magic /\ f.version
  /\ MaxFrameLen(f.type) # 0
  /\ f.length < MaxFrameLen(f.type)

\* Mutant: the length is not compared with the limit.
HeaderAcceptedUnbounded(f) ==
  f.magic /\ f.version /\ MaxFrameLen(f.type) # 0

HeaderAccepted(f) ==
  /\ f.magic /\ f.version
  /\ MaxFrameLen(f.type) # 0
  /\ f.length <= MaxFrameLen(f.type) /\ f.length <= GlobalMaxFrameLen

HeaderThere == buffer >= HeaderLen

\* Mutant: the last byte of the checksum is not waited for.
FrameThereEarly == HeaderThere /\ buffer + 1 >= Total(stream[next])

\* Mutant: a byte of the next frame is waited for.
FrameThereLate == HeaderThere /\ buffer > Total(stream[next])

FrameThere == HeaderThere /\ buffer >= Total(stream[next])

\* A whole frame with a good header and checksum is appended to the output and
\* taken out of the buffer.
DecodeFrame ==
  /\ state = "decoding"
  /\ HeaderThere /\ HeaderAccepted(stream[next])
  /\ FrameThere /\ stream[next].intact
  /\ batch' = Append(batch, [type |-> stream[next].type, size |-> stream[next].length])
  /\ buffer' = buffer - Total(stream[next])
  /\ next' = next + 1
  /\ UNCHANGED <<sent, stream, ends, unread, handled, state>>

\* Mutant: what was decoded is handed over again after the next read.
NeedMoreKeepsBatch ==
  /\ state = "decoding"
  /\ \/ ~ HeaderThere
     \/ HeaderThere /\ HeaderAccepted(stream[next]) /\ ~ FrameThere
  /\ handled' = handled \o batch
  /\ state' = "reading"
  /\ UNCHANGED <<sent, stream, ends, unread, buffer, next, batch>>

\* Feed returns true because the buffer does not hold a whole frame, and the
\* reader handles what was decoded.
NeedMore ==
  /\ state = "decoding"
  /\ \/ ~ HeaderThere
     \/ HeaderThere /\ HeaderAccepted(stream[next]) /\ ~ FrameThere
  /\ handled' = handled \o batch
  /\ batch' = <<>>
  /\ state' = "reading"
  /\ UNCHANGED <<sent, stream, ends, unread, buffer, next>>

\* Mutant: Feed returns true for a bad frame, which stays in the buffer.
RejectWaits ==
  /\ state = "decoding"
  /\ HeaderThere
  /\ ~ HeaderAccepted(stream[next]) \/ (FrameThere /\ ~ stream[next].intact)
  /\ handled' = handled \o batch
  /\ batch' = <<>>
  /\ state' = "reading"
  /\ UNCHANGED <<sent, stream, ends, unread, buffer, next>>

\* Feed returns false. The reader drops what the same call had decoded before,
\* and closes the connection.
Reject ==
  /\ state = "decoding"
  /\ HeaderThere
  /\ \/ ~ HeaderAccepted(stream[next])
     \/ FrameThere /\ ~ stream[next].intact
  /\ batch' = <<>>
  /\ state' = "rejected"
  /\ UNCHANGED <<sent, stream, ends, unread, buffer, next, handled>>

\* The peer closes its end or dies, at any moment and with bytes still unread.
HangUp ==
  /\ state = "reading"
  /\ state' = "closed"
  /\ UNCHANGED <<sent, stream, ends, unread, buffer, next, batch, handled>>

Read == (\E n \in 1..ChunkLen : Receive(n)) \/ DecodeFrame \/ NeedMore \/ Reject

FrameNext == Read \/ HangUp \/ \E msg \in Offered : Send(msg)

\* The bytes that were sent arrive and the reading thread is scheduled; nobody
\* has to send or to hang up.
FrameSpec == FrameInit /\ [][FrameNext]_fvars /\ WF_fvars(Read)

-----------------------------------------------------------------------------
(* Properties.                                                             *)

FrameTypeOK ==
  /\ sent \in Seq(Message) /\ stream \in Seq(Frame) /\ ends \in Seq(Nat)
  /\ unread \in Nat /\ buffer \in Nat
  /\ next \in 1..(Len(stream) + 1)
  /\ batch \in Seq(Message) /\ handled \in Seq(Message)
  /\ state \in {"reading", "decoding", "rejected", "closed"}

Channel ==
  INSTANCE MessageChannel
    WITH got <- handled, up <- state \in {"reading", "decoding"}

\* Whatever chunks the bytes arrive in, and whichever frame is damaged on the
\* way, the reader's handlers see the messages that could be sent, in order, each
\* once and unchanged, and none from a damaged one on ("The decoder handles
\* arbitrary partial reads", "malformed frames are rejected before any mutation").
ChannelRefined == Channel!Spec

\* Between two reads the decoder holds less than one frame: what it keeps of a
\* peer's bytes is bounded by the largest frame, whatever the headers say
\* (Feed's order of checks: the limit before the wait for the payload).
BufferBounded ==
  state = "reading" => buffer < HeaderLen + GlobalMaxFrameLen + ChecksumLen

\* Feed withholds nothing: when it returns true, every message whose last byte
\* has arrived, with no damage before it, is handled.
NothingWithheld ==
  state = "reading" =>
    \A n \in DOMAIN stream :
      Undamaged(n) /\ BytesOf(n) + unread <= BytesOf(Len(stream)) => n <= Len(handled)

\* What Encode makes, the decoder accepts: undamaged frames are never rejected and
\* each of them is handled, unless the peer hangs up first.
Conveyed ==
  \A n \in 1..MaxFrames :
    n \in DOMAIN stream ~>
      \/ Len(handled) >= n
      \/ state = "closed"
      \/ ~ Undamaged(Len(stream))

\* Every byte has been read, and the frame in the buffer is not whole.
Starved == unread = 0 /\ next \in DOMAIN stream /\ buffer < Total(stream[next])

\* Damage is always noticed, except for a length field that promises more bytes
\* than will ever come: the reader waits for them until the peer hangs up.
DamageNoticed ==
  ~ Undamaged(Len(stream)) ~>
    \/ state \in {"rejected", "closed"}
    \/ [](state = "reading" => Starved)
=============================================================================
