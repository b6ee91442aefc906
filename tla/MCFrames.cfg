SPECIFICATION FrameSpec
CONSTANTS
  FrameType = {"HELLO", "STATE_RESP"}
  Limits <- MCLimits
  HeaderLen = 2
  ChecksumLen = 1
  ChunkLen = 9
  Offered <- MCOffered
  MaxFrames = 3
INVARIANTS FrameTypeOK BufferBounded NothingWithheld
PROPERTIES ChannelRefined Conveyed DamageNoticed
CHECK_DEADLOCK FALSE
