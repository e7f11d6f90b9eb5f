\* Two calls of two types in flight, or three of one for two slots; the counter wraps.
CONSTANTS
  c1 = c1
  c2 = c2
  c3 = c3
  None = None
  info = info
  ack = ack
  Callers = {c1, c2, c3}
  SlotCount = 2
  MaxSeq = 2
  MaxTries = 2
  DeadStreak = 2
  RspTypes = {info, ack}
  FramesExpire = TRUE
  MaxCalls = 1
SPECIFICATION CallsSpec
SYMMETRY Symmetry
INVARIANTS
  UnitsConserved
  WokenByOwnReply
  ReplyAnswersCall
PROPERTY NoWriteAfterReturn
