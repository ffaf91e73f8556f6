SPECIFICATION Spec
CONSTANTS
  Requests <- MCRequests
  Routes = {"put", "metrics"}
  Permission <- MCPermission
  Granted <- MCGranted
  Replies <- MCReplies
  RecvMax = 3
  HeaderLimit = 14
  Nil = Nil
  Base = 2
  DefaultChunk = 5
  BlockSize = 8
  LengthBytes = 6
  TypeBytes = 1
  CidBytes = 1
  PayloadBytes = 3
  ChunkSizes = {0, 1, 2, 3, 4}
CHECK_DEADLOCK FALSE
INVARIANTS
  RequestExact
  ReplyExact
  SuccessIsHandled
  ChunksJoin
  PaddedRight
  WireExact
PROPERTIES
  ExchangeEnds
