CONSTANTS
  path1 = path1
  path2 = path2
  noPath = noPath
  text = text
  word = word
  bytes = bytes
  UI = "bagl"
  Media <- Tunnel
  Paths <- OnePath
  NoPath = noPath
  Chunks <- TunnelChunks
  ChunkLength <- TunnelChunkLength
  AsciiChunks <- TunnelAsciiChunks
  MessageLengths <- TunnelMessageLengths
  UINT32_SIZE = 5
  MAX_RAW_TX <- MCMaxRawTx
  MAX_PRINTABLE_MESSAGE_LENGTH <- MCMaxPrintable
  U2F_REQUEST_TIMEOUT <- MCTimeout
  Orderly = FALSE
  MaxTransmission = 2
SPECIFICATION TickingSpec
INVARIANT IInv
INVARIANT HeartbeatArmed
PROPERTY ImplementsUserConsent
PROPERTY EveryU2FCommandIsAnswered
CHECK_DEADLOCK FALSE
