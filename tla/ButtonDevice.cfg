CONSTANTS
  path1 = path1
  noPath = noPath
  text = text
  byte = byte
  word = word
  UI = "bagl"
  Media <- UsbAndU2F
  Paths <- MCPaths
  NoPath = noPath
  Chunks <- MCChunks
  ChunkLength <- MCChunkLength
  AsciiChunks <- MCAsciiChunks
  MessageLengths <- MCMessageLengths
  UINT32_SIZE = 5
  MAX_RAW_TX <- MCMaxRawTx
  MAX_PRINTABLE_MESSAGE_LENGTH <- MCMaxPrintable
  U2F_REQUEST_TIMEOUT <- MCTimeout
  Orderly = TRUE
  MaxTransmission = 1
SPECIFICATION DeviceSpec
INVARIANT FlowIsOfContext
PROPERTY SignedOnlyAfterSeen
CHECK_DEADLOCK FALSE
