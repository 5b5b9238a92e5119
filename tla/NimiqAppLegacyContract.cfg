CONSTANTS
  path1 = path1
  path2 = path2
  noPath = noPath
  text = text
  word = word
  bytes = bytes
  UI = "nbgl"
  Media <- Usb
  Paths <- OnePath
  NoPath = noPath
  Chunks <- MCChunks
  ChunkLength <- MCChunkLength
  AsciiChunks <- MCAsciiChunks
  MessageLengths <- MCMessageLengths
  UINT32_SIZE = 5
  MAX_RAW_TX <- MCMaxRawTx
  MAX_PRINTABLE_MESSAGE_LENGTH <- MCMaxPrintable
  U2F_REQUEST_TIMEOUT <- MCTimeout
  Orderly = TRUE
  MaxTransmission = 1
SPECIFICATION Spec
INVARIANT NoAssertFails
CHECK_DEADLOCK FALSE
