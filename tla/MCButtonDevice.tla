--------------------------- MODULE MCButtonDevice ---------------------------
(* Constant values for model-checking ButtonDevice: chunks of which one is   *)
(* displayed as text, one in hex and one is too long to be displayed.        *)
EXTENDS ButtonDevice, TLC

CONSTANTS path1, noPath, text, byte, word

MCPaths == {path1}
MCChunks == {text, byte, word}
MCChunkLength == text :> 1 @@ byte :> 1 @@ word :> 2
MCAsciiChunks == {text, word}
MCMessageLengths == {1, 2}
MCMaxRawTx == 1
MCMaxPrintable == 1
MCTimeout == TICK
UsbAndU2F == {"USB_HID", "U2F"}
=============================================================================
