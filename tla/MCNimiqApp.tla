---------------------------- MODULE MCNimiqApp ----------------------------
(* Constant values for model-checking NimiqApp. *)
EXTENDS NimiqApp, TLC

CONSTANTS path1, path2, noPath,  \* bip32 paths
          text, word, bytes      \* chunks: two of ASCII characters, one of binary data

MCPaths == {path1, path2}
OnePath == {path1}
MCChunks == {text, word, bytes}
MCChunkLength == text :> 1 @@ word :> 2 @@ bytes :> 1
MCAsciiChunks == {text, word}
MCMessageLengths == {0, 1, 2, 3}
\* For the tunneled transports, whose states are many more: chunks of two bytes, of
\* which two are too long for a transaction and a message has one or two.
TunnelChunks == {word, bytes}
TunnelChunkLength == word :> 2 @@ bytes :> 2
TunnelAsciiChunks == {word}
TunnelMessageLengths == {2, 4}
\* A raw transaction of three bytes, a printable message of two bytes, a
\* heartbeat after two ticks.
MCMaxRawTx == 3
MCMaxPrintable == 2
MCTimeout == 2 * TICK
Usb == {"USB_HID"}
Tunnel == {"U2F", "BLE"}
=============================================================================
