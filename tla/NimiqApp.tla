------------------------------ MODULE NimiqApp ------------------------------
(***************************************************************************)
(* The command loop of the Nimiq Ledger app (src/main.c): nimiq_main()     *)
(* receives one command APDU at a time, handle_apdu() dispatches it, and   *)
(* the handler either answers at once or shows a review and leaves the     *)
(* answer to the user (an "async reply").  While a reply is outstanding    *)
(* the app sits in io_exchange(), which delivers button presses, touches,  *)
(* USB status events and 100 ms ticks to io_event().                       *)
(*                                                                         *)
(* All request state lives in the one global ctx, whose req member is an   *)
(* untagged union.  The model keeps a tag (ctx.kind): "none" for memory    *)
(* that was just set to zero, otherwise the handler that last wrote it.    *)
(*                                                                         *)
(* Data is abstract: a payload is a sequence of chunks, a key is the path  *)
(* it is derived from, a hash is what was hashed and a signature is the    *)
(* key and what was signed.  Whether input is well-formed, whether a       *)
(* transaction parses and whether a cx_* call fails are free choices.      *)
(*                                                                         *)
(* The SDK takes no command while another one awaits its reply.  Behind a  *)
(* review that means: none but those that follow SW_KEEP_ALIVE, which      *)
(* replies to the command but leaves the review on the screen.  A command  *)
(* other than INS_KEEP_ALIVE then changes ctx behind the review; the model *)
(* says so (overtaken), and what the review's buttons do then.             *)
(*                                                                         *)
(* Clients may send anything at any time, or are Orderly:                  *)
(*  - a P1_MORE chunk continues the transmission begun last, though maybe  *)
(*    after a missed error; no message chunk that is empty, or that makes  *)
(*    the length counter wrap, is sent unless the message is in progress;  *)
(*  - INS_KEEP_ALIVE is sent over U2F and some time after SW_KEEP_ALIVE.   *)
(***************************************************************************)
EXTENDS Integers, Sequences, Sums

CONSTANTS
  UI,                           \* the UI library of the device: "bagl" or "nbgl"
  Media,                        \* the transports in use, of {"USB_HID", "U2F", "BLE"}
  Paths,                        \* bip32 paths a client may request
  NoPath,                       \* the path of length 0 that zeroed memory holds
  Chunks,                       \* non-empty pieces of transaction or message data
  ChunkLength,                  \* their lengths in bytes
  AsciiChunks,                  \* those of printable ASCII characters only
  MessageLengths,               \* lengths a client may announce for a message
  UINT32_SIZE,                  \* number of values of a uint32_t, 2^32 on the device
  MAX_RAW_TX,                   \* constants.h: size of the raw transaction buffer
  MAX_PRINTABLE_MESSAGE_LENGTH, \* constants.h: longest message shown as text or hex
  U2F_REQUEST_TIMEOUT,          \* Makefile: milliseconds until an U2F heartbeat
  Orderly,                      \* clients keep to the protocol (see above)
  MaxTransmission               \* bound: chunks a client sends after a P1_FIRST

ASSUME UIAssumption == UI \in {"bagl", "nbgl"}
ASSUME MediaAssumption == Media \subseteq {"USB_HID", "U2F", "BLE"}
ASSUME OrderlyAssumption == Orderly \in BOOLEAN
ASSUME PathAssumption == NoPath \notin Paths
ASSUME ChunkAssumption ==
  /\ ChunkLength \in [Chunks -> 1..255]
  /\ AsciiChunks \subseteq Chunks
  /\ UINT32_SIZE \in Nat \ {0}
  /\ MessageLengths \subseteq 0..(UINT32_SIZE - 1)
ASSUME BufferAssumption ==
  /\ MAX_RAW_TX \in Nat
  /\ MAX_PRINTABLE_MESSAGE_LENGTH \in Nat
  /\ \A c \in Chunks : MAX_PRINTABLE_MESSAGE_LENGTH + ChunkLength[c] < UINT32_SIZE
  /\ MaxTransmission \in Nat

\* The ticker decrements ctx.u2fTimer, a uint16_t, in steps of TICK and
\* compares it with 0, so the timeout has to be a multiple of TICK.
TICK == 100
ASSUME TimeoutAssumption ==
  U2F_REQUEST_TIMEOUT \in {TICK * n : n \in 1..655}

VARIABLES
  running,      \* "running", or how the app ended: "quit" or "asserted"
  screen,       \* the current screen, and for a review the ctx it was launched with
  ctx,          \* ctx.req
  u2fTimer,     \* ctx.u2fTimer
  media,        \* G_io_app.apdu_media: transport of the command that awaits its reply
  interrupted,  \* a client got SW_KEEP_ALIVE and may renew its command (history)
  overtaken,    \* a command was handled behind the review on the screen (history)
  reply,        \* the last reply, until the next command (history)
  request       \* what the client sent since its last first chunk (history)

vars == <<running, screen, ctx, u2fTimer, media, interrupted, overtaken, reply, request>>

-----------------------------------------------------------------------------
(* Status words and data *)

SyncErrors == {"SW_WRONG_P1P2", "SW_WRONG_DATA_LENGTH", "SW_INCORRECT_DATA",
               "SW_NOT_SUPPORTED", "SW_INS_NOT_SUPPORTED",
               "SW_CLA_NOT_SUPPORTED", "SW_CRYPTOGRAPHY_FAIL"}
StatusWords == SyncErrors \cup {"SW_OK", "SW_DENY", "SW_KEEP_ALIVE"}

NONE == "NONE"
Zeroed == [kind |-> "none"]
NoResult == [kind |-> "none"]
NoReply == [sw |-> NONE, result |-> NoResult]
NoRequest == [kind |-> "none", path |-> NoPath, length |-> 0, data |-> <<>>]

\* The data field of one APDU: empty or one chunk.
ApduData == {<<>>} \cup {<<c>> : c \in Chunks}
DataLength(data) == IF data = <<>> THEN 0 ELSE ChunkLength[data[1]]
TotalLength(data) == SumTo([i \in DOMAIN data |-> ChunkLength[data[i]]], Len(data))

TransactionVersions == {"LEGACY", "ALBATROSS"}
TransactionTypes == {"NORMAL", "VESTING_CREATION", "HTLC_CREATION",
                     "STAKING_OUTGOING", "STAKING_INCOMING"}
\* What PARSED_TX holds of a staking signature proof: none, the empty default
\* proof, or one the client filled in.
Proofs == {"none", "empty", "signed"}
Unparsed == [type |-> NONE, proof |-> "none"]

\* The transaction context.  stakerSignature and stakerKey are the bytes of the
\* signature proof inside rawTx that on_transaction_approved may overwrite: as
\* received (<<>>), or a signature over the raw transaction and its public key.
NewTransaction(path, version, data) ==
  [kind |-> "tx", path |-> path, version |-> version, rawTx |-> data,
   rawTxLength |-> DataLength(data), stakerSignature |-> <<>>,
   stakerKey |-> <<>>, parsed |-> Unparsed]

\* The message context.  messageHash and prefixedMessageHash stand for the two
\* running or final hashes, by what was fed into them.
NewMessage(path, flags, length) ==
  [kind |-> "msg", path |-> path, flags |-> flags, messageLength |-> length,
   processedMessageLength |-> 0, phase |-> "prepare", messageHash |-> <<>>,
   prefixedMessageHash |-> [length |-> length, data |-> <<>>],
   printableMessage |-> <<>>,
   isPrintableAscii |-> length <= MAX_PRINTABLE_MESSAGE_LENGTH,
   displayType |-> NONE]

\* ctx.req after code for one kind of request wrote into, or read as its own,
\* memory that holds another kind: nothing is known of its contents.
Mixed(kind) == [kind |-> "mixed", of |-> kind]
\* What code for one kind of request signed or returned of such memory.
Foreign(kind) == [kind |-> "foreign", of |-> kind]

DisplayFlags == {"PREFER_HEX", "PREFER_HASH"}

StakerSignatures ==
  Seq([key : Paths \cup {NoPath}, rawTx : Seq(Chunks), stakerKey : Seq(Paths \cup {NoPath})])

PkContext == [kind : {"pk"}, publicKey : Paths, returnSignature : BOOLEAN]
TxContext ==
  [kind : {"tx"}, path : Paths \cup {NoPath}, version : TransactionVersions,
   rawTx : Seq(Chunks), rawTxLength : Nat,
   stakerSignature : StakerSignatures, stakerKey : Seq(Paths \cup {NoPath}),
   parsed : [type : TransactionTypes \cup {NONE}, proof : Proofs]]
MsgContext ==
  [kind : {"msg"}, path : Paths, flags : SUBSET DisplayFlags,
   messageLength : Nat, processedMessageLength : Nat,
   phase : {"prepare", "confirm"}, messageHash : Seq(Chunks),
   prefixedMessageHash : [length : Nat, data : Seq(Chunks)],
   printableMessage : Seq(Chunks), isPrintableAscii : BOOLEAN,
   displayType : {NONE, "ASCII", "HEX", "HASH"}]
MixedContext == {Mixed("tx"), Mixed("msg")}
Contexts == {Zeroed} \cup PkContext \cup TxContext \cup MsgContext \cup MixedContext

PkResult == PkContext
TxResult ==
  [kind : {"tx"}, key : Paths, rawTx : Seq(Chunks),
   stakerSignature : StakerSignatures, stakerKey : Seq(Paths \cup {NoPath}),
   returnsStakerSignature : BOOLEAN]
MsgResult ==
  [kind : {"msg"}, key : Paths, over : [length : Nat, data : Seq(Chunks)]]

ForeignResult == {Foreign("pk"), Foreign("tx"), Foreign("msg")}
Results == {NoResult} \cup PkResult \cup TxResult \cup MsgResult \cup ForeignResult

Requests == [kind : {"none", "pk", "tx", "msg"}, path : Paths \cup {NoPath},
             length : Nat, data : Seq(Chunks)]

Menu == [view |-> "menu", shown |-> Zeroed]
Status == [view |-> "status", shown |-> Zeroed]
Review(c) == [view |-> "review", shown |-> c]
InReview == screen.view = "review"
\* The review on the screen was launched for this kind of request.
Reviewing(kind) == InReview /\ (screen.shown.kind = kind \/ screen.shown = Mixed(kind))

TypeOK ==
  /\ running \in {"running", "quit", "asserted"}
  /\ screen \in [view : {"menu", "status", "review"}, shown : Contexts]
  /\ ctx \in Contexts
  /\ u2fTimer \in 0..(2^16 - 1)
  /\ media \in Media \cup {NONE}
  /\ interrupted \in BOOLEAN
  /\ overtaken \in BOOLEAN
  /\ reply \in [sw : StatusWords \cup {NONE}, result : Results]
  /\ request \in Requests

Init ==
  /\ running = "running"
  /\ screen = Menu
  /\ ctx = Zeroed
  /\ u2fTimer = 0
  /\ media = NONE
  /\ interrupted = FALSE
  /\ overtaken = FALSE
  /\ reply = NoReply
  /\ request = NoRequest

-----------------------------------------------------------------------------
(* nimiq_main: receiving a command and completing it *)

\* io_exchange() returns a new command.  The SDK takes none while media is set.
Receive(m) ==
  /\ running = "running"
  /\ media = NONE
  /\ m \in Media

\* Faulty variant: the error path forgets to wipe ctx.
RespondKeepingContext(sw, c, result) ==
  /\ reply' = [sw |-> sw, result |-> IF sw = "SW_OK" THEN result ELSE NoResult]
  /\ ctx' = c
  /\ u2fTimer' = U2F_REQUEST_TIMEOUT
  /\ overtaken' = InReview
  /\ UNCHANGED <<running, screen, media, interrupted>>

\* The tail of nimiq_main's loop for a handler that ends with status word sw,
\* leaves c in ctx.req and starts no async reply.  An error wipes ctx, u2fTimer
\* included.  The reply goes out with the next io_exchange().  The screen is left
\* alone, also if it shows a review.
Respond(sw, c, result) ==
  /\ reply' = [sw |-> sw, result |-> IF sw = "SW_OK" THEN result ELSE NoResult]
  /\ ctx' = IF sw = "SW_OK" THEN c ELSE Zeroed
  /\ u2fTimer' = IF sw = "SW_OK" THEN U2F_REQUEST_TIMEOUT ELSE 0
  /\ overtaken' = InReview
  /\ UNCHANGED <<running, screen, media, interrupted>>

\* The same for a handler that has launched a review and asks for an async
\* reply: io_exchange() with IO_ASYNCH_REPLY sends nothing and waits.  A review on
\* the screen is replaced.
AwaitDecision(m, c) ==
  /\ reply' = NoReply
  /\ ctx' = c
  /\ screen' = Review(c)
  /\ u2fTimer' = U2F_REQUEST_TIMEOUT
  /\ media' = m
  /\ overtaken' = (c.kind = "mixed")
  /\ UNCHANGED <<running, interrupted>>

\* A failing LEDGER_ASSERT ends the app before it replies.
AssertFails(c) ==
  /\ running' = "asserted"
  /\ reply' = NoReply
  /\ ctx' = c
  /\ u2fTimer' = U2F_REQUEST_TIMEOUT
  /\ overtaken' = InReview
  /\ UNCHANGED <<screen, media, interrupted>>

\* An APDU of invalid length, with a foreign CLA or with an unknown INS.
HandleUnsupported(m) ==
  /\ Receive(m)
  /\ \E sw \in {"SW_WRONG_DATA_LENGTH", "SW_CLA_NOT_SUPPORTED", "SW_INS_NOT_SUPPORTED"} :
       Respond(sw, ctx, NoResult)
  /\ UNCHANGED request

-----------------------------------------------------------------------------
(* INS_GET_PUBLIC_KEY *)

HandleGetPublicKey(m, path, returnSignature, confirm) ==
  LET pk == [kind |-> "pk", publicKey |-> path, returnSignature |-> returnSignature] IN
  /\ Receive(m)
  /\ request' = [NoRequest EXCEPT !.kind = "pk", !.path = path]
  /\ \/ \E sw \in {"SW_WRONG_P1P2", "SW_WRONG_DATA_LENGTH", "SW_INCORRECT_DATA",
                   "SW_CRYPTOGRAPHY_FAIL"} : Respond(sw, ctx, NoResult)
     \/ ~confirm /\ Respond("SW_OK", pk, pk)
     \/ confirm /\ AwaitDecision(m, pk)

-----------------------------------------------------------------------------
(* INS_SIGN_TX *)

\* What parse_tx() can make of a transaction: contract creations are supported
\* for legacy transactions only, staking for Albatross only, and a proof that
\* was overwritten before is not the empty default proof any more.
ParseResults(tx) ==
  IF tx.rawTx = <<>> THEN {}
  ELSE IF tx.version = "LEGACY"
  THEN [type : {"NORMAL", "VESTING_CREATION", "HTLC_CREATION"}, proof : {"none"}]
  ELSE [type : {"NORMAL", "STAKING_OUTGOING"}, proof : {"none"}]
       \cup [type : {"STAKING_INCOMING"},
             proof : IF tx.stakerSignature = <<>> THEN Proofs ELSE {"none", "signed"}]

\* The part of handle_sign_transaction after the chunk was stored: more chunks
\* are awaited, or the transaction is parsed and reviewed.  The NBGL variant of
\* ui_transaction_signing() knows no vesting and HTLC creations.
EndTransactionChunk(m, tx, last) ==
  \/ ~last /\ Respond("SW_OK", tx, NoResult)
  \/ /\ last
     /\ \E sw \in {"SW_WRONG_DATA_LENGTH", "SW_INCORRECT_DATA", "SW_NOT_SUPPORTED",
                    "SW_CRYPTOGRAPHY_FAIL"} : Respond(sw, tx, NoResult)
  \/ /\ last
     /\ \E parsed \in ParseResults(tx) :
          LET parsedTx == [tx EXCEPT !.parsed = parsed] IN
          IF UI = "nbgl" /\ parsed.type \in {"VESTING_CREATION", "HTLC_CREATION"}
          THEN AssertFails(parsedTx)
          ELSE AwaitDecision(m, parsedTx)

HandleSignTransactionFirst(m, path, version, data, last) ==
  LET tx == NewTransaction(path, version, data) IN
  /\ Receive(m)
  /\ request' = [kind |-> "tx", path |-> path, length |-> 0, data |-> data]
  /\ \/ \E sw \in {"SW_WRONG_P1P2", "SW_WRONG_DATA_LENGTH"} : Respond(sw, ctx, NoResult)
     \/ tx.rawTxLength <= MAX_RAW_TX /\ EndTransactionChunk(m, tx, last)

\* The client continues its last transmission; ctx was wiped in the meantime if
\* the app answered one of its chunks, or another command, with an error.  If the
\* last transmission is of another kind, that one is over.
Continues(kind, data) ==
  LET sent == IF request.kind = kind THEN request ELSE [NoRequest EXCEPT !.kind = kind] IN
  /\ Orderly => request.kind = kind
  /\ Len(sent.data) + Len(data) <= MaxTransmission
  /\ request' = [sent EXCEPT !.data = @ \o data]

\* A handler takes memory for its own that holds something else.  Whether lengths
\* found there pass its checks, whether they parse, and what is then displayed, is
\* anything.
Misread(m, kind, last) ==
  \/ \E sw \in {"SW_WRONG_DATA_LENGTH", "SW_INCORRECT_DATA", "SW_NOT_SUPPORTED",
               "SW_CRYPTOGRAPHY_FAIL"} : Respond(sw, Mixed(kind), NoResult)
  \/ ~last /\ Respond("SW_OK", Mixed(kind), NoResult)
  \/ last /\ (AwaitDecision(m, Mixed(kind)) \/ AssertFails(Mixed(kind)))

\* rawTxLength is increased before it is checked.
HandleSignTransactionMore(m, data, last) ==
  LET isOwn == ctx.kind \in {"none", "tx"}
      base == IF ctx.kind = "tx" THEN ctx ELSE NewTransaction(NoPath, "LEGACY", <<>>)
      longer == [base EXCEPT !.rawTxLength = @ + DataLength(data)]
  IN
  /\ Receive(m)
  /\ Continues("tx", data)
  /\ \/ Respond("SW_WRONG_P1P2", ctx, NoResult)
     \/ ~isOwn /\ Misread(m, "tx", last)
     \/ /\ isOwn /\ longer.rawTxLength > MAX_RAW_TX
        /\ Respond("SW_WRONG_DATA_LENGTH", longer, NoResult)
     \/ /\ isOwn /\ longer.rawTxLength <= MAX_RAW_TX
        /\ EndTransactionChunk(m, [longer EXCEPT !.rawTx = @ \o data], last)

-----------------------------------------------------------------------------
(* INS_SIGN_MESSAGE *)

\* The display type a review starts with.
DefaultDisplayType(msg) ==
  IF msg.isPrintableAscii /\ msg.flags \cap DisplayFlags = {} THEN "ASCII"
  ELSE IF msg.messageLength <= MAX_PRINTABLE_MESSAGE_LENGTH /\ "PREFER_HASH" \notin msg.flags
  THEN "HEX"
  ELSE "HASH"

\* Faulty variants: the prefixed hash misses the data, only the last chunk decides
\* about the text display, or chunks are copied to the start of the buffer.
AddToMessageUnprefixed(msg, data) ==
  [msg EXCEPT
     !.printableMessage = @ \o data,
     !.messageHash = @ \o data,
     !.processedMessageLength = @ + DataLength(data)]
AddToMessageLastAscii(msg, data) ==
  [msg EXCEPT
     !.printableMessage = @ \o data,
     !.isPrintableAscii = \A i \in DOMAIN data : data[i] \in AsciiChunks,
     !.messageHash = @ \o data,
     !.prefixedMessageHash.data = @ \o data,
     !.processedMessageLength = @ + DataLength(data)]
AddToMessageAtStart(msg, data) ==
  [msg EXCEPT
     !.printableMessage = data,
     !.messageHash = @ \o data,
     !.prefixedMessageHash.data = @ \o data,
     !.processedMessageLength = @ + DataLength(data)]

\* The data of a chunk is copied for display, if the message fits, and hashed.
\* The length is a uint32_t, and so is the unsigned long it is checked with.
AddToMessage(msg, data) ==
  LET printable == msg.messageLength <= MAX_PRINTABLE_MESSAGE_LENGTH
      ascii == \A i \in DOMAIN data : data[i] \in AsciiChunks
  IN [msg EXCEPT
        !.printableMessage = IF printable THEN @ \o data ELSE @,
        !.isPrintableAscii = IF printable THEN @ /\ ascii ELSE @,
        !.messageHash = @ \o data,
        !.prefixedMessageHash.data = @ \o data,
        !.processedMessageLength = (@ + DataLength(data)) % UINT32_SIZE]

\* The part of handle_sign_message that P1_FIRST and P1_MORE share.
HandleMessageChunk(m, msg, data, last) ==
  LET added == AddToMessage(msg, data)
      complete == [added EXCEPT !.phase = "confirm", !.displayType = DefaultDisplayType(added)]
  IN
  \/ /\ added.processedMessageLength > msg.messageLength
     /\ Respond("SW_WRONG_DATA_LENGTH", msg, NoResult)
  \/ /\ added.processedMessageLength <= msg.messageLength
     /\ \/ (data # <<>> \/ last) /\ Respond("SW_CRYPTOGRAPHY_FAIL", added, NoResult)
        \/ ~last /\ Respond("SW_OK", added, NoResult)
        \/ /\ last
           /\ added.processedMessageLength # msg.messageLength
           /\ Respond("SW_WRONG_DATA_LENGTH", added, NoResult)
        \/ /\ last
           /\ added.processedMessageLength = msg.messageLength
           /\ AwaitDecision(m, complete)

HandleSignMessageFirst(m, path, flags, length, data, last) ==
  /\ Receive(m)
  /\ request' = [kind |-> "msg", path |-> path, length |-> length, data |-> data]
  /\ \/ \E sw \in {"SW_WRONG_P1P2", "SW_WRONG_DATA_LENGTH", "SW_CRYPTOGRAPHY_FAIL"} :
          Respond(sw, ctx, NoResult)
     \/ HandleMessageChunk(m, NewMessage(path, flags, length), data, last)

Preparing == ctx.kind = "msg" /\ ctx.phase = "prepare"

\* Whether a chunk is rejected before it is hashed.  In wiped memory the announced
\* length is 0, and the last chunk of a message completes it, so that each further
\* chunk is too long, unless the sum wraps.
IsTooLong(data) ==
  /\ data # <<>>
  /\ \/ ctx.kind = "none"
     \/ /\ ctx.kind = "msg"
        /\ (ctx.processedMessageLength + DataLength(data)) % UINT32_SIZE > ctx.messageLength

\* prepare and confirm share their memory: if no message is being prepared, the
\* hash contexts are not what is there.
HandleSignMessageMore(m, data, last) ==
  LET isNothing == data = <<>> /\ ~last /\ ~Preparing IN
  /\ Receive(m)
  /\ Orderly => Preparing \/ (data # <<>> /\ (ctx.kind = "msg" => IsTooLong(data)))
  /\ \/ isNothing /\ Respond("SW_OK", ctx, NoResult) /\ UNCHANGED request
     \/ /\ ~isNothing
        /\ Continues("msg", data)
        /\ \/ Respond("SW_WRONG_P1P2", ctx, NoResult)
           \/ Preparing /\ HandleMessageChunk(m, ctx, data, last)
           \/ ~Preparing /\ IsTooLong(data) /\ Respond("SW_WRONG_DATA_LENGTH", ctx, NoResult)
           \/ ~Preparing /\ ~IsTooLong(data) /\ Misread(m, "msg", last)

-----------------------------------------------------------------------------
(* INS_KEEP_ALIVE *)

\* Faulty variant: the heartbeat is not armed again.
HandleKeepAliveUnarmed(m) ==
  /\ Receive(m)
  /\ Orderly => interrupted /\ m = "U2F"
  /\ media' = m
  /\ reply' = NoReply
  /\ UNCHANGED <<running, screen, ctx, u2fTimer, interrupted, overtaken, request>>

\* The handler starts an async reply without looking at the screen or at ctx.
HandleKeepAlive(m) ==
  /\ Receive(m)
  /\ Orderly => interrupted /\ m = "U2F"
  /\ media' = m
  /\ u2fTimer' = U2F_REQUEST_TIMEOUT
  /\ reply' = NoReply
  /\ UNCHANGED <<running, screen, ctx, interrupted, overtaken, request>>

-----------------------------------------------------------------------------
(* Events while the app waits in io_exchange() *)

\* Faulty variant: the review stays on the screen after a reset.
ResetKeepingReview ==
  /\ ctx' = Zeroed
  /\ u2fTimer' = 0
  /\ media' = NONE
  /\ overtaken' = FALSE
  /\ UNCHANGED <<running, screen, interrupted, request>>

\* main() catches EXCEPTION_IO_RESET and INVALID_STATE and starts over.
Reset ==
  /\ ctx' = Zeroed
  /\ u2fTimer' = 0
  /\ screen' = Menu
  /\ media' = NONE
  /\ overtaken' = FALSE
  /\ UNCHANGED <<running, interrupted, request>>

\* Faulty variant: the review stays on the screen after its reply.
FinalizeKeepingReview(sw, c, result) ==
  /\ media # NONE
  /\ reply' = [sw |-> sw, result |-> IF sw = "SW_OK" THEN result ELSE NoResult]
  /\ ctx' = c
  /\ media' = NONE
  /\ UNCHANGED <<running, screen, u2fTimer, interrupted, overtaken, request>>

\* io_finalize_async_reply(), then the UI callback that leaves the review.  The
\* SDK throws INVALID_STATE if no command awaits a reply.
FinalizeAsyncReply(sw, c, result) ==
  \/ /\ media # NONE
     /\ reply' = [sw |-> sw, result |-> IF sw = "SW_OK" THEN result ELSE NoResult]
     /\ ctx' = c
     /\ media' = NONE
     /\ screen' = IF UI = "nbgl" THEN Status ELSE Menu
     /\ overtaken' = FALSE
     /\ UNCHANGED <<running, u2fTimer, interrupted, request>>
  \/ /\ media = NONE
     /\ Reset
     /\ UNCHANGED reply

\* Faulty variant: the reject button leaves the review but sends no reply.
OnRejectedSilently ==
  /\ running = "running" /\ InReview
  /\ screen' = Menu
  /\ UNCHANGED <<running, ctx, u2fTimer, media, interrupted, overtaken, reply, request>>

OnRejected ==
  /\ running = "running" /\ InReview
  /\ FinalizeAsyncReply("SW_DENY", ctx, NoResult)

OnAddressApproved ==
  /\ running = "running" /\ Reviewing("pk")
  /\ FinalizeAsyncReply("SW_OK", ctx, IF ctx.kind = "pk" THEN ctx ELSE Foreign("pk"))

\* Faulty variant: the app may derive from any path.
CanDeriveAny(path) == TRUE

\* Deriving a key can fail, and does for the empty path, which is not below the
\* path the app may derive from.
CanDerive(path) == path # NoPath

\* Faulty variant: the key is written into the proof before the proof is signed.
StakerSignatureOverKey(tx) == [key |-> tx.path, rawTx |-> tx.rawTx, stakerKey |-> <<tx.path>>]

StakerSignature(tx) == [key |-> tx.path, rawTx |-> tx.rawTx, stakerKey |-> tx.stakerKey]

\* A staker signature is created over the transaction as received and written
\* into it, then the staker's public key, then the transaction is signed.  Each
\* step can fail and leaves what the steps before it have written.
SignReviewedTransaction ==
  LET createsStakerSignature == ctx.parsed.proof = "empty"
      withSignature == [ctx EXCEPT !.stakerSignature = <<StakerSignature(ctx)>>]
      withProof == [withSignature EXCEPT !.stakerKey = <<ctx.path>>]
      signed == IF createsStakerSignature THEN withProof ELSE ctx
      result == [kind |-> "tx", key |-> ctx.path, rawTx |-> signed.rawTx,
                 stakerSignature |-> signed.stakerSignature,
                 stakerKey |-> signed.stakerKey,
                 returnsStakerSignature |-> createsStakerSignature]
  IN
  /\ CanDerive(ctx.path)
  /\ \/ /\ createsStakerSignature
        /\ \E c \in {withSignature, withProof} :
             FinalizeAsyncReply("SW_CRYPTOGRAPHY_FAIL", c, NoResult)
     \/ FinalizeAsyncReply("SW_OK", signed, result)

\* The same, with whatever is in ctx by now.  PARSED_TX is still that of the review
\* unless another kind of request was written over it: only if it holds a proof can
\* the memory the proof was in be overwritten.
SignOvertakenTransaction ==
  \/ /\ ctx.kind = "tx" /\ CanDerive(ctx.path)
     /\ FinalizeAsyncReply("SW_OK", ctx,
          [kind |-> "tx", key |-> ctx.path, rawTx |-> ctx.rawTx,
           stakerSignature |-> ctx.stakerSignature, stakerKey |-> ctx.stakerKey,
           returnsStakerSignature |-> FALSE])
  \/ /\ \/ ctx.kind \notin {"none", "tx"}
        \/ /\ ctx.kind = "tx" /\ CanDerive(ctx.path)
           /\ screen.shown.kind = "tx" => screen.shown.parsed.proof # "none"
     /\ \E c \in {ctx, Mixed("tx")}, sw \in {"SW_CRYPTOGRAPHY_FAIL", "SW_OK"} :
          FinalizeAsyncReply(sw, c, Foreign("tx"))

OnTransactionApproved ==
  /\ running = "running" /\ Reviewing("tx")
  /\ \/ FinalizeAsyncReply("SW_CRYPTOGRAPHY_FAIL", ctx, NoResult)
     \/ ~overtaken /\ SignReviewedTransaction
     \/ overtaken /\ SignOvertakenTransaction

\* Behind an overtaken review the memory of the prefixed hash may hold anything.
OnMessageApproved ==
  /\ running = "running" /\ Reviewing("msg")
  /\ \/ FinalizeAsyncReply("SW_CRYPTOGRAPHY_FAIL", ctx, NoResult)
     \/ /\ ~overtaken
        /\ FinalizeAsyncReply("SW_OK", ctx,
             [kind |-> "msg", key |-> ctx.path, over |-> ctx.prefixedMessageHash])
     \/ /\ overtaken /\ ctx.kind # "none"
        /\ FinalizeAsyncReply("SW_OK", ctx, Foreign("msg"))

\* Display type steps of the BAGL message flow, which relaunch the review.
SwitchMessageDisplay(displayType) ==
  /\ running = "running" /\ Reviewing("msg") /\ ~overtaken
  /\ UI = "bagl"
  /\ displayType # ctx.displayType
  /\ displayType = "ASCII" => ctx.isPrintableAscii
  /\ displayType = "HEX" => ctx.messageLength <= MAX_PRINTABLE_MESSAGE_LENGTH
  /\ ctx' = [ctx EXCEPT !.displayType = displayType]
  /\ screen' = Review(ctx')
  /\ UNCHANGED <<running, u2fTimer, media, interrupted, overtaken, reply, request>>

\* The steps of that flow print into the memory they display: behind an overtaken
\* review, into what is there by now.  Its length need not fit the buffer.
RedrawOvertaken ==
  /\ running = "running" /\ Reviewing("msg") /\ overtaken
  /\ UI = "bagl"
  /\ ctx' = Mixed("msg")
  /\ running' \in {"running", "asserted"}
  /\ UNCHANGED <<screen, u2fTimer, media, interrupted, overtaken, reply, request>>

\* The NBGL status page closes by itself or on touch.
DismissStatus ==
  /\ running = "running"
  /\ screen.view = "status"
  /\ screen' = Menu
  /\ UNCHANGED <<running, ctx, u2fTimer, media, interrupted, overtaken, reply, request>>

Quit ==
  /\ running = "running"
  /\ screen = Menu
  /\ running' = "quit"
  /\ UNCHANGED <<screen, ctx, u2fTimer, media, interrupted, overtaken, reply, request>>

\* SEPROXYHAL_TAG_TICKER_EVENT; at 0 u2f_send_keep_alive() answers the command.
Tick ==
  /\ running = "running"
  /\ media = "U2F"
  /\ u2fTimer > 0
  /\ u2fTimer' = (u2fTimer - TICK) % 2^16
  /\ IF u2fTimer' = 0
     THEN /\ reply' = [sw |-> "SW_KEEP_ALIVE", result |-> NoResult]
          /\ media' = NONE
          /\ interrupted' = TRUE
     ELSE UNCHANGED <<reply, media, interrupted>>
  /\ UNCHANGED <<running, screen, ctx, overtaken, request>>

\* SEPROXYHAL_TAG_STATUS_EVENT without USB power throws EXCEPTION_IO_RESET.
LoseUsbPower ==
  /\ running = "running"
  /\ media = "USB_HID"
  /\ Reset
  /\ UNCHANGED reply

-----------------------------------------------------------------------------
(* Specification *)

GetPublicKey ==
  \E m \in Media, path \in Paths, returnSignature, confirm \in BOOLEAN :
    HandleGetPublicKey(m, path, returnSignature, confirm)
SignTransaction ==
  \E m \in Media, data \in ApduData, last \in BOOLEAN :
    \/ \E path \in Paths, version \in TransactionVersions :
         HandleSignTransactionFirst(m, path, version, data, last)
    \/ HandleSignTransactionMore(m, data, last)
SignMessage ==
  \E m \in Media, data \in ApduData, last \in BOOLEAN :
    \/ \E path \in Paths, flags \in SUBSET DisplayFlags, length \in MessageLengths :
         HandleSignMessageFirst(m, path, flags, length, data, last)
    \/ HandleSignMessageMore(m, data, last)
RenewReply == \E m \in Media : HandleKeepAlive(m)
Unsupported == \E m \in Media : HandleUnsupported(m)
UserDecides == OnRejected \/ OnAddressApproved \/ OnTransactionApproved \/ OnMessageApproved
SwitchDisplay == \E type \in {"ASCII", "HEX", "HASH"} : SwitchMessageDisplay(type)

Next ==
  \/ GetPublicKey
  \/ SignTransaction
  \/ SignMessage
  \/ RenewReply
  \/ Unsupported
  \/ UserDecides
  \/ SwitchDisplay
  \/ RedrawOvertaken
  \/ DismissStatus
  \/ Quit
  \/ Tick
  \/ LoseUsbPower

Spec == Init /\ [][Next]_vars

-----------------------------------------------------------------------------
(* Safety *)

Displayed(type) == InReview /\ screen.shown.kind = type

\* The strings of a review point into ctx (globals.h), whose members share their
\* memory.  Nothing but a command that overtakes the review changes ctx behind it:
\* through heartbeats, renewals, failing calls and resets the review displays the
\* request that would be signed, and displays a new one when it replaces another.
ReviewShowsContext == InReview /\ ~overtaken => screen.shown = ctx

\* nimiq_main's wipe of ctx is what undoes the increment of rawTxLength that
\* handle_sign_transaction makes before its check: whenever the app waits for
\* a command, the raw transaction is within its buffer.
Fits(c) == c.kind = "tx" => c.rawTxLength <= MAX_RAW_TX
RawTransactionFits == Fits(ctx)

\* The length counters, the two hash contexts and the printable copy advance in
\* separate statements of handle_sign_transaction and handle_sign_message.  They
\* agree after every chunk, exactly for a message that is copied for display and up to
\* the width of the counter for others, whose checked sum can wrap with the counter, and a message is complete when its
\* hashes are final.
AccountsAgree ==
  /\ ctx.kind = "tx" => ctx.rawTxLength = TotalLength(ctx.rawTx)
  /\ ctx.kind = "msg" =>
       /\ ctx.processedMessageLength = TotalLength(ctx.messageHash) % UINT32_SIZE
       /\ ctx.processedMessageLength <= ctx.messageLength
       /\ ctx.prefixedMessageHash = [length |-> ctx.messageLength, data |-> ctx.messageHash]
       /\ ctx.messageLength <= MAX_PRINTABLE_MESSAGE_LENGTH =>
            /\ ctx.printableMessage = ctx.messageHash
            /\ ctx.processedMessageLength = TotalLength(ctx.messageHash)
       /\ ctx.phase = "confirm" => ctx.processedMessageLength = ctx.messageLength

\* A message is displayed as text only if every chunk of it is printable ASCII
\* and it fits the buffer, also after the user switched the display type; the
\* hex display is subject to the buffer only.
CanDisplay(msg) ==
  /\ msg.displayType \in {"ASCII", "HEX"} => msg.messageLength <= MAX_PRINTABLE_MESSAGE_LENGTH
  /\ msg.displayType = "ASCII" =>
       \A i \in DOMAIN msg.messageHash : msg.messageHash[i] \in AsciiChunks
DisplayTypeIsPossible == Displayed("msg") => CanDisplay(screen.shown)

\* What an SW_OK reply delivers was made with the key the client asked for and
\* covers everything the client sent since its last first chunk, even if the
\* client went on after the app had failed a chunk and wiped ctx.
Matches(result, req) ==
  /\ result.kind = "pk" => result.publicKey = req.path
  /\ result.kind = "tx" => result.key = req.path /\ result.rawTx = req.data
  /\ result.kind = "msg" =>
       /\ result.key = req.path
       /\ result.over = [length |-> req.length, data |-> req.data]
ResultMatchesRequest == Matches(reply.result, request)

\* The staker signature that on_transaction_approved creates covers the
\* transaction with the empty default proof, and the transaction signature the
\* transaction with the complete proof: the returned signature and the key of
\* the same account.
StakerProofIsConsistent ==
  LET result == reply.result IN
  result.kind = "tx" /\ result.returnsStakerSignature =>
    /\ result.stakerSignature =
         <<[key |-> result.key, rawTx |-> result.rawTx, stakerKey |-> <<>>]>>
    /\ result.stakerKey = <<result.key>>

\* A U2F command whose reply is outstanding has its heartbeat armed, no later
\* than U2F_REQUEST_TIMEOUT from now; the client would run into its timeout
\* otherwise.
HeartbeatArmed == media = "U2F" => u2fTimer \in 1..U2F_REQUEST_TIMEOUT

\* Whenever a reply is outstanding, a review is on the screen that will lead to
\* it: handle_keep_alive renews "an async reply [...] which can eventually be
\* resolved with the actual reply".
OutstandingReplyIsReviewed ==
  running = "running" /\ media # NONE => InReview

\* ui_transaction_signing: "This should not happen, as the transaction parser
\* should have set a valid transaction type."
NoAssertFails == running # "asserted"

\* Who can act when: a review is on the screen only while its reply is outstanding
\* or was interrupted, and no signature was delivered for it yet; only commands that
\* follow an interruption, or memory of two kinds, make it overtaken.
ReviewIsPending ==
  /\ InReview => media # NONE \/ interrupted
  /\ InReview => screen.shown.kind # "none" /\ reply.result.kind \notin {"tx", "msg", "foreign"}
  /\ InReview /\ screen.shown.kind = "mixed" => overtaken
  /\ overtaken => InReview
  /\ media # NONE => reply.result = NoResult

\* Where ctx stems from: memory that was written by a handler since the last
\* wipe belongs to the client's current transmission, and holds all of it unless
\* it has no path because the wipe came in the middle of the transmission.
BelongsTo(c, req) ==
  /\ c.kind \in {"pk", "tx", "msg"} => req.kind = c.kind
  /\ c.kind = "pk" => c.publicKey = req.path
  /\ c.kind = "tx" /\ c.path # NoPath => c.path = req.path /\ c.rawTx = req.data
  /\ c.kind = "msg" =>
       /\ c.path = req.path
       /\ c.messageLength = req.length
       /\ c.messageHash = req.data
       /\ c.prefixedMessageHash = [length |-> req.length, data |-> req.data]
       /\ c.messageLength <= MAX_PRINTABLE_MESSAGE_LENGTH =>
            c.printableMessage = req.data
       /\ c.isPrintableAscii =>
            /\ c.messageLength <= MAX_PRINTABLE_MESSAGE_LENGTH
            /\ \A i \in DOMAIN c.messageHash : c.messageHash[i] \in AsciiChunks
ContextIsOfRequest == BelongsTo(ctx, request)

\* The inductive invariant behind the safety properties.
IInv ==
  /\ TypeOK
  /\ ReviewShowsContext
  /\ ReviewIsPending
  /\ DisplayTypeIsPossible
  /\ ContextIsOfRequest
  /\ ResultMatchesRequest
  /\ RawTransactionFits

-----------------------------------------------------------------------------
(* Action properties *)

\* What a message review displays: the printable copy or the hash.
DisplayedData(msg) ==
  IF msg.displayType \in {"ASCII", "HEX"} THEN msg.printableMessage ELSE msg.messageHash

Delivers(kind) == reply' # reply /\ reply'.result.kind = kind

\* What a step delivers was displayed.
DeliversTheSeen ==
  /\ ~Delivers("foreign")
  /\ Delivers("tx") =>
       /\ Displayed("tx")
       /\ LET result == reply'.result
              tx == screen.shown
          IN /\ result.key = tx.path
             /\ result.rawTx = tx.rawTx
             /\ result.returnsStakerSignature <=> tx.parsed.proof = "empty"
             /\ tx.parsed.proof # "empty" => result.stakerKey = tx.stakerKey
  /\ Delivers("msg") =>
       /\ Displayed("msg")
       /\ reply'.result.key = screen.shown.path
       /\ reply'.result.over =
            [length |-> screen.shown.messageLength, data |-> DisplayedData(screen.shown)]

\* A signature is delivered only out of a review, and covers exactly the path
\* and the data the review displayed; for a transaction, up to the staker proof
\* that is filled in if and only if the review displayed an empty one.
WhatYouSeeIsWhatYouSign == [][DeliversTheSeen]_vars

-----------------------------------------------------------------------------
(* Liveness *)

\* The user eventually decides on a review.
FairSpec == Spec /\ WF_vars(UserDecides)

\* A request that went into review is eventually concluded with a reply, or with a
\* reset of the connection.
EveryReviewIsConcluded == media # NONE ~> media = NONE

\* The device delivers its ticks; the user may never decide.
TickingSpec == Spec /\ WF_vars(Tick)

\* An U2F client gets an answer, be it SW_KEEP_ALIVE, however long the user takes
\* and however often the client renewed its request: nothing but the end of the
\* program leaves a command waiting.
EveryU2FCommandIsAnswered ==
  media = "U2F" ~> (media # "U2F" \/ running # "running")

-----------------------------------------------------------------------------
(* The app implements UserConsent *)

\* What the review on the screen displays of a transaction or message.
ReviewedPayload ==
  IF Displayed("tx")
  THEN [kind |-> "tx", path |-> screen.shown.path, data |-> screen.shown.rawTx,
        createsStakerProof |-> screen.shown.parsed.proof = "empty"]
  ELSE IF Displayed("msg")
  THEN [kind |-> "msg", path |-> screen.shown.path, length |-> screen.shown.messageLength,
        data |-> DisplayedData(screen.shown)]
  ELSE IF InReview /\ screen.shown.kind = "mixed" THEN [kind |-> "mixed"]
  ELSE NoResult

\* What the signature in the last reply covers.
GrantedPayload ==
  LET result == reply.result IN
  IF result.kind = "tx"
  THEN [kind |-> "tx", path |-> result.key, data |-> result.rawTx,
        createsStakerProof |-> result.returnsStakerSignature]
  ELSE IF result.kind = "msg"
  THEN [kind |-> "msg", path |-> result.key, length |-> result.over.length,
        data |-> result.over.data]
  ELSE IF result \in {Foreign("tx"), Foreign("msg")} THEN [kind |-> "foreign"]
  ELSE NoResult

\* A review was overtaken, or memory of two kinds is left of one that was.
ReviewWasOvertaken == (overtaken /\ ReviewedPayload # NoResult) \/ ctx.kind = "mixed"

Consent == INSTANCE UserConsent WITH
  reviewed <- ReviewedPayload, granted <- GrantedPayload,
  overtaken <- ReviewWasOvertaken, None <- NoResult

\* The signatures the app delivers obey UserConsent: what is signed is what was
\* reviewed, once, whatever heartbeats, resets and failing calls come between,
\* unless the client sent another command behind the review.
ImplementsUserConsent == Consent!Spec
=============================================================================
