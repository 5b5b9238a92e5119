--------------------------- MODULE NimiqAppProofs ---------------------------
(***************************************************************************)
(* The inductive invariant of NimiqApp, proved action by action, and the   *)
(* safety properties it implies.  A command handler ends in one of three   *)
(* ways (Respond, AwaitDecision, AssertFails), each of which has a lemma;  *)
(* the lemma of a handler shows what it hands to them.  A decision of the  *)
(* user ends in FinalizeAsyncReply.                                        *)
(*                                                                         *)
(* Three parts are about properties that IInv does not imply.  The         *)
(* counters of a transmission agree with what was stored and hashed, up to *)
(* the width of the counters.  RInv is about replies: the heartbeat of a   *)
(* U2F command is armed as long as its reply is outstanding, since the     *)
(* timer is only ever decreased by whole ticks from a whole number of      *)
(* ticks, so that it is 0 before it could wrap; and the two signatures of  *)
(* a staking transaction fit, since the key goes into the transaction      *)
(* after the staker signature, which is created only for a proof nothing   *)
(* was written to.  Undisturbed is about orderly clients on transports     *)
(* without heartbeats: no command is handled behind a review, and a review *)
(* is on the screen as long as a reply is outstanding.                     *)
(*                                                                         *)
(* The last parts show that NimiqApp implements UserConsent, and signs     *)
(* only what it has displayed unless a command was handled behind the      *)
(* review.  Every step of the app maps to a step of UserConsent or to a    *)
(* stutter: display type switches and the status page are stutters, a      *)
(* command behind a review overtakes it, a reset withholds.                *)
(***************************************************************************)
EXTENDS NimiqApp, SumsProofs

(* The data field of an APDU is a sequence of chunks. *)
LEMMA ApduDataType ==
  ASSUME NEW data \in ApduData
  PROVE  data \in Seq(Chunks) /\ DataLength(data) \in Nat
<1>1. CASE data = <<>>
  BY <1>1 DEF DataLength
<1>2. CASE \E c \in Chunks : data = <<c>>
  <2>1. PICK c \in Chunks : data = <<c>>
    BY <1>2
  <2>2. ChunkLength[c] \in 1..255
    BY ChunkAssumption
  <2>3. data \in Seq(Chunks) /\ data # <<>> /\ data[1] = c
    BY <2>1
  <2>4. DataLength(data) = ChunkLength[c]
    BY <2>3, Zenon DEF DataLength
  <2>5. ChunkLength[c] \in Nat
    BY <2>2
  <2> QED BY <2>3, <2>4, <2>5, Zenon
<1> QED BY <1>1, <1>2 DEF ApduData

(* A transmission stays a sequence of chunks when a chunk is appended. *)
LEMMA AppendData ==
  ASSUME NEW s \in Seq(Chunks), NEW data \in Seq(Chunks)
  PROVE  s \o data \in Seq(Chunks)
OBVIOUS

(* The context a first transaction chunk creates is well-typed. *)
LEMMA NewTransactionType ==
  ASSUME NEW path \in Paths \cup {NoPath}, NEW version \in TransactionVersions,
         NEW data \in ApduData
  PROVE  NewTransaction(path, version, data) \in TxContext
BY ApduDataType DEF NewTransaction, TxContext, StakerSignatures, Unparsed, Proofs, NONE

(* The context a first message chunk creates is well-typed. *)
LEMMA NewMessageType ==
  ASSUME NEW path \in Paths, NEW flags \in SUBSET DisplayFlags, NEW length \in MessageLengths
  PROVE  NewMessage(path, flags, length) \in MsgContext
<1>1. length \in Nat /\ length \in Int
  BY ChunkAssumption
<1>2. (length <= MAX_PRINTABLE_MESSAGE_LENGTH) \in BOOLEAN
  BY <1>1, BufferAssumption
<1> QED BY <1>1, <1>2 DEF NewMessage, MsgContext, NONE

(* What adding a chunk to a message changes, and what it leaves alone. *)
LEMMA AddToMessageType ==
  ASSUME NEW msg \in MsgContext, NEW data \in ApduData
  PROVE  /\ AddToMessage(msg, data) \in MsgContext
         /\ AddToMessage(msg, data).kind = "msg"
         /\ AddToMessage(msg, data).path = msg.path
         /\ AddToMessage(msg, data).messageLength = msg.messageLength
         /\ AddToMessage(msg, data).displayType = msg.displayType
         /\ AddToMessage(msg, data).messageHash = msg.messageHash \o data
         /\ AddToMessage(msg, data).isPrintableAscii =>
              /\ msg.isPrintableAscii
              /\ msg.messageLength <= MAX_PRINTABLE_MESSAGE_LENGTH =>
                   \A i \in DOMAIN data : data[i] \in AsciiChunks
         /\ AddToMessage(msg, data).prefixedMessageHash =
              [length |-> msg.prefixedMessageHash.length,
               data |-> msg.prefixedMessageHash.data \o data]
         /\ msg.messageLength <= MAX_PRINTABLE_MESSAGE_LENGTH =>
              AddToMessage(msg, data).printableMessage = msg.printableMessage \o data
<1>1. data \in Seq(Chunks) /\ DataLength(data) \in Nat
  BY ApduDataType
<1>2. (msg.processedMessageLength + DataLength(data)) % UINT32_SIZE \in Nat
  <2>1. UINT32_SIZE \in Nat \ {0}
    BY ChunkAssumption
  <2>2. msg.processedMessageLength \in Nat
    BY DEF MsgContext
  <2> QED BY <1>1, <2>1, <2>2
<1>3. /\ msg.messageHash \o data \in Seq(Chunks)
      /\ msg.printableMessage \o data \in Seq(Chunks)
      /\ msg.prefixedMessageHash.data \o data \in Seq(Chunks)
  BY <1>1 DEF MsgContext
<1> QED BY <1>1, <1>2, <1>3 DEF AddToMessage, MsgContext

-----------------------------------------------------------------------------
(* The three ways a command ends *)

(* What an error replies and leaves behind is always possible. *)
LEMMA NothingIsPossible ==
  /\ Zeroed \in Contexts /\ NoResult \in Results
  /\ \A req : BelongsTo(Zeroed, req) /\ Matches(NoResult, req)
  /\ Fits(Zeroed)
BY DEF Zeroed, NoResult, Contexts, Results, BelongsTo, Matches, Fits

(* Nothing is claimed of memory that holds two kinds of requests. *)
LEMMA MixedIsPossible ==
  ASSUME NEW kind \in {"tx", "msg"}
  PROVE  /\ Mixed(kind) \in Contexts /\ Mixed(kind).kind = "mixed"
         /\ \A req : BelongsTo(Mixed(kind), req)
         /\ Fits(Mixed(kind))
BY DEF Mixed, Contexts, MixedContext, BelongsTo, Fits

(* A handler that answers at once preserves the invariant: an error wipes ctx,
   and with SW_OK what is left in ctx has to be of the request.  If it overtakes a
   review, it must not deliver a signature. *)
LEMMA RespondPreserves ==
  ASSUME IInv, NEW m \in Media, Receive(m),
         NEW sw \in SyncErrors \cup {"SW_OK"}, NEW c, NEW result, Respond(sw, c, result),
         request' \in Requests,
         sw = "SW_OK" => /\ c \in Contexts /\ BelongsTo(c, request') /\ Fits(c)
                         /\ result \in Results /\ Matches(result, request')
                         /\ result.kind \in {"none", "pk"}
  PROVE  IInv'
<1>1. TypeOK'
  <2>1. u2fTimer' \in 0..(2^16 - 1)
    BY TimeoutAssumption DEF Respond, TICK
  <2>2. overtaken' \in BOOLEAN
    BY DEF Respond, InReview
  <2> QED BY <2>1, <2>2 DEF IInv, TypeOK, Respond, Contexts, Results, StatusWords
<1>2. ReviewShowsContext' /\ DisplayTypeIsPossible'
  BY DEF IInv, Respond, ReviewShowsContext, InReview, DisplayTypeIsPossible, Displayed
<1>5. ReviewIsPending'
  <2>1. reply'.result.kind \in {"none", "pk"} /\ media' = NONE
    BY DEF Respond, Receive, NoResult
  <2> QED BY <2>1 DEF IInv, Respond, Receive, ReviewIsPending, InReview
<1>3. ContextIsOfRequest' /\ RawTransactionFits'
  BY DEF Respond, ContextIsOfRequest, BelongsTo, RawTransactionFits, Fits, Zeroed
<1>4. ResultMatchesRequest'
  BY DEF Respond, ResultMatchesRequest, Matches, NoResult
<1> QED BY <1>1, <1>2, <1>3, <1>4, <1>5 DEF IInv

(* A handler that launches a review preserves it if the context is of the
   request and the review can display it. *)
LEMMA AwaitDecisionPreserves ==
  ASSUME IInv, NEW m \in Media, Receive(m), NEW c \in Contexts, AwaitDecision(m, c),
         request' \in Requests, BelongsTo(c, request'), Fits(c), c.kind # "none",
         c.kind = "msg" => CanDisplay(c)
  PROVE  IInv'
<1>1. TypeOK'
  <2>1. u2fTimer' \in 0..(2^16 - 1)
    BY TimeoutAssumption DEF AwaitDecision, TICK
  <2>2. screen' \in [view : {"menu", "status", "review"}, shown : Contexts]
    BY DEF AwaitDecision, Review
  <2>3. reply' \in [sw : StatusWords \cup {NONE}, result : Results]
    BY DEF AwaitDecision, NoReply, Results
  <2>4. overtaken' \in BOOLEAN
    BY DEF AwaitDecision
  <2> QED BY <2>1, <2>2, <2>3, <2>4 DEF IInv, TypeOK, AwaitDecision
<1>2. ReviewShowsContext' /\ DisplayTypeIsPossible'
  BY DEF AwaitDecision, ReviewShowsContext, Review, DisplayTypeIsPossible, Displayed, CanDisplay
<1>3. ReviewIsPending'
  <2>1. m # NONE
    BY MediaAssumption DEF NONE
  <2>2. /\ screen'.view = "review" /\ screen'.shown = c /\ media' = m
        /\ c.kind = "mixed" => overtaken'
        /\ reply'.result = NoResult /\ NoResult.kind = "none"
    BY DEF AwaitDecision, Review, NoReply, NoResult
  <2>3. InReview'
    BY <2>2 DEF InReview
  <2> QED BY <2>1, <2>2, <2>3 DEF ReviewIsPending
<1>4. ContextIsOfRequest' /\ RawTransactionFits'
  BY DEF AwaitDecision, ContextIsOfRequest, RawTransactionFits
<1>5. ResultMatchesRequest'
  BY DEF AwaitDecision, ResultMatchesRequest, Matches, NoReply, NoResult
<1> QED BY <1>1, <1>2, <1>3, <1>4, <1>5 DEF IInv

(* A failing assertion ends the app in a state that satisfies it. *)
LEMMA AssertFailsPreserves ==
  ASSUME IInv, NEW m \in Media, Receive(m), NEW c \in Contexts, AssertFails(c),
         request' \in Requests, BelongsTo(c, request'), Fits(c)
  PROVE  IInv'
<1>1. TypeOK'
  <2>1. u2fTimer' \in 0..(2^16 - 1)
    BY TimeoutAssumption DEF AssertFails, TICK
  <2>2. reply' \in [sw : StatusWords \cup {NONE}, result : Results]
    BY DEF AssertFails, NoReply, Results
  <2>3. overtaken' \in BOOLEAN
    BY DEF AssertFails, InReview
  <2> QED BY <2>1, <2>2, <2>3 DEF IInv, TypeOK, AssertFails
<1>2. ReviewShowsContext' /\ ReviewIsPending' /\ DisplayTypeIsPossible'
  BY DEF IInv, AssertFails, Receive, ReviewShowsContext, ReviewIsPending, InReview, NoReply,
     NoResult, DisplayTypeIsPossible, Displayed
<1>3. ContextIsOfRequest' /\ RawTransactionFits'
  BY DEF AssertFails, ContextIsOfRequest, RawTransactionFits
<1>4. ResultMatchesRequest'
  BY DEF AssertFails, ResultMatchesRequest, Matches, NoReply, NoResult
<1> QED BY <1>1, <1>2, <1>3, <1>4 DEF IInv

-----------------------------------------------------------------------------
(* One lemma per command handler *)

(* An error wipes ctx, whatever the handler left in it. *)
LEMMA ErrorPreserves ==
  ASSUME IInv, NEW m \in Media, Receive(m), NEW sw \in SyncErrors, NEW c,
         Respond(sw, c, NoResult), request' \in Requests
  PROVE  IInv'
BY RespondPreserves DEF SyncErrors

(* A command that no handler is called for ends in an error. *)
LEMMA UnsupportedPreserves ==
  ASSUME IInv, NEW m \in Media, HandleUnsupported(m)
  PROVE  IInv'
<1>1. request' \in Requests
  BY DEF HandleUnsupported, IInv, TypeOK
<1> QED BY <1>1, ErrorPreserves DEF HandleUnsupported, SyncErrors

(* INS_GET_PUBLIC_KEY answers or reviews the address it was asked for. *)
LEMMA GetPublicKeyPreserves ==
  ASSUME IInv, NEW m \in Media, NEW path \in Paths,
         NEW returnSignature \in BOOLEAN, NEW confirm \in BOOLEAN,
         HandleGetPublicKey(m, path, returnSignature, confirm)
  PROVE  IInv'
<1> DEFINE pk == [kind |-> "pk", publicKey |-> path, returnSignature |-> returnSignature]
<1>1. Receive(m)
  BY DEF HandleGetPublicKey
<1>2. request' = [kind |-> "pk", path |-> path, length |-> 0, data |-> <<>>]
  BY DEF HandleGetPublicKey, NoRequest
<1>3. request' \in Requests
  BY <1>2 DEF Requests
<1>4. pk \in Contexts /\ pk \in Results /\ BelongsTo(pk, request') /\ Fits(pk)
      /\ Matches(pk, request')
  BY <1>2 DEF Contexts, Results, PkResult, PkContext, BelongsTo, Fits, Matches
<1>5. CASE \E sw \in SyncErrors : Respond(sw, ctx, NoResult)
  BY <1>1, <1>3, <1>5, ErrorPreserves
<1>6. CASE Respond("SW_OK", pk, pk)
  BY <1>1, <1>3, <1>4, <1>6, RespondPreserves
<1>7. CASE AwaitDecision(m, pk)
  BY <1>1, <1>3, <1>4, <1>7, AwaitDecisionPreserves
<1> QED BY <1>5, <1>6, <1>7 DEF HandleGetPublicKey, SyncErrors

(* The common end of a transaction chunk. *)
LEMMA EndTransactionChunkPreserves ==
  ASSUME IInv, NEW m \in Media, Receive(m), request' \in Requests,
         NEW tx \in TxContext, NEW last \in BOOLEAN, EndTransactionChunk(m, tx, last),
         BelongsTo(tx, request'), tx.rawTxLength <= MAX_RAW_TX
  PROVE  IInv'
<1>1. tx \in Contexts /\ tx.kind = "tx" /\ Fits(tx)
  BY DEF Contexts, TxContext, Fits
<1>2. CASE Respond("SW_OK", tx, NoResult)
  <2>1. NoResult \in Results /\ Matches(NoResult, request') /\ NoResult.kind = "none"
    BY NothingIsPossible DEF NoResult
  <2> QED BY <1>1, <1>2, <2>1, RespondPreserves
<1>3. CASE \E sw \in SyncErrors : Respond(sw, tx, NoResult)
  BY <1>3, ErrorPreserves
<1>4. ASSUME NEW parsed \in ParseResults(tx),
             AwaitDecision(m, [tx EXCEPT !.parsed = parsed])
             \/ AssertFails([tx EXCEPT !.parsed = parsed])
      PROVE  IInv'
  <2> DEFINE p == [tx EXCEPT !.parsed = parsed]
  <2>1. parsed \in [type : TransactionTypes \cup {NONE}, proof : Proofs]
    BY <1>4 DEF ParseResults, TransactionTypes, Proofs
  <2>2. p \in TxContext /\ p \in Contexts
    BY <2>1 DEF TxContext, Contexts
  <2>3. /\ p.kind = "tx" /\ p.path = tx.path /\ p.rawTx = tx.rawTx
        /\ p.rawTxLength = tx.rawTxLength
    BY <1>1 DEF TxContext
  <2>4. BelongsTo(p, request') /\ Fits(p)
    BY <1>1, <2>3 DEF BelongsTo, Fits
  <2> HIDE DEF p
  <2> QED BY <1>4, <2>2, <2>3, <2>4, AwaitDecisionPreserves, AssertFailsPreserves DEF p
<1> QED BY <1>2, <1>3, <1>4 DEF EndTransactionChunk, SyncErrors

(* The first chunk of a transaction starts a context of its own. *)
LEMMA SignTransactionFirstPreserves ==
  ASSUME IInv, NEW m \in Media, NEW path \in Paths, NEW version \in TransactionVersions,
         NEW data \in ApduData, NEW last \in BOOLEAN,
         HandleSignTransactionFirst(m, path, version, data, last)
  PROVE  IInv'
<1> DEFINE tx == NewTransaction(path, version, data)
<1>1. Receive(m)
  BY DEF HandleSignTransactionFirst
<1>2. request' = [kind |-> "tx", path |-> path, length |-> 0, data |-> data]
  BY DEF HandleSignTransactionFirst
<1>3. request' \in Requests
  BY <1>2, ApduDataType DEF Requests
<1>4. tx \in TxContext
  BY NewTransactionType
<1>5. BelongsTo(tx, request')
  BY <1>2 DEF BelongsTo, NewTransaction
<1>6. CASE \E sw \in SyncErrors : Respond(sw, ctx, NoResult)
  BY <1>1, <1>3, <1>6, ErrorPreserves
<1>7. CASE tx.rawTxLength <= MAX_RAW_TX /\ EndTransactionChunk(m, tx, last)
  BY <1>1, <1>3, <1>4, <1>5, <1>7, EndTransactionChunkPreserves
<1> QED BY <1>6, <1>7 DEF HandleSignTransactionFirst, SyncErrors

(* The client's record of a transmission it continues, or of one without a start. *)
LEMMA ContinuesType ==
  ASSUME IInv, NEW kind \in {"tx", "msg"}, NEW data \in ApduData, Continues(kind, data)
  PROVE  /\ request.kind = kind => request' = [request EXCEPT !.data = request.data \o data]
         /\ request'.kind = kind
         /\ request' \in Requests
<1> DEFINE sent == IF request.kind = kind THEN request ELSE [NoRequest EXCEPT !.kind = kind]
<1>1. request \in Requests /\ data \in Seq(Chunks)
  BY ApduDataType DEF IInv, TypeOK
<1>2. sent \in Requests /\ sent.kind = kind
  <2>1. CASE request.kind = kind
    BY <1>1, <2>1
  <2>2. CASE request.kind # kind
    <3>1. sent = [kind |-> kind, path |-> NoPath, length |-> 0, data |-> <<>>]
      BY <2>2 DEF NoRequest
    <3>2. kind \in {"none", "pk", "tx", "msg"} /\ <<>> \in Seq(Chunks)
      OBVIOUS
    <3> HIDE DEF sent
    <3> QED BY <3>1, <3>2 DEF Requests
  <2> QED BY <2>1, <2>2
<1>3. request' = [sent EXCEPT !.data = sent.data \o data]
  BY DEF Continues
<1>4. request.kind = kind => sent = request
  OBVIOUS
<1> HIDE DEF sent
<1>5. sent.data \o data \in Seq(Chunks)
  BY <1>1, <1>2 DEF Requests
<1> QED BY <1>2, <1>3, <1>4, <1>5 DEF Requests

(* A handler that misreads the memory of another request leaves mixed memory, and
   claims nothing of it. *)
LEMMA MisreadPreserves ==
  ASSUME IInv, NEW m \in Media, Receive(m), NEW kind \in {"tx", "msg"},
         NEW last \in BOOLEAN, Misread(m, kind, last), request' \in Requests
  PROVE  IInv'
<1> DEFINE c == Mixed(kind)
<1>1. /\ c \in Contexts /\ c.kind = "mixed" /\ BelongsTo(c, request') /\ Fits(c)
      /\ NoResult \in Results /\ Matches(NoResult, request') /\ NoResult.kind = "none"
  BY MixedIsPossible, NothingIsPossible DEF NoResult
<1> HIDE DEF c
<1>2. CASE \E sw \in SyncErrors : Respond(sw, c, NoResult)
  BY <1>2, ErrorPreserves
<1>3. CASE Respond("SW_OK", c, NoResult)
  BY <1>1, <1>3, RespondPreserves
<1>4. CASE AwaitDecision(m, c)
  BY <1>1, <1>4, AwaitDecisionPreserves
<1>5. CASE AssertFails(c)
  BY <1>1, <1>5, AssertFailsPreserves
<1> QED BY <1>2, <1>3, <1>4, <1>5 DEF Misread, SyncErrors, c

(* A further chunk of a transaction is added to both the context and the
   request, or ctx was wiped since and its path is the empty one. *)
LEMMA SignTransactionMorePreserves ==
  ASSUME IInv, NEW m \in Media, NEW data \in ApduData, NEW last \in BOOLEAN,
         HandleSignTransactionMore(m, data, last)
  PROVE  IInv'
<1> DEFINE base == IF ctx.kind = "tx" THEN ctx ELSE NewTransaction(NoPath, "LEGACY", <<>>)
           longer == [base EXCEPT !.rawTxLength = @ + DataLength(data)]
           tx == [longer EXCEPT !.rawTx = @ \o data]
<1>1. Receive(m) /\ Continues("tx", data)
  BY DEF HandleSignTransactionMore
<1>2. /\ request.kind = "tx" => request' = [request EXCEPT !.data = request.data \o data]
      /\ request'.kind = "tx"
      /\ request' \in Requests
      /\ request \in Requests
  BY <1>1, ContinuesType DEF IInv, TypeOK
<1>3. data \in Seq(Chunks) /\ DataLength(data) \in Nat
  BY ApduDataType
<1>4. base \in TxContext /\ base.kind = "tx"
  <2>1. CASE ctx.kind = "tx"
    <3>1. ctx \in Contexts
      BY DEF IInv, TypeOK
    <3> QED BY <2>1, <3>1 DEF Contexts, Zeroed, PkContext, MsgContext, MixedContext, Mixed
  <2>2. CASE ctx.kind # "tx"
    <3>1. <<>> \in ApduData /\ "LEGACY" \in TransactionVersions
      BY DEF ApduData, TransactionVersions
    <3>2. base = NewTransaction(NoPath, "LEGACY", <<>>)
      BY <2>2
    <3>3. base \in TxContext
      BY <3>1, <3>2, NewTransactionType
    <3> QED BY <3>2, <3>3 DEF NewTransaction
  <2> QED BY <2>1, <2>2
<1>5. base.path # NoPath =>
        request.kind = "tx" /\ base.path = request.path /\ base.rawTx = request.data
  BY DEF IInv, ContextIsOfRequest, BelongsTo, NewTransaction
<1> HIDE DEF base
<1>6. base.rawTx \o data \in Seq(Chunks) /\ base.rawTxLength + DataLength(data) \in Nat
  BY <1>3, <1>4 DEF TxContext
<1>7. /\ longer.rawTxLength = base.rawTxLength + DataLength(data)
      /\ tx.rawTxLength = base.rawTxLength + DataLength(data)
      /\ tx.rawTx = base.rawTx \o data
      /\ tx.kind = "tx" /\ tx.path = base.path
  BY <1>4 DEF TxContext
<1>8. tx \in TxContext
  BY <1>4, <1>6 DEF TxContext
<1>9. BelongsTo(tx, request')
  BY <1>2, <1>5, <1>7 DEF BelongsTo, Requests
<1>10. CASE \E sw \in SyncErrors, c \in {ctx, longer} : Respond(sw, c, NoResult)
  BY <1>1, <1>2, <1>10, ErrorPreserves
<1>11. CASE longer.rawTxLength <= MAX_RAW_TX /\ EndTransactionChunk(m, tx, last)
  BY <1>1, <1>2, <1>7, <1>8, <1>9, <1>11, EndTransactionChunkPreserves
<1>12. CASE Misread(m, "tx", last)
  BY <1>1, <1>2, <1>12, MisreadPreserves
<1> QED BY <1>10, <1>11, <1>12 DEF HandleSignTransactionMore, SyncErrors, base

(* Adding a chunk to the message and to the request keeps them the same. *)
LEMMA AddToMessageBelongs ==
  ASSUME NEW msg \in MsgContext, NEW req \in Requests, NEW next, NEW data \in ApduData,
         BelongsTo(msg, req), next = [req EXCEPT !.data = req.data \o data]
  PROVE  BelongsTo(AddToMessage(msg, data), next)
<1> DEFINE added == AddToMessage(msg, data)
<1>1. /\ msg.kind = "msg" /\ req.kind = "msg"
      /\ msg.path = req.path /\ msg.messageLength = req.length
      /\ msg.messageHash = req.data
      /\ msg.prefixedMessageHash = [length |-> req.length, data |-> req.data]
  BY DEF BelongsTo, MsgContext
<1>2. /\ next.kind = "msg" /\ next.path = req.path /\ next.length = req.length
      /\ next.data = req.data \o data
  BY <1>1 DEF Requests
<1>3. /\ added.kind = "msg" /\ added.path = next.path
      /\ added.messageLength = next.length
      /\ added.messageHash = next.data
  BY <1>1, <1>2, AddToMessageType
<1>4. added.prefixedMessageHash = [length |-> next.length, data |-> next.data]
  <2>1. added.prefixedMessageHash = [length |-> msg.prefixedMessageHash.length,
                                     data |-> msg.prefixedMessageHash.data \o data]
    BY AddToMessageType
  <2>2. msg.prefixedMessageHash.length = req.length /\ msg.prefixedMessageHash.data = req.data
    BY <1>1
  <2> QED BY <1>2, <2>1, <2>2
<1>5. added.messageLength <= MAX_PRINTABLE_MESSAGE_LENGTH => added.printableMessage = next.data
  <2>1. msg.messageLength <= MAX_PRINTABLE_MESSAGE_LENGTH => msg.printableMessage = req.data
    BY <1>1, Zenon DEF BelongsTo
  <2>2. /\ added.messageLength = msg.messageLength
        /\ msg.messageLength <= MAX_PRINTABLE_MESSAGE_LENGTH =>
             added.printableMessage = msg.printableMessage \o data
    BY AddToMessageType, Zenon
  <2> HIDE DEF added
  <2> QED BY <1>2, <2>1, <2>2, Zenon
<1>6. ASSUME added.isPrintableAscii
      PROVE  /\ msg.isPrintableAscii
             /\ added.messageLength <= MAX_PRINTABLE_MESSAGE_LENGTH
             /\ \A i \in DOMAIN added.messageHash : added.messageHash[i] \in AsciiChunks
  <2>1. msg.isPrintableAscii /\ msg.messageLength <= MAX_PRINTABLE_MESSAGE_LENGTH
    BY <1>1, <1>6, AddToMessageType DEF BelongsTo
  <2>2. /\ \A i \in DOMAIN msg.messageHash : msg.messageHash[i] \in AsciiChunks
        /\ \A i \in DOMAIN data : data[i] \in AsciiChunks
    BY <1>1, <1>6, <2>1, AddToMessageType DEF BelongsTo
  <2>3. msg.messageHash \in Seq(Chunks) /\ data \in Seq(Chunks)
    BY ApduDataType DEF MsgContext
  <2>4. \A i \in DOMAIN (msg.messageHash \o data) :
          (msg.messageHash \o data)[i] \in AsciiChunks
    BY <2>2, <2>3
  <2>5. added.messageHash = msg.messageHash \o data /\ added.messageLength = msg.messageLength
    BY AddToMessageType
  <2> QED BY <2>1, <2>4, <2>5
<1> HIDE DEF added
<1> QED BY <1>2, <1>3, <1>4, <1>5, <1>6 DEF BelongsTo, added

(* A message that is complete is displayed in a way that it allows. *)
LEMMA MessageChunkPreserves ==
  ASSUME IInv, NEW m \in Media, Receive(m), request' \in Requests,
         NEW msg \in MsgContext, NEW data \in ApduData, NEW last \in BOOLEAN,
         HandleMessageChunk(m, msg, data, last),
         BelongsTo(AddToMessage(msg, data), request')
  PROVE  IInv'
<1> DEFINE added == AddToMessage(msg, data)
           type == DefaultDisplayType(added)
           complete == [added EXCEPT !.phase = "confirm", !.displayType = type]
<1>1. added \in MsgContext /\ added.kind = "msg" /\ BelongsTo(added, request')
  BY AddToMessageType
<1>2. /\ type \in {"ASCII", "HEX", "HASH"}
      /\ type = "ASCII" => added.isPrintableAscii
      /\ type = "HEX" => added.messageLength <= MAX_PRINTABLE_MESSAGE_LENGTH
  BY DEF DefaultDisplayType
<1> HIDE DEF added, type
<1>3. /\ complete \in MsgContext /\ complete.kind = "msg"
      /\ complete = [added EXCEPT !.phase = "confirm", !.displayType = type]
  BY <1>1, <1>2 DEF MsgContext
<1>4. BelongsTo(complete, request')
  BY <1>1, <1>3 DEF BelongsTo, MsgContext
<1>5. CanDisplay(complete)
  BY <1>1, <1>2, <1>3 DEF BelongsTo, CanDisplay, MsgContext
<1> HIDE DEF complete
<1>6. CASE \E sw \in SyncErrors, c \in {msg, added} : Respond(sw, c, NoResult)
  BY <1>6, ErrorPreserves
<1>7. CASE Respond("SW_OK", added, NoResult)
  <2>1. added \in Contexts /\ Fits(added)
    BY <1>1 DEF Contexts, Fits
  <2>2. NoResult \in Results /\ Matches(NoResult, request') /\ NoResult.kind = "none"
    BY NothingIsPossible DEF NoResult
  <2> QED BY <1>1, <1>7, <2>1, <2>2, RespondPreserves
<1>8. CASE AwaitDecision(m, complete)
  <2>1. complete \in Contexts /\ Fits(complete) /\ complete.kind # "none"
    BY <1>3 DEF Contexts, Fits
  <2> QED BY <1>4, <1>5, <1>8, <2>1, AwaitDecisionPreserves
<1> QED BY <1>6, <1>7, <1>8 DEF HandleMessageChunk, SyncErrors, added, complete, type

(* The first chunk of a message starts a context of its own. *)
LEMMA SignMessageFirstPreserves ==
  ASSUME IInv, NEW m \in Media, NEW path \in Paths, NEW flags \in SUBSET DisplayFlags,
         NEW length \in MessageLengths, NEW data \in ApduData, NEW last \in BOOLEAN,
         HandleSignMessageFirst(m, path, flags, length, data, last)
  PROVE  IInv'
<1> DEFINE msg == NewMessage(path, flags, length)
           empty == [kind |-> "msg", path |-> path, length |-> length, data |-> <<>>]
<1>1. Receive(m)
  BY DEF HandleSignMessageFirst
<1>2. request' = [kind |-> "msg", path |-> path, length |-> length, data |-> data]
  BY DEF HandleSignMessageFirst
<1>3. length \in Nat /\ data \in Seq(Chunks)
  BY ApduDataType, ChunkAssumption
<1>4. request' \in Requests /\ empty \in Requests
  BY <1>2, <1>3 DEF Requests
<1>5. msg \in MsgContext
  BY NewMessageType
<1>6. BelongsTo(msg, empty)
  <2>2. /\ msg.kind = "msg" /\ msg.path = path /\ msg.messageLength = length
        /\ msg.messageHash = <<>> /\ msg.printableMessage = <<>>
        /\ msg.prefixedMessageHash = [length |-> length, data |-> <<>>]
        /\ msg.isPrintableAscii => length <= MAX_PRINTABLE_MESSAGE_LENGTH
    BY DEF NewMessage
  <2>3. \A i \in DOMAIN msg.messageHash : msg.messageHash[i] \in AsciiChunks
    BY <2>2
  <2>4. empty.kind = "msg" /\ empty.path = path /\ empty.length = length /\ empty.data = <<>>
    OBVIOUS
  <2> HIDE DEF msg, empty
  <2> QED BY <2>2, <2>3, <2>4 DEF BelongsTo
<1>7. request' = [empty EXCEPT !.data = empty.data \o data]
  BY <1>2, <1>3
<1>8. BelongsTo(AddToMessage(msg, data), request')
  BY <1>4, <1>5, <1>6, <1>7, AddToMessageBelongs
<1>9. CASE \E sw \in SyncErrors : Respond(sw, ctx, NoResult)
  BY <1>1, <1>4, <1>9, ErrorPreserves
<1>10. CASE HandleMessageChunk(m, msg, data, last)
  BY <1>1, <1>4, <1>5, <1>8, <1>10, MessageChunkPreserves
<1> QED BY <1>9, <1>10 DEF HandleSignMessageFirst, SyncErrors

(* A further chunk of a message is added to both the context and the request. *)
LEMMA SignMessageMorePreserves ==
  ASSUME IInv, NEW m \in Media, NEW data \in ApduData, NEW last \in BOOLEAN,
         HandleSignMessageMore(m, data, last)
  PROVE  IInv'
<1>1. Receive(m)
  BY DEF HandleSignMessageMore
<1>2. CASE Respond("SW_OK", ctx, NoResult) /\ UNCHANGED request
  <2>1. /\ ctx \in Contexts /\ BelongsTo(ctx, request') /\ Fits(ctx)
        /\ NoResult \in Results /\ Matches(NoResult, request') /\ NoResult.kind = "none"
        /\ request' \in Requests
    BY <1>2, NothingIsPossible DEF IInv, TypeOK, ContextIsOfRequest, RawTransactionFits, NoResult
  <2> QED BY <1>1, <1>2, <2>1, RespondPreserves
<1>3. ASSUME Continues("msg", data),
             \/ \E sw \in SyncErrors : Respond(sw, ctx, NoResult)
             \/ Preparing /\ HandleMessageChunk(m, ctx, data, last)
             \/ Misread(m, "msg", last)
      PROVE  IInv'
  <2>1. /\ request.kind = "msg" => request' = [request EXCEPT !.data = request.data \o data]
        /\ request' \in Requests /\ request \in Requests
    BY <1>3, ContinuesType DEF IInv, TypeOK
  <2>2. CASE \E sw \in SyncErrors : Respond(sw, ctx, NoResult)
    BY <1>1, <2>1, <2>2, ErrorPreserves
  <2>3. CASE Preparing /\ HandleMessageChunk(m, ctx, data, last)
    <3>1. ctx \in MsgContext
      BY <2>3 DEF Preparing, IInv, TypeOK, Contexts, Zeroed, PkContext, TxContext, MixedContext,
         Mixed
    <3>2. BelongsTo(ctx, request) /\ request.kind = "msg"
      BY <2>3 DEF Preparing, IInv, ContextIsOfRequest, BelongsTo
    <3>3. BelongsTo(AddToMessage(ctx, data), request')
      BY <2>1, <3>1, <3>2, AddToMessageBelongs
    <3> QED BY <1>1, <2>1, <2>3, <3>1, <3>3, MessageChunkPreserves
  <2>4. CASE Misread(m, "msg", last)
    BY <1>1, <2>1, <2>4, MisreadPreserves
  <2> QED BY <1>3, <2>2, <2>3, <2>4
<1> QED BY <1>2, <1>3 DEF HandleSignMessageMore, SyncErrors

-----------------------------------------------------------------------------
(* Events *)

(* A reset leaves nothing of the request behind. *)
LEMMA ResetPreserves ==
  ASSUME IInv, Reset, UNCHANGED reply
  PROVE  IInv'
<1>1. TypeOK'
  <2>1. u2fTimer' \in 0..(2^16 - 1)
    BY DEF Reset
  <2>2. ctx' \in Contexts /\ screen' \in [view : {"menu", "status", "review"}, shown : Contexts]
    BY DEF Reset, Menu, Contexts
  <2> QED BY <2>1, <2>2 DEF IInv, TypeOK, Reset
<1>2. ReviewShowsContext' /\ DisplayTypeIsPossible'
  BY DEF Reset, Menu, ReviewShowsContext, InReview, DisplayTypeIsPossible, Displayed
<1>5. ReviewIsPending'
  BY DEF Reset, Menu, InReview, ReviewIsPending
<1>3. ContextIsOfRequest' /\ RawTransactionFits'
  BY DEF Reset, ContextIsOfRequest, BelongsTo, RawTransactionFits, Fits, Zeroed
<1>4. ResultMatchesRequest'
  BY DEF IInv, Reset, ResultMatchesRequest
<1> QED BY <1>1, <1>2, <1>3, <1>4, <1>5 DEF IInv

(* The keep-alive handler leaves everything but the reply as it is. *)
LEMMA KeepAlivePreserves ==
  ASSUME IInv, NEW m \in Media, HandleKeepAlive(m)
  PROVE  IInv'
<1>1. TypeOK'
  <2>1. u2fTimer' \in 0..(2^16 - 1)
    BY TimeoutAssumption DEF HandleKeepAlive, TICK
  <2>2. reply' \in [sw : StatusWords \cup {NONE}, result : Results]
    BY DEF HandleKeepAlive, NoReply, Results
  <2> QED BY <2>1, <2>2 DEF IInv, TypeOK, HandleKeepAlive
<1>2. ReviewShowsContext' /\ ReviewIsPending' /\ DisplayTypeIsPossible'
  BY MediaAssumption DEF IInv, HandleKeepAlive, Receive, NoReply, NoResult, NONE,
     ReviewShowsContext, ReviewIsPending, InReview, DisplayTypeIsPossible, Displayed
<1>3. ContextIsOfRequest' /\ RawTransactionFits'
  BY DEF IInv, HandleKeepAlive, ContextIsOfRequest, RawTransactionFits
<1>4. ResultMatchesRequest'
  BY DEF HandleKeepAlive, NoReply, NoResult, ResultMatchesRequest, Matches
<1> QED BY <1>1, <1>2, <1>3, <1>4 DEF IInv

(* A decision of the user: its reply is delivered, or there is a reset. *)
LEMMA FinalizePreserves ==
  ASSUME IInv, NEW sw \in {"SW_OK", "SW_DENY", "SW_CRYPTOGRAPHY_FAIL"},
         NEW c \in Contexts, NEW result, FinalizeAsyncReply(sw, c, result),
         BelongsTo(c, request), Fits(c),
         sw = "SW_OK" => result \in Results /\ Matches(result, request)
  PROVE  IInv'
<1> DEFINE Delivered == /\ media # NONE
                        /\ reply' = [sw |-> sw,
                                     result |-> IF sw = "SW_OK" THEN result ELSE NoResult]
                        /\ ctx' = c
                        /\ media' = NONE
                        /\ screen' = IF UI = "nbgl" THEN Status ELSE Menu
                        /\ overtaken' = FALSE
                        /\ UNCHANGED <<running, u2fTimer, interrupted, request>>
<1>1. CASE Delivered
  <2>1. TypeOK'
    <3>1. reply' \in [sw : StatusWords \cup {NONE}, result : Results]
      BY <1>1 DEF StatusWords, SyncErrors, Results
    <3>2. screen' \in [view : {"menu", "status", "review"}, shown : Contexts]
      BY <1>1 DEF Menu, Status, Contexts
    <3> QED BY <1>1, <3>1, <3>2 DEF IInv, TypeOK
  <2>2. ReviewShowsContext' /\ DisplayTypeIsPossible'
    BY <1>1 DEF Menu, Status, ReviewShowsContext, InReview, DisplayTypeIsPossible, Displayed
  <2>3. ReviewIsPending'
    BY <1>1 DEF IInv, Menu, Status, ReviewIsPending, InReview
  <2>4. ContextIsOfRequest' /\ RawTransactionFits'
    BY <1>1 DEF ContextIsOfRequest, RawTransactionFits
  <2>5. ResultMatchesRequest'
    BY <1>1 DEF ResultMatchesRequest, Matches, NoResult
  <2> QED BY <2>1, <2>2, <2>3, <2>4, <2>5 DEF IInv
<1>2. CASE Reset /\ UNCHANGED reply
  BY <1>2, ResetPreserves
<1> QED BY <1>1, <1>2 DEF FinalizeAsyncReply

(* What IInv says of ctx: it is of the request, and it is what is displayed unless
   the review was overtaken. *)
LEMMA ReviewedContext ==
  ASSUME IInv
  PROVE  /\ InReview /\ ~overtaken => ctx = screen.shown
         /\ ctx \in Contexts
         /\ BelongsTo(ctx, request)
         /\ Fits(ctx)
BY DEF IInv, TypeOK, ReviewShowsContext, ContextIsOfRequest, RawTransactionFits

(* An undisturbed review is about the kind of request that is in ctx. *)
LEMMA ReviewingKind ==
  ASSUME IInv, NEW kind \in {"pk", "tx", "msg"}, Reviewing(kind), ~overtaken
  PROVE  InReview /\ ctx = screen.shown /\ ctx.kind = kind
BY DEF IInv, Reviewing, ReviewShowsContext, ReviewIsPending, Mixed

(* Rejecting delivers no result. *)
LEMMA RejectedPreserves ==
  ASSUME IInv, OnRejected
  PROVE  IInv'
BY ReviewedContext, FinalizePreserves DEF OnRejected

(* The address handed out is the one that was requested last, or nothing is claimed
   of it. *)
LEMMA AddressApprovedPreserves ==
  ASSUME IInv, OnAddressApproved
  PROVE  IInv'
<1> DEFINE result == IF ctx.kind = "pk" THEN ctx ELSE Foreign("pk")
<1>1. ctx \in Contexts /\ BelongsTo(ctx, request) /\ Fits(ctx)
  BY ReviewedContext
<1>2. result \in Results /\ Matches(result, request)
  <2>1. CASE ctx.kind = "pk"
    <3>1. ctx \in PkContext
      BY <1>1, <2>1 DEF Contexts, Zeroed, TxContext, MsgContext, MixedContext, Mixed
    <3> QED BY <1>1, <2>1, <3>1 DEF Results, PkResult, Matches, BelongsTo
  <2>2. CASE ctx.kind # "pk"
    BY <2>2 DEF Results, ForeignResult, Foreign, Matches
  <2> QED BY <2>1, <2>2
<1> HIDE DEF result
<1>3. FinalizeAsyncReply("SW_OK", ctx, result)
  BY DEF OnAddressApproved, result
<1> QED BY <1>1, <1>2, <1>3, FinalizePreserves

(* Whether or not a staker proof was filled in, and however far that went, the
   transaction is the requested one but for the proof. *)
LEMMA SignReviewedPreserves ==
  ASSUME IInv, ctx.kind = "tx", SignReviewedTransaction
  PROVE  IInv'
<1> DEFINE creates == ctx.parsed.proof = "empty"
           withSignature == [ctx EXCEPT !.stakerSignature = <<StakerSignature(ctx)>>]
           withProof == [withSignature EXCEPT !.stakerKey = <<ctx.path>>]
           signed == IF creates THEN withProof ELSE ctx
           result == [kind |-> "tx", key |-> ctx.path, rawTx |-> signed.rawTx,
                      stakerSignature |-> signed.stakerSignature,
                      stakerKey |-> signed.stakerKey,
                      returnsStakerSignature |-> creates]
<1>1. /\ ctx.kind = "tx" /\ ctx \in Contexts
      /\ BelongsTo(ctx, request) /\ Fits(ctx)
  BY ReviewedContext
<1>2. ctx \in TxContext
  BY <1>1 DEF Contexts, Zeroed, PkContext, MsgContext, MixedContext, Mixed
<1>3. StakerSignature(ctx) \in
        [key : Paths \cup {NoPath}, rawTx : Seq(Chunks), stakerKey : Seq(Paths \cup {NoPath})]
  BY <1>2 DEF StakerSignature, TxContext
<1>4. <<StakerSignature(ctx)>> \in StakerSignatures /\ <<ctx.path>> \in Seq(Paths \cup {NoPath})
  <2>1. ctx.path \in Paths \cup {NoPath}
    BY <1>2 DEF TxContext
  <2> QED BY <1>3, <2>1 DEF StakerSignatures
<1>5. ASSUME NEW c \in {ctx, withSignature, withProof, signed}
      PROVE  /\ c \in TxContext /\ c \in Contexts
             /\ c.kind = "tx" /\ c.path = ctx.path /\ c.rawTx = ctx.rawTx
             /\ c.rawTxLength = ctx.rawTxLength
             /\ BelongsTo(c, request) /\ Fits(c)
  <2>1. withSignature \in TxContext /\ withProof \in TxContext /\ signed \in TxContext
    BY <1>2, <1>4 DEF TxContext
  <2>2. /\ c.kind = "tx" /\ c.path = ctx.path /\ c.rawTx = ctx.rawTx
        /\ c.rawTxLength = ctx.rawTxLength
    BY <1>1, <1>2 DEF TxContext
  <2>3. c \in TxContext /\ c \in Contexts
    BY <1>2, <2>1 DEF Contexts
  <2>4. BelongsTo(c, request) /\ Fits(c)
    BY <1>1, <2>2 DEF BelongsTo, Fits
  <2> QED BY <2>2, <2>3, <2>4
<1>6. CanDerive(ctx.path) => result \in Results /\ Matches(result, request)
  <2>1. SUFFICES ASSUME ctx.path # NoPath
                 PROVE  result \in Results /\ Matches(result, request)
    BY DEF CanDerive
  <2>2. ctx.path \in Paths /\ ctx.path = request.path /\ ctx.rawTx = request.data
    BY <1>1, <1>2, <2>1 DEF TxContext, BelongsTo
  <2>3. signed \in TxContext /\ signed.rawTx = ctx.rawTx
    BY <1>5
  <2>4. /\ result.kind = "tx" /\ result.key = ctx.path /\ result.rawTx = signed.rawTx
    OBVIOUS
  <2>5. result \in TxResult
    BY <2>2, <2>3 DEF TxResult, TxContext
  <2> QED BY <2>2, <2>3, <2>4, <2>5 DEF Results, Matches
<1> HIDE DEF withSignature, withProof, signed, result, creates
<1>7. CASE \E c \in {withSignature, withProof} :
             FinalizeAsyncReply("SW_CRYPTOGRAPHY_FAIL", c, NoResult)
  BY <1>5, <1>7, FinalizePreserves
<1>8. CASE CanDerive(ctx.path) /\ FinalizeAsyncReply("SW_OK", signed, result)
  BY <1>5, <1>6, <1>8, FinalizePreserves
<1> QED BY <1>7, <1>8 DEF SignReviewedTransaction, withSignature, withProof, signed, result, creates

(* An overtaken review signs the request that is in ctx by now, or nothing is claimed
   of what it signs. *)
LEMMA SignOvertakenPreserves ==
  ASSUME IInv, SignOvertakenTransaction
  PROVE  IInv'
<1> DEFINE result == [kind |-> "tx", key |-> ctx.path, rawTx |-> ctx.rawTx,
                      stakerSignature |-> ctx.stakerSignature, stakerKey |-> ctx.stakerKey,
                      returnsStakerSignature |-> FALSE]
<1>1. ctx \in Contexts /\ BelongsTo(ctx, request) /\ Fits(ctx)
  BY ReviewedContext
<1>2. CASE ctx.kind = "tx" /\ CanDerive(ctx.path) /\ FinalizeAsyncReply("SW_OK", ctx, result)
  <2>1. ctx \in TxContext
    BY <1>1, <1>2 DEF Contexts, Zeroed, PkContext, MsgContext, MixedContext, Mixed
  <2>2. ctx.path \in Paths /\ ctx.path = request.path /\ ctx.rawTx = request.data
    BY <1>1, <1>2, <2>1 DEF CanDerive, TxContext, BelongsTo
  <2>3. result \in TxResult
    BY <2>1, <2>2 DEF TxResult, TxContext
  <2>4. result \in Results /\ Matches(result, request)
    BY <2>2, <2>3 DEF Results, Matches
  <2> HIDE DEF result
  <2> QED BY <1>1, <1>2, <2>4, FinalizePreserves
<1>3. ASSUME NEW c \in {ctx, Mixed("tx")}, NEW sw \in {"SW_CRYPTOGRAPHY_FAIL", "SW_OK"},
             FinalizeAsyncReply(sw, c, Foreign("tx"))
      PROVE  IInv'
  <2>1. c \in Contexts /\ BelongsTo(c, request) /\ Fits(c)
    BY <1>1, <1>3, MixedIsPossible
  <2>2. Foreign("tx") \in Results /\ Matches(Foreign("tx"), request)
    BY DEF Results, ForeignResult, Foreign, Matches
  <2> QED BY <1>3, <2>1, <2>2, FinalizePreserves
<1> QED BY <1>2, <1>3 DEF SignOvertakenTransaction

(* Approving a transaction, whatever comes of it. *)
LEMMA TransactionApprovedPreserves ==
  ASSUME IInv, OnTransactionApproved
  PROVE  IInv'
<1>1. CASE FinalizeAsyncReply("SW_CRYPTOGRAPHY_FAIL", ctx, NoResult)
  BY <1>1, ReviewedContext, FinalizePreserves
<1>2. CASE ~overtaken /\ SignReviewedTransaction
  BY <1>2, ReviewingKind, SignReviewedPreserves DEF OnTransactionApproved
<1>3. CASE SignOvertakenTransaction
  BY <1>3, SignOvertakenPreserves
<1> QED BY <1>1, <1>2, <1>3 DEF OnTransactionApproved

(* The signature covers the hash of the whole message, or nothing is claimed of what
   it covers. *)
LEMMA MessageApprovedPreserves ==
  ASSUME IInv, OnMessageApproved
  PROVE  IInv'
<1> DEFINE result == [kind |-> "msg", key |-> ctx.path, over |-> ctx.prefixedMessageHash]
<1>1. ctx \in Contexts /\ BelongsTo(ctx, request) /\ Fits(ctx)
  BY ReviewedContext
<1>2. CASE FinalizeAsyncReply("SW_CRYPTOGRAPHY_FAIL", ctx, NoResult)
  BY <1>1, <1>2, FinalizePreserves
<1>3. CASE ~overtaken /\ FinalizeAsyncReply("SW_OK", ctx, result)
  <2>1. ctx.kind = "msg"
    BY <1>3, ReviewingKind DEF OnMessageApproved
  <2>2. ctx \in MsgContext
    BY <1>1, <2>1 DEF Contexts, Zeroed, PkContext, TxContext, MixedContext, Mixed
  <2>3. result \in Results /\ Matches(result, request)
    BY <1>1, <2>1, <2>2 DEF Results, MsgResult, MsgContext, Matches, BelongsTo
  <2> HIDE DEF result
  <2> QED BY <1>1, <1>3, <2>3, FinalizePreserves
<1>4. CASE FinalizeAsyncReply("SW_OK", ctx, Foreign("msg"))
  <2>1. Foreign("msg") \in Results /\ Matches(Foreign("msg"), request)
    BY DEF Results, ForeignResult, Foreign, Matches
  <2> QED BY <1>1, <1>4, <2>1, FinalizePreserves
<1> QED BY <1>2, <1>3, <1>4 DEF OnMessageApproved

(* Only a display type that the message allows can be switched to. *)
LEMMA SwitchMessageDisplayPreserves ==
  ASSUME IInv, NEW type \in {"ASCII", "HEX", "HASH"}, SwitchMessageDisplay(type)
  PROVE  IInv'
<1>1. ctx.kind = "msg" /\ BelongsTo(ctx, request)
  BY ReviewedContext, ReviewingKind DEF SwitchMessageDisplay
<1>2. ctx \in MsgContext
  BY <1>1, ReviewedContext DEF Contexts, Zeroed, PkContext, TxContext, MixedContext, Mixed
<1>3. /\ ctx' = [ctx EXCEPT !.displayType = type]
      /\ ctx' \in MsgContext /\ ctx' \in Contexts /\ ctx'.kind = "msg"
  BY <1>1, <1>2 DEF SwitchMessageDisplay, MsgContext, Contexts
<1>4. screen' = [view |-> "review", shown |-> ctx']
  BY DEF SwitchMessageDisplay, Review
<1>5. TypeOK'
  BY <1>3, <1>4 DEF IInv, TypeOK, SwitchMessageDisplay
<1>6. ReviewShowsContext' /\ ReviewIsPending'
  <2>1. screen'.shown = ctx' /\ ctx'.kind = "msg" /\ InReview /\ InReview'
    BY <1>3, <1>4 DEF SwitchMessageDisplay, Reviewing, InReview
  <2>2. UNCHANGED <<media, interrupted, overtaken, reply>>
    BY DEF SwitchMessageDisplay
  <2> QED BY <2>1, <2>2 DEF IInv, ReviewShowsContext, ReviewIsPending
<1>7. BelongsTo(ctx', request')
  BY <1>1, <1>2, <1>3 DEF SwitchMessageDisplay, BelongsTo, MsgContext
<1>8. CanDisplay(ctx')
  BY <1>1, <1>2, <1>3 DEF SwitchMessageDisplay, BelongsTo, CanDisplay, MsgContext
<1>9. DisplayTypeIsPossible'
  BY <1>4, <1>8 DEF DisplayTypeIsPossible, CanDisplay
<1>10. ContextIsOfRequest' /\ RawTransactionFits'
  BY <1>3, <1>7 DEF ContextIsOfRequest, RawTransactionFits, Fits
<1>11. ResultMatchesRequest'
  BY DEF IInv, SwitchMessageDisplay, ResultMatchesRequest
<1> QED BY <1>5, <1>6, <1>9, <1>10, <1>11 DEF IInv

(* Printing behind an overtaken review leaves memory nothing is claimed of. *)
LEMMA RedrawOvertakenPreserves ==
  ASSUME IInv, RedrawOvertaken
  PROVE  IInv'
<1>1. /\ ctx' \in Contexts /\ BelongsTo(ctx', request) /\ Fits(ctx')
  BY MixedIsPossible DEF RedrawOvertaken
<1>2. TypeOK'
  BY <1>1 DEF IInv, TypeOK, RedrawOvertaken
<1>3. ReviewShowsContext' /\ ReviewIsPending' /\ DisplayTypeIsPossible'
  BY DEF IInv, RedrawOvertaken, ReviewShowsContext, ReviewIsPending, InReview,
     DisplayTypeIsPossible, Displayed
<1>4. ContextIsOfRequest' /\ RawTransactionFits' /\ ResultMatchesRequest'
  BY <1>1 DEF IInv, RedrawOvertaken, ContextIsOfRequest, RawTransactionFits, ResultMatchesRequest
<1> QED BY <1>2, <1>3, <1>4 DEF IInv

(* Events that only change the screen, the timer or whether the app runs. *)
LEMMA ScreenEventPreserves ==
  ASSUME IInv, DismissStatus \/ Quit \/ UNCHANGED vars
  PROVE  IInv'
<1>1. CASE DismissStatus
  BY <1>1 DEF DismissStatus, Menu, Contexts, IInv, TypeOK, ReviewShowsContext, ReviewIsPending,
     InReview, DisplayTypeIsPossible, Displayed, ContextIsOfRequest, ResultMatchesRequest,
     RawTransactionFits
<1>2. CASE Quit
  BY <1>2 DEF Quit, IInv, TypeOK, ReviewShowsContext, ReviewIsPending, InReview,
     DisplayTypeIsPossible, Displayed, CanDisplay, ContextIsOfRequest, ResultMatchesRequest,
     RawTransactionFits
<1>3. CASE UNCHANGED vars
  BY <1>3 DEF vars, IInv, TypeOK, ReviewShowsContext, ReviewIsPending, InReview,
     DisplayTypeIsPossible, Displayed, CanDisplay, ContextIsOfRequest, ResultMatchesRequest,
     RawTransactionFits
<1> QED BY <1>1, <1>2, <1>3

(* A heartbeat interrupts the reply, but not the review. *)
LEMMA TickPreserves ==
  ASSUME IInv, Tick
  PROVE  IInv'
<1>1. u2fTimer' \in 0..(2^16 - 1)
  <2>1. u2fTimer \in Int /\ TICK \in Int
    BY DEF IInv, TypeOK, TICK
  <2> QED BY <2>1 DEF Tick
<1>2. /\ reply' \in [sw : StatusWords \cup {NONE}, result : Results]
      /\ media' \in Media \cup {NONE} /\ interrupted' \in BOOLEAN
  <2>1. /\ reply \in [sw : StatusWords \cup {NONE}, result : Results]
        /\ media \in Media \cup {NONE} /\ interrupted \in BOOLEAN
    BY DEF IInv, TypeOK
  <2>2. CASE UNCHANGED <<reply, media, interrupted>>
    BY <2>1, <2>2, Zenon
  <2>3. CASE /\ reply' = [sw |-> "SW_KEEP_ALIVE", result |-> NoResult]
             /\ media' = NONE /\ interrupted' = TRUE
    BY <2>3 DEF StatusWords, Results
  <2> QED BY <2>2, <2>3 DEF Tick
<1>3. TypeOK'
  BY <1>1, <1>2 DEF IInv, TypeOK, Tick
<1>4. ReviewShowsContext' /\ DisplayTypeIsPossible'
  BY DEF IInv, Tick, ReviewShowsContext, InReview, DisplayTypeIsPossible, Displayed
<1>5. ReviewIsPending' /\ ResultMatchesRequest'
  BY DEF IInv, Tick, ReviewIsPending, InReview, NONE, NoResult, ResultMatchesRequest, Matches
<1>6. ContextIsOfRequest' /\ RawTransactionFits'
  BY DEF IInv, Tick, ContextIsOfRequest, RawTransactionFits
<1> QED BY <1>3, <1>4, <1>5, <1>6 DEF IInv

(* Without USB power main() starts over. *)
LEMMA LoseUsbPowerPreserves ==
  ASSUME IInv, LoseUsbPower
  PROVE  IInv'
BY ResetPreserves DEF LoseUsbPower

-----------------------------------------------------------------------------
(* Theorems *)

(* The inductive invariant holds when the app starts. *)
LEMMA InitIInv == Init => IInv
<1> SUFFICES ASSUME Init PROVE IInv
  OBVIOUS
<1>1. TypeOK
  <2>1. NoRequest \in Requests
    BY DEF NoRequest, Requests
  <2>2. NoReply \in [sw : StatusWords \cup {NONE}, result : Results]
    BY DEF NoReply, Results
  <2>3. Menu \in [view : {"menu", "status", "review"}, shown : Contexts] /\ Zeroed \in Contexts
    BY DEF Menu, Contexts
  <2>4. 0 \in 0..(2^16 - 1)
    OBVIOUS
  <2> QED BY <2>1, <2>2, <2>3, <2>4 DEF Init, TypeOK
<1>2. ReviewShowsContext /\ ReviewIsPending /\ DisplayTypeIsPossible
  BY DEF Init, Menu, NONE, ReviewShowsContext, ReviewIsPending, InReview, DisplayTypeIsPossible,
     Displayed
<1>3. ContextIsOfRequest /\ RawTransactionFits
  BY DEF Init, ContextIsOfRequest, BelongsTo, RawTransactionFits, Fits, Zeroed
<1>4. ResultMatchesRequest
  BY DEF Init, ResultMatchesRequest, Matches, NoReply, NoResult
<1> QED BY <1>1, <1>2, <1>3, <1>4 DEF IInv

(* Every command and every event preserves it. *)
LEMMA NextIInv == IInv /\ [Next]_vars => IInv'
<1> SUFFICES ASSUME IInv, [Next]_vars
             PROVE  IInv'
  OBVIOUS
<1>1. CASE GetPublicKey
  BY <1>1, GetPublicKeyPreserves DEF GetPublicKey
<1>2. CASE SignTransaction
  BY <1>2, SignTransactionFirstPreserves, SignTransactionMorePreserves DEF SignTransaction
<1>3. CASE SignMessage
  BY <1>3, SignMessageFirstPreserves, SignMessageMorePreserves DEF SignMessage
<1>4. CASE RenewReply
  BY <1>4, KeepAlivePreserves DEF RenewReply
<1>5. CASE Unsupported
  BY <1>5, UnsupportedPreserves DEF Unsupported
<1>6. CASE UserDecides
  BY <1>6, RejectedPreserves, AddressApprovedPreserves, TransactionApprovedPreserves,
     MessageApprovedPreserves DEF UserDecides
<1>7. CASE SwitchDisplay
  BY <1>7, SwitchMessageDisplayPreserves DEF SwitchDisplay
<1>8. CASE DismissStatus \/ Quit \/ UNCHANGED vars
  BY <1>8, ScreenEventPreserves
<1>9. CASE Tick
  BY <1>9, TickPreserves
<1>10. CASE LoseUsbPower
  BY <1>10, LoseUsbPowerPreserves
<1>11. CASE RedrawOvertaken
  BY <1>11, RedrawOvertakenPreserves
<1> QED BY <1>1, <1>2, <1>3, <1>4, <1>5, <1>6, <1>7, <1>8, <1>9, <1>10, <1>11 DEF Next

(* The inductive invariant, for all paths, chunks, buffer sizes, timeouts and
   both UI libraries. *)
THEOREM Invariance == Spec => []IInv
BY InitIInv, NextIInv, PTL DEF Spec

(* ctx, the screen, the reply and the rest only ever take values of their type:
   no handler stores a failed chunk or a half-written proof of another shape. *)
THEOREM TypeCorrectness == Spec => []TypeOK
BY Invariance, PTL DEF IInv

(* The raw transaction never exceeds its buffer, which relies on the wipe of ctx
   that follows a chunk that is too long. *)
THEOREM RawTransactionsFit == Spec => []RawTransactionFits
BY Invariance, PTL DEF IInv

(* The review the user can still approve displays what ctx holds, unless a command
   was handled behind it. *)
THEOREM ReviewsShowContext == Spec => []ReviewShowsContext
BY Invariance, PTL DEF IInv

(* No message is displayed as text or hex that is too long or not printable. *)
THEOREM DisplayTypesArePossible == Spec => []DisplayTypeIsPossible
BY Invariance, PTL DEF IInv

(* An SW_OK reply is made with the requested key over all the client sent. *)
THEOREM ResultsMatchRequests == Spec => []ResultMatchesRequest
BY Invariance, PTL DEF IInv

-----------------------------------------------------------------------------
(* The length of a sequence of chunks *)

(* Chunks have at least one byte. *)
LEMMA ChunkLengthType ==
  \A c \in Chunks : ChunkLength[c] \in Nat /\ ChunkLength[c] >= 1
<1>1. TAKE c \in Chunks
<1>2. ChunkLength[c] \in 1..255
  BY ChunkAssumption
<1> QED BY <1>2

(* A sequence of chunks has a length in bytes, and the empty one the length 0. *)
LEMMA TotalLengthType ==
  ASSUME NEW s \in Seq(Chunks)
  PROVE  TotalLength(s) \in Nat /\ (s = <<>> => TotalLength(s) = 0)
<1> DEFINE d == [i \in DOMAIN s |-> ChunkLength[s[i]]]
<1>1. Len(s) \in Nat /\ DOMAIN s = 1..Len(s)
  OBVIOUS
<1>2. \A k \in 1..Len(s) : d[k] \in Nat
  <2>1. SUFFICES ASSUME NEW k \in 1..Len(s) PROVE d[k] \in Nat
    OBVIOUS
  <2>2. s[k] \in Chunks
    OBVIOUS
  <2>3. ChunkLength[s[k]] \in Nat
    BY <2>2, ChunkLengthType, Zenon
  <2>4. d[k] = ChunkLength[s[k]]
    BY <1>1, Zenon
  <2> QED BY <2>3, <2>4, Zenon
<1>3. TotalLength(s) = SumTo(d, Len(s))
  BY Zenon DEF TotalLength
<1> HIDE DEF d
<1>4. /\ SumTo(d, Len(s)) \in Nat
      /\ Len(s) = 0 => SumTo(d, Len(s)) = 0
  BY <1>1, <1>2, SumNext
<1>5. s = <<>> => Len(s) = 0
  OBVIOUS
<1> QED BY <1>3, <1>4, <1>5

(* A chunk that is appended adds its length. *)
LEMMA TotalLengthOfAppended ==
  ASSUME NEW s \in Seq(Chunks), NEW data \in ApduData
  PROVE  TotalLength(s \o data) = TotalLength(s) + DataLength(data)
<1>1. CASE data = <<>>
  <2>1. s \o data = s /\ DataLength(data) = 0
    BY <1>1 DEF DataLength
  <2> QED BY <2>1, TotalLengthType
<1>2. CASE \E c \in Chunks : data = <<c>>
  <2>1. PICK c \in Chunks : data = <<c>>
    BY <1>2
  <2> DEFINE t == s \o data
             n == Len(s) + 1
             d == [i \in DOMAIN s |-> ChunkLength[s[i]]]
             e == [i \in DOMAIN t |-> ChunkLength[t[i]]]
  <2>2. /\ t \in Seq(Chunks) /\ Len(t) = n /\ n \in Nat /\ n # 0 /\ n - 1 = Len(s)
        /\ DOMAIN t = 1..n /\ DOMAIN s = 1..Len(s) /\ Len(s) \in Nat
    BY <2>1
  <2>3. t[n] = c /\ \A i \in 1..Len(s) : t[i] = s[i]
    BY <2>1
  <2>4. DataLength(data) = ChunkLength[c]
    <3>1. data # <<>> /\ data[1] = c
      BY <2>1
    <3> QED BY <3>1, Zenon DEF DataLength
  <2> HIDE DEF t, n
  <2>5. \A k \in 1..n : e[k] \in Nat
    <3>1. SUFFICES ASSUME NEW k \in 1..n PROVE e[k] \in Nat
      OBVIOUS
    <3>2. t[k] \in Chunks
      BY <2>2
    <3>3. ChunkLength[t[k]] \in Nat
      BY <3>2, ChunkLengthType, Zenon
    <3>4. e[k] = ChunkLength[t[k]]
      BY <2>2, Zenon
    <3> QED BY <3>3, <3>4, Zenon
  <2>6. e[n] = ChunkLength[c]
    BY <2>2, <2>3
  <2>7. \A k \in 1..Len(s) : e[k] \in Nat /\ d[k] = e[k]
    <3>1. SUFFICES ASSUME NEW k \in 1..Len(s) PROVE e[k] \in Nat /\ d[k] = e[k]
      OBVIOUS
    <3>2. k \in 1..n
      BY <2>2
    <3> QED BY <2>2, <2>3, <2>5, <3>2
  <2>8. TotalLength(s) = SumTo(d, Len(s)) /\ TotalLength(t) = SumTo(e, n)
    BY <2>2, Zenon DEF TotalLength
  <2> HIDE DEF d, e
  <2>9. SumTo(d, Len(s)) = SumTo(e, Len(s))
    BY <2>2, <2>7, SumOfSame
  <2>10. SumTo(e, n) = SumTo(e, n - 1) + e[n]
    BY <2>2, <2>5, SumNext
  <2>11. TotalLength(t) = TotalLength(s) + DataLength(data)
    BY <2>2, <2>4, <2>6, <2>8, <2>9, <2>10, Zenon
  <2> QED BY <2>11 DEF t
<1> QED BY <1>1, <1>2 DEF ApduData

-----------------------------------------------------------------------------
(* The accounts of a transmission *)

\* What is counted is what is stored, up to the width of the counter of a message, and
\* a message is complete when it is confirmed.
TransactionAdds(c) == c.rawTxLength = TotalLength(c.rawTx)
MessageAdds(c) ==
  /\ c.processedMessageLength = TotalLength(c.messageHash) % UINT32_SIZE
  /\ c.processedMessageLength <= c.messageLength
  /\ c.messageLength <= MAX_PRINTABLE_MESSAGE_LENGTH =>
       c.processedMessageLength = TotalLength(c.messageHash)
  /\ c.phase = "confirm" => c.processedMessageLength = c.messageLength
Accounts(c) ==
  /\ c.kind = "tx" => TransactionAdds(c)
  /\ c.kind = "msg" => MessageAdds(c)

(* Zeroed memory holds no counts. *)
LEMMA ZeroedAccounts == Accounts(Zeroed)
BY DEF Accounts, Zeroed

(* The first chunk of a transaction is counted. *)
LEMMA NewTransactionAccounts ==
  ASSUME NEW path, NEW version, NEW data \in ApduData
  PROVE  Accounts(NewTransaction(path, version, data))
<1> DEFINE tx == NewTransaction(path, version, data)
<1>1. tx.kind = "tx" /\ tx.rawTxLength = DataLength(data) /\ tx.rawTx = data
  BY DEF NewTransaction
<1>2. TotalLength(data) = DataLength(data)
  <2>1. <<>> \in Seq(Chunks) /\ data \in Seq(Chunks) /\ DataLength(data) \in Nat
    BY ApduDataType
  <2>2. <<>> \o data = data
    BY <2>1
  <2>3. TotalLength(<<>>) = 0
    BY <2>1, TotalLengthType
  <2>4. TotalLength(<<>> \o data) = TotalLength(<<>>) + DataLength(data)
    BY <2>1, TotalLengthOfAppended
  <2> QED BY <2>1, <2>2, <2>3, <2>4
<1> HIDE DEF tx
<1>3. Accounts(tx)
  BY <1>1, <1>2, Zenon DEF Accounts, TransactionAdds
<1> QED BY <1>3 DEF tx

(* A number below the modulus is its own remainder. *)
LEMMA SmallRemainder ==
  ASSUME NEW modulus \in Nat \ {0}, NEW n \in Nat, n < modulus
  PROVE  n % modulus = n
OBVIOUS

(* A new message has counted nothing. *)
LEMMA NewMessageAccounts ==
  ASSUME NEW path, NEW flags, NEW length \in MessageLengths
  PROVE  Accounts(NewMessage(path, flags, length))
<1> DEFINE msg == NewMessage(path, flags, length)
<1>1. /\ msg.kind = "msg" /\ msg.processedMessageLength = 0 /\ msg.messageHash = <<>>
      /\ msg.messageLength = length /\ msg.phase = "prepare"
  BY DEF NewMessage
<1>2. TotalLength(<<>>) = 0
  <2>1. <<>> \in Seq(Chunks)
    OBVIOUS
  <2> QED BY <2>1, TotalLengthType
<1>3. 0 <= length /\ 0 % UINT32_SIZE = 0
  BY ChunkAssumption, SmallRemainder
<1> HIDE DEF msg
<1>4. MessageAdds(msg)
  BY <1>1, <1>2, <1>3 DEF MessageAdds
<1> QED BY <1>1, <1>4 DEF Accounts, msg

(* A chunk is counted by its length, modulo the width of the counter; the sum cannot
   wrap for a message that is printable, because its count was within its length. *)
LEMMA AddToMessageCounts ==
  ASSUME NEW msg \in MsgContext, Accounts(msg), NEW data \in ApduData
  PROVE  /\ AddToMessage(msg, data).processedMessageLength
              = TotalLength(AddToMessage(msg, data).messageHash) % UINT32_SIZE
         /\ msg.messageLength <= MAX_PRINTABLE_MESSAGE_LENGTH =>
              AddToMessage(msg, data).processedMessageLength
                = TotalLength(AddToMessage(msg, data).messageHash)
         /\ AddToMessage(msg, data).phase = msg.phase
<1> DEFINE n == msg.processedMessageLength
           added == AddToMessage(msg, data)
           total == TotalLength(msg.messageHash)
<1>1. MessageAdds(msg) /\ msg.messageHash \in Seq(Chunks) /\ n \in Nat
      /\ msg.messageLength \in Nat
  BY DEF Accounts, MsgContext
<1>2. data \in Seq(Chunks) /\ DataLength(data) \in Nat
  BY ApduDataType
<1>3. /\ added.processedMessageLength = (n + DataLength(data)) % UINT32_SIZE
      /\ added.messageHash = msg.messageHash \o data
      /\ added.phase = msg.phase
  BY DEF AddToMessage, MsgContext
<1>4. total \in Nat /\ UINT32_SIZE \in Nat \ {0}
  BY <1>1, TotalLengthType, ChunkAssumption
<1>5. TotalLength(added.messageHash) = total + DataLength(data)
  BY <1>1, <1>3, TotalLengthOfAppended
<1>6. n = total % UINT32_SIZE /\ n <= msg.messageLength
      /\ (msg.messageLength <= MAX_PRINTABLE_MESSAGE_LENGTH => n = total)
  BY <1>1 DEF MessageAdds
<1> HIDE DEF n, added, total
<1>7. (n + DataLength(data)) % UINT32_SIZE = (total + DataLength(data)) % UINT32_SIZE
  BY <1>2, <1>4, <1>6, RemainderOfSum, Zenon
<1>8. ASSUME msg.messageLength <= MAX_PRINTABLE_MESSAGE_LENGTH
      PROVE  added.processedMessageLength = TotalLength(added.messageHash)
  <2>1. n + DataLength(data) < UINT32_SIZE
    <3>1. n <= MAX_PRINTABLE_MESSAGE_LENGTH /\ MAX_PRINTABLE_MESSAGE_LENGTH \in Nat
      BY <1>1, <1>6, <1>8, BufferAssumption
    <3>2. CASE data = <<>>
      <4>1. n < UINT32_SIZE
        BY <1>4, <1>6, Division
      <4> QED BY <1>1, <1>4, <3>2, <4>1 DEF DataLength
    <3>3. CASE \E c \in Chunks : data = <<c>>
      <4>1. PICK c \in Chunks : data = <<c>>
        BY <3>3
      <4>2. data # <<>> /\ data[1] = c
        BY <4>1
      <4>3. DataLength(data) = ChunkLength[c]
        BY <4>2, Zenon DEF DataLength
      <4>4. MAX_PRINTABLE_MESSAGE_LENGTH + DataLength(data) < UINT32_SIZE
        BY <4>3, BufferAssumption, Zenon
      <4> QED BY <1>1, <1>2, <1>4, <3>1, <4>4
    <3> QED BY <3>2, <3>3 DEF ApduData
  <2>2. n + DataLength(data) \in Nat
    BY <1>1, <1>2
  <2>3. (n + DataLength(data)) % UINT32_SIZE = n + DataLength(data)
    BY <1>4, <2>1, <2>2, SmallRemainder, Zenon
  <2> QED BY <1>3, <1>5, <1>6, <1>8, <2>3
<1> QED BY <1>3, <1>5, <1>7, <1>8 DEF added

(* The counts of a message that is being prepared after a chunk that the length check
   let pass. *)
LEMMA AddToMessageAccounts ==
  ASSUME NEW msg \in MsgContext, Accounts(msg), NEW data \in ApduData,
         msg.phase = "prepare",
         AddToMessage(msg, data).processedMessageLength <= msg.messageLength
  PROVE  Accounts(AddToMessage(msg, data))
<1> DEFINE added == AddToMessage(msg, data)
<1>1. /\ added.processedMessageLength = TotalLength(added.messageHash) % UINT32_SIZE
      /\ msg.messageLength <= MAX_PRINTABLE_MESSAGE_LENGTH =>
           added.processedMessageLength = TotalLength(added.messageHash)
      /\ added.phase = "prepare"
  BY AddToMessageCounts
<1>2. added.kind = "msg" /\ added.messageLength = msg.messageLength
  BY AddToMessageType
<1>3. added.processedMessageLength <= added.messageLength
  BY <1>2
<1> HIDE DEF added
<1>4. MessageAdds(added)
  BY <1>1, <1>2, <1>3 DEF MessageAdds
<1> QED BY <1>2, <1>4 DEF Accounts, added

(* However a command ends: an error leaves zeroed memory, and anything else what the
   handler has in ctx. *)
LEMMA CommandKeepsAccounts ==
  ASSUME NEW m, NEW sw, NEW c, NEW result,
         \/ Respond(sw, c, result) /\ (sw = "SW_OK" => Accounts(c))
         \/ AwaitDecision(m, c) /\ Accounts(c)
         \/ AssertFails(c) /\ Accounts(c)
  PROVE  Accounts(ctx)'
<1>1. ctx' = Zeroed \/ (ctx' = c /\ Accounts(c))
  BY Zenon DEF Respond, AwaitDecision, AssertFails
<1>2. Accounts(ctx')
  BY <1>1, ZeroedAccounts, Zenon
<1> QED BY <1>2 DEF Accounts, TransactionAdds, MessageAdds

(* The common end of a transaction chunk leaves its counts alone. *)
LEMMA EndTransactionChunkAccounts ==
  ASSUME NEW m, NEW last, NEW tx \in TxContext, Accounts(tx), EndTransactionChunk(m, tx, last)
  PROVE  Accounts(ctx)'
<1>1. CASE \E sw, result : Respond(sw, tx, result)
  BY <1>1, CommandKeepsAccounts
<1>2. ASSUME NEW parsed,
             AwaitDecision(m, [tx EXCEPT !.parsed = parsed])
             \/ AssertFails([tx EXCEPT !.parsed = parsed])
      PROVE  Accounts(ctx)'
  <2> DEFINE p == [tx EXCEPT !.parsed = parsed]
  <2>1. /\ p.kind = "tx" /\ p.rawTx = tx.rawTx /\ p.rawTxLength = tx.rawTxLength
        /\ tx.kind = "tx"
    BY DEF TxContext
  <2> HIDE DEF p
  <2>2. Accounts(p)
    BY <2>1 DEF Accounts, TransactionAdds
  <2> QED BY <1>2, <2>2, CommandKeepsAccounts DEF p
<1> QED BY <1>1, <1>2 DEF EndTransactionChunk

(* Nothing is counted in memory that holds two kinds of requests. *)
LEMMA MisreadAccounts ==
  ASSUME NEW m, NEW kind, NEW last, Misread(m, kind, last)
  PROVE  Accounts(ctx)'
<1> DEFINE c == Mixed(kind)
<1>1. Accounts(c)
  BY DEF Accounts, Mixed
<1> HIDE DEF c
<1>2. \/ \E sw, result : Respond(sw, c, result)
      \/ AwaitDecision(m, c)
      \/ AssertFails(c)
  BY DEF Misread, c
<1> QED BY <1>1, <1>2, CommandKeepsAccounts

(* Each chunk of a transaction is counted, and counted once. *)
LEMMA SignTransactionAccounts ==
  ASSUME IInv, Accounts(ctx), SignTransaction
  PROVE  Accounts(ctx)'
<1>1. ASSUME NEW m \in Media, NEW data \in ApduData, NEW last \in BOOLEAN, NEW path \in Paths,
             NEW version \in TransactionVersions,
             HandleSignTransactionFirst(m, path, version, data, last)
      PROVE  Accounts(ctx)'
  <2> DEFINE tx == NewTransaction(path, version, data)
  <2>1. tx \in TxContext /\ Accounts(tx)
    BY NewTransactionType, NewTransactionAccounts
  <2> HIDE DEF tx
  <2>2. CASE \E sw \in SyncErrors : Respond(sw, ctx, NoResult)
    BY <2>2, CommandKeepsAccounts
  <2>3. CASE EndTransactionChunk(m, tx, last)
    BY <2>1, <2>3, EndTransactionChunkAccounts
  <2> QED BY <1>1, <2>2, <2>3 DEF HandleSignTransactionFirst, SyncErrors, tx
<1>2. ASSUME NEW m \in Media, NEW data \in ApduData, NEW last \in BOOLEAN,
             HandleSignTransactionMore(m, data, last)
      PROVE  Accounts(ctx)'
  <2> DEFINE base == IF ctx.kind = "tx" THEN ctx ELSE NewTransaction(NoPath, "LEGACY", <<>>)
             longer == [base EXCEPT !.rawTxLength = @ + DataLength(data)]
             tx == [longer EXCEPT !.rawTx = @ \o data]
  <2>1. base \in TxContext /\ Accounts(base) /\ base.kind = "tx"
    <3>1. CASE ctx.kind = "tx"
      BY <3>1 DEF IInv, TypeOK, Contexts, Zeroed, PkContext, MsgContext, MixedContext, Mixed
    <3>2. CASE ctx.kind # "tx"
      <4>1. <<>> \in ApduData /\ "LEGACY" \in TransactionVersions
        BY DEF ApduData, TransactionVersions
      <4>2. base = NewTransaction(NoPath, "LEGACY", <<>>)
        BY <3>2
      <4>3. base \in TxContext /\ Accounts(base)
        BY <4>1, <4>2, NewTransactionType, NewTransactionAccounts
      <4> QED BY <4>2, <4>3 DEF NewTransaction
    <3> QED BY <3>1, <3>2
  <2> HIDE DEF base
  <2>2. /\ data \in Seq(Chunks) /\ DataLength(data) \in Nat
        /\ base.rawTx \in Seq(Chunks) /\ base.rawTxLength \in Nat
        /\ base.rawTx \o data \in Seq(Chunks) /\ base.rawTxLength + DataLength(data) \in Nat
    BY <2>1, ApduDataType DEF TxContext
  <2>3. /\ tx \in TxContext /\ tx.kind = "tx" /\ tx.rawTx = base.rawTx \o data
        /\ tx.rawTxLength = base.rawTxLength + DataLength(data)
    BY <2>1, <2>2 DEF TxContext
  <2>4. Accounts(tx)
    <3>1. base.rawTxLength = TotalLength(base.rawTx)
      BY <2>1 DEF Accounts, TransactionAdds
    <3>2. TotalLength(base.rawTx \o data) = TotalLength(base.rawTx) + DataLength(data)
      BY <2>2, TotalLengthOfAppended
    <3> HIDE DEF tx
    <3>3. tx.rawTxLength = TotalLength(tx.rawTx)
      BY <2>3, <3>1, <3>2, Zenon
    <3> QED BY <2>3, <3>3 DEF Accounts, TransactionAdds
  <2>5. CASE \E sw \in SyncErrors, c \in {ctx, longer} : Respond(sw, c, NoResult)
    <3>1. PICK sw \in SyncErrors, c \in {ctx, longer} : Respond(sw, c, NoResult)
      BY <2>5
    <3>2. sw # "SW_OK"
      BY <3>1 DEF SyncErrors
    <3> QED BY <3>1, <3>2, CommandKeepsAccounts
  <2>6. CASE EndTransactionChunk(m, tx, last)
    BY <2>3, <2>4, <2>6, EndTransactionChunkAccounts
  <2>7. CASE Misread(m, "tx", last)
    BY <2>7, MisreadAccounts
  <2> QED BY <1>2, <2>5, <2>6, <2>7 DEF HandleSignTransactionMore, SyncErrors, base
<1> QED BY <1>1, <1>2 DEF SignTransaction

(* A chunk of a message that passes the length check is counted; with the last one the
   count is the announced length. *)
LEMMA MessageChunkAccounts ==
  ASSUME NEW m, NEW last, NEW msg \in MsgContext, Accounts(msg), NEW data \in ApduData,
         msg.phase = "prepare", HandleMessageChunk(m, msg, data, last)
  PROVE  Accounts(ctx)'
<1> DEFINE added == AddToMessage(msg, data)
           type == DefaultDisplayType(added)
           complete == [added EXCEPT !.phase = "confirm", !.displayType = type]
<1>1. \/ \E sw \in SyncErrors, c \in {msg, added} : Respond(sw, c, NoResult)
      \/ added.processedMessageLength <= msg.messageLength /\ Respond("SW_OK", added, NoResult)
      \/ /\ added.processedMessageLength <= msg.messageLength
         /\ added.processedMessageLength = msg.messageLength
         /\ AwaitDecision(m, complete)
  BY DEF HandleMessageChunk, SyncErrors
<1>2. added \in MsgContext /\ added.messageLength = msg.messageLength /\ added.kind = "msg"
  BY AddToMessageType
<1>3. added.processedMessageLength <= msg.messageLength => Accounts(added)
  BY AddToMessageAccounts
<1> HIDE DEF added, type
<1>4. CASE \E sw \in SyncErrors, c \in {msg, added} : Respond(sw, c, NoResult)
  <2>1. PICK sw \in SyncErrors, c \in {msg, added} : Respond(sw, c, NoResult)
    BY <1>4
  <2>2. sw # "SW_OK"
    BY <2>1 DEF SyncErrors
  <2> QED BY <2>1, <2>2, CommandKeepsAccounts
<1>5. CASE added.processedMessageLength <= msg.messageLength /\ Respond("SW_OK", added, NoResult)
  BY <1>3, <1>5, CommandKeepsAccounts
<1>6. CASE /\ added.processedMessageLength <= msg.messageLength
           /\ added.processedMessageLength = msg.messageLength
           /\ AwaitDecision(m, complete)
  <2>1. /\ complete.kind = "msg" /\ complete.messageHash = added.messageHash
        /\ complete.messageLength = added.messageLength
        /\ complete.processedMessageLength = added.processedMessageLength
    BY <1>2 DEF MsgContext
  <2>2. MessageAdds(added)
    BY <1>2, <1>3, <1>6 DEF Accounts
  <2> HIDE DEF complete
  <2>3. Accounts(complete)
    BY <1>2, <1>6, <2>1, <2>2 DEF Accounts, MessageAdds
  <2> QED BY <1>6, <2>3, CommandKeepsAccounts
<1> QED BY <1>1, <1>4, <1>5, <1>6

(* Each chunk of a message is counted, and counted once. *)
LEMMA SignMessageAccounts ==
  ASSUME IInv, Accounts(ctx), SignMessage
  PROVE  Accounts(ctx)'
<1>1. ASSUME NEW m \in Media, NEW path \in Paths, NEW flags \in SUBSET DisplayFlags,
             NEW length \in MessageLengths, NEW data \in ApduData, NEW last \in BOOLEAN,
             HandleSignMessageFirst(m, path, flags, length, data, last)
      PROVE  Accounts(ctx)'
  <2> DEFINE msg == NewMessage(path, flags, length)
  <2>1. msg \in MsgContext /\ Accounts(msg) /\ msg.phase = "prepare"
    BY NewMessageType, NewMessageAccounts DEF NewMessage
  <2> HIDE DEF msg
  <2>2. CASE \E sw \in SyncErrors : Respond(sw, ctx, NoResult)
    BY <2>2, CommandKeepsAccounts
  <2>3. CASE HandleMessageChunk(m, msg, data, last)
    BY <2>1, <2>3, MessageChunkAccounts
  <2> QED BY <1>1, <2>2, <2>3 DEF HandleSignMessageFirst, SyncErrors, msg
<1>2. ASSUME NEW m \in Media, NEW data \in ApduData, NEW last \in BOOLEAN,
             HandleSignMessageMore(m, data, last)
      PROVE  Accounts(ctx)'
  <2>1. CASE Respond("SW_OK", ctx, NoResult) \/ \E sw \in SyncErrors : Respond(sw, ctx, NoResult)
    BY <2>1, CommandKeepsAccounts
  <2>2. CASE Preparing /\ HandleMessageChunk(m, ctx, data, last)
    <3>1. ctx \in MsgContext /\ ctx.phase = "prepare"
      BY <2>2 DEF Preparing, IInv, TypeOK, Contexts, Zeroed, PkContext, TxContext, MixedContext,
         Mixed
    <3> QED BY <2>2, <3>1, MessageChunkAccounts
  <2>3. CASE Misread(m, "msg", last)
    BY <2>3, MisreadAccounts
  <2> QED BY <1>2, <2>1, <2>2, <2>3 DEF HandleSignMessageMore, SyncErrors
<1> QED BY <1>1, <1>2 DEF SignMessage

(* An address is not counted, and an error leaves no counts. *)
LEMMA OtherCommandsAccounts ==
  ASSUME GetPublicKey \/ Unsupported
  PROVE  Accounts(ctx)'
<1>1. CASE GetPublicKey
  <2>1. PICK m \in Media, path \in Paths, returnSignature \in BOOLEAN, confirm \in BOOLEAN :
          HandleGetPublicKey(m, path, returnSignature, confirm)
    BY <1>1 DEF GetPublicKey
  <2> DEFINE pk == [kind |-> "pk", publicKey |-> path, returnSignature |-> returnSignature]
  <2>2. Accounts(pk)
    BY DEF Accounts
  <2> HIDE DEF pk
  <2>3. \/ \E sw \in SyncErrors : Respond(sw, ctx, NoResult)
        \/ Respond("SW_OK", pk, pk)
        \/ AwaitDecision(m, pk)
    BY <2>1 DEF HandleGetPublicKey, SyncErrors, pk
  <2>4. "SW_OK" \notin SyncErrors
    BY DEF SyncErrors
  <2> QED BY <2>2, <2>3, <2>4, CommandKeepsAccounts
<1>2. CASE Unsupported
  <2>1. PICK sw \in SyncErrors : Respond(sw, ctx, NoResult)
    BY <1>2 DEF Unsupported, HandleUnsupported, SyncErrors
  <2>2. sw # "SW_OK"
    BY <2>1 DEF SyncErrors
  <2> QED BY <2>1, <2>2, CommandKeepsAccounts
<1> QED BY <1>1, <1>2

(* A decision of the user leaves the counts alone, or resets the app. *)
LEMMA FinalizeAccounts ==
  ASSUME NEW sw, NEW c, NEW result, FinalizeAsyncReply(sw, c, result), Accounts(c)
  PROVE  Accounts(ctx)'
<1>1. ctx' = c \/ ctx' = Zeroed
  BY DEF FinalizeAsyncReply, Reset
<1>2. Accounts(ctx')
  BY <1>1, ZeroedAccounts, Zenon
<1> QED BY <1>2 DEF Accounts, TransactionAdds, MessageAdds

(* Filling in a staker proof overwrites bytes of the transaction but adds none. *)
LEMMA SignReviewedAccounts ==
  ASSUME ctx \in TxContext, Accounts(ctx), SignReviewedTransaction
  PROVE  Accounts(ctx)'
<1> DEFINE creates == ctx.parsed.proof = "empty"
           withSignature == [ctx EXCEPT !.stakerSignature = <<StakerSignature(ctx)>>]
           withProof == [withSignature EXCEPT !.stakerKey = <<ctx.path>>]
           signed == IF creates THEN withProof ELSE ctx
           result == [kind |-> "tx", key |-> ctx.path, rawTx |-> signed.rawTx,
                      stakerSignature |-> signed.stakerSignature,
                      stakerKey |-> signed.stakerKey,
                      returnsStakerSignature |-> creates]
<1>1. ASSUME NEW c \in {withSignature, withProof, signed}
      PROVE  Accounts(c)
  <2>1. c.kind = "tx" /\ c.rawTx = ctx.rawTx /\ c.rawTxLength = ctx.rawTxLength
        /\ ctx.kind = "tx"
    BY DEF TxContext
  <2> QED BY <2>1 DEF Accounts, TransactionAdds
<1> HIDE DEF withSignature, withProof, signed, result, creates
<1>2. CASE \E c \in {withSignature, withProof} :
             FinalizeAsyncReply("SW_CRYPTOGRAPHY_FAIL", c, NoResult)
  BY <1>1, <1>2, FinalizeAccounts
<1>3. CASE FinalizeAsyncReply("SW_OK", signed, result)
  BY <1>1, <1>3, FinalizeAccounts
<1> QED BY <1>2, <1>3
        DEF SignReviewedTransaction, withSignature, withProof, signed, result, creates

(* No decision of the user counts anything. *)
LEMMA DecisionAccounts ==
  ASSUME IInv, Accounts(ctx), UserDecides
  PROVE  Accounts(ctx)'
<1>1. CASE \E sw, result : FinalizeAsyncReply(sw, ctx, result)
  BY <1>1, FinalizeAccounts
<1>2. CASE ~overtaken /\ Reviewing("tx") /\ SignReviewedTransaction
  <2>1. ctx \in Contexts /\ ctx.kind = "tx"
    BY <1>2, ReviewedContext, ReviewingKind
  <2>2. ctx \in TxContext
    BY <2>1 DEF Contexts, Zeroed, PkContext, MsgContext, MixedContext, Mixed
  <2> QED BY <1>2, <2>2, SignReviewedAccounts
<1>3. CASE \E sw, result : FinalizeAsyncReply(sw, Mixed("tx"), result)
  <2>1. Accounts(Mixed("tx"))
    BY DEF Accounts, Mixed
  <2> QED BY <1>3, <2>1, FinalizeAccounts
<1>4. CASE OnRejected \/ OnAddressApproved \/ OnMessageApproved
  BY <1>1, <1>4 DEF OnRejected, OnAddressApproved, OnMessageApproved
<1>5. CASE SignOvertakenTransaction
  BY <1>1, <1>3, <1>5 DEF SignOvertakenTransaction
<1>6. CASE OnTransactionApproved
  BY <1>1, <1>2, <1>5, <1>6 DEF OnTransactionApproved
<1> QED BY <1>4, <1>6 DEF UserDecides

(* Events count nothing. *)
LEMMA EventAccounts ==
  ASSUME IInv, Accounts(ctx),
         SwitchDisplay \/ RedrawOvertaken \/ RenewReply \/ DismissStatus \/ Quit \/ Tick
           \/ LoseUsbPower \/ UNCHANGED vars
  PROVE  Accounts(ctx)'
<1>1. CASE SwitchDisplay
  <2>1. PICK type \in {"ASCII", "HEX", "HASH"} : SwitchMessageDisplay(type)
    BY <1>1 DEF SwitchDisplay
  <2>2. ctx \in MsgContext
    BY <2>1, ReviewedContext, ReviewingKind
       DEF SwitchMessageDisplay, Contexts, Zeroed, PkContext, TxContext, MixedContext, Mixed
  <2>3. /\ ctx.kind = "msg" /\ ctx'.kind = "msg" /\ ctx'.messageHash = ctx.messageHash
        /\ ctx'.messageLength = ctx.messageLength /\ ctx'.phase = ctx.phase
        /\ ctx'.processedMessageLength = ctx.processedMessageLength
    BY <2>1, <2>2 DEF SwitchMessageDisplay, MsgContext
  <2>4. MessageAdds(ctx')
    BY <2>3 DEF Accounts, MessageAdds
  <2> QED BY <2>3, <2>4 DEF Accounts, MessageAdds
<1>2. CASE RenewReply \/ DismissStatus \/ Quit \/ Tick \/ UNCHANGED vars
  <2>1. ctx' = ctx
    BY <1>2 DEF RenewReply, HandleKeepAlive, DismissStatus, Quit, Tick, vars
  <2> QED BY <2>1 DEF Accounts, TransactionAdds, MessageAdds
<1>3. CASE LoseUsbPower
  <2>1. ctx' = Zeroed
    BY <1>3 DEF LoseUsbPower, Reset
  <2>2. Accounts(ctx')
    BY <2>1, ZeroedAccounts, Zenon
  <2> QED BY <2>2 DEF Accounts, TransactionAdds, MessageAdds
<1>4. CASE RedrawOvertaken
  <2>1. ctx'.kind = "mixed"
    BY <1>4 DEF RedrawOvertaken, Mixed
  <2> QED BY <2>1 DEF Accounts
<1> QED BY <1>1, <1>2, <1>3, <1>4

(* The counts agree in every state. *)
LEMMA AccountsInvariant == Spec => []Accounts(ctx)
<1>1. Init => Accounts(ctx)
  BY ZeroedAccounts DEF Init
<1>2. IInv /\ Accounts(ctx) /\ [Next]_vars => Accounts(ctx)'
  BY SignTransactionAccounts, SignMessageAccounts, OtherCommandsAccounts, DecisionAccounts,
     EventAccounts DEF Next
<1> QED BY <1>1, <1>2, Invariance, PTL DEF Spec

(* The counters, the two hash contexts and the printable copy agree after every chunk,
   whatever length a client announces and whatever it sends behind a review: the count
   of a message is its length modulo 2^32, and its length if it is printable. *)
THEOREM AccountsAlwaysAgree == Spec => []AccountsAgree
<1>1. IInv /\ Accounts(ctx) => AccountsAgree
  BY DEF IInv, ContextIsOfRequest, BelongsTo, Accounts, TransactionAdds, MessageAdds,
     AccountsAgree
<1> QED BY <1>1, Invariance, AccountsInvariant, PTL

-----------------------------------------------------------------------------
(* Timer and staker proof *)

WholeTicks == {TICK * n : n \in 0..655}

\* The timer is a whole number of ticks and runs while a U2F reply is outstanding.
TimerRuns ==
  /\ u2fTimer \in WholeTicks
  /\ u2fTimer <= U2F_REQUEST_TIMEOUT
  /\ media = "U2F" => u2fTimer # 0

\* The key is written into the proof after the signature.
SignatureFirst(c) == c.kind = "tx" /\ c.stakerSignature = <<>> => c.stakerKey = <<>>

\* A proof that was written to is not an empty one.
EmptyIsUntouched(c) == c.kind = "tx" /\ c.parsed.proof = "empty" => c.stakerSignature = <<>>

RInv ==
  /\ TimerRuns
  /\ SignatureFirst(ctx)
  /\ InReview /\ ~overtaken => EmptyIsUntouched(ctx)
  /\ StakerProofIsConsistent

-----------------------------------------------------------------------------
(* Commands *)

\* How a command can end: in none of the ways with a signature, and with memory of two
\* kinds only if that is what it found or clients are not orderly.
Ends(m, sw, c, result) ==
  /\ Receive(m)
  /\ Orderly /\ c.kind = "mixed" => ctx.kind = "mixed"
  /\ \/ /\ Respond(sw, c, result) /\ result.kind \in {"none", "pk"}
        /\ sw = "SW_OK" => SignatureFirst(c)
     \/ /\ AwaitDecision(m, c) /\ c.kind # "none"
        /\ SignatureFirst(c) /\ EmptyIsUntouched(c)
     \/ AssertFails(c) /\ SignatureFirst(c)
CommandEnds == \E m \in Media : \E sw, c, result : Ends(m, sw, c, result)

(* An error is an end that leaves nothing. *)
LEMMA ErrorEnds ==
  ASSUME NEW m \in Media, Receive(m), NEW sw \in SyncErrors, NEW c, Respond(sw, c, NoResult)
  PROVE  CommandEnds
<1>1. NoResult.kind = "none" /\ Zeroed.kind = "none" /\ sw # "SW_OK"
  BY DEF NoResult, Zeroed, SyncErrors
<1>2. Respond(sw, Zeroed, NoResult)
  BY <1>1 DEF Respond
<1>3. Ends(m, sw, Zeroed, NoResult)
  BY <1>1, <1>2 DEF Ends
<1> QED BY <1>3 DEF CommandEnds

(* Memory of another request that a handler takes for its own. *)
LEMMA MisreadEnds ==
  ASSUME NEW m \in Media, Receive(m), NEW kind \in {"tx", "msg"}, NEW last,
         Misread(m, kind, last), Orderly => ctx.kind = "mixed"
  PROVE  CommandEnds
<1> DEFINE c == Mixed(kind)
<1>1. c.kind = "mixed" /\ SignatureFirst(c) /\ EmptyIsUntouched(c) /\ NoResult.kind = "none"
  BY DEF Mixed, SignatureFirst, EmptyIsUntouched, NoResult
<1> HIDE DEF c
<1>2. CASE \E sw \in SyncErrors : Respond(sw, c, NoResult)
  BY <1>2, ErrorEnds
<1>3. CASE Respond("SW_OK", c, NoResult) \/ AwaitDecision(m, c) \/ AssertFails(c)
  <2>1. Ends(m, "SW_OK", c, NoResult)
    BY <1>1, <1>3 DEF Ends
  <2> QED BY <2>1 DEF CommandEnds
<1> QED BY <1>2, <1>3 DEF Misread, SyncErrors, c

(* The last chunk of a transaction: an empty proof is one that was not written to. *)
LEMMA EndTransactionChunkEnds ==
  ASSUME NEW m \in Media, Receive(m), NEW tx \in TxContext, SignatureFirst(tx),
         NEW last, EndTransactionChunk(m, tx, last)
  PROVE  CommandEnds
<1>1. CASE Respond("SW_OK", tx, NoResult)
  <2>1. NoResult.kind = "none" /\ tx.kind = "tx"
    BY DEF NoResult, TxContext
  <2>2. Ends(m, "SW_OK", tx, NoResult)
    BY <1>1, <2>1 DEF Ends
  <2> QED BY <2>2 DEF CommandEnds
<1>2. CASE \E sw \in SyncErrors : Respond(sw, tx, NoResult)
  BY <1>2, ErrorEnds
<1>3. ASSUME NEW parsed \in ParseResults(tx),
             AwaitDecision(m, [tx EXCEPT !.parsed = parsed])
             \/ AssertFails([tx EXCEPT !.parsed = parsed])
      PROVE  CommandEnds
  <2> DEFINE p == [tx EXCEPT !.parsed = parsed]
  <2>1. /\ p.kind = tx.kind /\ p.kind = "tx" /\ p.parsed = parsed
        /\ p.stakerSignature = tx.stakerSignature /\ p.stakerKey = tx.stakerKey
    BY DEF TxContext
  <2>2. parsed.proof = "empty" => tx.stakerSignature = <<>>
    BY <1>3 DEF ParseResults
  <2>3. AwaitDecision(m, p) \/ AssertFails(p)
    BY <1>3
  <2> HIDE DEF p
  <2>4. SignatureFirst(p) /\ EmptyIsUntouched(p)
    BY <2>1, <2>2 DEF SignatureFirst, EmptyIsUntouched
  <2>5. Ends(m, NONE, p, NoResult)
    BY <2>1, <2>3, <2>4 DEF Ends
  <2> QED BY <2>5 DEF CommandEnds
<1> QED BY <1>1, <1>2, <1>3 DEF EndTransactionChunk, SyncErrors

(* Memory that is neither wiped nor mixed is of the client's current transmission. *)
LEMMA KindOfContext ==
  ASSUME IInv
  PROVE  ctx.kind \in {"none", "mixed"} \/ ctx.kind = request.kind
<1>1. ctx.kind \in {"none", "pk", "tx", "msg", "mixed"}
  BY DEF IInv, TypeOK, Contexts, Zeroed, PkContext, TxContext, MsgContext, MixedContext, Mixed
<1> QED BY <1>1 DEF IInv, ContextIsOfRequest, BelongsTo

(* Each chunk of a transaction: a later one leaves the proof as it was. *)
LEMMA SignTransactionEnds ==
  ASSUME IInv, RInv, SignTransaction
  PROVE  CommandEnds
<1>1. ASSUME NEW m \in Media, NEW data \in ApduData, NEW last \in BOOLEAN, NEW path \in Paths,
             NEW version \in TransactionVersions,
             HandleSignTransactionFirst(m, path, version, data, last)
      PROVE  CommandEnds
  <2> DEFINE tx == NewTransaction(path, version, data)
  <2>1. Receive(m)
    BY <1>1 DEF HandleSignTransactionFirst
  <2>2. tx \in TxContext /\ SignatureFirst(tx)
    BY NewTransactionType DEF NewTransaction, SignatureFirst
  <2>3. CASE \E sw \in SyncErrors : Respond(sw, ctx, NoResult)
    BY <2>1, <2>3, ErrorEnds
  <2>4. CASE EndTransactionChunk(m, tx, last)
    BY <2>1, <2>2, <2>4, EndTransactionChunkEnds
  <2> QED BY <1>1, <2>3, <2>4 DEF HandleSignTransactionFirst, SyncErrors
<1>2. ASSUME NEW m \in Media, NEW data \in ApduData, NEW last \in BOOLEAN,
             HandleSignTransactionMore(m, data, last)
      PROVE  CommandEnds
  <2> DEFINE base == IF ctx.kind = "tx" THEN ctx ELSE NewTransaction(NoPath, "LEGACY", <<>>)
             longer == [base EXCEPT !.rawTxLength = @ + DataLength(data)]
             tx == [longer EXCEPT !.rawTx = @ \o data]
  <2>1. Receive(m)
    BY <1>2 DEF HandleSignTransactionMore
  <2>2. base \in TxContext /\ SignatureFirst(base)
    <3>1. CASE ctx.kind = "tx"
      BY <3>1 DEF IInv, TypeOK, RInv, Contexts, Zeroed, PkContext, MsgContext, MixedContext, Mixed
    <3>2. CASE ctx.kind # "tx"
      <4>1. <<>> \in ApduData /\ "LEGACY" \in TransactionVersions
        BY DEF ApduData, TransactionVersions
      <4>2. base = NewTransaction(NoPath, "LEGACY", <<>>)
        BY <3>2
      <4>3. base \in TxContext
        BY <4>1, <4>2, NewTransactionType
      <4> QED BY <4>2, <4>3 DEF NewTransaction, SignatureFirst
    <3> QED BY <3>1, <3>2
  <2> HIDE DEF base
  <2>3. data \in Seq(Chunks) /\ DataLength(data) \in Nat
    BY ApduDataType
  <2>4. base.rawTx \o data \in Seq(Chunks) /\ base.rawTxLength + DataLength(data) \in Nat
    BY <2>2, <2>3 DEF TxContext
  <2>5. /\ tx \in TxContext
        /\ tx.kind = base.kind /\ tx.stakerSignature = base.stakerSignature
        /\ tx.stakerKey = base.stakerKey
    BY <2>2, <2>4 DEF TxContext
  <2>6. SignatureFirst(tx)
    BY <2>2, <2>5 DEF SignatureFirst
  <2>7. CASE \E sw \in SyncErrors, c \in {ctx, longer} : Respond(sw, c, NoResult)
    BY <2>1, <2>7, ErrorEnds
  <2>8. CASE EndTransactionChunk(m, tx, last)
    BY <2>1, <2>5, <2>6, <2>8, EndTransactionChunkEnds
  <2>9. CASE ctx.kind \notin {"none", "tx"} /\ Misread(m, "tx", last)
    <3>1. Orderly => ctx.kind = "mixed"
      <4>1. Orderly => request.kind = "tx"
        BY <1>2 DEF HandleSignTransactionMore, Continues
      <4> QED BY <2>9, <4>1, KindOfContext
    <3> QED BY <2>1, <2>9, <3>1, MisreadEnds
  <2> QED BY <1>2, <2>7, <2>8, <2>9 DEF HandleSignTransactionMore, SyncErrors, base
<1> QED BY <1>1, <1>2 DEF SignTransaction

(* An address is no transaction. *)
LEMMA GetPublicKeyEnds ==
  ASSUME GetPublicKey
  PROVE  CommandEnds
<1>1. PICK m \in Media, path \in Paths, returnSignature \in BOOLEAN, confirm \in BOOLEAN :
        HandleGetPublicKey(m, path, returnSignature, confirm)
  BY DEF GetPublicKey
<1> DEFINE pk == [kind |-> "pk", publicKey |-> path, returnSignature |-> returnSignature]
<1>2. Receive(m)
  BY <1>1 DEF HandleGetPublicKey
<1>3. pk.kind = "pk" /\ SignatureFirst(pk) /\ EmptyIsUntouched(pk)
  BY DEF SignatureFirst, EmptyIsUntouched
<1>4. \/ \E sw \in SyncErrors : Respond(sw, ctx, NoResult)
      \/ Respond("SW_OK", pk, pk)
      \/ AwaitDecision(m, pk)
  BY <1>1 DEF HandleGetPublicKey, SyncErrors
<1> HIDE DEF pk
<1>5. CASE Respond("SW_OK", pk, pk)
  <2>1. Ends(m, "SW_OK", pk, pk)
    BY <1>2, <1>3, <1>5 DEF Ends
  <2> QED BY <2>1 DEF CommandEnds
<1>6. CASE AwaitDecision(m, pk)
  <2>1. Ends(m, NONE, pk, NoResult)
    BY <1>2, <1>3, <1>6 DEF Ends
  <2> QED BY <2>1 DEF CommandEnds
<1> QED BY <1>2, <1>4, <1>5, <1>6, ErrorEnds

(* Neither is a message. *)
LEMMA MessageChunkEnds ==
  ASSUME NEW m \in Media, Receive(m), NEW msg \in MsgContext, NEW data \in ApduData,
         NEW last, HandleMessageChunk(m, msg, data, last)
  PROVE  CommandEnds
<1> DEFINE added == AddToMessage(msg, data)
           type == DefaultDisplayType(added)
           complete == [added EXCEPT !.phase = "confirm", !.displayType = type]
<1>1. \/ \E sw \in SyncErrors, c \in {msg, added} : Respond(sw, c, NoResult)
      \/ Respond("SW_OK", added, NoResult)
      \/ AwaitDecision(m, complete)
  BY DEF HandleMessageChunk, SyncErrors
<1>2. added \in MsgContext
  BY AddToMessageType
<1> HIDE DEF added, type
<1>3. added.kind = "msg" /\ complete.kind = "msg"
  BY <1>2 DEF MsgContext
<1> HIDE DEF complete
<1>4. CASE Respond("SW_OK", added, NoResult)
  <2>1. Ends(m, "SW_OK", added, NoResult)
    BY <1>3, <1>4 DEF Ends, SignatureFirst, NoResult
  <2> QED BY <2>1 DEF CommandEnds
<1>5. CASE AwaitDecision(m, complete)
  <2>1. Ends(m, NONE, complete, NoResult)
    BY <1>3, <1>5 DEF Ends, SignatureFirst, EmptyIsUntouched
  <2> QED BY <2>1 DEF CommandEnds
<1> QED BY <1>1, <1>4, <1>5, ErrorEnds

(* So each chunk of a message ends its command without a transaction. *)
LEMMA SignMessageEnds ==
  ASSUME IInv, RInv, SignMessage
  PROVE  CommandEnds
<1>1. ASSUME NEW m \in Media, NEW path \in Paths, NEW flags \in SUBSET DisplayFlags,
             NEW length \in MessageLengths, NEW data \in ApduData, NEW last \in BOOLEAN,
             HandleSignMessageFirst(m, path, flags, length, data, last)
      PROVE  CommandEnds
  <2>1. Receive(m)
    BY <1>1 DEF HandleSignMessageFirst
  <2>2. CASE \E sw \in SyncErrors : Respond(sw, ctx, NoResult)
    BY <2>1, <2>2, ErrorEnds
  <2>3. CASE HandleMessageChunk(m, NewMessage(path, flags, length), data, last)
    BY <2>1, <2>3, NewMessageType, MessageChunkEnds
  <2> QED BY <1>1, <2>2, <2>3 DEF HandleSignMessageFirst, SyncErrors
<1>2. ASSUME NEW m \in Media, NEW data \in ApduData, NEW last \in BOOLEAN,
             HandleSignMessageMore(m, data, last)
      PROVE  CommandEnds
  <2>1. Receive(m)
    BY <1>2 DEF HandleSignMessageMore
  <2>2. CASE \E sw \in SyncErrors : Respond(sw, ctx, NoResult)
    BY <2>1, <2>2, ErrorEnds
  <2>3. CASE Preparing /\ HandleMessageChunk(m, ctx, data, last)
    <3>1. ctx \in MsgContext
      BY <2>3 DEF Preparing, IInv, TypeOK, Contexts, Zeroed, PkContext, TxContext, MixedContext,
         Mixed
    <3> QED BY <2>1, <2>3, <3>1, MessageChunkEnds
  <2>4. CASE Respond("SW_OK", ctx, NoResult)
    <3>1. Ends(m, "SW_OK", ctx, NoResult)
      BY <2>1, <2>4 DEF Ends, RInv, NoResult
    <3> QED BY <3>1 DEF CommandEnds
  <2>5. CASE Continues("msg", data) /\ ~Preparing /\ ~IsTooLong(data) /\ Misread(m, "msg", last)
    <3>1. Orderly => data # <<>> /\ ctx.kind # "msg" /\ request.kind = "msg"
      BY <1>2, <2>5 DEF HandleSignMessageMore, Continues
    <3>2. Orderly => ctx.kind # "none"
      BY <2>5, <3>1 DEF IsTooLong
    <3>3. Orderly => ctx.kind = "mixed"
      BY <3>1, <3>2, KindOfContext
    <3> QED BY <2>1, <2>5, <3>3, MisreadEnds
  <2> QED BY <1>2, <2>2, <2>3, <2>4, <2>5 DEF HandleSignMessageMore, SyncErrors
<1> QED BY <1>1, <1>2 DEF SignMessage

(* So does a command that no handler is called for. *)
LEMMA UnsupportedEnds == Unsupported => CommandEnds
  BY ErrorEnds DEF Unsupported, HandleUnsupported, SyncErrors

-----------------------------------------------------------------------------
(* Preservation *)

(* The heartbeat is due after a whole number of ticks. *)
LEMMA TimeoutIsWhole ==
  /\ U2F_REQUEST_TIMEOUT \in WholeTicks
  /\ U2F_REQUEST_TIMEOUT # 0 /\ U2F_REQUEST_TIMEOUT <= U2F_REQUEST_TIMEOUT
  /\ 0 \in WholeTicks /\ 0 <= U2F_REQUEST_TIMEOUT
<1>1. PICK n \in 1..655 : U2F_REQUEST_TIMEOUT = TICK * n
  BY TimeoutAssumption
<1>2. 0 = TICK * 0 /\ TICK = 100
  BY DEF TICK
<1> QED BY <1>1, <1>2 DEF WholeTicks

(* However a command ends, the timer is armed for what becomes outstanding, and a
   review on the screen is overtaken. *)
LEMMA CommandPreserves ==
  ASSUME IInv, RInv, CommandEnds
  PROVE  RInv'
<1>1. PICK m \in Media : \E sw, c, result : Ends(m, sw, c, result)
  BY DEF CommandEnds
<1>2. PICK sw, c, result : Ends(m, sw, c, result)
  BY <1>1
<1>3. media = NONE
  BY <1>2 DEF Ends, Receive
<1>4. CASE /\ Respond(sw, c, result) /\ result.kind \in {"none", "pk"}
           /\ sw = "SW_OK" => SignatureFirst(c)
  <2>1. TimerRuns'
    BY <1>3, <1>4, TimeoutIsWhole DEF Respond, TimerRuns, NONE
  <2>2. SignatureFirst(ctx)'
    BY <1>4 DEF Respond, SignatureFirst, Zeroed
  <2>3. ~(InReview /\ ~overtaken)'
    BY <1>4 DEF Respond, InReview
  <2>4. StakerProofIsConsistent'
    BY <1>4 DEF Respond, StakerProofIsConsistent, NoResult
  <2> QED BY <2>1, <2>2, <2>3, <2>4 DEF RInv
<1>5. CASE AwaitDecision(m, c) /\ SignatureFirst(c) /\ EmptyIsUntouched(c)
  <2>1. TimerRuns'
    BY <1>5, TimeoutIsWhole DEF AwaitDecision, TimerRuns
  <2>2. SignatureFirst(ctx)' /\ EmptyIsUntouched(ctx)'
    BY <1>5 DEF AwaitDecision, SignatureFirst, EmptyIsUntouched
  <2>3. StakerProofIsConsistent'
    BY <1>5 DEF AwaitDecision, StakerProofIsConsistent, NoReply, NoResult
  <2> QED BY <2>1, <2>2, <2>3 DEF RInv
<1>6. CASE AssertFails(c) /\ SignatureFirst(c)
  <2>1. TimerRuns'
    BY <1>3, <1>6, TimeoutIsWhole DEF AssertFails, TimerRuns, NONE
  <2>2. SignatureFirst(ctx)' /\ ~(InReview /\ ~overtaken)'
    BY <1>6 DEF AssertFails, SignatureFirst, InReview
  <2>3. StakerProofIsConsistent'
    BY <1>6 DEF AssertFails, StakerProofIsConsistent, NoReply, NoResult
  <2> QED BY <2>1, <2>2, <2>3 DEF RInv
<1> QED BY <1>4, <1>5, <1>6, <1>2 DEF Ends

(* A reset leaves neither a review nor a command that awaits its reply. *)
LEMMA ResetKeepsReplies ==
  ASSUME RInv, Reset, UNCHANGED reply
  PROVE  RInv'
<1>1. TimerRuns'
  BY TimeoutIsWhole DEF Reset, TimerRuns, NONE
<1>2. SignatureFirst(ctx)' /\ ~InReview'
  BY DEF Reset, SignatureFirst, Zeroed, InReview, Menu
<1>3. StakerProofIsConsistent'
  BY DEF RInv, StakerProofIsConsistent
<1> QED BY <1>1, <1>2, <1>3 DEF RInv

(* A decision leaves the review and ends the command. *)
LEMMA FinalizeKeepsReplies ==
  ASSUME RInv, NEW sw, NEW c, NEW result, FinalizeAsyncReply(sw, c, result), SignatureFirst(c),
         sw = "SW_OK" /\ result.kind = "tx" /\ result.returnsStakerSignature =>
           /\ result.stakerSignature =
                <<[key |-> result.key, rawTx |-> result.rawTx, stakerKey |-> <<>>]>>
           /\ result.stakerKey = <<result.key>>
  PROVE  RInv'
<1>1. CASE Reset /\ UNCHANGED reply
  BY <1>1, ResetKeepsReplies
<1>2. CASE /\ reply' = [sw |-> sw, result |-> IF sw = "SW_OK" THEN result ELSE NoResult]
           /\ ctx' = c
           /\ media' = NONE
           /\ screen' = IF UI = "nbgl" THEN Status ELSE Menu
           /\ UNCHANGED u2fTimer
  <2>1. TimerRuns'
    BY <1>2 DEF RInv, TimerRuns, NONE
  <2>2. SignatureFirst(ctx)' /\ ~InReview'
    BY <1>2 DEF SignatureFirst, InReview, Status, Menu
  <2>3. StakerProofIsConsistent'
    BY <1>2 DEF StakerProofIsConsistent, NoResult
  <2> QED BY <2>1, <2>2, <2>3 DEF RInv
<1> QED BY <1>1, <1>2 DEF FinalizeAsyncReply

(* Approving a staking transaction: the signature covers an empty proof, as nothing was
   written to it before. *)
LEMMA SignReviewedKeepsReplies ==
  ASSUME IInv, RInv, Reviewing("tx"), ~overtaken, SignReviewedTransaction
  PROVE  RInv'
<1> DEFINE creates == ctx.parsed.proof = "empty"
           withSignature == [ctx EXCEPT !.stakerSignature = <<StakerSignature(ctx)>>]
           withProof == [withSignature EXCEPT !.stakerKey = <<ctx.path>>]
           signed == IF creates THEN withProof ELSE ctx
           result == [kind |-> "tx", key |-> ctx.path, rawTx |-> signed.rawTx,
                      stakerSignature |-> signed.stakerSignature,
                      stakerKey |-> signed.stakerKey,
                      returnsStakerSignature |-> creates]
<1>1. ctx \in TxContext /\ ctx.kind = "tx" /\ InReview
  BY ReviewedContext, ReviewingKind
     DEF Contexts, Zeroed, PkContext, MsgContext, MixedContext, Mixed
<1>2. /\ withSignature.stakerSignature = <<StakerSignature(ctx)>>
      /\ withProof.stakerSignature = <<StakerSignature(ctx)>>
      /\ withProof.stakerKey = <<ctx.path>> /\ withProof.rawTx = ctx.rawTx
  BY <1>1 DEF TxContext
<1>3. \A c \in {ctx, withSignature, withProof} : SignatureFirst(c)
  <2>1. <<StakerSignature(ctx)>> # <<>>
    OBVIOUS
  <2>2. SignatureFirst(withSignature)
    BY <1>2, <2>1 DEF SignatureFirst
  <2>3. SignatureFirst(withProof)
    BY <1>2, <2>1 DEF SignatureFirst
  <2> QED BY <2>2, <2>3 DEF RInv
<1>4. ASSUME result.returnsStakerSignature
      PROVE  /\ result.stakerSignature =
                  <<[key |-> result.key, rawTx |-> result.rawTx, stakerKey |-> <<>>]>>
             /\ result.stakerKey = <<result.key>>
  <2>1. creates /\ signed = withProof
    BY <1>4
  <2>2. ctx.stakerKey = <<>>
    BY <1>1, <2>1 DEF RInv, EmptyIsUntouched, SignatureFirst
  <2>3. StakerSignature(ctx) = [key |-> ctx.path, rawTx |-> ctx.rawTx, stakerKey |-> <<>>]
    BY <2>2 DEF StakerSignature
  <2>4. /\ result.key = ctx.path /\ result.rawTx = signed.rawTx
        /\ result.stakerSignature = signed.stakerSignature /\ result.stakerKey = signed.stakerKey
    OBVIOUS
  <2> HIDE DEF withProof, signed, result
  <2> QED BY <1>2, <2>1, <2>3, <2>4
<1>5. signed \in {ctx, withSignature, withProof}
  OBVIOUS
<1> HIDE DEF withSignature, withProof, signed, result, creates
<1>6. CASE \E c \in {withSignature, withProof} :
             FinalizeAsyncReply("SW_CRYPTOGRAPHY_FAIL", c, NoResult)
  BY <1>3, <1>6, FinalizeKeepsReplies
<1>7. CASE FinalizeAsyncReply("SW_OK", signed, result)
  BY <1>3, <1>4, <1>5, <1>7, FinalizeKeepsReplies
<1> QED BY <1>6, <1>7 DEF SignReviewedTransaction, withSignature, withProof, signed, result, creates

(* The other decisions create no staker signature. *)
LEMMA DecisionKeepsReplies ==
  ASSUME IInv, RInv, UserDecides
  PROVE  RInv'
<1>1. SignatureFirst(ctx) /\ SignatureFirst(Mixed("tx"))
  BY DEF RInv, SignatureFirst, Mixed
<1>2. ASSUME NEW sw, NEW c \in {ctx, Mixed("tx")}, NEW result,
             FinalizeAsyncReply(sw, c, result),
             result.kind # "tx" \/ ~result.returnsStakerSignature
      PROVE  RInv'
  BY <1>1, <1>2, FinalizeKeepsReplies
<1>3. CASE OnTransactionApproved
  <2> DEFINE result == [kind |-> "tx", key |-> ctx.path, rawTx |-> ctx.rawTx,
                        stakerSignature |-> ctx.stakerSignature, stakerKey |-> ctx.stakerKey,
                        returnsStakerSignature |-> FALSE]
  <2>1. ~result.returnsStakerSignature /\ NoResult.kind # "tx" /\ Foreign("tx").kind # "tx"
    BY DEF NoResult, Foreign
  <2> HIDE DEF result
  <2>2. CASE FinalizeAsyncReply("SW_CRYPTOGRAPHY_FAIL", ctx, NoResult)
    BY <1>2, <2>1, <2>2
  <2>3. CASE ~overtaken /\ SignReviewedTransaction
    BY <1>3, <2>3, SignReviewedKeepsReplies DEF OnTransactionApproved
  <2>4. CASE FinalizeAsyncReply("SW_OK", ctx, result)
    BY <1>2, <2>1, <2>4
  <2>5. ASSUME NEW sw, NEW c \in {ctx, Mixed("tx")}, FinalizeAsyncReply(sw, c, Foreign("tx"))
        PROVE  RInv'
    BY <1>2, <2>1, <2>5
  <2>6. CASE SignOvertakenTransaction
    BY <2>4, <2>5, <2>6, Zenon DEF SignOvertakenTransaction, result
  <2> QED BY <1>3, <2>2, <2>3, <2>6, Zenon DEF OnTransactionApproved
<1>4. CASE OnRejected
  BY <1>2, <1>4 DEF OnRejected, NoResult
<1>5. CASE OnAddressApproved
  <2> DEFINE result == IF ctx.kind = "pk" THEN ctx ELSE Foreign("pk")
  <2>1. result.kind # "tx" /\ FinalizeAsyncReply("SW_OK", ctx, result)
    BY <1>5 DEF OnAddressApproved, Foreign
  <2> QED BY <1>2, <2>1
<1>6. CASE OnMessageApproved
  <2> DEFINE result == [kind |-> "msg", key |-> ctx.path, over |-> ctx.prefixedMessageHash]
  <2>1. result.kind # "tx" /\ NoResult.kind # "tx" /\ Foreign("msg").kind # "tx"
    BY DEF NoResult, Foreign
  <2> HIDE DEF result
  <2>2. \/ FinalizeAsyncReply("SW_CRYPTOGRAPHY_FAIL", ctx, NoResult)
        \/ FinalizeAsyncReply("SW_OK", ctx, result)
        \/ FinalizeAsyncReply("SW_OK", ctx, Foreign("msg"))
    BY <1>6 DEF OnMessageApproved, result
  <2> QED BY <1>2, <2>1, <2>2
<1> QED BY <1>3, <1>4, <1>5, <1>6 DEF UserDecides

(* A tick leaves a whole number of ticks: 0, which answers the command, or more. *)
LEMMA TickKeepsReplies ==
  ASSUME RInv, Tick
  PROVE  RInv'
<1>1. PICK n \in 0..655 : u2fTimer = 100 * n
  BY DEF RInv, TimerRuns, WholeTicks, TICK
<1>2. n # 0
  BY <1>1 DEF Tick
<1>3. u2fTimer' = 100 * (n - 1) /\ n - 1 \in 0..655
  BY <1>1, <1>2 DEF Tick, TICK
<1>4. u2fTimer' \in WholeTicks /\ u2fTimer' <= u2fTimer /\ u2fTimer' \in Int /\ u2fTimer \in Int
  BY <1>1, <1>2, <1>3 DEF WholeTicks, TICK
<1>5. u2fTimer' <= U2F_REQUEST_TIMEOUT
  <2>1. U2F_REQUEST_TIMEOUT \in Int
    BY TimeoutAssumption DEF TICK
  <2> QED BY <1>4, <2>1 DEF RInv, TimerRuns
<1>6. media' = "U2F" => u2fTimer' # 0
  BY DEF Tick, NONE
<1>7. TimerRuns'
  BY <1>4, <1>5, <1>6 DEF TimerRuns
<1>8. SignatureFirst(ctx)' /\ (InReview /\ ~overtaken => EmptyIsUntouched(ctx))'
  BY DEF RInv, Tick, SignatureFirst, InReview, EmptyIsUntouched
<1>9. StakerProofIsConsistent'
  BY DEF RInv, Tick, StakerProofIsConsistent, NoResult
<1> QED BY <1>7, <1>8, <1>9 DEF RInv

(* A client that continues has its heartbeat armed anew. *)
LEMMA KeepAliveKeepsReplies ==
  ASSUME RInv, NEW m \in Media, HandleKeepAlive(m)
  PROVE  RInv'
<1>1. TimerRuns'
  BY TimeoutIsWhole DEF HandleKeepAlive, TimerRuns
<1>2. SignatureFirst(ctx)' /\ (InReview /\ ~overtaken => EmptyIsUntouched(ctx))'
  BY DEF RInv, HandleKeepAlive, SignatureFirst, InReview, EmptyIsUntouched
<1>3. StakerProofIsConsistent'
  BY DEF HandleKeepAlive, StakerProofIsConsistent, NoReply, NoResult
<1> QED BY <1>1, <1>2, <1>3 DEF RInv

(* What the rest does touches neither timer nor transaction. *)
LEMMA OtherEventsKeepReplies ==
  ASSUME IInv, RInv,
         SwitchDisplay \/ RedrawOvertaken \/ DismissStatus \/ Quit \/ UNCHANGED vars
  PROVE  RInv'
<1>1. UNCHANGED <<u2fTimer, media, reply>>
  BY DEF SwitchDisplay, SwitchMessageDisplay, RedrawOvertaken, DismissStatus, Quit, vars
<1>2. TimerRuns' /\ StakerProofIsConsistent'
  BY <1>1 DEF RInv, TimerRuns, StakerProofIsConsistent
<1>3. CASE SwitchDisplay
  <2>1. ctx.kind = "msg" /\ ctx \in Contexts
    BY <1>3, ReviewedContext, ReviewingKind DEF SwitchDisplay, SwitchMessageDisplay
  <2>2. ctx'.kind = "msg"
    BY <1>3, <2>1 DEF SwitchDisplay, SwitchMessageDisplay, Contexts, Zeroed, PkContext, TxContext, MixedContext, Mixed,
         MsgContext
  <2> QED BY <1>2, <2>2 DEF RInv, SignatureFirst, EmptyIsUntouched
<1>4. CASE DismissStatus \/ Quit \/ UNCHANGED vars
  <2>1. ctx' = ctx /\ (InReview' => InReview) /\ overtaken' = overtaken
    BY <1>4 DEF DismissStatus, Quit, vars, InReview, Menu
  <2> QED BY <1>2, <2>1 DEF RInv, SignatureFirst, EmptyIsUntouched
<1>5. CASE RedrawOvertaken
  <2>1. ctx'.kind = "mixed"
    BY <1>5 DEF RedrawOvertaken, Mixed
  <2> QED BY <1>2, <2>1 DEF RInv, SignatureFirst, EmptyIsUntouched
<1> QED BY <1>3, <1>4, <1>5

(* When the app starts nothing is outstanding. *)
LEMMA InitRInv == Init => RInv
<1> SUFFICES ASSUME Init PROVE RInv
  OBVIOUS
<1>1. TimerRuns
  BY TimeoutIsWhole DEF Init, TimerRuns, NONE
<1>2. SignatureFirst(ctx) /\ ~InReview
  BY DEF Init, SignatureFirst, Zeroed, InReview, Menu
<1>3. StakerProofIsConsistent
  BY DEF Init, StakerProofIsConsistent, NoReply, NoResult
<1> QED BY <1>1, <1>2, <1>3 DEF RInv

(* Every command and every event preserves the invariant of replies. *)
LEMMA NextRInv == IInv /\ RInv /\ [Next]_vars => RInv'
<1> SUFFICES ASSUME IInv, RInv, [Next]_vars PROVE RInv'
  OBVIOUS
<1>1. CASE GetPublicKey \/ SignTransaction \/ SignMessage \/ Unsupported
  BY <1>1, GetPublicKeyEnds, SignTransactionEnds, SignMessageEnds, UnsupportedEnds, CommandPreserves
<1>2. CASE UserDecides
  BY <1>2, DecisionKeepsReplies
<1>3. CASE Tick
  BY <1>3, TickKeepsReplies
<1>4. CASE RenewReply
  BY <1>4, KeepAliveKeepsReplies DEF RenewReply
<1>5. CASE LoseUsbPower
  BY <1>5, ResetKeepsReplies DEF LoseUsbPower
<1>6. CASE SwitchDisplay \/ RedrawOvertaken \/ DismissStatus \/ Quit \/ UNCHANGED vars
  BY <1>6, OtherEventsKeepReplies
<1> QED BY <1>1, <1>2, <1>3, <1>4, <1>5, <1>6 DEF Next

(* It holds in every state. *)
LEMMA RepliesInvariant == Spec => []RInv
  BY InitRInv, NextRInv, Invariance, PTL DEF Spec

-----------------------------------------------------------------------------
(* Heartbeats and staker proofs *)

(* However long the user takes and whatever the client sends, a U2F command is either
   answered or its heartbeat is due within U2F_REQUEST_TIMEOUT; the timer, a uint16_t that
   is decreased and compared with 0, never skips it. *)
THEOREM HeartbeatsAreArmed == Spec => []HeartbeatArmed
<1>1. RInv => HeartbeatArmed
  <2>1. \A t \in WholeTicks : t \in Nat
    BY DEF WholeTicks, TICK
  <2>2. U2F_REQUEST_TIMEOUT \in Nat
    BY <2>1, TimeoutIsWhole
  <2> QED BY <2>1, <2>2 DEF RInv, TimerRuns, HeartbeatArmed
<1> QED BY <1>1, RepliesInvariant, PTL

(* A staker signature that is delivered was made over the transaction with the empty
   proof, and delivered with the key that made it, whatever was written into the proof
   by decisions and failures before. *)
THEOREM StakerProofsAreConsistent == Spec => []StakerProofIsConsistent
<1>1. RInv => StakerProofIsConsistent
  BY DEF RInv
<1> QED BY <1>1, RepliesInvariant, PTL

-----------------------------------------------------------------------------
(* Orderly clients on transports without heartbeats *)

\* A review that nothing can overtake, and that every outstanding reply comes from.
Undisturbed ==
  /\ ~interrupted /\ ~overtaken
  /\ ctx.kind # "mixed"
  /\ reply.result.kind # "foreign"
  /\ OutstandingReplyIsReviewed

(* Without interruptions there is no review left when a command is received. *)
LEMMA CommandsAreUndisturbed ==
  ASSUME Orderly, IInv, Undisturbed, CommandEnds
  PROVE  Undisturbed'
<1>1. PICK m \in Media : \E sw, c, result : Ends(m, sw, c, result)
  BY DEF CommandEnds
<1>2. PICK sw, c, result : Ends(m, sw, c, result)
  BY <1>1
<1>3. media = NONE /\ ~InReview /\ c.kind # "mixed"
  BY <1>2 DEF Ends, Receive, Undisturbed, IInv, ReviewIsPending
<1>4. NoResult.kind = "none" /\ Zeroed.kind = "none"
  BY DEF NoResult, Zeroed
<1>5. CASE Respond(sw, c, result) /\ result.kind \in {"none", "pk"}
  BY <1>3, <1>4, <1>5 DEF Respond, Undisturbed, OutstandingReplyIsReviewed
<1>6. CASE AwaitDecision(m, c)
  BY <1>3, <1>4, <1>6 DEF AwaitDecision, Undisturbed, OutstandingReplyIsReviewed, InReview, Review,
     NoReply
<1>7. CASE AssertFails(c)
  BY <1>3, <1>4, <1>7 DEF AssertFails, Undisturbed, OutstandingReplyIsReviewed, NoReply
<1> QED BY <1>2, <1>5, <1>6, <1>7 DEF Ends

(* A review is left only with its reply. *)
LEMMA DecisionsAreUndisturbed ==
  ASSUME IInv, Undisturbed, UserDecides
  PROVE  Undisturbed'
<1>1. ASSUME NEW sw, NEW c, NEW result, FinalizeAsyncReply(sw, c, result),
             c.kind # "mixed", result.kind # "foreign"
      PROVE  Undisturbed'
  <2>1. media' = NONE /\ ~overtaken' /\ interrupted' = interrupted
    BY <1>1 DEF FinalizeAsyncReply, Reset
  <2>2. ctx'.kind # "mixed"
    BY <1>1 DEF FinalizeAsyncReply, Reset, Zeroed
  <2>3. reply'.result.kind # "foreign"
    BY <1>1 DEF FinalizeAsyncReply, Undisturbed, NoResult
  <2> QED BY <2>1, <2>2, <2>3 DEF Undisturbed, OutstandingReplyIsReviewed
<1>2. ctx.kind # "mixed" /\ NoResult.kind # "foreign" /\ ~overtaken
  BY DEF Undisturbed, NoResult
<1>3. CASE OnRejected
  BY <1>1, <1>2, <1>3 DEF OnRejected
<1>4. CASE OnAddressApproved
  <2>1. ctx.kind = "pk"
    BY <1>2, <1>4, ReviewingKind DEF OnAddressApproved
  <2> QED BY <1>1, <1>2, <1>4, <2>1 DEF OnAddressApproved
<1>5. CASE OnMessageApproved
  <2> DEFINE result == [kind |-> "msg", key |-> ctx.path, over |-> ctx.prefixedMessageHash]
  <2>1. result.kind # "foreign"
    OBVIOUS
  <2>2. \/ FinalizeAsyncReply("SW_CRYPTOGRAPHY_FAIL", ctx, NoResult)
        \/ FinalizeAsyncReply("SW_OK", ctx, result)
    BY <1>2, <1>5 DEF OnMessageApproved
  <2> HIDE DEF result
  <2> QED BY <1>1, <1>2, <2>1, <2>2
<1>6. CASE OnTransactionApproved
  <2>1. CASE FinalizeAsyncReply("SW_CRYPTOGRAPHY_FAIL", ctx, NoResult)
    BY <1>1, <1>2, <2>1
  <2>2. CASE SignReviewedTransaction
    <3> DEFINE creates == ctx.parsed.proof = "empty"
               withSignature == [ctx EXCEPT !.stakerSignature = <<StakerSignature(ctx)>>]
               withProof == [withSignature EXCEPT !.stakerKey = <<ctx.path>>]
               signed == IF creates THEN withProof ELSE ctx
               result == [kind |-> "tx", key |-> ctx.path, rawTx |-> signed.rawTx,
                          stakerSignature |-> signed.stakerSignature,
                          stakerKey |-> signed.stakerKey,
                          returnsStakerSignature |-> creates]
    <3>1. ctx \in TxContext
      BY <1>2, <1>6, ReviewedContext, ReviewingKind
         DEF OnTransactionApproved, Contexts, Zeroed, PkContext, MsgContext, MixedContext, Mixed
    <3>2. /\ withSignature.kind # "mixed" /\ withProof.kind # "mixed" /\ signed.kind # "mixed"
          /\ result.kind # "foreign"
      BY <3>1 DEF TxContext
    <3> HIDE DEF withSignature, withProof, signed, result, creates
    <3>3. \/ FinalizeAsyncReply("SW_CRYPTOGRAPHY_FAIL", withSignature, NoResult)
          \/ FinalizeAsyncReply("SW_CRYPTOGRAPHY_FAIL", withProof, NoResult)
          \/ FinalizeAsyncReply("SW_OK", signed, result)
      BY <2>2 DEF SignReviewedTransaction, withSignature, withProof, signed, result, creates
    <3> QED BY <1>1, <1>2, <3>2, <3>3
  <2> QED BY <1>2, <1>6, <2>1, <2>2 DEF OnTransactionApproved
<1> QED BY <1>3, <1>4, <1>5, <1>6 DEF UserDecides

(* There are no heartbeats, so that no reply is renewed. *)
LEMMA EventsAreUndisturbed ==
  ASSUME Orderly, "U2F" \notin Media, IInv, Undisturbed,
         SwitchDisplay \/ RedrawOvertaken \/ RenewReply \/ DismissStatus \/ Quit \/ Tick
           \/ LoseUsbPower \/ UNCHANGED vars
  PROVE  Undisturbed'
<1>1. CASE SwitchDisplay
  <2>1. PICK type \in {"ASCII", "HEX", "HASH"} : SwitchMessageDisplay(type)
    BY <1>1 DEF SwitchDisplay
  <2>2. ctx \in MsgContext
    BY <2>1, ReviewedContext, ReviewingKind
       DEF SwitchMessageDisplay, Contexts, Zeroed, PkContext, TxContext, MixedContext, Mixed
  <2>3. ctx'.kind = "msg"
    BY <2>1, <2>2 DEF SwitchMessageDisplay, MsgContext
  <2>4. InReview' /\ UNCHANGED <<media, interrupted, overtaken, reply>>
    BY <2>1 DEF SwitchMessageDisplay, InReview, Review
  <2> QED BY <2>3, <2>4 DEF Undisturbed, OutstandingReplyIsReviewed
<1>2. ~RedrawOvertaken /\ ~RenewReply
  BY DEF RedrawOvertaken, RenewReply, HandleKeepAlive, Undisturbed
<1>3. ~Tick
  BY DEF Tick, IInv, TypeOK, NONE
<1>4. CASE DismissStatus \/ Quit \/ UNCHANGED vars
  BY <1>4 DEF DismissStatus, Quit, vars, Undisturbed, OutstandingReplyIsReviewed, InReview
<1>5. CASE LoseUsbPower
  BY <1>5 DEF LoseUsbPower, Reset, Zeroed, Undisturbed, OutstandingReplyIsReviewed
<1> QED BY <1>1, <1>2, <1>3, <1>4, <1>5

(* Nothing disturbs a review in any state. *)
LEMMA UndisturbedInvariant ==
  ASSUME Orderly, "U2F" \notin Media
  PROVE  Spec => []Undisturbed
<1>1. Init => Undisturbed
  BY DEF Init, Undisturbed, OutstandingReplyIsReviewed, Zeroed, NoReply, NoResult
<1>2. IInv /\ RInv /\ Undisturbed /\ [Next]_vars => Undisturbed'
  <2> SUFFICES ASSUME IInv, RInv, Undisturbed, [Next]_vars PROVE Undisturbed'
    OBVIOUS
  <2>1. CASE GetPublicKey \/ SignTransaction \/ SignMessage \/ Unsupported
    BY <2>1, GetPublicKeyEnds, SignTransactionEnds, SignMessageEnds, UnsupportedEnds,
       CommandsAreUndisturbed
  <2> QED BY <2>1, DecisionsAreUndisturbed, EventsAreUndisturbed DEF Next
<1> QED BY <1>1, <1>2, Invariance, RepliesInvariant, PTL DEF Spec

(* On a transport without U2F heartbeats, a client that keeps to the protocol and whose
   command is not answered yet can rely on a review being on the screen that leads to the
   answer.  With U2F it cannot: a keep-alive is renewed without looking at the screen. *)
THEOREM OutstandingRepliesAreReviewed ==
  ASSUME Orderly, "U2F" \notin Media
  PROVE  Spec => []OutstandingReplyIsReviewed
<1>1. Undisturbed => OutstandingReplyIsReviewed
  BY DEF Undisturbed
<1> QED BY <1>1, UndisturbedInvariant, PTL

(* There, the review on the screen always shows what is in ctx: no command is handled
   behind it. *)
THEOREM ReviewsAreNotOvertaken ==
  ASSUME Orderly, "U2F" \notin Media
  PROVE  Spec => [](InReview => screen.shown = ctx)
<1>1. Undisturbed /\ IInv => (InReview => screen.shown = ctx)
  BY DEF Undisturbed, IInv, ReviewShowsContext
<1> QED BY <1>1, UndisturbedInvariant, Invariance, PTL

-----------------------------------------------------------------------------
(* The consent of the user *)

cvars == <<ReviewedPayload, GrantedPayload, ReviewWasOvertaken>>

(* What a message review displays is all of the message, in each display type. *)
LEMMA DisplayedIsHashed ==
  ASSUME NEW msg, NEW req, msg.kind = "msg", BelongsTo(msg, req), CanDisplay(msg)
  PROVE  DisplayedData(msg) = msg.prefixedMessageHash.data
         /\ msg.messageLength = msg.prefixedMessageHash.length
<1>1. /\ msg.messageHash = req.data /\ msg.messageLength = req.length
      /\ msg.prefixedMessageHash = [length |-> req.length, data |-> req.data]
  BY DEF BelongsTo
<1>2. msg.prefixedMessageHash.data = req.data /\ msg.prefixedMessageHash.length = req.length
  BY <1>1
<1>3. msg.displayType \in {"ASCII", "HEX"} => msg.printableMessage = req.data
  BY DEF BelongsTo, CanDisplay
<1> QED BY <1>1, <1>2, <1>3 DEF DisplayedData

(* No signature has been delivered while a review or its reply is pending. *)
LEMMA PendingIsNotGranted ==
  ASSUME IInv, InReview \/ media # NONE
  PROVE  GrantedPayload = NoResult
<1>1. reply.result.kind \notin {"tx", "msg", "foreign"}
  BY DEF IInv, ReviewIsPending, NoResult
<1> QED BY <1>1 DEF GrantedPayload, Foreign

(* A result that is no signature grants nothing. *)
LEMMA NothingGranted ==
  ASSUME reply'.result.kind \in {"none", "pk"} \/ reply'.result = Foreign("pk")
  PROVE  GrantedPayload' = NoResult
BY DEF GrantedPayload, Foreign

(* There is a payload under review exactly if the review is not about an address. *)
LEMMA Reviewed ==
  /\ ~InReview => ReviewedPayload = NoResult
  /\ InReview /\ screen.shown.kind = "pk" => ReviewedPayload = NoResult
  /\ InReview /\ screen.shown.kind \in {"tx", "msg", "mixed"} => ReviewedPayload # NoResult
BY DEF ReviewedPayload, Displayed, NoResult

(* The payload under review is a matter of the screen only. *)
LEMMA SameScreen == UNCHANGED screen => UNCHANGED ReviewedPayload
BY DEF ReviewedPayload, Displayed, InReview, DisplayedData

(* The steps that do not overtake a review. *)
LEMMA ConsentSteps ==
  ASSUME Orderly /\ ReviewWasOvertaken' => ReviewWasOvertaken,
         \/ GrantedPayload' = NoResult /\ ReviewedPayload' # NoResult
         \/ GrantedPayload' = NoResult /\ ReviewedPayload' = NoResult
         \/ /\ ReviewedPayload # NoResult /\ ReviewedPayload' = NoResult
            /\ \/ GrantedPayload' = ReviewedPayload
               \/ ReviewWasOvertaken /\ GrantedPayload' # NoResult
  PROVE  [Consent!Next]_cvars
BY DEF Consent!Next, Consent!Ask, Consent!Grant, Consent!Withhold, Consent!NextRequest,
   Consent!StaysUndisturbed

(* A command launches a review, or overtakes one, or answers while there is none. *)
LEMMA CommandConsent ==
  ASSUME IInv, CommandEnds
  PROVE  [Consent!Next]_cvars /\ reply'.result.kind \in {"none", "pk"}
<1>1. PICK m \in Media : \E sw, c, result : Ends(m, sw, c, result)
  BY DEF CommandEnds
<1>2. PICK sw, c, result : Ends(m, sw, c, result)
  BY <1>1
<1>3. Orderly /\ c.kind = "mixed" => ReviewWasOvertaken
  BY <1>2 DEF Ends, ReviewWasOvertaken
<1>4. reply'.result.kind \in {"none", "pk"} /\ GrantedPayload' = NoResult
  <2>1. reply'.result.kind \in {"none", "pk"}
    BY <1>2 DEF Ends, Respond, AwaitDecision, AssertFails, NoReply, NoResult
  <2> QED BY <2>1, NothingGranted
<1>5. ctx' = c \/ ctx' = Zeroed
  BY <1>2 DEF Ends, Respond, AwaitDecision, AssertFails
<1>6. ctx'.kind = "mixed" => c.kind = "mixed"
  BY <1>5 DEF Zeroed
<1>7. CASE AwaitDecision(m, c)
  <2>1. ReviewWasOvertaken' => c.kind = "mixed"
    BY <1>6, <1>7 DEF AwaitDecision, ReviewWasOvertaken
  <2> QED BY <1>3, <1>4, <2>1, ConsentSteps
<1>8. CASE Respond(sw, c, result) \/ AssertFails(c)
  <2>1. screen' = screen /\ overtaken' = InReview
    BY <1>8 DEF Respond, AssertFails
  <2>2. ReviewedPayload' = ReviewedPayload
    BY <2>1, SameScreen
  <2>3. CASE ReviewedPayload = NoResult
    <3>1. ReviewWasOvertaken' => c.kind = "mixed"
      BY <1>6, <2>2, <2>3 DEF ReviewWasOvertaken
    <3> QED BY <1>3, <1>4, <2>2, <2>3, <3>1, ConsentSteps
  <2>4. CASE ReviewedPayload # NoResult
    <3>1. ReviewWasOvertaken'
      BY <2>1, <2>2, <2>4, Reviewed DEF ReviewWasOvertaken
    <3> QED BY <1>4, <2>2, <2>4, <3>1 DEF Consent!Next, Consent!Overtake
  <2> QED BY <2>3, <2>4
<1> QED BY <1>2, <1>4, <1>7, <1>8 DEF Ends

(* So does every command. *)
LEMMA CommandsConsent ==
  ASSUME IInv, RInv, GetPublicKey \/ SignTransaction \/ SignMessage \/ Unsupported
  PROVE  [Consent!Next]_cvars /\ reply'.result.kind \in {"none", "pk"}
BY GetPublicKeyEnds, SignTransactionEnds, SignMessageEnds, UnsupportedEnds, CommandConsent

(* A reset while a review or a reply is pending withholds the signature. *)
LEMMA ResetConsent ==
  ASSUME IInv, Reset, UNCHANGED reply, InReview \/ media # NONE
  PROVE  [Consent!Next]_cvars
<1>1. GrantedPayload' = NoResult
  BY PendingIsNotGranted DEF GrantedPayload
<1>2. ReviewedPayload' = NoResult
  BY Reviewed DEF Reset, Menu, ReviewedPayload, Displayed, InReview
<1>3. ~ReviewWasOvertaken'
  BY DEF Reset, Zeroed, ReviewWasOvertaken
<1> QED BY <1>1, <1>2, <1>3, ConsentSteps

(* A decision grants the payload under review, or anything if the review was overtaken,
   or withholds. *)
LEMMA DecisionConsent ==
  ASSUME IInv, InReview, NEW sw, NEW c, NEW result, FinalizeAsyncReply(sw, c, result),
         c.kind = "mixed" => ReviewWasOvertaken,
         \/ sw # "SW_OK"
         \/ result.kind = "pk" \/ result = Foreign("pk")
         \/ /\ ReviewedPayload # NoResult
            /\ (reply'.result = result =>
                 \/ GrantedPayload' = ReviewedPayload
                 \/ ReviewWasOvertaken /\ GrantedPayload' # NoResult)
  PROVE  [Consent!Next]_cvars
<1>1. CASE Reset /\ UNCHANGED reply
  BY <1>1, ResetConsent
<1>2. CASE /\ reply' = [sw |-> sw, result |-> IF sw = "SW_OK" THEN result ELSE NoResult]
           /\ ctx' = c
           /\ screen' = IF UI = "nbgl" THEN Status ELSE Menu
           /\ overtaken' = FALSE
  <2>1. ReviewedPayload' = NoResult
    BY <1>2 DEF Status, Menu, ReviewedPayload, Displayed, InReview
  <2>2. ReviewWasOvertaken' => ReviewWasOvertaken
    BY <1>2 DEF ReviewWasOvertaken
  <2>3. CASE sw # "SW_OK" \/ result.kind = "pk" \/ result = Foreign("pk")
    <3>1. reply'.result.kind \in {"none", "pk"} \/ reply'.result = Foreign("pk")
      BY <1>2, <2>3 DEF NoResult
    <3>2. GrantedPayload' = NoResult
      BY <3>1, NothingGranted
    <3> QED BY <2>1, <2>2, <3>2, ConsentSteps
  <2>4. CASE sw = "SW_OK" /\ result.kind # "pk" /\ result # Foreign("pk")
    <3>1. reply'.result = result
      BY <1>2, <2>4
    <3> QED BY <2>1, <2>2, <2>4, <3>1, ConsentSteps
  <2> QED BY <2>3, <2>4
<1> QED BY <1>1, <1>2 DEF FinalizeAsyncReply

(* What a review that was overtaken delivers is a signature over something. *)
LEMMA SomethingGranted ==
  ASSUME \/ reply'.result = Foreign("tx") \/ reply'.result = Foreign("msg")
         \/ reply'.result.kind \in {"tx", "msg"}
  PROVE  GrantedPayload' # NoResult
BY DEF GrantedPayload, NoResult, Foreign

(* A review with the approve button of a transaction or message is of a payload. *)
LEMMA ReviewingPayload ==
  ASSUME NEW kind \in {"tx", "msg"}, Reviewing(kind)
  PROVE  /\ InReview /\ ReviewedPayload # NoResult
         /\ overtaken => ReviewWasOvertaken
         /\ ctx.kind = "mixed" => ReviewWasOvertaken
BY Reviewed DEF Reviewing, Mixed, ReviewWasOvertaken

(* Approving a transaction that is displayed grants it. *)
LEMMA SignReviewedConsent ==
  ASSUME IInv, Reviewing("tx"), ~overtaken, SignReviewedTransaction
  PROVE  [Consent!Next]_cvars
<1> DEFINE creates == ctx.parsed.proof = "empty"
           withSignature == [ctx EXCEPT !.stakerSignature = <<StakerSignature(ctx)>>]
           withProof == [withSignature EXCEPT !.stakerKey = <<ctx.path>>]
           signed == IF creates THEN withProof ELSE ctx
           result == [kind |-> "tx", key |-> ctx.path, rawTx |-> signed.rawTx,
                      stakerSignature |-> signed.stakerSignature,
                      stakerKey |-> signed.stakerKey,
                      returnsStakerSignature |-> creates]
<1>1. ctx = screen.shown /\ ctx \in Contexts /\ InReview /\ screen.shown.kind = "tx"
  BY ReviewedContext, ReviewingKind
<1>2. ctx \in TxContext
  BY <1>1 DEF Contexts, Zeroed, PkContext, MsgContext, MixedContext, Mixed
<1>3. /\ result.kind = "tx" /\ result.key = ctx.path /\ result.rawTx = ctx.rawTx
      /\ result.returnsStakerSignature = (ctx.parsed.proof = "empty")
      /\ \A c \in {withSignature, withProof, signed} : c.kind # "mixed"
  BY <1>2 DEF TxContext
<1>4. ReviewedPayload = [kind |-> "tx", path |-> ctx.path, data |-> ctx.rawTx,
                         createsStakerProof |-> ctx.parsed.proof = "empty"]
  BY <1>1 DEF ReviewedPayload, Displayed
<1> HIDE DEF result
<1>5. ReviewedPayload # NoResult
  BY <1>4 DEF NoResult
<1>6. reply'.result = result => GrantedPayload' = ReviewedPayload
  BY <1>3, <1>4 DEF GrantedPayload
<1>7. \/ \E c \in {withSignature, withProof} :
           FinalizeAsyncReply("SW_CRYPTOGRAPHY_FAIL", c, NoResult)
      \/ FinalizeAsyncReply("SW_OK", signed, result)
  BY DEF SignReviewedTransaction, result
<1> HIDE DEF signed, withSignature, withProof
<1> QED BY <1>1, <1>3, <1>5, <1>6, <1>7, DecisionConsent

(* Approving a transaction grants it, or what overtook its review. *)
LEMMA TransactionConsent ==
  ASSUME IInv, OnTransactionApproved
  PROVE  [Consent!Next]_cvars
<1>1. /\ Reviewing("tx") /\ InReview /\ ReviewedPayload # NoResult
      /\ overtaken => ReviewWasOvertaken
      /\ ctx.kind = "mixed" => ReviewWasOvertaken
  BY ReviewingPayload DEF OnTransactionApproved
<1>2. CASE FinalizeAsyncReply("SW_CRYPTOGRAPHY_FAIL", ctx, NoResult)
  BY <1>1, <1>2, DecisionConsent
<1>3. CASE ~overtaken /\ SignReviewedTransaction
  BY <1>1, <1>3, SignReviewedConsent
<1>4. ASSUME overtaken, NEW sw, NEW c, NEW result, FinalizeAsyncReply(sw, c, result),
             result.kind = "tx" \/ result = Foreign("tx")
      PROVE  [Consent!Next]_cvars
  <2>1. reply'.result = result => GrantedPayload' # NoResult
    BY <1>4, SomethingGranted
  <2> QED BY <1>1, <1>4, <2>1, DecisionConsent
<1>5. CASE overtaken /\ SignOvertakenTransaction
  <2> DEFINE result == [kind |-> "tx", key |-> ctx.path, rawTx |-> ctx.rawTx,
                        stakerSignature |-> ctx.stakerSignature, stakerKey |-> ctx.stakerKey,
                        returnsStakerSignature |-> FALSE]
  <2>1. result.kind = "tx"
    OBVIOUS
  <2> HIDE DEF result
  <2>2. \/ FinalizeAsyncReply("SW_OK", ctx, result)
        \/ \E c, sw : FinalizeAsyncReply(sw, c, Foreign("tx"))
    BY <1>5, Zenon DEF SignOvertakenTransaction, result
  <2> QED BY <1>4, <1>5, <2>1, <2>2
<1> QED BY <1>2, <1>3, <1>5 DEF OnTransactionApproved

(* Approving a message grants it, or what overtook its review. *)
LEMMA MessageConsent ==
  ASSUME IInv, OnMessageApproved
  PROVE  [Consent!Next]_cvars
<1> DEFINE result == [kind |-> "msg", key |-> ctx.path, over |-> ctx.prefixedMessageHash]
<1>1. /\ Reviewing("msg") /\ InReview /\ ReviewedPayload # NoResult
      /\ overtaken => ReviewWasOvertaken
      /\ ctx.kind = "mixed" => ReviewWasOvertaken
  BY ReviewingPayload DEF OnMessageApproved
<1>2. CASE FinalizeAsyncReply("SW_CRYPTOGRAPHY_FAIL", ctx, NoResult)
  BY <1>1, <1>2, DecisionConsent
<1>3. CASE ~overtaken /\ FinalizeAsyncReply("SW_OK", ctx, result)
  <2>1. /\ ctx = screen.shown /\ screen.shown.kind = "msg" /\ CanDisplay(ctx)
        /\ BelongsTo(ctx, request)
    BY <1>1, <1>3, ReviewedContext, ReviewingKind DEF IInv, DisplayTypeIsPossible, Displayed
  <2>2. /\ DisplayedData(ctx) = ctx.prefixedMessageHash.data
        /\ ctx.messageLength = ctx.prefixedMessageHash.length
    BY <2>1, DisplayedIsHashed
  <2>3. ReviewedPayload = [kind |-> "msg", path |-> ctx.path,
                           length |-> ctx.messageLength, data |-> DisplayedData(ctx)]
    BY <1>1, <2>1 DEF ReviewedPayload, Displayed
  <2>4. reply'.result = result => GrantedPayload' = ReviewedPayload
    BY <2>2, <2>3 DEF GrantedPayload
  <2> HIDE DEF result
  <2> QED BY <1>1, <1>3, <2>4, DecisionConsent
<1>4. CASE overtaken /\ FinalizeAsyncReply("SW_OK", ctx, Foreign("msg"))
  <2>1. reply'.result = Foreign("msg") => GrantedPayload' # NoResult
    BY SomethingGranted
  <2> QED BY <1>1, <1>4, <2>1, DecisionConsent
<1> QED BY <1>2, <1>3, <1>4 DEF OnMessageApproved

(* Every decision of the user is a step of UserConsent. *)
LEMMA UserDecidesConsent ==
  ASSUME IInv, UserDecides
  PROVE  [Consent!Next]_cvars
<1>1. ctx.kind = "mixed" => ReviewWasOvertaken
  BY DEF ReviewWasOvertaken
<1>2. CASE OnRejected
  BY <1>1, <1>2, DecisionConsent DEF OnRejected
<1>3. CASE OnAddressApproved
  <2> DEFINE result == IF ctx.kind = "pk" THEN ctx ELSE Foreign("pk")
  <2>1. /\ FinalizeAsyncReply("SW_OK", ctx, result) /\ InReview
        /\ result.kind = "pk" \/ result = Foreign("pk")
    BY <1>3 DEF OnAddressApproved, Reviewing
  <2> HIDE DEF result
  <2> QED BY <1>1, <2>1, DecisionConsent
<1> QED BY <1>2, <1>3, TransactionConsent, MessageConsent DEF UserDecides

(* Switching the display type does not change what is displayed. *)
LEMMA SwitchConsent ==
  ASSUME IInv, NEW type \in {"ASCII", "HEX", "HASH"}, SwitchMessageDisplay(type)
  PROVE  UNCHANGED cvars
<1>1. /\ ctx = screen.shown /\ InReview /\ ctx.kind = "msg" /\ CanDisplay(ctx)
      /\ BelongsTo(ctx, request)
  BY ReviewedContext, ReviewingKind DEF SwitchMessageDisplay, IInv, DisplayTypeIsPossible, Displayed
<1>2. ctx \in MsgContext
  BY <1>1, ReviewedContext DEF Contexts, Zeroed, PkContext, TxContext, MixedContext, Mixed
<1>3. IInv' /\ request' = request /\ reply' = reply
  BY SwitchMessageDisplayPreserves DEF SwitchMessageDisplay
<1>4. /\ ctx' = [ctx EXCEPT !.displayType = type]
      /\ screen' = [view |-> "review", shown |-> ctx']
  BY DEF SwitchMessageDisplay, Review
<1>5. /\ ctx'.kind = "msg" /\ ctx'.path = ctx.path /\ ctx'.messageLength = ctx.messageLength
      /\ ctx'.prefixedMessageHash = ctx.prefixedMessageHash
  BY <1>1, <1>2, <1>4 DEF MsgContext
<1>6. CanDisplay(ctx') /\ BelongsTo(ctx', request')
  <2>1. InReview' /\ screen'.shown = ctx'
    BY <1>4 DEF InReview
  <2> QED BY <1>3, <1>5, <2>1 DEF IInv, DisplayTypeIsPossible, Displayed, ContextIsOfRequest,
             CanDisplay
<1>7. DisplayedData(ctx) = DisplayedData(ctx')
  BY <1>1, <1>5, <1>6, DisplayedIsHashed
<1>8. ReviewedPayload' = ReviewedPayload
  BY <1>1, <1>4, <1>5, <1>7 DEF ReviewedPayload, Displayed, InReview, DisplayedData
<1>9. UNCHANGED GrantedPayload
  BY <1>3 DEF GrantedPayload
<1>10. UNCHANGED ReviewWasOvertaken
  BY <1>1, <1>5 DEF SwitchMessageDisplay, ReviewWasOvertaken
<1> QED BY <1>8, <1>9, <1>10 DEF cvars

(* The remaining events neither grant nor replace a payload; a delivered signature is
   gone when the client renews its command. *)
LEMMA EventsConsent ==
  ASSUME IInv, RenewReply \/ RedrawOvertaken \/ DismissStatus \/ Quit \/ Tick \/ UNCHANGED vars
  PROVE  [Consent!Next]_cvars
<1>1. UNCHANGED ReviewedPayload
  <2>1. CASE DismissStatus
    <3>1. ~InReview /\ ~InReview'
      BY <2>1 DEF DismissStatus, Menu, InReview
    <3> QED BY <3>1 DEF ReviewedPayload, Displayed
  <2>2. CASE ~DismissStatus
    BY <2>2, SameScreen DEF RenewReply, HandleKeepAlive, RedrawOvertaken, Quit, Tick, vars
  <2> QED BY <2>1, <2>2
<1>2. UNCHANGED ReviewWasOvertaken
  <2>1. CASE RedrawOvertaken
    <3>1. ReviewWasOvertaken
      BY <2>1, ReviewingPayload DEF RedrawOvertaken
    <3>2. ReviewWasOvertaken'
      BY <2>1 DEF RedrawOvertaken, ReviewWasOvertaken, Mixed
    <3> QED BY <3>1, <3>2
  <2>2. CASE ~RedrawOvertaken
    <3>1. UNCHANGED <<ctx, overtaken>>
      BY <2>2 DEF RenewReply, HandleKeepAlive, DismissStatus, Quit, Tick, vars
    <3> QED BY <1>1, <3>1 DEF ReviewWasOvertaken
  <2> QED BY <2>1, <2>2
<1>3. CASE RenewReply
  <2>1. GrantedPayload' = NoResult
    BY <1>3, NothingGranted DEF RenewReply, HandleKeepAlive, NoReply, NoResult
  <2> QED BY <1>2, <2>1, ConsentSteps
<1>4. CASE Tick
  <2>1. GrantedPayload = NoResult
    BY <1>4, PendingIsNotGranted DEF Tick, NONE
  <2>2. GrantedPayload' = NoResult
    <3>1. reply' = reply \/ reply'.result = NoResult
      BY <1>4 DEF Tick
    <3>2. CASE reply' = reply
      BY <2>1, <3>2 DEF GrantedPayload
    <3>3. CASE reply'.result = NoResult
      BY <3>3, NothingGranted DEF NoResult
    <3> QED BY <3>1, <3>2, <3>3
  <2> QED BY <1>1, <1>2, <2>1, <2>2 DEF cvars
<1>5. CASE RedrawOvertaken \/ DismissStatus \/ Quit \/ UNCHANGED vars
  <2>1. UNCHANGED reply
    BY <1>5 DEF RedrawOvertaken, DismissStatus, Quit, vars
  <2>2. UNCHANGED GrantedPayload
    BY <2>1 DEF GrantedPayload
  <2> QED BY <1>1, <1>2, <2>2 DEF cvars
<1> QED BY <1>3, <1>4, <1>5

(* Every step of the app is a step of UserConsent or a stutter. *)
LEMMA NextConsent == IInv /\ RInv /\ [Next]_vars => [Consent!Next]_cvars
<1> SUFFICES ASSUME IInv, RInv, [Next]_vars
             PROVE  [Consent!Next]_cvars
  OBVIOUS
<1>1. CASE GetPublicKey \/ SignTransaction \/ SignMessage \/ Unsupported
  BY <1>1, CommandsConsent
<1>2. CASE UserDecides
  BY <1>2, UserDecidesConsent
<1>3. CASE SwitchDisplay
  BY <1>3, SwitchConsent DEF SwitchDisplay
<1>4. CASE RenewReply \/ RedrawOvertaken \/ DismissStatus \/ Quit \/ Tick \/ UNCHANGED vars
  BY <1>4, EventsConsent
<1>5. CASE LoseUsbPower
  <2>1. Reset /\ UNCHANGED reply /\ media # NONE
    BY <1>5 DEF LoseUsbPower, NONE
  <2> QED BY <2>1, ResetConsent
<1> QED BY <1>1, <1>2, <1>3, <1>4, <1>5 DEF Next

(* The app implements UserConsent, on all transports and whatever clients send: it
   delivers a signature only out of a review, at most once per review, and only for the
   payload under review unless a command was handled behind the review; no heartbeat,
   reset or failing call replaces the payload.  Of orderly clients, nothing but such a
   command makes a review overtaken. *)
THEOREM ConsentRefinement == Spec => ImplementsUserConsent
<1>1. Init => Consent!Init
  <2> SUFFICES ASSUME Init PROVE Consent!Init
    OBVIOUS
  <2>1. ReviewedPayload = NoResult
    BY DEF Init, Menu, ReviewedPayload, Displayed, InReview
  <2>2. GrantedPayload = NoResult
    BY DEF Init, NoReply, NoResult, GrantedPayload, Foreign
  <2>3. ~ReviewWasOvertaken
    BY DEF Init, Zeroed, ReviewWasOvertaken
  <2> QED BY <2>1, <2>2, <2>3 DEF Consent!Init
<1>2. IInv /\ RInv /\ [Next]_vars
        => [Consent!Next]_<<ReviewedPayload, GrantedPayload, ReviewWasOvertaken>>
  BY NextConsent DEF cvars
<1> QED BY <1>1, <1>2, Invariance, RepliesInvariant, PTL DEF Spec, Consent!Spec,
           ImplementsUserConsent

-----------------------------------------------------------------------------
(* What you see is what you sign *)

(* The reply that a decision delivers, if it does not lead to a reset. *)
LEMMA FinalizedReply ==
  ASSUME NEW sw, NEW c, NEW result, FinalizeAsyncReply(sw, c, result), reply' # reply
  PROVE  reply'.result = IF sw = "SW_OK" THEN result ELSE NoResult
<1>1. reply' = [sw |-> sw, result |-> IF sw = "SW_OK" THEN result ELSE NoResult]
  BY Zenon DEF FinalizeAsyncReply
<1> QED BY <1>1

(* Only an approval delivers a signature, or what is made of memory that holds
   something else. *)
LEMMA OnlyApprovalsDeliver ==
  ASSUME IInv, RInv, ~overtaken, [Next]_vars, reply' # reply,
         reply'.result.kind \notin {"none", "pk"}
  PROVE  OnTransactionApproved \/ OnMessageApproved
<1>1. CASE GetPublicKey \/ SignTransaction \/ SignMessage \/ Unsupported
  BY <1>1, CommandsConsent
<1>2. CASE OnRejected
  BY <1>2, FinalizedReply DEF OnRejected, NoResult
<1>3. CASE OnAddressApproved
  <2>1. ctx.kind = "pk"
    BY <1>3, ReviewedContext, ReviewingKind DEF OnAddressApproved
  <2> QED BY <1>3, <2>1, FinalizedReply DEF OnAddressApproved, NoResult
<1>4. CASE RenewReply \/ Tick
  BY <1>4 DEF RenewReply, HandleKeepAlive, Tick, NoReply, NoResult
<1>5. CASE SwitchDisplay \/ RedrawOvertaken \/ DismissStatus \/ Quit \/ LoseUsbPower
           \/ UNCHANGED vars
  BY <1>5 DEF SwitchDisplay, SwitchMessageDisplay, RedrawOvertaken, DismissStatus, Quit,
              LoseUsbPower, vars
<1> QED BY <1>1, <1>2, <1>3, <1>4, <1>5 DEF Next, UserDecides

(* The signature over a transaction covers what its review displayed. *)
LEMMA TransactionDelivery ==
  ASSUME IInv, ~overtaken, OnTransactionApproved, reply' # reply,
         reply'.result.kind # "none"
  PROVE  LET result == reply'.result
             tx == screen.shown
         IN /\ Displayed("tx")
            /\ result.kind = "tx"
            /\ result.key = tx.path
            /\ result.rawTx = tx.rawTx
            /\ result.returnsStakerSignature <=> tx.parsed.proof = "empty"
            /\ tx.parsed.proof # "empty" => result.stakerKey = tx.stakerKey
<1> DEFINE creates == ctx.parsed.proof = "empty"
           withSignature == [ctx EXCEPT !.stakerSignature = <<StakerSignature(ctx)>>]
           withProof == [withSignature EXCEPT !.stakerKey = <<ctx.path>>]
           signed == IF creates THEN withProof ELSE ctx
           result == [kind |-> "tx", key |-> ctx.path, rawTx |-> signed.rawTx,
                      stakerSignature |-> signed.stakerSignature,
                      stakerKey |-> signed.stakerKey,
                      returnsStakerSignature |-> creates]
<1>1. ctx = screen.shown /\ ctx \in Contexts /\ Displayed("tx")
  BY ReviewedContext, ReviewingKind DEF OnTransactionApproved, Displayed
<1>2. ctx \in TxContext
  BY <1>1 DEF Displayed, Contexts, Zeroed, PkContext, MsgContext, MixedContext, Mixed
<1>3. /\ result.kind = "tx" /\ result.key = ctx.path /\ result.rawTx = ctx.rawTx
      /\ result.returnsStakerSignature <=> ctx.parsed.proof = "empty"
      /\ ctx.parsed.proof # "empty" => result.stakerKey = ctx.stakerKey
  BY <1>2 DEF TxContext
<1>4. \/ \E c : FinalizeAsyncReply("SW_CRYPTOGRAPHY_FAIL", c, NoResult)
      \/ FinalizeAsyncReply("SW_OK", signed, result)
  BY DEF OnTransactionApproved, SignReviewedTransaction
<1> HIDE DEF signed, result
<1>5. reply'.result = result
  BY <1>4, FinalizedReply DEF NoResult
<1> QED BY <1>1, <1>3, <1>5

(* The signature over a message covers what its review displayed. *)
LEMMA MessageDelivery ==
  ASSUME IInv, ~overtaken, OnMessageApproved, reply' # reply,
         reply'.result.kind # "none"
  PROVE  /\ Displayed("msg")
         /\ reply'.result.kind = "msg"
         /\ reply'.result.key = screen.shown.path
         /\ reply'.result.over = [length |-> screen.shown.messageLength,
                                  data |-> DisplayedData(screen.shown)]
<1> DEFINE result == [kind |-> "msg", key |-> ctx.path, over |-> ctx.prefixedMessageHash]
<1>1. /\ ctx = screen.shown /\ Displayed("msg") /\ ctx.kind = "msg" /\ CanDisplay(ctx)
      /\ BelongsTo(ctx, request)
  BY ReviewedContext, ReviewingKind
     DEF OnMessageApproved, IInv, DisplayTypeIsPossible, Displayed
<1>2. ctx.prefixedMessageHash = [length |-> ctx.messageLength, data |-> DisplayedData(ctx)]
  <2>1. ctx.prefixedMessageHash = [length |-> request.length, data |-> request.data]
    BY <1>1 DEF BelongsTo
  <2> QED BY <1>1, <2>1, DisplayedIsHashed
<1>3. \/ FinalizeAsyncReply("SW_CRYPTOGRAPHY_FAIL", ctx, NoResult)
      \/ FinalizeAsyncReply("SW_OK", ctx, result)
  BY DEF OnMessageApproved
<1>4. result.kind = "msg" /\ result.key = ctx.path /\ result.over = ctx.prefixedMessageHash
  OBVIOUS
<1> HIDE DEF result
<1>5. reply'.result = result
  BY <1>3, FinalizedReply DEF NoResult
<1> QED BY <1>1, <1>2, <1>4, <1>5

(* Whatever clients send, and on all transports: a step that does not start from an
   overtaken review delivers a signature only out of a review, and the signature covers
   exactly the path and the data the review displayed, the default staker proof aside. *)
THEOREM UndisturbedIsSigned == Spec => [][~overtaken => DeliversTheSeen]_vars
<1>1. ASSUME IInv, RInv, [Next]_vars, ~overtaken, reply' # reply,
             reply'.result.kind \in {"tx", "msg", "foreign"}
      PROVE  DeliversTheSeen
  <2>1. CASE OnTransactionApproved
    BY <1>1, <2>1, TransactionDelivery DEF DeliversTheSeen, Delivers
  <2>2. CASE OnMessageApproved
    BY <1>1, <2>2, MessageDelivery DEF DeliversTheSeen, Delivers
  <2> QED BY <1>1, <2>1, <2>2, OnlyApprovalsDeliver
<1>2. IInv /\ RInv /\ [Next]_vars => [~overtaken => DeliversTheSeen]_vars
  BY <1>1 DEF DeliversTheSeen, Delivers
<1> QED BY <1>2, Invariance, RepliesInvariant, PTL DEF Spec

(* Of orderly clients, and on transports without heartbeats, a signature is delivered
   only out of a review, and covers exactly the path and the data the review
   displayed. *)
THEOREM SeenIsSigned ==
  ASSUME Orderly, "U2F" \notin Media
  PROVE  Spec => WhatYouSeeIsWhatYouSign
<1>1. Undisturbed => ~overtaken
  BY DEF Undisturbed
<1>2. [~overtaken => DeliversTheSeen]_vars /\ ~overtaken => [DeliversTheSeen]_vars
  OBVIOUS
<1> QED BY <1>1, <1>2, UndisturbedInvariant, UndisturbedIsSigned, PTL
       DEF WhatYouSeeIsWhatYouSign

=============================================================================
