# A TLA+ model of the Nimiq app for Ledger devices

The app signs Nimiq transactions and messages with keys that never leave the
device. What makes it correct is a chain: the bytes a client sends in pieces, the
memory they are collected in, the parsed fields, the entries on a small screen,
the user's decision and the bytes that are finally signed have to be about the
same thing, through errors, heartbeats, restarts and clients that lose track.
These modules model that chain.

## 1. The system

| Part | State it keeps | Operations | Interacts by |
|---|---|---|---|
| Command loop, `main.c` | `ctx` (one `req` union for all requests, `u2fTimer`), `G_io_apdu_buffer`, the SDK's `G_io_app.apdu_media` | `nimiq_main`, `handle_apdu`, one handler per instruction, `io_event`, `main` | commands from the client; events from the SDK inside `io_exchange`; launches reviews |
| Review callbacks, `main.c` | the same `ctx` | `on_rejected`, `on_address_approved`, `on_transaction_approved`, `on_message_approved`, `io_finalize_async_reply` | called by the UI, send the reply of a command the loop already left behind |
| Transaction parser, `nimiq_utils.c`, `nimiq_staking_utils.c`, `signature_proof.c` | `ctx.req.tx.parsed`, with pointers into `ctx.req.tx.rawTx` | `parse_tx` and one function per kind of data | called by `handle_sign_transaction`; its output is read by the UI and by `on_transaction_approved` |
| Vesting translation, `nimiq_utils.c` | part of `parsed` | `parse_vesting_creation_data` | called by `parse_tx` |
| Entry conditions, `nimiq_ux_utils_*.c` | none | one predicate per optional entry | read `parsed`, called by both UIs |
| BAGL UI, `nimiq_ux_bagl*.{c,h}` | the step on the screen, `printedMessage` | flows, optional steps, display type switch | reads `ctx`; calls the review callbacks, then the menu |
| NBGL UI, `nimiq_ux_nbgl.c` | review entries | review pages, status pages | reads `ctx`; calls the review callbacks |
| Public key requests, `main.c` | `ctx.req.pk`, `G_io_apdu_buffer` | `handle_get_public_key`, `set_result_get_public_key`, `on_address_approved` | reads a command from the buffer its reply is written to |
| Buffer readers, printing, base32, IBAN | none | `read_*`, `parse_amount`, `print_address`, `base32_encode` | called by the parser, the handlers and the address pages |

There is one thread. What interleaves are commands, the user, the 100 ms ticker
and USB events: while a reply is outstanding the loop sits in `io_exchange`, which
runs the UI and `io_event`, whose callbacks send the reply themselves.

What is hard here:

- a reply is given by another part of the code than the one that took the
  command, later, and possibly never or when the command is already answered by
  a heartbeat (`SW_KEEP_ALIVE`);
- the members of `ctx.req` share memory, and a review on the screen points into it;
- a heartbeat answers the command but leaves its review on the screen, so that the
  next command can change what the review points to;
- an error in any chunk wipes everything, but the client may not have noticed;
- approving a staking transaction changes the transaction while signing it;
- the review leaves out whatever is redundant, by conditions that depend on each other;
- the vesting translation multiplies numbers of the client's choice;
- the parser follows lengths of the client's choice through the input, and the staker
  proof is later written through pointers it has kept;
- the buffer of commands and replies keeps what earlier ones left in it;
- optional steps skip themselves, forward and backward.

The properties that make each part correct:

- command loop: a signature covers the client's last request, and just that; a
  reply is outstanding only while there is a review to give it; a U2F client is
  never left without an answer; the accounts of a transmission agree;
- review callbacks: signed is what was displayed; the two staking signatures fit;
- parser and entries: the displayed entries, and the missing ones, tell the effect;
- bytes: what is read is what the client wrote, all of it; the pointers
  of a proof stay in its own bytes; what is signed still reads as what was reviewed;
- printing: a text reads as the very number or address it was made of;
- public keys: a reply has the key, and the signature, of its own request;
- vesting: the entries determine the schedule; endless contracts are rejected;
- flows: visible steps only, all of them before the approval.

## 2. Modules

| Module | Models |
|---|---|
| `NimiqApp` | command loop, handlers, review callbacks, ticker, restart; the properties of the command loop and the mapping to `UserConsent` |
| `UserConsent` | what the app promises about signatures, in terms of payloads under review and granted |
| `Sums` | the sum of the first values of a function, which `NimiqApp` counts and `VestingCreation` compares with |
| `VestingCreation` | `parse_vesting_creation_data`, the vesting entries and the network's schedule |
| `TransactionReview` | `parse_tx`, the memory of the parsed transaction, the entries on both kinds of devices |
| `BaglFlow` | the review flows of devices with buttons |
| `BufferReader` | the readers of serialized data, as operators on cursors |
| `Printing` | `parse_amount`, `base32_encode`, `iban_check`, `print_address`, as operators from bytes to characters; how a reader takes the texts |
| `TransactionBytes` | `parse_tx` over bytes and `on_transaction_approved`, which changes them |
| `PublicKeyRequest` | the handling of `INS_GET_PUBLIC_KEY` in bytes, with the buffer of commands and replies |
| `ButtonDevice` | `NimiqApp` and `BaglFlow` composed: a device with two buttons |
| `SumsProofs` | induction in the form of least elements; what sums are; that what is defined step by step exists |
| `NimiqAppProofs` | the inductive invariants of `NimiqApp` and the safety properties they imply; the accounts of a transmission; `NimiqApp` implements `UserConsent`; heartbeats and staker proofs |
| `VestingCreationProofs` | endless contracts are rejected, the review tells the schedule |
| `TransactionReviewProofs` | the review tells the effect, on both kinds of devices the same |
| `TransactionBytesProofs` | lengths and pointers of every accepted transaction; amounts are printed exactly; what is signed reads as what was reviewed |
| `PublicKeyRequestProofs` | a reply is of its own request, whatever the buffer still holds; the address on the screen is that of its key |
| `BaglFlowProofs` | skipping rests on the nearest visible step, so that nothing is approved unseen |
| `ButtonDeviceProofs` | both components keep their invariants together; what is signed was seen |
| `MC*` | values of the constants for TLC |

Operators commented as "Faulty variant" are not part of the model. Each of them
changes one definition the way a plausible mistake in the code would, and
makes the property it is meant for fail when it takes the definition's place.

### NimiqApp

| Variable | In the code |
|---|---|
| `ctx` | `ctx.req`, tagged with the handler that last wrote it (`kind`) |
| `u2fTimer` | `ctx.u2fTimer` |
| `media` | `G_io_app.apdu_media`: the transport of the command that awaits its reply, or none |
| `screen` | menu, status page, or a review with the `ctx` it was launched with |
| `interrupted` | history: a client has got `SW_KEEP_ALIVE`, now or before, and may renew its command |
| `overtaken` | history: a command was handled behind the review on the screen |
| `running` | how the app ended, if it did |
| `reply`, `request` | history: the last reply; what the client sent since its last first chunk |

One action is one command from its arrival to its reply or its review
(`GetPublicKey`, `SignTransaction`, `SignMessage`, `RenewReply`,
`Unsupported`), one decision of the user (`UserDecides`), one switch of the display
type, or one event (`DismissStatus`, `Quit`, `Tick`, `LoseUsbPower`). `Respond` is
the tail of the loop in `nimiq_main`, wipe included; `FinalizeAsyncReply` is
`io_finalize_async_reply` with the UI callback that follows it; `Reset` is the
restart in `main`.

Abstractions: a payload is a sequence of chunks with lengths; a key is the path it
is derived from; a hash is what was hashed; a signature is a key and what was
signed. Whether input is well-formed, what the parser makes of a transaction
within the types its version allows, and whether a `cx_*` call fails are free
choices, so that every error path is taken from every state.

`Receive` takes any command while no other one awaits its reply, which is what the
SDK sees to, also if a review is on the screen. Only a heartbeat leaves one there with its
command answered. A command that is handled then changes `ctx` behind the review, which
makes it `overtaken`: `Respond` sets it, a new review in place of the old one and every end of a
review reset it. `INS_KEEP_ALIVE` does not change `ctx` and overtakes nothing. What the
buttons do in an overtaken review is modelled, too: they sign what is in `ctx` by then
(`SignOvertakenTransaction`), or print into it (`RedrawOvertaken`).

`ctx.req` has no tag in the code. A `P1_MORE` chunk for which the memory holds another kind of
request is handled with that memory as it is: `Misread`. What it holds after that, and what
is displayed and signed of it, is not told apart any more (`Mixed`, `Foreign`). The effects that
lengths read from such memory would have on memory behind `ctx.req` are not modelled.

What clients send is a constant. They send anything at any time, or are `Orderly`, which is
how `doc/nimiqapp.md` and the comments of `main.c` describe them:

- a `P1_MORE` chunk continues the transmission begun last, though maybe after a missed error;
  no message chunk that is empty, or that makes the length counter wrap, is sent unless
  the message is in progress;
- `INS_KEEP_ALIVE` is sent over U2F and some time after `SW_KEEP_ALIVE`.

Orderly clients, too, may begin another request after `SW_KEEP_ALIVE`, as one does that lost track
or was started anew.

### UserConsent and the refinement

`reviewed` is the payload on the screen and `granted` the payload of the last
reply. `NimiqApp` maps its screen and its last reply to them (`ReviewedPayload`,
`GrantedPayload`). For a message, what is reviewed is what is displayed, the
printable copy or the hash, while what is granted is what the prefixed hash was
fed with, so that the refinement relates the two accounts of `handle_sign_message`.
Heartbeats, display type switches and status pages are stutters; a rejection and a
reset are `Withhold`. A command behind a review is `Overtake`, after which `Grant` may be for
another payload. If clients are orderly, that is the only way in which a review is disturbed
(`StaysUndisturbed`).

### VestingCreation

`Translation` is the arithmetic of the parser, with every assignment taken modulo
the width of its variable. `ShownFields` are the entry conditions. `ShownVested` is
how a reader understands the entries, the omitted ones included, and `Vested` how
the network vests (external, from the comments in `nimiq_utils.c`). The main
property compares both at every block.

### TransactionReview

A transaction is a record of its fields. `ParseTx` follows the branches of
`parse_tx`; `Written` is the union the branches write into after it was set to
zero: a field of another alternative of the union is garbage. `BaglEntries` and
`NbglEntries` are the lists of entries, in the order of the flows and of
the pages. `Says` is how a reader understands them: the values shown with a label,
or what it means that the label is missing. `ReviewTellsEffect` compares that with
the fields of the transaction. Vesting parameters are one value here. The difference of an
HTLC's timeout and the start height is taken modulo the width of its variable, as it wraps
for a timeout that has passed.

### BufferReader and Printing

A cursor is the pointer and the remaining length that each reader of the code advances,
with the piece that was read last. Pieces are pointers into the input: the code copies
nothing either. A failed read fails all reads behind it, as the callers return then.
Booleans, varints and vectors are the code's compositions of these reads.

An amount is its eight bytes, from which `ParseAmount` makes digits the way the code
does, padding, point and stripped zeros included. `Base32Encode` keeps the code's `int` of 32
bits, which is shifted and never cleared: what leaves it at the top is lost, and what
gets to its topmost bit is its sign (`ShiftedLeft`, what the compilers in use make of a signed
overflow). `IbanCheck` is the division in pieces of
nine digits. `ReadAmount`, `Base32Decode` and `IsValidIban` are how a reader takes
the texts; the properties compare in that direction.

### TransactionBytes

| Variable | In the code |
|---|---|
| `rawTx`, `version` | `ctx.req.tx.rawTx` up to `rawTxLength`, `transactionVersion` |
| `parsed` | `ctx.req.tx.parsed`, with the pointers of the signature proof |
| `status` | what became of the last request |
| `sent`, `signed` | history: the transaction that the client encoded; what the signatures cover |

The parser takes the same branches as the one of `TransactionReview`, but over
positions in the input. `ParserReadsWhatWasSent` connects the two: the fields made of
the bytes are those that `TransactionReview` makes of the transaction a client encoded, so
that what is shown there of the review holds for bytes. Of vesting parameters, only whether their amounts can be
printed is decided here (`HasPrintableSteps`); whether the schedule ends below the
largest block number is left to `VestingCreation` (`ExceedsBlocks`), so that this parser accepts
schedules of which that one rejects some. `Overwrite` is the copying
through the proof's pointers. Requests are complete here, and one follows
another (`Begin`); how chunks become a request, and a proof that an earlier decision has
left half written, are subjects of `NimiqApp`.

### PublicKeyRequest

`buffer` is the front of `G_io_apdu_buffer`: a command is written over what was there, and
the code reads on where the command ends if its lengths say so. `pk` is `ctx.req.pk`,
which is not cleared by a request that succeeds. What was `asked` is taken from the command that
was sent, by its own bytes alone (`AskedBy`, with `PathIn` and `MessageIn`); what is
requested of the device is what `ReadRequest` takes from the buffer. The properties compare replies with the
former. Derivation,
signature and hash are constants. `Faults` are the calls that can fail.

### BaglFlow

A flow is a sequence of steps with conditions. `Rest` follows the skipping of the
optional step macros, `Printed` the init functions that use the shared
`printedMessage`. `seen` is the history of displayed steps and contents. The
flow engine itself belongs to the SDK and is modelled from how the macros use
it. `ArePossible` lists which conditions exclude each other. `Reset` is the restart in
`main` in the middle of a review.

### ButtonDevice

A command that awaits a decision launches the flow of what it left in `ctx`, with the
conditions of the message in `ctx`, or, for a transaction, with all optional steps that
can be displayed together or none. Approving needs both: the flow on its approve step,
and the callback of `NimiqApp`. Both modules keep the display type of a message;
`FlowIsOfContext` says that they agree, and that a step of the flow that switches it is
one the command loop can take. The steps of a flow read `ctx` when they are displayed: a flow that
was overtaken is not followed (`LeaveFlow`), and its buttons may do what `NimiqApp` allows.

## 3. Runs

| Run | Constants | Shows |
|---|---|---|
| `Usb` | touch screen, USB HID, 2 paths, 3 chunks of 1 or 2 bytes, up to 3 chunks in a transmission, orderly clients | type correctness and the safety properties; what is seen is what is signed; a user who decides concludes every review |
| `Tunnel` | buttons, U2F and Bluetooth, 1 path, 2 chunks of 2 bytes, up to 2 of them in a transmission, clients that send anything | the inductive invariant, the refinement, also while the user switches the display of a message; the heartbeat is armed and answers every U2F command |
| `Vesting` | integers of 6 and 36 values, all parameters | the schedule is told, endless contracts are rejected |
| `TransactionReview` | two or three values per field, every kind of data and combination of flags | the effect is told, on both devices the same |
| `BaglFlow` | all flows, all possible combinations of conditions | nothing unseen is approved |
| `TransactionBytes` | real sizes; transactions of every type, and bytes that encode none | fields are read where they were written, amounts are exact, what is signed reads as what was reviewed |
| `PublicKeyRequest` | real sizes but for the buffer; paths of 1, 2 and 10 numbers, messages around each limit, two commands | a reply is of what its own command asks for and of the address that was shown |
| `ButtonDevice` | USB HID and U2F, 1 path, 3 chunks, messages of 1 and 2 bytes, orderly clients | unless overtaken, the flow is that of the request, and nothing is signed of which a step was not displayed |

Runs that violate a property the code states about itself:

| Run | What happens |
|---|---|
| `LostReview` | The user decides after the heartbeat: the decision finds no command, the app resets, and the `INS_KEEP_ALIVE` that follows waits for a review that is gone. `main.c:696-698` promises a reply that "can eventually be resolved". |
| `OvertakenReview` | On U2F, another `INS_SIGN_TX` comes between `SW_KEEP_ALIVE` and `INS_KEEP_ALIVE`. It is stored in `ctx.req.tx` (`main.c:506-518`) while the review of the first request stays on the screen, and the user's decision is then about the second one (`main.c:213-217`). `doc/nimiqapp.md:110` says that the command "shows the details of a transaction to the user and signs it upon confirmation". |
| `LegacyContract` | A legacy vesting or HTLC creation passes the parser and fails the assert of `nimiq_ux_nbgl.c:329-333`, which "should not happen". |
| `VerificationPrefix` | A verification message shorter than "dummy-data:" is compared with what follows it in the buffer (`main.c:378`). Bytes of an earlier command can complete the prefix, so that the message does not start with it, against `main.c:358-359`. |

### Why the bounds are enough

The raw transaction buffer holds 3 bytes and a printable message 2, with chunks of
1 and 2 bytes: transmissions fit exactly, fit with room, and exceed by one, in one
chunk or in several; messages of 3 bytes are displayed as hash only. Chunks are
ASCII or binary, so that every order of both occurs. Three chunks let a client miss
an error, go on and fill the buffer again. Two paths tell a signature with the
wrong key; one suffices where keys are not compared. The heartbeat comes after two
ticks, so that a decision can come before, between and after. `MaxTransmission`
bounds how much data a client sends in one transmission, the only counter of the model without a
limit in the code. `UINT32_SIZE` is 5, the least that the assumptions allow with these
buffers: messages of 3 bytes are so near to it that a chunk of two makes the counter wrap, which
the properties have to survive. In `Tunnel` the clients do what they want, which multiplies the
states: chunks of two bytes, text or binary data, of which one fits the transaction's buffer and
two do not, and messages of one and of two chunks, one displayed and one hashed only. The two
runs have the two user interfaces: the status page of the touch screen is in `Usb`, the steps that
switch the display of a message, and print again what a review was overtaken by, in `Tunnel`.

In `VestingCreation` the widths are 6 and 36, which keeps their relation: products
of two `uint32_t`, and their sum with a third one, fit a `uint64_t`. Amounts up to twice the printable ones and the
largest `uint64_t` make each check decide both ways. In `TransactionReview`, `UINT32_SIZE` is 16
and timeouts lie in the past, below the threshold and above it, so that a wrapped difference would be
seen. In `TransactionBytes` amounts are the numbers on either side of every power of ten, 0, the
largest that is printed and one more. Malformed requests are one byte too short or too
long, as a whole or in the recipient data, in the other version's format, with a continued
varint, with a type of proof or a merkle path that is not supported, or empty, for a
sample of each type. In `PublicKeyRequest`, `MaxCommands` is 2: one command that leaves
something behind, and one that may meet it. `BUFFER_LENGTH` is 50: the header, the
longest path and the prefix fit. The keys have addresses without letters,
of letters only and mixed, so that the number of digits of the IBAN check takes its
extremes; of their twenty bytes, the encoder's `int` loses sixteen. In `ButtonDevice` a transmission is one
chunk, as how they are put together is the subject of `Usb`: a text, binary data and a text that is too long
to be displayed; the heartbeat comes after one tick. The other modules have
no counters; each field has the values the code tells apart, and one more where
it compares two fields.

Deadlock is checked where the system goes on forever. `NimiqApp` and
`ButtonDevice` may stop (quit, or a failed assert), `VestingCreation` parses once and
`PublicKeyRequest` receives `MaxCommands` commands; their runs do not check it.

### Fairness

- `FairSpec`, in run `Usb`: the user eventually decides on a review that stays on the
  screen. It is an assumption about the user, and the only one `EveryReviewIsConcluded`
  needs. Without U2F in use: with it, the property does not hold, which is
  what run `LostReview` shows.
- `TickingSpec`, in run `Tunnel`: the device delivers its ticker events, every 100 ms, as
  `io_event` relies on. `EveryU2FCommandIsAnswered` follows from it; nothing is assumed of
  the user.

Nothing is assumed of the client: it may stop at any time.

## 4. Proofs

All theorems are about every value of the constants that the named assumptions allow.
TLC evaluates these assumptions in the runs, and checks the inductive invariant of
`NimiqApp` in run `Tunnel`. `Property` stands for `Spec => []Property` below.

| Module | Theorems | State |
|---|---|---|
| `NimiqAppProofs` | `Invariance`, `TypeCorrectness`, `RawTransactionsFit`, `DisplayTypesArePossible`, `ResultsMatchRequests`, `ReviewsShowContext` | `IInv`, `TypeOK`, `RawTransactionFits`, `DisplayTypeIsPossible`, `ResultMatchesRequest`, `ReviewShowsContext` |
| | `AccountsAlwaysAgree` | `AccountsAgree` |
| | `ConsentRefinement` | `Spec => ImplementsUserConsent` |
| | `UndisturbedIsSigned` | `Spec => [][~overtaken => DeliversTheSeen]_vars` |
| | `OutstandingRepliesAreReviewed`, `ReviewsAreNotOvertaken`, `SeenIsSigned` | `OutstandingReplyIsReviewed`, `InReview => screen.shown = ctx`, `Spec => WhatYouSeeIsWhatYouSign`, if clients are orderly and `"U2F"` is not among the transports |
| | `HeartbeatsAreArmed`, `StakerProofsAreConsistent` | `HeartbeatArmed`, `StakerProofIsConsistent` |
| `VestingCreationProofs` | `VestingTypeCorrect`, `UnreachableEndsAreRejected`, `PeriodsEndWithLastStep`, `ReviewTellsVesting` | `TypeOK`, `RejectsUnreachableEnds`, `PeriodEndsWithLastStep`, `ReviewTellsSchedule` |
| `TransactionReviewProofs` | `ParsedTypesAreCorrect`, `OnlyEmptyProofsAreFilledIn`, `BothDevicesAgree`, `ReviewsTellEffect` | `TypeOK`, `ProofIsFilledInOnlyIfEmpty`, `DevicesAgree`, `ReviewTellsEffect` |
| `TransactionBytesProofs` | `BytesTypeCorrect`, `TransactionLengths`, `ProofPointersInBounds`, `AmountsReadExactly`, `SignedReadsLikeReview` | `TypeOK`, `LengthsAsDocumented`, `ProofLiesInData`, `AmountsAreExact`, `SignedReadsAsReviewed` |
| `PublicKeyRequestProofs` | `RepliesAreOfTheirRequest`, `ShownAddressIsOfTheRepliedKey` | `RepliesAreOfRequest`, `ShownAddressIsOfRepliedKey` |
| `BaglFlowProofs` | `OnlyVisibleStepsAreShown`, `ButtonsGoToNearest`, `BufferIsOfStep`, `ApprovedIsSeen` | `RestsOnVisibleStep`, `Spec => NavigatesVisibleSteps`, `PrintedMessageIsOfStep`, `Spec => NothingIsApprovedUnseen` |
| `ButtonDeviceProofs` | `DeviceRunsCommandLoop`, `DeviceRunsFlows` | `DeviceSpec` implies the specifications of `NimiqApp` and of `BaglFlow` |
| | `FlowsAreOfContext`, `SignedIsSeen` | `DeviceSpec => []FlowIsOfContext`, `DeviceSpec => SignedOnlyAfterSeen` |

### What is assumed

- `NimiqApp`: `NoPath` is no path; chunks have 1 to 255 bytes; a printable message plus a
  chunk stays below the width of a `uint32_t` (4 GiB, against a few hundred bytes on the
  device); `U2F_REQUEST_TIMEOUT` is a multiple of the tick within 16 bits (28000 in the
  Makefile). Nothing is assumed of the lengths that clients announce.
- `OutstandingRepliesAreReviewed`, `ReviewsAreNotOvertaken` and `SeenIsSigned` are about orderly clients and
  devices without U2F. With U2F the first and the last are false, and the runs `LostReview` and
  `OvertakenReview` show what follows. The other theorems of `NimiqApp` are about all clients and
  transports, and say themselves what they do not promise for an overtaken review.
- `VestingCreation`: the wide integer has the square of the values of the narrow one, and the
  largest printable amount is one of them (`WidthAssumption`).
- `TransactionReview` (`TransactionAssumption`): amounts, heights and timeouts are natural
  numbers, a staker and the signer of a proof are no empty text. All contents are arbitrary.
- `TransactionBytes`: requests have one of the two versions, and consist of bytes
  (`RequestsAssumption`); a key has 32 bytes and a signature 64, and the account's key does not consist of zeros
  (`AccountAssumption`): zeros are what `is_empty_default_signature_proof` takes for a missing proof.
- `PublicKeyRequest`: the data of a command consists of bytes and fits the buffer behind the
  header (`CommandAssumption`); the keys and signatures that are derived consist of bytes, in
  their lengths (`KeyAssumption`), and an address has the twenty bytes that
  `public_key_to_address` takes of the hash (`AddressAssumption`).

### The arguments

*`NimiqApp`.* None of the safety properties is inductive alone. That an SW_OK
reply matches the request needs that the context does (`ContextIsOfRequest`): memory
written since the last wipe holds all that the client sent, or has no path, because
the wipe came in the middle of a transmission. A context without a path
can be reviewed, but no key is derived for it. That a decision signs what is
displayed needs that `ctx` did not change behind the review unless that is `overtaken`
(`ReviewShowsContext`), and that memory of two kinds, from which anything may be signed, is never under a
review that is not (`ReviewIsPending`): a review stays up only while its reply is outstanding or
interrupted, and displays what a handler left in `ctx`. The refinement needs in addition that nothing was granted while a
review is pending, and that what a message review displays is all of what was
hashed (`DisplayedIsHashed`), which follows from `DisplayTypeIsPossible` and the
message part of `ContextIsOfRequest`. `IInv` is the conjunction of all these.

The proof goes action by action. Commands end in `Respond`, `AwaitDecision` or
`AssertFails`, decisions in `FinalizeAsyncReply`: each of these has a lemma, and a
handler's lemma shows that it meets the conditions.

For the accounts, `Accounts` says of a context, and of the one under review, that the
counter is the sum of the chunks behind it (`TotalLength`, a sum over a sequence), for a message
up to the width of the counter and exactly for one that is copied for display, and that a
message under review is complete. The remainders of sums are in `SumsProofs`. `Undisturbed` says for orderly clients without U2F that nothing is
ever interrupted, overtaken or mixed. For heartbeats and staker proofs, `RInv` adds that the timer is a
whole number of ticks within the timeout, so that it is 0 before it could wrap, and that a
proof with a key has a signature, too, while a proof that is reviewed as empty has none
(`SignatureFirst`, `EmptyIsUntouched`). A command can end in few ways (`CommandEnds`), none of
which delivers a signature.

*`VestingCreation`.* `VInv` says that what was parsed is the translation of the contract,
and that the status tells whether the parser accepts it. The checks come in an order in
which each of them makes the next product exact: that of the number of steps makes the
number of blocks fit, that of the last block follows. So the parser rejects exactly
the contracts that still lock something at the last block there is. For the schedule, a
contract that vests later is split into the steps that vest nothing but the excess over its
funds (`Lag`) and those that vest funds (`Steps`); `Over` says how many of the latter are over,
and the sum of what they vest is what the network has vested. Quotients and products are
nonlinear: each fact about them is a lemma of its own.

*`TransactionReview`.* `PInv` says that the memory under review is a result of parsing the
transaction under review, over zeroed memory. Each branch of the parser is one operator that
says when it is taken and what it writes, and the entries of a type are shown to read
nothing but what its branch wrote (`Holds`). Both lists of entries are concatenations of
optional entries; what they say is computed part by part.

*`TransactionBytes`.* The readers conserve the sum of position and
remaining length (`Advanced`, `Follows`). Followed through the reads of the envelope
and of each type of data, with the checks that nothing is left over, this gives the
length of an accepted transaction (`AcceptedLengths`) and puts its proof at the end of
the recipient data (`ProofIsInTransaction`). Overwriting a piece keeps the length and
leaves other bytes alone. The inductive invariant says no more than that what is
reviewed is one of the requests, as parsed.

For the amounts, the envelope has its fields at positions that follow from the length of the
data (`EnvelopePieces`). The loop of `parse_amount` makes a chain of quotients
(`IsChain`): multiplied by ten, with the digit added, each of them gives the number before
it, byte by byte, because the carries undo the remainders of `idiv10` (`UndoesDivision`). So reading the
digits in reverse rebuilds the bytes. An amount that is safe is below 10^16, and each quotient is
below the next smaller power of ten: the loop ends within its 16 digits, with
nothing left of the number (`DigitsOfAmount`). Stripping zeros takes away no other digit, and
reading the text puts them back (`StrippedText`, `ReadStripped`).

For what is signed, `DifferAt` says where two inputs may differ, which is the key and the
signature of the proof. Each read of the parser, followed in order, is one of bytes in front of them,
between them or behind them, so that it gives the same (`...ReadTheSame`): the envelope, the
data of the type, and the type and merkle path of the proof. The fields then differ in the
proof only.

*`PublicKeyRequest`.* The buffer holds anything behind the current command. The lengths in
a command are compared with the command's own length before a request is accepted, so a request
that is accepted was read within it, and is what `AskedBy` takes from the command as it was sent (`RequestIsOfCommand`): what earlier commands left
decides at most about a rejection, which is what run `VerificationPrefix` shows. `PkInv` says
that while an address is reviewed, and once there was a reply, `ctx.req.pk` holds the key of the
command that was sent last, the signature over the message in it if it has one, and whether it has. The reply is written over that very buffer, of nothing but `ctx.req.pk`.

The address on the screen is followed from its bytes to the text and back, for all 2^160 of them.
In front of each group of five bytes `base32_encode` has no bits left, and between them
0 to 7, which decide how the next character is made (`ByBitsLeft`). These bits are the remainder of the `int`
by the power of two that they reach up to, whatever is above them, its sign included
(`ShiftedIsNumber`, `BitsInFront`): a group is
eight characters, whose bits in order are those of the bytes (`Codes`, `BytesOfGroup`), so that
decoding brings them back (`Base32RoundTrip`). For the check digits, the pieces in which `iban_check` divides
are those of the digits, at most 72, and the remainder so far stands for all digits in front of a piece
(`AppendedHasRemainder`, `NextPiece`). Whatever the check digits are, the digits in
front of them are the same (`DecimalsOfRearranged`), so that 98 less the remainder with zeros
makes the remainder 1 (`CheckDigits`). The groups of `print_address` have a separator at every fifth place
(`IsSpaced`), which is all that removing separators takes away, in both layouts (`CompactIs`).
`ShownInv` says that what is on the screen is the page of the address of the key that was asked for.

*`BaglFlow`.* The skipping is a recursive function, of which the proof shows that it exists and
that it leads to the nearest visible step of the direction: `Rest` is `IsNext` or
`IsPrevious`. The ends of a flow are always visible, so that it never runs out of the flow; all
flows have this form because of how they are put together (`IsFlow`). `FlowInv` says
that every visible step up to the one on the screen was seen with what it displays now. A
switch of the display type relaunches the flow at the message, in front of which nothing
depends on the display type.

*`ButtonDevice`.* Every step is one of the command loop and one of the flow, or leaves one of them
alone. Both specifications hold by that, so that every theorem about them holds of the device.
`FlowMatches` ties them together: the flow is that of the request in `ctx`, and has the
display type of the screen. An approval of the flow that is no approval of the command loop, or
the other way around, is ruled out by it.

*Induction.* The provers cannot instantiate theorems with operators as parameters,
the induction theorems among them. `SumsProofs` uses induction in terms of sets instead:
a set of natural numbers has a least element (from `WFMin` of the library), so that a set which
has 0, and with a number the next one, has all of them (`UpTo`). Sums, the walk
over hidden steps, long division, the digits of an amount, the encoder of addresses and the
remainders of an IBAN are proved about with it. A function that is defined step by step is
shown to exist first (`StepByStep`), as TLA+ takes any value that satisfies its equation.

### Model-checked only

- `ParserReadsWhatWasSent` of `TransactionBytes`: it compares with the serialization of the
  blockchain's library, which is not part of the specification but of the requests that
  `MCTransactionBytes` makes.
- `EveryReviewIsConcluded` and `EveryU2FCommandIsAnswered`: liveness under fairness, which the
  prover does not reach.
- What the runs `LegacyContract`, `LostReview`, `OvertakenReview` and `VerificationPrefix` show are counterexamples.

## 5. Not modelled

- `print_hex`: two characters per byte, without a branch. The modules keep the bytes.
- The SDK: USB, Bluetooth and U2F transports, flow engine, page layout, cryptography.
- The idle menu and settings, and the paging of texts: no state but what is on the
  screen, and SDK code. For that reason the review flows and pages are listed as
  partly modelled.
- Which error code becomes which status word (`error_macros.h`): an error ends in one of
  the status words its handler can return.
- What code does with memory behind `ctx.req` after it took lengths from memory of another request
  (`Misread`): the model says that anything may be in `ctx.req` then, or that the app ends.

Three observations about the code have no run, as nothing is displayed or signed for them that a user
could take for something else:

- The sum in the check of `main.c:606` has 32 bits, as the counter has. For a message announced with
  a length within one chunk of 2^32, of which more than 4 GiB were sent, both wrap, which the comment at `main.c:630`
  rules out. Such a message is displayed as its hash. `AccountsAgree` says how far the counter and the hashes
  agree all the same.
- For a vesting contract that locks nothing, the period that is checked is 0, and the sum at `nimiq_utils.c:569`,
  which its comment calls "guaranteed to not overflow", can wrap. The review then displays a wrong block, at
  which an amount of 0 is vested.
- A vesting contract of 0 steps, which vests all of its funds at once, is displayed with a vesting block, which
  the comment at `nimiq_ux_utils_transaction_signing.c:107-108` rules out.

## 6. Plan

Done: all modules above, their runs and proofs.

What could follow is `ParserReadsWhatWasSent`, with the serialization as an operator of the
specification and a lemma for each type of data.
