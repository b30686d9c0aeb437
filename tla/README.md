# A verification project for wechatbot-go

wechatbot-go is a Go SDK for a WeChat bot: it logs in by QR code, receives
messages by long polling, hands them to a user's handler, and sends answers.
This directory holds TLA+ models of the parts of it that are hard to test, the
TLC configurations that check them, and TLAPS proofs.

## The system

| Part | State | Operations | Hard because |
|---|---|---|---|
| Keyed dispatcher (`dispatcher.go`) | batches with `remaining`/`failed`, `tails`, three counting channels, a cancellable context | `submit`, `runMessage`, `complete`, `cancelUnscheduled`, `advanceCursorLocked`, `wait`, `drain` | one goroutine per message; order inside a conversation, one cursor over all of them |
| Delivery of a message (`run.go`, `handler.go`, `message.go`) | replay, context and cursor stores | `processWireMessage` | checks and commits lie on both sides of the user's handler |
| Run (`run.go`) | poll cursor, channel of batches | `Run`, `Stop` | three goroutines end one another |
| Session (`login.go`, `reauth.go`, `session.go`) | credentials, generation, `reauthState`, four locks | `Login`, `Reauthenticate`, authenticated requests, `persistContextToken` | late answers, crashes between file operations, failing files |
| Stores (`internal/store`, `internal/persist`) | JSON files and their copy in memory | `Load`, `Set`, `Clear`, `Mark`, `CommitAll` | crashes, expiry |
| QR login (`internal/auth`) | QR code, poll address, verify code | one loop | statuses in any order |
| Typing and config cache (`content.go`, `internal/config`) | an entry per session and user: ticket, next fetch, delay, mutex | `SendTyping`, `StopTyping`, `GetForUser` | time, back-off, concurrent misses, a mutex held across a request |
| Outbound (`outbound.go`, `content.go`, `media.go`) | none of its own | `Send`, `Reply`, `SendMedia`, `SendMessage`, `ReplyMessage`, `Upload`, `Download` | several requests per message, session lost between them, retries |
| Crypto (`internal/crypto`) | the caller's memory | padding, encryption, key encodings | slices that share memory, block boundaries |
| Protocol (`internal/protocol`) | deadlines | `apiPost`, `GetUpdates`, `UploadToCDN` | three time-outs for one poll |
| Redaction (`internal/redact`) | none | `Error`, `String`, `URL` | errors in errors |
| Markdown, thumbnails, logging | none | pure functions, output | |

How they interact: `Run` polls the server and sends batches on a channel. The
processor goroutine takes them off, registers each with the dispatcher and starts
one goroutine per message. A goroutine waits for its predecessor in the same
conversation, takes an active place, and delivers. Deliveries write the context
and replay stores; whoever completes the oldest open batch writes the cursor.
Every request to the server is bound to a session generation; an answer `-14`
makes its goroutine give up the session, which cancels `Run` and all requests.
Only `Reauthenticate` makes a new one.

What makes each part correct:

- dispatcher: no message overtakes another of its conversation; the stored cursor
  never passes an unconsumed message and never stays behind a consumed prefix;
  places in channels are given back; the processor always ends;
- delivery: no handler sees a replay; deliveries move context tokens forward;
- session: only its own rejection ends a session; a session that ended stays
  ended across crashes; nothing of it is used later; nobody waits for ever;
- outbound: what the user sees is what was asked for, in order and once, in the
  session it belongs to; a medium arrives as it was handed over;
- typing: a ticket is used only for its user and session; failing fetches are paced;
- polling: the client does not give up before the server does.

## Modules

`Messages` names what the server sends: users, messages, batches, the peer of a
message, its conversation and its replay identities (`peerUserID`,
`conversationKey`, `replayKeys`). A message is a record of the fields that the code
tells apart; a batch is a sequence of messages and a cursor.

`OrderedDelivery` is the abstract specification: a log of accepted batches, a set of
consumed messages, a committed prefix and a stored cursor. A message is consumed
only when its predecessors in the conversation are; a batch is committed only when
it is wholly consumed and everything before it is committed.

`Dispatcher` is the receiving half of `Run`. Its actions, in the order of the code:

| Actions | Code |
|---|---|
| `Enqueue`, `CloseBatches`, `CancelPoll`, `InvalidateSession` | what the poll loop, `Stop` and other goroutines do to it |
| `SelectBatch`, `SelectClosed`, `StopFeeding`, `ProcessorReturns` | `processUpdateBatches`, `wait`, `drain` |
| `AcquireSlot`, `RegisterBatch`, `FeedDone`, `FeedDecodes`, `FeedDecodeFails`, `SubmitMessage`, `CancelRest` | `submit`, `submitMessage`, `cancelUnscheduled` |
| `Start`, `CancelQueued`, `CompleteJob`, `CloseDone`, `Exit` | `runMessage` and its deferred calls |
| `CheckDelivery`, `RememberContext`, `HookFails`, `HandlerReturns`, `RecordReplay` | `processWireMessage` |
| `Reply`, `ReplyEarlier` | the application answers a message (`Reply`, `ReplyContent`, `ReplyMessage`) and `persistContextToken` stores its token again |
| `AdvanceCursor`, `AdvanceCursorFails`, `AdvanceStops` | one iteration of `advanceCursorLocked` |

A job is a message of a batch, `<<batch, index>>`; `phase` says where its goroutine
is. `d.mu` is held exactly while somebody is inside `advanceCursorLocked`, and every
other critical section is one step. Steps that only look at the context twice in a
row are merged: a cancelled context stays cancelled and a closed `done` stays
closed, so the second look decides. A place that is taken and handed back because
the context was cancelled in between is not taken at all. `context` is the message whose
token is stored (`NoJob`: one from before this run), and `handed`, a history variable,
holds the messages that the application has been given.

`Session` is everything around credentials. Files (`marker`, `stored`,
`contextFile`) survive `Crash`, the rest is reset by `Start`. Requests (`Bind`,
`BeginAuthenticatedRequest`, `AnswerOK`, `AnswerError`, `AnswerExpired`) hold
`requestMu` while in flight. Giving up a session is `RequireReauthentication` or
`RequireWithoutCredentials`, then `CancelSession`, `ClearContexts`, `ClearCreds`
and `CloseState`. `Login` and `Reauthenticate` are the process `LoginProc`:
`RestoreCheck`, `LoadMarker`, `AdoptMarker` (a marker found on disk), `Decide`,
`Prepare`, `Prepared`, `Retry`, then `login` itself: `AcquireStored`,
`AcquireConfirmed` or `AcquireFails`, `CheckFresh`, `InstallLoads` or
`InstallMarks` and `InstallClears`, `Publish` or `Discard`. Contents of a context
file are the sessions whose entries it holds. Context files are at their default
places, one per account; there the validation of paths cannot fail, and it is left
out. Three variables are history: `invalidated` (sessions given up and not begun again
since), `owed` (the token given up last) and `unmarked`. The last is set when a marker could not be
written or read, and when `RequireWithoutCredentials` or `Retry` writes a marker about
credentials that only `credentials.json` knew and reading this file fails: the code
ignores that error (`reauth.go:173`, `reauth.go:213`), removes the file, and the marker
names neither the token nor the account's context file. The server may issue a token again. Two branches of the code cannot be taken
(`login state changed`, `b.reauth != previous`); `ReauthenticateHasState` says why.

`RunLoop` is `Run` over many runs. The server holds a log of messages and a cursor is
a position in it. `BeginRun`, `Load`, `NotifyStart`, `LoopHead`, `Answer`,
`AnswerError`, `AnswerExpired`, `Sleep`, `Send`, `SendAborted`, `StopResult`,
`DeferredWait`, `NotifyStop` and `FinishRun` follow `Run` from top to bottom; the
variable `result` holds the kinds of error that are joined into `runErr`. The
processor is `OrderedDelivery` (`D == INSTANCE OrderedDelivery`), which `Dispatcher`
implements: `Skip` and `Record` are its `Consume`, `Commit` is its `Commit`. What
another run can observe of a delivery is kept apart: `Handle` (the handler is
called), then `Record` or `DeliveryFails`. `Crash` keeps the cursor and the replay
file only. `session` is the state of the session this run is bound to, as `Session`
has it.

`QRLogin` is `auth.Login`. A QR code is named by the round that requested it. The
actions are the requests (`GetQRCode`, `PollQRStatus`) and one action per status.
Progress output (`lastStatus`, `OnScanned`, `OnExpired`) is left out. Inside the loop
`existing` is always nil, because a login that found stored credentials has already
returned: no token is offered with `GetQRCode`, and `binded_redirect` always reads the
file. `LoginContract` is what `Session` assumes of its acquire step.

`ReplayStore` is `internal/store/replay.go` on top of the steps of `WriteJSONAtomic`.
Time is a clock; no entry is an entry older than any cutoff. A power loss loses
unsynced data and may undo the last rename, which `WriteJSONAtomic` says it does not
prevent (`src/internal/persist/json.go:13`); identities lost that way no longer count
as acknowledged. Callers never commit the same identity at once: the dispatcher
delivers a conversation one by one, which `Dispatcher` shows.

`Outbound` is a call of `Send`, `Reply`, `SendMedia`, `ReplyContent`, `SendMessage` or
`ReplyMessage`. A content is a sequence of parts (chunks of a text; a caption and
then media). A context token is named by the session generation that received it.
Losing and replacing the session are the steps that `Session` has in detail. Two
session checks with nothing between them are one, since the second decides. Every
message has a client id (`Identify`); `SendMessage` and `ReplyMessage` return theirs
with the error too, and `Retry` is a caller who calls again with it, which is what the
id is for. The server may accept a message whose answer is lost (`AnswerSend`). `accepted`
is what the server got and `shown` what the user sees of it: a message whose client id
was seen before is not shown again.

`Typing` is `SendTyping` and `StopTyping` with the cache of `internal/config`. A session
has a cache of its own (`Key`), an entry has a mutex that is held from the lookup to
the end of the fetch (`CacheHit`, `CacheMiss`, `FetchOK`, `FetchFails`), and the fetch
is a request under `requestMu` (`BeginFetch`). `Login` is reduced to the two locks that
matter here: `BeginLogin` takes `sessionMu` and queues for `requestMu`, which holds up
new requests; `InstallSession` has both. The two operations differ in the status they
send and in what they return without a context token, so one model stands for both.

`Crypto` is `internal/crypto` and `cdnDownload` as operators: padding, blocks, unpadding. A
ciphertext block is the pair of a key and a plaintext block. `KeyTexts` has the texts of
keys as ASCII codes: hex, base64 in both alphabets (`encoding/hex` and `encoding/base64`
are external; line breaks, which their decoder skips, do not occur), and `DecodeAESKey`,
which tells the forms apart by `hexPattern`, by what can be decoded and by the length.
`MediaDownload` is one download of a medium that was encrypted for the upload, with its key
in a form of `docs/protocol.md:121` to `:123`.
`MediaUpload` has uploads that run beside each other on memory that their callers
own: a slice has an offset, a length and a capacity. `Pad` is `pkcs7Pad`, whose `append`
writes into that memory if the capacity allows; `Encrypt` is one turn of the loop of
`EncryptAESECB`, so that other goroutines may write in between; `Announce` and `Upload`
are the rest of `cdnUploadWithThumb`. Requests and retries of the upload are in
`Outbound`.

`TextChunks` is `chunkText` on texts of three kinds of runes; a step is a turn of its loop
(`CutChunk`, `LastChunk`). `PollTiming` is the time side of the poll loop; a step is one
poll with the sleep after it: what the server and the network do to it (`QuietPoll`,
`EarlyPoll`, `TransportError`, `Answered`), `pollTimeout` and `retryDelay`, the deadline of
`GetUpdates` under the total time-out of the HTTP client, and how `apiPost` tells answers
from errors (`Outcome`). `RedactErrors` is `redact.Error`. The errors are numbered in the
order in which they were made, so that causes have smaller numbers, and a step is the
return of `Error` for the next one: the recursion returns from the causes first, and its
other order does not matter since the function is pure. An error is an original or a copy;
the text functions are taken to remove all secrets. What `errors.As` visits is the smallest
set that holds an error and the causes of its members (`Closed`). These algorithms have
nothing in common but that they are sequential: `MCAlgorithms` runs one of them at a time.

`MCDispatcher`, `MCSession`, `MCRunLoop`, `MCOutbound`, `MCTyping`, `MCMediaUpload` and
`MCAlgorithms` give the constants values for TLC; the configurations of the other modules
name them directly. No module is recursive beyond functions on numbers.

## Runs

| Run | Shows | Properties |
|---|---|---|
| `dispatcher` | all safety properties of `Dispatcher`, and that it implements `OrderedDelivery` | `TypeOK`, `CursorNeverSkips`, `ConversationOrder`, `PlacesBalanced`, `RemainingExact`, `FrontierMaximal`, `ReplaySuppressed`, `DeliveryMovesForward`, `ImplementsOrderedDelivery` |
| `dispatcher_live` | the processor ends; batches are committed | `ProcessorEnds`, `BatchesCommitted` |
| `session` | all safety properties of `Session` | `StaysReady`, `MarkerBlocks`, `FreshContexts`, `RejectedNotReused`, `InFlightCurrent`, `ReauthenticateHasState`, `MarkerRemovedLast` |
| `session_live` | `Login`, `Run` and waiting requests return | `NobodyWaitsForEver` |
| `run_loop` | at-least-once delivery and single recording over restarts; what `Run` returns | `NothingLost`, `RecordedOnce`, `EndReported`, `ProcessorGone` |
| `run_loop_live` | `Run` returns; every message is handled in the end | `RunReturns`, `AllHandled` |
| `qr_login` | the status loop: stale codes and redirects, its contract, its end | `StaysWithItsCode`, `LoginContract`, `LoginEnds` |
| `replay_store` | whole files and whole replay windows through crashes and failed writes | `WindowKept`, `MemoryIsDurable` |
| `outbound` | context tokens stay in their session; the user sees a prefix of the parts, each once, also after retries; every call returns | `TokenOfSession`, `PrefixSent`, `CallsReturn` |
| `typing` | tickets stay with their user and session; one fetch at a time and growing delays; every call returns | `TicketOfSession`, `FetchesPaced`, `TypingReturns` |
| `media_upload_shared` | media damaged by uploads of slices that share a buffer (see Findings) | `SentAsGiven`, violated |
| `algorithms` | how texts are cut; secrets are removed from every reachable error and nothing else is; deadlines of polls and delays between them; media are decrypted to what was encrypted | `ChunksWhole`, `OnlySecretsLost`, `PollTimed`, `MediaRoundTrip` |

Bounds. `dispatcher`: two batches of at most two messages, out of five kinds that
include two messages of one user with overlapping identities, a message of the bot,
one of no conversation, one that does not decode, and an empty batch; two active
handlers. Two batches are what overtaking, a late first batch and a hole in the
prefix need; two messages of one conversation are what the chain of `done` channels
needs; a third would repeat the situation of the second. Replies need no bound: they
change only `context`. `dispatcher_live` has a
channel of capacity one, so that the waits for a free slot happen.
`session`: three logins allow a token to come back in a third session while an
answer of the first is still on its way; a poll loop and a sender; one crash; one
file operation that fails, of any kind: writing, reading or removing a marker, the
credentials or a context file. `FreshContexts` and `RejectedNotReused` except the behaviours
in which `unmarked` is set: if a marker could not be written, the
process dies before it clears anything, and then the old credentials cannot be read, old
context tokens are loaded into a new session; if the marker, or the credentials file that
it was to be made from, could not be read, the next marker does not tell of the old session:
a QR login may then return the rejected token and be accepted. For instance, after a `-14`
answer whose cleanup removed the credentials, and a restart, `Reauthenticate` cannot read the
marker and `restoreDurableReauthentication` (`reauth.go:274`) overwrites it with one that has
no fingerprint. The bot stays closed until then (`MarkerBlocks`). Failures of all other file operations leave both properties true, and the
proofs allow any number of failures and crashes.
`run_loop`: three messages, two of one conversation whose weaker identities collide and
one without identity; two faults (`MaxFaults`) out of crashes, stops, failed
deliveries and stores, lost sessions and answers without cursor, so that a failure can
hit the run that recovers from another; a channel of one place, so that the poll
loop blocks on it. Failed polls are not bounded. `MaxBatches` is chosen so that it
never stops a run (messages plus faults). `run_loop_live` has two messages.
`qr_login`: the code's limit of three QR codes, one redirect host beside the fixed
one, one verify code, and one write of the file by another process.
`replay_store`: two goroutines, two identities, a time to live of one tick and a clock
of three, so that entries are younger, exactly as old, and older than the window; one
crash or power loss. `outbound`: one call and three sessions; a text of two chunks, a reply with a captioned
image, a remote file, and a single message that is sent or replied, at most twice
(`MaxTries`). Calls share nothing but the session and the context token, and a second
call could do no more to those than `Receive`, `LoseSession` and `Reauthenticate` do at
any time.
`typing`: two goroutines on one entry, each calling as often as it likes; two sessions;
delays of one and two ticks (`RetryDelays`; the second is the cap), lifetimes up to two, and a clock of
three, which is room for two failures in a row and for hits, misses and tickets past
their time. Entries of different users share nothing but the session.
`media_upload_shared`: two slices of a buffer of four bytes, with blocks of two.
`algorithms`: nine runes under a limit of four make three chunks, seven makes the
three-tenths rule bite (from the third rune on), one and zero are the edges; four errors,
each a leaf or one that wraps one or joins two of those before it in any way, which gives
chains of four and shared causes; any sequence of polls with at most six failures in a row,
one more than the delay needs to reach its cap and stay there, with waits and transit times
just below, at and beyond the margin and both time-outs; media of up to two blocks
of three bytes, whose bytes also occur as padding, and the download limit below the
largest of them, with two keys, in whose texts all hex digits and the characters occur in
which the base64 alphabets differ. A wait that leaves no margin within the two minutes of
the HTTP client, the limit that the repository's `README.md:23` states, may be named:
`GetUpdates` does not clamp it, its polls may be cut off, and `PollTimed` promises nothing
for them but the delays between failures.

Fairness. Goroutines that can move are scheduled by the Go runtime (weak fairness
of each). A handler returns: the repository's README asks it to honour
cancellation (`README.md:118`). Whoever invalidates a session cancels the poll in
its next statements. A request in flight is only assumed to return once its context
is cancelled. A QR login ends because its codes expire; in `QRLogin` that is strong
fairness of the answers that end a code, and in `Session` the step as a whole.
The server is under no fairness: it may never send anything. Only `AllHandled`, which
is about everybody together, assumes more: the server answers with what it has some
time, and the program logs in and calls `Run` again when it has returned. In
`Outbound` and `Typing` requests and uploads return, as all of them have timeouts. In
`Typing` a goroutine that waits for an entry gets its turn (strong fairness of taking
the mutex: a `sync.Mutex` hands itself to a waiter that has starved for a millisecond),
and `Login` gets `requestMu` when no request is in flight (an `RWMutex` keeps new readers
behind a waiting writer, which `BeginFetch` and `BeginSend` model).

`CHECK_DEADLOCK FALSE` appears in the session, outbound and typing runs, where a bot whose
user never logs in again may stand still, and so may one whose calls have all
returned; and in `media_upload_shared` and `algorithms`, which end. The others check for
deadlock; a finished dispatcher or login stutters.

## Findings

`pkcs7Pad` (`src/internal/crypto/aes.go:110`) returns `append(data, pad...)`. When the slice
that a caller passes to `Upload`, `SendMedia` or `ReplyContent` has spare capacity, the
padding is written into the caller's memory behind it. `media_upload_shared` uploads
`buffer[:1]` and `buffer[1:3]`: the second medium is sent with a padding byte in place of
its first byte, and so it is when the second upload begins after the first one has
ended. The functions are documented as encrypting and uploading the data
(`src/internal/crypto/aes.go:15`, `src/media.go:67`), and the round-trip test expects
the plaintext back. The padding itself is right: `MediaRoundTrip` holds at every
alignment to the block size.

## Properties

Each property of a run is stated in words above its definition, and each has a fault
(`\* Fault:` above the definition) that breaks it: a version of one definition as a
plausible slip would have written it.
`TypeOK` of the modules other than `Dispatcher` gives the ranges of their variables. No run
lists it; the proofs show that it holds.

## Proofs

Every safety property that a run expects to hold, and the refinement, is also proved: for every number of goroutines, messages, users, sessions, crashes and failures,
where TLC has looked at a few. Each theorem rests on an inductive invariant, which TLC
also finds to hold on the instances of the runs. The theorems, the property each states, and where they are:

| Module | Theorem | States |
|---|---|---|
| `DispatcherProofs` | `TypeInvariant`, `PlacesInvariant` | `TypeOK`, `PlacesBalanced` |
| | `RemainingInvariant`, `CursorInvariant`, `FrontierInvariant` | `RemainingExact`, `CursorNeverSkips`, `FrontierMaximal` |
| | `OrderInvariant`, `ReplayInvariant`, `ContextForward` | `ConversationOrder`, `ReplaySuppressed`, `DeliveryMovesForward` |
| | `Refinement` | `ImplementsOrderedDelivery` |
| `RunLoopProofs` | `AtLeastOnce`, `AtMostOnce` | `NothingLost`, `RecordedOnce` |
| | `EndsReported`, `NothingLeftBehind`, `TypeInvariant` | `EndReported`, `ProcessorGone`, `TypeOK` |
| `SessionProofs` | `LateAnswersHarmless`, `FailsClosed`, `ContextsFresh` | `StaysReady`, `MarkerBlocks`, `FreshContexts` |
| | `RequestsDrain`, `StateStays` | `InFlightCurrent`, `ReauthenticateHasState` |
| | `MarkerLast`, `TokensReplaced` | `MarkerRemovedLast`, `RejectedNotReused` |
| | `LockDiscipline`, `TypeInvariant` | `MuHeld` (who holds `sessionMu`), `TypeOK` |
| `QRLoginProofs` | `CodesKeptApart`, `ContractKept`, `TypeInvariant` | `StaysWithItsCode`, `LoginContract`, `TypeOK` |
| `ReplayStoreProofs` | `DurableInvariant`, `WindowInvariant`, `TypeInvariant` | `MemoryIsDurable`, `WindowKept`, `TypeOK` |
| `OutboundProofs` | `TokensMatch`, `PartsInOrder`, `TypeInvariant` | `TokenOfSession`, `PrefixSent`, `TypeOK` |
| `TypingProofs` | `TicketInvariant`, `PacedFetches`, `TypeInvariant` | `TicketOfSession`, `FetchesPaced`, `TypeOK` |
| `AlgorithmsProofs` | `PollsTimed`, `MediaComesBack` | `PollTimed`, `MediaRoundTrip` |
| | `ChunksAreWhole`, `SecretsRemoved` | `ChunksWhole`, `OnlySecretsLost` |

**Dispatcher: types and places.** `TypeOK` is not inductive: that `active` stays in its
range needs that it counts the executing goroutines, and that `remaining` and `next` stay
in theirs needs to know which batch the processor is feeding. `Inv1` adds the control
facts (`taken`, `nextBatchID` and the processor's place agree) and that every goroutine
belongs to a decodable message of a registered batch. Counting is done by one lemma about
a set of jobs from which one job leaves or which one joins (`CountMoves`).

**Dispatcher: the cursor.** `complete` is called once per goroutine and always on an open
message, `cancelUnscheduled` exactly on the messages that were never scheduled, so each
decrement of `remaining` closes one message (`Inv3` adds which results go with which
phases). A batch that passes `FrontierComplete` has `remaining = 0` and has not failed, so
it has no open message and all of its messages were consumed; and once committed it stays
so, because consumed messages are final. `Inv4` says that the committed batches are a
prefix without open messages (`CursorTracks`) and that a batch without a cursor of its own
repeats the one before it, which is how the poll loop builds batches (`CursorChain`, from
the guard of `Enqueue`). `FrontierMaximal` needs no more than `Inv1` and `Inv3`: whoever
makes the oldest batch complete holds `d.mu` and leaves it only through the commit loop.

**Dispatcher: order.** The subtle step is that a goroutine removes itself from `tails`
while later messages are being scheduled, so that a message may find no predecessor
although there were some. `Inv5` says what is true then: everything earlier in the
conversation is up to the predecessor, or has been consumed and its `done` is closed, or
the context is cancelled (`Links` for goroutines, `Tails` for the map). The first case
ends when the predecessor's `done` closes, because it closes only after the message was
consumed or the context was cancelled (`Ends`); and a goroutine that sees the cancelled
context does not begin. `Fed` adds that the processor has left out nothing before it.

**Dispatcher: replays.** `processWireMessage` looks at the replay store before the handler
and commits to it afterwards. What passes the look repeats nothing that was acknowledged,
and nothing it could repeat is acknowledged in between, because that would have to be an
earlier message of the same conversation, which is settled (`Inv6`, on top of `Inv5`). The
same order makes deliveries move context tokens forward: a token is written by a message
that has begun, and every earlier message of its conversation has passed. What moves a token
back is a reply, and a reply is to a message in `handed`.

**Refinement.** `consumed` of `OrderedDelivery` is the set of jobs with a consumed result.
A delivery or a decoding that consumes is `Consume`, whose guard is `ConversationOrder`; an
iteration of the commit loop is `Commit`, whose guard is that `FrontierComplete` means
consumed (`Inv3`) and whose new cursor is that of `Inv4`; everything else stutters.

**Run loop.** Batches of one run are consecutive slices of the server's log and the stored
cursor is the end of a committed one (`Chain`). So everything between two cursors was in a
committed batch, whose messages were consumed, and what is consumed has been recorded or
had been before (`Recording`). A message is recorded once because its identity is on disk
from then on (`Identities`), and only while it is the next of its conversation. `Reasons`
follows the error of the processor from `failure` over `errCh` to `result`. For the types,
`Behind`: every cursor, in memory, on disk or on its way, is never ahead of the
server's log.

**Session.** `Requests` binds an answer to its generation; `Blocking` says that a marker or
a `reauthState` excludes credentials, except for a marker that a login has not yet looked
at; `Cleaners` that one goroutine cleans up and for the state that `b.reauth` holds;
`Attempts` and `Progress` what `Login` and `Reauthenticate` have done when they are about
to publish. `Remembered` is the invariant behind crash safety: unless
`unmarked`, whatever of a given-up session is still in a context file or in memory is named by
the marker on disk. `MarkerRemovedLast` then needs that the marker is that of the state
and all paths of it have been cleared. `StaysReady` needs `Condemned`: a session is
condemned, by its own `-14` or by the user, before anything of it is taken down. `MuHeld`
says that `sessionMu` is held by the goroutine that is between publishing a `reauthState` and
the end of its cleanup, or that installs a session, and by nobody else: each action that
takes the lock finds it free, and each error path of `Login` gives it back. The ranges need
`Quota`: a login in progress has counted itself and not yet its generation.

**QR login.** `Pending` and `Sent` say that a verify code waits only for the next poll, which
is one of its own QR code, and `Followed` that the address in use is the one named for this
code. `ContractKept` justifies the single step that `Session` makes of a login.

**Replay store.** `WriterTemp`: only synced data is renamed into place. `CallsApart` and
`NextMap`: the caller that holds the lock writes memory, pruned, with its identities, and
nobody else has made them younger. From both, `Recent`: within the window the file is at
least as recent as memory, and both as what was acknowledged.

**Outbound.** `Bound`: the token of a call is that of its session, or that session is no
longer the current one, and a request in flight is one of the current session. `Named`: a
single message keeps the client id that was returned, any other message has a new one.
`Tried` and `Shown`: what the user sees are the parts before the next one, and perhaps the
next one, whose answer was lost. `Limits` bounds sessions, tries and upload attempts: an
upload in progress has attempts left.

**Typing.** `Locked`: the mutex of an entry is held by the call that fetches for it.
`EntryTickets`, `CallTickets` and `RequestsCurrent` carry a ticket from the entry to the
request. `Paced` relates `nextFetchAt` to the start of the last fetch, and `Grown` the
delay to the number of failures. That delay is read off the
sequence `RetryDelays`, the first delay doubled up to the cap (`DelaysAssumption`).

**Poll times.** `WaitKnown`: `pollTimeout` is what the server waits, or the server has not yet
named a time and the smallest request time-out covers its wait. Then every deadline leaves
the margin, if the HTTP client does (`DeadlineLeavesMargin`). `DelayKnown`: `retryDelay` is the delay of the failure
that would come next.

**Media.** `pkcs7Pad` makes a multiple of the block size, so the blocks joined are the padded
text (division lemmas about indices); its last byte, between one and the block size, says how
much is cut off again. The key: hex digits are read back byte by byte (`HexRoundTrip`); a
base64 text is read back by its own alphabet, and by the other one not at all or as the same
bytes (`Base64RoundTrip`: a character that both have stands for the same six bits), so that
trying the standard alphabet first does no harm; and a base64 text of 16 or 32 bytes has 24
or 44 characters and is never taken for 32 hex digits (`Base64Decoded`, `KeyTextRead`).

**Text.** That `chunkText` cuts at the last paragraph, line or space of the prefix is a maximum
of a finite set of numbers, which exists by well-foundedness (`NatLessThanWellFounded`,
`WFMin`). `CutIsBest` ranks the places; `Whole` says that what was sent and what is left is the
text, and `RuneLeft` that a text that was cut leaves something for the last chunk.

**Redaction.** The property is inductive with the types, since the results for the causes are
there already. The step that matters: a safe error has safe causes (`SafeCauses`, with the
same closed set), whose results are the causes themselves, so that the error is returned as
it is; and an error that is returned as it is has nothing under it that was changed. That no
secret can be *reached* follows from the property by going down the result place by place.

Assumptions: the named `ASSUME`s of the modules, which TLC evaluates in every run. Most
say that bounds are numbers and that special values are distinct from ordinary ones
(`KeysAssumption`, `NobodyAssumption`, `TornAssumption`, `CallersAssumption`,
`SessionAssumption`, `NamesAssumption`). Those with content: a queue has a positive
capacity (`CapacityAssumption`, `RunBoundsAssumption`); the strongest identity of a message,
by which the code recognises a replay, belongs to one message of the server's log
(`IdentitiesAssumption`); a message of `SendMessage` or `ReplyMessage` is one text
(`ContentsAssumption` of `Outbound`); the first delay is not above the cap
(`TypingAssumption`); accounts are finitely many (`SessionAssumption`, to count the context
files that could not be cleared); before it names a time the server holds polls no longer
than the smallest request time-out expects (`WaitsAssumption`); texts are sequences of runes and limits integers (`TextsAssumption`),
media sequences of bytes and keys 16 bytes (`ContentsAssumption` of `MediaDownload`), blocks of
at least one byte (`BlockSizeAssumption`); the causes of an error were made before it
(`ErrorsAssumption`).

Only model-checked:

- liveness, because fairness is out of the prover's reach: `ProcessorEnds`,
  `BatchesCommitted`, `NobodyWaitsForEver`, `RunReturns`, `AllHandled`, `LoginEnds`,
  `CallsReturn`, `TypingReturns`;
- the finding of `media_upload_shared`, which is a counterexample.

## Not modelled

- What `redact.String` and `redact.URL` find in a text, markdown stripping
  (`internal/markdown`): regular expressions and scanners over characters, without
  state; their tests are tables of texts, which is the right tool.
- Logging, thumbnails, the download of remote media: output, image decoding, one
  request. `Outbound` has a remote download as a step that may fail.
- Wire types, version and agent strings, headers and JSON bodies.
- The cloning of quoted message items (`cloneMessageItemTextGraph`), which works on a
  message of one goroutine only, and slash commands, a lookup in a map.
- `Delete`, `All` and `Save` of the context store, `Save` and `Clear` of the cursor store,
  `Clear` of the config cache: nobody calls them.

## What is left

All safety properties are proved and all liveness properties are model-checked. Beyond that:

1. The step of `Session` that stands for a login, as an action of its own of which
   `LoginContract` is the guarantee; now the two modules agree by inspection.
2. What `redact.String` and `redact.URL` match, which `RedactErrors` takes for granted.
3. Scenarios with a second `Bot` on the same files; the code does not lock them.
