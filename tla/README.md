# Verification of email-client-mcp

TLA+ modules, TLC runs and TLAPS proofs about `email-client-mcp`: a server that mirrors IMAP
mailboxes into Drive (the workspace `messagesStore`), answers mail tools, and, in deliver mode,
sends the mail that is put into the Drive outbox.

## The system

| part | code | state | operations |
|---|---|---|---|
| delivery processor | `delivery/infrastructure/deliveryProcessor.ts`, `delivery/application/*`, `delivery/domain/*` | `inFlight` set, a random `leaseOwner` per process | `process(input)` for events and for the sweep |
| outbox repository | `delivery/infrastructure/outboxSdkAdapter.ts` | none (the Drive row: state, revision, attempts, lease, `result.delivery`) | get, listPending, claim, markProgress, markSent, markFailed |
| SMTP transport, Sent copy, attachment loader | `smtpTransport.ts`, `sentFolderAppender.ts`, `driveAttachmentLoader.ts` | none | send, append, load |
| rate limiter | `perAccountRateLimiter.ts` | promise tail and next allowed time per account | waitForTurn |
| delivery runtime | `deliveryRuntime.ts`, `deliveryProtocol.ts` | sweep promise, timer, `stopping` | start, sweep every 60 s, stop; the `exchange/deliver` handler |
| folder sync | `sync/sync.ts` | the folder's metadata (checkpoint), its rows; locals of a tick | `syncFolder`: status, drop, bootstrap, forward, backfill, hydrate, flag reconciliation, prune |
| account tick | `sync/sync.ts` `runSyncOnce` | none | list folders, sync each, prune Drive folders |
| watcher | `sync/watcher.ts`, `sync/backoff.ts` | in-flight flag per account, health, timer | start, tick, runOnceNow, stop |
| hydration | `sync/bodyHydration.ts`, `sync/attachmentHydration.ts` | the payload of a row | hydrate a body, a batch, an attachment |
| Drive store | `store/driveStore.ts` | none | folders, messages, patches, attachment upload |
| IMAP pool | `imap/pool.ts` | live client, connecting promise and reconnect window per account | forAccount, close/error events, closeAll |
| mailbox lock and downloads | `imap/fetch.ts` | ImapFlow's lock of a connection, two time limits per download | withMailboxLock, downloadPartByUid, dispose |
| IMAP fetch, OAuth, mappers | `imap/*` | none (a refresh token is exchanged for an access token at each connect) | status, fetch, search, flags, move |
| tools | `tools/*` | none | read tools; set attributes, move, bulk action (IMAP, then the mirror) |
| config, SDK, server | `config/*`, `sdk/*`, `server.ts`, `entrypointMode.ts` | none | start-up in one of the modes, shutdown |

Parts meet in three places. The **Drive outbox row** is changed by every deliver process, always
under a revision check, claims and terminal writes also under a lease. The **rows and folder
metadata of the mirror** are changed by the tick of the account, by hydration calls and by the
tools' patches. The **IMAP connection** of an account is shared by everything in a process, through
the pool, and its users take turns with one mailbox lock.

What is hard here: a process that stops between two awaits; an answer that is lost after the call
took effect; a lease that runs out under its holder; two runs of one process that the lease cannot
keep apart (they share the `leaseOwner`); an IMAP mailbox that changes between the calls of one
tick; whole-row writes of values read several awaits earlier; a client that closes while others wait
for it; a download that its caller has given up and that goes on; an error of an SMTP dialogue that
does not say whether the mail was taken; a shutdown in the midst of all that. PROJECT.json lists
these hazards line by line.

## Modules

The proofs about a module `X` are in `XProofs`; `MailboxLockProofs` has those of `ImapPool`, too, and
`DeliveryAttemptProofs` those of `AttachmentLoad` and `DeliveryRuntime`. `MCX` instantiates `X` for
TLC.

### Delivery of one outbox item

`OutboxDelivery` follows `processor.process` for one item in several processes. A *run* is one call
of `process`: by the event handler or by the sweep (`Runs == Procs \X {"event", "sweep"}`). Each
`await` is a step, and `pc[r]` names the call the run makes next:

| action | code |
|---|---|
| `Begin`, `Busy` | `process`: the `inFlight` test (a busy item answers Retry) |
| `GetAnswers`, `GetProceeds` | `repository.get`, state check, decoding of `result.delivery`, payload and identity checks |
| `ClaimItem` | claim for reconciliation, rejection or delivery, and the check of the attempt limit after it |
| `LoadAttachments` | `attachmentLoader.load` |
| `MarkStarted` | the durable DeliveryStarted mark |
| `Submit` | `sender.send` with `decideTransportOutcome` |
| `AppendSentCopy` | the copy for the Sent folder |
| `WriteRetrySafe`, `WriteFailure`, `WriteSent` | the writes that end a run |
| `Crash`, `ExpireLease`, `DeliverLate` | a process exits; `LEASE_SECONDS` pass; a request arrives after its caller was told it failed |

The Drive outbox is not part of the repository; `Permits` and `Apply` model it as `outboxSdkAdapter`
uses it: compare-and-set on the revision, a claim that needs a free, lapsed or own lease, and a
terminal write that needs a live lease of its owner. While the row is in the outbox, only the
connector writes it. The row's two other states, review and reconciliation_required, are outside the
model: nothing in `src/` writes them, and `process` acknowledges a row in one of them as it does one
that is sent (`deliveryProcessor.ts:367`). A call may be refused, lost before or after it took
effect, or delayed.

`DeliveryLifecycle` is what one item promises, as `deliveryState.ts` and the delivery markers have
it: Pending, Claimed, Sending, RetryScheduled, and the ends Sent, FailedUnknown and FailedPermanent,
together with the number of mails accepted. `OutboxDelivery` implements it under the mapping
`Phase`.

`OutboxInvariant` holds the inductive invariants.

`AttachmentLoad` is the loader of the attachments of a mail: download, declared length, chunks, end
of stream, for every declared length, right or wrong. `DeliveryAttempt` goes on from there and has
what is one step, `Submit`, in `OutboxDelivery`:

| action | code |
|---|---|
| `Load`, `LoadEnds` | `driveAttachmentLoader.load`, and what the processor makes of its errors |
| `MarkFails`, `Compose` | the DeliveryStarted mark is refused; the composition of the mail, which may fail |
| `Advance`, `Accept`, `Resolves` | the SMTP dialogue goes along; the server takes the mail; `sendMail` resolves |
| `Refuse`, `Break` | a 4xx or 5xx reply, or an error without one, in any phase: `classifySmtpFailure`, `decideTransportOutcome` |

nodemailer and the server are external: for each phase of the dialogue, the errors (code, command,
reply, syscall) the phase can end with. A socket that fails carries the label CONN in every phase;
the function `Classify` has to do without it.

### Mirroring of a folder

`FolderSync` is `syncFolder` for the INBOX of one account, tick after tick, each IMAP or Drive call
a step: status, folder lookup, drop on a UIDVALIDITY change, folder creation with the bootstrap
decision, forward batches, backfill batches, flag reconciliation, SEARCH and prune. The mailbox is
external: mail arrives, is expunged, and the server may renumber it (`Rollover`). A row is its
externalId and the generation its content comes from. Crashes and failed calls lose the locals
(`Leave`); a Drive call may fail after it took effect. `FolderInvariant` holds its inductive
invariant.

`AccountSync` is everything above it: the watcher's timer and the ticks of one account
(`runSyncOnce`). A tick lists the folders, takes each through status, drop, upsert and the message
passes, does the maintenance of one folder, the one the wall clock chooses, and then deletes the
Drive folders IMAP does not list. A folder is its UIDVALIDITY here; what happens in it is
`FolderSync`.

| action | code |
|---|---|
| `Fire`, `NextSlot` | the interval timer of `watcher.ts`, which skips an account that is still in flight; the wall clock |
| `BeginStop`, `EndStop` | `stop()`, which awaits the tick under way; the pool is closed only after it |
| `EnsureMailbox`, `ListFolders` | start of `runSyncOnce`; allowlist, order and maintenance index are computed when LIST answers |
| `FolderStatus`, `DropFolder`, `UpsertFolder`, `SyncMessages` | `syncFolder`, per folder |
| `ListDriveFolders`, `PruneFolder` | the end of `runSyncOnce`, with `shouldPruneDriveFolder` |
| `ChangeFolder`, `MakeManaged`, `Restart` | external: IMAP folders change, Exchange makes its Review folder, the process is started again |

### One row of the mirror

`MessageRow` is the row of one message and all its writers: batches, flag reconciliation and prune
of the ticks (`FetchMessage` ... `PruneRow`, `DropFolder`), hydration of the body or of an
attachment (`BeginHydration`, `FetchPart`, `Upload`, `Persist`: read the row, talk to IMAP, write
the whole row), `set_email_attributes` (`SetFlags`, then `PatchMirror` after the mailbox lock is
released), and `move_email` and `bulk_action`, which leave the mirror to the ticks (`FlagsChange`,
`Leave`). Of the checkpoint it has what decides which pass reaches the message: `due`, whether a
forward or backfill batch with it is still to come, and `above`, how many UIDs the forward
checkpoint is ahead of it, which grows with the mail that comes (`NewMailSynced`). The flag
reconciliation (`FetchFlags`, `PatchFlags`, and `RestoreRow` for a row it finds missing) reaches the
message only in the last `FlagWindow` UIDs (`InWindow`), backfilled or not. Assumed: SEARCH answers,
batches come in the order of UIDs, and a tick sees one numbering (`FolderSync` shows what happens
otherwise); an upload is one step over matching bytes (`AttachmentUpload` has its steps); the
attachments asked for belong to the message.

`AttachmentUpload` is `uploadAttachment` of the Drive store: uploadStart with its three kinds of
answer, list and compare, delete, PUT, commit, list and compare once more, recommit. Several uploads
of one attachment overlap, because a hydration that times out does not stop its upload. `before` is
a history variable. External: what uploadStart answers. It may answer an intent even if something is
stored; it answers with a record only if the stored metadata are the same.

### Connections, runtime, limits

`ImapPool` is the pool for one account: `forAccount` (`UseLive`, `Connect`), `connectFresh` step by
step (`Wake`, `Authenticate`, `ConnectResolves`, `ConnectRejects`), the close and error handlers of
each client (`OnError`, `OnClose`), `Abort`, by which a user of the connection closes it, and
`closeAll`. Deadlines are time left; `quiet` is a history variable that measures the time since the
last failure apart from the code's own window. ImapFlow is external: a client that was closed emits
a close event and no error after it.

`MailboxLock` puts the pool together with those who use its connection, and it is there that both
are checked:

| action | code |
|---|---|
| `Read`, `ReadEnds` | `withMailboxLock`: a tick or a tool asks the pool, takes the lock, and releases it whatever its callback does |
| `Hydrate`, `PoolAnswers` | `hydrateStoredMessageAttachment` calls `downloadPart`; the pool answers readers and downloads, at once or later |
| `Acquire`, `Breaks` | ImapFlow gives the lock, first come first served; what uses a connection that is down fails |
| `Probed`, `Opened`, `DownloadFails` | `downloadPartByUid`: one pass to count the bytes, the lock once more, and the part is open, with the lock held until `dispose` |
| `DownloadTimeout` | `withDownloadTimeout`, which closes the connection |
| `StreamEnds`, `UploadEnds`, `CallTimeout` | the three that dispose of a download: the end of its stream, its caller, and the caller's limit |

The lock is external: one queue per client. The limits of a download begin when its caller's has
begun, or after, and both are 25 s, so `DownloadTimeout` comes after `CallTimeout`. A download that
nobody waits for when it opens is `stray`.

`DeliveryRuntime` is `buildDeliveryRuntime` and the `exchange/deliver` handler: `ListPending`,
`ProcessItem` and `TurnPage` are `reconcilePending` with its cursors, `BeginReconciliation` the
timer, `BeginStop` and `EndStop` the stop, `BeginRequest` and `EndRequest` the handler. What
`process` does with its item is `OutboxDelivery`; here it leaves the item or ends it. External:
Drive lists by a cursor that is a position, so that items leaving the listing do not shift it; with
`cursors = "any"` it may answer any cursor. A timer event comes again and again once the timer is
set. A shutdown (`server.ts`) is `BeginStop`, `EndStop`, which awaits a sweep of the timer and
nothing else, and `Exit`, which cuts off whatever is still under way: to `OutboxDelivery` a crash.

`RateLimiter` is `waitForTurn` of one account, with the microtask steps in which a turn resolves,
the call returns and the map forgets the tail. `Date.now` does not jump.

## Runs

| run | question | bounds |
|---|---|---|
| `outbox` | is the mail accepted at most once, is the row true, are acknowledgement, attempt limit and lease sound; does it implement `DeliveryLifecycle`; does every item end? | 2 processes with 2 runs each, 2 attempts, 1 fault, 1 late request |
| `delivery_attempt` | is the limit of the loader kept; does it deliver all or refuse; is the verdict true wherever the dialogue ends? | 3 files of up to 3 bytes, a limit of 4 |
| `folder` | does the checkpoint ever run ahead; are rows of the right generation, announced, kept; does the mirror become equal to the mailbox? | 3 UIDs, 2 generations, 1 fault, windows and batches of 2 |
| `folder_history`, `folder_search` | two sentences of the tests that the code does not keep | 3 UIDs, 2 generations, 1 fault, windows and batches of 1 |
| `account` | does a tick ever delete a live folder or one of Exchange's, or go on after stop(); do the folders converge; does each get its maintenance? | INBOX, a folder outside the allowlist and Review, in IMAP as well as of Exchange; 1 change, 1 fault, 1 interval crossed |
| `row` | is an attachment shown as loaded ever without bytes; do rows, and flags within the window, come to agree with the mailbox? | 1 attachment and the body, 2 calls at a time, 3 in all, 1 fault, a flag window of 1, 1 later UID |
| `upload` | do overlapping uploads agree; is something stored at the end when they do not? | 3 uploads, 2 lengths, 3 types, anything stored before, 1 fault |
| `mailbox_lock` | is there ever a second or a lost connection, or two users of one mailbox; is the reconnect window kept; do readers get to the mailbox again and again? | 2 downloads and a reader, 1 fault, 2 closes by a download, a window of 2 |
| `abandoned_download` | a sentence of the tests about downloads that time out, which the code does not keep | 1 download and a reader, 1 fault, 1 close |
| `runtime` | can a sweep begin after stop(), or be cut off that stop() awaits; does each end; does a signal end the process; is every item swept? | 3 items, one of them malformed, pages of 1, sound or any cursors, 1 fault |
| `rate` | are turns an interval apart; does each come? | 4 calls, an interval of 3 |

Why these are enough. Delivery: a fault and a late request meet at every point of both processes,
and a claim of the second process meets everything the first has left behind; the theorems below
hold for any number of faults, attempts and processes. `DeliveryAttempt`: a limit between one file
and two, and every phase with every error it can end with. `FolderSync`: three UIDs give a mailbox
with a part below the recent window, a part in it and new mail; with batches of two the server may
answer a batch out of order, so that the checkpoint ends below a message the tick has written, and
three new messages make two batches; two generations give the one rollover a tick can meet. A
bootstrap or a backfill of several batches needs more UIDs than TLC gets through, and so does a
second fault; the theorems about the checkpoint and the rows need no bound, so it is
`EventuallyMirrors` alone that is shown with these bounds only. `AccountSync`: two listed folders
make the rotation, one of them of the name of Exchange's, the third is outside the allowlist; IMAP
and Drive begin in every combination, so one change is a folder removed, made or renumbered at any
point of a tick, with whatever Drive had before; `Period` is a multiple of all list lengths, so
counting intervals modulo it changes no remainder. `MessageRow`: three calls are a stale copy, a
write between, and a third that meets both; a window of one and one later UID let the message begin
beyond the checkpoint, in the window or below it, and leave the window at any point of a call.
`MailboxLock`: a lost connection and a close by each download make up to four clients, whose late
events meet their successors; two downloads and a reader are one that holds, one that waits and one
that asks the pool. Again the theorems need no bound. `DeliveryRuntime`: pages of one make a listing
of three pages, with the malformed row in the middle. `RateLimiter`: four calls are one granted, one
asleep, one chained and one that finds the tail forgotten. `AttachmentUpload`: three uploads are one
that deletes, one that has stored and one between list and delete.

`CHECK_DEADLOCK FALSE` is where a system ends: a process that has exited, a message that has left
the mailbox and the mirror, uploads that have all answered, an attempt with its verdict.

Of the type invariants only that of `OutboxDelivery` is among the properties of the runs. The others
are proved, or part of an invariant that is, except those of `DeliveryLifecycle` and
`DeliveryRuntime` and the last three conjuncts of `UsersTypeOK` (`MailboxLock`), which describe
their variables.

## Where the code and its documents differ

Three sentences of the repository have a run that violates them; "findings" in PROJECT.json quotes
them.

- `folder_history`: a bootstrap cut off after its first checkpoint goes on as a forward pass that
  announces old mail.
- `folder_search`: a SEARCH without an answer counts as an empty mailbox, and the prune empties the
  mirror.
- `abandoned_download`: a download that has timed out does not always close its client, as
  `fetch.test.ts:225` has it. Its caller answers after 25 s and leaves `downloadPart` running
  (`attachmentHydration.ts:222`); if the part opens after that, and it surely does not open before
  if a reconnect waits its 30 s first, its limit is cleared, nobody takes it, and the mailbox lock
  stays taken until the connection goes down. Nothing else of the account gets to the mailbox.
  `ReadersServed` excepts this case and no other.

Others bound what the passing runs state, as the comment at each property says:

- `MaintenanceFair` needs ticks that end within their interval: the folder to maintain is the wall
  clock modulo the number of folders (`sync.ts:899`), and longer ticks may skip the same folders for
  ever.
- `ManagedKept` says how Exchange's Review folder can be lost after all: an IMAP folder of that name
  is synced into it, and from then on a renumbering drops it (`sync.ts:391`), though the comment at
  `sync.ts:303` has Review drafts "removed only by explicit Exchange send/delete actions". The run
  has such a folder.
- `FlagsConverge` speaks of the last `flag_reconcile_window` UIDs (`sync.ts:708`), and of none if
  that is 0. Below them a change by another client, and flags that a hydration has written back from
  an old copy, stay as they are: the drift that `README.md:40` of the repository calls bounded is
  bounded in the window only.
- `Bounded` counts the bytes kept: the chunk that goes beyond the limit and the copies that
  `Buffer.from` and `Buffer.concat` make (`driveAttachmentLoader.ts:80`) are not counted.
- `SweepsEnd` holds for cursors from a finite set: a server with ever new ones would not let a sweep
  end.
- `CurrentRowsFaithful` speaks of the current generation: a mailbox renumbered during a tick gets
  rows under ids of the old one (`sync.ts:539`), until the next tick drops them.
- `GoneRowsGo` speaks of an expunged message: after a renumbering a hydration under way puts back a
  row that no prune finds (`sync.ts:320`).
- Hydration of an attachment writes back the body state and the sibling attachments' states it read
  at its start (`attachmentHydration.ts:127`); no property promises them.
- `EveryItemSwept` excepts the time in which a row that does not parse is pending: it stops all
  sweeps at its page.
- stop() of the runtime awaits neither the first sweep nor the requests under way
  (`deliveryRuntime.ts:92`).
- `StoredStays`, `OkIsStored` and `FailsOnlyByFault` speak of uploads that are alike or alone: one
  that meets other metadata deletes what is stored before its own is there (`driveStore.ts:486`),
  though `.agents/design/attachment-stream-sync.md:103` has it fail.

## Fairness

- `OutboxDelivery`: a run that has begun makes its next step (Node runs every settled promise on;
  each call has a timeout), leases lapse (time), and the sweep begins again and again: it comes
  every 60 s, and whenever it comes the item may be in flight, hence strong fairness. Events have
  none: they may never come.
- `FolderSync`: a started tick runs on, the timer starts ticks, and the rotation of `runSyncOnce`
  gives each folder maintenance ticks (strong, since ordinary ticks come between). `AccountSync`
  justifies that for ticks shorter than the interval (`MaintenanceFair`).
- `AccountSync`: time passes, the timer fires once in each interval (drift is ignored), and each
  call of a tick ends.
- `MessageRow`: what has begun goes on; the passes of the ticks come again and again (strong, since
  one pass comes while another is under way). For the backfill that takes that it is switched on,
  for the flag reconciliation that not every maintenance tick finds new mail (`sync.ts:703`).
  Hydration calls and attribute changes have none.
- `MailboxLock`: time passes, the awaits of an attempt end (each has a timeout), the events of a
  client come, a free lock is given, what uses a lost connection fails, and both limits of a
  download pass; ticks come, and their commands end. The code gives these no time limit, so this
  last point is an assumption about the server. Downloads and uploads have none: they may hang.
- `DeliveryRuntime`: calls of a sweep end, timer events come, and the shutdown goes on when what it
  awaits is over; requests may take for ever.
- `DeliveryAttempt` and `AttachmentUpload`: none.
- `RateLimiter`: time passes and settled promises run on.

Faults, crashes, arrivals and rollovers are bounded, so that each of these systems rests in the end.

## Proofs

The theorems hold for every value of the constants; their only assumptions are those the modules
state on them, and two hypotheses named below. Every invariant and every action property of the
passing runs is a theorem.

**At most once** (`OutboxDeliveryProofs`: `TypeCorrect`, `AtMostOnce`, `OutcomeIsTruthful`).
At-most-once is not inductive: the argument is that a run acts on the copy it got from its last
call, and that the copy describes the row for as long as the revision is the same (`HeldIsPast`). So
a run about to mark the item knows, if its mark succeeds, that the row was unmarked and nobody had
sent (`RowTruthful`); after the mark every other run or late request with an older revision is
refused; and what a run means to write is true for as long as it can be written (`IntentTruthful`,
`LateTruthful`). The proof has one lemma per action.

**The lifecycle** (`OutboxDeliveryProofs`: `LifecycleImplemented`, `AckIsFinal`). Every step of
`OutboxDelivery` is a move of `DeliveryLifecycle` or a stutter. A step is a request the row permits,
a submission, or one that leaves row and mail alone; a permitted request of each kind is one move.
Beyond the invariant above this takes that only a delivery that was started is ever called unknown
(`UnknownWasStarted`). `DeliveryLifecycle` has no fairness; that each item ends is left to the run.

**Attempts and leases** (`OutboxDeliveryProofs`: `AttemptsKept`, `LeaseKeepsRow`). Each submission
is paid for by a claim that raised the attempts of the row, and a run that is marked has a claim
left over (`Paid`). For the lease: one run of a process is at work at a time, the row's owner is who
wrote it last, and the late requests of a process are older than what it claimed since (`LeaseInv`
of `OutboxInvariant`), so that no request of another and none of its own meets the revision that the
lease protects.

**The attempt** (`DeliveryAttemptProofs`: `LoaderTypeCorrect`, `BoundKept`, `AllLoadedOrRefused`,
`AttemptLoads`, `VerdictsAreTrue`). A loader that reads is at a file of the mail, and the two tests
of `readBounded` do the rest of the bound. That it loads all or refuses rightly is about the sum of
the sizes, a recursive function of the number of files: what is counted at a file is the sum of the
files before (`Accounted`), and no part of a sum is more than the whole (`SumsGrow`, `SumsOrdered`).
The lemmas about sums are by induction, in the form that a set of numbers which has 0, and with each
number the next, has them all (`Reaches`, from the least number that would be missing). A verdict is
true because no error that can come once the whole mail is under way is one that
`classifySmtpFailure` takes for a failure before acceptance.

**The runtime** (`DeliveryAttemptProofs`: `NoneSweepsAfterStop`, `SweepsAwaited`). A sweep begins by
a timer event only, and a timer that `start()` sets after `stop()` finds `stopping`; once `stop()`
has returned the sweep of the timer is over (`StopAwaits`), as it is at the exit.

**The folder** (`FolderSyncProofs`: `FolderTypeCorrect`, `CheckpointSound`, `RowsFaithful`,
`NewMailIsAnnounced`, `RowsKept`). `FolderInvariant` says what a tick knows at each of its calls.
All of it counts only as long as the mailbox has the UIDVALIDITY the tick was told (`tick.uv =
gen`), which is why a renumbering in the midst of a tick does no harm: its rows and checkpoint are
of the old numbering, and the next tick drops them. A forward pass has been everywhere below its
range and a backfill everywhere above (`PassDone`); the messages fetched are all of the batch
(`RangeDone`); what SEARCH did not show has no message (`SearchTrue`). All but the types need that
SEARCH answers (`SearchMayFail` is false); `folder_search` shows that this cannot be dropped.

**The ticks of an account** (`AccountSyncProofs`: `SyncTypeCorrect`, `LiveFoldersStay`,
`ManagedFoldersStay`, `StopIsFinal`). One tick of an account is under way at a time (`OneTick`), so
between its calls only IMAP and Exchange change anything, and IMAP never gives a number twice
(`NumberingsAreOld`). A folder the list of the tick does not have was missing when LIST answered; it
may be back by the time the tick prunes, but under a number Drive cannot have (`LeftOutIsOutdated`).
The same goes for a folder about to be dropped (`DropsOutdated`): its number was given after the one
Drive has. `ManagedFoldersStay` has no hypothesis on names: the prune finds no folder of Exchange
(`FoundIsLeftOut`), and what a tick drops, of Exchange's or not, is mirrored in Drive, under another
number than STATUS gave the tick (`DropsOutdated`), which no step of Exchange undoes in between.

**The row** (`MessageRowProofs`: `RowTypeCorrect`, `LoadedIsStored`). The row is written whole from
copies of any age, so the claim is about the copies, too: as long as the message is in the mailbox,
no copy says loaded of what is not stored (`CopiesHaveBytes`). Bytes go only with a drop or a prune
of the message: a drop belongs to a renumbering, after which the old row speaks of no message, and a
prune that listed the mailbox with the message in it spares the row (`ListedIfThere`).

**The upload** (`AttachmentUploadProofs`: `UploadTypeCorrect`, `StoredForGood`, `OkMeansStored`,
`ConflictsAreResolved`, `AllOkMeansStored`). Whatever is stored was there before or is what some
call came with (`Origin`). Among uploads that are alike, whatever one finds matches, so none ever
gets to a delete (`AlikeGoesOn`); an upload that is alone finds nothing where it has deleted, so its
second try ends (`AloneGoesOn`). When uploads disagree, each that answers ok has just seen or made
the attachment stored, and only one that has not answered deletes: the last answer is true for all
of them. `AllOkMeansStored` has the hypothesis that there is an upload at all.

**The connection** (`MailboxLockProofs`: `OneConnectionKept`, `NoConnectionLost`, `ReconnectsWait`).
While an attempt is under way no client but its own is up, since `forAccount` evicts what is live
before it starts one. For the reconnect window: what is left of it and the time since the last
failure are together no less than the delay, and the sleep of an attempt carries that on
(`WindowInv`); a client whose error event is still to come is the live one or the one that connects
(`NoStrayDead`), so no error comes between the sleep and the connect and has the wait forgotten.

Readers and downloads do nothing to the pool that its callers may not do (`UsersImplementPool`), so
that all of this holds with them (`UsersShareOneConnection`, `UsersWaitToReconnect`), and those who
hold a lock took it from distinct clients (`UsersApart`).

**The rate** (`RateLimiterProofs`: `RateKept`). The calls under way form one chain that ends in the
tail the map has; only its first sleeps, and whoever sleeps does so until an interval after the last
turn.

Only model-checked: everything under fairness, which is beyond the prover (`EventuallyTerminal`,
`EventuallyMirrors`, `FoldersConverge`, `MaintenanceFair`, `FlagsConverge`, `GoneRowsGo`,
`SweepsEnd`, `SignalMeansExit`, `EveryItemSwept`, `EveryTurnComes`, `ReadersServed`), and the three
runs that find a violation.

## Plan

1. The safety that the liveness properties rest on, as theorems: the number of pages a sweep can
   turn is bounded by the cursors it has not seen (`SweepsEnd`); a lost row of a message that is
   there lies above or below what the checkpoint covers (`EventuallyMirrors`).
2. Compositions: the shutdown of stdio mode over `AccountSync` and `MailboxLock`; the steps of
   `AttachmentUpload` inside `MessageRow`.
3. An abstract mirror (a set of rows that follows the mailbox) that `FolderSync` implements between
   rollovers.

## Not modelled

Texts, MIME, headers, HTML stripping and the mapping of addresses (pure conversions); configuration
and the choice of the mode at start-up; the read-only tools; `test_connection`, a login outside the
pool. Of the parts marked "partly" in PROJECT.json the note says what is left out.
