# DRAtchet: TLA+ models and proofs

DRAtchet is a one-to-one end-to-end encrypted chat: a relay server that queues
mail for recipients who are away, and clients that run X3DH and the Double
Ratchet over it. This directory models the relay, the ratchet and the client
pipeline in TLA+, checks them with TLC on small instances, and proves what
matters most with TLAPS for every value of the constants.

`PROJECT.json` lists the components, the runs, a mutant for each property that
shows it can fail, the map from definitions to source lines, the hazards of the
code at their lines, and the theorems.

## 1. The system

| Component | State it keeps | Operations | What makes it correct |
|---|---|---|---|
| **Relay mailboxes** (`server/src/ws.rs`, `state.rs`, `pruning.rs`) | `mailboxes`, `memory_bytes`, `next_flush_seq` under one lock | MailboxWrite, MailboxFetch, MailboxDelete, expiry sweep | an acknowledged write is kept until collected or expired; limits hold |
| **Save loop** (`server/src/flush.rs`) | `flushed`, `flush_notify`, `flush_lock` | `flush_now`, `spawn_flusher`, `shutdown` | waiting writers are answered; removed mail leaves the disk |
| **Mail store** (`server/src/mailstore.rs`) | index rows and sealed state record, Fragment files, `epoch` | `open`, `save`, `retain`, `read_envelope`, `advance_epoch`, `mark_clean_shutdown` | no crash leaves a row without Fragments; lost mail changes the Server Epoch |
| **Presence and connections** (`server/src/ws.rs`, `state.rs`, `pruning.rs`) | `connections`, `presence`, `subscriptions`, evidence of fetches, outbound queues | admission, authenticate, announce, subscribe, rendezvous, close, sweep | a connected account is reachable and shown online; the cap holds |
| **Rate limiters** (`server/src/abuse.rs`, `address.rs`) | token buckets, slots per address | `allow`, `try_acquire`, `release`, sweeps | no allowance is exceeded, whatever is swept; slots are returned |
| **Directory** (`server/src/ws.rs`, `persistence.rs`, `core/src/account.rs`) | bundles with one-time prekeys | PublishBundle, FetchBundle, replenish, rotate | a one-time prekey is handed out once, also over a restart; what is offered can be answered |
| **Double Ratchet** (`core/src/ratchet.rs`) | root, chain and skipped keys, counters, the contiguous frontier | `encrypt`, `decrypt_raw`, `receiving_progress` | each message opens once; no key seals twice; late messages open; progress never overclaims |
| **Client delivery** (`app/src/lib.rs`, `store/src/messages.rs`) | messages with their state, the saved session, the noted boot id | `send_message`, `transmit_chat`, `retry_message`, `receive_pending`, receipts and acks | no message lost silently, or shown twice but where two writes of a record are torn apart; no key reused after a crash |
| **Routing handover** (`app/src/lib.rs`, `store/src/routing.rs`) | the contact's routing id, confirmed, the kept announce | announce, reannounce, mailbox choice | no side waits in a mailbox the other does not use |
| **First contact and pairing** (`app/src/lib.rs`, `store/src/verification.rs`) | pairing code with attempts and expiry, contacts | generate, attempt, accept | a code accepts once, attempts are limited, across stops and redeliveries |
| **Wipe policy** (`store/src/wipe_policy.rs`, `app/src/lib.rs`) | both sides' preferences, pending request, boundary | announce, request, confirm, decline | what is wiped comes back only where a pass was cut short; what the policy protects stays |
| **Client connection** (`client/src/net.rs`) | socket, `lost` flag | send, receive, time out | an answer is taken for the request it answers |
| **Local store** (`store/src/db.rs`, `messages.rs`) | sealed records, the wrapped content key | put, delete, quick wipe, full wipe, open | a stop at any commit leaves a database that opens |
| **UI backend** (`ui/src-tauri/src/lib.rs`) | session lock, poll loop | commands | no command writes back a stale contact |
| **Identity, payloads, usernames** (`core/`) and **configuration, wizard** (`server/`) | none | pure functions, sequential I/O | not modelled |

How they interact. A client seals an envelope with its ratchet, saves the
advanced session, and sends MailboxWrite; the relay queues the envelope and
answers once a save has put it on disk. The recipient's poll loop fetches,
opens, stores, deletes, and sends a receipt; every chat carries a cumulative
ack too. When a client connects, AuthChallenge carries the relay's Server
Epoch; a value other than the one noted last makes the client offer Retry for
everything that was accepted and not confirmed. Before any of that, two people
meet through the directory and one pairing code, and move from the bootstrap
inboxes to a mailbox only the two can compute.

What is hard. The relay's handlers, save loop, sweep and shutdown are tasks
that share state under several locks and do file work between them; the process
may stop at any step. The network and the relay may repeat, reorder, delay and
lose envelopes, answers and whole queues. A client operation is several store
transactions around a network exchange; some commands read a contact before
they wait for the session lock, others take no lock at all.

## 2. Modules

| Module | Contents |
|---|---|
| `MailQueue` | the abstract promise of a relay with a mail store: what is owed is there, what is purged stays away |
| `MailRelay`, `MCMailRelay` | queued mail: handlers, save loop, mail store, Server Epoch, shutdown and restart; implements `MailQueue` |
| `MailRelayProofs` | all its safety properties, that it implements `MailQueue`, and the inductive invariants behind them |
| `Ratchet`, `RatchetProofs` | the Double Ratchet between two parties, and its inductive invariants |
| `Conversation` | the abstract promise: drafts, offers, sent, confirmed; taken at most once |
| `Delivery`, `MCDelivery` | both devices' send and receive paths over one relay; implements `Conversation` |
| `DeliveryProofs` | all its safety properties, and that it implements `Conversation` |
| `DataFacts` | lemmas about queues, sets of numbers and positions that several proof modules share |
| `Handover`, `HandoverProofs` | the switch of a conversation from the bootstrap inboxes to the routing-id mailbox, and its inductive invariants |
| `Pairing`, `MCPairing`, `PairingProofs` | directory, one-time prekeys, first contact, pairing codes |
| `Wipe`, `MCWipe`, `WipeProofs` | conversation wipes, quick and full wipe, over one device's database; all its safety properties proved |
| `Connections`, `MCConnections`, `ConnectionsProofs` | admission, presence, rendezvous, limits, sweep, and the client's end of a connection; all its properties proved |

The modules meet where the code does. `Delivery` uses of the ratchet only
positions `<<chain, n>>`, each of which opens once and is sealed once: that is
what `Ratchet` checks and proves. It uses of the relay a queue whose entries are
kept until collected, may expire, may reappear if a save was older than a
deletion, or are all lost with a change of boot id: `MailRelay`, and `MailQueue`
for what of it is promised. `Handover` takes "opens once" for granted in the same
way. `Connections` leaves the content of mailbox requests to `MailRelay`.

### MailQueue and MailRelay

An *entry* stands for a write request and for the mailbox entry it creates.
Memory is `mailboxes` (the queued entries), `saved` (those marked saved, whose
envelope memory no longer holds), `flush_seq`, `memory_bytes`, `flushed`. The
disk is `index` (for each entry the save that wrote its row), `files` (the
Fragments, by entry and save, since every save makes new UUIDs) and `meta` (the
sealed state record: epoch, clean flag, manifest of the rows, and whether the
configured key opens it). A row and the state record change in one step because
the code writes them in one redb transaction.

Every action is one stretch of code under a lock or one file or database
operation between two of them:

- `WriteRateLimited`, `WriteRefused`, `WriteQueued`, `WriteAcked`,
  `WriteTimesOut` are MailboxWrite; the wait for the save is between the last
  three. `WriteTimesOut` may happen whatever `flushed` says: the timeout fires
  first, the lock is taken later.
- `FetchList`, `ReadRecord`, `ReadFragments`, `FetchAnswered` are MailboxFetch,
  `DropLost`, `BumpEpoch`, `PersistEpoch` or `PersistFails`, and `AnnounceEpoch`
  what it does when something did not read back. `ReadRecord` is
  `read_envelope`'s look-up under the records lock, `ReadFragments` what it
  reads after releasing it.
- `FlushTake`, `SaveFragments`, `SaveCommit`, `RetainCommit`, `RetainUnlink`,
  `MarkSaved`, `FlushDone` are `flush_now`, one at a time as `flush_lock`
  orders; `FlushFails` its errors.
- `Shutdown`, `MarkCleanRead`, `MarkCleanWrite` are the graceful shutdown, during
  which handlers of open connections still run; `Stop` ends the process at any
  step; `Start`, `StartInterrupted` are `MailStore::open`, `StartInMemory` the
  relay without a store.
- `Connect` is what a client does with the epoch it is sent. `Expire` is the
  clock. `DamageFragments`, `RemoveRows`, `LoseState`, `LoseIndex` and
  `ChangeKey` are changes from outside that the code handles.

Abstracted: an envelope weighs one unit of memory; fetch and delete rate limits
and the ownership check only refuse requests, which not making the request
covers; the early save at half the memory limit is covered by the timer, which
may fire at any time. `stale_write` is a history variable: it remembers that a
state record was out of date when it was written, so that
`LossIsAnnouncedInOrder` can say where the announcement of losses is to be
relied on.

`MailQueue` is what its clients are promised when it has a mail store. A request
is answered once: refused, or acknowledged after it was pending. Mail is *owed*
from when it is accepted until it is refused or released (collected, expired, or
destroyed from outside). What is owed is visible in its mailbox whenever the
relay runs and held while it does not; what is not owed may leave the mailbox and
be purged at any step, may be visible again after a restart while it is still
held, and never returns once it is purged. `Queue` is the refinement mapping: `visible` is
`mailboxes`; `held` adds the rows on disk and the batch of the save under way,
which may write a row for mail that has just been deleted; a write whose client
has gone is still pending. That is how a save that overlaps a delete, a time-out
that overlaps its save, and a start after a crash appear as single steps of a queue.

### Ratchet

Keys are symbolic: a DH keypair is a number, a DH output the set of the two, a
root key the sequence of DH outputs it was derived from, and a message key its
chain and index. An envelope opens exactly with the key it was sealed with.
`sent[p]` only grows and any of it may arrive at any time, any number of times:
that is loss, duplication and reordering at once. `OpenCached`, `OpenOnChain`
and `OpenAfterStep` are the three ways through `decrypt_raw`; an envelope that
does not open leaves the state as it was, because `decrypt_raw` commits only
after the tag has verified. `skipped` and `skipped_order` are kept as in the
code, with the ids of keys used meanwhile left in the order.

### Conversation and Delivery

`Conversation` is what the two people are promised: a message moves from draft
to offered to sent to confirmed, a confirmed one stays confirmed, and the other
side takes each message at most once, only after its author let it go, and
before it is confirmed. `Delivery` is the code. Each device holds the session
lock for one operation at a time, whose place is `step`; between two steps lies
a store commit or a network exchange. `SealChat`, `SaveFlagged`, `WriteChat`,
`SaveAccepted` are `transmit_chat` (and through it `send_message` and
`retry_message`), `KeepUnsent` the paths that find no usable connection;
`Fetch`, `ApplyEntry`, `DeleteEntry`, `SealReceipt`, `WriteReceipt`, `EndPass`
are `receive_pending`; `Connect`, `FlagLost`, `NoteBoot`, `Adopt` are
`authenticate_and_reconcile`; `MarkExpired` is `mark_expired_sends`. An
unanswered request may or may not have reached the relay, and loses the
connection. A received chat is stored by two writes, `ApplyEntry` and `SaveId`: first
its record, which its position identifies, then the same record with its author's
message id, which a resend is recognised by. `halved` remembers the chats whose
pass stopped between the two. The marks an acknowledgement sets are one step with
the first of them: processing the envelope again sets them again. `Crash` forgets
`step`, `out`, `batch` and `mem` and keeps what was saved; `Restart`, `Reappear` and
`Expire` are the relay's faults. `Promised` instantiates `Conversation` with a
refinement mapping: the state of the author's record, and what the other device has
stored or withheld.

### Handover

`contact` is the part of each side's contact record the handover uses: `known`
(the peer's routing id, and with it the switched mailbox), `confirmed`, and
`kept` (the announce to send again). `LoadContact` reads the record before the
session lock is taken, as the desktop's commands do; `SavePolicy`, `WritePolicy`
and `Decline` save that copy back whole. `opened` stands for the ratchet: an
envelope opens once, so a repeated announce is recognised only if the first
copy's session was not saved. `cut` and `undone` remember a stop before the
announce was kept, and a stale copy written over a newer record.

### Pairing

One device, its initiators (one attempt each), and the relay's directory and
bootstrap inbox. Publishing is three steps (generate in memory, publish, save),
because a refusal or a stop between them is the hazard; fetching a bundle takes
one one-time prekey and saves the directory before the answer. The device's
pass over its inbox is cut at each store write: load the code, count the
attempt, consume the code, save contact and session, announce, delete, and save
the account at the end of the pass.

### Wipe

One conversation on one device. Records name the key they are sealed under, so
that a put which began before `quick_wipe` replaced the key and commits after it
leaves a record that cannot be read. `op` is the operation holding the session
lock, cut at every await and commit; `quick_wipe`, `full_wipe` and
`decline_pending_wipe` take no lock and run beside it. A chat is one envelope of
it, which the session opens once. A received one is stored unless its record is
found, by its message id or, as long as that is not saved, by its position; a
record that does not decrypt is passed over by a wipe from a boundary on, deleted
by one without a boundary, and ends a pass that comes to it. `gone` is everything
a wipe removed; `cut` remembers the chats of passes that ended before they saved
their session, which the saved session opens again. `covers` and `overreach`
remember which records a boundary was to protect.

### Connections

A connection is admitted (cap, address slot, token), upgraded, opened, used and
closed, each a step; `job` is what a handler still does after it released the
lock (notify subscribers, relay a frame, then answer), so that other tasks run in
between. Outbound queues are bounded, and `try_send` drops what does not fit. A
bucket absent from its map behaves as a full one and is written so. Time is a
count of refill periods. `client` is the other end: one request at a time, every
wait bounded, lost after a time-out.

## 3. Runs

| Run | Properties | What it shows |
|---|---|---|
| `save` | `AckedIsKept`, `RowsHaveFragments`, `MemoryIsCounted` | an Ack means the entry is kept, over every save, time-out, failure, damage, crash and restart; unsaved mail stays under the operator's limit |
| `live` | `LossIsAnnouncedInOrder`, `ListedIsStored`, `LostIsGone`, `UnqueuedLeavesDisk`, `WaitingIsAnswered`, `QueueImplemented` | the relay implements `MailQueue`; a fetch that reads with the locks released skips and drops only mail nobody waits for; losses are announced; removed mail leaves the disk and writers are answered |
| `memory` | `LossIsAnnounced` | without a mail store every restart is announced |
| `session` | `OpenedOnce`, `NextKeyIsFresh`, `ProgressIsExact`, `ArrivalsOpen`, `OldestEvicted` | the ratchet's promises under any delivery |
| `delivery` | `TypeOK`, `FreshPosition`, `DeliveredIsReceived`, `UnconfirmedIsKnown`, `DeliveredStays`, `ConversationKept` | no position is sealed twice, nothing is confirmed unreceived or silently gone; the pipeline implements `Conversation` |
| `delivery_live` | `ShownOnce`, `ConfirmedOrOffered`, `MailboxDrains` | a message has one record however often it arrives, unless its pass stopped between the write of the record and that of its message id; every accepted message is confirmed or offered for a retry; no entry wedges a mailbox |
| `handover` | `PeerCatchesUpInOrder`, `ConfirmedHasSwitched` | a side that lags behind can still learn the routing id; re-sending stops only once it did |
| `pairing` | `HandedOutOnce`, `OfferedIsHeld`, `AcceptedOnce`, `GuessesBounded` | prekeys, codes and first contacts are used once |
| `wipe` | `TypeOK`, `WipedStaysGone`, `ProtectedStays`, `AskedFirst` | what was wiped is not read again, but for what an operation held when a quick wipe struck, and a chat whose pass ended before it saved the session; nothing is wiped that the boundary in force protects, or unasked while both sides want to be asked |
| `front` | `AnswerIsOwn`, `PresenceIsTrue`, `SlotsHeld`, `CapHeld`, `AllowanceBounded`, `RelationshipsLast` | presence, slots, cap, allowances and answers over overlapping connections, bursts, sweeps and forged headers |
| `reopen` | `StaysOpenable` (violated) | an interrupted quick wipe leaves a database that never opens |
| `rotation` | `RotationSparesInFlight` (violated) | a first contact sealed just before a rotation is dropped |

`ConversationKept` and `QueueImplemented` are the refinements: the specifications of
`Conversation` and `MailQueue` under the mappings of `Promised` and `Queue`.

### Bounds

- `save`: three writes of one account into one mailbox, a memory limit of one and
  a writer quota of two: a third write meets both limits while the first two wait
  or are saved. Two saves let an entry be taken by one save and removed by the
  next; one fault and one stop hit every step in between. No fetch runs (that is
  `live`'s question). Entries are interchangeable, and what no step reads again
  is left out of the view.
- `live`: one entry, one fetch handler, five saves, one fault and two stops. The
  questions are about one entry's way through a fetch that interleaves with
  saves, removal, loss, and two restarts, the second of which may keep an epoch
  that the first changed. Five saves are what the entry can need: taken, failed,
  taken again, removed after a withdrawal, and a last one after a restart.
- `memory`: two entries, two stops, no store.
- `session`: five messages each way, six keypairs, max_skip and the cache two:
  three DH steps by each party, more than max_skip messages missing, and a cache
  that overflows over several chains.
- `delivery`: two messages of the initiator and one of the responder, three
  transmissions, one fault. A cumulative ack covers two messages, a retry has a
  second copy in flight, and both sides turn the ratchet. `delivery_live` has one
  message each and two faults, so that a retry is lost too, and a stop between the two
  writes of a record meets the loss of the message's first copy, the case `ShownOnce`
  excepts.
- `handover`: two commands and two faults: a chat that triggers the second
  announce and a stale save beside it; an announce lost twice.
- `pairing`, `rotation`: two initiators compete for batches of one key and two
  codes of two attempts, over three publications and two faults. With batches of
  one the pool runs empty, which is the case in which nothing is saved.
- `wipe`, `reopen`: one sent and one received chat, two policies or requests of the
  peer and one fault: a pass that fails, a wipe, and the pass that opens the chat
  again are among them. The constraint `Apart` of `wipe` divides it into a quick or a
  full wipe beside one command at most, within one second, and two commands without
  one, of which one writes back what it loaded before the other, over two seconds, so
  that a boundary can fall in the second of the records around it.
- `front`: `MCScenarios` divides three connections of two accounts into five
  scenarios, since the product of all would be out of reach: connections that
  come and go while two refill periods pass; overlapping connections that
  authenticate; requests between two connections, with and without published
  bundles; and every kind of request on one connection. Cap and slots are two,
  so that a burst of three passes them.

CHECK_DEADLOCK FALSE is set where the system really stops at the bounds: all
messages sent and collected (`session`, `delivery`, `delivery_live`), all commands,
codes, requests or connections used (`handover`, `pairing`, `rotation`, `wipe`,
`reopen`, `front`). In `MailRelay` a stopped relay is always started again and time
may pass, so deadlock is checked there.

### Fairness

`live`: the save loop is a task that runs as long as the process does, a writer
released by a save is answered by its own task, and a stopped relay is started
again: weak fairness of `SaveStep`, `WriteAcked(e)` and `Start`. Nobody has to
write, fetch, delete, time out, or fail.

`delivery_live`: the poll loop reconnects and receives for ever, and an operation
that began runs to its end: weak fairness of `Work(p)`. The check for expired
sends is made every round of the same loop but needs the session lock, which
others hold in between; tokio's mutex serves its waiters in order, so it gets the
lock again and again: strong fairness of `CheckExpired(p)`. No user has to send,
retry or verify, and the relay owes nothing.

## 4. Findings

- **An interrupted quick wipe leaves a database that never opens** (`reopen`).
  `quick_wipe` commits the new content key, then deletes the records sealed under
  the old one. A stop in between leaves message records that the next `Db::open`
  reads to recover the message sequence; the first fails to decrypt and the error
  is returned. The doc says the account keeps functioning and the delete loop is
  best-effort; the crash test meets the failing reopen and rules the ordering out
  as its cause.
- **A first contact sealed just before a rotation is dropped** (`rotation`). The
  docs of `account.rs` promise that a rotation never invalidates a bundle fetched
  moments earlier; `try_accept_first_contact` uses the current signed prekey
  only, and a publication clears the one-time prekeys before it.

Deviations met while modelling that no run is given to:

- **A message sent again can be shown twice.** `save_received_chat` commits the
  record without the message id (`messages.rs:334`) and the id after it
  (`:404-409`). If the app stops in between and the first copy is lost before it is
  read again, say with the relay's queues, the retry arrives at another position: no
  record has its id or its position, and it is stored as a second record, though the
  comment says that nothing new is saved for a resend of what was received
  (`:376-378`). `ShownOnce` excepts it (`halved`).
- **A wiped chat can come back.** A pass stores a chat before it saves the session
  and deletes the entry (`app/src/lib.rs:1262`, `:1314`). If it ends or stops in
  between and the conversation is then wiped without the session, by the user's own
  request or one the user confirms, the next pass opens the chat again and finds no
  record of it. `WipedStaysGone` excepts it (`cut`). A message that its author sends
  again after a wipe comes back too, as its record is what a resend is recognised
  by; that is outside `Wipe`, whose chats are single envelopes.
- **A collected entry is taken for lost mail.** `read_envelope` releases the
  records lock before it reads the Fragments (`mailstore.rs:776`). If the entry
  is collected and a save's `retain` deletes them in between, the read fails,
  and a new Server Epoch is started: every client offers Retry for mail that was
  delivered. `LostIsGone` shows, and `DroppedGone` proves, that only the alarm is
  false: no mail still wanted is dropped.
- **A loss can stay unannounced.** `advance_epoch` and `mark_clean_shutdown`
  read the epoch before they take the lock they write it under
  (`mailstore.rs:791`, `:807`), and the final save does not wait for a fetch
  that has just dropped lost entries. The last record can say "clean" with the
  epoch from before the loss. `LossIsAnnouncedInOrder` holds up to that.
- **A failed save is not retried with a zero interval** (`flush.rs:84`), though
  the log says so: the loop waits for a notification only another write sends.
  `WaitingIsAnswered` is checked with a timer.
- **An old connection's close signs the newer one out** (`ws.rs:259`).
  `overtaken` marks it; the sweep may then take the account for a throwaway
  identity and drop its evidence and subscriptions.
- **Two upgrades can pass the connection cap together** (`ws.rs:78`); `burst`
  marks it.
- **A stale contact can restore an older policy.** `decline_pending_wipe` and
  `set_wipe_policy` save a contact loaded before (`app/src/lib.rs:1944`); a policy
  or boundary the peer announced meanwhile is lost. `ProtectedStays` and
  `AskedFirst` go by the record in force, so they do not show it.
- `notify_presence` pushes after the lock is released, so a watcher may be left
  with the older of two states; a full outbound queue drops answers too; an
  Error frame for PresenceSubscribe or PresenceAnnounce answers a request whose
  client is not waiting, and the next request may take it for its own.
- A side whose app stops after pairing and before its announce is kept never
  announces, and a stale contact saved by `set_wipe_policy` or
  `decline_pending_wipe` can undo a switch: `PeerCatchesUpInOrder` excludes both
  (`cut`, `undone`), plain `PeerCatchesUp` does not hold.
- A pairing whose answer was lost leaves one side paired and the other not; the
  shared bootstrap inbox lets one contact's pass delete another's mail
  (`app/src/lib.rs:1115`), which `OtherContactDeletes` models; a directory whose
  save failed hands a prekey out again after a restart (`unsaved`).
- `Db::create` writes salt and key in two commits; a stop in between leaves a
  file that opens no more. It is not part of `Wipe`, which starts with an open
  database.

## 5. Proofs

Each theorem holds for every value of the constants that satisfies the named
assumptions of its component (`EntriesFinite`, `WriterOfType`, `BoxOfType`,
`SettingsType`, `LimitsType`; `BoundsType`; `DeliveryAssumption`; `HandoverAssumption`;
`PairingAssumption`; `WipeAssumption`; `SizesAssumption`, `NamesAssumption`,
`CapacityAssumption`). TLC evaluates the assumptions in every run. The bounds that
keep a run finite are constants too, so the theorems hold for every number of
saves, faults, restarts, messages and commands.

- `MailRelayProofs`. `TypeCorrect`: `TypeOK`.
  `AckedKept`, `RowsWhole`, `ListedStored`, `DroppedGone`: `AckedIsKept`,
  `RowsHaveFragments`, `ListedIsStored` and `LostIsGone`. None of them is
  inductive. `Kept` strengthens them: `SaveInv` says what the save in progress
  has on disk at each of its steps (its batch's Fragments before its rows, and
  that all it will remove is collected, expired or damaged); `QueueInv` that
  saved entries have rows, that each unsaved one will be covered by a save
  numbered no later than `flush_seq`, and that a waiting one is still queued;
  `ReadInv` what a fetch still holds; `DownInv` that a stopped relay holds
  nothing. The step that matters is `FlushDone`: a writer released by save
  number n has its entry on disk because it was queued, and so was in the
  batch, when n was given out. `MemoryCounted` (`MemoryIsCounted`) is inductive
  with `TypeOK`: a step that adds nothing unsaved leaves the total an upper bound,
  and the three that change it count what stays or add the one entry they queue.

  `LossAnnouncedInOrder` (`LossIsAnnouncedInOrder`) and, for a relay without a
  store, `LossAnnouncedInMemory` (`LossIsAnnounced`) are about destroyed copies,
  of which `Kept` says nothing. `UnwrittenInv`: a write not yet made has left no
  trace. `StoredInv` restates `QueueInv` for mail that only damage can have hurt.
  `MemoryInv`: without a store, nothing is on disk. `ReadEpochs`, `SealInv` and
  `IdInv` order the epochs: what tasks, clients and the record hold is never
  ahead of what was given out, and only a finished shutdown seals "clean". Until
  a record is written with an epoch read too early (`stale_write`), three more
  hold together. `SeenInv`: nobody was sent an epoch beyond the one on disk. `LossInv`:
  the writer of mail that left the queue unannounced has noted another epoch, or
  a fetch is about to change it. `CleanInv`: of a clean record that names the
  rows there are, whoever noted its epoch has all mail in a row.
  `MarkCleanWrite` carries `LossInv` into `CleanInv`; `BumpEpoch` and `Start`
  restore `LossInv`, because nobody has noted the epoch they give out.

  `QueueIsImplemented` (`QueueImplemented`), for a relay with a store: `Kept` gives
  that what is owed is in its mailbox, or on disk when the relay is down. A step
  that answers nothing and after which the relay holds and shows no more than
  before is a release; the answers, `Stop` and `Start` are mapped one by one.
  `PurgedStaysAway` draws from it what the abstract queue promises by its shape, for
  the relay's own variables: mail that no mailbox, no row and no batch of a save
  holds any more never comes back, after any restart or interrupted save.
- `RatchetProofs`. `RatchetTyped`, `OpensOnce`, `KeysFresh`, `FrontierIsExact`:
  `TypeOK`, `OpenedOnce`, `NextKeyIsFresh` and `ProgressIsExact`.
  `RatchetInv` orders chains by the length of their root key: every DH step adds two outputs, so a newly derived chain is
  longer than any a party has opened a message on or cached a key of; on the
  current chain all of these lie below `recv_n`; no key is both used and cached.
  The initiator's root keys have odd length and the responder's even, so the two
  never seal with the same chain. For the frontier, `ProgressInv` adds that all
  the keys a party opened with a ratchet key of the peer belong to one chain, and
  that the opened indices of the current chain are those below the frontier and
  the early arrivals; the run that a new arrival joins is counted by its
  cardinality, and after a DH step nothing was opened on the new chain, because
  its root key is longer than any seen.

  `OldestGoes` (`OldestEvicted`): `CacheInv` says that `skipped_order` lists the
  cache from the oldest key on, and that whatever was evicted is older than all
  of it and behind `recv_n` or on an earlier chain. `ArrivingOpens`
  (`ArrivalsOpen`): `SenderInv` says that every chain a party sealed with was
  filled from 0 without gaps, each index once; `Covered` that a message sent was
  opened, has its key cached or evicted, is still ahead on the receiving chain,
  or is on a chain the receiver has not derived; `Ahead` that one of the two
  parties has taken the last DH step, receives on what the other sends on, and
  announces how far it had filled the chain the other still receives on. What is
  not yet cached before an arriving message is then missing, and counted.
- `DeliveryProofs`. `DeliveryTyped`, `KeysAreFresh`,
  `OneRecordShown`, `ConfirmationIsFinal`, `DeliveredIsTrue`, `SentIsSomewhere`
  and `ConversationIsKept`: the properties of `delivery` and `ShownOnce`, the refinement
  of `Conversation` among them. Five invariants over the typed state. `CopiedInv`:
  a record without its message id is that of the pass at work between its two
  writes, or of one that stopped there (`halved`), so any other message has one
  record. `WrittenInv`
  orders positions inside a device: what it put on the wire lies before the
  envelope it has in hand, that before its saved session, and a message it is
  sending again is neither confirmed nor at a later position. `SeenInv` relates
  the devices: the other one has met, opened and acknowledged nothing past what
  this one put on the wire, so a new copy is one that nobody has acknowledged;
  without it a late ack could confirm a retry that never left. `TruthInv` follows
  an acknowledgement from the key the other device used up to the record it
  confirms. `KnownInv` says where a pending message is; it covers the moment
  after the relay accepted a message and before the author's device saved that.
  Nothing bounds the messages, retries, crashes and restarts of the relay.
- `HandoverProofs`. `TypeCorrect`, `ConfirmedHasReallySwitched`,
  `PeerCatchesUpUnlessUndone`: `TypeOK` and the two properties of `handover`.
  `SwitchInv` ties to a side's switch everything that follows from it: its mail in
  the routing-id mailbox and in a pass of the other side, the copies a command
  holds, an opened announce, the other side's confirmation. A switch is only ever
  taken back by an older copy of the record, which `undone` remembers, so the
  invariant needs no order among the steps of the two sides. `KeepInv` says that
  a side is still about to announce or keeps its announce. Together: of a pair of
  which one has switched, that one is not confirmed, keeps its announce, and the
  other has not opened it.
- `PairingProofs`. `PairingTyped`, `HandedOnce`, `OfferHeld`, `AcceptsOnce`,
  `GuessesAreBounded`: `TypeOK` and the four invariants of `pairing`. Three inductive
  invariants: `KeysInv` says that a key handed out is neither in the directory
  nor in the copy a restart would bring back, unless its removal was refused,
  and that batches do not overlap; `OfferInv` what of the offered keys memory
  and disk hold at each step of a publication and of a pass; `CodesInv` that a
  live code's stored attempts are the comparisons made with it and that it was
  accepted for nobody, and that whoever was accepted has no first contact left
  that carries another code.
- `WipeProofs`. `WipeTyped`, `WipedGone`, `ProtectedKept`, `AskedFirstAlways`:
  `TypeOK`, `WipedStaysGone`, `ProtectedStays` and the action property
  `AskedFirst`, in one inductive invariant `WipeInv`. `KeyInv`: no record is sealed
  with a key newer than the database's, and all are older once a quick wipe has
  replaced that key. `OpenedInv`: a received chat that was stored is one that the
  saved session has opened, or the pass that will save the session, unless the pass
  was cut short; so no later pass opens it, wiped or not. `GoneInv` says what an
  operation in progress could put back: what is not wiped, what a quick wipe found it
  holding, or a chat cut short. `PlaceInv`: a boundary lies above everything it covers, and a record that
  is written later lies above the boundary, since seconds and positions given
  out only grow.
- `ConnectionsProofs`. `ConnectionsTyped`, `AnswersOwn`, `PresenceTrue`,
  `SlotsKept`, `CapKept`, `AllowanceKept`, `RelationshipsKept`: all properties of
  `front`, in one inductive invariant `ConnInv`. `CountInv` equates the slots and
  the total with the cardinalities of the connections that hold them; `CapInv`
  says that without a burst at most one upgrade is past the check of the cap.
  `BucketInv` bounds what a bucket gave out and still holds by its capacity and
  the clock; a bucket the sweep may forget is full, or has been idle no longer
  than it holds tokens. `ExchangeInv` follows the one request of a plain
  connection: on its way, at its handler, or its answer on the way back, and a
  client that gave up waiting has lost the connection, so no later request can
  receive that answer.

## 6. What is only model-checked

The liveness properties (`UnqueuedLeavesDisk`, `WaitingIsAnswered`,
`ConfirmedOrOffered`, `MailboxDrains`): liveness under fairness is outside what
TLAPS proves. `LossIsAnnounced` is stated, checked and proved for a relay without
a store; with one it is not claimed (see `LossIsAnnouncedInOrder`). The three
violated properties are refuted by TLC. Every other property of the runs is a theorem, the
refinements of `Conversation` and `MailQueue` and the action properties among them.

## 7. Not modelled

- `core/src/identity.rs`, `payload.rs`, `username.rs`, the arithmetic of X3DH and
  the bytes of headers and envelopes: pure functions of bytes.
- `server/src/config.rs`, `wizard.rs`; the command-line client `client/src/main.rs`
  and its demonstration of pairing; the pages of the user interface, its tray and
  its notifications; commands that only read.
- Of components that are modelled in part: export and import of a ratchet's
  state, and the width of `n` (`u32`: reaching it needs 2^32 messages of one
  chain); username collisions, proof of work and the expiry of whole bundles in
  the directory; the verification gate beyond withheld chats; change of the
  passphrase; a user's own wipe boundary; the mark "uncertain" on a message, which
  is shown and never read.
- `skipped_order` in the ratchet grows with every skipped key while the cache
  stays under its cap; no claim bounds it, so none is checked.

## 8. Plan

1. `Delivery` over `MailQueue` in place of its own relay variables.
2. The directory's usernames, and the verification gate as a component.
3. The store's record seals beyond `Wipe`: change of the passphrase.
