----------------------------- MODULE MailRelay -----------------------------
(***************************************************************************)
(* The relay's queued mail: the mailbox handlers of server/src/ws.rs, the  *)
(* background save of server/src/flush.rs, the on-disk mail store of       *)
(* server/src/mailstore.rs, and the Server Epoch clients compare when they *)
(* connect.                                                                *)
(*                                                                         *)
(* A write is queued in memory and acknowledged only once a save has put   *)
(* it on disk.  Saves, fetches and the shutdown run as separate tasks:     *)
(* every step below is one stretch of code that holds a lock, or one file  *)
(* or database operation between two of them.  The process may stop at any *)
(* step, and starts again from what is on disk.                            *)
(*                                                                         *)
(* An entry stands for one write request and the mailbox entry it creates; *)
(* its envelope counts one unit of memory.  `expired` is the set of        *)
(* entries whose time to live has passed.                                  *)
(***************************************************************************)
EXTENDS Integers, FiniteSets

CONSTANTS
  Entries,      \* entry ids, one per write request
  Accounts,     \* authenticated identities
  Boxes,        \* mailbox ids
  Handlers,     \* MailboxFetch handlers that may run at the same time
  WriterOf,     \* the account that writes each entry
  BoxOf,        \* the mailbox it is written to
  Persistent,   \* whether the operator turned the mail store on
  ZeroInterval, \* whether save_interval is zero: saves only when notified
  MailboxCap,   \* state.rs MAX_MAILBOX_ENTRIES
  WriterCap,    \* state.rs MAX_ENTRIES_PER_WRITER_PER_MAILBOX
  MemoryLimit,  \* memory_limit, in envelopes
  MaxFlushes,   \* bound: saves per run of the process
  MaxFaults,    \* bound: damaged files, failed writes, outside changes
  MaxStops      \* bound: times the process stops

ASSUME EntriesFinite == IsFiniteSet(Entries)
ASSUME WriterOfType == WriterOf \in [Entries -> Accounts]
ASSUME BoxOfType == BoxOf \in [Entries -> Boxes]
ASSUME SettingsType == Persistent \in BOOLEAN /\ ZeroInterval \in BOOLEAN
ASSUME LimitsType ==
  /\ MailboxCap \in Nat /\ WriterCap \in Nat /\ MemoryLimit \in Nat
  /\ MaxFlushes \in Nat /\ MaxFaults \in Nat /\ MaxStops \in Nat

VARIABLES
  \* the running process
  up,              \* whether it runs
  mailboxes,       \* entries queued in memory
  saved,           \* those of them marked as being on disk
  flush_seq,       \* flush_seq[e]: the save that will cover e
  memory_bytes,    \* the running total of unsaved envelopes
  next_flush_seq,  \* the number the next save will carry
  flushed,         \* the number of the last save that completed
  notified,        \* flush_notify, where the save loop has no timer
  flush,           \* the save in progress
  fetch,           \* fetch[h]: the MailboxFetch handler h runs
  epoch,           \* MailStore::epoch
  wire,            \* AppState::epoch, sent in AuthChallenge
  stopping,        \* the graceful shutdown
  \* disk
  index,           \* index[e]: the save that wrote e's row, 0 if it has none
  files,           \* <<e, n>>: the Fragments of e that save n wrote
  meta,            \* the sealed state record and the key check
  \* clients and the world
  write,           \* write[e]: how the request stands
  served,          \* entries some fetch has returned
  collected,       \* entries their recipient has deleted
  connected,       \* accounts with an authenticated connection
  noted,           \* noted[a]: the epoch account a saw last
  flagged,         \* entries whose writer was told they may be lost
  expired,         \* entries past their time to live
  damaged,         \* entries whose stored copy was destroyed from outside
  faults, stops,   \* what has been used of MaxFaults and MaxStops
  next_id,         \* the next store id random_16 will return
  stale_write      \* whether a state record was ever out of date when written

queueVars == <<mailboxes, saved, flush_seq, memory_bytes>>
flushVars == <<next_flush_seq, flushed, notified, flush>>
epochVars == <<epoch, wire, next_id>>
diskVars == <<index, files, meta, stale_write>>
clientVars == <<write, served, collected, connected, noted, flagged>>
envVars == <<expired, damaged, faults, stops>>
vars == <<up, queueVars, flushVars, fetch, epochVars, stopping, diskVars,
          clientVars, envVars>>

-----------------------------------------------------------------------------
(* Values. *)

Epoch == [store_id : Nat, number : Nat]
NoEpoch == [store_id |-> 0, number |-> 0]

FlushState ==
  [pc : {"idle", "save", "commit", "retain", "unlink", "mark", "publish"},
   seq : Nat, batch : SUBSET Entries, live : SUBSET Entries,
   gone : SUBSET (Entries \X Nat), final : BOOLEAN]
NoFlush == [pc |-> "idle", seq |-> 0, batch |-> {}, live |-> {}, gone |-> {},
            final |-> FALSE]

FetchState ==
  [pc : {"idle", "read", "open", "bump", "persist", "announce"},
   todo : SUBSET Entries, reading : SUBSET (Entries \X Nat),
   found : SUBSET Entries, lost : SUBSET Entries, epoch : Epoch]
NoFetch == [pc |-> "idle", todo |-> {}, reading |-> {}, found |-> {},
            lost |-> {}, epoch |-> NoEpoch]

MetaState ==
  [key_check : {"none", "ok", "other"}, sealed : BOOLEAN, epoch : Epoch,
   clean : BOOLEAN, manifest : SUBSET Entries]
NoMeta == [key_check |-> "none", sealed |-> FALSE, epoch |-> NoEpoch,
           clean |-> FALSE, manifest |-> {}]
NotStopping == [pc |-> "no", epoch |-> NoEpoch]

Rows == {e \in Entries : index[e] # 0}
InBox(b) == {e \in Entries : BoxOf[e] = b}
Unsaved == mailboxes \ saved
Acked == {e \in Entries : write[e] = "acked"}

(* The records lock is held from the start of retain's transaction until   *)
(* the last Fragment is deleted; every other user of it waits.             *)
RecordsFree == flush.pc # "unlink"

(* An entry's fields go with it when it leaves the queue.                  *)
Keep(entries) ==
  /\ mailboxes' = entries
  /\ saved' = saved \intersect entries

(* The state record put_state seals.  One that is out of date as it is     *)
(* written is remembered in stale_write: it is older than the record it    *)
(* replaces, or it says "clean" of an epoch that has been counted up       *)
(* since, or is about to be by a fetch that has dropped lost mail.         *)
PutState(ep, clean, rows) ==
  /\ meta' = [key_check |-> "ok", sealed |-> TRUE, epoch |-> ep,
              clean |-> clean, manifest |-> rows]
  /\ stale_write' =
       \/ stale_write
       \/ /\ meta.sealed /\ meta.epoch.store_id = ep.store_id
          /\ ep.number < meta.epoch.number
       \/ clean /\ (ep # epoch \/ \E h \in Handlers : fetch[h].pc = "bump")

TypeOK ==
  /\ up \in BOOLEAN
  /\ mailboxes \in SUBSET Entries /\ saved \in SUBSET Entries
  /\ flush_seq \in [Entries -> Nat] /\ memory_bytes \in Nat
  /\ next_flush_seq \in Nat /\ flushed \in Nat /\ notified \in BOOLEAN
  /\ flush \in FlushState /\ fetch \in [Handlers -> FetchState]
  /\ epoch \in Epoch /\ wire \in Epoch /\ next_id \in Nat
  /\ stopping \in [pc : {"no", "flush", "mark", "write", "done"}, epoch : Epoch]
  /\ index \in [Entries -> Nat] /\ files \in SUBSET (Entries \X Nat)
  /\ meta \in MetaState /\ stale_write \in BOOLEAN
  /\ write \in [Entries -> {"new", "waiting", "unheard", "acked", "refused"}]
  /\ served \in SUBSET Entries /\ collected \in SUBSET Entries
  /\ connected \in SUBSET Accounts /\ noted \in [Accounts -> Epoch]
  /\ flagged \in SUBSET Entries
  /\ expired \in SUBSET Entries /\ damaged \in SUBSET Entries
  /\ faults \in Nat /\ stops \in Nat

(* The machine before the relay's first start. *)
Init ==
  /\ up = FALSE
  /\ mailboxes = {} /\ saved = {} /\ flush_seq = [e \in Entries |-> 0]
  /\ memory_bytes = 0 /\ next_flush_seq = 1 /\ flushed = 0 /\ notified = FALSE
  /\ flush = NoFlush
  /\ fetch = [h \in Handlers |-> NoFetch]
  /\ epoch = NoEpoch /\ wire = NoEpoch /\ next_id = 1 /\ stopping = NotStopping
  /\ index = [e \in Entries |-> 0] /\ files = {} /\ meta = NoMeta
  /\ stale_write = FALSE
  /\ write = [e \in Entries |-> "new"]
  /\ served = {} /\ collected = {} /\ connected = {} /\ flagged = {}
  /\ noted = [a \in Accounts |-> NoEpoch]
  /\ expired = {} /\ damaged = {} /\ faults = 0 /\ stops = 0

-----------------------------------------------------------------------------
(* Clients. *)

(* A client authenticates and compares the epoch with the one it saw last: *)
(* a different one flags everything it sent that nobody confirmed.  The    *)
(* answer to a write it still had waiting goes to its old connection.      *)
Connect(a) ==
  /\ up /\ stopping.pc = "no"
  /\ connected' = connected \union {a}
  /\ noted' = [noted EXCEPT ![a] = wire]
  /\ flagged' = IF noted[a] \notin {NoEpoch, wire}
                THEN flagged \union {e \in Acked : WriterOf[e] = a}
                ELSE flagged
  /\ write' = [e \in Entries |-> IF WriterOf[e] = a /\ write[e] = "waiting"
                                 THEN "unheard" ELSE write[e]]
  /\ UNCHANGED <<up, queueVars, flushVars, fetch, epochVars, stopping,
                 diskVars, served, collected, envVars>>

(* What a MailboxWrite finds under the lock once the mailbox is pruned.    *)
PrunedFor(e) == mailboxes \ (expired \intersect InBox(BoxOf[e]))
BoxFull(e) ==
  LET queued == PrunedFor(e) \intersect InBox(BoxOf[e]) IN
  \/ Cardinality(queued) >= MailboxCap
  \/ Cardinality({q \in queued : WriterOf[q] = WriterOf[e]}) >= WriterCap
SeemsOver == memory_bytes + 1 > MemoryLimit
Recount(e) == Cardinality(PrunedFor(e) \ saved)

WriteRequest(e) ==
  /\ up /\ write[e] = "new" /\ WriterOf[e] \in connected

(* The limiter for new mailbox ids has no token left: nothing is touched.  *)
WriteRateLimited(e) ==
  /\ WriteRequest(e) /\ mailboxes \intersect InBox(BoxOf[e]) = {}
  /\ write' = [write EXCEPT ![e] = "refused"]
  /\ UNCHANGED <<up, queueVars, flushVars, fetch, epochVars, stopping,
                 diskVars, served, collected, connected, noted, flagged, envVars>>

WriteRefused(e) ==
  /\ WriteRequest(e)
  /\ \/ BoxFull(e) /\ UNCHANGED memory_bytes
     \/ /\ ~BoxFull(e) /\ SeemsOver /\ Recount(e) + 1 > MemoryLimit
        /\ memory_bytes' = Recount(e)
  /\ Keep(PrunedFor(e))
  /\ write' = [write EXCEPT ![e] = "refused"]
  /\ UNCHANGED <<up, flush_seq, flushVars, fetch, epochVars, stopping,
                 diskVars, served, collected, connected, noted, flagged, envVars>>

(* The handler waits for its save, whether or not its client still does.   *)
Waiting(e) == write[e] \in {"waiting", "unheard"}

(* Without a mail store the Ack follows at once.                           *)
WriteQueued(e) ==
  /\ WriteRequest(e) /\ ~BoxFull(e)
  /\ SeemsOver => Recount(e) + 1 <= MemoryLimit
  /\ Keep(PrunedFor(e) \union {e})
  /\ flush_seq' = [flush_seq EXCEPT ![e] = next_flush_seq]
  /\ memory_bytes' = (IF SeemsOver THEN Recount(e) ELSE memory_bytes) + 1
  /\ write' = [write EXCEPT ![e] = IF Persistent THEN "waiting" ELSE "acked"]
  /\ notified' = (Persistent /\ ZeroInterval)
  /\ UNCHANGED <<up, next_flush_seq, flushed, flush, fetch, epochVars,
                 stopping, diskVars, served, collected, connected, noted, flagged, envVars>>

WriteAcked(e) ==
  /\ up /\ Waiting(e) /\ flushed >= flush_seq[e]
  /\ write' = [write EXCEPT ![e] = IF @ = "waiting" THEN "acked" ELSE "refused"]
  /\ UNCHANGED <<up, queueVars, flushVars, fetch, epochVars, stopping,
                 diskVars, served, collected, connected, noted, flagged, envVars>>

(* The wait for the save ran out.  The save may still complete before the  *)
(* handler gets the lock, so this is possible whatever `flushed` says.     *)
WriteTimesOut(e) ==
  /\ up /\ Waiting(e)
  /\ Keep(mailboxes \ ({e} \ saved))
  /\ write' = [write EXCEPT ![e] = "refused"]
  /\ UNCHANGED <<up, flush_seq, memory_bytes, flushVars, fetch,
                 epochVars, stopping, diskVars, served, collected, connected,
                 noted, flagged, envVars>>

(* MailboxDelete by an account a fetch returned the entry to.              *)
Delete(e) ==
  /\ up /\ e \in served
  /\ Keep(mailboxes \ {e})
  /\ collected' = collected \union {e}
  /\ UNCHANGED <<up, flush_seq, memory_bytes, flushVars, fetch,
                 epochVars, stopping, diskVars, write, served, connected,
                 noted, flagged, envVars>>

-----------------------------------------------------------------------------
(* MailboxFetch and the reads it makes with the lock released. *)

(* The fetcher gets unsaved envelopes from memory; saved entries are read  *)
(* from the store.                                                         *)
FetchList(h, a, b) ==
  LET kept == mailboxes \ (expired \intersect InBox(b))
      listed == {e \in kept \intersect InBox(b) : WriterOf[e] # a}
  IN
  /\ up /\ a \in connected /\ fetch[h].pc = "idle"
  /\ listed # {}
  /\ Keep(kept)
  /\ IF listed \intersect saved # {}
     THEN /\ fetch' = [fetch EXCEPT ![h] =
                 [NoFetch EXCEPT !.pc = "read", !.todo = listed \intersect saved,
                                 !.found = listed \ saved]]
          /\ UNCHANGED served
     ELSE served' = served \union listed /\ UNCHANGED fetch
  /\ UNCHANGED <<up, flush_seq, memory_bytes, flushVars, epochVars,
                 stopping, diskVars, write, collected, connected, noted,
                 flagged, envVars>>

(* read_envelope clones the index record under the records lock.  A        *)
(* missing record means a save removed it: skipped, not lost.              *)
ReadRecord(h, e) ==
  /\ up /\ fetch[h].pc = "read" /\ e \in fetch[h].todo /\ RecordsFree
  /\ fetch' = [fetch EXCEPT ![h] =
        [fetch[h] EXCEPT !.pc = IF e \in Rows THEN "open" ELSE "read",
                         !.todo = fetch[h].todo \ {e},
                         !.reading = IF e \in Rows THEN {<<e, index[e]>>} ELSE {}]]
  /\ UNCHANGED <<up, queueVars, flushVars, epochVars, stopping, diskVars,
                 clientVars, envVars>>

(* It then reads the Fragments with no lock held.                          *)
ReadFragments(h) ==
  LET f == fetch[h]
      read == {r[1] : r \in f.reading}
      intact == f.reading \subseteq files
  IN
  /\ up /\ fetch[h].pc = "open"
  /\ fetch' = [fetch EXCEPT ![h] =
        [f EXCEPT !.pc = "read", !.reading = {},
                  !.found = IF intact THEN f.found \union read ELSE f.found,
                  !.lost = IF intact THEN f.lost ELSE f.lost \union read]]
  /\ UNCHANGED <<up, queueVars, flushVars, epochVars, stopping, diskVars,
                 clientVars, envVars>>

(* The answer is sent: the entries found are now known to the fetcher.     *)
Answer(h) ==
  /\ fetch' = [fetch EXCEPT ![h] = NoFetch]
  /\ served' = served \union fetch[h].found
  /\ UNCHANGED <<write, collected, connected, noted, flagged>>

FetchAnswered(h) ==
  /\ up /\ fetch[h].pc = "read" /\ fetch[h].todo = {} /\ fetch[h].lost = {}
  /\ Answer(h)
  /\ UNCHANGED <<up, queueVars, flushVars, epochVars, stopping, diskVars, envVars>>

(* Entries that did not read back leave the mailbox...                     *)
DropLost(h) ==
  /\ up /\ fetch[h].pc = "read" /\ fetch[h].todo = {} /\ fetch[h].lost # {}
  /\ Keep(mailboxes \ fetch[h].lost)
  /\ fetch' = [fetch EXCEPT ![h].pc = "bump"]
  /\ UNCHANGED <<up, flush_seq, memory_bytes, flushVars, epochVars,
                 stopping, diskVars, clientVars, envVars>>

(* ... then advance_epoch counts up under the epoch lock...                *)
BumpEpoch(h) ==
  LET next == [epoch EXCEPT !.number = @ + 1] IN
  /\ up /\ fetch[h].pc = "bump"
  /\ epoch' = next
  /\ fetch' = [fetch EXCEPT ![h] = [fetch[h] EXCEPT !.pc = "persist", !.epoch = next]]
  /\ UNCHANGED <<up, queueVars, flushVars, wire, next_id, stopping, diskVars,
                 clientVars, envVars>>

(* ... and writes the state record under the records lock...               *)
PersistEpoch(h) ==
  /\ up /\ fetch[h].pc = "persist" /\ RecordsFree
  /\ PutState(fetch[h].epoch, FALSE, Rows)
  /\ fetch' = [fetch EXCEPT ![h].pc = "announce"]
  /\ UNCHANGED <<up, queueVars, flushVars, epochVars, stopping, index, files,
                 clientVars, envVars>>

(* ... whose failure is only logged: the epoch clients see stays.          *)
PersistFails(h) ==
  /\ up /\ fetch[h].pc = "persist" /\ faults < MaxFaults
  /\ faults' = faults + 1
  /\ Answer(h)
  /\ UNCHANGED <<up, queueVars, flushVars, epochVars, stopping, diskVars,
                 expired, damaged, stops>>

AnnounceEpoch(h) ==
  /\ up /\ fetch[h].pc = "announce"
  /\ wire' = fetch[h].epoch
  /\ Answer(h)
  /\ UNCHANGED <<up, queueVars, flushVars, epoch, next_id, stopping, diskVars,
                 envVars>>

(* The background pruning sweep.                                           *)
Sweep ==
  /\ up /\ mailboxes \intersect expired # {}
  /\ Keep(mailboxes \ expired)
  /\ UNCHANGED <<up, flush_seq, memory_bytes, flushVars, fetch,
                 epochVars, stopping, diskVars, clientVars, envVars>>

-----------------------------------------------------------------------------
(* flush_now: one save at a time, taken under the queue's lock. *)

(* What is queued and unexpired, whatever its state: nothing else stays on *)
(* disk.                                                                   *)
MutLiveIsBatch == (mailboxes \ expired) \ saved
MutLiveIsStored == mailboxes \union Rows
Live == mailboxes \ expired

(* A save with nothing to write, remove or acknowledge changes nothing     *)
(* but the counters, and is left out.                                      *)
FlushDue ==
  \/ Live \ saved # {}
  \/ Rows \ Live # {}
  \/ \E e \in Entries : Waiting(e) /\ flushed < flush_seq[e]

(* The batch is what is unsaved, `live` everything unexpired.  The save is *)
(* the loop's, on its timer or, without one, on a notification; or it is   *)
(* the final one the shutdown makes.                                       *)
FlushTake ==
  /\ up /\ Persistent /\ flush.pc = "idle"
  /\ next_flush_seq <= MaxFlushes
  /\ next_flush_seq' = next_flush_seq + 1
  /\ \E final \in BOOLEAN :
       /\ \/ final /\ stopping.pc = "flush" /\ UNCHANGED notified
          \/ ~final /\ ~ZeroInterval /\ FlushDue /\ UNCHANGED notified
          \/ ~final /\ ZeroInterval /\ notified /\ notified' = FALSE
       /\ flush' = [pc |-> "save", seq |-> next_flush_seq, batch |-> Live \ saved,
                    live |-> Live, gone |-> {}, final |-> final]
  /\ UNCHANGED <<up, queueVars, flushed, fetch, epochVars, stopping, diskVars,
                 clientVars, envVars>>

(* save: every Fragment of the batch is written and synced...              *)
SaveFragments ==
  /\ up /\ flush.pc = "save"
  /\ files' = files \union {<<e, flush.seq>> : e \in flush.batch}
  /\ flush' = [flush EXCEPT !.pc = IF flush.batch = {} THEN "retain" ELSE "commit"]
  /\ UNCHANGED <<up, queueVars, next_flush_seq, flushed, notified, fetch, epochVars,
                 stopping, index, meta, stale_write, clientVars, envVars>>

(* ... then the index rows and the state record, in one transaction.       *)
SaveCommit ==
  /\ up /\ flush.pc = "commit"
  /\ index' = [e \in Entries |-> IF e \in flush.batch THEN flush.seq ELSE index[e]]
  /\ PutState(epoch, FALSE, Rows \union flush.batch)
  /\ flush' = [flush EXCEPT !.pc = "retain"]
  /\ UNCHANGED <<up, queueVars, next_flush_seq, flushed, notified, fetch, epochVars,
                 stopping, files, clientVars, envVars>>

(* retain: rows no longer live are removed in one transaction...           *)
RetainCommit ==
  LET gone == Rows \ flush.live IN
  /\ up /\ flush.pc = "retain"
  /\ IF gone = {}
     THEN /\ flush' = [flush EXCEPT !.pc = "mark", !.live = {}]
          /\ UNCHANGED diskVars
     ELSE /\ index' = [e \in Entries |-> IF e \in gone THEN 0 ELSE index[e]]
          /\ PutState(epoch, FALSE, Rows \ gone)
          /\ flush' = [flush EXCEPT !.pc = "unlink", !.live = {},
                                   !.gone = {<<e, index[e]>> : e \in gone}]
          /\ UNCHANGED files
  /\ UNCHANGED <<up, queueVars, next_flush_seq, flushed, notified, fetch, epochVars,
                 stopping, clientVars, envVars>>

(* ... then their Fragments are deleted.                                   *)
RetainUnlink ==
  /\ up /\ flush.pc = "unlink"
  /\ files' = files \ flush.gone
  /\ flush' = [flush EXCEPT !.pc = "mark", !.gone = {}]
  /\ UNCHANGED <<up, queueVars, next_flush_seq, flushed, notified, fetch, epochVars,
                 stopping, index, meta, stale_write, clientVars, envVars>>

(* What is still queued of the batch is on disk now; the rest of the       *)
(* unsaved mail is counted again.                                          *)
MutUncounted == 0
UnsavedAfter == Cardinality(mailboxes \ (saved \union flush.batch))
MarkSaved ==
  /\ up /\ flush.pc = "mark"
  /\ saved' = saved \union (flush.batch \intersect mailboxes)
  /\ memory_bytes' = UnsavedAfter
  /\ flush' = [flush EXCEPT !.pc = "publish", !.batch = {}]
  /\ UNCHANGED <<up, mailboxes, flush_seq, next_flush_seq, flushed, notified, fetch,
                 epochVars, stopping, diskVars, clientVars, envVars>>

(* Publishing the number releases the writers waiting for this save.       *)
MutUnpublished == flushed
MutNextSeq == next_flush_seq
PublishedSeq == flush.seq
FlushDone ==
  /\ up /\ flush.pc = "publish"
  /\ flushed' = PublishedSeq
  /\ flush' = NoFlush
  /\ stopping' = IF flush.final THEN [stopping EXCEPT !.pc = "mark"] ELSE stopping
  /\ UNCHANGED <<up, queueVars, next_flush_seq, notified, fetch, epochVars, diskVars,
                 clientVars, envVars>>

(* A file or database error ends the save with its number used up; some    *)
(* Fragments of the batch may have been written.                           *)
FlushFails ==
  /\ up /\ faults < MaxFaults /\ faults' = faults + 1
  /\ \/ /\ flush.pc = "save"
        /\ \E part \in SUBSET flush.batch :
             files' = files \union {<<e, flush.seq>> : e \in part}
     \/ flush.pc \in {"commit", "retain"} /\ UNCHANGED files
  /\ flush' = NoFlush
  /\ stopping' = IF flush.final THEN [stopping EXCEPT !.pc = "done"] ELSE stopping
  /\ UNCHANGED <<up, queueVars, next_flush_seq, flushed, notified, fetch, epochVars,
                 index, meta, stale_write, clientVars, expired, damaged, stops>>

-----------------------------------------------------------------------------
(* Stopping and starting. *)

(* A shutdown signal: no new connections, one last save.                   *)
Shutdown ==
  /\ up /\ stopping.pc = "no" /\ stops < MaxStops
  /\ stopping' = [stopping EXCEPT !.pc = IF Persistent THEN "flush" ELSE "done"]
  /\ UNCHANGED <<up, queueVars, flushVars, fetch, epochVars, diskVars,
                 clientVars, envVars>>

(* mark_clean_shutdown reads the epoch, then writes the state record; the  *)
(* open connections are still being served.                                *)
MarkCleanRead ==
  /\ up /\ stopping.pc = "mark"
  /\ stopping' = [pc |-> "write", epoch |-> epoch]
  /\ UNCHANGED <<up, queueVars, flushVars, fetch, epochVars, diskVars,
                 clientVars, envVars>>

MarkCleanWrite ==
  /\ up /\ stopping.pc = "write" /\ RecordsFree
  /\ PutState(stopping.epoch, TRUE, Rows)
  /\ stopping' = [pc |-> "done", epoch |-> NoEpoch]
  /\ UNCHANGED <<up, queueVars, flushVars, fetch, epochVars, index, files,
                 clientVars, envVars>>

(* The process ends, by a crash or after its shutdown.  Its memory and its *)
(* connections are gone: a write still waiting is not acknowledged.        *)
Stop ==
  /\ up /\ stops < MaxStops /\ stops' = stops + 1
  /\ up' = FALSE
  /\ mailboxes' = {} /\ saved' = {} /\ flush_seq' = [e \in Entries |-> 0]
  /\ memory_bytes' = 0 /\ next_flush_seq' = 1 /\ flushed' = 0 /\ notified' = FALSE
  /\ flush' = NoFlush
  /\ fetch' = [h \in Handlers |-> NoFetch]
  /\ epoch' = NoEpoch /\ wire' = NoEpoch /\ stopping' = NotStopping
  /\ write' = [e \in Entries |-> IF Waiting(e) THEN "refused" ELSE write[e]]
  /\ connected' = {}
  /\ UNCHANGED <<next_id, diskVars, served, collected, noted, flagged,
                 expired, damaged, faults>>

(* What MailStore::open makes of the disk.                                 *)
WrongKey == meta.key_check = "other"
ReadableState == meta.sealed /\ ~WrongKey
Intact(e) == e \in Rows /\ <<e, index[e]>> \in files
Restorable == IF WrongKey THEN {} ELSE {e \in Rows \ expired : Intact(e)}
Unrebuilt == IF WrongKey THEN {} ELSE {e \in Rows \ expired : ~Intact(e)}
MutRebuildUnchecked == ReadableState /\ meta.clean /\ meta.manifest = Rows
KeepsEpoch ==
  ReadableState /\ meta.clean /\ meta.manifest = Rows /\ Unrebuilt = {}
MutSameStore == [store_id |-> 1, number |-> 1]
NewStoreEpoch == [store_id |-> next_id, number |-> 1]
OpenedEpoch ==
  IF ReadableState
  THEN [meta.epoch EXCEPT !.number = IF KeepsEpoch THEN @ ELSE @ + 1]
  ELSE NewStoreEpoch
MutNothingReferenced == {}
RestoredFiles == {<<e, index[e]>> : e \in Restorable}

(* Open: files nothing restored refers to are deleted, then the rows and   *)
(* the state record are written in one transaction, and the restored       *)
(* entries go back to their mailboxes.                                     *)
Start ==
  /\ ~up /\ Persistent
  /\ up' = TRUE
  /\ files' = files \intersect RestoredFiles
  /\ index' = [e \in Entries |-> IF e \in Restorable THEN index[e] ELSE 0]
  /\ PutState(OpenedEpoch, FALSE, Restorable)
  /\ next_id' = IF ReadableState THEN next_id ELSE next_id + 1
  /\ epoch' = OpenedEpoch /\ wire' = OpenedEpoch
  /\ mailboxes' = Restorable /\ saved' = Restorable
  /\ UNCHANGED <<flush_seq, memory_bytes, flushVars, fetch, stopping,
                 clientVars, envVars>>

(* A start that stops after deleting some files, before the transaction.   *)
StartInterrupted ==
  /\ ~up /\ Persistent
  /\ \E part \in SUBSET (files \ RestoredFiles) : files' = files \ part
  /\ UNCHANGED <<up, queueVars, flushVars, fetch, epochVars, stopping, index,
                 meta, stale_write, clientVars, envVars>>

(* Without a mail store every process starts empty, with an epoch of its   *)
(* own.                                                                    *)
StartInMemory ==
  /\ ~up /\ ~Persistent
  /\ up' = TRUE
  /\ epoch' = NewStoreEpoch /\ wire' = NewStoreEpoch
  /\ next_id' = next_id + 1
  /\ UNCHANGED <<queueVars, flushVars, fetch, stopping, diskVars, clientVars,
                 envVars>>

-----------------------------------------------------------------------------
(* Time and the disk. *)

Expire(e) ==
  /\ write[e] # "new" /\ e \notin expired
  /\ expired' = expired \union {e}
  /\ UNCHANGED <<up, queueVars, flushVars, fetch, epochVars, stopping, diskVars,
                 clientVars, damaged, faults, stops>>

Fault == faults < MaxFaults /\ faults' = faults + 1

(* A Fragment of a stored entry is lost or altered.                        *)
DamageFragments(e) ==
  /\ Fault /\ Intact(e)
  /\ files' = files \ {<<e, index[e]>>}
  /\ damaged' = damaged \union {e}
  /\ UNCHANGED <<up, queueVars, flushVars, fetch, epochVars, stopping, index,
                 meta, stale_write, clientVars, expired, stops>>

(* While the relay is down: index rows are removed, the state record or    *)
(* the whole index is lost, or the operator configures another key.        *)
RemoveRows ==
  /\ Fault /\ ~up
  /\ \E rows \in (SUBSET Rows) \ {{}} :
       /\ index' = [e \in Entries |-> IF e \in rows THEN 0 ELSE index[e]]
       /\ damaged' = damaged \union rows
  /\ UNCHANGED <<up, queueVars, flushVars, fetch, epochVars, stopping, files,
                 meta, stale_write, clientVars, expired, stops>>

LoseState ==
  /\ Fault /\ ~up /\ meta.sealed
  /\ meta' = [NoMeta EXCEPT !.key_check = meta.key_check]
  /\ UNCHANGED <<up, queueVars, flushVars, fetch, epochVars, stopping, index,
                 files, stale_write, clientVars, expired, damaged, stops>>

LoseIndex ==
  /\ Fault /\ ~up /\ meta # NoMeta
  /\ index' = [e \in Entries |-> 0] /\ meta' = NoMeta
  /\ damaged' = damaged \union Rows
  /\ UNCHANGED <<up, queueVars, flushVars, fetch, epochVars, stopping, files,
                 stale_write, clientVars, expired, stops>>

ChangeKey ==
  /\ Fault /\ ~up /\ meta.key_check = "ok"
  /\ meta' = [meta EXCEPT !.key_check = "other"]
  /\ damaged' = damaged \union Rows
  /\ UNCHANGED <<up, queueVars, flushVars, fetch, epochVars, stopping, index,
                 files, stale_write, clientVars, expired, stops>>

-----------------------------------------------------------------------------
ClientStep ==
  \/ \E a \in Accounts : Connect(a)
  \/ \E e \in Entries :
       \/ WriteRateLimited(e) \/ WriteRefused(e) \/ WriteQueued(e)
       \/ WriteAcked(e) \/ WriteTimesOut(e) \/ Delete(e)

FetchStep(h) ==
  \/ \E a \in Accounts, b \in Boxes : FetchList(h, a, b)
  \/ \E e \in Entries : ReadRecord(h, e)
  \/ ReadFragments(h) \/ FetchAnswered(h) \/ DropLost(h)
  \/ BumpEpoch(h) \/ PersistEpoch(h) \/ PersistFails(h) \/ AnnounceEpoch(h)

SaveStep ==
  \/ FlushTake \/ SaveFragments \/ SaveCommit \/ RetainCommit \/ RetainUnlink
  \/ MarkSaved \/ FlushDone

ProcessStep ==
  \/ Shutdown \/ MarkCleanRead \/ MarkCleanWrite \/ Stop
  \/ Start \/ StartInterrupted \/ StartInMemory

WorldStep ==
  \/ \E e \in Entries : Expire(e) \/ DamageFragments(e)
  \/ RemoveRows \/ LoseState \/ LoseIndex \/ ChangeKey

Next ==
  \/ ClientStep
  \/ \E h \in Handlers : FetchStep(h)
  \/ SaveStep \/ FlushFails \/ Sweep
  \/ ProcessStep
  \/ WorldStep

Spec == Init /\ [][Next]_vars

(* The save loop runs as long as the process does, a writer released by a  *)
(* save is answered, and a stopped relay is started again.  Nobody has to  *)
(* write, fetch, delete or wait long enough for a timeout.                 *)
Fairness ==
  /\ WF_vars(SaveStep)
  /\ \A e \in Entries : WF_vars(WriteAcked(e))
  /\ WF_vars(Start)

FairSpec == Spec /\ Fairness

-----------------------------------------------------------------------------
(* Properties. *)

(* An acknowledged write is kept: until it is collected or expires, or its *)
(* stored copy is destroyed from outside, its row and Fragments are on     *)
(* disk through every save, timeout, failure and restart, and a running    *)
(* relay still has it queued for its recipient (docs/adr/0001: the Ack     *)
(* means "on disk").                                                       *)
Gone == collected \union expired \union damaged
AckedIsKept ==
  \A e \in Acked \ Gone :
    Persistent => Intact(e) /\ (up => e \in mailboxes)

(* Saving writes Fragments before the row that names them, and removing    *)
(* deletes the row first, so whatever step the process stops at, no row on *)
(* disk names a Fragment that is not there (mailstore.rs save, retain).    *)
RowsHaveFragments == \A e \in Rows \ (expired \union damaged) : Intact(e)

(* What a fetch has listed and still has to read from the store is there:  *)
(* a missing record means the entry was collected or expired since (or its *)
(* copy was destroyed), so skipping it never hides mail (read_envelope's   *)
(* Ok(None), DRA-0072).                                                    *)
ListedIsStored ==
  \A h \in Handlers : fetch[h].todo \subseteq Rows \union Gone

(* Whatever the order of reads and removals, what a fetch takes for lost   *)
(* and drops from the queue is mail nobody waits for any more, or mail     *)
(* whose stored copy was destroyed (ws.rs read_saved_envelopes).           *)
LostIsGone == \A h \in Handlers : fetch[h].lost \subseteq Gone

(* memory_bytes may count mail that has left memory but never misses any,  *)
(* and unsaved mail stays within the operator's limit (state.rs            *)
(* recount_memory, ws.rs MailboxWrite).                                    *)
MemoryIsCounted ==
  /\ memory_bytes >= Cardinality(Unsaved)
  /\ Cardinality(Unsaved) <= MemoryLimit

(* Mail the relay lost: acknowledged, neither collected nor expired, and   *)
(* no longer queued in the running relay.                                  *)
LostMail == {e \in Acked \ (collected \union expired) : up /\ e \notin mailboxes}

(* Lost mail is announced: its writer has been told, or saw another epoch  *)
(* last than the one it will be sent when it connects; until a fetch that  *)
(* found a loss has announced it, or where the state record could not be   *)
(* written, the epochs still differ inside the relay (mailstore.rs module  *)
(* doc: the epoch "advances whenever queued mail may have been lost").     *)
LossIsAnnounced ==
  \A e \in LostMail \ flagged :
    \/ noted[WriterOf[e]] # wire
    \/ wire # epoch
    \/ \E h \in Handlers : fetch[h].pc \in {"bump", "persist", "announce"}

(* The same, as long as no state record was out of date when it was        *)
(* written: advance_epoch and mark_clean_shutdown read the epoch before    *)
(* they take the lock they write it under, and the final save does not     *)
(* wait for a fetch that has just dropped lost mail.                       *)
LossIsAnnouncedInOrder == stale_write \/ LossIsAnnounced

(* The relay keeps what MailQueue promises.  It holds what is queued, on   *)
(* disk, or in the batch of the save under way, which may still write it;  *)
(* a handler whose client has gone has not answered yet (mailstore.rs      *)
(* module doc; docs/adr/0001).  It is not claimed without a mail store.    *)
AnswerNow ==
  [e \in Entries |-> CASE write[e] = "new" -> "none"
                       [] Waiting(e) -> "pending"
                       [] OTHER -> write[e]]
HeldNow == mailboxes \union Rows \union flush.batch
Queue == INSTANCE MailQueue WITH
  open <- up, answer <- AnswerNow, visible <- mailboxes, held <- HeldNow, released <- Gone
QueueImplemented == Queue!Spec

(* Mail that left the queue does not stay on disk: once an entry was       *)
(* collected, expired or withdrawn, a later save of the same run removes   *)
(* its row, even if the save under way was still to write it (flush.rs: a  *)
(* save "removes stored entries that have since been collected").          *)
UnqueuedLeavesDisk ==
  \A e \in Entries : (up /\ e \notin mailboxes) ~> (e \notin Rows \/ ~up)

(* A writer is never left waiting for a save that will not come: even when *)
(* a save fails, its own write is saved by a retry and acknowledged, or    *)
(* the relay stops (flush.rs: "save failed, will retry").                  *)
WaitingIsAnswered ==
  \A e \in Entries : (write[e] = "waiting") ~> (write[e] # "waiting")

=============================================================================
