-------------------------- MODULE MailRelayProofs --------------------------
(***************************************************************************)
(* Proofs about MailRelay, for any number of entries, accounts, mailboxes  *)
(* and handlers and any limits: typing and the count of memory; that the   *)
(* relay keeps what it has acknowledged and its disk stays whole, whatever *)
(* step it stops at; that the writer of what it lost all the same is told  *)
(* of it; and that it implements MailQueue.                                *)
(***************************************************************************)
EXTENDS MailRelay, FiniteSetTheorems, TLAPS

(* How many of the queued entries a set of entries counts.                 *)
LEMMA CountIsNat ==
  ASSUME NEW S, S \subseteq Entries
  PROVE  Cardinality(S) \in Nat
BY EntriesFinite, FS_Subset, FS_CardinalityType

(* The records a handler, a save and the disk start from.                  *)
LEMMA StartValues ==
  /\ NoEpoch \in Epoch
  /\ NoFlush \in FlushState
  /\ NoFetch \in FetchState
  /\ NoMeta \in MetaState
<1>1. NoEpoch \in Epoch
  BY DEF NoEpoch, Epoch
<1>2. NoFlush \in FlushState
  BY DEF NoFlush, FlushState
<1>3. NoFetch \in FetchState
  BY <1>1 DEF NoFetch, FetchState
<1>4. NoMeta \in MetaState
  BY <1>1 DEF NoMeta, MetaState
<1> QED
  BY <1>1, <1>2, <1>3, <1>4

(* Whatever state record a step seals is one the store can read back.      *)
LEMMA PutStateType ==
  ASSUME NEW ep \in Epoch, NEW clean \in BOOLEAN, NEW rows \in SUBSET Entries,
         stale_write \in BOOLEAN, PutState(ep, clean, rows)
  PROVE  meta' \in MetaState /\ stale_write' \in BOOLEAN
<1>1. meta' \in MetaState
  BY DEF PutState, MetaState
<1>2. stale_write' \in BOOLEAN
  BY DEF PutState
<1> QED
  BY <1>1, <1>2

LEMMA TypeInit == Init => TypeOK
<1> SUFFICES ASSUME Init PROVE TypeOK
  OBVIOUS
<1>1. up \in BOOLEAN /\ notified \in BOOLEAN /\ stale_write \in BOOLEAN
  BY DEF Init
<1>2. fetch \in [Handlers -> FetchState] /\ noted \in [Accounts -> Epoch]
  BY StartValues DEF Init
<1>3. flush \in FlushState /\ meta \in MetaState
  BY StartValues DEF Init
<1>4. epoch \in Epoch /\ wire \in Epoch
  BY StartValues DEF Init
<1>5. stopping \in [pc : {"no", "flush", "mark", "write", "done"}, epoch : Epoch]
  BY StartValues DEF Init, NotStopping
<1>6. /\ mailboxes \in SUBSET Entries /\ saved \in SUBSET Entries
      /\ flush_seq \in [Entries -> Nat] /\ memory_bytes \in Nat
      /\ next_flush_seq \in Nat /\ flushed \in Nat /\ next_id \in Nat
      /\ index \in [Entries -> Nat] /\ files \in SUBSET (Entries \X Nat)
  BY DEF Init
<1>7. /\ write \in [Entries -> {"new", "waiting", "unheard", "acked", "refused"}]
      /\ served \in SUBSET Entries /\ collected \in SUBSET Entries
      /\ connected \in SUBSET Accounts /\ flagged \in SUBSET Entries
      /\ expired \in SUBSET Entries /\ damaged \in SUBSET Entries
      /\ faults \in Nat /\ stops \in Nat
  BY DEF Init
<1> QED
  BY <1>1, <1>2, <1>3, <1>4, <1>5, <1>6, <1>7 DEF TypeOK

(* What MailStore::open makes of the disk is typed, too.                   *)
LEMMA OpenedType ==
  ASSUME TypeOK
  PROVE  OpenedEpoch \in Epoch /\ NewStoreEpoch \in Epoch
<1>1. NewStoreEpoch \in Epoch
  BY DEF NewStoreEpoch, TypeOK, Epoch
<1>2. meta.epoch \in Epoch
  BY DEF TypeOK, MetaState
<1>3. [meta.epoch EXCEPT !.number = @ + 1] \in Epoch /\ [meta.epoch EXCEPT !.number = @] \in Epoch
  BY <1>2 DEF Epoch
<1> QED
  BY <1>1, <1>2, <1>3 DEF OpenedEpoch

LEMMA TypeClient == TypeOK /\ ClientStep => TypeOK'
<1> SUFFICES ASSUME TypeOK, ClientStep PROVE TypeOK'
  OBVIOUS
<1> USE DEF TypeOK, queueVars, flushVars, epochVars, diskVars, clientVars, envVars, Keep
<1>1. ASSUME NEW a \in Accounts, Connect(a) PROVE TypeOK'
  BY <1>1 DEF Connect, Acked
<1>2. ASSUME NEW e \in Entries, WriteRateLimited(e) PROVE TypeOK'
  BY <1>2 DEF WriteRateLimited, WriteRequest
<1>3. ASSUME NEW e \in Entries, WriteRefused(e) PROVE TypeOK'
  <2>1. Recount(e) \in Nat /\ PrunedFor(e) \subseteq Entries
    BY CountIsNat DEF Recount, PrunedFor
  <2> QED
    BY <1>3, <2>1 DEF WriteRefused, WriteRequest
<1>4. ASSUME NEW e \in Entries, WriteQueued(e) PROVE TypeOK'
  <2>1. Recount(e) \in Nat /\ PrunedFor(e) \subseteq Entries
    BY CountIsNat DEF Recount, PrunedFor
  <2>2. notified' \in BOOLEAN
    BY <1>4 DEF WriteQueued
  <2> QED
    BY <1>4, <2>1, <2>2 DEF WriteQueued
<1>5. ASSUME NEW e \in Entries, WriteAcked(e) PROVE TypeOK'
  BY <1>5 DEF WriteAcked
<1>6. ASSUME NEW e \in Entries, WriteTimesOut(e) PROVE TypeOK'
  BY <1>6 DEF WriteTimesOut
<1>7. ASSUME NEW e \in Entries, Delete(e) PROVE TypeOK'
  BY <1>7 DEF Delete
<1> QED
  BY <1>1, <1>2, <1>3, <1>4, <1>5, <1>6, <1>7 DEF ClientStep

LEMMA TypeFetch == ASSUME TypeOK, NEW h \in Handlers, FetchStep(h) PROVE TypeOK'
<1> USE DEF queueVars, flushVars, epochVars, diskVars, clientVars, envVars, Keep
<1> fetch[h] \in FetchState /\ NoFetch \in FetchState
  BY StartValues DEF TypeOK
<1>1. ASSUME NEW a \in Accounts, NEW b \in Boxes, FetchList(h, a, b) PROVE TypeOK'
  <2>1. \A todo, found \in SUBSET Entries :
          [NoFetch EXCEPT !.pc = "read", !.todo = todo, !.found = found] \in FetchState
    BY DEF FetchState
  <2>2. PICK kept \in SUBSET Entries :
          /\ kept = mailboxes \ (expired \intersect InBox(b))
          /\ Keep(kept)
          /\ UNCHANGED <<up, flush_seq, memory_bytes, flushVars, epochVars, stopping,
                         diskVars, write, collected, connected, noted, flagged, envVars>>
    BY <1>1 DEF FetchList, TypeOK
  <2>3. fetch' \in [Handlers -> FetchState] /\ served' \in SUBSET Entries
    <3> DEFINE listed == {e \in kept \intersect InBox(b) : WriterOf[e] # a}
    <3>1. listed \in SUBSET Entries
      OBVIOUS
    <3>2. \/ served' = served /\ fetch' = [fetch EXCEPT ![h] =
                 [NoFetch EXCEPT !.pc = "read", !.todo = listed \intersect saved,
                                 !.found = listed \ saved]]
          \/ served' = served \union listed /\ fetch' = fetch
      BY <1>1, <2>2 DEF FetchList
    <3> HIDE DEF listed
    <3>3. listed \intersect saved \in SUBSET Entries /\ listed \ saved \in SUBSET Entries
      BY <3>1
    <3>4. [NoFetch EXCEPT !.pc = "read", !.todo = listed \intersect saved,
                          !.found = listed \ saved] \in FetchState
      BY <2>1, <3>3
    <3> QED
      BY <3>1, <3>2, <3>4 DEF TypeOK
  <2> QED
    BY <2>2, <2>3 DEF TypeOK
<1>2. ASSUME NEW e \in Entries, ReadRecord(h, e) PROVE TypeOK'
  <2>1. \A copy \in SUBSET (Entries \X Nat), pc \in {"open", "read"} :
          [fetch[h] EXCEPT !.pc = pc, !.todo = fetch[h].todo \ {e}, !.reading = copy]
            \in FetchState
    BY DEF FetchState
  <2>2. e \in Rows => <<e, index[e]>> \in Entries \X Nat
    BY DEF TypeOK
  <2>3. fetch' \in [Handlers -> FetchState]
    BY <1>2, <2>1, <2>2 DEF ReadRecord, TypeOK
  <2> QED
    BY <1>2, <2>3 DEF ReadRecord, TypeOK
<1>3. ASSUME ReadFragments(h) PROVE TypeOK'
  <2>1. {r[1] : r \in fetch[h].reading} \subseteq Entries
    BY DEF FetchState
  <2>2. \A found, lost \in SUBSET Entries :
          [fetch[h] EXCEPT !.pc = "read", !.reading = {}, !.found = found, !.lost = lost]
            \in FetchState
    BY DEF FetchState
  <2>3. fetch[h].found \subseteq Entries /\ fetch[h].lost \subseteq Entries
    BY DEF FetchState
  <2>4. fetch' \in [Handlers -> FetchState]
    BY <1>3, <2>1, <2>2, <2>3 DEF ReadFragments, TypeOK
  <2> QED
    BY <1>3, <2>4 DEF ReadFragments, TypeOK
<1>4. ASSUME Answer(h) PROVE /\ fetch' \in [Handlers -> FetchState]
                             /\ served' \in SUBSET Entries
  <2>1. fetch[h].found \subseteq Entries
    BY DEF FetchState
  <2> QED
    BY <1>4, <2>1 DEF Answer, TypeOK
<1>5. CASE FetchAnswered(h)
  BY <1>4, <1>5 DEF FetchAnswered, Answer, TypeOK
<1>6. CASE DropLost(h)
  <2>1. [fetch[h] EXCEPT !.pc = "bump"] \in FetchState
    BY DEF FetchState
  <2>2. fetch' \in [Handlers -> FetchState]
    BY <1>6, <2>1 DEF DropLost, TypeOK
  <2> QED
    BY <1>6, <2>2 DEF DropLost, TypeOK
<1>7. CASE BumpEpoch(h)
  <2>1. [epoch EXCEPT !.number = @ + 1] \in Epoch
    BY DEF TypeOK, Epoch
  <2>2. \A ep \in Epoch : [fetch[h] EXCEPT !.pc = "persist", !.epoch = ep] \in FetchState
    BY DEF FetchState
  <2> QED
    BY <1>7, <2>1, <2>2 DEF BumpEpoch, TypeOK
<1>8. CASE PersistEpoch(h)
  <2>1. [fetch[h] EXCEPT !.pc = "announce"] \in FetchState /\ fetch[h].epoch \in Epoch
    BY DEF FetchState
  <2>2. Rows \subseteq Entries
    BY DEF Rows
  <2>3. meta' \in MetaState /\ stale_write' \in BOOLEAN
    BY <1>8, <2>1, <2>2, PutStateType DEF PersistEpoch, TypeOK
  <2> QED
    BY <1>8, <2>1, <2>3 DEF PersistEpoch, TypeOK
<1>9. CASE PersistFails(h)
  BY <1>4, <1>9 DEF PersistFails, Answer, TypeOK
<1>10. CASE AnnounceEpoch(h)
  <2>1. fetch[h].epoch \in Epoch
    BY DEF FetchState
  <2> QED
    BY <1>4, <1>10, <2>1 DEF AnnounceEpoch, Answer, TypeOK
<1> QED
  BY <1>1, <1>2, <1>3, <1>5, <1>6, <1>7, <1>8, <1>9, <1>10 DEF FetchStep

LEMMA TypeSave == TypeOK /\ (SaveStep \/ FlushFails \/ Sweep) => TypeOK'
<1> SUFFICES ASSUME TypeOK, SaveStep \/ FlushFails \/ Sweep PROVE TypeOK'
  OBVIOUS
<1> USE DEF queueVars, flushVars, epochVars, diskVars, clientVars, envVars, Keep
<1> flush \in FlushState /\ NoFlush \in FlushState /\ stale_write \in BOOLEAN
  BY StartValues DEF TypeOK
<1> /\ flush.batch \in SUBSET Entries /\ flush.seq \in Nat
    /\ flush.gone \in SUBSET (Entries \X Nat)
  BY DEF FlushState
<1> Rows \in SUBSET Entries
  BY DEF Rows
<1> \A part \in SUBSET flush.batch : {<<e, flush.seq>> : e \in part} \in SUBSET (Entries \X Nat)
  OBVIOUS
<1>1. CASE FlushTake
  <2>1. \A final \in BOOLEAN :
          [pc |-> "save", seq |-> next_flush_seq, batch |-> Live \ saved,
           live |-> Live, gone |-> {}, final |-> final] \in FlushState
    BY DEF TypeOK, Live, FlushState
  <2>2. notified' \in BOOLEAN
    BY <1>1 DEF FlushTake, TypeOK
  <2>3. flush' \in FlushState
    BY <1>1, <2>1 DEF FlushTake
  <2> QED
    BY <1>1, <2>2, <2>3 DEF FlushTake, TypeOK
<1>2. CASE SaveFragments
  <2>1. \A pc \in {"retain", "commit"} : [flush EXCEPT !.pc = pc] \in FlushState
    BY DEF FlushState
  <2> QED
    BY <1>2, <2>1 DEF SaveFragments, TypeOK
<1>3. CASE SaveCommit
  <2>1. [flush EXCEPT !.pc = "retain"] \in FlushState
    BY DEF FlushState
  <2>2. meta' \in MetaState /\ stale_write' \in BOOLEAN
    BY <1>3, PutStateType DEF SaveCommit, TypeOK
  <2> QED
    BY <1>3, <2>1, <2>2 DEF SaveCommit, TypeOK
<1>4. CASE RetainCommit
  <2>1. [flush EXCEPT !.pc = "mark", !.live = {}] \in FlushState
    BY DEF FlushState
  <2>2. \A gone \in SUBSET Rows :
          [flush EXCEPT !.pc = "unlink", !.live = {}, !.gone = {<<e, index[e]>> : e \in gone}]
            \in FlushState
    <3>1. \A gone \in SUBSET Rows : {<<e, index[e]>> : e \in gone} \in SUBSET (Entries \X Nat)
      BY DEF TypeOK
    <3>2. \A copies \in SUBSET (Entries \X Nat) :
            [flush EXCEPT !.pc = "unlink", !.live = {}, !.gone = copies] \in FlushState
      BY DEF FlushState
    <3> QED
      BY <3>1, <3>2
  <2>3. flush' \in FlushState
    BY <1>4, <2>1, <2>2 DEF RetainCommit
  <2>4. meta' \in MetaState /\ stale_write' \in BOOLEAN
    BY <1>4, PutStateType DEF RetainCommit, TypeOK
  <2>5. index' \in [Entries -> Nat] /\ files' = files
    <3>1. CASE Rows \ flush.live = {}
      BY <1>4, <3>1 DEF RetainCommit, TypeOK
    <3>2. CASE Rows \ flush.live # {}
      <4>1. /\ index' = [e \in Entries |-> IF e \in Rows \ flush.live THEN 0 ELSE index[e]]
            /\ files' = files
        BY <1>4, <3>2 DEF RetainCommit
      <4>2. index \in [Entries -> Nat]
        BY DEF TypeOK
      <4> QED
        BY <4>1, <4>2
    <3> QED
      BY <3>1, <3>2
  <2> QED
    BY <1>4, <2>3, <2>4, <2>5 DEF RetainCommit, TypeOK
<1>5. CASE RetainUnlink
  <2>1. [flush EXCEPT !.pc = "mark", !.gone = {}] \in FlushState
    BY DEF FlushState
  <2> QED
    BY <1>5, <2>1 DEF RetainUnlink, TypeOK
<1>6. CASE MarkSaved
  <2>1. [flush EXCEPT !.pc = "publish", !.batch = {}] \in FlushState
    BY DEF FlushState
  <2>2. UnsavedAfter \in Nat
    BY CountIsNat DEF UnsavedAfter, TypeOK
  <2> QED
    BY <1>6, <2>1, <2>2 DEF MarkSaved, TypeOK
<1>7. CASE FlushDone
  BY <1>7 DEF FlushDone, PublishedSeq, TypeOK
<1>8. CASE FlushFails
  BY <1>8 DEF FlushFails, TypeOK
<1>9. CASE Sweep
  BY <1>9 DEF Sweep, TypeOK
<1> QED
  BY <1>1, <1>2, <1>3, <1>4, <1>5, <1>6, <1>7, <1>8, <1>9 DEF SaveStep

LEMMA TypeProcess == TypeOK /\ ProcessStep => TypeOK'
<1> SUFFICES ASSUME TypeOK, ProcessStep PROVE TypeOK'
  OBVIOUS
<1> USE DEF queueVars, flushVars, epochVars, diskVars, clientVars, envVars, TypeOK
<1> stale_write \in BOOLEAN /\ Rows \in SUBSET Entries
  BY DEF Rows
<1>1. CASE Shutdown
  BY <1>1 DEF Shutdown
<1>2. CASE MarkCleanRead
  BY <1>2 DEF MarkCleanRead
<1>3. CASE MarkCleanWrite
  <2>1. meta' \in MetaState /\ stale_write' \in BOOLEAN
    BY <1>3, PutStateType DEF MarkCleanWrite
  <2> QED
    BY <1>3, <2>1, StartValues DEF MarkCleanWrite
<1>4. CASE Stop
  <2>1. up' \in BOOLEAN /\ notified' \in BOOLEAN
    BY <1>4 DEF Stop
  <2>2. NotStopping \in [pc : {"no", "flush", "mark", "write", "done"}, epoch : Epoch]
    BY StartValues DEF NotStopping
  <2> QED
    BY <1>4, <2>1, <2>2, StartValues DEF Stop
<1>5. CASE Start
  <2>1. Restorable \in SUBSET Entries
    BY DEF Restorable, Rows
  <2>2. up' \in BOOLEAN
    BY <1>5 DEF Start
  <2>3. meta' \in MetaState /\ stale_write' \in BOOLEAN
    BY <1>5, <2>1, PutStateType, OpenedType DEF Start
  <2> QED
    BY <1>5, <2>1, <2>2, <2>3, OpenedType DEF Start
<1>6. CASE StartInterrupted
  BY <1>6 DEF StartInterrupted
<1>7. CASE StartInMemory
  <2>1. up' \in BOOLEAN
    BY <1>7 DEF StartInMemory
  <2> QED
    BY <1>7, <2>1, OpenedType DEF StartInMemory
<1> QED
  BY <1>1, <1>2, <1>3, <1>4, <1>5, <1>6, <1>7 DEF ProcessStep

LEMMA TypeWorld == TypeOK /\ WorldStep => TypeOK'
<1> SUFFICES ASSUME TypeOK, WorldStep PROVE TypeOK'
  OBVIOUS
<1> USE DEF queueVars, flushVars, epochVars, diskVars, clientVars, envVars, TypeOK, Fault
<1> Rows \in SUBSET Entries
  BY DEF Rows
<1>1. ASSUME NEW e \in Entries, Expire(e) PROVE TypeOK'
  BY <1>1 DEF Expire
<1>2. ASSUME NEW e \in Entries, DamageFragments(e) PROVE TypeOK'
  BY <1>2 DEF DamageFragments
<1>3. CASE RemoveRows
  BY <1>3 DEF RemoveRows
<1>4. CASE LoseState
  <2>1. [NoMeta EXCEPT !.key_check = meta.key_check] \in MetaState
    BY StartValues DEF MetaState
  <2> QED
    BY <1>4, <2>1 DEF LoseState
<1>5. CASE LoseIndex
  BY <1>5, StartValues DEF LoseIndex
<1>6. CASE ChangeKey
  <2>1. [meta EXCEPT !.key_check = "other"] \in MetaState
    BY DEF MetaState
  <2> QED
    BY <1>6, <2>1 DEF ChangeKey
<1> QED
  BY <1>1, <1>2, <1>3, <1>4, <1>5, <1>6 DEF WorldStep

(* Every state the relay can reach is typed.                               *)
THEOREM TypeCorrect == Spec => []TypeOK
<1>1. TypeOK /\ [Next]_vars => TypeOK'
  <2> SUFFICES ASSUME TypeOK, [Next]_vars PROVE TypeOK'
    OBVIOUS
  <2>1. CASE UNCHANGED vars
    BY <2>1 DEF vars, queueVars, flushVars, epochVars, diskVars, clientVars, envVars, TypeOK
  <2> QED
    BY <2>1, TypeClient, TypeFetch, TypeSave, TypeProcess, TypeWorld DEF Next
<1> QED
  BY <1>1, TypeInit, PTL DEF Spec

(* Counting is monotone in the set counted.                                *)
LEMMA CountFewer ==
  ASSUME NEW S, S \subseteq Entries, NEW T, T \subseteq S
  PROVE  Cardinality(T) \in Nat /\ Cardinality(S) \in Nat /\ Cardinality(T) <= Cardinality(S)
<1>1. IsFiniteSet(S)
  BY EntriesFinite, FS_Subset
<1> QED
  BY <1>1, FS_Subset, CountIsNat

(* A step that adds nothing unsaved and leaves the total alone keeps the   *)
(* account right.                                                          *)
LEMMA CountKept ==
  ASSUME TypeOK, MemoryIsCounted, memory_bytes' = memory_bytes, Unsaved' \subseteq Unsaved
  PROVE  MemoryIsCounted'
<1>1. Unsaved \subseteq Entries
  BY DEF TypeOK, Unsaved
<1>2. /\ Cardinality(Unsaved') \in Nat /\ Cardinality(Unsaved) \in Nat
      /\ Cardinality(Unsaved') <= Cardinality(Unsaved)
  BY <1>1, CountFewer
<1> QED
  BY <1>2, LimitsType DEF MemoryIsCounted, TypeOK

LEMMA CountClient == TypeOK /\ MemoryIsCounted /\ ClientStep => MemoryIsCounted'
<1> SUFFICES ASSUME TypeOK, MemoryIsCounted, ClientStep PROVE MemoryIsCounted'
  OBVIOUS
<1> USE DEF queueVars
<1>0. /\ mailboxes \subseteq Entries /\ saved \subseteq Entries
      /\ memory_bytes \in Nat /\ MemoryLimit \in Nat
  BY LimitsType DEF TypeOK
<1>1. ASSUME NEW a \in Accounts, Connect(a) PROVE MemoryIsCounted'
  BY <1>1, CountKept DEF Connect, Unsaved
<1>2. ASSUME NEW e \in Entries, WriteRateLimited(e) PROVE MemoryIsCounted'
  BY <1>2, CountKept DEF WriteRateLimited, Unsaved
<1>3. ASSUME NEW e \in Entries, WriteRefused(e) PROVE MemoryIsCounted'
  <2>1. Unsaved' = PrunedFor(e) \ saved /\ Unsaved' \subseteq Unsaved
    BY <1>3 DEF WriteRefused, Keep, PrunedFor, Unsaved
  <2>2. CASE UNCHANGED memory_bytes
    BY <2>1, <2>2, CountKept
  <2>3. CASE memory_bytes' = Recount(e)
    <3>1. memory_bytes' = Cardinality(Unsaved')
      BY <2>1, <2>3 DEF Recount
    <3>2. /\ Cardinality(Unsaved') \in Nat /\ Cardinality(Unsaved) \in Nat
          /\ Cardinality(Unsaved') <= Cardinality(Unsaved)
      BY <1>0, <2>1, CountFewer DEF Unsaved
    <3> QED
      BY <1>0, <3>1, <3>2, LimitsType DEF MemoryIsCounted
  <2> QED
    BY <1>3, <2>2, <2>3 DEF WriteRefused
<1>4. ASSUME NEW e \in Entries, WriteQueued(e) PROVE MemoryIsCounted'
  <2> DEFINE before == PrunedFor(e) \ saved
  <2>1. Unsaved' \subseteq before \union {e}
    BY <1>4 DEF WriteQueued, Keep, Unsaved
  <2>2. before \subseteq Unsaved /\ Unsaved \subseteq Entries
    BY <1>0 DEF PrunedFor, Unsaved
  <2>3. IsFiniteSet(before) /\ before \union {e} \subseteq Entries
    BY <2>2, EntriesFinite, FS_Subset
  <2>4. Cardinality(before \union {e}) <= Cardinality(before) + 1
    BY <2>2, <2>3, CountIsNat, FS_AddElement
  <2>5. /\ Cardinality(Unsaved') \in Nat /\ Cardinality(before \union {e}) \in Nat
        /\ Cardinality(Unsaved') <= Cardinality(before \union {e})
    BY <2>1, <2>3, CountFewer
  <2>6. /\ Cardinality(before) \in Nat /\ Cardinality(Unsaved) \in Nat
        /\ Cardinality(before) <= Cardinality(Unsaved)
    BY <2>2, CountFewer
  <2>7. Recount(e) = Cardinality(before)
    BY DEF Recount
  <2> HIDE DEF before
  <2>8. Cardinality(Unsaved') <= Cardinality(before) + 1
    BY <2>4, <2>5, <2>6
  <2>9. CASE SeemsOver
    <3>1. memory_bytes' = Recount(e) + 1 /\ Recount(e) + 1 <= MemoryLimit
      BY <1>4, <2>9 DEF WriteQueued
    <3> QED
      BY <1>0, <2>5, <2>6, <2>7, <2>8, <3>1, LimitsType DEF MemoryIsCounted
  <2>10. CASE ~SeemsOver
    <3>1. memory_bytes' = memory_bytes + 1
      BY <1>4, <2>10 DEF WriteQueued
    <3>2. memory_bytes + 1 <= MemoryLimit
      BY <1>0, <2>10 DEF SeemsOver
    <3>3. Cardinality(Unsaved) <= memory_bytes
      BY <1>0, <2>6 DEF MemoryIsCounted
    <3> QED
      BY <1>0, <2>5, <2>6, <2>8, <3>1, <3>2, <3>3, LimitsType DEF MemoryIsCounted
  <2> QED
    BY <2>9, <2>10
<1>5. ASSUME NEW e \in Entries, WriteAcked(e) PROVE MemoryIsCounted'
  BY <1>5, CountKept DEF WriteAcked, Unsaved
<1>6. ASSUME NEW e \in Entries, WriteTimesOut(e) PROVE MemoryIsCounted'
  BY <1>6, CountKept DEF WriteTimesOut, Keep, Unsaved
<1>7. ASSUME NEW e \in Entries, Delete(e) PROVE MemoryIsCounted'
  BY <1>7, CountKept DEF Delete, Keep, Unsaved
<1> QED
  BY <1>1, <1>2, <1>3, <1>4, <1>5, <1>6, <1>7 DEF ClientStep

LEMMA CountFetch ==
  TypeOK /\ MemoryIsCounted /\ (\E h \in Handlers : FetchStep(h)) => MemoryIsCounted'
<1> SUFFICES ASSUME TypeOK, MemoryIsCounted, NEW h \in Handlers, FetchStep(h)
             PROVE  MemoryIsCounted'
  OBVIOUS
<1>1. memory_bytes' = memory_bytes /\ Unsaved' \subseteq Unsaved
  <2>1. ASSUME NEW a \in Accounts, NEW b \in Boxes, FetchList(h, a, b)
        PROVE  memory_bytes' = memory_bytes /\ Unsaved' \subseteq Unsaved
    BY <2>1 DEF FetchList, Keep, Unsaved
  <2>2. CASE DropLost(h)
    BY <2>2 DEF DropLost, Keep, Unsaved
  <2>3. CASE UNCHANGED queueVars
    BY <2>3 DEF queueVars, Unsaved
  <2> QED
    BY <2>1, <2>2, <2>3 DEF FetchStep, ReadRecord, ReadFragments, FetchAnswered, BumpEpoch,
                           PersistEpoch, PersistFails, AnnounceEpoch
<1> QED
  BY <1>1, CountKept

LEMMA CountSave ==
  TypeOK /\ MemoryIsCounted /\ (SaveStep \/ FlushFails \/ Sweep) => MemoryIsCounted'
<1> SUFFICES ASSUME TypeOK, MemoryIsCounted, SaveStep \/ FlushFails \/ Sweep
             PROVE  MemoryIsCounted'
  OBVIOUS
<1>1. CASE MarkSaved
  <2>1. Unsaved' = mailboxes \ (saved \union flush.batch)
    BY <1>1 DEF MarkSaved, Unsaved
  <2>2. memory_bytes' = Cardinality(Unsaved')
    BY <1>1, <2>1 DEF MarkSaved, UnsavedAfter
  <2>3. Unsaved' \subseteq Unsaved /\ Unsaved \subseteq Entries
    BY <2>1 DEF Unsaved, TypeOK
  <2>4. /\ Cardinality(Unsaved') \in Nat /\ Cardinality(Unsaved) \in Nat
        /\ Cardinality(Unsaved') <= Cardinality(Unsaved)
    BY <2>3, CountFewer
  <2> QED
    BY <2>2, <2>4, LimitsType DEF MemoryIsCounted
<1>2. CASE Sweep
  BY <1>2, CountKept DEF Sweep, Keep, Unsaved
<1>3. CASE UNCHANGED queueVars
  BY <1>3, CountKept DEF queueVars, Unsaved
<1> QED
  BY <1>1, <1>2, <1>3 DEF SaveStep, FlushTake, SaveFragments, SaveCommit, RetainCommit,
                         RetainUnlink, FlushDone, FlushFails

(* A process that ends or starts has nothing unsaved.                      *)
LEMMA CountProcess == TypeOK /\ MemoryIsCounted /\ ProcessStep => MemoryIsCounted'
<1> SUFFICES ASSUME TypeOK, MemoryIsCounted, ProcessStep PROVE MemoryIsCounted'
  OBVIOUS
<1>1. CASE Stop \/ Start
  <2>1. Stop => mailboxes' = {} /\ memory_bytes' = 0
    BY DEF Stop
  <2>2. Start => mailboxes' = saved' /\ memory_bytes' = memory_bytes
    BY DEF Start
  <2>3. Unsaved' = {} /\ memory_bytes' \in Nat
    BY <1>1, <2>1, <2>2 DEF Unsaved, TypeOK
  <2> QED
    BY <2>3, FS_EmptySet, LimitsType DEF MemoryIsCounted
<1>2. CASE UNCHANGED queueVars
  BY <1>2, CountKept DEF queueVars, Unsaved
<1> QED
  BY <1>1, <1>2 DEF ProcessStep, Shutdown, MarkCleanRead, MarkCleanWrite, StartInterrupted,
                    StartInMemory

(* The running total never misses unsaved mail, and unsaved mail never     *)
(* exceeds the operator's limit, however writes, saves, sweeps, fetches    *)
(* and restarts interleave (state.rs recount_memory, ws.rs MailboxWrite).  *)
THEOREM MemoryCounted == Spec => []MemoryIsCounted
<1>1. Init => MemoryIsCounted
  BY FS_EmptySet, LimitsType DEF Init, MemoryIsCounted, Unsaved
<1>2. TypeOK /\ MemoryIsCounted /\ [Next]_vars => MemoryIsCounted'
  <2> SUFFICES ASSUME TypeOK, MemoryIsCounted, [Next]_vars PROVE MemoryIsCounted'
    OBVIOUS
  <2>1. CASE UNCHANGED vars
    BY <2>1, CountKept DEF vars, queueVars, Unsaved
  <2>2. CASE WorldStep
    <3>1. UNCHANGED queueVars
      BY <2>2 DEF WorldStep, Expire, DamageFragments, RemoveRows, LoseState, LoseIndex, ChangeKey
    <3> QED
      BY <3>1, CountKept DEF queueVars, Unsaved
  <2> QED
    BY <2>1, <2>2, CountClient, CountFetch, CountSave, CountProcess DEF Next
<1> QED
  BY <1>1, <1>2, TypeCorrect, PTL DEF Spec

-----------------------------------------------------------------------------
(* The save in progress: what it holds stays on disk until it is marked.   *)
SaveInv ==
  /\ next_flush_seq > 0
  /\ flush.pc # "idle" => (up /\ flush.seq > 0 /\ flush.seq < next_flush_seq)
  /\ flush.pc \in {"save", "commit", "retain"} =>
       flush.batch \subseteq flush.live /\ saved \ Gone \subseteq flush.live
  /\ flush.pc \in {"save", "commit"} => flush.batch \intersect saved = {}
  /\ flush.pc = "commit" => \A e \in flush.batch \ damaged : <<e, flush.seq>> \in files
  /\ flush.pc \in {"retain", "unlink", "mark"} => flush.batch \ Gone \subseteq Rows
  /\ flush.pc = "unlink" => \A r \in flush.gone : index[r[1]] = 0
  /\ flush.pc = "publish" => flush.batch = {}

(* The queue: what is marked saved has its row, what is not has its save   *)
(* still to come, and a write nobody has answered is still there.          *)
QueueInv ==
  /\ saved \subseteq mailboxes
  /\ saved \ Gone \subseteq Rows
  /\ flushed < next_flush_seq
  /\ \A e \in Unsaved \ Gone :
       /\ flushed < flush_seq[e]
       /\ flush.pc # "idle" => e \in flush.batch \/ flush.seq < flush_seq[e]
  /\ \A e \in Entries : Waiting(e) => e \in mailboxes \union Gone
  /\ Persistent => \A e \in Acked \ Gone : e \in Rows /\ (up => e \in saved)

(* A handler reads only entries that are saved, and loses only entries     *)
(* that were collected, expired or damaged.                                *)
ReadInv ==
  \A h \in Handlers :
    /\ fetch[h].todo \ Gone \subseteq saved
    /\ \A r \in fetch[h].reading :
         r[1] \in Gone \/ (r[1] \in saved /\ r[2] = index[r[1]])
    /\ \A r, q \in fetch[h].reading : r = q
    /\ fetch[h].lost \subseteq Gone

(* Nothing of a process outlives it, and another key finds nothing.        *)
DownInv ==
  /\ ~up => /\ mailboxes = {} /\ flush = NoFlush
            /\ fetch = [h \in Handlers |-> NoFetch]
            /\ \A e \in Entries : ~Waiting(e)
  /\ WrongKey => Rows \subseteq damaged

Kept == SaveInv /\ QueueInv /\ ReadInv /\ DownInv /\ RowsHaveFragments

(* A handler's reading is undisturbed by a step that only lets entries of  *)
(* Gone leave the queue.                                                   *)
LEMMA ReadKept ==
  ASSUME ReadInv, UNCHANGED <<fetch, index>>,
         Gone \subseteq Gone', saved \ Gone' \subseteq saved'
  PROVE  ReadInv'
<1>1. SUFFICES ASSUME NEW h \in Handlers
              PROVE /\ fetch[h].todo \ Gone' \subseteq saved'
                    /\ \A r \in fetch[h].reading :
                         r[1] \in Gone' \/ (r[1] \in saved' /\ r[2] = index[r[1]])
                    /\ \A r, q \in fetch[h].reading : r = q
                    /\ fetch[h].lost \subseteq Gone'
  BY DEF ReadInv
<1>2. /\ fetch[h].todo \ Gone \subseteq saved
      /\ \A r \in fetch[h].reading :
           r[1] \in Gone \/ (r[1] \in saved /\ r[2] = index[r[1]])
      /\ \A r, q \in fetch[h].reading : r = q
      /\ fetch[h].lost \subseteq Gone
  BY DEF ReadInv
<1> QED
  BY <1>2

(* Nor is the queue's bookkeeping.                                         *)
LEMMA QueueKept ==
  ASSUME TypeOK, QueueInv, NEW kept \in SUBSET mailboxes, Keep(kept),
         mailboxes \ Gone' \subseteq kept \union (mailboxes \ saved),
         \A e \in mailboxes \ kept : e \in Gone' \/ ~Waiting(e)',
         Gone \subseteq Gone',
         UNCHANGED <<up, index, flush, flushed, next_flush_seq, flush_seq>>,
         \A e \in Entries : (Waiting(e)' => Waiting(e)) /\ (write'[e] = "acked" => write[e] = "acked")
  PROVE  QueueInv'
<1>1. saved' = saved \intersect kept /\ mailboxes' = kept
  BY DEF Keep
<1>2. saved \ Gone' \subseteq saved' /\ saved' \subseteq saved
  BY <1>1 DEF QueueInv
<1>3. Unsaved' \subseteq Unsaved
  BY <1>1 DEF Unsaved
<1>4. Rows' = Rows /\ Acked' \subseteq Acked
  BY DEF Rows, Acked
<1> QED
  BY <1>1, <1>2, <1>3, <1>4 DEF QueueInv

LEMMA KeptClient == TypeOK /\ Kept /\ ClientStep => Kept'
<1> SUFFICES ASSUME TypeOK, Kept, ClientStep PROVE Kept'
  OBVIOUS
<1> USE DEF Kept, TypeOK, FetchState, FlushState, MetaState, queueVars, flushVars, epochVars, diskVars, clientVars, envVars
<1>1. ASSUME NEW a \in Accounts, Connect(a) PROVE Kept'
  BY <1>1 DEF Connect, Keep, SaveInv, QueueInv, ReadInv, DownInv, RowsHaveFragments, Gone, Rows, Unsaved, Waiting, Acked, Intact, WrongKey
<1>2. ASSUME NEW e \in Entries, WriteRateLimited(e) PROVE Kept'
  BY <1>2 DEF WriteRateLimited, WriteRequest, Keep, SaveInv, QueueInv, ReadInv, DownInv, RowsHaveFragments, Gone, Rows, Unsaved, Waiting, Acked, Intact, WrongKey
<1>3. ASSUME NEW e \in Entries, WriteRefused(e) PROVE Kept'
  <2>1. SaveInv'
    BY <1>3 DEF WriteRefused, WriteRequest, PrunedFor, Keep, SaveInv, Gone, Rows, Unsaved, Waiting, Acked, Intact, WrongKey
  <2>2. QueueInv'
    BY <1>3 DEF WriteRefused, WriteRequest, PrunedFor, Keep, QueueInv, Gone, Rows, Unsaved, Waiting, Acked, Intact, WrongKey
  <2>3. ReadInv'
    <3>1. saved \ Gone' \subseteq saved' /\ Gone \subseteq Gone'
      BY <1>3 DEF WriteRefused, PrunedFor, Keep, QueueInv, Gone, InBox
    <3> QED
      BY <1>3, <3>1, ReadKept DEF WriteRefused, PrunedFor
  <2>4. DownInv'
    BY <1>3 DEF WriteRefused, WriteRequest, PrunedFor, Keep, DownInv, Gone, Rows, Unsaved, Waiting, Acked, Intact, WrongKey
  <2>5. RowsHaveFragments'
    BY <1>3 DEF WriteRefused, WriteRequest, PrunedFor, Keep, RowsHaveFragments, Gone, Rows, Unsaved, Waiting, Acked, Intact, WrongKey
  <2> QED
    BY <2>1, <2>2, <2>3, <2>4, <2>5
<1>4. ASSUME NEW e \in Entries, WriteQueued(e) PROVE Kept'
  <2>1. SaveInv'
    BY <1>4 DEF WriteQueued, WriteRequest, PrunedFor, Keep, SaveInv, Gone, Rows, Unsaved, Waiting, Acked, Intact, WrongKey
  <2>2. QueueInv'
    <3>1. /\ mailboxes' = PrunedFor(e) \union {e}
          /\ saved' = saved \intersect (PrunedFor(e) \union {e})
      BY <1>4 DEF WriteQueued, Keep
    <3>2. PrunedFor(e) \subseteq mailboxes /\ mailboxes \ Gone \subseteq PrunedFor(e)
      BY DEF PrunedFor, Gone
    <3>3. Gone' = Gone /\ Rows' = Rows
      BY <1>4 DEF WriteQueued, Gone, Rows
    <3>4. /\ saved' \subseteq mailboxes' /\ saved' \ Gone \subseteq Rows
          /\ saved \ Gone \subseteq saved'
      BY <3>1, <3>2 DEF QueueInv
    <3>5. ASSUME NEW q \in Unsaved' \ Gone
          PROVE  /\ flushed' < flush_seq'[q]
                 /\ flush'.pc # "idle" => q \in flush'.batch \/ flush'.seq < flush_seq'[q]
      <4>1. CASE q = e
        BY <1>4, <4>1 DEF WriteQueued, QueueInv, SaveInv
      <4>2. CASE q # e
        <5>1. q \in Unsaved \ Gone
          BY <3>1, <3>2, <4>2 DEF Unsaved
        <5> QED
          BY <1>4, <4>2, <5>1 DEF WriteQueued, QueueInv, Unsaved
      <4> QED
        BY <4>1, <4>2
    <3>6. \A q \in Entries : Waiting(q)' => q \in mailboxes' \union Gone
      BY <1>4, <3>1, <3>2 DEF WriteQueued, QueueInv, Waiting
    <3>7. Persistent => Acked' \subseteq Acked
      BY <1>4 DEF WriteQueued, Acked
    <3>8. flushed' < next_flush_seq' /\ up' = up
      BY <1>4 DEF WriteQueued, QueueInv
    <3> QED
      BY <3>3, <3>4, <3>5, <3>6, <3>7, <3>8 DEF QueueInv
  <2>3. ReadInv'
    <3>1. saved \ Gone' \subseteq saved' /\ Gone \subseteq Gone'
      BY <1>4 DEF WriteQueued, PrunedFor, Keep, QueueInv, Gone, InBox
    <3> QED
      BY <1>4, <3>1, ReadKept DEF WriteQueued, PrunedFor
  <2>4. DownInv'
    BY <1>4 DEF WriteQueued, WriteRequest, PrunedFor, Keep, DownInv, Gone, Rows, Unsaved, Waiting, Acked, Intact, WrongKey
  <2>5. RowsHaveFragments'
    BY <1>4 DEF WriteQueued, WriteRequest, PrunedFor, Keep, RowsHaveFragments, Gone, Rows, Unsaved, Waiting, Acked, Intact, WrongKey
  <2> QED
    BY <2>1, <2>2, <2>3, <2>4, <2>5
<1>5. ASSUME NEW e \in Entries, WriteAcked(e) PROVE Kept'
  <2>1. SaveInv'
    BY <1>5 DEF WriteAcked, Keep, SaveInv, Gone, Rows, Unsaved, Waiting, Acked, Intact, WrongKey
  <2>2. QueueInv'
    BY <1>5 DEF WriteAcked, Keep, QueueInv, Gone, Rows, Unsaved, Waiting, Acked, Intact, WrongKey
  <2>3. ReadInv'
    BY <1>5 DEF WriteAcked, Keep, ReadInv, Gone, Rows, Unsaved, Waiting, Acked, Intact, WrongKey
  <2>4. DownInv'
    BY <1>5 DEF WriteAcked, Keep, DownInv, Gone, Rows, Unsaved, Waiting, Acked, Intact, WrongKey
  <2>5. RowsHaveFragments'
    BY <1>5 DEF WriteAcked, Keep, RowsHaveFragments, Gone, Rows, Unsaved, Waiting, Acked, Intact, WrongKey
  <2> QED
    BY <2>1, <2>2, <2>3, <2>4, <2>5
<1>6. ASSUME NEW e \in Entries, WriteTimesOut(e) PROVE Kept'
  <2>1. SaveInv'
    BY <1>6 DEF WriteTimesOut, Keep, SaveInv, Gone, Rows, Unsaved, Waiting, Acked, Intact, WrongKey
  <2>2. QueueInv'
    BY <1>6 DEF WriteTimesOut, Keep, QueueInv, Gone, Rows, Unsaved, Waiting, Acked, Intact, WrongKey
  <2>3. ReadInv'
    <3>1. saved \ Gone' \subseteq saved' /\ Gone \subseteq Gone'
      BY <1>6 DEF WriteTimesOut, Keep, QueueInv, Gone, InBox
    <3> QED
      BY <1>6, <3>1, ReadKept DEF WriteTimesOut
  <2>4. DownInv'
    BY <1>6 DEF WriteTimesOut, Keep, DownInv, Gone, Rows, Unsaved, Waiting, Acked, Intact, WrongKey
  <2>5. RowsHaveFragments'
    BY <1>6 DEF WriteTimesOut, Keep, RowsHaveFragments, Gone, Rows, Unsaved, Waiting, Acked, Intact, WrongKey
  <2> QED
    BY <2>1, <2>2, <2>3, <2>4, <2>5
<1>7. ASSUME NEW e \in Entries, Delete(e) PROVE Kept'
  <2>1. SaveInv'
    BY <1>7 DEF Delete, Keep, SaveInv, Gone, Rows, Unsaved, Waiting, Acked, Intact, WrongKey
  <2>2. QueueInv'
    BY <1>7 DEF Delete, Keep, QueueInv, Gone, Rows, Unsaved, Waiting, Acked, Intact, WrongKey
  <2>3. ReadInv'
    <3>1. saved \ Gone' \subseteq saved' /\ Gone \subseteq Gone'
      BY <1>7 DEF Delete, Keep, QueueInv, Gone, InBox
    <3> QED
      BY <1>7, <3>1, ReadKept DEF Delete
  <2>4. DownInv'
    BY <1>7 DEF Delete, Keep, DownInv, Gone, Rows, Unsaved, Waiting, Acked, Intact, WrongKey
  <2>5. RowsHaveFragments'
    BY <1>7 DEF Delete, Keep, RowsHaveFragments, Gone, Rows, Unsaved, Waiting, Acked, Intact, WrongKey
  <2> QED
    BY <2>1, <2>2, <2>3, <2>4, <2>5
<1> QED
  BY <1>1, <1>2, <1>3, <1>4, <1>5, <1>6, <1>7 DEF ClientStep

LEMMA KeptFetch == TypeOK /\ Kept /\ (\E h \in Handlers : FetchStep(h)) => Kept'
<1> SUFFICES ASSUME TypeOK, Kept, (\E h \in Handlers : FetchStep(h)) PROVE Kept'
  OBVIOUS
<1> USE DEF Kept, TypeOK, FetchState, FlushState, MetaState, queueVars, flushVars, epochVars, diskVars, clientVars, envVars
<1>1. ASSUME NEW h \in Handlers, NEW a \in Accounts, NEW b \in Boxes, FetchList(h, a, b) PROVE Kept'
  <2> DEFINE kept == mailboxes \ (expired \intersect InBox(b))
             listed == {e \in kept \intersect InBox(b) : WriterOf[e] # a}
  <2>a. /\ mailboxes' = kept /\ saved' = saved \intersect kept
        /\ saved \ Gone \subseteq saved'
        /\ UNCHANGED <<index, collected, expired, damaged>>
    BY <1>1 DEF FetchList, Keep, QueueInv, Gone, Rows
  <2>b. \/ fetch' = fetch
        \/ fetch' = [fetch EXCEPT ![h] =
               [NoFetch EXCEPT !.pc = "read", !.todo = listed \intersect saved,
                               !.found = listed \ saved]]
    BY <1>1 DEF FetchList
  <2>1. SaveInv'
    BY <1>1 DEF FetchList, NoFetch, Keep, SaveInv, Gone, Rows, Unsaved, Waiting, Acked, Intact, WrongKey
  <2>2. QueueInv'
    BY <1>1 DEF FetchList, NoFetch, Keep, QueueInv, Gone, Rows, Unsaved, Waiting, Acked, Intact, WrongKey
  <2>3. ReadInv'
    <3>1. CASE fetch' = fetch
      BY <2>a, <3>1, ReadKept DEF Gone
    <3>2. CASE fetch' # fetch
      <4>1. ASSUME NEW g \in Handlers, g # h
            PROVE  fetch'[g] = fetch[g]
        BY <2>b, <4>1
      <4>2. /\ fetch'[h].todo = listed \intersect saved
            /\ fetch'[h].reading = {} /\ fetch'[h].lost = {}
        <5>1. fetch'[h] = [NoFetch EXCEPT !.pc = "read", !.todo = listed \intersect saved,
                                          !.found = listed \ saved]
          BY <2>b, <3>2
        <5> HIDE DEF listed
        <5> QED
          BY <5>1 DEF NoFetch
      <4>3. Gone' = Gone
        BY <2>a DEF Gone
      <4>4. listed \intersect saved \subseteq saved'
        BY <2>a
      <4> HIDE DEF listed
      <4> QED
        BY <2>a, <4>1, <4>2, <4>3, <4>4 DEF ReadInv
    <3> QED
      BY <3>1, <3>2
  <2>4. DownInv'
    BY <1>1 DEF FetchList, NoFetch, Keep, DownInv, Gone, Rows, Unsaved, Waiting, Acked, Intact, WrongKey
  <2>5. RowsHaveFragments'
    BY <1>1 DEF FetchList, NoFetch, Keep, RowsHaveFragments, Gone, Rows, Unsaved, Waiting, Acked, Intact, WrongKey
  <2> QED
    BY <2>1, <2>2, <2>3, <2>4, <2>5
<1>2. ASSUME NEW h \in Handlers, NEW e \in Entries, ReadRecord(h, e) PROVE Kept'
  <2>1. SaveInv'
    BY <1>2 DEF ReadRecord, Keep, SaveInv, Gone, Rows, Unsaved, Waiting, Acked, Intact, WrongKey
  <2>2. QueueInv'
    BY <1>2 DEF ReadRecord, Keep, QueueInv, Gone, Rows, Unsaved, Waiting, Acked, Intact, WrongKey
  <2>3. ReadInv'
    BY <1>2 DEF ReadRecord, Keep, ReadInv, Gone, Rows, Unsaved, Waiting, Acked, Intact, WrongKey
  <2>4. DownInv'
    BY <1>2 DEF ReadRecord, Keep, DownInv, Gone, Rows, Unsaved, Waiting, Acked, Intact, WrongKey
  <2>5. RowsHaveFragments'
    BY <1>2 DEF ReadRecord, Keep, RowsHaveFragments, Gone, Rows, Unsaved, Waiting, Acked, Intact, WrongKey
  <2> QED
    BY <2>1, <2>2, <2>3, <2>4, <2>5
<1>3. ASSUME NEW h \in Handlers, ReadFragments(h) PROVE Kept'
  <2>1. SaveInv'
    BY <1>3 DEF ReadFragments, Keep, SaveInv, Gone, Rows, Unsaved, Waiting, Acked, Intact, WrongKey
  <2>2. QueueInv'
    BY <1>3 DEF ReadFragments, Keep, QueueInv, Gone, Rows, Unsaved, Waiting, Acked, Intact, WrongKey
  <2>3. ReadInv'
    <3> DEFINE f == fetch[h]
               read == {r[1] : r \in f.reading}
    <3>1. /\ \A g \in Handlers : g # h => fetch'[g] = f \/ fetch'[g] = fetch[g]
          /\ fetch'[h].todo = f.todo /\ fetch'[h].reading = {}
          /\ fetch'[h].lost = IF f.reading \subseteq files THEN f.lost ELSE f.lost \union read
      BY <1>3 DEF ReadFragments
    <3>2. \A g \in Handlers : g # h => fetch'[g] = fetch[g]
      BY <1>3 DEF ReadFragments
    <3>3. ~(f.reading \subseteq files) => read \subseteq Gone
      <4> SUFFICES ASSUME NEW r \in f.reading, r \notin files PROVE read \subseteq Gone
        OBVIOUS
      <4>1. r = <<r[1], r[2]>> /\ r[1] \in Entries
        OBVIOUS
      <4>2. r[1] \in Gone
        <5> SUFFICES ASSUME r[1] \notin Gone PROVE FALSE
          OBVIOUS
        <5>1. r[1] \in saved \ Gone /\ r[2] = index[r[1]]
          BY DEF ReadInv
        <5>2. Intact(r[1])
          BY <5>1 DEF QueueInv, RowsHaveFragments, Gone
        <5> QED
          BY <4>1, <5>1, <5>2 DEF Intact
      <4>3. \A q \in f.reading : q = r
        BY DEF ReadInv
      <4> QED
        BY <4>2, <4>3
    <3>4. Gone' = Gone /\ saved' = saved /\ index' = index
      BY <1>3 DEF ReadFragments, Gone
    <3> QED
      BY <3>1, <3>2, <3>3, <3>4 DEF ReadInv
  <2>4. DownInv'
    BY <1>3 DEF ReadFragments, Keep, DownInv, Gone, Rows, Unsaved, Waiting, Acked, Intact, WrongKey
  <2>5. RowsHaveFragments'
    BY <1>3 DEF ReadFragments, Keep, RowsHaveFragments, Gone, Rows, Unsaved, Waiting, Acked, Intact, WrongKey
  <2> QED
    BY <2>1, <2>2, <2>3, <2>4, <2>5
<1>4. ASSUME NEW h \in Handlers, FetchAnswered(h) PROVE Kept'
  BY <1>4 DEF FetchAnswered, Answer, NoFetch, Keep, SaveInv, QueueInv, ReadInv, DownInv, RowsHaveFragments, Gone, Rows, Unsaved, Waiting, Acked, Intact, WrongKey
<1>5. ASSUME NEW h \in Handlers, DropLost(h) PROVE Kept'
  <2>a. /\ mailboxes' = mailboxes \ fetch[h].lost
        /\ saved' = saved \intersect (mailboxes \ fetch[h].lost)
        /\ UNCHANGED <<up, index, flush, flushed, next_flush_seq, flush_seq, write,
                       collected, expired, damaged>>
    BY <1>5 DEF DropLost, Keep
  <2>b. fetch[h].lost \subseteq Gone /\ Gone' = Gone
    BY <2>a DEF ReadInv, Gone
  <2>1. SaveInv'
    BY <1>5 DEF DropLost, Keep, SaveInv, Gone, Rows, Unsaved, Waiting, Acked, Intact, WrongKey
  <2>2. QueueInv'
    BY <1>5, <2>a, <2>b, QueueKept DEF DropLost, Waiting
  <2>3. ReadInv'
    <3>1. \A g \in Handlers : /\ fetch'[g].todo = fetch[g].todo
                               /\ fetch'[g].reading = fetch[g].reading
                               /\ fetch'[g].lost = fetch[g].lost
      BY <1>5 DEF DropLost
    <3>2. saved \ Gone \subseteq saved'
      BY <2>a, <2>b DEF QueueInv
    <3> QED
      BY <2>a, <2>b, <3>1, <3>2 DEF ReadInv
  <2>4. DownInv'
    BY <1>5 DEF DropLost, Keep, DownInv, Gone, Rows, Unsaved, Waiting, Acked, Intact, WrongKey
  <2>5. RowsHaveFragments'
    BY <1>5 DEF DropLost, Keep, RowsHaveFragments, Gone, Rows, Unsaved, Waiting, Acked, Intact, WrongKey
  <2> QED
    BY <2>1, <2>2, <2>3, <2>4, <2>5
<1>6. ASSUME NEW h \in Handlers, BumpEpoch(h) PROVE Kept'
  BY <1>6 DEF BumpEpoch, Keep, SaveInv, QueueInv, ReadInv, DownInv, RowsHaveFragments, Gone, Rows, Unsaved, Waiting, Acked, Intact, WrongKey
<1>7. ASSUME NEW h \in Handlers, PersistEpoch(h) PROVE Kept'
  BY <1>7 DEF PersistEpoch, PutState, Keep, SaveInv, QueueInv, ReadInv, DownInv, RowsHaveFragments, Gone, Rows, Unsaved, Waiting, Acked, Intact, WrongKey
<1>8. ASSUME NEW h \in Handlers, PersistFails(h) PROVE Kept'
  BY <1>8 DEF PersistFails, Answer, NoFetch, Keep, SaveInv, QueueInv, ReadInv, DownInv, RowsHaveFragments, Gone, Rows, Unsaved, Waiting, Acked, Intact, WrongKey
<1>9. ASSUME NEW h \in Handlers, AnnounceEpoch(h) PROVE Kept'
  BY <1>9 DEF AnnounceEpoch, Answer, NoFetch, Keep, SaveInv, QueueInv, ReadInv, DownInv, RowsHaveFragments, Gone, Rows, Unsaved, Waiting, Acked, Intact, WrongKey
<1> QED
  BY <1>1, <1>2, <1>3, <1>4, <1>5, <1>6, <1>7, <1>8, <1>9 DEF FetchStep

LEMMA KeptSave == TypeOK /\ Kept /\ (SaveStep \/ FlushFails \/ Sweep) => Kept'
<1> SUFFICES ASSUME TypeOK, Kept, (SaveStep \/ FlushFails \/ Sweep) PROVE Kept'
  OBVIOUS
<1> USE DEF Kept, TypeOK, FetchState, FlushState, MetaState, queueVars, flushVars, epochVars, diskVars, clientVars, envVars
<1>1. CASE FlushTake
  <2>1. SaveInv'
    <3>1. PICK final \in BOOLEAN :
            flush' = [pc |-> "save", seq |-> next_flush_seq, batch |-> Live \ saved,
                      live |-> Live, gone |-> {}, final |-> final]
      BY <1>1 DEF FlushTake
    <3>2. /\ flush'.pc = "save" /\ flush'.seq = next_flush_seq
          /\ flush'.batch = Live \ saved /\ flush'.live = Live
      BY <3>1
    <3>3. /\ up /\ up' = up /\ saved' = saved /\ Gone' = Gone
          /\ next_flush_seq' = next_flush_seq + 1
      BY <1>1 DEF FlushTake, Gone
    <3>4. saved \ Gone \subseteq Live
      BY DEF Live, QueueInv, Gone
    <3> QED
      BY <3>2, <3>3, <3>4 DEF SaveInv
  <2>2. QueueInv'
    BY <1>1 DEF FlushTake, Live, Keep, QueueInv, Gone, Rows, Unsaved, Waiting, Acked, Intact, WrongKey
  <2>3. ReadInv'
    BY <1>1 DEF FlushTake, Live, Keep, ReadInv, Gone, Rows, Unsaved, Waiting, Acked, Intact, WrongKey
  <2>4. DownInv'
    BY <1>1 DEF FlushTake, Live, Keep, DownInv, Gone, Rows, Unsaved, Waiting, Acked, Intact, WrongKey
  <2>5. RowsHaveFragments'
    BY <1>1 DEF FlushTake, Live, Keep, RowsHaveFragments, Gone, Rows, Unsaved, Waiting, Acked, Intact, WrongKey
  <2> QED
    BY <2>1, <2>2, <2>3, <2>4, <2>5
<1>2. CASE SaveFragments
  <2>1. SaveInv'
    BY <1>2 DEF SaveFragments, Keep, SaveInv, Gone, Rows, Unsaved, Waiting, Acked, Intact, WrongKey
  <2>2. QueueInv'
    BY <1>2 DEF SaveFragments, Keep, QueueInv, Gone, Rows, Unsaved, Waiting, Acked, Intact, WrongKey
  <2>3. ReadInv'
    BY <1>2 DEF SaveFragments, Keep, ReadInv, Gone, Rows, Unsaved, Waiting, Acked, Intact, WrongKey
  <2>4. DownInv'
    BY <1>2 DEF SaveFragments, Keep, DownInv, Gone, Rows, Unsaved, Waiting, Acked, Intact, WrongKey
  <2>5. RowsHaveFragments'
    BY <1>2 DEF SaveFragments, Keep, RowsHaveFragments, Gone, Rows, Unsaved, Waiting, Acked, Intact, WrongKey
  <2> QED
    BY <2>1, <2>2, <2>3, <2>4, <2>5
<1>3. CASE SaveCommit
  <2>a. /\ up /\ flush.pc = "commit" /\ flush'.pc = "retain" /\ flush'.batch = flush.batch
        /\ flush'.live = flush.live /\ flush'.seq = flush.seq
        /\ UNCHANGED <<up, mailboxes, saved, flush_seq, next_flush_seq, flushed, fetch, files,
                       write, collected, expired, damaged>>
    BY <1>3 DEF SaveCommit
  <2>b. \A e \in Entries : index'[e] = IF e \in flush.batch THEN flush.seq ELSE index[e]
    BY <1>3 DEF SaveCommit
  <2>c. flush.seq \in Nat \ {0} /\ flush.batch \subseteq Entries
    BY <2>a DEF SaveInv
  <2>d. Rows' = Rows \union flush.batch
    BY <2>b, <2>c DEF Rows
  <2>e. Gone' = Gone /\ Unsaved' = Unsaved /\ Acked' = Acked
    BY <2>a DEF Gone, Unsaved, Acked
  <2>1. SaveInv'
    BY <1>3 DEF SaveCommit, PutState, Keep, SaveInv, Gone, Rows, Unsaved, Waiting, Acked, Intact, WrongKey
  <2>2. QueueInv'
    BY <2>a, <2>d, <2>e DEF QueueInv, Waiting
  <2>3. ReadInv'
    <3>1. \A e \in saved : index'[e] = index[e]
      BY <2>a, <2>b DEF SaveInv
    <3> QED
      BY <2>a, <2>e, <3>1 DEF ReadInv
  <2>4. DownInv'
    BY <1>3 DEF SaveCommit, PutState, Keep, DownInv, Gone, Rows, Unsaved, Waiting, Acked, Intact, WrongKey
  <2>5. RowsHaveFragments'
    <3>1. \A e \in flush.batch \ damaged : <<e, index'[e]>> \in files
      BY <2>a, <2>b, <2>c DEF SaveInv
    <3>2. \A e \in Rows \ flush.batch : index'[e] = index[e]
      BY <2>b DEF Rows
    <3> QED
      BY <2>a, <2>d, <3>1, <3>2 DEF RowsHaveFragments, Intact
  <2> QED
    BY <2>1, <2>2, <2>3, <2>4, <2>5
<1>4. CASE RetainCommit
  <2>a. /\ up /\ flush.pc = "retain" /\ flush'.batch = flush.batch
        /\ flush'.seq = flush.seq /\ flush'.live = {}
        /\ UNCHANGED <<up, mailboxes, saved, flush_seq, next_flush_seq, flushed, fetch, files,
                       write, collected, expired, damaged>>
    BY <1>4 DEF RetainCommit
  <2>b. \A e \in Entries : index'[e] = IF e \in Rows \ flush.live THEN 0 ELSE index[e]
    <3>1. CASE Rows \ flush.live = {}
      BY <1>4, <3>1 DEF RetainCommit
    <3>2. CASE Rows \ flush.live # {}
      <4>1. index' = [e \in Entries |-> IF e \in Rows \ flush.live THEN 0 ELSE index[e]]
        BY <1>4, <3>2 DEF RetainCommit
      <4> QED
        BY <4>1
    <3> QED
      BY <3>1, <3>2
  <2>c. Rows' = Rows \intersect flush.live
    BY <2>b DEF Rows
  <2>d. \/ flush'.pc = "mark"
        \/ flush'.pc = "unlink" /\ flush'.gone = {<<e, index[e]>> : e \in Rows \ flush.live}
    BY <1>4 DEF RetainCommit
  <2>e. Gone' = Gone /\ Unsaved' = Unsaved /\ Acked' = Acked
    BY <2>a DEF Gone, Unsaved, Acked
  <2>f. saved \ Gone \subseteq flush.live /\ flush.batch \subseteq flush.live
    BY <2>a DEF SaveInv
  <2>g. meta' = meta \/ meta'.key_check = "ok"
    <3>1. CASE Rows \ flush.live = {}
      BY <1>4, <3>1 DEF RetainCommit
    <3>2. CASE Rows \ flush.live # {}
      <4>1. PutState(epoch, FALSE, Rows \ (Rows \ flush.live))
        BY <1>4, <3>2 DEF RetainCommit
      <4> QED
        BY <4>1 DEF PutState
    <3> QED
      BY <3>1, <3>2
  <2>1. SaveInv'
    <3>1. flush'.pc = "unlink" => \A r \in flush'.gone : index'[r[1]] = 0
      BY <2>b, <2>d DEF Rows
    <3>2. flush'.batch \ Gone' \subseteq Rows'
      BY <2>a, <2>c, <2>e, <2>f DEF SaveInv
    <3> QED
      BY <2>a, <2>d, <3>1, <3>2 DEF SaveInv
  <2>2. QueueInv'
    <3>1. \A e \in saved \ Gone : e \in Rows'
      BY <2>c, <2>f DEF QueueInv
    <3> QED
      BY <2>a, <2>d, <2>e, <3>1 DEF QueueInv, Waiting
  <2>3. ReadInv'
    <3>1. \A e \in saved \ Gone : index'[e] = index[e]
      BY <2>b, <2>f
    <3> QED
      BY <2>a, <2>e, <3>1 DEF ReadInv
  <2>4. DownInv'
    <3>1. Rows' \subseteq Rows
      BY <2>c
    <3> QED
      BY <2>a, <2>g, <3>1 DEF DownInv, WrongKey
  <2>5. RowsHaveFragments'
    <3>1. \A e \in Rows' : index'[e] = index[e] /\ e \in Rows
      BY <2>b, <2>c DEF Rows
    <3> QED
      BY <2>a, <3>1 DEF RowsHaveFragments, Intact
  <2> QED
    BY <2>1, <2>2, <2>3, <2>4, <2>5
<1>5. CASE RetainUnlink
  <2>1. SaveInv'
    BY <1>5 DEF RetainUnlink, Keep, SaveInv, Gone, Rows, Unsaved, Waiting, Acked, Intact, WrongKey
  <2>2. QueueInv'
    BY <1>5 DEF RetainUnlink, Keep, QueueInv, Gone, Rows, Unsaved, Waiting, Acked, Intact, WrongKey
  <2>3. ReadInv'
    BY <1>5 DEF RetainUnlink, Keep, ReadInv, Gone, Rows, Unsaved, Waiting, Acked, Intact, WrongKey
  <2>4. DownInv'
    BY <1>5 DEF RetainUnlink, Keep, DownInv, Gone, Rows, Unsaved, Waiting, Acked, Intact, WrongKey
  <2>5. RowsHaveFragments'
    <3>1. /\ flush.pc = "unlink" /\ files' = files \ flush.gone
          /\ UNCHANGED <<index, expired, damaged>>
      BY <1>5 DEF RetainUnlink
    <3>2. \A e \in Rows : <<e, index[e]>> \notin flush.gone
      BY <3>1 DEF SaveInv, Rows
    <3> QED
      BY <3>1, <3>2 DEF RowsHaveFragments, Intact, Rows
  <2> QED
    BY <2>1, <2>2, <2>3, <2>4, <2>5
<1>6. CASE MarkSaved
  <2>1. SaveInv'
    BY <1>6 DEF MarkSaved, Keep, SaveInv, Gone, Rows, Unsaved, Waiting, Acked, Intact, WrongKey
  <2>2. QueueInv'
    <3>1. /\ up /\ flush.pc = "mark" /\ saved' = saved \union (flush.batch \intersect mailboxes)
          /\ flush'.pc = "publish" /\ flush'.seq = flush.seq
          /\ UNCHANGED <<up, mailboxes, flush_seq, next_flush_seq, flushed, index, write,
                         collected, expired, damaged>>
      BY <1>6 DEF MarkSaved
    <3>2. Gone' = Gone /\ Rows' = Rows /\ Acked' = Acked
      BY <3>1 DEF Gone, Rows, Acked
    <3>3. flush.batch \ Gone \subseteq Rows
      BY <3>1 DEF SaveInv
    <3>4. \A e \in Unsaved' : e \in Unsaved /\ e \notin flush.batch
      BY <3>1 DEF Unsaved
    <3> QED
      BY <3>1, <3>2, <3>3, <3>4 DEF QueueInv, Waiting
  <2>3. ReadInv'
    BY <1>6 DEF MarkSaved, Keep, ReadInv, Gone, Rows, Unsaved, Waiting, Acked, Intact, WrongKey
  <2>4. DownInv'
    BY <1>6 DEF MarkSaved, Keep, DownInv, Gone, Rows, Unsaved, Waiting, Acked, Intact, WrongKey
  <2>5. RowsHaveFragments'
    BY <1>6 DEF MarkSaved, Keep, RowsHaveFragments, Gone, Rows, Unsaved, Waiting, Acked, Intact, WrongKey
  <2> QED
    BY <2>1, <2>2, <2>3, <2>4, <2>5
<1>7. CASE FlushDone
  <2>1. SaveInv'
    BY <1>7 DEF FlushDone, PublishedSeq, NoFlush, Keep, SaveInv, Gone, Rows, Unsaved, Waiting, Acked, Intact, WrongKey
  <2>2. QueueInv'
    <3>1. /\ up /\ flush.pc = "publish" /\ flushed' = flush.seq /\ flush'.pc = "idle"
          /\ UNCHANGED <<up, mailboxes, saved, flush_seq, next_flush_seq, index, write,
                         collected, expired, damaged>>
      BY <1>7 DEF FlushDone, PublishedSeq, NoFlush
    <3>2. Gone' = Gone /\ Rows' = Rows /\ Acked' = Acked /\ Unsaved' = Unsaved
      BY <3>1 DEF Gone, Rows, Acked, Unsaved
    <3>3. flush.batch = {} /\ flush.seq < next_flush_seq
      BY <3>1 DEF SaveInv
    <3> QED
      BY <3>1, <3>2, <3>3 DEF QueueInv, Waiting
  <2>3. ReadInv'
    BY <1>7 DEF FlushDone, PublishedSeq, NoFlush, Keep, ReadInv, Gone, Rows, Unsaved, Waiting, Acked, Intact, WrongKey
  <2>4. DownInv'
    BY <1>7 DEF FlushDone, PublishedSeq, NoFlush, Keep, DownInv, Gone, Rows, Unsaved, Waiting, Acked, Intact, WrongKey
  <2>5. RowsHaveFragments'
    BY <1>7 DEF FlushDone, PublishedSeq, NoFlush, Keep, RowsHaveFragments, Gone, Rows, Unsaved, Waiting, Acked, Intact, WrongKey
  <2> QED
    BY <2>1, <2>2, <2>3, <2>4, <2>5
<1>8. CASE FlushFails
  <2>1. SaveInv'
    BY <1>8 DEF FlushFails, NoFlush, Keep, SaveInv, Gone, Rows, Unsaved, Waiting, Acked, Intact, WrongKey
  <2>2. QueueInv'
    BY <1>8 DEF FlushFails, NoFlush, Keep, QueueInv, Gone, Rows, Unsaved, Waiting, Acked, Intact, WrongKey
  <2>3. ReadInv'
    BY <1>8 DEF FlushFails, NoFlush, Keep, ReadInv, Gone, Rows, Unsaved, Waiting, Acked, Intact, WrongKey
  <2>4. DownInv'
    BY <1>8 DEF FlushFails, NoFlush, Keep, DownInv, Gone, Rows, Unsaved, Waiting, Acked, Intact, WrongKey
  <2>5. RowsHaveFragments'
    BY <1>8 DEF FlushFails, NoFlush, Keep, RowsHaveFragments, Gone, Rows, Unsaved, Waiting, Acked, Intact, WrongKey
  <2> QED
    BY <2>1, <2>2, <2>3, <2>4, <2>5
<1>9. CASE Sweep
  <2>1. SaveInv'
    BY <1>9 DEF Sweep, Keep, SaveInv, Gone, Rows, Unsaved, Waiting, Acked, Intact, WrongKey
  <2>2. QueueInv'
    BY <1>9 DEF Sweep, Keep, QueueInv, Gone, Rows, Unsaved, Waiting, Acked, Intact, WrongKey
  <2>3. ReadInv'
    <3>1. saved \ Gone' \subseteq saved' /\ Gone \subseteq Gone'
      BY <1>9 DEF Sweep, Keep, QueueInv, Gone, InBox
    <3> QED
      BY <1>9, <3>1, ReadKept DEF Sweep
  <2>4. DownInv'
    BY <1>9 DEF Sweep, Keep, DownInv, Gone, Rows, Unsaved, Waiting, Acked, Intact, WrongKey
  <2>5. RowsHaveFragments'
    BY <1>9 DEF Sweep, Keep, RowsHaveFragments, Gone, Rows, Unsaved, Waiting, Acked, Intact, WrongKey
  <2> QED
    BY <2>1, <2>2, <2>3, <2>4, <2>5
<1> QED
  BY <1>1, <1>2, <1>3, <1>4, <1>5, <1>6, <1>7, <1>8, <1>9 DEF SaveStep

LEMMA KeptProcess == TypeOK /\ Kept /\ ProcessStep => Kept'
<1> SUFFICES ASSUME TypeOK, Kept, ProcessStep PROVE Kept'
  OBVIOUS
<1> USE DEF Kept, TypeOK, FetchState, FlushState, MetaState, queueVars, flushVars, epochVars, diskVars, clientVars, envVars
<1>1. CASE Shutdown
  BY <1>1 DEF Shutdown, Keep, SaveInv, QueueInv, ReadInv, DownInv, RowsHaveFragments, Gone, Rows, Unsaved, Waiting, Acked, Intact, WrongKey
<1>2. CASE MarkCleanRead
  BY <1>2 DEF MarkCleanRead, Keep, SaveInv, QueueInv, ReadInv, DownInv, RowsHaveFragments, Gone, Rows, Unsaved, Waiting, Acked, Intact, WrongKey
<1>3. CASE MarkCleanWrite
  BY <1>3 DEF MarkCleanWrite, PutState, Keep, SaveInv, QueueInv, ReadInv, DownInv, RowsHaveFragments, Gone, Rows, Unsaved, Waiting, Acked, Intact, WrongKey
<1>4. CASE Stop
  <2>1. SaveInv'
    BY <1>4 DEF Stop, NoFlush, NoFetch, Keep, SaveInv, Gone, Rows, Unsaved, Waiting, Acked, Intact, WrongKey
  <2>2. QueueInv'
    BY <1>4 DEF Stop, NoFlush, NoFetch, Keep, QueueInv, Gone, Rows, Unsaved, Waiting, Acked, Intact, WrongKey
  <2>3. ReadInv'
    BY <1>4 DEF Stop, NoFlush, NoFetch, Keep, ReadInv, Gone, Rows, Unsaved, Waiting, Acked, Intact, WrongKey
  <2>4. DownInv'
    BY <1>4 DEF Stop, NoFlush, NoFetch, Keep, DownInv, Gone, Rows, Unsaved, Waiting, Acked, Intact, WrongKey
  <2>5. RowsHaveFragments'
    BY <1>4 DEF Stop, NoFlush, NoFetch, Keep, RowsHaveFragments, Gone, Rows, Unsaved, Waiting, Acked, Intact, WrongKey
  <2> QED
    BY <2>1, <2>2, <2>3, <2>4, <2>5
<1>5. CASE Start
  <2>a. /\ ~up /\ Persistent /\ up' = TRUE /\ mailboxes' = Restorable /\ saved' = Restorable
        /\ files' = files \intersect RestoredFiles
        /\ UNCHANGED <<flush_seq, next_flush_seq, flushed, flush, fetch, write,
                       collected, expired, damaged>>
    BY <1>5 DEF Start
  <2>b. index' = [e \in Entries |-> IF e \in Restorable THEN index[e] ELSE 0]
    BY <1>5 DEF Start
  <2>c. /\ flush = NoFlush /\ fetch = [h \in Handlers |-> NoFetch]
        /\ \A e \in Entries : ~Waiting(e)
    BY <2>a DEF DownInv
  <2>d. Restorable \subseteq Rows
    BY DEF Restorable
  <2>e. Rows' = Restorable
    BY <2>b, <2>d DEF Rows
  <2>f. Gone' = Gone /\ Acked' = Acked
    BY <2>a DEF Gone, Acked
  <2>1. SaveInv'
    BY <1>5 DEF Start, PutState, NoFlush, NoFetch, Restorable, RestoredFiles, Keep, SaveInv, Gone, Rows, Unsaved, Waiting, Acked, Intact, WrongKey
  <2>2. QueueInv'
    <3>1. Acked \ Gone \subseteq Restorable
      <4> SUFFICES ASSUME NEW e \in Acked \ Gone PROVE e \in Restorable
        OBVIOUS
      <4>1. e \in Rows /\ e \notin expired /\ e \notin damaged
        BY <2>a DEF QueueInv, Gone
      <4>2. Intact(e) /\ ~WrongKey
        BY <4>1 DEF RowsHaveFragments, DownInv
      <4> QED
        BY <4>1, <4>2 DEF Restorable
    <3>2. Unsaved' = {}
      BY <2>a DEF Unsaved
    <3> QED
      BY <2>a, <2>c, <2>e, <2>f, <3>1, <3>2 DEF QueueInv, Waiting
  <2>3. ReadInv'
    BY <2>a, <2>c DEF ReadInv, NoFetch
  <2>4. DownInv'
    BY <1>5 DEF Start, PutState, NoFlush, NoFetch, Restorable, RestoredFiles, Keep, DownInv, Gone, Rows, Unsaved, Waiting, Acked, Intact, WrongKey
  <2>5. RowsHaveFragments'
    BY <1>5 DEF Start, PutState, NoFlush, NoFetch, Restorable, RestoredFiles, Keep, RowsHaveFragments, Gone, Rows, Unsaved, Waiting, Acked, Intact, WrongKey
  <2> QED
    BY <2>1, <2>2, <2>3, <2>4, <2>5
<1>6. CASE StartInterrupted
  <2>1. SaveInv'
    BY <1>6 DEF StartInterrupted, Restorable, RestoredFiles, Keep, SaveInv, Gone, Rows, Unsaved, Waiting, Acked, Intact, WrongKey
  <2>2. QueueInv'
    BY <1>6 DEF StartInterrupted, Restorable, RestoredFiles, Keep, QueueInv, Gone, Rows, Unsaved, Waiting, Acked, Intact, WrongKey
  <2>3. ReadInv'
    BY <1>6 DEF StartInterrupted, Restorable, RestoredFiles, Keep, ReadInv, Gone, Rows, Unsaved, Waiting, Acked, Intact, WrongKey
  <2>4. DownInv'
    BY <1>6 DEF StartInterrupted, Restorable, RestoredFiles, Keep, DownInv, Gone, Rows, Unsaved, Waiting, Acked, Intact, WrongKey
  <2>5. RowsHaveFragments'
    <3>1. PICK part \in SUBSET (files \ RestoredFiles) : files' = files \ part
      BY <1>6 DEF StartInterrupted
    <3>2. UNCHANGED <<index, meta, expired, damaged>>
      BY <1>6 DEF StartInterrupted
    <3>3. ASSUME NEW e \in Rows \ (expired \union damaged)
          PROVE  <<e, index[e]>> \in RestoredFiles
      <4>1. Intact(e) /\ ~WrongKey
        BY DEF RowsHaveFragments, DownInv
      <4> QED
        BY <4>1 DEF Restorable, RestoredFiles
    <3> QED
      BY <3>1, <3>2, <3>3 DEF RowsHaveFragments, Intact, Rows
  <2> QED
    BY <2>1, <2>2, <2>3, <2>4, <2>5
<1>7. CASE StartInMemory
  BY <1>7 DEF StartInMemory, NoFlush, NoFetch, Keep, SaveInv, QueueInv, ReadInv, DownInv, RowsHaveFragments, Gone, Rows, Unsaved, Waiting, Acked, Intact, WrongKey
<1> QED
  BY <1>1, <1>2, <1>3, <1>4, <1>5, <1>6, <1>7 DEF ProcessStep

LEMMA KeptWorld == TypeOK /\ Kept /\ WorldStep => Kept'
<1> SUFFICES ASSUME TypeOK, Kept, WorldStep PROVE Kept'
  OBVIOUS
<1> USE DEF Kept, TypeOK, FetchState, FlushState, MetaState, queueVars, flushVars, epochVars, diskVars, clientVars, envVars
<1>1. ASSUME NEW e \in Entries, Expire(e) PROVE Kept'
  <2>1. SaveInv'
    BY <1>1 DEF Expire, Keep, SaveInv, Gone, Rows, Unsaved, Waiting, Acked, Intact, WrongKey
  <2>2. QueueInv'
    BY <1>1 DEF Expire, Keep, QueueInv, Gone, Rows, Unsaved, Waiting, Acked, Intact, WrongKey
  <2>3. ReadInv'
    BY <1>1 DEF Expire, Keep, ReadInv, Gone, Rows, Unsaved, Waiting, Acked, Intact, WrongKey
  <2>4. DownInv'
    BY <1>1 DEF Expire, Keep, DownInv, Gone, Rows, Unsaved, Waiting, Acked, Intact, WrongKey
  <2>5. RowsHaveFragments'
    BY <1>1 DEF Expire, Keep, RowsHaveFragments, Gone, Rows, Unsaved, Waiting, Acked, Intact, WrongKey
  <2> QED
    BY <2>1, <2>2, <2>3, <2>4, <2>5
<1>2. ASSUME NEW e \in Entries, DamageFragments(e) PROVE Kept'
  <2>1. SaveInv'
    BY <1>2 DEF DamageFragments, Fault, Keep, SaveInv, Gone, Rows, Unsaved, Waiting, Acked, Intact, WrongKey
  <2>2. QueueInv'
    BY <1>2 DEF DamageFragments, Fault, Keep, QueueInv, Gone, Rows, Unsaved, Waiting, Acked, Intact, WrongKey
  <2>3. ReadInv'
    BY <1>2 DEF DamageFragments, Fault, Keep, ReadInv, Gone, Rows, Unsaved, Waiting, Acked, Intact, WrongKey
  <2>4. DownInv'
    BY <1>2 DEF DamageFragments, Fault, Keep, DownInv, Gone, Rows, Unsaved, Waiting, Acked, Intact, WrongKey
  <2>5. RowsHaveFragments'
    BY <1>2 DEF DamageFragments, Fault, Keep, RowsHaveFragments, Gone, Rows, Unsaved, Waiting, Acked, Intact, WrongKey
  <2> QED
    BY <2>1, <2>2, <2>3, <2>4, <2>5
<1>3. CASE RemoveRows
  <2>1. SaveInv'
    BY <1>3 DEF RemoveRows, Fault, Keep, SaveInv, Gone, Rows, Unsaved, Waiting, Acked, Intact, WrongKey
  <2>2. QueueInv'
    BY <1>3 DEF RemoveRows, Fault, Keep, QueueInv, Gone, Rows, Unsaved, Waiting, Acked, Intact, WrongKey
  <2>3. ReadInv'
    BY <1>3 DEF RemoveRows, Fault, Keep, ReadInv, Gone, Rows, Unsaved, Waiting, Acked, Intact, WrongKey
  <2>4. DownInv'
    BY <1>3 DEF RemoveRows, Fault, Keep, DownInv, Gone, Rows, Unsaved, Waiting, Acked, Intact, WrongKey
  <2>5. RowsHaveFragments'
    BY <1>3 DEF RemoveRows, Fault, Keep, RowsHaveFragments, Gone, Rows, Unsaved, Waiting, Acked, Intact, WrongKey
  <2> QED
    BY <2>1, <2>2, <2>3, <2>4, <2>5
<1>4. CASE LoseState
  BY <1>4 DEF LoseState, Fault, NoMeta, Keep, SaveInv, QueueInv, ReadInv, DownInv, RowsHaveFragments, Gone, Rows, Unsaved, Waiting, Acked, Intact, WrongKey
<1>5. CASE LoseIndex
  <2>1. SaveInv'
    BY <1>5 DEF LoseIndex, Fault, NoMeta, Keep, SaveInv, Gone, Rows, Unsaved, Waiting, Acked, Intact, WrongKey
  <2>2. QueueInv'
    BY <1>5 DEF LoseIndex, Fault, NoMeta, Keep, QueueInv, Gone, Rows, Unsaved, Waiting, Acked, Intact, WrongKey
  <2>3. ReadInv'
    BY <1>5 DEF LoseIndex, Fault, NoMeta, Keep, ReadInv, Gone, Rows, Unsaved, Waiting, Acked, Intact, WrongKey
  <2>4. DownInv'
    BY <1>5 DEF LoseIndex, Fault, NoMeta, Keep, DownInv, Gone, Rows, Unsaved, Waiting, Acked, Intact, WrongKey
  <2>5. RowsHaveFragments'
    BY <1>5 DEF LoseIndex, Fault, NoMeta, Keep, RowsHaveFragments, Gone, Rows, Unsaved, Waiting, Acked, Intact, WrongKey
  <2> QED
    BY <2>1, <2>2, <2>3, <2>4, <2>5
<1>6. CASE ChangeKey
  <2>1. SaveInv'
    BY <1>6 DEF ChangeKey, Fault, Keep, SaveInv, Gone, Rows, Unsaved, Waiting, Acked, Intact, WrongKey
  <2>2. QueueInv'
    BY <1>6 DEF ChangeKey, Fault, Keep, QueueInv, Gone, Rows, Unsaved, Waiting, Acked, Intact, WrongKey
  <2>3. ReadInv'
    BY <1>6 DEF ChangeKey, Fault, Keep, ReadInv, Gone, Rows, Unsaved, Waiting, Acked, Intact, WrongKey
  <2>4. DownInv'
    BY <1>6 DEF ChangeKey, Fault, Keep, DownInv, Gone, Rows, Unsaved, Waiting, Acked, Intact, WrongKey
  <2>5. RowsHaveFragments'
    BY <1>6 DEF ChangeKey, Fault, Keep, RowsHaveFragments, Gone, Rows, Unsaved, Waiting, Acked, Intact, WrongKey
  <2> QED
    BY <2>1, <2>2, <2>3, <2>4, <2>5
<1> QED
  BY <1>1, <1>2, <1>3, <1>4, <1>5, <1>6 DEF WorldStep

(* The disk stays whole and the queue in step with it, whatever happens.   *)
THEOREM KeptCorrect == Spec => []Kept
<1>1. Init => Kept
  BY DEF Init, Kept, SaveInv, QueueInv, ReadInv, DownInv, RowsHaveFragments, NoFlush, NoFetch,
         NoMeta, Gone, Rows, Unsaved, Waiting, Acked, WrongKey
<1>2. TypeOK /\ Kept /\ [Next]_vars => Kept'
  <2> SUFFICES ASSUME TypeOK, Kept, [Next]_vars PROVE Kept'
    OBVIOUS
  <2>1. CASE UNCHANGED vars
    BY <2>1 DEF vars, queueVars, flushVars, epochVars, diskVars, clientVars, envVars, Kept,
                SaveInv, QueueInv, ReadInv, DownInv, RowsHaveFragments, Gone, Rows, Unsaved,
                Waiting, Acked, Intact, WrongKey
  <2> QED
    BY <2>1, KeptClient, KeptFetch, KeptSave, KeptProcess, KeptWorld DEF Next
<1> QED
  BY <1>1, <1>2, TypeCorrect, PTL DEF Spec

(* An acknowledged write stays on disk, and queued while the relay runs,   *)
(* through every save, timeout, failure, stop and restart, until it is     *)
(* collected, expires, or its stored copy is destroyed from outside.       *)
THEOREM AckedKept == Spec => []AckedIsKept
<1>1. Kept => AckedIsKept
  BY DEF Kept, QueueInv, RowsHaveFragments, AckedIsKept, Gone
<1> QED
  BY <1>1, KeptCorrect, PTL

(* Whatever step the process stops at, no row names a missing Fragment.    *)
THEOREM RowsWhole == Spec => []RowsHaveFragments
<1>1. Kept => RowsHaveFragments
  BY DEF Kept
<1> QED
  BY <1>1, KeptCorrect, PTL

(* An entry a fetch listed and finds no record of was collected or expired *)
(* since, or its copy was destroyed: skipping it hides no mail.            *)
THEOREM ListedStored == Spec => []ListedIsStored
<1>1. Kept => ListedIsStored
  BY DEF Kept, ReadInv, QueueInv, ListedIsStored
<1> QED
  BY <1>1, KeptCorrect, PTL

(* A fetch drops only mail nobody waits for or whose copy was destroyed,   *)
(* for any number of concurrent fetches (ws.rs read_saved_envelopes).      *)
THEOREM DroppedGone == Spec => []LostIsGone
<1>1. Kept => LostIsGone
  BY DEF Kept, ReadInv, LostIsGone
<1> QED
  BY <1>1, KeptCorrect, PTL

-----------------------------------------------------------------------------
(* What a handler holds between its listing and its answer: entries it     *)
(* still has to read, is reading, or could not read.                       *)
Handles(h, e) ==
  \/ e \in fetch[h].todo \union fetch[h].lost
  \/ \E r \in fetch[h].reading : r[1] = e

(* A request nobody has made yet has left no trace.                        *)
UnwrittenInv ==
  \A e \in Entries : write[e] = "new" =>
    /\ e \notin mailboxes \union flush.batch \union Rows
    /\ \A h \in Handlers : ~Handles(h, e)

(* A handler that lists a mailbox starts from what of it is saved.         *)
LEMMA ListStep ==
  ASSUME NEW h \in Handlers, NEW a \in Accounts, NEW b \in Boxes, FetchList(h, a, b)
  PROVE  \E todo, found :
           /\ todo \subseteq mailboxes \intersect saved
           /\ \/ fetch' = fetch
              \/ fetch' = [fetch EXCEPT ![h] =
                   [NoFetch EXCEPT !.pc = "read", !.todo = todo, !.found = found]]
<1> DEFINE listed == {q \in (mailboxes \ (expired \intersect InBox(b))) \intersect InBox(b) :
                        WriterOf[q] # a}
<1>1. listed \intersect saved \subseteq mailboxes \intersect saved
  OBVIOUS
<1>2. \/ fetch' = fetch
      \/ fetch' = [fetch EXCEPT ![h] =
           [NoFetch EXCEPT !.pc = "read", !.todo = listed \intersect saved,
                           !.found = listed \ saved]]
  BY DEF FetchList
<1> QED
  BY <1>1, <1>2

(* A fetch comes to hold only what was queued and saved when it listed.    *)
LEMMA HandlesStep ==
  ASSUME TypeOK, NEW h \in Handlers, FetchStep(h), NEW g \in Handlers, NEW e, Handles(g, e)'
  PROVE  Handles(g, e) \/ (e \in mailboxes /\ e \in saved)
<1> fetch \in [Handlers -> FetchState] /\ fetch[h] \in FetchState /\ fetch[g] \in FetchState
  BY DEF TypeOK
<1>1. ASSUME NEW a \in Accounts, NEW b \in Boxes, FetchList(h, a, b)
      PROVE  Handles(g, e) \/ (e \in mailboxes /\ e \in saved)
  <2>1. PICK todo, found : /\ todo \subseteq mailboxes \intersect saved
                           /\ \/ fetch' = fetch
                              \/ fetch' = [fetch EXCEPT ![h] =
                                   [NoFetch EXCEPT !.pc = "read", !.todo = todo, !.found = found]]
    BY <1>1, ListStep
  <2>2. CASE fetch' = fetch
    BY <2>2 DEF Handles
  <2>3. CASE fetch' = [fetch EXCEPT ![h] =
               [NoFetch EXCEPT !.pc = "read", !.todo = todo, !.found = found]]
    <3>1. g # h => fetch'[g] = fetch[g]
      BY <2>3
    <3>2. fetch'[h].todo = todo /\ fetch'[h].lost = {} /\ fetch'[h].reading = {}
      BY <2>3 DEF NoFetch
    <3> QED
      BY <2>1, <3>1, <3>2 DEF Handles
  <2> QED
    BY <2>1, <2>2, <2>3
<1>2. ASSUME NEW q \in Entries, ReadRecord(h, q) PROVE Handles(g, e)
  <2>1. /\ q \in fetch[h].todo
        /\ g # h => fetch'[g] = fetch[g]
        /\ fetch'[h].todo \subseteq fetch[h].todo /\ fetch'[h].lost = fetch[h].lost
        /\ fetch'[h].reading \subseteq {<<q, index[q]>>}
    BY <1>2 DEF ReadRecord, FetchState
  <2> QED
    BY <2>1 DEF Handles
<1>3. CASE ReadFragments(h)
  <2>1. /\ g # h => fetch'[g] = fetch[g]
        /\ fetch'[h].todo = fetch[h].todo /\ fetch'[h].reading = {}
        /\ fetch'[h].lost \subseteq fetch[h].lost \union {r[1] : r \in fetch[h].reading}
    BY <1>3 DEF ReadFragments, FetchState
  <2> QED
    BY <2>1 DEF Handles
<1>4. CASE Answer(h)
  <2>1. /\ g # h => fetch'[g] = fetch[g]
        /\ fetch'[h].todo = {} /\ fetch'[h].lost = {} /\ fetch'[h].reading = {}
    BY <1>4 DEF Answer, NoFetch
  <2> QED
    BY <2>1 DEF Handles
<1>5. CASE DropLost(h) \/ BumpEpoch(h) \/ PersistEpoch(h)
  <2>1. /\ g # h => fetch'[g] = fetch[g]
        /\ fetch'[h].todo = fetch[h].todo /\ fetch'[h].lost = fetch[h].lost
        /\ fetch'[h].reading = fetch[h].reading
    <3>1. CASE DropLost(h)
      BY <3>1 DEF DropLost, FetchState
    <3>2. CASE BumpEpoch(h)
      BY <3>2 DEF BumpEpoch, FetchState
    <3>3. CASE PersistEpoch(h)
      BY <3>3 DEF PersistEpoch, FetchState
    <3> QED
      BY <1>5, <3>1, <3>2, <3>3
  <2> QED
    BY <2>1 DEF Handles
<1> QED
  BY <1>1, <1>2, <1>3, <1>4, <1>5 DEF FetchStep, FetchAnswered, PersistFails, AnnounceEpoch

(* A client's step answers a write request, has it wait where there is a   *)
(* mail store, or has it wait on unheard.                                  *)
LEMMA ClientWrites ==
  ASSUME TypeOK, ClientStep, NEW e \in Entries
  PROVE  \/ write'[e] = write[e]
         \/ write'[e] \in {"acked", "refused"}
         \/ write'[e] \in {"waiting", "unheard"} /\ (Persistent \/ Waiting(e))
<1> write \in [Entries -> {"new", "waiting", "unheard", "acked", "refused"}]
  BY DEF TypeOK
<1>1. CASE \E a \in Accounts : Connect(a)
  BY <1>1 DEF Connect, Waiting
<1>2. ASSUME NEW c \in Entries, WriteRateLimited(c) \/ WriteRefused(c) \/ WriteTimesOut(c)
      PROVE  write' = [write EXCEPT ![c] = "refused"]
  BY <1>2 DEF WriteRateLimited, WriteRefused, WriteTimesOut
<1>3. ASSUME NEW c \in Entries, WriteQueued(c)
      PROVE  write' = [write EXCEPT ![c] = IF Persistent THEN "waiting" ELSE "acked"]
  BY <1>3 DEF WriteQueued
<1>4. ASSUME NEW c \in Entries, WriteAcked(c)
      PROVE  \E v \in {"acked", "refused"} : write' = [write EXCEPT ![c] = v]
  BY <1>4 DEF WriteAcked
<1>5. ASSUME NEW c \in Entries, Delete(c) PROVE write' = write
  BY <1>5 DEF Delete
<1>6. CASE write' = write \/ \E c \in Entries, v \in {"acked", "refused"} : write' = [write EXCEPT ![c] = v]
  BY <1>6
<1>7. CASE \E c \in Entries : WriteQueued(c)
  BY <1>3, <1>7
<1> QED
  BY <1>1, <1>2, <1>4, <1>5, <1>6, <1>7 DEF ClientStep

(* Only a write request makes a request one that was made.                 *)
LEMMA UnwrittenStep ==
  ASSUME TypeOK, Kept, UnwrittenInv, Next
  PROVE  UnwrittenInv'
<1> USE DEF queueVars, flushVars, epochVars, diskVars, clientVars, envVars
<1> /\ mailboxes \subseteq Entries /\ flush \in FlushState
    /\ fetch \in [Handlers -> FetchState] /\ index \in [Entries -> Nat]
  BY DEF TypeOK
<1>1. CASE ClientStep
  <2>1. \A h \in Handlers : \A e : Handles(h, e)' = Handles(h, e)
    BY <1>1 DEF ClientStep, Connect, WriteRateLimited, WriteRefused, WriteQueued, WriteAcked,
                WriteTimesOut, Delete, Handles
  <2>2. Rows' = Rows /\ flush' = flush
    BY <1>1 DEF ClientStep, Connect, WriteRateLimited, WriteRefused, WriteQueued, WriteAcked,
                WriteTimesOut, Delete, Rows
  <2>3. \A e \in Entries : write'[e] = "new" => write[e] = "new"
    BY <1>1, ClientWrites DEF TypeOK
  <2>4. \A e \in Entries : e \in mailboxes' => e \in mailboxes \/ write'[e] # "new"
    BY <1>1 DEF ClientStep, Connect, WriteRateLimited, WriteRefused, WriteQueued, WriteAcked,
                WriteTimesOut, Delete, TypeOK, Keep, PrunedFor
  <2> QED
    BY <2>1, <2>2, <2>3, <2>4 DEF UnwrittenInv
<1>2. ASSUME NEW h \in Handlers, FetchStep(h) PROVE UnwrittenInv'
  <2>1. Rows' = Rows /\ flush' = flush /\ write' = write /\ mailboxes' \subseteq mailboxes
    BY <1>2 DEF FetchStep, FetchList, ReadRecord, ReadFragments, FetchAnswered, DropLost,
                BumpEpoch, PersistEpoch, PersistFails, AnnounceEpoch, Answer, Keep, Rows
  <2> QED
    BY <1>2, <2>1, HandlesStep DEF UnwrittenInv
<1>3. CASE SaveStep \/ FlushFails \/ Sweep
  <2>1. \A h \in Handlers : \A e : Handles(h, e)' = Handles(h, e)
    BY <1>3 DEF SaveStep, FlushTake, SaveFragments, SaveCommit, RetainCommit, RetainUnlink,
                MarkSaved, FlushDone, FlushFails, Sweep, Handles
  <2>2. write' = write /\ mailboxes' \subseteq mailboxes
    BY <1>3 DEF SaveStep, FlushTake, SaveFragments, SaveCommit, RetainCommit, RetainUnlink,
                MarkSaved, FlushDone, FlushFails, Sweep, Keep
  <2>3. flush'.batch \subseteq flush.batch \union mailboxes
    <3>1. CASE FlushTake
      <4>1. flush'.batch = Live \ saved
        BY <3>1 DEF FlushTake
      <4> QED
        BY <4>1 DEF Live
    <3>2. CASE SaveFragments \/ SaveCommit
      BY <3>2 DEF SaveFragments, SaveCommit, FlushState
    <3>3. CASE RetainCommit \/ RetainUnlink
      BY <3>3 DEF RetainCommit, RetainUnlink, FlushState
    <3>4. CASE MarkSaved
      BY <3>4 DEF MarkSaved, FlushState
    <3>5. CASE flush' = NoFlush \/ flush' = flush
      BY <3>5 DEF NoFlush
    <3> QED
      BY <1>3, <3>1, <3>2, <3>3, <3>4, <3>5 DEF SaveStep, FlushDone, FlushFails, Sweep
  <2>4. Rows' \subseteq Rows \union flush.batch
    <3>1. CASE SaveCommit
      BY <3>1 DEF SaveCommit, Rows
    <3>2. CASE RetainCommit
      BY <3>2 DEF RetainCommit, Rows
    <3>3. CASE UNCHANGED index
      BY <3>3 DEF Rows
    <3> QED
      BY <1>3, <3>1, <3>2, <3>3 DEF SaveStep, FlushTake, SaveFragments, RetainUnlink,
                                    MarkSaved, FlushDone, FlushFails, Sweep
  <2> QED
    BY <2>1, <2>2, <2>3, <2>4 DEF UnwrittenInv
<1>4. CASE ProcessStep
  <2>1. \A h \in Handlers : \A e : Handles(h, e)' => Handles(h, e)
    <3>1. fetch' = fetch \/ fetch' = [h \in Handlers |-> NoFetch]
      BY <1>4 DEF ProcessStep, Shutdown, MarkCleanRead, MarkCleanWrite, Stop, Start,
                  StartInterrupted, StartInMemory
    <3> QED
      BY <3>1 DEF Handles, NoFetch
  <2>2. \A e \in Entries : write'[e] = "new" => write[e] = "new"
    BY <1>4 DEF ProcessStep, Shutdown, MarkCleanRead, MarkCleanWrite, Stop, Start,
                StartInterrupted, StartInMemory
  <2>3. Rows' \subseteq Rows /\ mailboxes' \subseteq mailboxes \union Rows
    <3>1. CASE Start
      <4>1. Restorable \subseteq Rows
        BY DEF Restorable
      <4>2. Rows' \subseteq Restorable /\ mailboxes' = Restorable
        BY <3>1 DEF Start, Rows
      <4> QED
        BY <4>1, <4>2
    <3>2. CASE UNCHANGED index /\ mailboxes' \subseteq mailboxes
      BY <3>2 DEF Rows
    <3> QED
      BY <1>4, <3>1, <3>2 DEF ProcessStep, Shutdown, MarkCleanRead, MarkCleanWrite, Stop,
                              StartInterrupted, StartInMemory
  <2>4. flush'.batch \subseteq flush.batch
    <3>1. flush' = flush \/ flush' = NoFlush
      BY <1>4 DEF ProcessStep, Shutdown, MarkCleanRead, MarkCleanWrite, Stop, Start,
                  StartInterrupted, StartInMemory
    <3> QED
      BY <3>1 DEF NoFlush
  <2> QED
    BY <2>1, <2>2, <2>3, <2>4 DEF UnwrittenInv
<1>5. CASE WorldStep
  <2>1. UNCHANGED <<fetch, flush, mailboxes, write>>
    BY <1>5 DEF WorldStep, Expire, DamageFragments, RemoveRows, LoseState, LoseIndex, ChangeKey
  <2>2. Rows' \subseteq Rows
    BY <1>5 DEF WorldStep, Expire, DamageFragments, RemoveRows, LoseState, LoseIndex, ChangeKey,
                Rows
  <2> QED
    BY <2>1, <2>2 DEF UnwrittenInv, Handles
<1> QED
  BY <1>1, <1>2, <1>3, <1>4, <1>5 DEF Next

LEMMA UnwrittenCorrect == Spec => []UnwrittenInv
<1>1. Init => UnwrittenInv
  BY DEF Init, UnwrittenInv, Handles, NoFetch, NoFlush, Rows
<1>2. TypeOK /\ Kept /\ UnwrittenInv /\ [Next]_vars => UnwrittenInv'
  <2>1. UnwrittenInv /\ UNCHANGED vars => UnwrittenInv'
    BY DEF vars, queueVars, flushVars, epochVars, diskVars, clientVars, envVars, UnwrittenInv,
           Handles, Rows
  <2> QED
    BY <2>1, UnwrittenStep
<1> QED
  BY <1>1, <1>2, TypeCorrect, KeptCorrect, PTL DEF Spec


-----------------------------------------------------------------------------
(* Mail its recipient has deleted, or that was due to go.                  *)
Settled == collected \union expired

(* While the relay runs nothing but a save touches the rows, so here what  *)
(* the disk owes the queue holds of destroyed copies, too: their rows are  *)
(* still there.                                                            *)
HeldInv ==
  \A h \in Handlers, e \in Entries : Handles(h, e) /\ e \in mailboxes => e \in saved
RowsInv ==
  /\ saved \ Settled \subseteq Rows
  /\ flush.pc \in {"save", "commit", "retain"} => saved \ Settled \subseteq flush.live
  /\ flush.pc \in {"retain", "unlink", "mark"} => flush.batch \subseteq Rows
DueInv ==
  \A e \in Unsaved \ Settled :
    /\ flushed < flush_seq[e]
    /\ flush.pc # "idle" => e \in flush.batch \/ flush.seq < flush_seq[e]
AckInv == Persistent /\ up => (Acked \intersect mailboxes) \ Settled \subseteq saved
StoredInv == HeldInv /\ RowsInv /\ DueInv /\ AckInv

(* A step that takes nothing unsettled out of `saved`, and saves nothing   *)
(* and queues nothing new, disturbs none of it.                            *)
LEMMA StoredKept ==
  ASSUME StoredInv,
         UNCHANGED <<up, index, flush, flushed, flush_seq>>,
         mailboxes' \subseteq mailboxes, saved' = saved \intersect mailboxes',
         Settled \subseteq Settled', Acked' \subseteq Acked,
         \A h \in Handlers, e \in Entries :
           Handles(h, e)' => Handles(h, e) \/ (e \in mailboxes /\ e \in saved)
  PROVE  StoredInv'
<1>1. HeldInv'
  BY DEF StoredInv, HeldInv
<1>2. RowsInv'
  BY DEF StoredInv, RowsInv, Rows
<1>3. DueInv'
  BY DEF StoredInv, DueInv, Unsaved
<1>4. AckInv'
  BY DEF StoredInv, AckInv
<1> QED
  BY <1>1, <1>2, <1>3, <1>4 DEF StoredInv

LEMMA StoredClient ==
  ASSUME TypeOK, Kept, UnwrittenInv, StoredInv, ClientStep
  PROVE  StoredInv'
<1> USE DEF queueVars, flushVars, epochVars, diskVars, clientVars, envVars
<1> mailboxes \subseteq Entries /\ saved \subseteq mailboxes
  BY DEF TypeOK, Kept, QueueInv
<1>1. \A h \in Handlers, e \in Entries : Handles(h, e)' = Handles(h, e)
  BY DEF ClientStep, Connect, WriteRateLimited, WriteRefused, WriteQueued, WriteAcked,
         WriteTimesOut, Delete, Handles
<1>2. ASSUME NEW a \in Accounts, Connect(a) PROVE StoredInv'
  <2>1. Acked' = Acked
    BY <1>2 DEF Connect, Acked
  <2> QED
    BY <1>1, <1>2, <2>1, StoredKept DEF Connect, Settled
<1>3. ASSUME NEW e \in Entries, WriteRateLimited(e) PROVE StoredInv'
  <2>1. Acked' \subseteq Acked
    BY <1>3 DEF WriteRateLimited, Acked, TypeOK
  <2> QED
    BY <1>1, <1>3, <2>1, StoredKept DEF WriteRateLimited, Settled
<1>4. ASSUME NEW e \in Entries, WriteRefused(e) PROVE StoredInv'
  <2>1. Acked' \subseteq Acked
    BY <1>4 DEF WriteRefused, Acked, TypeOK
  <2> QED
    BY <1>1, <1>4, <2>1, StoredKept DEF WriteRefused, Keep, PrunedFor, Settled
<1>5. ASSUME NEW e \in Entries, WriteQueued(e) PROVE StoredInv'
  <2>1. /\ write[e] = "new" /\ mailboxes' = PrunedFor(e) \union {e}
        /\ saved' = saved \intersect (PrunedFor(e) \union {e})
        /\ flush_seq' = [flush_seq EXCEPT ![e] = next_flush_seq]
        /\ UNCHANGED <<up, index, flush, flushed, collected, expired>>
    BY <1>5 DEF WriteQueued, WriteRequest, Keep
  <2>2. PrunedFor(e) \subseteq mailboxes /\ mailboxes \ PrunedFor(e) \subseteq Settled
    BY DEF PrunedFor, Settled
  <2>3. e \notin mailboxes /\ (\A h \in Handlers : ~Handles(h, e))
    BY <2>1 DEF UnwrittenInv
  <2>4. Settled' = Settled /\ Rows' = Rows
    BY <2>1 DEF Settled, Rows
  <2>5. HeldInv'
    BY <1>1, <2>1, <2>2, <2>3 DEF StoredInv, HeldInv
  <2>6. RowsInv'
    BY <2>1, <2>4 DEF StoredInv, RowsInv
  <2>7. DueInv'
    <3> SUFFICES ASSUME NEW q \in Unsaved' \ Settled
                 PROVE  /\ flushed < flush_seq'[q]
                        /\ flush.pc # "idle" => q \in flush.batch \/ flush.seq < flush_seq'[q]
      BY <2>1, <2>4 DEF DueInv
    <3>1. CASE q = e
      BY <2>1, <3>1 DEF Kept, SaveInv, QueueInv, TypeOK
    <3>2. CASE q # e
      <4>1. q \in Unsaved \ Settled
        BY <2>1, <2>2, <3>2 DEF Unsaved
      <4> QED
        BY <2>1, <3>2, <4>1 DEF StoredInv, DueInv, TypeOK
    <3> QED
      BY <3>1, <3>2
  <2>8. AckInv'
    <3>1. Persistent => Acked' \subseteq Acked
      BY <1>5 DEF WriteQueued, Acked, TypeOK
    <3>2. Acked \subseteq Entries \ {e}
      BY <2>1 DEF Acked
    <3> QED
      BY <2>1, <2>2, <2>4, <3>1, <3>2 DEF StoredInv, AckInv
  <2> QED
    BY <2>5, <2>6, <2>7, <2>8 DEF StoredInv
<1>6. ASSUME NEW e \in Entries, WriteAcked(e) PROVE StoredInv'
  <2>1. /\ up /\ flushed >= flush_seq[e]
        /\ UNCHANGED <<up, queueVars, index, flush, flushed, fetch, collected, expired>>
    BY <1>6 DEF WriteAcked
  <2>2. flushed \in Nat /\ flush_seq[e] \in Nat
    BY DEF TypeOK
  <2>3. e \notin Unsaved \ Settled
    BY <2>1, <2>2 DEF StoredInv, DueInv
  <2>4. Acked' \subseteq Acked \union {e}
    BY <1>6 DEF WriteAcked, Acked, TypeOK
  <2>5. Settled' = Settled /\ Rows' = Rows /\ Unsaved' = Unsaved
    BY <2>1 DEF Settled, Rows, Unsaved
  <2>6. HeldInv'
    BY <1>1, <2>1 DEF StoredInv, HeldInv
  <2>7. RowsInv' /\ DueInv'
    BY <2>1, <2>5 DEF StoredInv, RowsInv, DueInv
  <2>8. AckInv'
    BY <2>1, <2>3, <2>4, <2>5 DEF StoredInv, AckInv, Unsaved
  <2> QED
    BY <2>6, <2>7, <2>8 DEF StoredInv
<1>7. ASSUME NEW e \in Entries, WriteTimesOut(e) PROVE StoredInv'
  <2>1. Acked' \subseteq Acked
    BY <1>7 DEF WriteTimesOut, Acked, TypeOK
  <2> QED
    BY <1>1, <1>7, <2>1, StoredKept DEF WriteTimesOut, Keep, Settled
<1>8. ASSUME NEW e \in Entries, Delete(e) PROVE StoredInv'
  BY <1>1, <1>8, StoredKept DEF Delete, Keep, Settled, Acked
<1> QED
  BY <1>2, <1>3, <1>4, <1>5, <1>6, <1>7, <1>8 DEF ClientStep

LEMMA StoredFetch ==
  ASSUME TypeOK, Kept, StoredInv, NEW h \in Handlers, FetchStep(h)
  PROVE  StoredInv'
<1> saved \subseteq mailboxes
  BY DEF Kept, QueueInv
<1>1. UNCHANGED <<up, index, flush, flushed, flush_seq, write, collected, expired>>
  BY DEF FetchStep, FetchList, ReadRecord, ReadFragments, FetchAnswered, DropLost, BumpEpoch,
         PersistEpoch, PersistFails, AnnounceEpoch, Answer, queueVars, flushVars, diskVars,
         envVars, clientVars
<1>2. mailboxes' \subseteq mailboxes /\ saved' = saved \intersect mailboxes'
  BY DEF FetchStep, FetchList, ReadRecord, ReadFragments, FetchAnswered, DropLost, BumpEpoch,
         PersistEpoch, PersistFails, AnnounceEpoch, Keep, queueVars
<1> QED
  BY <1>1, <1>2, HandlesStep, StoredKept DEF Settled, Acked

LEMMA StoredSave ==
  ASSUME TypeOK, Kept, StoredInv, SaveStep \/ FlushFails \/ Sweep
  PROVE  StoredInv'
<1> USE DEF queueVars, flushVars, epochVars, diskVars, clientVars, envVars
<1> mailboxes \subseteq Entries /\ saved \subseteq mailboxes /\ flush \in FlushState
  BY DEF TypeOK, Kept, QueueInv
<1>1. Settled' = Settled /\ Acked' = Acked /\ up' = up
  BY DEF SaveStep, FlushTake, SaveFragments, SaveCommit, RetainCommit, RetainUnlink, MarkSaved,
         FlushDone, FlushFails, Sweep, Settled, Acked
<1>2. \A g \in Handlers, e \in Entries : Handles(g, e)' = Handles(g, e)
  BY DEF SaveStep, FlushTake, SaveFragments, SaveCommit, RetainCommit, RetainUnlink, MarkSaved,
         FlushDone, FlushFails, Sweep, Handles
<1>3. CASE Sweep
  BY <1>1, <1>2, <1>3, StoredKept DEF Sweep, Keep
<1>4. CASE MarkSaved
  <2>1. /\ flush.pc = "mark" /\ saved' = saved \union (flush.batch \intersect mailboxes)
        /\ flush'.pc = "publish" /\ flush'.seq = flush.seq
        /\ UNCHANGED <<mailboxes, flush_seq, flushed, index>>
    BY <1>4 DEF MarkSaved, FlushState
  <2>2. HeldInv' /\ AckInv'
    BY <1>1, <1>2, <2>1 DEF StoredInv, HeldInv, AckInv
  <2>3. RowsInv'
    BY <1>1, <2>1 DEF StoredInv, RowsInv, Rows
  <2>4. DueInv'
    <3>1. \A e \in Unsaved' : e \in Unsaved /\ e \notin flush.batch
      BY <2>1 DEF Unsaved
    <3> QED
      BY <1>1, <2>1, <3>1 DEF StoredInv, DueInv
  <2> QED
    BY <2>2, <2>3, <2>4 DEF StoredInv
<1>5. ASSUME UNCHANGED queueVars
      PROVE  /\ HeldInv' /\ AckInv'
             /\ Unsaved' = Unsaved
  BY <1>1, <1>2, <1>5 DEF StoredInv, HeldInv, AckInv, Unsaved
<1>6. CASE FlushTake
  <2>1. /\ UNCHANGED <<queueVars, flushed, index>>
        /\ flush'.pc = "save" /\ flush'.live = Live /\ flush'.batch = Live \ saved
    BY <1>6 DEF FlushTake
  <2>2. mailboxes \ Settled \subseteq Live
    BY DEF Live, Settled
  <2>3. RowsInv'
    BY <1>1, <2>1, <2>2 DEF StoredInv, RowsInv, Rows
  <2>4. DueInv'
    BY <1>1, <1>5, <2>1, <2>2 DEF StoredInv, DueInv, Unsaved
  <2> QED
    BY <1>5, <2>1, <2>3, <2>4 DEF StoredInv
<1>7. CASE SaveFragments
  <2>1. /\ UNCHANGED <<queueVars, flushed, index>> /\ flush.pc = "save"
        /\ flush'.pc = IF flush.batch = {} THEN "retain" ELSE "commit"
        /\ flush'.batch = flush.batch /\ flush'.live = flush.live /\ flush'.seq = flush.seq
    BY <1>7 DEF SaveFragments, FlushState
  <2>2. RowsInv'
    BY <1>1, <2>1 DEF StoredInv, RowsInv, Rows
  <2>3. DueInv'
    BY <1>1, <1>5, <2>1 DEF StoredInv, DueInv
  <2> QED
    BY <1>5, <2>1, <2>2, <2>3 DEF StoredInv
<1>8. CASE SaveCommit
  <2>1. /\ UNCHANGED <<queueVars, flushed>> /\ flush.pc = "commit" /\ flush'.pc = "retain"
        /\ flush'.batch = flush.batch /\ flush'.live = flush.live /\ flush'.seq = flush.seq
    BY <1>8 DEF SaveCommit, FlushState
  <2>2. Rows' = Rows \union flush.batch
    <3>1. index' = [e \in Entries |-> IF e \in flush.batch THEN flush.seq ELSE index[e]]
      BY <1>8 DEF SaveCommit
    <3>2. flush.seq # 0 /\ flush.batch \subseteq Entries
      BY <2>1 DEF Kept, SaveInv, FlushState
    <3> QED
      BY <3>1, <3>2 DEF Rows
  <2>3. RowsInv'
    BY <1>1, <2>1, <2>2 DEF StoredInv, RowsInv
  <2>4. DueInv'
    BY <1>1, <1>5, <2>1 DEF StoredInv, DueInv
  <2> QED
    BY <1>5, <2>1, <2>3, <2>4 DEF StoredInv
<1>9. CASE RetainCommit
  <2>1. /\ UNCHANGED <<queueVars, flushed>> /\ flush.pc = "retain"
        /\ flush'.pc \in {"mark", "unlink"}
        /\ flush'.batch = flush.batch /\ flush'.seq = flush.seq
    BY <1>9 DEF RetainCommit, FlushState
  <2>2. Rows \intersect flush.live \subseteq Rows'
    BY <1>9 DEF RetainCommit, Rows
  <2>3. flush.batch \subseteq flush.live
    BY <2>1 DEF Kept, SaveInv
  <2>4. RowsInv'
    BY <1>1, <2>1, <2>2, <2>3 DEF StoredInv, RowsInv
  <2>5. DueInv'
    BY <1>1, <1>5, <2>1 DEF StoredInv, DueInv
  <2> QED
    BY <1>5, <2>1, <2>4, <2>5 DEF StoredInv
<1>10. CASE RetainUnlink
  <2>1. /\ UNCHANGED <<queueVars, flushed, index>> /\ flush.pc = "unlink" /\ flush'.pc = "mark"
        /\ flush'.batch = flush.batch /\ flush'.seq = flush.seq
    BY <1>10 DEF RetainUnlink, FlushState
  <2>2. RowsInv'
    BY <1>1, <2>1 DEF StoredInv, RowsInv, Rows
  <2>3. DueInv'
    BY <1>1, <1>5, <2>1 DEF StoredInv, DueInv
  <2> QED
    BY <1>5, <2>1, <2>2, <2>3 DEF StoredInv
<1>11. CASE FlushDone
  <2>1. /\ UNCHANGED <<queueVars, index>> /\ flush.pc = "publish" /\ flushed' = flush.seq
        /\ flush'.pc = "idle"
    BY <1>11 DEF FlushDone, PublishedSeq, NoFlush
  <2>2. flush.batch = {}
    BY <2>1 DEF Kept, SaveInv
  <2>3. RowsInv'
    BY <1>1, <2>1 DEF StoredInv, RowsInv, Rows
  <2>4. DueInv'
    BY <1>1, <1>5, <2>1, <2>2 DEF StoredInv, DueInv
  <2> QED
    BY <1>5, <2>1, <2>3, <2>4 DEF StoredInv
<1>12. CASE FlushFails
  <2>1. UNCHANGED <<queueVars, index, flushed>> /\ flush'.pc = "idle"
    BY <1>12 DEF FlushFails, NoFlush
  <2>2. RowsInv'
    BY <1>1, <2>1 DEF StoredInv, RowsInv, Rows
  <2>3. DueInv'
    BY <1>1, <1>5, <2>1 DEF StoredInv, DueInv
  <2> QED
    BY <1>5, <2>1, <2>2, <2>3 DEF StoredInv
<1> QED
  BY <1>3, <1>4, <1>6, <1>7, <1>8, <1>9, <1>10, <1>11, <1>12 DEF SaveStep

LEMMA StoredProcess ==
  ASSUME TypeOK, Kept, StoredInv, ProcessStep
  PROVE  StoredInv'
<1> USE DEF queueVars, flushVars, epochVars, diskVars, clientVars, envVars
<1>1. CASE Stop
  <2>1. mailboxes' = {} /\ saved' = {} /\ flush' = NoFlush
    BY <1>1 DEF Stop
  <2> QED
    BY <2>1 DEF StoredInv, HeldInv, RowsInv, DueInv, AckInv, Unsaved, NoFlush
<1>2. CASE Start
  <2>1. /\ mailboxes' = Restorable /\ saved' = Restorable /\ flush' = flush
        /\ index' = [e \in Entries |-> IF e \in Restorable THEN index[e] ELSE 0]
    BY <1>2 DEF Start
  <2>2. flush.pc = "idle"
    BY <1>2 DEF Start, Kept, DownInv, NoFlush
  <2>3. Restorable \subseteq Rows
    BY DEF Restorable
  <2>4. Rows' = Restorable
    BY <2>1, <2>3 DEF Rows
  <2> QED
    BY <2>1, <2>2, <2>4 DEF StoredInv, HeldInv, RowsInv, DueInv, AckInv, Unsaved
<1>3. CASE StartInMemory
  <2>1. /\ ~Persistent /\ UNCHANGED <<mailboxes, saved, flush, index, flush_seq, flushed, fetch,
                                      collected, expired>>
    BY <1>3 DEF StartInMemory
  <2> QED
    BY <2>1 DEF StoredInv, HeldInv, RowsInv, DueInv, AckInv, Unsaved, Handles, Rows, Settled
<1>4. CASE Shutdown \/ MarkCleanRead \/ MarkCleanWrite \/ StartInterrupted
  <2>1. UNCHANGED <<up, mailboxes, saved, flush, index, flush_seq, flushed, fetch, write,
                    collected, expired>>
    BY <1>4 DEF Shutdown, MarkCleanRead, MarkCleanWrite, StartInterrupted
  <2> QED
    BY <2>1 DEF StoredInv, HeldInv, RowsInv, DueInv, AckInv, Unsaved, Handles, Rows, Settled, Acked
<1> QED
  BY <1>1, <1>2, <1>3, <1>4 DEF ProcessStep

LEMMA StoredWorld ==
  ASSUME TypeOK, Kept, StoredInv, WorldStep
  PROVE  StoredInv'
<1> USE DEF queueVars, flushVars, epochVars, diskVars, clientVars, envVars
<1>1. UNCHANGED <<up, mailboxes, saved, flush, flush_seq, flushed, fetch, write, collected>>
  BY DEF WorldStep, Expire, DamageFragments, RemoveRows, LoseState, LoseIndex, ChangeKey
<1>2. expired \subseteq expired'
  BY DEF WorldStep, Expire, DamageFragments, RemoveRows, LoseState, LoseIndex, ChangeKey
<1>3. index' = index \/ ~up
  BY DEF WorldStep, Expire, DamageFragments, RemoveRows, LoseState, LoseIndex, ChangeKey
<1>4. Settled \subseteq Settled' /\ Acked' = Acked /\ Unsaved' = Unsaved
  BY <1>1, <1>2 DEF Settled, Acked, Unsaved
<1>5. ~up => saved = {} /\ flush.pc = "idle"
  BY DEF Kept, QueueInv, DownInv, NoFlush
<1>6. HeldInv' /\ DueInv' /\ AckInv'
  BY <1>1, <1>4 DEF StoredInv, HeldInv, DueInv, AckInv, Handles
<1>7. RowsInv'
  BY <1>1, <1>3, <1>4, <1>5 DEF StoredInv, RowsInv, Rows
<1> QED
  BY <1>6, <1>7 DEF StoredInv

LEMMA StoredCorrect == Spec => []StoredInv
<1>1. Init => StoredInv
  BY DEF Init, StoredInv, HeldInv, RowsInv, DueInv, AckInv, Unsaved, NoFlush, NoFetch
<1>2. TypeOK /\ Kept /\ UnwrittenInv /\ StoredInv /\ [Next]_vars => StoredInv'
  <2>1. StoredInv /\ UNCHANGED vars => StoredInv'
    BY DEF vars, queueVars, flushVars, epochVars, diskVars, clientVars, envVars, StoredInv,
           HeldInv, RowsInv, DueInv, AckInv, Unsaved, Handles, Rows, Settled, Acked
  <2> QED
    BY <2>1, StoredClient, StoredFetch, StoredSave, StoredProcess, StoredWorld DEF Next
<1> QED
  BY <1>1, <1>2, TypeCorrect, KeptCorrect, UnwrittenCorrect, PTL DEF Spec


-----------------------------------------------------------------------------
(* Without a mail store nothing is ever saved, read back, written down or  *)
(* waited for.                                                             *)
MemoryOnly ==
  /\ ~stale_write /\ ~meta.sealed /\ saved = {}
  /\ flush.pc = "idle" /\ stopping.pc \in {"no", "done"}
  /\ \A h \in Handlers : fetch[h].pc = "idle"
  /\ \A e \in Entries : ~Waiting(e)
MemoryInv == ~Persistent => MemoryOnly

LEMMA MemoryStep ==
  ASSUME TypeOK, Kept, MemoryInv, Next
  PROVE  MemoryInv'
<1> SUFFICES ASSUME ~Persistent PROVE MemoryOnly'
  BY DEF MemoryInv
<1> USE DEF queueVars, flushVars, epochVars, diskVars, clientVars, envVars
<1>0. MemoryOnly
  BY DEF MemoryInv
<1>1. CASE ClientStep
  <2>1. UNCHANGED <<stale_write, meta, flush, stopping, fetch>>
    BY <1>1 DEF ClientStep, Connect, WriteRateLimited, WriteRefused, WriteQueued, WriteAcked,
                WriteTimesOut, Delete
  <2>2. saved' \subseteq saved
    BY <1>1 DEF ClientStep, Connect, WriteRateLimited, WriteRefused, WriteQueued, WriteAcked,
                WriteTimesOut, Delete, Keep
  <2>3. \A e \in Entries : Waiting(e)' => Waiting(e)
    BY <1>1, ClientWrites DEF Waiting, TypeOK
  <2> QED
    BY <1>0, <2>1, <2>2, <2>3 DEF MemoryOnly
<1>2. ASSUME NEW h \in Handlers, FetchStep(h) PROVE MemoryOnly'
  <2>1. PICK a \in Accounts, b \in Boxes : FetchList(h, a, b)
    BY <1>0, <1>2 DEF MemoryOnly, FetchStep, ReadRecord, ReadFragments, FetchAnswered, DropLost,
                      BumpEpoch, PersistEpoch, PersistFails, AnnounceEpoch
  <2>2. saved' \subseteq saved /\ UNCHANGED <<stale_write, meta, flush, stopping, write>>
    BY <2>1 DEF FetchList, Keep
  <2>3. fetch' = fetch
    BY <1>0, <2>1 DEF FetchList, MemoryOnly
  <2> QED
    BY <1>0, <2>2, <2>3 DEF MemoryOnly, Waiting
<1>3. CASE SaveStep \/ FlushFails \/ Sweep
  <2>1. Sweep
    BY <1>0, <1>3 DEF MemoryOnly, SaveStep, FlushTake, SaveFragments, SaveCommit, RetainCommit,
                      RetainUnlink, MarkSaved, FlushDone, FlushFails
  <2>2. saved' \subseteq saved /\ UNCHANGED <<stale_write, meta, flush, stopping, write, fetch>>
    BY <2>1 DEF Sweep, Keep
  <2> QED
    BY <1>0, <2>2 DEF MemoryOnly, Waiting
<1>4. CASE ProcessStep
  <2>1. CASE Stop
    BY <1>0, <2>1 DEF MemoryOnly, Stop, NoFlush, NoFetch, NotStopping, Waiting, TypeOK
  <2>2. CASE Shutdown
    <3>1. stopping'.pc = "done" /\ UNCHANGED <<stale_write, meta, flush, saved, write, fetch>>
      BY <2>2 DEF Shutdown, TypeOK
    <3> QED
      BY <1>0, <3>1 DEF MemoryOnly, Waiting
  <2>3. CASE StartInMemory
    BY <1>0, <2>3 DEF MemoryOnly, StartInMemory, Waiting
  <2> QED
    BY <1>0, <1>4, <2>1, <2>2, <2>3 DEF MemoryOnly, ProcessStep, MarkCleanRead, MarkCleanWrite,
                                        Start, StartInterrupted
<1>5. CASE WorldStep
  <2>1. UNCHANGED <<stale_write, flush, saved, stopping, write, fetch>>
    BY <1>5 DEF WorldStep, Expire, DamageFragments, RemoveRows, LoseState, LoseIndex, ChangeKey
  <2>2. meta'.sealed => meta.sealed
    BY <1>5 DEF WorldStep, Expire, DamageFragments, RemoveRows, LoseState, LoseIndex, ChangeKey,
                NoMeta, TypeOK, MetaState
  <2> QED
    BY <1>0, <2>1, <2>2 DEF MemoryOnly, Waiting
<1> QED
  BY <1>1, <1>2, <1>3, <1>4, <1>5 DEF Next

LEMMA MemoryCorrect == Spec => []MemoryInv
<1>1. Init => MemoryInv
  BY DEF Init, MemoryInv, MemoryOnly, NoMeta, NoFlush, NoFetch, NotStopping, Waiting
<1>2. TypeOK /\ Kept /\ MemoryInv /\ [Next]_vars => MemoryInv'
  <2>1. MemoryInv /\ UNCHANGED vars => MemoryInv'
    BY DEF vars, queueVars, flushVars, epochVars, diskVars, clientVars, envVars, MemoryInv,
           MemoryOnly, Waiting
  <2> QED
    BY <2>1, MemoryStep
<1> QED
  BY <1>1, <1>2, TypeCorrect, KeptCorrect, PTL DEF Spec

-----------------------------------------------------------------------------
(* An epoch a task of this process has read is of the store it runs on,    *)
(* and has at most been counted up since.                                  *)
Reached(ep) == ep.store_id = epoch.store_id /\ ep.number <= epoch.number

ReadEpochs ==
  /\ ~up => stopping.pc = "no"
  /\ stopping.pc = "write" => Reached(stopping.epoch)
  /\ \A h \in Handlers : fetch[h].pc \in {"persist", "announce"} => Reached(fetch[h].epoch)

LEMMA ReadEpochsStep ==
  ASSUME TypeOK, Kept, ReadEpochs, Next
  PROVE  ReadEpochs'
<1> USE DEF queueVars, flushVars, epochVars, diskVars, clientVars, envVars
<1> /\ epoch \in Epoch /\ fetch \in [Handlers -> FetchState]
    /\ stopping \in [pc : {"no", "flush", "mark", "write", "done"}, epoch : Epoch]
  BY DEF TypeOK
<1>1. CASE ClientStep \/ WorldStep
  <2>1. UNCHANGED <<up, stopping, epoch, fetch>>
    BY <1>1 DEF ClientStep, Connect, WriteRateLimited, WriteRefused, WriteQueued, WriteAcked,
                WriteTimesOut, Delete, WorldStep, Expire, DamageFragments, RemoveRows, LoseState,
                LoseIndex, ChangeKey
  <2> QED
    BY <2>1 DEF ReadEpochs, Reached
<1>2. ASSUME NEW h \in Handlers, FetchStep(h) PROVE ReadEpochs'
  <2>1. UNCHANGED <<up, stopping>>
    BY <1>2 DEF FetchStep, FetchList, ReadRecord, ReadFragments, FetchAnswered, DropLost,
                BumpEpoch, PersistEpoch, PersistFails, AnnounceEpoch
  <2>2. CASE BumpEpoch(h)
    <3>1. /\ epoch'.store_id = epoch.store_id /\ epoch'.number = epoch.number + 1
          /\ fetch'[h].epoch = epoch' /\ (\A g \in Handlers \ {h} : fetch'[g] = fetch[g])
      BY <2>2 DEF BumpEpoch, Epoch, FetchState
    <3>2. ASSUME NEW ep \in Epoch, Reached(ep) PROVE Reached(ep)'
      BY <3>1, <3>2 DEF Reached, Epoch
    <3>3. Reached(epoch)'
      BY <3>1 DEF Reached, Epoch
    <3>4. \A g \in Handlers : fetch[g].epoch \in Epoch
      BY DEF FetchState
    <3>5. stopping'.pc = "write" => Reached(stopping.epoch)'
      BY <2>1, <3>2 DEF ReadEpochs
    <3>6. \A g \in Handlers \ {h} : fetch'[g].pc \in {"persist", "announce"} => Reached(fetch[g].epoch)'
      BY <3>1, <3>2, <3>4 DEF ReadEpochs
    <3>7. Reached(fetch[h].epoch)'
      BY <3>1, <3>3 DEF Reached, Epoch
    <3> QED
      BY <2>1, <3>1, <3>5, <3>6, <3>7 DEF ReadEpochs, Reached
  <2>3. CASE ~BumpEpoch(h)
    <3>1. epoch' = epoch
      BY <1>2, <2>3 DEF FetchStep, FetchList, ReadRecord, ReadFragments, FetchAnswered, DropLost,
                        PersistEpoch, PersistFails, AnnounceEpoch
    <3>2. ASSUME NEW g \in Handlers, fetch'[g].pc \in {"persist", "announce"}
          PROVE  fetch[g].pc \in {"persist", "announce"} /\ fetch'[g].epoch = fetch[g].epoch
      <4>1. ASSUME NEW a \in Accounts, NEW b \in Boxes, FetchList(h, a, b)
            PROVE  fetch'[g] = fetch[g]
        <5>1. PICK todo, found :
                \/ fetch' = fetch
                \/ fetch' = [fetch EXCEPT ![h] =
                     [NoFetch EXCEPT !.pc = "read", !.todo = todo, !.found = found]]
          BY <4>1, ListStep
        <5> QED
          BY <3>2, <5>1 DEF NoFetch
      <4>2. ASSUME NEW e \in Entries, ReadRecord(h, e)
            PROVE  g # h /\ fetch'[g] = fetch[g]
        BY <3>2, <4>2 DEF ReadRecord, FetchState
      <4>3. CASE ReadFragments(h)
        <5>1. fetch'[h].pc = "read" /\ (\A q \in Handlers \ {h} : fetch'[q] = fetch[q])
          BY <4>3 DEF ReadFragments, FetchState
        <5> QED
          BY <3>2, <5>1
      <4>6. CASE DropLost(h)
        BY <3>2, <4>6 DEF DropLost, FetchState
      <4>4. CASE Answer(h)
        BY <3>2, <4>4 DEF Answer, NoFetch
      <4>5. CASE PersistEpoch(h)
        BY <3>2, <4>5 DEF PersistEpoch, FetchState
      <4> QED
        BY <1>2, <2>3, <3>2, <4>1, <4>2, <4>3, <4>4, <4>5, <4>6 DEF FetchStep, FetchAnswered, PersistFails, AnnounceEpoch
    <3> QED
      BY <2>1, <3>1, <3>2 DEF ReadEpochs, Reached
  <2> QED
    BY <2>2, <2>3
<1>3. CASE SaveStep \/ FlushFails \/ Sweep
  <2>1. UNCHANGED <<up, epoch, fetch>> /\ (up \/ stopping' = stopping)
    BY <1>3 DEF SaveStep, FlushTake, SaveFragments, SaveCommit, RetainCommit, RetainUnlink,
                MarkSaved, FlushDone, FlushFails, Sweep
  <2>2. stopping' = stopping \/ stopping'.pc \in {"mark", "done"}
    BY <1>3 DEF SaveStep, FlushTake, SaveFragments, SaveCommit, RetainCommit, RetainUnlink,
                MarkSaved, FlushDone, FlushFails, Sweep
  <2> QED
    BY <2>1, <2>2 DEF ReadEpochs, Reached
<1>4. CASE ProcessStep
  <2>1. CASE Stop
    BY <2>1 DEF Stop, ReadEpochs, NotStopping, NoFetch
  <2>2. CASE MarkCleanRead
    BY <2>2 DEF MarkCleanRead, ReadEpochs, Reached, Epoch
  <2>3. CASE Shutdown \/ MarkCleanWrite
    <3>1. up /\ UNCHANGED <<up, epoch, fetch>>
      BY <2>3 DEF Shutdown, MarkCleanWrite
    <3>2. Shutdown => stopping'.pc \in {"flush", "done"}
      BY DEF Shutdown
    <3>3. MarkCleanWrite => stopping'.pc = "done"
      BY DEF MarkCleanWrite
    <3> QED
      BY <2>3, <3>1, <3>2, <3>3 DEF ReadEpochs, Reached
  <2>4. CASE Start \/ StartInMemory
    <3>1. ~up /\ up' /\ UNCHANGED <<stopping, fetch>>
      BY <2>4 DEF Start, StartInMemory
    <3> QED
      BY <3>1 DEF ReadEpochs, Kept, DownInv, NoFetch
  <2>5. CASE StartInterrupted
    BY <2>5 DEF StartInterrupted, ReadEpochs, Reached
  <2> QED
    BY <1>4, <2>1, <2>2, <2>3, <2>4, <2>5 DEF ProcessStep
<1> QED
  BY <1>1, <1>2, <1>3, <1>4 DEF Next

LEMMA ReadEpochsCorrect == Spec => []ReadEpochs
<1>1. Init => ReadEpochs
  BY DEF Init, ReadEpochs, NoFetch, NotStopping
<1>2. TypeOK /\ Kept /\ ReadEpochs /\ [Next]_vars => ReadEpochs'
  <2>1. ReadEpochs /\ UNCHANGED vars => ReadEpochs'
    BY DEF vars, queueVars, flushVars, epochVars, diskVars, clientVars, envVars, ReadEpochs,
           Reached
  <2> QED
    BY <2>1, ReadEpochsStep
<1> QED
  BY <1>1, <1>2, TypeCorrect, KeptCorrect, PTL DEF Spec


(* The state record of a running relay: it has one, of its own store, that *)
(* names every row and says "clean" only once the shutdown has written it. *)
SealInv ==
  /\ flush.final => stopping.pc = "flush"
  /\ meta.sealed => Rows \subseteq meta.manifest
  /\ up /\ Persistent =>
       meta.sealed /\ Reached(meta.epoch) /\ (meta.clean => stopping.pc = "done")

(* What sealing a record that a task has the epoch of makes of it.         *)
LEMMA SealPut ==
  ASSUME TypeOK, NEW ep \in Epoch, NEW clean, PutState(ep, clean, Rows'), Reached(ep),
         epoch' = epoch, clean => stopping'.pc = "done", flush'.final => stopping'.pc = "flush"
  PROVE  SealInv'
<1>1. /\ meta'.sealed /\ meta'.epoch = ep /\ meta'.clean = clean
      /\ meta'.manifest = Rows'
  BY DEF PutState
<1> QED
  BY <1>1 DEF SealInv, Reached

(* A step that leaves the record and the rows alone.                       *)
LEMMA SealKept ==
  ASSUME SealInv, UNCHANGED <<meta, index, epoch>>, up' => up,
         flush'.final => stopping'.pc = "flush", stopping.pc = "done" => stopping'.pc = "done"
  PROVE  SealInv'
BY DEF SealInv, Reached, Rows

LEMMA SealStep ==
  ASSUME TypeOK, Kept, MemoryInv, ReadEpochs, SealInv, Next
  PROVE  SealInv'
<1> USE DEF queueVars, flushVars, epochVars, diskVars, clientVars, envVars
<1> /\ epoch \in Epoch /\ fetch \in [Handlers -> FetchState] /\ flush \in FlushState
    /\ stopping \in [pc : {"no", "flush", "mark", "write", "done"}, epoch : Epoch]
    /\ meta \in MetaState /\ Reached(epoch)
  BY DEF TypeOK, Reached, Epoch
<1>1. CASE ClientStep
  <2>1. UNCHANGED <<meta, index, epoch, up, flush, stopping>>
    BY <1>1 DEF ClientStep, Connect, WriteRateLimited, WriteRefused, WriteQueued, WriteAcked,
                WriteTimesOut, Delete
  <2> QED
    BY <2>1, SealKept DEF SealInv
<1>2. ASSUME NEW h \in Handlers, FetchStep(h) PROVE SealInv'
  <2>1. UNCHANGED <<up, stopping, flush, index>>
    BY <1>2 DEF FetchStep, FetchList, ReadRecord, ReadFragments, FetchAnswered, DropLost,
                BumpEpoch, PersistEpoch, PersistFails, AnnounceEpoch
  <2>2. CASE PersistEpoch(h)
    <3>1. PutState(fetch[h].epoch, FALSE, Rows) /\ fetch[h].pc = "persist" /\ epoch' = epoch
      BY <2>2 DEF PersistEpoch
    <3>2. Reached(fetch[h].epoch) /\ fetch[h].epoch \in Epoch
      BY <3>1 DEF ReadEpochs, FetchState
    <3>3. Rows' = Rows
      BY <2>1 DEF Rows
    <3> QED
      BY <2>1, <3>1, <3>2, <3>3, SealPut DEF SealInv
  <2>3. CASE BumpEpoch(h)
    <3>1. /\ epoch'.store_id = epoch.store_id /\ epoch'.number = epoch.number + 1
          /\ meta' = meta
      BY <2>3 DEF BumpEpoch, Epoch
    <3>2. Reached(meta.epoch) => Reached(meta.epoch)'
      BY <3>1 DEF Reached, Epoch, MetaState
    <3> QED
      BY <2>1, <3>1, <3>2 DEF SealInv, Rows
  <2>4. CASE ~PersistEpoch(h) /\ ~BumpEpoch(h)
    <3>1. epoch' = epoch /\ meta' = meta
      BY <1>2, <2>4 DEF FetchStep, FetchList, ReadRecord, ReadFragments, FetchAnswered, DropLost,
                        PersistFails, AnnounceEpoch
    <3> QED
      BY <2>1, <3>1, SealKept DEF SealInv
  <2> QED
    BY <2>2, <2>3, <2>4
<1>3. CASE SaveStep \/ FlushFails \/ Sweep
  <2>1. CASE FlushTake
    <3>1. UNCHANGED <<meta, index, epoch, up, stopping>> /\ (flush'.final => stopping.pc = "flush")
      BY <2>1 DEF FlushTake
    <3> QED
      BY <3>1, SealKept
  <2>2. CASE SaveFragments \/ RetainUnlink \/ MarkSaved \/ Sweep
    <3>1. UNCHANGED <<meta, index, epoch, up, stopping>>
      BY <2>2 DEF SaveFragments, RetainUnlink, MarkSaved, Sweep
    <3>2. flush'.final = flush.final
      BY <2>2 DEF SaveFragments, RetainUnlink, MarkSaved, Sweep, FlushState
    <3> QED
      BY <3>1, <3>2, SealKept DEF SealInv
  <2>3. CASE FlushDone \/ FlushFails
    <3>1. /\ UNCHANGED <<meta, index, epoch, up>> /\ ~flush'.final
          /\ ~flush.final => stopping' = stopping
      BY <2>3 DEF FlushDone, FlushFails, NoFlush
    <3>2. flush.final => stopping.pc # "done"
      BY DEF SealInv
    <3> QED
      BY <3>1, <3>2, SealKept
  <2>4. CASE SaveCommit
    <3>1. /\ PutState(epoch, FALSE, Rows \union flush.batch) /\ flush.pc = "commit"
          /\ index' = [e \in Entries |-> IF e \in flush.batch THEN flush.seq ELSE index[e]]
          /\ flush'.final = flush.final /\ stopping' = stopping /\ epoch' = epoch
      BY <2>4 DEF SaveCommit, FlushState
    <3>2. flush.seq # 0 /\ flush.batch \subseteq Entries
      BY <3>1 DEF Kept, SaveInv, FlushState
    <3>3. Rows' = Rows \union flush.batch
      BY <3>1, <3>2 DEF Rows
    <3> QED
      BY <3>1, <3>3, SealPut DEF SealInv
  <2>5. CASE RetainCommit
    <3>1. flush'.final = flush.final /\ UNCHANGED <<stopping, epoch, up>>
      BY <2>5 DEF RetainCommit, FlushState
    <3>2. CASE Rows \ flush.live = {}
      BY <2>5, <3>1, <3>2, SealKept DEF RetainCommit, SealInv
    <3>3. CASE Rows \ flush.live # {}
      <4>1. /\ PutState(epoch, FALSE, Rows \ (Rows \ flush.live))
            /\ index' = [e \in Entries |-> IF e \in Rows \ flush.live THEN 0 ELSE index[e]]
        BY <2>5, <3>3 DEF RetainCommit
      <4>2. Rows' = Rows \ (Rows \ flush.live)
        BY <4>1 DEF Rows
      <4> QED
        BY <3>1, <4>1, <4>2, SealPut DEF SealInv
    <3> QED
      BY <3>2, <3>3
  <2> QED
    BY <1>3, <2>1, <2>2, <2>3, <2>4, <2>5 DEF SaveStep
<1>4. CASE ProcessStep
  <2>1. CASE Stop
    BY <2>1 DEF Stop, SealInv, NoFlush, Rows
  <2>2. CASE Shutdown \/ MarkCleanRead
    <3>1. UNCHANGED <<meta, index, epoch, up, flush>> /\ stopping.pc \notin {"done", "flush"}
      BY <2>2 DEF Shutdown, MarkCleanRead
    <3> QED
      BY <3>1, SealKept DEF SealInv
  <2>3. CASE MarkCleanWrite
    <3>1. /\ PutState(stopping.epoch, TRUE, Rows) /\ stopping.pc = "write"
          /\ stopping'.pc = "done" /\ UNCHANGED <<flush, index, epoch>>
      BY <2>3 DEF MarkCleanWrite
    <3>2. Reached(stopping.epoch)
      BY <3>1 DEF ReadEpochs
    <3>3. Rows' = Rows
      BY <3>1 DEF Rows
    <3> QED
      BY <3>1, <3>2, <3>3, SealPut DEF SealInv
  <2>4. CASE Start
    <3>1. /\ index' = [e \in Entries |-> IF e \in Restorable THEN index[e] ELSE 0]
          /\ PutState(OpenedEpoch, FALSE, Restorable) /\ epoch' = OpenedEpoch
          /\ UNCHANGED <<flush, stopping>>
      BY <2>4 DEF Start
    <3>2. Restorable \subseteq Rows
      BY DEF Restorable
    <3>3. Rows' = Restorable
      BY <3>1, <3>2 DEF Rows
    <3>4. /\ meta'.sealed /\ meta'.epoch = epoch' /\ ~meta'.clean /\ meta'.manifest = Rows'
      BY <3>1, <3>3 DEF PutState
    <3>5. OpenedEpoch \in Epoch
      BY OpenedType
    <3> QED
      BY <3>1, <3>4, <3>5 DEF SealInv, Reached, Epoch
  <2>5. CASE StartInterrupted
    BY <2>5, SealKept DEF StartInterrupted, SealInv
  <2>6. CASE StartInMemory
    BY <2>6 DEF StartInMemory, SealInv, Rows
  <2> QED
    BY <1>4, <2>1, <2>2, <2>3, <2>4, <2>5, <2>6 DEF ProcessStep
<1>5. CASE WorldStep
  <2>1. UNCHANGED <<up, stopping, flush, epoch>>
    BY <1>5 DEF WorldStep, Expire, DamageFragments, RemoveRows, LoseState, LoseIndex, ChangeKey
  <2>2. Rows' \subseteq Rows
    BY <1>5 DEF WorldStep, Expire, DamageFragments, RemoveRows, LoseState, LoseIndex, ChangeKey,
                Rows
  <2>3. meta' = meta \/ ~up
    BY <1>5 DEF WorldStep, Expire, DamageFragments, RemoveRows, LoseState, LoseIndex, ChangeKey
  <2>4. meta'.sealed => meta.sealed /\ meta'.manifest = meta.manifest
    BY <1>5 DEF WorldStep, Expire, DamageFragments, RemoveRows, LoseState, LoseIndex, ChangeKey,
                NoMeta, MetaState
  <2> QED
    BY <2>1, <2>2, <2>3, <2>4 DEF SealInv, Reached
<1> QED
  BY <1>1, <1>2, <1>3, <1>4, <1>5 DEF Next

LEMMA SealCorrect == Spec => []SealInv
<1>1. Init => SealInv
  BY DEF Init, SealInv, NoFlush, NoMeta
<1>2. TypeOK /\ Kept /\ MemoryInv /\ ReadEpochs /\ SealInv /\ [Next]_vars => SealInv'
  <2>1. SealInv /\ UNCHANGED vars => SealInv'
    BY DEF vars, queueVars, flushVars, epochVars, diskVars, clientVars, envVars, SealInv,
           Reached, Rows
  <2> QED
    BY <2>1, SealStep
<1> QED
  BY <1>1, <1>2, TypeCorrect, KeptCorrect, MemoryCorrect, ReadEpochsCorrect, PTL DEF Spec

-----------------------------------------------------------------------------
(* Store ids: the next one has not been seen by anyone, and an account     *)
(* that has sent mail has noted the epoch of a real store.                 *)
IdInv ==
  /\ next_id > 0
  /\ \A a \in Accounts : noted[a].store_id < next_id
  /\ meta.sealed => meta.epoch.store_id > 0 /\ meta.epoch.store_id < next_id
  /\ up => /\ epoch.store_id > 0 /\ epoch.store_id < next_id
           /\ wire.store_id = epoch.store_id
  /\ \A a \in connected : noted[a].store_id > 0
  /\ \A e \in Entries : write[e] \in {"acked", "waiting"} => noted[WriterOf[e]].store_id > 0

LEMMA IdStep ==
  ASSUME TypeOK, Kept, ReadEpochs, SealInv, IdInv, Next
  PROVE  IdInv'
<1> USE DEF queueVars, flushVars, epochVars, diskVars, clientVars, envVars
<1> /\ epoch \in Epoch /\ wire \in Epoch /\ noted \in [Accounts -> Epoch] /\ next_id \in Nat
    /\ fetch \in [Handlers -> FetchState] /\ meta \in MetaState /\ connected \subseteq Accounts
    /\ stopping \in [pc : {"no", "flush", "mark", "write", "done"}, epoch : Epoch]
    /\ write \in [Entries -> {"new", "waiting", "unheard", "acked", "refused"}]
  BY DEF TypeOK
<1>1. ASSUME UNCHANGED <<up, epoch, wire, next_id, noted, connected>>,
             \A e \in Entries : write'[e] \in {"acked", "waiting"} =>
               write[e] \in {"acked", "waiting"} \/ WriterOf[e] \in connected,
             meta'.sealed => \/ meta.sealed /\ meta'.epoch = meta.epoch
                             \/ up /\ meta'.epoch.store_id = epoch.store_id
      PROVE  IdInv'
  BY <1>1 DEF IdInv
<1>2. CASE ClientStep
  <2>1. ASSUME NEW a \in Accounts, Connect(a) PROVE IdInv'
    <3>1. /\ up /\ UNCHANGED <<up, epoch, wire, next_id, meta>>
          /\ connected' = connected \union {a} /\ noted' = [noted EXCEPT ![a] = wire]
          /\ \A e \in Entries : write'[e] \in {"acked", "waiting"} => write[e] \in {"acked", "waiting"}
      BY <2>1 DEF Connect
    <3> QED
      BY <3>1, WriterOfType DEF IdInv
  <2>2. CASE ~(\E a \in Accounts : Connect(a))
    <3>1. UNCHANGED <<up, epoch, wire, next_id, noted, connected, meta>>
      BY <1>2, <2>2 DEF ClientStep, WriteRateLimited, WriteRefused, WriteQueued, WriteAcked,
                        WriteTimesOut, Delete
    <3>2. \A e \in Entries : write'[e] \in {"acked", "waiting"} =>
            write[e] \in {"acked", "waiting"} \/ WriterOf[e] \in connected
      <4> SUFFICES ASSUME NEW e \in Entries, write'[e] \in {"acked", "waiting"}
                   PROVE  write[e] \in {"acked", "waiting"} \/ WriterOf[e] \in connected
        OBVIOUS
      <4> write \in [Entries -> {"new", "waiting", "unheard", "acked", "refused"}]
        BY DEF TypeOK
      <4>1. CASE write'[e] = write[e]
        BY <4>1
      <4>2. CASE write'[e] # write[e]
        <5>1. WriteQueued(e) \/ WriteAcked(e)
          <6>1. ASSUME NEW c \in Entries, WriteRateLimited(c) \/ WriteRefused(c) \/ WriteTimesOut(c)
                PROVE  FALSE
            <7>1. write' = [write EXCEPT ![c] = "refused"]
              BY <6>1 DEF WriteRateLimited, WriteRefused, WriteTimesOut
            <7> QED
              BY <4>2, <7>1
          <6>2. ASSUME NEW c \in Entries, Delete(c) PROVE FALSE
            BY <4>2, <6>2 DEF Delete
          <6>3. ASSUME NEW c \in Entries, WriteQueued(c) PROVE c = e
            BY <4>2, <6>3 DEF WriteQueued
          <6>4. ASSUME NEW c \in Entries, WriteAcked(c) PROVE c = e
            BY <4>2, <6>4 DEF WriteAcked
          <6> QED
            BY <1>2, <2>2, <6>1, <6>2, <6>3, <6>4 DEF ClientStep
        <5> QED
          BY <5>1 DEF WriteQueued, WriteAcked, WriteRequest, Waiting
      <4> QED
        BY <4>1, <4>2
    <3> QED
      BY <1>1, <3>1, <3>2
  <2> QED
    BY <2>1, <2>2
<1>3. ASSUME NEW h \in Handlers, FetchStep(h) PROVE IdInv'
  <2>1. UNCHANGED <<up, next_id, noted, connected, write>>
    BY <1>3 DEF FetchStep, FetchList, ReadRecord, ReadFragments, FetchAnswered, DropLost,
                BumpEpoch, PersistEpoch, PersistFails, AnnounceEpoch, Answer
  <2>2. CASE BumpEpoch(h)
    <3>1. epoch'.store_id = epoch.store_id /\ UNCHANGED <<wire, meta>>
      BY <2>2 DEF BumpEpoch, Epoch
    <3> QED
      BY <2>1, <3>1 DEF IdInv
  <2>3. CASE PersistEpoch(h)
    <3>1. UNCHANGED <<epoch, wire>> /\ up /\ meta'.epoch = fetch[h].epoch /\ fetch[h].pc = "persist"
      BY <2>3 DEF PersistEpoch, PutState
    <3>2. fetch[h].epoch.store_id = epoch.store_id
      BY <3>1 DEF ReadEpochs, Reached
    <3> QED
      BY <1>1, <2>1, <3>1, <3>2
  <2>4. CASE AnnounceEpoch(h)
    <3>1. UNCHANGED <<epoch, meta>> /\ wire' = fetch[h].epoch /\ fetch[h].pc = "announce"
      BY <2>4 DEF AnnounceEpoch
    <3>2. fetch[h].epoch.store_id = epoch.store_id
      BY <3>1 DEF ReadEpochs, Reached
    <3> QED
      BY <2>1, <3>1, <3>2 DEF IdInv
  <2>5. CASE UNCHANGED <<epoch, wire, meta>>
    BY <1>1, <2>1, <2>5
  <2> QED
    BY <1>3, <2>2, <2>3, <2>4, <2>5 DEF FetchStep, FetchList, ReadRecord, ReadFragments,
                                        FetchAnswered, DropLost, PersistFails
<1>4. CASE SaveStep \/ FlushFails \/ Sweep
  <2>1. UNCHANGED <<up, epoch, wire, next_id, noted, connected, write>>
    BY <1>4 DEF SaveStep, FlushTake, SaveFragments, SaveCommit, RetainCommit, RetainUnlink,
                MarkSaved, FlushDone, FlushFails, Sweep
  <2>2. meta' = meta \/ (up /\ meta'.epoch = epoch)
    <3>1. SaveCommit => up /\ meta'.epoch = epoch
      BY DEF SaveCommit, PutState
    <3>2. ASSUME RetainCommit PROVE meta' = meta \/ (up /\ meta'.epoch = epoch)
      <4>1. up /\ (meta' = meta \/ PutState(epoch, FALSE, Rows \ (Rows \ flush.live)))
        BY <3>2 DEF RetainCommit
      <4>2. ASSUME PutState(epoch, FALSE, Rows \ (Rows \ flush.live)) PROVE meta'.epoch = epoch
        BY <4>2 DEF PutState
      <4> QED
        BY <4>1, <4>2
    <3>3. meta' = meta \/ SaveCommit \/ RetainCommit
      BY <1>4 DEF SaveStep, FlushTake, SaveFragments, RetainUnlink, MarkSaved, FlushDone,
                  FlushFails, Sweep
    <3> QED
      BY <3>1, <3>2, <3>3
  <2> QED
    BY <1>1, <2>1, <2>2
<1>5. CASE ProcessStep
  <2>1. CASE Shutdown \/ MarkCleanRead \/ StartInterrupted
    <3>1. UNCHANGED <<up, epoch, wire, next_id, noted, connected, write, meta>>
      BY <2>1 DEF Shutdown, MarkCleanRead, StartInterrupted
    <3> QED
      BY <1>1, <3>1
  <2>2. CASE MarkCleanWrite
    <3>1. /\ UNCHANGED <<up, epoch, wire, next_id, noted, connected, write>> /\ up
          /\ meta'.epoch = stopping.epoch /\ stopping.pc = "write"
      BY <2>2 DEF MarkCleanWrite, PutState
    <3>2. stopping.epoch.store_id = epoch.store_id
      BY <3>1 DEF ReadEpochs, Reached
    <3> QED
      BY <1>1, <3>1, <3>2
  <2>3. CASE Stop
    <3>1. /\ ~up' /\ connected' = {} /\ UNCHANGED <<meta, noted, next_id>>
          /\ \A e \in Entries : write'[e] \in {"acked", "waiting"} => write[e] \in {"acked", "waiting"}
      BY <2>3 DEF Stop
    <3> QED
      BY <3>1 DEF IdInv
  <2>4. CASE Start
    <3>1. /\ epoch' = OpenedEpoch /\ wire' = OpenedEpoch /\ meta'.epoch = OpenedEpoch
          /\ next_id' = IF ReadableState THEN next_id ELSE next_id + 1
          /\ UNCHANGED <<noted, connected, write>>
      BY <2>4 DEF Start, PutState
    <3>2. CASE ReadableState
      <4>1. OpenedEpoch.store_id = meta.epoch.store_id /\ meta.sealed
        BY <3>2 DEF OpenedEpoch, ReadableState, MetaState, Epoch
      <4> QED
        BY <3>1, <3>2, <4>1 DEF IdInv
    <3>3. CASE ~ReadableState
      <4>1. OpenedEpoch.store_id = next_id
        BY <3>3 DEF OpenedEpoch, NewStoreEpoch
      <4> QED
        BY <3>1, <3>3, <4>1 DEF IdInv, Epoch, MetaState
    <3> QED
      BY <3>2, <3>3
  <2>5. CASE StartInMemory
    <3>1. /\ epoch' = NewStoreEpoch /\ wire' = NewStoreEpoch /\ next_id' = next_id + 1
          /\ UNCHANGED <<noted, connected, write, meta>>
      BY <2>5 DEF StartInMemory
    <3>2. NewStoreEpoch.store_id = next_id
      BY DEF NewStoreEpoch
    <3> QED
      BY <3>1, <3>2 DEF IdInv, Epoch, MetaState
  <2> QED
    BY <1>5, <2>1, <2>2, <2>3, <2>4, <2>5 DEF ProcessStep
<1>6. CASE WorldStep
  <2>1. UNCHANGED <<up, epoch, wire, next_id, noted, connected, write>>
    BY <1>6 DEF WorldStep, Expire, DamageFragments, RemoveRows, LoseState, LoseIndex, ChangeKey
  <2>2. meta'.sealed => meta.sealed /\ meta'.epoch = meta.epoch
    BY <1>6 DEF WorldStep, Expire, DamageFragments, RemoveRows, LoseState, LoseIndex, ChangeKey,
                NoMeta, MetaState
  <2> QED
    BY <1>1, <2>1, <2>2
<1> QED
  BY <1>2, <1>3, <1>4, <1>5, <1>6 DEF Next

LEMMA IdCorrect == Spec => []IdInv
<1>1. Init => IdInv
  BY DEF Init, IdInv, NoMeta, NoEpoch
<1>2. TypeOK /\ Kept /\ ReadEpochs /\ SealInv /\ IdInv /\ [Next]_vars => IdInv'
  <2>1. IdInv /\ UNCHANGED vars => IdInv'
    BY DEF vars, queueVars, flushVars, epochVars, diskVars, clientVars, envVars, IdInv
  <2> QED
    BY <2>1, IdStep
<1> QED
  BY <1>1, <1>2, TypeCorrect, KeptCorrect, ReadEpochsCorrect, SealCorrect, PTL DEF Spec


-----------------------------------------------------------------------------
(* While no state record was out of date as it was written, none falls     *)
(* behind what clients have been told.                                     *)
SeenInv ==
  /\ meta.sealed => \A a \in Accounts :
       noted[a].store_id = meta.epoch.store_id => noted[a].number <= meta.epoch.number
  /\ up /\ Persistent => wire.number <= meta.epoch.number
  /\ \A h \in Handlers : fetch[h].pc = "announce" => fetch[h].epoch.number <= meta.epoch.number

(* Mail that left the queue although its writer may wait for it or trust   *)
(* in its Ack, and was not told.                                           *)
Sent == {e \in Entries : write[e] \in {"acked", "waiting"}}
Unheard == Sent \ (Settled \union flagged \union mailboxes)

(* ... is mail of a writer who noted another epoch than the relay's, or of *)
(* one who will have, once a fetch that dropped it has counted the epoch   *)
(* up.                                                                     *)
LossInv ==
  up => \A e \in Unheard :
          noted[WriterOf[e]] # epoch \/ (\E h \in Handlers : fetch[h].pc = "bump")

(* A record that says "clean" and names the rows there are makes the next  *)
(* start keep its epoch: whoever noted that one has every mail of theirs   *)
(* in a row.                                                               *)
Astray == ((Acked \ (Settled \union flagged)) \union Unheard) \ Rows
CleanRecord == meta.sealed /\ meta.clean /\ meta.manifest = Rows
CleanInv == CleanRecord => \A e \in Astray : noted[WriterOf[e]] # meta.epoch

LEMMA LossKept ==
  ASSUME LossInv, UNCHANGED <<epoch, noted>>, up' => up, Unheard' \subseteq Unheard,
         \A h \in Handlers : fetch[h].pc = "bump" => fetch'[h].pc = "bump"
  PROVE  LossInv'
BY DEF LossInv

LEMMA CleanKept ==
  ASSUME CleanInv, noted' = noted, CleanRecord' => CleanRecord /\ meta'.epoch = meta.epoch /\ Astray' \subseteq Astray
  PROVE  CleanInv'
BY DEF CleanInv

(* A record is written in a persistent relay that runs, and replaces one   *)
(* of the same store.                                                      *)
LEMMA SeenPut ==
  ASSUME TypeOK, MemoryInv, SealInv, SeenInv, ~stale_write', up, Persistent,
         NEW ep \in Epoch, NEW clean, NEW rows, PutState(ep, clean, rows), Reached(ep),
         UNCHANGED <<wire, noted>>,
         \A h \in Handlers : fetch'[h].pc = "announce" =>
           \/ fetch[h].pc = "announce" /\ fetch'[h].epoch = fetch[h].epoch
           \/ fetch'[h].epoch = ep
  PROVE  SeenInv'
<1>1. meta.sealed /\ meta.epoch.store_id = ep.store_id
  BY DEF SealInv, Reached
<1>2. meta'.sealed /\ meta'.epoch = ep
  BY DEF PutState
<1>3. meta.epoch.number <= ep.number
  BY <1>1 DEF PutState, TypeOK, MetaState, Epoch
<1>4. /\ meta.epoch.number \in Nat /\ ep.number \in Nat /\ wire.number \in Nat
      /\ \A a \in Accounts : noted[a].number \in Nat
      /\ \A h \in Handlers : fetch[h].epoch.number \in Nat
  BY DEF TypeOK, MetaState, FetchState, Epoch
<1> QED
  BY <1>1, <1>2, <1>3, <1>4 DEF SeenInv

LEMMA SeenKept ==
  ASSUME SeenInv, UNCHANGED <<meta, wire, noted>>, up' => up,
         \A h \in Handlers : fetch'[h].pc = "announce" =>
           fetch[h].pc = "announce" /\ fetch'[h].epoch = fetch[h].epoch
  PROVE  SeenInv'
BY DEF SeenInv

AnnounceInv == SeenInv /\ LossInv /\ CleanInv
Facts == TypeOK /\ Kept /\ StoredInv /\ MemoryInv /\ ReadEpochs /\ SealInv /\ IdInv

(* A step that leaves epochs and records alone and loses nothing unsettled. *)
LEMMA AnnounceKept ==
  ASSUME AnnounceInv, UNCHANGED <<meta, index, wire, epoch, noted>>, up' => up,
         Unheard' \subseteq Unheard, meta.sealed => Astray' \subseteq Astray,
         \A h \in Handlers : fetch[h].pc = "bump" => fetch'[h].pc = "bump",
         \A h \in Handlers : fetch'[h].pc = "announce" =>
           fetch[h].pc = "announce" /\ fetch'[h].epoch = fetch[h].epoch
  PROVE  AnnounceInv'
<1>1. SeenInv' /\ LossInv'
  BY SeenKept, LossKept DEF AnnounceInv
<1>2. CleanRecord' = CleanRecord
  BY DEF CleanRecord, Rows
<1> QED
  BY <1>1, <1>2, CleanKept DEF AnnounceInv, CleanRecord

LEMMA AnnounceClient ==
  ASSUME Facts, AnnounceInv, ClientStep
  PROVE  AnnounceInv'
<1> USE DEF queueVars, flushVars, epochVars, diskVars, clientVars, envVars
<1> /\ epoch \in Epoch /\ wire \in Epoch /\ noted \in [Accounts -> Epoch] /\ meta \in MetaState
    /\ fetch \in [Handlers -> FetchState]
    /\ write \in [Entries -> {"new", "waiting", "unheard", "acked", "refused"}]
  BY DEF Facts, TypeOK
<1>1. ASSUME NEW a \in Accounts, Connect(a) PROVE AnnounceInv'
  <2>1. /\ up /\ stopping.pc = "no" /\ noted' = [noted EXCEPT ![a] = wire]
        /\ UNCHANGED <<up, meta, index, wire, epoch, fetch, mailboxes, collected, expired>>
    BY <1>1 DEF Connect
  <2>2. SeenInv'
    <3>1. meta.sealed => Persistent
      BY DEF Facts, MemoryInv, MemoryOnly
    <3>2. meta.sealed => wire.number <= meta.epoch.number
      BY <2>1, <3>1 DEF AnnounceInv, SeenInv
    <3> QED
      BY <2>1, <3>2 DEF AnnounceInv, SeenInv
  <2>3. LossInv'
    <3> SUFFICES ASSUME NEW e \in Unheard'
                 PROVE  noted'[WriterOf[e]] # epoch \/ (\E h \in Handlers : fetch[h].pc = "bump")
      BY <2>1 DEF LossInv
    <3>1. e \in Entries /\ WriterOf[e] \in Accounts
      BY WriterOfType DEF Unheard, Sent
    <3>2. e \in Unheard
      BY <1>1 DEF Connect, Unheard, Sent, Settled
    <3>3. noted'[WriterOf[e]] = noted[WriterOf[e]]
      <4>1. CASE WriterOf[e] # a
        BY <2>1, <3>1, <4>1
      <4>2. CASE WriterOf[e] = a
        <5>1. e \in Acked /\ e \notin flagged'
          BY <1>1, <3>1, <4>2 DEF Connect, Unheard, Sent, Acked
        <5>2. noted[a] \in {NoEpoch, wire}
          BY <1>1, <4>2, <5>1 DEF Connect
        <5>3. noted[a] # NoEpoch
          BY <4>2, <5>1 DEF Facts, IdInv, Acked, NoEpoch
        <5> QED
          BY <2>1, <4>2, <5>2, <5>3
      <4> QED
        BY <4>1, <4>2
    <3> QED
      BY <2>1, <3>2, <3>3 DEF AnnounceInv, LossInv
  <2>4. CleanInv'
    <3>1. ~(meta.sealed /\ meta.clean)
      BY <2>1 DEF Facts, MemoryInv, MemoryOnly, SealInv
    <3> QED
      BY <2>1, <3>1 DEF CleanInv, CleanRecord
  <2> QED
    BY <2>2, <2>3, <2>4 DEF AnnounceInv
<1>2. ASSUME UNCHANGED <<up, meta, index, wire, epoch, fetch, noted, expired, flagged>>,
             Unheard' \subseteq Unheard, meta.sealed => Astray' \subseteq Astray
      PROVE  AnnounceInv'
  BY <1>2, AnnounceKept
<1>3. ASSUME NEW e \in Entries, WriteRateLimited(e) PROVE AnnounceInv'
  <2>1. Sent' \subseteq Sent /\ Acked' \subseteq Acked
    BY <1>3 DEF WriteRateLimited, Sent, Acked
  <2> QED
    BY <1>2, <1>3, <2>1 DEF WriteRateLimited, Unheard, Settled, Astray, Rows
<1>4. ASSUME NEW e \in Entries, WriteRefused(e) PROVE AnnounceInv'
  <2>1. Sent' \subseteq Sent /\ Acked' \subseteq Acked
    BY <1>4 DEF WriteRefused, Sent, Acked
  <2>2. mailboxes \ mailboxes' \subseteq Settled /\ Settled' = Settled /\ Rows' = Rows /\ flagged' = flagged
    BY <1>4 DEF WriteRefused, Keep, PrunedFor, Settled, Rows
  <2>3. Unheard' \subseteq Unheard
    BY <2>1, <2>2 DEF Unheard
  <2>4. Astray' \subseteq Astray
    BY <2>1, <2>2, <2>3 DEF Astray
  <2> QED
    BY <1>2, <1>4, <2>3, <2>4 DEF WriteRefused
<1>5. ASSUME NEW e \in Entries, WriteQueued(e) PROVE AnnounceInv'
  <2>1. Sent' \subseteq Sent \union {e} /\ (Persistent => Acked' \subseteq Acked)
    BY <1>5 DEF WriteQueued, Sent, Acked
  <2>2. /\ mailboxes \ mailboxes' \subseteq Settled /\ Settled' = Settled /\ Rows' = Rows
        /\ e \in mailboxes' /\ flagged' = flagged
    BY <1>5 DEF WriteQueued, Keep, PrunedFor, Settled, Rows
  <2>3. Unheard' \subseteq Unheard
    BY <2>1, <2>2 DEF Unheard
  <2>4. meta.sealed => Astray' \subseteq Astray
    BY <2>1, <2>2, <2>3 DEF Astray, Facts, MemoryInv, MemoryOnly
  <2> QED
    BY <1>2, <1>5, <2>3, <2>4 DEF WriteQueued
<1>6. ASSUME NEW e \in Entries, WriteAcked(e) PROVE AnnounceInv'
  <2>1. /\ flushed >= flush_seq[e]
        /\ UNCHANGED <<mailboxes, saved, index, collected, expired, flagged>>
    BY <1>6 DEF WriteAcked
  <2>2. Sent' \subseteq Sent /\ Acked' \subseteq Acked \union ({e} \intersect Sent)
    BY <1>6 DEF WriteAcked, Waiting, Sent, Acked
  <2>3. Settled' = Settled /\ Rows' = Rows
    BY <2>1 DEF Settled, Rows
  <2>4. e \notin Unsaved \ Settled
    BY <2>1 DEF Facts, StoredInv, DueInv, TypeOK
  <2>5. e \in mailboxes => e \in Rows \union Settled
    BY <2>4 DEF Unsaved, Facts, StoredInv, RowsInv
  <2>6. Unheard' \subseteq Unheard
    BY <2>1, <2>2, <2>3 DEF Unheard
  <2>7. Astray' \subseteq Astray
    BY <2>1, <2>2, <2>3, <2>5, <2>6 DEF Astray, Unheard
  <2> QED
    BY <1>2, <1>6, <2>6, <2>7 DEF WriteAcked
<1>7. ASSUME NEW e \in Entries, WriteTimesOut(e) PROVE AnnounceInv'
  <2>1. Sent' \subseteq Sent \ {e} /\ Acked' \subseteq Acked
    BY <1>7 DEF WriteTimesOut, Sent, Acked
  <2>2. mailboxes \ mailboxes' \subseteq {e} /\ Settled' = Settled /\ Rows' = Rows /\ flagged' = flagged
    BY <1>7 DEF WriteTimesOut, Keep, Settled, Rows
  <2>3. Unheard' \subseteq Unheard
    BY <2>1, <2>2 DEF Unheard
  <2>4. Astray' \subseteq Astray
    BY <2>1, <2>2, <2>3 DEF Astray
  <2> QED
    BY <1>2, <1>7, <2>3, <2>4 DEF WriteTimesOut
<1>8. ASSUME NEW e \in Entries, Delete(e) PROVE AnnounceInv'
  <2>1. Sent' = Sent /\ Acked' = Acked
    BY <1>8 DEF Delete, Sent, Acked
  <2>2. /\ mailboxes \ mailboxes' \subseteq {e} /\ Settled' = Settled \union {e} /\ Rows' = Rows
        /\ flagged' = flagged
    BY <1>8 DEF Delete, Keep, Settled, Rows
  <2>3. Unheard' \subseteq Unheard
    BY <2>1, <2>2 DEF Unheard
  <2>4. Astray' \subseteq Astray
    BY <2>1, <2>2, <2>3 DEF Astray
  <2> QED
    BY <1>2, <1>8, <2>3, <2>4 DEF Delete
<1> QED
  BY <1>1, <1>3, <1>4, <1>5, <1>6, <1>7, <1>8 DEF ClientStep


(* Which handlers a step moves, and out of and into which places.          *)
LEMMA HandlerStep ==
  ASSUME TypeOK, NEW h \in Handlers, FetchStep(h)
  PROVE  /\ \A g \in Handlers \ {h} : fetch'[g] = fetch[g]
         /\ fetch[h].pc = "bump" => BumpEpoch(h)
         /\ fetch'[h].pc = "announce" => PersistEpoch(h)
<1> /\ fetch \in [Handlers -> FetchState] /\ fetch[h] \in FetchState
  BY DEF TypeOK
<1>1. ASSUME NEW a \in Accounts, NEW b \in Boxes, FetchList(h, a, b)
      PROVE  /\ \A g \in Handlers \ {h} : fetch'[g] = fetch[g]
             /\ fetch[h].pc # "bump" /\ fetch'[h].pc # "announce"
  <2>1. PICK todo, found :
          \/ fetch' = fetch
          \/ fetch' = [fetch EXCEPT ![h] =
               [NoFetch EXCEPT !.pc = "read", !.todo = todo, !.found = found]]
    BY <1>1, ListStep
  <2>2. fetch[h].pc = "idle"
    BY <1>1 DEF FetchList
  <2> QED
    BY <2>1, <2>2 DEF NoFetch
<1>2. ASSUME NEW e \in Entries, ReadRecord(h, e)
      PROVE  /\ \A g \in Handlers \ {h} : fetch'[g] = fetch[g]
             /\ fetch[h].pc # "bump" /\ fetch'[h].pc # "announce"
  BY <1>2 DEF ReadRecord, FetchState
<1>3. ASSUME ReadFragments(h)
      PROVE  /\ \A g \in Handlers \ {h} : fetch'[g] = fetch[g]
             /\ fetch[h].pc # "bump" /\ fetch'[h].pc # "announce"
  BY <1>3 DEF ReadFragments, FetchState
<1>4. ASSUME Answer(h)
      PROVE  /\ \A g \in Handlers \ {h} : fetch'[g] = fetch[g]
             /\ fetch'[h].pc # "announce"
  BY <1>4 DEF Answer, NoFetch
<1>5. ASSUME FetchAnswered(h) \/ PersistFails(h) \/ AnnounceEpoch(h)
      PROVE  /\ \A g \in Handlers \ {h} : fetch'[g] = fetch[g]
             /\ fetch[h].pc # "bump" /\ fetch'[h].pc # "announce"
  BY <1>4, <1>5 DEF FetchAnswered, PersistFails, AnnounceEpoch
<1>6. ASSUME DropLost(h)
      PROVE  /\ \A g \in Handlers \ {h} : fetch'[g] = fetch[g]
             /\ fetch[h].pc # "bump" /\ fetch'[h].pc # "announce"
  BY <1>6 DEF DropLost, FetchState
<1>7. ASSUME BumpEpoch(h)
      PROVE  /\ \A g \in Handlers \ {h} : fetch'[g] = fetch[g]
             /\ fetch'[h].pc # "announce"
  BY <1>7 DEF BumpEpoch, FetchState
<1>8. ASSUME PersistEpoch(h)
      PROVE  /\ \A g \in Handlers \ {h} : fetch'[g] = fetch[g]
             /\ fetch[h].pc # "bump"
  BY <1>8 DEF PersistEpoch, FetchState
<1> QED
  BY <1>1, <1>2, <1>3, <1>5, <1>6, <1>7, <1>8 DEF FetchStep

LEMMA AnnounceFetch ==
  ASSUME Facts, AnnounceInv, NEW h \in Handlers, FetchStep(h), ~stale_write'
  PROVE  AnnounceInv'
<1> USE DEF queueVars, flushVars, epochVars, diskVars, clientVars, envVars
<1> /\ epoch \in Epoch /\ wire \in Epoch /\ noted \in [Accounts -> Epoch] /\ meta \in MetaState
    /\ fetch \in [Handlers -> FetchState] /\ fetch[h] \in FetchState
  BY DEF Facts, TypeOK
<1>0. /\ \A g \in Handlers \ {h} : fetch'[g] = fetch[g]
      /\ fetch[h].pc = "bump" => BumpEpoch(h)
      /\ fetch'[h].pc = "announce" => PersistEpoch(h)
  BY HandlerStep DEF Facts
<1>1. UNCHANGED <<up, index, noted, write, collected, expired, flagged>>
  BY DEF FetchStep, FetchList, ReadRecord, ReadFragments, FetchAnswered, DropLost, BumpEpoch,
         PersistEpoch, PersistFails, AnnounceEpoch, Answer
<1>2. Settled' = Settled /\ Acked' = Acked /\ Sent' = Sent /\ Rows' = Rows
  BY <1>1 DEF Settled, Acked, Sent, Rows
<1>3. CASE DropLost(h)
  <2>1. /\ mailboxes' = mailboxes \ fetch[h].lost /\ fetch' = [fetch EXCEPT ![h].pc = "bump"]
        /\ UNCHANGED <<epoch, wire, meta>>
    BY <1>3 DEF DropLost, Keep
  <2>2. fetch'[h].pc = "bump"
    BY <2>1 DEF FetchState
  <2>3. SeenInv' /\ LossInv'
    BY <1>0, <1>1, <2>1, <2>2, SeenKept DEF AnnounceInv, LossInv
  <2>4. Astray' \subseteq Astray
    <3>1. \A e \in fetch[h].lost \intersect mailboxes : e \in Rows \union Settled
      BY DEF Handles, Facts, TypeOK, StoredInv, HeldInv, RowsInv
    <3> QED
      BY <1>1, <1>2, <2>1, <3>1 DEF Astray, Unheard
  <2>5. CleanRecord' = CleanRecord
    BY <1>2, <2>1 DEF CleanRecord
  <2> QED
    BY <1>1, <2>1, <2>3, <2>4, <2>5, CleanKept DEF AnnounceInv
<1>4. CASE BumpEpoch(h)
  <2>1. /\ fetch[h].pc = "bump" /\ up /\ UNCHANGED <<mailboxes, wire, meta>>
        /\ epoch'.store_id = epoch.store_id /\ epoch'.number = epoch.number + 1
    BY <1>4 DEF BumpEpoch, Epoch
  <2>2. Persistent
    BY <2>1 DEF Facts, MemoryInv, MemoryOnly
  <2>3. fetch'[h].pc # "announce"
    BY <1>4 DEF BumpEpoch, FetchState
  <2>4. SeenInv'
    BY <1>0, <1>1, <2>1, <2>3, SeenKept DEF AnnounceInv
  <2>5. LossInv'
    <3> SUFFICES ASSUME NEW e \in Unheard' PROVE noted[WriterOf[e]] # epoch'
      BY <1>1 DEF LossInv
    <3>1. WriterOf[e] \in Accounts
      BY WriterOfType DEF Unheard, Sent
    <3>2. /\ meta.sealed /\ meta.epoch.store_id = epoch.store_id
          /\ meta.epoch.number <= epoch.number
      BY <2>1, <2>2 DEF Facts, SealInv, Reached
    <3>3. noted[WriterOf[e]].store_id = epoch.store_id =>
            noted[WriterOf[e]].number <= meta.epoch.number
      BY <3>1, <3>2 DEF AnnounceInv, SeenInv
    <3>4. /\ noted[WriterOf[e]].number \in Nat /\ meta.epoch.number \in Nat /\ epoch.number \in Nat
      BY <3>1 DEF Epoch, MetaState
    <3> QED
      BY <2>1, <3>2, <3>3, <3>4
  <2>6. Astray' = Astray
    BY <1>1, <1>2, <2>1 DEF Astray, Unheard
  <2>7. CleanRecord' = CleanRecord
    BY <1>2, <2>1 DEF CleanRecord
  <2> QED
    BY <1>1, <2>1, <2>4, <2>5, <2>6, <2>7, CleanKept DEF AnnounceInv
<1>5. CASE PersistEpoch(h)
  <2>1. /\ fetch[h].pc = "persist" /\ up /\ UNCHANGED <<mailboxes, wire, epoch>>
        /\ PutState(fetch[h].epoch, FALSE, Rows)
        /\ fetch' = [fetch EXCEPT ![h].pc = "announce"]
    BY <1>5 DEF PersistEpoch
  <2>2. Persistent /\ fetch[h].epoch \in Epoch /\ Reached(fetch[h].epoch)
    BY <2>1 DEF Facts, MemoryInv, MemoryOnly, ReadEpochs, FetchState
  <2>3. fetch'[h].epoch = fetch[h].epoch
    BY <2>1 DEF FetchState
  <2>4. SeenInv'
    BY <1>0, <1>1, <2>1, <2>2, <2>3, SeenPut DEF AnnounceInv, Facts
  <2>5. Unheard' = Unheard
    BY <1>1, <1>2, <2>1 DEF Unheard
  <2>6. LossInv'
    BY <1>0, <1>1, <2>1, <2>5, LossKept DEF AnnounceInv
  <2>7. ~CleanRecord'
    BY <2>1 DEF PutState, CleanRecord
  <2> QED
    BY <2>4, <2>6, <2>7 DEF AnnounceInv, CleanInv
<1>6. CASE AnnounceEpoch(h)
  <2>1. /\ fetch[h].pc = "announce" /\ wire' = fetch[h].epoch
        /\ UNCHANGED <<mailboxes, epoch, meta>>
    BY <1>6 DEF AnnounceEpoch
  <2>2. fetch'[h].pc # "announce" /\ fetch[h].pc # "bump"
    BY <1>6, <2>1 DEF AnnounceEpoch, Answer, NoFetch
  <2>3. SeenInv'
    BY <1>0, <1>1, <2>1, <2>2 DEF AnnounceInv, SeenInv
  <2>4. Unheard' = Unheard /\ Astray' = Astray
    BY <1>1, <1>2, <2>1 DEF Unheard, Astray
  <2>5. LossInv'
    BY <1>0, <1>1, <2>1, <2>2, <2>4, LossKept DEF AnnounceInv
  <2>6. CleanRecord' = CleanRecord
    BY <1>2, <2>1 DEF CleanRecord
  <2> QED
    BY <1>1, <2>1, <2>3, <2>4, <2>5, <2>6, CleanKept DEF AnnounceInv
<1>7. CASE ~(DropLost(h) \/ BumpEpoch(h) \/ PersistEpoch(h) \/ AnnounceEpoch(h))
  <2>1. UNCHANGED <<epoch, wire, meta>> /\ mailboxes \ mailboxes' \subseteq Settled
    BY <1>7 DEF FetchStep, FetchList, ReadRecord, ReadFragments, FetchAnswered, PersistFails,
                Keep, Settled
  <2>2. Unheard' \subseteq Unheard
    BY <1>1, <1>2, <2>1 DEF Unheard
  <2>3. Astray' \subseteq Astray
    BY <1>1, <1>2, <2>2 DEF Astray
  <2> QED
    BY <1>0, <1>1, <1>7, <2>1, <2>2, <2>3, AnnounceKept
<1> QED
  BY <1>3, <1>4, <1>5, <1>6, <1>7

LEMMA AnnounceSave ==
  ASSUME Facts, AnnounceInv, SaveStep \/ FlushFails \/ Sweep, ~stale_write'
  PROVE  AnnounceInv'
<1> USE DEF queueVars, flushVars, epochVars, diskVars, clientVars, envVars
<1>1. UNCHANGED <<up, wire, epoch, fetch, noted, write, collected, expired, flagged>>
  BY DEF SaveStep, FlushTake, SaveFragments, SaveCommit, RetainCommit, RetainUnlink, MarkSaved,
         FlushDone, FlushFails, Sweep
<1>2. mailboxes \ mailboxes' \subseteq Settled
  BY DEF SaveStep, FlushTake, SaveFragments, SaveCommit, RetainCommit, RetainUnlink, MarkSaved,
         FlushDone, FlushFails, Sweep, Keep, Settled
<1>3. Settled' = Settled /\ Acked' = Acked /\ Sent' = Sent
  BY <1>1 DEF Settled, Acked, Sent
<1>4. Unheard' \subseteq Unheard
  BY <1>1, <1>2, <1>3 DEF Unheard
<1>5. LossInv'
  BY <1>1, <1>4, LossKept DEF AnnounceInv
<1>6. ASSUME UNCHANGED <<meta, index>> PROVE AnnounceInv'
  <2>1. Astray' \subseteq Astray
    BY <1>1, <1>3, <1>4, <1>6 DEF Astray, Rows
  <2> QED
    BY <1>1, <1>4, <1>6, <2>1, AnnounceKept
<1>7. ASSUME NEW rows, PutState(epoch, FALSE, rows), up, flush.pc # "idle" PROVE AnnounceInv'
  <2>1. Persistent /\ epoch \in Epoch /\ Reached(epoch)
    BY <1>7 DEF Facts, MemoryInv, MemoryOnly, TypeOK, Reached, Epoch
  <2>2. SeenInv'
    BY <1>1, <1>7, <2>1, SeenPut DEF AnnounceInv, Facts
  <2>3. ~CleanRecord'
    BY <1>7 DEF PutState, CleanRecord
  <2> QED
    BY <1>5, <2>2, <2>3 DEF AnnounceInv, CleanInv
<1>8. CASE SaveCommit
  BY <1>7, <1>8 DEF SaveCommit
<1>9. CASE RetainCommit
  <2>1. /\ up /\ flush.pc = "retain"
        /\ UNCHANGED <<meta, index>> \/ PutState(epoch, FALSE, Rows \ (Rows \ flush.live))
    BY <1>9 DEF RetainCommit
  <2> QED
    BY <1>6, <1>7, <2>1
<1>10. CASE UNCHANGED <<meta, index>>
  BY <1>6, <1>10
<1> QED
  BY <1>8, <1>9, <1>10 DEF SaveStep, FlushTake, SaveFragments, RetainUnlink, MarkSaved,
                           FlushDone, FlushFails, Sweep


LEMMA AnnounceProcess ==
  ASSUME Facts, AnnounceInv, ProcessStep, ~stale_write'
  PROVE  AnnounceInv'
<1> USE DEF queueVars, flushVars, epochVars, diskVars, clientVars, envVars
<1> /\ epoch \in Epoch /\ wire \in Epoch /\ noted \in [Accounts -> Epoch] /\ meta \in MetaState
    /\ fetch \in [Handlers -> FetchState] /\ next_id \in Nat
    /\ stopping \in [pc : {"no", "flush", "mark", "write", "done"}, epoch : Epoch]
    /\ write \in [Entries -> {"new", "waiting", "unheard", "acked", "refused"}]
  BY DEF Facts, TypeOK
<1>1. CASE Shutdown \/ MarkCleanRead \/ StartInterrupted
  <2>1. UNCHANGED <<up, meta, index, wire, epoch, fetch, noted, write, mailboxes, collected,
                    expired, flagged>>
    BY <1>1 DEF Shutdown, MarkCleanRead, StartInterrupted
  <2>2. Unheard' = Unheard /\ Astray' = Astray
    BY <2>1 DEF Unheard, Astray, Sent, Acked, Settled, Rows
  <2> QED
    BY <2>1, <2>2, AnnounceKept
<1>2. CASE MarkCleanWrite
  <2>1. /\ up /\ stopping.pc = "write" /\ PutState(stopping.epoch, TRUE, Rows)
        /\ UNCHANGED <<up, index, wire, epoch, fetch, noted, write, mailboxes, collected,
                       expired, flagged>>
    BY <1>2 DEF MarkCleanWrite
  <2>2. Persistent /\ Reached(stopping.epoch)
    BY <2>1 DEF Facts, MemoryInv, MemoryOnly, ReadEpochs
  <2>3. SeenInv'
    BY <2>1, <2>2, SeenPut DEF AnnounceInv, Facts
  <2>4. /\ Unheard' = Unheard /\ Astray' = Astray
    BY <2>1 DEF Unheard, Astray, Sent, Acked, Settled, Rows
  <2>5. LossInv'
    BY <2>1, <2>4, LossKept DEF AnnounceInv
  <2>6. CleanInv'
    <3>1. stopping.epoch = epoch /\ ~(\E h \in Handlers : fetch[h].pc = "bump")
      BY <2>1 DEF PutState
    <3>2. meta'.epoch = epoch
      BY <2>1, <3>1 DEF PutState
    <3>3. Astray \subseteq Unheard
      <4>1. (Acked \intersect mailboxes) \ Settled \subseteq Rows
        BY <2>1, <2>2 DEF Facts, StoredInv, AckInv, RowsInv
      <4>2. Acked \subseteq Sent
        BY DEF Acked, Sent
      <4> QED
        BY <4>1, <4>2 DEF Astray, Unheard
    <3> QED
      BY <2>1, <2>4, <3>1, <3>2, <3>3 DEF CleanInv, AnnounceInv, LossInv
  <2> QED
    BY <2>3, <2>5, <2>6 DEF AnnounceInv
<1>3. CASE Stop
  <2>1. /\ ~up' /\ UNCHANGED <<meta, index, noted, collected, expired, flagged>>
        /\ fetch' = [h \in Handlers |-> NoFetch]
        /\ write' = [e \in Entries |-> IF Waiting(e) THEN "refused" ELSE write[e]]
    BY <1>3 DEF Stop
  <2>2. SeenInv'
    BY <2>1 DEF AnnounceInv, SeenInv, NoFetch
  <2>3. LossInv'
    BY <2>1 DEF LossInv
  <2>4. Sent' \subseteq Acked /\ Acked' \subseteq Acked
    BY <2>1 DEF Sent, Acked, Waiting
  <2>5. Astray' \subseteq Astray
    BY <2>1, <2>4 DEF Astray, Unheard, Settled, Rows
  <2>6. CleanRecord' = CleanRecord
    BY <2>1 DEF CleanRecord, Rows
  <2> QED
    BY <2>1, <2>2, <2>3, <2>5, <2>6, CleanKept DEF AnnounceInv
<1>4. CASE Start
  <2>1. /\ ~up /\ PutState(OpenedEpoch, FALSE, Restorable)
        /\ epoch' = OpenedEpoch /\ wire' = OpenedEpoch /\ mailboxes' = Restorable
        /\ UNCHANGED <<fetch, noted, write, collected, expired, flagged>>
    BY <1>4 DEF Start
  <2>2. meta'.sealed /\ meta'.epoch = OpenedEpoch /\ ~meta'.clean
    BY <2>1 DEF PutState
  <2>3. OpenedEpoch \in Epoch
    BY OpenedType DEF Facts
  <2>4. \A h \in Handlers : fetch[h].pc = "idle"
    BY <2>1 DEF Facts, Kept, DownInv, NoFetch
  <2>5. CASE ReadableState
    <3>1. /\ meta.sealed /\ OpenedEpoch.store_id = meta.epoch.store_id
          /\ OpenedEpoch.number = IF KeepsEpoch THEN meta.epoch.number ELSE meta.epoch.number + 1
      BY <2>5 DEF OpenedEpoch, ReadableState, MetaState, Epoch
    <3>2. /\ meta.epoch.number \in Nat /\ \A a \in Accounts : noted[a].number \in Nat
      BY DEF MetaState, Epoch
    <3>3. \A a \in Accounts : noted[a].store_id = OpenedEpoch.store_id =>
            /\ noted[a].number <= meta.epoch.number
            /\ noted[a].number <= OpenedEpoch.number
      BY <3>1, <3>2 DEF AnnounceInv, SeenInv
    <3>4. SeenInv'
      BY <2>1, <2>2, <2>3, <2>4, <3>3 DEF SeenInv, Epoch
    <3>5. LossInv'
      <4> SUFFICES ASSUME NEW e \in Unheard' PROVE noted[WriterOf[e]] # OpenedEpoch
        BY <2>1 DEF LossInv
      <4>1. WriterOf[e] \in Accounts /\ e \in Entries /\ write'[e] \in {"acked", "waiting"}
        BY WriterOfType DEF Unheard, Sent
      <4>2. CASE ~KeepsEpoch
        BY <3>1, <3>2, <3>3, <4>1, <4>2
      <4>3. CASE KeepsEpoch
        <5>1. OpenedEpoch = meta.epoch
          BY <2>3, <3>1, <4>3 DEF Epoch, MetaState
        <5>2. CleanRecord /\ Unrebuilt = {} /\ ~WrongKey
          BY <4>3 DEF KeepsEpoch, ReadableState, CleanRecord
        <5>3. e \in Acked \ (Settled \union flagged)
          <6>1. ~Waiting(e)
            BY <2>1, <4>1 DEF Facts, Kept, DownInv
          <6> QED
            BY <2>1, <4>1, <6>1 DEF Unheard, Acked, Settled, Waiting
        <5>4. e \notin Rows
          <6>1. e \notin Restorable /\ e \notin expired
            BY <2>1, <5>3 DEF Unheard, Settled
          <6> QED
            BY <5>2, <6>1 DEF Restorable, Unrebuilt
        <5> QED
          BY <5>1, <5>2, <5>3, <5>4 DEF AnnounceInv, CleanInv, Astray
      <4> QED
        BY <4>2, <4>3
    <3> QED
      BY <2>2, <3>4, <3>5 DEF AnnounceInv, CleanInv, CleanRecord
  <2>6. CASE ~ReadableState
    <3>1. OpenedEpoch.store_id = next_id
      BY <2>6 DEF OpenedEpoch, NewStoreEpoch
    <3>2. \A a \in Accounts : noted[a].store_id # OpenedEpoch.store_id
      BY <3>1 DEF Facts, IdInv, Epoch
    <3>3. SeenInv'
      BY <2>1, <2>2, <2>3, <2>4, <3>2 DEF SeenInv, Epoch
    <3>4. LossInv'
      BY <2>1, <3>2, WriterOfType DEF LossInv, Unheard, Sent
    <3> QED
      BY <2>2, <3>3, <3>4 DEF AnnounceInv, CleanInv, CleanRecord
  <2> QED
    BY <2>5, <2>6
<1>5. CASE StartInMemory
  <2>1. /\ ~Persistent /\ epoch' = NewStoreEpoch /\ UNCHANGED <<fetch, noted, meta>>
    BY <1>5 DEF StartInMemory
  <2>2. ~meta.sealed /\ \A h \in Handlers : fetch[h].pc = "idle"
    BY <2>1 DEF Facts, MemoryInv, MemoryOnly
  <2>3. \A a \in Accounts : noted[a] # epoch'
    BY <2>1 DEF Facts, IdInv, NewStoreEpoch, Epoch
  <2>4. SeenInv'
    BY <2>1, <2>2 DEF SeenInv
  <2>5. LossInv'
    BY <2>1, <2>3, WriterOfType DEF LossInv, Unheard, Sent
  <2> QED
    BY <2>1, <2>2, <2>4, <2>5 DEF AnnounceInv, CleanInv, CleanRecord
<1> QED
  BY <1>1, <1>2, <1>3, <1>4, <1>5 DEF ProcessStep

LEMMA AnnounceWorld ==
  ASSUME Facts, AnnounceInv, WorldStep
  PROVE  AnnounceInv'
<1> USE DEF queueVars, flushVars, epochVars, diskVars, clientVars, envVars
<1> meta \in MetaState /\ index \in [Entries -> Nat]
  BY DEF Facts, TypeOK
<1>1. UNCHANGED <<up, wire, epoch, fetch, noted, write, mailboxes, collected, flagged>>
  BY DEF WorldStep, Expire, DamageFragments, RemoveRows, LoseState, LoseIndex, ChangeKey
<1>2. expired \subseteq expired'
  BY DEF WorldStep, Expire, DamageFragments, RemoveRows, LoseState, LoseIndex, ChangeKey
<1>3. /\ Sent' = Sent /\ Acked' = Acked /\ Settled \subseteq Settled' /\ Unheard' \subseteq Unheard
  BY <1>1, <1>2 DEF Sent, Acked, Settled, Unheard
<1>4. /\ meta' = meta \/ ~up
      /\ meta'.sealed => /\ meta.sealed /\ meta'.epoch = meta.epoch
                         /\ meta'.clean = meta.clean /\ meta'.manifest = meta.manifest
  BY DEF WorldStep, Expire, DamageFragments, RemoveRows, LoseState, LoseIndex, ChangeKey, NoMeta,
         MetaState
<1>5. ~up => \A h \in Handlers : fetch[h].pc = "idle"
  BY DEF Facts, Kept, DownInv, NoFetch
<1>6. SeenInv'
  BY <1>1, <1>4, <1>5 DEF AnnounceInv, SeenInv
<1>7. LossInv'
  BY <1>1, <1>3, LossKept DEF AnnounceInv
<1>8. ASSUME meta'.sealed PROVE Rows' = Rows \/ meta'.manifest # Rows'
  <2>1. Rows \subseteq meta.manifest /\ meta'.manifest = meta.manifest
    BY <1>4, <1>8 DEF Facts, SealInv
  <2>2. CASE RemoveRows
    <3>1. PICK rows \in (SUBSET Rows) \ {{}} :
            index' = [e \in Entries |-> IF e \in rows THEN 0 ELSE index[e]]
      BY <2>2 DEF RemoveRows
    <3>2. PICK e \in rows : e \in Rows
      BY <3>1
    <3>3. e \notin Rows' /\ e \in meta'.manifest
      BY <2>1, <3>1, <3>2 DEF Rows
    <3> QED
      BY <3>3
  <2>3. CASE LoseIndex
    BY <1>8, <2>3 DEF LoseIndex, NoMeta
  <2>4. CASE UNCHANGED index
    BY <2>4 DEF Rows
  <2> QED
    BY <2>2, <2>3, <2>4 DEF WorldStep, Expire, DamageFragments, LoseState, ChangeKey
<1>9. CleanInv'
  <2> SUFFICES ASSUME CleanRecord'
               PROVE  CleanRecord /\ meta'.epoch = meta.epoch /\ Astray' \subseteq Astray
    BY <1>1, CleanKept DEF AnnounceInv
  <2>1. Rows' = Rows
    BY <1>8 DEF CleanRecord
  <2> QED
    BY <1>1, <1>3, <1>4, <2>1 DEF CleanRecord, Astray
<1> QED
  BY <1>6, <1>7, <1>9 DEF AnnounceInv

(* A record that was out of date once stays remembered.                    *)
LEMMA StaleStays ==
  ASSUME Next, stale_write
  PROVE  stale_write'
<1> USE DEF queueVars, flushVars, epochVars, diskVars, clientVars, envVars
<1>1. ASSUME NEW ep, NEW clean, NEW rows, PutState(ep, clean, rows) PROVE stale_write'
  BY <1>1 DEF PutState
<1>2. CASE ClientStep \/ WorldStep
  BY <1>2 DEF ClientStep, Connect, WriteRateLimited, WriteRefused, WriteQueued, WriteAcked,
              WriteTimesOut, Delete, WorldStep, Expire, DamageFragments, RemoveRows, LoseState,
              LoseIndex, ChangeKey
<1>3. ASSUME NEW h \in Handlers, FetchStep(h) PROVE stale_write'
  BY <1>1, <1>3 DEF FetchStep, FetchList, ReadRecord, ReadFragments, FetchAnswered, DropLost,
                    BumpEpoch, PersistEpoch, PersistFails, AnnounceEpoch
<1>4. CASE RetainCommit
  BY <1>1, <1>4 DEF RetainCommit
<1>5. CASE (SaveStep /\ ~RetainCommit) \/ FlushFails \/ Sweep
  BY <1>1, <1>5 DEF SaveStep, FlushTake, SaveFragments, SaveCommit, RetainUnlink, MarkSaved,
                    FlushDone, FlushFails, Sweep
<1>6. CASE ProcessStep
  BY <1>1, <1>6 DEF ProcessStep, Shutdown, MarkCleanRead, MarkCleanWrite, Stop, Start,
                    StartInterrupted, StartInMemory
<1> QED
  BY <1>2, <1>3, <1>4, <1>5, <1>6 DEF Next

InOrder == stale_write \/ AnnounceInv

LEMMA InOrderCorrect == Spec => []InOrder
<1>1. Init => InOrder
  <2> SUFFICES ASSUME Init PROVE AnnounceInv
    BY DEF InOrder
  <2>1. SeenInv
    BY DEF Init, SeenInv, NoMeta, NoFetch
  <2>2. LossInv /\ CleanInv
    BY DEF Init, LossInv, CleanInv, CleanRecord, NoMeta
  <2> QED
    BY <2>1, <2>2 DEF AnnounceInv
<1>2. Facts /\ InOrder /\ [Next]_vars => InOrder'
  <2>1. InOrder /\ UNCHANGED vars => InOrder'
    BY DEF vars, queueVars, flushVars, epochVars, diskVars, clientVars, envVars, InOrder,
           AnnounceInv, SeenInv, LossInv, CleanInv, CleanRecord, Astray, Unheard, Sent, Settled,
           Rows, Acked
  <2> SUFFICES ASSUME Facts, InOrder, Next, ~stale_write' PROVE AnnounceInv'
    BY <2>1 DEF InOrder
  <2>2. AnnounceInv
    BY StaleStays DEF InOrder
  <2> QED
    BY <2>2, AnnounceClient, AnnounceFetch, AnnounceSave, AnnounceProcess, AnnounceWorld DEF Next
<1> QED
  BY <1>1, <1>2, TypeCorrect, KeptCorrect, StoredCorrect, MemoryCorrect, ReadEpochsCorrect,
     SealCorrect, IdCorrect, PTL DEF Spec, Facts

LEMMA AnnouncedSo ==
  ASSUME TypeOK, IdInv, AnnounceInv
  PROVE  LossIsAnnounced
<1> SUFFICES ASSUME NEW e \in LostMail \ flagged
             PROVE  \/ noted[WriterOf[e]] # wire
                    \/ wire # epoch
                    \/ \E h \in Handlers : fetch[h].pc \in {"bump", "persist", "announce"}
  BY DEF LossIsAnnounced
<1>1. up /\ e \in Unheard
  BY DEF LostMail, Unheard, Sent, Acked, Settled
<1> QED
  BY <1>1 DEF AnnounceInv, LossInv

(* Whatever is lost, wherever and however often the relay stops, fails to  *)
(* write, or has its disk changed under it: the writer of a lost mail was  *)
(* told, or will see another epoch than they noted, as long as no state    *)
(* record was out of date as it was written (mailstore.rs: the epoch       *)
(* "advances whenever queued mail may have been lost").                    *)
THEOREM LossAnnouncedInOrder == Spec => []LossIsAnnouncedInOrder
<1>1. TypeOK /\ IdInv /\ InOrder => LossIsAnnouncedInOrder
  BY AnnouncedSo DEF InOrder, LossIsAnnouncedInOrder
<1> QED
  BY <1>1, TypeCorrect, IdCorrect, InOrderCorrect, PTL

(* Without a mail store no state record is ever written: there every loss  *)
(* is announced, whatever the order of steps (state.rs: an epoch of its    *)
(* own for every process).                                                 *)
THEOREM LossAnnouncedInMemory == ASSUME ~Persistent PROVE Spec => []LossIsAnnounced
<1>1. TypeOK /\ IdInv /\ MemoryInv /\ InOrder => LossIsAnnounced
  BY AnnouncedSo DEF MemoryInv, MemoryOnly, InOrder
<1> QED
  BY <1>1, TypeCorrect, IdCorrect, MemoryCorrect, InOrderCorrect, PTL

-----------------------------------------------------------------------------
(* MailRelay implements MailQueue: what answers and holdings are, and that *)
(* mail which is owed is where MailQueue wants it.                         *)
Owing == {e \in Entries : Waiting(e) \/ write[e] = "acked"} \ Gone

Answered ==
  /\ AnswerNow \in [Entries -> {"none", "pending", "acked", "refused"}]
  /\ \A e \in Entries : /\ AnswerNow[e] = "none" <=> write[e] = "new"
                        /\ AnswerNow[e] = "pending" <=> Waiting(e)
                        /\ AnswerNow[e] = "acked" <=> write[e] = "acked"
                        /\ AnswerNow[e] = "refused" <=> write[e] = "refused"
OwedAtHand == Queue!Owed \subseteq IF up THEN mailboxes ELSE HeldNow

LEMMA AnswerIs ==
  ASSUME TypeOK
  PROVE  Answered /\ Queue!Owed = Owing
<1>1. Answered
  BY DEF TypeOK, AnswerNow, Waiting, Answered
<1> QED
  BY <1>1 DEF Answered, Owing, Queue!Owed

LEMMA OwedIsAtHand ==
  ASSUME Persistent, TypeOK, Kept
  PROVE  OwedAtHand
<1>1. CASE up
  BY <1>1, AnswerIs DEF OwedAtHand, Kept, QueueInv, Owing, Acked, Waiting, HeldNow, TypeOK
<1>2. CASE ~up
  BY <1>2, AnswerIs DEF OwedAtHand, Kept, QueueInv, DownInv, Owing, Acked, Waiting, HeldNow, TypeOK
<1> QED
  BY <1>1, <1>2

(* A step that answers nothing, and after which the relay holds no more    *)
(* and shows no more than before, is one of Release.                       *)
Falls == mailboxes' \subseteq mailboxes /\ HeldNow' \subseteq HeldNow

LEMMA FallsRelease ==
  ASSUME TypeOK', OwedAtHand', AnswerNow' = AnswerNow, up' = up, Gone \subseteq Gone', Falls
  PROVE  Queue!Next
<1>1. Gone' \in SUBSET Entries
  BY DEF TypeOK, Gone
<1>2. mailboxes' \subseteq HeldNow'
  BY DEF HeldNow
<1>3. Queue!Keeps({})
  BY <1>2 DEF Queue!Keeps, Falls, OwedAtHand
<1>4. Queue!Release(Gone')
  BY <1>3 DEF Queue!Release
<1> QED
  BY <1>1, <1>4 DEF Queue!Next

LEMMA QueueClient ==
  ASSUME Persistent, TypeOK, Kept, Answered, TypeOK', OwedAtHand', ClientStep
  PROVE  Queue!Next
<1> USE DEF queueVars, flushVars, epochVars, diskVars, clientVars, envVars
<1>0. /\ mailboxes' \subseteq HeldNow' /\ mailboxes \subseteq HeldNow
      /\ write \in [Entries -> {"new", "waiting", "unheard", "acked", "refused"}]
  BY DEF HeldNow, TypeOK
<1>1. ASSUME NEW a \in Accounts, Connect(a) PROVE Queue!Next
  <2>1. AnswerNow' = AnswerNow
    BY <1>0, <1>1 DEF Connect, AnswerNow, Waiting
  <2>2. up' = up /\ Gone' = Gone /\ Falls
    BY <1>1 DEF Connect, Gone, Falls, HeldNow, Rows
  <2> QED
    BY <2>1, <2>2, FallsRelease
<1>2. ASSUME NEW e \in Entries, WriteRateLimited(e) \/ WriteRefused(e)
      PROVE  Queue!Next
  <2>1. /\ up /\ write[e] = "new" /\ write' = [write EXCEPT ![e] = "refused"]
        /\ up' = up /\ Gone' = Gone /\ Falls
    BY <1>2 DEF WriteRateLimited, WriteRefused, WriteRequest, Keep, PrunedFor, Gone, Falls,
                HeldNow, Rows
  <2>2. AnswerNow' = [AnswerNow EXCEPT ![e] = "refused"]
    BY <1>0, <2>1 DEF AnswerNow, Waiting
  <2>3. Queue!Keeps({})
    BY <1>0, <2>1 DEF Queue!Keeps, Falls, OwedAtHand
  <2>4. Queue!Refuse(e)
    BY <2>1, <2>2, <2>3 DEF Queue!Refuse, Answered
  <2> QED
    BY <2>4 DEF Queue!Next
<1>3. ASSUME NEW e \in Entries, WriteQueued(e)
      PROVE  Queue!Next
  <2>1. /\ up /\ write[e] = "new" /\ write' = [write EXCEPT ![e] = "waiting"]
        /\ up' = up /\ Gone' = Gone
        /\ e \in mailboxes' /\ mailboxes' \subseteq mailboxes \union {e}
        /\ HeldNow' \subseteq HeldNow \union {e}
    BY <1>3 DEF WriteQueued, WriteRequest, Keep, PrunedFor, Gone, HeldNow, Rows
  <2>2. AnswerNow' = [AnswerNow EXCEPT ![e] = "pending"]
    BY <1>0, <2>1 DEF AnswerNow, Waiting
  <2>3. Queue!Keeps({e})
    BY <1>0, <2>1 DEF Queue!Keeps, OwedAtHand
  <2>4. Queue!Accept(e)
    BY <2>1, <2>2, <2>3 DEF Queue!Accept, Answered
  <2> QED
    BY <2>4 DEF Queue!Next
<1>4. ASSUME NEW e \in Entries, WriteAcked(e)
      PROVE  Queue!Next
  <2>1. /\ up /\ Waiting(e) /\ up' = up /\ Gone' = Gone
        /\ mailboxes' = mailboxes /\ HeldNow' = HeldNow
        /\ write' = [write EXCEPT ![e] = IF @ = "waiting" THEN "acked" ELSE "refused"]
    BY <1>4 DEF WriteAcked, Gone, HeldNow, Rows
  <2>2. CASE write[e] = "waiting"
    <3>1. AnswerNow' = [AnswerNow EXCEPT ![e] = "acked"]
      BY <1>0, <2>1, <2>2 DEF AnswerNow, Waiting
    <3>2. Queue!Acknowledge(e)
      BY <2>1, <3>1 DEF Queue!Acknowledge, Answered
    <3> QED
      BY <3>2 DEF Queue!Next
  <2>3. CASE write[e] # "waiting"
    <3>1. AnswerNow' = [AnswerNow EXCEPT ![e] = "refused"]
      BY <1>0, <2>1, <2>3 DEF AnswerNow, Waiting
    <3>2. Queue!Keeps({})
      BY <1>0, <2>1 DEF Queue!Keeps, OwedAtHand
    <3>3. Queue!Refuse(e)
      BY <2>1, <3>1, <3>2 DEF Queue!Refuse, Answered
    <3> QED
      BY <3>3 DEF Queue!Next
  <2> QED
    BY <2>2, <2>3
<1>5. ASSUME NEW e \in Entries, WriteTimesOut(e)
      PROVE  Queue!Next
  <2>1. /\ up /\ Waiting(e) /\ up' = up /\ Gone' = Gone /\ Falls
        /\ write' = [write EXCEPT ![e] = "refused"]
    BY <1>5 DEF WriteTimesOut, Keep, Gone, Falls, HeldNow, Rows
  <2>2. AnswerNow' = [AnswerNow EXCEPT ![e] = "refused"]
    BY <1>0, <2>1 DEF AnswerNow, Waiting
  <2>3. Queue!Keeps({})
    BY <1>0, <2>1 DEF Queue!Keeps, Falls, OwedAtHand
  <2>4. Queue!Refuse(e)
    BY <2>1, <2>2, <2>3 DEF Queue!Refuse, Answered
  <2> QED
    BY <2>4 DEF Queue!Next
<1>6. ASSUME NEW e \in Entries, Delete(e)
      PROVE  Queue!Next
  <2>1. /\ up' = up /\ Gone \subseteq Gone' /\ Falls /\ AnswerNow' = AnswerNow
    BY <1>6 DEF Delete, Keep, Gone, Falls, HeldNow, Rows, AnswerNow, Waiting
  <2> QED
    BY <2>1, FallsRelease
<1> QED
  BY <1>1, <1>2, <1>3, <1>4, <1>5, <1>6 DEF ClientStep

LEMMA QueueSave ==
  ASSUME TypeOK, Kept, TypeOK', OwedAtHand', SaveStep \/ FlushFails \/ Sweep
  PROVE  Queue!Next
<1> USE DEF queueVars, flushVars, epochVars, diskVars, clientVars, envVars
<1>1. up' = up /\ write' = write /\ collected' = collected /\ expired' = expired /\ damaged' = damaged
  BY DEF SaveStep, FlushTake, SaveFragments, SaveCommit, RetainCommit, RetainUnlink, MarkSaved,
         FlushDone, FlushFails, Sweep
<1>2. AnswerNow' = AnswerNow /\ Gone' = Gone
  BY <1>1 DEF AnswerNow, Waiting, Gone
<1>3. flush \in FlushState /\ index \in [Entries -> Nat]
  BY DEF TypeOK
<1>4. mailboxes' \subseteq mailboxes
  BY DEF SaveStep, FlushTake, SaveFragments, SaveCommit, RetainCommit, RetainUnlink, MarkSaved,
         FlushDone, FlushFails, Sweep, Keep
<1>5. Rows' \union flush'.batch \subseteq HeldNow
  <2>1. CASE FlushTake
    BY <2>1 DEF FlushTake, HeldNow, Rows, Live
  <2>2. CASE SaveFragments \/ RetainUnlink \/ MarkSaved
    BY <1>3, <2>2 DEF SaveFragments, RetainUnlink, MarkSaved, HeldNow, Rows, FlushState
  <2>3. CASE SaveCommit
    BY <1>3, <2>3 DEF SaveCommit, HeldNow, Rows, FlushState
  <2>4. CASE RetainCommit
    <3>1. flush'.batch = flush.batch
      BY <1>3, <2>4 DEF RetainCommit, FlushState
    <3>2. Rows' \subseteq Rows
      <4>1. index' = index \/ \A e \in Entries : index'[e] \in {0, index[e]}
        BY <2>4 DEF RetainCommit
      <4> QED
        BY <4>1 DEF Rows
    <3> QED
      BY <3>1, <3>2 DEF HeldNow
  <2>5. CASE FlushDone \/ FlushFails
    BY <2>5 DEF FlushDone, FlushFails, HeldNow, Rows, NoFlush
  <2>6. CASE Sweep
    BY <2>6 DEF Sweep, HeldNow, Rows
  <2> QED
    BY <2>1, <2>2, <2>3, <2>4, <2>5, <2>6 DEF SaveStep
<1>6. Falls
  BY <1>4, <1>5 DEF Falls, HeldNow
<1> QED
  BY <1>1, <1>2, <1>6, FallsRelease

LEMMA QueueFetch ==
  ASSUME TypeOK', OwedAtHand', NEW h \in Handlers, FetchStep(h)
  PROVE  Queue!Next
<1> USE DEF queueVars, flushVars, epochVars, diskVars, clientVars, envVars, Answer
<1>1. /\ UNCHANGED <<up, write, collected, expired, damaged, index, flush>>
      /\ mailboxes' \subseteq mailboxes
  BY DEF FetchStep, FetchList, ReadRecord, ReadFragments, FetchAnswered, DropLost, BumpEpoch,
         PersistEpoch, PersistFails, AnnounceEpoch, Keep
<1>2. AnswerNow' = AnswerNow /\ Gone' = Gone /\ Falls
  BY <1>1 DEF AnswerNow, Waiting, Gone, Falls, HeldNow, Rows
<1> QED
  BY <1>1, <1>2, FallsRelease

LEMMA QueueWorld ==
  ASSUME TypeOK, TypeOK', OwedAtHand', WorldStep
  PROVE  Queue!Next
<1> USE DEF queueVars, flushVars, epochVars, diskVars, clientVars, envVars
<1>1. /\ UNCHANGED <<up, write, collected, mailboxes, flush>>
      /\ expired \subseteq expired' /\ damaged \subseteq damaged' /\ Rows' \subseteq Rows
  <2> index \in [Entries -> Nat]
    BY DEF TypeOK
  <2> QED
    BY DEF WorldStep, Expire, DamageFragments, RemoveRows, LoseState, LoseIndex, ChangeKey, Rows
<1>2. AnswerNow' = AnswerNow /\ Gone \subseteq Gone' /\ Falls
  BY <1>1 DEF AnswerNow, Waiting, Gone, Falls, HeldNow
<1> QED
  BY <1>1, <1>2, FallsRelease

(* A stop takes with it what was in memory only, and none of that is owed; *)
(* a start shows what the disk still has.                                  *)
LEMMA QueueProcess ==
  ASSUME Persistent, TypeOK, Kept, Answered, OwedAtHand, TypeOK', OwedAtHand', ProcessStep
  PROVE  Queue!Next \/ UNCHANGED Queue!vars
<1> USE DEF queueVars, flushVars, epochVars, diskVars, clientVars, envVars
<1>0. write \in [Entries -> {"new", "waiting", "unheard", "acked", "refused"}]
  BY DEF TypeOK
<1>1. CASE Shutdown \/ MarkCleanRead \/ MarkCleanWrite \/ StartInterrupted
  <2>1. UNCHANGED <<up, write, mailboxes, flush, index, collected, expired, damaged>>
    BY <1>1 DEF Shutdown, MarkCleanRead, MarkCleanWrite, StartInterrupted
  <2>2. AnswerNow' = AnswerNow /\ Gone' = Gone /\ HeldNow' = HeldNow
    BY <2>1 DEF AnswerNow, Waiting, Gone, HeldNow, Rows
  <2> QED
    BY <2>1, <2>2 DEF Queue!vars
<1>2. CASE Stop
  <2>1. /\ up /\ up' = FALSE /\ mailboxes' = {} /\ Gone' = Gone
        /\ HeldNow' \subseteq HeldNow
        /\ write' = [e \in Entries |-> IF Waiting(e) THEN "refused" ELSE write[e]]
    BY <1>2 DEF Stop, Gone, HeldNow, Rows, NoFlush
  <2>2. AnswerNow' = [e \in Entries |-> IF AnswerNow[e] = "pending" THEN "refused" ELSE AnswerNow[e]]
    BY <1>0, <2>1 DEF AnswerNow, Waiting
  <2>3. Queue!Close
    BY <2>1, <2>2 DEF Queue!Close, OwedAtHand
  <2> QED
    BY <2>3 DEF Queue!Next
<1>3. CASE Start
  <2>1. /\ ~up /\ up' = TRUE /\ mailboxes' = Restorable /\ Gone' = Gone
        /\ UNCHANGED <<write, flush>>
        /\ index' = [e \in Entries |-> IF e \in Restorable THEN index[e] ELSE 0]
    BY <1>3 DEF Start, Gone
  <2>2. Restorable \subseteq Rows /\ Rows \subseteq Entries
    BY DEF Restorable, Rows
  <2>3. flush.batch = {}
    BY <2>1 DEF Kept, DownInv, NoFlush
  <2>4. HeldNow' = mailboxes' /\ mailboxes' \subseteq HeldNow
    BY <2>1, <2>2, <2>3 DEF HeldNow, Rows
  <2>5. AnswerNow' = AnswerNow
    BY <2>1 DEF AnswerNow, Waiting
  <2>6. Queue!Owed \subseteq mailboxes'
    BY <2>1, <2>5 DEF OwedAtHand, Queue!Owed
  <2>7. Queue!Reopen
    BY <2>1, <2>4, <2>5, <2>6 DEF Queue!Reopen
  <2> QED
    BY <2>7 DEF Queue!Next
<1>4. CASE StartInMemory
  BY <1>4 DEF StartInMemory
<1> QED
  BY <1>1, <1>2, <1>3, <1>4 DEF ProcessStep

(* A relay with a mail store keeps what MailQueue promises, at whatever    *)
(* step it saves, fetches, fails or stops, for any number of saves, faults *)
(* and restarts: every request is answered once, what is pending or        *)
(* acknowledged is in its mailbox whenever the relay runs, and mail that   *)
(* is no longer held never comes back (mailstore.rs module doc).           *)
THEOREM QueueIsImplemented == ASSUME Persistent PROVE Spec => QueueImplemented
<1>1. Init => Queue!Init
  BY DEF Init, Queue!Init, AnswerNow, HeldNow, Rows, Gone, Waiting, NoFlush
<1>2. TypeOK /\ Kept => Answered /\ OwedAtHand
  BY AnswerIs, OwedIsAtHand
<1>3. /\ TypeOK /\ Kept /\ Answered /\ OwedAtHand
      /\ TypeOK' /\ OwedAtHand' /\ [Next]_vars
      => [Queue!Next]_(Queue!vars)
  <2> SUFFICES ASSUME TypeOK, Kept, Answered, OwedAtHand, TypeOK', OwedAtHand', [Next]_vars
               PROVE  Queue!Next \/ UNCHANGED Queue!vars
    OBVIOUS
  <2>1. CASE UNCHANGED vars
    BY <2>1 DEF vars, queueVars, flushVars, epochVars, diskVars, clientVars, envVars, Queue!vars,
                AnswerNow, Waiting, HeldNow, Rows, Gone
  <2> QED
    BY <2>1, QueueClient, QueueSave, QueueFetch, QueueWorld, QueueProcess DEF Next
<1> QED
  BY <1>1, <1>2, <1>3, TypeCorrect, KeptCorrect, PTL DEF Spec, QueueImplemented, Queue!Spec

(* Mail the relay has let go of never comes back: what is in no mailbox,   *)
(* no row and no batch of a save stays away, whatever order saves, reads,  *)
(* failures and restarts come in (flush.rs).                               *)
THEOREM PurgedStaysAway ==
  ASSUME Persistent
  PROVE  Spec => [][\A e \in Entries : write[e] # "new" /\ e \notin HeldNow => e \notin HeldNow']_vars
<1> DEFINE Away == \A e \in Entries : write[e] # "new" /\ e \notin HeldNow => e \notin HeldNow'
<1>1. TypeOK => Answered
  BY AnswerIs
<1>2. ASSUME Answered, [Queue!Next]_(Queue!vars) PROVE Away
  <2>1. CASE UNCHANGED Queue!vars
    BY <2>1 DEF Queue!vars
  <2>2. ASSUME NEW c \in Entries, Queue!Accept(c) PROVE Away
    <3>1. write[c] = "new" /\ HeldNow' \subseteq HeldNow \union {c}
      BY <1>2, <2>2 DEF Answered, Queue!Accept, Queue!Keeps
    <3> QED
      BY <3>1
  <2>3. CASE \/ \E c \in Entries : Queue!Refuse(c) \/ Queue!Acknowledge(c)
             \/ \E es \in SUBSET Entries : Queue!Release(es)
             \/ Queue!Close \/ Queue!Reopen
    BY <2>3 DEF Queue!Refuse, Queue!Acknowledge, Queue!Release, Queue!Close, Queue!Reopen, Queue!Keeps
  <2> QED
    BY <1>2, <2>1, <2>2, <2>3 DEF Queue!Next
<1>3. Answered /\ [Queue!Next]_(Queue!vars) => [Away]_vars
  BY <1>2
<1> QED
  BY <1>1, <1>3, TypeCorrect, QueueIsImplemented, PTL DEF QueueImplemented, Queue!Spec
=============================================================================
