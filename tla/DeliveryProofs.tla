--------------------------- MODULE DeliveryProofs ---------------------------
(***************************************************************************)
(* Proofs about Delivery, for any messages, any number of transmissions    *)
(* and any faults.                                                         *)
(*                                                                         *)
(* Typed says what each device's work holds at each of its steps, and      *)
(* WrittenInv that positions only grow on the way from the session to the  *)
(* envelope in hand, the wire and the author's records.  CopiedInv says    *)
(* which record of a received chat can still be without its message id.    *)
(* From them follow the properties of one device.                          *)
(*                                                                         *)
(* The second part relates the devices: what an author is told of a        *)
(* message is true of the other device, and the whole implements           *)
(* Conversation.  SeenInv says that the other device has met no position   *)
(* past those put on the wire, so a new copy of a message is one nobody    *)
(* acknowledged yet.  TruthInv carries the truth of a confirmation from    *)
(* the key the other device used up, through the acknowledgement, to the   *)
(* record.  KnownInv says where a message the author sees as sent can be.  *)
(***************************************************************************)
EXTENDS Delivery, DataFacts, SequenceTheorems, TLAPS

-----------------------------------------------------------------------------
(* Positions are ordered by chain, then by index.                          *)
LEMMA BeforeOrder ==
  ASSUME NEW a \in Positions, NEW b \in Positions, NEW c \in Positions
  PROVE  /\ ~Before(a, a)
         /\ Before(a, b) \/ a = b \/ Before(b, a)
         /\ Before(a, b) /\ Before(b, c) => Before(a, c)
         /\ Before(a, b) /\ ~Before(c, b) => Before(a, c)
         /\ ~Before(b, a) /\ Before(b, c) => Before(a, c)
         /\ ~Before(b, a) /\ ~Before(c, b) => ~Before(c, a)
BY DEF Before, Positions

(* A session's own chain is the one after the peer's, and what it opened   *)
(* of a chain is bounded.                                                  *)
Sound(r) ==
  /\ r \in Sessions /\ r.own = r.peer + 1
  /\ \E bound \in Nat : \A at \in r.got : at[2] <= bound

LEMMA SessionFacts ==
  ASSUME NEW r, Sound(r)
  PROVE  /\ NextPosition(r) \in Positions /\ NextPosition(r) # NoPosition
         /\ Sound(Advanced(r))
         /\ NextPosition(Advanced(r)) \in Positions
         /\ Before(NextPosition(r), NextPosition(Advanced(r)))
         /\ Advanced(r).got = r.got
<1>1. Advanced(r) \in Sessions /\ Advanced(r).own = r.own /\ Advanced(r).next = r.next + 1
      /\ Advanced(r).peer = r.peer /\ Advanced(r).got = r.got
  BY DEF Sound, Sessions, Advanced
<1>2. Sound(Advanced(r))
  BY <1>1 DEF Sound
<1>3. r.own \in Nat /\ r.own # 0 /\ r.next \in Nat
  BY DEF Sound, Sessions
<1> QED BY <1>1, <1>2, <1>3 DEF NextPosition, NoPosition, Positions, Before

LEMMA OpenedFacts ==
  ASSUME NEW r, Sound(r), NEW at \in Positions
  PROVE  /\ Sound(Opened(r, at))
         /\ NextPosition(Opened(r, at)) \in Positions
         /\ ~Before(NextPosition(Opened(r, at)), NextPosition(r))
         /\ Opened(r, at).got = r.got \union {at}
<1> DEFINE o == Opened(r, at)
<1>1. /\ r.own \in Nat /\ r.next \in Nat /\ r.peer \in Nat /\ r.got \subseteq Positions
      /\ r.own = r.peer + 1 /\ at[1] \in Nat /\ at[2] \in Nat
  BY DEF Sound, Sessions, Positions
<1>2. o.got = r.got \union {at}
  BY DEF Opened
<1>3. o \in Sessions /\ o.own = o.peer + 1
  BY <1>1 DEF Opened, Sessions
<1>4. \E bound \in Nat : \A x \in o.got : x[2] <= bound
  <2>1. PICK bound \in Nat : \A x \in r.got : x[2] <= bound
    BY DEF Sound
  <2>2. CASE at[2] <= bound
    BY <1>2, <2>1, <2>2
  <2>3. CASE bound < at[2]
    <3>1. \A x \in r.got : x[2] <= at[2]
      <4> TAKE x \in r.got
      <4>1. x[2] \in Nat /\ x[2] <= bound
        BY <1>1, <2>1 DEF Positions
      <4> QED BY <1>1, <2>3, <4>1
    <3>2. \A x \in o.got : x[2] <= at[2]
      BY <1>1, <1>2, <3>1
    <3> QED BY <1>1, <3>2
  <2> QED BY <1>1, <2>1, <2>2, <2>3
<1>5. NextPosition(o) \in Positions
  BY <1>3 DEF NextPosition, Sessions, Positions
<1>6. ~Before(NextPosition(o), NextPosition(r))
  BY <1>1 DEF NextPosition, Opened, Before
<1> QED BY <1>2, <1>3, <1>4, <1>5, <1>6 DEF Sound

(* The cumulative ack claims only what was opened.                         *)
LEMMA ProgressFacts ==
  ASSUME NEW r, Sound(r)
  PROVE  /\ Progress(r) \in Positions
         /\ \/ Progress(r) = NoPosition
            \/ /\ Progress(r) \in r.got
               /\ \A at \in Positions :
                    at[1] = Progress(r)[1] /\ at[2] <= Progress(r)[2] => at \in r.got
<1> DEFINE whole == {at \in r.got : at[1] = r.peer /\ \A n \in 0..at[2] : <<at[1], n>> \in r.got}
           top == CHOOSE at \in whole : \A other \in whole : ~Before(at, other)
<1>1. r.got \subseteq Positions /\ r.peer \in Nat
  BY DEF Sound, Sessions
<1>2. CASE whole = {}
  <2>1. Progress(r) = NoPosition
    BY <1>2 DEF Progress
  <2> QED BY <2>1 DEF NoPosition, Positions
<1>3. CASE whole # {}
  <2>1. \A at \in whole : at \in Positions /\ at[1] = r.peer /\ at[2] \in Nat
    BY <1>1 DEF Positions
  <2>2. PICK bound \in Nat : \A at \in r.got : at[2] <= bound
    BY DEF Sound
  <2> DEFINE T == {at[2] : at \in whole}
  <2>3. T \in SUBSET Nat /\ T # {} /\ \A n \in T : n <= bound
    BY <1>3, <2>1, <2>2
  <2>4. PICK n \in T : \A k \in T : k <= n
    <3> HIDE DEF T
    <3> QED BY <2>3, LargestOf
  <2>5. PICK best \in whole : best[2] = n
    BY <2>4
  <2>6. \A other \in whole : ~Before(best, other)
    <3> TAKE other \in whole
    <3>1. other[2] \in Nat /\ best[2] \in Nat /\ other[2] <= best[2] /\ other[1] = best[1] /\ best[1] \in Nat
      BY <1>1, <2>1, <2>4, <2>5
    <3> QED BY <3>1 DEF Before
  <2>7. top \in whole
    <3> HIDE DEF whole
    <3> QED BY <2>6
  <2>8. Progress(r) = top
    BY <1>3 DEF Progress
  <2> HIDE DEF top
  <2>9. top \in r.got /\ top \in Positions /\ \A n1 \in 0..top[2] : <<top[1], n1>> \in r.got
    BY <1>1, <2>7
  <2>10. \A at \in Positions : at[1] = top[1] /\ at[2] <= top[2] => at \in r.got
    <3> TAKE at \in Positions
    <3> HAVE at[1] = top[1] /\ at[2] <= top[2]
    <3>1. at = <<top[1], at[2]>> /\ at[2] \in Nat /\ top[2] \in Nat
      BY <2>9 DEF Positions
    <3>2. at[2] \in 0..top[2]
      BY <3>1
    <3> QED BY <2>9, <3>1, <3>2
  <2> QED BY <2>8, <2>9, <2>10
<1> QED BY <1>2, <1>3

-----------------------------------------------------------------------------
(* Types. *)

Sending == {"sealed", "saved", "accepted"}
AtEntry == {"stored", "delete", "delete chat", "receipt", "receipt sealed"}
Passing == {"pass"} \union AtEntry
Flags == {"unsaved", "none", "SendFailed", "Expired", "ServerRestarted"}
Shown == [id : Messages, at : Positions, named : BOOLEAN]

(* What a device's work holds at each of its steps.                        *)
Holding(p) ==
  /\ step[p] = "idle" => out[p] = Nothing /\ batch[p] = <<>> /\ mem[p] = Nothing
  /\ step[p] # "idle" => conn[p] = "up"
  /\ step[p] \in Sending => out[p] \in Envelopes /\ out[p].kind = "chat" /\ AuthorOf[out[p].id] = p
  /\ step[p] = "receipt sealed" => out[p] \in Envelopes /\ out[p].kind = "receipt"
  /\ step[p] \in Passing => Sound(mem[p])
  /\ step[p] \in AtEntry => batch[p] # <<>>

Typed ==
  /\ ratchet \in [Parties -> Sessions] /\ \A p \in Parties : Sound(ratchet[p])
  /\ sent \in [Messages -> Records]
  /\ shown \in [Parties -> SUBSET Shown]
  /\ boot \in [Parties -> Nat] /\ heard \in [Parties -> Nat] /\ epoch \in Nat
  /\ verified \in [Parties -> BOOLEAN]
  /\ conn \in [Parties -> {"none", "lost", "greeted", "up"}]
  /\ step \in [Parties -> Steps]
  /\ out \in [Parties -> Envelopes \union {Nothing}]
  /\ batch \in [Parties -> Seq(Envelopes)] /\ mailbox \in [Parties -> Seq(Envelopes)]
  /\ mem \in [Parties -> Sessions \union {Nothing}]
  /\ removed \in [Parties -> Envelopes \union {Nothing}]
  /\ sealed \in [Parties -> Positions]
  /\ withheld \subseteq Messages /\ expired \subseteq Messages /\ halved \subseteq Messages
  /\ sends \in 0..MaxSends /\ faults \in 0..MaxFaults
  /\ \A p \in Parties : Holding(p)

LEMMA TypedNumbers ==
  ASSUME Typed
  PROVE  sends \in 0..MaxSends /\ faults \in 0..MaxFaults /\ epoch \in Nat
BY DEF Typed

LEMMA PeerFacts ==
  ASSUME NEW p \in Parties
  PROVE  /\ Peer(p) \in Parties /\ Peer(p) # p /\ Peer(Peer(p)) = p
         /\ \A q \in Parties : q = p \/ q = Peer(p)
BY DeliveryAssumption DEF Parties, Peer

LEMMA FaultTyped ==
  ASSUME Typed, Fault
  PROVE  faults' \in 0..MaxFaults
BY TypedNumbers, DeliveryAssumption DEF Fault

LEMMA ChatTyped ==
  ASSUME NEW at \in Positions, NEW m \in Messages, NEW acks \in Positions
  PROVE  Chat(at, m, acks) \in Envelopes /\ Receipt(at, m, acks) \in Envelopes
BY DEF Chat, Receipt, Envelopes

LEMMA RecordTyped ==
  ASSUME NEW at \in Positions, NEW d \in BOOLEAN, NEW r \in Flags
  PROVE  Record(at, d, r) \in Records
BY DEF Record, Records, Flags

LEMMA TypedInit == Init => Typed
<1> SUFFICES ASSUME Init PROVE Typed
  OBVIOUS
<1>1. \A p \in Parties : Sound(ratchet[p]) /\ ratchet[p] \in Sessions
  <2>1. Sound(Session(1, 0)) /\ Sound(Session(2, 1))
    BY DEF Sound, Session, Sessions
  <2> QED BY <2>1 DEF Init, Sound
<1>2. sent \in [Messages -> Records]
  <2>1. Unsaved \in Records
    BY DEF Unsaved, Records, NoPosition, Positions
  <2> QED BY <2>1 DEF Init
<1>3. NoPosition \in Positions
  BY DEF NoPosition, Positions
<1>4. /\ sends \in 0..MaxSends /\ faults \in 0..MaxFaults
      /\ boot \in [Parties -> Nat] /\ heard \in [Parties -> Nat] /\ epoch \in Nat
  BY DeliveryAssumption DEF Init
<1>5. ratchet \in [Parties -> Sessions]
  BY <1>1 DEF Init
<1>6. batch \in [Parties -> Seq(Envelopes)] /\ mailbox \in [Parties -> Seq(Envelopes)]
  BY EmptySeq DEF Init
<1>7. \A p \in Parties : Holding(p)
  BY DEF Init, Holding, Sending, Passing, AtEntry
<1>8. step \in [Parties -> Steps]
  BY DEF Init, Steps
<1> QED BY <1>1, <1>2, <1>3, <1>4, <1>5, <1>6, <1>7, <1>8 DEF Init, Typed

(* Work that ends leaves an idle device.                                   *)
LEMMA ReleaseTyped ==
  ASSUME Typed, NEW p \in Parties, Release(p)
  PROVE  /\ step' \in [Parties -> Steps]
         /\ out' \in [Parties -> Envelopes \union {Nothing}]
         /\ batch' \in [Parties -> Seq(Envelopes)]
         /\ mem' \in [Parties -> Sessions \union {Nothing}]
         /\ step'[p] = "idle" /\ out'[p] = Nothing /\ batch'[p] = <<>> /\ mem'[p] = Nothing
         /\ \A q \in Parties : q # p => /\ step'[q] = step[q] /\ out'[q] = out[q]
                                        /\ batch'[q] = batch[q] /\ mem'[q] = mem[q]
BY EmptySeq DEF Release, Typed, Steps

(* What a device holds depends on nothing of the other's.                  *)
LEMMA HoldingFrame ==
  ASSUME NEW q, Holding(q), conn'[q] = conn[q], step'[q] = step[q], out'[q] = out[q],
         batch'[q] = batch[q], mem'[q] = mem[q]
  PROVE  Holding(q)'
BY DEF Holding

LEMMA ReleasedHolds ==
  ASSUME Typed, NEW p \in Parties, Release(p),
         \A q \in Parties : q # p => conn'[q] = conn[q]
  PROVE  \A q \in Parties : Holding(q)'
<1> TAKE q \in Parties
<1>1. CASE q = p
  BY <1>1, ReleaseTyped DEF Holding, Sending, Passing, AtEntry
<1>2. CASE q # p
  BY <1>2, ReleaseTyped, HoldingFrame DEF Typed
<1> QED BY <1>1, <1>2

LEMMA OthersHold ==
  ASSUME Typed, NEW p \in Parties, Holding(p)',
         \A q \in Parties : q # p => /\ conn'[q] = conn[q] /\ step'[q] = step[q]
                                     /\ out'[q] = out[q] /\ batch'[q] = batch[q] /\ mem'[q] = mem[q]
  PROVE  \A q \in Parties : Holding(q)'
BY HoldingFrame DEF Typed

(* The envelopes a request queues, removes, or loses the answer to.        *)
LEMMA QueuedTyped ==
  ASSUME Typed, NEW p \in Parties, out[p] \in Envelopes, Queued(p)
  PROVE  mailbox' \in [Parties -> Seq(Envelopes)]
<1>1. mailbox[Peer(p)] \in Seq(Envelopes)
  BY PeerFacts DEF Typed
<1>2. Append(mailbox[Peer(p)], out[p]) \in Seq(Envelopes)
  BY <1>1, RanAppend
<1> QED BY <1>2, PeerFacts DEF Queued, Typed

LEMMA RanRemoved ==
  ASSUME NEW box \in Seq(Envelopes), NEW at
  PROVE  RemovedAt(box, at) \in Seq(Envelopes) /\ Ran(RemovedAt(box, at)) \subseteq Ran(box)
<1> DEFINE here == {i \in DOMAIN box : box[i].at = at}
<1>1. CASE here = {}
  BY <1>1 DEF RemovedAt
<1>2. CASE here # {}
  <2> DEFINE i == CHOOSE j \in here : TRUE
  <2>1. i \in here
    BY <1>2
  <2>2. i \in 1..Len(box)
    BY <2>1, LenProperties
  <2>3. RemovedAt(box, at) = SubSeq(box, 1, i - 1) \o SubSeq(box, i + 1, Len(box))
    BY <1>2 DEF RemovedAt
  <2> HIDE DEF i
  <2> QED BY <2>2, <2>3, RanSubSeq
<1> QED BY <1>1, <1>2

(* Every entry of another position stays.                                  *)
LEMMA RanKept ==
  ASSUME NEW box \in Seq(Envelopes), NEW at, NEW e \in Ran(box), e.at # at
  PROVE  e \in Ran(RemovedAt(box, at))
<1> DEFINE here == {i \in DOMAIN box : box[i].at = at}
<1>1. CASE here = {}
  BY <1>1 DEF RemovedAt
<1>2. CASE here # {}
  <2> DEFINE i == CHOOSE j \in here : TRUE
  <2>1. i \in here
    BY <1>2
  <2>2. i \in 1..Len(box) /\ box[i].at = at
    BY <2>1, LenProperties
  <2>3. RemovedAt(box, at) = SubSeq(box, 1, i - 1) \o SubSeq(box, i + 1, Len(box))
    BY <1>2 DEF RemovedAt
  <2> HIDE DEF i
  <2>4. PICK j \in 1..Len(box) : e = box[j]
    BY LenProperties DEF Ran
  <2>5. j # i
    BY <2>2, <2>4
  <2> QED BY <2>2, <2>3, <2>4, <2>5, RanSubSeq
<1> QED BY <1>1, <1>2

LEMMA RemovedTyped ==
  ASSUME Typed, NEW p \in Parties, batch[p] # <<>>, Removed(p)
  PROVE  mailbox' \in [Parties -> Seq(Envelopes)] /\ removed' \in [Parties -> Envelopes \union {Nothing}]
<1>1. batch[p] \in Seq(Envelopes) /\ mailbox[p] \in Seq(Envelopes)
  BY DEF Typed
<1>2. Head(batch[p]) \in Envelopes
  BY <1>1, RanHeadTail
<1>3. RemovedAt(mailbox[p], Head(batch[p]).at) \in Seq(Envelopes)
  BY <1>1, RanRemoved
<1> QED BY <1>2, <1>3 DEF Removed, Typed

LEMMA EndedTyped ==
  ASSUME Typed, NEW p \in Parties, Refused(p) \/ Unanswered(p)
  PROVE  /\ conn' \in [Parties -> {"none", "lost", "greeted", "up"}]
         /\ \A q \in Parties : q # p => conn'[q] = conn[q]
         /\ heard' = heard /\ epoch' = epoch
         /\ Release(p) /\ faults' \in 0..MaxFaults
         /\ UNCHANGED <<withheld, expired, halved, sends>>
<1>1. faults' \in 0..MaxFaults
  BY FaultTyped, TypedNumbers DEF Refused, Unanswered, Fault
<1> QED BY <1>1 DEF Refused, Unanswered, linkVars, relayVars, Typed

LEMMA TypedStep == Typed /\ [Next]_vars => Typed'
<1> SUFFICES ASSUME Typed, [Next]_vars PROVE Typed'
  OBVIOUS
<1> USE DEF diskVars, workVars, linkVars, relayVars, boundVars
<1>1. ASSUME NEW p \in Parties, NEW m \in Messages, SealChat(p, m) PROVE Typed'
  <2>1. Sound(ratchet[p]) /\ m \in Messages /\ AuthorOf[m] = p
    BY <1>1 DEF SealChat, Sendable, OwnMessages, Typed
  <2>2. out'[p] = Chat(NextPosition(ratchet[p]), m, Progress(ratchet[p])) /\ out'[p] \in Envelopes
    BY <1>1, <2>1, SessionFacts, ProgressFacts, ChatTyped DEF SealChat, Typed
  <2>3. /\ ratchet' \in [Parties -> Sessions] /\ \A q \in Parties : Sound(ratchet'[q])
    BY <1>1, <2>1, SessionFacts DEF SealChat, SavedBeforeSend, Typed, Sound
  <2>4. sends' \in 0..MaxSends
    BY <1>1, TypedNumbers, DeliveryAssumption DEF SealChat
  <2>5. /\ step' \in [Parties -> Steps] /\ step'[p] = "sealed" /\ conn' = conn /\ conn[p] = "up"
        /\ \A q \in Parties : q # p => step'[q] = step[q] /\ out'[q] = out[q]
        /\ batch' = batch /\ mem' = mem
    BY <1>1 DEF SealChat, Online, Typed, Steps
  <2>6. Holding(p)'
    BY <2>1, <2>2, <2>5 DEF Holding, Sending, Passing, AtEntry, Chat
  <2>7. \A q \in Parties : Holding(q)'
    BY <2>5, <2>6, OthersHold
  <2>8. out' \in [Parties -> Envelopes \union {Nothing}]
    BY <1>1, <2>2 DEF SealChat, Typed
  <2> QED BY <1>1, <2>3, <2>4, <2>5, <2>7, <2>8 DEF SealChat, Typed
<1>2. ASSUME NEW p \in Parties, SaveFlagged(p) PROVE Typed'
  <2>1. out[p] \in Envelopes /\ Holding(p) /\ out[p].id \in Messages /\ out[p].at \in Positions
    BY <1>2 DEF SaveFlagged, Typed, Holding, Sending, Envelopes
  <2>2. sent' \in [Messages -> Records]
    BY <1>2, <2>1, RecordTyped DEF SaveFlagged, Typed, Flags
  <2>3. /\ step' \in [Parties -> Steps] /\ step[p] = "sealed" /\ step'[p] = "saved" /\ conn' = conn
        /\ \A q \in Parties : q # p => step'[q] = step[q]
        /\ out' = out /\ batch' = batch /\ mem' = mem
    BY <1>2 DEF SaveFlagged, Typed, Steps
  <2>4. Holding(p)'
    BY <2>1, <2>3 DEF Holding, Sending, Passing, AtEntry
  <2>5. \A q \in Parties : Holding(q)'
    BY <2>3, <2>4, OthersHold
  <2> QED BY <1>2, <2>2, <2>3, <2>5 DEF SaveFlagged, Typed
<1>3. ASSUME NEW p \in Parties, WriteChat(p) PROVE Typed'
  <2>1. out[p] \in Envelopes /\ Holding(p) /\ step[p] = "saved" /\ out[p].at \in Positions
    BY <1>3 DEF WriteChat, Typed, Holding, Sending, Envelopes
  <2>2. sealed' \in [Parties -> Positions] /\ UNCHANGED diskVars
    BY <1>3, <2>1 DEF WriteChat, OnTheWire, Typed
  <2>3. mailbox' \in [Parties -> Seq(Envelopes)] /\ removed' = removed /\ epoch' = epoch
    BY <1>3, <2>1, QueuedTyped DEF WriteChat, Refused, Unanswered, Typed
  <2>4. CASE Refused(p) \/ Unanswered(p)
    <3>1. \A q \in Parties : Holding(q)'
      BY <2>4, EndedTyped, ReleasedHolds
    <3> QED BY <2>2, <2>3, <2>4, <3>1, EndedTyped, ReleaseTyped DEF Typed
  <2>5. CASE step' = [step EXCEPT ![p] = "accepted"] /\ UNCHANGED <<linkVars, out, batch, mem, removed, epoch, boundVars>>
    <3>1. Holding(p)'
      BY <2>1, <2>5 DEF Holding, Sending, Passing, AtEntry, Typed
    <3>2. \A q \in Parties : Holding(q)'
      BY <2>5, <3>1, OthersHold DEF Typed
    <3>3. step' \in [Parties -> Steps]
      BY <2>5 DEF Typed, Steps
    <3> QED BY <2>2, <2>3, <2>5, <3>2, <3>3 DEF Typed
  <2> QED BY <1>3, <2>4, <2>5 DEF WriteChat
<1>4. ASSUME NEW p \in Parties, SaveAccepted(p) PROVE Typed'
  <2>1. out[p].id \in Messages /\ out[p].at \in Positions
    BY <1>4 DEF SaveAccepted, Typed, Holding, Sending, Envelopes
  <2>2. sent' \in [Messages -> Records]
    BY <1>4, <2>1, RecordTyped DEF SaveAccepted, Typed, Flags
  <2>3. \A q \in Parties : Holding(q)'
    BY <1>4, ReleasedHolds DEF SaveAccepted
  <2> QED BY <1>4, <2>2, <2>3, ReleaseTyped DEF SaveAccepted, Typed
<1>5. ASSUME NEW p \in Parties, NEW m \in Messages, KeepUnsent(p, m) \/ FlagLost(p, m) \/ MarkExpired(p, m)
      PROVE Typed'
  <2>1. sent' \in [Messages -> Records]
    <3>1. PICK r \in Flags : sent' = [sent EXCEPT ![m].retry = r]
      BY <1>5 DEF KeepUnsent, FlagLost, MarkExpired, Flags
    <3>2. sent[m] \in Records
      BY DEF Typed
    <3>3. [sent[m] EXCEPT !.retry = r] \in Records
      BY <3>2 DEF Records, Flags
    <3> QED BY <3>1, <3>3 DEF Typed
  <2>2. \A q \in Parties : Holding(q)'
    BY <1>5, HoldingFrame DEF KeepUnsent, FlagLost, MarkExpired, Typed
  <2> QED BY <1>5, <2>1, <2>2 DEF KeepUnsent, FlagLost, MarkExpired, Typed
<1>6. ASSUME NEW p \in Parties, Fetch(p) PROVE Typed'
  <2>1. CASE Unanswered(p) /\ UNCHANGED <<mailbox, removed>>
    <3>1. \A q \in Parties : Holding(q)'
      BY <2>1, EndedTyped, ReleasedHolds
    <3> QED BY <1>6, <2>1, <3>1, EndedTyped, ReleaseTyped DEF Fetch, Typed
  <2>2. CASE /\ step' = [step EXCEPT ![p] = "pass"]
             /\ batch' = [batch EXCEPT ![p] = mailbox[p]]
             /\ mem' = [mem EXCEPT ![p] = ratchet[p]]
             /\ UNCHANGED <<linkVars, out, relayVars, boundVars>>
    <3>1. /\ step' \in [Parties -> Steps] /\ step'[p] = "pass" /\ mem'[p] = ratchet[p] /\ conn' = conn
          /\ batch' \in [Parties -> Seq(Envelopes)] /\ mem' \in [Parties -> Sessions \union {Nothing}]
          /\ out' = out /\ conn[p] = "up" /\ Sound(ratchet[p])
          /\ \A q \in Parties : q # p => step'[q] = step[q] /\ batch'[q] = batch[q] /\ mem'[q] = mem[q]
      BY <1>6, <2>2 DEF Fetch, Online, Typed, Steps
    <3>2. Holding(p)'
      BY <3>1 DEF Holding, Sending, Passing, AtEntry
    <3>3. \A q \in Parties : Holding(q)'
      BY <3>1, <3>2, OthersHold
    <3> QED BY <1>6, <2>2, <3>1, <3>3 DEF Fetch, Typed
  <2> QED BY <1>6, <2>1, <2>2 DEF Fetch
<1>7. ASSUME NEW p \in Parties, ApplyEntry(p) PROVE Typed'
  <2> DEFINE e == Head(batch[p])
  <2>1. /\ batch[p] \in Seq(Envelopes) /\ batch[p] # <<>> /\ step[p] = "pass" /\ conn[p] = "up"
        /\ Sound(mem[p]) /\ Holding(p)
    BY <1>7 DEF ApplyEntry, Typed, Holding, Passing
  <2>2. e \in Envelopes
    BY <2>1, RanHeadTail
  <2> HIDE DEF e
  <2>3. e.at \in Positions /\ e.id \in Messages
    BY <2>2 DEF Envelopes
  <2>4. /\ mem' = mem \/ mem' = [mem EXCEPT ![p] = Opened(mem[p], e.at)]
        /\ \E s \in {"delete", "delete chat", "stored"} : step' = [step EXCEPT ![p] = s]
        /\ sent' = sent \/ sent' = Confirmed(p, e)
        /\ shown' = shown \/ shown' = [shown EXCEPT ![p] = Stored(p, e)]
        /\ withheld' = withheld \/ withheld' = withheld \union {e.id}
    BY <1>7 DEF ApplyEntry, e
  <2>5. mem' \in [Parties -> Sessions \union {Nothing}] /\ Sound(mem'[p])
    <3>1. Sound(Opened(mem[p], e.at))
      BY <2>1, <2>3, OpenedFacts
    <3>2. Opened(mem[p], e.at) \in Sessions
      BY <3>1 DEF Sound
    <3>3. mem \in [Parties -> Sessions \union {Nothing}]
      BY DEF Typed
    <3> QED BY <2>1, <2>4, <3>1, <3>2, <3>3
  <2>6. Confirmed(p, e) \in [Messages -> Records]
    <3>1. \A m \in Messages : sent[m] \in Records /\ sent[m].at \in Positions
      BY DEF Typed, Records
    <3>2. \A m \in Messages : Record(sent[m].at, TRUE, "none") \in Records
      BY <3>1, RecordTyped DEF Flags
    <3> QED BY <3>1, <3>2 DEF Confirmed
  <2>7. shown' \in [Parties -> SUBSET Shown]
    <3>1. shown \in [Parties -> SUBSET Shown]
      BY DEF Typed
    <3>2. Copy(e, FALSE) \in Shown
      BY <2>3 DEF Shown, Copy
    <3>3. Stored(p, e) \in SUBSET Shown
      BY <3>1, <3>2 DEF Stored
    <3> QED BY <2>4, <3>1, <3>3
  <2>8. /\ step' \in [Parties -> Steps] /\ step'[p] \in {"delete", "delete chat", "stored"}
        /\ \A q \in Parties : q # p => step'[q] = step[q] /\ mem'[q] = mem[q]
        /\ conn' = conn /\ out' = out /\ batch' = batch
    <3>1. conn' = conn /\ out' = out /\ batch' = batch
      BY <1>7 DEF ApplyEntry
    <3>2. step \in [Parties -> Steps]
      BY DEF Typed
    <3>3. step' \in [Parties -> Steps] /\ step'[p] \in {"delete", "delete chat", "stored"}
      BY <2>4, <3>2 DEF Steps
    <3>4. \A q \in Parties : q # p => step'[q] = step[q]
      BY <2>4, <3>2
    <3>5. \A q \in Parties : q # p => mem'[q] = mem[q]
      <4>1. mem \in [Parties -> Sessions \union {Nothing}]
        BY DEF Typed
      <4> QED BY <2>4, <4>1
    <3> QED BY <3>1, <3>3, <3>4, <3>5
  <2>9. Holding(p)'
    BY <2>1, <2>5, <2>8 DEF Holding, Sending, Passing, AtEntry
  <2>10. \A q \in Parties : Holding(q)'
    BY <2>8, <2>9, OthersHold
  <2>11. sent' \in [Messages -> Records] /\ withheld' \subseteq Messages
    BY <2>3, <2>4, <2>6 DEF Typed
  <2> QED BY <1>7, <2>5, <2>7, <2>8, <2>10, <2>11 DEF ApplyEntry, Typed
<1>8. ASSUME NEW p \in Parties, DeleteEntry(p) PROVE Typed'
  <2>1. batch[p] # <<>> /\ Holding(p) /\ conn[p] = "up" /\ batch[p] \in Seq(Envelopes)
    BY <1>8 DEF DeleteEntry, Typed, Holding, AtEntry
  <2>2. mailbox' \in [Parties -> Seq(Envelopes)] /\ removed' \in [Parties -> Envelopes \union {Nothing}]
        /\ epoch' = epoch
    BY <1>8, <2>1, RemovedTyped DEF DeleteEntry, Refused, Unanswered, Typed
  <2>3. CASE Refused(p) \/ Unanswered(p)
    <3>1. \A q \in Parties : Holding(q)'
      BY <2>3, EndedTyped, ReleasedHolds
    <3> QED BY <1>8, <2>2, <2>3, <3>1, EndedTyped, ReleaseTyped DEF DeleteEntry, Typed
  <2>4. CASE /\ IF step[p] = "delete" THEN NextEntry(p)
                ELSE step' = [step EXCEPT ![p] = "receipt"] /\ UNCHANGED batch
             /\ UNCHANGED <<linkVars, out, mem, epoch, boundVars>>
    <3>1. Tail(batch[p]) \in Seq(Envelopes)
      BY <2>1, RanHeadTail
    <3>2. /\ batch' \in [Parties -> Seq(Envelopes)] /\ step' \in [Parties -> Steps]
          /\ step'[p] = "pass" \/ (step'[p] = "receipt" /\ batch' = batch)
          /\ \A q \in Parties : q # p => step'[q] = step[q] /\ batch'[q] = batch[q]
      BY <2>4, <3>1 DEF NextEntry, Typed, Steps
    <3>3. Sound(mem[p]) /\ mem' = mem /\ conn' = conn /\ out' = out
      BY <1>8, <2>4 DEF DeleteEntry, Typed, Holding, Passing, AtEntry
    <3>4. Holding(p)'
      BY <2>1, <3>2, <3>3 DEF Holding, Sending, Passing, AtEntry
    <3>5. \A q \in Parties : Holding(q)'
      BY <3>2, <3>3, <3>4, OthersHold
    <3> QED BY <1>8, <2>2, <2>4, <3>2, <3>5 DEF DeleteEntry, Typed
  <2> QED BY <1>8, <2>3, <2>4 DEF DeleteEntry
<1>9. ASSUME NEW p \in Parties, SealReceipt(p) PROVE Typed'
  <2> DEFINE e == Head(batch[p])
  <2>1. batch[p] \in Seq(Envelopes) /\ batch[p] # <<>> /\ Sound(mem[p]) /\ conn[p] = "up"
    BY <1>9 DEF SealReceipt, Typed, Holding, Passing, AtEntry
  <2>2. e \in Envelopes
    BY <2>1, RanHeadTail
  <2>3. e.at \in Positions /\ e.id \in Messages
    BY <2>2 DEF Envelopes
  <2>4. out'[p] = Receipt(NextPosition(mem[p]), e.id, e.at) /\ out'[p] \in Envelopes /\ out'[p].kind = "receipt"
    BY <1>9, <2>1, <2>3, SessionFacts, ChatTyped DEF SealReceipt, Typed, Receipt
  <2> HIDE DEF e
  <2>5. /\ ratchet' \in [Parties -> Sessions] /\ \A q \in Parties : Sound(ratchet'[q])
        /\ mem' \in [Parties -> Sessions \union {Nothing}] /\ Sound(mem'[p])
    BY <1>9, <2>1, SessionFacts DEF SealReceipt, SavedBeforeSend, Typed, Sound
  <2>6. out' \in [Parties -> Envelopes \union {Nothing}]
    BY <1>9, <2>4 DEF SealReceipt, Typed
  <2>7. /\ step' \in [Parties -> Steps] /\ step'[p] = "receipt sealed" /\ conn' = conn /\ batch' = batch
        /\ \A q \in Parties : q # p => step'[q] = step[q] /\ out'[q] = out[q] /\ mem'[q] = mem[q]
    BY <1>9 DEF SealReceipt, Typed, Steps
  <2>8. Holding(p)'
    BY <2>1, <2>4, <2>5, <2>7 DEF Holding, Sending, Passing, AtEntry
  <2>9. \A q \in Parties : Holding(q)'
    BY <2>7, <2>8, OthersHold
  <2> QED BY <1>9, <2>5, <2>6, <2>7, <2>9 DEF SealReceipt, Typed
<1>10. ASSUME NEW p \in Parties, WriteReceipt(p) PROVE Typed'
  <2>1. /\ out[p] \in Envelopes /\ Holding(p) /\ out[p].at \in Positions /\ Sound(mem[p]) /\ conn[p] = "up"
        /\ batch[p] \in Seq(Envelopes) /\ batch[p] # <<>>
    BY <1>10 DEF WriteReceipt, Typed, Holding, Passing, AtEntry, Envelopes
  <2>2. sealed' \in [Parties -> Positions] /\ UNCHANGED diskVars
    BY <1>10, <2>1 DEF WriteReceipt, OnTheWire, Typed
  <2>3. mailbox' \in [Parties -> Seq(Envelopes)] /\ removed' = removed /\ epoch' = epoch
    BY <1>10, <2>1, QueuedTyped DEF WriteReceipt, Refused, Unanswered, Typed
  <2>4. CASE Refused(p) \/ Unanswered(p)
    <3>1. \A q \in Parties : Holding(q)'
      BY <2>4, EndedTyped, ReleasedHolds
    <3> QED BY <2>2, <2>3, <2>4, <3>1, EndedTyped, ReleaseTyped DEF Typed
  <2>5. CASE /\ NextEntry(p) /\ out' = [out EXCEPT ![p] = Nothing]
             /\ UNCHANGED <<linkVars, mem, removed, epoch, boundVars>>
    <3>1. Tail(batch[p]) \in Seq(Envelopes)
      BY <2>1, RanHeadTail
    <3>2. /\ batch' \in [Parties -> Seq(Envelopes)] /\ step' \in [Parties -> Steps]
          /\ out' \in [Parties -> Envelopes \union {Nothing}] /\ step'[p] = "pass"
          /\ mem' = mem /\ conn' = conn
          /\ \A q \in Parties : q # p => step'[q] = step[q] /\ batch'[q] = batch[q] /\ out'[q] = out[q]
      BY <2>5, <3>1 DEF NextEntry, Typed, Steps
    <3>3. Holding(p)'
      BY <2>1, <3>2 DEF Holding, Sending, Passing, AtEntry
    <3>4. \A q \in Parties : Holding(q)'
      BY <3>2, <3>3, OthersHold
    <3> QED BY <2>2, <2>3, <2>5, <3>2, <3>4 DEF Typed
  <2> QED BY <1>10, <2>4, <2>5 DEF WriteReceipt
<1>11. ASSUME NEW p \in Parties, EndPass(p) PROVE Typed'
  <2>1. Sound(mem[p])
    BY <1>11 DEF EndPass, Typed, Holding, Passing
  <2>2. ratchet' \in [Parties -> Sessions] /\ \A q \in Parties : Sound(ratchet'[q])
    BY <1>11, <2>1 DEF EndPass, Typed, Sound
  <2>3. \A q \in Parties : Holding(q)'
    BY <1>11, ReleasedHolds DEF EndPass
  <2> QED BY <1>11, <2>2, <2>3, ReleaseTyped DEF EndPass, Typed
<1>12. ASSUME NEW p \in Parties, Connect(p) \/ Adopt(p) PROVE Typed'
  <2>1. step[p] = "idle"
    BY <1>12 DEF Connect, Adopt, Idle, Typed, Holding
  <2>2. /\ UNCHANGED <<ratchet, sent, shown, boot, verified, step, out, batch, mem, epoch, mailbox,
                       removed, sealed, withheld, expired, halved, sends, faults>>
        /\ conn' \in [Parties -> {"none", "lost", "greeted", "up"}] /\ heard' \in [Parties -> Nat]
    <3>1. CASE Connect(p)
      BY <3>1 DEF Connect, Typed
    <3>2. CASE Adopt(p)
      BY <3>2 DEF Adopt, Typed
    <3> QED BY <1>12, <3>1, <3>2
  <2>3. Holding(p)'
    <3>1. Holding(p) /\ step'[p] = "idle" /\ out' = out /\ batch' = batch /\ mem' = mem
      BY <2>1, <2>2 DEF Typed
    <3> QED BY <2>1, <3>1 DEF Holding, Sending, Passing, AtEntry
  <2>4. \A q \in Parties : Holding(q)'
    <3>1. \A q \in Parties : q # p => conn'[q] = conn[q]
      BY <1>12 DEF Connect, Adopt, Typed
    <3> QED BY <2>2, <2>3, <3>1, OthersHold
  <2> QED BY <2>2, <2>4 DEF Typed
<1>13. ASSUME NEW p \in Parties, NoteBoot(p) PROVE Typed'
  <2>1. \A q \in Parties : Holding(q)'
    BY <1>13, HoldingFrame DEF NoteBoot, Typed
  <2> QED BY <1>13, <2>1 DEF NoteBoot, Typed
<1>14. ASSUME NEW p \in Parties, NEW matches \in BOOLEAN, RecordVerification(p, matches) PROVE Typed'
  <2>1. faults' \in 0..MaxFaults
    BY <1>14, FaultTyped, TypedNumbers DEF RecordVerification
  <2>2. \A q \in Parties : Holding(q)'
    BY <1>14, HoldingFrame DEF RecordVerification, Typed
  <2>3. verified' \in [Parties -> BOOLEAN]
    BY <1>14 DEF RecordVerification, Typed
  <2> QED BY <1>14, <2>1, <2>2, <2>3 DEF RecordVerification, Typed
<1>15. ASSUME NEW p \in Parties, Crash(p) PROVE Typed'
  <2>1. \A q \in Parties : Holding(q)'
    BY <1>15, ReleasedHolds DEF Crash, Typed
  <2>2. halved' \subseteq Messages
    <3>1. ASSUME step[p] = "stored" PROVE Head(batch[p]).id \in Messages
      <4>1. batch[p] \in Seq(Envelopes) /\ batch[p] # <<>>
        BY <3>1 DEF Typed, Holding, AtEntry
      <4>2. Head(batch[p]) \in Envelopes
        BY <4>1, RanHeadTail
      <4> QED BY <4>2 DEF Envelopes
    <3> QED BY <1>15, <3>1 DEF Crash, Typed
  <2> QED BY <1>15, <2>1, <2>2, FaultTyped, ReleaseTyped DEF Crash, Typed
<1>16. CASE Restart
  <2>1. epoch' \in Nat /\ faults' \in 0..MaxFaults
    BY <1>16, TypedNumbers, FaultTyped DEF Restart
  <2>2. \A q \in Parties : Holding(q)'
    BY <1>16, HoldingFrame DEF Restart, Typed
  <2>3. mailbox' \in [Parties -> Seq(Envelopes)] /\ removed' \in [Parties -> Envelopes \union {Nothing}]
    BY <1>16, EmptySeq DEF Restart
  <2> QED BY <1>16, <2>1, <2>2, <2>3 DEF Restart, Typed
<1>17. ASSUME NEW p \in Parties, Reappear(p) PROVE Typed'
  <2>1. removed[p] \in Envelopes /\ mailbox[p] \in Seq(Envelopes)
    BY <1>17 DEF Reappear, Typed
  <2>2. <<removed[p]>> \o mailbox[p] \in Seq(Envelopes)
    BY <2>1, RanPrepend
  <2>3. mailbox' \in [Parties -> Seq(Envelopes)] /\ removed' \in [Parties -> Envelopes \union {Nothing}]
    BY <1>17, <2>2 DEF Reappear, Typed
  <2>4. \A q \in Parties : Holding(q)'
    BY <1>17, HoldingFrame DEF Reappear, Typed
  <2>5. faults' \in 0..MaxFaults
    BY <1>17, FaultTyped DEF Reappear
  <2> QED BY <1>17, <2>3, <2>4, <2>5 DEF Reappear, Typed
<1>18. ASSUME NEW p \in Parties, Expire(p) PROVE Typed'
  <2>1. mailbox[p] \in Seq(Envelopes) /\ mailbox[p] # <<>>
    BY <1>18 DEF Expire, Typed
  <2>2. Head(mailbox[p]) \in Envelopes /\ Tail(mailbox[p]) \in Seq(Envelopes)
    BY <2>1, RanHeadTail
  <2>3. mailbox' \in [Parties -> Seq(Envelopes)] /\ expired' \subseteq Messages
    BY <1>18, <2>2 DEF Expire, Typed, Envelopes
  <2>4. \A q \in Parties : Holding(q)'
    BY <1>18, HoldingFrame DEF Expire, Typed
  <2>5. faults' \in 0..MaxFaults
    BY <1>18, FaultTyped DEF Expire
  <2> QED BY <1>18, <2>3, <2>4, <2>5 DEF Expire, Typed
<1>19. ASSUME NEW p \in Parties, SaveId(p) PROVE Typed'
  <2> DEFINE e == Head(batch[p])
  <2>1. /\ batch[p] \in Seq(Envelopes) /\ batch[p] # <<>> /\ conn[p] = "up" /\ Sound(mem[p])
    BY <1>19 DEF SaveId, Typed, Holding, Passing, AtEntry
  <2>2. e \in Envelopes
    BY <2>1, RanHeadTail
  <2>3. shown' \in [Parties -> SUBSET Shown]
    <3>1. Copy(e, TRUE) \in Shown
      BY <2>2 DEF Shown, Copy, Envelopes
    <3>2. Named(p, e) \in SUBSET Shown
      BY <3>1 DEF Named, Typed
    <3> QED BY <1>19, <3>2 DEF SaveId, Typed
  <2>4. /\ step' \in [Parties -> Steps] /\ step'[p] = "delete chat" /\ conn' = conn
        /\ \A q \in Parties : q # p => step'[q] = step[q]
        /\ out' = out /\ batch' = batch /\ mem' = mem
    BY <1>19 DEF SaveId, Typed, Steps
  <2>5. Holding(p)'
    BY <2>1, <2>4 DEF Holding, Sending, Passing, AtEntry
  <2>6. \A q \in Parties : Holding(q)'
    BY <2>4, <2>5, OthersHold
  <2> QED BY <1>19, <2>3, <2>4, <2>6 DEF SaveId, Typed
<1>20. CASE UNCHANGED vars
  <2>1. \A q \in Parties : Holding(q)'
    BY <1>20, HoldingFrame DEF vars, Typed
  <2> QED BY <1>20, <2>1 DEF vars, Typed
<1> QED
  BY <1>1, <1>2, <1>3, <1>4, <1>5, <1>6, <1>7, <1>8, <1>9, <1>10, <1>11, <1>12, <1>13, <1>14,
     <1>15, <1>16, <1>17, <1>18, <1>19, <1>20 DEF Next, Send, Receive, Reconnect


-----------------------------------------------------------------------------
(* Each device works on its own state: the steps of one leave the other's  *)
(* session, work, records and connection as they are.                      *)
Acts(p) ==
  \/ Send(p) \/ Receive(p) \/ Reconnect(p)
  \/ Crash(p) \/ Reappear(p) \/ Expire(p)
  \/ \E m \in Messages : KeepUnsent(p, m) \/ MarkExpired(p, m)
  \/ \E matches \in BOOLEAN : RecordVerification(p, matches)

Untouched(q) ==
  /\ ratchet'[q] = ratchet[q] /\ mem'[q] = mem[q] /\ step'[q] = step[q] /\ out'[q] = out[q]
  /\ batch'[q] = batch[q] /\ sealed'[q] = sealed[q] /\ boot'[q] = boot[q] /\ heard'[q] = heard[q]
  /\ shown'[q] = shown[q]
  /\ \A m \in Messages : AuthorOf[m] = q => sent'[m] = sent[m]

Writes(p) == WriteChat(p) \/ WriteReceipt(p)

LEMMA OwnOut ==
  ASSUME Typed, NEW p \in Parties, step[p] \in Sending
  PROVE  out[p] \in Envelopes /\ out[p].id \in Messages /\ AuthorOf[out[p].id] = p /\ out[p].at \in Positions
         /\ out[p].kind = "chat"
BY DEF Typed, Holding, Envelopes

LEMMA ActsAlone ==
  ASSUME Typed, NEW p \in Parties, NEW q \in Parties, q # p, Acts(p)
  PROVE  Untouched(q)
<1> USE DEF diskVars, workVars, linkVars, relayVars, boundVars, Untouched
<1>1. ASSUME NEW m \in Messages, SealChat(p, m) PROVE Untouched(q)
  BY <1>1 DEF SealChat, SavedBeforeSend, Typed
<1>2. CASE SaveFlagged(p) \/ SaveAccepted(p)
  <2>1. step[p] \in Sending
    BY <1>2 DEF SaveFlagged, SaveAccepted, Sending
  <2>2. \A m \in Messages : AuthorOf[m] = q => sent'[m] = sent[m]
    BY <1>2, <2>1, OwnOut DEF SaveFlagged, SaveAccepted, Typed
  <2> QED BY <1>2, <2>2, ReleaseTyped DEF SaveFlagged, SaveAccepted, Typed
<1>3. CASE WriteChat(p) \/ WriteReceipt(p)
  <2>1. sealed'[q] = sealed[q] /\ UNCHANGED diskVars
    BY <1>3 DEF WriteChat, WriteReceipt, OnTheWire, Typed
  <2>2. CASE Refused(p) \/ Unanswered(p)
    BY <2>1, <2>2, EndedTyped, ReleaseTyped
  <2>3. CASE ~(Refused(p) \/ Unanswered(p))
    BY <1>3, <2>1, <2>3 DEF WriteChat, WriteReceipt, NextEntry, Typed
  <2> QED BY <2>2, <2>3
<1>4. ASSUME NEW m \in Messages, KeepUnsent(p, m) \/ FlagLost(p, m) \/ MarkExpired(p, m)
      PROVE Untouched(q)
  <2>1. AuthorOf[m] = p
    BY <1>4 DEF KeepUnsent, FlagLost, MarkExpired, LostInRestart, OwnMessages
  <2>2. \A c \in Messages : c # m => sent'[c] = sent[c]
    BY <1>4 DEF KeepUnsent, FlagLost, MarkExpired, Typed
  <2> QED BY <1>4, <2>1, <2>2 DEF KeepUnsent, FlagLost, MarkExpired
<1>5. CASE Fetch(p)
  <2>1. CASE Unanswered(p)
    BY <1>5, <2>1, EndedTyped, ReleaseTyped DEF Fetch
  <2>2. CASE ~Unanswered(p)
    BY <1>5, <2>2 DEF Fetch, Typed
  <2> QED BY <2>1, <2>2
<1>6. CASE ApplyEntry(p)
  <2>1. \A m \in Messages : AuthorOf[m] = q => sent'[m] = sent[m]
    BY <1>6 DEF ApplyEntry, Confirmed
  <2>2. mem'[q] = mem[q] /\ step'[q] = step[q] /\ shown'[q] = shown[q]
    BY <1>6 DEF ApplyEntry, Typed
  <2> QED BY <1>6, <2>1, <2>2 DEF ApplyEntry
<1>7. CASE DeleteEntry(p)
  <2>1. CASE Refused(p) \/ Unanswered(p)
    BY <1>7, <2>1, EndedTyped, ReleaseTyped DEF DeleteEntry
  <2>2. CASE ~(Refused(p) \/ Unanswered(p))
    BY <1>7, <2>2 DEF DeleteEntry, NextEntry, Typed
  <2> QED BY <2>1, <2>2
<1>8. CASE SealReceipt(p)
  BY <1>8 DEF SealReceipt, SavedBeforeSend, Typed
<1>9. CASE EndPass(p)
  BY <1>9, ReleaseTyped DEF EndPass, Typed
<1>10. CASE Connect(p) \/ NoteBoot(p) \/ Adopt(p)
  BY <1>10 DEF Connect, NoteBoot, Adopt, Typed
<1>11. CASE Crash(p)
  BY <1>11, ReleaseTyped DEF Crash
<1>12. CASE Reappear(p) \/ Expire(p) \/ \E matches \in BOOLEAN : RecordVerification(p, matches)
  BY <1>12 DEF Reappear, Expire, RecordVerification
<1>13. CASE SaveId(p)
  BY <1>13 DEF SaveId, Typed
<1> QED
  BY <1>1, <1>2, <1>3, <1>4, <1>5, <1>6, <1>7, <1>8, <1>9, <1>10, <1>11, <1>12, <1>13
  DEF Acts, Send, Receive, Reconnect

LEMMA NextIsActs == Next => Restart \/ \E p \in Parties : Acts(p)
BY DEF Next, Acts

LEMMA NobodyTouched ==
  ASSUME Restart \/ UNCHANGED vars, NEW q \in Parties
  PROVE  Untouched(q)
BY DEF Restart, vars, Untouched, diskVars, workVars, linkVars, relayVars, boundVars

-----------------------------------------------------------------------------
(* What a device holds sealed is past all it put on the wire, and the      *)
(* saved session is past that.                                             *)
Holds == Sending \union {"receipt sealed"}
Local(p) ==
  /\ Before(sealed[p], NextPosition(ratchet[p]))
  /\ step[p] \in Passing => ~Before(NextPosition(mem[p]), NextPosition(ratchet[p]))
  /\ step[p] \in Holds => Before(out[p].at, NextPosition(ratchet[p]))
  /\ step[p] \in Holds \ {"accepted"} => Before(sealed[p], out[p].at)
  /\ step[p] \in AtEntry => Head(batch[p]).at \in mem[p].got

(* An author's record names a position of an earlier copy, and a copy in   *)
(* hand is of a message that is not confirmed.                             *)
Written(p, m) ==
  /\ Before(sent[m].at, NextPosition(ratchet[p]))
  /\ sent[m].delivered => sent[m].retry = "none"
  /\ sent[m].retry = "unsaved" => sent[m].at = NoPosition /\ ~sent[m].delivered
  /\ step[p] = "sealed" /\ out[p].id = m => sent[m].retry # "none"
  /\ step[p] \in {"saved", "accepted"} /\ out[p].id = m =>
       sent[m].at = out[p].at /\ sent[m].delivered = FALSE /\ sent[m].retry = "SendFailed"
  /\ step[p] \in Holds /\ (step[p] \in {"sealed", "receipt sealed"} \/ out[p].id # m) =>
       Before(sent[m].at, out[p].at)

WrittenInv ==
  \A p \in Parties : Local(p) /\ \A m \in Messages : AuthorOf[m] = p => Written(p, m)

LEMMA LocalFrame ==
  ASSUME NEW q \in Parties, Untouched(q), Local(q)
  PROVE  Local(q)'
BY DEF Untouched, Local

LEMMA WrittenFrame ==
  ASSUME NEW q \in Parties, Untouched(q), NEW m \in Messages, AuthorOf[m] = q, Written(q, m)
  PROVE  Written(q, m)'
BY DEF Untouched, Written

LEMMA PositionTyped ==
  ASSUME Typed
  PROVE  /\ NoPosition \in Positions
         /\ \A p \in Parties : /\ sealed[p] \in Positions /\ NextPosition(ratchet[p]) \in Positions
                               /\ step[p] \in Passing => NextPosition(mem[p]) \in Positions
                               /\ step[p] \in Holds => out[p] \in Envelopes /\ out[p].at \in Positions
                               /\ step[p] \in AtEntry => Head(batch[p]) \in Envelopes /\ Head(batch[p]).at \in Positions
         /\ \A m \in Messages : sent[m].at \in Positions /\ AuthorOf[m] \in Parties
<1>1. \A p \in Parties : Sound(ratchet[p]) /\ (step[p] \in Passing => Sound(mem[p]))
  BY DEF Typed, Holding
<1>2. \A p \in Parties : step[p] \in Holds => out[p] \in Envelopes /\ out[p].at \in Positions
  BY DEF Typed, Holding, Holds, Envelopes
<1>3. ASSUME NEW p \in Parties, step[p] \in AtEntry
      PROVE  Head(batch[p]) \in Envelopes /\ Head(batch[p]).at \in Positions
  <2>1. batch[p] \in Seq(Envelopes) /\ batch[p] # <<>>
    BY <1>3 DEF Typed, Holding
  <2>2. Head(batch[p]) \in Envelopes
    BY <2>1, RanHeadTail
  <2> QED BY <2>2 DEF Envelopes
<1>4. \A m \in Messages : sent[m].at \in Positions /\ AuthorOf[m] \in Parties
  BY DeliveryAssumption DEF Typed, Records
<1>5. NoPosition \in Positions
  BY DEF NoPosition, Positions
<1> QED BY <1>1, <1>2, <1>3, <1>4, <1>5, SessionFacts DEF Typed

(* A device whose work ended holds nothing sealed.                         *)
LEMMA LocalIdle ==
  ASSUME NEW p, step'[p] = "idle", Before(sealed'[p], NextPosition(ratchet'[p]))
  PROVE  Local(p)'
BY DEF Local, Passing, AtEntry, Holds, Sending

LEMMA WrittenIdle ==
  ASSUME NEW p, NEW m, step'[p] = "idle", Before(sent'[m].at, NextPosition(ratchet'[p])),
         sent'[m].delivered => sent'[m].retry = "none",
         sent'[m].retry = "unsaved" => sent'[m].at = NoPosition /\ ~sent'[m].delivered
  PROVE  Written(p, m)'
BY DEF Written, Passing, AtEntry, Holds, Sending

LEMMA LocalStep ==
  ASSUME Typed, Typed', NEW p \in Parties, Local(p), Acts(p)
  PROVE  Local(p)'
<1> USE DEF diskVars, workVars, linkVars, relayVars, boundVars
<1> DEFINE at == NextPosition(ratchet[p])
           at2 == NextPosition(ratchet'[p])
<1>0. /\ sealed[p] \in Positions /\ at \in Positions /\ at2 \in Positions
      /\ Before(sealed[p], at)
  <2>1. Sound(ratchet'[p])
    BY DEF Typed
  <2> QED BY <2>1, SessionFacts, PositionTyped DEF Local
<1>1. ASSUME NEW m \in Messages, SealChat(p, m) PROVE Local(p)'
  <2>1. /\ out'[p].at = at /\ ratchet'[p] = Advanced(ratchet[p]) /\ sealed' = sealed /\ step'[p] = "sealed"
    BY <1>1 DEF SealChat, SavedBeforeSend, Typed, Chat
  <2>2. Before(at, at2)
    BY <2>1, SessionFacts DEF Typed
  <2>3. Before(sealed[p], at2)
    BY <1>0, <2>2, BeforeOrder
  <2> QED BY <1>0, <2>1, <2>2, <2>3 DEF Local, Passing, AtEntry, Holds, Sending
<1>2. CASE SaveFlagged(p)
  <2>1. step[p] = "sealed" /\ step'[p] = "saved" /\ UNCHANGED <<ratchet, out, sealed>>
    BY <1>2 DEF SaveFlagged, Typed
  <2> QED BY <2>1 DEF Local, Passing, AtEntry, Holds, Sending
<1>3. CASE WriteChat(p)
  <2>1. /\ step[p] = "saved" /\ sealed'[p] = out[p].at /\ ratchet' = ratchet
    BY <1>3 DEF WriteChat, OnTheWire, Typed
  <2>2. Before(out[p].at, at)
    BY <2>1 DEF Local, Holds, Sending
  <2>3. CASE Refused(p) \/ Unanswered(p)
    BY <2>1, <2>2, <2>3, EndedTyped, ReleaseTyped, LocalIdle
  <2>4. CASE ~(Refused(p) \/ Unanswered(p))
    <3>1. step'[p] = "accepted" /\ out' = out
      BY <1>3, <2>4 DEF WriteChat, Typed
    <3> QED BY <2>1, <2>2, <3>1 DEF Local, Passing, AtEntry, Holds, Sending
  <2> QED BY <2>3, <2>4
<1>4. CASE SaveAccepted(p)
  BY <1>0, <1>4, ReleaseTyped, LocalIdle DEF SaveAccepted
<1>5. ASSUME NEW m \in Messages, KeepUnsent(p, m) \/ FlagLost(p, m) \/ MarkExpired(p, m) PROVE Local(p)'
  BY <1>5 DEF KeepUnsent, FlagLost, MarkExpired, Local
<1>6. CASE Fetch(p)
  <2>1. CASE Unanswered(p)
    BY <1>0, <1>6, <2>1, EndedTyped, ReleaseTyped, LocalIdle DEF Fetch
  <2>2. CASE ~Unanswered(p)
    <3>1. step'[p] = "pass" /\ mem'[p] = ratchet[p] /\ UNCHANGED <<ratchet, sealed>>
      BY <1>6, <2>2 DEF Fetch, Typed
    <3>2. ~Before(at, at)
      BY <1>0, BeforeOrder
    <3> QED BY <1>0, <3>1, <3>2 DEF Local, Passing, AtEntry, Holds, Sending
  <2> QED BY <2>1, <2>2
<1>7. CASE ApplyEntry(p)
  <2> DEFINE e == Head(batch[p])
  <2>1. /\ batch[p] \in Seq(Envelopes) /\ batch[p] # <<>> /\ step[p] = "pass" /\ Sound(mem[p])
        /\ UNCHANGED <<ratchet, sealed, batch>>
    BY <1>7 DEF ApplyEntry, Typed, Holding, Passing
  <2>2. e \in Envelopes
    BY <2>1, RanHeadTail
  <2>3. e.at \in Positions
    BY <2>2 DEF Envelopes
  <2> HIDE DEF e
  <2>4. step'[p] \in {"delete", "delete chat", "stored"}
    BY <1>7 DEF ApplyEntry, Typed
  <2>5. \/ mem'[p] = mem[p] /\ e.at \in mem[p].got
        \/ mem'[p] = Opened(mem[p], e.at)
    BY <1>7 DEF ApplyEntry, Opens, Typed, e
  <2>6. ~Before(NextPosition(mem[p]), at) /\ NextPosition(mem[p]) \in Positions
    BY <2>1, SessionFacts DEF Local, Passing
  <2>7. ~Before(NextPosition(mem'[p]), at) /\ e.at \in mem'[p].got
    <3>1. CASE mem'[p] = mem[p] /\ e.at \in mem[p].got
      BY <2>6, <3>1
    <3>2. CASE mem'[p] = Opened(mem[p], e.at)
      BY <1>0, <2>1, <2>3, <2>6, <3>2, OpenedFacts, BeforeOrder
    <3> QED BY <2>5, <3>1, <3>2
  <2> QED BY <1>0, <2>1, <2>4, <2>7 DEF Local, Passing, AtEntry, Holds, Sending, e
<1>8. CASE DeleteEntry(p)
  <2>1. CASE Refused(p) \/ Unanswered(p)
    BY <1>0, <1>8, <2>1, EndedTyped, ReleaseTyped, LocalIdle DEF DeleteEntry
  <2>2. CASE ~(Refused(p) \/ Unanswered(p))
    <3>1. /\ step'[p] = "pass" \/ (step'[p] = "receipt" /\ batch' = batch)
          /\ step[p] \in AtEntry /\ UNCHANGED <<ratchet, sealed, mem>>
      BY <1>8, <2>2 DEF DeleteEntry, NextEntry, Typed, AtEntry
    <3> QED BY <1>0, <3>1 DEF Local, Passing, AtEntry, Holds, Sending
  <2> QED BY <2>1, <2>2
<1>9. CASE SealReceipt(p)
  <2>1. /\ step[p] = "receipt" /\ step'[p] = "receipt sealed" /\ out'[p].at = NextPosition(mem[p])
        /\ mem'[p] = Advanced(mem[p]) /\ ratchet'[p] = Advanced(mem[p]) /\ UNCHANGED <<sealed, batch>>
        /\ Sound(mem[p])
    <3>1. /\ step[p] = "receipt" /\ step'[p] = "receipt sealed" /\ UNCHANGED <<sealed, batch>>
          /\ ratchet' = [ratchet EXCEPT ![p] = Advanced(mem[p])]
          /\ mem' = [mem EXCEPT ![p] = Advanced(mem[p])]
          /\ out' = [out EXCEPT ![p] = Receipt(NextPosition(mem[p]), Head(batch[p]).id, Head(batch[p]).at)]
      BY <1>9 DEF SealReceipt, SavedBeforeSend, Typed
    <3>2. Sound(mem[p])
      BY <3>1 DEF Typed, Holding, Passing, AtEntry
    <3>3. out'[p].at = NextPosition(mem[p])
      BY <3>1 DEF Typed, Receipt
    <3> QED BY <3>1, <3>2, <3>3 DEF Typed
  <2>2. ~Before(NextPosition(mem[p]), at) /\ NextPosition(mem[p]) \in Positions
        /\ Head(batch[p]).at \in mem[p].got
    BY <2>1, SessionFacts DEF Local, Passing, AtEntry
  <2>3. Before(NextPosition(mem[p]), at2) /\ Head(batch[p]).at \in mem'[p].got
    BY <2>1, <2>2, SessionFacts
  <2>4. Before(sealed[p], NextPosition(mem[p]))
    BY <1>0, <2>2, BeforeOrder
  <2>5. Before(sealed[p], at2) /\ ~Before(at2, at2)
    BY <1>0, <2>2, <2>3, <2>4, BeforeOrder
  <2> QED BY <2>1, <2>3, <2>4, <2>5 DEF Local, Passing, AtEntry, Holds, Sending
<1>10. CASE WriteReceipt(p)
  <2>1. /\ step[p] = "receipt sealed" /\ sealed'[p] = out[p].at /\ ratchet' = ratchet
    BY <1>10 DEF WriteReceipt, OnTheWire, Typed
  <2>2. Before(out[p].at, at) /\ ~Before(NextPosition(mem[p]), at)
    BY <2>1 DEF Local, Holds, Sending, Passing, AtEntry
  <2>3. CASE Refused(p) \/ Unanswered(p)
    BY <2>1, <2>2, <2>3, EndedTyped, ReleaseTyped, LocalIdle
  <2>4. CASE ~(Refused(p) \/ Unanswered(p))
    <3>1. step'[p] = "pass" /\ mem' = mem
      BY <1>10, <2>4 DEF WriteReceipt, NextEntry, Typed
    <3> QED BY <2>1, <2>2, <3>1 DEF Local, Passing, AtEntry, Holds, Sending
  <2> QED BY <2>3, <2>4
<1>11. CASE EndPass(p)
  <2>1. step[p] = "pass" /\ ratchet'[p] = mem[p] /\ sealed' = sealed /\ step'[p] = "idle"
    BY <1>11, ReleaseTyped DEF EndPass, Typed
  <2>2. ~Before(at2, at)
    BY <2>1 DEF Local, Passing
  <2>3. Before(sealed[p], at2)
    BY <1>0, <2>2, BeforeOrder
  <2> QED BY <2>1, <2>3, LocalIdle
<1>12. CASE Connect(p) \/ NoteBoot(p) \/ Adopt(p) \/ Reappear(p) \/ Expire(p)
            \/ \E matches \in BOOLEAN : RecordVerification(p, matches)
  BY <1>12 DEF Connect, NoteBoot, Adopt, Reappear, Expire, RecordVerification, Local
<1>13. CASE Crash(p)
  BY <1>0, <1>13, ReleaseTyped, LocalIdle DEF Crash
<1>14. CASE SaveId(p)
  <2>1. /\ step[p] \in AtEntry /\ step'[p] = "delete chat" /\ UNCHANGED <<ratchet, sealed, mem, batch>>
    BY <1>14 DEF SaveId, Typed, AtEntry
  <2> QED BY <1>0, <2>1 DEF Local, Passing, AtEntry, Holds, Sending
<1> QED
  BY <1>1, <1>2, <1>3, <1>4, <1>5, <1>6, <1>7, <1>8, <1>9, <1>10, <1>11, <1>12, <1>13, <1>14
  DEF Acts, Send, Receive, Reconnect

(* With nothing sealed in hand a record only has to be behind the session. *)
LEMMA WrittenAtRest ==
  ASSUME NEW p, NEW m, step'[p] \notin Holds, Before(sent'[m].at, NextPosition(ratchet'[p])),
         sent'[m].delivered => sent'[m].retry = "none",
         sent'[m].retry = "unsaved" => sent'[m].at = NoPosition /\ ~sent'[m].delivered
  PROVE  Written(p, m)'
BY DEF Written, Holds, Sending

LEMMA WrittenStep ==
  ASSUME Typed, Typed', NEW p \in Parties, Local(p), Acts(p),
         NEW m \in Messages, AuthorOf[m] = p, Written(p, m)
  PROVE  Written(p, m)'
<1> USE DEF diskVars, workVars, linkVars, relayVars, boundVars
<1> DEFINE at == NextPosition(ratchet[p])
           at2 == NextPosition(ratchet'[p])
<1>0. /\ sent[m].at \in Positions /\ at \in Positions /\ at2 \in Positions
      /\ Before(sent[m].at, at)
  <2>1. Sound(ratchet'[p])
    BY DEF Typed
  <2> QED BY <2>1, SessionFacts, PositionTyped DEF Written
<1>a. ASSUME sent' = sent, ratchet' = ratchet, step'[p] \notin Holds PROVE Written(p, m)'
  BY <1>0, <1>a, WrittenAtRest DEF Written
<1>b. "idle" \notin Holds /\ "pass" \notin Holds /\ "receipt" \notin Holds
      /\ "delete" \notin Holds /\ "delete chat" \notin Holds /\ "stored" \notin Holds
  BY DEF Holds, Sending
<1>1. ASSUME NEW c \in Messages, SealChat(p, c) PROVE Written(p, m)'
  <2>1. /\ out'[p].at = at /\ out'[p].id = c /\ ratchet'[p] = Advanced(ratchet[p]) /\ sent' = sent
        /\ step'[p] = "sealed"
    BY <1>1 DEF SealChat, SavedBeforeSend, Typed, Chat
  <2>2. sent[c].retry # "none"
    BY <1>1 DEF SealChat, Sendable
  <2>3. Before(at, at2)
    BY <2>1, SessionFacts DEF Typed
  <2>4. Before(sent[m].at, at2)
    BY <1>0, <2>3, BeforeOrder
  <2> QED BY <1>0, <2>1, <2>2, <2>4 DEF Written, Holds, Sending
<1>2. CASE SaveFlagged(p)
  <2>1. /\ step[p] = "sealed" /\ step'[p] = "saved" /\ UNCHANGED <<ratchet, out>>
        /\ sent' = [sent EXCEPT ![out[p].id] = Record(out[p].at, FALSE, "SendFailed")]
    BY <1>2 DEF SaveFlagged, Typed
  <2>2. Before(out[p].at, at) /\ Before(sent[m].at, out[p].at)
    BY <2>1 DEF Local, Written, Holds, Sending
  <2>3. CASE out[p].id = m
    <3>1. sent'[m] = Record(out[p].at, FALSE, "SendFailed")
      BY <2>1, <2>3 DEF Typed
    <3>2. sent'[m].at = out[p].at /\ sent'[m].delivered = FALSE /\ sent'[m].retry = "SendFailed"
      BY <3>1 DEF Record
    <3> QED BY <2>1, <2>2, <2>3, <3>2 DEF Written
  <2>4. CASE out[p].id # m
    <3>1. sent'[m] = sent[m]
      BY <2>1, <2>4 DEF Typed
    <3> QED BY <2>1, <2>2, <2>4, <3>1 DEF Written
  <2> QED BY <2>3, <2>4
<1>3. CASE WriteChat(p)
  <2>1. CASE Refused(p) \/ Unanswered(p)
    BY <1>3, <1>a, <1>b, <2>1, EndedTyped, ReleaseTyped DEF WriteChat
  <2>2. CASE ~(Refused(p) \/ Unanswered(p))
    <3>1. step[p] = "saved" /\ step'[p] = "accepted" /\ UNCHANGED <<sent, ratchet, out>>
      BY <1>3, <2>2 DEF WriteChat, Typed
    <3> QED BY <3>1 DEF Written, Holds, Sending
  <2> QED BY <2>1, <2>2
<1>4. CASE SaveAccepted(p)
  <2>1. /\ step[p] = "accepted" /\ step'[p] = "idle" /\ ratchet' = ratchet
        /\ sent' = [sent EXCEPT ![out[p].id] = Record(out[p].at, FALSE, "none")]
    BY <1>4, ReleaseTyped DEF SaveAccepted
  <2>2. Before(out[p].at, at)
    BY <2>1 DEF Local, Holds, Sending
  <2>3. CASE out[p].id = m
    <3>1. sent'[m] = Record(out[p].at, FALSE, "none")
      BY <2>1, <2>3 DEF Typed
    <3>2. sent'[m].at = out[p].at /\ sent'[m].delivered = FALSE /\ sent'[m].retry = "none"
      BY <3>1 DEF Record
    <3> QED BY <2>1, <2>2, <3>2, WrittenIdle
  <2>4. CASE out[p].id # m
    <3>1. sent'[m] = sent[m]
      BY <2>1, <2>4 DEF Typed
    <3>2. /\ sent[m].delivered => sent[m].retry = "none"
          /\ sent[m].retry = "unsaved" => sent[m].at = NoPosition /\ ~sent[m].delivered
      BY DEF Written
    <3> QED BY <1>0, <2>1, <3>1, <3>2, WrittenIdle
  <2> QED BY <2>3, <2>4
<1>5. ASSUME NEW c \in Messages, KeepUnsent(p, c) \/ FlagLost(p, c) \/ MarkExpired(p, c) PROVE Written(p, m)'
  <2>1. step'[p] = "idle" /\ ratchet' = ratchet
    BY <1>5 DEF KeepUnsent, FlagLost, MarkExpired, Free, Idle, Typed, Holding
  <2>2. PICK r \in {"SendFailed", "Expired", "ServerRestarted"} : sent' = [sent EXCEPT ![c].retry = r]
    BY <1>5 DEF KeepUnsent, FlagLost, MarkExpired
  <2>3. sent[c].retry # "none" \/ ~sent[c].delivered
    BY <1>5 DEF KeepUnsent, FlagLost, MarkExpired, LostInRestart, Unconfirmed
  <2>4. CASE c = m
    <3>1. ~sent[m].delivered
      BY <2>3, <2>4 DEF Written
    <3>2. sent'[m].at = sent[m].at /\ sent'[m].delivered = sent[m].delivered /\ sent'[m].retry = r
      BY <2>2, <2>4 DEF Typed, Records
    <3> QED BY <1>0, <2>1, <3>1, <3>2, WrittenIdle
  <2>5. CASE c # m
    <3>1. sent'[m] = sent[m]
      BY <2>2, <2>5 DEF Typed
    <3>2. /\ sent[m].delivered => sent[m].retry = "none"
          /\ sent[m].retry = "unsaved" => sent[m].at = NoPosition /\ ~sent[m].delivered
      BY DEF Written
    <3> QED BY <1>0, <2>1, <3>1, <3>2, WrittenIdle
  <2> QED BY <2>4, <2>5
<1>6. CASE Fetch(p) \/ DeleteEntry(p) \/ WriteReceipt(p)
  <2>1. UNCHANGED <<sent, ratchet>>
    BY <1>6 DEF Fetch, DeleteEntry, WriteReceipt
  <2>2. CASE Refused(p) \/ Unanswered(p)
    BY <1>a, <1>b, <2>1, <2>2, EndedTyped, ReleaseTyped
  <2>3. CASE ~(Refused(p) \/ Unanswered(p))
    <3>1. step'[p] \in {"pass", "receipt"}
      BY <1>6, <2>3 DEF Fetch, DeleteEntry, WriteReceipt, NextEntry, Typed
    <3> QED BY <1>a, <1>b, <2>1, <3>1
  <2> QED BY <2>2, <2>3
<1>7. CASE ApplyEntry(p)
  <2>1. step'[p] \in {"delete", "delete chat", "stored"} /\ ratchet' = ratchet
        /\ (sent' = sent \/ sent' = Confirmed(p, Head(batch[p])))
    <3>1. \E s \in {"delete", "delete chat", "stored"} : step' = [step EXCEPT ![p] = s]
      BY <1>7 DEF ApplyEntry
    <3>2. ratchet' = ratchet /\ (sent' = sent \/ sent' = Confirmed(p, Head(batch[p])))
      BY <1>7 DEF ApplyEntry
    <3>3. step'[p] \in {"delete", "delete chat", "stored"}
      BY <3>1 DEF Typed
    <3> QED BY <3>2, <3>3
  <2>2. step'[p] \notin Holds
    BY <1>b, <2>1
  <2>3. CASE sent' = sent
    BY <1>a, <2>1, <2>2, <2>3
  <2>4. CASE sent' = Confirmed(p, Head(batch[p]))
    <3>1. sent'[m] = sent[m] \/ sent'[m] = Record(sent[m].at, TRUE, "none")
      BY <2>4 DEF Confirmed
    <3>2. CASE sent'[m] = sent[m]
      BY <1>0, <2>1, <2>2, <3>2, WrittenAtRest DEF Written
    <3>3. CASE sent'[m] = Record(sent[m].at, TRUE, "none")
      <4>1. sent'[m].at = sent[m].at /\ sent'[m].retry = "none"
        BY <3>3 DEF Record
      <4> QED BY <1>0, <2>1, <2>2, <4>1, WrittenAtRest
    <3> QED BY <3>1, <3>2, <3>3
  <2> QED BY <2>1, <2>3, <2>4
<1>8. CASE SealReceipt(p)
  <2>1. /\ step[p] = "receipt" /\ step'[p] = "receipt sealed" /\ UNCHANGED sent
        /\ ratchet' = [ratchet EXCEPT ![p] = Advanced(mem[p])]
        /\ out' = [out EXCEPT ![p] = Receipt(NextPosition(mem[p]), Head(batch[p]).id, Head(batch[p]).at)]
    BY <1>8 DEF SealReceipt, SavedBeforeSend, Typed
  <2>2. out'[p].at = NextPosition(mem[p])
    BY <2>1 DEF Typed, Receipt
  <2>3. Sound(mem[p]) /\ ~Before(NextPosition(mem[p]), at)
    BY <2>1 DEF Typed, Holding, Local, Passing, AtEntry
  <2>4. NextPosition(mem[p]) \in Positions /\ Before(NextPosition(mem[p]), at2)
    BY <2>1, <2>3, SessionFacts DEF Typed
  <2>5. Before(sent[m].at, NextPosition(mem[p]))
    BY <1>0, <2>3, <2>4, BeforeOrder
  <2>6. Before(sent[m].at, at2)
    BY <1>0, <2>4, <2>5, BeforeOrder
  <2> QED BY <2>1, <2>2, <2>5, <2>6 DEF Written, Holds, Sending
<1>9. CASE EndPass(p)
  <2>1. step[p] = "pass" /\ ratchet'[p] = mem[p] /\ sent' = sent /\ step'[p] = "idle"
    BY <1>9, ReleaseTyped DEF EndPass, Typed
  <2>2. ~Before(at2, at)
    BY <2>1 DEF Local, Passing
  <2>3. Before(sent[m].at, at2)
    BY <1>0, <2>2, BeforeOrder
  <2> QED BY <2>1, <2>3, WrittenIdle DEF Written
<1>10. CASE Connect(p) \/ NoteBoot(p) \/ Adopt(p) \/ Reappear(p) \/ Expire(p)
            \/ \E matches \in BOOLEAN : RecordVerification(p, matches)
  BY <1>10 DEF Connect, NoteBoot, Adopt, Reappear, Expire, RecordVerification, Written
<1>11. CASE Crash(p)
  BY <1>a, <1>b, <1>11, ReleaseTyped DEF Crash
<1>12. CASE SaveId(p)
  BY <1>a, <1>b, <1>12 DEF SaveId, Typed
<1> QED
  BY <1>1, <1>2, <1>3, <1>4, <1>5, <1>6, <1>7, <1>8, <1>9, <1>10, <1>11, <1>12
  DEF Acts, Send, Receive, Reconnect

LEMMA WrittenInit == Init => WrittenInv
<1> SUFFICES ASSUME Init PROVE WrittenInv
  OBVIOUS
<1>1. \A p \in Parties : Before(NoPosition, NextPosition(ratchet[p]))
  <2>1. Before(NoPosition, NextPosition(Session(1, 0))) /\ Before(NoPosition, NextPosition(Session(2, 1)))
    BY DEF Before, NextPosition, Session, NoPosition
  <2> QED BY <2>1 DEF Init
<1>2. \A p \in Parties : step[p] = "idle" /\ sealed[p] = NoPosition
  BY DEF Init
<1>3. \A m \in Messages : sent[m].at = NoPosition /\ sent[m].delivered = FALSE /\ sent[m].retry = "unsaved"
  BY DEF Init, Unsaved
<1> QED BY <1>1, <1>2, <1>3 DEF WrittenInv, Local, Written, Passing, AtEntry, Holds, Sending

LEMMA WrittenInvStep == Typed /\ Typed' /\ WrittenInv /\ [Next]_vars => WrittenInv'
<1> SUFFICES ASSUME Typed, Typed', WrittenInv, [Next]_vars, NEW p \in Parties
             PROVE  Local(p)' /\ \A m \in Messages : AuthorOf[m] = p => Written(p, m)'
  BY DEF WrittenInv
<1>1. CASE Acts(p)
  BY <1>1, LocalStep, WrittenStep DEF WrittenInv
<1>2. CASE Untouched(p)
  BY <1>2, LocalFrame, WrittenFrame DEF WrittenInv
<1>3. Acts(p) \/ Untouched(p)
  <2>1. CASE Restart \/ UNCHANGED vars
    BY <2>1, NobodyTouched
  <2>2. ASSUME NEW q \in Parties, Acts(q) PROVE Acts(p) \/ Untouched(p)
    BY <2>2, ActsAlone
  <2> QED BY <2>1, <2>2, NextIsActs
<1> QED BY <1>1, <1>2, <1>3

-----------------------------------------------------------------------------
(* The ways a step changes the record of a message: it is offered for a    *)
(* retry, a new copy of it is recorded, that copy was accepted, or the     *)
(* entry its author is looking at confirms it.                             *)
Offered(m) ==
  /\ step[AuthorOf[m]] = "idle" /\ ~sent[m].delivered
  /\ sent'[m].at = sent[m].at /\ ~sent'[m].delivered
  /\ sent'[m].retry \in {"SendFailed", "Expired", "ServerRestarted"}
Recorded(m) ==
  LET p == AuthorOf[m] IN
  /\ step[p] = "sealed" /\ out[p].id = m /\ ~sent[m].delivered /\ sent[m].retry # "none"
  /\ sent'[m].at = out[p].at /\ ~sent'[m].delivered /\ sent'[m].retry = "SendFailed"
Accepted(m) ==
  LET p == AuthorOf[m] IN
  /\ step[p] = "accepted" /\ out[p].id = m /\ ~sent[m].delivered /\ sent[m].retry = "SendFailed"
  /\ sent[m].at = out[p].at
  /\ sent'[m].at = out[p].at /\ ~sent'[m].delivered /\ sent'[m].retry = "none"
Acknowledged(m) ==
  LET p == AuthorOf[m] IN
  /\ ApplyEntry(p)
  /\ step[p] = "pass" /\ batch[p] # <<>> /\ sent[m].at # NoPosition /\ ~sent[m].delivered
  /\ Confirms(Head(batch[p]), sent[m].at)
  /\ sent'[m].at = sent[m].at /\ sent'[m].delivered /\ sent'[m].retry = "none"

LEMMA SentStep ==
  ASSUME Typed, WrittenInv, [Next]_vars, NEW m \in Messages
  PROVE  sent'[m] = sent[m] \/ Offered(m) \/ Recorded(m) \/ Accepted(m) \/ Acknowledged(m)
<1> USE DEF diskVars, workVars, linkVars, relayVars, boundVars
<1> DEFINE Goal == sent'[m] = sent[m] \/ Offered(m) \/ Recorded(m) \/ Accepted(m) \/ Acknowledged(m)
           p == AuthorOf[m]
<1>0. p \in Parties /\ Written(p, m) /\ Local(p)
  BY PositionTyped DEF WrittenInv
<1>1. CASE sent' = sent
  BY <1>1
<1>2. CASE SaveFlagged(p)
  <2>1. /\ step[p] = "sealed" /\ sent' = [sent EXCEPT ![out[p].id] = Record(out[p].at, FALSE, "SendFailed")]
    BY <1>2 DEF SaveFlagged
  <2>2. CASE out[p].id = m
    <3>1. sent'[m] = Record(out[p].at, FALSE, "SendFailed")
      BY <2>1, <2>2 DEF Typed
    <3>2. sent'[m].at = out[p].at /\ ~sent'[m].delivered /\ sent'[m].retry = "SendFailed"
      BY <3>1 DEF Record
    <3>3. sent[m].retry # "none" /\ ~sent[m].delivered
      BY <1>0, <2>1, <2>2 DEF Written
    <3>4. Recorded(m)
      BY <2>1, <2>2, <3>2, <3>3 DEF Recorded
    <3> QED BY <3>4
  <2>3. CASE out[p].id # m
    <3>1. sent'[m] = sent[m]
      BY <2>1, <2>3 DEF Typed
    <3> QED BY <3>1
  <2> QED BY <2>2, <2>3
<1>3. CASE SaveAccepted(p)
  <2>1. /\ step[p] = "accepted" /\ sent' = [sent EXCEPT ![out[p].id] = Record(out[p].at, FALSE, "none")]
    BY <1>3 DEF SaveAccepted
  <2>2. CASE out[p].id = m
    <3>1. sent'[m] = Record(out[p].at, FALSE, "none")
      BY <2>1, <2>2 DEF Typed
    <3>2. sent'[m].at = out[p].at /\ ~sent'[m].delivered /\ sent'[m].retry = "none"
      BY <3>1 DEF Record
    <3>3. sent[m].at = out[p].at /\ ~sent[m].delivered /\ sent[m].retry = "SendFailed"
      BY <1>0, <2>1, <2>2 DEF Written
    <3>4. Accepted(m)
      BY <2>1, <2>2, <3>2, <3>3 DEF Accepted
    <3> QED BY <3>4
  <2>3. CASE out[p].id # m
    <3>1. sent'[m] = sent[m]
      BY <2>1, <2>3 DEF Typed
    <3> QED BY <3>1
  <2> QED BY <2>2, <2>3
<1>4. ASSUME NEW c \in Messages, KeepUnsent(p, c) \/ FlagLost(p, c) \/ MarkExpired(p, c) PROVE Goal
  <2>1. step[p] = "idle"
    BY <1>0, <1>4 DEF KeepUnsent, FlagLost, MarkExpired, Free, Idle, Typed, Holding
  <2>2. PICK r \in {"SendFailed", "Expired", "ServerRestarted"} : sent' = [sent EXCEPT ![c].retry = r]
    BY <1>4 DEF KeepUnsent, FlagLost, MarkExpired
  <2>3. sent[c].retry # "none" \/ ~sent[c].delivered
    BY <1>4 DEF KeepUnsent, FlagLost, MarkExpired, LostInRestart, Unconfirmed
  <2>4. CASE c = m
    <3>1. ~sent[m].delivered
      BY <1>0, <2>3, <2>4 DEF Written
    <3>2. sent'[m].at = sent[m].at /\ sent'[m].delivered = sent[m].delivered /\ sent'[m].retry = r
      BY <2>2, <2>4 DEF Typed, Records
    <3>3. Offered(m)
      BY <2>1, <3>1, <3>2 DEF Offered
    <3> QED BY <3>3
  <2>5. CASE c # m
    <3>1. sent'[m] = sent[m]
      BY <2>2, <2>5 DEF Typed
    <3> QED BY <3>1
  <2> QED BY <2>4, <2>5
<1>5. CASE ApplyEntry(p)
  <2>1. step[p] = "pass" /\ batch[p] # <<>> /\ (sent' = sent \/ sent' = Confirmed(p, Head(batch[p])))
    BY <1>5 DEF ApplyEntry
  <2>2. CASE sent' = sent
    BY <2>2
  <2>3. CASE sent' = Confirmed(p, Head(batch[p]))
    <3>1. \/ sent'[m] = sent[m]
          \/ /\ sent[m].at # NoPosition /\ ~sent[m].delivered /\ Confirms(Head(batch[p]), sent[m].at)
             /\ sent'[m] = Record(sent[m].at, TRUE, "none")
      BY <2>3 DEF Confirmed
    <3>2. CASE sent'[m] = sent[m]
      BY <3>2
    <3>3. CASE /\ sent[m].at # NoPosition /\ ~sent[m].delivered /\ Confirms(Head(batch[p]), sent[m].at)
               /\ sent'[m] = Record(sent[m].at, TRUE, "none")
      <4>1. sent'[m].at = sent[m].at /\ sent'[m].delivered /\ sent'[m].retry = "none"
        BY <3>3 DEF Record
      <4>2. Acknowledged(m)
        BY <1>5, <2>1, <3>3, <4>1 DEF Acknowledged
      <4> QED BY <4>2
    <3> QED BY <3>1, <3>2, <3>3
  <2> QED BY <2>1, <2>2, <2>3
<1>6. ASSUME Acts(p) PROVE Goal
  <2>1. ASSUME ~(sent' = sent) PROVE SaveFlagged(p) \/ SaveAccepted(p) \/ ApplyEntry(p)
          \/ \E c \in Messages : KeepUnsent(p, c) \/ FlagLost(p, c) \/ MarkExpired(p, c)
    <3> USE DEF Acts, Send, Receive, Reconnect
    <3>1. Send(p) => SaveFlagged(p) \/ SaveAccepted(p)
      BY <2>1 DEF SealChat, WriteChat
    <3>2. Receive(p) => ApplyEntry(p)
      BY <2>1 DEF Fetch, SaveId, DeleteEntry, SealReceipt, WriteReceipt, EndPass
    <3>3. Reconnect(p) => \E c \in Messages : FlagLost(p, c)
      BY <2>1 DEF Connect, NoteBoot, Adopt
    <3>4. ~Crash(p) /\ ~Reappear(p) /\ ~Expire(p) /\ ~(\E matches \in BOOLEAN : RecordVerification(p, matches))
      BY <2>1 DEF Crash, Reappear, Expire, RecordVerification
    <3> QED BY <1>6, <3>1, <3>2, <3>3, <3>4
  <2> QED BY <1>1, <1>2, <1>3, <1>4, <1>5, <2>1
<1>7. ASSUME ~Acts(p) PROVE sent'[m] = sent[m]
  <2>1. CASE Restart \/ UNCHANGED vars
    BY <1>0, <2>1, NobodyTouched DEF Untouched
  <2>2. ASSUME NEW q \in Parties, Acts(q) PROVE sent'[m] = sent[m]
    BY <1>0, <1>7, <2>2, ActsAlone DEF Untouched
  <2> QED BY <2>1, <2>2, NextIsActs
<1> QED BY <1>6, <1>7

(* The records of received chats: a step adds at most that of the chat it  *)
(* looks at, and only when no named record has its id; or names it.        *)
LEMMA ShownStep ==
  ASSUME Typed, [Next]_vars, NEW p \in Parties
  PROVE  \/ shown'[p] = shown[p]
         \/ /\ ApplyEntry(p) /\ ~Known(p, Head(batch[p]))
            /\ shown'[p] = shown[p] \union {Copy(Head(batch[p]), FALSE)}
         \/ SaveId(p) /\ shown'[p] = Named(p, Head(batch[p]))
<1> USE DEF diskVars, workVars, linkVars, relayVars, boundVars
<1>1. CASE ApplyEntry(p)
  <2>1. shown' = shown \/ shown' = [shown EXCEPT ![p] = Stored(p, Head(batch[p]))]
    BY <1>1 DEF ApplyEntry
  <2>2. CASE shown' = shown
    BY <2>2
  <2>3. CASE shown' = [shown EXCEPT ![p] = Stored(p, Head(batch[p]))]
    <3>1. shown'[p] = Stored(p, Head(batch[p]))
      BY <2>3 DEF Typed
    <3> QED BY <1>1, <3>1 DEF Stored
  <2> QED BY <2>1, <2>2, <2>3
<1>2. CASE SaveId(p)
  BY <1>2 DEF SaveId, Typed
<1>3. CASE Acts(p) /\ ~ApplyEntry(p) /\ ~SaveId(p)
  <2>1. Send(p) => shown' = shown
    BY DEF Send, SealChat, SaveFlagged, WriteChat, SaveAccepted
  <2>2. Receive(p) => shown' = shown
    BY <1>3 DEF Receive, Fetch, DeleteEntry, SealReceipt, WriteReceipt, EndPass
  <2>3. Reconnect(p) => shown' = shown
    BY DEF Reconnect, Connect, FlagLost, NoteBoot, Adopt
  <2>4. shown' = shown
    BY <1>3, <2>1, <2>2, <2>3 DEF Acts, Crash, Reappear, Expire, RecordVerification, KeepUnsent, MarkExpired
  <2> QED BY <2>4
<1>4. CASE ~Acts(p)
  <2>1. CASE Restart \/ UNCHANGED vars
    BY <2>1, NobodyTouched DEF Untouched
  <2>2. ASSUME NEW q \in Parties, Acts(q) PROVE Untouched(p)
    BY <1>4, <2>2, ActsAlone
  <2> QED BY <2>1, <2>2, NextIsActs DEF Untouched
<1> QED BY <1>1, <1>2, <1>3, <1>4

LEMMA HalvedStep ==
  ASSUME [Next]_vars
  PROVE  halved \subseteq halved'
<1> USE DEF diskVars, workVars, linkVars, relayVars, boundVars
<1>1. ASSUME NEW p \in Parties, Acts(p) PROVE halved \subseteq halved'
  <2>1. Send(p) => halved' = halved
    BY DEF Send, SealChat, SaveFlagged, WriteChat, SaveAccepted, Refused, Unanswered
  <2>2. Receive(p) => halved' = halved
    BY DEF Receive, Fetch, ApplyEntry, SaveId, DeleteEntry, SealReceipt, WriteReceipt, EndPass,
           Refused, Unanswered
  <2>3. Reconnect(p) => halved' = halved
    BY DEF Reconnect, Connect, FlagLost, NoteBoot, Adopt
  <2> QED BY <1>1, <2>1, <2>2, <2>3
      DEF Acts, Crash, Reappear, Expire, KeepUnsent, MarkExpired, RecordVerification
<1> QED BY <1>1, NextIsActs DEF Restart, vars

(* Between the two writes of a chat a device only names the record or      *)
(* stops.                                                                  *)
LEMMA StoredStep ==
  ASSUME Typed, [Next]_vars, NEW p \in Parties
  PROVE  /\ step[p] = "stored" => \/ step'[p] = "stored" /\ batch'[p] = batch[p]
                                  \/ step'[p] = "delete chat" /\ SaveId(p)
                                  \/ step'[p] = "idle" /\ Head(batch[p]).id \in halved'
         /\ step'[p] = "stored" => \/ step[p] = "stored"
                                   \/ /\ ApplyEntry(p) /\ step[p] = "pass" /\ batch'[p] = batch[p]
                                      /\ shown'[p] = shown[p] \union {Copy(Head(batch[p]), FALSE)}
                                      /\ ~Known(p, Head(batch[p]))
<1> USE DEF diskVars, workVars, linkVars, relayVars, boundVars
<1> DEFINE Stays == step'[p] = step[p] /\ batch'[p] = batch[p]
           Leaves == step[p] # "stored" /\ step'[p] # "stored"
           Stops == step[p] = "stored" /\ step'[p] = "idle" /\ Head(batch[p]).id \in halved'
           Stores == /\ ApplyEntry(p) /\ step[p] = "pass" /\ batch'[p] = batch[p]
                     /\ shown'[p] = shown[p] \union {Copy(Head(batch[p]), FALSE)}
                     /\ ~Known(p, Head(batch[p]))
           Names == step[p] = "stored" /\ step'[p] = "delete chat" /\ SaveId(p)
           Goal == Stays \/ Leaves \/ Stops \/ Stores \/ Names
<1>1. ASSUME NEW m \in Messages, SealChat(p, m) PROVE Goal
  BY <1>1 DEF SealChat, Idle, Typed
<1>2. CASE SaveFlagged(p)
  BY <1>2 DEF SaveFlagged, Typed
<1>3. CASE Writes(p) \/ DeleteEntry(p) \/ Fetch(p)
  <2>1. step[p] # "stored"
    BY <1>3 DEF Writes, WriteChat, WriteReceipt, DeleteEntry, Fetch, Idle
  <2>2. CASE Refused(p) \/ Unanswered(p)
    BY <2>1, <2>2, EndedTyped, ReleaseTyped
  <2>3. CASE ~(Refused(p) \/ Unanswered(p))
    <3>1. step'[p] \in {"accepted", "pass", "receipt"}
      BY <1>3, <2>3 DEF Writes, WriteChat, WriteReceipt, DeleteEntry, Fetch, NextEntry, Typed
    <3> QED BY <2>1, <3>1
  <2> QED BY <2>2, <2>3
<1>4. CASE SaveAccepted(p) \/ EndPass(p)
  BY <1>4, ReleaseTyped DEF SaveAccepted, EndPass
<1>5. CASE ApplyEntry(p)
  <2>1. step[p] = "pass" /\ batch' = batch
        /\ \/ step' = [step EXCEPT ![p] = "delete"] \/ step' = [step EXCEPT ![p] = "delete chat"]
           \/ /\ step' = [step EXCEPT ![p] = "stored"] /\ ~Known(p, Head(batch[p]))
              /\ shown' = [shown EXCEPT ![p] = Stored(p, Head(batch[p]))]
    BY <1>5 DEF ApplyEntry
  <2>2. CASE step' = [step EXCEPT ![p] = "delete"] \/ step' = [step EXCEPT ![p] = "delete chat"]
    BY <2>1, <2>2 DEF Typed
  <2>3. CASE /\ step' = [step EXCEPT ![p] = "stored"] /\ ~Known(p, Head(batch[p]))
             /\ shown' = [shown EXCEPT ![p] = Stored(p, Head(batch[p]))]
    <3>1. shown'[p] = shown[p] \union {Copy(Head(batch[p]), FALSE)}
      BY <2>3 DEF Typed, Stored
    <3> QED BY <1>5, <2>1, <2>3, <3>1
  <2> QED BY <2>1, <2>2, <2>3
<1>6. CASE SaveId(p)
  BY <1>6 DEF SaveId, Typed
<1>7. CASE SealReceipt(p)
  BY <1>7 DEF SealReceipt, Typed
<1>8. CASE Crash(p)
  <2>1. step'[p] = "idle" /\ (step[p] = "stored" => Head(batch[p]).id \in halved')
    BY <1>8, ReleaseTyped DEF Crash
  <2> QED BY <2>1
<1>9. ASSUME Acts(p) PROVE Goal
  <2>1. Send(p) => Goal
    BY <1>1, <1>2, <1>3, <1>4 DEF Send, Writes
  <2>2. Receive(p) => Goal
    BY <1>3, <1>4, <1>5, <1>6, <1>7 DEF Receive, Writes
  <2>3. Reconnect(p) => step' = step /\ batch' = batch
    BY DEF Reconnect, Connect, FlagLost, NoteBoot, Adopt
  <2> QED BY <1>8, <1>9, <2>1, <2>2, <2>3
      DEF Acts, Reappear, Expire, KeepUnsent, MarkExpired, RecordVerification
<1>10. ASSUME ~Acts(p) PROVE Stays
  <2>1. CASE Restart \/ UNCHANGED vars
    BY <2>1, NobodyTouched DEF Untouched
  <2>2. ASSUME NEW q \in Parties, Acts(q) PROVE Stays
    BY <1>10, <2>2, ActsAlone DEF Untouched
  <2> QED BY <2>1, <2>2, NextIsActs
<1>11. Goal
  BY <1>9, <1>10
<1> QED BY <1>11

(* A record without its message id is that of the chat being stored, or of *)
(* one whose pass was stopped between the two writes; no two records have  *)
(* one id but of those.                                                    *)
Copied(p) ==
  /\ \A s \in shown[p] : ~s.named =>
       s.id \in halved \/ (step[p] = "stored" /\ s.id = Head(batch[p]).id)
  /\ step[p] = "stored" => /\ Copy(Head(batch[p]), FALSE) \in shown[p]
                           /\ ~Known(p, Head(batch[p]))
  /\ \A s, t \in shown[p] : s.id = t.id => s = t \/ s.id \in halved
CopiedInv == \A p \in Parties : Copied(p)

LEMMA CopyFacts ==
  ASSUME NEW e, NEW b
  PROVE  Copy(e, b).id = e.id /\ Copy(e, b).named = b
BY DEF Copy

LEMMA CopiedStep ==
  ASSUME Typed, CopiedInv, [Next]_vars
  PROVE  CopiedInv'
<1> SUFFICES ASSUME NEW p \in Parties PROVE Copied(p)'
  BY DEF CopiedInv
<1> DEFINE e == Head(batch[p])
<1>0. Copied(p) /\ halved \subseteq halved'
  BY HalvedStep DEF CopiedInv
<1>1. CASE shown'[p] = shown[p] /\ ~SaveId(p)
  <2>1. \A s \in shown'[p] : ~s.named =>
          s.id \in halved' \/ (step'[p] = "stored" /\ s.id = Head(batch'[p]).id)
    BY <1>0, <1>1, StoredStep DEF Copied
  <2>2. step'[p] = "stored" => /\ Copy(Head(batch'[p]), FALSE) \in shown'[p]
                              /\ ~Known(p, Head(batch[p]))' /\ batch'[p] = batch[p]
    BY <1>0, <1>1, StoredStep DEF Copied, Known
  <2> QED BY <1>0, <1>1, <2>1, <2>2 DEF Copied, Known
<1>2. CASE /\ ApplyEntry(p) /\ ~Known(p, e)
           /\ shown'[p] = shown[p] \union {Copy(e, FALSE)} /\ shown'[p] # shown[p]
  <2>1. step[p] = "pass" /\ batch' = batch /\ step'[p] = "stored"
    <3>1. step[p] = "pass" /\ batch' = batch
          /\ (shown' = shown \/ step' = [step EXCEPT ![p] = "stored"])
      BY <1>2 DEF ApplyEntry
    <3> QED BY <1>2, <3>1 DEF Typed
  <2>2. \A s \in shown[p] : s.id = e.id => s.id \in halved
    BY <1>0, <1>2, <2>1 DEF Copied, Known
  <2>3. Copy(e, FALSE).id = e.id /\ ~Copy(e, FALSE).named
    BY CopyFacts
  <2> HIDE DEF e
  <2>4. \A s \in shown'[p] : ~s.named => s.id \in halved' \/ s.id = e.id
    BY <1>0, <1>2, <2>1, <2>3 DEF Copied
  <2>5. ~(\E s \in shown'[p] : s.id = e.id /\ s.named)
    BY <1>2, <2>3 DEF Known
  <2>6. \A s, t \in shown'[p] : s.id = t.id => s = t \/ s.id \in halved'
    BY <1>0, <1>2, <2>2, <2>3 DEF Copied
  <2> QED BY <1>2, <2>1, <2>4, <2>5, <2>6 DEF Copied, Known, e
<1>3. CASE SaveId(p) /\ shown'[p] = Named(p, e)
  <2>1. step[p] = "stored" /\ step'[p] = "delete chat"
    BY <1>3 DEF SaveId, Typed
  <2>2. Copy(e, FALSE) \in shown[p] /\ Copy(e, FALSE).id = e.id
        /\ Copy(e, TRUE).id = e.id /\ Copy(e, TRUE).named
    BY <1>0, <2>1, CopyFacts DEF Copied
  <2>3. \A s \in shown[p] : s.id = e.id /\ s # Copy(e, FALSE) => s.id \in halved
    BY <1>0, <2>2 DEF Copied
  <2>4. \A s \in shown'[p] : s = Copy(e, TRUE) \/ (s \in shown[p] /\ s # Copy(e, FALSE))
    BY <1>3 DEF Named
  <2> HIDE DEF e
  <2>5. \A s \in shown'[p] : ~s.named => s.id \in halved'
    <3>1. \A s \in shown[p] : ~s.named => s.id \in halved \/ s.id = e.id
      BY <1>0 DEF Copied, e
    <3> QED BY <1>0, <2>2, <2>3, <2>4, <3>1
  <2>6. \A s, t \in shown'[p] : s.id = t.id => s = t \/ s.id \in halved'
    <3>1. \A s, t \in shown[p] : s.id = t.id => s = t \/ s.id \in halved
      BY <1>0 DEF Copied
    <3> QED BY <1>0, <2>2, <2>3, <2>4, <3>1
  <2> QED BY <2>1, <2>5, <2>6 DEF Copied
<1>4. SaveId(p) => shown'[p] = Named(p, e)
  BY DEF SaveId, Typed
<1> QED BY <1>1, <1>2, <1>3, <1>4, ShownStep

LEMMA CopiedInit == Init => CopiedInv
BY DEF Init, CopiedInv, Copied

(* Naming a record leaves what a device has received as it is, and nothing *)
(* else takes a record away.                                               *)
LEMMA ReceivedStep ==
  ASSUME Typed, CopiedInv, [Next]_vars, NEW m \in Messages
  PROVE  /\ Received(m) => Received(m)'
         /\ ~ApplyEntry(Peer(AuthorOf[m])) => (Received(m)' => Received(m))
<1> DEFINE p == Peer(AuthorOf[m])
           e == Head(batch[p])
<1>0. p \in Parties /\ Copied(p)
  BY PositionTyped, PeerFacts DEF CopiedInv
<1>1. CASE shown'[p] = shown[p]
  BY <1>1 DEF Received
<1>2. CASE ApplyEntry(p) /\ shown'[p] = shown[p] \union {Copy(e, FALSE)}
  BY <1>2 DEF Received
<1>3. CASE SaveId(p) /\ shown'[p] = Named(p, e)
  <2>1. Copy(e, FALSE) \in shown[p]
    BY <1>0, <1>3 DEF SaveId, Copied
  <2>2. Copy(e, FALSE).id = e.id /\ Copy(e, TRUE).id = e.id
    BY CopyFacts
  <2> HIDE DEF e
  <2>3. \A s \in shown[p] : \E t \in shown'[p] : t.id = s.id
    BY <1>3, <2>2 DEF Named
  <2>4. \A s \in shown'[p] : \E t \in shown[p] : t.id = s.id
    BY <1>3, <2>1, <2>2 DEF Named
  <2> QED BY <2>3, <2>4 DEF Received
<1> QED BY <1>0, <1>1, <1>2, <1>3, ShownStep

-----------------------------------------------------------------------------
(* The invariants of every run of the specification. *)
LEMMA AlwaysWritten == Spec => [](Typed /\ WrittenInv /\ CopiedInv)
<1>1. Init => Typed /\ WrittenInv /\ CopiedInv
  BY TypedInit, WrittenInit, CopiedInit
<1>2. Typed /\ WrittenInv /\ CopiedInv /\ [Next]_vars => (Typed /\ WrittenInv /\ CopiedInv)'
  BY TypedStep, WrittenInvStep, CopiedStep
<1> QED BY <1>1, <1>2, PTL DEF Spec

(* Every variable has its type, and ended work leaves nothing in memory.   *)
THEOREM DeliveryTyped == Spec => []TypeOK
<1>1. Typed => TypeOK
  BY DEF Typed, TypeOK, Holding, Idle, Shown
<1> QED BY <1>1, AlwaysWritten, PTL

(* Whatever is interrupted, the saved session of each device stays past    *)
(* every position it put on the wire.                                      *)
THEOREM KeysAreFresh == Spec => []FreshPosition
<1>1. WrittenInv => FreshPosition
  BY DEF WrittenInv, Local, FreshPosition
<1> QED BY <1>1, AlwaysWritten, PTL

(* However often a message is sent, redelivered or looked at again, the    *)
(* other device has one record of it, unless a pass was stopped between    *)
(* the two writes that store the message and its id.                       *)
THEOREM OneRecordShown == Spec => []ShownOnce
<1>1. CopiedInv => ShownOnce
  BY DEF CopiedInv, Copied, ShownOnce
<1> QED BY <1>1, AlwaysWritten, PTL

(* Once the author sees a message as delivered, no retry, flag or save     *)
(* takes that back.                                                        *)
THEOREM ConfirmationIsFinal == Spec => DeliveredStays
<1>1. Typed /\ WrittenInv /\ [Next]_vars => [\A m \in Messages : sent[m].delivered => sent'[m].delivered]_vars
  BY SentStep DEF Offered, Recorded, Accepted, Acknowledged
<1> QED BY <1>1, AlwaysWritten, PTL DEF Spec, DeliveredStays

-----------------------------------------------------------------------------
(* The envelopes on their way to a device: queued, fetched, or deleted     *)
(* since the relay's last save; and the one its peer has in hand.          *)
Copies(q) ==
  {e \in Envelopes : \/ e \in Ran(mailbox[q]) \/ e \in Ran(batch[q])
                     \/ removed[q] # Nothing /\ e = removed[q]}
Toward(q) ==
  {e \in Envelopes : e \in Copies(q) \/ (step[Peer(q)] \in Holds /\ e = out[Peer(q)])}

(* The positions a device opened, in its saved session or in its pass.     *)
Got(q) == {at \in Positions : at \in ratchet[q].got \/ (step[q] \in Passing /\ at \in mem[q].got)}

LEMMA RanEmpty == Ran(<<>>) = {}
BY DEF Ran

LEMMA QueuesTyped ==
  ASSUME Typed, NEW q \in Parties
  PROVE  mailbox[q] \in Seq(Envelopes) /\ batch[q] \in Seq(Envelopes)
BY DEF Typed

(* Mail only moves on: from the queue into a batch, and out of both.  What *)
(* is new in a queue was written by the peer.                              *)
LEMMA CopiesStep ==
  ASSUME Typed, [Next]_vars, NEW q \in Parties, NEW e \in Copies(q)'
  PROVE  e \in Copies(q) \/ (Writes(Peer(q)) /\ e = out[Peer(q)])
<1> USE DEF diskVars, workVars, linkVars, relayVars, boundVars
<1> DEFINE Goal == e \in Copies(q) \/ (Writes(Peer(q)) /\ e = out[Peer(q)])
<1>0. e \in Envelopes /\ \/ e \in Ran(mailbox'[q]) \/ e \in Ran(batch'[q])
                         \/ removed'[q] # Nothing /\ e = removed'[q]
  BY DEF Copies
<1>a. ASSUME Ran(mailbox'[q]) \subseteq Ran(mailbox[q]),
             Ran(batch'[q]) \subseteq Ran(batch[q]) \union Ran(mailbox[q]),
             removed'[q] = removed[q] \/ removed'[q] = Nothing
      PROVE  Goal
  BY <1>0, <1>a DEF Copies
<1>b. ASSUME NEW p \in Parties, Refused(p) \/ Unanswered(p) PROVE Ran(batch'[q]) \subseteq Ran(batch[q])
  <2>1. batch'[q] = batch[q] \/ batch'[q] = <<>>
    BY <1>b, EndedTyped, ReleaseTyped
  <2> QED BY <2>1, RanEmpty
<1>1. ASSUME NEW p \in Parties, Writes(p) PROVE Goal
  <2>1. out[p] \in Envelopes
    BY <1>1 DEF Writes, WriteChat, WriteReceipt, Typed, Holding, Sending
  <2>3. Ran(batch'[q]) \subseteq Ran(batch[q])
    <3>1. CASE Refused(p) \/ Unanswered(p)
      BY <1>b, <3>1
    <3>2. CASE ~(Refused(p) \/ Unanswered(p))
      <4>1. batch' = batch \/ (NextEntry(p) /\ WriteReceipt(p))
        BY <1>1, <3>2 DEF Writes, WriteChat, WriteReceipt
      <4>2. WriteReceipt(p) => batch[p] # <<>>
        BY DEF WriteReceipt, Typed, Holding, AtEntry
      <4>3. NextEntry(p) => batch'[q] = batch[q] \/ (q = p /\ batch'[q] = Tail(batch[q]))
        BY DEF NextEntry, Typed
      <4>4. batch'[q] = batch[q] \/ (batch[q] # <<>> /\ batch'[q] = Tail(batch[q]))
        BY <4>1, <4>2, <4>3
      <4> QED BY <4>4, QueuesTyped, RanHeadTail
    <3> QED BY <3>1, <3>2
  <2>4. removed' = removed /\ (mailbox' = mailbox \/ Queued(p))
    BY <1>1 DEF Writes, WriteChat, WriteReceipt, Refused, Unanswered
  <2>5. CASE mailbox' = mailbox
    BY <1>a, <2>3, <2>4, <2>5
  <2>6. CASE Queued(p)
    <3>1. CASE q = Peer(p)
      <4>1. mailbox'[q] = Append(mailbox[q], out[p])
        BY <2>6, <3>1, PeerFacts DEF Queued, Typed
      <4>2. Ran(mailbox'[q]) = Ran(mailbox[q]) \union {out[p]}
        BY <2>1, <4>1, QueuesTyped, RanAppend
      <4>3. Peer(q) = p
        BY <3>1, PeerFacts
      <4> QED BY <1>0, <1>1, <2>3, <2>4, <4>2, <4>3 DEF Copies
    <3>2. CASE q # Peer(p)
      <4>1. mailbox'[q] = mailbox[q]
        BY <2>6, <3>2, PeerFacts DEF Queued, Typed
      <4> QED BY <1>a, <2>3, <2>4, <4>1
    <3> QED BY <3>1, <3>2
  <2> QED BY <2>4, <2>5, <2>6
<1>2. ASSUME NEW p \in Parties, Fetch(p) PROVE Goal
  <2>1. UNCHANGED <<mailbox, removed>>
    BY <1>2 DEF Fetch
  <2>2. CASE Unanswered(p)
    BY <1>a, <1>b, <2>1, <2>2
  <2>3. CASE ~Unanswered(p)
    <3>1. batch'[q] = batch[q] \/ batch'[q] = mailbox[q]
      BY <1>2, <2>3 DEF Fetch, Typed
    <3> QED BY <1>a, <2>1, <3>1
  <2> QED BY <2>2, <2>3
<1>3. ASSUME NEW p \in Parties, DeleteEntry(p) PROVE Goal
  <2>1. batch[p] # <<>> /\ batch[p] \in Seq(Envelopes) /\ mailbox[p] \in Seq(Envelopes)
    BY <1>3 DEF DeleteEntry, Typed, Holding, AtEntry
  <2>2. Head(batch[p]) \in Ran(batch[p]) /\ Ran(Tail(batch[p])) \subseteq Ran(batch[p])
    BY <2>1, RanHeadTail
  <2>3. Ran(RemovedAt(mailbox[p], Head(batch[p]).at)) \subseteq Ran(mailbox[p])
    BY <2>1, RanRemoved
  <2>4. Ran(batch'[q]) \subseteq Ran(batch[q])
    <3>1. CASE Refused(p) \/ Unanswered(p)
      BY <1>b, <3>1
    <3>2. CASE ~(Refused(p) \/ Unanswered(p))
      <4>1. batch' = batch \/ NextEntry(p)
        BY <1>3, <3>2 DEF DeleteEntry
      <4>2. NextEntry(p) => batch'[q] = batch[q] \/ (q = p /\ batch'[q] = Tail(batch[q]))
        BY DEF NextEntry, Typed
      <4> QED BY <2>2, <4>1, <4>2
    <3> QED BY <3>1, <3>2
  <2>5. UNCHANGED <<mailbox, removed>> \/ Removed(p)
    BY <1>3 DEF DeleteEntry, Refused
  <2>6. CASE UNCHANGED <<mailbox, removed>>
    BY <1>a, <2>4, <2>6
  <2>7. CASE Removed(p)
    <3>1. CASE q = p
      <4>1. mailbox'[q] = RemovedAt(mailbox[p], Head(batch[p]).at) /\ removed'[q] = Head(batch[p])
        BY <2>7, <3>1 DEF Removed, Typed
      <4> QED BY <1>0, <2>2, <2>3, <2>4, <3>1, <4>1 DEF Copies
    <3>2. CASE q # p
      <4>1. mailbox'[q] = mailbox[q] /\ removed'[q] = removed[q]
        BY <2>7, <3>2 DEF Removed, Typed
      <4> QED BY <1>a, <2>4, <4>1
    <3> QED BY <3>1, <3>2
  <2> QED BY <2>5, <2>6, <2>7
<1>4. ASSUME NEW p \in Parties, SaveAccepted(p) \/ EndPass(p) \/ Crash(p) PROVE Goal
  <2>1. UNCHANGED <<mailbox, removed>> /\ Release(p)
    BY <1>4 DEF SaveAccepted, EndPass, Crash
  <2>2. batch'[q] = batch[q] \/ batch'[q] = <<>>
    BY <2>1, ReleaseTyped
  <2> QED BY <1>a, <2>1, <2>2, RanEmpty
<1>5. ASSUME UNCHANGED <<mailbox, removed, batch>> PROVE Goal
  BY <1>a, <1>5
<1>6. ASSUME NEW p \in Parties, Reappear(p) PROVE Goal
  <2>1. /\ removed[p] \in Envelopes /\ removed[p] # Nothing /\ batch' = batch
        /\ mailbox' = [mailbox EXCEPT ![p] = <<removed[p]>> \o mailbox[p]]
        /\ removed' = [removed EXCEPT ![p] = Nothing]
    BY <1>6 DEF Reappear, Typed
  <2>2. CASE q = p
    <3>1. Ran(mailbox'[q]) = Ran(mailbox[q]) \union {removed[q]} /\ removed'[q] = Nothing
      BY <2>1, <2>2, QueuesTyped, RanPrepend DEF Typed
    <3> QED BY <1>0, <2>1, <2>2, <3>1 DEF Copies
  <2>3. CASE q # p
    <3>1. mailbox'[q] = mailbox[q] /\ removed'[q] = removed[q]
      BY <2>1, <2>3 DEF Typed
    <3> QED BY <1>a, <2>1, <3>1
  <2> QED BY <2>2, <2>3
<1>7. ASSUME NEW p \in Parties, Expire(p) PROVE Goal
  <2>1. UNCHANGED <<batch, removed>> /\ mailbox[p] # <<>> /\ mailbox' = [mailbox EXCEPT ![p] = Tail(mailbox[p])]
    BY <1>7 DEF Expire
  <2>2. mailbox'[q] = mailbox[q] \/ (mailbox[q] # <<>> /\ mailbox'[q] = Tail(mailbox[q]))
    BY <2>1 DEF Typed
  <2>3. Ran(mailbox'[q]) \subseteq Ran(mailbox[q])
    BY <2>2, QueuesTyped, RanHeadTail
  <2> QED BY <1>a, <2>1, <2>3
<1>8. CASE Restart
  <2>1. mailbox'[q] = <<>> /\ removed'[q] = Nothing /\ batch' = batch
    BY <1>8 DEF Restart
  <2> QED BY <1>a, <2>1, RanEmpty
<1>9. ASSUME NEW p \in Parties, Acts(p),
             ~Writes(p), ~Fetch(p), ~DeleteEntry(p), ~(SaveAccepted(p) \/ EndPass(p) \/ Crash(p)),
             ~Reappear(p), ~Expire(p)
      PROVE  UNCHANGED <<mailbox, removed, batch>>
  <2>1. Send(p) => UNCHANGED <<mailbox, removed, batch>>
    BY <1>9 DEF Send, SealChat, SaveFlagged, Writes
  <2>2. Receive(p) => UNCHANGED <<mailbox, removed, batch>>
    BY <1>9 DEF Receive, ApplyEntry, SaveId, SealReceipt, Writes
  <2>3. Reconnect(p) => UNCHANGED <<mailbox, removed, batch>>
    BY DEF Reconnect, Connect, FlagLost, NoteBoot, Adopt
  <2> QED BY <1>9, <2>1, <2>2, <2>3 DEF Acts, KeepUnsent, MarkExpired, RecordVerification
<1>10. CASE UNCHANGED vars
  BY <1>5, <1>10 DEF vars
<1>11. ASSUME NEW p \in Parties, Acts(p) PROVE Goal
  BY <1>1, <1>2, <1>3, <1>4, <1>5, <1>6, <1>7, <1>9, <1>11
<1> QED BY <1>8, <1>10, <1>11, NextIsActs

(* A device opens one position at a time, that of the entry it looks at.   *)
LEMMA GotStep ==
  ASSUME Typed, [Next]_vars, NEW q \in Parties, NEW at \in Got(q)'
  PROVE  \/ at \in Got(q)
         \/ ApplyEntry(q) /\ Opens(mem[q], at) /\ at = Head(batch[q]).at
<1> USE DEF diskVars, workVars, linkVars, relayVars, boundVars
<1> DEFINE Goal == \/ at \in Got(q)
                   \/ ApplyEntry(q) /\ Opens(mem[q], at) /\ at = Head(batch[q]).at
<1>0. at \in Positions /\ (at \in ratchet'[q].got \/ (step'[q] \in Passing /\ at \in mem'[q].got))
  BY DEF Got
<1>0a. Sound(ratchet[q]) /\ (step[q] \in Passing => Sound(mem[q]))
  BY DEF Typed, Holding
<1>0b. "idle" \notin Passing /\ "pass" \in Passing /\ "receipt" \in Passing /\ "receipt sealed" \in Passing
       /\ "sealed" \notin Passing /\ "saved" \notin Passing /\ "accepted" \notin Passing
       /\ AtEntry \subseteq Passing
  BY DEF Passing, AtEntry
<1>1. CASE Untouched(q)
  BY <1>0, <1>1 DEF Untouched, Got
<1>2. ASSUME step'[q] \notin Passing, ratchet'[q].got \subseteq ratchet[q].got PROVE Goal
  BY <1>0, <1>2 DEF Got
<1>3. ASSUME NEW m \in Messages, SealChat(q, m) PROVE Goal
  <2>1. ratchet'[q] = Advanced(ratchet[q]) /\ step'[q] = "sealed"
    BY <1>3 DEF SealChat, SavedBeforeSend, Typed
  <2> QED BY <1>0a, <1>0b, <1>2, <2>1, SessionFacts
<1>4. CASE SaveFlagged(q)
  BY <1>0b, <1>2, <1>4 DEF SaveFlagged, Typed
<1>5. CASE Writes(q)
  <2>1. UNCHANGED ratchet /\ (step[q] = "saved" \/ step[q] = "receipt sealed")
    BY <1>5 DEF Writes, WriteChat, WriteReceipt
  <2>2. CASE Refused(q) \/ Unanswered(q)
    BY <1>0b, <1>2, <2>1, <2>2, EndedTyped, ReleaseTyped
  <2>3. CASE ~(Refused(q) \/ Unanswered(q))
    <3>1. step'[q] = "accepted" \/ (step[q] = "receipt sealed" /\ mem' = mem)
      BY <1>5, <2>3 DEF Writes, WriteChat, WriteReceipt, Typed
    <3> QED BY <1>0, <1>0b, <1>2, <2>1, <3>1 DEF Got
  <2> QED BY <2>2, <2>3
<1>6. CASE SaveAccepted(q) \/ Crash(q)
  BY <1>0b, <1>2, <1>6, ReleaseTyped DEF SaveAccepted, Crash
<1>7. CASE Fetch(q)
  <2>1. UNCHANGED ratchet
    BY <1>7 DEF Fetch
  <2>2. CASE Unanswered(q)
    BY <1>0b, <1>2, <2>1, <2>2, EndedTyped, ReleaseTyped
  <2>3. CASE ~Unanswered(q)
    <3>1. mem'[q] = ratchet[q]
      BY <1>7, <2>3 DEF Fetch, Typed
    <3> QED BY <1>0, <2>1, <3>1 DEF Got
  <2> QED BY <2>2, <2>3
<1>8. CASE ApplyEntry(q)
  <2>1. UNCHANGED ratchet /\ step[q] = "pass" /\ batch[q] # <<>> /\ Sound(mem[q])
        /\ batch[q] \in Seq(Envelopes)
    <3>1. UNCHANGED ratchet /\ step[q] = "pass" /\ batch[q] # <<>>
      BY <1>8 DEF ApplyEntry
    <3>2. batch[q] \in Seq(Envelopes)
      BY DEF Typed
    <3> QED BY <1>0a, <1>0b, <3>1, <3>2
  <2>2. Head(batch[q]) \in Envelopes
    BY <2>1, RanHeadTail
  <2>3. Head(batch[q]).at \in Positions
    BY <2>2 DEF Envelopes
  <2>4. \/ mem' = mem
        \/ /\ Head(batch[q]).at \notin mem[q].got
           /\ mem' = [mem EXCEPT ![q] = Opened(mem[q], Head(batch[q]).at)]
    BY <1>8 DEF ApplyEntry, Opens
  <2>5. CASE mem' = mem
    BY <1>0, <1>0b, <2>1, <2>5 DEF Got
  <2>6. CASE /\ Head(batch[q]).at \notin mem[q].got
             /\ mem' = [mem EXCEPT ![q] = Opened(mem[q], Head(batch[q]).at)]
    <3>1. mem'[q] = Opened(mem[q], Head(batch[q]).at)
      BY <2>6 DEF Typed
    <3>2. mem'[q].got = mem[q].got \union {Head(batch[q]).at}
      BY <2>1, <2>3, <3>1, OpenedFacts
    <3> QED BY <1>0, <1>0b, <1>8, <2>1, <2>6, <3>2 DEF Got, Opens
  <2> QED BY <2>4, <2>5, <2>6
<1>9. CASE DeleteEntry(q)
  <2>1. UNCHANGED ratchet /\ step[q] \in Passing
    BY <1>0b, <1>9 DEF DeleteEntry, AtEntry
  <2>2. CASE Refused(q) \/ Unanswered(q)
    BY <1>0b, <1>2, <2>1, <2>2, EndedTyped, ReleaseTyped
  <2>3. CASE ~(Refused(q) \/ Unanswered(q))
    <3>1. mem' = mem
      BY <1>9, <2>3 DEF DeleteEntry
    <3> QED BY <1>0, <2>1, <3>1 DEF Got
  <2> QED BY <2>2, <2>3
<1>10. CASE SealReceipt(q)
  <2>1. /\ step[q] = "receipt" /\ ratchet'[q] = Advanced(mem[q]) /\ mem'[q] = Advanced(mem[q])
    BY <1>10 DEF SealReceipt, SavedBeforeSend, Typed
  <2>2. Advanced(mem[q]).got = mem[q].got
    BY <1>0a, <1>0b, <2>1, SessionFacts
  <2> QED BY <1>0, <1>0b, <2>1, <2>2 DEF Got
<1>11. CASE EndPass(q)
  <2>1. step[q] = "pass" /\ ratchet'[q] = mem[q] /\ step'[q] = "idle"
    BY <1>11, ReleaseTyped DEF EndPass, Typed
  <2> QED BY <1>0, <1>0b, <2>1 DEF Got
<1>12. CASE UNCHANGED <<ratchet, step, mem>>
  BY <1>0, <1>12 DEF Got
<1>15. CASE SaveId(q)
  BY <1>0, <1>0b, <1>15 DEF SaveId, Got, AtEntry
<1>13. ASSUME Acts(q) PROVE Goal
  <2>1. Send(q) => Goal
    BY <1>3, <1>4, <1>5, <1>6 DEF Send, Writes
  <2>2. Receive(q) => Goal
    BY <1>5, <1>7, <1>8, <1>9, <1>10, <1>11, <1>15 DEF Receive, Writes
  <2>3. Reconnect(q) => UNCHANGED <<ratchet, step, mem>>
    BY DEF Reconnect, Connect, FlagLost, NoteBoot, Adopt
  <2> QED BY <1>6, <1>12, <1>13, <2>1, <2>2, <2>3
      DEF Acts, Reappear, Expire, KeepUnsent, MarkExpired, RecordVerification
<1>14. Acts(q) \/ Untouched(q)
  <2>1. CASE Restart \/ UNCHANGED vars
    BY <2>1, NobodyTouched
  <2>2. ASSUME NEW p \in Parties, Acts(p) PROVE Acts(q) \/ Untouched(q)
    BY <2>2, ActsAlone
  <2> QED BY <2>1, <2>2, NextIsActs
<1> QED BY <1>1, <1>13, <1>14

(* A write is what puts a position on the wire, and it changes no record.  *)
LEMMA SealedStep ==
  ASSUME Typed, WrittenInv, [Next]_vars, NEW p \in Parties
  PROVE  /\ sealed'[p] \in Positions /\ ~Before(sealed'[p], sealed[p])
         /\ Writes(p) => /\ step[p] \in {"saved", "receipt sealed"} /\ sealed'[p] = out[p].at
                         /\ sent' = sent /\ out[p] \in Envelopes
<1> USE DEF diskVars, workVars, linkVars, relayVars, boundVars
<1>0. sealed[p] \in Positions /\ Local(p) /\ ~Before(sealed[p], sealed[p])
  BY PositionTyped, BeforeOrder DEF WrittenInv
<1>1. ASSUME Writes(p)
      PROVE  /\ step[p] \in {"saved", "receipt sealed"} /\ sealed'[p] = out[p].at
             /\ sent' = sent /\ out[p] \in Envelopes /\ out[p].at \in Positions
             /\ ~Before(sealed'[p], sealed[p])
  <2>1. step[p] \in {"saved", "receipt sealed"} /\ sealed'[p] = out[p].at /\ sent' = sent
    BY <1>1 DEF Writes, WriteChat, WriteReceipt, OnTheWire, Typed
  <2>2. out[p] \in Envelopes /\ out[p].at \in Positions /\ Before(sealed[p], out[p].at)
    BY <1>0, <2>1, PositionTyped DEF Local, Holds, Sending
  <2>3. ~Before(out[p].at, sealed[p])
    BY <1>0, <2>2, BeforeOrder
  <2> QED BY <2>1, <2>2, <2>3
<1>2. ASSUME ~Writes(p), Acts(p) PROVE sealed' = sealed
  <2>1. Send(p) => sealed' = sealed
    BY <1>2 DEF Send, SealChat, SaveFlagged, SaveAccepted, Writes
  <2>2. Receive(p) => sealed' = sealed
    BY <1>2 DEF Receive, Fetch, ApplyEntry, SaveId, DeleteEntry, SealReceipt, EndPass, Writes
  <2>3. Reconnect(p) => sealed' = sealed
    BY DEF Reconnect, Connect, FlagLost, NoteBoot, Adopt
  <2> QED BY <1>2, <2>1, <2>2, <2>3
      DEF Acts, Crash, Reappear, Expire, KeepUnsent, MarkExpired, RecordVerification
<1>3. ASSUME ~Acts(p) PROVE sealed'[p] = sealed[p]
  <2>1. CASE Restart \/ UNCHANGED vars
    BY <2>1, NobodyTouched DEF Untouched
  <2>2. ASSUME NEW q \in Parties, Acts(q) PROVE sealed'[p] = sealed[p]
    BY <1>3, <2>2, ActsAlone DEF Untouched
  <2> QED BY <2>1, <2>2, NextIsActs
<1> QED BY <1>0, <1>1, <1>2, <1>3

(* What a device holds sealed it held before, or it just sealed it from    *)
(* its session; and an accepted chat is one that was just queued.          *)
LEMMA HandStep ==
  ASSUME Typed, [Next]_vars, NEW p \in Parties, step'[p] \in Holds
  PROVE  /\ \/ step[p] \in Holds /\ out'[p] = out[p]
            \/ \E m \in Messages : out'[p] = Chat(NextPosition(ratchet[p]), m, Progress(ratchet[p]))
            \/ /\ step[p] = "receipt"
               /\ out'[p] = Receipt(NextPosition(mem[p]), Head(batch[p]).id, Head(batch[p]).at)
         /\ step'[p] = "accepted" => /\ out'[p] = out[p]
                                     /\ \/ step[p] = "accepted"
                                        \/ step[p] = "saved" /\ Queued(p) /\ WriteChat(p)
<1> USE DEF diskVars, workVars, linkVars, relayVars, boundVars
<1> DEFINE Goal ==
      /\ \/ step[p] \in Holds /\ out'[p] = out[p]
         \/ \E m \in Messages : out'[p] = Chat(NextPosition(ratchet[p]), m, Progress(ratchet[p]))
         \/ /\ step[p] = "receipt"
            /\ out'[p] = Receipt(NextPosition(mem[p]), Head(batch[p]).id, Head(batch[p]).at)
      /\ step'[p] = "accepted" => /\ out'[p] = out[p]
                                  /\ \/ step[p] = "accepted"
                                     \/ step[p] = "saved" /\ Queued(p) /\ WriteChat(p)
<1>a. "idle" \notin Holds /\ "pass" \notin Holds /\ "receipt" \notin Holds /\ "delete" \notin Holds
      /\ "delete chat" \notin Holds /\ "stored" \notin Holds /\ "sealed" \in Holds /\ "saved" \in Holds /\ "accepted" \in Holds
      /\ "receipt sealed" \in Holds
  BY DEF Holds, Sending
<1>1. CASE step'[p] = step[p] /\ out'[p] = out[p]
  BY <1>1
<1>2. ASSUME NEW m \in Messages, SealChat(p, m) PROVE Goal
  BY <1>2 DEF SealChat, Typed
<1>3. CASE SaveFlagged(p)
  BY <1>3, <1>a DEF SaveFlagged, Typed
<1>4. CASE WriteChat(p)
  <2>1. CASE Refused(p) \/ Unanswered(p)
    BY <1>a, <2>1, EndedTyped, ReleaseTyped
  <2>2. CASE ~(Refused(p) \/ Unanswered(p))
    <3>1. step[p] = "saved" /\ Queued(p) /\ out' = out
      BY <1>4, <2>2 DEF WriteChat
    <3> QED BY <1>4, <1>a, <3>1
  <2> QED BY <2>1, <2>2
<1>5. CASE SaveAccepted(p) \/ EndPass(p) \/ Crash(p)
  BY <1>5, <1>a, ReleaseTyped DEF SaveAccepted, EndPass, Crash
<1>6. CASE Fetch(p) \/ DeleteEntry(p) \/ WriteReceipt(p)
  <2>1. CASE Refused(p) \/ Unanswered(p)
    BY <1>a, <2>1, EndedTyped, ReleaseTyped
  <2>2. CASE ~(Refused(p) \/ Unanswered(p))
    <3>1. step'[p] \in {"pass", "receipt"}
      BY <1>6, <2>2 DEF Fetch, DeleteEntry, WriteReceipt, NextEntry, Typed
    <3> QED BY <1>a, <3>1
  <2> QED BY <2>1, <2>2
<1>7. CASE ApplyEntry(p) \/ SaveId(p)
  BY <1>7, <1>a DEF ApplyEntry, SaveId, Typed
<1>8. CASE SealReceipt(p)
  BY <1>8 DEF SealReceipt, Typed
<1>9. ASSUME Acts(p) PROVE Goal
  <2>1. Send(p) => Goal
    BY <1>2, <1>3, <1>4, <1>5 DEF Send
  <2>2. Receive(p) => Goal
    BY <1>5, <1>6, <1>7, <1>8 DEF Receive
  <2>3. Reconnect(p) => step' = step /\ out' = out
    BY DEF Reconnect, Connect, FlagLost, NoteBoot, Adopt
  <2> QED BY <1>1, <1>5, <1>9, <2>1, <2>2, <2>3
      DEF Acts, Reappear, Expire, KeepUnsent, MarkExpired, RecordVerification
<1>10. ASSUME ~Acts(p) PROVE step'[p] = step[p] /\ out'[p] = out[p]
  <2>1. CASE Restart \/ UNCHANGED vars
    BY <2>1, NobodyTouched DEF Untouched
  <2>2. ASSUME NEW q \in Parties, Acts(q) PROVE step'[p] = step[p] /\ out'[p] = out[p]
    BY <1>10, <2>2, ActsAlone DEF Untouched
  <2> QED BY <2>1, <2>2, NextIsActs
<1> QED BY <1>1, <1>9, <1>10

(* An acknowledgement claims only what its sender opened.                  *)
LEMMA TowardStep ==
  ASSUME Typed, WrittenInv, [Next]_vars, NEW p \in Parties, NEW e \in Toward(p)'
  PROVE  \/ e \in Toward(p)
         \/ /\ e.acks = NoPosition \/ e.acks \in Got(Peer(p))
            /\ \A at \in Positions : Confirms(e, at) => at = NoPosition \/ at \in Got(Peer(p))
<1> DEFINE q == Peer(p)
<1>0. q \in Parties /\ Peer(q) = p /\ Local(q) /\ Sound(ratchet[q])
  BY PeerFacts DEF WrittenInv, Typed
<1>1. CASE e \in Copies(p)'
  <2>1. e \in Copies(p) \/ (Writes(q) /\ e = out[q])
    BY <1>1, CopiesStep
  <2>2. Writes(q) => step[q] \in Holds /\ out[q] \in Envelopes
    BY <1>0, SealedStep DEF Holds, Sending
  <2> QED BY <2>1, <2>2 DEF Toward, Copies
<1>2. CASE step'[q] \in Holds /\ e = out'[q]
  <2>1. CASE step[q] \in Holds /\ out'[q] = out[q]
    BY <1>2, <2>1 DEF Toward
  <2>2. ASSUME NEW m \in Messages, out'[q] = Chat(NextPosition(ratchet[q]), m, Progress(ratchet[q]))
        PROVE  /\ e.acks = NoPosition \/ e.acks \in Got(q)
               /\ \A at \in Positions : Confirms(e, at) => at = NoPosition \/ at \in Got(q)
    <3>1. e.acks = Progress(ratchet[q]) /\ e.kind = "chat"
      BY <1>2, <2>2 DEF Chat
    <3>2. CASE Progress(ratchet[q]) = NoPosition
      <4>1. \A at \in Positions : Confirms(e, at) => at = NoPosition
        BY <3>1, <3>2 DEF Confirms, NoPosition, Positions
      <4> QED BY <3>1, <3>2, <4>1
    <3>3. CASE Progress(ratchet[q]) # NoPosition
      <4>1. /\ Progress(ratchet[q]) \in Positions /\ Progress(ratchet[q]) \in ratchet[q].got
            /\ \A at \in Positions : at[1] = Progress(ratchet[q])[1] /\ at[2] <= Progress(ratchet[q])[2]
                                     => at \in ratchet[q].got
        BY <1>0, <3>3, ProgressFacts
      <4> QED BY <3>1, <4>1 DEF Confirms, Got
    <3> QED BY <3>2, <3>3
  <2>3. ASSUME step[q] = "receipt",
               out'[q] = Receipt(NextPosition(mem[q]), Head(batch[q]).id, Head(batch[q]).at)
        PROVE  /\ e.acks = NoPosition \/ e.acks \in Got(q)
               /\ \A at \in Positions : Confirms(e, at) => at = NoPosition \/ at \in Got(q)
    <3>1. e.acks = Head(batch[q]).at /\ e.kind = "receipt"
      BY <1>2, <2>3 DEF Receipt
    <3>2. Head(batch[q]).at \in mem[q].got /\ Head(batch[q]).at \in Positions
      BY <1>0, <2>3, PositionTyped DEF Local, AtEntry
    <3>3. Head(batch[q]).at \in Got(q)
      BY <2>3, <3>2 DEF Got, Passing, AtEntry
    <3> QED BY <3>1, <3>3 DEF Confirms
  <2> QED BY <1>0, <1>2, <2>1, <2>2, <2>3, HandStep
<1> QED BY <1>1, <1>2 DEF Toward

(* A message the other device has, on its screen or withheld.              *)
Took(m) == Received(m) \/ m \in withheld

LEMMA WithheldStep ==
  ASSUME [Next]_vars
  PROVE  withheld \subseteq withheld'
<1> USE DEF diskVars, workVars, linkVars, relayVars, boundVars
<1>1. ASSUME NEW p \in Parties, Acts(p) PROVE withheld \subseteq withheld'
  <2>1. Send(p) => withheld' = withheld
    BY DEF Send, SealChat, SaveFlagged, WriteChat, SaveAccepted, Refused, Unanswered
  <2>2. Receive(p) => withheld \subseteq withheld'
    BY DEF Receive, Fetch, ApplyEntry, SaveId, DeleteEntry, SealReceipt, WriteReceipt, EndPass,
           Refused, Unanswered
  <2>3. Reconnect(p) => withheld' = withheld
    BY DEF Reconnect, Connect, FlagLost, NoteBoot, Adopt
  <2> QED BY <1>1, <2>1, <2>2, <2>3
      DEF Acts, Crash, Reappear, Expire, KeepUnsent, MarkExpired, RecordVerification
<1> QED BY <1>1, NextIsActs DEF Restart, vars

LEMMA ExpiredStep ==
  ASSUME [Next]_vars
  PROVE  expired \subseteq expired'
<1> USE DEF diskVars, workVars, linkVars, relayVars, boundVars
<1>1. ASSUME NEW p \in Parties, Acts(p) PROVE expired \subseteq expired'
  <2>1. Send(p) => expired' = expired
    BY DEF Send, SealChat, SaveFlagged, WriteChat, SaveAccepted, Refused, Unanswered
  <2>2. Receive(p) => expired' = expired
    BY DEF Receive, Fetch, ApplyEntry, SaveId, DeleteEntry, SealReceipt, WriteReceipt, EndPass,
           Refused, Unanswered
  <2>3. Reconnect(p) => expired' = expired
    BY DEF Reconnect, Connect, FlagLost, NoteBoot, Adopt
  <2> QED BY <1>1, <2>1, <2>2, <2>3
      DEF Acts, Crash, Reappear, Expire, KeepUnsent, MarkExpired, RecordVerification
<1> QED BY <1>1, NextIsActs DEF Restart, vars

LEMMA TookStep ==
  ASSUME Typed, CopiedInv, [Next]_vars, NEW m \in Messages, Took(m)
  PROVE  Took(m)'
BY ReceivedStep, WithheldStep DEF Took

-----------------------------------------------------------------------------
(* The other device has met, opened and acknowledged no position past      *)
(* those this one put on the wire.                                         *)
Seen(p) ==
  /\ \A e \in Copies(Peer(p)) : ~Before(sealed[p], e.at)
  /\ \A at \in Got(Peer(p)) : ~Before(sealed[p], at)
  /\ \A e \in Toward(p) : ~Before(sealed[p], e.acks)
SeenInv == \A p \in Parties : Seen(p)

LEMMA EnvelopeFacts ==
  ASSUME NEW e \in Envelopes
  PROVE  e.at \in Positions /\ e.acks \in Positions /\ e.id \in Messages /\ e.kind \in {"chat", "receipt"}
BY DEF Envelopes

LEMMA NothingBeforeFirst ==
  ASSUME NEW at \in Positions
  PROVE  ~Before(at, NoPosition)
BY DEF Positions, Before, NoPosition

LEMMA EntryAtHand ==
  ASSUME Typed, NEW q \in Parties, batch[q] # <<>>
  PROVE  Head(batch[q]) \in Copies(q) /\ Head(batch[q]) \in Envelopes
BY QueuesTyped, RanHeadTail DEF Copies

LEMMA SeenStep ==
  ASSUME Typed, WrittenInv, SeenInv, [Next]_vars
  PROVE  SeenInv'
<1> SUFFICES ASSUME NEW p \in Parties PROVE Seen(p)'
  BY DEF SeenInv
<1> DEFINE q == Peer(p)
<1>0. /\ q \in Parties /\ Peer(q) = p /\ Seen(p)
      /\ sealed[p] \in Positions /\ sealed'[p] \in Positions /\ ~Before(sealed'[p], sealed[p])
  BY PeerFacts, PositionTyped, SealedStep DEF SeenInv
<1>1. ASSUME NEW at \in Positions, ~Before(sealed[p], at) PROVE ~Before(sealed'[p], at)
  BY <1>0, <1>1, BeforeOrder
<1>2. ASSUME NEW e \in Copies(q)' PROVE ~Before(sealed'[p], e.at)
  <2>1. e \in Envelopes
    BY <1>2 DEF Copies
  <2>2. CASE e \in Copies(q)
    BY <1>0, <1>1, <2>1, <2>2, EnvelopeFacts DEF Seen
  <2>3. CASE Writes(p) /\ e = out[p]
    <3>1. sealed'[p] = e.at /\ e.at \in Positions
      BY <2>1, <2>3, SealedStep, EnvelopeFacts
    <3> QED BY <3>1, BeforeOrder
  <2> QED BY <1>0, <2>2, <2>3, CopiesStep
<1>3. ASSUME NEW at \in Got(q)' PROVE ~Before(sealed'[p], at)
  <2>1. at \in Positions
    BY <1>3 DEF Got
  <2>2. CASE at \in Got(q)
    BY <1>0, <1>1, <2>1, <2>2 DEF Seen
  <2>3. CASE ApplyEntry(q) /\ at = Head(batch[q]).at
    <3>1. batch[q] # <<>>
      BY <2>3 DEF ApplyEntry
    <3>2. Head(batch[q]) \in Copies(q)
      BY <1>0, <3>1, EntryAtHand
    <3> QED BY <1>0, <1>1, <2>1, <2>3, <3>2 DEF Seen
  <2> QED BY <1>0, <2>2, <2>3, GotStep
<1>4. ASSUME NEW e \in Toward(p)' PROVE ~Before(sealed'[p], e.acks)
  <2>1. e \in Envelopes
    BY <1>4 DEF Toward
  <2>2. CASE e \in Toward(p)
    BY <1>0, <1>1, <2>1, <2>2, EnvelopeFacts DEF Seen
  <2>3. CASE e.acks = NoPosition \/ e.acks \in Got(q)
    BY <1>0, <1>1, <2>1, <2>3, EnvelopeFacts, NothingBeforeFirst DEF Seen
  <2> QED BY <2>2, <2>3, TowardStep
<1> QED BY <1>2, <1>3, <1>4 DEF Seen

LEMMA SeenInit == Init => SeenInv
<1> SUFFICES ASSUME Init, NEW p \in Parties PROVE Seen(p)
  BY DEF SeenInv
<1>1. Peer(p) \in Parties
  BY PeerFacts
<1>2. Got(Peer(p)) = {}
  BY <1>1 DEF Init, Got, Session, Passing, AtEntry
<1>3. \A q \in Parties : Copies(q) = {}
  BY RanEmpty DEF Init, Copies
<1>4. Toward(p) = {}
  BY <1>1, <1>3 DEF Toward, Init, Holds, Sending
<1> QED BY <1>1, <1>2, <1>3, <1>4 DEF Seen

-----------------------------------------------------------------------------
(* A copy on its way carries the message its author recorded it for.       *)
Carried(m, e) ==
  /\ sent[m].at # NoPosition /\ e.at = sent[m].at => e.kind = "chat" /\ e.id = m
  /\ e.kind = "chat" /\ e.id = m => sent[m].retry # "unsaved"

(* What the other device opened, acknowledged, or what is confirmed, is a  *)
(* message it took.                                                        *)
Honest(p, m) ==
  /\ \A e \in Copies(Peer(p)) : Carried(m, e)
  /\ sent[m].at # NoPosition /\ sent[m].at \in Got(Peer(p)) => Took(m)
  /\ \A e \in Toward(p) : sent[m].at # NoPosition /\ Confirms(e, sent[m].at) => Took(m)
  /\ sent[m].delivered => Took(m)
TruthInv ==
  /\ \A m \in Messages : Honest(AuthorOf[m], m)
  /\ \A p \in Parties : \A e \in Copies(Peer(p)) : e.kind = "chat" => AuthorOf[e.id] = p

(* A new copy is one that nobody met or acknowledged.                      *)
LEMMA FreshIsUnmet ==
  ASSUME Typed, WrittenInv, SeenInv, NEW p \in Parties, step[p] = "sealed"
  PROVE  LET at == out[p].at IN
         /\ at \in Positions /\ \A e \in Copies(Peer(p)) : e.at # at
         /\ at \notin Got(Peer(p))
         /\ \A e \in Toward(p) : ~Confirms(e, at)
<1> DEFINE at == out[p].at
<1>1. sealed[p] \in Positions /\ at \in Positions /\ Before(sealed[p], at) /\ Seen(p)
  BY PositionTyped DEF WrittenInv, Local, Holds, Sending, SeenInv
<1>2. ASSUME NEW e \in Toward(p), Confirms(e, at) PROVE FALSE
  <2>1. ~Before(sealed[p], e.acks) /\ e.acks \in Positions
    BY <1>1, EnvelopeFacts DEF Seen, Toward
  <2>2. ~Before(e.acks, at)
    BY <1>1, <1>2, <2>1 DEF Confirms, Before, Positions
  <2> QED BY <1>1, <2>1, <2>2, BeforeOrder
<1> QED BY <1>1, <1>2 DEF Seen

LEMMA HonestStep ==
  ASSUME Typed, Typed', WrittenInv, CopiedInv, SeenInv, TruthInv, [Next]_vars, NEW m \in Messages
  PROVE  Honest(AuthorOf[m], m)'
<1> DEFINE p == AuthorOf[m]
           q == Peer(p)
<1>0. /\ p \in Parties /\ q \in Parties /\ Peer(q) = p /\ Honest(p, m)
      /\ Local(p) /\ Written(p, m) /\ sent[m].at \in Positions
  BY PositionTyped, PeerFacts DEF TruthInv, WrittenInv
<1>1. \/ sent'[m].at = sent[m].at
      \/ step[p] = "sealed" /\ sent'[m].at = out[p].at
  BY SentStep DEF Offered, Recorded, Accepted, Acknowledged
<1>2. sent[m].retry # "unsaved" => sent'[m].retry # "unsaved"
  BY SentStep DEF Offered, Recorded, Accepted, Acknowledged
<1>3. ASSUME NEW e \in Copies(q)' PROVE Carried(m, e)'
  <2>1. CASE e \in Copies(q)
    <3>1. Carried(m, e)
      BY <1>0, <2>1 DEF Honest
    <3>2. step[p] = "sealed" => e.at # out[p].at
      BY <1>0, <2>1, FreshIsUnmet
    <3> QED BY <1>1, <1>2, <3>1, <3>2 DEF Carried
  <2>2. CASE Writes(p) /\ e = out[p]
    <3>1. step[p] \in {"saved", "receipt sealed"} /\ sent' = sent /\ e \in Envelopes
      BY <1>0, <2>2, SealedStep
    <3>2. e.at \in Positions
      BY <3>1, EnvelopeFacts
    <3>3. ~Before(e.at, e.at)
      BY <3>2, BeforeOrder
    <3>4. CASE step[p] = "saved"
      <4>1. e.kind = "chat"
        BY <1>0, <2>2, <3>4, OwnOut DEF Sending
      <4>2. e.id = m => sent[m].retry # "unsaved"
        BY <1>0, <2>2, <3>4 DEF Written
      <4>3. e.at = sent[m].at => e.id = m
        BY <1>0, <2>2, <3>3, <3>4 DEF Written, Holds, Sending
      <4> QED BY <3>1, <4>1, <4>2, <4>3 DEF Carried
    <3>5. CASE step[p] = "receipt sealed"
      <4>1. e.kind = "receipt"
        BY <1>0, <2>2, <3>5 DEF Typed, Holding
      <4>2. e.at # sent[m].at
        BY <1>0, <2>2, <3>3, <3>5 DEF Written, Holds
      <4> QED BY <3>1, <4>1, <4>2 DEF Carried
    <3> QED BY <3>1, <3>4, <3>5
  <2> QED BY <1>0, <2>1, <2>2, CopiesStep
<1>4. ASSUME sent'[m].at # NoPosition, sent'[m].at \in Got(q)' PROVE Took(m)'
  <2>1. sent'[m].at \in Got(q) \/ (ApplyEntry(q) /\ Opens(mem[q], sent'[m].at) /\ sent'[m].at = Head(batch[q]).at)
    BY <1>0, <1>4, GotStep
  <2>2. ApplyEntry(q) => Head(batch[q]) \in Copies(q)
    BY <1>0, EntryAtHand DEF ApplyEntry
  <2>3. sent'[m].at = sent[m].at
    BY <1>0, <1>1, <2>1, <2>2, FreshIsUnmet
  <2>4. CASE sent'[m].at \in Got(q)
    BY <1>0, <1>4, <2>3, <2>4, TookStep DEF Honest
  <2>5. CASE ApplyEntry(q) /\ Opens(mem[q], sent'[m].at) /\ sent'[m].at = Head(batch[q]).at
    <3> DEFINE e == Head(batch[q])
    <3>1. e.kind = "chat" /\ e.id = m
      BY <1>0, <1>4, <2>2, <2>3, <2>5 DEF Honest, Carried
    <3>2. \/ withheld' = withheld \union {e.id}
          \/ shown' = [shown EXCEPT ![q] = Stored(q, e)]
      BY <2>5, <3>1 DEF ApplyEntry
    <3>3. CASE withheld' = withheld \union {e.id}
      BY <3>1, <3>3 DEF Took
    <3>4. CASE shown' = [shown EXCEPT ![q] = Stored(q, e)]
      <4>1. shown'[q] = Stored(q, e)
        BY <1>0, <3>4 DEF Typed
      <4>2. \E s \in Stored(q, e) : s.id = e.id
        <5> HIDE DEF e
        <5> QED BY CopyFacts DEF Stored, Known
      <4> HIDE DEF e
      <4> QED BY <3>1, <4>1, <4>2 DEF Took, Received
    <3> QED BY <3>2, <3>3, <3>4
  <2> QED BY <2>1, <2>4, <2>5
<1>5. ASSUME NEW e \in Toward(p)', sent'[m].at # NoPosition, Confirms(e, sent'[m].at) PROVE Took(m)'
  <2>1. sent'[m].at \in Positions
    BY DEF Typed, Records
  <2>2. CASE e \in Toward(p)
    <3>1. sent'[m].at = sent[m].at
      BY <1>0, <1>1, <1>5, <2>2, FreshIsUnmet
    <3>2. Took(m)
      BY <1>0, <1>5, <2>2, <3>1 DEF Honest
    <3> QED BY <3>2, TookStep
  <2>3. CASE \A at \in Positions : Confirms(e, at) => at = NoPosition \/ at \in Got(q)
    <3>1. sent'[m].at \in Got(q)
      BY <1>5, <2>1, <2>3
    <3>2. sent'[m].at = sent[m].at
      BY <1>0, <1>1, <3>1, FreshIsUnmet
    <3>3. Took(m)
      BY <1>0, <1>5, <3>1, <3>2 DEF Honest
    <3> QED BY <3>3, TookStep
  <2> QED BY <1>0, <2>2, <2>3, TowardStep
<1>6. ASSUME sent'[m].delivered PROVE Took(m)'
  <2>1. sent[m].delivered \/ Acknowledged(m)
    BY <1>6, SentStep DEF Offered, Recorded, Accepted
  <2>2. CASE sent[m].delivered
    BY <1>0, <2>2, TookStep DEF Honest
  <2>3. CASE Acknowledged(m)
    <3>1. Head(batch[p]) \in Copies(p) /\ Head(batch[p]) \in Envelopes
      BY <1>0, <2>3, EntryAtHand DEF Acknowledged
    <3>2. Took(m)
      BY <1>0, <2>3, <3>1 DEF Acknowledged, Toward, Honest
    <3> QED BY <3>2, TookStep
  <2> QED BY <2>1, <2>2, <2>3
<1> QED BY <1>3, <1>4, <1>5, <1>6 DEF Honest

LEMMA TruthStep ==
  ASSUME Typed, Typed', WrittenInv, CopiedInv, SeenInv, TruthInv, [Next]_vars
  PROVE  TruthInv'
<1>1. ASSUME NEW p \in Parties, NEW e \in Copies(Peer(p))', e.kind = "chat" PROVE AuthorOf[e.id] = p
  <2>1. Peer(p) \in Parties /\ Peer(Peer(p)) = p
    BY PeerFacts
  <2>2. CASE e \in Copies(Peer(p))
    BY <1>1, <2>2 DEF TruthInv
  <2>3. CASE Writes(p) /\ e = out[p]
    <3>1. step[p] = "saved"
      BY <1>1, <2>3, SealedStep DEF Typed, Holding
    <3> QED BY <2>3, <3>1, OwnOut DEF Sending
  <2> QED BY <2>1, <2>2, <2>3, CopiesStep
<1> QED BY <1>1, HonestStep DEF TruthInv

LEMMA TruthInit == Init => TruthInv
<1> SUFFICES ASSUME Init PROVE TruthInv
  OBVIOUS
<1>1. \A q \in Parties : Copies(q) = {}
  BY RanEmpty DEF Init, Copies
<1>2. \A p \in Parties : Peer(p) \in Parties
  BY PeerFacts
<1>3. \A m \in Messages : sent[m].at = NoPosition /\ sent[m].delivered = FALSE /\ AuthorOf[m] \in Parties
  BY DeliveryAssumption DEF Init, Unsaved
<1> QED BY <1>1, <1>2, <1>3 DEF TruthInv, Honest

-----------------------------------------------------------------------------
(* Where a message is that its author sees as sent, or is about to.        *)
Pending(m) ==
  LET p == AuthorOf[m] IN Unconfirmed(sent[m]) \/ (step[p] = "accepted" /\ out[p].id = m)
Located(m) ==
  LET p == AuthorOf[m] IN
  \/ QueuedFor(Peer(p), sent[m].at)
  \/ Took(m) \/ m \in expired \/ boot[p] # epoch
KnownInv ==
  /\ \A p \in Parties : boot[p] <= epoch /\ heard[p] <= epoch
  /\ \A m \in Messages : Pending(m) => sent[m].at # NoPosition /\ Located(m)

LEMMA QueuedForRan ==
  ASSUME NEW q, NEW at
  PROVE  QueuedFor(q, at) <=> \E e \in Ran(mailbox[q]) : e.at = at
BY DEF QueuedFor, Ran

(* An entry leaves a queue when the entry at its position is removed, when *)
(* it is the oldest and expires, or with the whole relay.                  *)
LEMMA QueueStep ==
  ASSUME Typed, WrittenInv, [Next]_vars, NEW q \in Parties, NEW e \in Ran(mailbox[q])
  PROVE  \/ e \in Ran(mailbox'[q])
         \/ step[q] \in AtEntry /\ e.at = Head(batch[q]).at
         \/ Expire(q) /\ e = Head(mailbox[q])
         \/ Restart
<1> USE DEF diskVars, workVars, linkVars, relayVars, boundVars
<1> DEFINE Goal == \/ e \in Ran(mailbox'[q])
                   \/ step[q] \in AtEntry /\ e.at = Head(batch[q]).at
                   \/ Expire(q) /\ e = Head(mailbox[q])
                   \/ Restart
<1>1. CASE mailbox'[q] = mailbox[q]
  BY <1>1
<1>2. ASSUME NEW p \in Parties, Writes(p) PROVE Goal
  <2>1. out[p] \in Envelopes
    BY <1>2, SealedStep
  <2>2. mailbox' = mailbox \/ Queued(p)
    BY <1>2 DEF Writes, WriteChat, WriteReceipt, Refused, Unanswered
  <2>3. CASE Queued(p)
    <3>1. mailbox'[q] = mailbox[q] \/ mailbox'[q] = Append(mailbox[q], out[p])
      BY <2>3, PeerFacts DEF Queued, Typed
    <3>2. Ran(Append(mailbox[q], out[p])) = Ran(mailbox[q]) \union {out[p]}
      BY <2>1, QueuesTyped, RanAppend
    <3>3. e \in Ran(mailbox'[q])
      BY <3>1, <3>2
    <3> QED BY <3>3
  <2> QED BY <1>1, <2>2, <2>3
<1>3. ASSUME NEW p \in Parties, DeleteEntry(p) PROVE Goal
  <2>1. mailbox' = mailbox \/ Removed(p)
    BY <1>3 DEF DeleteEntry, Refused
  <2>2. CASE Removed(p)
    <3>1. CASE p # q
      BY <1>1, <2>2, <3>1 DEF Removed, Typed
    <3>2. CASE p = q
      <4>1. mailbox'[q] = RemovedAt(mailbox[q], Head(batch[q]).at) /\ step[q] \in AtEntry
        BY <1>3, <2>2, <3>2 DEF Removed, Typed, DeleteEntry, AtEntry
      <4>2. e \in Ran(RemovedAt(mailbox[q], Head(batch[q]).at)) \/ e.at = Head(batch[q]).at
        BY QueuesTyped, RanKept
      <4> QED BY <4>1, <4>2
    <3> QED BY <3>1, <3>2
  <2> QED BY <1>1, <2>1, <2>2
<1>4. ASSUME NEW p \in Parties, Reappear(p) PROVE Goal
  <2>1. removed[p] \in Envelopes /\ mailbox' = [mailbox EXCEPT ![p] = <<removed[p]>> \o mailbox[p]]
    BY <1>4 DEF Reappear, Typed
  <2>2. mailbox'[q] = mailbox[q] \/ (p = q /\ mailbox'[q] = <<removed[q]>> \o mailbox[q])
    BY <2>1 DEF Typed
  <2> QED BY <2>1, <2>2, QueuesTyped, RanPrepend
<1>5. ASSUME NEW p \in Parties, Expire(p) PROVE Goal
  <2>1. mailbox[p] # <<>> /\ mailbox' = [mailbox EXCEPT ![p] = Tail(mailbox[p])]
    BY <1>5 DEF Expire
  <2>2. mailbox'[q] = mailbox[q] \/ (p = q /\ mailbox[q] # <<>> /\ mailbox'[q] = Tail(mailbox[q]))
    BY <2>1 DEF Typed
  <2>3. mailbox[q] # <<>> => Ran(mailbox[q]) = Ran(Tail(mailbox[q])) \union {Head(mailbox[q])}
    BY QueuesTyped, RanSplit
  <2> QED BY <1>5, <2>2, <2>3
<1>6. ASSUME NEW p \in Parties, Acts(p), ~Writes(p), ~DeleteEntry(p), ~Reappear(p), ~Expire(p)
      PROVE  mailbox' = mailbox
  <2>1. Send(p) => mailbox' = mailbox
    BY <1>6 DEF Send, SealChat, SaveFlagged, SaveAccepted, Writes
  <2>2. Receive(p) => mailbox' = mailbox
    BY <1>6 DEF Receive, Fetch, ApplyEntry, SaveId, SealReceipt, EndPass, Writes
  <2>3. Reconnect(p) => mailbox' = mailbox
    BY DEF Reconnect, Connect, FlagLost, NoteBoot, Adopt
  <2> QED BY <1>6, <2>1, <2>2, <2>3 DEF Acts, Crash, KeepUnsent, MarkExpired, RecordVerification
<1>7. ASSUME NEW p \in Parties, Acts(p) PROVE Goal
  BY <1>1, <1>2, <1>3, <1>4, <1>5, <1>6, <1>7
<1> QED BY <1>1, <1>7, NextIsActs DEF vars

(* What a device noted of the relay's boot ids.                            *)
LEMMA BootStep ==
  ASSUME Typed, KnownInv, [Next]_vars, NEW p \in Parties
  PROVE  /\ boot'[p] <= epoch' /\ heard'[p] <= epoch'
         /\ \/ boot'[p] = boot[p] /\ epoch' = epoch
            \/ boot'[p] # epoch'
            \/ NoteBoot(p)
<1> USE DEF diskVars, workVars, linkVars, relayVars, boundVars
<1>0. boot[p] \in Nat /\ heard[p] \in Nat /\ epoch \in Nat /\ boot[p] <= epoch /\ heard[p] <= epoch
  BY DEF Typed, KnownInv
<1>1. CASE Restart
  <2>1. epoch' = epoch + 1 /\ boot' = boot /\ heard' = heard
    BY <1>1 DEF Restart
  <2> QED BY <1>0, <2>1
<1>2. CASE UNCHANGED vars
  BY <1>0, <1>2 DEF vars
<1>3. ASSUME NEW q \in Parties, Acts(q) PROVE epoch' = epoch
  <2>1. Send(q) => epoch' = epoch
    BY DEF Send, SealChat, SaveFlagged, WriteChat, SaveAccepted, Refused, Unanswered
  <2>2. Receive(q) => epoch' = epoch
    BY DEF Receive, Fetch, ApplyEntry, SaveId, DeleteEntry, SealReceipt, WriteReceipt, EndPass,
           Refused, Unanswered
  <2>3. Reconnect(q) => epoch' = epoch
    BY DEF Reconnect, Connect, FlagLost, NoteBoot, Adopt
  <2> QED BY <1>3, <2>1, <2>2, <2>3
      DEF Acts, Crash, Reappear, Expire, KeepUnsent, MarkExpired, RecordVerification
<1>4. ASSUME NEW q \in Parties, Acts(q), q # p
      PROVE boot'[p] = boot[p] /\ heard'[p] = heard[p]
  BY <1>4, ActsAlone DEF Untouched
<1>5. ASSUME Acts(p) PROVE (boot' = boot \/ NoteBoot(p)) /\ (heard' = heard \/ Connect(p))
  <2>1. Send(p) => boot' = boot /\ heard' = heard
    BY DEF Send, SealChat, SaveFlagged, WriteChat, SaveAccepted, Refused, Unanswered
  <2>2. Receive(p) => boot' = boot /\ heard' = heard
    BY DEF Receive, Fetch, ApplyEntry, SaveId, DeleteEntry, SealReceipt, WriteReceipt, EndPass,
           Refused, Unanswered
  <2>3. Reconnect(p) => (boot' = boot \/ NoteBoot(p)) /\ (heard' = heard \/ Connect(p))
    BY DEF Reconnect, Connect, FlagLost, NoteBoot, Adopt
  <2> QED BY <1>5, <2>1, <2>2, <2>3
      DEF Acts, Crash, Reappear, Expire, KeepUnsent, MarkExpired, RecordVerification
<1>6. NoteBoot(p) => boot'[p] = heard[p]
  BY DEF NoteBoot, Typed
<1>7. Connect(p) => heard'[p] = epoch
  BY DEF Connect, Typed
<1>8. ASSUME Acts(p) PROVE boot'[p] <= epoch /\ heard'[p] <= epoch /\ (boot'[p] = boot[p] \/ NoteBoot(p))
  BY <1>0, <1>5, <1>6, <1>7, <1>8
<1> QED BY <1>0, <1>1, <1>2, <1>3, <1>4, <1>8, NextIsActs


(* A message becomes pending when its copy is queued, and no record of a   *)
(* pending message names another copy.                                     *)
LEMMA PendingStep ==
  ASSUME Typed, WrittenInv, [Next]_vars, NEW m \in Messages, Pending(m)'
  PROVE  LET p == AuthorOf[m] IN
         /\ sent'[m].at = sent[m].at
         /\ \/ Pending(m)
            \/ step[p] = "saved" /\ out[p].id = m /\ Queued(p) /\ WriteChat(p)
<1> DEFINE p == AuthorOf[m]
<1>0. p \in Parties
  BY PositionTyped
<1>1. CASE Unconfirmed(sent'[m])
  <2>1. sent'[m] = sent[m] \/ Accepted(m)
    BY <1>1, SentStep DEF Unconfirmed, Offered, Recorded, Acknowledged
  <2>2. sent'[m].at = sent[m].at
    BY <2>1 DEF Accepted
  <2>3. Pending(m)
    BY <1>1, <2>1 DEF Pending, Accepted
  <2> QED BY <2>2, <2>3
<1>2. CASE step'[p] = "accepted" /\ out'[p].id = m
  <2>1. /\ out'[p] = out[p]
        /\ \/ step[p] = "accepted"
           \/ step[p] = "saved" /\ Queued(p) /\ WriteChat(p)
    BY <1>0, <1>2, HandStep DEF Holds, Sending
  <2>2. sent'[m].at = sent[m].at
    BY <2>1, SentStep DEF Offered, Recorded, Accepted, Acknowledged
  <2> QED BY <1>2, <2>1, <2>2 DEF Pending
<1> QED BY <1>1, <1>2 DEF Pending

LEMMA KnownStep ==
  ASSUME Typed, Typed', WrittenInv, CopiedInv, SeenInv, TruthInv, KnownInv, [Next]_vars
  PROVE  KnownInv'
<1>1. \A p \in Parties : boot'[p] <= epoch' /\ heard'[p] <= epoch'
  BY BootStep
<1>2. ASSUME NEW m \in Messages, Pending(m)' PROVE sent'[m].at # NoPosition /\ Located(m)'
  <2> DEFINE p == AuthorOf[m]
             q == Peer(p)
             at == sent[m].at
  <2>0. /\ p \in Parties /\ q \in Parties /\ Peer(q) = p /\ Honest(p, m) /\ Local(p) /\ Local(q)
        /\ Written(p, m) /\ at \in Positions /\ sent'[m].at = at
    BY <1>2, PositionTyped, PeerFacts, PendingStep DEF TruthInv, WrittenInv
  <2>1. CASE step[p] = "saved" /\ out[p].id = m /\ Queued(p) /\ WriteChat(p)
    <3>1. at = out[p].at /\ out[p] \in Envelopes
      BY <2>0, <2>1, OwnOut DEF Written, Sending
    <3>2. at # NoPosition
      <4>1. Before(sealed[p], at) /\ sealed[p] \in Positions
        BY <2>0, <2>1, <3>1, PositionTyped DEF Local, Holds, Sending
      <4> QED BY <4>1, NothingBeforeFirst
    <3>3. mailbox'[q] = Append(mailbox[q], out[p])
      BY <2>0, <2>1 DEF Queued, Typed
    <3>4. out[p] \in Ran(mailbox'[q])
      BY <2>0, <3>1, <3>3, QueuesTyped, RanAppend
    <3>5. QueuedFor(q, at)'
      BY <2>0, <3>1, <3>4 DEF QueuedFor, Ran
    <3> QED BY <2>0, <3>2, <3>5 DEF Located
  <2>2. CASE Pending(m)
    <3>1. at # NoPosition /\ Located(m)
      BY <2>2 DEF KnownInv
    <3>2. ~NoteBoot(p)
      <4> SUFFICES ASSUME NoteBoot(p) PROVE FALSE
        OBVIOUS
      <4>1. step[p] = "idle" /\ ~Unconfirmed(sent[m])
        BY <2>0 DEF NoteBoot, LostInRestart, OwnMessages, Typed, Holding
      <4> QED BY <2>2, <4>1 DEF Pending
    <3>3. /\ boot'[p] = boot[p] /\ epoch' = epoch
          \/ boot'[p] # epoch'
      BY <2>0, <3>2, BootStep
    <3>4. CASE boot'[p] # epoch'
      BY <2>0, <3>1, <3>4 DEF Located
    <3>5. CASE Took(m)
      BY <2>0, <3>1, <3>5, TookStep DEF Located
    <3>6. CASE m \in expired
      BY <2>0, <3>1, <3>6, ExpiredStep DEF Located
    <3>7. CASE QueuedFor(q, at) /\ boot'[p] = boot[p] /\ epoch' = epoch
      <4>1. PICK e \in Ran(mailbox[q]) : e.at = at
        BY <3>7 DEF QueuedFor, Ran
      <4>2. e \in Copies(q)
        <5>1. e \in Envelopes
          BY <2>0, <4>1, QueuesTyped, RanTyped
        <5> QED BY <4>1, <5>1 DEF Copies
      <4>3. CASE e \in Ran(mailbox'[q])
        <5>1. QueuedFor(q, at)'
          BY <2>0, <4>1, <4>3 DEF QueuedFor, Ran
        <5> QED BY <2>0, <3>1, <5>1 DEF Located
      <4>4. CASE step[q] \in AtEntry /\ e.at = Head(batch[q]).at
        <5>1. at \in Got(q)
          BY <2>0, <4>1, <4>4 DEF Local, Got, Passing
        <5>2. Took(m)
          BY <2>0, <3>1, <5>1 DEF Honest
        <5> QED BY <2>0, <3>1, <5>2, TookStep DEF Located
      <4>5. CASE Expire(q) /\ e = Head(mailbox[q])
        <5>1. e.kind = "chat" /\ e.id = m
          BY <2>0, <3>1, <4>1, <4>2 DEF Honest, Carried
        <5>2. m \in expired'
          BY <4>5, <5>1 DEF Expire
        <5> QED BY <2>0, <3>1, <5>2 DEF Located
      <4>6. CASE Restart
        <5>1. epoch \in Nat /\ epoch' = epoch + 1
          BY <4>6 DEF Typed, Restart
        <5> QED BY <3>7, <5>1
      <4> QED BY <2>0, <4>1, <4>3, <4>4, <4>5, <4>6, QueueStep
    <3> QED BY <3>1, <3>3, <3>4, <3>5, <3>6, <3>7 DEF Located
  <2> QED BY <1>2, <2>1, <2>2, PendingStep
<1> QED BY <1>1, <1>2 DEF KnownInv

LEMMA KnownInit == Init => KnownInv
<1> SUFFICES ASSUME Init PROVE KnownInv
  OBVIOUS
<1>1. \A m \in Messages : ~Unconfirmed(sent[m]) /\ step[AuthorOf[m]] = "idle"
  BY DeliveryAssumption DEF Init, Unsaved, Unconfirmed
<1>2. \A p \in Parties : boot[p] = 1 /\ heard[p] = 1 /\ epoch = 1
  BY DEF Init
<1> QED BY <1>1, <1>2 DEF KnownInv, Pending

-----------------------------------------------------------------------------
KeptInv == Typed /\ WrittenInv /\ CopiedInv /\ SeenInv /\ TruthInv /\ KnownInv

LEMMA KeptInit == Init => KeptInv
BY TypedInit, WrittenInit, CopiedInit, SeenInit, TruthInit, KnownInit DEF KeptInv

LEMMA KeptStep == KeptInv /\ [Next]_vars => KeptInv'
<1> SUFFICES ASSUME KeptInv, [Next]_vars PROVE KeptInv'
  OBVIOUS
<1>1. Typed /\ Typed'
  BY TypedStep DEF KeptInv
<1> QED BY <1>1, WrittenInvStep, CopiedStep, SeenStep, TruthStep, KnownStep DEF KeptInv

LEMMA AlwaysKept == Spec => []KeptInv
BY KeptInit, KeptStep, PTL DEF Spec

(* What the author sees as delivered, the other device has, on its screen  *)
(* or withheld by the verification gate.                                   *)
THEOREM DeliveredIsTrue == Spec => []DeliveredIsReceived
<1>1. KeptInv => DeliveredIsReceived
  BY DEF KeptInv, TruthInv, Honest, DeliveredIsReceived, Took
<1> QED BY <1>1, AlwaysKept, PTL

(* What the author sees as sent is queued, taken, too old, or lost with    *)
(* the relay's queues in a restart its device has not noted yet.           *)
THEOREM SentIsSomewhere == Spec => []UnconfirmedIsKnown
<1>1. KeptInv => UnconfirmedIsKnown
  BY DEF KeptInv, KnownInv, Pending, Located, Took, UnconfirmedIsKnown
<1> QED BY <1>1, AlwaysKept, PTL

-----------------------------------------------------------------------------
(* Delivery implements Conversation.                                       *)
StatusNow == [m \in Messages |->
  IF sent[m].delivered THEN "confirmed"
  ELSE CASE sent[m].retry = "unsaved" -> "draft"
         [] sent[m].retry = "none"    -> "sent"
         [] OTHER                     -> "offered"]
TakenNow == {m \in Messages : Received(m)} \union withheld

(* What a record means to its author.                                      *)
Meaning(r) ==
  IF r.delivered THEN "confirmed"
  ELSE CASE r.retry = "unsaved" -> "draft"
         [] r.retry = "none"    -> "sent"
         [] OTHER               -> "offered"

LEMMA Meanings ==
  ASSUME NEW r \in Records
  PROVE  /\ r.delivered => Meaning(r) = "confirmed"
         /\ ~r.delivered /\ r.retry = "unsaved" => Meaning(r) = "draft"
         /\ ~r.delivered /\ r.retry = "none" => Meaning(r) = "sent"
         /\ ~r.delivered /\ r.retry # "unsaved" /\ r.retry # "none" => Meaning(r) = "offered"
         /\ r.retry # "unsaved" => Meaning(r) # "draft"
<1>1. r.delivered \in BOOLEAN
  BY DEF Records
<1>2. CASE r.delivered
  BY <1>2 DEF Meaning
<1>3. CASE ~r.delivered
  <2>1. CASE r.retry = "unsaved"
    BY <1>3, <2>1 DEF Meaning
  <2>2. CASE r.retry = "none"
    BY <1>3, <2>2 DEF Meaning
  <2>3. CASE r.retry # "unsaved" /\ r.retry # "none"
    BY <1>3, <2>3 DEF Meaning
  <2> QED BY <1>3, <2>1, <2>2, <2>3
<1> QED BY <1>2, <1>3

LEMMA RecordsTyped ==
  ASSUME Typed, Typed', NEW m \in Messages
  PROVE  sent[m] \in Records /\ sent'[m] \in Records
BY DEF Typed

LEMMA StatusIsMeaning ==
  /\ StatusNow = [m \in Messages |-> Meaning(sent[m])]
  /\ StatusNow' = [m \in Messages |-> Meaning(sent'[m])]
BY DEF StatusNow, Meaning

(* Outside a receive pass nothing is taken, and one record changes.        *)
LEMMA QuietStep ==
  ASSUME Typed, WrittenInv, CopiedInv, [Next]_vars, \A p \in Parties : ~ApplyEntry(p)
  PROVE  /\ \A m \in Messages : Received(m)' <=> Received(m)
         /\ withheld' = withheld
         /\ \/ sent' = sent
            \/ \E c \in Messages : \A m \in Messages : m # c => sent'[m] = sent[m]
<1> USE DEF diskVars, workVars, linkVars, relayVars, boundVars
<1>1. ASSUME NEW p \in Parties, Acts(p)
      PROVE  /\ withheld' = withheld
             /\ \/ sent' = sent
                \/ SaveFlagged(p) \/ SaveAccepted(p)
                \/ \E m \in Messages : FlagLost(p, m) \/ KeepUnsent(p, m) \/ MarkExpired(p, m)
  <2>1. Send(p) => withheld' = withheld /\ (sent' = sent \/ SaveFlagged(p) \/ SaveAccepted(p))
    BY DEF Send, SealChat, SaveFlagged, WriteChat, SaveAccepted, Refused, Unanswered
  <2>2. Receive(p) => withheld' = withheld /\ sent' = sent
    BY <1>1 DEF Receive, Fetch, SaveId, DeleteEntry, SealReceipt, WriteReceipt, EndPass, Refused, Unanswered
  <2>3. Reconnect(p) => /\ withheld' = withheld
                        /\ sent' = sent \/ \E m \in Messages : FlagLost(p, m)
    BY DEF Reconnect, Connect, FlagLost, NoteBoot, Adopt
  <2>4. ASSUME NEW m \in Messages, KeepUnsent(p, m) \/ MarkExpired(p, m)
        PROVE  withheld' = withheld
    BY <2>4 DEF KeepUnsent, MarkExpired
  <2>5. Crash(p) \/ Reappear(p) \/ Expire(p) \/ (\E matches \in BOOLEAN : RecordVerification(p, matches))
        => withheld' = withheld /\ sent' = sent
    BY DEF Crash, Reappear, Expire, RecordVerification
  <2> QED BY <1>1, <2>1, <2>2, <2>3, <2>4, <2>5 DEF Acts
<1>2. ASSUME NEW p \in Parties, SaveFlagged(p) \/ SaveAccepted(p)
      PROVE  \E c \in Messages : \A m \in Messages : m # c => sent'[m] = sent[m]
  <2>1. out[p].id \in Messages
    BY <1>2, OwnOut DEF SaveFlagged, SaveAccepted, Sending
  <2>2. \A m \in Messages : m # out[p].id => sent'[m] = sent[m]
    BY <1>2 DEF SaveFlagged, SaveAccepted, Typed
  <2> QED BY <2>1, <2>2
<1>3. ASSUME NEW p \in Parties, NEW c \in Messages, FlagLost(p, c) \/ KeepUnsent(p, c) \/ MarkExpired(p, c)
      PROVE  \A m \in Messages : m # c => sent'[m] = sent[m]
  BY <1>3 DEF FlagLost, KeepUnsent, MarkExpired, Typed
<1>4. ASSUME NEW p \in Parties, Acts(p)
      PROVE  \/ sent' = sent
             \/ \E c \in Messages : \A m \in Messages : m # c => sent'[m] = sent[m]
  BY <1>1, <1>2, <1>3, <1>4
<1>5. \A m \in Messages : Received(m)' <=> Received(m)
  BY ReceivedStep, PositionTyped, PeerFacts
<1> QED BY <1>1, <1>4, <1>5, NextIsActs DEF Restart, vars

(* A receive pass takes at most the message of the entry it looks at,      *)
(* which its author had let go, and confirms those the entry acknowledges. *)
LEMMA PassStep ==
  ASSUME KeptInv, [Next]_vars, NEW p \in Parties, ApplyEntry(p)
  PROVE  /\ \A m \in Messages : sent'[m] = sent[m] \/ Acknowledged(m)
         /\ \/ TakenNow' = TakenNow
            \/ /\ Head(batch[p]).id \in Messages /\ sent[Head(batch[p]).id].retry # "unsaved"
               /\ TakenNow' = TakenNow \union {Head(batch[p]).id}
<1> DEFINE e == Head(batch[p])
           q == Peer(p)
<1>0. Typed /\ WrittenInv /\ TruthInv /\ step[p] = "pass" /\ batch[p] # <<>>
      /\ q \in Parties /\ Peer(q) = p /\ q # p
  BY PeerFacts DEF KeptInv, ApplyEntry
<1>1. e \in Copies(p) /\ e \in Envelopes /\ e.id \in Messages
  BY <1>0, EntryAtHand, EnvelopeFacts
<1>2. Untouched(q)
  <2>1. Acts(p)
    BY DEF Acts, Receive
  <2> QED BY <1>0, <2>1, ActsAlone
<1>3. ASSUME NEW m \in Messages PROVE sent'[m] = sent[m] \/ Acknowledged(m)
  <2>1. AuthorOf[m] \in {p, q}
    BY <1>0, PositionTyped, PeerFacts
  <2>2. CASE AuthorOf[m] = p
    BY <1>0, <2>2, SentStep DEF Offered, Recorded, Accepted
  <2>3. CASE AuthorOf[m] = q
    BY <1>2, <2>3 DEF Untouched
  <2> QED BY <2>1, <2>2, <2>3
<1>4. e.kind = "chat" => AuthorOf[e.id] = q /\ sent[e.id].retry # "unsaved"
  <2> SUFFICES ASSUME e.kind = "chat" PROVE AuthorOf[e.id] = q /\ sent[e.id].retry # "unsaved"
    OBVIOUS
  <2>1. AuthorOf[e.id] = q
    BY <1>0, <1>1 DEF TruthInv
  <2>2. Honest(q, e.id)
    BY <1>0, <1>1, <2>1 DEF TruthInv
  <2> QED BY <1>0, <1>1, <2>1, <2>2 DEF Honest, Carried
<1>5. \/ shown' = shown /\ withheld' = withheld
      \/ e.kind = "chat" /\ shown' = shown /\ withheld' = withheld \union {e.id}
      \/ e.kind = "chat" /\ shown' = [shown EXCEPT ![p] = Stored(p, e)] /\ withheld' = withheld
  BY DEF ApplyEntry
<1>6. CASE shown' = shown /\ withheld' = withheld
  <2>1. TakenNow' = TakenNow
    BY <1>6 DEF TakenNow, Received
  <2> QED BY <1>3, <2>1
<1>7. CASE e.kind = "chat" /\ shown' = shown /\ withheld' = withheld \union {e.id}
  <2>1. TakenNow' = TakenNow \union {e.id}
    BY <1>7 DEF TakenNow, Received
  <2> QED BY <1>1, <1>3, <1>4, <1>7, <2>1
<1>8. CASE e.kind = "chat" /\ shown' = [shown EXCEPT ![p] = Stored(p, e)] /\ withheld' = withheld
  <2> DEFINE new == Copy(e, FALSE)
  <2>1. /\ shown'[p] = shown[p] \/ shown'[p] = shown[p] \union {new}
        /\ shown'[q] = shown[q]
    BY <1>0, <1>2, <1>8 DEF Stored, Untouched, Typed
  <2>2. new.id = e.id
    BY CopyFacts
  <2> HIDE DEF new
  <2>3. CASE shown'[p] = shown[p]
    <3>1. \A m \in Messages : Received(m)' <=> Received(m)
      BY <1>0, <2>1, <2>3, PositionTyped, PeerFacts DEF Received
    <3>2. TakenNow' = TakenNow
      BY <1>8, <3>1 DEF TakenNow
    <3> QED BY <1>3, <3>2
  <2>4. CASE shown'[p] = shown[p] \union {new}
    <3>1. \A m \in Messages : Received(m)' <=> Received(m) \/ (AuthorOf[m] = q /\ m = e.id)
      <4> TAKE m \in Messages
      <4>1. AuthorOf[m] = p \/ AuthorOf[m] = q
        BY <1>0, PositionTyped, PeerFacts
      <4>2. CASE AuthorOf[m] = p
        BY <1>0, <2>1, <4>2 DEF Received
      <4>3. CASE AuthorOf[m] = q
        BY <1>0, <2>2, <2>4, <4>3 DEF Received
      <4> QED BY <4>1, <4>2, <4>3
    <3>2. TakenNow' = TakenNow \union {e.id}
      BY <1>1, <1>4, <1>8, <3>1 DEF TakenNow
    <3> QED BY <1>1, <1>3, <1>4, <1>8, <3>2
  <2> QED BY <2>1, <2>3, <2>4
<1> QED BY <1>5, <1>6, <1>7, <1>8

(* Each step of the devices and the relay is one of the conversation's     *)
(* steps, or changes nothing of it.                                        *)
LEMMA PromisedStep ==
  ASSUME KeptInv, [Next]_vars
  PROVE  [Promised!Next]_(Promised!vars)
<1> DEFINE Kept == [Promised!Next]_(Promised!vars)
<1>0. Typed /\ Typed' /\ WrittenInv /\ CopiedInv /\ TruthInv
  BY TypedStep DEF KeptInv
<1>a. /\ Promised!vars = <<StatusNow, TakenNow>>
      /\ Promised!vars' = <<StatusNow', TakenNow'>>
  BY DEF Promised!vars, StatusNow, TakenNow
<1>1. ASSUME \A p \in Parties : ~ApplyEntry(p) PROVE Kept
  <2>1. TakenNow' = TakenNow
    BY <1>0, <1>1, QuietStep DEF TakenNow
  <2>2. CASE \A m \in Messages : Meaning(sent'[m]) = Meaning(sent[m])
    <3>1. StatusNow' = StatusNow
      BY <2>2, StatusIsMeaning
    <3> QED BY <1>a, <2>1, <3>1
  <2>3. ASSUME NEW c \in Messages, \A m \in Messages : m # c => sent'[m] = sent[m],
               Meaning(sent'[c]) # Meaning(sent[c])
        PROVE  Kept
    <3>1. Offered(c) \/ Recorded(c) \/ Accepted(c)
      <4>1. ~Acknowledged(c)
        BY <1>0, <1>1, PositionTyped DEF Acknowledged
      <4> QED BY <1>0, <2>3, <4>1, SentStep
    <3>2. CASE Offered(c) \/ Recorded(c)
      <4>1. Meaning(sent'[c]) = "offered" /\ Meaning(sent[c]) \in {"draft", "sent"}
        BY <2>3, <1>0, <3>2, RecordsTyped, Meanings DEF Offered, Recorded
      <4>2. StatusNow' = [StatusNow EXCEPT ![c] = "offered"] /\ StatusNow[c] \in {"draft", "sent"}
        BY <2>3, <4>1, StatusIsMeaning
      <4>3. Promised!Offer(c)
        BY <2>1, <4>2 DEF Promised!Offer, StatusNow, TakenNow
      <4> QED BY <4>3 DEF Promised!Next
    <3>3. CASE Accepted(c)
      <4>1. Meaning(sent'[c]) = "sent" /\ Meaning(sent[c]) = "offered"
        BY <1>0, <3>3, RecordsTyped, Meanings DEF Accepted
      <4>2. StatusNow' = [StatusNow EXCEPT ![c] = "sent"] /\ StatusNow[c] = "offered"
        BY <2>3, <4>1, StatusIsMeaning
      <4>3. Promised!Send(c)
        BY <2>1, <4>2 DEF Promised!Send, StatusNow, TakenNow
      <4> QED BY <4>3 DEF Promised!Next
    <3> QED BY <3>1, <3>2, <3>3
  <2> QED BY <1>0, <1>1, <2>2, <2>3, QuietStep
<1>2. ASSUME NEW p \in Parties, ApplyEntry(p) PROVE Kept
  <2> DEFINE t == Head(batch[p]).id
  <2>0. PICK ms \in SUBSET Messages : \A m \in Messages : m \in ms <=> Acknowledged(m)
    <3> DEFINE acked == {m \in Messages : Acknowledged(m)}
    <3>1. acked \in SUBSET Messages /\ \A m \in Messages : m \in acked <=> Acknowledged(m)
      OBVIOUS
    <3> QED BY <3>1
  <2>1. \A m \in Messages : m \notin ms => sent'[m] = sent[m]
    BY <1>2, <2>0, PassStep
  <2>2. \A m \in ms : Meaning(sent'[m]) = "confirmed" /\ Meaning(sent[m]) \in {"offered", "sent"}
    <3> TAKE m \in ms
    <3>1. sent'[m].delivered /\ ~sent[m].delivered /\ sent[m].at # NoPosition
      BY <2>0 DEF Acknowledged
    <3>2. sent[m].retry # "unsaved"
      BY <1>0, <3>1, PositionTyped DEF WrittenInv, Written
    <3> QED BY <1>0, <3>1, <3>2, RecordsTyped, Meanings
  <2>3. ms \subseteq TakenNow
    <3> SUFFICES ASSUME NEW m \in ms PROVE m \in TakenNow
      OBVIOUS
    <3>1. Honest(AuthorOf[m], m) /\ AuthorOf[m] \in Parties /\ m \in Messages /\ Acknowledged(m)
      BY <1>0, <2>0, PositionTyped DEF TruthInv
    <3>2. Head(batch[AuthorOf[m]]) \in Copies(AuthorOf[m]) /\ Head(batch[AuthorOf[m]]) \in Envelopes
      BY <1>0, <3>1, EntryAtHand DEF Acknowledged
    <3>3. Took(m)
      BY <3>1, <3>2 DEF Acknowledged, Toward, Honest
    <3> QED BY <3>1, <3>3 DEF Took, TakenNow
  <2>4. StatusNow' = [m \in Messages |-> IF m \in ms THEN "confirmed" ELSE StatusNow[m]]
    BY <2>1, <2>2, StatusIsMeaning
  <2>5. \A m \in ms : StatusNow[m] \in {"offered", "sent"}
    BY <2>2, StatusIsMeaning
  <2>6. CASE TakenNow' = TakenNow
    <3>1. CASE ms = {}
      <4>1. StatusNow' = StatusNow
        BY <2>4, <3>1, StatusIsMeaning
      <4> QED BY <1>a, <2>6, <4>1
    <3>2. CASE ms # {}
      <4>1. Promised!Confirm(ms)
        BY <2>3, <2>4, <2>5, <2>6, <3>2 DEF Promised!Confirm, StatusNow, TakenNow
      <4> QED BY <4>1 DEF Promised!Next
    <3> QED BY <3>1, <3>2
  <2>7. CASE /\ t \in Messages /\ sent[t].retry # "unsaved" /\ t \notin TakenNow
             /\ TakenNow' = TakenNow \union {t}
    <3>1. StatusNow[t] # "draft"
      BY <1>0, <2>7, StatusIsMeaning, RecordsTyped, Meanings
    <3> HIDE DEF t
    <3>2. CASE ms = {}
      <4>1. StatusNow' = StatusNow
        BY <2>4, <3>2, StatusIsMeaning
      <4>2. Promised!Take(t)
        BY <2>7, <3>1, <4>1 DEF Promised!Take, StatusNow, TakenNow
      <4> QED BY <2>7, <4>2 DEF Promised!Next
    <3>3. CASE ms # {}
      <4>1. Promised!TakeAndConfirm(t, ms)
        BY <2>3, <2>4, <2>5, <2>7, <3>1, <3>3 DEF Promised!TakeAndConfirm, StatusNow, TakenNow
      <4> QED BY <2>7, <4>1 DEF Promised!Next
    <3> QED BY <3>2, <3>3
  <2>8. \/ TakenNow' = TakenNow
        \/ /\ t \in Messages /\ sent[t].retry # "unsaved"
           /\ TakenNow' = TakenNow \union {t}
    BY <1>2, PassStep
  <2>9. CASE t \in TakenNow /\ TakenNow' = TakenNow \union {t}
    <3>1. TakenNow' = TakenNow
      BY <2>9
    <3> QED BY <2>6, <3>1
  <2> QED BY <2>6, <2>7, <2>8, <2>9
<1> QED BY <1>1, <1>2

LEMMA PromisedInit == Init => Promised!Init
<1> SUFFICES ASSUME Init PROVE Promised!Init
  OBVIOUS
<1>0. \A m \in Messages : sent[m] \in Records
  BY TypedInit DEF Typed
<1>1. \A m \in Messages : Meaning(sent[m]) = "draft"
  <2>1. \A m \in Messages : ~sent[m].delivered /\ sent[m].retry = "unsaved"
    BY DEF Init, Unsaved
  <2> QED BY <1>0, <2>1, Meanings
<1>2. StatusNow = [m \in Messages |-> "draft"]
  BY <1>1, StatusIsMeaning
<1>3. TakenNow = {}
  BY DeliveryAssumption, PeerFacts DEF Init, TakenNow, Received
<1> QED BY <1>2, <1>3 DEF Promised!Init, StatusNow, TakenNow

(* Whatever devices, connections and the relay do, the two people see a    *)
(* conversation: nothing is shown before its author let it go or confirmed *)
(* unseen, and a confirmation is for good.                                 *)
THEOREM ConversationIsKept == Spec => ConversationKept
BY PromisedInit, PromisedStep, AlwaysKept, PTL DEF Spec, ConversationKept, Promised!Spec
=============================================================================
