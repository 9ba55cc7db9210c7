----------------------------- MODULE WipeProofs -----------------------------
(***************************************************************************)
(* Proofs about Wipe, for any set of chats and any number of requests,     *)
(* commands, wipes and faults.                                             *)
(*                                                                         *)
(* Four invariants over the typed state.  KeyInv: no record and no put     *)
(* under way is sealed under a key newer than the one on disk, and while a *)
(* quick wipe has replaced only that one, everything is sealed under an    *)
(* older.  OpenedInv: a chat that was stored cannot be opened again, save  *)
(* one whose pass ended before the session was saved.  GoneInv: outside    *)
(* that moment, an operation can put back only what is not wiped, what it  *)
(* held when a quick wipe struck, or such a chat.  PlaceInv: every stored  *)
(* chat lies below the positions the next ones will get, and every         *)
(* boundary above the records it covers.                                   *)
(***************************************************************************)
EXTENDS Wipe, DataFacts, TLAPS

-----------------------------------------------------------------------------
Operations == [pc : Places, contact : Contacts, opened : SUBSET Received,
               chat : Chats \union {Nothing}, at : Positions, key : Nat, wiped : BOOLEAN]
Commands == [kind : {"policy", "request"}, contact : Contacts]

Typed ==
  /\ TypeOK
  /\ op \in Operations
  /\ queued \in Commands \union {Nothing}

KeyInv ==
  /\ key <= dek /\ op.key <= dek
  /\ \A m \in Stored : chats[m].key <= dek
  /\ ratchet # Nothing => ratchet.key <= dek
  /\ shred = "rotated" => key < dek /\ op.key < dek

(* A received chat that was stored, and is perhaps wiped, is one the saved *)
(* session has opened, or the pass that will save the session.             *)
Settled == ((Stored \union gone) \intersect Received) \ cut
Writing == {"send: session", "send: chat", "send: await", "send: again", "pass: chat", "pass: id"}
InPass == {"pass", "pass: chat", "pass: id", "pass: await", "receipt: session", "end: session"}
OpenedInv ==
  /\ op.pc \notin {"idle", "confirmed"} => Settled \subseteq op.opened
  /\ ratchet # Nothing =>
       Settled \subseteq ratchet.opened \union (IF op.pc \in InPass THEN op.opened ELSE {})
  /\ op.pc \in Writing => op.chat \in Sent \/ (op.pc \in InPass /\ op.chat \in op.opened)
  /\ op.wiped => ratchet = Nothing

(* What an operation could still put back.                                 *)
GoneInv ==
  /\ op.pc = "pass" => op.chat = Nothing
  /\ op.wiped => op.pc \in {"pass", "pass: chat", "pass: id", "pass: await"}
  /\ file = "open" /\ shred # "rotated" /\ op.pc # "idle" =>
       /\ op.chat \in gone => op.chat \in held \union cut
       /\ "session" \in gone => "session" \in held \/ op.wiped \/ op.pc = "confirmed"

(* A boundary lies above what it covers.                                   *)
Apart(c) ==
  /\ c.boundary = Nothing => c.covers = {}
  /\ c.boundary # Nothing => \A r \in c.covers : ~AtOrAfter(r[2], c.boundary)
(* Something bounds the sequence numbers of what is stored.                *)
Bounded == \E n \in Nat : \A m \in Stored : chats[m].at[2] <= n
PlaceInv ==
  /\ Bounded
  /\ Apart(contact) /\ Apart(op.contact)
  /\ queued # Nothing => Apart(queued.contact)
  /\ decline # Nothing => Apart(decline)
  /\ \A m \in Stored : chats[m].at[1] <= now /\ (running => chats[m].at[2] < next)
  /\ op.pc \in Writing => op.at[1] <= now /\ op.at[2] < next

WipeInv ==
  Typed /\ KeyInv /\ OpenedInv /\ GoneInv /\ PlaceInv /\ WipedStaysGone /\ ProtectedStays


-----------------------------------------------------------------------------
(* The steps, by what they belong to: the puts and waits of any operation, *)
(* a receive pass, the user's commands; and what concerns the database as  *)
(* a whole.                                                                *)
Puts == PutSession \/ PutChat \/ Answered \/ Fails
Pass ==
  \/ BeginPass \/ EndPass \/ \E m \in Chats : ApplyChat(m)
  \/ \E ask, full \in BOOLEAN : ApplyPolicy(ask, full)
  \/ \E full \in BOOLEAN : ApplyRequest(full)
User ==
  \/ \E kind \in {"policy", "request"} : Load(kind)
  \/ \E ask, full \in BOOLEAN : Announce(ask, full)
  \/ Announced \/ Request \/ Requested \/ GiveUp
  \/ Confirm \/ Confirmed \/ BeginDecline \/ Decline
Whole ==
  \/ Rotate \/ Swap \/ Shred \/ DestroyKeys \/ RemoveFile
  \/ Crash \/ Open \/ Tick

LEMMA StepKinds == Next => (\E m \in Chats : Send(m)) \/ Puts \/ Pass \/ User \/ Whole
BY DEF Next, Puts, Pass, User, Whole

(* A record or a position is never Nothing.                                *)
LEMMA Something ==
  /\ Nothing \notin ChatRecords /\ Nothing \notin SessionRecords
  /\ Nothing \notin Contacts /\ Nothing \notin Commands
  /\ Nothing \notin Positions
<1>1. DOMAIN Nothing = {}
  BY DEF Nothing
<1>2. \A r \in ChatRecords : DOMAIN r # {}
  BY DEF ChatRecords
<1>3. \A r \in SessionRecords : DOMAIN r # {}
  BY DEF SessionRecords
<1>4. \A r \in Contacts : DOMAIN r # {}
  BY DEF Contacts
<1>5. \A r \in Commands : DOMAIN r # {}
  BY DEF Commands
<1>6. \A r \in Positions : DOMAIN r # {}
  BY DEF Positions
<1> QED
  BY <1>1, <1>2, <1>3, <1>4, <1>5, <1>6

LEMMA Starts == NoOp \in Operations /\ NewContact \in Contacts
<1>1. NewContact \in Contacts
  BY DEF NewContact, Contacts
<1>2. <<0, 0>> \in Positions
  BY DEF Positions
<1> QED
  BY <1>1, <1>2 DEF NoOp, Operations, Places


(* What the steps build is typed.                                          *)
LEMMA OpSteps ==
  ASSUME Typed
  PROVE  /\ \A pc \in Places : Put(pc) \in Operations /\ Await(pc) \in Operations
         /\ NextEntry \in Operations
         /\ op.pc \in {"send: session", "receipt: session", "policy: session",
                       "request: session", "end: session"} => AfterSession \in Operations
<1>1. op \in Operations /\ key \in Nat
  BY DEF Typed, TypeOK
<1>2. \A pc \in Places : Put(pc) \in Operations /\ Await(pc) \in Operations
  BY <1>1 DEF Put, Await, Operations
<1>3. NextEntry \in Operations
  <2>1. <<0, 0>> \in Positions /\ "pass" \in Places
    BY DEF Positions, Places
  <2> QED
    BY <1>1, <2>1 DEF NextEntry, Operations
<1>4. {"send: chat", "policy: await", "request: await"} \subseteq Places
  BY DEF Places
<1>5. op.pc \in {"send: session", "receipt: session", "policy: session",
                "request: session", "end: session"} =>
        AfterSession \in {Put("send: chat"), NextEntry, Await("policy: await"),
                         Await("request: await"), NoOp}
  BY DEF AfterSession
<1> QED
  BY <1>2, <1>3, <1>4, <1>5, Starts

LEMMA RecordTypes ==
  ASSUME Typed
  PROVE  /\ \A at \in Positions, k \in Nat, n \in BOOLEAN : Chat(k, at, n) \in ChatRecords
         /\ \A k \in Nat, o \in SUBSET Received : Session(k, o) \in SessionRecords
         /\ <<now, next>> \in Positions /\ now \in Nat /\ next + 1 \in Nat
         /\ \A ms \in SUBSET Stored : RecordsOf(ms) \subseteq Chats \X Positions
<1>1. now \in Nat /\ next \in Nat
  BY WipeAssumption DEF Typed, TypeOK
<1>2. \A ms \in SUBSET Stored : RecordsOf(ms) \subseteq Chats \X Positions
  BY DEF Typed, TypeOK, RecordsOf, Stored, ChatRecords
<1> QED
  BY <1>1, <1>2 DEF Chat, Session, ChatRecords, SessionRecords, Positions

LEMMA DeleteType ==
  ASSUME Typed, NEW ms \in SUBSET Chats, NEW session \in BOOLEAN, Delete(ms, session)
  PROVE  /\ chats' \in [Chats -> ChatRecords \union {Nothing}]
         /\ ratchet' \in SessionRecords \union {Nothing}
         /\ gone' \subseteq Chats \union {"session"}
BY DEF Delete, Typed, TypeOK

(* What an operation that ends early leaves is a set of received chats.    *)
LEMMA DroppedType == Typed /\ Dropped => cut' \subseteq Received
BY DEF Typed, TypeOK, Operations, Dropped

(* An operation under way means that the app runs.                         *)
LEMMA AtWork == Typed /\ op.pc # "idle" => running
<1>1. NoOp.pc = "idle"
  BY DEF NoOp
<1> QED
  BY <1>1 DEF Typed, TypeOK

LEMMA Counted ==
  ASSUME Typed
  PROVE  /\ requests < MaxRequests => requests + 1 \in 0..MaxRequests
         /\ commands < MaxCommands => commands + 1 \in 0..MaxCommands
         /\ wipes < MaxWipes => wipes + 1 \in 0..MaxWipes
         /\ faults < MaxFaults => faults + 1 \in 0..MaxFaults
         /\ now < MaxTime => now + 1 \in 0..MaxTime
BY WipeAssumption DEF Typed, TypeOK

LEMMA InScopeStored ==
  ASSUME NEW c PROVE InScope(c) \subseteq Stored /\ Stored \subseteq Chats
BY DEF InScope, Stored

LEMMA TypedSend == ASSUME Typed, NEW m \in Chats, Send(m) PROVE Typed'
<1>1. op' \in Operations
  BY RecordTypes, Starts DEF Send, Typed, TypeOK, Operations, Places, Loadable, SessionRecords
<1> QED
  BY <1>1, RecordTypes DEF Send, Typed, TypeOK, Operations, Places, diskVars, lockFree, history, bounds, Idle

LEMMA TypedPuts ==
  ASSUME Typed, Puts
  PROVE  Typed'
<1> USE DEF diskVars, process, lockFree, history, bounds
<1>1. CASE PutSession
  <2>1. op' \in Operations
    BY <1>1, OpSteps DEF PutSession
  <2>2. ratchet' \in SessionRecords
    BY <1>1, RecordTypes DEF PutSession, Typed, Operations
  <2>3. running
    BY <1>1, AtWork DEF PutSession
  <2> QED
    BY <1>1, <2>1, <2>2, <2>3 DEF PutSession, Typed, TypeOK, Operations
<1>2. CASE PutChat
  <2>1. op' \in Operations
    BY <1>2, OpSteps, Starts DEF PutChat, Places
  <2>2. chats' \in [Chats -> ChatRecords \union {Nothing}]
    <3>1. Chat(op.key, op.at, op.pc = "pass: id") \in ChatRecords
      BY RecordTypes DEF Typed, Operations
    <3> QED
      BY <1>2, <3>1 DEF PutChat, Typed, TypeOK
  <2>3. running
    BY <1>2, AtWork DEF PutChat
  <2> QED
    BY <1>2, <2>1, <2>2, <2>3 DEF PutChat, Typed, TypeOK, Operations
<1>3. CASE Answered
  <2>1. op' \in Operations
    <3>1. Put("send: again") \in Operations /\ Put("receipt: session") \in Operations
      BY OpSteps DEF Places
    <3> QED
      BY <1>3, <3>1, OpSteps DEF Answered
  <2>2. running
    BY <1>3, AtWork DEF Answered
  <2> QED
    BY <1>3, <2>1, <2>2 DEF Answered, Typed, TypeOK, Operations
<1>4. CASE Fails
  <2>1. op' \in Operations /\ faults' \in 0..MaxFaults /\ cut' \subseteq Received /\ running
    BY <1>4, Starts, Counted, DroppedType, AtWork DEF Fails, Fault
  <2> QED
    BY <1>4, <2>1 DEF Fails, Typed, TypeOK, Operations
<1> QED
  BY <1>1, <1>2, <1>3, <1>4 DEF Puts

LEMMA TypedPass ==
  ASSUME Typed, Pass
  PROVE  Typed'
<1> USE DEF diskVars, process, lockFree, history, bounds
<1>1. CASE BeginPass
  <2>1. op' \in Operations
    BY <1>1, Starts DEF BeginPass, Typed, TypeOK, Operations, Places, Loadable, SessionRecords
  <2> QED
    BY <1>1, <2>1 DEF BeginPass, Idle, Typed, TypeOK, Operations
<1>2. CASE EndPass
  <2>1. op' \in Operations /\ running
    BY <1>2, Starts, OpSteps, AtWork DEF EndPass, Ends, Places
  <2> QED
    BY <1>2, <2>1 DEF EndPass, Typed, TypeOK, Operations
<1>3. ASSUME NEW m \in Chats, ApplyChat(m) PROVE Typed'
  <2>1. op' \in Operations /\ next' \in Nat /\ cut' \subseteq Received
    <3>1. /\ op \in Operations /\ cut \subseteq Received /\ next \in Nat /\ next + 1 \in Nat
          /\ <<now, next>> \in Positions /\ NoOp \in Operations
      BY RecordTypes, Starts DEF Typed, TypeOK
    <3>2. ASSUME NEW o \in Operations, NEW at \in Positions
          PROVE  /\ Opened(m, o) \in Operations
                 /\ [Opened(m, o) EXCEPT !.at = at] \in Operations
      BY <1>3, <3>1, <3>2 DEF Opened, ApplyChat, Operations
    <3>3. /\ Put("pass: chat") \in Operations /\ Put("pass: id") \in Operations
          /\ Await("pass: await") \in Operations
      BY OpSteps DEF Places
    <3>4. Loadable(chats[m]) => chats[m].at \in Positions
      BY DEF Loadable, Typed, TypeOK, ChatRecords
    <3>5. Dropped => cut' \subseteq Received
      BY DroppedType
    <3> QED
      BY <1>3, <3>1, <3>2, <3>3, <3>4, <3>5 DEF ApplyChat
  <2>2. running
    BY <1>3, AtWork DEF ApplyChat
  <2> QED
    BY <1>3, <2>1, <2>2 DEF ApplyChat, Typed, TypeOK, Operations
<1>4. ASSUME NEW ask \in BOOLEAN, NEW full \in BOOLEAN, ApplyPolicy(ask, full) PROVE Typed'
  <2>1. contact' \in Contacts
    <3>1. contact \in Contacts
      BY DEF Typed, TypeOK
    <3>2. <<now, next>> \in Positions /\ RecordsOf(Stored) \subseteq Chats \X Positions
      BY RecordTypes
    <3>3. contact' = [contact EXCEPT !.peerAsk = ask, !.peerFull = full,
                                     !.boundary = <<now, next>>, !.covers = RecordsOf(Stored)]
      BY <1>4 DEF ApplyPolicy
    <3> QED
      BY <3>1, <3>2, <3>3 DEF Contacts
  <2>2. requests' \in 0..MaxRequests
    BY <1>4, Counted DEF ApplyPolicy
  <2> QED
    BY <1>4, <2>1, <2>2 DEF ApplyPolicy, Typed, TypeOK
<1>5. ASSUME NEW full \in BOOLEAN, ApplyRequest(full) PROVE Typed'
  <2>1. requests' \in 0..MaxRequests /\ running
    BY <1>5, Counted, AtWork DEF ApplyRequest
  <2>2. (Full(Current) \/ full) \in BOOLEAN
    OBVIOUS
  <2>3. /\ chats' \in [Chats -> ChatRecords \union {Nothing}]
        /\ ratchet' \in SessionRecords \union {Nothing}
        /\ gone' \subseteq Chats \union {"session"}
        /\ overreach' \subseteq Chats \X Positions /\ cut' \subseteq Received
    <3>1. cut' \subseteq Received
      BY <1>5, DroppedType DEF ApplyRequest, Typed, TypeOK
    <3>2. CASE Comply(Current, Full(Current) \/ full)
      BY <3>1, <3>2, <2>2, DeleteType, InScopeStored, RecordTypes DEF Comply, Typed, TypeOK
    <3>3. CASE UNCHANGED <<chats, ratchet, gone, overreach>>
      BY <3>1, <3>3 DEF Typed, TypeOK
    <3> QED
      BY <1>5, <3>2, <3>3 DEF ApplyRequest
  <2>4. contact' \in Contacts
    BY <1>5 DEF ApplyRequest, Current, Typed, TypeOK, Contacts
  <2>5. op' \in Operations
    BY <1>5, <2>2, Starts DEF ApplyRequest, Typed, TypeOK, Operations
  <2> QED
    BY <1>5, <2>1, <2>3, <2>4, <2>5 DEF ApplyRequest, Typed, TypeOK, Operations
<1> QED
  BY <1>1, <1>2, <1>3, <1>4, <1>5 DEF Pass


LEMMA TypedUser ==
  ASSUME Typed, User
  PROVE  Typed'
<1> USE DEF diskVars, process, lockFree, history, bounds
<1>1. ASSUME NEW kind \in {"policy", "request"}, Load(kind) PROVE Typed'
  <2>1. queued' \in Commands /\ commands' \in 0..MaxCommands
    BY <1>1, Counted DEF Load, Commands, Typed, TypeOK
  <2> QED
    BY <1>1, <2>1 DEF Load, Typed, TypeOK, Commands
<1>2. ASSUME NEW ask \in BOOLEAN, NEW full \in BOOLEAN, Announce(ask, full) PROVE Typed'
  <2>1. queued \in Commands
    BY <1>2 DEF Announce, Typed
  <2>2. contact' \in Contacts
    BY <1>2, <2>1 DEF Announce, Commands, Contacts
  <2>3. ratchet \in SessionRecords
    BY <1>2 DEF Announce, Loadable, Typed, TypeOK
  <2>4. op' \in Operations
    BY <1>2, <2>2, <2>3, Starts DEF Announce, Operations, Places, SessionRecords, Typed, TypeOK
  <2> QED
    BY <1>2, <2>2, <2>4 DEF Announce, Idle, Typed, TypeOK, Operations
<1>3. CASE Announced
  <2>1. running
    BY <1>3, AtWork DEF Announced
  <2>2. op.contact \in Contacts /\ op' \in Operations
    BY <1>3, Starts DEF Announced, Typed, TypeOK
  <2>3. op'.pc \in Places /\ op'.contact \in Contacts /\ op'.opened \subseteq Received
        /\ op'.chat \in Chats \union {Nothing} /\ op'.at \in Positions /\ op'.wiped \in BOOLEAN
    BY <2>2 DEF Operations
  <2> QED
    BY <1>3, <2>1, <2>2, <2>3 DEF Announced, Typed, TypeOK
<1>4. CASE Request
  <2>1. queued \in Commands /\ ratchet \in SessionRecords
    BY <1>4 DEF Request, Loadable, Typed, TypeOK
  <2>2. op' \in Operations
    BY <1>4, <2>1, Starts DEF Request, Operations, Places, SessionRecords, Commands, Typed, TypeOK
  <2> QED
    BY <1>4, <2>2 DEF Request, Idle, Typed, TypeOK, Operations
<1>5. CASE Requested
  <2>1. running
    BY <1>5, AtWork DEF Requested
  <2>2. Stored \in SUBSET Chats /\ Full(op.contact) \in BOOLEAN
    BY DEF Stored, Full, Typed, TypeOK, Contacts
  <2>3. /\ chats' \in [Chats -> ChatRecords \union {Nothing}]
        /\ ratchet' \in SessionRecords \union {Nothing}
        /\ gone' \subseteq Chats \union {"session"}
    <3>1. CASE Delete(Stored, Full(op.contact))
      BY <3>1, <2>2, DeleteType
    <3>2. CASE UNCHANGED <<chats, ratchet, gone>>
      BY <3>2 DEF Typed, TypeOK
    <3> QED
      BY <1>5, <3>1, <3>2 DEF Requested
  <2> QED
    BY <1>5, <2>1, <2>3, Starts DEF Requested, Typed, TypeOK, Operations
<1>6. CASE GiveUp
  BY <1>6 DEF GiveUp, Typed, TypeOK
<1>7. CASE Confirm
  <2>1. InScope(contact) \in SUBSET Chats /\ InScope(contact) \in SUBSET Stored
    BY InScopeStored
  <2>2. Full(contact) \in BOOLEAN
    BY DEF Full, Typed, TypeOK, Contacts
  <2>3. /\ chats' \in [Chats -> ChatRecords \union {Nothing}]
        /\ ratchet' \in SessionRecords \union {Nothing}
        /\ gone' \subseteq Chats \union {"session"}
    BY <1>7, <2>1, <2>2, DeleteType DEF Confirm, Comply
  <2>4. overreach' \subseteq Chats \X Positions
    BY <1>7, <2>1, RecordTypes DEF Confirm, Comply, Typed, TypeOK
  <2>5. op' \in Operations
    BY <1>7, Starts DEF Confirm, Operations, Places, Typed, TypeOK
  <2> QED
    BY <1>7, <2>3, <2>4, <2>5 DEF Confirm, Idle, Typed, TypeOK, Operations
<1>8. CASE Confirmed
  <2>1. running
    BY <1>8, AtWork DEF Confirmed
  <2>2. contact' \in Contacts
    BY <1>8 DEF Confirmed, Typed, TypeOK, Contacts
  <2> QED
    BY <1>8, <2>1, <2>2, Starts DEF Confirmed, Typed, TypeOK, Operations
<1>9. CASE BeginDecline
  BY <1>9 DEF BeginDecline, Typed, TypeOK
<1>10. CASE Decline
  <2>1. contact' \in Contacts
    BY <1>10 DEF Decline, Typed, TypeOK, Contacts
  <2> QED
    BY <1>10, <2>1 DEF Decline, Typed, TypeOK
<1> QED
  BY <1>1, <1>2, <1>3, <1>4, <1>5, <1>6, <1>7, <1>8, <1>9, <1>10 DEF User

(* The next free sequence number lies above every stored chat's, if those  *)
(* are bounded at all.                                                     *)
LEMMA RecoveredAbove ==
  ASSUME Typed, NEW bound \in Nat, \A m \in Stored : chats[m].at[2] <= bound
  PROVE  Recovered \in Nat /\ \A m \in Stored : chats[m].at[2] < Recovered
<1>1. CASE Stored = {}
  BY <1>1 DEF Recovered
<1>2. CASE Stored # {}
  <2> DEFINE T == {chats[m].at[2] : m \in Stored}
  <2>1. T \in SUBSET Nat /\ T # {} /\ \A n \in T : n <= bound
    BY <1>2 DEF Typed, TypeOK, Stored, ChatRecords, Positions
  <2>2. PICK top \in T : \A k \in T : k <= top
    <3> HIDE DEF T
    <3> QED BY <2>1, LargestOf
  <2>3. Max(T) \in T /\ \A k \in T : Max(T) >= k
    <3>1. \E x \in T : \A y \in T : x >= y
      BY <2>1, <2>2
    <3> HIDE DEF T
    <3> QED BY <3>1 DEF Max
  <2>4. Recovered = Max(T) + 1
    BY <1>2 DEF Recovered
  <2>5. \A m \in Stored : chats[m].at[2] \in T
    OBVIOUS
  <2> HIDE DEF T
  <2>6. Max(T) \in Nat
    BY <2>1, <2>3
  <2>7. \A k \in T : k < Max(T) + 1
    BY <2>1, <2>3, <2>6
  <2> QED
    BY <2>4, <2>5, <2>6, <2>7
<1> QED
  BY <1>1, <1>2

LEMMA TypedWhole ==
  ASSUME Typed, Bounded, Whole
  PROVE  Typed'
<1> USE DEF diskVars, process, lockFree, history, bounds
<1>1. CASE Rotate
  <2>1. wipes' \in 0..MaxWipes /\ dek' \in Nat
    BY <1>1, Counted DEF Rotate, Rotated, Typed, TypeOK
  <2>2. gone' \subseteq Chats \union {"session"}
    BY <1>1 DEF Rotate, Everything, Stored, Typed, TypeOK
  <2> QED
    BY <1>1, <2>1, <2>2 DEF Rotate, Typed, TypeOK
<1>2. CASE Swap
  <2>1. held' \subseteq Chats \union {"session"}
    BY <1>2 DEF Swap, Held, Typed, TypeOK
  <2>2. running
    BY <1>2 DEF Swap, Typed, TypeOK
  <2> QED
    BY <1>2, <2>1, <2>2 DEF Swap, Swapped, Typed, TypeOK
<1>3. CASE Shred
  BY <1>3 DEF Shred, Typed, TypeOK
<1>4. CASE DestroyKeys
  <2>1. wipes' \in 0..MaxWipes
    BY <1>4, Counted DEF DestroyKeys
  <2>2. gone' \subseteq Chats \union {"session"}
    BY <1>4 DEF DestroyKeys, Everything, Stored, Typed, TypeOK
  <2> QED
    BY <1>4, <2>1, <2>2 DEF DestroyKeys, Typed, TypeOK
<1>5. CASE RemoveFile
  BY <1>5, Starts DEF RemoveFile, Stop, Typed, TypeOK, Operations
<1>6. CASE Crash
  <2>1. faults' \in 0..MaxFaults /\ cut' \subseteq Received
    BY <1>6, Counted, DroppedType DEF Crash, Fault
  <2> QED
    BY <1>6, <2>1, Starts DEF Crash, Stop, Typed, TypeOK, Operations
<1>7. CASE Open
  <2>1. next' \in Nat
    BY <1>7, RecoveredAbove DEF Open, Bounded
  <2> QED
    BY <1>7, <2>1 DEF Open, Typed, TypeOK
<1>8. CASE Tick
  <2>1. now' \in 0..MaxTime
    BY <1>8, Counted DEF Tick
  <2> QED
    BY <1>8, <2>1 DEF Tick, Typed, TypeOK
<1> QED
  BY <1>1, <1>2, <1>3, <1>4, <1>5, <1>6, <1>7, <1>8 DEF Whole


-----------------------------------------------------------------------------
(* What a step of an operation leaves of it.                               *)
LEMMA AfterPut ==
  ASSUME Typed, PutSession
  PROVE  /\ op'.key \in {0, key} /\ op'.wiped \in {op.wiped, FALSE}
         /\ op'.chat \in {op.chat, Nothing} /\ op'.contact \in {op.contact, NewContact}
         /\ op'.pc = "pass" => op'.chat = Nothing
         /\ op'.pc \in {"idle", "pass", "send: chat", "policy: await", "request: await"}
         /\ op'.pc = "send: chat" => op.pc = "send: session" /\ op'.at = op.at
BY DEF PutSession, AfterSession, Put, Await, NextEntry, NoOp, Typed, TypeOK, Operations

LEMMA ChatApplied ==
  ASSUME Typed, NEW m \in Chats, ApplyChat(m)
  PROVE  \/ op' = NoOp /\ Dropped /\ next' = next
         \/ /\ op'.wiped = op.wiped /\ op'.contact = op.contact /\ op'.chat = m
            /\ op'.opened = op.opened \union {m} /\ UNCHANGED cut
            /\ \/ op'.pc = "pass: await" /\ op'.key = 0 /\ next' = next
               \/ /\ op'.pc = "pass: id" /\ op'.key = key /\ next' = next
                  /\ m \in Stored /\ op'.at = chats[m].at
               \/ /\ op'.pc = "pass: chat" /\ op'.key = key /\ next' = next + 1
                  /\ op'.at = <<now, next>>
<1>1. op \in Operations
  BY DEF Typed
<1>2. CASE Known(m) /\ op' = Opened(m, Await("pass: await")) /\ UNCHANGED <<next, cut>>
  BY <1>1, <1>2 DEF Opened, Await, Operations
<1>3. CASE /\ Loadable(chats[m]) /\ UNCHANGED <<next, cut>>
           /\ op' = [Opened(m, Put("pass: id")) EXCEPT !.at = chats[m].at]
  BY <1>1, <1>3 DEF Opened, Put, Operations, Loadable, Stored
<1>4. CASE /\ op' = [Opened(m, Put("pass: chat")) EXCEPT !.at = <<now, next>>]
           /\ next' = next + 1 /\ UNCHANGED cut
  BY <1>1, <1>4 DEF Opened, Put, Operations
<1>5. CASE Dropped /\ op' = NoOp /\ UNCHANGED next
  BY <1>5
<1> QED
  BY <1>2, <1>3, <1>4, <1>5 DEF ApplyChat

(* Apart from the quick and the full wipe and the start of the app, a step *)
(* leaves the keys alone; an operation's next put uses the one in memory,  *)
(* and what it puts is sealed under the key of its last.                   *)
LEMMA WorkKeys ==
  ASSUME Typed, (\E m \in Chats : Send(m)) \/ Puts \/ Pass \/ User
  PROVE  /\ UNCHANGED <<file, dek, key, shred>> /\ op'.key \in {0, key, op.key}
         /\ \A m \in Chats : \/ chats'[m] \in {chats[m], Nothing}
                             \/ chats'[m].key = op.key
         /\ ratchet' \in {ratchet, Nothing} \/ ratchet'.key = op.key
<1> USE DEF diskVars, process, lockFree, history, bounds
<1>0. op \in Operations /\ chats \in [Chats -> ChatRecords \union {Nothing}] /\ NoOp.key = 0
  BY DEF Typed, TypeOK, NoOp
<1>1. ASSUME NEW ms, NEW session, Delete(ms, session)
      PROVE  /\ \A m \in Chats : chats'[m] \in {chats[m], Nothing}
             /\ ratchet' \in {ratchet, Nothing}
  BY <1>1 DEF Delete
<1>2. CASE \E m \in Chats : Send(m)
  BY <1>2 DEF Send, NoOp
<1>3. CASE Puts
  <2>1. CASE PutSession
    BY <2>1, AfterPut DEF PutSession, Session
  <2>2. CASE PutChat
    BY <1>0, <2>2 DEF PutChat, Await, Put, Chat, Operations
  <2>3. CASE Answered
    BY <1>0, <2>3 DEF Answered, Put, NextEntry, Operations
  <2>4. CASE Fails
    BY <1>0, <2>4 DEF Fails
  <2> QED
    BY <1>3, <2>1, <2>2, <2>3, <2>4 DEF Puts
<1>4. CASE Pass
  <2>1. CASE BeginPass
    BY <1>0, <2>1 DEF BeginPass
  <2>2. CASE EndPass
    BY <1>0, <2>2 DEF EndPass, Ends, Put, Operations
  <2>3. ASSUME NEW m \in Chats, ApplyChat(m)
        PROVE  op'.key \in {0, key} /\ UNCHANGED <<file, dek, key, shred, chats, ratchet>>
    BY <1>0, <2>3, ChatApplied DEF ApplyChat
  <2>4. ASSUME NEW ask, NEW full, ApplyPolicy(ask, full)
        PROVE  UNCHANGED <<file, dek, key, shred, chats, ratchet, op>>
    BY <2>4 DEF ApplyPolicy
  <2>5. ASSUME NEW full, ApplyRequest(full)
        PROVE  /\ UNCHANGED <<file, dek, key, shred>> /\ op'.key \in {0, op.key}
               /\ \A m \in Chats : chats'[m] \in {chats[m], Nothing}
               /\ ratchet' \in {ratchet, Nothing}
    BY <1>0, <1>1, <2>5 DEF ApplyRequest, Comply, Operations
  <2> QED
    BY <1>4, <2>1, <2>2, <2>3, <2>4, <2>5 DEF Pass
<1>5. CASE User
  <2>1. ASSUME NEW kind, Load(kind)
        PROVE  UNCHANGED <<file, dek, key, shred, chats, ratchet, op>>
    BY <2>1 DEF Load
  <2>2. ASSUME NEW ask, NEW full, Announce(ask, full)
        PROVE  UNCHANGED <<file, dek, key, shred, chats, ratchet>> /\ op'.key = key
    BY <2>2 DEF Announce
  <2>3. CASE Requested
    BY <1>0, <1>1, <2>3 DEF Requested
  <2>4. CASE Confirm
    BY <1>0, <1>1, <2>4 DEF Confirm, Comply
  <2>5. CASE Announced \/ Request \/ GiveUp \/ Confirmed \/ BeginDecline \/ Decline
    <3>1. CASE Request
      BY <3>1 DEF Request, NoOp
    <3> QED
      BY <1>0, <2>5, <3>1 DEF Announced, GiveUp, Confirmed, BeginDecline, Decline
  <2> QED
    BY <1>5, <2>1, <2>2, <2>3, <2>4, <2>5 DEF User
<1> QED
  BY <1>2, <1>3, <1>4, <1>5

LEMMA KeysKept ==
  ASSUME Typed, KeyInv, Next
  PROVE  KeyInv'
<1> USE DEF diskVars, process, lockFree, history, bounds
<1>0. key \in Nat /\ dek \in Nat /\ op.key \in Nat
  BY DEF Typed, TypeOK, Operations
<1>1. CASE (\E m \in Chats : Send(m)) \/ Puts \/ Pass \/ User
  <2>1. /\ UNCHANGED <<file, dek, key, shred>> /\ op'.key \in {0, key, op.key}
        /\ \A m \in Chats : \/ chats'[m] \in {chats[m], Nothing}
                            \/ chats'[m].key = op.key
        /\ ratchet' \in {ratchet, Nothing} \/ ratchet'.key = op.key
    BY <1>1, WorkKeys
  <2>2. op'.key <= dek /\ (shred = "rotated" => op'.key < dek)
    BY <1>0, <2>1 DEF KeyInv
  <2>3. \A m \in Stored' : chats'[m].key <= dek
    BY <2>1 DEF KeyInv, Stored
  <2>4. ratchet' # Nothing => ratchet'.key <= dek
    BY <2>1 DEF KeyInv
  <2> QED
    BY <2>1, <2>2, <2>3, <2>4 DEF KeyInv
<1>2. CASE Rotate
  <2>1. \A m \in Stored : chats[m].key \in Nat
    BY DEF Stored, Typed, TypeOK, ChatRecords
  <2>2. ratchet # Nothing => ratchet.key \in Nat
    BY DEF Typed, TypeOK, SessionRecords
  <2>3. dek' = dek + 1 /\ UNCHANGED <<key, op, chats, ratchet>>
    BY <1>2 DEF Rotate, Rotated
  <2> QED
    BY <1>0, <2>1, <2>2, <2>3 DEF KeyInv, Stored
<1>3. CASE Swap
  BY <1>0, <1>3 DEF Swap, Swapped, KeyInv, Stored
<1>4. CASE Shred
  BY <1>4 DEF Shred, KeyInv, Stored
<1>5. CASE DestroyKeys
  BY <1>5 DEF DestroyKeys, KeyInv, Stored
<1>6. CASE RemoveFile
  BY <1>0, <1>6 DEF RemoveFile, Stop, NoOp, KeyInv, Stored
<1>7. CASE Crash
  BY <1>0, <1>7 DEF Crash, Stop, NoOp, KeyInv, Stored
<1>8. CASE Open
  BY <1>0, <1>8 DEF Open, KeyInv, Stored, Typed, TypeOK
<1>9. CASE Tick
  BY <1>9 DEF Tick, KeyInv, Stored
<1> QED
  BY <1>1, <1>2, <1>3, <1>4, <1>5, <1>6, <1>7, <1>8, <1>9, StepKinds DEF Whole


-----------------------------------------------------------------------------
(* Where records and boundaries lie.                                       *)
LEMMA NewApart == Apart(NewContact)
BY DEF Apart, NewContact

LEMMA ApartSame ==
  ASSUME NEW c, NEW d, c.boundary = d.boundary, c.covers = d.covers, Apart(c)
  PROVE  Apart(d)
BY DEF Apart

(* Every put leaves the stored chats below what comes next.                *)
LEMMA BoundedKept ==
  ASSUME Typed, PlaceInv,
         \A m \in Chats : \/ chats'[m] \in {chats[m], Nothing}
                          \/ op.at \in Positions /\ chats'[m].at = op.at
  PROVE  Bounded'
<1>1. PICK n \in Nat : \A m \in Stored : chats[m].at[2] <= n
  BY DEF PlaceInv, Bounded
<1>2. PICK k \in Nat : n <= k /\ (op.at \in Positions => op.at[2] <= k)
  <2>1. CASE op.at \in Positions
    <3>1. op.at[2] \in Nat
      BY <2>1 DEF Positions
    <3>2. CASE n <= op.at[2]
      BY <2>1, <3>1, <3>2
    <3>3. CASE ~(n <= op.at[2])
      BY <2>1, <3>1, <3>3
    <3> QED
      BY <3>2, <3>3
  <2> QED
    BY <2>1
<1>3. ASSUME NEW m \in Stored' PROVE chats'[m].at[2] <= k
  <2>1. CASE chats'[m] = chats[m]
    <3>1. m \in Stored /\ chats[m].at[2] \in Nat
      BY <2>1 DEF Stored, Typed, TypeOK, ChatRecords, Positions
    <3> QED
      BY <1>1, <1>2, <2>1, <3>1
  <2>2. CASE op.at \in Positions /\ chats'[m].at = op.at
    BY <1>2, <2>2
  <2> QED
    BY <2>1, <2>2 DEF Stored
<1> QED
  BY <1>3 DEF Bounded

(* A step that stores nothing new and takes no sequence number back.       *)
LEMMA PlacesKept ==
  ASSUME Typed, PlaceInv, now' >= now, now' \in Nat, next' \in Nat,
         \A m \in Chats : chats'[m] \in {chats[m], Nothing},
         running' => running /\ next' >= next
  PROVE  /\ Bounded'
         /\ \A m \in Stored' : chats'[m].at[1] <= now' /\ (running' => chats'[m].at[2] < next')
         /\ running' /\ op.pc \in Writing => op.at[1] <= now' /\ op.at[2] < next'
<1>1. Bounded'
  BY BoundedKept
<1>2. now \in Nat /\ next \in Nat
  BY WipeAssumption DEF Typed, TypeOK
<1>3. ASSUME NEW m \in Stored'
      PROVE  chats'[m].at[1] <= now' /\ (running' => chats'[m].at[2] < next')
  <2>1. m \in Stored /\ chats'[m] = chats[m]
    BY DEF Stored
  <2>2. chats[m].at[1] \in Nat /\ chats[m].at[2] \in Nat
    BY <2>1 DEF Stored, Typed, TypeOK, ChatRecords, Positions
  <2> QED
    BY <1>2, <2>1, <2>2 DEF PlaceInv
<1>4. op.at[1] \in Nat /\ op.at[2] \in Nat
  BY DEF Typed, Operations, Positions
<1> QED
  BY <1>1, <1>2, <1>3, <1>4 DEF PlaceInv

(* The boundary a policy is processed at lies above all that is stored.    *)
LEMMA NewBoundary ==
  ASSUME Typed, PlaceInv, running
  PROVE  \A r \in RecordsOf(Stored) : ~AtOrAfter(r[2], <<now, next>>)
<1>1. SUFFICES ASSUME NEW m \in Stored PROVE ~AtOrAfter(chats[m].at, <<now, next>>)
  BY DEF RecordsOf
<1>2. chats[m].at[1] \in Nat /\ chats[m].at[2] \in Nat /\ now \in Nat /\ next \in Nat
  BY WipeAssumption DEF Stored, Typed, TypeOK, ChatRecords, Positions
<1>3. chats[m].at[1] <= now /\ chats[m].at[2] < next
  BY DEF PlaceInv
<1> QED
  BY <1>2, <1>3 DEF AtOrAfter

LEMMA PlacesOp ==
  ASSUME Typed, PlaceInv, (\E m \in Chats : Send(m)) \/ Puts
  PROVE  PlaceInv'
<1> USE DEF diskVars, process, lockFree, history, bounds
<1>0. now \in Nat /\ next \in Nat /\ op \in Operations
  BY WipeAssumption DEF Typed, TypeOK
<1>1. ASSUME NEW m \in Chats, Send(m) PROVE PlaceInv'
  <2>1. op'.contact = NewContact /\ op'.at = <<now, next>> /\ next' = next + 1
    BY <1>1 DEF Send, NoOp
  <2>2. UNCHANGED <<chats, contact, queued, decline, now, running>>
    BY <1>1 DEF Send
  <2>3. Bounded' /\ \A k \in Stored' : chats'[k].at[1] <= now' /\ (running' => chats'[k].at[2] < next')
    BY <1>0, <2>1, <2>2, PlacesKept
  <2> QED
    BY <1>0, <2>1, <2>2, <2>3, NewApart DEF PlaceInv
<1>2. CASE PutChat
  <2>1. op.pc \in Writing /\ running
    BY <1>2, AtWork DEF PutChat, Writing
  <2>2. \A m \in Chats : chats'[m] = chats[m] \/ chats'[m].at = op.at
    BY <1>2 DEF PutChat, Chat, Typed, TypeOK
  <2>3. Bounded'
    BY <1>0, <2>2, BoundedKept DEF Operations
  <2>4. UNCHANGED <<contact, queued, decline, now, next, running>>
    BY <1>2 DEF PutChat
  <2>5. ASSUME NEW m \in Stored' PROVE chats'[m].at[1] <= now' /\ chats'[m].at[2] < next'
    BY <2>1, <2>2, <2>4 DEF PlaceInv, Stored
  <2>6. op'.contact \in {op.contact, NewContact} /\ op'.at \in {op.at, <<0, 0>>}
        /\ (op'.pc \in Writing => op'.at = op.at)
    BY <1>0, <1>2 DEF PutChat, Await, Put, NoOp, Operations, Writing
  <2> QED
    BY <2>1, <2>3, <2>4, <2>5, <2>6, NewApart DEF PlaceInv
<1>3. CASE PutSession
  <2>1. UNCHANGED <<chats, contact, queued, decline, now, next, running>>
    BY <1>3 DEF PutSession
  <2>2. op'.pc \in Writing => op.pc \in Writing /\ op'.at = op.at
    BY <1>3, AfterPut DEF Writing
  <2> QED
    BY <1>3, <2>1, <2>2, AfterPut, NewApart DEF PlaceInv, Bounded, Stored
<1>4. CASE Answered \/ Fails
  <2>1. UNCHANGED <<chats, contact, queued, decline, now, next, running>>
    BY <1>4 DEF Answered, Fails
  <2>2. /\ op'.pc \in Writing => op.pc \in Writing /\ op'.at = op.at
        /\ op'.contact \in {op.contact, NewContact}
    <3>1. CASE Fails
      BY <3>1 DEF Fails, NoOp, Writing
    <3>2. CASE Answered
      BY <1>0, <3>2 DEF Answered, Put, NextEntry, Writing, Operations
    <3> QED
      BY <1>4, <3>1, <3>2
  <2> QED
    BY <2>1, <2>2, NewApart DEF PlaceInv, Bounded, Stored
<1> QED
  BY <1>1, <1>2, <1>3, <1>4 DEF Puts

LEMMA PlacesPass ==
  ASSUME Typed, PlaceInv, Pass
  PROVE  PlaceInv'
<1> USE DEF diskVars, process, lockFree, history, bounds
<1>0. now \in Nat /\ next \in Nat /\ op \in Operations
  BY WipeAssumption DEF Typed, TypeOK
<1>1. CASE BeginPass
  <2>1. op'.contact = contact /\ op'.pc = "pass"
    BY <1>1 DEF BeginPass, NoOp
  <2> QED
    BY <1>1, <2>1 DEF BeginPass, PlaceInv, Bounded, Stored, Writing
<1>2. CASE EndPass
  <2>1. op'.contact \in {op.contact, NewContact} /\ op'.pc \notin Writing
    BY <1>0, <1>2 DEF EndPass, Ends, Put, NoOp, Operations, Writing
  <2> QED
    BY <1>2, <2>1, NewApart DEF EndPass, PlaceInv, Bounded, Stored
<1>3. ASSUME NEW m \in Chats, ApplyChat(m) PROVE PlaceInv'
  <2>1. UNCHANGED <<chats, contact, queued, decline, now, running>> /\ next' \in {next, next + 1}
    BY <1>3 DEF ApplyChat
  <2>a. NoOp.contact = NewContact /\ NoOp.pc \notin Writing
    BY DEF NoOp, Writing
  <2>b. "pass: await" \notin Writing
    BY DEF Writing
  <2>2. op'.contact \in {op.contact, NewContact}
    BY <1>3, <2>a, ChatApplied
  <2>3. op'.pc \in Writing =>
          \/ op'.at = <<now, next>> /\ next' = next + 1
          \/ op'.at[1] <= now /\ op'.at[2] < next /\ next' = next
    <3>1. running
      BY <1>3, AtWork DEF ApplyChat
    <3> QED
      BY <1>3, <2>a, <2>b, <3>1, ChatApplied DEF PlaceInv
  <2>4. Bounded' /\ \A k \in Stored' : chats'[k].at[1] <= now' /\ (running' => chats'[k].at[2] < next')
    BY <1>0, <2>1, PlacesKept
  <2> QED
    BY <1>0, <2>1, <2>2, <2>3, <2>4, NewApart DEF PlaceInv
<1>4. ASSUME NEW ask \in BOOLEAN, NEW full \in BOOLEAN, ApplyPolicy(ask, full) PROVE PlaceInv'
  <2>1. running
    BY <1>4, AtWork DEF ApplyPolicy
  <2>2. contact'.boundary = <<now, next>> /\ contact'.covers = RecordsOf(Stored)
    BY <1>4 DEF ApplyPolicy, Typed, TypeOK, Contacts
  <2>3. <<now, next>> # Nothing
    BY RecordTypes, Something
  <2>4. Apart(contact')
    BY <2>1, <2>2, <2>3, NewBoundary DEF Apart
  <2> QED
    BY <1>4, <2>4 DEF ApplyPolicy, PlaceInv, Bounded, Stored
<1>5. ASSUME NEW full \in BOOLEAN, ApplyRequest(full) PROVE PlaceInv'
  <2>1. \A m \in Chats : chats'[m] \in {chats[m], Nothing}
    BY <1>5, WorkKeys DEF ApplyRequest, Comply, Delete
  <2>2. UNCHANGED <<queued, decline, now, next, running>>
    BY <1>5 DEF ApplyRequest
  <2>3. op'.contact \in {op.contact, NewContact} /\ op'.pc \in {"pass", "idle"}
    BY <1>0, <1>5 DEF ApplyRequest, NoOp, Operations
  <2>4. contact'.boundary = contact.boundary /\ contact'.covers = contact.covers
    BY <1>5 DEF ApplyRequest, Current, Typed, TypeOK, Contacts
  <2>5. Bounded' /\ \A k \in Stored' : chats'[k].at[1] <= now' /\ (running' => chats'[k].at[2] < next')
    BY <1>0, <2>1, <2>2, PlacesKept
  <2>6. Apart(contact')
    BY <2>4, ApartSame DEF PlaceInv
  <2> QED
    BY <2>2, <2>3, <2>5, <2>6, NewApart DEF PlaceInv, Writing
<1> QED
  BY <1>1, <1>2, <1>3, <1>4, <1>5 DEF Pass


LEMMA PlacesUser ==
  ASSUME Typed, PlaceInv, User
  PROVE  PlaceInv'
<1> USE DEF diskVars, process, lockFree, history, bounds
<1>0. now \in Nat /\ next \in Nat /\ op \in Operations /\ contact \in Contacts
  BY WipeAssumption DEF Typed, TypeOK
<1>1. ASSUME NEW kind, Load(kind) PROVE PlaceInv'
  <2>1. queued'.contact = contact
    BY <1>1 DEF Load
  <2> QED
    BY <1>1, <2>1 DEF Load, PlaceInv, Bounded, Stored
<1>2. ASSUME NEW ask, NEW full, Announce(ask, full) PROVE PlaceInv'
  <2>1. queued \in Commands /\ queued # Nothing /\ Apart(queued.contact)
    BY <1>2 DEF Announce, Typed, PlaceInv
  <2>2. contact'.boundary = queued.contact.boundary /\ contact'.covers = queued.contact.covers
    BY <1>2, <2>1 DEF Announce, Commands, Contacts
  <2>3. Apart(contact')
    BY <2>1, <2>2, ApartSame
  <2>4. op'.contact = contact' /\ op'.pc \notin Writing
    BY <1>2 DEF Announce, NoOp, Writing
  <2> QED
    BY <1>2, <2>3, <2>4 DEF Announce, PlaceInv, Bounded, Stored
<1>3. CASE Announced
  <2>1. op'.contact = NewContact /\ op'.pc \notin Writing
    BY <1>3 DEF Announced, NoOp, Writing
  <2> QED
    BY <1>3, <2>1, NewApart DEF Announced, PlaceInv, Bounded, Stored
<1>4. CASE Request
  <2>1. op'.contact = queued.contact /\ op'.pc \notin Writing /\ queued # Nothing
    BY <1>4 DEF Request, NoOp, Writing
  <2> QED
    BY <1>4, <2>1 DEF Request, PlaceInv, Bounded, Stored
<1>5. CASE Requested
  <2>1. op'.contact = NewContact /\ op'.pc \notin Writing
    BY <1>5 DEF Requested, NoOp, Writing
  <2>2. \A m \in Chats : chats'[m] \in {chats[m], Nothing}
    BY <1>5 DEF Requested, Delete
  <2>3. UNCHANGED <<contact, queued, decline, now, next, running>>
    BY <1>5 DEF Requested
  <2>4. Bounded' /\ \A k \in Stored' : chats'[k].at[1] <= now' /\ (running' => chats'[k].at[2] < next')
    BY <1>0, <2>2, <2>3, PlacesKept
  <2> QED
    BY <2>1, <2>3, <2>4, NewApart DEF PlaceInv
<1>6. CASE GiveUp
  BY <1>6 DEF GiveUp, PlaceInv, Bounded, Stored
<1>7. CASE Confirm
  <2>1. op'.contact = contact /\ op'.pc \notin Writing
    BY <1>7 DEF Confirm, NoOp, Writing
  <2>2. \A m \in Chats : chats'[m] \in {chats[m], Nothing}
    BY <1>7 DEF Confirm, Comply, Delete
  <2>3. UNCHANGED <<contact, queued, decline, now, next, running>>
    BY <1>7 DEF Confirm
  <2>4. Bounded' /\ \A k \in Stored' : chats'[k].at[1] <= now' /\ (running' => chats'[k].at[2] < next')
    BY <1>0, <2>2, <2>3, PlacesKept
  <2> QED
    BY <2>1, <2>3, <2>4 DEF PlaceInv
<1>8. CASE Confirmed
  <2>1. contact'.boundary = op.contact.boundary /\ contact'.covers = op.contact.covers
    BY <1>0, <1>8 DEF Confirmed, Operations, Contacts
  <2>2. Apart(contact')
    BY <2>1, ApartSame DEF PlaceInv
  <2>3. op'.contact = NewContact /\ op'.pc \notin Writing
    BY <1>8 DEF Confirmed, NoOp, Writing
  <2> QED
    BY <1>8, <2>2, <2>3, NewApart DEF Confirmed, PlaceInv, Bounded, Stored
<1>9. CASE BeginDecline
  BY <1>9 DEF BeginDecline, PlaceInv, Bounded, Stored
<1>10. CASE Decline
  <2>1. contact'.boundary = decline.boundary /\ contact'.covers = decline.covers
    BY <1>10 DEF Decline, Contacts, Typed, TypeOK
  <2>2. Apart(contact')
    BY <1>10, <2>1, ApartSame DEF PlaceInv, Decline
  <2> QED
    BY <1>10, <2>2 DEF Decline, PlaceInv, Bounded, Stored
<1> QED
  BY <1>1, <1>2, <1>3, <1>4, <1>5, <1>6, <1>7, <1>8, <1>9, <1>10 DEF User

LEMMA PlacesWhole ==
  ASSUME Typed, PlaceInv, Whole
  PROVE  PlaceInv'
<1> USE DEF diskVars, process, lockFree, history, bounds
<1>0. now \in Nat /\ next \in Nat /\ NoOp.contact = NewContact /\ NoOp.pc \notin Writing
  BY WipeAssumption DEF Typed, TypeOK, NoOp, Writing
<1>1. CASE Rotate \/ Swap \/ DestroyKeys
  BY <1>1 DEF Rotate, Swap, DestroyKeys, PlaceInv, Bounded, Stored
<1>2. CASE Shred
  <2>1. Stored' = {}
    BY <1>2 DEF Shred, Stored
  <2> QED
    BY <1>2, <2>1 DEF Shred, PlaceInv, Bounded
<1>3. CASE RemoveFile
  <2>1. Stored' = {}
    BY <1>3 DEF RemoveFile, Stored
  <2> QED
    BY <1>0, <1>3, <2>1, NewApart DEF RemoveFile, Stop, PlaceInv, Bounded
<1>4. CASE Crash
  BY <1>0, <1>4, NewApart DEF Crash, Stop, PlaceInv, Bounded, Stored
<1>5. CASE Open
  <2>1. next' \in Nat /\ \A m \in Stored : chats[m].at[2] < next'
    BY <1>5, RecoveredAbove DEF Open, PlaceInv, Bounded
  <2>2. op.pc \notin Writing
    BY <1>0, <1>5 DEF Open, Typed, TypeOK
  <2> QED
    BY <1>5, <2>1, <2>2 DEF Open, PlaceInv, Bounded, Stored
<1>6. CASE Tick
  <2>1. now' = now + 1 /\ UNCHANGED <<chats, contact, op, queued, decline, running, next>>
    BY <1>6 DEF Tick
  <2>2. /\ Bounded'
        /\ \A m \in Stored' : chats'[m].at[1] <= now' /\ (running' => chats'[m].at[2] < next')
        /\ running' /\ op.pc \in Writing => op.at[1] <= now' /\ op.at[2] < next'
    BY <1>0, <2>1, PlacesKept
  <2>3. op.pc \in Writing => running
    BY AtWork DEF Writing
  <2> QED
    BY <2>1, <2>2, <2>3 DEF PlaceInv
<1> QED
  BY <1>1, <1>2, <1>3, <1>4, <1>5, <1>6 DEF Whole

(* A chat the boundary of a policy covers is never in scope.               *)
LEMMA CoveredIsSpared ==
  ASSUME NEW c, Apart(c), Typed
  PROVE  RecordsOf(InScope(c)) \intersect c.covers = {}
<1>1. CASE c.boundary = Nothing
  BY <1>1 DEF Apart
<1>2. CASE c.boundary # Nothing
  <2>1. SUFFICES ASSUME NEW m \in InScope(c), <<m, chats[m].at>> \in c.covers PROVE FALSE
    BY DEF RecordsOf
  <2>2. AtOrAfter(chats[m].at, c.boundary)
    BY <1>2 DEF InScope
  <2> QED
    BY <1>2, <2>1, <2>2 DEF Apart
<1> QED
  BY <1>1, <1>2

LEMMA SparedKept ==
  ASSUME Typed, PlaceInv, ProtectedStays, Next
  PROVE  ProtectedStays'
<1>1. ASSUME NEW session, Comply(contact, session) PROVE overreach' = {}
  BY <1>1, CoveredIsSpared DEF Comply, PlaceInv, ProtectedStays
<1>2. CASE (\E full \in BOOLEAN : ApplyRequest(full)) \/ Confirm
  BY <1>1, <1>2 DEF ApplyRequest, Current, Confirm, ProtectedStays
<1>3. CASE UNCHANGED overreach
  BY <1>3 DEF ProtectedStays
<1> QED
  BY <1>2, <1>3 DEF Next, history, Send, PutSession, PutChat, Answered, Fails, BeginPass,
       EndPass, ApplyChat, ApplyPolicy, Load, Announce, Announced, Request, Requested, GiveUp,
       Confirmed, BeginDecline, Decline, Rotate, Swap, Shred, DestroyKeys, RemoveFile, Crash,
       Open, Tick


-----------------------------------------------------------------------------
(* A chat that was stored is opened again only if its pass was cut short.  *)
LEMMA SettledShrinks ==
  ASSUME Stored' \subseteq Stored, gone' \subseteq gone \union Stored \union {"session"},
         cut \subseteq cut'
  PROVE  Settled' \subseteq Settled
BY WipeAssumption DEF Settled, Chats

LEMMA SettledSame ==
  ASSUME UNCHANGED <<chats, gone>>, cut \subseteq cut' PROVE Settled' \subseteq Settled
BY DEF Settled, Stored

(* The operation goes on, in its pass or out of one.                       *)
LEMMA OpenedGoes ==
  ASSUME OpenedInv, Settled' \subseteq Settled, ratchet' \in {ratchet, Nothing},
         op.opened \subseteq op'.opened,
         op'.pc \notin {"idle", "confirmed"} => op.pc \notin {"idle", "confirmed"},
         op.pc \in InPass => op'.pc \in InPass,
         op'.pc \in Writing =>
           \/ op.pc \in Writing /\ op'.chat = op.chat
           \/ op'.pc \in InPass /\ op'.chat \in op'.opened,
         op'.wiped => op.wiped \/ ratchet' = Nothing
  PROVE  OpenedInv'
BY DEF OpenedInv

(* It ends, and what only it had opened is cut short.                      *)
LEMMA OpenedEnds ==
  ASSUME OpenedInv, Settled' \subseteq Settled, ratchet' \in {ratchet, Nothing}, op' = NoOp,
         ratchet' # Nothing /\ op.pc \in InPass => Settled' \intersect op.opened \subseteq ratchet.opened
  PROVE  OpenedInv'
<1>1. op'.pc = "idle" /\ ~op'.wiped /\ "idle" \notin Writing
  BY DEF NoOp, Writing
<1>2. ratchet' # Nothing => Settled' \subseteq ratchet'.opened
  BY DEF OpenedInv
<1> QED
  BY <1>1, <1>2 DEF OpenedInv

LEMMA OpenedDrops ==
  ASSUME OpenedInv, UNCHANGED <<chats, gone, ratchet>>, Dropped, op' = NoOp
  PROVE  OpenedInv'
<1>1. cut \subseteq cut' /\ (ratchet # Nothing => op.opened \ ratchet.opened \subseteq cut')
  BY DEF Dropped
<1>2. ratchet' # Nothing => Settled' \intersect op.opened \subseteq ratchet.opened
  BY <1>1 DEF Settled
<1> QED
  BY <1>1, <1>2, SettledSame, OpenedEnds

(* It begins with what the saved session has opened.                       *)
LEMMA OpenedBegins ==
  ASSUME OpenedInv, op.pc = "idle", ratchet # Nothing, UNCHANGED <<chats, gone, cut, ratchet>>,
         op'.opened = ratchet.opened, ~op'.wiped, op'.pc \in Writing => op'.chat \in Sent
  PROVE  OpenedInv'
<1>1. Settled' \subseteq Settled
  BY SettledSame
<1>2. "idle" \notin InPass
  BY DEF InPass
<1> QED
  BY <1>1, <1>2 DEF OpenedInv

LEMMA OpenedPuts ==
  ASSUME Typed, GoneInv, OpenedInv, (\E m \in Chats : Send(m)) \/ Puts
  PROVE  OpenedInv'
<1> USE DEF diskVars, process, lockFree, history, bounds
<1>0. op \in Operations /\ NoOp.pc = "idle" /\ ~NoOp.wiped
  BY DEF Typed, NoOp
<1>1. ASSUME NEW m \in Chats, Send(m) PROVE OpenedInv'
  BY <1>1, OpenedBegins DEF Send, Idle, Loadable, NoOp
<1>2. CASE PutSession
  <2>1. ~op.wiped /\ op.pc \notin {"idle", "confirmed"}
    BY <1>2 DEF PutSession, GoneInv
  <2>2. Settled' \subseteq Settled /\ Settled \subseteq op.opened /\ ratchet'.opened = op.opened
    BY <1>2, <2>1, SettledSame DEF PutSession, OpenedInv, Session
  <2>3. ~op'.wiped /\ (op'.pc \in Writing => op'.chat \in Sent)
    BY <1>0, <1>2, <2>1 DEF PutSession, AfterSession, Put, Await, NextEntry, Writing, InPass,
                            OpenedInv, Operations
  <2>4. op'.pc \notin {"idle", "confirmed"} => op'.opened = op.opened
    BY <1>0, <1>2 DEF PutSession, AfterSession, Put, Await, NextEntry, Operations
  <2> QED
    BY <2>2, <2>3, <2>4 DEF OpenedInv
<1>3. CASE PutChat
  <2>1. Settled' \subseteq Settled \union ({op.chat} \intersect Received)
    BY <1>3 DEF PutChat, Settled, Stored, Typed, TypeOK
  <2>2. op.pc \in Writing /\ UNCHANGED ratchet
    BY <1>3 DEF PutChat, Writing
  <2>3. CASE op.chat \in Sent
    <3>1. Settled' \subseteq Settled
      BY <2>1, <2>3, WipeAssumption
    <3>2. CASE op.pc = "send: again"
      BY <1>3, <2>2, <3>1, <3>2, OpenedEnds DEF PutChat, InPass
    <3>3. CASE op.pc # "send: again"
      BY <1>0, <1>3, <2>2, <3>1, <3>3, OpenedGoes DEF PutChat, Put, Await, InPass, Writing, Operations
    <3> QED
      BY <3>2, <3>3
  <2>4. CASE op.pc \in InPass /\ op.chat \in op.opened
    <3>1. op.pc \in {"pass: chat", "pass: id"}
      BY <1>3, <2>4 DEF PutChat, InPass
    <3>2. /\ op'.pc \in {"pass: id", "pass: await"} /\ op'.opened = op.opened
          /\ op'.chat = op.chat /\ op'.wiped = op.wiped
      BY <1>0, <1>3, <3>1 DEF PutChat, Put, Await, Operations
    <3>3. Settled' \subseteq op.opened
      BY <2>1, <2>4, <3>1 DEF OpenedInv
    <3> QED
      BY <2>2, <2>4, <3>2, <3>3 DEF OpenedInv, InPass
  <2> QED
    BY <2>2, <2>3, <2>4 DEF OpenedInv
<1>4. CASE Answered
  <2>1. Settled' \subseteq Settled /\ UNCHANGED ratchet
    BY <1>4, SettledSame DEF Answered
  <2>2. /\ op'.opened = op.opened /\ op'.wiped = op.wiped /\ op.pc \in {"send: await", "pass: await"}
        /\ \/ op'.pc = "send: again" /\ op.pc = "send: await" /\ op'.chat = op.chat
           \/ op'.pc \in {"pass", "receipt: session"}
    BY <1>0, <1>4 DEF Answered, Put, NextEntry, Operations
  <2> QED
    BY <2>1, <2>2, OpenedGoes DEF InPass, Writing
<1>5. CASE Fails
  BY <1>5, OpenedDrops DEF Fails
<1> QED
  BY <1>1, <1>2, <1>3, <1>4, <1>5 DEF Puts

LEMMA OpenedPass ==
  ASSUME Typed, GoneInv, OpenedInv, Pass
  PROVE  OpenedInv'
<1> USE DEF diskVars, process, lockFree, history, bounds
<1>0. op \in Operations /\ NoOp.pc = "idle" /\ ~NoOp.wiped
  BY DEF Typed, NoOp
<1>1. CASE BeginPass
  BY <1>1, OpenedBegins DEF BeginPass, Idle, Loadable, NoOp, Writing
<1>2. CASE EndPass
  <2>1. Settled' \subseteq Settled /\ UNCHANGED ratchet /\ op.pc = "pass"
    BY <1>2, SettledSame DEF EndPass
  <2>2. CASE op.wiped
    BY <1>2, <2>1, <2>2, OpenedEnds DEF EndPass, Ends, OpenedInv
  <2>3. CASE ~op.wiped
    <3>1. op'.pc = "end: session" /\ op'.opened = op.opened /\ ~op'.wiped
      BY <1>0, <1>2, <2>3 DEF EndPass, Ends, Put, Operations
    <3> QED
      BY <2>1, <3>1, OpenedGoes DEF InPass, Writing
  <2> QED
    BY <2>2, <2>3
<1>3. ASSUME NEW m \in Chats, ApplyChat(m) PROVE OpenedInv'
  <2>1. UNCHANGED <<chats, gone, ratchet>> /\ op.pc = "pass"
    BY <1>3 DEF ApplyChat
  <2>2. CASE op' = NoOp /\ Dropped
    BY <2>1, <2>2, OpenedDrops
  <2>3. CASE /\ op'.wiped = op.wiped /\ op'.chat = m /\ op'.opened = op.opened \union {m}
             /\ op'.pc \in {"pass: await", "pass: id", "pass: chat"} /\ UNCHANGED cut
    BY <2>1, <2>3, SettledSame, OpenedGoes DEF InPass
  <2> QED
    BY <1>3, <2>2, <2>3, ChatApplied
<1>4. ASSUME NEW ask, NEW full, ApplyPolicy(ask, full) PROVE OpenedInv'
  BY <1>4, SettledSame, OpenedGoes DEF ApplyPolicy
<1>5. ASSUME NEW full \in BOOLEAN, ApplyRequest(full) PROVE OpenedInv'
  <2>1. CASE UNCHANGED <<chats, ratchet, op, gone, cut>>
    BY <2>1, SettledSame, OpenedGoes
  <2>2. CASE /\ Comply(Current, Full(Current) \/ full)
             /\ op' = [op EXCEPT !.wiped = op.wiped \/ Full(Current) \/ full] /\ UNCHANGED cut
    <3> DEFINE session == Full(Current) \/ full
    <3>1. Delete(InScope(Current), session) /\ InScope(Current) \subseteq Stored
      BY <2>2, InScopeStored DEF Comply
    <3>2. op'.wiped = (op.wiped \/ session) /\ op'.pc = op.pc /\ op'.opened = op.opened
          /\ op'.chat = op.chat
      BY <1>0, <2>2 DEF Operations
    <3> HIDE DEF session
    <3>3. Settled' \subseteq Settled
      BY <2>2, <3>1, SettledShrinks DEF Delete, Stored
    <3>4. ratchet' \in {ratchet, Nothing} /\ (session => ratchet' = Nothing)
      BY <3>1 DEF Delete
    <3> QED
      BY <3>2, <3>3, <3>4, OpenedGoes
  <2>3. CASE UNCHANGED <<chats, ratchet, gone>> /\ Dropped /\ op' = NoOp
    BY <2>3, OpenedDrops
  <2> QED
    BY <1>5, <2>1, <2>2, <2>3 DEF ApplyRequest
<1> QED
  BY <1>1, <1>2, <1>3, <1>4, <1>5 DEF Pass

LEMMA OpenedUser ==
  ASSUME Typed, OpenedInv, User
  PROVE  OpenedInv'
<1> USE DEF diskVars, process, lockFree, history, bounds
<1>0. op \in Operations /\ NoOp.pc = "idle" /\ ~NoOp.wiped
  BY DEF Typed, NoOp
<1>1. CASE (\E kind \in {"policy", "request"} : Load(kind)) \/ GiveUp \/ BeginDecline \/ Decline
  <2>1. UNCHANGED <<chats, gone, cut, ratchet, op>>
    BY <1>1 DEF Load, GiveUp, BeginDecline, Decline
  <2> QED
    BY <2>1, SettledSame, OpenedGoes
<1>2. CASE (\E ask, full \in BOOLEAN : Announce(ask, full)) \/ Request
  <2>1. op.pc = "idle" /\ ratchet # Nothing /\ UNCHANGED <<chats, gone, cut, ratchet>>
    BY <1>2 DEF Announce, Request, Idle, Loadable
  <2>2. op'.opened = ratchet.opened /\ ~op'.wiped /\ op'.pc \notin Writing
    BY <1>2 DEF Announce, Request, NoOp, Writing
  <2> QED
    BY <2>1, <2>2, OpenedBegins
<1>3. CASE Announced \/ Confirmed
  <2>1. UNCHANGED <<chats, gone, cut, ratchet>> /\ op' = NoOp /\ op.pc \notin InPass
    BY <1>3 DEF Announced, Confirmed, InPass
  <2> QED
    BY <2>1, SettledSame, OpenedEnds
<1>4. CASE Requested
  <2>1. op' = NoOp /\ op.pc \notin InPass /\ UNCHANGED cut
    BY <1>4 DEF Requested, InPass
  <2>2. Settled' \subseteq Settled /\ ratchet' \in {ratchet, Nothing}
    <3>1. CASE Delete(Stored, Full(op.contact))
      BY <2>1, <3>1, SettledShrinks DEF Delete, Stored
    <3>2. CASE UNCHANGED <<chats, ratchet, gone>>
      BY <2>1, <3>2, SettledSame
    <3> QED
      BY <1>4, <3>1, <3>2 DEF Requested
  <2> QED
    BY <2>1, <2>2, OpenedEnds
<1>5. CASE Confirm
  <2>1. Delete(InScope(contact), Full(contact)) /\ UNCHANGED cut /\ InScope(contact) \subseteq Stored
    BY <1>5, InScopeStored DEF Confirm, Comply
  <2>2. Settled' \subseteq Settled /\ ratchet' \in {ratchet, Nothing}
    BY <2>1, SettledShrinks DEF Delete, Stored
  <2>3. op.pc = "idle" /\ op'.pc = "confirmed" /\ ~op'.wiped
    BY <1>5 DEF Confirm, Idle, NoOp
  <2> QED
    BY <2>2, <2>3 DEF OpenedInv, InPass, Writing
<1> QED
  BY <1>1, <1>2, <1>3, <1>4, <1>5 DEF User

LEMMA OpenedWhole ==
  ASSUME Typed, OpenedInv, Whole
  PROVE  OpenedInv'
<1> USE DEF diskVars, process, lockFree, history, bounds
<1>1. CASE Rotate \/ Swap \/ DestroyKeys \/ Open \/ Tick
  <2>1. UNCHANGED <<chats, cut, ratchet, op>> /\ gone' \subseteq gone \union Stored \union {"session"}
    BY <1>1 DEF Rotate, Swap, DestroyKeys, Open, Tick, Everything
  <2>2. Settled' \subseteq Settled
    BY <2>1, SettledShrinks DEF Stored
  <2> QED
    BY <2>1, <2>2, OpenedGoes
<1>2. CASE Shred
  <2>1. Stored' = {} /\ ratchet' = Nothing /\ UNCHANGED <<gone, cut, op>>
    BY <1>2 DEF Shred, Stored
  <2>2. Settled' \subseteq Settled
    BY <2>1 DEF Settled
  <2> QED
    BY <2>1, <2>2, OpenedGoes
<1>3. CASE RemoveFile
  <2>1. Stored' = {} /\ ratchet' = Nothing /\ UNCHANGED <<gone, cut>> /\ op' = NoOp
    BY <1>3 DEF RemoveFile, Stop, Stored
  <2>2. Settled' \subseteq Settled
    BY <2>1 DEF Settled
  <2> QED
    BY <2>1, <2>2, OpenedEnds
<1>4. CASE Crash
  BY <1>4, OpenedDrops DEF Crash, Stop
<1> QED
  BY <1>1, <1>2, <1>3, <1>4 DEF Whole

-----------------------------------------------------------------------------
(* What is wiped and what an operation can put back. WipedStaysGone says   *)
(* of an open file that neither a chat nor the session can be read again,  *)
(* unless it was held, or its pass was cut short.                          *)
ChatsLast == \A m \in Stored : chats[m].key = dek /\ m \in gone => m \in held \union cut
SessionLasts == ratchet # Nothing /\ ratchet.key = dek /\ "session" \in gone => "session" \in held

LEMMA Lasting == Typed /\ WipedStaysGone /\ file = "open" => ChatsLast /\ SessionLasts
BY WipeAssumption DEF WipedStaysGone, Readable, ChatsLast, SessionLasts, Typed, TypeOK, Chats

LEMMA LastingAfter ==
  (file' = "open" => ChatsLast' /\ SessionLasts') => WipedStaysGone'
BY DEF WipedStaysGone, Readable, ChatsLast, SessionLasts

LEMMA NothingGone == Typed => Nothing \notin gone /\ Nothing # "session"
BY WipeAssumption DEF Typed, TypeOK, Chats

(* A session an operation can load is not wiped, but for one held.         *)
LEMMA LoadedSession ==
  ASSUME Typed, WipedStaysGone, running, Loadable(ratchet), file = "open", shred # "rotated",
         "session" \in gone
  PROVE  "session" \in held
<1>1. key = dek
  BY DEF Typed, TypeOK
<1> QED
  BY <1>1, Lasting DEF Loadable, SessionLasts

(* The start of an operation that loaded the session.                      *)
LEMMA GoneBegins ==
  ASSUME Typed, WipedStaysGone, running, Loadable(ratchet),
         UNCHANGED <<file, dek, chats, ratchet, shred, gone, held, cut>>,
         ~op'.wiped, op'.chat \notin gone, op'.pc = "pass" => op'.chat = Nothing
  PROVE  GoneInv' /\ WipedStaysGone'
<1>1. WipedStaysGone'
  BY DEF WipedStaysGone, Readable, Stored
<1>2. file = "open" /\ shred # "rotated" /\ "session" \in gone => "session" \in held
  BY LoadedSession
<1> QED
  BY <1>1, <1>2 DEF GoneInv

(* The end of one, or a step that leaves the operation alone, with records *)
(* deleted and what is deleted counted.                                    *)
LEMMA GoneDeletes ==
  ASSUME Typed, WipedStaysGone, NEW ms \in SUBSET Chats, NEW session \in BOOLEAN,
         Delete(ms, session), UNCHANGED <<file, dek, held, cut>>
  PROVE  WipedStaysGone'
<1>1. SUFFICES ASSUME file = "open" PROVE ChatsLast' /\ SessionLasts'
  BY LastingAfter
<1>2. ASSUME NEW m \in Stored', chats'[m].key = dek, m \in gone' PROVE m \in held \union cut
  <2>1. m \in Stored /\ chats'[m] = chats[m] /\ m \notin ms /\ m # "session"
    BY WipeAssumption DEF Delete, Stored, Chats
  <2>2. m \in gone
    BY <1>2, <2>1 DEF Delete
  <2> QED
    BY <1>1, <1>2, <2>1, <2>2, Lasting DEF ChatsLast
<1>3. CASE session
  BY <1>2, <1>3 DEF Delete, ChatsLast, SessionLasts
<1>4. CASE ~session
  <2>1. ratchet' = ratchet /\ ("session" \in gone' => "session" \in gone)
    BY <1>4, WipeAssumption DEF Delete, Chats
  <2> QED
    BY <1>1, <1>2, <2>1, Lasting DEF ChatsLast, SessionLasts
<1> QED
  BY <1>3, <1>4

(* A step that changes nothing of this, or cuts a pass short.              *)
LEMMA GoneSame ==
  ASSUME WipedStaysGone, UNCHANGED <<file, dek, chats, ratchet, gone, held>>, cut \subseteq cut'
  PROVE  WipedStaysGone'
BY DEF WipedStaysGone, Readable, Stored

LEMMA GonePuts ==
  ASSUME Typed, KeyInv, GoneInv, WipedStaysGone, (\E m \in Chats : Send(m)) \/ Puts
  PROVE  GoneInv' /\ WipedStaysGone'
<1> USE DEF diskVars, process, lockFree, history, bounds
<1>0. op \in Operations /\ NoOp.pc = "idle" /\ ~NoOp.wiped
  BY DEF Typed, NoOp
<1>1. ASSUME NEW m \in Chats, Send(m) PROVE GoneInv' /\ WipedStaysGone'
  <2>1. running /\ Loadable(ratchet) /\ UNCHANGED <<file, dek, chats, ratchet, shred, gone, held, cut>>
    BY <1>1 DEF Send, Idle
  <2>2. ~op'.wiped /\ op'.chat = m /\ m \notin gone /\ op'.pc # "pass"
    BY <1>1 DEF Send, NoOp
  <2> QED
    BY <2>1, <2>2, GoneBegins
<1>2. CASE PutSession
  <2>1. UNCHANGED <<file, dek, chats, shred, gone, held, cut>> /\ ratchet' = Session(op.key, op.opened)
    BY <1>2 DEF PutSession
  <2>2. op.pc \notin {"idle", "pass", "pass: chat", "pass: await", "confirmed"} /\ ~op.wiped
    BY <1>2 DEF PutSession, GoneInv
  <2>3. ratchet'.key = op.key
    BY <2>1 DEF Session
  <2>4. ~op'.wiped /\ op'.chat \in {op.chat, Nothing} /\ (op'.pc = "pass" => op'.chat = Nothing)
    BY <1>2, <2>2, AfterPut
  <2>5. op.key = dek => shred # "rotated"
    BY DEF KeyInv, Typed, TypeOK, Operations
  <2>6. file = "open" /\ shred # "rotated" /\ "session" \in gone => "session" \in held
    BY <2>2 DEF GoneInv
  <2>7. GoneInv'
    BY <2>1, <2>2, <2>4, <2>6, NothingGone DEF GoneInv
  <2>8. file = "open" => ChatsLast' /\ SessionLasts'
    BY <2>1, <2>3, <2>5, <2>6, Lasting DEF ChatsLast, SessionLasts, Stored
  <2> QED
    BY <2>1, <2>7, <2>8, LastingAfter
<1>3. CASE PutChat
  <2>1. UNCHANGED <<file, dek, ratchet, shred, gone, held, cut>>
        /\ chats' = [chats EXCEPT ![op.chat] = Chat(op.key, op.at, op.pc = "pass: id")]
    BY <1>3 DEF PutChat
  <2>2. op.pc \in {"send: chat", "send: again", "pass: chat", "pass: id"}
    BY <1>3 DEF PutChat
  <2>3. op.key = dek => shred # "rotated"
    BY DEF KeyInv, Typed, TypeOK, Operations
  <2>4. file = "open" /\ shred # "rotated" /\ op.chat \in gone => op.chat \in held \union cut
    BY <2>2 DEF GoneInv
  <2>5. op' = NoOp \/ (/\ op'.wiped = op.wiped /\ op'.chat = op.chat
                       /\ \/ op.pc = "send: chat" /\ op'.pc = "send: await"
                          \/ /\ op.pc \in {"pass: chat", "pass: id"}
                             /\ op'.pc \in {"pass: id", "pass: await"})
    BY <1>0, <1>3 DEF PutChat, Await, Put, Operations
  <2>6. GoneInv'
    BY <1>0, <2>1, <2>2, <2>5 DEF GoneInv
  <2>7. ASSUME file = "open", NEW m \in Stored', chats'[m].key = dek, m \in gone
        PROVE  m \in held \union cut
    <3>1. CASE m = op.chat
      <4>1. chats'[m].key = op.key
        BY <2>1, <3>1 DEF Chat, Typed, TypeOK, Stored
      <4> QED
        BY <2>3, <2>4, <2>7, <3>1, <4>1
    <3>2. CASE m # op.chat
      <4>1. chats'[m] = chats[m] /\ m \in Stored
        BY <2>1, <3>2 DEF Typed, TypeOK, Stored
      <4> QED
        BY <2>7, <4>1, Lasting DEF ChatsLast
    <3> QED
      BY <3>1, <3>2
  <2>8. file = "open" => ChatsLast' /\ SessionLasts'
    BY <2>1, <2>7, Lasting DEF ChatsLast, SessionLasts
  <2> QED
    BY <2>1, <2>6, <2>8, LastingAfter
<1>4. CASE Answered
  <2>1. UNCHANGED <<file, dek, chats, ratchet, shred, gone, held, cut>>
    BY <1>4 DEF Answered
  <2>2. WipedStaysGone'
    BY <2>1, GoneSame
  <2>3. /\ op'.wiped = op.wiped /\ op'.chat \in {op.chat, Nothing}
        /\ op.pc \in {"send: await", "pass: await"}
        /\ \/ op'.pc = "send: again" /\ op.pc = "send: await"
           \/ op'.pc = "pass" /\ op'.chat = Nothing
           \/ op'.pc = "receipt: session" /\ ~op.wiped
    BY <1>0, <1>4 DEF Answered, Put, NextEntry, Operations
  <2> QED
    BY <2>1, <2>2, <2>3, NothingGone DEF GoneInv
<1>5. CASE Fails
  <2>1. UNCHANGED <<file, dek, chats, ratchet, shred, gone, held>> /\ cut \subseteq cut' /\ op' = NoOp
    BY <1>5 DEF Fails, Dropped
  <2> QED
    BY <1>0, <2>1, GoneSame DEF GoneInv
<1> QED
  BY <1>1, <1>2, <1>3, <1>4, <1>5 DEF Puts

LEMMA GonePass ==
  ASSUME Typed, KeyInv, OpenedInv, GoneInv, WipedStaysGone, Pass
  PROVE  GoneInv' /\ WipedStaysGone'
<1> USE DEF diskVars, process, lockFree, history, bounds
<1>0. op \in Operations /\ NoOp.pc = "idle" /\ ~NoOp.wiped /\ NoOp.chat = Nothing
  BY DEF Typed, NoOp
<1>1. CASE BeginPass
  <2>1. running /\ Loadable(ratchet) /\ UNCHANGED <<file, dek, chats, ratchet, shred, gone, held, cut>>
    BY <1>1 DEF BeginPass, Idle
  <2>2. ~op'.wiped /\ op'.chat = Nothing
    BY <1>1 DEF BeginPass, NoOp
  <2> QED
    BY <2>1, <2>2, GoneBegins, NothingGone
<1>2. CASE EndPass
  <2>1. UNCHANGED <<file, dek, chats, ratchet, shred, gone, held, cut>> /\ op.pc = "pass"
    BY <1>2 DEF EndPass
  <2>2. op' = NoOp \/ (~op.wiped /\ ~op'.wiped /\ op'.chat = op.chat /\ op'.pc = "end: session")
    BY <1>0, <1>2 DEF EndPass, Ends, Put, Operations
  <2> QED
    BY <1>0, <2>1, <2>2, GoneSame DEF GoneInv
<1>3. ASSUME NEW m \in Chats, ApplyChat(m) PROVE GoneInv' /\ WipedStaysGone'
  <2>1. UNCHANGED <<file, dek, chats, ratchet, shred, gone, held>> /\ op.pc = "pass"
        /\ m \in Received \ op.opened
    BY <1>3 DEF ApplyChat
  <2>2. CASE op' = NoOp /\ Dropped
    BY <1>0, <2>1, <2>2, GoneSame DEF Dropped, GoneInv
  <2>3. CASE /\ op'.wiped = op.wiped /\ op'.chat = m /\ UNCHANGED cut
             /\ op'.pc \in {"pass: await", "pass: id", "pass: chat"}
    <3>1. m \in gone => m \in cut
      BY <2>1 DEF OpenedInv, Settled
    <3> QED
      BY <2>1, <2>3, <3>1, GoneSame DEF GoneInv
  <2> QED
    BY <1>3, <2>2, <2>3, ChatApplied
<1>4. ASSUME NEW ask, NEW full, ApplyPolicy(ask, full) PROVE GoneInv' /\ WipedStaysGone'
  BY <1>4, GoneSame DEF ApplyPolicy, GoneInv
<1>5. ASSUME NEW full \in BOOLEAN, ApplyRequest(full) PROVE GoneInv' /\ WipedStaysGone'
  <2>1. UNCHANGED <<file, dek, shred, held>> /\ op.pc = "pass" /\ op.chat = Nothing
    BY <1>5 DEF ApplyRequest, GoneInv
  <2>2. CASE UNCHANGED <<chats, ratchet, op, gone, cut>>
    BY <2>1, <2>2, GoneSame DEF GoneInv
  <2>3. CASE /\ Comply(Current, Full(Current) \/ full)
             /\ op' = [op EXCEPT !.wiped = op.wiped \/ Full(Current) \/ full] /\ UNCHANGED cut
    <3> DEFINE session == Full(Current) \/ full
    <3>1. session \in BOOLEAN /\ InScope(Current) \in SUBSET Chats
          /\ Delete(InScope(Current), session)
      BY <2>3, InScopeStored DEF Comply
    <3>2. op'.wiped = (op.wiped \/ session) /\ op'.pc = "pass" /\ op'.chat = Nothing
      BY <1>0, <2>1, <2>3 DEF Operations
    <3> HIDE DEF session
    <3>3. WipedStaysGone'
      BY <2>1, <2>3, <3>1, GoneDeletes
    <3>4. Nothing \notin gone'
      BY <3>1, DeleteType, WipeAssumption
    <3>5. "session" \in gone' => "session" \in gone \/ session
      BY <3>1, WipeAssumption DEF Delete
    <3> QED
      BY <2>1, <2>3, <3>2, <3>3, <3>4, <3>5 DEF GoneInv
  <2>4. CASE UNCHANGED <<chats, ratchet, gone>> /\ Dropped /\ op' = NoOp
    BY <1>0, <2>1, <2>4, GoneSame DEF Dropped, GoneInv
  <2> QED
    BY <1>5, <2>2, <2>3, <2>4 DEF ApplyRequest
<1> QED
  BY <1>1, <1>2, <1>3, <1>4, <1>5 DEF Pass

LEMMA GoneUser ==
  ASSUME Typed, KeyInv, GoneInv, WipedStaysGone, User
  PROVE  GoneInv' /\ WipedStaysGone'
<1> USE DEF diskVars, process, lockFree, history, bounds
<1>0. op \in Operations /\ NoOp.pc = "idle" /\ ~NoOp.wiped /\ NoOp.chat = Nothing
  BY DEF Typed, NoOp
<1>1. CASE (\E kind \in {"policy", "request"} : Load(kind)) \/ GiveUp \/ BeginDecline \/ Decline
  <2>1. UNCHANGED <<file, dek, chats, ratchet, shred, gone, held, cut, op>>
    BY <1>1 DEF Load, GiveUp, BeginDecline, Decline
  <2> QED
    BY <2>1, GoneSame DEF GoneInv
<1>2. CASE (\E ask, full \in BOOLEAN : Announce(ask, full)) \/ Request
  <2>1. running /\ Loadable(ratchet) /\ UNCHANGED <<file, dek, chats, ratchet, shred, gone, held, cut>>
    BY <1>2 DEF Announce, Request, Idle
  <2>2. ~op'.wiped /\ op'.chat = Nothing
    BY <1>2 DEF Announce, Request, NoOp
  <2> QED
    BY <2>1, <2>2, GoneBegins, NothingGone
<1>3. CASE Announced \/ Confirmed
  <2>1. UNCHANGED <<file, dek, chats, ratchet, shred, gone, held, cut>> /\ op' = NoOp
    BY <1>3 DEF Announced, Confirmed
  <2> QED
    BY <1>0, <2>1, GoneSame DEF GoneInv
<1>4. CASE Requested
  <2>1. Stored \in SUBSET Chats /\ Full(op.contact) \in BOOLEAN
    BY DEF Stored, Full, Typed, TypeOK, Contacts
  <2>2. UNCHANGED <<file, dek, held, cut>> /\ op' = NoOp
    BY <1>4 DEF Requested
  <2>3. CASE Delete(Stored, Full(op.contact))
    BY <1>0, <2>1, <2>2, <2>3, GoneDeletes DEF GoneInv
  <2>4. CASE UNCHANGED <<chats, ratchet, gone>>
    BY <1>0, <2>2, <2>4, GoneSame DEF GoneInv
  <2> QED
    BY <1>4, <2>3, <2>4 DEF Requested
<1>5. CASE Confirm
  <2>1. InScope(contact) \in SUBSET Chats /\ Full(contact) \in BOOLEAN
    BY InScopeStored DEF Full, Typed, TypeOK, Contacts
  <2>2. Delete(InScope(contact), Full(contact)) /\ UNCHANGED <<file, dek, held, cut>>
    BY <1>5 DEF Confirm, Comply
  <2>3. WipedStaysGone'
    BY <2>1, <2>2, GoneDeletes
  <2>4. op'.pc = "confirmed" /\ ~op'.wiped /\ op'.chat = Nothing
    BY <1>5 DEF Confirm, NoOp
  <2>5. Nothing \notin gone'
    BY <2>1, <2>2, DeleteType, WipeAssumption
  <2> QED
    BY <2>3, <2>4, <2>5 DEF GoneInv
<1> QED
  BY <1>1, <1>2, <1>3, <1>4, <1>5 DEF User

LEMMA GoneWhole ==
  ASSUME Typed, KeyInv, GoneInv, WipedStaysGone, Whole
  PROVE  GoneInv' /\ WipedStaysGone'
<1> USE DEF diskVars, process, lockFree, history, bounds
<1>0. op \in Operations /\ NoOp.pc = "idle" /\ ~NoOp.wiped /\ NoOp.chat = Nothing
  BY DEF Typed, NoOp
<1>1. CASE Rotate
  <2>1. dek' = dek + 1 /\ shred' = "rotated" /\ UNCHANGED <<chats, ratchet, op>>
    BY <1>1 DEF Rotate, Rotated
  <2>2. \A m \in Stored' : chats'[m].key # dek'
    <3>1. \A m \in Stored : chats[m].key \in Nat /\ dek \in Nat
      BY DEF Stored, Typed, TypeOK, ChatRecords
    <3> QED
      BY <2>1, <3>1 DEF KeyInv, Stored
  <2>3. ratchet' # Nothing => ratchet'.key # dek'
    <3>1. ratchet # Nothing => ratchet.key \in Nat /\ dek \in Nat
      BY DEF Typed, TypeOK, SessionRecords
    <3> QED
      BY <2>1, <3>1 DEF KeyInv
  <2>4. WipedStaysGone'
    BY <2>2, <2>3, LastingAfter DEF ChatsLast, SessionLasts
  <2> QED
    BY <2>1, <2>4 DEF GoneInv
<1>2. CASE Swap
  <2>1. held' = held \union Held /\ UNCHANGED <<file, dek, chats, ratchet, gone, cut, op>>
    BY <1>2 DEF Swap
  <2>2. WipedStaysGone'
    BY <2>1 DEF WipedStaysGone, Readable, Stored
  <2>3. op.pc # "idle" => "session" \in held' /\ (op.chat \in gone => op.chat \in held')
    BY <2>1, NothingGone, WipeAssumption DEF Held
  <2> QED
    BY <2>1, <2>2, <2>3 DEF GoneInv
<1>3. CASE Shred
  <2>1. Stored' = {} /\ ratchet' = Nothing
    BY <1>3 DEF Shred, Stored
  <2>2. WipedStaysGone'
    BY <2>1 DEF WipedStaysGone, Readable
  <2> QED
    BY <1>3, <2>2 DEF Shred, GoneInv
<1>4. CASE DestroyKeys
  BY <1>4 DEF DestroyKeys, WipedStaysGone, Readable, GoneInv
<1>5. CASE RemoveFile \/ Crash
  <2>1. op' = NoOp
    BY <1>5 DEF RemoveFile, Crash, Stop
  <2>2. WipedStaysGone'
    <3>1. CASE RemoveFile
      BY <3>1 DEF RemoveFile, WipedStaysGone, Readable
    <3>2. CASE Crash
      BY <3>2, GoneSame DEF Crash, Dropped
    <3> QED
      BY <1>5, <3>1, <3>2
  <2> QED
    BY <1>0, <2>1, <2>2 DEF GoneInv
<1>6. CASE Open \/ Tick
  <2>1. UNCHANGED <<file, dek, chats, ratchet, shred, gone, held, cut, op>>
    BY <1>6 DEF Open, Tick
  <2> QED
    BY <2>1, GoneSame DEF GoneInv
<1> QED
  BY <1>1, <1>2, <1>3, <1>4, <1>5, <1>6 DEF Whole

-----------------------------------------------------------------------------
(* The invariant holds at the start and over every step.                   *)
LEMMA WipeStart == Init => WipeInv
<1> SUFFICES ASSUME Init PROVE WipeInv
  OBVIOUS
<1> USE WipeAssumption DEF Init
<1>1. Typed
  BY Starts DEF Typed, TypeOK, Session, SessionRecords, NoOp, Operations
<1>2. Stored = {} /\ NoOp.pc = "idle" /\ NoOp.key = 0 /\ ~NoOp.wiped /\ NoOp.contact = NewContact
  BY DEF Stored, NoOp
<1>3. KeyInv
  BY <1>2, Something DEF KeyInv, Session
<1>4. OpenedInv /\ GoneInv /\ WipedStaysGone /\ ProtectedStays
  BY <1>2 DEF OpenedInv, Settled, Writing, GoneInv, WipedStaysGone, Readable, ProtectedStays
<1>5. PlaceInv
  BY <1>2, NewApart DEF PlaceInv, Bounded, Writing
<1> QED
  BY <1>1, <1>3, <1>4, <1>5 DEF WipeInv

LEMMA WipeStep == WipeInv /\ [Next]_vars => WipeInv'
<1> SUFFICES ASSUME WipeInv, [Next]_vars PROVE WipeInv'
  OBVIOUS
<1>1. CASE UNCHANGED vars
  <2>0. Typed'
    BY <1>1 DEF WipeInv, vars, diskVars, process, lockFree, history, bounds, Typed, TypeOK
  <2>1. KeyInv' /\ OpenedInv' /\ GoneInv'
    BY <1>1 DEF WipeInv, vars, diskVars, process, lockFree, history, bounds, KeyInv, OpenedInv,
                Settled, GoneInv, Stored
  <2>2. PlaceInv' /\ WipedStaysGone' /\ ProtectedStays'
    BY <1>1 DEF WipeInv, vars, diskVars, process, lockFree, history, bounds, PlaceInv, Bounded,
                WipedStaysGone, Readable, ProtectedStays, Stored
  <2> QED
    BY <2>0, <2>1, <2>2 DEF WipeInv
<1>2. CASE Next
  <2> USE DEF WipeInv
  <2>1. Typed'
    BY <1>2, StepKinds, TypedSend, TypedPuts, TypedPass, TypedUser, TypedWhole DEF PlaceInv
  <2>2. KeyInv'
    BY <1>2, KeysKept
  <2>3. OpenedInv'
    BY <1>2, StepKinds, OpenedPuts, OpenedPass, OpenedUser, OpenedWhole
  <2>4. GoneInv' /\ WipedStaysGone'
    BY <1>2, StepKinds, GonePuts, GonePass, GoneUser, GoneWhole
  <2>5. PlaceInv'
    BY <1>2, StepKinds, PlacesOp, PlacesPass, PlacesUser, PlacesWhole
  <2>6. ProtectedStays'
    BY <1>2, SparedKept
  <2> QED
    BY <2>1, <2>2, <2>3, <2>4, <2>5, <2>6
<1> QED
  BY <1>1, <1>2

THEOREM WipeInvariant == Spec => []WipeInv
BY WipeStart, WipeStep, PTL DEF Spec

(* Every variable has its type; an app that is not running has no          *)
(* operation, and its key is the one on disk but in the middle of a quick  *)
(* wipe.                                                                   *)
THEOREM WipeTyped == Spec => []TypeOK
<1>1. WipeInv => TypeOK
  BY DEF WipeInv, Typed
<1> QED
  BY <1>1, WipeInvariant, PTL

(* Whatever is interrupted, and whatever operation is under way, nothing   *)
(* wiped is readable again but what that operation held in memory when a   *)
(* quick wipe struck, and a chat whose pass ended after storing it and     *)
(* before saving the session: the next pass opens and stores it again.     *)
THEOREM WipedGone == Spec => []WipedStaysGone
<1>1. WipeInv => WipedStaysGone
  BY DEF WipeInv
<1> QED
  BY <1>1, WipeInvariant, PTL

(* A request of the peer never removes a chat that was stored when the     *)
(* policy on record was processed.                                         *)
THEOREM ProtectedKept == Spec => []ProtectedStays
<1>1. WipeInv => ProtectedStays
  BY DEF WipeInv
<1> QED
  BY <1>1, WipeInvariant, PTL

(* While both sides want to be asked, no step of a receive pass removes a  *)
(* chat.                                                                   *)
LEMMA AskedStep ==
  ASSUME Typed, Next, op.pc = "pass", op'.pc = "pass", UNCHANGED shred, Asks(contact)
  PROVE  UNCHANGED chats
<1> USE DEF diskVars, process, lockFree, history, bounds
<1>1. NoOp.pc = "idle"
  BY DEF NoOp
<1>2. CASE (\E m \in Chats : Send(m)) \/ Puts
  BY <1>2 DEF Send, Idle, Puts, PutSession, PutChat, Answered, Fails
<1>3. CASE Pass
  BY <1>3 DEF Pass, BeginPass, EndPass, ApplyChat, ApplyPolicy, ApplyRequest, Current
<1>4. CASE User
  BY <1>1, <1>4 DEF User, Load, Announce, Announced, Request, Requested, GiveUp, Confirm, Confirmed,
                    BeginDecline, Decline, Idle
<1>5. CASE Whole
  BY <1>1, <1>5 DEF Whole, Rotate, Swap, Shred, DestroyKeys, RemoveFile, Stop, Crash, Open, Tick
<1> QED
  BY <1>2, <1>3, <1>4, <1>5, StepKinds

THEOREM AskedFirstAlways == Spec => AskedFirst
<1>1. WipeInv /\ [Next]_vars
        => [op.pc = "pass" /\ op'.pc = "pass" /\ UNCHANGED shred /\ Asks(contact)
              => UNCHANGED chats]_vars
  BY AskedStep DEF WipeInv
<1> QED
  BY <1>1, WipeInvariant, PTL DEF Spec, AskedFirst
=============================================================================
