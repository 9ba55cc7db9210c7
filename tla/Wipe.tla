-------------------------------- MODULE Wipe --------------------------------
(***************************************************************************)
(* What a device deletes, and keeps deleted: the wipe of one conversation  *)
(* at the peer's request or the user's (wipe_policy.rs, apply_entry,       *)
(* confirm_pending_wipe, request_conversation_wipe), and the quick and     *)
(* full wipe of everything (db.rs), against the operations that go on      *)
(* meanwhile, crashes, and the next opening of the database.               *)
(*                                                                         *)
(* One conversation of one device.  Operations that hold the session lock  *)
(* run one at a time, in stretches between two awaits or two commits; the  *)
(* quick and the full wipe and decline_pending_wipe take no lock.  A put   *)
(* seals under the key in memory when it starts, and commits later.  The   *)
(* peer is whatever the relay delivers; the contact is Verified.           *)
(***************************************************************************)
EXTENDS Naturals, FiniteSets, FiniteSetsExt

CONSTANTS Sent, Received, \* ids of the chats the user may send and receive
          MaxTime, MaxRequests, MaxCommands, MaxWipes, MaxFaults \* bounds

Chats == Sent \union Received
Nothing == <<>>

ASSUME WipeAssumption ==
  /\ Sent \intersect Received = {}
  /\ "session" \notin Chats \union {Nothing} /\ Nothing \notin Chats
  /\ MaxTime \in Nat /\ MaxRequests \in Nat /\ MaxCommands \in Nat
  /\ MaxWipes \in Nat /\ MaxFaults \in Nat

VARIABLES
  file,     \* disk: "open", "shut" once its salt is destroyed, or "gone"
  dek,      \* disk: the content key, wrapped
  chats,    \* disk: the stored record of each chat
  ratchet,  \* disk: the session's record
  contact,  \* disk: the contact's record
  running,
  key,      \* memory: the content key
  next,     \* memory: message_sequence
  op,       \* memory: the operation holding the session lock
  queued,   \* memory: a command waiting for it, with the contact it loaded
  decline,  \* memory: the contact decline_pending_wipe loaded
  shred,    \* memory: where a quick or full wipe stands
  now,      \* the clock, in seconds
  gone,     \* history: what a wipe removed
  held,     \* history: what an operation held when a quick wipe struck
  cut,      \* history: chats opened by a pass that ended without saving so
  overreach, \* history: protected records removed at the peer's request
  requests, commands, wipes, faults

diskVars == <<file, dek, chats, ratchet, contact>>
process == <<running, key, next>>
lockFree == <<decline, shred>>
history == <<gone, held, cut, overreach>>
bounds == <<requests, commands, wipes, faults>>
vars == <<diskVars, process, op, queued, lockFree, now, history, bounds>>

-----------------------------------------------------------------------------
(* A record names the key it is sealed under. A chat is ordered by the     *)
(* second and the sequence number it was saved with; a received one is     *)
(* named once its message id is saved with it.                             *)
Chat(k, at, named) == [key |-> k, at |-> at, named |-> named]
Session(k, opened) == [key |-> k, opened |-> opened]
AtOrAfter(a, b) == a[1] > b[1] \/ (a[1] = b[1] /\ a[2] >= b[2])

Stored == {m \in Chats : chats[m] # Nothing}
Loadable(r) == r # Nothing /\ r.key = key
RecordsOf(ms) == {<<m, chats[m].at>> : m \in ms}
AllLoad == \A m \in Stored : chats[m].key = key

(* The contact: this side's preferences, those the peer announced, whether *)
(* a request waits for the user, and the boundary: the position at which   *)
(* the announcement was processed, and (history) the records stored then.  *)
NewContact == [ask |-> FALSE, full |-> FALSE, peerAsk |-> FALSE, peerFull |-> FALSE,
               pending |-> FALSE, boundary |-> Nothing, covers |-> {}]
Asks(c) == c.ask /\ c.peerAsk
Full(c) == c.full \/ c.peerFull

(* An operation: its place, the contact and the session it works on, the   *)
(* chat and the key of the put it is in, and whether it wiped the session. *)
NoOp == [pc |-> "idle", contact |-> NewContact, opened |-> {}, chat |-> Nothing,
         at |-> <<0, 0>>, key |-> 0, wiped |-> FALSE]
Idle == running /\ op.pc = "idle"
\* op goes on at pc: at a put, which seals under the key now in memory, at a
\* wait, or with the next entry of the pass.
Put(pc) == [op EXCEPT !.pc = pc, !.key = key]
Await(pc) == [op EXCEPT !.pc = pc, !.key = 0]
NextEntry == [op EXCEPT !.pc = "pass", !.key = 0, !.chat = Nothing, !.at = <<0, 0>>]

Init ==
  /\ file = "open" /\ dek = 1
  /\ chats = [m \in Chats |-> Nothing]
  /\ ratchet = Session(1, {}) /\ contact = NewContact
  /\ running = TRUE /\ key = 1 /\ next = 0
  /\ op = NoOp /\ queued = Nothing /\ decline = Nothing /\ shred = "no"
  /\ now = 0
  /\ gone = {} /\ held = {} /\ cut = {} /\ overreach = {}
  /\ requests = 0 /\ commands = 0 /\ wipes = 0 /\ faults = 0

Fault == faults < MaxFaults /\ faults' = faults + 1

(* An operation that ends before it saves its session: what it opened the  *)
(* saved session can open again.                                           *)
Dropped == cut' = cut \union (IF ratchet = Nothing THEN {} ELSE op.opened \ ratchet.opened)

-----------------------------------------------------------------------------
(* Sending a chat (send_message, transmit_chat): the session is saved,     *)
(* then the chat; the relay answers; the chat is saved again.              *)
Send(m) ==
  /\ Idle /\ m \in Sent /\ m \notin Stored \union gone /\ Loadable(ratchet)
  /\ op' = [NoOp EXCEPT !.pc = "send: session", !.opened = ratchet.opened,
                        !.chat = m, !.at = <<now, next>>, !.key = key]
  /\ next' = next + 1
  /\ UNCHANGED <<diskVars, running, key, queued, lockFree, now, history,
                 bounds>>

(* The put of a session, wherever it occurs, and what follows it.          *)
AfterSession ==
  CASE op.pc = "send: session"    -> Put("send: chat")
    [] op.pc = "receipt: session" -> NextEntry
    [] op.pc = "policy: session"  -> Await("policy: await")
    [] op.pc = "request: session" -> Await("request: await")
    [] op.pc = "end: session"     -> NoOp
PutSession ==
  /\ op.pc \in {"send: session", "receipt: session", "policy: session",
                "request: session", "end: session"}
  /\ ratchet' = Session(op.key, op.opened)
  /\ op' = AfterSession
  /\ UNCHANGED <<file, dek, chats, contact, process, queued, lockFree, now,
                 history, bounds>>

(* The put of a chat, twice each: a sent one again once the relay has it,  *)
(* a received one again with its message id.                               *)
PutChat ==
  /\ op.pc \in {"send: chat", "send: again", "pass: chat", "pass: id"}
  /\ chats' = [chats EXCEPT ![op.chat] = Chat(op.key, op.at, op.pc = "pass: id")]
  /\ op' = CASE op.pc = "send: chat"  -> Await("send: await")
             [] op.pc = "send: again" -> NoOp
             [] op.pc = "pass: chat"  -> Put("pass: id")
             [] op.pc = "pass: id"    -> Await("pass: await")
  /\ UNCHANGED <<file, dek, ratchet, contact, process, queued, lockFree, now,
                 history, bounds>>

(* The relay answers.                                                      *)
Answered ==
  /\ \/ op.pc = "send: await" /\ op' = Put("send: again")
     \/ op.pc = "pass: await" /\ op' = IF op.wiped THEN NextEntry ELSE Put("receipt: session")
  /\ UNCHANGED <<diskVars, process, queued, lockFree, now, history, bounds>>

(* It does not, or refuses: the operation ends there.                      *)
Fails ==
  /\ op.pc \in {"send: await", "pass", "pass: await", "policy: await", "request: await"}
  /\ Fault /\ Dropped /\ op' = NoOp
  /\ UNCHANGED <<diskVars, process, queued, lockFree, now, gone, held, overreach,
                 requests, commands, wipes>>

-----------------------------------------------------------------------------
(* A receive pass, on the session it loaded (receive_pending).             *)
BeginPass ==
  /\ Idle /\ Loadable(ratchet)
  /\ op' = [NoOp EXCEPT !.pc = "pass", !.contact = contact, !.opened = ratchet.opened]
  /\ UNCHANGED <<diskVars, process, queued, lockFree, now, history, bounds>>

(* A chat the session can open is stored, unless it is found by its        *)
(* message id or, nameless, by its position.  A record that does not       *)
(* decrypt is passed over by the first search (list_messages) and ends the *)
(* pass in the second (save_received_message_idempotent), if it comes up   *)
(* before what is looked for.                                              *)
Opened(m, o) == [o EXCEPT !.chat = m, !.opened = op.opened \union {m}]
Known(m) == Loadable(chats[m]) /\ chats[m].named
ApplyChat(m) ==
  /\ op.pc = "pass" /\ m \in Received \ op.opened
  /\ \/ /\ Known(m) /\ op' = Opened(m, Await("pass: await"))
        /\ UNCHANGED <<next, cut>>
     \/ /\ ~Known(m) /\ Loadable(chats[m])
        /\ op' = [Opened(m, Put("pass: id")) EXCEPT !.at = chats[m].at]
        /\ UNCHANGED <<next, cut>>
     \/ /\ m \notin Stored /\ AllLoad
        /\ op' = [Opened(m, Put("pass: chat")) EXCEPT !.at = <<now, next>>]
        /\ next' = next + 1 /\ UNCHANGED cut
     \/ /\ ~Known(m) /\ ~AllLoad /\ Dropped /\ op' = NoOp
        /\ UNCHANGED next
  /\ UNCHANGED <<diskVars, running, key, queued, lockFree, now, gone, held,
                 overreach, bounds>>

(* The peer's wishes, and the position they were processed at.             *)
ApplyPolicy(ask, full) ==
  /\ op.pc = "pass" /\ requests < MaxRequests /\ requests' = requests + 1
  /\ contact' = [contact EXCEPT !.peerAsk = ask, !.peerFull = full,
                                !.boundary = <<now, next>>, !.covers = RecordsOf(Stored)]
  /\ UNCHANGED <<file, dek, chats, ratchet, process, op, queued, lockFree,
                 now, history, commands, wipes, faults>>

(* Every readable chat from the boundary on, or without one every chat,    *)
(* and the session if either side wants that, in one transaction           *)
(* (wipe_conversation_since, wipe_conversation). A session to delete that  *)
(* does not decrypt is an error before it.                                 *)
InScope(c) == {m \in Stored : c.boundary = Nothing
                               \/ (Loadable(chats[m]) /\ AtOrAfter(chats[m].at, c.boundary))}
Wipeable(session) == session => ratchet = Nothing \/ Loadable(ratchet)
Delete(ms, session) ==
  /\ chats' = [m \in Chats |-> IF m \in ms THEN Nothing ELSE chats[m]]
  /\ ratchet' = IF session THEN Nothing ELSE ratchet
  /\ gone' = gone \union ms \union IF session THEN {"session"} ELSE {}
Comply(c, session) ==
  /\ Delete(InScope(c), session)
  /\ overreach' = overreach \union (RecordsOf(InScope(c)) \intersect c.covers)

(* A request is complied with at once, or waits for the user if both sides *)
(* asked for that; what both want is read from disk, not from the contact  *)
(* the pass began with.                                                    *)
MutCurrent == op.contact
Current == contact
ApplyRequest(full) ==
  /\ op.pc = "pass" /\ requests < MaxRequests /\ requests' = requests + 1
  /\ \/ /\ Asks(Current) /\ contact' = [Current EXCEPT !.pending = TRUE]
        /\ UNCHANGED <<chats, ratchet, op, gone, cut, overreach>>
     \/ /\ ~Asks(Current) /\ Wipeable(Full(Current) \/ full)
        /\ Comply(Current, Full(Current) \/ full)
        /\ op' = [op EXCEPT !.wiped = op.wiped \/ Full(Current) \/ full]
        /\ UNCHANGED <<contact, cut>>
     \/ /\ ~Asks(Current) /\ ~Wipeable(Full(Current) \/ full)
        /\ Dropped /\ op' = NoOp
        /\ UNCHANGED <<chats, ratchet, contact, gone, overreach>>
  /\ UNCHANGED <<file, dek, process, queued, lockFree, now, held, commands,
                 wipes, faults>>

(* A session the pass wiped is not saved again.                            *)
MutEnds == Put("end: session")
Ends == IF op.wiped THEN NoOp ELSE Put("end: session")
EndPass ==
  /\ op.pc = "pass" /\ op' = Ends
  /\ UNCHANGED <<diskVars, process, queued, lockFree, now, history, bounds>>

-----------------------------------------------------------------------------
(* The user's commands load the contact, then wait for the session lock    *)
(* (set_wipe_policy, request_conversation_wipe).                           *)
Load(kind) ==
  /\ running /\ queued = Nothing /\ commands < MaxCommands /\ commands' = commands + 1
  /\ queued' = [kind |-> kind, contact |-> contact]
  /\ UNCHANGED <<diskVars, process, op, lockFree, now, history, requests,
                 wipes, faults>>

(* announce_wipe_policy: the copy is saved with the new preferences, then  *)
(* the session, and the copy again once the relay has the announcement.    *)
Announce(ask, full) ==
  /\ Idle /\ queued # Nothing /\ queued.kind = "policy" /\ Loadable(ratchet)
  /\ contact' = [queued.contact EXCEPT !.ask = ask, !.full = full]
  /\ op' = [NoOp EXCEPT !.pc = "policy: session", !.contact = contact',
                        !.opened = ratchet.opened, !.key = key]
  /\ queued' = Nothing
  /\ UNCHANGED <<file, dek, chats, ratchet, process, lockFree, now, history,
                 bounds>>
Announced ==
  /\ op.pc = "policy: await" /\ contact' = op.contact /\ op' = NoOp
  /\ UNCHANGED <<file, dek, chats, ratchet, process, queued, lockFree, now,
                 history, bounds>>

(* request_conversation_wipe: the session is saved, the request sent, and  *)
(* then everything goes, if the session can be read where it is to go too. *)
Request ==
  /\ Idle /\ queued # Nothing /\ queued.kind = "request" /\ Loadable(ratchet)
  /\ op' = [NoOp EXCEPT !.pc = "request: session", !.contact = queued.contact,
                        !.opened = ratchet.opened, !.key = key]
  /\ queued' = Nothing
  /\ UNCHANGED <<diskVars, process, lockFree, now, history, bounds>>
Requested ==
  /\ op.pc = "request: await" /\ op' = NoOp
  /\ IF Wipeable(Full(op.contact)) THEN Delete(Stored, Full(op.contact))
     ELSE UNCHANGED <<chats, ratchet, gone>>
  /\ UNCHANGED <<file, dek, contact, process, queued, lockFree, now, held, cut,
                 overreach, bounds>>

(* A command that finds no session it can load ends.                       *)
GiveUp ==
  /\ Idle /\ queued # Nothing /\ ~Loadable(ratchet) /\ queued' = Nothing
  /\ UNCHANGED <<diskVars, process, op, lockFree, now, history, bounds>>

(* The user allows a waiting request: the contact is read again, the wipe  *)
(* made and then the flag cleared; or declines it, without the lock.       *)
Confirm ==
  /\ Idle /\ contact.pending /\ Wipeable(Full(contact))
  /\ Comply(contact, Full(contact))
  /\ op' = [NoOp EXCEPT !.pc = "confirmed", !.contact = contact]
  /\ UNCHANGED <<file, dek, contact, process, queued, lockFree, now, held, cut,
                 bounds>>
Confirmed ==
  /\ op.pc = "confirmed" /\ contact' = [op.contact EXCEPT !.pending = FALSE] /\ op' = NoOp
  /\ UNCHANGED <<file, dek, chats, ratchet, process, queued, lockFree, now,
                 history, bounds>>

BeginDecline ==
  /\ running /\ decline = Nothing /\ contact.pending /\ decline' = contact
  /\ UNCHANGED <<diskVars, process, op, queued, shred, now, history, bounds>>
Decline ==
  /\ decline # Nothing /\ contact' = [decline EXCEPT !.pending = FALSE] /\ decline' = Nothing
  /\ UNCHANGED <<file, dek, chats, ratchet, process, op, queued, shred, now,
                 history, bounds>>

-----------------------------------------------------------------------------
(* The quick wipe: a fresh content key replaces the one on disk, then the  *)
(* one in memory; then the records are deleted.                            *)
Everything == Stored \union IF ratchet # Nothing THEN {"session"} ELSE {}
Held == IF op.pc = "idle" THEN {} ELSE {"session", op.chat} \ {Nothing}

MutRotated == dek
Rotated == dek + 1
Rotate ==
  /\ running /\ shred = "no" /\ wipes < MaxWipes /\ wipes' = wipes + 1
  /\ dek' = Rotated /\ shred' = "rotated"
  /\ gone' = gone \union Everything
  /\ UNCHANGED <<file, chats, ratchet, contact, process, op, queued, decline,
                 now, held, cut, overreach, requests, commands, faults>>
MutSwapped == key
Swapped == dek
Swap ==
  /\ shred = "rotated" /\ key' = Swapped /\ shred' = "swapped" /\ held' = held \union Held
  /\ UNCHANGED <<diskVars, running, next, op, queued, decline, now, gone, cut,
                 overreach, bounds>>
Shred ==
  /\ shred = "swapped" /\ shred' = "no"
  /\ chats' = [m \in Chats |-> Nothing] /\ ratchet' = Nothing
  /\ UNCHANGED <<file, dek, contact, process, op, queued, decline, now,
                 history, bounds>>

(* The full wipe: salt and keys go in one transaction; then everything     *)
(* else and the file, and the app restarts.                                *)
DestroyKeys ==
  /\ running /\ shred = "no" /\ file = "open" /\ wipes < MaxWipes /\ wipes' = wipes + 1
  /\ file' = "shut" /\ shred' = "full" /\ gone' = gone \union Everything
  /\ UNCHANGED <<dek, chats, ratchet, contact, process, op, queued, decline,
                 now, held, cut, overreach, requests, commands, faults>>
Stop ==
  /\ running' = FALSE /\ key' = 0 /\ next' = 0 /\ op' = NoOp /\ queued' = Nothing
  /\ decline' = Nothing /\ shred' = "no"
RemoveFile ==
  /\ shred = "full" /\ file' = "gone" /\ Stop
  /\ chats' = [m \in Chats |-> Nothing] /\ ratchet' = Nothing
  /\ UNCHANGED <<dek, contact, now, history, bounds>>

-----------------------------------------------------------------------------
(* The app stops anywhere. Opening the database reads every chat, to go on *)
(* with the sequence numbers above theirs; one it cannot decrypt is an     *)
(* error (recover_message_sequence).                                       *)
Crash ==
  /\ running /\ Fault /\ Dropped /\ Stop
  /\ UNCHANGED <<diskVars, now, gone, held, overreach, requests, commands, wipes>>

MutRecovered == 0
Recovered == IF Stored = {} THEN 0 ELSE Max({chats[m].at[2] : m \in Stored}) + 1
Opens == \A m \in Stored : chats[m].key = dek
Open ==
  /\ ~running /\ file = "open" /\ Opens
  /\ running' = TRUE /\ key' = dek /\ next' = Recovered
  /\ UNCHANGED <<diskVars, op, queued, lockFree, now, history, bounds>>

Tick ==
  /\ now < MaxTime /\ now' = now + 1
  /\ UNCHANGED <<diskVars, process, op, queued, lockFree, history, bounds>>

Next ==
  \/ \E m \in Chats : Send(m) \/ ApplyChat(m)
  \/ PutSession \/ PutChat \/ Answered \/ Fails
  \/ BeginPass \/ EndPass
  \/ \E ask, full \in BOOLEAN : ApplyPolicy(ask, full) \/ Announce(ask, full)
  \/ \E full \in BOOLEAN : ApplyRequest(full)
  \/ \E kind \in {"policy", "request"} : Load(kind)
  \/ Announced \/ Request \/ Requested \/ GiveUp
  \/ Confirm \/ Confirmed \/ BeginDecline \/ Decline
  \/ Rotate \/ Swap \/ Shred \/ DestroyKeys \/ RemoveFile
  \/ Crash \/ Open \/ Tick

Spec == Init /\ [][Next]_vars

-----------------------------------------------------------------------------
Positions == Nat \X Nat
ChatRecords == [key : Nat, at : Positions, named : BOOLEAN]
SessionRecords == [key : Nat, opened : SUBSET Received]
Contacts == [ask : BOOLEAN, full : BOOLEAN, peerAsk : BOOLEAN, peerFull : BOOLEAN,
             pending : BOOLEAN, boundary : Positions \union {Nothing}, covers : SUBSET (Chats \X Positions)]
Places == {"idle", "pass", "pass: chat", "pass: id", "pass: await", "receipt: session", "end: session",
           "send: session", "send: chat", "send: await", "send: again", "policy: session",
           "policy: await", "request: session", "request: await", "confirmed"}

(* Every variable has its type; nothing runs in an app that is not there,  *)
(* and its key is the one on disk but between two steps of a quick wipe.   *)
TypeOK ==
  /\ file \in {"open", "shut", "gone"} /\ dek \in Nat /\ key \in Nat /\ next \in Nat
  /\ chats \in [Chats -> ChatRecords \union {Nothing}]
  /\ ratchet \in SessionRecords \union {Nothing} /\ contact \in Contacts
  /\ running \in BOOLEAN /\ shred \in {"no", "rotated", "swapped", "full"}
  /\ op.pc \in Places /\ op.contact \in Contacts /\ op.opened \subseteq Received
  /\ op.chat \in Chats \union {Nothing} /\ op.at \in Positions /\ op.wiped \in BOOLEAN
  /\ queued = Nothing \/ (queued.kind \in {"policy", "request"} /\ queued.contact \in Contacts)
  /\ decline \in Contacts \union {Nothing}
  /\ ~running => op = NoOp /\ shred = "no"
  /\ running /\ shred # "rotated" => key = dek
  /\ gone \subseteq Chats \union {"session"} /\ held \subseteq Chats \union {"session"}
  /\ cut \subseteq Received /\ overreach \subseteq Chats \X Positions
  /\ now \in 0..MaxTime /\ requests \in 0..MaxRequests
  /\ commands \in 0..MaxCommands /\ wipes \in 0..MaxWipes /\ faults \in 0..MaxFaults

(* What a wipe of any kind removed, or found stored, cannot be read from   *)
(* the database again, whatever was interrupted and whatever operation was *)
(* under way, but for two cases: what that operation held in memory when a *)
(* quick wipe struck, and a chat whose pass ended after storing it and     *)
(* before saving the session, which the next pass opens and stores again   *)
(* (quick_wipe: the key goes first; receive_pending: a chat is stored      *)
(* before the session is saved, and a wiped session is not saved again).   *)
Readable == IF file # "open" THEN {}
            ELSE {m \in Stored : chats[m].key = dek}
                   \union (IF ratchet # Nothing /\ ratchet.key = dek THEN {"session"} ELSE {})
WipedStaysGone == Readable \intersect gone \subseteq held \union cut

(* Complying with the peer's request never removes a chat that was stored  *)
(* when the policy on record was processed, restarts within one second     *)
(* included (record_peer_wipe_policy: "everything already stored before    *)
(* this instant is protected"; recover_message_sequence).                  *)
ProtectedStays == overreach = {}

(* While both sides want to be asked, a request of the peer removes        *)
(* nothing in a receive pass, even one whose batch began before that was   *)
(* settled (apply_entry reloads the contact).                              *)
AskedFirst ==
  [][op.pc = "pass" /\ op'.pc = "pass" /\ UNCHANGED shred /\ Asks(contact)
       => UNCHANGED chats]_vars

(* The database opens again wherever a quick wipe was interrupted          *)
(* (duress_wipe_crash_consistency.rs: the ordering "has nothing to do with *)
(* whether the file opens").                                               *)
StaysOpenable == ~running /\ file = "open" => Opens
=============================================================================
