------------------------------ MODULE Delivery ------------------------------
(***************************************************************************)
(* How two paired devices get chat messages to each other: the send path   *)
(* (send_message, retry_message, transmit_chat), the receive pass          *)
(* (receive_pending, apply_entry), delivery receipts and cumulative acks,  *)
(* and what a device concludes when the relay restarted or kept a message  *)
(* too long (note_server_boot, mark_expired_sends).                        *)
(*                                                                         *)
(* A device does one of these at a time (the session mutex of the desktop  *)
(* app), and may crash between any two of its steps, keeping only what it  *)
(* saved.  The ratchet is reduced to what delivery reads of it: a position *)
(* <<chain, n>> names a message key; the initiator sends on odd chains,    *)
(* the responder on even ones, and opening a message of a new chain of the *)
(* peer moves this side to the chain after it.  Ratchet.tla has the rest.  *)
(* The relay is one queue per receiver; MailRelay.tla has the rest.        *)
(***************************************************************************)
EXTENDS Naturals, Sequences

CONSTANTS Initiator, Responder, \* the two devices of one conversation
          Messages,             \* ids of the chat messages they may write
          AuthorOf,             \* who writes each
          MaxSends,             \* bound on transmissions, retries included
          MaxFaults             \* bound on crashes, losses, refusals, restarts

Parties == {Initiator, Responder}
Peer(p) == IF p = Initiator THEN Responder ELSE Initiator

ASSUME DeliveryAssumption ==
  /\ Initiator # Responder
  /\ AuthorOf \in [Messages -> Parties]
  /\ MaxSends \in Nat /\ MaxFaults \in Nat

VARIABLES
  ratchet,   \* disk: the saved session of each device
  sent,      \* disk: the author's record of each message
  shown,     \* disk: the records of received chats a device has stored
  boot,      \* disk: the server boot id a device last noted (0: none)
  verified,  \* disk: whether the contact is Verified
  conn,      \* the connection: "none", "lost", "greeted" or "up"
  heard,     \* the boot id in the challenge of that connection
  step,      \* where the operation holding the session lock stands
  out,       \* the envelope it has sealed and not yet written
  batch,     \* the fetched entries a receive pass has left
  mem,       \* the session a receive pass works on
  mailbox,   \* relay: the envelopes queued for each device
  removed,   \* relay: the last envelope deleted from each queue, until a save
  epoch,     \* relay: its boot id
  sealed,    \* history: the last position each device put on the wire
  withheld,  \* history: chats consumed while the contact was not Verified
  expired,   \* history: chats whose copy the relay discarded for its age
  halved,    \* history: chats stored by a pass that stopped before their id
  sends, faults

diskVars == <<ratchet, sent, shown, boot, verified>>
workVars == <<step, out, batch, mem>>
linkVars == <<conn, heard>>
relayVars == <<mailbox, removed, epoch>>
boundVars == <<withheld, expired, halved, sends, faults>>
vars == <<diskVars, workVars, linkVars, relayVars, sealed, boundVars>>

-----------------------------------------------------------------------------
NoPosition == <<0, 0>>
Before(a, b) == a[1] < b[1] \/ (a[1] = b[1] /\ a[2] < b[2])

(* A session: own sending chain and next index, the peer's current chain,  *)
(* and the positions opened.                                               *)
Session(own, peer) == [own |-> own, next |-> 0, peer |-> peer, got |-> {}]
NextPosition(r) == <<r.own, r.next>>
Advanced(r) == [r EXCEPT !.next = r.next + 1]

(* A key opens one message only; a first message of the peer's next chain  *)
(* also moves this side to a new chain of its own.                         *)
Opens(r, at) == at \notin r.got
Opened(r, at) ==
  LET turned == at[1] > r.peer IN
  [own  |-> IF turned THEN at[1] + 1 ELSE r.own,
   next |-> IF turned THEN 0 ELSE r.next,
   peer |-> IF turned THEN at[1] ELSE r.peer,
   got  |-> r.got \union {at}]

(* The cumulative ack: the last index of the peer's current chain below    *)
(* which nothing is missing.                                               *)
MutProgress(r) ==
  LET here == {at \in r.got : at[1] = r.peer}
  IN  IF here = {} THEN NoPosition
      ELSE CHOOSE at \in here : \A other \in here : ~Before(at, other)
Progress(r) ==
  LET whole == {at \in r.got : at[1] = r.peer /\
                  \A n \in 0..at[2] : <<at[1], n>> \in r.got}
  IN  IF whole = {} THEN NoPosition
      ELSE CHOOSE at \in whole : \A other \in whole : ~Before(at, other)

Chat(at, m, ack) == [at |-> at, kind |-> "chat", id |-> m, acks |-> ack]
Receipt(at, m, acked) == [at |-> at, kind |-> "receipt", id |-> m, acks |-> acked]
\* No envelope in hand.
Nothing == <<>>

(* An author's record of a message; Unsaved is no record yet.              *)
Unsaved == [at |-> NoPosition, delivered |-> FALSE, retry |-> "unsaved"]
Record(at, delivered, retry) == [at |-> at, delivered |-> delivered, retry |-> retry]
OwnMessages(p) == {m \in Messages : AuthorOf[m] = p}
Unconfirmed(r) == r.at # NoPosition /\ ~r.delivered /\ r.retry = "none"

(* A queue without the entry at a position: it holds one at most.          *)
RemovedAt(box, at) ==
  LET here == {i \in DOMAIN box : box[i].at = at}
      i == CHOOSE j \in here : TRUE
  IN IF here = {} THEN box ELSE SubSeq(box, 1, i - 1) \o SubSeq(box, i + 1, Len(box))

Init ==
  /\ ratchet = [p \in Parties |-> IF p = Initiator THEN Session(1, 0) ELSE Session(2, 1)]
  /\ sent = [m \in Messages |-> Unsaved]
  /\ shown = [p \in Parties |-> {}]
  /\ boot = [p \in Parties |-> 1]
  /\ verified = [p \in Parties |-> TRUE]
  /\ conn = [p \in Parties |-> "up"]
  /\ heard = [p \in Parties |-> 1]
  /\ step = [p \in Parties |-> "idle"]
  /\ out = [p \in Parties |-> Nothing]
  /\ batch = [p \in Parties |-> <<>>]
  /\ mem = [p \in Parties |-> Nothing]
  /\ mailbox = [p \in Parties |-> <<>>]
  /\ removed = [p \in Parties |-> Nothing]
  /\ epoch = 1
  /\ sealed = [p \in Parties |-> NoPosition]
  /\ withheld = {} /\ expired = {} /\ halved = {}
  /\ sends = 0 /\ faults = 0

-----------------------------------------------------------------------------
(* The session lock: one operation of a device at a time.                  *)
Idle(p) == step[p] = "idle"
Free(p) == Idle(p) /\ (conn[p] = "greeted" => boot[p] = heard[p])
Online(p) == conn[p] = "up"
Reaches(p) == heard[p] = epoch
Fault == faults < MaxFaults /\ faults' = faults + 1

(* Work that ends, well or not, leaves nothing in memory.                  *)
MutRelease(p) ==
  /\ step' = [step EXCEPT ![p] = "idle"]
  /\ out' = [out EXCEPT ![p] = Nothing]
  /\ batch' = [batch EXCEPT ![p] = <<>>]
  /\ UNCHANGED mem
Release(p) ==
  /\ step' = [step EXCEPT ![p] = "idle"]
  /\ out' = [out EXCEPT ![p] = Nothing]
  /\ batch' = [batch EXCEPT ![p] = <<>>]
  /\ mem' = [mem EXCEPT ![p] = Nothing]

(* A request with no answer: the frame reached the relay or it did not,    *)
(* and the connection is lost for good.                                    *)
Unanswered(p) ==
  /\ conn' = [conn EXCEPT ![p] = "lost"]
  /\ IF Reaches(p) THEN Fault ELSE UNCHANGED faults
  /\ Release(p)
  /\ UNCHANGED <<heard, epoch, withheld, expired, halved, sends>>
(* An error reply: the connection stays usable.                            *)
Refused(p) ==
  /\ Reaches(p) /\ Fault /\ Release(p)
  /\ UNCHANGED <<linkVars, relayVars, withheld, expired, halved, sends>>

-----------------------------------------------------------------------------
(* Sending. A message never transmitted, or offered for a retry, is sealed *)
(* at the session's next position, and the advanced session is saved       *)
(* before anything else (transmit_chat).                                   *)
MutSendable(p) == OwnMessages(p)
Sendable(p) == {m \in OwnMessages(p) : sent[m].retry # "none"}
MutSavedBeforeSend(p, r) == UNCHANGED ratchet
SavedBeforeSend(p, r) == ratchet' = [ratchet EXCEPT ![p] = r]
SealChat(p, m) ==
  /\ Idle(p) /\ Online(p) /\ verified[p] /\ m \in Sendable(p)
  /\ sends < MaxSends /\ sends' = sends + 1
  /\ out' = [out EXCEPT ![p] = Chat(NextPosition(ratchet[p]), m, Progress(ratchet[p]))]
  /\ SavedBeforeSend(p, Advanced(ratchet[p]))
  /\ step' = [step EXCEPT ![p] = "sealed"]
  /\ UNCHANGED <<sent, shown, boot, verified, linkVars, batch, mem, relayVars,
                 sealed, withheld, expired, halved, faults>>

SaveFlagged(p) ==
  /\ step[p] = "sealed"
  /\ sent' = [sent EXCEPT ![out[p].id] = Record(out[p].at, FALSE, "SendFailed")]
  /\ step' = [step EXCEPT ![p] = "saved"]
  /\ UNCHANGED <<ratchet, shown, boot, verified, linkVars, out, batch, mem,
                 relayVars, sealed, boundVars>>

Queued(p) == mailbox' = [mailbox EXCEPT ![Peer(p)] = Append(mailbox[Peer(p)], out[p])]
OnTheWire(p) == sealed' = [sealed EXCEPT ![p] = out[p].at]

WriteChat(p) ==
  /\ step[p] = "saved" /\ OnTheWire(p)
  /\ \/ /\ Reaches(p) /\ Queued(p)
        /\ step' = [step EXCEPT ![p] = "accepted"]
        /\ UNCHANGED <<linkVars, out, batch, mem, removed, epoch, boundVars>>
     \/ Refused(p)
     \/ /\ Unanswered(p) /\ UNCHANGED removed
        /\ UNCHANGED mailbox \/ (Reaches(p) /\ Queued(p))
  /\ UNCHANGED diskVars

SaveAccepted(p) ==
  /\ step[p] = "accepted"
  /\ sent' = [sent EXCEPT ![out[p].id] = Record(out[p].at, FALSE, "none")]
  /\ Release(p)
  /\ UNCHANGED <<ratchet, shown, boot, verified, linkVars, relayVars, sealed, boundVars>>

(* With no usable connection the message is kept, flagged, and nothing is  *)
(* encrypted (save_unsent_message; is_lost in transmit_chat).              *)
KeepUnsent(p, m) ==
  /\ Free(p) /\ ~Online(p) /\ verified[p]
  /\ m \in OwnMessages(p) /\ sent[m].retry \notin {"none", "SendFailed"}
  /\ conn[p] = "none" => sent[m].retry = "unsaved"
  /\ sent' = [sent EXCEPT ![m].retry = "SendFailed"]
  /\ UNCHANGED <<ratchet, shown, boot, verified, workVars, linkVars, relayVars,
                 sealed, boundVars>>

-----------------------------------------------------------------------------
(* Receiving (receive_pending). A pass works on the saved session and on   *)
(* what one fetch returned.                                                *)
Fetch(p) ==
  /\ Idle(p) /\ Online(p)
  /\ \/ /\ Reaches(p) /\ mailbox[p] # <<>>
        /\ step' = [step EXCEPT ![p] = "pass"]
        /\ batch' = [batch EXCEPT ![p] = mailbox[p]]
        /\ mem' = [mem EXCEPT ![p] = ratchet[p]]
        /\ UNCHANGED <<linkVars, out, relayVars, boundVars>>
     \/ Unanswered(p) /\ UNCHANGED <<mailbox, removed>>
  /\ UNCHANGED <<diskVars, sealed>>

(* The author's records a received acknowledgement confirms: a receipt     *)
(* names one position (mark_message_delivered), the ack carried by a chat  *)
(* every position of that chain up to one (mark_messages_delivered_up_to). *)
Confirms(e, at) ==
  IF e.kind = "receipt" THEN at = e.acks
  ELSE at[1] = e.acks[1] /\ at[2] <= e.acks[2]
Confirmed(p, e) == [m \in Messages |->
  IF AuthorOf[m] = p /\ sent[m].at # NoPosition /\ ~sent[m].delivered
                     /\ Confirms(e, sent[m].at)
  THEN Record(sent[m].at, TRUE, "none") ELSE sent[m]]

(* The record of a received chat; it is named once its message id is saved *)
(* with it.                                                                *)
Copy(e, named) == [id |-> e.id, at |-> e.at, named |-> named]

(* A chat is stored unless a record has its message id (save_received_chat) *)
(* or its position, which is then that record                              *)
(* (save_received_message_idempotent). The id is saved by a second write.  *)
MutKnown(p, e) == Copy(e, TRUE) \in shown[p]
Known(p, e) == \E s \in shown[p] : s.id = e.id /\ s.named
Stored(p, e) == IF Known(p, e) THEN shown[p] ELSE shown[p] \union {Copy(e, FALSE)}
Named(p, e) == (shown[p] \ {Copy(e, FALSE)}) \union {Copy(e, TRUE)}

(* One entry: opened and acted on, or skipped when its key is used up. A   *)
(* chat is withheld while the contact is not Verified (decrypt_gated).     *)
ApplyEntry(p) ==
  LET e == Head(batch[p]) IN
  /\ step[p] = "pass" /\ batch[p] # <<>>
  /\ IF ~Opens(mem[p], e.at)
     THEN /\ step' = [step EXCEPT ![p] = "delete"]
          /\ UNCHANGED <<sent, shown, mem, withheld>>
     ELSE /\ mem' = [mem EXCEPT ![p] = Opened(mem[p], e.at)]
          /\ IF e.kind = "chat" /\ ~verified[p]
             THEN /\ withheld' = withheld \union {e.id}
                  /\ step' = [step EXCEPT ![p] = "delete"]
                  /\ UNCHANGED <<sent, shown>>
             ELSE /\ sent' = Confirmed(p, e)
                  /\ shown' = IF e.kind = "chat"
                              THEN [shown EXCEPT ![p] = Stored(p, e)] ELSE shown
                  /\ step' = [step EXCEPT ![p] =
                                IF e.kind # "chat" THEN "delete"
                                ELSE IF Known(p, e) THEN "delete chat" ELSE "stored"]
                  /\ UNCHANGED withheld
  /\ UNCHANGED <<ratchet, boot, verified, linkVars, out, batch, relayVars, sealed,
                 expired, halved, sends, faults>>

SaveId(p) ==
  /\ step[p] = "stored"
  /\ shown' = [shown EXCEPT ![p] = Named(p, Head(batch[p]))]
  /\ step' = [step EXCEPT ![p] = "delete chat"]
  /\ UNCHANGED <<ratchet, sent, boot, verified, linkVars, out, batch, mem, relayVars,
                 sealed, boundVars>>

(* The entry is deleted before its receipt is sent. A pass that fails      *)
(* keeps what it stored and forgets the session it advanced.               *)
NextEntry(p) ==
  /\ batch' = [batch EXCEPT ![p] = Tail(batch[p])]
  /\ step' = [step EXCEPT ![p] = "pass"]
Removed(p) ==
  /\ mailbox' = [mailbox EXCEPT ![p] = RemovedAt(mailbox[p], Head(batch[p]).at)]
  /\ removed' = [removed EXCEPT ![p] = Head(batch[p])]
DeleteEntry(p) ==
  /\ step[p] \in {"delete", "delete chat"}
  /\ \/ /\ Reaches(p) /\ Removed(p)
        /\ IF step[p] = "delete" THEN NextEntry(p)
           ELSE step' = [step EXCEPT ![p] = "receipt"] /\ UNCHANGED batch
        /\ UNCHANGED <<linkVars, out, mem, epoch, boundVars>>
     \/ Refused(p)
     \/ Unanswered(p) /\ (UNCHANGED <<mailbox, removed>> \/ (Reaches(p) /\ Removed(p)))
  /\ UNCHANGED <<diskVars, sealed>>

SealReceipt(p) ==
  LET e == Head(batch[p]) IN
  /\ step[p] = "receipt"
  /\ out' = [out EXCEPT ![p] = Receipt(NextPosition(mem[p]), e.id, e.at)]
  /\ mem' = [mem EXCEPT ![p] = Advanced(mem[p])]
  /\ SavedBeforeSend(p, Advanced(mem[p]))
  /\ step' = [step EXCEPT ![p] = "receipt sealed"]
  /\ UNCHANGED <<sent, shown, boot, verified, linkVars, batch, relayVars, sealed,
                 boundVars>>

WriteReceipt(p) ==
  /\ step[p] = "receipt sealed" /\ OnTheWire(p)
  /\ \/ /\ Reaches(p) /\ Queued(p) /\ NextEntry(p)
        /\ out' = [out EXCEPT ![p] = Nothing]
        /\ UNCHANGED <<linkVars, mem, removed, epoch, boundVars>>
     \/ Refused(p)
     \/ /\ Unanswered(p) /\ UNCHANGED removed
        /\ UNCHANGED mailbox \/ (Reaches(p) /\ Queued(p))
  /\ UNCHANGED diskVars

EndPass(p) ==
  /\ step[p] = "pass" /\ batch[p] = <<>>
  /\ ratchet' = [ratchet EXCEPT ![p] = mem[p]]
  /\ Release(p)
  /\ UNCHANGED <<sent, shown, boot, verified, linkVars, relayVars, sealed, boundVars>>

-----------------------------------------------------------------------------
(* Reconnecting: the challenge carries the server's boot id. If it is not  *)
(* the one noted last, every accepted and unconfirmed message is flagged,  *)
(* one save each, and only then is the new boot id noted                   *)
(* (note_server_boot, authenticate_and_reconcile).                         *)
MutConnect(p) ==
  /\ Idle(p) /\ conn[p] = "lost"
  /\ conn' = [conn EXCEPT ![p] = "greeted"]
  /\ heard' = [heard EXCEPT ![p] = epoch]
  /\ UNCHANGED <<diskVars, workVars, relayVars, sealed, boundVars>>
Connect(p) ==
  /\ Idle(p) /\ conn[p] \in {"none", "lost"}
  /\ conn' = [conn EXCEPT ![p] = "greeted"]
  /\ heard' = [heard EXCEPT ![p] = epoch]
  /\ UNCHANGED <<diskVars, workVars, relayVars, sealed, boundVars>>

LostInRestart(p) == {m \in OwnMessages(p) : Unconfirmed(sent[m])}
FlagLost(p, m) ==
  /\ conn[p] = "greeted" /\ boot[p] # heard[p] /\ m \in LostInRestart(p)
  /\ sent' = [sent EXCEPT ![m].retry = "ServerRestarted"]
  /\ UNCHANGED <<ratchet, shown, boot, verified, workVars, linkVars, relayVars,
                 sealed, boundVars>>

MutNoteBoot(p) ==
  /\ conn[p] = "greeted" /\ boot[p] # heard[p]
  /\ boot' = [boot EXCEPT ![p] = heard[p]]
  /\ UNCHANGED <<ratchet, sent, shown, verified, workVars, linkVars, relayVars,
                 sealed, boundVars>>
NoteBoot(p) ==
  /\ conn[p] = "greeted" /\ boot[p] # heard[p] /\ LostInRestart(p) = {}
  /\ boot' = [boot EXCEPT ![p] = heard[p]]
  /\ UNCHANGED <<ratchet, sent, shown, verified, workVars, linkVars, relayVars,
                 sealed, boundVars>>

Adopt(p) ==
  /\ conn[p] = "greeted" /\ boot[p] = heard[p]
  /\ conn' = [conn EXCEPT ![p] = "up"]
  /\ UNCHANGED <<diskVars, workVars, heard, relayVars, sealed, boundVars>>

(* A message nobody confirmed within the relay's mailbox lifetime and the  *)
(* grace after it is flagged; by then no copy of it can be queued          *)
(* (mark_expired_sends).                                                   *)
QueuedFor(p, at) == \E i \in DOMAIN mailbox[p] : mailbox[p][i].at = at
MutMarkExpired(p, m) ==
  /\ Free(p) /\ m \in OwnMessages(p) /\ Unconfirmed(sent[m])
  /\ QueuedFor(Peer(p), sent[m].at)
  /\ sent' = [sent EXCEPT ![m].retry = "Expired"]
  /\ UNCHANGED <<ratchet, shown, boot, verified, workVars, linkVars, relayVars,
                 sealed, boundVars>>
MarkExpired(p, m) ==
  /\ Free(p) /\ m \in OwnMessages(p) /\ Unconfirmed(sent[m])
  /\ ~QueuedFor(Peer(p), sent[m].at)
  /\ sent' = [sent EXCEPT ![m].retry = "Expired"]
  /\ UNCHANGED <<ratchet, shown, boot, verified, workVars, linkVars, relayVars,
                 sealed, boundVars>>

(* The user accepts or rejects the contact's fingerprint                   *)
(* (record_verification_result).                                           *)
RecordVerification(p, matches) ==
  /\ Free(p) /\ verified[p] # matches
  /\ (IF matches THEN UNCHANGED faults ELSE Fault)
  /\ verified' = [verified EXCEPT ![p] = matches]
  /\ UNCHANGED <<ratchet, sent, shown, boot, workVars, linkVars, relayVars, sealed,
                 withheld, expired, halved, sends>>

-----------------------------------------------------------------------------
(* Faults: the device stops and keeps what it saved; the relay restarts    *)
(* without its queues under a new boot id; a relay that saves its mail     *)
(* restarts from a save made before a deletion; its oldest entry expires.  *)
Crash(p) ==
  /\ ~(Idle(p) /\ conn[p] = "none") /\ Fault
  /\ conn' = [conn EXCEPT ![p] = "none"]
  /\ halved' = IF step[p] = "stored" THEN halved \union {Head(batch[p]).id} ELSE halved
  /\ Release(p)
  /\ UNCHANGED <<diskVars, heard, relayVars, sealed, withheld, expired, sends>>

Restart ==
  /\ Fault
  /\ epoch' = epoch + 1
  /\ mailbox' = [p \in Parties |-> <<>>]
  /\ removed' = [p \in Parties |-> Nothing]
  /\ UNCHANGED <<diskVars, workVars, linkVars, sealed, withheld, expired, halved, sends>>

Reappear(p) ==
  /\ removed[p] # Nothing /\ Fault
  /\ mailbox' = [mailbox EXCEPT ![p] = <<removed[p]>> \o mailbox[p]]
  /\ removed' = [removed EXCEPT ![p] = Nothing]
  /\ UNCHANGED <<diskVars, workVars, linkVars, epoch, sealed, withheld, expired, halved, sends>>

Expire(p) ==
  /\ mailbox[p] # <<>> /\ Fault
  /\ mailbox' = [mailbox EXCEPT ![p] = Tail(mailbox[p])]
  /\ expired' = IF Head(mailbox[p]).kind = "chat"
                THEN expired \union {Head(mailbox[p]).id} ELSE expired
  /\ UNCHANGED <<diskVars, workVars, linkVars, removed, epoch, sealed, withheld, halved, sends>>

-----------------------------------------------------------------------------
Send(p) == (\E m \in Messages : SealChat(p, m)) \/ SaveFlagged(p) \/ WriteChat(p) \/ SaveAccepted(p)
Receive(p) == Fetch(p) \/ ApplyEntry(p) \/ SaveId(p) \/ DeleteEntry(p) \/ SealReceipt(p)
                       \/ WriteReceipt(p) \/ EndPass(p)
Reconnect(p) == Connect(p) \/ (\E m \in Messages : FlagLost(p, m)) \/ NoteBoot(p) \/ Adopt(p)

Next ==
  \/ \E p \in Parties :
       \/ Send(p) \/ Receive(p) \/ Reconnect(p)
       \/ Crash(p) \/ Reappear(p) \/ Expire(p)
       \/ \E m \in Messages : KeepUnsent(p, m) \/ MarkExpired(p, m)
       \/ \E matches \in BOOLEAN : RecordVerification(p, matches)
  \/ Restart

Spec == Init /\ [][Next]_vars

(* What the app keeps doing: an operation once begun runs to its end, the  *)
(* poll loop reconnects and receives, and the check for expired sends gets *)
(* the session lock again and again (its waiters are served in order).     *)
Work(p) == SaveFlagged(p) \/ WriteChat(p) \/ SaveAccepted(p) \/ Receive(p) \/ Reconnect(p)
CheckExpired(p) == \E m \in Messages : MarkExpired(p, m)
Fairness == \A p \in Parties : WF_vars(Work(p)) /\ SF_vars(CheckExpired(p))
FairSpec == Spec /\ Fairness

-----------------------------------------------------------------------------
Positions == Nat \X Nat
Sessions == [own : Nat, next : Nat, peer : Nat, got : SUBSET Positions]
Envelopes == [at : Positions, kind : {"chat", "receipt"}, id : Messages, acks : Positions]
Records == [at : Positions, delivered : BOOLEAN,
            retry : {"unsaved", "none", "SendFailed", "Expired", "ServerRestarted"}]
Steps == {"idle", "sealed", "saved", "accepted", "pass", "stored", "delete",
          "delete chat", "receipt", "receipt sealed"}

(* Every variable has its type, and an operation that ended, in whatever   *)
(* way, left nothing of its session or envelope in memory.                 *)
TypeOK ==
  /\ ratchet \in [Parties -> Sessions]
  /\ sent \in [Messages -> Records]
  /\ shown \in [Parties -> SUBSET [id : Messages, at : Positions, named : BOOLEAN]]
  /\ boot \in [Parties -> Nat] /\ heard \in [Parties -> Nat] /\ epoch \in Nat
  /\ verified \in [Parties -> BOOLEAN]
  /\ conn \in [Parties -> {"none", "lost", "greeted", "up"}]
  /\ step \in [Parties -> Steps]
  /\ out \in [Parties -> Envelopes \union {Nothing}]
  /\ batch \in [Parties -> Seq(Envelopes)] /\ mailbox \in [Parties -> Seq(Envelopes)]
  /\ mem \in [Parties -> Sessions \union {Nothing}]
  /\ removed \in [Parties -> Envelopes \union {Nothing}]
  /\ sealed \in [Parties -> Positions]
  /\ \A p \in Parties : Idle(p) => out[p] = Nothing /\ mem[p] = Nothing
  /\ withheld \subseteq Messages /\ expired \subseteq Messages /\ halved \subseteq Messages
  /\ sends \in 0..MaxSends /\ faults \in 0..MaxFaults

(* Whatever was interrupted, the saved session is past every position that *)
(* was ever put on the wire, so no restart seals a second message with the *)
(* same key and nonce (transmit_chat, receive_pending: DRA-0059).          *)
FreshPosition == \A p \in Parties : Before(sealed[p], NextPosition(ratchet[p]))

(* A message its author sees as delivered was consumed by the other device: *)
(* stored there, or withheld because the contact was not Verified          *)
(* (mark_message_delivered, mark_messages_delivered_up_to).                *)
Received(m) == \E s \in shown[Peer(AuthorOf[m])] : s.id = m
DeliveredIsReceived ==
  \A m \in Messages : sent[m].delivered => Received(m) \/ m \in withheld

(* Whatever is retried, redelivered or processed twice, a device shows one *)
(* record of a message, unless a pass was stopped between the two writes   *)
(* that store the message and its id: then a copy sent again under another *)
(* position is not recognised, and is a second record                      *)
(* (save_received_chat).                                                   *)
ShownOnce ==
  \A p \in Parties : \A s, t \in shown[p] :
    s.id = t.id => s = t \/ s.id \in halved

(* A message the author sees as merely sent is not silently gone: a copy   *)
(* is queued, or it was received, withheld or has outlived the relay's     *)
(* lifetime, or the relay lost its queues and this device has not yet      *)
(* noted the new boot id, and will flag it (DRA-0060, 0063, 0064).         *)
UnconfirmedIsKnown ==
  \A m \in Messages : Unconfirmed(sent[m]) =>
    LET p == AuthorOf[m] IN
    \/ QueuedFor(Peer(p), sent[m].at)
    \/ Received(m) \/ m \in withheld \/ m \in expired
    \/ boot[p] # epoch

(* A confirmation is final: no later retry, flag or save takes it back     *)
(* (transmit_chat writes delivered = false).                               *)
DeliveredStays == [][\A m \in Messages : sent[m].delivered => sent'[m].delivered]_vars

(* Delivery implements the conversation the two sides are promised:        *)
(* statuses only move as they may there, and nothing is shown before its   *)
(* author let it go or confirmed unseen.                                   *)
Promised == INSTANCE Conversation WITH
  status <- [m \in Messages |->
               IF sent[m].delivered THEN "confirmed"
               ELSE CASE sent[m].retry = "unsaved" -> "draft"
                      [] sent[m].retry = "none"    -> "sent"
                      [] OTHER                     -> "offered"],
  taken <- {m \in Messages : Received(m)} \union withheld
ConversationKept == Promised!Spec

(* A message the relay accepted is eventually confirmed or offered for a   *)
(* retry, whatever receipts are lost on the way.                           *)
ConfirmedOrOffered == \A m \in Messages : Unconfirmed(sent[m]) ~> ~Unconfirmed(sent[m])

(* No entry wedges a mailbox: what is queued is eventually collected, an   *)
(* entry that cannot be opened included (receive_pending deletes it).      *)
MailboxDrains == \A p \in Parties : mailbox[p] # <<>> ~> mailbox[p] = <<>>
=============================================================================
