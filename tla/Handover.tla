------------------------------ MODULE Handover ------------------------------
(***************************************************************************)
(* After pairing, a conversation moves from the two identity-derived       *)
(* bootstrap inboxes to a routing-id mailbox both sides compute: each side *)
(* announces its routing id to the other's bootstrap inbox                 *)
(* (announce_routing_id), and switches when it opens the other's announce  *)
(* (record_peer_routing_id).  A side that has switched and not heard from  *)
(* the other there re-sends its announce, byte for byte, after each chat   *)
(* (reannounce_routing_id_if_unconfirmed).                                 *)
(*                                                                         *)
(* The two sides start paired, each about to announce.  A command of the   *)
(* desktop app loads the contact before it waits for the session lock, and *)
(* set_wipe_policy and decline_pending_wipe save that copy whole; the      *)
(* second does not take the lock at all.  The ratchet is reduced to the    *)
(* envelopes each side has opened: each opens once (Ratchet.tla).          *)
(***************************************************************************)
EXTENDS Naturals, Sequences

CONSTANTS Initiator, Responder,
          MaxCommands, \* bound on the commands of the two users
          MaxFaults    \* bound on crashes, lost requests and relay restarts

Parties == {Initiator, Responder}
Peer(p) == IF p = Initiator THEN Responder ELSE Initiator

ASSUME HandoverAssumption ==
  Initiator # Responder /\ MaxCommands \in Nat /\ MaxFaults \in Nat

VARIABLES
  contact,   \* disk: what each side's contact record says of the handover
  opened,    \* disk: the envelopes the saved session has opened
  inbox,     \* relay: the bootstrap inbox of each side
  shared,    \* relay: the routing-id mailbox, what each side reads in it
  step,      \* where the operation holding the session lock stands
  pass,      \* what a receive pass holds in memory
  command,   \* the user's command and the contact record it loaded
  cut,       \* history: sides stopped before their announce was kept
  undone,    \* history: sides whose record an older copy overwrote
  commands, faults

relayVars == <<inbox, shared>>
diskVars == <<contact, opened>>
historyVars == <<cut, undone>>
boundVars == <<commands, faults>>
vars == <<diskVars, relayVars, step, pass, command, historyVars, boundVars>>

-----------------------------------------------------------------------------
(* A contact record: known, the peer's routing id and with it the switched *)
(* mailbox; confirmed, the peer was heard from there; kept, the announce   *)
(* to re-send.                                                             *)
Contacts == [known : BOOLEAN, confirmed : BOOLEAN, kept : BOOLEAN]
NewContact == [known |-> FALSE, confirmed |-> FALSE, kept |-> FALSE]

(* Zero is the announce; a command's envelope has its number.                *)
Announce == 0
Envelopes == Announce..MaxCommands
Nothing == <<>>
Passes == [batch : Seq(Envelopes), opened : SUBSET Envelopes, lost : BOOLEAN,
           switched : BOOLEAN, confirmed : BOOLEAN, any : BOOLEAN]
NoPass == [batch |-> <<>>, opened |-> {}, lost |-> FALSE,
           switched |-> FALSE, confirmed |-> FALSE, any |-> FALSE]

Init ==
  /\ contact = [p \in Parties |-> NewContact]
  /\ opened = [p \in Parties |-> {}]
  /\ inbox = [p \in Parties |-> <<>>]
  /\ shared = [p \in Parties |-> <<>>]
  /\ step = [p \in Parties |-> "paired"]
  /\ pass = [p \in Parties |-> NoPass]
  /\ command = [p \in Parties |-> Nothing]
  /\ cut = {} /\ undone = {}
  /\ commands = 0 /\ faults = 0

Fault == faults < MaxFaults /\ faults' = faults + 1
At(p, s) == step' = [step EXCEPT ![p] = s]
ToInbox(p, e) ==
  /\ inbox' = [inbox EXCEPT ![Peer(p)] = Append(inbox[Peer(p)], e)]
  /\ UNCHANGED shared
ToShared(p, e) ==
  /\ shared' = [shared EXCEPT ![Peer(p)] = Append(shared[Peer(p)], e)]
  /\ UNCHANGED inbox

(* One MailboxWrite: accepted, or unanswered whether queued or not.        *)
Sent(p, write, ok, lost) ==
  \/ write /\ ok /\ UNCHANGED faults
  \/ (write \/ UNCHANGED relayVars) /\ lost /\ Fault

-----------------------------------------------------------------------------
(* Announcing: the session is saved, then the announce is kept in the      *)
(* contact record as stored now, then it is written to the peer's          *)
(* bootstrap inbox, whatever mailbox this side uses by then.               *)
MutKeepAnnounce(p) ==
  /\ step[p] = "paired" /\ At(p, "kept")
  /\ UNCHANGED <<diskVars, relayVars, pass, command, historyVars, boundVars>>
KeepAnnounce(p) ==
  /\ step[p] = "paired"
  /\ contact' = [contact EXCEPT ![p].kept = TRUE]
  /\ At(p, "kept")
  /\ UNCHANGED <<opened, relayVars, pass, command, historyVars, boundVars>>

WriteAnnounce(p) ==
  /\ step[p] = "kept"
  /\ Sent(p, ToInbox(p, Announce), At(p, "idle"), At(p, "idle"))
  /\ UNCHANGED <<diskVars, pass, command, historyVars, commands>>

-----------------------------------------------------------------------------
(* A command loads the contact, and only then waits for the lock.          *)
LoadContact(p, kind) ==
  /\ command[p] = Nothing /\ commands < MaxCommands
  /\ commands' = commands + 1
  /\ command' = [command EXCEPT ![p] =
                   [kind |-> kind, contact |-> contact[p], id |-> commands + 1]]
  /\ UNCHANGED <<diskVars, relayVars, step, pass, historyVars, faults>>

Runs(p, kind) == command[p] # Nothing /\ command[p].kind = kind
Done(p) == command' = [command EXCEPT ![p] = Nothing]
WriteWhere(p, c) == IF c.known THEN ToShared(p, command[p].id) ELSE ToInbox(p, command[p].id)

(* A chat goes where the loaded record says; once it is accepted the       *)
(* announce is sent again if the record stored now calls for it.           *)
WriteChat(p) ==
  /\ step[p] = "idle" /\ Runs(p, "chat")
  /\ Sent(p, WriteWhere(p, command[p].contact), At(p, "chat sent"), UNCHANGED step)
  /\ Done(p)
  /\ UNCHANGED <<diskVars, pass, historyVars, commands>>

MutResends(c) == c.kept /\ ~c.confirmed /\ ~c.known
Resends(c) == c.kept /\ ~c.confirmed /\ c.known
Reannounce(p) ==
  /\ step[p] = "chat sent"
  /\ IF Resends(contact[p])
     THEN Sent(p, ToInbox(p, Announce), At(p, "idle"), At(p, "idle"))
     ELSE At(p, "idle") /\ UNCHANGED <<relayVars, faults>>
  /\ UNCHANGED <<diskVars, pass, command, historyVars, commands>>

(* Saving a copy loaded earlier: undone if it takes back what was stored   *)
(* meanwhile.                                                              *)
TakesBack(old, new) == (old.known /\ ~new.known) \/ (old.kept /\ ~new.kept)
SaveLoaded(p) ==
  /\ contact' = [contact EXCEPT ![p] = command[p].contact]
  /\ undone' = IF TakesBack(contact[p], command[p].contact) THEN undone \union {p} ELSE undone
  /\ UNCHANGED <<opened, cut>>

(* set_wipe_policy: saved with the new preference, announced, and saved    *)
(* again with the boundary once the announce is accepted.                  *)
SavePolicy(p) ==
  /\ step[p] = "idle" /\ Runs(p, "policy")
  /\ SaveLoaded(p) /\ At(p, "policy saved")
  /\ UNCHANGED <<relayVars, pass, command, boundVars>>
WritePolicy(p) ==
  /\ step[p] = "policy saved"
  /\ Sent(p, WriteWhere(p, command[p].contact), SaveLoaded(p),
          UNCHANGED <<diskVars, historyVars>>)
  /\ At(p, "idle") /\ Done(p)
  /\ UNCHANGED <<pass, commands>>

(* decline_pending_wipe, without the session lock.                         *)
Decline(p) ==
  /\ Runs(p, "decline") /\ SaveLoaded(p) /\ Done(p)
  /\ UNCHANGED <<relayVars, step, pass, boundVars>>

-----------------------------------------------------------------------------
(* A receive pass reads the mailbox its contact record names; the poll     *)
(* loop is the only writer of what the record says of that, so the copy it *)
(* loaded is the stored one but for the commands above.                    *)
Fetch(p) ==
  /\ step[p] = "idle"
  /\ LET c == contact[p]
         box == IF c.known THEN shared[p] ELSE inbox[p]
     IN  /\ box # <<>>
         /\ pass' = [pass EXCEPT ![p] = [batch |-> box, opened |-> opened[p],
                       lost |-> FALSE, switched |-> c.known, confirmed |-> c.confirmed, any |-> FALSE]]
  /\ At(p, "apply")
  /\ UNCHANGED <<diskVars, relayVars, command, historyVars, boundVars>>

(* An envelope opens once; an announce switches this side at once.         *)
Switched(p) == [contact EXCEPT ![p].known = TRUE]
ApplyEntry(p) ==
  LET e == Head(pass[p].batch) IN
  /\ step[p] = "apply" /\ pass[p].batch # <<>>
  /\ IF e \in pass[p].opened
     THEN UNCHANGED <<contact, pass>>
     ELSE /\ contact' = IF e = Announce THEN Switched(p) ELSE contact
          /\ pass' = [pass EXCEPT ![p].opened = pass[p].opened \union {e}, ![p].any = TRUE]
  /\ At(p, "delete")
  /\ UNCHANGED <<opened, relayVars, command, historyVars, boundVars>>

RemovedFrom(p) ==
  IF pass[p].switched
  THEN shared' = [shared EXCEPT ![p] = Tail(shared[p])] /\ UNCHANGED inbox
  ELSE inbox' = [inbox EXCEPT ![p] = Tail(inbox[p])] /\ UNCHANGED shared
InBox(p) == pass[p].batch = SubSeq(IF pass[p].switched THEN shared[p] ELSE inbox[p],
                                   1, Len(pass[p].batch))
GiveUp(p) == At(p, "idle") /\ pass' = [pass EXCEPT ![p] = NoPass]
DeleteEntry(p) ==
  /\ step[p] = "delete"
  /\ IF pass[p].lost THEN GiveUp(p) /\ UNCHANGED <<relayVars, faults>>
     ELSE Sent(p, IF InBox(p) THEN RemovedFrom(p) ELSE UNCHANGED relayVars,
               /\ At(p, "apply")
               /\ pass' = [pass EXCEPT ![p].batch = Tail(pass[p].batch)],
               GiveUp(p))
  /\ UNCHANGED <<diskVars, command, historyVars, commands>>

(* Mail that opened in the routing-id mailbox confirms the switch.         *)
MutConfirms(q) == q.any /\ ~q.confirmed
Confirms(q) == q.switched /\ q.any /\ ~q.confirmed
EndPass(p) ==
  /\ step[p] = "apply" /\ pass[p].batch = <<>>
  /\ opened' = [opened EXCEPT ![p] = pass[p].opened]
  /\ contact' = IF Confirms(pass[p]) THEN [contact EXCEPT ![p].confirmed = TRUE] ELSE contact
  /\ GiveUp(p)
  /\ UNCHANGED <<relayVars, command, historyVars, boundVars>>

-----------------------------------------------------------------------------
(* The app stops: nothing later resumes an announce that was not kept.     *)
Crash(p) ==
  /\ Fault
  /\ cut' = IF step[p] = "paired" THEN cut \union {p} ELSE cut
  /\ GiveUp(p) /\ Done(p)
  /\ UNCHANGED <<diskVars, relayVars, undone, commands>>

(* The relay loses what it has queued.                                     *)
RelayRestart ==
  /\ Fault
  /\ inbox' = [p \in Parties |-> <<>>] /\ shared' = [p \in Parties |-> <<>>]
  /\ pass' = [p \in Parties |-> [pass[p] EXCEPT !.lost = step[p] \in {"apply", "delete"}]]
  /\ UNCHANGED <<diskVars, step, command, historyVars, commands>>

(* The bootstrap inbox is one for all contacts: the pass of another that   *)
(* has not switched yet cannot open this conversation's mail there, and    *)
(* deletes it (receive_pending's known limitation).                        *)
OtherContactDeletes(p) ==
  /\ step[p] = "idle" /\ inbox[p] # <<>> /\ Fault
  /\ inbox' = [inbox EXCEPT ![p] = Tail(inbox[p])]
  /\ UNCHANGED <<diskVars, shared, step, pass, command, historyVars, commands>>

Kinds == {"chat", "policy", "decline"}
Next ==
  \/ \E p \in Parties :
       \/ KeepAnnounce(p) \/ WriteAnnounce(p)
       \/ \E kind \in Kinds : LoadContact(p, kind)
       \/ WriteChat(p) \/ Reannounce(p) \/ SavePolicy(p) \/ WritePolicy(p) \/ Decline(p)
       \/ Fetch(p) \/ ApplyEntry(p) \/ DeleteEntry(p) \/ EndPass(p)
       \/ Crash(p) \/ OtherContactDeletes(p)
  \/ RelayRestart

Spec == Init /\ [][Next]_vars

-----------------------------------------------------------------------------
(* Every variable has its type, and an idle device holds no fetched mail.  *)
TypeOK ==
  /\ contact \in [Parties -> Contacts]
  /\ opened \in [Parties -> SUBSET Envelopes]
  /\ inbox \in [Parties -> Seq(Envelopes)] /\ shared \in [Parties -> Seq(Envelopes)]
  /\ step \in [Parties -> {"paired", "kept", "idle", "chat sent", "policy saved",
                           "apply", "delete"}]
  /\ pass \in [Parties -> Passes]
  /\ \A p \in Parties : step[p] = "idle" => pass[p] = NoPass
  /\ command \in [Parties -> {Nothing} \union
                    [kind : Kinds, contact : Contacts, id : 1..MaxCommands]]
  /\ cut \subseteq Parties /\ undone \subseteq Parties
  /\ commands \in 0..MaxCommands /\ faults \in 0..MaxFaults

(* While one side has switched and the other has not, the other can still  *)
(* learn the routing id: the announce waits in its inbox, or the next chat *)
(* will send it again and it will open (reannounce_routing_id_if_unconfirmed:*)
(* "lets the peer catch up"; adr 0002: a side that has switched keeps      *)
(* re-sending until it hears from the peer).                               *)
Waits(p, e) == \E i \in DOMAIN inbox[p] : inbox[p][i] = e
CanCatchUp(p) ==
  \/ Waits(Peer(p), Announce)
  \/ step[p] \in {"paired", "kept"}
  \/ Resends(contact[p]) /\ Announce \notin opened[Peer(p)]
PeerCatchesUp ==
  \A p \in Parties : contact[p].known /\ ~contact[Peer(p)].known => CanCatchUp(p)

(* The same as long as no stop came between pairing and keeping the        *)
(* announce, and no command saved a contact record loaded before the       *)
(* handover changed it.                                                    *)
PeerCatchesUpInOrder == cut # {} \/ undone # {} \/ PeerCatchesUp

(* A side stops re-sending only when the other has really switched         *)
(* (mark_routing_confirmed).                                               *)
ConfirmedHasSwitched ==
  \A p \in Parties : contact[p].confirmed => contact[Peer(p)].known \/ Peer(p) \in undone
=============================================================================
