------------------------------ MODULE Pairing -------------------------------
(***************************************************************************)
(* How a device is reached the first time: it publishes a prekey bundle to *)
(* the relay's directory (publish_under_candidates, publish_bundle), an    *)
(* initiator fetches the bundle (fetch_bundle), seals a first contact to   *)
(* it and writes it to the device's bootstrap inbox                        *)
(* (add_contact_by_username), and the device accepts the one that carries  *)
(* its pairing code (receive_first_contact_attempts).                      *)
(*                                                                         *)
(* One device, the responder, and its initiators, one attempt each.  The   *)
(* responder does one thing at a time under its session lock, except that  *)
(* generate_pairing_code takes no lock.  A key stands for its key pair:    *)
(* two keys of one id are different keys.  A first contact opens if the    *)
(* responder still holds the secrets of the keys it was sealed to.  Handle *)
(* collisions are left out: the responder always gets a handle back.       *)
(***************************************************************************)
EXTENDS Naturals, Sequences, FiniteSets

CONSTANTS Initiators,
          DirectoryKept, \* whether the relay keeps its directory on disk
          BatchSize,     \* one-time prekeys per publication (10)
          LowPool,       \* the pool is replenished from here down (3)
          MaxAttempts,   \* first contacts judged per pairing code (5)
          MaxBatches, MaxCodes, MaxFaults \* bounds on the exploration

ASSUME PairingAssumption ==
  /\ DirectoryKept \in BOOLEAN
  /\ BatchSize \in Nat \ {0} /\ LowPool \in Nat
  /\ MaxAttempts \in Nat \ {0}
  /\ MaxBatches \in Nat \ {0} /\ MaxCodes \in Nat /\ MaxFaults \in Nat

VARIABLES
  directory, \* relay: the responder's bundle, or none
  kept,      \* relay's disk: the bundle as last saved
  inbox,     \* relay: the first contacts in the responder's bootstrap inbox
  acct,      \* responder's memory: signed prekey and one-time prekeys
  saved,     \* responder's disk: the account
  code,      \* responder's disk: the pairing code that is live
  contact,   \* responder's disk: the contacts it saved
  session,   \* responder's disk: the contacts it saved a session for
  step,      \* responder: where the operation holding the lock stands
  scan,      \* responder: the fetched first contacts left in this pass
  loaded,    \* responder: the code read for the first one
  dirty,     \* responder: a one-time prekey was taken in this pass
  refused,   \* history: the last publication was refused
  attempt,   \* each initiator: how far its attempt is
  bundle,    \* each initiator: the keys it fetched
  paired,    \* each initiator's disk: its contact and session are saved
  handed,    \* history: one-time prekeys in an answered or lost fetch
  repeated,  \* history: those handed out more than once
  unsaved,   \* history: those whose removal the relay's disk refused
  accepted,  \* history: who was accepted, for which code, in order
  judged,    \* history: comparisons made with each code
  outlived,  \* history: first contacts dropped for a rotated signed prekey
  batches, codes, faults

relayVars == <<directory, kept, inbox>>
accountVars == <<acct, saved>>
contactVars == <<contact, session>>
passVars == <<scan, loaded, dirty>>
initiatorVars == <<attempt, bundle, paired>>
keyHistory == <<handed, repeated, unsaved>>
scanHistory == <<accepted, judged, outlived>>
vars == <<relayVars, accountVars, code, contactVars, step, passVars, initiatorVars,
          keyHistory, scanHistory, refused, batches, codes, faults>>

-----------------------------------------------------------------------------
(* A one-time prekey: its id, and the batch that generated it.             *)
Keys == [id : Nat, batch : Nat]
NoKey == [id |-> 0, batch |-> 0]
Nothing == <<>>

Batch(next, b) == [id : next..(next + BatchSize - 1), batch : {b}]
Account(spk, held, next) == [spk |-> spk, held |-> held, next |-> next]
Published(a) == [spk |-> a.spk, keys |-> a.held]

(* A first contact: who sent it, the keys it was sealed to, and the code.  *)
Wire(a, keys, guess) == [from |-> a, spk |-> keys.spk, otp |-> keys.otp, guess |-> guess]
NoCode == [id |-> 0, attempts |-> 0, expired |-> TRUE]

Init ==
  /\ acct = Account(1, Batch(1, 1), 1 + BatchSize)
  /\ saved = acct
  /\ directory = Published(acct) /\ kept = directory
  /\ inbox = <<>>
  /\ code = NoCode
  /\ contact = {} /\ session = {}
  /\ step = "idle" /\ scan = <<>> /\ loaded = NoCode /\ dirty = FALSE
  /\ attempt = [a \in Initiators |-> "none"]
  /\ bundle = [a \in Initiators |-> Nothing]
  /\ paired = {}
  /\ handed = {} /\ repeated = {} /\ unsaved = {}
  /\ accepted = <<>> /\ judged = [c \in 1..MaxCodes |-> 0] /\ outlived = {} /\ refused = FALSE
  /\ batches = 1 /\ codes = 0 /\ faults = 0

Fault == faults < MaxFaults /\ faults' = faults + 1

(* An operation of the responder ends; with its connection, or without.    *)
End(s) == step' = s /\ scan' = <<>> /\ loaded' = NoCode /\ dirty' = FALSE

-----------------------------------------------------------------------------
(* Publishing. Every publication generates a batch that replaces the one   *)
(* before, in memory first, and rotates the signed prekey when that is due *)
(* (publish_under_candidates).                                             *)
GenerateBatch(rotate) ==
  /\ batches < MaxBatches /\ batches' = batches + 1
  /\ acct' = Account(IF rotate THEN batches + 1 ELSE acct.spk,
                     Batch(acct.next, batches + 1), acct.next + BatchSize)
  /\ step' = "publishing"
  /\ UNCHANGED <<relayVars, saved, code, contactVars, passVars, initiatorVars,
                 keyHistory, scanHistory, refused, codes, faults>>

(* After a reconnection before anything else, when the user renames the    *)
(* profile, and when a rotation is due or the relay's answer says that the *)
(* pool is low (it counts none when it has lost the bundle).               *)
Reconcile(rotate) == step = "offline" /\ GenerateBatch(rotate)
Rename(rotate) == step = "idle" /\ GenerateBatch(rotate)

OwnPrekeyCount == IF directory = Nothing THEN 0 ELSE Cardinality(directory.keys)
Replenish(rotate) ==
  step = "idle" /\ (rotate \/ OwnPrekeyCount <= LowPool) /\ GenerateBatch(rotate)

(* The relay replaces the bundle and, when it keeps the directory, saves   *)
(* it. A refused publication is only logged: the connection is used as it  *)
(* is until the next one.                                                  *)
MutReplaced(a) ==
  [spk |-> a.spk, keys |-> a.held \union (IF directory = Nothing THEN {} ELSE directory.keys)]
Replaced(a) == Published(a)
PublishBundle ==
  /\ directory' = Replaced(acct)
  /\ kept' = IF DirectoryKept THEN directory' ELSE kept
  /\ UNCHANGED inbox

Publish ==
  /\ step = "publishing"
  /\ \/ PublishBundle /\ step' = "published" /\ UNCHANGED <<passVars, faults>>
     \/ Fault /\ End("idle") /\ UNCHANGED relayVars
     \/ Fault /\ End("offline") /\ (UNCHANGED relayVars \/ PublishBundle)
  /\ refused' = (step' = "idle")
  /\ UNCHANGED <<accountVars, code, contactVars, initiatorVars, keyHistory,
                 scanHistory, batches, codes>>

SaveAccount ==
  /\ step = "published" /\ saved' = acct /\ step' = "idle"
  /\ UNCHANGED <<relayVars, acct, code, contactVars, passVars, initiatorVars,
                 keyHistory, scanHistory, refused, batches, codes, faults>>

-----------------------------------------------------------------------------
(* An initiator fetches the bundle: the relay takes one one-time prekey    *)
(* out of the pool, if any is left, and saves the pool before it answers.  *)
(* An answer that is lost, or whose signed prekey has expired, is the end  *)
(* of the attempt.                                                         *)
TakenFrom(keys, k) == IF k = NoKey THEN keys ELSE keys \ {k}
MutSavesPool(k) == FALSE
SavesPool(k) == DirectoryKept /\ k # NoKey
FetchBundle(a) ==
  /\ attempt[a] = "none" /\ directory # Nothing
  /\ \E k \in (IF directory.keys = {} THEN {NoKey} ELSE directory.keys) :
       /\ directory' = [directory EXCEPT !.keys = TakenFrom(directory.keys, k)]
       /\ \/ /\ kept' = IF SavesPool(k) THEN directory' ELSE kept
             /\ UNCHANGED <<unsaved, faults>>
          \/ k # NoKey /\ Fault /\ unsaved' = unsaved \union {k} /\ UNCHANGED kept
       /\ handed' = handed \union ({k} \ {NoKey})
       /\ repeated' = repeated \union ({k} \intersect handed)
       /\ bundle' = [bundle EXCEPT ![a] = [spk |-> directory.spk, otp |-> k]]
  /\ \E answered \in BOOLEAN :
       attempt' = [attempt EXCEPT ![a] = IF answered THEN "fetched" ELSE "given up"]
  /\ UNCHANGED <<inbox, accountVars, code, contactVars, step, passVars, paired,
                 scanHistory, refused, batches, codes>>

(* It writes its first contact, with a code it was told or a wrong one,    *)
(* and saves contact and session only once the write is acknowledged.      *)
Reaches(a, guess) == inbox' = Append(inbox, Wire(a, bundle[a], guess)) /\ UNCHANGED <<directory, kept>>
WriteFirstContact(a, guess) ==
  /\ attempt[a] = "fetched"
  /\ \/ /\ Reaches(a, guess)
        /\ attempt' = [attempt EXCEPT ![a] = "acknowledged"]
        /\ UNCHANGED faults
     \/ /\ Fault /\ (Reaches(a, guess) \/ UNCHANGED relayVars)
        /\ attempt' = [attempt EXCEPT ![a] = "given up"]
  /\ UNCHANGED <<accountVars, code, contactVars, step, passVars, bundle, paired,
                 keyHistory, scanHistory, refused, batches, codes>>

SavePairing(a) ==
  /\ attempt[a] = "acknowledged"
  /\ attempt' = [attempt EXCEPT ![a] = "done"] /\ paired' = paired \union {a}
  /\ UNCHANGED <<relayVars, accountVars, code, contactVars, step, passVars, bundle,
                 keyHistory, scanHistory, refused, batches, codes, faults>>

-----------------------------------------------------------------------------
(* The user asks for a code at any time; it replaces the one before.       *)
GenerateCode ==
  /\ codes < MaxCodes /\ codes' = codes + 1
  /\ code' = [id |-> codes + 1, attempts |-> 0, expired |-> FALSE]
  /\ UNCHANGED <<relayVars, accountVars, contactVars, step, passVars, initiatorVars,
                 keyHistory, scanHistory, refused, batches, faults>>

(* Its ten minutes pass.                                                   *)
ExpireCode ==
  /\ code # NoCode /\ ~code.expired /\ code' = [code EXCEPT !.expired = TRUE]
  /\ loaded' = [loaded EXCEPT !.expired = TRUE]
  /\ UNCHANGED <<relayVars, accountVars, contactVars, step, scan, dirty, initiatorVars,
                 keyHistory, scanHistory, refused, batches, codes, faults>>

-----------------------------------------------------------------------------
(* A pass over the inbox (receive_first_contact_attempts).                 *)
Fetch ==
  /\ step = "idle" /\ inbox # <<>>
  /\ scan' = inbox /\ step' = "scan"
  /\ UNCHANGED <<relayVars, accountVars, code, contactVars, loaded, dirty, initiatorVars,
                 keyHistory, scanHistory, refused, batches, codes, faults>>

(* The one-time prekey is looked at, not yet taken. What does not open, or *)
(* finds no code stored, is dropped without a trace (try_accept_first_contact). *)
Judges(c) == ~c.expired /\ c.attempts < MaxAttempts
Opens(w) == w.spk = acct.spk /\ (w.otp = NoKey \/ w.otp \in acct.held)
LoadCode ==
  /\ step = "scan" /\ scan # <<>>
  /\ loaded' = IF Opens(Head(scan)) THEN code ELSE NoCode
  /\ step' = IF loaded' = NoCode THEN "delete" ELSE "judge"
  /\ outlived' = IF Head(scan).spk # acct.spk /\ Judges(code) /\ Head(scan).guess = code.id
                 THEN outlived \union {Head(scan).from} ELSE outlived
  /\ UNCHANGED <<relayVars, accountVars, code, contactVars, scan, dirty, initiatorVars,
                 keyHistory, accepted, judged, refused, batches, codes, faults>>

(* Every comparison counts as an attempt and is saved, right or wrong      *)
(* (PairingCode::verify).                                                  *)
MutCounted(c) == c
Counted(c) == IF Judges(c) THEN [c EXCEPT !.attempts = c.attempts + 1] ELSE c
JudgeCode ==
  LET w == Head(scan) IN
  /\ step = "judge"
  /\ code' = Counted(loaded)
  /\ judged' = IF Judges(loaded) THEN [judged EXCEPT ![loaded.id] = judged[loaded.id] + 1]
               ELSE judged
  /\ step' = IF Judges(loaded) /\ w.guess = loaded.id THEN "matched" ELSE "delete"
  /\ UNCHANGED <<relayVars, accountVars, contactVars, passVars, initiatorVars,
                 keyHistory, accepted, outlived, refused, batches, codes, faults>>

(* On a match the code is consumed, then the one-time prekey is taken from *)
(* memory; the account is saved at the end of the pass only.               *)
MutAfterMatch == code
AfterMatch == NoCode
Accept ==
  LET w == Head(scan) IN
  /\ step = "matched"
  /\ code' = AfterMatch
  /\ acct' = [acct EXCEPT !.held = acct.held \ {w.otp}]
  /\ dirty' = (dirty \/ w.otp # NoKey)
  /\ accepted' = Append(accepted, [from |-> w.from, code |-> loaded.id])
  /\ step' = "contact"
  /\ UNCHANGED <<relayVars, saved, contactVars, scan, loaded, initiatorVars,
                 keyHistory, judged, outlived, refused, batches, codes, faults>>

SaveContact ==
  /\ step = "contact" /\ contact' = contact \union {Head(scan).from} /\ step' = "session"
  /\ UNCHANGED <<relayVars, accountVars, code, session, passVars, initiatorVars,
                 keyHistory, scanHistory, refused, batches, codes, faults>>
SaveSession ==
  /\ step = "session" /\ session' = session \union {Head(scan).from} /\ step' = "announce"
  /\ UNCHANGED <<relayVars, accountVars, code, contact, passVars, initiatorVars,
                 keyHistory, scanHistory, refused, batches, codes, faults>>

(* A request that fails ends the pass there: neither the rest of the inbox *)
(* nor the account is dealt with.                                          *)
Fails == Fault /\ \E s \in {"idle", "offline"} : End(s)

Announce ==
  /\ step = "announce"
  /\ \/ step' = "delete" /\ UNCHANGED <<passVars, faults>>
     \/ Fails
  /\ UNCHANGED <<relayVars, accountVars, code, contactVars, initiatorVars,
                 keyHistory, scanHistory, refused, batches, codes>>

Remaining ==
  LET gone == {i \in DOMAIN inbox : inbox[i] = Head(scan)}
      i == CHOOSE j \in gone : TRUE
  IN IF gone = {} THEN inbox ELSE SubSeq(inbox, 1, i - 1) \o SubSeq(inbox, i + 1, Len(inbox))
Removed == inbox' = Remaining
DeleteWire ==
  /\ step = "delete"
  /\ \/ /\ Removed /\ step' = "scan" /\ scan' = Tail(scan) /\ loaded' = NoCode
        /\ UNCHANGED <<dirty, faults>>
     \/ Fails /\ (Removed \/ UNCHANGED inbox)
  /\ UNCHANGED <<directory, kept, accountVars, code, contactVars, initiatorVars,
                 keyHistory, scanHistory, refused, batches, codes>>

EndScan ==
  /\ step = "scan" /\ scan = <<>> /\ End("idle")
  /\ saved' = IF dirty THEN acct ELSE saved
  /\ UNCHANGED <<relayVars, acct, code, contactVars, initiatorVars,
                 keyHistory, scanHistory, refused, batches, codes, faults>>

-----------------------------------------------------------------------------
(* The responder's app stops, or its connection is lost between two        *)
(* requests; the relay restarts without mail, and with the directory it    *)
(* had saved, if it saves it.                                              *)
Crash ==
  /\ Fault /\ acct' = saved /\ End("offline")
  /\ UNCHANGED <<relayVars, saved, code, contactVars, initiatorVars,
                 keyHistory, scanHistory, refused, batches, codes>>
Disconnect ==
  /\ step = "idle" /\ Fault /\ End("offline")
  /\ UNCHANGED <<relayVars, accountVars, code, contactVars, initiatorVars,
                 keyHistory, scanHistory, refused, batches, codes>>
RelayRestart ==
  /\ step \in {"idle", "offline"} /\ Fault /\ End("offline")
  /\ directory' = IF DirectoryKept THEN kept ELSE Nothing
  /\ inbox' = <<>>
  /\ UNCHANGED <<kept, accountVars, code, contactVars, initiatorVars,
                 keyHistory, scanHistory, refused, batches, codes>>

Next ==
  \/ \E rotate \in BOOLEAN : Reconcile(rotate) \/ Rename(rotate) \/ Replenish(rotate)
  \/ Publish \/ SaveAccount
  \/ \E a \in Initiators :
       \/ FetchBundle(a) \/ SavePairing(a)
       \/ \E guess \in 0..codes : WriteFirstContact(a, guess)
  \/ GenerateCode \/ ExpireCode
  \/ Fetch \/ LoadCode \/ JudgeCode \/ Accept \/ SaveContact \/ SaveSession
  \/ Announce \/ DeleteWire \/ EndScan
  \/ Crash \/ Disconnect \/ RelayRestart

Spec == Init /\ [][Next]_vars

-----------------------------------------------------------------------------
Accounts == [spk : Nat, held : SUBSET Keys, next : Nat]
Codes == [id : Nat, attempts : 0..MaxAttempts, expired : BOOLEAN]
Wires == [from : Initiators, spk : Nat, otp : Keys, guess : Nat]
Steps == {"idle", "offline", "publishing", "published", "scan", "judge",
          "matched", "contact", "session", "announce", "delete"}

(* Every variable has its type, and the steps that work on a first contact *)
(* have one.                                                               *)
TypeOK ==
  /\ directory = Nothing \/ (directory.spk \in Nat /\ directory.keys \subseteq Keys)
  /\ kept = Nothing \/ (kept.spk \in Nat /\ kept.keys \subseteq Keys)
  /\ inbox \in Seq(Wires) /\ scan \in Seq(Wires)
  /\ acct \in Accounts /\ saved \in Accounts
  /\ code \in Codes /\ loaded \in Codes /\ dirty \in BOOLEAN
  /\ contact \subseteq Initiators /\ session \subseteq Initiators /\ paired \subseteq Initiators
  /\ step \in Steps
  /\ step \in {"judge", "matched", "contact", "session", "announce", "delete"} => scan # <<>>
  /\ attempt \in [Initiators -> {"none", "fetched", "given up", "acknowledged", "done"}]
  /\ accepted \in Seq([from : Initiators, code : Nat])
  /\ faults \in 0..MaxFaults /\ codes \in 0..MaxCodes /\ batches \in 0..MaxBatches

(* A one-time prekey is handed to one initiator, whatever restarts of the  *)
(* relay come between, unless its disk refused to save the shrunk pool     *)
(* (fetch_bundle, Persistence::save: "a restart must never un-consume one  *)
(* already handed out").                                                   *)
HandedOutOnce == repeated \subseteq unsaved

(* A connected device that is not publishing holds, in memory and on disk, *)
(* the secrets of every key pair the directory offers, so that whoever     *)
(* fetches now can be answered, but for the time after a refusal           *)
(* (generate_one_time_prekeys replaces, publish_bundle replaces).          *)
OfferedIsHeld ==
  step = "idle" /\ directory # Nothing /\ ~refused =>
    \A a \in {acct, saved} : directory.spk = a.spk /\ directory.keys \subseteq a.held

(* A first contact is accepted once, and a code accepts one first contact, *)
(* however often the entry is processed again after a stop or a failed     *)
(* request (clear_pairing_code before anything is saved).                  *)
AcceptedOnce ==
  \A i, j \in DOMAIN accepted : i # j =>
    accepted[i].from # accepted[j].from /\ accepted[i].code # accepted[j].code

(* No code is compared to more first contacts than its attempts allow,     *)
(* across stops, redeliveries and newer codes (PairingCode::verify).       *)
GuessesBounded == \A c \in 1..MaxCodes : judged[c] <= MaxAttempts

(* An initiator that fetched just before a rotation is not turned away for *)
(* it (account.rs, signed_prekey_expires_at).                              *)
RotationSparesInFlight == outlived = {}
=============================================================================
