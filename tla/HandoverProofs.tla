--------------------------- MODULE HandoverProofs ---------------------------
(***************************************************************************)
(* Proofs about Handover, for any number of commands and faults.           *)
(*                                                                         *)
(* A side counts as switched once its contact record knows the peer's      *)
(* routing id; only saving an older copy takes that back, and undone       *)
(* remembers it.  SwitchInv ties everything that follows from a switch to  *)
(* it: mail in the routing-id mailbox, the copies of the contact record    *)
(* and of the mailbox held in memory, an opened announce, a confirmation.  *)
(***************************************************************************)
EXTENDS Handover, DataFacts, TLAPS

-----------------------------------------------------------------------------
(* Types, with what the step of an operation says of the pass and the      *)
(* command it works on.                                                    *)
Box(p) == IF pass[p].switched THEN shared[p] ELSE inbox[p]
InStep(p) ==
  /\ step[p] \notin {"apply", "delete"} => pass[p] = NoPass
  /\ step[p] = "delete" => pass[p].batch # <<>>
  /\ step[p] \in {"apply", "delete"} /\ ~pass[p].lost => Len(pass[p].batch) <= Len(Box(p))
  /\ step[p] = "policy saved" => Runs(p, "policy")
Typed == TypeOK /\ \A p \in Parties : InStep(p)

Commands == [kind : Kinds, contact : Contacts, id : 1..MaxCommands]

LEMMA PeerFacts ==
  ASSUME NEW p \in Parties
  PROVE  /\ Peer(p) \in Parties /\ Peer(p) # p /\ Peer(Peer(p)) = p
         /\ \A r \in Parties : r = p \/ r = Peer(p)
BY HandoverAssumption DEF Parties, Peer

LEMMA CommandTyped ==
  ASSUME Typed, NEW p \in Parties, command[p] # Nothing
  PROVE  /\ command[p] \in Commands /\ command[p].contact \in Contacts
         /\ command[p].id \in Envelopes
<1>1. command[p] \in Commands
  BY DEF Typed, TypeOK, Commands
<1>2. MaxCommands \in Nat
  BY HandoverAssumption
<1>3. 1..MaxCommands \subseteq 0..MaxCommands
  BY <1>2
<1> QED BY <1>1, <1>3 DEF Commands, Envelopes, Announce

LEMMA PassTyped ==
  ASSUME Typed, NEW p \in Parties
  PROVE  /\ pass[p] \in Passes /\ pass[p].batch \in Seq(Envelopes)
         /\ pass[p].opened \in SUBSET Envelopes
         /\ contact[p] \in Contacts /\ opened[p] \in SUBSET Envelopes
         /\ inbox[p] \in Seq(Envelopes) /\ shared[p] \in Seq(Envelopes)
BY DEF Typed, TypeOK, Passes

LEMMA NoPassTyped == NoPass \in Passes /\ NoPass.batch = <<>> /\ NoPass.opened = {}
                     /\ NoPass.any = FALSE /\ NoPass.lost = FALSE
BY EmptySeq DEF NoPass, Passes

LEMMA TypedNumbers ==
  ASSUME Typed
  PROVE  commands \in 0..MaxCommands /\ faults \in 0..MaxFaults
         /\ MaxCommands \in Nat /\ MaxFaults \in Nat
BY HandoverAssumption DEF Typed, TypeOK

LEMMA FaultTyped ==
  ASSUME Typed, Fault \/ UNCHANGED faults
  PROVE  faults' \in 0..MaxFaults
<1>1. CASE Fault
  BY <1>1, TypedNumbers DEF Fault
<1>2. CASE UNCHANGED faults
  BY <1>2, TypedNumbers
<1> QED BY <1>1, <1>2

(* Writing to the relay appends to one of the peer's two queues, or to     *)
(* neither.                                                                *)
Wrote(p, e) == ToInbox(p, e) \/ ToShared(p, e) \/ UNCHANGED relayVars

LEMMA WroteTyped ==
  ASSUME Typed, NEW p \in Parties, NEW e \in Envelopes, Wrote(p, e)
  PROVE  /\ inbox' \in [Parties -> Seq(Envelopes)] /\ shared' \in [Parties -> Seq(Envelopes)]
         /\ \A r \in Parties : Len(inbox[r]) <= Len(inbox'[r]) /\ Len(shared[r]) <= Len(shared'[r])
         /\ \A r \in Parties : inbox'[r] = inbox[r] \/ r = Peer(p)
         /\ \A r \in Parties : shared'[r] = shared[r] \/ (r = Peer(p) /\ ToShared(p, e))
<1>1. inbox \in [Parties -> Seq(Envelopes)] /\ shared \in [Parties -> Seq(Envelopes)]
  BY DEF Typed, TypeOK
<1>2. \A r \in Parties : Len(inbox[r]) \in Nat /\ Len(shared[r]) \in Nat
  BY <1>1, LenProperties
<1>3. \A q \in Seq(Envelopes) : Append(q, e) \in Seq(Envelopes) /\ Len(Append(q, e)) = Len(q) + 1
  BY AppendProperties
<1>4. Peer(p) \in Parties
  BY PeerFacts
<1>5. CASE ToInbox(p, e)
  <2>1. /\ inbox' = [inbox EXCEPT ![Peer(p)] = Append(inbox[Peer(p)], e)] /\ shared' = shared
    BY <1>5 DEF ToInbox
  <2>2. Append(inbox[Peer(p)], e) \in Seq(Envelopes)
        /\ Len(inbox[Peer(p)]) <= Len(Append(inbox[Peer(p)], e))
    BY <1>1, <1>2, <1>3, <1>4
  <2> QED BY <2>1, <2>2, <1>1, <1>2, <1>4
<1>6. CASE ToShared(p, e)
  <2>1. /\ shared' = [shared EXCEPT ![Peer(p)] = Append(shared[Peer(p)], e)] /\ inbox' = inbox
    BY <1>6 DEF ToShared
  <2>2. Append(shared[Peer(p)], e) \in Seq(Envelopes)
        /\ Len(shared[Peer(p)]) <= Len(Append(shared[Peer(p)], e))
    BY <1>1, <1>2, <1>3, <1>4
  <2> QED BY <2>1, <2>2, <1>1, <1>2, <1>4, <1>6
<1>7. CASE UNCHANGED relayVars
  BY <1>7, <1>1, <1>2 DEF relayVars
<1> QED BY <1>5, <1>6, <1>7 DEF Wrote

LEMMA AtMostTransitive ==
  \A a, b, c \in Nat : a <= b /\ b <= c => a <= c
OBVIOUS

LEMMA AtMostOneLess ==
  \A a, b, c \in Int : a <= b /\ (c = b \/ c = b - 1) => a - 1 <= c
OBVIOUS

(* A device that keeps its step, its pass and its command is left in step  *)
(* by mail that arrives; so is one whose pass is over.                     *)
LEMMA StaysInStep ==
  ASSUME Typed, NEW r \in Parties, step'[r] = step[r], pass'[r] = pass[r],
         command'[r] = command[r] \/ step[r] # "policy saved",
         inbox'[r] \in Seq(Envelopes), shared'[r] \in Seq(Envelopes),
         Len(inbox[r]) <= Len(inbox'[r]), Len(shared[r]) <= Len(shared'[r])
  PROVE  InStep(r)'
<1>1. InStep(r)
  BY DEF Typed
<1>2. /\ Len(inbox[r]) \in Nat /\ Len(shared[r]) \in Nat /\ Len(pass[r].batch) \in Nat
      /\ Len(inbox'[r]) \in Nat /\ Len(shared'[r]) \in Nat
  BY PassTyped, LenProperties
<1>3. ASSUME Len(pass[r].batch) <= Len(Box(r)) PROVE Len(pass'[r].batch) <= Len(Box(r)')
  <2>1. CASE pass[r].switched
    <3>1. Box(r) = shared[r] /\ Box(r)' = shared'[r]
      BY <2>1 DEF Box
    <3>2. Len(pass[r].batch) <= Len(shared'[r])
      <4>1. Len(pass[r].batch) <= Len(shared[r])
        BY <1>3, <3>1
      <4> QED BY <1>2, <4>1, AtMostTransitive
    <3>3. Len(pass'[r].batch) = Len(pass[r].batch) /\ Len(Box(r)') = Len(shared'[r])
      BY <3>1
    <3> QED BY <3>2, <3>3
  <2>2. CASE ~pass[r].switched
    <3>1. Box(r) = inbox[r] /\ Box(r)' = inbox'[r]
      BY <2>2 DEF Box
    <3>2. Len(pass[r].batch) <= Len(inbox'[r])
      <4>1. Len(pass[r].batch) <= Len(inbox[r])
        BY <1>3, <3>1
      <4> QED BY <1>2, <4>1, AtMostTransitive
    <3>3. Len(pass'[r].batch) = Len(pass[r].batch) /\ Len(Box(r)') = Len(inbox'[r])
      BY <3>1
    <3> QED BY <3>2, <3>3
  <2> QED BY <2>1, <2>2
<1>4. step'[r] = "policy saved" => Runs(r, "policy")'
  BY <1>1 DEF InStep, Runs
<1> QED BY <1>1, <1>3, <1>4 DEF InStep

LEMMA QuietInStep ==
  ASSUME NEW r \in Parties, pass'[r] = NoPass,
         step'[r] \notin {"apply", "delete", "policy saved"}
  PROVE  InStep(r)'
BY DEF InStep

LEMMA TypedInit == Init => Typed
<1> SUFFICES ASSUME Init PROVE Typed
  OBVIOUS
<1>1. contact \in [Parties -> Contacts]
  BY DEF Init, Contacts, NewContact
<1>2. opened \in [Parties -> SUBSET Envelopes]
  BY DEF Init
<1>3. inbox \in [Parties -> Seq(Envelopes)] /\ shared \in [Parties -> Seq(Envelopes)]
  BY EmptySeq DEF Init
<1>4. step \in [Parties -> {"paired", "kept", "idle", "chat sent", "policy saved",
                            "apply", "delete"}]
  BY DEF Init
<1>5. pass \in [Parties -> Passes] /\ \A p \in Parties : pass[p] = NoPass
  BY NoPassTyped DEF Init
<1>6. command \in [Parties -> {Nothing} \union Commands]
  BY DEF Init
<1>7. cut \subseteq Parties /\ undone \subseteq Parties
  BY DEF Init
<1>8. commands \in 0..MaxCommands /\ faults \in 0..MaxFaults
  BY HandoverAssumption DEF Init
<1>9. TypeOK
  BY <1>1, <1>2, <1>3, <1>4, <1>5, <1>6, <1>7, <1>8 DEF TypeOK, Commands
<1>10. \A p \in Parties : step[p] = "paired"
  BY DEF Init
<1> QED BY <1>5, <1>9, <1>10 DEF Typed, InStep

-----------------------------------------------------------------------------
(* The parts of the type, apart.                                           *)
DiskTyped == contact \in [Parties -> Contacts] /\ opened \in [Parties -> SUBSET Envelopes]
RelayTyped == inbox \in [Parties -> Seq(Envelopes)] /\ shared \in [Parties -> Seq(Envelopes)]
RestTyped ==
  /\ step \in [Parties -> {"paired", "kept", "idle", "chat sent", "policy saved",
                           "apply", "delete"}]
  /\ pass \in [Parties -> Passes]
  /\ command \in [Parties -> {Nothing} \union Commands]
  /\ cut \subseteq Parties /\ undone \subseteq Parties
  /\ commands \in 0..MaxCommands /\ faults \in 0..MaxFaults

LEMMA TypedParts ==
  ASSUME DiskTyped', RelayTyped', RestTyped', \A p \in Parties : InStep(p)'
  PROVE  Typed'
BY DEF Typed, TypeOK, DiskTyped, RelayTyped, RestTyped, Commands, InStep

LEMMA SameRelay ==
  ASSUME Typed, UNCHANGED relayVars
  PROVE  /\ RelayTyped'
         /\ \A r \in Parties : /\ inbox'[r] \in Seq(Envelopes) /\ shared'[r] \in Seq(Envelopes)
                               /\ Len(inbox[r]) <= Len(inbox'[r])
                               /\ Len(shared[r]) <= Len(shared'[r])
<1>1. inbox' = inbox /\ shared' = shared
  BY DEF relayVars
<1>2. \A r \in Parties : Len(inbox[r]) \in Nat /\ Len(shared[r]) \in Nat
  BY PassTyped, LenProperties
<1>3. \A r \in Parties : Len(inbox[r]) <= Len(inbox[r]) /\ Len(shared[r]) <= Len(shared[r])
  BY <1>2
<1>4. \A r \in Parties : inbox[r] \in Seq(Envelopes) /\ shared[r] \in Seq(Envelopes)
  BY PassTyped
<1>5. RelayTyped'
  BY <1>1 DEF Typed, TypeOK, RelayTyped
<1> QED BY <1>1, <1>3, <1>4, <1>5

LEMMA MoreMail ==
  ASSUME Typed, NEW p \in Parties, NEW e \in Envelopes, Wrote(p, e)
  PROVE  /\ RelayTyped'
         /\ \A r \in Parties : /\ inbox'[r] \in Seq(Envelopes) /\ shared'[r] \in Seq(Envelopes)
                               /\ Len(inbox[r]) <= Len(inbox'[r])
                               /\ Len(shared[r]) <= Len(shared'[r])
BY WroteTyped DEF RelayTyped

LEMMA SaveLoadedTyped ==
  ASSUME Typed, NEW p \in Parties, Runs(p, "policy") \/ Runs(p, "decline"), SaveLoaded(p)
  PROVE  DiskTyped' /\ cut' = cut /\ undone' \subseteq Parties
<1>1. command[p].contact \in Contacts
  BY CommandTyped DEF Runs
<1> QED BY <1>1 DEF SaveLoaded, DiskTyped, Typed, TypeOK

(* What an operation of p leaves alone of the other device.                *)
ActsAt(p) ==
  \A r \in Parties \ {p} :
    step'[r] = step[r] /\ pass'[r] = pass[r] /\ command'[r] = command[r]

LEMMA OthersInStep ==
  ASSUME Typed, NEW p \in Parties, ActsAt(p), NEW r \in Parties, r # p,
         inbox'[r] \in Seq(Envelopes), shared'[r] \in Seq(Envelopes),
         Len(inbox[r]) <= Len(inbox'[r]), Len(shared[r]) <= Len(shared'[r])
  PROVE  InStep(r)'
BY StaysInStep DEF ActsAt

-----------------------------------------------------------------------------
(* Every operation keeps the types.                                        *)
LEMMA ToIdle ==
  ASSUME Typed, NEW p \in Parties, NEW s \in {"kept", "idle", "chat sent", "policy saved"},
         At(p, s)
  PROVE  /\ step' \in [Parties -> {"paired", "kept", "idle", "chat sent", "policy saved",
                                   "apply", "delete"}]
         /\ step'[p] = s /\ \A r \in Parties \ {p} : step'[r] = step[r]
BY DEF At, Typed, TypeOK

LEMMA KeepAnnounceTyped ==
  ASSUME Typed, NEW p \in Parties, KeepAnnounce(p)
  PROVE  Typed'
<1> USE DEF relayVars, historyVars, boundVars
<1>1. At(p, "kept") /\ step[p] = "paired"
  BY DEF KeepAnnounce
<1>2. step' \in [Parties -> {"paired", "kept", "idle", "chat sent", "policy saved",
                             "apply", "delete"}]
      /\ step'[p] = "kept" /\ \A r \in Parties \ {p} : step'[r] = step[r]
  BY <1>1, ToIdle
<1>3. DiskTyped'
  <2>1. contact' = [contact EXCEPT ![p].kept = TRUE] /\ opened' = opened
    BY DEF KeepAnnounce
  <2>2. contact \in [Parties -> Contacts] /\ opened \in [Parties -> SUBSET Envelopes]
    BY DEF Typed, TypeOK
  <2>3. contact' \in [Parties -> Contacts]
    BY <2>1, <2>2 DEF Contacts
  <2> QED BY <2>1, <2>2, <2>3 DEF DiskTyped
<1>4. RelayTyped' /\ RestTyped'
  BY <1>2, SameRelay DEF KeepAnnounce, RestTyped, Typed, TypeOK, Commands
<1>5. InStep(p)'
  <2>1. pass[p] = NoPass /\ pass' = pass
    BY <1>1 DEF KeepAnnounce, Typed, InStep
  <2> QED BY <1>2, <2>1, QuietInStep
<1>6. ActsAt(p)
  BY <1>2 DEF KeepAnnounce, ActsAt
<1>7. \A r \in Parties : r # p => InStep(r)'
  BY <1>6, SameRelay, OthersInStep DEF KeepAnnounce
<1> QED BY <1>3, <1>4, <1>5, <1>7, TypedParts

LEMMA WriteAnnounceTyped ==
  ASSUME Typed, NEW p \in Parties, WriteAnnounce(p)
  PROVE  Typed'
<1> USE DEF diskVars, historyVars
<1>1. At(p, "idle") /\ step[p] = "kept" /\ Wrote(p, Announce) /\ (Fault \/ UNCHANGED faults)
  BY DEF WriteAnnounce, Sent, Wrote
<1>2. Announce \in Envelopes
  BY HandoverAssumption DEF Announce, Envelopes
<1>3. step' \in [Parties -> {"paired", "kept", "idle", "chat sent", "policy saved",
                             "apply", "delete"}]
      /\ step'[p] = "idle" /\ \A r \in Parties \ {p} : step'[r] = step[r]
  BY <1>1, ToIdle
<1>4. DiskTyped' /\ RestTyped'
  BY <1>1, <1>3, FaultTyped DEF WriteAnnounce, DiskTyped, RestTyped, Typed, TypeOK, Commands
<1>5. InStep(p)'
  <2>1. pass[p] = NoPass /\ pass' = pass
    BY <1>1 DEF WriteAnnounce, Typed, InStep
  <2> QED BY <1>3, <2>1, QuietInStep
<1>6. ActsAt(p)
  BY <1>3 DEF WriteAnnounce, ActsAt
<1>7. \A r \in Parties : r # p => InStep(r)'
  BY <1>1, <1>2, <1>6, MoreMail, OthersInStep
<1> QED BY <1>1, <1>2, <1>4, <1>5, <1>7, MoreMail, TypedParts

LEMMA LoadContactTyped ==
  ASSUME Typed, NEW p \in Parties, NEW kind \in Kinds, LoadContact(p, kind)
  PROVE  Typed'
<1> USE DEF diskVars, relayVars, historyVars
<1>1. commands + 1 \in 1..MaxCommands /\ commands' \in 0..MaxCommands
  BY TypedNumbers DEF LoadContact
<1>2. command' \in [Parties -> {Nothing} \union Commands]
  <2>1. [kind |-> kind, contact |-> contact[p], id |-> commands + 1] \in Commands
    BY <1>1, PassTyped DEF Commands
  <2> QED BY <2>1 DEF LoadContact, Typed, TypeOK, Commands
<1>3. DiskTyped' /\ RelayTyped' /\ RestTyped'
  BY <1>1, <1>2, SameRelay DEF LoadContact, DiskTyped, RestTyped, Typed, TypeOK
<1>4. step[p] # "policy saved"
  BY DEF LoadContact, Typed, InStep, Runs
<1>5. \A r \in Parties : InStep(r)'
  <2> TAKE r \in Parties
  <2>1. command'[r] = command[r] \/ step[r] # "policy saved"
    BY <1>4 DEF LoadContact, Typed, TypeOK
  <2>2. step'[r] = step[r] /\ pass'[r] = pass[r]
    BY DEF LoadContact
  <2>3. UNCHANGED relayVars
    BY DEF LoadContact
  <2> QED BY <2>1, <2>2, <2>3, SameRelay, StaysInStep
<1> QED BY <1>3, <1>5, TypedParts

LEMMA WhereWrote ==
  ASSUME NEW p \in Parties, NEW c, WriteWhere(p, c)
  PROVE  Wrote(p, command[p].id)
BY DEF WriteWhere, Wrote

LEMMA DoneTyped ==
  ASSUME Typed, NEW p \in Parties, Done(p)
  PROVE  /\ command' \in [Parties -> {Nothing} \union Commands]
         /\ command'[p] = Nothing /\ \A r \in Parties \ {p} : command'[r] = command[r]
BY DEF Done, Typed, TypeOK, Commands

LEMMA WriteChatTyped ==
  ASSUME Typed, NEW p \in Parties, WriteChat(p)
  PROVE  Typed'
<1> USE DEF diskVars, historyVars
<1>1. /\ step[p] = "idle" /\ Runs(p, "chat") /\ Done(p)
      /\ (Fault \/ UNCHANGED faults) /\ (At(p, "chat sent") \/ UNCHANGED step)
  BY DEF WriteChat, Sent
<1>2. Wrote(p, command[p].id)
  <2>1. WriteWhere(p, command[p].contact) \/ UNCHANGED relayVars
    BY DEF WriteChat, Sent
  <2> QED BY <2>1, WhereWrote DEF Wrote
<1>3. command[p].id \in Envelopes
  BY <1>1, CommandTyped DEF Runs
<1>4. step' \in [Parties -> {"paired", "kept", "idle", "chat sent", "policy saved",
                             "apply", "delete"}]
      /\ step'[p] \in {"idle", "chat sent"} /\ \A r \in Parties \ {p} : step'[r] = step[r]
  <2>1. CASE At(p, "chat sent")
    BY <2>1, ToIdle
  <2>2. CASE UNCHANGED step
    BY <2>2, <1>1 DEF Typed, TypeOK
  <2> QED BY <1>1, <2>1, <2>2
<1>5. DiskTyped' /\ RestTyped'
  BY <1>1, <1>4, FaultTyped, DoneTyped DEF WriteChat, DiskTyped, RestTyped, Typed, TypeOK
<1>6. InStep(p)'
  <2>1. pass[p] = NoPass /\ pass' = pass
    BY <1>1 DEF WriteChat, Typed, InStep
  <2> QED BY <1>4, <2>1, QuietInStep
<1>7. ActsAt(p)
  BY <1>1, <1>4, DoneTyped DEF WriteChat, ActsAt
<1>8. \A r \in Parties : r # p => InStep(r)'
  BY <1>2, <1>3, <1>7, MoreMail, OthersInStep
<1> QED BY <1>2, <1>3, <1>5, <1>6, <1>8, MoreMail, TypedParts

LEMMA ReannounceTyped ==
  ASSUME Typed, NEW p \in Parties, Reannounce(p)
  PROVE  Typed'
<1> USE DEF diskVars, historyVars
<1>1. At(p, "idle") /\ step[p] = "chat sent" /\ Wrote(p, Announce) /\ (Fault \/ UNCHANGED faults)
  BY DEF Reannounce, Sent, Wrote, relayVars
<1>2. Announce \in Envelopes
  BY HandoverAssumption DEF Announce, Envelopes
<1>3. step' \in [Parties -> {"paired", "kept", "idle", "chat sent", "policy saved",
                             "apply", "delete"}]
      /\ step'[p] = "idle" /\ \A r \in Parties \ {p} : step'[r] = step[r]
  BY <1>1, ToIdle
<1>4. DiskTyped' /\ RestTyped'
  BY <1>1, <1>3, FaultTyped DEF Reannounce, DiskTyped, RestTyped, Typed, TypeOK, Commands
<1>5. InStep(p)'
  <2>1. pass[p] = NoPass /\ pass' = pass
    BY <1>1 DEF Reannounce, Typed, InStep
  <2> QED BY <1>3, <2>1, QuietInStep
<1>6. ActsAt(p)
  BY <1>3 DEF Reannounce, ActsAt
<1>7. \A r \in Parties : r # p => InStep(r)'
  BY <1>1, <1>2, <1>6, MoreMail, OthersInStep
<1> QED BY <1>1, <1>2, <1>4, <1>5, <1>7, MoreMail, TypedParts

LEMMA SavePolicyTyped ==
  ASSUME Typed, NEW p \in Parties, SavePolicy(p)
  PROVE  Typed'
<1> USE DEF relayVars, boundVars
<1>1. At(p, "policy saved") /\ step[p] = "idle" /\ Runs(p, "policy") /\ SaveLoaded(p)
  BY DEF SavePolicy
<1>2. step' \in [Parties -> {"paired", "kept", "idle", "chat sent", "policy saved",
                             "apply", "delete"}]
      /\ step'[p] = "policy saved" /\ \A r \in Parties \ {p} : step'[r] = step[r]
  BY <1>1, ToIdle
<1>3. DiskTyped' /\ cut' = cut /\ undone' \subseteq Parties
  BY <1>1, SaveLoadedTyped
<1>4. RelayTyped' /\ RestTyped'
  BY <1>2, <1>3, SameRelay DEF SavePolicy, RestTyped, Typed, TypeOK, Commands
<1>5. InStep(p)'
  <2>1. pass[p] = NoPass /\ pass' = pass /\ command' = command
    BY <1>1 DEF SavePolicy, Typed, InStep
  <2> QED BY <1>1, <1>2, <2>1 DEF InStep, Runs
<1>6. ActsAt(p)
  BY <1>2 DEF SavePolicy, ActsAt
<1>7. \A r \in Parties : r # p => InStep(r)'
  BY <1>6, SameRelay, OthersInStep DEF SavePolicy
<1> QED BY <1>3, <1>4, <1>5, <1>7, TypedParts

LEMMA WritePolicyTyped ==
  ASSUME Typed, NEW p \in Parties, WritePolicy(p)
  PROVE  Typed'
<1>1. /\ step[p] = "policy saved" /\ Done(p) /\ At(p, "idle")
      /\ (Fault \/ UNCHANGED faults) /\ (SaveLoaded(p) \/ UNCHANGED <<diskVars, historyVars>>)
  BY DEF WritePolicy, Sent
<1>2. Runs(p, "policy")
  BY <1>1 DEF Typed, InStep
<1>3. Wrote(p, command[p].id)
  <2>1. WriteWhere(p, command[p].contact) \/ UNCHANGED relayVars
    BY DEF WritePolicy, Sent
  <2> QED BY <2>1, WhereWrote DEF Wrote
<1>4. command[p].id \in Envelopes
  BY <1>2, CommandTyped DEF Runs
<1>5. step' \in [Parties -> {"paired", "kept", "idle", "chat sent", "policy saved",
                             "apply", "delete"}]
      /\ step'[p] = "idle" /\ \A r \in Parties \ {p} : step'[r] = step[r]
  BY <1>1, ToIdle
<1>6. DiskTyped' /\ cut' = cut /\ undone' \subseteq Parties
  <2>1. CASE SaveLoaded(p)
    BY <1>2, <2>1, SaveLoadedTyped
  <2>2. CASE UNCHANGED <<diskVars, historyVars>>
    BY <2>2 DEF diskVars, historyVars, DiskTyped, Typed, TypeOK
  <2> QED BY <1>1, <2>1, <2>2
<1>7. RestTyped'
  BY <1>1, <1>5, <1>6, FaultTyped, DoneTyped DEF WritePolicy, RestTyped, Typed, TypeOK
<1>8. InStep(p)'
  <2>1. pass[p] = NoPass /\ pass' = pass
    BY <1>1 DEF WritePolicy, Typed, InStep
  <2> QED BY <1>5, <2>1, QuietInStep
<1>9. ActsAt(p)
  BY <1>1, <1>5, DoneTyped DEF WritePolicy, ActsAt
<1>10. \A r \in Parties : r # p => InStep(r)'
  BY <1>3, <1>4, <1>9, MoreMail, OthersInStep
<1> QED BY <1>3, <1>4, <1>6, <1>7, <1>8, <1>10, MoreMail, TypedParts

LEMMA DeclineTyped ==
  ASSUME Typed, NEW p \in Parties, Decline(p)
  PROVE  Typed'
<1> USE DEF relayVars, boundVars
<1>1. Runs(p, "decline") /\ SaveLoaded(p) /\ Done(p)
  BY DEF Decline
<1>2. DiskTyped' /\ cut' = cut /\ undone' \subseteq Parties
  BY <1>1, SaveLoadedTyped
<1>3. RelayTyped' /\ RestTyped'
  BY <1>1, <1>2, SameRelay, DoneTyped DEF Decline, RestTyped, Typed, TypeOK
<1>4. step[p] # "policy saved"
  BY <1>1 DEF Typed, InStep, Runs
<1>5. \A r \in Parties : InStep(r)'
  <2> TAKE r \in Parties
  <2>1. command'[r] = command[r] \/ step[r] # "policy saved"
    BY <1>1, <1>4, DoneTyped
  <2>2. step'[r] = step[r] /\ pass'[r] = pass[r] /\ UNCHANGED relayVars
    BY DEF Decline
  <2> QED BY <2>1, <2>2, SameRelay, StaysInStep
<1> QED BY <1>2, <1>3, <1>5, TypedParts

LEMMA FetchTyped ==
  ASSUME Typed, NEW p \in Parties, Fetch(p)
  PROVE  Typed'
<1> USE DEF relayVars, historyVars, boundVars, diskVars
<1> DEFINE c == contact[p]
           box == IF c.known THEN shared[p] ELSE inbox[p]
           fetched == [batch |-> box, opened |-> opened[p], lost |-> FALSE,
                       switched |-> c.known, confirmed |-> c.confirmed, any |-> FALSE]
<1>1. At(p, "apply") /\ pass' = [pass EXCEPT ![p] = fetched]
  BY DEF Fetch
<1>2. fetched \in Passes /\ fetched.lost = FALSE /\ fetched.batch = box /\ fetched.switched = c.known
  BY PassTyped DEF Passes, Contacts
<1>3. Len(box) \in Nat
  BY PassTyped, LenProperties
<1> HIDE DEF fetched
<1>4. step' \in [Parties -> {"paired", "kept", "idle", "chat sent", "policy saved",
                             "apply", "delete"}]
      /\ step'[p] = "apply" /\ \A r \in Parties \ {p} : step'[r] = step[r]
  BY <1>1 DEF At, Typed, TypeOK
<1>5. pass' \in [Parties -> Passes] /\ pass'[p] = fetched
      /\ \A r \in Parties \ {p} : pass'[r] = pass[r]
  BY <1>1, <1>2 DEF Typed, TypeOK
<1>6. DiskTyped' /\ RelayTyped' /\ RestTyped'
  BY <1>4, <1>5, SameRelay DEF Fetch, DiskTyped, RestTyped, Typed, TypeOK, Commands
<1>7. InStep(p)'
  <2>1. Box(p)' = box
    BY <1>2, <1>5 DEF Fetch, Box
  <2>2. Len(pass'[p].batch) = Len(box)
    BY <1>2, <1>5
  <2>3. Len(box) <= Len(box)
    BY <1>3
  <2> HIDE DEF box
  <2>4. Len(pass'[p].batch) <= Len(Box(p)')
    BY <2>1, <2>2, <2>3
  <2> QED BY <1>4, <2>4 DEF InStep
<1>8. ActsAt(p)
  BY <1>4, <1>5 DEF Fetch, ActsAt
<1>9. \A r \in Parties : r # p => InStep(r)'
  BY <1>8, SameRelay, OthersInStep DEF Fetch
<1> QED BY <1>6, <1>7, <1>9, TypedParts

(* What applying an entry does to the pass: an entry not opened before is  *)
(* added to the opened ones.                                               *)
LEMMA ApplyEntryPass ==
  ASSUME Typed, NEW p \in Parties, ApplyEntry(p)
  PROVE  /\ pass' \in [Parties -> Passes]
         /\ pass'[p].batch = pass[p].batch /\ pass'[p].lost = pass[p].lost
         /\ pass'[p].switched = pass[p].switched
         /\ pass'[p].opened \subseteq pass[p].opened \union {Head(pass[p].batch)}
         /\ Head(pass[p].batch) \in pass[p].opened => pass'[p].opened = pass[p].opened
         /\ \A r \in Parties \ {p} : pass'[r] = pass[r]
<1>1. Head(pass[p].batch) \in Envelopes
  BY PassTyped, RanHeadTail DEF ApplyEntry
<1>2. CASE UNCHANGED pass
  BY <1>2 DEF Typed, TypeOK
<1>3. CASE pass' = [pass EXCEPT ![p].opened = pass[p].opened \union {Head(pass[p].batch)},
                                ![p].any = TRUE] /\ Head(pass[p].batch) \notin pass[p].opened
  <2> DEFINE new == [pass[p] EXCEPT !.opened = pass[p].opened \union {Head(pass[p].batch)},
                                    !.any = TRUE]
  <2>1. pass[p] \in Passes /\ pass[p].opened \union {Head(pass[p].batch)} \in SUBSET Envelopes
    BY <1>1, PassTyped
  <2>2. new \in Passes
    BY <2>1 DEF Passes
  <2>3. new.batch = pass[p].batch /\ new.lost = pass[p].lost /\ new.switched = pass[p].switched
        /\ new.opened = pass[p].opened \union {Head(pass[p].batch)}
    BY <2>1 DEF Passes
  <2>4. pass' = [pass EXCEPT ![p] = new]
    BY <1>3, <2>1 DEF Typed, TypeOK, Passes
  <2> HIDE DEF new
  <2>5. pass \in [Parties -> Passes]
    BY DEF Typed, TypeOK, Passes
  <2>6. pass'[p] = new /\ \A r \in Parties \ {p} : pass'[r] = pass[r]
    BY <2>4, <2>5
  <2>7. pass' \in [Parties -> Passes]
    BY <2>2, <2>4, <2>5
  <2>8. /\ pass'[p].opened \subseteq pass[p].opened \union {Head(pass[p].batch)}
        /\ Head(pass[p].batch) \in pass[p].opened => pass'[p].opened = pass[p].opened
    BY <1>3, <2>3, <2>6
  <2> QED BY <2>3, <2>6, <2>7, <2>8
<1> QED BY <1>2, <1>3 DEF ApplyEntry

LEMMA ApplyEntryTyped ==
  ASSUME Typed, NEW p \in Parties, ApplyEntry(p)
  PROVE  Typed'
<1> USE DEF relayVars, historyVars, boundVars
<1>1. At(p, "delete") /\ step[p] = "apply" /\ pass[p].batch # <<>>
  BY DEF ApplyEntry
<1>2. step' \in [Parties -> {"paired", "kept", "idle", "chat sent", "policy saved",
                             "apply", "delete"}]
      /\ step'[p] = "delete" /\ \A r \in Parties \ {p} : step'[r] = step[r]
  BY <1>1 DEF At, Typed, TypeOK
<1>3. DiskTyped'
  <2>1. contact \in [Parties -> Contacts] /\ opened \in [Parties -> SUBSET Envelopes]
    BY DEF Typed, TypeOK
  <2>2. Switched(p) \in [Parties -> Contacts]
    BY <2>1 DEF Switched, Contacts
  <2>3. contact' \in {contact, Switched(p)} /\ opened' = opened
    BY DEF ApplyEntry
  <2> QED BY <2>1, <2>2, <2>3 DEF DiskTyped
<1>4. RelayTyped' /\ RestTyped'
  BY <1>2, ApplyEntryPass, SameRelay DEF ApplyEntry, RestTyped, Typed, TypeOK, Commands
<1>5. InStep(p)'
  <2>1. inbox' = inbox /\ shared' = shared
    BY DEF ApplyEntry
  <2>2. Box(p)' = Box(p)
    BY <2>1, ApplyEntryPass DEF Box
  <2>3. ~pass[p].lost => Len(pass[p].batch) <= Len(Box(p))
    BY <1>1 DEF Typed, InStep
  <2>4. pass'[p].batch = pass[p].batch /\ pass'[p].lost = pass[p].lost
    BY ApplyEntryPass
  <2>5. ~pass'[p].lost => Len(pass'[p].batch) <= Len(Box(p)')
    BY <2>2, <2>3, <2>4
  <2> QED BY <1>1, <1>2, <2>4, <2>5 DEF InStep
<1>6. ActsAt(p)
  BY <1>2, ApplyEntryPass DEF ApplyEntry, ActsAt
<1>7. \A r \in Parties : r # p => InStep(r)'
  BY <1>6, SameRelay, OthersInStep DEF ApplyEntry
<1> QED BY <1>3, <1>4, <1>5, <1>7, TypedParts

LEMMA GiveUpTyped ==
  ASSUME Typed, NEW p \in Parties, GiveUp(p)
  PROVE  /\ step' \in [Parties -> {"paired", "kept", "idle", "chat sent", "policy saved",
                                   "apply", "delete"}]
         /\ step'[p] = "idle" /\ \A r \in Parties \ {p} : step'[r] = step[r]
         /\ pass' \in [Parties -> Passes] /\ pass'[p] = NoPass
         /\ \A r \in Parties \ {p} : pass'[r] = pass[r]
         /\ InStep(p)'
<1>1. At(p, "idle") /\ pass' = [pass EXCEPT ![p] = NoPass]
  BY DEF GiveUp
<1>2. /\ pass' \in [Parties -> Passes] /\ pass'[p] = NoPass
      /\ \A r \in Parties \ {p} : pass'[r] = pass[r]
  BY <1>1, NoPassTyped DEF Typed, TypeOK
<1>3. /\ step' \in [Parties -> {"paired", "kept", "idle", "chat sent", "policy saved",
                                "apply", "delete"}]
      /\ step'[p] = "idle" /\ \A r \in Parties \ {p} : step'[r] = step[r]
  BY <1>1, ToIdle
<1> QED BY <1>2, <1>3, QuietInStep

LEMMA EndPassTyped ==
  ASSUME Typed, NEW p \in Parties, EndPass(p)
  PROVE  Typed'
<1> USE DEF relayVars, historyVars, boundVars
<1>1. GiveUp(p)
  BY DEF EndPass
<1>2. DiskTyped'
  <2>1. contact \in [Parties -> Contacts] /\ opened \in [Parties -> SUBSET Envelopes]
        /\ pass[p].opened \in SUBSET Envelopes
    BY PassTyped DEF Typed, TypeOK
  <2>2. contact' = contact \/ contact' = [contact EXCEPT ![p].confirmed = TRUE]
    BY DEF EndPass
  <2>3. contact' \in [Parties -> Contacts]
    BY <2>1, <2>2 DEF Contacts
  <2>4. opened' \in [Parties -> SUBSET Envelopes]
    BY <2>1 DEF EndPass
  <2> QED BY <2>3, <2>4 DEF DiskTyped
<1>3. RelayTyped' /\ RestTyped'
  BY <1>1, GiveUpTyped, SameRelay DEF EndPass, RestTyped, Typed, TypeOK, Commands
<1>4. ActsAt(p)
  BY <1>1, GiveUpTyped DEF EndPass, ActsAt
<1>5. \A r \in Parties : r # p => InStep(r)'
  BY <1>4, SameRelay, OthersInStep DEF EndPass
<1> QED BY <1>1, <1>2, <1>3, <1>5, GiveUpTyped, TypedParts

LEMMA CrashTyped ==
  ASSUME Typed, NEW p \in Parties, Crash(p)
  PROVE  Typed'
<1> USE DEF relayVars, diskVars
<1>1. GiveUp(p) /\ Done(p) /\ Fault /\ cut' \subseteq Parties
  BY DEF Crash, Typed, TypeOK
<1>2. DiskTyped' /\ RelayTyped' /\ RestTyped'
  BY <1>1, GiveUpTyped, DoneTyped, FaultTyped, SameRelay
  DEF Crash, DiskTyped, RestTyped, Typed, TypeOK
<1>3. ActsAt(p)
  BY <1>1, GiveUpTyped, DoneTyped DEF ActsAt
<1>4. \A r \in Parties : r # p => InStep(r)'
  BY <1>3, SameRelay, OthersInStep DEF Crash
<1> QED BY <1>1, <1>2, <1>4, GiveUpTyped, TypedParts

LEMMA TailShorter ==
  ASSUME NEW q \in Seq(Envelopes), q # <<>>
  PROVE  Tail(q) \in Seq(Envelopes) /\ Len(q) \in Nat \ {0} /\ Len(Tail(q)) = Len(q) - 1
BY HeadTailProperties, EmptySeq, LenProperties

(* Taking the front of p's own queue leaves the other device's alone.      *)
LEMMA RemovedFromTyped ==
  ASSUME Typed, NEW p \in Parties, Box(p) # <<>>, RemovedFrom(p)
  PROVE  /\ RelayTyped'
         /\ \A r \in Parties \ {p} : inbox'[r] = inbox[r] /\ shared'[r] = shared[r]
         /\ inbox'[p] \in {inbox[p], Tail(inbox[p])} /\ shared'[p] \in {shared[p], Tail(shared[p])}
         /\ (IF pass[p].switched THEN shared'[p] ELSE inbox'[p]) = Tail(Box(p))
         /\ shared[p] = <<>> => shared'[p] = shared[p]
<1>1. inbox \in [Parties -> Seq(Envelopes)] /\ shared \in [Parties -> Seq(Envelopes)]
  BY DEF Typed, TypeOK
<1>2. CASE pass[p].switched
  <2>1. shared' = [shared EXCEPT ![p] = Tail(shared[p])] /\ inbox' = inbox
    BY <1>2 DEF RemovedFrom
  <2>2. shared[p] # <<>> /\ Box(p) = shared[p]
    BY <1>2 DEF Box
  <2>3. Tail(shared[p]) \in Seq(Envelopes)
    BY <1>1, <2>2, TailShorter
  <2> QED BY <1>1, <1>2, <2>1, <2>2, <2>3 DEF RelayTyped
<1>3. CASE ~pass[p].switched
  <2>1. inbox' = [inbox EXCEPT ![p] = Tail(inbox[p])] /\ shared' = shared
    BY <1>3 DEF RemovedFrom
  <2>2. inbox[p] # <<>> /\ Box(p) = inbox[p]
    BY <1>3 DEF Box
  <2>3. Tail(inbox[p]) \in Seq(Envelopes)
    BY <1>1, <2>2, TailShorter
  <2> QED BY <1>1, <1>3, <2>1, <2>2, <2>3 DEF RelayTyped
<1> QED BY <1>2, <1>3

(* What an answered or unanswered delete does to the relay, and to the     *)
(* pass.                                                                   *)
LEMMA DeleteEntryRelay ==
  ASSUME Typed, NEW p \in Parties, DeleteEntry(p)
  PROVE  UNCHANGED relayVars \/ (~pass[p].lost /\ RemovedFrom(p))
BY DEF DeleteEntry, Sent

LEMMA DeleteEntryPass ==
  ASSUME Typed, NEW p \in Parties, DeleteEntry(p)
  PROVE  GiveUp(p) \/ (At(p, "apply") /\ pass' = [pass EXCEPT ![p].batch = Tail(pass[p].batch)])
BY DEF DeleteEntry, Sent

LEMMA DeleteEntryBox ==
  ASSUME Typed, NEW p \in Parties, DeleteEntry(p), ~pass[p].lost
  PROVE  Box(p) # <<>> /\ Box(p) \in Seq(Envelopes)
<1>1. pass[p].batch # <<>> /\ Len(pass[p].batch) <= Len(Box(p))
  BY DEF DeleteEntry, Typed, InStep
<1>2. Len(pass[p].batch) \in Nat \ {0}
  BY <1>1, PassTyped, TailShorter
<1>3. Box(p) \in Seq(Envelopes)
  BY PassTyped DEF Box
<1>4. Len(Box(p)) \in Nat /\ Len(Box(p)) # 0
  BY <1>1, <1>2, <1>3, LenProperties
<1> QED BY <1>3, <1>4, EmptySeq

LEMMA DeleteEntryRelayTyped ==
  ASSUME Typed, NEW p \in Parties, DeleteEntry(p)
  PROVE  /\ RelayTyped'
         /\ \A r \in Parties \ {p} : inbox'[r] = inbox[r] /\ shared'[r] = shared[r]
         /\ shared[p] = <<>> => shared'[p] = shared[p]
<1>1. CASE UNCHANGED relayVars
  BY <1>1, SameRelay DEF relayVars
<1>2. CASE ~pass[p].lost /\ RemovedFrom(p)
  BY <1>2, DeleteEntryBox, RemovedFromTyped
<1> QED BY <1>1, <1>2, DeleteEntryRelay

LEMMA DeleteEntryTyped ==
  ASSUME Typed, NEW p \in Parties, DeleteEntry(p)
  PROVE  Typed'
<1> USE DEF historyVars, diskVars
<1>1. step[p] = "delete" /\ pass[p].batch # <<>> /\ (Fault \/ UNCHANGED faults)
  BY DEF DeleteEntry, Sent, Typed, InStep
<1>2. /\ step' \in [Parties -> {"paired", "kept", "idle", "chat sent", "policy saved",
                                "apply", "delete"}]
      /\ pass' \in [Parties -> Passes]
      /\ \A r \in Parties \ {p} : step'[r] = step[r] /\ pass'[r] = pass[r]
      /\ InStep(p)'
  <2>1. CASE GiveUp(p)
    BY <2>1, GiveUpTyped
  <2>2. CASE At(p, "apply") /\ pass' = [pass EXCEPT ![p].batch = Tail(pass[p].batch)]
    <3>1. Tail(pass[p].batch) \in Seq(Envelopes)
          /\ Len(pass[p].batch) \in Nat \ {0} /\ Len(Tail(pass[p].batch)) = Len(pass[p].batch) - 1
      BY <1>1, PassTyped, TailShorter
    <3>2. pass' \in [Parties -> Passes] /\ pass'[p].batch = Tail(pass[p].batch)
          /\ pass'[p].lost = pass[p].lost /\ pass'[p].switched = pass[p].switched
          /\ \A r \in Parties \ {p} : pass'[r] = pass[r]
      <4> DEFINE new == [pass[p] EXCEPT !.batch = Tail(pass[p].batch)]
      <4>1. new \in Passes /\ new.batch = Tail(pass[p].batch)
            /\ new.lost = pass[p].lost /\ new.switched = pass[p].switched
        BY <3>1, PassTyped DEF Passes
      <4>2. pass' = [pass EXCEPT ![p] = new]
        BY <2>2 DEF Typed, TypeOK, Passes
      <4> HIDE DEF new
      <4> QED BY <4>1, <4>2 DEF Typed, TypeOK
    <3>3. step' \in [Parties -> {"paired", "kept", "idle", "chat sent", "policy saved",
                                 "apply", "delete"}]
          /\ step'[p] = "apply" /\ \A r \in Parties \ {p} : step'[r] = step[r]
      BY <2>2 DEF At, Typed, TypeOK
    <3>4. ASSUME ~pass[p].lost PROVE Len(Tail(pass[p].batch)) <= Len(Box(p)')
      <4>1. Len(pass[p].batch) <= Len(Box(p)) /\ Box(p) # <<>> /\ Box(p) \in Seq(Envelopes)
        BY <1>1, <3>4, DeleteEntryBox DEF Typed, InStep
      <4>2. Len(Box(p)) \in Nat \ {0} /\ Len(Tail(Box(p))) = Len(Box(p)) - 1
        BY <4>1, TailShorter
      <4>3. Box(p)' = Box(p) \/ Box(p)' = Tail(Box(p))
        <5>1. CASE UNCHANGED relayVars
          <6>1. inbox' = inbox /\ shared' = shared
            BY <5>1 DEF relayVars
          <6> QED BY <6>1, <3>2 DEF Box
        <5>2. CASE RemovedFrom(p)
          <6>1. (IF pass[p].switched THEN shared'[p] ELSE inbox'[p]) = Tail(Box(p))
            BY <4>1, <5>2, RemovedFromTyped
          <6>2. Box(p)' = (IF pass[p].switched THEN shared'[p] ELSE inbox'[p])
            BY <3>2 DEF Box
          <6> QED BY <6>1, <6>2
        <5> QED BY <5>1, <5>2, DeleteEntryRelay
      <4>4. Len(Box(p)') = Len(Box(p)) \/ Len(Box(p)') = Len(Box(p)) - 1
        BY <4>2, <4>3
      <4>5. Len(Box(p)) \in Int /\ Len(pass[p].batch) \in Int
            /\ Len(pass[p].batch) <= Len(Box(p))
        BY <3>1, <4>1, <4>2
      <4>6. \A c : c = Len(Box(p)) \/ c = Len(Box(p)) - 1 => Len(pass[p].batch) - 1 <= c
        <5> HIDE DEF Box
        <5> QED BY <4>5, AtMostOneLess
      <4>7. Len(pass[p].batch) - 1 <= Len(Box(p)')
        BY <4>4, <4>6, Zenon
      <4> QED BY <3>1, <4>7, Zenon
    <3>5. ~pass'[p].lost => Len(pass'[p].batch) <= Len(Box(p)')
      BY <3>2, <3>4
    <3>6. InStep(p)'
      BY <3>3, <3>5 DEF InStep
    <3> QED BY <3>2, <3>3, <3>6
  <2> QED BY <2>1, <2>2, DeleteEntryPass
<1>3. DiskTyped' /\ RestTyped'
  BY <1>1, <1>2, FaultTyped DEF DeleteEntry, DiskTyped, RestTyped, Typed, TypeOK, Commands
<1>4. ActsAt(p)
  BY <1>2 DEF DeleteEntry, ActsAt
<1>5. \A r \in Parties : r # p => InStep(r)'
  <2> SUFFICES ASSUME NEW r \in Parties, r # p PROVE InStep(r)'
    OBVIOUS
  <2>1. inbox'[r] = inbox[r] /\ shared'[r] = shared[r]
    BY DeleteEntryRelayTyped
  <2>2. /\ inbox[r] \in Seq(Envelopes) /\ shared[r] \in Seq(Envelopes)
        /\ Len(inbox[r]) \in Nat /\ Len(shared[r]) \in Nat
    BY PassTyped, LenProperties
  <2>3. Len(inbox[r]) <= Len(inbox'[r]) /\ Len(shared[r]) <= Len(shared'[r])
    BY <2>1, <2>2
  <2> QED BY <1>4, <2>1, <2>2, <2>3, OthersInStep
<1> QED BY <1>2, <1>3, <1>5, DeleteEntryRelayTyped, TypedParts

LEMMA OtherContactDeletesTyped ==
  ASSUME Typed, NEW p \in Parties, OtherContactDeletes(p)
  PROVE  Typed'
<1> USE DEF historyVars, diskVars
<1>1. step[p] = "idle" /\ inbox[p] # <<>> /\ Fault
      /\ inbox' = [inbox EXCEPT ![p] = Tail(inbox[p])] /\ shared' = shared
  BY DEF OtherContactDeletes
<1>2. Tail(inbox[p]) \in Seq(Envelopes)
  BY <1>1, PassTyped, TailShorter
<1>3. RelayTyped' /\ \A r \in Parties \ {p} : inbox'[r] = inbox[r]
  BY <1>1, <1>2 DEF RelayTyped, Typed, TypeOK
<1>4. DiskTyped' /\ RestTyped'
  BY <1>1, FaultTyped DEF OtherContactDeletes, DiskTyped, RestTyped, Typed, TypeOK, Commands
<1>5. InStep(p)'
  <2>1. pass[p] = NoPass /\ pass' = pass /\ step' = step
    BY <1>1 DEF OtherContactDeletes, Typed, InStep
  <2> QED BY <1>1, <2>1, QuietInStep
<1>6. \A r \in Parties : r # p => InStep(r)'
  <2> SUFFICES ASSUME NEW r \in Parties, r # p PROVE InStep(r)'
    OBVIOUS
  <2>1. inbox'[r] = inbox[r] /\ shared'[r] = shared[r]
    BY <1>1, <1>3
  <2>2. /\ inbox[r] \in Seq(Envelopes) /\ shared[r] \in Seq(Envelopes)
        /\ Len(inbox[r]) \in Nat /\ Len(shared[r]) \in Nat
    BY PassTyped, LenProperties
  <2>3. Len(inbox[r]) <= Len(inbox'[r]) /\ Len(shared[r]) <= Len(shared'[r])
    BY <2>1, <2>2
  <2>4. ActsAt(p)
    BY DEF OtherContactDeletes, ActsAt
  <2> QED BY <2>1, <2>2, <2>3, <2>4, OthersInStep
<1> QED BY <1>3, <1>4, <1>5, <1>6, TypedParts

LEMMA MarkedLost ==
  ASSUME NEW q \in Passes, NEW b \in BOOLEAN
  PROVE  LET new == [q EXCEPT !.lost = b] IN
         /\ new \in Passes /\ new.batch = q.batch /\ new.lost = b
         /\ b = FALSE /\ q = NoPass => new = NoPass
<1>1. LET new == [q EXCEPT !.lost = b] IN
      new \in Passes /\ new.batch = q.batch /\ new.lost = b
  BY DEF Passes
<1>2. ASSUME q.lost = FALSE PROVE [q EXCEPT !.lost = FALSE] = q
  BY <1>2 DEF Passes
<1> QED BY <1>1, <1>2, NoPassTyped

LEMMA RelayRestartTyped ==
  ASSUME Typed, RelayRestart
  PROVE  Typed'
<1> USE DEF historyVars, diskVars
<1>1. Fault
  BY DEF RelayRestart
<1>2. RelayTyped'
  BY EmptySeq DEF RelayRestart, RelayTyped
<1>3. ASSUME NEW r \in Parties
      PROVE  /\ pass'[r] \in Passes /\ pass'[r].batch = pass[r].batch
             /\ pass'[r].lost = (step[r] \in {"apply", "delete"})
             /\ step[r] \notin {"apply", "delete"} /\ pass[r] = NoPass => pass'[r] = NoPass
  <2> DEFINE working == step[r] \in {"apply", "delete"}
  <2>1. working \in BOOLEAN
    OBVIOUS
  <2>2. pass'[r] = [pass[r] EXCEPT !.lost = working]
    BY DEF RelayRestart
  <2>3. pass[r] \in Passes
    BY PassTyped
  <2> HIDE DEF working
  <2>4. /\ pass'[r] \in Passes /\ pass'[r].batch = pass[r].batch /\ pass'[r].lost = working
        /\ ~working /\ pass[r] = NoPass => pass'[r] = NoPass
    <3>1. \A q \in Passes : LET new == [q EXCEPT !.lost = working] IN
            /\ new \in Passes /\ new.batch = q.batch /\ new.lost = working
            /\ working = FALSE /\ q = NoPass => new = NoPass
      BY <2>1, MarkedLost
    <3> QED BY <2>1, <2>2, <2>3, <3>1
  <2> QED BY <2>4 DEF working
<1>4. pass' \in [Parties -> Passes]
  <2>1. pass' = [p \in Parties |-> [pass[p] EXCEPT !.lost = step[p] \in {"apply", "delete"}]]
    BY DEF RelayRestart
  <2>2. DOMAIN pass' = Parties /\ pass' = [p \in Parties |-> pass'[p]]
    BY <2>1
  <2> QED BY <1>3, <2>2
<1>5. DiskTyped' /\ RestTyped'
  BY <1>1, <1>4, FaultTyped DEF RelayRestart, DiskTyped, RestTyped, Typed, TypeOK, Commands
<1>6. \A r \in Parties : InStep(r)'
  <2> TAKE r \in Parties
  <2>1. InStep(r) /\ step' = step /\ command' = command
    BY DEF RelayRestart, Typed
  <2>2. /\ pass'[r].batch = pass[r].batch
        /\ pass'[r].lost = (step[r] \in {"apply", "delete"})
        /\ step[r] \notin {"apply", "delete"} => pass'[r] = NoPass
    BY <1>3, <2>1 DEF InStep
  <2> QED BY <2>1, <2>2 DEF InStep, Runs
<1> QED BY <1>2, <1>5, <1>6, TypedParts

LEMMA TypedStep == Typed /\ [Next]_vars => Typed'
<1> SUFFICES ASSUME Typed, [Next]_vars PROVE Typed'
  OBVIOUS
<1>1. CASE Next
  <2>1. ASSUME NEW p \in Parties, NEW kind \in Kinds, LoadContact(p, kind) PROVE Typed'
    BY <2>1, LoadContactTyped
  <2>2. ASSUME NEW p \in Parties, KeepAnnounce(p) \/ WriteAnnounce(p) \/ WriteChat(p) \/ Reannounce(p)
        PROVE  Typed'
    BY <2>2, KeepAnnounceTyped, WriteAnnounceTyped, WriteChatTyped, ReannounceTyped
  <2>3. ASSUME NEW p \in Parties, SavePolicy(p) \/ WritePolicy(p) \/ Decline(p)
        PROVE  Typed'
    BY <2>3, SavePolicyTyped, WritePolicyTyped, DeclineTyped
  <2>4. ASSUME NEW p \in Parties, Fetch(p) \/ ApplyEntry(p) \/ DeleteEntry(p) \/ EndPass(p)
        PROVE  Typed'
    BY <2>4, FetchTyped, ApplyEntryTyped, DeleteEntryTyped, EndPassTyped
  <2>5. ASSUME NEW p \in Parties, Crash(p) \/ OtherContactDeletes(p) PROVE Typed'
    BY <2>5, CrashTyped, OtherContactDeletesTyped
  <2>6. CASE RelayRestart
    BY <2>6, RelayRestartTyped
  <2> QED BY <1>1, <2>1, <2>2, <2>3, <2>4, <2>5, <2>6 DEF Next
<1>2. CASE UNCHANGED vars
  <2>1. UNCHANGED <<contact, opened, inbox, shared, step, pass, command, cut, undone, commands, faults>>
    BY <1>2 DEF vars, diskVars, relayVars, historyVars, boundVars
  <2>2. \A r \in Parties : InStep(r)'
    BY <2>1 DEF Typed, InStep, Box, Runs
  <2>3. DiskTyped' /\ RelayTyped' /\ RestTyped'
    BY <2>1 DEF DiskTyped, RelayTyped, RestTyped, Typed, TypeOK, Commands
  <2> QED BY <2>2, <2>3, TypedParts
<1> QED BY <1>1, <1>2

LEMMA Typing == Spec => []Typed
BY TypedInit, TypedStep, PTL DEF Spec

(* Every variable has its type, and an idle device holds no fetched mail.  *)
THEOREM TypeCorrect == Spec => []TypeOK
<1>1. Typed => TypeOK
  BY DEF Typed
<1> QED BY <1>1, Typing, PTL

-----------------------------------------------------------------------------
(* A side has switched, or an older copy of its contact record undid that: *)
(* once so, always so.                                                     *)
HasSwitched(p) == contact[p].known \/ p \in undone

SwitchedAt(p) ==
  /\ contact[p].confirmed => HasSwitched(Peer(p))
  /\ shared[p] # <<>> => HasSwitched(Peer(p))
  /\ pass[p].switched /\ (pass[p].batch # <<>> \/ pass[p].any) => HasSwitched(Peer(p))
  /\ command[p] # Nothing /\ command[p].contact.known => HasSwitched(p)
  /\ command[p] # Nothing /\ command[p].contact.confirmed => HasSwitched(Peer(p))
  /\ Announce \in opened[p] \/ Announce \in pass[p].opened => HasSwitched(p)

SwitchInv == \A p \in Parties : SwitchedAt(p)

LEMMA SaveLoadedSwitched ==
  ASSUME Typed, NEW p \in Parties, SaveLoaded(p)
  PROVE  \A r \in Parties : HasSwitched(r) => HasSwitched(r)'
<1>1. contact' = [contact EXCEPT ![p] = command[p].contact]
      /\ undone' = IF TakesBack(contact[p], command[p].contact) THEN undone \union {p} ELSE undone
  BY DEF SaveLoaded
<1>2. contact \in [Parties -> Contacts]
  BY DEF Typed, TypeOK
<1>3. contact'[p] = command[p].contact /\ \A r \in Parties \ {p} : contact'[r] = contact[r]
  BY <1>1, <1>2
<1>4. undone \subseteq undone'
  BY <1>1
<1>5. HasSwitched(p) => HasSwitched(p)'
  BY <1>1, <1>3 DEF HasSwitched, TakesBack
<1> QED BY <1>3, <1>4, <1>5 DEF HasSwitched

LEMMA SwitchedStays ==
  ASSUME Typed, Next
  PROVE  \A r \in Parties : HasSwitched(r) => HasSwitched(r)'
<1>1. contact \in [Parties -> Contacts]
  BY DEF Typed, TypeOK
<1>2. ASSUME UNCHANGED <<contact, undone>>
      PROVE  \A r \in Parties : HasSwitched(r) => HasSwitched(r)'
  BY <1>2 DEF HasSwitched
<1>3. ASSUME NEW p \in Parties,
             contact' \in {contact, [contact EXCEPT ![p].kept = TRUE],
                           [contact EXCEPT ![p].known = TRUE],
                           [contact EXCEPT ![p].confirmed = TRUE]},
             undone' = undone
      PROVE  \A r \in Parties : HasSwitched(r) => HasSwitched(r)'
  <2>1. \A r \in Parties : contact[r].known => contact'[r].known
    BY <1>1, <1>3 DEF Contacts
  <2> QED BY <1>3, <2>1 DEF HasSwitched
<1>4. ASSUME NEW p \in Parties, KeepAnnounce(p) \/ ApplyEntry(p) \/ EndPass(p)
      PROVE  \A r \in Parties : HasSwitched(r) => HasSwitched(r)'
  BY <1>3, <1>4 DEF KeepAnnounce, ApplyEntry, EndPass, Switched, historyVars
<1>5. ASSUME NEW p \in Parties, SavePolicy(p) \/ Decline(p)
      PROVE  \A r \in Parties : HasSwitched(r) => HasSwitched(r)'
  BY <1>5, SaveLoadedSwitched DEF SavePolicy, Decline
<1>6. ASSUME NEW p \in Parties, WritePolicy(p)
      PROVE  \A r \in Parties : HasSwitched(r) => HasSwitched(r)'
  <2>1. SaveLoaded(p) \/ UNCHANGED <<contact, undone>>
    BY <1>6 DEF WritePolicy, Sent, diskVars, historyVars
  <2> QED BY <1>2, <2>1, SaveLoadedSwitched
<1>7. ASSUME NEW p \in Parties,
             \/ WriteAnnounce(p) \/ (\E kind \in Kinds : LoadContact(p, kind))
             \/ WriteChat(p) \/ Reannounce(p) \/ Fetch(p)
             \/ DeleteEntry(p) \/ Crash(p) \/ OtherContactDeletes(p)
      PROVE  \A r \in Parties : HasSwitched(r) => HasSwitched(r)'
  <2>1. UNCHANGED <<contact, undone>>
    BY <1>7 DEF WriteAnnounce, LoadContact, WriteChat, Reannounce, Fetch, DeleteEntry, Crash,
                OtherContactDeletes, diskVars, historyVars
  <2> QED BY <1>2, <2>1
<1>8. CASE RelayRestart
  BY <1>2, <1>8 DEF RelayRestart, diskVars, historyVars
<1> QED BY <1>4, <1>5, <1>6, <1>7, <1>8 DEF Next

(* What SwitchedAt says of a device, when only these parts of it can have  *)
(* changed.                                                                *)
LEMMA SwitchedAtKept ==
  ASSUME Typed, Next, NEW r \in Parties, SwitchedAt(r),
         contact'[r].confirmed => contact[r].confirmed \/ HasSwitched(Peer(r)),
         shared'[r] # <<>> => shared[r] # <<>> \/ HasSwitched(Peer(r)),
         pass'[r].switched /\ (pass'[r].batch # <<>> \/ pass'[r].any)
           => (pass[r].switched /\ (pass[r].batch # <<>> \/ pass[r].any)) \/ HasSwitched(Peer(r)),
         command'[r] = command[r] \/ command'[r] = Nothing,
         Announce \in opened'[r] \/ Announce \in pass'[r].opened
           => Announce \in opened[r] \/ Announce \in pass[r].opened \/ HasSwitched(r)'
  PROVE  SwitchedAt(r)'
<1>1. Peer(r) \in Parties
  BY PeerFacts
<1>2. (HasSwitched(Peer(r)) => HasSwitched(Peer(r))') /\ (HasSwitched(r) => HasSwitched(r)')
  BY <1>1, SwitchedStays
<1>3. /\ contact'[r].confirmed => HasSwitched(Peer(r))'
      /\ shared'[r] # <<>> => HasSwitched(Peer(r))'
      /\ pass'[r].switched /\ (pass'[r].batch # <<>> \/ pass'[r].any) => HasSwitched(Peer(r))'
  BY <1>2 DEF SwitchedAt
<1>4. /\ command'[r] # Nothing /\ command'[r].contact.known => HasSwitched(r)'
      /\ command'[r] # Nothing /\ command'[r].contact.confirmed => HasSwitched(Peer(r))'
  BY <1>2 DEF SwitchedAt
<1>5. Announce \in opened'[r] \/ Announce \in pass'[r].opened => HasSwitched(r)'
  BY <1>2 DEF SwitchedAt
<1> QED BY <1>3, <1>4, <1>5 DEF SwitchedAt

-----------------------------------------------------------------------------
(* Every operation keeps SwitchInv.                                        *)
LEMMA SavedIsSwitched ==
  ASSUME Typed, SwitchInv, NEW p \in Parties, command[p] # Nothing, SaveLoaded(p),
         NEW r \in Parties
  PROVE  /\ contact'[r].confirmed => contact[r].confirmed \/ HasSwitched(Peer(r))
         /\ opened' = opened
<1>1. contact' = [contact EXCEPT ![p] = command[p].contact] /\ opened' = opened
  BY DEF SaveLoaded
<1>2. contact \in [Parties -> Contacts]
  BY DEF Typed, TypeOK
<1>3. command[p].contact.confirmed => HasSwitched(Peer(p))
  BY DEF SwitchInv, SwitchedAt
<1> QED BY <1>1, <1>2, <1>3

(* Mail written where the loaded record says arrives in the routing-id     *)
(* mailbox of the peer only from a side that has switched.                 *)
LEMMA WrittenIsSwitched ==
  ASSUME Typed, SwitchInv, NEW p \in Parties, command[p] # Nothing,
         WriteWhere(p, command[p].contact) \/ UNCHANGED relayVars, NEW r \in Parties
  PROVE  shared'[r] # <<>> => shared[r] # <<>> \/ HasSwitched(Peer(r))
<1>1. CASE UNCHANGED relayVars \/ ToInbox(p, command[p].id)
  <2>1. shared' = shared
    BY <1>1 DEF relayVars, ToInbox
  <2> QED BY <2>1
<1>2. CASE command[p].contact.known /\ ToShared(p, command[p].id)
  <2>1. HasSwitched(p)
    BY <1>2 DEF SwitchInv, SwitchedAt
  <2>2. r # Peer(p) => shared'[r] = shared[r]
    BY <1>2 DEF ToShared, Typed, TypeOK
  <2>3. Peer(Peer(p)) = p
    BY PeerFacts
  <2> QED BY <2>1, <2>2, <2>3
<1> QED BY <1>1, <1>2 DEF WriteWhere

LEMMA QuietSwitched ==
  ASSUME Typed, SwitchInv, Next, UNCHANGED <<opened, pass, shared>>,
         \A r \in Parties : contact'[r].confirmed => contact[r].confirmed \/ HasSwitched(Peer(r)),
         \A r \in Parties : command'[r] = command[r] \/ command'[r] = Nothing
  PROVE  SwitchInv'
<1> SUFFICES ASSUME NEW r \in Parties PROVE SwitchedAt(r)'
  BY DEF SwitchInv
<1>1. SwitchedAt(r)
  BY DEF SwitchInv
<1> QED BY <1>1, SwitchedAtKept

LEMMA AnnounceSwitched ==
  ASSUME Typed, SwitchInv, Next, NEW p \in Parties,
         KeepAnnounce(p) \/ WriteAnnounce(p) \/ Reannounce(p)
  PROVE  SwitchInv'
<1>1. UNCHANGED <<opened, pass, shared, command>>
  BY DEF KeepAnnounce, WriteAnnounce, Reannounce, Sent, ToInbox, diskVars, relayVars
<1>2. \A r \in Parties : contact'[r].confirmed => contact[r].confirmed
  <2>1. contact' = contact \/ contact' = [contact EXCEPT ![p].kept = TRUE]
    BY DEF KeepAnnounce, WriteAnnounce, Reannounce, diskVars
  <2>2. contact \in [Parties -> Contacts]
    BY DEF Typed, TypeOK
  <2> QED BY <2>1, <2>2 DEF Contacts
<1> QED BY <1>1, <1>2, QuietSwitched

LEMMA LoadContactSwitched ==
  ASSUME Typed, SwitchInv, Next, NEW p \in Parties, NEW kind \in Kinds, LoadContact(p, kind)
  PROVE  SwitchInv'
<1> DEFINE new == [kind |-> kind, contact |-> contact[p], id |-> commands + 1]
<1>1. UNCHANGED <<contact, opened, pass, shared, undone>> /\ command' = [command EXCEPT ![p] = new]
  BY DEF LoadContact, diskVars, relayVars, historyVars
<1>2. new.contact = contact[p]
  OBVIOUS
<1> HIDE DEF new
<1>3. command'[p] = new /\ \A r \in Parties \ {p} : command'[r] = command[r]
  BY <1>1 DEF Typed, TypeOK
<1>4. SUFFICES ASSUME NEW r \in Parties PROVE SwitchedAt(r)'
  BY DEF SwitchInv
<1>5. SwitchedAt(r)
  BY DEF SwitchInv
<1>6. CASE r # p
  BY <1>1, <1>3, <1>5, <1>6, SwitchedAtKept
<1>7. CASE r = p
  <2>1. \A q \in Parties : HasSwitched(q)' <=> HasSwitched(q)
    BY <1>1 DEF HasSwitched
  <2>2. Peer(p) \in Parties
    BY PeerFacts
  <2>3. /\ command'[p].contact.known => HasSwitched(p)'
        /\ command'[p].contact.confirmed => HasSwitched(Peer(p))'
    BY <1>2, <1>3, <1>5, <1>7, <2>1, <2>2 DEF SwitchedAt, HasSwitched
  <2> QED BY <1>1, <1>5, <1>7, <2>1, <2>2, <2>3 DEF SwitchedAt
<1> QED BY <1>6, <1>7

LEMMA WriteSwitched ==
  ASSUME Typed, SwitchInv, Next, NEW p \in Parties, WriteChat(p) \/ WritePolicy(p)
  PROVE  SwitchInv'
<1>1. command[p] # Nothing
  BY DEF WriteChat, WritePolicy, Runs, Typed, InStep
<1>2. WriteWhere(p, command[p].contact) \/ UNCHANGED relayVars
  BY DEF WriteChat, WritePolicy, Sent
<1>3. Done(p) /\ UNCHANGED pass
  BY DEF WriteChat, WritePolicy
<1>4. SaveLoaded(p) \/ UNCHANGED <<contact, opened>>
  BY DEF WriteChat, WritePolicy, Sent, diskVars
<1>5. SUFFICES ASSUME NEW r \in Parties PROVE SwitchedAt(r)'
  BY DEF SwitchInv
<1>6. SwitchedAt(r)
  BY DEF SwitchInv
<1>7. shared'[r] # <<>> => shared[r] # <<>> \/ HasSwitched(Peer(r))
  BY <1>1, <1>2, WrittenIsSwitched
<1>8. opened' = opened /\ (contact'[r].confirmed => contact[r].confirmed \/ HasSwitched(Peer(r)))
  BY <1>1, <1>4, SavedIsSwitched
<1>9. command'[r] = command[r] \/ command'[r] = Nothing
  BY <1>3, DoneTyped
<1> QED BY <1>3, <1>6, <1>7, <1>8, <1>9, SwitchedAtKept

LEMMA SaveSwitched ==
  ASSUME Typed, SwitchInv, Next, NEW p \in Parties, SavePolicy(p) \/ Decline(p)
  PROVE  SwitchInv'
<1>1. command[p] # Nothing /\ SaveLoaded(p) /\ UNCHANGED <<pass, shared>>
  BY DEF SavePolicy, Decline, Runs, relayVars
<1>2. Done(p) \/ command' = command
  BY DEF SavePolicy, Decline
<1>3. \A r \in Parties : command'[r] = command[r] \/ command'[r] = Nothing
  BY <1>2, DoneTyped
<1>4. opened' = opened
      /\ \A r \in Parties : contact'[r].confirmed => contact[r].confirmed \/ HasSwitched(Peer(r))
  BY <1>1, SavedIsSwitched
<1> QED BY <1>1, <1>3, <1>4, QuietSwitched

LEMMA FetchSwitched ==
  ASSUME Typed, SwitchInv, Next, NEW p \in Parties, Fetch(p)
  PROVE  SwitchInv'
<1> DEFINE c == contact[p]
           box == IF c.known THEN shared[p] ELSE inbox[p]
           fetched == [batch |-> box, opened |-> opened[p], lost |-> FALSE,
                       switched |-> c.known, confirmed |-> c.confirmed, any |-> FALSE]
<1>1. UNCHANGED <<contact, opened, shared, command>> /\ box # <<>>
      /\ pass' = [pass EXCEPT ![p] = fetched]
  BY DEF Fetch, diskVars, relayVars
<1>2. fetched.opened = opened[p] /\ fetched.switched = c.known /\ fetched.any = FALSE
      /\ fetched.batch = box
  OBVIOUS
<1>3. c.known => box = shared[p]
  OBVIOUS
<1> HIDE DEF fetched, box, c
<1>4. pass'[p] = fetched /\ \A r \in Parties \ {p} : pass'[r] = pass[r]
  BY <1>1 DEF Typed, TypeOK
<1>5. SUFFICES ASSUME NEW r \in Parties PROVE SwitchedAt(r)'
  BY DEF SwitchInv
<1>6. SwitchedAt(r)
  BY DEF SwitchInv
<1>7. CASE r # p
  BY <1>1, <1>4, <1>6, <1>7, SwitchedAtKept
<1>8. CASE r = p
  <2>1. c.known => HasSwitched(Peer(p))
    BY <1>1, <1>3, <1>6, <1>8 DEF SwitchedAt
  <2>2. pass'[r].switched => HasSwitched(Peer(r))
    BY <1>2, <1>4, <1>8, <2>1
  <2>3. pass'[r].opened = opened[r]
    BY <1>2, <1>4, <1>8
  <2> QED BY <1>1, <1>6, <2>2, <2>3, SwitchedAtKept
<1> QED BY <1>7, <1>8

(* An announce that opens switches the side that opened it.                *)
LEMMA ApplyEntrySwitched ==
  ASSUME Typed, SwitchInv, Next, NEW p \in Parties, ApplyEntry(p)
  PROVE  SwitchInv'
<1>1. UNCHANGED <<opened, shared, command>> /\ pass[p].batch # <<>>
      /\ contact' \in {contact, [contact EXCEPT ![p].known = TRUE]}
  BY DEF ApplyEntry, Switched, relayVars
<1>2. SUFFICES ASSUME NEW r \in Parties PROVE SwitchedAt(r)'
  BY DEF SwitchInv
<1>3. SwitchedAt(r)
  BY DEF SwitchInv
<1>4. contact'[r].confirmed = contact[r].confirmed
  <2>1. contact \in [Parties -> Contacts]
    BY DEF Typed, TypeOK
  <2> QED BY <1>1, <2>1 DEF Contacts
<1>5. CASE r # p
  <2>1. pass'[r] = pass[r]
    BY <1>5, ApplyEntryPass
  <2> QED BY <1>1, <1>3, <1>4, <2>1, SwitchedAtKept
<1>6. CASE r = p
  <2>1. pass'[p].switched => pass[p].switched /\ (pass[p].batch # <<>> \/ pass[p].any)
    BY <1>1, ApplyEntryPass
  <2>2. Announce \in pass'[p].opened => Announce \in pass[p].opened \/ HasSwitched(p)'
    <3> SUFFICES ASSUME Announce \in pass'[p].opened, Announce \notin pass[p].opened
                 PROVE  HasSwitched(p)'
      OBVIOUS
    <3>1. Head(pass[p].batch) = Announce
      BY ApplyEntryPass
    <3>2. contact' = [contact EXCEPT ![p].known = TRUE]
      BY <3>1 DEF ApplyEntry, Switched
    <3>3. contact'[p].known = TRUE
      <4>1. contact \in [Parties -> Contacts]
        BY DEF Typed, TypeOK
      <4> QED BY <3>2, <4>1 DEF Contacts
    <3> QED BY <3>3 DEF HasSwitched
  <2> QED BY <1>1, <1>3, <1>4, <1>6, <2>1, <2>2, SwitchedAtKept
<1> QED BY <1>5, <1>6

LEMMA DeleteEntrySwitched ==
  ASSUME Typed, SwitchInv, Next, NEW p \in Parties, DeleteEntry(p)
  PROVE  SwitchInv'
<1>1. UNCHANGED <<contact, opened, command>> /\ pass[p].batch # <<>>
  BY DEF DeleteEntry, diskVars, Typed, InStep
<1>2. SUFFICES ASSUME NEW r \in Parties PROVE SwitchedAt(r)'
  BY DEF SwitchInv
<1>3. SwitchedAt(r)
  BY DEF SwitchInv
<1>4. shared'[r] # <<>> => shared[r] # <<>>
  BY DeleteEntryRelayTyped
<1>5. /\ pass'[r].switched /\ (pass'[r].batch # <<>> \/ pass'[r].any)
           => pass[r].switched /\ (pass[r].batch # <<>> \/ pass[r].any)
      /\ Announce \in pass'[r].opened => Announce \in pass[r].opened
  <2>1. CASE GiveUp(p)
    BY <2>1, GiveUpTyped, NoPassTyped
  <2>2. CASE pass' = [pass EXCEPT ![p].batch = Tail(pass[p].batch)]
    <3>1. pass \in [Parties -> Passes]
      BY DEF Typed, TypeOK
    <3>2. /\ r # p => pass'[r] = pass[r]
          /\ pass'[p].switched = pass[p].switched /\ pass'[p].opened = pass[p].opened
      BY <2>2, <3>1 DEF Passes
    <3> QED BY <1>1, <3>2
  <2> QED BY <2>1, <2>2, DeleteEntryPass
<1> QED BY <1>1, <1>3, <1>4, <1>5, SwitchedAtKept

(* A pass that ends confirms only what opened in the routing-id mailbox.   *)
LEMMA EndPassSwitched ==
  ASSUME Typed, SwitchInv, Next, NEW p \in Parties, EndPass(p)
  PROVE  SwitchInv'
<1>1. /\ UNCHANGED <<shared, command>> /\ GiveUp(p)
      /\ opened' = [opened EXCEPT ![p] = pass[p].opened]
      /\ contact' = IF Confirms(pass[p]) THEN [contact EXCEPT ![p].confirmed = TRUE] ELSE contact
  BY DEF EndPass, relayVars
<1>2. SUFFICES ASSUME NEW r \in Parties PROVE SwitchedAt(r)'
  BY DEF SwitchInv
<1>3. SwitchedAt(r)
  BY DEF SwitchInv
<1>4. contact'[r].confirmed => contact[r].confirmed \/ HasSwitched(Peer(r))
  <2>1. contact \in [Parties -> Contacts]
    BY DEF Typed, TypeOK
  <2>2. r # p => contact'[r] = contact[r]
    BY <1>1, <2>1
  <2>3. ~Confirms(pass[p]) => contact' = contact
    BY <1>1
  <2>4. r = p /\ Confirms(pass[p]) => HasSwitched(Peer(r))
    BY <1>3 DEF Confirms, SwitchedAt
  <2> QED BY <2>2, <2>3, <2>4
<1>5. /\ pass'[r].switched /\ (pass'[r].batch # <<>> \/ pass'[r].any)
           => pass[r].switched /\ (pass[r].batch # <<>> \/ pass[r].any)
      /\ Announce \in pass'[r].opened => Announce \in pass[r].opened
  BY <1>1, GiveUpTyped, NoPassTyped
<1>6. Announce \in opened'[r] => Announce \in opened[r] \/ Announce \in pass[r].opened
  BY <1>1 DEF Typed, TypeOK
<1> QED BY <1>1, <1>3, <1>4, <1>5, <1>6, SwitchedAtKept

LEMMA FaultSwitched ==
  ASSUME Typed, SwitchInv, Next,
         \/ \E p \in Parties : Crash(p) \/ OtherContactDeletes(p)
         \/ RelayRestart
  PROVE  SwitchInv'
<1> SUFFICES ASSUME NEW r \in Parties PROVE SwitchedAt(r)'
  BY DEF SwitchInv
<1>1. SwitchedAt(r)
  BY DEF SwitchInv
<1>2. ASSUME NEW p \in Parties, Crash(p) PROVE SwitchedAt(r)'
  <2>1. UNCHANGED <<contact, opened, shared>> /\ GiveUp(p) /\ Done(p)
    BY <1>2 DEF Crash, diskVars, relayVars
  <2>2. /\ pass'[r].switched /\ (pass'[r].batch # <<>> \/ pass'[r].any)
             => pass[r].switched /\ (pass[r].batch # <<>> \/ pass[r].any)
        /\ Announce \in pass'[r].opened => Announce \in pass[r].opened
    BY <2>1, GiveUpTyped, NoPassTyped
  <2>3. command'[r] = command[r] \/ command'[r] = Nothing
    BY <2>1, DoneTyped
  <2> QED BY <1>1, <2>1, <2>2, <2>3, SwitchedAtKept
<1>3. ASSUME NEW p \in Parties, OtherContactDeletes(p) PROVE SwitchedAt(r)'
  <2>1. UNCHANGED <<contact, opened, shared, pass, command>>
    BY <1>3 DEF OtherContactDeletes, diskVars
  <2> QED BY <1>1, <2>1, SwitchedAtKept
<1>4. CASE RelayRestart
  <2>1. UNCHANGED <<contact, opened, command>> /\ shared'[r] = <<>>
    BY <1>4 DEF RelayRestart, diskVars
  <2>2. pass'[r].batch = pass[r].batch /\ pass'[r].switched = pass[r].switched
        /\ pass'[r].any = pass[r].any /\ pass'[r].opened = pass[r].opened
    <3> DEFINE working == step[r] \in {"apply", "delete"}
    <3>1. pass'[r] = [pass[r] EXCEPT !.lost = working] /\ pass[r] \in Passes
      BY <1>4, PassTyped DEF RelayRestart
    <3> HIDE DEF working
    <3> QED BY <3>1 DEF Passes
  <2> QED BY <1>1, <2>1, <2>2, SwitchedAtKept
<1> QED BY <1>2, <1>3, <1>4

LEMMA SwitchInit == Init => SwitchInv
<1> SUFFICES ASSUME Init, NEW p \in Parties PROVE SwitchedAt(p)
  BY DEF SwitchInv
<1>1. contact[p] = NewContact /\ opened[p] = {} /\ shared[p] = <<>> /\ pass[p] = NoPass
      /\ command[p] = Nothing
  BY DEF Init
<1>2. NewContact.confirmed = FALSE
  BY DEF NewContact
<1> QED BY <1>1, <1>2, NoPassTyped DEF SwitchedAt

LEMMA SwitchStep == Typed /\ SwitchInv /\ [Next]_vars => SwitchInv'
<1> SUFFICES ASSUME Typed, SwitchInv, [Next]_vars PROVE SwitchInv'
  OBVIOUS
<1>1. CASE Next
  <2>1. ASSUME NEW p \in Parties, NEW kind \in Kinds, LoadContact(p, kind) PROVE SwitchInv'
    BY <1>1, <2>1, LoadContactSwitched
  <2>2. ASSUME NEW p \in Parties, KeepAnnounce(p) \/ WriteAnnounce(p) \/ Reannounce(p)
        PROVE  SwitchInv'
    BY <1>1, <2>2, AnnounceSwitched
  <2>3. ASSUME NEW p \in Parties, WriteChat(p) \/ SavePolicy(p) \/ WritePolicy(p) \/ Decline(p)
        PROVE  SwitchInv'
    BY <1>1, <2>3, WriteSwitched, SaveSwitched
  <2>4. ASSUME NEW p \in Parties, Fetch(p) \/ ApplyEntry(p) \/ DeleteEntry(p) \/ EndPass(p)
        PROVE  SwitchInv'
    BY <1>1, <2>4, FetchSwitched, ApplyEntrySwitched, DeleteEntrySwitched, EndPassSwitched
  <2>5. CASE \/ \E p \in Parties : Crash(p) \/ OtherContactDeletes(p)
             \/ RelayRestart
    BY <1>1, <2>5, FaultSwitched
  <2> QED BY <1>1, <2>1, <2>2, <2>3, <2>4, <2>5 DEF Next
<1>2. CASE UNCHANGED vars
  BY <1>2 DEF vars, diskVars, relayVars, historyVars, SwitchInv, SwitchedAt, HasSwitched
<1> QED BY <1>1, <1>2

LEMMA Switching == Spec => [](Typed /\ SwitchInv)
BY TypedInit, TypedStep, SwitchInit, SwitchStep, PTL DEF Spec

(* A side stops re-sending its announce only when the other has switched   *)
(* (mark_routing_confirmed), whatever crashes, losses and relay restarts   *)
(* came between, unless an older copy of the other's record undid it.      *)
THEOREM ConfirmedHasReallySwitched == Spec => []ConfirmedHasSwitched
<1>1. SwitchInv => ConfirmedHasSwitched
  BY DEF SwitchInv, SwitchedAt, HasSwitched, ConfirmedHasSwitched
<1> QED BY <1>1, Switching, PTL

-----------------------------------------------------------------------------
(* A side is about to announce, or keeps its announce, unless it was       *)
(* stopped before or an older copy of its record took it back.             *)
KeepsAnnounce(p) ==
  step[p] = "paired" \/ contact[p].kept \/ p \in cut \/ p \in undone
KeepInv == \A p \in Parties : KeepsAnnounce(p)

LEMMA KeptAlong ==
  ASSUME Typed, NEW r \in Parties, KeepsAnnounce(r),
         contact[r].kept => contact'[r].kept \/ r \in undone',
         step[r] = "paired" => step'[r] = "paired" \/ contact'[r].kept \/ r \in cut',
         cut \subseteq cut', undone \subseteq undone'
  PROVE  KeepsAnnounce(r)'
BY DEF KeepsAnnounce

LEMMA SaveLoadedKept ==
  ASSUME Typed, NEW p \in Parties, SaveLoaded(p), NEW r \in Parties
  PROVE  /\ contact[r].kept => contact'[r].kept \/ r \in undone'
         /\ cut' = cut /\ undone \subseteq undone'
<1>1. contact' = [contact EXCEPT ![p] = command[p].contact] /\ cut' = cut
      /\ undone' = IF TakesBack(contact[p], command[p].contact) THEN undone \union {p} ELSE undone
  BY DEF SaveLoaded
<1>2. contact'[p] = command[p].contact /\ (r # p => contact'[r] = contact[r])
  BY <1>1 DEF Typed, TypeOK
<1> QED BY <1>1, <1>2 DEF TakesBack

LEMMA KeepStep == Typed /\ KeepInv /\ [Next]_vars => KeepInv'
<1> SUFFICES ASSUME Typed, KeepInv, [Next]_vars, NEW r \in Parties PROVE KeepsAnnounce(r)'
  BY DEF KeepInv
<1> USE DEF historyVars, diskVars
<1>1. KeepsAnnounce(r)
  BY DEF KeepInv
<1>2. ASSUME NEW p \in Parties, KeepAnnounce(p) PROVE KeepsAnnounce(r)'
  <2>1. contact' = [contact EXCEPT ![p].kept = TRUE] /\ UNCHANGED <<cut, undone>> /\ At(p, "kept")
    BY <1>2 DEF KeepAnnounce
  <2>2. contact \in [Parties -> Contacts]
    BY DEF Typed, TypeOK
  <2>3. contact'[p].kept = TRUE /\ (r # p => contact'[r] = contact[r] /\ step'[r] = step[r])
    BY <2>1, <2>2, ToIdle DEF Contacts
  <2> QED BY <1>1, <2>1, <2>3, KeptAlong
<1>3. ASSUME NEW p \in Parties,
             \/ WriteAnnounce(p) \/ (\E kind \in Kinds : LoadContact(p, kind))
             \/ WriteChat(p) \/ Reannounce(p) \/ Fetch(p) \/ DeleteEntry(p) \/ OtherContactDeletes(p)
      PROVE  KeepsAnnounce(r)'
  <2>1. UNCHANGED <<contact, cut, undone>>
    BY <1>3 DEF WriteAnnounce, LoadContact, WriteChat, Reannounce, Fetch, DeleteEntry,
                OtherContactDeletes
  <2>2. step' = step \/ (step[p] # "paired" /\ \E s : At(p, s))
    BY <1>3 DEF WriteAnnounce, LoadContact, WriteChat, Reannounce, Fetch, DeleteEntry,
                OtherContactDeletes, GiveUp, Sent
  <2>3. step[r] = "paired" => step'[r] = "paired"
    BY <2>2 DEF At, Typed, TypeOK
  <2> QED BY <1>1, <2>1, <2>3, KeptAlong
<1>4. ASSUME NEW p \in Parties, SavePolicy(p) \/ WritePolicy(p) \/ Decline(p)
      PROVE  KeepsAnnounce(r)'
  <2>1. SaveLoaded(p) \/ UNCHANGED <<contact, cut, undone>>
    BY <1>4 DEF SavePolicy, WritePolicy, Decline, Sent
  <2>2. step' = step \/ (step[p] # "paired" /\ \E s : At(p, s))
    BY <1>4 DEF SavePolicy, WritePolicy, Decline
  <2>3. step[r] = "paired" => step'[r] = "paired"
    BY <2>2 DEF At, Typed, TypeOK
  <2> QED BY <1>1, <2>1, <2>3, SaveLoadedKept, KeptAlong
<1>5. ASSUME NEW p \in Parties, ApplyEntry(p) \/ EndPass(p) PROVE KeepsAnnounce(r)'
  <2>1. UNCHANGED <<cut, undone>> /\ step[p] # "paired" /\ \E s : At(p, s)
    BY <1>5 DEF ApplyEntry, EndPass, GiveUp
  <2>2. contact' \in {contact, [contact EXCEPT ![p].known = TRUE],
                      [contact EXCEPT ![p].confirmed = TRUE]}
    BY <1>5 DEF ApplyEntry, EndPass, Switched
  <2>3. contact'[r].kept = contact[r].kept
    <3>1. contact \in [Parties -> Contacts] /\ contact[r] \in Contacts
      BY DEF Typed, TypeOK
    <3>2. CASE contact' = contact
      BY <3>2
    <3>3. CASE contact' = [contact EXCEPT ![p].known = TRUE]
      BY <3>1, <3>3 DEF Contacts
    <3>4. CASE contact' = [contact EXCEPT ![p].confirmed = TRUE]
      BY <3>1, <3>4 DEF Contacts
    <3> QED BY <2>2, <3>2, <3>3, <3>4
  <2>4. step[r] = "paired" => step'[r] = "paired"
    BY <2>1 DEF At, Typed, TypeOK
  <2> QED BY <1>1, <2>1, <2>3, <2>4, KeptAlong
<1>6. ASSUME NEW p \in Parties, Crash(p) PROVE KeepsAnnounce(r)'
  <2>1. UNCHANGED <<contact, undone>> /\ cut \subseteq cut' /\ (step[p] = "paired" => p \in cut')
    BY <1>6 DEF Crash
  <2>2. r # p => step'[r] = step[r]
    BY <1>6, GiveUpTyped DEF Crash
  <2> QED BY <1>1, <2>1, <2>2, KeptAlong
<1>7. CASE RelayRestart
  BY <1>1, <1>7 DEF RelayRestart, KeepsAnnounce
<1>8. CASE UNCHANGED vars
  BY <1>1, <1>8 DEF vars, KeepsAnnounce
<1> QED BY <1>2, <1>3, <1>4, <1>5, <1>6, <1>7, <1>8 DEF Next

LEMMA Keeping == Spec => [](Typed /\ SwitchInv /\ KeepInv)
<1>1. Init => KeepInv
  BY DEF Init, KeepInv, KeepsAnnounce
<1> QED BY <1>1, Switching, KeepStep, PTL DEF Spec

(* While one side has switched and the other has not, the other can still  *)
(* learn the routing id: the side that switched keeps its announce, has    *)
(* not been confirmed, and the other has not opened it                     *)
(* (reannounce_routing_id_if_unconfirmed); unless a stop came before the   *)
(* announce was kept, or an older copy of a record was saved.              *)
THEOREM PeerCatchesUpUnlessUndone == Spec => []PeerCatchesUpInOrder
<1>1. ASSUME Typed, SwitchInv, KeepInv, cut = {}, undone = {}, NEW p \in Parties,
             contact[p].known, ~contact[Peer(p)].known
      PROVE  CanCatchUp(p)
  <2>1. Peer(p) \in Parties /\ ~HasSwitched(Peer(p))
    BY <1>1, PeerFacts DEF HasSwitched
  <2>2. ~contact[p].confirmed
    BY <1>1, <2>1 DEF SwitchInv, SwitchedAt
  <2>3. Announce \notin opened[Peer(p)]
    BY <1>1, <2>1 DEF SwitchInv, SwitchedAt
  <2>4. step[p] = "paired" \/ contact[p].kept
    BY <1>1 DEF KeepInv, KeepsAnnounce
  <2> QED BY <1>1, <2>2, <2>3, <2>4 DEF CanCatchUp, Resends
<1>2. Typed /\ SwitchInv /\ KeepInv => PeerCatchesUpInOrder
  BY <1>1 DEF PeerCatchesUpInOrder, PeerCatchesUp
<1> QED BY <1>2, Keeping, PTL
=============================================================================
