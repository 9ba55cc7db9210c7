--------------------------- MODULE PairingProofs ---------------------------
(***************************************************************************)
(* Proofs about Pairing, for any number of initiators, publications, codes *)
(* and faults, and any sizes of a batch and of a code's attempts.          *)
(*                                                                         *)
(* Each property has an inductive invariant of its own over the typed      *)
(* state: KeysInv says which one-time prekeys can still be handed out,     *)
(* OfferInv what of them the device holds, CodesInv what a pairing code    *)
(* that is still live has been compared to and accepted for.               *)
(***************************************************************************)
EXTENDS Pairing, DataFacts, SequenceTheorems, TLAPS

-----------------------------------------------------------------------------
LEMMA RanRemaining ==
  ASSUME inbox \in Seq(Wires)
  PROVE  Remaining \in Seq(Wires) /\ Ran(Remaining) \subseteq Ran(inbox)
<1> DEFINE gone == {i \in DOMAIN inbox : inbox[i] = Head(scan)}
<1>1. CASE gone = {}
  BY <1>1 DEF Remaining
<1>2. CASE gone # {}
  <2> DEFINE i == CHOOSE j \in gone : TRUE
  <2>1. i \in gone
    BY <1>2
  <2>2. i \in 1..Len(inbox)
    BY <2>1, LenProperties
  <2>3. Remaining = SubSeq(inbox, 1, i - 1) \o SubSeq(inbox, i + 1, Len(inbox))
    BY <1>2 DEF Remaining
  <2> HIDE DEF i
  <2> QED BY <2>2, <2>3, RanSubSeq
<1> QED BY <1>1, <1>2

-----------------------------------------------------------------------------
(* Types. *)

Bundles == [spk : Nat, keys : SUBSET Keys]
Offers == [spk : Nat, otp : Keys]
AtEntry == {"judge", "matched", "contact", "session", "announce", "delete"}
Acceptances == [from : Initiators, code : Nat]

Typed ==
  /\ directory \in Bundles \union {Nothing} /\ kept \in Bundles \union {Nothing}
  /\ inbox \in Seq(Wires) /\ scan \in Seq(Wires)
  /\ acct \in Accounts /\ saved \in Accounts
  /\ code \in Codes /\ loaded \in Codes /\ dirty \in BOOLEAN /\ refused \in BOOLEAN
  /\ contact \subseteq Initiators /\ session \subseteq Initiators /\ paired \subseteq Initiators
  /\ step \in Steps
  /\ step \in AtEntry => scan # <<>>
  /\ attempt \in [Initiators -> {"none", "fetched", "given up", "acknowledged", "done"}]
  /\ bundle \in [Initiators -> Offers \union {Nothing}]
  /\ \A a \in Initiators : attempt[a] = "fetched" => bundle[a] \in Offers
  /\ accepted \in Seq(Acceptances)
  /\ judged \in [1..MaxCodes -> Nat]
  /\ handed \subseteq Keys /\ repeated \subseteq Keys /\ unsaved \subseteq Keys
  /\ faults \in 0..MaxFaults /\ codes \in 0..MaxCodes /\ batches \in 1..MaxBatches

LEMMA StartValues ==
  /\ NoKey \in Keys
  /\ NoCode \in Codes
  /\ \A n \in Nat, b \in Nat : Batch(n, b) \subseteq Keys
<1>1. NoKey \in Keys
  BY DEF NoKey, Keys
<1>2. NoCode \in Codes
  BY PairingAssumption DEF NoCode, Codes
<1>3. \A n \in Nat, b \in Nat : Batch(n, b) \subseteq Keys
  BY PairingAssumption DEF Batch, Keys
<1> QED BY <1>1, <1>2, <1>3

LEMMA TypedInit == Init => Typed
<1> SUFFICES ASSUME Init PROVE Typed
  OBVIOUS
<1>1. acct \in Accounts /\ saved \in Accounts
  <2>1. Batch(1, 1) \subseteq Keys
    BY StartValues
  <2> QED BY <2>1, PairingAssumption DEF Init, Account, Accounts
<1>2. directory \in Bundles /\ kept \in Bundles
  BY <1>1 DEF Init, Published, Bundles, Accounts
<1>3. inbox \in Seq(Wires) /\ scan \in Seq(Wires) /\ accepted \in Seq(Acceptances)
  BY EmptySeq DEF Init
<1>4. code \in Codes /\ loaded \in Codes /\ dirty \in BOOLEAN /\ refused \in BOOLEAN
  BY StartValues DEF Init
<1>5. step \in Steps /\ step \notin AtEntry
  BY DEF Init, Steps, AtEntry
<1>6. /\ contact \subseteq Initiators /\ session \subseteq Initiators /\ paired \subseteq Initiators
      /\ handed \subseteq Keys /\ repeated \subseteq Keys /\ unsaved \subseteq Keys
  BY DEF Init
<1>7. /\ attempt \in [Initiators -> {"none", "fetched", "given up", "acknowledged", "done"}]
      /\ bundle \in [Initiators -> Offers \union {Nothing}]
      /\ \A a \in Initiators : attempt[a] = "fetched" => bundle[a] \in Offers
  BY DEF Init
<1>8. /\ judged \in [1..MaxCodes -> Nat]
      /\ faults \in 0..MaxFaults /\ codes \in 0..MaxCodes /\ batches \in 1..MaxBatches
  BY PairingAssumption DEF Init
<1> QED BY <1>1, <1>2, <1>3, <1>4, <1>5, <1>6, <1>7, <1>8 DEF Typed

(* What counts, apart from the rest.                                       *)
LEMMA TypedNumbers ==
  ASSUME Typed
  PROVE  /\ faults \in 0..MaxFaults /\ codes \in 0..MaxCodes /\ batches \in 1..MaxBatches
         /\ acct.next \in Nat /\ acct.spk \in Nat /\ code \in Codes /\ loaded \in Codes
BY DEF Typed, Accounts

(* Ending an operation, and a fault.                                       *)
LEMMA EndTyped ==
  ASSUME NEW s \in {"idle", "offline"}, End(s)
  PROVE  /\ scan' \in Seq(Wires) /\ loaded' \in Codes /\ dirty' \in BOOLEAN
         /\ step' \in Steps /\ step' \notin AtEntry
BY EmptySeq, StartValues DEF End, Steps, AtEntry

LEMMA FaultTyped ==
  ASSUME Typed, Fault
  PROVE  faults' \in 0..MaxFaults
BY TypedNumbers, PairingAssumption DEF Fault

LEMMA TypedStep == Typed /\ [Next]_vars => Typed'
<1> SUFFICES ASSUME Typed, [Next]_vars PROVE Typed'
  OBVIOUS
<1> USE DEF relayVars, accountVars, contactVars, passVars, initiatorVars, keyHistory, scanHistory
<1>1. ASSUME NEW rotate \in BOOLEAN, GenerateBatch(rotate) PROVE Typed'
  <2>1. acct' \in Accounts
    <3>1. acct.next \in Nat /\ acct.spk \in Nat /\ batches + 1 \in Nat /\ acct.next + BatchSize \in Nat
      BY TypedNumbers, PairingAssumption
    <3>2. Batch(acct.next, batches + 1) \subseteq Keys
      BY <3>1, StartValues
    <3> QED BY <1>1, <3>1, <3>2 DEF GenerateBatch, Account, Accounts
  <2>2. batches' \in 1..MaxBatches
    BY <1>1, TypedNumbers, PairingAssumption DEF GenerateBatch
  <2>3. step' \in Steps /\ step' \notin AtEntry
    BY <1>1 DEF GenerateBatch, Steps, AtEntry
  <2> QED BY <1>1, <2>1, <2>2, <2>3 DEF GenerateBatch, Typed
<1>2. CASE Publish
  <2>1. directory' \in Bundles \union {Nothing} /\ kept' \in Bundles \union {Nothing} /\ inbox' = inbox
    <3>1. Replaced(acct) \in Bundles
      BY DEF Typed, Accounts, Replaced, Published, Bundles
    <3> QED BY <1>2, <3>1 DEF Publish, PublishBundle, Typed
  <2>2. /\ scan' \in Seq(Wires) /\ loaded' \in Codes /\ dirty' \in BOOLEAN
        /\ step' \in Steps /\ step' \notin AtEntry /\ faults' \in 0..MaxFaults
    BY <1>2, EndTyped, FaultTyped DEF Publish, Typed, Steps, AtEntry
  <2>3. refused' \in BOOLEAN
    BY <1>2 DEF Publish
  <2> QED BY <1>2, <2>1, <2>2, <2>3 DEF Publish, Typed
<1>3. CASE SaveAccount
  BY <1>3 DEF SaveAccount, Typed, Steps, AtEntry
<1>4. ASSUME NEW a \in Initiators, FetchBundle(a) PROVE Typed'
  <2>1. PICK k \in (IF directory.keys = {} THEN {NoKey} ELSE directory.keys) :
          /\ directory' = [directory EXCEPT !.keys = TakenFrom(directory.keys, k)]
          /\ \/ kept' = (IF SavesPool(k) THEN directory' ELSE kept) /\ UNCHANGED <<unsaved, faults>>
             \/ Fault /\ unsaved' = unsaved \union {k} /\ kept' = kept
          /\ handed' = handed \union ({k} \ {NoKey})
          /\ repeated' = repeated \union ({k} \intersect handed)
          /\ bundle' = [bundle EXCEPT ![a] = [spk |-> directory.spk, otp |-> k]]
    BY <1>4 DEF FetchBundle
  <2>2. directory \in Bundles
    BY <1>4 DEF FetchBundle, Typed
  <2>3. k \in Keys
    BY <2>1, <2>2, StartValues DEF Bundles
  <2>4. directory' \in Bundles
    BY <2>1, <2>2 DEF Bundles, TakenFrom
  <2>5. kept' \in Bundles \union {Nothing} /\ unsaved' \subseteq Keys /\ faults' \in 0..MaxFaults
    BY <2>1, <2>3, <2>4, FaultTyped DEF Typed
  <2>6. handed' \subseteq Keys /\ repeated' \subseteq Keys
    BY <2>1, <2>3 DEF Typed
  <2>7. [spk |-> directory.spk, otp |-> k] \in Offers
    BY <2>2, <2>3 DEF Bundles, Offers
  <2>8. /\ bundle' \in [Initiators -> Offers \union {Nothing}]
        /\ attempt' \in [Initiators -> {"none", "fetched", "given up", "acknowledged", "done"}]
        /\ \A b \in Initiators : attempt'[b] = "fetched" => bundle'[b] \in Offers
    BY <1>4, <2>1, <2>7 DEF FetchBundle, Typed
  <2> QED BY <1>4, <2>4, <2>5, <2>6, <2>8 DEF FetchBundle, Typed
<1>5. ASSUME NEW a \in Initiators, NEW guess \in 0..codes, WriteFirstContact(a, guess) PROVE Typed'
  <2>1. bundle[a] \in Offers
    BY <1>5 DEF WriteFirstContact, Typed
  <2>2. Wire(a, bundle[a], guess) \in Wires
    <3>1. guess \in Nat
      BY TypedNumbers, PairingAssumption
    <3> QED BY <2>1, <3>1 DEF Wire, Wires, Offers
  <2>3. Append(inbox, Wire(a, bundle[a], guess)) \in Seq(Wires)
    BY <2>2, RanAppend DEF Typed
  <2>4. /\ inbox' \in Seq(Wires) /\ directory' = directory /\ kept' = kept /\ faults' \in 0..MaxFaults
        /\ bundle' = bundle
    BY <1>5, <2>3, FaultTyped DEF WriteFirstContact, Reaches, Typed
  <2>5. /\ attempt' \in [Initiators -> {"none", "fetched", "given up", "acknowledged", "done"}]
        /\ \A b \in Initiators : attempt'[b] = "fetched" => bundle'[b] \in Offers
    BY <1>5, <2>4 DEF WriteFirstContact, Typed
  <2> QED BY <1>5, <2>4, <2>5 DEF WriteFirstContact, Typed
<1>6. ASSUME NEW a \in Initiators, SavePairing(a) PROVE Typed'
  BY <1>6 DEF SavePairing, Typed
<1>7. CASE GenerateCode
  <2>1. code' \in Codes /\ codes' \in 0..MaxCodes
    BY <1>7, TypedNumbers, PairingAssumption DEF GenerateCode, Codes
  <2> QED BY <1>7, <2>1 DEF GenerateCode, Typed
<1>8. CASE ExpireCode
  <2>1. code' \in Codes /\ loaded' \in Codes
    BY <1>8 DEF ExpireCode, Typed, Codes
  <2> QED BY <1>8, <2>1 DEF ExpireCode, Typed
<1>9. CASE Fetch
  BY <1>9 DEF Fetch, Typed, Steps, AtEntry
<1>10. CASE LoadCode
  <2>1. loaded' \in Codes /\ step' \in Steps
    BY <1>10, StartValues DEF LoadCode, Typed, Steps
  <2> QED BY <1>10, <2>1 DEF LoadCode, Typed
<1>11. CASE JudgeCode
  <2>1. code' \in Codes
    <3>1. CASE Judges(loaded)
      <4>1. loaded.attempts + 1 \in 0..MaxAttempts
        BY <3>1, TypedNumbers, PairingAssumption DEF Judges, Codes
      <4>2. Counted(loaded) = [loaded EXCEPT !.attempts = loaded.attempts + 1]
        BY <3>1 DEF Counted
      <4>3. [loaded EXCEPT !.attempts = loaded.attempts + 1] \in Codes
        BY <4>1, TypedNumbers DEF Codes
      <4> QED BY <1>11, <4>2, <4>3 DEF JudgeCode
    <3>2. CASE ~Judges(loaded)
      BY <1>11, <3>2, TypedNumbers DEF JudgeCode, Counted
    <3> QED BY <3>1, <3>2
  <2>2. judged' \in [1..MaxCodes -> Nat]
    <3>1. judged \in [1..MaxCodes -> Nat]
      BY DEF Typed
    <3>2. CASE loaded.id \in 1..MaxCodes
      <4>1. judged[loaded.id] + 1 \in Nat
        BY <3>1, <3>2
      <4> QED BY <1>11, <3>1, <4>1 DEF JudgeCode
    <3>3. CASE loaded.id \notin 1..MaxCodes
      BY <1>11, <3>1, <3>3 DEF JudgeCode
    <3> QED BY <3>2, <3>3
  <2>3. step' \in Steps /\ scan' # <<>> /\ scan' = scan
    BY <1>11 DEF JudgeCode, Typed, Steps, AtEntry
  <2> QED BY <1>11, <2>1, <2>2, <2>3 DEF JudgeCode, Typed
<1>12. CASE Accept
  <2>1. Head(scan) \in Wires
    BY <1>12, RanHeadTail DEF Accept, Typed, AtEntry
  <2>2. [from |-> Head(scan).from, code |-> loaded.id] \in Acceptances
    BY <2>1 DEF Wires, Acceptances, Typed, Codes
  <2>3. accepted' \in Seq(Acceptances)
    BY <1>12, <2>2, RanAppend DEF Accept, Typed
  <2>4. acct' \in Accounts /\ code' \in Codes
    BY <1>12, StartValues DEF Accept, AfterMatch, Typed, Accounts
  <2>5. dirty' \in BOOLEAN
    BY <1>12 DEF Accept, Typed
  <2>6. step' \in Steps /\ scan' = scan /\ scan # <<>>
    BY <1>12 DEF Accept, Typed, Steps, AtEntry
  <2> QED BY <1>12, <2>3, <2>4, <2>5, <2>6 DEF Accept, Typed
<1>13. CASE SaveContact
  <2>1. Head(scan) \in Wires
    BY <1>13, RanHeadTail DEF SaveContact, Typed, AtEntry
  <2> QED BY <1>13, <2>1 DEF SaveContact, Typed, Wires, Steps, AtEntry
<1>14. CASE SaveSession
  <2>1. Head(scan) \in Wires
    BY <1>14, RanHeadTail DEF SaveSession, Typed, AtEntry
  <2> QED BY <1>14, <2>1 DEF SaveSession, Typed, Wires, Steps, AtEntry
<1>15. CASE Announce
  <2>1. /\ scan' \in Seq(Wires) /\ loaded' \in Codes /\ dirty' \in BOOLEAN
        /\ step' \in Steps /\ (step' \in AtEntry => scan' # <<>>) /\ faults' \in 0..MaxFaults
    BY <1>15, EndTyped, FaultTyped DEF Announce, Fails, Typed, Steps, AtEntry
  <2> QED BY <1>15, <2>1 DEF Announce, Typed
<1>16. CASE DeleteWire
  <2>1. scan # <<>> /\ Tail(scan) \in Seq(Wires)
    BY <1>16, RanHeadTail DEF DeleteWire, Typed, AtEntry
  <2>2. inbox' \in Seq(Wires)
    BY <1>16, RanRemaining DEF DeleteWire, Removed, Typed
  <2>3. /\ scan' \in Seq(Wires) /\ loaded' \in Codes /\ dirty' \in BOOLEAN
        /\ step' \in Steps /\ step' \notin AtEntry /\ faults' \in 0..MaxFaults
    BY <1>16, <2>1, EndTyped, FaultTyped, StartValues DEF DeleteWire, Fails, Typed, Steps, AtEntry
  <2> QED BY <1>16, <2>2, <2>3 DEF DeleteWire, Typed
<1>17. CASE EndScan
  <2>1. /\ scan' \in Seq(Wires) /\ loaded' \in Codes /\ dirty' \in BOOLEAN
        /\ step' \in Steps /\ step' \notin AtEntry
    BY <1>17, EndTyped DEF EndScan
  <2> QED BY <1>17, <2>1 DEF EndScan, Typed
<1>18. CASE Crash
  <2>1. /\ scan' \in Seq(Wires) /\ loaded' \in Codes /\ dirty' \in BOOLEAN
        /\ step' \in Steps /\ step' \notin AtEntry /\ faults' \in 0..MaxFaults
    BY <1>18, EndTyped, FaultTyped DEF Crash
  <2> QED BY <1>18, <2>1 DEF Crash, Typed
<1>19. CASE Disconnect
  <2>1. /\ scan' \in Seq(Wires) /\ loaded' \in Codes /\ dirty' \in BOOLEAN
        /\ step' \in Steps /\ step' \notin AtEntry /\ faults' \in 0..MaxFaults
    BY <1>19, EndTyped, FaultTyped DEF Disconnect
  <2> QED BY <1>19, <2>1 DEF Disconnect, Typed
<1>20. CASE RelayRestart
  <2>1. /\ scan' \in Seq(Wires) /\ loaded' \in Codes /\ dirty' \in BOOLEAN
        /\ step' \in Steps /\ step' \notin AtEntry /\ faults' \in 0..MaxFaults
    BY <1>20, EndTyped, FaultTyped DEF RelayRestart
  <2> QED BY <1>20, <2>1, EmptySeq DEF RelayRestart, Typed
<1>21. CASE UNCHANGED vars
  BY <1>21 DEF vars, Typed
<1> QED
  BY <1>1, <1>2, <1>3, <1>4, <1>5, <1>6, <1>7, <1>8, <1>9, <1>10, <1>11, <1>12, <1>13, <1>14,
     <1>15, <1>16, <1>17, <1>18, <1>19, <1>20, <1>21 DEF Next, Reconcile, Rename, Replenish

(* The device's, the relay's and the initiators' state is well typed.      *)
THEOREM PairingTyped == Spec => []TypeOK
<1>1. Typed => TypeOK
  <2> SUFFICES ASSUME Typed PROVE TypeOK
    OBVIOUS
  <2>1. /\ directory = Nothing \/ (directory.spk \in Nat /\ directory.keys \subseteq Keys)
        /\ kept = Nothing \/ (kept.spk \in Nat /\ kept.keys \subseteq Keys)
    BY DEF Typed, Bundles
  <2>2. batches \in 0..MaxBatches
    BY TypedNumbers, PairingAssumption
  <2> QED BY <2>1, <2>2 DEF Typed, TypeOK, AtEntry, Acceptances
<1> QED BY <1>1, TypedInit, TypedStep, PTL DEF Spec

-----------------------------------------------------------------------------
(* One-time prekeys. *)

Offered(d) == IF d = Nothing THEN {} ELSE d.keys

(* What is offered, now or after a restart of the relay, was not handed    *)
(* out before, or was when the relay's disk refused to save it; a batch    *)
(* about to be published was never offered.                                *)
KeysInv ==
  /\ \A k \in acct.held \union saved.held : k.batch \in 1..batches
  /\ \A k \in handed \union Offered(directory) \union Offered(kept) : k.batch \in 1..batches
  /\ step = "publishing" =>
       /\ \A k \in acct.held : k.batch = batches
       /\ \A k \in handed \union Offered(directory) \union Offered(kept) : k.batch # batches
  /\ Offered(directory) \intersect handed \subseteq unsaved
  /\ DirectoryKept => Offered(kept) \intersect handed \subseteq unsaved
  /\ repeated \subseteq unsaved

LEMMA KeysInit == Init => KeysInv
<1> SUFFICES ASSUME Init PROVE KeysInv
  OBVIOUS
<1>1. batches = 1 /\ handed = {} /\ repeated = {} /\ step = "idle"
  BY DEF Init
<1>2. acct.held = Batch(1, 1) /\ saved = acct /\ directory = Published(acct) /\ kept = directory
  BY DEF Init, Account
<1>3. \A k \in acct.held : k.batch \in 1..batches
  BY <1>1, <1>2 DEF Batch
<1>4. Offered(directory) \subseteq acct.held /\ Offered(kept) \subseteq acct.held
  BY <1>2 DEF Offered, Published
<1> QED BY <1>1, <1>2, <1>3, <1>4 DEF KeysInv

LEMMA KeysFrame ==
  ASSUME KeysInv,
         UNCHANGED <<directory, kept, acct, saved, handed, repeated, unsaved, batches>>,
         step' = "publishing" => step = "publishing"
  PROVE  KeysInv'
BY DEF KeysInv, Offered

LEMMA KeysStep == Typed /\ KeysInv /\ [Next]_vars => KeysInv'
<1> SUFFICES ASSUME Typed, KeysInv, [Next]_vars PROVE KeysInv'
  OBVIOUS
<1> USE DEF relayVars, accountVars, contactVars, passVars, initiatorVars, keyHistory, scanHistory
<1>1. ASSUME NEW rotate \in BOOLEAN, GenerateBatch(rotate) PROVE KeysInv'
  <2>1. batches \in Nat /\ batches' = batches + 1
    BY <1>1, TypedNumbers, PairingAssumption DEF GenerateBatch
  <2>2. \A n \in 1..batches : n \in 1..batches' /\ n # batches'
    BY <2>1
  <2>3. batches' \in 1..batches'
    BY <2>1
  <2>4. \A k \in acct'.held : k.batch = batches'
    BY <1>1, <2>1 DEF GenerateBatch, Account, Batch
  <2>5. UNCHANGED <<directory, kept, saved, handed, repeated, unsaved>>
    BY <1>1 DEF GenerateBatch
  <2> QED BY <2>2, <2>3, <2>4, <2>5 DEF KeysInv, Offered
<1>2. CASE Publish
  <2>1. /\ step = "publishing" /\ step' # "publishing"
        /\ UNCHANGED <<acct, saved, handed, repeated, unsaved, batches>>
    BY <1>2 DEF Publish, End
  <2>2. Offered(Replaced(acct)) \subseteq acct.held
    BY DEF Offered, Replaced, Published
  <2>3. \/ directory' = Replaced(acct) /\ (kept' = Replaced(acct) \/ kept' = kept)
        \/ directory' = directory /\ kept' = kept
    BY <1>2 DEF Publish, PublishBundle
  <2>4. acct.held \intersect handed = {}
    BY <2>1 DEF KeysInv
  <2>5. /\ Offered(directory') \subseteq acct.held \/ directory' = directory
        /\ Offered(kept') \subseteq acct.held \/ kept' = kept
    BY <2>2, <2>3
  <2> QED BY <2>1, <2>4, <2>5 DEF KeysInv, Offered
<1>3. CASE SaveAccount
  BY <1>3 DEF SaveAccount, KeysInv, Offered
<1>4. ASSUME NEW a \in Initiators, FetchBundle(a) PROVE KeysInv'
  <2>1. PICK k \in (IF directory.keys = {} THEN {NoKey} ELSE directory.keys) :
          /\ directory' = [directory EXCEPT !.keys = TakenFrom(directory.keys, k)]
          /\ \/ kept' = (IF SavesPool(k) THEN directory' ELSE kept) /\ unsaved' = unsaved
             \/ unsaved' = unsaved \union {k} /\ kept' = kept
          /\ handed' = handed \union ({k} \ {NoKey})
          /\ repeated' = repeated \union ({k} \intersect handed)
    BY <1>4 DEF FetchBundle
  <2>2. directory \in Bundles /\ Offered(directory) = directory.keys
    BY <1>4 DEF FetchBundle, Typed, Offered
  <2>3. directory'.keys = TakenFrom(directory.keys, k)
    BY <2>1, <2>2 DEF Bundles
  <2>4. UNCHANGED <<acct, saved, batches, step>>
    BY <1>4 DEF FetchBundle
  <2>5. Offered(directory') \subseteq TakenFrom(directory.keys, k)
    BY <2>3 DEF Offered
  <2>6. CASE k = NoKey
    <3>1. NoKey \notin handed
      BY DEF KeysInv, NoKey
    <3>2. handed' = handed /\ repeated' = repeated /\ unsaved \subseteq unsaved' /\ kept' = kept
      BY <2>1, <2>6, <3>1 DEF SavesPool
    <3>3. Offered(directory') \subseteq Offered(directory)
      BY <2>2, <2>5, <2>6 DEF TakenFrom
    <3> QED BY <2>4, <3>2, <3>3 DEF KeysInv, Offered
  <2>7. CASE k # NoKey
    <3>1. k \in Offered(directory) /\ k.batch \in 1..batches
      BY <2>1, <2>2, <2>7 DEF KeysInv
    <3>2. Offered(directory') \subseteq Offered(directory) \ {k}
      BY <2>2, <2>5, <2>7 DEF TakenFrom
    <3>3. handed' = handed \union {k} /\ unsaved \subseteq unsaved'
      BY <2>1, <2>7
    <3>4. repeated' \subseteq unsaved'
      BY <2>1, <3>1, <3>3 DEF KeysInv
    <3>5. \/ ~DirectoryKept /\ kept' = kept
          \/ Offered(kept') \subseteq Offered(directory) \ {k}
          \/ k \in unsaved' /\ kept' = kept
      BY <2>1, <2>7, <3>2 DEF SavesPool
    <3>6. DirectoryKept => Offered(kept') \intersect handed' \subseteq unsaved'
      BY <3>3, <3>5 DEF KeysInv, Offered
    <3>7. Offered(kept') \subseteq Offered(directory) \union Offered(kept)
      BY <3>5 DEF Offered
    <3>8. Offered(directory') \intersect handed' \subseteq unsaved'
      BY <3>2, <3>3 DEF KeysInv
    <3>9. step = "publishing" => k.batch # batches
      BY <3>1 DEF KeysInv
    <3> QED BY <2>4, <3>1, <3>2, <3>3, <3>4, <3>6, <3>7, <3>8, <3>9 DEF KeysInv
  <2> QED BY <2>6, <2>7
<1>5. ASSUME NEW a \in Initiators, NEW guess \in 0..codes, WriteFirstContact(a, guess) PROVE KeysInv'
  BY <1>5, KeysFrame DEF WriteFirstContact, Reaches
<1>6. ASSUME NEW a \in Initiators, SavePairing(a) PROVE KeysInv'
  BY <1>6, KeysFrame DEF SavePairing
<1>7. CASE GenerateCode
  BY <1>7, KeysFrame DEF GenerateCode
<1>8. CASE ExpireCode
  BY <1>8, KeysFrame DEF ExpireCode
<1>9. CASE Fetch
  BY <1>9, KeysFrame DEF Fetch
<1>10. CASE LoadCode
  BY <1>10, KeysFrame DEF LoadCode
<1>11. CASE JudgeCode
  BY <1>11, KeysFrame DEF JudgeCode
<1>12. CASE Accept
  <2>1. acct'.held \subseteq acct.held /\ step' # "publishing"
    BY <1>12 DEF Accept, Typed, Accounts
  <2>2. UNCHANGED <<directory, kept, saved, handed, repeated, unsaved, batches>>
    BY <1>12 DEF Accept
  <2> QED BY <2>1, <2>2 DEF KeysInv, Offered
<1>13. CASE SaveContact
  BY <1>13, KeysFrame DEF SaveContact
<1>14. CASE SaveSession
  BY <1>14, KeysFrame DEF SaveSession
<1>15. CASE Announce
  BY <1>15, KeysFrame DEF Announce, Fails, End
<1>16. CASE DeleteWire
  BY <1>16, KeysFrame DEF DeleteWire, Fails, End
<1>17. CASE EndScan
  <2>1. saved' \in {acct, saved} /\ step' # "publishing"
    BY <1>17 DEF EndScan, End
  <2>2. UNCHANGED <<directory, kept, acct, handed, repeated, unsaved, batches>>
    BY <1>17 DEF EndScan
  <2> QED BY <2>1, <2>2 DEF KeysInv, Offered
<1>18. CASE Crash
  <2>1. acct' = saved /\ step' # "publishing"
    BY <1>18 DEF Crash, End
  <2>2. UNCHANGED <<directory, kept, saved, handed, repeated, unsaved, batches>>
    BY <1>18 DEF Crash
  <2> QED BY <2>1, <2>2 DEF KeysInv, Offered
<1>19. CASE Disconnect
  BY <1>19, KeysFrame DEF Disconnect, End
<1>20. CASE RelayRestart
  <2>1. /\ Offered(directory') = {} \/ (DirectoryKept /\ directory' = kept)
        /\ step' # "publishing"
    BY <1>20 DEF RelayRestart, End, Offered
  <2>2. UNCHANGED <<kept, acct, saved, handed, repeated, unsaved, batches>>
    BY <1>20 DEF RelayRestart
  <2>3. /\ Offered(directory') \subseteq Offered(kept) /\ Offered(kept') = Offered(kept)
        /\ Offered(directory') \intersect handed \subseteq unsaved
    BY <2>1, <2>2 DEF KeysInv, Offered
  <2> QED BY <2>1, <2>2, <2>3 DEF KeysInv
<1>21. CASE UNCHANGED vars
  BY <1>21, KeysFrame DEF vars
<1> QED
  BY <1>1, <1>2, <1>3, <1>4, <1>5, <1>6, <1>7, <1>8, <1>9, <1>10, <1>11, <1>12, <1>13, <1>14,
     <1>15, <1>16, <1>17, <1>18, <1>19, <1>20, <1>21 DEF Next, Reconcile, Rename, Replenish

(* No one-time prekey is handed out twice, whatever restarts of the relay, *)
(* lost answers and publications come between, unless the relay's disk     *)
(* refused to save the pool without it.                                    *)
THEOREM HandedOnce == Spec => []HandedOutOnce
<1>1. Typed /\ KeysInv => HandedOutOnce
  BY DEF KeysInv, HandedOutOnce
<1>2. Init => Typed /\ KeysInv
  BY TypedInit, KeysInit
<1>3. Typed /\ KeysInv /\ [Next]_vars => Typed' /\ KeysInv'
  BY TypedStep, KeysStep
<1> QED BY <1>1, <1>2, <1>3, PTL DEF Spec

-----------------------------------------------------------------------------
(* What the device holds of what is offered. *)

Wired == Ran(inbox) \union Ran(scan)

(* A device that published and is not publishing holds what is offered,    *)
(* none of it was handed out, and whatever is sealed to a one-time prekey  *)
(* is sealed to one that was.                                              *)
Offering == step \notin {"offline", "publishing"} /\ ~refused /\ directory # Nothing
OfferInv ==
  /\ \A w \in Wired : w.otp \in handed \union {NoKey}
  /\ \A a \in Initiators : attempt[a] = "fetched" => bundle[a].otp \in handed \union {NoKey}
  /\ Offering => /\ directory.spk = acct.spk /\ directory.keys \subseteq acct.held
                 /\ directory.keys \intersect handed = {}
  /\ Offering /\ step # "published" =>
       directory.spk = saved.spk /\ directory.keys \subseteq saved.held
  /\ step = "published" => ~refused

(* Only a write of a first contact adds to the wires in play.              *)
LEMMA WiredStep ==
  ASSUME Typed, [Next]_vars
  PROVE  \/ Wired' \subseteq Wired
         \/ \E a \in Initiators, guess \in 0..codes :
              /\ WriteFirstContact(a, guess)
              /\ attempt' # attempt
              /\ Wired' = Wired \union {Wire(a, bundle[a], guess)}
<1> USE DEF relayVars, accountVars, contactVars, passVars, initiatorVars, keyHistory, scanHistory
<1>1. CASE UNCHANGED <<inbox, scan>>
  BY <1>1 DEF Wired, Ran
<1>2. CASE \E a \in Initiators, guess \in 0..codes : WriteFirstContact(a, guess)
  <2>1. PICK a \in Initiators, guess \in 0..codes : WriteFirstContact(a, guess)
    BY <1>2
  <2>2. bundle[a] \in Offers /\ guess \in Nat
    <3>1. bundle[a] \in Offers
      BY <2>1 DEF WriteFirstContact, Typed
    <3>2. guess \in Nat
      BY TypedNumbers, PairingAssumption
    <3> QED BY <3>1, <3>2
  <2>8. inbox \in Seq(Wires) /\ attempt' # attempt
    BY <2>1 DEF WriteFirstContact, Typed
  <2>3. Wire(a, bundle[a], guess) \in Wires
    BY <2>2 DEF Wire, Wires, Offers
  <2>4. Ran(Append(inbox, Wire(a, bundle[a], guess))) = Ran(inbox) \union {Wire(a, bundle[a], guess)}
    BY <2>3, <2>8, RanAppend
  <2>5. scan' = scan /\ (inbox' = inbox \/ inbox' = Append(inbox, Wire(a, bundle[a], guess)))
    BY <2>1 DEF WriteFirstContact, Reaches
  <2>6. CASE inbox' = inbox
    BY <2>5, <2>6, <1>1
  <2>7. CASE inbox' = Append(inbox, Wire(a, bundle[a], guess))
    <3>1. Wired' = Wired \union {Wire(a, bundle[a], guess)}
      BY <2>4, <2>5, <2>7 DEF Wired
    <3> QED BY <2>1, <2>8, <3>1
  <2> QED BY <2>5, <2>6, <2>7
<1>3. CASE Fetch
  BY <1>3 DEF Fetch, Wired
<1>4. Ran(<<>>) = {}
  BY EmptySeq DEF Ran
<1>5. ASSUME NEW s, End(s), inbox' = inbox \/ inbox' = <<>> PROVE Wired' \subseteq Wired
  BY <1>4, <1>5 DEF Wired, End
<1>6. CASE DeleteWire
  <2>1. scan # <<>> /\ Ran(Tail(scan)) \subseteq Ran(scan)
    BY <1>6, RanHeadTail DEF DeleteWire, Typed, AtEntry
  <2>2. inbox' = inbox \/ inbox' = Remaining
    BY <1>6 DEF DeleteWire, Removed
  <2>3. Ran(inbox') \subseteq Ran(inbox)
    BY <2>2, RanRemaining DEF Typed
  <2>4. scan' = Tail(scan) \/ scan' = <<>>
    BY <1>6 DEF DeleteWire, Fails, End
  <2> QED BY <1>4, <2>1, <2>3, <2>4 DEF Wired
<1>7. CASE RelayRestart \/ Crash \/ Disconnect \/ EndScan
  BY <1>5, <1>7 DEF RelayRestart, Crash, Disconnect, EndScan
<1>8. CASE Publish
  BY <1>1, <1>5, <1>8 DEF Publish, PublishBundle
<1>9. CASE Announce
  BY <1>1, <1>5, <1>9 DEF Announce, Fails
<1>10. CASE \/ \E rotate \in BOOLEAN : GenerateBatch(rotate)
            \/ SaveAccount \/ \E a \in Initiators : FetchBundle(a) \/ SavePairing(a)
            \/ GenerateCode \/ ExpireCode \/ LoadCode \/ JudgeCode \/ Accept
            \/ SaveContact \/ SaveSession \/ UNCHANGED vars
  BY <1>1, <1>10 DEF GenerateBatch, SaveAccount, FetchBundle, SavePairing, GenerateCode,
     ExpireCode, LoadCode, JudgeCode, Accept, SaveContact, SaveSession, vars
<1> QED
  BY <1>2, <1>3, <1>6, <1>7, <1>8, <1>9, <1>10 DEF Next, Reconcile, Rename, Replenish

LEMMA OfferInit == Init => OfferInv
<1> SUFFICES ASSUME Init PROVE OfferInv
  OBVIOUS
<1>1. Wired = {}
  BY EmptySeq DEF Init, Wired, Ran
<1>2. /\ saved = acct /\ directory = Published(acct) /\ handed = {} /\ step = "idle"
      /\ \A a \in Initiators : attempt[a] = "none"
  BY DEF Init
<1> QED BY <1>1, <1>2 DEF OfferInv, Published

(* A step that leaves the keys alone.                                      *)
LEMMA OfferFrame ==
  ASSUME OfferInv, Wired' \subseteq Wired,
         UNCHANGED <<directory, acct, saved, handed, bundle, refused>>,
         \A a \in Initiators : attempt'[a] = "fetched" => attempt[a] = "fetched",
         Offering' => Offering,
         step' = "published" <=> step = "published"
  PROVE  OfferInv'
BY DEF OfferInv

LEMMA OfferStep == Typed /\ KeysInv /\ OfferInv /\ [Next]_vars => OfferInv'
<1> SUFFICES ASSUME Typed, KeysInv, OfferInv, [Next]_vars PROVE OfferInv'
  OBVIOUS
<1> USE DEF relayVars, accountVars, contactVars, passVars, initiatorVars, keyHistory, scanHistory
<1>1. ASSUME Wired' \subseteq Wired, UNCHANGED <<handed, attempt, bundle>>
      PROVE  /\ \A w \in Wired' : w.otp \in handed' \union {NoKey}
             /\ \A a \in Initiators : attempt'[a] = "fetched" => bundle'[a].otp \in handed' \union {NoKey}
  BY <1>1 DEF OfferInv
<1>2. ASSUME NEW rotate \in BOOLEAN, GenerateBatch(rotate) PROVE OfferInv'
  <2>1. Wired' \subseteq Wired
    BY <1>2 DEF GenerateBatch, Wired
  <2>2. step' = "publishing"
    BY <1>2 DEF GenerateBatch
  <2> QED BY <1>1, <1>2, <2>1, <2>2 DEF GenerateBatch, OfferInv, Offering
<1>3. CASE Publish
  <2>1. Wired' \subseteq Wired
    BY <1>3, WiredStep DEF Publish
  <2>2. UNCHANGED <<acct, saved, handed, attempt, bundle>>
    BY <1>3 DEF Publish
  <2>3. CASE step' = "published"
    <3>1. directory' = Published(acct) /\ refused' = FALSE
      BY <1>3, <2>3 DEF Publish, PublishBundle, Replaced, End
    <3>2. acct.held \intersect handed = {}
      BY <1>3 DEF Publish, KeysInv
    <3>3. directory'.spk = acct.spk /\ directory'.keys = acct.held
      BY <3>1 DEF Published
    <3> QED BY <1>1, <2>1, <2>2, <2>3, <3>1, <3>2, <3>3 DEF OfferInv
  <2>4. CASE step' # "published"
    <3>1. ~Offering'
      BY <1>3, <2>4 DEF Publish, End, Offering
    <3> QED BY <1>1, <2>1, <2>2, <2>4, <3>1 DEF OfferInv
  <2> QED BY <2>3, <2>4
<1>4. CASE SaveAccount
  <2>1. Wired' = Wired /\ saved' = acct /\ step = "published" /\ step' = "idle"
    BY <1>4 DEF SaveAccount, Wired
  <2>2. UNCHANGED <<directory, acct, handed, attempt, bundle, refused>>
    BY <1>4 DEF SaveAccount
  <2> QED BY <1>1, <2>1, <2>2 DEF OfferInv, Offering
<1>5. ASSUME NEW a \in Initiators, FetchBundle(a) PROVE OfferInv'
  <2>1. PICK k \in (IF directory.keys = {} THEN {NoKey} ELSE directory.keys) :
          /\ directory' = [directory EXCEPT !.keys = TakenFrom(directory.keys, k)]
          /\ handed' = handed \union ({k} \ {NoKey})
          /\ bundle' = [bundle EXCEPT ![a] = [spk |-> directory.spk, otp |-> k]]
    BY <1>5 DEF FetchBundle
  <2>2. directory \in Bundles /\ directory # Nothing
    BY <1>5 DEF FetchBundle, Typed
  <2>3. directory'.keys = TakenFrom(directory.keys, k) /\ directory'.spk = directory.spk
    BY <2>1, <2>2 DEF Bundles
  <2>4. UNCHANGED <<acct, saved, step, refused>> /\ Wired' = Wired
    BY <1>5 DEF FetchBundle, Wired
  <2>5. directory'.keys \subseteq directory.keys \ (handed' \ handed)
    BY <2>1, <2>3 DEF TakenFrom
  <2>6. \A b \in Initiators : attempt'[b] = "fetched" => bundle'[b].otp \in handed' \union {NoKey}
    <3> TAKE b \in Initiators
    <3>1. CASE b = a
      <4>1. bundle'[a].otp = k
        BY <2>1 DEF Typed
      <4> QED BY <2>1, <3>1, <4>1
    <3>2. CASE b # a
      <4>1. bundle'[b] = bundle[b] /\ attempt'[b] = attempt[b]
        BY <1>5, <2>1, <3>2 DEF FetchBundle, Typed
      <4>2. handed \subseteq handed'
        BY <2>1
      <4> QED BY <4>1, <4>2 DEF OfferInv
    <3> QED BY <3>1, <3>2
  <2>7. \A w \in Wired' : w.otp \in handed' \union {NoKey}
    BY <2>1, <2>4 DEF OfferInv
  <2>8. Offering' => Offering
    BY <2>2, <2>4 DEF Offering
  <2>9. directory.keys \intersect handed = {} => directory'.keys \intersect handed' = {}
    BY <2>1, <2>5
  <2> QED BY <2>3, <2>4, <2>5, <2>6, <2>7, <2>8, <2>9 DEF OfferInv
<1>6. ASSUME NEW a \in Initiators, NEW guess \in 0..codes, WriteFirstContact(a, guess) PROVE OfferInv'
  <2>1. Wired' \subseteq Wired \union {w \in Wired' : w.otp = bundle[a].otp}
    <3>1. PICK b \in Initiators, g \in 0..codes :
            \/ Wired' \subseteq Wired
            \/ WriteFirstContact(b, g) /\ Wired' = Wired \union {Wire(b, bundle[b], g)}
      BY <1>6, WiredStep
    <3>2. WriteFirstContact(b, g) => b = a
      <4>1. \A c \in Initiators \ {a} : attempt'[c] = attempt[c]
        BY <1>6 DEF WriteFirstContact, Typed
      <4>2. WriteFirstContact(b, g) => attempt[b] = "fetched" /\ attempt'[b] # "fetched"
        BY DEF WriteFirstContact, Typed
      <4> QED BY <4>1, <4>2
    <3> QED BY <3>1, <3>2 DEF Wire
  <2>2. bundle[a].otp \in handed \union {NoKey}
    BY <1>6 DEF WriteFirstContact, OfferInv
  <2>3. UNCHANGED <<directory, acct, saved, handed, bundle, refused, step>>
    BY <1>6 DEF WriteFirstContact, Reaches
  <2>4. \A b \in Initiators : attempt'[b] = "fetched" => attempt[b] = "fetched"
    BY <1>6 DEF WriteFirstContact, Typed
  <2>5. \A w \in Wired' : w.otp \in handed' \union {NoKey}
    BY <2>1, <2>2, <2>3 DEF OfferInv
  <2> QED BY <2>3, <2>4, <2>5 DEF OfferInv, Offering
<1>7. ASSUME NEW a \in Initiators, SavePairing(a) PROVE OfferInv'
  <2>1. \A b \in Initiators : attempt'[b] = "fetched" => attempt[b] = "fetched"
    BY <1>7 DEF SavePairing, Typed
  <2>2. Wired' = Wired
    BY <1>7 DEF SavePairing, Wired
  <2> QED BY <1>7, <2>1, <2>2, OfferFrame DEF SavePairing, Offering
<1>8. CASE Accept
  <2>1. scan # <<>> /\ Head(scan) \in Wired /\ Wired' = Wired
    BY <1>8, RanHeadTail DEF Accept, Typed, AtEntry, Wired
  <2>2. Head(scan).otp \in handed \union {NoKey}
    BY <2>1 DEF OfferInv
  <2>3. acct'.held = acct.held \ {Head(scan).otp} /\ acct'.spk = acct.spk
    BY <1>8 DEF Accept, Typed, Accounts
  <2>4. UNCHANGED <<directory, saved, handed, attempt, bundle, refused>>
    BY <1>8 DEF Accept
  <2>5. step = "matched" /\ step' = "contact"
    BY <1>8 DEF Accept
  <2>6. NoKey \notin Offered(directory)
    BY DEF KeysInv, NoKey
  <2>7. Offering => Head(scan).otp \notin directory.keys
    BY <2>2, <2>6 DEF OfferInv, Offering, Offered
  <2> QED BY <1>1, <2>1, <2>3, <2>4, <2>5, <2>7 DEF OfferInv, Offering
<1>9. CASE EndScan
  <2>1. Wired' \subseteq Wired
    BY <1>9, WiredStep DEF EndScan
  <2>2. UNCHANGED <<directory, acct, handed, attempt, bundle, refused>>
    BY <1>9 DEF EndScan
  <2>3. step = "scan" /\ step' = "idle" /\ saved' \in {acct, saved}
    BY <1>9 DEF EndScan, End
  <2> QED BY <1>1, <2>1, <2>2, <2>3 DEF OfferInv, Offering
<1>10. CASE Crash \/ Disconnect \/ RelayRestart
  <2>1. Wired' \subseteq Wired
    BY <1>10, WiredStep DEF Crash, Disconnect, RelayRestart
  <2>2. UNCHANGED <<handed, attempt, bundle>> /\ step' = "offline"
    BY <1>10 DEF Crash, Disconnect, RelayRestart, End
  <2> QED BY <1>1, <2>1, <2>2 DEF OfferInv, Offering
<1>11. CASE \/ GenerateCode \/ ExpireCode \/ Fetch \/ LoadCode \/ JudgeCode
            \/ SaveContact \/ SaveSession \/ UNCHANGED vars
  <2>1. /\ UNCHANGED <<directory, acct, saved, handed, bundle, refused, attempt>>
        /\ step' = step \/ (step \in {"idle", "scan"} \union AtEntry /\ step' \in {"idle", "scan"} \union AtEntry)
    BY <1>11 DEF GenerateCode, ExpireCode, Fetch, LoadCode, JudgeCode, SaveContact, SaveSession,
       AtEntry, vars
  <2>2. Wired' \subseteq Wired
    BY <1>11 DEF GenerateCode, ExpireCode, Fetch, LoadCode, JudgeCode, SaveContact, SaveSession,
       vars, Wired
  <2> QED BY <2>1, <2>2, OfferFrame DEF Offering, AtEntry
<1>12. CASE Announce \/ DeleteWire
  <2>1. Wired' \subseteq Wired
    BY <1>12, WiredStep DEF Announce, DeleteWire
  <2>2. /\ UNCHANGED <<directory, acct, saved, handed, bundle, refused, attempt>>
        /\ step \in AtEntry /\ step' \in {"idle", "scan", "offline", "delete"}
    BY <1>12 DEF Announce, DeleteWire, Fails, End, AtEntry
  <2> QED BY <2>1, <2>2, OfferFrame DEF Offering, AtEntry
<1> QED
  BY <1>2, <1>3, <1>4, <1>5, <1>6, <1>7, <1>8, <1>9, <1>10, <1>11, <1>12
     DEF Next, Reconcile, Rename, Replenish

(* A connected device that is not publishing holds the secrets of all that *)
(* the directory offers for it, in memory and on disk.                     *)
THEOREM OfferHeld == Spec => []OfferedIsHeld
<1>1. OfferInv => OfferedIsHeld
  BY DEF OfferInv, Offering, OfferedIsHeld
<1>2. Init => Typed /\ KeysInv /\ OfferInv
  BY TypedInit, KeysInit, OfferInit
<1>3. Typed /\ KeysInv /\ OfferInv /\ [Next]_vars => Typed' /\ KeysInv' /\ OfferInv'
  BY TypedStep, KeysStep, OfferStep
<1> QED BY <1>1, <1>2, <1>3, PTL DEF Spec

-----------------------------------------------------------------------------
(* Pairing codes. *)

Wrote(a) == attempt[a] \notin {"none", "fetched"}
Took(c) == \E i \in DOMAIN accepted : accepted[i].code = c

(* A code that can still be judged has been compared as often as it says,  *)
(* and accepted nobody.                                                    *)
Fresh(c) == c.id \in 1..codes /\ judged[c.id] = c.attempts /\ ~Took(c.id)

LiveInv ==
  /\ code = NoCode \/ Fresh(code)
  /\ step = "judge" => Fresh(loaded)
  /\ step = "matched" => /\ loaded.id \in 1..codes /\ ~Took(loaded.id)
                         /\ Head(scan).guess = loaded.id
  /\ \A c \in 1..MaxCodes : judged[c] \in 0..MaxAttempts /\ (c > codes => judged[c] = 0)

(* An initiator sends one code, and whoever was accepted was for that one. *)
SenderInv ==
  /\ \A w \in Wired : Wrote(w.from)
  /\ \A v, w \in Wired : v.from = w.from => v.guess = w.guess
  /\ \A i \in DOMAIN accepted :
       /\ accepted[i].code \in 1..codes
       /\ Wrote(accepted[i].from)
       /\ \A w \in Wired : w.from = accepted[i].from => w.guess = accepted[i].code

CodesInv == LiveInv /\ SenderInv /\ AcceptedOnce

LEMMA CodesInit == Init => CodesInv
<1> SUFFICES ASSUME Init PROVE CodesInv
  OBVIOUS
<1>1. Wired = {} /\ DOMAIN accepted = {}
  BY EmptySeq DEF Init, Wired, Ran
<1>2. \A c \in 1..MaxCodes : judged[c] = 0
  BY DEF Init
<1>3. LiveInv
  BY <1>2, PairingAssumption DEF Init, LiveInv
<1> QED BY <1>1, <1>3 DEF CodesInv, SenderInv, AcceptedOnce

LEMMA SenderFrame ==
  ASSUME SenderInv, AcceptedOnce, Wired' \subseteq Wired, accepted' = accepted, codes' = codes,
         \A a \in Initiators : Wrote(a) => Wrote(a)',
         \A w \in Wired : w.from \in Initiators,
         \A i \in DOMAIN accepted : accepted[i].from \in Initiators
  PROVE  SenderInv' /\ AcceptedOnce'
BY DEF SenderInv, AcceptedOnce

(* A step that touches no code and judges nothing.                         *)
LEMMA LiveFrame ==
  ASSUME LiveInv, UNCHANGED <<code, judged, accepted, codes>>,
         \/ step' \notin {"judge", "matched"}
         \/ UNCHANGED <<step, loaded, scan>>
  PROVE  LiveInv'
BY DEF LiveInv, Fresh, Took

LEMMA WiredTyped ==
  ASSUME Typed
  PROVE  /\ \A w \in Wired : w \in Wires /\ w.from \in Initiators
         /\ \A i \in DOMAIN accepted : accepted[i] \in Acceptances /\ accepted[i].from \in Initiators
<1>1. \A s \in Seq(Wires) : \A i \in DOMAIN s : s[i] \in Wires
  BY LenProperties, ElementOfSeq
<1>2. \A i \in DOMAIN accepted : accepted[i] \in Acceptances
  <2>1. \A s \in Seq(Acceptances) : \A i \in DOMAIN s : s[i] \in Acceptances
    BY LenProperties, ElementOfSeq
  <2> QED BY <2>1 DEF Typed
<1>3. \A i \in DOMAIN accepted : accepted[i].from \in Initiators
  BY <1>2 DEF Acceptances
<1>4. \A w \in Wired : w \in Wires
  BY <1>1 DEF Typed, Wired, Ran
<1> QED BY <1>2, <1>3, <1>4 DEF Wires

LEMMA CodesStep == Typed /\ CodesInv /\ [Next]_vars => CodesInv'
<1> SUFFICES ASSUME Typed, CodesInv, [Next]_vars PROVE CodesInv'
  OBVIOUS
<1> USE DEF relayVars, accountVars, contactVars, passVars, initiatorVars, keyHistory, scanHistory
<1> LiveInv /\ SenderInv /\ AcceptedOnce
  BY DEF CodesInv
<1>1. codes \in Nat /\ MaxCodes \in Nat /\ MaxAttempts \in Nat /\ codes <= MaxCodes
  BY TypedNumbers, PairingAssumption
<1>2. ASSUME Wired' \subseteq Wired, UNCHANGED <<accepted, codes, attempt>>
      PROVE  SenderInv' /\ AcceptedOnce'
  BY <1>2, SenderFrame, WiredTyped DEF Wrote
<1>3. CASE \/ \E rotate \in BOOLEAN : GenerateBatch(rotate)
           \/ Publish \/ SaveAccount \/ Fetch \/ SaveContact \/ SaveSession \/ Announce
           \/ DeleteWire \/ EndScan \/ Crash \/ Disconnect \/ RelayRestart \/ UNCHANGED vars
  <2>1. UNCHANGED <<code, judged, accepted, codes, attempt>>
    BY <1>3 DEF GenerateBatch, Publish, SaveAccount, Fetch, SaveContact, SaveSession, Announce,
       DeleteWire, EndScan, Crash, Disconnect, RelayRestart, vars
  <2>2. step' \notin {"judge", "matched"} \/ UNCHANGED <<step, loaded, scan>>
    BY <1>3 DEF GenerateBatch, Publish, SaveAccount, Fetch, SaveContact, SaveSession, Announce,
       DeleteWire, EndScan, Crash, Disconnect, RelayRestart, vars, Fails, End
  <2>3. Wired' \subseteq Wired
    BY <2>1, WiredStep
  <2> QED BY <1>2, <2>1, <2>2, <2>3, LiveFrame DEF CodesInv
<1>4. ASSUME NEW a \in Initiators, FetchBundle(a) \/ SavePairing(a) PROVE CodesInv'
  <2>1. UNCHANGED <<code, judged, accepted, codes, step, loaded, scan>> /\ Wired' = Wired
    BY <1>4 DEF FetchBundle, SavePairing, Wired
  <2>2. \A b \in Initiators : Wrote(b) => Wrote(b)'
    BY <1>4 DEF FetchBundle, SavePairing, Wrote, Typed
  <2> QED BY <2>1, <2>2, SenderFrame, LiveFrame, WiredTyped DEF CodesInv
<1>5. ASSUME NEW a \in Initiators, NEW guess \in 0..codes, WriteFirstContact(a, guess) PROVE CodesInv'
  <2>1. UNCHANGED <<code, judged, accepted, codes, step, loaded, scan>>
    BY <1>5 DEF WriteFirstContact
  <2>2. /\ ~Wrote(a)
        /\ \A b \in Initiators : Wrote(b) => Wrote(b)'
        /\ Wrote(a)'
    BY <1>5 DEF WriteFirstContact, Wrote, Typed
  <2>3. PICK b \in Initiators, g \in 0..codes :
          Wired' \subseteq Wired \/ (WriteFirstContact(b, g) /\ Wired' = Wired \union {Wire(b, bundle[b], g)})
    BY <1>5, WiredStep
  <2>4. CASE Wired' \subseteq Wired
    BY <2>1, <2>2, <2>4, SenderFrame, LiveFrame, WiredTyped DEF CodesInv
  <2>5. CASE WriteFirstContact(b, g) /\ Wired' = Wired \union {Wire(b, bundle[b], g)}
    <3> DEFINE w == Wire(b, bundle[b], g)
    <3>1. ~Wrote(b) /\ Wrote(b)'
      BY <2>5 DEF WriteFirstContact, Wrote, Typed
    <3>2. w.from = b /\ w.guess = g
      BY DEF Wire
    <3>3. \A v \in Wired : v.from # b
      BY <3>1 DEF SenderInv
    <3>4. \A i \in DOMAIN accepted : accepted[i].from # b
      BY <3>1 DEF SenderInv
    <3>5. Wired' = Wired \union {w}
      BY <2>5
    <3> HIDE DEF w
    <3>6. SenderInv' /\ AcceptedOnce'
      BY <2>1, <2>2, <3>1, <3>2, <3>3, <3>4, <3>5, WiredTyped DEF SenderInv, AcceptedOnce
    <3> QED BY <2>1, <3>6, LiveFrame DEF CodesInv
  <2> QED BY <2>3, <2>4, <2>5
<1>6. CASE GenerateCode
  <2>1. UNCHANGED <<judged, accepted, step, loaded, scan, attempt>> /\ Wired' = Wired
    BY <1>6 DEF GenerateCode, Wired
  <2>2. /\ codes' = codes + 1 /\ code'.id = codes + 1 /\ code'.attempts = 0
        /\ codes + 1 \in 1..MaxCodes /\ codes + 1 \in 1..codes' /\ 1..codes \subseteq 1..codes'
    BY <1>1, <1>6 DEF GenerateCode
  <2>3. ~Took(codes + 1)
    <3>1. codes + 1 \notin 1..codes
      BY <1>1
    <3> QED BY <3>1 DEF Took, SenderInv
  <2>4. judged[codes + 1] = 0
    BY <1>1, <2>2 DEF LiveInv
  <2>5. \A c \in 1..MaxCodes : c > codes' => c > codes
    BY <1>1, <2>2
  <2>6. LiveInv'
    BY <2>1, <2>2, <2>3, <2>4, <2>5 DEF LiveInv, Fresh, Took
  <2>7. SenderInv' /\ AcceptedOnce'
    BY <2>1, <2>2 DEF SenderInv, AcceptedOnce, Wrote
  <2> QED BY <2>6, <2>7 DEF CodesInv
<1>7. CASE ExpireCode
  <2>1. UNCHANGED <<judged, accepted, step, scan, attempt, codes>> /\ Wired' = Wired
    BY <1>7 DEF ExpireCode, Wired
  <2>2. /\ code # NoCode /\ code'.id = code.id /\ code'.attempts = code.attempts
        /\ loaded'.id = loaded.id /\ loaded'.attempts = loaded.attempts
    BY <1>7 DEF ExpireCode, Typed, Codes
  <2> QED BY <1>2, <2>1, <2>2 DEF CodesInv, LiveInv, Fresh, Took
<1>8. CASE LoadCode
  <2>1. UNCHANGED <<code, judged, accepted, attempt, codes>> /\ Wired' = Wired
    BY <1>8 DEF LoadCode, Wired
  <2>2. step' = "delete" \/ (step' = "judge" /\ loaded' = code /\ loaded' # NoCode)
    BY <1>8 DEF LoadCode
  <2> QED BY <1>2, <2>1, <2>2 DEF CodesInv, LiveInv, Fresh, Took
<1>9. CASE JudgeCode
  <2>1. UNCHANGED <<accepted, attempt, codes, loaded, scan>> /\ Wired' = Wired
    BY <1>9 DEF JudgeCode, Wired
  <2>2. Fresh(loaded) /\ loaded \in Codes /\ judged \in [1..MaxCodes -> Nat]
    BY <1>9 DEF JudgeCode, LiveInv, Typed
  <2>3. loaded.id \in 1..MaxCodes
    BY <1>1, <2>2 DEF Fresh
  <2>4. CASE Judges(loaded)
    <3> DEFINE c == [loaded EXCEPT !.attempts = loaded.attempts + 1]
    <3>1. /\ code' = c
          /\ judged' = [judged EXCEPT ![loaded.id] = judged[loaded.id] + 1]
          /\ step' = IF Head(scan).guess = loaded.id THEN "matched" ELSE "delete"
      BY <1>9, <2>4 DEF JudgeCode, Counted
    <3>2. c.id = loaded.id /\ c.attempts = loaded.attempts + 1
      BY <2>2 DEF Codes
    <3>3. judged'[loaded.id] = loaded.attempts + 1
      BY <2>2, <2>3, <3>1 DEF Fresh
    <3>4. loaded.attempts + 1 \in 0..MaxAttempts
      BY <1>1, <2>2, <2>4 DEF Judges, Codes
    <3>5. \A d \in 1..MaxCodes : d # loaded.id => judged'[d] = judged[d]
      BY <2>2, <3>1
    <3>6. ~(loaded.id > codes)
      BY <1>1, <2>2 DEF Fresh
    <3>7. /\ code'.id \in 1..codes' /\ judged'[code'.id] = code'.attempts
          /\ \A i \in DOMAIN accepted' : accepted'[i].code # code'.id
      BY <2>1, <2>2, <3>1, <3>2, <3>3 DEF Fresh, Took
    <3> HIDE DEF c
    <3>8. \A d \in 1..MaxCodes : judged'[d] \in 0..MaxAttempts /\ (d > codes' => judged'[d] = 0)
      <4> TAKE d \in 1..MaxCodes
      <4>1. CASE d = loaded.id
        BY <2>1, <3>3, <3>4, <3>6, <4>1
      <4>2. CASE d # loaded.id
        BY <2>1, <3>5, <4>2 DEF LiveInv
      <4> QED BY <4>1, <4>2
    <3>9. Fresh(code)'
      BY <3>7 DEF Fresh, Took
    <3>10. /\ step' # "judge"
           /\ step' = "matched" => /\ loaded'.id \in 1..codes' /\ ~Took(loaded.id)'
                                   /\ Head(scan)'.guess = loaded'.id
      BY <2>1, <2>2, <3>1 DEF Fresh, Took
    <3>11. LiveInv'
      BY <2>1, <3>8, <3>9, <3>10 DEF LiveInv, Took
    <3> QED BY <1>2, <2>1, <3>11 DEF CodesInv
  <2>5. CASE ~Judges(loaded)
    <3>1. code' = loaded /\ judged' = judged /\ step' = "delete"
      BY <1>9, <2>5 DEF JudgeCode, Counted
    <3> QED BY <1>2, <2>1, <2>2, <3>1 DEF CodesInv, LiveInv, Fresh, Took
  <2> QED BY <2>4, <2>5
<1>10. CASE Accept
  <2> DEFINE w == Head(scan)
             entry == [from |-> w.from, code |-> loaded.id]
  <2>1. w \in Wired /\ w \in Wires
    BY <1>10, RanHeadTail DEF Accept, Typed, AtEntry, Wired
  <2>2. loaded.id \in 1..codes /\ ~Took(loaded.id) /\ w.guess = loaded.id
    BY <1>10 DEF Accept, LiveInv
  <2>3. entry \in Acceptances
    BY <2>1 DEF Wires, Acceptances, Typed, Codes
  <2>4. accepted \in Seq(Acceptances) /\ accepted' = Append(accepted, entry)
    BY <1>10 DEF Accept, Typed
  <2> HIDE DEF entry
  <2>5. /\ Len(accepted) \in Nat /\ DOMAIN accepted = 1..Len(accepted)
        /\ DOMAIN accepted' = 1..(Len(accepted) + 1)
        /\ accepted'[Len(accepted) + 1] = entry
        /\ \A i \in 1..Len(accepted) : accepted'[i] = accepted[i]
    BY <2>3, <2>4, AppendProperties, LenProperties
  <2>6. entry.from = w.from /\ entry.code = loaded.id
    BY DEF entry
  <2>7. /\ UNCHANGED <<judged, codes, attempt>> /\ Wired' = Wired
        /\ code' = NoCode /\ step' = "contact"
    BY <1>10 DEF Accept, AfterMatch, Wired
  <2>8. \A i \in DOMAIN accepted : accepted[i].code # loaded.id /\ accepted[i].from # w.from
    BY <2>1, <2>2 DEF Took, SenderInv
  <2>9. \A i \in DOMAIN accepted' : i \in DOMAIN accepted \/ accepted'[i] = entry
    BY <2>5
  <2>10. AcceptedOnce'
    <3> SUFFICES ASSUME NEW i \in DOMAIN accepted', NEW j \in DOMAIN accepted', i # j
                 PROVE  accepted'[i].from # accepted'[j].from /\ accepted'[i].code # accepted'[j].code
      BY DEF AcceptedOnce
    <3>1. CASE i \in DOMAIN accepted /\ j \in DOMAIN accepted
      BY <2>5, <3>1 DEF AcceptedOnce
    <3>2. CASE i \in DOMAIN accepted /\ j \notin DOMAIN accepted
      BY <2>5, <2>6, <2>8, <2>9, <3>2
    <3>3. CASE i \notin DOMAIN accepted /\ j \in DOMAIN accepted
      BY <2>5, <2>6, <2>8, <2>9, <3>3
    <3>4. CASE i \notin DOMAIN accepted /\ j \notin DOMAIN accepted
      BY <2>5, <3>4
    <3> QED BY <3>1, <3>2, <3>3, <3>4
  <2>11. LiveInv'
    BY <2>7 DEF LiveInv
  <2>12. SenderInv'
    <3>1. /\ entry.code \in 1..codes /\ Wrote(entry.from)
          /\ \A v \in Wired : v.from = entry.from => v.guess = entry.code
      BY <2>1, <2>2, <2>6 DEF SenderInv
    <3> QED BY <2>5, <2>7, <2>9, <3>1 DEF SenderInv, Wrote
  <2> QED BY <2>10, <2>11, <2>12 DEF CodesInv
<1> QED
  BY <1>3, <1>4, <1>5, <1>6, <1>7, <1>8, <1>9, <1>10 DEF Next, Reconcile, Rename, Replenish

LEMMA CodesAlways == Spec => []CodesInv
<1>1. Init => Typed /\ CodesInv
  BY TypedInit, CodesInit
<1>2. Typed /\ CodesInv /\ [Next]_vars => Typed' /\ CodesInv'
  BY TypedStep, CodesStep
<1> QED BY <1>1, <1>2, PTL DEF Spec

(* Nobody is accepted twice, and no code accepts two, however often a      *)
(* first contact is read again after a stop or a failed request.           *)
THEOREM AcceptsOnce == Spec => []AcceptedOnce
<1>1. CodesInv => AcceptedOnce
  BY DEF CodesInv
<1> QED BY <1>1, CodesAlways, PTL

(* No code is compared to more first contacts than its attempts allow.     *)
THEOREM GuessesAreBounded == Spec => []GuessesBounded
<1>1. CodesInv => GuessesBounded
  BY PairingAssumption DEF CodesInv, LiveInv, GuessesBounded
<1> QED BY <1>1, CodesAlways, PTL
=============================================================================
