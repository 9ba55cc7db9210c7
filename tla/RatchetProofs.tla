--------------------------- MODULE RatchetProofs ---------------------------
(***************************************************************************)
(* Proofs about Ratchet for any max_skip, cache size and number of         *)
(* messages: a message opens once, no message key seals two messages,      *)
(* receiving progress covers just what was opened, the cache keeps the     *)
(* newest keys within its cap, and what arrives opens.                     *)
(*                                                                         *)
(* All rest on the length of the root keys: each DH output mixed in makes  *)
(* them longer, so a chain is newer than every chain before it.  The last  *)
(* two need more: the eviction order lists the cached keys oldest first,   *)
(* and of the two parties one is always a DH step ahead of the other.      *)
(***************************************************************************)
EXTENDS Ratchet, FiniteSetTheorems, SequenceTheorems, TLAPS

-----------------------------------------------------------------------------
(* Types. *)

(* What typing a step needs beside TypeOK: early arrivals are finitely     *)
(* many, and a receiving chain has a remote key.                           *)
WellFormed(r) ==
  /\ r \in RatchetState
  /\ IsFiniteSet(r.out_of_order)
  /\ r.receiving_chain # NoChain => r.dh_remote # NoKey

(* s holds the same keys and counters as r.                                *)
SameKeys(r, s) ==
  /\ s.root_key = r.root_key /\ s.dh_self = r.dh_self /\ s.dh_remote = r.dh_remote
  /\ s.sending_chain = r.sending_chain /\ s.receiving_chain = r.receiving_chain
  /\ s.send_n = r.send_n /\ s.recv_n = r.recv_n
  /\ s.prev_chain_len = r.prev_chain_len

(* Recording a message touches nothing but the frontier.                   *)
LEMMA RecordedFrame ==
  ASSUME NEW r, WellFormed(r), NEW n \in Nat
  PROVE  /\ WellFormed(Recorded(r, n))
         /\ SameKeys(r, Recorded(r, n))
         /\ Recorded(r, n).skipped = r.skipped
<1> r \in RatchetState
  BY DEF WellFormed
<1>1. CASE n = r.contiguous + 1
  <2> DEFINE joined == {i \in r.out_of_order : i > n /\ (n + 1)..i \subseteq r.out_of_order}
             left == r.out_of_order \ ((n + 1)..Absorbed(r, n))
  <2>1. IsFiniteSet(joined) /\ IsFiniteSet(left)
    <3>1. joined \subseteq r.out_of_order /\ left \subseteq r.out_of_order
      OBVIOUS
    <3> HIDE DEF joined, left
    <3> QED
      BY <3>1, FS_Subset DEF WellFormed
  <2>2. Absorbed(r, n) \in Nat
    <3>1. Cardinality(joined) \in Nat
      BY <2>1, FS_CardinalityType
    <3> QED
      BY <3>1 DEF Absorbed
  <2>3. left \subseteq Nat
    BY DEF RatchetState
  <2>4. Recorded(r, n) = [r EXCEPT !.contiguous = Absorbed(r, n), !.out_of_order = left]
    BY <1>1 DEF Recorded
  <2> HIDE DEF left
  <2> QED
    BY <2>1, <2>2, <2>3, <2>4 DEF RatchetState, WellFormed, SameKeys, Indices
<1>2. CASE n # r.contiguous + 1 /\ n > r.contiguous
  <2> DEFINE more == r.out_of_order \union {n}
  <2>1. IsFiniteSet(more)
    BY FS_AddElement DEF WellFormed
  <2>2. more \subseteq Nat
    BY DEF RatchetState
  <2>3. Recorded(r, n) = [r EXCEPT !.out_of_order = more]
    BY <1>2 DEF Recorded
  <2> HIDE DEF more
  <2> QED
    BY <2>1, <2>2, <2>3 DEF RatchetState, WellFormed, SameKeys
<1>3. CASE n # r.contiguous + 1 /\ ~(n > r.contiguous)
  BY <1>3 DEF Recorded, SameKeys
<1> QED
  BY <1>1, <1>2, <1>3

(* Eviction only drops cached keys.                                        *)
LEMMA EvictedFrame ==
  ASSUME NEW r, WellFormed(r)
  PROVE  /\ WellFormed(Evicted(r))
         /\ SameKeys(r, Evicted(r))
         /\ Evicted(r).skipped \subseteq r.skipped
<1> r \in RatchetState
  BY DEF WellFormed
<1> DEFINE order == r.skipped_order
           over == {i \in 0..(Len(order) - 1) : Cardinality(LeftAfter(r, i)) > Cap}
           rest == SubSeq(order, Pops(r) + 1, Len(order))
           left == LeftAfter(r, Pops(r))
<1>1. order \in Seq(DhKeys \X Nat)
  BY DEF RatchetState
<1>2. Pops(r) \in Nat
  <2>1. over \subseteq 0..(Len(order) - 1) /\ IsFiniteSet(0..(Len(order) - 1))
    BY <1>1, FS_Interval
  <2>2. IsFiniteSet(over)
    <3> HIDE DEF over
    <3> QED
      BY <2>1, FS_Subset
  <2>3. Cardinality(over) \in Nat
    <3> HIDE DEF over
    <3> QED
      BY <2>2, FS_CardinalityType
  <2> QED
    BY <2>3 DEF Pops
<1>3. rest \in Seq(DhKeys \X Nat)
  <2>1. \A a, b \in Nat : a > 0 /\ b <= Len(order) => SubSeq(order, a, b) \in Seq(DhKeys \X Nat)
    <3> HIDE DEF order
    <3> QED
      BY <1>1
  <2> QED
    BY <1>1, <1>2, <2>1
<1>4. left \subseteq r.skipped
  BY DEF LeftAfter
<1>5. Evicted(r) = [r EXCEPT !.skipped = left, !.skipped_order = rest]
  BY DEF Evicted
<1> HIDE DEF left, rest
<1> QED
  BY <1>3, <1>4, <1>5 DEF RatchetState, WellFormed, SameKeys

(* A committed decryption: s is the new state of party p.                  *)
Committed(p, m, stepped, keys, s) ==
  /\ WellFormed(s)
  /\ ratchet' = [ratchet EXCEPT ![p] = s]
  /\ opened' = [opened EXCEPT ![p] = opened[p] \union {m}]
  /\ evicted' \in [Parties -> SUBSET SkippedKey]
  /\ s.recv_n = m.n + 1
  /\ s.root_key = stepped.root_key /\ s.dh_remote = stepped.dh_remote
  /\ s.sending_chain = stepped.sending_chain /\ s.send_n = stepped.send_n
  /\ s.receiving_chain = stepped.receiving_chain
  /\ s.skipped \subseteq stepped.skipped \union keys

LEMMA CommitFrame ==
  ASSUME NEW p \in Parties, NEW m \in Envelope, NEW stepped, WellFormed(stepped),
         NEW keys \in SUBSET SkippedKey, NEW ids \in Seq(DhKeys \X Nat),
         evicted \in [Parties -> SUBSET SkippedKey], Commit(p, m, stepped, keys, ids)
  PROVE  \E s : Committed(p, m, stepped, keys, s)
<1> DEFINE skipped == stepped.skipped \union keys
           order == stepped.skipped_order \o ids
           full == [stepped EXCEPT !.recv_n = m.n + 1, !.skipped = skipped,
                                   !.skipped_order = order]
           s == Recorded(Evicted(full), m.n)
<1>0. stepped \in RatchetState
  BY DEF WellFormed
<1>1. skipped \subseteq SkippedKey /\ order \in Seq(DhKeys \X Nat) /\ m.n \in Nat
  BY <1>0 DEF RatchetState, Envelope
<1>2. /\ WellFormed(full)
      /\ full.recv_n = m.n + 1 /\ full.skipped = skipped
      /\ full.root_key = stepped.root_key /\ full.dh_remote = stepped.dh_remote
      /\ full.sending_chain = stepped.sending_chain /\ full.send_n = stepped.send_n
      /\ full.receiving_chain = stepped.receiving_chain
  <2>1. m.n + 1 \in Nat
    BY <1>1
  <2> HIDE DEF skipped, order
  <2>2. full \in RatchetState
    BY <1>0, <1>1, <2>1 DEF RatchetState
  <2>3. /\ full.recv_n = m.n + 1 /\ full.skipped = skipped
        /\ full.out_of_order = stepped.out_of_order /\ full.dh_remote = stepped.dh_remote
        /\ full.root_key = stepped.root_key /\ full.dh_remote = stepped.dh_remote
        /\ full.sending_chain = stepped.sending_chain /\ full.send_n = stepped.send_n
        /\ full.receiving_chain = stepped.receiving_chain
    BY <1>0 DEF RatchetState
  <2> QED
    BY <2>2, <2>3 DEF WellFormed
<1>3. /\ ratchet' = [ratchet EXCEPT ![p] = s]
      /\ opened' = [opened EXCEPT ![p] = opened[p] \union {m}]
      /\ evicted' = [evicted EXCEPT ![p] =
                       evicted[p] \union (full.skipped \ Evicted(full).skipped)]
  BY DEF Commit
<1> HIDE DEF full
<1>4. /\ WellFormed(Evicted(full)) /\ SameKeys(full, Evicted(full))
      /\ Evicted(full).skipped \subseteq skipped
  BY <1>2, EvictedFrame
<1>5. WellFormed(s) /\ SameKeys(Evicted(full), s) /\ s.skipped = Evicted(full).skipped
  BY <1>1, <1>4, RecordedFrame
<1>6. evicted' \in [Parties -> SUBSET SkippedKey]
  BY <1>1, <1>2, <1>3
<1> HIDE DEF s
<1>7. Committed(p, m, stepped, keys, s)
  BY <1>2, <1>3, <1>4, <1>5, <1>6 DEF Committed, SameKeys
<1> QED
  BY <1>7

-----------------------------------------------------------------------------
(* The inductive invariant. *)

(* What a party's state says of the messages it has opened (done) and the  *)
(* keys it has cached: all on chains older than its root key, no key both  *)
(* used and cached, each chain's under one DH key, and on the receiving    *)
(* chain none at recv_n or later.                                          *)
ReceiveInv(r, done) ==
  /\ \A m \in done : Len(m.chain) < Len(r.root_key)
  /\ \A k \in r.skipped : Len(k.chain) < Len(r.root_key)
  /\ \A m \in done, k \in r.skipped : ~(k.chain = m.chain /\ k.n = m.n)
  /\ \A k, l \in r.skipped : k.chain = l.chain => k.dh_pub = l.dh_pub
  /\ r.receiving_chain # NoChain =>
       /\ Len(r.receiving_chain) < Len(r.root_key)
       /\ \A m \in done : m.chain = r.receiving_chain => m.n < r.recv_n
       /\ \A k \in r.skipped : k.chain = r.receiving_chain =>
                                 k.n < r.recv_n /\ k.dh_pub = r.dh_remote

(* And of those it has sent (out): the initiator's root keys have odd      *)
(* length, the responder's even, and a sending chain is its root's.        *)
Turn(p) == IF p = "initiator" THEN 1 ELSE 0
SendInv(p, r, out) ==
  /\ \E k \in Nat : Len(r.root_key) = 2 * k + Turn(p)
  /\ r.sending_chain # NoChain => r.sending_chain = r.root_key
  /\ \A m \in out : /\ \E k \in Nat : Len(m.chain) = 2 * k + Turn(p)
                    /\ m.chain # NoChain
                    /\ Len(m.chain) <= Len(r.root_key)
                    /\ m.chain = r.sending_chain => m.n < r.send_n

RatchetInv ==
  /\ TypeOK
  /\ \A p \in Parties : /\ WellFormed(ratchet[p])
                        /\ ReceiveInv(ratchet[p], opened[p])
                        /\ SendInv(p, ratchet[p], sent[p])

LEMMA RatchetInit == Init => RatchetInv
<1> SUFFICES ASSUME Init PROVE RatchetInv
  OBVIOUS
<1>1. Fresh(1) \in RatchetState /\ Fresh(2) \in RatchetState
  BY DEF Fresh, RatchetState, DhKeys, NoKey, Chains, NoChain, Indices
<1>2. <<{1, 2}>> \in Chains /\ Len(<<{1, 2}>>) = 1 /\ <<{1, 2}>> # NoChain
  BY DEF Chains, NoChain
<1>3. init_as_initiator \in RatchetState
  BY <1>1, <1>2 DEF init_as_initiator, RatchetState
<1>4. /\ init_as_initiator.root_key = <<{1, 2}>> /\ init_as_initiator.skipped = {}
      /\ init_as_initiator.sending_chain = <<{1, 2}>>
      /\ init_as_initiator.receiving_chain = NoChain
      /\ init_as_initiator.out_of_order = {}
  BY DEF init_as_initiator, Fresh
<1>5. /\ init_as_responder.root_key = << >> /\ init_as_responder.skipped = {}
      /\ init_as_responder.sending_chain = NoChain
      /\ init_as_responder.receiving_chain = NoChain
      /\ init_as_responder.out_of_order = {}
  BY DEF init_as_responder, Fresh
<1>6. /\ ratchet["initiator"] = init_as_initiator
      /\ ratchet["responder"] = init_as_responder
      /\ \A p \in Parties : sent[p] = {} /\ opened[p] = {} /\ evicted[p] = {}
  BY DEF Init, Parties
<1>7. TypeOK
  BY <1>1, <1>3 DEF Init, TypeOK, Parties, init_as_responder, DhKeys
<1>8. ASSUME NEW p \in Parties
      PROVE  WellFormed(ratchet[p]) /\ ReceiveInv(ratchet[p], opened[p])
  <2>1. WellFormed(ratchet[p])
    BY <1>1, <1>3, <1>4, <1>5, <1>6, FS_EmptySet DEF WellFormed, Parties, init_as_responder
  <2>2. ReceiveInv(ratchet[p], opened[p])
    BY <1>4, <1>5, <1>6 DEF ReceiveInv, Parties
  <2> QED
    BY <2>1, <2>2
<1>9. ASSUME NEW p \in Parties PROVE SendInv(p, ratchet[p], sent[p])
  <2>1. Len(init_as_initiator.root_key) = 2 * 0 + 1 /\ Len(init_as_responder.root_key) = 2 * 0 + 0
    BY <1>2, <1>4, <1>5
  <2> QED
    BY <1>4, <1>5, <1>6, <2>1 DEF SendInv, Parties, Turn
<1> QED
  BY <1>7, <1>8, <1>9 DEF RatchetInv

(* A step of party p changes nothing of its peer's.                        *)
LEMMA PeerFrame ==
  ASSUME RatchetInv, NEW p \in Parties, TypeOK',
         \A q \in Parties \ {p} :
           /\ ratchet'[q] = ratchet[q] /\ sent'[q] = sent[q] /\ opened'[q] = opened[q],
         WellFormed(ratchet'[p]), ReceiveInv(ratchet'[p], opened'[p]),
         SendInv(p, ratchet'[p], sent'[p])
  PROVE  RatchetInv'
<1> SUFFICES ASSUME NEW q \in Parties
             PROVE  /\ WellFormed(ratchet'[q])
                    /\ ReceiveInv(ratchet'[q], opened'[q])
                    /\ SendInv(q, ratchet'[q], sent'[q])
  BY DEF RatchetInv, WellFormed, ReceiveInv, SendInv
<1>1. CASE q = p
  BY <1>1
<1>2. CASE q # p
  BY <1>2 DEF RatchetInv
<1> QED
  BY <1>1, <1>2

LEMMA EncryptKeeps ==
  ASSUME RatchetInv, NEW p \in Parties, Encrypt(p)
  PROVE  RatchetInv'
<1> DEFINE r == ratchet[p]
           s == [r EXCEPT !.send_n = r.send_n + 1]
           m == [dh_pub |-> r.dh_self, pn |-> r.prev_chain_len, n |-> r.send_n,
                 chain |-> r.sending_chain]
<1>1. /\ r \in RatchetState /\ WellFormed(r) /\ ReceiveInv(r, opened[p])
      /\ SendInv(p, r, sent[p]) /\ TypeOK
  BY DEF RatchetInv, TypeOK
<1>2. m \in Envelope
  BY <1>1 DEF RatchetState, Envelope
<1>3. /\ r.sending_chain # NoChain
      /\ ratchet' = [ratchet EXCEPT ![p] = s]
      /\ sent' = [sent EXCEPT ![p] = sent[p] \union {m}]
      /\ UNCHANGED <<opened, evicted, next_key>>
  BY DEF Encrypt
<1>4. s \in RatchetState /\ s.send_n = r.send_n + 1 /\ r.send_n \in Nat
  <2>1. r.send_n + 1 \in Nat
    BY <1>1 DEF RatchetState
  <2> QED
    BY <1>1, <2>1 DEF RatchetState
<1>5. /\ s.root_key = r.root_key /\ s.sending_chain = r.sending_chain
      /\ s.receiving_chain = r.receiving_chain /\ s.recv_n = r.recv_n
      /\ s.skipped = r.skipped /\ s.out_of_order = r.out_of_order
      /\ s.dh_remote = r.dh_remote
  BY <1>1 DEF RatchetState
<1>6. m.chain = r.sending_chain /\ m.n = r.send_n
  OBVIOUS
<1> HIDE DEF r, s, m
<1>7. TypeOK'
  BY <1>1, <1>2, <1>3, <1>4 DEF TypeOK
<1>8. ratchet'[p] = s /\ opened'[p] = opened[p] /\ sent'[p] = sent[p] \union {m}
  BY <1>1, <1>3 DEF TypeOK
<1>9. WellFormed(s)
  BY <1>1, <1>4, <1>5 DEF WellFormed
<1>10. ReceiveInv(s, opened[p])
  BY <1>1, <1>5 DEF ReceiveInv
<1>11. SendInv(p, s, sent[p] \union {m})
  <2>1. Len(m.chain) = Len(r.root_key) /\ m.chain # NoChain
    BY <1>1, <1>3, <1>6 DEF SendInv
  <2>2. Len(r.root_key) \in Nat
    BY <1>1 DEF RatchetState, Chains
  <2>3. \A q \in sent[p] : q.n \in Nat
    BY <1>1 DEF TypeOK, Envelope
  <2> QED
    BY <1>1, <1>4, <1>5, <1>6, <2>1, <2>2, <2>3 DEF SendInv
<1>12. \A q \in Parties \ {p} :
         ratchet'[q] = ratchet[q] /\ sent'[q] = sent[q] /\ opened'[q] = opened[q]
  BY <1>1, <1>3 DEF TypeOK
<1> QED
  BY <1>7, <1>8, <1>9, <1>10, <1>11, <1>12, PeerFrame

(* What the peer's sent messages and p's own records are typed as.         *)
LEMMA ArrivalTypes ==
  ASSUME RatchetInv, NEW p \in Parties, NEW m \in sent[Peer(p)]
  PROVE  /\ TypeOK /\ m \in Envelope /\ Peer(p) \in Parties
         /\ ratchet[p] \in RatchetState /\ WellFormed(ratchet[p])
         /\ ReceiveInv(ratchet[p], opened[p]) /\ SendInv(p, ratchet[p], sent[p])
BY DEF RatchetInv, TypeOK, Peer, Parties

LEMMA OpenCachedKeeps ==
  ASSUME RatchetInv, NEW p \in Parties, NEW m \in sent[Peer(p)], OpenCached(p, m)
  PROVE  RatchetInv'
<1> DEFINE r == ratchet[p]
           t == KeyUsed(r, m)
           s == IF m.dh_pub = r.dh_remote THEN Recorded(t, m.n) ELSE t
<1>1. /\ r \in RatchetState /\ WellFormed(r) /\ ReceiveInv(r, opened[p])
      /\ SendInv(p, r, sent[p]) /\ TypeOK /\ m \in Envelope
  BY ArrivalTypes
<1>2. /\ OpensCached(r, m)
      /\ ratchet' = [ratchet EXCEPT ![p] = s]
      /\ opened' = [opened EXCEPT ![p] = opened[p] \union {m}]
      /\ UNCHANGED <<sent, evicted, next_key>>
  BY DEF OpenCached
<1>3. WellFormed(t) /\ SameKeys(r, t) /\ t.skipped = r.skipped \ Cached(r, m)
  <2>1. r.skipped \ Cached(r, m) \subseteq SkippedKey
    BY <1>1 DEF RatchetState
  <2> QED
    BY <1>1, <2>1 DEF KeyUsed, WellFormed, RatchetState, SameKeys
<1> HIDE DEF t
<1>4. WellFormed(s) /\ SameKeys(r, s) /\ s.skipped = r.skipped \ Cached(r, m)
  <2>1. m.n \in Nat
    BY <1>1 DEF Envelope
  <2>2. /\ WellFormed(Recorded(t, m.n)) /\ SameKeys(t, Recorded(t, m.n))
        /\ Recorded(t, m.n).skipped = t.skipped
    BY <1>3, <2>1, RecordedFrame
  <2> QED
    BY <1>3, <2>2 DEF SameKeys
<1>5. PICK k \in r.skipped : k.dh_pub = m.dh_pub /\ k.n = m.n /\ k.chain = m.chain
  BY <1>2 DEF OpensCached, Cached
<1> HIDE DEF r, s
<1>6. TypeOK'
  BY <1>1, <1>2, <1>4, ArrivalTypes DEF TypeOK, WellFormed
<1>7. ratchet'[p] = s /\ opened'[p] = opened[p] \union {m} /\ sent'[p] = sent[p]
  BY <1>1, <1>2 DEF TypeOK
<1>8. ReceiveInv(s, opened[p] \union {m})
  <2>1. \A l \in s.skipped : l \in r.skipped /\ ~(l.dh_pub = m.dh_pub /\ l.n = m.n)
    BY <1>4 DEF Cached
  <2>2. \A l \in s.skipped : ~(l.chain = m.chain /\ l.n = m.n)
    BY <1>1, <1>5, <2>1 DEF ReceiveInv
  <2>3. /\ s.root_key = r.root_key /\ s.receiving_chain = r.receiving_chain
        /\ s.recv_n = r.recv_n /\ s.dh_remote = r.dh_remote
    BY <1>4 DEF SameKeys
  <2> QED
    BY <1>1, <1>5, <2>1, <2>2, <2>3 DEF ReceiveInv
<1>9. SendInv(p, s, sent[p])
  BY <1>1, <1>4 DEF SendInv, SameKeys
<1>10. \A q \in Parties \ {p} :
         ratchet'[q] = ratchet[q] /\ sent'[q] = sent[q] /\ opened'[q] = opened[q]
  BY <1>1, <1>2 DEF TypeOK
<1> QED
  BY <1>4, <1>6, <1>7, <1>8, <1>9, <1>10, PeerFrame

(* The keys and the order a skip adds are typed.                           *)
LEMMA SkippedTypes ==
  ASSUME NEW dh \in DhKeys, NEW chain \in Chains, NEW from \in Nat, NEW until \in Nat
  PROVE  /\ SkippedKeys(dh, chain, from, until) \in SUBSET SkippedKey
         /\ SkippedIds(dh, from, until) \in Seq(DhKeys \X Nat)
<1>1. SkippedKeys(dh, chain, from, until) \in SUBSET SkippedKey
  BY DEF SkippedKeys, SkippedKey
<1>2. SkippedIds(dh, from, until) \in Seq(DhKeys \X Nat)
  <2> DEFINE len == IF from < until THEN until - from ELSE 0
  <2>1. len \in Nat
    OBVIOUS
  <2>2. \A i \in 1..len : <<dh, from + i - 1>> \in DhKeys \X Nat
    BY <2>1
  <2> HIDE DEF len
  <2>3. [i \in 1..len |-> <<dh, from + i - 1>>] \in Seq(DhKeys \X Nat)
    BY <2>1, <2>2
  <2> QED
    BY <2>3 DEF SkippedIds, len
<1> QED
  BY <1>1, <1>2

LEMMA OpenOnChainKeeps ==
  ASSUME RatchetInv, NEW p \in Parties, NEW m \in sent[Peer(p)], OpenOnChain(p, m)
  PROVE  RatchetInv'
<1> DEFINE r == ratchet[p]
           keys == SkippedKeys(m.dh_pub, r.receiving_chain, r.recv_n, m.n)
           ids == SkippedIds(m.dh_pub, r.recv_n, m.n)
<1>1. /\ r \in RatchetState /\ WellFormed(r) /\ ReceiveInv(r, opened[p])
      /\ SendInv(p, r, sent[p]) /\ TypeOK /\ m \in Envelope
  BY ArrivalTypes
<1>2. /\ OpensOnChain(r, m) /\ Commit(p, m, r, keys, ids)
      /\ UNCHANGED <<sent, next_key>>
  BY DEF OpenOnChain
<1>3. /\ m.dh_pub \in DhKeys /\ m.n \in Nat /\ r.recv_n \in Nat
      /\ r.receiving_chain \in Chains /\ m.chain = r.receiving_chain
      /\ m.dh_pub = r.dh_remote /\ r.receiving_chain # NoChain /\ m.n >= r.recv_n
  BY <1>1, <1>2 DEF Envelope, RatchetState, OpensOnChain
<1> HIDE DEF r
<1>4. keys \in SUBSET SkippedKey /\ ids \in Seq(DhKeys \X Nat)
  BY <1>3, SkippedTypes
<1>5. \A k \in keys : /\ k.chain = r.receiving_chain /\ k.dh_pub = r.dh_remote
                      /\ r.recv_n <= k.n /\ k.n < m.n
  BY <1>3 DEF SkippedKeys
<1> HIDE DEF keys, ids
<1>6. PICK s : Committed(p, m, r, keys, s)
  BY <1>1, <1>2, <1>4, CommitFrame DEF TypeOK
<1>7. /\ WellFormed(s) /\ s \in RatchetState
      /\ ratchet' = [ratchet EXCEPT ![p] = s]
      /\ opened' = [opened EXCEPT ![p] = opened[p] \union {m}]
      /\ evicted' \in [Parties -> SUBSET SkippedKey]
      /\ s.recv_n = m.n + 1 /\ s.root_key = r.root_key /\ s.dh_remote = r.dh_remote
      /\ s.sending_chain = r.sending_chain /\ s.send_n = r.send_n
      /\ s.receiving_chain = r.receiving_chain /\ s.skipped \subseteq r.skipped \union keys
  BY <1>6 DEF Committed, WellFormed
<1>8. TypeOK'
  BY <1>1, <1>2, <1>7 DEF TypeOK
<1>9. ratchet'[p] = s /\ opened'[p] = opened[p] \union {m} /\ sent'[p] = sent[p]
  BY <1>1, <1>2, <1>7 DEF TypeOK
<1>10. ReceiveInv(s, opened[p] \union {m})
  <2>1. /\ \A o \in opened[p] : o.n \in Nat
        /\ \A k \in r.skipped \union keys : k.n \in Nat
    <3>1. opened[p] \in SUBSET Envelope
      BY <1>1 DEF TypeOK
    <3>2. r.skipped \in SUBSET SkippedKey
      BY <1>1 DEF RatchetState
    <3> QED
      BY <1>4, <3>1, <3>2 DEF Envelope, SkippedKey
  <2>2. \A o \in opened[p] \union {m} : Len(o.chain) < Len(s.root_key)
    BY <1>1, <1>3, <1>7 DEF ReceiveInv
  <2>3. \A k \in s.skipped : Len(k.chain) < Len(s.root_key)
    BY <1>1, <1>3, <1>5, <1>7 DEF ReceiveInv
  <2>4. \A o \in opened[p] \union {m}, k \in s.skipped : ~(k.chain = o.chain /\ k.n = o.n)
    BY <1>1, <1>3, <1>5, <1>7, <2>1 DEF ReceiveInv
  <2>5. \A k, l \in s.skipped : k.chain = l.chain => k.dh_pub = l.dh_pub
    BY <1>1, <1>3, <1>5, <1>7 DEF ReceiveInv
  <2>6. /\ \A o \in opened[p] \union {m} : o.chain = s.receiving_chain => o.n < s.recv_n
        /\ \A k \in s.skipped : k.chain = s.receiving_chain =>
                                  k.n < s.recv_n /\ k.dh_pub = s.dh_remote
    BY <1>1, <1>3, <1>5, <1>7, <2>1 DEF ReceiveInv
  <2> QED
    BY <1>1, <1>3, <1>7, <2>2, <2>3, <2>4, <2>5, <2>6 DEF ReceiveInv
<1>11. SendInv(p, s, sent[p])
  BY <1>1, <1>7 DEF SendInv
<1>12. \A q \in Parties \ {p} :
         ratchet'[q] = ratchet[q] /\ sent'[q] = sent[q] /\ opened'[q] = opened[q]
  BY <1>1, <1>2, <1>7 DEF TypeOK
<1> QED
  BY <1>7, <1>8, <1>9, <1>10, <1>11, <1>12, PeerFrame

(* A DH step lengthens the root key by two: the new receiving chain is one *)
(* longer than the old root, the new sending chain the new root itself.    *)
LEMMA SteppedFrame ==
  ASSUME NEW r, WellFormed(r), NEW dh \in DhKeys, NEW new \in DhKeys
  PROVE  LET t == Stepped(r, dh, new) IN
         /\ WellFormed(t)
         /\ SteppedRoot(r, dh) \in Chains /\ SteppedRoot(r, dh) # NoChain
         /\ Len(SteppedRoot(r, dh)) = Len(r.root_key) + 1
         /\ Len(t.root_key) = Len(r.root_key) + 2
         /\ t.sending_chain = t.root_key /\ t.receiving_chain = SteppedRoot(r, dh)
         /\ t.send_n = 0 /\ t.dh_remote = dh /\ t.skipped = r.skipped
<1> DEFINE base == SteppedRoot(r, dh)
           root == Append(base, {new, dh})
<1>1. r \in RatchetState /\ r.root_key \in Seq(SUBSET Nat) /\ r.dh_self \in Nat
  BY DEF WellFormed, RatchetState, Chains, DhKeys
<1>2. base \in Seq(SUBSET Nat) /\ Len(base) = Len(r.root_key) + 1
  <2>1. {r.dh_self, dh} \in SUBSET Nat
    BY <1>1 DEF DhKeys
  <2> QED
    BY <1>1, <2>1 DEF SteppedRoot
<1>3. base # << >>
  BY <1>1, <1>2
<1> HIDE DEF base
<1>4. root \in Seq(SUBSET Nat) /\ Len(root) = Len(base) + 1
  <2>1. {new, dh} \in SUBSET Nat
    BY DEF DhKeys
  <2> QED
    BY <1>2, <2>1
<1> HIDE DEF root
<1>5. Stepped(r, dh, new) =
        [r EXCEPT !.root_key = root, !.dh_self = new, !.dh_remote = dh,
                  !.sending_chain = root, !.receiving_chain = base,
                  !.prev_chain_len = r.send_n, !.send_n = 0,
                  !.contiguous = -1, !.out_of_order = {}]
  BY DEF Stepped, NewSendingChain, ChainEnd, root, base
<1>6. Stepped(r, dh, new) \in RatchetState
  <2> DEFINE zero == 0
             none == -1
             empty == {}
  <2>1. /\ root \in Chains /\ base \in Chains /\ dh \in Nat /\ r.send_n \in Nat
        /\ zero \in Nat /\ none \in Indices /\ empty \in SUBSET Nat
    BY <1>1, <1>2, <1>4 DEF RatchetState, Chains, Indices, DhKeys
  <2>2. Stepped(r, dh, new) =
          [r EXCEPT !.root_key = root, !.dh_self = new, !.dh_remote = dh,
                    !.sending_chain = root, !.receiving_chain = base,
                    !.prev_chain_len = r.send_n, !.send_n = zero,
                    !.contiguous = none, !.out_of_order = empty]
    BY <1>5
  <2> HIDE DEF zero, none, empty
  <2> DEFINE keyed == [r EXCEPT !.root_key = root, !.dh_self = new, !.dh_remote = dh,
                                !.sending_chain = root, !.receiving_chain = base]
             counted == [keyed EXCEPT !.prev_chain_len = r.send_n, !.send_n = zero]
  <2>3. keyed \in RatchetState
    BY <1>1, <2>1 DEF RatchetState
  <2>4. Stepped(r, dh, new) = [counted EXCEPT !.contiguous = none, !.out_of_order = empty]
    BY <2>2
  <2> HIDE DEF keyed
  <2>5. counted \in RatchetState
    BY <2>1, <2>3 DEF RatchetState
  <2> HIDE DEF counted
  <2> QED
    BY <2>1, <2>4, <2>5 DEF RatchetState
<1>7. /\ Stepped(r, dh, new).root_key = root
      /\ Stepped(r, dh, new).sending_chain = root
      /\ Stepped(r, dh, new).receiving_chain = base
      /\ Stepped(r, dh, new).send_n = 0
      /\ Stepped(r, dh, new).dh_remote = dh
      /\ Stepped(r, dh, new).skipped = r.skipped
      /\ Stepped(r, dh, new).out_of_order = {}
  BY <1>1, <1>5 DEF RatchetState
<1>8. WellFormed(Stepped(r, dh, new))
  BY <1>6, <1>7, FS_EmptySet DEF WellFormed, DhKeys, NoKey
<1> QED
  BY <1>1, <1>2, <1>3, <1>4, <1>7, <1>8 DEF base, Chains, NoChain

LEMMA OpenAfterStepKeeps ==
  ASSUME RatchetInv, NEW p \in Parties, NEW m \in sent[Peer(p)], OpenAfterStep(p, m)
  PROVE  RatchetInv'
<1> DEFINE r == ratchet[p]
           t == Stepped(r, m.dh_pub, next_key)
           base == SteppedRoot(r, m.dh_pub)
           until == OldChainEnd(r, m)
           old == SkippedKeys(r.dh_remote, r.receiving_chain, r.recv_n, until)
           new == SkippedKeys(m.dh_pub, base, 0, m.n)
           old_ids == SkippedIds(r.dh_remote, r.recv_n, until)
           new_ids == SkippedIds(m.dh_pub, 0, m.n)
<1>1. /\ r \in RatchetState /\ WellFormed(r) /\ ReceiveInv(r, opened[p])
      /\ SendInv(p, r, sent[p]) /\ TypeOK /\ m \in Envelope
  BY ArrivalTypes
<1>2. /\ OpensAfterStep(r, m) /\ Commit(p, m, t, old \union new, old_ids \o new_ids)
      /\ next_key' = next_key + 1 /\ UNCHANGED sent
  BY DEF OpenAfterStep
<1>3. /\ m.dh_pub \in DhKeys /\ m.n \in Nat /\ m.pn \in Nat /\ r.recv_n \in Nat
      /\ next_key \in DhKeys /\ r.receiving_chain \in Chains /\ r.dh_remote \in Nat
      /\ m.chain = base /\ Len(r.root_key) \in Nat
  BY <1>1, <1>2 DEF Envelope, RatchetState, OpensAfterStep, TypeOK, Chains
<1>4. /\ WellFormed(t) /\ base \in Chains /\ base # NoChain
      /\ Len(base) = Len(r.root_key) + 1 /\ Len(t.root_key) = Len(r.root_key) + 2
      /\ t.sending_chain = t.root_key /\ t.receiving_chain = base
      /\ t.send_n = 0 /\ t.dh_remote = m.dh_pub /\ t.skipped = r.skipped
  <2>1. /\ m.dh_pub \in DhKeys /\ next_key \in DhKeys
        /\ WellFormed(r) /\ base = SteppedRoot(r, m.dh_pub)
    BY <1>1, <1>3
  <2> HIDE DEF r, base
  <2> QED
    BY <2>1, SteppedFrame DEF t
<1> HIDE DEF r, t, base
<1>5. /\ new \in SUBSET SkippedKey /\ new_ids \in Seq(DhKeys \X Nat)
      /\ \A k \in new : k.chain = base /\ k.dh_pub = m.dh_pub /\ k.n < m.n
  <2>1. new \in SUBSET SkippedKey /\ new_ids \in Seq(DhKeys \X Nat)
    <3>1. \A from \in Nat : /\ SkippedKeys(m.dh_pub, base, from, m.n) \in SUBSET SkippedKey
                            /\ SkippedIds(m.dh_pub, from, m.n) \in Seq(DhKeys \X Nat)
      BY <1>3, <1>4, SkippedTypes
    <3> QED
      BY <3>1
  <2>2. \A k \in new : k.chain = base /\ k.dh_pub = m.dh_pub /\ k.n < m.n
    BY <1>3 DEF SkippedKeys
  <2> QED
    BY <2>1, <2>2
<1>6. /\ old \in SUBSET SkippedKey /\ old_ids \in Seq(DhKeys \X Nat)
      /\ \A k \in old : /\ k.chain = r.receiving_chain /\ k.dh_pub = r.dh_remote
                        /\ r.recv_n <= k.n /\ r.receiving_chain # NoChain
  <2>1. CASE r.receiving_chain = NoChain
    <3>1. until = r.recv_n
      BY <2>1 DEF OldChainEnd
    <3>2. old = {} /\ old_ids = << >>
      BY <1>3, <3>1 DEF SkippedKeys, SkippedIds
    <3> QED
      BY <3>2
  <2>2. CASE r.receiving_chain # NoChain
    <3>1. until \in Nat /\ r.dh_remote \in DhKeys
      BY <1>1, <1>3, <2>2 DEF OldChainEnd, WellFormed, DhKeys, NoKey
    <3> HIDE DEF until
    <3>2. old \in SUBSET SkippedKey /\ old_ids \in Seq(DhKeys \X Nat)
      BY <1>3, <3>1, SkippedTypes
    <3> QED
      BY <1>3, <2>2, <3>1, <3>2 DEF SkippedKeys
  <2> QED
    BY <2>1, <2>2
<1> HIDE DEF until, old, new, old_ids, new_ids
<1>7. old \union new \in SUBSET SkippedKey /\ old_ids \o new_ids \in Seq(DhKeys \X Nat)
  BY <1>5, <1>6
<1>8. PICK s : Committed(p, m, t, old \union new, s)
  BY <1>1, <1>2, <1>4, <1>7, CommitFrame DEF TypeOK
<1>9. /\ WellFormed(s) /\ s \in RatchetState
      /\ ratchet' = [ratchet EXCEPT ![p] = s]
      /\ opened' = [opened EXCEPT ![p] = opened[p] \union {m}]
      /\ evicted' \in [Parties -> SUBSET SkippedKey]
      /\ s.recv_n = m.n + 1 /\ Len(s.root_key) = Len(r.root_key) + 2
      /\ s.dh_remote = m.dh_pub /\ s.sending_chain = s.root_key /\ s.send_n = 0
      /\ s.receiving_chain = base
      /\ s.skipped \subseteq r.skipped \union old \union new
  BY <1>4, <1>8 DEF Committed, WellFormed
<1>10. TypeOK'
  <2>1. next_key' \in DhKeys
    BY <1>2, <1>3 DEF DhKeys
  <2> QED
    BY <1>1, <1>2, <1>9, <2>1 DEF TypeOK
<1>11. ratchet'[p] = s /\ opened'[p] = opened[p] \union {m} /\ sent'[p] = sent[p]
  BY <1>1, <1>2, <1>9 DEF TypeOK
<1>12. ReceiveInv(s, opened[p] \union {m})
  <2>1. /\ \A o \in opened[p] : o.n \in Nat /\ Len(o.chain) \in Nat
        /\ \A k \in r.skipped \union old \union new : k.n \in Nat /\ Len(k.chain) \in Nat
    <3>1. opened[p] \subseteq Envelope
      BY <1>1 DEF TypeOK
    <3>2. r.skipped \union old \union new \subseteq SkippedKey
      BY <1>1, <1>5, <1>6 DEF RatchetState
    <3> QED
      BY <3>1, <3>2 DEF Envelope, SkippedKey, Chains
  <2>2. /\ \A o \in opened[p] : Len(o.chain) < Len(r.root_key)
        /\ \A k \in r.skipped \union old : Len(k.chain) < Len(r.root_key)
    BY <1>1, <1>6 DEF ReceiveInv
  <2>3. \A o \in opened[p] : o.chain # base
    BY <1>3, <1>4, <2>1, <2>2
  <2>4. \A k \in r.skipped \union old : k.chain # base
    BY <1>3, <1>4, <2>1, <2>2
  <2>5. \A o \in opened[p] \union {m} : Len(o.chain) < Len(s.root_key)
    BY <1>3, <1>4, <1>9, <2>1, <2>2
  <2>6. \A k \in s.skipped : Len(k.chain) < Len(s.root_key)
    <3>1. \A k \in new : Len(k.chain) < Len(s.root_key)
      BY <1>3, <1>4, <1>5, <1>9
    <3>2. \A k \in r.skipped \union old : Len(k.chain) < Len(s.root_key)
      BY <1>3, <1>9, <2>1, <2>2
    <3> QED
      BY <1>9, <3>1, <3>2
  <2>7. \A o \in opened[p] \union {m}, k \in s.skipped : ~(k.chain = o.chain /\ k.n = o.n)
    <3>1. \A o \in opened[p], k \in r.skipped \union old : ~(k.chain = o.chain /\ k.n = o.n)
      BY <1>1, <1>3, <1>6, <2>1 DEF ReceiveInv
    <3> QED
      BY <1>3, <1>5, <1>9, <2>1, <2>3, <2>4, <3>1
  <2>8. \A k, l \in s.skipped : k.chain = l.chain => k.dh_pub = l.dh_pub
    <3>1. \A k, l \in r.skipped \union old : k.chain = l.chain => k.dh_pub = l.dh_pub
      BY <1>1, <1>6 DEF ReceiveInv
    <3> QED
      BY <1>5, <1>9, <2>4, <3>1
  <2>9. /\ \A o \in opened[p] \union {m} : o.chain = s.receiving_chain => o.n < s.recv_n
        /\ \A k \in s.skipped : k.chain = s.receiving_chain =>
                                  k.n < s.recv_n /\ k.dh_pub = s.dh_remote
    BY <1>3, <1>5, <1>9, <2>1, <2>3, <2>4
  <2>10. Len(s.receiving_chain) < Len(s.root_key)
    BY <1>3, <1>4, <1>9
  <2> QED
    BY <2>5, <2>6, <2>7, <2>8, <2>9, <2>10 DEF ReceiveInv
<1>13. SendInv(p, s, sent[p])
  <2>1. PICK k \in Nat : Len(r.root_key) = 2 * k + Turn(p)
    BY <1>1 DEF SendInv
  <2>2. Turn(p) \in Nat
    BY DEF Turn
  <2>3. k + 1 \in Nat /\ Len(s.root_key) = 2 * (k + 1) + Turn(p)
    BY <1>9, <2>1, <2>2
  <2>4. \A o \in sent[p] : Len(o.chain) \in Nat
    BY <1>1 DEF TypeOK, Envelope, Chains
  <2>5. \A o \in sent[p] : /\ \E j \in Nat : Len(o.chain) = 2 * j + Turn(p)
                           /\ o.chain # NoChain /\ Len(o.chain) <= Len(s.root_key)
                           /\ o.chain # s.sending_chain
    BY <1>1, <1>3, <1>9, <2>4 DEF SendInv
  <2> QED
    BY <1>9, <2>3, <2>5 DEF SendInv
<1>14. \A q \in Parties \ {p} :
         ratchet'[q] = ratchet[q] /\ sent'[q] = sent[q] /\ opened'[q] = opened[q]
  BY <1>1, <1>2, <1>9 DEF TypeOK
<1> QED
  BY <1>9, <1>10, <1>11, <1>12, <1>13, <1>14, PeerFrame

-----------------------------------------------------------------------------
(* Theorems of RatchetInv alone. *)

(* The strengthened invariant holds in every reachable state, for every    *)
(* max_skip, cache size and number of messages (encrypt, decrypt_raw).     *)
THEOREM RatchetCorrect == Spec => []RatchetInv
<1>1. Init => RatchetInv
  BY RatchetInit
<1>2. RatchetInv /\ [Next]_vars => RatchetInv'
  <2> SUFFICES ASSUME RatchetInv, [Next]_vars PROVE RatchetInv'
    OBVIOUS
  <2>1. ASSUME NEW p \in Parties, Encrypt(p) PROVE RatchetInv'
    BY <2>1, EncryptKeeps
  <2>2. ASSUME NEW p \in Parties, NEW m \in sent[Peer(p)], Open(p, m) PROVE RatchetInv'
    BY <2>2, OpenCachedKeeps, OpenOnChainKeeps, OpenAfterStepKeeps DEF Open
  <2>3. CASE UNCHANGED vars
    BY <2>3 DEF vars, RatchetInv, TypeOK, WellFormed, ReceiveInv, SendInv
  <2> QED
    BY <2>1, <2>2, <2>3 DEF Next
<1> QED
  BY <1>1, <1>2, PTL DEF Spec

(* Every state the ratchet reaches is well typed (RatchetState).           *)
THEOREM RatchetTyped == Spec => []TypeOK
<1>1. RatchetInv => TypeOK
  BY DEF RatchetInv
<1> QED
  BY <1>1, RatchetCorrect, PTL

(* No copy of a decrypted message ever decrypts again (decrypt_raw).       *)
THEOREM OpensOnce == Spec => []OpenedOnce
<1>1. RatchetInv => OpenedOnce
  <2> SUFFICES ASSUME RatchetInv, NEW p \in Parties, NEW m \in opened[p]
               PROVE  ~Opens(ratchet[p], m)
    BY DEF OpenedOnce
  <2> DEFINE r == ratchet[p]
  <2>1. /\ WellFormed(r) /\ r \in RatchetState /\ ReceiveInv(r, opened[p])
        /\ m \in Envelope /\ m.n \in Nat /\ r.recv_n \in Nat
        /\ m.dh_pub \in DhKeys /\ Len(m.chain) \in Nat /\ Len(r.root_key) \in Nat
    BY DEF RatchetInv, TypeOK, Envelope, RatchetState, Chains
  <2>2. ~OpensCached(r, m)
    BY <2>1 DEF OpensCached, Cached, ReceiveInv
  <2>3. ~OpensOnChain(r, m)
    BY <2>1 DEF OpensOnChain, ReceiveInv
  <2>4. ~OpensAfterStep(r, m)
    <3>1. Len(SteppedRoot(r, m.dh_pub)) = Len(r.root_key) + 1
      BY <2>1, SteppedFrame
    <3>2. Len(m.chain) < Len(r.root_key)
      BY <2>1 DEF ReceiveInv
    <3>3. m.chain # SteppedRoot(r, m.dh_pub)
      BY <2>1, <3>1, <3>2
    <3> QED
      BY <3>3 DEF OpensAfterStep
  <2> QED
    BY <2>2, <2>3, <2>4 DEF Opens
<1> QED
  BY <1>1, RatchetCorrect, PTL

(* The key of the next message is one no message was sealed with: the      *)
(* party's own are told apart by their index, its peer's by the parity of  *)
(* their chains' length (encrypt, the DH ratchet step).                    *)
THEOREM KeysFresh == Spec => []NextKeyIsFresh
<1>1. RatchetInv => NextKeyIsFresh
  <2> SUFFICES ASSUME RatchetInv, NEW p \in Parties, NEW q \in Parties,
                      ratchet[p].sending_chain # NoChain, NEW m \in sent[q],
                      m.chain = ratchet[p].sending_chain, m.n = ratchet[p].send_n
               PROVE  FALSE
    BY DEF NextKeyIsFresh
  <2> DEFINE r == ratchet[p]
  <2>1. /\ SendInv(p, r, sent[p]) /\ SendInv(q, ratchet[q], sent[q])
        /\ r.send_n \in Nat
    BY DEF RatchetInv, TypeOK, RatchetState
  <2>2. CASE q = p
    BY <2>1, <2>2 DEF SendInv
  <2>3. CASE q # p
    <3>1. PICK j \in Nat : Len(m.chain) = 2 * j + Turn(q)
      BY <2>1 DEF SendInv
    <3>2. PICK k \in Nat : Len(r.root_key) = 2 * k + Turn(p)
      BY <2>1 DEF SendInv
    <3>3. 2 * j + Turn(q) = 2 * k + Turn(p)
      BY <2>1, <3>1, <3>2 DEF SendInv
    <3>4. {Turn(p), Turn(q)} = {0, 1}
      BY <2>3 DEF Turn, Parties
    <3>5. \/ Turn(p) = 0 /\ Turn(q) = 1
          \/ Turn(p) = 1 /\ Turn(q) = 0
      BY <3>4
    <3> QED
      BY <3>3, <3>5
  <2> QED
    BY <2>2, <2>3
<1> QED
  BY <1>1, RatchetCorrect, PTL

-----------------------------------------------------------------------------
(* Receiving progress: the frontier and the early arrivals beyond it are   *)
(* the indices opened on the peer's current chain.                         *)
Progress(r, indices) ==
  /\ \A i \in Nat : i \in indices <=> i <= r.contiguous \/ i \in r.out_of_order
  /\ \A i \in r.out_of_order : i > r.contiguous + 1

(* The indices that join the frontier at n are those that follow it        *)
(* without a gap: they are as many as they reach far.                      *)
LEMMA AbsorbedIsRun ==
  ASSUME NEW r, WellFormed(r), NEW n \in Nat
  PROVE  /\ Absorbed(r, n) \in Nat /\ Absorbed(r, n) >= n
         /\ (n + 1)..Absorbed(r, n) \subseteq r.out_of_order
         /\ Absorbed(r, n) + 1 \notin r.out_of_order
<1> DEFINE joined == {i \in r.out_of_order : i > n /\ (n + 1)..i \subseteq r.out_of_order}
           k == Cardinality(joined)
<1>1. IsFiniteSet(r.out_of_order) /\ r.out_of_order \subseteq Nat
  BY DEF WellFormed, RatchetState
<1>2. IsFiniteSet(joined) /\ k \in Nat
  <2>1. joined \subseteq r.out_of_order
    OBVIOUS
  <2> HIDE DEF joined
  <2> QED BY <1>1, <2>1, FS_Subset, FS_CardinalityType
<1>3. \A i \in joined : i \in Nat /\ i > n /\ (n + 1)..i \subseteq joined
  <2> SUFFICES ASSUME NEW i \in joined, NEW j \in (n + 1)..i
               PROVE  i \in Nat /\ i > n /\ j \in joined
    BY <1>1
  <2>1. i \in Nat /\ i > n /\ (n + 1)..i \subseteq r.out_of_order
    BY <1>1
  <2>2. j \in Nat /\ j > n /\ (n + 1)..j \subseteq (n + 1)..i
    BY <2>1
  <2> QED BY <2>1, <2>2
<1>4. \A i \in r.out_of_order : i > n /\ (n + 1)..i \subseteq r.out_of_order => i \in joined
  OBVIOUS
<1>5. Absorbed(r, n) = n + k
  BY DEF Absorbed
<1>6. joined \subseteq r.out_of_order
  OBVIOUS
<1> HIDE DEF joined
<1>7. \A i \in joined : i <= n + k
  <2> TAKE i \in joined
  <2>1. i \in Nat /\ i > n /\ (n + 1)..i \subseteq joined
    BY <1>3
  <2>2. Cardinality((n + 1)..i) <= k
    BY <1>2, <2>1, FS_Subset
  <2>3. Cardinality((n + 1)..i) = i - (n + 1) + 1
    BY <2>1, FS_Interval
  <2> HIDE DEF k
  <2> QED BY <1>2, <2>1, <2>2, <2>3
<1>8. joined = (n + 1)..(n + k)
  <2>1. joined \subseteq (n + 1)..(n + k)
    <3> HIDE DEF k
    <3> QED BY <1>2, <1>3, <1>7
  <2>2. IsFiniteSet((n + 1)..(n + k)) /\ Cardinality((n + 1)..(n + k)) = k
    <3> HIDE DEF k
    <3>1. n + 1 \in Int /\ n + k \in Int
      BY <1>2
    <3>2. /\ IsFiniteSet((n + 1)..(n + k))
          /\ Cardinality((n + 1)..(n + k)) = IF n + 1 > n + k THEN 0 ELSE (n + k) - (n + 1) + 1
      BY <3>1, FS_Interval
    <3> QED BY <1>2, <3>2
  <2> QED BY <2>1, <2>2, FS_Subset
<1>9. n + k + 1 \notin r.out_of_order
  <2> SUFFICES ASSUME n + k + 1 \in r.out_of_order PROVE FALSE
    OBVIOUS
  <2> HIDE DEF k
  <2>1. (n + 1)..(n + k + 1) \subseteq r.out_of_order
    <3>1. (n + 1)..(n + k + 1) = ((n + 1)..(n + k)) \union {n + k + 1}
      BY <1>2
    <3> QED BY <1>6, <1>8, <3>1
  <2>2. n + k + 1 \in joined
    BY <1>2, <1>4, <2>1
  <2> QED BY <1>2, <1>7, <2>2
<1> HIDE DEF k
<1> QED BY <1>2, <1>5, <1>6, <1>8, <1>9

LEMMA RecordedProgress ==
  ASSUME NEW r, WellFormed(r), NEW n \in Nat, NEW indices, Progress(r, indices)
  PROVE  Progress(Recorded(r, n), indices \union {n})
<1>1. r \in RatchetState /\ r.contiguous \in Int /\ r.out_of_order \subseteq Nat
  BY DEF WellFormed, RatchetState, Indices
<1>2. CASE n = r.contiguous + 1
  <2> DEFINE a == Absorbed(r, n)
             left == r.out_of_order \ ((n + 1)..a)
  <2>1. /\ a \in Nat /\ a >= n /\ (n + 1)..a \subseteq r.out_of_order
        /\ a + 1 \notin r.out_of_order
    BY AbsorbedIsRun
  <2> HIDE DEF a
  <2>2. left \subseteq Nat
    BY <1>1
  <2>3. Recorded(r, n) = [r EXCEPT !.contiguous = a, !.out_of_order = left]
    BY <1>2 DEF Recorded, a
  <2>4. Recorded(r, n).contiguous = a /\ Recorded(r, n).out_of_order = left
    <3> HIDE DEF left
    <3> QED BY <1>1, <2>3 DEF RatchetState
  <2>5. \A i \in Nat : i \in indices \union {n} <=> i <= a \/ i \in left
    <3> TAKE i \in Nat
    <3>1. i \in indices <=> i <= r.contiguous \/ i \in r.out_of_order
      BY DEF Progress
    <3>2. i \in r.out_of_order => i > n
      BY <1>2 DEF Progress
    <3> QED BY <1>1, <1>2, <2>1, <3>1, <3>2
  <2>6. \A i \in left : i > a + 1
    <3> TAKE i \in left
    <3>1. i \in Nat /\ i > n /\ i # a + 1 /\ ~(i \in (n + 1)..a)
      BY <1>1, <1>2, <2>1 DEF Progress
    <3> HIDE DEF left
    <3> QED BY <2>1, <3>1
  <2> QED BY <2>4, <2>5, <2>6 DEF Progress
<1>3. CASE n # r.contiguous + 1 /\ n > r.contiguous
  <2> DEFINE more == r.out_of_order \union {n}
  <2>1. Recorded(r, n) = [r EXCEPT !.out_of_order = more]
    BY <1>3 DEF Recorded
  <2>2. Recorded(r, n).contiguous = r.contiguous /\ Recorded(r, n).out_of_order = more
    <3> HIDE DEF more
    <3> QED BY <1>1, <2>1 DEF RatchetState
  <2>3. n > r.contiguous + 1
    BY <1>1, <1>3
  <2> QED BY <2>2, <2>3 DEF Progress
<1>4. CASE n # r.contiguous + 1 /\ ~(n > r.contiguous)
  <2>1. Recorded(r, n) = r /\ n <= r.contiguous
    BY <1>1, <1>4 DEF Recorded
  <2> QED BY <2>1 DEF Progress
<1> QED BY <1>2, <1>3, <1>4

(* A commit records the message on a state whose frontier is that of the   *)
(* chain it opened on.                                                     *)
SameProgress(r, s) ==
  s.contiguous = r.contiguous /\ s.out_of_order = r.out_of_order /\ s.dh_remote = r.dh_remote

LEMMA CommitRecords ==
  ASSUME NEW p \in Parties, NEW m \in Envelope, NEW stepped, WellFormed(stepped),
         NEW keys \in SUBSET SkippedKey, NEW ids \in Seq(DhKeys \X Nat),
         Commit(p, m, stepped, keys, ids)
  PROVE  \E e : /\ WellFormed(e) /\ SameProgress(stepped, e)
                /\ e.dh_self = stepped.dh_self /\ e.sending_chain = stepped.sending_chain
                /\ ratchet' = [ratchet EXCEPT ![p] = Recorded(e, m.n)]
                /\ opened' = [opened EXCEPT ![p] = opened[p] \union {m}]
<1> DEFINE skipped == stepped.skipped \union keys
           order == stepped.skipped_order \o ids
           full == [stepped EXCEPT !.recv_n = m.n + 1, !.skipped = skipped,
                                   !.skipped_order = order]
<1>1. stepped \in RatchetState /\ skipped \subseteq SkippedKey
      /\ order \in Seq(DhKeys \X Nat) /\ m.n + 1 \in Nat
  BY DEF WellFormed, RatchetState, Envelope
<1>2. /\ ratchet' = [ratchet EXCEPT ![p] = Recorded(Evicted(full), m.n)]
      /\ opened' = [opened EXCEPT ![p] = opened[p] \union {m}]
  BY DEF Commit
<1> HIDE DEF skipped, order
<1>3. full \in RatchetState
  BY <1>1 DEF RatchetState
<1>4. /\ SameProgress(stepped, full) /\ full.receiving_chain = stepped.receiving_chain
      /\ full.dh_self = stepped.dh_self /\ full.sending_chain = stepped.sending_chain
  BY <1>1 DEF RatchetState, SameProgress
<1> HIDE DEF full
<1>5. WellFormed(full)
  BY <1>3, <1>4 DEF WellFormed, SameProgress
<1>6. WellFormed(Evicted(full)) /\ SameKeys(full, Evicted(full))
  BY <1>5, EvictedFrame
<1>7. /\ Evicted(full).contiguous = full.contiguous
      /\ Evicted(full).out_of_order = full.out_of_order
  <2> DEFINE left == LeftAfter(full, Pops(full))
             rest == SubSeq(full.skipped_order, Pops(full) + 1, Len(full.skipped_order))
  <2>1. Evicted(full) = [full EXCEPT !.skipped = left, !.skipped_order = rest]
    BY DEF Evicted
  <2> HIDE DEF left, rest
  <2> QED BY <1>3, <2>1 DEF RatchetState
<1> QED BY <1>2, <1>4, <1>6, <1>7 DEF SameProgress, SameKeys

(* What keypairs say of chains: one that a party has not generated is on   *)
(* none of its messages, the one it holds only on those of its sending     *)
(* chain, and no keypair is on messages of two chains.                     *)
HeaderInv(next, self, chain, out) ==
  /\ self < next
  /\ \A m \in out : m.dh_pub < next
  /\ \A m \in out : m.dh_pub = self => m.chain = chain
  /\ \A m, o \in out : m.dh_pub = o.dh_pub => m.chain = o.chain

OnChain(r, done) == {m.n : m \in {m \in done : m.dh_pub = r.dh_remote}}
ProgressInv ==
  \A p \in Parties :
    /\ opened[p] \subseteq sent[Peer(p)]
    /\ HeaderInv(next_key, ratchet[p].dh_self, ratchet[p].sending_chain, sent[p])
    /\ Progress(ratchet[p], OnChain(ratchet[p], opened[p]))

LEMMA ProgressInit == Init => ProgressInv
<1> SUFFICES ASSUME Init, NEW p \in Parties
             PROVE  /\ opened[p] \subseteq sent[Peer(p)]
                    /\ HeaderInv(next_key, ratchet[p].dh_self, ratchet[p].sending_chain, sent[p])
                    /\ Progress(ratchet[p], OnChain(ratchet[p], opened[p]))
  BY DEF ProgressInv
<1>1. opened[p] = {} /\ sent[p] = {} /\ next_key = 3
  BY DEF Init
<1>2. ratchet[p] = init_as_initiator \/ ratchet[p] = init_as_responder
  BY DEF Init
<1>3. /\ ratchet[p].dh_self \in {1, 2} /\ ratchet[p].contiguous = -1
      /\ ratchet[p].out_of_order = {}
  <2>1. /\ init_as_initiator.dh_self = 2 /\ init_as_initiator.contiguous = -1
        /\ init_as_initiator.out_of_order = {}
    BY DEF init_as_initiator, Fresh
  <2>2. /\ init_as_responder.dh_self = 1 /\ init_as_responder.contiguous = -1
        /\ init_as_responder.out_of_order = {}
    BY DEF init_as_responder, Fresh
  <2> QED BY <1>2, <2>1, <2>2
<1>4. HeaderInv(next_key, ratchet[p].dh_self, ratchet[p].sending_chain, sent[p])
  BY <1>1, <1>3 DEF HeaderInv
<1>5. Progress(ratchet[p], OnChain(ratchet[p], opened[p]))
  <2>1. OnChain(ratchet[p], opened[p]) = {}
    BY <1>1 DEF OnChain
  <2>2. \A i \in Nat : ~(i <= -1)
    OBVIOUS
  <2> QED BY <1>3, <2>1, <2>2 DEF Progress
<1> QED BY <1>1, <1>4, <1>5

LEMMA EncryptProgress ==
  ASSUME RatchetInv, ProgressInv, NEW p \in Parties, Encrypt(p)
  PROVE  ProgressInv'
<1> DEFINE r == ratchet[p]
           s == [r EXCEPT !.send_n = r.send_n + 1]
           m == [dh_pub |-> r.dh_self, pn |-> r.prev_chain_len, n |-> r.send_n,
                 chain |-> r.sending_chain]
<1>1. /\ ratchet' = [ratchet EXCEPT ![p] = s]
      /\ sent' = [sent EXCEPT ![p] = sent[p] \union {m}]
      /\ opened' = opened /\ next_key' = next_key
  BY DEF Encrypt
<1>2. TypeOK /\ r \in RatchetState /\ m.dh_pub = r.dh_self /\ m.chain = r.sending_chain
  BY DEF RatchetInv, TypeOK
<1>3. /\ s.dh_self = r.dh_self /\ s.sending_chain = r.sending_chain /\ s.dh_remote = r.dh_remote
      /\ s.contiguous = r.contiguous /\ s.out_of_order = r.out_of_order
  BY <1>2 DEF RatchetState
<1>4. HeaderInv(next_key, r.dh_self, r.sending_chain, sent[p] \union {m})
  BY <1>2 DEF ProgressInv, HeaderInv
<1> HIDE DEF s, m
<1>5. /\ ratchet'[p] = s /\ sent'[p] = sent[p] \union {m}
      /\ \A q \in Parties \ {p} : ratchet'[q] = ratchet[q] /\ sent'[q] = sent[q]
      /\ \A q \in Parties : sent[q] \subseteq sent'[q]
  BY <1>1, <1>2 DEF TypeOK
<1> SUFFICES ASSUME NEW q \in Parties
             PROVE  /\ opened'[q] \subseteq sent'[Peer(q)]
                    /\ HeaderInv(next_key', ratchet'[q].dh_self, ratchet'[q].sending_chain, sent'[q])
                    /\ Progress(ratchet'[q], OnChain(ratchet'[q], opened'[q]))
  BY DEF ProgressInv, HeaderInv, Progress, OnChain
<1>6. Peer(q) \in Parties
  BY DEF Peer, Parties
<1>7. opened'[q] \subseteq sent'[Peer(q)]
  BY <1>1, <1>5, <1>6 DEF ProgressInv
<1>8. HeaderInv(next_key', ratchet'[q].dh_self, ratchet'[q].sending_chain, sent'[q])
  <2>1. CASE q = p
    BY <1>1, <1>3, <1>4, <1>5, <2>1 DEF HeaderInv
  <2>2. CASE q # p
    BY <1>1, <1>5, <2>2 DEF ProgressInv, HeaderInv
  <2> QED BY <2>1, <2>2
<1>9. Progress(ratchet'[q], OnChain(ratchet'[q], opened'[q]))
  <2>1. SameProgress(ratchet[q], ratchet'[q])
    BY <1>3, <1>5 DEF SameProgress
  <2>2. Progress(ratchet[q], OnChain(ratchet[q], opened[q]))
    BY DEF ProgressInv
  <2> QED BY <1>1, <2>1, <2>2 DEF SameProgress, Progress, OnChain
<1> QED BY <1>7, <1>8, <1>9

(* Opening a message needs only to be right about the device that opens.   *)
LEMMA OpenFrame ==
  ASSUME RatchetInv, ProgressInv, NEW p \in Parties, NEW m \in sent[Peer(p)], NEW s,
         ratchet' = [ratchet EXCEPT ![p] = s],
         opened' = [opened EXCEPT ![p] = opened[p] \union {m}],
         sent' = sent, next_key' \in {next_key, next_key + 1},
         HeaderInv(next_key', s.dh_self, s.sending_chain, sent[p]),
         Progress(s, OnChain(s, opened[p] \union {m}))
  PROVE  ProgressInv'
<1>1. TypeOK
  BY DEF RatchetInv
<1>2. /\ ratchet'[p] = s /\ opened'[p] = opened[p] \union {m}
      /\ \A q \in Parties \ {p} : ratchet'[q] = ratchet[q] /\ opened'[q] = opened[q]
  BY <1>1 DEF TypeOK
<1>3. ASSUME NEW q \in Parties
      PROVE  HeaderInv(next_key', ratchet'[q].dh_self, ratchet'[q].sending_chain, sent'[q])
  <2>1. CASE q = p
    BY <1>2, <2>1
  <2>2. CASE q # p
    <3>1. HeaderInv(next_key, ratchet[q].dh_self, ratchet[q].sending_chain, sent[q])
      BY DEF ProgressInv
    <3>2. /\ next_key \in Nat /\ ratchet[q].dh_self \in Nat
          /\ \A o \in sent[q] : o.dh_pub \in Nat
      <4>1. next_key \in DhKeys /\ ratchet[q] \in RatchetState /\ sent[q] \subseteq Envelope
        BY <1>1 DEF TypeOK
      <4>2. \A k \in DhKeys : k \in Nat
        BY DEF DhKeys
      <4>3. ratchet[q].dh_self \in DhKeys /\ \A o \in sent[q] : o.dh_pub \in DhKeys
        BY <4>1 DEF RatchetState, Envelope
      <4> QED BY <4>1, <4>2, <4>3
    <3>3. \A k \in Nat : k < next_key => k < next_key'
      BY <3>2
    <3> QED BY <1>2, <2>2, <3>1, <3>2, <3>3 DEF HeaderInv
  <2> QED BY <2>1, <2>2
<1>4. ASSUME NEW q \in Parties PROVE opened'[q] \subseteq sent'[Peer(q)]
  BY <1>2 DEF ProgressInv
<1>5. ASSUME NEW q \in Parties PROVE Progress(ratchet'[q], OnChain(ratchet'[q], opened'[q]))
  BY <1>2 DEF ProgressInv
<1> QED BY <1>3, <1>4, <1>5 DEF ProgressInv, HeaderInv, Progress, OnChain

LEMMA OnChainGrows ==
  ASSUME NEW r, NEW done, NEW m
  PROVE  OnChain(r, done \union {m}) =
           IF m.dh_pub = r.dh_remote THEN OnChain(r, done) \union {m.n} ELSE OnChain(r, done)
BY DEF OnChain

LEMMA SameOnChain ==
  ASSUME NEW r, NEW s, NEW done, NEW indices, SameProgress(r, s)
  PROVE  /\ OnChain(s, done) = OnChain(r, done)
         /\ Progress(r, indices) => Progress(s, indices)
BY DEF SameProgress, OnChain, Progress

(* A message that counts on the peer's current chain is recorded.          *)
LEMMA RecordedOnChain ==
  ASSUME NEW e, WellFormed(e), NEW m \in Envelope, NEW done,
         m.dh_pub = e.dh_remote, Progress(e, OnChain(e, done))
  PROVE  Progress(Recorded(e, m.n), OnChain(Recorded(e, m.n), done \union {m}))
<1>1. m.n \in Nat
  BY DEF Envelope
<1>2. Progress(Recorded(e, m.n), OnChain(e, done) \union {m.n})
  BY <1>1, RecordedProgress
<1>3. Recorded(e, m.n).dh_remote = e.dh_remote
  BY <1>1, RecordedFrame DEF SameKeys
<1>4. OnChain(Recorded(e, m.n), done) = OnChain(e, done)
  BY <1>3 DEF OnChain
<1> QED BY <1>2, <1>3, <1>4, OnChainGrows

LEMMA OpenCachedProgress ==
  ASSUME RatchetInv, ProgressInv, NEW p \in Parties, NEW m \in sent[Peer(p)], OpenCached(p, m)
  PROVE  ProgressInv'
<1> DEFINE r == ratchet[p]
           t == KeyUsed(r, m)
           s == IF m.dh_pub = r.dh_remote THEN Recorded(t, m.n) ELSE t
<1>1. /\ r \in RatchetState /\ WellFormed(r) /\ TypeOK /\ m \in Envelope
  BY ArrivalTypes
<1>2. /\ ratchet' = [ratchet EXCEPT ![p] = s]
      /\ opened' = [opened EXCEPT ![p] = opened[p] \union {m}]
      /\ sent' = sent /\ next_key' = next_key
  BY DEF OpenCached
<1>3. WellFormed(t) /\ SameKeys(r, t) /\ SameProgress(r, t)
  <2>1. r.skipped \ Cached(r, m) \subseteq SkippedKey
    BY <1>1 DEF RatchetState
  <2> QED
    BY <1>1, <2>1 DEF KeyUsed, WellFormed, RatchetState, SameKeys, SameProgress
<1> HIDE DEF t
<1>4. s.dh_self = r.dh_self /\ s.sending_chain = r.sending_chain
  <2>1. m.n \in Nat
    BY <1>1 DEF Envelope
  <2>2. SameKeys(t, Recorded(t, m.n))
    BY <1>3, <2>1, RecordedFrame
  <2> QED BY <1>3, <2>2 DEF SameKeys
<1>5. /\ HeaderInv(next_key, r.dh_self, r.sending_chain, sent[p])
      /\ Progress(r, OnChain(r, opened[p]))
  BY DEF ProgressInv
<1>6. Progress(t, OnChain(t, opened[p]))
  BY <1>3, <1>5, SameOnChain
<1>7. Progress(s, OnChain(s, opened[p] \union {m}))
  <2>1. t.dh_remote = r.dh_remote
    BY <1>3 DEF SameKeys
  <2>2. CASE m.dh_pub = r.dh_remote
    BY <1>1, <1>3, <1>6, <2>1, <2>2, RecordedOnChain
  <2>3. CASE m.dh_pub # r.dh_remote
    BY <1>6, <2>1, <2>3, OnChainGrows
  <2> QED BY <2>2, <2>3
<1> HIDE DEF s
<1> QED BY <1>2, <1>4, <1>5, <1>7, OpenFrame

LEMMA OpenOnChainProgress ==
  ASSUME RatchetInv, ProgressInv, NEW p \in Parties, NEW m \in sent[Peer(p)], OpenOnChain(p, m)
  PROVE  ProgressInv'
<1> DEFINE r == ratchet[p]
           keys == SkippedKeys(m.dh_pub, r.receiving_chain, r.recv_n, m.n)
           ids == SkippedIds(m.dh_pub, r.recv_n, m.n)
<1>1. /\ r \in RatchetState /\ WellFormed(r) /\ TypeOK /\ m \in Envelope
  BY ArrivalTypes
<1>2. /\ OpensOnChain(r, m) /\ Commit(p, m, r, keys, ids)
      /\ sent' = sent /\ next_key' = next_key
  BY DEF OpenOnChain
<1>3. /\ m.dh_pub \in DhKeys /\ m.n \in Nat /\ r.recv_n \in Nat
      /\ r.receiving_chain \in Chains /\ m.dh_pub = r.dh_remote
  BY <1>1, <1>2 DEF Envelope, RatchetState, OpensOnChain
<1>4. keys \in SUBSET SkippedKey /\ ids \in Seq(DhKeys \X Nat)
  BY <1>3, SkippedTypes
<1>5. /\ HeaderInv(next_key, r.dh_self, r.sending_chain, sent[p])
      /\ Progress(r, OnChain(r, opened[p]))
  BY DEF ProgressInv
<1> HIDE DEF r, keys, ids
<1>6. PICK e : /\ WellFormed(e) /\ SameProgress(r, e)
               /\ e.dh_self = r.dh_self /\ e.sending_chain = r.sending_chain
               /\ ratchet' = [ratchet EXCEPT ![p] = Recorded(e, m.n)]
               /\ opened' = [opened EXCEPT ![p] = opened[p] \union {m}]
  BY <1>1, <1>2, <1>4, CommitRecords
<1> DEFINE s == Recorded(e, m.n)
<1>7. s.dh_self = r.dh_self /\ s.sending_chain = r.sending_chain
  BY <1>3, <1>6, RecordedFrame DEF SameKeys
<1>8. Progress(e, OnChain(e, opened[p])) /\ m.dh_pub = e.dh_remote
  BY <1>3, <1>5, <1>6, SameOnChain DEF SameProgress
<1>9. Progress(s, OnChain(s, opened[p] \union {m}))
  BY <1>1, <1>6, <1>8, RecordedOnChain
<1> HIDE DEF s
<1>10. ratchet' = [ratchet EXCEPT ![p] = s]
  BY <1>6 DEF s
<1> QED BY <1>2, <1>5, <1>6, <1>7, <1>9, <1>10, OpenFrame

(* After a DH step nothing has been opened on the new receiving chain: its *)
(* root is longer than that of any chain a message was opened on.          *)
LEMMA OpenAfterStepProgress ==
  ASSUME RatchetInv, ProgressInv, NEW p \in Parties, NEW m \in sent[Peer(p)],
         OpenAfterStep(p, m)
  PROVE  ProgressInv'
<1> DEFINE r == ratchet[p]
           t == Stepped(r, m.dh_pub, next_key)
           base == SteppedRoot(r, m.dh_pub)
           until == OldChainEnd(r, m)
           keys == SkippedKeys(r.dh_remote, r.receiving_chain, r.recv_n, until)
                     \union SkippedKeys(m.dh_pub, base, 0, m.n)
           ids == SkippedIds(r.dh_remote, r.recv_n, until) \o SkippedIds(m.dh_pub, 0, m.n)
<1>1. /\ r \in RatchetState /\ WellFormed(r) /\ ReceiveInv(r, opened[p])
      /\ TypeOK /\ m \in Envelope /\ Peer(p) \in Parties
  BY ArrivalTypes
<1>2. /\ OpensAfterStep(r, m) /\ Commit(p, m, t, keys, ids)
      /\ next_key' = next_key + 1 /\ sent' = sent
  BY DEF OpenAfterStep
<1>3. /\ m.dh_pub \in DhKeys /\ m.n \in Nat /\ m.pn \in Nat /\ r.recv_n \in Nat
      /\ next_key \in DhKeys /\ r.receiving_chain \in Chains /\ r.dh_remote \in Nat
      /\ m.chain = base /\ Len(r.root_key) \in Nat
  BY <1>1, <1>2 DEF Envelope, RatchetState, OpensAfterStep, TypeOK, Chains
<1>4. /\ WellFormed(t) /\ base \in Chains /\ Len(base) = Len(r.root_key) + 1
      /\ t.dh_remote = m.dh_pub
  BY <1>1, <1>3, SteppedFrame
<1>5. t.dh_self = next_key /\ t.contiguous = -1 /\ t.out_of_order = {}
  BY <1>1 DEF Stepped, RatchetState
<1>6. HeaderInv(next_key, r.dh_self, r.sending_chain, sent[p])
  BY DEF ProgressInv
<1> HIDE DEF t, base
<1>7. keys \in SUBSET SkippedKey /\ ids \in Seq(DhKeys \X Nat)
  <2>1. /\ SkippedKeys(m.dh_pub, base, 0, m.n) \in SUBSET SkippedKey
        /\ SkippedIds(m.dh_pub, 0, m.n) \in Seq(DhKeys \X Nat)
    <3>1. \A from \in Nat : /\ SkippedKeys(m.dh_pub, base, from, m.n) \in SUBSET SkippedKey
                            /\ SkippedIds(m.dh_pub, from, m.n) \in Seq(DhKeys \X Nat)
      BY <1>3, <1>4, SkippedTypes
    <3> QED
      BY <3>1
  <2>2. /\ SkippedKeys(r.dh_remote, r.receiving_chain, r.recv_n, until) \in SUBSET SkippedKey
        /\ SkippedIds(r.dh_remote, r.recv_n, until) \in Seq(DhKeys \X Nat)
    <3>1. CASE r.receiving_chain = NoChain
      <4>1. until = r.recv_n
        BY <3>1 DEF OldChainEnd
      <4> QED
        BY <1>3, <4>1 DEF SkippedKeys, SkippedIds
    <3>2. CASE r.receiving_chain # NoChain
      <4>1. until \in Nat /\ r.dh_remote \in DhKeys
        BY <1>1, <1>3, <3>2 DEF OldChainEnd, WellFormed, DhKeys, NoKey
      <4> HIDE DEF until, r
      <4> QED
        BY <1>3, <4>1, SkippedTypes
    <3> QED
      BY <3>1, <3>2
  <2> HIDE DEF until, r
  <2> QED BY <2>1, <2>2
<1>8. OnChain(t, opened[p]) = {}
  <2> SUFFICES ASSUME NEW o \in opened[p], o.dh_pub = m.dh_pub PROVE FALSE
    BY <1>4 DEF OnChain
  <2>1. o \in sent[Peer(p)] /\ Len(o.chain) < Len(r.root_key)
    BY <1>1 DEF ProgressInv, ReceiveInv
  <2>2. o.chain = m.chain
    BY <1>1, <2>1 DEF ProgressInv, HeaderInv
  <2>3. Len(base) < Len(r.root_key)
    BY <1>3, <2>1, <2>2
  <2> HIDE DEF r
  <2> QED BY <1>3, <1>4, <2>3
<1>9. Progress(t, OnChain(t, opened[p]))
  <2>1. \A i \in Nat : ~(i <= -1)
    OBVIOUS
  <2> QED BY <1>5, <1>8, <2>1 DEF Progress
<1> HIDE DEF r, keys, ids
<1>10. PICK e : /\ WellFormed(e) /\ SameProgress(t, e)
                /\ e.dh_self = t.dh_self /\ e.sending_chain = t.sending_chain
                /\ ratchet' = [ratchet EXCEPT ![p] = Recorded(e, m.n)]
                /\ opened' = [opened EXCEPT ![p] = opened[p] \union {m}]
  BY <1>1, <1>2, <1>4, <1>7, CommitRecords
<1> DEFINE s == Recorded(e, m.n)
<1>11. s.dh_self = next_key
  BY <1>3, <1>5, <1>10, RecordedFrame DEF SameKeys
<1>12. Progress(e, OnChain(e, opened[p])) /\ m.dh_pub = e.dh_remote
  BY <1>4, <1>9, <1>10, SameOnChain DEF SameProgress
<1>13. Progress(s, OnChain(s, opened[p] \union {m}))
  BY <1>1, <1>10, <1>12, RecordedOnChain
<1> HIDE DEF s
<1>14. ratchet' = [ratchet EXCEPT ![p] = s]
  BY <1>10 DEF s
<1>15. HeaderInv(next_key', s.dh_self, s.sending_chain, sent[p])
  <2>1. next_key \in Nat /\ \A o \in sent[p] : o.dh_pub \in Nat /\ o.dh_pub < next_key
    BY <1>1, <1>6 DEF HeaderInv, TypeOK, Envelope, DhKeys
  <2>2. /\ next_key < next_key'
        /\ \A o \in sent[p] : o.dh_pub < next_key' /\ o.dh_pub # next_key
    BY <1>2, <2>1
  <2> QED BY <1>6, <1>11, <2>2 DEF HeaderInv
<1> QED BY <1>2, <1>10, <1>13, <1>14, <1>15, OpenFrame

LEMMA ProgressKept == RatchetInv /\ ProgressInv /\ [Next]_vars => ProgressInv'
<1> SUFFICES ASSUME RatchetInv, ProgressInv, [Next]_vars PROVE ProgressInv'
  OBVIOUS
<1>1. ASSUME NEW p \in Parties, Encrypt(p) PROVE ProgressInv'
  BY <1>1, EncryptProgress
<1>2. ASSUME NEW p \in Parties, NEW m \in sent[Peer(p)], Open(p, m) PROVE ProgressInv'
  BY <1>2, OpenCachedProgress, OpenOnChainProgress, OpenAfterStepProgress DEF Open
<1>3. CASE UNCHANGED vars
  BY <1>3 DEF vars, ProgressInv, HeaderInv, Progress, OnChain
<1> QED BY <1>1, <1>2, <1>3 DEF Next

(* A cumulative ack claims just what was decrypted: the frontier covers an *)
(* index when that message and every earlier one of the peer's current     *)
(* chain has been, and never one that was skipped (receiving_progress,     *)
(* record_content_delivered).                                              *)
THEOREM FrontierIsExact == Spec => []ProgressIsExact
<1>1. RatchetInv /\ ProgressInv /\ [Next]_vars => ProgressInv'
  BY ProgressKept
<1>2. RatchetInv /\ ProgressInv => ProgressIsExact
  <2> SUFFICES ASSUME RatchetInv, ProgressInv, NEW p \in Parties
               PROVE  LET c == ratchet[p].contiguous IN
                      /\ \A i \in 0..c : i \in OpenedOnCurrent(p)
                      /\ c + 1 \notin OpenedOnCurrent(p)
    BY DEF ProgressIsExact
  <2> DEFINE r == ratchet[p]
  <2>1. Progress(r, OnChain(r, opened[p])) /\ r.contiguous \in Nat \union {-1}
    BY DEF RatchetInv, ProgressInv, TypeOK, RatchetState, Indices
  <2>2. OnChain(r, opened[p]) = OpenedOnCurrent(p)
    BY DEF OnChain, OpenedOnCurrent
  <2> HIDE DEF r
  <2>3. \A i \in 0..r.contiguous : i \in OnChain(r, opened[p])
    BY <2>1 DEF Progress
  <2>4. r.contiguous + 1 \in Nat /\ ~(r.contiguous + 1 <= r.contiguous)
    BY <2>1
  <2>5. r.contiguous + 1 \notin OnChain(r, opened[p])
    BY <2>1, <2>4 DEF Progress
  <2> QED BY <2>2, <2>3, <2>5 DEF r
<1> QED
  BY <1>1, <1>2, ProgressInit, RatchetCorrect, PTL DEF Spec

-----------------------------------------------------------------------------
(* The cache. Its order lists the id of every cached key, oldest first;    *)
(* ids of used keys stay in it, and stand for none.                        *)
Id(k) == <<k.dh_pub, k.n>>
Older(k, l) == Len(k.chain) < Len(l.chain) \/ (k.chain = l.chain /\ k.n < l.n)
Listed(keys, order) == \A k \in keys : \E i \in DOMAIN order : order[i] = Id(k)
Sorted(keys, order) ==
  \A i, j \in DOMAIN order, k, l \in keys :
    i < j /\ order[i] = Id(k) /\ order[j] = Id(l) => Older(k, l)

(* What joining two orders gives: what each lists, in its order, where     *)
(* they share no id and the first holds the older keys.                    *)
LEMMA OrdersJoin ==
  ASSUME NEW S, NEW a \in Seq(S), NEW b \in Seq(S), NEW K, NEW L,
         Listed(K, a), Listed(L, b), Sorted(K, a), Sorted(L, b),
         \A k \in K, l \in L : Older(k, l),
         \A i \in DOMAIN a, j \in DOMAIN b : a[i] # b[j]
  PROVE  Listed(K \union L, a \o b) /\ Sorted(K \union L, a \o b)
<1>1. /\ a \o b \in Seq(S) /\ Len(a \o b) = Len(a) + Len(b)
      /\ \A i \in 1 .. (Len(a) + Len(b)) :
            (a \o b)[i] = IF i <= Len(a) THEN a[i] ELSE b[i - Len(a)]
  BY ConcatProperties
<1> DEFINE ab == a \o b
<1> HIDE DEF ab
<1>2. /\ DOMAIN a = 1 .. Len(a) /\ DOMAIN b = 1 .. Len(b) /\ DOMAIN ab = 1 .. (Len(a) + Len(b))
      /\ Len(a) \in Nat /\ Len(b) \in Nat
  BY <1>1 DEF ab
<1>3. \A i \in DOMAIN a : i \in DOMAIN ab /\ ab[i] = a[i]
  BY <1>1, <1>2 DEF ab
<1>4. \A j \in DOMAIN b : j + Len(a) \in DOMAIN ab /\ ab[j + Len(a)] = b[j]
  <2> TAKE j \in DOMAIN b
  <2>1. j + Len(a) \in 1 .. (Len(a) + Len(b)) /\ ~(j + Len(a) <= Len(a)) /\ (j + Len(a)) - Len(a) = j
    BY <1>2
  <2> QED
    BY <1>1, <1>2, <2>1 DEF ab
<1>5. \A i \in DOMAIN ab : \/ i \in DOMAIN a /\ ab[i] = a[i]
                           \/ i - Len(a) \in DOMAIN b /\ ab[i] = b[i - Len(a)] /\ i > Len(a)
  BY <1>1, <1>2 DEF ab
<1>6. Listed(K \union L, ab)
  BY <1>3, <1>4 DEF Listed
<1>7. ASSUME NEW i \in DOMAIN ab, NEW j \in DOMAIN ab, NEW k \in K \union L, NEW l \in K \union L,
             i < j, ab[i] = Id(k), ab[j] = Id(l)
      PROVE  Older(k, l)
  <2>1. i \in Nat /\ j \in Nat
    BY <1>2
  <2>2. CASE i \in DOMAIN a /\ ab[i] = a[i]
    <3>1. k \in K
      BY <1>7, <2>2 DEF Listed
    <3>2. CASE j \in DOMAIN a /\ ab[j] = a[j]
      <4>1. l \in K
        BY <1>7, <3>2 DEF Listed
      <4> QED
        BY <1>7, <2>2, <3>1, <3>2, <4>1 DEF Sorted
    <3>3. CASE j - Len(a) \in DOMAIN b /\ ab[j] = b[j - Len(a)]
      <4>1. l \in L
        BY <1>7, <3>3 DEF Listed
      <4> QED
        BY <3>1, <4>1
    <3> QED
      BY <1>5, <3>2, <3>3
  <2>3. CASE i - Len(a) \in DOMAIN b /\ ab[i] = b[i - Len(a)] /\ i > Len(a)
    <3>1. ~(j \in DOMAIN a)
      BY <1>2, <1>7, <2>1, <2>3
    <3>2. j - Len(a) \in DOMAIN b /\ ab[j] = b[j - Len(a)] /\ i - Len(a) < j - Len(a)
      BY <1>2, <1>5, <1>7, <2>1, <3>1
    <3>3. k \in L /\ l \in L
      BY <1>7, <2>3, <3>2 DEF Listed
    <3> QED
      BY <1>7, <2>3, <3>2, <3>3 DEF Sorted
  <2> QED
    BY <1>5, <2>2, <2>3
<1> QED
  BY <1>6, <1>7 DEF Sorted, ab

(* The keys and the order of a skip are in step.                           *)
LEMMA SkipIsOrdered ==
  ASSUME NEW dh, NEW chain, NEW from \in Nat, NEW until \in Nat
  PROVE  LET keys == SkippedKeys(dh, chain, from, until)
             ids == SkippedIds(dh, from, until)
         IN  /\ Listed(keys, ids) /\ Sorted(keys, ids) /\ IsFiniteSet(keys)
             /\ \A i \in DOMAIN ids : ids[i][1] = dh /\ ids[i][2] \in from .. (until - 1)
<1> DEFINE keys == SkippedKeys(dh, chain, from, until)
           ids == SkippedIds(dh, from, until)
           len == IF from < until THEN until - from ELSE 0
<1>1. /\ len \in Nat /\ DOMAIN ids = 1 .. len
      /\ \A i \in 1 .. len : ids[i] = <<dh, from + i - 1>>
  BY DEF SkippedIds
<1>2. \A k \in keys : k.dh_pub = dh /\ k.chain = chain /\ k.n \in from .. (until - 1)
  BY DEF SkippedKeys
<1>3. \A i \in 1 .. len : from + i - 1 \in from .. (until - 1)
  OBVIOUS
<1>4. \A n \in from .. (until - 1) : n - from + 1 \in 1 .. len /\ from + (n - from + 1) - 1 = n
  OBVIOUS
<1>f. IsFiniteSet(keys)
  <2> DEFINE all == from .. (until - 1)
             F == [i \in all |-> [dh_pub |-> dh, n |-> i, chain |-> chain]]
  <2>1. IsFiniteSet(all)
    BY FS_Interval
  <2>2. F \in Surjection(all, keys)
    BY DEF SkippedKeys, Surjection
  <2> HIDE DEF F, all, keys
  <2> QED
    BY <2>1, <2>2, FS_Surjection
<1> HIDE DEF keys, ids, len
<1>5. Listed(keys, ids)
  <2> SUFFICES ASSUME NEW k \in keys PROVE \E i \in DOMAIN ids : ids[i] = Id(k)
    BY DEF Listed
  <2>1. k.n - from + 1 \in DOMAIN ids /\ ids[k.n - from + 1] = <<dh, k.n>>
    BY <1>1, <1>2, <1>4
  <2> QED
    BY <1>2, <2>1 DEF Id
<1>6. Sorted(keys, ids)
  <2> SUFFICES ASSUME NEW i \in DOMAIN ids, NEW j \in DOMAIN ids, NEW k \in keys, NEW l \in keys,
                      i < j, ids[i] = Id(k), ids[j] = Id(l)
               PROVE  Older(k, l)
    BY DEF Sorted
  <2>1. k.n = from + i - 1 /\ l.n = from + j - 1 /\ i \in Nat /\ j \in Nat
    BY <1>1 DEF Id
  <2> QED
    BY <1>2, <2>1 DEF Older
<1>7. \A i \in DOMAIN ids : ids[i][1] = dh /\ ids[i][2] \in from .. (until - 1)
  <2> TAKE i \in DOMAIN ids
  <2>1. ids[i] = <<dh, from + i - 1>> /\ from + i - 1 \in from .. (until - 1)
    BY <1>1, <1>3
  <2> QED
    BY <2>1
<1> QED
  BY <1>5, <1>6, <1>7, <1>f DEF keys, ids

(* A set of indices closed downwards is a run from 0, as long as it is     *)
(* large.                                                                  *)
LEMMA LeadingRun ==
  ASSUME NEW n \in Nat, NEW S \in SUBSET (0 .. (n - 1)), \A i \in S, j \in 0 .. (n - 1) : j < i => j \in S
  PROVE  Cardinality(S) \in Nat /\ Cardinality(S) <= n /\ S = 0 .. (Cardinality(S) - 1)
<1> DEFINE c == Cardinality(S)
<1>1. IsFiniteSet(0 .. (n - 1)) /\ Cardinality(0 .. (n - 1)) = n
  BY FS_Interval
<1>2. IsFiniteSet(S) /\ c \in Nat /\ c <= n
  BY <1>1, FS_Subset, FS_CardinalityType
<1>3. S \subseteq 0 .. (c - 1)
  <2> SUFFICES ASSUME NEW i \in S PROVE i <= c - 1
    BY <1>2
  <2>1. 0 .. i \subseteq S
    <3> SUFFICES ASSUME NEW j \in 0 .. i PROVE j \in S
      OBVIOUS
    <3>1. j \in 0 .. (n - 1) /\ (j < i \/ j = i)
      OBVIOUS
    <3> QED
      BY <3>1
  <2>2. Cardinality(0 .. i) = i + 1 /\ Cardinality(0 .. i) <= c
    BY <1>2, <2>1, FS_Subset, FS_Interval
  <2> HIDE DEF c
  <2> QED
    BY <1>2, <2>2
<1>4. IsFiniteSet(0 .. (c - 1)) /\ Cardinality(0 .. (c - 1)) = c
  <2> HIDE DEF c
  <2> QED
    BY <1>2, FS_Interval
<1> QED
  BY <1>2, <1>3, <1>4, FS_Subset

(* Eviction brings the cache under its cap, and what it gives up is older  *)
(* than what it keeps.                                                     *)
LEMMA EvictionIsOldest ==
  ASSUME NEW r, WellFormed(r), IsFiniteSet(r.skipped),
         Listed(r.skipped, r.skipped_order), Sorted(r.skipped, r.skipped_order)
  PROVE  LET e == Evicted(r) IN
         /\ e.skipped \subseteq r.skipped
         /\ IsFiniteSet(e.skipped) /\ Cardinality(e.skipped) <= Cap
         /\ Listed(e.skipped, e.skipped_order) /\ Sorted(e.skipped, e.skipped_order)
         /\ \A k \in r.skipped \ e.skipped, l \in e.skipped : Older(k, l)
         /\ \A i \in DOMAIN e.skipped_order :
              \E j \in DOMAIN r.skipped_order : e.skipped_order[i] = r.skipped_order[j]
<1> DEFINE order == r.skipped_order
           n == Len(order)
           over == {i \in 0 .. (n - 1) : Cardinality(LeftAfter(r, i)) > Cap}
           c == Pops(r)
           left == LeftAfter(r, c)
           rest == SubSeq(order, c + 1, n)
           e == Evicted(r)
<1>1. order \in Seq(DhKeys \X Nat) /\ n \in Nat /\ DOMAIN order = 1 .. n /\ Cap \in Nat
  <2>1. order \in Seq(DhKeys \X Nat)
    BY DEF WellFormed, RatchetState
  <2>2. Cap \in Nat
    BY BoundsType DEF Cap
  <2> QED
    BY <2>1, <2>2
<1>2. \A i \in Nat : IsFiniteSet(LeftAfter(r, i)) /\ Cardinality(LeftAfter(r, i)) \in Nat
  <2> TAKE i \in Nat
  <2>1. LeftAfter(r, i) \subseteq r.skipped
    BY DEF LeftAfter
  <2> QED
    BY <2>1, FS_Subset, FS_CardinalityType
<1>3. ASSUME NEW i \in Nat, NEW j \in Nat, j <= i
      PROVE  Cardinality(LeftAfter(r, i)) <= Cardinality(LeftAfter(r, j))
  <2>1. 1 .. j \subseteq 1 .. i
    BY <1>3
  <2>2. LeftAfter(r, i) \subseteq LeftAfter(r, j)
    BY <2>1 DEF LeftAfter
  <2> QED
    BY <1>2, <2>2, FS_Subset
<1>4. c \in Nat /\ c <= n /\ over = 0 .. (c - 1)
  <2>1. \A i \in over, j \in 0 .. (n - 1) : j < i => j \in over
    <3> SUFFICES ASSUME NEW i \in over, NEW j \in 0 .. (n - 1), j < i PROVE j \in over
      OBVIOUS
    <3>1. i \in Nat /\ j \in Nat /\ j <= i
      BY <1>1
    <3>2. /\ Cardinality(LeftAfter(r, i)) <= Cardinality(LeftAfter(r, j))
          /\ Cardinality(LeftAfter(r, i)) \in Nat /\ Cardinality(LeftAfter(r, j)) \in Nat
          /\ Cardinality(LeftAfter(r, i)) > Cap
      BY <1>2, <1>3, <3>1
    <3> HIDE DEF n
    <3> QED
      BY <1>1, <3>2
  <2>2. over \in SUBSET (0 .. (n - 1))
    OBVIOUS
  <2>3. c = Cardinality(over)
    BY DEF Pops
  <2> HIDE DEF over, n
  <2> QED
    BY <1>1, <2>1, <2>2, <2>3, LeadingRun
<1>5. e.skipped = left /\ e.skipped_order = rest
  BY DEF Evicted, WellFormed, RatchetState
<1>6. left = {k \in r.skipped : \A i \in 1 .. c : Id(k) # order[i]}
  BY DEF LeftAfter, Id
<1>7. IsFiniteSet(left) /\ Cardinality(left) <= Cap
  <2>1. IsFiniteSet(left) /\ Cardinality(left) \in Nat
    BY <1>2, <1>4
  <2>2. CASE c < n
    <3>1. c \in 0 .. (n - 1) /\ c \notin over
      <4> HIDE DEF over, n, c
      <4> QED
        BY <1>1, <1>4, <2>2
    <3> QED
      BY <1>1, <2>1, <3>1
  <2>3. CASE ~(c < n)
    <3>1. c = n
      <4> HIDE DEF over, n, c
      <4> QED
        BY <1>1, <1>4, <2>3
    <3>2. left = {}
      <4> HIDE DEF left, c
      <4> QED
        BY <1>1, <1>6, <3>1 DEF Listed
    <3> QED
      BY <1>1, <3>2, FS_EmptySet
  <2> QED
    BY <2>1, <2>2, <2>3
<1>8. /\ DOMAIN rest = 1 .. (n - c)
      /\ \A i \in 1 .. (n - c) : rest[i] = order[i + c] /\ i + c \in DOMAIN order
  <2> HIDE DEF c
  <2>1. rest = [i \in 1 .. (n - c) |-> order[c + 1 + i - 1]]
    BY <1>1, <1>4
  <2> HIDE DEF rest, n
  <2>2. \A i \in 1 .. (n - c) : (c + 1) + i - 1 = i + c /\ i + c \in 1 .. n
    BY <1>1, <1>4
  <2> QED
    BY <1>1, <2>1, <2>2
<1> HIDE DEF left, rest, over, c, n, e
<1>9. left \subseteq r.skipped
  BY <1>6
<1>10. Listed(left, rest)
  <2> SUFFICES ASSUME NEW k \in left PROVE \E i \in DOMAIN rest : rest[i] = Id(k)
    BY DEF Listed
  <2>1. PICK j \in DOMAIN order : order[j] = Id(k)
    BY <1>9 DEF Listed
  <2>2. j \in 1 .. n /\ j \notin 1 .. c
    BY <1>1, <1>6, <2>1
  <2>3. j - c \in 1 .. (n - c) /\ (j - c) + c = j
    BY <1>1, <1>4, <2>2
  <2> QED
    BY <1>8, <2>1, <2>3
<1>11. Sorted(left, rest)
  <2> SUFFICES ASSUME NEW i \in DOMAIN rest, NEW j \in DOMAIN rest, NEW k \in left, NEW l \in left,
                      i < j, rest[i] = Id(k), rest[j] = Id(l)
               PROVE  Older(k, l)
    BY DEF Sorted
  <2>1. i + c \in DOMAIN order /\ j + c \in DOMAIN order /\ i + c < j + c
        /\ order[i + c] = Id(k) /\ order[j + c] = Id(l)
    <3>1. i \in 1 .. (n - c) /\ j \in 1 .. (n - c) /\ i \in Nat /\ j \in Nat
      BY <1>1, <1>4, <1>8
    <3>2. rest[i] = order[i + c] /\ rest[j] = order[j + c]
          /\ i + c \in DOMAIN order /\ j + c \in DOMAIN order
      BY <1>8, <3>1
    <3>3. i + c < j + c
      BY <1>4, <3>1
    <3> QED
      BY <3>2, <3>3
  <2> QED
    BY <1>9, <2>1 DEF Sorted
<1>12. \A k \in r.skipped \ left, l \in left : Older(k, l)
  <2> SUFFICES ASSUME NEW k \in r.skipped \ left, NEW l \in left PROVE Older(k, l)
    OBVIOUS
  <2>1. PICK i \in 1 .. c : Id(k) = order[i]
    BY <1>6
  <2>2. PICK j \in 1 .. (n - c) : rest[j] = Id(l)
    BY <1>8, <1>10 DEF Listed
  <2>3. /\ i \in DOMAIN order /\ j + c \in DOMAIN order /\ i < j + c
        /\ order[i] = Id(k) /\ order[j + c] = Id(l)
    <3>1. i \in Nat /\ j \in Nat /\ i < j + c /\ i \in 1 .. n
      BY <1>1, <1>4
    <3>2. rest[j] = order[j + c] /\ j + c \in DOMAIN order
      BY <1>8
    <3> QED
      BY <1>1, <2>1, <2>2, <3>1, <3>2
  <2> QED
    BY <1>9, <2>3 DEF Sorted
<1>13. \A i \in DOMAIN rest : \E j \in DOMAIN order : rest[i] = order[j]
  BY <1>8
<1> QED
  BY <1>5, <1>7, <1>9, <1>10, <1>11, <1>12, <1>13 DEF e

(* The cache r beside what it has given up: in order, on the receiving     *)
(* chain before recv_n or on earlier chains, and each key and id under the *)
(* DH key of a message the peer has sent (out).                            *)
Reached(r, k) ==
  \/ Len(k.chain) < Len(r.receiving_chain)
  \/ k.chain = r.receiving_chain /\ k.n < r.recv_n
KnownId(r, id, out) ==
  /\ r.receiving_chain # NoChain /\ id[1] = r.dh_remote => id[2] < r.recv_n
  /\ \E o \in out : o.dh_pub = id[1] /\ Len(o.chain) < Len(r.root_key)
Ordered(r, given, out) ==
  /\ IsFiniteSet(r.skipped)
  /\ Listed(r.skipped, r.skipped_order) /\ Sorted(r.skipped, r.skipped_order)
  /\ \A e \in given, k \in r.skipped : Older(e, k)
  /\ r.receiving_chain = NoChain => r.skipped = {} /\ given = {}
  /\ \A k \in r.skipped \union given : Reached(r, k)
  /\ \A i \in DOMAIN r.skipped_order : KnownId(r, r.skipped_order[i], out)
  /\ r.receiving_chain # NoChain =>
       \E o \in out : o.dh_pub = r.dh_remote /\ o.chain = r.receiving_chain
  /\ \A k \in r.skipped : \E o \in out : o.dh_pub = k.dh_pub /\ o.chain = k.chain
CacheInv(r, given, out) == Ordered(r, given, out) /\ Cardinality(r.skipped) <= Cap

LEMMA EvictedOrdered ==
  ASSUME NEW r, WellFormed(r), NEW given, NEW out, Ordered(r, given, out)
  PROVE  CacheInv(Evicted(r), given \union (r.skipped \ Evicted(r).skipped), out)
<1> DEFINE e == Evicted(r)
           gone == given \union (r.skipped \ e.skipped)
<1>1. /\ IsFiniteSet(r.skipped) /\ Listed(r.skipped, r.skipped_order)
      /\ Sorted(r.skipped, r.skipped_order)
  BY DEF Ordered
<1>2. /\ e.skipped \subseteq r.skipped
      /\ IsFiniteSet(e.skipped) /\ Cardinality(e.skipped) <= Cap
      /\ Listed(e.skipped, e.skipped_order) /\ Sorted(e.skipped, e.skipped_order)
      /\ \A k \in r.skipped \ e.skipped, l \in e.skipped : Older(k, l)
      /\ \A i \in DOMAIN e.skipped_order :
           \E j \in DOMAIN r.skipped_order : e.skipped_order[i] = r.skipped_order[j]
  BY <1>1, EvictionIsOldest
<1>3. SameKeys(r, e)
  BY EvictedFrame
<1> HIDE DEF e
<1>4. /\ e.receiving_chain = r.receiving_chain /\ e.recv_n = r.recv_n /\ e.dh_remote = r.dh_remote
      /\ e.root_key = r.root_key
  BY <1>3 DEF SameKeys
<1>5. \A k \in gone, l \in e.skipped : Older(k, l)
  BY <1>2 DEF Ordered
<1>6. \A k \in e.skipped \union gone : Reached(e, k)
  BY <1>2, <1>4 DEF Ordered, Reached
<1>7. \A i \in DOMAIN e.skipped_order : KnownId(e, e.skipped_order[i], out)
  <2> TAKE i \in DOMAIN e.skipped_order
  <2>1. PICK j \in DOMAIN r.skipped_order : e.skipped_order[i] = r.skipped_order[j]
    BY <1>2
  <2>2. KnownId(r, r.skipped_order[j], out)
    BY DEF Ordered
  <2> QED
    BY <1>4, <2>1, <2>2 DEF KnownId
<1>8. /\ e.receiving_chain = NoChain => e.skipped = {} /\ gone = {}
      /\ e.receiving_chain # NoChain =>
           \E o \in out : o.dh_pub = e.dh_remote /\ o.chain = e.receiving_chain
      /\ \A k \in e.skipped : \E o \in out : o.dh_pub = k.dh_pub /\ o.chain = k.chain
  BY <1>2, <1>4 DEF Ordered
<1>9. Ordered(e, gone, out)
  BY <1>2, <1>5, <1>6, <1>7, <1>8 DEF Ordered
<1> QED
  BY <1>2, <1>9 DEF CacheInv, e

LEMMA RecordedKeepsOrder ==
  ASSUME NEW r, r \in RatchetState, NEW n \in Nat
  PROVE  Recorded(r, n).skipped_order = r.skipped_order
BY DEF Recorded, RatchetState

(* Using a key, or learning of more messages, leaves a cache in order.     *)
LEMMA CacheShrinks ==
  ASSUME NEW r, NEW s, NEW given, NEW out, NEW more, CacheInv(r, given, out), out \subseteq more,
         s.receiving_chain = r.receiving_chain, s.recv_n = r.recv_n, s.dh_remote = r.dh_remote,
         s.root_key = r.root_key, s.skipped \subseteq r.skipped, s.skipped_order = r.skipped_order
  PROVE  CacheInv(s, given, more)
<1>1. \A i \in DOMAIN s.skipped_order : KnownId(s, s.skipped_order[i], more)
  BY DEF CacheInv, Ordered, KnownId
<1>2. \A k \in s.skipped \union given : Reached(s, k)
  BY DEF CacheInv, Ordered, Reached
<1>3. Listed(s.skipped, s.skipped_order) /\ Sorted(s.skipped, s.skipped_order)
  BY DEF CacheInv, Ordered, Listed, Sorted
<1>4. /\ IsFiniteSet(s.skipped) /\ Cardinality(s.skipped) \in Nat /\ Cardinality(r.skipped) \in Nat
      /\ Cardinality(s.skipped) <= Cardinality(r.skipped) /\ Cardinality(r.skipped) <= Cap
  BY FS_Subset, FS_CardinalityType DEF CacheInv, Ordered
<1>5. Cap \in Nat
  BY BoundsType DEF Cap
<1>6. Cardinality(s.skipped) <= Cap
  BY <1>4, <1>5
<1>7. Ordered(s, given, more)
  BY <1>1, <1>2, <1>3, <1>4 DEF CacheInv, Ordered
<1> QED
  BY <1>6, <1>7 DEF CacheInv

(* The state with keys and ids added to the cache for a message of index n.*)
Extended(r, keys, ids, n) ==
  [r EXCEPT !.recv_n = n + 1, !.skipped = r.skipped \union keys,
            !.skipped_order = r.skipped_order \o ids]

(* A commit whose keys, before eviction, are in order.                     *)
LEMMA CommitCaches ==
  ASSUME NEW p \in Parties, NEW m \in Envelope, NEW stepped, WellFormed(stepped),
         NEW keys \in SUBSET SkippedKey, NEW ids \in Seq(DhKeys \X Nat), NEW out,
         ratchet \in [Parties -> RatchetState],
         evicted \in [Parties -> SUBSET SkippedKey], Commit(p, m, stepped, keys, ids),
         Ordered(Extended(stepped, keys, ids, m.n), evicted[p], out)
  PROVE  /\ \A q \in Parties \ {p} : ratchet'[q] = ratchet[q] /\ evicted'[q] = evicted[q]
         /\ CacheInv(ratchet'[p], evicted'[p], out)
         /\ ratchet'[p].skipped \union evicted'[p] = stepped.skipped \union keys \union evicted[p]
         /\ SameKeys(Extended(stepped, keys, ids, m.n), ratchet'[p])
<1> DEFINE skipped == stepped.skipped \union keys
           order == stepped.skipped_order \o ids
           full == [stepped EXCEPT !.recv_n = m.n + 1, !.skipped = skipped,
                                   !.skipped_order = order]
           s == Recorded(Evicted(full), m.n)
           gone == evicted[p] \union (full.skipped \ Evicted(full).skipped)
<1>1. stepped \in RatchetState /\ skipped \subseteq SkippedKey
      /\ order \in Seq(DhKeys \X Nat) /\ m.n \in Nat /\ m.n + 1 \in Nat
  BY DEF WellFormed, RatchetState, Envelope
<1>2. ratchet' = [ratchet EXCEPT ![p] = s] /\ evicted' = [evicted EXCEPT ![p] = gone]
  BY DEF Commit
<1>3. Ordered(full, evicted[p], out)
  BY DEF Extended
<1> HIDE DEF skipped, order
<1>4. full \in RatchetState
  BY <1>1 DEF RatchetState
<1>5. /\ full.skipped = skipped /\ full = Extended(stepped, keys, ids, m.n)
      /\ full.out_of_order = stepped.out_of_order
  <2>1. full = Extended(stepped, keys, ids, m.n)
    BY DEF Extended, skipped, order
  <2>2. full.skipped = skipped /\ full.out_of_order = stepped.out_of_order
    BY <1>1 DEF RatchetState
  <2> QED
    BY <2>1, <2>2
<1>6. full.dh_remote = stepped.dh_remote /\ full.receiving_chain = stepped.receiving_chain
  BY <1>1 DEF RatchetState
<1> HIDE DEF full
<1>7. WellFormed(full)
  BY <1>4, <1>5, <1>6 DEF WellFormed
<1>8. WellFormed(Evicted(full)) /\ SameKeys(full, Evicted(full)) /\ Evicted(full).skipped \subseteq full.skipped
  BY <1>7, EvictedFrame
<1>9. CacheInv(Evicted(full), gone, out)
  BY <1>3, <1>7, EvictedOrdered
<1>10. SameKeys(Evicted(full), s) /\ s.skipped = Evicted(full).skipped
       /\ s.skipped_order = Evicted(full).skipped_order
  BY <1>1, <1>8, RecordedFrame, RecordedKeepsOrder DEF WellFormed
<1> HIDE DEF s
<1>11. CacheInv(s, gone, out)
  BY <1>9, <1>10, CacheShrinks DEF SameKeys
<1>12. s.skipped \union gone = skipped \union evicted[p]
  BY <1>5, <1>8, <1>10
<1> HIDE DEF gone
<1>13. ratchet'[p] = s /\ evicted'[p] = gone
       /\ \A q \in Parties \ {p} : ratchet'[q] = ratchet[q] /\ evicted'[q] = evicted[q]
  BY <1>2
<1>14. SameKeys(Extended(stepped, keys, ids, m.n), s)
  BY <1>5, <1>8, <1>10 DEF SameKeys
<1> QED
  BY <1>11, <1>12, <1>13, <1>14 DEF skipped

LEMMA JoinedIds ==
  ASSUME NEW S, NEW a \in Seq(S), NEW b \in Seq(S), NEW i \in DOMAIN (a \o b)
  PROVE  \/ \E j \in DOMAIN a : (a \o b)[i] = a[j]
         \/ \E j \in DOMAIN b : (a \o b)[i] = b[j]
<1>1. /\ a \o b \in Seq(S) /\ Len(a \o b) = Len(a) + Len(b)
      /\ \A k \in 1 .. (Len(a) + Len(b)) :
            (a \o b)[k] = IF k <= Len(a) THEN a[k] ELSE b[k - Len(a)]
  BY ConcatProperties
<1> DEFINE ab == a \o b
<1> HIDE DEF ab
<1>2. i \in 1 .. (Len(a) + Len(b)) /\ Len(a) \in Nat /\ Len(b) \in Nat
      /\ DOMAIN a = 1 .. Len(a) /\ DOMAIN b = 1 .. Len(b)
  BY <1>1 DEF ab
<1>3. CASE i <= Len(a)
  BY <1>1, <1>2, <1>3 DEF ab
<1>4. CASE ~(i <= Len(a))
  <2>1. i - Len(a) \in DOMAIN b
    BY <1>2, <1>4
  <2> QED
    BY <1>1, <1>2, <1>4, <2>1 DEF ab
<1> QED
  BY <1>3, <1>4 DEF ab

LEMMA OnChainOrdered ==
  ASSUME NEW r, WellFormed(r), NEW given \in SUBSET SkippedKey, NEW out \in SUBSET Envelope,
         NEW m \in out, NEW done,
         ReceiveInv(r, done), Ordered(r, given, out), OpensOnChain(r, m)
  PROVE  Ordered(Extended(r, SkippedKeys(m.dh_pub, r.receiving_chain, r.recv_n, m.n),
                              SkippedIds(m.dh_pub, r.recv_n, m.n), m.n),
                 given, out)
<1> DEFINE keys == SkippedKeys(m.dh_pub, r.receiving_chain, r.recv_n, m.n)
           ids == SkippedIds(m.dh_pub, r.recv_n, m.n)
           skipped == r.skipped \union keys
           order == r.skipped_order \o ids
           full == [r EXCEPT !.recv_n = m.n + 1, !.skipped = skipped, !.skipped_order = order]
<1>1. /\ m.n \in Nat /\ r.recv_n \in Nat /\ m.n >= r.recv_n /\ m.dh_pub = r.dh_remote
      /\ r.receiving_chain # NoChain /\ m.chain = r.receiving_chain /\ r \in RatchetState
      /\ m.dh_pub \in DhKeys /\ r.receiving_chain \in Chains
      /\ r.skipped_order \in Seq(DhKeys \X Nat) /\ r.skipped \subseteq SkippedKey
  BY DEF WellFormed, RatchetState, Envelope, OpensOnChain
<1>2. keys \in SUBSET SkippedKey /\ ids \in Seq(DhKeys \X Nat)
  BY <1>1, SkippedTypes
<1>3. /\ Listed(keys, ids) /\ Sorted(keys, ids) /\ IsFiniteSet(keys)
      /\ \A i \in DOMAIN ids : ids[i][1] = m.dh_pub /\ ids[i][2] \in r.recv_n .. (m.n - 1)
  BY <1>1, SkipIsOrdered
<1>4. \A k \in keys : /\ k.chain = r.receiving_chain /\ k.dh_pub = r.dh_remote
                      /\ r.recv_n <= k.n /\ k.n < m.n
  BY <1>1 DEF SkippedKeys
<1>5. full.skipped = skipped /\ full.skipped_order = order /\ full.recv_n = m.n + 1
      /\ full.receiving_chain = r.receiving_chain /\ full.dh_remote = r.dh_remote
      /\ full.root_key = r.root_key
  BY <1>1 DEF RatchetState
<1> HIDE DEF keys, ids, full
<1>6. \A k \in r.skipped \union given, l \in keys : Older(k, l)
  <2> SUFFICES ASSUME NEW k \in r.skipped \union given, NEW l \in keys PROVE Older(k, l)
    OBVIOUS
  <2>1. Reached(r, k) /\ k.n \in Nat /\ l.n \in Nat
    BY <1>1, <1>2 DEF Ordered, SkippedKey
  <2> QED
    BY <1>1, <1>4, <2>1 DEF Reached, Older
<1>7. \A i \in DOMAIN r.skipped_order, j \in DOMAIN ids : r.skipped_order[i] # ids[j]
  <2> SUFFICES ASSUME NEW i \in DOMAIN r.skipped_order, NEW j \in DOMAIN ids,
                      r.skipped_order[i] = ids[j]
               PROVE  FALSE
    OBVIOUS
  <2>1. KnownId(r, ids[j], out)
    BY DEF Ordered
  <2> QED
    BY <1>1, <1>3, <2>1 DEF KnownId
<1>8. Listed(skipped, order) /\ Sorted(skipped, order)
  <2> DEFINE S == DhKeys \X Nat
  <2>1. r.skipped_order \in Seq(S) /\ ids \in Seq(S)
    BY <1>1, <1>2
  <2>2. Listed(r.skipped, r.skipped_order) /\ Sorted(r.skipped, r.skipped_order)
    BY DEF Ordered
  <2> HIDE DEF S
  <2> QED
    BY <1>3, <1>6, <1>7, <2>1, <2>2, OrdersJoin
<1>9. IsFiniteSet(skipped)
  BY <1>3, FS_Union DEF Ordered
<1>10. \A e \in given, k \in skipped : Older(e, k)
  BY <1>6 DEF Ordered
<1>11. \A k \in skipped \union given : Reached(full, k)
  <2> SUFFICES ASSUME NEW k \in skipped \union given PROVE Reached(full, k)
    OBVIOUS
  <2>1. k.n \in Nat
    BY <1>1, <1>2 DEF SkippedKey
  <2>2. CASE k \in keys
    BY <1>1, <1>4, <1>5, <2>1, <2>2 DEF Reached
  <2>3. CASE k \notin keys
    <3>1. Reached(r, k)
      BY <2>3 DEF Ordered
    <3> QED
      BY <1>1, <1>5, <2>1, <3>1 DEF Reached
  <2> QED
    BY <2>2, <2>3
<1>12. Len(r.receiving_chain) < Len(r.root_key)
  BY <1>1 DEF ReceiveInv
<1>13. \A i \in DOMAIN order : KnownId(full, order[i], out)
  <2> SUFFICES ASSUME NEW i \in DOMAIN order PROVE KnownId(full, order[i], out)
    OBVIOUS
  <2>1. CASE \E j \in DOMAIN r.skipped_order : order[i] = r.skipped_order[j]
    <3>1. PICK j \in DOMAIN r.skipped_order : order[i] = r.skipped_order[j]
      BY <2>1
    <3>2. KnownId(r, order[i], out)
      BY <3>1 DEF Ordered
    <3>3. order[i][2] \in Nat
      BY <1>1, <3>1
    <3> HIDE DEF order
    <3> QED
      BY <1>1, <1>5, <3>2, <3>3 DEF KnownId
  <2>2. CASE \E j \in DOMAIN ids : order[i] = ids[j]
    <3>1. order[i][1] = m.dh_pub /\ order[i][2] \in r.recv_n .. (m.n - 1)
      BY <1>3, <2>2
    <3> HIDE DEF order
    <3>2. order[i][2] < m.n + 1
      BY <1>1, <3>1
    <3> QED
      BY <1>1, <1>5, <1>12, <3>1, <3>2 DEF KnownId
  <2> DEFINE S == DhKeys \X Nat
  <2>3. r.skipped_order \in Seq(S) /\ ids \in Seq(S)
    BY <1>1, <1>2
  <2> HIDE DEF S
  <2> QED
    BY <2>1, <2>2, <2>3, JoinedIds
<1>14. \A k \in skipped : \E o \in out : o.dh_pub = k.dh_pub /\ o.chain = k.chain
  BY <1>1, <1>4 DEF Ordered
<1>15. \E o \in out : o.dh_pub = r.dh_remote /\ o.chain = r.receiving_chain
  BY <1>1
<1> HIDE DEF skipped, order
<1>16. Ordered(full, given, out)
  BY <1>1, <1>5, <1>8, <1>9, <1>10, <1>11, <1>13, <1>14, <1>15 DEF Ordered
<1> QED
  BY <1>16 DEF Extended, full, skipped, order, keys, ids

(* The keys a DH step caches: what is left of the old receiving chain, and *)
(* what the message skips of the new.                                      *)
LEMMA StepSkips ==
  ASSUME NEW r, WellFormed(r), NEW m \in Envelope,
         m.chain = SteppedRoot(r, m.dh_pub), m.dh_pub # r.dh_remote,
         r.receiving_chain # NoChain => Len(r.receiving_chain) < Len(r.root_key)
  PROVE  LET until == OldChainEnd(r, m)
             old == SkippedKeys(r.dh_remote, r.receiving_chain, r.recv_n, until)
             new == SkippedKeys(m.dh_pub, SteppedRoot(r, m.dh_pub), 0, m.n)
             keys == old \union new
             ids == SkippedIds(r.dh_remote, r.recv_n, until) \o SkippedIds(m.dh_pub, 0, m.n)
         IN  /\ keys \in SUBSET SkippedKey /\ ids \in Seq(DhKeys \X Nat)
             /\ Listed(keys, ids) /\ Sorted(keys, ids) /\ IsFiniteSet(keys)
             /\ \A k \in keys :
                  \/ /\ r.receiving_chain # NoChain /\ k.chain = r.receiving_chain
                     /\ k.dh_pub = r.dh_remote /\ r.recv_n <= k.n
                  \/ k.chain = m.chain /\ k.dh_pub = m.dh_pub /\ k.n < m.n
             /\ \A i \in DOMAIN ids :
                  \/ r.receiving_chain # NoChain /\ ids[i][1] = r.dh_remote /\ ids[i][2] >= r.recv_n
                  \/ ids[i][1] = m.dh_pub /\ ids[i][2] < m.n
<1> DEFINE until == OldChainEnd(r, m)
           base == SteppedRoot(r, m.dh_pub)
           old == SkippedKeys(r.dh_remote, r.receiving_chain, r.recv_n, until)
           new == SkippedKeys(m.dh_pub, base, 0, m.n)
           a == SkippedIds(r.dh_remote, r.recv_n, until)
           b == SkippedIds(m.dh_pub, 0, m.n)
           S == DhKeys \X Nat
<1>1. /\ m.dh_pub \in DhKeys /\ m.n \in Nat /\ m.pn \in Nat /\ r.recv_n \in Nat
      /\ r.receiving_chain \in Chains /\ r.dh_remote \in Nat /\ Len(r.root_key) \in Nat
      /\ 0 \in Nat /\ r \in RatchetState
  BY DEF WellFormed, RatchetState, Envelope, Chains
<1>2. base \in Chains /\ Len(base) = Len(r.root_key) + 1
  BY <1>1, SteppedFrame
<1> HIDE DEF base
<1>3. /\ new \in SUBSET SkippedKey /\ b \in Seq(S)
      /\ Listed(new, b) /\ Sorted(new, b) /\ IsFiniteSet(new)
      /\ \A j \in DOMAIN b : b[j][1] = m.dh_pub /\ b[j][2] \in 0 .. (m.n - 1)
      /\ \A k \in new : k.chain = base /\ k.dh_pub = m.dh_pub /\ k.n < m.n
  <2>1. \A from \in Nat :
          /\ SkippedKeys(m.dh_pub, base, from, m.n) \in SUBSET SkippedKey
          /\ SkippedIds(m.dh_pub, from, m.n) \in Seq(S)
    BY <1>1, <1>2, SkippedTypes
  <2>2. \A from \in Nat :
          LET keys == SkippedKeys(m.dh_pub, base, from, m.n)
              ids == SkippedIds(m.dh_pub, from, m.n)
          IN  /\ Listed(keys, ids) /\ Sorted(keys, ids) /\ IsFiniteSet(keys)
              /\ \A i \in DOMAIN ids : ids[i][1] = m.dh_pub /\ ids[i][2] \in from .. (m.n - 1)
    BY <1>1, SkipIsOrdered
  <2>3. \A k \in new : k.chain = base /\ k.dh_pub = m.dh_pub /\ k.n < m.n
    BY <1>1 DEF SkippedKeys
  <2> HIDE DEF S
  <2> QED
    BY <1>1, <2>1, <2>2, <2>3
<1>4. /\ old \in SUBSET SkippedKey /\ a \in Seq(S)
      /\ Listed(old, a) /\ Sorted(old, a) /\ IsFiniteSet(old)
      /\ \A j \in DOMAIN a : r.receiving_chain # NoChain /\ a[j][1] = r.dh_remote /\ a[j][2] >= r.recv_n
      /\ \A k \in old : /\ r.receiving_chain # NoChain /\ k.chain = r.receiving_chain
                        /\ k.dh_pub = r.dh_remote /\ r.recv_n <= k.n
  <2>1. CASE r.receiving_chain = NoChain
    <3>1. until = r.recv_n
      BY <2>1 DEF OldChainEnd
    <3>2. old = {} /\ a = << >>
      BY <1>1, <3>1 DEF SkippedKeys, SkippedIds
    <3> QED
      BY <3>2, FS_EmptySet DEF Listed, Sorted
  <2>2. CASE r.receiving_chain # NoChain
    <3>1. until \in Nat /\ r.dh_remote \in DhKeys
      BY <1>1, <2>2 DEF OldChainEnd, WellFormed, DhKeys, NoKey
    <3> HIDE DEF until
    <3>2. old \in SUBSET SkippedKey /\ a \in Seq(S)
      BY <1>1, <3>1, SkippedTypes
    <3>3. /\ Listed(old, a) /\ Sorted(old, a) /\ IsFiniteSet(old)
          /\ \A j \in DOMAIN a : a[j][1] = r.dh_remote /\ a[j][2] \in r.recv_n .. (until - 1)
      BY <1>1, <3>1, SkipIsOrdered
    <3>4. \A j \in DOMAIN a : a[j][2] >= r.recv_n
      BY <1>1, <3>1, <3>3
    <3>5. \A k \in old : k.chain = r.receiving_chain /\ k.dh_pub = r.dh_remote /\ r.recv_n <= k.n
      BY <1>1, <3>1 DEF SkippedKeys
    <3> HIDE DEF S, old, a
    <3> QED
      BY <2>2, <3>2, <3>3, <3>4, <3>5
  <2> QED
    BY <2>1, <2>2
<1> HIDE DEF old, new, a, b, until, S
<1>5. \A k \in old, l \in new : Older(k, l)
  <2>1. \A k \in old : Len(k.chain) < Len(base)
    BY <1>1, <1>2, <1>4 DEF Chains
  <2> QED
    BY <1>3, <2>1 DEF Older
<1>6. \A i \in DOMAIN a, j \in DOMAIN b : a[i] # b[j]
  BY <1>3, <1>4
<1>7. Listed(old \union new, a \o b) /\ Sorted(old \union new, a \o b)
  BY <1>3, <1>4, <1>5, <1>6, OrdersJoin
<1>8. IsFiniteSet(old \union new) /\ old \union new \in SUBSET SkippedKey /\ a \o b \in Seq(S)
  BY <1>3, <1>4, FS_Union, ConcatProperties
<1>9. \A i \in DOMAIN (a \o b) :
        \/ r.receiving_chain # NoChain /\ (a \o b)[i][1] = r.dh_remote /\ (a \o b)[i][2] >= r.recv_n
        \/ (a \o b)[i][1] = m.dh_pub /\ (a \o b)[i][2] < m.n
  <2> TAKE i \in DOMAIN (a \o b)
  <2>1. (\E j \in DOMAIN a : (a \o b)[i] = a[j]) \/ (\E j \in DOMAIN b : (a \o b)[i] = b[j])
    BY <1>3, <1>4, JoinedIds
  <2>2. \A j \in DOMAIN b : b[j][2] < m.n
    BY <1>1, <1>3
  <2> DEFINE x == (a \o b)[i]
  <2> HIDE DEF x
  <2>3. (\E j \in DOMAIN a : x = a[j]) \/ (\E j \in DOMAIN b : x = b[j])
    BY <2>1 DEF x
  <2>4. \/ r.receiving_chain # NoChain /\ x[1] = r.dh_remote /\ x[2] >= r.recv_n
        \/ x[1] = m.dh_pub /\ x[2] < m.n
    BY <1>3, <1>4, <2>2, <2>3
  <2> QED
    BY <2>4 DEF x
<1>10. \A k \in old \union new :
         \/ /\ r.receiving_chain # NoChain /\ k.chain = r.receiving_chain
            /\ k.dh_pub = r.dh_remote /\ r.recv_n <= k.n
         \/ k.chain = m.chain /\ k.dh_pub = m.dh_pub /\ k.n < m.n
  BY <1>3, <1>4 DEF base
<1> QED
  BY <1>7, <1>8, <1>9, <1>10 DEF old, new, a, b, until, base, S

(* A DH step leaves the cache in order: what it caches of the old chain    *)
(* comes after all that was cached or given up, and the new chain's after  *)
(* that.                                                                   *)
LEMMA StepOrdered ==
  ASSUME NEW r, WellFormed(r), NEW given \in SUBSET SkippedKey, NEW out \in SUBSET Envelope,
         NEW m \in out, NEW done, NEW new \in DhKeys,
         ReceiveInv(r, done), Ordered(r, given, out), OpensAfterStep(r, m),
         \A x, y \in out : x.dh_pub = y.dh_pub => x.chain = y.chain
  PROVE  LET until == OldChainEnd(r, m)
             keys == SkippedKeys(r.dh_remote, r.receiving_chain, r.recv_n, until)
                       \union SkippedKeys(m.dh_pub, SteppedRoot(r, m.dh_pub), 0, m.n)
             ids == SkippedIds(r.dh_remote, r.recv_n, until) \o SkippedIds(m.dh_pub, 0, m.n)
             stepped == Stepped(r, m.dh_pub, new)
         IN  Ordered(Extended(stepped, keys, ids, m.n), given, out)
<1> DEFINE until == OldChainEnd(r, m)
           base == SteppedRoot(r, m.dh_pub)
           keys == SkippedKeys(r.dh_remote, r.receiving_chain, r.recv_n, until)
                     \union SkippedKeys(m.dh_pub, base, 0, m.n)
           ids == SkippedIds(r.dh_remote, r.recv_n, until) \o SkippedIds(m.dh_pub, 0, m.n)
           stepped == Stepped(r, m.dh_pub, new)
           skipped == stepped.skipped \union keys
           order == stepped.skipped_order \o ids
           full == [stepped EXCEPT !.recv_n = m.n + 1, !.skipped = skipped, !.skipped_order = order]
<1>1. /\ m.n \in Nat /\ r.recv_n \in Nat /\ m.dh_pub \in DhKeys /\ r \in RatchetState
      /\ r.receiving_chain \in Chains /\ r.dh_remote \in Nat /\ Len(r.root_key) \in Nat
      /\ r.skipped_order \in Seq(DhKeys \X Nat) /\ r.skipped \subseteq SkippedKey
      /\ m.dh_pub # r.dh_remote /\ m.chain = base /\ m \in Envelope
  BY DEF WellFormed, RatchetState, Envelope, OpensAfterStep, Chains
<1>2. /\ WellFormed(stepped) /\ base \in Chains /\ base # NoChain /\ Len(base) = Len(r.root_key) + 1
      /\ Len(stepped.root_key) = Len(r.root_key) + 2 /\ stepped.receiving_chain = base
      /\ stepped.dh_remote = m.dh_pub /\ stepped.skipped = r.skipped
  BY <1>1, SteppedFrame
<1>3. stepped.skipped_order = r.skipped_order
  BY <1>1 DEF Stepped, RatchetState
<1>4. r.receiving_chain # NoChain => Len(r.receiving_chain) < Len(r.root_key)
  BY DEF ReceiveInv
<1>5. /\ keys \in SUBSET SkippedKey /\ ids \in Seq(DhKeys \X Nat)
      /\ Listed(keys, ids) /\ Sorted(keys, ids) /\ IsFiniteSet(keys)
      /\ \A k \in keys :
           \/ /\ r.receiving_chain # NoChain /\ k.chain = r.receiving_chain
              /\ k.dh_pub = r.dh_remote /\ r.recv_n <= k.n
           \/ k.chain = m.chain /\ k.dh_pub = m.dh_pub /\ k.n < m.n
      /\ \A i \in DOMAIN ids :
           \/ r.receiving_chain # NoChain /\ ids[i][1] = r.dh_remote /\ ids[i][2] >= r.recv_n
           \/ ids[i][1] = m.dh_pub /\ ids[i][2] < m.n
  BY <1>1, <1>4, StepSkips
<1> HIDE DEF until, base, keys, ids, stepped
<1>6. full.skipped = skipped /\ full.skipped_order = order /\ full.recv_n = m.n + 1
      /\ full.receiving_chain = base /\ full.dh_remote = m.dh_pub
      /\ full.root_key = stepped.root_key
  BY <1>2 DEF WellFormed, RatchetState
<1>7. skipped = r.skipped \union keys /\ order = r.skipped_order \o ids
  BY <1>2, <1>3
<1> HIDE DEF skipped, order, full
<1>8. /\ Len(base) \in Nat /\ Len(r.receiving_chain) \in Nat
      /\ \A k \in SkippedKey : k.n \in Nat /\ Len(k.chain) \in Nat
      /\ \A o \in out : Len(o.chain) \in Nat
  BY <1>1, <1>2 DEF Chains, SkippedKey, Envelope
<1>9. \A k \in r.skipped \union given, l \in keys : Older(k, l)
  <2> SUFFICES ASSUME NEW k \in r.skipped \union given, NEW l \in keys PROVE Older(k, l)
    OBVIOUS
  <2>1. Reached(r, k) /\ k.n \in Nat /\ l.n \in Nat /\ Len(k.chain) \in Nat /\ r.receiving_chain # NoChain
    BY <1>1, <1>5, <1>8 DEF Ordered
  <2>2. CASE l.chain = r.receiving_chain /\ r.recv_n <= l.n
    BY <1>1, <2>1, <2>2 DEF Reached, Older
  <2>3. CASE l.chain = m.chain
    <3>1. Len(k.chain) <= Len(r.receiving_chain)
      BY <1>8, <2>1 DEF Reached
    <3>2. Len(k.chain) < Len(l.chain)
      BY <1>1, <1>2, <1>4, <1>8, <2>1, <2>3, <3>1
    <3> QED
      BY <3>2 DEF Older
  <2> QED
    BY <1>5, <2>2, <2>3
<1>10. ASSUME NEW id, KnownId(r, id, out), id[1] = m.dh_pub PROVE FALSE
  <2>1. PICK o \in out : o.dh_pub = m.dh_pub /\ Len(o.chain) < Len(r.root_key)
    BY <1>10 DEF KnownId
  <2>2. o.chain = base
    BY <1>1, <2>1
  <2> QED
    BY <1>1, <1>2, <2>1, <2>2
<1>11. \A i \in DOMAIN r.skipped_order, j \in DOMAIN ids : r.skipped_order[i] # ids[j]
  <2> SUFFICES ASSUME NEW i \in DOMAIN r.skipped_order, NEW j \in DOMAIN ids,
                      r.skipped_order[i] = ids[j]
               PROVE  FALSE
    OBVIOUS
  <2>1. KnownId(r, ids[j], out)
    BY DEF Ordered
  <2>2. ids[j][2] \in Nat
    BY <1>5
  <2>3. ids[j][1] # m.dh_pub
    BY <1>10, <2>1
  <2> QED
    BY <1>1, <1>5, <2>1, <2>2, <2>3 DEF KnownId
<1>12. Listed(skipped, order) /\ Sorted(skipped, order)
  <2> DEFINE S == DhKeys \X Nat
  <2>1. r.skipped_order \in Seq(S) /\ ids \in Seq(S)
    BY <1>1, <1>5
  <2>2. Listed(r.skipped, r.skipped_order) /\ Sorted(r.skipped, r.skipped_order)
    BY DEF Ordered
  <2> HIDE DEF S
  <2> QED
    BY <1>5, <1>7, <1>9, <1>11, <2>1, <2>2, OrdersJoin
<1>13. IsFiniteSet(skipped)
  BY <1>5, <1>7, FS_Union DEF Ordered
<1>14. \A e \in given, k \in skipped : Older(e, k)
  BY <1>7, <1>9 DEF Ordered
<1>15. \A k \in skipped \union given : Reached(full, k)
  <2> SUFFICES ASSUME NEW k \in skipped \union given PROVE Reached(full, k)
    OBVIOUS
  <2>1. CASE k \in keys /\ k.chain = m.chain /\ k.n < m.n
    <3>1. k.n < m.n + 1
      BY <1>1, <1>5, <1>8, <2>1
    <3> QED
      BY <1>1, <1>6, <2>1, <3>1 DEF Reached
  <2>2. CASE k \in keys /\ r.receiving_chain # NoChain /\ k.chain = r.receiving_chain
    BY <1>1, <1>2, <1>4, <1>6, <1>8, <2>2 DEF Reached
  <2>3. CASE k \notin keys
    <3>1. Reached(r, k) /\ r.receiving_chain # NoChain /\ Len(k.chain) \in Nat
      BY <1>1, <1>7, <1>8, <2>3 DEF Ordered
    <3> QED
      BY <1>1, <1>2, <1>4, <1>6, <1>8, <3>1 DEF Reached
  <2> QED
    BY <1>5, <2>1, <2>2, <2>3
<1>16. \A i \in DOMAIN order : KnownId(full, order[i], out)
  <2> SUFFICES ASSUME NEW i \in DOMAIN order PROVE KnownId(full, order[i], out)
    OBVIOUS
  <2>1. CASE \E j \in DOMAIN r.skipped_order : order[i] = r.skipped_order[j]
    <3>1. KnownId(r, order[i], out)
      BY <2>1 DEF Ordered
    <3>2. order[i][1] # m.dh_pub
      BY <1>10, <3>1
    <3>3. PICK o \in out : o.dh_pub = order[i][1] /\ Len(o.chain) < Len(r.root_key)
      BY <3>1 DEF KnownId
    <3>4. Len(o.chain) < Len(full.root_key)
      BY <1>1, <1>2, <1>6, <1>8, <3>3
    <3> QED
      BY <1>6, <3>2, <3>3, <3>4 DEF KnownId
  <2>2. CASE \E j \in DOMAIN ids : order[i] = ids[j]
    <3>1. order[i][2] \in Nat
      BY <1>5, <2>2
    <3>2. CASE r.receiving_chain # NoChain /\ order[i][1] = r.dh_remote
      <4>1. PICK o \in out : o.dh_pub = r.dh_remote /\ o.chain = r.receiving_chain
        BY <3>2 DEF Ordered
      <4>2. Len(o.chain) < Len(full.root_key)
        BY <1>1, <1>2, <1>4, <1>6, <1>8, <3>2, <4>1
      <4> QED
        BY <1>1, <1>6, <3>2, <4>1, <4>2 DEF KnownId
    <3>3. CASE order[i][1] = m.dh_pub /\ order[i][2] < m.n
      <4>1. order[i][2] < m.n + 1
        BY <1>1, <3>1, <3>3
      <4>2. Len(m.chain) < Len(full.root_key)
        BY <1>1, <1>2, <1>6
      <4> QED
        BY <1>6, <3>3, <4>1, <4>2 DEF KnownId
    <3> QED
      BY <1>5, <2>2, <3>2, <3>3
  <2> DEFINE S == DhKeys \X Nat
  <2>3. r.skipped_order \in Seq(S) /\ ids \in Seq(S)
    BY <1>1, <1>5
  <2> HIDE DEF S
  <2> QED
    BY <1>7, <2>1, <2>2, <2>3, JoinedIds
<1>17. \A k \in skipped : \E o \in out : o.dh_pub = k.dh_pub /\ o.chain = k.chain
  <2> SUFFICES ASSUME NEW k \in skipped PROVE \E o \in out : o.dh_pub = k.dh_pub /\ o.chain = k.chain
    OBVIOUS
  <2>1. CASE k \in r.skipped
    BY <2>1 DEF Ordered
  <2>2. CASE r.receiving_chain # NoChain /\ k.chain = r.receiving_chain /\ k.dh_pub = r.dh_remote
    BY <2>2 DEF Ordered
  <2>3. CASE k.chain = m.chain /\ k.dh_pub = m.dh_pub
    BY <2>3
  <2> QED
    BY <1>5, <1>7, <2>1, <2>2, <2>3
<1>18. Ordered(full, given, out)
  BY <1>1, <1>2, <1>6, <1>12, <1>13, <1>14, <1>15, <1>16, <1>17 DEF Ordered
<1> QED
  BY <1>18 DEF Extended, full, skipped, order, keys, ids, stepped, base, until

CacheAll == \A p \in Parties : CacheInv(ratchet[p], evicted[p], sent[Peer(p)])

LEMMA CacheInit == Init => CacheAll
<1> SUFFICES ASSUME Init, NEW p \in Parties PROVE CacheInv(ratchet[p], evicted[p], sent[Peer(p)])
  BY DEF CacheAll
<1>1. evicted[p] = {} /\ (ratchet[p] = init_as_initiator \/ ratchet[p] = init_as_responder)
  BY DEF Init
<1>2. /\ init_as_initiator.skipped = {} /\ init_as_initiator.skipped_order = << >>
      /\ init_as_initiator.receiving_chain = NoChain
  BY DEF init_as_initiator, Fresh
<1>3. /\ init_as_responder.skipped = {} /\ init_as_responder.skipped_order = << >>
      /\ init_as_responder.receiving_chain = NoChain
  BY DEF init_as_responder, Fresh
<1>4. /\ ratchet[p].skipped = {} /\ ratchet[p].skipped_order = << >>
      /\ ratchet[p].receiving_chain = NoChain
  BY <1>1, <1>2, <1>3
<1>5. DOMAIN ratchet[p].skipped_order = {}
  BY <1>4
<1>6. Cap \in Nat /\ IsFiniteSet({}) /\ Cardinality({}) = 0
  BY BoundsType, FS_EmptySet DEF Cap
<1> QED
  BY <1>1, <1>4, <1>5, <1>6 DEF CacheInv, Ordered, Listed, Sorted

(* Only the party that opens a message changes its cache.                  *)
LEMMA CacheFrame ==
  ASSUME CacheAll, NEW p \in Parties, sent' = sent,
         \A q \in Parties \ {p} : ratchet'[q] = ratchet[q] /\ evicted'[q] = evicted[q],
         CacheInv(ratchet'[p], evicted'[p], sent[Peer(p)])
  PROVE  CacheAll'
<1> SUFFICES ASSUME NEW q \in Parties PROVE CacheInv(ratchet'[q], evicted'[q], sent'[Peer(q)])
  BY DEF CacheAll, CacheInv, Ordered, Listed, Sorted, Reached, KnownId
<1>1. CASE q = p
  BY <1>1
<1>2. CASE q # p
  BY <1>2 DEF CacheAll
<1> QED
  BY <1>1, <1>2

LEMMA EncryptCaches ==
  ASSUME RatchetInv, CacheAll, NEW p \in Parties, Encrypt(p)
  PROVE  CacheAll'
<1> DEFINE r == ratchet[p]
           s == [r EXCEPT !.send_n = r.send_n + 1]
<1>1. TypeOK /\ r \in RatchetState
  BY DEF RatchetInv, TypeOK
<1>2. /\ ratchet' = [ratchet EXCEPT ![p] = s] /\ evicted' = evicted
      /\ \A q \in Parties : sent[q] \subseteq sent'[q]
  BY <1>1 DEF Encrypt, TypeOK
<1>3. /\ s.receiving_chain = r.receiving_chain /\ s.recv_n = r.recv_n
      /\ s.dh_remote = r.dh_remote /\ s.root_key = r.root_key
      /\ s.skipped = r.skipped /\ s.skipped_order = r.skipped_order
  BY <1>1 DEF RatchetState
<1> HIDE DEF s
<1> SUFFICES ASSUME NEW q \in Parties PROVE CacheInv(ratchet'[q], evicted'[q], sent'[Peer(q)])
  BY DEF CacheAll, CacheInv, Ordered, Listed, Sorted, Reached, KnownId
<1>4. CacheInv(ratchet[q], evicted[q], sent[Peer(q)]) /\ sent[Peer(q)] \subseteq sent'[Peer(q)]
  BY <1>2 DEF CacheAll, Peer, Parties
<1>5. /\ ratchet'[q].receiving_chain = ratchet[q].receiving_chain
      /\ ratchet'[q].recv_n = ratchet[q].recv_n
      /\ ratchet'[q].dh_remote = ratchet[q].dh_remote /\ ratchet'[q].root_key = ratchet[q].root_key
      /\ ratchet'[q].skipped = ratchet[q].skipped
      /\ ratchet'[q].skipped_order = ratchet[q].skipped_order
  BY <1>1, <1>2, <1>3 DEF TypeOK
<1> QED
  BY <1>2, <1>4, <1>5, CacheShrinks

LEMMA OpenCachedCaches ==
  ASSUME RatchetInv, CacheAll, NEW p \in Parties, NEW m \in sent[Peer(p)], OpenCached(p, m)
  PROVE  CacheAll'
<1> DEFINE r == ratchet[p]
           t == KeyUsed(r, m)
           s == IF m.dh_pub = r.dh_remote THEN Recorded(t, m.n) ELSE t
<1>1. r \in RatchetState /\ WellFormed(r) /\ TypeOK /\ m \in Envelope
  BY ArrivalTypes
<1>2. ratchet' = [ratchet EXCEPT ![p] = s] /\ evicted' = evicted /\ sent' = sent
  BY DEF OpenCached
<1>3. /\ WellFormed(t) /\ SameKeys(r, t) /\ t.skipped \subseteq r.skipped
      /\ t.skipped_order = r.skipped_order
  <2>1. r.skipped \ Cached(r, m) \subseteq SkippedKey
    BY <1>1 DEF RatchetState
  <2> QED
    BY <1>1, <2>1 DEF KeyUsed, WellFormed, RatchetState, SameKeys
<1> HIDE DEF t
<1>4. SameKeys(r, s) /\ s.skipped \subseteq r.skipped /\ s.skipped_order = r.skipped_order
  <2>1. m.n \in Nat
    BY <1>1 DEF Envelope
  <2>2. SameKeys(t, Recorded(t, m.n)) /\ Recorded(t, m.n).skipped = t.skipped
        /\ Recorded(t, m.n).skipped_order = t.skipped_order
    BY <1>3, <2>1, RecordedFrame, RecordedKeepsOrder DEF WellFormed
  <2> QED
    BY <1>3, <2>2 DEF SameKeys
<1> HIDE DEF s
<1>5. ratchet'[p] = s /\ \A q \in Parties \ {p} : ratchet'[q] = ratchet[q] /\ evicted'[q] = evicted[q]
  BY <1>1, <1>2 DEF TypeOK
<1>6. CacheInv(r, evicted[p], sent[Peer(p)])
  BY DEF CacheAll
<1>7. CacheInv(s, evicted[p], sent[Peer(p)])
  BY <1>4, <1>6, CacheShrinks DEF SameKeys
<1> QED
  BY <1>2, <1>5, <1>7, CacheFrame

LEMMA OpenOnChainCaches ==
  ASSUME RatchetInv, CacheAll, NEW p \in Parties, NEW m \in sent[Peer(p)], OpenOnChain(p, m)
  PROVE  CacheAll'
<1> DEFINE r == ratchet[p]
           keys == SkippedKeys(m.dh_pub, r.receiving_chain, r.recv_n, m.n)
           ids == SkippedIds(m.dh_pub, r.recv_n, m.n)
           out == sent[Peer(p)]
<1>1. /\ r \in RatchetState /\ WellFormed(r) /\ TypeOK /\ m \in Envelope
      /\ ReceiveInv(r, opened[p]) /\ Peer(p) \in Parties
  BY ArrivalTypes
<1>2. OpensOnChain(r, m) /\ Commit(p, m, r, keys, ids) /\ sent' = sent
  BY DEF OpenOnChain
<1>3. /\ out \in SUBSET Envelope /\ evicted[p] \in SUBSET SkippedKey
      /\ ratchet \in [Parties -> RatchetState] /\ evicted \in [Parties -> SUBSET SkippedKey]
  BY <1>1 DEF TypeOK
<1>4. Ordered(r, evicted[p], out)
  BY DEF CacheAll, CacheInv
<1>5. Ordered(Extended(r, keys, ids, m.n), evicted[p], out)
  <2> HIDE DEF r, out
  <2>1. m \in out
    BY DEF out
  <2> QED
    BY <1>1, <1>2, <1>3, <1>4, <2>1, OnChainOrdered
<1>6. keys \in SUBSET SkippedKey /\ ids \in Seq(DhKeys \X Nat)
  <2>1. m.dh_pub \in DhKeys /\ m.n \in Nat /\ r.recv_n \in Nat /\ r.receiving_chain \in Chains
    BY <1>1 DEF Envelope, RatchetState
  <2> QED
    BY <2>1, SkippedTypes
<1> HIDE DEF r, keys, ids
<1>7. /\ \A q \in Parties \ {p} : ratchet'[q] = ratchet[q] /\ evicted'[q] = evicted[q]
      /\ CacheInv(ratchet'[p], evicted'[p], out)
  BY <1>1, <1>2, <1>3, <1>5, <1>6, CommitCaches
<1> QED
  BY <1>2, <1>7, CacheFrame

LEMMA OpenAfterStepCaches ==
  ASSUME RatchetInv, ProgressInv, CacheAll, NEW p \in Parties, NEW m \in sent[Peer(p)],
         OpenAfterStep(p, m)
  PROVE  CacheAll'
<1> DEFINE r == ratchet[p]
           out == sent[Peer(p)]
           until == OldChainEnd(r, m)
           stepped == Stepped(r, m.dh_pub, next_key)
           keys == SkippedKeys(r.dh_remote, r.receiving_chain, r.recv_n, until)
                     \union SkippedKeys(m.dh_pub, SteppedRoot(r, m.dh_pub), 0, m.n)
           ids == SkippedIds(r.dh_remote, r.recv_n, until) \o SkippedIds(m.dh_pub, 0, m.n)
<1>1. /\ r \in RatchetState /\ WellFormed(r) /\ TypeOK /\ m \in Envelope
      /\ ReceiveInv(r, opened[p]) /\ Peer(p) \in Parties
  BY ArrivalTypes
<1>2. OpensAfterStep(r, m) /\ Commit(p, m, stepped, keys, ids) /\ sent' = sent
  BY DEF OpenAfterStep
<1>3. /\ out \in SUBSET Envelope /\ evicted[p] \in SUBSET SkippedKey /\ next_key \in DhKeys
      /\ ratchet \in [Parties -> RatchetState] /\ evicted \in [Parties -> SUBSET SkippedKey]
      /\ m.dh_pub \in DhKeys /\ m.chain = SteppedRoot(r, m.dh_pub) /\ m.dh_pub # r.dh_remote
  BY <1>1, <1>2 DEF TypeOK, Envelope, OpensAfterStep
<1>4. /\ Ordered(r, evicted[p], out)
      /\ \A x, y \in out : x.dh_pub = y.dh_pub => x.chain = y.chain
  BY <1>1 DEF CacheAll, CacheInv, ProgressInv, HeaderInv
<1>5. WellFormed(stepped)
  BY <1>1, <1>3, SteppedFrame
<1>6. Ordered(Extended(stepped, keys, ids, m.n), evicted[p], out)
  <2> HIDE DEF r, out
  <2>1. m \in out
    BY DEF out
  <2> QED
    BY <1>1, <1>2, <1>3, <1>4, <2>1, StepOrdered
<1>7. keys \in SUBSET SkippedKey /\ ids \in Seq(DhKeys \X Nat)
  <2>1. r.receiving_chain # NoChain => Len(r.receiving_chain) < Len(r.root_key)
    BY <1>1 DEF ReceiveInv
  <2> HIDE DEF r
  <2> QED
    BY <1>1, <1>3, <2>1, StepSkips
<1> HIDE DEF r, keys, ids, stepped
<1>8. /\ \A q \in Parties \ {p} : ratchet'[q] = ratchet[q] /\ evicted'[q] = evicted[q]
      /\ CacheInv(ratchet'[p], evicted'[p], out)
  BY <1>1, <1>2, <1>3, <1>5, <1>6, <1>7, CommitCaches
<1> QED
  BY <1>2, <1>8, CacheFrame

LEMMA CacheKept == RatchetInv /\ ProgressInv /\ CacheAll /\ [Next]_vars => CacheAll'
<1> SUFFICES ASSUME RatchetInv, ProgressInv, CacheAll, [Next]_vars PROVE CacheAll'
  OBVIOUS
<1>1. ASSUME NEW p \in Parties, Encrypt(p) PROVE CacheAll'
  BY <1>1, EncryptCaches
<1>2. ASSUME NEW p \in Parties, NEW m \in sent[Peer(p)], Open(p, m) PROVE CacheAll'
  BY <1>2, OpenCachedCaches, OpenOnChainCaches, OpenAfterStepCaches DEF Open
<1>3. CASE UNCHANGED vars
  BY <1>3 DEF vars, CacheAll, CacheInv, Ordered, Listed, Sorted, Reached, KnownId
<1> QED
  BY <1>1, <1>2, <1>3 DEF Next

(* However many DH steps leave messages undelivered, the cache holds no    *)
(* more keys than its cap, and every key it has given up is of an older    *)
(* chain, or earlier on the same chain, than all it keeps                  *)
(* (evict_oldest_skipped_beyond_lifetime_bound).                           *)
THEOREM OldestGoes == Spec => []OldestEvicted
<1>1. RatchetInv /\ ProgressInv /\ [Next]_vars => ProgressInv'
  BY ProgressKept
<1>2. RatchetInv /\ ProgressInv /\ CacheAll /\ [Next]_vars => CacheAll'
  BY CacheKept
<1>3. CacheAll => OldestEvicted
  <2> SUFFICES ASSUME CacheAll, NEW p \in Parties
               PROVE  /\ Cardinality(ratchet[p].skipped) <= Cap
                      /\ \A e \in evicted[p], k \in ratchet[p].skipped :
                           \/ Len(e.chain) < Len(k.chain)
                           \/ e.chain = k.chain /\ e.n < k.n
    BY DEF OldestEvicted
  <2> QED
    BY DEF CacheAll, CacheInv, Ordered, Older
<1> QED
  BY <1>1, <1>2, <1>3, ProgressInit, CacheInit, RatchetCorrect, PTL DEF Spec

-----------------------------------------------------------------------------
(* What arrives.  Of the sender (r, what it has sent in out): every chain  *)
(* up to its root key was filled from 0 without gaps, each index once.     *)
SenderInv(r, out) ==
  /\ IsFiniteSet(out)
  /\ r.sending_chain = r.root_key
  /\ \A o \in out : o.chain = r.root_key \/ Len(o.chain) < Len(r.root_key)
  /\ \A o \in out : o.chain = r.root_key => o.dh_pub = r.dh_self /\ o.pn = r.prev_chain_len
  /\ \A i \in 0 .. (r.send_n - 1) : \E o \in out : o.chain = r.root_key /\ o.n = i
  /\ \A m \in out : \A i \in 0 .. (m.n - 1) : \E o \in out : o.chain = m.chain /\ o.n = i
  /\ \A m, o \in out : m.chain = o.chain => m.dh_pub = o.dh_pub
  /\ \A m, o \in out : m.chain = o.chain /\ m.n = o.n => m = o

(* Of the two: q, the party that has taken the last DH step, receives on   *)
(* what p sends on, sends on what p's next DH step will derive, and        *)
(* announces in pn how far it had filled the chain p still receives on.    *)
Ahead(q, p) ==
  /\ ratchet[q].root_key = Append(ratchet[p].root_key, {ratchet[p].dh_self, ratchet[q].dh_self})
  /\ ratchet[q].receiving_chain = ratchet[p].root_key
  /\ ratchet[q].recv_n <= ratchet[p].send_n
  /\ ratchet[p].dh_remote # ratchet[q].dh_self
  /\ ratchet[p].receiving_chain # NoChain =>
       /\ \A o \in sent[q] :
            o.chain = ratchet[p].receiving_chain => o.n < ratchet[q].prev_chain_len
       /\ \A i \in 0 .. (ratchet[q].prev_chain_len - 1) :
            \E o \in sent[q] : o.chain = ratchet[p].receiving_chain /\ o.n = i

(* Of the receiver: a message sent to it was opened, has its key cached or *)
(* given up, is still ahead on the receiving chain, or on a chain the      *)
(* receiver has not derived.                                               *)
KeyOf(m) == [dh_pub |-> m.dh_pub, n |-> m.n, chain |-> m.chain]
Covered(r, keys, done, out) ==
  \A m \in out :
    \/ m \in done
    \/ KeyOf(m) \in keys
    \/ m.chain = r.receiving_chain /\ m.n >= r.recv_n
    \/ Len(m.chain) > Len(r.root_key)

ArrivalInv ==
  /\ \A p \in Parties :
       /\ SenderInv(ratchet[p], sent[p])
       /\ Covered(ratchet[p], ratchet[p].skipped \union evicted[p], opened[p], sent[Peer(p)])
       /\ ratchet[p].dh_remote < next_key
  /\ \E p \in Parties : Ahead(p, Peer(p))

LEMMA ArrivalInit == Init => ArrivalInv
<1> SUFFICES ASSUME Init PROVE ArrivalInv
  OBVIOUS
<1> DEFINE i == init_as_initiator
           r == init_as_responder
<1>1. /\ ratchet["initiator"] = i /\ ratchet["responder"] = r
      /\ \A p \in Parties : sent[p] = {} /\ opened[p] = {}
      /\ next_key = 3
  BY DEF Init, Parties
<1>2. /\ i.root_key = <<{1, 2}>> /\ i.sending_chain = <<{1, 2}>> /\ i.receiving_chain = << >>
      /\ i.dh_self = 2 /\ i.dh_remote = 1 /\ i.send_n = 0 /\ i.recv_n = 0
  BY DEF init_as_initiator, Fresh, NoChain
<1>3. /\ r.root_key = << >> /\ r.sending_chain = << >> /\ r.receiving_chain = << >>
      /\ r.dh_self = 1 /\ r.dh_remote = 0 /\ r.send_n = 0 /\ r.recv_n = 0
  BY DEF init_as_responder, Fresh, NoChain, NoKey
<1> HIDE DEF i, r
<1>4. ASSUME NEW p \in Parties
      PROVE  /\ SenderInv(ratchet[p], sent[p])
             /\ Covered(ratchet[p], ratchet[p].skipped \union evicted[p], opened[p], sent[Peer(p)])
             /\ ratchet[p].dh_remote < next_key
  <2>1. sent[p] = {} /\ sent[Peer(p)] = {}
    BY <1>1 DEF Peer, Parties
  <2>2. /\ ratchet[p].sending_chain = ratchet[p].root_key /\ ratchet[p].send_n = 0
        /\ ratchet[p].dh_remote < 3
    <3>1. CASE p = "initiator"
      <4>1. i.sending_chain = i.root_key /\ i.send_n = 0 /\ i.dh_remote < 3
        BY <1>2
      <4> QED
        BY <1>1, <3>1, <4>1
    <3>2. CASE p = "responder"
      BY <1>1, <1>3, <3>2
    <3> QED
      BY <3>1, <3>2 DEF Parties
  <2>3. 0 .. (0 - 1) = {}
    OBVIOUS
  <2> QED
    BY <1>1, <2>1, <2>2, <2>3, FS_EmptySet DEF SenderInv, Covered
<1>5. Ahead("initiator", "responder")
  <2>1. <<{1, 2}>> = Append(<< >>, {1, 2})
    OBVIOUS
  <2> QED
    BY <1>1, <1>2, <1>3, <2>1 DEF Ahead, NoChain
<1>6. Peer("initiator") = "responder" /\ "initiator" \in Parties
  BY DEF Peer, Parties
<1> QED
  BY <1>4, <1>5, <1>6 DEF ArrivalInv

(* A run of indices is no larger than a set that has each of them.         *)
LEMMA RunFits ==
  ASSUME NEW S, IsFiniteSet(S), NEW from \in Nat, NEW until \in Nat, from <= until,
         \A i \in from .. (until - 1) : \E o \in S : o.n = i
  PROVE  until - from <= Cardinality(S)
<1> DEFINE run == from .. (until - 1)
           T == {o \in S : o.n \in run}
           F == [o \in T |-> o.n]
<1>1. IsFiniteSet(T) /\ Cardinality(T) <= Cardinality(S)
      /\ Cardinality(T) \in Nat /\ Cardinality(S) \in Nat
  <2>1. T \subseteq S
    OBVIOUS
  <2> HIDE DEF T
  <2> QED
    BY <2>1, FS_Subset, FS_CardinalityType
<1>2. F \in Surjection(T, run)
  BY DEF Surjection
<1>3. Cardinality(run) = until - from
  <2>1. CASE from = until
    <3>1. run = {}
      BY <2>1
    <3> QED
      BY <2>1, <3>1, FS_EmptySet
  <2>2. CASE from < until
    <3>1. from <= until - 1 /\ from \in Int /\ until - 1 \in Int
      BY <2>2
    <3>2. Cardinality(run) = (until - 1) - from + 1
      BY <3>1, FS_Interval
    <3> QED
      BY <3>2
  <2> QED
    BY <2>1, <2>2
<1> HIDE DEF F, T, run
<1>4. IsFiniteSet(run) /\ Cardinality(run) <= Cardinality(T) /\ Cardinality(run) \in Nat
  BY <1>1, <1>2, FS_Surjection, FS_CardinalityType
<1> QED
  BY <1>1, <1>3, <1>4

(* Typing facts of a party and its peer.                                   *)
LEMMA BothTypes ==
  ASSUME RatchetInv, NEW p \in Parties
  PROVE  /\ ratchet[p] \in RatchetState /\ WellFormed(ratchet[p])
         /\ ReceiveInv(ratchet[p], opened[p]) /\ SendInv(p, ratchet[p], sent[p])
         /\ sent[p] \subseteq Envelope /\ Peer(p) \in Parties /\ Peer(p) # p
         /\ Peer(Peer(p)) = p /\ Parties = {p, Peer(p)}
         /\ ratchet[p].send_n \in Nat /\ ratchet[p].recv_n \in Nat
         /\ ratchet[p].prev_chain_len \in Nat
         /\ ratchet[p].root_key \in Seq(SUBSET Nat) /\ Len(ratchet[p].root_key) \in Nat
         /\ ratchet[p].receiving_chain \in Seq(SUBSET Nat)
         /\ Len(ratchet[p].receiving_chain) \in Nat
         /\ ratchet[p].dh_self \in Nat /\ ratchet[p].dh_remote \in Nat
         /\ \A m \in sent[p] : /\ m.n \in Nat /\ m.pn \in Nat /\ Len(m.chain) \in Nat
                               /\ m.dh_pub \in Nat /\ m.chain \in Seq(SUBSET Nat)
<1>1. /\ ratchet[p] \in RatchetState /\ WellFormed(ratchet[p])
      /\ ReceiveInv(ratchet[p], opened[p]) /\ SendInv(p, ratchet[p], sent[p])
      /\ sent[p] \subseteq Envelope
  BY DEF RatchetInv, TypeOK
<1>2. /\ Peer(p) \in Parties /\ Peer(p) # p /\ Peer(Peer(p)) = p /\ Parties = {p, Peer(p)}
  BY DEF Peer, Parties
<1>3. \A m \in sent[p] : /\ m.n \in Nat /\ m.pn \in Nat /\ Len(m.chain) \in Nat
                         /\ m.dh_pub \in Nat /\ m.chain \in Seq(SUBSET Nat)
  BY <1>1 DEF Envelope, Chains, DhKeys
<1>4. /\ ratchet[p].send_n \in Nat /\ ratchet[p].recv_n \in Nat /\ ratchet[p].prev_chain_len \in Nat
      /\ ratchet[p].root_key \in Seq(SUBSET Nat) /\ ratchet[p].receiving_chain \in Seq(SUBSET Nat)
      /\ ratchet[p].dh_self \in Nat /\ ratchet[p].dh_remote \in Nat
  BY <1>1 DEF RatchetState, Chains, DhKeys
<1> QED
  BY <1>1, <1>2, <1>3, <1>4

(* The party ahead has the longer root key, so of the two only the other   *)
(* can be on a message's way to a DH step.                                 *)
LEMMA AheadLonger ==
  ASSUME RatchetInv, NEW q \in Parties, Ahead(q, Peer(q))
  PROVE  Len(ratchet[q].root_key) = Len(ratchet[Peer(q)].root_key) + 1
<1>1. ratchet[Peer(q)].root_key \in Seq(SUBSET Nat) /\ ratchet[Peer(q)].dh_self \in Nat
      /\ ratchet[q].dh_self \in Nat
  BY BothTypes
<1>2. {ratchet[Peer(q)].dh_self, ratchet[q].dh_self} \in SUBSET Nat
  BY <1>1
<1> QED
  BY <1>1, <1>2 DEF Ahead

LEMMA NewChainIsPeers ==
  ASSUME RatchetInv, ArrivalInv, NEW p \in Parties, NEW m \in sent[Peer(p)],
         Len(m.chain) > Len(ratchet[p].root_key)
  PROVE  /\ Ahead(Peer(p), p)
         /\ m.chain = ratchet[Peer(p)].root_key
         /\ m.chain = SteppedRoot(ratchet[p], m.dh_pub)
         /\ m.dh_pub = ratchet[Peer(p)].dh_self
         /\ m.pn = ratchet[Peer(p)].prev_chain_len
         /\ m.n < ratchet[Peer(p)].send_n
         /\ Len(m.chain) = Len(ratchet[p].root_key) + 1
<1> DEFINE q == Peer(p)
<1>1. /\ q \in Parties /\ Peer(q) = p /\ Parties = {p, q} /\ Len(m.chain) \in Nat
      /\ Len(ratchet[p].root_key) \in Nat /\ Len(ratchet[q].root_key) \in Nat
      /\ SendInv(q, ratchet[q], sent[q]) /\ m \in sent[q]
  BY BothTypes
<1>2. SenderInv(ratchet[q], sent[q])
  BY <1>1 DEF ArrivalInv
<1> HIDE DEF q
<1>3. m.chain = ratchet[q].root_key \/ Len(m.chain) < Len(ratchet[q].root_key)
  BY <1>1, <1>2 DEF SenderInv
<1>4. Ahead(q, p)
  <2>1. Ahead(p, q) \/ Ahead(q, p)
    BY <1>1 DEF ArrivalInv, q
  <2>2. CASE Ahead(p, q)
    <3>1. Len(ratchet[p].root_key) = Len(ratchet[q].root_key) + 1
      BY <2>2, AheadLonger DEF q
    <3> QED
      BY <1>1, <1>3, <3>1
  <2> QED
    BY <2>1, <2>2
<1>5. Len(ratchet[q].root_key) = Len(ratchet[p].root_key) + 1
  BY <1>1, <1>4, AheadLonger
<1>6. m.chain = ratchet[q].root_key
  BY <1>1, <1>3, <1>5
<1>7. m.dh_pub = ratchet[q].dh_self /\ m.pn = ratchet[q].prev_chain_len
  BY <1>1, <1>2, <1>6 DEF SenderInv
<1>8. m.n < ratchet[q].send_n
  BY <1>1, <1>2, <1>6 DEF SenderInv, SendInv
<1>9. m.chain = SteppedRoot(ratchet[p], m.dh_pub)
  BY <1>4, <1>6, <1>7 DEF Ahead, SteppedRoot
<1> QED
  BY <1>4, <1>5, <1>6, <1>7, <1>8, <1>9 DEF q

(* Only a party's keys and counters matter to who is ahead.                *)
LEMMA AheadSame ==
  ASSUME NEW p, NEW q, Ahead(q, p), SameKeys(ratchet[p], ratchet'[p]),
         SameKeys(ratchet[q], ratchet'[q]), sent' = sent
  PROVE  Ahead(q, p)'
BY DEF Ahead, SameKeys

LEMMA EncryptArrives ==
  ASSUME RatchetInv, ArrivalInv, NEW p \in Parties, Encrypt(p)
  PROVE  ArrivalInv'
<1> DEFINE q == Peer(p)
           r == ratchet[p]
           s == [r EXCEPT !.send_n = r.send_n + 1]
           m == [dh_pub |-> r.dh_self, pn |-> r.prev_chain_len, n |-> r.send_n,
                 chain |-> r.sending_chain]
<1>1. /\ r \in RatchetState /\ SendInv(p, r, sent[p]) /\ q \in Parties /\ q # p
      /\ Peer(q) = p /\ Parties = {p, q} /\ r.send_n \in Nat
      /\ Len(r.root_key) \in Nat /\ Len(ratchet[q].root_key) \in Nat
      /\ \A o \in sent[p] : o.n \in Nat
  BY BothTypes
<1>2. TypeOK
  BY DEF RatchetInv
<1>3. SenderInv(r, sent[p]) /\ \A x \in Parties :
        /\ Covered(ratchet[x], ratchet[x].skipped \union evicted[x], opened[x], sent[Peer(x)])
        /\ ratchet[x].dh_remote < next_key
  BY DEF ArrivalInv
<1>4. /\ ratchet' = [ratchet EXCEPT ![p] = s] /\ sent' = [sent EXCEPT ![p] = sent[p] \union {m}]
      /\ opened' = opened /\ evicted' = evicted /\ next_key' = next_key
      /\ r.sending_chain # NoChain
  BY DEF Encrypt
<1>5. /\ s.root_key = r.root_key /\ s.dh_self = r.dh_self /\ s.dh_remote = r.dh_remote
      /\ s.sending_chain = r.sending_chain /\ s.receiving_chain = r.receiving_chain
      /\ s.recv_n = r.recv_n /\ s.prev_chain_len = r.prev_chain_len
      /\ s.skipped = r.skipped /\ s.send_n = r.send_n + 1
  BY <1>1 DEF RatchetState
<1>6. m.chain = r.root_key /\ m.n = r.send_n /\ m.dh_pub = r.dh_self /\ m.pn = r.prev_chain_len
  BY <1>3 DEF SenderInv
<1> HIDE DEF s, m, r, q
<1>7. /\ ratchet'[p] = s /\ ratchet'[q] = ratchet[q]
      /\ sent'[p] = sent[p] \union {m} /\ sent'[q] = sent[q]
  BY <1>1, <1>2, <1>4 DEF TypeOK
<1>8. \A o \in sent[p] : o.chain = r.root_key => o.n < r.send_n
  BY <1>1, <1>3, <1>4 DEF SenderInv, SendInv
<1>9. SenderInv(s, sent[p] \union {m})
  <2>1. IsFiniteSet(sent[p] \union {m})
    BY <1>3, FS_AddElement DEF SenderInv
  <2>2. \A o \in sent[p] \union {m} : o.chain = r.root_key \/ Len(o.chain) < Len(r.root_key)
    BY <1>3, <1>6 DEF SenderInv
  <2>3. \A o \in sent[p] \union {m} : o.chain = r.root_key => o.dh_pub = r.dh_self /\ o.pn = r.prev_chain_len
    BY <1>3, <1>6 DEF SenderInv
  <2>4. ASSUME NEW i \in 0 .. (s.send_n - 1)
        PROVE  \E o \in sent[p] \union {m} : o.chain = r.root_key /\ o.n = i
    <3>1. i \in 0 .. (r.send_n - 1) \/ i = r.send_n
      BY <1>1, <1>5
    <3> QED
      BY <1>3, <1>6, <3>1 DEF SenderInv
  <2>5. ASSUME NEW o \in sent[p] \union {m}, NEW i \in 0 .. (o.n - 1)
        PROVE  \E x \in sent[p] \union {m} : x.chain = o.chain /\ x.n = i
    <3>1. CASE o \in sent[p]
      BY <1>3, <3>1 DEF SenderInv
    <3>2. CASE o = m
      BY <1>3, <1>6, <3>2 DEF SenderInv
    <3> QED
      BY <3>1, <3>2
  <2>6. \A x, y \in sent[p] \union {m} : x.chain = y.chain => x.dh_pub = y.dh_pub
    BY <1>3, <1>6 DEF SenderInv
  <2>7. \A x, y \in sent[p] \union {m} : x.chain = y.chain /\ x.n = y.n => x = y
    <3>1. \A x \in sent[p] : ~(x.chain = m.chain /\ x.n = m.n)
      BY <1>1, <1>6, <1>8
    <3> QED
      BY <1>3, <3>1 DEF SenderInv
  <2> QED
    BY <1>3, <1>5, <2>1, <2>2, <2>3, <2>4, <2>5, <2>6, <2>7 DEF SenderInv
<1>10. PICK x \in Parties : Ahead(x, Peer(x))
  BY DEF ArrivalInv
<1>11. Covered(ratchet[q], ratchet[q].skipped \union evicted[q], opened[q], sent[p] \union {m})
  <2> SUFFICES \/ m.chain = ratchet[q].receiving_chain /\ m.n >= ratchet[q].recv_n
               \/ Len(m.chain) > Len(ratchet[q].root_key)
    BY <1>1, <1>3 DEF Covered
  <2>1. CASE Ahead(p, q)
    <3>1. Len(r.root_key) = Len(ratchet[q].root_key) + 1
      BY <2>1, AheadLonger DEF q, r
    <3> QED
      BY <1>1, <1>6, <3>1
  <2>2. CASE Ahead(q, p)
    <3>1. ratchet[q].receiving_chain = r.root_key /\ ratchet[q].recv_n <= r.send_n
      BY <2>2 DEF Ahead, r
    <3>2. ratchet[q].recv_n \in Nat
      BY <1>1, BothTypes
    <3> QED
      BY <1>1, <1>6, <3>1, <3>2
  <2> QED
    BY <1>1, <1>10, <2>1, <2>2 DEF q
<1>12. Covered(s, s.skipped \union evicted[p], opened[p], sent[q])
  <2>1. Covered(r, r.skipped \union evicted[p], opened[p], sent[q])
    BY <1>1, <1>3 DEF q, r
  <2> QED
    BY <1>5, <2>1 DEF Covered
<1>13. Ahead(x, Peer(x))'
  <2>1. CASE x = p
    <3>1. Ahead(p, q)
      BY <1>10, <2>1 DEF q
    <3>2. ratchet[q].receiving_chain # NoChain => m.chain # ratchet[q].receiving_chain
      <4>1. Len(r.root_key) = Len(ratchet[q].root_key) + 1
        BY <3>1, AheadLonger DEF q, r
      <4>2. ratchet[q].receiving_chain # NoChain =>
              Len(ratchet[q].receiving_chain) < Len(ratchet[q].root_key)
        BY <1>1, BothTypes DEF ReceiveInv
      <4>3. Len(ratchet[q].receiving_chain) \in Nat
        BY <1>1, BothTypes
      <4> QED
        BY <1>1, <1>6, <4>1, <4>2, <4>3
    <3>3. Ahead(p, q)'
      <4>1. r = ratchet[p]
        BY DEF r
      <4> QED
        BY <1>5, <1>7, <3>1, <3>2, <4>1 DEF Ahead
    <3> QED
      BY <2>1, <3>3 DEF q
  <2>2. CASE x = q
    <3>1. Ahead(q, p)
      BY <1>1, <1>10, <2>2
    <3>2. r = ratchet[p]
      BY DEF r
    <3>3. ratchet[q].recv_n \in Nat /\ ratchet[q].recv_n <= r.send_n
      BY <1>1, <3>1, <3>2, BothTypes DEF Ahead
    <3>4. ratchet[q].recv_n <= s.send_n
      BY <1>1, <1>5, <3>3
    <3>5. Ahead(q, p)'
      BY <1>5, <1>7, <3>1, <3>2, <3>4 DEF Ahead
    <3> QED
      BY <1>1, <2>2, <3>5
  <2> QED
    BY <1>1, <2>1, <2>2
<1>14. SenderInv(ratchet[q], sent[q])
  BY <1>1 DEF ArrivalInv
<1>15. \A y \in Parties : SenderInv(ratchet'[y], sent'[y])
  BY <1>1, <1>7, <1>9, <1>14
<1>16. \A y \in Parties : Covered(ratchet'[y], ratchet'[y].skipped \union evicted'[y], opened'[y], sent'[Peer(y)])
  <2>1. Covered(ratchet'[p], ratchet'[p].skipped \union evicted'[p], opened'[p], sent'[Peer(p)])
    BY <1>4, <1>7, <1>12 DEF q
  <2>2. Covered(ratchet'[q], ratchet'[q].skipped \union evicted'[q], opened'[q], sent'[Peer(q)])
    BY <1>1, <1>4, <1>7, <1>11
  <2> QED
    BY <1>1, <2>1, <2>2
<1>17. \A y \in Parties : ratchet'[y].dh_remote < next_key'
  <2>1. r = ratchet[p]
    BY DEF r
  <2> QED
    BY <1>1, <1>3, <1>4, <1>5, <1>7, <2>1
<1> QED
  BY <1>13, <1>15, <1>16, <1>17 DEF ArrivalInv

(* Opening a message changes nothing of the sender's.                      *)
LEMMA OpenArrives ==
  ASSUME RatchetInv, ArrivalInv, NEW p \in Parties, sent' = sent,
         \A q \in Parties \ {p} :
           ratchet'[q] = ratchet[q] /\ evicted'[q] = evicted[q] /\ opened'[q] = opened[q],
         next_key' \in {next_key, next_key + 1}, ratchet'[p].dh_remote < next_key',
         SenderInv(ratchet'[p], sent[p]),
         Covered(ratchet'[p], ratchet'[p].skipped \union evicted'[p], opened'[p], sent[Peer(p)]),
         \E x \in Parties : Ahead(x, Peer(x))'
  PROVE  ArrivalInv'
<1>1. \A x \in Parties : SenderInv(ratchet'[x], sent'[x])
  BY DEF ArrivalInv
<1>2. \A x \in Parties : Covered(ratchet'[x], ratchet'[x].skipped \union evicted'[x], opened'[x], sent'[Peer(x)])
  BY DEF ArrivalInv
<1>3. ASSUME NEW x \in Parties PROVE ratchet'[x].dh_remote < next_key'
  <2>1. next_key \in Nat /\ ratchet[x].dh_remote \in Nat /\ ratchet[x].dh_remote < next_key
    BY BothTypes DEF RatchetInv, TypeOK, DhKeys, ArrivalInv
  <2>2. ratchet[x].dh_remote < next_key'
    BY <2>1
  <2> QED
    BY <2>2
<1> QED
  BY <1>1, <1>2, <1>3 DEF ArrivalInv

LEMMA SameSender ==
  ASSUME NEW r, NEW s, SameKeys(r, s), NEW out, SenderInv(r, out)
  PROVE  SenderInv(s, out)
BY DEF SameKeys, SenderInv

(* The messages of one sender with one DH key and index are one message.   *)
LEMMA OneMessage ==
  ASSUME ProgressInv, ArrivalInv, NEW q \in Parties, NEW m \in sent[q], NEW o \in sent[q],
         m.n = o.n, m.dh_pub = o.dh_pub \/ m.chain = o.chain
  PROVE  m = o
<1>1. \A x, y \in sent[q] : x.dh_pub = y.dh_pub => x.chain = y.chain
  BY DEF ProgressInv, HeaderInv
<1>2. SenderInv(ratchet[q], sent[q])
  BY DEF ArrivalInv
<1>3. \A x, y \in sent[q] : x.chain = y.chain /\ x.n = y.n => x = y
  BY <1>2 DEF SenderInv
<1>4. m.chain = o.chain
  BY <1>1
<1> QED
  BY <1>3, <1>4

LEMMA OpenCachedArrives ==
  ASSUME RatchetInv, ProgressInv, ArrivalInv, NEW p \in Parties, NEW m \in sent[Peer(p)],
         OpenCached(p, m)
  PROVE  ArrivalInv'
<1> DEFINE q == Peer(p)
           r == ratchet[p]
           t == KeyUsed(r, m)
           s == IF m.dh_pub = r.dh_remote THEN Recorded(t, m.n) ELSE t
<1>1. r \in RatchetState /\ WellFormed(r) /\ TypeOK /\ m \in Envelope
  BY ArrivalTypes
<1>2. /\ ratchet' = [ratchet EXCEPT ![p] = s] /\ evicted' = evicted /\ sent' = sent
      /\ opened' = [opened EXCEPT ![p] = opened[p] \union {m}] /\ next_key' = next_key
  BY DEF OpenCached
<1>3. WellFormed(t) /\ SameKeys(r, t) /\ t.skipped = r.skipped \ Cached(r, m)
  <2>1. r.skipped \ Cached(r, m) \subseteq SkippedKey
    BY <1>1 DEF RatchetState
  <2> QED
    BY <1>1, <2>1 DEF KeyUsed, WellFormed, RatchetState, SameKeys
<1> HIDE DEF t
<1>4. SameKeys(r, s) /\ s.skipped = r.skipped \ Cached(r, m)
  <2>1. m.n \in Nat
    BY <1>1 DEF Envelope
  <2>2. SameKeys(t, Recorded(t, m.n)) /\ Recorded(t, m.n).skipped = t.skipped
    BY <1>3, <2>1, RecordedFrame
  <2> QED
    BY <1>3, <2>2 DEF SameKeys
<1> HIDE DEF s
<1>5. /\ ratchet'[p] = s /\ opened'[p] = opened[p] \union {m} /\ evicted'[p] = evicted[p]
      /\ \A x \in Parties \ {p} :
           ratchet'[x] = ratchet[x] /\ evicted'[x] = evicted[x] /\ opened'[x] = opened[x]
  BY <1>1, <1>2 DEF TypeOK
<1>6. q \in Parties /\ q # p /\ Peer(q) = p /\ Parties = {p, q}
  BY BothTypes
<1>7. /\ SenderInv(r, sent[p]) /\ r.dh_remote < next_key
      /\ Covered(r, r.skipped \union evicted[p], opened[p], sent[q])
  BY DEF ArrivalInv
<1>8. SenderInv(s, sent[p]) /\ s.dh_remote < next_key
  BY <1>4, <1>7, SameSender DEF SameKeys
<1>9. Covered(s, s.skipped \union evicted[p], opened[p] \union {m}, sent[q])
  <2> SUFFICES ASSUME NEW o \in sent[q], o # m, KeyOf(o) \in r.skipped
               PROVE  KeyOf(o) \in s.skipped
    BY <1>4, <1>7 DEF Covered, SameKeys
  <2>1. ~(o.dh_pub = m.dh_pub /\ o.n = m.n)
    BY <1>6, OneMessage
  <2>2. KeyOf(o) \notin Cached(r, m)
    BY <2>1 DEF Cached, KeyOf
  <2> QED
    BY <1>4, <2>2
<1>10. PICK x \in Parties : Ahead(x, Peer(x))
  BY DEF ArrivalInv
<1>11. \A y \in Parties : SameKeys(ratchet[y], ratchet'[y])
  BY <1>4, <1>5 DEF SameKeys
<1>12. Ahead(x, Peer(x))'
  <2>1. Peer(x) \in Parties
    BY DEF Peer, Parties
  <2> QED
    BY <1>2, <1>10, <1>11, <2>1, AheadSame
<1> HIDE DEF r, q
<1>13. Covered(ratchet'[p], ratchet'[p].skipped \union evicted'[p], opened'[p], sent[Peer(p)])
  BY <1>5, <1>9 DEF q
<1> QED
  BY <1>2, <1>5, <1>8, <1>12, <1>13, OpenArrives

LEMMA OpenOnChainArrives ==
  ASSUME RatchetInv, ProgressInv, CacheAll, ArrivalInv, NEW p \in Parties,
         NEW m \in sent[Peer(p)], OpenOnChain(p, m)
  PROVE  ArrivalInv'
<1> DEFINE q == Peer(p)
           r == ratchet[p]
           keys == SkippedKeys(m.dh_pub, r.receiving_chain, r.recv_n, m.n)
           ids == SkippedIds(m.dh_pub, r.recv_n, m.n)
           s == ratchet'[p]
<1>1. /\ r \in RatchetState /\ WellFormed(r) /\ TypeOK /\ m \in Envelope
      /\ ReceiveInv(r, opened[p])
  BY ArrivalTypes
<1>2. /\ OpensOnChain(r, m) /\ Commit(p, m, r, keys, ids) /\ sent' = sent /\ next_key' = next_key
  BY DEF OpenOnChain
<1>3. /\ sent[q] \in SUBSET Envelope /\ evicted[p] \in SUBSET SkippedKey
      /\ ratchet \in [Parties -> RatchetState] /\ evicted \in [Parties -> SUBSET SkippedKey]
      /\ q \in Parties /\ q # p /\ Peer(q) = p /\ Parties = {p, q}
      /\ r.recv_n \in Nat /\ m.n \in Nat /\ \A o \in sent[q] : o.n \in Nat
      /\ SendInv(q, ratchet[q], sent[q])
  BY <1>1, BothTypes DEF TypeOK, Envelope
<1>4. Ordered(r, evicted[p], sent[q])
  BY DEF CacheAll, CacheInv
<1>5. Ordered(Extended(r, keys, ids, m.n), evicted[p], sent[q])
  <2>1. m \in sent[q]
    OBVIOUS
  <2> HIDE DEF r, q
  <2> QED
    BY <1>1, <1>2, <1>3, <1>4, <2>1, OnChainOrdered
<1>6. keys \in SUBSET SkippedKey /\ ids \in Seq(DhKeys \X Nat)
  <2>1. m.dh_pub \in DhKeys /\ m.n \in Nat /\ r.recv_n \in Nat /\ r.receiving_chain \in Chains
    BY <1>1 DEF Envelope, RatchetState
  <2> QED
    BY <2>1, SkippedTypes
<1>7. /\ SenderInv(r, sent[p]) /\ r.dh_remote < next_key
      /\ Covered(r, r.skipped \union evicted[p], opened[p], sent[q])
      /\ SenderInv(ratchet[q], sent[q])
  BY <1>3 DEF ArrivalInv
<1>8. \A o \in sent[q] : o.chain = r.receiving_chain /\ r.recv_n <= o.n /\ o.n < m.n => KeyOf(o) \in keys
  <2> SUFFICES ASSUME NEW o \in sent[q], o.chain = r.receiving_chain, r.recv_n <= o.n, o.n < m.n
               PROVE  KeyOf(o) \in keys
    OBVIOUS
  <2>1. o.dh_pub = m.dh_pub
    BY <1>2, <1>7 DEF OpensOnChain, SenderInv
  <2>2. o.n \in r.recv_n .. (m.n - 1)
    BY <1>3
  <2> QED
    BY <2>1, <2>2 DEF SkippedKeys, KeyOf
<1>9. /\ opened' = [opened EXCEPT ![p] = opened[p] \union {m}]
      /\ opened'[p] = opened[p] \union {m}
      /\ \A x \in Parties \ {p} : opened'[x] = opened[x]
  BY <1>1, <1>2 DEF Commit, TypeOK
<1> HIDE DEF keys, ids
<1>10. /\ \A x \in Parties \ {p} : ratchet'[x] = ratchet[x] /\ evicted'[x] = evicted[x]
       /\ s.skipped \union evicted'[p] = r.skipped \union keys \union evicted[p]
       /\ SameKeys(Extended(r, keys, ids, m.n), s)
  <2> DEFINE out == sent[q]
  <2>1. Ordered(Extended(r, keys, ids, m.n), evicted[p], out) /\ m \in Envelope
    BY <1>1, <1>5
  <2>2. WellFormed(r)
    BY <1>1, <1>5
  <2> HIDE DEF r, q, s, out
  <2>3. /\ \A x \in Parties \ {p} : ratchet'[x] = ratchet[x] /\ evicted'[x] = evicted[x]
        /\ ratchet'[p].skipped \union evicted'[p] = r.skipped \union keys \union evicted[p]
        /\ SameKeys(Extended(r, keys, ids, m.n), ratchet'[p])
    BY <1>2, <1>3, <1>6, <2>1, <2>2, CommitCaches
  <2> QED
    BY <2>3 DEF s
<1>11. /\ s.root_key = r.root_key /\ s.dh_self = r.dh_self /\ s.dh_remote = r.dh_remote
       /\ s.sending_chain = r.sending_chain /\ s.receiving_chain = r.receiving_chain
       /\ s.send_n = r.send_n /\ s.recv_n = m.n + 1 /\ s.prev_chain_len = r.prev_chain_len
  BY <1>1, <1>10 DEF RatchetState, SameKeys, Extended
<1>12. SenderInv(s, sent[p]) /\ s.dh_remote < next_key
  BY <1>7, <1>11 DEF SenderInv
<1>13. Covered(s, s.skipped \union evicted'[p], opened[p] \union {m}, sent[q])
  <2> SUFFICES ASSUME NEW o \in sent[q], o # m, o.chain = r.receiving_chain, o.n >= r.recv_n
               PROVE  KeyOf(o) \in keys \/ o.n >= m.n + 1
    BY <1>7, <1>10, <1>11 DEF Covered
  <2>1. o.n # m.n
    BY <1>2, <1>3, OneMessage DEF OpensOnChain
  <2> QED
    BY <1>3, <1>8, <2>1
<1>14. PICK x \in Parties : Ahead(x, Peer(x))
  BY DEF ArrivalInv
<1>15. Ahead(x, Peer(x))'
  <2>1. CASE x = p
    <3>1. Ahead(p, q)
      BY <1>14, <2>1
    <3>2. m.chain = ratchet[q].root_key
      BY <1>2, <3>1 DEF Ahead, OpensOnChain
    <3>3. m.n < ratchet[q].send_n
      BY <1>3, <1>7, <3>2 DEF SenderInv, SendInv
    <3>4. m.n + 1 <= ratchet[q].send_n
      BY <1>3, <3>3, BothTypes
    <3>5. ratchet'[q] = ratchet[q]
      BY <1>3, <1>10
    <3>6. Ahead(p, q)'
      BY <1>2, <1>11, <3>1, <3>4, <3>5 DEF Ahead
    <3> QED
      BY <2>1, <3>6
  <2>2. CASE x = q
    <3>1. Ahead(q, p)
      BY <1>3, <1>14, <2>2
    <3>2. ratchet'[q] = ratchet[q]
      BY <1>3, <1>10
    <3>3. Ahead(q, p)'
      BY <1>2, <1>11, <3>1, <3>2 DEF Ahead
    <3> QED
      BY <1>3, <2>2, <3>3
  <2> QED
    BY <1>3, <2>1, <2>2
<1>16. Covered(ratchet'[p], ratchet'[p].skipped \union evicted'[p], opened'[p], sent[Peer(p)])
  BY <1>9, <1>13
<1>17. SenderInv(ratchet'[p], sent[p]) /\ ratchet'[p].dh_remote < next_key'
  BY <1>2, <1>12
<1> HIDE DEF r, q, s
<1> QED
  BY <1>2, <1>9, <1>10, <1>15, <1>16, <1>17, OpenArrives

(* A party steps only on a message of the chain its peer, ahead till then, *)
(* now sends on; it is ahead itself afterwards.                            *)
LEMMA OpenAfterStepArrives ==
  ASSUME RatchetInv, ProgressInv, CacheAll, ArrivalInv, NEW p \in Parties,
         NEW m \in sent[Peer(p)], OpenAfterStep(p, m)
  PROVE  ArrivalInv'
<1> DEFINE q == Peer(p)
           r == ratchet[p]
           until == OldChainEnd(r, m)
           base == SteppedRoot(r, m.dh_pub)
           stepped == Stepped(r, m.dh_pub, next_key)
           old == SkippedKeys(r.dh_remote, r.receiving_chain, r.recv_n, until)
           new == SkippedKeys(m.dh_pub, base, 0, m.n)
           keys == old \union new
           ids == SkippedIds(r.dh_remote, r.recv_n, until) \o SkippedIds(m.dh_pub, 0, m.n)
           s == ratchet'[p]
<1>1. /\ r \in RatchetState /\ WellFormed(r) /\ TypeOK /\ m \in Envelope
      /\ ReceiveInv(r, opened[p]) /\ SendInv(p, r, sent[p])
  BY ArrivalTypes
<1>2. /\ OpensAfterStep(r, m) /\ Commit(p, m, stepped, keys, ids)
      /\ sent' = sent /\ next_key' = next_key + 1
  BY DEF OpenAfterStep
<1>3. /\ sent[q] \in SUBSET Envelope /\ evicted[p] \in SUBSET SkippedKey /\ next_key \in DhKeys
      /\ ratchet \in [Parties -> RatchetState] /\ evicted \in [Parties -> SUBSET SkippedKey]
      /\ q \in Parties /\ q # p /\ Peer(q) = p /\ Parties = {p, q}
      /\ r.recv_n \in Nat /\ m.n \in Nat /\ m.pn \in Nat /\ m.dh_pub \in DhKeys
      /\ r.send_n \in Nat /\ Len(r.root_key) \in Nat /\ Len(r.receiving_chain) \in Nat
      /\ \A o \in sent[q] : o.n \in Nat /\ Len(o.chain) \in Nat
      /\ \A o \in sent[p] : o.n \in Nat /\ Len(o.chain) \in Nat
  BY <1>1, BothTypes DEF TypeOK, Envelope
<1>4. Ordered(r, evicted[p], sent[q]) /\ \A x, y \in sent[q] : x.dh_pub = y.dh_pub => x.chain = y.chain
  BY <1>3 DEF CacheAll, CacheInv, ProgressInv, HeaderInv
<1>5. /\ WellFormed(stepped) /\ Len(base) = Len(r.root_key) + 1 /\ m.chain = base
      /\ Len(stepped.root_key) = Len(r.root_key) + 2
  BY <1>1, <1>2, <1>3, SteppedFrame DEF OpensAfterStep
<1>6. /\ stepped.root_key = Append(base, {next_key, m.dh_pub}) /\ stepped.dh_self = next_key
      /\ stepped.dh_remote = m.dh_pub /\ stepped.sending_chain = stepped.root_key
      /\ stepped.receiving_chain = base /\ stepped.prev_chain_len = r.send_n
      /\ stepped.send_n = 0 /\ stepped.skipped = r.skipped
  BY <1>1 DEF Stepped, NewSendingChain, ChainEnd, RatchetState
<1>7. Ordered(Extended(stepped, keys, ids, m.n), evicted[p], sent[q])
  <2>1. m \in sent[q]
    OBVIOUS
  <2> HIDE DEF r, q
  <2> QED
    BY <1>1, <1>2, <1>3, <1>4, <2>1, StepOrdered
<1>8. keys \in SUBSET SkippedKey /\ ids \in Seq(DhKeys \X Nat)
  <2>1. r.receiving_chain # NoChain => Len(r.receiving_chain) < Len(r.root_key)
    BY <1>1 DEF ReceiveInv
  <2>2. m.chain = SteppedRoot(r, m.dh_pub) /\ m.dh_pub # r.dh_remote
    BY <1>2 DEF OpensAfterStep
  <2> HIDE DEF r
  <2> QED
    BY <1>1, <2>1, <2>2, StepSkips
<1>9. /\ opened'[p] = opened[p] \union {m}
      /\ \A x \in Parties \ {p} : opened'[x] = opened[x]
  BY <1>1, <1>2 DEF Commit, TypeOK
<1>10. /\ Ahead(q, p) /\ m.chain = ratchet[q].root_key /\ m.dh_pub = ratchet[q].dh_self
       /\ m.pn = ratchet[q].prev_chain_len /\ m.n < ratchet[q].send_n
  BY <1>3, <1>5, NewChainIsPeers
<1>11. /\ SenderInv(r, sent[p]) /\ SenderInv(ratchet[q], sent[q])
       /\ Covered(r, r.skipped \union evicted[p], opened[p], sent[q])
  BY <1>3 DEF ArrivalInv
<1>12. \A o \in sent[q] : o.chain = r.receiving_chain /\ r.recv_n <= o.n => KeyOf(o) \in old
  <2> SUFFICES ASSUME NEW o \in sent[q], o.chain = r.receiving_chain, r.recv_n <= o.n
               PROVE  KeyOf(o) \in old
    OBVIOUS
  <2>1. r.receiving_chain # NoChain
    BY <1>3, BothTypes DEF SendInv
  <2>2. until = m.pn /\ o.n < m.pn
    BY <1>10, <2>1 DEF OldChainEnd, Ahead
  <2>3. o.dh_pub = r.dh_remote
    BY <1>4, <1>11, <2>1 DEF Ordered, SenderInv
  <2>4. o.n \in r.recv_n .. (until - 1)
    BY <1>3, <2>2
  <2> QED
    BY <2>3, <2>4 DEF SkippedKeys, KeyOf
<1>13. \A o \in sent[q] : o.chain = m.chain /\ o.n < m.n => KeyOf(o) \in new
  <2> SUFFICES ASSUME NEW o \in sent[q], o.chain = m.chain, o.n < m.n PROVE KeyOf(o) \in new
    OBVIOUS
  <2>1. o.dh_pub = m.dh_pub /\ o.n \in 0 .. (m.n - 1)
    BY <1>3, <1>11 DEF SenderInv
  <2> QED
    BY <1>5, <2>1 DEF SkippedKeys, KeyOf
<1> HIDE DEF old, new, ids, stepped, base
<1>14. /\ \A x \in Parties \ {p} : ratchet'[x] = ratchet[x] /\ evicted'[x] = evicted[x]
       /\ s.skipped \union evicted'[p] = stepped.skipped \union keys \union evicted[p]
       /\ SameKeys(Extended(stepped, keys, ids, m.n), s)
  <2> DEFINE out == sent[q]
  <2>1. Ordered(Extended(stepped, keys, ids, m.n), evicted[p], out) /\ m \in Envelope
    BY <1>1, <1>7
  <2>2. WellFormed(stepped)
    BY <1>1, <1>5
  <2> HIDE DEF r, keys, q, s, out
  <2>3. /\ \A x \in Parties \ {p} : ratchet'[x] = ratchet[x] /\ evicted'[x] = evicted[x]
        /\ ratchet'[p].skipped \union evicted'[p] = stepped.skipped \union keys \union evicted[p]
        /\ SameKeys(Extended(stepped, keys, ids, m.n), ratchet'[p])
    BY <1>2, <1>3, <1>8, <2>1, <2>2, CommitCaches
  <2> QED
    BY <2>3 DEF s
<1>15. /\ s.root_key = stepped.root_key /\ s.dh_self = next_key /\ s.dh_remote = m.dh_pub
       /\ s.sending_chain = stepped.root_key /\ s.receiving_chain = m.chain
       /\ s.send_n = 0 /\ s.recv_n = m.n + 1 /\ s.prev_chain_len = r.send_n
  BY <1>5, <1>6, <1>14 DEF WellFormed, RatchetState, SameKeys, Extended
<1>16. s.skipped \union evicted'[p] = r.skipped \union old \union new \union evicted[p]
  BY <1>6, <1>14
<1>17. SenderInv(s, sent[p])
  <2>1. \A o \in sent[p] : Len(o.chain) < Len(stepped.root_key) /\ o.chain # stepped.root_key
    <3> SUFFICES ASSUME NEW o \in sent[p] PROVE Len(o.chain) < Len(stepped.root_key)
      BY <1>3
    <3>1. Len(o.chain) <= Len(r.root_key)
      BY <1>3, <1>11 DEF SenderInv
    <3> QED
      BY <1>3, <1>5, <3>1
  <2>2. 0 .. (s.send_n - 1) = {}
    BY <1>15
  <2> QED
    BY <1>11, <1>15, <2>1, <2>2 DEF SenderInv
<1>18. Covered(s, s.skipped \union evicted'[p], opened[p] \union {m}, sent[q])
  <2> SUFFICES ASSUME NEW o \in sent[q], o # m, Len(o.chain) > Len(r.root_key)
               PROVE  KeyOf(o) \in new \/ (o.chain = m.chain /\ o.n >= m.n + 1)
    BY <1>11, <1>12, <1>15, <1>16 DEF Covered
  <2>1. o.chain = m.chain
    BY <1>3, <1>10, NewChainIsPeers
  <2>2. o.n # m.n
    BY <1>3, <2>1, OneMessage
  <2> QED
    BY <1>3, <1>13, <2>1, <2>2
<1>19. s.dh_remote < next_key + 1 /\ ratchet[q].dh_remote # next_key
  <2>1. m.dh_pub < next_key /\ ratchet[q].dh_remote < next_key /\ ratchet[q].dh_remote \in Nat
    BY <1>3, BothTypes DEF ProgressInv, HeaderInv, ArrivalInv
  <2> QED
    BY <1>3, <1>15, <2>1 DEF DhKeys
<1>20. Ahead(p, q)'
  <2>1. s.root_key = Append(ratchet[q].root_key, {ratchet[q].dh_self, s.dh_self})
    <3>1. {next_key, m.dh_pub} = {ratchet[q].dh_self, next_key}
      BY <1>10
    <3> QED
      BY <1>5, <1>6, <1>10, <1>15, <3>1
  <2>2. m.n + 1 <= ratchet[q].send_n
    BY <1>3, <1>10, BothTypes
  <2>3. ratchet[q].receiving_chain = r.root_key
    BY <1>10 DEF Ahead
  <2>4. \A o \in sent[p] : o.chain = r.root_key => o.n < r.send_n
    <3> SUFFICES ASSUME NEW o \in sent[p], o.chain = r.root_key PROVE o.n < r.send_n
      OBVIOUS
    <3> QED
      BY <1>1, <1>11 DEF SenderInv, SendInv
  <2>5. \A i \in 0 .. (r.send_n - 1) : \E o \in sent[p] : o.chain = r.root_key /\ o.n = i
    BY <1>11 DEF SenderInv
  <2>6. ratchet'[q] = ratchet[q]
    BY <1>3, <1>14
  <2>7. s.receiving_chain = ratchet[q].root_key /\ s.recv_n <= ratchet[q].send_n
        /\ ratchet[q].dh_remote # s.dh_self /\ s.prev_chain_len = r.send_n
    BY <1>10, <1>15, <1>19, <2>2
  <2> HIDE DEF q, r
  <2> SUFFICES /\ s.root_key = Append(ratchet[q].root_key, {ratchet[q].dh_self, s.dh_self})
               /\ s.receiving_chain = ratchet[q].root_key
               /\ s.recv_n <= ratchet[q].send_n
               /\ ratchet[q].dh_remote # s.dh_self
               /\ \A o \in sent[p] : o.chain = ratchet[q].receiving_chain => o.n < s.prev_chain_len
               /\ \A i \in 0 .. (s.prev_chain_len - 1) :
                    \E o \in sent[p] : o.chain = ratchet[q].receiving_chain /\ o.n = i
    BY <1>2, <2>6 DEF Ahead
  <2> HIDE DEF s
  <2> QED
    BY <2>1, <2>3, <2>4, <2>5, <2>7
<1>21. Covered(ratchet'[p], ratchet'[p].skipped \union evicted'[p], opened'[p], sent[Peer(p)])
  BY <1>9, <1>18
<1>22. \E x \in Parties : Ahead(x, Peer(x))'
  BY <1>20
<1> HIDE DEF r, q
<1> QED
  BY <1>2, <1>9, <1>14, <1>17, <1>19, <1>21, <1>22, OpenArrives DEF s

LEMMA ArrivalKept ==
  RatchetInv /\ ProgressInv /\ CacheAll /\ ArrivalInv /\ [Next]_vars => ArrivalInv'
<1> SUFFICES ASSUME RatchetInv, ProgressInv, CacheAll, ArrivalInv, [Next]_vars PROVE ArrivalInv'
  OBVIOUS
<1>1. ASSUME NEW p \in Parties, Encrypt(p) PROVE ArrivalInv'
  BY <1>1, EncryptArrives
<1>2. ASSUME NEW p \in Parties, NEW m \in sent[Peer(p)], Open(p, m) PROVE ArrivalInv'
  BY <1>2, OpenCachedArrives, OpenOnChainArrives, OpenAfterStepArrives DEF Open
<1>3. CASE UNCHANGED vars
  BY <1>3 DEF vars, ArrivalInv, SenderInv, Covered, Ahead
<1> QED
  BY <1>1, <1>2, <1>3 DEF Next

(* Of a message no more than max_skip before which are missing, the run of *)
(* a chain still to be skipped is short enough.                            *)
LEMMA ShortSkip ==
  ASSUME RatchetInv, ArrivalInv, NEW p \in Parties, NEW m, NEW from \in Nat, NEW until \in Nat,
         ~(Cardinality(Missing(p, m)) > MaxSkip),
         \A i \in from .. (until - 1) : \E o \in Missing(p, m) : o.n = i
  PROVE  SkipAllowed(from, until)
<1> SUFFICES ASSUME from <= until PROVE until <= from + MaxSkip
  BY BoundsType DEF SkipAllowed
<1>1. IsFiniteSet(Missing(p, m))
  <2>1. Missing(p, m) \subseteq sent[Peer(p)] /\ IsFiniteSet(sent[Peer(p)])
    BY BothTypes DEF Missing, ArrivalInv, SenderInv
  <2> QED
    BY <2>1, FS_Subset
<1> DEFINE c == Cardinality(Missing(p, m))
<1>2. c \in Nat /\ until - from <= c
  <2> DEFINE S == Missing(p, m)
  <2>1. IsFiniteSet(S) /\ \A i \in from .. (until - 1) : \E o \in S : o.n = i
    BY <1>1
  <2> HIDE DEF S
  <2>2. Cardinality(S) \in Nat /\ until - from <= Cardinality(S)
    BY <2>1, RunFits, FS_CardinalityType
  <2> QED
    BY <2>2 DEF S
<1>3. ~(c > MaxSkip)
  OBVIOUS
<1> HIDE DEF c
<1> QED
  BY <1>2, <1>3, BoundsType

(* A message not opened has its key cached, is ahead on the receiving      *)
(* chain, or is the peer's newest chain's; each opens it in its own way.   *)
LEMMA ArrivalsAreOpen ==
  RatchetInv /\ ProgressInv /\ CacheAll /\ ArrivalInv => ArrivalsOpen
<1> SUFFICES ASSUME RatchetInv, ProgressInv, CacheAll, ArrivalInv, NEW p \in Parties,
                    NEW m \in sent[Peer(p)] \ opened[p], KeyOf(m) \notin evicted[p],
                    ~(Cardinality(Missing(p, m)) > MaxSkip)
             PROVE  Opens(ratchet[p], m)
  BY DEF ArrivalsOpen, KeyOf
<1> DEFINE q == Peer(p)
           r == ratchet[p]
<1>1. /\ ReceiveInv(r, opened[p]) /\ q \in Parties /\ m \in sent[q] /\ m \notin opened[p]
      /\ r.recv_n \in Nat /\ m.n \in Nat /\ m.pn \in Nat
      /\ Len(r.root_key) \in Nat /\ Len(r.receiving_chain) \in Nat
      /\ \A o \in sent[q] : o.n \in Nat /\ Len(o.chain) \in Nat /\ o.chain # NoChain
  BY BothTypes DEF SendInv
<1>2. /\ SenderInv(ratchet[q], sent[q])
      /\ Covered(r, r.skipped \union evicted[p], opened[p], sent[q])
      /\ Ordered(r, evicted[p], sent[q])
      /\ \A x, y \in sent[q] : x.dh_pub = y.dh_pub => x.chain = y.chain
  BY <1>1 DEF ArrivalInv, CacheAll, CacheInv, ProgressInv, HeaderInv
<1>3. \A k \in Cached(r, m) : k.chain = m.chain /\ k.n = m.n /\ k \in r.skipped
  BY <1>1, <1>2 DEF Cached, Ordered
<1>4. CASE KeyOf(m) \in r.skipped
  <2>1. KeyOf(m) \in Cached(r, m) /\ KeyOf(m).chain = m.chain
    BY <1>4 DEF Cached, KeyOf
  <2> QED
    BY <2>1 DEF Opens, OpensCached
<1>5. CASE m.chain = r.receiving_chain /\ m.n >= r.recv_n
  <2>1. r.receiving_chain # NoChain
    BY <1>1, <1>5
  <2>2. Cached(r, m) = {}
    <3> SUFFICES ASSUME NEW k \in Cached(r, m) PROVE FALSE
      OBVIOUS
    <3>1. k.n < r.recv_n /\ k.n = m.n
      BY <1>1, <1>3, <1>5, <2>1 DEF ReceiveInv
    <3> QED
      BY <1>1, <1>5, <3>1
  <2>3. m.dh_pub = r.dh_remote
    BY <1>1, <1>2, <1>5, <2>1 DEF Ordered, SenderInv
  <2>4. SkipAllowed(r.recv_n, m.n)
    <3>1. ASSUME NEW i \in r.recv_n .. (m.n - 1)
          PROVE  \E o \in Missing(p, m) : o.n = i
      <4>1. i \in 0 .. (m.n - 1) /\ i >= r.recv_n /\ i < m.n
        BY <1>1
      <4>2. PICK o \in sent[q] : o.chain = m.chain /\ o.n = i
        BY <1>1, <1>2, <4>1 DEF SenderInv
      <4>3. o \notin opened[p]
        BY <1>1, <1>5, <2>1, <4>1, <4>2 DEF ReceiveInv
      <4> QED
        BY <4>1, <4>2, <4>3 DEF Missing
    <3> HIDE DEF r
    <3> QED
      BY <1>1, <3>1, ShortSkip
  <2> QED
    BY <1>5, <2>1, <2>2, <2>3, <2>4 DEF Opens, OpensOnChain
<1>6. CASE Len(m.chain) > Len(r.root_key)
  <2>1. /\ Ahead(q, p) /\ m.chain = SteppedRoot(r, m.dh_pub)
        /\ m.dh_pub = ratchet[q].dh_self /\ m.pn = ratchet[q].prev_chain_len
    BY <1>1, <1>6, NewChainIsPeers
  <2>2. m.dh_pub # r.dh_remote
    BY <2>1 DEF Ahead
  <2>3. Cached(r, m) = {}
    <3> SUFFICES ASSUME NEW k \in Cached(r, m) PROVE FALSE
      OBVIOUS
    <3>1. Len(k.chain) < Len(r.root_key) /\ k.chain = m.chain
      BY <1>1, <1>3 DEF ReceiveInv
    <3> QED
      BY <1>1, <1>6, <3>1
  <2>4. SkipAllowed(0, m.n)
    <3>1. ASSUME NEW i \in 0 .. (m.n - 1) PROVE \E o \in Missing(p, m) : o.n = i
      <4>1. PICK o \in sent[q] : o.chain = m.chain /\ o.n = i
        BY <1>1, <1>2 DEF SenderInv
      <4>2. o \notin opened[p]
        <5>1. ~(Len(m.chain) < Len(r.root_key))
          BY <1>1, <1>6
        <5> QED
          BY <1>1, <4>1, <5>1 DEF ReceiveInv
      <4>3. i < m.n
        BY <1>1
      <4> QED
        BY <4>1, <4>2, <4>3 DEF Missing
    <3>2. 0 \in Nat
      OBVIOUS
    <3> QED
      BY <1>1, <3>1, <3>2, ShortSkip
  <2>5. ASSUME r.receiving_chain # NoChain PROVE SkipAllowed(r.recv_n, m.pn)
    <3>1. r.receiving_chain # m.chain
      BY <1>1, <1>6, <2>5 DEF ReceiveInv
    <3>2. ASSUME NEW i \in r.recv_n .. (m.pn - 1) PROVE \E o \in Missing(p, m) : o.n = i
      <4>1. i \in 0 .. (m.pn - 1) /\ i >= r.recv_n
        BY <1>1
      <4>2. PICK o \in sent[q] : o.chain = r.receiving_chain /\ o.n = i
        BY <2>1, <2>5, <4>1 DEF Ahead
      <4>3. o \notin opened[p]
        BY <1>1, <2>5, <4>1, <4>2 DEF ReceiveInv
      <4> QED
        BY <3>1, <4>2, <4>3 DEF Missing
    <3> HIDE DEF r
    <3> QED
      BY <1>1, <3>2, ShortSkip
  <2> QED
    BY <2>1, <2>2, <2>3, <2>4, <2>5 DEF Opens, OpensAfterStep
<1> QED
  BY <1>1, <1>2, <1>4, <1>5, <1>6 DEF Covered

(* Neither loss, nor reordering, nor a DH step costs a message that still  *)
(* arrives: it opens, unless its own key was evicted from the cache, or    *)
(* more than max_skip messages before it are missing (decrypt_raw,         *)
(* skip_and_derive).                                                       *)
THEOREM ArrivingOpens == Spec => []ArrivalsOpen
<1>1. RatchetInv /\ ProgressInv /\ [Next]_vars => ProgressInv'
  BY ProgressKept
<1>2. RatchetInv /\ ProgressInv /\ CacheAll /\ [Next]_vars => CacheAll'
  BY CacheKept
<1>3. RatchetInv /\ ProgressInv /\ CacheAll /\ ArrivalInv /\ [Next]_vars => ArrivalInv'
  BY ArrivalKept
<1>4. RatchetInv /\ ProgressInv /\ CacheAll /\ ArrivalInv => ArrivalsOpen
  BY ArrivalsAreOpen
<1> QED
  BY <1>1, <1>2, <1>3, <1>4, ProgressInit, CacheInit, ArrivalInit, RatchetCorrect, PTL DEF Spec
=============================================================================
